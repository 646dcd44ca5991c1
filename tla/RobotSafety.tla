---------------------------- MODULE RobotSafety ----------------------------
(* What the robot's state machine promises the parts, the machine tool and *)
(* the peers that send it goals.                                           *)
EXTENDS RobotStateMachine

\* A material goal is open only while its own sequence, or the abort that will close it,
\* is under way (state_machine.cpp:586-605, 805-842): no path out of a sequence (stop,
\* abort, reset, a goal in the wrong state) leaves a peer waiting for an answer nobody
\* will send.
GoalOwnership ==
  /\ loadGoal => state \in LoadStates \cup {"ABORTING", "ABORT_GOALS"}
  /\ unloadGoal => state \in UnloadStates \cup {"ABORTING", "ABORT_GOALS"}

\* The trajectories of task_description.xml are joint paths between fixed places:
\* each is sent (moveArm, state_machine.cpp:944-981) to an arm that stands still at the
\* place where the path begins.
ContinuousMotion ==
  state \in DOMAIN Moves => arm = Moves[state][1] /\ goal["arm"] # "RUNNING"

\* From pick to release the part is held by the gripper or by the chuck, also while
\* it changes hands (state_machine.cpp:338-372, 451-473).
PartAlwaysHeld ==
  /\ state \in {"ML_MOVE_CHUCK", "ML_WAIT_MOVE_CHUCK", "ML_CLOSE_CHUCK", "ML_WAIT_CLOSE_CHUCK",
                "MU_OPEN_CHUCK", "MU_WAIT_OPEN_CHUCK", "MU_MOVE_DROP", "MU_WAIT_MOVE_DROP"}
       => gripper = "CLOSED"
  /\ state \in {"ML_RELEASE_PART", "ML_WAIT_RELEASE_PART", "ML_MOVE_DOOR"}
       => chuck = "CLOSED" /\ (state # "ML_MOVE_DOOR" => arm = "CHUCK")
  /\ state = "MU_OPEN_CHUCK" => arm = "CHUCK"

\* The arm is inside the machine only behind an open door, which opens while the arm
\* approaches and is awaited several states later (state_machine.cpp:295, 331-337, 414-426).
DoorOpenInside ==
  state \in {"ML_MOVE_CHUCK", "ML_WAIT_MOVE_CHUCK", "ML_CLOSE_CHUCK", "ML_WAIT_CLOSE_CHUCK",
             "ML_RELEASE_PART", "ML_WAIT_RELEASE_PART", "ML_MOVE_DOOR", "ML_WAIT_MOVE_DOOR",
             "MU_MOVE_CHUCK", "MU_WAIT_MOVE_CHUCK", "MU_PICK_PART", "MU_WAIT_PICK_PART",
             "MU_OPEN_CHUCK", "MU_WAIT_OPEN_CHUCK", "MU_MOVE_DROP", "MU_WAIT_MOVE_DROP"}
    => door = "OPEN"

\* "Succeeded" is reported only for work that was done: the part changed hands and
\* the arm is out of the machine (state_machine.cpp:399-404, 499-504).
HonestReport ==
  /\ state = "MATERIAL_LOADED" =>
       arm = "HOME" /\ gripper = "OPEN" /\ chuck = "CLOSED" /\ door = "CLOSED"
  /\ state = "MATERIAL_UNLOADED" => arm = "HOME" /\ gripper = "OPEN" /\ chuck = "OPEN"

\* A robot error seen in a cycle is acted on (errorChecks, state_machine.cpp:688-709) before
\* the next command goes out.
NoCommandUnderError ==
  robotError /\ pc = "run" => state \notin DOMAIN Moves \cup DOMAIN Sends

\* An aborted robot has no goal in progress that was not asked to stop
\* (cancelActionClients, state_machine.cpp:607-619).
AbortedMeansCanceled ==
  state = "ABORTED" => \A c \in Clients : goal[c] = "RUNNING" => c \in canceled

\* A stopped or reset robot stays out of the cycle until it was started and found at home:
\* the arm stands at home, whatever happened to it before, when it accepts work
\* (CHECK_HOME, R_WAIT_FOR_HOME and isHome, state_machine.cpp:215-226, 548-558, 1079-1096).
AtHomeWhenWaiting ==
  state \in {"WAIT_FOR_ACTIONS", "WAIT_FOR_SERVICES", "SET_MAT_ACTIONS_READY", "WAITING",
             "MATERIAL_LOADING", "MATERIAL_UNLOADING"}
    => arm = "HOME" /\ goal["arm"] # "RUNNING"

\* Once the errors are gone every load and unload goal is answered, whatever devices failed:
\* by its sequence's end or by abortActionServers (state_machine.cpp:586-605).
GoalsAnswered ==
  <>[](~robotError) => /\ loadGoal ~> ~loadGoal
                       /\ unloadGoal ~> ~unloadGoal

\* Once the errors are gone an abort runs to its end (state_machine.cpp:509-527).
AbortCompletes ==
  <>[](~robotError) => (state = "ABORTING" ~> state = "ABORTED")

\* A stop request, a flag read in WAITING (state_machine.cpp:262-285), ends in STOPPING,
\* unless an abort or the next goal overtakes it.
StopHonoured ==
  <>[](~robotError) =>
    (cycleStopReq /\ state \in CycleStates ~>
       state \in {"STOPPING", "ABORTED", "MATERIAL_LOADING", "MATERIAL_UNLOADING"})

-----------------------------------------------------------------------------
(* The detailed machine implements RobotModes.                             *)

ModeOf ==
  CASE state = "IDLE" -> "OFF"
    [] state \in InitStates -> "STARTING"
    [] state = "WAITING" -> "READY"
    [] state \in LoadStates -> "LOADING"
    [] state \in UnloadStates -> "UNLOADING"
    [] state \in StopStates -> "STOPPING"
    [] state \in AbortStates -> "FAULT"
    [] state \in ResetStates -> "RESETTING"

Modes == INSTANCE RobotModes WITH mode <- ModeOf, load <- loadGoal, unload <- unloadGoal

\* Every step of the 51-state machine is a step of the eight-mode one: no sequence of
\* errors, faults, commands and goals skips a mode or answers a goal at the wrong time.
ImplementsModes == Modes!Spec

-----------------------------------------------------------------------------
(* Statements of the code's own messages that the code does not keep.      *)

\* "One or more general errors detected, aborting": an error during a cycle that does not
\* go away brings the robot to ABORTED.
ErrorAbortsCycle ==
  (state \in CycleStates /\ robotError) ~> (state = "ABORTED" \/ ~robotError)
=============================================================================
