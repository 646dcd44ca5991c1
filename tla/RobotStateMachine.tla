------------------------- MODULE RobotStateMachine -------------------------
(***************************************************************************)
(* The robot side of the cell: mtconnect_state_machine/src/                *)
(* state_machine.cpp.  One thread repeats run(): runOnce() executes the    *)
(* case of the current state, spinOnce() delivers callbacks, and then      *)
(* errorChecks() and overrideChecks() may replace the state.  pc says      *)
(* whether the thread is about to call runOnce ("run") or is delivering    *)
(* callbacks ("spin"); the checks end the "spin" half of the loop.         *)
(*                                                                         *)
(* The devices the node commands through action clients are the            *)
(* environment: the arm, gripper, door, chuck and vise carry out goals at  *)
(* their own pace and report SUCCEEDED or one of the states isActionComplete *)
(* treats alike (PREEMPTED, LOST, REJECTED, ABORTED, RECALLED: "BAD"; LOST *)
(* is also the answer of a client that never sent a goal).                 *)
(* PENDING and ACTIVE, which the node treats alike, are "RUNNING".         *)
(*                                                                         *)
(* Left out: the publishers (they only read the state), message contents,  *)
(* and init(), which only builds the objects the initial state describes.  *)
(***************************************************************************)
EXTENDS Naturals, Sequences

CONSTANTS
  HomeCheck,        \* the home_check parameter
  Fallible,         \* clients whose goals may end badly without being cancelled
  FilterOutcomes,   \* results of the trajectory filter service: "OK", "FAIL"
  ServiceOutcomes,  \* results of the set_mtconnect_state services
  MaterialReports,  \* values the material state parameter may take
  ErrorReports,     \* values of "e_stopped or in_error" in robot_status messages
  Overrides,        \* states the state_override parameter may be set to
  ForcedFaults,     \* states the force_fault parameter may name
  OneGoalAtATime,   \* the bridge sends no load (unload) goal while one is active
  QuiescentReset    \* the operator resets only when every device is at rest

Clients == {"arm", "grasp", "openDoor", "closeDoor", "openChuck", "closeChuck", "vise"}
GoalStates == {"RUNNING", "SUCCEEDED", "BAD"}
Positions == {"HOME", "APPROACH", "PICK", "CHUCK", "DOOR", "DROP", "AWAY"}

-----------------------------------------------------------------------------
(* The states of StateTypes, by the ranges of their numbers.               *)

InitStates == {"INITING", "CHECK_HOME", "WAIT_FOR_ACTIONS", "WAIT_FOR_SERVICES",
               "SET_MAT_ACTIONS_READY"}
LoadStates ==
  {"MATERIAL_LOADING", "ML_MOVE_PICK_APPROACH", "ML_WAIT_MOVE_PICK_APPROACH",
   "ML_MOVE_PICK", "ML_WAIT_MOVE_PICK", "ML_PICK", "ML_WAIT_PICK",
   "ML_MOVE_CHUCK", "ML_WAIT_MOVE_CHUCK", "ML_CLOSE_CHUCK",
   "ML_WAIT_CLOSE_CHUCK", "ML_RELEASE_PART", "ML_WAIT_RELEASE_PART",
   "ML_MOVE_DOOR", "ML_WAIT_MOVE_DOOR", "ML_MOVE_HOME", "ML_WAIT_MOVE_HOME",
   "MATERIAL_LOADED"}
UnloadStates ==
  {"MATERIAL_UNLOADING", "MU_MOVE_DOOR", "MU_WAIT_MOVE_DOOR", "MU_MOVE_CHUCK",
   "MU_WAIT_MOVE_CHUCK", "MU_PICK_PART", "MU_WAIT_PICK_PART", "MU_OPEN_CHUCK",
   "MU_WAIT_OPEN_CHUCK", "MU_MOVE_DROP", "MU_WAIT_MOVE_DROP", "MU_DROP",
   "MU_WAIT_DROP", "MU_MOVE_HOME", "MU_WAIT_MOVE_HOME", "MATERIAL_UNLOADED"}
StopStates == {"STOPPING", "S_SET_MAT_ACTIONS_NOT_READY", "STOPPED"}
AbortStates == {"ABORTING", "ABORT_GOALS", "CANCEL_REQUESTS", "ABORTED"}
ResetStates == {"RESETTING", "R_WAIT_FOR_HOME", "R_SET_MAT_ACTIONS_NOT_READY"}
States == {"IDLE", "WAITING"} \cup InitStates \cup LoadStates \cup UnloadStates
            \cup StopStates \cup AbortStates \cup ResetStates
CycleStates == {"WAITING"} \cup LoadStates \cup UnloadStates  \* CYCLE_BEGIN..CYCLE_END

ASSUME Inputs ==
  /\ HomeCheck \in BOOLEAN /\ OneGoalAtATime \in BOOLEAN /\ QuiescentReset \in BOOLEAN
  /\ Fallible \subseteq Clients
  /\ FilterOutcomes \subseteq {"OK", "FAIL"} /\ FilterOutcomes # {}
  /\ ServiceOutcomes \subseteq BOOLEAN /\ ServiceOutcomes # {}
  /\ MaterialReports \subseteq BOOLEAN /\ MaterialReports # {}
  /\ ErrorReports \subseteq BOOLEAN
  /\ Overrides \subseteq States /\ ForcedFaults \subseteq States

VARIABLES
  pc,             \* half of the loop the thread is in
  state,          \* state_
  cycleStopReq,   \* cycle_stop_req_
  material,       \* material_state_
  matLoadReady,   \* material_load_state_ = READY
  robotError,     \* robot_status_msg_: e_stopped or in_error
  loadGoal,       \* material_load_server_ptr_->isActive()
  unloadGoal,     \* material_unload_server_ptr_->isActive()
  goal,           \* what each action client's getState() answers
  canceled,       \* clients whose running goal has been asked to cancel
  trajectory,     \* <<from, to>> of joint_traj_goal_
  posture,        \* goal of the last grasp goal
  arm, gripper, door, chuck   \* the devices themselves

goals == <<goal, canceled, trajectory, posture>>
devices == <<arm, gripper, door, chuck>>
servers == <<loadGoal, unloadGoal>>
flags == <<cycleStopReq, material, matLoadReady>>
vars == <<pc, state, flags, robotError, servers, goals, devices>>

TypeOK ==
  /\ pc \in {"run", "spin"}
  /\ state \in States
  /\ cycleStopReq \in BOOLEAN /\ material \in BOOLEAN /\ matLoadReady \in BOOLEAN
  /\ robotError \in BOOLEAN
  /\ loadGoal \in BOOLEAN /\ unloadGoal \in BOOLEAN
  /\ goal \in [Clients -> GoalStates]
  /\ canceled \subseteq Clients
  /\ trajectory \in Positions \X Positions
  /\ posture \in {"GRASP", "RELEASE"}
  /\ arm \in Positions
  /\ gripper \in {"OPEN", "CLOSED"} /\ door \in {"OPEN", "CLOSED"} /\ chuck \in {"OPEN", "CLOSED"}

Init ==
  /\ pc = "run"
  /\ state = "IDLE"
  /\ cycleStopReq = FALSE /\ material = FALSE /\ matLoadReady = FALSE
  /\ robotError = FALSE
  /\ loadGoal = FALSE /\ unloadGoal = FALSE
  /\ goal = [c \in Clients |-> "BAD"]
  /\ canceled = {}
  /\ trajectory = <<"HOME", "HOME">>
  /\ posture = "RELEASE"
  /\ arm \in {"HOME", "AWAY"}
  /\ gripper \in {"OPEN", "CLOSED"} /\ door \in {"OPEN", "CLOSED"} /\ chuck \in {"OPEN", "CLOSED"}

-----------------------------------------------------------------------------
(* The tables of the load and unload sequences.                            *)

\* The state the case of a state ends in when nothing goes wrong.
After ==
  [INITING |-> "CHECK_HOME",
   MATERIAL_LOADING |-> "ML_MOVE_PICK_APPROACH",
   ML_MOVE_PICK_APPROACH |-> "ML_WAIT_MOVE_PICK_APPROACH",
   ML_WAIT_MOVE_PICK_APPROACH |-> "ML_MOVE_PICK",
   ML_MOVE_PICK |-> "ML_WAIT_MOVE_PICK", ML_WAIT_MOVE_PICK |-> "ML_PICK",
   ML_PICK |-> "ML_WAIT_PICK", ML_WAIT_PICK |-> "ML_MOVE_CHUCK",
   ML_MOVE_CHUCK |-> "ML_WAIT_MOVE_CHUCK", ML_WAIT_MOVE_CHUCK |-> "ML_CLOSE_CHUCK",
   ML_CLOSE_CHUCK |-> "ML_WAIT_CLOSE_CHUCK", ML_WAIT_CLOSE_CHUCK |-> "ML_RELEASE_PART",
   ML_RELEASE_PART |-> "ML_WAIT_RELEASE_PART", ML_WAIT_RELEASE_PART |-> "ML_MOVE_DOOR",
   ML_MOVE_DOOR |-> "ML_WAIT_MOVE_DOOR", ML_WAIT_MOVE_DOOR |-> "ML_MOVE_HOME",
   ML_MOVE_HOME |-> "ML_WAIT_MOVE_HOME", ML_WAIT_MOVE_HOME |-> "MATERIAL_LOADED",
   MATERIAL_UNLOADING |-> "MU_MOVE_DOOR",
   MU_MOVE_DOOR |-> "MU_WAIT_MOVE_DOOR", MU_WAIT_MOVE_DOOR |-> "MU_MOVE_CHUCK",
   MU_MOVE_CHUCK |-> "MU_WAIT_MOVE_CHUCK", MU_WAIT_MOVE_CHUCK |-> "MU_PICK_PART",
   MU_PICK_PART |-> "MU_WAIT_PICK_PART", MU_WAIT_PICK_PART |-> "MU_OPEN_CHUCK",
   MU_OPEN_CHUCK |-> "MU_WAIT_OPEN_CHUCK", MU_WAIT_OPEN_CHUCK |-> "MU_MOVE_DROP",
   MU_MOVE_DROP |-> "MU_WAIT_MOVE_DROP", MU_WAIT_MOVE_DROP |-> "MU_DROP",
   MU_DROP |-> "MU_WAIT_DROP", MU_WAIT_DROP |-> "MU_MOVE_HOME",
   MU_MOVE_HOME |-> "MU_WAIT_MOVE_HOME", MU_WAIT_MOVE_HOME |-> "MATERIAL_UNLOADED",
   ABORTING |-> "ABORT_GOALS", STOPPING |-> "S_SET_MAT_ACTIONS_NOT_READY",
   STOPPED |-> "IDLE", RESETTING |-> "R_WAIT_FOR_HOME"]

\* moveArm: the trajectory each MOVE state sends.
Moves ==
  [ML_MOVE_PICK_APPROACH |-> <<"HOME", "APPROACH">>, ML_MOVE_PICK |-> <<"APPROACH", "PICK">>,
   ML_MOVE_CHUCK |-> <<"PICK", "CHUCK">>, ML_MOVE_DOOR |-> <<"CHUCK", "DOOR">>,
   ML_MOVE_HOME |-> <<"DOOR", "HOME">>,
   MU_MOVE_DOOR |-> <<"HOME", "DOOR">>, MU_MOVE_CHUCK |-> <<"DOOR", "CHUCK">>,
   MU_MOVE_DROP |-> <<"CHUCK", "DROP">>, MU_MOVE_HOME |-> <<"DROP", "HOME">>]

\* The other goals each commanding state sends (openGripper, openDoor, ...).
Sends ==
  [ML_MOVE_PICK_APPROACH |-> {"grasp", "openDoor"}, ML_PICK |-> {"grasp"},
   ML_CLOSE_CHUCK |-> {"closeChuck", "vise"}, ML_RELEASE_PART |-> {"grasp"},
   ML_MOVE_HOME |-> {"closeDoor"}, MU_MOVE_DOOR |-> {"openDoor"},
   MU_PICK_PART |-> {"grasp"}, MU_OPEN_CHUCK |-> {"openChuck", "vise"}, MU_DROP |-> {"grasp"}]

\* Fault: the unload sequence opens the gripper where it should close it.
GraspingLoadOnly == {"ML_PICK"}

\* closeGripper rather than openGripper.
Grasping == {"ML_PICK", "MU_PICK_PART"}

\* The clients each WAIT state asks, in the order of its && operands.  isChuckClosed
\* asks the gripper's client, not the vise's.
Awaits ==
  [ML_WAIT_MOVE_PICK_APPROACH |-> <<"arm", "grasp">>, ML_WAIT_MOVE_PICK |-> <<"arm">>,
   ML_WAIT_PICK |-> <<"grasp", "openDoor">>, ML_WAIT_MOVE_CHUCK |-> <<"arm">>,
   ML_WAIT_CLOSE_CHUCK |-> <<"closeChuck", "grasp">>, ML_WAIT_RELEASE_PART |-> <<"grasp">>,
   ML_WAIT_MOVE_DOOR |-> <<"arm">>, ML_WAIT_MOVE_HOME |-> <<"arm", "closeDoor">>,
   MU_WAIT_MOVE_DOOR |-> <<"arm", "openDoor">>, MU_WAIT_MOVE_CHUCK |-> <<"arm">>,
   MU_WAIT_PICK_PART |-> <<"grasp">>, MU_WAIT_OPEN_CHUCK |-> <<"openChuck">>,
   MU_WAIT_MOVE_DROP |-> <<"arm">>, MU_WAIT_DROP |-> <<"grasp">>,
   MU_WAIT_MOVE_HOME |-> <<"arm">>]

-----------------------------------------------------------------------------
(* runOnce                                                                  *)

setState(s) == state' = s

\* IDLE and ABORTED wait for an external command.
Rest ==
  /\ state \in {"IDLE", "ABORTED"}
  /\ UNCHANGED <<state, flags, servers, goals>>

\* The cases that only change the state.
Advance ==
  /\ state \in DOMAIN After \ (DOMAIN Moves \cup DOMAIN Sends \cup DOMAIN Awaits)
  /\ setState(After[state])
  /\ UNCHANGED <<flags, servers, goals>>

\* Fault: the check is skipped, as with home_check:=false.
isHomeUnchecked == TRUE

isHome == HomeCheck => arm = "HOME"

CheckHome ==
  /\ state \in {"CHECK_HOME", "R_WAIT_FOR_HOME"}
  /\ setState(IF ~isHome THEN "ABORTING"
              ELSE IF state = "CHECK_HOME" THEN "WAIT_FOR_ACTIONS"
              ELSE "R_SET_MAT_ACTIONS_NOT_READY")
  /\ UNCHANGED <<flags, servers, goals>>

\* isServerConnected of every client, or exists of every service, holds or does not yet.
WaitForConnections ==
  /\ \/ state = "WAIT_FOR_ACTIONS" /\ state' \in {state, "WAIT_FOR_SERVICES"}
     \/ state = "WAIT_FOR_SERVICES" /\ state' \in {state, "SET_MAT_ACTIONS_READY"}
  /\ UNCHANGED <<flags, servers, goals>>

\* setMatLoad(ready): the cached state follows only an accepted call.
setMatLoad(ready, accepted) == matLoadReady' = IF accepted THEN ready ELSE matLoadReady

\* setMatActionsReady: && stops at a failed setMatLoad.
SetMatActionsReady ==
  /\ state = "SET_MAT_ACTIONS_READY"
  /\ \E load, unload \in ServiceOutcomes :
       /\ setMatLoad(TRUE, load)
       /\ setState(IF load /\ unload THEN "WAITING" ELSE "ABORTING")
  /\ UNCHANGED <<cycleStopReq, material, servers, goals>>

\* setMatActionsNotReady: its result is ignored.
SetMatActionsNotReady ==
  /\ state \in {"S_SET_MAT_ACTIONS_NOT_READY", "R_SET_MAT_ACTIONS_NOT_READY"}
  /\ \E load \in ServiceOutcomes : setMatLoad(FALSE, load)
  /\ setState(IF state = "S_SET_MAT_ACTIONS_NOT_READY" THEN "STOPPED" ELSE "IDLE")
  /\ UNCHANGED <<cycleStopReq, material, servers, goals>>

\* Fault: the request is cleared before it is looked at.
WaitingForgetsStop ==
  /\ state = "WAITING"
  /\ cycleStopReq' = FALSE
  /\ setState("WAITING")
  /\ \E accepted \in ServiceOutcomes :
       setMatLoad(material, accepted /\ material # matLoadReady)
  /\ UNCHANGED <<material, servers, goals>>

\* A stop request is consumed; the material flag is passed on in either case.
Waiting ==
  /\ state = "WAITING"
  /\ cycleStopReq' = FALSE
  /\ setState(IF cycleStopReq THEN "STOPPING" ELSE "WAITING")
  /\ \E accepted \in ServiceOutcomes :
       setMatLoad(material, accepted /\ material # matLoadReady)
  /\ UNCHANGED <<material, servers, goals>>

\* Fault: the client keeps actionlib's PENDING, which no case of the loop knows.
SendGoalsPending(cs) ==
  /\ goal' = [c \in Clients |-> IF c \in cs THEN "PENDING" ELSE goal[c]]
  /\ canceled' = canceled \ cs

\* sendGoal on every client of cs replaces the goal it was tracking.
SendGoals(cs) ==
  /\ goal' = [c \in Clients |-> IF c \in cs THEN "RUNNING" ELSE goal[c]]
  /\ canceled' = canceled \ cs

\* A state that sends goals.  moveArm sends the trajectory only if the filter
\* succeeds; the ABORTING it sets otherwise is overwritten by the case's setState.
SendCommands ==
  /\ state \in DOMAIN Moves \cup DOMAIN Sends
  /\ state = "ML_PICK" => material
  /\ \E filter \in FilterOutcomes :
       LET moved == state \in DOMAIN Moves /\ filter = "OK"
           sent  == (IF moved THEN {"arm"} ELSE {})
                      \cup (IF state \in DOMAIN Sends THEN Sends[state] ELSE {})
       IN /\ SendGoals(sent)
          /\ trajectory' = IF moved THEN Moves[state] ELSE trajectory
          /\ posture' = IF "grasp" \notin sent THEN posture
                        ELSE IF state \in Grasping THEN "GRASP" ELSE "RELEASE"
  /\ setState(After[state])
  /\ UNCHANGED <<flags, servers>>

PickWithoutMaterial ==
  /\ state = "ML_PICK" /\ ~material
  /\ setState("ABORTING")
  /\ UNCHANGED <<flags, servers, goals>>

\* Faults: || for &&; only the first operand asked.
FirstUnfinishedOfAny(cs) ==
  IF \E i \in DOMAIN cs : goal[cs[i]] = "SUCCEEDED" THEN {} ELSE {cs[1]}
FirstUnfinishedOfOne(cs) ==
  IF goal[cs[1]] = "SUCCEEDED" THEN {} ELSE {cs[1]}

\* isActionComplete of each awaited client, in order, up to the first not SUCCEEDED.
FirstUnfinished(cs) ==
  LET unfinished == {i \in DOMAIN cs : goal[cs[i]] # "SUCCEEDED"}
  IN  {cs[i] : i \in {j \in unfinished : \A k \in unfinished : j <= k}}

AwaitCommands ==
  /\ state \in DOMAIN Awaits
  /\ LET blocking == FirstUnfinished(Awaits[state])
     IN  setState(IF blocking = {} THEN After[state]
                  ELSE IF \E c \in blocking : goal[c] = "RUNNING" THEN state
                  ELSE "ABORTING")
  /\ UNCHANGED <<flags, servers, goals>>

\* setSucceeded acts on the current goal if it is still active.
MaterialLoaded ==
  /\ state = "MATERIAL_LOADED"
  /\ loadGoal' = FALSE
  /\ setState("WAITING")
  /\ UNCHANGED <<flags, unloadGoal, goals>>

MaterialUnloaded ==
  /\ state = "MATERIAL_UNLOADED"
  /\ unloadGoal' = FALSE
  /\ setState("WAITING")
  /\ UNCHANGED <<flags, loadGoal, goals>>

\* Faults: the unload server is forgotten; an abort without a goal is not finished.
abortLoadServerOnly ==
  /\ state = "ABORT_GOALS"
  /\ loadGoal' = FALSE
  /\ setState("CANCEL_REQUESTS")
  /\ UNCHANGED <<flags, unloadGoal, goals>>
abortActiveServers ==
  /\ state = "ABORT_GOALS"
  /\ loadGoal' = FALSE /\ unloadGoal' = FALSE
  /\ setState(IF loadGoal \/ unloadGoal THEN "CANCEL_REQUESTS" ELSE "ABORT_GOALS")
  /\ UNCHANGED <<flags, goals>>

abortActionServers ==
  /\ state = "ABORT_GOALS"
  /\ loadGoal' = FALSE /\ unloadGoal' = FALSE
  /\ setState("CANCEL_REQUESTS")
  /\ UNCHANGED <<flags, goals>>

\* Fault: only the arm is told to stop.
cancelArmOnly ==
  /\ state = "CANCEL_REQUESTS"
  /\ canceled' = {c \in {"arm"} : goal[c] = "RUNNING"}
  /\ setState("ABORTED")
  /\ UNCHANGED <<flags, servers, goal, trajectory, posture>>

cancelActionClients ==
  /\ state = "CANCEL_REQUESTS"
  /\ canceled' = {c \in Clients : goal[c] = "RUNNING"}
  /\ setState("ABORTED")
  /\ UNCHANGED <<flags, servers, goal, trajectory, posture>>

runOnce ==
  /\ pc = "run" /\ pc' = "spin"
  /\ \/ Rest \/ Advance \/ CheckHome \/ WaitForConnections
     \/ SetMatActionsReady \/ SetMatActionsNotReady \/ Waiting
     \/ SendCommands \/ PickWithoutMaterial \/ AwaitCommands
     \/ MaterialLoaded \/ MaterialUnloaded
     \/ abortActionServers \/ cancelActionClients
  /\ UNCHANGED <<robotError, devices>>

-----------------------------------------------------------------------------
(* Callbacks delivered by spinOnce                                          *)

\* A load goal arrives.  Outside WAITING it is accepted only to be aborted, and
\* acceptNewGoal first cancels the goal that was active.
materialLoadGoalCB ==
  /\ pc = "spin"
  /\ OneGoalAtATime => ~loadGoal
  /\ loadGoal' = (state = "WAITING")
  /\ setState(IF state = "WAITING" THEN "MATERIAL_LOADING" ELSE state)
  /\ UNCHANGED <<pc, flags, robotError, unloadGoal, goals, devices>>

\* Fault: an unload goal is also taken while the robot stops.
unloadGoalWhileStopping ==
  /\ pc = "spin"
  /\ OneGoalAtATime => ~unloadGoal
  /\ unloadGoal' = (state \in {"WAITING", "STOPPING"})
  /\ setState(IF state \in {"WAITING", "STOPPING"} THEN "MATERIAL_UNLOADING" ELSE state)
  /\ UNCHANGED <<pc, flags, robotError, loadGoal, goals, devices>>

materialUnloadGoalCB ==
  /\ pc = "spin"
  /\ OneGoalAtATime => ~unloadGoal
  /\ unloadGoal' = (state = "WAITING")
  /\ setState(IF state = "WAITING" THEN "MATERIAL_UNLOADING" ELSE state)
  /\ UNCHANGED <<pc, flags, robotError, loadGoal, goals, devices>>

robotStatusCB ==
  /\ pc = "spin"
  /\ robotError' \in ErrorReports
  /\ UNCHANGED <<pc, state, flags, servers, goals, devices>>

AtRest == \A c \in Clients : goal[c] # "RUNNING"

\* externalCommandCB; a command in the wrong state is refused and changes nothing.
ExternalCommand ==
  /\ pc = "spin"
  /\ \/ /\ state \in CycleStates                      \* STOP
        /\ cycleStopReq' = TRUE
        /\ UNCHANGED state
     \/ /\ state = "ABORTED"                           \* FAULT_RESET
        /\ QuiescentReset => AtRest
        /\ setState("RESETTING")
        /\ UNCHANGED cycleStopReq
     \/ /\ state = "IDLE"                              \* START
        /\ setState("INITING")
        /\ UNCHANGED cycleStopReq
  /\ UNCHANGED <<pc, material, matLoadReady, robotError, servers, goals, devices>>

-----------------------------------------------------------------------------
(* errorChecks and overrideChecks                                           *)

\* Fault: the load sequence, numbered below the unload sequence, is taken for startup.
UpToUnloading == {"IDLE"} \cup InitStates \cup LoadStates \cup StopStates \cup AbortStates

\* ABORTING >= state_ && state_ <= ABORTED is state_ <= ABORTING.
UpToAborting == {"IDLE", "ABORTING"} \cup InitStates \cup StopStates

AfterErrorChecks ==
  IF robotError /\ state \notin UpToAborting THEN "ABORTING" ELSE state

\* A parameter is used once and then reset; material_state follows its parameter.
Checks ==
  /\ pc = "spin" /\ pc' = "run"
  /\ \E s \in {AfterErrorChecks} \cup Overrides :
       \/ setState(s)
       \/ s \in ForcedFaults /\ setState("ABORTING")
  /\ material' \in MaterialReports
  /\ UNCHANGED <<cycleStopReq, matLoadReady, robotError, servers, goals, devices>>

-----------------------------------------------------------------------------
(* The devices                                                              *)

\* The arm leaves the place it was at when its trajectory started.
ArmMoves ==
  /\ goal["arm"] = "RUNNING" /\ arm # "AWAY"
  /\ arm' = "AWAY"
  /\ UNCHANGED <<pc, state, flags, robotError, servers, goals, gripper, door, chuck>>

Finish(c, result) ==
  /\ goal[c] = "RUNNING"
  /\ goal' = [goal EXCEPT ![c] = result]
  /\ canceled' = canceled \ {c}
  /\ UNCHANGED <<pc, state, flags, robotError, servers, trajectory, posture>>

\* A device carries out its goal and the client learns of it.
Succeed(c) ==
  /\ Finish(c, "SUCCEEDED")
  /\ arm' = IF c = "arm" THEN trajectory[2] ELSE arm
  /\ gripper' = IF c # "grasp" THEN gripper
                ELSE IF posture = "GRASP" THEN "CLOSED" ELSE "OPEN"
  /\ door' = CASE c = "openDoor" -> "OPEN" [] c = "closeDoor" -> "CLOSED" [] OTHER -> door
  /\ chuck' = CASE c = "openChuck" -> "OPEN" [] c = "closeChuck" -> "CLOSED" [] OTHER -> chuck

\* A goal ends badly: the device stays as it is.
Fail(c) ==
  /\ c \in Fallible \cup canceled
  /\ Finish(c, "BAD")
  /\ UNCHANGED devices

\* In the states that publish RobotMode::MANUAL the operator may move the arm by hand.
Jog ==
  /\ state \in {"IDLE", "ABORTED"}
  /\ arm' \in {"HOME", "AWAY"}
  /\ UNCHANGED <<pc, state, flags, robotError, servers, goals, gripper, door, chuck>>

Next ==
  \/ runOnce \/ Checks
  \/ materialLoadGoalCB \/ materialUnloadGoalCB \/ robotStatusCB \/ ExternalCommand
  \/ ArmMoves \/ Jog
  \/ \E c \in Clients : Succeed(c) \/ Fail(c)

Spec == Init /\ [][Next]_vars

\* The loop never stops, and a device finishes what it was asked to do.
Fairness ==
  /\ WF_vars(runOnce) /\ WF_vars(Checks)
  /\ \A c \in Clients : WF_vars(Succeed(c) \/ Fail(c))

FairSpec == Spec /\ Fairness

=============================================================================
