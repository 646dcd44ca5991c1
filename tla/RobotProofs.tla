---------------------------- MODULE RobotProofs ----------------------------
(* Theorems about RobotStateMachine, for every value of its constants that *)
(* the hypotheses admit.                                                    *)
EXTENDS RobotInduction, TLAPS

\* The next state of every case of runOnce is a state of the machine.
LEMMA AfterType ==
  ASSUME NEW s \in DOMAIN After
  PROVE  After[s] \in States
  BY DEF After, States, InitStates, LoadStates, UnloadStates, StopStates, AbortStates, ResetStates

\* A trajectory leads from one named place of the cell to another.
LEMMA MovesType ==
  ASSUME NEW s \in DOMAIN Moves
  PROVE  Moves[s] \in Positions \X Positions
  BY DEF Moves, Positions

\* Every state that sends goals has a state that follows it.
LEMMA CommandsHaveNext ==
  /\ DOMAIN Moves \cup DOMAIN Sends \subseteq DOMAIN After
  /\ DOMAIN Awaits \subseteq DOMAIN After
  BY DEF After, Moves, Sends, Awaits

\* Sending goals keeps the clients' goals and cancellations well typed.
LEMMA SendGoalsType ==
  ASSUME goal \in [Clients -> GoalStates], canceled \subseteq Clients, NEW cs, SendGoals(cs)
  PROVE  goal' \in [Clients -> GoalStates] /\ canceled' \subseteq Clients
  BY DEF SendGoals, GoalStates

\* The node starts with well-typed variables.
LEMMA InitType == Init => TypeOK
<1> SUFFICES ASSUME Init PROVE TypeOK
  OBVIOUS
<1>1. goal \in [Clients -> GoalStates] /\ canceled \subseteq Clients
  BY DEF Init, GoalStates
<1>2. trajectory \in Positions \X Positions /\ arm \in Positions
  BY DEF Init, Positions
<1> QED
  BY <1>1, <1>2 DEF Init, TypeOK, States

\* Every pass of the loop, callback and device step keeps the variables well typed.
LEMMA StepType ==
  ASSUME TypeOK, [Next]_vars
  PROVE  TypeOK'
<1> USE DEF TypeOK
<1>1. CASE runOnce
  <2> USE <1>1 DEF runOnce, flags, servers, goals, devices, setState
  <2>1. CASE Rest
    BY <2>1 DEF Rest
  <2>2. CASE Advance
    BY <2>2, AfterType DEF Advance
  <2>3. CASE CheckHome
    BY <2>3 DEF CheckHome, States, AbortStates, InitStates, ResetStates
  <2>4. CASE WaitForConnections
    BY <2>4 DEF WaitForConnections, States, InitStates
  <2>5. CASE SetMatActionsReady
    BY <2>5, Inputs DEF SetMatActionsReady, setMatLoad, States, AbortStates
  <2>6. CASE SetMatActionsNotReady
    BY <2>6 DEF SetMatActionsNotReady, setMatLoad, States, StopStates
  <2>7. CASE Waiting
    BY <2>7 DEF Waiting, setMatLoad, States, StopStates
  <2>8. CASE SendCommands
    <3>1. After[state] \in States
      BY <2>8, AfterType, CommandsHaveNext DEF SendCommands
    <3>2. state \in DOMAIN Moves => Moves[state] \in Positions \X Positions
      BY MovesType
    <3>3. goal' \in [Clients -> GoalStates] /\ canceled' \subseteq Clients
      BY <2>8, SendGoalsType DEF SendCommands
    <3>4. trajectory' \in Positions \X Positions /\ posture' \in {"GRASP", "RELEASE"}
      BY <2>8, <3>2 DEF SendCommands
    <3> QED
      BY <2>8, <3>1, <3>3, <3>4 DEF SendCommands
  <2>9. CASE PickWithoutMaterial
    BY <2>9 DEF PickWithoutMaterial, States, AbortStates
  <2>10. CASE AwaitCommands
    <3>1. After[state] \in States
      BY <2>10, AfterType, CommandsHaveNext DEF AwaitCommands
    <3> QED
      BY <2>10, <3>1 DEF AwaitCommands, States, AbortStates
  <2>11. CASE MaterialLoaded
    BY <2>11 DEF MaterialLoaded, States
  <2>12. CASE MaterialUnloaded
    BY <2>12 DEF MaterialUnloaded, States
  <2>13. CASE abortActionServers
    BY <2>13 DEF abortActionServers, States, AbortStates
  <2>14. CASE cancelActionClients
    BY <2>14 DEF cancelActionClients, States, AbortStates
  <2> QED
    BY <2>1, <2>2, <2>3, <2>4, <2>5, <2>6, <2>7, <2>8, <2>9, <2>10, <2>11, <2>12, <2>13, <2>14
<1>2. CASE Checks
  BY <1>2, Inputs DEF Checks, AfterErrorChecks, setState, flags, servers, goals, devices,
     States, AbortStates
<1>3. CASE materialLoadGoalCB
  BY <1>3 DEF materialLoadGoalCB, setState, flags, goals, devices, States, LoadStates
<1>4. CASE materialUnloadGoalCB
  BY <1>4 DEF materialUnloadGoalCB, setState, flags, goals, devices, States, UnloadStates
<1>5. CASE robotStatusCB
  BY <1>5, Inputs DEF robotStatusCB, flags, servers, goals, devices
<1>6. CASE ExternalCommand
  BY <1>6 DEF ExternalCommand, setState, servers, goals, devices, States, ResetStates, InitStates
<1>7. CASE ArmMoves
  BY <1>7 DEF ArmMoves, flags, servers, goals, Positions
<1>8. CASE Jog
  BY <1>8 DEF Jog, flags, servers, goals, Positions
<1>9. ASSUME NEW c \in Clients, Succeed(c)
      PROVE  TypeOK'
  BY <1>9 DEF Succeed, Finish, flags, servers, GoalStates
<1>10. ASSUME NEW c \in Clients, Fail(c)
       PROVE  TypeOK'
  BY <1>10 DEF Fail, Finish, flags, servers, devices, GoalStates
<1>11. CASE UNCHANGED vars
  BY <1>11 DEF vars, flags, servers, goals, devices
<1> QED
  BY <1>1, <1>2, <1>3, <1>4, <1>5, <1>6, <1>7, <1>8, <1>9, <1>10, <1>11 DEF Next

\* Every variable keeps its type: in particular every setState of the node names a
\* state with a case in runOnce, so the default case is never reached.
THEOREM TypeCorrect == Spec => []TypeOK
<1> QED
  BY InitType, StepType, PTL DEF Spec

-----------------------------------------------------------------------------
(* What the tables say of the waits.                                        *)

\* FirstUnfinished is empty only if every awaited goal succeeded.
LEMMA AllAwaited ==
  ASSUME NEW s \in DOMAIN Awaits, FirstUnfinished(Awaits[s]) = {}
  PROVE  \A i \in DOMAIN Awaits[s] : goal[Awaits[s][i]] = "SUCCEEDED"
<1> DEFINE U == {i \in DOMAIN Awaits[s] : goal[Awaits[s][i]] # "SUCCEEDED"}
<1>1. DOMAIN Awaits[s] \in {{1}, {1, 2}}
  BY DEF Awaits
<1>2. SUFFICES ASSUME U # {} PROVE FALSE
  OBVIOUS
<1>3. PICK m \in U : \A k \in U : m <= k
  BY <1>1, <1>2
<1>4. Awaits[s][m] \in FirstUnfinished(Awaits[s])
  BY <1>3 DEF FirstUnfinished
<1> QED
  BY <1>4

\* A WAIT state that asks for the arm goes on only when the arm's goal succeeded.
LEMMA ArmAwaited ==
  ASSUME NEW s \in DOMAIN Awaits, FirstUnfinished(Awaits[s]) = {}, s \in DOMAIN Towards
  PROVE  goal["arm"] = "SUCCEEDED"
<1>1. 1 \in DOMAIN Awaits[s] /\ Awaits[s][1] = "arm"
  BY DEF Awaits, Towards
<1> QED
  BY <1>1, AllAwaited

-----------------------------------------------------------------------------
(* The inductive invariant of RobotInduction.                              *)

\* The arm stays where the sequence believes it: every step preserves ArmInv.
LEMMA ArmStep ==
  ASSUME Nominal, TypeOK, ArmInv, [Next]_vars
  PROVE  ArmInv'
<1> USE DEF ArmInv, TypeOK
<1>1. CASE runOnce
  <2> USE <1>1 DEF runOnce, setState, goals, devices, servers, flags, AbortStates
  <2>1. CASE Rest
    BY <2>1 DEF Rest
  <2>2. CASE Advance
    BY <2>2 DEF Advance, After, Moves, Sends, Awaits, Stand, Towards
  <2>3. CASE CheckHome
    BY <2>3 DEF CheckHome, isHome, Nominal, Stand, Towards
  <2>4. CASE WaitForConnections
    BY <2>4 DEF WaitForConnections, Stand, Towards
  <2>5. CASE SetMatActionsReady
    BY <2>5 DEF SetMatActionsReady, Stand, Towards
  <2>6. CASE SetMatActionsNotReady
    BY <2>6 DEF SetMatActionsNotReady, Stand, Towards
  <2>7. CASE Waiting
    BY <2>7 DEF Waiting, Stand, Towards
  <2>8. CASE SendCommands
    <3>1. CASE state \in DOMAIN Moves
      <4>1. trajectory' = Moves[state] /\ goal'["arm"] = "RUNNING" /\ state' = After[state]
        BY <2>8, <3>1 DEF SendCommands, SendGoals, Nominal, Clients
      <4>2. After[state] \in DOMAIN Towards /\ Towards[After[state]] = Moves[state][2]
            /\ After[state] \notin DOMAIN Stand
        BY <3>1 DEF Moves, After, Towards, Stand
      <4> QED
        BY <4>1, <4>2
    <3>2. CASE state \notin DOMAIN Moves
      <4>1. goal'["arm"] = goal["arm"] /\ arm' = arm /\ state' = After[state]
        BY <2>8, <3>2 DEF SendCommands, SendGoals, Clients, Sends
      <4>2. /\ state \in DOMAIN Stand /\ After[state] \in DOMAIN Stand
            /\ Stand[After[state]] = Stand[state]
            /\ state \notin DOMAIN Towards \cup AbortStates
            /\ After[state] \notin DOMAIN Towards
        BY <2>8, <3>2 DEF SendCommands, Moves, Sends, After, Towards, Stand
      <4> QED
        BY <4>1, <4>2
    <3> QED
      BY <3>1, <3>2
  <2>9. CASE PickWithoutMaterial
    BY <2>9 DEF PickWithoutMaterial, Stand, Towards
  <2>10. CASE AwaitCommands
    <3>1. CASE state' = state \/ state' = "ABORTING"
      BY <2>10, <3>1 DEF AwaitCommands, Stand, Towards
    <3>2. CASE state' = After[state] /\ FirstUnfinished(Awaits[state]) = {}
      <4>1. state \in DOMAIN Towards => goal["arm"] = "SUCCEEDED"
        BY <2>10, <3>2, ArmAwaited DEF AwaitCommands
      <4>2. state \in DOMAIN Towards => arm = Towards[state]
        BY <4>1
      <4>3. state \in DOMAIN Awaits
        BY <2>10 DEF AwaitCommands
      <4>4. After[state] \notin DOMAIN Towards /\ After[state] \in DOMAIN Stand
        BY <4>3 DEF Awaits, After, Towards, Stand
      <4>5. CASE state \in DOMAIN Towards
        <5>1. Stand[After[state]] = Towards[state]
          BY <4>5 DEF After, Towards, Stand
        <5> QED
          BY <2>10, <3>2, <4>1, <4>2, <4>4, <4>5, <5>1 DEF AwaitCommands
      <4>6. CASE state \notin DOMAIN Towards
        <5>1. state \in DOMAIN Stand /\ Stand[After[state]] = Stand[state] /\ state \notin AbortStates
          BY <4>3, <4>6 DEF Awaits, After, Towards, Stand
        <5> QED
          BY <2>10, <3>2, <4>4, <4>6, <5>1 DEF AwaitCommands
      <4> QED
        BY <4>5, <4>6
    <3> QED
      BY <2>10, <3>1, <3>2 DEF AwaitCommands
  <2>11. CASE MaterialLoaded
    BY <2>11 DEF MaterialLoaded, Stand, Towards
  <2>12. CASE MaterialUnloaded
    BY <2>12 DEF MaterialUnloaded, Stand, Towards
  <2>13. CASE abortActionServers
    BY <2>13 DEF abortActionServers, Stand, Towards
  <2>14. CASE cancelActionClients
    BY <2>14 DEF cancelActionClients, Stand, Towards
  <2> QED
    BY <2>1, <2>2, <2>3, <2>4, <2>5, <2>6, <2>7, <2>8, <2>9, <2>10, <2>11, <2>12, <2>13, <2>14
<1>2. CASE Checks
  <2>1. state' = state \/ state' = "ABORTING"
    BY <1>2 DEF Checks, AfterErrorChecks, setState, Nominal
  <2> QED
    BY <1>2, <2>1 DEF Checks, goals, devices, AbortStates, Stand, Towards
<1>3. CASE materialLoadGoalCB
  BY <1>3 DEF materialLoadGoalCB, setState, goals, devices, AbortStates, Stand, Towards
<1>4. CASE materialUnloadGoalCB
  BY <1>4 DEF materialUnloadGoalCB, setState, goals, devices, AbortStates, Stand, Towards
<1>5. CASE robotStatusCB
  BY <1>5 DEF robotStatusCB, goals, devices
<1>6. CASE ExternalCommand
  BY <1>6 DEF ExternalCommand, setState, goals, devices, AbortStates, Stand, Towards, Nominal, AtRest, Clients
<1>7. CASE ArmMoves
  <2>1. state \in DOMAIN Towards \cup AbortStates /\ goal["arm"] = "RUNNING"
    BY <1>7 DEF ArmMoves
  <2>2. state \notin DOMAIN Stand
    BY <2>1 DEF Towards, AbortStates, Stand
  <2> QED
    BY <1>7, <2>1, <2>2 DEF ArmMoves, goals
<1>8. CASE Jog
  BY <1>8 DEF Jog, goals, Stand, Towards, AbortStates
<1>9. ASSUME NEW c \in Clients, Succeed(c)
      PROVE  ArmInv'
  <2>1. state' = state /\ trajectory' = trajectory
    BY <1>9 DEF Succeed, Finish
  <2>2. CASE c = "arm"
    <3>1. state \in DOMAIN Towards \cup AbortStates /\ arm' = trajectory[2]
      BY <1>9, <2>2 DEF Succeed, Finish
    <3>2. state \notin DOMAIN Stand
      BY <3>1 DEF Towards, AbortStates, Stand
    <3> QED
      BY <1>9, <2>1, <2>2, <3>1, <3>2 DEF Succeed, Finish, Clients
  <2>3. CASE c # "arm"
    BY <1>9, <2>1, <2>3 DEF Succeed, Finish, Clients
  <2> QED
    BY <2>2, <2>3
<1>10. ASSUME NEW c \in Clients, Fail(c)
       PROVE  ArmInv'
  BY <1>10 DEF Fail, Finish, devices, Clients
<1>11. CASE UNCHANGED vars
  BY <1>11 DEF vars, goals, devices
<1> QED
  BY <1>1, <1>2, <1>3, <1>4, <1>5, <1>6, <1>7, <1>8, <1>9, <1>10, <1>11 DEF Next

\* What an awaiting state can do, and what it knows when it goes on.
LEMMA AwaitStep ==
  ASSUME AwaitCommands
  PROVE  /\ state \in DOMAIN Awaits /\ UNCHANGED <<goal, canceled, trajectory, posture>>
         /\ \/ state' = state
            \/ state' = "ABORTING"
            \/ /\ state' = After[state]
               /\ \A i \in DOMAIN Awaits[state] : goal[Awaits[state][i]] = "SUCCEEDED"
<1>1. state \in DOMAIN Awaits /\ UNCHANGED <<goal, canceled, trajectory, posture>>
  BY DEF AwaitCommands, goals
<1>2. CASE FirstUnfinished(Awaits[state]) = {}
  <2>1. state' = After[state]
    BY <1>2 DEF AwaitCommands, setState
  <2> QED
    BY <1>1, <1>2, <2>1, AllAwaited
<1>3. CASE FirstUnfinished(Awaits[state]) # {}
  BY <1>1, <1>3 DEF AwaitCommands, setState
<1> QED
  BY <1>2, <1>3

\* The gripper's posture and last result fit the state: every step preserves GripperInv.
LEMMA GripperStep ==
  ASSUME Nominal, TypeOK, GripperInv, [Next]_vars
  PROVE  GripperInv'
<1> USE DEF GripperInv, TypeOK, ClosingGripper, GripperClosed, OpeningGripper, GripperOpen
<1>1. CASE runOnce
  <2> USE <1>1 DEF runOnce, setState, goals, devices, servers, flags, AbortStates
  <2>1. CASE SendCommands
    BY <2>1 DEF SendCommands, SendGoals, Moves, Sends, After, Grasping, Clients
  <2>2. CASE AwaitCommands
    <3>1. CASE state' = state \/ state' = "ABORTING"
      BY <2>2, <3>1, AwaitStep
    <3>2. CASE /\ state' = After[state]
               /\ \A i \in DOMAIN Awaits[state] : goal[Awaits[state][i]] = "SUCCEEDED"
      BY <2>2, <3>2, AwaitStep DEF Awaits, After
    <3> QED
      BY <2>2, <3>1, <3>2, AwaitStep
  <2>3. CASE Rest \/ Advance
    BY <2>3 DEF Rest, Advance, After, Moves, Sends, Awaits
  <2>4. CASE CheckHome \/ WaitForConnections \/ SetMatActionsReady \/ SetMatActionsNotReady \/ Waiting
    BY <2>4 DEF CheckHome, WaitForConnections, SetMatActionsReady, SetMatActionsNotReady, Waiting
  <2>5. CASE PickWithoutMaterial \/ MaterialLoaded \/ MaterialUnloaded
    BY <2>5 DEF PickWithoutMaterial, MaterialLoaded, MaterialUnloaded
  <2>6. CASE abortActionServers \/ cancelActionClients
    BY <2>6 DEF abortActionServers, cancelActionClients
  <2> QED
    BY <2>1, <2>2, <2>3, <2>4, <2>5, <2>6
<1>2. CASE Checks
  <2>1. state' = state \/ state' = "ABORTING"
    BY <1>2 DEF Checks, AfterErrorChecks, setState, Nominal
  <2> QED
    BY <1>2, <2>1 DEF Checks, goals, devices, AbortStates
<1>3. CASE materialLoadGoalCB \/ materialUnloadGoalCB \/ robotStatusCB
  BY <1>3 DEF materialLoadGoalCB, materialUnloadGoalCB, robotStatusCB, setState, goals, devices,
     AbortStates
<1>4. CASE ExternalCommand
  BY <1>4 DEF ExternalCommand, setState, goals, devices, AbortStates, Nominal, AtRest, Clients
<1>5. CASE ArmMoves \/ Jog
  BY <1>5 DEF ArmMoves, Jog, goals
<1>6. ASSUME NEW c \in Clients, Succeed(c)
      PROVE  GripperInv'
  BY <1>6 DEF Succeed, Finish, Clients
<1>7. ASSUME NEW c \in Clients, Fail(c)
      PROVE  GripperInv'
  BY <1>7 DEF Fail, Finish, devices, Clients
<1>8. CASE UNCHANGED vars
  BY <1>8 DEF vars, goals, devices
<1> QED
  BY <1>1, <1>2, <1>3, <1>4, <1>5, <1>6, <1>7, <1>8 DEF Next

\* The door is open while the arm is inside: every step preserves DoorInv.
LEMMA DoorStep ==
  ASSUME Nominal, TypeOK, DoorInv, [Next]_vars
  PROVE  DoorInv'
<1> USE DEF DoorInv, TypeOK, Inside, OpeningDoor
<1>1. CASE runOnce
  <2> USE <1>1 DEF runOnce, setState, goals, devices, servers, flags, AbortStates
  <2>1. CASE SendCommands
    BY <2>1 DEF SendCommands, SendGoals, Moves, Sends, After, Grasping, Clients
  <2>2. CASE AwaitCommands
    <3>1. CASE state' = state \/ state' = "ABORTING"
      BY <2>2, <3>1, AwaitStep
    <3>2. CASE /\ state' = After[state]
               /\ \A i \in DOMAIN Awaits[state] : goal[Awaits[state][i]] = "SUCCEEDED"
      BY <2>2, <3>2, AwaitStep DEF Awaits, After
    <3> QED
      BY <2>2, <3>1, <3>2, AwaitStep
  <2>3. CASE Rest \/ Advance
    BY <2>3 DEF Rest, Advance, After, Moves, Sends, Awaits
  <2>4. CASE CheckHome \/ WaitForConnections \/ SetMatActionsReady \/ SetMatActionsNotReady \/ Waiting
    BY <2>4 DEF CheckHome, WaitForConnections, SetMatActionsReady, SetMatActionsNotReady, Waiting
  <2>5. CASE PickWithoutMaterial \/ MaterialLoaded \/ MaterialUnloaded
    BY <2>5 DEF PickWithoutMaterial, MaterialLoaded, MaterialUnloaded
  <2>6. CASE abortActionServers \/ cancelActionClients
    BY <2>6 DEF abortActionServers, cancelActionClients
  <2> QED
    BY <2>1, <2>2, <2>3, <2>4, <2>5, <2>6
<1>2. CASE Checks
  <2>1. state' = state \/ state' = "ABORTING"
    BY <1>2 DEF Checks, AfterErrorChecks, setState, Nominal
  <2> QED
    BY <1>2, <2>1 DEF Checks, goals, devices, AbortStates
<1>3. CASE materialLoadGoalCB \/ materialUnloadGoalCB \/ robotStatusCB
  BY <1>3 DEF materialLoadGoalCB, materialUnloadGoalCB, robotStatusCB, setState, goals, devices,
     AbortStates
<1>4. CASE ExternalCommand
  BY <1>4 DEF ExternalCommand, setState, goals, devices, AbortStates, Nominal, AtRest, Clients
<1>5. CASE ArmMoves \/ Jog
  BY <1>5 DEF ArmMoves, Jog, goals
<1>6. ASSUME NEW c \in Clients, Succeed(c)
      PROVE  DoorInv'
  <2>1. state' = state /\ goal' = [goal EXCEPT ![c] = "SUCCEEDED"] /\ goal[c] = "RUNNING"
    BY <1>6 DEF Succeed, Finish
  <2>2. CASE c = "openDoor"
    BY <1>6, <2>1, <2>2 DEF Succeed, AbortStates
  <2>3. CASE c = "closeDoor"
    BY <1>6, <2>1, <2>3 DEF Succeed, AbortStates
  <2>4. CASE c \notin {"openDoor", "closeDoor"}
    BY <1>6, <2>1, <2>4 DEF Succeed
  <2> QED
    BY <2>2, <2>3, <2>4
<1>7. ASSUME NEW c \in Clients, Fail(c)
      PROVE  DoorInv'
  BY <1>7 DEF Fail, Finish, devices, Clients
<1>8. CASE UNCHANGED vars
  BY <1>8 DEF vars, goals, devices
<1> QED
  BY <1>1, <1>2, <1>3, <1>4, <1>5, <1>6, <1>7, <1>8 DEF Next

\* The chuck holds or frees the part as the sequence believes: every step preserves ChuckInv.
LEMMA ChuckStep ==
  ASSUME Nominal, TypeOK, ChuckInv, [Next]_vars
  PROVE  ChuckInv'
<1> USE DEF ChuckInv, TypeOK, PartInChuck, PartTaken
<1>1. CASE runOnce
  <2> USE <1>1 DEF runOnce, setState, goals, devices, servers, flags, AbortStates
  <2>1. CASE SendCommands
    BY <2>1 DEF SendCommands, SendGoals, Moves, Sends, After, Grasping, Clients
  <2>2. CASE AwaitCommands
    <3>1. CASE state' = state \/ state' = "ABORTING"
      BY <2>2, <3>1, AwaitStep
    <3>2. CASE /\ state' = After[state]
               /\ \A i \in DOMAIN Awaits[state] : goal[Awaits[state][i]] = "SUCCEEDED"
      BY <2>2, <3>2, AwaitStep DEF Awaits, After
    <3> QED
      BY <2>2, <3>1, <3>2, AwaitStep
  <2>3. CASE Rest \/ Advance
    BY <2>3 DEF Rest, Advance, After, Moves, Sends, Awaits
  <2>4. CASE CheckHome \/ WaitForConnections \/ SetMatActionsReady \/ SetMatActionsNotReady \/ Waiting
    BY <2>4 DEF CheckHome, WaitForConnections, SetMatActionsReady, SetMatActionsNotReady, Waiting
  <2>5. CASE PickWithoutMaterial \/ MaterialLoaded \/ MaterialUnloaded
    BY <2>5 DEF PickWithoutMaterial, MaterialLoaded, MaterialUnloaded
  <2>6. CASE abortActionServers \/ cancelActionClients
    BY <2>6 DEF abortActionServers, cancelActionClients
  <2> QED
    BY <2>1, <2>2, <2>3, <2>4, <2>5, <2>6
<1>2. CASE Checks
  <2>1. state' = state \/ state' = "ABORTING"
    BY <1>2 DEF Checks, AfterErrorChecks, setState, Nominal
  <2> QED
    BY <1>2, <2>1 DEF Checks, goals, devices, AbortStates
<1>3. CASE materialLoadGoalCB \/ materialUnloadGoalCB \/ robotStatusCB
  BY <1>3 DEF materialLoadGoalCB, materialUnloadGoalCB, robotStatusCB, setState, goals, devices,
     AbortStates
<1>4. CASE ExternalCommand
  BY <1>4 DEF ExternalCommand, setState, goals, devices, AbortStates, Nominal, AtRest, Clients
<1>5. CASE ArmMoves \/ Jog
  BY <1>5 DEF ArmMoves, Jog, goals
<1>6. ASSUME NEW c \in Clients, Succeed(c)
      PROVE  ChuckInv'
  <2>1. state' = state /\ goal' = [goal EXCEPT ![c] = "SUCCEEDED"] /\ goal[c] = "RUNNING"
    BY <1>6 DEF Succeed, Finish
  <2>2. CASE c = "openChuck"
    BY <1>6, <2>1, <2>2 DEF Succeed, AbortStates
  <2>3. CASE c = "closeChuck"
    BY <1>6, <2>1, <2>3 DEF Succeed, AbortStates
  <2>4. CASE c \notin {"openChuck", "closeChuck"}
    BY <1>6, <2>1, <2>4 DEF Succeed
  <2> QED
    BY <2>2, <2>3, <2>4
<1>7. ASSUME NEW c \in Clients, Fail(c)
      PROVE  ChuckInv'
  BY <1>7 DEF Fail, Finish, devices, Clients
<1>8. CASE UNCHANGED vars
  BY <1>8 DEF vars, goals, devices
<1> QED
  BY <1>1, <1>2, <1>3, <1>4, <1>5, <1>6, <1>7, <1>8 DEF Next

-----------------------------------------------------------------------------
(* The theorems.                                                            *)

\* The handling invariant is inductive together with the types.
THEOREM HandlingCorrect == ASSUME Nominal PROVE Spec => []HandlingInv
<1>1. Init => HandlingInv
  <2> SUFFICES ASSUME Init PROVE ArmInv /\ GripperInv /\ DoorInv /\ ChuckInv /\ TypeOK
    BY DEF HandlingInv
  <2>1. TypeOK
    BY InitType
  <2>2. state = "IDLE" /\ \A c \in Clients : goal[c] = "BAD"
    BY DEF Init
  <2>3. ArmInv
    BY <2>2 DEF ArmInv, Clients, Stand, Towards
  <2>4. GripperInv
    BY <2>2 DEF GripperInv, Clients, ClosingGripper, GripperClosed, OpeningGripper, GripperOpen
  <2>5. DoorInv
    BY <2>2 DEF DoorInv, Clients, Inside, OpeningDoor
  <2>6. ChuckInv
    BY <2>2 DEF ChuckInv, Clients, PartInChuck, PartTaken
  <2> QED
    BY <2>1, <2>3, <2>4, <2>5, <2>6
<1>2. HandlingInv /\ [Next]_vars => HandlingInv'
  BY StepType, ArmStep, GripperStep, DoorStep, ChuckStep DEF HandlingInv
<1> QED
  BY <1>1, <1>2, PTL DEF Spec

\* Every trajectory is sent to an arm at rest at the place where the path begins.
THEOREM MotionIsContinuous == ASSUME Nominal PROVE Spec => []ContinuousMotion
<1>1. HandlingInv => ContinuousMotion
  BY DEF HandlingInv, ArmInv, ContinuousMotion, Moves, Stand, Towards, AbortStates
<1> QED
  BY <1>1, HandlingCorrect, PTL

\* A part taken from its stand is held until it lies in the chuck, and the other way round.
THEOREM PartIsHeld == ASSUME Nominal PROVE Spec => []PartAlwaysHeld
<1>1. HandlingInv => PartAlwaysHeld
  BY DEF HandlingInv, ArmInv, GripperInv, ChuckInv, PartAlwaysHeld, GripperClosed, PartInChuck, Stand
<1> QED
  BY <1>1, HandlingCorrect, PTL

\* The arm never reaches into the machine through a closed door.
THEOREM DoorIsOpenInside == ASSUME Nominal PROVE Spec => []DoorOpenInside
<1>1. HandlingInv => DoorOpenInside
  BY DEF HandlingInv, DoorInv, DoorOpenInside, Inside
<1> QED
  BY <1>1, HandlingCorrect, PTL

\* A goal is reported succeeded only when arm, gripper, chuck and door are where the
\* finished operation leaves them.
THEOREM ReportsAreHonest == ASSUME Nominal PROVE Spec => []HonestReport
<1>1. HandlingInv => HonestReport
  BY DEF HandlingInv, ArmInv, GripperInv, DoorInv, ChuckInv, HonestReport, GripperOpen,
     PartInChuck, PartTaken, Stand
<1> QED
  BY <1>1, HandlingCorrect, PTL

\* The robot takes work only while its arm rests at home.
THEOREM WaitsAtHome == ASSUME Nominal PROVE Spec => []AtHomeWhenWaiting
<1>1. HandlingInv => AtHomeWhenWaiting
  BY DEF HandlingInv, ArmInv, AtHomeWhenWaiting, Stand, Towards, AbortStates
<1> QED
  BY <1>1, HandlingCorrect, PTL

\* Only the state override can replace a state by one its sequence does not lead to.
LEMMA ChecksKeepOrAbort ==
  ASSUME Overrides = {}, Checks
  PROVE  /\ state' = state \/ state' = "ABORTING"
         /\ pc' = "run" /\ UNCHANGED <<robotError, servers, goals>>
         /\ robotError /\ state' = state => state \in UpToAborting
  BY DEF Checks, AfterErrorChecks, UpToAborting, setState

\* No sequence of goals, errors and commands leaves a load or unload goal open outside
\* its own sequence and the abort that closes it.
THEOREM GoalsAreOwned == ASSUME Overrides = {} PROVE Spec => []GoalOwnership
<1>1. Init => GoalOwnership
  BY DEF Init, GoalOwnership
<1>2. TypeOK /\ GoalOwnership /\ [Next]_vars => GoalOwnership'
  <2> SUFFICES ASSUME TypeOK, GoalOwnership, [Next]_vars PROVE GoalOwnership'
    OBVIOUS
  <2> USE DEF GoalOwnership, LoadStates, UnloadStates, TypeOK
  <2>1. CASE runOnce
    <3> USE <2>1 DEF runOnce, setState, servers
    <3>1. CASE Rest \/ Advance
      BY <3>1 DEF Rest, Advance, After, Moves, Sends, Awaits
    <3>2. CASE CheckHome \/ WaitForConnections \/ SetMatActionsReady \/ SetMatActionsNotReady
      <4>1. ~loadGoal /\ ~unloadGoal /\ UNCHANGED servers
        BY <3>2 DEF CheckHome, WaitForConnections, SetMatActionsReady, SetMatActionsNotReady
      <4> QED
        BY <4>1
    <3>3. CASE Waiting \/ PickWithoutMaterial
      BY <3>3 DEF Waiting, PickWithoutMaterial
    <3>4. CASE SendCommands
      BY <3>4 DEF SendCommands, Moves, Sends, After
    <3>5. CASE AwaitCommands
      <4>1. state' \in {state, "ABORTING", After[state]} /\ state \in DOMAIN Awaits
        BY <3>5 DEF AwaitCommands
      <4> QED
        BY <3>5, <4>1 DEF AwaitCommands, Awaits, After
    <3>6. CASE MaterialLoaded \/ MaterialUnloaded \/ abortActionServers \/ cancelActionClients
      BY <3>6 DEF MaterialLoaded, MaterialUnloaded, abortActionServers, cancelActionClients
    <3> QED
      BY <3>1, <3>2, <3>3, <3>4, <3>5, <3>6
  <2>2. CASE Checks
    BY <2>2, ChecksKeepOrAbort DEF servers
  <2>3. CASE materialLoadGoalCB \/ materialUnloadGoalCB
    BY <2>3 DEF materialLoadGoalCB, materialUnloadGoalCB, setState
  <2>4. CASE robotStatusCB \/ ExternalCommand \/ ArmMoves \/ Jog
    BY <2>4 DEF robotStatusCB, ExternalCommand, setState, ArmMoves, Jog, servers
  <2>5. ASSUME NEW c \in Clients, Succeed(c) \/ Fail(c)
        PROVE  GoalOwnership'
    BY <2>5 DEF Succeed, Fail, Finish, servers
  <2>6. CASE UNCHANGED vars
    BY <2>6 DEF vars, servers
  <2> QED
    BY <2>1, <2>2, <2>3, <2>4, <2>5, <2>6 DEF Next
<1> QED
  BY <1>1, <1>2, TypeCorrect, PTL DEF Spec

\* An error reported by the robot controller is acted on before the next command.
THEOREM ErrorsStopCommands == ASSUME Overrides = {} PROVE Spec => []NoCommandUnderError
<1>1. Init => NoCommandUnderError
  BY DEF Init, NoCommandUnderError
<1>2. TypeOK /\ NoCommandUnderError /\ [Next]_vars => NoCommandUnderError'
  <2> SUFFICES ASSUME TypeOK, NoCommandUnderError, [Next]_vars PROVE NoCommandUnderError'
    OBVIOUS
  <2> USE DEF NoCommandUnderError
  <2>1. CASE Checks
    <3>1. UpToAborting \cap (DOMAIN Moves \cup DOMAIN Sends) = {}
          /\ "ABORTING" \notin DOMAIN Moves \cup DOMAIN Sends
      BY DEF UpToAborting, InitStates, StopStates, Moves, Sends
    <3> QED
      BY <2>1, <3>1, ChecksKeepOrAbort
  <2>2. CASE runOnce
    BY <2>2 DEF runOnce
  <2>3. CASE materialLoadGoalCB \/ materialUnloadGoalCB \/ robotStatusCB \/ ExternalCommand
    BY <2>3 DEF materialLoadGoalCB, materialUnloadGoalCB, robotStatusCB, ExternalCommand
  <2>4. CASE ArmMoves \/ Jog
    BY <2>4 DEF ArmMoves, Jog
  <2>5. ASSUME NEW c \in Clients, Succeed(c) \/ Fail(c)
        PROVE  NoCommandUnderError'
    BY <2>5 DEF Succeed, Fail, Finish
  <2>6. CASE UNCHANGED vars
    BY <2>6 DEF vars
  <2> QED
    BY <2>1, <2>2, <2>3, <2>4, <2>5, <2>6 DEF Next
<1> QED
  BY <1>1, <1>2, TypeCorrect, PTL DEF Spec

\* Whatever was in progress when the robot aborted has been asked to stop.
THEOREM AbortCancels == ASSUME Overrides = {} PROVE Spec => []AbortedMeansCanceled
<1>1. Init => AbortedMeansCanceled
  BY DEF Init, AbortedMeansCanceled
<1>2. TypeOK /\ AbortedMeansCanceled /\ [Next]_vars => AbortedMeansCanceled'
  <2> SUFFICES ASSUME TypeOK, AbortedMeansCanceled, [Next]_vars PROVE AbortedMeansCanceled'
    OBVIOUS
  <2> USE DEF AbortedMeansCanceled, TypeOK
  <2>1. CASE runOnce
    <3> USE <2>1 DEF runOnce, setState, goals
    <3>1. CASE Rest \/ Advance
      BY <3>1 DEF Rest, Advance, After
    <3>2. CASE CheckHome \/ WaitForConnections \/ SetMatActionsReady \/ SetMatActionsNotReady
      BY <3>2 DEF CheckHome, WaitForConnections, SetMatActionsReady, SetMatActionsNotReady
    <3>3. CASE Waiting \/ PickWithoutMaterial \/ MaterialLoaded \/ MaterialUnloaded
      BY <3>3 DEF Waiting, PickWithoutMaterial, MaterialLoaded, MaterialUnloaded
    <3>4. CASE SendCommands
      BY <3>4 DEF SendCommands, Moves, Sends, After
    <3>5. CASE AwaitCommands
      <4>1. state' \in {state, "ABORTING", After[state]} /\ state \in DOMAIN Awaits
        BY <3>5 DEF AwaitCommands
      <4> QED
        BY <3>5, <4>1 DEF AwaitCommands, Awaits, After
    <3>6. CASE abortActionServers \/ cancelActionClients
      BY <3>6 DEF abortActionServers, cancelActionClients
    <3> QED
      BY <3>1, <3>2, <3>3, <3>4, <3>5, <3>6
  <2>2. CASE Checks
    BY <2>2, ChecksKeepOrAbort DEF goals
  <2>3. CASE materialLoadGoalCB \/ materialUnloadGoalCB \/ robotStatusCB \/ ExternalCommand
    BY <2>3 DEF materialLoadGoalCB, materialUnloadGoalCB, robotStatusCB, ExternalCommand, setState,
       goals
  <2>4. CASE ArmMoves \/ Jog
    BY <2>4 DEF ArmMoves, Jog, goals
  <2>5. ASSUME NEW c \in Clients, Succeed(c) \/ Fail(c)
        PROVE  AbortedMeansCanceled'
    BY <2>5 DEF Succeed, Fail, Finish
  <2>6. CASE UNCHANGED vars
    BY <2>6 DEF vars, goals
  <2> QED
    BY <2>1, <2>2, <2>3, <2>4, <2>5, <2>6 DEF Next
<1> QED
  BY <1>1, <1>2, TypeCorrect, PTL DEF Spec

-----------------------------------------------------------------------------
(* Refinement of RobotModes.                                                *)

\* The mode of each range of states, one fact per mode.
LEMMA ModeValue ==
  ASSUME state \in States
  PROVE  /\ state = "IDLE" => ModeOf = "OFF"
         /\ state \in InitStates => ModeOf = "STARTING"
         /\ state = "WAITING" => ModeOf = "READY"
         /\ state \in LoadStates => ModeOf = "LOADING"
         /\ state \in UnloadStates => ModeOf = "UNLOADING"
         /\ state \in StopStates => ModeOf = "STOPPING"
         /\ state \in AbortStates => ModeOf = "FAULT"
         /\ state \in ResetStates => ModeOf = "RESETTING"
  BY DEF ModeOf, States, InitStates, LoadStates, UnloadStates, StopStates, AbortStates, ResetStates

\* The same for the next state.
LEMMA NextModeValue ==
  ASSUME state' \in States
  PROVE  /\ state' = "IDLE" => ModeOf' = "OFF"
         /\ state' \in InitStates => ModeOf' = "STARTING"
         /\ state' = "WAITING" => ModeOf' = "READY"
         /\ state' \in LoadStates => ModeOf' = "LOADING"
         /\ state' \in UnloadStates => ModeOf' = "UNLOADING"
         /\ state' \in StopStates => ModeOf' = "STOPPING"
         /\ state' \in AbortStates => ModeOf' = "FAULT"
         /\ state' \in ResetStates => ModeOf' = "RESETTING"
  BY DEF ModeOf, States, InitStates, LoadStates, UnloadStates, StopStates, AbortStates, ResetStates

\* A step that touches no goal changes the mode as Operate and Fault allow.
LEMMA QuietStep ==
  ASSUME TypeOK, TypeOK', UNCHANGED servers,
         \/ state' = state
         \/ state' \in AbortStates
         \/ state = "IDLE" /\ state' = "INITING"
         \/ state \in InitStates /\ state' \in InitStates \cup {"WAITING"}
         \/ state = "WAITING" /\ state' = "STOPPING"
         \/ state \in StopStates \cup ResetStates /\ state' = "IDLE"
         \/ state \in StopStates /\ state' \in StopStates
         \/ state \in ResetStates /\ state' \in ResetStates
         \/ state \in LoadStates /\ state' \in LoadStates
         \/ state \in UnloadStates /\ state' \in UnloadStates
  PROVE  [Modes!Next]_(Modes!vars)
<1> USE ModeValue, NextModeValue DEF TypeOK, servers
<1> USE DEF Modes!Next, Modes!Operate, Modes!Switch, Modes!Goals, Modes!Fault, Modes!vars
<1>1. CASE state' = state
  <2>1. ModeOf' = ModeOf
    BY <1>1 DEF ModeOf
  <2> QED
    BY <2>1
<1>2. CASE state' \in AbortStates
  BY <1>2
<1>3. CASE state = "IDLE" /\ state' = "INITING"
  BY <1>3 DEF InitStates
<1>4. CASE state \in InitStates /\ state' \in InitStates \cup {"WAITING"}
  BY <1>4
<1>5. CASE state = "WAITING" /\ state' = "STOPPING"
  BY <1>5 DEF StopStates
<1>6. CASE state \in StopStates \cup ResetStates /\ state' = "IDLE"
  BY <1>6
<1>7. CASE \/ state \in StopStates /\ state' \in StopStates
           \/ state \in ResetStates /\ state' \in ResetStates
           \/ state \in LoadStates /\ state' \in LoadStates
           \/ state \in UnloadStates /\ state' \in UnloadStates
  BY <1>7
<1> QED
  BY <1>1, <1>2, <1>3, <1>4, <1>5, <1>6, <1>7

\* The tables stay within their own sequence.
LEMMA AfterKeepsMode ==
  ASSUME NEW s \in DOMAIN After
  PROVE  \/ s \in InitStates /\ After[s] \in InitStates
         \/ s \in LoadStates /\ After[s] \in LoadStates
         \/ s \in UnloadStates /\ After[s] \in UnloadStates
         \/ s \in StopStates /\ After[s] \in StopStates \cup {"IDLE"}
         \/ s \in AbortStates /\ After[s] \in AbortStates
         \/ s \in ResetStates /\ After[s] \in ResetStates
  BY DEF After, InitStates, LoadStates, UnloadStates, StopStates, AbortStates, ResetStates

\* Every step of the robot is a step of RobotModes or leaves its variables alone.
LEMMA ModesStep ==
  ASSUME Overrides = {}, TypeOK, TypeOK', GoalOwnership, [Next]_vars
  PROVE  [Modes!Next]_(Modes!vars)
<1> USE DEF TypeOK
<1>1. CASE runOnce
  <2> USE <1>1 DEF runOnce, setState
  <2>1. CASE Rest
    BY <2>1, QuietStep DEF Rest
  <2>2. CASE Advance
    <3>1. state \in DOMAIN After /\ state' = After[state] /\ UNCHANGED servers
      BY <2>2 DEF Advance
    <3> QED
      BY <3>1, AfterKeepsMode, QuietStep
  <2>3. CASE CheckHome \/ WaitForConnections \/ SetMatActionsReady \/ SetMatActionsNotReady
    <3>1. /\ UNCHANGED servers
          /\ \/ state' = "ABORTING"
             \/ state \in InitStates /\ state' \in InitStates \cup {"WAITING"}
             \/ state \in ResetStates /\ state' \in ResetStates \cup {"IDLE"}
             \/ state \in StopStates /\ state' \in StopStates
      BY <2>3 DEF CheckHome, WaitForConnections, SetMatActionsReady, SetMatActionsNotReady,
         InitStates, ResetStates, StopStates
    <3> QED
      BY <3>1, QuietStep DEF AbortStates
  <2>4. CASE Waiting
    BY <2>4, QuietStep DEF Waiting
  <2>5. CASE SendCommands \/ AwaitCommands \/ PickWithoutMaterial
    <3>1. UNCHANGED servers /\ \/ state' \in {state, "ABORTING"}
                               \/ state \in DOMAIN After /\ state' = After[state]
      BY <2>5, CommandsHaveNext DEF SendCommands, AwaitCommands, PickWithoutMaterial
    <3> QED
      BY <3>1, AfterKeepsMode, QuietStep DEF AbortStates
  <2>6. CASE MaterialLoaded
    BY <2>6, ModeValue, NextModeValue
       DEF MaterialLoaded, LoadStates, Modes!Next, Modes!FinishLoad
  <2>7. CASE MaterialUnloaded
    BY <2>7, ModeValue, NextModeValue
       DEF MaterialUnloaded, UnloadStates, Modes!Next, Modes!FinishUnload
  <2>8. CASE abortActionServers
    BY <2>8, ModeValue, NextModeValue
       DEF abortActionServers, AbortStates, Modes!Next, Modes!AbortGoals
  <2>9. CASE cancelActionClients
    BY <2>9, QuietStep DEF cancelActionClients, AbortStates
  <2> QED
    BY <2>1, <2>2, <2>3, <2>4, <2>5, <2>6, <2>7, <2>8, <2>9
<1>2. CASE Checks
  BY <1>2, ChecksKeepOrAbort, QuietStep DEF AbortStates
<1>3. CASE materialLoadGoalCB
  <2>1. CASE state = "WAITING"
    BY <1>3, <2>1, ModeValue, NextModeValue
       DEF materialLoadGoalCB, setState, LoadStates, Modes!Next, Modes!AcceptLoad
  <2>2. CASE state # "WAITING"
    <3>1. state' = state /\ ~loadGoal' /\ UNCHANGED unloadGoal
      BY <1>3, <2>2 DEF materialLoadGoalCB, setState
    <3>2. ModeOf' = ModeOf
      BY <3>1 DEF ModeOf
    <3>3. ModeOf # "READY"
      BY <2>2, ModeValue DEF States
    <3> QED
      BY <3>1, <3>2, <3>3 DEF Modes!Next, Modes!RefuseLoad
  <2> QED
    BY <2>1, <2>2
<1>4. CASE materialUnloadGoalCB
  <2>1. CASE state = "WAITING"
    BY <1>4, <2>1, ModeValue, NextModeValue
       DEF materialUnloadGoalCB, setState, UnloadStates, Modes!Next, Modes!AcceptUnload
  <2>2. CASE state # "WAITING"
    <3>1. state' = state /\ ~unloadGoal' /\ UNCHANGED loadGoal
      BY <1>4, <2>2 DEF materialUnloadGoalCB, setState
    <3>2. ModeOf' = ModeOf
      BY <3>1 DEF ModeOf
    <3>3. ModeOf # "READY"
      BY <2>2, ModeValue DEF States
    <3> QED
      BY <3>1, <3>2, <3>3 DEF Modes!Next, Modes!RefuseUnload
  <2> QED
    BY <2>1, <2>2
<1>5. CASE ExternalCommand
  <2>1. CASE state = "ABORTED" /\ state' = "RESETTING"
    <3>1. ~loadGoal /\ ~unloadGoal /\ UNCHANGED servers
      BY <1>5, <2>1 DEF ExternalCommand, GoalOwnership, LoadStates, UnloadStates
    <3> QED
      BY <2>1, <3>1, ModeValue, NextModeValue
         DEF AbortStates, ResetStates, servers, Modes!Next, Modes!Reset, Modes!Switch, Modes!Goals
  <2>2. CASE ~(state = "ABORTED" /\ state' = "RESETTING")
    BY <1>5, <2>2, QuietStep DEF ExternalCommand, setState
  <2> QED
    BY <2>1, <2>2
<1>6. CASE robotStatusCB \/ ArmMoves \/ Jog
  BY <1>6, QuietStep DEF robotStatusCB, ArmMoves, Jog
<1>7. ASSUME NEW c \in Clients, Succeed(c) \/ Fail(c)
      PROVE  [Modes!Next]_(Modes!vars)
  BY <1>7, QuietStep DEF Succeed, Fail, Finish
<1>8. CASE UNCHANGED vars
  BY <1>8, QuietStep DEF vars
<1> QED
  BY <1>1, <1>2, <1>3, <1>4, <1>5, <1>6, <1>7, <1>8 DEF Next

\* The state machine implements RobotModes: goals are taken only when ready, answered
\* only by their own sequence or an abort, and no reset leaves one open.
THEOREM RobotImplementsModes == ASSUME Overrides = {} PROVE Spec => ImplementsModes
<1>1. Init => Modes!Init
  <2> SUFFICES ASSUME Init PROVE Modes!Init
    OBVIOUS
  <2>1. state = "IDLE" /\ state \in States
    BY DEF Init, States
  <2> QED
    BY <2>1, ModeValue DEF Init, Modes!Init
<1> QED
  BY <1>1, ModesStep, TypeCorrect, GoalsAreOwned, PTL DEF Spec, ImplementsModes, Modes!Spec
=============================================================================
