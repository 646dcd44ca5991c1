--------------------------- MODULE RobotInduction ---------------------------
(* The invariant that makes the safety properties of RobotSafety inductive: *)
(* where the arm stands, which goals may still be in progress, and what the *)
(* devices last did, state by state.                                        *)
EXTENDS RobotSafety

\* The machine as its launch file runs it: home check on, no override, a trajectory
\* filter that answers, and an operator who resets a cell at rest.
Nominal ==
  HomeCheck /\ QuiescentReset /\ Overrides = {} /\ FilterOutcomes = {"OK"}

\* Where the arm stands in the states in which it does not move.
Stand ==
  [WAIT_FOR_ACTIONS |-> "HOME", WAIT_FOR_SERVICES |-> "HOME", SET_MAT_ACTIONS_READY |-> "HOME",
   WAITING |-> "HOME",
   MATERIAL_LOADING |-> "HOME", ML_MOVE_PICK_APPROACH |-> "HOME", ML_MOVE_PICK |-> "APPROACH",
   ML_PICK |-> "PICK", ML_WAIT_PICK |-> "PICK", ML_MOVE_CHUCK |-> "PICK",
   ML_CLOSE_CHUCK |-> "CHUCK", ML_WAIT_CLOSE_CHUCK |-> "CHUCK", ML_RELEASE_PART |-> "CHUCK",
   ML_WAIT_RELEASE_PART |-> "CHUCK", ML_MOVE_DOOR |-> "CHUCK", ML_MOVE_HOME |-> "DOOR",
   MATERIAL_LOADED |-> "HOME",
   MATERIAL_UNLOADING |-> "HOME", MU_MOVE_DOOR |-> "HOME", MU_MOVE_CHUCK |-> "DOOR",
   MU_PICK_PART |-> "CHUCK", MU_WAIT_PICK_PART |-> "CHUCK", MU_OPEN_CHUCK |-> "CHUCK",
   MU_WAIT_OPEN_CHUCK |-> "CHUCK", MU_MOVE_DROP |-> "CHUCK", MU_DROP |-> "DROP",
   MU_WAIT_DROP |-> "DROP", MU_MOVE_HOME |-> "DROP", MATERIAL_UNLOADED |-> "HOME"]

\* Where it is going in the others.
Towards ==
  [ML_WAIT_MOVE_PICK_APPROACH |-> "APPROACH", ML_WAIT_MOVE_PICK |-> "PICK",
   ML_WAIT_MOVE_CHUCK |-> "CHUCK", ML_WAIT_MOVE_DOOR |-> "DOOR", ML_WAIT_MOVE_HOME |-> "HOME",
   MU_WAIT_MOVE_DOOR |-> "DOOR", MU_WAIT_MOVE_CHUCK |-> "CHUCK", MU_WAIT_MOVE_DROP |-> "DROP",
   MU_WAIT_MOVE_HOME |-> "HOME"]

ArmInv ==
  /\ state \in DOMAIN Stand => arm = Stand[state]
  /\ goal["arm"] = "RUNNING" => state \in DOMAIN Towards \cup AbortStates
  /\ state \in DOMAIN Towards =>
       /\ trajectory[2] = Towards[state]
       /\ goal["arm"] = "SUCCEEDED" => arm = Towards[state]

\* The states in which the gripper was told to close (open) and those in which it did.
ClosingGripper == {"ML_WAIT_PICK", "MU_WAIT_PICK_PART"}
GripperClosed ==
  {"ML_MOVE_CHUCK", "ML_WAIT_MOVE_CHUCK", "ML_CLOSE_CHUCK", "ML_WAIT_CLOSE_CHUCK",
   "ML_RELEASE_PART", "MU_OPEN_CHUCK", "MU_WAIT_OPEN_CHUCK", "MU_MOVE_DROP",
   "MU_WAIT_MOVE_DROP", "MU_DROP"}
OpeningGripper == {"ML_WAIT_RELEASE_PART", "MU_WAIT_DROP"}
GripperOpen == {"ML_MOVE_DOOR", "ML_WAIT_MOVE_DOOR", "ML_MOVE_HOME", "ML_WAIT_MOVE_HOME",
                "MATERIAL_LOADED", "MU_MOVE_HOME", "MU_WAIT_MOVE_HOME", "MATERIAL_UNLOADED"}

GripperInv ==
  /\ goal["grasp"] = "SUCCEEDED" => gripper = (IF posture = "GRASP" THEN "CLOSED" ELSE "OPEN")
  /\ state \in ClosingGripper \cup GripperClosed => posture = "GRASP"
  /\ state \in OpeningGripper \cup GripperOpen => posture = "RELEASE"
  /\ state \in GripperClosed \cup GripperOpen => goal["grasp"] = "SUCCEEDED"

\* The arm is, or may be, inside the machine; and the states on the way there.
Inside ==
  {"ML_MOVE_CHUCK", "ML_WAIT_MOVE_CHUCK", "ML_CLOSE_CHUCK", "ML_WAIT_CLOSE_CHUCK",
   "ML_RELEASE_PART", "ML_WAIT_RELEASE_PART", "ML_MOVE_DOOR", "ML_WAIT_MOVE_DOOR",
   "MU_MOVE_CHUCK", "MU_WAIT_MOVE_CHUCK", "MU_PICK_PART", "MU_WAIT_PICK_PART",
   "MU_OPEN_CHUCK", "MU_WAIT_OPEN_CHUCK", "MU_MOVE_DROP", "MU_WAIT_MOVE_DROP"}
OpeningDoor == {"ML_WAIT_MOVE_PICK_APPROACH", "ML_MOVE_PICK", "ML_WAIT_MOVE_PICK", "ML_PICK",
                "ML_WAIT_PICK", "MU_WAIT_MOVE_DOOR"}

DoorInv ==
  /\ goal["closeDoor"] = "RUNNING" => state \in {"ML_WAIT_MOVE_HOME"} \cup AbortStates
  /\ goal["openDoor"] = "RUNNING" => state \in OpeningDoor \cup AbortStates
  /\ state \in OpeningDoor /\ goal["openDoor"] = "SUCCEEDED" => door = "OPEN"
  /\ state \in Inside => door = "OPEN"
  /\ state = "ML_WAIT_MOVE_HOME" /\ goal["closeDoor"] = "SUCCEEDED" => door = "CLOSED"
  /\ state = "MATERIAL_LOADED" => door = "CLOSED"

PartInChuck == {"ML_RELEASE_PART", "ML_WAIT_RELEASE_PART", "ML_MOVE_DOOR", "ML_WAIT_MOVE_DOOR",
                "ML_MOVE_HOME", "ML_WAIT_MOVE_HOME", "MATERIAL_LOADED"}
PartTaken == {"MU_MOVE_DROP", "MU_WAIT_MOVE_DROP", "MU_DROP", "MU_WAIT_DROP", "MU_MOVE_HOME",
              "MU_WAIT_MOVE_HOME", "MATERIAL_UNLOADED"}

ChuckInv ==
  /\ goal["closeChuck"] = "RUNNING" => state \in {"ML_WAIT_CLOSE_CHUCK"} \cup AbortStates
  /\ goal["openChuck"] = "RUNNING" => state \in {"MU_WAIT_OPEN_CHUCK"} \cup AbortStates
  /\ state = "ML_WAIT_CLOSE_CHUCK" /\ goal["closeChuck"] = "SUCCEEDED" => chuck = "CLOSED"
  /\ state \in PartInChuck => chuck = "CLOSED"
  /\ state = "MU_WAIT_OPEN_CHUCK" /\ goal["openChuck"] = "SUCCEEDED" => chuck = "OPEN"
  /\ state \in PartTaken => chuck = "OPEN"

HandlingInv == TypeOK /\ ArmInv /\ GripperInv /\ DoorInv /\ ChuckInv
=============================================================================
