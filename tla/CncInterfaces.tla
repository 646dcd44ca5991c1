--------------------------- MODULE CncInterfaces ---------------------------
(* The two halves of a handshake on the machine tool's side:               *)
(* simulator/src/request.rb (what the CNC asks of the robot: load, unload) *)
(* and simulator/src/response.rb (what the robot may ask of the CNC: open  *)
(* or close the door or the chuck), as tables from state and event to      *)
(* state.  The effects of entering and leaving a state are in CncContext.  *)
(*                                                                         *)
(* The published value of an interface is a function of its state: the     *)
(* state's own name, except that a processing request still says ACTIVE.   *)

\* What a peer's data item may say.
PeerValues == {"unavailable", "not_ready", "ready", "active", "complete", "failure"}

Requests == {"load", "unload"}
RequestStates == {"not_ready", "ready", "active", "processing", "fail"}

RequestEvents ==
  [not_ready  |-> [activate |-> "active", idle |-> "ready"],
   ready      |-> [ready |-> "active", activate |-> "active"],
   active     |-> [idle |-> "ready", not_ready |-> "ready", failure |-> "fail", active |-> "processing"],
   processing |-> [complete |-> "not_ready"],
   fail       |-> << >>]

\* Faults: a processing request shrugs off what it does not expect; a failed one gives up.
RequestDefaultPatient ==
  [not_ready |-> "not_ready", ready |-> "ready", active |-> "active",
   processing |-> "processing", fail |-> "ready"]
RequestDefaultGivesUp ==
  [not_ready |-> "not_ready", ready |-> "ready", active |-> "active",
   processing |-> "fail", fail |-> "not_ready"]

RequestDefault ==
  [not_ready |-> "not_ready", ready |-> "ready", active |-> "active",
   processing |-> "fail", fail |-> "ready"]

\* Fault: a state's default comes before the superstate's deactivate.
RequestNextDefault(s, e) ==
  IF e = "unavailable" THEN "not_ready"
  ELSE IF e \in DOMAIN RequestEvents[s] THEN RequestEvents[s][e]
  ELSE RequestDefault[s]

\* The superstate's events come before a state's default.
RequestNext(s, e) ==
  IF e \in {"unavailable", "deactivate"} THEN "not_ready"
  ELSE IF e \in DOMAIN RequestEvents[s] THEN RequestEvents[s][e]
  ELSE RequestDefault[s]

Responses == {"openDoor", "closeDoor", "openChuck", "closeChuck"}
ResponseStates == {"not_ready", "ready", "active", "fail", "complete"}

\* The device a response moves, where to, and the response that moves it back.
Device == [openDoor |-> "door", closeDoor |-> "door", openChuck |-> "chuck", closeChuck |-> "chuck"]
Dest == [openDoor |-> "OPEN", closeDoor |-> "CLOSED", openChuck |-> "OPEN", closeChuck |-> "CLOSED"]
Related == [openDoor |-> "closeDoor", closeDoor |-> "openDoor",
            openChuck |-> "closeChuck", closeChuck |-> "openChuck"]

\* door_open, chuck_unlatched, ... are left out: nothing sends them to an interface.
ResponseEvents ==
  [not_ready |-> [ready |-> "ready", failure |-> "fail", active |-> "fail"],
   ready     |-> [active |-> "active", unavailable |-> "not_ready", not_ready |-> "not_ready",
                  failure |-> "fail"],
   active    |-> [complete |-> "complete"],
   fail      |-> [failure |-> "not_ready", not_ready |-> "not_ready"],
   complete  |-> [ready |-> "ready", unavailable |-> "not_ready", not_ready |-> "not_ready"]]

\* An active response fails on anything unexpected; the others stay as they are.
ResponseDefault(s) == IF s = "active" THEN "fail" ELSE s

ResponseNext(s, e) ==
  IF e \in DOMAIN ResponseEvents[s] THEN ResponseEvents[s][e] ELSE ResponseDefault(s)
=============================================================================
