----------------------------- MODULE RobotModes -----------------------------
(* What the robot promises its peers, without its sequences and devices: the *)
(* mode it is in, and whether a load or unload goal is open.  Goals are taken *)
(* only when READY, a fault may strike in any mode, and a faulted robot is   *)
(* reset only after every goal was answered.                                 *)
VARIABLES mode, load, unload

Modes == {"OFF", "STARTING", "READY", "LOADING", "UNLOADING", "STOPPING", "FAULT", "RESETTING"}

Init == mode = "OFF" /\ ~load /\ ~unload

Goals == <<load, unload>>

\* Changes of mode that touch no goal.
Switch(from, to) == mode = from /\ mode' = to /\ UNCHANGED Goals

Operate == \/ Switch("OFF", "STARTING") \/ Switch("STARTING", "READY")
           \/ Switch("READY", "STOPPING") \/ Switch("STOPPING", "OFF")
           \/ Switch("RESETTING", "OFF")

AcceptLoad ==
  mode = "READY" /\ mode' = "LOADING" /\ load' /\ UNCHANGED unload
AcceptUnload ==
  mode = "READY" /\ mode' = "UNLOADING" /\ unload' /\ UNCHANGED load

FinishLoad ==
  mode = "LOADING" /\ mode' = "READY" /\ ~load' /\ UNCHANGED unload
FinishUnload ==
  mode = "UNLOADING" /\ mode' = "READY" /\ ~unload' /\ UNCHANGED load

\* A goal refused in any mode but READY takes the open goal of its kind with it.
RefuseLoad == mode # "READY" /\ ~load' /\ UNCHANGED <<mode, unload>>
RefuseUnload == mode # "READY" /\ ~unload' /\ UNCHANGED <<mode, load>>

Fault == mode' = "FAULT" /\ UNCHANGED Goals
AbortGoals == mode = "FAULT" /\ ~load' /\ ~unload' /\ UNCHANGED mode
Reset == ~load /\ ~unload /\ Switch("FAULT", "RESETTING")

Next == \/ Operate \/ AcceptLoad \/ AcceptUnload \/ FinishLoad \/ FinishUnload
        \/ RefuseLoad \/ RefuseUnload \/ Fault \/ AbortGoals \/ Reset

vars == <<mode, load, unload>>
Spec == Init /\ [][Next]_vars
=============================================================================
