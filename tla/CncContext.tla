---------------------------- MODULE CncContext ----------------------------
(* The machine tool's side of the cell: simulator/src/cnc.rb with its      *)
(* interfaces request.rb and response.rb.  A hierarchical state machine    *)
(* decides what the CNC asks of the robot; events come from the robot's    *)
(* stream, from the operator, and from threads that sleep: a device that   *)
(* moves, a failed response that resets itself, a machining cycle, the     *)
(* requests' time limits.                                                  *)
(*                                                                         *)
(* An event is processed to its end, with the events it sends itself, in   *)
(* one step: each operator below turns the whole context c into the        *)
(* context after the event.  (CncLocks looks inside such a step.)          *)
(*                                                                         *)
(* External: the statemachine gem.  A transition to the state itself runs  *)
(* no entry action, and an entry action that sends an event leaves the     *)
(* machine where that event took it, as cnc_spec.rb shows.  Whether the    *)
(* remaining entry actions still run is the constant FinishesEntries.      *)
(***************************************************************************)
EXTENDS CncInterfaces, Naturals

CONSTANTS
  FinishesEntries,  \* the library goes on with the inner state's entry action
  PolitePeer,       \* the robot keeps to the handshake
  Interruptions,    \* what else may happen: "robot", "fault", "operator"
  Asked,            \* bound: the responses the robot makes use of
  FailNext,         \* what the simulator may be told to fail: responses, "exec"
  MaxThreads,       \* bound: threads of each kind asleep at a time
  MaxAsleep         \* bound: threads asleep at a time, but for running timers

CncLeaves == {"idle", "cycle_start", "loading", "unloading"}   \* of operational
CncStates == {"not_ready", "fault"} \cup CncLeaves

ASSUME Inputs ==
  /\ FinishesEntries \in BOOLEAN /\ PolitePeer \in BOOLEAN
  /\ Interruptions \subseteq {"robot", "fault", "operator"}
  /\ Asked \subseteq Responses
  /\ FailNext \subseteq Responses \cup {"exec"}
  /\ {MaxThreads, MaxAsleep} \subseteq Nat \ {0}

VARIABLE c   \* the context

ContextType ==
  [cnc     : CncStates,               \* @statemachine.state
   hist    : CncLeaves,               \* what operational_H goes back to
   has     : BOOLEAN,                 \* @has_material
   link    : BOOLEAN,                 \* @link is ENABLED
   system  : BOOLEAN,                 \* @system has a fault
   faults  : BOOLEAN,                 \* @faults is not empty
   robot   : BOOLEAN,                 \* mode, execution and availability as activate wants them
   req     : [Requests -> RequestStates],
   timer   : [Requests -> BOOLEAN],   \* @timer is set
   late    : [Requests -> 0..MaxThreads],   \* timer threads past their sleep
   pending : Requests \cup {"none"},  \* the robot's READY the CNC's machine has still to see
   resp    : [Responses -> ResponseStates],
   active  : BOOLEAN,                 \* @active of the responses
   moving  : [Responses -> 0..MaxThreads],  \* threads that will report a device moved
   resets  : [Responses -> 0..MaxThreads],  \* threads that will reset a failure
   pos     : [{"door", "chuck"} -> {"OPEN", "UNLATCHED", "CLOSED"}],
   exec    : BOOLEAN,                 \* @execution is ACTIVE
   cycles  : 0..MaxThreads,           \* threads that will end a cycle
   failing : SUBSET (Responses \cup {"exec"})]   \* fail_next

TypeOK == c \in ContextType

Init ==
  c = [cnc |-> "not_ready", hist |-> "loading", has |-> FALSE, link |-> TRUE, system |-> FALSE,
       faults |-> FALSE, robot |-> FALSE,
       req |-> [q \in Requests |-> "not_ready"], timer |-> [q \in Requests |-> FALSE],
       late |-> [q \in Requests |-> 0], pending |-> "none",
       resp |-> [r \in Responses |-> "not_ready"], active |-> FALSE,
       moving |-> [r \in Responses |-> 0], resets |-> [r \in Responses |-> 0],
       pos |-> [d \in {"door", "chuck"} |-> "OPEN"],
       exec |-> FALSE, cycles |-> 0, failing |-> {}]

-----------------------------------------------------------------------------
(* Entering and leaving the states of the CNC                               *)

\* Fault: only the processing state is timed.
PutUntimed(x, q, s) ==
  [x EXCEPT !.req[q] = s,
            !.timer[q] = IF "processing" \in {s, x.req[q]} /\ s # x.req[q]
                         THEN s = "processing" ELSE @]

\* A request enters a state: processing and fail start its timer, leaving them kills it.
Put(x, q, s) ==
  [x EXCEPT !.req[q] = s,
            !.timer[q] = IF s # x.req[q] /\ ({s, x.req[q]} \cap {"processing", "fail"} # {})
                         THEN s \in {"processing", "fail"} ELSE @]

Tell(x, q, e) == Put(x, q, RequestNext(x.req[q], e))

\* deactivate, except for a request that is reporting its own failure.
Deactivate(x, q, reporting) == IF q = reporting THEN x ELSE Tell(x, q, "deactivate")

\* Leaving a leaf of operational, towards another leaf or out of operational.
ExitLeaf(x, reporting) ==
  CASE x.cnc = "loading" -> Deactivate(x, "load", reporting)
    [] x.cnc = "unloading" -> Deactivate(x, "unload", reporting)
    [] OTHER -> x
Leave(x) ==
  ExitLeaf([x EXCEPT !.hist = IF x.cnc \in CncLeaves THEN x.cnc ELSE @], "none")

\* Fault: the responses are deactivated, the requests are not.
DisableResponses(x, to) ==
  LET broken == {r \in Responses : x.resp[r] = "active"}
  IN  [x EXCEPT
        !.cnc = IF broken = {} THEN to ELSE "fault",
        !.system = @ \/ broken # {},
        !.active = FALSE,
        !.resp = [r \in Responses |-> IF @[r] \in {"active", "fail"} THEN "fail" ELSE "not_ready"],
        !.resets = [r \in Responses |-> IF r \in broken THEN @[r] + 1 ELSE @[r]]]

\* cnc_not_ready on entry to disabled.  A response deactivated while it is active
\* fails, and a failure faults the machine.
Disable(x, to) ==
  LET broken == {r \in Responses : x.resp[r] = "active"}
      quiet  == Tell(Tell(x, "load", "deactivate"), "unload", "deactivate")
  IN  [quiet EXCEPT
        !.cnc = IF broken = {} THEN to ELSE "fault",
        !.system = @ \/ broken # {},
        !.active = FALSE,
        !.resp = [r \in Responses |-> IF @[r] \in {"active", "fail"} THEN "fail" ELSE "not_ready"],
        !.resets = [r \in Responses |-> IF r \in broken THEN @[r] + 1 ELSE @[r]]]

Fault(x) == IF x.cnc = "fault" THEN x ELSE Disable(Leave(x), "fault")

SystemFault(x) == Fault([x EXCEPT !.system = TRUE])

\* Fault: the chuck is not looked at.
CyclingDoorOnly(x) ==
  IF "exec" \in x.failing THEN [SystemFault(x) EXCEPT !.failing = @ \ {"exec"}]
  ELSE IF x.pos["door"] # "CLOSED" THEN SystemFault(x)
  ELSE [x EXCEPT !.exec = TRUE, !.cycles = @ + 1]

\* Fault: a cycle starts without the thread that ends it.
CyclingForEver(x) ==
  IF "exec" \in x.failing THEN [SystemFault(x) EXCEPT !.failing = @ \ {"exec"}]
  ELSE IF \E d \in DOMAIN x.pos : x.pos[d] # "CLOSED" THEN SystemFault(x)
  ELSE [x EXCEPT !.exec = TRUE]

\* cycling: the preconditions of a cycle start.
Cycling(x) ==
  IF "exec" \in x.failing THEN [SystemFault(x) EXCEPT !.failing = @ \ {"exec"}]
  ELSE IF \E d \in DOMAIN x.pos : x.pos[d] # "CLOSED" THEN SystemFault(x)
  ELSE [x EXCEPT !.exec = TRUE, !.cycles = @ + 1]

\* Fault: an exchange begins without withdrawing the other.
ExchangeOn(x, off, on) == Tell(x, on, "activate")

\* loading, unloading, idle.
Exchange(x, off, on) == Tell(Tell(x, off, "deactivate"), on, "activate")
Loading(x) == IF x.has THEN x ELSE Exchange(x, "unload", "load")
Unloading(x) == IF x.has THEN Exchange(x, "load", "unload") ELSE x
Idle(x, reporting) ==
  LET off == IF x.has THEN "load" ELSE "unload"
      on  == IF x.has THEN "unload" ELSE "load"
      y   == Deactivate(x, off, reporting)
  IN  IF on = reporting THEN y ELSE Tell(y, on, "idle")

Enter(x, leaf, reporting) ==
  LET y == [x EXCEPT !.cnc = leaf]
  IN  CASE leaf = "loading" -> Loading(y)
        [] leaf = "unloading" -> Unloading(y)
        [] leaf = "idle" -> Idle(y, reporting)
        [] leaf = "cycle_start" -> Cycling(y)

\* From one leaf to another.
Go(x, leaf) == Enter(ExitLeaf(x, "none"), leaf, "none")

\* What the CNC needs next, when it becomes operational or stops being idle.
NextExchange(x) == IF x.has THEN "unloading" ELSE "loading"

\* operational_H: the responses become ready, and the machine goes on to the
\* exchange it needs, wherever the history would have taken it.
Operational(x) ==
  LET ready == [x EXCEPT !.active = TRUE,
                  !.resp = [r \in Responses |-> IF @[r] = "not_ready" THEN "ready" ELSE @[r]]]
      moved == Enter(ready, NextExchange(x), "none")
  IN  IF ~FinishesEntries \/ x.hist \in {"loading", "unloading"} THEN moved
      ELSE IF x.hist = "idle" THEN Idle(moved, "none") ELSE Cycling(moved)

\* activate, the entry action of activated.
Activate(x) ==
  LET y == Leave(x)
  IN  IF ~y.faults /\ ~y.system /\ y.link /\ y.robot THEN Operational(y)
      ELSE Disable(y, IF y.faults \/ y.system THEN "fault" ELSE "not_ready")

\* The same with reset_history between leaving and entering.
Forget(x) == [Leave(x) EXCEPT !.hist = "loading", !.cnc = "not_ready"]
ActivateAfresh(x) == Activate(Forget(x))

-----------------------------------------------------------------------------
(* The interfaces' events                                                   *)

\* completed(Request): the event complete of the CNC's machine, whichever request it was.
RequestCompleted(x) ==
  CASE x.cnc = "loading" -> Go([x EXCEPT !.has = TRUE], "cycle_start")
    [] x.cnc = "unloading" -> Go([x EXCEPT !.has = FALSE], "loading")
    [] OTHER -> x

\* failed(Request): the event failed.
RequestFailed(x, q) ==
  IF x.cnc \in {"loading", "unloading"} THEN Enter(ExitLeaf(x, q), "idle", q) ELSE x

\* The request's own transition ends after the CNC's reaction to it.
RequestEvent(x, q, e) ==
  LET s == x.req[q]
      n == RequestNext(s, e)
  IN  CASE s = "processing" /\ e = "complete" -> Put(RequestCompleted(x), q, n)
        [] s = "fail" -> Put(RequestFailed(x, q), q, n)
        [] OTHER -> Put(x, q, n)

\* Fault: a failure does not reset itself.
ResponseFailForEver(x, r) == SystemFault([x EXCEPT !.resp[r] = "fail"])

ResponseFail(x, r) ==
  SystemFault([x EXCEPT !.resp[r] = "fail", !.resets[r] = @ + 1])

\* complete: closing the chuck means holding material, opening it giving it up.
ResponseComplete(x, r) ==
  [x EXCEPT !.resp[r] = "complete", !.pos[Device[r]] = Dest[r],
            !.has = IF Device[r] = "chuck" THEN r = "closeChuck" ELSE @]

\* Fault: the related response is not looked at.
ResponseActiveAlone(x, r) ==
  IF r \in x.failing THEN ResponseFail([x EXCEPT !.failing = @ \ {r}], r)
  ELSE IF x.pos[Device[r]] = Dest[r] THEN ResponseComplete(x, r)
  ELSE [x EXCEPT !.resp[r] = "active", !.pos[Device[r]] = "UNLATCHED", !.moving[r] = @ + 1]

\* active: the device moves only if it has to and its other response is not in the way.
ResponseActive(x, r) ==
  IF r \in x.failing THEN ResponseFail([x EXCEPT !.failing = @ \ {r}], r)
  ELSE IF x.pos[Device[r]] = Dest[r] THEN ResponseComplete(x, r)
  ELSE IF x.resp[Related[r]] \in {"active", "complete"} THEN ResponseFail(x, r)
  ELSE [x EXCEPT !.resp[r] = "active", !.pos[Device[r]] = "UNLATCHED", !.moving[r] = @ + 1]

ResponseEvent(x, r, e) ==
  LET n == ResponseNext(x.resp[r], e)
  IN  IF n = x.resp[r] THEN x
      ELSE CASE n = "ready" -> [x EXCEPT !.resp[r] = IF x.active THEN "ready" ELSE "not_ready"]
             [] n = "active" -> ResponseActive(x, r)
             [] n = "complete" -> ResponseComplete(x, r)
             [] n = "fail" -> ResponseFail(x, r)
             [] OTHER -> [x EXCEPT !.resp[r] = n]

-----------------------------------------------------------------------------
(* The events                                                               *)

OfEach(threads) ==
  threads["openDoor"] + threads["closeDoor"] + threads["openChuck"] + threads["closeChuck"]
Asleep(x) ==
  OfEach(x.moving) + OfEach(x.resets) + x.late["load"] + x.late["unload"] + x.cycles

\* A step to x, within the bounds on sleeping threads.
Becomes(x) ==
  \E y \in {x} :
    /\ \A r \in Responses : y.moving[r] <= MaxThreads /\ y.resets[r] <= MaxThreads
    /\ \A q \in Requests : y.late[q] <= MaxThreads
    /\ y.cycles <= MaxThreads /\ Asleep(y) <= MaxAsleep
    /\ c' = y

Transferring == \E q \in Requests : c.req[q] = "processing"

\* What a robot that keeps to the handshake says: it moves the door and the chuck only
\* during a transfer it accepted, one request at a time, and ends the transfer when
\* none is under way.
PoliteRequest(r, v) ==
  CASE v = "active" -> c.resp[r] = "ready" /\ Transferring
                         /\ \A s \in Responses : c.resp[s] # "active"
    [] v = "ready" -> c.resp[r] \in {"complete", "not_ready"}
    [] v = "failure" -> c.resp[r] = "fail"
    [] OTHER -> FALSE
PoliteResponse(q, v) ==
  CASE v = "active" -> c.req[q] = "active"
    [] v = "complete" -> c.req[q] = "processing" /\ \A s \in Responses : c.resp[s] # "active"
    [] v = "failure" -> c.req[q] \in {"active", "processing"}
    [] v = "ready" -> c.req[q] \in {"ready", "not_ready", "fail"}
    [] v = "not_ready" -> c.req[q] \in {"active", "fail"}
    [] OTHER -> FALSE

\* CncContext#event sends the value to the interface, then to the CNC's own machine.
RobotAsks(r, v) ==
  /\ c.pending = "none"
  /\ PolitePeer => PoliteRequest(r, v)
  /\ Becomes(ResponseEvent(c, r, v))

RobotAnswers(q, v) ==
  /\ c.pending = "none"
  /\ PolitePeer => PoliteResponse(q, v)
  /\ Becomes([RequestEvent(c, q, v) EXCEPT !.pending = IF v = "ready" THEN q ELSE "none"])

\* robot_material_load_ready, robot_material_unload_ready.
MaterialReady ==
  /\ c.pending # "none"
  /\ LET x == [c EXCEPT !.pending = "none"]
     IN  Becomes(CASE x.cnc \in {"not_ready", "fault"} -> Activate(x)
                   [] x.cnc = "idle" -> Go(x, NextExchange(x))
                   [] OTHER -> x)

\* Mode, execution and availability.  Losing mode or execution while operational
\* resets the history, losing availability does not.
RobotStatus ==
  /\ c.pending = "none"
  /\ ~c.robot \/ "robot" \in Interruptions
  /\ \E ok \in BOOLEAN :
       LET x == [c EXCEPT !.robot = ok]
       IN  \/ Becomes(Activate(x))
           \/ ~ok /\ Becomes(IF x.cnc \in CncLeaves THEN ActivateAfresh(x) ELSE Activate(x))

\* Conditions: a robot's fault, a controller's fault, and their end.
Condition ==
  /\ c.pending = "none" /\ "fault" \in Interruptions
  /\ LET bad  == [c EXCEPT !.faults = TRUE]
         good == [c EXCEPT !.faults = FALSE]
     IN  \/ Becomes(IF bad.cnc = "fault" THEN [bad EXCEPT !.hist = "loading"] ELSE Fault(Forget(bad)))
         \/ Becomes(IF bad.cnc = "cycle_start" THEN Fault(bad) ELSE bad)
         \/ Becomes(Activate(good))

\* reset_cnc: the history and every interface's machine; a machine's reset leaves its
\* state without the exit actions, so a timer survives it.
Reset(x) ==
  [x EXCEPT !.system = FALSE, !.hist = "loading", !.resp = [r \in Responses |-> "not_ready"],
            !.req = [q \in Requests |-> "not_ready"]]

\* The operator's enable, disable and reset_cnc are events; the simulator's command
\* line also calls reset_cnc outside of any event, and tells what to fail.
Operator ==
  /\ "operator" \in Interruptions
  /\ \/ \E enabled \in BOOLEAN : Becomes(Activate([c EXCEPT !.link = enabled]))
     \/ Becomes(Activate(Reset(Forget(c))))
     \/ Becomes(Reset(c))
     \/ \E n \in FailNext : Becomes([c EXCEPT !.failing = @ \cup {n}])

\* The sleeping threads.
DeviceMoved(r) ==
  c.moving[r] > 0 /\ Becomes(ResponseEvent([c EXCEPT !.moving[r] = @ - 1], r, "complete"))

FailReset(r) ==
  c.resets[r] > 0 /\ Becomes(ResponseEvent([c EXCEPT !.resets[r] = @ - 1], r, "not_ready"))

CycleDone ==
  /\ c.cycles > 0
  /\ LET x == [c EXCEPT !.cycles = @ - 1, !.exec = FALSE]
     IN  Becomes(IF x.cnc = "cycle_start" THEN Go(x, "unloading") ELSE x)

\* A timer's thread takes itself out of @timer, and then waits for the machine.
TimerWakes(q) ==
  /\ c.timer[q]
  /\ Becomes([c EXCEPT !.timer[q] = FALSE, !.late[q] = @ + 1])

Timeout(q) ==
  c.late[q] > 0 /\ Becomes(RequestEvent([c EXCEPT !.late[q] = @ - 1], q, "timeout"))

Next ==
  \/ \E r \in Asked, v \in PeerValues : RobotAsks(r, v)
  \/ \E q \in Requests, v \in PeerValues : RobotAnswers(q, v)
  \/ MaterialReady \/ RobotStatus \/ Condition \/ Operator \/ CycleDone
  \/ \E r \in Responses : DeviceMoved(r) \/ FailReset(r)
  \/ \E q \in Requests : TimerWakes(q) \/ Timeout(q)

Spec == Init /\ [][Next]_c

\* The stream delivers what it read, and threads wake up.
Fairness ==
  /\ WF_c(MaterialReady) /\ WF_c(CycleDone)
  /\ \A r \in Responses : WF_c(DeviceMoved(r)) /\ WF_c(FailReset(r))
  /\ \A q \in Requests : WF_c(TimerWakes(q)) /\ WF_c(Timeout(q))

FairSpec == Spec /\ Fairness
=============================================================================
