---------------------------- MODULE BridgeServer ----------------------------
(* The robot asks the machine tool to move a door or a chuck, by way of     *)
(* bridge_server.py: a ROS action server per request turns a goal into the  *)
(* handshake ACTIVE, COMPLETE, READY on the data items.  All servers share  *)
(* one XML queue and one flag, capture_xml, that tells the stream's thread   *)
(* whether to fill it.                                                      *)
(*                                                                         *)
(* The machine tool is the response of CncInterfaces with a device that     *)
(* moves, refuses or is disabled whenever it likes.  The agents keep the    *)
(* order of changes and deliver several of them in one chunk.               *)
(***************************************************************************)
EXTENDS CncInterfaces, Sequences, SequencesExt

CONSTANTS
  Actions,      \* the requests served
  OneAtATime,   \* the robot waits for a goal to end before it sends another
  Disables,     \* the machine tool can be disabled while a response is ready or complete
  MaxAway       \* bound: a goal comes when fewer changes than this are under way

ASSUME Inputs == Actions \subseteq Responses /\ {OneAtATime, Disables} \subseteq BOOLEAN /\ MaxAway \in Nat \ {0}

VARIABLES
  resp, pos,  \* the machine tool
  robot,      \* the robot's data items, di_dict
  toCnc,      \* the robot's changes the machine tool has not seen
  stream,     \* the machine tool's changes the bridge has not been sent
  queue,      \* XML_queue
  capture,    \* capture_xml
  goal,       \* where the execute_cb of each action is
  hold,       \* robot_hold
  chunk,      \* what it has still to look at of the chunk it took
  outcome,    \* how the action's last goal ended, until its device gets another goal
  moved,      \* the machine tool completed the action since the goal came
  missed      \* the goal's ACTIVE, or a change that ends or advances it, was thrown away
vars == <<resp, pos, robot, toCnc, stream, queue, capture, goal, hold, chunk, outcome, moved, missed>>
cnc == <<resp, pos, moved>>

\* The values execute_cb does something about; the others are left out of the stream.
Heeded == {"complete", "ready", "fail"}
Change == Actions \X Heeded
Places == {"none", "check", "submit", "capture", "dwell", "leave"}

TypeOK ==
  /\ resp \in [Actions -> ResponseStates]
  /\ pos \in [{"door", "chuck"} -> {"OPEN", "CLOSED", "UNLATCHED"}]
  /\ robot \in [Actions -> {"ready", "active", "fail"}]
  /\ toCnc \in Seq(Actions \X {"ready", "active", "failure"}) /\ stream \in Seq(Change)
  /\ queue \in Seq(Seq(Change))
  /\ capture \in BOOLEAN
  /\ goal \in [Actions -> Places]
  /\ chunk \in [Actions -> Seq(Change)]
  /\ outcome \in [Actions -> {"none", "succeeded", "aborted"}]
  /\ \A f \in {hold, moved, missed} : f \in [Actions -> BOOLEAN]

Init ==
  /\ resp = [r \in Actions |-> "ready"] /\ pos = [d \in {"door", "chuck"} |-> "OPEN"]
  /\ robot = [r \in Actions |-> "ready"]
  /\ toCnc = << >> /\ stream = << >> /\ queue = << >> /\ capture = FALSE
  /\ goal = [r \in Actions |-> "none"] /\ hold = [r \in Actions |-> FALSE]
  /\ chunk = [r \in Actions |-> << >>] /\ outcome = [r \in Actions |-> "none"]
  /\ moved = [r \in Actions |-> FALSE] /\ missed = [r \in Actions |-> FALSE]

-----------------------------------------------------------------------------
(* The machine tool                                                         *)

\* A response enters a state and publishes it.
CncBecomes(r, s) ==
  /\ resp' = [resp EXCEPT ![r] = s]
  /\ stream' = IF s \in Heeded THEN Append(stream, <<r, s>>) ELSE stream
  /\ moved' = [moved EXCEPT ![r] = @ \/ s = "complete"]
  /\ pos' = [pos EXCEPT ![Device[r]] = CASE s = "complete" -> Dest[r]
                                         [] s = "active"   -> "UNLATCHED"
                                         [] OTHER -> @]

InTheWay(r) == Related[r] \in Actions /\ resp[Related[r]] \in {"active", "complete"}

\* The event of the robot's data item; an ACTIVE is ignored by a response that is not ready.
\* A device that is there already is complete at once, after an ACTIVE that nobody heeds.
CncHears ==
  /\ toCnc # << >>
  /\ LET r == Head(toCnc)[1]
         v == Head(toCnc)[2]
         n == ResponseNext(resp[r], v)
     IN  /\ IF n = resp[r] THEN UNCHANGED <<resp, pos, moved, stream>>
            ELSE IF n = "active" /\ pos[Device[r]] = Dest[r] THEN CncBecomes(r, "complete")
            ELSE IF n = "active" /\ InTheWay(r) THEN CncBecomes(r, "fail")
            ELSE CncBecomes(r, n)
         /\ missed' = [missed EXCEPT ![r] = @ \/ (v = "active" /\ n # "active")]
  /\ toCnc' = Tail(toCnc)
  /\ UNCHANGED <<robot, queue, capture, goal, hold, chunk, outcome>>

\* The device arrives or fails; a failure is over; the machine tool is disabled or enabled.
CncMoves(r) ==
  /\ \/ resp[r] = "active" /\ \E s \in {"complete", "fail"} : CncBecomes(r, s)
     \/ resp[r] = "fail" /\ CncBecomes(r, "not_ready")
     \/ Disables /\ resp[r] \in {"ready", "complete"} /\ Len(stream) < MaxAway /\ CncBecomes(r, "not_ready")
     \/ resp[r] = "not_ready" /\ CncBecomes(r, "ready")
  /\ UNCHANGED <<robot, toCnc, queue, capture, goal, hold, chunk, outcome, missed>>

-----------------------------------------------------------------------------
(* The bridge                                                               *)

\* action_cb: a data item that changes is sent; FAIL is the machine tool's failure.
Publish(r, v) ==
  /\ robot' = [robot EXCEPT ![r] = v]
  /\ toCnc' = IF robot[r] = v THEN toCnc
              ELSE Append(toCnc, <<r, IF v = "fail" THEN "failure" ELSE v>>)

Goal(r) ==
  /\ goal[r] = "none"
  /\ OneAtATime => \A a \in Actions : goal[a] = "none"
  /\ Len(toCnc) + Len(stream) + Len(FlattenSeq(queue)) < MaxAway
  /\ goal' = [goal EXCEPT ![r] = "check"]
  /\ outcome' = [a \in Actions |-> IF Device[a] = Device[r] THEN "none" ELSE outcome[a]]
  /\ moved' = [moved EXCEPT ![r] = FALSE]
  /\ UNCHANGED <<resp, pos, robot, toCnc, stream, queue, capture, hold, chunk, missed>>

\* The agent is asked for the current value.
Check(r) ==
  /\ goal[r] = "check"
  /\ IF resp[r] = "ready"
     THEN goal' = [goal EXCEPT ![r] = "submit"] /\ UNCHANGED outcome
     ELSE goal' = [goal EXCEPT ![r] = "none"] /\ outcome' = [outcome EXCEPT ![r] = "aborted"]
  /\ UNCHANGED <<cnc, robot, toCnc, stream, queue, capture, hold, chunk, missed>>

\* Fault: robot_hold keeps the value of the goal before.
SubmitHeld(r) ==
  /\ goal[r] = "submit"
  /\ Publish(r, "active")
  /\ goal' = [goal EXCEPT ![r] = "capture"]
  /\ UNCHANGED <<cnc, stream, queue, capture, hold, chunk, outcome, missed>>

Submit(r) ==
  /\ goal[r] = "submit"
  /\ Publish(r, "active")
  /\ goal' = [goal EXCEPT ![r] = "capture"] /\ hold' = [hold EXCEPT ![r] = FALSE]
  /\ UNCHANGED <<cnc, stream, queue, capture, chunk, outcome, missed>>

Capture(r) ==
  /\ goal[r] = "capture"
  /\ capture' = TRUE
  /\ goal' = [goal EXCEPT ![r] = "dwell"]
  /\ UNCHANGED <<cnc, robot, toCnc, stream, queue, hold, chunk, outcome, missed>>

\* The goals that wait for a change among these, and do not get it.
Misses(changes, r) ==
  goal[r] \in {"capture", "dwell"} /\ \E v \in {"complete", "fail"} : <<r, v>> \in Range(changes)

\* xml_callback: the next chunk, of any number of changes, is queued or dropped.
XmlCallback ==
  /\ \E n \in 1..Len(stream) :
       /\ stream' = SubSeq(stream, n + 1, Len(stream))
       /\ LET changes == SubSeq(stream, 1, n)
          IN  /\ queue' = IF capture THEN Append(queue, changes) ELSE queue
              /\ missed' = [r \in Actions |-> missed[r] \/ (~capture /\ Misses(changes, r))]
  /\ UNCHANGED <<cnc, robot, toCnc, capture, goal, hold, chunk, outcome>>

\* A server takes a chunk from the queue.
Take(r) ==
  /\ goal[r] = "dwell" /\ chunk[r] = << >> /\ queue # << >>
  /\ chunk' = [chunk EXCEPT ![r] = Head(queue)]
  /\ missed' = [a \in Actions |-> missed[a] \/ (a # r /\ Misses(Head(queue), a))]
  /\ queue' = Tail(queue)
  /\ UNCHANGED <<cnc, robot, toCnc, stream, capture, goal, hold, outcome>>

\* A goal that has ended keeps its end.
End(r, how) ==
  /\ goal' = [goal EXCEPT ![r] = "leave"]
  /\ capture' = FALSE
  /\ outcome' = IF outcome[r] = "none" THEN [outcome EXCEPT ![r] = how] ELSE outcome

\* Fault: any READY ends the goal, and COMPLETE is not answered.
LookEager(r) ==
  /\ goal[r] \in {"dwell", "leave"} /\ chunk[r] # << >>
  /\ chunk' = [chunk EXCEPT ![r] = Tail(@)]
  /\ LET e == Head(chunk[r])
     IN  IF e = <<r, "ready">> THEN End(r, "succeeded") /\ UNCHANGED <<robot, toCnc, hold>>
         ELSE IF e = <<r, "fail">> THEN End(r, "aborted") /\ Publish(r, "fail") /\ UNCHANGED hold
         ELSE UNCHANGED <<robot, toCnc, capture, goal, hold, outcome>>
  /\ UNCHANGED <<cnc, stream, queue, missed>>

\* One element of the chunk, if it is the server's own; the rest of the chunk is looked at
\* even when the goal has ended.
Look(r) ==
  /\ goal[r] \in {"dwell", "leave"} /\ chunk[r] # << >>
  /\ chunk' = [chunk EXCEPT ![r] = Tail(@)]
  /\ LET e == Head(chunk[r])
     IN  \/ e = <<r, "complete">> /\ ~hold[r] /\ Publish(r, "ready") /\ hold' = [hold EXCEPT ![r] = TRUE]
              /\ UNCHANGED <<capture, goal, outcome>>
         \/ e = <<r, "ready">> /\ hold[r] /\ End(r, "succeeded") /\ UNCHANGED <<robot, toCnc, hold>>
         \/ e = <<r, "fail">> /\ End(r, "aborted") /\ Publish(r, "fail") /\ UNCHANGED hold
         \/ /\ \/ e[1] # r
               \/ e = <<r, "complete">> /\ hold[r]
               \/ e = <<r, "ready">> /\ ~hold[r]
            /\ UNCHANGED <<robot, toCnc, capture, goal, hold, outcome>>
  /\ UNCHANGED <<cnc, stream, queue, missed>>

Leave(r) ==
  /\ goal[r] = "leave" /\ chunk[r] = << >>
  /\ goal' = [goal EXCEPT ![r] = "none"] /\ missed' = [missed EXCEPT ![r] = FALSE]
  /\ UNCHANGED <<cnc, robot, toCnc, stream, queue, capture, hold, chunk, outcome>>

Next ==
  \/ CncHears \/ XmlCallback
  \/ \E r \in Actions :
       \/ CncMoves(r) \/ Goal(r) \/ Check(r) \/ Submit(r) \/ Capture(r)
       \/ Take(r) \/ Look(r) \/ Leave(r)

Spec == Init /\ [][Next]_vars

\* The streams' threads deliver, the machine tool's devices and threads move on
\* (response.rb:100-103, 137-140), and a goal's thread runs until it waits for a chunk.
Fairness ==
  /\ WF_vars(CncHears) /\ WF_vars(XmlCallback)
  /\ \A r \in Actions :
       /\ WF_vars(CncMoves(r)) /\ WF_vars(Check(r)) /\ WF_vars(Submit(r)) /\ WF_vars(Capture(r))
       /\ WF_vars(Take(r)) /\ WF_vars(Look(r)) /\ WF_vars(Leave(r))

FairSpec == Spec /\ Fairness

-----------------------------------------------------------------------------
(* Properties                                                               *)

\* A goal is reported as succeeded only if the machine tool completed the action after
\* the goal came: what an earlier goal left in the queue or in the stream does not pass
\* for an answer to this one (bridge_server.py:189-192: "Once the
\* machine tool is completed with the requested action ..., the ROS action server returns
\* set_succeeded").  When the robot does one thing at a time, the device stays where it was
\* told it is until the robot asks for something else of it (:249-261).
SucceededMeansMoved ==
  \A r \in Actions : outcome[r] = "succeeded" => moved[r] /\ pos[Device[r]] = Dest[r]

\* The robot gives its READY only to a machine tool that completed the action since the
\* goal came (bridge_server.py:245-247).
ReadyAnswersComplete ==
  \A r \in Actions : goal[r] = "dwell" /\ hold[r] => moved[r]

\* A goal is answered, although its loop has no timeout (bridge_server.py:226-281), unless
\* its ACTIVE came to a response that was no longer ready, or its answer was thrown away:
\* ACTIVE goes out (:217) before the chunks are captured (:222), and a device that need not
\* move answers at once.  With one goal at a time nothing else leaves it waiting.
GoalsEnd ==
  \A r \in Actions : goal[r] # "none" ~> goal[r] = "none" \/ missed[r]
=============================================================================
