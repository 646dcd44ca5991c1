--------------------------- MODULE MaterialClient ---------------------------
(* The machine tool asks the robot to load or to unload material, by way of *)
(* scripts/bridge_client.py.  The stream's thread handles one chunk after   *)
(* the other: for every element that says ACTIVE it sends a goal to the     *)
(* robot's action server, waits for its end, and tells it in the robot's    *)
(* data item.  What the machine tool does in the meantime waits in the      *)
(* socket.  Beside this thread, the robot's services set the same items.    *)
(*                                                                         *)
(* External: the machine tool activates, withdraws and idles its requests   *)
(* as it likes, and loses patience with one that is processing; agents      *)
(* keep the order of changes and deliver several in one chunk.              *)
(***************************************************************************)
EXTENDS CncInterfaces, Integers, Sequences, FiniteSets

CONSTANTS
  Materials,   \* what the machine tool's Material may be: of the goal's types or not
  CncAhead,    \* bound: changes on their way while the machine tool acts of itself
  RobotAhead   \* bound: changes on their way while a service is called

ASSUME Inputs == Materials \subseteq {"good", "bad"} /\ {CncAhead, RobotAhead} \subseteq Nat \ {0}

VARIABLES
  req,       \* the machine tool's requests
  material,  \* its Material
  stream,    \* its requests that became ACTIVE and the client has not read
  at,        \* where the stream's thread is
  elements,  \* what it has still to look at of its chunk
  goals,     \* action_goals
  item,      \* the robot's data items, di_dict
  toCnc,     \* their changes the machine tool has not heard of
  goal,      \* the goals at the robot's servers
  won,       \* successes the machine tool has not been told of
  lost       \* a goal ended with neither success nor failure
vars == <<req, material, stream, at, elements, goals, item, toCnc, goal, won, lost>>
cnc == <<req, material>>
robot == <<goal, won, lost>>

Places == {"stream", "elements", "server", "active", "send", "result", "exited"}

TypeOK ==
  /\ req \in [Requests -> RequestStates] /\ material \in Materials
  /\ stream \in Seq(Requests) /\ elements \in Seq(Requests)
  /\ at \in Places
  /\ at \in {"server", "active", "send", "result"} => elements # << >>
  /\ goals \in [Requests -> {"none", "good"}]
  /\ item \in [Requests -> PeerValues] /\ toCnc \in Seq(Requests \X PeerValues)
  /\ goal \in [Requests -> {"none", "active", "succeeded", "aborted", "lost"}]
  /\ lost \in BOOLEAN /\ won \in [Requests -> Int]

Init ==
  /\ req = [q \in Requests |-> "not_ready"] /\ material \in Materials
  /\ stream = << >> /\ elements = << >> /\ at = "stream"
  /\ goals = [q \in Requests |-> "none"]
  /\ item = [q \in Requests |-> "unavailable"] /\ toCnc = << >>
  /\ goal = [q \in Requests |-> "none"]
  /\ won = [q \in Requests |-> 0] /\ lost = FALSE

-----------------------------------------------------------------------------
(* The machine tool                                                         *)

\* The client acts upon ACTIVE; the other values are left out of the stream.
Becomes(q, s) ==
  /\ req' = [req EXCEPT ![q] = s]
  /\ stream' = IF s = "active" /\ req[q] # s THEN Append(stream, q) ELSE stream

\* The machine tool has one exchange at a time, and times those that run.
CncDoes(q) ==
  /\ Len(stream) + Len(toCnc) < CncAhead /\ ~lost
  /\ \E e \in {"activate", "deactivate", "idle", "timeout"} :
       /\ e = "activate" => \A p \in Requests : p = q \/ req[p] \notin {"active", "processing", "fail"}
       /\ e = "timeout" => req[q] \in {"processing", "fail"}
       /\ RequestNext(req[q], e) # req[q]
       /\ Becomes(q, RequestNext(req[q], e))
  /\ UNCHANGED <<material, at, elements, goals, item, toCnc, robot>>

CncHears ==
  /\ toCnc # << >>
  /\ LET q == Head(toCnc)[1]
         v == Head(toCnc)[2]
     IN  /\ Becomes(q, RequestNext(req[q], v))
         /\ won' = IF v = "complete" THEN [won EXCEPT ![q] = @ - 1] ELSE won
  /\ toCnc' = Tail(toCnc)
  /\ UNCHANGED <<material, at, elements, goals, item, goal, lost>>

-----------------------------------------------------------------------------
(* The client                                                               *)

\* action_cb: a data item that changes is sent; FAIL is the machine tool's failure.
Publish(q, v) ==
  /\ item' = [item EXCEPT ![q] = v]
  /\ toCnc' = IF item[q] = v THEN toCnc ELSE Append(toCnc, <<q, v>>)

\* xml_components: the elements of a chunk, tag by tag, in the order of a dictionary.
\* Those of one tag differ in nothing that is looked at.
OfTag(chunk, q) == [n \in 1..Cardinality({i \in DOMAIN chunk : chunk[i] = q}) |-> q]

\* xml_callback.  The handshake in wait is the tag of an action (:261), compared with the
\* name of a data item (:284): it matches no element, so READY is never answered.
XmlCallback ==
  /\ at = "stream"
  /\ \E n \in 1..Len(stream) :
       /\ stream' = SubSeq(stream, n + 1, Len(stream))
       /\ LET chunk == SubSeq(stream, 1, n)
          IN  elements' = OfTag(chunk, "load") \o OfTag(chunk, "unload")
  /\ at' = "elements"
  /\ UNCHANGED <<cnc, goals, item, toCnc, robot>>

Element ==
  /\ at = "elements"
  /\ at' = IF elements = << >> THEN "stream" ELSE "server"
  /\ UNCHANGED <<cnc, stream, elements, goals, item, toCnc, robot>>

\* wait_for_server, which is started some day; a goal that is not known is asked for, and
\* checked.  sys.exit ends the stream's thread only: the others live on.
WaitForServer ==
  /\ at = "server"
  /\ LET q == Head(elements)
     IN  IF goals[q] = "none" /\ material = "bad"
         THEN at' = "exited" /\ UNCHANGED goals
         ELSE at' = "active" /\ goals' = [goals EXCEPT ![q] = "good"]
  /\ UNCHANGED <<cnc, stream, elements, item, toCnc, robot>>

\* active_cb is called while send_goal's arguments are evaluated: ACTIVE goes out first.
SayActive ==
  /\ at = "active" /\ at' = "send"
  /\ Publish(Head(elements), "active")
  /\ UNCHANGED <<cnc, stream, elements, goals, robot>>

\* Fault: the client does not wait for the goal's end.
SendGoalOnly ==
  /\ at = "send" /\ at' = "elements" /\ elements' = Tail(elements)
  /\ goal' = [goal EXCEPT ![Head(elements)] = "active"]
  /\ UNCHANGED <<cnc, stream, goals, item, toCnc, won, lost>>

SendGoal ==
  /\ at = "send" /\ at' = "result"
  /\ goal' = [goal EXCEPT ![Head(elements)] = "active"]
  /\ UNCHANGED <<cnc, stream, elements, goals, item, toCnc, won, lost>>

\* Faults: an abort is not reported; a goal that was lost counts as done.
ResultAbortSilent ==
  /\ at = "result" /\ at' = "elements" /\ elements' = Tail(elements)
  /\ LET q == Head(elements)
     IN  /\ goal[q] \in {"succeeded", "aborted", "lost"}
         /\ goal' = [goal EXCEPT ![q] = "none"]
         /\ IF goal[q] = "succeeded" THEN Publish(q, "complete") ELSE UNCHANGED <<item, toCnc>>
         /\ lost' = (lost \/ goal[q] = "lost")
  /\ UNCHANGED <<cnc, stream, goals, won>>
ResultNotLooked ==
  /\ at = "result" /\ at' = "elements" /\ elements' = Tail(elements)
  /\ LET q == Head(elements)
     IN  /\ goal[q] \in {"succeeded", "aborted", "lost"}
         /\ goal' = [goal EXCEPT ![q] = "none"]
         /\ Publish(q, IF goal[q] = "aborted" THEN "failure" ELSE "complete")
         /\ lost' = (lost \/ goal[q] = "lost")
  /\ UNCHANGED <<cnc, stream, goals, won>>

\* Fault: only the first request of a chunk is acted upon.
ResultFirstOnly ==
  /\ at = "result" /\ at' = "stream" /\ elements' = << >>
  /\ LET q == Head(elements)
     IN  /\ goal[q] \in {"succeeded", "aborted", "lost"}
         /\ goal' = [goal EXCEPT ![q] = "none"]
         /\ CASE goal[q] = "succeeded" -> Publish(q, "complete")
              [] goal[q] = "aborted"   -> Publish(q, "failure")
              [] goal[q] = "lost"      -> UNCHANGED <<item, toCnc>>
         /\ lost' = (lost \/ goal[q] = "lost")
  /\ UNCHANGED <<cnc, stream, goals, won>>

\* SUCCEEDED and ABORTED are reported, any other result is not.
Result ==
  /\ at = "result" /\ at' = "elements" /\ elements' = Tail(elements)
  /\ LET q == Head(elements)
     IN  /\ goal[q] \in {"succeeded", "aborted", "lost"}
         /\ goal' = [goal EXCEPT ![q] = "none"]
         /\ CASE goal[q] = "succeeded" -> Publish(q, "complete")
              [] goal[q] = "aborted"   -> Publish(q, "failure")
              [] goal[q] = "lost"      -> UNCHANGED <<item, toCnc>>
         /\ lost' = (lost \/ goal[q] = "lost")
  /\ UNCHANGED <<cnc, stream, goals, won>>

-----------------------------------------------------------------------------
(* The robot                                                                *)

\* A goal is lost when the robot's program is restarted.  Bound: the machine tool does nothing
\* of itself afterwards.
GoalEnds(q) ==
  /\ goal[q] = "active"
  /\ \E end \in {"succeeded", "aborted", "lost"} :
       /\ goal' = [goal EXCEPT ![q] = end]
       /\ won' = IF end = "succeeded" THEN [won EXCEPT ![q] = @ + 1] ELSE won
  /\ UNCHANGED <<cnc, stream, at, elements, goals, item, toCnc, lost>>

\* robot_state_callback.  A robot calls its services when it has no goal
\* (state_machine.cpp:250-283, 531-560).
RobotState(q) ==
  /\ Len(stream) + Len(toCnc) < RobotAhead /\ \A p \in Requests : goal[p] # "active"
  /\ \E v \in {"ready", "not_ready"} : Publish(q, v)
  /\ UNCHANGED <<cnc, stream, at, elements, goals, robot>>

-----------------------------------------------------------------------------

Next ==
  \/ CncHears \/ XmlCallback \/ Element \/ WaitForServer \/ SayActive \/ SendGoal \/ Result
  \/ \E q \in Requests : CncDoes(q) \/ GoalEnds(q) \/ RobotState(q)

Spec == Init /\ [][Next]_vars

\* The client's thread runs, agents deliver, and the robot ends its goals.  The machine tool
\* need not do anything.
Fairness ==
  /\ WF_vars(CncHears) /\ WF_vars(XmlCallback) /\ WF_vars(Element) /\ WF_vars(SayActive)
  /\ WF_vars(SendGoal) /\ WF_vars(Result)
  /\ WF_vars(WaitForServer) /\ \A q \in Requests : WF_vars(GoalEnds(q))

FairSpec == Spec /\ Fairness

-----------------------------------------------------------------------------
(* Properties                                                               *)

\* Each COMPLETE the machine tool hears of stands for a success of the robot of its own,
\* whatever was withdrawn, repeated or restarted in between (bridge_client.py:258-265).
CompletionsEarned == \A q \in Requests : won[q] >= 0

\* The robot has one goal at a time, though the machine tool may have withdrawn a request
\* and made the next one while the goal of the first runs (bridge_client.py:246, 292: a second
\* goal would abort the first, state_machine.cpp:819).
OneGoal ==
  \A q, p \in Requests : goal[q] = "active" /\ goal[p] = "active" => q = p

\* The robot says ACTIVE only while its goal is on its way or runs, unless a goal got lost
\* (bridge_client.py:241, 262).
ActiveMeansGoal ==
  \A q \in Requests : item[q] = "active" =>
    lost \/ (elements # << >> /\ Head(elements) = q /\ at \in {"send", "result"})

\* A request of the machine tool does not stay without an answer, though READY is never
\* answered and the chunk it comes in waits for the goals of earlier ones: unless a goal got
\* lost or the material is not what the goal needs (bridge_client.py:227, 246, 262, 284).
RequestsAnswered ==
  \A q \in Requests : (req[q] = "active" /\ material = "good") ~> (req[q] # "active" \/ lost)
=============================================================================
