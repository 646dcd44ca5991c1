------------------------------ MODULE RobotSim ------------------------------
(* The cell as it is tried out without a robot: scripts/robot_sim.py plays *)
(* the robot's sequences, material_load_server.py and                      *)
(* material_unload_server.py answer the goals the bridge client sends for  *)
(* the machine tool's requests, and openchuck.py, closechuck.py,           *)
(* opendoor.py and closedoor.py are the clients that move the devices.     *)
(*                                                                         *)
(* The programs never speak to each other.  The simulation learns from the *)
(* streams of the two agents that an exchange has begun, the servers learn *)
(* from the publisher's topic that it may end.                             *)
(*                                                                         *)
(* External, from how these programs use them: the machine tool without    *)
(* its operator (CncInterfaces), the bridge's client, server and publisher *)
(* (each has a module of its own), agents that deliver every change in     *)
(* order, in chunks of any size.                                           *)
(***************************************************************************)
EXTENDS CncInterfaces, Naturals, Sequences, SequencesExt

CONSTANTS
  LastCycle,   \* the load server's cycle that fails on purpose, 25 in the code
  MayFail      \* the responses of the machine tool that may fail

ASSUME Inputs == LastCycle \in Nat \ {0} /\ MayFail \subseteq Responses

Agents == {"cnc", "robot"}

VARIABLES
  cnc,      \* the state of the machine tool, as far as it matters here
  req,      \* its requests
  resp,     \* its responses
  pos,      \* its devices
  stream,   \* changes of the agents' data items the simulation has not read
  toClient, \* changes of the machine tool's the bridge client has not read
  toCnc,    \* changes of the robot's the machine tool has not read
  client,   \* the request the bridge client is working on
  server,   \* what the material servers are doing with a goal
  counter,  \* counter of the load server
  topic,    \* what CncResponseTopic last said
  queue,    \* XML_CNC_queue and XML_RBT_queue
  capture,  \* cnc_capture_xml and rbt_capture_xml
  sim       \* where run_actions is, and its local variables: sequence, cnc_state, robot_state
vars == <<cnc, req, resp, pos, stream, toClient, toCnc, client, server, counter, topic, queue, capture, sim>>
tool == <<cnc, req, resp, pos>>
bridge == <<client, server, counter, topic>>
simulation == <<queue, capture, sim>>

\* connect: the streams are being opened; poll, poll_robot: the loop; the others are clients.
SimPlaces == {"connect", "poll", "poll_robot"} \cup Responses

TypeOK ==
  /\ cnc \in {"not_ready", "loading", "cycle_start", "unloading", "idle", "fault"}
  /\ req \in [Requests -> RequestStates] /\ resp \in [Responses -> ResponseStates]
  /\ pos \in [{"door", "chuck"} -> {"OPEN", "CLOSED", "UNLATCHED"}]
  /\ stream \in [Agents -> Seq(Requests \X (RequestStates \cup {"complete"}))]
  /\ toClient \in Seq(Requests \X RequestStates) /\ toCnc \in Seq(Requests \X PeerValues)
  /\ client \in Requests \cup {"none"}
  /\ server \in [Requests -> {"none", "execute", "succeeded", "aborted", "lost"}]
  /\ counter \in 1..LastCycle + 1
  /\ topic \in [door : {"OPEN", "CLOSED", "UNLATCHED"}, chuck : {"OPEN", "CLOSED", "UNLATCHED"},
                close_door : ResponseStates, open_chuck : ResponseStates]
  /\ queue \in [Agents -> Seq(Seq(Requests \X (RequestStates \cup {"complete"})))]
  /\ capture \in [Agents -> BOOLEAN]
  /\ sim \in [at : SimPlaces, sent : BOOLEAN, sequence : Requests \cup {"none"}, state : [Agents -> BOOLEAN]]

Published == [door |-> pos["door"], chuck |-> pos["chuck"],
              close_door |-> resp["closeDoor"], open_chuck |-> resp["openChuck"]]

Idle == [at |-> "poll", sent |-> FALSE, sequence |-> "none", state |-> [a \in Agents |-> FALSE]]

Init ==
  /\ cnc = "not_ready"
  /\ req = [q \in Requests |-> "not_ready"] /\ resp = [r \in Responses |-> "not_ready"]
  /\ pos = [d \in {"door", "chuck"} |-> "OPEN"]
  /\ stream = [a \in Agents |-> << >>] /\ toClient = << >> /\ toCnc = << >>
  /\ client = "none" /\ server = [q \in Requests |-> "none"] /\ counter = 1
  /\ topic = Published
  /\ queue = [a \in Agents |-> << >>] /\ capture = [a \in Agents |-> TRUE]
  /\ sim = [Idle EXCEPT !.at = "connect"]

-----------------------------------------------------------------------------
(* The machine tool                                                         *)

\* A request's new value reaches both readers of the agent.  Entering processing
\* publishes nothing.
Tell(changes) ==
  /\ stream' = [stream EXCEPT !["cnc"] = @ \o changes]
  /\ toClient' = toClient \o changes

\* What the machine tool asks for, next; its devices are looked at before a cycle.
Transfer(q) == IF q = "load" THEN "loading" ELSE "unloading"
AllClosed == \A d \in DOMAIN pos : pos[d] = "CLOSED"

Ask(q) ==
  /\ cnc' = Transfer(q)
  /\ req' = [req EXCEPT ![q] = "active"]

\* talker: availability, mode and execution make the machine tool operational.
Talker ==
  /\ sim.at # "connect" /\ cnc = "not_ready"
  /\ Ask("load") /\ Tell(<< <<"load", "active">> >>)
  /\ resp' = [r \in Responses |-> "ready"]
  /\ UNCHANGED <<pos, toCnc, bridge, simulation>>

\* The event of a robot's data item.
CncHears ==
  /\ toCnc # << >>
  /\ toCnc' = Tail(toCnc)
  /\ LET q == Head(toCnc)[1]
         v == Head(toCnc)[2]
         n == RequestNext(req[q], v)
         done == req[q] = "processing" /\ v = "complete"
     IN  CASE done /\ q = "unload" ->
                /\ Tell(<< <<q, n>>, <<"load", "active">> >>)
                /\ cnc' = "loading" /\ req' = [req EXCEPT ![q] = n, !["load"] = "active"]
           [] done /\ q = "load" ->
                /\ Tell(<< <<q, n>> >>)
                /\ cnc' = IF AllClosed THEN "cycle_start" ELSE "fault"
                /\ req' = [req EXCEPT ![q] = n]
           [] ~done /\ n # req[q] ->
                /\ Tell(IF n = "processing" THEN << >> ELSE << <<q, n>> >>)
                /\ req' = [req EXCEPT ![q] = n] /\ UNCHANGED cnc
           [] OTHER -> UNCHANGED <<cnc, req, stream, toClient>>
  /\ UNCHANGED <<resp, pos, bridge, simulation>>

CycleDone ==
  /\ cnc = "cycle_start"
  /\ Ask("unload") /\ Tell(<< <<"unload", "active">> >>)
  /\ UNCHANGED <<resp, pos, toCnc, bridge, simulation>>

\* A failed request is over: nobody makes the robot READY again, so the machine idles.
RequestOver ==
  /\ \E q \in Requests :
       /\ req[q] = "fail"
       /\ req' = [req EXCEPT ![q] = RequestDefault["fail"]] /\ Tell(<< <<q, "ready">> >>)
  /\ cnc' = "idle"
  /\ UNCHANGED <<resp, pos, toCnc, bridge, simulation>>

\* A device arrives, or fails, which faults the machine tool.
DeviceMoves(r) ==
  /\ resp[r] = "active"
  /\ \/ /\ resp' = [resp EXCEPT ![r] = "complete"] /\ pos' = [pos EXCEPT ![Device[r]] = Dest[r]]
        /\ UNCHANGED <<cnc, req, stream, toClient>>
     \/ /\ r \in MayFail
        /\ resp' = [s \in Responses |-> IF s = r THEN "fail" ELSE "not_ready"]
        /\ cnc' = "fault"
        /\ req' = [q \in Requests |-> "not_ready"]
        /\ Tell(SetToSeq({<<q, "not_ready">> : q \in {p \in Requests : req[p] # "not_ready"}}))
        /\ UNCHANGED pos
  /\ UNCHANGED <<toCnc, bridge, simulation>>

-----------------------------------------------------------------------------
(* The bridge                                                               *)

\* A data item of the robot changes: action_cb of the bridge's client.
Publish(q, v) ==
  /\ toCnc' = Append(toCnc, <<q, v>>)
  /\ stream' = [stream EXCEPT !["robot"] = Append(@, <<q, IF v = "failure" THEN "fail" ELSE v>>)]

\* The client takes up a request, and answers it with the result of its server.
ClientTakes ==
  /\ client = "none" /\ toClient # << >>
  /\ toClient' = Tail(toClient)
  /\ LET q == Head(toClient)[1]
     IN  IF Head(toClient)[2] = "active"
         THEN /\ client' = q /\ server' = [server EXCEPT ![q] = "execute"]
              /\ Publish(q, "active")
         ELSE UNCHANGED <<client, server, stream, toCnc>>
  /\ UNCHANGED <<tool, counter, topic, simulation>>

ClientAnswers ==
  /\ client # "none" /\ server[client] \in {"succeeded", "aborted"}
  /\ Publish(client, IF server[client] = "succeeded" THEN "complete" ELSE "failure")
  /\ client' = "none" /\ server' = [server EXCEPT ![client] = "none"]
  /\ UNCHANGED <<tool, toClient, counter, topic, simulation>>

PublishTopic ==
  /\ topic # Published
  /\ topic' = Published
  /\ UNCHANGED <<tool, stream, toClient, toCnc, client, server, counter, simulation>>
-----------------------------------------------------------------------------
(* The material servers                                                     *)

\* Fault: the door's state is not looked at.
LoadedBehindAnyDoor == topic.chuck = "CLOSED" /\ topic.close_door = "ready"

Loaded == topic.door = "CLOSED" /\ topic.chuck = "CLOSED" /\ topic.close_door = "ready"

\* OpenChuck's NOT_READY is published as OFF, which is OPEN's number.
Unloaded == topic.door = "OPEN" /\ topic.chuck = "OPEN" /\ topic.open_chuck \in {"ready", "not_ready"}

LoadServer ==
  /\ server["load"] = "execute" /\ Loaded /\ counter <= LastCycle
  /\ server' = [server EXCEPT !["load"] = IF counter < LastCycle THEN "succeeded" ELSE "aborted"]
  /\ counter' = counter + 1
  /\ UNCHANGED <<tool, stream, toClient, toCnc, client, topic, simulation>>

UnloadServer ==
  /\ server["unload"] = "execute" /\ Unloaded
  /\ server' = [server EXCEPT !["unload"] = "succeeded"]
  /\ UNCHANGED <<tool, stream, toClient, toCnc, client, counter, topic, simulation>>

\* After 120 s the server's thread exits, and the goal is never answered.  A machine tool
\* that works is faster than that.
ServerTimesOut(q) ==
  /\ server[q] = "execute" /\ cnc = "fault"
  /\ server' = [server EXCEPT ![q] = "lost"]
  /\ UNCHANGED <<tool, stream, toClient, toCnc, client, counter, topic, simulation>>

-----------------------------------------------------------------------------
(* The simulation                                                           *)

\* The streams begin at the current values; what these are is not looked at.
Connect ==
  /\ sim.at = "connect"
  /\ sim' = [sim EXCEPT !.at = "poll"]
  /\ stream' = [a \in Agents |-> << >>]
  /\ UNCHANGED <<tool, toClient, toCnc, bridge, queue, capture>>

\* cnc_xml_callback, rbt_xml_callback: a chunk of any number of changes.
XmlCallback(a) ==
  /\ sim.at # "connect"
  /\ \E n \in 1..Len(stream[a]) :
       /\ stream' = [stream EXCEPT ![a] = SubSeq(@, n + 1, Len(@))]
       /\ queue' = IF capture[a] THEN [queue EXCEPT ![a] = Append(@, SubSeq(stream[a], 1, n))] ELSE queue
  /\ UNCHANGED <<tool, toClient, toCnc, bridge, capture, sim>>

\* The first element of a tag in a chunk is the one that counts.
FirstActive(chunk, q) ==
  \E n \in DOMAIN chunk : chunk[n] = <<q, "active">> /\ \A k \in 1..n - 1 : chunk[k][1] # q

Found(a) == IF queue[a] = << >> THEN {} ELSE {q \in Requests : FirstActive(Head(queue[a]), q)}

\* The simulation's variables after a look at a queue; a load is looked for first.
Seen(a) ==
  IF Found(a) = {} THEN sim
  ELSE [sim EXCEPT !.state[a] = TRUE,
                   !.sequence = IF @ # "none" THEN @ ELSE IF "load" \in Found(a) THEN "load" ELSE "unload"]

Poll(a) ==
  /\ queue' = IF queue[a] = << >> THEN queue ELSE [queue EXCEPT ![a] = Tail(@)]
  /\ capture' = [capture EXCEPT ![a] = @ /\ Found(a) = {}]
  /\ UNCHANGED <<tool, stream, toClient, toCnc, bridge>>

PollCnc == sim.at = "poll" /\ Poll("cnc") /\ sim' = [Seen("cnc") EXCEPT !.at = "poll_robot"]

\* Both are ACTIVE: the first client of the sequence is launched.
PollRobot ==
  /\ sim.at = "poll_robot" /\ Poll("robot")
  /\ LET s == Seen("robot")
     IN  sim' = [s EXCEPT !.at = IF \E a \in Agents : ~s.state[a] THEN "poll"
                                ELSE IF s.sequence = "load" THEN "closeChuck" ELSE "openDoor"]

\* A client sends its goal.  The bridge's server aborts it at once unless the response is
\* READY; otherwise the device is moved, if it is not there already.
Send(r) ==
  /\ sim.at = r /\ ~sim.sent
  /\ sim' = [sim EXCEPT !.sent = TRUE]
  /\ LET there == pos[Device[r]] = Dest[r]
     IN  IF resp[r] = "ready"
         THEN /\ resp' = [resp EXCEPT ![r] = IF there THEN "complete" ELSE "active"]
              /\ pos' = [pos EXCEPT ![Device[r]] = IF there THEN @ ELSE "UNLATCHED"]
         ELSE UNCHANGED <<resp, pos>>
  /\ UNCHANGED <<cnc, req, stream, toClient, toCnc, bridge, queue, capture>>

\* The bridge's server answers COMPLETE with READY, and the response follows.
Acknowledge(r) ==
  /\ resp[r] = "complete"
  /\ resp' = [resp EXCEPT ![r] = "ready"]
  /\ UNCHANGED <<cnc, req, pos, stream, toClient, toCnc, bridge, simulation>>

\* The client returns; whether its goal succeeded or was aborted is not looked at.
Returns(r) == sim.at = r /\ sim.sent /\ resp[r] \notin {"active", "complete"}

CloseChuckClient == Returns("closeChuck")
CloseDoorClient == Returns("closeDoor")
OpenDoorClient == Returns("openDoor")
OpenChuckClient == Returns("openChuck")

\* Faults: changes are captured again only after the second device; robot_state is not reset.
SecondDeviceUncaptured ==
  /\ \/ CloseChuckClient /\ sim' = [sim EXCEPT !.at = "closeDoor", !.sent = FALSE]
     \/ OpenDoorClient /\ sim' = [sim EXCEPT !.at = "openChuck", !.sent = FALSE]
  /\ UNCHANGED <<tool, stream, toClient, toCnc, bridge, queue, capture>>
SequenceDoneUnreset ==
  /\ CloseDoorClient \/ OpenChuckClient
  /\ sim' = [Idle EXCEPT !.sequence = sim.sequence, !.state["robot"] = TRUE]
  /\ UNCHANGED <<tool, stream, toClient, toCnc, bridge, queue, capture>>

\* After its first device a sequence captures changes again, ...
SecondDevice ==
  /\ \/ CloseChuckClient /\ sim' = [sim EXCEPT !.at = "closeDoor", !.sent = FALSE]
     \/ OpenDoorClient /\ sim' = [sim EXCEPT !.at = "openChuck", !.sent = FALSE]
  /\ capture' = [a \in Agents |-> TRUE]
  /\ UNCHANGED <<tool, stream, toClient, toCnc, bridge, queue>>

\* ... and after the second it forgets the exchange.
SequenceDone ==
  /\ CloseDoorClient \/ OpenChuckClient
  /\ sim' = Idle
  /\ UNCHANGED <<tool, stream, toClient, toCnc, bridge, queue, capture>>

-----------------------------------------------------------------------------

Next ==
  \/ Talker \/ CncHears \/ CycleDone \/ RequestOver
  \/ ClientTakes \/ ClientAnswers \/ PublishTopic
  \/ LoadServer \/ UnloadServer \/ \E q \in Requests : ServerTimesOut(q)
  \/ Connect \/ \E a \in Agents : XmlCallback(a)
  \/ PollCnc \/ PollRobot \/ SecondDevice \/ SequenceDone
  \/ \E r \in Responses : Send(r) \/ DeviceMoves(r) \/ Acknowledge(r)

Spec == Init /\ [][Next]_vars

\* Every program runs, agents deliver, devices arrive.
Fairness ==
  /\ WF_vars(Talker) /\ WF_vars(CncHears) /\ WF_vars(CycleDone) /\ WF_vars(RequestOver)
  /\ WF_vars(ClientTakes) /\ WF_vars(ClientAnswers) /\ WF_vars(PublishTopic)
  /\ WF_vars(LoadServer) /\ WF_vars(UnloadServer) /\ WF_vars(Connect)
  /\ \A a \in Agents : WF_vars(XmlCallback(a))
  /\ WF_vars(PollCnc) /\ WF_vars(PollRobot) /\ WF_vars(SecondDevice) /\ WF_vars(SequenceDone)
  /\ \A r \in Responses : WF_vars(Send(r)) /\ WF_vars(DeviceMoves(r)) /\ WF_vars(Acknowledge(r))

FairSpec == Spec /\ Fairness

-----------------------------------------------------------------------------
(* Properties                                                               *)

\* A load is reported complete only when the devices are really shut, though the server
\* sees them through a topic, and though a client that failed is not noticed: the machine
\* tool never finds a door or chuck open when it starts its cycle
\* (material_load_server.py:97, closechuck.py:52).
CycleStartsShut ==
  cnc = "fault" => \E r \in Responses : resp[r] = "fail"

\* The simulation moves a device only in the exchange that is under way, whatever it still
\* has in its queues and variables from the exchange before (robot_sim.py:198-239).
DevicesMoveInExchange ==
  [][\A r \in Responses : resp[r] = "ready" /\ resp'[r] \in {"active", "complete"} =>
       LET q == IF r \in {"closeDoor", "closeChuck"} THEN "load" ELSE "unload"
       IN  cnc = Transfer(q) /\ req[q] \in {"active", "processing"}]_vars

\* Every exchange that begins is over some day: no change the simulation needs falls into
\* the time it does not capture any (robot_sim.py:162, 186, 208).
ExchangesEnd ==
  \A x \in {"loading", "unloading"} : cnc = x ~> cnc # x
=============================================================================
