-------------------------- MODULE AdapterPrograms --------------------------
(* The programs that use the Python adapter, one of them chosen at the      *)
(* start:                                                                  *)
(*   subscriber  bridge_subscriber.py: topics of the robot become data      *)
(*               items, one gather for each member under the lock of the   *)
(*               program; the topics are subscribed to while this goes on   *)
(*   server      bridge_server.py: each action has a thread of its own that *)
(*               sets its data item, with no lock                          *)
(*   example     examples/simple_adapter.py: one thread, an event and a     *)
(*               SimpleCondition                                           *)
(*   reporter    a program that reports a Condition anew in each gather, as *)
(*               tests/data_item_test.py does                              *)
(***************************************************************************)
EXTENDS Adapter

VARIABLES
  program,
  lock,        \* the thread that holds the subscriber's lock
  topic_list,  \* the topics the subscriber has still to subscribe to
  index,       \* where its loop over topic_list is, 0 between two passes
  published,   \* what the last get_published_topics returned
  publishing,  \* the topics that have a publisher
  msg,         \* what a callback has still to set: pairs of event and value
  step         \* the example's next gather
users == <<program, lock, topic_list, index, published, publishing, msg, step>>
vars == <<adapter, users>>

Topics == {"states", "spindle"}

ASSUME Threads2 == Gatherers = Topics
ASSUME Items ==
  /\ {"avail", "c_unclamp"} \subseteq Events /\ {"123", "124"} \subseteq Codes
  /\ {"ACTIVE", "READY"} \subseteq Values

\* The members of a topic's message; a server's thread has the first to itself.
Members(t) == IF t = "states" THEN <<"avail">> ELSE <<"c_unclamp">>

Init ==
  /\ program \in {"subscriber", "server", "example", "reporter"}
  /\ AdapterInit(IF program = "server" THEN "READY" ELSE Unavailable)
  /\ kind = IF program = "reporter" THEN "condition" ELSE "simple"
  /\ lock = "none" /\ topic_list = <<"states", "spindle">> /\ index = 0
  /\ published = {} /\ publishing = {} /\ msg = [g \in Gatherers |-> << >>] /\ step = 0

TypeOK ==
  /\ AdapterTypeOK
  /\ program \in {"subscriber", "server", "example", "reporter"}
  /\ lock \in Gatherers \cup {"none"} /\ topic_list \in Seq(Topics)
  /\ index \in Nat /\ published \subseteq publishing /\ publishing \subseteq Topics
  /\ step \in 0..4
  /\ msg \in [Gatherers -> Seq(Events \X Values)]

-----------------------------------------------------------------------------
(* The subscriber                                                          *)

\* A publisher of a topic turns up (external).
Advertise(t) ==
  /\ program = "subscriber" /\ publishing' = publishing \cup {t} /\ publishing' # publishing
  /\ UNCHANGED <<adapter, program, lock, topic_list, index, published, msg, step>>

\* while topic_list: the published topics are asked for once in each pass.
AskTopics ==
  /\ program = "subscriber" /\ index = 0 /\ topic_list # << >>
  /\ index' = 1 /\ published' = publishing
  /\ UNCHANGED <<adapter, program, lock, topic_list, publishing, msg, step>>

\* Fault: what the loop leaves over is not looked at again.
NextTopicOnce ==
  /\ index > 0
  /\ IF index > Len(topic_list) THEN index' = index /\ UNCHANGED topic_list
     ELSE /\ index' = index + 1
          /\ topic_list' = IF topic_list[index] \in published THEN RemoveAt(topic_list, index) ELSE topic_list
  /\ UNCHANGED <<adapter, program, lock, published, publishing, msg, step>>

\* A topic is taken out of the list under the loop, which passes over the one behind it.
NextTopic ==
  /\ index > 0
  /\ IF index > Len(topic_list) THEN index' = 0 /\ UNCHANGED topic_list
     ELSE /\ index' = index + 1
          /\ topic_list' = IF topic_list[index] \in published THEN RemoveAt(topic_list, index) ELSE topic_list
  /\ UNCHANGED <<adapter, program, lock, published, publishing, msg, step>>

\* Fault: the callbacks of the topics do not exclude each other.
TopicCallbackUnlocked(t) ==
  /\ program = "subscriber" /\ at[t] = "idle" /\ msg[t] = << >>
  /\ t \in publishing /\ \A n \in DOMAIN topic_list : topic_list[n] # t
  /\ \E value \in [1..Len(Members(t)) -> Values \ {Unavailable}] :
       msg' = [msg EXCEPT ![t] = [n \in 1..Len(Members(t)) |-> <<Members(t)[n], value[n]>>]]
  /\ UNCHANGED <<adapter, program, lock, topic_list, index, published, publishing, step>>

\* topic_callback, in the thread of the topic: the lock, and the members' values.
TopicCallback(t) ==
  /\ program = "subscriber" /\ lock = "none" /\ lock' = t
  /\ t \in publishing /\ \A n \in DOMAIN topic_list : topic_list[n] # t
  /\ \E value \in [1..Len(Members(t)) -> Values \ {Unavailable}] :
       msg' = [msg EXCEPT ![t] = [n \in 1..Len(Members(t)) |-> <<Members(t)[n], value[n]>>]]
  /\ UNCHANGED <<adapter, program, topic_list, index, published, publishing, step>>

\* data_item_conversion: the next member.
Conversion(t) ==
  /\ msg[t] # << >>
  /\ LET e == Head(msg[t])[1]
     IN  Change(t, [events EXCEPT ![e] = SetValue(@, Head(msg[t])[2])], condition)
  /\ msg' = [msg EXCEPT ![t] = Tail(@)]
  /\ UNCHANGED <<program, lock, topic_list, index, published, publishing, step>>

CallbackEnds(t) ==
  /\ lock = t /\ at[t] = "idle" /\ msg[t] = << >>
  /\ lock' = "none"
  /\ UNCHANGED <<adapter, program, topic_list, index, published, publishing, msg, step>>

-----------------------------------------------------------------------------
(* The other programs                                                      *)

\* Bound: the second action is asked for once, and not answered.
ActionState(t) ==
  /\ program = "server" /\ (t = "spindle" => events[Head(Members(t))].value = "READY")
  /\ \E v \in Values \ {Unavailable, events[Head(Members(t))].value} :
       Change(t, [events EXCEPT ![Head(Members(t))] = SetValue(@, v)], condition)
  /\ UNCHANGED users

\* The loop of the example; its event takes another value each time.
Script(t) ==
  /\ program = "example" /\ t = "states"
  /\ step' = (step + 1) % 5
  /\ \E v \in Values \ {Unavailable, events["avail"].value} :
       Change(t, [events EXCEPT !["avail"] = SetValue(@, v)],
              CASE step = 0 -> condition
                [] step = 1 -> Add(condition, {"123"})
                [] step = 2 -> Add(condition, {"124"})
                [] step = 3 -> RemoveCode(condition, "123")
                [] step = 4 -> RemoveCode(condition, "124"))
  /\ UNCHANGED <<program, lock, topic_list, index, published, publishing, msg>>

\* Nothing, normal, or the codes that are active.
Report(t) ==
  /\ program = "reporter" /\ t = "states"
  /\ \/ \E codes \in SUBSET Codes : Change(t, events, Add(condition, codes))
     \/ Change(t, events, Normal(condition))
  /\ UNCHANGED users

\* A gather starts where the program has something to set.
BeginGather(g) ==
  /\ \/ program = "subscriber" /\ msg[g] # << >>
     \/ program = "server" /\ (g = "spindle" => events[Head(Members(g))].value = "READY")
     \/ program \in {"example", "reporter"} /\ g = "states"
  /\ Begin(g) /\ UNCHANGED users

Gather(g) ==
  \/ BeginGather(g)
  \/ Conversion(g) \/ ActionState(g) \/ Script(g) \/ Report(g)
  \/ (Complete(g) \/ SendLine(g) \/ SendCondition(g) \/ Sweep(g)) /\ UNCHANGED users

ClientThread(c) ==
  (SendInitial(c) \/ SendLine(c) \/ SendCondition(c) \/ Heartbeat(c) \/ HeartbeatEnds(c)) /\ UNCHANGED users

PeerDoes(c) == (FinishRequest(c) \/ Ping(c) \/ Goes(c)) /\ UNCHANGED users

Next ==
  /\ \/ \E g \in Gatherers : Gather(g) \/ TopicCallback(g) \/ CallbackEnds(g) \/ Advertise(g)
     \/ AskTopics \/ NextTopic
     \/ \E c \in Clients : ClientThread(c) \/ PeerDoes(c)
  /\ Tears(program # "server")

Spec == Init /\ [][Next]_vars

\* The threads run on, and each topic has a publisher some day.
FairSpec ==
  /\ Spec
  /\ WF_vars(\E t \in Topics : Advertise(t) /\ Tears(program # "server"))
  /\ WF_vars((AskTopics \/ NextTopic) /\ Tears(program # "server"))
  /\ \A c \in Clients : WF_vars(ClientThread(c) /\ Tears(program # "server"))

-----------------------------------------------------------------------------
(* Properties                                                              *)

\* Whenever no gather is under way, each client has been told what every data item is now
\* - except, until it connects again, one whose first values were written while a gather was
\* under way, and, in a program whose threads gather at will, one that was there when two
\* gathers overlapped.
Faithful ==
  Gathering = {} => \A c \in clients :
    (at[c] = "heartbeat" /\ peer[c] = "up" /\ ~torn[c]) =>
      /\ view[c].condition = Actual(condition)
      /\ \A e \in Events : view[c].events[e] = events[e].value

\* A client that has closed its connection, or falls silent after a PING, leaves the table,
\* whatever other threads do with its socket meanwhile.
GoneAreRemoved == \A c \in Clients : Gone(c) ~> c \notin clients

\* The subscriber comes to subscribe to each topic although its loop loses its place.
AllSubscribed == program = "subscriber" ~> topic_list = << >>
=============================================================================
