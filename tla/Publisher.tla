----------------------------- MODULE Publisher -----------------------------
(* bridge_publisher.py: what a machine's stream tells becomes messages on     *)
(* topics.  The reader of the stream (LongPull) notes the changes of each     *)
(* part and puts them in a queue; threads that a timer starts, one every      *)
(* tenth of a second and each scheduling the next, publish the topics.        *)
(*                                                                         *)
(* A data item has its n-th value when part n of the stream gave it.  Each    *)
(* topic has one data item here, and has its name.                           *)
(***************************************************************************)
EXTENDS LongPull, ScannerLaws

CONSTANTS
  Timers     \* bound: the timer threads at one time, numbered

VARIABLES
  parts,       \* the items that each part changes, forgotten when it has been handled
  overlap,     \* publishing may take longer than the period of the timer
  di_current, di_changed,
  local_di,    \* of process_xml
  XML_queue, data_hold,
  timer,       \* what each thread is doing: [at, data, topic, items]
  msg,         \* the messages, shared by the threads
  topic        \* the value last published on each topic, -1 at first
bridge == <<parts, overlap, di_current, di_changed, local_di, XML_queue, data_hold, timer, msg, topic>>
vars == <<stream, bridge>>

Items == <<"DoorState", "MaterialLoad">>
Topics == {Items[k] : k \in DOMAIN Items}
Values == 0..MaxParts
None == [d \in Topics |-> 0]     \* init_di_dict: no item has changed
NoData == << >>

Idle == [at |-> "idle", data |-> NoData, topic |-> 1, items |-> None]

TypeOK ==
  /\ LongPullTypeOK
  /\ Len(parts) = sent /\ (\A n \in 1..sent : parts[n] \subseteq Topics) /\ overlap \in BOOLEAN
  /\ {di_current, di_changed, local_di, msg} \subseteq [Topics -> Values]
  /\ topic \in [Topics -> Values \cup {-1}]
  /\ \A n \in DOMAIN XML_queue : XML_queue[n] \in [Topics -> Values]
  /\ data_hold = NoData \/ data_hold[1] \in [Topics -> Values]
  /\ \A t \in Timers :
       /\ timer[t].at \in {"idle", "get", "items", "convert", "publish", "reset", "hold"}
       /\ timer[t].topic \in DOMAIN Items /\ timer[t].items \in [Topics -> Values]

\* The streaming begins where the first answer of the agent ended.
Init ==
  /\ LongPullInit
  /\ parts = << >> /\ overlap \in BOOLEAN
  /\ di_current = None /\ di_changed = None /\ local_di = None
  /\ XML_queue = << >> /\ data_hold = NoData
  /\ timer = [t \in Timers |-> Idle] /\ msg = None /\ topic = [d \in Topics |-> -1]

\* The agent tells of what has changed, or that it is still there.
SendPart ==
  /\ Send
  /\ \E changes \in SUBSET Topics : parts' = Append(parts, changes)
  /\ UNCHANGED <<overlap, di_current, di_changed, local_di, XML_queue, data_hold, timer, msg, topic>>

-----------------------------------------------------------------------------
(* The callback of the stream                                               *)

\* process_xml: the changes of the part, and the current values.
ProcessXml ==
  /\ reader = "callback" /\ reader' = "changed"
  /\ LET n == body[1][2]
     IN  /\ local_di' = [d \in Topics |-> IF d \in parts[n] THEN n ELSE 0]
         /\ di_current' = [d \in Topics |-> IF d \in parts[n] THEN n ELSE di_current[d]]
  /\ UNCHANGED <<socket, closed, buffer, wanted, document, header, length, body, sent>>
  /\ parts' = [parts EXCEPT ![body[1][2]] = {}]
  /\ UNCHANGED <<overlap, di_changed, XML_queue, data_hold, timer, msg, topic>>

XmlCallback ==
  /\ reader = "changed" /\ reader' = "queue"
  /\ di_changed' = local_di /\ local_di' = None
  /\ UNCHANGED <<socket, closed, buffer, wanted, document, header, length, body, sent>>
  /\ UNCHANGED <<parts, overlap, di_current, XML_queue, data_hold, timer, msg, topic>>

\* What is put is what di_changed is by then.
PutXml ==
  /\ reader = "queue" /\ reader' = "document"
  /\ XML_queue' = Append(XML_queue, di_changed)
  /\ UNCHANGED <<socket, closed, buffer, wanted, document, header, length, body, sent>>
  /\ UNCHANGED <<parts, overlap, di_current, di_changed, local_di, data_hold, timer, msg, topic>>

-----------------------------------------------------------------------------
(* The threads of the timer: ros_publisher and topic_publisher               *)

Sets(t, thread) == timer' = [timer EXCEPT ![t] = thread]
Elsewhere == UNCHANGED <<stream, parts, overlap, di_current, local_di>>

\* A new thread looks whether there is something in the queue.
Start(t) ==
  /\ timer[t].at = "idle"
  /\ \A u \in Timers : IF timer[u].at = "idle" THEN t <= u ELSE overlap
  /\ \/ XML_queue # << >> /\ Sets(t, [Idle EXCEPT !.at = "get"])
     \/ XML_queue = << >> /\ data_hold # NoData /\ Sets(t, [Idle EXCEPT !.at = "items", !.data = data_hold])
     \/ XML_queue = << >> /\ data_hold = NoData /\ Sets(t, [Idle EXCEPT !.at = "hold"])
  /\ Elsewhere /\ UNCHANGED <<di_changed, XML_queue, data_hold, msg, topic>>

\* get waits when another thread has been faster.
GetXml(t) ==
  /\ timer[t].at = "get" /\ XML_queue # << >>
  /\ Sets(t, [timer[t] EXCEPT !.at = "items", !.data = <<Head(XML_queue)>>])
  /\ XML_queue' = Tail(XML_queue)
  /\ Elsewhere /\ UNCHANGED <<di_changed, data_hold, msg, topic>>

\* The items and values of di_changed, not those of data.
ChangedItems(t) ==
  /\ timer[t].at = "items"
  /\ Sets(t, [timer[t] EXCEPT !.at = "convert", !.items = di_changed])
  /\ Elsewhere /\ UNCHANGED <<di_changed, XML_queue, data_hold, msg, topic>>

\* Fault: an item that has not changed keeps what the message says.
ConvertChanged(t) ==
  /\ timer[t].at = "convert"
  /\ LET d == Items[timer[t].topic]
     IN  IF timer[t].items[d] # 0 /\ di_changed[d] = 0
         THEN Sets(t, [timer[t] EXCEPT !.at = "hold", !.items = None]) /\ UNCHANGED msg
         ELSE /\ Sets(t, [timer[t] EXCEPT !.at = "publish", !.items = None])
              /\ msg' = [msg EXCEPT ![d] = IF timer[t].items[d] # 0 THEN di_changed[d] ELSE @]
  /\ Elsewhere /\ UNCHANGED <<di_changed, XML_queue, data_hold, topic>>

\* Fault: the current value is that of the queue's entry.
ConvertHeld(t) ==
  /\ timer[t].at = "convert"
  /\ LET d == Items[timer[t].topic]
     IN  /\ Sets(t, [timer[t] EXCEPT !.at = "publish", !.items = None])
         /\ msg' = [msg EXCEPT ![d] = IF timer[t].items[d] # 0 THEN di_changed[d] ELSE timer[t].data[1][d]]
  /\ Elsewhere /\ UNCHANGED <<di_changed, XML_queue, data_hold, topic>>

\* A value that has changed is looked up in di_changed again, and there may be none by now:
\* the exception ends the round.
Convert(t) ==
  /\ timer[t].at = "convert"
  /\ LET d == Items[timer[t].topic]
     IN  IF timer[t].items[d] # 0 /\ di_changed[d] = 0
         THEN Sets(t, [timer[t] EXCEPT !.at = "hold", !.items = None]) /\ UNCHANGED msg
         ELSE /\ Sets(t, [timer[t] EXCEPT !.at = "publish", !.items = None])
              /\ msg' = [msg EXCEPT ![d] = IF timer[t].items[d] # 0 THEN di_changed[d] ELSE di_current[d]]
  /\ Elsewhere /\ UNCHANGED <<di_changed, XML_queue, data_hold, topic>>

Publish(t) ==
  /\ timer[t].at = "publish"
  /\ LET d == Items[timer[t].topic]
     IN  topic' = [topic EXCEPT ![d] = msg[d]]
  /\ Sets(t, IF timer[t].topic = Len(Items) THEN [timer[t] EXCEPT !.at = "reset"]
             ELSE [timer[t] EXCEPT !.at = "items", !.topic = @ + 1])
  /\ Elsewhere /\ UNCHANGED <<di_changed, XML_queue, data_hold, msg>>

ResetChanged(t) ==
  /\ timer[t].at = "reset"
  /\ di_changed' = None /\ Sets(t, [timer[t] EXCEPT !.at = "hold"])
  /\ Elsewhere /\ UNCHANGED <<XML_queue, data_hold, msg, topic>>

\* finally: data that differs is held.  The count of the queue's tasks is left out.
Hold(t) ==
  /\ timer[t].at = "hold"
  /\ data_hold' = timer[t].data /\ Sets(t, Idle)
  /\ Elsewhere /\ UNCHANGED <<di_changed, XML_queue, msg, topic>>

\* The threads are daemons: they end when the reader, the main thread, does.
Publishes(t) ==
  /\ reader \notin Dead
  /\ \/ Start(t) \/ GetXml(t) \/ ChangedItems(t) \/ Convert(t)
     \/ Publish(t) \/ ResetChanged(t) \/ Hold(t)

Reader == (Reads /\ UNCHANGED bridge) \/ ProcessXml \/ XmlCallback \/ PutXml

Next ==
  \/ SendPart
  \/ Close /\ UNCHANGED bridge
  \/ Reader
  \/ \E t \in Timers : Publishes(t)

Spec == Init /\ [][Next]_vars

\* The agent sends its parts, and the threads run on.
FairSpec ==
  /\ Spec /\ WF_vars(SendPart) /\ WF_vars(Reader)
  /\ \A t \in Timers : WF_vars(Publishes(t))

-----------------------------------------------------------------------------
(* Properties                                                              *)

\* The reader hands over the parts one by one, whole and in the order they were sent, and
\* however the network cuts the stream it never loses the frame: it ends with the stream, or
\* when a size line comes in two pieces.
FramesKept == [][
  /\ reader' \notin {"Framing error", "IncompleteRead"}
  /\ body' # body => \E n \in 1..MaxParts : body' = BodyOf(n) /\ body = IF n = 1 THEN << >> ELSE BodyOf(n - 1)]_vars

\* A topic's values never go back, if no two rounds of publishing overlap.
NeverBack == [][~overlap => \A d \in Topics : topic'[d] >= topic[d]]_vars

\* Each topic comes to tell, and goes on telling, the last value the stream has given,
\* unless the reader's thread has ended.
LastIsTold == <>[](reader \in Dead \/ \A d \in Topics : topic[d] = di_current[d])

\* Whatever text the empty document of the reader is given, and wherever the scanner is: the
\* methods that look ahead, scan and skip agree with each other (scanner.py:438-509) and the
\* parts of the string with what was matched (:315-329); unscan undoes what was recorded, twice
\* if it is called twice (:357-364, :421-431); bol, eol and skip_lines agree about where lines
\* begin and end (:197-211, :511-515).
\* The methods depend on nothing but the scanner: they are tried where the program begins.
ScannerConsistent ==
  sent = 0 /\ ~closed /\ (\A t \in Timers : timer[t] = Idle) =>
    \A s \in ScannersFrom(document.string) :
      /\ \A p \in Patterns : LooksAhead(s, p) /\ TakesApart(s, p)
      /\ \A p, q \in Patterns : Reverts(s, p, q)
      /\ AtLineEnds(s)
=============================================================================
