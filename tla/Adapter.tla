------------------------------ MODULE Adapter ------------------------------
(* scripts/src/mtconnect_adapter.py: the data items of a program, which its *)
(* threads change in gathers, and the clients that are told of the changes. *)
(* Each client has a thread of its own that sends it the current values and *)
(* then answers its heartbeats.  The lock of the adapter guards the table   *)
(* of clients; gathers and data items are not guarded.                      *)
(*                                                                         *)
(* External: the clients (the agents), which connect, fall silent or close  *)
(* their connection when they like.                                        *)
(***************************************************************************)
EXTENDS DataItems

CONSTANTS Events, Values, Gatherers, Clients

ASSUME AdapterAssumption ==
  /\ Unavailable \in Values
  /\ "level" \notin Events   \* what tells a condition's line from one of events
  /\ Gatherers \cap Clients = {}

VARIABLES
  events, condition,  \* _data_items
  kind,     \* the condition's class: "condition" or "simple"
  clients,  \* _clients
  peer,     \* what the other end of a client's connection is doing
  pinged,   \* the client has sent a PING: its socket has a timeout
  at,       \* where a gathering thread or a client's thread is
  to,       \* the clients it sends to
  out,      \* the lines it has still to send, each with the clients it has not yet gone to
  view,     \* what each client has been told
  torn      \* a gather overlapped the client's first values, or gathers overlapped each other
adapter == <<events, condition, kind, clients, peer, pinged, at, to, out, view, torn>>
items == <<events, condition, kind>>

Threads == Gatherers \cup Clients
Places == {"idle", "begun", "changed", "initial", "events", "condition", "heartbeat"}
\* Events go into one line, the entries of a condition into a line each.
OfCondition(line) == "level" \in DOMAIN line
ConditionLines == [level : {Unavailable, "normal", "fault"}, codes : SUBSET Codes]
EventLines == UNION {[sent -> Values] : sent \in SUBSET Events}
Outgoing == [line : ConditionLines \cup EventLines, left : SUBSET Clients]

AdapterTypeOK ==
  /\ events \in [Events -> [value : Values, changed : BOOLEAN]]
  /\ condition \in [value : BOOLEAN, changed : BOOLEAN, active : [Codes -> Activations]]
  /\ kind \in {"condition", "simple"}
  /\ clients \subseteq Clients
  /\ peer \in [Clients -> {"away", "up", "silent", "closed"}]
  /\ pinged \in [Clients -> BOOLEAN] /\ torn \in [Clients -> BOOLEAN]
  /\ at \in [Threads -> Places] /\ to \in [Threads -> SUBSET Clients]
  /\ out \in [Threads -> Seq(Outgoing)]
  /\ view \in [Clients -> [events : [Events -> Values], condition : SUBSET (Codes \cup {Unavailable})]]

Nothing == [events |-> [e \in Events |-> Unavailable], condition |-> {Unavailable}]

AdapterInit(v) ==
  /\ events = [e \in Events |-> [value |-> v, changed |-> FALSE]]
  /\ condition = NoCondition /\ kind \in {"condition", "simple"}
  /\ clients = {} /\ peer = [c \in Clients |-> "away"] /\ pinged = [c \in Clients |-> FALSE]
  /\ at = [p \in Threads |-> "idle"] /\ to = [p \in Threads |-> {}] /\ out = [p \in Threads |-> << >>]
  /\ view = [c \in Clients |-> Nothing] /\ torn = [c \in Clients |-> FALSE]

\* A client's first values are on their way.
Connecting(c) == at[c] \in {"initial", "events", "condition"}
Gathering == {g \in Gatherers : at[g] # "idle"}

\* History; `exclusive' programs keep their gathers apart.
Tears(exclusive) ==
  torn' = [c \in Clients |->
    /\ at'[c] # "idle"
    /\ \/ torn[c]
       \/ Gathering' # {} /\ (Connecting(c))'
       \/ ~exclusive /\ Cardinality(Gathering') > 1]

-----------------------------------------------------------------------------
(* send_changed, of gathers and of new clients                              *)

\* Each line goes to one client after the other, in whatever order the table has them.
ToEach(lines, cs) ==
  IF cs = {} THEN << >> ELSE [n \in DOMAIN lines |-> [line |-> lines[n], left |-> cs]]

\* The events that are sent share one line.
EventsText(force) ==
  LET sent == {e \in Events : force \/ events[e].changed}
  IN  IF sent = {} THEN << >> ELSE <<[e \in sent |-> events[e].value]>>

\* The condition is looked at when the line of the events has gone out.
SendCondition(p) ==
  /\ at[p] = "events" /\ out[p] = << >>
  /\ at' = [at EXCEPT ![p] = "condition"]
  /\ LET force == p \in Clients
     IN  out' = [out EXCEPT ![p] = IF force \/ condition.changed
                                  THEN ToEach(Lines(condition, force), to[p]) ELSE << >>]
  /\ UNCHANGED <<items, clients, peer, pinged, to, view>>

\* The first line has gone to client c.
Sent(lines, c) ==
  IF Head(lines).left = {c} THEN Tail(lines) ELSE [lines EXCEPT ![1].left = @ \ {c}]

\* What a client knows when it has read a line.
Learnt(known, line) ==
  IF OfCondition(line) THEN [known EXCEPT !.condition = Told(@, line)]
  ELSE [known EXCEPT !.events = [e \in Events |-> IF e \in DOMAIN line THEN line[e] ELSE @[e]]]

\* send_to_client: no entry, and nothing is sent; a socket that fails loses its entry, at
\* the latest when its buffers are full.
SendLine(p) ==
  /\ out[p] # << >>
  /\ \E c \in Head(out[p]).left :
       /\ out' = [out EXCEPT ![p] = Sent(@, c)]
       /\ \/ c \notin clients /\ UNCHANGED <<clients, view>>
          \/ c \in clients /\ peer[c] = "up" /\ view' = [view EXCEPT ![c] = Learnt(@, Head(out[p]).line)] /\ UNCHANGED clients
          \/ c \in clients /\ peer[c] # "up" /\ clients' \in {clients, clients \ {c}} /\ UNCHANGED view
  /\ UNCHANGED <<items, peer, pinged, at, to>>

-----------------------------------------------------------------------------
(* Gathers                                                                  *)

Begin(g) ==
  /\ at[g] = "idle"
  /\ at' = [at EXCEPT ![g] = "begun"]
  /\ condition' = BeginCondition(condition, kind)
  /\ UNCHANGED <<events, kind, clients, peer, pinged, to, out, view>>

\* The function of a gather, or what is between begin_gather and complete_gather.
Change(g, newEvents, newCondition) ==
  /\ at[g] = "begun"
  /\ at' = [at EXCEPT ![g] = "changed"]
  /\ events' = newEvents /\ condition' = newCondition
  /\ UNCHANGED <<kind, clients, peer, pinged, to, out, view>>

\* The clients are those of this moment.
Complete(g) ==
  /\ at[g] = "changed"
  /\ at' = [at EXCEPT ![g] = "events"]
  /\ condition' = CompleteCondition(condition)
  /\ to' = [to EXCEPT ![g] = clients]
  /\ out' = [out EXCEPT ![g] = ToEach(EventsText(FALSE), clients)]
  /\ UNCHANGED <<events, kind, clients, peer, pinged, view>>

\* Whatever has changed meanwhile counts as sent.
Sweep(g) ==
  /\ at[g] = "condition" /\ out[g] = << >>
  /\ at' = [at EXCEPT ![g] = "idle"]
  /\ events' = [e \in Events |-> SweepEvent(events[e])] /\ condition' = SweepCondition(condition)
  /\ to' = [to EXCEPT ![g] = {}]
  /\ UNCHANGED <<kind, clients, peer, pinged, out, view>>

-----------------------------------------------------------------------------
(* Clients                                                                  *)

\* finish_request: the client is in the table before its first values are read.  Each
\* connection has an address of its own.
FinishRequest(c) ==
  /\ peer[c] = "away" /\ at[c] = "idle"
  /\ \A p \in Threads : c \notin to[p]
  /\ peer' = [peer EXCEPT ![c] = "up"] /\ clients' = clients \cup {c}
  /\ at' = [at EXCEPT ![c] = "initial"] /\ to' = [to EXCEPT ![c] = {c}]
  /\ view' = [view EXCEPT ![c] = Nothing]
  /\ UNCHANGED <<items, pinged, out>>

SendInitial(c) ==
  /\ at[c] = "initial"
  /\ at' = [at EXCEPT ![c] = "events"]
  /\ out' = [out EXCEPT ![c] = ToEach(EventsText(TRUE), {c})]
  /\ UNCHANGED <<items, clients, peer, pinged, to, view>>

Heartbeat(c) ==
  /\ at[c] = "condition" /\ out[c] = << >>
  /\ at' = [at EXCEPT ![c] = "heartbeat"]
  /\ UNCHANGED <<items, clients, peer, pinged, to, out, view>>

Ping(c) ==
  /\ at[c] = "heartbeat" /\ peer[c] = "up" /\ c \in clients
  /\ pinged' = [pinged EXCEPT ![c] = TRUE]
  /\ UNCHANGED <<items, clients, peer, at, to, out, view>>

\* Nothing more will be heard of a client, and recv says so.
Gone(c) == peer[c] = "closed" \/ (peer[c] = "silent" /\ pinged[c])

\* Fault: the entry stays when the heartbeats end.
HeartbeatEndsOnly(c) ==
  /\ at[c] = "heartbeat" /\ (c \notin clients \/ Gone(c))
  /\ at' = [at EXCEPT ![c] = "idle"] /\ to' = [to EXCEPT ![c] = {}]
  /\ peer' = [peer EXCEPT ![c] = "away"] /\ pinged' = [pinged EXCEPT ![c] = FALSE]
  /\ view' = [view EXCEPT ![c] = Nothing]
  /\ UNCHANGED <<items, clients, out>>

\* recv ends: the connection is closed on either side, or a timeout after a PING.
\* remove_client follows.
HeartbeatEnds(c) ==
  /\ at[c] = "heartbeat" /\ (c \notin clients \/ Gone(c))
  /\ clients' = clients \ {c}
  /\ at' = [at EXCEPT ![c] = "idle"] /\ to' = [to EXCEPT ![c] = {}]
  /\ peer' = [peer EXCEPT ![c] = "away"] /\ pinged' = [pinged EXCEPT ![c] = FALSE]
  /\ view' = [view EXCEPT ![c] = Nothing]
  /\ UNCHANGED <<items, out>>

\* The other end goes, with or without a word.
Goes(c) ==
  /\ peer[c] = "up"
  /\ \E how \in {"silent", "closed"} : peer' = [peer EXCEPT ![c] = how]
  /\ UNCHANGED <<items, clients, pinged, at, to, out, view>>

ClientNext(c) ==
  \/ FinishRequest(c) \/ SendInitial(c) \/ Heartbeat(c) \/ Ping(c) \/ HeartbeatEnds(c) \/ Goes(c)
=============================================================================
