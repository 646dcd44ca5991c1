------------------------------ MODULE CncLocks ------------------------------
(* How the threads of the machine tool take turns: every state machine (the *)
(* CNC's and one per interface) processes its events under a mutex of its   *)
(* own that is reentrant for the thread that holds it, mtc_context.rb.      *)
(* CncContext takes an event with all it leads to as one step; this module  *)
(* looks at the machines an event goes through, and at nothing else.        *)
(*                                                                         *)
(* Events go both ways.  The CNC, while it processes an event, sends events *)
(* to its interfaces; an interface, while it processes one, tells the CNC   *)
(* that it failed or completed, and the CNC's reaction comes back to the    *)
(* interfaces.                                                              *)
(***************************************************************************)
EXTENDS Sequences, Naturals

CONSTANTS
  Threads,     \* the stream's thread and those that slept
  Interfaces,  \* the interfaces, in the order in which cnc_not_ready visits them
  Created,     \* the machines that have processed an event before
  None

Machines == {Interfaces[i] : i \in DOMAIN Interfaces} \cup {"cnc"}

ASSUME Inputs ==
  /\ Interfaces \in Seq(Machines)
  /\ None \notin Threads
  /\ Created \subseteq Machines
  /\ "cnc" \notin {Interfaces[i] : i \in DOMAIN Interfaces}

VARIABLES
  created,  \* @event_mutex is defined
  mutex,    \* who holds @event_mutex
  thread,   \* @thread
  depth,    \* how many events of a machine a thread is inside of
  todo,     \* the machines a thread has still to enter and to leave
  stage     \* where it is in process_event
vars == <<created, mutex, thread, depth, todo, stage>>

Stages == {"run", "create", "forget", "check", "lock", "claim", "unlock"}

TypeOK ==
  /\ created \in [Machines -> BOOLEAN]
  /\ mutex \in [Machines -> Threads \cup {None}]
  /\ thread \in [Machines -> Threads \cup {None}]
  /\ depth \in [Threads -> [Machines -> Nat]]
  /\ todo \in [Threads -> Seq([enter : BOOLEAN, m : Machines])]
  /\ stage \in [Threads -> Stages]

Init ==
  /\ created = [m \in Machines |-> m \in Created]
  /\ mutex = [m \in Machines |-> None] /\ thread = [m \in Machines |-> None]
  /\ depth = [t \in Threads |-> [m \in Machines |-> 0]]
  /\ todo = [t \in Threads |-> << >>] /\ stage = [t \in Threads |-> "run"]

-----------------------------------------------------------------------------
(* The events, as the machines they go through                              *)

Around(m, inner) == <<[enter |-> TRUE, m |-> m]>> \o inner \o <<[enter |-> FALSE, m |-> m]>>

\* The interfaces, one after the other: into the first, out of it, into the second, ...
Visit ==
  [k \in 1..2 * Len(Interfaces) |->
     [enter |-> k % 2 = 1, m |-> Interfaces[(k + 1) \div 2]]]

\* The CNC deactivates, or activates, its interfaces.
CncEvent == Around("cnc", Visit)

\* An interface's event, with or without a report to the CNC.
Quiet(i) == Around(i, << >>)
Report(i) == Around(i, CncEvent)

Events ==
  {CncEvent} \cup UNION {{Quiet(Interfaces[n]), Report(Interfaces[n])} : n \in DOMAIN Interfaces}

-----------------------------------------------------------------------------
(* process_event                                                            *)

Here(t) == Head(todo[t]).m
Entering(t) == todo[t] # << >> /\ Head(todo[t]).enter
Advance(t) ==
  /\ todo' = [todo EXCEPT ![t] = Tail(@)]
  /\ stage' = [stage EXCEPT ![t] = "run"]
Stage(t, s) == stage' = [stage EXCEPT ![t] = s] /\ UNCHANGED todo

Begin(t) ==
  /\ todo[t] = << >>
  /\ \E e \in Events : todo' = [todo EXCEPT ![t] = e]
  /\ UNCHANGED <<created, mutex, thread, depth, stage>>

\* Is there a mutex?  If not, one thread at a time (Thread.exclusive) creates it.
Arrive(t) ==
  /\ stage[t] = "run" /\ Entering(t)
  /\ Stage(t, IF created[Here(t)] THEN "check" ELSE "create")
  /\ UNCHANGED <<created, mutex, thread, depth>>

Create(t) ==
  /\ stage[t] = "create"
  /\ \A u \in Threads : stage[u] # "forget"
  /\ Stage(t, IF created[Here(t)] THEN "check" ELSE "forget")
  /\ created' = [created EXCEPT ![Here(t)] = TRUE]
  /\ UNCHANGED <<mutex, thread, depth>>

\* @thread = nil
Forget(t) ==
  /\ stage[t] = "forget"
  /\ Stage(t, "check")
  /\ thread' = [thread EXCEPT ![Here(t)] = None]
  /\ UNCHANGED <<created, mutex, depth>>

\* Fault: @thread is not looked at.
CheckNothing(t) ==
  /\ stage[t] = "check"
  /\ Stage(t, "lock")
  /\ UNCHANGED <<created, mutex, thread, depth>>

\* Whose machine is it?  @thread is read without the mutex.
Check(t) ==
  /\ stage[t] = "check"
  /\ IF thread[Here(t)] = t
     THEN Advance(t) /\ depth' = [depth EXCEPT ![t][Here(t)] = @ + 1]
     ELSE Stage(t, "lock") /\ UNCHANGED depth
  /\ UNCHANGED <<created, mutex, thread>>

\* Fault: the mutex is not waited for.
LockAnyway(t) ==
  /\ stage[t] = "lock"
  /\ mutex' = [mutex EXCEPT ![Here(t)] = t]
  /\ Stage(t, "claim")
  /\ UNCHANGED <<created, thread, depth>>

Lock(t) ==
  /\ stage[t] = "lock" /\ mutex[Here(t)] = None
  /\ mutex' = [mutex EXCEPT ![Here(t)] = t]
  /\ Stage(t, "claim")
  /\ UNCHANGED <<created, thread, depth>>

Claim(t) ==
  /\ stage[t] = "claim"
  /\ thread' = [thread EXCEPT ![Here(t)] = t]
  /\ depth' = [depth EXCEPT ![t][Here(t)] = @ + 1]
  /\ Advance(t)
  /\ UNCHANGED <<created, mutex>>

\* The outermost event gives the machine back.
Leave(t) ==
  /\ stage[t] = "run" /\ todo[t] # << >> /\ ~Entering(t)
  /\ depth[t][Here(t)] > 0
  /\ depth' = [depth EXCEPT ![t][Here(t)] = @ - 1]
  /\ IF depth[t][Here(t)] = 1
     THEN thread' = [thread EXCEPT ![Here(t)] = None] /\ Stage(t, "unlock")
     ELSE Advance(t) /\ UNCHANGED thread
  /\ UNCHANGED <<created, mutex>>

Unlock(t) ==
  /\ stage[t] = "unlock"
  /\ mutex' = [mutex EXCEPT ![Here(t)] = None]
  /\ Advance(t)
  /\ UNCHANGED <<created, thread, depth>>

Next ==
  \E t \in Threads :
    Begin(t) \/ Arrive(t) \/ Create(t) \/ Forget(t) \/ Check(t) \/ Lock(t) \/ Claim(t)
      \/ Leave(t) \/ Unlock(t)

Spec == Init /\ [][Next]_vars

-----------------------------------------------------------------------------
(* Properties                                                               *)

\* "Make event processing thread safe" (mtc_context.rb:25): the events of a machine are
\* processed by one thread at a time, though a machine may send itself events.
Exclusive ==
  \A m \in Machines, t \in Threads, u \in Threads :
    depth[t][m] > 0 /\ depth[u][m] > 0 => t = u

\* A thread never waits for a mutex it holds itself: @thread tells it that the machine
\* is already its own (mtc_context.rb:40).  That is so once a machine has its mutex: the
\* thread that creates one sets @thread to nil afterwards (mtc_context.rb:35), when a
\* second thread may have put its name there.
NoSelfWait ==
  \A t \in Threads : stage[t] = "lock" /\ Here(t) \in Created => mutex[Here(t)] # t

\* "Make event processing thread safe" (mtc_context.rb:25): no two threads wait for each
\* other's machine.
NoCircularWait ==
  \A t \in Threads, u \in Threads :
    ~(/\ t # u /\ stage[t] = "lock" /\ stage[u] = "lock"
      /\ mutex[Here(t)] = u /\ mutex[Here(u)] = t)
=============================================================================
