--------------------------- MODULE CncLocksProofs ---------------------------
(* For any number of threads and interfaces: the events of a machine are    *)
(* processed by one thread at a time, and once every machine has its mutex  *)
(* no thread waits for itself.                                              *)
EXTENDS CncLocks, SequenceTheorems, TLAPS

Frames == [enter : BOOLEAN, m : Machines]

\* A thread in the middle of process_event has a machine it is entering or leaving.
Busy ==
  \A t \in Threads :
    /\ stage[t] # "run" => todo[t] # << >>
    /\ stage[t] \in {"create", "forget", "check", "lock", "claim"} => Head(todo[t]).enter

\* Whoever is inside a machine, or on the threshold with its mutex, holds the mutex.
Holders ==
  \A t \in Threads :
    /\ \A m \in Machines : depth[t][m] > 0 => mutex[m] = t
    /\ stage[t] \in {"claim", "unlock"} =>
         mutex[Here(t)] = t /\ depth[t][Here(t)] = 0 /\ thread[Here(t)] # t

\* @thread never names a thread without the mutex.
Named == \A m \in Machines, t \in Threads : thread[m] = t => mutex[m] = t

LocksInv == TypeOK /\ Busy /\ Holders /\ Named

-----------------------------------------------------------------------------
\* The machines an event goes through are machines: each event is a sequence of frames.
LEMMA EventsType == Events \subseteq Seq(Frames)
<1>1. ASSUME NEW m \in Machines, NEW inner \in Seq(Frames)
      PROVE  Around(m, inner) \in Seq(Frames)
  <2>1. <<[enter |-> TRUE, m |-> m]>> \in Seq(Frames)
    BY DEF Frames
  <2>2. <<[enter |-> FALSE, m |-> m]>> \in Seq(Frames)
    BY DEF Frames
  <2>3. <<[enter |-> TRUE, m |-> m]>> \o inner \in Seq(Frames)
    BY <2>1, <1>1, ConcatProperties
  <2> QED BY <2>2, <2>3, ConcatProperties DEF Around
<1>2. Visit \in Seq(Frames)
  <2>1. Len(Interfaces) \in Nat
    BY Inputs, LenProperties
  <2>2. ASSUME NEW k \in 1..2 * Len(Interfaces)
        PROVE  [enter |-> k % 2 = 1, m |-> Interfaces[(k + 1) \div 2]] \in Frames
    <3>1. (k + 1) \div 2 \in 1..Len(Interfaces)
      BY <2>1
    <3>2. Interfaces[(k + 1) \div 2] \in Machines
      BY <3>1, Inputs, ElementOfSeq
    <3> QED BY <3>2 DEF Frames
  <2>3. 2 * Len(Interfaces) \in Nat
    BY <2>1
  <2> QED BY <2>2, <2>3, IsASeq DEF Visit
<1>3. << >> \in Seq(Frames)
  BY EmptySeq
<1>4. "cnc" \in Machines
  BY DEF Machines
<1>5. CncEvent \in Seq(Frames)
  BY <1>1, <1>2, <1>4 DEF CncEvent
<1>6. ASSUME NEW n \in DOMAIN Interfaces
      PROVE  Quiet(Interfaces[n]) \in Seq(Frames) /\ Report(Interfaces[n]) \in Seq(Frames)
  <2>1. Interfaces[n] \in Machines
    BY <1>6 DEF Machines
  <2> QED BY <2>1, <1>1, <1>3, <1>5 DEF Quiet, Report
<1> QED BY <1>5, <1>6 DEF Events

\* What a thread has before it, when it has anything: a frame, and then a sequence of frames.
LEMMA HereType ==
  ASSUME TypeOK, NEW t \in Threads, todo[t] # << >>
  PROVE  Head(todo[t]) \in Frames /\ Here(t) \in Machines /\ Tail(todo[t]) \in Seq(Frames)
<1>1. todo[t] \in Seq(Frames)
  BY DEF TypeOK, Frames
<1>2. Head(todo[t]) \in Frames /\ Tail(todo[t]) \in Seq(Frames)
  BY <1>1, HeadTailProperties
<1> QED BY <1>2 DEF Here, Frames

\* Entering or leaving a machine changes one thread's depth in one machine.
LEMMA DepthChange ==
  ASSUME NEW d \in [Threads -> [Machines -> Nat]], NEW t \in Threads, NEW h \in Machines,
         NEW k \in Nat
  PROVE  LET e == [d EXCEPT ![t][h] = k]
         IN  /\ e \in [Threads -> [Machines -> Nat]]
             /\ e[t][h] = k
             /\ \A u \in Threads, m \in Machines : u # t \/ m # h => e[u][m] = d[u][m]
<1> DEFINE row == [d[t] EXCEPT ![h] = k]
<1>1. row \in [Machines -> Nat] /\ row[h] = k /\ \A m \in Machines : m # h => row[m] = d[t][m]
  OBVIOUS
<1>2. [d EXCEPT ![t][h] = k] = [d EXCEPT ![t] = row]
  OBVIOUS
<1> HIDE DEF row
<1> QED BY <1>1, <1>2

-----------------------------------------------------------------------------
\* Each step of process_event keeps the invariant.

LEMMA InitInv == Init => LocksInv
BY Inputs DEF Init, LocksInv, TypeOK, Busy, Holders, Named, Stages

LEMMA BeginInv == ASSUME LocksInv, NEW t \in Threads, Begin(t) PROVE LocksInv'
<1>1. TypeOK'
  BY EventsType DEF LocksInv, Begin, TypeOK, Frames
<1>2. \A u \in Threads : u # t => todo'[u] = todo[u]
  BY DEF LocksInv, Begin, TypeOK
<1>3. stage[t] = "run"
  BY DEF LocksInv, Begin, Busy
<1>4. Busy'
  BY <1>2, <1>3 DEF LocksInv, Begin, Busy
<1>5. Holders'
  BY <1>2, <1>3 DEF LocksInv, Begin, Holders, Here
<1>6. Named'
  BY DEF LocksInv, Begin, Named
<1> QED BY <1>1, <1>4, <1>5, <1>6 DEF LocksInv

\* A thread that only changes its stage among those before the mutex.
LEMMA ApproachInv ==
  ASSUME LocksInv, NEW t \in Threads, todo[t] # << >>, Head(todo[t]).enter,
         NEW s \in {"create", "forget", "check", "lock"}, Stage(t, s),
         created' \in [Machines -> BOOLEAN],
         UNCHANGED <<mutex, thread, depth>>
  PROVE  LocksInv'
<1>1. TypeOK'
  BY DEF LocksInv, TypeOK, Stage, Stages
<1>2. stage'[t] = s /\ \A u \in Threads : u # t => stage'[u] = stage[u]
  BY DEF LocksInv, TypeOK, Stage
<1>3. Busy'
  BY <1>2 DEF LocksInv, Busy, Stage
<1>4. Holders'
  BY <1>2 DEF LocksInv, Holders, Here, Stage
<1>5. Named'
  BY DEF LocksInv, Named
<1> QED BY <1>1, <1>3, <1>4, <1>5 DEF LocksInv

LEMMA ForgetInv == ASSUME LocksInv, NEW t \in Threads, Forget(t) PROVE LocksInv'
<1>1. todo[t] # << >> /\ Head(todo[t]).enter /\ Here(t) \in Machines
  BY HereType DEF LocksInv, Forget, Busy
<1>2. TypeOK'
  BY <1>1 DEF LocksInv, TypeOK, Forget, Stage, Stages
<1>3. Busy'
  BY <1>1 DEF LocksInv, TypeOK, Busy, Forget, Stage
<1>4. \A m \in Machines, u \in Threads : thread'[m] = u => thread[m] = u
  BY <1>1, Inputs DEF LocksInv, TypeOK, Forget
<1>5. Named'
  BY <1>4 DEF LocksInv, Named, Forget
<1>6. \A u \in Threads : stage'[u] \in {"claim", "unlock"} =>
        stage[u] = stage'[u] /\ todo[u] # << >> /\ Here(u) \in Machines
  BY <1>1, HereType DEF LocksInv, TypeOK, Busy, Forget, Stage
<1>7. Holders'
  BY <1>4, <1>6 DEF LocksInv, Holders, Here, Forget, Stage
<1> QED BY <1>2, <1>3, <1>5, <1>7 DEF LocksInv

LEMMA CheckInv == ASSUME LocksInv, NEW t \in Threads, Check(t) PROVE LocksInv'
<1>1. todo[t] # << >> /\ Head(todo[t]).enter /\ Here(t) \in Machines
  BY HereType DEF LocksInv, Check, Busy
<1>2. CASE thread[Here(t)] = t
  <2>1. mutex[Here(t)] = t
    BY <1>1, <1>2 DEF LocksInv, Named
  <2>2. Tail(todo[t]) \in Seq(Frames)
    BY <1>1, HereType DEF LocksInv
  <2> DEFINE k == depth[t][Here(t)] + 1
  <2>7. k \in Nat /\ depth' = [depth EXCEPT ![t][Here(t)] = k]
    BY <1>1, <1>2 DEF LocksInv, TypeOK, Check
  <2>8. /\ depth' \in [Threads -> [Machines -> Nat]]
        /\ \A u \in Threads, m \in Machines :
             u # t \/ m # Here(t) => depth'[u][m] = depth[u][m]
    <3> HIDE DEF k
    <3> QED BY <1>1, <2>7, DepthChange DEF LocksInv, TypeOK
  <2>3. TypeOK'
    BY <1>2, <2>2, <2>8 DEF LocksInv, TypeOK, Check, Advance, Stages, Frames
  <2>4. Busy'
    BY <1>2 DEF LocksInv, TypeOK, Busy, Check, Advance
  <2>5. Named'
    BY DEF LocksInv, Named, Check
  <2>6. Holders'
    <3>1. \A u \in Threads, m \in Machines : depth'[u][m] > 0 => mutex[m] = u
      BY <2>1, <2>8 DEF LocksInv, Holders
    <3>2. ASSUME NEW u \in Threads, stage'[u] \in {"claim", "unlock"}
          PROVE  u # t /\ stage[u] = stage'[u] /\ todo'[u] = todo[u] /\ Here(u) \in Machines
      BY <3>2, <1>2, HereType DEF LocksInv, TypeOK, Busy, Check, Advance
    <3> QED BY <1>2, <2>8, <3>1, <3>2 DEF LocksInv, Holders, Here, Check
  <2> QED BY <2>3, <2>4, <2>5, <2>6 DEF LocksInv
<1>3. CASE thread[Here(t)] # t
  BY <1>1, <1>3, ApproachInv DEF Check, LocksInv, TypeOK
<1> QED BY <1>2, <1>3

LEMMA LockInv == ASSUME LocksInv, NEW t \in Threads, Lock(t) PROVE LocksInv'
<1>1. todo[t] # << >> /\ Head(todo[t]).enter /\ Here(t) \in Machines
  BY HereType DEF LocksInv, Lock, Busy
<1>2. mutex[Here(t)] = None /\ None \notin Threads
  BY Inputs DEF Lock
<1>3. TypeOK'
  BY <1>1 DEF LocksInv, TypeOK, Lock, Stage, Stages
<1>4. \A u \in Threads : depth[u][Here(t)] = 0
  <2>1. ASSUME NEW u \in Threads PROVE depth[u][Here(t)] = 0
    <3>1. depth[u][Here(t)] \in Nat
      BY <1>1 DEF LocksInv, TypeOK
    <3>2. ~(depth[u][Here(t)] > 0)
      BY <1>1, <1>2 DEF LocksInv, Holders
    <3> QED BY <3>1, <3>2
  <2> QED BY <2>1
<1>5. thread[Here(t)] # t
  BY <1>1, <1>2 DEF LocksInv, Named
<1>6. Busy'
  BY <1>1 DEF LocksInv, TypeOK, Busy, Lock, Stage
<1>7. Named'
  BY <1>1, <1>2 DEF LocksInv, TypeOK, Named, Lock
<1>8. Holders'
  <2>1. \A u \in Threads, m \in Machines : depth[u][m] > 0 => mutex'[m] = u
    BY <1>1, <1>4 DEF LocksInv, TypeOK, Holders, Lock
  <2>2. ASSUME NEW u \in Threads, u # t, stage'[u] \in {"claim", "unlock"}
        PROVE  mutex'[Here(u)] = u /\ depth[u][Here(u)] = 0 /\ thread[Here(u)] # u
    <3>1. stage[u] = stage'[u]
      BY <2>2 DEF LocksInv, TypeOK, Lock, Stage
    <3>2. mutex[Here(u)] = u /\ depth[u][Here(u)] = 0 /\ thread[Here(u)] # u
      BY <2>2, <3>1 DEF LocksInv, Holders
    <3>3. Here(u) # Here(t)
      BY <1>2, <3>2
    <3> QED BY <3>2, <3>3 DEF LocksInv, TypeOK, Lock
  <2>3. mutex'[Here(t)] = t /\ depth[t][Here(t)] = 0 /\ thread[Here(t)] # t
    BY <1>1, <1>4, <1>5 DEF LocksInv, TypeOK, Lock
  <2> QED BY <2>1, <2>2, <2>3 DEF Holders, Here, Lock, Stage
<1> QED BY <1>3, <1>6, <1>7, <1>8 DEF LocksInv

LEMMA ClaimInv == ASSUME LocksInv, NEW t \in Threads, Claim(t) PROVE LocksInv'
<1>1. todo[t] # << >> /\ Here(t) \in Machines /\ Tail(todo[t]) \in Seq(Frames)
  BY HereType DEF LocksInv, Claim, Busy
<1>2. mutex[Here(t)] = t
  BY DEF LocksInv, Claim, Holders
<1> DEFINE k == depth[t][Here(t)] + 1
<1>7. k \in Nat /\ depth' = [depth EXCEPT ![t][Here(t)] = k]
  BY <1>1 DEF LocksInv, TypeOK, Claim
<1>8. /\ depth' \in [Threads -> [Machines -> Nat]]
      /\ \A u \in Threads, m \in Machines :
           u # t \/ m # Here(t) => depth'[u][m] = depth[u][m]
  <2> HIDE DEF k
  <2> QED BY <1>1, <1>7, DepthChange DEF LocksInv, TypeOK
<1>3. TypeOK'
  BY <1>1, <1>8 DEF LocksInv, TypeOK, Claim, Advance, Stages, Frames
<1>4. Busy'
  BY <1>1 DEF LocksInv, TypeOK, Busy, Claim, Advance
<1>5. Named'
  BY <1>1, <1>2 DEF LocksInv, TypeOK, Named, Claim
<1>6. Holders'
  <2>1. \A u \in Threads, m \in Machines : depth'[u][m] > 0 => mutex[m] = u
    BY <1>2, <1>8 DEF LocksInv, Holders
  <2>2. ASSUME NEW u \in Threads, stage'[u] \in {"claim", "unlock"}
        PROVE  /\ u # t /\ stage[u] = stage'[u] /\ todo'[u] = todo[u]
               /\ todo[u] # << >> /\ Here(u) \in Machines
    BY <2>2, HereType DEF LocksInv, TypeOK, Busy, Claim, Advance
  <2>3. ASSUME NEW u \in Threads, stage'[u] \in {"claim", "unlock"}
        PROVE  mutex[Here(u)] = u /\ depth'[u][Here(u)] = 0 /\ thread'[Here(u)] # u
    <3>1. mutex[Here(u)] = u /\ depth[u][Here(u)] = 0 /\ thread[Here(u)] # u
      BY <2>2, <2>3 DEF LocksInv, Holders
    <3> QED BY <1>1, <1>2, <1>8, <2>2, <2>3, <3>1 DEF LocksInv, TypeOK, Claim
  <2> QED BY <2>1, <2>2, <2>3 DEF Holders, Here, Claim
<1> QED BY <1>3, <1>4, <1>5, <1>6 DEF LocksInv

LEMMA LeaveInv == ASSUME LocksInv, NEW t \in Threads, Leave(t) PROVE LocksInv'
<1>1. todo[t] # << >> /\ Here(t) \in Machines /\ Tail(todo[t]) \in Seq(Frames)
  BY HereType DEF LocksInv, Leave
<1>2. mutex[Here(t)] = t /\ depth[t][Here(t)] \in Nat /\ depth[t][Here(t)] > 0
  BY <1>1 DEF LocksInv, TypeOK, Leave, Holders
<1> DEFINE k == depth[t][Here(t)] - 1
<1>7. k \in Nat /\ depth' = [depth EXCEPT ![t][Here(t)] = k]
  BY <1>2 DEF Leave
<1>8. /\ depth' \in [Threads -> [Machines -> Nat]]
      /\ depth'[t][Here(t)] = k
      /\ \A u \in Threads, m \in Machines :
           u # t \/ m # Here(t) => depth'[u][m] = depth[u][m]
  <2> HIDE DEF k
  <2> QED BY <1>1, <1>7, DepthChange DEF LocksInv, TypeOK
<1>3. TypeOK'
  <2>1. thread' \in [Machines -> Threads \cup {None}]
    BY <1>1 DEF LocksInv, TypeOK, Leave
  <2>2. stage' \in [Threads -> Stages] /\ todo' \in [Threads -> Seq(Frames)]
    BY <1>1 DEF LocksInv, TypeOK, Leave, Advance, Stage, Stages, Frames
  <2> QED BY <1>8, <2>1, <2>2 DEF LocksInv, TypeOK, Leave, Frames
<1>4. Busy'
  BY <1>1 DEF LocksInv, TypeOK, Busy, Leave, Advance, Stage
<1>5. Named'
  <2>1. \A m \in Machines, u \in Threads : thread'[m] = u => thread[m] = u
    BY <1>1, Inputs DEF LocksInv, TypeOK, Leave
  <2> QED BY <2>1 DEF LocksInv, Named, Leave
<1>6. Holders'
  <2>1. \A u \in Threads, m \in Machines : depth'[u][m] > 0 => depth[u][m] > 0
    BY <1>2, <1>8
  <2>2. \A u \in Threads, m \in Machines : depth'[u][m] > 0 => mutex'[m] = u
    BY <2>1 DEF LocksInv, Holders, Leave
  <2>3. ASSUME NEW u \in Threads, u # t, stage'[u] \in {"claim", "unlock"}
        PROVE  (mutex[Here(u)] = u /\ depth[u][Here(u)] = 0 /\ thread[Here(u)] # u)'
    <3>1. stage[u] = stage'[u] /\ todo'[u] = todo[u]
      BY <2>3 DEF LocksInv, TypeOK, Leave, Advance, Stage
    <3>2. Here(u) \in Machines
      BY <3>1, <2>3, HereType DEF LocksInv, Busy
    <3>3. mutex[Here(u)] = u /\ depth[u][Here(u)] = 0 /\ thread[Here(u)] # u
      BY <2>3, <3>1 DEF LocksInv, Holders
    <3>4. depth'[u][Here(u)] = 0
      BY <1>8, <2>3, <3>2, <3>3
    <3>5. thread'[Here(u)] # u
      BY <3>2, <3>3, <1>1, Inputs DEF LocksInv, TypeOK, Leave
    <3> QED BY <3>1, <3>3, <3>4, <3>5 DEF Here, Leave
  <2>4. ASSUME stage'[t] \in {"claim", "unlock"}
        PROVE  (mutex[Here(t)] = t /\ depth[t][Here(t)] = 0 /\ thread[Here(t)] # t)'
    <3>1. depth[t][Here(t)] = 1 /\ todo'[t] = todo[t] /\ thread'[Here(t)] = None
      BY <2>4, <1>1 DEF LocksInv, TypeOK, Leave, Advance, Stage
    <3>2. depth'[t][Here(t)] = 0
      BY <1>8, <3>1
    <3> QED BY <1>2, <3>1, <3>2, Inputs DEF Here, Leave
  <2> QED BY <2>2, <2>3, <2>4 DEF Holders
<1> QED BY <1>3, <1>4, <1>5, <1>6 DEF LocksInv

LEMMA UnlockInv == ASSUME LocksInv, NEW t \in Threads, Unlock(t) PROVE LocksInv'
<1>1. todo[t] # << >> /\ Here(t) \in Machines /\ Tail(todo[t]) \in Seq(Frames)
  BY HereType DEF LocksInv, Unlock, Busy
<1>2. mutex[Here(t)] = t /\ depth[t][Here(t)] = 0 /\ thread[Here(t)] # t
  BY DEF LocksInv, Unlock, Holders
<1>3. TypeOK'
  BY <1>1 DEF LocksInv, TypeOK, Unlock, Advance, Stages, Frames
<1>4. Busy'
  BY <1>1 DEF LocksInv, TypeOK, Busy, Unlock, Advance
<1>5. Named'
  BY <1>1, <1>2, Inputs DEF LocksInv, TypeOK, Named, Unlock
<1>6. Holders'
  BY <1>1, <1>2 DEF LocksInv, TypeOK, Holders, Here, Unlock, Advance
<1> QED BY <1>3, <1>4, <1>5, <1>6 DEF LocksInv

\* Every step keeps the invariant.
LEMMA StepInv == LocksInv /\ [Next]_vars => LocksInv'
<1> SUFFICES ASSUME LocksInv, [Next]_vars PROVE LocksInv'
  OBVIOUS
<1>1. ASSUME NEW t \in Threads, Begin(t) PROVE LocksInv'
  BY <1>1, BeginInv
<1>2. ASSUME NEW t \in Threads, Arrive(t) PROVE LocksInv'
  BY <1>2, ApproachInv DEF Arrive, Entering, LocksInv, TypeOK
<1>3. ASSUME NEW t \in Threads, Create(t) PROVE LocksInv'
  <2>1. created' \in [Machines -> BOOLEAN]
    BY <1>3 DEF Create, LocksInv, TypeOK
  <2> QED BY <1>3, <2>1, ApproachInv DEF Create, LocksInv, Busy
<1>4. ASSUME NEW t \in Threads, Forget(t) PROVE LocksInv'
  BY <1>4, ForgetInv
<1>5. ASSUME NEW t \in Threads, Check(t) PROVE LocksInv'
  BY <1>5, CheckInv
<1>6. ASSUME NEW t \in Threads, Lock(t) PROVE LocksInv'
  BY <1>6, LockInv
<1>7. ASSUME NEW t \in Threads, Claim(t) PROVE LocksInv'
  BY <1>7, ClaimInv
<1>8. ASSUME NEW t \in Threads, Leave(t) PROVE LocksInv'
  BY <1>8, LeaveInv
<1>9. ASSUME NEW t \in Threads, Unlock(t) PROVE LocksInv'
  BY <1>9, UnlockInv
<1>10. CASE UNCHANGED vars
  BY <1>10 DEF vars, LocksInv, TypeOK, Busy, Holders, Named, Here
<1> QED BY <1>1, <1>2, <1>3, <1>4, <1>5, <1>6, <1>7, <1>8, <1>9, <1>10 DEF Next

\* The state of the mutexes, of @thread and of the threads keeps its type.
THEOREM LocksTyped == Spec => []TypeOK
<1>1. LocksInv => TypeOK
  BY DEF LocksInv
<1> QED BY InitInv, StepInv, <1>1, PTL DEF Spec

\* A machine's events are processed by one thread at a time, also while its mutex is
\* being created (mtc_context.rb:25-52).
THEOREM EventsAreExclusive == Spec => []Exclusive
<1>1. LocksInv => Exclusive
  BY DEF LocksInv, Holders, Exclusive
<1> QED BY InitInv, StepInv, <1>1, PTL DEF Spec

-----------------------------------------------------------------------------
(* Of a machine that has a mutex, @thread is as good as the mutex itself.   *)

AllCreated ==
  /\ \A m \in Created : created[m]
  /\ \A t \in Threads : stage[t] \in {"create", "forget"} => Here(t) \notin Created

\* The holder of a mutex is named by @thread, but for the moments after it locked and
\* before it unlocks; and whoever waits was not named when it looked.
Known ==
  /\ \A t \in Threads, m \in Created : mutex[m] = t =>
       thread[m] = t \/ (stage[t] \in {"claim", "unlock"} /\ Here(t) = m)
  /\ \A t \in Threads : stage[t] = "lock" /\ Here(t) \in Created => thread[Here(t)] # t

SelfInv == LocksInv /\ AllCreated /\ Known

\* The steps before the mutex do not create, and do not change who is known.
LEMMA SelfStep == SelfInv /\ [Next]_vars => SelfInv'
<1> SUFFICES ASSUME SelfInv, [Next]_vars PROVE AllCreated' /\ Known'
  BY StepInv DEF SelfInv
<1> USE DEF SelfInv
<1>t. TypeOK /\ LocksInv
  BY DEF LocksInv
<1>1. ASSUME NEW t \in Threads, Begin(t) PROVE AllCreated' /\ Known'
  <2>1. stage[t] = "run" /\ \A u \in Threads : u # t => todo'[u] = todo[u]
    BY <1>1 DEF LocksInv, Begin, Busy, TypeOK
  <2> QED BY <1>1, <2>1 DEF Begin, AllCreated, Known, Here
<1>2. ASSUME NEW t \in Threads, Arrive(t) PROVE AllCreated' /\ Known'
  <2>1. Here(t) \in Created => created[Here(t)]
    BY DEF AllCreated
  <2>2. stage'[t] = (IF created[Here(t)] THEN "check" ELSE "create") /\ \A u \in Threads : u # t => stage'[u] = stage[u]
    BY <1>2, <1>t, <2>1 DEF Arrive, Stage, TypeOK
  <2> QED BY <1>2, <2>1, <2>2 DEF Arrive, Stage, AllCreated, Known, Here
<1>3. ASSUME NEW t \in Threads, Create(t) PROVE AllCreated' /\ Known'
  <2>1. Here(t) \notin Created
    BY <1>3 DEF AllCreated, Create
  <2>2. stage'[t] \in {"check", "forget"} /\ \A u \in Threads : u # t => stage'[u] = stage[u]
    BY <1>3, <1>t DEF Create, Stage, TypeOK
  <2>3. \A m \in Created : created'[m] = created[m]
    BY <1>3, <1>t, <2>1, Inputs DEF Create, TypeOK
  <2> QED BY <1>3, <2>1, <2>2, <2>3 DEF Create, Stage, AllCreated, Known, Here
<1>10. ASSUME NEW t \in Threads, Forget(t) PROVE AllCreated' /\ Known'
  <2>1. Here(t) \notin Created
    BY <1>10 DEF AllCreated, Forget
  <2>2. stage'[t] = "check" /\ \A u \in Threads : u # t => stage'[u] = stage[u]
    BY <1>10, <1>t DEF Forget, Stage, TypeOK
  <2>3. \A m \in Created : thread'[m] = thread[m]
    BY <1>10, <1>t, <2>1, Inputs DEF Forget, TypeOK
  <2> QED BY <1>10, <2>1, <2>2, <2>3 DEF Forget, Stage, AllCreated, Known, Here
<1>4. ASSUME NEW t \in Threads, Check(t) PROVE AllCreated' /\ Known'
  <2>1. \A u \in Threads : u # t => stage'[u] = stage[u] /\ todo'[u] = todo[u]
    BY <1>4, <1>t DEF Check, Stage, Advance, TypeOK
  <2>2. \/ stage'[t] = "run"
        \/ stage'[t] = "lock" /\ todo'[t] = todo[t] /\ thread[Here(t)] # t
    BY <1>4, <1>t DEF Check, Stage, Advance, TypeOK
  <2> QED BY <1>4, <2>1, <2>2 DEF Check, AllCreated, Known, Here
<1>5. ASSUME NEW t \in Threads, Lock(t) PROVE AllCreated' /\ Known'
  <2>1. stage'[t] = "claim" /\ \A u \in Threads : u # t => stage'[u] = stage[u]
    BY <1>5, <1>t DEF Lock, Stage, TypeOK
  <2>2. \A m \in Machines : m # Here(t) => mutex'[m] = mutex[m]
    BY <1>5, <1>t DEF Lock, TypeOK
  <2>3. todo[t] # << >> /\ Here(t) \in Machines /\ mutex'[Here(t)] = t
    BY <1>5, <1>t, HereType DEF LocksInv, Busy, Lock, TypeOK
  <2> QED BY <1>5, <2>1, <2>2, <2>3 DEF Lock, Stage, AllCreated, Known, Here
<1>6. ASSUME NEW t \in Threads, Claim(t) PROVE AllCreated' /\ Known'
  <2>1. todo[t] # << >> /\ Here(t) \in Machines /\ mutex[Here(t)] = t
    BY <1>6, <1>t, HereType DEF LocksInv, Busy, Holders, Claim
  <2>2. stage'[t] = "run"
        /\ \A u \in Threads : u # t => stage'[u] = stage[u] /\ todo'[u] = todo[u]
    BY <1>6, <1>t DEF Claim, Advance, TypeOK
  <2>3. thread'[Here(t)] = t /\ \A m \in Machines : m # Here(t) => thread'[m] = thread[m]
    BY <1>6, <1>t, <2>1 DEF Claim, TypeOK
  <2>4. ASSUME NEW u \in Threads, stage'[u] = "lock" PROVE Here(u)' \in Created => thread'[Here(u)] # u
    <3>1. todo[u] # << >> /\ Here(u) \in Machines /\ u # t /\ stage[u] = "lock"
      BY <2>2, <2>4, <1>t, HereType DEF LocksInv, Busy
    <3>2. Here(u)' = Here(u)
      BY <2>2, <3>1 DEF Here
    <3> QED BY <3>1, <3>2, <2>3 DEF Known
  <2> QED BY <1>6, <2>1, <2>2, <2>3, <2>4 DEF Claim, AllCreated, Known, Here
<1>7. ASSUME NEW t \in Threads, Leave(t) PROVE AllCreated' /\ Known'
  <2>1. todo[t] # << >> /\ Here(t) \in Machines /\ mutex[Here(t)] = t
    BY <1>7, <1>t, HereType DEF LocksInv, Holders, Leave
  <2>2. \A u \in Threads : u # t => stage'[u] = stage[u] /\ todo'[u] = todo[u]
    BY <1>7, <1>t DEF Leave, Advance, Stage, TypeOK
  <2>3. \/ stage'[t] = "unlock" /\ todo'[t] = todo[t] /\ thread'[Here(t)] = None
        \/ stage'[t] = "run" /\ thread' = thread
    BY <1>7, <1>t, <2>1 DEF Leave, Advance, Stage, TypeOK
  <2>4. stage[t] = "run" /\ \A m \in Machines : m # Here(t) => thread'[m] = thread[m]
    BY <1>7, <1>t DEF Leave, TypeOK
  <2>5. ASSUME NEW u \in Threads, stage'[u] = "lock" PROVE Here(u)' \in Created => thread'[Here(u)] # u
    <3>1. todo[u] # << >> /\ Here(u) \in Machines /\ u # t /\ stage[u] = "lock"
      BY <2>2, <2>3, <2>5, <1>t, HereType DEF LocksInv, Busy
    <3>2. Here(u)' = Here(u)
      BY <2>2, <3>1 DEF Here
    <3> QED BY <3>1, <3>2, <2>3, <2>4, Inputs DEF Known
  <2>6. ASSUME NEW u \in Threads, NEW m \in Created, mutex[m] = u
        PROVE  thread'[m] = u \/ (stage'[u] \in {"claim", "unlock"} /\ Here(u)' = m)
    <3> m \in Machines
      BY Inputs
    <3>1. thread[m] = u \/ (stage[u] \in {"claim", "unlock"} /\ Here(u) = m)
      BY <2>6 DEF Known
    <3>2. CASE u = t
      <4>1. thread[m] = t
        BY <3>1, <3>2, <2>4
      <4>2. CASE m = Here(t)
        BY <2>3, <3>2, <4>1, <4>2 DEF Here
      <4>3. CASE m # Here(t)
        BY <2>4, <3>2, <4>1, <4>3, Inputs
      <4> QED BY <4>2, <4>3
    <3>3. CASE u # t
      BY <3>1, <3>3, <2>1, <2>2, <2>4, <2>6 DEF Here
    <3> QED BY <3>2, <3>3
  <2>7. AllCreated'
    BY <1>7, <2>2, <2>3 DEF Leave, AllCreated, Here
  <2> QED BY <1>7, <2>2, <2>3, <2>5, <2>6, <2>7 DEF Leave, Known, Here
<1>8. ASSUME NEW t \in Threads, Unlock(t) PROVE AllCreated' /\ Known'
  <2>1. todo[t] # << >> /\ Here(t) \in Machines
    BY <1>8, <1>t, HereType DEF LocksInv, Busy, Unlock
  <2>2. stage'[t] = "run"
        /\ \A u \in Threads : u # t => stage'[u] = stage[u] /\ todo'[u] = todo[u]
    BY <1>8, <1>t DEF Unlock, Advance, TypeOK
  <2>3. mutex'[Here(t)] = None /\ \A m \in Machines : m # Here(t) => mutex'[m] = mutex[m]
    BY <1>8, <1>t, <2>1 DEF Unlock, TypeOK
  <2> QED BY <1>8, <2>1, <2>2, <2>3, Inputs DEF Unlock, AllCreated, Known, Here
<1>9. CASE UNCHANGED vars
  BY <1>9 DEF vars, AllCreated, Known, Here
<1> QED BY <1>1, <1>2, <1>3, <1>4, <1>5, <1>6, <1>7, <1>8, <1>9, <1>10 DEF Next

\* Of a machine that had its mutex from the start no thread waits for one it holds: a
\* nested event of the same thread always finds its own name in @thread.
THEOREM NestedEventsPass == Spec => []NoSelfWait
<1>1. Init => SelfInv
  <2>1. Init => AllCreated /\ Known
    BY Inputs DEF Init, AllCreated, Known
  <2> QED BY <2>1, InitInv DEF SelfInv
<1>2. SelfInv => NoSelfWait
  <2> SUFFICES ASSUME SelfInv, NEW t \in Threads, stage[t] = "lock", Here(t) \in Created PROVE mutex[Here(t)] # t
    BY DEF NoSelfWait
  <2>1. Here(t) \in Machines /\ thread[Here(t)] # t
    BY HereType DEF SelfInv, LocksInv, Busy, Known
  <2> QED BY <2>1 DEF SelfInv, Known
<1> QED BY <1>1, <1>2, SelfStep, PTL DEF Spec
=============================================================================
