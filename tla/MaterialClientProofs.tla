------------------------ MODULE MaterialClientProofs ------------------------
(* For any material and any number of changes under way: the client has one *)
(* goal at a time, says ACTIVE only for a goal, and the machine tool hears   *)
(* of no completion that the robot did not earn.                            *)
EXTENDS MaterialClient, FiniteSetTheorems, SequenceTheorems, TLAPS

\* A goal, running or ended, is the one the stream's thread waits for.
GoalAwaited ==
  \A q \in Requests : goal[q] # "none" => at = "result" /\ q = Head(elements)

\* The places of a value in a sequence.
PlacesOf(s, v) == {n \in DOMAIN s : s[n] = v}

\* The completions on their way, and the success not yet reported, are paid for.
Completions(q) == Cardinality(PlacesOf(toCnc, <<q, "complete">>))
Earned ==
  \A q \in Requests : Completions(q) + (IF goal[q] = "succeeded" THEN 1 ELSE 0) <= won[q]

ClientInv == TypeOK /\ GoalAwaited /\ ActiveMeansGoal /\ Earned

-----------------------------------------------------------------------------
\* The sequences of requests and of changes.

\* Places in a sequence are finitely many.
LEMMA PlacesFinite ==
  ASSUME NEW S, NEW s \in Seq(S), NEW v
  PROVE  IsFiniteSet(PlacesOf(s, v)) /\ Cardinality(PlacesOf(s, v)) \in Nat
<1>1. Len(s) \in Nat /\ DOMAIN s = 1..Len(s)
  BY LenProperties
<1>2. IsFiniteSet(1..Len(s))
  BY <1>1, FS_Interval
<1>3. PlacesOf(s, v) \in SUBSET (1..Len(s))
  BY <1>1 DEF PlacesOf
<1> QED BY <1>2, <1>3, FS_Subset, FS_CardinalityType

\* An appended value has one place more.
LEMMA PlacesAppend ==
  ASSUME NEW S, NEW s \in Seq(S), NEW x \in S, NEW v
  PROVE  Cardinality(PlacesOf(Append(s, x), v)) =
           Cardinality(PlacesOf(s, v)) + (IF x = v THEN 1 ELSE 0)
<1> DEFINE t == Append(s, x)
<1>1. /\ Len(s) \in Nat /\ DOMAIN s = 1..Len(s)
      /\ Len(t) = Len(s) + 1 /\ DOMAIN t = 1..Len(t)
      /\ \A n \in 1..Len(s) : t[n] = s[n]
      /\ t[Len(s) + 1] = x
  BY LenProperties, AppendProperties
<1>2. Len(s) + 1 \notin PlacesOf(s, v)
  BY <1>1 DEF PlacesOf
<1>3. IsFiniteSet(PlacesOf(s, v)) /\ Cardinality(PlacesOf(s, v)) \in Nat
  BY PlacesFinite
<1>4. CASE x = v
  <2>1. PlacesOf(t, v) = PlacesOf(s, v) \cup {Len(s) + 1}
    BY <1>1, <1>4 DEF PlacesOf
  <2> QED BY <1>2, <1>3, <1>4, <2>1, FS_AddElement
<1>5. CASE x # v
  <2>1. PlacesOf(t, v) = PlacesOf(s, v)
    BY <1>1, <1>5 DEF PlacesOf
  <2> QED BY <1>3, <1>5, <2>1
<1> QED BY <1>4, <1>5

\* The tail of a sequence lacks the place of its head.
LEMMA PlacesTail ==
  ASSUME NEW S, NEW s \in Seq(S), s # << >>, NEW v
  PROVE  Cardinality(PlacesOf(Tail(s), v)) =
           Cardinality(PlacesOf(s, v)) - (IF Head(s) = v THEN 1 ELSE 0)
<1> DEFINE t == Tail(s)
           A == PlacesOf(s, v) \ {1}
           f == [n \in A |-> n - 1]
<1>1. /\ Len(s) \in Nat \ {0} /\ DOMAIN s = 1..Len(s)
      /\ Len(t) = Len(s) - 1 /\ DOMAIN t = 1..Len(t)
      /\ \A n \in 1..Len(t) : t[n] = s[n + 1]
  BY LenProperties, HeadTailProperties, EmptySeq
<1>2. Head(s) = s[1]
  OBVIOUS
<1>3. IsFiniteSet(PlacesOf(s, v)) /\ Cardinality(PlacesOf(s, v)) \in Nat
  BY PlacesFinite
<1>4. IsFiniteSet(A) /\ Cardinality(A) = Cardinality(PlacesOf(s, v)) - (IF Head(s) = v THEN 1 ELSE 0)
  <2>1. 1 \in PlacesOf(s, v) <=> Head(s) = v
    BY <1>1, <1>2 DEF PlacesOf
  <2> HIDE DEF A
  <2>2. A = PlacesOf(s, v) \ {1}
    BY DEF A
  <2> QED BY <1>3, <2>1, <2>2, FS_RemoveElement
<1>5. f \in Bijection(A, PlacesOf(t, v))
  <2>1. \A n \in A : n \in 2..Len(s) /\ s[n] = v
    BY <1>1 DEF PlacesOf
  <2>2. \A n \in A : n - 1 \in PlacesOf(t, v)
    BY <1>1, <2>1 DEF PlacesOf
  <2>3. \A n \in PlacesOf(t, v) : n + 1 \in A /\ f[n + 1] = n
    BY <1>1 DEF PlacesOf
  <2>4. f \in [A -> PlacesOf(t, v)]
    BY <2>2
  <2>5. \A n, m \in A : f[n] = f[m] => n = m
    BY <2>1
  <2>6. \A n \in PlacesOf(t, v) : \E m \in A : f[m] = n
    BY <2>3
  <2> HIDE DEF f, A
  <2> QED BY <2>4, <2>5, <2>6 DEF Bijection, Injection, Surjection, IsInjective
<1>6. Cardinality(PlacesOf(t, v)) = Cardinality(A)
  BY <1>4, <1>5, FS_Bijection DEF ExistsBijection
<1> QED BY <1>4, <1>6

\* The elements of one tag are requests of one kind.
LEMMA OfTagType ==
  ASSUME NEW chunk \in Seq(Requests), NEW q \in Requests
  PROVE  OfTag(chunk, q) \in Seq(Requests)
<1>1. {i \in DOMAIN chunk : chunk[i] = q} = PlacesOf(chunk, q)
  BY DEF PlacesOf
<1>2. Cardinality({i \in DOMAIN chunk : chunk[i] = q}) \in Nat
  BY <1>1, PlacesFinite
<1> QED BY <1>2 DEF OfTag

\* A request stays among its states, whatever it hears.
LEMMA RequestNextType ==
  ASSUME NEW s \in RequestStates, NEW e
  PROVE  RequestNext(s, e) \in RequestStates
BY DEF RequestNext, RequestEvents, RequestDefault, RequestStates


-----------------------------------------------------------------------------
(* Type correctness                                                         *)

\* What Publish and Becomes leave has its type.
LEMMA PublishType ==
  ASSUME TypeOK, NEW q \in Requests, NEW v \in PeerValues, Publish(q, v)
  PROVE  item' \in [Requests -> PeerValues] /\ toCnc' \in Seq(Requests \X PeerValues)
<1>1. item' \in [Requests -> PeerValues]
  BY DEF TypeOK, Publish
<1>2. <<q, v>> \in Requests \X PeerValues
  OBVIOUS
<1>3. Append(toCnc, <<q, v>>) \in Seq(Requests \X PeerValues)
  BY <1>2, AppendProperties DEF TypeOK
<1> QED BY <1>1, <1>3 DEF TypeOK, Publish

LEMMA BecomesType ==
  ASSUME TypeOK, NEW q \in Requests, NEW s \in RequestStates, Becomes(q, s)
  PROVE  req' \in [Requests -> RequestStates] /\ stream' \in Seq(Requests)
BY AppendProperties DEF TypeOK, Becomes

\* The change that arrives is a request's and a value.
LEMMA HeardType ==
  ASSUME TypeOK, toCnc # << >>
  PROVE  /\ Head(toCnc) \in Requests \X PeerValues
         /\ Head(toCnc)[1] \in Requests /\ Head(toCnc)[2] \in PeerValues
         /\ Head(toCnc) = <<Head(toCnc)[1], Head(toCnc)[2]>>
         /\ Tail(toCnc) \in Seq(Requests \X PeerValues)
BY HeadTailProperties DEF TypeOK

\* The request the thread works on.
LEMMA WorkedType ==
  ASSUME TypeOK, at \in {"server", "active", "send", "result"}
  PROVE  Head(elements) \in Requests /\ Tail(elements) \in Seq(Requests)
BY HeadTailProperties DEF TypeOK

\* Each step keeps the types.
LEMMA TypeStep ==
  ASSUME TypeOK, [Next]_vars
  PROVE  TypeOK'
<1> USE DEF cnc, robot
<1>1. CASE CncHears
  <2>1. RequestNext(req[Head(toCnc)[1]], Head(toCnc)[2]) \in RequestStates
    BY <1>1, HeardType, RequestNextType DEF TypeOK, CncHears
  <2>2. req' \in [Requests -> RequestStates] /\ stream' \in Seq(Requests)
    BY <1>1, <2>1, HeardType, BecomesType DEF CncHears
  <2>3. won' \in [Requests -> Int] /\ toCnc' \in Seq(Requests \X PeerValues)
    BY <1>1, HeardType DEF TypeOK, CncHears
  <2> QED BY <1>1, <2>2, <2>3 DEF TypeOK, CncHears
<1>2. CASE XmlCallback
  <2>1. PICK n \in 1..Len(stream) :
          /\ stream' = SubSeq(stream, n + 1, Len(stream))
          /\ elements' = OfTag(SubSeq(stream, 1, n), "load") \o OfTag(SubSeq(stream, 1, n), "unload")
    BY <1>2 DEF XmlCallback
  <2>2. Len(stream) \in Nat /\ \A i \in 1..Len(stream) : stream[i] \in Requests
    BY LenProperties DEF TypeOK
  <2>3. SubSeq(stream, 1, n) \in Seq(Requests) /\ SubSeq(stream, n + 1, Len(stream)) \in Seq(Requests)
    BY <2>2, SubSeqProperties
  <2>4. OfTag(SubSeq(stream, 1, n), "load") \in Seq(Requests)
    BY <2>3, OfTagType DEF Requests
  <2>5. OfTag(SubSeq(stream, 1, n), "unload") \in Seq(Requests)
    BY <2>3, OfTagType DEF Requests
  <2>6. elements' \in Seq(Requests)
    BY <2>1, <2>4, <2>5, ConcatProperties
  <2> QED BY <1>2, <2>1, <2>3, <2>6 DEF TypeOK, XmlCallback, Places
<1>3. CASE Element
  BY <1>3 DEF TypeOK, Element, Places
<1>4. CASE WaitForServer
  BY <1>4 DEF TypeOK, WaitForServer, Places
<1>5. CASE SayActive
  <2>1. item' \in [Requests -> PeerValues] /\ toCnc' \in Seq(Requests \X PeerValues)
    BY <1>5, WorkedType, PublishType DEF SayActive, PeerValues
  <2> QED BY <1>5, <2>1 DEF TypeOK, SayActive, Places
<1>6. CASE SendGoal
  BY <1>6 DEF TypeOK, SendGoal, Places
<1>7. CASE Result
  <2> DEFINE q == Head(elements)
  <2>1. q \in Requests /\ Tail(elements) \in Seq(Requests)
    BY <1>7, WorkedType DEF Result
  <2>2. item' \in [Requests -> PeerValues] /\ toCnc' \in Seq(Requests \X PeerValues)
    <3>1. CASE goal[q] = "succeeded"
      BY <1>7, <2>1, <3>1, PublishType DEF Result, PeerValues
    <3>2. CASE goal[q] = "aborted"
      BY <1>7, <2>1, <3>2, PublishType DEF Result, PeerValues
    <3>3. CASE goal[q] = "lost"
      BY <1>7, <3>3 DEF Result, TypeOK
    <3> QED BY <1>7, <3>1, <3>2, <3>3 DEF Result
  <2>3. goal' \in [Requests -> {"none", "active", "succeeded", "aborted", "lost"}] /\ lost' \in BOOLEAN
    BY <1>7, <2>1 DEF Result, TypeOK
  <2> QED BY <1>7, <2>1, <2>2, <2>3 DEF TypeOK, Result, Places
<1>8. ASSUME NEW q \in Requests, CncDoes(q)
      PROVE  TypeOK'
  <2>1. PICK e : Becomes(q, RequestNext(req[q], e))
    BY <1>8 DEF CncDoes
  <2>2. req' \in [Requests -> RequestStates] /\ stream' \in Seq(Requests)
    BY <2>1, BecomesType, RequestNextType DEF TypeOK
  <2> QED BY <1>8, <2>2 DEF TypeOK, CncDoes
<1>9. ASSUME NEW q \in Requests, GoalEnds(q)
      PROVE  TypeOK'
  BY <1>9 DEF TypeOK, GoalEnds
<1>10. ASSUME NEW q \in Requests, RobotState(q)
       PROVE  TypeOK'
  <2>1. item' \in [Requests -> PeerValues] /\ toCnc' \in Seq(Requests \X PeerValues)
    BY <1>10, PublishType DEF RobotState, PeerValues
  <2> QED BY <1>10, <2>1 DEF TypeOK, RobotState
<1>11. CASE UNCHANGED vars
  BY <1>11 DEF TypeOK, vars
<1> QED
  BY <1>1, <1>2, <1>3, <1>4, <1>5, <1>6, <1>7, <1>8, <1>9, <1>10, <1>11 DEF Next

LEMMA TypeInit ==
  ASSUME Init
  PROVE  TypeOK
<1>1. << >> \in Seq(Requests) /\ << >> \in Seq(Requests \X PeerValues)
  BY EmptySeq
<1>2. req \in [Requests -> RequestStates] /\ item \in [Requests -> PeerValues]
  BY DEF Init, RequestStates, PeerValues
<1>3. won \in [Requests -> Int]
  BY DEF Init
<1> QED BY <1>1, <1>2, <1>3 DEF Init, TypeOK, Places

\* The client, the machine tool and the robot keep their types, whatever the material and
\* however much is under way.
THEOREM ClientTyped == Spec => []TypeOK
<1>1. Init => TypeOK
  BY TypeInit
<1>2. TypeOK /\ [Next]_vars => TypeOK'
  BY TypeStep
<1> QED BY <1>1, <1>2, PTL DEF Spec

-----------------------------------------------------------------------------
(* One goal, ACTIVE for a goal, completions that are earned                 *)

\* Only the thread that waits for a goal ends it, and it sends the next one after that.
LEMMA AwaitedStep ==
  ASSUME TypeOK, GoalAwaited, [Next]_vars
  PROVE  GoalAwaited'
<1> USE DEF GoalAwaited, cnc, robot
<1>1. CASE CncHears
  BY <1>1 DEF CncHears
<1>2. CASE XmlCallback
  BY <1>2 DEF XmlCallback
<1>3. CASE Element
  BY <1>3 DEF Element
<1>4. CASE WaitForServer
  BY <1>4 DEF WaitForServer
<1>5. CASE SayActive
  BY <1>5 DEF SayActive
<1>6. CASE SendGoal
  BY <1>6 DEF SendGoal, TypeOK
<1>7. CASE Result
  BY <1>7, WorkedType DEF Result, TypeOK
<1>8. ASSUME NEW q \in Requests, CncDoes(q)
      PROVE  GoalAwaited'
  BY <1>8 DEF CncDoes
<1>9. ASSUME NEW q \in Requests, GoalEnds(q)
      PROVE  GoalAwaited'
  BY <1>9 DEF GoalEnds, TypeOK
<1>10. ASSUME NEW q \in Requests, RobotState(q)
       PROVE  GoalAwaited'
  BY <1>10 DEF RobotState
<1>11. CASE UNCHANGED vars
  BY <1>11 DEF vars
<1> QED
  BY <1>1, <1>2, <1>3, <1>4, <1>5, <1>6, <1>7, <1>8, <1>9, <1>10, <1>11 DEF Next

\* ACTIVE is published right before the goal is sent, and replaced when its end is known.
LEMMA ActiveStep ==
  ASSUME TypeOK, ActiveMeansGoal, [Next]_vars
  PROVE  ActiveMeansGoal'
<1> USE DEF ActiveMeansGoal, cnc, robot
<1>1. CASE CncHears
  BY <1>1 DEF CncHears
<1>2. CASE XmlCallback
  BY <1>2 DEF XmlCallback
<1>3. CASE Element
  BY <1>3 DEF Element
<1>4. CASE WaitForServer
  BY <1>4 DEF WaitForServer
<1>5. CASE SayActive
  <2>1. Head(elements) \in Requests /\ elements # << >>
    BY <1>5, WorkedType DEF SayActive, TypeOK
  <2>2. \A q \in Requests : q # Head(elements) => item'[q] = item[q]
    BY <1>5 DEF SayActive, Publish, TypeOK
  <2> QED BY <1>5, <2>1, <2>2 DEF SayActive
<1>6. CASE SendGoal
  BY <1>6 DEF SendGoal
<1>7. CASE Result
  <2> DEFINE q == Head(elements)
  <2>1. q \in Requests
    BY <1>7, WorkedType DEF Result
  <2>2. \A p \in Requests : p # q => item'[p] = item[p]
    BY <1>7, <2>1 DEF Result, Publish, TypeOK
  <2>3. goal[q] # "lost" => item'[q] # "active"
    BY <1>7, <2>1 DEF Result, Publish, TypeOK
  <2>4. lost' = (lost \/ goal[q] = "lost")
    BY <1>7 DEF Result
  <2> QED BY <1>7, <2>1, <2>2, <2>3, <2>4 DEF Result
<1>8. ASSUME NEW q \in Requests, CncDoes(q)
      PROVE  ActiveMeansGoal'
  BY <1>8 DEF CncDoes
<1>9. ASSUME NEW q \in Requests, GoalEnds(q)
      PROVE  ActiveMeansGoal'
  BY <1>9 DEF GoalEnds
<1>10. ASSUME NEW q \in Requests, RobotState(q)
       PROVE  ActiveMeansGoal'
  BY <1>10 DEF RobotState, Publish, TypeOK
<1>11. CASE UNCHANGED vars
  BY <1>11 DEF vars
<1> QED
  BY <1>1, <1>2, <1>3, <1>4, <1>5, <1>6, <1>7, <1>8, <1>9, <1>10, <1>11 DEF Next

\* What Publish adds to the completions on their way.
LEMMA PublishCount ==
  ASSUME TypeOK, NEW q \in Requests, NEW v \in PeerValues, Publish(q, v), NEW p \in Requests
  PROVE  Completions(p)' <= Completions(p) + (IF p = q /\ v = "complete" THEN 1 ELSE 0)
<1> DEFINE done == <<p, "complete">>
<1>0. Completions(p) = Cardinality(PlacesOf(toCnc, done)) /\ Completions(p)' = Cardinality(PlacesOf(toCnc', done))
  BY DEF Completions
<1>1. toCnc \in Seq(Requests \X PeerValues)
  BY DEF TypeOK
<1>2. Cardinality(PlacesOf(toCnc, done)) \in Nat
  BY <1>1, PlacesFinite
<1>3. CASE toCnc' = toCnc
  BY <1>0, <1>2, <1>3
<1>4. CASE toCnc' = Append(toCnc, <<q, v>>)
  <2>1. <<q, v>> \in Requests \X PeerValues
    OBVIOUS
  <2>2. Cardinality(PlacesOf(toCnc', done)) =
          Cardinality(PlacesOf(toCnc, done)) + (IF <<q, v>> = done THEN 1 ELSE 0)
    BY <1>1, <1>4, <2>1, PlacesAppend
  <2>3. <<q, v>> = done <=> p = q /\ v = "complete"
    OBVIOUS
  <2> QED BY <1>0, <1>2, <2>2, <2>3
<1> QED BY <1>3, <1>4 DEF Publish

\* A completion is sent for the success that was paid in, and taken out when it arrives.
LEMMA EarnedStep ==
  ASSUME TypeOK, GoalAwaited, Earned, [Next]_vars
  PROVE  Earned'
<1> SUFFICES ASSUME NEW p \in Requests
             PROVE  Completions(p)' + (IF goal'[p] = "succeeded" THEN 1 ELSE 0) <= won'[p]
  BY DEF Earned
<1> USE DEF cnc, robot
<1>0. /\ Completions(p) \in Nat /\ Completions(p)' \in Nat /\ won[p] \in Int
      /\ Completions(p) + (IF goal[p] = "succeeded" THEN 1 ELSE 0) <= won[p]
      /\ toCnc' = toCnc => Completions(p)' = Completions(p)
  BY TypeStep, PlacesFinite DEF TypeOK, Earned, Completions
<1>1. CASE CncHears
  <2> DEFINE q == Head(toCnc)[1]
             v == Head(toCnc)[2]
  <2>1. q \in Requests /\ Head(toCnc) = <<q, v>> /\ toCnc # << >>
    BY <1>1, HeardType DEF CncHears
  <2>2. toCnc' = Tail(toCnc) /\ goal' = goal
    BY <1>1 DEF CncHears
  <2>3. won' = IF v = "complete" THEN [won EXCEPT ![q] = @ - 1] ELSE won
    BY <1>1 DEF CncHears
  <2>4. won'[p] = won[p] - (IF p = q /\ v = "complete" THEN 1 ELSE 0)
    BY <1>0, <2>1, <2>3 DEF TypeOK
  <2>5. Completions(p)' = Completions(p) - (IF Head(toCnc) = <<p, "complete">> THEN 1 ELSE 0)
    BY <2>1, <2>2, PlacesTail DEF TypeOK, Completions
  <2>6. Head(toCnc) = <<p, "complete">> <=> p = q /\ v = "complete"
    BY <2>1
  <2> QED BY <1>0, <2>2, <2>4, <2>5, <2>6
<1>2. CASE XmlCallback
  BY <1>0, <1>2 DEF XmlCallback
<1>3. CASE Element
  BY <1>0, <1>3 DEF Element
<1>4. CASE WaitForServer
  BY <1>0, <1>4 DEF WaitForServer
<1>5. CASE SayActive
  <2>1. Publish(Head(elements), "active") /\ goal' = goal /\ won' = won
    BY <1>5 DEF SayActive
  <2>2. Completions(p)' <= Completions(p)
    BY <1>0, <1>5, <2>1, WorkedType, PublishCount DEF SayActive, PeerValues
  <2> QED BY <1>0, <2>1, <2>2
<1>6. CASE SendGoal
  BY <1>0, <1>6, WorkedType DEF SendGoal, TypeOK
<1>7. CASE Result
  <2> DEFINE q == Head(elements)
  <2>1. q \in Requests /\ won' = won
    BY <1>7, WorkedType DEF Result
  <2>2. goal'[p] = IF p = q THEN "none" ELSE goal[p]
    BY <1>7, <2>1 DEF Result, TypeOK
  <2>3. Completions(p)' <= Completions(p) + (IF p = q /\ goal[q] = "succeeded" THEN 1 ELSE 0)
    <3>1. CASE goal[q] = "succeeded"
      <4>1. Publish(q, "complete")
        BY <1>7, <3>1 DEF Result
      <4> QED BY <2>1, <3>1, <4>1, PublishCount DEF PeerValues
    <3>2. CASE goal[q] = "aborted"
      <4>1. Publish(q, "failure")
        BY <1>7, <3>2 DEF Result
      <4> QED BY <1>0, <2>1, <3>2, <4>1, PublishCount DEF PeerValues
    <3>3. CASE goal[q] = "lost"
      <4>1. toCnc' = toCnc
        BY <1>7, <3>3 DEF Result
      <4> QED BY <1>0, <3>3, <4>1
    <3> QED BY <1>7, <3>1, <3>2, <3>3 DEF Result
  <2> QED BY <1>0, <2>1, <2>2, <2>3
<1>8. ASSUME NEW q \in Requests, CncDoes(q)
      PROVE  Completions(p)' + (IF goal'[p] = "succeeded" THEN 1 ELSE 0) <= won'[p]
  BY <1>0, <1>8 DEF CncDoes
<1>9. ASSUME NEW q \in Requests, GoalEnds(q)
      PROVE  Completions(p)' + (IF goal'[p] = "succeeded" THEN 1 ELSE 0) <= won'[p]
  BY <1>0, <1>9 DEF GoalEnds, TypeOK
<1>10. ASSUME NEW q \in Requests, RobotState(q)
       PROVE  Completions(p)' + (IF goal'[p] = "succeeded" THEN 1 ELSE 0) <= won'[p]
  <2>1. PICK v \in {"ready", "not_ready"} : Publish(q, v)
    BY <1>10 DEF RobotState
  <2>2. Completions(p)' <= Completions(p)
    BY <1>0, <2>1, PublishCount DEF PeerValues
  <2> QED BY <1>0, <1>10, <2>2 DEF RobotState
<1>11. CASE UNCHANGED vars
  BY <1>0, <1>11 DEF vars
<1> QED
  BY <1>1, <1>2, <1>3, <1>4, <1>5, <1>6, <1>7, <1>8, <1>9, <1>10, <1>11 DEF Next

\* ClientInv is inductive.
THEOREM ClientKept == Spec => []ClientInv
<1>1. Init => ClientInv
  <2> SUFFICES ASSUME Init PROVE ClientInv
    OBVIOUS
  <2>1. GoalAwaited /\ ActiveMeansGoal
    BY DEF Init, GoalAwaited, ActiveMeansGoal
  <2>2. \A q \in Requests : PlacesOf(toCnc, <<q, "complete">>) = {}
    BY DEF Init, PlacesOf
  <2>3. \A q \in Requests : Completions(q) = 0 /\ goal[q] # "succeeded" /\ won[q] = 0
    BY <2>2, FS_EmptySet DEF Init, Completions
  <2>4. Earned
    BY <2>3 DEF Earned
  <2> QED BY <2>1, <2>4, TypeInit DEF ClientInv
<1>2. ClientInv /\ [Next]_vars => ClientInv'
  BY TypeStep, AwaitedStep, ActiveStep, EarnedStep DEF ClientInv
<1> QED BY <1>1, <1>2, PTL DEF Spec

\* The machine tool hears of no completion that the robot did not earn, whatever was
\* withdrawn, repeated or lost (bridge_client.py:258-265).
THEOREM ClientEarnsCompletions == Spec => []CompletionsEarned
<1>1. ClientInv => CompletionsEarned
  <2> SUFFICES ASSUME ClientInv, NEW q \in Requests PROVE won[q] >= 0
    BY DEF CompletionsEarned
  <2>1. Completions(q) \in Nat /\ won[q] \in Int
    BY PlacesFinite DEF ClientInv, TypeOK, Completions
  <2> QED BY <2>1 DEF ClientInv, Earned
<1> QED BY <1>1, ClientKept, PTL

\* The robot has one goal of this client at a time (bridge_client.py:246).
THEOREM ClientHasOneGoal == Spec => []OneGoal
<1>1. ClientInv => OneGoal
  BY DEF ClientInv, GoalAwaited, OneGoal
<1> QED BY <1>1, ClientKept, PTL

\* The robot says ACTIVE only while its goal is on its way or runs, unless a goal was lost
\* (bridge_client.py:241, 262).
THEOREM ClientActiveMeansGoal == Spec => []ActiveMeansGoal
<1>1. ClientInv => ActiveMeansGoal
  BY DEF ClientInv
<1> QED BY <1>1, ClientKept, PTL
=============================================================================
