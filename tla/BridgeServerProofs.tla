------------------------- MODULE BridgeServerProofs -------------------------
(* For any requests served, and whatever is on its way: a machine tool that *)
(* is not disabled in the middle of an exchange gets the robot's READY only *)
(* for a COMPLETE of this goal; and when the robot does one thing at a time *)
(* a goal that succeeded has moved the device, which has stayed there.      *)
(*                                                                         *)
(* What is on its way from the machine tool to the server of r is, in this  *)
(* order, the server's chunk, the queue and the stream.                     *)
EXTENDS BridgeServer, SequenceTheorems, TLAPS

Has(s, e) == \E i \in DOMAIN s : s[i] = e
Own(s, r) == \E i \in DOMAIN s : s[i][1] = r

Completed(r) == <<r, "complete">>

\* Nothing of r's is behind its COMPLETE.
CompleteIsLast(s, r) == \A i, j \in DOMAIN s : s[i] = Completed(r) /\ i < j => s[j][1] # r

OwnComing(r) == Own(chunk[r], r) \/ (\E n \in DOMAIN queue : Own(queue[n], r)) \/ Own(stream, r)
Coming(r) ==
  Has(chunk[r], Completed(r)) \/ (\E n \in DOMAIN queue : Has(queue[n], Completed(r))) \/ Has(stream, Completed(r))
Answered(r) == Has(toCnc, <<r, "ready">>)

\* A COMPLETE that is on its way is the last thing the machine tool has said.
LastWord ==
  \A r \in Actions :
    /\ CompleteIsLast(chunk[r], r) /\ CompleteIsLast(stream, r)
    /\ \A n \in DOMAIN queue : CompleteIsLast(queue[n], r)
    /\ Has(chunk[r], Completed(r)) => ~Own(stream, r) /\ \A n \in DOMAIN queue : ~Own(queue[n], r)
    /\ \A n \in DOMAIN queue : Has(queue[n], Completed(r)) =>
         ~Own(stream, r) /\ \A k \in DOMAIN queue : n < k => ~Own(queue[k], r)

\* The machine tool stays complete until it hears the one READY that answers its COMPLETE.
OneAnswer ==
  \A r \in Actions :
    /\ Coming(r) => resp[r] = "complete" /\ ~Answered(r)
    /\ Answered(r) => resp[r] = "complete" /\ ~OwnComing(r)
    /\ \A i, j \in DOMAIN toCnc : toCnc[i] = <<r, "ready">> /\ toCnc[j] = <<r, "ready">> => i = j

\* What the machine tool completed after the goal's check, it completed for this goal.
CompletesThisGoal ==
  \A r \in Actions :
    /\ goal[r] \in {"submit", "capture", "dwell"} /\ resp[r] = "complete" => moved[r]
    /\ goal[r] \in {"capture", "dwell"} /\ hold[r] => moved[r]

AnswerInv == TypeOK /\ LastWord /\ OneAnswer /\ CompletesThisGoal

SameDevice(a, r) == Device[a] = Device[r]

\* A device is moved by one response at a time, and is where a complete one says.
DeviceOwned ==
  \A r \in Actions :
    /\ resp[r] = "complete" => pos[Device[r]] = Dest[r]
    /\ resp[r] = "active" => pos[Device[r]] = "UNLATCHED"
    /\ \A a \in Actions : SameDevice(a, r) /\ a # r /\ resp[r] \in {"active", "complete"} =>
                            resp[a] \notin {"active", "complete"}

OneGoal == \A a, r \in Actions : goal[a] # "none" /\ goal[r] # "none" => a = r

\* A goal that has had its COMPLETE: its READY is the last thing the robot said, and once
\* that is heard nothing moves the device.
Settled(r) ==
  /\ pos[Device[r]] = Dest[r]
  /\ \A a \in Actions : SameDevice(a, r) => resp[a] # "active" /\ ~Has(toCnc, <<a, "active">>)

HeldIsSettled ==
  \A r \in Actions :
    /\ goal[r] = "capture" => ~hold[r]
    /\ goal[r] \in {"capture", "dwell"} /\ ~hold[r] => robot[r] = "active"
    /\ goal[r] = "dwell" /\ hold[r] =>
         \/ toCnc # << >> /\ toCnc[Len(toCnc)] = <<r, "ready">>
         \/ toCnc = << >> /\ Settled(r)
    /\ goal[r] = "leave" => outcome[r] # "none"

\* A success lasts until the device gets another goal.
SuccessIsSettled ==
  \A r \in Actions : outcome[r] = "succeeded" =>
    /\ moved[r] /\ Settled(r)
    /\ \A a \in Actions : SameDevice(a, r) => goal[a] = "none" \/ (a = r /\ goal[a] = "leave")

SuccessInv == AnswerInv /\ DeviceOwned /\ OneGoal /\ HeldIsSettled /\ SuccessIsSettled

-----------------------------------------------------------------------------
(* Sequences                                                                *)

\* What an element at the end adds.
LEMMA AtEnd ==
  ASSUME NEW S, NEW s \in Seq(S), NEW x \in S
  PROVE  /\ Append(s, x) \in Seq(S)
         /\ \A e : Has(Append(s, x), e) <=> Has(s, e) \/ x = e
         /\ \A r : Own(Append(s, x), r) <=> Own(s, r) \/ x[1] = r
         /\ \A r : CompleteIsLast(Append(s, x), r) <=>
                     CompleteIsLast(s, r) /\ (Has(s, Completed(r)) => x[1] # r)
<1> DEFINE t == Append(s, x)
<1>1. /\ t \in Seq(S) /\ Len(s) \in Nat /\ DOMAIN s = 1..Len(s) /\ DOMAIN t = 1..Len(s) + 1
      /\ (\A i \in 1..Len(s) : t[i] = s[i]) /\ t[Len(s) + 1] = x
  BY AppendProperties, LenProperties
<1> HIDE DEF t
<1>2. \A e : Has(t, e) <=> Has(s, e) \/ x = e
  BY <1>1 DEF Has
<1>3. \A r : Own(t, r) <=> Own(s, r) \/ x[1] = r
  BY <1>1 DEF Own
<1>4. ASSUME NEW r, CompleteIsLast(t, r)
      PROVE  CompleteIsLast(s, r) /\ (Has(s, Completed(r)) => x[1] # r)
  BY <1>1, <1>4 DEF CompleteIsLast, Has
<1>5. ASSUME NEW r, CompleteIsLast(s, r), Has(s, Completed(r)) => x[1] # r
      PROVE  CompleteIsLast(t, r)
  BY <1>1, <1>5 DEF CompleteIsLast, Has
<1> QED BY <1>1, <1>2, <1>3, <1>4, <1>5 DEF t

\* What the rest of a sequence keeps.
LEMMA AtFront ==
  ASSUME NEW S, NEW s \in Seq(S), s # << >>
  PROVE  /\ Head(s) \in S /\ Tail(s) \in Seq(S)
         /\ \A e : Has(s, e) <=> Head(s) = e \/ Has(Tail(s), e)
         /\ \A r : Own(s, r) <=> Head(s)[1] = r \/ Own(Tail(s), r)
         /\ \A r : CompleteIsLast(s, r) =>
              CompleteIsLast(Tail(s), r) /\ (Head(s) = Completed(r) => ~Own(Tail(s), r))
<1> DEFINE t == Tail(s)
<1>1. /\ Head(s) \in S /\ t \in Seq(S) /\ Len(s) \in Nat /\ Len(s) > 0 /\ DOMAIN s = 1..Len(s)
      /\ DOMAIN t = 1..Len(s) - 1 /\ Head(s) = s[1] /\ \A i \in 1..Len(s) - 1 : t[i] = s[i + 1]
  BY HeadTailProperties, LenProperties, EmptySeq
<1> HIDE DEF t
<1>0. ASSUME NEW i \in DOMAIN s PROVE i = 1 \/ (i - 1 \in DOMAIN t /\ t[i - 1] = s[i])
  BY <1>1
<1>2. \A e : Has(s, e) <=> Head(s) = e \/ Has(t, e)
  <2>1. ASSUME NEW e, Has(s, e) PROVE Head(s) = e \/ Has(t, e)
    BY <1>0, <1>1, <2>1 DEF Has
  <2>2. ASSUME NEW e, Head(s) = e \/ Has(t, e) PROVE Has(s, e)
    BY <1>1, <2>2 DEF Has
  <2> QED BY <2>1, <2>2
<1>3. \A r : Own(s, r) <=> Head(s)[1] = r \/ Own(t, r)
  <2>1. ASSUME NEW r, Own(s, r) PROVE Head(s)[1] = r \/ Own(t, r)
    BY <1>0, <1>1, <2>1 DEF Own
  <2>2. ASSUME NEW r, Head(s)[1] = r \/ Own(t, r) PROVE Own(s, r)
    BY <1>1, <2>2 DEF Own
  <2> QED BY <2>1, <2>2
<1>4. ASSUME NEW r, CompleteIsLast(s, r)
      PROVE  CompleteIsLast(t, r) /\ (Head(s) = Completed(r) => ~Own(t, r))
  <2>1. ASSUME NEW i \in DOMAIN t, NEW j \in DOMAIN t, t[i] = Completed(r), i < j
        PROVE  t[j][1] # r
    <3>1. i + 1 \in DOMAIN s /\ j + 1 \in DOMAIN s /\ i + 1 < j + 1
      BY <1>1, <2>1
    <3> QED BY <1>1, <1>4, <2>1, <3>1 DEF CompleteIsLast
  <2>2. ASSUME NEW j \in DOMAIN t, Head(s) = Completed(r)
        PROVE  t[j][1] # r
    <3>1. 1 \in DOMAIN s /\ j + 1 \in DOMAIN s /\ 1 < j + 1
      BY <1>1
    <3> QED BY <1>1, <1>4, <2>2, <3>1 DEF CompleteIsLast
  <2> QED BY <2>1, <2>2 DEF CompleteIsLast, Own
<1> QED BY <1>1, <1>2, <1>3, <1>4 DEF t

\* What the two pieces of a sequence that is cut have from it.
LEMMA InPieces ==
  ASSUME NEW S, NEW s \in Seq(S), NEW n \in 1..Len(s)
  PROVE  LET a == SubSeq(s, 1, n)
             b == SubSeq(s, n + 1, Len(s))
         IN  /\ a \in Seq(S) /\ b \in Seq(S)
             /\ \A e : Has(a, e) \/ Has(b, e) => Has(s, e)
             /\ \A r : Own(a, r) \/ Own(b, r) => Own(s, r)
             /\ \A r : CompleteIsLast(s, r) =>
                  CompleteIsLast(a, r) /\ CompleteIsLast(b, r) /\ (Has(a, Completed(r)) => ~Own(b, r))
<1> DEFINE a == SubSeq(s, 1, n)
           b == SubSeq(s, n + 1, Len(s))
<1>1. /\ a \in Seq(S) /\ b \in Seq(S) /\ Len(s) \in Nat /\ n \in Nat /\ n <= Len(s) /\ DOMAIN s = 1..Len(s)
      /\ DOMAIN a = 1..n /\ (\A i \in 1..n : a[i] = s[i])
      /\ DOMAIN b = 1..Len(s) - n /\ (\A i \in 1..Len(s) - n : b[i] = s[n + i])
  BY SMTT(30)
<1> HIDE DEF a, b
<1>0. /\ \A i \in DOMAIN a : i \in DOMAIN s
      /\ \A i \in DOMAIN b : n + i \in DOMAIN s /\ b[i] = s[n + i]
  BY <1>1
<1>2. \A e : Has(a, e) \/ Has(b, e) => Has(s, e)
  BY <1>0, <1>1 DEF Has
<1>3. \A r : Own(a, r) \/ Own(b, r) => Own(s, r)
  BY <1>0, <1>1 DEF Own
<1>4. ASSUME NEW r, CompleteIsLast(s, r)
      PROVE  CompleteIsLast(a, r) /\ CompleteIsLast(b, r) /\ (Has(a, Completed(r)) => ~Own(b, r))
  <2>1. CompleteIsLast(a, r)
    BY <1>1, <1>4 DEF CompleteIsLast
  <2>2. CompleteIsLast(b, r)
    <3> SUFFICES ASSUME NEW i \in DOMAIN b, NEW j \in DOMAIN b, b[i] = Completed(r), i < j
                 PROVE  b[j][1] # r
      BY DEF CompleteIsLast
    <3>1. n + i \in DOMAIN s /\ n + j \in DOMAIN s /\ n + i < n + j
      BY <1>1
    <3> QED BY <1>1, <1>4, <3>1 DEF CompleteIsLast
  <2>3. ASSUME NEW i \in DOMAIN a, NEW j \in DOMAIN b, a[i] = Completed(r) PROVE b[j][1] # r
    <3>1. i \in DOMAIN s /\ n + j \in DOMAIN s /\ i < n + j
      BY <1>1
    <3> QED BY <1>1, <1>4, <2>3, <3>1 DEF CompleteIsLast
  <2> QED BY <2>1, <2>2, <2>3 DEF Has, Own
<1> QED BY <1>1, <1>2, <1>3, <1>4 DEF a, b

-----------------------------------------------------------------------------
(* Types                                                                    *)

Said == {"ready", "active", "failure"}

\* The responses know these actions and devices.
LEMMA Known ==
  \A r \in Actions : r \in Responses /\ Device[r] \in {"door", "chuck"} /\ Dest[r] \in {"OPEN", "CLOSED"}
BY Inputs DEF Responses, Device, Dest

\* What a response makes of what the robot says: it never completes by that, becomes active
\* only by ACTIVE, and leaves complete only by READY.
LEMMA Hearing ==
  ASSUME NEW s \in ResponseStates, NEW v \in Said
  PROVE  /\ ResponseNext(s, v) \in ResponseStates
         /\ ResponseNext(s, v) = "complete" => s = "complete"
         /\ ResponseNext(s, v) = "active" /\ s # "active" => v = "active"
         /\ s = "complete" /\ ResponseNext(s, v) # s => v = "ready"
         /\ s = "complete" /\ v = "ready" => ResponseNext(s, v) = "ready"
<1>1. CASE s = "not_ready"
  BY <1>1 DEF Said, ResponseNext, ResponseEvents, ResponseDefault, ResponseStates
<1>2. CASE s = "ready"
  BY <1>2 DEF Said, ResponseNext, ResponseEvents, ResponseDefault, ResponseStates
<1>3. CASE s = "active"
  BY <1>3 DEF Said, ResponseNext, ResponseEvents, ResponseDefault, ResponseStates
<1>4. CASE s = "fail"
  BY <1>4 DEF Said, ResponseNext, ResponseEvents, ResponseDefault, ResponseStates
<1>5. CASE s = "complete"
  BY <1>5 DEF Said, ResponseNext, ResponseEvents, ResponseDefault, ResponseStates
<1> QED BY <1>1, <1>2, <1>3, <1>4, <1>5 DEF ResponseStates

\* What becomes of a response and its device.
LEMMA BecomesType ==
  ASSUME TypeOK, NEW r \in Actions, NEW s \in ResponseStates, CncBecomes(r, s)
  PROVE  /\ resp' \in [Actions -> ResponseStates] /\ resp'[r] = s
         /\ \A a \in Actions : a # r => resp'[a] = resp[a]
         /\ pos' \in [{"door", "chuck"} -> {"OPEN", "CLOSED", "UNLATCHED"}]
         /\ s = "complete" => pos'[Device[r]] = Dest[r]
         /\ s = "active" => pos'[Device[r]] = "UNLATCHED"
         /\ s \notin {"active", "complete"} => pos' = pos
         /\ \A d \in {"door", "chuck"} : d # Device[r] => pos'[d] = pos[d]
         /\ moved' \in [Actions -> BOOLEAN]
         /\ \A a \in Actions : moved'[a] <=> moved[a] \/ (a = r /\ s = "complete")
         /\ stream' = IF s \in Heeded THEN Append(stream, <<r, s>>) ELSE stream
         /\ stream' \in Seq(Change)
<1>1. /\ resp' \in [Actions -> ResponseStates] /\ resp'[r] = s
      /\ \A a \in Actions : a # r => resp'[a] = resp[a]
  BY DEF TypeOK, CncBecomes
<1>2. /\ pos' \in [{"door", "chuck"} -> {"OPEN", "CLOSED", "UNLATCHED"}]
      /\ s = "complete" => pos'[Device[r]] = Dest[r]
      /\ s = "active" => pos'[Device[r]] = "UNLATCHED"
      /\ \A d \in {"door", "chuck"} : d # Device[r] => pos'[d] = pos[d]
  <2>1. Device[r] \in {"door", "chuck"} /\ Dest[r] \in {"OPEN", "CLOSED"}
    BY Known
  <2>2. pos \in [{"door", "chuck"} -> {"OPEN", "CLOSED", "UNLATCHED"}]
    BY DEF TypeOK
  <2> HIDE DEF Device, Dest
  <2>3. CASE s = "complete"
    <3>1. pos' = [pos EXCEPT ![Device[r]] = Dest[r]]
      BY <2>3 DEF CncBecomes
    <3> QED BY <2>1, <2>2, <2>3, <3>1
  <2>4. CASE s = "active"
    <3>1. pos' = [pos EXCEPT ![Device[r]] = "UNLATCHED"]
      BY <2>4 DEF CncBecomes
    <3> QED BY <2>1, <2>2, <2>4, <3>1
  <2>5. CASE s \notin {"active", "complete"}
    <3>1. pos' = [pos EXCEPT ![Device[r]] = @]
      BY <2>5 DEF CncBecomes
    <3> QED BY <2>1, <2>2, <2>5, <3>1
  <2> QED BY <2>3, <2>4, <2>5
<1>3. s \notin {"active", "complete"} => pos' = pos
  <2>1. pos \in [{"door", "chuck"} -> {"OPEN", "CLOSED", "UNLATCHED"}]
    BY DEF TypeOK
  <2>2. s \notin {"active", "complete"} => pos' = [pos EXCEPT ![Device[r]] = @]
    BY DEF CncBecomes
  <2> QED BY <2>1, <2>2
<1>4. /\ moved' \in [Actions -> BOOLEAN]
      /\ \A a \in Actions : moved'[a] <=> moved[a] \/ (a = r /\ s = "complete")
  BY DEF TypeOK, CncBecomes
<1>5. stream' = IF s \in Heeded THEN Append(stream, <<r, s>>) ELSE stream
  BY DEF CncBecomes
<1>6. stream' \in Seq(Change)
  <2>1. s \in Heeded => <<r, s>> \in Change
    BY DEF Change
  <2> QED BY <1>5, <2>1 DEF TypeOK
<1> QED BY <1>1, <1>2, <1>3, <1>4, <1>5, <1>6

\* What becomes of the robot's data items.
LEMMA PublishType ==
  ASSUME TypeOK, NEW r \in Actions, NEW v \in {"ready", "active", "fail"}, Publish(r, v)
  PROVE  LET e == <<r, IF v = "fail" THEN "failure" ELSE v>>
         IN  /\ robot' \in [Actions -> {"ready", "active", "fail"}] /\ robot'[r] = v
             /\ \A a \in Actions : a # r => robot'[a] = robot[a]
             /\ e \in Actions \X Said
             /\ toCnc' = toCnc \/ toCnc' = Append(toCnc, e)
             /\ robot[r] # v => toCnc' = Append(toCnc, e)
             /\ toCnc' \in Seq(Actions \X Said)
<1>1. /\ robot' \in [Actions -> {"ready", "active", "fail"}] /\ robot'[r] = v
      /\ \A a \in Actions : a # r => robot'[a] = robot[a]
  BY DEF TypeOK, Publish
<1> DEFINE e == <<r, IF v = "fail" THEN "failure" ELSE v>>
<1>2. e \in Actions \X Said
  BY DEF Said
<1> HIDE DEF e
<1>3. toCnc \in Seq(Actions \X Said)
  BY DEF TypeOK, Said
<1>4. toCnc' = IF robot[r] = v THEN toCnc ELSE Append(toCnc, e)
  BY DEF Publish, e
<1>5. toCnc' \in Seq(Actions \X Said)
  BY <1>2, <1>3, <1>4
<1> QED BY <1>1, <1>2, <1>4, <1>5 DEF e

\* The machine tool hears the robot: what it becomes, and what it hears.
LEMMA HearsCases ==
  ASSUME TypeOK, CncHears
  PROVE  \E r \in Actions, v \in Said :
           /\ toCnc # << >> /\ Head(toCnc) = <<r, v>> /\ toCnc' = Tail(toCnc)
           /\ UNCHANGED <<robot, queue, capture, goal, hold, chunk, outcome>>
           /\ missed' = [missed EXCEPT ![r] = @ \/ (v = "active" /\ ResponseNext(resp[r], v) # "active")]
           /\ \/ UNCHANGED <<resp, pos, moved, stream>> /\ ResponseNext(resp[r], v) = resp[r]
              \/ \E s \in ResponseStates :
                   /\ CncBecomes(r, s) /\ s # resp[r]
                   /\ resp[r] = "complete" => v = "ready" /\ s = "ready"
                   /\ s \in {"active", "complete"} => v = "active"
                   /\ s = "active" => pos[Device[r]] # Dest[r] /\ ~InTheWay(r)
                   /\ s = "complete" => pos[Device[r]] = Dest[r]
<1>1. /\ toCnc # << >> /\ toCnc' = Tail(toCnc) /\ toCnc \in Seq(Actions \X Said)
      /\ UNCHANGED <<robot, queue, capture, goal, hold, chunk, outcome>>
  BY DEF CncHears, TypeOK, Said
<1>2. Head(toCnc) \in Actions \X Said
  BY <1>1, HeadTailProperties
<1>3. PICK r \in Actions, v \in Said : Head(toCnc) = <<r, v>>
  BY <1>2
<1> DEFINE n == ResponseNext(resp[r], v)
<1>4. resp[r] \in ResponseStates
  BY DEF TypeOK
<1>5. /\ n \in ResponseStates /\ (n = "complete" => resp[r] = "complete")
      /\ (n = "active" /\ resp[r] # "active" => v = "active")
      /\ (resp[r] = "complete" /\ n # resp[r] => v = "ready")
      /\ (resp[r] = "complete" /\ v = "ready" => n = "ready")
  BY <1>4, Hearing
<1>6. /\ missed' = [missed EXCEPT ![r] = @ \/ (v = "active" /\ n # "active")]
      /\ IF n = resp[r] THEN UNCHANGED <<resp, pos, moved, stream>>
         ELSE IF n = "active" /\ pos[Device[r]] = Dest[r] THEN CncBecomes(r, "complete")
         ELSE IF n = "active" /\ InTheWay(r) THEN CncBecomes(r, "fail")
         ELSE CncBecomes(r, n)
  <2>1. Head(toCnc)[1] = r /\ Head(toCnc)[2] = v
    BY <1>3
  <2> QED BY <2>1, Zenon DEF CncHears
<1> HIDE DEF n
<1>7. "complete" \in ResponseStates /\ "fail" \in ResponseStates
  BY DEF ResponseStates
<1>8. \/ UNCHANGED <<resp, pos, moved, stream>> /\ n = resp[r]
      \/ \E s \in ResponseStates :
           /\ CncBecomes(r, s) /\ s # resp[r]
           /\ resp[r] = "complete" => v = "ready" /\ s = "ready"
           /\ s \in {"active", "complete"} => v = "active"
           /\ s = "active" => pos[Device[r]] # Dest[r] /\ ~InTheWay(r)
           /\ s = "complete" => pos[Device[r]] = Dest[r]
  <2>1. CASE n = resp[r]
    BY <1>6, <2>1
  <2>2. CASE n # resp[r] /\ n = "active" /\ pos[Device[r]] = Dest[r]
    <3>1. CncBecomes(r, "complete") /\ resp[r] # "complete" /\ v = "active"
      BY <1>5, <1>6, <2>2
    <3> QED BY <1>7, <2>2, <3>1
  <2>3. CASE n # resp[r] /\ n = "active" /\ pos[Device[r]] # Dest[r] /\ InTheWay(r)
    <3>1. CncBecomes(r, "fail") /\ resp[r] # "complete" /\ v = "active"
      BY <1>5, <1>6, <2>3
    <3>2. resp[r] # "fail"
      <4>1. ResponseNext("fail", "active") # "active"
        BY DEF ResponseNext, ResponseEvents, ResponseDefault
      <4> QED BY <2>3, <3>1, <4>1 DEF n
    <3> QED BY <1>7, <2>3, <3>1, <3>2
  <2>4. CASE n # resp[r] /\ (n = "active" => pos[Device[r]] # Dest[r] /\ ~InTheWay(r))
    <3>1. CncBecomes(r, n)
      BY <1>6, <2>4
    <3> QED BY <1>5, <2>4, <3>1
  <2> QED BY <2>1, <2>2, <2>3, <2>4
<1> QED BY <1>1, <1>3, <1>6, <1>8 DEF n

-----------------------------------------------------------------------------
(* The answers                                                              *)

\* The type invariant through every step.
LEMMA TypeStep == TypeOK /\ [Next]_vars => TypeOK'
<1> SUFFICES ASSUME TypeOK, [Next]_vars PROVE TypeOK'
  OBVIOUS
<1>1. CASE CncHears
  <2>1. PICK r \in Actions, v \in Said :
          /\ toCnc # << >> /\ Head(toCnc) = <<r, v>> /\ toCnc' = Tail(toCnc)
          /\ UNCHANGED <<robot, queue, capture, goal, hold, chunk, outcome>>
          /\ missed' = [missed EXCEPT ![r] = @ \/ (v = "active" /\ ResponseNext(resp[r], v) # "active")]
          /\ \/ UNCHANGED <<resp, pos, moved, stream>>
             \/ \E s \in ResponseStates : CncBecomes(r, s)
    BY <1>1, HearsCases
  <2>2. toCnc' \in Seq(Actions \X Said)
    BY <2>1, HeadTailProperties DEF TypeOK, Said
  <2>3. missed' \in [Actions -> BOOLEAN]
    BY <2>1 DEF TypeOK
  <2>4. CASE UNCHANGED <<resp, pos, moved, stream>>
    BY <2>1, <2>2, <2>3, <2>4 DEF TypeOK, Said
  <2>5. CASE \E s \in ResponseStates : CncBecomes(r, s)
    <3>1. /\ resp' \in [Actions -> ResponseStates] /\ moved' \in [Actions -> BOOLEAN] /\ stream' \in Seq(Change)
          /\ pos' \in [{"door", "chuck"} -> {"OPEN", "CLOSED", "UNLATCHED"}]
      BY <2>5, BecomesType
    <3> QED BY <2>1, <2>2, <2>3, <3>1 DEF TypeOK, Said
  <2> QED BY <2>1, <2>4, <2>5
<1>2. ASSUME NEW r \in Actions, CncMoves(r) PROVE TypeOK'
  <2>1. PICK s \in ResponseStates : CncBecomes(r, s)
    BY <1>2 DEF CncMoves, ResponseStates
  <2>2. /\ resp' \in [Actions -> ResponseStates] /\ moved' \in [Actions -> BOOLEAN] /\ stream' \in Seq(Change)
        /\ pos' \in [{"door", "chuck"} -> {"OPEN", "CLOSED", "UNLATCHED"}]
    BY <2>1, BecomesType
  <2> QED BY <1>2, <2>2 DEF CncMoves, TypeOK
<1>3. ASSUME NEW r \in Actions, Goal(r) PROVE TypeOK'
  BY <1>3 DEF Goal, TypeOK, Places
<1>4. ASSUME NEW r \in Actions, Check(r) PROVE TypeOK'
  BY <1>4 DEF Check, cnc, TypeOK, Places
<1>5. ASSUME NEW r \in Actions, Submit(r) PROVE TypeOK'
  <2>1. robot' \in [Actions -> {"ready", "active", "fail"}] /\ toCnc' \in Seq(Actions \X Said)
    BY <1>5, PublishType DEF Submit
  <2> QED BY <1>5, <2>1 DEF Submit, cnc, TypeOK, Places, Said
<1>6. ASSUME NEW r \in Actions, Capture(r) PROVE TypeOK'
  BY <1>6 DEF Capture, cnc, TypeOK, Places
<1>7. CASE XmlCallback
  <2>1. PICK n \in 1..Len(stream) :
          /\ stream' = SubSeq(stream, n + 1, Len(stream))
          /\ queue' = IF capture THEN Append(queue, SubSeq(stream, 1, n)) ELSE queue
          /\ missed' = [r \in Actions |-> missed[r] \/ (~capture /\ Misses(SubSeq(stream, 1, n), r))]
    BY <1>7, Zenon DEF XmlCallback
  <2>2. stream \in Seq(Change)
    BY DEF TypeOK
  <2>3. stream' \in Seq(Change) /\ SubSeq(stream, 1, n) \in Seq(Change)
    BY <2>1, <2>2, InPieces
  <2>4. queue' \in Seq(Seq(Change))
    BY <2>1, <2>3 DEF TypeOK
  <2>5. missed' \in [Actions -> BOOLEAN]
    BY <2>1 DEF Misses
  <2>6. UNCHANGED <<resp, pos, moved, robot, toCnc, capture, goal, hold, chunk, outcome>>
    BY <1>7 DEF XmlCallback, cnc
  <2> QED BY <2>3, <2>4, <2>5, <2>6 DEF TypeOK
<1>8. ASSUME NEW r \in Actions, Take(r) PROVE TypeOK'
  <2>1. queue \in Seq(Seq(Change)) /\ queue # << >>
    BY <1>8 DEF Take, TypeOK
  <2>2. Head(queue) \in Seq(Change) /\ Tail(queue) \in Seq(Seq(Change))
    BY <2>1, HeadTailProperties
  <2>3. missed' \in [Actions -> BOOLEAN]
    <3>1. missed' = [a \in Actions |-> missed[a] \/ (a # r /\ Misses(Head(queue), a))]
      BY <1>8 DEF Take
    <3> QED BY <3>1 DEF Misses
  <2> QED BY <1>8, <2>2, <2>3 DEF Take, cnc, TypeOK
<1>9. ASSUME NEW r \in Actions, Look(r) PROVE TypeOK'
  <2>1. chunk' \in [Actions -> Seq(Change)]
    <3>1. chunk[r] \in Seq(Change) /\ chunk[r] # << >> /\ chunk' = [chunk EXCEPT ![r] = Tail(@)]
      BY <1>9 DEF Look, TypeOK
    <3>2. Tail(chunk[r]) \in Seq(Change)
      BY <3>1, HeadTailProperties
    <3> QED BY <3>1, <3>2 DEF TypeOK
  <2>2. /\ \/ UNCHANGED <<robot, toCnc>>
           \/ \E v \in {"ready", "active", "fail"} : Publish(r, v)
        /\ \/ UNCHANGED <<capture, goal, outcome>>
           \/ \E how \in {"succeeded", "aborted"} : End(r, how)
        /\ hold' = hold \/ hold' = [hold EXCEPT ![r] = TRUE]
    BY <1>9 DEF Look
  <2>3. robot' \in [Actions -> {"ready", "active", "fail"}] /\ toCnc' \in Seq(Actions \X Said)
    BY <2>2, PublishType DEF TypeOK, Said
  <2>4. capture' \in BOOLEAN /\ goal' \in [Actions -> Places] /\ outcome' \in [Actions -> {"none", "succeeded", "aborted"}]
    <3>1. CASE UNCHANGED <<capture, goal, outcome>>
      BY <3>1 DEF TypeOK
    <3>2. ASSUME NEW how \in {"succeeded", "aborted"}, End(r, how)
          PROVE  capture' \in BOOLEAN /\ goal' \in [Actions -> Places] /\ outcome' \in [Actions -> {"none", "succeeded", "aborted"}]
      BY <3>2 DEF TypeOK, End, Places
    <3> QED BY <2>2, <3>1, <3>2
  <2>5. hold' \in [Actions -> BOOLEAN]
    BY <2>2 DEF TypeOK
  <2> QED BY <1>9, <2>1, <2>3, <2>4, <2>5 DEF Look, cnc, TypeOK, Said
<1>10. ASSUME NEW r \in Actions, Leave(r) PROVE TypeOK'
  BY <1>10 DEF Leave, cnc, TypeOK, Places
<1>11. CASE UNCHANGED vars
  BY <1>11 DEF vars, TypeOK
<1> QED BY <1>1, <1>2, <1>3, <1>4, <1>5, <1>6, <1>7, <1>8, <1>9, <1>10, <1>11 DEF Next

\* What occurs once in a sequence occurs at most once in the rest of it, and not at all
\* behind itself.
LEMMA AnswersOnceTail ==
  ASSUME NEW S, NEW s \in Seq(S), s # << >>, NEW e,
         \A i, j \in DOMAIN s : s[i] = e /\ s[j] = e => i = j
  PROVE  /\ \A i, j \in DOMAIN Tail(s) : Tail(s)[i] = e /\ Tail(s)[j] = e => i = j
         /\ Head(s) = e => ~Has(Tail(s), e)
<1> DEFINE t == Tail(s)
<1>1. /\ Len(s) \in Nat /\ Len(s) > 0 /\ DOMAIN s = 1..Len(s) /\ Head(s) = s[1]
      /\ DOMAIN t = 1..Len(s) - 1 /\ \A i \in 1..Len(s) - 1 : t[i] = s[i + 1]
  BY HeadTailProperties, LenProperties, EmptySeq
<1> HIDE DEF t
<1>2. \A i \in DOMAIN t : i \in Nat /\ i > 0 /\ i + 1 \in DOMAIN s /\ t[i] = s[i + 1]
  BY <1>1
<1>3. ASSUME NEW i \in DOMAIN t, NEW j \in DOMAIN t, t[i] = e, t[j] = e PROVE i = j
  <2>1. i + 1 = j + 1
    BY <1>2, <1>3
  <2> QED BY <1>2, <2>1
<1>4. ASSUME Head(s) = e, NEW i \in DOMAIN t, t[i] = e PROVE FALSE
  <2>1. 1 \in DOMAIN s /\ i + 1 = 1
    BY <1>1, <1>2, <1>4
  <2> QED BY <1>2, <2>1
<1>5. Head(s) = e => ~Has(t, e)
  BY <1>4 DEF Has
<1> QED BY <1>3, <1>5 DEF t

\* The machine tool speaks only when nothing it completed is on its way.
LEMMA EmitInv ==
  ASSUME TypeOK, LastWord, OneAnswer, NEW r \in Actions, NEW s \in ResponseStates,
         CncBecomes(r, s), s # resp[r], UNCHANGED <<queue, chunk>>,
         \/ UNCHANGED toCnc /\ resp[r] # "complete"
         \/ /\ toCnc # << >> /\ toCnc' = Tail(toCnc)
            /\ resp[r] = "complete" => Head(toCnc) = <<r, "ready">>
  PROVE  LastWord' /\ OneAnswer'
<1>1. /\ resp'[r] = s /\ (\A a \in Actions : a # r => resp'[a] = resp[a])
      /\ stream' = IF s \in Heeded THEN Append(stream, <<r, s>>) ELSE stream
  BY BecomesType
<1>2. stream \in Seq(Change) /\ toCnc \in Seq(Actions \X Said)
  BY DEF TypeOK, Said
<1>3. ~Coming(r)
  <2>1. CASE resp[r] = "complete"
    <3>1. Answered(r)
      BY <1>2, <2>1, AtFront DEF Answered
    <3>2. ~OwnComing(r)
      BY <3>1 DEF OneAnswer
    <3>3. Completed(r)[1] = r
      BY DEF Completed
    <3>4. \A q : Has(q, Completed(r)) => Own(q, r)
      BY <3>3 DEF Has, Own
    <3> QED BY <3>2, <3>4 DEF Coming, OwnComing
  <2> QED BY <2>1 DEF OneAnswer
<1>4. \A a \in Actions : a # r => (Own(stream', a) <=> Own(stream, a))
  <2>1. CASE s \in Heeded
    <3>1. <<r, s>> \in Change /\ <<r, s>>[1] = r
      BY <2>1 DEF Change
    <3> QED BY <1>1, <1>2, <2>1, <3>1, AtEnd
  <2> QED BY <1>1, <2>1
<1>5. \A a \in Actions : Has(stream', Completed(a)) <=> Has(stream, Completed(a)) \/ (a = r /\ s = "complete")
  <2>1. CASE s \in Heeded
    <3>1. <<r, s>> \in Change /\ \A a : <<r, s>> = Completed(a) <=> a = r /\ s = "complete"
      BY <2>1 DEF Change, Completed
    <3>2. stream' = Append(stream, <<r, s>>)
      BY <1>1, <2>1
    <3>3. \A e : Has(stream', e) <=> Has(stream, e) \/ <<r, s>> = e
      <4>1. \A e : Has(Append(stream, <<r, s>>), e) <=> Has(stream, e) \/ <<r, s>> = e
        BY <1>2, <3>1, AtEnd, Zenon
      <4> QED BY <3>2, <4>1
    <3> QED BY <3>1, <3>3
  <2>2. CASE s \notin Heeded
    BY <1>1, <2>2 DEF Heeded
  <2> QED BY <2>1, <2>2
<1>6. \A a \in Actions : CompleteIsLast(stream', a)
  <2>1. CASE s \in Heeded
    <3>1. <<r, s>> \in Change /\ <<r, s>>[1] = r
      BY <2>1 DEF Change
    <3>2. ~Has(stream, Completed(r))
      BY <1>3 DEF Coming
    <3>3. \A a \in Actions : CompleteIsLast(stream, a)
      BY DEF LastWord
    <3> QED BY <1>1, <1>2, <2>1, <3>1, <3>2, <3>3, AtEnd
  <2> QED BY <1>1, <2>1 DEF LastWord
<1>7. LastWord'
  <2> SUFFICES ASSUME NEW a \in Actions
               PROVE  /\ CompleteIsLast(chunk[a], a) /\ CompleteIsLast(stream', a)
                      /\ \A n \in DOMAIN queue : CompleteIsLast(queue[n], a)
                      /\ Has(chunk[a], Completed(a)) => ~Own(stream', a) /\ \A n \in DOMAIN queue : ~Own(queue[n], a)
                      /\ \A n \in DOMAIN queue : Has(queue[n], Completed(a)) =>
                           ~Own(stream', a) /\ \A k \in DOMAIN queue : n < k => ~Own(queue[k], a)
    BY DEF LastWord
  <2>1. CASE a = r
    <3>1. ~Has(chunk[a], Completed(a)) /\ \A n \in DOMAIN queue : ~Has(queue[n], Completed(a))
      BY <1>3, <2>1 DEF Coming
    <3> QED BY <1>6, <3>1 DEF LastWord
  <2>2. CASE a # r
    BY <1>4, <1>6, <2>2 DEF LastWord
  <2> QED BY <2>1, <2>2
<1>8. OneAnswer'
  <2>1. \A e : Has(toCnc', e) => Has(toCnc, e)
    BY <1>2, AtFront
  <2>2. \A a \in Actions, i, j \in DOMAIN toCnc' :
          toCnc'[i] = <<a, "ready">> /\ toCnc'[j] = <<a, "ready">> => i = j
    <3>1. CASE UNCHANGED toCnc
      BY <3>1 DEF OneAnswer
    <3>2. CASE toCnc # << >> /\ toCnc' = Tail(toCnc)
      BY <1>2, <3>2, AnswersOnceTail DEF OneAnswer
    <3> QED BY <3>1, <3>2
  <2>3. ~Has(toCnc', <<r, "ready">>)
    <3>1. CASE resp[r] # "complete"
      BY <2>1, <3>1 DEF OneAnswer, Answered
    <3>2. CASE resp[r] = "complete"
      <4>1. toCnc # << >> /\ toCnc' = Tail(toCnc) /\ Head(toCnc) = <<r, "ready">>
        BY <3>2
      <4>2. \A i, j \in DOMAIN toCnc : toCnc[i] = <<r, "ready">> /\ toCnc[j] = <<r, "ready">> => i = j
        BY DEF OneAnswer
      <4> QED BY <1>2, <4>1, <4>2, AnswersOnceTail
    <3> QED BY <3>1, <3>2
  <2> SUFFICES ASSUME NEW a \in Actions
               PROVE  /\ Coming(a)' => resp'[a] = "complete" /\ ~Has(toCnc', <<a, "ready">>)
                      /\ Has(toCnc', <<a, "ready">>) => resp'[a] = "complete" /\ ~OwnComing(a)'
    BY <2>2 DEF OneAnswer, Answered
  <2>4. CASE a = r
    <3>1. Coming(a)' => s = "complete"
      BY <1>3, <1>5, <2>4 DEF Coming
    <3> QED BY <1>1, <2>3, <2>4, <3>1
  <2>5. CASE a # r
    <3>1. (Coming(a)' <=> Coming(a)) /\ (OwnComing(a)' <=> OwnComing(a))
      BY <1>4, <1>5, <2>5 DEF Coming, OwnComing
    <3> QED BY <1>1, <2>1, <2>5, <3>1 DEF OneAnswer, Answered
  <2> QED BY <2>4, <2>5
<1> QED BY <1>7, <1>8

\* Elsewhere than at the machine tool, the pipeline only gets shorter.
LEMMA OnlyShorter ==
  ASSUME OneAnswer, UNCHANGED <<resp, toCnc>>,
         \A r \in Actions : (OwnComing(r)' => OwnComing(r)) /\ (Coming(r)' => Coming(r))
  PROVE  OneAnswer'
<1>1. \A r \in Actions : Answered(r)' <=> Answered(r)
  BY DEF Answered
<1> QED BY <1>1 DEF OneAnswer

\* A chunk of the stream goes into the queue, or is lost.
LEMMA DeliverInv ==
  ASSUME TypeOK, LastWord, OneAnswer, XmlCallback
  PROVE  LastWord' /\ OneAnswer'
<1>1. PICK n \in 1..Len(stream) :
        /\ stream' = SubSeq(stream, n + 1, Len(stream))
        /\ queue' = IF capture THEN Append(queue, SubSeq(stream, 1, n)) ELSE queue
  BY Zenon DEF XmlCallback
<1>2. UNCHANGED <<resp, toCnc, chunk>>
  BY DEF XmlCallback, cnc
<1> DEFINE a == SubSeq(stream, 1, n)
<1>3. stream \in Seq(Change) /\ queue \in Seq(Seq(Change))
  BY DEF TypeOK
<1>4. /\ a \in Seq(Change) /\ stream' \in Seq(Change)
      /\ \A e : Has(a, e) \/ Has(stream', e) => Has(stream, e)
      /\ \A r : Own(a, r) \/ Own(stream', r) => Own(stream, r)
      /\ \A r : CompleteIsLast(stream, r) =>
           CompleteIsLast(a, r) /\ CompleteIsLast(stream', r) /\ (Has(a, Completed(r)) => ~Own(stream', r))
  BY <1>1, <1>3, InPieces
<1>5. queue' = IF capture THEN Append(queue, a) ELSE queue
  BY <1>1
<1> HIDE DEF a
<1>6. /\ Len(queue) \in Nat /\ DOMAIN queue = 1..Len(queue)
      /\ Len(queue) <= Len(queue') /\ DOMAIN queue' = 1..Len(queue') /\ Len(queue') <= Len(queue) + 1
      /\ \A k \in DOMAIN queue : queue'[k] = queue[k]
      /\ \A k \in DOMAIN queue' : k \notin DOMAIN queue => queue'[k] = a
  BY <1>3, <1>4, <1>5
<1>7. \A k \in DOMAIN queue' : (k \in DOMAIN queue /\ queue'[k] = queue[k]) \/ (k \notin DOMAIN queue /\ queue'[k] = a)
  BY <1>6
<1>8. \A r \in Actions : (OwnComing(r)' => OwnComing(r)) /\ (Coming(r)' => Coming(r))
  BY <1>2, <1>4, <1>7 DEF OwnComing, Coming
<1>9. OneAnswer'
  BY <1>2, <1>8, OnlyShorter
<1>10. LastWord'
  <2> SUFFICES ASSUME NEW r \in Actions
               PROVE  /\ CompleteIsLast(chunk[r], r) /\ CompleteIsLast(stream', r)
                      /\ \A k \in DOMAIN queue' : CompleteIsLast(queue'[k], r)
                      /\ Has(chunk[r], Completed(r)) => ~Own(stream', r) /\ \A k \in DOMAIN queue' : ~Own(queue'[k], r)
                      /\ \A k \in DOMAIN queue' : Has(queue'[k], Completed(r)) =>
                           ~Own(stream', r) /\ \A m \in DOMAIN queue' : k < m => ~Own(queue'[m], r)
    BY <1>2 DEF LastWord
  <2>1. CompleteIsLast(chunk[r], r) /\ CompleteIsLast(stream, r) /\ \A k \in DOMAIN queue : CompleteIsLast(queue[k], r)
    BY DEF LastWord
  <2>2. CompleteIsLast(a, r) /\ CompleteIsLast(stream', r) /\ (Has(a, Completed(r)) => ~Own(stream', r))
    BY <1>4, <2>1
  <2>3. \A k \in DOMAIN queue' : CompleteIsLast(queue'[k], r)
    BY <1>7, <2>1, <2>2
  <2>4. Has(chunk[r], Completed(r)) => ~Own(stream', r) /\ \A k \in DOMAIN queue' : ~Own(queue'[k], r)
    BY <1>4, <1>7 DEF LastWord
  <2>5. ASSUME NEW k \in DOMAIN queue', Has(queue'[k], Completed(r))
        PROVE  ~Own(stream', r) /\ \A m \in DOMAIN queue' : k < m => ~Own(queue'[m], r)
    <3>1. CASE k \in DOMAIN queue
      <4>1. Has(queue[k], Completed(r))
        BY <1>7, <2>5, <3>1
      <4>2. ~Own(stream, r) /\ \A m \in DOMAIN queue : k < m => ~Own(queue[m], r)
        BY <3>1, <4>1 DEF LastWord
      <4> QED BY <1>4, <1>7, <4>2
    <3>2. CASE k \notin DOMAIN queue
      <4>1. Has(a, Completed(r))
        BY <1>7, <2>5, <3>2
      <4>2. \A m \in DOMAIN queue' : ~(k < m)
        BY <1>6, <3>2
      <4> QED BY <2>2, <4>1, <4>2
    <3> QED BY <3>1, <3>2
  <2> QED BY <2>1, <2>2, <2>3, <2>4, <2>5
<1> QED BY <1>9, <1>10

\* A server takes a chunk: its own elements stay in order, the others' are lost.
LEMMA TakeInv ==
  ASSUME TypeOK, LastWord, OneAnswer, NEW r \in Actions, Take(r)
  PROVE  LastWord' /\ OneAnswer'
<1>1. /\ queue \in Seq(Seq(Change)) /\ queue # << >> /\ chunk[r] = << >> /\ chunk \in [Actions -> Seq(Change)]
      /\ queue' = Tail(queue) /\ chunk' = [chunk EXCEPT ![r] = Head(queue)]
      /\ UNCHANGED <<resp, toCnc, stream>>
  BY DEF Take, cnc, TypeOK
<1>2. /\ Len(queue) \in Nat /\ Len(queue) > 0 /\ DOMAIN queue = 1..Len(queue) /\ Head(queue) = queue[1]
      /\ DOMAIN queue' = 1..Len(queue) - 1 /\ \A k \in 1..Len(queue) - 1 : queue'[k] = queue[k + 1]
  BY <1>1, HeadTailProperties, LenProperties, EmptySeq
<1>3. chunk'[r] = queue[1] /\ \A a \in Actions : a # r => chunk'[a] = chunk[a]
  BY <1>1, <1>2
<1>4. /\ 1 \in DOMAIN queue
      /\ \A k \in DOMAIN queue' : k + 1 \in DOMAIN queue /\ queue'[k] = queue[k + 1] /\ 1 < k + 1
      /\ \A k, m \in DOMAIN queue' : k < m => k + 1 < m + 1
  BY <1>2
<1>5. \A a \in Actions : (OwnComing(a)' => OwnComing(a)) /\ (Coming(a)' => Coming(a))
  <2> SUFFICES ASSUME NEW a \in Actions PROVE (OwnComing(a)' => OwnComing(a)) /\ (Coming(a)' => Coming(a))
    OBVIOUS
  <2>1. CASE a = r
    BY <1>1, <1>3, <1>4, <2>1 DEF OwnComing, Coming
  <2>2. CASE a # r
    BY <1>1, <1>3, <1>4, <2>2 DEF OwnComing, Coming
  <2> QED BY <2>1, <2>2
<1>6. OneAnswer'
  BY <1>1, <1>5, OnlyShorter
<1>7. LastWord'
  <2> SUFFICES ASSUME NEW a \in Actions
               PROVE  /\ CompleteIsLast(chunk'[a], a) /\ CompleteIsLast(stream, a)
                      /\ \A k \in DOMAIN queue' : CompleteIsLast(queue'[k], a)
                      /\ Has(chunk'[a], Completed(a)) => ~Own(stream, a) /\ \A k \in DOMAIN queue' : ~Own(queue'[k], a)
                      /\ \A k \in DOMAIN queue' : Has(queue'[k], Completed(a)) =>
                           ~Own(stream, a) /\ \A m \in DOMAIN queue' : k < m => ~Own(queue'[m], a)
    BY <1>1 DEF LastWord
  <2>1. /\ CompleteIsLast(stream, a) /\ \A k \in DOMAIN queue' : CompleteIsLast(queue'[k], a)
    BY <1>4 DEF LastWord
  <2>2. ASSUME NEW k \in DOMAIN queue', Has(queue'[k], Completed(a))
        PROVE  ~Own(stream, a) /\ \A m \in DOMAIN queue' : k < m => ~Own(queue'[m], a)
    <3>1. Has(queue[k + 1], Completed(a)) /\ k + 1 \in DOMAIN queue
      BY <1>4, <2>2
    <3>2. ~Own(stream, a) /\ \A m \in DOMAIN queue : k + 1 < m => ~Own(queue[m], a)
      BY <3>1 DEF LastWord
    <3> QED BY <1>4, <3>2
  <2>3. CASE a = r
    <3>1. CompleteIsLast(queue[1], a)
      BY <1>4 DEF LastWord
    <3>2. Has(queue[1], Completed(a)) => ~Own(stream, a) /\ \A k \in DOMAIN queue : 1 < k => ~Own(queue[k], a)
      BY <1>4 DEF LastWord
    <3> QED BY <1>3, <1>4, <2>1, <2>2, <2>3, <3>1, <3>2
  <2>4. CASE a # r
    <3>1. CompleteIsLast(chunk[a], a)
      BY DEF LastWord
    <3>2. Has(chunk[a], Completed(a)) => ~Own(stream, a) /\ \A k \in DOMAIN queue : ~Own(queue[k], a)
      BY DEF LastWord
    <3> QED BY <1>3, <1>4, <2>1, <2>2, <2>4, <3>1, <3>2
  <2> QED BY <2>3, <2>4
<1> QED BY <1>6, <1>7

\* What is said last, and where what was said before is.
LEMMA SaidLast ==
  ASSUME TypeOK, NEW x \in Actions \X Said, toCnc' = Append(toCnc, x)
  PROVE  /\ \A e : Has(toCnc', e) <=> Has(toCnc, e) \/ x = e
         /\ \A e : x # e => \A i \in DOMAIN toCnc' : toCnc'[i] = e => i \in DOMAIN toCnc /\ toCnc[i] = e
         /\ \A e : ~Has(toCnc, e) => \A i, j \in DOMAIN toCnc' : toCnc'[i] = e /\ toCnc'[j] = e => i = j
<1>0. toCnc \in Seq(Actions \X Said)
  BY DEF TypeOK, Said
<1>1. /\ Len(toCnc) \in Nat /\ DOMAIN toCnc = 1..Len(toCnc) /\ DOMAIN toCnc' = 1..Len(toCnc) + 1
      /\ (\A i \in 1..Len(toCnc) : toCnc'[i] = toCnc[i]) /\ toCnc'[Len(toCnc) + 1] = x
  BY <1>0, AppendProperties, LenProperties
<1>2. \A i \in DOMAIN toCnc' : (i \in DOMAIN toCnc /\ toCnc'[i] = toCnc[i]) \/ (i = Len(toCnc) + 1 /\ toCnc'[i] = x)
  BY <1>1
<1>3. \A e : Has(toCnc', e) <=> Has(toCnc, e) \/ x = e
  BY <1>1, <1>2 DEF Has
<1> QED BY <1>2, <1>3 DEF Has

\* What the robot says besides READY changes nothing here.
LEMMA SaysInv ==
  ASSUME TypeOK, LastWord, OneAnswer, UNCHANGED <<resp, stream, queue, chunk>>,
         \/ UNCHANGED toCnc
         \/ \E r \in Actions, v \in Said \ {"ready"} : toCnc' = Append(toCnc, <<r, v>>)
  PROVE  LastWord' /\ OneAnswer'
<1>1. LastWord'
  BY DEF LastWord
<1>2. CASE UNCHANGED toCnc
  BY <1>1, <1>2, OnlyShorter DEF OwnComing, Coming
<1>3. ASSUME NEW r \in Actions, NEW v \in Said \ {"ready"}, toCnc' = Append(toCnc, <<r, v>>)
      PROVE  OneAnswer'
  <2>1. toCnc \in Seq(Actions \X Said) /\ <<r, v>> \in Actions \X Said
    BY DEF TypeOK, Said
  <2>2. /\ \A e : Has(toCnc', e) <=> Has(toCnc, e) \/ <<r, v>> = e
        /\ \A e : <<r, v>> # e => \A i \in DOMAIN toCnc' : toCnc'[i] = e => i \in DOMAIN toCnc /\ toCnc[i] = e
    <3>1. PICK x \in Actions \X Said : x = <<r, v>>
      BY <2>1
    <3>2. toCnc' = Append(toCnc, x) /\ toCnc \in Seq(Actions \X Said)
      BY <1>3, <2>1, <3>1
    <3>3. /\ \A e : Has(toCnc', e) <=> Has(toCnc, e) \/ x = e
          /\ \A e : x # e => \A i \in DOMAIN toCnc' : toCnc'[i] = e => i \in DOMAIN toCnc /\ toCnc[i] = e
          /\ \A e : ~Has(toCnc, e) => \A i, j \in DOMAIN toCnc' : toCnc'[i] = e /\ toCnc'[j] = e => i = j
      BY <3>2, SaidLast
    <3> QED BY <3>1, <3>3
  <2>3. \A a : <<r, v>> # <<a, "ready">>
    BY <1>3
  <2>4. \A a \in Actions : Answered(a)' <=> Answered(a)
    BY <2>2, <2>3 DEF Answered
  <2>5. \A a \in Actions : (OwnComing(a)' <=> OwnComing(a)) /\ (Coming(a)' <=> Coming(a))
    BY DEF OwnComing, Coming
  <2>6. \A a \in Actions, i \in DOMAIN toCnc' : toCnc'[i] = <<a, "ready">> => i \in DOMAIN toCnc /\ toCnc[i] = <<a, "ready">>
    BY <2>2, <2>3
  <2> QED BY <2>4, <2>5, <2>6 DEF OneAnswer
<1> QED BY <1>1, <1>2, <1>3

\* A server looks at its chunk: the COMPLETE it answers is the last word.
LEMMA LookInv ==
  ASSUME TypeOK, LastWord, OneAnswer, NEW r \in Actions, Look(r)
  PROVE  LastWord' /\ OneAnswer'
<1>1. /\ chunk[r] # << >> /\ chunk[r] \in Seq(Change) /\ chunk' = [chunk EXCEPT ![r] = Tail(@)]
      /\ chunk \in [Actions -> Seq(Change)] /\ UNCHANGED <<resp, stream, queue>>
  BY DEF Look, cnc, TypeOK
<1>2. chunk'[r] = Tail(chunk[r]) /\ \A a \in Actions : a # r => chunk'[a] = chunk[a]
  BY <1>1
<1>3. /\ \A e : Has(chunk[r], e) <=> Head(chunk[r]) = e \/ Has(chunk'[r], e)
      /\ \A a : Own(chunk[r], a) <=> Head(chunk[r])[1] = a \/ Own(chunk'[r], a)
      /\ \A a : CompleteIsLast(chunk[r], a) =>
           CompleteIsLast(chunk'[r], a) /\ (Head(chunk[r]) = Completed(a) => ~Own(chunk'[r], a))
  BY <1>1, <1>2, AtFront
<1>4. \A a \in Actions : (OwnComing(a)' => OwnComing(a)) /\ (Coming(a)' => Coming(a))
  <2> SUFFICES ASSUME NEW a \in Actions PROVE (OwnComing(a)' => OwnComing(a)) /\ (Coming(a)' => Coming(a))
    OBVIOUS
  <2>1. CASE a = r
    BY <1>1, <1>3, <2>1 DEF OwnComing, Coming
  <2>2. CASE a # r
    BY <1>1, <1>2, <2>2 DEF OwnComing, Coming
  <2> QED BY <2>1, <2>2
<1>5. LastWord'
  <2> SUFFICES ASSUME NEW a \in Actions
               PROVE  /\ CompleteIsLast(chunk'[a], a) /\ CompleteIsLast(stream, a)
                      /\ \A k \in DOMAIN queue : CompleteIsLast(queue[k], a)
                      /\ Has(chunk'[a], Completed(a)) => ~Own(stream, a) /\ \A k \in DOMAIN queue : ~Own(queue[k], a)
                      /\ \A k \in DOMAIN queue : Has(queue[k], Completed(a)) =>
                           ~Own(stream, a) /\ \A m \in DOMAIN queue : k < m => ~Own(queue[m], a)
    BY <1>1 DEF LastWord
  <2>1. Has(chunk'[a], Completed(a)) => Has(chunk[a], Completed(a))
    BY <1>2, <1>3
  <2>2. CompleteIsLast(chunk'[a], a)
    BY <1>2, <1>3 DEF LastWord
  <2> QED BY <2>1, <2>2 DEF LastWord
<1>6. CASE Head(chunk[r]) = Completed(r) /\ Publish(r, "ready")
  <2>1. Coming(r) /\ resp[r] = "complete" /\ ~Answered(r)
    <3>1. Has(chunk[r], Completed(r))
      BY <1>3, <1>6
    <3> QED BY <3>1 DEF Coming, OneAnswer
  <2>2. ~OwnComing(r)'
    <3>1. Has(chunk[r], Completed(r)) /\ CompleteIsLast(chunk[r], r)
      BY <1>3, <1>6 DEF LastWord
    <3>2. ~Own(stream, r) /\ \A n \in DOMAIN queue : ~Own(queue[n], r)
      BY <3>1 DEF LastWord
    <3>3. ~Own(chunk'[r], r)
      BY <1>3, <1>6, <3>1
    <3> QED BY <1>1, <3>2, <3>3 DEF OwnComing
  <2>3. ~Coming(r)'
    <3>1. Completed(r)[1] = r
      BY DEF Completed
    <3>2. \A q : Has(q, Completed(r)) => Own(q, r)
      BY <3>1 DEF Has, Own
    <3> QED BY <2>2, <3>2 DEF Coming, OwnComing
  <2>4. toCnc' = toCnc \/ toCnc' = Append(toCnc, <<r, "ready">>)
    BY <1>6 DEF Publish
  <2>5. CASE toCnc' = toCnc
    BY <1>1, <1>4, <1>5, <2>5, OnlyShorter
  <2>6. CASE toCnc' = Append(toCnc, <<r, "ready">>)
    <3>1. toCnc \in Seq(Actions \X Said) /\ <<r, "ready">> \in Actions \X Said
      BY DEF TypeOK, Said
    <3>2. /\ \A e : Has(toCnc', e) <=> Has(toCnc, e) \/ <<r, "ready">> = e
          /\ \A e : <<r, "ready">> # e => \A i \in DOMAIN toCnc' : toCnc'[i] = e => i \in DOMAIN toCnc /\ toCnc[i] = e
          /\ \A e : ~Has(toCnc, e) => \A i, j \in DOMAIN toCnc' : toCnc'[i] = e /\ toCnc'[j] = e => i = j
      <4>1. PICK x \in Actions \X Said : x = <<r, "ready">>
        BY <3>1
      <4>2. toCnc' = Append(toCnc, x) /\ toCnc \in Seq(Actions \X Said)
        BY <2>6, <3>1, <4>1
      <4>3. /\ \A e : Has(toCnc', e) <=> Has(toCnc, e) \/ x = e
            /\ \A e : x # e => \A i \in DOMAIN toCnc' : toCnc'[i] = e => i \in DOMAIN toCnc /\ toCnc[i] = e
            /\ \A e : ~Has(toCnc, e) => \A i, j \in DOMAIN toCnc' : toCnc'[i] = e /\ toCnc'[j] = e => i = j
        BY <4>2, SaidLast
      <4> QED BY <4>1, <4>3
    <3>3. \A a : <<r, "ready">> = <<a, "ready">> => a = r
      OBVIOUS
    <3>4. ASSUME NEW a \in Actions, a # r
          PROVE  /\ Answered(a)' <=> Answered(a)
                 /\ \A i \in DOMAIN toCnc' : toCnc'[i] = <<a, "ready">> => i \in DOMAIN toCnc /\ toCnc[i] = <<a, "ready">>
      BY <3>2, <3>3, <3>4 DEF Answered
    <3>6. \A i, j \in DOMAIN toCnc' : toCnc'[i] = <<r, "ready">> /\ toCnc'[j] = <<r, "ready">> => i = j
      BY <2>1, <3>2 DEF Answered
    <3> SUFFICES ASSUME NEW a \in Actions
                 PROVE  /\ Coming(a)' => resp[a] = "complete" /\ ~Answered(a)'
                        /\ Answered(a)' => resp[a] = "complete" /\ ~OwnComing(a)'
                        /\ \A i, j \in DOMAIN toCnc' : toCnc'[i] = <<a, "ready">> /\ toCnc'[j] = <<a, "ready">> => i = j
      BY <1>1, <1>5 DEF OneAnswer
    <3>7. CASE a = r
      BY <2>1, <2>2, <2>3, <3>6, <3>7
    <3>8. CASE a # r
      BY <1>4, <3>4, <3>8 DEF OneAnswer
    <3> QED BY <3>7, <3>8
  <2> QED BY <1>5, <2>4, <2>5, <2>6
<1>7. CASE UNCHANGED toCnc
  BY <1>1, <1>4, <1>5, <1>7, OnlyShorter
<1>8. CASE Publish(r, "fail")
  <2>1. toCnc' = toCnc \/ toCnc' = Append(toCnc, <<r, "failure">>)
    BY <1>8 DEF Publish
  <2>2. CASE toCnc' = Append(toCnc, <<r, "failure">>)
    <3>1. toCnc \in Seq(Actions \X Said) /\ <<r, "failure">> \in Actions \X Said
      BY DEF TypeOK, Said
    <3>2. /\ \A e : Has(toCnc', e) <=> Has(toCnc, e) \/ <<r, "failure">> = e
          /\ \A e : <<r, "failure">> # e => \A i \in DOMAIN toCnc' : toCnc'[i] = e => i \in DOMAIN toCnc /\ toCnc[i] = e
      <4>1. PICK x \in Actions \X Said : x = <<r, "failure">>
        BY <3>1
      <4>2. toCnc' = Append(toCnc, x) /\ toCnc \in Seq(Actions \X Said)
        BY <2>2, <3>1, <4>1
      <4>3. /\ \A e : Has(toCnc', e) <=> Has(toCnc, e) \/ x = e
            /\ \A e : x # e => \A i \in DOMAIN toCnc' : toCnc'[i] = e => i \in DOMAIN toCnc /\ toCnc[i] = e
            /\ \A e : ~Has(toCnc, e) => \A i, j \in DOMAIN toCnc' : toCnc'[i] = e /\ toCnc'[j] = e => i = j
        BY <4>2, SaidLast
      <4> QED BY <4>1, <4>3
    <3>3. \A a \in Actions : Answered(a)' <=> Answered(a)
      BY <3>2 DEF Answered
    <3>4. \A a \in Actions, i \in DOMAIN toCnc' : toCnc'[i] = <<a, "ready">> => i \in DOMAIN toCnc /\ toCnc[i] = <<a, "ready">>
      BY <3>2
    <3> QED BY <1>1, <1>4, <1>5, <3>3, <3>4 DEF OneAnswer
  <2> QED BY <1>1, <1>4, <1>5, <2>1, <2>2, OnlyShorter
<1>9. \/ Head(chunk[r]) = Completed(r) /\ Publish(r, "ready")
      \/ Publish(r, "fail")
      \/ UNCHANGED toCnc
  BY DEF Look, Completed
<1> QED BY <1>6, <1>7, <1>8, <1>9

\* What the machine tool does without being asked, unless it is disabled.
LEMMA MovesCases ==
  ASSUME TypeOK, ~Disables, NEW r \in Actions, CncMoves(r)
  PROVE  /\ UNCHANGED <<robot, toCnc, queue, capture, goal, hold, chunk, outcome, missed>>
         /\ \E s \in ResponseStates :
              /\ CncBecomes(r, s) /\ s # resp[r] /\ resp[r] # "complete" /\ s # "active"
              /\ s = "complete" => resp[r] = "active"
BY DEF CncMoves, ResponseStates

LEMMA AnswerStep == ~Disables => (AnswerInv /\ [Next]_vars => AnswerInv')
<1> SUFFICES ASSUME ~Disables, AnswerInv, [Next]_vars PROVE AnswerInv'
  OBVIOUS
<1> USE DEF AnswerInv
<1>0. TypeOK'
  BY TypeStep
<1>a. ASSUME NEW r \in Actions, NEW s \in ResponseStates, CncBecomes(r, s), UNCHANGED <<goal, hold>>
      PROVE  CompletesThisGoal'
  <2>1. /\ resp'[r] = s /\ (\A a \in Actions : a # r => resp'[a] = resp[a])
        /\ \A a \in Actions : moved'[a] <=> moved[a] \/ (a = r /\ s = "complete")
    BY <1>a, BecomesType
  <2> QED BY <1>a, <2>1 DEF CompletesThisGoal
<1>1. CASE CncHears
  <2>1. PICK r \in Actions, v \in Said :
          /\ toCnc # << >> /\ Head(toCnc) = <<r, v>> /\ toCnc' = Tail(toCnc)
          /\ UNCHANGED <<robot, queue, capture, goal, hold, chunk, outcome>>
          /\ \/ UNCHANGED <<resp, pos, moved, stream>> /\ ResponseNext(resp[r], v) = resp[r]
             \/ \E s \in ResponseStates :
                  /\ CncBecomes(r, s) /\ s # resp[r]
                  /\ resp[r] = "complete" => v = "ready" /\ s = "ready"
    BY <1>1, HearsCases
  <2>2. CASE \E s \in ResponseStates :
                  /\ CncBecomes(r, s) /\ s # resp[r]
                  /\ resp[r] = "complete" => v = "ready" /\ s = "ready"
    <3>1. PICK s \in ResponseStates :
                  /\ CncBecomes(r, s) /\ s # resp[r]
                  /\ resp[r] = "complete" => v = "ready" /\ s = "ready"
      BY <2>2
    <3>2. LastWord' /\ OneAnswer'
      BY <2>1, <3>1, EmitInv
    <3>3. CompletesThisGoal'
      BY <1>a, <2>1, <3>1
    <3> QED BY <1>0, <3>2, <3>3
  <2>3. CASE UNCHANGED <<resp, pos, moved, stream>> /\ ResponseNext(resp[r], v) = resp[r]
    <3>1. toCnc \in Seq(Actions \X Said) /\ resp[r] \in ResponseStates
      BY DEF TypeOK, Said
    <3>2. resp[r] = "complete" => v # "ready"
      BY <2>3, <3>1, Hearing
    <3>3. Has(toCnc, Head(toCnc)) /\ \A e : Has(toCnc', e) => Has(toCnc, e)
      BY <2>1, <3>1, AtFront
    <3>4. \A a \in Actions : Answered(a)' => Answered(a)
      BY <3>3 DEF Answered
    <3>5. \A a \in Actions : (OwnComing(a)' <=> OwnComing(a)) /\ (Coming(a)' <=> Coming(a))
      BY <2>1, <2>3 DEF OwnComing, Coming
    <3>6. \A a \in Actions, i, j \in DOMAIN toCnc' : toCnc'[i] = <<a, "ready">> /\ toCnc'[j] = <<a, "ready">> => i = j
      BY <2>1, <3>1, AnswersOnceTail DEF OneAnswer
    <3>7. OneAnswer'
      BY <2>3, <3>4, <3>5, <3>6 DEF OneAnswer
    <3>8. LastWord' /\ CompletesThisGoal'
      BY <2>1, <2>3 DEF LastWord, CompletesThisGoal
    <3> QED BY <1>0, <3>7, <3>8
  <2> QED BY <2>1, <2>2, <2>3
<1>2. ASSUME NEW r \in Actions, CncMoves(r) PROVE AnswerInv'
  <2>1. UNCHANGED <<robot, toCnc, queue, capture, goal, hold, chunk, outcome, missed>>
    BY <1>2, MovesCases
  <2>2. PICK s \in ResponseStates : CncBecomes(r, s) /\ s # resp[r] /\ resp[r] # "complete"
    BY <1>2, MovesCases
  <2>3. LastWord' /\ OneAnswer'
    BY <2>1, <2>2, EmitInv
  <2>4. CompletesThisGoal'
    BY <1>a, <2>1, <2>2
  <2> QED BY <1>0, <2>3, <2>4
<1>3. ASSUME NEW r \in Actions, Goal(r) PROVE AnswerInv'
  <2>1. LastWord' /\ OneAnswer'
    BY <1>3, SaysInv DEF Goal
  <2>2. CompletesThisGoal'
    BY <1>3 DEF Goal, TypeOK, CompletesThisGoal
  <2> QED BY <1>0, <2>1, <2>2
<1>4. ASSUME NEW r \in Actions, Check(r) PROVE AnswerInv'
  <2>1. LastWord' /\ OneAnswer'
    BY <1>4, SaysInv DEF Check, cnc
  <2>2. CompletesThisGoal'
    BY <1>4 DEF Check, cnc, TypeOK, CompletesThisGoal
  <2> QED BY <1>0, <2>1, <2>2
<1>5. ASSUME NEW r \in Actions, Submit(r) PROVE AnswerInv'
  <2>0. toCnc' = toCnc \/ toCnc' = Append(toCnc, <<r, "active">>)
    BY <1>5 DEF Submit, Publish
  <2>1. "active" \in Said \ {"ready"}
    BY DEF Said
  <2>2. LastWord' /\ OneAnswer'
    BY <1>5, <2>0, <2>1, SaysInv DEF Submit, cnc
  <2>3. CompletesThisGoal'
    BY <1>5 DEF Submit, cnc, TypeOK, CompletesThisGoal
  <2> QED BY <1>0, <2>2, <2>3
<1>6. ASSUME NEW r \in Actions, Capture(r) PROVE AnswerInv'
  <2>1. LastWord' /\ OneAnswer'
    BY <1>6, SaysInv DEF Capture, cnc
  <2>2. CompletesThisGoal'
    BY <1>6 DEF Capture, cnc, TypeOK, CompletesThisGoal
  <2> QED BY <1>0, <2>1, <2>2
<1>7. CASE XmlCallback
  <2>1. CompletesThisGoal'
    BY <1>7 DEF XmlCallback, cnc, CompletesThisGoal
  <2> QED BY <1>0, <1>7, <2>1, DeliverInv
<1>8. ASSUME NEW r \in Actions, Take(r) PROVE AnswerInv'
  <2>1. CompletesThisGoal'
    BY <1>8 DEF Take, cnc, CompletesThisGoal
  <2> QED BY <1>0, <1>8, <2>1, TakeInv
<1>9. ASSUME NEW r \in Actions, Look(r) PROVE AnswerInv'
  <2>1. UNCHANGED <<resp, moved>> /\ chunk[r] \in Seq(Change) /\ chunk[r] # << >>
    BY <1>9 DEF Look, cnc, TypeOK
  <2>2. \/ goal' = goal
        \/ goal' = [goal EXCEPT ![r] = "leave"]
    BY <1>9 DEF Look, End
  <2>3. \A a \in Actions : goal'[a] \in {"submit", "capture", "dwell"} => goal'[a] = goal[a]
    BY <2>2 DEF TypeOK
  <2>4. \/ hold' = hold
        \/ hold' = [hold EXCEPT ![r] = TRUE] /\ Head(chunk[r]) = Completed(r) /\ goal' = goal
    BY <1>9 DEF Look, Completed
  <2>5. Head(chunk[r]) = Completed(r) => resp[r] = "complete"
    <3>1. Head(chunk[r]) = Completed(r) => Has(chunk[r], Completed(r))
      BY <2>1, AtFront
    <3> QED BY <3>1 DEF OneAnswer, Coming
  <2>6. hold' = hold => CompletesThisGoal'
    BY <2>1, <2>3 DEF CompletesThisGoal
  <2>7. hold' = [hold EXCEPT ![r] = TRUE] /\ Head(chunk[r]) = Completed(r) /\ goal' = goal => CompletesThisGoal'
    BY <2>1, <2>5 DEF CompletesThisGoal, TypeOK
  <2>8. CompletesThisGoal'
    BY <2>4, <2>6, <2>7
  <2> QED BY <1>0, <1>9, <2>8, LookInv
<1>10. ASSUME NEW r \in Actions, Leave(r) PROVE AnswerInv'
  <2>1. LastWord' /\ OneAnswer'
    BY <1>10, SaysInv DEF Leave, cnc
  <2>2. CompletesThisGoal'
    BY <1>10 DEF Leave, cnc, TypeOK, CompletesThisGoal
  <2> QED BY <1>0, <2>1, <2>2
<1>11. CASE UNCHANGED vars
  <2>1. LastWord' /\ OneAnswer'
    BY <1>11, SaysInv DEF vars
  <2> QED BY <1>0, <1>11, <2>1 DEF vars, CompletesThisGoal
<1> QED BY <1>1, <1>2, <1>3, <1>4, <1>5, <1>6, <1>7, <1>8, <1>9, <1>10, <1>11 DEF Next

LEMMA AnswerInit == Init => AnswerInv
<1> SUFFICES ASSUME Init PROVE AnswerInv
  OBVIOUS
<1>1. toCnc = << >> /\ stream = << >> /\ queue = << >> /\ \A r \in Actions : chunk[r] = << >> /\ goal[r] = "none"
  BY DEF Init
<1>2. DOMAIN << >> = {}
  OBVIOUS
<1>3. TypeOK
  <2>1. /\ resp \in [Actions -> ResponseStates] /\ robot \in [Actions -> {"ready", "active", "fail"}]
        /\ pos \in [{"door", "chuck"} -> {"OPEN", "CLOSED", "UNLATCHED"}]
        /\ goal \in [Actions -> Places] /\ outcome \in [Actions -> {"none", "succeeded", "aborted"}]
    BY DEF Init, ResponseStates, Places
  <2>2. hold \in [Actions -> BOOLEAN] /\ moved \in [Actions -> BOOLEAN] /\ missed \in [Actions -> BOOLEAN] /\ capture \in BOOLEAN
    BY DEF Init
  <2>3. /\ toCnc \in Seq(Actions \X Said) /\ stream \in Seq(Change) /\ queue \in Seq(Seq(Change))
        /\ chunk \in [Actions -> Seq(Change)]
    BY EmptySeq DEF Init
  <2> QED BY <2>1, <2>2, <2>3 DEF TypeOK, Said
<1>4. LastWord /\ OneAnswer
  BY <1>1, <1>2 DEF LastWord, OneAnswer, CompleteIsLast, Has, Own, Coming, OwnComing, Answered
<1>5. CompletesThisGoal
  BY <1>1 DEF CompletesThisGoal
<1> QED BY <1>3, <1>4, <1>5 DEF AnswerInv

\* The bridge server's variables keep their types, whether or not the machine tool is
\* disabled and however many goals there are at a time.
THEOREM BridgeTypes == Spec => []TypeOK
<1>1. Init => TypeOK
  BY AnswerInit DEF AnswerInv
<1> QED BY <1>1, TypeStep, PTL DEF Spec

\* The robot gives its READY only to a machine tool that completed the action since the goal
\* came, even when goals run together, if the machine tool is not disabled in the middle of
\* an exchange (execute_cb, bridge_server.py:245-247).
THEOREM AnswersThisGoal == ASSUME ~Disables PROVE Spec => []ReadyAnswersComplete
<1>1. Init => AnswerInv
  BY AnswerInit
<1>2. AnswerInv /\ [Next]_vars => AnswerInv'
  BY AnswerStep
<1>3. AnswerInv => ReadyAnswersComplete
  BY DEF AnswerInv, CompletesThisGoal, ReadyAnswersComplete
<1> QED BY <1>1, <1>2, <1>3, PTL DEF Spec

-----------------------------------------------------------------------------
(* The device                                                               *)

\* A device has two responses, each in the other's way, that move it to different places.
LEMMA Devices ==
  ASSUME NEW a \in Actions, NEW r \in Actions, SameDevice(a, r), a # r
  PROVE  a = Related[r] /\ Dest[a] # Dest[r]
BY Known DEF Responses, SameDevice, Device, Dest, Related

\* What the machine tool may do to a device.
Lawful(r, s) ==
  /\ CncBecomes(r, s) /\ s # resp[r]
  /\ resp[r] = "complete" => s = "ready"
  /\ s = "active" => pos[Device[r]] # Dest[r] /\ ~InTheWay(r)
  /\ s = "complete" => resp[r] = "active" \/ pos[Device[r]] = Dest[r]

LEMMA OwnedStep ==
  ASSUME TypeOK, DeviceOwned, NEW r \in Actions, NEW s \in ResponseStates, Lawful(r, s)
  PROVE  DeviceOwned'
<1>1. /\ resp'[r] = s /\ (\A a \in Actions : a # r => resp'[a] = resp[a])
      /\ s = "complete" => pos'[Device[r]] = Dest[r]
      /\ s = "active" => pos'[Device[r]] = "UNLATCHED"
      /\ s \notin {"active", "complete"} => pos' = pos
      /\ \A d \in {"door", "chuck"} : d # Device[r] => pos'[d] = pos[d]
  BY BecomesType DEF Lawful
<1>2. ASSUME NEW a \in Actions, SameDevice(a, r), a # r, s \in {"active", "complete"}
      PROVE  resp[a] \notin {"active", "complete"}
  <2>1. a = Related[r] /\ Dest[a] # Dest[r] /\ Device[a] = Device[r]
    BY <1>2, Devices DEF SameDevice
  <2>2. CASE s = "active"
    BY <2>1, <2>2 DEF Lawful, InTheWay
  <2>3. CASE s = "complete" /\ resp[r] = "active"
    BY <1>2, <2>3 DEF DeviceOwned
  <2>4. CASE s = "complete" /\ pos[Device[r]] = Dest[r]
    <3>1. Dest[r] # "UNLATCHED"
      BY Known
    <3> QED BY <2>1, <2>4, <3>1 DEF DeviceOwned
  <2> QED BY <1>2, <2>2, <2>3, <2>4 DEF Lawful
<1> SUFFICES ASSUME NEW b \in Actions
             PROVE  /\ resp'[b] = "complete" => pos'[Device[b]] = Dest[b]
                    /\ resp'[b] = "active" => pos'[Device[b]] = "UNLATCHED"
                    /\ \A a \in Actions : SameDevice(a, b) /\ a # b /\ resp'[b] \in {"active", "complete"} =>
                                            resp'[a] \notin {"active", "complete"}
  BY DEF DeviceOwned, SameDevice
<1>3. CASE b = r
  BY <1>1, <1>2, <1>3
<1>4. CASE b # r /\ ~SameDevice(b, r)
  <2>1. Device[b] \in {"door", "chuck"} /\ Device[b] # Device[r] /\ ~SameDevice(r, b)
    BY <1>4, Known DEF SameDevice
  <2> QED BY <1>1, <1>4, <2>1 DEF DeviceOwned
<1>5. CASE b # r /\ SameDevice(b, r) /\ s \in {"active", "complete"}
  BY <1>1, <1>2, <1>5
<1>6. CASE b # r /\ SameDevice(b, r) /\ s \notin {"active", "complete"}
  BY <1>1, <1>6 DEF DeviceOwned
<1> QED BY <1>3, <1>4, <1>5, <1>6

\* A device that is settled stays where it is until the robot says ACTIVE to it again.
LEMMA SettledStep ==
  ASSUME TypeOK, NEW r \in Actions, NEW s \in ResponseStates, CncBecomes(r, s),
         \A e : Has(toCnc', e) => Has(toCnc, e),
         s \in {"active", "complete"} => resp[r] = "active" \/ Has(toCnc, <<r, "active">>),
         NEW b \in Actions, Settled(b)
  PROVE  Settled(b)'
<1>1. /\ resp'[r] = s /\ (\A a \in Actions : a # r => resp'[a] = resp[a])
      /\ s \notin {"active", "complete"} => pos' = pos
      /\ \A d \in {"door", "chuck"} : d # Device[r] => pos'[d] = pos[d]
  BY BecomesType
<1>2. CASE SameDevice(r, b)
  BY <1>1, <1>2 DEF Settled, SameDevice
<1>3. CASE ~SameDevice(r, b)
  <2>1. Device[b] \in {"door", "chuck"} /\ Device[b] # Device[r]
    BY <1>3, Known DEF SameDevice
  <2>2. pos'[Device[b]] = Dest[b]
    BY <1>1, <2>1 DEF Settled
  <2>3. \A a \in Actions : SameDevice(a, b) => resp'[a] # "active" /\ ~Has(toCnc', <<a, "active">>)
    BY <1>1, <1>3 DEF Settled
  <2> QED BY <2>2, <2>3 DEF Settled, SameDevice
<1> QED BY <1>2, <1>3

\* What the robot says to others, or besides ACTIVE, leaves it settled.
LEMMA SettledSays ==
  ASSUME TypeOK, UNCHANGED <<resp, pos>>, NEW x \in Actions \X Said, NEW b \in Actions, Settled(b),
         toCnc' = toCnc \/ toCnc' = Append(toCnc, x),
         x[2] = "active" => ~SameDevice(x[1], b)
  PROVE  Settled(b)'
<1>1. \A e : Has(toCnc', e) => Has(toCnc, e) \/ x = e
  BY SaidLast
<1>2. \A a \in Actions : SameDevice(a, b) => x # <<a, "active">>
  OBVIOUS
<1> QED BY <1>1, <1>2 DEF Settled, SameDevice

-----------------------------------------------------------------------------
(* The success                                                              *)

\* Every step of the machine tool.
LEMMA ToolSuccess ==
  ASSUME SuccessInv, NEW r \in Actions, NEW s \in ResponseStates, Lawful(r, s),
         UNCHANGED <<robot, goal, hold, outcome>>, \A e : Has(toCnc', e) => Has(toCnc, e),
         s \in {"active", "complete"} => resp[r] = "active" \/ Has(toCnc, <<r, "active">>),
         \A b \in Actions : goal[b] = "dwell" /\ hold[b] =>
           \/ toCnc' # << >> /\ toCnc'[Len(toCnc')] = <<b, "ready">>
           \/ toCnc' = << >> /\ Settled(b)'
  PROVE  DeviceOwned' /\ OneGoal' /\ HeldIsSettled' /\ SuccessIsSettled'
<1> USE DEF SuccessInv, AnswerInv
<1>1. DeviceOwned'
  BY OwnedStep
<1>2. OneGoal'
  BY DEF OneGoal
<1>3. HeldIsSettled'
  BY DEF HeldIsSettled
<1>4. \A a \in Actions : moved[a] => moved'[a]
  BY BecomesType DEF Lawful
<1>5. \A b \in Actions : Settled(b) => Settled(b)'
  BY SettledStep DEF Lawful
<1>6. SuccessIsSettled'
  BY <1>4, <1>5 DEF SuccessIsSettled
<1> QED BY <1>1, <1>2, <1>3, <1>6

LEMMA HearsSuccess ==
  ASSUME SuccessInv, CncHears
  PROVE  DeviceOwned' /\ OneGoal' /\ HeldIsSettled' /\ SuccessIsSettled'
<1> USE DEF SuccessInv, AnswerInv
<1>1. PICK r \in Actions, v \in Said :
        /\ toCnc # << >> /\ Head(toCnc) = <<r, v>> /\ toCnc' = Tail(toCnc)
        /\ UNCHANGED <<robot, queue, capture, goal, hold, chunk, outcome>>
        /\ \/ UNCHANGED <<resp, pos, moved, stream>> /\ ResponseNext(resp[r], v) = resp[r]
           \/ \E s \in ResponseStates :
                /\ CncBecomes(r, s) /\ s # resp[r]
                /\ resp[r] = "complete" => v = "ready" /\ s = "ready"
                /\ s \in {"active", "complete"} => v = "active"
                /\ s = "active" => pos[Device[r]] # Dest[r] /\ ~InTheWay(r)
                /\ s = "complete" => pos[Device[r]] = Dest[r]
  BY HearsCases
<1>2. toCnc \in Seq(Actions \X Said) /\ resp[r] \in ResponseStates
  BY DEF TypeOK, Said
<1>3. Has(toCnc, <<r, v>>) /\ \A e : Has(toCnc', e) => Has(toCnc, e)
  BY <1>1, <1>2, AtFront
<1>4. /\ toCnc' # << >> => toCnc'[Len(toCnc')] = toCnc[Len(toCnc)]
      /\ toCnc' = << >> => toCnc[Len(toCnc)] = <<r, v>>
  <2>1. /\ Len(toCnc) \in Nat /\ Len(toCnc) > 0 /\ toCnc[1] = <<r, v>> /\ toCnc' \in Seq(Actions \X Said)
        /\ Len(toCnc') = Len(toCnc) - 1 /\ \A i \in 1..Len(toCnc') : toCnc'[i] = toCnc[i + 1]
    BY <1>1, <1>2, HeadTailProperties, LenProperties, EmptySeq
  <2>2. toCnc' = << >> => Len(toCnc) = 1
    BY <2>1
  <2>3. toCnc' # << >> => Len(toCnc') \in 1..Len(toCnc')
    BY <2>1, EmptySeq
  <2> QED BY <2>1, <2>2, <2>3
<1>5. CASE UNCHANGED <<resp, pos, moved, stream>> /\ ResponseNext(resp[r], v) = resp[r]
  <2>1. DeviceOwned' /\ OneGoal'
    BY <1>1, <1>5 DEF DeviceOwned, OneGoal
  <2>2. \A b \in Actions : Settled(b) => Settled(b)'
    BY <1>3, <1>5 DEF Settled
  <2>3. SuccessIsSettled'
    BY <1>1, <1>5, <2>2 DEF SuccessIsSettled
  <2>4. ASSUME NEW b \in Actions, goal[b] = "dwell", hold[b]
        PROVE  toCnc' # << >> /\ toCnc'[Len(toCnc')] = <<b, "ready">>
    <3>1. toCnc[Len(toCnc)] = <<b, "ready">>
      BY <1>1, <2>4 DEF HeldIsSettled
    <3>2. CASE toCnc' = << >>
      <4>1. b = r /\ v = "ready"
        BY <1>4, <3>1, <3>2
      <4>2. resp[r] = "complete"
        BY <1>3, <4>1 DEF OneAnswer, Answered
      <4> QED BY <1>2, <1>5, <4>1, <4>2, Hearing
    <3> QED BY <1>4, <3>1, <3>2
  <2>5. HeldIsSettled'
    BY <1>1, <2>4 DEF HeldIsSettled
  <2> QED BY <2>1, <2>3, <2>5
<1>6. ASSUME NEW s \in ResponseStates,
             CncBecomes(r, s), s # resp[r],
             resp[r] = "complete" => v = "ready" /\ s = "ready",
             s \in {"active", "complete"} => v = "active",
             s = "active" => pos[Device[r]] # Dest[r] /\ ~InTheWay(r),
             s = "complete" => pos[Device[r]] = Dest[r]
      PROVE  DeviceOwned' /\ OneGoal' /\ HeldIsSettled' /\ SuccessIsSettled'
  <2>1. Lawful(r, s)
    BY <1>6 DEF Lawful
  <2>2. s \in {"active", "complete"} => Has(toCnc, <<r, "active">>)
    BY <1>3, <1>6
  <2>3. ASSUME NEW b \in Actions, goal[b] = "dwell", hold[b]
        PROVE  \/ toCnc' # << >> /\ toCnc'[Len(toCnc')] = <<b, "ready">>
               \/ toCnc' = << >> /\ Settled(b)'
    <3>1. toCnc[Len(toCnc)] = <<b, "ready">>
      BY <1>1, <2>3 DEF HeldIsSettled
    <3>2. CASE toCnc' = << >>
      <4>1. b = r /\ v = "ready"
        BY <1>4, <3>1, <3>2
      <4>2. resp[r] = "complete"
        BY <1>3, <4>1 DEF OneAnswer, Answered
      <4>3. /\ s = "ready" /\ pos' = pos /\ resp'[r] = "ready"
            /\ \A a \in Actions : a # r => resp'[a] = resp[a]
        BY <1>6, <4>2, BecomesType
      <4>4. pos[Device[b]] = Dest[b] /\ \A a \in Actions : SameDevice(a, b) /\ a # b => resp[a] # "active"
        BY <4>1, <4>2 DEF DeviceOwned
      <4>5. \A e : ~Has(toCnc', e)
        BY <3>2 DEF Has
      <4> QED BY <3>2, <4>1, <4>3, <4>4, <4>5 DEF Settled
    <3> QED BY <1>4, <3>1, <3>2
  <2> QED BY <1>1, <1>3, <2>1, <2>2, <2>3, ToolSuccess
<1> QED BY <1>1, <1>5, <1>6

LEMMA MovesSuccess ==
  ASSUME ~Disables, SuccessInv, NEW r \in Actions, CncMoves(r)
  PROVE  DeviceOwned' /\ OneGoal' /\ HeldIsSettled' /\ SuccessIsSettled'
<1> USE DEF SuccessInv, AnswerInv
<1>1. UNCHANGED <<robot, toCnc, queue, capture, goal, hold, chunk, outcome, missed>>
  BY MovesCases
<1>2. PICK s \in ResponseStates :
        /\ CncBecomes(r, s) /\ s # resp[r] /\ resp[r] # "complete" /\ s # "active"
        /\ s = "complete" => resp[r] = "active"
  BY MovesCases
<1>3. Lawful(r, s)
  BY <1>2 DEF Lawful
<1>4. \A e : Has(toCnc', e) => Has(toCnc, e)
  BY <1>1
<1>5. \A b \in Actions : Settled(b) => Settled(b)'
  BY <1>2, <1>4, SettledStep
<1>6. \A b \in Actions : goal[b] = "dwell" /\ hold[b] =>
        \/ toCnc' # << >> /\ toCnc'[Len(toCnc')] = <<b, "ready">>
        \/ toCnc' = << >> /\ Settled(b)'
  BY <1>1, <1>5 DEF HeldIsSettled
<1> QED BY <1>1, <1>2, <1>3, <1>4, <1>6, ToolSuccess

LEMMA LookSuccess ==
  ASSUME SuccessInv, NEW r \in Actions, Look(r)
  PROVE  DeviceOwned' /\ OneGoal' /\ HeldIsSettled' /\ SuccessIsSettled'
<1> USE DEF SuccessInv, AnswerInv
<1>1. /\ UNCHANGED <<resp, pos, moved>> /\ goal[r] \in {"dwell", "leave"}
      /\ chunk[r] # << >> /\ chunk[r] \in Seq(Change)
  BY DEF Look, cnc, TypeOK
<1>2. \A a \in Actions : a # r => goal[a] = "none"
  BY <1>1 DEF OneGoal
<1>3. DeviceOwned'
  BY <1>1 DEF DeviceOwned
<1>4. /\ \/ goal' = goal
         \/ goal' = [goal EXCEPT ![r] = "leave"]
      /\ \/ toCnc' = toCnc
         \/ toCnc' = Append(toCnc, <<r, "ready">>)
         \/ toCnc' = Append(toCnc, <<r, "failure">>)
  BY DEF Look, End, Publish
<1>5. /\ \A a \in Actions : a # r => goal'[a] = "none"
      /\ goal'[r] = goal[r] \/ goal'[r] = "leave"
  BY <1>2, <1>4 DEF TypeOK
<1>6. OneGoal'
  BY <1>5 DEF OneGoal
<1>7. \A b \in Actions : Settled(b) => Settled(b)'
  <2>1. <<r, "ready">> \in Actions \X Said /\ <<r, "failure">> \in Actions \X Said
    BY DEF Said
  <2>2. PICK x \in Actions \X Said : (toCnc' = toCnc \/ toCnc' = Append(toCnc, x)) /\ x[2] # "active"
    BY <1>4, <2>1
  <2> QED BY <1>1, <2>2, SettledSays
<1>8. CASE Head(chunk[r]) = <<r, "complete">> /\ ~hold[r] /\ Publish(r, "ready")
             /\ hold' = [hold EXCEPT ![r] = TRUE] /\ UNCHANGED <<goal, outcome>>
  <2>1. SuccessIsSettled'
    BY <1>1, <1>7, <1>8 DEF SuccessIsSettled
  <2>2. goal[r] = "dwell" => toCnc' # << >> /\ toCnc'[Len(toCnc')] = <<r, "ready">>
    <3>1. goal[r] = "dwell" => toCnc' = Append(toCnc, <<r, "ready">>)
      BY <1>8, PublishType DEF HeldIsSettled
    <3>2. toCnc \in Seq(Actions \X Said) /\ <<r, "ready">> \in Actions \X Said
      BY DEF TypeOK, Said
    <3> QED BY <3>1, <3>2
  <2>3. hold'[r] /\ goal'[r] # "capture"
    BY <1>1, <1>8 DEF TypeOK
  <2>4. HeldIsSettled'
    <3> SUFFICES ASSUME NEW b \in Actions
                 PROVE  /\ goal'[b] = "capture" => ~hold'[b]
                        /\ goal'[b] \in {"capture", "dwell"} /\ ~hold'[b] => robot'[b] = "active"
                        /\ goal'[b] = "dwell" /\ hold'[b] =>
                             \/ toCnc' # << >> /\ toCnc'[Len(toCnc')] = <<b, "ready">>
                             \/ toCnc' = << >> /\ Settled(b)'
                        /\ goal'[b] = "leave" => outcome'[b] # "none"
      BY DEF HeldIsSettled
    <3>1. CASE b = r
      BY <1>8, <2>2, <2>3, <3>1 DEF HeldIsSettled
    <3>2. CASE b # r
      BY <1>5, <3>2
    <3> QED BY <3>1, <3>2
  <2> QED BY <1>3, <1>6, <2>1, <2>4
<1>9. CASE (\/ Head(chunk[r]) = <<r, "ready">> /\ hold[r] /\ End(r, "succeeded") /\ UNCHANGED <<toCnc, robot>>
            \/ End(r, "aborted")) /\ UNCHANGED hold
  <2>1. goal'[r] = "leave"
    BY <1>9 DEF End, TypeOK
  <2>2. /\ outcome'[r] # "none" /\ \A a \in Actions : a # r => outcome'[a] = outcome[a]
        /\ outcome[r] # "none" => outcome'[r] = outcome[r]
    BY <1>9 DEF End, TypeOK
  <2>3. HeldIsSettled'
    BY <1>5, <2>1, <2>2 DEF HeldIsSettled
  <2>4. ASSUME outcome'[r] = "succeeded", outcome[r] = "none"
        PROVE  moved[r] /\ Settled(r)
    <3>1. Head(chunk[r]) = <<r, "ready">> /\ hold[r] /\ goal[r] = "dwell"
      <4>1. \/ Head(chunk[r]) = <<r, "ready">> /\ hold[r]
            \/ outcome'[r] = "aborted"
        BY <1>9, <2>4 DEF End, TypeOK
      <4> QED BY <1>1, <2>4, <4>1 DEF HeldIsSettled
    <3>2. Own(chunk[r], r)
      <4>1. Head(chunk[r])[1] = r
        BY <3>1
      <4> QED BY <1>1, <4>1, AtFront
    <3>3. ~Answered(r)
      BY <3>2 DEF OneAnswer, OwnComing
    <3>4. ~(toCnc # << >> /\ toCnc[Len(toCnc)] = <<r, "ready">>)
      <4>1. toCnc \in Seq(Actions \X Said)
        BY DEF TypeOK, Said
      <4>2. toCnc # << >> => Len(toCnc) \in DOMAIN toCnc
        BY <4>1
      <4> QED BY <3>3, <4>2 DEF Answered, Has
    <3> QED BY <3>1, <3>4 DEF HeldIsSettled, CompletesThisGoal
  <2>5. SuccessIsSettled'
    <3> SUFFICES ASSUME NEW b \in Actions, outcome'[b] = "succeeded"
                 PROVE  /\ moved[b] /\ Settled(b)
                        /\ \A a \in Actions : SameDevice(a, b) => goal'[a] = "none" \/ (a = b /\ goal'[a] = "leave")
      BY <1>1, <1>7 DEF SuccessIsSettled
    <3>1. CASE b = r
      <4>1. moved[b] /\ Settled(b)
        BY <2>2, <2>4, <3>1 DEF SuccessIsSettled
      <4> QED BY <1>5, <2>1, <3>1, <4>1
    <3>2. CASE b # r
      <4>1. outcome[b] = "succeeded"
        BY <2>2, <3>2
      <4>2. ~SameDevice(r, b)
        BY <1>1, <3>2, <4>1 DEF SuccessIsSettled
      <4> QED BY <1>5, <4>1, <4>2 DEF SuccessIsSettled
    <3> QED BY <3>1, <3>2
  <2> QED BY <1>3, <1>6, <2>3, <2>5
<1>10. CASE UNCHANGED <<robot, toCnc, goal, hold, outcome>>
  BY <1>1, <1>3, <1>6, <1>7, <1>10 DEF HeldIsSettled, SuccessIsSettled
<1> QED BY <1>8, <1>9, <1>10 DEF Look

LEMMA SuccessStep == ~Disables /\ OneAtATime => (SuccessInv /\ [Next]_vars => SuccessInv')
<1> SUFFICES ASSUME ~Disables, OneAtATime, SuccessInv, [Next]_vars PROVE SuccessInv'
  OBVIOUS
<1>0. AnswerInv'
  BY AnswerStep DEF SuccessInv
<1> USE DEF SuccessInv, AnswerInv
<1>a. ASSUME NEW x \in Actions \X Said, UNCHANGED <<resp, pos>>, toCnc' = toCnc \/ toCnc' = Append(toCnc, x),
             NEW b \in Actions, Settled(b), x[2] = "active" => ~SameDevice(x[1], b)
      PROVE  Settled(b)'
  BY <1>a, SettledSays
<1>b. ASSUME UNCHANGED <<resp, pos, toCnc>>
      PROVE  DeviceOwned' /\ \A b \in Actions : Settled(b)' <=> Settled(b)
  BY <1>b DEF DeviceOwned, Settled
<1>1. CASE CncHears
  BY <1>0, <1>1, HearsSuccess
<1>2. ASSUME NEW r \in Actions, CncMoves(r) PROVE SuccessInv'
  BY <1>0, <1>2, MovesSuccess
<1>3. ASSUME NEW r \in Actions, Goal(r) PROVE SuccessInv'
  <2>1. /\ UNCHANGED <<resp, pos, toCnc, robot, hold>> /\ \A a \in Actions : goal[a] = "none"
        /\ goal' = [goal EXCEPT ![r] = "check"]
        /\ outcome' = [a \in Actions |-> IF SameDevice(a, r) THEN "none" ELSE outcome[a]]
        /\ moved' = [moved EXCEPT ![r] = FALSE]
    BY <1>3 DEF Goal, SameDevice
  <2>2. goal'[r] = "check" /\ \A a \in Actions : a # r => goal'[a] = "none" /\ moved'[a] = moved[a]
    BY <2>1 DEF TypeOK
  <2>3. OneGoal' /\ HeldIsSettled'
    BY <2>1, <2>2 DEF OneGoal, HeldIsSettled
  <2>4. \A a, b : SameDevice(a, b) => SameDevice(b, a)
    BY DEF SameDevice
  <2>5. ASSUME NEW b \in Actions, outcome'[b] = "succeeded"
        PROVE  /\ moved'[b] /\ Settled(b)'
               /\ \A a \in Actions : SameDevice(a, b) => goal'[a] = "none" \/ (a = b /\ goal'[a] = "leave")
    <3>1. ~SameDevice(b, r) /\ outcome[b] = "succeeded"
      BY <2>1, <2>5
    <3>2. b # r
      BY <3>1 DEF SameDevice
    <3> QED BY <1>b, <2>1, <2>2, <2>4, <3>1, <3>2 DEF SuccessIsSettled
  <2> QED BY <1>0, <1>b, <2>1, <2>3, <2>5 DEF SuccessIsSettled
<1>4. ASSUME NEW r \in Actions, Check(r) PROVE SuccessInv'
  <2>1. /\ UNCHANGED <<resp, pos, toCnc, robot, hold, moved>> /\ goal[r] = "check"
        /\ goal' = [goal EXCEPT ![r] = "submit"] \/ goal' = [goal EXCEPT ![r] = "none"]
        /\ outcome' = outcome \/ outcome' = [outcome EXCEPT ![r] = "aborted"]
    BY <1>4 DEF Check, cnc
  <2>2. \A a \in Actions : a # r => goal[a] = "none"
    BY <2>1 DEF OneGoal
  <2>3. /\ goal'[r] \in {"submit", "none"} /\ \A a \in Actions : a # r => goal'[a] = "none" /\ outcome'[a] = outcome[a]
        /\ outcome'[r] \in {outcome[r], "aborted"}
    BY <2>1, <2>2 DEF TypeOK
  <2>4. OneGoal' /\ HeldIsSettled'
    BY <2>1, <2>3 DEF OneGoal, HeldIsSettled
  <2>5. SuccessIsSettled'
    <3> SUFFICES ASSUME NEW b \in Actions, outcome'[b] = "succeeded"
                 PROVE  /\ moved[b] /\ Settled(b)
                        /\ \A a \in Actions : SameDevice(a, b) => goal'[a] = "none" \/ (a = b /\ goal'[a] = "leave")
      BY <1>b, <2>1 DEF SuccessIsSettled
    <3>1. outcome[b] = "succeeded"
      BY <2>3
    <3>2. ~SameDevice(r, b)
      BY <2>1, <3>1 DEF SuccessIsSettled
    <3> QED BY <2>3, <3>1, <3>2 DEF SuccessIsSettled
  <2> QED BY <1>0, <1>b, <2>1, <2>4, <2>5
<1>5. ASSUME NEW r \in Actions, Submit(r) PROVE SuccessInv'
  <2>1. /\ UNCHANGED <<resp, pos, moved, outcome>> /\ goal[r] = "submit" /\ Publish(r, "active")
        /\ goal' = [goal EXCEPT ![r] = "capture"] /\ hold' = [hold EXCEPT ![r] = FALSE]
    BY <1>5 DEF Submit, cnc
  <2>2. \A a \in Actions : a # r => goal[a] = "none"
    BY <2>1 DEF OneGoal
  <2>3. /\ goal'[r] = "capture" /\ ~hold'[r] /\ robot'[r] = "active" /\ \A a \in Actions : a # r => goal'[a] = "none"
    BY <2>1, <2>2, PublishType DEF TypeOK
  <2>4. OneGoal' /\ HeldIsSettled'
    BY <2>1, <2>3 DEF OneGoal, HeldIsSettled
  <2>5. PICK x \in Actions \X Said : x = <<r, "active">> /\ (toCnc' = toCnc \/ toCnc' = Append(toCnc, x))
    <3>1. <<r, "active">> \in Actions \X Said
      BY DEF Said
    <3> QED BY <2>1, <3>1 DEF Publish
  <2>6. SuccessIsSettled'
    <3> SUFFICES ASSUME NEW b \in Actions, outcome[b] = "succeeded"
                 PROVE  /\ moved[b] /\ Settled(b)'
                        /\ \A a \in Actions : SameDevice(a, b) => goal'[a] = "none" \/ (a = b /\ goal'[a] = "leave")
      BY <2>1 DEF SuccessIsSettled
    <3>1. ~SameDevice(r, b)
      BY <2>1 DEF SuccessIsSettled
    <3>2. Settled(b)'
      <4>1. x[1] = r /\ Settled(b)
        BY <2>5 DEF SuccessIsSettled
      <4> QED BY <1>a, <2>1, <2>5, <3>1, <4>1
    <3> QED BY <2>3, <3>1, <3>2 DEF SuccessIsSettled
  <2>7. DeviceOwned'
    BY <2>1 DEF DeviceOwned
  <2> QED BY <1>0, <2>4, <2>6, <2>7
<1>6. ASSUME NEW r \in Actions, Capture(r) PROVE SuccessInv'
  <2>1. /\ UNCHANGED <<resp, pos, toCnc, robot, hold, moved, outcome>> /\ goal[r] = "capture"
        /\ goal' = [goal EXCEPT ![r] = "dwell"]
    BY <1>6 DEF Capture, cnc
  <2>2. goal'[r] = "dwell" /\ \A a \in Actions : a # r => goal'[a] = goal[a]
    BY <2>1 DEF TypeOK
  <2>3. OneGoal'
    BY <2>1, <2>2 DEF OneGoal
  <2>4. HeldIsSettled'
    BY <1>b, <2>1, <2>2 DEF HeldIsSettled
  <2>5. SuccessIsSettled'
    <3>1. \A b \in Actions : outcome[b] = "succeeded" => ~SameDevice(r, b)
      BY <2>1 DEF SuccessIsSettled
    <3>2. \A b \in Actions : SameDevice(b, b)
      BY DEF SameDevice
    <3> QED BY <1>b, <2>1, <2>2, <3>1, <3>2 DEF SuccessIsSettled
  <2> QED BY <1>0, <1>b, <2>1, <2>3, <2>4, <2>5
<1>7. CASE XmlCallback
  <2>1. UNCHANGED <<resp, pos, toCnc, robot, goal, hold, moved, outcome>>
    BY <1>7 DEF XmlCallback, cnc
  <2> QED BY <1>0, <1>b, <2>1 DEF OneGoal, HeldIsSettled, SuccessIsSettled
<1>8. ASSUME NEW r \in Actions, Take(r) PROVE SuccessInv'
  <2>1. UNCHANGED <<resp, pos, toCnc, robot, goal, hold, moved, outcome>>
    BY <1>8 DEF Take, cnc
  <2> QED BY <1>0, <1>b, <2>1 DEF OneGoal, HeldIsSettled, SuccessIsSettled
<1>9. ASSUME NEW r \in Actions, Look(r) PROVE SuccessInv'
  BY <1>0, <1>9, LookSuccess
<1>10. ASSUME NEW r \in Actions, Leave(r) PROVE SuccessInv'
  <2>1. /\ UNCHANGED <<resp, pos, toCnc, robot, hold, moved, outcome>>
        /\ goal' = [goal EXCEPT ![r] = "none"]
    BY <1>10 DEF Leave, cnc
  <2>2. goal'[r] = "none" /\ \A a \in Actions : a # r => goal'[a] = goal[a]
    BY <2>1 DEF TypeOK
  <2> QED BY <1>0, <1>b, <2>1, <2>2 DEF OneGoal, HeldIsSettled, SuccessIsSettled
<1>11. CASE UNCHANGED vars
  BY <1>0, <1>b, <1>11 DEF vars, OneGoal, HeldIsSettled, SuccessIsSettled
<1> QED BY <1>1, <1>2, <1>3, <1>4, <1>5, <1>6, <1>7, <1>8, <1>9, <1>10, <1>11 DEF Next

LEMMA SuccessInit == Init => SuccessInv
<1>1. Init => DeviceOwned /\ OneGoal /\ HeldIsSettled /\ SuccessIsSettled
  BY DEF Init, DeviceOwned, OneGoal, HeldIsSettled, SuccessIsSettled
<1> QED BY <1>1, AnswerInit DEF SuccessInv

\* A goal is reported as succeeded only if the machine tool completed the action since the
\* goal came, and until the robot asks for something else of the device it is where it was
\* told to be: for a robot that does one thing at a time, and a machine tool that is not
\* disabled in the middle of an exchange (execute_cb, bridge_server.py:249-261).
THEOREM SuccessIsTrue == ASSUME ~Disables, OneAtATime PROVE Spec => []SucceededMeansMoved
<1>1. Init => SuccessInv
  BY SuccessInit
<1>2. SuccessInv /\ [Next]_vars => SuccessInv'
  BY SuccessStep
<1>3. SuccessInv => SucceededMeansMoved
  BY DEF SuccessInv, SuccessIsSettled, Settled, SucceededMeansMoved
<1> QED BY <1>1, <1>2, <1>3, PTL DEF Spec
=============================================================================
