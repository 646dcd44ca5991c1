--------------------------- MODULE RobotSimProofs ---------------------------
(* Theorems about the cell without a robot: that a load is reported done   *)
(* only behind a shut door and chuck, and that the simulation moves a       *)
(* device only in the exchange that is under way.                          *)
(*                                                                         *)
(* The programs never speak to each other, so the invariant is about what   *)
(* each can still learn of the exchange the others are in.                 *)
EXTENDS RobotSim, SequenceTheorems, FiniteSetTheorems, TLAPS

-----------------------------------------------------------------------------
(* Exchanges and what is told of them                                       *)

Other(q) == IF q = "load" THEN "unload" ELSE "load"
Opening == [load |-> "closeChuck", unload |-> "openDoor"]     \* the first device of a sequence
Closing == [load |-> "closeDoor", unload |-> "openChuck"]     \* the second
Begins(q) == IF q = "load" THEN "OPEN" ELSE "CLOSED"
Ends(q) == IF q = "load" THEN "CLOSED" ELSE "OPEN"

\* Sequences of changes in which no request becomes ACTIVE, or one, once.
Quiet(s) == \A n \in 1..Len(s) : s[n][2] # "active"
Once(s, q) ==
  \E n \in 1..Len(s) : s[n] = <<q, "active">> /\ \A k \in 1..Len(s) : k # n => s[k][2] # "active"

\* What the simulation may still read of an agent: nothing, or one ACTIVE of q.
NoNews(a) == Quiet(stream[a]) /\ \A m \in 1..Len(queue[a]) : Quiet(queue[a][m])
News(a, q) ==
  \/ NoNews(a)
  \/ Once(stream[a], q) /\ \A m \in 1..Len(queue[a]) : Quiet(queue[a][m])
  \/ /\ Quiet(stream[a])
     /\ \E m \in 1..Len(queue[a]) :
          Once(queue[a][m], q) /\ \A k \in 1..Len(queue[a]) : k # m => Quiet(queue[a][k])

-----------------------------------------------------------------------------
(* The simulation in its sequence                                           *)

\* The devices stand where p says, and no response is at work.
Rest(p) == pos = [d \in {"door", "chuck"} |-> p] /\ resp = [r \in Responses |-> "ready"]

\* The response r is at work on its device, or has been.
Works(r) ==
  /\ \A s \in Responses : s # r => resp[s] = "ready"
  /\ \/ resp[r] = "active" /\ pos[Device[r]] = "UNLATCHED"
     \/ resp[r] \in {"complete", "ready"} /\ pos[Device[r]] = Dest[r]

Silent == \A a \in Agents : NoNews(a)
Polls == sim.at \in {"poll", "poll_robot"} /\ ~sim.sent

\* It has not begun the exchange of q: it ends the one before, or looks for the news.
Before(q) ==
  /\ Rest(Begins(q))
  /\ \/ sim.at = Closing[Other(q)] /\ sim.sent /\ \A a \in Agents : News(a, q)
     \/ /\ Polls /\ sim.sequence \in {"none", q}
        /\ \A a \in Agents : IF sim.state[a] THEN sim.sequence = q /\ NoNews(a) ELSE News(a, q)

\* It is in the sequence of q.
During(q) ==
  /\ Silent
  /\ \/ sim.at = Opening[q] /\ ~sim.sent /\ Rest(Begins(q))
     \/ sim.at = Opening[q] /\ sim.sent /\ Works(Opening[q]) /\ pos[Device[Closing[q]]] = Begins(q)
     \/ /\ sim.at = Closing[q] /\ ~sim.sent /\ resp = [r \in Responses |-> "ready"]
        /\ pos[Device[Opening[q]]] = Ends(q) /\ pos[Device[Closing[q]]] = Begins(q)
     \/ sim.at = Closing[q] /\ sim.sent /\ Works(Closing[q]) /\ pos[Device[Opening[q]]] = Ends(q)

\* Its devices are where q wants them, and there is nothing to begin.
Done(q) ==
  /\ Rest(Ends(q)) /\ Silent
  /\ \/ sim.at = Closing[q] /\ sim.sent
     \/ Polls /\ sim.sequence = "none" /\ \A a \in Agents : ~sim.state[a]

\* Nothing has begun yet.
Looks ==
  /\ Silent /\ sim.at \in {"connect", "poll", "poll_robot"} /\ ~sim.sent /\ sim.sequence = "none"
  /\ \A a \in Agents : ~sim.state[a]

-----------------------------------------------------------------------------
(* The exchange                                                             *)

NobodyServes == client = "none" /\ \A q \in Requests : server[q] = "none"
Asks(q) == cnc = Transfer(q) /\ req[Other(q)] = "not_ready"

\* The simulation has not read, and cannot read yet, that the robot takes part.
Unanswered(q) == NoNews("robot") /\ (sim.at = Closing[Other(q)] \/ ~sim.state["robot"])

\* The machine tool has asked, and nobody has taken it up.
Asked(q) ==
  /\ Asks(q) /\ req[q] = "active" /\ NobodyServes /\ toCnc = << >> /\ Once(toClient, q)
  /\ Before(q) /\ Unanswered(q)

\* The answer ACTIVE is on its way, or was heard; an answer that concludes may follow.
Heard(q, conclusion) ==
  \/ req[q] = "active" /\ toCnc = << <<q, "active">> >> \o conclusion
  \/ req[q] = "processing" /\ toCnc = conclusion

\* The server waits for the devices.
Served(q) ==
  /\ Asks(q) /\ client = q /\ server = [p \in Requests |-> IF p = q THEN "execute" ELSE "none"]
  /\ Quiet(toClient) /\ Heard(q, << >>)
  /\ Before(q) \/ During(q) \/ Done(q)

\* What the servers have been told is no better than what is: before they have seen the devices,
\* and when they have.
Unseen(q) ==
  IF q = "load"
  THEN topic.door = "CLOSED" => pos["door"] = "CLOSED" /\ (topic.close_door = "ready" => resp["closeDoor"] = "ready")
  ELSE topic.chuck = "OPEN" => /\ pos["chuck"] = "OPEN" /\ topic.open_chuck # "not_ready"
                               /\ (topic.open_chuck = "ready" => resp["openChuck"] = "ready")
Seeing(q) == IF q = "load" THEN topic.chuck # "OPEN" ELSE topic.door # "CLOSED"

\* The server has seen the devices, and the answer is under way.
Concludes(q) ==
  /\ Asks(q) /\ Quiet(toClient) /\ Done(q) /\ Seeing(q)
  /\ \/ /\ client = q /\ \E result \in {"succeeded", "aborted"} : server = [p \in Requests |-> IF p = q THEN result ELSE "none"]
        /\ Heard(q, << >>)
     \/ NobodyServes /\ \E v \in {"complete", "failure"} : Heard(q, << <<q, v>> >>)

\* The cycle between a load and the unload.
Cycles ==
  /\ cnc = "cycle_start" /\ Done("load") /\ Seeing("load")
  /\ (\A q \in Requests : req[q] = "not_ready") /\ NobodyServes /\ toCnc = << >> /\ Quiet(toClient)

\* A failed request ends everything.
Over(q) ==
  /\ (cnc = Transfer(q) /\ req[q] = "fail") \/ (cnc = "idle" /\ req[q] = "ready")
  /\ req[Other(q)] = "not_ready" /\ NobodyServes /\ toCnc = << >> /\ Quiet(toClient) /\ Done(q)

\* The machine tool is not operational yet.
Unstarted ==
  /\ cnc = "not_ready" /\ pos = [d \in {"door", "chuck"} |-> "OPEN"] /\ topic.door = "OPEN"
  /\ resp = [r \in Responses |-> "not_ready"] /\ \A q \in Requests : req[q] = "not_ready"
  /\ NobodyServes /\ toCnc = << >> /\ toClient = << >> /\ Looks

\* A device has failed, and so has the machine tool, for good.
Broken ==
  /\ cnc = "fault" /\ \A q \in Requests : req[q] = "not_ready"
  /\ \A r \in Responses : resp[r] \in {"fail", "not_ready"}
  /\ \E r \in Responses : resp[r] = "fail"

Exchanging(q) == ((Asked(q) \/ Served(q)) /\ Unseen(q)) \/ Concludes(q) \/ Over(q)

CellInv == Unstarted \/ Broken \/ Cycles \/ \E q \in Requests : Exchanging(q)

-----------------------------------------------------------------------------
(* Sequences of changes                                                     *)

LEMMA QuietTells ==
  /\ Quiet(<< >>)
  /\ \A q, v : v # "active" => Quiet(<< <<q, v>> >>)
  /\ \A q : Once(<< <<q, "active">> >>, q)
  /\ \A p, q, v : v # "active" => Once(<< <<p, v>>, <<q, "active">> >>, q)
<1>1. Quiet(<< >>)
  BY DEF Quiet
<1>2. ASSUME NEW q, NEW v, v # "active" PROVE Quiet(<< <<q, v>> >>)
  BY <1>2 DEF Quiet
<1>3. ASSUME NEW q PROVE Once(<< <<q, "active">> >>, q)
  BY DEF Once
<1>4. ASSUME NEW p, NEW q, NEW v, v # "active" PROVE Once(<< <<p, v>>, <<q, "active">> >>, q)
  <2> DEFINE s == << <<p, v>>, <<q, "active">> >>
  <2>1. Len(s) = 2 /\ s[1] = <<p, v>> /\ s[2] = <<q, "active">>
    OBVIOUS
  <2> HIDE DEF s
  <2>2. \A k \in 1..Len(s) : k # 2 => s[k][2] # "active"
    BY <1>4, <2>1
  <2>3. Once(s, q)
    BY <2>1, <2>2 DEF Once
  <2> QED BY <2>3 DEF s
<1> QED BY <1>1, <1>2, <1>3, <1>4

LEMMA QuietConcat ==
  ASSUME NEW S, NEW s \in Seq(S), NEW t \in Seq(S), Quiet(s)
  PROVE  /\ Quiet(t) => Quiet(s \o t)
         /\ \A q : Once(t, q) => Once(s \o t, q)
<1> DEFINE u == s \o t
<1>1. /\ Len(s) \in Nat /\ Len(t) \in Nat /\ Len(u) = Len(s) + Len(t)
      /\ \A i \in 1..Len(u) : u[i] = IF i <= Len(s) THEN s[i] ELSE t[i - Len(s)]
  BY LenProperties, ConcatProperties
<1> HIDE DEF u
<1>2. \A i \in 1..Len(u) : i > Len(s) => i - Len(s) \in 1..Len(t) /\ u[i] = t[i - Len(s)]
  BY <1>1
<1>3. \A i \in 1..Len(u) : i <= Len(s) => i \in 1..Len(s) /\ u[i] = s[i]
  BY <1>1
<1>4. ASSUME Quiet(t) PROVE Quiet(u)
  BY <1>2, <1>3, <1>4, <1>1 DEF Quiet
<1>5. ASSUME NEW q, Once(t, q) PROVE Once(u, q)
  <2>1. PICK n \in 1..Len(t) : t[n] = <<q, "active">> /\ \A k \in 1..Len(t) : k # n => t[k][2] # "active"
    BY <1>5 DEF Once
  <2>2. Len(s) + n \in 1..Len(u) /\ u[Len(s) + n] = <<q, "active">>
    <3>1. Len(s) + n \in 1..Len(u) /\ ~(Len(s) + n <= Len(s)) /\ (Len(s) + n) - Len(s) = n
      BY <1>1
    <3> QED BY <1>1, <2>1, <3>1
  <2>3. ASSUME NEW k \in 1..Len(u), k # Len(s) + n PROVE u[k][2] # "active"
    <3>1. CASE k <= Len(s)
      BY <1>3, <3>1 DEF Quiet
    <3>2. CASE k > Len(s)
      <4>1. k - Len(s) # n
        BY <1>1, <2>3
      <4> QED BY <1>2, <2>1, <3>2, <4>1
    <3> QED BY <1>1, <3>1, <3>2
  <2> QED BY <2>2, <2>3 DEF Once
<1> QED BY <1>4, <1>5 DEF u

\* A sequence is read in two parts.
LEMMA QuietSplit ==
  ASSUME NEW S, NEW s \in Seq(S), NEW n \in 1..Len(s)
  PROVE  LET front == SubSeq(s, 1, n)
             rest  == SubSeq(s, n + 1, Len(s))
         IN  /\ front \in Seq(S) /\ rest \in Seq(S)
             /\ Quiet(s) => Quiet(front) /\ Quiet(rest)
             /\ \A q : Once(s, q) => (Once(front, q) /\ Quiet(rest)) \/ (Quiet(front) /\ Once(rest, q))
<1> DEFINE front == SubSeq(s, 1, n)
           rest  == SubSeq(s, n + 1, Len(s))
<1>1. Len(s) \in Nat /\ \A i \in 1..Len(s) : s[i] \in S
  BY LenProperties, ElementOfSeq
<1>2. front \in Seq(S) /\ Len(front) = n /\ \A i \in 1..n : front[i] = s[i]
  BY <1>1, SubSeqProperties
<1>3. rest \in Seq(S) /\ Len(rest) = Len(s) - n /\ \A i \in 1..Len(s) - n : rest[i] = s[n + i]
  <2>1. \A i \in n + 1..Len(s) : s[i] \in S
    BY <1>1
  <2>2. n + 1 \in Int /\ Len(s) \in Int
    BY <1>1
  <2>3. /\ rest \in Seq(S) /\ Len(rest) = IF n + 1 <= Len(s) THEN Len(s) - (n + 1) + 1 ELSE 0
        /\ \A i \in 1..Len(s) - (n + 1) + 1 : rest[i] = s[n + 1 + i - 1]
    BY <2>1, <2>2, SubSeqProperties
  <2> HIDE DEF rest
  <2> QED BY <1>1, <2>3
<1> HIDE DEF front, rest
<1>4. ASSUME Quiet(s) PROVE Quiet(front) /\ Quiet(rest)
  <2>1. n <= Len(s) /\ n \in Nat
    BY <1>1
  <2>2. \A i \in 1..Len(front) : i \in 1..Len(s) /\ front[i] = s[i]
    BY <1>1, <1>2, <2>1
  <2>3. \A i \in 1..Len(rest) : n + i \in 1..Len(s) /\ rest[i] = s[n + i]
    BY <1>1, <1>3, <2>1
  <2> QED BY <1>4, <2>2, <2>3 DEF Quiet
<1>5. ASSUME NEW q, Once(s, q)
      PROVE  (Once(front, q) /\ Quiet(rest)) \/ (Quiet(front) /\ Once(rest, q))
  <2>1. PICK m \in 1..Len(s) : s[m] = <<q, "active">> /\ \A k \in 1..Len(s) : k # m => s[k][2] # "active"
    BY <1>5 DEF Once
  <2>2. CASE m <= n
    <3>1. Once(front, q)
      BY <1>1, <1>2, <2>1, <2>2 DEF Once
    <3>2. Quiet(rest)
      BY <1>1, <1>3, <2>1, <2>2 DEF Quiet
    <3> QED BY <3>1, <3>2
  <2>3. CASE m > n
    <3>1. Quiet(front)
      BY <1>1, <1>2, <2>1, <2>3 DEF Quiet
    <3>2. m - n \in 1..Len(rest) /\ rest[m - n] = <<q, "active">>
      BY <1>1, <1>3, <2>1, <2>3
    <3>3. \A k \in 1..Len(rest) : k # m - n => rest[k][2] # "active"
      BY <1>1, <1>3, <2>1, <2>3
    <3> QED BY <3>1, <3>2, <3>3 DEF Once
  <2> QED BY <1>1, <2>2, <2>3
<1> QED BY <1>2, <1>3, <1>4, <1>5 DEF front, rest

\* The head of a sequence is what it tells, or the tail still tells it.
LEMMA QuietTail ==
  ASSUME NEW S, NEW s \in Seq(S), s # << >>
  PROVE  /\ Quiet(s) => Head(s)[2] # "active" /\ Quiet(Tail(s))
         /\ \A q : Once(s, q) => IF Head(s)[2] = "active" THEN Head(s) = <<q, "active">> /\ Quiet(Tail(s))
                                                         ELSE Once(Tail(s), q)
<1>1. /\ Len(s) \in Nat /\ Len(s) # 0 /\ Len(Tail(s)) = Len(s) - 1
      /\ \A i \in 1..Len(Tail(s)) : Tail(s)[i] = s[i + 1]
  BY LenProperties, HeadTailProperties, EmptySeq
<1>2. Head(s) = s[1]
  BY <1>1
<1> DEFINE t == Tail(s)
<1> HIDE DEF t
<1>3. 1 \in 1..Len(s) /\ Len(t) = Len(s) - 1 /\ \A i \in 1..Len(t) : t[i] = s[i + 1]
  BY <1>1 DEF t
<1>4. ASSUME Quiet(s) PROVE Head(s)[2] # "active" /\ Quiet(t)
  BY <1>1, <1>2, <1>3, <1>4 DEF Quiet
<1>5. ASSUME NEW q, Once(s, q)
      PROVE  IF Head(s)[2] = "active" THEN Head(s) = <<q, "active">> /\ Quiet(t) ELSE Once(t, q)
  <2>1. PICK m \in 1..Len(s) : s[m] = <<q, "active">> /\ \A k \in 1..Len(s) : k # m => s[k][2] # "active"
    BY <1>5 DEF Once
  <2>2. CASE m = 1
    <3>1. Quiet(t)
      BY <1>1, <1>3, <2>1, <2>2 DEF Quiet
    <3> QED BY <1>2, <2>1, <2>2, <3>1
  <2>3. CASE m # 1
    <3>1. Head(s)[2] # "active"
      BY <1>2, <1>3, <2>1, <2>3
    <3>2. m - 1 \in 1..Len(t) /\ t[m - 1] = <<q, "active">>
      BY <1>1, <1>3, <2>1, <2>3
    <3>3. \A k \in 1..Len(t) : k # m - 1 => t[k][2] # "active"
      BY <1>1, <1>3, <2>1, <2>3
    <3> QED BY <3>1, <3>2, <3>3 DEF Once
  <2> QED BY <2>2, <2>3
<1> QED BY <1>4, <1>5 DEF t

-----------------------------------------------------------------------------
(* Types                                                                    *)

Changes == Requests \X RequestStates
Entries == Requests \X (RequestStates \cup {"complete"})

LEMMA TablesTyped ==
  /\ \A s \in RequestStates, v \in PeerValues : RequestNext(s, v) \in RequestStates
  /\ \A s \in RequestStates : RequestDefault[s] \in RequestStates
  /\ \A r \in Responses : Device[r] \in {"door", "chuck"} /\ Dest[r] \in {"OPEN", "CLOSED"}
<1>1. ASSUME NEW s \in RequestStates, NEW v \in PeerValues PROVE RequestNext(s, v) \in RequestStates
  <2>1. CASE s = "not_ready"
    BY <2>1 DEF RequestStates, PeerValues, RequestNext, RequestEvents, RequestDefault
  <2>2. CASE s = "ready"
    BY <2>2 DEF RequestStates, PeerValues, RequestNext, RequestEvents, RequestDefault
  <2>3. CASE s = "active"
    BY <2>3 DEF RequestStates, PeerValues, RequestNext, RequestEvents, RequestDefault
  <2>4. CASE s = "processing"
    BY <2>4 DEF RequestStates, PeerValues, RequestNext, RequestEvents, RequestDefault
  <2>5. CASE s = "fail"
    <3>1. DOMAIN RequestEvents["fail"] = {}
      BY DEF RequestEvents
    <3> QED BY <2>5, <3>1 DEF RequestStates, RequestNext, RequestDefault
  <2> QED BY <2>1, <2>2, <2>3, <2>4, <2>5 DEF RequestStates
<1>2. \A s \in RequestStates : RequestDefault[s] \in RequestStates
  BY DEF RequestStates, RequestDefault
<1>3. \A r \in Responses : Device[r] \in {"door", "chuck"} /\ Dest[r] \in {"OPEN", "CLOSED"}
  BY DEF Responses, Device, Dest
<1> QED BY <1>1, <1>2, <1>3

\* The elements of a finite set, in some order.
LEMMA SetToSeqTyped ==
  ASSUME NEW S, NEW T, IsFiniteSet(S), S \subseteq T
  PROVE  SetToSeq(S) \in Seq(T)
<1>1. Cardinality(S) \in Nat /\ ExistsBijection(1..Cardinality(S), S)
  BY FS_CardinalityType
<1>2. \E f \in [1..Cardinality(S) -> S] : IsInjective(f)
  BY <1>1 DEF ExistsBijection, Bijection, Injection
<1>3. SetToSeq(S) \in [1..Cardinality(S) -> S]
  BY <1>2, Zenon DEF SetToSeq
<1>4. SetToSeq(S) \in Seq(S)
  BY <1>1, <1>3
<1> QED BY <1>4, SeqMonotonic

LEMMA WithdrawnTyped ==
  ASSUME NEW P, P \subseteq Requests
  PROVE  SetToSeq({<<q, "not_ready">> : q \in P}) \in Seq(Changes)
<1> DEFINE S == {<<q, "not_ready">> : q \in P}
<1>1. S \subseteq Changes
  BY DEF Changes, RequestStates
<1>2. S \subseteq {<<"load", "not_ready">>} \cup {<<"unload", "not_ready">>}
  BY DEF Requests
<1>3. IsFiniteSet({<<"load", "not_ready">>} \cup {<<"unload", "not_ready">>})
  BY FS_Singleton, FS_Union
<1>4. IsFiniteSet(S)
  BY <1>2, <1>3, FS_Subset
<1> HIDE DEF S
<1>5. SetToSeq(S) \in Seq(Changes)
  BY <1>1, <1>4, SetToSeqTyped
<1> QED BY <1>5 DEF S

LEMMA TellTyped ==
  ASSUME TypeOK, NEW s \in Seq(Changes), Tell(s)
  PROVE  stream' \in [Agents -> Seq(Entries)] /\ toClient' \in Seq(Changes)
<1>1. stream \in [Agents -> Seq(Entries)] /\ toClient \in Seq(Changes)
  BY DEF TypeOK, Entries, Changes
<1>2. s \in Seq(Entries)
  BY SeqMonotonic DEF Entries, Changes
<1>3. stream["cnc"] \o s \in Seq(Entries) /\ toClient \o s \in Seq(Changes)
  BY <1>1, <1>2, ConcatProperties DEF Agents
<1>4. stream' = [stream EXCEPT !["cnc"] = stream["cnc"] \o s] /\ toClient' = toClient \o s
  BY DEF Tell
<1> QED BY <1>1, <1>3, <1>4

LEMMA PublishTyped ==
  ASSUME TypeOK, NEW q \in Requests, NEW v \in {"active", "complete", "failure"}, Publish(q, v)
  PROVE  stream' \in [Agents -> Seq(Entries)] /\ toCnc' \in Seq(Requests \X PeerValues)
<1>1. stream \in [Agents -> Seq(Entries)] /\ toCnc \in Seq(Requests \X PeerValues)
  BY DEF TypeOK, Entries
<1>2. <<q, v>> \in Requests \X PeerValues
  BY DEF PeerValues
<1> DEFINE w == IF v = "failure" THEN "fail" ELSE v
<1>3. PICK e \in Entries : e = <<q, w>>
  <2>1. w \in RequestStates \cup {"complete"}
    BY DEF RequestStates
  <2> HIDE DEF w
  <2> QED BY <2>1 DEF Entries
<1>4. stream["robot"] \in Seq(Entries)
  BY <1>1 DEF Agents
<1>5. Append(stream["robot"], e) \in Seq(Entries) /\ Append(toCnc, <<q, v>>) \in Seq(Requests \X PeerValues)
  BY <1>1, <1>2, <1>4, AppendProperties
<1>6. stream' = [stream EXCEPT !["robot"] = Append(stream["robot"], e)] /\ toCnc' = Append(toCnc, <<q, v>>)
  BY <1>3 DEF Publish
<1> QED BY <1>1, <1>5, <1>6

SimTypes == [at : SimPlaces, sent : BOOLEAN, sequence : Requests \cup {"none"}, state : [Agents -> BOOLEAN]]

LEMMA SeenTyped ==
  ASSUME TypeOK, NEW a \in Agents
  PROVE  /\ Seen(a) \in SimTypes
         /\ queue[a] # << >> => Head(queue[a]) \in Seq(Entries) /\ Tail(queue[a]) \in Seq(Seq(Entries))
<1>1. sim \in SimTypes /\ queue[a] \in Seq(Seq(Entries))
  BY DEF TypeOK, SimTypes, Entries
<1>2. Seen(a) \in SimTypes
  <2>1. CASE Found(a) = {}
    BY <1>1, <2>1 DEF Seen
  <2>2. CASE Found(a) # {}
    <3> DEFINE n == IF sim.sequence # "none" THEN sim.sequence ELSE IF "load" \in Found(a) THEN "load" ELSE "unload"
    <3>1. n \in Requests \cup {"none"}
      BY <1>1 DEF SimTypes, Requests
    <3>2. PICK f \in [Agents -> BOOLEAN] : f = [sim.state EXCEPT ![a] = TRUE]
      BY <1>1 DEF SimTypes
    <3>3. Seen(a) = [sim EXCEPT !.state = f, !.sequence = n]
      BY <2>2, <3>2 DEF Seen
    <3> HIDE DEF n
    <3> QED BY <1>1, <3>1, <3>3 DEF SimTypes
  <2> QED BY <2>1, <2>2
<1> QED BY <1>1, <1>2, HeadTailProperties

LEMMA PollTyped ==
  ASSUME TypeOK, NEW a \in Agents, Poll(a)
  PROVE  queue' \in [Agents -> Seq(Seq(Entries))] /\ capture' \in [Agents -> BOOLEAN]
<1>1. queue \in [Agents -> Seq(Seq(Entries))] /\ capture \in [Agents -> BOOLEAN]
  BY DEF TypeOK, Entries
<1>2. CASE queue[a] = << >>
  BY <1>1, <1>2 DEF Poll
<1>3. CASE queue[a] # << >>
  BY <1>1, <1>3, SeenTyped DEF Poll
<1> QED BY <1>2, <1>3

LEMMA XmlCallbackTyped ==
  ASSUME TypeOK, NEW a \in Agents, XmlCallback(a)
  PROVE  stream' \in [Agents -> Seq(Entries)] /\ queue' \in [Agents -> Seq(Seq(Entries))]
<1>1. stream \in [Agents -> Seq(Entries)] /\ queue \in [Agents -> Seq(Seq(Entries))]
  BY DEF TypeOK, Entries
<1>2. PICK n \in 1..Len(stream[a]) :
         /\ stream' = [stream EXCEPT ![a] = SubSeq(@, n + 1, Len(@))]
         /\ queue' = IF capture[a] THEN [queue EXCEPT ![a] = Append(@, SubSeq(stream[a], 1, n))] ELSE queue
  BY DEF XmlCallback
<1>3. SubSeq(stream[a], 1, n) \in Seq(Entries) /\ SubSeq(stream[a], n + 1, Len(stream[a])) \in Seq(Entries)
  BY <1>1, QuietSplit
<1>4. Append(queue[a], SubSeq(stream[a], 1, n)) \in Seq(Seq(Entries))
  BY <1>1, <1>3, AppendProperties
<1> QED BY <1>1, <1>2, <1>3, <1>4

\* What the machine tool does keeps the types.
LEMMA ToolTyped ==
  ASSUME Inputs, TypeOK,
         Talker \/ CncHears \/ CycleDone \/ RequestOver \/ (\E r \in Responses : Send(r) \/ DeviceMoves(r) \/ Acknowledge(r))
  PROVE  TypeOK'
<1> USE DEF TypeOK, tool, bridge, simulation
<1>1. \A q \in Requests, v \in RequestStates : << <<q, v>> >> \in Seq(Changes)
  BY DEF Changes
<1>2. /\ "load" \in Requests /\ "unload" \in Requests
      /\ {"active", "ready", "fail", "not_ready"} \subseteq RequestStates
      /\ {"active", "ready", "complete", "fail", "not_ready"} \subseteq ResponseStates
  BY DEF Requests, RequestStates, ResponseStates
<1>3. CASE Talker
  <2>1. stream' \in [Agents -> Seq(Entries)] /\ toClient' \in Seq(Changes)
    BY <1>1, <1>2, <1>3, TellTyped DEF Talker
  <2> QED BY <1>2, <1>3, <2>1 DEF Talker, Ask, Transfer, Entries, Changes
<1>4. CASE CncHears
  <2> DEFINE q == Head(toCnc)[1]
             v == Head(toCnc)[2]
             n == RequestNext(req[q], v)
  <2>1. q \in Requests /\ v \in PeerValues /\ Tail(toCnc) \in Seq(Requests \X PeerValues)
    <3>1. Head(toCnc) \in Requests \X PeerValues /\ Tail(toCnc) \in Seq(Requests \X PeerValues)
      BY <1>4, HeadTailProperties DEF CncHears
    <3> QED BY <3>1
  <2>2. n \in RequestStates /\ toCnc' = Tail(toCnc)
    BY <1>4, <2>1, TablesTyped DEF CncHears
  <2> HIDE DEF TypeOK
  <2>3. \/ Tell(<< <<q, n>>, <<"load", "active">> >>) /\ cnc' = "loading"
           /\ req' = [req EXCEPT ![q] = n, !["load"] = "active"]
        \/ Tell(<< <<q, n>> >>) /\ cnc' \in {"cycle_start", "fault"} /\ req' = [req EXCEPT ![q] = n]
        \/ Tell(IF n = "processing" THEN << >> ELSE << <<q, n>> >>) /\ cnc' = cnc /\ req' = [req EXCEPT ![q] = n]
        \/ UNCHANGED <<cnc, req, stream, toClient>>
    BY <1>4 DEF CncHears
  <2>4. << <<q, n>>, <<"load", "active">> >> \in Seq(Changes) /\ << <<q, n>> >> \in Seq(Changes) /\ << >> \in Seq(Changes)
    <3>1. <<q, n>> \in Changes /\ <<"load", "active">> \in Changes
      BY <2>1, <2>2, <1>2 DEF Changes
    <3> HIDE DEF q, v, n
    <3> QED BY <3>1
  <2>5. cnc \in {"not_ready", "loading", "cycle_start", "unloading", "idle", "fault"} /\ req \in [Requests -> RequestStates]
        /\ stream \in [Agents -> Seq(Entries)] /\ toClient \in Seq(Changes)
    BY DEF TypeOK, Entries, Changes
  <2> HIDE DEF q, v, n
  <2>6. /\ stream' \in [Agents -> Seq(Entries)] /\ toClient' \in Seq(Changes)
        /\ cnc' \in {"not_ready", "loading", "cycle_start", "unloading", "idle", "fault"}
        /\ req' \in [Requests -> RequestStates]
    BY <1>2, <2>1, <2>2, <2>3, <2>4, <2>5, TellTyped
  <2> QED BY <1>4, <2>1, <2>2, <2>6 DEF CncHears, TypeOK, Entries, Changes
<1>5. CASE CycleDone
  <2>1. stream' \in [Agents -> Seq(Entries)] /\ toClient' \in Seq(Changes)
    BY <1>1, <1>2, <1>5, TellTyped DEF CycleDone
  <2> QED BY <1>2, <1>5, <2>1 DEF CycleDone, Ask, Transfer, Entries, Changes
<1>6. CASE RequestOver
  <2>1. PICK q \in Requests : /\ req' = [req EXCEPT ![q] = RequestDefault["fail"]] /\ Tell(<< <<q, "ready">> >>)
                              /\ RequestDefault["fail"] \in RequestStates
    BY <1>2, <1>6, TablesTyped DEF RequestOver
  <2>2. stream' \in [Agents -> Seq(Entries)] /\ toClient' \in Seq(Changes)
    BY <1>1, <1>2, <2>1, TellTyped
  <2> QED BY <1>2, <1>6, <2>1, <2>2 DEF RequestOver, Entries, Changes
<1>7. ASSUME NEW r \in Responses, DeviceMoves(r) PROVE TypeOK'
  <2>1. CASE resp' = [resp EXCEPT ![r] = "complete"] /\ pos' = [pos EXCEPT ![Device[r]] = Dest[r]]
             /\ UNCHANGED <<cnc, req, stream, toClient>>
    BY <1>2, <1>7, <2>1, TablesTyped DEF DeviceMoves
  <2>2. CASE /\ resp' = [s \in Responses |-> IF s = r THEN "fail" ELSE "not_ready"]
             /\ cnc' = "fault"
             /\ req' = [q \in Requests |-> "not_ready"]
             /\ Tell(SetToSeq({<<q, "not_ready">> : q \in {p \in Requests : req[p] # "not_ready"}}))
             /\ UNCHANGED pos
    <3>1. {p \in Requests : req[p] # "not_ready"} \subseteq Requests
      OBVIOUS
    <3>2. PICK s \in Seq(Changes) : Tell(s)
      BY <2>2, <3>1, WithdrawnTyped
    <3>3. stream' \in [Agents -> Seq(Entries)] /\ toClient' \in Seq(Changes)
      BY <3>2, TellTyped
    <3> QED BY <1>2, <1>7, <2>2, <3>3 DEF DeviceMoves, Entries, Changes
  <2> QED BY <1>7, <2>1, <2>2 DEF DeviceMoves
<1>8. ASSUME NEW r \in Responses, Send(r) PROVE TypeOK'
  <2>1. /\ resp' \in [Responses -> ResponseStates] /\ pos' \in [{"door", "chuck"} -> {"OPEN", "CLOSED", "UNLATCHED"}]
    <3>1. resp[r] = "ready" => /\ resp' = [resp EXCEPT ![r] = "complete"] \/ resp' = [resp EXCEPT ![r] = "active"]
                               /\ pos' = pos \/ pos' = [pos EXCEPT ![Device[r]] = "UNLATCHED"]
      BY <1>8 DEF Send
    <3>2. resp[r] # "ready" => resp' = resp /\ pos' = pos
      BY <1>8 DEF Send
    <3>3. resp \in [Responses -> ResponseStates] /\ pos \in [{"door", "chuck"} -> {"OPEN", "CLOSED", "UNLATCHED"}]
      OBVIOUS
    <3> HIDE DEF TypeOK
    <3>4. resp' \in [Responses -> ResponseStates]
      BY <1>2, <3>1, <3>2, <3>3
    <3>5. pos' \in [{"door", "chuck"} -> {"OPEN", "CLOSED", "UNLATCHED"}]
      BY <3>1, <3>2, <3>3
    <3> QED BY <3>4, <3>5
  <2>2. sim' \in SimTypes
    BY <1>8 DEF Send, SimTypes
  <2> QED BY <1>8, <2>1, <2>2 DEF Send, SimTypes
<1>9. ASSUME NEW r \in Responses, Acknowledge(r) PROVE TypeOK'
  BY <1>2, <1>9 DEF Acknowledge
<1> QED BY <1>3, <1>4, <1>5, <1>6, <1>7, <1>8, <1>9

\* So does what the bridge and its servers do ...
LEMMA BridgeTyped ==
  ASSUME Inputs, TypeOK,
         \/ ClientTakes \/ ClientAnswers \/ PublishTopic \/ LoadServer \/ UnloadServer
         \/ \E q \in Requests : ServerTimesOut(q)
  PROVE  TypeOK'
<1>1. CASE ClientTakes
  <2>1. Head(toClient) \in Changes /\ Tail(toClient) \in Seq(Changes)
    BY <1>1, HeadTailProperties DEF ClientTakes, TypeOK, Changes
  <2>2. PICK q \in Requests : q = Head(toClient)[1]
    BY <2>1 DEF Changes
  <2>3. CASE Head(toClient)[2] = "active"
    <3>1. stream' \in [Agents -> Seq(Entries)] /\ toCnc' \in Seq(Requests \X PeerValues)
      BY <1>1, <2>2, <2>3, PublishTyped DEF ClientTakes
    <3> QED BY <1>1, <2>1, <2>2, <2>3, <3>1 DEF ClientTakes, TypeOK, tool, simulation, Changes, Entries
  <2>4. CASE Head(toClient)[2] # "active"
    BY <1>1, <2>1, <2>4 DEF ClientTakes, TypeOK, tool, simulation, Changes
  <2> QED BY <2>3, <2>4
<1>2. CASE ClientAnswers
  <2>1. client \in Requests
    BY <1>2 DEF ClientAnswers, TypeOK
  <2>2. stream' \in [Agents -> Seq(Entries)] /\ toCnc' \in Seq(Requests \X PeerValues)
    BY <1>2, <2>1, PublishTyped DEF ClientAnswers
  <2> QED BY <1>2, <2>1, <2>2 DEF ClientAnswers, TypeOK, tool, simulation, Entries
<1>3. CASE PublishTopic
  <2>1. Published \in [door : {"OPEN", "CLOSED", "UNLATCHED"}, chuck : {"OPEN", "CLOSED", "UNLATCHED"},
                       close_door : ResponseStates, open_chuck : ResponseStates]
    BY DEF Published, TypeOK, Responses
  <2> QED BY <1>3, <2>1 DEF PublishTopic, TypeOK, tool, simulation
<1>4. CASE LoadServer
  <2>1. counter + 1 \in 1..LastCycle + 1
    BY <1>4 DEF LoadServer, TypeOK, Inputs
  <2> QED BY <1>4, <2>1 DEF LoadServer, TypeOK, tool, simulation
<1>5. CASE UnloadServer
  BY <1>5 DEF UnloadServer, TypeOK, tool, simulation
<1>6. ASSUME NEW q \in Requests, ServerTimesOut(q) PROVE TypeOK'
  BY <1>6 DEF ServerTimesOut, TypeOK, tool, simulation
<1> QED BY <1>1, <1>2, <1>3, <1>4, <1>5, <1>6

\* ... and the simulation.
LEMMA SimulationTyped ==
  ASSUME TypeOK, Connect \/ (\E a \in Agents : XmlCallback(a)) \/ PollCnc \/ PollRobot \/ SecondDevice \/ SequenceDone
  PROVE  TypeOK'
<1>1. CASE Connect
  <2>1. stream' \in [Agents -> Seq(Entries)]
    BY <1>1 DEF Connect
  <2>2. sim' \in SimTypes
    BY <1>1 DEF Connect, TypeOK, SimTypes, SimPlaces
  <2> QED BY <1>1, <2>1, <2>2 DEF Connect, TypeOK, SimTypes, Entries, tool, bridge
<1>2. ASSUME NEW a \in Agents, XmlCallback(a) PROVE TypeOK'
  <2>1. UNCHANGED <<tool, toClient, toCnc, bridge, capture, sim>>
    BY <1>2 DEF XmlCallback
  <2> QED BY <1>2, <2>1, XmlCallbackTyped DEF TypeOK, tool, bridge, Entries
<1>3. CASE PollCnc
  <2>1. "cnc" \in Agents /\ Seen("cnc") \in SimTypes
    BY SeenTyped DEF Agents
  <2>2. sim' \in SimTypes
    BY <1>3, <2>1 DEF PollCnc, SimTypes, SimPlaces
  <2>3. Poll("cnc")
    BY <1>3 DEF PollCnc
  <2>4. UNCHANGED <<tool, stream, toClient, toCnc, bridge>>
    BY <2>3 DEF Poll
  <2> QED BY <2>1, <2>2, <2>3, <2>4, PollTyped DEF TypeOK, SimTypes, tool, bridge, Entries
<1>4. CASE PollRobot
  <2>1. "robot" \in Agents /\ Seen("robot") \in SimTypes
    BY SeenTyped DEF Agents
  <2>2. \E x \in SimPlaces : sim' = [Seen("robot") EXCEPT !.at = x]
    BY <1>4 DEF PollRobot, SimPlaces, Responses
  <2>3. sim' \in SimTypes
    BY <2>1, <2>2 DEF SimTypes
  <2>4. Poll("robot")
    BY <1>4 DEF PollRobot
  <2>5. UNCHANGED <<tool, stream, toClient, toCnc, bridge>>
    BY <2>4 DEF Poll
  <2> QED BY <2>1, <2>3, <2>4, <2>5, PollTyped DEF TypeOK, SimTypes, tool, bridge, Entries
<1>5. CASE SecondDevice
  BY <1>5 DEF SecondDevice, TypeOK, SimPlaces, Responses, tool, bridge
<1>6. CASE SequenceDone
  <2>1. Idle \in SimTypes
    BY DEF Idle, SimTypes, SimPlaces
  <2> QED BY <1>6, <2>1 DEF SequenceDone, TypeOK, SimTypes, tool, bridge
<1> QED BY <1>1, <1>2, <1>3, <1>4, <1>5, <1>6

LEMMA InitTyped == Inputs /\ Init => TypeOK
<1> SUFFICES ASSUME Inputs, Init PROVE TypeOK
  OBVIOUS
<1>1. Idle \in SimTypes
  BY DEF Idle, SimTypes, SimPlaces
<1>2. sim \in SimTypes
  BY <1>1 DEF Init, SimTypes, SimPlaces
<1>3. topic = [door |-> "OPEN", chuck |-> "OPEN", close_door |-> "not_ready", open_chuck |-> "not_ready"]
  BY DEF Init, Published, Responses
<1>4. << >> \in Seq(Entries) /\ << >> \in Seq(Seq(Entries)) /\ << >> \in Seq(Requests \X RequestStates)
      /\ << >> \in Seq(Requests \X PeerValues)
  OBVIOUS
<1>5. /\ stream \in [Agents -> Seq(Entries)] /\ queue \in [Agents -> Seq(Seq(Entries))]
      /\ toClient \in Seq(Requests \X RequestStates) /\ toCnc \in Seq(Requests \X PeerValues)
      /\ capture \in [Agents -> BOOLEAN]
  BY <1>4 DEF Init
<1>6. /\ req \in [Requests -> RequestStates] /\ resp \in [Responses -> ResponseStates]
      /\ pos \in [{"door", "chuck"} -> {"OPEN", "CLOSED", "UNLATCHED"}]
      /\ server \in [Requests -> {"none", "execute", "succeeded", "aborted", "lost"}]
  BY DEF Init, RequestStates, ResponseStates
<1>7. counter \in 1..LastCycle + 1
  BY DEF Init, Inputs
<1> QED BY <1>2, <1>3, <1>5, <1>6, <1>7 DEF Init, TypeOK, SimTypes, Entries, ResponseStates

\* Every variable keeps its type: what the programs tell each other are changes of requests,
\* whatever devices fail.
THEOREM CellTyped == Spec => []TypeOK
<1>1. TypeOK /\ [Next]_vars => TypeOK'
  <2> SUFFICES ASSUME TypeOK, [Next]_vars PROVE TypeOK'
    OBVIOUS
  <2>1. CASE Next
    BY <2>1, Inputs, ToolTyped, BridgeTyped, SimulationTyped DEF Next
  <2>2. CASE UNCHANGED vars
    BY <2>2 DEF vars, TypeOK
  <2> QED BY <2>1, <2>2
<1> QED BY <1>1, InitTyped, Inputs, PTL DEF Spec

-----------------------------------------------------------------------------
(* What the simulation may still read                                       *)

LEMMA NewsStays ==
  ASSUME NEW a, stream'[a] = stream[a], queue'[a] = queue[a]
  PROVE  (NoNews(a) => NoNews(a)') /\ \A q : News(a, q) => News(a, q)'
BY DEF News, NoNews

\* A chunk is part of what is on its way, or is thrown away.
LEMMA NewsArrives ==
  ASSUME TypeOK, NEW a \in Agents, XmlCallback(a)
  PROVE  \A b \in Agents : (NoNews(b) => NoNews(b)') /\ \A q : News(b, q) => News(b, q)'
<1>1. stream \in [Agents -> Seq(Entries)] /\ queue \in [Agents -> Seq(Seq(Entries))]
  BY DEF TypeOK, Entries
<1>2. PICK n \in 1..Len(stream[a]) :
         /\ stream' = [stream EXCEPT ![a] = SubSeq(@, n + 1, Len(@))]
         /\ queue' = IF capture[a] THEN [queue EXCEPT ![a] = Append(@, SubSeq(stream[a], 1, n))] ELSE queue
  BY DEF XmlCallback
<1>3. PICK front \in Seq(Entries), rest \in Seq(Entries) :
        /\ front = SubSeq(stream[a], 1, n) /\ rest = SubSeq(stream[a], n + 1, Len(stream[a]))
        /\ Quiet(stream[a]) => Quiet(front) /\ Quiet(rest)
        /\ \A q : Once(stream[a], q) => (Once(front, q) /\ Quiet(rest)) \/ (Quiet(front) /\ Once(rest, q))
  BY <1>1, QuietSplit
<1> DEFINE s == queue[a]
<1>4. s \in Seq(Seq(Entries)) /\ Len(s) \in Nat /\ stream'[a] = rest
  BY <1>1, <1>2, <1>3, LenProperties
<1>5. CASE ~capture[a]
  <2>1. queue'[a] = s
    BY <1>2, <1>5
  <2>2. NoNews(a) => NoNews(a)'
    BY <1>3, <1>4, <2>1 DEF NoNews
  <2>3. ASSUME NEW q, News(a, q) PROVE News(a, q)'
    <3>1. CASE NoNews(a)
      BY <2>2, <3>1 DEF News
    <3>2. CASE Once(stream[a], q) /\ \A m \in 1..Len(queue[a]) : Quiet(queue[a][m])
      BY <1>3, <1>4, <2>1, <3>2 DEF News, NoNews
    <3>3. CASE /\ Quiet(stream[a])
               /\ \E m \in 1..Len(queue[a]) :
                    Once(queue[a][m], q) /\ \A k \in 1..Len(queue[a]) : k # m => Quiet(queue[a][k])
      <4>1. Quiet(stream'[a])
        BY <1>3, <1>4, <3>3
      <4> QED BY <2>1, <3>3, <4>1, Zenon DEF News
    <3> QED BY <2>3, <3>1, <3>2, <3>3 DEF News
  <2> QED BY <1>2, <1>5, <2>2, <2>3, NewsStays, <1>1
<1>6. CASE capture[a]
  <2>1. queue'[a] = Append(s, front)
    BY <1>1, <1>2, <1>3, <1>6
  <2>2. /\ Len(queue'[a]) = Len(s) + 1 /\ queue'[a][Len(s) + 1] = front
        /\ \A m \in 1..Len(s) : queue'[a][m] = s[m]
    BY <1>3, <1>4, <2>1, AppendProperties
  <2>3. /\ \A m \in 1..Len(queue'[a]) : m # Len(s) + 1 => m \in 1..Len(s) /\ queue'[a][m] = s[m]
        /\ \A m \in 1..Len(s) : m \in 1..Len(queue'[a]) /\ m # Len(s) + 1
        /\ Len(s) + 1 \in 1..Len(queue'[a])
    BY <1>4, <2>2
  <2>4. NoNews(a) => NoNews(a)'
    BY <1>3, <1>4, <2>2, <2>3 DEF NoNews
  <2>5. ASSUME NEW q, News(a, q) PROVE News(a, q)'
    <3>1. CASE NoNews(a)
      BY <2>4, <3>1 DEF News
    <3>2. CASE Once(stream[a], q) /\ \A m \in 1..Len(s) : Quiet(s[m])
      <4>1. CASE Once(front, q) /\ Quiet(rest)
        <5>1. \A k \in 1..Len(queue'[a]) : k # Len(s) + 1 => Quiet(queue'[a][k])
          BY <2>3, <3>2
        <5>2. Once(queue'[a][Len(s) + 1], q) /\ Quiet(stream'[a])
          BY <1>4, <2>2, <4>1
        <5> QED BY <2>3, <5>1, <5>2, Zenon DEF News
      <4>2. CASE Quiet(front) /\ Once(rest, q)
        <5>1. \A k \in 1..Len(queue'[a]) : Quiet(queue'[a][k])
          BY <2>2, <2>3, <3>2, <4>2
        <5> QED BY <1>4, <4>2, <5>1, Zenon DEF News
      <4> QED BY <1>3, <3>2, <4>1, <4>2
    <3>3. CASE /\ Quiet(stream[a])
               /\ \E m \in 1..Len(s) : Once(s[m], q) /\ \A k \in 1..Len(s) : k # m => Quiet(s[k])
      <4>1. PICK m \in 1..Len(s) : Once(s[m], q) /\ \A k \in 1..Len(s) : k # m => Quiet(s[k])
        BY <3>3
      <4>2. m \in 1..Len(queue'[a]) /\ Once(queue'[a][m], q)
        BY <2>2, <2>3, <4>1
      <4>3. \A k \in 1..Len(queue'[a]) : k # m => Quiet(queue'[a][k])
        BY <1>3, <2>2, <2>3, <3>3, <4>1
      <4>4. Quiet(stream'[a])
        BY <1>3, <1>4, <3>3
      <4> QED BY <4>2, <4>3, <4>4, Zenon DEF News
    <3> QED BY <2>5, <3>1, <3>2, <3>3 DEF News
  <2> QED BY <1>1, <1>2, <1>6, <2>4, <2>5, NewsStays
<1> QED BY <1>5, <1>6

\* What is found is all there was.
LEMMA NewsFound ==
  ASSUME TypeOK, NEW a \in Agents, Poll(a)
  PROVE  /\ NoNews(a) => Found(a) = {} /\ NoNews(a)'
         /\ \A q \in Requests : News(a, q) => (Found(a) = {} /\ News(a, q)') \/ (Found(a) = {q} /\ NoNews(a)')
         /\ \A b \in Agents : b # a => (NoNews(b) => NoNews(b)') /\ \A q : News(b, q) => News(b, q)'
<1>1. stream \in [Agents -> Seq(Entries)] /\ queue \in [Agents -> Seq(Seq(Entries))]
  BY DEF TypeOK, Entries
<1>2. stream' = stream /\ queue' = IF queue[a] = << >> THEN queue ELSE [queue EXCEPT ![a] = Tail(@)]
  BY DEF Poll
<1>3. \A b \in Agents : b # a => (NoNews(b) => NoNews(b)') /\ \A q : News(b, q) => News(b, q)'
  BY <1>1, <1>2, NewsStays
<1> DEFINE s == queue[a]
<1>4. CASE s = << >>
  <2>1. Found(a) = {}
    BY <1>4 DEF Found
  <2>2. (NoNews(a) => NoNews(a)') /\ \A q : News(a, q) => News(a, q)'
    BY <1>2, <1>4, NewsStays
  <2> QED BY <1>3, <2>1, <2>2
<1>5. CASE s # << >>
  <2>1. s \in Seq(Seq(Entries)) /\ Len(s) \in Nat /\ Len(s) # 0
    BY <1>1, <1>5, LenProperties, EmptySeq
  <2>2. PICK t \in Seq(Seq(Entries)) : t = Tail(s) /\ Len(t) = Len(s) - 1 /\ \A i \in 1..Len(t) : t[i] = s[i + 1]
    BY <1>5, <2>1, HeadTailProperties
  <2>3. PICK chunk : chunk = Head(s) /\ chunk = s[1] /\ chunk \in Seq(Entries)
    BY <1>5, <2>1, HeadTailProperties
  <2>4. queue'[a] = t /\ stream'[a] = stream[a]
    BY <1>1, <1>2, <1>5, <2>2
  <2>5. /\ 1 \in 1..Len(s) /\ \A i \in 1..Len(t) : i + 1 \in 1..Len(s) /\ i + 1 # 1 /\ t[i] = s[i + 1]
        /\ \A i \in 1..Len(s) : i # 1 => i - 1 \in 1..Len(t) /\ t[i - 1] = s[i]
    BY <2>1, <2>2
  <2>6. Len(chunk) \in Nat /\ DOMAIN chunk = 1..Len(chunk)
    BY <2>3, LenProperties
  <2>7. Found(a) = {q \in Requests : FirstActive(chunk, q)}
    BY <1>5, <2>3 DEF Found
  <2>8. Quiet(chunk) => Found(a) = {}
    BY <2>6, <2>7 DEF Quiet, FirstActive
  <2>9. \A q \in Requests : Once(chunk, q) => Found(a) \in {{}, {q}}
    <3>1. ASSUME NEW q \in Requests, Once(chunk, q), NEW p \in Requests, FirstActive(chunk, p) PROVE p = q
      <4>1. PICK n \in 1..Len(chunk) : chunk[n] = <<p, "active">>
        BY <2>6, <3>1 DEF FirstActive
      <4>2. PICK k \in 1..Len(chunk) : chunk[k] = <<q, "active">> /\ \A i \in 1..Len(chunk) : i # k => chunk[i][2] # "active"
        BY <3>1 DEF Once
      <4>3. n = k
        BY <4>1, <4>2
      <4> QED BY <4>1, <4>2, <4>3
    <3> QED BY <2>7, <3>1
  <2>10. ASSUME NoNews(a) PROVE Found(a) = {} /\ NoNews(a)'
    <3>1. Quiet(chunk)
      BY <2>3, <2>5, <2>10 DEF NoNews
    <3>2. \A i \in 1..Len(t) : Quiet(t[i])
      BY <2>5, <2>10 DEF NoNews
    <3> QED BY <2>4, <2>8, <2>10, <3>1, <3>2 DEF NoNews
  <2>11. ASSUME NEW q \in Requests, News(a, q)
         PROVE  (Found(a) = {} /\ News(a, q)') \/ (Found(a) = {q} /\ NoNews(a)')
    <3>1. CASE NoNews(a)
      BY <2>10, <3>1 DEF News
    <3>2. CASE Once(stream[a], q) /\ \A m \in 1..Len(s) : Quiet(s[m])
      <4>1. Quiet(chunk)
        BY <2>3, <2>5, <3>2
      <4>2. \A i \in 1..Len(t) : Quiet(t[i])
        BY <2>5, <3>2
      <4> QED BY <2>4, <2>8, <3>2, <4>1, <4>2 DEF News
    <3>3. CASE Quiet(stream[a]) /\ \E m \in 1..Len(s) : Once(s[m], q) /\ \A k \in 1..Len(s) : k # m => Quiet(s[k])
      <4>1. PICK m \in 1..Len(s) : Once(s[m], q) /\ \A k \in 1..Len(s) : k # m => Quiet(s[k])
        BY <3>3
      <4>2. CASE m = 1
        <5>1. \A i \in 1..Len(t) : Quiet(t[i])
          BY <2>5, <4>1, <4>2
        <5>2. NoNews(a)'
          BY <2>4, <3>3, <5>1 DEF NoNews
        <5>3. Found(a) \in {{}, {q}}
          BY <2>3, <2>9, <4>1, <4>2
        <5> QED BY <5>2, <5>3 DEF News
      <4>3. CASE m # 1
        <5>1. Quiet(chunk)
          BY <2>3, <2>5, <4>1, <4>3
        <5>2. m - 1 \in 1..Len(t) /\ Once(t[m - 1], q)
          BY <2>5, <4>1, <4>3
        <5>3. \A k \in 1..Len(t) : k # m - 1 => Quiet(t[k])
          <6>1. \A k \in 1..Len(t) : k # m - 1 => k + 1 # m
            BY <2>1, <2>2
          <6> QED BY <2>5, <4>1, <6>1
        <5>4. News(a, q)'
          BY <2>4, <3>3, <5>2, <5>3, Zenon DEF News
        <5> QED BY <2>8, <5>1, <5>4
      <4> QED BY <4>2, <4>3
    <3> QED BY <2>11, <3>1, <3>2, <3>3 DEF News
  <2> QED BY <1>3, <2>10, <2>11
<1> QED BY <1>4, <1>5

\* A change is told behind those an agent's stream still has.
LEMMA NewsTold ==
  ASSUME TypeOK, NEW a \in Agents, NEW s \in Seq(Entries),
         stream' = [stream EXCEPT ![a] = stream[a] \o s], queue' = queue
  PROVE  /\ NoNews(a) /\ Quiet(s) => NoNews(a)'
         /\ \A q : NoNews(a) /\ Once(s, q) => News(a, q)'
         /\ \A b \in Agents : b # a => (NoNews(b) => NoNews(b)') /\ \A q : News(b, q) => News(b, q)'
<1>1. stream \in [Agents -> Seq(Entries)] /\ queue \in [Agents -> Seq(Seq(Entries))]
  BY DEF TypeOK, Entries
<1>2. stream'[a] = stream[a] \o s
  BY <1>1
<1>3. /\ NoNews(a) /\ Quiet(s) => Quiet(stream'[a])
      /\ \A q : NoNews(a) /\ Once(s, q) => Once(stream'[a], q)
  BY <1>1, <1>2, QuietConcat DEF NoNews
<1>4. \A b \in Agents : b # a => (NoNews(b) => NoNews(b)') /\ \A q : News(b, q) => News(b, q)'
  BY <1>1, NewsStays
<1>5. NoNews(a) /\ Quiet(s) => NoNews(a)'
  BY <1>3 DEF NoNews
<1>6. ASSUME NEW q, NoNews(a), Once(s, q) PROVE News(a, q)'
  BY <1>3, <1>6 DEF NoNews, News
<1> QED BY <1>4, <1>5, <1>6

-----------------------------------------------------------------------------
(* Where the exchange is                                                    *)

LEMMA WhereItIs ==
  ASSUME TypeOK, CellInv
  PROVE  /\ cnc = "not_ready" => Unstarted
         /\ cnc = "cycle_start" => Cycles
         /\ cnc = "fault" => Broken
         /\ toCnc # << >> => Broken \/ \E q \in Requests : (Served(q) /\ Unseen(q)) \/ Concludes(q)
         /\ \A q \in Requests : req[q] = "fail" => Over(q) /\ cnc = Transfer(q)
         /\ \A q \in Requests : server[q] # "none" => Broken \/ (Served(q) /\ Unseen(q)) \/ Concludes(q)
<1>1. cnc = "not_ready" => Unstarted
  BY DEF CellInv, Broken, Cycles, Exchanging, Asked, Served, Concludes, Over, Asks, Transfer, Requests
<1>2. cnc = "cycle_start" => Cycles
  BY DEF CellInv, Broken, Unstarted, Exchanging, Asked, Served, Concludes, Over, Asks, Transfer, Requests
<1>3. cnc = "fault" => Broken
  BY DEF CellInv, Cycles, Unstarted, Exchanging, Asked, Served, Concludes, Over, Asks, Transfer, Requests
<1>4. toCnc # << >> => Broken \/ \E q \in Requests : (Served(q) /\ Unseen(q)) \/ Concludes(q)
  BY DEF CellInv, Cycles, Unstarted, Exchanging, Asked, Over
<1>5. ASSUME NEW q \in Requests, req[q] = "fail" PROVE Over(q) /\ cnc = Transfer(q)
  BY <1>5 DEF CellInv, Broken, Cycles, Unstarted, Exchanging, Asked, Served, Concludes, Heard, Over, Asks, Requests, Other
<1>6. ASSUME NEW q \in Requests, server[q] # "none" PROVE Broken \/ (Served(q) /\ Unseen(q)) \/ Concludes(q)
  BY <1>6 DEF CellInv, Cycles, Unstarted, Exchanging, Asked, Served, Concludes, Over, NobodyServes
<1> QED BY <1>1, <1>2, <1>3, <1>4, <1>5, <1>6

\* A response is at work only in the sequence of the exchange.
LEMMA WhereItWorks ==
  ASSUME TypeOK, CellInv, NEW r \in Responses, resp[r] \in {"active", "complete"} \/ (sim.at = r /\ ~sim.sent /\ cnc # "fault")
  PROVE  \E q \in Requests : Served(q) /\ Unseen(q) /\ During(q)
<1>1. CASE Unstarted
  BY <1>1 DEF Unstarted, Looks, Responses
<1>2. CASE Broken
  BY <1>2 DEF Broken
<1>3. \A q \in Requests : ~Done(q)
  BY DEF Done, Rest, Polls, Closing, Requests, Responses
<1>4. \A q \in Requests : ~Before(q)
  BY DEF Before, Rest, Polls, Closing, Other, Requests, Responses
<1>5. CASE Cycles
  BY <1>3, <1>5 DEF Cycles, Requests
<1>6. ASSUME NEW q \in Requests, Exchanging(q) PROVE Served(q) /\ Unseen(q) /\ During(q)
  BY <1>3, <1>4, <1>6 DEF Exchanging, Asked, Served, Concludes, Over
<1> QED BY <1>1, <1>2, <1>5, <1>6 DEF CellInv

LEMMA PhasesStay ==
  ASSUME UNCHANGED <<pos, resp, sim>>,
         \A a \in Agents : (NoNews(a) => NoNews(a)') /\ \A q : News(a, q) => News(a, q)'
  PROVE  /\ \A q : (Before(q) => Before(q)') /\ (Unanswered(q) => Unanswered(q)')
         /\ \A q : (During(q) => During(q)') /\ (Done(q) => Done(q)')
         /\ Looks => Looks'
<1>1. Silent => Silent'
  BY DEF Silent
<1>2. ASSUME NEW q, Before(q) PROVE Before(q)'
  BY <1>2 DEF Before, Rest, Polls
<1>3. ASSUME NEW q, Unanswered(q) PROVE Unanswered(q)'
  BY <1>3 DEF Unanswered, Agents
<1>4. ASSUME NEW q, During(q) PROVE During(q)'
  BY <1>1, <1>4 DEF During, Rest, Works
<1>5. ASSUME NEW q, Done(q) PROVE Done(q)'
  BY <1>1, <1>5 DEF Done, Rest, Polls
<1>6. Looks => Looks'
  BY <1>1 DEF Looks
<1> QED BY <1>2, <1>3, <1>4, <1>5, <1>6

\* What the simulation does by itself.
LEMMA SimulationGoesOn ==
  ASSUME CellInv, UNCHANGED <<tool, toClient, toCnc, bridge>>,
         \A q \in Requests : Before(q) => Before(q)' \/ During(q)',
         \A q \in Requests : Before(q) /\ Unanswered(q) => Before(q)' /\ Unanswered(q)',
         \A q \in Requests : During(q) => During(q)' \/ Done(q)',
         \A q \in Requests : Done(q) => Done(q)',
         Unstarted /\ Looks => Looks'
  PROVE  CellInv'
<1> USE DEF tool, bridge
<1>1. CASE Unstarted
  BY <1>1 DEF CellInv, Unstarted, NobodyServes
<1>2. CASE Broken
  BY <1>2 DEF CellInv, Broken
<1>3. CASE Cycles
  <2>1. Done("load")'
    BY <1>3 DEF Cycles, Requests
  <2> QED BY <1>3, <2>1 DEF CellInv, Cycles, NobodyServes, Seeing
<1>4. ASSUME NEW q \in Requests, Exchanging(q) PROVE Exchanging(q)'
  <2>1. Unseen(q) => Unseen(q)'
    BY DEF Unseen
  <2>2. Asked(q) => Asked(q)'
    BY DEF Asked, Asks, NobodyServes
  <2>3. Served(q) => Served(q)'
    BY DEF Served, Asks, Heard
  <2>4. Concludes(q) => Concludes(q)'
    BY DEF Concludes, Asks, Heard, NobodyServes, Seeing
  <2>5. Over(q) => Over(q)'
    BY DEF Over, NobodyServes
  <2> QED BY <1>4, <2>1, <2>2, <2>3, <2>4, <2>5 DEF Exchanging
<1> QED BY <1>1, <1>2, <1>3, <1>4 DEF CellInv

-----------------------------------------------------------------------------
(* The simulation                                                           *)

LEMMA SeenIs ==
  ASSUME TypeOK, NEW a \in Agents, Poll(a)
  PROVE  /\ NoNews(a) => Seen(a) = sim
         /\ \A q \in Requests : News(a, q) /\ sim.sequence \in {"none", q} =>
              \/ Seen(a) = sim /\ News(a, q)'
              \/ /\ NoNews(a)' /\ Seen(a).at = sim.at /\ Seen(a).sent = sim.sent
                 /\ Seen(a).sequence = q /\ Seen(a).state = [sim.state EXCEPT ![a] = TRUE]
<1>1. Found(a) = {} => Seen(a) = sim
  BY DEF Seen
<1>2. ASSUME NEW q \in Requests, Found(a) = {q}, sim.sequence \in {"none", q}
      PROVE  /\ Seen(a).at = sim.at /\ Seen(a).sent = sim.sent
             /\ Seen(a).sequence = q /\ Seen(a).state = [sim.state EXCEPT ![a] = TRUE]
  <2>1. sim \in SimTypes
    BY DEF TypeOK, SimTypes
  <2>2. PICK f \in [Agents -> BOOLEAN] : f = [sim.state EXCEPT ![a] = TRUE]
    BY <2>1 DEF SimTypes
  <2>3. (IF sim.sequence # "none" THEN sim.sequence ELSE IF "load" \in Found(a) THEN "load" ELSE "unload") = q
    BY <1>2 DEF Requests
  <2>4. Seen(a) = [sim EXCEPT !.state = f, !.sequence = q]
    BY <1>2, <2>2, <2>3 DEF Seen
  <2> QED BY <2>1, <2>2, <2>4 DEF SimTypes
<1> QED BY <1>1, <1>2, NewsFound

\* A look at a queue: the simulation goes on looking for the exchange.
LEMMA Looked ==
  ASSUME TypeOK, NEW a \in Agents, Poll(a), Polls,
         NEW x \in {"poll", "poll_robot"}, sim' = [Seen(a) EXCEPT !.at = x]
  PROVE  /\ \A q \in Requests : Before(q) => Before(q)'
         /\ \A q \in Requests : Done(q) => Done(q)'
         /\ Looks => Looks'
         /\ NoNews(a) => sim'.state = sim.state /\ sim'.sequence = sim.sequence
<1>1. sim \in SimTypes /\ Seen(a) \in SimTypes
  BY SeenTyped DEF TypeOK, SimTypes
<1>2. /\ sim'.at = x /\ sim'.sent = Seen(a).sent /\ sim'.sequence = Seen(a).sequence
      /\ sim'.state = Seen(a).state
  BY <1>1 DEF SimTypes
<1>3. UNCHANGED <<pos, resp>>
  BY DEF Poll, tool
<1>4. NoNews(a) => /\ NoNews(a)' /\ sim'.state = sim.state /\ sim'.sequence = sim.sequence
                   /\ sim'.at = x /\ sim'.sent = sim.sent
  BY <1>2, SeenIs, NewsFound
<1>5. \A b \in Agents : b # a => (NoNews(b) => NoNews(b)') /\ \A q : News(b, q) => News(b, q)'
  BY NewsFound
<1>6. Silent => Silent'
  BY <1>4, <1>5 DEF Silent
<1>7. ASSUME NEW q \in Requests, Before(q) PROVE Before(q)'
  <2>1. /\ Rest(Begins(q)) /\ sim.sequence \in {"none", q} /\ ~sim.sent
        /\ \A b \in Agents : IF sim.state[b] THEN sim.sequence = q /\ NoNews(b) ELSE News(b, q)
    BY <1>7 DEF Before, Polls, Closing, Requests, Other
  <2>2. Rest(Begins(q))'
    BY <1>3, <2>1 DEF Rest
  <2>3. CASE NoNews(a)
    <3>1. Polls' /\ sim'.sequence \in {"none", q}
      BY <1>4, <2>1, <2>3 DEF Polls
    <3>2. News(a, q)'
      BY <1>4, <2>3 DEF News
    <3>3. \A b \in Agents : IF sim'.state[b] THEN sim'.sequence = q /\ NoNews(b)' ELSE News(b, q)'
      BY <1>4, <1>5, <2>1, <2>3, <3>2
    <3> QED BY <2>2, <3>1, <3>3 DEF Before
  <2>4. CASE ~NoNews(a)
    <3>1. ~sim.state[a] /\ News(a, q)
      BY <2>1, <2>4
    <3>2. CASE Seen(a) = sim /\ News(a, q)'
      <4>1. Polls' /\ sim'.sequence \in {"none", q}
        BY <1>2, <2>1, <3>2 DEF Polls
      <4>2. \A b \in Agents : IF sim'.state[b] THEN sim'.sequence = q /\ NoNews(b)' ELSE News(b, q)'
        BY <1>2, <1>5, <2>1, <3>1, <3>2
      <4> QED BY <2>2, <4>1, <4>2 DEF Before
    <3>3. CASE /\ NoNews(a)' /\ Seen(a).at = sim.at /\ Seen(a).sent = sim.sent
               /\ Seen(a).sequence = q /\ Seen(a).state = [sim.state EXCEPT ![a] = TRUE]
      <4>1. Polls' /\ sim'.sequence = q
        BY <1>2, <2>1, <3>3 DEF Polls
      <4>2. \A b \in Agents : IF sim'.state[b] THEN NoNews(b)' ELSE News(b, q)'
        <5>1. News(a, q)'
          BY <3>3 DEF News
        <5>2. sim.state \in [Agents -> BOOLEAN]
          BY <1>1 DEF SimTypes
        <5> QED BY <1>2, <1>5, <2>1, <3>3, <5>1, <5>2
      <4> QED BY <2>2, <4>1, <4>2 DEF Before
    <3> QED BY <2>1, <3>1, <3>2, <3>3, SeenIs
  <2> QED BY <2>3, <2>4
<1>8. ASSUME NEW q \in Requests, Done(q) PROVE Done(q)'
  <2>1. NoNews(a) /\ Silent /\ Rest(Ends(q)) /\ sim.sequence = "none" /\ ~sim.sent /\ \A b \in Agents : ~sim.state[b]
    BY <1>8 DEF Done, Silent, Polls, Closing, Requests
  <2>2. Rest(Ends(q))'
    BY <1>3, <2>1 DEF Rest
  <2> QED BY <1>4, <1>6, <2>1, <2>2 DEF Done, Polls
<1>9. ASSUME Looks PROVE Looks'
  <2>1. NoNews(a)
    BY <1>9 DEF Looks, Silent
  <2> QED BY <1>4, <1>6, <1>9, <2>1 DEF Looks
<1> QED BY <1>4, <1>7, <1>8, <1>9

LEMMA PollCncKept == TypeOK /\ CellInv /\ PollCnc => CellInv'
<1> SUFFICES ASSUME TypeOK, CellInv, PollCnc PROVE CellInv'
  OBVIOUS
<1>1. Poll("cnc") /\ sim' = [Seen("cnc") EXCEPT !.at = "poll_robot"] /\ sim.at = "poll" /\ "cnc" \in Agents
  BY DEF PollCnc, Agents
<1>2. UNCHANGED <<tool, toClient, toCnc, bridge>>
  BY <1>1 DEF Poll
<1>3. ASSUME ~sim.sent
      PROVE  /\ \A q \in Requests : Before(q) => Before(q)'
             /\ \A q \in Requests : Done(q) => Done(q)'
             /\ Looks => Looks'
  <2>1. Polls
    BY <1>1, <1>3 DEF Polls
  <2> QED BY <1>1, <2>1, Looked
<1>4. /\ \A q \in Requests : (Before(q) => ~sim.sent) /\ (Done(q) => ~sim.sent) /\ ~During(q)
      /\ Looks => ~sim.sent
  BY <1>1 DEF Before, Done, During, Looks, Polls, Opening, Closing, Other, Requests
<1>5. ASSUME NEW q \in Requests, Before(q), Unanswered(q) PROVE Unanswered(q)'
  <2>1. NoNews("robot")' /\ ~sim.state["robot"]
    BY <1>1, <1>5, NewsFound DEF Unanswered, Agents, Closing, Other, Requests
  <2>2. sim'.state = Seen("cnc").state
    BY <1>1, SeenTyped DEF SimTypes
  <2>3. Seen("cnc").state["robot"] = sim.state["robot"]
    <3>1. sim \in SimTypes
      BY DEF TypeOK, SimTypes
    <3>2. CASE NoNews("cnc")
      BY <1>1, <3>2, SeenIs
    <3>3. CASE ~NoNews("cnc")
      <4>1. News("cnc", q) /\ sim.sequence \in {"none", q}
        BY <1>1, <1>5, <3>3 DEF Before, Polls, Closing, Other, Requests, Agents
      <4>2. Seen("cnc") = sim \/ Seen("cnc").state = [sim.state EXCEPT !["cnc"] = TRUE]
        BY <1>1, <4>1, SeenIs
      <4> QED BY <3>1, <4>2 DEF SimTypes, Agents
    <3> QED BY <3>2, <3>3
  <2> QED BY <2>1, <2>2, <2>3 DEF Unanswered
<1> QED BY <1>2, <1>3, <1>4, <1>5, SimulationGoesOn

LEMMA PollRobotKept == TypeOK /\ CellInv /\ PollRobot => CellInv'
<1> SUFFICES ASSUME TypeOK, CellInv, PollRobot PROVE CellInv'
  OBVIOUS
<1> DEFINE all == \A a \in Agents : Seen("robot").state[a]
           x == IF ~all THEN "poll" ELSE IF Seen("robot").sequence = "load" THEN "closeChuck" ELSE "openDoor"
<1>1. Poll("robot") /\ sim' = [Seen("robot") EXCEPT !.at = x] /\ sim.at = "poll_robot" /\ "robot" \in Agents
  BY DEF PollRobot, Agents
<1>2. UNCHANGED <<tool, toClient, toCnc, bridge>>
  BY <1>1 DEF Poll
<1>3. Seen("robot") \in SimTypes /\ sim \in SimTypes
  BY <1>1, SeenTyped DEF TypeOK, SimTypes
<1>4. /\ \A q \in Requests : (Before(q) => ~sim.sent) /\ (Done(q) => ~sim.sent) /\ ~During(q)
      /\ Looks => ~sim.sent
  BY <1>1 DEF Before, Done, During, Looks, Polls, Opening, Closing, Other, Requests
<1>5. NoNews("robot") /\ ~sim.state["robot"] => ~all /\ sim'.state["robot"] = FALSE /\ NoNews("robot")'
  <2> HIDE DEF x
  <2>1. ASSUME NoNews("robot"), ~sim.state["robot"] PROVE Seen("robot") = sim /\ NoNews("robot")'
    BY <1>1, <2>1, SeenIs, NewsFound
  <2> QED BY <1>1, <1>3, <2>1 DEF SimTypes, Agents
<1>6. CASE ~all
  <2>1. sim' = [Seen("robot") EXCEPT !.at = "poll"]
    BY <1>1, <1>6
  <2>2. ASSUME ~sim.sent
        PROVE  /\ \A q \in Requests : Before(q) => Before(q)'
               /\ \A q \in Requests : Done(q) => Done(q)'
               /\ Looks => Looks'
    <3>1. Polls
      BY <1>1, <2>2 DEF Polls
    <3> QED BY <1>1, <2>1, <3>1, Looked
  <2>3. ASSUME NEW q \in Requests, Before(q), Unanswered(q) PROVE Unanswered(q)'
    <3>1. NoNews("robot") /\ ~sim.state["robot"]
      BY <1>1, <2>3 DEF Unanswered, Closing, Other, Requests
    <3> QED BY <1>5, <3>1 DEF Unanswered
  <2> QED BY <1>2, <1>4, <2>2, <2>3, SimulationGoesOn
<1>7. CASE all
  <2>1. ASSUME NEW q, NoNews("robot"), ~sim.state["robot"] PROVE FALSE
    BY <1>5, <1>7, <2>1
  <2>2. \A q \in Requests : ~Done(q) /\ ~Looks /\ ~(Before(q) /\ Unanswered(q))
    BY <2>1, <1>1 DEF Done, Looks, Silent, Agents, Unanswered, Polls, Closing, Other, Requests
  <2>3. ASSUME NEW q \in Requests, Before(q) PROVE During(q)'
    <3>1. /\ Rest(Begins(q)) /\ sim.sequence \in {"none", q} /\ ~sim.sent
          /\ \A b \in Agents : IF sim.state[b] THEN sim.sequence = q /\ NoNews(b) ELSE News(b, q)
      BY <1>1, <2>3 DEF Before, Polls, Closing, Requests, Other
    <3>2. sim.state["cnc"] /\ sim.sequence = q /\ NoNews("cnc")
      <4>1. sim.state["cnc"]
        <5>1. Seen("robot").state["cnc"] = sim.state["cnc"]
          <6>1. CASE NoNews("robot")
            BY <1>1, <6>1, SeenIs
          <6>2. CASE ~NoNews("robot")
            <7>1. News("robot", q)
              BY <1>1, <3>1, <6>2
            <7>2. Seen("robot") = sim \/ Seen("robot").state = [sim.state EXCEPT !["robot"] = TRUE]
              BY <1>1, <3>1, <7>1, SeenIs
            <7> QED BY <1>3, <7>2 DEF SimTypes, Agents
          <6> QED BY <6>1, <6>2
        <5> QED BY <1>7, <5>1 DEF Agents
      <4> QED BY <3>1, <4>1 DEF Agents
    <3>3. /\ NoNews("robot")' /\ Seen("robot").sequence = q /\ ~Seen("robot").sent
      <4>1. CASE NoNews("robot")
        BY <1>1, <3>1, <3>2, <4>1, SeenIs, NewsFound
      <4>2. CASE ~NoNews("robot")
        <5>1. News("robot", q) /\ ~sim.state["robot"]
          BY <1>1, <3>1, <4>2
        <5>2. Seen("robot") # sim
          BY <1>7, <5>1 DEF Agents
        <5> QED BY <1>1, <3>1, <5>1, <5>2, SeenIs
      <4> QED BY <4>1, <4>2
    <3>4. NoNews("cnc")'
      BY <1>1, <3>2, NewsFound DEF Agents
    <3>5. x = Opening[q]
      BY <1>7, <3>3 DEF Opening, Requests
    <3> HIDE DEF x, all
    <3>6. sim'.at = Opening[q] /\ ~sim'.sent
      BY <1>1, <1>3, <3>3, <3>5 DEF SimTypes
    <3>7. Rest(Begins(q))'
      BY <1>2, <3>1 DEF Rest, tool
    <3> QED BY <3>3, <3>4, <3>6, <3>7 DEF During, Silent, Agents
  <2>4. ~Looks
    BY <2>2 DEF Requests
  <2> QED BY <1>2, <1>4, <2>2, <2>3, <2>4, SimulationGoesOn
<1> QED BY <1>6, <1>7

LEMMA ConnectKept == TypeOK /\ CellInv /\ Connect => CellInv'
<1> SUFFICES ASSUME TypeOK, CellInv, Connect PROVE CellInv'
  OBVIOUS
<1>1. UNCHANGED <<tool, toClient, toCnc, bridge>> /\ sim.at = "connect"
  BY DEF Connect
<1>2. \A q \in Requests : ~Before(q) /\ ~During(q) /\ ~Done(q)
  BY <1>1 DEF Before, Done, During, Polls, Opening, Closing, Other, Requests
<1>3. ASSUME Looks PROVE Looks'
  <2>1. \A a \in Agents : NoNews(a)'
    <3>1. \A a \in Agents : NoNews(a)
      BY <1>3 DEF Looks, Silent
    <3>2. queue' = queue /\ \A a \in Agents : stream'[a] = << >>
      BY DEF Connect
    <3> QED BY <3>1, <3>2, QuietTells DEF NoNews
  <2>2. sim' = [sim EXCEPT !.at = "poll"] /\ sim \in SimTypes
    BY DEF Connect, TypeOK, SimTypes
  <2>3. sim'.at = "poll" /\ sim'.sent = sim.sent /\ sim'.sequence = sim.sequence /\ sim'.state = sim.state
    BY <2>2 DEF SimTypes
  <2> QED BY <1>3, <2>1, <2>3 DEF Looks, Silent
<1> QED BY <1>1, <1>2, <1>3, SimulationGoesOn

LEMMA XmlCallbackKept == ASSUME TypeOK, CellInv, NEW a \in Agents, XmlCallback(a) PROVE CellInv'
<1>1. UNCHANGED <<tool, toClient, toCnc, bridge, sim>>
  BY DEF XmlCallback
<1>2. UNCHANGED <<pos, resp, sim>>
  BY <1>1 DEF tool
<1>3. /\ \A q : (Before(q) => Before(q)') /\ (Unanswered(q) => Unanswered(q)')
      /\ \A q : (During(q) => During(q)') /\ (Done(q) => Done(q)')
      /\ Looks => Looks'
  BY <1>2, NewsArrives, PhasesStay
<1> QED BY <1>1, <1>3, SimulationGoesOn

LEMMA SecondDeviceKept == TypeOK /\ CellInv /\ SecondDevice => CellInv'
<1> SUFFICES ASSUME TypeOK, CellInv, SecondDevice PROVE CellInv'
  OBVIOUS
<1>1. PICK p \in Requests : /\ sim.at = Opening[p] /\ sim.sent /\ resp[Opening[p]] \notin {"active", "complete"}
                            /\ sim' = [sim EXCEPT !.at = Closing[p], !.sent = FALSE]
  BY DEF SecondDevice, CloseChuckClient, OpenDoorClient, Returns, Requests, Opening, Closing
<1>2. UNCHANGED <<tool, stream, toClient, toCnc, bridge, queue>>
  BY DEF SecondDevice
<1>3. \A q \in Requests : ~Before(q) /\ ~Done(q) /\ (During(q) => q = p)
  BY <1>1 DEF Before, Done, During, Polls, Opening, Closing, Other, Requests
<1>4. ~Looks
  BY <1>1 DEF Looks
<1>5. ASSUME During(p) PROVE During(p)'
  <2>1. Silent /\ Works(Opening[p]) /\ pos[Device[Closing[p]]] = Begins(p)
    BY <1>1, <1>5 DEF During, Opening, Closing, Requests
  <2>2. Silent'
    <3>1. \A a \in Agents : NoNews(a) => NoNews(a)'
      BY <1>2, NewsStays
    <3> QED BY <2>1, <3>1 DEF Silent
  <2>3. resp = [r \in Responses |-> "ready"] /\ pos[Device[Opening[p]]] = Dest[Opening[p]]
    <3>1. resp \in [Responses -> ResponseStates] /\ \A r \in Responses : resp[r] = "ready"
      BY <1>1, <2>1 DEF TypeOK, Works
    <3>2. resp[Opening[p]] # "active"
      BY <1>1
    <3> QED BY <2>1, <3>1, <3>2 DEF Works
  <2>4. Dest[Opening[p]] = Ends(p)
    BY DEF Dest, Opening, Ends, Requests
  <2>5. sim'.at = Closing[p] /\ ~sim'.sent
    <3>1. sim \in SimTypes
      BY DEF TypeOK, SimTypes
    <3>2. PICK c : c = Closing[p]
      OBVIOUS
    <3>3. sim' = [sim EXCEPT !.at = c, !.sent = FALSE]
      BY <1>1, <3>2
    <3> QED BY <3>1, <3>2, <3>3 DEF SimTypes
  <2> QED BY <1>2, <2>1, <2>2, <2>3, <2>4, <2>5 DEF During, tool
<1> QED BY <1>2, <1>3, <1>4, <1>5, SimulationGoesOn

LEMMA SequenceDoneKept == TypeOK /\ CellInv /\ SequenceDone => CellInv'
<1> SUFFICES ASSUME TypeOK, CellInv, SequenceDone PROVE CellInv'
  OBVIOUS
<1>1. PICK p \in Requests : sim.at = Closing[p] /\ sim.sent /\ resp[Closing[p]] \notin {"active", "complete"}
  BY DEF SequenceDone, CloseDoorClient, OpenChuckClient, Returns, Requests, Closing
<1>2. UNCHANGED <<tool, stream, toClient, toCnc, bridge, queue>> /\ sim' = Idle
  BY DEF SequenceDone
<1>3. UNCHANGED <<pos, resp, stream, queue>>
  BY <1>2 DEF tool
<1>4. ~Looks
  BY <1>1 DEF Looks
<1>5. \A a \in Agents : (NoNews(a) => NoNews(a)') /\ \A q : News(a, q) => News(a, q)'
  BY <1>3, NewsStays
<1>6. Silent => Silent'
  BY <1>5 DEF Silent
<1>7. Polls' /\ sim'.sequence = "none" /\ \A a \in Agents : ~sim'.state[a]
  BY <1>2 DEF Idle, Polls
<1>8. ASSUME NEW q \in Requests, Before(q) PROVE Before(q)'
  <2>1. Rest(Begins(q)) /\ \A a \in Agents : News(a, q)
    BY <1>1, <1>8 DEF Before, Polls
  <2>2. Rest(Begins(q))'
    BY <1>3, <2>1 DEF Rest
  <2>3. \A a \in Agents : News(a, q)'
    BY <1>5, <2>1
  <2> QED BY <1>7, <2>2, <2>3 DEF Before
<1>9. ASSUME NEW q \in Requests, Unanswered(q) PROVE Unanswered(q)'
  BY <1>5, <1>7, <1>9 DEF Unanswered, Agents
<1>10. ASSUME NEW q \in Requests, Done(q) PROVE Done(q)'
  <2>1. Rest(Ends(q)) => Rest(Ends(q))'
    BY <1>3 DEF Rest
  <2> QED BY <1>6, <1>7, <1>10, <2>1 DEF Done
<1>11. ASSUME NEW q \in Requests, During(q) PROVE Done(q)'
  <2>1. q = p /\ Silent /\ Works(Closing[p]) /\ pos[Device[Opening[p]]] = Ends(p)
    BY <1>1, <1>11 DEF During, Opening, Closing, Requests
  <2>2. resp = [r \in Responses |-> "ready"] /\ pos[Device[Closing[p]]] = Dest[Closing[p]]
    <3>1. resp \in [Responses -> ResponseStates] /\ \A r \in Responses : resp[r] = "ready"
      BY <1>1, <2>1 DEF TypeOK, Works
    <3>2. resp[Closing[p]] # "active"
      BY <1>1
    <3> QED BY <2>1, <3>1, <3>2 DEF Works
  <2>3. pos = [d \in {"door", "chuck"} |-> Ends(p)]
    <3>1. pos \in [{"door", "chuck"} -> {"OPEN", "CLOSED", "UNLATCHED"}]
      BY DEF TypeOK
    <3>2. CASE p = "load"
      BY <2>1, <2>2, <3>1, <3>2 DEF Device, Opening, Closing, Dest, Ends
    <3>3. CASE p = "unload"
      BY <2>1, <2>2, <3>1, <3>3 DEF Device, Opening, Closing, Dest, Ends
    <3> QED BY <3>2, <3>3 DEF Requests
  <2>4. Rest(Ends(q))'
    BY <1>3, <2>1, <2>2, <2>3 DEF Rest
  <2> QED BY <1>6, <1>7, <2>1, <2>4 DEF Done
<1> QED BY <1>2, <1>4, <1>8, <1>9, <1>10, <1>11, SimulationGoesOn

-----------------------------------------------------------------------------
(* The devices                                                              *)

LEMMA ServedGoesOn ==
  ASSUME NEW q \in Requests, Served(q), UNCHANGED <<cnc, req, toClient, toCnc, bridge>>, During(q)', Unseen(q)'
  PROVE  CellInv'
<1>1. Served(q)'
  BY DEF Served, Asks, Heard, bridge
<1> QED BY <1>1 DEF CellInv, Exchanging

LEMMA SilentStays == UNCHANGED <<stream, queue>> /\ Silent => Silent'
BY NewsStays DEF Silent

\* The devices of a sequence, one by one.
LEMMA Stages ==
  ASSUME TypeOK, NEW q \in Requests, During(q), NEW r \in Responses,
         resp[r] \in {"active", "complete"} \/ (sim.at = r /\ ~sim.sent)
  PROVE  /\ Silent
         /\ \/ /\ r = Opening[q] /\ sim.at = r /\ pos[Device[Closing[q]]] = Begins(q)
               /\ \A s \in Responses : s # r => resp[s] = "ready"
            \/ /\ r = Closing[q] /\ sim.at = r /\ pos[Device[Opening[q]]] = Ends(q)
               /\ \A s \in Responses : s # r => resp[s] = "ready"
         /\ sim.sent => Works(r)
         /\ ~sim.sent => pos[Device[r]] = Begins(q) /\ resp[r] = "ready"
<1>1. Silent
  BY DEF During
<1>2. CASE sim.at = Opening[q] /\ ~sim.sent /\ Rest(Begins(q))
  BY <1>1, <1>2 DEF Rest, Responses, Requests, Opening, Closing, Device
<1>3. CASE sim.at = Opening[q] /\ sim.sent /\ Works(Opening[q]) /\ pos[Device[Closing[q]]] = Begins(q)
  <2>1. r = Opening[q]
    BY <1>3 DEF Works
  <2> QED BY <1>1, <1>3, <2>1 DEF Works
<1>4. CASE /\ sim.at = Closing[q] /\ ~sim.sent /\ resp = [s \in Responses |-> "ready"]
           /\ pos[Device[Opening[q]]] = Ends(q) /\ pos[Device[Closing[q]]] = Begins(q)
  BY <1>1, <1>4
<1>5. CASE sim.at = Closing[q] /\ sim.sent /\ Works(Closing[q]) /\ pos[Device[Opening[q]]] = Ends(q)
  <2>1. r = Closing[q]
    BY <1>5 DEF Works
  <2> QED BY <1>1, <1>5, <2>1 DEF Works
<1> QED BY <1>2, <1>3, <1>4, <1>5 DEF During

\* As a response works, the rest of the sequence stays as it is.
LEMMA WorksOn ==
  ASSUME TypeOK, NEW q \in Requests, Served(q), Unseen(q), During(q), NEW r \in Responses,
         r \in {Opening[q], Closing[q]}, sim.at = r,
         r = Opening[q] => pos[Device[Closing[q]]] = Begins(q),
         r = Closing[q] => pos[Device[Opening[q]]] = Ends(q),
         UNCHANGED <<cnc, req, stream, queue, toClient, toCnc, bridge>>,
         sim'.at = sim.at, sim'.sent,
         \A s \in Responses : s # r => resp'[s] = "ready",
         \/ resp'[r] = "active" /\ pos'[Device[r]] = "UNLATCHED"
         \/ resp'[r] \in {"complete", "ready"} /\ pos'[Device[r]] = Dest[r],
         \A d \in {"door", "chuck"} : d # Device[r] => pos'[d] = pos[d],
         \* what the devices show gets no worse
         \/ pos'[Device[r]] = pos[Device[r]] /\ (resp[r] = "ready" => resp'[r] = "ready") /\ resp[r] # "not_ready"
         \/ pos[Device[r]] # Dest[r]
  PROVE  CellInv'
<1>1. Silent'
  BY SilentStays DEF During
<1>2. Works(r)'
  BY DEF Works
<1>3. During(q)'
  <2>1. CASE r = Opening[q]
    <3>1. pos'[Device[Closing[q]]] = Begins(q)
      BY <2>1 DEF Device, Opening, Closing, Requests
    <3> QED BY <1>1, <1>2, <2>1, <3>1 DEF During
  <2>2. CASE r = Closing[q]
    <3>1. pos'[Device[Opening[q]]] = Ends(q)
      BY <2>2 DEF Device, Opening, Closing, Requests
    <3> QED BY <1>1, <1>2, <2>2, <3>1 DEF During
  <2> QED BY <2>1, <2>2
<1>4. Unseen(q)'
  <2>1. topic' = topic
    BY DEF bridge
  <2>2. CASE q = "load"
    <3>1. CASE r = "closeDoor"
      BY <2>1, <2>2, <3>1 DEF Unseen, Device, Dest
    <3>2. CASE r = "closeChuck"
      BY <2>1, <2>2, <3>2 DEF Unseen, Device, Responses
    <3> QED BY <2>2, <3>1, <3>2 DEF Opening, Closing
  <2>3. CASE q = "unload"
    <3>1. CASE r = "openChuck"
      BY <2>1, <2>3, <3>1 DEF Unseen, Device, Dest
    <3>2. CASE r = "openDoor"
      BY <2>1, <2>3, <3>2 DEF Unseen, Device, Responses
    <3> QED BY <2>3, <3>1, <3>2 DEF Opening, Closing
  <2> QED BY <2>2, <2>3 DEF Requests
<1> QED BY <1>3, <1>4, ServedGoesOn

LEMMA BrokenStays ==
  ASSUME Broken, cnc' = cnc, req' = req, resp' = resp
  PROVE  CellInv'
BY DEF CellInv, Broken

LEMMA TurnedAround ==
  ASSUME NEW q \in Requests, NEW r \in {Opening[q], Closing[q]}
  PROVE  r \in Responses /\ Dest[r] = Ends(q) /\ Begins(q) # Ends(q)
BY DEF Requests, Opening, Closing, Responses, Dest, Begins, Ends

LEMMA SendKept == ASSUME TypeOK, CellInv, NEW r \in Responses, Send(r) PROVE CellInv'
<1>1. UNCHANGED <<cnc, req, stream, toClient, toCnc, bridge, queue, capture>> /\ sim.at = r /\ ~sim.sent
  BY DEF Send
<1>2. CASE cnc = "fault"
  <2>1. Broken /\ resp[r] # "ready"
    BY <1>2, WhereItIs DEF Broken
  <2>2. resp' = resp
    BY <2>1 DEF Send
  <2> QED BY <1>1, <2>1, <2>2, BrokenStays
<1>3. CASE cnc # "fault"
  <2>1. PICK q \in Requests : Served(q) /\ Unseen(q) /\ During(q)
    BY <1>1, <1>3, WhereItWorks
  <2>2. /\ r \in {Opening[q], Closing[q]} /\ pos[Device[r]] = Begins(q) /\ resp[r] = "ready"
        /\ r = Opening[q] => pos[Device[Closing[q]]] = Begins(q)
        /\ r = Closing[q] => pos[Device[Opening[q]]] = Ends(q)
        /\ \A s \in Responses : s # r => resp[s] = "ready"
    <3>1. Opening[q] # Closing[q]
      BY DEF Opening, Closing, Requests
    <3> QED BY <1>1, <2>1, <3>1, Stages
  <2>3. pos[Device[r]] # Dest[r]
    BY <2>2, TurnedAround
  <2>4. resp' = [resp EXCEPT ![r] = "active"] /\ pos' = [pos EXCEPT ![Device[r]] = "UNLATCHED"]
    BY <2>2, <2>3 DEF Send
  <2>5. sim'.at = r /\ sim'.sent
    BY <1>1 DEF Send, TypeOK
  <2>6. Device[r] \in {"door", "chuck"} /\ resp \in [Responses -> ResponseStates]
        /\ pos \in [{"door", "chuck"} -> {"OPEN", "CLOSED", "UNLATCHED"}]
    BY TablesTyped DEF TypeOK
  <2>7. /\ \A s \in Responses : s # r => resp'[s] = "ready"
        /\ resp'[r] = "active" /\ pos'[Device[r]] = "UNLATCHED"
        /\ \A d \in {"door", "chuck"} : d # Device[r] => pos'[d] = pos[d]
    BY <2>2, <2>4, <2>6
  <2> QED BY <1>1, <2>1, <2>2, <2>3, <2>5, <2>7, WorksOn
<1> QED BY <1>2, <1>3

LEMMA AcknowledgeKept == ASSUME TypeOK, CellInv, NEW r \in Responses, Acknowledge(r) PROVE CellInv'
<1>1. UNCHANGED <<cnc, req, pos, stream, toClient, toCnc, bridge, queue, sim>> /\ resp[r] = "complete"
      /\ resp' = [resp EXCEPT ![r] = "ready"]
  BY DEF Acknowledge, simulation
<1>2. PICK q \in Requests : Served(q) /\ Unseen(q) /\ During(q)
  BY <1>1, WhereItWorks
<1>3. /\ r \in {Opening[q], Closing[q]} /\ sim.at = r /\ Works(r) /\ sim.sent
      /\ r = Opening[q] => pos[Device[Closing[q]]] = Begins(q)
      /\ r = Closing[q] => pos[Device[Opening[q]]] = Ends(q)
  <2>1. Opening[q] # Closing[q]
    BY DEF Opening, Closing, Requests
  <2> QED BY <1>1, <1>2, <2>1, Stages
<1>4. \A s \in Responses : s # r => resp[s] = "ready"
  BY <1>3 DEF Works
<1>5. pos[Device[r]] = Dest[r]
  BY <1>1, <1>3 DEF Works
<1>6. /\ \A s \in Responses : s # r => resp'[s] = "ready"
      /\ resp'[r] = "ready"
  BY <1>1, <1>4 DEF TypeOK
<1> QED BY <1>1, <1>2, <1>3, <1>5, <1>6, WorksOn

LEMMA DeviceMovesKept == ASSUME TypeOK, CellInv, NEW r \in Responses, DeviceMoves(r) PROVE CellInv'
<1>1. resp[r] = "active" /\ UNCHANGED <<toCnc, bridge, queue, sim>>
  BY DEF DeviceMoves, simulation
<1>2. PICK q \in Requests : Served(q) /\ Unseen(q) /\ During(q)
  BY <1>1, WhereItWorks
<1>3. CASE /\ resp' = [resp EXCEPT ![r] = "complete"] /\ pos' = [pos EXCEPT ![Device[r]] = Dest[r]]
           /\ UNCHANGED <<cnc, req, stream, toClient>>
  <2>1. /\ r \in {Opening[q], Closing[q]} /\ sim.at = r /\ Works(r) /\ sim.sent
        /\ r = Opening[q] => pos[Device[Closing[q]]] = Begins(q)
        /\ r = Closing[q] => pos[Device[Opening[q]]] = Ends(q)
    <3>1. Opening[q] # Closing[q]
      BY DEF Opening, Closing, Requests
    <3> QED BY <1>1, <1>2, <3>1, Stages
  <2>2. Device[r] \in {"door", "chuck"} /\ resp \in [Responses -> ResponseStates]
        /\ pos \in [{"door", "chuck"} -> {"OPEN", "CLOSED", "UNLATCHED"}]
    BY TablesTyped DEF TypeOK
  <2>3. pos[Device[r]] = "UNLATCHED" /\ \A s \in Responses : s # r => resp[s] = "ready"
    BY <1>1, <2>1 DEF Works
  <2>4. pos[Device[r]] # Dest[r]
    BY <2>3, TablesTyped
  <2>5. /\ \A s \in Responses : s # r => resp'[s] = "ready"
        /\ resp'[r] = "complete" /\ pos'[Device[r]] = Dest[r]
        /\ \A d \in {"door", "chuck"} : d # Device[r] => pos'[d] = pos[d]
    BY <1>3, <2>2, <2>3
  <2> QED BY <1>1, <1>2, <1>3, <2>1, <2>4, <2>5, WorksOn
<1>4. CASE resp' = [s \in Responses |-> IF s = r THEN "fail" ELSE "not_ready"] /\ cnc' = "fault"
           /\ req' = [p \in Requests |-> "not_ready"]
  BY <1>4 DEF CellInv, Broken
<1> QED BY <1>3, <1>4 DEF DeviceMoves

-----------------------------------------------------------------------------
(* The bridge and its servers                                               *)

LEMMA ClientTakesKept == TypeOK /\ CellInv /\ ClientTakes => CellInv'
<1> SUFFICES ASSUME TypeOK, CellInv, ClientTakes PROVE CellInv'
  OBVIOUS
<1>1. /\ UNCHANGED <<cnc, req, resp, pos, counter, topic, queue, capture, sim>>
      /\ client = "none" /\ toClient # << >> /\ toClient' = Tail(toClient)
  BY DEF ClientTakes, tool, simulation
<1>2. toClient \in Seq(Changes)
  BY DEF TypeOK, Changes
<1>3. /\ Quiet(toClient) => Head(toClient)[2] # "active" /\ Quiet(Tail(toClient))
      /\ \A q : Once(toClient, q) => IF Head(toClient)[2] = "active" THEN Head(toClient) = <<q, "active">> /\ Quiet(Tail(toClient))
                                                                     ELSE Once(Tail(toClient), q)
  BY <1>1, <1>2, QuietTail
<1>4. Head(toClient)[2] # "active" => UNCHANGED <<client, server, stream, toCnc>>
  BY DEF ClientTakes
<1>5. ASSUME Head(toClient)[2] # "active"
      PROVE  /\ \A q : Before(q) => Before(q)'
             /\ \A q : Unanswered(q) => Unanswered(q)'
             /\ \A q : Done(q) => Done(q)'
  <2>1. UNCHANGED <<pos, resp, sim>> /\ \A a \in Agents : (NoNews(a) => NoNews(a)') /\ \A q : News(a, q) => News(a, q)'
    BY <1>1, <1>4, <1>5, NewsStays
  <2> QED BY <2>1, PhasesStay
<1>6. CASE Broken
  BY <1>1, <1>6, BrokenStays
<1>7. CASE Cycles
  <2>1. Quiet(toClient) /\ Head(toClient)[2] # "active"
    BY <1>3, <1>7 DEF Cycles
  <2>2. Done("load")'
    BY <1>5, <1>7, <2>1 DEF Cycles
  <2> QED BY <1>1, <1>3, <1>4, <1>7, <2>1, <2>2 DEF CellInv, Cycles, NobodyServes, Seeing
<1>8. ASSUME NEW q \in Requests, Asked(q), Unseen(q) PROVE CellInv'
  <2>1. Asks(q)' /\ Unseen(q)'
    BY <1>1, <1>8 DEF Asked, Asks, Unseen
  <2>2. CASE Head(toClient)[2] # "active"
    <3>1. Once(toClient', q)
      BY <1>1, <1>3, <1>8, <2>2 DEF Asked
    <3>2. Asked(q)'
      BY <1>1, <1>4, <1>5, <1>8, <2>1, <2>2, <3>1 DEF Asked, NobodyServes
    <3> QED BY <2>1, <3>2 DEF CellInv, Exchanging
  <2>3. CASE Head(toClient)[2] = "active"
    <3>1. Head(toClient)[1] = q /\ Quiet(toClient')
      BY <1>1, <1>3, <1>8, <2>3 DEF Asked
    <3>2. client' = q /\ server' = [server EXCEPT ![q] = "execute"] /\ Publish(q, "active")
      BY <2>3, <3>1 DEF ClientTakes
    <3>3. server' = [p \in Requests |-> IF p = q THEN "execute" ELSE "none"]
      BY <1>8, <3>2 DEF Asked, NobodyServes, TypeOK
    <3>4. Heard(q, << >>)'
      <4>1. toCnc' = << <<q, "active">> >> /\ req'[q] = "active"
        BY <1>1, <1>8, <3>2 DEF Asked, Publish
      <4>2. << <<q, "active">> >> \o << >> = << <<q, "active">> >>
        OBVIOUS
      <4> QED BY <4>1, <4>2 DEF Heard
    <3>5. Before(q)'
      <4>1. PICK s : s = << <<q, "active">> >> /\ s \in Seq(Entries) /\ Once(s, q)
        <5>1. <<q, "active">> \in Entries
          BY DEF Entries, RequestStates
        <5>2. << <<q, "active">> >> \in Seq(Entries)
          BY <5>1
        <5>3. Once(<< <<q, "active">> >>, q)
          BY QuietTells, Zenon
        <5> QED BY <5>2, <5>3, Zenon
      <4>2. stream' = [stream EXCEPT !["robot"] = stream["robot"] \o s]
        <5>1. stream["robot"] \in Seq(Entries) /\ <<q, "active">> \in Entries
          BY DEF TypeOK, Entries, Agents, RequestStates
        <5>2. Append(stream["robot"], <<q, "active">>) = stream["robot"] \o s
          BY <4>1, <5>1
        <5> QED BY <3>2, <5>2 DEF Publish
      <4>3. News("robot", q)' /\ (News("cnc", q) => News("cnc", q)') /\ (NoNews("cnc") => NoNews("cnc")')
        <5>1. "robot" \in Agents /\ "cnc" \in Agents /\ NoNews("robot") /\ queue' = queue
          BY <1>1, <1>8 DEF Agents, Asked, Unanswered
        <5> QED BY <4>1, <4>2, <5>1, NewsTold
      <4>4. Rest(Begins(q))'
        BY <1>1, <1>8 DEF Asked, Before, Rest
      <4>5. CASE sim.at = Closing[Other(q)] /\ sim.sent /\ \A a \in Agents : News(a, q)
        BY <1>1, <4>3, <4>4, <4>5 DEF Before, Agents
      <4>6. CASE /\ Polls /\ sim.sequence \in {"none", q}
                 /\ \A a \in Agents : IF sim.state[a] THEN sim.sequence = q /\ NoNews(a) ELSE News(a, q)
        <5>1. ~sim.state["robot"]
          BY <1>8, <4>6 DEF Asked, Unanswered, Polls, Closing, Other, Requests
        <5>2. \A a \in Agents : IF sim.state[a] THEN sim.sequence = q /\ NoNews(a)' ELSE News(a, q)'
          BY <4>3, <4>6, <5>1 DEF Agents
        <5> QED BY <1>1, <4>4, <4>6, <5>2 DEF Before, Polls
      <4> QED BY <1>8, <4>5, <4>6 DEF Asked, Before
    <3>6. Served(q)'
      BY <2>1, <3>1, <3>2, <3>3, <3>4, <3>5 DEF Served
    <3> QED BY <2>1, <3>6 DEF CellInv, Exchanging
  <2> QED BY <2>2, <2>3
<1>9. ASSUME NEW q \in Requests, Concludes(q) PROVE CellInv'
  <2>1. Quiet(toClient) /\ Head(toClient)[2] # "active" /\ Quiet(toClient')
    BY <1>1, <1>3, <1>9 DEF Concludes
  <2>2. Done(q)' /\ Asks(q)' /\ Seeing(q)'
    BY <1>1, <1>5, <1>9, <2>1 DEF Concludes, Asks, Seeing
  <2>3. UNCHANGED <<client, server, toCnc, req>>
    BY <1>1, <1>4, <2>1
  <2>4. Concludes(q)'
    BY <1>9, <2>1, <2>2, <2>3 DEF Concludes, Heard, NobodyServes
  <2> QED BY <2>4 DEF CellInv, Exchanging
<1>10. ASSUME NEW q \in Requests, Over(q) PROVE CellInv'
  <2>1. Quiet(toClient) /\ Head(toClient)[2] # "active" /\ Quiet(toClient')
    BY <1>1, <1>3, <1>10 DEF Over
  <2>2. Done(q)'
    BY <1>5, <1>10, <2>1 DEF Over
  <2>3. Over(q)'
    BY <1>1, <1>4, <1>10, <2>1, <2>2 DEF Over, NobodyServes
  <2> QED BY <2>3 DEF CellInv, Exchanging
<1>11. ~Unstarted /\ \A q \in Requests : ~Served(q)
  BY <1>1 DEF Unstarted, Served, Requests
<1> QED BY <1>6, <1>7, <1>8, <1>9, <1>10, <1>11 DEF CellInv, Exchanging

LEMMA ClientAnswersKept == TypeOK /\ CellInv /\ ClientAnswers => CellInv'
<1> SUFFICES ASSUME TypeOK, CellInv, ClientAnswers PROVE CellInv'
  OBVIOUS
<1>1. /\ UNCHANGED <<cnc, req, resp, pos, toClient, counter, topic, queue, capture, sim>>
      /\ client \in Requests /\ server[client] \in {"succeeded", "aborted"}
  BY DEF ClientAnswers, TypeOK, tool, simulation
<1>2. CASE Broken
  BY <1>1, <1>2, BrokenStays
<1>3. CASE ~Broken
  <2>1. PICK q \in Requests : (Served(q) /\ Unseen(q)) \/ Concludes(q)
    BY <1>1, <1>3, WhereItIs
  <2>2. Concludes(q) /\ client = q
    BY <1>1, <2>1 DEF Served, Concludes, NobodyServes
  <2>3. PICK v \in {"complete", "failure"} : Publish(q, v)
    BY <2>2 DEF ClientAnswers
  <2>4. client' = "none" /\ server' = [server EXCEPT ![q] = "none"]
    BY <2>2 DEF ClientAnswers
  <2>5. Heard(q, << >>) /\ \E result \in {"succeeded", "aborted"} : server = [p \in Requests |-> IF p = q THEN result ELSE "none"]
    BY <1>1, <2>2 DEF Concludes, NobodyServes
  <2>6. NobodyServes'
    BY <2>4, <2>5 DEF NobodyServes
  <2>7. Heard(q, << <<q, v>> >>)'
    <3>1. toCnc' = Append(toCnc, <<q, v>>) /\ req' = req
      BY <1>1, <2>3 DEF Publish
    <3>2. Append(<< <<q, "active">> >> \o << >>, <<q, v>>) = << <<q, "active">> >> \o << <<q, v>> >>
      OBVIOUS
    <3>3. Append(<< >>, <<q, v>>) = << <<q, v>> >>
      OBVIOUS
    <3> QED BY <2>5, <3>1, <3>2, <3>3 DEF Heard
  <2>8. Done(q)'
    <3> DEFINE w == IF v = "failure" THEN "fail" ELSE v
    <3>1. PICK s : s = << <<q, w>> >> /\ s \in Seq(Entries) /\ Quiet(s)
      <4>1. w \in RequestStates \cup {"complete"} /\ w # "active"
        BY DEF RequestStates
      <4> HIDE DEF w
      <4>2. <<q, w>> \in Entries
        BY <4>1 DEF Entries
      <4>3. << <<q, w>> >> \in Seq(Entries)
        BY <4>2
      <4>4. Quiet(<< <<q, w>> >>)
        BY <4>1, QuietTells, Zenon
      <4> QED BY <4>3, <4>4, Zenon
    <3>2. stream' = [stream EXCEPT !["robot"] = stream["robot"] \o s]
      <4>1. stream["robot"] \in Seq(Entries)
        BY DEF TypeOK, Entries, Agents
      <4>2. stream' = [stream EXCEPT !["robot"] = Append(@, <<q, w>>)]
        BY <2>3 DEF Publish
      <4>3. <<q, w>> \in Entries
        <5>1. w \in RequestStates \cup {"complete"}
          BY DEF RequestStates
        <5> HIDE DEF w
        <5> QED BY <5>1 DEF Entries
      <4> HIDE DEF w
      <4>4. Append(stream["robot"], <<q, w>>) = stream["robot"] \o s
        BY <3>1, <4>1, <4>3
      <4> QED BY <4>2, <4>4
    <3>3. Done(q) /\ Silent
      BY <2>2 DEF Concludes, Done
    <3>4. \A a \in Agents : NoNews(a)'
      <4>1. "robot" \in Agents /\ queue' = queue /\ \A a \in Agents : NoNews(a)
        BY <1>1, <3>3 DEF Agents, Silent
      <4> QED BY <3>1, <3>2, <4>1, NewsTold
    <3> QED BY <1>1, <3>3, <3>4 DEF Done, Silent, Rest, Polls
  <2>9. Concludes(q)'
    BY <1>1, <2>2, <2>6, <2>7, <2>8 DEF Concludes, Asks, Seeing
  <2> QED BY <2>9 DEF CellInv, Exchanging
<1> QED BY <1>2, <1>3

LEMMA PublishTopicKept == TypeOK /\ CellInv /\ PublishTopic => CellInv'
<1> SUFFICES ASSUME TypeOK, CellInv, PublishTopic PROVE CellInv'
  OBVIOUS
<1>1. UNCHANGED <<cnc, req, resp, pos, stream, toClient, toCnc, client, server, counter, queue, capture, sim>>
  BY DEF PublishTopic, tool, simulation
<1>2. topic' = [door |-> pos["door"], chuck |-> pos["chuck"],
                close_door |-> resp["closeDoor"], open_chuck |-> resp["openChuck"]]
  BY DEF PublishTopic, Published
<1>3. /\ topic'.door = pos["door"] /\ topic'.chuck = pos["chuck"]
      /\ topic'.close_door = resp["closeDoor"] /\ topic'.open_chuck = resp["openChuck"]
  BY <1>2
<1>4. /\ \A q : (Before(q) => Before(q)') /\ (Unanswered(q) => Unanswered(q)')
      /\ \A q : (During(q) => During(q)') /\ (Done(q) => Done(q)')
      /\ Looks => Looks'
  <2>1. \A a \in Agents : (NoNews(a) => NoNews(a)') /\ \A q : News(a, q) => News(a, q)'
    BY <1>1, NewsStays
  <2> QED BY <1>1, <2>1, PhasesStay
<1>5. CASE Unstarted
  <2>1. topic'.door = "OPEN"
    BY <1>3, <1>5 DEF Unstarted
  <2> QED BY <1>1, <1>4, <1>5, <2>1 DEF CellInv, Unstarted, NobodyServes
<1>6. CASE Broken
  BY <1>1, <1>6, BrokenStays
<1>7. \A q \in Requests : Done(q) => Seeing(q)'
  BY <1>1, <1>3 DEF Done, Rest, Seeing, Ends, Requests
<1>8. CASE Cycles
  <2>1. Done("load")' /\ Seeing("load")'
    BY <1>4, <1>7, <1>8 DEF Cycles, Requests
  <2> QED BY <1>1, <1>8, <2>1 DEF CellInv, Cycles, NobodyServes
<1>9. ASSUME NEW q \in Requests, Exchanging(q) PROVE Exchanging(q)'
  <2>1. \A r \in Responses : Asked(q) \/ Served(q) => resp[r] # "not_ready"
    <3>1. \A r \in Responses : (\E p : Rest(p)) => resp[r] = "ready"
      BY DEF Rest
    <3>2. \A r \in Responses : During(q) => resp[r] # "not_ready"
      BY <3>1 DEF During, Works
    <3> QED BY <3>1, <3>2 DEF Asked, Served, Before, Done
  <2>2. Asked(q) \/ Served(q) => Unseen(q)'
    <3>1. Asked(q) \/ Served(q) => resp["openChuck"] # "not_ready"
      BY <2>1 DEF Responses
    <3> QED BY <1>1, <1>3, <3>1 DEF Unseen
  <2>3. Asked(q) => Asked(q)'
    BY <1>1, <1>4 DEF Asked, Asks, NobodyServes
  <2>4. Served(q) => Served(q)'
    BY <1>1, <1>4 DEF Served, Asks, Heard
  <2>5. Concludes(q) => Concludes(q)'
    BY <1>1, <1>4, <1>7 DEF Concludes, Asks, Heard, NobodyServes
  <2>6. Over(q) => Over(q)'
    BY <1>1, <1>4 DEF Over, NobodyServes
  <2> QED BY <1>9, <2>2, <2>3, <2>4, <2>5, <2>6 DEF Exchanging
<1> QED BY <1>5, <1>6, <1>8, <1>9 DEF CellInv

\* A server that sees its devices where it wants them sees them where they are.
LEMMA ServersKept ==
  ASSUME TypeOK, CellInv, LoadServer \/ UnloadServer \/ \E q \in Requests : ServerTimesOut(q)
  PROVE  CellInv'
<1>1. /\ UNCHANGED <<cnc, req, resp, pos, stream, toClient, toCnc, client, topic, queue, capture, sim>>
      /\ \A a \in Agents : (NoNews(a) => NoNews(a)') /\ \A q : News(a, q) => News(a, q)'
  <2>1. UNCHANGED <<tool, stream, toClient, toCnc, client, topic, simulation>>
    BY DEF LoadServer, UnloadServer, ServerTimesOut
  <2>2. UNCHANGED <<cnc, req, resp, pos, stream, toClient, toCnc, client, topic, queue, capture, sim>>
    BY <2>1 DEF tool, simulation
  <2> QED BY <2>2, NewsStays
<1>2. CASE Broken
  BY <1>1, <1>2, BrokenStays
<1>3. ASSUME NEW q \in Requests, NEW result \in {"succeeded", "aborted"}, Served(q), ~Before(q), During(q) => Done(q), Seeing(q),
             server' = [server EXCEPT ![q] = result]
      PROVE  CellInv'
  <2>1. Done(q)
    BY <1>3 DEF Served
  <2>2. Done(q)'
    BY <1>1, <2>1, PhasesStay
  <2>3. server' = [p \in Requests |-> IF p = q THEN result ELSE "none"]
    BY <1>3 DEF Served
  <2>4. Concludes(q)'
    BY <1>1, <1>3, <2>2, <2>3 DEF Concludes, Served, Asks, Heard, Seeing
  <2> QED BY <2>4 DEF CellInv, Exchanging
<1>4. \A q \in Requests : server[q] = "execute" /\ ~Broken => Served(q) /\ Unseen(q)
  BY WhereItIs DEF Concludes, NobodyServes
<1>5. pos \in [{"door", "chuck"} -> {"OPEN", "CLOSED", "UNLATCHED"}] /\ resp \in [Responses -> ResponseStates]
  BY DEF TypeOK
<1>6. CASE LoadServer /\ ~Broken
  <2>1. Served("load") /\ Unseen("load") /\ Loaded
    BY <1>4, <1>6 DEF LoadServer, Requests
  <2>2. pos["door"] = "CLOSED" /\ resp["closeDoor"] = "ready" /\ Seeing("load")
    BY <2>1 DEF Unseen, Loaded, Seeing
  <2>3. ~Before("load")
    BY <2>2 DEF Before, Rest, Begins
  <2>4. ASSUME During("load") PROVE Done("load")
    <3>1. Silent /\ sim.at = "closeDoor" /\ sim.sent /\ Works("closeDoor") /\ pos["chuck"] = "CLOSED"
      BY <2>2, <2>4 DEF During, Rest, Begins, Ends, Opening, Closing, Device, Requests
    <3>2. resp = [r \in Responses |-> "ready"]
      BY <1>5, <2>2, <3>1 DEF Works
    <3>3. pos = [d \in {"door", "chuck"} |-> "CLOSED"]
      BY <1>5, <2>2, <3>1
    <3> QED BY <3>1, <3>2, <3>3 DEF Done, Rest, Ends, Closing
  <2>5. PICK result \in {"succeeded", "aborted"} : server' = [server EXCEPT !["load"] = result]
    BY <1>6 DEF LoadServer
  <2>6. "load" \in Requests
    BY DEF Requests
  <2> QED BY <1>3, <2>1, <2>2, <2>3, <2>4, <2>5, <2>6
<1>7. CASE UnloadServer /\ ~Broken
  <2>1. Served("unload") /\ Unseen("unload") /\ Unloaded
    BY <1>4, <1>7 DEF UnloadServer, Requests
  <2>2. pos["chuck"] = "OPEN" /\ resp["openChuck"] = "ready" /\ Seeing("unload")
    BY <2>1 DEF Unseen, Unloaded, Seeing
  <2>3. ~Before("unload")
    BY <2>2 DEF Before, Rest, Begins
  <2>4. ASSUME During("unload") PROVE Done("unload")
    <3>1. Silent /\ sim.at = "openChuck" /\ sim.sent /\ Works("openChuck") /\ pos["door"] = "OPEN"
      BY <2>2, <2>4 DEF During, Rest, Begins, Ends, Opening, Closing, Device, Requests
    <3>2. resp = [r \in Responses |-> "ready"]
      BY <1>5, <2>2, <3>1 DEF Works
    <3>3. pos = [d \in {"door", "chuck"} |-> "OPEN"]
      BY <1>5, <2>2, <3>1
    <3> QED BY <3>1, <3>2, <3>3 DEF Done, Rest, Ends, Closing
  <2>5. server' = [server EXCEPT !["unload"] = "succeeded"]
    BY <1>7 DEF UnloadServer
  <2>6. "unload" \in Requests
    BY DEF Requests
  <2> QED BY <1>3, <2>1, <2>2, <2>3, <2>4, <2>5, <2>6
<1>8. CASE (\E q \in Requests : ServerTimesOut(q)) /\ ~Broken
  BY <1>8, WhereItIs DEF ServerTimesOut
<1> QED BY <1>2, <1>6, <1>7, <1>8

-----------------------------------------------------------------------------
(* The machine tool                                                         *)

\* What is told reaches the simulation and the client; nothing but ACTIVE is news.
LEMMA ToldOn ==
  ASSUME TypeOK, NEW s \in Seq(Changes), Tell(s), UNCHANGED <<pos, resp, sim, queue>>,
         Silent, Quiet(toClient)
  PROVE  /\ Quiet(s) => /\ Quiet(toClient')
                        /\ \A q : Done(q) => Done(q)'
         /\ \A q \in Requests : Once(s, q) /\ Done(Other(q)) =>
              Before(q)' /\ Unanswered(q)' /\ Once(toClient', q)
<1>1. s \in Seq(Entries) /\ toClient \in Seq(Changes) /\ stream["cnc"] \in Seq(Entries)
  <2>1. s \in Seq(Entries)
    BY SeqMonotonic DEF Entries, Changes
  <2> QED BY <2>1 DEF TypeOK, Entries, Changes, Agents
<1>2. stream' = [stream EXCEPT !["cnc"] = stream["cnc"] \o s] /\ toClient' = toClient \o s /\ "cnc" \in Agents
  BY DEF Tell, Agents
<1>3. /\ Quiet(s) => NoNews("cnc")'
      /\ \A q : Once(s, q) => News("cnc", q)'
      /\ NoNews("robot")' /\ \A q : News("robot", q)'
  <2>1. NoNews("cnc") /\ NoNews("robot") /\ "robot" \in Agents
    BY DEF Silent, Agents
  <2>2. /\ Quiet(s) => NoNews("cnc")'
        /\ \A q : Once(s, q) => News("cnc", q)'
        /\ NoNews("robot")'
    BY <1>1, <1>2, <2>1, NewsTold
  <2> QED BY <2>2 DEF News
<1>4. (Quiet(s) => Quiet(toClient')) /\ \A q : Once(s, q) => Once(toClient', q)
  BY <1>1, <1>2, QuietConcat
<1>5. ASSUME Quiet(s) PROVE \A q : Done(q) => Done(q)'
  <2>1. Silent'
    BY <1>3, <1>5 DEF Silent, Agents
  <2> QED BY <2>1 DEF Done, Rest, Polls
<1>6. ASSUME NEW q \in Requests, Once(s, q) PROVE (\A a \in Agents : News(a, q)') /\ NoNews("robot")' /\ Once(toClient', q)
  BY <1>3, <1>4, <1>6 DEF Agents
<1>7. ASSUME NEW q \in Requests, Once(s, q), Done(Other(q)) PROVE Before(q)' /\ Unanswered(q)'
  <2>1. Ends(Other(q)) = Begins(q)
    BY DEF Ends, Begins, Other, Requests
  <2>2. Rest(Begins(q))'
    BY <1>7, <2>1 DEF Done, Rest
  <2>3. CASE sim.at = Closing[Other(q)] /\ sim.sent
    BY <1>6, <1>7, <2>2, <2>3 DEF Before, Unanswered
  <2>4. CASE Polls /\ sim.sequence = "none" /\ \A a \in Agents : ~sim.state[a]
    <3>1. ~sim.state["robot"]
      BY <2>4 DEF Agents
    <3> QED BY <1>6, <1>7, <2>2, <2>4, <3>1 DEF Before, Unanswered, Polls
  <2> QED BY <1>7, <2>3, <2>4 DEF Done
<1> QED BY <1>4, <1>5, <1>6, <1>7

LEMMA OneChange == \A q \in Requests, v \in RequestStates : << <<q, v>> >> \in Seq(Changes)
BY DEF Changes

LEMMA TalkerKept == TypeOK /\ CellInv /\ Talker => CellInv'
<1> SUFFICES ASSUME TypeOK, CellInv, Talker PROVE CellInv'
  OBVIOUS
<1>1. Unstarted /\ sim.at # "connect"
  BY WhereItIs DEF Talker
<1>2. PICK s \in Seq(Changes) : s = << <<"load", "active">> >> /\ Once(s, "load")
  <2>1. << <<"load", "active">> >> \in Seq(Changes)
    BY OneChange DEF Requests, RequestStates
  <2> QED BY <2>1, QuietTells
<1>3. /\ stream' = [stream EXCEPT !["cnc"] = stream["cnc"] \o s] /\ toClient' = toClient \o s
      /\ UNCHANGED <<pos, toCnc, client, server, topic, queue, sim>>
  BY <1>2 DEF Talker, Tell, bridge, simulation
<1>4. News("cnc", "load")' /\ NoNews("robot")' /\ News("robot", "load")'
  <2>1. s \in Seq(Entries) /\ "cnc" \in Agents /\ "robot" \in Agents /\ NoNews("cnc") /\ NoNews("robot") /\ queue' = queue
    <3>1. s \in Seq(Entries)
      BY <1>2, SeqMonotonic DEF Entries, Changes
    <3> QED BY <1>1, <1>3, <3>1 DEF Agents, Unstarted, Looks, Silent
  <2>2. News("cnc", "load")' /\ NoNews("robot")'
    BY <1>2, <1>3, <2>1, NewsTold
  <2> QED BY <2>2 DEF News
<1>5. Once(toClient', "load")
  <2>1. toClient' = s
    BY <1>1, <1>2, <1>3, ConcatEmptySeq DEF Unstarted
  <2> QED BY <1>2, <2>1
<1>6. Before("load")'
  <2>1. Rest("OPEN")'
    BY <1>1, <1>3 DEF Unstarted, Talker, Rest
  <2>2. Polls' /\ sim'.sequence = "none" /\ \A a \in Agents : ~sim'.state[a]
    BY <1>1, <1>3 DEF Unstarted, Looks, Polls
  <2> QED BY <1>4, <2>1, <2>2 DEF Before, Begins, Agents
<1>7. Unanswered("load")'
  BY <1>1, <1>3, <1>4 DEF Unanswered, Unstarted, Looks, Agents
<1>8. cnc' = "loading" /\ req'["load"] = "active" /\ req'["unload"] = "not_ready"
  BY <1>1 DEF Talker, Ask, Transfer, TypeOK, Requests, Unstarted
<1>9. Asked("load")'
  BY <1>1, <1>3, <1>5, <1>6, <1>7, <1>8 DEF Asked, Asks, Transfer, Other, Unstarted, NobodyServes
<1>10. Unseen("load")'
  BY <1>1, <1>3 DEF Unseen, Unstarted
<1> QED BY <1>9, <1>10 DEF CellInv, Exchanging, Requests

LEMMA CycleDoneKept == TypeOK /\ CellInv /\ CycleDone => CellInv'
<1> SUFFICES ASSUME TypeOK, CellInv, CycleDone PROVE CellInv'
  OBVIOUS
<1>1. Cycles
  BY WhereItIs DEF CycleDone
<1>2. PICK s \in Seq(Changes) : s = << <<"unload", "active">> >> /\ Once(s, "unload")
  <2>1. << <<"unload", "active">> >> \in Seq(Changes)
    BY OneChange DEF Requests, RequestStates
  <2> QED BY <2>1, QuietTells
<1>3. Tell(s) /\ UNCHANGED <<pos, resp, toCnc, client, server, topic, queue, sim>>
  BY <1>2 DEF CycleDone, bridge, simulation
<1>4. "unload" \in Requests /\ Other("unload") = "load" /\ Silent /\ Quiet(toClient) /\ Done("load")
  BY <1>1 DEF Requests, Other, Cycles, Done
<1>5. Before("unload")' /\ Unanswered("unload")' /\ Once(toClient', "unload")
  BY <1>2, <1>3, <1>4, ToldOn
<1>6. cnc' = "unloading" /\ req'["unload"] = "active" /\ req'["load"] = "not_ready"
  BY <1>1 DEF CycleDone, Ask, Transfer, TypeOK, Requests, Cycles
<1>7. Asked("unload")'
  BY <1>1, <1>3, <1>4, <1>5, <1>6 DEF Asked, Asks, Transfer, Cycles, NobodyServes
<1>8. Unseen("unload")'
  BY <1>1, <1>3 DEF Unseen, Cycles, Seeing
<1> QED BY <1>4, <1>7, <1>8 DEF CellInv, Exchanging

LEMMA RequestOverKept == TypeOK /\ CellInv /\ RequestOver => CellInv'
<1> SUFFICES ASSUME TypeOK, CellInv, RequestOver PROVE CellInv'
  OBVIOUS
<1>1. PICK q \in Requests : req[q] = "fail" /\ req' = [req EXCEPT ![q] = "ready"] /\ Tell(<< <<q, "ready">> >>)
  BY DEF RequestOver, RequestDefault
<1>2. Over(q)
  BY <1>1, WhereItIs
<1>3. PICK s \in Seq(Changes) : s = << <<q, "ready">> >> /\ Quiet(s)
  <2>1. << <<q, "ready">> >> \in Seq(Changes)
    BY OneChange DEF RequestStates
  <2> QED BY <2>1, QuietTells
<1>4. cnc' = "idle" /\ Tell(s) /\ UNCHANGED <<pos, resp, toCnc, client, server, topic, queue, sim>>
  BY <1>1, <1>3 DEF RequestOver, bridge, simulation
<1>5. Silent /\ Quiet(toClient) /\ Done(q)
  BY <1>2 DEF Over, Done
<1>6. Quiet(toClient') /\ Done(q)'
  BY <1>3, <1>4, <1>5, ToldOn
<1>7. req'[q] = "ready" /\ req'[Other(q)] = "not_ready"
  BY <1>1, <1>2 DEF Over, TypeOK, Other, Requests
<1>8. Over(q)'
  BY <1>2, <1>4, <1>6, <1>7 DEF Over, NobodyServes
<1> QED BY <1>8 DEF CellInv, Exchanging

LEMMA FirstOfMany ==
  ASSUME NEW S, NEW e \in S, NEW c \in Seq(S)
  PROVE  Head(<<e>> \o c) = e /\ Tail(<<e>> \o c) = c
<1> DEFINE s == <<e>> \o c
<1>1. /\ s \in Seq(S) /\ Len(s) = 1 + Len(c) /\ Len(c) \in Nat
      /\ \A i \in 1..1 + Len(c) : s[i] = IF i <= 1 THEN <<e>>[i] ELSE c[i - 1]
  BY ConcatProperties, LenProperties
<1> HIDE DEF s
<1>2. s # << >> /\ s[1] = e
  BY <1>1
<1>3. Head(s) = s[1] /\ Tail(s) \in Seq(S) /\ Len(Tail(s)) = Len(c) /\ \A i \in 1..Len(c) : Tail(s)[i] = s[i + 1]
  BY <1>1, <1>2, HeadTailProperties
<1>4. \A i \in 1..Len(c) : Tail(s)[i] = c[i]
  BY <1>1, <1>3
<1>5. Tail(s) = c
  BY <1>1, <1>3, <1>4, SeqEqual
<1> QED BY <1>2, <1>3, <1>5 DEF s

\* ACTIVE begins the transfer, and is told to nobody.
LEMMA HearsActive ==
  ASSUME TypeOK, CncHears, NEW q \in Requests, NEW c, req[q] = "active",
         toCnc = << <<q, "active">> >> \o c,
         c = << >> \/ \E v \in {"complete", "failure"} : c = << <<q, v>> >>
  PROVE  /\ UNCHANGED <<cnc, resp, pos, stream, toClient, bridge, simulation>>
         /\ toCnc' = c /\ req' = [req EXCEPT ![q] = "processing"]
<1>1. Head(toCnc) = <<q, "active">> /\ Tail(toCnc) = c
  <2>1. c \in Seq(Requests \X PeerValues)
    <3>1. \A v \in {"complete", "failure"} : <<q, v>> \in Requests \X PeerValues
      BY DEF PeerValues
    <3>2. \A v \in {"complete", "failure"} : << <<q, v>> >> \in Seq(Requests \X PeerValues)
      BY <3>1
    <3>3. << >> \in Seq(Requests \X PeerValues)
      OBVIOUS
    <3> QED BY <3>2, <3>3, Zenon
  <2>2. <<q, "active">> \in Requests \X PeerValues
    BY DEF PeerValues
  <2> QED BY <2>1, <2>2, FirstOfMany
<1>2. RequestNext("active", "active") = "processing"
  BY DEF RequestNext, RequestEvents
<1>3. Head(toCnc)[1] = q /\ Head(toCnc)[2] = "active" /\ RequestNext(req[q], "active") = "processing"
  BY <1>1, <1>2
<1>4. UNCHANGED <<resp, pos, bridge, simulation>> /\ toCnc' = c
  BY <1>1 DEF CncHears
<1>5. Tell(<< >>) /\ req' = [req EXCEPT ![q] = "processing"] /\ cnc' = cnc
  BY <1>3 DEF CncHears
<1>6. stream["cnc"] \in Seq(Entries) /\ toClient \in Seq(Changes) /\ stream \in [Agents -> Seq(Entries)]
  BY DEF TypeOK, Entries, Changes, Agents
<1>7. toClient \o << >> = toClient /\ stream["cnc"] \o << >> = stream["cnc"]
  BY <1>6, ConcatEmptySeq
<1>8. toClient' = toClient /\ stream' = [stream EXCEPT !["cnc"] = stream["cnc"]]
  BY <1>5, <1>7 DEF Tell
<1>9. stream' = stream
  BY <1>6, <1>8
<1> QED BY <1>4, <1>5, <1>8, <1>9

\* The answer that ends the transfer.
LEMMA HearsAnswer ==
  ASSUME TypeOK, CncHears, NEW q \in Requests, NEW v \in {"complete", "failure"},
         req[q] = "processing", toCnc = << <<q, v>> >>
  PROVE  /\ UNCHANGED <<resp, pos, bridge, simulation>> /\ toCnc' = << >>
         /\ v = "complete" /\ q = "unload" =>
              /\ Tell(<< <<q, "not_ready">>, <<"load", "active">> >>)
              /\ cnc' = "loading" /\ req' = [req EXCEPT ![q] = "not_ready", !["load"] = "active"]
         /\ v = "complete" /\ q = "load" =>
              /\ Tell(<< <<q, "not_ready">> >>)
              /\ cnc' = (IF AllClosed THEN "cycle_start" ELSE "fault") /\ req' = [req EXCEPT ![q] = "not_ready"]
         /\ v = "failure" => /\ Tell(<< <<q, "fail">> >>) /\ cnc' = cnc /\ req' = [req EXCEPT ![q] = "fail"]
<1>1. Head(toCnc) = <<q, v>> /\ Tail(toCnc) = << >>
  OBVIOUS
<1>2. RequestNext("processing", "complete") = "not_ready" /\ RequestNext("processing", "failure") = "fail"
  BY DEF RequestNext, RequestEvents, RequestDefault
<1>3. Head(toCnc)[1] = q /\ Head(toCnc)[2] = v /\ RequestNext(req[q], v) = IF v = "complete" THEN "not_ready" ELSE "fail"
  BY <1>1, <1>2
<1>4. UNCHANGED <<resp, pos, bridge, simulation>> /\ toCnc' = << >>
  BY <1>1 DEF CncHears
<1>5. CASE v = "complete" /\ q = "unload"
  BY <1>3, <1>4, <1>5 DEF CncHears
<1>6. CASE v = "complete" /\ q = "load"
  BY <1>3, <1>4, <1>6 DEF CncHears
<1>7. CASE v = "failure"
  BY <1>3, <1>4, <1>7 DEF CncHears
<1> QED BY <1>5, <1>6, <1>7 DEF Requests

LEMMA CncHearsKept == TypeOK /\ CellInv /\ CncHears => CellInv'
<1> SUFFICES ASSUME TypeOK, CellInv, CncHears PROVE CellInv'
  OBVIOUS
<1>1. toCnc # << >> /\ UNCHANGED <<resp, pos, client, server, topic, queue, sim>>
  BY DEF CncHears, bridge, simulation
<1>2. CASE Broken
  <2>1. Head(toCnc) \in Requests \X PeerValues
    BY <1>1, HeadTailProperties DEF TypeOK
  <2>2. PICK p \in Requests, v \in PeerValues : Head(toCnc)[1] = p /\ Head(toCnc)[2] = v
    BY <2>1
  <2>3. \A u \in PeerValues : RequestNext("not_ready", u) = "not_ready"
    BY DEF RequestNext, RequestEvents, RequestDefault, PeerValues
  <2>4. req[p] = "not_ready" /\ RequestNext(req[p], v) = req[p]
    BY <1>2, <2>2, <2>3 DEF Broken
  <2>5. UNCHANGED <<cnc, req>>
    BY <2>2, <2>4 DEF CncHears
  <2> QED BY <1>1, <1>2, <2>5, BrokenStays
\* A change the machine tool tells nobody about.
<1>3. ASSUME NEW q \in Requests, NEW c, Asks(q), req[q] = "active",
             toCnc = << <<q, "active">> >> \o c,
         c = << >> \/ \E v \in {"complete", "failure"} : c = << <<q, v>> >>
      PROVE  /\ Asks(q)' /\ Heard(q, c)' /\ UNCHANGED <<stream, toClient>>
             /\ (Before(q) => Before(q)') /\ (During(q) => During(q)') /\ (Done(q) => Done(q)')
  <2>1. UNCHANGED <<cnc, stream, toClient>> /\ toCnc' = c /\ req' = [req EXCEPT ![q] = "processing"]
    BY <1>3, HearsActive
  <2>2. req'[q] = "processing" /\ req'[Other(q)] = "not_ready"
    BY <1>3, <2>1 DEF TypeOK, Asks, Other, Requests
  <2>3. \A a \in Agents : (NoNews(a) => NoNews(a)') /\ \A p : News(a, p) => News(a, p)'
    BY <1>1, <2>1, NewsStays
  <2>4. (Before(q) => Before(q)') /\ (During(q) => During(q)') /\ (Done(q) => Done(q)')
    BY <1>1, <2>3, PhasesStay
  <2>5. Asks(q)' /\ Heard(q, c)'
    BY <1>3, <2>1, <2>2 DEF Asks, Heard
  <2> QED BY <2>1, <2>4, <2>5
<1>4. ASSUME NEW q \in Requests, Served(q), Unseen(q) PROVE CellInv'
  <2>1. req[q] = "active" /\ toCnc = << <<q, "active">> >> \o << >> /\ Asks(q)
    BY <1>1, <1>4 DEF Served, Heard
  <2>2. /\ Asks(q)' /\ Heard(q, << >>)' /\ UNCHANGED <<stream, toClient>>
        /\ (Before(q) => Before(q)') /\ (During(q) => During(q)') /\ (Done(q) => Done(q)')
    BY <1>3, <2>1
  <2>3. Served(q)' /\ Unseen(q)'
    BY <1>1, <1>4, <2>2 DEF Served, Unseen
  <2> QED BY <2>3 DEF CellInv, Exchanging
<1>5. ASSUME NEW q \in Requests, Concludes(q) PROVE CellInv'
  <2>1. CASE req[q] = "active"
    <3>1. PICK c : /\ Heard(q, c)
                   /\ c = << >> \/ \E v \in {"complete", "failure"} : c = << <<q, v>> >>
                   /\ \/ c = << >> /\ client = q /\ \E result \in {"succeeded", "aborted"} :
                           server = [p \in Requests |-> IF p = q THEN result ELSE "none"]
                      \/ NobodyServes /\ \E v \in {"complete", "failure"} : c = << <<q, v>> >>
      BY <1>5 DEF Concludes
    <3>2. toCnc = << <<q, "active">> >> \o c /\ Asks(q)
      BY <1>5, <2>1, <3>1 DEF Heard, Concludes
    <3>3. /\ Asks(q)' /\ Heard(q, c)' /\ UNCHANGED <<stream, toClient>>
          /\ (Done(q) => Done(q)')
      BY <1>3, <2>1, <3>1, <3>2
    <3>4. Concludes(q)'
      BY <1>1, <1>5, <3>1, <3>3 DEF Concludes, NobodyServes, Seeing
    <3> QED BY <3>4 DEF CellInv, Exchanging
  <2>2. CASE req[q] = "processing"
    <3>1. PICK v \in {"complete", "failure"} : toCnc = << <<q, v>> >> /\ NobodyServes
      BY <1>1, <1>5, <2>2 DEF Concludes, Heard
    <3>2. Silent /\ Quiet(toClient) /\ Done(q) /\ Asks(q) /\ Seeing(q)
      BY <1>5 DEF Concludes, Done
    <3>3. toCnc' = << >> /\ NobodyServes'
      BY <1>1, <2>2, <3>1, HearsAnswer DEF NobodyServes
    <3>4. \A w \in {"not_ready", "fail"} : << <<q, w>> >> \in Seq(Changes) /\ Quiet(<< <<q, w>> >>)
      <4>1. \A w \in {"not_ready", "fail"} : << <<q, w>> >> \in Seq(Changes)
        BY OneChange DEF RequestStates
      <4> QED BY <4>1, QuietTells
    <3>5. CASE v = "failure"
      <4>1. Tell(<< <<q, "fail">> >>) /\ cnc' = cnc /\ req' = [req EXCEPT ![q] = "fail"]
        BY <2>2, <3>1, <3>5, HearsAnswer
      <4>2. PICK s \in Seq(Changes) : Tell(s) /\ Quiet(s)
        BY <3>4, <4>1
      <4>3. Quiet(toClient') /\ Done(q)'
        BY <1>1, <3>2, <4>2, ToldOn
      <4>4. req'[q] = "fail" /\ req'[Other(q)] = "not_ready"
        BY <3>2, <4>1 DEF Asks, TypeOK, Other, Requests
      <4>5. Over(q)'
        BY <3>2, <3>3, <4>1, <4>3, <4>4 DEF Over, Asks
      <4> QED BY <4>5 DEF CellInv, Exchanging
    <3>6. CASE v = "complete" /\ q = "load"
      <4>1. Tell(<< <<q, "not_ready">> >>) /\ cnc' = (IF AllClosed THEN "cycle_start" ELSE "fault")
            /\ req' = [req EXCEPT ![q] = "not_ready"]
        BY <2>2, <3>1, <3>6, HearsAnswer
      <4>2. PICK s \in Seq(Changes) : Tell(s) /\ Quiet(s)
        BY <3>4, <4>1
      <4>3. Quiet(toClient') /\ Done(q)'
        BY <1>1, <3>2, <4>2, ToldOn
      <4>4. AllClosed
        BY <3>2, <3>6 DEF AllClosed, Done, Rest, Ends
      <4>5. \A p \in Requests : req'[p] = "not_ready"
        BY <3>2, <3>6, <4>1 DEF Asks, TypeOK, Other, Requests
      <4>6. Cycles'
        BY <1>1, <3>2, <3>3, <3>6, <4>1, <4>3, <4>4, <4>5 DEF Cycles, Seeing
      <4> QED BY <4>6 DEF CellInv
    <3>7. CASE v = "complete" /\ q = "unload"
      <4>1. /\ Tell(<< <<q, "not_ready">>, <<"load", "active">> >>)
            /\ cnc' = "loading" /\ req' = [req EXCEPT ![q] = "not_ready", !["load"] = "active"]
        BY <2>2, <3>1, <3>7, HearsAnswer
      <4>2. << <<q, "not_ready">>, <<"load", "active">> >> \in Seq(Changes)
        <5>1. <<q, "not_ready">> \in Changes /\ <<"load", "active">> \in Changes
          BY DEF Changes, Requests, RequestStates
        <5> QED BY <5>1
      <4>3. Once(<< <<q, "not_ready">>, <<"load", "active">> >>, "load")
        <5>1. "not_ready" # "active"
          OBVIOUS
        <5> QED BY <5>1, QuietTells
      <4>4. PICK s \in Seq(Changes) : Tell(s) /\ Once(s, "load")
        BY <4>1, <4>2, <4>3
      <4>5. "load" \in Requests /\ Other("load") = q
        BY <3>7 DEF Requests, Other
      <4>6. Before("load")' /\ Unanswered("load")' /\ Once(toClient', "load")
        BY <1>1, <3>2, <4>4, <4>5, ToldOn
      <4>7. req'["load"] = "active" /\ req'["unload"] = "not_ready"
        BY <3>7, <4>1 DEF TypeOK, Requests
      <4>8. Asked("load")'
        BY <3>3, <3>7, <4>1, <4>5, <4>6, <4>7 DEF Asked, Asks, Transfer
      <4>9. Unseen("load")'
        BY <1>1, <3>2, <3>7 DEF Unseen, Seeing
      <4> QED BY <4>5, <4>8, <4>9 DEF CellInv, Exchanging
    <3> QED BY <3>5, <3>6, <3>7 DEF Requests
  <2> QED BY <1>5, <2>1, <2>2 DEF Concludes, Heard
<1> QED BY <1>1, <1>2, <1>4, <1>5, WhereItIs

-----------------------------------------------------------------------------
(* The cell                                                                 *)

LEMMA CellStep == TypeOK /\ CellInv /\ [Next]_vars => CellInv'
<1> SUFFICES ASSUME TypeOK, CellInv, [Next]_vars PROVE CellInv'
  OBVIOUS
<1>1. CASE UNCHANGED vars
  <2>1. UNCHANGED <<tool, toClient, toCnc, bridge>> /\ UNCHANGED <<pos, resp, sim>>
    BY <1>1 DEF vars, tool, bridge
  <2>2. \A a \in Agents : (NoNews(a) => NoNews(a)') /\ \A q : News(a, q) => News(a, q)'
    BY <1>1, NewsStays DEF vars
  <2> QED BY <2>1, <2>2, PhasesStay, SimulationGoesOn
<1>2. CASE Next
  <2>1. CASE \E a \in Agents : XmlCallback(a)
    BY <2>1, XmlCallbackKept
  <2>2. CASE \E r \in Responses : Send(r) \/ DeviceMoves(r) \/ Acknowledge(r)
    BY <2>2, SendKept, DeviceMovesKept, AcknowledgeKept
  <2>3. CASE LoadServer \/ UnloadServer \/ \E q \in Requests : ServerTimesOut(q)
    BY <2>3, ServersKept
  <2> QED BY <1>2, <2>1, <2>2, <2>3, TalkerKept, CncHearsKept, CycleDoneKept, RequestOverKept,
             ClientTakesKept, ClientAnswersKept, PublishTopicKept, ConnectKept, PollCncKept, PollRobotKept,
             SecondDeviceKept, SequenceDoneKept DEF Next
<1> QED BY <1>1, <1>2

LEMMA CellStarts == Init => CellInv
<1> SUFFICES ASSUME Init PROVE Unstarted
  BY DEF CellInv
<1>1. /\ sim.at = "connect" /\ ~sim.sent /\ sim.sequence = "none" /\ \A a \in Agents : ~sim.state[a]
  BY DEF Init, Idle
<1>2. topic.door = "OPEN"
  BY DEF Init, Published
<1>3. \A a \in Agents : NoNews(a)
  <2>1. \A a \in Agents : Len(queue[a]) = 0 /\ Quiet(stream[a])
    BY QuietTells DEF Init
  <2> QED BY <2>1 DEF NoNews
<1> QED BY <1>1, <1>2, <1>3 DEF Init, Unstarted, Looks, Silent, NobodyServes

LEMMA CellKept == Spec => [](TypeOK /\ CellInv)
<1>1. Init => CellInv
  BY CellStarts
<1>2. TypeOK /\ CellInv /\ [Next]_vars => CellInv'
  BY CellStep
<1> QED BY <1>1, <1>2, CellTyped, PTL DEF Spec

\* The machine tool finds its door and its chuck shut when it starts its cycle, though the load
\* server knows them from a topic that lags, and the simulation takes no notice of a client that
\* fails: only a device that fails faults it.
THEOREM CyclesStartShut == Spec => []CycleStartsShut
<1>1. TypeOK /\ CellInv => CycleStartsShut
  BY WhereItIs DEF CycleStartsShut, Broken
<1> QED BY <1>1, CellKept, PTL

\* Whatever the simulation still has in its queues and its variables, it moves a device only in
\* the exchange that is under way.
THEOREM MovesInExchange == Spec => DevicesMoveInExchange
<1> DEFINE Moves(r) == resp[r] = "ready" /\ resp'[r] \in {"active", "complete"}
           Under(r) == LET q == IF r \in {"closeDoor", "closeChuck"} THEN "load" ELSE "unload"
                       IN  cnc = Transfer(q) /\ req[q] \in {"active", "processing"}
<1>1. TypeOK /\ CellInv /\ [Next]_vars => [\A r \in Responses : Moves(r) => Under(r)]_vars
  <2> SUFFICES ASSUME TypeOK, CellInv, Next, NEW r \in Responses, Moves(r) PROVE Under(r)
    OBVIOUS
  <2>1. resp \in [Responses -> ResponseStates]
    BY DEF TypeOK
  <2>2. Send(r)
    <3>1. CASE Talker
      BY <3>1, WhereItIs DEF Talker, Unstarted
    <3>2. ASSUME NEW s \in Responses, DeviceMoves(s) PROVE Send(r)
      BY <2>1, <3>2 DEF DeviceMoves
    <3>3. ASSUME NEW s \in Responses, Acknowledge(s) PROVE Send(r)
      BY <2>1, <3>3 DEF Acknowledge
    <3>4. ASSUME NEW s \in Responses, Send(s) PROVE Send(r)
      <4>1. s # r => resp'[r] = resp[r]
        BY <2>1, <3>4 DEF Send
      <4> QED BY <3>4, <4>1
    <3>5. CASE UNCHANGED resp
      BY <3>5
    <3>6. CASE CncHears \/ CycleDone \/ RequestOver \/ ClientTakes \/ ClientAnswers \/ PublishTopic
      BY <3>5, <3>6 DEF CncHears, CycleDone, RequestOver, ClientTakes, ClientAnswers, PublishTopic, tool
    <3>7. CASE LoadServer \/ UnloadServer \/ \E q \in Requests : ServerTimesOut(q)
      BY <3>5, <3>7 DEF LoadServer, UnloadServer, ServerTimesOut, tool
    <3>8. CASE Connect \/ (\E a \in Agents : XmlCallback(a)) \/ PollCnc \/ PollRobot \/ SecondDevice \/ SequenceDone
      BY <3>5, <3>8 DEF Connect, XmlCallback, PollCnc, PollRobot, Poll, SecondDevice, SequenceDone, tool
    <3> QED BY <3>1, <3>2, <3>3, <3>4, <3>6, <3>7, <3>8 DEF Next
  <2>3. cnc # "fault"
    BY WhereItIs DEF Broken
  <2>4. sim.at = r /\ ~sim.sent
    BY <2>2 DEF Send
  <2>5. PICK q \in Requests : Served(q) /\ During(q)
    BY <2>3, <2>4, WhereItWorks
  <2>6. r \in {Opening[q], Closing[q]}
    BY <2>4, <2>5, Stages
  <2>7. cnc = Transfer(q) /\ req[q] \in {"active", "processing"}
    BY <2>5 DEF Served, Asks, Heard
  <2>8. q = IF r \in {"closeDoor", "closeChuck"} THEN "load" ELSE "unload"
    BY <2>6 DEF Opening, Closing, Requests
  <2> QED BY <2>7, <2>8
<1>2. [\A r \in Responses : Moves(r) => Under(r)]_vars <=>
        [\A r \in Responses : resp[r] = "ready" /\ resp'[r] \in {"active", "complete"} =>
           LET q == IF r \in {"closeDoor", "closeChuck"} THEN "load" ELSE "unload"
           IN  cnc = Transfer(q) /\ req[q] \in {"active", "processing"}]_vars
  OBVIOUS
<1> QED BY <1>1, CellKept, PTL DEF Spec, DevicesMoveInExchange
=============================================================================
