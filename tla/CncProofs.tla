----------------------------- MODULE CncProofs -----------------------------
(* The machine tool keeps its promises for any robot, any interruptions and *)
(* any number of threads asleep.                                            *)
(*                                                                         *)
(* An event turns the context into another by way of contexts the machine   *)
(* is never seen in.  The lemmas follow it: what each operator makes of any  *)
(* context, and when the outcome is a good one.                             *)
EXTENDS CncSafety, TLAPS

\* A context on its way: any number of threads may be asleep.
Context ==
  [cnc : CncStates, hist : CncLeaves, has : BOOLEAN, link : BOOLEAN, system : BOOLEAN,
   faults : BOOLEAN, robot : BOOLEAN,
   req : [Requests -> RequestStates], timer : [Requests -> BOOLEAN],
   late : [Requests -> Nat], pending : Requests \cup {"none"},
   resp : [Responses -> ResponseStates], active : BOOLEAN,
   moving : [Responses -> Nat], resets : [Responses -> Nat],
   pos : [{"door", "chuck"} -> {"OPEN", "UNLATCHED", "CLOSED"}],
   exec : BOOLEAN, cycles : Nat, failing : SUBSET (Responses \cup {"exec"})]

\* The leaf in which a request is the machine's own.
Leaf(q) == IF q = "load" THEN "loading" ELSE "unloading"

\* A request is made in its leaf, or offered while the machine idles; an offer the robot has
\* just taken waits for the second event of its READY.
Exchanges(x) ==
  \A q \in Requests :
    /\ x.req[q] # "not_ready" => x.cnc \in {Leaf(q), "idle"}
    /\ x.req[q] \in {"processing", "fail"} => x.cnc = Leaf(q)
    /\ x.req[q] = "active" => x.cnc = Leaf(q) \/ x.pending = q

\* A disabled machine offers no responses, and none can become ready.
Offers(x) ==
  x.cnc \in {"not_ready", "fault"} =>
    ~x.active /\ \A r \in Responses : x.resp[r] \in {"not_ready", "fail"}

\* An active response has its device to itself, and it is on its way.
Devices(x) ==
  \A r \in Responses :
    /\ x.resp[r] = "complete" => x.pos[Device[r]] = Dest[r]
    /\ x.resp[r] = "active" => x.pos[Device[r]] = "UNLATCHED"
    /\ x.resp[r] = "active" => x.resp[Related[r]] # "active"

Timed(x) ==
  \A q \in Requests : x.req[q] \in {"processing", "fail"} => x.timer[q] \/ x.late[q] > 0

\* A robot that keeps to the handshake finds no way to open anything during a cycle.
Shut(x) ==
  PolitePeer /\ x.cnc = "cycle_start" => \A d \in {"door", "chuck"} : x.pos[d] = "CLOSED"

\* Half of it survives whatever is done to the exchange.
Sound(x) == x \in Context /\ Devices(x) /\ Timed(x)
Good(x) == Sound(x) /\ Exchanges(x) /\ Offers(x) /\ Shut(x)

CncInv == TypeOK /\ Good(c)

-----------------------------------------------------------------------------
(* The tables                                                               *)

Events == PeerValues \cup {"activate", "deactivate", "idle", "timeout"}

\* What an event makes of a request.
LEMMA RequestTable ==
  ASSUME NEW s \in RequestStates, NEW e \in Events
  PROVE  /\ RequestNext(s, e) \in RequestStates
         /\ e = "deactivate" => RequestNext(s, e) = "not_ready"
         /\ e = "activate" => RequestNext(s, e) # "not_ready"
         /\ s = "not_ready" /\ e \notin {"activate", "idle"} => RequestNext(s, e) = "not_ready"
         /\ s = "not_ready" /\ e = "idle" => RequestNext(s, e) = "ready"
         /\ s = "ready" /\ e # "activate" => RequestNext(s, e) \in {"not_ready", "ready", "active"}
         /\ s = "ready" /\ e \notin {"activate", "ready"} => RequestNext(s, e) # "active"
         /\ s = "active" /\ e = "timeout" => RequestNext(s, e) = "active"
         /\ s = "processing" /\ e = "complete" => RequestNext(s, e) = "not_ready"
         /\ s = "fail" => RequestNext(s, e) \in {"not_ready", "ready"}
<1>1. CASE s = "not_ready"
  BY <1>1 DEF RequestNext, RequestEvents, RequestDefault, RequestStates, Events, PeerValues
<1>2. CASE s = "ready"
  BY <1>2 DEF RequestNext, RequestEvents, RequestDefault, RequestStates, Events, PeerValues
<1>3. CASE s = "active"
  BY <1>3 DEF RequestNext, RequestEvents, RequestDefault, RequestStates, Events, PeerValues
<1>4. CASE s = "processing"
  BY <1>4 DEF RequestNext, RequestEvents, RequestDefault, RequestStates, Events, PeerValues
<1>5. CASE s = "fail"
  BY <1>5 DEF RequestNext, RequestEvents, RequestDefault, RequestStates, Events, PeerValues
<1> QED BY <1>1, <1>2, <1>3, <1>4, <1>5 DEF RequestStates

\* What an event makes of a response: an active one is left by "complete" or by a failure.
LEMMA ResponseTable ==
  ASSUME NEW s \in ResponseStates, NEW e \in PeerValues
  PROVE  /\ ResponseNext(s, e) \in ResponseStates
         /\ ResponseNext(s, e) = "complete" => s \in {"active", "complete"}
         /\ ResponseNext(s, e) = "active" /\ s # "active" => s = "ready" /\ e = "active"
<1>1. CASE s = "not_ready"
  BY <1>1 DEF ResponseNext, ResponseEvents, ResponseDefault, ResponseStates, PeerValues
<1>2. CASE s = "ready"
  BY <1>2 DEF ResponseNext, ResponseEvents, ResponseDefault, ResponseStates, PeerValues
<1>3. CASE s = "active"
  BY <1>3 DEF ResponseNext, ResponseEvents, ResponseDefault, ResponseStates, PeerValues
<1>4. CASE s = "fail"
  BY <1>4 DEF ResponseNext, ResponseEvents, ResponseDefault, ResponseStates, PeerValues
<1>5. CASE s = "complete"
  BY <1>5 DEF ResponseNext, ResponseEvents, ResponseDefault, ResponseStates, PeerValues
<1> QED BY <1>1, <1>2, <1>3, <1>4, <1>5 DEF ResponseStates

-----------------------------------------------------------------------------
(* Requests                                                                 *)

\* All but the requests and their timers is as before.
SameMachine(x, y) ==
  /\ y.cnc = x.cnc /\ y.has = x.has /\ y.link = x.link /\ y.system = x.system
  /\ y.faults = x.faults /\ y.robot = x.robot /\ y.late = x.late /\ y.pending = x.pending
  /\ y.resp = x.resp /\ y.active = x.active /\ y.moving = x.moving /\ y.resets = x.resets
  /\ y.pos = x.pos /\ y.exec = x.exec /\ y.cycles = x.cycles /\ y.failing = x.failing

\* A request that enters a state touches nothing but itself and its timer.
LEMMA PutLemma ==
  ASSUME NEW x \in Context, NEW q \in Requests, NEW s \in RequestStates
  PROVE  /\ Put(x, q, s) \in Context
         /\ Put(x, q, s).hist = x.hist
         /\ SameMachine(x, Put(x, q, s))
         /\ Put(x, q, s).req = [x.req EXCEPT ![q] = s]
         /\ Timed(x) => Timed(Put(x, q, s))
         /\ Devices(x) => Devices(Put(x, q, s))
<1> DEFINE r == [x.req EXCEPT ![q] = s]
           moves == s # x.req[q] /\ ({s, x.req[q]} \cap {"processing", "fail"} # {})
           t == [x.timer EXCEPT ![q] = IF moves THEN s \in {"processing", "fail"} ELSE @]
           y == [x EXCEPT !.req = r, !.timer = t]
<1>1. r \in [Requests -> RequestStates] /\ t \in [Requests -> BOOLEAN]
  BY DEF Context
<1>2. Put(x, q, s) = y
  BY DEF Put
<1>3. y \in Context /\ y.hist = x.hist /\ SameMachine(x, y) /\ y.req = r /\ y.timer = t
  <2> HIDE DEF r, t
  <2> QED BY <1>1 DEF Context, SameMachine
<1>4. ASSUME Timed(x) PROVE Timed(y)
  <2> SUFFICES ASSUME NEW p \in Requests, r[p] \in {"processing", "fail"}
               PROVE  t[p] \/ x.late[p] > 0
    BY <1>3 DEF Timed, SameMachine
  <2>1. x.req \in [Requests -> RequestStates] /\ x.timer \in [Requests -> BOOLEAN]
    BY DEF Context
  <2>2. x.req[p] \in {"processing", "fail"} => x.timer[p] \/ x.late[p] > 0
    BY <1>4 DEF Timed
  <2>3. CASE p # q
    BY <2>1, <2>2, <2>3
  <2>4. CASE p = q /\ s = x.req[q]
    BY <2>1, <2>2, <2>4
  <2>5. CASE p = q /\ s # x.req[q]
    BY <2>1, <2>5
  <2> QED BY <2>3, <2>4, <2>5
<1>5. Devices(x) => Devices(y)
  BY <1>3 DEF SameMachine, Devices
<1> QED BY <1>2, <1>3, <1>4, <1>5

\* Whatever is done to the requests only.
Follows(x, y) ==
  /\ y \in Context /\ y.hist = x.hist /\ SameMachine(x, y)
  /\ (Timed(x) => Timed(y)) /\ (Devices(x) => Devices(y))

\* Following is reflexive and transitive.
LEMMA FollowsLemma ==
  /\ \A x \in Context : Follows(x, x)
  /\ \A x, y, z : Follows(x, y) /\ Follows(y, z) => Follows(x, z)
BY DEF Follows, SameMachine

\* An event for a request goes through its table.
LEMMA TellLemma ==
  ASSUME NEW x \in Context, NEW q \in Requests, NEW e \in Events
  PROVE  /\ Follows(x, Tell(x, q, e))
         /\ Tell(x, q, e).req = [x.req EXCEPT ![q] = RequestNext(x.req[q], e)]
<1>1. x.req[q] \in RequestStates
  BY DEF Context
<1>2. RequestNext(x.req[q], e) \in RequestStates
  BY <1>1, RequestTable
<1> QED BY <1>2, PutLemma DEF Tell, Follows

\* Withdrawing a request, unless it is reporting.
LEMMA DeactivateLemma ==
  ASSUME NEW x \in Context, NEW q \in Requests, NEW reporting
  PROVE  /\ Follows(x, Deactivate(x, q, reporting))
         /\ Deactivate(x, q, reporting).req =
              [x.req EXCEPT ![q] = IF q = reporting THEN @ ELSE "not_ready"]
<1>1. x.req \in [Requests -> RequestStates] /\ "deactivate" \in Events
  BY DEF Context, Events
<1>2. CASE q = reporting
  BY <1>1, <1>2, FollowsLemma DEF Deactivate
<1>3. CASE q # reporting
  <2>1. RequestNext(x.req[q], "deactivate") = "not_ready"
    BY <1>1, RequestTable
  <2> QED BY <1>1, <1>3, <2>1, TellLemma DEF Deactivate
<1> QED BY <1>2, <1>3

\* Leaving a leaf withdraws its request, unless that one is reporting.
LEMMA ExitLeafLemma ==
  ASSUME NEW x \in Context, NEW reporting
  PROVE  /\ Follows(x, ExitLeaf(x, reporting))
         /\ \A p \in Requests : ExitLeaf(x, reporting).req[p] =
              IF x.cnc = Leaf(p) /\ p # reporting THEN "not_ready" ELSE x.req[p]
<1>1. x.req \in [Requests -> RequestStates]
  BY DEF Context
<1>2. ASSUME NEW q \in Requests, x.cnc = Leaf(q)
      PROVE  /\ Follows(x, ExitLeaf(x, reporting))
             /\ ExitLeaf(x, reporting).req = [x.req EXCEPT ![q] = IF q = reporting THEN @ ELSE "not_ready"]
             /\ \A p \in Requests : x.cnc = Leaf(p) => p = q
  <2>1. ExitLeaf(x, reporting) = Deactivate(x, q, reporting)
    BY <1>2 DEF ExitLeaf, Leaf, Requests
  <2>2. \A p \in Requests : x.cnc = Leaf(p) => p = q
    BY <1>2 DEF Leaf, Requests
  <2> QED BY <2>1, <2>2, DeactivateLemma
<1>3. ASSUME NEW q \in Requests, x.cnc = Leaf(q)
      PROVE  \A p \in Requests : ExitLeaf(x, reporting).req[p] =
                IF x.cnc = Leaf(p) /\ p # reporting THEN "not_ready" ELSE x.req[p]
  BY <1>1, <1>2, <1>3
<1>4. CASE x.cnc \notin {"loading", "unloading"}
  BY <1>1, <1>4, FollowsLemma DEF ExitLeaf, Leaf, Requests
<1> QED BY <1>2, <1>3, <1>4 DEF Leaf, Requests

\* Leaving remembers the leaf and withdraws its request.
LEMMA LeaveLemma ==
  ASSUME NEW x \in Context
  PROVE  /\ Leave(x) \in Context /\ SameMachine(x, Leave(x))
         /\ (Timed(x) => Timed(Leave(x))) /\ (Devices(x) => Devices(Leave(x)))
<1> DEFINE h == IF x.cnc \in CncLeaves THEN x.cnc ELSE x.hist
           y == [x EXCEPT !.hist = h]
<1>1. h \in CncLeaves
  BY DEF Context
<1>2. Leave(x) = ExitLeaf(y, "none")
  BY DEF Leave
<1>3. y \in Context /\ SameMachine(x, y) /\ y.req = x.req /\ y.timer = x.timer
  <2> HIDE DEF h
  <2> QED BY <1>1 DEF Context, SameMachine
<1>4. (Timed(x) => Timed(y)) /\ (Devices(x) => Devices(y))
  BY <1>3 DEF Timed, Devices, SameMachine
<1>5. Follows(y, ExitLeaf(y, "none"))
  BY <1>3, ExitLeafLemma
<1> HIDE DEF y
<1> QED BY <1>2, <1>3, <1>4, <1>5 DEF Follows, SameMachine

-----------------------------------------------------------------------------
(* Faults                                                                   *)

\* Contexts that agree on what the invariant is about are good together.
LEMMA GoodSame ==
  ASSUME NEW x, NEW y \in Context, Good(x),
         y.cnc = x.cnc, y.req = x.req, y.timer = x.timer, y.late = x.late,
         y.pending = x.pending, y.resp = x.resp, y.active = x.active, y.pos = x.pos
  PROVE  Good(y)
BY DEF Good, Sound, Devices, Timed, Exchanges, Offers, Shut

\* A machine that is disabled is good, whatever it was before.
LEMMA DisableLemma ==
  ASSUME NEW x \in Context, NEW to \in {"not_ready", "fault"}
  PROVE  Good(Disable(x, to)) /\ Disable(x, to).pending = x.pending
<1> DEFINE broken == {r \in Responses : x.resp[r] = "active"}
           one    == Tell(x, "load", "deactivate")
           quiet  == Tell(one, "unload", "deactivate")
           leaf   == IF broken = {} THEN to ELSE "fault"
           fault  == x.system \/ broken # {}
           resp   == [r \in Responses |-> IF x.resp[r] \in {"active", "fail"} THEN "fail" ELSE "not_ready"]
           resets == [r \in Responses |-> IF r \in broken THEN x.resets[r] + 1 ELSE x.resets[r]]
           y == [quiet EXCEPT !.cnc = leaf, !.system = fault, !.active = FALSE,
                              !.resp = resp, !.resets = resets]
<1>1. {"load", "unload"} \subseteq Requests /\ "deactivate" \in Events
  BY DEF Requests, Events
<1>2. ASSUME NEW z \in Context, NEW q \in Requests
      PROVE  /\ Follows(z, Tell(z, q, "deactivate"))
             /\ Tell(z, q, "deactivate").req = [z.req EXCEPT ![q] = "not_ready"]
  <2>1. z.req[q] \in RequestStates
    BY DEF Context
  <2>2. RequestNext(z.req[q], "deactivate") = "not_ready"
    BY <1>1, <2>1, RequestTable
  <2> QED BY <1>1, <2>2, TellLemma
<1>3. /\ Follows(x, one) /\ one \in Context /\ one.req = [x.req EXCEPT !["load"] = "not_ready"]
      /\ Follows(one, quiet) /\ quiet.req = [one.req EXCEPT !["unload"] = "not_ready"]
  BY <1>1, <1>2 DEF Follows
<1>4. \A q \in Requests : quiet.req[q] = "not_ready"
  <2>1. x.req \in [Requests -> RequestStates]
    BY DEF Context
  <2> QED BY <1>3, <2>1 DEF Requests
<1>5. Follows(x, quiet)
  BY <1>3, FollowsLemma
<1> HIDE DEF one, quiet
<1>6. Disable(x, to) = y
  <2>1. quiet.system = x.system /\ quiet.resp = x.resp /\ quiet.resets = x.resets
    BY <1>5 DEF Follows, SameMachine
  <2> QED BY <2>1 DEF Disable, quiet, one
<1>7. /\ leaf \in {"not_ready", "fault"} /\ fault \in BOOLEAN
      /\ resp \in [Responses -> {"not_ready", "fail"}] /\ resets \in [Responses -> Nat]
  BY DEF Context
<1>8. /\ y \in Context /\ y.cnc = leaf /\ y.req = quiet.req /\ y.resp = resp /\ ~y.active
      /\ y.pending = x.pending
  <2> HIDE DEF leaf, fault, resp, resets
  <2>1. quiet \in Context
    BY <1>5 DEF Follows
  <2>2. leaf \in CncStates /\ resp \in [Responses -> ResponseStates]
    BY <1>7 DEF CncStates, ResponseStates
  <2>3. y \in Context
    BY <1>7, <2>1, <2>2 DEF Context
  <2>4. /\ y.cnc = leaf /\ y.req = quiet.req /\ y.resp = resp /\ y.active = FALSE
        /\ y.pending = x.pending
    BY <1>5, <2>1 DEF Context, Follows, SameMachine
  <2> QED BY <2>3, <2>4
<1>9. Devices(y) /\ Timed(y) /\ Exchanges(y) /\ Offers(y) /\ Shut(y)
  <2> HIDE DEF y, resp
  <2> QED BY <1>4, <1>7, <1>8 DEF Devices, Timed, Exchanges, Offers, Shut
<1> QED BY <1>6, <1>8, <1>9 DEF Good, Sound

\* A fault disables the machine, unless it has one.
LEMMA FaultLemma ==
  ASSUME NEW x \in Context, x.cnc = "fault" => Good(x)
  PROVE  Good(Fault(x)) /\ Fault(x).pending = x.pending
BY LeaveLemma, DisableLemma DEF Fault, SameMachine

\* The machine's own fault does the same.
LEMMA SystemFaultLemma ==
  ASSUME NEW x \in Context, x.cnc = "fault" => Good(x)
  PROVE  Good(SystemFault(x)) /\ SystemFault(x).pending = x.pending
<1> DEFINE y == [x EXCEPT !.system = TRUE]
<1>1. /\ y \in Context /\ y.cnc = x.cnc /\ y.req = x.req /\ y.timer = x.timer /\ y.late = x.late
      /\ y.pending = x.pending /\ y.resp = x.resp /\ y.active = x.active /\ y.pos = x.pos
  BY DEF Context
<1> HIDE DEF y
<1>2. y.cnc = "fault" => Good(y)
  BY <1>1, GoodSame
<1>3. SystemFault(x) = Fault(y)
  BY DEF SystemFault, y
<1> QED BY <1>1, <1>2, <1>3, FaultLemma

-----------------------------------------------------------------------------
(* Entering the leaves                                                      *)

\* A cycle begins, or the machine faults.
LEMMA CyclingLemma ==
  ASSUME NEW x, Sound(x), Exchanges(x), Offers(x)
  PROVE  Good(Cycling(x)) /\ Cycling(x).pending = x.pending
<1> DEFINE refused == SystemFault(x)
           told == [refused EXCEPT !.failing = @ \ {"exec"}]
           begun == [x EXCEPT !.exec = TRUE, !.cycles = @ + 1]
<1>1. x \in Context /\ (x.cnc = "fault" => Good(x))
  BY DEF Good, Sound, Shut
<1>2. Good(refused) /\ refused \in Context /\ refused.pending = x.pending
  BY <1>1, SystemFaultLemma DEF Good, Sound
<1>3. Good(told) /\ told.pending = x.pending
  <2> HIDE DEF refused
  <2>1. /\ told \in Context /\ told.cnc = refused.cnc /\ told.req = refused.req
        /\ told.timer = refused.timer /\ told.late = refused.late
        /\ told.pending = refused.pending /\ told.resp = refused.resp
        /\ told.active = refused.active /\ told.pos = refused.pos
    BY <1>2 DEF Context
  <2> HIDE DEF told
  <2> QED BY <1>2, <2>1, GoodSame
<1>4. ASSUME \A d \in {"door", "chuck"} : x.pos[d] = "CLOSED"
      PROVE  Good(begun) /\ begun.pending = x.pending
  <2>1. /\ begun \in Context /\ begun.cnc = x.cnc /\ begun.req = x.req
        /\ begun.timer = x.timer /\ begun.late = x.late
        /\ begun.pending = x.pending /\ begun.resp = x.resp
        /\ begun.active = x.active /\ begun.pos = x.pos
    <3>1. x.cycles + 1 \in Nat
      BY <1>1 DEF Context
    <3>2. begun \in Context
      BY <1>1, <3>1 DEF Context
    <3> QED BY <1>1, <3>2 DEF Context
  <2> HIDE DEF begun
  <2>2. Good(x)
    BY <1>4 DEF Good, Shut
  <2> QED BY <2>1, <2>2, GoodSame
<1>5. DOMAIN x.pos = {"door", "chuck"}
  BY <1>1 DEF Context
<1> QED BY <1>2, <1>3, <1>4, <1>5 DEF Cycling

\* Withdrawing one request and making the other.
LEMMA ExchangeLemma ==
  ASSUME NEW x, Sound(x), NEW off \in Requests, NEW on \in Requests, off # on, x.cnc = Leaf(on)
  PROVE  /\ Good(Exchange(x, off, on))
         /\ Follows(x, Exchange(x, off, on))
<1> DEFINE y == Tell(x, off, "deactivate")
           z == Tell(y, on, "activate")
<1>1. {"activate", "deactivate"} \subseteq Events /\ x \in Context
  BY DEF Events, Sound
<1>2. Follows(x, y) /\ y \in Context /\ y.req[off] = "not_ready"
  <2>1. x.req \in [Requests -> RequestStates]
    BY <1>1 DEF Context
  <2>2. RequestNext(x.req[off], "deactivate") = "not_ready"
    BY <1>1, <2>1, RequestTable
  <2>3. Follows(x, y) /\ y.req = [x.req EXCEPT ![off] = RequestNext(x.req[off], "deactivate")]
    BY <1>1, TellLemma
  <2> HIDE DEF y
  <2> QED BY <2>1, <2>2, <2>3 DEF Follows
<1>3. Follows(y, z) /\ z \in Context /\ z.req[off] = "not_ready"
  <2> HIDE DEF y
  <2>1. y.req \in [Requests -> RequestStates]
    BY <1>2 DEF Context
  <2>2. Follows(y, z) /\ z.req = [y.req EXCEPT ![on] = RequestNext(y.req[on], "activate")]
    BY <1>1, <1>2, TellLemma
  <2> HIDE DEF z
  <2> QED BY <1>2, <2>1, <2>2 DEF Follows
<1>4. Follows(x, z)
  BY <1>2, <1>3, FollowsLemma
<1>5. Exchange(x, off, on) = z
  BY DEF Exchange
<1> HIDE DEF y, z
<1>6. Good(z)
  <2>1. \A q \in Requests : q = off \/ q = on
    BY DEF Requests
  <2>2. z.cnc = Leaf(on) /\ Leaf(on) \notin {"not_ready", "fault"}
    BY <1>4 DEF Follows, SameMachine, Leaf
  <2>3. Exchanges(z) /\ Offers(z) /\ Shut(z)
    BY <1>3, <2>1, <2>2 DEF Exchanges, Offers, Shut, Leaf
  <2> QED BY <1>3, <1>4, <2>3 DEF Good, Sound, Follows
<1> QED BY <1>4, <1>5, <1>6

\* Offering the exchange of the material the machine has.
On(x) == IF x.has THEN "unload" ELSE "load"
Off(x) == IF x.has THEN "load" ELSE "unload"

\* The exchange the machine needs is offered, the other withdrawn.
LEMMA IdleLemma ==
  ASSUME NEW x \in Context, NEW reporting \in Requests \cup {"none"}
  PROVE  /\ Follows(x, Idle(x, reporting))
         /\ \A q \in Requests : Idle(x, reporting).req[q] =
              IF q = reporting THEN x.req[q]
              ELSE IF q = Off(x) THEN "not_ready" ELSE RequestNext(x.req[q], "idle")
<1> DEFINE y == Deactivate(x, Off(x), reporting)
           z == Tell(y, On(x), "idle")
<1>1. /\ "idle" \in Events /\ {On(x), Off(x)} \subseteq Requests /\ On(x) # Off(x)
      /\ \A q \in Requests : q \in {On(x), Off(x)}
  BY DEF Events, On, Off, Requests
<1>2. x.req \in [Requests -> RequestStates]
  BY DEF Context
<1>3. /\ Follows(x, y) /\ y \in Context
      /\ y.req = [x.req EXCEPT ![Off(x)] = IF Off(x) = reporting THEN @ ELSE "not_ready"]
  BY <1>1, DeactivateLemma DEF Follows
<1>4. Idle(x, reporting) = IF On(x) = reporting THEN y ELSE z
  BY DEF Idle, On, Off
<1> HIDE DEF y
<1>5. /\ Follows(y, z)
      /\ z.req = [y.req EXCEPT ![On(x)] = RequestNext(y.req[On(x)], "idle")]
  BY <1>1, <1>3, TellLemma
<1>6. y.req \in [Requests -> RequestStates]
  BY <1>3 DEF Context
<1> HIDE DEF z
<1>7. CASE On(x) = reporting
  BY <1>1, <1>2, <1>3, <1>4, <1>7
<1>8. CASE On(x) # reporting
  <2>1. Follows(x, z)
    BY <1>3, <1>5, FollowsLemma
  <2>2. /\ z.req[On(x)] = RequestNext(x.req[On(x)], "idle")
        /\ z.req[Off(x)] = IF Off(x) = reporting THEN x.req[Off(x)] ELSE "not_ready"
    BY <1>1, <1>2, <1>3, <1>5, <1>6
  <2> QED BY <1>1, <1>4, <1>8, <2>1, <2>2
<1> QED BY <1>7, <1>8

\* Going on to the exchange of the material the machine has.
LEMMA EnterLemma ==
  ASSUME NEW x, Sound(x), NEW reporting
  PROVE  LET y == Enter(x, NextExchange(x), reporting)
         IN  Good(y) /\ y.cnc = Leaf(On(x)) /\ y.has = x.has /\ y.pending = x.pending
<1> DEFINE w == [x EXCEPT !.cnc = NextExchange(x)]
           y == Exchange(w, Off(x), On(x))
<1>1. NextExchange(x) = Leaf(On(x)) /\ NextExchange(x) \in {"loading", "unloading"}
  BY DEF NextExchange, Leaf, On
<1>2. /\ w \in Context /\ w.cnc = Leaf(On(x)) /\ w.has = x.has /\ w.req = x.req /\ w.timer = x.timer
      /\ w.late = x.late /\ w.resp = x.resp /\ w.pos = x.pos /\ w.pending = x.pending
  BY <1>1 DEF Context, CncStates, CncLeaves, Sound
<1>3. Sound(w)
  BY <1>2 DEF Sound, Devices, Timed
<1>4. {On(x), Off(x)} \subseteq Requests /\ On(x) # Off(x)
  BY DEF On, Off, Requests
<1>5. Enter(x, NextExchange(x), reporting) = y
  <2>1. x.has \in BOOLEAN
    BY DEF Sound, Context
  <2>2. CASE x.has
    BY <1>2, <2>2 DEF Enter, NextExchange, Unloading, On, Off
  <2>3. CASE ~x.has
    BY <1>2, <2>3 DEF Enter, NextExchange, Loading, On, Off
  <2> QED BY <2>1, <2>2, <2>3
<1> HIDE DEF w
<1>6. Good(y) /\ Follows(w, y)
  BY <1>2, <1>3, <1>4, ExchangeLemma
<1> HIDE DEF y
<1> QED BY <1>2, <1>5, <1>6 DEF Follows, SameMachine

\* Whatever it was before and wherever its history takes it, an operational machine is good.
LEMMA OperationalLemma ==
  ASSUME NEW x, Sound(x)
  PROVE  Good(Operational(x))
<1> DEFINE offered == [r \in Responses |-> IF x.resp[r] = "not_ready" THEN "ready" ELSE x.resp[r]]
           ready == [x EXCEPT !.active = TRUE, !.resp = offered]
           moved == Enter(ready, NextExchange(x), "none")
           idled == Idle(moved, "none")
<1>1. offered \in [Responses -> ResponseStates]
  BY DEF Sound, Context, ResponseStates
<1>2. /\ ready \in Context /\ ready.has = x.has /\ ready.req = x.req /\ ready.timer = x.timer
      /\ ready.late = x.late /\ ready.pos = x.pos /\ ready.resp = offered
  <2> HIDE DEF offered
  <2> QED BY <1>1 DEF Sound, Context
<1>3. Sound(ready)
  <2>1. \A r \in Responses : /\ offered[r] = "active" => x.resp[r] = "active"
                             /\ offered[r] = "complete" => x.resp[r] = "complete"
    OBVIOUS
  <2>2. \A r \in Responses : Related[r] \in Responses
    BY DEF Related, Responses
  <2> HIDE DEF ready, offered
  <2> QED BY <1>2, <2>1, <2>2 DEF Sound, Devices, Timed
<1>4. NextExchange(x) = NextExchange(ready) /\ On(ready) = On(x)
  BY <1>2 DEF NextExchange, On
<1> HIDE DEF ready
<1>5. Good(moved) /\ moved.cnc = Leaf(On(x)) /\ moved.has = x.has
  BY <1>2, <1>3, <1>4, EnterLemma
<1> HIDE DEF moved
<1>6. Good(idled)
  <2>1. moved \in Context /\ "none" \notin Requests /\ On(moved) = On(x) /\ Off(moved) = Off(x)
    BY <1>5 DEF Good, Sound, Requests, On, Off
  <2>2. /\ Follows(moved, idled)
        /\ \A q \in Requests : idled.req[q] =
             IF q = Off(x) THEN "not_ready" ELSE RequestNext(moved.req[q], "idle")
    BY <2>1, IdleLemma
  <2> HIDE DEF idled
  <2>3. \A q \in Requests : q \in {On(x), Off(x)}
    BY DEF On, Off, Requests
  <2>4. idled.cnc = Leaf(On(x)) /\ Leaf(On(x)) \notin {"not_ready", "fault"}
    BY <1>5, <2>2 DEF Follows, SameMachine, Leaf
  <2>5. Exchanges(idled) /\ Offers(idled) /\ Shut(idled)
    BY <2>2, <2>3, <2>4 DEF Exchanges, Offers, Shut, Leaf
  <2> QED BY <1>5, <2>2, <2>5 DEF Good, Sound, Follows
<1>7. Good(Cycling(moved))
  BY <1>5, CyclingLemma DEF Good
<1>8. Operational(x) \in {moved, idled, Cycling(moved)}
  <2>1. ready = [x EXCEPT !.active = TRUE, !.resp = [r \in Responses |-> IF @[r] = "not_ready" THEN "ready" ELSE @[r]]]
    BY DEF ready
  <2> QED BY <2>1 DEF Operational, moved
<1> QED BY <1>5, <1>6, <1>7, <1>8

\* Whatever the machine was, activate makes it good.
LEMMA ActivateLemma ==
  ASSUME NEW x, Sound(x)
  PROVE  Good(Activate(x))
<1> DEFINE y == Leave(x)
<1>1. Sound(y)
  BY LeaveLemma DEF Sound
<1>2. Good(Operational(y))
  BY <1>1, OperationalLemma
<1>3. \A to \in {"not_ready", "fault"} : Good(Disable(y, to))
  BY <1>1, DisableLemma DEF Sound
<1> QED BY <1>2, <1>3 DEF Activate

-----------------------------------------------------------------------------
(* The requests' events                                                     *)

\* Going on to the next exchange, from any leaf.
LEMMA GoNextLemma ==
  ASSUME NEW x, Sound(x)
  PROVE  Good(Go(x, NextExchange(x))) /\ Go(x, NextExchange(x)).pending = x.pending
<1> DEFINE y == ExitLeaf(x, "none")
<1>1. Follows(x, y)
  BY ExitLeafLemma DEF Sound
<1>2. Sound(y) /\ NextExchange(y) = NextExchange(x) /\ y.pending = x.pending
  BY <1>1 DEF Sound, Follows, SameMachine, NextExchange
<1>3. Go(x, NextExchange(x)) = Enter(y, NextExchange(y), "none")
  BY <1>2 DEF Go
<1> HIDE DEF y
<1> QED BY <1>2, <1>3, EnterLemma

\* A machine without any request of its own may go to any leaf that makes none.
LEMMA BareLemma ==
  ASSUME NEW x, Sound(x), NEW leaf \in CncLeaves, \A q \in Requests : x.req[q] = "not_ready"
  PROVE  LET y == [x EXCEPT !.cnc = leaf]
         IN  /\ Sound(y) /\ Exchanges(y) /\ Offers(y) /\ y.pending = x.pending /\ y.has = x.has
             /\ leaf # "cycle_start" => Good(y)
<1> DEFINE y == [x EXCEPT !.cnc = leaf]
<1>1. /\ y \in Context /\ y.cnc = leaf /\ y.has = x.has /\ y.req = x.req /\ y.timer = x.timer
      /\ y.late = x.late /\ y.resp = x.resp /\ y.pos = x.pos /\ y.pending = x.pending
  BY DEF Sound, Context, CncStates
<1> HIDE DEF y
<1>2. Sound(y) /\ Exchanges(y)
  BY <1>1 DEF Sound, Devices, Timed, Exchanges
<1>3. Offers(y)
  BY <1>1 DEF Offers, CncLeaves
<1>4. leaf # "cycle_start" => Shut(y)
  BY <1>1 DEF Shut
<1> QED BY <1>1, <1>2, <1>3, <1>4 DEF Good, y

\* A transfer that ends takes the machine to its cycle or to the next load.
LEMMA CompletedLemma ==
  ASSUME NEW x, Good(x), NEW q \in Requests, x.req[q] = "processing"
  PROVE  Good(RequestCompleted(x)) /\ RequestCompleted(x).pending = x.pending
<1> DEFINE w(has) == [x EXCEPT !.has = has]
<1>1. x.cnc = Leaf(q) /\ \A p \in Requests : p # q => x.req[p] = "not_ready"
  BY DEF Good, Exchanges, Leaf, Requests
<1>2. ASSUME NEW has \in BOOLEAN
      PROVE  /\ Sound(w(has)) /\ w(has).has = has /\ w(has).cnc = x.cnc /\ w(has).req = x.req
             /\ w(has).pending = x.pending
  <2>1. /\ w(has) \in Context /\ w(has).has = has /\ w(has).cnc = x.cnc /\ w(has).req = x.req
        /\ w(has).pending = x.pending /\ w(has).timer = x.timer /\ w(has).late = x.late
        /\ w(has).resp = x.resp /\ w(has).pos = x.pos
    BY DEF Good, Sound, Context
  <2> HIDE DEF w
  <2> QED BY <2>1 DEF Good, Sound, Devices, Timed
<1>3. CASE q = "load"
  <2> DEFINE u == w(TRUE)
             y == ExitLeaf(u, "none")
             z == [y EXCEPT !.cnc = "cycle_start"]
  <2>1. RequestCompleted(x) = Cycling(z)
    BY <1>1, <1>3 DEF RequestCompleted, Leaf, Go, Enter
  <2>2. Sound(u) /\ u \in Context /\ u.cnc = Leaf(q) /\ u.req = x.req /\ u.pending = x.pending
    BY <1>1, <1>2 DEF Sound
  <2> HIDE DEF u
  <2>3. /\ Follows(u, y)
        /\ \A p \in Requests : y.req[p] =
             IF u.cnc = Leaf(p) /\ p # "none" THEN "not_ready" ELSE u.req[p]
    BY <2>2, ExitLeafLemma
  <2> HIDE DEF y
  <2>4. \A p \in Requests : y.req[p] = "not_ready"
    BY <1>1, <2>2, <2>3 DEF Requests
  <2>5. Sound(y) /\ y.pending = x.pending
    BY <2>2, <2>3 DEF Follows, Sound, SameMachine
  <2>6. Sound(z) /\ Exchanges(z) /\ Offers(z) /\ z.pending = x.pending
    BY <2>4, <2>5, BareLemma DEF CncLeaves
  <2> HIDE DEF z
  <2> QED BY <2>1, <2>6, CyclingLemma
<1>4. CASE q = "unload"
  <2>1. NextExchange(w(FALSE)) = "loading"
    BY <1>2 DEF NextExchange
  <2>2. RequestCompleted(x) = Go(w(FALSE), NextExchange(w(FALSE)))
    BY <1>1, <1>4, <2>1 DEF RequestCompleted, Leaf
  <2> HIDE DEF w
  <2> QED BY <1>2, <2>2, GoNextLemma
<1> QED BY <1>3, <1>4 DEF Requests

\* A failure makes the machine idle, with nothing but offers; how the failed request was
\* timed does not matter.
LEMMA FailedLemma ==
  ASSUME NEW x \in Context, Devices(x), Exchanges(x), NEW q \in Requests, x.req[q] = "fail"
  PROVE  LET y == RequestFailed(x, q)
         IN  /\ y \in Context /\ Devices(y) /\ y.cnc = "idle" /\ y.pending = x.pending
             /\ \A p \in Requests : p # q => y.req[p] \in {"not_ready", "ready"}
<1> DEFINE u == ExitLeaf(x, q)
           w == [u EXCEPT !.cnc = "idle"]
           y == Idle(w, q)
<1>1. /\ x.cnc = Leaf(q) /\ x.cnc \in {"loading", "unloading"}
      /\ \A p \in Requests : p # q => x.req[p] = "not_ready"
  BY DEF Exchanges, Leaf, Requests
<1>2. RequestFailed(x, q) = y
  BY <1>1 DEF RequestFailed, Enter
<1>3. Follows(x, u) /\ \A p \in Requests : u.req[p] = x.req[p]
  BY <1>1, ExitLeafLemma DEF Leaf, Requests
<1> HIDE DEF u
<1>4. u \in Context /\ Devices(u) /\ u.pending = x.pending
  BY <1>3 DEF Follows, SameMachine
<1>5. /\ w \in Context /\ w.cnc = "idle" /\ w.req = u.req /\ w.timer = u.timer
      /\ w.late = u.late /\ w.resp = u.resp /\ w.pos = u.pos /\ w.pending = u.pending
  BY <1>4 DEF Context, CncStates, CncLeaves
<1> HIDE DEF w
<1>6. Devices(w)
  BY <1>4, <1>5 DEF Devices
<1>7. /\ Follows(w, y)
      /\ \A p \in Requests : p # q => y.req[p] \in {"not_ready", RequestNext(w.req[p], "idle")}
  BY <1>5, IdleLemma
<1>8. "idle" \in Events /\ "not_ready" \in RequestStates
  BY DEF Events, RequestStates
<1>9. \A p \in Requests : p # q => RequestNext(w.req[p], "idle") = "ready"
  BY <1>1, <1>3, <1>5, <1>8, RequestTable
<1> HIDE DEF y
<1> QED BY <1>2, <1>4, <1>5, <1>6, <1>7, <1>9 DEF Follows, SameMachine

\* After a failure the failed request ends as an offer or withdrawn.
LEMMA FailedEventLemma ==
  ASSUME NEW x \in Context, Devices(x), Exchanges(x), NEW q \in Requests, x.req[q] = "fail",
         NEW e \in PeerValues \cup {"timeout"}
  PROVE  LET z == RequestEvent(x, q, e)
         IN  /\ Sound(z) /\ z.cnc = "idle" /\ z.pending = x.pending
             /\ \A p \in Requests : z.req[p] \in {"not_ready", "ready"}
<1> DEFINE n == RequestNext(x.req[q], e)
           y == RequestFailed(x, q)
           z == Put(y, q, n)
<1>1. /\ y \in Context /\ Devices(y) /\ y.cnc = "idle" /\ y.pending = x.pending
      /\ \A p \in Requests : p # q => y.req[p] \in {"not_ready", "ready"}
  BY FailedLemma
<1>2. n \in {"not_ready", "ready"} /\ n \in RequestStates
  <2>1. x.req[q] \in RequestStates /\ e \in Events
    BY DEF Context, Events
  <2> QED BY <2>1, RequestTable
<1>3. RequestEvent(x, q, e) = z
  BY DEF RequestEvent
<1> HIDE DEF y, n
<1>4. /\ z \in Context /\ SameMachine(y, z) /\ z.req = [y.req EXCEPT ![q] = n] /\ Devices(z)
  BY <1>1, <1>2, PutLemma
<1> HIDE DEF z
<1>5. \A p \in Requests : z.req[p] \in {"not_ready", "ready"}
  BY <1>1, <1>2, <1>4 DEF Context
<1>6. Timed(z)
  BY <1>5 DEF Timed
<1> QED BY <1>1, <1>3, <1>4, <1>5, <1>6 DEF Sound, SameMachine

\* The exchanges while the second event of READY is still to come.
Exchanging(y, q, e) ==
  \A p \in Requests :
    /\ y.req[p] # "not_ready" => y.cnc \in {Leaf(p), "idle"}
    /\ y.req[p] \in {"processing", "fail"} => y.cnc = Leaf(p)
    /\ y.req[p] = "active" => y.cnc = Leaf(p) \/ y.pending = p \/ (p = q /\ e = "ready")

\* Any event of a request leaves the exchanges with their owners.
LEMMA RequestEventLemma ==
  ASSUME NEW x, Good(x), NEW q \in Requests, NEW e \in PeerValues \cup {"timeout"},
         e # "timeout" => x.pending = "none"
  PROVE  LET y == RequestEvent(x, q, e)
         IN  Sound(y) /\ Offers(y) /\ Shut(y) /\ Exchanging(y, q, e) /\ y.pending = x.pending
<1> DEFINE s == x.req[q]
           n == RequestNext(s, e)
<1>1. s \in RequestStates /\ e \in Events /\ e \notin {"activate", "deactivate", "idle"}
  BY DEF Good, Sound, Context, Events, PeerValues
<1>2. n \in RequestStates
  BY <1>1, RequestTable
<1>3. CASE s = "processing" /\ e = "complete"
  <2> DEFINE y == RequestCompleted(x)
             z == Put(y, q, "not_ready")
  <2>1. Good(y) /\ y.pending = x.pending
    BY <1>3, CompletedLemma
  <2>2. n = "not_ready"
    BY <1>1, <1>3, RequestTable
  <2>3. RequestEvent(x, q, e) = z
    BY <1>3, <2>2 DEF RequestEvent
  <2> HIDE DEF y
  <2>4. /\ z \in Context /\ SameMachine(y, z) /\ z.req = [y.req EXCEPT ![q] = "not_ready"]
        /\ Timed(z) /\ Devices(z)
    BY <2>1, PutLemma DEF Good, Sound, RequestStates
  <2> HIDE DEF z
  <2>5. y.req \in [Requests -> RequestStates]
    BY <2>1 DEF Good, Sound, Context
  <2>6. Exchanging(z, q, e)
    BY <2>1, <2>4, <2>5 DEF Good, Exchanges, Exchanging, SameMachine
  <2>7. Offers(z) /\ Shut(z) /\ z.pending = x.pending
    BY <2>1, <2>4 DEF Good, Offers, Shut, SameMachine
  <2> QED BY <2>3, <2>4, <2>6, <2>7 DEF Sound
<1>4. CASE s = "fail"
  <2> DEFINE z == RequestEvent(x, q, e)
  <2>1. /\ Sound(z) /\ z.cnc = "idle" /\ z.pending = x.pending
        /\ \A p \in Requests : z.req[p] \in {"not_ready", "ready"}
    BY <1>4, FailedEventLemma DEF Good, Sound
  <2> HIDE DEF z
  <2>2. Exchanging(z, q, e) /\ Offers(z) /\ Shut(z)
    BY <2>1 DEF Exchanging, Offers, Shut
  <2> QED BY <2>1, <2>2 DEF z
<1>5. CASE s # "fail" /\ ~(s = "processing" /\ e = "complete")
  <2> DEFINE z == Put(x, q, n)
  <2>1. RequestEvent(x, q, e) = z
    BY <1>5 DEF RequestEvent
  <2>2. /\ z \in Context /\ SameMachine(x, z) /\ z.req = [x.req EXCEPT ![q] = n]
        /\ Timed(z) /\ Devices(z)
    BY <1>2, PutLemma DEF Good, Sound
  <2>3. /\ s = "not_ready" => n = "not_ready"
        /\ s = "ready" => n \in {"not_ready", "ready", "active"}
        /\ s = "ready" /\ n = "active" => e = "ready"
        /\ s = "active" /\ e = "timeout" => n = "active"
    BY <1>1, RequestTable
  <2> HIDE DEF z, n
  <2>4. x.req \in [Requests -> RequestStates]
    BY DEF Good, Sound, Context
  <2>5. ASSUME NEW p \in Requests
        PROVE  /\ z.req[p] # "not_ready" => z.cnc \in {Leaf(p), "idle"}
               /\ z.req[p] \in {"processing", "fail"} => z.cnc = Leaf(p)
               /\ z.req[p] = "active" => z.cnc = Leaf(p) \/ z.pending = p \/ (p = q /\ e = "ready")
    <3>1. CASE p # q
      BY <2>2, <2>4, <3>1 DEF Good, Exchanges, SameMachine
    <3>2. CASE p = q
      <4>1. z.req[p] = n /\ z.cnc = x.cnc /\ z.pending = x.pending
        BY <2>2, <2>4, <3>2 DEF SameMachine
      <4>2. /\ s # "not_ready" => x.cnc \in {Leaf(q), "idle"}
            /\ s = "processing" => x.cnc = Leaf(q)
            /\ s = "active" => x.cnc = Leaf(q) \/ x.pending = q
        BY DEF Good, Exchanges
      <4>3. x.pending = q => e = "timeout"
        BY DEF Requests
      <4> QED BY <1>1, <1>5, <2>3, <3>2, <4>1, <4>2, <4>3 DEF RequestStates
    <3> QED BY <3>1, <3>2
  <2>6. Offers(z) /\ Shut(z) /\ z.pending = x.pending
    BY <2>2 DEF Good, Offers, Shut, SameMachine
  <2> QED BY <2>1, <2>2, <2>5, <2>6 DEF Sound, Exchanging
<1> QED BY <1>3, <1>4, <1>5

-----------------------------------------------------------------------------
(* Responses                                                                *)

\* Two responses move a device, to different places.
LEMMA DeviceTable ==
  \A r \in Responses :
    /\ Related[r] \in Responses /\ Related[r] # r
    /\ Device[r] \in {"door", "chuck"} /\ Device[Related[r]] = Device[r]
    /\ Dest[r] \in {"OPEN", "CLOSED"} /\ Dest[Related[r]] # Dest[r]
    /\ \A s \in Responses : /\ Device[s] = Device[r] => s \in {r, Related[r]}
                            /\ Related[s] = r => s = Related[r]
BY DEF Responses, Related, Device, Dest

\* A response goes to a state that asks nothing of its device.
LEMMA RestLemma ==
  ASSUME NEW x, Good(x), NEW r \in Responses, NEW s \in {"not_ready", "ready", "fail"},
         s = "ready" => x.active, NEW n \in [Responses -> Nat]
  PROVE  LET y == [x EXCEPT !.resp[r] = s, !.resets = n]
         IN  Good(y) /\ y.pending = x.pending
<1> DEFINE p == [x.resp EXCEPT ![r] = s]
           y == [x EXCEPT !.resp = p, !.resets = n]
<1>1. p \in [Responses -> ResponseStates]
  BY DEF Good, Sound, Context, ResponseStates
<1>2. \A t \in Responses : p[t] = IF t = r THEN s ELSE x.resp[t]
  BY DEF Good, Sound, Context
<1> HIDE DEF p
<1>3. /\ y \in Context /\ y.resp = p /\ y.cnc = x.cnc /\ y.req = x.req /\ y.timer = x.timer
      /\ y.late = x.late /\ y.pending = x.pending /\ y.active = x.active /\ y.pos = x.pos
  BY <1>1 DEF Good, Sound, Context
<1> HIDE DEF y
<1>4. Devices(y)
  BY <1>2, <1>3, DeviceTable DEF Good, Sound, Devices
<1>5. Offers(y)
  BY <1>2, <1>3 DEF Good, Offers
<1>6. Timed(y) /\ Exchanges(y) /\ Shut(y)
  BY <1>3 DEF Good, Sound, Timed, Exchanges, Shut
<1>7. [x EXCEPT !.resp[r] = s, !.resets = n] = y
  BY DEF y, p
<1> QED BY <1>3, <1>4, <1>5, <1>6, <1>7 DEF Good, Sound

\* A response fails, and the machine with it.
LEMMA ResponseFailLemma ==
  ASSUME NEW x, Good(x), NEW r \in Responses
  PROVE  Good(ResponseFail(x, r)) /\ ResponseFail(x, r).pending = x.pending
<1> DEFINE n == [x.resets EXCEPT ![r] = @ + 1]
           y == [x EXCEPT !.resp[r] = "fail", !.resets = n]
<1>1. n \in [Responses -> Nat]
  BY DEF Good, Sound, Context
<1>2. Good(y) /\ y.pending = x.pending
  <2> HIDE DEF n
  <2> QED BY <1>1, RestLemma
<1>3. ResponseFail(x, r) = SystemFault(y)
  BY DEF ResponseFail
<1> HIDE DEF y
<1> QED BY <1>2, <1>3, SystemFaultLemma DEF Good, Sound

\* A response completes: its device was its own, or already there.
LEMMA ResponseCompleteLemma ==
  ASSUME NEW x, Good(x), NEW r \in Responses,
         \/ x.resp[r] = "active"
         \/ x.resp[r] = "ready" /\ x.pos[Device[r]] = Dest[r]
  PROVE  Good(ResponseComplete(x, r)) /\ ResponseComplete(x, r).pending = x.pending
<1> DEFINE p == [x.resp EXCEPT ![r] = "complete"]
           d == [x.pos EXCEPT ![Device[r]] = Dest[r]]
           h == IF Device[r] = "chuck" THEN r = "closeChuck" ELSE x.has
           y == [x EXCEPT !.resp = p, !.pos = d, !.has = h]
<1>1. /\ p \in [Responses -> ResponseStates] /\ h \in BOOLEAN
      /\ d \in [{"door", "chuck"} -> {"OPEN", "UNLATCHED", "CLOSED"}]
  BY DeviceTable DEF Good, Sound, Context, ResponseStates
<1>2. \A t \in Responses : /\ p[t] = IF t = r THEN "complete" ELSE x.resp[t]
                           /\ d[Device[t]] = IF Device[t] = Device[r] THEN Dest[r] ELSE x.pos[Device[t]]
  BY DeviceTable DEF Good, Sound, Context
<1> HIDE DEF p, d, h
<1>3. /\ y \in Context /\ y.resp = p /\ y.pos = d /\ y.cnc = x.cnc /\ y.req = x.req
      /\ y.timer = x.timer /\ y.late = x.late /\ y.pending = x.pending /\ y.active = x.active
  BY <1>1 DEF Good, Sound, Context
<1>4. ResponseComplete(x, r) = y
  BY DEF ResponseComplete, p, d, h
<1> HIDE DEF y
<1>5. Devices(y)
  <2> SUFFICES ASSUME NEW t \in Responses
               PROVE  /\ p[t] = "complete" => d[Device[t]] = Dest[t]
                      /\ p[t] = "active" => d[Device[t]] = "UNLATCHED"
                      /\ p[t] = "active" => p[Related[t]] # "active"
    BY <1>3 DEF Devices
  <2>1. /\ x.resp[t] = "complete" => x.pos[Device[t]] = Dest[t]
        /\ x.resp[t] = "active" => x.pos[Device[t]] = "UNLATCHED"
        /\ x.resp[t] = "active" => x.resp[Related[t]] # "active"
        /\ x.resp[r] = "active" => x.pos[Device[r]] = "UNLATCHED" /\ x.resp[Related[r]] # "active"
    BY DEF Good, Sound, Devices
  <2>2. /\ Related[t] \in Responses /\ Related[r] \in Responses /\ Related[r] # r
        /\ Device[Related[r]] = Device[r] /\ Dest[Related[r]] # Dest[r]
        /\ Dest[t] \in {"OPEN", "CLOSED"} /\ Dest[r] \in {"OPEN", "CLOSED"}
        /\ (Device[t] = Device[r] => t = r \/ t = Related[r])
    BY DeviceTable
  <2>3. CASE t = r
    BY <1>2, <2>2, <2>3
  <2>4. CASE t = Related[r]
    <3>1. x.resp[t] \notin {"active", "complete"}
      BY <2>1, <2>2, <2>4
    <3> QED BY <1>2, <2>2, <2>4, <3>1
  <2>5. CASE t # r /\ t # Related[r]
    BY <1>2, <2>1, <2>2, <2>5
  <2> QED BY <2>3, <2>4, <2>5
<1>6. Offers(y)
  <2>1. x.cnc \notin {"not_ready", "fault"}
    BY DEF Good, Offers
  <2> QED BY <1>3, <2>1 DEF Offers
<1>7. Timed(y) /\ Exchanges(y)
  BY <1>3 DEF Good, Sound, Timed, Exchanges
<1>8. Shut(y)
  <2>1. x.pos[Device[r]] # "CLOSED" \/ x.pos[Device[r]] = Dest[r]
    BY DEF Good, Sound, Devices
  <2>2. x.pos \in [{"door", "chuck"} -> {"OPEN", "UNLATCHED", "CLOSED"}] /\ Device[r] \in {"door", "chuck"}
    BY DeviceTable DEF Good, Sound, Context
  <2>3. x.pos[Device[r]] = Dest[r] => d = x.pos
    BY <2>2 DEF d
  <2> QED BY <1>3, <2>1, <2>2, <2>3 DEF Good, Shut
<1> QED BY <1>3, <1>4, <1>5, <1>6, <1>7, <1>8 DEF Good, Sound

\* A response sets its device in motion: nobody else works on it or vouches for it.
LEMMA MoveLemma ==
  ASSUME NEW x, Good(x), NEW r \in Responses, x.resp[r] = "ready",
         x.resp[Related[r]] \notin {"active", "complete"}, PolitePeer => x.cnc # "cycle_start"
  PROVE  LET y == [x EXCEPT !.resp[r] = "active", !.pos[Device[r]] = "UNLATCHED", !.moving[r] = @ + 1]
         IN  Good(y) /\ y.pending = x.pending
<1> DEFINE p == [x.resp EXCEPT ![r] = "active"]
           d == [x.pos EXCEPT ![Device[r]] = "UNLATCHED"]
           m == [x.moving EXCEPT ![r] = @ + 1]
           y == [x EXCEPT !.resp = p, !.pos = d, !.moving = m]
<1>1. /\ p \in [Responses -> ResponseStates] /\ m \in [Responses -> Nat]
      /\ d \in [{"door", "chuck"} -> {"OPEN", "UNLATCHED", "CLOSED"}]
  BY DeviceTable DEF Good, Sound, Context, ResponseStates
<1>2. \A t \in Responses : /\ p[t] = IF t = r THEN "active" ELSE x.resp[t]
                           /\ d[Device[t]] = IF Device[t] = Device[r] THEN "UNLATCHED" ELSE x.pos[Device[t]]
  BY DeviceTable DEF Good, Sound, Context
<1> HIDE DEF p, d, m
<1>3. /\ y \in Context /\ y.resp = p /\ y.pos = d /\ y.cnc = x.cnc /\ y.req = x.req
      /\ y.timer = x.timer /\ y.late = x.late /\ y.pending = x.pending /\ y.active = x.active
  BY <1>1 DEF Good, Sound, Context
<1>4. [x EXCEPT !.resp[r] = "active", !.pos[Device[r]] = "UNLATCHED", !.moving[r] = @ + 1] = y
  BY DEF p, d, m
<1> HIDE DEF y
<1>5. Devices(y)
  <2> SUFFICES ASSUME NEW t \in Responses
               PROVE  /\ p[t] = "complete" => d[Device[t]] = Dest[t]
                      /\ p[t] = "active" => d[Device[t]] = "UNLATCHED"
                      /\ p[t] = "active" => p[Related[t]] # "active"
    BY <1>3 DEF Devices
  <2>1. /\ x.resp[t] = "complete" => x.pos[Device[t]] = Dest[t]
        /\ x.resp[t] = "active" => x.pos[Device[t]] = "UNLATCHED"
        /\ x.resp[t] = "active" => x.resp[Related[t]] # "active"
    BY DEF Good, Sound, Devices
  <2>2. /\ Related[t] \in Responses /\ Related[r] \in Responses /\ Related[r] # r
        /\ (Related[t] = r => t = Related[r])
        /\ (Device[t] = Device[r] => t = r \/ t = Related[r])
    BY DeviceTable
  <2>3. CASE t = r
    BY <1>2, <2>2, <2>3
  <2>4. CASE t = Related[r]
    BY <1>2, <2>2, <2>4
  <2>5. CASE t # r /\ t # Related[r]
    BY <1>2, <2>1, <2>2, <2>5
  <2> QED BY <2>3, <2>4, <2>5
<1>6. Offers(y)
  <2>1. x.cnc \notin {"not_ready", "fault"}
    BY DEF Good, Offers
  <2> QED BY <1>3, <2>1 DEF Offers
<1>7. Timed(y) /\ Exchanges(y) /\ Shut(y)
  BY <1>3 DEF Good, Sound, Timed, Exchanges, Shut
<1> QED BY <1>3, <1>4, <1>5, <1>6, <1>7 DEF Good, Sound

\* A response that was asked for fails, completes at once, or moves its device.
LEMMA ResponseActiveLemma ==
  ASSUME NEW x, Good(x), NEW r \in Responses, x.resp[r] = "ready",
         PolitePeer => x.cnc # "cycle_start"
  PROVE  Good(ResponseActive(x, r)) /\ ResponseActive(x, r).pending = x.pending
<1> DEFINE y == [x EXCEPT !.failing = @ \ {r}]
<1>1. Good(y) /\ y.pending = x.pending
  <2>1. /\ y \in Context /\ y.cnc = x.cnc /\ y.req = x.req /\ y.timer = x.timer /\ y.late = x.late
        /\ y.pending = x.pending /\ y.resp = x.resp /\ y.active = x.active /\ y.pos = x.pos
    BY DEF Good, Sound, Context
  <2> HIDE DEF y
  <2> QED BY <2>1, GoodSame
<1> HIDE DEF y
<1>2. Good(ResponseFail(y, r)) /\ ResponseFail(y, r).pending = x.pending
  BY <1>1, ResponseFailLemma
<1>3. CASE r \in x.failing
  BY <1>2, <1>3 DEF ResponseActive, y
<1>4. CASE r \notin x.failing /\ x.pos[Device[r]] = Dest[r]
  BY <1>4, ResponseCompleteLemma DEF ResponseActive
<1>5. CASE /\ r \notin x.failing /\ x.pos[Device[r]] # Dest[r]
           /\ x.resp[Related[r]] \in {"active", "complete"}
  BY <1>5, ResponseFailLemma DEF ResponseActive
<1>6. CASE /\ r \notin x.failing /\ x.pos[Device[r]] # Dest[r]
           /\ x.resp[Related[r]] \notin {"active", "complete"}
  BY <1>6, MoveLemma DEF ResponseActive
<1> QED BY <1>3, <1>4, <1>5, <1>6

\* Any event of a response.
LEMMA ResponseEventLemma ==
  ASSUME NEW x, Good(x), NEW r \in Responses, NEW e \in PeerValues,
         PolitePeer /\ e = "active" => x.cnc # "cycle_start"
  PROVE  Good(ResponseEvent(x, r, e)) /\ ResponseEvent(x, r, e).pending = x.pending
<1> DEFINE n == ResponseNext(x.resp[r], e)
<1>1. /\ x.resp[r] \in ResponseStates /\ x.resets \in [Responses -> Nat] /\ x.active \in BOOLEAN
      /\ x \in Context
  BY DEF Good, Sound, Context
<1>2. /\ n \in ResponseStates
      /\ n = "complete" => x.resp[r] \in {"active", "complete"}
      /\ n = "active" /\ x.resp[r] # "active" => x.resp[r] = "ready" /\ e = "active"
  BY <1>1, ResponseTable
<1>3. LET y == [x EXCEPT !.resp[r] = "not_ready"] IN Good(y) /\ y.pending = x.pending
  <2> DEFINE n0 == x.resets
             y == [x EXCEPT !.resp[r] = "not_ready", !.resets = n0]
  <2>1. y = [x EXCEPT !.resp[r] = "not_ready"]
    BY DEF Good, Sound, Context
  <2>2. n0 \in [Responses -> Nat]
    BY DEF Good, Sound, Context
  <2> HIDE DEF n0
  <2>3. Good(y) /\ y.pending = x.pending
    BY <2>2, RestLemma, ZenonT(60)
  <2> QED BY <2>1, <2>3
<1>4. ASSUME x.active
      PROVE  LET y == [x EXCEPT !.resp[r] = "ready"] IN Good(y) /\ y.pending = x.pending
  <2> DEFINE n0 == x.resets
             y == [x EXCEPT !.resp[r] = "ready", !.resets = n0]
  <2>1. y = [x EXCEPT !.resp[r] = "ready"]
    BY DEF Good, Sound, Context
  <2>2. n0 \in [Responses -> Nat]
    BY DEF Good, Sound, Context
  <2> HIDE DEF n0
  <2>3. Good(y) /\ y.pending = x.pending
    BY <1>4, <2>2, RestLemma, ZenonT(60)
  <2> QED BY <2>1, <2>3
<1> HIDE DEF n
<1>5. CASE n = x.resp[r]
  <2>1. ResponseEvent(x, r, e) = x
    BY <1>5 DEF ResponseEvent, n
  <2> QED BY <2>1
<1>6. CASE n # x.resp[r] /\ n = "ready"
  <2>1. ResponseEvent(x, r, e) = [x EXCEPT !.resp[r] = IF x.active THEN "ready" ELSE "not_ready"]
    BY <1>6 DEF ResponseEvent, n
  <2>2. CASE x.active
    <3>1. ResponseEvent(x, r, e) = [x EXCEPT !.resp[r] = "ready"]
      BY <2>1, <2>2
    <3> QED BY <1>4, <2>2, <3>1
  <2>3. CASE ~x.active
    <3>1. ResponseEvent(x, r, e) = [x EXCEPT !.resp[r] = "not_ready"]
      BY <2>1, <2>3
    <3> QED BY <1>3, <3>1
  <2> QED BY <2>2, <2>3
<1>7. CASE n # x.resp[r] /\ n = "active"
  BY <1>2, <1>7, ResponseActiveLemma DEF ResponseEvent, n
<1>8. CASE n # x.resp[r] /\ n = "complete"
  BY <1>2, <1>8, ResponseCompleteLemma DEF ResponseEvent, n
<1>9. CASE n # x.resp[r] /\ n = "fail"
  BY <1>9, ResponseFailLemma DEF ResponseEvent, n
<1>10. CASE n # x.resp[r] /\ n = "not_ready"
  <2>1. ResponseEvent(x, r, e) = [x EXCEPT !.resp[r] = "not_ready"]
    BY <1>10 DEF ResponseEvent, n
  <2> QED BY <1>3, <2>1
<1> QED BY <1>2, <1>5, <1>6, <1>7, <1>8, <1>9, <1>10 DEF ResponseStates

-----------------------------------------------------------------------------
(* The steps                                                                *)

\* A cycle that ends takes the machine to the exchange of its material; without any, no
\* request was the machine's own.
LEMMA CycleEndLemma ==
  ASSUME NEW x, Good(x), x.cnc = "cycle_start"
  PROVE  Good(Go(x, "unloading"))
<1> DEFINE y == ExitLeaf(x, "none")
           z == [y EXCEPT !.cnc = "unloading"]
<1>1. CASE x.has
  <2>1. NextExchange(x) = "unloading"
    BY <1>1 DEF NextExchange
  <2> QED BY <2>1, GoNextLemma DEF Good
<1>2. CASE ~x.has
  <2>1. y = x
    BY DEF ExitLeaf
  <2>2. Go(x, "unloading") = Unloading(z)
    BY DEF Go, Enter
  <2>3. Good(z) /\ z.has = x.has
    <3>1. \A q \in Requests : x.req[q] = "not_ready"
      BY DEF Good, Exchanges, Leaf, Requests
    <3> QED BY <2>1, <3>1, BareLemma DEF Good, CncLeaves
  <2> HIDE DEF z
  <2> QED BY <1>2, <2>2, <2>3 DEF Unloading
<1> QED BY <1>1, <1>2

\* A step within the bounds keeps the type.
LEMMA BecomesLemma ==
  ASSUME NEW x, Good(x), Becomes(x)
  PROVE  CncInv'
<1>1. /\ c' = x
      /\ \A r \in Responses : x.moving[r] <= MaxThreads /\ x.resets[r] <= MaxThreads
      /\ \A q \in Requests : x.late[q] <= MaxThreads
      /\ x.cycles <= MaxThreads
  BY DEF Becomes
<1>2. x \in Context /\ MaxThreads \in Nat
  BY Inputs DEF Good, Sound
<1>3. /\ x.moving \in [Responses -> 0..MaxThreads] /\ x.resets \in [Responses -> 0..MaxThreads]
      /\ x.late \in [Requests -> 0..MaxThreads] /\ x.cycles \in 0..MaxThreads
  BY <1>1, <1>2 DEF Context
<1>4. x \in ContextType
  BY <1>2, <1>3 DEF Context, ContextType
<1> QED BY <1>1, <1>4 DEF CncInv, TypeOK

\* The bounded type is a case of the loose one.
LEMMA InContext ==
  ASSUME CncInv
  PROVE  c \in Context /\ Good(c)
BY DEF CncInv, Good, Sound

\* The machine begins disabled, with its devices open.
LEMMA InitLemma == Init => CncInv
<1> SUFFICES ASSUME Init PROVE CncInv
  OBVIOUS
<1>1. MaxThreads \in Nat
  BY Inputs
<1>2. c \in ContextType
  BY <1>1 DEF Init, ContextType, CncStates, CncLeaves, Requests, RequestStates, Responses, ResponseStates
<1>3. c \in Context
  BY DEF Init, Context, CncStates, CncLeaves, Requests, RequestStates, Responses, ResponseStates
<1>4. Devices(c) /\ Timed(c) /\ Exchanges(c) /\ Offers(c) /\ Shut(c)
  BY DEF Init, Devices, Timed, Exchanges, Offers, Shut
<1> QED BY <1>2, <1>3, <1>4 DEF CncInv, TypeOK, Good, Sound

\* A timeout takes the request on, so that it may use up the timer's last thread.
LEMMA TimeoutLemma ==
  ASSUME CncInv, NEW q \in Requests, Timeout(q)
  PROVE  CncInv'
<1> DEFINE m == [c.late EXCEPT ![q] = @ - 1]
           x == [c EXCEPT !.late = m]
           z == RequestEvent(x, q, "timeout")
<1>1. c \in Context /\ Good(c) /\ c.late[q] > 0 /\ Becomes(z)
  BY InContext DEF Timeout
<1>2. m \in [Requests -> Nat] /\ \A p \in Requests : p # q => m[p] = c.late[p]
  BY <1>1 DEF Context
<1> HIDE DEF m
<1>3. /\ x \in Context /\ x.cnc = c.cnc /\ x.req = c.req /\ x.timer = c.timer /\ x.late = m
      /\ x.pending = c.pending /\ x.resp = c.resp /\ x.active = c.active /\ x.pos = c.pos
  BY <1>1, <1>2 DEF Context
<1> HIDE DEF x
<1>4. Devices(x) /\ Exchanges(x) /\ Offers(x) /\ Shut(x)
  BY <1>1, <1>3 DEF Good, Sound, Devices, Exchanges, Offers, Shut
<1>5. x.req[q] \in RequestStates /\ "timeout" \in Events
  BY <1>3 DEF Context, Events
<1> SUFFICES Good(z)
  BY <1>1, BecomesLemma
<1>6. CASE x.req[q] = "fail"
  <2>1. /\ Sound(z) /\ z.cnc = "idle" /\ z.pending = x.pending
        /\ \A p \in Requests : z.req[p] \in {"not_ready", "ready"}
    BY <1>3, <1>4, <1>6, FailedEventLemma
  <2> HIDE DEF z
  <2> QED BY <2>1 DEF Good, Exchanges, Offers, Shut
<1>7. CASE x.req[q] = "processing"
  <2> DEFINE t == [x.timer EXCEPT ![q] = TRUE]
             r == [x.req EXCEPT ![q] = "fail"]
  <2>1. RequestNext(x.req[q], "timeout") = "fail"
    BY <1>7 DEF RequestNext, RequestEvents, RequestDefault
  <2>2. z = Put(x, q, "fail")
    BY <1>7, <2>1 DEF RequestEvent
  <2>3. z = [x EXCEPT !.req = r, !.timer = t]
    BY <1>7, <2>2 DEF Put
  <2>4. r \in [Requests -> RequestStates] /\ t \in [Requests -> BOOLEAN]
    BY <1>3 DEF Context, RequestStates
  <2>5. \A p \in Requests : /\ t[p] = IF p = q THEN TRUE ELSE x.timer[p]
                            /\ r[p] = IF p = q THEN "fail" ELSE x.req[p]
    BY <1>3 DEF Context
  <2> HIDE DEF r, t, z
  <2>6. /\ z \in Context /\ z.req = r /\ z.timer = t /\ z.cnc = x.cnc /\ z.late = x.late
        /\ z.pending = x.pending /\ z.resp = x.resp /\ z.active = x.active /\ z.pos = x.pos
    BY <1>3, <2>3, <2>4 DEF Context
  <2>7. Devices(z) /\ Offers(z) /\ Shut(z)
    BY <1>4, <2>6 DEF Devices, Offers, Shut
  <2>8. Exchanges(z)
    BY <1>4, <1>7, <2>5, <2>6 DEF Exchanges
  <2>9. Timed(z)
    BY <1>1, <1>2, <1>3, <2>5, <2>6 DEF Good, Sound, Timed
  <2> QED BY <2>6, <2>7, <2>8, <2>9 DEF Good, Sound
<1>8. CASE x.req[q] \notin {"fail", "processing"}
  <2>1. Good(x)
    <3>1. Timed(x)
      BY <1>1, <1>2, <1>3, <1>8 DEF Good, Sound, Timed
    <3> QED BY <1>3, <1>4, <3>1 DEF Good, Sound
  <2>2. Sound(z) /\ Offers(z) /\ Shut(z) /\ Exchanging(z, q, "timeout")
    BY <2>1, RequestEventLemma
  <2> HIDE DEF z
  <2>3. Exchanges(z)
    BY <2>2 DEF Exchanges, Exchanging
  <2> QED BY <2>2, <2>3 DEF Good
<1> QED BY <1>6, <1>7, <1>8

\* The robot's answer to a request; READY leaves the machine's own event pending.
LEMMA AnswerLemma ==
  ASSUME CncInv, NEW q \in Requests, NEW v \in PeerValues, RobotAnswers(q, v)
  PROVE  CncInv'
<1> DEFINE y == RequestEvent(c, q, v)
           k == IF v = "ready" THEN q ELSE "none"
           z == [y EXCEPT !.pending = k]
<1>1. Good(c) /\ c.pending = "none" /\ Becomes(z)
  BY InContext DEF RobotAnswers
<1>2. Sound(y) /\ Offers(y) /\ Shut(y) /\ Exchanging(y, q, v) /\ y.pending = "none"
  BY <1>1, RequestEventLemma
<1> HIDE DEF y
<1>3. /\ z \in Context /\ z.cnc = y.cnc /\ z.req = y.req /\ z.timer = y.timer /\ z.late = y.late
      /\ z.pending = k /\ z.resp = y.resp /\ z.active = y.active /\ z.pos = y.pos
  BY <1>2 DEF Sound, Context
<1> HIDE DEF z
<1>4. Devices(z) /\ Timed(z) /\ Offers(z) /\ Shut(z)
  BY <1>2, <1>3 DEF Sound, Devices, Timed, Offers, Shut
<1>5. Exchanges(z)
  <2>1. "none" \notin Requests
    BY DEF Requests
  <2> QED BY <1>2, <1>3, <2>1 DEF Exchanges, Exchanging
<1> QED BY <1>1, <1>3, <1>4, <1>5, BecomesLemma DEF Good, Sound

\* The second event of READY.
LEMMA MaterialLemma ==
  ASSUME CncInv, MaterialReady
  PROVE  CncInv'
<1> DEFINE x == [c EXCEPT !.pending = "none"]
           z == CASE x.cnc \in {"not_ready", "fault"} -> Activate(x)
                  [] x.cnc = "idle" -> Go(x, NextExchange(x))
                  [] OTHER -> x
<1>1. c \in Context /\ Good(c) /\ Becomes(z)
  BY InContext DEF MaterialReady
<1>2. /\ x \in Context /\ x.cnc = c.cnc /\ x.req = c.req /\ x.timer = c.timer /\ x.late = c.late
      /\ x.resp = c.resp /\ x.active = c.active /\ x.pos = c.pos
  BY <1>1 DEF Context
<1> HIDE DEF x
<1>3. Sound(x) /\ Offers(x) /\ Shut(x)
  BY <1>1, <1>2 DEF Good, Sound, Devices, Timed, Offers, Shut
<1>4. CASE x.cnc \in {"not_ready", "fault"}
  <2>1. z = Activate(x)
    BY <1>4
  <2> QED BY <1>1, <1>3, <2>1, ActivateLemma, BecomesLemma
<1>5. CASE x.cnc = "idle"
  <2>1. z = Go(x, NextExchange(x))
    BY <1>5
  <2> QED BY <1>1, <1>3, <2>1, GoNextLemma, BecomesLemma
<1>6. CASE x.cnc \notin {"not_ready", "fault", "idle"}
  <2>1. z = x
    BY <1>6
  <2>2. Exchanges(x)
    BY <1>1, <1>2, <1>6 DEF Good, Exchanges
  <2> QED BY <1>1, <1>3, <2>1, <2>2, BecomesLemma DEF Good
<1> QED BY <1>4, <1>5, <1>6

\* Leaving and forgetting the history.
LEMMA ForgetLemma ==
  ASSUME NEW x, Sound(x)
  PROVE  Sound(Forget(x)) /\ Forget(x).cnc = "not_ready"
<1> DEFINE l == Leave(x)
           y == [l EXCEPT !.hist = "loading", !.cnc = "not_ready"]
<1>1. l \in Context /\ Timed(l) /\ Devices(l)
  BY LeaveLemma DEF Sound
<1> HIDE DEF l
<1>2. /\ y \in Context /\ y.cnc = "not_ready" /\ y.req = l.req /\ y.timer = l.timer
      /\ y.late = l.late /\ y.resp = l.resp /\ y.pos = l.pos
  BY <1>1 DEF Context, CncStates, CncLeaves
<1>3. Forget(x) = y
  BY DEF Forget, l
<1> HIDE DEF y
<1> QED BY <1>1, <1>2, <1>3 DEF Sound, Timed, Devices

\* The robot's mode, execution or availability changes.
LEMMA StatusLemma ==
  ASSUME CncInv, RobotStatus
  PROVE  CncInv'
<1>1. PICK ok \in BOOLEAN :
        LET x == [c EXCEPT !.robot = ok]
        IN  \/ Becomes(Activate(x))
            \/ ~ok /\ Becomes(IF x.cnc \in CncLeaves THEN ActivateAfresh(x) ELSE Activate(x))
  BY DEF RobotStatus
<1> DEFINE x == [c EXCEPT !.robot = ok]
<1>2. Becomes(Activate(x)) \/ Becomes(ActivateAfresh(x))
  BY <1>1
<1>3. Sound(x)
  <2>1. c \in Context /\ Good(c)
    BY InContext
  <2>2. /\ x \in Context /\ x.cnc = c.cnc /\ x.req = c.req /\ x.timer = c.timer /\ x.late = c.late
        /\ x.pending = c.pending /\ x.resp = c.resp /\ x.active = c.active /\ x.pos = c.pos
    BY <2>1 DEF Context
  <2> HIDE DEF x
  <2> QED BY <2>1, <2>2, GoodSame DEF Good
<1> HIDE DEF x
<1>4. Good(Activate(x)) /\ Good(ActivateAfresh(x))
  BY <1>3, ForgetLemma, ActivateLemma DEF ActivateAfresh
<1> QED BY <1>2, <1>4, BecomesLemma

\* A condition comes or goes.
LEMMA ConditionLemma ==
  ASSUME CncInv, Condition
  PROVE  CncInv'
<1> DEFINE bad(b) == [c EXCEPT !.faults = b]
           off(b) == [bad(b) EXCEPT !.hist = "loading"]
<1>1. c \in Context /\ Good(c)
  BY InContext
<1>2. ASSUME NEW b \in BOOLEAN PROVE Good(bad(b)) /\ Good(off(b))
  <2>1. /\ bad(b) \in Context /\ bad(b).cnc = c.cnc /\ bad(b).req = c.req
        /\ bad(b).timer = c.timer /\ bad(b).late = c.late /\ bad(b).pending = c.pending
        /\ bad(b).resp = c.resp /\ bad(b).active = c.active /\ bad(b).pos = c.pos
    BY <1>1 DEF Context
  <2>2. /\ off(b) \in Context /\ off(b).cnc = c.cnc /\ off(b).req = c.req
        /\ off(b).timer = c.timer /\ off(b).late = c.late /\ off(b).pending = c.pending
        /\ off(b).resp = c.resp /\ off(b).active = c.active /\ off(b).pos = c.pos
    BY <1>1 DEF Context, CncLeaves
  <2> HIDE DEF bad, off
  <2> QED BY <1>1, <2>1, <2>2, GoodSame
<1>3. \/ Becomes(IF bad(TRUE).cnc = "fault" THEN off(TRUE) ELSE Fault(Forget(bad(TRUE))))
      \/ Becomes(IF bad(TRUE).cnc = "cycle_start" THEN Fault(bad(TRUE)) ELSE bad(TRUE))
      \/ Becomes(Activate(bad(FALSE)))
  BY DEF Condition
<1> HIDE DEF bad, off
<1>4. /\ Good(bad(TRUE)) /\ Good(off(TRUE)) /\ Good(bad(FALSE))
      /\ Sound(bad(TRUE)) /\ Sound(bad(FALSE)) /\ bad(TRUE) \in Context
  BY <1>2 DEF Good, Sound
<1>5. Good(Fault(bad(TRUE))) /\ Good(Activate(bad(FALSE)))
  BY <1>4, FaultLemma, ActivateLemma
<1>6. Good(Fault(Forget(bad(TRUE))))
  <2>1. Sound(Forget(bad(TRUE))) /\ Forget(bad(TRUE)).cnc = "not_ready"
    BY <1>4, ForgetLemma
  <2> QED BY <2>1, FaultLemma DEF Sound
<1> QED BY <1>3, <1>4, <1>5, <1>6, BecomesLemma

\* reset_cnc takes everything back, except the timers.
LEMMA ResetLemma ==
  ASSUME NEW x, Sound(x)
  PROVE  Sound(Reset(x)) /\ (Offers(x) /\ Shut(x) => Good(Reset(x)))
<1> DEFINE p == [r \in Responses |-> "not_ready"]
           s == [q \in Requests |-> "not_ready"]
           y == [x EXCEPT !.system = FALSE, !.hist = "loading", !.resp = p, !.req = s]
<1>1. /\ p \in [Responses -> ResponseStates] /\ s \in [Requests -> RequestStates]
      /\ (\A r \in Responses : p[r] = "not_ready") /\ (\A q \in Requests : s[q] = "not_ready")
  BY DEF ResponseStates, RequestStates
<1>2. Reset(x) = y
  BY DEF Reset
<1> HIDE DEF p, s
<1>3. /\ y \in Context /\ y.cnc = x.cnc /\ y.req = s /\ y.resp = p /\ y.active = x.active
      /\ y.pos = x.pos
  BY <1>1 DEF Sound, Context, CncLeaves
<1> HIDE DEF y
<1>4. Devices(y) /\ Timed(y) /\ Exchanges(y)
  BY <1>1, <1>3 DEF Devices, Timed, Exchanges
<1>5. (Offers(x) => Offers(y)) /\ (Shut(x) => Shut(y))
  BY <1>1, <1>3 DEF Offers, Shut
<1> QED BY <1>2, <1>3, <1>4, <1>5 DEF Good, Sound

\* The operator enables, disables, resets or plans a failure.
LEMMA OperatorLemma ==
  ASSUME CncInv, Operator
  PROVE  CncInv'
<1>1. c \in Context /\ Good(c) /\ Sound(c)
  BY InContext DEF Good
<1>2. ASSUME NEW enabled \in BOOLEAN, Becomes(Activate([c EXCEPT !.link = enabled]))
      PROVE  CncInv'
  <2> DEFINE x == [c EXCEPT !.link = enabled]
  <2>1. /\ x \in Context /\ x.cnc = c.cnc /\ x.req = c.req /\ x.timer = c.timer /\ x.late = c.late
        /\ x.pending = c.pending /\ x.resp = c.resp /\ x.active = c.active /\ x.pos = c.pos
    BY <1>1 DEF Context
  <2>2. Becomes(Activate(x))
    BY <1>2
  <2> HIDE DEF x
  <2>3. Sound(x)
    BY <1>1, <2>1, GoodSame DEF Good
  <2> QED BY <2>2, <2>3, ActivateLemma, BecomesLemma
<1>3. ASSUME Becomes(Activate(Reset(Forget(c))))
      PROVE  CncInv'
  <2>1. Sound(Forget(c)) /\ Forget(c).cnc = "not_ready"
    BY <1>1, ForgetLemma
  <2>2. Sound(Reset(Forget(c)))
    BY <2>1, ResetLemma
  <2> QED BY <1>3, <2>2, ActivateLemma, BecomesLemma
<1>4. ASSUME Becomes(Reset(c))
      PROVE  CncInv'
  BY <1>1, <1>4, ResetLemma, BecomesLemma DEF Good
<1>5. ASSUME NEW n \in FailNext, Becomes([c EXCEPT !.failing = @ \cup {n}])
      PROVE  CncInv'
  <2> DEFINE x == [c EXCEPT !.failing = @ \cup {n}]
  <2>1. n \in Responses \cup {"exec"}
    BY Inputs
  <2>2. /\ x \in Context /\ x.cnc = c.cnc /\ x.req = c.req /\ x.timer = c.timer /\ x.late = c.late
        /\ x.pending = c.pending /\ x.resp = c.resp /\ x.active = c.active /\ x.pos = c.pos
    BY <1>1, <2>1 DEF Context
  <2>3. Becomes(x)
    BY <1>5
  <2> HIDE DEF x
  <2> QED BY <1>1, <2>2, <2>3, GoodSame, BecomesLemma
<1> QED BY <1>2, <1>3, <1>4, <1>5 DEF Operator

\* A device's thread reports.
LEMMA MovedLemma ==
  ASSUME CncInv, NEW r \in Responses, DeviceMoved(r)
  PROVE  CncInv'
<1> DEFINE m == [c.moving EXCEPT ![r] = @ - 1]
           x == [c EXCEPT !.moving = m]
<1>1. c \in Context /\ Good(c)
  BY InContext
<1>2. c.moving[r] > 0 /\ Becomes(ResponseEvent(x, r, "complete"))
  BY DEF DeviceMoved
<1>3. m \in [Responses -> Nat]
  BY <1>1, <1>2 DEF Context
<1> HIDE DEF m
<1>4. /\ x \in Context /\ x.cnc = c.cnc /\ x.req = c.req /\ x.timer = c.timer /\ x.late = c.late
      /\ x.pending = c.pending /\ x.resp = c.resp /\ x.active = c.active /\ x.pos = c.pos
  BY <1>1, <1>3 DEF Context
<1> HIDE DEF x
<1>5. "complete" \in PeerValues
  BY DEF PeerValues
<1> QED BY <1>1, <1>2, <1>4, <1>5, GoodSame, ResponseEventLemma, BecomesLemma

\* A failure's thread takes the failure back.
LEMMA FailResetLemma ==
  ASSUME CncInv, NEW r \in Responses, FailReset(r)
  PROVE  CncInv'
<1> DEFINE m == [c.resets EXCEPT ![r] = @ - 1]
           x == [c EXCEPT !.resets = m]
<1>1. c \in Context /\ Good(c)
  BY InContext
<1>2. c.resets[r] > 0 /\ Becomes(ResponseEvent(x, r, "not_ready"))
  BY DEF FailReset
<1>3. m \in [Responses -> Nat]
  BY <1>1, <1>2 DEF Context
<1> HIDE DEF m
<1>4. /\ x \in Context /\ x.cnc = c.cnc /\ x.req = c.req /\ x.timer = c.timer /\ x.late = c.late
      /\ x.pending = c.pending /\ x.resp = c.resp /\ x.active = c.active /\ x.pos = c.pos
  BY <1>1, <1>3 DEF Context
<1> HIDE DEF x
<1>5. "not_ready" \in PeerValues
  BY DEF PeerValues
<1> QED BY <1>1, <1>2, <1>4, <1>5, GoodSame, ResponseEventLemma, BecomesLemma

\* A cycle's thread ends the cycle.
LEMMA CycleLemma ==
  ASSUME CncInv, CycleDone
  PROVE  CncInv'
<1> DEFINE k == c.cycles - 1
           x == [c EXCEPT !.cycles = k, !.exec = FALSE]
<1>1. c \in Context /\ Good(c) /\ c.cycles > 0
  BY InContext DEF CycleDone
<1>2. k \in Nat
  BY <1>1 DEF Context
<1>3. Becomes(IF x.cnc = "cycle_start" THEN Go(x, "unloading") ELSE x)
  BY DEF CycleDone
<1> HIDE DEF k
<1>4. /\ x \in Context /\ x.cnc = c.cnc /\ x.req = c.req /\ x.timer = c.timer /\ x.late = c.late
      /\ x.pending = c.pending /\ x.resp = c.resp /\ x.active = c.active /\ x.pos = c.pos
  BY <1>1, <1>2 DEF Context
<1> HIDE DEF x
<1>5. Good(x)
  BY <1>1, <1>4, GoodSame
<1>6. CASE x.cnc = "cycle_start"
  BY <1>3, <1>5, <1>6, CycleEndLemma, BecomesLemma
<1>7. CASE x.cnc # "cycle_start"
  BY <1>3, <1>5, <1>7, BecomesLemma
<1> QED BY <1>6, <1>7

\* A timer that wakes hands over to its thread.
LEMMA WakeLemma ==
  ASSUME CncInv, NEW q \in Requests, TimerWakes(q)
  PROVE  CncInv'
<1> DEFINE t == [c.timer EXCEPT ![q] = FALSE]
           l == [c.late EXCEPT ![q] = @ + 1]
           x == [c EXCEPT !.timer = t, !.late = l]
<1>1. c \in Context /\ Good(c) /\ Becomes(x)
  BY InContext DEF TimerWakes
<1>2. t \in [Requests -> BOOLEAN] /\ l \in [Requests -> Nat]
  BY <1>1 DEF Context
<1>3. l[q] > 0 /\ \A p \in Requests : p # q => l[p] = c.late[p] /\ t[p] = c.timer[p]
  BY <1>1 DEF Context
<1> HIDE DEF t, l
<1>4. /\ x \in Context /\ x.cnc = c.cnc /\ x.req = c.req /\ x.timer = t /\ x.late = l
      /\ x.pending = c.pending /\ x.resp = c.resp /\ x.active = c.active /\ x.pos = c.pos
  BY <1>1, <1>2 DEF Context
<1> HIDE DEF x
<1>5. Devices(x) /\ Exchanges(x) /\ Offers(x) /\ Shut(x)
  BY <1>1, <1>4 DEF Good, Sound, Devices, Exchanges, Offers, Shut
<1>6. Timed(x)
  BY <1>1, <1>3, <1>4 DEF Good, Sound, Timed
<1> QED BY <1>1, <1>4, <1>5, <1>6, BecomesLemma DEF Good, Sound

\* Every step keeps the invariant.
LEMMA StepLemma == CncInv /\ [Next]_c => CncInv'
<1> SUFFICES ASSUME CncInv, [Next]_c PROVE CncInv'
  OBVIOUS
<1>1. ASSUME NEW r \in Asked, NEW v \in PeerValues, RobotAsks(r, v) PROVE CncInv'
  <2>1. r \in Responses /\ Good(c)
    BY Inputs, InContext
  <2>2. PolitePeer /\ v = "active" => Transferring
    BY <1>1 DEF RobotAsks, PoliteRequest
  <2>3. Transferring => c.cnc # "cycle_start"
    BY <2>1 DEF Transferring, Good, Exchanges, Leaf
  <2> QED BY <1>1, <2>1, <2>2, <2>3, ResponseEventLemma, BecomesLemma DEF RobotAsks
<1>2. ASSUME NEW q \in Requests, NEW v \in PeerValues, RobotAnswers(q, v) PROVE CncInv'
  BY <1>2, AnswerLemma
<1>3. CASE MaterialReady
  BY <1>3, MaterialLemma
<1>4. CASE RobotStatus
  BY <1>4, StatusLemma
<1>5. CASE Condition
  BY <1>5, ConditionLemma
<1>6. CASE Operator
  BY <1>6, OperatorLemma
<1>7. CASE CycleDone
  BY <1>7, CycleLemma
<1>8. ASSUME NEW r \in Responses, DeviceMoved(r) PROVE CncInv'
  BY <1>8, MovedLemma
<1>9. ASSUME NEW r \in Responses, FailReset(r) PROVE CncInv'
  BY <1>9, FailResetLemma
<1>10. ASSUME NEW q \in Requests, TimerWakes(q) PROVE CncInv'
  BY <1>10, WakeLemma
<1>11. ASSUME NEW q \in Requests, Timeout(q) PROVE CncInv'
  BY <1>11, TimeoutLemma
<1>12. CASE UNCHANGED c
  BY <1>12 DEF CncInv, TypeOK
<1> QED
  BY <1>1, <1>2, <1>3, <1>4, <1>5, <1>6, <1>7, <1>8, <1>9, <1>10, <1>11, <1>12 DEF Next

-----------------------------------------------------------------------------
(* What the machine tool promises                                           *)

\* The machine never leaves the invariant: offers, transfers and failures are made in their
\* leaves of cnc.rb's machine, disabled machines offer nothing, and moving devices are owned.
THEOREM CncKept == Spec => []CncInv
<1>1. Init => CncInv
  BY InitLemma
<1>2. CncInv /\ [Next]_c => CncInv'
  BY StepLemma
<1> QED BY <1>1, <1>2, PTL DEF Spec

\* The context has its type, the threads within their bounds.
THEOREM CncTyped == Spec => []TypeOK
<1>1. CncInv => TypeOK
  BY DEF CncInv
<1> QED BY <1>1, CncKept, PTL

\* A completed response of response.rb tells where its device stands, and no two responses
\* work on one device, whatever the robot asks and whatever fails.
THEOREM CompletionsAreTrue == Spec => []CompleteMeansThere
<1>1. CncInv => CompleteMeansThere
  BY DeviceTable DEF CncInv, Good, Sound, Devices, CompleteMeansThere
<1> QED BY <1>1, CncKept, PTL

\* A machine that cnc.rb has disabled serves nobody.
THEOREM DisabledMachineIsQuiet == Spec => []DisabledIsQuiet
<1>1. CncInv => DisabledIsQuiet
  BY DEF CncInv, Good, Exchanges, Offers, Leaf, DisabledIsQuiet
<1> QED BY <1>1, CncKept, PTL

\* The request that is carried out or has failed is the machine's own: completed and failed
\* of cnc.rb do not have to say whose they are.
THEOREM TransfersAreOwned == Spec => []TransferOwned
<1>1. CncInv => TransferOwned
  BY DEF CncInv, Good, Exchanges, Leaf, Requests, TransferOwned
<1> QED BY <1>1, CncKept, PTL

\* The robot is never asked to load and to unload at once.
THEOREM OneExchangeAtATime == Spec => []OneExchange
<1>1. CncInv => OneExchange
  BY DEF CncInv, Good, Exchanges, Leaf, Requests, OneExchange
<1> QED BY <1>1, CncKept, PTL

\* A request that waits for the robot has a timer or a timer's thread about to speak.
THEOREM RequestsAreLimited == Spec => []LimitedRequests
<1>1. CncInv => LimitedRequests
  BY DEF CncInv, Good, Sound, Timed, LimitedRequests
<1> QED BY <1>1, CncKept, PTL

\* While the machine is in its cycle the door and the chuck are shut: cycling of cnc.rb looks at
\* them once, and a robot that keeps to the handshake opens nothing before the next transfer.
THEOREM CyclesBehindClosedDoor ==
  ASSUME PolitePeer
  PROVE  Spec => []CycleBehindClosedDoor
<1>1. CncInv => CycleBehindClosedDoor
  BY DEF CncInv, Good, Sound, Context, Shut, CycleBehindClosedDoor
<1> QED BY <1>1, CncKept, PTL

-----------------------------------------------------------------------------
(* What is on offer                                                         *)

\* Where the machine waits it has made or offered an exchange, and it goes through its cycle
\* with material.
Offering(x) ==
  /\ \A q \in Requests : x.cnc = Leaf(q) => x.req[q] # "not_ready"
  /\ x.cnc = "idle" => \E q \in Requests : x.req[q] # "not_ready"
  /\ x.cnc = "cycle_start" => x.has

\* A disabled machine owes nothing.
LEMMA DisabledOwesNothing ==
  ASSUME NEW x, x.cnc \in {"not_ready", "fault"}
  PROVE  Offering(x)
BY DEF Offering, Leaf, Requests

LEMMA OfferingSame ==
  ASSUME NEW x, NEW y, Offering(x), y.cnc = x.cnc, y.req = x.req, y.has = x.has
  PROVE  Offering(y)
BY DEF Offering

\* The events that do not take a request back.
LEMMA OfferTable ==
  ASSUME NEW s \in RequestStates, NEW e \in Events
  PROVE  /\ e \in {"activate", "idle"} => RequestNext(s, e) # "not_ready"
         /\ s = "fail" /\ e \notin {"unavailable", "deactivate"} => RequestNext(s, e) = "ready"
         /\ s # "not_ready" /\ e \notin {"unavailable", "deactivate"} /\ ~(s = "processing" /\ e = "complete")
              => RequestNext(s, e) # "not_ready"
<1>1. CASE s = "not_ready"
  BY <1>1 DEF RequestNext, RequestEvents, RequestDefault, RequestStates, Events, PeerValues
<1>2. CASE s = "ready"
  BY <1>2 DEF RequestNext, RequestEvents, RequestDefault, RequestStates, Events, PeerValues
<1>3. CASE s = "active"
  BY <1>3 DEF RequestNext, RequestEvents, RequestDefault, RequestStates, Events, PeerValues
<1>4. CASE s = "processing"
  BY <1>4 DEF RequestNext, RequestEvents, RequestDefault, RequestStates, Events, PeerValues
<1>5. CASE s = "fail"
  BY <1>5 DEF RequestNext, RequestEvents, RequestDefault, RequestStates, Events, PeerValues
<1> QED BY <1>1, <1>2, <1>3, <1>4, <1>5 DEF RequestStates

\* Disabling and faults leave the machine disabled.
LEMMA DisabledLemma ==
  ASSUME NEW x \in Context
  PROVE  /\ \A to \in {"not_ready", "fault"} : Disable(x, to).cnc \in {"not_ready", "fault"}
         /\ Disable(x, "fault").cnc = "fault"
<1> DEFINE one   == Tell(x, "load", "deactivate")
           quiet == Tell(one, "unload", "deactivate")
<1>1. {"load", "unload"} \subseteq Requests /\ "deactivate" \in Events
  BY DEF Requests, Events
<1>2. one \in Context
  BY <1>1, TellLemma DEF Follows
<1> HIDE DEF one
<1>3. quiet \in Context
  BY <1>1, <1>2, TellLemma DEF Follows
<1> HIDE DEF quiet
<1>4. ASSUME NEW to, NEW leaf, NEW fault, NEW resp, NEW resets
      PROVE  [quiet EXCEPT !.cnc = leaf, !.system = fault, !.active = FALSE, !.resp = resp, !.resets = resets].cnc = leaf
  BY <1>3 DEF Context
<1>5. \A to : Disable(x, to).cnc = IF {r \in Responses : x.resp[r] = "active"} = {} THEN to ELSE "fault"
  BY <1>4 DEF Disable, quiet, one
<1> QED BY <1>5

LEMMA FaultIsFault ==
  ASSUME NEW x \in Context
  PROVE  Fault(x).cnc = "fault" /\ SystemFault(x).cnc = "fault"
<1>1. \A y \in Context : Fault(y).cnc = "fault"
  BY LeaveLemma, DisabledLemma DEF Fault
<1>2. [x EXCEPT !.system = TRUE] \in Context
  BY DEF Context
<1> QED BY <1>1, <1>2 DEF SystemFault

\* A cycle begins where the machine is, or it faults.
LEMMA CyclingOffers ==
  ASSUME NEW x \in Context, Offering(x)
  PROVE  Offering(Cycling(x)) /\ Cycling(x).cnc \in {x.cnc, "fault"}
<1> DEFINE refused == SystemFault(x)
           told == [refused EXCEPT !.failing = @ \ {"exec"}]
           begun == [x EXCEPT !.exec = TRUE, !.cycles = @ + 1]
<1>1. refused.cnc = "fault"
  BY FaultIsFault
<1>2. told.cnc = "fault"
  <2> HIDE DEF refused
  <2> QED BY <1>1
<1>3. begun.cnc = x.cnc /\ begun.req = x.req /\ begun.has = x.has
  BY DEF Context
<1>4. Cycling(x) \in {told, refused, begun}
  BY DEF Cycling
<1> HIDE DEF told, refused, begun
<1>5. Offering(begun)
  BY <1>3, OfferingSame
<1>6. Offering(told) /\ Offering(refused)
  BY <1>1, <1>2, DisabledOwesNothing
<1> QED BY <1>1, <1>2, <1>3, <1>4, <1>5, <1>6

\* The request of an exchange that begins is made.
LEMMA ExchangeOffers ==
  ASSUME NEW x \in Context, NEW off \in Requests, NEW on \in Requests
  PROVE  Exchange(x, off, on).req[on] # "not_ready"
<1> DEFINE y == Tell(x, off, "deactivate")
           z == Tell(y, on, "activate")
<1>1. {"activate", "deactivate"} \subseteq Events
  BY DEF Events
<1>2. y \in Context
  BY <1>1, TellLemma DEF Follows
<1> HIDE DEF y
<1>3. y.req \in [Requests -> RequestStates]
  BY <1>2 DEF Context
<1>4. z.req = [y.req EXCEPT ![on] = RequestNext(y.req[on], "activate")]
  BY <1>1, <1>2, TellLemma
<1>5. RequestNext(y.req[on], "activate") # "not_ready"
  BY <1>1, <1>3, OfferTable
<1> HIDE DEF z
<1>6. z.req[on] # "not_ready"
  BY <1>3, <1>4, <1>5
<1> QED BY <1>6 DEF Exchange, z, y

\* A machine that goes on to the exchange of its material makes its request.
LEMMA EnterOffers ==
  ASSUME NEW x, Sound(x), NEW reporting
  PROVE  LET y == Enter(x, NextExchange(x), reporting)
         IN  Offering(y) /\ y.req[On(x)] # "not_ready"
<1> DEFINE w == [x EXCEPT !.cnc = NextExchange(x)]
           y == Exchange(w, Off(x), On(x))
           z == Enter(x, NextExchange(x), reporting)
<1>1. NextExchange(x) \in {"loading", "unloading"} /\ {On(x), Off(x)} \subseteq Requests
  BY DEF NextExchange, On, Off, Requests
<1>2. w \in Context /\ w.has = x.has
  BY <1>1 DEF Context, CncStates, CncLeaves, Sound
<1>3. z = y
  <2>1. x.has \in BOOLEAN
    BY DEF Sound, Context
  <2>2. CASE x.has
    BY <1>2, <2>2 DEF Enter, NextExchange, Unloading, On, Off
  <2>3. CASE ~x.has
    BY <1>2, <2>3 DEF Enter, NextExchange, Loading, On, Off
  <2> QED BY <2>1, <2>2, <2>3
<1> HIDE DEF w
<1>4. y.req[On(x)] # "not_ready"
  BY <1>1, <1>2, ExchangeOffers
<1>5. z.cnc = Leaf(On(x))
  BY EnterLemma
<1> HIDE DEF y, z
<1>6. Offering(z)
  <2>1. \A q \in Requests : Leaf(q) = Leaf(On(x)) => q = On(x)
    BY <1>1 DEF Leaf, Requests
  <2>2. Leaf(On(x)) \notin {"idle", "cycle_start"}
    BY DEF Leaf
  <2> QED BY <1>3, <1>4, <1>5, <2>1, <2>2 DEF Offering
<1> QED BY <1>3, <1>4, <1>6 DEF z

\* An operational machine has its exchange on offer, whatever its history.
LEMMA OperationalOffers ==
  ASSUME NEW x, Sound(x)
  PROVE  Offering(Operational(x))
<1> DEFINE offered == [r \in Responses |-> IF x.resp[r] = "not_ready" THEN "ready" ELSE x.resp[r]]
           ready == [x EXCEPT !.active = TRUE, !.resp = offered]
           moved == Enter(ready, NextExchange(x), "none")
           idled == Idle(moved, "none")
<1>1. offered \in [Responses -> ResponseStates]
  BY DEF Sound, Context, ResponseStates
<1>2. /\ ready \in Context /\ ready.has = x.has /\ ready.req = x.req /\ ready.timer = x.timer
      /\ ready.late = x.late /\ ready.pos = x.pos /\ ready.resp = offered
  <2> HIDE DEF offered
  <2> QED BY <1>1 DEF Sound, Context
<1>3. Sound(ready)
  <2>1. \A r \in Responses : /\ offered[r] = "active" => x.resp[r] = "active"
                             /\ offered[r] = "complete" => x.resp[r] = "complete"
    OBVIOUS
  <2>2. \A r \in Responses : Related[r] \in Responses
    BY DEF Related, Responses
  <2> HIDE DEF ready, offered
  <2> QED BY <1>2, <2>1, <2>2 DEF Sound, Devices, Timed
<1>4. NextExchange(x) = NextExchange(ready) /\ On(ready) = On(x)
  BY <1>2 DEF NextExchange, On
<1> HIDE DEF ready
<1>5. Offering(moved) /\ Sound(moved) /\ moved.cnc = Leaf(On(x)) /\ moved.has = x.has
  BY <1>2, <1>3, <1>4, EnterLemma, EnterOffers DEF Good
<1> HIDE DEF moved
<1>6. Offering(idled)
  <2>1. moved \in Context /\ "none" \notin Requests /\ On(moved) = On(x) /\ On(x) \in Requests /\ On(x) # Off(x) /\ Off(moved) = Off(x)
    BY <1>5 DEF Sound, Requests, On, Off
  <2>2. Follows(moved, idled) /\ idled.req[On(x)] = RequestNext(moved.req[On(x)], "idle")
    BY <2>1, IdleLemma
  <2>3. moved.req[On(x)] \in RequestStates /\ "idle" \in Events
    BY <2>1 DEF Context, Events
  <2>4. idled.req[On(x)] # "not_ready"
    BY <2>2, <2>3, OfferTable
  <2> HIDE DEF idled
  <2>5. idled.cnc = Leaf(On(x))
    BY <1>5, <2>2 DEF Follows, SameMachine
  <2>6. \A q \in Requests : Leaf(q) = Leaf(On(x)) => q = On(x)
    BY <2>1 DEF Leaf, Requests
  <2>7. Leaf(On(x)) \notin {"idle", "cycle_start"}
    BY DEF Leaf
  <2> QED BY <2>4, <2>5, <2>6, <2>7 DEF Offering
<1>7. Offering(Cycling(moved))
  BY <1>5, CyclingOffers DEF Sound
<1>8. Operational(x) \in {moved, idled, Cycling(moved)}
  <2>1. ready = [x EXCEPT !.active = TRUE, !.resp = [r \in Responses |-> IF @[r] = "not_ready" THEN "ready" ELSE @[r]]]
    BY DEF ready
  <2> QED BY <2>1 DEF Operational, moved
<1> QED BY <1>5, <1>6, <1>7, <1>8

LEMMA ActivateOffers ==
  ASSUME NEW x, Sound(x)
  PROVE  Offering(Activate(x))
<1> DEFINE y == Leave(x)
<1>1. Sound(y)
  BY LeaveLemma DEF Sound
<1>2. Offering(Operational(y))
  BY <1>1, OperationalOffers
<1>3. \A to \in {"not_ready", "fault"} : Offering(Disable(y, to))
  BY <1>1, DisabledLemma, DisabledOwesNothing DEF Sound
<1> QED BY <1>2, <1>3 DEF Activate

LEMMA GoNextOffers ==
  ASSUME NEW x, Sound(x)
  PROVE  Offering(Go(x, NextExchange(x))) /\ Go(x, NextExchange(x)).cnc = Leaf(On(x))
<1> DEFINE y == ExitLeaf(x, "none")
<1>1. Follows(x, y)
  BY ExitLeafLemma DEF Sound
<1>2. Sound(y) /\ NextExchange(y) = NextExchange(x) /\ On(y) = On(x)
  BY <1>1 DEF Sound, Follows, SameMachine, NextExchange, On
<1>3. Go(x, NextExchange(x)) = Enter(y, NextExchange(y), "none")
  BY <1>2 DEF Go
<1> HIDE DEF y
<1> QED BY <1>2, <1>3, EnterLemma, EnterOffers

\* A completed transfer leaves nothing of itself: the machine cycles with the material it got,
\* or asks for the next.
LEMMA CompletedOffers ==
  ASSUME NEW x, Good(x), NEW q \in Requests, x.req[q] = "processing"
  PROVE  Offering(Put(RequestCompleted(x), q, "not_ready"))
<1> DEFINE w(has) == [x EXCEPT !.has = has]
           y == RequestCompleted(x)
           z == Put(y, q, "not_ready")
<1>1. x.cnc = Leaf(q) /\ x \in Context
  BY DEF Good, Sound, Exchanges
<1>2. ASSUME NEW has \in BOOLEAN
      PROVE  Sound(w(has)) /\ w(has) \in Context /\ w(has).has = has /\ w(has).cnc = x.cnc
  <2>1. /\ w(has) \in Context /\ w(has).has = has /\ w(has).cnc = x.cnc /\ w(has).req = x.req
        /\ w(has).timer = x.timer /\ w(has).late = x.late
        /\ w(has).resp = x.resp /\ w(has).pos = x.pos
    BY DEF Good, Sound, Context
  <2> HIDE DEF w
  <2> QED BY <2>1 DEF Good, Sound, Devices, Timed
<1>3. y \in Context
  BY CompletedLemma DEF Good, Sound
<1>4. z.cnc = y.cnc /\ z.has = y.has /\ z.req = [y.req EXCEPT ![q] = "not_ready"]
  <2> HIDE DEF y
  <2> QED BY <1>3, PutLemma DEF SameMachine, RequestStates
<1>5. CASE q = "load"
  <2> DEFINE u == w(TRUE)
             v == ExitLeaf(u, "none")
             b == [v EXCEPT !.cnc = "cycle_start"]
  <2>1. y = Cycling(b)
    BY <1>1, <1>5 DEF RequestCompleted, Leaf, Go, Enter
  <2>2. u \in Context /\ u.has = TRUE
    BY <1>2
  <2> HIDE DEF u
  <2>3. v \in Context /\ v.has = TRUE
    BY <2>2, ExitLeafLemma DEF Follows, SameMachine
  <2> HIDE DEF v
  <2>4. b \in Context /\ b.cnc = "cycle_start" /\ b.has = TRUE
    BY <2>3 DEF Context, CncStates, CncLeaves
  <2> HIDE DEF b
  <2>5. Offering(b)
    BY <2>4 DEF Offering, Leaf
  <2>6. Offering(y) /\ y.cnc \in {"cycle_start", "fault"}
    BY <2>1, <2>4, <2>5, CyclingOffers
  <2> HIDE DEF y, z
  <2>7. Offering(z)
    BY <1>4, <2>6 DEF Offering, Leaf
  <2> QED BY <2>7 DEF y, z
<1>6. CASE q = "unload"
  <2>1. NextExchange(w(FALSE)) = "loading" /\ On(w(FALSE)) = "load"
    BY <1>2 DEF NextExchange, On
  <2>2. y = Go(w(FALSE), NextExchange(w(FALSE)))
    BY <1>1, <1>6, <2>1 DEF RequestCompleted, Leaf
  <2> HIDE DEF w, y
  <2>3. Offering(y) /\ y.cnc = "loading"
    BY <1>2, <2>1, <2>2, GoNextOffers DEF Leaf
  <2>4. y.req["load"] # "not_ready"
    BY <2>3 DEF Offering, Leaf, Requests
  <2> HIDE DEF z
  <2>5. z.cnc = "loading" /\ z.req["load"] = y.req["load"]
    BY <1>3, <1>4, <1>6, <2>3 DEF Context
  <2>6. Offering(z)
    BY <2>4, <2>5 DEF Offering, Leaf, Requests
  <2> QED BY <2>6 DEF y, z
<1> QED BY <1>5, <1>6 DEF Requests

\* No event but UNAVAILABLE takes an offer back without another.
LEMMA RequestOffers ==
  ASSUME NEW x \in Context, Devices(x), Exchanges(x), Offering(x), NEW q \in Requests,
         NEW e \in (PeerValues \ {"unavailable"}) \cup {"timeout"}, e = "complete" => Good(x)
  PROVE  Offering(RequestEvent(x, q, e))
<1> DEFINE s == x.req[q]
           n == RequestNext(s, e)
           z == RequestEvent(x, q, e)
<1>1. s \in RequestStates /\ e \in Events /\ e \notin {"unavailable", "activate", "deactivate", "idle"}
  BY DEF Context, Events, PeerValues
<1>2. n \in RequestStates
  BY <1>1, RequestTable
<1>3. CASE s = "processing" /\ e = "complete"
  <2>1. n = "not_ready"
    BY <1>1, <1>3, RequestTable
  <2>2. z = Put(RequestCompleted(x), q, "not_ready")
    BY <1>3, <2>1 DEF RequestEvent
  <2> HIDE DEF z
  <2>3. Offering(Put(RequestCompleted(x), q, "not_ready"))
    BY <1>3, CompletedOffers
  <2> QED BY <2>2, <2>3 DEF z
<1>4. CASE s = "fail"
  <2> DEFINE y == RequestFailed(x, q)
  <2>1. y \in Context
    BY <1>4, FailedLemma
  <2>2. n = "ready"
    BY <1>1, <1>4, OfferTable
  <2>3. z = Put(y, q, n)
    BY <1>4 DEF RequestEvent
  <2> HIDE DEF y, n
  <2>4. z.req = [y.req EXCEPT ![q] = n]
    BY <1>2, <2>1, <2>3, PutLemma
  <2>5. z.cnc = "idle"
    BY <1>4, FailedEventLemma
  <2> HIDE DEF z
  <2>6. z.req[q] # "not_ready"
    BY <2>1, <2>2, <2>4 DEF Context
  <2>7. Offering(z)
    BY <2>5, <2>6 DEF Offering, Leaf
  <2> QED BY <2>7 DEF z
<1>5. CASE s # "fail" /\ ~(s = "processing" /\ e = "complete")
  <2>1. z = Put(x, q, n)
    BY <1>5 DEF RequestEvent
  <2>2. s # "not_ready" => n # "not_ready"
    BY <1>1, <1>5, OfferTable
  <2> HIDE DEF n, z
  <2>3. z.cnc = x.cnc /\ z.has = x.has /\ z.req = [x.req EXCEPT ![q] = n]
    BY <1>2, <2>1, PutLemma DEF SameMachine
  <2>4. \A p \in Requests : x.req[p] # "not_ready" => z.req[p] # "not_ready"
    BY <2>2, <2>3 DEF Context
  <2>5. Offering(z)
    BY <2>3, <2>4 DEF Offering
  <2> QED BY <2>5 DEF z
<1> QED BY <1>3, <1>4, <1>5

\* A response leaves the exchange alone, and during a cycle of a robot that keeps to the
\* handshake the material as well: nothing is complete then that was not before.
LEMMA ResponseOffers ==
  ASSUME PolitePeer, NEW x, Good(x), Offering(x), NEW r \in Responses, NEW e \in PeerValues,
         e = "active" => x.cnc # "cycle_start"
  PROVE  Offering(ResponseEvent(x, r, e))
<1> DEFINE n == ResponseNext(x.resp[r], e)
<1>1. x \in Context /\ x.resp[r] \in ResponseStates
  BY DEF Good, Sound, Context
<1>2. /\ n \in ResponseStates
      /\ n = "complete" => x.resp[r] \in {"active", "complete"}
      /\ n = "active" /\ x.resp[r] # "active" => x.resp[r] = "ready" /\ e = "active"
  BY <1>1, ResponseTable
<1> HIDE DEF n
<1>3. ASSUME NEW p, NEW m
      PROVE  /\ Offering([x EXCEPT !.resp[r] = p]) /\ Offering([x EXCEPT !.failing = p])
             /\ Offering([x EXCEPT !.resp[r] = "active", !.pos[Device[r]] = p, !.moving[r] = m])
  <2>1. ASSUME NEW y, y.cnc = x.cnc, y.req = x.req, y.has = x.has
        PROVE  Offering(y)
    BY <2>1, OfferingSame
  <2> QED BY <1>1, <2>1 DEF Context
<1>4. \A y \in Context : Offering(ResponseFail(y, r))
  <2> TAKE y \in Context
  <2> DEFINE p == [y.resp EXCEPT ![r] = "fail"]
             m == [y.resets EXCEPT ![r] = @ + 1]
  <2>1. [y EXCEPT !.resp[r] = "fail", !.resets[r] = @ + 1] \in Context
    <3>1. p \in [Responses -> ResponseStates] /\ m \in [Responses -> Nat]
      BY DEF Context, ResponseStates
    <3>2. [y EXCEPT !.resp[r] = "fail", !.resets[r] = @ + 1] = [y EXCEPT !.resp = p, !.resets = m]
      OBVIOUS
    <3> HIDE DEF p, m
    <3> QED BY <3>1, <3>2 DEF Context
  <2> QED BY <2>1, FaultIsFault, DisabledOwesNothing DEF ResponseFail
<1>5. x.cnc # "cycle_start" => Offering(ResponseComplete(x, r))
  <2>1. /\ ResponseComplete(x, r).cnc = x.cnc /\ ResponseComplete(x, r).req = x.req
    BY <1>1 DEF ResponseComplete, Context
  <2> QED BY <2>1 DEF Offering
<1>6. x.resp[r] = "active" => x.cnc # "cycle_start"
  BY DeviceTable DEF Good, Sound, Devices, Shut
<1>7. x.cnc # "cycle_start" => Offering(ResponseActive(x, r))
  <2>1. [x EXCEPT !.failing = @ \ {r}] \in Context
    BY <1>1 DEF Context
  <2> QED BY <1>1, <1>3, <1>4, <1>5, <2>1 DEF ResponseActive
<1>8. CASE n = x.resp[r]
  BY <1>8 DEF ResponseEvent, n
<1>9. CASE n # x.resp[r] /\ n = "active"
  BY <1>2, <1>7, <1>9 DEF ResponseEvent, n
<1>10. CASE n # x.resp[r] /\ n = "complete"
  BY <1>2, <1>5, <1>6, <1>10 DEF ResponseEvent, n
<1>11. CASE n # x.resp[r] /\ n = "fail"
  BY <1>1, <1>4, <1>11 DEF ResponseEvent, n
<1>12. CASE n # x.resp[r] /\ n \in {"ready", "not_ready"}
  <2>1. \E p : ResponseEvent(x, r, e) = [x EXCEPT !.resp[r] = p]
    BY <1>12 DEF ResponseEvent, n
  <2> QED BY <1>3, <2>1
<1> QED BY <1>2, <1>8, <1>9, <1>10, <1>11, <1>12 DEF ResponseStates

\* Every step keeps it, with a robot that keeps to the handshake and nobody at the command line.
LEMMA OfferStep ==
  ASSUME PolitePeer, "operator" \notin Interruptions, CncInv, Offering(c), [Next]_c
  PROVE  Offering(c)'
<1>1. c \in Context /\ Good(c) /\ Sound(c) /\ Devices(c) /\ Exchanges(c)
  BY InContext DEF Good, Sound
<1>2. \A x : Becomes(x) /\ Offering(x) => Offering(c)'
  BY DEF Becomes
<1>3. ASSUME NEW r \in Asked, NEW v \in PeerValues, RobotAsks(r, v)
      PROVE  Offering(c)'
  <2>1. r \in Responses
    BY Inputs
  <2>2. v = "active" => Transferring
    BY <1>3 DEF RobotAsks, PoliteRequest
  <2>3. Transferring => c.cnc # "cycle_start"
    BY <1>1 DEF Transferring, Exchanges, Leaf
  <2> QED BY <1>1, <1>2, <1>3, <2>1, <2>2, <2>3, ResponseOffers DEF RobotAsks
<1>4. ASSUME NEW q \in Requests, NEW v \in PeerValues, RobotAnswers(q, v)
      PROVE  Offering(c)'
  <2> DEFINE y == RequestEvent(c, q, v)
             z == [y EXCEPT !.pending = IF v = "ready" THEN q ELSE "none"]
  <2>1. v # "unavailable" /\ c.pending = "none" /\ Becomes(z)
    BY <1>4 DEF RobotAnswers, PoliteResponse
  <2>2. Offering(y)
    BY <1>1, <2>1, RequestOffers
  <2>3. y \in Context
    BY <1>1, <2>1, RequestEventLemma DEF Sound
  <2> HIDE DEF y
  <2>4. z.cnc = y.cnc /\ z.req = y.req /\ z.has = y.has
    BY <2>3 DEF Context
  <2> HIDE DEF z
  <2> QED BY <1>2, <2>1, <2>2, <2>4, OfferingSame
<1>5. CASE MaterialReady
  <2> DEFINE x == [c EXCEPT !.pending = "none"]
             z == CASE x.cnc \in {"not_ready", "fault"} -> Activate(x)
                    [] x.cnc = "idle" -> Go(x, NextExchange(x))
                    [] OTHER -> x
  <2>1. Becomes(z)
    BY <1>5 DEF MaterialReady
  <2>2. /\ x \in Context /\ x.cnc = c.cnc /\ x.req = c.req /\ x.has = c.has /\ x.timer = c.timer
        /\ x.late = c.late /\ x.resp = c.resp /\ x.pos = c.pos
    BY <1>1 DEF Context
  <2> HIDE DEF x
  <2>3. Sound(x) /\ Offering(x)
    BY <1>1, <2>2, OfferingSame DEF Sound, Devices, Timed
  <2>4. Offering(Activate(x)) /\ Offering(Go(x, NextExchange(x)))
    BY <2>3, ActivateOffers, GoNextOffers
  <2>5. z \in {Activate(x), Go(x, NextExchange(x)), x}
    OBVIOUS
  <2> HIDE DEF z
  <2> QED BY <1>2, <2>1, <2>3, <2>4, <2>5
<1>6. CASE RobotStatus
  <2>1. PICK ok \in BOOLEAN :
          LET x == [c EXCEPT !.robot = ok]
          IN  \/ Becomes(Activate(x))
              \/ ~ok /\ Becomes(IF x.cnc \in CncLeaves THEN ActivateAfresh(x) ELSE Activate(x))
    BY <1>6 DEF RobotStatus
  <2> DEFINE x == [c EXCEPT !.robot = ok]
  <2>2. Becomes(Activate(x)) \/ Becomes(ActivateAfresh(x))
    BY <2>1
  <2>3. Sound(x)
    <3>1. /\ x \in Context /\ x.cnc = c.cnc /\ x.req = c.req /\ x.timer = c.timer /\ x.late = c.late
          /\ x.resp = c.resp /\ x.pos = c.pos
      BY <1>1 DEF Context
    <3> HIDE DEF x
    <3> QED BY <1>1, <3>1 DEF Sound, Devices, Timed
  <2> HIDE DEF x
  <2>4. Offering(Activate(x)) /\ Offering(ActivateAfresh(x))
    BY <2>3, ForgetLemma, ActivateOffers DEF ActivateAfresh
  <2> QED BY <1>2, <2>2, <2>4
<1>7. CASE Condition
  <2>1. ASSUME NEW b \in BOOLEAN
        PROVE  LET x == [c EXCEPT !.faults = b] IN Offering(x) /\ Sound(x) /\ x \in Context
    <3> DEFINE x == [c EXCEPT !.faults = b]
    <3>1. /\ x \in Context /\ x.cnc = c.cnc /\ x.req = c.req /\ x.has = c.has
          /\ x.timer = c.timer /\ x.late = c.late /\ x.resp = c.resp /\ x.pos = c.pos
      BY <1>1 DEF Context
    <3> HIDE DEF x
    <3>2. Offering(x) /\ Sound(x)
      BY <1>1, <3>1, OfferingSame DEF Sound, Devices, Timed
    <3> QED BY <3>1, <3>2 DEF x
  <2>2. PICK bad \in Context, good \in Context :
          /\ bad = [c EXCEPT !.faults = TRUE] /\ good = [c EXCEPT !.faults = FALSE]
          /\ Offering(bad) /\ Sound(bad) /\ Sound(good)
    BY <2>1, Zenon
  <2> DEFINE off == [bad EXCEPT !.hist = "loading"]
  <2>3. \/ Becomes(IF bad.cnc = "fault" THEN off ELSE Fault(Forget(bad)))
        \/ Becomes(IF bad.cnc = "cycle_start" THEN Fault(bad) ELSE bad)
        \/ Becomes(Activate(good))
    BY <1>7, <2>2, Zenon DEF Condition
  <2>4. off.cnc = bad.cnc
    BY DEF Context
  <2> HIDE DEF off
  <2>5. bad.cnc = "fault" => Offering(off)
    BY <2>4, DisabledOwesNothing
  <2>6. Forget(bad) \in Context
    BY <2>2, ForgetLemma DEF Sound
  <2>7. Offering(Fault(bad)) /\ Offering(Fault(Forget(bad)))
    BY <2>6, FaultIsFault, DisabledOwesNothing
  <2>8. Offering(Activate(good))
    BY <2>2, ActivateOffers
  <2> QED BY <1>2, <2>2, <2>3, <2>5, <2>7, <2>8
<1>8. CASE CycleDone
  <2> DEFINE x == [c EXCEPT !.cycles = @ - 1, !.exec = FALSE]
  <2>1. Becomes(IF x.cnc = "cycle_start" THEN Go(x, "unloading") ELSE x) /\ c.cycles > 0
    BY <1>8 DEF CycleDone
  <2>2. /\ x \in Context /\ x.cnc = c.cnc /\ x.req = c.req /\ x.has = c.has /\ x.timer = c.timer
        /\ x.late = c.late /\ x.resp = c.resp /\ x.pos = c.pos
    <3>1. c.cycles - 1 \in Nat
      BY <1>1, <2>1 DEF Context
    <3> QED BY <1>1, <3>1 DEF Context
  <2> HIDE DEF x
  <2>3. Sound(x) /\ Offering(x)
    BY <1>1, <2>2, OfferingSame DEF Sound, Devices, Timed
  <2>4. x.cnc = "cycle_start" => NextExchange(x) = "unloading"
    BY <2>3 DEF Offering, NextExchange
  <2> QED BY <1>2, <2>1, <2>3, <2>4, GoNextOffers
<1>9. ASSUME NEW r \in Responses, DeviceMoved(r) \/ FailReset(r)
      PROVE  Offering(c)'
  <2>1. PICK x, v : /\ v \in {"complete", "not_ready"} /\ Becomes(ResponseEvent(x, r, v))
                    /\ \/ c.moving[r] > 0 /\ x = [c EXCEPT !.moving[r] = @ - 1]
                       \/ c.resets[r] > 0 /\ x = [c EXCEPT !.resets[r] = @ - 1]
    BY <1>9, Zenon DEF DeviceMoved, FailReset
  <2>2. /\ x \in Context /\ x.cnc = c.cnc /\ x.req = c.req /\ x.has = c.has /\ x.timer = c.timer /\ x.late = c.late
        /\ x.pending = c.pending /\ x.resp = c.resp /\ x.active = c.active /\ x.pos = c.pos
    <3>1. PICK m, n : x = [c EXCEPT !.moving = m, !.resets = n] /\ m \in [Responses -> Nat] /\ n \in [Responses -> Nat]
      <4>1. CASE c.moving[r] > 0 /\ x = [c EXCEPT !.moving[r] = @ - 1]
        <5>1. x = [c EXCEPT !.moving = [c.moving EXCEPT ![r] = @ - 1], !.resets = c.resets]
          BY <1>1, <4>1 DEF Context
        <5>2. [c.moving EXCEPT ![r] = @ - 1] \in [Responses -> Nat] /\ c.resets \in [Responses -> Nat]
          BY <1>1, <4>1 DEF Context
        <5> QED BY <5>1, <5>2
      <4>2. CASE c.resets[r] > 0 /\ x = [c EXCEPT !.resets[r] = @ - 1]
        <5>1. x = [c EXCEPT !.moving = c.moving, !.resets = [c.resets EXCEPT ![r] = @ - 1]]
          BY <1>1, <4>2 DEF Context
        <5>2. [c.resets EXCEPT ![r] = @ - 1] \in [Responses -> Nat] /\ c.moving \in [Responses -> Nat]
          BY <1>1, <4>2 DEF Context
        <5> QED BY <5>1, <5>2
      <4> QED BY <2>1, <4>1, <4>2
    <3> QED BY <1>1, <3>1 DEF Context
  <2>3. Good(x) /\ Offering(x)
    BY <1>1, <2>2, GoodSame, OfferingSame
  <2>4. v \in PeerValues /\ v # "active"
    BY <2>1 DEF PeerValues
  <2> QED BY <1>2, <2>1, <2>3, <2>4, ResponseOffers
<1>10. ASSUME NEW q \in Requests, TimerWakes(q)
       PROVE  Offering(c)'
  <2> DEFINE x == [c EXCEPT !.timer[q] = FALSE, !.late[q] = @ + 1]
  <2>1. Becomes(x)
    BY <1>10 DEF TimerWakes
  <2>2. x.cnc = c.cnc /\ x.req = c.req /\ x.has = c.has
    BY <1>1 DEF Context
  <2> HIDE DEF x
  <2> QED BY <1>2, <2>1, <2>2, OfferingSame
<1>11. ASSUME NEW q \in Requests, Timeout(q)
       PROVE  Offering(c)'
  <2> DEFINE m == [c.late EXCEPT ![q] = @ - 1]
             x == [c EXCEPT !.late = m]
  <2>1. Becomes(RequestEvent(x, q, "timeout")) /\ c.late[q] > 0
    BY <1>11 DEF Timeout
  <2>2. m \in [Requests -> Nat]
    BY <1>1, <2>1 DEF Context
  <2> HIDE DEF m
  <2>3. /\ x \in Context /\ x.cnc = c.cnc /\ x.req = c.req /\ x.has = c.has /\ x.pending = c.pending
        /\ x.resp = c.resp /\ x.pos = c.pos
    BY <1>1, <2>2 DEF Context
  <2> HIDE DEF x
  <2>4. Devices(x) /\ Exchanges(x) /\ Offering(x)
    BY <1>1, <2>3, OfferingSame DEF Devices, Exchanges
  <2> QED BY <1>2, <2>1, <2>3, <2>4, RequestOffers
<1>12. CASE UNCHANGED c
  BY <1>12 DEF Offering, Leaf
<1> QED
  BY <1>3, <1>4, <1>5, <1>6, <1>7, <1>8, <1>9, <1>10, <1>11, <1>12 DEF Next, Operator

\* An operational machine has the exchange it needs on offer, however its transfers end and its
\* robot or its conditions fail: as long as the robot keeps to the handshake (UNAVAILABLE takes
\* any request back), and reset_cnc of the command line does not reset the requests alone.
THEOREM AlwaysOnOffer ==
  ASSUME PolitePeer, "operator" \notin Interruptions
  PROVE  Spec => []OnOffer
<1>1. Init => Offering(c)
  BY DEF Init, Offering, Leaf
<1>2. CncInv /\ Offering(c) /\ [Next]_c => Offering(c)'
  BY OfferStep
<1>3. Offering(c) => OnOffer
  BY DEF Offering, OnOffer, Leaf, Requests
<1> QED BY <1>1, <1>2, <1>3, CncKept, PTL DEF Spec
=============================================================================
