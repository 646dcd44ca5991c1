--------------------------- MODULE AdapterProofs ---------------------------
(* Theorems about the programs of the Python adapter: the types of the state, *)
(* and that the clients are told what the data items are.                    *)
(***************************************************************************)
EXTENDS AdapterPrograms, FiniteSetTheorems, SequenceTheorems, TLAPS

-----------------------------------------------------------------------------
(* The inductive invariant                                                  *)

\* Where the threads are, and whom they send to.
GatherAt(g) ==
  /\ at[g] \in {"idle", "begun", "changed", "events", "condition"}
  /\ at[g] \in {"idle", "begun", "changed"} => out[g] = << >>
ClientAt(c) ==
  /\ at[c] \in {"idle", "initial", "events", "condition", "heartbeat"}
  /\ at[c] \in {"idle", "initial", "heartbeat"} => out[c] = << >>
  /\ at[c] = "idle" <=> peer[c] = "away"
  /\ at[c] # "idle" => to[c] = {c}
  /\ peer[c] = "away" => c \notin clients
LeftsOK(q, cs) == \A n \in 1..Len(q) : q[n].left \subseteq cs /\ q[n].left # {}
AtPlaces ==
  /\ \A g \in Gatherers : GatherAt(g)
  /\ \A c \in Clients : ClientAt(c)
  /\ \A p \in Threads : LeftsOK(out[p], to[p])

\* A program other than a server keeps its gathers apart: the subscriber by its lock, the
\* others because they have one thread.  A server has no condition.
Kept ==
  /\ program = "subscriber" => \A g \in Gatherers : at[g] # "idle" \/ msg[g] # << >> => lock = g
  /\ program # "subscriber" => \A g \in Gatherers : msg[g] = << >>
  /\ program \in {"example", "reporter"} => at["spindle"] = "idle"
  /\ program = "server" => condition = NoCondition

\* The flags of the data items, by how far the gathers are.
EventFlags ==
  (\A g \in Gatherers : at[g] \in {"idle", "begun"}) => \A e \in Events : ~events[e].changed
ConditionFlags ==
  /\ (\A g \in Gatherers : at[g] \in {"idle", "begun"}) => ~condition.changed
  /\ ~condition.value => In(condition, {"new", "held", "cleared"}) = {}
  /\ Gathering = {} => In(condition, {"cleared"}) = {}
  /\ \A g \in Gatherers :
       /\ at[g] = "begun" => In(condition, {"new"}) = {}
       /\ at[g] = "changed" => In(condition, {"new"}) = {} \/ condition.changed
       /\ at[g] = "events" => In(condition, {"new", "cleared"}) = {} \/ condition.changed

\* What of a queue is for client c.
LinesFor(q, c) == {q[n].line : n \in {m \in 1..Len(q) : c \in q[m].left}}

\* A client knows the events as they are, or will know them when what is coming is there.
Knows(known) == \A e \in Events : known[e] = events[e].value
EventsDue(known, coming) ==
  /\ \A line \in coming : line \in EventLines /\ \A e \in DOMAIN line : line[e] = events[e].value
  /\ \A e \in Events : known[e] = events[e].value \/ \E line \in coming : e \in DOMAIN line

\* While a gather is under way a client knows the codes of before it, unless it has been
\* told that there is no value: then it is told of a value that is new.
Before(known) ==
  \/ known = {Unavailable} /\ In(condition, {"held", "cleared"}) = {} /\ (condition.value => condition.changed)
  \/ condition.value /\ known = In(condition, {"held", "cleared"})

\* A line for each code, in any order; or a single line for no value or no code.
CodesDue(known, coming) ==
  /\ condition.value
  /\ \A line \in coming : \/ \E k \in Marked(condition) : line = Line("fault", {k})
                         \/ \E k \in Codes \ Marked(condition) : line = Line("normal", {k})
  /\ \A k \in Codes : \/ (k \in Marked(condition) /\ Line("fault", {k}) \in coming)
                     \/ (k \notin Marked(condition) /\ Line("normal", {k}) \in coming)
                     \/ (k \in known <=> k \in Marked(condition))
  /\ coming = {} => Unavailable \notin known
ConditionDue(known, coming) ==
  \/ coming = {} /\ known = Actual(condition)
  \/ coming = {Line(Unavailable, {})} /\ ~condition.value
  \/ coming = {Line("normal", {})} /\ condition.value /\ Marked(condition) = {}
  \/ CodesDue(known, coming)

Reached(c) == ~torn[c] /\ c \in clients /\ peer[c] = "up"
\* What a client that can be reached knows, by where its thread is ...
Connected(c) ==
  /\ at[c] = "initial" => view[c] = Nothing
  /\ at[c] = "events" => EventsDue(view[c].events, LinesFor(out[c], c)) /\ view[c].condition = {Unavailable}
  /\ at[c] = "condition" => Knows(view[c].events) /\ ConditionDue(view[c].condition, LinesFor(out[c], c))
\* ... and, when it has its first values, by where a gather is.
Follows(c) ==
  /\ Gathering = {} => Knows(view[c].events) /\ view[c].condition = Actual(condition)
  /\ \A g \in Gatherers :
       /\ at[g] = "begun" => Knows(view[c].events) /\ Before(view[c].condition)
       /\ at[g] = "changed" =>
            Before(view[c].condition) /\ \A e \in Events : view[c].events[e] = events[e].value \/ events[e].changed
       /\ at[g] = "events" =>
            c \in to[g] /\ EventsDue(view[c].events, LinesFor(out[g], c)) /\ Before(view[c].condition)
       /\ at[g] = "condition" =>
            c \in to[g] /\ Knows(view[c].events) /\ ConditionDue(view[c].condition, LinesFor(out[g], c))
KnowsIt(c) == Reached(c) => Connected(c) /\ (at[c] = "heartbeat" => Follows(c))

\* No gather overlaps another, nor the first values of a client that is not torn.
Alone(c) ==
  ~torn[c] /\ at[c] # "idle" =>
    /\ \A g, h \in Gathering : g = h
    /\ Connecting(c) => Gathering = {}

IInv ==
  /\ TypeOK /\ AtPlaces /\ Kept /\ EventFlags /\ ConditionFlags
  /\ \A c \in Clients : Alone(c)
  /\ \A c \in Clients : KnowsIt(c)

-----------------------------------------------------------------------------
(* Lines and the clients they go to                                         *)

LEMMA LineLaw ==
  ASSUME NEW level \in {Unavailable, "normal", "fault"}, NEW codes \in SUBSET Codes
  PROVE  /\ Line(level, codes) \in ConditionLines /\ OfCondition(Line(level, codes))
         /\ Line(level, codes).level = level /\ Line(level, codes).codes = codes
BY DEF Line, ConditionLines, OfCondition

\* A line is either of a condition or of events.
LEMMA KindOfLine ==
  /\ \A line \in ConditionLines : OfCondition(line)
  /\ \A line \in EventLines : ~OfCondition(line) /\ DOMAIN line \subseteq Events /\ \A e \in DOMAIN line : line[e] \in Values
<1>1. \A line \in ConditionLines : OfCondition(line)
  BY DEF ConditionLines, OfCondition
<1>2. ASSUME NEW line \in EventLines
      PROVE  ~OfCondition(line) /\ DOMAIN line \subseteq Events /\ \A e \in DOMAIN line : line[e] \in Values
  <2>1. PICK sent \in SUBSET Events : line \in [sent -> Values]
    BY <1>2 DEF EventLines
  <2>. QED  BY <2>1, AdapterAssumption DEF OfCondition
<1>. QED  BY <1>1, <1>2

\* ToEach gives each of the clients all of the lines.
LEMMA ToEachLaw ==
  ASSUME NEW lines \in Seq(ConditionLines \cup EventLines), NEW cs \in SUBSET Clients
  PROVE  /\ ToEach(lines, cs) \in Seq(Outgoing)
         /\ \A n \in 1..Len(ToEach(lines, cs)) : ToEach(lines, cs)[n].left = cs /\ cs # {}
         /\ \A c \in cs : LinesFor(ToEach(lines, cs), c) = {lines[n] : n \in 1..Len(lines)}
<1>1. CASE cs = {}
  <2>1. ToEach(lines, cs) = << >>  BY <1>1 DEF ToEach
  <2>2. << >> \in Seq(Outgoing) /\ \A n : n \notin 1..Len(<< >>)
    BY EmptySeq
  <2>3. \A c : c \notin cs
    BY <1>1
  <2>. QED  BY <2>1, <2>2, <2>3, Zenon
<1>2. CASE cs # {}
  <2>. DEFINE q == [n \in 1..Len(lines) |-> [line |-> lines[n], left |-> cs]]
  <2>1. ToEach(lines, cs) = q
    BY <1>2, LenProperties DEF ToEach
  <2>2. \A n \in 1..Len(lines) : [line |-> lines[n], left |-> cs] \in Outgoing
    BY LenProperties DEF Outgoing
  <2>3. Len(lines) \in Nat
    BY LenProperties
  <2>4. q \in Seq(Outgoing) /\ Len(q) = Len(lines)
    BY <2>2, <2>3
  <2>5. \A n \in 1..Len(q) : q[n].line = lines[n] /\ q[n].left = cs
    BY <2>4
  <2>. HIDE DEF q
  <2>6. \A c \in cs : LinesFor(q, c) = {lines[n] : n \in 1..Len(lines)}
    BY <2>4, <2>5 DEF LinesFor
  <2>. QED  BY <1>2, <2>1, <2>4, <2>5, <2>6
<1>. QED  BY <1>1, <1>2

\* What is left when a line has gone to client c.
LEMMA SentLaw ==
  ASSUME NEW q \in Seq(Outgoing), q # << >>, NEW c \in Head(q).left,
         \A n \in 1..Len(q) : q[n].left # {}
  PROVE  /\ Sent(q, c) \in Seq(Outgoing)
         /\ \A n \in 1..Len(Sent(q, c)) :
              Sent(q, c)[n].left # {} /\ \E m \in 1..Len(q) : Sent(q, c)[n].left \subseteq q[m].left
         /\ \A d : d # c => LinesFor(Sent(q, c), d) = LinesFor(q, d)
         /\ LinesFor(q, c) = LinesFor(Sent(q, c), c) \cup {Head(q).line}
<1>1. /\ Len(q) \in Nat /\ Len(q) > 0 /\ 1 \in 1..Len(q) /\ Head(q) = q[1]
      /\ q \in [1..Len(q) -> Outgoing] /\ \A n \in 1..Len(q) : q[n] \in Outgoing
  BY EmptySeq, LenProperties, HeadTailProperties
<1>2. CASE q[1].left = {c}
  <2>. DEFINE r == Tail(q)
  <2>1. Sent(q, c) = r
    BY <1>1, <1>2 DEF Sent
  <2>2. /\ r \in Seq(Outgoing) /\ Len(r) = Len(q) - 1
        /\ \A n \in 1..Len(r) : n + 1 \in 1..Len(q) /\ r[n] = q[n + 1]
    BY <1>1, HeadTailProperties
  <2>. HIDE DEF r
  <2>3. \A n \in 1..Len(q) : n = 1 \/ (n - 1 \in 1..Len(r) /\ r[n - 1] = q[n])
    BY <1>1, <2>2
  <2>4. \A d : d # c => LinesFor(r, d) = LinesFor(q, d)
    <3>. TAKE d
    <3>. HAVE d # c
    <3>1. \A line \in LinesFor(r, d) : line \in LinesFor(q, d)
      BY <2>2 DEF LinesFor
    <3>2. \A line \in LinesFor(q, d) : line \in LinesFor(r, d)
      BY <1>2, <2>3 DEF LinesFor
    <3>. QED  BY <3>1, <3>2
  <2>5. LinesFor(q, c) = LinesFor(r, c) \cup {q[1].line}
    <3>1. \A line \in LinesFor(r, c) : line \in LinesFor(q, c)
      BY <2>2 DEF LinesFor
    <3>2. \A line \in LinesFor(q, c) : line \in LinesFor(r, c) \/ line = q[1].line
      BY <2>3 DEF LinesFor
    <3>3. q[1].line \in LinesFor(q, c)
      BY <1>1, <1>2 DEF LinesFor
    <3>. QED  BY <3>1, <3>2, <3>3
  <2>6. \A n \in 1..Len(r) : r[n].left # {} /\ \E m \in 1..Len(q) : r[n].left \subseteq q[m].left
    BY <2>2
  <2>. QED  BY <1>1, <2>1, <2>2, <2>4, <2>5, <2>6
<1>3. CASE q[1].left # {c}
  <2>. DEFINE first == [q[1] EXCEPT !.left = @ \ {c}]
  <2>. DEFINE r == [q EXCEPT ![1] = first]
  <2>1. Sent(q, c) = r
    BY <1>1, <1>3 DEF Sent
  <2>2. first \in Outgoing /\ first.line = q[1].line /\ first.left = q[1].left \ {c}
    BY <1>1 DEF Outgoing
  <2>. HIDE DEF first
  <2>3. /\ r \in Seq(Outgoing) /\ Len(r) = Len(q)
        /\ \A n \in 1..Len(r) : r[n] = IF n = 1 THEN first ELSE q[n]
    BY <1>1, <2>2, ExceptSeq
  <2>. HIDE DEF r
  <2>4. \A n \in 1..Len(q) : r[n].line = q[n].line /\ \A d : d # c => (d \in r[n].left <=> d \in q[n].left)
    BY <1>1, <2>2, <2>3
  <2>5. \A d : d # c => LinesFor(r, d) = LinesFor(q, d)
    BY <2>3, <2>4 DEF LinesFor
  <2>6. LinesFor(q, c) = LinesFor(r, c) \cup {q[1].line}
    <3>1. \A line \in LinesFor(r, c) : line \in LinesFor(q, c)
      BY <1>1, <2>2, <2>3 DEF LinesFor
    <3>2. \A line \in LinesFor(q, c) : line \in LinesFor(r, c) \/ line = q[1].line
      BY <1>1, <2>3 DEF LinesFor
    <3>3. q[1].line \in LinesFor(q, c)
      BY <1>1 DEF LinesFor
    <3>. QED  BY <3>1, <3>2, <3>3
  <2>7. \A n \in 1..Len(r) : r[n].left # {} /\ \E m \in 1..Len(q) : r[n].left \subseteq q[m].left
    <3>. TAKE n \in 1..Len(r)
    <3>1. r[n].left \subseteq q[n].left
      BY <1>1, <2>2, <2>3
    <3>2. r[n].left # {}
      BY <1>1, <1>3, <2>2, <2>3
    <3>. QED  BY <2>3, <3>1, <3>2
  <2>. QED  BY <1>1, <2>1, <2>3, <2>5, <2>6, <2>7
<1>. QED  BY <1>2, <1>3

\* The events that are sent make one line.
SentEvents(force) == {e \in Events : force \/ events[e].changed}
Text(force) == [e \in SentEvents(force) |-> events[e].value]

LEMMA EventsTextLaw ==
  ASSUME events \in [Events -> [value : Values, changed : BOOLEAN]], NEW force \in BOOLEAN
  PROVE  /\ EventsText(force) \in Seq(ConditionLines \cup EventLines)
         /\ {EventsText(force)[n] : n \in 1..Len(EventsText(force))} =
              IF SentEvents(force) = {} THEN {} ELSE {Text(force)}
         /\ Text(force) \in EventLines
<1>1. SentEvents(force) \in SUBSET Events /\ Text(force) \in [SentEvents(force) -> Values]
  BY DEF SentEvents, Text
<1>2. Text(force) \in EventLines
  BY <1>1 DEF EventLines
<1>3. EventsText(force) = IF SentEvents(force) = {} THEN << >> ELSE << Text(force) >>
  BY DEF EventsText, SentEvents, Text
<1>4. CASE SentEvents(force) = {}
  <2>1. << >> \in Seq(ConditionLines \cup EventLines) /\ \A n : n \notin 1..Len(<< >>)
    BY EmptySeq
  <2>. QED  BY <1>2, <1>3, <1>4, <2>1
<1>5. CASE SentEvents(force) # {}
  <2>1. Text(force) \in ConditionLines \cup EventLines
    BY <1>2
  <2>2. EventsText(force) = << Text(force) >>
    BY <1>3, <1>5, Zenon
  <2>3. /\ EventsText(force) \in Seq(ConditionLines \cup EventLines)
        /\ {EventsText(force)[n] : n \in 1..Len(EventsText(force))} = {Text(force)}
    <3>1. PICK q, x : q = EventsText(force) /\ x = Text(force)
      OBVIOUS
    <3>2. q = << x >> /\ x \in ConditionLines \cup EventLines
      BY <2>1, <2>2, <3>1
    <3>3. q \in Seq(ConditionLines \cup EventLines) /\ {q[n] : n \in 1..Len(q)} = {x}
      BY <3>2
    <3>. QED  BY <3>1, <3>3
  <2>. QED  BY <1>2, <1>5, <2>3, Zenon
<1>. QED  BY <1>4, <1>5

-----------------------------------------------------------------------------
(* Conditions                                                               *)

Conditions == [value : BOOLEAN, changed : BOOLEAN, active : [Codes -> Activations]]

\* The lines for each of some codes.
LEMMA EachOfLaw ==
  ASSUME NEW level \in {Unavailable, "normal", "fault"}, NEW codes \in SUBSET Codes
  PROVE  /\ EachOf(level, codes) \in Seq(ConditionLines)
         /\ {EachOf(level, codes)[n] : n \in 1..Len(EachOf(level, codes))} = {Line(level, {k}) : k \in codes}
<1>. DEFINE N == Cardinality(codes)
            q == SetToSeq(codes)
<1>1. IsFiniteSet(codes) /\ N \in Nat
  BY CodesAssumption, FS_Subset, FS_CardinalityType
<1>2. q \in [1..N -> codes] /\ IsInjective(q)
  <2>1. PICK f : f \in Bijection(1..N, codes)
    BY <1>1, FS_CardinalityType DEF ExistsBijection
  <2>2. f \in [1..N -> codes] /\ IsInjective(f)
    BY <2>1 DEF Bijection, Injection, IsInjective
  <2>. QED  BY <2>2 DEF SetToSeq
<1>3. \A k \in codes : \E n \in 1..N : q[n] = k
  <2>1. q \in Injection(1..N, codes)
    BY <1>2 DEF Injection, IsInjective
  <2>2. Cardinality(1..N) = N
    BY <1>1, FS_Interval
  <2>3. q \in Surjection(1..N, codes)
    BY <1>1, <2>1, <2>2, FS_Injection
  <2>. QED  BY <2>3 DEF Surjection
<1>. HIDE DEF N, q
<1>4. EachOf(level, codes) = [n \in 1..N |-> Line(level, {q[n]})]
  BY DEF EachOf, N, q
<1>5. \A n \in 1..N : Line(level, {q[n]}) \in ConditionLines
  BY <1>2 DEF Line, ConditionLines
<1>6. EachOf(level, codes) \in Seq(ConditionLines) /\ Len(EachOf(level, codes)) = N
  BY <1>1, <1>4, <1>5
<1>7. \A n \in 1..N : EachOf(level, codes)[n] = Line(level, {q[n]}) /\ q[n] \in codes
  BY <1>2, <1>4
<1>8. \A x \in {EachOf(level, codes)[n] : n \in 1..N} : x \in {Line(level, {k}) : k \in codes}
  BY <1>7
<1>9. \A x \in {Line(level, {k}) : k \in codes} : x \in {EachOf(level, codes)[n] : n \in 1..N}
  <2>1. \A k \in codes : \E n \in 1..N : EachOf(level, codes)[n] = Line(level, {k})
    BY <1>3, <1>7
  <2>. QED  BY <2>1, Zenon
<1>. QED  BY <1>6, <1>8, <1>9

LEMMA ConcatRange ==
  ASSUME NEW S, NEW s \in Seq(S), NEW t \in Seq(S)
  PROVE  /\ s \o t \in Seq(S)
         /\ {(s \o t)[n] : n \in 1..Len(s \o t)} = {s[n] : n \in 1..Len(s)} \cup {t[n] : n \in 1..Len(t)}
<1>1. Len(s) \in Nat /\ Len(t) \in Nat
  BY LenProperties
<1>2. /\ s \o t \in Seq(S) /\ Len(s \o t) = Len(s) + Len(t)
      /\ \A i \in 1..Len(s) + Len(t) : (s \o t)[i] = IF i <= Len(s) THEN s[i] ELSE t[i - Len(s)]
  BY ConcatProperties
<1>3. \A n \in 1..Len(s) : n \in 1..Len(s \o t) /\ (s \o t)[n] = s[n]
  BY <1>1, <1>2
<1>4. \A n \in 1..Len(t) : n + Len(s) \in 1..Len(s \o t) /\ (s \o t)[n + Len(s)] = t[n]
  BY <1>1, <1>2
<1>5. \A n \in 1..Len(s \o t) : \/ (n \in 1..Len(s) /\ (s \o t)[n] = s[n])
                               \/ (n - Len(s) \in 1..Len(t) /\ (s \o t)[n] = t[n - Len(s)])
  BY <1>1, <1>2
<1>6. \A x \in {(s \o t)[n] : n \in 1..Len(s \o t)} : x \in {s[n] : n \in 1..Len(s)} \cup {t[n] : n \in 1..Len(t)}
  BY <1>5
<1>7. \A x \in {s[n] : n \in 1..Len(s)} \cup {t[n] : n \in 1..Len(t)} : x \in {(s \o t)[n] : n \in 1..Len(s \o t)}
  BY <1>3, <1>4
<1>. QED  BY <1>2, <1>6, <1>7

\* The lines of a condition: one that says all, or one for each code that is new or cleared.
LEMMA LinesLaw ==
  ASSUME NEW c \in Conditions, NEW all \in BOOLEAN
  PROVE  /\ Lines(c, all) \in Seq(ConditionLines)
         /\ {Lines(c, all)[n] : n \in 1..Len(Lines(c, all))} =
              IF ~c.value THEN {Line(Unavailable, {})}
              ELSE IF Marked(c) = {} THEN {Line("normal", {})}
              ELSE IF all THEN {Line("fault", {k}) : k \in Marked(c)}
              ELSE {Line("normal", {k}) : k \in In(c, {"cleared"})} \cup {Line("fault", {k}) : k \in In(c, {"new"})}
<1>1. \A level \in {Unavailable, "normal", "fault"} :
        /\ << Line(level, {}) >> \in Seq(ConditionLines)
        /\ {<< Line(level, {}) >>[n] : n \in 1..Len(<< Line(level, {}) >>)} = {Line(level, {})}
  <2>. TAKE level \in {Unavailable, "normal", "fault"}
  <2>1. Line(level, {}) \in ConditionLines
    BY LineLaw
  <2>. QED  BY <2>1
<1>2. CASE ~c.value
  BY <1>1, <1>2, Zenon DEF Lines
<1>3. CASE c.value /\ Marked(c) = {}
  BY <1>1, <1>3, Zenon DEF Lines
<1>4. CASE c.value /\ Marked(c) # {} /\ all
  <2>1. Lines(c, all) = EachOf("fault", Marked(c)) /\ Marked(c) \in SUBSET Codes
    BY <1>4 DEF Lines, Marked, In
  <2>. QED  BY <1>4, <2>1, EachOfLaw, Zenon
<1>5. CASE c.value /\ Marked(c) # {} /\ ~all
  <2>1. /\ Lines(c, all) = EachOf("normal", In(c, {"cleared"})) \o EachOf("fault", In(c, {"new"}))
        /\ In(c, {"cleared"}) \in SUBSET Codes /\ In(c, {"new"}) \in SUBSET Codes
    BY <1>5 DEF Lines, In
  <2>2. /\ EachOf("normal", In(c, {"cleared"})) \in Seq(ConditionLines)
        /\ EachOf("fault", In(c, {"new"})) \in Seq(ConditionLines)
    <3>1. EachOf("normal", In(c, {"cleared"})) \in Seq(ConditionLines)
      BY <2>1, EachOfLaw, Zenon
    <3>2. EachOf("fault", In(c, {"new"})) \in Seq(ConditionLines)
      BY <2>1, EachOfLaw, Zenon
    <3>. QED  BY <3>1, <3>2
  <2>. DEFINE s == EachOf("normal", In(c, {"cleared"}))
              t == EachOf("fault", In(c, {"new"}))
  <2>. HIDE DEF s, t
  <2>3. /\ s \o t \in Seq(ConditionLines)
        /\ {(s \o t)[n] : n \in 1..Len(s \o t)} = {s[n] : n \in 1..Len(s)} \cup {t[n] : n \in 1..Len(t)}
    BY <2>2, ConcatRange DEF s, t
  <2>4. /\ {s[n] : n \in 1..Len(s)} = {Line("normal", {k}) : k \in In(c, {"cleared"})}
        /\ {t[n] : n \in 1..Len(t)} = {Line("fault", {k}) : k \in In(c, {"new"})}
    BY <2>1, EachOfLaw, Zenon DEF s, t
  <2>5. Lines(c, all) = s \o t
    BY <2>1 DEF s, t
  <2>. QED  BY <1>5, <2>3, <2>4, <2>5, Zenon
<1>6. c.value \in BOOLEAN
  BY DEF Conditions
<1>. QED  BY <1>2, <1>3, <1>4, <1>5, <1>6

-----------------------------------------------------------------------------
(* What a client learns                                                     *)

\* An event's line tells the client what the line says, and what it knew of the others.
LearntEvents(known, line) == [e \in Events |-> IF e \in DOMAIN line THEN line[e] ELSE known[e]]

LEMMA EventsLearnt ==
  ASSUME NEW known \in [Events -> Values], NEW coming, NEW rest, NEW line,
         coming = rest \cup {line}, EventsDue(known, coming)
  PROVE  line \in EventLines /\ EventsDue(LearntEvents(known, line), rest)
<1>1. line \in coming /\ rest \subseteq coming /\ \A other \in coming : other = line \/ other \in rest
  OBVIOUS
<1>2. line \in EventLines /\ \A e \in DOMAIN line : line[e] = events[e].value
  BY <1>1 DEF EventsDue
<1>3. \A other \in rest : other \in EventLines /\ \A e \in DOMAIN other : other[e] = events[e].value
  BY <1>1 DEF EventsDue
<1>4. ASSUME NEW e \in Events
      PROVE  LearntEvents(known, line)[e] = events[e].value \/ \E other \in rest : e \in DOMAIN other
  <2>1. CASE e \in DOMAIN line
    BY <1>2, <2>1 DEF LearntEvents
  <2>2. CASE e \notin DOMAIN line
    <3>1. known[e] = events[e].value \/ \E other \in rest : e \in DOMAIN other
      BY <1>1, <2>2 DEF EventsDue
    <3>. QED  BY <2>2, <3>1 DEF LearntEvents
  <2>. QED  BY <2>1, <2>2
<1>. QED  BY <1>2, <1>3, <1>4 DEF EventsDue

\* When nothing is coming any more, the client knows what it should.
LEMMA NoEventsComing ==
  \A known : EventsDue(known, {}) => Knows(known)
BY DEF EventsDue, Knows

LEMMA NothingComing ==
  ASSUME NEW known \in SUBSET (Codes \cup {Unavailable}), condition \in Conditions, ConditionDue(known, {})
  PROVE  known = Actual(condition)
<1>1. CASE CodesDue(known, {})
  <2>1. condition.value /\ Unavailable \notin known /\ \A k \in Codes : k \in known <=> k \in Marked(condition)
    BY <1>1 DEF CodesDue
  <2>2. Marked(condition) \subseteq Codes
    BY DEF Marked, In
  <2>. QED  BY <2>1, <2>2 DEF Actual
<1>. QED  BY <1>1 DEF ConditionDue

\* A line of a condition, read in whatever order, brings the client closer to what it should know.
LEMMA CodesLearnt ==
  ASSUME NEW known \in SUBSET (Codes \cup {Unavailable}), NEW coming, NEW rest, NEW line,
         condition \in Conditions, coming = rest \cup {line}, CodesDue(known, coming)
  PROVE  line \in ConditionLines /\ CodesDue(Told(known, line), rest)
<1>. DEFINE next == Told(known, line)
<1>1. line \in coming /\ rest \subseteq coming /\ \A other \in coming : other = line \/ other \in rest
  OBVIOUS
<1>2. condition.value /\ Unavailable \notin Codes /\ Marked(condition) \subseteq Codes
  BY CodesAssumption DEF CodesDue, Marked, In
<1>3. \A other \in rest : \/ \E k \in Marked(condition) : other = Line("fault", {k})
                          \/ \E k \in Codes \ Marked(condition) : other = Line("normal", {k})
  BY <1>1 DEF CodesDue
<1>4. \A k, j : /\ Line("fault", {k}) = Line("fault", {j}) => k = j
                /\ Line("normal", {k}) = Line("normal", {j}) => k = j
                /\ Line("fault", {k}) # Line("normal", {j})
  <2>. TAKE k, j
  <2>1. /\ Line("fault", {k}).level = "fault" /\ Line("normal", {j}).level = "normal"
        /\ \A m : Line("fault", {m}).codes = {m} /\ Line("normal", {m}).codes = {m}
    BY DEF Line
  <2>2. Line("fault", {k}) = Line("fault", {j}) => {k} = {j}
    BY <2>1
  <2>3. Line("normal", {k}) = Line("normal", {j}) => {k} = {j}
    BY <2>1
  <2>4. {k} = {j} => k = j
    OBVIOUS
  <2>. QED  BY <2>1, <2>2, <2>3, <2>4
<1>5. CASE \E k \in Marked(condition) : line = Line("fault", {k})
  <2>1. PICK k \in Marked(condition) : line = Line("fault", {k})
    BY <1>5
  <2>2. next = (known \ {Unavailable}) \cup {k}
    BY <2>1 DEF Told, Line, Unavailable
  <2>. HIDE DEF next
  <2>3. ASSUME NEW j \in Codes
        PROVE  \/ (j \in Marked(condition) /\ Line("fault", {j}) \in rest)
               \/ (j \notin Marked(condition) /\ Line("normal", {j}) \in rest)
               \/ (j \in next <=> j \in Marked(condition))
    <3>1. \/ (j \in Marked(condition) /\ Line("fault", {j}) \in coming)
          \/ (j \notin Marked(condition) /\ Line("normal", {j}) \in coming)
          \/ (j \in known <=> j \in Marked(condition))
      BY DEF CodesDue
    <3>2. CASE j = k
      BY <2>1, <2>2, <3>2
    <3>3. CASE j # k
      <4>1. j \in next <=> j \in known
        BY <1>2, <2>2, <3>3
      <4>2. /\ Line("fault", {j}) \in coming => Line("fault", {j}) \in rest
            /\ Line("normal", {j}) \in coming => Line("normal", {j}) \in rest
        BY <1>1, <1>4, <2>1, <3>3
      <4>. QED  BY <3>1, <4>1, <4>2
    <3>. QED  BY <3>2, <3>3
  <2>4. Unavailable \notin next
    BY <1>2, <2>1, <2>2
  <2>5. line \in ConditionLines
    BY <1>2, <2>1, LineLaw
  <2>6. CodesDue(next, rest)
    BY <1>2, <1>3, <2>3, <2>4 DEF CodesDue
  <2>. QED  BY <2>5, <2>6 DEF next
<1>6. CASE \E k \in Codes \ Marked(condition) : line = Line("normal", {k})
  <2>1. PICK k \in Codes \ Marked(condition) : line = Line("normal", {k})
    BY <1>6
  <2>2. next = known \ {k, Unavailable}
    BY <2>1 DEF Told, Line, Unavailable
  <2>. HIDE DEF next
  <2>3. ASSUME NEW j \in Codes
        PROVE  \/ (j \in Marked(condition) /\ Line("fault", {j}) \in rest)
               \/ (j \notin Marked(condition) /\ Line("normal", {j}) \in rest)
               \/ (j \in next <=> j \in Marked(condition))
    <3>1. \/ (j \in Marked(condition) /\ Line("fault", {j}) \in coming)
          \/ (j \notin Marked(condition) /\ Line("normal", {j}) \in coming)
          \/ (j \in known <=> j \in Marked(condition))
      BY DEF CodesDue
    <3>2. CASE j = k
      BY <2>1, <2>2, <3>2
    <3>3. CASE j # k
      <4>1. j \in next <=> j \in known
        BY <1>2, <2>2, <3>3
      <4>2. /\ Line("fault", {j}) \in coming => Line("fault", {j}) \in rest
            /\ Line("normal", {j}) \in coming => Line("normal", {j}) \in rest
        BY <1>1, <1>4, <2>1, <3>3
      <4>. QED  BY <3>1, <4>1, <4>2
    <3>. QED  BY <3>2, <3>3
  <2>4. Unavailable \notin next
    BY <2>2
  <2>5. line \in ConditionLines
    BY <2>1, LineLaw
  <2>6. CodesDue(next, rest)
    BY <1>2, <1>3, <2>3, <2>4 DEF CodesDue
  <2>. QED  BY <2>5, <2>6 DEF next
<1>. QED  BY <1>1, <1>5, <1>6 DEF CodesDue

LEMMA ConditionLearnt ==
  ASSUME NEW known \in SUBSET (Codes \cup {Unavailable}), NEW coming, NEW rest, NEW line,
         condition \in Conditions, coming = rest \cup {line}, ConditionDue(known, coming)
  PROVE  line \in ConditionLines /\ ConditionDue(Told(known, line), rest)
<1>1. line \in coming /\ rest \subseteq coming
  OBVIOUS
<1>2. CASE coming = {Line(Unavailable, {})} /\ ~condition.value
  <2>1. line = Line(Unavailable, {}) /\ (rest = {} \/ rest = coming)
    BY <1>1, <1>2
  <2>2. line.level = Unavailable /\ line \in ConditionLines
    BY <2>1, LineLaw
  <2>3. Told(known, line) = {Unavailable}
    BY <2>2 DEF Told, Unavailable
  <2>. QED  BY <1>2, <2>1, <2>2, <2>3 DEF ConditionDue, Actual
<1>3. CASE coming = {Line("normal", {})} /\ condition.value /\ Marked(condition) = {}
  <2>1. line = Line("normal", {}) /\ (rest = {} \/ rest = coming)
    BY <1>1, <1>3
  <2>2. line.level = "normal" /\ line.codes = {} /\ line \in ConditionLines
    BY <2>1, LineLaw
  <2>3. Told(known, line) = {}
    BY <2>2 DEF Told, Unavailable
  <2>. QED  BY <1>3, <2>1, <2>2, <2>3 DEF ConditionDue, Actual
<1>4. CASE CodesDue(known, coming)
  BY <1>4, CodesLearnt DEF ConditionDue
<1>. QED  BY <1>1, <1>2, <1>3, <1>4 DEF ConditionDue

-----------------------------------------------------------------------------
(* The steps of a gather                                                    *)

\* What the operations do to each code.
LEMMA BeginLaw ==
  ASSUME NEW c \in Conditions, NEW how, NEW b, b = BeginCondition(c, how)
  PROVE  /\ b \in Conditions /\ b.value = c.value /\ b.changed = c.changed
         /\ \A k \in Codes : (b.active[k] = "none" <=> c.active[k] = "none") /\ b.active[k] # "new"
BY DEF BeginCondition, Conditions, Activations

LEMMA AddLaw ==
  ASSUME NEW c \in Conditions, NEW codes \in SUBSET Codes, NEW a, a = Add(c, codes)
  PROVE  /\ a \in Conditions /\ a.value = (c.value \/ codes # {})
         /\ a.changed = (c.changed \/ \E k \in codes : c.active[k] = "none")
         /\ \A k \in Codes : a.active[k] = IF k \notin codes THEN c.active[k]
                                          ELSE IF c.active[k] = "none" THEN "new"
                                          ELSE IF c.active[k] = "cleared" THEN "held" ELSE c.active[k]
BY DEF Add, Conditions, Activations

LEMMA NormalLaw ==
  ASSUME NEW c \in Conditions, NEW n, n = Normal(c)
  PROVE  n \in Conditions /\ n.value = TRUE /\ n.changed = (c.changed \/ ~c.value) /\ n.active = c.active
BY DEF Normal, Conditions

LEMMA RemoveLaw ==
  ASSUME NEW c \in Conditions, NEW j \in Codes, NEW r, r = RemoveCode(c, j)
  PROVE  /\ r \in Conditions /\ r.value = c.value /\ r.changed = c.changed
         /\ \A k \in Codes : r.active[k] = IF k = j /\ c.active[k] # "none" THEN "cleared" ELSE c.active[k]
BY DEF RemoveCode, Conditions, Activations

LEMMA CompleteLaw ==
  ASSUME NEW c \in Conditions, NEW d, d = CompleteCondition(c)
  PROVE  /\ d \in Conditions /\ d.value = c.value /\ d.active = c.active
         /\ d.changed = (c.changed \/ In(c, {"cleared"}) # {})
BY DEF CompleteCondition, Conditions

LEMMA SweepLaw ==
  ASSUME NEW c \in Conditions, NEW s, s = SweepCondition(c)
  PROVE  /\ s \in Conditions /\ s.value = c.value /\ s.changed = FALSE
         /\ \A k \in Codes : s.active[k] = IF c.active[k] = "cleared" THEN "none" ELSE c.active[k]
BY DEF SweepCondition, Conditions, Activations

LEMMA CodesLaw ==
  ASSUME condition \in Conditions
  PROVE  /\ condition.value \in BOOLEAN /\ Unavailable \notin Codes
         /\ \A k \in Codes : condition.active[k] \in {"none", "new", "held", "cleared"}
         /\ \A k : k \in Marked(condition) <=> k \in Codes /\ condition.active[k] \in {"new", "held"}
         /\ \A k : k \in In(condition, {"new"}) <=> k \in Codes /\ condition.active[k] = "new"
         /\ \A k : k \in In(condition, {"cleared"}) <=> k \in Codes /\ condition.active[k] = "cleared"
         /\ \A k : k \in In(condition, {"held", "cleared"}) <=> k \in Codes /\ condition.active[k] \in {"held", "cleared"}
         /\ \A k : k \in In(condition, {"new", "cleared"}) <=> k \in Codes /\ condition.active[k] \in {"new", "cleared"}
BY CodesAssumption DEF Conditions, Activations, Marked, In

\* The lines of a condition are what is due to a client that knows what was before the gather.
LEMMA LinesDue ==
  ASSUME condition \in Conditions, NEW known, Before(known),
         NEW lines, lines = {Lines(condition, FALSE)[n] : n \in 1..Len(Lines(condition, FALSE))}
  PROVE  ConditionDue(known, lines)
<1>1. CASE ~condition.value \/ Marked(condition) = {}
  BY <1>1, LinesLaw, CodesLaw DEF ConditionDue
<1>2. CASE condition.value /\ Marked(condition) # {}
  <2>1. lines = {Line("normal", {k}) : k \in In(condition, {"cleared"})} \cup {Line("fault", {k}) : k \in In(condition, {"new"})}
    BY <1>2, LinesLaw, Zenon
  <2>2. \A line \in lines : \/ \E k \in Marked(condition) : line = Line("fault", {k})
                           \/ \E k \in Codes \ Marked(condition) : line = Line("normal", {k})
    BY <2>1, CodesLaw
  <2>3. \A k \in Codes : \/ (k \in Marked(condition) /\ Line("fault", {k}) \in lines)
                        \/ (k \notin Marked(condition) /\ Line("normal", {k}) \in lines)
                        \/ (k \in known <=> k \in Marked(condition))
    <3>. TAKE k \in Codes
    <3>1. condition.active[k] = "new" => k \in Marked(condition) /\ Line("fault", {k}) \in lines
      BY <2>1, CodesLaw
    <3>2. condition.active[k] = "cleared" => k \notin Marked(condition) /\ Line("normal", {k}) \in lines
      BY <2>1, CodesLaw
    <3>3. condition.active[k] \in {"none", "held"} => (k \in known <=> k \in Marked(condition))
      BY CodesLaw DEF Before
    <3>. QED  BY CodesLaw, <3>1, <3>2, <3>3
  <2>4. lines = {} => Unavailable \notin known
    <3>1. CASE known = {Unavailable} /\ In(condition, {"held", "cleared"}) = {}
      <4>1. PICK k : k \in Marked(condition)
        BY <1>2
      <4>2. k \in In(condition, {"new"})
        BY <3>1, <4>1, CodesLaw
      <4>. QED  BY <2>1, <4>2
    <3>2. CASE known = In(condition, {"held", "cleared"})
      BY <3>2, CodesLaw
    <3>. QED  BY <3>1, <3>2 DEF Before
  <2>. QED  BY <1>2, <2>2, <2>3, <2>4 DEF ConditionDue, CodesDue
<1>. QED  BY <1>1, <1>2

\* Where nothing has changed nothing is due.
LEMMA NothingDue ==
  ASSUME condition \in Conditions, NEW known, Before(known),
         ~condition.changed, In(condition, {"new", "cleared"}) = {}
  PROVE  ConditionDue(known, {})
<1>1. condition.value => known = Marked(condition)
  BY CodesLaw DEF Before
<1>. QED  BY CodesLaw, <1>1 DEF ConditionDue, Actual, Before

\* A client that has just connected is told all there is.
LEMMA FirstLinesDue ==
  ASSUME condition \in Conditions, NEW known, known = {Unavailable}, In(condition, {"cleared"}) = {},
         NEW lines, lines = {Lines(condition, TRUE)[n] : n \in 1..Len(Lines(condition, TRUE))}
  PROVE  ConditionDue(known, lines)
<1>1. CASE ~condition.value \/ Marked(condition) = {}
  BY <1>1, LinesLaw, CodesLaw DEF ConditionDue
<1>2. CASE condition.value /\ Marked(condition) # {}
  <2>1. lines = {Line("fault", {k}) : k \in Marked(condition)}
    BY <1>2, LinesLaw, Zenon
  <2>2. \A k \in Codes : k \notin known
    BY CodesLaw
  <2>. QED  BY <1>2, <2>1, <2>2 DEF ConditionDue, CodesDue
<1>. QED  BY <1>1, <1>2

\* So is the line of the events.
LEMMA TextDue ==
  ASSUME events \in [Events -> [value : Values, changed : BOOLEAN]], NEW known, NEW force \in BOOLEAN,
         \A e \in Events : force \/ known[e] = events[e].value \/ events[e].changed
  PROVE  EventsDue(known, {EventsText(force)[n] : n \in 1..Len(EventsText(force))})
<1>1. /\ DOMAIN Text(force) = SentEvents(force)
      /\ \A e \in SentEvents(force) : Text(force)[e] = events[e].value
  BY DEF Text
<1>2. Text(force) \in EventLines
  BY EventsTextLaw
<1>3. \A e \in Events : e \in SentEvents(force) \/ known[e] = events[e].value
  BY DEF SentEvents
<1>4. CASE SentEvents(force) = {}
  <2>1. EventsDue(known, {})
    BY <1>3, <1>4 DEF EventsDue
  <2>. QED  BY <1>4, <2>1, EventsTextLaw, Zenon
<1>5. CASE SentEvents(force) # {}
  <2>1. EventsDue(known, {Text(force)})
    BY <1>1, <1>2, <1>3 DEF EventsDue
  <2>. QED  BY <1>5, <2>1, EventsTextLaw, Zenon
<1>. QED  BY <1>4, <1>5

\* What a gather may make of the condition keeps what a client knew before it in sight.
Reports ==
  \/ condition' = condition \/ condition' = Normal(condition)
  \/ \E codes \in SUBSET Codes : condition' = Add(condition, codes)
  \/ \E k \in Codes : condition' = RemoveCode(condition, k)

LEMMA ReportsLaw ==
  ASSUME condition \in Conditions, Reports, ~condition.changed, In(condition, {"new"}) = {},
         ~condition.value => In(condition, {"new", "held", "cleared"}) = {}
  PROVE  /\ condition' \in Conditions
         /\ ~condition.value' => In(condition', {"new", "held", "cleared"}) = {}
         /\ In(condition', {"new"}) = {} \/ condition.changed'
         /\ \A known : Before(known) => Before(known)'
<1>1. /\ condition.value \in BOOLEAN /\ condition.changed \in BOOLEAN
      /\ \A k \in Codes : condition.active[k] \in {"none", "held", "cleared"}
      /\ ~condition.value => \A k \in Codes : condition.active[k] = "none"
  BY DEF Conditions, Activations, In
<1>2. CASE condition' = condition
  BY <1>2 DEF Before
<1>3. CASE condition' = Normal(condition)
  <2>1. condition' \in Conditions /\ condition.value' = TRUE /\ condition.active' = condition.active
    BY <1>3, NormalLaw
  <2>2. condition.changed' = (condition.changed \/ ~condition.value)
    BY <1>3, NormalLaw
  <2>3. \A states : In(condition, states)' = In(condition, states)
    BY <2>1 DEF In
  <2>. QED  BY <1>1, <2>1, <2>2, <2>3 DEF Before
<1>4. ASSUME NEW codes \in SUBSET Codes, condition' = Add(condition, codes)
      PROVE  /\ condition' \in Conditions
             /\ ~condition.value' => In(condition', {"new", "held", "cleared"}) = {}
             /\ In(condition', {"new"}) = {} \/ condition.changed'
             /\ \A known : Before(known) => Before(known)'
  <2>1. condition' \in Conditions /\ condition.value' = (condition.value \/ codes # {})
    BY <1>4, AddLaw
  <2>2. condition.changed' = (condition.changed \/ \E k \in codes : condition.active[k] = "none")
    BY <1>4, AddLaw
  <2>3. \A k \in Codes : condition.active[k]' = IF k \notin codes THEN condition.active[k]
                                               ELSE IF condition.active[k] = "none" THEN "new" ELSE "held"
    BY <1>1, <1>4, AddLaw
  <2>4. In(condition, {"held", "cleared"})' = In(condition, {"held", "cleared"})
    BY <1>1, <2>3 DEF In
  <2>5. ~condition.value' => In(condition', {"new", "held", "cleared"}) = {}
    BY <1>1, <2>1, <2>3 DEF In
  <2>6. In(condition', {"new"}) = {} \/ condition.changed'
    BY <1>1, <2>2, <2>3 DEF In
  <2>7. condition.value' => condition.value \/ condition.changed'
    BY <1>1, <2>1, <2>2
  <2>8. \A known : Before(known) => Before(known)'
    BY <1>1, <2>1, <2>4, <2>7 DEF Before
  <2>. QED  BY <2>1, <2>5, <2>6, <2>8
<1>5. ASSUME NEW j \in Codes, condition' = RemoveCode(condition, j)
      PROVE  /\ condition' \in Conditions
             /\ ~condition.value' => In(condition', {"new", "held", "cleared"}) = {}
             /\ In(condition', {"new"}) = {} \/ condition.changed'
             /\ \A known : Before(known) => Before(known)'
  <2>1. condition' \in Conditions /\ condition.value' = condition.value /\ condition.changed' = condition.changed
    BY <1>5, RemoveLaw
  <2>2. \A k \in Codes : condition.active[k]' = IF k = j /\ condition.active[k] # "none" THEN "cleared" ELSE condition.active[k]
    BY <1>5, RemoveLaw
  <2>3. In(condition, {"held", "cleared"})' = In(condition, {"held", "cleared"})
    BY <1>1, <2>2 DEF In
  <2>4. In(condition', {"new"}) = {} /\ (~condition.value' => In(condition', {"new", "held", "cleared"}) = {})
    BY <1>1, <2>1, <2>2 DEF In
  <2>. QED  BY <2>1, <2>3, <2>4 DEF Before
<1>. QED  BY <1>2, <1>3, <1>4, <1>5 DEF Reports

LEMMA BegunLaw ==
  ASSUME condition \in Conditions, condition' = BeginCondition(condition, kind),
         ~condition.value => In(condition, {"new", "held", "cleared"}) = {}
  PROVE  /\ condition' \in Conditions /\ condition.changed' = condition.changed /\ In(condition, {"new"})' = {}
         /\ ~condition.value' => In(condition', {"new", "held", "cleared"}) = {}
<1>1. /\ condition' \in Conditions /\ condition.value' = condition.value /\ condition.changed' = condition.changed
      /\ \A k \in Codes : (condition.active[k]' = "none" <=> condition.active[k] = "none") /\ condition.active[k]' # "new"
  BY BeginLaw
<1>2. In(condition, {"new"})' = {} /\ (~condition.value' => In(condition', {"new", "held", "cleared"}) = {})
  BY <1>1 DEF In, Conditions, Activations
<1>. QED  BY <1>1, <1>2

LEMMA BegunBefore ==
  ASSUME condition \in Conditions, condition' = BeginCondition(condition, kind),
         ~condition.value => In(condition, {"new", "held", "cleared"}) = {},
         In(condition, {"cleared"}) = {}, NEW known, known = Actual(condition)
  PROVE  Before(known)'
<1>1. /\ condition' \in Conditions /\ condition.value' = condition.value
      /\ \A k \in Codes : (condition.active[k]' = "none" <=> condition.active[k] = "none") /\ condition.active[k]' # "new"
  BY BeginLaw
<1>2. /\ condition.value \in BOOLEAN
      /\ \A k \in Codes : condition.active[k]' \in {"none", "held", "cleared"} /\ condition.active[k] \in {"none", "new", "held"}
  BY <1>1 DEF Conditions, Activations, In
<1>3. CASE condition.value
  <2>1. In(condition, {"held", "cleared"})' = Marked(condition)
    BY <1>1, <1>2 DEF In, Marked
  <2>. QED  BY <1>1, <1>3, <2>1 DEF Before, Actual
<1>4. CASE ~condition.value
  <2>1. \A k \in Codes : condition.active[k] = "none"
    BY <1>2, <1>4 DEF In
  <2>2. In(condition, {"held", "cleared"})' = {}
    BY <1>1, <2>1 DEF In
  <2>. QED  BY <1>1, <1>4, <2>2 DEF Before, Actual
<1>. QED  BY <1>2, <1>3, <1>4

LEMMA CompletedLaw ==
  ASSUME condition \in Conditions, condition' = CompleteCondition(condition),
         In(condition, {"new"}) = {} \/ condition.changed
  PROVE  /\ condition' \in Conditions /\ condition.value' = condition.value
         /\ \A states : In(condition, states)' = In(condition, states)
         /\ In(condition, {"new", "cleared"})' = {} \/ condition.changed'
         /\ \A known : Before(known) => Before(known)'
<1>1. /\ condition' \in Conditions /\ condition.value' = condition.value /\ condition.active' = condition.active
      /\ condition.changed' = (condition.changed \/ In(condition, {"cleared"}) # {})
  BY CompleteLaw
<1>2. \A states : In(condition, states)' = In(condition, states)
  BY <1>1 DEF In
<1>3. condition.changed' \/ (~condition.changed /\ In(condition, {"cleared"}) = {})
  BY <1>1 DEF Conditions
<1>4. In(condition, {"new"}) = {} /\ In(condition, {"cleared"}) = {} => In(condition, {"new", "cleared"}) = {}
  BY DEF In
<1>5. \A known : Before(known) => Before(known)'
  BY <1>1, <1>2 DEF Before
<1>. QED  BY <1>1, <1>2, <1>3, <1>4, <1>5

LEMMA SweptLaw ==
  ASSUME condition \in Conditions, condition' = SweepCondition(condition),
         ~condition.value => In(condition, {"new", "held", "cleared"}) = {}
  PROVE  /\ condition' \in Conditions /\ ~condition.changed'
         /\ Actual(condition)' = Actual(condition)
         /\ In(condition, {"cleared"})' = {}
         /\ ~condition.value' => In(condition', {"new", "held", "cleared"}) = {}
         /\ \A states : In(condition, states) = {} /\ "none" \notin states => In(condition, states)' = {}
<1>1. /\ condition' \in Conditions /\ condition.value' = condition.value /\ condition.changed' = FALSE
      /\ \A k \in Codes : condition.active[k]' = IF condition.active[k] = "cleared" THEN "none" ELSE condition.active[k]
  BY SweepLaw
<1>2. Marked(condition)' = Marked(condition) /\ In(condition, {"cleared"})' = {}
  BY <1>1 DEF In, Marked
<1>3. \A states : In(condition, states) = {} /\ "none" \notin states => In(condition, states)' = {}
  BY <1>1 DEF In
<1>4. Actual(condition)' = Actual(condition)
  BY <1>1, <1>2 DEF Actual
<1>. QED  BY <1>1, <1>2, <1>3, <1>4

-----------------------------------------------------------------------------
(* Types                                                                    *)

LEMMA LearntTyped ==
  ASSUME NEW known \in [events : [Events -> Values], condition : SUBSET (Codes \cup {Unavailable})],
         NEW line \in ConditionLines \cup EventLines
  PROVE  Learnt(known, line) \in [events : [Events -> Values], condition : SUBSET (Codes \cup {Unavailable})]
<1>1. CASE line \in ConditionLines
  <2>1. Told(known.condition, line) \in SUBSET (Codes \cup {Unavailable})
    BY <1>1 DEF Told, ConditionLines, Unavailable
  <2>. QED  BY <1>1, <2>1, KindOfLine DEF Learnt
<1>2. CASE line \in EventLines
  <2>1. \A e \in DOMAIN line : line[e] \in Values
    BY <1>2, KindOfLine
  <2>2. [e \in Events |-> IF e \in DOMAIN line THEN line[e] ELSE known.events[e]] \in [Events -> Values]
    BY <2>1
  <2>. QED  BY <1>2, <2>2, KindOfLine DEF Learnt
<1>. QED  BY <1>1, <1>2

\* The threads of the topics and of the clients are different threads.
LEMMA ThreadsLaw ==
  /\ \A g \in Gatherers : g \in Threads /\ g \notin Clients
  /\ \A c \in Clients : c \in Threads /\ c \notin Gatherers
  /\ Gatherers = Topics /\ Topics = {"states", "spindle"}
BY AdapterAssumption, Threads2 DEF Threads, Topics

SentTo(p, c) ==
  /\ out' = [out EXCEPT ![p] = Sent(@, c)]
  /\ \/ c \notin clients /\ UNCHANGED <<clients, view>>
     \/ c \in clients /\ peer[c] = "up" /\ view' = [view EXCEPT ![c] = Learnt(@, Head(out[p]).line)] /\ UNCHANGED clients
     \/ c \in clients /\ peer[c] # "up" /\ clients' \in {clients, clients \ {c}} /\ UNCHANGED view

\* What SendLine does: there is a line, and the thread is one that sends.
LEMMA SendLineLaw ==
  ASSUME TypeOK, AtPlaces, NEW p \in Threads, SendLine(p)
  PROVE  /\ out[p] \in Seq(Outgoing) /\ out[p] # << >> /\ \A n \in 1..Len(out[p]) : out[p][n].left # {}
         /\ Head(out[p]).line \in ConditionLines \cup EventLines
         /\ \E c \in Head(out[p]).left : c \in Clients /\ c \in to[p] /\ SentTo(p, c)
         /\ UNCHANGED <<items, peer, pinged, at, to>>
<1>1. /\ out[p] \in Seq(Outgoing) /\ out[p] # << >> /\ \A n \in 1..Len(out[p]) : out[p][n].left # {}
      /\ UNCHANGED <<items, peer, pinged, at, to>>
  BY DEF SendLine, TypeOK, AdapterTypeOK, AtPlaces, LeftsOK
<1>2. Head(out[p]) = out[p][1] /\ 1 \in 1..Len(out[p]) /\ out[p][1] \in Outgoing
  BY <1>1, HeadTailProperties, EmptySeq, LenProperties
<1>3. /\ Head(out[p]).line \in ConditionLines \cup EventLines /\ Head(out[p]).left \subseteq Clients
      /\ Head(out[p]).left \subseteq to[p]
  BY <1>2 DEF Outgoing, AtPlaces, LeftsOK
<1>4. \E c \in Head(out[p]).left : SentTo(p, c)
  BY Zenon DEF SendLine, SentTo
<1>. QED  BY <1>1, <1>3, <1>4

LEMMA SendLineTyped ==
  ASSUME TypeOK, AtPlaces, NEW p \in Threads, SendLine(p)
  PROVE  out' \in [Threads -> Seq(Outgoing)] /\ clients' \subseteq Clients
         /\ view' \in [Clients -> [events : [Events -> Values], condition : SUBSET (Codes \cup {Unavailable})]]
<1>1. PICK c \in Head(out[p]).left : c \in Clients /\ SentTo(p, c)
  BY SendLineLaw
<1>2. Sent(out[p], c) \in Seq(Outgoing)
  BY SendLineLaw, SentLaw
<1>3. out' \in [Threads -> Seq(Outgoing)] /\ clients' \subseteq Clients
  BY <1>1, <1>2 DEF SentTo, TypeOK, AdapterTypeOK
<1>4. CASE view' = [view EXCEPT ![c] = Learnt(@, Head(out[p]).line)]
  <2>1. view[c] \in [events : [Events -> Values], condition : SUBSET (Codes \cup {Unavailable})]
    BY <1>1 DEF TypeOK, AdapterTypeOK
  <2>2. Learnt(view[c], Head(out[p]).line) \in [events : [Events -> Values], condition : SUBSET (Codes \cup {Unavailable})]
    BY <2>1, LearntTyped, SendLineLaw
  <2>. QED  BY <1>3, <1>4, <2>2 DEF TypeOK, AdapterTypeOK
<1>5. CASE UNCHANGED view
  BY <1>3, <1>5 DEF TypeOK, AdapterTypeOK
<1>. QED  BY <1>1, <1>4, <1>5 DEF SentTo

\* What the values may become, and the steps of one thread that a type depends on.
LEMMA EventsTyped ==
  ASSUME TypeOK
  PROVE  /\ \A e \in Events, v \in Values :
              [events EXCEPT ![e] = SetValue(@, v)] \in [Events -> [value : Values, changed : BOOLEAN]]
         /\ [e \in Events |-> SweepEvent(events[e])] \in [Events -> [value : Values, changed : BOOLEAN]]
BY DEF TypeOK, AdapterTypeOK, SetValue, SweepEvent

\* What goes out typed, of the events and of the condition.
LEMMA OutgoingTyped ==
  ASSUME TypeOK, NEW force \in BOOLEAN, NEW cs \in SUBSET Clients
  PROVE  ToEach(EventsText(force), cs) \in Seq(Outgoing) /\ ToEach(Lines(condition, force), cs) \in Seq(Outgoing)
<1>1. EventsText(force) \in Seq(ConditionLines \cup EventLines)
  BY EventsTextLaw DEF TypeOK, AdapterTypeOK
<1>2. condition \in Conditions
  BY DEF TypeOK, AdapterTypeOK, Conditions
<1>3. Lines(condition, force) \in Seq(ConditionLines)
  BY <1>2, LinesLaw
<1>4. Lines(condition, force) \in Seq(ConditionLines \cup EventLines)
  BY <1>3, SeqMonotonic
<1>. QED  BY <1>1, <1>4, ToEachLaw

LEMMA SendConditionTyped ==
  ASSUME TypeOK, NEW p \in Threads, SendCondition(p),
         torn' \in [Clients -> BOOLEAN]
  PROVE  AdapterTypeOK'
<1>1. to[p] \in SUBSET Clients /\ << >> \in Seq(Outgoing)
  BY EmptySeq DEF TypeOK, AdapterTypeOK
<1>2. \A force \in BOOLEAN : ToEach(Lines(condition, force), to[p]) \in Seq(Outgoing)
  BY <1>1, OutgoingTyped
<1>3. PICK q \in Seq(Outgoing) : out' = [out EXCEPT ![p] = q]
  <2>1. (p \in Clients) \in BOOLEAN
    OBVIOUS
  <2>. QED  BY <1>1, <1>2, <2>1 DEF SendCondition
<1>. QED  BY <1>3 DEF SendCondition, TypeOK, AdapterTypeOK, Places, items

LEMMA GatherTyped ==
  ASSUME TypeOK, NEW g \in Gatherers, Begin(g) \/ Complete(g) \/ Sweep(g),
         torn' \in [Clients -> BOOLEAN]
  PROVE  AdapterTypeOK'
<1>1. condition \in Conditions /\ g \in Threads
  BY ThreadsLaw DEF TypeOK, AdapterTypeOK, Conditions
<1>2. CASE Begin(g)
  <2>1. condition' \in Conditions
    BY <1>1, <1>2, BeginLaw DEF Begin
  <2>. QED  BY <1>1, <1>2, <2>1 DEF Begin, TypeOK, AdapterTypeOK, Places, Conditions
<1>3. CASE Complete(g)
  <2>1. condition' \in Conditions
    BY <1>1, <1>3, CompleteLaw DEF Complete
  <2>2. ToEach(EventsText(FALSE), clients) \in Seq(Outgoing) /\ clients \subseteq Clients
    BY OutgoingTyped DEF TypeOK, AdapterTypeOK
  <2>. QED  BY <1>1, <1>3, <2>1, <2>2 DEF Complete, TypeOK, AdapterTypeOK, Places, Conditions
<1>4. CASE Sweep(g)
  <2>1. condition' \in Conditions
    BY <1>1, <1>4, SweepLaw DEF Sweep
  <2>2. events' \in [Events -> [value : Values, changed : BOOLEAN]]
    BY <1>4, EventsTyped DEF Sweep
  <2>. QED  BY <1>1, <1>4, <2>1, <2>2 DEF Sweep, TypeOK, AdapterTypeOK, Places, Conditions
<1>. QED  BY <1>2, <1>3, <1>4

LEMMA ConnectionTyped ==
  ASSUME TypeOK, NEW c \in Clients, ClientNext(c),
         torn' \in [Clients -> BOOLEAN]
  PROVE  AdapterTypeOK'
<1>1. /\ c \in Threads
      /\ Nothing \in [events : [Events -> Values], condition : SUBSET (Codes \cup {Unavailable})]
  BY AdapterAssumption, ThreadsLaw DEF Nothing
<1>2. CASE SendInitial(c)
  <2>1. ToEach(EventsText(TRUE), {c}) \in Seq(Outgoing)
    BY OutgoingTyped
  <2>. QED  BY <1>1, <1>2, <2>1 DEF SendInitial, TypeOK, AdapterTypeOK, Places, items
<1>3. CASE FinishRequest(c)
  BY <1>1, <1>3 DEF FinishRequest, TypeOK, AdapterTypeOK, Places, items
<1>4. CASE HeartbeatEnds(c)
  BY <1>1, <1>4 DEF HeartbeatEnds, TypeOK, AdapterTypeOK, Places, items
<1>5. CASE Heartbeat(c)
  BY <1>1, <1>5 DEF Heartbeat, TypeOK, AdapterTypeOK, Places, items
<1>6. CASE Ping(c)
  BY <1>1, <1>6 DEF Ping, TypeOK, AdapterTypeOK, Places, items
<1>7. CASE Goes(c)
  BY <1>1, <1>7 DEF Goes, TypeOK, AdapterTypeOK, Places, items
<1>. QED  BY <1>2, <1>3, <1>4, <1>5, <1>6, <1>7 DEF ClientNext

\* A gather changes an event, or nothing, and the condition as it may be reported.
LEMMA ChangeTyped ==
  ASSUME TypeOK, NEW g \in Gatherers, NEW newEvents, NEW newCondition,
         Change(g, newEvents, newCondition), Reports,
         newEvents \in [Events -> [value : Values, changed : BOOLEAN]],
         torn' \in [Clients -> BOOLEAN]
  PROVE  AdapterTypeOK'
<1>1. condition \in Conditions /\ g \in Threads
  BY ThreadsLaw DEF TypeOK, AdapterTypeOK, Conditions
<1>2. condition' \in Conditions
  <2>1. CASE \E codes \in SUBSET Codes : condition' = Add(condition, codes)
    BY <1>1, <2>1, AddLaw
  <2>2. CASE \E k \in Codes : condition' = RemoveCode(condition, k)
    BY <1>1, <2>2, RemoveLaw
  <2>. QED  BY <1>1, <2>1, <2>2, NormalLaw DEF Reports
<1>. QED  BY <1>1, <1>2 DEF Change, TypeOK, AdapterTypeOK, Places, Conditions

\* The history is typed, and says no more than it did of a client that goes on.
LEMMA TearsLaw ==
  ASSUME TypeOK, Tears(program # "server")
  PROVE  /\ torn' \in [Clients -> BOOLEAN]
         /\ \A c \in Clients : ~torn'[c] /\ at'[c] # "idle" =>
              /\ ~torn[c]
              /\ Connecting(c)' => Gathering' = {}
              /\ program = "server" => ~(Cardinality(Gathering') > 1)
<1>1. torn' = [c \in Clients |->
        /\ at'[c] # "idle"
        /\ \/ torn[c]
           \/ (Gathering' # {} /\ (Connecting(c))')
           \/ (program = "server" /\ Cardinality(Gathering') > 1)]
  BY DEF Tears
<1>2. \A c \in Clients : torn[c] \in BOOLEAN
  BY DEF TypeOK, AdapterTypeOK
<1>3. torn' \in [Clients -> BOOLEAN]
  BY <1>1, <1>2
<1>4. ASSUME NEW c \in Clients, ~torn'[c], at'[c] # "idle"
      PROVE  ~torn[c] /\ (Connecting(c)' => Gathering' = {}) /\ (program = "server" => ~(Cardinality(Gathering') > 1))
  BY <1>1, <1>2, <1>4
<1>. QED  BY <1>3, <1>4

\* What the subscriber's queue of members gives to a gather.
LEMMA MembersTyped ==
  ASSUME NEW t \in Gatherers
  PROVE  /\ Members(t) \in Seq(Events) /\ Len(Members(t)) = 1 /\ Head(Members(t)) \in Events
         /\ \A value \in [1..Len(Members(t)) -> Values \ {Unavailable}] :
              [n \in 1..Len(Members(t)) |-> <<Members(t)[n], value[n]>>] \in Seq(Events \X Values)
<1>1. "avail" \in Events /\ "c_unclamp" \in Events
  BY Items
<1>2. PICK e \in Events : Members(t) = << e >>
  BY <1>1 DEF Members
<1>3. Members(t) \in Seq(Events) /\ Len(Members(t)) = 1 /\ Head(Members(t)) = e /\ Members(t)[1] = e
  BY <1>2
<1>4. ASSUME NEW value \in [1..Len(Members(t)) -> Values \ {Unavailable}]
      PROVE  [n \in 1..Len(Members(t)) |-> <<Members(t)[n], value[n]>>] \in Seq(Events \X Values)
  <2>1. \A n \in 1..Len(Members(t)) : <<Members(t)[n], value[n]>> \in Events \X Values
    BY <1>3, <1>4
  <2>2. Len(Members(t)) \in Nat
    BY <1>3
  <2>. QED  BY <2>1, <2>2
<1>. QED  BY <1>3, <1>4

\* Each function of a gather: which events it sets, and what it reports of the condition.
Sets(newEvents) ==
  newEvents = events \/ \E e \in Events, v \in Values : newEvents = [events EXCEPT ![e] = SetValue(@, v)]

LEMMA ConversionLaw ==
  ASSUME TypeOK, NEW g \in Gatherers, Conversion(g)
  PROVE  /\ msg[g] # << >> /\ msg' = [msg EXCEPT ![g] = Tail(@)] /\ msg' \in [Gatherers -> Seq(Events \X Values)]
         /\ Change(g, events', condition') /\ Sets(events') /\ Reports
         /\ UNCHANGED <<program, lock, topic_list, index, published, publishing, step>>
<1>1. msg[g] \in Seq(Events \X Values) /\ msg[g] # << >>
  BY DEF TypeOK, Conversion
<1>2. Head(msg[g]) \in Events \X Values /\ Tail(msg[g]) \in Seq(Events \X Values)
  BY <1>1, HeadTailProperties
<1>. DEFINE e == Head(msg[g])[1]
            v == Head(msg[g])[2]
<1>3. e \in Events /\ v \in Values
  BY <1>2
<1>4. Change(g, [events EXCEPT ![e] = SetValue(@, v)], condition)
  BY DEF Conversion
<1>5. events' = [events EXCEPT ![e] = SetValue(@, v)] /\ condition' = condition
  BY <1>4 DEF Change
<1>6. Change(g, events', condition')
  BY <1>4, <1>5
<1>. HIDE DEF e, v
<1>7. Sets(events') /\ Reports
  BY <1>3, <1>5 DEF Sets, Reports
<1>8. msg' = [msg EXCEPT ![g] = Tail(@)] /\ UNCHANGED <<program, lock, topic_list, index, published, publishing, step>>
  BY DEF Conversion
<1>9. msg' \in [Gatherers -> Seq(Events \X Values)]
  BY <1>2, <1>8 DEF TypeOK
<1>. QED  BY <1>1, <1>6, <1>7, <1>8, <1>9

LEMMA FunctionLaw ==
  ASSUME TypeOK, NEW g \in Gatherers, ActionState(g) \/ Script(g) \/ Report(g)
  PROVE  /\ Change(g, events', condition') /\ Sets(events') /\ Reports
         /\ UNCHANGED <<program, lock, topic_list, index, published, publishing, msg>> /\ step' \in 0..4
         /\ program = "server" => condition' = condition
         /\ program = "subscriber" => FALSE
<1>1. CASE ActionState(g)
  <2>1. PICK v \in Values \ {Unavailable, events[Head(Members(g))].value} :
          Change(g, [events EXCEPT ![Head(Members(g))] = SetValue(@, v)], condition)
    BY <1>1 DEF ActionState
  <2>2. events' = [events EXCEPT ![Head(Members(g))] = SetValue(@, v)] /\ condition' = condition
    BY <2>1 DEF Change
  <2>3. Change(g, events', condition')
    BY <2>1, <2>2
  <2>4. Sets(events') /\ Reports
    BY <2>2, MembersTyped DEF Sets, Reports
  <2>. QED  BY <1>1, <2>2, <2>3, <2>4 DEF ActionState, users, TypeOK
<1>2. CASE Script(g)
  <2>1. PICK v \in Values \ {Unavailable, events["avail"].value} :
          Change(g, [events EXCEPT !["avail"] = SetValue(@, v)],
              CASE step = 0 -> condition
                [] step = 1 -> Add(condition, {"123"})
                [] step = 2 -> Add(condition, {"124"})
                [] step = 3 -> RemoveCode(condition, "123")
                [] step = 4 -> RemoveCode(condition, "124"))
    BY <1>2 DEF Script
  <2>2. /\ events' = [events EXCEPT !["avail"] = SetValue(@, v)]
        /\ condition' = CASE step = 0 -> condition
                         [] step = 1 -> Add(condition, {"123"})
                         [] step = 2 -> Add(condition, {"124"})
                         [] step = 3 -> RemoveCode(condition, "123")
                         [] step = 4 -> RemoveCode(condition, "124")
    BY <2>1 DEF Change
  <2>3. Change(g, events', condition')
    BY <2>1, <2>2
  <2>4. step \in 0..4 /\ step' \in 0..4
    BY <1>2 DEF Script, TypeOK
  <2>5. Sets(events')
    BY <2>2, Items DEF Sets
  <2>6. {"123"} \in SUBSET Codes /\ {"124"} \in SUBSET Codes
    BY Items
  <2>7. Reports
    BY <2>2, <2>4, <2>6 DEF Reports
  <2>. QED  BY <1>2, <2>3, <2>4, <2>5, <2>7 DEF Script
<1>3. CASE Report(g)
  <2>1. \/ \E codes \in SUBSET Codes : Change(g, events, Add(condition, codes))
        \/ Change(g, events, Normal(condition))
    BY <1>3 DEF Report
  <2>2. Change(g, events', condition') /\ Sets(events') /\ Reports
    <3>1. CASE Change(g, events, Normal(condition))
      BY <3>1 DEF Change, Sets, Reports
    <3>2. ASSUME NEW codes \in SUBSET Codes, Change(g, events, Add(condition, codes))
          PROVE  Change(g, events', condition') /\ Sets(events') /\ Reports
      BY <3>2 DEF Change, Sets, Reports
    <3>. QED  BY <2>1, <3>1, <3>2
  <2>. QED  BY <1>3, <2>2 DEF Report, users, TypeOK
<1>. QED  BY <1>1, <1>2, <1>3

\* The steps, by what they leave alone.
TopicStep(t) == TopicCallback(t) \/ CallbackEnds(t) \/ Advertise(t) \/ AskTopics \/ NextTopic
GatherStep(g) == BeginGather(g) \/ Complete(g) \/ Sweep(g)
FunctionStep(g) == Conversion(g) \/ ActionState(g) \/ Script(g) \/ Report(g)
SendStep(p) == SendLine(p) \/ SendCondition(p)

LEMMA NextCases ==
  ASSUME Next
  PROVE  /\ Tears(program # "server")
         /\ \/ \E t \in Gatherers : TopicStep(t)
            \/ \E g \in Gatherers : GatherStep(g) /\ UNCHANGED users
            \/ \E g \in Gatherers : FunctionStep(g)
            \/ \E p \in Threads : SendStep(p) /\ UNCHANGED users
            \/ \E c \in Clients : ClientNext(c) /\ UNCHANGED users
<1>1. CASE \E g \in Gatherers : Gather(g)
  BY <1>1 DEF Next, Gather, GatherStep, FunctionStep, SendStep, BeginGather, Threads
<1>2. CASE \E g \in Gatherers : TopicCallback(g) \/ CallbackEnds(g) \/ Advertise(g)
  BY <1>2 DEF Next, TopicStep
<1>3. CASE AskTopics \/ NextTopic
  BY <1>3, ThreadsLaw DEF Next, TopicStep
<1>4. CASE \E c \in Clients : ClientThread(c) \/ PeerDoes(c)
  BY <1>4 DEF Next, ClientThread, PeerDoes, SendStep, ClientNext, Threads
<1>. QED  BY <1>1, <1>2, <1>3, <1>4, Zenon DEF Next

\* The topics' steps leave the adapter alone.
LEMMA TopicStepLaw ==
  ASSUME TypeOK, NEW t \in Gatherers, TopicStep(t)
  PROVE  UNCHANGED <<adapter, program, step>>
BY DEF TopicStep, TopicCallback, CallbackEnds, Advertise, AskTopics, NextTopic

UsersOK ==
  /\ program \in {"subscriber", "server", "example", "reporter"}
  /\ lock \in Gatherers \cup {"none"} /\ topic_list \in Seq(Topics)
  /\ index \in Nat /\ published \subseteq publishing /\ publishing \subseteq Topics
  /\ step \in 0..4
  /\ msg \in [Gatherers -> Seq(Events \X Values)]

LEMMA TopicTyped ==
  ASSUME TypeOK, NEW t \in Gatherers, TopicStep(t)
  PROVE  UsersOK'
<1>1. CASE TopicCallback(t)
  <2>1. PICK q \in Seq(Events \X Values) : msg' = [msg EXCEPT ![t] = q]
    BY <1>1, MembersTyped, Zenon DEF TopicCallback
  <2>. QED  BY <1>1, <2>1 DEF TopicCallback, UsersOK, TypeOK
<1>2. CASE CallbackEnds(t)
  BY <1>2 DEF CallbackEnds, UsersOK, TypeOK
<1>3. CASE Advertise(t)
  BY <1>3, ThreadsLaw DEF Advertise, UsersOK, TypeOK
<1>4. CASE AskTopics
  BY <1>4 DEF AskTopics, UsersOK, TypeOK
<1>5. CASE NextTopic
  <2>1. topic_list \in Seq(Topics) /\ index \in Nat /\ index > 0
    BY <1>5 DEF NextTopic, TypeOK
  <2>2. index <= Len(topic_list) => RemoveAt(topic_list, index) \in Seq(Topics)
    <3>. HAVE index <= Len(topic_list)
    <3>1. Len(topic_list) \in Nat /\ \A i \in 1..Len(topic_list) : topic_list[i] \in Topics
      BY <2>1, LenProperties
    <3>2. SubSeq(topic_list, 1, index - 1) \in Seq(Topics)
      BY <2>1, <3>1, SubSeqProperties
    <3>3. SubSeq(topic_list, index + 1, Len(topic_list)) \in Seq(Topics)
      BY <2>1, <3>1, SubSeqProperties
    <3>. QED  BY <3>2, <3>3, ConcatProperties DEF RemoveAt
  <2>3. Len(topic_list) \in Nat
    BY <2>1, LenProperties
  <2>4. topic_list' \in Seq(Topics) /\ index' \in Nat
    BY <1>5, <2>1, <2>2, <2>3 DEF NextTopic
  <2>. QED  BY <1>5, <2>4 DEF NextTopic, UsersOK, TypeOK
<1>. QED  BY <1>1, <1>2, <1>3, <1>4, <1>5 DEF TopicStep

LEMMA SetsTyped ==
  ASSUME TypeOK, NEW newEvents, Sets(newEvents)
  PROVE  newEvents \in [Events -> [value : Values, changed : BOOLEAN]]
<1>1. CASE newEvents = events
  BY <1>1 DEF TypeOK, AdapterTypeOK
<1>2. ASSUME NEW e \in Events, NEW v \in Values, newEvents = [events EXCEPT ![e] = SetValue(@, v)]
      PROVE  newEvents \in [Events -> [value : Values, changed : BOOLEAN]]
  BY <1>2, EventsTyped
<1>. QED  BY <1>1, <1>2 DEF Sets

LEMMA TypeStep ==
  ASSUME TypeOK, AtPlaces, Next
  PROVE  TypeOK'
<1>1. torn' \in [Clients -> BOOLEAN]
  BY NextCases, TearsLaw
<1>2. TypeOK' <=> AdapterTypeOK' /\ UsersOK'
  BY DEF TypeOK, UsersOK
<1>3. UNCHANGED users => UsersOK'
  BY DEF TypeOK, UsersOK, users
<1>4. ASSUME NEW t \in Gatherers, TopicStep(t)
      PROVE  TypeOK'
  <2>1. AdapterTypeOK'
    BY <1>4, TopicStepLaw DEF TypeOK, AdapterTypeOK, adapter
  <2>. QED  BY <1>2, <1>4, <2>1, TopicTyped
<1>5. ASSUME NEW g \in Gatherers, GatherStep(g), UNCHANGED users
      PROVE  TypeOK'
  BY <1>1, <1>2, <1>3, <1>5, GatherTyped DEF GatherStep, BeginGather
<1>6. ASSUME NEW g \in Gatherers, FunctionStep(g)
      PROVE  TypeOK'
  <2>1. Change(g, events', condition') /\ Sets(events') /\ Reports
    BY <1>6, ConversionLaw, FunctionLaw DEF FunctionStep
  <2>2. AdapterTypeOK'
    BY <1>1, <2>1, SetsTyped, ChangeTyped
  <2>3. UsersOK'
    <3>1. CASE Conversion(g)
      BY <3>1, ConversionLaw DEF TypeOK, UsersOK
    <3>2. CASE ActionState(g) \/ Script(g) \/ Report(g)
      BY <3>2, FunctionLaw DEF TypeOK, UsersOK
    <3>. QED  BY <1>6, <3>1, <3>2 DEF FunctionStep
  <2>. QED  BY <1>2, <2>2, <2>3
<1>7. ASSUME NEW p \in Threads, SendStep(p), UNCHANGED users
      PROVE  TypeOK'
  <2>1. CASE SendCondition(p)
    BY <1>1, <1>2, <1>3, <1>7, <2>1, SendConditionTyped
  <2>2. CASE SendLine(p)
    BY <1>1, <1>2, <1>3, <1>7, <2>2, SendLineLaw, SendLineTyped DEF TypeOK, AdapterTypeOK, items
  <2>. QED  BY <1>7, <2>1, <2>2 DEF SendStep
<1>8. ASSUME NEW c \in Clients, ClientNext(c), UNCHANGED users
      PROVE  TypeOK'
  BY <1>1, <1>2, <1>3, <1>8, ConnectionTyped
<1>. QED  BY <1>4, <1>5, <1>6, <1>7, <1>8, NextCases, Zenon

-----------------------------------------------------------------------------
(* Where the threads are                                                    *)

LEMMA NoLefts ==
  ASSUME NEW cs
  PROVE  LeftsOK(<< >>, cs)
<1>1. \A n : n \notin 1..Len(<< >>)
  BY EmptySeq
<1>. QED  BY <1>1 DEF LeftsOK

LEMMA OutgoingLefts ==
  ASSUME TypeOK, NEW force \in BOOLEAN, NEW cs \in SUBSET Clients
  PROVE  LeftsOK(ToEach(EventsText(force), cs), cs) /\ LeftsOK(ToEach(Lines(condition, force), cs), cs)
<1>1. EventsText(force) \in Seq(ConditionLines \cup EventLines)
  BY EventsTextLaw DEF TypeOK, AdapterTypeOK
<1>2. condition \in Conditions
  BY DEF TypeOK, AdapterTypeOK, Conditions
<1>3. Lines(condition, force) \in Seq(ConditionLines)
  BY <1>2, LinesLaw
<1>4. Lines(condition, force) \in Seq(ConditionLines \cup EventLines)
  BY <1>3, SeqMonotonic
<1>. QED  BY <1>1, <1>4, ToEachLaw DEF LeftsOK

LEMMA GatherPlaces ==
  ASSUME TypeOK, AtPlaces, NEW g \in Gatherers, Begin(g) \/ Complete(g) \/ Sweep(g) \/ Change(g, events', condition')
  PROVE  AtPlaces'
<1>1. /\ at \in [Threads -> Places] /\ out \in [Threads -> Seq(Outgoing)] /\ to \in [Threads -> SUBSET Clients]
      /\ g \in Threads /\ clients \subseteq Clients
  BY ThreadsLaw DEF TypeOK, AdapterTypeOK
<1>2. UNCHANGED <<clients, peer>>
  BY DEF Begin, Complete, Sweep, Change
<1>3. \A p \in Threads : p # g => at'[p] = at[p] /\ out'[p] = out[p] /\ to'[p] = to[p]
  BY <1>1 DEF Begin, Complete, Sweep, Change
<1>4. \A c \in Clients : ClientAt(c)'
  <2>. TAKE c \in Clients
  <2>1. c \in Threads /\ c # g
    BY ThreadsLaw
  <2>. QED  BY <1>2, <1>3, <2>1 DEF AtPlaces, ClientAt
<1>5. \A h \in Gatherers : h # g => GatherAt(h)'
  BY <1>3, ThreadsLaw DEF AtPlaces, GatherAt
<1>6. \A p \in Threads : p # g => LeftsOK(out[p], to[p])'
  BY <1>3 DEF AtPlaces
<1>7. GatherAt(g)' /\ LeftsOK(out[g], to[g])'
  <2>1. CASE Complete(g)
    <3>1. to'[g] = clients /\ out'[g] = ToEach(EventsText(FALSE), clients) /\ at'[g] = "events"
      BY <1>1, <2>1 DEF Complete
    <3>. QED  BY <1>1, <3>1, OutgoingLefts DEF GatherAt
  <2>2. CASE Begin(g) \/ Change(g, events', condition')
    <3>1. to'[g] = to[g] /\ out'[g] = out[g] /\ at'[g] \in {"begun", "changed"} /\ at[g] \in {"idle", "begun"}
      BY <1>1, <2>2 DEF Begin, Change
    <3>. QED  BY <1>1, <3>1 DEF AtPlaces, GatherAt
  <2>3. CASE Sweep(g)
    <3>1. out'[g] = << >> /\ at'[g] = "idle"
      BY <1>1, <2>3 DEF Sweep
    <3>. QED  BY <3>1, NoLefts DEF GatherAt
  <2>. QED  BY <2>1, <2>2, <2>3
<1>. QED  BY <1>4, <1>5, <1>6, <1>7 DEF AtPlaces

LEMMA SendPlaces ==
  ASSUME TypeOK, AtPlaces, NEW p \in Threads, SendStep(p)
  PROVE  AtPlaces'
<1>1. /\ at \in [Threads -> Places] /\ out \in [Threads -> Seq(Outgoing)] /\ to \in [Threads -> SUBSET Clients]
      /\ clients \subseteq Clients
  BY DEF TypeOK, AdapterTypeOK
<1>2. /\ UNCHANGED <<peer, to>> /\ clients' \subseteq clients
      /\ at[p] \in {"events", "condition"} /\ at'[p] \in {"events", "condition"}
  <2>1. CASE SendCondition(p)
    BY <1>1, <2>1 DEF SendCondition
  <2>2. CASE SendLine(p)
    <3>1. UNCHANGED <<peer, to, at>> /\ clients' \subseteq clients /\ out[p] # << >>
      BY <2>2, SendLineLaw DEF SentTo
    <3>. QED  BY <3>1 DEF AtPlaces, GatherAt, ClientAt, Threads
  <2>. QED  BY <2>1, <2>2 DEF SendStep
<1>3. \A q \in Threads : q # p => at'[q] = at[q] /\ out'[q] = out[q]
  <2>1. CASE SendCondition(p)
    BY <1>1, <2>1 DEF SendCondition
  <2>2. CASE SendLine(p)
    BY <1>1, <2>2, SendLineLaw DEF SentTo
  <2>. QED  BY <2>1, <2>2 DEF SendStep
<1>4. LeftsOK(out[p], to[p])'
  <2>1. CASE SendCondition(p)
    <3>1. to[p] \in SUBSET Clients /\ (p \in Clients) \in BOOLEAN
      BY <1>1
    <3>2. out'[p] = << >> \/ out'[p] = ToEach(Lines(condition, p \in Clients), to[p])
      BY <1>1, <2>1 DEF SendCondition
    <3>. QED  BY <1>2, <3>1, <3>2, OutgoingLefts, NoLefts
  <2>2. CASE SendLine(p)
    <3>1. PICK c \in Head(out[p]).left : SentTo(p, c)
      BY <2>2, SendLineLaw
    <3>2. out'[p] = Sent(out[p], c)
      BY <1>1, <3>1 DEF SentTo
    <3>3. \A n \in 1..Len(Sent(out[p], c)) :
              Sent(out[p], c)[n].left # {} /\ \E m \in 1..Len(out[p]) : Sent(out[p], c)[n].left \subseteq out[p][m].left
      BY <2>2, SendLineLaw, SentLaw
    <3>4. LeftsOK(Sent(out[p], c), to[p])
      BY <3>3 DEF AtPlaces, LeftsOK
    <3>. QED  BY <1>2, <3>2, <3>4
  <2>. QED  BY <2>1, <2>2 DEF SendStep
<1>5. \A q \in Threads : LeftsOK(out[q], to[q])'
  BY <1>2, <1>3, <1>4 DEF AtPlaces
<1>6. \A g \in Gatherers : GatherAt(g)'
  BY <1>2, <1>3, ThreadsLaw DEF AtPlaces, GatherAt
<1>7. \A c \in Clients : ClientAt(c)'
  BY <1>2, <1>3, ThreadsLaw DEF AtPlaces, ClientAt
<1>. QED  BY <1>5, <1>6, <1>7 DEF AtPlaces

LEMMA ConnectionPlaces ==
  ASSUME TypeOK, AtPlaces, NEW c \in Clients, ClientNext(c)
  PROVE  AtPlaces'
<1>1. /\ at \in [Threads -> Places] /\ out \in [Threads -> Seq(Outgoing)] /\ to \in [Threads -> SUBSET Clients]
      /\ c \in Threads /\ clients \subseteq Clients /\ peer \in [Clients -> {"away", "up", "silent", "closed"}]
  BY ThreadsLaw DEF TypeOK, AdapterTypeOK
<1>2. \A p \in Threads : p # c => at'[p] = at[p] /\ out'[p] = out[p] /\ to'[p] = to[p]
  BY <1>1 DEF ClientNext, SendInitial, FinishRequest, Heartbeat, HeartbeatEnds, Ping, Goes
<1>3. \A d \in Clients : d # c => peer'[d] = peer[d] /\ (d \in clients' <=> d \in clients)
  BY <1>1 DEF ClientNext, SendInitial, FinishRequest, Heartbeat, HeartbeatEnds, Ping, Goes
<1>4. \A g \in Gatherers : GatherAt(g)'
  BY <1>2, ThreadsLaw DEF AtPlaces, GatherAt
<1>5. \A d \in Clients : d # c => ClientAt(d)'
  BY <1>2, <1>3, ThreadsLaw DEF AtPlaces, ClientAt
<1>6. \A p \in Threads : p # c => LeftsOK(out[p], to[p])'
  BY <1>2 DEF AtPlaces
<1>7. ClientAt(c) /\ LeftsOK(out[c], to[c])
  BY <1>1 DEF AtPlaces
<1>8. ClientAt(c)' /\ LeftsOK(out[c], to[c])'
  <2>1. CASE SendInitial(c)
    <3>1. at[c] = "initial" /\ at'[c] = "events" /\ to'[c] = to[c] /\ out'[c] = ToEach(EventsText(TRUE), {c}) /\ UNCHANGED <<peer, clients>>
      BY <1>1, <2>1 DEF SendInitial
    <3>2. to[c] = {c}
      BY <1>7, <3>1 DEF ClientAt
    <3>. QED  BY <1>7, <3>1, <3>2, OutgoingLefts DEF ClientAt
  <2>2. CASE FinishRequest(c)
    <3>1. /\ at[c] = "idle" /\ at'[c] = "initial" /\ to'[c] = {c} /\ out'[c] = out[c] /\ peer'[c] = "up"
      BY <1>1, <2>2 DEF FinishRequest
    <3>. QED  BY <1>7, <3>1, NoLefts DEF ClientAt
  <2>3. CASE HeartbeatEnds(c)
    <3>1. /\ at[c] = "heartbeat" /\ at'[c] = "idle" /\ out'[c] = out[c] /\ peer'[c] = "away" /\ c \notin clients'
      BY <1>1, <2>3 DEF HeartbeatEnds
    <3>. QED  BY <1>7, <3>1, NoLefts DEF ClientAt
  <2>4. CASE Heartbeat(c)
    <3>1. /\ at[c] = "condition" /\ at'[c] = "heartbeat" /\ out[c] = << >> /\ UNCHANGED <<out, peer, clients, to>>
      BY <1>1, <2>4 DEF Heartbeat
    <3>. QED  BY <1>7, <3>1, NoLefts DEF ClientAt
  <2>5. CASE Ping(c)
    BY <1>7, <2>5 DEF Ping, ClientAt
  <2>6. CASE Goes(c)
    <3>1. peer[c] = "up" /\ peer'[c] # "away" /\ UNCHANGED <<at, out, clients, to>>
      BY <1>1, <2>6 DEF Goes
    <3>. QED  BY <1>7, <3>1 DEF ClientAt
  <2>. QED  BY <2>1, <2>2, <2>3, <2>4, <2>5, <2>6 DEF ClientNext
<1>. QED  BY <1>4, <1>5, <1>6, <1>8 DEF AtPlaces

LEMMA PlacesStep ==
  ASSUME TypeOK, AtPlaces, Next
  PROVE  AtPlaces'
<1>1. ASSUME NEW t \in Gatherers, TopicStep(t)
      PROVE  AtPlaces'
  BY <1>1, TopicStepLaw DEF AtPlaces, GatherAt, ClientAt, adapter
<1>2. ASSUME NEW g \in Gatherers, GatherStep(g)
      PROVE  AtPlaces'
  BY <1>2, GatherPlaces DEF GatherStep, BeginGather
<1>3. ASSUME NEW g \in Gatherers, FunctionStep(g)
      PROVE  AtPlaces'
  BY <1>3, GatherPlaces, ConversionLaw, FunctionLaw DEF FunctionStep
<1>. QED  BY <1>1, <1>2, <1>3, SendPlaces, ConnectionPlaces, NextCases, Zenon

-----------------------------------------------------------------------------
(* Gathers that keep apart, and the flags                                   *)

LEMMA NoConditionLaw ==
  /\ NoCondition \in Conditions /\ \A states : "none" \notin states => In(NoCondition, states) = {}
  /\ \A how : BeginCondition(NoCondition, how) = NoCondition
  /\ CompleteCondition(NoCondition) = NoCondition /\ SweepCondition(NoCondition) = NoCondition
<1>1. NoCondition \in Conditions /\ \A states : "none" \notin states => In(NoCondition, states) = {}
  BY DEF NoCondition, Conditions, Activations, In
<1>2. /\ NoCondition.value = FALSE /\ NoCondition.changed = FALSE /\ DOMAIN NoCondition.active = Codes
      /\ \A k \in Codes : NoCondition.active[k] = "none"
  BY DEF NoCondition
<1>3. ASSUME NEW c \in Conditions, c.value = FALSE, c.changed = FALSE, \A k \in Codes : c.active[k] = "none"
      PROVE  c = NoCondition
  <2>1. c.active = [k \in Codes |-> "none"]
    BY <1>3 DEF Conditions
  <2>2. c = [value |-> c.value, changed |-> c.changed, active |-> c.active]
    BY <1>3 DEF Conditions
  <2>. QED  BY <1>3, <2>1, <2>2 DEF NoCondition
<1>4. In(NoCondition, {"cleared"}) = {}
  BY <1>1
<1>5. ASSUME NEW how
      PROVE  BeginCondition(NoCondition, how) = NoCondition
  <2>1. PICK b : b = BeginCondition(NoCondition, how)
    OBVIOUS
  <2>2. b \in Conditions /\ b.value = FALSE /\ b.changed = FALSE /\ \A k \in Codes : b.active[k] = "none"
    BY <1>1, <1>2, <2>1, BeginLaw
  <2>. QED  BY <1>3, <2>1, <2>2
<1>6. CompleteCondition(NoCondition) = NoCondition
  BY <1>1, <1>2, <1>3, <1>4, CompleteLaw
<1>7. SweepCondition(NoCondition) = NoCondition
  <2>1. PICK b : b = SweepCondition(NoCondition)
    OBVIOUS
  <2>2. b \in Conditions /\ b.value = FALSE /\ b.changed = FALSE /\ \A k \in Codes : b.active[k] = "none"
    BY <1>1, <1>2, <2>1, SweepLaw
  <2>. QED  BY <1>3, <2>1, <2>2
<1>. QED  BY <1>1, <1>5, <1>6, <1>7

\* What a step does to the places of the gathers.
LEMMA GatherMoves ==
  ASSUME TypeOK, AtPlaces, NEW g \in Gatherers,
         BeginGather(g) \/ Complete(g) \/ Sweep(g) \/ Change(g, events', condition')
  PROVE  /\ \A h \in Gatherers : h # g => at'[h] = at[h]
         /\ BeginGather(g) => at[g] = "idle" /\ at'[g] = "begun" /\ condition' = BeginCondition(condition, kind)
         /\ Change(g, events', condition') => at[g] = "begun" /\ at'[g] = "changed"
         /\ Complete(g) => at[g] = "changed" /\ at'[g] = "events" /\ condition' = CompleteCondition(condition)
         /\ Sweep(g) => at[g] = "condition" /\ at'[g] = "idle" /\ condition' = SweepCondition(condition)
<1>1. at \in [Threads -> Places] /\ \A h \in Gatherers : h \in Threads
  BY ThreadsLaw DEF TypeOK, AdapterTypeOK
<1>. QED  BY <1>1 DEF BeginGather, Begin, Complete, Sweep, Change

LEMMA SendMoves ==
  ASSUME TypeOK, AtPlaces, NEW p \in Threads, SendStep(p)
  PROVE  /\ \A h \in Gatherers : h # p => at'[h] = at[h]
         /\ at[p] \in {"events", "condition"} /\ at'[p] \in {"events", "condition"}
         /\ UNCHANGED items
         /\ at'[p] = "events" => at[p] = "events"
<1>1. at \in [Threads -> Places] /\ \A h \in Gatherers : h \in Threads
  BY ThreadsLaw DEF TypeOK, AdapterTypeOK
<1>2. CASE SendCondition(p)
  BY <1>1, <1>2 DEF SendCondition, items
<1>3. CASE SendLine(p)
  <2>1. UNCHANGED <<items, at>> /\ out[p] # << >>
    BY <1>3, SendLineLaw
  <2>. QED  BY <2>1 DEF AtPlaces, GatherAt, ClientAt, Threads, items
<1>. QED  BY <1>2, <1>3 DEF SendStep

LEMMA ConnectionMoves ==
  ASSUME TypeOK, NEW c \in Clients, ClientNext(c)
  PROVE  /\ \A h \in Gatherers : at'[h] = at[h] /\ out'[h] = out[h] /\ to'[h] = to[h]
         /\ UNCHANGED items
<1>1. /\ at \in [Threads -> Places] /\ out \in [Threads -> Seq(Outgoing)] /\ to \in [Threads -> SUBSET Clients]
      /\ \A h \in Gatherers : h \in Threads /\ h # c
  BY ThreadsLaw DEF TypeOK, AdapterTypeOK
<1>. QED  BY <1>1 DEF ClientNext, SendInitial, FinishRequest, Heartbeat, HeartbeatEnds, Ping, Goes, items

LEMMA KeptStep ==
  ASSUME TypeOK, AtPlaces, Kept, Next
  PROVE  Kept'
<1>1. program \in {"subscriber", "server", "example", "reporter"} /\ "none" \notin Gatherers /\ "spindle" \in Gatherers
  BY ThreadsLaw DEF TypeOK
<1>2. ASSUME NEW t \in Gatherers, TopicStep(t)
      PROVE  Kept'
  <2>1. UNCHANGED <<adapter, program>>
    BY <1>2, TopicStepLaw
  <2>2. CASE TopicCallback(t)
    <3>1. program = "subscriber" /\ lock = "none" /\ lock' = t
      BY <2>2 DEF TopicCallback
    <3>2. \A h \in Gatherers : h # t => msg'[h] = msg[h]
      BY <2>2 DEF TopicCallback, TypeOK
    <3>3. \A h \in Gatherers : at[h] = "idle" /\ msg[h] = << >>
      BY <1>1, <3>1 DEF Kept
    <3>. QED  BY <2>1, <3>1, <3>2, <3>3 DEF Kept, adapter
  <2>3. CASE CallbackEnds(t)
    <3>1. lock = t /\ at[t] = "idle" /\ msg[t] = << >> /\ UNCHANGED msg
      BY <2>3 DEF CallbackEnds
    <3>2. program = "subscriber" => \A h \in Gatherers : at[h] = "idle" /\ msg[h] = << >>
      BY <3>1 DEF Kept
    <3>. QED  BY <2>1, <3>1, <3>2 DEF Kept, adapter
  <2>4. CASE Advertise(t) \/ AskTopics \/ NextTopic
    <3>1. UNCHANGED <<lock, msg>>
      BY <2>4 DEF Advertise, AskTopics, NextTopic
    <3>. QED  BY <2>1, <3>1 DEF Kept, adapter
  <2>. QED  BY <1>2, <2>2, <2>3, <2>4 DEF TopicStep
<1>3. ASSUME NEW g \in Gatherers, GatherStep(g), UNCHANGED users
      PROVE  Kept'
  <2>1. UNCHANGED <<program, lock, msg>>
    BY <1>3 DEF users
  <2>2. \A h \in Gatherers : h # g => at'[h] = at[h]
    BY <1>3, GatherMoves DEF GatherStep
  <2>3. program = "subscriber" => lock = g
    BY <1>3, GatherMoves DEF GatherStep, BeginGather, Kept
  <2>4. program \in {"example", "reporter"} => g # "spindle"
    BY <1>1, <1>3, GatherMoves DEF GatherStep, BeginGather, Kept
  <2>5. condition = NoCondition => condition' = NoCondition
    BY <1>3, GatherMoves, NoConditionLaw DEF GatherStep
  <2>. QED  BY <1>1, <2>1, <2>2, <2>3, <2>4, <2>5 DEF Kept
<1>4. ASSUME NEW g \in Gatherers, FunctionStep(g)
      PROVE  Kept'
  <2>1. Change(g, events', condition') /\ UNCHANGED <<program, lock>>
    BY <1>4, ConversionLaw, FunctionLaw DEF FunctionStep
  <2>2. at[g] = "begun" /\ \A h \in Gatherers : h # g => at'[h] = at[h]
    BY <2>1, GatherMoves
  <2>3. CASE Conversion(g)
    <3>1. msg[g] # << >> /\ \A h \in Gatherers : h # g => msg'[h] = msg[h]
      BY <2>3, ConversionLaw DEF TypeOK
    <3>2. program = "subscriber" /\ lock = g
      BY <3>1 DEF Kept
    <3>. QED  BY <2>1, <2>2, <3>1, <3>2 DEF Kept
  <2>4. CASE ActionState(g) \/ Script(g) \/ Report(g)
    <3>1. UNCHANGED msg /\ (program = "server" => condition' = condition) /\ program # "subscriber"
      BY <2>4, FunctionLaw
    <3>2. program \in {"example", "reporter"} => g # "spindle"
      BY <1>1, <2>2 DEF Kept
    <3>. QED  BY <1>1, <2>1, <2>2, <3>1, <3>2 DEF Kept
  <2>. QED  BY <1>4, <2>3, <2>4 DEF FunctionStep
<1>5. ASSUME NEW p \in Threads, SendStep(p), UNCHANGED users
      PROVE  Kept'
  <2>1. UNCHANGED <<program, lock, msg, condition>>
    BY <1>5, SendMoves DEF users, items
  <2>2. \A h \in Gatherers : h # p => at'[h] = at[h]
    BY <1>5, SendMoves
  <2>3. at[p] # "idle" /\ at'[p] # "idle"
    BY <1>5, SendMoves
  <2>. QED  BY <1>1, <2>1, <2>2, <2>3 DEF Kept
<1>6. ASSUME NEW c \in Clients, ClientNext(c), UNCHANGED users
      PROVE  Kept'
  <2>1. UNCHANGED <<program, lock, msg, condition>>
    BY <1>6, ConnectionMoves DEF users, items
  <2>2. \A h \in Gatherers : at'[h] = at[h]
    BY <1>6, ConnectionMoves
  <2>. QED  BY <1>1, <2>1, <2>2 DEF Kept
<1>. QED  BY <1>2, <1>3, <1>4, <1>5, <1>6, NextCases, Zenon

LEMMA EventFlagsStep ==
  ASSUME TypeOK, AtPlaces, EventFlags, Next
  PROVE  EventFlags'
<1>1. ASSUME NEW t \in Gatherers, TopicStep(t)
      PROVE  EventFlags'
  BY <1>1, TopicStepLaw DEF EventFlags, adapter
<1>2. ASSUME NEW g \in Gatherers, GatherStep(g)
      PROVE  EventFlags'
  <2>1. CASE BeginGather(g)
    <3>1. UNCHANGED events
      BY <2>1 DEF BeginGather, Begin
    <3>. QED  BY <2>1, <3>1, GatherMoves DEF EventFlags
  <2>2. CASE Complete(g)
    BY <2>2, GatherMoves DEF EventFlags
  <2>3. CASE Sweep(g)
    BY <2>3 DEF Sweep, SweepEvent, EventFlags, TypeOK, AdapterTypeOK
  <2>. QED  BY <1>2, <2>1, <2>2, <2>3 DEF GatherStep
<1>3. ASSUME NEW g \in Gatherers, FunctionStep(g)
      PROVE  EventFlags'
  BY <1>3, GatherMoves, ConversionLaw, FunctionLaw DEF FunctionStep, EventFlags
<1>4. ASSUME NEW p \in Threads, SendStep(p)
      PROVE  EventFlags'
  <2>1. UNCHANGED events /\ at[p] \notin {"idle", "begun"} /\ at'[p] \notin {"idle", "begun"} /\ \A h \in Gatherers : h # p => at'[h] = at[h]
    BY <1>4, SendMoves DEF items
  <2>. QED  BY <2>1 DEF EventFlags
<1>5. ASSUME NEW c \in Clients, ClientNext(c)
      PROVE  EventFlags'
  BY <1>5, ConnectionMoves DEF EventFlags, items
<1>. QED  BY <1>1, <1>2, <1>3, <1>4, <1>5, NextCases, Zenon

LEMMA ConditionFlagsStep ==
  ASSUME TypeOK, AtPlaces, Kept, ConditionFlags, Next, TypeOK', Kept'
  PROVE  ConditionFlags'
<1>1. CASE program' = "server"
  <2>1. condition' = NoCondition
    BY <1>1 DEF Kept
  <2>2. ~NoCondition.changed
    BY DEF NoCondition
  <2>3. /\ ~condition.changed' /\ In(condition, {"new", "held", "cleared"})' = {} /\ In(condition, {"cleared"})' = {}
        /\ In(condition, {"new"})' = {} /\ In(condition, {"new", "cleared"})' = {}
    BY <2>1, <2>2, NoConditionLaw
  <2>. QED  BY <2>3 DEF ConditionFlags
<1>2. CASE program' # "server"
  <2>0. condition \in Conditions
    BY DEF TypeOK, AdapterTypeOK, Conditions
  <2>1. /\ program' = program
        /\ \A g, h \in Gatherers : at[g] # "idle" /\ at[h] # "idle" => g = h
        /\ \A g, h \in Gatherers : at'[g] # "idle" /\ at'[h] # "idle" => g = h
    <3>1. program' = program
      BY NextCases, TopicStepLaw, ConversionLaw, FunctionLaw DEF FunctionStep, users
    <3>2. \A g, h \in Gatherers : at[g] # "idle" /\ at[h] # "idle" => g = h
      BY <1>2, <3>1, ThreadsLaw DEF Kept, TypeOK
    <3>3. \A g, h \in Gatherers : at'[g] # "idle" /\ at'[h] # "idle" => g = h
      BY <1>2, ThreadsLaw DEF Kept, TypeOK
    <3>. QED  BY <3>1, <3>2, <3>3
  <2>2. ASSUME NEW t \in Gatherers, TopicStep(t)
        PROVE  ConditionFlags'
    BY <2>2, TopicStepLaw DEF ConditionFlags, adapter, Gathering
  <2>3. ASSUME NEW g \in Gatherers, GatherStep(g)
        PROVE  ConditionFlags'
    <3>1. CASE BeginGather(g)
      <4>1. /\ at[g] = "idle" /\ at'[g] = "begun" /\ condition' = BeginCondition(condition, kind)
            /\ \A h \in Gatherers : h # g => at'[h] = "idle" /\ at[h] = "idle"
        BY <2>1, <3>1, GatherMoves
      <4>2. ~condition.changed /\ (~condition.value => In(condition, {"new", "held", "cleared"}) = {})
        BY <4>1 DEF ConditionFlags
      <4>3. /\ ~condition.changed' /\ In(condition, {"new"})' = {}
            /\ ~condition.value' => In(condition', {"new", "held", "cleared"}) = {}
        BY <2>0, <4>1, <4>2, BegunLaw
      <4>. QED  BY <4>1, <4>3 DEF ConditionFlags, Gathering
    <3>2. CASE Complete(g)
      <4>1. /\ at[g] = "changed" /\ at'[g] = "events" /\ condition' = CompleteCondition(condition)
            /\ \A h \in Gatherers : h # g => at'[h] = "idle" /\ at[h] = "idle"
        BY <2>1, <3>2, GatherMoves
      <4>2. /\ In(condition, {"new"}) = {} \/ condition.changed
            /\ ~condition.value => In(condition, {"new", "held", "cleared"}) = {}
        BY <4>1 DEF ConditionFlags
      <4>3. /\ condition.value' = condition.value
            /\ \A states : In(condition, states)' = In(condition, states)
            /\ In(condition, {"new", "cleared"})' = {} \/ condition.changed'
        BY <2>0, <4>1, <4>2, CompletedLaw
      <4>. QED  BY <4>1, <4>2, <4>3 DEF ConditionFlags, Gathering
    <3>3. CASE Sweep(g)
      <4>1. /\ at[g] = "condition" /\ at'[g] = "idle" /\ condition' = SweepCondition(condition)
            /\ \A h \in Gatherers : h # g => at'[h] = "idle"
        BY <2>1, <3>3, GatherMoves
      <4>2. ~condition.value => In(condition, {"new", "held", "cleared"}) = {}
        BY DEF ConditionFlags
      <4>3. /\ ~condition.changed' /\ In(condition, {"cleared"})' = {}
            /\ ~condition.value' => In(condition', {"new", "held", "cleared"}) = {}
        BY <2>0, <4>1, <4>2, SweptLaw
      <4>. QED  BY <4>1, <4>3 DEF ConditionFlags
    <3>. QED  BY <2>3, <3>1, <3>2, <3>3 DEF GatherStep
  <2>4. ASSUME NEW g \in Gatherers, FunctionStep(g)
        PROVE  ConditionFlags'
    <3>1. Change(g, events', condition') /\ Reports
      BY <2>4, ConversionLaw, FunctionLaw DEF FunctionStep
    <3>2. /\ at[g] = "begun" /\ at'[g] = "changed"
          /\ \A h \in Gatherers : h # g => at'[h] = "idle" /\ at[h] = "idle"
      BY <2>1, <3>1, GatherMoves
    <3>3. /\ ~condition.changed /\ In(condition, {"new"}) = {}
          /\ ~condition.value => In(condition, {"new", "held", "cleared"}) = {}
      BY <3>2 DEF ConditionFlags
    <3>4. /\ ~condition.value' => In(condition', {"new", "held", "cleared"}) = {}
          /\ In(condition', {"new"}) = {} \/ condition.changed'
      BY <2>0, <3>1, <3>3, ReportsLaw
    <3>. QED  BY <3>2, <3>4 DEF ConditionFlags, Gathering
  <2>5. ASSUME NEW p \in Threads, SendStep(p)
        PROVE  ConditionFlags'
    <3>1. /\ UNCHANGED condition /\ at[p] \in {"events", "condition"} /\ at'[p] \in {"events", "condition"}
          /\ (at'[p] = "events" => at[p] = "events") /\ \A h \in Gatherers : h # p => at'[h] = at[h]
      BY <2>5, SendMoves DEF items
    <3>2. Gathering' = Gathering
      BY <3>1 DEF Gathering
    <3>. QED  BY <3>1, <3>2 DEF ConditionFlags
  <2>6. ASSUME NEW c \in Clients, ClientNext(c)
        PROVE  ConditionFlags'
    BY <2>6, ConnectionMoves DEF ConditionFlags, items, Gathering
  <2>. QED  BY <2>2, <2>3, <2>4, <2>5, <2>6, NextCases, Zenon
<1>. QED  BY <1>1, <1>2

\* A client of which no history is kept was not torn before, and sees one gather at most.
LEMMA AloneStep ==
  ASSUME TypeOK, Next, TypeOK', Kept', NEW c \in Clients
  PROVE  /\ Alone(c)'
         /\ ~torn'[c] /\ at'[c] # "idle" => ~torn[c]
<1>1. program' = program
  BY NextCases, TopicStepLaw, ConversionLaw, FunctionLaw DEF FunctionStep, users
<1>2. ~torn'[c] /\ at'[c] # "idle" =>
        /\ ~torn[c]
        /\ Connecting(c)' => Gathering' = {}
        /\ program = "server" => ~(Cardinality(Gathering') > 1)
  BY NextCases, TearsLaw
<1>3. ASSUME ~(Cardinality(Gathering') > 1), NEW g \in Gathering', NEW h \in Gathering'
      PROVE  g = h
  <2>. SUFFICES ASSUME g # h PROVE FALSE
    OBVIOUS
  <2>1. Gathering' \subseteq {"states", "spindle"}
    BY ThreadsLaw DEF Gathering
  <2>2. Gathering' = {g} \cup {h}
    BY <2>1
  <2>3. IsFiniteSet({g}) /\ Cardinality({g}) = 1
    BY FS_Singleton
  <2>4. Cardinality({g} \cup {h}) = 2
    BY <2>3, FS_AddElement
  <2>. QED  BY <1>3, <2>2, <2>4
<1>4. program' # "server" => \A g, h \in Gathering' : g = h
  <2>1. ASSUME program' # "server", NEW g \in Gathering', NEW h \in Gathering'
        PROVE  g = h
    BY <2>1, ThreadsLaw DEF TypeOK, Kept, Gathering
  <2>. QED  BY <2>1
<1>. QED  BY <1>1, <1>2, <1>3, <1>4 DEF Alone

-----------------------------------------------------------------------------
(* What the clients know                                                    *)

\* A client that a step does not touch knows what it knew.
LEMMA Untouched ==
  ASSUME NEW c \in Clients, KnowsIt(c), Reached(c)' => Reached(c), UNCHANGED <<events, condition>>,
         view'[c] = view[c], at'[c] = at[c], LinesFor(out'[c], c) = LinesFor(out[c], c),
         \A g \in Gatherers : /\ at'[g] = at[g] /\ to'[g] = to[g]
                             /\ LinesFor(out'[g], c) = LinesFor(out[g], c)
  PROVE  KnowsIt(c)'
<1>1. Gathering' = Gathering
  BY DEF Gathering
<1>. SUFFICES ASSUME Reached(c)'
              PROVE  Connected(c)' /\ (at'[c] = "heartbeat" => Follows(c)')
  BY DEF KnowsIt
<1>2. Connected(c) /\ (at[c] = "heartbeat" => Follows(c))
  BY DEF KnowsIt
<1>3. Connected(c)'
  <2>1. CASE at'[c] = "events"
    BY <1>2, <2>1 DEF Connected, EventsDue
  <2>2. CASE at'[c] = "condition"
    BY <1>2, <2>2 DEF Connected, Knows, ConditionDue, CodesDue
  <2>. QED  BY <1>2, <2>1, <2>2 DEF Connected
<1>4. ASSUME at'[c] = "heartbeat"
      PROVE  Follows(c)'
  <2>1. Follows(c)
    BY <1>2, <1>4
  <2>2. Gathering' = {} => Knows(view[c].events)' /\ view'[c].condition = Actual(condition')
    BY <1>1, <2>1 DEF Follows, Knows
  <2>3. ASSUME NEW g \in Gatherers
        PROVE  /\ at'[g] = "begun" => Knows(view[c].events)' /\ Before(view[c].condition)'
               /\ at'[g] = "changed" =>
                    Before(view[c].condition)' /\ \A e \in Events : view'[c].events[e] = events'[e].value \/ events'[e].changed
               /\ at'[g] = "events" =>
                    c \in to'[g] /\ EventsDue(view[c].events, LinesFor(out[g], c))' /\ Before(view[c].condition)'
               /\ at'[g] = "condition" =>
                    c \in to'[g] /\ Knows(view[c].events)' /\ ConditionDue(view[c].condition, LinesFor(out[g], c))'
    <3>1. CASE at'[g] = "begun"
      BY <2>1, <3>1 DEF Follows, Knows, Before
    <3>2. CASE at'[g] = "changed"
      BY <2>1, <3>2 DEF Follows, Before
    <3>3. CASE at'[g] = "events"
      BY <2>1, <3>3 DEF Follows, EventsDue, Before
    <3>4. CASE at'[g] = "condition"
      BY <2>1, <3>4 DEF Follows, Knows, ConditionDue, CodesDue
    <3>. QED  BY <3>1, <3>2, <3>3, <3>4
  <2>. QED  BY <2>2, <2>3 DEF Follows
<1>. QED  BY <1>3, <1>4

\* A client that can be reached while a gather makes a step has its first values, and there
\* is no other gather.
LEMMA Partner ==
  ASSUME TypeOK, AtPlaces, Next, TypeOK', Kept', NEW c \in Clients, Alone(c),
         Reached(c)', NEW g \in Gatherers, at'[c] = at[c], UNCHANGED <<clients, peer>>,
         at[g] # "idle" \/ at'[g] # "idle"
  PROVE  /\ Reached(c) /\ at[c] = "heartbeat"
         /\ \A h \in Gatherers : h # g /\ at'[h] = at[h] => at[h] = "idle" /\ at'[h] = "idle"
<1>1. c \in Threads /\ at[c] # "idle" /\ at[c] \in {"initial", "events", "condition", "heartbeat"}
  BY ThreadsLaw DEF AtPlaces, ClientAt, Reached
<1>2. Alone(c)' /\ ~torn[c] /\ Reached(c)
  BY <1>1, AloneStep DEF Reached
<1>3. ~torn'[c]
  BY DEF Reached
<1>4. CASE at[g] # "idle"
  <2>1. g \in Gathering
    BY <1>4 DEF Gathering
  <2>2. (\A h \in Gathering : h = g) /\ ~Connecting(c)
    BY <1>1, <1>2, <2>1 DEF Alone
  <2>. QED  BY <1>1, <1>2, <2>2 DEF Gathering, Connecting
<1>5. CASE at'[g] # "idle"
  <2>1. g \in Gathering'
    BY <1>5 DEF Gathering
  <2>2. (\A h \in Gathering' : h = g) /\ ~Connecting(c)'
    BY <1>1, <1>2, <1>3, <2>1 DEF Alone
  <2>. QED  BY <1>1, <1>2, <2>2 DEF Gathering, Connecting
<1>. QED  BY <1>4, <1>5

\* A gather begins: a client knows all that there was.
LEMMA BeginKnows ==
  ASSUME IInv, Next, TypeOK', Kept', NEW c \in Clients, NEW g \in Gatherers, BeginGather(g)
  PROVE  KnowsIt(c)'
<1>. SUFFICES ASSUME Reached(c)'
              PROVE  Connected(c)' /\ (at'[c] = "heartbeat" => Follows(c)')
  BY DEF KnowsIt
<1>1. condition \in Conditions /\ at \in [Threads -> Places] /\ g \in Threads /\ c \in Threads /\ c # g
  BY ThreadsLaw DEF IInv, TypeOK, AdapterTypeOK, Conditions
<1>2. /\ at[g] = "idle" /\ at' = [at EXCEPT ![g] = "begun"] /\ condition' = BeginCondition(condition, kind)
      /\ UNCHANGED <<events, clients, peer, view>>
  BY DEF BeginGather, Begin
<1>3. at'[c] = at[c] /\ at'[g] = "begun" /\ \A h \in Gatherers : h # g => at'[h] = at[h]
  BY <1>1, <1>2
<1>4. Reached(c) /\ at[c] = "heartbeat" /\ \A h \in Gatherers : h # g => at[h] = "idle" /\ at'[h] = "idle"
  BY <1>2, <1>3, Partner DEF IInv
<1>5. Gathering = {} /\ Gathering' # {}
  BY <1>2, <1>3, <1>4 DEF Gathering
<1>6. Knows(view[c].events) /\ view[c].condition = Actual(condition)
  BY <1>4, <1>5 DEF IInv, KnowsIt, Follows
<1>7. PICK known : known = view[c].condition
  OBVIOUS
<1>8. Before(known)'
  BY <1>1, <1>2, <1>5, <1>6, <1>7, BegunBefore DEF IInv, ConditionFlags
<1>9. Before(view[c].condition)' /\ Knows(view[c].events)'
  BY <1>2, <1>6, <1>7, <1>8 DEF Before, Knows
<1>10. Connected(c)'
  BY <1>3, <1>4 DEF Connected
<1>11. Follows(c)'
  BY <1>3, <1>4, <1>5, <1>9 DEF Follows
<1>. QED  BY <1>10, <1>11

\* The function of a gather: what it sets is marked.
LEMMA ChangeKnows ==
  ASSUME IInv, Next, TypeOK', Kept', NEW c \in Clients, NEW g \in Gatherers,
         Change(g, events', condition'), Sets(events'), Reports
  PROVE  KnowsIt(c)'
<1>. SUFFICES ASSUME Reached(c)'
              PROVE  Connected(c)' /\ (at'[c] = "heartbeat" => Follows(c)')
  BY DEF KnowsIt
<1>1. condition \in Conditions /\ at \in [Threads -> Places] /\ g \in Threads /\ c \in Threads /\ c # g
  BY ThreadsLaw DEF IInv, TypeOK, AdapterTypeOK, Conditions
<1>2. /\ at[g] = "begun" /\ at' = [at EXCEPT ![g] = "changed"]
      /\ UNCHANGED <<clients, peer, view>>
  BY DEF Change
<1>3. at'[c] = at[c] /\ at'[g] = "changed" /\ \A h \in Gatherers : h # g => at'[h] = at[h]
  BY <1>1, <1>2
<1>4. Reached(c) /\ at[c] = "heartbeat" /\ \A h \in Gatherers : h # g => at[h] = "idle" /\ at'[h] = "idle"
  BY <1>2, <1>3, Partner DEF IInv
<1>5. Gathering' # {}
  BY <1>3 DEF Gathering
<1>6. Knows(view[c].events) /\ Before(view[c].condition)
  BY <1>2, <1>4 DEF IInv, KnowsIt, Follows
<1>7. PICK known : known = view[c].condition
  OBVIOUS
<1>8. Before(known)'
  <2>1. Before(known)
    BY <1>6, <1>7
  <2>2. ~condition.changed /\ In(condition, {"new"}) = {} /\ (~condition.value => In(condition, {"new", "held", "cleared"}) = {})
    BY <1>2, <1>4 DEF IInv, ConditionFlags
  <2>. QED  BY <1>1, <2>1, <2>2, ReportsLaw
<1>9. Before(view[c].condition)'
  BY <1>2, <1>7, <1>8
<1>10. \A e \in Events : view'[c].events[e] = events'[e].value \/ events'[e].changed
  <2>. TAKE e \in Events
  <2>1. view'[c].events[e] = events[e].value
    BY <1>2, <1>6 DEF Knows
  <2>2. events'[e] = events[e] \/ events'[e].changed = TRUE
    BY DEF Sets, SetValue, IInv, TypeOK, AdapterTypeOK
  <2>. QED  BY <2>1, <2>2
<1>11. Connected(c)'
  BY <1>3, <1>4 DEF Connected
<1>12. Follows(c)'
  BY <1>3, <1>4, <1>5, <1>9, <1>10 DEF Follows
<1>. QED  BY <1>11, <1>12

\* A gather is complete: the line of the events that are marked goes out to all clients.
LEMMA CompleteKnows ==
  ASSUME IInv, Next, TypeOK', Kept', NEW c \in Clients, NEW g \in Gatherers, Complete(g)
  PROVE  KnowsIt(c)'
<1>. SUFFICES ASSUME Reached(c)'
              PROVE  Connected(c)' /\ (at'[c] = "heartbeat" => Follows(c)')
  BY DEF KnowsIt
<1>1. /\ condition \in Conditions /\ at \in [Threads -> Places] /\ g \in Threads /\ c \in Threads /\ c # g
      /\ clients \in SUBSET Clients
      /\ events \in [Events -> [value : Values, changed : BOOLEAN]]
      /\ out \in [Threads -> Seq(Outgoing)] /\ to \in [Threads -> SUBSET Clients]
  BY ThreadsLaw DEF IInv, TypeOK, AdapterTypeOK, Conditions
<1>2. /\ at[g] = "changed" /\ at' = [at EXCEPT ![g] = "events"] /\ condition' = CompleteCondition(condition)
      /\ to'[g] = clients /\ out'[g] = ToEach(EventsText(FALSE), clients)
      /\ UNCHANGED <<events, clients, peer, view>>
  BY <1>1 DEF Complete
<1>3. at'[c] = at[c] /\ at'[g] = "events" /\ \A h \in Gatherers : h # g => at'[h] = at[h]
  BY <1>1, <1>2
<1>4. Reached(c) /\ at[c] = "heartbeat" /\ \A h \in Gatherers : h # g => at[h] = "idle" /\ at'[h] = "idle"
  BY <1>2, <1>3, Partner DEF IInv
<1>5. Gathering' # {} /\ c \in clients
  BY <1>3, <1>4 DEF Gathering, Reached
<1>6. Before(view[c].condition) /\ \A e \in Events : view[c].events[e] = events[e].value \/ events[e].changed
  BY <1>2, <1>4 DEF IInv, KnowsIt, Follows
<1>7. PICK known, evs : known = view[c].condition /\ evs = view[c].events
  OBVIOUS
<1>8. Before(known)'
  <2>1. Before(known)
    BY <1>6, <1>7
  <2>2. In(condition, {"new"}) = {} \/ condition.changed
    BY <1>2 DEF IInv, ConditionFlags
  <2>. QED  BY <1>1, <1>2, <2>1, <2>2, CompletedLaw
<1>9. EventsDue(evs, LinesFor(out'[g], c))
  <2>1. EventsText(FALSE) \in Seq(ConditionLines \cup EventLines)
    BY <1>1, EventsTextLaw
  <2>2. LinesFor(out'[g], c) = {EventsText(FALSE)[n] : n \in 1..Len(EventsText(FALSE))}
    BY <1>1, <1>2, <1>5, <2>1, ToEachLaw
  <2>3. \A e \in Events : evs[e] = events[e].value \/ events[e].changed
    BY <1>6, <1>7
  <2>4. EventsDue(evs, {EventsText(FALSE)[n] : n \in 1..Len(EventsText(FALSE))})
    BY <1>1, <2>3, TextDue
  <2>. QED  BY <2>2, <2>4
<1>10. Before(view[c].condition)' /\ EventsDue(view[c].events, LinesFor(out[g], c))'
  BY <1>2, <1>7, <1>8, <1>9 DEF EventsDue
<1>11. Connected(c)'
  BY <1>3, <1>4 DEF Connected
<1>12. Follows(c)'
  BY <1>2, <1>3, <1>4, <1>5, <1>10 DEF Follows
<1>. QED  BY <1>11, <1>12

\* The sweep takes nothing away of what a client has been told.
LEMMA SweepKnows ==
  ASSUME IInv, Next, TypeOK', Kept', NEW c \in Clients, NEW g \in Gatherers, Sweep(g)
  PROVE  KnowsIt(c)'
<1>. SUFFICES ASSUME Reached(c)', at'[c] # "idle"
              PROVE  Connected(c)' /\ (at'[c] = "heartbeat" => Follows(c)')
  BY DEF KnowsIt, Connected
<1>1. /\ condition \in Conditions /\ at \in [Threads -> Places] /\ g \in Threads /\ c \in Threads /\ c # g
      /\ view[c].condition \in SUBSET (Codes \cup {Unavailable})
  BY ThreadsLaw DEF IInv, TypeOK, AdapterTypeOK, Conditions
<1>2. /\ at[g] = "condition" /\ at' = [at EXCEPT ![g] = "idle"] /\ condition' = SweepCondition(condition)
      /\ out[g] = << >> /\ \A e \in Events : events'[e].value = events[e].value
      /\ UNCHANGED <<clients, peer, view>>
  BY DEF Sweep, SweepEvent, IInv, TypeOK, AdapterTypeOK
<1>3. at'[c] = at[c] /\ at'[g] = "idle" /\ \A h \in Gatherers : h # g => at'[h] = at[h]
  BY <1>1, <1>2
<1>4. Reached(c) /\ at[c] = "heartbeat" /\ \A h \in Gatherers : at'[h] = "idle"
  BY <1>2, <1>3, Partner DEF IInv
<1>5. Knows(view[c].events) /\ ConditionDue(view[c].condition, {})
  <2>1. LinesFor(<< >>, c) = {}
    BY EmptySeq DEF LinesFor
  <2>. QED  BY <1>2, <1>4, <2>1 DEF IInv, KnowsIt, Follows
<1>6. view[c].condition = Actual(condition)
  BY <1>1, <1>5, NothingComing
<1>7. Actual(condition)' = Actual(condition)
  BY <1>1, <1>2, SweptLaw DEF IInv, ConditionFlags
<1>8. Knows(view[c].events)' /\ view'[c].condition = Actual(condition')
  BY <1>2, <1>5, <1>6, <1>7 DEF Knows
<1>9. Connected(c)'
  BY <1>3, <1>4 DEF Connected
<1>10. Follows(c)'
  BY <1>4, <1>8 DEF Follows
<1>. QED  BY <1>9, <1>10


\* What of the condition goes out, goes to each client it is for.
LEMMA ConditionSent ==
  ASSUME condition \in Conditions, NEW all \in BOOLEAN, NEW cs \in SUBSET Clients, NEW c \in cs
  PROVE  LinesFor(ToEach(Lines(condition, all), cs), c) = {Lines(condition, all)[n] : n \in 1..Len(Lines(condition, all))}
<1>. DEFINE lines == Lines(condition, all)
<1>1. lines \in Seq(ConditionLines)
  BY LinesLaw
<1>2. lines \in Seq(ConditionLines \cup EventLines)
  BY <1>1, SeqMonotonic
<1>. HIDE DEF lines
<1>3. LinesFor(ToEach(lines, cs), c) = {lines[n] : n \in 1..Len(lines)}
  BY <1>2, ToEachLaw
<1>. QED  BY <1>3 DEF lines

\* A gather looks at the condition: what a client is still to be told of it goes out.
LEMMA GatherSendsCondition ==
  ASSUME IInv, Next, TypeOK', Kept', NEW c \in Clients, NEW g \in Gatherers, SendCondition(g)
  PROVE  KnowsIt(c)'
<1>. SUFFICES ASSUME Reached(c)'
              PROVE  Connected(c)' /\ (at'[c] = "heartbeat" => Follows(c)')
  BY DEF KnowsIt
<1>1. /\ condition \in Conditions /\ at \in [Threads -> Places] /\ g \in Threads /\ g \notin Clients /\ c \in Threads /\ c # g
      /\ out \in [Threads -> Seq(Outgoing)] /\ to \in [Threads -> SUBSET Clients]
  BY ThreadsLaw DEF IInv, TypeOK, AdapterTypeOK, Conditions
<1>2. /\ at[g] = "events" /\ out[g] = << >> /\ at' = [at EXCEPT ![g] = "condition"]
      /\ out'[g] = IF condition.changed THEN ToEach(Lines(condition, FALSE), to[g]) ELSE << >>
      /\ UNCHANGED <<events, condition, clients, peer, view, to>>
  <2>1. (g \in Clients) = FALSE
    BY <1>1
  <2>2. out' = [out EXCEPT ![g] = IF condition.changed THEN ToEach(Lines(condition, FALSE), to[g]) ELSE << >>]
    BY <2>1 DEF SendCondition
  <2>. QED  BY <1>1, <2>2 DEF SendCondition, items
<1>3. at'[c] = at[c] /\ at'[g] = "condition" /\ \A h \in Gatherers : h # g => at'[h] = at[h]
  BY <1>1, <1>2
<1>4. Reached(c) /\ at[c] = "heartbeat" /\ \A h \in Gatherers : h # g => at[h] = "idle" /\ at'[h] = "idle"
  BY <1>2, <1>3, Partner DEF IInv
<1>5. Gathering' # {}
  BY <1>3 DEF Gathering
<1>6. LinesFor(<< >>, c) = {}
  BY EmptySeq DEF LinesFor
<1>7. PICK known : known = view[c].condition
  OBVIOUS
<1>8. c \in to[g] /\ Knows(view[c].events) /\ Before(known)
  BY <1>2, <1>4, <1>6, <1>7, NoEventsComing DEF IInv, KnowsIt, Follows
<1>9. ConditionDue(known, LinesFor(out'[g], c))
  <2>1. CASE condition.changed
    <3>1. LinesFor(ToEach(Lines(condition, FALSE), to[g]), c)
            = {Lines(condition, FALSE)[n] : n \in 1..Len(Lines(condition, FALSE))}
      BY <1>1, <1>8, ConditionSent
    <3>. QED  BY <1>1, <1>2, <1>8, <2>1, <3>1, LinesDue
  <2>2. CASE ~condition.changed
    <3>1. In(condition, {"new", "cleared"}) = {}
      BY <1>2, <2>2 DEF IInv, ConditionFlags
    <3>. QED  BY <1>1, <1>2, <1>6, <1>8, <2>2, <3>1, NothingDue
  <2>. QED  BY <2>1, <2>2
<1>10. Knows(view[c].events)' /\ ConditionDue(view[c].condition, LinesFor(out[g], c))'
  BY <1>2, <1>7, <1>8, <1>9 DEF Knows, ConditionDue, CodesDue
<1>11. Connected(c)'
  BY <1>3, <1>4 DEF Connected
<1>12. Follows(c)'
  BY <1>2, <1>3, <1>4, <1>5, <1>8, <1>10 DEF Follows
<1>. QED  BY <1>11, <1>12

\* A step of another client's thread changes nothing that is for this one.
LEMMA OthersThread ==
  ASSUME IInv, Next, TypeOK', Kept', NEW c \in Clients,
         UNCHANGED items, c \in clients' => c \in clients, peer'[c] = peer[c], view'[c] = view[c],
         at'[c] = at[c], out'[c] = out[c],
         \A g \in Gatherers : at'[g] = at[g] /\ to'[g] = to[g] /\ LinesFor(out'[g], c) = LinesFor(out[g], c)
  PROVE  KnowsIt(c)'
<1>1. ClientAt(c) /\ c \in Threads
  BY ThreadsLaw DEF IInv, AtPlaces
<1>2. Reached(c)' => Reached(c)
  BY <1>1, AloneStep DEF Reached, ClientAt, IInv
<1>. QED  BY <1>2, Untouched DEF IInv, items

\* The first values of a client: a line for each active code.
LEMMA ClientSendsCondition ==
  ASSUME IInv, Next, TypeOK', Kept', NEW c \in Clients, SendCondition(c)
  PROVE  \A d \in Clients : KnowsIt(d)'
<1>1. /\ condition \in Conditions /\ at \in [Threads -> Places] /\ c \in Threads
      /\ out \in [Threads -> Seq(Outgoing)] /\ to \in [Threads -> SUBSET Clients]
      /\ \A d \in Clients : d \in Threads
      /\ \A g \in Gatherers : g \in Threads /\ g # c
  BY ThreadsLaw DEF IInv, TypeOK, AdapterTypeOK, Conditions
<1>2. /\ at[c] = "events" /\ out[c] = << >> /\ at' = [at EXCEPT ![c] = "condition"]
      /\ out'[c] = ToEach(Lines(condition, TRUE), to[c])
      /\ \A p \in Threads : p # c => out'[p] = out[p] /\ at'[p] = at[p]
      /\ UNCHANGED <<items, events, condition, clients, peer, view, to>>
  BY <1>1 DEF SendCondition, items
<1>3. ASSUME NEW d \in Clients, d # c
      PROVE  KnowsIt(d)'
  BY <1>1, <1>2, <1>3, OthersThread
<1>4. KnowsIt(c)'
  <2>. SUFFICES ASSUME Reached(c)'
                PROVE  Connected(c)' /\ at'[c] # "heartbeat"
    BY DEF KnowsIt
  <2>1. at'[c] = "condition"
    BY <1>1, <1>2
  <2>2. Reached(c)
    BY <1>2, <2>1, AloneStep DEF Reached, IInv
  <2>3. Gathering = {} /\ to[c] = {c}
    BY <1>2, <2>2 DEF IInv, Alone, Connecting, Reached, AtPlaces, ClientAt
  <2>4. In(condition, {"cleared"}) = {}
    BY <2>3 DEF IInv, ConditionFlags
  <2>5. LinesFor(<< >>, c) = {}
    BY EmptySeq DEF LinesFor
  <2>6. PICK known : known = view[c].condition
    OBVIOUS
  <2>7. Knows(view[c].events) /\ known = {Unavailable}
    BY <1>2, <2>2, <2>5, <2>6, NoEventsComing DEF IInv, KnowsIt, Connected
  <2>9. LinesFor(out'[c], c) = {Lines(condition, TRUE)[n] : n \in 1..Len(Lines(condition, TRUE))}
    BY <1>1, <1>2, <2>3, ConditionSent
  <2>10. ConditionDue(known, LinesFor(out'[c], c))
    BY <1>1, <2>4, <2>7, <2>9, FirstLinesDue
  <2>11. Knows(view[c].events)' /\ ConditionDue(view[c].condition, LinesFor(out[c], c))'
    BY <1>2, <2>6, <2>7, <2>10 DEF Knows, ConditionDue, CodesDue
  <2>. QED  BY <2>1, <2>11 DEF Connected
<1>. QED  BY <1>3, <1>4

\* A line that has come is one less to come.
LEMMA LineLearnt ==
  ASSUME NEW known \in [events : [Events -> Values], condition : SUBSET (Codes \cup {Unavailable})],
         NEW coming, NEW rest, NEW line, coming = rest \cup {line}, condition \in Conditions
  PROVE  /\ EventsDue(known.events, coming) =>
              EventsDue(Learnt(known, line).events, rest) /\ Learnt(known, line).condition = known.condition
         /\ ConditionDue(known.condition, coming) =>
              ConditionDue(Learnt(known, line).condition, rest) /\ Learnt(known, line).events = known.events
<1>1. known.events \in [Events -> Values] /\ known.condition \in SUBSET (Codes \cup {Unavailable})
  OBVIOUS
<1>2. ASSUME EventsDue(known.events, coming)
      PROVE  EventsDue(Learnt(known, line).events, rest) /\ Learnt(known, line).condition = known.condition
  <2>1. line \in EventLines /\ EventsDue(LearntEvents(known.events, line), rest)
    BY <1>1, <1>2, EventsLearnt
  <2>2. ~OfCondition(line)
    BY <2>1, KindOfLine
  <2>3. Learnt(known, line).events = LearntEvents(known.events, line) /\ Learnt(known, line).condition = known.condition
    BY <2>2 DEF Learnt, LearntEvents
  <2>. QED  BY <2>1, <2>3
<1>3. ASSUME ConditionDue(known.condition, coming)
      PROVE  ConditionDue(Learnt(known, line).condition, rest) /\ Learnt(known, line).events = known.events
  <2>1. line \in ConditionLines /\ ConditionDue(Told(known.condition, line), rest)
    BY <1>1, <1>3, ConditionLearnt
  <2>2. OfCondition(line)
    BY <2>1, KindOfLine
  <2>3. Learnt(known, line).condition = Told(known.condition, line) /\ Learnt(known, line).events = known.events
    BY <2>2 DEF Learnt
  <2>. QED  BY <2>1, <2>3
<1>. QED  BY <1>2, <1>3

\* A line goes to a client, from a gather or from the client's own thread.
LEMMA SendLineKnows ==
  ASSUME IInv, Next, TypeOK', Kept', NEW p \in Threads, SendLine(p)
  PROVE  \A d \in Clients : KnowsIt(d)'
<1>1. /\ condition \in Conditions /\ at \in [Threads -> Places]
      /\ out \in [Threads -> Seq(Outgoing)] /\ to \in [Threads -> SUBSET Clients]
      /\ view \in [Clients -> [events : [Events -> Values], condition : SUBSET (Codes \cup {Unavailable})]]
      /\ \A d \in Clients : d \in Threads /\ d \notin Gatherers
      /\ \A g \in Gatherers : g \in Threads
      /\ p \in Gatherers \/ p \in Clients
      /\ TypeOK /\ AtPlaces
  BY ThreadsLaw DEF IInv, TypeOK, AdapterTypeOK, Conditions, Threads
<1>2. PICK c \in Head(out[p]).left : c \in Clients /\ c \in to[p] /\ SentTo(p, c)
  BY <1>1, SendLineLaw
<1>3. /\ out[p] # << >> /\ \A q \in Threads : q # p => out'[q] = out[q]
      /\ out'[p] = Sent(out[p], c)
      /\ UNCHANGED <<items, events, condition, peer, at, to>>
  BY <1>1, <1>2, SendLineLaw DEF SentTo, items
<1>4. /\ \A d : d # c => LinesFor(out'[p], d) = LinesFor(out[p], d)
      /\ LinesFor(out[p], c) = LinesFor(out'[p], c) \cup {Head(out[p]).line}
  <2>1. out[p] \in Seq(Outgoing) /\ out[p] # << >> /\ \A n \in 1..Len(out[p]) : out[p][n].left # {}
    BY <1>1, SendLineLaw
  <2>2. PICK q : q = out[p]
    OBVIOUS
  <2>3. /\ \A d : d # c => LinesFor(Sent(q, c), d) = LinesFor(q, d)
        /\ LinesFor(q, c) = LinesFor(Sent(q, c), c) \cup {Head(q).line}
    <3>1. q \in Seq(Outgoing) /\ q # << >> /\ c \in Head(q).left /\ \A n \in 1..Len(q) : q[n].left # {}
      BY <1>2, <2>1, <2>2
    <3>. QED  BY <3>1, SentLaw
  <2>. QED  BY <1>3, <2>2, <2>3
<1>5. p \in Clients => p = c /\ at[p] \in {"events", "condition"}
  BY <1>1, <1>2, <1>3 DEF AtPlaces, ClientAt
<1>6. p \in Gatherers => at[p] \in {"events", "condition"}
  BY <1>1, <1>3 DEF AtPlaces, GatherAt
<1>7. ASSUME NEW d \in Clients, d # c
      PROVE  KnowsIt(d)'
  <2>1. d # p
    BY <1>5, <1>7
  <2>2. view'[d] = view[d] /\ (d \in clients' => d \in clients)
    BY <1>1, <1>2, <1>7 DEF SentTo
  <2>3. \A g \in Gatherers : LinesFor(out'[g], d) = LinesFor(out[g], d)
    BY <1>1, <1>3, <1>4, <1>7
  <2>. QED  BY <1>1, <1>3, <2>1, <2>2, <2>3, OthersThread
<1>8. KnowsIt(c)'
  <2>. SUFFICES ASSUME Reached(c)'
                PROVE  Connected(c)' /\ (at'[c] = "heartbeat" => Follows(c)')
    BY DEF KnowsIt
  <2>1. c \in clients /\ peer[c] = "up" /\ UNCHANGED clients /\ view'[c] = Learnt(view[c], Head(out[p]).line)
    BY <1>1, <1>2, <1>3 DEF SentTo, Reached
  <2>2. at[c] # "idle" /\ Reached(c)
    BY <1>2, <1>3, <2>1, AloneStep DEF IInv, AtPlaces, ClientAt, Reached
  <2>3. PICK known, line, coming, rest :
          /\ known = view[c] /\ line = Head(out[p]).line /\ coming = LinesFor(out[p], c) /\ rest = LinesFor(out'[p], c)
    OBVIOUS
  <2>4. known \in [events : [Events -> Values], condition : SUBSET (Codes \cup {Unavailable})] /\ coming = rest \cup {line}
    BY <1>1, <1>2, <1>4, <2>3
  <2>5. /\ EventsDue(known.events, coming) =>
             EventsDue(Learnt(known, line).events, rest) /\ Learnt(known, line).condition = known.condition
        /\ ConditionDue(known.condition, coming) =>
             ConditionDue(Learnt(known, line).condition, rest) /\ Learnt(known, line).events = known.events
    <3>1. condition \in Conditions
      BY <1>1
    <3>. QED  BY <2>4, <3>1, LineLearnt
  <2>6. /\ EventsDue(view[c].events, LinesFor(out[p], c)) =>
             EventsDue(view[c].events, LinesFor(out[p], c))' /\ view'[c].condition = view[c].condition
        /\ ConditionDue(view[c].condition, LinesFor(out[p], c)) =>
             ConditionDue(view[c].condition, LinesFor(out[p], c))' /\ view'[c].events = view[c].events
    BY <1>3, <2>1, <2>3, <2>5 DEF EventsDue, ConditionDue, CodesDue
  <2>7. CASE p \in Clients
    <3>1. p = c /\ at'[c] \in {"events", "condition"} /\ Connected(c)
      BY <1>3, <1>5, <2>2, <2>7 DEF IInv, KnowsIt
    <3>2. CASE at[c] = "events"
      BY <1>3, <2>6, <3>1, <3>2 DEF Connected
    <3>3. CASE at[c] = "condition"
      BY <1>3, <2>6, <3>1, <3>3 DEF Connected, Knows
    <3>. QED  BY <1>5, <2>7, <3>1, <3>2, <3>3
  <2>8. CASE p \in Gatherers
    <3>1. at[c] = "heartbeat" /\ \A h \in Gatherers : h # p => at[h] = "idle" /\ at'[h] = "idle"
      BY <1>2, <1>3, <1>6, <2>1, <2>8, Partner DEF IInv
    <3>2. Follows(c) /\ Gathering' # {}
      <4>1. Follows(c)
        BY <1>2, <2>2, <3>1 DEF IInv, KnowsIt
      <4>2. p \in Gathering'
        BY <1>3, <1>6, <2>8 DEF Gathering
      <4>. QED  BY <4>1, <4>2
    <3>3. Connected(c)'
      BY <1>3, <3>1 DEF Connected
    <3>4. CASE at[p] = "events"
      <4>1. c \in to'[p] /\ EventsDue(view[c].events, LinesFor(out[p], c))' /\ Before(view[c].condition)'
        BY <1>3, <2>6, <2>8, <3>2, <3>4 DEF Follows, Before
      <4>. QED  BY <1>3, <3>1, <3>2, <3>3, <3>4, <4>1 DEF Follows
    <3>5. CASE at[p] = "condition"
      <4>1. c \in to'[p] /\ Knows(view[c].events)' /\ ConditionDue(view[c].condition, LinesFor(out[p], c))'
        BY <1>3, <2>6, <2>8, <3>2, <3>5 DEF Follows, Knows
      <4>. QED  BY <1>3, <3>1, <3>2, <3>3, <3>5, <4>1 DEF Follows
    <3>. QED  BY <1>6, <2>8, <3>4, <3>5
  <2>. QED  BY <1>1, <2>7, <2>8
<1>. QED  BY <1>7, <1>8

\* The steps of a client's connection, from its request to the end of its heartbeats.
LEMMA ConnectionKnows ==
  ASSUME IInv, Next, TypeOK', Kept', NEW c \in Clients, ClientNext(c)
  PROVE  \A d \in Clients : KnowsIt(d)'
<1>1. /\ condition \in Conditions /\ at \in [Threads -> Places] /\ peer \in [Clients -> {"away", "up", "silent", "closed"}]
      /\ events \in [Events -> [value : Values, changed : BOOLEAN]]
      /\ out \in [Threads -> Seq(Outgoing)] /\ to \in [Threads -> SUBSET Clients]
      /\ view \in [Clients -> [events : [Events -> Values], condition : SUBSET (Codes \cup {Unavailable})]]
      /\ \A d \in Clients : d \in Threads /\ d \notin Gatherers
  BY ThreadsLaw DEF IInv, TypeOK, AdapterTypeOK, Conditions
<1>2. /\ \A g \in Gatherers : at'[g] = at[g] /\ out'[g] = out[g] /\ to'[g] = to[g]
      /\ UNCHANGED <<items, events, condition>>
  BY ConnectionMoves DEF IInv, items
<1>3. ASSUME NEW d \in Clients, d # c
      PROVE  KnowsIt(d)'
  <2>1. /\ d \in clients' => d \in clients
        /\ peer'[d] = peer[d] /\ view'[d] = view[d] /\ at'[d] = at[d] /\ out'[d] = out[d]
    BY <1>1, <1>3 DEF ClientNext, FinishRequest, SendInitial, Heartbeat, Ping, HeartbeatEnds, Goes
  <2>2. \A g \in Gatherers : LinesFor(out'[g], d) = LinesFor(out[g], d)
    BY <1>2
  <2>. QED  BY <1>2, <2>1, <2>2, OthersThread
<1>4. KnowsIt(c)'
  <2>1. CASE FinishRequest(c)
    <3>1. at'[c] = "initial" /\ view'[c] = Nothing /\ Nothing' = Nothing
      BY <1>1, <2>1 DEF FinishRequest, Nothing
    <3>. QED  BY <3>1 DEF KnowsIt, Connected
  <2>2. CASE SendInitial(c)
    <3>. SUFFICES ASSUME Reached(c)'
                  PROVE  Connected(c)' /\ at'[c] # "heartbeat"
      BY DEF KnowsIt
    <3>1. /\ at[c] = "initial" /\ at'[c] = "events" /\ out'[c] = ToEach(EventsText(TRUE), {c})
          /\ UNCHANGED <<clients, peer, view>>
      BY <1>1, <2>2 DEF SendInitial
    <3>2. Reached(c)
      BY <3>1, AloneStep DEF Reached, IInv
    <3>3. view[c] = Nothing
      BY <3>1, <3>2 DEF IInv, KnowsIt, Connected
    <3>4. PICK known : known = view[c].events
      OBVIOUS
    <3>5. EventsDue(known, {EventsText(TRUE)[n] : n \in 1..Len(EventsText(TRUE))})
      BY <1>1, TextDue
    <3>6. EventsText(TRUE) \in Seq(ConditionLines \cup EventLines) /\ {c} \in SUBSET Clients /\ c \in {c}
      BY <1>1, EventsTextLaw
    <3>7. LinesFor(ToEach(EventsText(TRUE), {c}), c) = {EventsText(TRUE)[n] : n \in 1..Len(EventsText(TRUE))}
      BY <3>6, ToEachLaw
    <3>8. EventsDue(known, LinesFor(out'[c], c))
      BY <3>1, <3>5, <3>7
    <3>9. EventsDue(view[c].events, LinesFor(out[c], c))' /\ view'[c].condition = {Unavailable}
      <4>1. view'[c].condition = {Unavailable} /\ view'[c].events = known
        BY <3>1, <3>3, <3>4 DEF Nothing
      <4>2. PICK lines : lines = LinesFor(out'[c], c)
        OBVIOUS
      <4>3. EventsDue(known, lines)'
        BY <1>2, <3>8, <4>2 DEF EventsDue
      <4>. QED  BY <4>1, <4>2, <4>3
    <3>. QED  BY <3>1, <3>9 DEF Connected
  <2>3. CASE Heartbeat(c)
    <3>. SUFFICES ASSUME Reached(c)'
                  PROVE  Connected(c)' /\ Follows(c)'
      BY DEF KnowsIt
    <3>1. at[c] = "condition" /\ out[c] = << >> /\ at'[c] = "heartbeat" /\ UNCHANGED <<clients, peer, view>>
      BY <1>1, <2>3 DEF Heartbeat
    <3>2. Reached(c)
      BY <3>1, AloneStep DEF Reached, IInv
    <3>3. Gathering = {}
      BY <3>1, <3>2 DEF IInv, Alone, Connecting, Reached
    <3>4. LinesFor(<< >>, c) = {}
      BY EmptySeq DEF LinesFor
    <3>5. Knows(view[c].events) /\ ConditionDue(view[c].condition, {})
      BY <3>1, <3>2, <3>4 DEF IInv, KnowsIt, Connected
    <3>6. view[c].condition = Actual(condition)
      BY <1>1, <3>5, NothingComing
    <3>7. Knows(view[c].events)' /\ view'[c].condition = Actual(condition')
      BY <1>2, <3>1, <3>5, <3>6 DEF Knows
    <3>8. \A g \in Gatherers : at'[g] = "idle"
      BY <1>2, <3>3 DEF Gathering
    <3>9. Follows(c)'
      BY <3>7, <3>8 DEF Follows
    <3>. QED  BY <3>1, <3>9 DEF Connected
  <2>4. CASE HeartbeatEnds(c)
    <3>1. at'[c] = "idle"
      BY <1>1, <2>4 DEF HeartbeatEnds
    <3>. QED  BY <3>1 DEF KnowsIt, Connected
  <2>5. CASE Ping(c)
    <3>1. UNCHANGED <<clients, peer, view, at, out>>
      BY <2>5 DEF Ping
    <3>2. \A g \in Gatherers : LinesFor(out'[g], c) = LinesFor(out[g], c)
      BY <1>2
    <3>. QED  BY <1>2, <3>1, <3>2, OthersThread
  <2>6. CASE Goes(c)
    <3>1. peer'[c] # "up"
      BY <1>1, <2>6 DEF Goes
    <3>. QED  BY <3>1 DEF KnowsIt, Reached
  <2>. QED  BY <2>1, <2>2, <2>3, <2>4, <2>5, <2>6 DEF ClientNext
<1>. QED  BY <1>3, <1>4

\* What the clients know is kept by each step.
LEMMA KnowsStep ==
  ASSUME IInv, Next, TypeOK', Kept'
  PROVE  \A c \in Clients : KnowsIt(c)'
<1>1. ASSUME NEW t \in Gatherers, TopicStep(t)
      PROVE  \A c \in Clients : KnowsIt(c)'
  <2>1. UNCHANGED adapter
    BY <1>1, TopicStepLaw DEF IInv
  <2>2. UNCHANGED <<items, events, condition, clients, peer, view, at, to, out>>
    BY <2>1 DEF adapter, items
  <2>3. ASSUME NEW c \in Clients
        PROVE  KnowsIt(c)'
    <3>1. \A g \in Gatherers : LinesFor(out'[g], c) = LinesFor(out[g], c)
      BY <2>2
    <3>. QED  BY <2>2, <3>1, OthersThread
  <2>. QED  BY <2>3
<1>2. ASSUME NEW g \in Gatherers, GatherStep(g)
      PROVE  \A c \in Clients : KnowsIt(c)'
  BY <1>2, BeginKnows, CompleteKnows, SweepKnows DEF GatherStep
<1>3. ASSUME NEW g \in Gatherers, FunctionStep(g)
      PROVE  \A c \in Clients : KnowsIt(c)'
  <2>1. Change(g, events', condition') /\ Sets(events') /\ Reports
    BY <1>3, ConversionLaw, FunctionLaw DEF FunctionStep, IInv
  <2>. QED  BY <2>1, ChangeKnows
<1>4. ASSUME NEW p \in Threads, SendStep(p)
      PROVE  \A c \in Clients : KnowsIt(c)'
  <2>1. p \in Gatherers \/ p \in Clients
    BY DEF Threads
  <2>. QED  BY <1>4, <2>1, SendLineKnows, GatherSendsCondition, ClientSendsCondition DEF SendStep
<1>5. ASSUME NEW c \in Clients, ClientNext(c)
      PROVE  \A d \in Clients : KnowsIt(d)'
  BY <1>5, ConnectionKnows
<1>. QED  BY <1>1, <1>2, <1>3, <1>4, <1>5, NextCases

-----------------------------------------------------------------------------
(* The theorems                                                             *)

LEMMA InitIInv ==
  ASSUME Init
  PROVE  IInv
<1>1. PICK v \in {"READY", Unavailable} : AdapterInit(v) /\ v = IF program = "server" THEN "READY" ELSE Unavailable
  BY DEF Init
<1>2. v \in Values /\ Unavailable \in Values
  BY AdapterAssumption, Items
<1>3. /\ events = [e \in Events |-> [value |-> v, changed |-> FALSE]]
      /\ condition = NoCondition /\ kind \in {"condition", "simple"} /\ clients = {}
      /\ \A c \in Clients : peer[c] = "away" /\ at[c] = "idle" /\ out[c] = << >> /\ to[c] = {}
      /\ \A g \in Gatherers : at[g] = "idle" /\ out[g] = << >> /\ to[g] = {}
      /\ torn = [c \in Clients |-> FALSE]
  BY <1>1, ThreadsLaw DEF AdapterInit
<1>4. AdapterTypeOK
  <2>1. << >> \in Seq(Outgoing)
    BY EmptySeq
  <2>2. NoCondition \in [value : BOOLEAN, changed : BOOLEAN, active : [Codes -> Activations]]
    BY DEF NoCondition, Activations
  <2>3. Nothing \in [events : [Events -> Values], condition : SUBSET (Codes \cup {Unavailable})]
    BY <1>2 DEF Nothing
  <2>. QED  BY <1>1, <1>2, <2>1, <2>2, <2>3 DEF AdapterInit, AdapterTypeOK, Places
<1>5. TypeOK
  <2>1. << >> \in Seq(Events \X Values) /\ <<"states", "spindle">> \in Seq(Topics)
    BY EmptySeq DEF Topics
  <2>2. 0 \in Nat /\ 0 \in 0..4
    OBVIOUS
  <2>. QED  BY <1>4, <2>1, <2>2 DEF Init, TypeOK
<1>6. AtPlaces
  BY <1>3, NoLefts DEF AtPlaces, GatherAt, ClientAt, Threads
<1>7. Kept
  BY <1>3, ThreadsLaw DEF Kept, Init
<1>8. EventFlags
  BY <1>3 DEF EventFlags
<1>9. ConditionFlags
  BY <1>3, NoConditionLaw DEF ConditionFlags, NoCondition
<1>10. \A c \in Clients : Alone(c) /\ KnowsIt(c)
  BY <1>3 DEF Alone, KnowsIt, Reached
<1>. QED  BY <1>5, <1>6, <1>7, <1>8, <1>9, <1>10 DEF IInv

LEMMA StepIInv ==
  ASSUME IInv, [Next]_vars
  PROVE  IInv'
<1>1. CASE Next
  <2>1. TypeOK' /\ AtPlaces' /\ Kept'
    BY <1>1, TypeStep, PlacesStep, KeptStep DEF IInv
  <2>2. EventFlags' /\ ConditionFlags'
    BY <1>1, <2>1, EventFlagsStep, ConditionFlagsStep DEF IInv
  <2>3. \A c \in Clients : Alone(c)'
    BY <1>1, <2>1, AloneStep DEF IInv
  <2>4. \A c \in Clients : KnowsIt(c)'
    BY <1>1, <2>1, KnowsStep
  <2>. QED  BY <2>1, <2>2, <2>3, <2>4 DEF IInv
<1>2. CASE UNCHANGED vars
  <2>1. UNCHANGED <<events, condition, kind, clients, peer, pinged, at, to, out, view, torn,
                    program, lock, topic_list, index, published, publishing, msg, step>>
    BY <1>2 DEF vars, adapter, users
  <2>2. Gathering' = Gathering
    BY <2>1 DEF Gathering
  <2>3. TypeOK' /\ AtPlaces' /\ Kept' /\ EventFlags'
    <3>1. TypeOK'
      BY <2>1 DEF IInv, TypeOK, AdapterTypeOK
    <3>2. AtPlaces'
      BY <2>1 DEF IInv, AtPlaces, GatherAt, ClientAt, LeftsOK
    <3>. QED  BY <2>1, <3>1, <3>2 DEF IInv, Kept, EventFlags
  <2>4. ConditionFlags'
    BY <2>1, <2>2 DEF IInv, ConditionFlags
  <2>5. \A c \in Clients : Alone(c)'
    BY <2>1, <2>2 DEF IInv, Alone, Connecting
  <2>6. ASSUME NEW c \in Clients
        PROVE  KnowsIt(c)'
    <3>1. \A g \in Gatherers : LinesFor(out'[g], c) = LinesFor(out[g], c)
      BY <2>1
    <3>. QED  BY <2>1, <3>1, Untouched DEF IInv, Reached
  <2>. QED  BY <2>3, <2>4, <2>5, <2>6 DEF IInv
<1>. QED  BY <1>1, <1>2

\* The types of the state, and the invariant the others rest on.
LEMMA AdapterKept == Spec => []IInv
<1>. QED  BY InitIInv, StepIInv, PTL DEF Spec

\* The state of the adapter, its clients and the program that uses it is always of its type: the
\* lines that are sent are lines of data items that the program has, and a client is told of
\* values that these can take.
THEOREM AdapterTyped == Spec => []TypeOK
<1>1. IInv => TypeOK
  BY DEF IInv
<1>. QED  BY <1>1, AdapterKept, PTL

\* Whenever no gather is under way, send_changed and the first values of a new client have told each
\* client in the table what the data items are, except one whose first values overlapped a gather or
\* that was there when gathers overlapped: for any clients, events, values and codes.
THEOREM ClientsAreTold == Spec => []Faithful
<1>1. IInv => Faithful
  <2>. SUFFICES ASSUME IInv, Gathering = {}, NEW c \in clients, at[c] = "heartbeat", peer[c] = "up", ~torn[c]
                PROVE  /\ view[c].condition = Actual(condition)
                       /\ \A e \in Events : view[c].events[e] = events[e].value
    BY DEF Faithful
  <2>1. c \in Clients /\ Reached(c)
    BY DEF IInv, TypeOK, AdapterTypeOK, Reached
  <2>2. Follows(c)
    BY <2>1 DEF IInv, KnowsIt
  <2>. QED  BY <2>2 DEF Follows, Knows
<1>. QED  BY <1>1, AdapterKept, PTL

=============================================================================
