-------------------------- MODULE PublisherProofs --------------------------
(* Theorems about the bridge's publisher: that its reader keeps the frame of  *)
(* the stream, that no topic goes back when rounds do not overlap, and that   *)
(* the methods of the scanner it reads with agree with each other.           *)
(***************************************************************************)
EXTENDS Publisher, SequenceTheorems, WellFoundedInduction, TLAPS

-----------------------------------------------------------------------------
(* Where the reader is in the stream                                        *)

\* Everything the agent may send.
Tokens == {Chunk(n)[i] : n \in 1..MaxParts, i \in 1..7}

\* What is in q is what the agent sends behind its first p tokens.
Holds(q, p) ==
  \A k \in 1..Len(q), n \in Nat, i \in 1..7 : p + k = 7 * n + i => q[k] = Chunk(n + 1)[i]

\* The parts that have been handed over, and the tokens that have left the buffer for good.
Handed == IF body = << >> THEN 0 ELSE body[1][2]
Gone == 7 * Handed + IF document.string # << >> THEN 7 ELSE IF wanted # 0 THEN 2 ELSE 0

Bodies == {<< >>} \cup {BodyOf(n) : n \in 1..MaxParts}

\* What is on its way goes on where the reader is, up to what was sent.
Framed ==
  /\ buffer \in Seq(Tokens) /\ socket \in Seq(Tokens)
  /\ Holds(buffer, Gone) /\ Holds(socket, Gone + Len(buffer))
  /\ Gone + Len(buffer) + Len(socket) <= 7 * sent
  /\ ~closed => Gone + Len(buffer) + Len(socket) = 7 * sent

\* What the reader holds is nothing, or the next part: untouched, or with the header taken.
Holding ==
  /\ body \in Bodies /\ length = 1 /\ wanted \in {0, 5}
  /\ \/ document = Scanner(<< >>) /\ header = TRUE
     \/ document = Scanner(Part(Handed + 1)) /\ header = TRUE /\ reader = "document"
     \/ /\ document.string = Part(Handed + 1) /\ document.pos = 3
        /\ header = FALSE /\ reader = "document"
  /\ wanted # 0 => reader \in {"reading", "LongPullException"}
  /\ reader \in {"callback", "changed", "queue"} => body # << >> /\ document = Scanner(<< >>)

FrameInv ==
  /\ sent \in 0..MaxParts /\ closed \in BOOLEAN
  /\ reader \in {"reading", "document", "callback", "changed", "queue", "NotConnected", "LongPullException", "TypeError"}
  /\ Holding
  /\ reader \notin Dead => Framed

-----------------------------------------------------------------------------
(* What the threads of the timer know                                       *)

\* A thread that has converted the k-th item of its round, and not come to its end.
Past(t, k) ==
  \/ timer[t].at \in {"items", "convert"} /\ timer[t].topic > k
  \/ timer[t].at \in {"publish", "reset"} /\ timer[t].topic >= k

\* The changes still tell an older value than the message.
Stale(d) == di_changed[d] # 0 /\ di_changed[d] < msg[d]

\* Values only grow towards the last part that was handed over; the changes are what is
\* current, but while the next ones are being noted.
ValuesInv ==
  /\ \A d \in Topics : di_current[d] <= Handed /\ msg[d] <= di_current[d] /\ di_changed[d] <= di_current[d]
  /\ reader # "changed" => \A d \in Topics : di_changed[d] \in {0, di_current[d]}
  /\ reader = "changed" => \A d \in Topics : local_di[d] \in {0, di_current[d]}

\* With one round at a time: what is published is behind the messages, and only a thread that
\* has just converted a newer value can find older changes, all of them those it looks at.
RoundInv ==
  /\ \A t, u \in Timers : timer[t].at # "idle" /\ timer[u].at # "idle" => t = u
  /\ \A d \in Topics : topic[d] <= msg[d]
  /\ \A k \in DOMAIN Items : Stale(Items[k]) =>
       /\ reader = "changed"
       /\ \E t \in Timers : Past(t, k) /\ (timer[t].at = "convert" => timer[t].items = di_changed)

NeverBackInv == ValuesInv /\ (~overlap => RoundInv)

-----------------------------------------------------------------------------
(* The tokens of a part                                                     *)

\* The kinds of token that the n-th chunk is made of.
TokensOf(n) == {<<"size", 4>>, Crlf, Boundary, <<"length", 1>>, Blank, <<"body", n>>}

LEMMA ConcatAt ==
  \A T : \A s, t \in Seq(T) :
    /\ s \o t \in Seq(T) /\ Len(s \o t) = Len(s) + Len(t)
    /\ \A i \in 1..Len(s) : (s \o t)[i] = s[i]
<1> SUFFICES ASSUME NEW T, NEW s \in Seq(T), NEW t \in Seq(T)
             PROVE  /\ s \o t \in Seq(T) /\ Len(s \o t) = Len(s) + Len(t)
                    /\ \A i \in 1..Len(s) : (s \o t)[i] = s[i]
  OBVIOUS
<1>1. Len(s) \in Nat /\ Len(t) \in Nat
  BY LenProperties
<1>2. QED
  BY <1>1, ConcatProperties

LEMMA ConcatBehind ==
  \A T : \A s, t \in Seq(T) : \A i \in 1..Len(t) : (s \o t)[Len(s) + i] = t[i]
<1> SUFFICES ASSUME NEW T, NEW s \in Seq(T), NEW t \in Seq(T), NEW i \in 1..Len(t)
             PROVE  (s \o t)[Len(s) + i] = t[i]
  OBVIOUS
<1>1. Len(s) \in Nat /\ Len(t) \in Nat
  BY LenProperties
<1>2. QED
  BY <1>1, ConcatProperties

LEMMA PartIs ==
  ASSUME NEW n
  PROVE  /\ Part(n) \in Seq(TokensOf(n)) /\ Len(Part(n)) = 4
         /\ Part(n)[1] = Boundary /\ Part(n)[2] = <<"length", 1>>
         /\ Part(n)[3] = Blank /\ Part(n)[4] = <<"body", n>>
<1>1. <<Boundary, <<"length", 1>>, Blank>> \in Seq(TokensOf(n)) /\ <<<<"body", n>>>> \in Seq(TokensOf(n))
  <2>1. {Boundary, <<"length", 1>>, Blank, <<"body", n>>} \subseteq TokensOf(n)
    BY DEF TokensOf
  <2> QED
    BY <2>1
<1>2. PICK h \in Seq(TokensOf(n)), b \in Seq(TokensOf(n)) :
         h = <<Boundary, <<"length", 1>>, Blank>> /\ b = <<<<"body", n>>>>
  BY <1>1, Zenon
<1>3. /\ Len(h) = 3 /\ h[1] = Boundary /\ h[2] = <<"length", 1>> /\ h[3] = Blank
      /\ Len(b) = 1 /\ b[1] = <<"body", n>>
  BY <1>2
<1>4. Part(n) = h \o b
  BY <1>2 DEF Part, BodyOf
<1>5. /\ h \o b \in Seq(TokensOf(n)) /\ Len(h \o b) = Len(h) + Len(b)
      /\ \A i \in 1..Len(h) : (h \o b)[i] = h[i]
  BY ConcatAt, Zenon
<1>6. \A i \in 1..Len(b) : (h \o b)[Len(h) + i] = b[i]
  BY ConcatBehind, Zenon
<1>7. Len(h \o b) = 4 /\ (h \o b)[1] = h[1] /\ (h \o b)[2] = h[2] /\ (h \o b)[3] = h[3] /\ (h \o b)[4] = b[1]
  BY <1>3, <1>5, <1>6
<1>8. QED
  BY <1>3, <1>5, <1>7, <1>4

LEMMA ChunkIs ==
  ASSUME NEW n
  PROVE  /\ Chunk(n) \in Seq(TokensOf(n)) /\ Len(Chunk(n)) = 7
         /\ Chunk(n)[1] = <<"size", 4>> /\ Chunk(n)[2] = Crlf
         /\ \A i \in 1..4 : Chunk(n)[i + 2] = Part(n)[i]
         /\ Chunk(n)[7] = Crlf
<1>1. <<<<"size", 4>>, Crlf>> \in Seq(TokensOf(n)) /\ <<Crlf>> \in Seq(TokensOf(n))
  <2>1. {<<"size", 4>>, Crlf} \subseteq TokensOf(n)
    BY DEF TokensOf
  <2> QED
    BY <2>1
<1>2. PICK a \in Seq(TokensOf(n)), z \in Seq(TokensOf(n)) : a = <<<<"size", 4>>, Crlf>> /\ z = <<Crlf>>
  BY <1>1, Zenon
<1>3. PICK p \in Seq(TokensOf(n)) : p = Part(n)
  BY PartIs
<1>4. /\ Len(a) = 2 /\ a[1] = <<"size", 4>> /\ a[2] = Crlf
       /\ Len(z) = 1 /\ z[1] = Crlf /\ Len(p) = 4 /\ Chunk(n) = (a \o p) \o z
  BY <1>2, <1>3, PartIs DEF Chunk
<1>5. /\ a \o p \in Seq(TokensOf(n)) /\ Len(a \o p) = Len(a) + Len(p)
      /\ \A i \in 1..Len(a) : (a \o p)[i] = a[i]
  BY ConcatAt, Zenon
<1>6. \A i \in 1..Len(p) : (a \o p)[Len(a) + i] = p[i]
  BY ConcatBehind, Zenon
<1>7. Len(a \o p) = 6 /\ (a \o p)[1] = a[1] /\ (a \o p)[2] = a[2] /\ \A i \in 1..4 : (a \o p)[i + 2] = p[i]
  BY <1>4, <1>5, <1>6
<1>8. /\ (a \o p) \o z \in Seq(TokensOf(n)) /\ Len((a \o p) \o z) = Len(a \o p) + Len(z)
      /\ \A i \in 1..Len(a \o p) : ((a \o p) \o z)[i] = (a \o p)[i]
  BY <1>5, ConcatAt, Zenon
<1>9. \A i \in 1..Len(z) : ((a \o p) \o z)[Len(a \o p) + i] = z[i]
  BY <1>5, ConcatBehind, Zenon
<1>10. /\ Len((a \o p) \o z) = 7
      /\ ((a \o p) \o z)[1] = a[1] /\ ((a \o p) \o z)[2] = a[2] /\ ((a \o p) \o z)[7] = z[1]
  BY <1>4, <1>7, <1>8, <1>9
<1>11. \A i \in 1..4 : ((a \o p) \o z)[i + 2] = p[i]
  <2> TAKE i \in 1..4
  <2>1. i + 2 \in 1..Len(a \o p)
    BY <1>7
  <2> QED
    BY <2>1, <1>7, <1>8
<1>12. QED
  BY <1>3, <1>4, <1>8, <1>10, <1>11

\* The tokens are told apart by what they are.
LEMMA TokensDiffer ==
  ASSUME NEW n
  PROVE  /\ Crlf # <<"size", 4>> /\ Boundary # Blank /\ <<"length", 1>> # Blank /\ <<"body", n>> # Blank
         /\ Boundary[1] # "length" /\ Blank[1] # "length"
         /\ <<"length", 1>>[1] = "length" /\ <<"length", 1>>[2] = 1 /\ <<"body", n>>[1] # "length"
         /\ <<"size", 4>>[2] = 4 /\ <<"body", n>>[2] = n
<1>1. Crlf[1] = "end of line" /\ Boundary[1] = "boundary" /\ Blank[1] = "blank line"
  BY DEF Boundary, Blank, Crlf
<1>2. /\ <<"length", 1>>[1] = "length" /\ <<"length", 1>>[2] = 1 /\ <<"size", 4>>[1] = "size"
      /\ <<"size", 4>>[2] = 4
  OBVIOUS
<1>3. <<"body", n>>[1] = "body" /\ <<"body", n>>[2] = n
  OBVIOUS
<1>4. Crlf # <<"size", 4>> /\ Boundary # Blank /\ <<"length", 1>> # Blank /\ <<"body", n>> # Blank
  BY <1>1, <1>2, <1>3
<1>5. QED
  BY <1>1, <1>2, <1>3, <1>4

-----------------------------------------------------------------------------
(* Pieces of the stream                                                     *)

LEMMA HoldsConcat ==
  ASSUME NEW q \in Seq(Tokens), NEW r \in Seq(Tokens), NEW p \in Nat,
         Holds(q, p), Holds(r, p + Len(q))
  PROVE  q \o r \in Seq(Tokens) /\ Len(q \o r) = Len(q) + Len(r) /\ Holds(q \o r, p)
<1>1. Len(q) \in Nat /\ Len(r) \in Nat
  BY LenProperties
<1>2. q \o r \in Seq(Tokens) /\ Len(q \o r) = Len(q) + Len(r) /\ \A i \in 1..Len(q) : (q \o r)[i] = q[i]
  BY ConcatAt, Zenon
<1>3. \A i \in 1..Len(r) : (q \o r)[Len(q) + i] = r[i]
  BY ConcatBehind, Zenon
<1>4. ASSUME NEW k \in 1..Len(q) + Len(r), NEW n \in Nat, NEW i \in 1..7, p + k = 7 * n + i
      PROVE  (q \o r)[k] = Chunk(n + 1)[i]
  <2>1. CASE k <= Len(q)
    <3>1. k \in 1..Len(q)
      BY <2>1, <1>1
    <3>2. q[k] = Chunk(n + 1)[i]
      BY <3>1, <1>4 DEF Holds
    <3> QED
      BY <3>1, <3>2, <1>2
  <2>2. CASE ~(k <= Len(q))
    <3>1. k - Len(q) \in 1..Len(r) /\ (p + Len(q)) + (k - Len(q)) = 7 * n + i /\ k = Len(q) + (k - Len(q))
      BY <2>2, <1>1, <1>4
    <3>2. r[k - Len(q)] = Chunk(n + 1)[i]
      BY <3>1, Zenon DEF Holds
    <3>3. (q \o r)[Len(q) + (k - Len(q))] = r[k - Len(q)]
      BY <3>1, <1>3, Zenon
    <3> QED
      BY <3>1, <3>2, <3>3, Zenon
  <2> QED
    BY <2>1, <2>2, Zenon
<1>5. Holds(q \o r, p)
  BY <1>2, <1>4, Zenon DEF Holds
<1>6. QED
  BY <1>2, <1>5, Zenon

LEMMA HoldsPiece ==
  ASSUME NEW q \in Seq(Tokens), NEW p \in Nat, Holds(q, p), NEW a \in Nat, NEW b \in a..Len(q)
  PROVE  /\ SubSeq(q, a + 1, b) \in Seq(Tokens) /\ Len(SubSeq(q, a + 1, b)) = b - a
         /\ Holds(SubSeq(q, a + 1, b), p + a)
<1>1. Len(q) \in Nat
  BY LenProperties
<1>2. \A i \in (a + 1)..b : q[i] \in Tokens
  BY <1>1, ElementOfSeq
<1>3. /\ SubSeq(q, a + 1, b) \in Seq(Tokens) /\ Len(SubSeq(q, a + 1, b)) = b - a
      /\ \A i \in 1..(b - a) : SubSeq(q, a + 1, b)[i] = q[a + i]
  BY <1>1, <1>2, SubSeqProperties
<1>4. ASSUME NEW k \in 1..(b - a), NEW n \in Nat, NEW i \in 1..7, p + a + k = 7 * n + i
      PROVE  SubSeq(q, a + 1, b)[k] = Chunk(n + 1)[i]
  <2>1. a + k \in 1..Len(q) /\ p + (a + k) = 7 * n + i
    BY <1>1, <1>4
  <2>2. q[a + k] = Chunk(n + 1)[i]
    BY <2>1 DEF Holds
  <2> QED
    BY <2>2, <1>3
<1>5. QED
  BY <1>3, <1>4 DEF Holds

LEMMA HoldsChunk ==
  ASSUME NEW n \in Nat, n < MaxParts
  PROVE  Chunk(n + 1) \in Seq(Tokens) /\ Len(Chunk(n + 1)) = 7 /\ Holds(Chunk(n + 1), 7 * n)
<1>1. Chunk(n + 1) \in Seq(TokensOf(n + 1)) /\ Len(Chunk(n + 1)) = 7
  BY ChunkIs
<1>3. n + 1 \in 1..MaxParts
  BY LongPullAssumption DEF LongPullAssumption
<1>4. \A i \in 1..7 : Chunk(n + 1)[i] \in Tokens
  BY <1>3 DEF Tokens
<1>5. Chunk(n + 1) \in Seq(Tokens)
  <2>1. SubSeq(Chunk(n + 1), 1, 7) \in Seq(Tokens)
    BY <1>4, SubSeqProperties
  <2>2. SubSeq(Chunk(n + 1), 1, 7) = Chunk(n + 1)
    BY <1>1, SubSeqFull
  <2> QED
    BY <2>1, <2>2
<1>6. ASSUME NEW k \in 1..7, NEW m \in Nat, NEW i \in 1..7, 7 * n + k = 7 * m + i
      PROVE  m = n /\ k = i
  BY <1>6
<1>7. QED
  BY <1>1, <1>5, <1>6 DEF Holds

-----------------------------------------------------------------------------
(* The header of a part                                                     *)

LEMMA MinMaxOne ==
  ASSUME NEW a \in Nat
  PROVE  Min({a}) = a /\ Max({a}) = a
BY DEF Min, Max

\* A literal of one token matches where that token is.
LEMMA OneToken ==
  ASSUME NEW T, NEW src \in Seq(T), NEW token, NEW anchored, NEW at \in Nat
  PROVE  Lengths([chars |-> <<token>>, anchored |-> anchored], src, at) =
           IF (anchored => at = 0) /\ at < Len(src) /\ src[at + 1] = token THEN {1} ELSE {}
<1>1. Len(<<token>>) = 1
  OBVIOUS
<1>2. Len(src) \in Nat
  BY LenProperties
<1>3. ASSUME at < Len(src)
      PROVE  SubSeq(src, at + 1, at + 1) = <<src[at + 1]>>
  <2>1. at + 1 \in 1..Len(src) /\ src[at + 1] \in T
    BY <1>2, <1>3, ElementOfSeq
  <2>2. /\ SubSeq(src, at + 1, at + 1) \in Seq(T) /\ Len(SubSeq(src, at + 1, at + 1)) = 1
        /\ SubSeq(src, at + 1, at + 1)[1] = src[at + 1]
    BY <2>1, <1>2, SubSeqProperties
  <2>3. <<src[at + 1]>> \in Seq(T) /\ Len(<<src[at + 1]>>) = 1 /\ <<src[at + 1]>>[1] = src[at + 1]
    BY <2>1
  <2>4. \A u, v \in Seq(T) : Len(u) = 1 /\ Len(v) = 1 /\ u[1] = v[1] => u = v
    BY SeqEqual
  <2> QED
    BY <2>2, <2>3, <2>4, Zenon
<1>4. ASSUME at < Len(src)
      PROVE  SubSeq(src, at + 1, at + 1) = <<token>> <=> src[at + 1] = token
  BY <1>3, <1>4
<1>5. Lengths([chars |-> <<token>>, anchored |-> anchored], src, at) =
        {n \in {1} : (anchored => at = 0) /\ at + n <= Len(src) /\ SubSeq(src, at + 1, at + n) = <<token>>}
  BY <1>1 DEF Lengths
<1>6. at + 1 <= Len(src) <=> at < Len(src)
  BY <1>2
<1>7. QED
  BY <1>4, <1>5, <1>6

\* The boundary is where the part begins.
LEMMA BoundaryIsFound ==
  ASSUME NEW n, NEW c, c = Check(Scanner(Part(n)), Anchored(<<Boundary>>))
  PROVE  /\ Matched(c)
         /\ \E m : c \in [string : {Part(n)}, pos : {0}, history : {<<m>>}]
<1>1. PICK d : d = Scanner(Part(n))
  OBVIOUS
<1>2. PICK p : p = Anchored(<<Boundary>>)
  OBVIOUS
<1>3. d.string = Part(n) /\ d.pos = 0 /\ d.history = << >>
  BY <1>1 DEF Scanner
<1>4. Len(d.string) = 4 /\ d.string[1] = Boundary /\ d.string \in Seq(TokensOf(n))
  BY <1>3, PartIs
<1>5. Lengths(p, d.string, 0) = {1}
  BY <1>2, <1>4, OneToken DEF Anchored
<1>6. PICK m : m = Find(d, p, FALSE, TRUE)
  OBVIOUS
<1>7. m.matched
  <2>1. 0 \in d.pos..Len(d.string) /\ 0 = d.pos
    BY <1>3, <1>4
  <2>2. Lengths(p, d.string, 0) # {}
    BY <1>5
  <2> QED
    BY <2>1, <2>2, <1>6 DEF Find
<1>8. c = [string |-> Part(n), pos |-> 0, history |-> <<m>>]
  BY <1>1, <1>2, <1>6 DEF Check, Log, Scanner
<1>9. c.history = <<m>> /\ Len(<<m>>) = 1 /\ <<m>>[1] = m
  BY <1>8
<1>10. Last(c) = m
  BY <1>9 DEF Last
<1>11. QED
  BY <1>7, <1>8, <1>10 DEF Matched

\* Of the four tokens of a part one is the blank line.
LEMMA WhereBlankIs ==
  ASSUME NEW n, NEW src, src = Part(n), NEW p, p = Literal(<<Blank>>)
  PROVE  /\ Len(src) = 4
         /\ \A at \in 0..4 : Lengths(p, src, at) = IF at = 2 THEN {1} ELSE {}
<1>1. /\ Len(src) = 4 /\ src \in Seq(TokensOf(n))
      /\ src[1] = Boundary /\ src[2] = <<"length", 1>> /\ src[3] = Blank /\ src[4] = <<"body", n>>
  BY PartIs
<1>2. \A at \in 0..4 : at < 4 /\ src[at + 1] = Blank <=> at = 2
  <2>1. src[1] # Blank /\ src[2] # Blank /\ src[4] # Blank
    BY <1>1, TokensDiffer
  <2> SUFFICES ASSUME NEW at \in 0..4 PROVE at < 4 /\ src[at + 1] = Blank <=> at = 2
    OBVIOUS
  <2>2. CASE at = 0
    BY <2>1, <2>2
  <2>3. CASE at = 1
    BY <2>1, <2>3
  <2>4. CASE at = 2
    BY <1>1, <2>4
  <2>5. CASE at = 3
    BY <2>1, <2>5
  <2>6. CASE at = 4
    BY <2>6
  <2> QED
    BY <2>2, <2>3, <2>4, <2>5, <2>6
<1>3. \A at \in 0..4 : Lengths(p, src, at) = IF at < 4 /\ src[at + 1] = Blank THEN {1} ELSE {}
  BY <1>1, OneToken DEF Literal
<1>4. QED
  BY <1>1, <1>2, <1>3

\* The header ends with the blank line, in front of the body.
LEMMA BlankLineIsFound ==
  ASSUME NEW n, NEW m, NEW c \in [string : {Part(n)}, pos : {0}, history : {<<m>>}],
         NEW d, d = ScanUntil(c, Literal(<<Blank>>))
  PROVE  d.string = Part(n) /\ d.pos = 3
<1>1. PICK p, src : p = Literal(<<Blank>>) /\ src = Part(n)
  OBVIOUS
<1>2. c.string = src /\ c.pos = 0
  BY <1>1
<1>3. Len(src) = 4 /\ \A at \in 0..4 : Lengths(p, src, at) = IF at = 2 THEN {1} ELSE {}
  BY <1>1, WhereBlankIs
<1>5. PICK f : f = Find(c, p, TRUE, TRUE)
  OBVIOUS
<1>6. Lengths(p, src, 2) = {1}
  BY <1>3
<1>7. f.matched /\ f.pos = 0 /\ f.len = 3
  <2>1. PICK at \in Nat, took \in Nat : at = 2 /\ took = 1
    OBVIOUS
  <2>2. {k \in c.pos..Len(c.string) : (TRUE \/ k = c.pos) /\ Lengths(p, c.string, k) # {}} = {at}
    <3>1. c.pos..Len(c.string) = 0..4
      BY <1>2, <1>3
    <3>2. \A k \in 0..4 : Lengths(p, c.string, k) # {} <=> k = at
      BY <1>2, <1>3, <2>1
    <3> QED
      BY <2>1, <3>1, <3>2
  <2>3. Lengths(p, c.string, at) = {took}
    BY <1>2, <1>6, <2>1
  <2>4. Min({at}) = at /\ Max({took}) = took /\ {at} # {}
    BY MinMaxOne
  <2>5. f = [matched |-> TRUE, pos |-> c.pos, len |-> at - c.pos + took]
    BY <2>2, <2>3, <2>4, <1>5, Zenon DEF Find
  <2> QED
    BY <1>2, <2>1, <2>5
<1>8. d = Consume(Log(c, f), f)
  BY <1>1, <1>5 DEF ScanUntil
<1>9. Log(c, f).string = Part(n) /\ Log(c, f) = [string |-> Part(n), pos |-> 0, history |-> Log(c, f).history]
  BY DEF Log
<1>10. QED
  BY <1>7, <1>8, <1>9 DEF Consume

-----------------------------------------------------------------------------
(* What the reader does to the stream                                       *)

LEMMA HandedIs ==
  ASSUME body \in Bodies
  PROVE  /\ Handed \in 0..MaxParts /\ (Handed = 0 <=> body = << >>)
         /\ Handed # 0 => body = BodyOf(Handed)
<1>1. MaxParts \in Nat
  BY LongPullAssumption DEF LongPullAssumption
<1>2. CASE body = << >>
  BY <1>1, <1>2 DEF Handed
<1>3. ASSUME NEW n \in 1..MaxParts, body = BodyOf(n)
      PROVE  Handed = n /\ body # << >>
  <2>1. Len(body) = 1 /\ body[1] = <<"body", n>>
    BY <1>3 DEF BodyOf
  <2>2. body[1][2] = n
    BY <2>1, TokensDiffer
  <2>3. body # << >>
    BY <2>1
  <2> QED
    BY <2>2, <2>3 DEF Handed
<1>4. QED
  BY <1>1, <1>2, <1>3 DEF Bodies

\* What the document's string says about where the reader is.
LEMMA GoneIs ==
  ASSUME Holding
  PROVE  /\ Handed \in 0..MaxParts /\ Handed \in Nat /\ Gone \in Nat
         /\ document = Scanner(<< >>) => Gone = 7 * Handed + IF wanted # 0 THEN 2 ELSE 0
         /\ document.string = Part(Handed + 1) => Gone = 7 * Handed + 7
         /\ document = Scanner(<< >>) \/ document.string = Part(Handed + 1)
<1>1. Handed \in 0..MaxParts /\ MaxParts \in Nat
  BY HandedIs, LongPullAssumption DEF Holding, LongPullAssumption
<1>2. Part(Handed + 1) # << >>
  BY PartIs
<1>3. \A src : Scanner(src).string = src
  BY DEF Scanner
<1>4. document = Scanner(<< >>) \/ document.string = Part(Handed + 1)
  BY <1>3 DEF Holding
<1>5. document = Scanner(<< >>) => document.string = << >>
  BY <1>3
<1>6. QED
  BY <1>1, <1>2, <1>4, <1>5 DEF Gone, Holding

LEMMA HoldsFront ==
  ASSUME NEW q \in Seq(Tokens), NEW p \in Nat, Holds(q, p), NEW b \in 0..Len(q)
  PROVE  SubSeq(q, 1, b) \in Seq(Tokens) /\ Len(SubSeq(q, 1, b)) = b /\ Holds(SubSeq(q, 1, b), p)
<1>1. 0 \in Nat /\ 0 + 1 = 1 /\ b - 0 = b /\ p + 0 = p
  <2>1. Len(q) \in Nat
    BY LenProperties
  <2> QED
    BY <2>1
<1>2. \A a \in Nat : a = 0 => SubSeq(q, a + 1, b) \in Seq(Tokens) /\ Len(SubSeq(q, a + 1, b)) = b - a /\ Holds(SubSeq(q, a + 1, b), p + a)
  BY HoldsPiece
<1>3. QED
  BY <1>1, <1>2

\* What recv returns and what it leaves.
LEMMA Received ==
  ASSUME Holding, Framed, NEW most \in Nat, NEW piece \in Pieces(most), NEW text, text = buffer \o piece,
         NEW rest, rest = SubSeq(socket, Len(piece) + 1, Len(socket))
  PROVE  /\ text \in Seq(Tokens) /\ rest \in Seq(Tokens) /\ Len(text) # 0
         /\ Holds(text, Gone) /\ Holds(rest, Gone + Len(text))
         /\ Len(text) + Len(rest) = Len(buffer) + Len(socket)
<1>1. Gone \in Nat /\ Len(buffer) \in Nat /\ Len(socket) \in Nat
  BY GoneIs, LenProperties DEF Framed
<1>2. PICK k \in 1..Len(socket) : piece = SubSeq(socket, 1, k)
  <2> DEFINE m == IF most < Len(socket) THEN most ELSE Len(socket)
  <2>1. PICK k \in {m \div 2, m} \ {0} : piece = SubSeq(socket, 1, k)
    BY DEF Pieces
  <2>2. m \in Nat /\ m <= Len(socket)
    BY <1>1
  <2> HIDE DEF m
  <2>3. m \div 2 \in 0..m
    BY <2>2
  <2>4. k \in 1..Len(socket)
    BY <1>1, <2>2, <2>3
  <2> QED
    BY <2>1, <2>4
<1>3. /\ buffer \in Seq(Tokens) /\ socket \in Seq(Tokens)
      /\ Holds(buffer, Gone) /\ Holds(socket, Gone + Len(buffer))
  BY DEF Framed
<1>4. piece \in Seq(Tokens) /\ Len(piece) = k /\ Holds(piece, Gone + Len(buffer))
  BY <1>1, <1>2, <1>3, HoldsFront
<1>5. text \in Seq(Tokens) /\ Len(text) = Len(buffer) + k /\ Holds(text, Gone)
  BY <1>1, <1>3, <1>4, HoldsConcat
<1>6. rest \in Seq(Tokens) /\ Len(rest) = Len(socket) - k /\ Holds(rest, (Gone + Len(buffer)) + k)
  BY <1>1, <1>3, <1>4, HoldsPiece
<1>7. PICK b, t, r, s : b = Len(buffer) /\ t = Len(text) /\ r = Len(rest) /\ s = Len(socket)
  OBVIOUS
<1>8. t = b + k /\ r = s - k /\ b \in Nat /\ s \in Nat /\ Gone \in Nat
  BY <1>1, <1>5, <1>6, <1>7, Zenon
<1>9. (Gone + b) + k = Gone + t /\ t # 0 /\ t + r = b + s
  BY <1>8
<1>10. QED
  BY <1>5, <1>6, <1>7, <1>9, Zenon

\* A chunk begins with its size line: what is read there has the line's end or none at all.
LEMMA SizeLineIs ==
  ASSUME NEW text \in Seq(Tokens), NEW h \in Nat, Holds(text, 7 * h), Ends(text) # {}
  PROVE  Len(SizeLine(text)) = 2 /\ text[1][2] + 1 = 5 /\ Len(text) \in Nat /\ Len(text) >= 2
<1>1. Len(text) \in Nat /\ DOMAIN text = 1..Len(text)
  BY LenProperties
<1>2. PICK e \in 1..Len(text) : text[e] = Crlf
  BY <1>1 DEF Ends
<1>3. 1 \in 1..Len(text) /\ 7 * h + 1 = 7 * h + 1
  BY <1>1, <1>2
<1>4. text[1] = Chunk(h + 1)[1]
  BY <1>1, <1>2 DEF Holds
<1>5. text[1] = <<"size", 4>> /\ text[1] # Crlf
  BY <1>4, ChunkIs, TokensDiffer
<1>6. e # 1
  BY <1>2, <1>5
<1>7. Len(text) >= 2 /\ 2 \in 1..Len(text)
  BY <1>1, <1>6
<1>8. text[2] = Chunk(h + 1)[2]
  BY <1>7 DEF Holds
<1>9. text[2] = Crlf
  BY <1>8, ChunkIs
<1>10. Ends(text) \subseteq 2..Len(text) /\ 2 \in Ends(text)
  <2>1. 2 \in Ends(text)
    BY <1>1, <1>7, <1>9, Zenon DEF Ends
  <2>2. ASSUME NEW k \in Ends(text)
        PROVE  k \in 1..Len(text) /\ k # 1
    BY <1>1, <1>5 DEF Ends
  <2> QED
    BY <1>1, <2>1, <2>2
<1>11. (CHOOSE k \in Ends(text) : \A j \in Ends(text) : k <= j) = 2
  BY <1>1, <1>10
<1>12. SizeLine(text) = SubSeq(text, 1, 2)
  BY <1>11, Zenon DEF SizeLine
<1>13. Len(SubSeq(text, 1, 2)) = 2
  <2>1. \A i \in 1..2 : text[i] \in Tokens
    BY <1>7, ElementOfSeq
  <2> QED
    BY <2>1, SubSeqProperties
<1>14. text[1][2] = 4
  BY <1>5, TokensDiffer
<1>15. QED
  BY <1>1, <1>7, <1>12, <1>13, <1>14

\* Where a chunk's data begins the next part is.
LEMMA DataIs ==
  ASSUME NEW text \in Seq(Tokens), NEW h \in Nat, Holds(text, 7 * h + 2), Len(text) >= 5
  PROVE  SubSeq(text, 1, 4) = Part(h + 1)
<1>1. Len(text) \in Nat
  BY LenProperties
<1>2. \A i \in 1..4 : text[i] = Chunk(h + 1)[i + 2]
  <2> TAKE i \in 1..4
  <2>1. i \in 1..Len(text) /\ i + 2 \in 1..7 /\ (7 * h + 2) + i = 7 * h + (i + 2)
    BY <1>1
  <2> QED
    BY <2>1, Zenon DEF Holds
<1>3. \A i \in 1..4 : text[i] = Part(h + 1)[i]
  BY <1>2, ChunkIs
<1>4. \A i \in 1..4 : text[i] \in Tokens
  BY <1>1, ElementOfSeq
<1>5. /\ SubSeq(text, 1, 4) \in Seq(Tokens) /\ Len(SubSeq(text, 1, 4)) = 4
      /\ \A i \in 1..4 : SubSeq(text, 1, 4)[i] = text[i]
  BY <1>4, SubSeqProperties
<1>6. Part(h + 1) \in Seq(TokensOf(h + 1)) /\ Len(Part(h + 1)) = 4
  BY PartIs
<1>7. SubSeq(text, 1, 4) \in Seq(Tokens \cup TokensOf(h + 1)) /\ Part(h + 1) \in Seq(Tokens \cup TokensOf(h + 1))
  BY <1>5, <1>6, SeqMonotonic
<1>8. \A i \in 1..4 : SubSeq(text, 1, 4)[i] = Part(h + 1)[i]
  BY <1>3, <1>5
<1>9. QED
  BY <1>5, <1>6, <1>7, <1>8, SeqEqual

\* One step of the stream leaves the rest of the program alone, and the other way round.
LEMMA FrameStutter ==
  ASSUME FrameInv, UNCHANGED stream
  PROVE  FrameInv'
BY DEF FrameInv, Holding, Framed, Holds, Gone, Handed, Bodies, stream

LEMMA FrameInit ==
  ASSUME Init
  PROVE  FrameInv
<1>1. MaxParts \in Nat
  BY LongPullAssumption DEF LongPullAssumption
<1>2. document.string = << >> /\ body = << >> /\ wanted = 0
  BY DEF Init, LongPullInit, Scanner
<1>3. Gone = 0
  BY <1>2 DEF Gone, Handed
<1>4. Len(buffer) = 0 /\ Len(socket) = 0 /\ buffer \in Seq(Tokens) /\ socket \in Seq(Tokens)
  BY EmptySeq DEF Init, LongPullInit
<1>5. Framed
  BY <1>3, <1>4 DEF Init, LongPullInit, Framed, Holds
<1>6. Holding
  BY DEF Init, LongPullInit, Holding, Bodies
<1>7. sent \in 0..MaxParts /\ closed \in BOOLEAN /\ reader = "reading"
  <2>1. closed \in BOOLEAN
    BY Zenon DEF Init, LongPullInit
  <2> QED
    BY <1>1, <2>1 DEF Init, LongPullInit
<1>8. QED
  BY <1>5, <1>6, <1>7 DEF FrameInv

LEMMA FrameSend ==
  ASSUME FrameInv, Send
  PROVE  FrameInv'
<1>1. /\ sent \in Nat /\ sent + 1 \in 0..MaxParts /\ sent < MaxParts /\ sent' = sent + 1 /\ ~closed
      /\ socket' = socket \o Chunk(sent + 1) /\ reader \notin Dead /\ Framed /\ Holding
      /\ UNCHANGED <<closed, buffer, wanted, document, header, length, reader, body>>
  BY LongPullAssumption DEF FrameInv, Send, LongPullAssumption
<1>2. Gone' = Gone /\ Holding' /\ Gone \in Nat
  BY <1>1, GoneIs DEF Gone, Handed, Holding, Bodies
<1>3. /\ Len(buffer) \in Nat /\ Len(socket) \in Nat /\ buffer \in Seq(Tokens) /\ socket \in Seq(Tokens)
      /\ Holds(buffer, Gone) /\ Holds(socket, Gone + Len(buffer))
      /\ Gone + Len(buffer) + Len(socket) = 7 * sent
  BY <1>1, LenProperties DEF Framed
<1>4. Chunk(sent + 1) \in Seq(Tokens) /\ Len(Chunk(sent + 1)) = 7 /\ Holds(Chunk(sent + 1), 7 * sent)
  BY <1>1, HoldsChunk
<1>5. /\ socket' \in Seq(Tokens) /\ Len(socket') = Len(socket) + 7
      /\ Holds(socket', Gone + Len(buffer))
  <2>1. PICK p \in Nat : p = Gone + Len(buffer)
    BY <1>2, <1>3
  <2>2. Holds(socket, p) /\ Holds(Chunk(sent + 1), p + Len(socket))
    BY <1>3, <1>4, <2>1
  <2>3. PICK r \in Seq(Tokens) : r = Chunk(sent + 1) /\ Len(r) = 7
    BY <1>4
  <2>4. socket \o r \in Seq(Tokens) /\ Len(socket \o r) = Len(socket) + Len(r) /\ Holds(socket \o r, p)
    BY <1>3, <2>2, <2>3, HoldsConcat
  <2> QED
    BY <1>1, <2>1, <2>3, <2>4, Zenon
<1>6. PICK b, t : b = Len(buffer) /\ t = Len(socket')
  OBVIOUS
<1>7. Gone' + b + t = 7 * sent'
  BY <1>1, <1>2, <1>3, <1>5, <1>6
<1>8. buffer' = buffer /\ Len(buffer') = b
  BY <1>1, <1>6
<1>9. Framed'
  <2>1. Gone' + Len(buffer') + Len(socket') = 7 * sent'
    BY <1>6, <1>7, <1>8, Zenon
  <2>2. 7 * sent' \in Nat
    BY <1>1
  <2>3. Gone' + Len(buffer') + Len(socket') <= 7 * sent'
    BY <2>1, <2>2
  <2>4. Holds(buffer', Gone') /\ Holds(socket', Gone' + Len(buffer')) /\ buffer' \in Seq(Tokens)
    BY <1>2, <1>3, <1>5, <1>8, Zenon
  <2> QED
    BY <1>5, <2>1, <2>3, <2>4, Zenon DEF Framed, Holds
<1>10. QED
  BY <1>1, <1>2, <1>9 DEF FrameInv

\* What has to be shown of a step that keeps the frame.
LEMMA StillFramed ==
  ASSUME buffer' \in Seq(Tokens), socket' \in Seq(Tokens),
         Holds(buffer', Gone'), Holds(socket', Gone' + Len(buffer')),
         Gone' + Len(buffer') + Len(socket') <= 7 * sent',
         ~closed' => Gone' + Len(buffer') + Len(socket') = 7 * sent'
  PROVE  Framed'
BY Zenon DEF Framed, Holds

LEMMA FrameClose ==
  ASSUME FrameInv, Close
  PROVE  FrameInv'
<1>1. /\ sent \in Nat /\ closed' = TRUE /\ reader \notin Dead /\ Framed /\ Holding
      /\ UNCHANGED <<buffer, wanted, document, header, length, reader, body, sent>>
  BY LongPullAssumption DEF FrameInv, Close, LongPullAssumption
<1>2. Gone' = Gone /\ Holding' /\ Gone \in Nat
  BY <1>1, GoneIs DEF Gone, Handed, Holding, Bodies
<1>3. /\ Len(buffer) \in Nat /\ Len(socket) \in Nat /\ buffer \in Seq(Tokens) /\ socket \in Seq(Tokens)
      /\ Holds(buffer, Gone) /\ Holds(socket, Gone + Len(buffer))
      /\ Gone + Len(buffer) + Len(socket) <= 7 * sent
  BY <1>1, LenProperties DEF Framed
<1>4. PICK k \in 0..Len(socket) : socket' = SubSeq(socket, 1, k)
  <2>1. Len(socket) \div 2 \in 0..Len(socket)
    BY <1>3
  <2> QED
    BY <1>3, <2>1 DEF Close
<1>5. socket' \in Seq(Tokens) /\ Len(socket') = k /\ Holds(socket', Gone + Len(buffer))
  BY <1>2, <1>3, <1>4, HoldsFront
<1>6. PICK b, s : b = Len(buffer) /\ s = Len(socket)
  OBVIOUS
<1>7. Gone + b + k <= 7 * sent
  BY <1>1, <1>2, <1>3, <1>6
<1>8. buffer' = buffer /\ Gone' + Len(buffer') + Len(socket') <= 7 * sent'
  <2>1. Len(buffer') = b /\ sent' = sent /\ buffer' = buffer
    BY <1>1, <1>6
  <2> QED
    BY <1>2, <1>5, <1>7, <2>1, Zenon
<1>9. Framed'
  BY <1>1, <1>2, <1>3, <1>5, <1>8, StillFramed, Zenon
<1>10. closed' \in BOOLEAN
  BY <1>1, Zenon
<1>11. QED
  BY <1>1, <1>2, <1>9, <1>10 DEF FrameInv

\* The reader takes up what has arrived.
LEMMA FrameReceive ==
  ASSUME Holding, Framed, NEW most \in Nat, NEW piece \in Pieces(most), sent \in Nat,
         NEW text, text = buffer \o piece,
         socket' = SubSeq(socket, Len(piece) + 1, Len(socket)),
         NEW a \in 0..Len(text), buffer' = SubSeq(text, a + 1, Len(text)),
         Gone' = Gone + a, closed' = closed, sent' = sent
  PROVE  Framed'
<1>1. /\ text \in Seq(Tokens) /\ socket' \in Seq(Tokens) /\ Len(text) # 0
      /\ Holds(text, Gone) /\ Holds(socket', Gone + Len(text))
      /\ Len(text) + Len(socket') = Len(buffer) + Len(socket)
  BY Received
<1>2. /\ Gone \in Nat /\ Len(text) \in Nat /\ Len(socket') \in Nat /\ Len(buffer) \in Nat /\ Len(socket) \in Nat
      /\ a \in Nat /\ Len(text) \in a..Len(text)
  <2>1. Gone \in Nat /\ Len(text) \in Nat /\ Len(socket') \in Nat /\ Len(buffer) \in Nat /\ Len(socket) \in Nat
    BY <1>1, GoneIs, LenProperties DEF Framed
  <2> QED
    BY <2>1
<1>3. buffer' \in Seq(Tokens) /\ Len(buffer') = Len(text) - a /\ Holds(buffer', Gone + a)
  BY <1>1, <1>2, HoldsPiece
<1>4. (Gone + a) + Len(buffer') = Gone + Len(text)
  <2>1. PICK b, t : b = Len(buffer') /\ t = Len(text)
    OBVIOUS
  <2>2. b = t - a /\ t \in Nat /\ Gone \in Nat /\ a \in Nat
    BY <1>2, <1>3, <2>1, Zenon
  <2>3. (Gone + a) + b = Gone + t
    BY <2>2
  <2> QED
    BY <2>1, <2>3, Zenon
<1>5. Holds(socket', Gone' + Len(buffer')) /\ Holds(buffer', Gone')
  BY <1>1, <1>3, <1>4
<1>6. PICK b, s, t, r : b = Len(buffer) /\ s = Len(socket) /\ t = Len(text) /\ r = Len(socket')
  OBVIOUS
<1>7. Gone' + Len(buffer') + Len(socket') = Gone + Len(buffer) + Len(socket)
  <2>1. b \in Nat /\ s \in Nat /\ t \in Nat /\ r \in Nat /\ t + r = b + s /\ Gone \in Nat
    BY <1>1, <1>2, <1>6
  <2>2. (Gone + t) + r = Gone + b + s
    BY <2>1
  <2>3. Gone' + Len(buffer') = Gone + t
    BY <1>4, <1>6
  <2> QED
    BY <2>2, <2>3, <1>6, Zenon
<1>8. /\ Gone' + Len(buffer') + Len(socket') <= 7 * sent'
      /\ ~closed' => Gone' + Len(buffer') + Len(socket') = 7 * sent'
  BY <1>7, Zenon DEF Framed
<1>9. QED
  BY <1>1, <1>3, <1>5, <1>8, StillFramed, Zenon

\* The reader leaves the socket alone and takes from its buffer.
LEMMA FrameTake ==
  ASSUME Holding, Framed, sent \in Nat, UNCHANGED <<socket, closed, sent>>,
         NEW a \in 0..Len(buffer), buffer' = SubSeq(buffer, a + 1, Len(buffer)), Gone' = Gone + a
  PROVE  Framed'
<1>1. /\ buffer \in Seq(Tokens) /\ socket \in Seq(Tokens) /\ Holds(buffer, Gone) /\ Holds(socket, Gone + Len(buffer))
  BY DEF Framed
<1>2. Gone \in Nat /\ Len(socket) \in Nat /\ Len(buffer) \in Nat
  BY <1>1, GoneIs, LenProperties
<1>3. a \in Nat /\ Len(buffer) \in a..Len(buffer)
  BY <1>2
<1>4. buffer' \in Seq(Tokens) /\ Len(buffer') = Len(buffer) - a /\ Holds(buffer', Gone + a)
  BY <1>1, <1>2, <1>3, HoldsPiece
<1>5. (Gone + a) + Len(buffer') = Gone + Len(buffer)
  <2>1. PICK b, t : b = Len(buffer') /\ t = Len(buffer)
    OBVIOUS
  <2>2. b = t - a /\ t \in Nat /\ Gone \in Nat /\ a \in Nat
    BY <1>2, <1>3, <1>4, <2>1, Zenon
  <2>3. (Gone + a) + b = Gone + t
    BY <2>2
  <2> QED
    BY <2>1, <2>3, Zenon
<1>6. Gone' + Len(buffer') = Gone + Len(buffer) /\ socket' = socket
  BY <1>5
<1>7. /\ Gone' + Len(buffer') + Len(socket') <= 7 * sent'
      /\ ~closed' => Gone' + Len(buffer') + Len(socket') = 7 * sent'
  <2>1. sent' = sent /\ (closed' <=> closed)
    OBVIOUS
  <2>2. Gone' + Len(buffer') + Len(socket') = Gone + Len(buffer) + Len(socket)
    BY <1>6, Zenon
  <2>3. /\ Gone + Len(buffer) + Len(socket) <= 7 * sent
        /\ ~closed => Gone + Len(buffer) + Len(socket) = 7 * sent
    BY Zenon DEF Framed
  <2>4. Gone' + Len(buffer') + Len(socket') <= 7 * sent'
    BY <2>1, <2>2, <2>3, Zenon
  <2>5. ASSUME ~closed'
        PROVE  Gone' + Len(buffer') + Len(socket') = 7 * sent'
    <3>1. ~closed
      BY <2>1, <2>5, Zenon
    <3>2. Gone + Len(buffer) + Len(socket) = 7 * sent
      BY <2>3, <3>1, Zenon
    <3> QED
      BY <2>1, <2>2, <3>2, Zenon
  <2> QED
    BY <2>4, <2>5
<1>8. QED
  BY <1>1, <1>4, <1>6, <1>7, StillFramed, Zenon

\* An exception ends the reading and leaves what it held.
LEMMA FrameDies ==
  ASSUME FrameInv, reader = "reading", NEW e \in {"NotConnected", "TypeError", "LongPullException"}, Dies(e),
         wanted # 0 => e = "LongPullException"
  PROVE  FrameInv'
<1>1. /\ reader' = e /\ UNCHANGED <<closed, wanted, document, header, length, body, sent>> /\ Holding
  BY DEF Dies, FrameInv
<1>2. Holding'
  BY <1>1 DEF Holding, Handed, Bodies
<1>3. reader' \in Dead
  BY <1>1 DEF Dead
<1>4. sent' \in 0..MaxParts
  BY <1>1 DEF FrameInv
<1>5. closed' \in BOOLEAN
  BY <1>1, Zenon DEF FrameInv
<1>6. QED
  BY <1>1, <1>2, <1>3, <1>4, <1>5 DEF FrameInv

LEMMA FrameReadChunk ==
  ASSUME FrameInv, ReadChunk
  PROVE  FrameInv'
<1>1. /\ reader = "reading" /\ wanted = 0 /\ reader \notin Dead /\ Framed /\ Holding /\ sent \in Nat
  BY LongPullAssumption DEF FrameInv, ReadChunk, Dead, LongPullAssumption
<1>2. document = Scanner(<< >>) /\ header /\ Gone = 7 * Handed /\ Gone \in Nat /\ Handed \in Nat
  <2>1. document = Scanner(<< >>) /\ header
    BY <1>1 DEF Holding
  <2> QED
    BY <1>1, <2>1, GoneIs
<1>3. CASE Ended /\ Dies("NotConnected")
  BY <1>1, <1>3, FrameDies
<1>4. ASSUME NEW piece \in Pieces(ReadAhead), NEW text, text = buffer \o piece,
             socket' = SubSeq(socket, Len(piece) + 1, Len(socket)),
             \/ Ends(text) = {} /\ Dies("TypeError") /\ buffer' = text
             \/ Ends(text) # {} /\ Len(SizeLine(text)) # 2 /\ Dies("IncompleteRead") /\ buffer' = text
             \/ /\ Ends(text) # {} /\ Len(SizeLine(text)) = 2
                /\ wanted' = text[1][2] + 1 /\ buffer' = SubSeq(text, 3, Len(text))
                /\ UNCHANGED <<closed, document, header, length, reader, body, sent>>
      PROVE  FrameInv'
  <2>1. ReadAhead \in Nat
    BY LongPullAssumption DEF LongPullAssumption
  <2>2. text \in Seq(Tokens) /\ Holds(text, Gone)
    BY <1>1, <1>4, <2>1, Received
  <2>3. Holds(text, 7 * Handed)
    BY <1>2, <2>2
  <2>4. CASE Dies("TypeError")
    BY <1>1, <2>4, FrameDies
  <2>5. ASSUME Ends(text) # {}
        PROVE  Len(SizeLine(text)) = 2 /\ text[1][2] + 1 = 5 /\ Len(text) \in Nat /\ Len(text) >= 2
    BY <1>2, <2>2, <2>3, <2>5, SizeLineIs
  <2>6. ASSUME Ends(text) # {}, wanted' = text[1][2] + 1, buffer' = SubSeq(text, 3, Len(text)),
               UNCHANGED <<closed, document, header, length, reader, body, sent>>
        PROVE  FrameInv'
    <3>1. wanted' = 5
      BY <2>5, <2>6, Zenon
    <3>2. Holding' /\ Handed' = Handed
      BY <1>1, <1>2, <2>6, <3>1 DEF Holding, Handed, Bodies
    <3>3. Gone' = Gone + 2
      <4>1. document'.string = << >>
        BY <1>2, <2>6 DEF Scanner
      <4> QED
        BY <1>2, <3>1, <3>2, <4>1 DEF Gone
    <3>4. PICK a \in 0..Len(text) : a = 2 /\ a + 1 = 3
      BY <2>5, <2>6
    <3>5. buffer' = SubSeq(text, a + 1, Len(text)) /\ Gone' = Gone + a /\ closed' = closed /\ sent' = sent
      BY <2>6, <3>3, <3>4
    <3>6. Framed'
      BY <1>1, <1>4, <2>1, <3>4, <3>5, FrameReceive
    <3>7. closed' \in BOOLEAN
      BY <2>6, Zenon DEF FrameInv
    <3>8. sent' \in 0..MaxParts /\ reader' = "reading"
      BY <1>1, <2>6 DEF FrameInv
    <3> QED
      BY <3>2, <3>6, <3>7, <3>8 DEF FrameInv
  <2> QED
    BY <1>4, <2>4, <2>5, <2>6, Zenon
<1>5. QED
  <2>1. CASE Ended /\ Dies("NotConnected") /\ UNCHANGED <<socket, buffer>>
    BY <2>1, <1>3
  <2>2. ASSUME NEW piece \in Pieces(ReadAhead),
          LET text == buffer \o piece
          IN  /\ socket' = SubSeq(socket, Len(piece) + 1, Len(socket))
              /\ \/ Ends(text) = {} /\ Dies("TypeError") /\ buffer' = text
                 \/ /\ Ends(text) # {} /\ Len(SizeLine(text)) # 2
                    /\ Dies("IncompleteRead") /\ buffer' = text
                 \/ /\ Ends(text) # {} /\ Len(SizeLine(text)) = 2
                    /\ wanted' = text[1][2] + 1 /\ buffer' = SubSeq(text, 3, Len(text))
                    /\ UNCHANGED <<closed, document, header, length, reader, body, sent>>
        PROVE  FrameInv'
    BY <2>2, <1>4, Zenon
  <2> QED
    BY <2>1, <2>2, Zenon DEF ReadChunk

LEMMA FrameReadAll ==
  ASSUME FrameInv, ReadAll
  PROVE  FrameInv'
<1>1. /\ reader = "reading" /\ wanted = 5 /\ reader \notin Dead /\ Framed /\ Holding /\ sent \in Nat
  BY LongPullAssumption DEF FrameInv, ReadAll, Dead, LongPullAssumption, Holding
<1>2. document = Scanner(<< >>) /\ header /\ Gone = 7 * Handed + 2 /\ Gone \in Nat /\ Handed \in Nat
  <2>1. document = Scanner(<< >>) /\ header
    BY <1>1 DEF Holding
  <2> QED
    BY <1>1, <2>1, GoneIs
<1>3. buffer \in Seq(Tokens) /\ Holds(buffer, Gone) /\ Len(buffer) \in Nat
  BY <1>1, LenProperties DEF Framed
<1>4. CASE Dies("LongPullException")
  BY <1>1, <1>4, FrameDies
<1>5. ASSUME Len(buffer) < wanted, NEW piece \in Pieces(wanted - Len(buffer)),
             socket' = SubSeq(socket, Len(piece) + 1, Len(socket)), buffer' = buffer \o piece,
             UNCHANGED <<closed, wanted, document, header, length, reader, body, sent>>
      PROVE  FrameInv'
  <2>1. PICK most \in Nat : most = wanted - Len(buffer)
    <3>1. PICK l : l = Len(buffer)
      OBVIOUS
    <3>2. l \in Nat /\ l < wanted
      BY <1>3, <1>5, <3>1, Zenon
    <3>3. wanted - l \in Nat
      BY <1>1, <3>2
    <3> QED
      BY <3>1, <3>3, Zenon
  <2>2. PICK text : text = buffer \o piece
    OBVIOUS
  <2>3. text \in Seq(Tokens)
    BY <1>1, <1>5, <2>1, <2>2, Received
  <2>4. PICK a \in 0..Len(text) : a = 0 /\ a + 1 = 1
    BY <2>3, LenProperties
  <2>5. buffer' = SubSeq(text, a + 1, Len(text))
    <3>1. SubSeq(text, 1, Len(text)) = text
      BY <2>3, SubSeqFull
    <3> QED
      BY <1>5, <2>2, <2>4, <3>1, Zenon
  <2>6. Holding' /\ Gone' = Gone + a
    BY <1>1, <1>2, <1>5, <2>4 DEF Holding, Gone, Handed, Bodies
  <2>7. closed' = closed /\ sent' = sent
    BY <1>5
  <2>8. piece \in Pieces(most)
    BY <1>5, <2>1
  <2>9. Framed'
    BY <1>1, <1>5, <2>2, <2>4, <2>5, <2>6, <2>7, <2>8, FrameReceive, Zenon
  <2>10. closed' \in BOOLEAN
    BY <1>5, Zenon DEF FrameInv
  <2>11. sent' \in 0..MaxParts /\ reader' = "reading"
    BY <1>1, <1>5 DEF FrameInv
  <2> QED
    BY <2>6, <2>9, <2>10, <2>11 DEF FrameInv
<1>6. ASSUME Len(buffer) >= wanted,
             document' = Scanner(document.string \o SubSeq(buffer, 1, wanted - 1)),
             buffer' = SubSeq(buffer, wanted + 1, Len(buffer)),
             wanted' = 0, reader' = "document",
             UNCHANGED <<socket, closed, header, length, body, sent>>
      PROVE  FrameInv'
  <2>1. document' = Scanner(Part(Handed + 1))
    <3>1. document.string = << >> /\ wanted - 1 = 4
      BY <1>1, <1>2 DEF Scanner
    <3>2. SubSeq(buffer, 1, 4) = Part(Handed + 1)
      BY <1>1, <1>2, <1>3, <1>6, DataIs
    <3>3. << >> \o Part(Handed + 1) = Part(Handed + 1)
      BY PartIs, ConcatEmptySeq
    <3> QED
      BY <1>6, <3>1, <3>2, <3>3, Zenon
  <2>2. Handed' = Handed
    BY <1>6 DEF Handed
  <2>3. Holding'
    BY <1>1, <1>2, <1>6, <2>1, <2>2 DEF Holding, Bodies
  <2>4. Gone' = Gone + 5
    <3>1. document'.string # << >>
      <4>1. document'.string = Part(Handed + 1)
        BY <2>1 DEF Scanner
      <4> QED
        BY <4>1, PartIs
    <3> QED
      BY <1>2, <2>2, <3>1 DEF Gone
  <2>5. PICK a \in 0..Len(buffer) : a = 5 /\ a = wanted
    BY <1>1, <1>3, <1>6
  <2>6. buffer' = SubSeq(buffer, a + 1, Len(buffer)) /\ Gone' = Gone + a
    BY <1>6, <2>4, <2>5
  <2>7. Framed'
    BY <1>1, <1>6, <2>5, <2>6, FrameTake
  <2>8. closed' \in BOOLEAN
    BY <1>6, Zenon DEF FrameInv
  <2>9. sent' \in 0..MaxParts
    BY <1>6 DEF FrameInv
  <2> QED
    BY <1>6, <2>3, <2>7, <2>8, <2>9 DEF FrameInv
<1>7. QED
  BY <1>4, <1>5, <1>6, Zenon DEF ReadAll

\* Nothing of what is on its way is touched.
LEMMA FrameRests ==
  ASSUME Framed, UNCHANGED <<socket, closed, buffer, sent>>, Gone' = Gone
  PROVE  Framed'
<1>1. /\ buffer' \in Seq(Tokens) /\ socket' \in Seq(Tokens)
      /\ Holds(buffer', Gone') /\ Holds(socket', Gone' + Len(buffer'))
      /\ Gone' + Len(buffer') + Len(socket') <= 7 * sent'
  BY DEF Framed
<1>2. ~closed' => Gone' + Len(buffer') + Len(socket') = 7 * sent'
  BY DEF Framed
<1>3. QED
  BY <1>1, <1>2, StillFramed

LEMMA FrameHeader ==
  ASSUME FrameInv, Header
  PROVE  FrameInv'
<1>1. /\ reader = "document" /\ RestLen(document) >= length /\ header /\ Framed /\ Holding /\ Handed \in Nat /\ length = 1
  BY GoneIs DEF FrameInv, Header, Dead, Holding
<1>2. document = Scanner(Part(Handed + 1))
  <2>1. document # Scanner(<< >>)
    <3>1. SUFFICES ASSUME document = Scanner(<< >>) PROVE FALSE
      OBVIOUS
    <3>2. RestLen(document) = 0
      BY <3>1 DEF Scanner, RestLen, Rest
    <3> QED
      BY <1>1, <3>2
  <2> QED
    BY <1>1, <2>1 DEF Holding
<1>3. PICK checked : checked = Check(Scanner(Part(Handed + 1)), Anchored(<<Boundary>>))
  OBVIOUS
<1>4. Matched(checked)
  BY <1>3, BoundaryIsFound
<1>5. PICK m : checked \in [string : {Part(Handed + 1)}, pos : {0}, history : {<<m>>}]
  BY <1>3, BoundaryIsFound
<1>6. /\ document' \in {ScanUntil(checked, Literal(<<Blank>>))}
      /\ length' \in {line[2] : line \in {document.string[k] : k \in {k \in 1..document'.pos : document.string[k][1] = "length"}}}
      /\ header' = FALSE
      /\ UNCHANGED <<socket, closed, buffer, wanted, reader, body, sent>>
  BY <1>2, <1>3, <1>4, Zenon DEF Header
<1>7. document'.string = Part(Handed + 1) /\ document'.pos = 3
  BY <1>5, <1>6, BlankLineIsFound
<1>8. length' = 1
  <2>1. PICK src : src = document.string
    OBVIOUS
  <2>2. src = Part(Handed + 1)
    BY <1>2, <2>1 DEF Scanner
  <2>3. src[1] = Boundary /\ src[2] = <<"length", 1>> /\ src[3] = Blank
    BY <2>2, PartIs
  <2>4. PICK k \in 1..3 : src[k][1] = "length" /\ length' = src[k][2]
    BY <1>6, <1>7, <2>1
  <2>5. k # 1 /\ k # 3
    BY <2>3, <2>4, TokensDiffer
  <2>6. k = 2
    BY <2>5
  <2>7. length' = <<"length", 1>>[2]
    BY <2>3, <2>4, <2>6
  <2> QED
    BY <2>7, TokensDiffer
<1>9. Handed' = Handed
  BY <1>6 DEF Handed
<1>10. Holding'
  BY <1>1, <1>2, <1>6, <1>7, <1>8, <1>9 DEF Holding, Bodies
<1>11. document.string = document'.string
  BY <1>2, <1>7 DEF Scanner
<1>12. Gone' = Gone
  BY <1>6, <1>9, <1>11 DEF Gone
<1>13. Framed'
  BY <1>1, <1>6, <1>12, FrameRests
<1>14. closed' \in BOOLEAN
  BY <1>6, Zenon DEF FrameInv
<1>15. reader' = "document" /\ sent' \in 0..MaxParts
  BY <1>1, <1>6 DEF FrameInv
<1>16. QED
  BY <1>10, <1>13, <1>14, <1>15 DEF FrameInv

\* What is handed over is the body of the part that follows.
LEMMA BodyIs ==
  ASSUME FrameInv, Body
  PROVE  /\ Handed + 1 \in 1..MaxParts /\ Handed \in Nat /\ Handed + 1 <= sent /\ body' = BodyOf(Handed + 1)
         /\ document' = Scanner(<< >>) /\ document.string = Part(Handed + 1)
         /\ wanted = 0
<1>1. /\ Framed /\ Holding /\ Handed \in Nat /\ length = 1 /\ sent \in 0..MaxParts /\ MaxParts \in Nat /\ wanted = 0
  BY GoneIs, LongPullAssumption DEF FrameInv, Body, Dead, Holding, LongPullAssumption
<1>2. document.string = Part(Handed + 1) /\ document.pos = 3
  BY <1>1 DEF Body, Holding
<1>3. Gone = 7 * Handed + 7
  BY <1>1, <1>2, GoneIs
<1>4. Handed + 1 <= sent
  <2>1. Len(buffer) \in Nat /\ Len(socket) \in Nat /\ Gone + Len(buffer) + Len(socket) <= 7 * sent
    BY <1>1, LenProperties DEF Framed
  <2> QED
    BY <1>1, <1>3, <2>1
<1>5. PICK src : src = Part(Handed + 1)
  OBVIOUS
<1>6. PICK rest : rest = Rest(document)
  OBVIOUS
<1>7. Len(src) = 4 /\ src[4] = <<"body", Handed + 1>>
  BY <1>5, PartIs
<1>8. rest = SubSeq(src, 4, 4)
  BY <1>2, <1>5, <1>6, <1>7 DEF Rest
<1>9. PICK T : T = {<<"body", Handed + 1>>}
  OBVIOUS
<1>10. rest \in Seq(T) /\ Len(rest) = 1 /\ rest[1] = <<"body", Handed + 1>>
  BY <1>7, <1>8, <1>9, SubSeqProperties
<1>11. rest = BodyOf(Handed + 1)
  <2>1. BodyOf(Handed + 1) \in Seq(T) /\ Len(BodyOf(Handed + 1)) = 1 /\ BodyOf(Handed + 1)[1] = <<"body", Handed + 1>>
    BY <1>9 DEF BodyOf
  <2>2. \A u, v \in Seq(T) : Len(u) = 1 /\ Len(v) = 1 /\ u[1] = v[1] => u = v
    BY SeqEqual
  <2> QED
    BY <1>10, <2>1, <2>2, Zenon
<1>12. SubSeq(rest, 1, 1) = rest
  BY <1>10, SubSeqFull
<1>13. SubSeq(rest, 2, 1) = << >>
  BY SubSeqEmpty
<1>14. body' = SubSeq(rest, 1, 1)
  BY <1>1, <1>6 DEF Body
<1>15. document' = Scanner(SubSeq(rest, 2, 1))
  <2>1. document' = Scanner(SubSeq(Rest(document), length + 1, Len(Rest(document))))
    BY DEF Body, RestLen
  <2>2. length + 1 = 2
    BY <1>1
  <2>3. Len(Rest(document)) = 1
    BY <1>6, <1>10, Zenon
  <2> QED
    BY <1>6, <2>1, <2>2, <2>3, Zenon
<1>16. Handed + 1 \in 1..MaxParts
  BY <1>1, <1>4
<1>17. body' = BodyOf(Handed + 1)
  BY <1>11, <1>12, <1>14, Zenon
<1>18. document' = Scanner(<< >>)
  BY <1>13, <1>15, Zenon
<1>19. QED
  BY <1>1, <1>2, <1>4, <1>16, <1>17, <1>18

LEMMA FrameBody ==
  ASSUME FrameInv, Body
  PROVE  FrameInv' /\ Handed' = Handed + 1
<1>1. /\ Handed + 1 \in 1..MaxParts /\ Handed \in Nat /\ body' = BodyOf(Handed + 1)
      /\ document' = Scanner(<< >>) /\ document.string = Part(Handed + 1) /\ wanted = 0
  BY BodyIs
<1>2. /\ Framed /\ Holding /\ UNCHANGED <<socket, closed, buffer, wanted, sent>>
      /\ length' = 1 /\ header' = TRUE /\ reader' = "callback"
  BY DEF FrameInv, Body, Dead
<1>3. body' \in Bodies /\ body' # << >> /\ Handed' = Handed + 1
  <2>1. Len(body') = 1 /\ body'[1] = <<"body", Handed + 1>>
    BY <1>1 DEF BodyOf
  <2>2. body'[1][2] = Handed + 1
    BY <2>1, TokensDiffer
  <2>3. body' # << >>
    BY <2>1
  <2> QED
    BY <1>1, <2>2, <2>3 DEF Bodies, Handed
<1>4. Holding'
  <2>1. header'
    BY <1>2
  <2> QED
    BY <1>1, <1>2, <1>3, <2>1 DEF Holding, Bodies
<1>5. Gone' = Gone
  <2>1. document'.string = << >>
    BY <1>1 DEF Scanner
  <2>2. Gone = 7 * Handed + 7
    BY <1>1, <1>2, GoneIs
  <2> QED
    BY <1>1, <1>2, <1>3, <2>1, <2>2 DEF Gone
<1>6. Framed'
  BY <1>2, <1>5, FrameRests
<1>7. closed' \in BOOLEAN
  BY <1>2, Zenon DEF FrameInv
<1>8. sent' \in 0..MaxParts
  BY <1>2 DEF FrameInv
<1>9. QED
  BY <1>2, <1>3, <1>4, <1>6, <1>7, <1>8 DEF FrameInv

\* Between two bodies the thread calls back and goes on where it was.
LEMMA FrameGoesOn ==
  ASSUME FrameInv, reader \notin Dead,
         UNCHANGED <<socket, closed, buffer, wanted, document, header, length, body, sent>>,
         \/ reader \in {"callback", "changed"} /\ reader' \in {"changed", "queue"}
         \/ reader = "queue" /\ reader' = "document"
         \/ reader = "document" /\ RestLen(document) < length /\ reader' = "reading"
  PROVE  FrameInv'
<1>1. Framed /\ Holding /\ Handed \in Nat /\ length = 1
  BY GoneIs DEF FrameInv, Holding
<1>2. Handed' = Handed /\ Gone' = Gone
  BY DEF Handed, Gone
<1>3. document = Scanner(<< >>) /\ header
  <2>1. SUFFICES ASSUME document.string = Part(Handed + 1), document.pos \in {0, 3}
                 PROVE  ~(RestLen(document) < length) /\ reader = "document"
    <3>1. Scanner(Part(Handed + 1)).string = Part(Handed + 1) /\ Scanner(Part(Handed + 1)).pos = 0
      BY DEF Scanner
    <3> QED
      BY <1>1, <3>1 DEF Holding
  <2>2. PICK src : src = Part(Handed + 1)
    OBVIOUS
  <2>3. Len(src) = 4 /\ src \in Seq(TokensOf(Handed + 1))
    BY <2>2, PartIs
  <2>4. PICK p \in {0, 3} : p = document.pos
    BY <2>1
  <2>5. Len(SubSeq(src, p + 1, 4)) = 4 - p
    <3>1. \A i \in (p + 1)..4 : src[i] \in TokensOf(Handed + 1)
      BY <2>3, ElementOfSeq
    <3> QED
      BY <3>1, SubSeqProperties
  <2>6. RestLen(document) = Len(SubSeq(src, p + 1, 4))
    BY <2>1, <2>2, <2>3, <2>4 DEF RestLen, Rest
  <2>7. document # Scanner(<< >>)
    <3>1. Part(Handed + 1) # << >>
      BY PartIs
    <3>2. \A d : d = Scanner(<< >>) => d.string = << >>
      BY DEF Scanner
    <3> QED
      BY <2>1, <3>1, <3>2
  <2> QED
    BY <1>1, <2>4, <2>5, <2>6, <2>7 DEF Holding
<1>4. Holding'
  <2>1. wanted = 0
    BY <1>1 DEF Holding, Dead
  <2>2. body' \in Bodies' /\ length' = 1 /\ wanted' = 0 /\ document' = Scanner(<< >>)
    BY <1>1, <1>3, <2>1 DEF Holding, Bodies
  <2>3. header'
    BY <1>3
  <2>4. reader' \in {"callback", "changed", "queue"} => body' # << >>
    BY <1>1 DEF Holding
  <2> QED
    BY <2>2, <2>3, <2>4 DEF Holding
<1>5. Framed'
  BY <1>1, <1>2, FrameRests
<1>6. closed' \in BOOLEAN
  BY Zenon DEF FrameInv
<1>7. sent' \in 0..MaxParts
  BY DEF FrameInv
<1>8. QED
  BY <1>4, <1>5, <1>6, <1>7 DEF FrameInv

LEMMA FrameNext ==
  ASSUME FrameInv, [Next]_vars
  PROVE  FrameInv' /\ (Body \/ body' = body)
<1>1. CASE SendPart
  BY <1>1, FrameSend DEF SendPart, Send
<1>2. CASE Close
  BY <1>2, FrameClose DEF Close
<1>3. CASE ReadChunk
  BY <1>3, FrameReadChunk DEF ReadChunk, Dies
<1>4. CASE ReadAll
  BY <1>4, FrameReadAll DEF ReadAll, Dies
<1>5. CASE Header
  BY <1>5, FrameHeader DEF Header, Dies
<1>6. CASE Body
  BY <1>6, FrameBody
<1>7. CASE NextChunk
  BY <1>7, FrameGoesOn DEF NextChunk, Dead
<1>8. CASE ProcessXml
  BY <1>8, FrameGoesOn DEF ProcessXml, Dead
<1>9. CASE XmlCallback
  BY <1>9, FrameGoesOn DEF XmlCallback, Dead
<1>10. CASE PutXml
  BY <1>10, FrameGoesOn DEF PutXml, Dead
<1>11. CASE UNCHANGED stream
  BY <1>11, FrameStutter DEF stream
<1>12. (\E t \in Timers : Publishes(t)) => UNCHANGED stream
  BY DEF Publishes, Elsewhere, Start, GetXml, ChangedItems, Convert, Publish, ResetChanged, Hold
<1>13. UNCHANGED vars => UNCHANGED stream
  BY DEF vars
<1>14. QED
  BY <1>1, <1>2, <1>3, <1>4, <1>5, <1>6, <1>7, <1>8, <1>9, <1>10, <1>11, <1>12, <1>13 DEF Next, Reader, Reads

\* The reader hands over the parts one by one, in the order they were sent, and never loses
\* the frame of the stream: however many parts are sent, however the network cuts them, and
\* however much is read to find a size line.
THEOREM FrameIsKept == Spec => FramesKept
<1>1. Init => FrameInv
  BY FrameInit
<1>2. FrameInv /\ [Next]_vars => FrameInv'
  BY FrameNext
<1>3. ASSUME FrameInv, FrameInv', [Next]_vars
      PROVE  [/\ reader' \notin {"Framing error", "IncompleteRead"}
              /\ body' # body => \E n \in 1..MaxParts : body' = BodyOf(n) /\ body = IF n = 1 THEN << >> ELSE BodyOf(n - 1)]_vars
  <2>1. reader' \notin {"Framing error", "IncompleteRead"}
    BY <1>3 DEF FrameInv
  <2>2. ASSUME body' # body
        PROVE  \E n \in 1..MaxParts : body' = BodyOf(n) /\ body = IF n = 1 THEN << >> ELSE BodyOf(n - 1)
    <3>1. Body
      BY <1>3, <2>2, FrameNext
    <3>2. Handed + 1 \in 1..MaxParts /\ Handed \in Nat /\ body' = BodyOf(Handed + 1)
      BY <1>3, <3>1, BodyIs
    <3>3. PICK n \in 1..MaxParts : n = Handed + 1
      BY <3>2
    <3>4. body' = BodyOf(n) /\ n - 1 = Handed /\ (n = 1 <=> Handed = 0)
      BY <3>2, <3>3
    <3>5. (Handed = 0 <=> body = << >>) /\ (Handed # 0 => body = BodyOf(Handed))
      BY <1>3, HandedIs DEF FrameInv, Holding
    <3>6. body = IF n = 1 THEN << >> ELSE BodyOf(n - 1)
      BY <3>4, <3>5
    <3> QED
      BY <3>4, <3>6
  <2> QED
    BY <2>1, <2>2
<1>4. QED
  BY <1>1, <1>2, <1>3, PTL DEF Spec, FramesKept

-----------------------------------------------------------------------------
(* The types of what is published                                           *)

Changes == [Topics -> Values]
Data == {NoData} \cup {<<v>> : v \in Changes}
Threads == [at : {"idle", "get", "items", "convert", "publish", "reset", "hold"}, data : Data,
            topic : {1, 2}, items : Changes]

PublisherTypes ==
  /\ parts \in Seq(SUBSET Topics) /\ Len(parts) = sent
  /\ overlap \in BOOLEAN
  /\ di_current \in Changes /\ di_changed \in Changes /\ local_di \in Changes /\ msg \in Changes
  /\ topic \in [Topics -> Values \cup {-1}]
  /\ XML_queue \in Seq(Changes)
  /\ data_hold \in Data
  /\ timer \in [Timers -> Threads]

LEMMA ItemsAre ==
  /\ DOMAIN Items = {1, 2} /\ Len(Items) = 2
  /\ Topics = {Items[1], Items[2]} /\ Items[1] # Items[2]
<1>1. DOMAIN Items = {1, 2} /\ Len(Items) = 2 /\ Items[1] = "DoorState" /\ Items[2] = "MaterialLoad"
  BY DEF Items
<1>2. QED
  BY <1>1 DEF Topics

LEMMA ValuesAre ==
  /\ MaxParts \in Nat /\ Values = 0..MaxParts /\ 0 \in Values /\ Values \subseteq Int /\ None \in Changes
<1>1. MaxParts \in Nat
  BY LongPullAssumption DEF LongPullAssumption
<1>2. QED
  BY <1>1 DEF Values, None, Changes

LEMMA IdleIs ==
  Idle \in Threads /\ Idle.at = "idle" /\ Idle.topic = 1 /\ Idle.items = None /\ Idle.data = NoData
BY ValuesAre DEF Idle, Threads, Data

LEMMA HandedIsSent ==
  ASSUME FrameInv, reader \notin Dead
  PROVE  Handed \in 0..sent /\ (body # << >> => Handed \in 1..sent /\ body[1][2] = Handed)
<1>1. Framed /\ Holding /\ Handed \in Nat /\ Gone \in Nat /\ Gone >= 7 * Handed /\ sent \in Nat
  BY GoneIs, LongPullAssumption DEF FrameInv, LongPullAssumption
<1>2. Len(buffer) \in Nat /\ Len(socket) \in Nat /\ Gone + Len(buffer) + Len(socket) <= 7 * sent
  BY <1>1, LenProperties DEF Framed
<1>3. Handed <= sent
  BY <1>1, <1>2
<1>4. body # << >> => Handed # 0 /\ body[1][2] = Handed
  BY <1>1, HandedIs DEF Holding, Handed
<1>5. QED
  BY <1>1, <1>3, <1>4

LEMMA TypesInit ==
  ASSUME Init
  PROVE  PublisherTypes
<1>1. parts = << >> /\ XML_queue = << >> /\ sent = 0
  BY DEF Init, LongPullInit
<1>2. parts \in Seq(SUBSET Topics) /\ Len(parts) = sent /\ XML_queue \in Seq(Changes)
  BY <1>1, EmptySeq
<1>3. di_current \in Changes /\ di_changed \in Changes /\ local_di \in Changes /\ msg \in Changes
  BY ValuesAre DEF Init
<1>4. topic \in [Topics -> Values \cup {-1}] /\ data_hold \in Data
  BY DEF Init, Data
<1>5. timer \in [Timers -> Threads]
  BY IdleIs DEF Init
<1>6. overlap \in BOOLEAN
  BY Zenon DEF Init
<1>7. QED
  BY <1>2, <1>3, <1>4, <1>5, <1>6 DEF PublisherTypes

\* The reader's part of the types.
LEMMA TypesReader ==
  ASSUME PublisherTypes, FrameInv, SendPart \/ (Close /\ UNCHANGED bridge) \/ Reader
  PROVE  PublisherTypes'
<1> USE DEF PublisherTypes
<1>1. CASE SendPart
  <2>1. PICK changes \in SUBSET Topics : parts' = Append(parts, changes) /\ sent' = sent + 1
    BY <1>1 DEF SendPart, Send
  <2>2. parts' \in Seq(SUBSET Topics) /\ Len(parts') = sent'
    BY <2>1, AppendProperties
  <2>3. overlap' \in BOOLEAN
    BY <1>1, Zenon DEF SendPart
  <2> QED
    BY <1>1, <2>2, <2>3 DEF SendPart
<1>2. ASSUME UNCHANGED bridge, sent' = sent
      PROVE  PublisherTypes'
  <2>1. overlap' \in BOOLEAN
    BY <1>2, Zenon DEF bridge
  <2> QED
    BY <1>2, <2>1 DEF bridge
<1>3. CASE ProcessXml
  <2>1. body # << >> /\ reader \notin Dead
    BY <1>3 DEF ProcessXml, FrameInv, Holding, Dead
  <2>2. PICK n \in 1..sent : n = body[1][2]
    BY <2>1, HandedIsSent
  <2>3. n \in Values /\ 0 \in Values
    BY ValuesAre DEF FrameInv
  <2>4. local_di' = [d \in Topics |-> IF d \in parts[n] THEN n ELSE 0]
        /\ di_current' = [d \in Topics |-> IF d \in parts[n] THEN n ELSE di_current[d]]
        /\ parts' = [parts EXCEPT ![n] = {}] /\ sent' = sent
    BY <1>3, <2>2, Zenon DEF ProcessXml
  <2>5. local_di' \in Changes
    BY <2>3, <2>4 DEF Changes
  <2>6. di_current' \in Changes
    BY <2>3, <2>4 DEF Changes
  <2>7. parts' \in Seq(SUBSET Topics) /\ Len(parts') = sent'
    BY <2>4, ExceptSeq
  <2>8. overlap' \in BOOLEAN
    BY <1>3, Zenon DEF ProcessXml
  <2> QED
    BY <1>3, <2>5, <2>6, <2>7, <2>8 DEF ProcessXml
<1>4. CASE XmlCallback
  <2>1. overlap' \in BOOLEAN
    BY <1>4, Zenon DEF XmlCallback
  <2> QED
    BY <1>4, <2>1, ValuesAre DEF XmlCallback
<1>5. CASE PutXml
  <2>1. overlap' \in BOOLEAN
    BY <1>5, Zenon DEF PutXml
  <2>2. XML_queue' \in Seq(Changes)
    BY <1>5, AppendProperties DEF PutXml
  <2> QED
    BY <1>5, <2>1, <2>2 DEF PutXml
<1>6. CASE Reads /\ UNCHANGED bridge
  <2>1. sent' = sent
    BY <1>6 DEF Reads, ReadChunk, ReadAll, Header, Body, NextChunk, Dies
  <2> QED
    BY <1>6, <2>1, <1>2
<1>7. CASE Close /\ UNCHANGED bridge
  BY <1>7, <1>2 DEF Close
<1>8. QED
  BY <1>1, <1>3, <1>4, <1>5, <1>6, <1>7 DEF Reader

\* What a thread does to itself.
LEMMA SetsThread ==
  ASSUME timer \in [Timers -> Threads], NEW t \in Timers, NEW thread \in Threads, Sets(t, thread)
  PROVE  /\ timer' \in [Timers -> Threads]
         /\ timer'[t] = thread /\ \A u \in Timers : u # t => timer'[u] = timer[u]
BY DEF Sets

\* The timers' part of the types.
LEMMA TypesTimers ==
  ASSUME PublisherTypes, NEW t \in Timers, Publishes(t)
  PROVE  PublisherTypes'
<1>1. /\ parts \in Seq(SUBSET Topics) /\ Len(parts) = sent
      /\ di_current \in Changes /\ di_changed \in Changes /\ local_di \in Changes /\ msg \in Changes
      /\ topic \in [Topics -> Values \cup {-1}] /\ XML_queue \in Seq(Changes)
      /\ data_hold \in Data /\ timer \in [Timers -> Threads]
  BY DEF PublisherTypes
<1>2. PICK old \in Threads : old = timer[t]
  BY <1>1
<1>3. /\ old.at \in {"idle", "get", "items", "convert", "publish", "reset", "hold"} /\ old.data \in Data
      /\ old.topic \in {1, 2} /\ old.items \in Changes
  BY DEF Threads
<1>4. ASSUME NEW thread \in Threads, Sets(t, thread), Elsewhere, di_changed' \in Changes,
             msg' \in Changes, topic' \in [Topics -> Values \cup {-1}], XML_queue' \in Seq(Changes), data_hold' \in Data
      PROVE  PublisherTypes'
  <2>1. timer' \in [Timers -> Threads]
    BY <1>1, <1>4, SetsThread
  <2>2. overlap' \in BOOLEAN
    BY <1>4, Zenon DEF Elsewhere, PublisherTypes
  <2>3. sent' = sent /\ parts' = parts /\ di_current' = di_current /\ local_di' = local_di
    BY <1>4 DEF Elsewhere, stream
  <2> QED
    BY <1>1, <1>4, <2>1, <2>2, <2>3 DEF PublisherTypes
<1>5. CASE Start(t)
  <2>1. /\ [Idle EXCEPT !.at = "get"] \in Threads /\ [Idle EXCEPT !.at = "items", !.data = data_hold] \in Threads
        /\ [Idle EXCEPT !.at = "hold"] \in Threads
    BY <1>1, IdleIs DEF Threads
  <2> QED
    BY <1>1, <1>4, <1>5, <2>1 DEF Start
<1>6. CASE GetXml(t)
  <2>1. Head(XML_queue) \in Changes /\ Tail(XML_queue) \in Seq(Changes)
    BY <1>1, <1>6, HeadTailProperties DEF GetXml
  <2>2. <<Head(XML_queue)>> \in Data
    BY <2>1 DEF Data
  <2>3. PICK v \in Data : v = <<Head(XML_queue)>>
    BY <2>2, Zenon
  <2>4. [old EXCEPT !.at = "items", !.data = v] \in Threads
    BY <1>3 DEF Threads
  <2>5. Sets(t, [old EXCEPT !.at = "items", !.data = v])
    BY <1>2, <1>6, <2>3, Zenon DEF GetXml
  <2>6. XML_queue' = Tail(XML_queue) /\ Elsewhere /\ UNCHANGED <<di_changed, data_hold, msg, topic>>
    BY <1>6 DEF GetXml
  <2> QED
    BY <1>1, <1>4, <2>1, <2>4, <2>5, <2>6
<1>7. CASE ChangedItems(t)
  <2>1. [old EXCEPT !.at = "convert", !.items = di_changed] \in Threads
    BY <1>1, <1>3 DEF Threads
  <2> QED
    BY <1>1, <1>2, <1>4, <1>7, <2>1 DEF ChangedItems
<1>8. CASE Convert(t)
  <2>1. [old EXCEPT !.at = "hold", !.items = None] \in Threads /\ [old EXCEPT !.at = "publish", !.items = None] \in Threads
    BY <1>3, ValuesAre DEF Threads
  <2>2. PICK d \in Topics : d = Items[old.topic]
    BY <1>3, ItemsAre
  <2>3. PICK v \in Values : v = IF old.items[d] # 0 THEN di_changed[d] ELSE di_current[d]
    BY <1>1 DEF Changes
  <2>4. msg' = msg \/ msg' = [msg EXCEPT ![d] = v]
    BY <1>2, <1>8, <2>2, <2>3 DEF Convert
  <2>5. msg' \in Changes
    BY <1>1, <2>4 DEF Changes
  <2>6. \/ Sets(t, [old EXCEPT !.at = "hold", !.items = None]) \/ Sets(t, [old EXCEPT !.at = "publish", !.items = None])
    BY <1>2, <1>8 DEF Convert
  <2>7. Elsewhere /\ UNCHANGED <<di_changed, XML_queue, data_hold, topic>>
    BY <1>8 DEF Convert
  <2> QED
    BY <1>1, <1>4, <2>1, <2>5, <2>6, <2>7
<1>9. CASE Publish(t)
  <2>1. PICK d \in Topics : d = Items[old.topic]
    BY <1>3, ItemsAre
  <2>2. topic' = [topic EXCEPT ![d] = msg[d]] /\ msg[d] \in Values
    BY <1>1, <1>2, <1>9, <2>1 DEF Publish, Changes
  <2>3. topic' \in [Topics -> Values \cup {-1}]
    BY <1>1, <2>2
  <2>4. PICK thread : thread = IF old.topic = Len(Items) THEN [old EXCEPT !.at = "reset"] ELSE [old EXCEPT !.at = "items", !.topic = @ + 1]
    OBVIOUS
  <2>5. thread \in Threads
    <3>1. CASE old.topic = 2
      BY <1>3, <2>4, <3>1, ItemsAre DEF Threads
    <3>2. CASE old.topic = 1
      <4>1. thread = [old EXCEPT !.at = "items", !.topic = 2]
        BY <2>4, <3>2, ItemsAre
      <4> QED
        BY <1>3, <4>1 DEF Threads
    <3> QED
      BY <1>3, <3>1, <3>2
  <2>6. Sets(t, thread)
    BY <1>2, <1>9, <2>4, Zenon DEF Publish
  <2>7. Elsewhere /\ UNCHANGED <<di_changed, XML_queue, data_hold, msg>>
    BY <1>9 DEF Publish
  <2> QED
    BY <1>1, <1>4, <2>3, <2>5, <2>6, <2>7
<1>10. CASE ResetChanged(t)
  <2>1. [old EXCEPT !.at = "hold"] \in Threads
    BY <1>3 DEF Threads
  <2> QED
    BY <1>1, <1>2, <1>4, <1>10, <2>1, ValuesAre DEF ResetChanged
<1>11. CASE Hold(t)
  BY <1>1, <1>2, <1>3, <1>4, <1>11, IdleIs DEF Hold
<1>12. QED
  BY <1>5, <1>6, <1>7, <1>8, <1>9, <1>10, <1>11 DEF Publishes

LEMMA TypesNext ==
  ASSUME PublisherTypes, FrameInv, [Next]_vars
  PROVE  PublisherTypes'
<1>1. UNCHANGED vars => PublisherTypes'
  <2>1. SUFFICES ASSUME UNCHANGED vars PROVE PublisherTypes'
    OBVIOUS
  <2>2. overlap' \in BOOLEAN
    BY <2>1, Zenon DEF vars, bridge, PublisherTypes
  <2> QED
    BY <2>1, <2>2 DEF vars, bridge, stream, PublisherTypes
<1>2. QED
  BY <1>1, TypesReader, TypesTimers DEF Next

LEMMA TypesAreOK ==
  ASSUME PublisherTypes, FrameInv
  PROVE  TypeOK
<1>1. Len(BodyOf(1)) = 1 /\ Len(Part(1)) = 4
  BY PartIs DEF BodyOf
<1>2. document.pos \in 0..Len(document.string)
  <2>1. CASE document = Scanner(<< >>)
    BY <2>1 DEF Scanner
  <2>2. CASE document.string = Part(Handed + 1) /\ document.pos \in {0, 3}
    <3>1. Len(document.string) = 4
      BY <2>2, PartIs
    <3> QED
      BY <2>2, <3>1
  <2>3. Scanner(Part(Handed + 1)).string = Part(Handed + 1) /\ Scanner(Part(Handed + 1)).pos = 0
    BY DEF Scanner
  <2> QED
    BY <2>1, <2>2, <2>3 DEF FrameInv, Holding
<1>3. header \in BOOLEAN
  BY Zenon DEF FrameInv, Holding
<1>4. closed \in BOOLEAN
  BY Zenon DEF FrameInv
<1>5. /\ sent \in 0..MaxParts /\ wanted \in 0..Len(Part(1)) + 1 /\ length \in 1..Len(BodyOf(1))
      /\ reader \in {"reading", "document", "callback", "changed", "queue"} \cup Dead
  <2>1. 5 \in 0..Len(Part(1)) + 1 /\ 0 \in 0..Len(Part(1)) + 1 /\ 1 \in 1..Len(BodyOf(1))
    <3>1. PICK b, p : b = Len(BodyOf(1)) /\ p = Len(Part(1))
      OBVIOUS
    <3>2. b = 1 /\ p = 4
      BY <1>1, <3>1, Zenon
    <3>3. 5 \in 0..p + 1 /\ 0 \in 0..p + 1 /\ 1 \in 1..b
      BY <3>2
    <3> QED
      BY <3>1, <3>3, Zenon
  <2>2. sent \in 0..MaxParts /\ wanted \in {0, 5} /\ length = 1
    BY DEF FrameInv, Holding
  <2>3. reader \in {"reading", "document", "callback", "changed", "queue"} \cup Dead
    BY DEF FrameInv, Dead
  <2> QED
    BY <2>1, <2>2, <2>3
<1>6. LongPullTypeOK
  BY <1>2, <1>3, <1>4, <1>5 DEF LongPullTypeOK
<1>7. Len(parts) = sent /\ \A n \in 1..sent : parts[n] \subseteq Topics
  BY ElementOfSeq DEF PublisherTypes
<1>8. \A n \in DOMAIN XML_queue : XML_queue[n] \in [Topics -> Values]
  BY ElementOfSeq, LenProperties DEF PublisherTypes, Changes
<1>9. data_hold = NoData \/ data_hold[1] \in [Topics -> Values]
  BY DEF PublisherTypes, Data, Changes
<1>10. \A t \in Timers :
         /\ timer[t].at \in {"idle", "get", "items", "convert", "publish", "reset", "hold"}
         /\ timer[t].topic \in DOMAIN Items /\ timer[t].items \in [Topics -> Values]
  BY ItemsAre DEF PublisherTypes, Threads, Changes
<1>11. {di_current, di_changed, local_di, msg} \subseteq [Topics -> Values] /\ topic \in [Topics -> Values \cup {-1}]
  BY DEF PublisherTypes, Changes
<1>12. overlap \in BOOLEAN
  BY Zenon DEF PublisherTypes
<1>13. QED
  BY <1>6, <1>7, <1>8, <1>9, <1>10, <1>11, <1>12 DEF TypeOK

\* The reader's and the publisher's variables have their types, for any number of parts and
\* of threads.
THEOREM PublisherTyped == Spec => []TypeOK
<1>1. Init => FrameInv /\ PublisherTypes
  BY FrameInit, TypesInit
<1>2. FrameInv /\ PublisherTypes /\ [Next]_vars => (FrameInv /\ PublisherTypes)'
  BY FrameNext, TypesNext
<1>3. FrameInv /\ PublisherTypes => TypeOK
  BY TypesAreOK
<1>4. QED
  BY <1>1, <1>2, <1>3, PTL DEF Spec

-----------------------------------------------------------------------------
(* That values only grow                                                    *)

LEMMA ValuesInit ==
  ASSUME Init
  PROVE  NeverBackInv
<1>1. /\ di_current = None /\ di_changed = None /\ local_di = None /\ msg = None /\ body = << >>
      /\ topic = [d \in Topics |-> -1] /\ timer = [t \in Timers |-> Idle]
  BY DEF Init, LongPullInit
<1>2. \A d \in Topics : None[d] = 0
  BY DEF None
<1>3. ValuesInv
  BY <1>1, <1>2 DEF ValuesInv, Handed
<1>4. RoundInv
  <2>1. \A k \in DOMAIN Items : ~Stale(Items[k])
    BY <1>1, <1>2, ItemsAre DEF Stale
  <2>2. \A t \in Timers : timer[t].at = "idle"
    BY <1>1, IdleIs
  <2> QED
    BY <1>1, <1>2, <2>1, <2>2 DEF RoundInv
<1>5. QED
  BY <1>3, <1>4 DEF NeverBackInv

LEMMA NumbersAre ==
  ASSUME PublisherTypes, NEW d \in Topics
  PROVE  /\ di_current[d] \in Int /\ di_changed[d] \in Int /\ local_di[d] \in Int /\ msg[d] \in Int /\ topic[d] \in Int
         /\ di_current[d] >= 0 /\ di_changed[d] >= 0
BY ValuesAre DEF PublisherTypes, Changes

\* What the reader notes is newer than all there was.
LEMMA ValuesReader ==
  ASSUME PublisherTypes, FrameInv, ValuesInv, SendPart \/ (Close /\ UNCHANGED bridge) \/ Reader
  PROVE  ValuesInv'
<1>1. \A d \in Topics :
        /\ di_current[d] \in Int /\ di_changed[d] \in Int /\ msg[d] \in Int
        /\ di_current[d] <= Handed /\ msg[d] <= di_current[d] /\ di_changed[d] <= di_current[d]
  BY NumbersAre DEF ValuesInv
<1>2. Handed \in Nat
  BY GoneIs DEF FrameInv
<1>3. ASSUME UNCHANGED <<di_current, di_changed, local_di, msg>>, reader # "changed", reader' # "changed",
             Handed' = Handed \/ Handed' = Handed + 1
      PROVE  ValuesInv'
  BY <1>1, <1>2, <1>3 DEF ValuesInv
<1>4. CASE SendPart
  <2>1. UNCHANGED <<di_current, di_changed, local_di, msg, reader, body>>
    BY <1>4 DEF SendPart, Send
  <2> QED
    BY <2>1 DEF ValuesInv, Handed
<1>5. CASE Close /\ UNCHANGED bridge
  BY <1>5 DEF Close, bridge, ValuesInv, Handed
<1>6. CASE Reads /\ UNCHANGED bridge
  <2>1. reader # "changed" /\ reader' # "changed"
    BY <1>6 DEF Reads, ReadChunk, ReadAll, Header, Body, NextChunk, Dies
  <2>2. Handed' = Handed \/ Handed' = Handed + 1
    <3>1. CASE Body
      BY <3>1, FrameBody
    <3>2. CASE body' = body
      BY <3>2 DEF Handed
    <3> QED
      BY <1>6, <3>1, <3>2 DEF Reads, ReadChunk, ReadAll, Header, NextChunk, Dies
  <2> QED
    BY <1>3, <1>6, <2>1, <2>2 DEF bridge
<1>7. CASE ProcessXml
  <2>1. body # << >> /\ reader = "callback"
    BY <1>7 DEF ProcessXml, FrameInv, Holding
  <2>2. Handed = body[1][2]
    BY <2>1 DEF Handed
  <2>3. /\ local_di' = [d \in Topics |-> IF d \in parts[Handed] THEN Handed ELSE 0]
        /\ di_current' = [d \in Topics |-> IF d \in parts[Handed] THEN Handed ELSE di_current[d]]
        /\ UNCHANGED <<di_changed, msg>> /\ Handed' = Handed /\ reader' = "changed"
    BY <1>7, <2>2 DEF ProcessXml, Handed
  <2> QED
    BY <1>1, <1>2, <2>3 DEF ValuesInv
<1>8. CASE XmlCallback
  <2>1. /\ di_changed' = local_di /\ UNCHANGED <<di_current, msg>> /\ Handed' = Handed /\ reader = "changed" /\ reader' = "queue"
    BY <1>8 DEF XmlCallback, Handed
  <2>2. \A d \in Topics : local_di[d] \in {0, di_current[d]} /\ di_current[d] >= 0
    BY <2>1, NumbersAre DEF ValuesInv
  <2> QED
    BY <1>1, <2>1, <2>2 DEF ValuesInv
<1>9. CASE PutXml
  <2>1. Handed' = Handed
    BY <1>9 DEF PutXml, Handed
  <2> QED
    BY <1>3, <1>9, <2>1 DEF PutXml
<1>10. QED
  BY <1>4, <1>5, <1>6, <1>7, <1>8, <1>9 DEF Reader

\* A thread leaves the reader alone, and what it says is what was noted.
LEMMA ValuesTimers ==
  ASSUME PublisherTypes, FrameInv, ValuesInv, NEW t \in Timers, Publishes(t)
  PROVE  ValuesInv'
<1>1. \A d \in Topics :
        /\ di_current[d] \in Int /\ di_changed[d] \in Int /\ msg[d] \in Int /\ di_current[d] >= 0
        /\ di_current[d] <= Handed /\ msg[d] <= di_current[d] /\ di_changed[d] <= di_current[d]
  BY NumbersAre DEF ValuesInv
<1>2. UNCHANGED <<di_current, local_di, reader>> /\ Handed' = Handed
  BY DEF Publishes, Start, GetXml, ChangedItems, Convert, Publish, ResetChanged, Hold, Elsewhere, stream, Handed
<1>3. di_changed' = di_changed \/ di_changed' = None
  BY DEF Publishes, Start, GetXml, ChangedItems, Convert, Publish, ResetChanged, Hold
<1>4. msg' = msg \/ Convert(t)
  BY DEF Publishes, Start, GetXml, ChangedItems, Publish, ResetChanged, Hold
<1>5. \A d \in Topics : msg'[d] = msg[d] \/ msg'[d] = di_changed[d] \/ msg'[d] = di_current[d]
  <2>1. CASE Convert(t)
    <3>1. PICK e \in Topics : e = Items[timer[t].topic]
      BY ItemsAre DEF PublisherTypes, Threads
    <3>2. \/ msg' = msg
          \/ msg' = [msg EXCEPT ![e] = IF timer[t].items[e] # 0 THEN di_changed[e] ELSE di_current[e]]
      BY <2>1, <3>1 DEF Convert
    <3> QED
      BY <3>2 DEF PublisherTypes, Changes
  <2> QED
    BY <1>4, <2>1
<1>6. \A d \in Topics : msg'[d] <= di_current[d]
  BY <1>1, <1>5
<1>7. \A d \in Topics : None[d] = 0
  BY DEF None
<1>8. QED
  BY <1>1, <1>2, <1>3, <1>6, <1>7 DEF ValuesInv

\* The reader makes nothing stale: what it notes last is what is current.
LEMMA RoundReader ==
  ASSUME PublisherTypes, FrameInv, ValuesInv, RoundInv, SendPart \/ (Close /\ UNCHANGED bridge) \/ Reader
  PROVE  RoundInv'
<1>1. UNCHANGED <<msg, timer, topic>>
  BY DEF SendPart, Close, Reader, Reads, ProcessXml, XmlCallback, PutXml, bridge
<1>2. \A t, u \in Timers : timer'[t].at # "idle" /\ timer'[u].at # "idle" => t = u
  BY <1>1 DEF RoundInv
<1>3. \A d \in Topics : topic'[d] <= msg'[d]
  BY <1>1 DEF RoundInv
<1>4. CASE XmlCallback
  <2>1. ASSUME NEW k \in DOMAIN Items, Stale(Items[k])'
        PROVE  FALSE
    <3>1. PICK d \in Topics : d = Items[k]
      BY ItemsAre
    <3>2. di_changed' = local_di /\ reader = "changed"
      BY <1>4 DEF XmlCallback
    <3>3. local_di[d] # 0 /\ local_di[d] < msg[d]
      BY <1>1, <2>1, <3>1, <3>2 DEF Stale
    <3>4. local_di[d] \in {0, di_current[d]} /\ msg[d] <= di_current[d]
      BY <3>2 DEF ValuesInv
    <3>5. msg[d] \in Int /\ di_current[d] \in Int
      BY NumbersAre
    <3> QED
      BY <3>3, <3>4, <3>5
  <2> QED
    BY <1>2, <1>3, <2>1 DEF RoundInv
<1>5. CASE SendPart \/ (Close /\ UNCHANGED bridge)
  <2>1. UNCHANGED <<reader, di_changed>>
    BY <1>5 DEF SendPart, Send, Close, bridge
  <2> QED
    BY <1>1, <2>1 DEF RoundInv, Stale, Past
<1>6. CASE (Reads /\ UNCHANGED bridge) \/ ProcessXml \/ PutXml
  <2>1. reader # "changed" /\ UNCHANGED di_changed
    BY <1>6 DEF Reads, ReadChunk, ReadAll, Header, Body, NextChunk, ProcessXml, PutXml, bridge
  <2>2. \A k \in DOMAIN Items : ~Stale(Items[k])
    BY <2>1 DEF RoundInv
  <2>3. \A k \in DOMAIN Items : ~Stale(Items[k])'
    BY <1>1, <2>1, <2>2 DEF Stale
  <2> QED
    BY <1>2, <1>3, <2>3 DEF RoundInv
<1>7. QED
  BY <1>4, <1>5, <1>6 DEF Reader

\* With one round at a time, a thread that takes a step is the only one.
LEMMA OneThread ==
  ASSUME PublisherTypes, RoundInv, ~overlap, NEW t \in Timers, Publishes(t)
  PROVE  /\ \A u \in Timers : u # t => timer[u].at = "idle" /\ timer'[u] = timer[u]
         /\ timer' \in [Timers -> Threads]
<1>1. timer \in [Timers -> Threads]
  BY DEF PublisherTypes
<1>2. \E thread : timer' = [timer EXCEPT ![t] = thread]
  BY DEF Publishes, Sets, Start, GetXml, ChangedItems, Convert, Publish, ResetChanged, Hold
<1>3. \A u \in Timers : u # t => timer'[u] = timer[u]
  BY <1>1, <1>2
<1>4. PublisherTypes'
  BY TypesTimers
<1>5. ASSUME NEW u \in Timers, u # t
      PROVE  timer[u].at = "idle"
  <2>1. CASE Start(t)
    BY <1>5, <2>1 DEF Start
  <2>2. CASE timer[t].at # "idle"
    BY <1>5, <2>2 DEF RoundInv
  <2> QED
    BY <2>1, <2>2 DEF Publishes, GetXml, ChangedItems, Convert, Publish, ResetChanged, Hold
<1>6. QED
  BY <1>3, <1>4, <1>5 DEF PublisherTypes

\* The stale values are those the round of this thread has left behind.
LEMMA StaleIsPast ==
  ASSUME PublisherTypes, RoundInv, ~overlap, NEW t \in Timers, Publishes(t), NEW k \in DOMAIN Items, Stale(Items[k])
  PROVE  reader = "changed" /\ Past(t, k) /\ (timer[t].at = "convert" => timer[t].items = di_changed)
<1>1. PICK u \in Timers : Past(u, k) /\ (timer[u].at = "convert" => timer[u].items = di_changed)
  BY DEF RoundInv
<1>2. timer[u].at # "idle"
  BY <1>1 DEF Past
<1>3. u = t
  BY <1>2, OneThread
<1>4. QED
  BY <1>1, <1>3 DEF RoundInv

\* A thread that does not convert: what it knew it knows.
LEMMA RoundOn ==
  ASSUME PublisherTypes, RoundInv, ~overlap, NEW t \in Timers, Publishes(t), UNCHANGED <<reader, msg>>,
         \A d \in Topics : topic'[d] <= msg[d],
         \/ di_changed' = None
         \/ /\ di_changed' = di_changed
            /\ \A k \in DOMAIN Items : Past(t, k) => Past(t, k)'
            /\ timer'[t].at = "convert" => timer'[t].items = di_changed
         \/ di_changed' = di_changed /\ \A k \in DOMAIN Items : ~Past(t, k)
  PROVE  RoundInv'
<1>1. \A u \in Timers : u # t => timer[u].at = "idle" /\ timer'[u] = timer[u]
  BY OneThread
<1>2. \A v, u \in Timers : timer'[v].at # "idle" /\ timer'[u].at # "idle" => v = u
  BY <1>1
<1>3. ASSUME NEW k \in DOMAIN Items, Stale(Items[k])'
      PROVE  reader' = "changed" /\ \E u \in Timers : Past(u, k)' /\ (timer'[u].at = "convert" => timer'[u].items = di_changed')
  <2>1. di_changed' = di_changed /\ Stale(Items[k])
    <3>1. None[Items[k]] = 0
      BY ItemsAre DEF None
    <3> QED
      BY <1>3, <3>1 DEF Stale
  <2>2. Past(t, k) /\ reader = "changed"
    BY <2>1, StaleIsPast
  <2>3. None[Items[k]] = 0 /\ di_changed # None
    BY <2>1, ItemsAre DEF None, Stale
  <2> QED
    BY <2>1, <2>2, <2>3
<1>4. QED
  BY <1>2, <1>3 DEF RoundInv

LEMMA RoundTimers ==
  ASSUME PublisherTypes, FrameInv, ValuesInv, RoundInv, ~overlap, NEW t \in Timers, Publishes(t)
  PROVE  RoundInv' /\ \A d \in Topics : topic'[d] >= topic[d]
<1>1. /\ \A u \in Timers : u # t => timer[u].at = "idle" /\ timer'[u] = timer[u]
      /\ timer \in [Timers -> Threads] /\ timer' \in [Timers -> Threads]
  BY OneThread DEF PublisherTypes
<1>2. PICK old \in Threads : old = timer[t]
  BY <1>1
<1>3. old.topic \in {1, 2} /\ DOMAIN Items = {1, 2} /\ Len(Items) = 2
  BY ItemsAre DEF Threads
<1>4. reader' = reader
  BY DEF Publishes, Start, GetXml, ChangedItems, Convert, Publish, ResetChanged, Hold, Elsewhere, stream
<1>5. \A d \in Topics : topic[d] <= msg[d] /\ topic[d] \in Int /\ msg[d] \in Int /\ di_changed[d] \in Int /\ di_current[d] \in Int
                         /\ msg[d] <= di_current[d] /\ di_changed[d] <= di_current[d]
  BY NumbersAre DEF RoundInv, ValuesInv
<1>6. ASSUME UNCHANGED <<msg, topic, di_changed>>, old.at \in {"idle", "get", "hold"}
      PROVE  RoundInv' /\ \A d \in Topics : topic'[d] >= topic[d]
  <2>1. \A k \in DOMAIN Items : ~Past(t, k)
    BY <1>2, <1>6 DEF Past
  <2> QED
    BY <1>4, <1>5, <1>6, <2>1, RoundOn
<1>7. CASE Start(t) \/ GetXml(t) \/ Hold(t)
  BY <1>2, <1>6, <1>7 DEF Start, GetXml, Hold
<1>8. CASE ResetChanged(t)
  <2>1. di_changed' = None /\ UNCHANGED <<msg, topic>>
    BY <1>8 DEF ResetChanged
  <2> QED
    BY <1>4, <1>5, <2>1, RoundOn
<1>9. CASE ChangedItems(t)
  <2>1. /\ timer'[t] = [old EXCEPT !.at = "convert", !.items = di_changed]
        /\ old.at = "items" /\ UNCHANGED <<msg, topic, di_changed>>
    BY <1>1, <1>2, <1>9 DEF ChangedItems, Sets
  <2>2. timer'[t].at = "convert" /\ timer'[t].items = di_changed /\ timer'[t].topic = old.topic
    BY <2>1 DEF Threads
  <2>3. \A k \in DOMAIN Items : Past(t, k) => Past(t, k)'
    BY <1>2, <2>1, <2>2 DEF Past
  <2>4. \A d \in Topics : topic'[d] <= msg[d] /\ topic'[d] >= topic[d]
    BY <1>5, <2>1
  <2>5. UNCHANGED <<reader, msg>>
    BY <1>4, <2>1
  <2>6. /\ di_changed' = di_changed
        /\ \A k \in DOMAIN Items : Past(t, k) => Past(t, k)'
        /\ timer'[t].at = "convert" => timer'[t].items = di_changed
    BY <2>1, <2>2, <2>3
  <2>7. RoundInv'
    BY <2>4, <2>5, <2>6, RoundOn
  <2> QED
    BY <2>4, <2>7
<1>10. CASE Publish(t)
  <2>1. PICK e \in Topics : e = Items[old.topic]
    BY <1>3, ItemsAre
  <2>2. topic' = [topic EXCEPT ![e] = msg[e]] /\ old.at = "publish" /\ UNCHANGED <<msg, di_changed>>
    BY <1>2, <1>10, <2>1 DEF Publish
  <2>3. \A d \in Topics : topic'[d] = topic[d] \/ topic'[d] = msg[d]
    BY <2>2 DEF PublisherTypes
  <2>4. \A d \in Topics : topic'[d] <= msg[d] /\ topic'[d] >= topic[d]
    BY <1>5, <2>3
  <2>5. timer'[t] = IF old.topic = Len(Items) THEN [old EXCEPT !.at = "reset"] ELSE [old EXCEPT !.at = "items", !.topic = @ + 1]
    BY <1>1, <1>2, <1>10 DEF Publish, Sets
  <2>6. CASE old.topic = 2
    <3>1. timer'[t].at = "reset" /\ timer'[t].topic = old.topic
      BY <1>3, <2>5, <2>6 DEF Threads
    <3>2. \A k \in DOMAIN Items : Past(t, k) => Past(t, k)'
      BY <1>2, <2>2, <3>1 DEF Past
    <3> QED
      BY <1>4, <2>2, <2>4, <3>1, <3>2, RoundOn
  <2>7. CASE old.topic = 1
    <3>1. timer'[t].at = "items" /\ timer'[t].topic = old.topic + 1
      BY <1>3, <2>5, <2>7 DEF Threads
    <3>2. \A k \in DOMAIN Items : Past(t, k) => Past(t, k)'
      BY <1>2, <1>3, <2>2, <2>7, <3>1 DEF Past
    <3> QED
      BY <1>4, <2>2, <2>4, <3>1, <3>2, RoundOn
  <2> QED
    BY <1>3, <2>6, <2>7
<1>11. CASE Convert(t)
  <2>1. PICK e \in Topics : e = Items[old.topic]
    BY <1>3, ItemsAre
  <2>2. old.at = "convert" /\ UNCHANGED <<topic, di_changed>>
    BY <1>2, <1>11 DEF Convert
  <2>3. \A k \in DOMAIN Items : Stale(Items[k]) => reader = "changed" /\ Past(t, k) /\ old.items = di_changed
    BY <1>2, <2>2, StaleIsPast
  <2>4. CASE old.items[e] # 0 /\ di_changed[e] = 0
    <3>1. UNCHANGED msg
      BY <1>2, <1>11, <2>1, <2>4 DEF Convert
    <3>2. \A k \in DOMAIN Items : ~Stale(Items[k])
      BY <2>3, <2>4
    <3>3. \A k \in DOMAIN Items : ~Stale(Items[k])'
      BY <2>2, <3>1, <3>2 DEF Stale
    <3>4. \A v, u \in Timers : timer'[v].at # "idle" /\ timer'[u].at # "idle" => v = u
      BY <1>1
    <3> QED
      BY <1>5, <2>2, <3>1, <3>3, <3>4 DEF RoundInv
  <2>5. CASE ~(old.items[e] # 0 /\ di_changed[e] = 0)
    <3>1. /\ timer'[t] = [old EXCEPT !.at = "publish", !.items = None]
          /\ msg' = [msg EXCEPT ![e] = IF old.items[e] # 0 THEN di_changed[e] ELSE di_current[e]]
      BY <1>1, <1>2, <1>11, <2>1, <2>5 DEF Convert, Sets
    <3>2. timer'[t].at = "publish" /\ timer'[t].topic = old.topic
      BY <3>1 DEF Threads
    <3>3. ~Stale(e)
      <4>1. ~Past(t, old.topic)
        BY <1>2, <1>3, <2>2 DEF Past
      <4> QED
        BY <1>3, <2>1, <2>3, <4>1
    <3>4. /\ msg'[e] = IF old.items[e] # 0 THEN di_changed[e] ELSE di_current[e]
          /\ \A d \in Topics : d # e => msg'[d] = msg[d]
      BY <3>1 DEF PublisherTypes, Changes
    <3>5. msg'[e] >= msg[e]
      BY <1>5, <2>5, <3>3, <3>4 DEF Stale
    <3>6. msg'[e] \in Int
      BY <1>5, <3>4
    <3>7. \A d \in Topics : topic'[d] <= msg'[d]
      BY <1>5, <2>2, <3>4, <3>5, <3>6
    <3>8. ASSUME NEW k \in DOMAIN Items, Stale(Items[k])'
          PROVE  reader' = "changed" /\ \E u \in Timers : Past(u, k)' /\ (timer'[u].at = "convert" => timer'[u].items = di_changed')
      <4>1. CASE k = old.topic
        <5>1. di_changed[e] # 0 /\ di_changed[e] < msg'[e]
          BY <2>1, <2>2, <3>8, <4>1 DEF Stale
        <5>2. msg'[e] = di_current[e]
          BY <1>5, <3>4, <5>1
        <5>3. reader = "changed"
          BY <1>5, <5>1, <5>2 DEF ValuesInv
        <5>4. Past(t, k)'
          BY <1>3, <3>2, <4>1 DEF Past
        <5> QED
          BY <1>4, <3>2, <5>3, <5>4
      <4>2. CASE k # old.topic
        <5>1. Items[k] \in Topics /\ Items[k] # e
          BY <1>3, <2>1, <4>2, ItemsAre
        <5>2. Stale(Items[k])
          BY <2>2, <3>4, <3>8, <5>1 DEF Stale
        <5>3. Past(t, k)'
          BY <1>2, <1>3, <2>2, <2>3, <3>2, <5>2 DEF Past
        <5> QED
          BY <1>4, <2>3, <3>2, <5>2, <5>3
      <4> QED
        BY <4>1, <4>2
    <3>9. \A v, u \in Timers : timer'[v].at # "idle" /\ timer'[u].at # "idle" => v = u
      BY <1>1
    <3> QED
      BY <1>5, <2>2, <3>7, <3>8, <3>9 DEF RoundInv
  <2> QED
    BY <2>4, <2>5
<1>12. QED
  BY <1>7, <1>8, <1>9, <1>10, <1>11 DEF Publishes

\* What one step does to the values, and to the topics when rounds do not overlap.
LEMMA NeverBackStep ==
  ASSUME FrameInv, PublisherTypes, NeverBackInv, [Next]_vars
  PROVE  NeverBackInv' /\ (~overlap => \A d \in Topics : topic'[d] >= topic[d])
<1>1. \A d \in Topics : topic[d] \in Int
  BY NumbersAre
<1>2. ValuesInv /\ (~overlap => RoundInv)
  BY Zenon DEF NeverBackInv
<1>3. overlap' = overlap
  BY DEF Next, vars, bridge, SendPart, Close, Reader, Reads, ProcessXml, XmlCallback, PutXml,
         Publishes, Start, GetXml, ChangedItems, Convert, Publish, ResetChanged, Hold, Elsewhere
<1>4. CASE SendPart \/ (Close /\ UNCHANGED bridge) \/ Reader
  <2>1. ValuesInv'
    BY <1>2, <1>4, ValuesReader
  <2>2. ~overlap => RoundInv'
    BY <1>2, <1>4, RoundReader
  <2>3. topic' = topic
    BY <1>4 DEF SendPart, Close, Reader, Reads, ProcessXml, XmlCallback, PutXml, bridge
  <2>4. \A d \in Topics : topic'[d] >= topic[d]
    BY <1>1, <2>3
  <2> QED
    BY <1>3, <2>1, <2>2, <2>4, Zenon DEF NeverBackInv
<1>5. CASE \E t \in Timers : Publishes(t)
  <2>1. PICK t \in Timers : Publishes(t)
    BY <1>5
  <2>2. ValuesInv'
    BY <1>2, <2>1, ValuesTimers
  <2>3. ASSUME ~overlap
        PROVE  RoundInv' /\ \A d \in Topics : topic'[d] >= topic[d]
    BY <1>2, <2>1, <2>3, RoundTimers
  <2> QED
    BY <1>3, <2>2, <2>3, Zenon DEF NeverBackInv
<1>6. CASE UNCHANGED vars
  <2>1. UNCHANGED <<body, reader, overlap, di_current, di_changed, local_di, msg, topic, timer>>
    BY <1>6 DEF vars, stream, bridge
  <2>2. ValuesInv'
    BY <1>2, <2>1 DEF ValuesInv, Handed
  <2>3. RoundInv => RoundInv'
    BY <2>1 DEF RoundInv, Stale, Past
  <2>4. \A d \in Topics : topic'[d] >= topic[d]
    BY <1>1, <2>1
  <2> QED
    BY <1>2, <1>3, <2>2, <2>3, <2>4, Zenon DEF NeverBackInv
<1>7. QED
  BY <1>4, <1>5, <1>6 DEF Next

\* A topic's values never go back when no two rounds of publishing overlap, for any number of
\* parts, however far the reader reads ahead, and however its thread and the timer's interleave.
THEOREM TopicsGoOn == Spec => NeverBack
<1>1. Init => FrameInv /\ PublisherTypes /\ NeverBackInv
  BY FrameInit, TypesInit, ValuesInit
<1>2. FrameInv /\ PublisherTypes /\ NeverBackInv /\ [Next]_vars => (FrameInv /\ PublisherTypes /\ NeverBackInv)'
  BY FrameNext, TypesNext, NeverBackStep
<1>3. FrameInv /\ PublisherTypes /\ NeverBackInv /\ [Next]_vars => [~overlap => \A d \in Topics : topic'[d] >= topic[d]]_vars
  BY NeverBackStep
<1>4. QED
  BY <1>1, <1>2, <1>3, PTL DEF Spec, NeverBack

-----------------------------------------------------------------------------
(* The laws of the scanner                                                  *)

\* A set of positions has a first one, and one that is bounded a last one.
LEMMA FirstOne ==
  ASSUME NEW T \in SUBSET Nat, T # {}
  PROVE  Min(T) \in T /\ \A y \in T : Min(T) <= y
<1>1. PICK x \in T : \A y \in T : ~(<<y, x>> \in OpToRel(<, Nat))
  BY NatLessThanWellFounded, WFMin, Zenon
<1>2. \A y \in T : ~(y < x)
  BY <1>1, Zenon DEF OpToRel
<1>3. \A y \in T : x <= y
  BY <1>2
<1>. QED  BY <1>3 DEF Min

LEMMA LastOne ==
  ASSUME NEW N \in Nat, NEW T \in SUBSET (0..N), T # {}
  PROVE  Max(T) \in T
<1>. DEFINE left == {N - x : x \in T}
<1>1. left \in SUBSET Nat /\ left # {}
  <2>1. \A x \in T : x \in 0..N /\ N - x \in Nat
    OBVIOUS
  <2>. QED  BY <2>1
<1>2. Min(left) \in left /\ \A y \in left : Min(left) <= y
  BY <1>1, FirstOne
<1>3. PICK x \in T : Min(left) = N - x
  BY <1>2
<1>4. \A y \in T : x >= y
  <2>. TAKE y \in T
  <2>1. N - y \in left /\ x \in 0..N /\ y \in 0..N
    OBVIOUS
  <2>2. N - x <= N - y
    BY <1>2, <1>3, <2>1
  <2>. QED  BY <2>1, <2>2
<1>. QED  BY <1>4 DEF Max

\* SkipLines is one skip or two.
LEMMA SkipOne == \A s : SkipLines(s, 1) = SkipUntil(s, Literal(<<"\n">>))
<1>. TAKE s
<1>. DEFINE g == [k \in 0..1 |-> IF k = 0 THEN s ELSE SkipUntil(s, Literal(<<"\n">>))]
            after[k \in 0..1] == IF k = 0 THEN s ELSE SkipUntil(after[k - 1], Literal(<<"\n">>))
<1>1. g = [k \in 0..1 |-> IF k = 0 THEN s ELSE SkipUntil(g[k - 1], Literal(<<"\n">>))]
  OBVIOUS
<1>. HIDE DEF g
<1>2. after = [k \in 0..1 |-> IF k = 0 THEN s ELSE SkipUntil(after[k - 1], Literal(<<"\n">>))]
  BY <1>1, Zenon
<1>3. SkipLines(s, 1) = after[1]
  BY Zenon DEF SkipLines
<1>. HIDE DEF after
<1>. QED  BY <1>2, <1>3

LEMMA SkipTwo ==
  \A s : SkipLines(s, 2) = SkipUntil(SkipUntil(s, Literal(<<"\n">>)), Literal(<<"\n">>))
<1>. TAKE s
<1>. DEFINE To(t) == SkipUntil(t, Literal(<<"\n">>))
            g == [k \in 0..2 |-> IF k = 0 THEN s ELSE IF k = 1 THEN To(s) ELSE To(To(s))]
            after[k \in 0..2] == IF k = 0 THEN s ELSE SkipUntil(after[k - 1], Literal(<<"\n">>))
<1>1. g = [k \in 0..2 |-> IF k = 0 THEN s ELSE SkipUntil(g[k - 1], Literal(<<"\n">>))]
  <2>. HIDE DEF To
  <2>1. g[0] = s /\ g[1] = To(s) /\ g[2] = To(To(s))
    OBVIOUS
  <2>2. \A k \in 0..2 : g[k] = IF k = 0 THEN s ELSE To(g[k - 1])
    <3>. HIDE DEF g
    <3>1. \A k \in 0..2 : k = 0 \/ (k = 1 /\ k - 1 = 0) \/ (k = 2 /\ k - 1 = 1)
      OBVIOUS
    <3>. QED  BY <2>1, <3>1
  <2>3. g = [k \in 0..2 |-> g[k]]
    OBVIOUS
  <2>. HIDE DEF g
  <2>4. g = [k \in 0..2 |-> IF k = 0 THEN s ELSE To(g[k - 1])]
    BY <2>2, <2>3
  <2>. QED  BY <2>4 DEF To
<1>. HIDE DEF g
<1>2. after = [k \in 0..2 |-> IF k = 0 THEN s ELSE SkipUntil(after[k - 1], Literal(<<"\n">>))]
  BY <1>1, Zenon
<1>3. SkipLines(s, 2) = after[2]
  BY Zenon DEF SkipLines
<1>. HIDE DEF after, To
<1>4. after = [k \in 0..2 |-> IF k = 0 THEN s ELSE To(after[k - 1])]
  BY <1>2 DEF To
<1>5. after[0] = s /\ after[1] = To(after[0]) /\ after[2] = To(after[1])
  BY <1>4
<1>. QED  BY <1>3, <1>5 DEF To

\* A scanner anywhere in any text, which has not been used yet.
Scanners == {s \in [string : Seq(Chars), pos : Nat, history : {<< >>}] : s.pos <= Len(s.string)}

LEMMA LengthsFit ==
  ASSUME NEW p \in Patterns, NEW src \in Seq(Chars), NEW at \in 0..Len(src)
  PROVE  Lengths(p, src, at) \in SUBSET (0..Len(src)) /\ \A n \in Lengths(p, src, at) : at + n <= Len(src)
<1>. DEFINE Fits == Lengths(p, src, at) \in SUBSET (0..Len(src)) /\ \A n \in Lengths(p, src, at) : at + n <= Len(src)
<1>1. ASSUME NEW n \in 0..2, NEW chars \in UpTo(n)
      PROVE  Len(chars) \in Nat
  <2>1. PICK k \in 0..n : chars \in [1..k -> Chars]
    BY DEF UpTo
  <2>. QED  BY <2>1
<1>2. ASSUME NEW chars, Len(chars) \in Nat, NEW anchored \in BOOLEAN, p = [chars |-> chars, anchored |-> anchored]
      PROVE  Fits
  BY <1>2, LenProperties DEF Lengths
<1>3. ASSUME NEW class, NEW least \in 0..1, p = [class |-> class, least |-> least, most |-> 2]
      PROVE  Fits
  BY <1>3, LenProperties DEF Lengths
<1>4. \/ \E chars \in UpTo(2) : p = [chars |-> chars, anchored |-> FALSE]
      \/ \E chars \in UpTo(1) : p = [chars |-> chars, anchored |-> TRUE]
      \/ \E least \in 0..1 : p = [class |-> {"\r", "\n"}, least |-> least, most |-> 2]
  BY DEF Patterns, Literal, Anchored, Run
<1>. HIDE DEF Fits
<1>5. \A chars \in UpTo(1) \cup UpTo(2) : Len(chars) \in Nat
  BY <1>1
<1>6. Fits
  <2>1. CASE \E chars \in UpTo(2) : p = [chars |-> chars, anchored |-> FALSE]
    BY <1>2, <1>5, <2>1
  <2>2. CASE \E chars \in UpTo(1) : p = [chars |-> chars, anchored |-> TRUE]
    BY <1>2, <1>5, <2>2
  <2>3. CASE \E least \in 0..1 : p = [class |-> {"\r", "\n"}, least |-> least, most |-> 2]
    BY <1>3, <2>3
  <2>. QED  BY <1>4, <2>1, <2>2, <2>3
<1>. QED  BY <1>6 DEF Fits

\* What is found: a match begins where the scanner is and stays in the string.
LEMMA FoundLaw ==
  ASSUME NEW s \in Scanners, NEW p \in Patterns, NEW search \in BOOLEAN, NEW withMatch \in BOOLEAN,
         NEW m, m = Find(s, p, search, withMatch)
  PROVE  /\ m \in [matched : BOOLEAN, pos : Nat, len : Nat]
         /\ m.pos = s.pos /\ m.pos + m.len <= Len(s.string)
<1>. DEFINE places == {at \in s.pos..Len(s.string) : (search \/ at = s.pos) /\ Lengths(p, s.string, at) # {}}
            at == Min(places)
            took == IF withMatch THEN Max(Lengths(p, s.string, at)) ELSE 0
<1>1. s.string \in Seq(Chars) /\ s.pos \in Nat /\ s.pos <= Len(s.string) /\ Len(s.string) \in Nat
  BY LenProperties DEF Scanners
<1>2. m = IF places = {} THEN [matched |-> FALSE, pos |-> s.pos, len |-> 0]
          ELSE [matched |-> TRUE, pos |-> s.pos, len |-> at - s.pos + took]
  BY DEF Find
<1>3. ASSUME places # {}
      PROVE  at \in s.pos..Len(s.string) /\ took \in Nat /\ at + took <= Len(s.string)
  <2>1. places \in SUBSET Nat
    BY <1>1
  <2>2. at \in places
    BY <1>3, <2>1, FirstOne
  <2>. HIDE DEF at
  <2>3. at \in 0..Len(s.string) /\ at \in s.pos..Len(s.string) /\ Lengths(p, s.string, at) # {}
    BY <1>1, <2>2
  <2>. HIDE DEF places
  <2>4. /\ Lengths(p, s.string, at) \in SUBSET (0..Len(s.string))
        /\ \A n \in Lengths(p, s.string, at) : at + n <= Len(s.string)
    BY <1>1, <2>3, LengthsFit
  <2>5. Max(Lengths(p, s.string, at)) \in Lengths(p, s.string, at)
    BY <1>1, <2>3, <2>4, LastOne
  <2>. QED  BY <1>1, <2>3, <2>4, <2>5
<1>. HIDE DEF places, at, took
<1>. QED  BY <1>1, <1>2, <1>3

\* What a scan leaves, of a scanner that has not been used.
After(s, m) == [string |-> s.string, pos |-> IF m.matched THEN m.pos + m.len ELSE s.pos, history |-> <<m>>]

LEMMA ScanLaw ==
  ASSUME NEW s \in Scanners, NEW m
  PROVE  /\ Log(s, m) = [string |-> s.string, pos |-> s.pos, history |-> <<m>>]
         /\ Consume(Log(s, m), m) = After(s, m)
         /\ Consume(s, m) = [s EXCEPT !.pos = After(s, m).pos]
<1>1. s = [string |-> s.string, pos |-> s.pos, history |-> << >>]
  BY DEF Scanners
<1>2. Log(s, m) = [string |-> s.string, pos |-> s.pos, history |-> <<m>>]
  BY <1>1 DEF Log
<1>. QED  BY <1>1, <1>2 DEF Consume, After

\* Look-aheads, scans and skips agree.
LEMMA LookingAhead ==
  ASSUME NEW s \in Scanners, NEW p
  PROVE  LooksAhead(s, p)
<1>1. ASSUME NEW m
      PROVE  /\ [Consume(Log(s, m), m) EXCEPT !.pos = s.pos] = Log(s, m)
             /\ Consume(s, m) = [s EXCEPT !.pos = Consume(Log(s, m), m).pos]
  <2>1. PICK h : h = After(s, m)
    OBVIOUS
  <2>2. /\ Log(s, m) = [string |-> s.string, pos |-> s.pos, history |-> <<m>>]
        /\ Consume(Log(s, m), m) = h /\ Consume(s, m) = [s EXCEPT !.pos = h.pos]
    BY <2>1, ScanLaw
  <2>3. h = [string |-> s.string, pos |-> h.pos, history |-> <<m>>]
    BY <2>1 DEF After
  <2>. QED  BY <2>2, <2>3
<1>. QED  BY <1>1, Zenon DEF LooksAhead, Scan, ScanTo, ScanUntil, Check, CheckTo, CheckUntil, Skip, SkipTo, SkipUntil

\* Three parts of a string in a row make it up.
LEMMA PartsLaw ==
  ASSUME NEW src \in Seq(Chars), NEW a \in Nat, NEW l \in Nat, a + l <= Len(src)
  PROVE  /\ SubSeq(src, 1, a) \o SubSeq(src, a + 1, a + l) \o SubSeq(src, a + l + 1, Len(src)) = src
         /\ SubSeq(src, a + 1, a + l) \o SubSeq(src, a + l + 1, Len(src)) = SubSeq(src, a + 1, Len(src))
<1>1. Len(src) \in Nat
  BY LenProperties
<1>2. SubSeq(src, 1, a) \o SubSeq(src, a + 1, a + l) = SubSeq(src, 1, a + l)
  <2>1. 1 \in 1..Len(src) + 1 /\ a \in 1 - 1..Len(src) /\ a + l \in a..Len(src)
    BY <1>1
  <2>. QED  BY <2>1, ConcatAdjacentSubSeq, Zenon
<1>3. SubSeq(src, 1, a + l) \o SubSeq(src, a + l + 1, Len(src)) = SubSeq(src, 1, Len(src))
  <2>1. 1 \in 1..Len(src) + 1 /\ a + l \in 1 - 1..Len(src) /\ Len(src) \in a + l..Len(src)
    BY <1>1
  <2>. QED  BY <2>1, ConcatAdjacentSubSeq, Zenon
<1>4. SubSeq(src, a + 1, a + l) \o SubSeq(src, a + l + 1, Len(src)) = SubSeq(src, a + 1, Len(src))
  <2>1. PICK i, k : i = a + 1 /\ k = a + l
    OBVIOUS
  <2>2. i \in 1..Len(src) + 1 /\ k \in i - 1..Len(src) /\ Len(src) \in k..Len(src)
    BY <1>1, <2>1
  <2>3. SubSeq(src, i, k) \o SubSeq(src, k + 1, Len(src)) = SubSeq(src, i, Len(src))
    BY <2>2, ConcatAdjacentSubSeq, Zenon
  <2>. QED  BY <2>1, <2>3
<1>5. SubSeq(src, 1, Len(src)) = src
  BY SubSeqFull
<1>. QED  BY <1>2, <1>3, <1>4, <1>5

\* The match of a scan lies between what precedes it and what follows.
LEMMA MatchLaw ==
  ASSUME NEW s \in Scanners, NEW m \in [matched : BOOLEAN, pos : Nat, len : Nat],
         m.pos = s.pos, m.pos + m.len <= Len(s.string), NEW t, t = After(s, m)
  PROVE  Matched(t) =>
           /\ PreMatch(t) \o Match(t) \o PostMatch(t) = t.string
           /\ Match(t) \o Rest(t) = Rest(s)
<1>1. s.string \in Seq(Chars) /\ s.pos \in Nat
  BY DEF Scanners
<1>2. t.string = s.string /\ t.history = <<m>> /\ Last(t) = m /\ Matched(t) = m.matched
  BY DEF After, Last, Matched
<1>3. m.matched => t.pos = m.pos + m.len
  BY DEF After
<1>4. PICK a, l, src : a = m.pos /\ l = m.len /\ src = s.string
  OBVIOUS
<1>5. src \in Seq(Chars) /\ a \in Nat /\ l \in Nat /\ a + l <= Len(src)
  BY <1>1, <1>4
<1>6. /\ SubSeq(src, 1, a) \o SubSeq(src, a + 1, a + l) \o SubSeq(src, a + l + 1, Len(src)) = src
      /\ SubSeq(src, a + 1, a + l) \o SubSeq(src, a + l + 1, Len(src)) = SubSeq(src, a + 1, Len(src))
  BY <1>5, PartsLaw, Zenon
<1>7. /\ PreMatch(t) = SubSeq(src, 1, a) /\ Match(t) = SubSeq(src, a + 1, a + l)
      /\ PostMatch(t) = SubSeq(src, a + l + 1, Len(src)) /\ Rest(s) = SubSeq(src, a + 1, Len(src))
  BY <1>2, <1>4 DEF PreMatch, Match, PostMatch, Rest
<1>8. m.matched => Rest(t) = SubSeq(src, a + l + 1, Len(src))
  BY <1>2, <1>3, <1>4 DEF Rest
<1>. QED  BY <1>2, <1>4, <1>6, <1>7, <1>8, Zenon

\* To find a pattern and what is before it: first what is before, then the pattern.
LEMMA UntilLaw ==
  ASSUME NEW s \in Scanners, NEW p \in Patterns,
         NEW to, to = Find(s, p, TRUE, FALSE), NEW until, until = Find(s, p, TRUE, TRUE)
  PROVE  /\ until.matched = to.matched
         /\ to.matched => /\ Find(After(s, to), p, FALSE, TRUE).matched
                          /\ Find(After(s, to), p, FALSE, TRUE).pos + Find(After(s, to), p, FALSE, TRUE).len
                               = until.pos + until.len
<1>. DEFINE places == {at \in s.pos..Len(s.string) : Lengths(p, s.string, at) # {}}
<1>1. s.string \in Seq(Chars) /\ s.pos \in Nat /\ s.pos <= Len(s.string) /\ Len(s.string) \in Nat
  BY LenProperties DEF Scanners
<1>2. {at \in s.pos..Len(s.string) : (TRUE \/ at = s.pos) /\ Lengths(p, s.string, at) # {}} = places
  OBVIOUS
<1>3. CASE places = {}
  BY <1>2, <1>3 DEF Find
<1>4. CASE places # {}
  <2>1. PICK place : place = Min(places)
    OBVIOUS
  <2>2. place \in places
    <3>1. places \in SUBSET Nat
      BY <1>1
    <3>. HIDE DEF places
    <3>. QED  BY <1>4, <2>1, <3>1, FirstOne
  <2>3. place \in Nat /\ place \in s.pos..Len(s.string) /\ Lengths(p, s.string, place) # {}
    BY <1>1, <2>2
  <2>. HIDE DEF places
  <2>4. PICK longest : longest = Max(Lengths(p, s.string, place))
    OBVIOUS
  <2>5. longest \in Nat
    <3>1. place \in 0..Len(s.string)
      BY <1>1, <2>3
    <3>2. Lengths(p, s.string, place) \in SUBSET (0..Len(s.string))
      BY <1>1, <3>1, LengthsFit
    <3>3. longest \in Lengths(p, s.string, place)
      BY <1>1, <2>3, <2>4, <3>2, LastOne
    <3>. QED  BY <1>1, <3>2, <3>3
  <2>6. /\ to = [matched |-> TRUE, pos |-> s.pos, len |-> place - s.pos + 0]
        /\ until = [matched |-> TRUE, pos |-> s.pos, len |-> place - s.pos + longest]
    BY <1>2, <1>4, <2>1, <2>4 DEF Find
  <2>7. PICK t : t = After(s, to)
    OBVIOUS
  <2>8. t.string = s.string /\ t.pos = place
    BY <1>1, <2>3, <2>6, <2>7 DEF After
  <2>9. {at \in t.pos..Len(t.string) : (FALSE \/ at = t.pos) /\ Lengths(p, t.string, at) # {}} = {place}
    BY <1>1, <2>3, <2>8
  <2>10. Find(t, p, FALSE, TRUE) = [matched |-> TRUE, pos |-> place, len |-> place - place + longest]
    BY <2>3, <2>4, <2>8, <2>9, MinMaxOne DEF Find
  <2>11. PICK here : here = Find(After(s, to), p, FALSE, TRUE)
    OBVIOUS
  <2>12. here = [matched |-> TRUE, pos |-> place, len |-> place - place + longest]
    BY <2>7, <2>10, <2>11, Zenon
  <2>13. here.matched /\ here.pos = place /\ here.len = place - place + longest
    BY <2>12
  <2>14. to.matched = TRUE /\ until.matched = TRUE /\ until.pos = s.pos /\ until.len = place - s.pos + longest
    <3>1. PICK u, v : u = until /\ v = to
      OBVIOUS
    <3>2. /\ u = [matched |-> TRUE, pos |-> s.pos, len |-> place - s.pos + longest]
          /\ v = [matched |-> TRUE, pos |-> s.pos, len |-> place - s.pos + 0]
      BY <2>6, <3>1, Zenon
    <3>3. v.matched = TRUE /\ u.matched = TRUE /\ u.pos = s.pos /\ u.len = place - s.pos + longest
      BY <3>2
    <3>. QED  BY <3>1, <3>3, Zenon
  <2>15. here.pos + here.len = until.pos + until.len
    <3>1. \A a, b, c \in Nat : b + (a - b + c) = a + c /\ a + (a - a + c) = a + c
      OBVIOUS
    <3>2. s.pos + (place - s.pos + longest) = place + longest /\ place + (place - place + longest) = place + longest
      BY <1>1, <2>3, <2>5, <3>1, Zenon
    <3>. QED  BY <2>13, <2>14, <3>2, Zenon
  <2>. QED  BY <2>11, <2>13, <2>14, <2>15, Zenon
<1>. QED  BY <1>3, <1>4

\* What precedes a match, the match and what follows make up the string.
LEMMA TakingApart ==
  ASSUME NEW s \in Scanners, NEW p \in Patterns
  PROVE  TakesApart(s, p)
<1>1. ASSUME NEW search \in BOOLEAN, NEW withMatch \in BOOLEAN,
             NEW m, m = Find(s, p, search, withMatch), NEW t, t = Consume(Log(s, m), m)
      PROVE  /\ Matched(t) => /\ PreMatch(t) \o Match(t) \o PostMatch(t) = t.string
                              /\ Match(t) \o Rest(t) = Rest(s)
             /\ t = After(s, m) /\ Matched(t) = m.matched
  <2>1. t = After(s, m)
    BY <1>1, ScanLaw
  <2>2. m \in [matched : BOOLEAN, pos : Nat, len : Nat] /\ m.pos = s.pos /\ m.pos + m.len <= Len(s.string)
    BY <1>1, FoundLaw
  <2>3. Matched(t) = m.matched
    BY <2>1 DEF After, Matched, Last
  <2>. QED  BY <2>1, <2>2, <2>3, MatchLaw
<1>2. PICK to, until : to = Find(s, p, TRUE, FALSE) /\ until = Find(s, p, TRUE, TRUE)
  OBVIOUS
<1>3. PICK here : here = Find(After(s, to), p, FALSE, TRUE)
  OBVIOUS
<1>4. /\ ScanTo(s, p) = After(s, to) /\ ScanUntil(s, p) = After(s, until)
      /\ Matched(ScanTo(s, p)) = to.matched
  BY <1>1, <1>2, Zenon DEF ScanTo, ScanUntil
<1>5. until.matched = to.matched /\ (to.matched => here.matched /\ here.pos + here.len = until.pos + until.len)
  BY <1>2, <1>3, UntilLaw
<1>6. here.matched => Scan(ScanTo(s, p), p).pos = here.pos + here.len
  BY <1>3, <1>4 DEF Scan, Consume, Log
<1>7. ScanUntil(s, p).pos = IF Matched(ScanTo(s, p)) THEN Scan(ScanTo(s, p), p).pos ELSE s.pos
  BY <1>4, <1>5, <1>6 DEF After
<1>8. \A t \in {Scan(s, p), ScanTo(s, p), ScanUntil(s, p)} :
        Matched(t) => /\ PreMatch(t) \o Match(t) \o PostMatch(t) = t.string
                      /\ Match(t) \o Rest(t) = Rest(s)
  BY <1>1, Zenon DEF Scan, ScanTo, ScanUntil
<1>. QED  BY <1>7, <1>8, Zenon DEF TakesApart

\* Every attempt begins where the scanner is.
LEMMA FoundAt ==
  ASSUME NEW s, NEW p, NEW search, NEW withMatch
  PROVE  Find(s, p, search, withMatch).pos = s.pos
BY DEF Find

\* The part of one character.
LEMMA TakeOne ==
  ASSUME NEW S, NEW src \in Seq(S), NEW i \in 1..Len(src)
  PROVE  SubSeq(src, i, i) = <<src[i]>>
<1>1. Len(src) \in Nat /\ \A j \in i..i : src[j] \in S
  BY LenProperties
<1>2. PICK one : one = SubSeq(src, i, i)
  OBVIOUS
<1>3. one \in Seq(S) /\ Len(one) = 1 /\ one[1] = src[i]
  <2>1. i \in Int /\ i <= i /\ i - i + 1 = 1 /\ i + 1 - 1 = i /\ 1 \in 1..1
    BY <1>1
  <2>2. /\ one \in Seq(S) /\ Len(one) = IF i <= i THEN i - i + 1 ELSE 0
        /\ \A j \in 1..i - i + 1 : one[j] = src[i + j - 1]
    BY <1>1, <1>2, <2>1, SubSeqProperties
  <2>. QED  BY <2>1, <2>2
<1>4. one = <<src[i]>>
  BY <1>3
<1>. QED  BY <1>2, <1>4

LEMMA ConsumeLaw ==
  ASSUME NEW src, NEW pos, NEW history, NEW m, NEW s, s = [string |-> src, pos |-> pos, history |-> history]
  PROVE  Consume(s, m) = [string |-> src, pos |-> IF m.matched THEN m.pos + m.len ELSE pos, history |-> history]
<1>1. CASE m.matched
  BY <1>1 DEF Consume
<1>2. CASE ~m.matched
  BY <1>2 DEF Consume
<1>. QED  BY <1>1, <1>2

\* Two attempts are kept, and unscan takes back one after the other.
LEMMA Reverting ==
  ASSUME NEW s \in Scanners, NEW p \in Patterns, NEW q
  PROVE  Reverts(s, p, q)
<1>. DEFINE once == Get(Skip(ScanUntil(s, p), q), 1)
            twice == Scan(once, q)
<1>1. PICK m : m = Find(s, p, TRUE, TRUE)
  OBVIOUS
<1>2. m.pos = s.pos
  BY <1>1, FoundAt
<1>3. PICK u : u = ScanUntil(s, p)
  OBVIOUS
<1>4. u = [string |-> s.string, pos |-> u.pos, history |-> <<m>>]
  <2>1. u = After(s, m)
    BY <1>1, <1>3, ScanLaw DEF ScanUntil
  <2>. QED  BY <2>1 DEF After
<1>5. PICK skipped : skipped = Skip(u, q)
  OBVIOUS
<1>6. skipped = [string |-> s.string, pos |-> skipped.pos, history |-> <<m>>]
  <2>1. PICK found : found = Find(u, q, FALSE, TRUE)
    OBVIOUS
  <2>2. skipped = Consume(u, found)
    BY <1>5, <2>1 DEF Skip
  <2>3. skipped = [string |-> s.string, pos |-> IF found.matched THEN found.pos + found.len ELSE u.pos, history |-> <<m>>]
    BY <1>4, <2>2, ConsumeLaw
  <2>. QED  BY <2>3
<1>7. once = Get(skipped, 1)
  BY <1>3, <1>5
<1>8. PICK here : here = once
  OBVIOUS
<1>9. here = [string |-> s.string, pos |-> here.pos, history |-> <<m>>]
  BY <1>6, <1>7, <1>8 DEF Get
<1>10. PICK m2 : m2 = Find(here, q, FALSE, TRUE)
  OBVIOUS
<1>11. m2.pos = here.pos
  BY <1>10, FoundAt
<1>12. PICK there : there = Scan(here, q)
  OBVIOUS
<1>13. there = [string |-> s.string, pos |-> there.pos, history |-> <<m, m2>>]
  <2>1. Log(here, m2) = [string |-> s.string, pos |-> here.pos, history |-> <<m, m2>>]
    BY <1>9 DEF Log
  <2>2. there = Consume(Log(here, m2), m2)
    BY <1>10, <1>12 DEF Scan
  <2>3. there = [string |-> s.string, pos |-> IF m2.matched THEN m2.pos + m2.len ELSE here.pos, history |-> <<m, m2>>]
    BY <2>1, <2>2, ConsumeLaw
  <2>. QED  BY <2>3
<1>14. Unscan(here).pos = s.pos
  BY <1>2, <1>9 DEF Unscan, Last
<1>15. PICK back : back = Unscan(there)
  OBVIOUS
<1>16. back = [string |-> s.string, pos |-> here.pos, history |-> <<m>>]
  <2>1. PICK both : both = <<m, m2>>
    OBVIOUS
  <2>2. both \in Seq({m, m2}) /\ Len(both) = 2 /\ both[1] = m /\ both[2] = m2
    BY <2>1
  <2>3. SubSeq(both, 1, 1) = <<m>>
    <3>1. 1 \in 1..Len(both)
      BY <2>2
    <3>2. SubSeq(both, 1, 1) = <<both[1]>>
      BY <2>2, <3>1, TakeOne
    <3>. QED  BY <2>2, <3>2
  <2>4. there.history = both /\ there.string = s.string /\ Last(there) = m2
    BY <1>13, <2>1, <2>2 DEF Last
  <2>5. SubSeq(there.history, 1, Len(there.history) - 1) = <<m>>
    <3>1. Len(there.history) - 1 = 1
      BY <2>2, <2>4
    <3>. QED  BY <2>3, <2>4, <3>1
  <2>6. back = [there EXCEPT !.pos = Last(there).pos, !.history = SubSeq(@, 1, Len(@) - 1)]
    BY <1>15 DEF Unscan
  <2>7. back = [string |-> s.string, pos |-> m2.pos, history |-> <<m>>]
    BY <1>13, <2>4, <2>5, <2>6
  <2>. QED  BY <1>11, <2>7
<1>17. Unscan(back).pos = s.pos
  BY <1>2, <1>16 DEF Unscan, Last
<1>18. there = twice
  BY <1>8, <1>12, Zenon
<1>19. Unscan(once).pos = s.pos /\ Unscan(twice).pos = once.pos /\ Unscan(Unscan(twice)).pos = s.pos
  <2>1. back.pos = here.pos
    BY <1>16
  <2>. HIDE DEF once, twice
  <2>. QED  BY <1>8, <1>14, <1>15, <1>17, <1>18, <2>1
<1>. HIDE DEF once, twice
<1>. QED  BY <1>19 DEF Reverts, once, twice

\* What is behind the scanner.
LEMMA PeekLaw ==
  ASSUME NEW s \in Scanners
  PROVE  Peek(s, 1) = <<"\n">> <=> s.pos < Len(s.string) /\ s.string[s.pos + 1] = "\n"
<1>1. PICK src, pos : src = s.string /\ pos = s.pos
  OBVIOUS
<1>2. src \in Seq(Chars) /\ pos \in Nat /\ pos <= Len(src) /\ Len(src) \in Nat
  BY <1>1, LenProperties DEF Scanners
<1>3. CASE pos < Len(src)
  <2>1. Min({pos + 1, Len(src)}) = pos + 1
    BY <1>2, <1>3 DEF Min
  <2>2. Peek(s, 1) = SubSeq(src, pos + 1, pos + 1)
    BY <1>1, <2>1 DEF Peek
  <2>3. pos + 1 \in 1..Len(src)
    BY <1>2, <1>3
  <2>4. SubSeq(src, pos + 1, pos + 1) = <<src[pos + 1]>>
    BY <1>2, <2>3, TakeOne
  <2>5. Peek(s, 1) = <<src[pos + 1]>> /\ (<<src[pos + 1]>> = <<"\n">> <=> src[pos + 1] = "\n")
    BY <2>2, <2>4
  <2>. QED  BY <1>1, <1>3, <2>5, Zenon
<1>4. CASE ~(pos < Len(src))
  <2>1. Min({pos + 1, Len(src)}) = pos
    BY <1>2, <1>4 DEF Min
  <2>2. Peek(s, 1) = << >>
    BY <1>1, <1>2, <2>1, SubSeqEmpty DEF Peek
  <2>3. << >> # <<"\n">>
    OBVIOUS
  <2>. QED  BY <1>1, <1>4, <2>2, <2>3, Zenon
<1>. QED  BY <1>3, <1>4

\* The ends of lines, a carriage return and the line feed behind it being one.
LEMMA AtEnds ==
  ASSUME NEW s \in Scanners
  PROVE  LET src == s.string
             Pair(k) == k \in 1..Len(src) - 1 /\ src[k] = "\r" /\ src[k + 1] = "\n"
             ends == {<<k - 1, k + 1>> : k \in {k \in DOMAIN src : Pair(k)}} \cup
                     {<<k - 1, k>> : k \in {k \in DOMAIN src : src[k] # "a" /\ ~Pair(k) /\ ~Pair(k - 1)}}
         IN  /\ Bol(s) <=> s.pos = 0 \/ \E e \in ends : e[2] = s.pos
             /\ Eol(s) <=> s.pos = Len(src) \/ \E e \in ends : e[1] = s.pos
<1>. DEFINE src == s.string
            pos == s.pos
            Pair(k) == k \in 1..Len(src) - 1 /\ src[k] = "\r" /\ src[k + 1] = "\n"
            pairs == {<<k - 1, k + 1>> : k \in {k \in DOMAIN src : Pair(k)}}
            singles == {<<k - 1, k>> : k \in {k \in DOMAIN src : src[k] # "a" /\ ~Pair(k) /\ ~Pair(k - 1)}}
            Single(k) == k \in 1..Len(src) /\ src[k] # "a" /\ ~Pair(k) /\ ~Pair(k - 1)
<1>1. /\ Len(src) \in Nat /\ DOMAIN src = 1..Len(src) /\ pos \in 0..Len(src)
      /\ \A k \in 1..Len(src) : src[k] \in {"a", "\r", "\n"}
  BY LenProperties DEF Scanners, Chars
<1>2. Peek(s, 1) = <<"\n">> <=> pos < Len(src) /\ src[pos + 1] = "\n"
  BY PeekLaw
<1>. HIDE DEF src, pos
<1>3. (\E e \in pairs \cup singles : e[2] = pos) <=> Pair(pos - 1) \/ Single(pos)
  <2>1. ASSUME NEW e \in pairs, e[2] = pos
        PROVE  Pair(pos - 1)
    <3>1. PICK k \in 1..Len(src) : Pair(k) /\ e = <<k - 1, k + 1>>
      BY <1>1, <2>1
    <3>2. k = pos - 1
      BY <1>1, <2>1, <3>1
    <3>. QED  BY <3>1, <3>2
  <2>2. ASSUME NEW e \in singles, e[2] = pos
        PROVE  Single(pos)
    BY <1>1, <2>2
  <2>3. ASSUME Pair(pos - 1)
        PROVE  \E e \in pairs : e[2] = pos
    <3>1. PICK k : k = pos - 1
      OBVIOUS
    <3>2. k \in DOMAIN src /\ Pair(k) /\ k + 1 = pos
      BY <1>1, <2>3, <3>1
    <3>3. <<k - 1, k + 1>> \in pairs
      BY <3>2
    <3>. QED  BY <3>2, <3>3
  <2>4. ASSUME Single(pos)
        PROVE  \E e \in singles : e[2] = pos
    <3>1. <<pos - 1, pos>> \in singles
      BY <1>1, <2>4
    <3>. QED  BY <3>1
  <2>. HIDE DEF pairs, singles, Pair, Single
  <2>. QED  BY <2>1, <2>2, <2>3, <2>4
<1>4. (\E e \in pairs \cup singles : e[1] = pos) <=> Pair(pos + 1) \/ Single(pos + 1)
  <2>1. ASSUME NEW e \in pairs, e[1] = pos
        PROVE  Pair(pos + 1)
    <3>1. PICK k \in 1..Len(src) : Pair(k) /\ e = <<k - 1, k + 1>>
      BY <1>1, <2>1
    <3>2. k = pos + 1
      BY <1>1, <2>1, <3>1
    <3>. QED  BY <3>1, <3>2
  <2>2. ASSUME NEW e \in singles, e[1] = pos
        PROVE  Single(pos + 1)
    <3>1. PICK k \in 1..Len(src) : Single(k) /\ e = <<k - 1, k>>
      BY <1>1, <2>2
    <3>2. k = pos + 1
      BY <1>1, <2>2, <3>1
    <3>. QED  BY <3>1, <3>2
  <2>3. ASSUME Pair(pos + 1)
        PROVE  \E e \in pairs : e[1] = pos
    <3>1. PICK k : k = pos + 1
      OBVIOUS
    <3>2. k \in DOMAIN src /\ Pair(k) /\ k - 1 = pos
      BY <1>1, <2>3, <3>1
    <3>3. <<k - 1, k + 1>> \in pairs
      BY <3>2
    <3>. QED  BY <3>2, <3>3
  <2>4. ASSUME Single(pos + 1)
        PROVE  \E e \in singles : e[1] = pos
    <3>1. pos + 1 \in DOMAIN src /\ <<pos + 1 - 1, pos + 1>> \in singles /\ pos + 1 - 1 = pos
      BY <1>1, <2>4
    <3>. QED  BY <3>1
  <2>. HIDE DEF pairs, singles, Pair, Single
  <2>. QED  BY <2>1, <2>2, <2>3, <2>4
<1>5. Bol(s) <=> pos = 0 \/ Pair(pos - 1) \/ Single(pos)
  <2>1. Bol(s) <=> pos = 0 \/ src[pos] = "\n" \/ (src[pos] = "\r" /\ ~(pos < Len(src) /\ src[pos + 1] = "\n"))
    BY <1>2 DEF Bol, src, pos
  <2>2. CASE pos = 0
    BY <2>1, <2>2
  <2>3. CASE pos # 0
    <3>1. pos \in 1..Len(src) /\ src[pos] \in {"a", "\r", "\n"}
      BY <1>1, <2>3
    <3>. QED  BY <1>1, <2>1, <2>3, <3>1
  <2>. QED  BY <2>2, <2>3
<1>6. Eol(s) <=> pos = Len(src) \/ Pair(pos + 1) \/ Single(pos + 1)
  <2>1. Eol(s) <=> pos >= Len(src) \/ src[pos + 1] = "\r" \/ (src[pos + 1] = "\n" /\ (pos = 0 \/ src[pos] # "\r"))
    BY DEF Eol, Eos, src, pos
  <2>2. CASE pos = Len(src)
    BY <1>1, <2>1, <2>2
  <2>3. CASE pos # Len(src)
    <3>. HIDE DEF Pair, Single, pairs, singles
    <3>1. PICK n : n = Len(src)
      OBVIOUS
    <3>2. n \in Nat /\ pos \in 0..n /\ pos # n
      BY <1>1, <2>3, <3>1
    <3>3. pos + 1 \in 1..n /\ ~(pos >= n) /\ pos + 1 - 1 = pos /\ (pos # 0 => pos \in 1..n - 1)
          /\ (pos + 1 \in 1..n - 1 => pos + 1 + 1 \in 1..n) /\ (pos \in 1..n - 1 => pos # 0)
      BY <3>2
    <3>4. src[pos + 1] \in {"a", "\r", "\n"}
      BY <1>1, <3>1, <3>3
    <3>5. Single(pos + 1) <=> src[pos + 1] # "a" /\ ~Pair(pos + 1) /\ ~Pair(pos)
      BY <3>1, <3>3 DEF Single
    <3>6. Pair(pos) <=> pos # 0 /\ src[pos] = "\r" /\ src[pos + 1] = "\n"
      BY <3>1, <3>3, Zenon DEF Pair
    <3>7. Pair(pos + 1) => src[pos + 1] = "\r"
      BY DEF Pair
    <3>. QED  BY <2>1, <2>3, <3>1, <3>3, <3>4, <3>5, <3>6, <3>7
  <2>. QED  BY <2>2, <2>3
<1>. QED  BY <1>3, <1>4, <1>5, <1>6, Zenon DEF src, pos
\* A line that is skipped ends with a line feed.
LEMMA LineSkipped ==
  ASSUME NEW s \in Scanners
  PROVE  SkipLines(s, 1) = s \/ Bol(SkipLines(s, 1))
<1>. DEFINE feed == Literal(<<"\n">>)
            places == {at \in s.pos..Len(s.string) : (TRUE \/ at = s.pos) /\ Lengths(feed, s.string, at) # {}}
<1>1. s.string \in Seq(Chars) /\ s.pos \in Nat /\ s.pos <= Len(s.string) /\ Len(s.string) \in Nat
  BY LenProperties DEF Scanners
<1>2. \A at \in places : at \in Nat /\ Lengths(feed, s.string, at) = {1} /\ s.string[at + 1] = "\n"
  <2>. TAKE at \in places
  <2>1. at \in Nat /\ Lengths(feed, s.string, at) # {}
    BY <1>1
  <2>2. Lengths(feed, s.string, at) = IF (FALSE => at = 0) /\ at < Len(s.string) /\ s.string[at + 1] = "\n" THEN {1} ELSE {}
    BY <1>1, <2>1, OneToken, Zenon DEF Literal
  <2>. QED  BY <2>1, <2>2
<1>3. PICK m : m = Find(s, feed, TRUE, TRUE)
  OBVIOUS
<1>4. PICK t : t = SkipLines(s, 1)
  OBVIOUS
<1>5. t = Consume(s, m)
  BY <1>3, <1>4, SkipOne DEF SkipUntil
<1>6. CASE places = {}
  <2>1. m.matched = FALSE
    BY <1>3, <1>6 DEF Find
  <2>. QED  BY <1>4, <1>5, <2>1 DEF Consume
<1>7. CASE places # {}
  <2>1. PICK at : at = Min(places)
    OBVIOUS
  <2>2. at \in places
    <3>1. places \in SUBSET Nat
      BY <1>2
    <3>. HIDE DEF places
    <3>. QED  BY <1>7, <2>1, <3>1, FirstOne
  <2>3. at \in Nat /\ Lengths(feed, s.string, at) = {1} /\ s.string[at + 1] = "\n"
    BY <1>2, <2>2
  <2>. HIDE DEF places
  <2>4. m = [matched |-> TRUE, pos |-> s.pos, len |-> at - s.pos + 1]
    <3>1. Max(Lengths(feed, s.string, at)) = 1
      BY <2>3, MinMaxOne
    <3>. HIDE DEF feed
    <3>. QED  BY <1>3, <1>7, <2>1, <3>1 DEF Find, places
  <2>5. t = [s EXCEPT !.pos = s.pos + (at - s.pos + 1)]
    BY <1>5, <2>4 DEF Consume
  <2>6. s.pos + (at - s.pos + 1) = at + 1
    BY <1>1, <2>3
  <2>7. t.pos = at + 1 /\ t.string = s.string
    BY <2>5, <2>6 DEF Scanners
  <2>8. Bol(t)
    BY <2>3, <2>7 DEF Bol
  <2>. QED  BY <1>4, <2>8
<1>. QED  BY <1>6, <1>7

\* Where lines begin and end.
LEMMA LineEnds ==
  ASSUME NEW s \in Scanners
  PROVE  AtLineEnds(s)
BY AtEnds, LineSkipped, SkipOne, SkipTwo, Zenon DEF AtLineEnds

\* Whatever the text of a scanner that is reset, and wherever in it: the methods that look
\* ahead, scan and skip agree with each other and with the parts of the string, unscan takes
\* back what was recorded, and bol, eol and skip_lines agree about the lines (scanner.py).
THEOREM MethodsAgree ==
  \A s \in Scanners :
    /\ \A p \in Patterns : LooksAhead(s, p) /\ TakesApart(s, p)
    /\ \A p, q \in Patterns : Reverts(s, p, q)
    /\ AtLineEnds(s)
BY LookingAhead, TakingApart, Reverting, LineEnds

\* The reader has no text before the agent has sent one.
TextIsSent == document.string # << >> => sent > 0

LEMMA TextStep ==
  ASSUME FrameInv, FrameInv', TextIsSent, [Next]_vars
  PROVE  TextIsSent'
<1>1. sent \in Nat /\ sent' \in Nat
  BY LongPullAssumption DEF FrameInv, LongPullAssumption
<1>2. CASE reader' \notin Dead
  <2>1. Framed' /\ Holding' /\ Gone' \in Nat /\ (document'.string # << >> => Gone' >= 7)
    <3>1. Holding' /\ Framed'
      BY <1>2 DEF FrameInv
    <3>2. Handed' \in Nat
      BY <3>1, LongPullAssumption DEF Holding, Bodies, Handed, BodyOf, LongPullAssumption
    <3>3. PICK h \in Nat : h = Handed'
      BY <3>2
    <3>4. Gone' = 7 * h + IF (document').string # << >> THEN 7 ELSE IF wanted' # 0 THEN 2 ELSE 0
      BY <3>3 DEF Gone
    <3>5. Gone' \in Nat /\ ((document').string # << >> => Gone' >= 7)
      BY <3>4
    <3>. QED  BY <3>1, <3>5
  <2>2. Len(buffer') \in Nat /\ Len(socket') \in Nat
    BY <2>1, LenProperties DEF Framed
  <2>3. Gone' + Len(buffer') + Len(socket') <= 7 * sent'
    BY <2>1 DEF Framed
  <2>. QED  BY <1>1, <2>1, <2>2, <2>3 DEF TextIsSent
<1>3. CASE reader' \in Dead
  <2>1. document' = document /\ (sent' = sent \/ sent' = sent + 1)
    <3>1. CASE SendPart
      BY <3>1 DEF SendPart, Send
    <3>2. CASE Close \/ ReadChunk \/ NextChunk
      BY <3>2 DEF Close, ReadChunk, NextChunk, Dies
    <3>3. CASE ReadAll
      BY <1>3, <3>3 DEF ReadAll, Dies, Dead
    <3>4. CASE Header
      BY <1>3, <3>4 DEF Header, Dies, Dead
    <3>5. CASE Body
      BY <1>3, <3>5 DEF Body, Dead
    <3>6. CASE ProcessXml \/ XmlCallback \/ PutXml
      BY <3>6 DEF ProcessXml, XmlCallback, PutXml
    <3>7. CASE \E t \in Timers : Publishes(t)
      BY <3>7, Zenon DEF Publishes, Elsewhere, stream, Start, GetXml, ChangedItems, Convert, Publish, ResetChanged, Hold
    <3>8. CASE UNCHANGED vars
      BY <3>8 DEF vars, stream
    <3>. QED  BY <3>1, <3>2, <3>3, <3>4, <3>5, <3>6, <3>7, <3>8 DEF Next, Reader, Reads
  <2>. QED  BY <1>1, <2>1 DEF TextIsSent
<1>. QED  BY <1>2, <1>3

\* The scanners that are tried are some of those that the lemmas are about.
LEMMA TriedOnes ==
  ASSUME Length \in Nat
  PROVE  ScannersFrom(<< >>) \subseteq Scanners
<1>. SUFFICES ASSUME NEW s \in ScannersFrom(<< >>)
              PROVE  s \in Scanners
  OBVIOUS
<1>1. PICK more \in UpTo(Length) : s \in {[Scanner(<< >> \o more) EXCEPT !.pos = at] : at \in 0..Len(<< >> \o more)}
  BY DEF ScannersFrom
<1>2. more \in Seq(Chars)
  <2>1. PICK k \in 0..Length : more \in [1..k -> Chars]
    BY DEF UpTo
  <2>. QED  BY <2>1, SeqDef
<1>3. << >> \o more = more
  BY <1>2, ConcatEmptySeq
<1>4. PICK at \in 0..Len(more) : s = [Scanner(more) EXCEPT !.pos = at]
  BY <1>1, <1>3
<1>5. s = [string |-> more, pos |-> at, history |-> << >>]
  BY <1>4 DEF Scanner
<1>6. Len(more) \in Nat /\ at \in Nat /\ at <= Len(more)
  BY <1>2, LenProperties
<1>7. s \in [string : Seq(Chars), pos : Nat, history : {<< >>}] /\ s.pos = at /\ s.string = more
  BY <1>2, <1>5, <1>6
<1>. QED  BY <1>6, <1>7 DEF Scanners

\* The laws of the scanner that the reader uses hold where the program begins, for texts of any
\* length: look-aheads, scans and skips agree, unscan undoes what was recorded, bol, eol and
\* skip_lines agree about where lines begin and end (scanner.py:197-211, :315-515).
THEOREM ScannerAgrees == Spec => []ScannerConsistent
<1>1. Init => FrameInv /\ TextIsSent
  <2>. SUFFICES ASSUME Init
                PROVE  FrameInv /\ TextIsSent
    OBVIOUS
  <2>1. document = [string |-> << >>, pos |-> 0, history |-> << >>]
    BY DEF Init, LongPullInit, Scanner
  <2>2. document.string = << >>
    BY <2>1
  <2>. QED  BY <2>2, FrameInit DEF TextIsSent
<1>2. FrameInv /\ TextIsSent /\ [Next]_vars => FrameInv' /\ TextIsSent'
  BY FrameNext, TextStep
<1>3. FrameInv /\ TextIsSent => ScannerConsistent
  <2>. SUFFICES ASSUME FrameInv, TextIsSent, sent = 0, NEW s \in ScannersFrom(document.string)
                PROVE  /\ \A p \in Patterns : LooksAhead(s, p) /\ TakesApart(s, p)
                       /\ \A p, q \in Patterns : Reverts(s, p, q)
                       /\ AtLineEnds(s)
    BY Zenon DEF ScannerConsistent
  <2>1. document.string = << >>
    BY DEF TextIsSent
  <2>2. s \in Scanners
    BY <2>1, LengthAssumption, TriedOnes DEF LengthAssumption
  <2>. QED  BY <2>2, MethodsAgree
<1>. QED  BY <1>1, <1>2, <1>3, PTL DEF Spec
=============================================================================
