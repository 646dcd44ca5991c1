------------------------------ MODULE Scanner ------------------------------
(* scripts/src/scanner.py, the lexical scanner that long_pull reads its     *)
(* document with.  A string is a sequence of characters (or larger tokens); *)
(* positions count from 0.  A scanner is [string, pos, history]; an entry   *)
(* of its history says whether a match succeeded, where it began and how    *)
(* many characters it took.  A pattern is a literal, which `^' may tie to   *)
(* the start of the string, or a run of characters of a class.              *)
(***************************************************************************)
EXTENDS Integers, Sequences, FiniteSetsExt

Literal(chars) == [chars |-> chars, anchored |-> FALSE]
Anchored(chars) == [chars |-> chars, anchored |-> TRUE]
Run(class, least, most) == [class |-> class, least |-> least, most |-> most]

\* The lengths with which a pattern matches at a position; the match is the longest.
Lengths(p, src, at) ==
  IF "class" \in DOMAIN p
  THEN {n \in p.least..p.most : at + n <= Len(src) /\ \A k \in 1..n : src[at + k] \in p.class}
  ELSE {n \in {Len(p.chars)} : /\ p.anchored => at = 0
                              /\ at + n <= Len(src) /\ SubSeq(src, at + 1, at + n) = p.chars}

-----------------------------------------------------------------------------
(* The scanner                                                              *)

\* Setting the string, also to a longer one, starts again at its beginning.
Scanner(src) == [string |-> src, pos |-> 0, history |-> << >>]
Reset(s) == Scanner(s.string)
Terminate(s) == [Reset(s) EXCEPT !.pos = Len(s.string)]

Eos(s) == s.pos >= Len(s.string)
Rest(s) == SubSeq(s.string, s.pos + 1, Len(s.string))
RestLen(s) == Len(Rest(s))
Peek(s, n) == SubSeq(s.string, s.pos + 1, Min({s.pos + n, Len(s.string)}))
Get(s, n) == [s EXCEPT !.pos = @ + Len(Peek(s, n))]

\* __check: a match at the position, or the first one behind it, with or without itself.
Find(s, p, search, withMatch) ==
  LET places == {at \in s.pos..Len(s.string) : (search \/ at = s.pos) /\ Lengths(p, s.string, at) # {}}
      at == Min(places)
      took == IF withMatch THEN Max(Lengths(p, s.string, at)) ELSE 0
  IN  IF places = {} THEN [matched |-> FALSE, pos |-> s.pos, len |-> 0]
      ELSE [matched |-> TRUE, pos |-> s.pos, len |-> at - s.pos + took]

\* The last two attempts are kept.
Log(s, m) == [s EXCEPT !.history = IF @ = << >> THEN <<m>> ELSE <<@[Len(@)], m>>]

\* Fault: the position before the match is passed over.
ConsumeAll(s, m) == IF m.matched THEN [s EXCEPT !.pos = m.len] ELSE s

Consume(s, m) == IF m.matched THEN [s EXCEPT !.pos = m.pos + m.len] ELSE s

Check(s, p) == Log(s, Find(s, p, FALSE, TRUE))
CheckTo(s, p) == Log(s, Find(s, p, TRUE, FALSE))
CheckUntil(s, p) == Log(s, Find(s, p, TRUE, TRUE))
Scan(s, p) == LET m == Find(s, p, FALSE, TRUE) IN Consume(Log(s, m), m)
ScanTo(s, p) == LET m == Find(s, p, TRUE, FALSE) IN Consume(Log(s, m), m)
ScanUntil(s, p) == LET m == Find(s, p, TRUE, TRUE) IN Consume(Log(s, m), m)

\* The skips are not recorded.
Skip(s, p) == Consume(s, Find(s, p, FALSE, TRUE))
SkipTo(s, p) == Consume(s, Find(s, p, TRUE, FALSE))
SkipUntil(s, p) == Consume(s, Find(s, p, TRUE, TRUE))

\* The pattern `.^' is the end of a line; the last line has none.
SkipLines(s, n) ==
  LET after[k \in 0..n] == IF k = 0 THEN s ELSE SkipUntil(after[k - 1], Literal(<<"\n">>))
  IN  after[n]
SkipWhitespace(s, n) ==
  Skip(s, IF n = 0 THEN Run({" ", "\r", "\n"}, 1, Len(s.string)) ELSE Run({" ", "\r", "\n"}, 0, n))

\* The most recent attempt; Matched asks for one, and the others for a success.
Last(s) == s.history[Len(s.history)]
Matched(s) == Last(s).matched
Match(s) == SubSeq(s.string, Last(s).pos + 1, Last(s).pos + Last(s).len)
PreMatch(s) == SubSeq(s.string, 1, Last(s).pos)
PostMatch(s) == SubSeq(s.string, Last(s).pos + Last(s).len + 1, Len(s.string))

\* Fault: the earlier attempt is taken back.
UnscanEarliest(s) == [s EXCEPT !.pos = s.history[1].pos, !.history = Tail(@)]

\* Back to where the most recent attempt was made; it is forgotten.
Unscan(s) == [s EXCEPT !.pos = Last(s).pos, !.history = SubSeq(@, 1, Len(@) - 1)]

\* Fault: the two characters of a DOS line end count as two ends.
BolUnix(s) == s.pos = 0 \/ s.string[s.pos] \in {"\r", "\n"}

Bol(s) ==
  \/ s.pos = 0
  \/ s.string[s.pos] = "\n"
  \/ s.string[s.pos] = "\r" /\ Peek(s, 1) # <<"\n">>

Eol(s) ==
  \/ Eos(s)
  \/ s.string[s.pos + 1] = "\r"
  \/ s.string[s.pos + 1] = "\n" /\ (s.pos = 0 \/ s.string[s.pos] # "\r")
=============================================================================
