---------------------------- MODULE ScannerLaws ----------------------------
(* What the methods of the scanner owe each other, over the short strings    *)
(* and patterns of Length characters.                                       *)
(***************************************************************************)
EXTENDS Scanner

CONSTANT Length   \* of the longest string
ASSUME LengthAssumption == Length \in Nat

Chars == {"a", "\r", "\n"}
UpTo(n) == UNION {[1..k -> Chars] : k \in 0..n}
Patterns ==
  {Literal(chars) : chars \in UpTo(2)} \cup {Anchored(chars) : chars \in UpTo(1)}
    \cup {Run({"\r", "\n"}, least, 2) : least \in 0..1}

\* A scanner somewhere in a string that begins with a text.
ScannersFrom(text) ==
  UNION {{[Scanner(text \o more) EXCEPT !.pos = at] : at \in 0..Len(text \o more)} : more \in UpTo(Length)}

\* The look-aheads find what the scans take and stay where they are, the skips go as far as
\* the scans and leave no record.
LooksAhead(s, p) ==
  LET here == Scan(s, p)  to == ScanTo(s, p)  until == ScanUntil(s, p)
  IN  /\ [here EXCEPT !.pos = s.pos] = Check(s, p)
      /\ [to EXCEPT !.pos = s.pos] = CheckTo(s, p)
      /\ [until EXCEPT !.pos = s.pos] = CheckUntil(s, p)
      /\ Skip(s, p) = [s EXCEPT !.pos = here.pos]
      /\ SkipTo(s, p) = [s EXCEPT !.pos = to.pos]
      /\ SkipUntil(s, p) = [s EXCEPT !.pos = until.pos]

\* What precedes a match, the match and what follows make up the string, and scan_until is
\* scan_to and then scan.
TakesApart(s, p) ==
  LET here == Scan(s, p)  to == ScanTo(s, p)  until == ScanUntil(s, p)
  IN  /\ \A t \in {here, to, until} :
           Matched(t) => /\ PreMatch(t) \o Match(t) \o PostMatch(t) = t.string
                         /\ Match(t) \o Rest(t) = Rest(s)
      /\ until.pos = IF Matched(to) THEN Scan(to, p).pos ELSE s.pos

\* unscan goes back to before the most recent recorded attempt, failed or not, past any
\* skips and gets behind it, and a second one to before the attempt before it.
Reverts(s, p, q) ==
  LET once == Get(Skip(ScanUntil(s, p), q), 1)
      twice == Scan(once, q)
  IN  /\ Unscan(once).pos = s.pos
      /\ Unscan(twice).pos = once.pos /\ Unscan(Unscan(twice)).pos = s.pos

\* bol and eol hold exactly behind and before the ends of lines, a DOS end being one end,
\* and skip_lines goes to the beginning of a line.
AtLineEnds(s) ==
  LET src == s.string
      Pair(k) == k \in 1..Len(src) - 1 /\ src[k] = "\r" /\ src[k + 1] = "\n"
      ends == {<<k - 1, k + 1>> : k \in {k \in DOMAIN src : Pair(k)}} \cup
              {<<k - 1, k>> : k \in {k \in DOMAIN src : src[k] # "a" /\ ~Pair(k) /\ ~Pair(k - 1)}}
  IN  /\ Bol(s) <=> s.pos = 0 \/ \E e \in ends : e[2] = s.pos
      /\ Eol(s) <=> s.pos = Len(src) \/ \E e \in ends : e[1] = s.pos
      /\ SkipLines(s, 1) = s \/ Bol(SkipLines(s, 1))
      /\ SkipLines(SkipLines(s, 1), 1) = SkipLines(s, 2)
=============================================================================
