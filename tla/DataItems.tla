----------------------------- MODULE DataItems -----------------------------
(* The data items of scripts/src/data_item.py: events and conditions, with  *)
(* the flags that tell an adapter what has changed since the last sweep.    *)
(*                                                                         *)
(* An event is [value, changed].  A condition adds to these the activation  *)
(* of each code: none; new (marked and changed); held (marked); cleared.    *)
(* What a client has been told of a condition is {"unavailable"} or the set *)
(* of the codes that are active.                                           *)
(***************************************************************************)
EXTENDS Sequences, SequencesExt, FiniteSets

CONSTANT Codes   \* the codes of a condition

Unavailable == "unavailable"   \* the value None or False

ASSUME CodesAssumption == IsFiniteSet(Codes) /\ Unavailable \notin Codes

-----------------------------------------------------------------------------
(* Events                                                                   *)

SetValue(e, v) == IF v = e.value THEN e ELSE [value |-> v, changed |-> TRUE]
SweepEvent(e) == [e EXCEPT !.changed = FALSE]

-----------------------------------------------------------------------------
(* Conditions                                                               *)

Activations == {"none", "new", "held", "cleared"}
NoCondition == [value |-> FALSE, changed |-> FALSE, active |-> [k \in Codes |-> "none"]]

In(c, states) == {k \in Codes : c.active[k] \in states}
Marked(c) == In(c, {"new", "held"})

\* Condition.begin clears each activation, SimpleCondition.begin only its changed flag.
BeginCondition(c, kind) ==
  [c EXCEPT !.active = [k \in Codes |->
     IF @[k] = "none" THEN "none"
     ELSE IF kind = "condition" THEN "cleared"
     ELSE IF @[k] = "new" THEN "held" ELSE @[k]]]

\* Codes that are added, one after the other: one that is there already is only marked.
Add(c, codes) ==
  [c EXCEPT !.value = @ \/ codes # {},
            !.changed = @ \/ \E k \in codes : c.active[k] = "none",
            !.active = [k \in Codes |->
              IF k \notin codes THEN @[k]
              ELSE CASE @[k] = "none" -> "new" [] @[k] = "cleared" -> "held" [] OTHER -> @[k]]]

Normal(c) == [c EXCEPT !.value = TRUE, !.changed = @ \/ ~c.value]

\* remove, of a SimpleCondition only.
RemoveCode(c, k) == [c EXCEPT !.active[k] = IF @ = "none" THEN @ ELSE "cleared"]

CompleteCondition(c) == [c EXCEPT !.changed = @ \/ In(c, {"cleared"}) # {}]

SweepCondition(c) ==
  [c EXCEPT !.changed = FALSE,
            !.active = [k \in Codes |-> IF @[k] = "cleared" THEN "none" ELSE @[k]]]

\* The lines of a condition, all of them for a client that has just connected.
Line(level, codes) == [level |-> level, codes |-> codes]
EachOf(level, codes) == [n \in 1..Cardinality(codes) |-> Line(level, {SetToSeq(codes)[n]})]

\* Fault: the activations of earlier gathers are repeated, and none is taken back.
LinesKept(c, all) ==
  IF ~c.value THEN <<Line(Unavailable, {})>>
  ELSE IF Marked(c) = {} THEN <<Line("normal", {})>>
  ELSE EachOf("fault", Marked(c))

Lines(c, all) ==
  IF ~c.value THEN <<Line(Unavailable, {})>>
  ELSE IF Marked(c) = {} THEN <<Line("normal", {})>>
  ELSE IF all THEN EachOf("fault", Marked(c))
  ELSE EachOf("normal", In(c, {"cleared"})) \o EachOf("fault", In(c, {"new"}))

\* What a client makes of a line (external), and what it should know.
Told(known, line) ==
  CASE line.level = Unavailable -> {Unavailable}
    [] line.level = "normal" -> IF line.codes = {} THEN {} ELSE known \ (line.codes \cup {Unavailable})
    [] line.level = "fault" -> (known \ {Unavailable}) \cup line.codes

Actual(c) == IF c.value THEN Marked(c) ELSE {Unavailable}
=============================================================================
