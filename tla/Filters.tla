------------------------------- MODULE Filters -------------------------------
(***************************************************************************)
(* The filters of lib/filter: medians, the sliding average, the one that   *)
(* is valid early, and the wrap-around filter that is put around any of    *)
(* them so that a heading may cross north.  A turning boat is measured.    *)
(*                                                                         *)
(* Angles are whole units of which Period make a turn; an average is kept  *)
(* as its sum, so that nothing is rounded.                                 *)
(***************************************************************************)
EXTENDS Integers, Sequences, FiniteSets

CONSTANTS
  Period,    \* period_, an even number
  Samples,   \* window_size_ of the averages, at least two
  Turns      \* how far the boat turns between two samples, at most half a turn

Kinds == {"median3", "median5", "average", "quick"}

VARIABLES
  kind,      \* the filter inside
  inner,     \* its z_, index_, valid_, sum_ and count_
  around,    \* the filter around it: initial_, prev_ and continuous_
  course,    \* the measured angle, 0 to 2 pi
  past,      \* history: how far the last angles are from this one, without wrapping
  early      \* history: everything was shifted before the filter was valid

vars == <<kind, inner, around, course, past, early>>

Window(k) == CASE k = "median3" -> 3 [] k = "median5" -> 5 [] OTHER -> Samples

NewFilter(k) ==
  [z |-> [i \in 0 .. Window(k) - 1 |-> 0], index |-> 0, valid |-> FALSE, sum |-> 0,
   count |-> Samples \div 2 + 1]

Size(f) == Cardinality(DOMAIN f.z)

SetOutput(f, y0) ==
  [f EXCEPT !.z = [i \in DOMAIN f.z |-> y0], !.sum = Size(f) * y0, !.valid = TRUE]

ShiftSum(f, shift) ==                \* mutant: the samples stay where they are
  [f EXCEPT !.sum = f.sum + Size(f) * shift]
Shift(f, shift) ==
  [f EXCEPT !.z = [i \in DOMAIN f.z |-> f.z[i] + shift], !.sum = f.sum + Size(f) * shift]

NextIndex(f) ==
  [f EXCEPT !.index = (f.index + 1) % Size(f), !.valid = f.valid \/ f.index + 1 = Size(f)]

Take(f, x) == NextIndex([f EXCEPT !.z[f.index] = x, !.sum = f.sum + x - f.z[f.index]])

\* With half of the window filled the average of that half fills all of it.
TakeQuick(f, x) ==
  LET next == [Take(f, x) EXCEPT !.count = IF f.count > 0 THEN f.count - 1 ELSE 0]
  IN  IF next.count = 1 THEN SetOutput(next, next.sum \div (Samples \div 2)) ELSE next

Filter(k, f, x) == IF k = "quick" THEN TakeQuick(f, x) ELSE Take(f, x)

\* The comparisons of median_n.cc: the first three in order, then the other two.
Smaller(x, y) == IF y < x THEN y ELSE x
Greater(x, y) == IF y < x THEN x ELSE y
Median3(v1, v2, v3) ==
  LET a == Smaller(v1, v2)
      c == Greater(v1, v2)
  IN  IF c < v3 THEN c ELSE IF v3 < a THEN a ELSE v3

Median5(v1, v2, v3, v4, v5) ==
  LET a == Smaller(Smaller(v1, v2), v3)
      b == Median3(v1, v2, v3)
      c == Greater(Greater(v1, v2), v3)
      x == Smaller(v4, v5)
      y == Greater(v4, v5)
  IN  CASE x < a            -> IF b < y THEN b ELSE Greater(y, a)
        [] x >= a /\ x < b  -> Smaller(y, b)
        [] x >= a /\ x >= b -> Smaller(c, x)

\* What the filter returns; an average as many times as its window is long.
Output(k, f) ==
  CASE k = "median3" -> Median3(f.z[0], f.z[1], f.z[2])
    [] k = "median5" -> Median5(f.z[0], f.z[1], f.z[2], f.z[3], f.z[4])
    [] OTHER -> f.sum

\* WrapAroundFilter::Filter of an angle: the smaller way round since the last one.
Way(delta) ==
  IF delta >= Period \div 2 THEN delta - Period
  ELSE IF delta < -(Period \div 2) THEN delta + Period ELSE delta

Limit == 2 * Period

\* How far everything is shifted when the continuous angle has become too big.
Jump(continuous) ==
  CASE continuous > Limit -> -Limit [] continuous < -Limit -> Limit [] OTHER -> 0

Measure(x) ==
  LET prev == IF around.initial THEN x ELSE around.prev
      from == IF around.initial THEN x ELSE around.continuous
      reached == from + Way(x - prev)
      jump == Jump(reached)
  IN  /\ inner' = Filter(kind, IF jump = 0 THEN inner ELSE Shift(inner, jump), reached + jump)
      /\ around' = [initial |-> FALSE, continuous |-> reached + jump,
                    prev |-> IF jump = 0 THEN x ELSE reached + jump]
      /\ early' = (early \/ (jump # 0 /\ ~inner.valid))

-----------------------------------------------------------------------------
Total(s) ==
  LET upTo[i \in 0 .. Len(s)] == IF i = 0 THEN 0 ELSE upTo[i - 1] + s[i] IN upTo[Len(s)]

\* Less than half of them are below it, and less than half above.
Middle(s) ==
  CHOOSE m \in {s[i] : i \in DOMAIN s} :
    /\ 2 * Cardinality({i \in DOMAIN s : s[i] < m}) < Len(s)
    /\ 2 * Cardinality({i \in DOMAIN s : s[i] > m}) < Len(s)

\* The quick filter forgets the single angles when it becomes valid.
Remembered(offsets) ==
  IF kind = "quick" /\ ~inner.valid /\ Len(offsets) = Samples \div 2
  THEN [i \in 1 .. Samples |-> Total(offsets) \div (Samples \div 2)]
  ELSE offsets

Recent(turn) ==
  LET all == <<0>> \o [i \in DOMAIN past |-> past[i] - turn]
  IN  Remembered(SubSeq(all, 1, Smaller(Len(all), Window(kind))))

Init ==
  /\ kind \in Kinds /\ inner = NewFilter(kind)
  /\ around = [initial |-> TRUE, prev |-> 0, continuous |-> 0]
  /\ course = 0 /\ past = <<>> /\ early = FALSE

\* The boat turns, and its heading is measured and filtered.
Sample ==
  \E turn \in Turns :
    /\ course' = (course + turn) % Period
    /\ Measure(course')
    /\ past' = Recent(turn)
    /\ UNCHANGED kind

Next == Sample
Spec == Init /\ [][Next]_vars

-----------------------------------------------------------------------------
\* What the filter inside is meant to return of offsets, in the same multiples.
Meant(offsets) ==
  IF kind \in {"average", "quick"} THEN Total(offsets) ELSE Middle(offsets)

Multiple == IF kind \in {"average", "quick"} THEN Samples ELSE 1

\* However often the boat has turned round and wherever it crosses north, a filter
\* that says it is valid tells the average, or the median, of the last headings and
\* of nothing else (wrap_around_filter.cc:27-66, median_n.cc:5-88); but for a quick one
\* that was shifted with half of its places still empty, which shifts these as well.
FollowsTheTurn ==
  inner.valid /\ ~(kind = "quick" /\ early) =>
    /\ Len(past) = Window(kind)
    /\ (Output(kind, inner) - (Multiple * course + Meant(past))) % (Multiple * Period) = 0
=============================================================================
