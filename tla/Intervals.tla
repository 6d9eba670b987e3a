------------------------------ MODULE Intervals -------------------------------
(***************************************************************************)
(* The arithmetic of the phase tracker's export (phase_tracker.py): unions *)
(* and overlaps of half-open intervals <<started, ended>> over naturals.   *)
(* A list of intervals is the set of its members: a repeated interval is   *)
(* merged with itself.                                                     *)
(***************************************************************************)
EXTENDS Naturals, SequencesExt

Earlier(x, y) == x[1] < y[1] \/ (x[1] = y[1] /\ x[2] < y[2])

\* The end of an interval that absorbs a later one.
LaterEnd_Mutant(x, y) == y[2]

LaterEnd(x, y) == IF x[2] >= y[2] THEN x[2] ELSE y[2]

\* The place of an interval in the sorted list is the number of earlier ones.
InOrder(intervals) ==
  [i \in 1..Cardinality(intervals) |->
     CHOOSE x \in intervals : Cardinality({y \in intervals : Earlier(y, x)}) = i - 1]

\* An interval that starts within the last one prolongs it.
Absorb(result, x) ==
  IF result # <<>> /\ x[1] <= Last(result)[2]
  THEN [result EXCEPT ![Len(result)] = <<@[1], LaterEnd(@, x)>>]
  ELSE Append(result, x)

\* The disjoint intervals that cover the same time, in order.
_merged(intervals) ==
  LET s == InOrder(intervals)
      result[i \in 0..Len(s)] == IF i = 0 THEN <<>> ELSE Absorb(result[i - 1], s[i])
  IN  result[Len(s)]

_seconds(intervals) ==
  LET m == _merged(intervals)
      total[i \in 0..Len(m)] == IF i = 0 THEN 0 ELSE total[i - 1] + (m[i][2] - m[i][1])
  IN  total[Len(m)]

\* What two intervals share.
Shared(x, y) ==
  LET from == Max({x[1], y[1]})
      to   == Min({x[2], y[2]})
  IN  IF to > from THEN to - from ELSE 0

\* Two pointers walk the merged lists, and the one that ends first moves on.
_overlap_seconds(left, right) ==
  LET L == _merged(left)
      R == _merged(right)
      total[at \in (1..Len(L) + 1) \X (1..Len(R) + 1)] ==
        LET i == at[1]
            j == at[2]
        IN  IF i > Len(L) \/ j > Len(R) THEN 0
            ELSE Shared(L[i], R[j])
                 + total[IF L[i][2] <= R[j][2] THEN <<i + 1, j>> ELSE <<i, j + 1>>]
  IN  total[<<1, 1>>]

-----------------------------------------------------------------------------
(* The reference: an interval is the set of the unit spans it covers.      *)
Spans(intervals) == UNION {x[1]..(x[2] - 1) : x \in {y \in intervals : y[1] < y[2]}}

UnionIsExact(intervals) == _seconds(intervals) = Cardinality(Spans(intervals))

OverlapIsExact(left, right) ==
  _overlap_seconds(left, right) = Cardinality(Spans(left) \cap Spans(right))
=============================================================================
