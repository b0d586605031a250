------------------------------ MODULE Intervals ------------------------------
(***************************************************************************)
(* intervals/intervals.go: a set of byte positions kept as a sorted list   *)
(* of disjoint half-open ranges.  The client keeps what it has, wants and  *)
(* reads ahead in three such values; the discovery server subtracts what a *)
(* peer has from the transfers under way with FindUncovered.               *)
(*                                                                         *)
(* Calls with s > e panic in the code; they are outside the callers'       *)
(* contract and are not inputs here.                                       *)
(***************************************************************************)
EXTENDS Integers, Sequences, FiniteSets, SequencesExt

CONSTANTS MaxPos,        \* positions 0..MaxPos bound the ranges that are used
          Lists          \* the other values that operations are given

VARIABLE ranges          \* Intervals.ranges: a sequence of [Start, End]

Interval(s, e) == [Start |-> s, End |-> e]

\* A sorted list of ranges of which none is empty and no two touch.
NormalizedList(is) ==
  /\ \A k \in DOMAIN is : is[k].Start < is[k].End
  /\ \A j, k \in DOMAIN is : j < k => is[j].End < is[k].Start

ASSUME MaxPosAssumption == MaxPos \in Nat \ {0}

\* Other values were built by the same operations (Normalized).
ASSUME ListsAssumption ==
  \A is \in Lists : is \in Seq([Start : 0 .. MaxPos, End : 0 .. MaxPos]) /\ NormalizedList(is)

-----------------------------------------------------------------------------
(* The operations, as functions of a list of ranges.                       *)

\* Slip: a hole in the middle of a range loses the range's right part.
CutWithoutSplit(i, s, e) ==
  IF s <= i.Start /\ i.End <= e THEN << >>
  ELSE << Interval(IF s <= i.Start /\ i.Start < e THEN e ELSE i.Start,
                   IF s < i.End /\ i.Start < s THEN s ELSE i.End) >>

\* What Remove(s, e) leaves of one range: nothing, the two ends, or what one
\* end of it was clipped to.
Cut(i, s, e) ==
  IF s <= i.Start /\ i.End <= e THEN << >>
  ELSE IF i.Start < s /\ e < i.End
       THEN << Interval(i.Start, s), Interval(e, i.End) >>
       ELSE << Interval(IF s <= i.Start /\ i.Start < e THEN e ELSE i.Start,
                        IF s < i.End /\ i.End <= e THEN s ELSE i.End) >>

\* The loop of Remove: left[k] is what it leaves of the first k ranges.
Removed(is, s, e) ==
  LET left[k \in 0 .. Len(is)] ==
        IF k = 0 THEN << >> ELSE left[k-1] \o Cut(is[k], s, e)
  IN IF s = e THEN is ELSE left[Len(is)]

\* Slip: touching ranges are not joined.
JoinNothing(joined, i) == Append(joined, i)

\* A range that starts where the last one ends makes that one longer.
Join(joined, i) ==
  IF joined # << >> /\ Last(joined).End = i.Start
  THEN [joined EXCEPT ![Len(joined)] = Interval(Last(joined).Start, i.End)]
  ELSE Append(joined, i)

\* The loop of Add.
Joined(is) ==
  LET joined[k \in 0 .. Len(is)] ==
        IF k = 0 THEN << >> ELSE Join(joined[k-1], is[k])
  IN joined[Len(is)]

\* The k-th range is the one that has k - 1 before it: no two start together.
Sorted(is) ==
  LET all == { is[k] : k \in DOMAIN is }
      Before(i) == { j \in all : j.Start < i.Start }
  IN [k \in DOMAIN is |-> CHOOSE i \in all : Cardinality(Before(i)) = k - 1]

Added(is, s, e) ==
  IF s = e THEN is
  ELSE Joined(Sorted(Append(Removed(is, s, e), Interval(s, e))))

AddedRange(is, other) ==
  LET sum[k \in 0 .. Len(other)] ==
        IF k = 0 THEN is ELSE Added(sum[k-1], other[k].Start, other[k].End)
  IN sum[Len(other)]

RemovedRange(is, other) ==
  LET rest[k \in 0 .. Len(other)] ==
        IF k = 0 THEN is ELSE Removed(rest[k-1], other[k].Start, other[k].End)
  IN rest[Len(other)]

\* Slip: any overlap counts.
HasAny(is, s, e) ==
  s = e \/ \E k \in DOMAIN is : is[k].Start < e /\ s < is[k].End

Has(is, s, e) ==
  s = e \/ \E k \in DOMAIN is : is[k].Start <= s /\ e <= is[k].End

\* One turn of FindUncovered's loop: the left end of the search moves over a
\* range that meets it.
Scan(acc, i, e) ==
  IF i.End <= acc.from \/ i.Start >= e THEN acc
  ELSE [from |-> i.End,
        res  |-> IF i.Start > acc.from
                 THEN Added(acc.res, acc.from, i.Start) ELSE acc.res]

\* Once a range reaches e the list has no further one that starts before e, so
\* the early return of the code is the empty rest.
FindUncovered(is, s, e) ==
  LET scan[k \in 0 .. Len(is)] ==
        IF k = 0 THEN [from |-> s, res |-> << >>] ELSE Scan(scan[k-1], is[k], e)
      end == scan[Len(is)]
  IN IF end.from < e THEN Added(end.res, end.from, e) ELSE end.res

\* Slip: the gaps of the other list are searched too.
FindUncoveredHull(is, other) ==
  IF other = << >> THEN << >>
  ELSE FindUncovered(is, other[1].Start, Last(other).End)

FindUncoveredRange(is, other) ==
  LET sum[k \in 0 .. Len(other)] ==
        IF k = 0 THEN << >>
        ELSE AddedRange(sum[k-1], FindUncovered(is, other[k].Start, other[k].End))
  IN sum[Len(other)]

-----------------------------------------------------------------------------
(* The reference: the positions a list of ranges stands for.               *)

Covered(is) == UNION { is[k].Start .. (is[k].End - 1) : k \in DOMAIN is }

Bounds == { b \in (0 .. MaxPos) \X (0 .. MaxPos) : b[1] <= b[2] }

-----------------------------------------------------------------------------
Init == ranges = << >>

Add(s, e)    == ranges' = Added(ranges, s, e)
RemoveBytes(s, e) == ranges' = Removed(ranges, s, e)
AddRange(other)  == ranges' = AddedRange(ranges, other)
RemoveRange(other) == ranges' = RemovedRange(ranges, other)

Next ==
  \/ \E b \in Bounds : Add(b[1], b[2]) \/ RemoveBytes(b[1], b[2])
  \/ \E other \in Lists : AddRange(other) \/ RemoveRange(other)

Spec == Init /\ [][Next]_ranges

-----------------------------------------------------------------------------
(* After any sequence of Add, Remove, AddRange and RemoveRange the list is *)
(* sorted, no range is empty, and there is a gap between any two: the      *)
(* property the early exits of Has and FindUncovered rest on, and what     *)
(* makes Export() unique (TestFuzz compares two Exports).                  *)
Normalized == NormalizedList(ranges)

(* Has answers for a whole range exactly when every position of it is in   *)
(* the set, however the set was built up (a range covered by two touching  *)
(* pieces must not be missed).                                             *)
HasIsExact ==
  \A b \in Bounds :
    Has(ranges, b[1], b[2]) <=> (b[1] .. (b[2] - 1)) \subseteq Covered(ranges)

(* FindUncovered, asked for the ranges of a whole list as ReadAt and the   *)
(* discovery server ask it, returns the missing positions and nothing      *)
(* else, as a normalized list: a hole it misses is never fetched, a hole   *)
(* it invents is fetched twice.                                            *)
FindUncoveredRangeIsExact ==
  \A other \in Lists :
    LET missing == FindUncoveredRange(ranges, other)
    IN  NormalizedList(missing) /\ Covered(missing) = Covered(other) \ Covered(ranges)

\* The list implements the set of positions: each operation is one union or
\* one difference of ByteSet.
Bytes == INSTANCE ByteSet WITH bytes <- Covered(ranges)

(* Every operation on the list is a union with or a difference from the    *)
(* set it stands for: splitting, clipping, sorting and joining lose no     *)
(* position and invent none.                                               *)
ImplementsByteSet == Bytes!Spec
==============================================================================
