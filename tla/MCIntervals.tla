----------------------------- MODULE MCIntervals -----------------------------
(* Instance of Intervals for TLC: every set of positions below MaxPos.     *)
EXTENDS Intervals, FiniteSetsExt

\* The maximal runs of a set of positions, in ascending order.
RangesOf(S) ==
  LET EndOf(s) == Min({ e \in (s + 1) .. (Max(S) + 1) : e \notin S })
  IN SetToSortSeq({ Interval(s, EndOf(s)) : s \in { b \in S : b - 1 \notin S } },
                  LAMBDA i, j : i.Start < j.Start)

AllLists == { RangesOf(S) : S \in SUBSET (0 .. (MaxPos - 1)) }
==============================================================================
