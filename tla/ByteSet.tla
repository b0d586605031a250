------------------------------- MODULE ByteSet -------------------------------
(***************************************************************************)
(* What a value of type intervals.Intervals promises: it behaves as a set  *)
(* of byte positions.  Intervals.tla keeps the sorted list of half-open    *)
(* ranges of the code and is shown to implement this specification.        *)
(***************************************************************************)
EXTENDS Integers

CONSTANT MaxPos          \* positions 0..MaxPos bound the ranges that are used

VARIABLE bytes           \* the positions that are in the set

Init == bytes = {}

Include(S) == bytes' = bytes \cup S
Exclude(S) == bytes' = bytes \ S

Next == \E S \in SUBSET (0 .. (MaxPos - 1)) : Include(S) \/ Exclude(S)

Spec == Init /\ [][Next]_bytes
==============================================================================
