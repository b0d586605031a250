----------------------------- MODULE MCTransfer -----------------------------
(* Instances of Transfer for TLC.                                          *)
EXTENDS Transfer, TLC

CONSTANTS r1, r2, f1, f2, f3

\* Readers and fetchers are interchangeable.
GoroutineSymmetry == Permutations(Readers) \cup Permutations(Fetchers)
=============================================================================
