----------------------- MODULE MCOrchestrationCleanup -----------------------
(* Instances of OrchestrationCleanup for TLC.                              *)
EXTENDS OrchestrationCleanup, TLC

CONSTANTS p1, p2

\* The creator calls again, the other peer does not.
CreatorReconnects == (p1 :> 2) @@ (p2 :> 1)
=============================================================================
