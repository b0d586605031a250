-------------------------- MODULE MCOrchestration --------------------------
(* Instances of Orchestration for TLC.                                     *)
EXTENDS Orchestration, TLC

CONSTANTS p1, p2

\* The creator calls again, the other peer does not.
CreatorReconnects == (p1 :> 2) @@ (p2 :> 1)

\* The creator sends to the other peer.
FromTheCreator == { << p1, p2 >> }
=============================================================================
