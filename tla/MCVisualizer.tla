---------------------------- MODULE MCVisualizer ----------------------------
(***************************************************************************)
(* One edge and a ring of three seconds, watched for six: long enough for   *)
(* traffic to become quiet, to leave the window, for every bucket to be     *)
(* used twice, and for a pause longer than the ring.                       *)
(***************************************************************************)
EXTENDS Visualizer

CONSTANTS alice, bob

OneEdge == {[sender |-> alice, receiver |-> bob, mode |-> "simple"]}
=============================================================================
