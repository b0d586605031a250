---------------------------- MODULE MCOrchestream ----------------------------
(* Instance of Orchestream for TLC.                                        *)
EXTENDS Orchestream

\* Ranges change while they are sent, the others once; connected peers behave
\* as ranges do.
RangesChange ==
  [k \in Kinds |-> CASE k = "ranges" -> 2
                     [] k = "connectedPeers" -> 0
                     [] OTHER -> 1]
==============================================================================
