--------------------------- MODULE MCOrchestrator ---------------------------
(* Instances of Orchestrator for TLC.                                      *)
EXTENDS Orchestrator, TLC

CONSTANTS p1, p2, p3

PeerSymmetry == Permutations(Peers)

\* A peer has anything and asks for all that it lacks: what it reads ahead
\* reaches to the end of the file, for the rest it waits.  Or it has nothing
\* and asks for nothing.
AnyAnnouncement(p) ==
  {NoRanges} \cup
  { r \in ByteRanges :
      /\ Disjoint(r)
      /\ r.have \cup r.readnow \cup r.readahead = Blocks
      /\ \A a \in r.readahead : a .. (NBlocks - 1) \subseteq r.readahead }

\* A peer reports that it reaches everybody else, or nobody.
AllOrNobody(p) == {{}, Peers \ {p}}
==============================================================================
