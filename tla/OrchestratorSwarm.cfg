SPECIFICATION Spec
CONSTANTS
  p1 = p1
  p2 = p2
  p3 = p3
  Peers = {p1, p2, p3}
  NBlocks = 2
  MaxTransfersForReadahead = 2
  Announced <- AnyAnnouncement
  Reachable <- AllOrNobody
SYMMETRY PeerSymmetry
INVARIANTS TypeOK OneCommandPerBlock WaitedForIsServed ReadAheadKeepsToTheLimit
PROPERTIES CommandsMakeSense ImplementsLedger
