SPECIFICATION Spec
CONSTANTS
  p1 = p1
  p2 = p2
  Peers = {p1, p2}
  Creator = p1
  Calls <- CreatorReconnects
  Links <- FromTheCreator
INVARIANTS TypeOK WritersDoNotOversleep PeerListsIncludeEverybody BookedTransfersAreCommanded KnownPeersAreServed
CHECK_DEADLOCK FALSE
