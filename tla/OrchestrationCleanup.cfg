SPECIFICATION FairSpec
CONSTANTS
  p1 = p1
  p2 = p2
  Peers = {p1, p2}
  Creator = p1
  Calls <- CreatorReconnects
  MaxReports = 3
  HandlesCap = 2
INVARIANTS TypeOK DeadlineIsUpToDate
PROPERTIES UnusedOrchestrationsClose ClosingEndsStreams
CHECK_DEADLOCK FALSE
