SPECIFICATION FairSpec
CONSTANTS
  MaxStreams = 2
  MaxSets <- RangesChange
PROPERTY UpdatesArriveAfterReconnect
CHECK_DEADLOCK FALSE
