SPECIFICATION FairSpec
CONSTANTS
  MaxStreams = 2
  MaxSets <- RangesChange
INVARIANTS TypeOK UpdatesAreNotForgotten WriterDoesNotOversleep
PROPERTIES WriterKeepsOff UpdatesArriveUnlessTheWriterIsLost ReaderReturns
CHECK_DEADLOCK FALSE
