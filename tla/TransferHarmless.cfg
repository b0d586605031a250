SPECIFICATION Spec
CONSTANTS
  r1 = r1
  r2 = r2
  f1 = f1
  f2 = f2
  f3 = f3
  Readers = {r1}
  Fetchers = {f1}
  Team = 1
  NBlocks = 1
  MinReadahead = 1
  MaxDownload = 2
  MaxStrays = 1
  Faults = {"localfile"}
PROPERTY SetLocalFileIsHarmless
CHECK_DEADLOCK FALSE
