SPECIFICATION Spec
CONSTANTS
  r1 = r1
  f1 = f1
  f2 = f2
  f3 = f3
  r2 = r2
  Readers = {r1, r2}
  Fetchers = {f1, f2}
  Team = 1
  NBlocks = 2
  MinReadahead = 1
  MaxDownload = 2
  MaxStrays = 1
  Faults = {"refuse", "break", "short", "redirect", "nodiscovery", "disk", "localfile"}
SYMMETRY GoroutineSymmetry
INVARIANTS TypeOK RangesDisjoint ReadsSeeWrittenData DownloadsHaveOneFetcher NobodyOversleeps OrchestratorIsUpToDate
PROPERTY AnnouncementsAreLegal
CHECK_DEADLOCK FALSE
