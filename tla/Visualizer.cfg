SPECIFICATION Spec
CONSTANTS
  None = None
  alice = alice
  bob = bob
  Edges <- OneEdge
  MaxHistory = 3
  Quiet = 2
  LastSecond = 9
  MaxBytes = 1
  MaxPolls = 2
  MaxRestarts = 1
INVARIANTS RatesAreTrue PanicsOnlyAtStart DrawnTrafficIsRecent
CHECK_DEADLOCK FALSE
