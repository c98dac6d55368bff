SPECIFICATION BSpec
CONSTANTS
  Procs = {p1, p2}
  Exports = {"e1", "e2", "e3"}
  SnapshotOf <- MCSnapshotOf
  CapturedAt <- MCCapturedAt
  Businesses = {"brickworks"}
  Months = {"Eleint"}
  Options = {"o1", "o2"}
  Latest = Latest
  NoProc = NoProc
INVARIANT ProvenanceComplete
PROPERTY ImplementsLog
SYMMETRY Symmetric
CHECK_DEADLOCK FALSE
