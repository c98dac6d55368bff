SPECIFICATION Spec
CONSTANTS
  Servers = {s1, s2}
  Conns = {c1, c2}
  Home <- MCTwoHomes
  Ids = {"i1"}
  Plans = {"p1", "p2"}
  Results = {"r1", "r2"}
  Result <- MCResult
  NoProc = NoProc
  NoResult = NoResult
INVARIANTS ServesCompleteStore RetryIsNoConflict
PROPERTY ImplementsLog
CHECK_DEADLOCK FALSE
