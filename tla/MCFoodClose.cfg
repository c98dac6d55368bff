SPECIFICATION FairSpec
CONSTANTS
  Servers = {s1}
  Conns = {c1, c2}
  Home <- MCOneHome
  Ids = {"i1"}
  Plans = {"p1"}
  Results = {"r1", "r2"}
  Result <- MCResult
  NoProc = NoProc
  NoResult = NoResult
INVARIANT QuietWhenClosed
PROPERTY CloseSucceeds
CHECK_DEADLOCK FALSE
