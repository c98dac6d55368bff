SPECIFICATION FairSpec
CONSTANTS
  Procs = {p1, p2}
  NoProc = NoProc
  NoDice = NoDice
  Seeds = {"s1"}
  Faces = {1, 2}
  SeedFaces <- MCSeedFaces
  MaxPeriod = 2
INVARIANTS HistoryIsAChain PreviewReproduced
PROPERTIES ImplementsHistory EveryCommandEnds
CHECK_DEADLOCK FALSE
