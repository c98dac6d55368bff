SPECIFICATION ASpec
CONSTANTS
  Keys = {k1, k2}
  Models = {m1}
  EngineModel = m1
  Types = {"stock.opening", "stock.production", "stock.consumption"}
  Ordinals = {1, 2}
  Bodies <- MCBodies
  Standings = {"authoritative"}
  Timelines = {"actual"}
  Modes = {"stock_flow", "cost_center"}
  MaxRev = 2
  MaxOrders = 2
  MaxSnapshots = 3
INVARIANT OneEventPerMutation SourceSpentOnce
PROPERTY CorrectionEndsHistory
CHECK_DEADLOCK FALSE
