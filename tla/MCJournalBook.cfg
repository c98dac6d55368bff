SPECIFICATION JSpec
CONSTANTS
  Keys = {k1, k2}
  Models = {m1, m2}
  CurrentModel = m1
  Types = {"bank_deposit", "loan_repayment"}
  Ordinals = {1}
  Bodies <- MCBodies
  MaxRev = 2
  Standings = {"authoritative", "provisional"}
  Timelines = {"actual"}
  Currencies = {"GP"}
  Dates = {1, 2}
  Chart <- MCChart
  Never = 0
INVARIANTS OnlyTipActive OneEntryPerSource
SYMMETRY Symmetric
PROPERTIES CorrectionIsFinal CorrectionFreezesBook
CHECK_DEADLOCK FALSE
