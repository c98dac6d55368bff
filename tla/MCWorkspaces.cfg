SPECIFICATION PreviewSpec
CONSTANTS
  Processes = {p1, p2}
  Inputs = {i1, i2}
  MaxMonth = 2
  MaxMade = 2
  Operations = {"met", "joined"}
  Occurrences = {"arrival", "alliance"}
  Required <- Gates
  EventIds = {1, 2, 3}
  MaxEvents = 3
  Urls = {1, 2, 3}
  Limits = {1, 2}
  MaxAttempts = 2
  NoProof = NoProof
INVARIANTS SealedHistory OpensUnlessDeath CatalogSound MoreEventsHideNothing LastingPagesKept
SYMMETRY Symmetric
CHECK_DEADLOCK FALSE
