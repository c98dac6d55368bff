SPECIFICATION Spec
CONSTANTS
  mill = mill  town = town  north = north  south = south
  Enterprises = {mill, town}
  Banks = {north, south}
  Treasuries = {"crown"}
  LoanIds = {"l1"}
  Opening <- MCOpening
  Amounts = {6, 12}
  Rates = {1}
  Scale = 1
  Cent = 1
  MaxEvents = 4
SYMMETRY Alike
INVARIANTS ReportsReconcile ClaimsBacked LoanBounded
PROPERTY NoInventedCash
CHECK_DEADLOCK FALSE
