SPECIFICATION Spec
CONSTANTS
  Sites <- MCSites
  Commodities <- MCCommodities
  Recipes <- MCRecipes
  Routes <- MCRoutes
  ShipmentIds = {"a", "b", "c"}
  Scale = 2
  Plans <- MCPlans
  Openings <- MCOpenings
  MaxPeriod = 3
INVARIANTS NeverOverdrawn NeverDiscarded NeedsServedInOrder
PROPERTY TransitDiscipline
CHECK_DEADLOCK FALSE
