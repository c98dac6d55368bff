SPECIFICATION Spec
CONSTANTS
  Scale = 4
  Cent = 1
  Owner <- MCOwner
  Goods = {"stone", "brick"}
  Recipes <- MCRecipes
  Pools <- MCPools
  Streams <- MCStreams
  Totals = {3, 10, 14, 17, 18}
  Unknown = Unknown
  Spoilage <- MCSpoilage
  Price <- MCPrice
  Routes <- MCRoutes
  Demands <- MCDemands
  Nil = Nil
  Banks = {"bank"}
  Treasury = "crown"
  LoanIds = {"loan"}
  Opening <- MCOpening
  Bank = "bank"
  Depositor = "quarry"
  Borrower = "brickworks"
  AnnualRate = 4
  Worlds <- MCWorlds
INVARIANTS GoodsConserved LocalNeedsUnharmed SoldOnce MoneyFollowsGoods
CHECK_DEADLOCK FALSE
