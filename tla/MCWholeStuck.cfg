SPECIFICATION Spec
CONSTANTS
  Scale = 4
  Cent = 1
  None = None
  Anywhere = Anywhere
  Names <- MCNames
  Banks = {"b1", "b2"}
  BankOf <- MCBankOf
  SiteOrder <- MCSiteOrder
  Goods = {"grain", "ware"}
  Routes <- MCRoutes
  Recipes <- MCRecipes
  Pools <- MCPools
  Days = 4
  Spoilage <- MCSpoilage
  PriceRule <- MCPriceRule
  Baskets <- MCBaskets
  Demands <- MCDemands
  Tenures <- MCTenures
  Requests <- MCRequests
  LoanOrder <- MCLoanOrder
  Links <- MCLinks
  ReserveRatio <- MCReserveRatio
  Shocks <- MCShocks
  Openings <- MCOpenings
  Months = 3
INVARIANT EveryMonthCompletes
CHECK_DEADLOCK FALSE
