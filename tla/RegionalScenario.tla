-------------------------- MODULE RegionalScenario --------------------------
(***************************************************************************)
(* regional_scenario.py: the scenarios that are accepted, as an assumption *)
(* on the constants of RegionalMonth.  The binding to the Registry, hashes *)
(* and texts are left out; a site stands for the business that has it.     *)
(***************************************************************************)
EXTENDS RegionalMonth

Positive == Nat \ {0}
OneOf(f(_), S) == \A x, y \in S : f(x) = f(y) => x = y
-----------------------------------------------------------------------------
\* The loaders of the records, one each.
CommodityAccepted(g) == Spoilage[g] \in 0..(Scale - 1)
PoolAccepted(p) == Pools[p].days \in Nat /\ Pools[p].wage \in Nat
RecipeAccepted(r) ==
  /\ DOMAIN r.outputs # {}
  /\ \A of \in {r.inputs, r.outputs} : \A g \in DOMAIN of : of[g] \in Positive
  /\ r.labor \in Positive /\ r.max \in Positive
RouteAccepted(r) ==
  /\ r.capacity \in Positive /\ r.travel \in Nat
  /\ r.loss \in 0..(Scale - 1) /\ r.cost \in Nat
DemandAccepted(d) == d.quantity \in Positive /\ d.limit \in Positive \cup {Nil}
PriceAccepted(p) == Price[p] \in Positive

\* A business is an enterprise or a bank and brings what it has.
PositionAccepted(a) == Opening[a] \in Nat

\* A lot of the scenario is known or declared Unknown.
LotsAccepted(stock) ==
  DOMAIN stock \subseteq Places /\ stock \in [DOMAIN stock -> Nat \cup {Unknown}]

\* _verify_references: what is named exists, goods are worked up and wanted by
\* whoever owns the site, a route leads elsewhere, and no two demands are one.
ReferencesHold ==
  /\ \A i \in DOMAIN Recipes :
       /\ Recipes[i].site \in Sites /\ Recipes[i].pool \in DOMAIN Pools
       /\ DOMAIN Recipes[i].inputs \cup DOMAIN Recipes[i].outputs \subseteq Goods
  /\ \A r \in DOMAIN Routes :
       /\ {From(r), To(r)} \subseteq Places
       /\ Routes[r].origin # Routes[r].destination
  /\ \A d \in DOMAIN Demands :
       Place(d) \in Places /\ Demands[d].buyer = Owner[Demands[d].site]
  /\ LET Rank(d) == Demands[d].rank IN OneOf(Rank, DOMAIN Demands)

\* _preview_finance_assumptions: the bank, and businesses of two sectors.
RolesAccepted ==
  /\ Bank \in Banks /\ {Depositor, Borrower} \subseteq Businesses
  /\ Depositor # Borrower /\ Treasury \notin Businesses

ScenarioAccepted ==
  /\ \A g \in Goods : CommodityAccepted(g)
  /\ \A p \in DOMAIN Pools : PoolAccepted(p)
  /\ \A i \in DOMAIN Recipes : RecipeAccepted(Recipes[i])
  /\ \A r \in DOMAIN Routes : RouteAccepted(Routes[r])
  /\ \A d \in DOMAIN Demands : DemandAccepted(Demands[d])
  /\ \A p \in Places : PriceAccepted(p)
  /\ DOMAIN Opening = Finance!OpeningAccounts /\ \A a \in DOMAIN Opening : PositionAccepted(a)
  /\ ReferencesHold /\ RolesAccepted

\* A month starts from a scenario, or at a market whose lots are all known.
WorldAccepted(world) ==
  /\ LotsAccepted(world.lots) /\ MarketAccepted(world.offers)
  /\ \/ world.stage = "roll"
     \/ world.stage = "market" /\ \A p \in DOMAIN world.lots : world.lots[p] # Unknown

ASSUME ScenarioAssumption ==
  ScenarioAccepted /\ \A world \in Worlds : WorldAccepted(world)
=============================================================================
