---------------------------- MODULE MCWholeEconomy --------------------------
(* A farm at the vale, works in the town that use grain, the households of  *)
(* both, a carrier without a bank and a crown that is landlord, church and  *)
(* treasury; two banks, one of them short of reserves in some worlds.  A    *)
(* slow route brings grain to the town and a fast one wares to the vale.    *)
EXTENDS WholeScenario, TLC

MCNames == <<"b1", "b2", "carrier", "crown", "farm", "folk", "guild", "works">>
MCSiteOrder == <<"vale", "town">>
MCLoanOrder == <<"l0", "l1", "l2">>
MCReserveRatio == [b1 |-> 1, b2 |-> 1]
MCBankOf == [e \in Entities |-> CASE e \in {"farm", "folk"} -> "b1"
                                  [] e \in {"works", "guild", "crown"} -> "b2"
                                  [] OTHER -> None]
MCPools == (<<"vale", "field">> :> [household |-> "folk", class |-> "poor"])
           @@ (<<"town", "smith">> :> [household |-> "guild", class |-> "poor"])
           @@ (<<"town", "field">> :> [household |-> "folk", class |-> "poor"])
MCRecipes ==
  <<[entity |-> "farm", site |-> "vale", sector |-> "farming", farming |-> TRUE,
     inputs |-> [g \in {} |-> 0], outputs |-> [grain |-> 8], max |-> 8, desired |-> 8,
     labor |-> <<[pool |-> <<"vale", "field">>, days |-> 4]>>],
    [entity |-> "works", site |-> "town", sector |-> "craft", farming |-> FALSE,
     inputs |-> [grain |-> 4], outputs |-> [ware |-> 4], max |-> 24, desired |-> 16,
     labor |-> <<[pool |-> <<"town", "field">>, days |-> 2],
                 [pool |-> <<"town", "smith">>, days |-> 6]>>]>>
MCSpoilage == [grain |-> 2, ware |-> 0]
MCPriceRule == [grain |-> [min |-> 2, max |-> 16, elasticity |-> 2],
                ware |-> [min |-> 4, max |-> 16, elasticity |-> 2]]
MCBaskets ==
  <<[buyer |-> "folk", place |-> <<"vale", "ware">>, class |-> "poor", each |-> 2,
     substitutes |-> <<[good |-> "grain", ratio |-> 8]>>],
    [buyer |-> "guild", place |-> <<"town", "grain">>, class |-> "poor", each |-> 4,
     substitutes |-> <<[good |-> "ware", ratio |-> 2]>>]>>
MCDemands == <<[buyer |-> "works", place |-> <<"town", "grain">>, quantity |-> 8]>>
MCTenures ==
  <<[tenant |-> "farm", site |-> "vale", acres |-> 8, landlord |-> "crown", church |-> "crown",
     treasury |-> "crown", rent |-> 1, due |-> 1, tithe |-> 1, tax |-> 1],
    [tenant |-> "farm", site |-> "vale", acres |-> 4, landlord |-> "guild", church |-> "crown",
     treasury |-> "crown", rent |-> 4, due |-> 0, tithe |-> 1, tax |-> 0]>>
MCRoutes ==
  <<[origin |-> "vale", destination |-> "town", goods |-> {"grain"}, capacity |-> 24, travel |-> 1,
     loss |-> 1, carriage |-> 1, toll |-> 1, carrier |-> "carrier", collector |-> "crown"],
    [origin |-> "town", destination |-> "vale", goods |-> {"ware"}, capacity |-> 8, travel |-> 0,
     loss |-> 0, carriage |-> 2, toll |-> 0, carrier |-> "carrier", collector |-> "crown"],
    [origin |-> "vale", destination |-> "town", goods |-> {"grain", "ware"}, capacity |-> 40, travel |-> 0,
     loss |-> 2, carriage |-> 4, toll |-> 2, carrier |-> "carrier", collector |-> "folk"]>>
MCRequest(loan, when, bank, borrower, amount, good, site, pledge, limit) ==
  [loan |-> loan, month |-> when, bank |-> bank, borrower |-> borrower, amount |-> amount,
   rate |-> 2, term |-> 2, limit |-> limit, owner |-> borrower, place |-> <<site, good>>,
   pledge |-> pledge, haircut |-> 1, ratio |-> 4]
MCRequests ==
  <<MCRequest("l1", 1, "b2", "works", 24, "ware", "town", 16, 1),
    MCRequest("l2", 1, "b1", "farm", 12, "grain", "vale", 16, 1)>>
MCOld == [bank |-> "b2", borrower |-> "works", principal |-> 24, rate |-> 4, interest |-> 1,
          scheduled |-> 24, remaining |-> 1, origin |-> 0, missed |-> 0, limit |-> 1,
          status |-> "performing", owner |-> "works", place |-> <<"town", "ware">>,
          pledge |-> 8, haircut |-> 1, released |-> FALSE]
MCLinks == <<[origin |-> "town", destination |-> "vale", class |-> "poor", occupation |-> "field",
              hunger |-> 2, wage |-> 1, friction |-> 0, max |-> 2]>>
MCShock(id, site, sector, effects, when, certain) ==
  [id |-> id, site |-> site, sector |-> sector, effects |-> effects, months |-> when,
   certain |-> certain]
MCShocks ==
  {MCShock(1, "vale", "farming", "production_multiplier" :> 2, {1}, TRUE),
   MCShock(2, "town", Anywhere, "labor_multiplier" :> 2, {2}, FALSE),
   MCShock(3, Anywhere, Anywhere, ("default_risk_delta" :> 1) @@ ("tax_rate_delta" :> 1), {2, 3}, FALSE),
   MCShock(4, "vale", Anywhere, ("route_capacity_multiplier" :> 2) @@ ("migration_push" :> 1), {1}, FALSE)}

MCLot(prepaid) ==
  [id |-> <<0, 1>>, seller |-> "farm", buyer |-> "works", site |-> "town", good |-> "grain",
   quantity |-> 6, arrival |-> 1, prepaid |-> prepaid,
   dues |-> IF prepaid THEN <<>> ELSE <<Due("farm", 10), Due("carrier", 2), Due("crown", 2)>>]
MCWorld(cash, deposit, reserves, ware, grain, lots, old) ==
  [cash |-> [e \in Entities |-> IF e \in Banks \cup {"crown", "guild"} THEN 0 ELSE cash],
   deposit |-> [e \in Entities |-> CASE BankOf[e] = None \/ e = "crown" -> 0 [] e = "works" -> deposit
                                     [] OTHER -> 20],
   reserves |-> [b1 |-> 40, b2 |-> reserves],
   stock |-> (<<"works", "town", "ware">> :> ware) @@ (<<"works", "town", "grain">> :> IF ware = 8 THEN 0 ELSE 12)
             @@ (<<"farm", "vale", "grain">> :> grain) @@ (<<"b2", "town", "grain">> :> 0),
   transit |-> lots, loans |-> [l \in old |-> MCOld],
   price |-> [p \in Places |-> IF p[2] = "grain" THEN 4 ELSE 8],
   labor |-> [p \in DOMAIN Pools |-> [workers |-> 4, wage |-> 2, employed |-> 0]],
   people |-> [c \in Sites \X {"poor"} |-> 16]]
MCOpenings ==
  {MCWorld(cash, deposit, reserves, ware, grain, lots, old) :
     cash \in {0, 9}, deposit \in {0, 7, 30}, reserves \in {4, 60}, ware \in {8, 32}, grain \in {8, 60},
     lots \in {{}, {MCLot(TRUE)}, {MCLot(FALSE)}}, old \in {{}, {"l0"}}}

\* This world is one that the conditional theorems of WholeEconomyProofs are about.
ASSUME ExactModel == ExactInputs /\ InWholeCents
=============================================================================
