---------------------------- MODULE MCStockFlow -----------------------------
(* A mill that grinds grain and mends sacks, a town that eats, a slow and a *)
(* fast road between them.  Quantities are half units (Scale = 2).          *)
EXTENDS StockFlow

MCSites == [mill |-> 4, town |-> 0]
MCCommodities ==
  [grain |-> [priced |-> FALSE, base |-> 0, elasticity |-> 0, floor |-> 1, ceiling |-> 4],
   flour |-> [priced |-> TRUE, base |-> 32, elasticity |-> 4, floor |-> 1, ceiling |-> 4]]
MCRecipes ==
  [grind |-> [site |-> "mill", inputs |-> << <<"grain", 2>> >>,
              outputs |-> << <<"flour", 2>> >>, labor |-> 1, max |-> 5, priority |-> 1],
   sift  |-> [site |-> "mill", inputs |-> << <<"flour", 1>>, <<"grain", 1>> >>,
              outputs |-> << <<"flour", 2>> >>, labor |-> 2, max |-> 2, priority |-> 2]]
MCRoutes ==
  [fast |-> [origin |-> "mill", destination |-> "town", commodity |-> "flour",
             capacity |-> 3, travel |-> 1, loss |-> 1],
   slow |-> [origin |-> "mill", destination |-> "town", commodity |-> "flour",
             capacity |-> 4, travel |-> 2, loss |-> 0]]

Order(tag, recipe, batches) == [tag |-> tag, recipe |-> recipe, batches |-> batches]
Ship(id, route, quantity) ==
  [id |-> id, route |-> route, commodity |-> "flour", quantity |-> quantity]
Want(priority, site, quantity) ==
  [priority |-> priority, site |-> site, commodity |-> "flour", quantity |-> quantity]

MCPlans ==
  [period : 1..MaxPeriod,
   production : {{}, {Order(1, "grind", 2), Order(2, "grind", 4), Order(3, "sift", 3)}},
   shipments : {{}, {Ship("a", "fast", 2), Ship("b", "fast", 2)}, {Ship("a", "slow", 3)},
                {Ship("c", "slow", 2), Ship("c", "fast", 1)}, {Ship("c", "slow", 3)}},
   needs : {{}, {Want(1, "town", 1), Want(2, "town", 3)},
            {Want(1, "mill", 2), Want(2, "mill", 2)}}]

Opening(reserved, transit) ==
  [period |-> 0,
   stock |-> [p \in Places |-> IF p = <<"mill", "grain">> THEN 6
                               ELSE IF p[2] = "flour" THEN 2 ELSE 0],
   reserved |-> [p \in Places |-> IF p = <<"mill", "flour">> THEN reserved ELSE 0],
   prices |-> [p \in Places |-> Commodities[p[2]].base],
   transit |-> transit, shipped |-> {l.id : l \in transit}]
UnderWay == [id |-> "b", route |-> "slow", quantity |-> 3, arrival |-> 2]
MCOpenings ==
  {Opening(k, {}) : k \in {0, 1, 2}} \cup {Opening(1, {UnderWay})}

\* What the theorems about stock ask of a model holds of this one.
ASSUME ExactModel == ExactRecipes
=============================================================================
