--------------------------- MODULE MCRegionalMonth --------------------------
(* A quarry, a kiln and a yard.  Stone is handled to the kiln within the    *)
(* month, bricks to the yard; bricks and stone also travel to the quarry's  *)
(* and the yard's demands on routes that take a month.  The market worlds   *)
(* start at the market, with two sellers at one place.                      *)
EXTENDS RegionalScenario, TLC

MCOwner == [pit |-> "quarry", kiln |-> "brickworks", yard |-> "builder"]
MCPools == [pit |-> [days |-> 40, wage |-> 4], kiln |-> [days |-> 20, wage |-> 4]]
MCStreams == [mining |-> 1, making |-> 4]
MCRecipes ==
  <<[site |-> "pit", sector |-> "mining", pool |-> "pit", inputs |-> [g \in {} |-> 0],
     outputs |-> [stone |-> 8], labor |-> 4, max |-> 8],
    [site |-> "kiln", sector |-> "making", pool |-> "kiln", inputs |-> [stone |-> 4],
     outputs |-> [brick |-> 8], labor |-> 4, max |-> 12]>>
MCSpoilage == [stone |-> 0, brick |-> 1]
MCPrice == [p \in Places |-> IF p[2] = "stone" THEN 8
                             ELSE IF p[1] = "kiln" THEN 12 ELSE 16]
MCRoutes ==
  <<[origin |-> "pit", destination |-> "kiln", good |-> "stone", capacity |-> 16,
     travel |-> 0, loss |-> 1, cost |-> 2, carrier |-> "builder"],
    [origin |-> "kiln", destination |-> "yard", good |-> "brick", capacity |-> 12,
     travel |-> 0, loss |-> 1, cost |-> 2, carrier |-> "builder"],
    [origin |-> "kiln", destination |-> "pit", good |-> "brick", capacity |-> 6,
     travel |-> 1, loss |-> 1, cost |-> 4, carrier |-> "brickworks"],
    [origin |-> "yard", destination |-> "pit", good |-> "brick", capacity |-> 6,
     travel |-> 1, loss |-> 2, cost |-> 2, carrier |-> "builder"]>>
MCDemand(site, good, buyer, quantity, priority, limit, rank) ==
  [site |-> site, good |-> good, buyer |-> buyer, quantity |-> quantity,
   priority |-> priority, limit |-> limit, rank |-> rank]
MCDemands ==
  <<MCDemand("yard", "brick", "builder", 9, 1, Nil, 3),
    MCDemand("kiln", "brick", "brickworks", 5, 2, 16, 1),
    MCDemand("pit", "brick", "quarry", 11, 3, 40, 2)>>

MCLots(stone, brick, atYard) ==
  (<<"pit", "stone">> :> stone) @@ (<<"kiln", "stone">> :> 8) @@ (<<"kiln", "brick">> :> brick)
  @@ (<<"yard", "brick">> :> atYard)
ScenarioWorlds ==
  {[stage |-> "roll", lots |-> MCLots(stone, brick, atYard), offers |-> <<>>] :
     stone \in {0, 5}, brick \in {0, 7, Unknown}, atYard \in {0, 14}}
MCOffer(seller, site, quantity) ==
  [seller |-> seller, place |-> <<site, "brick">>, quantity |-> quantity]
MarketWorlds ==
  {[stage |-> "market",
    lots |-> (<<"kiln", "brick">> :> atKiln) @@ (<<"yard", "brick">> :> atYard),
    offers |-> <<MCOffer("brickworks", "kiln", own), MCOffer("quarry", "kiln", other),
                 MCOffer("quarry", "yard", 6)>>] :
     atKiln \in {4, 9, 14}, atYard \in {0, 7, 12}, own, other \in {3, 8}}
MCWorlds == ScenarioWorlds \cup MarketWorlds

MCOpening == [a \in (Businesses \cup {Treasury}) \X {"cash"} \X {"-"} \cup Businesses \X {"inventory"} \X {"-"} \cup Banks \X {"reserves"} \X {"-"} |->
                IF a[2] = "cash" /\ a[1] # Treasury THEN 100
                ELSE IF a[2] = "reserves" THEN 40 ELSE 0]
=============================================================================
