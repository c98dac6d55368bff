--------------------------- MODULE RegionalMarket ---------------------------
(***************************************************************************)
(* regional_market.py and regional_transport.py, with the storage losses   *)
(* and same-month handling that regional_engine.py puts before them: what  *)
(* becomes of a month's goods once they are made.  The market plans its    *)
(* exports against a diagnostic run that serves local needs alone, then    *)
(* runs the month again with the planned dispatches and compares.          *)
(*                                                                         *)
(* Offers, routes and demands are numbered in the order the code sorts     *)
(* them; what it does for several in a row is one step each.  Prices are   *)
(* those of the opening: how needs move them is StockFlow's.               *)
(***************************************************************************)
EXTENDS RegionalProduction

CONSTANTS Spoilage,     \* good |-> share of it lost in storage in a month
          Price,        \* <<site, good>> |-> opening price
          Routes,       \* sequence of routes, by identifier
          Demands,      \* sequence of demands, by priority, place and identifier
          Nil

VARIABLES spoiled,      \* good |-> lost in storage
          offers,       \* the market's offers
          at,           \* what the step in hand has come to
          tried,        \* routes the demand in hand has been offered
          plan,         \* dispatches planned so far
          trades,       \* receipts of trades
          served        \* demand |-> quantity consumed of local stock

marketVars == <<spoiled, offers, at, tried, plan, trades, served>>
productionVars == <<orders, made, days, wages>>

Route == [origin : Sites, destination : Sites, good : Goods, capacity : Nat,
          travel : Nat, loss : 0..(Scale - 1), cost : Nat, carrier : Businesses]
Demand == [site : Sites, good : Goods, buyer : Businesses, quantity : Nat \ {0},
           priority : Int, limit : Nat \cup {Nil}, rank : Nat]

ASSUME MarketAssumption ==
  /\ Spoilage \in [Goods -> 0..Scale]
  /\ Price \in [Places -> Nat]
  /\ Routes \in Seq(Route) /\ \A r \in DOMAIN Routes : Routes[r].origin # Routes[r].destination
  /\ Demands \in Seq(Demand)
  /\ Nil \notin Nat
-----------------------------------------------------------------------------
From(r) == <<Routes[r].origin, Routes[r].good>>
To(r) == <<Routes[r].destination, Routes[r].good>>
Place(d) == <<Demands[d].site, Demands[d].good>>
DemandsAt(p) == {d \in DOMAIN Demands : Place(d) = p}
Wanted == [d \in DOMAIN Demands |-> Demands[d].quantity]
Loss(r, quantity) == Times(quantity, Routes[r].loss)
Delivery(r, quantity) == quantity - Loss(r, quantity)

ApplyStorageLosses ==
  /\ stage = "storage"
  /\ \A p \in DOMAIN lots : lots[p] = Unknown => Spoilage[p[2]] = 0
  /\ LET rot == [p \in DOMAIN lots |->
                   IF lots[p] = Unknown THEN 0 ELSE Times(lots[p], Spoilage[p[2]])]
     IN /\ lots' = [p \in DOMAIN lots |->
                      IF lots[p] = Unknown THEN Unknown ELSE lots[p] - rot[p]]
        /\ spoiled' = [g \in Goods |-> Sum(rot, {p \in DOMAIN lots : p[2] = g})]
  /\ stage' = "handling"
  /\ UNCHANGED <<productionVars, offers, at, tried, plan, trades, served>>

\* A receipt; a trade over a route pays the carrier, one on the spot has none.
Trade(demand, offer, seller, buyer, route, place, quantity, lost, carriage, status) ==
  [demand |-> demand, offer |-> offer, seller |-> seller, buyer |-> buyer,
   route |-> route, carrier |-> IF route = Nil THEN Nil ELSE Routes[route].carrier,
   good |-> place[2], quantity |-> quantity, lost |-> lost,
   value |-> Times(quantity, Price[place]), carriage |-> carriage, status |-> status]

\* Mutant: what is lost on the way arrives as well.
HandledWithoutLoss(r, quantity) == quantity

\* What a same-month route delivers of what it moves.
Handled(r, quantity) == Delivery(r, quantity)

\* _instant_route_transfers: a demanded good is moved to cover the shortfall,
\* rounded up (to Grain, the code's 0.000001); any other as far as it goes.
HandlingWanted(r) ==
  LET demanded == DemandsAt(To(r))
      shortfall == Larger(0, Sum(Wanted, demanded) - Stock(To(r)))
      kept == Scale - Routes[r].loss
  IN IF demanded = {} THEN Routes[r].capacity ELSE (shortfall * Scale + kept - 1) \div kept

Handle ==
  LET r == at + 1
      route == Routes[r]
      moved == Min({Stock(From(r)), route.capacity, HandlingWanted(r)})
      wanting == DemandsAt(To(r))
  IN /\ stage = "handling" /\ r \in DOMAIN Routes
     /\ at' = r
     /\ IF route.travel > 0 THEN UNCHANGED <<lots, trades>>
        ELSE /\ From(r) \in DOMAIN lots
             /\ Unknown \notin {lots[p] : p \in {From(r), To(r)} \cap DOMAIN lots}
             /\ IF moved = 0 THEN UNCHANGED <<lots, trades>>
                ELSE /\ lots' = [p \in DOMAIN lots \cup {To(r)} |->
                                   IF p = From(r) THEN lots[p] - moved
                                   ELSE IF p = To(r) THEN Stock(p) + Handled(r, moved)
                                   ELSE lots[p]]
                     /\ trades' = Append(trades,
                          Trade(IF wanting = {} THEN Nil ELSE Min(wanting), Nil,
                                Owner[route.origin], Owner[route.destination], r, From(r),
                                moved, Loss(r, moved), Times(moved, route.cost), "delivered"))
     /\ UNCHANGED <<stage, productionVars, spoiled, offers, tried, plan, served>>

\* The regional engine offers every lot in full, one offer at a place, so that
\* their order decides nothing.  An Unknown lot keeps the market shut.
Offer(p) == [seller |-> Owner[p[1]], place |-> p, quantity |-> lots[p]]
\* _simulate_market_month takes offers at known places, demands for goods that
\* have a price there, and routes between known places.
SupplyOffer == [seller : Businesses, place : Places, quantity : Nat]
MarketAccepted(all) ==
  /\ all \in Seq(SupplyOffer)
  /\ \A d \in DOMAIN Demands : Place(d) \in Places /\ Price[Place(d)] > 0
  /\ \A r \in DOMAIN Routes : {From(r), To(r)} \subseteq Places

OpenMarket ==
  /\ stage = "handling" /\ at = Len(Routes)
  /\ \A p \in DOMAIN lots : lots[p] # Unknown
  /\ LET all == {Offer(p) : p \in {q \in DOMAIN lots : lots[q] > 0}}
     IN offers' = CHOOSE order \in Bijection(1 .. Cardinality(all), all) : TRUE
  /\ MarketAccepted(offers')
  /\ stage' = "market" /\ at' = 1
  /\ UNCHANGED <<lots, productionVars, spoiled, tried, plan, trades, served>>
-----------------------------------------------------------------------------
\* What a demand is admitted to, and what it gets, of the stock held: demands
\* are served one after the other as far as the place's stock goes.
Admitted(d) == Demands[d].limit # Nil => Price[Place(d)] <= Demands[d].limit
Consumed(held, d) ==
  LET before == {e \in 1..(d - 1) : Admitted(e) /\ Place(e) = Place(d)}
  IN IF Admitted(d)
     THEN Larger(0, Lesser(Demands[d].quantity, held[Place(d)] - Sum(Wanted, before)))
     ELSE 0
Held == [p \in Places |-> Stock(p)]

\* The stock local needs leave, shared out over the offers at the place.
Exportable(p) ==
  Held[p] - Sum([d \in DOMAIN Demands |-> Consumed(Held, d)],
                DemandsAt(p))

Offered == [o \in DOMAIN offers |-> offers[o].quantity]

\* Mutant: an offer may export what local needs would take.
BudgetOfStock(o) == Lesser(offers[o].quantity, Held[offers[o].place])

Budget(o) ==
  LET before == {k \in 1..(o - 1) : offers[k].place = offers[o].place}
  IN Larger(0, Lesser(offers[o].quantity,
                      Exportable(offers[o].place) - Sum(Offered, before)))

Dispatched == [i \in DOMAIN plan |-> plan[i].quantity]
SentBy(o) == {i \in DOMAIN plan : plan[i].offer = o}
SentOver(r) == {i \in DOMAIN plan : plan[i].route = r}
BudgetLeft(o) == Budget(o) - Sum(Dispatched, SentBy(o))
RoomLeft(r) == Routes[r].capacity - Sum(Dispatched, SentOver(r))

\* What the receipt of a demand reports as missing, and what is still missing
\* of it once the dispatches planned for it arrive.
Shortage(held, d) == Demands[d].quantity - Consumed(held, d)
Sent == [i \in DOMAIN plan |-> Delivery(plan[i].route, plan[i].quantity)]
SentFor(d) == {i \in DOMAIN plan : plan[i].demand = d}
Missing(d) ==
  Larger(0, Shortage(Held, d) - Sum(Sent, SentFor(d)))

\* What a unit delivered over the route costs the buyer.
Landed(r) == Over(Price[From(r)] + Routes[r].cost, Scale - Routes[r].loss)
Candidates(d) ==
  {c \in (DOMAIN offers) \X (DOMAIN Routes) :
     LET o == c[1]  r == c[2]
     IN /\ Routes[r].travel >= 1 /\ BudgetLeft(o) > 0
        /\ From(r) = offers[o].place /\ To(r) = Place(d)
        /\ Demands[d].limit # Nil => Landed(r) <= Demands[d].limit
        /\ c \notin tried}
\* Cheapest first, then by route and by offer.
Precedes(x, y) ==
  \/ Landed(x[2]) < Landed(y[2])
  \/ Landed(x[2]) = Landed(y[2]) /\ (x[2] < y[2] \/ (x[2] = y[2] /\ x[1] <= y[1]))

\* The largest dispatch whose delivery is not more than desired.
DispatchForDelivery(r, desired, available, room) ==
  LET most == Min({available, room, Routes[r].capacity})
      quotient == Lesser(most, Over(desired, Scale - Routes[r].loss))
  IN IF desired = 0 \/ most = 0 THEN 0
     ELSE IF Delivery(r, most) <= desired THEN most
     ELSE Max({x \in 0..quotient : Delivery(r, x) <= desired})

PlanExport ==
  /\ stage = "market" /\ at \in DOMAIN Demands /\ Missing(at) > 0
  /\ \E c \in Candidates(at) :
       /\ \A other \in Candidates(at) : Precedes(c, other)
       /\ LET q == DispatchForDelivery(c[2], Missing(at), BudgetLeft(c[1]), RoomLeft(c[2]))
              order == [demand |-> at, offer |-> c[1], route |-> c[2], quantity |-> q]
          IN plan' = IF q = 0 THEN plan ELSE Append(plan, order)
       /\ tried' = tried \cup {c}
  /\ UNCHANGED <<stage, lots, productionVars, spoiled, offers, at, trades, served>>

NextDemand ==
  /\ stage = "market" /\ at \in DOMAIN Demands
  /\ Missing(at) = 0 \/ Candidates(at) = {}
  /\ at' = at + 1 /\ tried' = {}
  /\ UNCHANGED <<stage, lots, productionVars, spoiled, offers, plan, trades, served>>

\* What the second run of the month can dispatch of the planned shipments.
AsPlanned ==
  \A i \in DOMAIN plan :
    LET earlier == 1..(i - 1)
        r == plan[i].route
    IN /\ plan[i].quantity <= Held[From(r)]
            - Sum(Dispatched, {j \in earlier : From(plan[j].route) = From(r)})
       /\ plan[i].quantity <= Routes[r].capacity
            - Sum(Dispatched, {j \in earlier : plan[j].route = r})

\* The receipt of a route's usage refuses more than its capacity.
UsageAccepted(r) == RoomLeft(r) >= 0

SentFrom(p) == {i \in DOMAIN plan : From(plan[i].route) = p}
Shipped(p) == Sum(Dispatched, SentFrom(p))
InTransit(i) ==
  LET order == plan[i]
      r == order.route
  IN Trade(order.demand, order.offer, offers[order.offer].seller,
           Demands[order.demand].buyer, r, From(r), order.quantity,
           Loss(r, order.quantity), Times(order.quantity, Routes[r].cost), "in_transit")

\* The second run, the receipts it gives, and the stock it leaves.
ResolveMarket ==
  LET left == [p \in Places |-> Held[p] - Shipped(p)]
      taken == [d \in DOMAIN Demands |-> Consumed(left, d)]
  IN /\ stage = "market" /\ at > Len(Demands)
     /\ AsPlanned /\ \A r \in DOMAIN Routes : UsageAccepted(r)
     /\ served' = taken
     /\ lots' = [p \in DOMAIN lots |->
                   left[p] - Sum(taken, DemandsAt(p))]
     /\ trades' = trades \o [i \in DOMAIN plan |-> InTransit(i)]
     /\ stage' = "local" /\ at' = 1
     /\ UNCHANGED <<productionVars, spoiled, offers, tried, plan>>

\* What each receipt of a trade sold.
Sold == [i \in DOMAIN trades |-> trades[i].quantity]
SoldFrom(o) == {i \in DOMAIN trades : trades[i].offer = o}

\* Mutant: what was dispatched is still for sale on the spot.
OfferedAnew(o) ==
  Larger(0, offers[o].quantity - Sum(Sold, {i \in SoldFrom(o) : trades[i].route = Nil}))

\* What is left of an offer for buyers on the spot.
OfferLeft(o) == Larger(0, offers[o].quantity - Sum(Sold, SoldFrom(o)))

\* Demands are gone through by their identifiers: what each consumed is sold
\* to it by the others who offered it at the place, one after the other.
Position(d) ==
  Cardinality({e \in DOMAIN Demands : Demands[e].rank < Demands[d].rank}) + 1
OnTheSpot(d) == {i \in DOMAIN trades : trades[i].route = Nil /\ trades[i].demand = d}
Remaining(d) == served[d] - Sum(Sold, OnTheSpot(d))
Selling(d) == {o \in DOMAIN offers : /\ offers[o].place = Place(d)
                                     /\ offers[o].seller # Demands[d].buyer
                                     /\ OfferLeft(o) > 0}

SellLocally ==
  \E d \in DOMAIN Demands :
    LET o == Min(Selling(d))
    IN /\ stage = "local" /\ Position(d) = at
       /\ Remaining(d) > 0 /\ Selling(d) # {}
       /\ trades' = Append(trades,
            Trade(d, o, offers[o].seller, Demands[d].buyer, Nil, Place(d),
                  Lesser(Remaining(d), OfferLeft(o)), 0, 0, "delivered"))
       /\ UNCHANGED <<stage, lots, productionVars, spoiled, offers, at, tried, plan, served>>

NextBuyer ==
  /\ stage = "local" /\ at \in DOMAIN Demands
  /\ \A d \in DOMAIN Demands :
       Position(d) = at => Remaining(d) = 0 \/ Selling(d) = {}
  /\ at' = at + 1
  /\ UNCHANGED <<stage, lots, productionVars, spoiled, offers, tried, plan, trades, served>>

CloseMarket ==
  /\ stage = "local" /\ at > Len(Demands)
  /\ stage' = "finance" /\ at' = 1
  /\ UNCHANGED <<lots, productionVars, spoiled, offers, tried, plan, trades, served>>
=============================================================================
