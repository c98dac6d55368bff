----------------------------- MODULE WholeMarket ----------------------------
(***************************************************************************)
(* whole_economy.py: how one buyer's want is met - from its own stock,     *)
(* from sellers on the spot, and by imports on routes, which are paid for  *)
(* when they leave and arrive now or months later.                         *)
(*                                                                         *)
(* A market is a record of what buying changes: the money, the stock (a    *)
(* function of <<owner, site, good>>), the shipments under way, and the    *)
(* month's records of what is gone for good, what each route has carried,  *)
(* how many trades there were and how each place was supplied.             *)
(***************************************************************************)
EXTENDS Payments

CONSTANTS SiteOrder,    \* the settlements, in the order of the scenario
          Goods,
          Routes        \* sequence of routes, in the order of their identifiers

Sites == {SiteOrder[s] : s \in DOMAIN SiteOrder}
Rows == Entities \X Sites \X Goods
Places == Sites \X Goods

\* _available_quantity: what is not pledged to a bank.
Available(row) == Larger(0, row.quantity - row.pledged)

Row(market, owner, place) == market.stock[<<owner, place[1], place[2]>>]
Taken(market, owner, place, n) ==
  [market EXCEPT !.stock[<<owner, place[1], place[2]>>].quantity = @ - n]
Gone(market, good, n) == [market EXCEPT !.gone[good] = @ + n]
UsedUp(market, place, n) ==
  [Gone(market, place[2], n) EXCEPT !.supply[place].consumed = @ + n]
-----------------------------------------------------------------------------
\* _local_consumption.  A bank's stock is seized collateral, which it neither
\* consumes nor sells.
OwnUse(market, buyer, place, wanted) ==
  IF buyer \in Banks THEN 0 ELSE Lesser(wanted, Available(Row(market, buyer, place)))

Wish(market, buyer, seller, place, price, wanted) ==
  Lesser(Lesser(wanted, Available(Row(market, seller, place))),
         Over(Funds(market.money, buyer), price))
Exchange(market, buyer, seller, place, cost, units) ==
  LET paid == [market EXCEPT !.money = Transfer(@, buyer, seller, cost)]
  IN IF units <= 0 THEN [market |-> paid, units |-> 0]
     ELSE [market |-> [UsedUp(Taken(paid, seller, place, units), place, units)
                         EXCEPT !.trades = @ + 1],
           units |-> units]
Purchase(market, buyer, seller, place, price, wish) ==
  LET cost == Cents(Times(wish, price))
  IN IF wish <= 0 \/ cost <= 0 THEN [market |-> market, units |-> 0]
     ELSE Exchange(market, buyer, seller, place, cost,
                   Lesser(wish, Over(Transferred(market.money, buyer, seller, cost), price)))

\* A seller is asked for what is still wanted.
Sells(e, buyer) == e # buyer /\ e \notin Banks
Bought(acc, deal) == [market |-> deal.market, units |-> acc.units + deal.units]
BuyFrom(acc, seller, buyer, place, price, wanted) ==
  IF ~Sells(seller, buyer) \/ acc.units >= wanted \/ price <= 0 THEN acc
  ELSE Bought(acc, Purchase(acc.market, buyer, seller, place, price,
                            Wish(acc.market, buyer, seller, place, price,
                                 wanted - acc.units)))
OwnFirst(market, buyer, place, wanted, own) ==
  [market |-> UsedUp(Taken([market EXCEPT !.supply[place].requested = @ + wanted],
                           buyer, place, own), place, own),
   units |-> own]
LocalConsumption(market, buyer, place, price, wanted) ==
  LET Buy(acc, seller) == BuyFrom(acc, seller, buyer, place, price, wanted)
  IN IF wanted <= 0 THEN [market |-> market, units |-> 0]
     ELSE FoldLeft(Buy, OwnFirst(market, buyer, place, wanted,
                                 OwnUse(market, buyer, place, wanted)), Names)
-----------------------------------------------------------------------------
\* _dispatch_routes.  prices gives the price at each place, capacity what a
\* route may carry under the month's shocks.
LandedCost(route, prices, good) ==
  prices[<<route.origin, good>>] + Over(route.carriage + route.toll, Scale - route.loss)
RoutesTo(place) == {r \in DOMAIN Routes : Routes[r].destination = place[1]
                                           /\ place[2] \in Routes[r].goods}
\* The routes whose turn is the k-th, the cheapest first: one, or none.
Turn(k, place, prices) ==
  LET Cost(r) == LandedCost(Routes[r], prices, place[2])
      Cheaper(r, s) == Cost(r) < Cost(s) \/ (Cost(r) = Cost(s) /\ r < s)
  IN {r \in RoutesTo(place) : Cardinality({s \in RoutesTo(place) : Cheaper(s, r)}) = k - 1}

Dues(route, seller, price, dispatched) ==
  <<Due(seller, Cents(Times(Times(dispatched, Scale - route.loss), price))),
    Due(route.carrier, Cents(Times(dispatched, route.carriage))),
    Due(route.collector, Cents(Times(dispatched, route.toll)))>>

\* Mutant: only the funds are looked at, not the reserves behind them.
AffordableByFunds(market, buyer, dues) ==
  Funds(market.money, buyer) >= TotalDue(buyer, dues)
\* Whether the buyer's means allow the bundle.
Affordable(market, buyer, dues) ==
  /\ Funds(market.money, buyer) >= dues[1].amount + dues[2].amount + dues[3].amount
  /\ Payable(market.money, buyer, dues)

Shipment(route, seller, buyer, good, delivered, now, number) ==
  [id |-> <<now, number>>, seller |-> seller, buyer |-> buyer, site |-> route.destination,
   good |-> good, quantity |-> delivered, arrival |-> now + route.travel,
   dues |-> <<>>, prepaid |-> TRUE]

\* Mutant: what is lost on the way is not put down as lost.
SentUnspoilt(market, r, seller, buyer, place, dispatched, delivered, now) ==
  LET route == Routes[r]
      left == [Taken(market, seller, <<route.origin, place[2]>>, dispatched)
                 EXCEPT !.carried[r] = @ + dispatched, !.trades = @ + 1]
  IN IF route.travel = 0 THEN UsedUp(left, place, delivered)
     ELSE [left EXCEPT !.transit = @ \cup
             {Shipment(route, seller, buyer, place[2], delivered, now, left.trades)}]
\* A shipment leaves: it is paid for, taken from the seller, and consumed at
\* once if the route takes no time.
Sent(market, r, seller, buyer, place, dispatched, delivered, now) ==
  LET route == Routes[r]
      left == [Gone(Taken(market, seller, <<route.origin, place[2]>>, dispatched),
                    place[2], dispatched - delivered)
                 EXCEPT !.carried[r] = @ + dispatched, !.trades = @ + 1]
  IN IF route.travel = 0 THEN UsedUp(left, place, delivered)
     ELSE [left EXCEPT !.transit = @ \cup
             {Shipment(route, seller, buyer, place[2], delivered, now, left.trades)}]

\* One seller at the origin of a route.  todo is the state of the loop: what
\* is still wanted, what the route can still carry, what is still affordable.
Dispatchable(todo, r, seller, place) ==
  LET arriving == Scale - Routes[r].loss
  IN Min({Available(Row(todo.market, seller, <<Routes[r].origin, place[2]>>)),
          Over(Larger(0, todo.wanted), arriving), todo.room, Over(todo.affordable, arriving)})
Paying(market, settled) ==
  [market EXCEPT !.money = settled.money, !.full = @ /\ settled.full]
Send(todo, r, seller, buyer, place, dues, dispatched, delivered, now) ==
  IF dispatched <= 0 \/ ~Affordable(todo.market, buyer, dues) THEN todo
  ELSE [market |-> Sent(Paying(todo.market, PaidOff(todo.market.money, buyer, dues)),
                        r, seller, buyer, place, dispatched, delivered, now),
        wanted |-> todo.wanted - delivered,
        room |-> todo.room - dispatched,
        affordable |-> todo.affordable - delivered,
        arrived |-> todo.arrived + (IF Routes[r].travel = 0 THEN delivered ELSE 0)]
Import(todo, r, seller, buyer, place, prices, dispatched, now) ==
  IF ~Sells(seller, buyer) THEN todo
  ELSE Send(todo, r, seller, buyer, place,
            Dues(Routes[r], seller, prices[<<Routes[r].origin, place[2]>>], dispatched),
            dispatched, Times(dispatched, Scale - Routes[r].loss), now)

Setting(todo, r, cost, buyer, room) ==
  [todo EXCEPT !.room = room,
     !.affordable = IF cost <= 0 THEN 0 ELSE Over(Funds(todo.market.money, buyer), cost)]
Along(todo, r, buyer, place, prices, capacity, now) ==
  LET room == Larger(0, capacity[r] - todo.market.carried[r])
      From(acc, seller) == Import(acc, r, seller, buyer, place, prices,
                                  Dispatchable(acc, r, seller, place), now)
  IN IF todo.wanted <= 0 \/ room <= 0 THEN todo
     ELSE FoldLeft(From, Setting(todo, r, LandedCost(Routes[r], prices, place[2]), buyer, room),
                   Names)
NextRoute(todo, turn, buyer, place, prices, capacity, now) ==
  IF turn = {} THEN todo
  ELSE Along(todo, CHOOSE r \in turn : TRUE, buyer, place, prices, capacity, now)
DispatchRoutes(market, buyer, place, prices, capacity, wanted, now) ==
  LET Try(todo, k) == NextRoute(todo, Turn(k, place, prices), buyer, place, prices, capacity, now)
  IN FoldLeftDomain(Try, [market |-> market, wanted |-> wanted, room |-> 0, affordable |-> 0,
                          arrived |-> 0], Routes)
=============================================================================
