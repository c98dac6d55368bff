----------------------------- MODULE StockFlow ------------------------------
(***************************************************************************)
(* stockflow.py: one month of the material economy.  advance() takes the   *)
(* parent snapshot and a plan, lets due shipments arrive, executes         *)
(* production orders, then dispatches, then needs, checks its own result   *)
(* and seals a child snapshot; any failed check discards the whole run.    *)
(*                                                                         *)
(* A quantity is a whole number of 1/Scale units: the engine's decimals    *)
(* are of finite precision, add and subtract exactly, and round products   *)
(* and quotients half-even, and so do these.  Orders of equal rank are     *)
(* sorted by their identifiers in the code; here either may go first.      *)
(* Campaign ordinals and authorising events are left to ActualTimeline.    *)
(***************************************************************************)
EXTENDS FixedPoint, Sums, Sequences, FiniteSets

CONSTANTS Sites,        \* site |-> its labour capacity
          Commodities,  \* commodity |-> its price response (see Commodity)
          Recipes,      \* recipe id |-> Recipe
          Routes,       \* route id |-> Route
          ShipmentIds,
          Plans,        \* plans a caller may submit
          Openings,     \* opening snapshots
          MaxPeriod     \* bound: last month that is run

VARIABLES snap,         \* the newest sealed snapshot
          run,          \* the run in progress, or Idle
          outcome       \* how the latest run ended

vars == <<snap, run, outcome>>

SiteIds == DOMAIN Sites
Goods == DOMAIN Commodities
Places == SiteIds \X Goods
Idle == [running |-> FALSE]

\* What the constructors of the model's records insist on.
Commodity == [priced : BOOLEAN, base : Nat, elasticity : Nat,
              floor : Nat \ {0}, ceiling : Nat \ {0}]
Quantities == Seq(Goods \X (Nat \ {0}))
Recipe == [site : SiteIds, inputs : Quantities, outputs : Quantities,
           labor : Nat, max : Nat, priority : Int]
Route == {r \in [origin : SiteIds, destination : SiteIds,
                 commodity : Goods, capacity : Nat,
                 travel : Nat \ {0}, loss : Nat] : r.loss < Scale}
Lot == [id : ShipmentIds, route : DOMAIN Routes, quantity : Nat \ {0}, arrival : Nat]
Snapshot == [period : Nat, stock : [Places -> Nat], reserved : [Places -> Nat],
             prices : [Places -> Nat], transit : SUBSET Lot,
             shipped : SUBSET ShipmentIds]

\* A position has no more reserved than is there, and a price above nothing.
Position(o, p) ==
  /\ o.reserved[p] <= o.stock[p]
  /\ Commodities[p[2]].priced => o.prices[p] > 0

\* What is under way after a period arrives later, and no two lots share an identity.
Scheduled(transit, period) ==
  /\ \A l \in transit : l.arrival > period
  /\ \A k, l \in transit : k.id = l.id => k = l

\* What initial_snapshot accepts.
ValidOpening(o) ==
  /\ o \in Snapshot /\ o.period = 0
  /\ \A p \in Places : Position(o, p)
  /\ IsFiniteSet(o.transit) /\ Scheduled(o.transit, o.period)
  /\ \A l \in o.transit : l.id \in o.shipped

\* What the constructors of plans and orders insist on.
ValidPlan(plan) ==
  /\ IsFiniteSet(plan.production) /\ \A o \in plan.production : o.batches \in Int
  /\ IsFiniteSet(plan.shipments)
  /\ \A o \in plan.shipments : o.quantity \in Int /\ o.id \in ShipmentIds
  /\ IsFiniteSet(plan.needs)
  /\ \A n \in plan.needs : n.quantity \in Int /\ n.priority \in Int

\* EconomyModel.validate: recipes and routes name only known sites and goods.
ValidModel ==
  /\ Sites \in [SiteIds -> Nat] /\ IsFiniteSet(SiteIds)
  /\ \A c \in Goods :
       Commodities[c] \in Commodity /\ Commodities[c].floor <= Commodities[c].ceiling
  /\ \A r \in DOMAIN Recipes : Recipes[r] \in Recipe /\ Recipes[r].outputs # <<>>
  /\ \A r \in DOMAIN Routes : Routes[r] \in Route

\* Every divisor of the month divides the scale, so that no quotient is
\* rounded, and no recipe names an input twice.
ExactRecipes ==
  \A r \in DOMAIN Recipes :
    /\ Recipes[r].labor # 0 => Scale % Recipes[r].labor = 0
    /\ \A i \in DOMAIN Recipes[r].inputs : Scale % Recipes[r].inputs[i][2] = 0
    /\ \A i, j \in DOMAIN Recipes[r].inputs :
         Recipes[r].inputs[i][1] = Recipes[r].inputs[j][1] => i = j

ASSUME ModelAssumption ==
  /\ MaxPeriod \in Nat
  /\ ValidModel
  /\ \A o \in Openings : ValidOpening(o)
  /\ \A plan \in Plans : ValidPlan(plan)
-----------------------------------------------------------------------------
Destination(lot) ==
  <<Routes[lot.route].destination, Routes[lot.route].commodity>>
Lost(lot) == Times(lot.quantity, Routes[lot.route].loss)

Of(c, lots) == {l \in lots : Routes[l.route].commodity = c}
Carried == [l \in Lot |-> l.quantity]
Losses == [l \in Lot |-> Lost(l)]
Delivered == [l \in Lot |-> l.quantity - Lost(l)]
Held(stock, c) == [s \in SiteIds |-> stock[<<s, c>>]]

\* _commodity_totals: on hand and under way.
Total(stock, transit, c) ==
  Sum(Held(stock, c), SiteIds) + Sum(Carried, Of(c, transit))

\* Mutant: reserved stock is available too.
AvailableWithReserve(r, place) == r.stock[place]

Available(r, place) == r.stock[place] - snap.reserved[place]

\* How much of commodity c a list of recipe quantities moves for a number of
\* batches; the list may name a commodity twice.
Moved(quantities, batches, c) ==
  LET One == [i \in DOMAIN quantities |-> Times(quantities[i][2], batches)]
  IN Sum(One, {i \in DOMAIN quantities : quantities[i][1] = c})

Feasible(r, order) ==
  LET recipe == Recipes[order.recipe]
      capacity == Larger(0, recipe.max - r.batches[order.recipe])
      byLabor == IF recipe.labor = 0 THEN {}
                 ELSE {Over(r.labor[recipe.site], recipe.labor)}
      byInput == {Over(Available(r, <<recipe.site, recipe.inputs[i][1]>>),
                       recipe.inputs[i][2]) : i \in DOMAIN recipe.inputs}
  IN Larger(0, Min({order.batches, capacity} \cup byLabor \cup byInput))

\* Mutant: each order may use the whole capacity of its route.
DispatchedEach(r, order) ==
  LET route == Routes[order.route]
  IN Larger(0, Min({order.quantity, Available(r, <<route.origin, route.commodity>>),
                    route.capacity}))

Dispatched(r, order) ==
  LET route == Routes[order.route]
  IN Larger(0, Min({order.quantity, Available(r, <<route.origin, route.commodity>>),
                    route.capacity - r.used[order.route]}))

\* A quarter of the elasticity is credited for closing stock, up to cover 1.
\* The engine's decimals have exponents: no factor makes a price nothing.
PriceAfterNeed(c, requested, consumed, closing, price) ==
  LET k == Commodities[c]
      shortage == Over(requested - consumed, requested)
      coverage == Min({Scale, Over(closing, requested)})
      factor == Scale + Times(k.elasticity, shortage)
                      - Times(HalfEven(k.elasticity, 4), coverage)
  IN Larger(1, Times(price, Larger(k.floor, Min({k.ceiling, factor}))))
-----------------------------------------------------------------------------
\* Anything advance() raises on because of the plan itself.  A run that raises
\* leaves nothing behind, so when in the run it happens does not matter.
WellFormed(plan) ==
  /\ plan.period = snap.period + 1
  /\ \A o \in plan.production : o.batches >= 0 /\ o.recipe \in DOMAIN Recipes
  /\ \A o \in plan.shipments :
       /\ o.quantity >= 0
       /\ o.id \notin snap.shipped
       /\ \A p \in plan.shipments : p.id = o.id => p = o
       /\ o.route \in DOMAIN Routes
       /\ o.commodity = Routes[o.route].commodity
  /\ \A n \in plan.needs :
       n.quantity >= 0 /\ <<n.site, n.commodity>> \in Places

\* Needs of one priority, site and commodity are served as one request.
Aggregated(needs) ==
  LET Key(n) == <<n.priority, n.site, n.commodity>>
      Wanted == [n \in needs |-> n.quantity]
  IN {need \in {[priority |-> n.priority, place |-> <<n.site, n.commodity>>,
                 quantity |-> Sum(Wanted, {m \in needs : Key(m) = Key(n)})] : n \in needs} :
        need.quantity > 0}

\* Mutant: lots arrive a month early.
DueEarly(period) == {l \in snap.transit : l.arrival <= period + 1}

Due(period) == {l \in snap.transit : l.arrival <= period}

Begin(plan) ==
  LET due == Due(plan.period)
  IN /\ run = Idle
     /\ snap.period < MaxPeriod
     /\ WellFormed(plan)
     /\ run' = [running |-> TRUE, period |-> plan.period,
                production |-> plan.production, shipments |-> plan.shipments,
                needs |-> Aggregated(plan.needs),
                stock |-> [p \in Places |-> snap.stock[p]
                             + Sum(Delivered, {l \in due : Destination(l) = p})],
                transit |-> snap.transit \ due,
                prices |-> snap.prices,
                labor |-> Sites,
                batches |-> [r \in DOMAIN Recipes |-> 0],
                used |-> [r \in DOMAIN Routes |-> 0],
                ids |-> {}, served |-> {},
                gained |-> [c \in Goods |-> 0 - Sum(Losses, Of(c, due))]]
     /\ UNCHANGED <<snap, outcome>>

Produce(order) ==
  LET recipe == Recipes[order.recipe]
      n == Feasible(run, order)
      Change(c) == Moved(recipe.outputs, n, c) - Moved(recipe.inputs, n, c)
  IN /\ \A o \in run.production : recipe.priority <= Recipes[o.recipe].priority
     /\ run' = [run EXCEPT
                  !.production = @ \ {order},
                  !.stock = [p \in Places |->
                               IF p[1] = recipe.site THEN @[p] + Change(p[2]) ELSE @[p]],
                  !.labor[recipe.site] = @ - Times(recipe.labor, n),
                  !.batches[order.recipe] = @ + n,
                  !.gained = [c \in Goods |-> @[c] + Change(c)]]
     /\ UNCHANGED <<snap, outcome>>

\* Nothing dispatched, no lot.
Lots(lot) == IF lot.quantity = 0 THEN {} ELSE {lot}

Dispatch(order) ==
  LET route == Routes[order.route]
      q == Dispatched(run, order)
      lot == [id |-> order.id, route |-> order.route, quantity |-> q,
              arrival |-> run.period + route.travel]
  IN /\ run.production = {}
     /\ run' = [run EXCEPT
                  !.shipments = @ \ {order},
                  !.stock[<<route.origin, route.commodity>>] = @ - q,
                  !.used[order.route] = @ + q,
                  !.ids = @ \cup {order.id},
                  !.transit = @ \cup Lots(lot)]
     /\ UNCHANGED <<snap, outcome>>

\* Mutant: needs are served in any order.
NextNeedAny(need) == TRUE

NextNeed(need) == \A n \in run.needs : need.priority <= n.priority

Consume(need) ==
  LET c == need.place[2]
      q == Min({need.quantity, Available(run, need.place)})
      closing == Available(run, need.place) - q
  IN /\ run.production = {} /\ run.shipments = {}
     /\ NextNeed(need)
     /\ run' = [run EXCEPT
                  !.needs = @ \ {need},
                  !.stock[need.place] = @ - q,
                  !.gained[c] = @ - q,
                  !.served = @ \cup {[need |-> need, got |-> q]},
                  !.prices[need.place] =
                     IF Commodities[c].priced
                     THEN PriceAfterNeed(c, need.quantity, q, closing, @) ELSE @]
     /\ UNCHANGED <<snap, outcome>>

Finished == run.production = {} /\ run.shipments = {} /\ run.needs = {}

\* The checks advance() makes of its own result, and those of the snapshot
\* validation that are about quantities.
StockChecks ==
  \A p \in Places : 0 <= run.stock[p] /\ snap.reserved[p] <= run.stock[p]
CapacityChecks ==
  /\ \A s \in SiteIds : run.labor[s] >= 0
  /\ \A r \in DOMAIN Routes : run.used[r] <= Routes[r].capacity
ConservationCheck ==
  \A c \in Goods :
    Total(run.stock, run.transit, c)
      = Total(snap.stock, snap.transit, c) + run.gained[c]
SnapshotChecks ==
  /\ \A p \in Places : Commodities[p[2]].priced => run.prices[p] > 0
  /\ Scheduled(run.transit, run.period)
  /\ run.ids \cap snap.shipped = {}
Checks == StockChecks /\ CapacityChecks /\ ConservationCheck /\ SnapshotChecks

Seal ==
  /\ Finished /\ Checks
  /\ snap' = [snap EXCEPT !.period = run.period, !.stock = run.stock,
                          !.prices = run.prices, !.transit = run.transit,
                          !.shipped = @ \cup run.ids]
  /\ run' = Idle /\ outcome' = "sealed"

Discard ==
  /\ Finished /\ ~ Checks
  /\ run' = Idle /\ outcome' = "discarded"
  /\ UNCHANGED snap

Init == snap \in Openings /\ run = Idle /\ outcome = "none"

Next ==
  \/ \E plan \in Plans : Begin(plan)
  \/ /\ run # Idle
     /\ \/ \E o \in run.production : Produce(o)
        \/ \E o \in run.shipments : Dispatch(o)
        \/ \E n \in run.needs : Consume(n)
        \/ Seal
        \/ Discard

Spec == Init /\ [][Next]_vars
-----------------------------------------------------------------------------
Need == [priority : Int, place : Places, quantity : Nat \ {0}]
Run == [running : {TRUE}, period : Nat,
        production : SUBSET UNION {plan.production : plan \in Plans},
        shipments : SUBSET UNION {plan.shipments : plan \in Plans},
        needs : SUBSET Need,
        stock : [Places -> Int], transit : SUBSET Lot, prices : [Places -> Nat],
        labor : [SiteIds -> Int], batches : [DOMAIN Recipes -> Nat],
        used : [DOMAIN Routes -> Nat], ids : SUBSET ShipmentIds,
        served : SUBSET [need : Need, got : Int], gained : [Goods -> Int]]

TypeOK ==
  /\ snap \in Snapshot
  /\ run = Idle \/ run \in Run
  /\ outcome \in {"none", "sealed", "discarded"}

(* At no point of a run does production, dispatch or consumption dip into   *)
(* reserved stock or below zero.  The engine asserts it only at the end     *)
(* ("negative inventory escaped stock constraints").                        *)
NeverOverdrawn ==
  /\ TypeOK
  /\ run # Idle => \A p \in Places : run.stock[p] >= snap.reserved[p]

(* A plan the engine accepts to run is never thrown away by the engine's    *)
(* own closing checks of stock, labour, capacity and conservation: they are *)
(* a safety net and never trip, however many orders compete in a month.     *)
NeverDiscarded == outcome # "discarded"

(* A need of lower rank gets something only when every need of higher rank  *)
(* at the same place was met in full, and no need gets less than nothing.   *)
NeedsServedInOrder ==
  run # Idle =>
    \A a, b \in run.served :
      /\ 0 <= a.got /\ a.got <= a.need.quantity
      /\ a.need.place = b.need.place /\ a.need.priority < b.need.priority /\ b.got > 0 =>
           a.got = a.need.quantity

(* Goods enter transit once per shipment identity, for the life of the      *)
(* campaign, and leave it in the very month they are due.                   *)
TransitDiscipline ==
  [][/\ \A l \in snap'.transit \ snap.transit :
          l.id \notin snap.shipped /\ l.id \in snap'.shipped
     /\ \A l \in snap.transit \ snap'.transit : l.arrival = snap'.period]_snap
=============================================================================
