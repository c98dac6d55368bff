-------------------------- MODULE StockFlowProofs ---------------------------
(***************************************************************************)
(* The month of StockFlow, for any sites, goods, recipes, routes, plans    *)
(* and openings.                                                           *)
(***************************************************************************)
EXTENDS StockFlow, SumTheorems
-----------------------------------------------------------------------------
(* What is known of the model, a plan and a lot.                            *)
LEMMA RecipeFacts ==
  ASSUME NEW r \in DOMAIN Recipes
  PROVE  /\ Recipes[r].site \in SiteIds
         /\ Recipes[r].inputs \in Quantities /\ Recipes[r].outputs \in Quantities
         /\ Recipes[r].labor \in Nat /\ Recipes[r].max \in Nat
         /\ Recipes[r].priority \in Int
BY ModelAssumption DEF ValidModel, Recipe

LEMMA RouteFacts ==
  ASSUME NEW r \in DOMAIN Routes
  PROVE  /\ Routes[r].origin \in SiteIds /\ Routes[r].destination \in SiteIds
         /\ Routes[r].commodity \in Goods
         /\ Routes[r].capacity \in Nat /\ Routes[r].travel \in Nat \ {0}
         /\ Routes[r].loss \in Nat /\ Routes[r].loss < Scale
BY ModelAssumption DEF ValidModel, Route

LEMMA SiteFacts == IsFiniteSet(SiteIds) /\ Sites \in [SiteIds -> Nat]
BY ModelAssumption DEF ValidModel

(* No more of a lot is lost than it holds. *)
LEMMA LotFacts ==
  ASSUME NEW l \in Lot
  PROVE  /\ l.id \in ShipmentIds /\ l.route \in DOMAIN Routes
         /\ l.quantity \in Nat \ {0} /\ l.arrival \in Nat
         /\ Routes[l.route].commodity \in Goods
         /\ Routes[l.route].destination \in SiteIds
         /\ Carried[l] \in Nat /\ Losses[l] \in Nat /\ Delivered[l] \in Nat
         /\ Carried[l] = Delivered[l] + Losses[l]
<1>1. /\ l.id \in ShipmentIds /\ l.route \in DOMAIN Routes
      /\ l.quantity \in Nat \ {0} /\ l.arrival \in Nat
  BY DEF Lot
<1>2. /\ Routes[l.route].commodity \in Goods
      /\ Routes[l.route].destination \in SiteIds
      /\ Routes[l.route].loss \in Nat /\ Routes[l.route].loss < Scale
  BY <1>1, RouteFacts
<1>3. Lost(l) \in Nat
  BY <1>1, <1>2, TimesNat DEF Lost
<1>4. Lost(l) <= l.quantity
  <2> DEFINE q == l.quantity
             k == Routes[l.route].loss
  <2>1. q \in Nat /\ k \in Nat /\ k <= Scale /\ Scale \in Nat \ {0}
    BY <1>1, <1>2, ScaleAssumption
  <2> HIDE DEF q, k
  <2>2. q * k <= Scale * q /\ q * k \in Int
    BY <2>1, ProductOrder
  <2>3. HalfEven(q * k, Scale) <= q
    BY <2>1, <2>2, HalfEvenBelow
  <2> QED
    BY <2>3 DEF q, k, Lost, Times
<1>5. /\ Carried[l] = l.quantity /\ Losses[l] = Lost(l)
      /\ Delivered[l] = l.quantity - Lost(l)
  BY DEF Carried, Losses, Delivered
<1>6. /\ Carried[l] \in Nat /\ Losses[l] \in Nat /\ Delivered[l] \in Nat
      /\ Carried[l] = Delivered[l] + Losses[l]
  BY <1>1, <1>3, <1>4, <1>5
<1> QED
  BY <1>1, <1>2, <1>6

(* How much of a good a list of quantities moves. *)
LEMMA MovedFacts ==
  ASSUME NEW q \in Quantities, NEW n \in Nat, NEW c
  PROVE  /\ Moved(q, n, c) \in Nat
         /\ (\A i \in DOMAIN q : q[i][1] # c) => Moved(q, n, c) = 0
         /\ \A i \in DOMAIN q :
              (\A j \in DOMAIN q : q[j][1] = q[i][1] => i = j) /\ q[i][1] = c
                => Moved(q, n, c) = Times(q[i][2], n)
<1> DEFINE One == [i \in DOMAIN q |-> Times(q[i][2], n)]
           I == {i \in DOMAIN q : q[i][1] = c}
<1>1. Moved(q, n, c) = Sum(One, I)
  BY DEF Moved
<1>2. IsFiniteSet(I)
  <2>1. Len(q) \in Nat /\ DOMAIN q = 1 .. Len(q)
    BY DEF Quantities
  <2>2. IsFiniteSet(1 .. Len(q))
    BY <2>1, FS_Interval
  <2> QED
    BY <2>1, <2>2, FS_Subset
<1>3. \A i \in I : One[i] \in Nat /\ One[i] = Times(q[i][2], n)
  <2> SUFFICES ASSUME NEW i \in I PROVE One[i] \in Nat
    OBVIOUS
  <2>1. q[i][2] \in Nat \ {0}
    BY DEF Quantities
  <2> QED
    BY <2>1, TimesNat
<1>4. ASSUME NEW i \in DOMAIN q, \A j \in DOMAIN q : q[j][1] = q[i][1] => i = j,
             q[i][1] = c
      PROVE  Sum(One, I) = Times(q[i][2], n)
  <2>1. I = {i} /\ {} \cup {i} = {i}
    BY <1>4
  <2>2. One[i] \in Int
    BY <1>3, <2>1
  <2>3. Sum(One, {}) = 0
    BY SumEmpty
  <2> HIDE DEF One, I
  <2>4. Sum(One, {} \cup {i}) = One[i] + Sum(One, {})
    BY <2>2, FS_EmptySet, SumInsert
  <2>5. One[i] = Times(q[i][2], n)
    BY DEF One
  <2> QED
    BY <2>1, <2>2, <2>3, <2>4, <2>5
<1>5. (\A i \in DOMAIN q : q[i][1] # c) => Sum(One, I) = 0
  <2>1. (\A i \in DOMAIN q : q[i][1] # c) => I = {}
    OBVIOUS
  <2> HIDE DEF One, I
  <2> QED
    BY <2>1, SumEmpty
<1>6. Sum(One, I) \in Nat
  <2> HIDE DEF One, I
  <2> QED
    BY <1>2, <1>3, SumNat
<1> QED
  BY <1>1, <1>4, <1>5, <1>6
-----------------------------------------------------------------------------
\* What holds of a sealed snapshot.
Sound ==
  /\ \A p \in Places : Position(snap, p)
  /\ IsFiniteSet(snap.transit) /\ Scheduled(snap.transit, snap.period)
  /\ \A l \in snap.transit : l.id \in snap.shipped

\* The orders that are left are those of a plan that was accepted.
Ordered ==
  /\ \A o \in run.production : o.recipe \in DOMAIN Recipes /\ o.batches \in Nat
  /\ \A o \in run.shipments :
       /\ o.route \in DOMAIN Routes /\ o.quantity \in Nat /\ o.id \in ShipmentIds
       /\ o.id \notin snap.shipped \cup run.ids
       /\ \A p \in run.shipments : p.id = o.id => p = o

\* Under way is what was not due, and what this run has sent.
UnderWay ==
  /\ run.period = snap.period + 1
  /\ IsFiniteSet(run.transit) /\ Scheduled(run.transit, run.period)
  /\ snap.transit \ Due(run.period) \subseteq run.transit
  /\ \A l \in run.transit \ snap.transit : l.id \in run.ids
  /\ run.ids \cap snap.shipped = {}

WithinRoutes == \A r \in DOMAIN Routes : run.used[r] <= Routes[r].capacity

Priced == \A p \in Places : Commodities[p[2]].priced => run.prices[p] > 0

\* A need that was not met in full has emptied its place, and of the needs none
\* is left that comes before one that was served.
Ranked ==
  /\ run.production # {} \/ run.shipments # {} => run.served = {}
  /\ \A a \in run.served :
       /\ a.got <= a.need.quantity
       /\ a.got # a.need.quantity => Available(run, a.need.place) <= 0
       /\ \A n \in run.needs : a.need.priority <= n.priority
       /\ \A b \in run.served :
            a.need.place = b.need.place /\ a.need.priority < b.need.priority /\ b.got > 0
              => a.got = a.need.quantity

RunInv ==
  Ordered /\ UnderWay /\ WithinRoutes /\ Priced /\ Ranked /\ ConservationCheck

FlowInv == TypeOK /\ Sound /\ (run # Idle => RunInv)

\* What rounding could break: nothing is overdrawn.
Covered ==
  run # Idle =>
    /\ \A p \in Places : run.stock[p] >= snap.reserved[p]
    /\ \A s \in SiteIds : run.labor[s] >= 0
    /\ \A a \in run.served : a.got >= 0
-----------------------------------------------------------------------------
LEMMA AvailableType ==
  ASSUME TypeOK, run \in Run, NEW p \in Places
  PROVE  Available(run, p) \in Int
BY DEF TypeOK, Available, Run, Snapshot

(* How many batches of a recipe are made, and what they need where nothing *)
(* is rounded.                                                             *)
LEMMA FeasibleFacts ==
  ASSUME TypeOK, run \in Run, NEW order,
         order.recipe \in DOMAIN Recipes, order.batches \in Nat
  PROVE  LET recipe == Recipes[order.recipe]
             n == Feasible(run, order)
             Place(i) == <<recipe.site, recipe.inputs[i][1]>>
         IN /\ n \in Nat
            /\ ExactRecipes =>
                 /\ run.labor[recipe.site] >= 0
                      => Times(recipe.labor, n) <= run.labor[recipe.site]
                 /\ \A i \in DOMAIN recipe.inputs :
                      Available(run, Place(i)) >= 0
                        => Times(recipe.inputs[i][2], n) <= Available(run, Place(i))
<1> DEFINE recipe == Recipes[order.recipe]
           n == Feasible(run, order)
           Place(i) == <<recipe.site, recipe.inputs[i][1]>>
           capacity == Larger(0, recipe.max - run.batches[order.recipe])
           byLabor == IF recipe.labor = 0 THEN {}
                      ELSE {Over(run.labor[recipe.site], recipe.labor)}
           byInput == {Over(Available(run, Place(i)), recipe.inputs[i][2]) :
                         i \in DOMAIN recipe.inputs}
           A == {order.batches, capacity} \cup byLabor \cup byInput
<1>1. /\ recipe.site \in SiteIds /\ recipe.labor \in Nat /\ recipe.max \in Nat
      /\ recipe.inputs \in Quantities
  BY RecipeFacts
<1>2. \A i \in DOMAIN recipe.inputs :
        /\ recipe.inputs[i][1] \in Goods /\ recipe.inputs[i][2] \in Nat \ {0}
        /\ Place(i) \in Places /\ Available(run, Place(i)) \in Int
  <2> SUFFICES ASSUME NEW i \in DOMAIN recipe.inputs
               PROVE  /\ recipe.inputs[i][1] \in Goods
                      /\ recipe.inputs[i][2] \in Nat \ {0}
                      /\ Place(i) \in Places /\ Available(run, Place(i)) \in Int
    OBVIOUS
  <2>1. recipe.inputs[i] \in Goods \X (Nat \ {0})
    BY <1>1 DEF Quantities
  <2>2. Place(i) \in Places
    BY <1>1, <2>1 DEF Places
  <2> QED
    BY <2>1, <2>2, AvailableType
<1>3. run.labor[recipe.site] \in Int /\ capacity \in Int
  <2>1. run.labor \in [SiteIds -> Int] /\ run.batches[order.recipe] \in Nat
    BY DEF Run
  <2>2. 0 \in Int /\ recipe.max - run.batches[order.recipe] \in Int
    BY <1>1, <2>1
  <2>3. capacity \in Int
    BY <2>2, LargerType
  <2> QED
    BY <1>1, <2>1, <2>3
<1>4. A \in SUBSET Int
  <2>1. byLabor \in SUBSET Int
    BY <1>1, <1>3, OverType
  <2>2. byInput \in SUBSET Int
    BY <1>2, OverType
  <2>3. order.batches \in Int
    OBVIOUS
  <2> HIDE DEF byLabor, byInput, capacity
  <2> QED
    BY <1>3, <2>1, <2>2, <2>3
<1>5. IsFiniteSet(A)
  <2>1. IsFiniteSet(DOMAIN recipe.inputs)
    <3>1. Len(recipe.inputs) \in Nat /\ DOMAIN recipe.inputs = 1 .. Len(recipe.inputs)
      BY <1>1 DEF Quantities
    <3>2. IsFiniteSet(1 .. Len(recipe.inputs))
      BY <3>1, FS_Interval
    <3> QED
      BY <3>1, <3>2
  <2>2. IsFiniteSet(byInput)
    <3> DEFINE D == DOMAIN recipe.inputs
               F == [i \in D |-> Over(Available(run, Place(i)), recipe.inputs[i][2])]
    <3>1. byInput = {F[i] : i \in D}
      OBVIOUS
    <3> HIDE DEF D, F
    <3>2. IsFiniteSet({F[i] : i \in D})
      BY <2>1, FiniteImage DEF D
    <3> QED
      BY <3>1, <3>2
  <2>3. IsFiniteSet(byLabor) /\ IsFiniteSet({order.batches, capacity})
    <3>1. \A x : IsFiniteSet({x})
      BY FS_Singleton
    <3>2. \A x, y : IsFiniteSet({x} \cup {y})
      BY <3>1, FS_Union
    <3>3. {order.batches, capacity} = {order.batches} \cup {capacity}
      OBVIOUS
    <3>4. byLabor = {} \/ \E x : byLabor = {x}
      OBVIOUS
    <3> HIDE DEF byLabor, capacity
    <3>5. IsFiniteSet(byLabor)
      BY <3>1, <3>4, FS_EmptySet
    <3>6. IsFiniteSet({order.batches, capacity})
      BY <3>2, <3>3
    <3> QED
      BY <3>5, <3>6
  <2> HIDE DEF byLabor, byInput
  <2> QED
    BY <2>2, <2>3, FS_Union
<1>6. n = Larger(0, Min(A))
  BY DEF Feasible
<1>7. Min(A) \in Int /\ \A x \in A : Min(A) <= x
  <2>1. A # {}
    OBVIOUS
  <2> HIDE DEF A
  <2> QED
    BY <1>4, <1>5, <2>1, MinOf
<1>8. n \in Nat /\ n \in {0, Min(A)}
  <2> HIDE DEF A, n
  <2>1. 0 \in Int
    OBVIOUS
  <2> QED
    BY <1>6, <1>7, <2>1, LargerType
<1>9. ASSUME NEW x \in Int, NEW d \in Nat \ {0}, Scale % d = 0, Over(x, d) \in A, x >= 0
      PROVE  Times(d, n) <= x
  <2>1. CASE n = Min(A)
    <3>1. n <= Over(x, d)
      BY <1>7, <1>9, <2>1
    <3> HIDE DEF n
    <3>2. n \in Int
      BY <1>8
    <3> QED
      BY <1>9, <3>1, <3>2, QuotientFits
  <2>2. CASE n = 0
    <3>1. d * 0 = 0 /\ Scale * x \in Int /\ 0 <= Scale * x /\ Scale \in Nat \ {0}
      BY <1>9, ScaleAssumption
    <3>2. HalfEven(0, Scale) <= x
      BY <1>9, <3>1, HalfEvenBelow
    <3> QED
      BY <2>2, <3>1, <3>2 DEF Times
  <2> QED
    BY <1>8, <2>1, <2>2
<1>10. ASSUME ExactRecipes, NEW i \in DOMAIN recipe.inputs, Available(run, Place(i)) >= 0
       PROVE  Times(recipe.inputs[i][2], n) <= Available(run, Place(i))
  <2> DEFINE x == Available(run, Place(i))
             d == recipe.inputs[i][2]
  <2>1. x \in Int /\ d \in Nat \ {0} /\ x >= 0
    BY <1>2, <1>10
  <2>2. Scale % d = 0
    BY <1>10 DEF ExactRecipes
  <2>3. Over(x, d) \in A
    OBVIOUS
  <2> HIDE DEF x, d, A, n
  <2>4. Times(d, n) <= x
    BY <1>9, <2>1, <2>2, <2>3
  <2> QED
    BY <2>4 DEF x, d
<1>11. ASSUME ExactRecipes, run.labor[recipe.site] >= 0
       PROVE  Times(recipe.labor, n) <= run.labor[recipe.site]
  <2> DEFINE x == run.labor[recipe.site]
             d == recipe.labor
  <2>1. CASE d = 0
    <3>1. d * n = 0 /\ 0 <= Scale * x /\ Scale \in Nat \ {0} /\ x \in Int
      BY <1>3, <1>8, <1>11, <2>1, ScaleAssumption
    <3>2. HalfEven(0, Scale) <= x
      BY <3>1, HalfEvenBelow
    <3> QED
      BY <3>1, <3>2 DEF Times
  <2>2. CASE d # 0
    <3>1. x \in Int /\ d \in Nat \ {0} /\ x >= 0
      BY <1>1, <1>3, <1>11, <2>2
    <3>2. Scale % d = 0
      BY <1>11, <2>2 DEF ExactRecipes
    <3>3. Over(x, d) \in A
      BY <2>2
    <3> HIDE DEF x, d, A, n
    <3>4. Times(d, n) <= x
      BY <1>9, <3>1, <3>2, <3>3
    <3> QED
      BY <3>4 DEF x, d
  <2> QED
    BY <2>1, <2>2
<1> QED
  BY <1>8, <1>10, <1>11
-----------------------------------------------------------------------------
LEMMA ProduceFields ==
  ASSUME run \in Run, NEW order, Produce(order)
  PROVE  LET recipe == Recipes[order.recipe]
             n == Feasible(run, order)
             Change(c) == Moved(recipe.outputs, n, c) - Moved(recipe.inputs, n, c)
         IN /\ run'.running = run.running /\ run'.period = run.period
            /\ run'.production = run.production \ {order}
            /\ run'.shipments = run.shipments /\ run'.needs = run.needs
            /\ run'.stock = [p \in Places |->
                               IF p[1] = recipe.site THEN run.stock[p] + Change(p[2])
                               ELSE run.stock[p]]
            /\ run'.transit = run.transit /\ run'.prices = run.prices
            /\ run'.labor = [run.labor EXCEPT ![recipe.site] = @ - Times(recipe.labor, n)]
            /\ run'.batches = [run.batches EXCEPT ![order.recipe] = @ + n]
            /\ run'.used = run.used /\ run'.ids = run.ids /\ run'.served = run.served
            /\ run'.gained = [c \in Goods |-> run.gained[c] + Change(c)]
BY DEF Produce, Run

LEMMA RunIsNotIdle == \A r \in Run : r # Idle
BY DEF Run, Idle

(* What is added in one place is added to what is on hand. *)
LEMMA HeldChange ==
  ASSUME NEW old \in [Places -> Int], NEW new, NEW c \in Goods, NEW s \in SiteIds,
         NEW n \in Int,
         \A t \in SiteIds : new[<<t, c>>] = old[<<t, c>>] + (IF t = s THEN n ELSE 0)
  PROVE  /\ Sum(Held(old, c), SiteIds) \in Int
         /\ Sum(Held(new, c), SiteIds) = Sum(Held(old, c), SiteIds) + n
<1> DEFINE F == Held(old, c)
           G == [t \in SiteIds |-> IF t = s THEN n ELSE 0]
           H == Held(new, c)
<1>1. \A t \in SiteIds : F[t] \in Int /\ G[t] \in Int /\ H[t] = F[t] + G[t]
  <2> SUFFICES ASSUME NEW t \in SiteIds
               PROVE  F[t] \in Int /\ G[t] \in Int /\ H[t] = F[t] + G[t]
    OBVIOUS
  <2>1. <<t, c>> \in Places
    BY DEF Places
  <2>2. F[t] = old[<<t, c>>] /\ H[t] = new[<<t, c>>]
    BY DEF Held
  <2> QED
    BY <2>1, <2>2
<1>2. \A t \in SiteIds : G[t] = IF t = s THEN n ELSE 0
  OBVIOUS
<1> HIDE DEF F, G, H
<1>3. Sum(G, SiteIds) = n
  BY <1>2, SiteFacts, SumPoint
<1>4. Sum(H, SiteIds) = Sum(F, SiteIds) + Sum(G, SiteIds)
  BY <1>1, SiteFacts, SumPlus
<1>5. Sum(F, SiteIds) \in Int
  BY <1>1, SiteFacts, SumType
<1> QED
  BY <1>3, <1>4, <1>5 DEF F, H

(* What is carried of a good is a whole number. *)
LEMMA CarriedFacts ==
  ASSUME NEW lots \in SUBSET Lot, IsFiniteSet(lots), NEW c
  PROVE  /\ Of(c, lots) \in SUBSET lots /\ IsFiniteSet(Of(c, lots))
         /\ Sum(Carried, Of(c, lots)) \in Int
<1>1. Of(c, lots) \in SUBSET lots /\ IsFiniteSet(Of(c, lots))
  BY FS_Subset DEF Of
<1>2. \A l \in Of(c, lots) : Carried[l] \in Int
  BY <1>1, LotFacts
<1> QED
  BY <1>1, <1>2, SumType
(* What there is of a good is a whole number. *)
LEMMA TotalType ==
  ASSUME NEW stock \in [Places -> Int], NEW lots \in SUBSET Lot, IsFiniteSet(lots),
         NEW c \in Goods
  PROVE  Total(stock, lots, c) \in Int
<1> DEFINE F == Held(stock, c)
<1>1. \A t \in SiteIds : F[t] \in Int
  <2> SUFFICES ASSUME NEW t \in SiteIds PROVE F[t] \in Int
    OBVIOUS
  <2>1. <<t, c>> \in Places
    BY DEF Places
  <2> QED
    BY <2>1 DEF Held
<1> HIDE DEF F
<1>2. Sum(F, SiteIds) \in Int
  BY <1>1, SiteFacts, SumType
<1>3. Sum(Carried, Of(c, lots)) \in Int
  BY CarriedFacts
<1> QED
  BY <1>2, <1>3 DEF Total, F
-----------------------------------------------------------------------------
(* Recipes.                                                                 *)
LEMMA ProduceKeeps ==
  ASSUME FlowInv, run # Idle, NEW order \in run.production, Produce(order)
  PROVE  FlowInv'
<1> DEFINE recipe == Recipes[order.recipe]
           n == Feasible(run, order)
           Change(c) == Moved(recipe.outputs, n, c) - Moved(recipe.inputs, n, c)
<1>1. TypeOK /\ run \in Run /\ Sound /\ RunInv
  BY DEF FlowInv, TypeOK
<1>2. order.recipe \in DOMAIN Recipes /\ order.batches \in Nat
  BY <1>1 DEF RunInv, Ordered
<1>3. n \in Nat /\ \A c : Change(c) \in Int
  <2>1. n \in Nat
    BY <1>1, <1>2, FeasibleFacts
  <2>2. recipe.inputs \in Quantities /\ recipe.outputs \in Quantities
    BY <1>2, RecipeFacts
  <2> HIDE DEF n
  <2> QED
    BY <2>1, <2>2, MovedFacts
<1>4. recipe.site \in SiteIds /\ recipe.labor \in Nat
  BY <1>2, RecipeFacts
<1> HIDE DEF n, Change
<1>5. /\ run'.running = run.running /\ run'.period = run.period
      /\ run'.production = run.production \ {order}
      /\ run'.shipments = run.shipments /\ run'.needs = run.needs
      /\ run'.stock = [p \in Places |->
                         IF p[1] = recipe.site THEN run.stock[p] + Change(p[2])
                         ELSE run.stock[p]]
      /\ run'.transit = run.transit /\ run'.prices = run.prices
      /\ run'.labor = [run.labor EXCEPT ![recipe.site] = @ - Times(recipe.labor, n)]
      /\ run'.batches = [run.batches EXCEPT ![order.recipe] = @ + n]
      /\ run'.used = run.used /\ run'.ids = run.ids /\ run'.served = run.served
      /\ run'.gained = [c \in Goods |-> run.gained[c] + Change(c)]
  BY <1>1, ProduceFields DEF n, Change
<1>6. snap' = snap /\ outcome' = outcome
  BY DEF Produce
<1>7. run' \in Run
  <2>1. run'.production \in SUBSET UNION {plan.production : plan \in Plans}
    BY <1>1, <1>5 DEF Run
  <2>2. run'.stock \in [Places -> Int]
    <3>1. run.stock \in [Places -> Int] /\ \A p \in Places : run.stock[p] + Change(p[2]) \in Int
      BY <1>1, <1>3 DEF Run
    <3> QED
      BY <1>5, <3>1
  <2>3. run'.labor \in [SiteIds -> Int]
    <3>1. run.labor \in [SiteIds -> Int] /\ Times(recipe.labor, n) \in Nat
      BY <1>1, <1>3, <1>4, TimesNat DEF Run
    <3> QED
      BY <1>4, <1>5, <3>1
  <2>4. run'.batches \in [DOMAIN Recipes -> Nat]
    <3>1. run.batches \in [DOMAIN Recipes -> Nat]
      BY <1>1 DEF Run
    <3> QED
      BY <1>2, <1>3, <1>5, <3>1
  <2>5. run'.gained \in [Goods -> Int]
    <3>1. run.gained \in [Goods -> Int]
      BY <1>1 DEF Run
    <3> QED
      BY <1>3, <1>5, <3>1
  <2> QED
    BY <1>1, <2>1, <2>2, <2>3, <2>4, <2>5 DEF Produce, Run
<1>8. TypeOK' /\ Sound'
  BY <1>1, <1>6, <1>7 DEF TypeOK, Sound, Position
<1>9. ConservationCheck'
  <2> SUFFICES ASSUME NEW c \in Goods
               PROVE  Total(run'.stock, run'.transit, c)
                        = Total(snap'.stock, snap'.transit, c) + run'.gained[c]
    BY DEF ConservationCheck
  <2>1. Total(run.stock, run.transit, c)
          = Total(snap.stock, snap.transit, c) + run.gained[c]
    BY <1>1 DEF RunInv, ConservationCheck
  <2> DEFINE d == Change(c)
  <2>2. run.stock \in [Places -> Int] /\ run.gained[c] \in Int /\ d \in Int
    BY <1>1, <1>3 DEF Run
  <2>3. \A t \in SiteIds :
          run'.stock[<<t, c>>] = run.stock[<<t, c>>] + (IF t = recipe.site THEN d ELSE 0)
    <3> SUFFICES ASSUME NEW t \in SiteIds
                 PROVE  run'.stock[<<t, c>>]
                          = run.stock[<<t, c>>] + (IF t = recipe.site THEN d ELSE 0)
      OBVIOUS
    <3>1. <<t, c>> \in Places /\ <<t, c>>[1] = t /\ <<t, c>>[2] = c
      BY DEF Places
    <3>2. run.stock[<<t, c>>] \in Int
      BY <2>2, <3>1
    <3> QED
      BY <1>5, <3>1, <3>2
  <2> HIDE DEF d, recipe
  <2>4. /\ Sum(Held(run.stock, c), SiteIds) \in Int
        /\ Sum(Held(run'.stock, c), SiteIds) = Sum(Held(run.stock, c), SiteIds) + d
    <3> DEFINE s == recipe.site
               new == run'.stock
    <3>1. s \in SiteIds /\ d \in Int /\ run.stock \in [Places -> Int]
      BY <1>4, <2>2
    <3>2. \A t \in SiteIds :
            new[<<t, c>>] = run.stock[<<t, c>>] + (IF t = s THEN d ELSE 0)
      BY <2>3
    <3> HIDE DEF s, new
    <3>3. /\ Sum(Held(run.stock, c), SiteIds) \in Int
          /\ Sum(Held(new, c), SiteIds) = Sum(Held(run.stock, c), SiteIds) + d
      BY <3>1, <3>2, HeldChange
    <3> QED
      BY <3>3 DEF new
  <2>5. Sum(Carried, Of(c, run.transit)) \in Int
    BY <1>1, CarriedFacts DEF RunInv, UnderWay, Run
  <2>6. Total(run'.stock, run'.transit, c) = Total(run.stock, run.transit, c) + d
    BY <1>5, <2>2, <2>4, <2>5 DEF Total
  <2>7. Total(run.stock, run.transit, c) \in Int
    BY <2>4, <2>5 DEF Total
  <2>8. run'.gained[c] = run.gained[c] + d
    BY <1>5 DEF d
  <2>9. Total(snap.stock, snap.transit, c) \in Int
    <3>1. snap.stock \in [Places -> Int] /\ snap.transit \in SUBSET Lot
      BY <1>1 DEF TypeOK, Snapshot
    <3>2. IsFiniteSet(snap.transit)
      BY <1>1 DEF Sound
    <3> QED
      BY <3>1, <3>2, TotalType
  <2> QED
    BY <1>6, <2>1, <2>2, <2>6, <2>7, <2>8, <2>9
<1>10. Ordered' /\ UnderWay' /\ WithinRoutes' /\ Priced'
  BY <1>1, <1>5, <1>6 DEF RunInv, Ordered, UnderWay, WithinRoutes, Priced, Due
<1>11. Ranked'
  <2>1. run'.served = {}
    BY <1>1, <1>5 DEF RunInv, Ranked
  <2> QED
    BY <2>1 DEF Ranked
<1> QED
  BY <1>8, <1>9, <1>10, <1>11 DEF FlowInv, RunInv
-----------------------------------------------------------------------------
(* Shipments.                                                               *)

LEMMA DispatchedFacts ==
  ASSUME TypeOK, run \in Run, WithinRoutes, NEW order,
         order.route \in DOMAIN Routes, order.quantity \in Nat
  PROVE  LET route == Routes[order.route]
             place == <<route.origin, route.commodity>>
             q == Dispatched(run, order)
         IN /\ place \in Places /\ q \in Nat
            /\ run.used[order.route] + q <= route.capacity
            /\ q = 0 \/ q <= Available(run, place)
<1> DEFINE route == Routes[order.route]
           place == <<route.origin, route.commodity>>
           q == Dispatched(run, order)
           free == route.capacity - run.used[order.route]
           least == Min({order.quantity, Available(run, place), free})
<1>1. place \in Places
  BY RouteFacts DEF Places
<1>2. /\ Available(run, place) \in Int /\ order.quantity \in Int
      /\ run.used[order.route] \in Nat /\ route.capacity \in Nat
      /\ free \in Int /\ free >= 0
  <2>1. Available(run, place) \in Int
    BY <1>1, AvailableType
  <2>2. run.used[order.route] \in Nat /\ route.capacity \in Nat
    BY RouteFacts DEF Run
  <2>3. run.used[order.route] <= route.capacity
    BY DEF WithinRoutes
  <2> QED
    BY <2>1, <2>2, <2>3
<1> HIDE DEF place, free
<1>3. least \in Int /\ least <= free /\ least <= Available(run, place)
  BY <1>2, MinOfFew
<1>4. q = Larger(0, least)
  BY DEF Dispatched, place, free
<1> HIDE DEF least, q
<1>5. q \in Nat /\ (q = 0 \/ q = least) /\ q <= free
  <2>1. 0 \in Int
    OBVIOUS
  <2>2. q \in Int /\ q >= 0 /\ q \in {0, least}
    BY <1>3, <1>4, <2>1, LargerType
  <2> QED
    BY <1>2, <1>3, <2>2
<1>6. run.used[order.route] + q <= route.capacity
  BY <1>2, <1>5 DEF free
<1> QED
  BY <1>1, <1>3, <1>5, <1>6 DEF q, place

LEMMA DispatchFields ==
  ASSUME run \in Run, NEW order, Dispatch(order)
  PROVE  LET route == Routes[order.route]
             q == Dispatched(run, order)
             lot == [id |-> order.id, route |-> order.route, quantity |-> q,
                     arrival |-> run.period + route.travel]
         IN /\ run'.running = run.running /\ run'.period = run.period
            /\ run'.production = run.production
            /\ run'.shipments = run.shipments \ {order} /\ run'.needs = run.needs
            /\ run'.stock = [run.stock EXCEPT ![<<route.origin, route.commodity>>] = @ - q]
            /\ run'.transit = run.transit \cup Lots(lot) /\ run'.prices = run.prices
            /\ run'.labor = run.labor /\ run'.batches = run.batches
            /\ run'.used = [run.used EXCEPT ![order.route] = @ + q]
            /\ run'.ids = run.ids \cup {order.id} /\ run'.served = run.served
            /\ run'.gained = run.gained
BY DEF Dispatch, Run

(* A shipment that leaves is a lot of its own. *)
LEMMA DispatchUnderWay ==
  ASSUME FlowInv, run \in Run, RunInv, NEW order \in run.shipments, NEW q \in Nat,
         NEW lot, lot = [id |-> order.id, route |-> order.route, quantity |-> q,
                         arrival |-> run.period + Routes[order.route].travel]
  PROVE  /\ Lots(lot) \in SUBSET Lot /\ IsFiniteSet(Lots(lot))
         /\ \A l \in run.transit : l.id # order.id
         /\ Scheduled(run.transit \cup Lots(lot), run.period)
<1>1. /\ order.route \in DOMAIN Routes /\ order.id \in ShipmentIds
      /\ order.id \notin snap.shipped \cup run.ids
  BY DEF RunInv, Ordered
<1>2. Routes[order.route].travel \in Nat \ {0} /\ run.period \in Nat
  BY <1>1, RouteFacts DEF Run
<1>3. lot.arrival \in Nat /\ lot.arrival > run.period
  BY <1>2
<1>4. Lots(lot) \in SUBSET {lot} /\ Lots(lot) \in SUBSET Lot
  BY <1>1, <1>3 DEF Lots, Lot
<1>5. IsFiniteSet(Lots(lot))
  BY <1>4, FS_Singleton, FS_Subset
<1>6. \A l \in run.transit : l.id # order.id
  BY <1>1 DEF FlowInv, Sound, RunInv, UnderWay
<1>7. Scheduled(run.transit \cup Lots(lot), run.period)
  <2>1. Scheduled(run.transit, run.period) /\ lot.id = order.id
    BY DEF RunInv, UnderWay
  <2> QED
    BY <1>3, <1>4, <1>6, <2>1 DEF Scheduled
<1> QED
  BY <1>4, <1>5, <1>6, <1>7

LEMMA DispatchKeeps ==
  ASSUME FlowInv, run # Idle, NEW order \in run.shipments, Dispatch(order)
  PROVE  FlowInv'
<1> DEFINE route == Routes[order.route]
           place == <<route.origin, route.commodity>>
           q == Dispatched(run, order)
           lot == [id |-> order.id, route |-> order.route, quantity |-> q,
                   arrival |-> run.period + route.travel]
<1>1. TypeOK /\ run \in Run /\ Sound /\ RunInv
  BY DEF FlowInv, TypeOK
<1>2. order.route \in DOMAIN Routes /\ order.quantity \in Nat /\ order.id \in ShipmentIds
  BY <1>1 DEF RunInv, Ordered
<1>3. /\ place \in Places /\ q \in Nat /\ run.used[order.route] + q <= route.capacity
      /\ route.origin \in SiteIds /\ route.commodity \in Goods
  BY <1>1, <1>2, DispatchedFacts, RouteFacts DEF RunInv
<1>4. /\ run'.running = run.running /\ run'.period = run.period
      /\ run'.production = run.production
      /\ run'.shipments = run.shipments \ {order} /\ run'.needs = run.needs
      /\ run'.stock = [run.stock EXCEPT ![place] = @ - q]
      /\ run'.transit = run.transit \cup Lots(lot) /\ run'.prices = run.prices
      /\ run'.labor = run.labor /\ run'.batches = run.batches
      /\ run'.used = [run.used EXCEPT ![order.route] = @ + q]
      /\ run'.ids = run.ids \cup {order.id} /\ run'.served = run.served
      /\ run'.gained = run.gained
  BY <1>1, DispatchFields
<1>5. snap' = snap /\ outcome' = outcome
  BY DEF Dispatch
<1>6. lot = [id |-> order.id, route |-> order.route, quantity |-> q,
             arrival |-> run.period + Routes[order.route].travel]
  OBVIOUS
<1>7. /\ lot.id = order.id /\ lot.route = order.route /\ lot.quantity = q
      /\ Lots(lot) = IF q = 0 THEN {} ELSE {lot}
  BY DEF Lots
<1> HIDE DEF q, lot
<1>8. /\ Lots(lot) \in SUBSET Lot /\ IsFiniteSet(Lots(lot))
      /\ \A l \in run.transit : l.id # order.id
      /\ Scheduled(run.transit \cup Lots(lot), run.period)
  BY <1>1, <1>3, <1>6, DispatchUnderWay
<1>9. run' \in Run
  <2>1. run'.shipments \in SUBSET UNION {plan.shipments : plan \in Plans}
    BY <1>1, <1>4 DEF Run
  <2>2. run'.stock \in [Places -> Int]
    <3>1. run.stock \in [Places -> Int]
      BY <1>1 DEF Run
    <3> QED
      BY <1>3, <1>4, <3>1
  <2>3. run'.used \in [DOMAIN Routes -> Nat]
    <3>1. run.used \in [DOMAIN Routes -> Nat]
      BY <1>1 DEF Run
    <3> QED
      BY <1>2, <1>3, <1>4, <3>1
  <2>4. run'.transit \in SUBSET Lot /\ run'.ids \in SUBSET ShipmentIds
    BY <1>1, <1>2, <1>4, <1>8 DEF Run
  <2> QED
    BY <1>1, <2>1, <2>2, <2>3, <2>4 DEF Dispatch, Run
<1>10. TypeOK' /\ Sound'
  BY <1>1, <1>5, <1>9 DEF TypeOK, Sound, Position
<1>11. ConservationCheck'
  <2> SUFFICES ASSUME NEW c \in Goods
               PROVE  Total(run'.stock, run'.transit, c)
                        = Total(snap'.stock, snap'.transit, c) + run'.gained[c]
    BY DEF ConservationCheck
  <2> DEFINE d == IF c = route.commodity THEN q ELSE 0
             n == 0 - d
             here == Of(c, run.transit)
             extra == Of(c, Lots(lot))
  <2>1. Total(run.stock, run.transit, c)
          = Total(snap.stock, snap.transit, c) + run.gained[c]
    BY <1>1 DEF RunInv, ConservationCheck
  <2>2. run.stock \in [Places -> Int] /\ d \in Int /\ n \in Int
    BY <1>1, <1>3 DEF Run
  <2>3. \A t \in SiteIds :
          run'.stock[<<t, c>>] = run.stock[<<t, c>>] + (IF t = route.origin THEN n ELSE 0)
    <3> SUFFICES ASSUME NEW t \in SiteIds
                 PROVE  run'.stock[<<t, c>>] = run.stock[<<t, c>>]
                          + (IF t = route.origin THEN n ELSE 0)
      OBVIOUS
    <3>1. <<t, c>> \in Places /\ (<<t, c>> = place <=> t = route.origin /\ c = route.commodity)
      BY DEF Places
    <3>2. run.stock[<<t, c>>] \in Int
      BY <2>2, <3>1
    <3> HIDE DEF place
    <3> QED
      BY <1>3, <1>4, <2>2, <3>1, <3>2
  <2>4. Sum(Carried, here \cup extra) = Sum(Carried, here) + d
    <3>1. IsFiniteSet(here) /\ Sum(Carried, here) \in Int /\ here \in SUBSET run.transit
      BY <1>1, CarriedFacts DEF RunInv, UnderWay, Run
    <3>2. CASE q = 0 \/ c # route.commodity
      <4>1. extra = {} /\ d = 0
        BY <1>7, <3>2 DEF Of
      <4> HIDE DEF here, extra, d
      <4>2. here \cup extra = here
        BY <4>1
      <4> QED
        BY <3>1, <4>1, <4>2
    <3>3. CASE q # 0 /\ c = route.commodity
      <4>1. extra = {lot} /\ d = q /\ lot \in Lot
        BY <1>7, <1>8, <3>3 DEF Of
      <4>2. lot \notin here
        BY <1>7, <1>8, <3>1
      <4>3. Carried[lot] = q
        BY <1>7, <4>1 DEF Carried
      <4>4. \A l \in here : Carried[l] \in Int
        <5>1. run.transit \in SUBSET Lot
          BY <1>1 DEF Run
        <5> QED
          BY <3>1, <5>1, LotFacts
      <4>5. Carried[lot] \in Int
        BY <1>3, <4>3
      <4> HIDE DEF here, extra, d
      <4>6. Sum(Carried, here \cup {lot}) = Carried[lot] + Sum(Carried, here)
        BY <3>1, <4>2, <4>4, <4>5, SumInsert
      <4> QED
        BY <3>1, <4>1, <4>3, <4>5, <4>6
    <3> QED
      BY <3>2, <3>3
  <2>5. Of(c, run'.transit) = here \cup extra
    BY <1>4 DEF Of
  <2>6. Sum(Carried, here) \in Int
    BY <1>1, CarriedFacts DEF RunInv, UnderWay, Run
  <2> HIDE DEF n
  <2>7. /\ Sum(Held(run.stock, c), SiteIds) \in Int
        /\ Sum(Held(run'.stock, c), SiteIds) = Sum(Held(run.stock, c), SiteIds) + n
    <3>1. run.stock \in [Places -> Int] /\ n \in Int /\ route.origin \in SiteIds
      BY <1>3, <2>2
    <3> HIDE DEF route, place, here, extra, d
    <3> QED
      BY <2>3, <3>1, HeldChange
  <2> HIDE DEF d
  <2>8. Total(run'.stock, run'.transit, c) = Total(run.stock, run.transit, c)
    <3>1. n = 0 - d
      BY DEF n
    <3>2. Total(run.stock, run.transit, c)
            = Sum(Held(run.stock, c), SiteIds) + Sum(Carried, here)
      BY DEF Total
    <3>3. Total(run'.stock, run'.transit, c)
            = Sum(Held(run'.stock, c), SiteIds) + Sum(Carried, here \cup extra)
      BY <2>5 DEF Total
    <3> HIDE DEF here, extra
    <3> QED
      BY <2>2, <2>4, <2>6, <2>7, <3>1, <3>2, <3>3
  <2> QED
    BY <1>4, <1>5, <2>1, <2>8
<1>12. Ordered' /\ Priced'
  BY <1>1, <1>4, <1>5 DEF RunInv, Ordered, Priced
<1>13. UnderWay'
  <2>1. /\ run.period = snap.period + 1 /\ IsFiniteSet(run.transit)
        /\ snap.transit \ Due(run.period) \subseteq run.transit
        /\ \A l \in run.transit \ snap.transit : l.id \in run.ids
        /\ run.ids \cap snap.shipped = {} /\ order.id \notin snap.shipped
    BY <1>1 DEF RunInv, UnderWay, Ordered
  <2>2. IsFiniteSet(run'.transit)
    <3>1. IsFiniteSet(run.transit \cup Lots(lot))
      BY <1>8, <2>1, FS_Union
    <3> QED
      BY <1>4, <3>1
  <2>3. \A l \in Lots(lot) : l.id = order.id
    BY <1>7
  <2>4. Scheduled(run'.transit, run'.period) /\ Due(run.period)' = Due(run.period)
    BY <1>4, <1>5, <1>8 DEF Due
  <2>5. \A l \in run'.transit \ snap'.transit : l.id \in run'.ids
    BY <1>4, <1>5, <2>1, <2>3
  <2>6. run'.ids \cap snap'.shipped = {}
    BY <1>4, <1>5, <2>1
  <2>7. snap'.transit \ Due(run.period)' \subseteq run'.transit
    BY <1>4, <1>5, <2>1, <2>4
  <2> QED
    BY <1>4, <1>5, <2>1, <2>2, <2>4, <2>5, <2>6, <2>7 DEF UnderWay
<1>14. WithinRoutes'
  <2>1. /\ run.used \in [DOMAIN Routes -> Nat]
        /\ \A r \in DOMAIN Routes : run.used[r] <= Routes[r].capacity
    BY <1>1 DEF RunInv, WithinRoutes, Run
  <2> QED
    BY <1>2, <1>3, <1>4, <2>1 DEF WithinRoutes
<1>15. Ranked'
  <2>1. run'.served = {}
    BY <1>1, <1>4 DEF RunInv, Ranked
  <2> QED
    BY <2>1 DEF Ranked
<1> QED
  BY <1>10, <1>11, <1>12, <1>13, <1>14, <1>15 DEF FlowInv, RunInv
-----------------------------------------------------------------------------
(* Needs.                                                                   *)

(* No shortage, cover or factor makes a price nothing. *)
LEMMA PriceFacts ==
  ASSUME NEW c \in Goods, NEW requested \in Nat \ {0}, NEW consumed \in Int,
         NEW closing \in Int, NEW price \in Nat
  PROVE  PriceAfterNeed(c, requested, consumed, closing, price) \in Nat \ {0}
<1> DEFINE k == Commodities[c]
           shortage == Over(requested - consumed, requested)
           cover == Over(closing, requested)
           coverage == Min({Scale, cover})
           quarter == HalfEven(k.elasticity, 4)
           factor == Scale + Times(k.elasticity, shortage) - Times(quarter, coverage)
           bounded == Larger(k.floor, Min({k.ceiling, factor}))
<1>1. k.elasticity \in Nat /\ k.floor \in Nat \ {0} /\ k.ceiling \in Nat \ {0}
  BY ModelAssumption DEF ValidModel, Commodity
<1>2. Scale \in Int
  BY ScaleAssumption
<1>3. shortage \in Int /\ cover \in Int /\ quarter \in Int
  <2>1. requested - consumed \in Int /\ 4 \in Nat \ {0} /\ k.elasticity \in Int
    BY <1>1
  <2> QED
    BY <2>1, OverType, HalfEvenType
<1> HIDE DEF shortage, cover, quarter
<1>4. coverage \in Int
  BY <1>2, <1>3, MinOfFew
<1> HIDE DEF coverage
<1>5. factor \in Int
  <2>1. k.elasticity \in Int
    BY <1>1
  <2>2. Times(k.elasticity, shortage) \in Int /\ Times(quarter, coverage) \in Int
    BY <1>3, <1>4, <2>1, TimesType
  <2> QED
    BY <1>2, <2>2
<1> HIDE DEF factor
<1>6. bounded \in Int
  <2>1. k.floor \in Int /\ k.ceiling \in Int
    BY <1>1
  <2>2. Min({k.ceiling, factor}) \in Int
    BY <1>5, <2>1, MinOfFew
  <2> QED
    BY <2>1, <2>2, LargerType
<1>7. PriceAfterNeed(c, requested, consumed, closing, price)
        = Larger(1, Times(price, bounded))
  BY DEF PriceAfterNeed, bounded, factor, coverage, cover, shortage, quarter
<1> HIDE DEF bounded
<1>8. 1 \in Int /\ Times(price, bounded) \in Int
  <2>1. price \in Int
    OBVIOUS
  <2> QED
    BY <1>6, <2>1, TimesType
<1>9. Larger(1, Times(price, bounded)) \in Int /\ Larger(1, Times(price, bounded)) >= 1
  BY <1>8, LargerType
<1> QED
  BY <1>7, <1>9

LEMMA ConsumeFields ==
  ASSUME run \in Run, NEW need, Consume(need)
  PROVE  LET c == need.place[2]
             q == Min({need.quantity, Available(run, need.place)})
             closing == Available(run, need.place) - q
         IN /\ run'.running = run.running /\ run'.period = run.period
            /\ run'.production = run.production /\ run'.shipments = run.shipments
            /\ run'.needs = run.needs \ {need}
            /\ run'.stock = [run.stock EXCEPT ![need.place] = @ - q]
            /\ run'.transit = run.transit
            /\ run'.prices = [run.prices EXCEPT ![need.place] =
                                IF Commodities[c].priced
                                THEN PriceAfterNeed(c, need.quantity, q, closing, @)
                                ELSE @]
            /\ run'.labor = run.labor /\ run'.batches = run.batches
            /\ run'.used = run.used /\ run'.ids = run.ids
            /\ run'.served = run.served \cup {[need |-> need, got |-> q]}
            /\ run'.gained = [run.gained EXCEPT ![c] = @ - q]
BY DEF Consume, Run

(* A need that is served is the next in rank, and leaves its place empty     *)
(* unless it is met in full.                                                *)
LEMMA ConsumeRanked ==
  ASSUME run \in Run, Ranked, NEW need \in run.needs, NextNeed(need), NEW q \in Int,
         q <= need.quantity, q <= Available(run, need.place),
         q = need.quantity \/ q = Available(run, need.place),
         \A p \in Places : Available(run, p) \in Int,
         \A p \in Places : Available(run, p)'
                             = Available(run, p) - (IF p = need.place THEN q ELSE 0),
         run'.needs = run.needs \ {need},
         run'.production = {} /\ run'.shipments = {},
         run'.served = run.served \cup {[need |-> need, got |-> q]}
  PROVE  Ranked'
<1> DEFINE new == [need |-> need, got |-> q]
<1>1. /\ need.place \in Places /\ need.quantity \in Nat \ {0} /\ need.priority \in Int
      /\ \A n \in run.needs : n.priority \in Int
  BY DEF Run, Need
<1>2. \A a \in run.served :
        /\ a.need.place \in Places /\ a.need.quantity \in Nat \ {0}
        /\ a.need.priority \in Int /\ a.got \in Int
  BY DEF Run, Need
<1>3. new.need = need /\ new.got = q
  OBVIOUS
<1> HIDE DEF new
<1>4. \A a \in run'.served : a \in run.served \/ a = new
  BY DEF new
<1>5. ASSUME NEW a \in run'.served
      PROVE  /\ a.got <= a.need.quantity
             /\ a.got # a.need.quantity => Available(run, a.need.place)' <= 0
             /\ \A n \in run'.needs : a.need.priority <= n.priority
  <2>1. CASE a = new
    <3>1. \A n \in run.needs : need.priority <= n.priority
      BY DEF NextNeed
    <3>2. Available(run, need.place)' = Available(run, need.place) - q
      BY <1>1
    <3>3. Available(run, need.place) \in Int
      BY <1>1
    <3> QED
      BY <1>3, <2>1, <3>1, <3>2, <3>3
  <2>2. CASE a \in run.served
    <3>1. /\ a.got <= a.need.quantity
          /\ a.got # a.need.quantity => Available(run, a.need.place) <= 0
          /\ \A n \in run.needs : a.need.priority <= n.priority
      BY <2>2 DEF Ranked
    <3>2. /\ Available(run, a.need.place) \in Int
          /\ Available(run, a.need.place)'
               = Available(run, a.need.place) - (IF a.need.place = need.place THEN q ELSE 0)
      BY <1>2, <2>2
    <3>3. a.got # a.need.quantity => Available(run, a.need.place)' <= 0
      <4>1. CASE a.need.place = need.place
        BY <1>1, <3>1, <3>2, <4>1
      <4>2. CASE a.need.place # need.place
        BY <3>1, <3>2, <4>2
      <4> QED
        BY <4>1, <4>2
    <3> QED
      BY <3>1, <3>3
  <2> QED
    BY <1>4, <2>1, <2>2
<1>6. ASSUME NEW a \in run'.served, NEW b \in run'.served, a.need.place = b.need.place,
             a.need.priority < b.need.priority, b.got > 0
      PROVE  a.got = a.need.quantity
  <2>1. CASE a \in run.served /\ b \in run.served
    BY <1>6, <2>1 DEF Ranked
  <2>2. CASE a \in run.served /\ b = new
    <3>1. a.got # a.need.quantity => Available(run, need.place) <= 0
      BY <1>3, <1>6, <2>2 DEF Ranked
    <3>2. Available(run, need.place) \in Int
      BY <1>1
    <3> QED
      BY <1>3, <1>6, <2>2, <3>1, <3>2
  <2>3. CASE a = new /\ b \in run.served
    <3>1. b.need.priority <= need.priority
      BY <2>3 DEF Ranked
    <3> QED
      BY <1>1, <1>2, <1>3, <1>6, <2>3, <3>1
  <2>4. CASE a = new /\ b = new
    BY <1>1, <1>3, <1>6, <2>4
  <2> QED
    BY <1>4, <2>1, <2>2, <2>3, <2>4
<1> QED
  BY <1>5, <1>6 DEF Ranked

(* How much of a need is met. *)
LEMMA ConsumedFacts ==
  ASSUME TypeOK, run \in Run, NEW need \in run.needs
  PROVE  LET q == Min({need.quantity, Available(run, need.place)})
         IN /\ need \in Need /\ need.place \in Places /\ need.quantity \in Nat \ {0}
            /\ need.place[1] \in SiteIds /\ need.place[2] \in Goods
            /\ need.place = <<need.place[1], need.place[2]>>
            /\ q \in Int /\ q <= need.quantity /\ q <= Available(run, need.place)
            /\ q = need.quantity \/ q = Available(run, need.place)
<1>1. need \in Need /\ need.place \in Places /\ need.quantity \in Nat \ {0}
  BY DEF Run, Need
<1>2. /\ need.place[1] \in SiteIds /\ need.place[2] \in Goods
      /\ need.place = <<need.place[1], need.place[2]>>
  BY <1>1 DEF Places
<1>3. need.quantity \in Int /\ Available(run, need.place) \in Int
  BY <1>1, AvailableType
<1> QED
  BY <1>1, <1>2, <1>3, MinOfFew

LEMMA ConsumeKeeps ==
  ASSUME FlowInv, run # Idle, NEW need \in run.needs, Consume(need)
  PROVE  FlowInv'
<1> DEFINE s == need.place[1]
           c == need.place[2]
           q == Min({need.quantity, Available(run, need.place)})
           closing == Available(run, need.place) - q
           price == PriceAfterNeed(c, need.quantity, q, closing, run.prices[need.place])
<1>1. TypeOK /\ run \in Run /\ Sound /\ RunInv
  BY DEF FlowInv, TypeOK
<1>2. /\ need \in Need /\ need.place \in Places /\ need.quantity \in Nat \ {0}
      /\ s \in SiteIds /\ c \in Goods /\ need.place = <<s, c>>
      /\ q \in Int /\ q <= need.quantity /\ q <= Available(run, need.place)
      /\ q = need.quantity \/ q = Available(run, need.place)
  BY <1>1, ConsumedFacts
<1>3. price \in Nat \ {0}
  <2>1. Available(run, need.place) \in Int /\ run.prices[need.place] \in Nat
    BY <1>1, <1>2, AvailableType DEF Run
  <2>2. closing \in Int
    BY <1>2, <2>1
  <2> HIDE DEF closing, q, c
  <2> QED
    BY <1>2, <2>1, <2>2, PriceFacts
<1>4. /\ run'.running = run.running /\ run'.period = run.period
      /\ run'.production = run.production /\ run'.shipments = run.shipments
      /\ run'.needs = run.needs \ {need}
      /\ run'.stock = [run.stock EXCEPT ![need.place] = @ - q]
      /\ run'.transit = run.transit
      /\ run'.prices = [run.prices EXCEPT ![need.place] =
                          IF Commodities[c].priced THEN price ELSE @]
      /\ run'.labor = run.labor /\ run'.batches = run.batches
      /\ run'.used = run.used /\ run'.ids = run.ids
      /\ run'.served = run.served \cup {[need |-> need, got |-> q]}
      /\ run'.gained = [run.gained EXCEPT ![c] = @ - q]
  BY <1>1, ConsumeFields
<1>5. /\ snap' = snap /\ outcome' = outcome /\ NextNeed(need)
      /\ run.production = {} /\ run.shipments = {}
  BY DEF Consume
<1> HIDE DEF q, closing, price, c, s
<1>6. run' \in Run
  <2>1. run'.needs \in SUBSET Need
    BY <1>1, <1>4 DEF Run
  <2>2. run'.stock \in [Places -> Int]
    <3>1. run.stock \in [Places -> Int]
      BY <1>1 DEF Run
    <3> QED
      BY <1>2, <1>4, <3>1
  <2>3. run'.prices \in [Places -> Nat]
    <3> DEFINE new == IF Commodities[c].priced THEN price ELSE run.prices[need.place]
    <3>1. run.prices \in [Places -> Nat]
      BY <1>1 DEF Run
    <3>2. new \in Nat
      BY <1>2, <1>3, <3>1
    <3>3. run'.prices = [run.prices EXCEPT ![need.place] = new]
      BY <1>4
    <3> HIDE DEF new
    <3> QED
      BY <3>1, <3>2, <3>3
  <2>4. run'.gained \in [Goods -> Int]
    <3>1. run.gained \in [Goods -> Int]
      BY <1>1 DEF Run
    <3> QED
      BY <1>2, <1>4, <3>1
  <2>5. run'.served \in SUBSET [need : Need, got : Int]
    BY <1>1, <1>2, <1>4 DEF Run
  <2> QED
    BY <1>1, <2>1, <2>2, <2>3, <2>4, <2>5 DEF Consume, Run
<1>7. TypeOK' /\ Sound'
  BY <1>1, <1>5, <1>6 DEF TypeOK, Sound, Position
<1>8. ConservationCheck'
  <2> SUFFICES ASSUME NEW g \in Goods
               PROVE  Total(run'.stock, run'.transit, g)
                        = Total(snap'.stock, snap'.transit, g) + run'.gained[g]
    BY DEF ConservationCheck
  <2> DEFINE d == IF g = c THEN q ELSE 0
             n == 0 - d
  <2>1. Total(run.stock, run.transit, g)
          = Total(snap.stock, snap.transit, g) + run.gained[g]
    BY <1>1 DEF RunInv, ConservationCheck
  <2>2. run.stock \in [Places -> Int] /\ run.gained \in [Goods -> Int] /\ d \in Int /\ n \in Int
    BY <1>1, <1>2 DEF Run
  <2>3. \A t \in SiteIds :
          run'.stock[<<t, g>>] = run.stock[<<t, g>>] + (IF t = s THEN n ELSE 0)
    <3> SUFFICES ASSUME NEW t \in SiteIds
                 PROVE  run'.stock[<<t, g>>] = run.stock[<<t, g>>]
                          + (IF t = s THEN n ELSE 0)
      OBVIOUS
    <3>1. <<t, g>> \in Places /\ (<<t, g>> = need.place <=> t = s /\ g = c)
      BY <1>2 DEF Places
    <3>2. run.stock[<<t, g>>] \in Int
      BY <2>2, <3>1
    <3> QED
      BY <1>2, <1>4, <2>2, <3>1, <3>2
  <2>4. Sum(Carried, Of(g, run.transit)) \in Int
    BY <1>1, CarriedFacts DEF RunInv, UnderWay, Run
  <2>5. run'.gained[g] = run.gained[g] + n
    BY <1>2, <1>4, <2>2
  <2>6. n \in Int
    BY <2>2
  <2> HIDE DEF n, d
  <2>7. /\ Sum(Held(run.stock, g), SiteIds) \in Int
        /\ Sum(Held(run'.stock, g), SiteIds) = Sum(Held(run.stock, g), SiteIds) + n
    <3>1. run.stock \in [Places -> Int] /\ n \in Int /\ s \in SiteIds
      BY <1>2, <2>2, <2>6
    <3> QED
      BY <2>3, <3>1, HeldChange
  <2>8. Total(run'.stock, run'.transit, g) = Total(run.stock, run.transit, g) + n
    BY <1>4, <2>4, <2>6, <2>7 DEF Total
  <2>9. Total(snap.stock, snap.transit, g) \in Int
    <3>1. snap.stock \in [Places -> Int] /\ snap.transit \in SUBSET Lot
      BY <1>1 DEF TypeOK, Snapshot
    <3>2. IsFiniteSet(snap.transit)
      BY <1>1 DEF Sound
    <3> QED
      BY <3>1, <3>2, TotalType
  <2>10. run.gained[g] \in Int
    BY <2>2
  <2> QED
    BY <1>5, <2>1, <2>5, <2>6, <2>8, <2>9, <2>10
<1>9. Ordered' /\ UnderWay' /\ WithinRoutes'
  BY <1>1, <1>4, <1>5 DEF RunInv, Ordered, UnderWay, WithinRoutes, Due
<1>10. Priced'
  <2>1. /\ run.prices \in [Places -> Nat]
        /\ \A p \in Places : Commodities[p[2]].priced => run.prices[p] > 0
    BY <1>1 DEF RunInv, Priced, Run
  <2> QED
    BY <1>3, <1>4, <2>1 DEF Priced, c
<1>11. Ranked'
  <2>1. \A p \in Places : Available(run, p) \in Int
    BY <1>1, AvailableType
  <2>2. \A p \in Places : Available(run, p)'
                            = Available(run, p) - (IF p = need.place THEN q ELSE 0)
    <3>1. /\ run.stock \in [Places -> Int] /\ snap.reserved \in [Places -> Nat]
      BY <1>1 DEF TypeOK, Run, Snapshot
    <3> QED
      BY <1>2, <1>4, <1>5, <3>1 DEF Available
  <2>3. Ranked
    BY <1>1 DEF RunInv
  <2> QED
    BY <1>1, <1>2, <1>4, <1>5, <2>1, <2>2, <2>3, ConsumeRanked
<1> QED
  BY <1>7, <1>8, <1>9, <1>10, <1>11 DEF FlowInv, RunInv
-----------------------------------------------------------------------------
(* A month begins: what is due arrives.                                     *)

(* Needs of one rank, site and good are added up. *)
LEMMA AggregatedType ==
  ASSUME NEW needs, IsFiniteSet(needs),
         \A n \in needs : /\ n.quantity \in Int /\ n.quantity >= 0 /\ n.priority \in Int
                          /\ <<n.site, n.commodity>> \in Places
  PROVE  Aggregated(needs) \in SUBSET Need
<1> DEFINE Key(n) == <<n.priority, n.site, n.commodity>>
           Wanted == [n \in needs |-> n.quantity]
           Same(n) == {m \in needs : Key(m) = Key(n)}
           Whole(n) == [priority |-> n.priority, place |-> <<n.site, n.commodity>>,
                        quantity |-> Sum(Wanted, Same(n))]
<1>1. ASSUME NEW n \in needs PROVE Sum(Wanted, Same(n)) \in Nat
  <2>1. ASSUME NEW m \in needs PROVE Wanted[m] \in Nat
    <3>1. m.quantity \in Int /\ m.quantity >= 0
      OBVIOUS
    <3>2. Wanted[m] = m.quantity
      OBVIOUS
    <3> HIDE DEF Wanted
    <3> QED
      BY <3>1, <3>2
  <2>2. Same(n) \in SUBSET needs
    OBVIOUS
  <2> HIDE DEF Same, Wanted
  <2>3. IsFiniteSet(Same(n))
    BY <2>2, FS_Subset
  <2> QED
    BY <2>1, <2>2, <2>3, SumNat
<1>2. Aggregated(needs) = {need \in {Whole(n) : n \in needs} : need.quantity > 0}
  BY DEF Aggregated
<1>3. ASSUME NEW n \in needs, Whole(n).quantity > 0 PROVE Whole(n) \in Need
  BY <1>1, <1>3 DEF Need
<1> HIDE DEF Whole
<1> QED
  BY <1>2, <1>3

(* What arrives and what is lost of the lots that are due. *)
LEMMA DueFacts ==
  ASSUME TypeOK, Sound, NEW period \in Int, NEW c \in Goods
  PROVE  LET due == Due(period)
             Arrives == [s \in SiteIds |->
                           Sum(Delivered, {l \in due : Destination(l) = <<s, c>>})]
         IN /\ Arrives \in [SiteIds -> Nat]
            /\ Sum(Losses, Of(c, due)) \in Int
            /\ Sum(Arrives, SiteIds) + Sum(Losses, Of(c, due))
                 + Sum(Carried, Of(c, snap.transit \ due))
                 = Sum(Carried, Of(c, snap.transit))
<1> DEFINE due == Due(period)
           T == Of(c, due)
           U == Of(c, snap.transit \ due)
           f == [l \in Lot |-> Routes[l.route].destination]
           Fiber(s) == {l \in T : f[l] = s}
           Arrives == [s \in SiteIds |->
                         Sum(Delivered, {l \in due : Destination(l) = <<s, c>>})]
<1>1. /\ due \in SUBSET snap.transit /\ snap.transit \in SUBSET Lot
      /\ IsFiniteSet(snap.transit)
  BY DEF Due, TypeOK, Snapshot, Sound
<1>2. /\ T \in SUBSET due /\ T \in SUBSET Lot /\ U \in SUBSET Lot
      /\ T \cap U = {} /\ T \cup U = Of(c, snap.transit)
  BY <1>1 DEF Of
<1>3. IsFiniteSet(T) /\ IsFiniteSet(U)
  <2>1. IsFiniteSet(due) /\ IsFiniteSet(snap.transit \ due)
    BY <1>1, FS_Subset
  <2> QED
    BY <1>1, <2>1, CarriedFacts
<1>4. ASSUME NEW s \in SiteIds
      PROVE  {l \in due : Destination(l) = <<s, c>>} = Fiber(s)
  BY <1>1, <1>2 DEF Destination, Of
<1>5. \A l \in T \cup U : /\ Carried[l] \in Nat /\ Losses[l] \in Nat /\ Delivered[l] \in Nat
                          /\ Carried[l] = Delivered[l] + Losses[l]
  BY <1>2, LotFacts
<1>6. \A l \in T : f[l] \in SiteIds
  BY <1>2, LotFacts
<1> HIDE DEF T, U, f, due
<1>7. Arrives = [s \in SiteIds |-> Sum(Delivered, Fiber(s))]
  BY <1>4
<1>8. Arrives \in [SiteIds -> Nat]
  <2> SUFFICES ASSUME NEW s \in SiteIds PROVE Sum(Delivered, Fiber(s)) \in Nat
    BY <1>7
  <2>1. IsFiniteSet(Fiber(s)) /\ \A l \in Fiber(s) : Delivered[l] \in Nat
    BY <1>3, <1>5, FS_Subset
  <2> HIDE DEF Fiber
  <2> QED
    BY <2>1, SumNat
<1>9. Sum(Arrives, SiteIds) = Sum(Delivered, T)
  <2>1. \A l \in T : Delivered[l] \in Int /\ f[l] \in SiteIds
    BY <1>5, <1>6
  <2>2. Sum([s \in SiteIds |-> Sum(Delivered, {l \in T : f[l] = s})], SiteIds)
          = Sum(Delivered, T)
    BY <1>3, <2>1, SiteFacts, SumFibers
  <2> QED
    BY <1>7, <2>2
<1>10. Sum(Carried, T) = Sum(Delivered, T) + Sum(Losses, T)
  <2>1. \A l \in T : /\ Delivered[l] \in Int /\ Losses[l] \in Int
                     /\ Carried[l] = Delivered[l] + Losses[l]
    BY <1>5
  <2> QED
    BY <1>3, <2>1, SumPlus
<1>11. Sum(Carried, T \cup U) = Sum(Carried, T) + Sum(Carried, U)
  <2>1. \A l \in T \cup U : Carried[l] \in Int
    BY <1>5
  <2> QED
    BY <1>2, <1>3, <2>1, SumUnion
<1>12. /\ Sum(Delivered, T) \in Int /\ Sum(Losses, T) \in Int
       /\ Sum(Carried, T) \in Int /\ Sum(Carried, U) \in Int
  <2>1. /\ \A l \in T : Delivered[l] \in Int /\ Losses[l] \in Int /\ Carried[l] \in Int
        /\ \A l \in U : Carried[l] \in Int
    BY <1>5
  <2> QED
    BY <1>3, <2>1, SumType
<1>13. Sum(Arrives, SiteIds) + Sum(Losses, T) + Sum(Carried, U)
         = Sum(Carried, Of(c, snap.transit))
  <2> HIDE DEF Arrives
  <2> QED
    BY <1>2, <1>9, <1>10, <1>11, <1>12
<1> QED
  BY <1>8, <1>12, <1>13 DEF T, U, due

LEMMA BeginFields ==
  ASSUME NEW plan, Begin(plan)
  PROVE  LET due == Due(plan.period)
             arrived == [p \in Places |-> snap.stock[p]
                           + Sum(Delivered, {l \in due : Destination(l) = p})]
             gained == [c \in Goods |-> 0 - Sum(Losses, Of(c, due))]
         IN /\ run'.running = TRUE /\ run'.period = plan.period
            /\ run'.production = plan.production /\ run'.shipments = plan.shipments
            /\ run'.needs = Aggregated(plan.needs) /\ run'.stock = arrived
            /\ run'.transit = snap.transit \ due /\ run'.prices = snap.prices
            /\ run'.labor = Sites /\ run'.batches = [r \in DOMAIN Recipes |-> 0]
            /\ run'.used = [r \in DOMAIN Routes |-> 0]
            /\ run'.ids = {} /\ run'.served = {} /\ run'.gained = gained
BY DEF Begin

LEMMA BeginKeeps ==
  ASSUME FlowInv, NEW plan \in Plans, Begin(plan)
  PROVE  /\ FlowInv'
         /\ \A p \in Places : run'.stock[p] >= snap.reserved[p]
<1> DEFINE due == Due(plan.period)
           arrived == [p \in Places |-> snap.stock[p]
                         + Sum(Delivered, {l \in due : Destination(l) = p})]
           gained == [c \in Goods |-> 0 - Sum(Losses, Of(c, due))]
           Arrives(c) == [s \in SiteIds |->
                            Sum(Delivered, {l \in due : Destination(l) = <<s, c>>})]
<1>1. TypeOK /\ Sound /\ WellFormed(plan) /\ ValidPlan(plan)
  BY ModelAssumption DEF FlowInv, Begin
<1>2. /\ snap \in Snapshot /\ snap.period \in Nat
      /\ plan.period = snap.period + 1 /\ plan.period \in Int /\ plan.period \in Nat
  BY <1>1 DEF TypeOK, Snapshot, WellFormed
<1>3. /\ run'.running = TRUE /\ run'.period = plan.period
      /\ run'.production = plan.production /\ run'.shipments = plan.shipments
      /\ run'.needs = Aggregated(plan.needs) /\ run'.stock = arrived
      /\ run'.transit = snap.transit \ due /\ run'.prices = snap.prices
      /\ run'.labor = Sites /\ run'.batches = [r \in DOMAIN Recipes |-> 0]
      /\ run'.used = [r \in DOMAIN Routes |-> 0]
      /\ run'.ids = {} /\ run'.served = {} /\ run'.gained = gained
  BY BeginFields
<1>4. snap' = snap /\ outcome' = outcome
  BY DEF Begin
<1>5. ASSUME NEW c \in Goods
      PROVE  /\ Arrives(c) \in [SiteIds -> Nat]
             /\ Sum(Losses, Of(c, due)) \in Int
             /\ Sum(Arrives(c), SiteIds) + Sum(Losses, Of(c, due))
                  + Sum(Carried, Of(c, snap.transit \ due))
                  = Sum(Carried, Of(c, snap.transit))
  BY <1>1, <1>2, DueFacts
<1>6. ASSUME NEW p \in Places
      PROVE  /\ arrived[p] \in Int /\ arrived[p] >= snap.stock[p]
             /\ snap.stock[p] \in Nat /\ snap.reserved[p] \in Nat
  <2> DEFINE n == Sum(Delivered, {l \in due : Destination(l) = p})
  <2>1. PICK s \in SiteIds, c \in Goods : p = <<s, c>>
    BY DEF Places
  <2>2. n = Arrives(c)[s]
    BY <2>1
  <2>3. n \in Nat
    BY <1>5, <2>2
  <2>4. snap.stock[p] \in Nat /\ snap.reserved[p] \in Nat
    BY <1>2 DEF Snapshot
  <2>5. arrived[p] = snap.stock[p] + n
    OBVIOUS
  <2> HIDE DEF n, arrived
  <2> QED
    BY <2>3, <2>4, <2>5
<1>7. arrived \in [Places -> Int] /\ gained \in [Goods -> Int]
  <2>1. ASSUME NEW c \in Goods PROVE 0 - Sum(Losses, Of(c, due)) \in Int
    <3>1. Sum(Losses, Of(c, due)) \in Int
      BY <1>5
    <3> QED
      BY <3>1
  <2>2. \A p \in Places : arrived[p] \in Int
    BY <1>6
  <2> QED
    BY <2>1, <2>2
<1>8. Aggregated(plan.needs) \in SUBSET Need
  <2>1. /\ IsFiniteSet(plan.needs)
        /\ \A n \in plan.needs : /\ n.quantity \in Int /\ n.quantity >= 0 /\ n.priority \in Int
                                 /\ <<n.site, n.commodity>> \in Places
    BY <1>1 DEF WellFormed, ValidPlan
  <2> QED
    BY <2>1, AggregatedType
<1>9. /\ snap.transit \in SUBSET Lot /\ snap.prices \in [Places -> Nat]
      /\ IsFiniteSet(snap.transit \ due) /\ Scheduled(snap.transit \ due, plan.period)
  <2>1. snap.transit \in SUBSET Lot /\ snap.prices \in [Places -> Nat]
    BY <1>2 DEF Snapshot
  <2>2. IsFiniteSet(snap.transit \ due)
    BY <1>1, FS_Subset DEF Sound
  <2>3. \A l \in snap.transit : l.arrival \in Nat
    BY <2>1, LotFacts
  <2>4. Scheduled(snap.transit \ due, plan.period)
    BY <1>1, <1>2, <2>3 DEF Sound, Scheduled, Due
  <2> QED
    BY <2>1, <2>2, <2>4
<1>10. run' \in Run
  <2>1. Sites \in [SiteIds -> Int]
    BY SiteFacts
  <2>2. /\ plan.production \in SUBSET UNION {q.production : q \in Plans}
        /\ plan.shipments \in SUBSET UNION {q.shipments : q \in Plans}
    OBVIOUS
  <2> HIDE DEF arrived, gained, due
  <2> QED
    BY <1>2, <1>7, <1>8, <1>9, <2>1, <2>2 DEF Begin, Run, arrived, gained, due
<1>11. TypeOK' /\ Sound'
  BY <1>1, <1>4, <1>10 DEF TypeOK, Sound, Position
<1>12. ConservationCheck'
  <2> SUFFICES ASSUME NEW c \in Goods
               PROVE  Total(arrived, snap.transit \ due, c)
                        = Total(snap.stock, snap.transit, c) + gained[c]
    BY <1>3, <1>4 DEF ConservationCheck
  <2> DEFINE F == Held(snap.stock, c)
             G == Arrives(c)
             H == Held(arrived, c)
             there == Of(c, snap.transit \ due)
             lost == Sum(Losses, Of(c, due))
  <2>1. \A t \in SiteIds : F[t] \in Int /\ G[t] \in Int /\ H[t] = F[t] + G[t]
    <3> SUFFICES ASSUME NEW t \in SiteIds
                 PROVE  F[t] \in Int /\ G[t] \in Int /\ H[t] = F[t] + G[t]
      OBVIOUS
    <3>1. <<t, c>> \in Places
      BY DEF Places
    <3>2. /\ F[t] = snap.stock[<<t, c>>] /\ H[t] = arrived[<<t, c>>]
          /\ arrived[<<t, c>>] = snap.stock[<<t, c>>] + G[t]
      BY <3>1 DEF Held
    <3>3. snap.stock[<<t, c>>] \in Nat /\ G[t] \in Nat
      BY <1>5, <1>6, <3>1
    <3> HIDE DEF F, G, H, arrived
    <3> QED
      BY <3>2, <3>3
  <2>2. /\ lost \in Int
        /\ Sum(G, SiteIds) + lost + Sum(Carried, there) = Sum(Carried, Of(c, snap.transit))
    BY <1>5
  <2>3. gained[c] = 0 - lost
    OBVIOUS
  <2>4. /\ Total(arrived, snap.transit \ due, c) = Sum(H, SiteIds) + Sum(Carried, there)
        /\ Total(snap.stock, snap.transit, c)
             = Sum(F, SiteIds) + Sum(Carried, Of(c, snap.transit))
    BY DEF Total
  <2>5. Sum(Carried, there) \in Int
    BY <1>9, CarriedFacts
  <2> HIDE DEF F, G, H, lost, there, gained, arrived, due
  <2>6. Sum(F, SiteIds) \in Int /\ Sum(G, SiteIds) \in Int
    BY <2>1, SiteFacts, SumType
  <2>7. Sum(H, SiteIds) = Sum(F, SiteIds) + Sum(G, SiteIds)
    BY <2>1, SiteFacts, SumPlus
  <2> QED
    BY <2>2, <2>3, <2>4, <2>5, <2>6, <2>7
<1> HIDE DEF arrived, gained
<1>13. Ordered'
  <2>1. \A o \in plan.production : o.recipe \in DOMAIN Recipes /\ o.batches \in Nat
    BY <1>1 DEF WellFormed, ValidPlan
  <2>2. \A o \in plan.shipments :
          /\ o.route \in DOMAIN Routes /\ o.quantity \in Nat /\ o.id \in ShipmentIds
          /\ o.id \notin snap.shipped
          /\ \A p \in plan.shipments : p.id = o.id => p = o
    BY <1>1 DEF WellFormed, ValidPlan
  <2> QED
    BY <1>3, <1>4, <2>1, <2>2 DEF Ordered
<1>14. UnderWay'
  <2>1. Due(run.period)' = due
    BY <1>3, <1>4 DEF Due
  <2> HIDE DEF due
  <2> QED
    BY <1>2, <1>3, <1>4, <1>9, <2>1 DEF UnderWay
<1>15. WithinRoutes'
  <2>1. \A r \in DOMAIN Routes : Routes[r].capacity \in Nat
    BY RouteFacts
  <2> QED
    BY <1>3, <2>1 DEF WithinRoutes
<1>16. Priced' /\ Ranked'
  BY <1>1, <1>3 DEF Sound, Position, Priced, Ranked
<1>17. \A p \in Places : run'.stock[p] >= snap.reserved[p]
  <2> SUFFICES ASSUME NEW p \in Places PROVE arrived[p] >= snap.reserved[p]
    BY <1>3
  <2>1. snap.reserved[p] <= snap.stock[p]
    BY <1>1 DEF Sound, Position
  <2> QED
    BY <1>6, <2>1
<1> QED
  BY <1>11, <1>12, <1>13, <1>14, <1>15, <1>16, <1>17 DEF FlowInv, RunInv
-----------------------------------------------------------------------------
(* A month ends, and the invariant.                                         *)
LEMMA SealFields ==
  ASSUME snap \in Snapshot, Seal
  PROVE  /\ snap'.period = run.period /\ snap'.stock = run.stock
         /\ snap'.reserved = snap.reserved /\ snap'.prices = run.prices
         /\ snap'.transit = run.transit /\ snap'.shipped = snap.shipped \cup run.ids
         /\ run' = Idle /\ outcome' = "sealed"
BY DEF Seal, Snapshot

LEMMA SealKeeps ==
  ASSUME FlowInv, run # Idle, Seal
  PROVE  FlowInv'
<1>1. TypeOK /\ run \in Run /\ Sound /\ RunInv /\ snap \in Snapshot
  BY DEF FlowInv, TypeOK
<1>2. /\ snap'.period = run.period /\ snap'.stock = run.stock
      /\ snap'.reserved = snap.reserved /\ snap'.prices = run.prices
      /\ snap'.transit = run.transit /\ snap'.shipped = snap.shipped \cup run.ids
      /\ run' = Idle /\ outcome' = "sealed"
  BY <1>1, SealFields
<1>3. StockChecks /\ SnapshotChecks
  BY DEF Seal, Checks
<1>4. run.stock \in [Places -> Nat]
  BY <1>1, <1>3 DEF Run, StockChecks
<1>5. snap' \in Snapshot
  <2>1. /\ run.period \in Nat /\ run.prices \in [Places -> Nat]
        /\ run.transit \in SUBSET Lot /\ snap.shipped \cup run.ids \in SUBSET ShipmentIds
    BY <1>1 DEF Run, Snapshot
  <2> QED
    BY <1>1, <1>4, <2>1 DEF Seal, Snapshot
<1>6. \A p \in Places : Position(snap, p)'
  <2>1. \A p \in Places : snap.reserved[p] <= run.stock[p]
    BY <1>3 DEF StockChecks
  <2>2. \A p \in Places : Commodities[p[2]].priced => run.prices[p] > 0
    BY <1>3 DEF SnapshotChecks
  <2> QED
    BY <1>2, <2>1, <2>2 DEF Position
<1>7. /\ IsFiniteSet(run.transit) /\ Scheduled(run.transit, run.period)
      /\ \A l \in run.transit : l.id \in snap.shipped \cup run.ids
  BY <1>1 DEF RunInv, UnderWay, Sound
<1>8. Sound'
  BY <1>2, <1>6, <1>7 DEF Sound
<1>9. TypeOK'
  BY <1>2, <1>5 DEF TypeOK
<1> QED
  BY <1>2, <1>8, <1>9 DEF FlowInv

LEMMA FlowInvInit == Init => FlowInv
<1> SUFFICES ASSUME Init PROVE FlowInv
  OBVIOUS
<1>1. ValidOpening(snap)
  BY ModelAssumption DEF Init
<1> QED
  BY <1>1 DEF Init, FlowInv, TypeOK, Sound, ValidOpening

LEMMA FlowInvNext == FlowInv /\ [Next]_vars => FlowInv'
<1> SUFFICES ASSUME FlowInv, [Next]_vars PROVE FlowInv'
  OBVIOUS
<1>1. ASSUME NEW plan \in Plans, Begin(plan) PROVE FlowInv'
  BY <1>1, BeginKeeps
<1>2. ASSUME run # Idle, NEW o \in run.production, Produce(o) PROVE FlowInv'
  BY <1>2, ProduceKeeps
<1>3. ASSUME run # Idle, NEW o \in run.shipments, Dispatch(o) PROVE FlowInv'
  BY <1>3, DispatchKeeps
<1>4. ASSUME run # Idle, NEW n \in run.needs, Consume(n) PROVE FlowInv'
  BY <1>4, ConsumeKeeps
<1>5. ASSUME run # Idle, Seal PROVE FlowInv'
  BY <1>5, SealKeeps
<1>6. ASSUME run # Idle, Discard PROVE FlowInv'
  BY <1>6 DEF Discard, FlowInv, TypeOK, Sound, Position
<1>7. CASE UNCHANGED vars
  BY <1>7 DEF vars, FlowInv, TypeOK, Sound, Position, RunInv, Ordered, UnderWay, Due,
              WithinRoutes, Priced, Ranked, Available, ConservationCheck
<1> QED
  BY <1>1, <1>2, <1>3, <1>4, <1>5, <1>6, <1>7 DEF Next

(* However orders compete, a run keeps its books: goods are conserved at every   *)
(* step, lots are on schedule, routes within capacity, prices above nothing, and *)
(* needs are served by rank (stockflow.py:684-922).                              *)
THEOREM FlowInvariant == Spec => []FlowInv
BY FlowInvInit, FlowInvNext, PTL DEF Spec

LEMMA SealOnSchedule ==
  ASSUME FlowInv, run # Idle, Seal
  PROVE  /\ \A l \in snap'.transit \ snap.transit :
              l.id \notin snap.shipped /\ l.id \in snap'.shipped
         /\ \A l \in snap.transit \ snap'.transit : l.arrival = snap'.period
<1>1. /\ snap \in Snapshot /\ run \in Run /\ Sound /\ UnderWay
      /\ snap.transit \in SUBSET Lot /\ snap.period \in Nat
  BY DEF FlowInv, RunInv, TypeOK, Snapshot
<1>2. /\ snap'.period = run.period /\ snap'.transit = run.transit
      /\ snap'.shipped = snap.shipped \cup run.ids
  BY <1>1, SealFields
<1>3. \A l \in run.transit \ snap.transit :
        l.id \notin snap.shipped /\ l.id \in snap.shipped \cup run.ids
  BY <1>1 DEF UnderWay
<1>4. ASSUME NEW l \in snap.transit \ run.transit PROVE l.arrival = run.period
  <2>1. l \in Due(run.period) /\ run.period = snap.period + 1
    BY <1>1, <1>4 DEF UnderWay
  <2>2. l.arrival > snap.period /\ l.arrival <= run.period
    BY <1>1, <2>1 DEF Sound, Scheduled, Due
  <2>3. l.arrival \in Nat
    BY <1>1, LotFacts
  <2> QED
    BY <1>1, <2>1, <2>2, <2>3
<1> QED
  BY <1>2, <1>3, <1>4

(* A shipment identity brings goods under way at most once, and they stay under *)
(* way until the month they are due (stockflow.py:724-734, 778-818).            *)
THEOREM LotsOnSchedule == Spec => TransitDiscipline
<1> DEFINE Step == /\ \A l \in snap'.transit \ snap.transit :
                        l.id \notin snap.shipped /\ l.id \in snap'.shipped
                   /\ \A l \in snap.transit \ snap'.transit : l.arrival = snap'.period
<1>1. FlowInv /\ [Next]_vars => [Step]_snap
  <2> SUFFICES ASSUME FlowInv, [Next]_vars, snap' # snap PROVE Step
    BY DEF Step
  <2>1. run # Idle /\ Seal
    BY DEF Next, vars, Begin, Produce, Dispatch, Consume, Discard
  <2> QED
    BY <2>1, SealOnSchedule
<1> QED
  BY <1>1, FlowInvariant, PTL DEF Spec, TransitDiscipline
-----------------------------------------------------------------------------
(* What rounding could break.                                               *)
LEMMA ProduceCovers ==
  ASSUME ExactRecipes, FlowInv, Covered, run # Idle,
         NEW order \in run.production, Produce(order)
  PROVE  Covered'
<1> DEFINE recipe == Recipes[order.recipe]
           n == Feasible(run, order)
           Place(i) == <<recipe.site, recipe.inputs[i][1]>>
           Change(c) == Moved(recipe.outputs, n, c) - Moved(recipe.inputs, n, c)
<1>1. TypeOK /\ run \in Run /\ RunInv
  BY DEF FlowInv, TypeOK
<1>2. order.recipe \in DOMAIN Recipes /\ order.batches \in Nat
  BY <1>1 DEF RunInv, Ordered
<1>3. /\ recipe.site \in SiteIds /\ recipe.labor \in Nat
      /\ recipe.inputs \in Quantities /\ recipe.outputs \in Quantities
  BY <1>2, RecipeFacts
<1>4. /\ run.stock \in [Places -> Int] /\ snap.reserved \in [Places -> Nat]
      /\ run.labor \in [SiteIds -> Int]
      /\ \A p \in Places : run.stock[p] >= snap.reserved[p]
      /\ \A s \in SiteIds : run.labor[s] >= 0
  BY <1>1 DEF TypeOK, Run, Snapshot, Covered
<1>5. /\ n \in Nat
      /\ Times(recipe.labor, n) <= run.labor[recipe.site]
      /\ \A i \in DOMAIN recipe.inputs :
           Available(run, Place(i)) >= 0
             => Times(recipe.inputs[i][2], n) <= Available(run, Place(i))
  BY <1>1, <1>2, <1>3, <1>4, FeasibleFacts
<1> HIDE DEF n, Change
<1>6. /\ run'.running = run.running /\ run'.period = run.period
      /\ run'.production = run.production \ {order}
      /\ run'.shipments = run.shipments /\ run'.needs = run.needs
      /\ run'.stock = [p \in Places |->
                         IF p[1] = recipe.site THEN run.stock[p] + Change(p[2])
                         ELSE run.stock[p]]
      /\ run'.transit = run.transit /\ run'.prices = run.prices
      /\ run'.labor = [run.labor EXCEPT ![recipe.site] = @ - Times(recipe.labor, n)]
      /\ run'.batches = [run.batches EXCEPT ![order.recipe] = @ + n]
      /\ run'.used = run.used /\ run'.ids = run.ids /\ run'.served = run.served
      /\ run'.gained = [c \in Goods |-> run.gained[c] + Change(c)]
  BY <1>1, ProduceFields DEF n, Change
<1>7. snap' = snap
  BY DEF Produce
<1> DEFINE Out(c) == Moved(recipe.outputs, n, c)
           In(c) == Moved(recipe.inputs, n, c)
<1>8. ASSUME NEW c \in Goods
      PROVE  /\ Out(c) \in Nat /\ In(c) \in Nat
             /\ run.stock[<<recipe.site, c>>] \in Int
             /\ snap.reserved[<<recipe.site, c>>] \in Nat
             /\ run.stock[<<recipe.site, c>>] + Change(c) >= snap.reserved[<<recipe.site, c>>]
  <2> DEFINE p == <<recipe.site, c>>
  <2>1. p \in Places
    BY <1>3 DEF Places
  <2>2. /\ run.stock[p] \in Int /\ snap.reserved[p] \in Nat
        /\ run.stock[p] >= snap.reserved[p]
        /\ Available(run, p) = run.stock[p] - snap.reserved[p]
    BY <1>4, <2>1 DEF Available
  <2>3. Out(c) \in Nat /\ In(c) \in Nat
    BY <1>3, <1>5, MovedFacts
  <2>4. In(c) <= Available(run, p)
    <3>1. CASE \A i \in DOMAIN recipe.inputs : recipe.inputs[i][1] # c
      <4>1. In(c) = 0
        BY <1>3, <1>5, <3>1, MovedFacts
      <4> QED
        BY <2>2, <4>1
    <3>2. ASSUME NEW i \in DOMAIN recipe.inputs, recipe.inputs[i][1] = c
          PROVE  In(c) <= Available(run, p)
      <4>1. \A j \in DOMAIN recipe.inputs :
              recipe.inputs[j][1] = recipe.inputs[i][1] => i = j
        BY <1>2 DEF ExactRecipes
      <4>2. In(c) = Times(recipe.inputs[i][2], n)
        BY <1>3, <1>5, <3>2, <4>1, MovedFacts
      <4>3. Place(i) = p /\ Available(run, p) >= 0
        BY <2>2, <3>2
      <4>4. Times(recipe.inputs[i][2], n) <= Available(run, Place(i))
        BY <1>5, <4>3
      <4> QED
        BY <4>2, <4>3, <4>4
    <3> QED
      BY <3>1, <3>2
  <2>0. Change(c) = Out(c) - In(c)
    BY DEF Change
  <2> HIDE DEF Out, In, p
  <2>5. run.stock[p] + Change(c) >= snap.reserved[p]
    BY <2>0, <2>2, <2>3, <2>4
  <2> QED
    BY <2>2, <2>3, <2>5 DEF p
<1>9. ASSUME NEW p \in Places PROVE run'.stock[p] >= snap'.reserved[p]
  <2>1. PICK s \in SiteIds, c \in Goods : p = <<s, c>>
    BY DEF Places
  <2>2. p[1] = s /\ p[2] = c
    BY <2>1
  <2>3. CASE s = recipe.site
    BY <1>6, <1>7, <1>8, <2>1, <2>2, <2>3
  <2>4. CASE s # recipe.site
    BY <1>4, <1>6, <1>7, <2>1, <2>2, <2>4
  <2> QED
    BY <2>3, <2>4
<1>10. \A s \in SiteIds : run'.labor[s] >= 0
  <2>1. Times(recipe.labor, n) \in Nat
    BY <1>3, <1>5, TimesNat
  <2> QED
    BY <1>3, <1>4, <1>5, <1>6, <2>1
<1> QED
  BY <1>6, <1>9, <1>10 DEF Covered

LEMMA DispatchCovers ==
  ASSUME FlowInv, Covered, run # Idle, NEW order \in run.shipments, Dispatch(order)
  PROVE  Covered'
<1> DEFINE route == Routes[order.route]
           place == <<route.origin, route.commodity>>
           q == Dispatched(run, order)
<1>1. TypeOK /\ run \in Run /\ RunInv
  BY DEF FlowInv, TypeOK
<1>2. order.route \in DOMAIN Routes /\ order.quantity \in Nat
  BY <1>1 DEF RunInv, Ordered
<1>3. place \in Places /\ q \in Nat /\ (q = 0 \/ q <= Available(run, place))
  BY <1>1, <1>2, DispatchedFacts DEF RunInv
<1>4. /\ run'.stock = [run.stock EXCEPT ![place] = @ - q]
      /\ run'.labor = run.labor /\ run'.served = run.served
  BY <1>1, DispatchFields
<1>5. snap' = snap
  BY DEF Dispatch
<1>6. /\ run.stock \in [Places -> Int] /\ snap.reserved \in [Places -> Nat]
      /\ \A p \in Places : run.stock[p] >= snap.reserved[p]
      /\ Available(run, place) = run.stock[place] - snap.reserved[place]
  BY <1>1 DEF TypeOK, Run, Snapshot, Covered, Available
<1> HIDE DEF q, place
<1>7. \A p \in Places : run'.stock[p] >= snap'.reserved[p]
  BY <1>3, <1>4, <1>5, <1>6
<1> QED
  BY <1>4, <1>7 DEF Covered

LEMMA ConsumeCovers ==
  ASSUME FlowInv, Covered, run # Idle, NEW need \in run.needs, Consume(need)
  PROVE  Covered'
<1> DEFINE q == Min({need.quantity, Available(run, need.place)})
           new == [need |-> need, got |-> q]
<1>1. TypeOK /\ run \in Run
  BY DEF FlowInv, TypeOK
<1>2. /\ need.place \in Places /\ need.quantity \in Nat \ {0}
      /\ q \in Int /\ q <= Available(run, need.place)
      /\ q = need.quantity \/ q = Available(run, need.place)
  BY <1>1, ConsumedFacts
<1>3. /\ run'.stock = [run.stock EXCEPT ![need.place] = @ - q]
      /\ run'.labor = run.labor /\ run'.served = run.served \cup {new}
  BY <1>1, ConsumeFields
<1>4. snap' = snap /\ new.got = q
  BY DEF Consume
<1>5. /\ run.stock \in [Places -> Int] /\ snap.reserved \in [Places -> Nat]
      /\ \A p \in Places : run.stock[p] >= snap.reserved[p]
      /\ Available(run, need.place) = run.stock[need.place] - snap.reserved[need.place]
      /\ \A a \in run.served : a.got >= 0
  BY <1>1 DEF TypeOK, Run, Snapshot, Covered, Available
<1> HIDE DEF q, new
<1>6. \A p \in Places : run'.stock[p] >= snap'.reserved[p]
  BY <1>2, <1>3, <1>4, <1>5
<1>7. q >= 0
  BY <1>2, <1>5
<1>8. \A a \in run'.served : a.got >= 0
  BY <1>3, <1>4, <1>5, <1>7
<1> QED
  BY <1>3, <1>6, <1>8 DEF Covered

(* A run that has not overdrawn anything passes the closing checks. *)
LEMMA ChecksHold ==
  ASSUME FlowInv, Covered, run # Idle
  PROVE  Checks
<1>1. TypeOK /\ run \in Run /\ RunInv
  BY DEF FlowInv, TypeOK
<1>2. StockChecks
  <2>1. /\ run.stock \in [Places -> Int] /\ snap.reserved \in [Places -> Nat]
        /\ \A p \in Places : run.stock[p] >= snap.reserved[p]
    BY <1>1 DEF TypeOK, Run, Snapshot, Covered
  <2> QED
    BY <2>1 DEF StockChecks
<1>3. CapacityChecks
  BY <1>1 DEF Covered, RunInv, WithinRoutes, CapacityChecks
<1>4. SnapshotChecks
  BY <1>1 DEF RunInv, Priced, UnderWay, SnapshotChecks
<1>5. ConservationCheck
  BY <1>1 DEF RunInv
<1> QED
  BY <1>2, <1>3, <1>4, <1>5 DEF Checks

LEMMA CoveredNext ==
  ASSUME ExactRecipes, FlowInv, Covered /\ NeverDiscarded, [Next]_vars
  PROVE  Covered' /\ NeverDiscarded'
<1>1. ASSUME NEW plan \in Plans, Begin(plan) PROVE Covered' /\ NeverDiscarded'
  <2>1. \A p \in Places : run'.stock[p] >= snap.reserved[p]
    BY <1>1, BeginKeeps
  <2>2. run'.labor = Sites /\ run'.served = {}
    BY <1>1, BeginFields
  <2>3. snap' = snap /\ outcome' = outcome /\ \A s \in SiteIds : Sites[s] \in Nat
    BY <1>1, SiteFacts DEF Begin
  <2>4. \A s \in SiteIds : run'.labor[s] >= 0
    BY <2>2, <2>3
  <2> QED
    BY <2>1, <2>2, <2>3, <2>4 DEF Covered, NeverDiscarded
<1>2. ASSUME run # Idle, NEW o \in run.production, Produce(o)
      PROVE  Covered' /\ NeverDiscarded'
  <2>1. Covered'
    BY <1>2, ProduceCovers
  <2> QED
    BY <1>2, <2>1 DEF Produce, NeverDiscarded
<1>3. ASSUME run # Idle, NEW o \in run.shipments, Dispatch(o)
      PROVE  Covered' /\ NeverDiscarded'
  <2>1. Covered'
    BY <1>3, DispatchCovers
  <2> QED
    BY <1>3, <2>1 DEF Dispatch, NeverDiscarded
<1>4. ASSUME run # Idle, NEW n \in run.needs, Consume(n)
      PROVE  Covered' /\ NeverDiscarded'
  <2>1. Covered'
    BY <1>4, ConsumeCovers
  <2> QED
    BY <1>4, <2>1 DEF Consume, NeverDiscarded
<1>5. ASSUME run # Idle, Seal PROVE Covered' /\ NeverDiscarded'
  BY <1>5 DEF Seal, Covered, NeverDiscarded
<1>6. ASSUME run # Idle, Discard PROVE FALSE
  BY <1>6, ChecksHold DEF Discard
<1>7. CASE UNCHANGED vars
  BY <1>7 DEF vars, Covered, NeverDiscarded
<1> QED
  BY <1>1, <1>2, <1>3, <1>4, <1>5, <1>6, <1>7 DEF Next

LEMMA CoveredAlways ==
  ASSUME ExactRecipes
  PROVE  Spec => [](Covered /\ NeverDiscarded)
<1>1. Init => Covered /\ NeverDiscarded
  BY DEF Init, Covered, NeverDiscarded
<1>2. FlowInv /\ (Covered /\ NeverDiscarded) /\ [Next]_vars => (Covered /\ NeverDiscarded)'
  BY CoveredNext
<1> QED
  BY <1>1, <1>2, FlowInvariant, PTL DEF Spec

(* Where no quotient has to be rounded, no recipe, shipment or need ever takes  *)
(* what is reserved or not there (stockflow.py:752-776, 797-801, 842-845).      *)
THEOREM NothingOverdrawn ==
  ASSUME ExactRecipes
  PROVE  Spec => []NeverOverdrawn
<1>1. FlowInv /\ (Covered /\ NeverDiscarded) => NeverOverdrawn
  BY DEF FlowInv, Covered, NeverOverdrawn
<1> QED
  BY <1>1, CoveredAlways, FlowInvariant, PTL

(* Then the closing checks of a month never trip (stockflow.py:861-891).        *)
THEOREM NothingDiscarded ==
  ASSUME ExactRecipes
  PROVE  Spec => []NeverDiscarded
BY CoveredAlways, PTL

(* And a need gets something only when all before it were met, and never less   *)
(* than nothing (stockflow.py:838-859).                                         *)
THEOREM ServedByRank ==
  ASSUME ExactRecipes
  PROVE  Spec => []NeedsServedInOrder
<1>1. FlowInv /\ (Covered /\ NeverDiscarded) => NeedsServedInOrder
  BY DEF FlowInv, RunInv, Ranked, Covered, NeedsServedInOrder
<1> QED
  BY <1>1, CoveredAlways, FlowInvariant, PTL
=============================================================================
