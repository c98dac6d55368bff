------------------------ MODULE RegionalMonthProofs -------------------------
(***************************************************************************)
(* The regional month, for any accepted scenario: goods are neither made   *)
(* nor lost on the way through the four adapters, exports leave local      *)
(* needs alone, nothing is sold twice, and the books follow the goods.     *)
(***************************************************************************)
EXTENDS RegionalScenario, SumTheorems
-----------------------------------------------------------------------------
\* What the month has come to, by its stages.
Stages == {"roll", "produce", "storage", "handling", "market",
           "local", "finance", "books", "closed"}
Making == {"roll", "produce"}
Early == Making \cup {"storage", "handling"}

\* Receipts and dispatches as they are, the sales' offers apart.
SomeDemand == (DOMAIN Demands) \cup {Nil}
SomeRoute == (DOMAIN Routes) \cup {Nil}
SomeOffer == Nat \cup {Nil}
Status == {"delivered", "in_transit"}
Receipt == [demand : SomeDemand, offer : SomeOffer, seller : Businesses, buyer : Businesses,
            route : SomeRoute, carrier : Businesses \cup {Nil}, good : Goods,
            quantity : Int, lost : Int, value : Int, carriage : Int, status : Status]
Order == [demand : DOMAIN Demands, offer : DOMAIN offers, route : DOMAIN Routes,
          quantity : Nat \ {0}]
\* A dispatch takes an offer's goods from its place to the demand's.
Fits(order) == /\ From(order.route) = offers[order.offer].place
               /\ To(order.route) = Place(order.demand)

\* A stock is of whole numbers of units, or Unknown.
Amounts == Int \cup {Unknown}
Stocks(stock, values) == DOMAIN stock \subseteq Places /\ stock \in [DOMAIN stock -> values]

TypeOK ==
  /\ stage \in Stages
  /\ Stocks(lots, Amounts) /\ Stocks(opened, Amounts)
  /\ made \in Seq(Nat) /\ DOMAIN made \subseteq DOMAIN Recipes
  /\ days \in [DOMAIN Pools -> Int]
  /\ stage = "produce" => orders \in [DOMAIN Recipes -> Int]
  /\ wages \in [Businesses -> Int] /\ spoiled \in [Goods -> Int]
  /\ offers \in Seq(SupplyOffer) /\ at \in Nat
  /\ plan \in Seq(Order) /\ trades \in Seq(Receipt)
  /\ served \in [DOMAIN Demands -> Nat]

\* What has not happened yet, and what is known of the stock by then.
ByStage ==
  /\ stage \in Making \cup {"storage"} => \A g \in Goods : spoiled[g] = 0
  /\ stage \notin Making => Stocks(lots, Nat \cup {Unknown})
  /\ stage \notin Early => Stocks(lots, Nat)
  /\ stage \in Early => plan = <<>>
  /\ ~AfterMarket => /\ \A d \in DOMAIN Demands : served[d] = 0
                     /\ \A i \in DOMAIN trades : trades[i].offer = Nil /\ trades[i].route # Nil
  /\ \A i \in DOMAIN plan : Fits(plan[i])

\* While exports are planned: no offer, route or demand is given too much.
WithinBudgets ==
  stage = "market" =>
    /\ \A o \in DOMAIN offers : BudgetLeft(o) >= 0
    /\ \A r \in DOMAIN Routes : RoomLeft(r) >= 0
    /\ \A d \in DOMAIN Demands : Sum(Sent, SentFor(d)) <= Shortage(Held, d)

\* Once they are under way: what is sold and what still may be is in stock.
StillForSale(p) == Sum([d \in DOMAIN Demands |-> Remaining(d)], DemandsAt(p))
SalesHold ==
  AfterMarket =>
    /\ \A i \in DOMAIN trades : trades[i].offer # Nil => trades[i].offer \in DOMAIN offers
    /\ \A d \in DOMAIN Demands : Remaining(d) >= 0
    /\ \A p \in Places : Sum(Sold, SoldAt(p)) + StillForSale(p) <= Brought[p]
    /\ \A o \in DOMAIN offers : Sum(Sold, SoldFrom(o)) <= offers[o].quantity
    /\ \A d \in DOMAIN Demands : served[d] + Sum(Sent, SentFor(d)) <= Demands[d].quantity

GoodsInv == TypeOK /\ ByStage /\ GoodsConserved /\ WithinBudgets
            /\ LocalNeedsUnharmed /\ SalesHold

\* What a business's accounts hold once the trades outside the list are booked.
Booked == SettledTrades \ script.trades
Books(e) ==
  /\ bal[<<e, "sales_revenue", Finance!None>>] = -Sum(EarnedBy(e), Booked)
  /\ bal[<<e, "transport_revenue", Finance!None>>] = -Sum(CarriedBy(e), Booked)
  /\ bal[<<e, "purchase_expense", Finance!None>>] \in Int
  /\ bal[Finance!Inventory(e)] \in Int
  /\ bal[<<e, "purchase_expense", Finance!None>>] + bal[Finance!Inventory(e)]
       = Opening[Finance!Inventory(e)] + Sum(BoughtBy(e), Booked)
  /\ bal[<<e, "payroll_expense", Finance!None>>] = IF e \in script.payroll THEN 0 ELSE wages[e]
Unbooked(e) ==
  /\ bal[<<e, "sales_revenue", Finance!None>>] = 0
  /\ bal[<<e, "transport_revenue", Finance!None>>] = 0
  /\ bal[<<e, "purchase_expense", Finance!None>>] = 0
  /\ bal[Finance!Inventory(e)] = Opening[Finance!Inventory(e)]
  /\ bal[<<e, "payroll_expense", Finance!None>>] = 0
BooksInv ==
  /\ stage \notin {"books", "closed"} => \A e \in Businesses : Unbooked(e)
  /\ stage \in {"books", "closed"} =>
       /\ script.trades \subseteq SettledTrades /\ script.payroll \subseteq Businesses
       /\ script = [payroll |-> script.payroll, trades |-> script.trades,
                    preview |-> script.preview]
       /\ \A e \in Businesses : Books(e)
  /\ stage = "closed" => script = NoEvents
-----------------------------------------------------------------------------
(* What is known of the scenario. *)
LEMMA PlaceFacts ==
  /\ IsFiniteSet(Sites) /\ IsFiniteSet(Goods) /\ IsFiniteSet(Places)
  /\ \A g \in Goods :
       /\ PlacesOf(g) \subseteq Places /\ IsFiniteSet(PlacesOf(g))
       /\ \A p \in Places : p \in PlacesOf(g) <=> p[2] = g
<1>1. IsFiniteSet(Sites) /\ IsFiniteSet(Goods)
  BY ProductionAssumption
<1>2. IsFiniteSet(Places)
  BY <1>1, FS_Product DEF Places
<1>3. \A g \in Goods : PlacesOf(g) \subseteq Places
                        /\ \A p \in Places : p \in PlacesOf(g) <=> p[2] = g
  BY DEF Places, PlacesOf
<1>4. \A g \in Goods : IsFiniteSet(PlacesOf(g))
  BY <1>2, <1>3, FS_Subset
<1> QED
  BY <1>1, <1>2, <1>3, <1>4

LEMMA RecipeFacts ==
  ASSUME NEW i \in DOMAIN Recipes
  PROVE  /\ Recipes[i].site \in Sites /\ Recipes[i].pool \in DOMAIN Pools
         /\ DOMAIN Recipes[i].inputs \subseteq Goods /\ DOMAIN Recipes[i].outputs \subseteq Goods
         /\ \A g \in DOMAIN Recipes[i].inputs : Recipes[i].inputs[g] \in Nat \ {0}
         /\ \A g \in DOMAIN Recipes[i].outputs : Recipes[i].outputs[g] \in Nat \ {0}
         /\ Recipes[i].labor \in Nat /\ Recipes[i].max \in Nat
         /\ Pools[Recipes[i].pool].wage \in Nat
BY ProductionAssumption DEF WellFormedRecipe, WellFormedPool, Quantities

LEMMA RouteFacts ==
  ASSUME NEW r \in DOMAIN Routes
  PROVE  /\ From(r) \in Places /\ To(r) \in Places /\ From(r) # To(r)
         /\ From(r)[2] = Routes[r].good /\ To(r)[2] = Routes[r].good
         /\ From(r)[1] = Routes[r].origin /\ To(r)[1] = Routes[r].destination
         /\ Routes[r].origin \in Sites /\ Routes[r].destination \in Sites
         /\ Routes[r].good \in Goods /\ Routes[r].capacity \in Nat
         /\ Routes[r].travel \in Nat /\ Routes[r].loss \in 0 .. (Scale - 1)
         /\ Routes[r].loss \in Nat /\ Scale - Routes[r].loss \in Nat \ {0}
         /\ Routes[r].cost \in Nat /\ Routes[r].carrier \in Businesses
         /\ Price[From(r)] \in Nat
<1>1. Routes[r] \in Route /\ Routes[r].origin # Routes[r].destination
  BY MarketAssumption
<1>2. /\ Routes[r].origin \in Sites /\ Routes[r].destination \in Sites
      /\ Routes[r].good \in Goods /\ Routes[r].capacity \in Nat
      /\ Routes[r].travel \in Nat /\ Routes[r].loss \in 0 .. (Scale - 1)
      /\ Routes[r].cost \in Nat /\ Routes[r].carrier \in Businesses
  BY <1>1 DEF Route
<1>3. From(r) \in Places /\ To(r) \in Places /\ From(r) # To(r)
  BY <1>1, <1>2 DEF From, To, Places
<1>4. /\ From(r)[2] = Routes[r].good /\ To(r)[2] = Routes[r].good
      /\ From(r)[1] = Routes[r].origin /\ To(r)[1] = Routes[r].destination
  BY DEF From, To
<1>5. Price[From(r)] \in Nat
  BY <1>3, MarketAssumption
<1>6. Routes[r].loss \in Nat /\ Scale - Routes[r].loss \in Nat \ {0}
  BY <1>2, ScaleAssumption
<1> QED
  BY <1>2, <1>3, <1>4, <1>5, <1>6

LEMMA DemandFacts ==
  /\ IsFiniteSet(DOMAIN Demands) /\ Len(Demands) \in Nat
  /\ DOMAIN Demands = 1 .. Len(Demands) /\ DOMAIN Wanted = DOMAIN Demands
  /\ \A d \in DOMAIN Demands :
       /\ Demands[d].site \in Sites /\ Demands[d].good \in Goods
       /\ Demands[d].buyer \in Businesses /\ Demands[d].quantity \in Nat \ {0}
       /\ Place(d) \in Places /\ Price[Place(d)] \in Nat
       /\ Place(d)[2] = Demands[d].good /\ Wanted[d] = Demands[d].quantity
       /\ Wanted[d] \in Nat
<1>1. Demands \in Seq(Demand)
  BY MarketAssumption
<1>2. Len(Demands) \in Nat /\ DOMAIN Demands = 1 .. Len(Demands)
  BY <1>1
<1>3. IsFiniteSet(DOMAIN Demands)
  <2>1. 1 \in Int /\ Len(Demands) \in Int
    BY <1>2
  <2>2. IsFiniteSet(1 .. Len(Demands))
    BY <2>1, FS_Interval
  <2> QED
    BY <1>2, <2>2
<1>4. ASSUME NEW d \in DOMAIN Demands
      PROVE  /\ Demands[d].site \in Sites /\ Demands[d].good \in Goods
             /\ Demands[d].buyer \in Businesses /\ Demands[d].quantity \in Nat \ {0}
  <2>1. Demands[d] \in Demand
    BY <1>1
  <2> QED
    BY <2>1 DEF Demand
<1>5. \A d \in DOMAIN Demands : Place(d) \in Places /\ Place(d)[2] = Demands[d].good
  BY <1>4 DEF Place, Places
<1>6. \A d \in DOMAIN Demands : Price[Place(d)] \in Nat
  BY <1>5, MarketAssumption
<1>7. DOMAIN Wanted = DOMAIN Demands
      /\ \A d \in DOMAIN Demands : Wanted[d] = Demands[d].quantity /\ Wanted[d] \in Nat
  BY <1>4 DEF Wanted
<1> QED
  BY <1>2, <1>3, <1>4, <1>5, <1>6, <1>7

LEMMA SomeDemandsFinite ==
  /\ \A p : IsFiniteSet(DemandsAt(p)) /\ DemandsAt(p) \subseteq DOMAIN Demands
  /\ \A g : IsFiniteSet(DemandsFor(g)) /\ DemandsFor(g) \subseteq DOMAIN Demands
<1>1. \A p : DemandsAt(p) \subseteq DOMAIN Demands
  BY DEF DemandsAt
<1>2. \A g : DemandsFor(g) \subseteq DOMAIN Demands
  BY DEF DemandsFor
<1> QED
  BY <1>1, <1>2, DemandFacts, FS_Subset

(* The numbers of a sequence's elements are finitely many. *)
LEMMA IndicesFinite ==
  ASSUME NEW S, NEW s \in Seq(S)
  PROVE  /\ IsFiniteSet(DOMAIN s) /\ Len(s) \in Nat /\ DOMAIN s = 1 .. Len(s)
         /\ \A T \in SUBSET DOMAIN s : IsFiniteSet(T)
         /\ \A i \in DOMAIN s : s[i] \in S
<1>1. Len(s) \in Nat /\ DOMAIN s = 1 .. Len(s) /\ \A i \in DOMAIN s : s[i] \in S
  OBVIOUS
<1>2. 1 \in Int /\ Len(s) \in Int
  BY <1>1
<1>3. IsFiniteSet(DOMAIN s)
  <2>1. IsFiniteSet(1 .. Len(s))
    BY <1>2, FS_Interval
  <2> QED
    BY <1>1, <2>1
<1> QED
  BY <1>1, <1>3, FS_Subset
-----------------------------------------------------------------------------
(* Stocks: what is known of them, and what of a good is in them all. *)
LEMMA KnownFacts ==
  ASSUME NEW stock, Stocks(stock, Amounts)
  PROVE  /\ \A p \in Places : Known(stock)[p] \in Int
         /\ \A p \in DOMAIN stock : stock[p] # Unknown => Known(stock)[p] = stock[p]
         /\ \A p \in DOMAIN stock : stock[p] = Unknown => Known(stock)[p] = 0
         /\ \A p \in Places \ DOMAIN stock : Known(stock)[p] = 0
BY DEF Known, Stocks, Amounts

LEMMA TotalType ==
  ASSUME NEW stock, Stocks(stock, Amounts), NEW g \in Goods
  PROVE  TotalOf(stock, g) \in Int
<1>1. \A p \in PlacesOf(g) : Known(stock)[p] \in Int
  BY KnownFacts, PlaceFacts
<1> QED
  BY <1>1, PlaceFacts, SumType DEF TotalOf

LEMMA TotalChange ==
  ASSUME NEW old, NEW new, Stocks(old, Amounts), NEW D, NEW g \in Goods,
         \A p \in PlacesOf(g) : D[p] \in Int /\ Known(new)[p] = Known(old)[p] + D[p]
  PROVE  /\ TotalOf(new, g) = TotalOf(old, g) + Sum(D, PlacesOf(g))
         /\ TotalOf(old, g) \in Int /\ TotalOf(new, g) \in Int
<1> DEFINE S == PlacesOf(g)
           F == Known(old)
           H == Known(new)
<1>1. IsFiniteSet(S) /\ \A p \in S : F[p] \in Int /\ D[p] \in Int /\ H[p] = F[p] + D[p]
  BY PlaceFacts, KnownFacts
<1> HIDE DEF F, H, S
<1>2. Sum(H, S) = Sum(F, S) + Sum(D, S)
  BY <1>1, SumPlus
<1>3. Sum(F, S) \in Int /\ Sum(D, S) \in Int
  BY <1>1, SumType
<1> QED
  BY <1>2, <1>3 DEF F, H, S, TotalOf
-----------------------------------------------------------------------------
(* Production.                                                              *)

(* Only where a month is made, stored and handled does the market not bind. *)
LEMMA EarlyFacts ==
  ASSUME stage \in Early
  PROVE  stage # "market" /\ ~AfterMarket
BY DEF Early, Making, AfterMarket

(* A batch uses up and makes whole numbers of units. *)
LEMMA BatchTypes ==
  ASSUME NEW i \in DOMAIN Recipes, NEW n \in Nat, NEW g
  PROVE  Used(i, n, g) \in Int /\ Yield(i, n, g) \in Int /\ Worked(i, n) \in Int
<1>1. /\ g \in DOMAIN Recipes[i].inputs => Recipes[i].inputs[g] \in Int
      /\ g \in DOMAIN Recipes[i].outputs => Recipes[i].outputs[g] \in Int
      /\ Recipes[i].labor \in Int /\ n \in Int
  BY RecipeFacts
<1>0. \A x \in Int : Times(x, n) \in Int
  BY <1>1, TimesType
<1>2. Used(i, n, g) \in Int
  BY <1>0, <1>1 DEF Used
<1>3. Yield(i, n, g) \in Int
  BY <1>0, <1>1 DEF Yield
<1>4. Worked(i, n) \in Int
  BY <1>1, TimesType DEF Worked
<1> QED
  BY <1>2, <1>3, <1>4

(* The places a recipe touches hold known stocks. *)
LEMMA TouchedFacts ==
  ASSUME TypeOK, Executable, NEW i \in DOMAIN Recipes,
         NEW g \in DOMAIN Recipes[i].inputs \cup DOMAIN Recipes[i].outputs
  PROVE  /\ <<Recipes[i].site, g>> \in Places
         /\ Stock(<<Recipes[i].site, g>>) \in Int
         /\ Known(lots)[<<Recipes[i].site, g>>] = Stock(<<Recipes[i].site, g>>)
<1> DEFINE p == <<Recipes[i].site, g>>
<1>1. p \in Places
  BY RecipeFacts DEF Places
<1>2. p \in DOMAIN lots => lots[p] # Unknown
  BY Zenon DEF Executable
<1>3. p \in DOMAIN lots => lots[p] \in Int
  <2>1. p \in DOMAIN lots => lots[p] \in Int \cup {Unknown}
    BY DEF TypeOK, Stocks, Amounts
  <2> QED
    BY <1>2, <2>1
<1> HIDE DEF p
<1>4. Stock(p) \in Int /\ Known(lots)[p] = Stock(p)
  BY <1>1, <1>2, <1>3 DEF Stock, Known
<1> QED
  BY <1>1, <1>4 DEF p

LEMMA BatchesType ==
  ASSUME TypeOK, stage = "produce", Executable, NEW i \in DOMAIN Recipes
  PROVE  Batches(i) \in Nat
<1> DEFINE recipe == Recipes[i]
           quotient == [g \in DOMAIN recipe.inputs |->
                          Over(Stock(<<recipe.site, g>>), recipe.inputs[g])]
           byInput == {quotient[g] : g \in DOMAIN recipe.inputs}
           byLabor == IF recipe.labor = 0 THEN {} ELSE {Over(days[recipe.pool], recipe.labor)}
           all == {orders[i], recipe.max} \cup byInput \cup byLabor
<1>1. \A g \in DOMAIN recipe.inputs : quotient[g] \in Int
  <2> SUFFICES ASSUME NEW g \in DOMAIN recipe.inputs PROVE quotient[g] \in Int
    OBVIOUS
  <2>1. Stock(<<recipe.site, g>>) \in Int /\ recipe.inputs[g] \in Nat \ {0}
    BY TouchedFacts, RecipeFacts
  <2> QED
    BY <2>1, OverType
<1>2. IsFiniteSet(byInput)
  <2> DEFINE D == DOMAIN recipe.inputs
  <2>1. IsFiniteSet(D)
    BY RecipeFacts, PlaceFacts, FS_Subset
  <2>2. byInput = {quotient[g] : g \in D}
    OBVIOUS
  <2> HIDE DEF quotient, D, byInput
  <2> QED
    BY <2>1, <2>2, FiniteImage
<1>3. IsFiniteSet(byLabor) /\ byLabor \subseteq Int
  <2>1. recipe.labor # 0 => Over(days[recipe.pool], recipe.labor) \in Int
    <3>1. days[recipe.pool] \in Int /\ recipe.labor \in Nat
      BY RecipeFacts DEF TypeOK
    <3> QED
      BY <3>1, OverType
  <2> QED
    BY <2>1, FS_EmptySet, FS_Singleton
<1>4. orders[i] \in Int /\ recipe.max \in Int
  BY RecipeFacts DEF TypeOK
<1>5. IsFiniteSet({orders[i], recipe.max})
  <2>1. {orders[i], recipe.max} = {orders[i]} \cup {recipe.max}
    OBVIOUS
  <2>2. IsFiniteSet({orders[i]} \cup {recipe.max})
    BY FS_Singleton, FS_Union, Zenon
  <2> QED
    BY <2>1, <2>2, Zenon
<1>6. all \in SUBSET Int /\ all # {} /\ IsFiniteSet(all)
  <2>1. all # {} /\ all \subseteq Int
    BY <1>1, <1>3, <1>4
  <2> HIDE DEF byInput, byLabor
  <2>2. IsFiniteSet({orders[i], recipe.max} \cup byInput)
    BY <1>2, <1>5, FS_Union
  <2>3. IsFiniteSet(all)
    BY <1>3, <2>2, FS_Union
  <2> QED
    BY <2>1, <2>3
<1>7. Batches(i) = Larger(0, Min(all))
  <2>1. byInput = {Over(Stock(<<recipe.site, g>>), recipe.inputs[g]) :
                     g \in DOMAIN recipe.inputs}
    OBVIOUS
  <2> HIDE DEF byInput
  <2> QED
    BY <2>1 DEF Batches
<1> HIDE DEF all
<1>8. Min(all) \in Int
  BY <1>6, MinOf
<1> QED
  BY <1>7, <1>8 DEF Larger
(* Before the market there is nothing to say of it. *)
LEMMA NothingSoldYet ==
  ASSUME stage' \in Early
  PROVE  WithinBudgets' /\ LocalNeedsUnharmed' /\ SalesHold'
<1>1. stage' # "market" /\ ~AfterMarket'
  BY DEF Early, Making, AfterMarket
<1> QED
  BY <1>1 DEF WithinBudgets, LocalNeedsUnharmed, SalesHold

LEMMA ProduceStock ==
  ASSUME TypeOK, Produce, NEW i, i = Len(made) + 1, NEW n, n = Batches(i)
  PROVE  /\ i \in DOMAIN Recipes /\ n \in Nat
         /\ Stocks(lots', Amounts)
         /\ \A g \in Goods :
              TotalOf(lots', g) = TotalOf(lots, g) + (Yield(i, n, g) - Used(i, n, g))
         /\ \A g \in Goods : TotalOf(lots, g) \in Int
<1> DEFINE site == Recipes[i].site
           goods == DOMAIN Recipes[i].inputs \cup DOMAIN Recipes[i].outputs
           touched == {site} \X goods
<1>1. /\ i \in DOMAIN Recipes /\ stage = "produce" /\ Executable
      /\ lots' = [p \in DOMAIN lots \cup touched |->
                    IF p \in touched THEN Stock(p) - Used(i, n, p[2]) + Yield(i, n, p[2])
                    ELSE lots[p]]
  BY DEF Produce, Closing
<1>2. n \in Nat
  BY <1>1, BatchesType
<1>3. \A g : Used(i, n, g) \in Int /\ Yield(i, n, g) \in Int
  BY <1>1, <1>2, BatchTypes
<1>4. \A p \in touched : p \in Places /\ Stock(p) \in Int /\ Known(lots)[p] = Stock(p)
                           /\ p = <<site, p[2]>> /\ p[2] \in goods
  <2> SUFFICES ASSUME NEW p \in touched
               PROVE  p \in Places /\ Stock(p) \in Int /\ Known(lots)[p] = Stock(p)
                        /\ p = <<site, p[2]>> /\ p[2] \in goods
    OBVIOUS
  <2>1. p = <<site, p[2]>> /\ p[2] \in goods
    OBVIOUS
  <2> QED
    BY <1>1, <2>1, TouchedFacts
<1>5. DOMAIN lots \subseteq Places /\ \A p \in DOMAIN lots : lots[p] \in Int \cup {Unknown}
  BY DEF TypeOK, Stocks, Amounts
<1> HIDE DEF touched
<1>6. /\ DOMAIN lots' = DOMAIN lots \cup touched
      /\ lots' = [p \in DOMAIN lots' |-> lots'[p]]
      /\ \A p \in touched : lots'[p] = Stock(p) - Used(i, n, p[2]) + Yield(i, n, p[2])
      /\ \A p \in DOMAIN lots \ touched : lots'[p] = lots[p]
  BY <1>1
<1>7. \A p \in touched : lots'[p] \in Int /\ lots'[p] # Unknown
  <2>1. \A p \in touched : lots'[p] \in Int
    BY <1>3, <1>4, <1>6
  <2> QED
    BY <2>1, ProductionAssumption
<1>8. Stocks(lots', Amounts)
  BY <1>4, <1>5, <1>6, <1>7 DEF Stocks, Amounts
<1>9. ASSUME NEW g \in Goods
      PROVE  /\ TotalOf(lots', g) = TotalOf(lots, g) + (Yield(i, n, g) - Used(i, n, g))
             /\ TotalOf(lots, g) \in Int
  <2> DEFINE c == Yield(i, n, g) - Used(i, n, g)
             here == <<site, g>>
             D == [p \in PlacesOf(g) |-> IF p = here THEN c ELSE 0]
             S == PlacesOf(g)
  <2>1. c \in Int
    BY <1>3
  <2>2. here \in S
    BY <1>1, RecipeFacts DEF PlacesOf
  <2>3. \A p \in S : p \in touched <=> p = here /\ g \in goods
    <3>1. \A p \in S : p \in touched => p = here /\ g \in goods
      BY <1>4, PlaceFacts
    <3>2. g \in goods => here \in touched
      BY DEF touched
    <3> QED
      BY <3>1, <3>2
  <2>4. g \notin goods => c = 0
    BY DEF Yield, Used
  <2>5. ASSUME NEW p \in S
        PROVE  D[p] \in Int /\ Known(lots')[p] = Known(lots)[p] + D[p]
    <3>1. p \in Places /\ p[2] = g
      BY PlaceFacts
    <3>2. CASE p \in touched
      <4>1. Known(lots')[p] = lots'[p] /\ Known(lots)[p] = Stock(p) /\ Stock(p) \in Int
        BY <1>4, <1>6, <1>7, <3>1, <3>2 DEF Known
      <4>2. D[p] = c
        BY <2>3, <3>2
      <4>3. lots'[p] = Stock(p) - Used(i, n, g) + Yield(i, n, g)
        BY <1>6, <3>1, <3>2
      <4> HIDE DEF D
      <4> QED
        BY <1>3, <2>1, <4>1, <4>2, <4>3
    <3>3. CASE p \notin touched
      <4>1. Known(lots')[p] = Known(lots)[p]
        BY <1>6, <3>1, <3>3 DEF Known
      <4>2. D[p] = 0
        BY <2>3, <2>4, <3>3
      <4>3. Known(lots)[p] \in Int
        BY <3>1, KnownFacts DEF TypeOK
      <4> QED
        BY <4>1, <4>2, <4>3
    <3> QED
      BY <3>2, <3>3
  <2>6. Sum(D, S) = c
    <3>1. \A p \in S : D[p] = IF p = here THEN c ELSE 0
      OBVIOUS
    <3>2. IsFiniteSet(S)
      BY PlaceFacts
    <3> HIDE DEF D, c, here, S
    <3>3. Sum(D, S) = IF here \in S THEN c ELSE 0
      BY <2>1, <3>1, <3>2, SumPoint
    <3> QED
      BY <2>2, <3>3
  <2> HIDE DEF D, c
  <2>7. TotalOf(lots', g) = TotalOf(lots, g) + Sum(D, S) /\ TotalOf(lots, g) \in Int
    <3> DEFINE new == lots'
    <3>1. Stocks(lots, Amounts)
      BY DEF TypeOK
    <3>2. \A p \in S : D[p] \in Int /\ Known(new)[p] = Known(lots)[p] + D[p]
      BY <2>5
    <3> HIDE DEF new
    <3>3. TotalOf(new, g) = TotalOf(lots, g) + Sum(D, S) /\ TotalOf(lots, g) \in Int
      BY <3>1, <3>2, TotalChange
    <3> QED
      BY <3>3 DEF new
  <2> QED
    BY <2>6, <2>7 DEF c
<1> QED
  BY <1>1, <1>2, <1>8, <1>9

(* The terms of the account of a good are numbers. *)
LEMMA TermTypes ==
  ASSUME TypeOK, NEW g \in Goods
  PROVE  /\ Sum(Gains(g), DOMAIN made) \in Int /\ Sum(Losses(g), DOMAIN trades) \in Int
         /\ Sum(served, DemandsFor(g)) \in Nat /\ spoiled[g] \in Int
         /\ TotalOf(lots, g) \in Int
         /\ made \in Seq(Nat) => \A i \in DOMAIN made : made[i] \in Nat
         /\ \A i \in DOMAIN trades : Losses(g)[i] \in Int
<1>1. /\ spoiled[g] \in Int /\ made \in Seq(Nat) /\ trades \in Seq(Receipt)
      /\ served \in [DOMAIN Demands -> Nat] /\ Stocks(lots, Amounts)
  BY DEF TypeOK
<1>2. IsFiniteSet(DOMAIN made) /\ IsFiniteSet(DOMAIN trades)
  BY <1>1, IndicesFinite
<1>3. ASSUME NEW i \in DOMAIN trades PROVE Losses(g)[i] \in Int
  <2>1. trades[i] \in Receipt
    BY <1>1
  <2>2. trades[i].quantity \in Int /\ trades[i].lost \in Int
    BY <2>1 DEF Receipt
  <2> QED
    BY <2>2 DEF Losses
<1>4. Sum(Losses(g), DOMAIN trades) \in Int
  BY <1>2, <1>3, SumType
<1>5. Sum(served, DemandsFor(g)) \in Nat
  <2>1. \A d \in DemandsFor(g) : served[d] \in Nat
    BY <1>1 DEF DemandsFor
  <2> QED
    BY <2>1, SomeDemandsFinite, SumNat
<1>6. TotalOf(lots, g) \in Int
  BY <1>1, TotalType
<1>7. Sum(Gains(g), DOMAIN made) \in Int
  <2>1. \A i \in DOMAIN made : Gains(g)[i] \in Int
    <3> SUFFICES ASSUME NEW i \in DOMAIN made PROVE Gains(g)[i] \in Int
      OBVIOUS
    <3>1. made[i] \in Nat /\ i \in DOMAIN Recipes
      BY <1>1 DEF TypeOK
    <3>2. Yield(i, made[i], g) \in Int /\ Used(i, made[i], g) \in Int
      BY <3>1, BatchTypes
    <3> QED
      BY <3>2 DEF Gains
  <2> QED
    BY <1>2, <2>1, SumType
<1> QED
  BY <1>1, <1>3, <1>4, <1>5, <1>6, <1>7

(* What is gained is in stock, spoiled, lost, under way or consumed.        *)
LEMMA AccountMoves ==
  ASSUME TypeOK, GoodsConserved, opened' = opened, NEW g \in Goods,
         NEW m \in Int, NEW s \in Int, NEW l \in Int, NEW c \in Int,
         Sum(Gains(g), DOMAIN made)' = Sum(Gains(g), DOMAIN made) + m,
         spoiled'[g] = spoiled[g] + s,
         Sum(Losses(g), DOMAIN trades)' = Sum(Losses(g), DOMAIN trades) + l,
         Sum(served, DemandsFor(g))' = Sum(served, DemandsFor(g)) + c,
         TotalOf(lots, g)' = TotalOf(lots, g) + m - s - l - c
  PROVE  TotalOf(opened, g)' + Sum(Gains(g), DOMAIN made)'
           = TotalOf(lots, g)' + spoiled[g]' + Sum(Losses(g), DOMAIN trades)'
             + Sum(served, DemandsFor(g))'
<1> DEFINE o == TotalOf(opened, g)
           t == TotalOf(lots, g)
           G == Sum(Gains(g), DOMAIN made)
           L == Sum(Losses(g), DOMAIN trades)
           C == Sum(served, DemandsFor(g))
<1>1. G \in Int /\ L \in Int /\ C \in Int /\ spoiled[g] \in Int /\ t \in Int
  BY TermTypes
<1>2. o \in Int
  <2>1. Stocks(opened, Amounts)
    BY DEF TypeOK
  <2> QED
    BY <2>1, TotalType
<1>3. o + G = t + spoiled[g] + L + C
  BY DEF GoodsConserved
<1>4. TotalOf(opened, g)' = o /\ TotalOf(lots, g)' = t + m - s - l - c
      /\ Sum(Gains(g), DOMAIN made)' = G + m /\ Sum(Losses(g), DOMAIN trades)' = L + l
      /\ Sum(served, DemandsFor(g))' = C + c
  BY DEF TotalOf
<1> HIDE DEF o, t, G, L, C
<1>5. o + (G + m) = (t + m - s - l - c) + (spoiled[g] + s) + (L + l) + (C + c)
  BY <1>1, <1>2, <1>3
<1> QED
  BY <1>4, <1>5

LEMMA ProduceKeeps ==
  ASSUME GoodsInv, Produce, UNCHANGED <<marketVars, opened>>
  PROVE  GoodsInv'
<1> DEFINE i == Len(made) + 1
           n == Batches(i)
<1>0. TypeOK /\ ByStage /\ GoodsConserved
  BY DEF GoodsInv
<1>1. /\ stage = "produce" /\ stage' = stage /\ i \in DOMAIN Recipes /\ orders' = orders
      /\ made' = Append(made, n) /\ wages' = wages /\ opened' = opened
      /\ days' = [days EXCEPT ![Recipes[i].pool] = @ - Worked(i, n)]
      /\ spoiled' = spoiled /\ offers' = offers /\ at' = at /\ plan' = plan
      /\ trades' = trades /\ served' = served
  BY DEF Produce, marketVars
<1>2. /\ n \in Nat /\ Stocks(lots', Amounts)
      /\ \A g \in Goods : /\ TotalOf(lots', g)
                               = TotalOf(lots, g) + (Yield(i, n, g) - Used(i, n, g))
                          /\ TotalOf(lots, g) \in Int
  <2> DEFINE ii == i
             nn == n
  <2>1. ii = Len(made) + 1 /\ nn = Batches(ii)
    OBVIOUS
  <2> HIDE DEF ii, nn, n
  <2>2. /\ nn \in Nat /\ Stocks(lots', Amounts)
        /\ \A g \in Goods : /\ TotalOf(lots', g)
                                 = TotalOf(lots, g) + (Yield(ii, nn, g) - Used(ii, nn, g))
                            /\ TotalOf(lots, g) \in Int
    BY <1>0, <2>1, ProduceStock
  <2> QED
    BY <2>2 DEF ii, nn
<1>3. /\ made \in Seq(Nat) /\ DOMAIN made = 1 .. Len(made) /\ Len(made) \in Nat
      /\ DOMAIN made \subseteq DOMAIN Recipes
  BY <1>0 DEF TypeOK
<1> HIDE DEF n
<1>4. /\ made' \in Seq(Nat) /\ DOMAIN made' = DOMAIN made \cup {i} /\ i \notin DOMAIN made
      /\ made'[i] = n /\ \A k \in DOMAIN made : made'[k] = made[k]
  BY <1>1, <1>2, <1>3
<1> HIDE DEF i
<1>5. days' \in [DOMAIN Pools -> Int]
  <2>1. Worked(i, n) \in Int
    BY <1>1, <1>2, BatchTypes
  <2>2. days \in [DOMAIN Pools -> Int]
    BY <1>0 DEF TypeOK
  <2>3. \A p \in DOMAIN Pools : days'[p] \in Int
    <3>1. \A p \in DOMAIN Pools : days[p] \in Int /\ days[p] - Worked(i, n) \in Int
      BY <2>1, <2>2
    <3> QED
      BY <1>1, <2>2, <3>1
  <2> QED
    BY <1>1, <2>2, <2>3
<1>6. TypeOK'
  <2>1. DOMAIN made' \subseteq DOMAIN Recipes
    BY <1>1, <1>3, <1>4
  <2> QED
    BY <1>0, <1>1, <1>2, <1>4, <1>5, <2>1 DEF TypeOK, Receipt, Order
<1>7. stage' \in Early /\ stage \in Early /\ stage \in Making
  BY <1>1 DEF Early, Making
<1>8. ByStage'
  <2>1. ~AfterMarket /\ ~AfterMarket'
    BY <1>1 DEF AfterMarket
  <2> QED
    BY <1>0, <1>1, <1>7, <2>1 DEF ByStage, Fits
<1>9. ASSUME NEW g \in Goods
      PROVE  TotalOf(opened, g)' + Sum(Gains(g), DOMAIN made)'
               = TotalOf(lots, g)' + spoiled[g]' + Sum(Losses(g), DOMAIN trades)'
                 + Sum(served, DemandsFor(g))'
  <2> DEFINE F == Gains(g)
             H == Gains(g)'
             S == DOMAIN made
  <2>1. IsFiniteSet(S)
    BY <1>3, IndicesFinite
  <2>2. \A k \in S : F[k] \in Int /\ H[k] = F[k]
    <3> SUFFICES ASSUME NEW k \in S PROVE F[k] \in Int /\ H[k] = F[k]
      OBVIOUS
    <3>1. k \in DOMAIN Recipes /\ made[k] \in Nat /\ made'[k] = made[k] /\ k \in DOMAIN made'
      BY <1>3, <1>4
    <3>2. Yield(k, made[k], g) \in Int /\ Used(k, made[k], g) \in Int
      BY <3>1, BatchTypes
    <3> QED
      BY <3>1, <3>2 DEF Gains
  <2>3. H[i] = Yield(i, n, g) - Used(i, n, g) /\ H[i] \in Int
    <3>1. Yield(i, n, g) \in Int /\ Used(i, n, g) \in Int
      BY <1>1, <1>2, BatchTypes
    <3>2. H[i] = Yield(i, n, g) - Used(i, n, g)
      BY <1>4 DEF Gains
    <3> QED
      BY <3>1, <3>2
  <2> HIDE DEF F, H, S
  <2>4. Sum(H, S \cup {i}) = Sum(F, S) + H[i] /\ Sum(F, S) \in Int
    <3>1. i \notin S
      BY <1>4 DEF S
    <3> HIDE DEF i
    <3> QED
      BY <2>1, <2>2, <2>3, <3>1, SumGrown
  <2>5. Sum(Gains(g), DOMAIN made)' = Sum(Gains(g), DOMAIN made)
                                      + (Yield(i, n, g) - Used(i, n, g))
    BY <1>4, <2>3, <2>4 DEF F, H, S
  <2> DEFINE gain == Yield(i, n, g) - Used(i, n, g)
  <2>6. gain \in Int /\ 0 \in Int
    BY <2>3
  <2>7. /\ spoiled'[g] = spoiled[g] + 0
        /\ Sum(Losses(g), DOMAIN trades)' = Sum(Losses(g), DOMAIN trades) + 0
        /\ Sum(served, DemandsFor(g))' = Sum(served, DemandsFor(g)) + 0
        /\ TotalOf(lots, g)' = TotalOf(lots, g) + gain - 0 - 0 - 0
    <3>1. Losses(g)' = Losses(g) /\ DemandsFor(g)' = DemandsFor(g)
      BY <1>1 DEF Losses, DemandsFor
    <3>2. /\ Sum(Losses(g), DOMAIN trades) \in Int /\ Sum(served, DemandsFor(g)) \in Int
          /\ TotalOf(lots, g) \in Int /\ spoiled[g] \in Int
      BY <1>0, TermTypes
    <3> QED
      BY <1>1, <1>2, <2>6, <3>1, <3>2
  <2>8. Sum(Gains(g), DOMAIN made)' = Sum(Gains(g), DOMAIN made) + gain
    BY <2>5
  <2> HIDE DEF gain
  <2> QED
    BY <1>0, <1>1, <2>6, <2>7, <2>8, AccountMoves
<1>10. GoodsConserved'
  BY <1>9 DEF GoodsConserved
<1> QED
  BY <1>6, <1>7, <1>8, <1>10, NothingSoldYet DEF GoodsInv

(* Nothing of the goods changes but the stage of the month.                 *)
LEMMA GoodsStay ==
  ASSUME TypeOK, GoodsConserved, UNCHANGED <<lots, opened, made, spoiled, served>>,
         \A g \in Goods : Sum(Losses(g), DOMAIN trades)' = Sum(Losses(g), DOMAIN trades)
  PROVE  GoodsConserved'
BY DEF GoodsConserved, TotalOf, Gains, DemandsFor

LEMMA RollKeeps ==
  ASSUME GoodsInv, RollMonth, UNCHANGED <<marketVars, opened>>
  PROVE  GoodsInv'
<1>0. TypeOK /\ ByStage /\ GoodsConserved
  BY DEF GoodsInv
<1>1. /\ stage = "roll" /\ stage' = "produce" /\ lots' = lots /\ made' = made
      /\ days' = days /\ wages' = wages /\ opened' = opened
      /\ spoiled' = spoiled /\ offers' = offers /\ at' = at /\ plan' = plan
      /\ trades' = trades /\ served' = served
  BY DEF RollMonth, marketVars
<1>2. PICK total : orders' = [i \in DOMAIN Recipes |->
                                Requested(Recipes[i], total[Recipes[i].sector])]
  BY DEF RollMonth
<1>3. ASSUME NEW i \in DOMAIN Recipes
      PROVE  Requested(Recipes[i], total[Recipes[i].sector]) \in Int
  <2> DEFINE max == Recipes[i].max
             factor == RevenueFactor(total[Recipes[i].sector], Target(Recipes[i].sector))
             wanted == HalfEven(max * 80 * factor, 10000)
  <2>1. max \in Int
    BY RecipeFacts
  <2>2. factor \in Int
    <3>1. factor \in {125, 70, 90, 115, 105, 100, 80}
      BY DEF RevenueFactor
    <3> QED
      BY <3>1
  <2> HIDE DEF factor, max
  <2>3. max * 80 * factor \in Int /\ 10000 \in Nat \ {0}
    BY <2>1, <2>2
  <2>4. wanted \in Int
    BY <2>3, HalfEvenType
  <2> HIDE DEF wanted
  <2>5. Requested(Recipes[i], total[Recipes[i].sector]) = Lesser(max, wanted)
    BY DEF Requested, max, wanted, factor
  <2> QED
    BY <2>1, <2>4, <2>5 DEF Lesser
<1>4. TypeOK'
  BY <1>0, <1>1, <1>2, <1>3 DEF TypeOK, Stages, Receipt, Order
<1>5. ByStage'
  BY <1>0, <1>1 DEF ByStage, Early, Making, AfterMarket, Fits
<1>6. GoodsConserved'
  <2>1. \A g \in Goods : Losses(g)' = Losses(g) /\ (DOMAIN trades)' = DOMAIN trades
    BY <1>1 DEF Losses
  <2> QED
    BY <1>0, <1>1, <2>1, GoodsStay
<1>7. stage' \in Early
  BY <1>1 DEF Early, Making
<1> QED
  BY <1>4, <1>5, <1>6, <1>7, NothingSoldYet DEF GoodsInv

(* The pay of a month is a number.                                          *)
LEMMA PayType ==
  ASSUME TypeOK, Len(made) = Len(Recipes), NEW e
  PROVE  Pay(e) \in Int
<1> DEFINE W == [i \in DOMAIN Recipes |->
                   Rounded(Worked(i, made[i]) * Pools[Recipes[i].pool].wage, Scale, Cent)]
           S == {i \in DOMAIN Recipes : Owner[Recipes[i].site] = e}
<1>1. Recipes \in Seq({Recipes[i] : i \in DOMAIN Recipes})
  BY ProductionAssumption
<1>2. IsFiniteSet(DOMAIN Recipes) /\ DOMAIN Recipes = 1 .. Len(Recipes)
  BY <1>1, IndicesFinite
<1>3. IsFiniteSet(S)
  BY <1>2, FS_Subset
<1>4. Scale * Cent \in Nat \ {0} /\ Cent \in Int
  BY ScaleAssumption, ProductionAssumption
<1>5. ASSUME NEW i \in DOMAIN Recipes PROVE W[i] \in Int
  <2> DEFINE pay == Worked(i, made[i]) * Pools[Recipes[i].pool].wage
  <2>1. made[i] \in Nat
    <3>1. made \in Seq(Nat)
      BY DEF TypeOK
    <3> QED
      BY <1>2, <3>1
  <2>2. Worked(i, made[i]) \in Int /\ Pools[Recipes[i].pool].wage \in Int
    <3>1. \A g : Worked(i, made[i]) \in Int
      BY <2>1, BatchTypes
    <3> QED
      BY <3>1, RecipeFacts
  <2>3. pay \in Int
    BY <2>2
  <2> HIDE DEF pay
  <2>4. HalfEven(pay, Scale * Cent) \in Int
    BY <1>4, <2>3, HalfEvenType
  <2>5. W[i] = Cent * HalfEven(pay, Scale * Cent)
    BY DEF Rounded, pay
  <2> HIDE DEF W
  <2> QED
    BY <1>4, <2>4, <2>5
<1>6. Pay(e) = Sum(W, S)
  BY DEF Pay
<1>7. \A i \in S : W[i] \in Int
  BY <1>5
<1> HIDE DEF W, S
<1> QED
  BY <1>3, <1>6, <1>7, SumType

LEMMA CloseProductionKeeps ==
  ASSUME GoodsInv, CloseProduction, UNCHANGED <<marketVars, opened>>
  PROVE  GoodsInv'
<1>0. TypeOK /\ ByStage /\ GoodsConserved
  BY DEF GoodsInv
<1>1. /\ stage = "produce" /\ stage' = "storage" /\ lots' = lots /\ made' = made
      /\ days' = days /\ orders' = orders /\ opened' = opened /\ StateHolds
      /\ wages' = [e \in Businesses |-> Pay(e)] /\ Len(made) = Len(Recipes)
      /\ spoiled' = spoiled /\ offers' = offers /\ at' = at /\ plan' = plan
      /\ trades' = trades /\ served' = served
  BY DEF CloseProduction, KernelSettles, marketVars
<1>2. wages' \in [Businesses -> Int]
  <2>1. \A e \in Businesses : Pay(e) \in Int
    BY <1>0, <1>1, PayType
  <2> QED
    BY <1>1, <2>1
<1>3. Stocks(lots, Nat \cup {Unknown})
  <2>1. \A p \in DOMAIN lots : lots[p] # Unknown => lots[p] \in Int /\ lots[p] >= 0
    BY <1>0, <1>1 DEF TypeOK, Stocks, Amounts, StateHolds
  <2>2. \A p \in DOMAIN lots : lots[p] \in Nat \cup {Unknown}
    BY <2>1
  <2> QED
    BY <1>0, <2>2 DEF TypeOK, Stocks, Amounts
<1>4. TypeOK'
  BY <1>0, <1>1, <1>2 DEF TypeOK, Stages, Receipt, Order
<1>5. ByStage'
  BY <1>0, <1>1, <1>3 DEF ByStage, Early, Making, AfterMarket, Fits, Stocks
<1>6. GoodsConserved'
  <2>1. \A g \in Goods : Losses(g)' = Losses(g) /\ (DOMAIN trades)' = DOMAIN trades
    BY <1>1 DEF Losses
  <2> QED
    BY <1>0, <1>1, <2>1, GoodsStay
<1>7. stage' \in Early
  BY <1>1 DEF Early, Making
<1> QED
  BY <1>4, <1>5, <1>6, <1>7, NothingSoldYet DEF GoodsInv
-----------------------------------------------------------------------------
(* Storage and handling.                                                    *)

(* A share of a quantity is at most all of it.                              *)
LEMMA ShareOf ==
  ASSUME NEW x \in Nat, NEW y \in Nat, y <= Scale
  PROVE  Times(x, y) \in Nat /\ Times(x, y) <= x
<1>1. Scale \in Nat \ {0} /\ Scale \in Int /\ x \in Int /\ y \in Int
  BY ScaleAssumption
<1>2. x * y <= x * Scale
  BY <1>1, ProductOrder
<1>3. x * Scale = Scale * x /\ x * y \in Int
  BY <1>1
<1>4. HalfEven(x * y, Scale) <= x
  <2> DEFINE n == x * y
  <2>1. n \in Int /\ n <= Scale * x
    BY <1>2, <1>3
  <2> HIDE DEF n
  <2>2. HalfEven(n, Scale) <= x
    BY <1>1, <2>1, HalfEvenBelow
  <2> QED
    BY <2>2 DEF n
<1> QED
  BY <1>4, TimesNat DEF Times

LEMMA StorageStock ==
  ASSUME TypeOK, Stocks(lots, Nat \cup {Unknown}), ApplyStorageLosses
  PROVE  /\ Stocks(lots', Nat \cup {Unknown}) /\ Stocks(lots', Amounts)
         /\ spoiled' \in [Goods -> Int]
         /\ \A g \in Goods : TotalOf(lots', g) = TotalOf(lots, g) - spoiled'[g]
<1> DEFINE rot == [p \in DOMAIN lots |->
                     IF lots[p] = Unknown THEN 0 ELSE Times(lots[p], Spoilage[p[2]])]
           At2(g) == {p \in DOMAIN lots : p[2] = g}
<1>1. /\ lots' = [p \in DOMAIN lots |->
                    IF lots[p] = Unknown THEN Unknown ELSE lots[p] - rot[p]]
      /\ spoiled' = [g \in Goods |-> Sum(rot, At2(g))]
  BY DEF ApplyStorageLosses
<1>2. DOMAIN lots \subseteq Places /\ \A p \in DOMAIN lots : lots[p] \in Nat \cup {Unknown}
  BY DEF Stocks
<1>3. ASSUME NEW p \in DOMAIN lots
      PROVE  /\ rot[p] \in Nat
             /\ lots[p] = Unknown => rot[p] = 0
             /\ lots[p] # Unknown => lots[p] \in Nat /\ rot[p] <= lots[p]
  <2>1. p[2] \in Goods
    BY <1>2 DEF Places
  <2>2. Spoilage[p[2]] \in Nat /\ Spoilage[p[2]] <= Scale
    BY <2>1, MarketAssumption, ScaleAssumption
  <2>3. lots[p] # Unknown => lots[p] \in Nat
    BY <1>2
  <2>4. lots[p] # Unknown => /\ Times(lots[p], Spoilage[p[2]]) \in Nat
                             /\ Times(lots[p], Spoilage[p[2]]) <= lots[p]
    BY <2>2, <2>3, ShareOf
  <2> QED
    BY <2>3, <2>4
<1> HIDE DEF rot
<1>4. ASSUME NEW p \in DOMAIN lots
      PROVE  /\ lots[p] = Unknown => lots'[p] = Unknown
             /\ lots[p] # Unknown => lots'[p] \in Nat /\ lots'[p] = lots[p] - rot[p]
  BY <1>1, <1>3
<1>5. DOMAIN lots' = DOMAIN lots /\ lots' = [p \in DOMAIN lots |-> lots'[p]]
  BY <1>1
<1>6. Stocks(lots', Nat \cup {Unknown})
  <2>1. \A p \in DOMAIN lots : lots'[p] \in Nat \cup {Unknown}
    BY <1>4
  <2> QED
    BY <1>2, <1>5, <2>1 DEF Stocks
<1>7. Stocks(lots', Amounts)
  BY <1>6 DEF Stocks, Amounts
<1>8. \A g \in Goods : /\ IsFiniteSet(At2(g)) /\ At2(g) \subseteq PlacesOf(g)
                        /\ \A p \in PlacesOf(g) : p \in At2(g) <=> p \in DOMAIN lots
  <2> SUFFICES ASSUME NEW g \in Goods
               PROVE  /\ IsFiniteSet(At2(g)) /\ At2(g) \subseteq PlacesOf(g)
                      /\ \A p \in PlacesOf(g) : p \in At2(g) <=> p \in DOMAIN lots
    OBVIOUS
  <2>1. /\ At2(g) \subseteq PlacesOf(g)
        /\ \A p \in PlacesOf(g) : p \in At2(g) <=> p \in DOMAIN lots
    BY <1>2, PlaceFacts
  <2> QED
    BY <2>1, PlaceFacts, FS_Subset
<1>9. \A g \in Goods : \A p \in At2(g) : p \in DOMAIN lots
  OBVIOUS
<1> HIDE DEF At2
<1>10. ASSUME NEW g \in Goods
       PROVE  /\ Sum(rot, At2(g)) \in Int
              /\ TotalOf(lots', g) = TotalOf(lots, g) - Sum(rot, At2(g))
  <2> DEFINE S == PlacesOf(g)
             T == At2(g)
             E == [p \in S |-> IF p \in T THEN rot[p] ELSE 0]
             new == lots'
  <2>1. IsFiniteSet(S) /\ IsFiniteSet(T) /\ T \in SUBSET S
    BY <1>8, PlaceFacts
  <2>2. \A p \in T : rot[p] \in Int
    BY <1>3, <1>9
  <2>3. /\ \A p \in T : E[p] \in Int /\ rot[p] = E[p]
        /\ \A p \in S \ T : E[p] = 0
    BY <2>1, <2>2
  <2>4. ASSUME NEW p \in S
        PROVE  E[p] \in Int /\ Known(lots)[p] = Known(new)[p] + E[p]
    <3>1. p \in Places /\ (p \in T <=> p \in DOMAIN lots)
      BY <1>8, PlaceFacts
    <3>2. CASE p \in DOMAIN lots
      <4>1. E[p] = rot[p] /\ E[p] \in Int
        BY <2>3, <3>1, <3>2
      <4>2. CASE lots[p] = Unknown
        <5>1. new[p] = Unknown /\ rot[p] = 0
          BY <1>3, <1>4, <3>2, <4>2
        <5>2. Known(new)[p] = 0 /\ Known(lots)[p] = 0
          BY <3>1, <4>2, <5>1 DEF Known
        <5> QED
          BY <4>1, <5>1, <5>2
      <4>3. CASE lots[p] # Unknown
        <5>1. /\ lots[p] \in Int /\ new[p] \in Int /\ new[p] = lots[p] - rot[p]
              /\ new[p] # Unknown
          <6>1. lots[p] \in Nat /\ new[p] \in Nat /\ new[p] = lots[p] - rot[p]
            BY <1>3, <1>4, <3>2, <4>3
          <6> QED
            BY <6>1, ProductionAssumption
        <5>2. Known(new)[p] = new[p] /\ Known(lots)[p] = lots[p]
          BY <1>5, <3>1, <3>2, <4>3, <5>1 DEF Known
        <5>3. rot[p] \in Int
          BY <1>3, <3>2
        <5> QED
          BY <4>1, <5>1, <5>2, <5>3
      <4> QED
        BY <4>2, <4>3
    <3>3. CASE p \notin DOMAIN lots
      <4>1. Known(new)[p] = 0 /\ Known(lots)[p] = 0
        BY <1>5, <3>1, <3>3 DEF Known
      <4>2. E[p] = 0
        BY <3>1, <3>3
      <4> QED
        BY <4>1, <4>2
    <3> QED
      BY <3>2, <3>3
  <2>5. Stocks(new, Amounts)
    BY <1>7
  <2> HIDE DEF S, T, E, new
  <2>6. Sum(E, S) = Sum(rot, T)
    BY <2>1, <2>3, SumWithin
  <2>7. Sum(rot, T) \in Int
    BY <2>1, <2>2, SumType
  <2>8. /\ TotalOf(lots, g) = TotalOf(new, g) + Sum(E, S)
        /\ TotalOf(new, g) \in Int
    <3>1. \A p \in PlacesOf(g) : E[p] \in Int /\ Known(lots)[p] = Known(new)[p] + E[p]
      BY <2>4 DEF S
    <3>2. TotalOf(lots, g) = TotalOf(new, g) + Sum(E, PlacesOf(g))
      BY <2>5, <3>1, TotalChange
    <3>3. TotalOf(new, g) \in Int
      BY <2>5, TotalType
    <3> QED
      BY <3>2, <3>3 DEF S
  <2>9. TotalOf(new, g) = TotalOf(lots, g) - Sum(rot, T)
    BY <2>6, <2>7, <2>8
  <2> QED
    BY <2>7, <2>9 DEF T, new
<1>11. spoiled' \in [Goods -> Int] /\ \A g \in Goods : spoiled'[g] = Sum(rot, At2(g))
  BY <1>1, <1>10
<1> QED
  BY <1>6, <1>7, <1>10, <1>11

LEMMA StorageKeeps ==
  ASSUME GoodsInv, ApplyStorageLosses, UNCHANGED opened
  PROVE  GoodsInv'
<1>0. TypeOK /\ ByStage /\ GoodsConserved
  BY DEF GoodsInv
<1>1. /\ stage = "storage" /\ stage' = "handling" /\ made' = made /\ wages' = wages
      /\ days' = days /\ orders' = orders /\ opened' = opened
      /\ offers' = offers /\ at' = at /\ plan' = plan
      /\ trades' = trades /\ served' = served
  BY DEF ApplyStorageLosses, productionVars
<1>2. Stocks(lots, Nat \cup {Unknown}) /\ \A g \in Goods : spoiled[g] = 0
  BY <1>0, <1>1 DEF ByStage, Making
<1>3. /\ Stocks(lots', Nat \cup {Unknown}) /\ Stocks(lots', Amounts)
      /\ spoiled' \in [Goods -> Int]
      /\ \A g \in Goods : TotalOf(lots', g) = TotalOf(lots, g) - spoiled'[g]
  BY <1>0, <1>2, StorageStock
<1>4. TypeOK'
  BY <1>0, <1>1, <1>3 DEF TypeOK, Stages, Receipt, Order
<1>5. ByStage'
  BY <1>0, <1>1, <1>3 DEF ByStage, Early, Making, AfterMarket, Fits
<1>6. ASSUME NEW g \in Goods
      PROVE  TotalOf(opened, g)' + Sum(Gains(g), DOMAIN made)'
               = TotalOf(lots, g)' + spoiled[g]' + Sum(Losses(g), DOMAIN trades)'
                 + Sum(served, DemandsFor(g))'
  <2> DEFINE s == spoiled'[g]
  <2>1. s \in Int /\ 0 \in Int
    BY <1>3
  <2>2. /\ spoiled'[g] = spoiled[g] + s
        /\ TotalOf(lots, g)' = TotalOf(lots, g) + 0 - s - 0 - 0
        /\ Sum(Gains(g), DOMAIN made)' = Sum(Gains(g), DOMAIN made) + 0
        /\ Sum(Losses(g), DOMAIN trades)' = Sum(Losses(g), DOMAIN trades) + 0
        /\ Sum(served, DemandsFor(g))' = Sum(served, DemandsFor(g)) + 0
    <3>1. Losses(g)' = Losses(g) /\ DemandsFor(g)' = DemandsFor(g) /\ Gains(g)' = Gains(g)
      BY <1>1 DEF Losses, DemandsFor, Gains
    <3>2. /\ Sum(Losses(g), DOMAIN trades) \in Int /\ Sum(served, DemandsFor(g)) \in Int
          /\ Sum(Gains(g), DOMAIN made) \in Int /\ TotalOf(lots, g) \in Int
      BY <1>0, TermTypes
    <3>3. TotalOf(lots, g)' = TotalOf(lots, g) - s
      BY <1>3 DEF TotalOf
    <3>4. spoiled[g] = 0 /\ DOMAIN trades' = DOMAIN trades /\ DOMAIN made' = DOMAIN made
      BY <1>1, <1>2
    <3> QED
      BY <1>1, <2>1, <3>1, <3>2, <3>3, <3>4
  <2> HIDE DEF s
  <2> QED
    BY <1>0, <1>1, <2>1, <2>2, AccountMoves
<1>7. GoodsConserved'
  BY <1>6 DEF GoodsConserved
<1>8. stage' \in Early
  BY <1>1 DEF Early, Making
<1> QED
  BY <1>4, <1>5, <1>7, <1>8, NothingSoldYet DEF GoodsInv

(* A receipt is one, whatever it is for.                                    *)
LEMMA TradeType ==
  ASSUME NEW demand \in SomeDemand, NEW offer \in SomeOffer,
         NEW seller \in Businesses, NEW buyer \in Businesses,
         NEW route \in SomeRoute, NEW place \in Places,
         NEW quantity \in Int, NEW lost \in Int, NEW carriage \in Int,
         NEW status \in Status, NEW trade,
         trade = Trade(demand, offer, seller, buyer, route, place, quantity, lost,
                       carriage, status)
  PROVE  /\ trade \in Receipt
         /\ trade.offer = offer /\ trade.route = route /\ trade.demand = demand
         /\ trade.good = place[2] /\ trade.quantity = quantity /\ trade.lost = lost
         /\ trade.status = status
<1>1. Times(quantity, Price[place]) \in Int
  <2>1. Price[place] \in Int
    BY MarketAssumption
  <2> QED
    BY <2>1, TimesType
<1>2. place[2] \in Goods
  BY DEF Places
<1>3. (IF route = Nil THEN Nil ELSE Routes[route].carrier) \in Businesses \cup {Nil}
  BY RouteFacts DEF SomeRoute
<1> QED
  BY <1>1, <1>2, <1>3 DEF Trade, Receipt

\* What a trade takes out of the stock of a good.
LossOf(trade, g) ==
  IF trade.route = Nil \/ trade.good # g THEN 0
  ELSE IF trade.status = "in_transit" THEN trade.quantity ELSE trade.lost

(* One more receipt.                                                        *)
LEMMA TradeAppended ==
  ASSUME trades \in Seq(Receipt), NEW t \in Receipt, trades' = Append(trades, t)
  PROVE  /\ trades' \in Seq(Receipt) /\ DOMAIN trades' = (DOMAIN trades) \cup {Len(trades) + 1}
         /\ Len(trades) + 1 \notin DOMAIN trades /\ trades'[Len(trades) + 1] = t
         /\ \A i \in DOMAIN trades : trades'[i] = trades[i]
         /\ \A g \in Goods :
              /\ LossOf(t, g) \in Int
              /\ Sum(Losses(g), DOMAIN trades)'
                   = Sum(Losses(g), DOMAIN trades) + LossOf(t, g)
<1> DEFINE k == Len(trades) + 1
<1>1. /\ trades' \in Seq(Receipt) /\ DOMAIN trades' = (DOMAIN trades) \cup {k}
      /\ k \notin DOMAIN trades /\ trades'[k] = t
      /\ \A i \in DOMAIN trades : trades'[i] = trades[i] /\ trades[i] \in Receipt
  OBVIOUS
<1>2. IsFiniteSet(DOMAIN trades)
  BY IndicesFinite
<1> HIDE DEF k
<1>3. ASSUME NEW g \in Goods
      PROVE  /\ LossOf(t, g) \in Int
             /\ Sum(Losses(g), DOMAIN trades)' = Sum(Losses(g), DOMAIN trades) + LossOf(t, g)
  <2> DEFINE F == Losses(g)
             G == Losses(g)'
             S == DOMAIN trades
  <2>1. \A u \in Receipt : LossOf(u, g) \in Int
    BY DEF LossOf, Receipt
  <2>2. \A i \in S : F[i] = LossOf(trades[i], g) /\ F[i] \in Int
    BY <1>1, <2>1 DEF Losses, LossOf
  <2>3. G[k] = LossOf(t, g) /\ \A i \in S : G[i] = F[i]
    BY <1>1 DEF Losses, LossOf
  <2>4. LossOf(t, g) \in Int /\ G[k] \in Int
    BY <2>1, <2>3
  <2>0. k \notin S /\ IsFiniteSet(S) /\ \A i \in S : F[i] \in Int /\ G[i] = F[i]
    BY <1>1, <1>2, <2>2, <2>3
  <2> HIDE DEF F, G, S
  <2>5. Sum(G, S \cup {k}) = Sum(F, S) + G[k]
    BY <2>0, <2>4, SumGrown
  <2>6. Sum(Losses(g), DOMAIN trades)' = Sum(G, S \cup {k})
    BY <1>1 DEF G, S
  <2> QED
    BY <2>3, <2>4, <2>5, <2>6 DEF F, S
<1> QED
  BY <1>1, <1>3 DEF k

(* A quotient of numbers that are not negative is not.                      *)
LEMMA QuotientNat ==
  ASSUME NEW n \in Nat, NEW d \in Nat \ {0}
  PROVE  n \div d \in Nat
<1> DEFINE q == n \div d
           r == n % d
<1>1. q \in Int /\ r \in 0 .. (d - 1) /\ n = d * q + r /\ d \in Int
  OBVIOUS
<1> HIDE DEF q, r
<1>2. CASE q < 0
  <2>1. d * (q + 1) <= d * 0 /\ d * (q + 1) = d * q + d /\ d * 0 = 0
    <3>1. d * (q + 1) <= d * 0
      BY <1>1, <1>2, ProductOrder
    <3> QED
      BY <1>1, <3>1
  <2>2. d * q \in Int
    BY <1>1
  <2> QED
    BY <1>1, <2>1, <2>2
<1>3. q \in Nat
  BY <1>1, <1>2
<1> QED
  BY <1>3 DEF q

(* A route is asked for a number of units.                                  *)
LEMMA HandlingType ==
  ASSUME NEW r \in DOMAIN Routes, Stock(To(r)) \in Int
  PROVE  HandlingWanted(r) \in Nat
<1> DEFINE demanded == DemandsAt(To(r))
           all == Sum(Wanted, demanded)
           shortfall == Larger(0, all - Stock(To(r)))
           kept == Scale - Routes[r].loss
<1>1. all \in Int
  <2>1. \A d \in demanded : Wanted[d] \in Int
    BY DemandFacts, SomeDemandsFinite
  <2>2. IsFiniteSet(demanded)
    BY SomeDemandsFinite
  <2> HIDE DEF demanded
  <2> QED
    BY <2>1, <2>2, SumType
<1> HIDE DEF all
<1>2. shortfall \in Nat
  BY <1>1 DEF Larger
<1>3. kept \in Nat \ {0} /\ Routes[r].capacity \in Nat /\ Scale \in Nat
  BY RouteFacts, ScaleAssumption
<1> HIDE DEF shortfall, kept
<1> DEFINE n == shortfall * Scale + kept - 1
<1>4. n \in Nat
  BY <1>2, <1>3
<1> HIDE DEF n
<1>5. n \div kept \in Nat
  BY <1>3, <1>4, QuotientNat
<1>6. HandlingWanted(r) = IF demanded = {} THEN Routes[r].capacity ELSE n \div kept
  BY DEF HandlingWanted, n, kept, shortfall, all
<1> QED
  BY <1>3, <1>5, <1>6

(* What a route moves: some of what is there, of which part may be lost.    *)
LEMMA DeliveryFacts ==
  ASSUME NEW r \in DOMAIN Routes, NEW q \in Nat
  PROVE  Loss(r, q) \in Nat /\ Loss(r, q) <= q /\ Delivery(r, q) \in Nat
<1>1. Routes[r].loss \in Nat /\ Routes[r].loss <= Scale
  BY RouteFacts, ScaleAssumption
<1>2. Loss(r, q) \in Nat /\ Loss(r, q) <= q
  BY <1>1, ShareOf DEF Loss
<1> QED
  BY <1>2 DEF Delivery

LEMMA HandledStock ==
  ASSUME Stocks(lots, Nat \cup {Unknown}), NEW r \in DOMAIN Routes, NEW moved \in Nat,
         From(r) \in DOMAIN lots, moved <= Stock(From(r)),
         Unknown \notin {lots[p] : p \in {From(r), To(r)} \cap DOMAIN lots},
         lots' = [p \in DOMAIN lots \cup {To(r)} |->
                    IF p = From(r) THEN lots[p] - moved
                    ELSE IF p = To(r) THEN Stock(p) + Handled(r, moved) ELSE lots[p]]
  PROVE  /\ Stocks(lots', Nat \cup {Unknown}) /\ Stocks(lots', Amounts)
         /\ \A g \in Goods :
              TotalOf(lots', g)
                = TotalOf(lots, g) - (IF g = Routes[r].good THEN Loss(r, moved) ELSE 0)
<1> DEFINE a == From(r)
           b == To(r)
           come == Handled(r, moved)
           lost == Loss(r, moved)
<1>1. /\ a \in Places /\ b \in Places /\ a # b /\ a \in DOMAIN lots
      /\ a[2] = Routes[r].good /\ b[2] = Routes[r].good
  BY RouteFacts
<1>2. come \in Nat /\ lost \in Nat /\ come = moved - lost
  BY DeliveryFacts DEF Handled, Delivery
<1>3. DOMAIN lots \subseteq Places /\ \A p \in DOMAIN lots : lots[p] \in Nat \cup {Unknown}
  BY DEF Stocks
<1>4. lots[a] \in Nat /\ moved <= lots[a] /\ lots[a] # Unknown
  <2>1. lots[a] # Unknown
    BY <1>1
  <2> QED
    BY <1>1, <1>3, <2>1 DEF Stock
<1>5. Stock(b) \in Nat /\ Known(lots)[b] = Stock(b)
  <2>1. b \in DOMAIN lots => lots[b] # Unknown
    BY Zenon
  <2> QED
    BY <1>1, <1>3, <2>1 DEF Stock, Known
<1>6. /\ DOMAIN lots' = DOMAIN lots \cup {b} /\ lots' = [p \in DOMAIN lots' |-> lots'[p]]
      /\ lots'[a] = lots[a] - moved /\ lots'[b] = Stock(b) + come
      /\ \A p \in DOMAIN lots \ {a, b} : lots'[p] = lots[p]
  BY <1>1
<1> HIDE DEF a, b, come, lost
<1>7. lots'[a] \in Nat /\ lots'[b] \in Nat
  BY <1>2, <1>4, <1>5, <1>6
<1>8. Stocks(lots', Nat \cup {Unknown})
  <2>1. \A p \in DOMAIN lots' : lots'[p] \in Nat \cup {Unknown} /\ p \in Places
    BY <1>1, <1>3, <1>6, <1>7
  <2> QED
    BY <1>6, <2>1 DEF Stocks
<1>9. Stocks(lots', Amounts) /\ Stocks(lots, Amounts)
  BY <1>3, <1>8 DEF Stocks, Amounts
<1>10. /\ Known(lots')[a] = lots[a] - moved /\ Known(lots)[a] = lots[a]
       /\ Known(lots')[b] = Stock(b) + come
       /\ \A p \in Places \ {a, b} : Known(lots')[p] = Known(lots)[p]
  <2>1. lots'[a] # Unknown /\ lots'[b] # Unknown
    BY <1>7, ProductionAssumption
  <2> QED
    BY <1>1, <1>4, <1>6, <2>1 DEF Known
<1>11. ASSUME NEW g \in Goods
       PROVE  TotalOf(lots', g)
                = TotalOf(lots, g) - (IF g = Routes[r].good THEN lost ELSE 0)
  <2> DEFINE S == PlacesOf(g)
             A == [p \in S |-> IF p = a THEN -moved ELSE 0]
             B == [p \in S |-> IF p = b THEN come ELSE 0]
             D == [p \in S |-> A[p] + B[p]]
             new == lots'
  <2>1. IsFiniteSet(S) /\ -moved \in Int /\ come \in Int
    BY <1>2, PlaceFacts
  <2>2. \A p \in S : A[p] \in Int /\ B[p] \in Int /\ D[p] = A[p] + B[p] /\ D[p] \in Int
    BY <2>1
  <2>3. /\ \A p \in S : A[p] = IF p = a THEN -moved ELSE 0
        /\ \A p \in S : B[p] = IF p = b THEN come ELSE 0
    OBVIOUS
  <2>4. ASSUME NEW p \in S PROVE Known(new)[p] = Known(lots)[p] + D[p]
    <3>1. p \in Places
      BY PlaceFacts
    <3>2. CASE p = a
      <4>1. A[p] = -moved /\ B[p] = 0 /\ D[p] = A[p] + B[p]
        BY <1>1, <3>2
      <4> HIDE DEF A, B, D
      <4> QED
        BY <1>4, <1>10, <3>2, <4>1
    <3>3. CASE p = b
      <4>1. A[p] = 0 /\ B[p] = come /\ D[p] = A[p] + B[p]
        BY <1>1, <3>3
      <4> HIDE DEF A, B, D
      <4> QED
        BY <1>2, <1>5, <1>10, <3>3, <4>1
    <3>4. CASE p \notin {a, b}
      <4>1. A[p] = 0 /\ B[p] = 0 /\ D[p] = A[p] + B[p]
        BY <3>4
      <4>2. Known(lots)[p] \in Int
        BY <1>9, <3>1, KnownFacts
      <4>3. Known(new)[p] = Known(lots)[p]
        BY <1>10, <3>1, <3>4
      <4> HIDE DEF A, B, D, new
      <4> QED
        BY <4>1, <4>2, <4>3
    <3> QED
      BY <3>2, <3>3, <3>4
  <2>5. (a \in S <=> g = Routes[r].good) /\ (b \in S <=> g = Routes[r].good)
    BY <1>1, PlaceFacts
  <2>6. \A p \in PlacesOf(g) : D[p] \in Int /\ Known(new)[p] = Known(lots)[p] + D[p]
    BY <2>2, <2>4
  <2>7. S = PlacesOf(g)
    OBVIOUS
  <2> HIDE DEF S, A, B, D, new
  <2>8. Sum(A, S) = IF a \in S THEN -moved ELSE 0
    BY <2>1, <2>3, SumPoint
  <2>9. Sum(B, S) = IF b \in S THEN come ELSE 0
    BY <2>1, <2>3, SumPoint
  <2>10. Sum(D, S) = Sum(A, S) + Sum(B, S)
    BY <2>1, <2>2, SumPlus
  <2>11. TotalOf(new, g) = TotalOf(lots, g) + Sum(D, PlacesOf(g))
    <3>1. Stocks(lots, Amounts)
      BY <1>9
    <3> QED
      BY <2>6, <3>1, TotalChange
  <2>12. TotalOf(lots, g) \in Int
    BY <1>9, TotalType
  <2>13. Sum(D, S) = IF g = Routes[r].good THEN come - moved ELSE 0
    BY <1>2, <2>5, <2>8, <2>9, <2>10
  <2>14. TotalOf(new, g) = TotalOf(lots, g) - (IF g = Routes[r].good THEN lost ELSE 0)
    BY <1>2, <2>7, <2>11, <2>12, <2>13
  <2> QED
    BY <2>14 DEF new
<1> QED
  BY <1>8, <1>9, <1>11 DEF lost

LEMMA HandleKeeps ==
  ASSUME GoodsInv, Handle, UNCHANGED opened
  PROVE  GoodsInv'
<1> DEFINE r == at + 1
           moved == Min({Stock(From(r)), Routes[r].capacity, HandlingWanted(r)})
           wanting == DemandsAt(To(r))
           receipt == Trade(IF wanting = {} THEN Nil ELSE Min(wanting), Nil,
                            Owner[Routes[r].origin], Owner[Routes[r].destination], r, From(r),
                            moved, Loss(r, moved), Times(moved, Routes[r].cost), "delivered")
<1>0. TypeOK /\ ByStage /\ GoodsConserved
  BY DEF GoodsInv
<1>1. /\ stage = "handling" /\ stage' = stage /\ r \in DOMAIN Routes /\ made' = made
      /\ wages' = wages /\ days' = days /\ orders' = orders /\ opened' = opened
      /\ offers' = offers /\ at' = r /\ plan' = plan /\ spoiled' = spoiled
      /\ served' = served
  BY DEF Handle, productionVars
<1>2. /\ at \in Nat /\ r \in Nat /\ trades \in Seq(Receipt) /\ Stocks(lots, Nat \cup {Unknown})
      /\ \A i \in DOMAIN trades : trades[i].offer = Nil
  BY <1>0, <1>1 DEF TypeOK, ByStage, Making, AfterMarket
<1>3. \/ lots' = lots /\ trades' = trades
      \/ /\ From(r) \in DOMAIN lots
         /\ Unknown \notin {lots[p] : p \in {From(r), To(r)} \cap DOMAIN lots}
         /\ lots' = [p \in DOMAIN lots \cup {To(r)} |->
                       IF p = From(r) THEN lots[p] - moved
                       ELSE IF p = To(r) THEN Stock(p) + Handled(r, moved) ELSE lots[p]]
         /\ trades' = Append(trades, receipt)
  BY Zenon DEF Handle
<1>4. CASE lots' = lots /\ trades' = trades
  <2>1. TypeOK' /\ ByStage'
    BY <1>0, <1>1, <1>2, <1>4 DEF TypeOK, ByStage, AfterMarket, Receipt, Order, Fits
  <2>2. GoodsConserved'
    <3>1. \A g \in Goods : Losses(g)' = Losses(g) /\ (DOMAIN trades)' = DOMAIN trades
      BY <1>4 DEF Losses
    <3> QED
      BY <1>0, <1>1, <1>4, <3>1, GoodsStay
  <2>3. stage' \in Early
    BY <1>1 DEF Early
  <2> QED
    BY <2>1, <2>2, <2>3, NothingSoldYet DEF GoodsInv
<1>5. CASE /\ From(r) \in DOMAIN lots
           /\ Unknown \notin {lots[p] : p \in {From(r), To(r)} \cap DOMAIN lots}
           /\ lots' = [p \in DOMAIN lots \cup {To(r)} |->
                         IF p = From(r) THEN lots[p] - moved
                         ELSE IF p = To(r) THEN Stock(p) + Handled(r, moved) ELSE lots[p]]
           /\ trades' = Append(trades, receipt)
  <2>1. Stock(From(r)) \in Nat /\ Stock(To(r)) \in Nat
    <3>1. From(r) \in DOMAIN lots => lots[From(r)] # Unknown
      BY <1>5, Zenon
    <3>2. To(r) \in DOMAIN lots => lots[To(r)] # Unknown
      BY <1>5, Zenon
    <3>3. \A p \in DOMAIN lots : lots[p] \in Nat \cup {Unknown}
      BY <1>2 DEF Stocks
    <3> QED
      BY <3>1, <3>2, <3>3 DEF Stock
  <2>2. Routes[r].capacity \in Nat /\ HandlingWanted(r) \in Nat
    BY <1>1, <2>1, RouteFacts, HandlingType
  <2>3. moved \in Nat /\ moved <= Stock(From(r))
    <3> DEFINE x == Stock(From(r))
               y == Routes[r].capacity
               z == HandlingWanted(r)
    <3>1. x \in Int /\ y \in Int /\ z \in Int /\ x \in Nat /\ y \in Nat /\ z \in Nat
      BY <2>1, <2>2
    <3>2. moved = Min({x, y, z})
      OBVIOUS
    <3> HIDE DEF x, y, z, moved
    <3>3. Min({x, y, z}) \in {x, y, z} /\ Min({x, y, z}) <= x
      BY <3>1, MinOfFew
    <3>4. moved \in Nat /\ moved <= x
      BY <3>1, <3>2, <3>3
    <3> QED
      BY <3>4 DEF x
  <2>4. receipt \in Receipt /\ receipt.offer = Nil /\ receipt.route = r
        /\ receipt.good = Routes[r].good /\ receipt.lost = Loss(r, moved)
        /\ receipt.status = "delivered"
    <3> DEFINE demand == IF wanting = {} THEN Nil ELSE Min(wanting)
               seller == Owner[Routes[r].origin]
               buyer == Owner[Routes[r].destination]
               lost == Loss(r, moved)
               carriage == Times(moved, Routes[r].cost)
    <3>1. demand \in SomeDemand
      <4>1. IsFiniteSet(wanting) /\ wanting \in SUBSET Int /\ wanting \subseteq DOMAIN Demands
        <5>1. IsFiniteSet(wanting) /\ wanting \subseteq DOMAIN Demands
          BY SomeDemandsFinite
        <5>2. DOMAIN Demands \subseteq Int
          BY DemandFacts
        <5> QED
          BY <5>1, <5>2
      <4> HIDE DEF wanting
      <4>2. wanting # {} => Min(wanting) \in wanting
        BY <4>1, MinOf
      <4> QED
        BY <4>1, <4>2 DEF SomeDemand
    <3>2. seller \in Businesses /\ buyer \in Businesses
      BY <1>1, RouteFacts DEF Businesses, Sites
    <3>3. lost \in Int /\ carriage \in Int /\ moved \in Int
      <4>1. Routes[r].cost \in Int /\ moved \in Int
        BY <1>1, <2>3, RouteFacts
      <4>2. lost \in Nat
        BY <1>1, <2>3, DeliveryFacts
      <4> HIDE DEF moved
      <4>3. carriage \in Int
        BY <4>1, TimesType
      <4> QED
        BY <4>1, <4>2, <4>3
    <3>4. r \in SomeRoute /\ From(r) \in Places /\ Nil \in SomeOffer
          /\ "delivered" \in Status /\ From(r)[2] = Routes[r].good
      BY <1>1, RouteFacts DEF SomeRoute, SomeOffer, Status
    <3>5. receipt = Trade(demand, Nil, seller, buyer, r, From(r), moved, lost, carriage,
                          "delivered")
      OBVIOUS
    <3> HIDE DEF demand, seller, buyer, r, moved, lost, carriage, receipt
    <3>6. /\ receipt \in Receipt
          /\ receipt.offer = Nil /\ receipt.route = r /\ receipt.demand = demand
          /\ receipt.good = From(r)[2] /\ receipt.quantity = moved /\ receipt.lost = lost
          /\ receipt.status = "delivered"
      BY <3>1, <3>2, <3>3, <3>4, <3>5, TradeType
    <3> QED
      BY <3>4, <3>6 DEF lost
  <2> HIDE DEF receipt, moved, r
  <2>5. /\ Stocks(lots', Nat \cup {Unknown}) /\ Stocks(lots', Amounts)
        /\ \A g \in Goods :
             TotalOf(lots', g)
               = TotalOf(lots, g) - (IF g = Routes[r].good THEN Loss(r, moved) ELSE 0)
    BY <1>1, <1>2, <1>5, <2>3, HandledStock
  <2>6. /\ trades' \in Seq(Receipt) /\ DOMAIN trades' = (DOMAIN trades) \cup {Len(trades) + 1}
        /\ trades'[Len(trades) + 1] = receipt
        /\ \A i \in DOMAIN trades : trades'[i] = trades[i]
        /\ \A g \in Goods :
             /\ LossOf(receipt, g) \in Int
             /\ Sum(Losses(g), DOMAIN trades)'
                  = Sum(Losses(g), DOMAIN trades) + LossOf(receipt, g)
    BY <1>2, <1>5, <2>4, TradeAppended
  <2>7. \A g \in Goods : LossOf(receipt, g)
                            = IF g = Routes[r].good THEN Loss(r, moved) ELSE 0
    <3>1. r # Nil
      BY <1>2, MarketAssumption
    <3> QED
      BY <2>4, <3>1 DEF LossOf
  <2>8. TypeOK'
    <3>1. at' \in Nat
      BY <1>1, <1>2
    <3> QED
      BY <1>0, <1>1, <2>5, <2>6, <3>1 DEF TypeOK, Receipt, Order
  <2>9. ByStage'
    <3>1. \A i \in DOMAIN trades' : trades'[i].offer = Nil /\ trades'[i].route # Nil
      <4>1. r # Nil
        BY <1>2, MarketAssumption
      <4>2. \A i \in DOMAIN trades : trades[i].route # Nil
        BY <1>0, <1>1 DEF ByStage, AfterMarket
      <4> QED
        BY <1>2, <2>4, <2>6, <4>1, <4>2
    <3> QED
      BY <1>0, <1>1, <2>5, <3>1 DEF ByStage, Early, Making, AfterMarket, Fits
  <2>10. ASSUME NEW g \in Goods
         PROVE  TotalOf(opened, g)' + Sum(Gains(g), DOMAIN made)'
                  = TotalOf(lots, g)' + spoiled[g]' + Sum(Losses(g), DOMAIN trades)'
                    + Sum(served, DemandsFor(g))'
    <3> DEFINE l == LossOf(receipt, g)
    <3>1. l \in Int /\ 0 \in Int
      BY <2>6
    <3>2. /\ spoiled'[g] = spoiled[g] + 0
          /\ TotalOf(lots, g)' = TotalOf(lots, g) + 0 - 0 - l - 0
          /\ Sum(Gains(g), DOMAIN made)' = Sum(Gains(g), DOMAIN made) + 0
          /\ Sum(Losses(g), DOMAIN trades)' = Sum(Losses(g), DOMAIN trades) + l
          /\ Sum(served, DemandsFor(g))' = Sum(served, DemandsFor(g)) + 0
      <4>1. DemandsFor(g)' = DemandsFor(g) /\ Gains(g)' = Gains(g)
        BY <1>1 DEF DemandsFor, Gains
      <4>2. /\ Sum(served, DemandsFor(g)) \in Int /\ spoiled[g] \in Int
            /\ Sum(Gains(g), DOMAIN made) \in Int /\ TotalOf(lots, g) \in Int
        BY <1>0, TermTypes
      <4>3. TotalOf(lots, g)' = TotalOf(lots, g) - l
        BY <2>5, <2>7 DEF TotalOf
      <4>4. Sum(Gains(g), DOMAIN made)' = Sum(Gains(g), DOMAIN made)
            /\ Sum(served, DemandsFor(g))' = Sum(served, DemandsFor(g))
        BY <1>1, <4>1
      <4>5. Sum(Losses(g), DOMAIN trades)' = Sum(Losses(g), DOMAIN trades) + l
        BY <2>6
      <4> HIDE DEF l
      <4> QED
        BY <1>1, <3>1, <4>2, <4>3, <4>4, <4>5
    <3> HIDE DEF l
    <3> QED
      BY <1>0, <1>1, <3>1, <3>2, AccountMoves
  <2>11. GoodsConserved'
    BY <2>10 DEF GoodsConserved
  <2>12. stage' \in Early
    BY <1>1 DEF Early
  <2> QED
    BY <2>8, <2>9, <2>11, <2>12, NothingSoldYet DEF GoodsInv
<1> QED
  BY <1>3, <1>4, <1>5
-----------------------------------------------------------------------------
(* The market: what local needs take, and what they leave.                  *)

\* The demands at a place that are admitted, and what each gets of a stock.
AdmittedAt(p) == {d \in DemandsAt(p) : Admitted(d)}
Taken(held) == [d \in DOMAIN Demands |-> Consumed(held, d)]

LEMMA AdmittedFacts ==
  ASSUME NEW p
  PROVE  /\ AdmittedAt(p) \in SUBSET (1 .. Len(Demands)) /\ IsFiniteSet(AdmittedAt(p))
         /\ AdmittedAt(p) \subseteq DemandsAt(p) /\ AdmittedAt(p) \subseteq DOMAIN Demands
         /\ \A d \in AdmittedAt(p) : d \in Int /\ Wanted[d] \in Nat
                                      /\ Wanted[d] = Demands[d].quantity /\ Place(d) = p
<1>1. AdmittedAt(p) \subseteq DemandsAt(p) /\ DemandsAt(p) \subseteq DOMAIN Demands
  BY DEF AdmittedAt, DemandsAt
<1>2. IsFiniteSet(AdmittedAt(p))
  BY <1>1, SomeDemandsFinite, FS_Subset
<1>3. DOMAIN Demands = 1 .. Len(Demands) /\ Len(Demands) \in Nat
  BY DemandFacts
<1>4. ASSUME NEW d \in AdmittedAt(p)
      PROVE  d \in Int /\ Wanted[d] \in Nat /\ Wanted[d] = Demands[d].quantity /\ Place(d) = p
  <2>1. d \in DOMAIN Demands /\ Place(d) = p
    BY <1>1 DEF AdmittedAt, DemandsAt
  <2> QED
    BY <1>3, <2>1, DemandFacts
<1> QED
  BY <1>1, <1>2, <1>3, <1>4

(* A demand is served in the turn of its number.                            *)
LEMMA ConsumedInTurn ==
  ASSUME NEW held, NEW p, NEW d \in AdmittedAt(p)
  PROVE  Consumed(held, d) = InTurn(Wanted, AdmittedAt(p), held[p], d)
<1>1. d \in DOMAIN Demands /\ Admitted(d) /\ Place(d) = p
  BY DEF AdmittedAt, DemandsAt
<1>2. {e \in 1 .. (d - 1) : Admitted(e) /\ Place(e) = Place(d)}
        = {y \in AdmittedAt(p) : y < d}
  <2>1. DOMAIN Demands = 1 .. Len(Demands) /\ Len(Demands) \in Nat
    BY DemandFacts
  <2>2. ASSUME NEW e PROVE (e \in 1 .. (d - 1)) <=> (e \in DOMAIN Demands /\ e < d)
    BY <1>1, <2>1
  <2> QED
    BY <1>1, <2>2 DEF AdmittedAt, DemandsAt
<1>3. Wanted[d] = Demands[d].quantity
  BY <1>1, DemandFacts
<1> QED
  BY <1>1, <1>2, <1>3 DEF Consumed, InTurn

LEMMA ConsumedFacts ==
  ASSUME NEW held, NEW p \in Places, held[p] \in Nat
  PROVE  /\ \A d \in DemandsAt(p) : /\ Consumed(held, d) \in Nat
                                    /\ Consumed(held, d) <= Demands[d].quantity
         /\ Sum(Wanted, AdmittedAt(p)) \in Nat
         /\ Sum(Taken(held), DemandsAt(p)) = Lesser(held[p], Sum(Wanted, AdmittedAt(p)))
         /\ Sum(Wanted, AdmittedAt(p)) <= held[p] =>
              \A d \in AdmittedAt(p) : Consumed(held, d) = Demands[d].quantity
<1> DEFINE S == AdmittedAt(p)
           G == Taken(held)
           n == Len(Demands)
           h == held[p]
<1>1. /\ n \in Nat /\ S \in SUBSET (1 .. n) /\ IsFiniteSet(S) /\ S \subseteq DemandsAt(p)
      /\ \A d \in S : Wanted[d] \in Nat /\ Wanted[d] = Demands[d].quantity /\ d \in DOMAIN Demands
  BY AdmittedFacts, DemandFacts
<1>2. \A d \in S : G[d] = InTurn(Wanted, S, h, d)
  BY <1>1, ConsumedInTurn DEF Taken
<1>3. \A d \in DemandsAt(p) : /\ d \in DOMAIN Demands /\ G[d] = Consumed(held, d)
                              /\ d \notin S => G[d] = 0
                              /\ Demands[d].quantity \in Nat
  <2>1. \A d \in DemandsAt(p) : d \in DOMAIN Demands
    BY DEF DemandsAt
  <2>2. \A d \in DemandsAt(p) : d \notin S => Consumed(held, d) = 0
    BY DEF Consumed, AdmittedAt
  <2> QED
    BY <2>1, <2>2, DemandFacts DEF Taken
<1>4. \A d \in S : Wanted[d] \in Nat /\ G[d] = InTurn(Wanted, S, h, d)
  BY <1>1, <1>2
<1>5. h \in Nat
  OBVIOUS
<1> HIDE DEF S, G, n, h
<1>6. /\ Sum(G, S) = Lesser(h, Sum(Wanted, S)) /\ Sum(Wanted, S) \in Nat
      /\ \A d \in S : G[d] \in Nat /\ G[d] <= Wanted[d]
      /\ Sum(Wanted, S) <= h => \A d \in S : G[d] = Wanted[d]
  <2> DEFINE W == Wanted
  <2>1. n \in Nat /\ S \in SUBSET (1 .. n)
    BY <1>1
  <2>2. \A d \in S : W[d] \in Nat /\ G[d] = InTurn(W, S, h, d)
    BY <1>4
  <2> HIDE DEF W
  <2>3. Sum(G, S) = Lesser(h, Sum(W, S))
    BY <1>5, <2>1, <2>2, ServedInTurn
  <2>6. Sum(W, S) \in Nat
    BY <1>1, <2>2, SumNat
  <2>4. \A d \in S : G[d] \in Nat /\ G[d] <= W[d]
    BY <1>5, <2>1, <2>2, ServedInTurn
  <2>5. ASSUME Sum(W, S) <= h, NEW d \in S PROVE G[d] = W[d]
    <3>1. h \in Int /\ \A y \in S : y \in Int /\ W[y] \in Nat
      BY <1>5, <2>1, <2>2
    <3>2. InTurn(W, S, h, d) = W[d]
      BY <1>1, <2>5, <3>1, AllServed
    <3> QED
      BY <2>2, <3>2
  <2> QED
    BY <2>3, <2>4, <2>5, <2>6 DEF W
<1>7. Sum(G, DemandsAt(p)) = Sum(G, S)
  <2> DEFINE D == DemandsAt(p)
  <2>1. IsFiniteSet(D) /\ S \in SUBSET D
    BY <1>1, SomeDemandsFinite
  <2>2. \A d \in S : G[d] \in Int
    BY <1>6
  <2>3. (\A d \in S : G[d] \in Int /\ G[d] = G[d]) /\ \A d \in D \ S : G[d] = 0
    BY <1>3, <2>2
  <2> HIDE DEF D
  <2>4. Sum(G, D) = Sum(G, S)
    BY <2>1, <2>3, SumWithin
  <2> QED
    BY <2>4 DEF D
<1>8. ASSUME NEW d \in DemandsAt(p)
      PROVE  Consumed(held, d) \in Nat /\ Consumed(held, d) <= Demands[d].quantity
  <2>1. CASE d \in S
    BY <1>1, <1>3, <1>6, <2>1
  <2>2. CASE d \notin S
    <3>1. Consumed(held, d) = 0 /\ Demands[d].quantity \in Nat
      BY <1>3, <2>2
    <3> QED
      BY <3>1
  <2> QED
    BY <2>1, <2>2
<1>9. Sum(Wanted, S) <= h => \A d \in S : Consumed(held, d) = Demands[d].quantity
  BY <1>1, <1>3, <1>6
<1> QED
  BY <1>6, <1>7, <1>8, <1>9 DEF S, G, h

(* Two stocks of which the lesser still serves all that is admitted, or     *)
(* lacks nothing, serve the demands at the place alike.                     *)
LEMMA ConsumedAlike ==
  ASSUME NEW more, NEW less, NEW p \in Places, more[p] \in Nat, less[p] \in Nat,
         less[p] <= more[p],
         more[p] - less[p] <= more[p] - Sum(Taken(more), DemandsAt(p)),
         NEW d \in DemandsAt(p)
  PROVE  Consumed(less, d) = Consumed(more, d)
<1> DEFINE w == Sum(Wanted, AdmittedAt(p))
<1>1. /\ w \in Nat /\ Sum(Taken(more), DemandsAt(p)) = Lesser(more[p], w)
      /\ w <= more[p] => \A e \in AdmittedAt(p) : Consumed(more, e) = Demands[e].quantity
  BY ConsumedFacts
<1>2. w <= less[p] => \A e \in AdmittedAt(p) : Consumed(less, e) = Demands[e].quantity
  BY ConsumedFacts
<1> HIDE DEF w
<1>3. Place(d) = p /\ (d \notin AdmittedAt(p) => ~Admitted(d))
  BY DEF DemandsAt, AdmittedAt
<1>4. CASE d \notin AdmittedAt(p)
  BY <1>3, <1>4 DEF Consumed
<1>5. CASE d \in AdmittedAt(p) /\ w <= less[p]
  <2>1. w <= more[p]
    BY <1>1, <1>5
  <2> QED
    BY <1>1, <1>2, <1>5, <2>1
<1>6. CASE w > less[p]
  <2>1. less[p] = more[p]
    BY <1>1, <1>6 DEF Lesser
  <2> QED
    BY <1>3, <2>1 DEF Consumed
<1> QED
  BY <1>1, <1>4, <1>5, <1>6

(* What is held, and what of it may leave.                                  *)
LEMMA HeldFacts ==
  ASSUME Stocks(lots, Nat), NEW p \in Places
  PROVE  /\ Held[p] = Stock(p) /\ Held[p] \in Nat
         /\ Sum(Taken(Held), DemandsAt(p)) \in Nat
         /\ Sum(Taken(Held), DemandsAt(p)) <= Held[p]
         /\ Exportable(p) = Held[p] - Sum(Taken(Held), DemandsAt(p))
         /\ Exportable(p) \in Nat
         /\ \A d \in DemandsAt(p) : /\ Consumed(Held, d) \in Nat
                                    /\ Consumed(Held, d) <= Demands[d].quantity
                                    /\ Shortage(Held, d) \in Nat
<1>1. Held[p] = Stock(p) /\ Held[p] \in Nat
  BY DEF Held, Stock, Stocks
<1>2. /\ \A d \in DemandsAt(p) : /\ Consumed(Held, d) \in Nat
                                 /\ Consumed(Held, d) <= Demands[d].quantity
      /\ Sum(Wanted, AdmittedAt(p)) \in Nat
      /\ Sum(Taken(Held), DemandsAt(p)) = Lesser(Held[p], Sum(Wanted, AdmittedAt(p)))
  BY <1>1, ConsumedFacts
<1>3. Exportable(p) = Held[p] - Sum(Taken(Held), DemandsAt(p))
  BY DEF Exportable, Taken
<1>4. Sum(Taken(Held), DemandsAt(p)) \in Nat /\ Sum(Taken(Held), DemandsAt(p)) <= Held[p]
  BY <1>1, <1>2 DEF Lesser
<1>5. \A d \in DemandsAt(p) : Shortage(Held, d) \in Nat
  <2>1. \A d \in DemandsAt(p) : Demands[d].quantity \in Nat
    BY DemandFacts DEF DemandsAt
  <2> QED
    BY <1>2, <2>1 DEF Shortage
<1> QED
  BY <1>1, <1>2, <1>3, <1>4, <1>5

\* The offers at a place, and what each may export.
OffersAt(p) == {o \in DOMAIN offers : offers[o].place = p}
Budgets == [o \in DOMAIN offers |-> Budget(o)]

LEMMA OfferFacts ==
  ASSUME offers \in Seq(SupplyOffer)
  PROVE  /\ Len(offers) \in Nat /\ DOMAIN offers = 1 .. Len(offers)
         /\ \A o \in DOMAIN offers :
              /\ offers[o].place \in Places /\ offers[o].quantity \in Nat
              /\ offers[o].seller \in Businesses /\ Offered[o] = offers[o].quantity
              /\ o \in Int /\ o \in Nat
         /\ \A p : /\ IsFiniteSet(OffersAt(p)) /\ OffersAt(p) \in SUBSET (1 .. Len(offers))
                   /\ \A o \in OffersAt(p) : o \in DOMAIN offers /\ o \in Int
                                              /\ offers[o].place = p /\ Offered[o] \in Nat
<1>1. /\ Len(offers) \in Nat /\ DOMAIN offers = 1 .. Len(offers)
      /\ \A o \in DOMAIN offers : offers[o] \in SupplyOffer
      /\ \A S \in SUBSET DOMAIN offers : IsFiniteSet(S)
  BY IndicesFinite
<1>2. \A o \in DOMAIN offers :
        /\ offers[o].place \in Places /\ offers[o].quantity \in Nat
        /\ offers[o].seller \in Businesses /\ Offered[o] = offers[o].quantity
        /\ o \in Int /\ o \in Nat
  BY <1>1 DEF SupplyOffer, Offered
<1>3. ASSUME NEW p
      PROVE  /\ IsFiniteSet(OffersAt(p)) /\ OffersAt(p) \in SUBSET (1 .. Len(offers))
             /\ \A o \in OffersAt(p) : o \in DOMAIN offers /\ o \in Int
                                        /\ offers[o].place = p /\ Offered[o] \in Nat
  <2>1. OffersAt(p) \in SUBSET DOMAIN offers
    BY DEF OffersAt
  <2>2. IsFiniteSet(OffersAt(p))
    BY <1>1, <2>1
  <2>3. \A o \in OffersAt(p) : o \in DOMAIN offers /\ offers[o].place = p
    BY DEF OffersAt
  <2> QED
    BY <1>1, <1>2, <2>1, <2>2, <2>3
<1> QED
  BY <1>1, <1>2, <1>3

(* The budgets at a place come out of what may leave it.                    *)
LEMMA BudgetFacts ==
  ASSUME offers \in Seq(SupplyOffer), Stocks(lots, Nat)
  PROVE  /\ \A o \in DOMAIN offers : Budget(o) \in Nat /\ Budget(o) <= offers[o].quantity
         /\ \A p \in Places : /\ Sum(Budgets, OffersAt(p)) \in Nat
                              /\ Sum(Budgets, OffersAt(p)) <= Exportable(p)
<1>1. ASSUME NEW p \in Places, NEW o \in OffersAt(p)
      PROVE  Budgets[o] = InTurn(Offered, OffersAt(p), Exportable(p), o)
  <2>1. o \in DOMAIN offers /\ o \in Int /\ offers[o].place = p
        /\ Offered[o] = offers[o].quantity
    BY OfferFacts
  <2>2. {k \in 1 .. (o - 1) : offers[k].place = offers[o].place}
          = {y \in OffersAt(p) : y < o}
    <3>1. Len(offers) \in Nat /\ DOMAIN offers = 1 .. Len(offers)
      BY OfferFacts
    <3>2. \A k : k \in 1 .. (o - 1) <=> k \in DOMAIN offers /\ k < o
      BY <2>1, <3>1
    <3> QED
      BY <2>1, <3>2 DEF OffersAt
  <2> QED
    BY <2>1, <2>2 DEF Budgets, Budget, InTurn
<1>2. ASSUME NEW p \in Places
      PROVE  /\ Sum(Budgets, OffersAt(p)) \in Nat
             /\ Sum(Budgets, OffersAt(p)) <= Exportable(p)
             /\ \A o \in OffersAt(p) : Budgets[o] \in Nat /\ Budgets[o] <= Offered[o]
  <2> DEFINE n == Len(offers)
             S == OffersAt(p)
             h == Exportable(p)
             Q == Offered
             G == Budgets
  <2>1. n \in Nat /\ S \in SUBSET (1 .. n) /\ h \in Nat /\ IsFiniteSet(S)
    BY OfferFacts, HeldFacts
  <2>2. \A o \in S : Q[o] \in Nat /\ G[o] = InTurn(Q, S, h, o)
    BY <1>1, OfferFacts
  <2> HIDE DEF n, S, h, Q, G
  <2>3. Sum(G, S) = Lesser(h, Sum(Q, S))
    BY <2>1, <2>2, ServedInTurn
  <2>4. \A o \in S : G[o] \in Nat /\ G[o] <= Q[o]
    BY <2>1, <2>2, ServedInTurn
  <2>5. Sum(Q, S) \in Nat
    BY <2>1, <2>2, SumNat
  <2>6. Sum(G, S) \in Nat /\ Sum(G, S) <= h
    BY <2>1, <2>3, <2>5 DEF Lesser
  <2> QED
    BY <2>4, <2>6 DEF G, S, h, Q
<1>3. ASSUME NEW o \in DOMAIN offers
      PROVE  Budget(o) \in Nat /\ Budget(o) <= offers[o].quantity
  <2>1. offers[o].place \in Places /\ Offered[o] = offers[o].quantity
    BY OfferFacts
  <2>2. o \in OffersAt(offers[o].place)
    BY DEF OffersAt
  <2>3. Budgets[o] \in Nat /\ Budgets[o] <= Offered[o]
    BY <1>2, <2>1, <2>2
  <2>4. Budgets[o] = Budget(o)
    BY DEF Budgets
  <2> QED
    BY <2>1, <2>3, <2>4
<1> QED
  BY <1>2, <1>3

(* Dispatches are of whole units, and so is what they deliver.              *)
LEMMA PlanFacts ==
  ASSUME plan \in Seq(Order)
  PROVE  /\ \A S \in SUBSET DOMAIN plan :
              IsFiniteSet(S) /\ Sum(Dispatched, S) \in Nat /\ Sum(Sent, S) \in Nat
         /\ \A i \in DOMAIN plan :
              /\ plan[i].route \in DOMAIN Routes /\ plan[i].offer \in DOMAIN offers
              /\ plan[i].demand \in DOMAIN Demands /\ plan[i].quantity \in Nat
              /\ Dispatched[i] = plan[i].quantity /\ Dispatched[i] \in Nat
              /\ Sent[i] = Delivery(plan[i].route, plan[i].quantity) /\ Sent[i] \in Nat
         /\ \A o : SentBy(o) \in SUBSET DOMAIN plan
         /\ \A r : SentOver(r) \in SUBSET DOMAIN plan
         /\ \A d : SentFor(d) \in SUBSET DOMAIN plan
         /\ \A p : SentFrom(p) \in SUBSET DOMAIN plan
<1>1. \A i \in DOMAIN plan :
        /\ plan[i].route \in DOMAIN Routes /\ plan[i].offer \in DOMAIN offers
        /\ plan[i].demand \in DOMAIN Demands /\ plan[i].quantity \in Nat
  <2>1. \A i \in DOMAIN plan : plan[i] \in Order
    BY IndicesFinite
  <2> QED
    BY <2>1 DEF Order
<1>2. \A i \in DOMAIN plan :
        /\ Dispatched[i] = plan[i].quantity /\ Dispatched[i] \in Nat
        /\ Sent[i] = Delivery(plan[i].route, plan[i].quantity) /\ Sent[i] \in Nat
  BY <1>1, DeliveryFacts DEF Dispatched, Sent
<1>3. ASSUME NEW S \in SUBSET DOMAIN plan
      PROVE  IsFiniteSet(S) /\ Sum(Dispatched, S) \in Nat /\ Sum(Sent, S) \in Nat
  <2>1. IsFiniteSet(S)
    BY IndicesFinite
  <2>2. (\A i \in S : Dispatched[i] \in Nat) /\ \A i \in S : Sent[i] \in Nat
    BY <1>2
  <2>3. Sum(Dispatched, S) \in Nat
    BY <2>1, <2>2, SumNat
  <2>4. Sum(Sent, S) \in Nat
    BY <2>1, <2>2, SumNat
  <2> QED
    BY <2>1, <2>3, <2>4
<1>4. /\ \A o : SentBy(o) \in SUBSET DOMAIN plan
      /\ \A r : SentOver(r) \in SUBSET DOMAIN plan
      /\ \A d : SentFor(d) \in SUBSET DOMAIN plan
      /\ \A p : SentFrom(p) \in SUBSET DOMAIN plan
  BY DEF SentBy, SentOver, SentFor, SentFrom
<1> QED
  BY <1>1, <1>2, <1>3, <1>4

(* Nothing is sent yet where nothing is planned.                            *)
LEMMA NothingPlanned ==
  ASSUME offers \in Seq(SupplyOffer), Stocks(lots, Nat), plan = <<>>
  PROVE  /\ \A o \in DOMAIN offers : BudgetLeft(o) >= 0
         /\ \A r \in DOMAIN Routes : RoomLeft(r) >= 0
         /\ \A d \in DOMAIN Demands : Sum(Sent, SentFor(d)) <= Shortage(Held, d)
<1>1. /\ \A o : SentBy(o) = {}
      /\ \A r : SentOver(r) = {}
      /\ \A d : SentFor(d) = {}
  BY DEF SentBy, SentOver, SentFor
<1>2. \A o \in DOMAIN offers : BudgetLeft(o) >= 0
  <2>1. \A o \in DOMAIN offers : BudgetLeft(o) = Budget(o) - 0 /\ Budget(o) \in Nat
    BY <1>1, BudgetFacts, SumEmpty DEF BudgetLeft
  <2> QED
    BY <2>1
<1>3. \A r \in DOMAIN Routes : RoomLeft(r) >= 0
  <2>1. \A r \in DOMAIN Routes : RoomLeft(r) = Routes[r].capacity - 0
                                  /\ Routes[r].capacity \in Nat
    BY <1>1, RouteFacts, SumEmpty DEF RoomLeft
  <2> QED
    BY <2>1
<1>4. \A d \in DOMAIN Demands : Sum(Sent, SentFor(d)) <= Shortage(Held, d)
  <2> SUFFICES ASSUME NEW d \in DOMAIN Demands
               PROVE  Sum(Sent, SentFor(d)) <= Shortage(Held, d)
    OBVIOUS
  <2>1. Place(d) \in Places /\ d \in DemandsAt(Place(d))
    BY DemandFacts DEF DemandsAt
  <2>2. Shortage(Held, d) \in Nat
    BY <2>1, HeldFacts
  <2>3. Sum(Sent, SentFor(d)) = 0
    BY <1>1, SumEmpty
  <2> QED
    BY <2>2, <2>3
<1> QED
  BY <1>2, <1>3, <1>4

LEMMA UnplannedBudgets ==
  offers \in Seq(SupplyOffer) /\ Stocks(lots, Nat) /\ plan = <<>> => WithinBudgets
BY NothingPlanned DEF WithinBudgets

LEMMA UnplannedBudgetsNext ==
  (offers \in Seq(SupplyOffer) /\ Stocks(lots, Nat) /\ plan = <<>>)' => WithinBudgets'
BY UnplannedBudgets, PTL

(* Where stock and offers stay, so do the budgets.                          *)
LEMMA SameOffers ==
  ASSUME UNCHANGED <<lots, offers>>
  PROVE  /\ Held' = Held /\ \A p : Stock(p)' = Stock(p)
         /\ \A o : Budget(o)' = Budget(o)
<1>1. Held' = Held /\ \A p : Stock(p)' = Stock(p)
  BY DEF Held, Stock
<1>2. Offered' = Offered
  BY DEF Offered
<1>3. \A p : Exportable(p)' = Exportable(p)
  BY <1>1 DEF Exportable
<1>4. \A o : Budget(o)' = Budget(o)
  BY <1>2, <1>3 DEF Budget
<1> QED
  BY <1>1, <1>4

(* Where stock, offers and plan stay, so does all that follows.             *)
LEMMA SameMarket ==
  ASSUME UNCHANGED <<lots, offers, plan>>
  PROVE  /\ Held' = Held /\ Dispatched' = Dispatched /\ Sent' = Sent
         /\ \A o : SentBy(o)' = SentBy(o) /\ Budget(o)' = Budget(o)
                   /\ BudgetLeft(o)' = BudgetLeft(o)
         /\ \A r : RoomLeft(r)' = RoomLeft(r)
         /\ \A d : SentFor(d)' = SentFor(d)
         /\ \A p : Shipped(p)' = Shipped(p) /\ Stock(p)' = Stock(p)
         /\ \A i \in DOMAIN plan : Fits(plan[i])' <=> Fits(plan[i])
<1>1. Held' = Held /\ \A p : Stock(p)' = Stock(p)
  BY SameOffers
<1>2. Dispatched' = Dispatched /\ Sent' = Sent
  BY DEF Dispatched, Sent
<1>5. \A o : Budget(o)' = Budget(o)
  BY SameOffers
<1>6. /\ \A o : SentBy(o)' = SentBy(o)
      /\ \A r : SentOver(r)' = SentOver(r)
      /\ \A d : SentFor(d)' = SentFor(d)
      /\ \A p : SentFrom(p)' = SentFrom(p)
  BY DEF SentBy, SentOver, SentFor, SentFrom
<1>7. \A o : BudgetLeft(o)' = BudgetLeft(o)
  BY <1>2, <1>5, <1>6 DEF BudgetLeft
<1>8. \A r : RoomLeft(r)' = RoomLeft(r)
  BY <1>2, <1>6 DEF RoomLeft
<1>9. \A p : Shipped(p)' = Shipped(p)
  BY <1>2, <1>6 DEF Shipped
<1>10. \A i \in DOMAIN plan : Fits(plan[i])' <=> Fits(plan[i])
  BY DEF Fits
<1> QED
  BY <1>1, <1>2, <1>5, <1>6, <1>7, <1>8, <1>9, <1>10

LEMMA SameSales ==
  ASSUME UNCHANGED <<lots, offers, plan, served, trades>>
  PROVE  /\ Brought' = Brought /\ Sold' = Sold
         /\ \A d : Remaining(d)' = Remaining(d)
         /\ \A p : SoldAt(p)' = SoldAt(p) /\ StillForSale(p)' = StillForSale(p)
         /\ \A o : SoldFrom(o)' = SoldFrom(o)
<1>1. Brought' = Brought
  BY SameMarket DEF Brought
<1>2. Sold' = Sold
  BY DEF Sold
<1>3. /\ \A d : OnTheSpot(d)' = OnTheSpot(d)
      /\ \A p : SoldAt(p)' = SoldAt(p)
      /\ \A o : SoldFrom(o)' = SoldFrom(o)
  BY DEF OnTheSpot, SoldAt, SoldFrom
<1>4. \A d : Remaining(d)' = Remaining(d)
  BY <1>2, <1>3 DEF Remaining
<1>5. \A p : StillForSale(p)' = StillForSale(p)
  BY <1>4 DEF StillForSale
<1> QED
  BY <1>1, <1>2, <1>3, <1>4, <1>5

(* Steps from the market on that leave the goods alone.                     *)
LEMMA RestKeeps ==
  ASSUME GoodsInv,
         UNCHANGED <<lots, made, days, wages, spoiled, offers, plan, trades, served, opened>>,
         stage' \in Stages, at' \in Nat, stage \notin Early, stage' \notin Early,
         stage = "market" <=> stage' = "market"
  PROVE  GoodsInv'
<1>0. TypeOK /\ ByStage /\ GoodsConserved /\ WithinBudgets /\ LocalNeedsUnharmed /\ SalesHold
  BY DEF GoodsInv
<1>1. stage' # "produce" /\ stage' \notin Making \cup {"storage"} /\ stage' \notin Making
      /\ (AfterMarket' <=> AfterMarket)
  <2>1. stage \in Stages
    BY <1>0 DEF TypeOK
  <2> QED
    BY <2>1 DEF Stages, Early, Making, AfterMarket
<1>2. TypeOK'
  BY <1>0, <1>1 DEF TypeOK, Receipt, Order
<1>3. ByStage'
  <2>1. Stocks(lots, Nat) /\ Stocks(lots, Nat \cup {Unknown})
    BY <1>0 DEF ByStage, Stocks
  <2> QED
    BY <1>0, <1>1, <2>1 DEF ByStage, Fits
<1>4. GoodsConserved'
  <2>1. \A g \in Goods : Losses(g)' = Losses(g) /\ (DOMAIN trades)' = DOMAIN trades
    BY DEF Losses
  <2> QED
    BY <1>0, <2>1, GoodsStay
<1>5. WithinBudgets'
  BY <1>0, SameMarket DEF WithinBudgets
<1>6. LocalNeedsUnharmed'
  <2>1. Brought' = Brought
    BY SameSales
  <2> QED
    BY <1>0, <1>1, <2>1 DEF LocalNeedsUnharmed
<1>7. SalesHold'
  BY <1>0, <1>1, SameMarket, SameSales DEF SalesHold
<1> QED
  BY <1>2, <1>3, <1>4, <1>5, <1>6, <1>7 DEF GoodsInv

LEMMA OpenMarketKeeps ==
  ASSUME GoodsInv, OpenMarket, UNCHANGED opened
  PROVE  GoodsInv'
<1>0. TypeOK /\ ByStage /\ GoodsConserved
  BY DEF GoodsInv
<1>1. /\ stage = "handling" /\ stage' = "market" /\ at' = 1 /\ made' = made
      /\ \A p \in DOMAIN lots : lots[p] # Unknown
      /\ MarketAccepted(offers') /\ lots' = lots /\ orders' = orders
      /\ wages' = wages /\ days' = days /\ opened' = opened
      /\ plan' = plan /\ spoiled' = spoiled /\ trades' = trades /\ served' = served
  BY DEF OpenMarket, productionVars
<1>2. Stocks(lots, Nat) /\ plan = <<>>
  BY <1>0, <1>1 DEF ByStage, Early, Making, Stocks
<1>3. offers' \in Seq(SupplyOffer)
  BY <1>1 DEF MarketAccepted
<1>4. plan' \in Seq(Order)'
  BY <1>1, <1>2
<1>5. TypeOK'
  BY <1>0, <1>1, <1>3, <1>4 DEF TypeOK, Stages, Receipt
<1>6. ByStage'
  BY <1>0, <1>1, <1>2 DEF ByStage, Early, Making, AfterMarket, Stocks
<1>7. GoodsConserved'
  <2>1. \A g \in Goods : Losses(g)' = Losses(g) /\ (DOMAIN trades)' = DOMAIN trades
    BY <1>1 DEF Losses
  <2> QED
    BY <1>0, <1>1, <2>1, GoodsStay
<1>8. WithinBudgets'
  <2>1. (offers \in Seq(SupplyOffer) /\ Stocks(lots, Nat) /\ plan = <<>>)'
    BY <1>1, <1>2, <1>3 DEF Stocks
  <2> QED
    BY <2>1, UnplannedBudgetsNext
<1>9. LocalNeedsUnharmed' /\ SalesHold'
  BY <1>1 DEF LocalNeedsUnharmed, SalesHold, AfterMarket
<1> QED
  BY <1>5, <1>6, <1>7, <1>8, <1>9 DEF GoodsInv

(* A dispatch is within what is offered and what the route takes, and       *)
(* delivers no more than is asked for.                                      *)
LEMMA DispatchFacts ==
  ASSUME NEW r \in DOMAIN Routes, NEW desired \in Nat, NEW available \in Nat,
         NEW room \in Nat, NEW q, q = DispatchForDelivery(r, desired, available, room)
  PROVE  q \in Nat /\ q <= available /\ q <= room /\ Delivery(r, q) <= desired
<1> DEFINE most == Min({available, room, Routes[r].capacity})
           kept == Scale - Routes[r].loss
           exact == Over(desired, kept)
           quotient == Lesser(most, exact)
           fits == {x \in 0 .. quotient : Delivery(r, x) <= desired}
<1>1. most \in Nat /\ most <= available /\ most <= room
  <2> DEFINE capacity == Routes[r].capacity
  <2>1. available \in Int /\ room \in Int /\ capacity \in Int /\ capacity \in Nat
    BY RouteFacts
  <2> HIDE DEF capacity
  <2>2. /\ Min({available, room, capacity}) \in {available, room, capacity}
        /\ Min({available, room, capacity}) <= available
        /\ Min({available, room, capacity}) <= room
    BY <2>1, MinOfFew
  <2> QED
    BY <2>1, <2>2 DEF capacity
<1>2. kept \in Nat \ {0} /\ Scale \in Nat
  BY RouteFacts, ScaleAssumption
<1> HIDE DEF most, kept
<1>3. exact \in Nat
  <2> DEFINE n == desired * Scale
  <2>1. n \in Int /\ n >= 0
    BY <1>2
  <2> HIDE DEF n
  <2>2. HalfEven(n, kept) \in Nat
    BY <1>2, <2>1, HalfEvenAbove
  <2> QED
    BY <2>2 DEF Over, n
<1> HIDE DEF exact
<1>4. quotient \in Nat /\ quotient <= most
  BY <1>1, <1>3 DEF Lesser
<1>5. q = IF desired = 0 \/ most = 0 THEN 0
          ELSE IF Delivery(r, most) <= desired THEN most ELSE Max(fits)
  BY DEF DispatchForDelivery, most, kept, exact
<1> HIDE DEF quotient
<1>6. Delivery(r, 0) = 0
  <2>1. 0 \in Nat
    OBVIOUS
  <2>2. Loss(r, 0) \in Nat /\ Loss(r, 0) <= 0
    BY <2>1, DeliveryFacts
  <2> QED
    BY <2>2 DEF Delivery
<1>7. CASE desired = 0 \/ most = 0
  BY <1>5, <1>6, <1>7
<1>8. CASE ~ (desired = 0 \/ most = 0) /\ Delivery(r, most) <= desired
  BY <1>1, <1>5, <1>8
<1>9. CASE ~ (desired = 0 \/ most = 0) /\ ~ (Delivery(r, most) <= desired)
  <2>1. fits \in SUBSET Int /\ 0 \in fits
    BY <1>4, <1>6
  <2>2. IsFiniteSet(fits)
    <3>1. 0 \in Int /\ quotient \in Int
      BY <1>4
    <3>2. IsFiniteSet(0 .. quotient)
      BY <3>1, FS_Interval
    <3> QED
      BY <3>2, FS_Subset
  <2>3. q = Max(fits)
    BY <1>5, <1>9
  <2>4. \A x \in fits : x \in Nat /\ x <= quotient /\ Delivery(r, x) <= desired
    BY <1>4
  <2> HIDE DEF fits
  <2>5. q \in fits
    BY <2>1, <2>2, <2>3, MaxOf
  <2>6. q \in Nat /\ q <= quotient /\ Delivery(r, q) <= desired
    BY <2>4, <2>5
  <2> QED
    BY <1>1, <1>4, <2>6
<1> QED
  BY <1>7, <1>8, <1>9

\* What a dispatch adds where it counts.
Where(same, n) == IF same THEN n ELSE 0

(* One more dispatch.                                                       *)
LEMMA PlanAppended ==
  ASSUME plan \in Seq(Order), NEW order \in Order, plan' = Append(plan, order),
         offers' = offers
  PROVE  /\ plan' \in Seq(Order)' /\ DOMAIN plan' = (DOMAIN plan) \cup {Len(plan) + 1}
         /\ plan'[Len(plan) + 1] = order
         /\ \A i \in DOMAIN plan : plan'[i] = plan[i]
         /\ \A o : Sum(Dispatched, SentBy(o))'
                     = Sum(Dispatched, SentBy(o)) + Where(order.offer = o, order.quantity)
         /\ \A r : Sum(Dispatched, SentOver(r))'
                     = Sum(Dispatched, SentOver(r)) + Where(order.route = r, order.quantity)
         /\ \A d : Sum(Sent, SentFor(d))'
                     = Sum(Sent, SentFor(d))
                       + Where(order.demand = d, Delivery(order.route, order.quantity))
<1> DEFINE k == Len(plan) + 1
           D == Dispatched
           E == Dispatched'
           F == Sent
           G == Sent'
<1>0. Order' = Order
  BY DEF Order
<1>1. /\ plan' \in Seq(Order) /\ DOMAIN plan' = (DOMAIN plan) \cup {k}
      /\ k \notin DOMAIN plan /\ plan'[k] = order
      /\ \A i \in DOMAIN plan : plan'[i] = plan[i]
  OBVIOUS
<1> HIDE DEF k
<1>2. /\ order.quantity \in Nat /\ order.route \in DOMAIN Routes
      /\ order.quantity \in Int /\ Delivery(order.route, order.quantity) \in Int
  <2>1. order.quantity \in Nat /\ order.route \in DOMAIN Routes
    BY DEF Order
  <2>2. Delivery(order.route, order.quantity) \in Nat
    BY <2>1, DeliveryFacts
  <2> QED
    BY <2>1, <2>2
<1>3. /\ E[k] = order.quantity /\ G[k] = Delivery(order.route, order.quantity)
      /\ \A i \in DOMAIN plan : E[i] = D[i] /\ G[i] = F[i]
  BY <1>1 DEF Dispatched, Sent
<1>4. /\ \A i \in DOMAIN plan : D[i] \in Int /\ F[i] \in Int
      /\ \A S \in SUBSET DOMAIN plan : IsFiniteSet(S) /\ k \notin S
  <2>1. \A i \in DOMAIN plan : D[i] \in Nat /\ F[i] \in Nat
    BY PlanFacts
  <2> QED
    BY <1>1, <2>1, PlanFacts
<1> HIDE DEF D, E, F, G
<1>5. ASSUME NEW S \in SUBSET DOMAIN plan
      PROVE  /\ Sum(E, S) = Sum(D, S) /\ Sum(G, S) = Sum(F, S)
             /\ Sum(E, S \cup {k}) = Sum(D, S) + order.quantity
             /\ Sum(G, S \cup {k}) = Sum(F, S) + Delivery(order.route, order.quantity)
             /\ Sum(D, S) \in Int /\ Sum(F, S) \in Int
  <2>1. /\ IsFiniteSet(S) /\ k \notin S /\ E[k] \in Int /\ G[k] \in Int
        /\ \A i \in S : D[i] \in Int /\ E[i] = D[i]
        /\ \A i \in S : F[i] \in Int /\ G[i] = F[i]
    BY <1>2, <1>3, <1>4
  <2>2. Sum(E, S \cup {k}) = Sum(D, S) + E[k] /\ Sum(D, S) \in Int
    BY <2>1, SumGrown
  <2>3. Sum(G, S \cup {k}) = Sum(F, S) + G[k] /\ Sum(F, S) \in Int
    BY <2>1, SumGrown
  <2>4. Sum(E, S) = Sum(D, S)
    BY <2>1, SumEqual
  <2>5. Sum(G, S) = Sum(F, S)
    BY <2>1, SumEqual
  <2> QED
    BY <1>3, <2>2, <2>3, <2>4, <2>5
<1>6. ASSUME NEW o
      PROVE  Sum(Dispatched, SentBy(o))'
               = Sum(Dispatched, SentBy(o)) + Where(order.offer = o, order.quantity)
  <2>1. SentBy(o) \in SUBSET DOMAIN plan
    BY DEF SentBy
  <2>2. SentBy(o)' = IF order.offer = o THEN SentBy(o) \cup {k} ELSE SentBy(o)
    BY <1>1 DEF SentBy
  <2>3. Sum(Dispatched, SentBy(o))' = Sum(E, SentBy(o)')
    BY DEF E
  <2>4. Sum(Dispatched, SentBy(o)) = Sum(D, SentBy(o))
    BY DEF D
  <2>5. /\ Sum(E, SentBy(o)) = Sum(D, SentBy(o)) /\ Sum(D, SentBy(o)) \in Int
        /\ Sum(E, SentBy(o) \cup {k}) = Sum(D, SentBy(o)) + order.quantity
    BY <1>5, <2>1
  <2>6. CASE order.offer = o
    BY <2>2, <2>3, <2>4, <2>5, <2>6 DEF Where
  <2>7. CASE order.offer # o
    BY <2>2, <2>3, <2>4, <2>5, <2>7 DEF Where
  <2> QED
    BY <2>6, <2>7
<1>7. ASSUME NEW r
      PROVE  Sum(Dispatched, SentOver(r))'
               = Sum(Dispatched, SentOver(r)) + Where(order.route = r, order.quantity)
  <2>1. SentOver(r) \in SUBSET DOMAIN plan
    BY DEF SentOver
  <2>2. SentOver(r)' = IF order.route = r THEN SentOver(r) \cup {k} ELSE SentOver(r)
    BY <1>1 DEF SentOver
  <2>3. Sum(Dispatched, SentOver(r))' = Sum(E, SentOver(r)')
    BY DEF E
  <2>4. Sum(Dispatched, SentOver(r)) = Sum(D, SentOver(r))
    BY DEF D
  <2>5. /\ Sum(E, SentOver(r)) = Sum(D, SentOver(r)) /\ Sum(D, SentOver(r)) \in Int
        /\ Sum(E, SentOver(r) \cup {k}) = Sum(D, SentOver(r)) + order.quantity
    BY <1>5, <2>1
  <2>6. CASE order.route = r
    BY <2>2, <2>3, <2>4, <2>5, <2>6 DEF Where
  <2>7. CASE order.route # r
    BY <2>2, <2>3, <2>4, <2>5, <2>7 DEF Where
  <2> QED
    BY <2>6, <2>7
<1>8. ASSUME NEW d
      PROVE  Sum(Sent, SentFor(d))'
               = Sum(Sent, SentFor(d))
                 + Where(order.demand = d, Delivery(order.route, order.quantity))
  <2>1. SentFor(d) \in SUBSET DOMAIN plan
    BY DEF SentFor
  <2>2. SentFor(d)' = IF order.demand = d THEN SentFor(d) \cup {k} ELSE SentFor(d)
    BY <1>1 DEF SentFor
  <2>3. Sum(Sent, SentFor(d))' = Sum(G, SentFor(d)')
    BY DEF G
  <2>4. Sum(Sent, SentFor(d)) = Sum(F, SentFor(d))
    BY DEF F
  <2>5. /\ Sum(G, SentFor(d)) = Sum(F, SentFor(d)) /\ Sum(F, SentFor(d)) \in Int
        /\ Sum(G, SentFor(d) \cup {k}) = Sum(F, SentFor(d)) + Delivery(order.route, order.quantity)
    BY <1>5, <2>1
  <2>6. CASE order.demand = d
    BY <2>2, <2>3, <2>4, <2>5, <2>6 DEF Where
  <2>7. CASE order.demand # d
    BY <2>2, <2>3, <2>4, <2>5, <2>7 DEF Where
  <2> QED
    BY <2>6, <2>7
<1> QED
  BY <1>0, <1>1, <1>6, <1>7, <1>8 DEF k

LEMMA PlanExportKeeps ==
  ASSUME GoodsInv, PlanExport, UNCHANGED opened
  PROVE  GoodsInv'
<1>0. TypeOK /\ ByStage /\ GoodsConserved /\ WithinBudgets
  BY DEF GoodsInv
<1>1. /\ stage = "market" /\ stage' = stage /\ at' = at /\ at \in DOMAIN Demands
      /\ Missing(at) > 0 /\ made' = made /\ lots' = lots /\ orders' = orders
      /\ wages' = wages /\ days' = days /\ opened' = opened /\ offers' = offers
      /\ spoiled' = spoiled /\ trades' = trades /\ served' = served
  BY DEF PlanExport, productionVars
<1>2. PICK c \in Candidates(at) :
        LET q == DispatchForDelivery(c[2], Missing(at), BudgetLeft(c[1]), RoomLeft(c[2]))
            order == [demand |-> at, offer |-> c[1], route |-> c[2], quantity |-> q]
        IN plan' = IF q = 0 THEN plan ELSE Append(plan, order)
  BY DEF PlanExport
<1> DEFINE o == c[1]
           r == c[2]
           q == DispatchForDelivery(r, Missing(at), BudgetLeft(o), RoomLeft(r))
           order == [demand |-> at, offer |-> o, route |-> r, quantity |-> q]
<1>3. /\ o \in DOMAIN offers /\ r \in DOMAIN Routes /\ BudgetLeft(o) > 0
      /\ From(r) = offers[o].place /\ To(r) = Place(at)
  BY DEF Candidates
<1>4. CASE plan' = plan
  <2>1. UNCHANGED <<lots, made, days, wages, spoiled, offers, plan, trades, served, opened>>
    BY <1>1, <1>4
  <2>2. stage' \in Stages /\ at' \in Nat /\ stage \notin Early /\ stage' \notin Early
        /\ (stage = "market" <=> stage' = "market")
    BY <1>0, <1>1 DEF TypeOK, Early, Making
  <2> QED
    BY <2>1, <2>2, RestKeeps
<1>5. CASE q # 0 /\ plan' = Append(plan, order)
  <2>1. /\ Stocks(lots, Nat) /\ offers \in Seq(SupplyOffer) /\ plan \in Seq(Order)
        /\ \A x \in DOMAIN offers : BudgetLeft(x) >= 0
        /\ \A x \in DOMAIN Routes : RoomLeft(x) >= 0
        /\ \A d \in DOMAIN Demands : Sum(Sent, SentFor(d)) <= Shortage(Held, d)
    BY <1>0, <1>1 DEF TypeOK, ByStage, WithinBudgets, Early, Making
  <2>2. \A x \in DOMAIN offers : /\ Budget(x) \in Int /\ Sum(Dispatched, SentBy(x)) \in Int
                                 /\ BudgetLeft(x) = Budget(x) - Sum(Dispatched, SentBy(x))
    <3>1. \A x \in DOMAIN offers : Budget(x) \in Nat
      BY <2>1, BudgetFacts
    <3>2. \A x : Sum(Dispatched, SentBy(x)) \in Nat
      BY <2>1, PlanFacts
    <3> QED
      BY <3>1, <3>2 DEF BudgetLeft
  <2>3. \A x \in DOMAIN Routes : /\ Routes[x].capacity \in Int
                                 /\ Sum(Dispatched, SentOver(x)) \in Int
                                 /\ RoomLeft(x) = Routes[x].capacity
                                                    - Sum(Dispatched, SentOver(x))
    <3>1. \A x \in DOMAIN Routes : Routes[x].capacity \in Nat
      BY RouteFacts
    <3>2. \A x : Sum(Dispatched, SentOver(x)) \in Nat
      BY <2>1, PlanFacts
    <3> QED
      BY <3>1, <3>2 DEF RoomLeft
  <2>4. \A d \in DOMAIN Demands : /\ Shortage(Held, d) \in Int /\ Sum(Sent, SentFor(d)) \in Int
                                  /\ Missing(d) = Shortage(Held, d) - Sum(Sent, SentFor(d))
    <3> SUFFICES ASSUME NEW d \in DOMAIN Demands
                 PROVE  /\ Shortage(Held, d) \in Int /\ Sum(Sent, SentFor(d)) \in Int
                        /\ Missing(d) = Shortage(Held, d) - Sum(Sent, SentFor(d))
      OBVIOUS
    <3>1. Place(d) \in Places /\ d \in DemandsAt(Place(d))
      BY DemandFacts DEF DemandsAt
    <3>2. Shortage(Held, d) \in Nat
      BY <2>1, <3>1, HeldFacts
    <3>3. Sum(Sent, SentFor(d)) \in Nat
      BY <2>1, PlanFacts
    <3> QED
      BY <2>1, <3>2, <3>3 DEF Missing, Larger
  <2>5. Missing(at) \in Nat /\ BudgetLeft(o) \in Nat /\ RoomLeft(r) \in Nat
    <3>1. Missing(at) \in Int /\ BudgetLeft(o) \in Int /\ RoomLeft(r) \in Int
      BY <1>1, <1>3, <2>2, <2>3, <2>4
    <3>2. Missing(at) >= 0 /\ BudgetLeft(o) >= 0 /\ RoomLeft(r) >= 0
      BY <1>1, <1>3, <2>1, <3>1
    <3> QED
      BY <3>1, <3>2
  <2>6. q \in Nat /\ q <= BudgetLeft(o) /\ q <= RoomLeft(r) /\ Delivery(r, q) <= Missing(at)
    <3> DEFINE desired == Missing(at)
               available == BudgetLeft(o)
               room == RoomLeft(r)
               n == DispatchForDelivery(r, desired, available, room)
    <3>1. desired \in Nat /\ available \in Nat /\ room \in Nat
      BY <2>5
    <3>2. n = DispatchForDelivery(r, desired, available, room)
      OBVIOUS
    <3> HIDE DEF desired, available, room, n
    <3>3. n \in Nat /\ n <= available /\ n <= room /\ Delivery(r, n) <= desired
      BY <1>3, <3>1, <3>2, DispatchFacts
    <3> QED
      BY <3>3 DEF desired, available, room, n
  <2> HIDE DEF q
  <2>7. order \in Order /\ Fits(order) /\ order.offer = o /\ order.route = r
        /\ order.demand = at /\ order.quantity = q
    BY <1>1, <1>3, <1>5, <2>6 DEF Order, Fits
  <2> HIDE DEF order, o, r
  <2>8. /\ plan' \in Seq(Order)' /\ DOMAIN plan' = (DOMAIN plan) \cup {Len(plan) + 1}
        /\ plan'[Len(plan) + 1] = order
        /\ \A i \in DOMAIN plan : plan'[i] = plan[i]
        /\ \A x : Sum(Dispatched, SentBy(x))'
                    = Sum(Dispatched, SentBy(x)) + Where(o = x, q)
        /\ \A x : Sum(Dispatched, SentOver(x))'
                    = Sum(Dispatched, SentOver(x)) + Where(r = x, q)
        /\ \A d : Sum(Sent, SentFor(d))'
                    = Sum(Sent, SentFor(d)) + Where(at = d, Delivery(r, q))
    <3>1. plan' = Append(plan, order) /\ offers' = offers
      BY <1>1, <1>5
    <3> QED
      BY <2>1, <2>7, <3>1, PlanAppended
  <2>9. /\ Held' = Held /\ \A x : Budget(x)' = Budget(x)
    BY <1>1, SameOffers
  <2>10. TypeOK'
    BY <1>0, <1>1, <2>8 DEF TypeOK, Receipt
  <2>11. ByStage'
    <3>1. (\A i \in DOMAIN plan : Fits(plan[i]))'
      <4>1. \A i \in DOMAIN plan' : Fits(plan'[i])
        BY <1>0, <2>7, <2>8 DEF ByStage
      <4> QED
        BY <1>1, <4>1 DEF Fits
    <3> QED
      BY <1>0, <1>1, <3>1 DEF ByStage, Early, Making, AfterMarket
  <2>12. GoodsConserved'
    <3>1. \A g \in Goods : Losses(g)' = Losses(g) /\ (DOMAIN trades)' = DOMAIN trades
      BY <1>1 DEF Losses
    <3> QED
      BY <1>0, <1>1, <3>1, GoodsStay
  <2>13. ASSUME NEW x \in DOMAIN offers PROVE BudgetLeft(x)' >= 0
    <3>1. BudgetLeft(x)' = Budget(x) - (Sum(Dispatched, SentBy(x)) + Where(o = x, q))
      BY <2>8, <2>9 DEF BudgetLeft
    <3>2. CASE o = x
      BY <2>2, <2>6, <3>1, <3>2 DEF Where
    <3>3. CASE o # x
      BY <2>1, <2>2, <3>1, <3>3 DEF Where
    <3> QED
      BY <3>2, <3>3
  <2>14. ASSUME NEW x \in DOMAIN Routes PROVE RoomLeft(x)' >= 0
    <3>1. RoomLeft(x)' = Routes[x].capacity - (Sum(Dispatched, SentOver(x)) + Where(r = x, q))
      BY <2>8 DEF RoomLeft
    <3>2. CASE r = x
      BY <2>3, <2>6, <3>1, <3>2 DEF Where
    <3>3. CASE r # x
      BY <2>1, <2>3, <3>1, <3>3 DEF Where
    <3> QED
      BY <3>2, <3>3
  <2>15. ASSUME NEW d \in DOMAIN Demands
         PROVE  Sum(Sent, SentFor(d))' <= Shortage(Held, d)'
    <3>1. /\ Shortage(Held, d)' = Shortage(Held, d)
          /\ Sum(Sent, SentFor(d))' = Sum(Sent, SentFor(d)) + Where(at = d, Delivery(r, q))
      BY <2>8, <2>9 DEF Shortage
    <3>2. CASE at = d
      <4>1. Delivery(r, q) \in Int
        BY <1>3, <2>6, DeliveryFacts
      <4> QED
        BY <2>4, <2>6, <3>1, <3>2, <4>1 DEF Where
    <3>3. CASE at # d
      BY <2>1, <2>4, <3>1, <3>3 DEF Where
    <3> QED
      BY <3>2, <3>3
  <2>16. WithinBudgets'
    BY <1>1, <2>13, <2>14, <2>15 DEF WithinBudgets
  <2>17. LocalNeedsUnharmed' /\ SalesHold'
    BY <1>1 DEF LocalNeedsUnharmed, SalesHold, AfterMarket
  <2> QED
    BY <2>10, <2>11, <2>12, <2>16, <2>17 DEF GoodsInv
<1> QED
  BY <1>2, <1>4, <1>5
-----------------------------------------------------------------------------
(* The second run of the month.                                             *)

\* What is left of the stock once the planned dispatches are on their way.
Left == [p \in Places |-> Held[p] - Shipped(p)]

(* What leaves a place is what may leave it.                                *)
LEMMA ShippedFacts ==
  ASSUME offers \in Seq(SupplyOffer), plan \in Seq(Order), Stocks(lots, Nat),
         \A i \in DOMAIN plan : Fits(plan[i]),
         \A o \in DOMAIN offers : BudgetLeft(o) >= 0, NEW p \in Places
  PROVE  Shipped(p) \in Nat /\ Shipped(p) <= Exportable(p)
<1> DEFINE S == OffersAt(p)
           T == SentFrom(p)
           f == [i \in T |-> plan[i].offer]
           F == Dispatched
           G == [o \in S |-> Sum(F, {t \in T : f[t] = o})]
           H == Budgets
<1>1. IsFiniteSet(S) /\ IsFiniteSet(T) /\ T \in SUBSET DOMAIN plan
  BY OfferFacts, PlanFacts
<1>2. \A t \in T : F[t] \in Int /\ f[t] \in S
  <2> SUFFICES ASSUME NEW t \in T PROVE F[t] \in Int /\ f[t] \in S
    OBVIOUS
  <2>1. t \in DOMAIN plan /\ From(plan[t].route) = p
    BY DEF SentFrom
  <2>2. plan[t].offer \in DOMAIN offers /\ F[t] \in Nat
    BY <2>1, PlanFacts
  <2>3. offers[plan[t].offer].place = p
    BY <2>1 DEF Fits
  <2> QED
    BY <2>1, <2>2, <2>3 DEF OffersAt
<1>3. \A o \in S : {t \in T : f[t] = o} = SentBy(o)
  <2> SUFFICES ASSUME NEW o \in S PROVE {t \in T : f[t] = o} = SentBy(o)
    OBVIOUS
  <2>1. offers[o].place = p
    BY DEF OffersAt
  <2>2. \A i \in DOMAIN plan : plan[i].offer = o => From(plan[i].route) = p
    BY <2>1 DEF Fits
  <2> QED
    BY <2>2 DEF SentBy, SentFrom
<1>4. \A o \in S : G[o] \in Int /\ H[o] \in Int /\ G[o] <= H[o]
  <2> SUFFICES ASSUME NEW o \in S PROVE G[o] \in Int /\ H[o] \in Int /\ G[o] <= H[o]
    OBVIOUS
  <2>1. o \in DOMAIN offers
    BY DEF OffersAt
  <2>2. G[o] = Sum(Dispatched, SentBy(o))
    BY <1>3
  <2>3. Sum(Dispatched, SentBy(o)) \in Nat
    BY PlanFacts
  <2>4. Budget(o) \in Nat /\ H[o] = Budget(o)
    BY <2>1, BudgetFacts DEF Budgets
  <2>5. Budget(o) - Sum(Dispatched, SentBy(o)) >= 0
    BY <2>1 DEF BudgetLeft
  <2> HIDE DEF G, H
  <2> QED
    BY <2>2, <2>3, <2>4, <2>5
<1>5. Shipped(p) = Sum(F, T) /\ Shipped(p) \in Nat
  BY PlanFacts DEF Shipped
<1>6. Sum(G, S) = Sum(F, T)
  <2> DEFINE P == [o \in S |-> SentBy(o)]
  <2>1. P \in [S -> SUBSET T]
    BY <1>3
  <2>2. \A o \in S : \A t \in T : t \in P[o] <=> f[t] = o
    BY <1>3
  <2>3. \A o \in S : G[o] = Sum(F, P[o])
    BY <1>3
  <2>4. f \in [T -> S]
    BY <1>2
  <2> HIDE DEF S, T, f, F, G, P
  <2> QED
    BY <1>1, <1>2, <2>1, <2>2, <2>3, <2>4, SumParts
<1>7. Sum(G, S) <= Sum(H, S)
  <2> HIDE DEF S, G, H
  <2> QED
    BY <1>1, <1>4, SumOrder
<1>8. Sum(H, S) \in Nat /\ Sum(H, S) <= Exportable(p) /\ Exportable(p) \in Nat
  BY BudgetFacts, HeldFacts
<1>9. Shipped(p) <= Sum(H, S)
  BY <1>5, <1>6, <1>7
<1> HIDE DEF H, S
<1> QED
  BY <1>5, <1>8, <1>9

(* Every demand gets of what is left what it would get of all there is.     *)
LEMMA LeftFacts ==
  ASSUME offers \in Seq(SupplyOffer), plan \in Seq(Order), Stocks(lots, Nat),
         \A i \in DOMAIN plan : Fits(plan[i]),
         \A o \in DOMAIN offers : BudgetLeft(o) >= 0, NEW p \in Places
  PROVE  /\ Left[p] = Held[p] - Shipped(p) /\ Left[p] \in Nat /\ Shipped(p) \in Nat
         /\ \A d \in DemandsAt(p) : Consumed(Left, d) = Consumed(Held, d)
         /\ Sum(Taken(Left), DemandsAt(p)) \in Nat
         /\ Sum(Taken(Left), DemandsAt(p)) <= Left[p]
         /\ p \notin DOMAIN lots => Shipped(p) = 0 /\ Sum(Taken(Left), DemandsAt(p)) = 0
<1> DEFINE t == Sum(Taken(Held), DemandsAt(p))
<1>1. Shipped(p) \in Nat /\ Shipped(p) <= Exportable(p)
  BY ShippedFacts
<1>2. Held[p] \in Nat /\ t \in Nat /\ t <= Held[p] /\ Exportable(p) = Held[p] - t
      /\ Held[p] = Stock(p)
  BY HeldFacts
<1>3. Left[p] = Held[p] - Shipped(p)
  BY DEF Left
<1>4. Left[p] \in Nat /\ Left[p] <= Held[p] /\ Held[p] - Left[p] <= Held[p] - t /\ t <= Left[p]
  <2> HIDE DEF t
  <2> QED
    BY <1>1, <1>2, <1>3
<1>5. \A d \in DemandsAt(p) : Consumed(Left, d) = Consumed(Held, d)
  <2> DEFINE more == Held
             less == Left
  <2>1. more[p] \in Nat /\ less[p] \in Nat /\ less[p] <= more[p]
        /\ more[p] - less[p] <= more[p] - Sum(Taken(more), DemandsAt(p))
    BY <1>2, <1>4
  <2> HIDE DEF more, less
  <2>2. \A d \in DemandsAt(p) : Consumed(less, d) = Consumed(more, d)
    BY <2>1, ConsumedAlike
  <2> QED
    BY <2>2 DEF more, less
<1>6. Sum(Taken(Left), DemandsAt(p)) = t
  <2> DEFINE D == DemandsAt(p)
             F == Taken(Left)
             G == Taken(Held)
  <2>1. \A d \in D : F[d] = G[d]
    BY <1>5 DEF Taken, DemandsAt
  <2>2. IsFiniteSet(D)
    BY SomeDemandsFinite
  <2> HIDE DEF D, F, G
  <2>3. Sum(F, D) = Sum(G, D)
    BY <2>1, <2>2, SumEqual
  <2> QED
    BY <2>3 DEF D, F, G
<1>7. p \notin DOMAIN lots => Held[p] = 0
  BY <1>2 DEF Stock
<1> HIDE DEF t
<1>8. p \notin DOMAIN lots => Shipped(p) = 0 /\ t = 0
  BY <1>1, <1>2, <1>7
<1> QED
  BY <1>1, <1>2, <1>3, <1>4, <1>5, <1>6, <1>8

(* What is added up by places, over the places of a good.                   *)
LEMMA DemandsByPlace ==
  ASSUME NEW g \in Goods, NEW F, NEW A, \A d \in DemandsFor(g) : F[d] \in Int,
         \A p \in PlacesOf(g) : A[p] = Sum(F, DemandsAt(p))
  PROVE  Sum(A, PlacesOf(g)) = Sum(F, DemandsFor(g))
<1> DEFINE S == PlacesOf(g)
           T == DemandsFor(g)
           f == [d \in T |-> Place(d)]
           P == [p \in S |-> DemandsAt(p)]
<1>1. IsFiniteSet(S) /\ IsFiniteSet(T) /\ T \subseteq DOMAIN Demands
  BY PlaceFacts, SomeDemandsFinite
<1>2. \A d \in T : Place(d) \in Places /\ Place(d)[2] = g
  BY <1>1, DemandFacts DEF DemandsFor
<1>3. f \in [T -> S]
  BY <1>2, PlaceFacts
<1>4. \A p \in S : \A d \in DOMAIN Demands : d \in DemandsAt(p) <=> Place(d) = p
  BY DEF DemandsAt
<1>5. P \in [S -> SUBSET T]
  <2> SUFFICES ASSUME NEW p \in S PROVE DemandsAt(p) \subseteq T
    OBVIOUS
  <2>1. p[2] = g
    BY PlaceFacts
  <2> QED
    BY <2>1, <1>4, DemandFacts DEF DemandsAt, DemandsFor
<1>6. \A p \in S : \A d \in T : d \in P[p] <=> f[d] = p
  BY <1>1, <1>4
<1>7. \A p \in S : A[p] = Sum(F, P[p])
  OBVIOUS
<1>8. \A d \in T : F[d] \in Int
  OBVIOUS
<1> HIDE DEF S, T, f, P
<1>9. Sum(A, S) = Sum(F, T)
  BY <1>1, <1>3, <1>5, <1>6, <1>7, <1>8, SumParts
<1> QED
  BY <1>9 DEF S, T

\* The dispatches of a good.
SentOf(g) == {i \in DOMAIN plan : Routes[plan[i].route].good = g}

LEMMA ShippedByPlace ==
  ASSUME plan \in Seq(Order), NEW g \in Goods, NEW A,
         \A p \in PlacesOf(g) : A[p] = Shipped(p)
  PROVE  Sum(A, PlacesOf(g)) = Sum(Dispatched, SentOf(g))
<1> DEFINE S == PlacesOf(g)
           T == SentOf(g)
           F == Dispatched
           f == [i \in T |-> From(plan[i].route)]
           P == [p \in S |-> SentFrom(p)]
<1>1. IsFiniteSet(S) /\ IsFiniteSet(T) /\ T \subseteq DOMAIN plan
  BY PlaceFacts, PlanFacts DEF SentOf
<1>2. \A i \in DOMAIN plan : /\ From(plan[i].route) \in Places
                             /\ From(plan[i].route)[2] = Routes[plan[i].route].good
  BY PlanFacts, RouteFacts
<1>3. f \in [T -> S]
  <2>1. \A i \in T : From(plan[i].route) \in S
    BY <1>1, <1>2, PlaceFacts DEF SentOf
  <2> QED
    BY <2>1
<1>4. P \in [S -> SUBSET T]
  <2> SUFFICES ASSUME NEW p \in S PROVE SentFrom(p) \subseteq T
    OBVIOUS
  <2>1. p[2] = g
    BY PlaceFacts
  <2> QED
    BY <2>1, <1>2 DEF SentFrom, SentOf
<1>5. \A p \in S : \A i \in T : i \in P[p] <=> f[i] = p
  BY <1>1 DEF SentFrom
<1>6. \A p \in S : A[p] = Sum(F, P[p])
  BY DEF Shipped
<1>7. \A i \in T : F[i] \in Int
  BY <1>1, PlanFacts
<1> HIDE DEF S, T, F, f, P
<1>8. Sum(A, S) = Sum(F, T)
  BY <1>1, <1>3, <1>4, <1>5, <1>6, <1>7, SumParts
<1> QED
  BY <1>8 DEF S, T, F

\* The receipts of the dispatches.
LEMMA InTransitFacts ==
  ASSUME TypeOK, NEW i \in DOMAIN plan
  PROVE  /\ InTransit(i) \in Receipt
         /\ InTransit(i).offer = plan[i].offer /\ InTransit(i).offer \in DOMAIN offers
         /\ InTransit(i).route = plan[i].route /\ InTransit(i).route # Nil
         /\ InTransit(i).offer # Nil
         /\ InTransit(i).good = Routes[plan[i].route].good
         /\ InTransit(i).quantity = plan[i].quantity /\ InTransit(i).status = "in_transit"
<1> DEFINE o == plan[i].offer
           d == plan[i].demand
           r == plan[i].route
           q == plan[i].quantity
<1>1. /\ r \in DOMAIN Routes /\ o \in DOMAIN offers /\ d \in DOMAIN Demands /\ q \in Nat
  BY PlanFacts DEF TypeOK
<1>2. offers[o].seller \in Businesses /\ o \in Nat
  BY <1>1, OfferFacts DEF TypeOK
<1>3. Demands[d].buyer \in Businesses
  BY <1>1, DemandFacts
<1>4. From(r) \in Places /\ From(r)[2] = Routes[r].good /\ Routes[r].cost \in Nat
  BY <1>1, RouteFacts
<1>5. Loss(r, q) \in Int /\ Times(q, Routes[r].cost) \in Int
  <2> HIDE DEF r, q
  <2>1. Loss(r, q) \in Nat /\ Times(q, Routes[r].cost) \in Nat
    BY <1>1, <1>4, DeliveryFacts, TimesNat
  <2> QED
    BY <2>1
<1>6. r # Nil /\ o # Nil
  BY <1>1, <1>2, MarketAssumption
<1>7. d \in SomeDemand /\ o \in SomeOffer /\ r \in SomeRoute /\ "in_transit" \in Status
  BY <1>1, <1>2 DEF SomeDemand, SomeOffer, SomeRoute, Status
<1>8. InTransit(i) = Trade(d, o, offers[o].seller, Demands[d].buyer, r, From(r), q,
                           Loss(r, q), Times(q, Routes[r].cost), "in_transit")
  BY DEF InTransit
<1>9. q \in Int
  BY <1>1
<1> HIDE DEF o, d, r, q
<1>10. /\ InTransit(i) \in Receipt
       /\ InTransit(i).offer = o /\ InTransit(i).route = r /\ InTransit(i).good = From(r)[2]
       /\ InTransit(i).quantity = q /\ InTransit(i).status = "in_transit"
  BY <1>2, <1>3, <1>4, <1>5, <1>7, <1>8, <1>9, TradeType
<1> QED
  BY <1>1, <1>4, <1>6, <1>10 DEF o, r, q

\* The receipts of the second run join those of the handling.
Joined == trades' = trades \o [i \in DOMAIN plan |-> InTransit(i)]

LEMMA ReceiptsJoined ==
  ASSUME TypeOK, Joined
  PROVE  /\ trades' \in Seq(Receipt)
         /\ \A i \in DOMAIN trades : i \in DOMAIN trades' /\ trades'[i] = trades[i]
         /\ \A j \in DOMAIN plan : trades'[Len(trades) + j] = InTransit(j)
         /\ \A S \in SUBSET DOMAIN plan : S \subseteq Nat \ {0}
         /\ \A x : x \in DOMAIN trades' <=> x \in DOMAIN trades
                                             \/ (\E j \in DOMAIN plan : x = Len(trades) + j)
<1> DEFINE new == [i \in DOMAIN plan |-> InTransit(i)]
<1>1. /\ trades \in Seq(Receipt) /\ Len(trades) \in Nat /\ DOMAIN trades = 1 .. Len(trades)
      /\ Len(plan) \in Nat /\ DOMAIN plan = 1 .. Len(plan)
  BY IndicesFinite DEF TypeOK
<1>2. new \in Seq(Receipt) /\ Len(new) = Len(plan) /\ DOMAIN new = DOMAIN plan
      /\ \A j \in DOMAIN plan : new[j] = InTransit(j)
  BY <1>1, InTransitFacts
<1>3. trades' = trades \o new
  BY DEF Joined
<1> HIDE DEF new
<1>4. trades' \in Seq(Receipt) /\ DOMAIN trades' = 1 .. (Len(trades) + Len(plan))
  <2>1. trades \o new \in Seq(Receipt)
    BY <1>1, <1>2
  <2>2. Len(trades \o new) = Len(trades) + Len(plan)
    BY <1>1, <1>2
  <2>3. DOMAIN (trades \o new) = 1 .. Len(trades \o new)
    BY <2>1
  <2> QED
    BY <1>3, <2>1, <2>2, <2>3
<1>5. \A i \in DOMAIN trades : trades'[i] = trades[i]
  BY <1>1, <1>2, <1>3
<1>6. \A j \in DOMAIN plan : trades'[Len(trades) + j] = new[j]
  BY <1>1, <1>2, <1>3
<1>7. \A x : x \in DOMAIN trades' <=> x \in DOMAIN trades
                                       \/ (\E j \in DOMAIN plan : x = Len(trades) + j)
  <2> SUFFICES ASSUME NEW x
               PROVE  x \in DOMAIN trades' <=> x \in DOMAIN trades
                                       \/ (\E j \in DOMAIN plan : x = Len(trades) + j)
    OBVIOUS
  <2>1. ASSUME x \in DOMAIN trades', x \notin DOMAIN trades
        PROVE  \E j \in DOMAIN plan : x = Len(trades) + j
    <3>1. x - Len(trades) \in DOMAIN plan /\ x = Len(trades) + (x - Len(trades))
      BY <1>1, <1>4, <2>1
    <3> QED
      BY <3>1
  <2>2. ASSUME NEW j \in DOMAIN plan, x = Len(trades) + j PROVE x \in DOMAIN trades'
    BY <1>1, <1>4, <2>2
  <2>3. x \in DOMAIN trades => x \in DOMAIN trades'
    BY <1>1, <1>4
  <2> QED
    BY <2>1, <2>2, <2>3
<1> QED
  BY <1>1, <1>2, <1>4, <1>5, <1>6, <1>7

\* A set of new receipts, by the dispatches they are for.
LEMMA NewReceipts ==
  ASSUME TypeOK, Joined, NEW T \in SUBSET DOMAIN plan, NEW U,
         \A x : x \in U <=> \E j \in T : x = Len(trades) + j
  PROVE  Sum(Sold', U) = Sum(Dispatched, T)
<1> DEFINE n == Len(trades)
<1>1. MovedOn(n, {}, T, U)
  <2>1. n \in Nat
    BY IndicesFinite DEF TypeOK
  <2>2. T \subseteq Nat \ {0}
    BY ReceiptsJoined
  <2> QED
    BY <2>1, <2>2 DEF MovedOn
<1>2. Continues(Sold', n, T, Dispatched)
  <2> SUFFICES ASSUME NEW j \in T
               PROVE  Dispatched[j] \in Int /\ Sold'[n + j] = Dispatched[j]
    BY DEF Continues
  <2>1. n + j \in DOMAIN trades' /\ trades'[n + j] = InTransit(j)
    BY ReceiptsJoined
  <2>2. InTransit(j).quantity = plan[j].quantity /\ Dispatched[j] = plan[j].quantity
        /\ Dispatched[j] \in Nat
    BY InTransitFacts, PlanFacts DEF TypeOK
  <2> QED
    BY <2>1, <2>2 DEF Sold
<1>3. IsFiniteSet(T)
  BY PlanFacts DEF TypeOK
<1> DEFINE H == Sold'
<1>4. Continues(H, n, T, Dispatched)
  BY <1>2
<1> HIDE DEF n, H
<1>5. Sum(H, U) = Sum(Dispatched, T)
  BY <1>1, <1>3, <1>4, SumMoved
<1> QED
  BY <1>5 DEF H

LEMMA ReceiptSums ==
  ASSUME TypeOK, Joined, UNCHANGED offers, \A i \in DOMAIN plan : Fits(plan[i]),
         \A i \in DOMAIN trades : trades[i].offer = Nil /\ trades[i].route # Nil
  PROVE  /\ \A p : Sum(Sold, SoldAt(p))' = Shipped(p)
         /\ \A o \in DOMAIN offers : Sum(Sold, SoldFrom(o))' = Sum(Dispatched, SentBy(o))
         /\ \A d : OnTheSpot(d)' = {}
         /\ \A i \in DOMAIN trades' : trades'[i].offer # Nil => trades'[i].offer \in DOMAIN offers
<1>1. \A j \in DOMAIN plan :
        /\ Len(trades) + j \in DOMAIN trades'
        /\ trades'[Len(trades) + j].offer = plan[j].offer
        /\ plan[j].offer \in DOMAIN offers /\ plan[j].offer # Nil
        /\ trades'[Len(trades) + j].route # Nil
        /\ offers[plan[j].offer].place = From(plan[j].route)
  BY ReceiptsJoined, InTransitFacts DEF Fits
<1>2. \A i \in DOMAIN trades : /\ i \in DOMAIN trades'
                               /\ trades'[i].offer = Nil /\ trades'[i].route # Nil
  BY ReceiptsJoined
<1>3. \A x \in DOMAIN trades' : x \in DOMAIN trades
                                 \/ (\E j \in DOMAIN plan : x = Len(trades) + j)
  BY ReceiptsJoined
<1>4. ASSUME NEW p PROVE Sum(Sold, SoldAt(p))' = Shipped(p)
  <2>1. \A x : x \in SoldAt(p)' <=> \E j \in SentFrom(p) : x = Len(trades) + j
    BY <1>1, <1>2, <1>3 DEF SoldAt, SentFrom
  <2>2. SentFrom(p) \in SUBSET DOMAIN plan
    BY DEF SentFrom
  <2> QED
    BY <2>1, <2>2, NewReceipts DEF Shipped
<1>5. ASSUME NEW o \in DOMAIN offers
      PROVE  Sum(Sold, SoldFrom(o))' = Sum(Dispatched, SentBy(o))
  <2>1. o # Nil
    BY OfferFacts, MarketAssumption DEF TypeOK
  <2>2. \A x : x \in SoldFrom(o)' <=> \E j \in SentBy(o) : x = Len(trades) + j
    BY <1>1, <1>2, <1>3, <2>1 DEF SoldFrom, SentBy
  <2>3. SentBy(o) \in SUBSET DOMAIN plan
    BY DEF SentBy
  <2> QED
    BY <2>2, <2>3, NewReceipts
<1>6. \A d : OnTheSpot(d)' = {}
  BY <1>1, <1>2, <1>3 DEF OnTheSpot
<1>7. \A i \in DOMAIN trades' : trades'[i].offer # Nil => trades'[i].offer \in DOMAIN offers
  BY <1>1, <1>2, <1>3
<1> QED
  BY <1>4, <1>5, <1>6, <1>7

LEMMA UnderWay ==
  ASSUME TypeOK, Joined, NEW g \in Goods
  PROVE  /\ Sum(Losses(g), DOMAIN trades)'
              = Sum(Losses(g), DOMAIN trades) + Sum(Dispatched, SentOf(g))
         /\ Sum(Dispatched, SentOf(g)) \in Nat
<1> DEFINE n == Len(trades)
           S == DOMAIN trades
           T == DOMAIN plan
           U == DOMAIN trades'
           F == Losses(g)
           H == Losses(g)'
           G == [i \in T |-> IF Routes[plan[i].route].good = g THEN plan[i].quantity ELSE 0]
<1>1. n \in Nat /\ IsFiniteSet(S) /\ S \subseteq 1 .. n
  BY IndicesFinite DEF TypeOK
<1>2. IsFiniteSet(T) /\ T \subseteq Nat \ {0}
  BY ReceiptsJoined, PlanFacts DEF TypeOK
<1>3. MovedOn(n, S, T, U)
  BY <1>1, <1>2, ReceiptsJoined DEF MovedOn
<1>4. \A i \in S : F[i] \in Int /\ H[i] = F[i]
  <2> SUFFICES ASSUME NEW i \in DOMAIN trades PROVE F[i] \in Int /\ H[i] = F[i]
    OBVIOUS
  <2>1. i \in DOMAIN trades' /\ trades'[i] = trades[i]
    BY ReceiptsJoined
  <2>2. F[i] \in Int
    BY TermTypes
  <2> QED
    BY <2>1, <2>2 DEF Losses
<1>5. Continues(H, n, T, G)
  <2> SUFFICES ASSUME NEW j \in T PROVE G[j] \in Int /\ H[n + j] = G[j]
    BY DEF Continues
  <2>1. n + j \in DOMAIN trades' /\ trades'[n + j] = InTransit(j)
    BY ReceiptsJoined
  <2>2. /\ InTransit(j).quantity = plan[j].quantity /\ InTransit(j).route # Nil
        /\ InTransit(j).good = Routes[plan[j].route].good
        /\ InTransit(j).status = "in_transit" /\ plan[j].quantity \in Nat
    BY InTransitFacts, PlanFacts DEF TypeOK
  <2> QED
    BY <2>1, <2>2 DEF Losses
<1>6. Sum(G, T) = Sum(Dispatched, SentOf(g))
  <2> DEFINE V == SentOf(g)
             D == Dispatched
  <2>1. V \in SUBSET T
    BY DEF SentOf
  <2>2. \A i \in V : G[i] \in Int /\ D[i] = G[i]
    BY <2>1, PlanFacts DEF SentOf, TypeOK
  <2>3. \A i \in T \ V : G[i] = 0
    BY DEF SentOf
  <2>4. IsFiniteSet(T)
    BY <1>2
  <2> HIDE DEF T, G, V, D
  <2>5. Sum(G, T) = Sum(D, V)
    BY <2>1, <2>2, <2>3, <2>4, SumWithin
  <2> QED
    BY <2>5 DEF V, D
<1>7. Sum(Dispatched, SentOf(g)) \in Nat
  <2>1. SentOf(g) \in SUBSET DOMAIN plan
    BY DEF SentOf
  <2> QED
    BY <2>1, PlanFacts DEF TypeOK
<1>8. Sum(H, U) = Sum(F, S) + Sum(G, T)
  <2>1. IsFiniteSet(S)
    BY <1>1
  <2>2. IsFiniteSet(T)
    BY <1>2
  <2> HIDE DEF n, S, T, U, F, G, H
  <2> QED
    BY <2>1, <2>2, <1>3, <1>4, <1>5, SumJoined
<1> QED
  BY <1>6, <1>7, <1>8

(* What the second run leaves, consumes and sends away is what there was.   *)
LEMMA ResolveStock ==
  ASSUME GoodsInv, ResolveMarket, UNCHANGED opened
  PROVE  /\ Stocks(lots', Nat) /\ Stocks(lots', Amounts)
         /\ served' = Taken(Left)
         /\ \A d \in DOMAIN Demands :
              served'[d] \in Nat /\ served'[d] = Consumed(Held, d)
         /\ \A p \in Places :
              Stock(p)' + Sum(served', DemandsAt(p)) + Shipped(p) = Held[p]
         /\ \A g \in Goods :
              TotalOf(lots', g) = TotalOf(lots, g) - Sum(served', DemandsFor(g))
                                  - Sum(Dispatched, SentOf(g))
<1>1. /\ offers \in Seq(SupplyOffer) /\ plan \in Seq(Order) /\ Stocks(lots, Nat)
      /\ \A i \in DOMAIN plan : Fits(plan[i])
      /\ \A o \in DOMAIN offers : BudgetLeft(o) >= 0
  BY DEF GoodsInv, TypeOK, ByStage, ResolveMarket, WithinBudgets, Early, Making
<1>2. /\ served' = Taken(Left)
      /\ lots' = [p \in DOMAIN lots |-> Left[p] - Sum(Taken(Left), DemandsAt(p))]
  BY DEF ResolveMarket, Left, Taken
<1>3. DOMAIN lots \subseteq Places
  BY <1>1 DEF Stocks
<1>4. ASSUME NEW p \in Places
      PROVE  /\ Left[p] = Held[p] - Shipped(p) /\ Left[p] \in Nat /\ Shipped(p) \in Nat
             /\ \A d \in DemandsAt(p) : Consumed(Left, d) = Consumed(Held, d)
             /\ Sum(Taken(Left), DemandsAt(p)) \in Nat
             /\ Sum(Taken(Left), DemandsAt(p)) <= Left[p]
             /\ p \notin DOMAIN lots => Shipped(p) = 0 /\ Sum(Taken(Left), DemandsAt(p)) = 0
             /\ Held[p] = Stock(p) /\ Held[p] \in Nat
             /\ \A d \in DemandsAt(p) : Consumed(Held, d) \in Nat
  BY <1>1, LeftFacts, HeldFacts
<1>5. DOMAIN lots' = DOMAIN lots
      /\ \A p \in DOMAIN lots : lots'[p] = Left[p] - Sum(Taken(Left), DemandsAt(p))
  BY <1>2
<1>6. \A p \in DOMAIN lots : lots'[p] \in Nat
  BY <1>3, <1>4, <1>5
<1>7. Stocks(lots', Nat) /\ Stocks(lots', Amounts)
  <2>1. lots' \in [DOMAIN lots' -> Nat] /\ lots' \in [DOMAIN lots' -> Amounts]
    BY <1>2, <1>5, <1>6 DEF Amounts
  <2> QED
    BY <1>3, <1>5, <2>1 DEF Stocks
<1>8. ASSUME NEW d \in DOMAIN Demands
      PROVE  served'[d] \in Nat /\ served'[d] = Consumed(Held, d)
  <2>1. Place(d) \in Places /\ d \in DemandsAt(Place(d))
    BY DemandFacts DEF DemandsAt
  <2> QED
    BY <1>2, <1>4, <2>1 DEF Taken
<1>9. ASSUME NEW p \in Places
      PROVE  Stock(p)' + Sum(served', DemandsAt(p)) + Shipped(p) = Held[p]
  <2>1. Stock(p)' = Left[p] - Sum(Taken(Left), DemandsAt(p))
    <3>1. CASE p \in DOMAIN lots
      BY <1>5, <3>1 DEF Stock
    <3>2. CASE p \notin DOMAIN lots
      <4>1. Stock(p)' = 0 /\ Stock(p) = 0
        BY <1>5, <3>2 DEF Stock
      <4> QED
        BY <1>4, <3>2, <4>1
    <3> QED
      BY <3>1, <3>2
  <2> QED
    BY <1>2, <1>4, <2>1
<1>10. ASSUME NEW g \in Goods
       PROVE  TotalOf(lots', g) = TotalOf(lots, g) - Sum(served', DemandsFor(g))
                                  - Sum(Dispatched, SentOf(g))
  <2> DEFINE X == PlacesOf(g)
             A == [p \in Places |-> Sum(served', DemandsAt(p))]
             B == [p \in Places |-> Shipped(p)]
             D == [p \in Places |-> A[p] + B[p]]
             old == lots'
             new == lots
  <2>1. X \subseteq Places /\ IsFiniteSet(X)
    BY PlaceFacts
  <2>2. \A p \in Places : A[p] \in Int /\ B[p] \in Int
    BY <1>2, <1>4
  <2>3. \A p \in X : A[p] \in Int /\ B[p] \in Int /\ D[p] = A[p] + B[p] /\ D[p] \in Int
    BY <2>1, <2>2
  <2>4. \A p \in X : D[p] \in Int /\ Known(new)[p] = Known(old)[p] + D[p]
    <3> SUFFICES ASSUME NEW p \in X PROVE Known(new)[p] = Known(old)[p] + D[p]
      BY <2>3
    <3>1. p \in Places
      BY <2>1
    <3>2. Known(lots)[p] = Stock(p) /\ Known(lots')[p] = Stock(p)'
      <4>1. \A q \in DOMAIN lots : lots[q] # Unknown /\ lots'[q] # Unknown
        BY <1>1, <1>6, ProductionAssumption DEF Stocks
      <4> QED
        BY <1>5, <3>1, <4>1 DEF Known, Stock
    <3>3. D[p] = Sum(served', DemandsAt(p)) + Shipped(p)
      BY <3>1
    <3>4. Known(lots')[p] \in Int /\ D[p] \in Int
      BY <1>7, <2>3, <3>1, KnownFacts
    <3>5. Sum(served', DemandsAt(p)) \in Int /\ Shipped(p) \in Int
      BY <1>2, <1>4, <3>1
    <3> HIDE DEF D
    <3> QED
      BY <1>4, <1>9, <3>1, <3>2, <3>3, <3>4, <3>5
  <2>5. Sum(A, X) = Sum(served', DemandsFor(g))
    <3> DEFINE F == served'
    <3>1. \A d \in DemandsFor(g) : F[d] \in Int
      BY <1>8, SomeDemandsFinite
    <3>2. \A p \in PlacesOf(g) : A[p] = Sum(F, DemandsAt(p))
      BY <2>1
    <3> HIDE DEF F, A
    <3>3. Sum(A, PlacesOf(g)) = Sum(F, DemandsFor(g))
      BY <3>1, <3>2, DemandsByPlace
    <3> QED
      BY <3>3 DEF F
  <2>6. Sum(B, X) = Sum(Dispatched, SentOf(g))
    <3>1. \A p \in PlacesOf(g) : B[p] = Shipped(p)
      BY <2>1
    <3> HIDE DEF B
    <3>2. Sum(B, PlacesOf(g)) = Sum(Dispatched, SentOf(g))
      BY <1>1, <3>1, ShippedByPlace
    <3> QED
      BY <3>2
  <2>7. Sum(D, X) = Sum(A, X) + Sum(B, X) /\ Sum(A, X) \in Int /\ Sum(B, X) \in Int
    <3>1. \A p \in X : A[p] \in Int /\ B[p] \in Int /\ D[p] = A[p] + B[p]
      BY <2>3
    <3> HIDE DEF A, B, D, X
    <3> QED
      BY <2>1, <3>1, SumPlus, SumType
  <2>8. /\ TotalOf(new, g) = TotalOf(old, g) + Sum(D, X)
        /\ TotalOf(old, g) \in Int /\ TotalOf(new, g) \in Int
    <3>1. \A p \in PlacesOf(g) : D[p] \in Int /\ Known(new)[p] = Known(old)[p] + D[p]
      BY <2>4
    <3>2. Stocks(old, Amounts)
      BY <1>7
    <3> HIDE DEF A, B, D, old, new
    <3> QED
      BY <3>1, <3>2, TotalChange
  <2> HIDE DEF A, B, D, X
  <2> QED
    BY <2>5, <2>6, <2>7, <2>8
<1> QED
  BY <1>2, <1>7, <1>8, <1>9, <1>10

(* Nothing has been sold on the spot yet: what is consumed is what is for sale. *)
LEMMA ResolvedSales ==
  ASSUME GoodsInv, ResolveMarket, UNCHANGED opened
  PROVE  LocalNeedsUnharmed' /\ SalesHold'
<1>1. /\ TypeOK /\ UNCHANGED <<offers, plan>> /\ Joined
      /\ offers \in Seq(SupplyOffer) /\ plan \in Seq(Order) /\ Stocks(lots, Nat)
      /\ \A i \in DOMAIN plan : Fits(plan[i])
      /\ \A i \in DOMAIN trades : trades[i].offer = Nil /\ trades[i].route # Nil
      /\ \A o \in DOMAIN offers : BudgetLeft(o) >= 0
      /\ \A d \in DOMAIN Demands : Sum(Sent, SentFor(d)) <= Shortage(Held, d)
  BY DEF GoodsInv, TypeOK, ByStage, ResolveMarket, WithinBudgets, Early, Making, Joined,
         AfterMarket
<1>2. /\ Stocks(lots', Nat) /\ served' = Taken(Left)
      /\ \A d \in DOMAIN Demands : served'[d] \in Nat /\ served'[d] = Consumed(Held, d)
      /\ \A p \in Places : Stock(p)' + Sum(served', DemandsAt(p)) + Shipped(p) = Held[p]
  BY ResolveStock
<1>3. /\ \A p : Sum(Sold, SoldAt(p))' = Shipped(p)
      /\ \A o \in DOMAIN offers : Sum(Sold, SoldFrom(o))' = Sum(Dispatched, SentBy(o))
      /\ \A d : OnTheSpot(d)' = {}
      /\ \A i \in DOMAIN trades' : trades'[i].offer # Nil => trades'[i].offer \in DOMAIN offers
  BY <1>1, ReceiptSums
<1>4. /\ \A p : Shipped(p)' = Shipped(p)
      /\ \A d : SentFor(d)' = SentFor(d)
      /\ Sent' = Sent
  BY <1>1 DEF Shipped, SentFor, Sent, SentFrom, Dispatched
<1>5. \A p \in Places : Brought'[p] = Held[p]
  BY <1>2, <1>4 DEF Brought
<1>6. \A d \in DOMAIN Demands : Consumed(Brought', d) = Consumed(Held, d)
  <2> SUFFICES ASSUME NEW d \in DOMAIN Demands
               PROVE  Consumed(Brought', d) = Consumed(Held, d)
    OBVIOUS
  <2>1. Place(d) \in Places
    BY DemandFacts
  <2>2. Brought'[Place(d)] = Held[Place(d)]
    BY <1>5, <2>1
  <2> QED
    BY <2>2 DEF Consumed
<1>7. LocalNeedsUnharmed'
  BY <1>2, <1>6 DEF LocalNeedsUnharmed, Consumed, Admitted
<1>8. \A d \in DOMAIN Demands : Remaining(d)' = served'[d]
  <2> SUFFICES ASSUME NEW d \in DOMAIN Demands PROVE Remaining(d)' = served'[d]
    OBVIOUS
  <2>1. Sum(Sold', {}) = 0
    BY SumEmpty
  <2>2. OnTheSpot(d)' = {}
    BY <1>3
  <2>3. Remaining(d)' = served'[d] - Sum(Sold', {})
    BY <2>2 DEF Remaining
  <2>4. served'[d] \in Nat
    BY <1>2
  <2> QED
    BY <2>1, <2>3, <2>4
<1>9. ASSUME NEW p \in Places
      PROVE  Sum(Sold, SoldAt(p))' + StillForSale(p)' <= Brought'[p]
  <2>1. StillForSale(p)' = Sum(served', DemandsAt(p))
    <3> DEFINE R == [d \in DOMAIN Demands |-> Remaining(d)']
               F == served'
               S == DemandsAt(p)
    <3>1. \A d \in S : R[d] = F[d]
      BY <1>8, SomeDemandsFinite
    <3>2. IsFiniteSet(S)
      BY SomeDemandsFinite
    <3>3. StillForSale(p)' = Sum(R, S)
      BY DEF StillForSale
    <3> HIDE DEF R, F, S
    <3>4. Sum(R, S) = Sum(F, S)
      BY <3>1, <3>2, SumEqual
    <3> QED
      BY <3>3, <3>4 DEF F, S
  <2>2. Stock(p)' \in Nat
    <3>1. CASE p \in DOMAIN lots'
      BY <1>2, <3>1 DEF Stock, Stocks
    <3>2. CASE p \notin DOMAIN lots'
      BY <3>2 DEF Stock
    <3> QED
      BY <3>1, <3>2
  <2>3. Sum(served', DemandsAt(p)) \in Nat /\ Shipped(p) \in Nat
    BY <1>1, <1>2, LeftFacts
  <2> QED
    BY <1>2, <1>3, <1>5, <2>1, <2>2, <2>3
<1>10. ASSUME NEW o \in DOMAIN offers
       PROVE  Sum(Sold, SoldFrom(o))' <= offers[o].quantity
  <2>1. Budget(o) \in Nat /\ Budget(o) <= offers[o].quantity /\ offers[o].quantity \in Nat
    BY <1>1, BudgetFacts, OfferFacts
  <2>2. Budget(o) - Sum(Dispatched, SentBy(o)) >= 0
    BY <1>1 DEF BudgetLeft
  <2>3. Sum(Dispatched, SentBy(o)) \in Nat
    BY <1>1, PlanFacts
  <2> QED
    BY <1>3, <2>1, <2>2, <2>3
<1>11. ASSUME NEW d \in DOMAIN Demands
       PROVE  served'[d] + Sum(Sent, SentFor(d)) <= Demands[d].quantity
  <2>1. Sum(Sent, SentFor(d)) \in Nat
    BY <1>1, PlanFacts
  <2>2. Sum(Sent, SentFor(d)) <= Demands[d].quantity - Consumed(Held, d)
    BY <1>1 DEF Shortage
  <2>3. Demands[d].quantity \in Nat
    BY DemandFacts
  <2> QED
    BY <1>2, <2>1, <2>2, <2>3
<1>12. SalesHold'
  <2>1. \A d \in DOMAIN Demands : Remaining(d)' >= 0
    BY <1>2, <1>8
  <2>2. \A d \in DOMAIN Demands : served'[d] + Sum(Sent', SentFor(d)') <= Demands[d].quantity
    BY <1>4, <1>11
  <2> QED
    BY <1>1, <1>3, <1>9, <1>10, <2>1, <2>2 DEF SalesHold
<1> QED
  BY <1>7, <1>12

LEMMA ResolveKeeps ==
  ASSUME GoodsInv, ResolveMarket, UNCHANGED opened
  PROVE  GoodsInv'
<1>1. /\ TypeOK /\ ByStage /\ GoodsConserved /\ stage = "market" /\ stage' = "local"
      /\ at' = 1 /\ UNCHANGED <<made, days, wages, spoiled, offers, plan>> /\ Joined
      /\ \A d \in DOMAIN Demands : served[d] = 0
      /\ \A i \in DOMAIN plan : Fits(plan[i])
  BY DEF GoodsInv, ByStage, ResolveMarket, productionVars, Joined, AfterMarket
<1>2. LocalNeedsUnharmed' /\ SalesHold'
  BY ResolvedSales
<1>3. /\ Stocks(lots', Nat) /\ Stocks(lots', Amounts) /\ served' = Taken(Left)
      /\ \A d \in DOMAIN Demands : served'[d] \in Nat
      /\ \A g \in Goods :
           TotalOf(lots', g) = TotalOf(lots, g) - Sum(served', DemandsFor(g))
                               - Sum(Dispatched, SentOf(g))
  BY ResolveStock
<1>4. served' \in [DOMAIN Demands -> Nat]
  BY <1>3 DEF Taken
<1>5. trades' \in Seq(Receipt)
  BY <1>1, ReceiptsJoined
<1>6. TypeOK'
  BY <1>1, <1>3, <1>4, <1>5 DEF TypeOK, Stages, Order
<1>7. ByStage'
  <2>1. Stocks(lots', Nat \cup {Unknown})
    BY <1>3 DEF Stocks
  <2>2. (\A i \in DOMAIN plan : Fits(plan[i]))'
    BY <1>1 DEF Fits
  <2> QED
    BY <1>1, <1>3, <2>1, <2>2 DEF ByStage, Early, Making, AfterMarket
<1>8. GoodsConserved'
  <2> SUFFICES ASSUME NEW g \in Goods
               PROVE  TotalOf(opened, g)' + Sum(Gains(g), DOMAIN made)'
                        = TotalOf(lots, g)' + spoiled[g]' + Sum(Losses(g), DOMAIN trades)'
                          + Sum(served, DemandsFor(g))'
    BY DEF GoodsConserved
  <2> DEFINE l == Sum(Dispatched, SentOf(g))
             c == Sum(served', DemandsFor(g))
  <2>1. Sum(Losses(g), DOMAIN trades)' = Sum(Losses(g), DOMAIN trades) + l /\ l \in Nat
    BY <1>1, UnderWay
  <2>2. c \in Int
    <3> DEFINE F == served'
               S == DemandsFor(g)
    <3>1. IsFiniteSet(S) /\ \A d \in S : F[d] \in Int
      BY <1>3, SomeDemandsFinite
    <3> HIDE DEF F, S
    <3>2. Sum(F, S) \in Int
      BY <3>1, SumType
    <3> QED
      BY <3>2 DEF F, S
  <2>3. Sum(served, DemandsFor(g)) = 0
    BY <1>1, SomeDemandsFinite, SumZero
  <2>4. /\ Sum(Gains(g), DOMAIN made)' = Sum(Gains(g), DOMAIN made)
        /\ Sum(Gains(g), DOMAIN made) \in Int /\ spoiled[g] \in Int
        /\ TotalOf(lots, g) \in Int /\ Sum(Losses(g), DOMAIN trades) \in Int
    BY <1>1, TermTypes DEF Gains
  <2>5. TotalOf(lots, g)' = TotalOf(lots', g)
    BY DEF TotalOf, Known
  <2>6. TotalOf(lots, g)' = TotalOf(lots, g) + 0 - 0 - l - c
    BY <1>3, <2>1, <2>2, <2>4, <2>5
  <2>7. Sum(Gains(g), DOMAIN made)' = Sum(Gains(g), DOMAIN made) + 0
        /\ spoiled'[g] = spoiled[g] + 0
        /\ Sum(served, DemandsFor(g))' = Sum(served, DemandsFor(g)) + c
    BY <1>1, <2>2, <2>3, <2>4 DEF DemandsFor
  <2>8. l \in Int /\ 0 \in Int
    BY <2>1
  <2> HIDE DEF l, c
  <2> QED
    BY <1>1, <2>1, <2>2, <2>6, <2>7, <2>8, AccountMoves
<1>9. WithinBudgets'
  BY <1>1 DEF WithinBudgets
<1> QED
  BY <1>2, <1>6, <1>7, <1>8, <1>9 DEF GoodsInv
-----------------------------------------------------------------------------
(* Sales on the spot.                                                       *)

LEMMA SoldTypes ==
  ASSUME TypeOK
  PROVE  /\ \A i \in DOMAIN trades : Sold[i] = trades[i].quantity /\ Sold[i] \in Int
         /\ \A S \in SUBSET DOMAIN trades : IsFiniteSet(S) /\ Sum(Sold, S) \in Int
         /\ \A o : SoldFrom(o) \in SUBSET DOMAIN trades
         /\ \A p : SoldAt(p) \in SUBSET DOMAIN trades
         /\ \A d : OnTheSpot(d) \in SUBSET DOMAIN trades
         /\ \A d \in DOMAIN Demands : Remaining(d) \in Int
<1>1. \A i \in DOMAIN trades : trades[i] \in Receipt
  BY IndicesFinite DEF TypeOK
<1>2. \A i \in DOMAIN trades : Sold[i] = trades[i].quantity /\ Sold[i] \in Int
  BY <1>1 DEF Sold, Receipt
<1>3. ASSUME NEW S \in SUBSET DOMAIN trades PROVE IsFiniteSet(S) /\ Sum(Sold, S) \in Int
  <2>1. IsFiniteSet(S)
    BY IndicesFinite DEF TypeOK
  <2>2. \A i \in S : Sold[i] \in Int
    BY <1>2
  <2> QED
    BY <2>1, <2>2, SumType
<1>4. /\ \A o : SoldFrom(o) \in SUBSET DOMAIN trades
      /\ \A p : SoldAt(p) \in SUBSET DOMAIN trades
      /\ \A d : OnTheSpot(d) \in SUBSET DOMAIN trades
  BY DEF SoldFrom, SoldAt, OnTheSpot
<1>5. ASSUME NEW d \in DOMAIN Demands PROVE Remaining(d) \in Int
  <2>1. served[d] \in Nat /\ Sum(Sold, OnTheSpot(d)) \in Int
    BY <1>3, <1>4 DEF TypeOK
  <2> QED
    BY <2>1 DEF Remaining
<1> QED
  BY <1>2, <1>3, <1>4, <1>5

LEMMA SaleAppended ==
  ASSUME TypeOK, NEW t \in Receipt, trades' = Append(trades, t), UNCHANGED <<offers, served>>,
         t.offer # Nil, t.route = Nil
  PROVE  /\ \A o : Sum(Sold, SoldFrom(o))'
                     = Sum(Sold, SoldFrom(o)) + Where(t.offer = o, t.quantity)
         /\ \A p : Sum(Sold, SoldAt(p))'
                     = Sum(Sold, SoldAt(p)) + Where(offers[t.offer].place = p, t.quantity)
         /\ \A d \in DOMAIN Demands :
              Remaining(d)' = Remaining(d) - Where(t.demand = d, t.quantity)
<1> DEFINE k == Len(trades) + 1
           D == Sold
           E == Sold'
<1>1. /\ DOMAIN trades' = (DOMAIN trades) \cup {k}
      /\ k \notin DOMAIN trades /\ trades'[k] = t
      /\ \A i \in DOMAIN trades : trades'[i] = trades[i]
  BY TradeAppended DEF TypeOK
<1> HIDE DEF k
<1>2. t.quantity \in Int
  BY DEF Receipt
<1>3. E[k] = t.quantity /\ \A i \in DOMAIN trades : E[i] = D[i]
  BY <1>1 DEF Sold
<1>4. /\ \A i \in DOMAIN trades : D[i] \in Int
      /\ \A S \in SUBSET DOMAIN trades : IsFiniteSet(S) /\ k \notin S
  BY <1>1, SoldTypes
<1> HIDE DEF D, E
<1>5. ASSUME NEW S \in SUBSET DOMAIN trades
      PROVE  /\ Sum(E, S) = Sum(D, S)
             /\ Sum(E, S \cup {k}) = Sum(D, S) + t.quantity
             /\ Sum(D, S) \in Int
  <2>1. /\ IsFiniteSet(S) /\ k \notin S /\ E[k] \in Int
        /\ \A i \in S : D[i] \in Int /\ E[i] = D[i]
    BY <1>2, <1>3, <1>4
  <2>2. Sum(E, S \cup {k}) = Sum(D, S) + E[k] /\ Sum(D, S) \in Int
    BY <2>1, SumGrown
  <2>3. Sum(E, S) = Sum(D, S)
    BY <2>1, SumEqual
  <2> QED
    BY <1>3, <2>2, <2>3
<1>6. ASSUME NEW o
      PROVE  Sum(Sold, SoldFrom(o))' = Sum(Sold, SoldFrom(o)) + Where(t.offer = o, t.quantity)
  <2>1. SoldFrom(o) \in SUBSET DOMAIN trades
    BY DEF SoldFrom
  <2>2. SoldFrom(o)' = IF t.offer = o THEN SoldFrom(o) \cup {k} ELSE SoldFrom(o)
    BY <1>1 DEF SoldFrom
  <2>3. /\ Sum(Sold, SoldFrom(o))' = Sum(E, SoldFrom(o)')
        /\ Sum(Sold, SoldFrom(o)) = Sum(D, SoldFrom(o))
    BY DEF D, E
  <2>4. /\ Sum(E, SoldFrom(o)) = Sum(D, SoldFrom(o)) /\ Sum(D, SoldFrom(o)) \in Int
        /\ Sum(E, SoldFrom(o) \cup {k}) = Sum(D, SoldFrom(o)) + t.quantity
    BY <1>5, <2>1
  <2>5. CASE t.offer = o
    BY <2>2, <2>3, <2>4, <2>5 DEF Where
  <2>6. CASE t.offer # o
    BY <2>2, <2>3, <2>4, <2>6 DEF Where
  <2> QED
    BY <2>5, <2>6
<1>7. ASSUME NEW p
      PROVE  Sum(Sold, SoldAt(p))'
               = Sum(Sold, SoldAt(p)) + Where(offers[t.offer].place = p, t.quantity)
  <2>1. SoldAt(p) \in SUBSET DOMAIN trades
    BY DEF SoldAt
  <2>2. SoldAt(p)' = IF offers[t.offer].place = p THEN SoldAt(p) \cup {k} ELSE SoldAt(p)
    BY <1>1 DEF SoldAt
  <2>3. /\ Sum(Sold, SoldAt(p))' = Sum(E, SoldAt(p)')
        /\ Sum(Sold, SoldAt(p)) = Sum(D, SoldAt(p))
    BY DEF D, E
  <2>4. /\ Sum(E, SoldAt(p)) = Sum(D, SoldAt(p)) /\ Sum(D, SoldAt(p)) \in Int
        /\ Sum(E, SoldAt(p) \cup {k}) = Sum(D, SoldAt(p)) + t.quantity
    BY <1>5, <2>1
  <2>5. CASE offers[t.offer].place = p
    BY <2>2, <2>3, <2>4, <2>5 DEF Where
  <2>6. CASE offers[t.offer].place # p
    BY <2>2, <2>3, <2>4, <2>6 DEF Where
  <2> QED
    BY <2>5, <2>6
<1>8. ASSUME NEW d \in DOMAIN Demands
      PROVE  Remaining(d)' = Remaining(d) - Where(t.demand = d, t.quantity)
  <2>1. OnTheSpot(d) \in SUBSET DOMAIN trades
    BY DEF OnTheSpot
  <2>2. OnTheSpot(d)' = IF t.demand = d THEN OnTheSpot(d) \cup {k} ELSE OnTheSpot(d)
    BY <1>1 DEF OnTheSpot
  <2>3. /\ Remaining(d)' = served[d] - Sum(E, OnTheSpot(d)')
        /\ Remaining(d) = served[d] - Sum(D, OnTheSpot(d))
    BY DEF D, E, Remaining
  <2>4. /\ Sum(E, OnTheSpot(d)) = Sum(D, OnTheSpot(d)) /\ Sum(D, OnTheSpot(d)) \in Int
        /\ Sum(E, OnTheSpot(d) \cup {k}) = Sum(D, OnTheSpot(d)) + t.quantity
    BY <1>5, <2>1
  <2>5. served[d] \in Int
    BY DEF TypeOK
  <2>6. CASE t.demand = d
    BY <1>2, <2>2, <2>3, <2>4, <2>5, <2>6 DEF Where
  <2>7. CASE t.demand # d
    BY <1>2, <2>2, <2>3, <2>4, <2>5, <2>7 DEF Where
  <2> QED
    BY <2>6, <2>7
<1> QED
  BY <1>6, <1>7, <1>8

(* What is sold at a place is no longer for sale there.                     *)
LEMMA StockForSale ==
  ASSUME TypeOK, TypeOK', NEW d \in DOMAIN Demands, NEW q \in Int,
         \A e \in DOMAIN Demands : Remaining(e)' = Remaining(e) - Where(d = e, q), NEW p
  PROVE  /\ StillForSale(p)' = StillForSale(p) - Where(Place(d) = p, q)
         /\ StillForSale(p) \in Int
<1> DEFINE F == [e \in DOMAIN Demands |-> Remaining(e)]
           G == [e \in DOMAIN Demands |-> Remaining(e)']
           S == DemandsAt(p)
<1>1. IsFiniteSet(S) /\ S \subseteq DOMAIN Demands
  BY SomeDemandsFinite
<1>2. \A e \in S : /\ F[e] \in Int /\ G[e] = F[e] - Where(d = e, q)
  BY <1>1, SoldTypes
<1>3. \A e \in S : e # d => G[e] = F[e]
  <2> SUFFICES ASSUME NEW e \in S, e # d PROVE G[e] = F[e]
    OBVIOUS
  <2>1. G[e] = F[e] - Where(d = e, q) /\ F[e] \in Int
    BY <1>2
  <2>2. Where(d = e, q) = 0
    BY DEF Where
  <2> HIDE DEF F, G
  <2> QED
    BY <2>1, <2>2
<1>4. d \in S => G[d] = F[d] - q
  BY <1>2 DEF Where
<1>5. \A e \in S : F[e] \in Int /\ G[e] \in Int
  <2> SUFFICES ASSUME NEW e \in S PROVE F[e] \in Int /\ G[e] \in Int
    OBVIOUS
  <2>1. CASE e = d
    <3> HIDE DEF F, G
    <3> QED
      BY <1>2, <1>4, <2>1
  <2>2. CASE e # d
    <3> HIDE DEF F, G
    <3> QED
      BY <1>2, <1>3, <2>2
  <2> QED
    BY <2>1, <2>2
<1>6. StillForSale(p)' = Sum(G, S) /\ StillForSale(p) = Sum(F, S)
  BY DEF StillForSale
<1>7. d \in S <=> Place(d) = p
  BY DEF DemandsAt
<1> HIDE DEF F, G, S
<1>8. Sum(F, S) \in Int
  BY <1>1, <1>5, SumType
<1>9. CASE Place(d) = p
  <2>1. d \in S
    BY <1>7, <1>9
  <2>2. Sum(G, S) = Sum(F, S) - F[d] + G[d] /\ F[d] \in Int
    BY <1>1, <1>3, <1>5, <2>1, SumChange
  <2> QED
    BY <1>4, <1>6, <1>8, <1>9, <2>1, <2>2 DEF Where
<1>10. CASE Place(d) # p
  <2>1. \A e \in S : G[e] = F[e]
    BY <1>3, <1>7, <1>10
  <2>2. Sum(G, S) = Sum(F, S)
    BY <1>1, <2>1, SumEqual
  <2> QED
    BY <1>6, <1>8, <1>10, <2>2 DEF Where
<1> QED
  BY <1>9, <1>10

LEMMA SellKeeps ==
  ASSUME GoodsInv, SellLocally, UNCHANGED opened
  PROVE  GoodsInv'
<1>1. /\ TypeOK /\ ByStage /\ GoodsConserved /\ LocalNeedsUnharmed /\ SalesHold
      /\ stage = "local"
      /\ UNCHANGED <<stage, lots, made, days, wages, spoiled, offers, at, plan, served, opened>>
  BY DEF GoodsInv, SellLocally, productionVars
<1>2. PICK d \in DOMAIN Demands :
        /\ Remaining(d) > 0 /\ Selling(d) # {}
        /\ trades' = Append(trades,
             Trade(d, Min(Selling(d)), offers[Min(Selling(d))].seller, Demands[d].buyer, Nil,
                   Place(d), Lesser(Remaining(d), OfferLeft(Min(Selling(d)))), 0, 0, "delivered"))
  BY DEF SellLocally
<1> DEFINE o == Min(Selling(d))
           q == Lesser(Remaining(d), OfferLeft(o))
           t == Trade(d, o, offers[o].seller, Demands[d].buyer, Nil, Place(d), q, 0, 0, "delivered")
<1>3. o \in Selling(d)
  <2>1. Selling(d) \in SUBSET DOMAIN offers
    BY DEF Selling
  <2>2. IsFiniteSet(DOMAIN offers) /\ \A x \in DOMAIN offers : x \in Int
    BY <1>1, IndicesFinite, OfferFacts DEF TypeOK
  <2>3. Selling(d) \in SUBSET Int /\ IsFiniteSet(Selling(d))
    BY <2>1, <2>2, FS_Subset
  <2> QED
    BY <1>2, <2>3, MinOf
<1>4. o \in DOMAIN offers /\ offers[o].place = Place(d) /\ OfferLeft(o) > 0
  BY <1>3 DEF Selling
<1>5. /\ o \in Nat /\ o # Nil /\ offers[o].seller \in Businesses /\ offers[o].quantity \in Nat
  BY <1>1, <1>4, OfferFacts, MarketAssumption DEF TypeOK
<1>6. /\ Demands[d].buyer \in Businesses /\ Place(d) \in Places
  BY DemandFacts
<1> HIDE DEF o
<1>7. Remaining(d) \in Int /\ Sum(Sold, SoldFrom(o)) \in Int
  BY <1>1, SoldTypes
<1>8. OfferLeft(o) = offers[o].quantity - Sum(Sold, SoldFrom(o)) /\ OfferLeft(o) \in Int
  BY <1>4, <1>5, <1>7 DEF OfferLeft, Larger
<1>9. q \in Int /\ q > 0 /\ q <= Remaining(d) /\ q <= OfferLeft(o)
  BY <1>2, <1>4, <1>7, <1>8 DEF Lesser
<1>10. d \in SomeDemand /\ o \in SomeOffer /\ Nil \in SomeRoute /\ "delivered" \in Status
       /\ 0 \in Int
  BY <1>5 DEF SomeDemand, SomeOffer, SomeRoute, Status
<1>11. trades' = Append(trades, t)
  BY <1>2 DEF o
<1> HIDE DEF q
<1>12. /\ t \in Receipt /\ t.offer = o /\ t.route = Nil /\ t.demand = d /\ t.quantity = q
  BY <1>5, <1>6, <1>9, <1>10, TradeType
<1> HIDE DEF t
<1>13. /\ trades' \in Seq(Receipt) /\ DOMAIN trades' = (DOMAIN trades) \cup {Len(trades) + 1}
       /\ trades'[Len(trades) + 1] = t /\ \A i \in DOMAIN trades : trades'[i] = trades[i]
       /\ \A g \in Goods : Sum(Losses(g), DOMAIN trades)'
                             = Sum(Losses(g), DOMAIN trades) + LossOf(t, g)
  BY <1>1, <1>11, <1>12, TradeAppended DEF TypeOK
<1>14. TypeOK'
  BY <1>1, <1>13 DEF TypeOK, Order
<1>15. ByStage'
  <2>1. (\A i \in DOMAIN plan : Fits(plan[i]))'
    BY <1>1 DEF ByStage, Fits
  <2>2. Stocks(lots, Nat) /\ Stocks(lots, Nat \cup {Unknown})
    BY <1>1 DEF ByStage, Early, Making, Stocks
  <2> QED
    BY <1>1, <2>1, <2>2 DEF ByStage, Early, Making, AfterMarket
<1>16. GoodsConserved'
  <2> SUFFICES ASSUME NEW g \in Goods
               PROVE  Sum(Losses(g), DOMAIN trades)' = Sum(Losses(g), DOMAIN trades)
    BY <1>1, GoodsStay
  <2>1. LossOf(t, g) = 0
    BY <1>12 DEF LossOf
  <2>2. Sum(Losses(g), DOMAIN trades) \in Int
    BY <1>1, TermTypes
  <2>3. Sum(Losses(g), DOMAIN trades)' = Sum(Losses(g), DOMAIN trades) + LossOf(t, g)
    BY <1>13
  <2> QED
    BY <2>1, <2>2, <2>3
<1>17. WithinBudgets'
  BY <1>1 DEF WithinBudgets
<1>18. Brought' = Brought
  BY <1>1, SameMarket DEF Brought
<1>19. LocalNeedsUnharmed'
  BY <1>1, <1>18 DEF LocalNeedsUnharmed, AfterMarket
<1>20. /\ \A x : Sum(Sold, SoldFrom(x))' = Sum(Sold, SoldFrom(x)) + Where(o = x, q)
       /\ \A p : Sum(Sold, SoldAt(p))' = Sum(Sold, SoldAt(p)) + Where(Place(d) = p, q)
       /\ \A e \in DOMAIN Demands : Remaining(e)' = Remaining(e) - Where(d = e, q)
  BY <1>1, <1>4, <1>5, <1>11, <1>12, SaleAppended
<1>21. /\ \A i \in DOMAIN trades : trades[i].offer # Nil => trades[i].offer \in DOMAIN offers
       /\ \A e \in DOMAIN Demands : Remaining(e) >= 0
       /\ \A p \in Places : Sum(Sold, SoldAt(p)) + StillForSale(p) <= Brought[p]
       /\ \A x \in DOMAIN offers : Sum(Sold, SoldFrom(x)) <= offers[x].quantity
       /\ \A e \in DOMAIN Demands : served[e] + Sum(Sent, SentFor(e)) <= Demands[e].quantity
  BY <1>1 DEF SalesHold, AfterMarket
<1>22. \A i \in DOMAIN trades' : trades'[i].offer # Nil => trades'[i].offer \in DOMAIN offers
  BY <1>4, <1>12, <1>13, <1>21
<1>23. ASSUME NEW e \in DOMAIN Demands PROVE Remaining(e)' >= 0
  <2>1. Remaining(e) \in Int /\ Remaining(e) >= 0
    BY <1>1, <1>21, SoldTypes
  <2>2. CASE d = e
    BY <1>9, <1>20, <2>1, <2>2 DEF Where
  <2>3. CASE d # e
    BY <1>20, <2>1, <2>3 DEF Where
  <2> QED
    BY <2>2, <2>3
<1>24. ASSUME NEW p \in Places
       PROVE  Sum(Sold, SoldAt(p))' + StillForSale(p)' <= Brought'[p]
  <2>1. StillForSale(p)' = StillForSale(p) - Where(Place(d) = p, q) /\ StillForSale(p) \in Int
    BY <1>1, <1>9, <1>14, <1>20, StockForSale
  <2>2. Sum(Sold, SoldAt(p)) \in Int
    BY <1>1, SoldTypes
  <2>3. Where(Place(d) = p, q) \in Int
    <3>1. CASE Place(d) = p
      BY <1>9, <3>1 DEF Where
    <3>2. CASE Place(d) # p
      BY <3>2 DEF Where
    <3> QED
      BY <3>1, <3>2
  <2>4. Sum(Sold, SoldAt(p))' + StillForSale(p)' = Sum(Sold, SoldAt(p)) + StillForSale(p)
    BY <1>20, <2>1, <2>2, <2>3
  <2> QED
    BY <1>18, <1>21, <2>4
<1>25. ASSUME NEW x \in DOMAIN offers
       PROVE  Sum(Sold, SoldFrom(x))' <= offers[x].quantity
  <2>1. Sum(Sold, SoldFrom(x)) \in Int /\ Sum(Sold, SoldFrom(x)) <= offers[x].quantity
    BY <1>1, <1>21, SoldTypes
  <2>2. CASE o = x
    BY <1>5, <1>8, <1>9, <1>20, <2>1, <2>2 DEF Where
  <2>3. CASE o # x
    BY <1>20, <2>1, <2>3 DEF Where
  <2> QED
    BY <2>2, <2>3
<1>26. SalesHold'
  <2>1. \A e \in DOMAIN Demands : served'[e] + Sum(Sent', SentFor(e)') <= Demands[e].quantity
    BY <1>1, <1>21, SameMarket
  <2> QED
    BY <1>1, <1>22, <1>23, <1>24, <1>25, <2>1 DEF SalesHold
<1> QED
  BY <1>14, <1>15, <1>16, <1>17, <1>19, <1>26 DEF GoodsInv
-----------------------------------------------------------------------------
(* Every step keeps the goods in order.                                     *)

LEMMA OtherStepsKeep ==
  ASSUME GoodsInv, NextDemand \/ NextBuyer \/ CloseMarket, UNCHANGED opened
  PROVE  GoodsInv'
<1>1. /\ stage \in Stages /\ at \in Nat
  BY DEF GoodsInv, TypeOK
<1>2. /\ UNCHANGED <<lots, made, days, wages, spoiled, offers, plan, trades, served, opened>>
      /\ stage' \in Stages /\ at' \in Nat /\ stage \notin Early /\ stage' \notin Early
      /\ (stage = "market" <=> stage' = "market")
  BY <1>1 DEF NextDemand, NextBuyer, CloseMarket, productionVars, Stages, Early, Making
<1> QED
  BY <1>2, RestKeeps

LEMMA FinanceStepsKeep ==
  ASSUME GoodsInv,
         PrepareEvents \/ BookPayroll \/ BookDelivered \/ BookPreview \/ CloseMonth
  PROVE  GoodsInv'
<1>1. /\ stage \in Stages /\ at \in Nat
  BY DEF GoodsInv, TypeOK
<1>2. /\ UNCHANGED <<stockVars, opened>> /\ stage \in {"finance", "books"}
      /\ stage' \in {"books", "closed"}
  BY DEF PrepareEvents, BookPayroll, BookDelivered, BookPreview, CloseMonth
<1>3. UNCHANGED <<lots, made, days, wages, spoiled, offers, plan, trades, served, at, opened>>
  BY <1>2 DEF stockVars, productionVars, marketVars
<1>4. /\ stage' \in Stages /\ at' \in Nat /\ stage \notin Early /\ stage' \notin Early
      /\ (stage = "market" <=> stage' = "market")
  BY <1>1, <1>2, <1>3 DEF Stages, Early, Making
<1> QED
  BY <1>3, <1>4, RestKeeps

LEMMA StutterKeeps ==
  ASSUME GoodsInv, UNCHANGED vars
  PROVE  GoodsInv'
<1>1. UNCHANGED <<stage, lots, orders, made, days, wages, spoiled, offers, at, plan, trades,
                  served, opened>>
  BY DEF vars, stockVars, productionVars, marketVars
<1>2. CASE stage \in Early
  <2>1. /\ TypeOK' /\ ByStage'
    BY <1>1 DEF GoodsInv, TypeOK, ByStage, Receipt, Order, Fits, AfterMarket
  <2>2. GoodsConserved'
    <3>1. \A g \in Goods : Losses(g)' = Losses(g) /\ (DOMAIN trades)' = DOMAIN trades
      BY <1>1 DEF Losses
    <3> QED
      BY <1>1, <3>1, GoodsStay DEF GoodsInv
  <2>3. WithinBudgets' /\ LocalNeedsUnharmed' /\ SalesHold'
    BY <1>1, <1>2, NothingSoldYet
  <2> QED
    BY <2>1, <2>2, <2>3 DEF GoodsInv
<1>3. CASE stage \notin Early
  <2>1. stage \in Stages /\ at \in Nat
    BY DEF GoodsInv, TypeOK
  <2> QED
    BY <1>1, <1>3, <2>1, RestKeeps
<1> QED
  BY <1>2, <1>3

LEMMA NextKeepsGoods ==
  ASSUME GoodsInv, [Next]_vars
  PROVE  GoodsInv'
<1>1. CASE ProductionStep /\ UNCHANGED <<marketVars, financeVars, script, opened>>
  BY <1>1, RollKeeps, ProduceKeeps, CloseProductionKeeps DEF ProductionStep
<1>2. CASE MaterialStep /\ UNCHANGED <<financeVars, script, opened>>
  <2>1. UNCHANGED opened
    BY <1>2
  <2> QED
    BY <1>2, <2>1, StorageKeeps, HandleKeeps, OpenMarketKeeps, PlanExportKeeps, ResolveKeeps,
       SellKeeps, OtherStepsKeep DEF MaterialStep
<1>3. CASE PrepareEvents \/ BookPayroll \/ BookDelivered \/ BookPreview \/ CloseMonth
  BY <1>3, FinanceStepsKeep
<1>4. CASE UNCHANGED vars
  BY <1>4, StutterKeeps
<1> QED
  BY <1>1, <1>2, <1>3, <1>4 DEF Next

LEMMA InitGoods == Init => GoodsInv
<1> SUFFICES ASSUME Init PROVE GoodsInv
  OBVIOUS
<1>1. PICK world \in Worlds :
        /\ stage = world.stage /\ lots = world.lots /\ offers = world.offers
        /\ at = IF world.stage = "market" THEN 1 ELSE 0
  BY DEF Init
<1>2. /\ opened = lots /\ orders = <<>> /\ made = <<>>
      /\ days = [l \in DOMAIN Pools |-> Pools[l].days] /\ wages = [e \in Businesses |-> 0]
      /\ spoiled = [g \in Goods |-> 0] /\ plan = <<>> /\ trades = <<>>
      /\ served = [d \in DOMAIN Demands |-> 0]
  BY DEF Init
<1>3. WorldAccepted(world)
  BY ScenarioAssumption
<1>4. Stocks(lots, Nat \cup {Unknown}) /\ Stocks(lots, Amounts)
  <2>1. DOMAIN lots \subseteq Places /\ lots \in [DOMAIN lots -> Nat \cup {Unknown}]
    BY <1>1, <1>3 DEF WorldAccepted, LotsAccepted
  <2>2. lots \in [DOMAIN lots -> Amounts]
    BY <2>1 DEF Amounts
  <2> QED
    BY <2>1, <2>2 DEF Stocks
<1>5. offers \in Seq(SupplyOffer)
  BY <1>1, <1>3 DEF WorldAccepted, MarketAccepted
<1>6. stage \in {"roll", "market"}
  BY <1>1, <1>3 DEF WorldAccepted
<1>7. stage = "market" => Stocks(lots, Nat)
  <2> SUFFICES ASSUME stage = "market" PROVE Stocks(lots, Nat)
    OBVIOUS
  <2>1. \A p \in DOMAIN lots : lots[p] # Unknown
    BY <1>1, <1>3 DEF WorldAccepted
  <2> QED
    BY <1>4, <2>1 DEF Stocks
<1>8. ~AfterMarket
  BY <1>6 DEF AfterMarket
<1>9. TypeOK
  <2>1. days \in [DOMAIN Pools -> Int]
    BY <1>2, ProductionAssumption DEF WellFormedPool
  <2>2. /\ made \in Seq(Nat) /\ DOMAIN made \subseteq DOMAIN Recipes
        /\ plan \in Seq(Order) /\ trades \in Seq(Receipt)
    BY <1>2
  <2>3. /\ wages \in [Businesses -> Int] /\ spoiled \in [Goods -> Int]
        /\ served \in [DOMAIN Demands -> Nat]
    BY <1>2
  <2>4. at \in Nat /\ stage \in Stages /\ stage # "produce"
    BY <1>1, <1>6 DEF Stages
  <2> QED
    BY <1>2, <1>4, <1>5, <2>1, <2>2, <2>3, <2>4 DEF TypeOK
<1>10. ByStage
  <2>1. DOMAIN plan = {} /\ DOMAIN trades = {}
    BY <1>2
  <2>2. stage = "roll" => stage \in Early
    BY DEF Early, Making
  <2> QED
    BY <1>2, <1>4, <1>6, <1>7, <2>1, <2>2 DEF ByStage, Early, Making
<1>11. GoodsConserved
  <2> SUFFICES ASSUME NEW g \in Goods
               PROVE  TotalOf(opened, g) + Sum(Gains(g), DOMAIN made)
                        = TotalOf(lots, g) + spoiled[g] + Sum(Losses(g), DOMAIN trades)
                          + Sum(served, DemandsFor(g))
    BY DEF GoodsConserved
  <2>1. Sum(Gains(g), DOMAIN made) = 0 /\ Sum(Losses(g), DOMAIN trades) = 0
    <3>1. DOMAIN made = {} /\ DOMAIN trades = {}
      BY <1>2
    <3> QED
      BY <3>1, SumEmpty
  <2>2. Sum(served, DemandsFor(g)) = 0
    <3>1. \A d \in DemandsFor(g) : served[d] = 0
      BY <1>2, SomeDemandsFinite
    <3> QED
      BY <3>1, SomeDemandsFinite, SumZero
  <2>3. TotalOf(opened, g) = TotalOf(lots, g) /\ TotalOf(lots, g) \in Int /\ spoiled[g] = 0
    BY <1>2, <1>4, TotalType
  <2> QED
    BY <2>1, <2>2, <2>3
<1>12. WithinBudgets
  <2>1. CASE stage = "market"
    BY <1>2, <1>5, <1>7, <2>1, UnplannedBudgets
  <2>2. CASE stage # "market"
    BY <2>2 DEF WithinBudgets
  <2> QED
    BY <2>1, <2>2
<1>13. LocalNeedsUnharmed /\ SalesHold
  BY <1>8 DEF LocalNeedsUnharmed, SalesHold
<1> QED
  BY <1>9, <1>10, <1>11, <1>12, <1>13 DEF GoodsInv

(* The inductive invariant of a month's goods, through all four adapters.   *)
THEOREM GoodsKept == Spec => []GoodsInv
<1>1. GoodsInv /\ [Next]_vars => GoodsInv'
  BY NextKeepsGoods
<1> QED
  BY <1>1, InitGoods, PTL DEF Spec

(* Whatever the scenario, the dice and the trade: from the opening to the   *)
(* close the receipts account for every unit of every good.                 *)
THEOREM GoodsAccounted == Spec => []GoodsConserved
<1>1. GoodsInv => GoodsConserved
  BY DEF GoodsInv
<1> QED
  BY <1>1, GoodsKept, PTL

(* Every demand gets of the local stock what it would have got had nothing  *)
(* been sent away: exports are sized against a run that serves local needs  *)
(* alone, and so leave the second run what it needs.                        *)
THEOREM LocalNeedsServed == Spec => []LocalNeedsUnharmed
<1>1. GoodsInv => LocalNeedsUnharmed
  BY DEF GoodsInv
<1> QED
  BY <1>1, GoodsKept, PTL

(* No offer, no place and no demand is ever part of more than it has: not   *)
(* in the order the demands are gone through, nor by selling on the spot    *)
(* what is already under way.                                               *)
THEOREM NothingSoldTwice == Spec => []SoldOnce
<1>1. GoodsInv => SoldOnce
  <2> SUFFICES ASSUME GoodsInv, AfterMarket
               PROVE  /\ \A o \in DOMAIN offers : Sum(Sold, SoldFrom(o)) <= offers[o].quantity
                      /\ \A p \in Places : Sum(Sold, SoldAt(p)) <= Brought[p]
                      /\ \A d \in DOMAIN Demands :
                           served[d] + Sum(Sent, SentFor(d)) <= Demands[d].quantity
    BY DEF SoldOnce
  <2>1. /\ TypeOK /\ Stocks(lots, Nat) /\ offers \in Seq(SupplyOffer) /\ plan \in Seq(Order)
        /\ \A p \in Places : Sum(Sold, SoldAt(p)) + StillForSale(p) <= Brought[p]
        /\ \A d \in DOMAIN Demands : Remaining(d) >= 0
        /\ \A o \in DOMAIN offers : Sum(Sold, SoldFrom(o)) <= offers[o].quantity
        /\ \A d \in DOMAIN Demands :
             served[d] + Sum(Sent, SentFor(d)) <= Demands[d].quantity
    BY DEF GoodsInv, TypeOK, ByStage, SalesHold, AfterMarket, Early, Making
  <2>2. ASSUME NEW p \in Places PROVE Sum(Sold, SoldAt(p)) <= Brought[p]
    <3>1. StillForSale(p) \in Nat
      <4> DEFINE F == [d \in DOMAIN Demands |-> Remaining(d)]
                 S == DemandsAt(p)
      <4>1. IsFiniteSet(S) /\ \A d \in S : F[d] \in Nat
        BY <2>1, SomeDemandsFinite, SoldTypes
      <4>2. StillForSale(p) = Sum(F, S)
        BY DEF StillForSale
      <4> HIDE DEF F, S
      <4> QED
        BY <4>1, <4>2, SumNat
    <3>2. Sum(Sold, SoldAt(p)) \in Int
      BY <2>1, SoldTypes
    <3>3. Brought[p] \in Int
      <4>1. Held[p] = Stock(p) /\ Held[p] \in Nat
        BY <2>1, HeldFacts
      <4>2. Sum(served, DemandsAt(p)) \in Int
        <5>1. \A d \in DemandsAt(p) : served[d] \in Int
          BY <2>1, SomeDemandsFinite DEF TypeOK
        <5> QED
          BY <5>1, SomeDemandsFinite, SumType
      <4>3. Shipped(p) \in Nat
        <5>1. SentFrom(p) \in SUBSET DOMAIN plan
          BY DEF SentFrom
        <5> QED
          BY <2>1, <5>1, PlanFacts DEF Shipped
      <4> QED
        BY <4>1, <4>2, <4>3 DEF Brought
    <3>4. Sum(Sold, SoldAt(p)) + StillForSale(p) <= Brought[p]
      BY <2>1
    <3> QED
      BY <3>1, <3>2, <3>3, <3>4
  <2> QED
    BY <2>1, <2>2
<1> QED
  BY <1>1, GoodsKept, PTL
-----------------------------------------------------------------------------
(* The books.                                                               *)

\* The accounts the books of the goods are about.
SalesOf(e) == <<e, "sales_revenue", Finance!None>>
CarriageOf(e) == <<e, "transport_revenue", Finance!None>>
PurchasesOf(e) == <<e, "purchase_expense", Finance!None>>
InventoryOf(e) == <<e, "inventory", Finance!None>>
PayOf(e) == <<e, "payroll_expense", Finance!None>>
AccountsOf(e) == {SalesOf(e), CarriageOf(e), PurchasesOf(e), InventoryOf(e), PayOf(e)}

LEMMA AccountFacts ==
  ASSUME NEW e \in Businesses
  PROVE  /\ Finance!Inventory(e) = InventoryOf(e)
         /\ AccountsOf(e) \subseteq Finance!Accounts
         /\ InventoryOf(e) \in Finance!OpeningAccounts /\ Opening[InventoryOf(e)] \in Nat
         /\ \A x \in AccountsOf(e) \ {InventoryOf(e)} :
              x \notin Finance!OpeningAccounts /\ x \notin Finance!EquityAccounts
<1>1. Finance!Inventory(e) = InventoryOf(e)
  BY DEF Finance!Inventory, InventoryOf
<1>2. /\ SalesOf(e) \in Finance!IncomeAccounts /\ CarriageOf(e) \in Finance!IncomeAccounts
      /\ PurchasesOf(e) \in Finance!ExpenseAccounts /\ PayOf(e) \in Finance!ExpenseAccounts
      /\ InventoryOf(e) \in Finance!AssetAccounts
  BY DEF Finance!IncomeAccounts, Finance!ExpenseAccounts, Finance!AssetAccounts, SalesOf,
         CarriageOf, PurchasesOf, PayOf, InventoryOf
<1>3. AccountsOf(e) \subseteq Finance!Accounts
  BY <1>2 DEF AccountsOf, Finance!Accounts
<1>4. InventoryOf(e) \in Finance!OpeningAccounts
  BY DEF InventoryOf, Finance!OpeningAccounts
<1>5. Opening[InventoryOf(e)] \in Nat
  BY <1>4, ScenarioAssumption DEF ScenarioAccepted, PositionAccepted
<1>6. \A x \in AccountsOf(e) \ {InventoryOf(e)} :
        x[2] \in {"sales_revenue", "transport_revenue", "purchase_expense", "payroll_expense"}
  BY DEF AccountsOf, SalesOf, CarriageOf, PurchasesOf, PayOf
<1>7. \A x \in Finance!OpeningAccounts : x[2] \in {"cash", "inventory", "reserves"}
  BY DEF Finance!OpeningAccounts
<1>8. \A x \in Finance!EquityAccounts : x[2] = "opening_equity"
  BY DEF Finance!EquityAccounts
<1>9. \A x \in AccountsOf(e) \ {InventoryOf(e)} :
        x \notin Finance!OpeningAccounts /\ x \notin Finance!EquityAccounts
  BY <1>6, <1>7, <1>8
<1> QED
  BY <1>1, <1>3, <1>4, <1>5, <1>9


LEMMA PayrollPosts ==
  ASSUME NEW b, NEW n \in Int, Finance!Payroll(b, n, "cash"), NEW e \in Businesses,
         NEW x \in AccountsOf(e), bal[x] \in Int
  PROVE  bal'[x] = bal[x] + Where(x = PayOf(b), n)
<1>1. x \in Finance!Accounts
  BY AccountFacts
<1>2. bal'[x] = bal[x] + (At(x, <<b, "payroll_expense", Finance!None>>, n)
                          + At(x, Finance!Till(b, "cash"), -n) + Finance!Outflow(x, "cash", n))
  BY <1>1 DEF Finance!Payroll, Finance!Book, Finance!At, At
<1>3. Finance!Outflow(x, "cash", n) = 0
  BY DEF Finance!Outflow
<1>4. At(x, Finance!Till(b, "cash"), -n) = 0
  <2>1. x[2] # "cash"
    BY DEF AccountsOf, SalesOf, CarriageOf, PurchasesOf, InventoryOf, PayOf
  <2>2. Finance!Till(b, "cash")[2] = "cash"
    BY DEF Finance!Till, Finance!Cash
  <2> QED
    BY <2>1, <2>2 DEF At
<1>5. At(x, <<b, "payroll_expense", Finance!None>>, n) = Where(x = PayOf(b), n)
  BY DEF At, Where, PayOf
<1>6. CASE x = PayOf(b)
  BY <1>2, <1>3, <1>4, <1>5, <1>6 DEF Where
<1>7. CASE x # PayOf(b)
  BY <1>2, <1>3, <1>4, <1>5, <1>7 DEF Where
<1> QED
  BY <1>6, <1>7

\* The names of the accounts the books of the goods are about.
Followed == {"sales_revenue", "transport_revenue", "purchase_expense", "inventory",
             "payroll_expense"}

LEMMA Elsewhere ==
  ASSUME NEW e \in Businesses, NEW x \in AccountsOf(e), NEW a, a[2] \notin Followed, NEW n
  PROVE  At(x, a, n) = 0 /\ Finance!At(x, a, n) = 0
<1>1. x[2] \in Followed
  BY DEF AccountsOf, SalesOf, CarriageOf, PurchasesOf, InventoryOf, PayOf, Followed
<1>2. x # a
  BY <1>1
<1> QED
  BY <1>2 DEF At, Finance!At

(* The preview's deposit, loan and tax touch none of them.                  *)
LEMMA PreviewPosts ==
  ASSUME NEW b, NEW c, NEW l, NEW t, NEW n, NEW rate,
         \/ Finance!BankDeposit(b, c, n)
         \/ Finance!LoanOrigination(l, b, c, n, rate)
         \/ Finance!LoanInterestAccrual(l)
         \/ Finance!LoanPrincipalRepayment(l, n)
         \/ Finance!TaxAssessment(t, c, n)
         \/ Finance!TaxReceipt(t, c, n, "cash"),
         NEW e \in Businesses, NEW x \in AccountsOf(e), bal[x] \in Int
  PROVE  bal'[x] = bal[x]
<1>1. x \in Finance!Accounts
  BY AccountFacts
<1>2. ASSUME NEW a, a[2] \notin Followed, NEW m PROVE Finance!At(x, a, m) = 0
  BY <1>2, Elsewhere
<1>3. \A y, z : /\ Finance!Cash(y)[2] = "cash" /\ Finance!Reserves(y)[2] = "reserves"
                /\ Finance!DepositAt(y, z)[2] = "bank_deposit"
                /\ Finance!CustomerDeposits(y)[2] = "customer_deposits"
                /\ Finance!Receivable(y)[2] = "loans_receivable"
                /\ Finance!Payable(y)[2] = "loan_payable"
                /\ Finance!Till(y, "cash")[2] = "cash"
  BY DEF Finance!Cash, Finance!Reserves, Finance!DepositAt, Finance!CustomerDeposits,
         Finance!Receivable, Finance!Payable, Finance!Till
<1>4. \A y, z, m : /\ Finance!At(x, Finance!Cash(y), m) = 0
                   /\ Finance!At(x, Finance!Reserves(y), m) = 0
                   /\ Finance!At(x, Finance!DepositAt(y, z), m) = 0
                   /\ Finance!At(x, Finance!CustomerDeposits(y), m) = 0
                   /\ Finance!At(x, Finance!Receivable(y), m) = 0
                   /\ Finance!At(x, Finance!Payable(y), m) = 0
                   /\ Finance!At(x, Finance!Till(y, "cash"), m) = 0
  BY <1>2, <1>3 DEF Followed
<1>5. \A y, z, m : /\ Finance!At(x, <<y, "loans_receivable", z>>, m) = 0
                   /\ Finance!At(x, <<y, "loan_payable", z>>, m) = 0
                   /\ Finance!At(x, <<y, "loan_loss_allowance", z>>, m) = 0
                   /\ Finance!At(x, <<y, "credit_loss_expense", z>>, m) = 0
                   /\ Finance!At(x, <<y, "interest_receivable", z>>, m) = 0
                   /\ Finance!At(x, <<y, "interest_income", z>>, m) = 0
                   /\ Finance!At(x, <<y, "interest_expense", z>>, m) = 0
                   /\ Finance!At(x, <<y, "interest_payable", z>>, m) = 0
                   /\ Finance!At(x, <<y, "tax_expense", z>>, m) = 0
                   /\ Finance!At(x, <<y, "tax_payable", z>>, m) = 0
                   /\ Finance!At(x, <<y, "taxes_receivable", z>>, m) = 0
                   /\ Finance!At(x, <<y, "tax_revenue", z>>, m) = 0
  BY <1>2 DEF Followed
<1>6. ASSUME NEW kind, NEW activity, NEW posted, Finance!Book(kind, activity, posted),
             posted[x] = 0
      PROVE  bal'[x] = bal[x]
  BY <1>1, <1>6 DEF Finance!Book
<1>7. CASE Finance!BankDeposit(b, c, n)
  <2> DEFINE posted == [y \in Finance!Accounts |->
               Finance!At(y, Finance!Reserves(b), n)
               + Finance!At(y, Finance!CustomerDeposits(b), -n)
               + Finance!At(y, Finance!DepositAt(c, b), n) + Finance!At(y, Finance!Cash(c), -n)]
  <2>1. Finance!Book("bank_deposit", "financing", posted)
    BY <1>7 DEF Finance!BankDeposit
  <2>2. posted[x] = 0
    BY <1>1, <1>4
  <2> QED
    BY <1>6, <2>1, <2>2
<1>8. CASE Finance!LoanOrigination(l, b, c, n, rate)
  <2> DEFINE posted == [y \in Finance!Accounts |->
               Finance!At(y, <<b, "loans_receivable", l>>, n)
               + Finance!At(y, Finance!CustomerDeposits(b), -n)
               + Finance!At(y, Finance!DepositAt(c, b), n)
               + Finance!At(y, <<c, "loan_payable", l>>, -n)]
  <2>1. Finance!Book("loan_origination", "financing", posted)
    BY <1>8 DEF Finance!LoanOrigination
  <2>2. posted[x] = 0
    BY <1>1, <1>4, <1>5
  <2> QED
    BY <1>6, <2>1, <2>2
<1>9. CASE Finance!LoanInterestAccrual(l)
  <2> DEFINE loan == loans[l]
             m == Finance!MonthlyInterest(loan)
             posted == [y \in Finance!Accounts |->
               Finance!At(y, <<loan.bank, "interest_receivable", l>>, m)
               + Finance!At(y, <<loan.bank, "interest_income", Finance!None>>, -m)
               + Finance!At(y, <<loan.borrower, "interest_expense", Finance!None>>, m)
               + Finance!At(y, <<loan.borrower, "interest_payable", l>>, -m)]
  <2>1. Finance!Book("loan_interest_accrual", "financing", posted)
    BY <1>9 DEF Finance!LoanInterestAccrual
  <2>2. posted[x] = 0
    BY <1>1, <1>5
  <2> QED
    BY <1>6, <2>1, <2>2
<1>10. CASE Finance!LoanPrincipalRepayment(l, n)
  <2> DEFINE loan == loans[l]
             back == Finance!AllowanceReversal(loan, n)
             posted == [y \in Finance!Accounts |->
               Finance!LoanPayment(y, l, n) + Finance!At(y, Finance!Receivable(l), -n)
               + Finance!At(y, Finance!Payable(l), n)
               + Finance!At(y, <<loan.bank, "loan_loss_allowance", l>>, back)
               + Finance!At(y, <<loan.bank, "credit_loss_expense", Finance!None>>, -back)]
  <2>1. Finance!Book("loan_principal_repayment", "financing", posted)
    BY <1>10 DEF Finance!LoanPrincipalRepayment
  <2>2. Finance!LoanPayment(x, l, n) = 0
    BY <1>4 DEF Finance!LoanPayment
  <2>3. posted[x] = 0
    BY <1>1, <1>4, <1>5, <2>2
  <2> QED
    BY <1>6, <2>1, <2>3
<1>11. CASE Finance!TaxAssessment(t, c, n)
  <2> DEFINE posted == [y \in Finance!Accounts |->
               Finance!At(y, <<c, "tax_expense", Finance!None>>, n)
               + Finance!At(y, <<c, "tax_payable", t>>, -n)
               + Finance!At(y, <<t, "taxes_receivable", c>>, n)
               + Finance!At(y, <<t, "tax_revenue", Finance!None>>, -n)]
  <2>1. Finance!Book("treasury_tax_assessment", "treasury", posted)
    BY <1>11 DEF Finance!TaxAssessment
  <2>2. posted[x] = 0
    BY <1>1, <1>5
  <2> QED
    BY <1>6, <2>1, <2>2
<1>12. CASE Finance!TaxReceipt(t, c, n, "cash")
  <2> DEFINE posted == [y \in Finance!Accounts |->
               Finance!At(y, <<c, "tax_payable", t>>, n)
               + Finance!At(y, Finance!Till(c, "cash"), -n)
               + Finance!At(y, Finance!Till(t, "cash"), n)
               + Finance!At(y, <<t, "taxes_receivable", c>>, -n)]
  <2>1. Finance!Book("treasury_tax_receipt", "treasury", posted)
    BY <1>12 DEF Finance!TaxReceipt
  <2>2. posted[x] = 0
    BY <1>1, <1>4, <1>5
  <2> QED
    BY <1>6, <2>1, <2>2
<1> QED
  BY <1>7, <1>8, <1>9, <1>10, <1>11, <1>12

(* A trade earns its seller the goods, its carrier the carriage, and costs  *)
(* the buyer both.                                                          *)
LEMMA TradePosts ==
  ASSUME NEW seller, NEW buyer, NEW carrier, NEW goods \in Int, NEW carriage \in Int,
         NEW treatment \in {"inventory", "expense"},
         Finance!EnterpriseTrade(seller, buyer, carrier, goods, carriage, "cash", treatment),
         NEW e \in Businesses, \A x \in AccountsOf(e) : bal[x] \in Int
  PROVE  /\ bal'[SalesOf(e)] = bal[SalesOf(e)] - At(seller, e, goods)
         /\ bal'[CarriageOf(e)] = bal[CarriageOf(e)] - At(carrier, e, carriage)
         /\ bal'[PurchasesOf(e)] + bal'[InventoryOf(e)]
              = bal[PurchasesOf(e)] + bal[InventoryOf(e)] + At(buyer, e, goods + carriage)
         /\ bal'[PurchasesOf(e)] \in Int /\ bal'[InventoryOf(e)] \in Int
         /\ bal'[PayOf(e)] = bal[PayOf(e)]
<1> DEFINE bought == IF treatment = "inventory" THEN InventoryOf(buyer) ELSE PurchasesOf(buyer)
           total == goods + carriage
<1>1. ASSUME NEW x \in AccountsOf(e)
      PROVE  bal'[x] = bal[x] + (At(x, SalesOf(seller), -goods) + At(x, bought, total)
                                 + At(x, CarriageOf(carrier), -carriage))
  <2> DEFINE posted == [y \in Finance!Accounts |->
               Finance!At(y, Finance!Till(seller, "cash"), goods)
               + Finance!At(y, <<seller, "sales_revenue", Finance!None>>, -goods)
               + Finance!At(y, Finance!BoughtAs(buyer, treatment), goods + carriage)
               + Finance!At(y, Finance!Till(buyer, "cash"), -(goods + carriage))
               + Finance!At(y, Finance!Till(carrier, "cash"), carriage)
               + Finance!At(y, <<carrier, "transport_revenue", Finance!None>>, -carriage)]
  <2>1. Finance!Book("enterprise_trade", "operating", posted)
    BY DEF Finance!EnterpriseTrade
  <2>2. x \in Finance!Accounts
    BY AccountFacts
  <2>3. \A y, m : Finance!At(x, Finance!Till(y, "cash"), m) = 0
    <3>1. \A y : Finance!Till(y, "cash")[2] = "cash"
      BY DEF Finance!Till, Finance!Cash
    <3> QED
      BY <3>1, Elsewhere DEF Followed
  <2>4. Finance!BoughtAs(buyer, treatment) = bought
    BY DEF Finance!BoughtAs, Finance!Inventory, InventoryOf, PurchasesOf
  <2>5. \A a, m : Finance!At(x, a, m) = At(x, a, m)
    BY DEF Finance!At, At
  <2>6. /\ <<seller, "sales_revenue", Finance!None>> = SalesOf(seller)
        /\ <<carrier, "transport_revenue", Finance!None>> = CarriageOf(carrier)
    BY DEF SalesOf, CarriageOf
  <2>7. posted[x] = 0 + At(x, SalesOf(seller), -goods) + At(x, bought, total)
                    + 0 + 0 + At(x, CarriageOf(carrier), -carriage)
    <3> HIDE DEF bought
    <3> QED
      BY <2>2, <2>3, <2>4, <2>5, <2>6
  <2>8. /\ At(x, SalesOf(seller), -goods) \in Int /\ At(x, bought, total) \in Int
        /\ At(x, CarriageOf(carrier), -carriage) \in Int
    BY DEF At
  <2>9. bal'[x] = bal[x] + posted[x]
    BY <2>1, <2>2 DEF Finance!Book
  <2> HIDE DEF posted, bought, total
  <2> QED
    BY <2>7, <2>8, <2>9
<1>2. /\ SalesOf(e) \in AccountsOf(e) /\ CarriageOf(e) \in AccountsOf(e)
      /\ PurchasesOf(e) \in AccountsOf(e) /\ InventoryOf(e) \in AccountsOf(e)
      /\ PayOf(e) \in AccountsOf(e)
  BY DEF AccountsOf
<1>3. \A y, z : /\ SalesOf(y) = SalesOf(z) <=> y = z
                /\ CarriageOf(y) = CarriageOf(z) <=> y = z
                /\ InventoryOf(y) = InventoryOf(z) <=> y = z
                /\ PurchasesOf(y) = PurchasesOf(z) <=> y = z
  BY DEF SalesOf, CarriageOf, InventoryOf, PurchasesOf
<1>4. \A y, z : /\ SalesOf(y) # CarriageOf(z) /\ SalesOf(y) # InventoryOf(z)
                /\ SalesOf(y) # PurchasesOf(z) /\ SalesOf(y) # PayOf(z)
                /\ CarriageOf(y) # InventoryOf(z) /\ CarriageOf(y) # PurchasesOf(z)
                /\ CarriageOf(y) # PayOf(z) /\ InventoryOf(y) # PurchasesOf(z)
                /\ InventoryOf(y) # PayOf(z) /\ PurchasesOf(y) # PayOf(z)
  BY DEF SalesOf, CarriageOf, InventoryOf, PurchasesOf, PayOf
<1>5. total \in Int /\ -goods \in Int /\ -carriage \in Int
  OBVIOUS
<1>6. bal'[SalesOf(e)] = bal[SalesOf(e)] - At(seller, e, goods)
  <2>1. /\ At(SalesOf(e), bought, total) = 0
        /\ At(SalesOf(e), CarriageOf(carrier), -carriage) = 0
    BY <1>4 DEF At
  <2>2. At(SalesOf(e), SalesOf(seller), -goods) = IF seller = e THEN -goods ELSE 0
    BY <1>3 DEF At
  <2>3. At(seller, e, goods) = IF seller = e THEN goods ELSE 0
    BY DEF At
  <2>4. bal[SalesOf(e)] \in Int
    BY <1>2
  <2> HIDE DEF bought, total
  <2>5. CASE seller = e
    BY <1>1, <1>2, <2>1, <2>2, <2>3, <2>4, <2>5
  <2>6. CASE seller # e
    BY <1>1, <1>2, <2>1, <2>2, <2>3, <2>4, <2>6
  <2> QED
    BY <2>5, <2>6
<1>7. bal'[CarriageOf(e)] = bal[CarriageOf(e)] - At(carrier, e, carriage)
  <2>1. /\ At(CarriageOf(e), bought, total) = 0
        /\ At(CarriageOf(e), SalesOf(seller), -goods) = 0
    BY <1>4 DEF At
  <2>2. At(CarriageOf(e), CarriageOf(carrier), -carriage) = IF carrier = e THEN -carriage ELSE 0
    BY <1>3 DEF At
  <2>3. At(carrier, e, carriage) = IF carrier = e THEN carriage ELSE 0
    BY DEF At
  <2>4. bal[CarriageOf(e)] \in Int
    BY <1>2
  <2> HIDE DEF bought, total
  <2>5. CASE carrier = e
    BY <1>1, <1>2, <2>1, <2>2, <2>3, <2>4, <2>5
  <2>6. CASE carrier # e
    BY <1>1, <1>2, <2>1, <2>2, <2>3, <2>4, <2>6
  <2> QED
    BY <2>5, <2>6
<1>8. bal'[PayOf(e)] = bal[PayOf(e)]
  <2>1. /\ At(PayOf(e), bought, total) = 0
        /\ At(PayOf(e), SalesOf(seller), -goods) = 0
        /\ At(PayOf(e), CarriageOf(carrier), -carriage) = 0
    BY <1>4 DEF At
  <2>2. bal[PayOf(e)] \in Int
    BY <1>2
  <2> HIDE DEF bought, total
  <2> QED
    BY <1>1, <1>2, <2>1, <2>2
<1>9. /\ bal'[PurchasesOf(e)] = bal[PurchasesOf(e)] + At(PurchasesOf(e), bought, total)
      /\ bal'[InventoryOf(e)] = bal[InventoryOf(e)] + At(InventoryOf(e), bought, total)
      /\ bal[PurchasesOf(e)] \in Int /\ bal[InventoryOf(e)] \in Int
      /\ At(PurchasesOf(e), bought, total) \in Int /\ At(InventoryOf(e), bought, total) \in Int
  <2>1. /\ At(PurchasesOf(e), SalesOf(seller), -goods) = 0
        /\ At(PurchasesOf(e), CarriageOf(carrier), -carriage) = 0
        /\ At(InventoryOf(e), SalesOf(seller), -goods) = 0
        /\ At(InventoryOf(e), CarriageOf(carrier), -carriage) = 0
    BY <1>4 DEF At
  <2>2. bal[PurchasesOf(e)] \in Int /\ bal[InventoryOf(e)] \in Int
    BY <1>2
  <2>3. /\ At(PurchasesOf(e), bought, total) \in Int /\ At(InventoryOf(e), bought, total) \in Int
    BY <1>5 DEF At
  <2> HIDE DEF bought, total
  <2> QED
    BY <1>1, <1>2, <2>1, <2>2, <2>3
<1>10. At(PurchasesOf(e), bought, total) + At(InventoryOf(e), bought, total)
         = At(buyer, e, goods + carriage)
  <2>1. CASE treatment = "inventory"
    <3>1. bought = InventoryOf(buyer)
      BY <2>1
    <3>2. At(PurchasesOf(e), bought, total) = 0
      BY <1>4, <3>1 DEF At
    <3>3. At(InventoryOf(e), bought, total) = At(buyer, e, total)
      BY <1>3, <3>1 DEF At
    <3>4. At(buyer, e, total) \in Int
      BY <1>5 DEF At
    <3> HIDE DEF bought
    <3> QED
      BY <3>2, <3>3, <3>4
  <2>2. CASE treatment # "inventory"
    <3>1. bought = PurchasesOf(buyer)
      BY <2>2
    <3>2. At(InventoryOf(e), bought, total) = 0
      BY <1>4, <3>1 DEF At
    <3>3. At(PurchasesOf(e), bought, total) = At(buyer, e, total)
      BY <1>3, <3>1 DEF At
    <3>4. At(buyer, e, total) \in Int
      BY <1>5 DEF At
    <3> HIDE DEF bought
    <3> QED
      BY <3>2, <3>3, <3>4
  <2> QED
    BY <2>1, <2>2
<1> HIDE DEF bought, total
<1>11. At(buyer, e, goods + carriage) \in Int
  BY DEF At
<1> QED
  BY <1>6, <1>7, <1>8, <1>9, <1>10, <1>11

(* What the trades earn and cost is in whole units of money.                *)
LEMMA TradeSums ==
  ASSUME TypeOK
  PROVE  /\ SettledTrades \subseteq DOMAIN trades /\ DOMAIN trades \subseteq Int
         /\ IsFiniteSet(SettledTrades) /\ IsFiniteSet(Booked)
         /\ \A i \in DOMAIN trades : /\ trades[i].value \in Int /\ trades[i].carriage \in Int
                                     /\ trades[i].seller \in Businesses
                                     /\ trades[i].buyer \in Businesses
         /\ \A e : \A i \in DOMAIN trades :
              /\ EarnedBy(e)[i] = At(trades[i].seller, e, trades[i].value)
              /\ CarriedBy(e)[i] = At(trades[i].carrier, e, trades[i].carriage)
              /\ BoughtBy(e)[i]
                   = At(trades[i].buyer, e, trades[i].value + trades[i].carriage)
              /\ EarnedBy(e)[i] \in Int /\ CarriedBy(e)[i] \in Int /\ BoughtBy(e)[i] \in Int
<1>1. trades \in Seq(Receipt)
  BY DEF TypeOK
<1>2. /\ DOMAIN trades = 1 .. Len(trades) /\ Len(trades) \in Nat
      /\ \A i \in DOMAIN trades : trades[i] \in Receipt
  BY <1>1
<1>3. \A i \in DOMAIN trades : /\ trades[i].value \in Int /\ trades[i].carriage \in Int
                               /\ trades[i].seller \in Businesses
                               /\ trades[i].buyer \in Businesses
  BY <1>2 DEF Receipt
<1>4. IsFiniteSet(SettledTrades) /\ SettledTrades \subseteq DOMAIN trades
  <2>1. IsFiniteSet(DOMAIN trades)
    BY <1>2, FS_Interval
  <2> QED
    BY <2>1, FS_Subset DEF SettledTrades
<1>5. IsFiniteSet(Booked)
  BY <1>4, FS_Subset DEF Booked
<1>6. ASSUME NEW e, NEW i \in DOMAIN trades
      PROVE  /\ EarnedBy(e)[i] = At(trades[i].seller, e, trades[i].value)
             /\ CarriedBy(e)[i] = At(trades[i].carrier, e, trades[i].carriage)
             /\ BoughtBy(e)[i]
                  = At(trades[i].buyer, e, trades[i].value + trades[i].carriage)
             /\ EarnedBy(e)[i] \in Int /\ CarriedBy(e)[i] \in Int /\ BoughtBy(e)[i] \in Int
  <2>1. trades[i].value \in Int /\ trades[i].carriage \in Int
    BY <1>3
  <2> QED
    BY <2>1 DEF EarnedBy, CarriedBy, BoughtBy, At
<1> QED
  BY <1>2, <1>3, <1>4, <1>5, <1>6

(* Before the books are opened nothing is posted.                           *)
LEMMA NotYetBooked ==
  ASSUME GoodsInv, BooksInv,
         \/ ProductionStep /\ UNCHANGED <<marketVars, financeVars, script, opened>>
         \/ MaterialStep /\ UNCHANGED <<financeVars, script, opened>>
  PROVE  BooksInv'
<1>1. UNCHANGED bal
  BY DEF financeVars
<1>2. /\ stage \notin {"books", "closed"} /\ stage' \notin {"books", "closed"}
  BY DEF ProductionStep, RollMonth, Produce, CloseProduction, MaterialStep,
         ApplyStorageLosses, Handle, OpenMarket, PlanExport, NextDemand, ResolveMarket,
         SellLocally, NextBuyer, CloseMarket
<1>3. \A e \in Businesses : Unbooked(e)
  BY <1>2 DEF BooksInv
<1>4. \A e \in Businesses : Unbooked(e)'
  BY <1>1, <1>3 DEF Unbooked, Finance!Inventory
<1> QED
  BY <1>2, <1>4 DEF BooksInv

LEMMA InitBooks == Init => BooksInv
<1> SUFFICES ASSUME Init PROVE BooksInv
  OBVIOUS
<1>1. stage \notin {"books", "closed"}
  <2>1. PICK world \in Worlds : stage = world.stage
    BY DEF Init
  <2>2. world.stage \in {"roll", "market"}
    BY ScenarioAssumption DEF WorldAccepted
  <2> QED
    BY <2>1, <2>2
<1>2. ASSUME NEW e \in Businesses PROVE Unbooked(e)
  <2>1. Finance!Init
    BY DEF Init
  <2>2. \A x \in AccountsOf(e) : bal[x] = IF x = InventoryOf(e) THEN Opening[x] ELSE 0
    BY <2>1, AccountFacts DEF Finance!Init
  <2>3. /\ SalesOf(e) # InventoryOf(e) /\ CarriageOf(e) # InventoryOf(e)
        /\ PurchasesOf(e) # InventoryOf(e) /\ PayOf(e) # InventoryOf(e)
    BY DEF SalesOf, CarriageOf, PurchasesOf, PayOf, InventoryOf
  <2>4. /\ bal[SalesOf(e)] = 0 /\ bal[CarriageOf(e)] = 0 /\ bal[PurchasesOf(e)] = 0
        /\ bal[PayOf(e)] = 0 /\ bal[InventoryOf(e)] = Opening[InventoryOf(e)]
    BY <2>2, <2>3 DEF AccountsOf
  <2> QED
    BY <2>4, AccountFacts DEF Unbooked, SalesOf, CarriageOf, PurchasesOf, PayOf
<1> QED
  BY <1>1, <1>2 DEF BooksInv

(* What the trades come to does not change while they are booked.           *)
LEMMA SameTrades ==
  ASSUME UNCHANGED <<stockVars, opened>>
  PROVE  /\ trades' = trades /\ wages' = wages /\ SettledTrades' = SettledTrades
         /\ \A e : /\ EarnedBy(e)' = EarnedBy(e) /\ CarriedBy(e)' = CarriedBy(e)
                   /\ BoughtBy(e)' = BoughtBy(e)
<1>1. trades' = trades /\ wages' = wages
  BY DEF stockVars, marketVars, productionVars
<1> QED
  BY <1>1 DEF SettledTrades, Settled, EarnedBy, CarriedBy, BoughtBy

\* The accounts as the books of the goods have them.
LEMMA BooksByAccount ==
  ASSUME NEW e \in Businesses
  PROVE  Books(e) <=>
           /\ bal[SalesOf(e)] = -Sum(EarnedBy(e), Booked)
           /\ bal[CarriageOf(e)] = -Sum(CarriedBy(e), Booked)
           /\ bal[PurchasesOf(e)] \in Int /\ bal[InventoryOf(e)] \in Int
           /\ bal[PurchasesOf(e)] + bal[InventoryOf(e)]
                = Opening[InventoryOf(e)] + Sum(BoughtBy(e), Booked)
           /\ bal[PayOf(e)] = IF e \in script.payroll THEN 0 ELSE wages[e]
BY AccountFacts DEF Books, SalesOf, CarriageOf, PurchasesOf, PayOf

LEMMA PrepareKeepsBooks ==
  ASSUME GoodsInv, BooksInv, PrepareEvents
  PROVE  BooksInv'
<1>1. UNCHANGED <<stockVars, opened>> /\ UNCHANGED bal /\ stage = "finance" /\ stage' = "books"
      /\ script' = [payroll |-> {e \in Businesses : wages[e] # 0},
                    trades |-> SettledTrades, preview |-> PreviewEvents]
  BY DEF PrepareEvents, financeVars
<1>2. script'.payroll = {e \in Businesses : wages[e] # 0} /\ script'.trades = SettledTrades
      /\ script'.preview = PreviewEvents
  BY <1>1
<1>3. SettledTrades' = SettledTrades /\ Booked' = {} /\ wages' = wages
  BY <1>1, <1>2, SameTrades DEF Booked
<1>4. ASSUME NEW e \in Businesses PROVE Books(e)'
  <2>1. /\ bal[SalesOf(e)] = 0 /\ bal[CarriageOf(e)] = 0 /\ bal[PurchasesOf(e)] = 0
        /\ bal[PayOf(e)] = 0 /\ bal[InventoryOf(e)] = Opening[InventoryOf(e)]
    <3>1. Unbooked(e)
      BY <1>1 DEF BooksInv
    <3> QED
      BY <3>1, AccountFacts DEF Unbooked, SalesOf, CarriageOf, PurchasesOf, PayOf
  <2>2. /\ Sum(EarnedBy(e)', Booked') = 0 /\ Sum(CarriedBy(e)', Booked') = 0
        /\ Sum(BoughtBy(e)', Booked') = 0
    BY <1>3, SumEmpty
  <2>3. Opening[InventoryOf(e)] \in Int
    BY AccountFacts
  <2>4. 0 = IF e \in script'.payroll THEN 0 ELSE wages'[e]
    BY <1>2, <1>3
  <2>5. /\ bal'[SalesOf(e)] = -Sum(EarnedBy(e)', Booked')
        /\ bal'[CarriageOf(e)] = -Sum(CarriedBy(e)', Booked')
        /\ bal'[PurchasesOf(e)] \in Int /\ bal'[InventoryOf(e)] \in Int
        /\ bal'[PurchasesOf(e)] + bal'[InventoryOf(e)]
             = Opening[InventoryOf(e)] + Sum(BoughtBy(e)', Booked')
        /\ bal'[PayOf(e)] = IF e \in script'.payroll THEN 0 ELSE wages'[e]
    <3>1. bal' = bal
      BY <1>1
    <3>2. bal'[PayOf(e)] = IF e \in script'.payroll THEN 0 ELSE wages'[e]
      BY <2>1, <2>4, <3>1
    <3>3. /\ bal'[SalesOf(e)] = -Sum(EarnedBy(e)', Booked')
          /\ bal'[CarriageOf(e)] = -Sum(CarriedBy(e)', Booked')
      BY <2>1, <2>2, <3>1
    <3>4. /\ bal'[PurchasesOf(e)] \in Int /\ bal'[InventoryOf(e)] \in Int
          /\ bal'[PurchasesOf(e)] + bal'[InventoryOf(e)]
               = Opening[InventoryOf(e)] + Sum(BoughtBy(e)', Booked')
      BY <2>1, <2>2, <2>3, <3>1
    <3> QED
      BY <3>2, <3>3, <3>4
  <2> QED
    BY <2>5, AccountFacts DEF Books, SalesOf, CarriageOf, PurchasesOf, PayOf
<1> QED
  BY <1>1, <1>2, <1>3, <1>4 DEF BooksInv

(* The books while events are posted one by one.                            *)
LEMMA OpenBooks ==
  ASSUME GoodsInv, BooksInv, stage = "books"
  PROVE  /\ script.trades \subseteq SettledTrades /\ script.payroll \subseteq Businesses
         /\ script = [payroll |-> script.payroll, trades |-> script.trades,
                      preview |-> script.preview]
         /\ \A e \in Businesses :
              /\ bal[SalesOf(e)] = -Sum(EarnedBy(e), Booked)
              /\ bal[CarriageOf(e)] = -Sum(CarriedBy(e), Booked)
              /\ bal[PurchasesOf(e)] + bal[InventoryOf(e)]
                   = Opening[InventoryOf(e)] + Sum(BoughtBy(e), Booked)
              /\ bal[PayOf(e)] = IF e \in script.payroll THEN 0 ELSE wages[e]
              /\ \A x \in AccountsOf(e) : bal[x] \in Int
              /\ Sum(EarnedBy(e), Booked) \in Int /\ Sum(CarriedBy(e), Booked) \in Int
              /\ Sum(BoughtBy(e), Booked) \in Int /\ Opening[InventoryOf(e)] \in Int
<1>1. TypeOK /\ wages \in [Businesses -> Int]
  BY DEF GoodsInv, TypeOK
<1>2. ASSUME NEW e \in Businesses
      PROVE  /\ bal[SalesOf(e)] = -Sum(EarnedBy(e), Booked)
             /\ bal[CarriageOf(e)] = -Sum(CarriedBy(e), Booked)
             /\ bal[PurchasesOf(e)] + bal[InventoryOf(e)]
                  = Opening[InventoryOf(e)] + Sum(BoughtBy(e), Booked)
             /\ bal[PayOf(e)] = IF e \in script.payroll THEN 0 ELSE wages[e]
             /\ \A x \in AccountsOf(e) : bal[x] \in Int
             /\ Sum(EarnedBy(e), Booked) \in Int /\ Sum(CarriedBy(e), Booked) \in Int
             /\ Sum(BoughtBy(e), Booked) \in Int /\ Opening[InventoryOf(e)] \in Int
  <2>1. Books(e)
    BY DEF BooksInv
  <2>2. /\ bal[SalesOf(e)] = -Sum(EarnedBy(e), Booked)
        /\ bal[CarriageOf(e)] = -Sum(CarriedBy(e), Booked)
        /\ bal[PurchasesOf(e)] \in Int /\ bal[InventoryOf(e)] \in Int
        /\ bal[PurchasesOf(e)] + bal[InventoryOf(e)]
             = Opening[InventoryOf(e)] + Sum(BoughtBy(e), Booked)
        /\ bal[PayOf(e)] = IF e \in script.payroll THEN 0 ELSE wages[e]
    BY <2>1, BooksByAccount
  <2>3. IsFiniteSet(Booked) /\ \A i \in Booked : i \in DOMAIN trades
    BY <1>1, TradeSums DEF Booked
  <2>4. \A i \in Booked : /\ EarnedBy(e)[i] \in Int /\ CarriedBy(e)[i] \in Int
                          /\ BoughtBy(e)[i] \in Int
    BY <1>1, <2>3, TradeSums
  <2>5. /\ Sum(EarnedBy(e), Booked) \in Int /\ Sum(CarriedBy(e), Booked) \in Int
        /\ Sum(BoughtBy(e), Booked) \in Int
    BY <2>3, <2>4, SumType
  <2>6. bal[SalesOf(e)] \in Int /\ bal[CarriageOf(e)] \in Int /\ bal[PayOf(e)] \in Int
    BY <1>1, <2>2, <2>5
  <2> QED
    BY <2>2, <2>5, <2>6, AccountFacts DEF AccountsOf
<1> QED
  BY <1>2 DEF BooksInv

LEMMA PayrollKeepsBooks ==
  ASSUME GoodsInv, BooksInv, BookPayroll
  PROVE  BooksInv'
<1>1. PICK b \in script.payroll :
        /\ stage = "books" /\ Finance!Payroll(b, wages[b], "cash")
        /\ script' = [script EXCEPT !.payroll = @ \ {b}]
        /\ UNCHANGED <<stage, stockVars, opened>>
  BY DEF BookPayroll
<1>2. /\ script.trades \subseteq SettledTrades /\ script.payroll \subseteq Businesses
      /\ script = [payroll |-> script.payroll, trades |-> script.trades,
                   preview |-> script.preview]
  BY <1>1, OpenBooks
<1>3. /\ script'.payroll = script.payroll \ {b} /\ script'.trades = script.trades
      /\ script' = [payroll |-> script'.payroll, trades |-> script'.trades,
                    preview |-> script'.preview]
  BY <1>1, <1>2
<1>4. /\ wages' = wages /\ SettledTrades' = SettledTrades /\ Booked' = Booked
      /\ \A e : /\ EarnedBy(e)' = EarnedBy(e) /\ CarriedBy(e)' = CarriedBy(e)
                /\ BoughtBy(e)' = BoughtBy(e)
  BY <1>1, <1>3, SameTrades DEF Booked
<1>5. wages[b] \in Int
  BY <1>2 DEF GoodsInv, TypeOK
<1>6. ASSUME NEW e \in Businesses PROVE Books(e)'
  <2>1. /\ bal[SalesOf(e)] = -Sum(EarnedBy(e), Booked)
        /\ bal[CarriageOf(e)] = -Sum(CarriedBy(e), Booked)
        /\ bal[PurchasesOf(e)] + bal[InventoryOf(e)]
             = Opening[InventoryOf(e)] + Sum(BoughtBy(e), Booked)
        /\ bal[PayOf(e)] = IF e \in script.payroll THEN 0 ELSE wages[e]
        /\ \A x \in AccountsOf(e) : bal[x] \in Int
    BY <1>1, OpenBooks
  <2>2. \A x \in AccountsOf(e) : bal'[x] = bal[x] + Where(x = PayOf(b), wages[b])
    BY <1>1, <1>5, <2>1, PayrollPosts
  <2>3. \A x \in AccountsOf(e) : x # PayOf(b) => bal'[x] = bal[x]
    BY <2>1, <2>2 DEF Where
  <2>4. /\ SalesOf(e) # PayOf(b) /\ CarriageOf(e) # PayOf(b) /\ PurchasesOf(e) # PayOf(b)
        /\ InventoryOf(e) # PayOf(b) /\ (PayOf(e) = PayOf(b) <=> e = b)
    BY DEF SalesOf, CarriageOf, PurchasesOf, InventoryOf, PayOf
  <2>5. /\ bal'[SalesOf(e)] = bal[SalesOf(e)] /\ bal'[CarriageOf(e)] = bal[CarriageOf(e)]
        /\ bal'[PurchasesOf(e)] = bal[PurchasesOf(e)]
        /\ bal'[InventoryOf(e)] = bal[InventoryOf(e)]
        /\ bal[PurchasesOf(e)] \in Int /\ bal[InventoryOf(e)] \in Int
    BY <2>1, <2>3, <2>4 DEF AccountsOf
  <2>6. bal'[PayOf(e)] = IF e \in script'.payroll THEN 0 ELSE wages[e]
    <3>1. PayOf(e) \in AccountsOf(e)
      BY DEF AccountsOf
    <3>2. CASE e = b
      <4>1. bal'[PayOf(e)] = bal[PayOf(e)] + wages[b]
        BY <2>2, <3>1, <3>2 DEF Where
      <4>2. bal[PayOf(e)] = 0
        BY <2>1, <3>2
      <4> QED
        BY <1>3, <1>5, <3>2, <4>1, <4>2
    <3>3. CASE e # b
      BY <1>3, <2>1, <2>3, <2>4, <3>1, <3>3
    <3> QED
      BY <3>2, <3>3
  <2>7. /\ bal'[SalesOf(e)] = -Sum(EarnedBy(e)', Booked')
        /\ bal'[CarriageOf(e)] = -Sum(CarriedBy(e)', Booked')
        /\ bal'[PurchasesOf(e)] \in Int /\ bal'[InventoryOf(e)] \in Int
        /\ bal'[PurchasesOf(e)] + bal'[InventoryOf(e)]
             = Opening[InventoryOf(e)] + Sum(BoughtBy(e)', Booked')
        /\ bal'[PayOf(e)] = IF e \in script'.payroll THEN 0 ELSE wages'[e]
    BY <1>4, <2>1, <2>5, <2>6
  <2> QED
    BY <2>7, AccountFacts DEF Books, SalesOf, CarriageOf, PurchasesOf, PayOf
<1> QED
  BY <1>1, <1>2, <1>3, <1>4, <1>6 DEF BooksInv

LEMMA DeliveredKeepsBooks ==
  ASSUME GoodsInv, BooksInv, BookDelivered
  PROVE  BooksInv'
<1> DEFINE i == Min(script.trades)
           trade == trades[i]
           treatment == IF trade.demand = Nil THEN "inventory" ELSE "expense"
<1>1. /\ stage = "books" /\ script.trades # {} /\ trade.value > 0
      /\ Finance!EnterpriseTrade(trade.seller, trade.buyer, trade.carrier, trade.value,
                                 trade.carriage, "cash", treatment)
      /\ script' = [script EXCEPT !.trades = @ \ {i}]
      /\ UNCHANGED <<stage, stockVars, opened>>
  BY DEF BookDelivered, BookTrade
<1>2. /\ script.trades \subseteq SettledTrades /\ script.payroll \subseteq Businesses
      /\ script = [payroll |-> script.payroll, trades |-> script.trades,
                   preview |-> script.preview]
  BY <1>1, OpenBooks
<1>3. TypeOK
  BY DEF GoodsInv
<1>4. i \in script.trades
  <2>1. IsFiniteSet(script.trades) /\ script.trades \subseteq Int
    BY <1>2, <1>3, TradeSums, FS_Subset
  <2> QED
    BY <1>1, <2>1, MinOf
<1>5. /\ i \in DOMAIN trades /\ trade.value \in Int /\ trade.carriage \in Int
  BY <1>2, <1>3, <1>4, TradeSums
<1> HIDE DEF i
<1>6. /\ script'.payroll = script.payroll /\ script'.trades = script.trades \ {i}
      /\ script' = [payroll |-> script'.payroll, trades |-> script'.trades,
                    preview |-> script'.preview]
  BY <1>1, <1>2
<1>7. /\ wages' = wages /\ SettledTrades' = SettledTrades
      /\ \A e : /\ EarnedBy(e)' = EarnedBy(e) /\ CarriedBy(e)' = CarriedBy(e)
                /\ BoughtBy(e)' = BoughtBy(e)
  BY <1>1, SameTrades
<1>8. Booked' = Booked \cup {i} /\ i \notin Booked
  BY <1>2, <1>4, <1>6, <1>7 DEF Booked
<1>9. IsFiniteSet(Booked) /\ \A j \in Booked : j \in DOMAIN trades
  BY <1>3, TradeSums DEF Booked
<1>10. ASSUME NEW e \in Businesses PROVE Books(e)'
  <2>1. /\ bal[SalesOf(e)] = -Sum(EarnedBy(e), Booked)
        /\ bal[CarriageOf(e)] = -Sum(CarriedBy(e), Booked)
        /\ bal[PurchasesOf(e)] + bal[InventoryOf(e)]
             = Opening[InventoryOf(e)] + Sum(BoughtBy(e), Booked)
        /\ bal[PayOf(e)] = IF e \in script.payroll THEN 0 ELSE wages[e]
        /\ \A x \in AccountsOf(e) : bal[x] \in Int
        /\ Sum(EarnedBy(e), Booked) \in Int /\ Sum(CarriedBy(e), Booked) \in Int
        /\ Sum(BoughtBy(e), Booked) \in Int /\ Opening[InventoryOf(e)] \in Int
    BY <1>1, OpenBooks
  <2>2. /\ bal'[SalesOf(e)] = bal[SalesOf(e)] - At(trade.seller, e, trade.value)
        /\ bal'[CarriageOf(e)] = bal[CarriageOf(e)] - At(trade.carrier, e, trade.carriage)
        /\ bal'[PurchasesOf(e)] + bal'[InventoryOf(e)]
             = bal[PurchasesOf(e)] + bal[InventoryOf(e)]
               + At(trade.buyer, e, trade.value + trade.carriage)
        /\ bal'[PurchasesOf(e)] \in Int /\ bal'[InventoryOf(e)] \in Int
        /\ bal'[PayOf(e)] = bal[PayOf(e)]
    <3>1. treatment \in {"inventory", "expense"}
      OBVIOUS
    <3> DEFINE goods == trade.value
               carriage == trade.carriage
               seller == trade.seller
               buyer == trade.buyer
               carrier == trade.carrier
    <3>2. goods \in Int /\ carriage \in Int
      BY <1>5
    <3>3. Finance!EnterpriseTrade(seller, buyer, carrier, goods, carriage, "cash", treatment)
      BY <1>1
    <3>4. \A x \in AccountsOf(e) : bal[x] \in Int
      BY <2>1
    <3> HIDE DEF treatment, trade, goods, carriage, seller, buyer, carrier
    <3>5. /\ bal'[SalesOf(e)] = bal[SalesOf(e)] - At(seller, e, goods)
          /\ bal'[CarriageOf(e)] = bal[CarriageOf(e)] - At(carrier, e, carriage)
          /\ bal'[PurchasesOf(e)] + bal'[InventoryOf(e)]
               = bal[PurchasesOf(e)] + bal[InventoryOf(e)] + At(buyer, e, goods + carriage)
          /\ bal'[PurchasesOf(e)] \in Int /\ bal'[InventoryOf(e)] \in Int
          /\ bal'[PayOf(e)] = bal[PayOf(e)]
      BY <3>1, <3>2, <3>3, <3>4, TradePosts
    <3> QED
      BY <3>5 DEF goods, carriage, seller, buyer, carrier
  <2>3. /\ EarnedBy(e)[i] = At(trade.seller, e, trade.value)
        /\ CarriedBy(e)[i] = At(trade.carrier, e, trade.carriage)
        /\ BoughtBy(e)[i] = At(trade.buyer, e, trade.value + trade.carriage)
        /\ EarnedBy(e)[i] \in Int /\ CarriedBy(e)[i] \in Int /\ BoughtBy(e)[i] \in Int
    BY <1>3, <1>5, TradeSums
  <2> HIDE DEF treatment, trade
  <2>4. \A j \in Booked : /\ EarnedBy(e)[j] \in Int /\ CarriedBy(e)[j] \in Int
                          /\ BoughtBy(e)[j] \in Int
    BY <1>3, <1>9, TradeSums
  <2>5. Sum(EarnedBy(e), Booked') = EarnedBy(e)[i] + Sum(EarnedBy(e), Booked)
    BY <1>8, <1>9, <2>3, <2>4, SumInsert
  <2>6. Sum(CarriedBy(e), Booked') = CarriedBy(e)[i] + Sum(CarriedBy(e), Booked)
    BY <1>8, <1>9, <2>3, <2>4, SumInsert
  <2>7. Sum(BoughtBy(e), Booked') = BoughtBy(e)[i] + Sum(BoughtBy(e), Booked)
    BY <1>8, <1>9, <2>3, <2>4, SumInsert
  <2>8. bal'[SalesOf(e)] = -Sum(EarnedBy(e)', Booked')
    BY <1>7, <2>1, <2>2, <2>3, <2>5
  <2>9. bal'[CarriageOf(e)] = -Sum(CarriedBy(e)', Booked')
    BY <1>7, <2>1, <2>2, <2>3, <2>6
  <2>10. bal'[PurchasesOf(e)] + bal'[InventoryOf(e)]
           = Opening[InventoryOf(e)] + Sum(BoughtBy(e)', Booked')
    BY <1>7, <2>1, <2>2, <2>3, <2>7
  <2>11. bal'[PayOf(e)] = IF e \in script'.payroll THEN 0 ELSE wages'[e]
    BY <1>6, <1>7, <2>1, <2>2
  <2> QED
    BY <2>2, <2>8, <2>9, <2>10, <2>11, AccountFacts
    DEF Books, SalesOf, CarriageOf, PurchasesOf, PayOf
<1>11. script'.trades \subseteq SettledTrades' /\ script'.payroll \subseteq Businesses
  BY <1>2, <1>6, <1>7
<1>12. stage' = "books"
  BY <1>1
<1> HIDE DEF treatment, trade
<1> QED
  BY <1>6, <1>10, <1>11, <1>12 DEF BooksInv

LEMMA PreviewKeepsBooks ==
  ASSUME GoodsInv, BooksInv, BookPreview
  PROVE  BooksInv'
<1> DEFINE event == Head(script.preview)
           l == CHOOSE l \in LoanIds : TRUE
<1>1. /\ stage = "books" /\ script' = [script EXCEPT !.preview = Tail(@)]
      /\ UNCHANGED <<stage, stockVars, opened>>
      /\ \/ Finance!BankDeposit(Bank, Depositor, event.amount)
         \/ Finance!LoanOrigination(l, Bank, Borrower, event.amount, AnnualRate)
         \/ Finance!LoanInterestAccrual(l)
         \/ Finance!LoanPrincipalRepayment(l, event.amount)
         \/ Finance!TaxAssessment(Treasury, Depositor, event.amount)
         \/ Finance!TaxReceipt(Treasury, Depositor, event.amount, "cash")
  BY DEF BookPreview
<1>2. /\ script.trades \subseteq SettledTrades /\ script.payroll \subseteq Businesses
      /\ script = [payroll |-> script.payroll, trades |-> script.trades,
                   preview |-> script.preview]
  BY <1>1, OpenBooks
<1>3. /\ script'.payroll = script.payroll /\ script'.trades = script.trades
      /\ script' = [payroll |-> script'.payroll, trades |-> script'.trades,
                    preview |-> script'.preview]
  BY <1>1, <1>2
<1>4. /\ wages' = wages /\ SettledTrades' = SettledTrades /\ Booked' = Booked
      /\ \A e : /\ EarnedBy(e)' = EarnedBy(e) /\ CarriedBy(e)' = CarriedBy(e)
                /\ BoughtBy(e)' = BoughtBy(e)
  BY <1>1, <1>3, SameTrades DEF Booked
<1> DEFINE n == event.amount
<1>5. \/ Finance!BankDeposit(Bank, Depositor, n)
      \/ Finance!LoanOrigination(l, Bank, Borrower, n, AnnualRate)
      \/ Finance!LoanInterestAccrual(l)
      \/ Finance!LoanPrincipalRepayment(l, n)
      \/ Finance!TaxAssessment(Treasury, Depositor, n)
      \/ Finance!TaxReceipt(Treasury, Depositor, n, "cash")
  BY <1>1
<1> HIDE DEF event, l, n
<1>6. ASSUME NEW e \in Businesses PROVE Books(e)'
  <2>1. /\ bal[SalesOf(e)] = -Sum(EarnedBy(e), Booked)
        /\ bal[CarriageOf(e)] = -Sum(CarriedBy(e), Booked)
        /\ bal[PurchasesOf(e)] + bal[InventoryOf(e)]
             = Opening[InventoryOf(e)] + Sum(BoughtBy(e), Booked)
        /\ bal[PayOf(e)] = IF e \in script.payroll THEN 0 ELSE wages[e]
        /\ \A x \in AccountsOf(e) : bal[x] \in Int
    BY <1>1, OpenBooks
  <2>2. \A x \in AccountsOf(e) : bal'[x] = bal[x]
    BY <1>5, <2>1, PreviewPosts
  <2>3. /\ bal'[SalesOf(e)] = bal[SalesOf(e)] /\ bal'[CarriageOf(e)] = bal[CarriageOf(e)]
        /\ bal'[PurchasesOf(e)] = bal[PurchasesOf(e)] /\ bal'[PayOf(e)] = bal[PayOf(e)]
        /\ bal'[InventoryOf(e)] = bal[InventoryOf(e)]
        /\ bal[PurchasesOf(e)] \in Int /\ bal[InventoryOf(e)] \in Int
    BY <2>1, <2>2 DEF AccountsOf
  <2>4. /\ bal'[SalesOf(e)] = -Sum(EarnedBy(e)', Booked')
        /\ bal'[CarriageOf(e)] = -Sum(CarriedBy(e)', Booked')
        /\ bal'[PurchasesOf(e)] \in Int /\ bal'[InventoryOf(e)] \in Int
        /\ bal'[PurchasesOf(e)] + bal'[InventoryOf(e)]
             = Opening[InventoryOf(e)] + Sum(BoughtBy(e)', Booked')
        /\ bal'[PayOf(e)] = IF e \in script'.payroll THEN 0 ELSE wages'[e]
    BY <1>3, <1>4, <2>1, <2>3
  <2> QED
    BY <2>4, AccountFacts DEF Books, SalesOf, CarriageOf, PurchasesOf, PayOf
<1> QED
  BY <1>1, <1>2, <1>3, <1>4, <1>6 DEF BooksInv

LEMMA CloseKeepsBooks ==
  ASSUME GoodsInv, BooksInv, CloseMonth \/ UNCHANGED vars
  PROVE  BooksInv'
<1>1. /\ UNCHANGED <<stockVars, script, opened, bal>>
      /\ \/ stage = "books" /\ stage' = "closed" /\ script = NoEvents
         \/ stage' = stage
  BY DEF CloseMonth, vars, financeVars
<1>2. /\ wages' = wages /\ SettledTrades' = SettledTrades /\ script' = script
      /\ Booked' = Booked
      /\ \A e : /\ EarnedBy(e)' = EarnedBy(e) /\ CarriedBy(e)' = CarriedBy(e)
                /\ BoughtBy(e)' = BoughtBy(e)
  BY <1>1, SameTrades DEF Booked
<1>3. \A e : Books(e)' <=> Books(e)
  BY <1>1, <1>2 DEF Books, Finance!Inventory
<1>4. \A e : Unbooked(e)' <=> Unbooked(e)
  BY <1>1 DEF Unbooked, Finance!Inventory
<1>5. NoEvents' = NoEvents
  BY DEF NoEvents
<1> QED
  BY <1>1, <1>2, <1>3, <1>4, <1>5 DEF BooksInv

LEMMA NextKeepsBooks ==
  ASSUME GoodsInv, BooksInv, [Next]_vars
  PROVE  BooksInv'
<1>1. CASE \/ ProductionStep /\ UNCHANGED <<marketVars, financeVars, script, opened>>
           \/ MaterialStep /\ UNCHANGED <<financeVars, script, opened>>
  BY <1>1, NotYetBooked
<1>2. CASE PrepareEvents \/ BookPayroll \/ BookDelivered \/ BookPreview
  BY <1>2, PrepareKeepsBooks, PayrollKeepsBooks, DeliveredKeepsBooks, PreviewKeepsBooks
<1>3. CASE CloseMonth \/ UNCHANGED vars
  BY <1>3, CloseKeepsBooks
<1> QED
  BY <1>1, <1>2, <1>3 DEF Next

LEMMA ClosedBooks ==
  ASSUME GoodsInv, BooksInv
  PROVE  MoneyFollowsGoods
<1> DEFINE delivered == {i \in DOMAIN trades : trades[i].status = "delivered"
                                               /\ trades[i].seller # trades[i].buyer}
<1> SUFFICES ASSUME stage = "closed", NEW e \in Businesses
             PROVE  /\ -bal[SalesOf(e)] = Sum(EarnedBy(e), delivered)
                    /\ -bal[CarriageOf(e)] = Sum(CarriedBy(e), delivered)
                    /\ bal[PurchasesOf(e)] + bal[InventoryOf(e)] - Opening[InventoryOf(e)]
                         = Sum(BoughtBy(e), delivered)
                    /\ bal[PayOf(e)] = wages[e]
  BY AccountFacts DEF MoneyFollowsGoods, SalesOf, CarriageOf, PurchasesOf, PayOf
<1>1. TypeOK
  BY DEF GoodsInv
<1>2. script.trades = {} /\ script.payroll = {}
  BY DEF BooksInv, NoEvents
<1>3. Booked = delivered
  BY <1>2 DEF Booked, SettledTrades, Settled
<1>4. /\ bal[SalesOf(e)] = -Sum(EarnedBy(e), Booked)
      /\ bal[CarriageOf(e)] = -Sum(CarriedBy(e), Booked)
      /\ bal[PurchasesOf(e)] \in Int /\ bal[InventoryOf(e)] \in Int
      /\ bal[PurchasesOf(e)] + bal[InventoryOf(e)]
           = Opening[InventoryOf(e)] + Sum(BoughtBy(e), Booked)
      /\ bal[PayOf(e)] = wages[e]
  <2>1. Books(e)
    BY DEF BooksInv
  <2> QED
    BY <1>2, <2>1, BooksByAccount
<1>5. /\ Sum(EarnedBy(e), Booked) \in Int /\ Sum(CarriedBy(e), Booked) \in Int
      /\ Sum(BoughtBy(e), Booked) \in Int
  <2>1. IsFiniteSet(Booked) /\ \A i \in Booked : i \in DOMAIN trades
    BY <1>1, TradeSums DEF Booked
  <2>2. \A i \in Booked : /\ EarnedBy(e)[i] \in Int /\ CarriedBy(e)[i] \in Int
                          /\ BoughtBy(e)[i] \in Int
    BY <1>1, <2>1, TradeSums
  <2> QED
    BY <2>1, <2>2, SumType
<1>6. Opening[InventoryOf(e)] \in Int
  BY AccountFacts
<1> HIDE DEF delivered
<1>7. -bal[SalesOf(e)] = Sum(EarnedBy(e), delivered)
  BY <1>3, <1>4, <1>5
<1>8. -bal[CarriageOf(e)] = Sum(CarriedBy(e), delivered)
  BY <1>3, <1>4, <1>5
<1>9. bal[PurchasesOf(e)] + bal[InventoryOf(e)] - Opening[InventoryOf(e)]
        = Sum(BoughtBy(e), delivered)
  BY <1>3, <1>4, <1>5, <1>6
<1> QED
  BY <1>4, <1>7, <1>8, <1>9

(* When the month is closed every business's books say exactly what the     *)
(* receipts of its goods say: each delivered trade is posted once, in all   *)
(* its parts, no other trade is, and nothing the preview adds touches them. *)
THEOREM BooksFollowGoods == Spec => []MoneyFollowsGoods
<1>1. GoodsInv /\ BooksInv /\ [Next]_vars => BooksInv'
  BY NextKeepsBooks
<1>2. GoodsInv /\ BooksInv => MoneyFollowsGoods
  BY ClosedBooks
<1> QED
  BY <1>1, <1>2, InitBooks, GoodsKept, PTL DEF Spec
=============================================================================
