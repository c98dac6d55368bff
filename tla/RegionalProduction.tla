------------------------- MODULE RegionalProduction -------------------------
(***************************************************************************)
(* regional_production.py, with the dice of regional_rolls.py that size    *)
(* its orders: one month of work at the sites of a region.  Each recipe    *)
(* runs once, in the order of priority and identifier, on the stock-flow   *)
(* kernel: material and worker-days are both inputs of a batch.            *)
(*                                                                         *)
(* A lot is identified by its site and good; the scenario gives every site *)
(* one owner, and the engine refuses anything else.  A lot may be Unknown. *)
(* What the code refuses is not a step: the month ends there and nothing   *)
(* of it is stored.                                                        *)
(***************************************************************************)
EXTENDS FixedPoint, Sums, Sequences, FiniteSets

CONSTANTS Owner,        \* site |-> the business that owns it
          Goods,
          Recipes,      \* sequence of recipes, in the order they run
          Pools,        \* labour pool |-> worker-days and daily wage
          Streams,      \* sector |-> businesses in it
          Totals,       \* bound: totals the three dice may show
          Cent,         \* units per cent
          Unknown

VARIABLES stage,        \* what the month does next
          lots,         \* <<site, good>> |-> quantity in stock, or Unknown
          orders,       \* batches requested of each recipe
          made,         \* batches made of each recipe so far
          days,         \* labour pool |-> worker-days left
          wages         \* entity |-> pay of the month

Sites == DOMAIN Owner
Places == Sites \X Goods
Businesses == {Owner[s] : s \in Sites}
\* What the constructors insist on: a recipe makes something, amounts are known.
Quantities(f) == DOMAIN f \subseteq Goods /\ \A g \in DOMAIN f : f[g] \in Nat \ {0}
WellFormedPool(p) == p.days \in Nat /\ p.wage \in Nat
WellFormedRecipe(r) ==
  /\ r.site \in Sites /\ r.sector \in DOMAIN Streams /\ r.pool \in DOMAIN Pools
  /\ Quantities(r.inputs) /\ Quantities(r.outputs) /\ DOMAIN r.outputs # {}
  /\ r.labor \in Nat /\ r.max \in Nat

ASSUME ProductionAssumption ==
  /\ \A i \in DOMAIN Recipes : WellFormedRecipe(Recipes[i])
  /\ \A p \in DOMAIN Pools : WellFormedPool(Pools[p])
  /\ \A s \in DOMAIN Streams : Streams[s] \in Nat
  /\ Totals \subseteq 3..18 /\ Cent \in Nat \ {0}
  /\ Recipes \in Seq({Recipes[i] : i \in DOMAIN Recipes})
  /\ IsFiniteSet(Sites) /\ IsFiniteSet(Goods) /\ Unknown \notin Int
-----------------------------------------------------------------------------
\* classify_3d6, the sector's target and revenue_factor, in hundredths.
Target(sector) ==
  15 + 3 + (IF Streams[sector] >= 7 THEN 2 ELSE IF Streams[sector] >= 4 THEN 1 ELSE 0)
CriticalSuccess(total, target) ==
  total <= 4 \/ (total = 5 /\ target >= 15) \/ (total = 6 /\ target >= 16)
CriticalFailure(total, target) ==
  total = 18 \/ (total = 17 /\ target <= 15) \/ target - total <= -10
RevenueFactor(total, target) ==
  LET margin == target - total
  IN IF CriticalSuccess(total, target) THEN 125
     ELSE IF CriticalFailure(total, target) THEN 70
     ELSE IF total = 17 THEN 90
     ELSE IF margin >= 5 THEN 115
     ELSE IF margin > 0 THEN 105
     ELSE IF margin = 0 THEN 100
     ELSE IF margin <= -5 THEN 80 ELSE 90
Requested(recipe, total) ==
  Lesser(recipe.max,
         HalfEven(recipe.max * 80 * RevenueFactor(total, Target(recipe.sector)), 10000))

\* validate_regional_rolls: a total that three faces can show.
Shown(total) == \E a, b, c \in 1..6 : total = a + b + c

RollMonth ==
  /\ stage = "roll"
  /\ \E total \in [DOMAIN Streams -> {n \in Totals : Shown(n)}] :
       orders' = [i \in DOMAIN Recipes |-> Requested(Recipes[i], total[Recipes[i].sector])]
  /\ stage' = "produce"
  /\ UNCHANGED <<lots, made, days, wages>>

\* _validate_executable_contracts: every lot a recipe draws on is there, and
\* none it touches is Unknown.
Executable ==
  \A i \in DOMAIN Recipes :
    LET recipe == Recipes[i]
    IN /\ \A g \in DOMAIN recipe.inputs : <<recipe.site, g>> \in DOMAIN lots
       /\ \A g \in DOMAIN recipe.inputs \cup DOMAIN recipe.outputs :
            <<recipe.site, g>> \in DOMAIN lots => lots[<<recipe.site, g>>] # Unknown

Stock(p) == IF p \in DOMAIN lots THEN lots[p] ELSE 0
Batches(i) ==
  LET recipe == Recipes[i]
      byInput == {Over(Stock(<<recipe.site, g>>), recipe.inputs[g]) :
                    g \in DOMAIN recipe.inputs}
      byLabor == IF recipe.labor = 0 THEN {} ELSE {Over(days[recipe.pool], recipe.labor)}
  IN Larger(0, Min({orders[i], recipe.max} \cup byInput \cup byLabor))

\* What n batches use up, make, and take in worker-days.
Used(i, n, g) ==
  IF g \in DOMAIN Recipes[i].inputs THEN Times(Recipes[i].inputs[g], n) ELSE 0
Yield(i, n, g) ==
  IF g \in DOMAIN Recipes[i].outputs THEN Times(Recipes[i].outputs[g], n) ELSE 0
Worked(i, n) == Times(Recipes[i].labor, n)

\* _next_regional_state: every lot stays, the Unknown ones as they are, and what
\* the batches touched has the kernel's quantity, in a new lot where none was.
Closing(i, n) ==
  LET touched == {Recipes[i].site} \X (DOMAIN Recipes[i].inputs \cup DOMAIN Recipes[i].outputs)
  IN [p \in DOMAIN lots \cup touched |->
        IF p \in touched THEN Stock(p) - Used(i, n, p[2]) + Yield(i, n, p[2]) ELSE lots[p]]

Produce ==
  LET i == Len(made) + 1
      n == Batches(i)
  IN /\ stage = "produce" /\ i \in DOMAIN Recipes /\ Executable
     /\ made' = Append(made, n)
     /\ lots' = Closing(i, n)
     /\ days' = [days EXCEPT ![Recipes[i].pool] = @ - Worked(i, n)]
     /\ UNCHANGED <<stage, orders, wages>>

\* What RegionalState insists on when the month's lots are put back into one.
StateHolds ==
  DOMAIN lots \subseteq Places /\ \A p \in DOMAIN lots : lots[p] # Unknown => lots[p] >= 0

\* The kernel's own closing checks.
KernelSettles == StateHolds /\ \A l \in DOMAIN Pools : days[l] >= 0

\* The pay of each recipe is rounded to cents by itself, then added up.
Pay(e) ==
  Sum([i \in DOMAIN Recipes |->
         Rounded(Worked(i, made[i]) * Pools[Recipes[i].pool].wage, Scale, Cent)],
      {i \in DOMAIN Recipes : Owner[Recipes[i].site] = e})

CloseProduction ==
  /\ stage = "produce" /\ Len(made) = Len(Recipes) /\ KernelSettles
  /\ wages' = [e \in Businesses |-> Pay(e)]
  /\ stage' = "storage"
  /\ UNCHANGED <<lots, orders, made, days>>
=============================================================================
