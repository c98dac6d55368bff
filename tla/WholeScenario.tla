--------------------------- MODULE WholeScenario ---------------------------
(***************************************************************************)
(* whole_economy.py: the scenarios and opening states that are accepted,   *)
(* as an assumption on the constants of WholeEconomy.  Schemas, texts and  *)
(* hashes are left out; the pending operations are PendingOperations'.     *)
(* What the code checks only when it gets there (a rate, a term, a class,  *)
(* a pool) is asked for here as well: a month that met anything else would *)
(* raise.                                                                  *)
(***************************************************************************)
EXTENDS WholeEconomy

Fraction == 0..Scale
BelowOne == 0..(Scale - 1)
Partial(f, D) == DOMAIN f \subseteq D /\ f \in [DOMAIN f -> Nat]
Listed(s) == s \in Seq({s[i] : i \in DOMAIN s})
InOrder(ids) == ids \subseteq {LoanOrder[i] : i \in DOMAIN LoanOrder}
OneOf(f(_), S) == \A x, y \in S : f(x) = f(y) => x = y
-----------------------------------------------------------------------------
\* validate_scenario: every reference is to something known, every role that
\* takes part in a transaction has an account, and rates are rates.
ValidWant(w) ==
  /\ w.buyer \in Entities /\ w.place \in Places /\ w.each \in Nat
  /\ w.substitutes \in Seq([good : Goods, ratio : Nat \ {0}])
ValidDemand(w) == w.buyer \in Entities /\ w.place \in Places /\ w.quantity \in Nat
ValidGood(g) ==
  /\ Spoilage[g] \in BelowOne
  /\ \A field \in {"min", "max", "elasticity"} : PriceRule[g][field] \in Nat
ValidRecipe(r) ==
  /\ r.entity \in Entities /\ r.site \in Sites
  /\ r.max \in Nat /\ r.desired \in Nat
  /\ Partial(r.inputs, Goods) /\ Partial(r.outputs, Goods)
  /\ r.labor \in Seq([pool : DOMAIN Pools, days : Nat])
ValidRoute(r) ==
  /\ {r.origin, r.destination} \subseteq Sites
  /\ {r.carrier, r.collector} \subseteq Entities
  /\ r.goods # {} /\ r.goods \subseteq Goods
  /\ r.loss \in BelowOne
  /\ {r.capacity, r.travel, r.carriage, r.toll} \subseteq Nat
ValidTenure(t) ==
  /\ t.site \in Sites
  /\ {t.tenant, t.landlord, t.church, t.treasury} \subseteq Entities
  /\ {t.acres, t.rent} \subseteq Nat
  /\ {t.due, t.tithe, t.tax} \subseteq Fraction
ValidRequest(r) ==
  /\ r.bank \in Banks /\ {r.borrower, r.owner} \subseteq Entities /\ r.place \in Places
  /\ {r.amount, r.pledge, r.ratio} \subseteq Nat /\ {r.rate, r.haircut} \subseteq Fraction
  /\ {r.term, r.limit} \subseteq Nat \ {0}
ValidLink(k) == {k.hunger, k.wage, k.friction} \subseteq Nat /\ k.max \in Fraction
ValidShock(s) ==
  /\ s.months # {} /\ s.months \subseteq Nat \ {0}
  /\ \A name \in DOMAIN s.effects : s.effects[name] \in Int

ScenarioAccepted ==
  /\ Listed(Names) /\ Listed(Routes) /\ Listed(Recipes) /\ Listed(Tenures)
  /\ IsFiniteSet(Sites) /\ IsFiniteSet(Goods) /\ IsFiniteSet(DOMAIN Pools)
  /\ IsFiniteSet(Shocks)
  /\ \A g \in Goods : ValidGood(g)
  /\ \A i \in DOMAIN Baskets : ValidWant(Baskets[i])
  /\ \A i \in DOMAIN Demands : ValidDemand(Demands[i])
  /\ \A i \in DOMAIN Recipes : ValidRecipe(Recipes[i])
  /\ \A i \in DOMAIN Routes : ValidRoute(Routes[i])
  /\ \A i \in DOMAIN Tenures : ValidTenure(Tenures[i])
  /\ \A i \in DOMAIN Requests : ValidRequest(Requests[i])
  /\ LET Id(i) == Requests[i].loan IN OneOf(Id, DOMAIN Requests)
  /\ LET Id(i) == LoanOrder[i] IN OneOf(Id, DOMAIN LoanOrder)
  /\ InOrder({Requests[i].loan : i \in DOMAIN Requests})
  /\ \A i \in DOMAIN Links : ValidLink(Links[i])
  /\ \A b \in Banks : ReserveRatio[b] \in Fraction
  /\ \A s \in Shocks : ValidShock(s)
  /\ LET Id(s) == s.id IN OneOf(Id, Shocks)
  /\ \A p \in DOMAIN Pools : Pools[p].household \in Entities
-----------------------------------------------------------------------------
\* _normalize_state: amounts are not negative, and each bank's books agree
\* with the deposits and loans they are about (those left out are computed
\* from them, as Init does).  A deposit has a bank that owes it: transfer
\* raises when it draws on one that has none.
AmountsValid(w) ==
  /\ \A f \in {w.cash, w.deposit} : f \in [Entities -> Nat]
  /\ \A e \in Entities : BankOf[e] = None => w.deposit[e] = 0
  /\ w.reserves \in [Banks -> Nat]
  /\ Partial(w.stock, Rows)
  /\ w.price \in [Places -> Nat]
  /\ w.people \in [DOMAIN w.people -> Nat]
  /\ w.labor \in [DOMAIN Pools -> [workers : Nat, wage : Nat, employed : Nat]]

\* Every class that buys or moves has a population.
ClassesKnown(w) ==
  /\ \A i \in DOMAIN Baskets : <<Baskets[i].place[1], Baskets[i].class>> \in DOMAIN w.people
  /\ \A i \in DOMAIN Links : {<<Links[i].origin, Links[i].class>>,
                               <<Links[i].destination, Links[i].class>>} \subseteq DOMAIN w.people

\* Those a loan is ever given: the last two are no longer served.
Statuses == {"performing", "delinquent", "repaid", "defaulted"}
LoanRecords ==
  [bank : Banks, borrower : Entities, owner : Entities, place : Places,
   principal : Nat, interest : Nat, scheduled : Nat, pledge : Nat, rate : Fraction,
   haircut : Fraction, remaining : Nat, origin : Nat, missed : Nat, limit : Nat \ {0},
   status : Statuses, released : BOOLEAN]

\* A shipment that was under way before the first month has a number of month 0.
\* What is due for it is due in whole cents, to which it is rounded when paid.
InCents == {n \in Nat : n % Cent = 0}
Lots == [id : Nat \X Nat, seller : Entities, buyer : Entities, site : Sites, good : Goods,
         quantity : Nat, arrival : Nat, prepaid : BOOLEAN,
         dues : Seq([to : Entities, amount : InCents])]
ValidShipment(l) == l \in Lots /\ l.id[1] = 0

\* initial_state: a loan's collateral is there, and no stock is pledged twice
\* over.
PledgesCovered(w) ==
  \A id \in DOMAIN w.loans :
    LET row == Pledge(w.loans[id])
    IN Owing(w.loans[id]) =>
         row \in DOMAIN w.stock /\ PledgedIn(w, row) <= w.stock[row]

OpeningAccepted(w) ==
  /\ AmountsValid(w)
  /\ ClassesKnown(w)
  /\ IsFiniteSet(DOMAIN w.loans) /\ InOrder(DOMAIN w.loans)
  /\ w.loans \in [DOMAIN w.loans -> LoanRecords]
  /\ IsFiniteSet(w.transit)
  /\ \A l \in w.transit : ValidShipment(l)
  /\ LET Id(l) == l.id IN OneOf(Id, w.transit)
  /\ PledgesCovered(w)

ASSUME ScenarioAssumption ==
  ScenarioAccepted /\ \A w \in Openings : OpeningAccepted(w)
-----------------------------------------------------------------------------
\* What the code does not ask for, and some of its promises need.

\* An input of a batch divides the scale, so that the batches there is stock
\* for are not rounded: what they take is there.
ExactInputs ==
  \A i \in DOMAIN Recipes :
    \A g \in Inputs(Recipes[i]) : Scale % Recipes[i].inputs[g] = 0

\* Money and loans come in whole cents, to which whatever is due is rounded.
InWholeCents ==
  /\ \A i \in DOMAIN Requests : Requests[i].amount \in InCents
  /\ \A w \in Openings :
       /\ \A e \in Entities : {w.cash[e], w.deposit[e]} \subseteq InCents
       /\ \A b \in Banks : w.reserves[b] \in InCents
       /\ \A id \in DOMAIN w.loans :
            {w.loans[id].principal, w.loans[id].interest} \subseteq InCents
=============================================================================
