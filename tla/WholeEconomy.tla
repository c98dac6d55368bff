---------------------------- MODULE WholeEconomy ----------------------------
(***************************************************************************)
(* whole_economy.py: months of a regional economy.  A month is a fixed     *)
(* script - shocks, arrivals, credit, production, spoilage, markets,       *)
(* obligations, loans, migration, checks - of one step for each shipment,  *)
(* request, recipe, want, tenure, loan and link, in the code's order.  A   *)
(* month that raises leaves nothing: `failed' says why, and the economy    *)
(* stops, for the next attempt is the same.                                *)
(*                                                                         *)
(* Quantities, prices, rates and money are whole numbers of 1/Scale; the   *)
(* code's decimals have fifty digits and round in the same way.  Chances   *)
(* are choices; events, decisions, journal lines and reports are left out. *)
(***************************************************************************)
EXTENDS WholeMarket

CONSTANTS Recipes,      \* sequence of recipes, by priority
          Pools,        \* labour pools <<site, occupation>> |-> who is paid, whose class
          Days,         \* the code's DAYS_PER_MONTH
          Spoilage,     \* good |-> share lost in store
          PriceRule,    \* good |-> [min, max, elasticity]
          Baskets,      \* sequence of wants of households
          Demands,      \* sequence of wants of businesses
          Tenures,      \* sequence of tenures
          Requests,     \* sequence of requests for credit
          LoanOrder,    \* sequence of loan identifiers
          Links,        \* sequence of migration links
          ReserveRatio, \* bank |-> reserves per deposit
          Shocks,       \* set of shocks
          Anywhere,     \* the site and the sector of a shock that has none
          Openings,     \* set of opening worlds
          Months        \* bound: months run

VARIABLES month,        \* the month being run
          at,           \* the next step of its script
          market,       \* money, stock, shipments and the month's records of them
          books,        \* bank |-> [interest, collateral, equity]
          loans,        \* loan |-> its record
          price,        \* place |-> price
          labor,        \* pool |-> [workers, wage, employed]
          people,       \* <<site, class>> |-> population
          arrears,      \* tenant |-> what it owes
          day,          \* what the steps of this month hand on to later ones
          failed        \* why a month could not be completed

vars == <<month, at, market, books, loans, price, labor, people, arrears, day, failed>>
account == <<books, loans, price, labor, people, arrears>>

ASSUME WholeAssumption == Days \in Nat \ {0} /\ Months \in Nat
-----------------------------------------------------------------------------
\* The script of a month.
Each(phase, n) == [i \in 1..n |-> <<phase, i>>]
Once == <<"once">>
MarketOf(s) ==
  LET here == SelectSeq(Each("basket", Len(Baskets)),
                        LAMBDA step : Baskets[step[2]].place[1] = SiteOrder[s])
  IN <<<<"supply", s>>>> \o here
Script ==
  <<<<"shocks", 1>>, <<"arrivals", 1>>>> \o Each("credit", Len(Requests))
  \o Each("recipe", Len(Recipes)) \o <<<<"wages", 1>>, <<"spoilage", 1>>>>
  \o FlattenSeq([s \in DOMAIN SiteOrder |-> MarketOf(s)]) \o Each("demand", Len(Demands)) \o <<<<"prices", 1>>>>
  \o Each("tenure", Len(Tenures)) \o Each("loan", Len(LoanOrder))
  \o Each("link", Len(Links)) \o <<<<"checks", 1>>>>

Doing(phase, items) ==
  failed = "" /\ month <= Months /\ Script[at] \in {phase} \X DOMAIN items
Item == Script[at][2]
NextStep == at' = at + 1 /\ UNCHANGED <<month, failed>>
Fail(why) ==
  failed' = why /\ UNCHANGED <<month, at, market, account, day>>
-----------------------------------------------------------------------------
\* _Month.effect: the shocks at work on a site and a sector.
Hitting(name, site, sector) ==
  {s \in day.active : s.site \in {Anywhere, site} /\ s.sector \in {Anywhere, sector}
                      /\ name \in DOMAIN s.effects}
Multiplier(name, site, sector) ==
  LET Apply(s, value) == Times(value, s.effects[name])
  IN Larger(0, FoldSet(Apply, Scale, Hitting(name, site, sector)))
Delta(name, site) ==
  LET hitting == Hitting(name, site, Anywhere)
  IN Sum([s \in hitting |-> s.effects[name]], hitting)

Between(low, n, high) == Lesser(high, Larger(low, n))

\* _apply_shocks: each scheduled shock is drawn.
ApplyShocks ==
  /\ Doing("shocks", Once)
  /\ LET eligible == {s \in Shocks : month \in s.months}
     IN \E on \in SUBSET eligible :
          /\ \A s \in eligible : s.certain => s \in on
          /\ day' = [day EXCEPT !.active = on]
  /\ NextStep /\ UNCHANGED <<market, account>>

\* _process_arrivals, one shipment at a time in the order of their identifiers.
Waiting == {l \in market.transit : l.arrival <= month /\ l.id \notin day.seen}
Earliest(lots) ==
  CHOOSE l \in lots : \A k \in lots :
    l.id[1] < k.id[1] \/ (l.id[1] = k.id[1] /\ l.id[2] <= k.id[2])
Delivered(m, l) ==
  [m EXCEPT !.transit = @ \ {l},
            !.stock[<<l.buyer, l.site, l.good>>].quantity = @ + l.quantity]

Arrive ==
  /\ Doing("arrivals", Once) /\ Waiting # {}
  /\ LET l == Earliest(Waiting)
     IN /\ market' = IF l.prepaid THEN Delivered(market, l)
                     ELSE IF Payable(market.money, l.buyer, l.dues)
                     THEN Paying(Delivered(market, l), PaidOff(market.money, l.buyer, l.dues))
                     ELSE market
        /\ day' = [day EXCEPT !.seen = @ \cup {l.id}]
  /\ UNCHANGED <<month, at, account, failed>>
AllArrived ==
  Doing("arrivals", Once) /\ Waiting = {} /\ NextStep /\ UNCHANGED <<market, account, day>>
-----------------------------------------------------------------------------
\* _originate_credit
Owing(loan) == loan.status \in {"performing", "delinquent"}
Active(l) == Owing(loans[l])
Pledge(r) == <<r.owner, r.place[1], r.place[2]>>
NetPrice(r) == Times(price[r.place], Scale - r.haircut)
Covered(r) ==
  LET available == Available(market.stock[Pledge(r)])
  IN r.pledge <= available
     /\ Times(Lesser(available, r.pledge), NetPrice(r)) >= Times(r.amount, r.ratio)
ReservesSuffice(r) ==
  market.money.reserves[r.bank]
    >= Times(DepositsAt(market.money, r.bank) + r.amount, ReserveRatio[r.bank])
Loan(r) ==
  [bank |-> r.bank, borrower |-> r.borrower, principal |-> r.amount, rate |-> r.rate,
   interest |-> 0, scheduled |-> HalfEven(r.amount, r.term), remaining |-> r.term,
   origin |-> month, missed |-> 0, limit |-> r.limit, status |-> "performing",
   owner |-> r.owner, place |-> r.place, pledge |-> r.pledge, haircut |-> r.haircut,
   released |-> FALSE]

OriginateCredit ==
  /\ Doing("credit", Requests)
  /\ LET r == Requests[Item]
     IN IF r.month = month /\ r.loan \notin DOMAIN loans /\ BankOf[r.borrower] = r.bank
           /\ Covered(r) /\ ReservesSuffice(r)
        THEN /\ market' = [market EXCEPT !.money.deposit[r.borrower] = @ + r.amount,
                             !.money.liability[r.bank] = @ + r.amount,
                             !.stock[Pledge(r)].pledged = @ + r.pledge]
             /\ loans' = [l \in DOMAIN loans \cup {r.loan} |->
                            IF l = r.loan THEN Loan(r) ELSE loans[l]]
        ELSE UNCHANGED <<market, loans>>
  /\ NextStep /\ UNCHANGED <<books, price, labor, people, arrears, day>>
-----------------------------------------------------------------------------
\* _produce
Inputs(r) == {g \in DOMAIN r.inputs : r.inputs[g] > 0}
WagePerBatch(r) ==
  Sum([i \in DOMAIN r.labor |-> Times(r.labor[i].days, labor[r.labor[i].pool].wage)],
      DOMAIN r.labor)
DaysLeft(r, pool) ==
  Times(labor[pool].workers * Days, Multiplier("labor_multiplier", r.site, r.sector))
  - day.used[pool]
Batches(r) ==
  LET stock(g) == Available(market.stock[<<r.entity, r.site, g>>])
      worked == {i \in DOMAIN r.labor : r.labor[i].days > 0}
      wage == WagePerBatch(r)
  IN Larger(0, Min(
       {r.desired, Times(r.max, Multiplier("production_multiplier", r.site, r.sector))}
       \cup {Over(stock(g), r.inputs[g]) : g \in Inputs(r)}
       \cup {Larger(0, Over(DaysLeft(r, r.labor[i].pool), r.labor[i].days)) : i \in worked}
       \cup (IF wage > 0 THEN {Over(Funds(market.money, r.entity), wage)} ELSE {})))

Worked(r, n) ==
  LET Store(k) == <<r.entity, r.site, k>>
      Amount(of, k) == IF k \in DOMAIN of THEN Times(of[k], n) ELSE 0
      Net(k) == Amount(r.outputs, k) - Amount(r.inputs, k)
  IN [market EXCEPT
        !.stock = [row \in Rows |->
                     IF row = Store(row[3])
                     THEN [market.stock[row] EXCEPT !.quantity = @ + Net(row[3])] ELSE @[row]],
        !.gone = [g \in Goods |-> @[g] - Net(g)]]

\* Payroll, by occupation; full is lost where it falls short.
Payroll(m, r, n) ==
  LET PayWage(acc, part) ==
        Pay(acc, r.entity, Pools[part.pool].household,
            Cents(Times(Times(part.days, n), labor[part.pool].wage)))
  IN FoldLeft(PayWage, [money |-> m.money, full |-> TRUE], r.labor)
WorkedDays(r, n, pool) ==
  Sum([i \in DOMAIN r.labor |-> Times(r.labor[i].days, n)],
      {i \in DOMAIN r.labor : r.labor[i].pool = pool})

\* A recipe that leaves less than nothing makes the next reading of that stock
\* raise, as does one that finds more pledged than there is.
Overdrawn(m, r) == \E g \in DOMAIN r.inputs : m.stock[<<r.entity, r.site, g>>].quantity < 0
Overpledged(row) == market.stock[row].pledged > market.stock[row].quantity

Completed(r, n, worked, paid) ==
  IF \E g \in Inputs(r) : Overpledged(<<r.entity, r.site, g>>) THEN Fail("pledges")
  ELSE IF Overdrawn(worked, r) THEN Fail("inputs")
  ELSE IF ~paid.full THEN Fail("payroll")
  ELSE /\ market' = [worked EXCEPT !.money = paid.money]
       /\ day' = [day EXCEPT !.batches[Item] = n,
                    !.used = [p \in DOMAIN Pools |-> @[p] + WorkedDays(r, n, p)]]
       /\ NextStep /\ UNCHANGED account
Produced(r, n) == Completed(r, n, Worked(r, n), Payroll(market, r, n))
Produce ==
  Doing("recipe", Recipes) /\ Produced(Recipes[Item], Batches(Recipes[Item]))

\* The end of _produce: a wage moves by a twentieth of the distance of the
\* pool's utilisation from four fifths.
AdjustWages ==
  /\ Doing("wages", Once)
  /\ labor' = [p \in DOMAIN Pools |->
       LET capacity == labor[p].workers * Days
           utilised == IF capacity = 0 THEN 0 ELSE Lesser(Scale, Over(day.used[p], capacity))
       IN [labor[p] EXCEPT !.employed = day.used[p],
             !.wage = Larger(Cent, HalfEven(@ * (96 * Scale + 5 * utilised), 100 * Scale))]]
  /\ NextStep /\ UNCHANGED <<market, books, loans, price, people, arrears, day>>
-----------------------------------------------------------------------------
\* _apply_storage_spoilage.  Some of everything always remains (Scale - 1).
Lost(row) ==
  Times(market.stock[row].quantity,
        Between(0, Spoilage[row[3]] + Delta("spoilage_rate_delta", row[2]), Scale - 1))
Impaired(row) ==
  LET s == market.stock[row]
  IN IF row[1] \notin Banks \/ Lost(row) = 0 THEN 0
     ELSE IF Lost(row) = s.quantity THEN s.carrying
     ELSE Lesser(s.carrying, Rounded(s.carrying * Lost(row), s.quantity, Cent))
\* Mutant: pledges stand though the stock under them has spoilt.
SpoiltUnderPledge(row) ==
  [market.stock[row] EXCEPT !.quantity = @ - Lost(row), !.carrying = @ - Impaired(row)]
Spoilt(row) ==
  LET s == market.stock[row]
  IN IF Lost(row) = 0 THEN s
     ELSE [quantity |-> s.quantity - Lost(row),
           pledged |-> Lesser(s.pledged, s.quantity - Lost(row)),
           carrying |-> s.carrying - Impaired(row)]

ApplyStorageSpoilage ==
  /\ Doing("spoilage", Once)
  /\ market' = [market EXCEPT !.stock = [row \in Rows |-> Spoilt(row)],
                  !.gone = [g \in Goods |-> @[g] + Sum([row \in Rows |-> Lost(row)],
                                                       {row \in Rows : row[3] = g})]]
  /\ books' = [b \in Banks |->
       LET written == Sum([row \in Rows |-> Impaired(row)], {row \in Rows : row[1] = b})
       IN [books[b] EXCEPT !.collateral = @ - written, !.equity = @ - written]]
  /\ NextStep /\ UNCHANGED <<loans, price, labor, people, arrears, day>>
-----------------------------------------------------------------------------
\* _clear_markets: site by site what is on offer and each want in turn, then the
\* wants of businesses, then the prices.
OnOffer(place) ==
  Sum([e \in Entities |-> Available(Row(market, e, place))], Entities \ Banks)
OpenMarket ==
  /\ Doing("supply", SiteOrder)
  /\ LET site == SiteOrder[Item]
     IN IF \E row \in Rows : row[1] \notin Banks /\ row[2] = site /\ Overpledged(row)
        THEN Fail("pledges")
        ELSE /\ market' = [market EXCEPT !.supply = [p \in Places |->
                  IF p[1] = site THEN [requested |-> 0, consumed |-> 0, offered |-> OnOffer(p)]
                  ELSE @[p]]]
             /\ NextStep /\ UNCHANGED <<account, day>>

Capacity(r) ==
  Times(Routes[r].capacity,
        Multiplier("route_capacity_multiplier", Routes[r].origin, Anywhere))
Imported(m, buyer, place, wanted) ==
  LET capacity == [r \in DOMAIN Routes |-> Capacity(r)]
  IN DispatchRoutes(m, buyer, place, price, capacity, wanted, month)

\* A substitute is bought where the primary good falls short.
Added(acc, got, choice) ==
  [market |-> got.market, units |-> acc.units + Over(got.units, choice.ratio)]
Substitute(acc, choice, buyer, place, wanted) ==
  IF acc.units >= wanted THEN acc
  ELSE Added(acc, LocalConsumption(acc.market, buyer, place, price[place],
                                   Times(wanted - acc.units, choice.ratio)), choice)
Substituted(start, want, wanted) ==
  LET Try(acc, choice) ==
        Substitute(acc, choice, want.buyer, <<want.place[1], choice.good>>, wanted)
  IN FoldLeft(Try, start, want.substitutes)

\* Class consumption, after the local market and then after the imports.
Consumed(class, wanted, local, imports) ==
  LET short == Larger(0, wanted - local - imports.arrived)
  IN /\ market' = imports.market
     /\ day' = [day EXCEPT !.short[class] =
                  IF wanted = 0 THEN @ ELSE Larger(@, Over(short, wanted))]
Supplied(want, wanted, local) ==
  Consumed(<<want.place[1], want.class>>, wanted, local.units,
           Imported(local.market, want.buyer, want.place, Larger(0, wanted - local.units)))
Household ==
  /\ Doing("basket", Baskets)
  /\ LET want == Baskets[Item]
         wanted == Times(people[<<want.place[1], want.class>>], want.each)
     IN Supplied(want, wanted,
                 Substituted(LocalConsumption(market, want.buyer, want.place,
                                              price[want.place], wanted), want, wanted))
  /\ NextStep /\ UNCHANGED account

Restocked(want, local) ==
  market' = Imported(local.market, want.buyer, want.place,
                     Larger(0, want.quantity - local.units)).market
Business ==
  /\ Doing("demand", Demands)
  /\ LET want == Demands[Item]
     IN Restocked(want, LocalConsumption(market, want.buyer, want.place, price[want.place],
                                         want.quantity))
  /\ NextStep /\ UNCHANGED <<account, day>>

AdjustPrices ==
  /\ Doing("prices", Once)
  /\ price' = [p \in Places |->
       LET s == market.supply[p]
           rule == PriceRule[p[2]]
           short == IF s.requested = 0 THEN 0
                    ELSE Over(Larger(0, s.requested - s.consumed), s.requested)
           surplus == IF s.offered = 0 THEN 0
                      ELSE Over(Larger(0, s.offered - s.requested), s.offered)
           factor == Scale + Times(rule.elasticity, short)
                     - HalfEven(rule.elasticity * surplus, 4 * Scale)
                     + Delta("price_pressure", p[1])
           least == HalfEven(Scale, 10)
       IN Between(rule.min, Times(price[p], Larger(least, factor)), rule.max)]
  /\ NextStep /\ UNCHANGED <<market, books, loans, labor, people, arrears, day>>
-----------------------------------------------------------------------------
\* _collect_obligations: a tenant's harvest is assessed by the acre.
Harvest(tenant, site) ==
  LET Worth(i) == [g \in DOMAIN Recipes[i].outputs |->
                     Times(Times(Recipes[i].outputs[g], day.batches[i]), price[<<site, g>>])]
      harvested == {i \in DOMAIN Recipes : Recipes[i].farming /\ Recipes[i].entity = tenant
                                           /\ Recipes[i].site = site}
  IN Sum([i \in harvested |-> Sum(Worth(i), DOMAIN Recipes[i].outputs)], harvested)
Acres(tenant, site) ==
  Sum([i \in DOMAIN Tenures |-> Tenures[i].acres],
      {i \in DOMAIN Tenures : Tenures[i].tenant = tenant /\ Tenures[i].site = site})
Charges(t) ==
  LET all == Acres(t.tenant, t.site)
      gross == IF all = 0 THEN 0 ELSE HalfEven(Harvest(t.tenant, t.site) * t.acres, all)
      tax == Between(0, t.tax + Delta("tax_rate_delta", t.site), Scale)
  IN <<Due(t.landlord, Cents(Times(t.acres, t.rent))), Due(t.landlord, Cents(Times(gross, t.due))),
       Due(t.church, Cents(Times(gross, t.tithe))), Due(t.treasury, Cents(Times(gross, tax)))>>

Collect(acc, tenant, to, amount) ==
  [money |-> Transfer(acc.money, tenant, to, amount),
   owed |-> acc.owed + amount - Transferred(acc.money, tenant, to, amount)]
CollectObligations ==
  /\ Doing("tenure", Tenures)
  /\ LET t == Tenures[Item]
         Levy(acc, d) == Collect(acc, t.tenant, d.to, d.amount)
         collected == FoldLeft(Levy, [money |-> market.money, owed |-> 0], Charges(t))
     IN /\ market' = [market EXCEPT !.money = collected.money]
        /\ arrears' = [arrears EXCEPT ![t.tenant] = @ + collected.owed]
  /\ NextStep /\ UNCHANGED <<books, loans, price, labor, people, day>>
-----------------------------------------------------------------------------
\* _service_loans: what is due is withdrawn, interest first.
NewInterest(l) == Rounded(l.principal * l.rate, 12 * Scale, Cent)
PrincipalDue(l) ==
  Cents(IF l.remaining <= 1 THEN l.principal ELSE Lesser(l.principal, l.scheduled))

\* A loan after its payments: p and i are what was paid, hit is a default by shock.
Served(l, i, p, hit) ==
  LET short == NewInterest(l) + l.interest - i + PrincipalDue(l) - p
      paid == [l EXCEPT !.principal = @ - p, !.interest = @ + NewInterest(l) - i]
      cleared == paid.principal = 0 /\ paid.interest = 0
  IN IF short > 0 \/ (hit /\ ~cleared)
     THEN [paid EXCEPT !.missed = @ + 1, !.status = "delinquent"]
     ELSE [paid EXCEPT !.missed = 0, !.remaining = Larger(0, @ - 1),
                       !.status = IF cleared THEN "repaid" ELSE "performing",
                       !.released = cleared]
Defaults(l) == l.missed >= l.limit
Ended(l) == l.status = "repaid" \/ Defaults(l)

\* _release_pledge: what is left of the pledge under a loan.
Released(l) == Lesser(l.pledge, market.stock[Pledge(l)].pledged)

\* What a defaulted loan's bank takes of the collateral, and at what value.
Seized(l) ==
  LET net == NetPrice(l)
  IN IF ~Defaults(l) \/ net = 0 THEN 0
     ELSE Min({Released(l), market.stock[Pledge(l)].quantity,
               Over(l.principal + l.interest, net)})
Recovered(l) == Lesser(l.principal + l.interest, Cents(Times(Seized(l), NetPrice(l))))
Vault(l) == <<l.bank, l.place[1], l.place[2]>>
Collateral(l) ==
  LET Freed(row) == At(row, Pledge(l), IF Ended(l) THEN Released(l) ELSE 0)
      Shifted(row) == At(row, Vault(l), Seized(l)) - At(row, Pledge(l), Seized(l))
      Value(row) == At(row, Vault(l), IF Defaults(l) THEN Recovered(l) ELSE 0)
  IN [row \in Rows |-> LET s == market.stock[row]
                       IN [quantity |-> s.quantity + Shifted(row),
                           pledged |-> s.pledged - Freed(row),
                           carrying |-> s.carrying + Value(row)]]

\* Mutant: the interest a defaulted loan still owed stays on the books.
AccountedKeepingInterest(b, before, l, i) ==
  LET lost == IF Defaults(l) THEN l.principal + l.interest - Recovered(l) ELSE 0
  IN [b EXCEPT !.interest = @ + NewInterest(before) - i,
               !.collateral = @ + (IF Defaults(l) THEN Recovered(l) ELSE 0),
               !.equity = @ + NewInterest(before) - lost]
\* What the month does to the bank's books: interest i was paid.
Accounted(b, before, l, i) ==
  LET earned == NewInterest(before)
      lost == IF Defaults(l) THEN l.principal + l.interest - Recovered(l) ELSE 0
  IN [b EXCEPT !.interest = @ + earned - i - (IF Defaults(l) THEN l.interest ELSE 0),
               !.collateral = @ + (IF Defaults(l) THEN Recovered(l) ELSE 0),
               !.equity = @ + earned - lost]

Struck(hit) ==
  LET risk == Between(0, Delta("default_risk_delta", Anywhere), Scale)
  IN hit \in (IF risk = 0 THEN {FALSE} ELSE IF risk = Scale THEN {TRUE} ELSE BOOLEAN)

Serviced(id, old, l, paid, interest) ==
  /\ market' = [market EXCEPT !.money = paid, !.stock = Collateral(l)]
  /\ books' = [books EXCEPT ![old.bank] = Accounted(@, old, l, interest)]
  /\ loans' = [loans EXCEPT ![id] =
       IF Defaults(l) THEN [l EXCEPT !.principal = 0, !.interest = 0,
                              !.status = "defaulted", !.released = TRUE]
       ELSE l]
\* Principal is withdrawn from what interest i, once withdrawn, leaves.  Rounded
\* to cents, more may be paid than there was to pay: then the month raises.
Overpaid(l) == l.principal < 0 \/ l.interest < 0
Settled(id, old, l, paid, interest) ==
  IF Overpaid(l) THEN Fail("exposure")
  ELSE /\ Serviced(id, old, l, paid, interest)
       /\ NextStep /\ UNCHANGED <<price, labor, people, arrears, day>>
Withdrawn(id, old, once, i, hit) ==
  Settled(id, old, Served(old, i, Arriving(once, old.borrower, old.bank, PrincipalDue(old)), hit),
          PaidIn(once, old.borrower, old.bank, PrincipalDue(old)), i)
ServiceLoan ==
  /\ Doing("loan", LoanOrder)
  /\ LET id == LoanOrder[Item]
         due == Cents(loans[id].interest + NewInterest(loans[id]))
     IN IF id \in DOMAIN loans /\ Active(id) /\ loans[id].origin < month
        THEN \E hit \in {h \in BOOLEAN : Struck(h)} :
               Withdrawn(id, loans[id],
                         PaidIn(market.money, loans[id].borrower, loans[id].bank, due),
                         Arriving(market.money, loans[id].borrower, loans[id].bank, due), hit)
        ELSE NextStep /\ UNCHANGED <<market, account, day>>
-----------------------------------------------------------------------------
\* _migrate
ClassWage(site, class) ==
  Max({0} \cup {labor[p].wage : p \in {q \in DOMAIN Pools : q[1] = site /\ Pools[q].class = class}})
MigrationRate(k) ==
  LET here == ClassWage(k.origin, k.class)
      there == ClassWage(k.destination, k.class)
      pull == IF there > here THEN Over(there - here, Larger(Cent, here)) ELSE 0
      pressure == Times(day.short[<<k.origin, k.class>>], k.hunger) + Times(pull, k.wage)
                  + Delta("migration_push", k.origin) - k.friction
  IN Between(0, pressure, k.max)

Migrate ==
  /\ Doing("link", Links)
  /\ LET k == Links[Item]
         from == <<k.origin, k.class>>
         to == <<k.destination, k.class>>
         source == <<k.origin, k.occupation>>
         target == <<k.destination, k.occupation>>
         migrants == Times(people[from], MigrationRate(k))
         share == Over(migrants, people[from])
         moving == Times(labor[source].workers, share)
         staying == labor[source].workers - moving
     IN IF migrants > 0
        THEN /\ people' = [[people EXCEPT ![from] = @ - migrants] EXCEPT ![to] = @ + migrants]
             /\ labor' =
                  IF {source, target} \subseteq DOMAIN Pools
                  THEN [[labor EXCEPT ![source].workers = staying, ![source].employed =
                           Lesser(Times(@, Scale - share), staying * Days)]
                           EXCEPT ![target].workers = @ + moving]
                  ELSE labor
        ELSE UNCHANGED <<people, labor>>
  /\ NextStep /\ UNCHANGED <<market, books, loans, price, arrears, day>>
-----------------------------------------------------------------------------
\* _checks, and the start of the next month.
RowsOf(g) == {row \in Rows : row[3] = g}
InStore(m, g) ==
  Sum([row \in Rows |-> m.stock[row].quantity], RowsOf(g))
  + Sum([l \in m.transit |-> l.quantity], {l \in m.transit : l.good = g})
Conserved == \A g \in Goods : day.opening[g] - market.gone[g] = InStore(market, g)

PledgesValid ==
  \A row \in Rows : LET s == market.stock[row] IN 0 <= s.pledged /\ s.pledged <= s.quantity
                                                   /\ s.carrying >= 0
EmploymentValid ==
  \A p \in DOMAIN Pools : /\ labor[p].workers >= 0
                          /\ 0 <= labor[p].employed /\ labor[p].employed <= labor[p].workers * Days
NothingNegative ==
  /\ \A e \in Entities : market.money.cash[e] >= 0 /\ market.money.deposit[e] >= 0
  /\ \A b \in Banks : /\ market.money.reserves[b] >= 0 /\ market.money.liability[b] >= 0
                      /\ books[b].interest >= 0
  /\ \A l \in DOMAIN loans : loans[l].principal >= 0 /\ loans[l].interest >= 0

LoansOf(b) == {l \in DOMAIN loans : loans[l].bank = b /\ Active(l)}
Principal(b) == Sum([l \in DOMAIN loans |-> loans[l].principal], LoansOf(b))
DepositsReconcile(b) == market.money.liability[b] = DepositsAt(market.money, b)
Interest(b) == Sum([l \in DOMAIN loans |-> loans[l].interest], LoansOf(b))
InterestReconciles(b) == books[b].interest = Interest(b)
CollateralReconciles(b) ==
  books[b].collateral = Sum([row \in Rows |-> market.stock[row].carrying],
                            {row \in Rows : row[1] = b})
SheetBalances(b) ==
  market.money.reserves[b] + Principal(b) + books[b].interest + books[b].collateral
    = market.money.liability[b] + books[b].equity
Reconciled(b) ==
  DepositsReconcile(b) /\ InterestReconciles(b) /\ CollateralReconciles(b) /\ SheetBalances(b)

\* What _Month starts a month with.
Fresh(m) ==
  [m EXCEPT !.gone = [g \in Goods |-> 0], !.carried = [r \in DOMAIN Routes |-> 0], !.trades = 0]
NewDay(opening) ==
  [active |-> {}, seen |-> {}, opening |-> opening,
   used |-> [p \in DOMAIN Pools |-> 0], batches |-> [i \in DOMAIN Recipes |-> 0],
   short |-> [c \in DOMAIN people |-> 0]]

CloseMonth ==
  /\ Doing("checks", Once)
  /\ IF ~market.full THEN Fail("settlement")
     ELSE IF ~PledgesValid THEN Fail("pledges")
     ELSE IF ~EmploymentValid THEN Fail("employment")
     ELSE IF ~(Conserved /\ NothingNegative /\ \A b \in Banks : Reconciled(b)) THEN Fail("checks")
     ELSE /\ month' = month + 1 /\ at' = 1
          /\ market' = Fresh(market) /\ day' = NewDay([g \in Goods |-> InStore(market, g)])
          /\ UNCHANGED <<account, failed>>
-----------------------------------------------------------------------------
\* initial_state: pledges, liabilities and interest follow from the loans and
\* the deposits, and the equity from the rest of the sheet.
PledgedIn(w, row) ==
  Sum([l \in DOMAIN w.loans |-> w.loans[l].pledge],
      {l \in DOMAIN w.loans : Owing(w.loans[l]) /\ Pledge(w.loans[l]) = row})
OpeningStock(w, row) ==
  [quantity |-> IF row \in DOMAIN w.stock THEN w.stock[row] ELSE 0,
   pledged |-> PledgedIn(w, row), carrying |-> 0]
OpeningMarket(w) ==
  LET money == [cash |-> w.cash, deposit |-> w.deposit, reserves |-> w.reserves,
                liability |-> [b \in Banks |-> 0]]
  IN [money |-> [money EXCEPT !.liability = [b \in Banks |-> DepositsAt(money, b)]],
      stock |-> [row \in Rows |-> OpeningStock(w, row)],
      transit |-> w.transit, full |-> TRUE, trades |-> 0,
      gone |-> [g \in Goods |-> 0], carried |-> [r \in DOMAIN Routes |-> 0],
      supply |-> [p \in Places |-> [requested |-> 0, consumed |-> 0, offered |-> 0]]]

Init ==
  \E w \in Openings :
    /\ month = 1 /\ at = 1 /\ failed = ""
    /\ market = OpeningMarket(w) /\ loans = w.loans /\ price = w.price
    /\ labor = w.labor /\ people = w.people
    /\ arrears = [e \in Entities |-> 0]
    /\ books = [b \in Banks |->
         [interest |-> Interest(b), collateral |-> 0,
          equity |-> market.money.reserves[b] + Principal(b) + Interest(b)
                     - market.money.liability[b]]]
    /\ day = NewDay([g \in Goods |-> InStore(market, g)])

Next ==
  \/ ApplyShocks \/ Arrive \/ AllArrived \/ OriginateCredit \/ Produce \/ AdjustWages
  \/ ApplyStorageSpoilage \/ OpenMarket \/ Household \/ Business \/ AdjustPrices
  \/ CollectObligations \/ ServiceLoan \/ Migrate \/ CloseMonth

Spec == Init /\ [][Next]_vars
-----------------------------------------------------------------------------
\* The closing checks of a month, whole_economy.py _checks, hold after every
\* step of it: deposits, interest, seized collateral and the whole balance
\* sheet of each bank, whatever is lent, paid, spoilt, seized or written off.
BanksReconcile == \A b \in Banks : Reconciled(b)

\* Goods are conserved after every step, on the way, in store, in bank vaults:
\* _Month's physical totals account for all that was produced and lost.
GoodsConserved == Conserved

\* Coins are never made or lost: cash and reserves together are what they were
\* when the world opened.  Credit makes deposits, never coins.
Coins == Sum(market.money.cash, Entities) + Sum(market.money.reserves, Banks)
CoinsConserved == [][Coins' = Coins]_vars

\* A pledge covers the loans that rest on it.  What is pledged of a stock is
\* there, it is no more than the active loans on it were promised, and all of
\* that where the good does not spoil: nobody eats, sells, ships, or works up
\* what is pledged, and each loan gives back its own, once.
Promised(row) ==
  Sum([l \in DOMAIN loans |-> loans[l].pledge],
      {l \in DOMAIN loans : Active(l) /\ Pledge(loans[l]) = row})
MaySpoil(row) == Spoilage[row[3]] > 0 \/ \E s \in Shocks : "spoilage_rate_delta" \in DOMAIN s.effects
PledgesKept ==
  \A row \in Rows :
    LET s == market.stock[row]
    IN /\ 0 <= s.pledged /\ s.pledged <= Lesser(Promised(row), Larger(0, s.quantity))
       /\ MaySpoil(row) \/ s.pledged = Promised(row)

\* What _bundle_is_payable admits _settle_bundle pays in full, and only the
\* rounding of a recipe's batches (overdrawn inputs or labour, payroll above
\* the funds it was limited by) or a wage its bank cannot pay out stops a month.
OnlyProductionFails == market.full /\ failed \in {"", "inputs", "payroll", "employment"}

\* docs/WHOLE_ECONOMY_GUIDE.md:13: "verifies all existing history, commits
\* exactly one next month" - every month of a valid scenario can be completed.
EveryMonthCompletes == failed = ""
=============================================================================
