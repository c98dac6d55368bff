---------------------------- MODULE RegionalMonth ---------------------------
(***************************************************************************)
(* regional_engine.py: one month of the region, from the dice to the       *)
(* books.  Production, storage, handling and the market run in this order  *)
(* on one stock; the finance adapter then turns the month's pay and its    *)
(* delivered trades into events, adds the preview's deposit, loan and tax, *)
(* and has RegionalFinance book them one by one.  The engine resolves only *)
(* the first month, so goods still under way are neither delivered nor     *)
(* paid.  A step the code refuses is not taken and ends the month.         *)
(***************************************************************************)
EXTENDS RegionalMarket

CONSTANTS Banks, Treasury, LoanIds, Opening,
          Bank, Depositor, Borrower,   \* whom the preview's actions involve
          AnnualRate,                  \* the code's 0.12
          Worlds                       \* where a month may start from

VARIABLES bal, loans, flow, events, last,   \* RegionalFinance's
          script,       \* events still to be booked
          opened        \* the lots the month started from

Finance == INSTANCE RegionalFinance WITH
             Enterprises <- Businesses, Treasuries <- {Treasury},
             Amounts <- {1}, Rates <- {AnnualRate}, MaxEvents <- 100

financeVars == <<bal, loans, flow, events, last>>
stockVars == <<lots, productionVars, marketVars>>
vars == <<stage, stockVars, financeVars, script, opened>>
-----------------------------------------------------------------------------
\* Mutant: goods under way are paid for as well.
SettledOnDispatch(i) == trades[i].seller # trades[i].buyer

\* What the finance adapter takes for a trade between businesses.
Settled(i) == trades[i].status = "delivered" /\ trades[i].seller # trades[i].buyer
SettledTrades == {i \in DOMAIN trades : Settled(i)}

\* What an entity earns by each trade, for goods and for carriage, and pays.
EarnedBy(e) == [i \in DOMAIN trades |-> At(trades[i].seller, e, trades[i].value)]
CarriedBy(e) == [i \in DOMAIN trades |-> At(trades[i].carrier, e, trades[i].carriage)]
BoughtBy(e) ==
  [i \in DOMAIN trades |-> At(trades[i].buyer, e, trades[i].value + trades[i].carriage)]
Receipts(e) ==
  Sum(EarnedBy(e), SettledTrades) + Sum(CarriedBy(e), SettledTrades)
Outflows(e) == Sum(BoughtBy(e), SettledTrades)

\* The preview's fractions of what was realised, each to the cent.
DepositAmount == Rounded(Receipts(Depositor) * 25, 100, Cent)
LoanAmount == Rounded((Outflows(Borrower) + wages[Borrower]) * 50, 100, Cent)
Repayment == Lesser(LoanAmount, Rounded(Receipts(Borrower) * 10, 100, Cent))
TaxAmount == Rounded(Receipts(Depositor) * 5, 100, Cent)

PreviewEvents ==
  <<[kind |-> "deposit", amount |-> DepositAmount],
    [kind |-> "loan", amount |-> LoanAmount],
    [kind |-> "interest"],
    [kind |-> "repayment", amount |-> Repayment],
    [kind |-> "assessment", amount |-> TaxAmount],
    [kind |-> "tax", amount |-> TaxAmount]>>

PrepareEvents ==
  /\ stage = "finance"
  /\ SettledTrades # {} /\ \A i \in SettledTrades : trades[i].carrier # Nil
  /\ \A n \in {DepositAmount, LoanAmount, Repayment, TaxAmount} : n > 0
  /\ script' = [payroll |-> {e \in Businesses : wages[e] # 0},
                trades |-> SettledTrades, preview |-> PreviewEvents]
  /\ stage' = "books"
  /\ UNCHANGED <<stockVars, financeVars, opened>>

\* A trade that answers a demand is an expense, any other goes to inventory.
BookTrade(trade) ==
  /\ trade.value > 0
  /\ Finance!EnterpriseTrade(trade.seller, trade.buyer, trade.carrier, trade.value,
       trade.carriage, "cash", IF trade.demand = Nil THEN "inventory" ELSE "expense")

\* Pay is booked first, then the trades in their order, then the preview.
BookPayroll ==
  \E e \in script.payroll :
    /\ stage = "books" /\ Finance!Payroll(e, wages[e], "cash")
    /\ script' = [script EXCEPT !.payroll = @ \ {e}]
    /\ UNCHANGED <<stage, stockVars, opened>>

BookDelivered ==
  LET i == Min(script.trades)
  IN /\ stage = "books" /\ script.payroll = {} /\ script.trades # {}
     /\ BookTrade(trades[i])
     /\ script' = [script EXCEPT !.trades = @ \ {i}]
     /\ UNCHANGED <<stage, stockVars, opened>>

BookPreview ==
  LET event == Head(script.preview)
      l == CHOOSE l \in LoanIds : TRUE
  IN /\ stage = "books" /\ script.payroll = {} /\ script.trades = {}
     /\ script.preview # <<>>
     /\ \/ event.kind = "deposit" /\ Finance!BankDeposit(Bank, Depositor, event.amount)
        \/ event.kind = "loan"
             /\ Finance!LoanOrigination(l, Bank, Borrower, event.amount, AnnualRate)
        \/ event.kind = "interest" /\ Finance!LoanInterestAccrual(l)
        \/ event.kind = "repayment" /\ Finance!LoanPrincipalRepayment(l, event.amount)
        \/ event.kind = "assessment" /\ Finance!TaxAssessment(Treasury, Depositor, event.amount)
        \/ event.kind = "tax" /\ Finance!TaxReceipt(Treasury, Depositor, event.amount, "cash")
     /\ script' = [script EXCEPT !.preview = Tail(@)]
     /\ UNCHANGED <<stage, stockVars, opened>>

NoEvents == [payroll |-> {}, trades |-> {}, preview |-> <<>>]

CloseMonth ==
  /\ stage = "books" /\ script = NoEvents /\ Finance!Reports
  /\ stage' = "closed"
  /\ UNCHANGED <<stockVars, financeVars, script, opened>>

Init ==
  /\ \E world \in Worlds :
       /\ stage = world.stage /\ lots = world.lots /\ offers = world.offers
       /\ at = IF world.stage = "market" THEN 1 ELSE 0
  /\ opened = lots
  /\ orders = <<>> /\ made = <<>> /\ days = [l \in DOMAIN Pools |-> Pools[l].days]
  /\ wages = [e \in Businesses |-> 0]
  /\ spoiled = [g \in Goods |-> 0]
  /\ tried = {} /\ plan = <<>> /\ trades = <<>> /\ served = [d \in DOMAIN Demands |-> 0]
  /\ script = NoEvents
  /\ Finance!Init

MaterialStep ==
  \/ ApplyStorageLosses \/ Handle \/ OpenMarket
  \/ PlanExport \/ NextDemand \/ ResolveMarket
  \/ SellLocally \/ NextBuyer \/ CloseMarket
ProductionStep == RollMonth \/ Produce \/ CloseProduction

Next ==
  \/ ProductionStep /\ UNCHANGED <<marketVars, financeVars, script, opened>>
  \/ MaterialStep /\ UNCHANGED <<financeVars, script, opened>>
  \/ PrepareEvents
  \/ BookPayroll \/ BookDelivered \/ BookPreview
  \/ CloseMonth

Spec == Init /\ [][Next]_vars
-----------------------------------------------------------------------------
\* What is known to be in stock.
Known(stock) ==
  [p \in Places |-> IF p \in DOMAIN stock /\ stock[p] # Unknown THEN stock[p] ELSE 0]
PlacesOf(g) == Sites \X {g}
TotalOf(stock, g) == Sum(Known(stock), PlacesOf(g))

\* What the receipts say of a good: what each recipe gained, what each trade
\* took out of the region's stock, and the demands that consumed of it.
Gains(g) == [i \in DOMAIN made |-> Yield(i, made[i], g) - Used(i, made[i], g)]
Losses(g) ==
  [i \in DOMAIN trades |-> IF trades[i].route = Nil \/ trades[i].good # g THEN 0
                          ELSE IF trades[i].status = "in_transit" THEN trades[i].quantity
                          ELSE trades[i].lost]
DemandsFor(g) == {d \in DOMAIN Demands : Demands[d].good = g}

(* From the opening to the close, what the receipts of all four adapters    *)
(* say was made, used, spoiled, lost in handling, consumed or put under way *)
(* accounts for every unit of every good that is, or is no longer, there.   *)
GoodsConserved ==
  \A g \in Goods :
    TotalOf(opened, g) + Sum(Gains(g), DOMAIN made)
      = TotalOf(lots, g) + spoiled[g] + Sum(Losses(g), DOMAIN trades)
        + Sum(served, DemandsFor(g))

AfterMarket == stage \in {"local", "finance", "books", "closed"}
\* The stock the market opened with.
Brought ==
  [p \in Places |->
     Stock(p) + Sum(served, DemandsAt(p)) + Shipped(p)]

(* Exports take only what local needs leave ("prevents market allocation    *)
(* from starving equal-period local consumption"): with every shipment on   *)
(* its way each demand got what it would have got without any.              *)
LocalNeedsUnharmed ==
  AfterMarket => \A d \in DOMAIN Demands : served[d] = Consumed(Brought, d)

\* The sales out of the offers at a place, abroad and on the spot.
SoldAt(p) ==
  {i \in DOMAIN trades : trades[i].offer # Nil /\ offers[trades[i].offer].place = p}

(* No unit is sold twice: what an offer exports and sells on the spot stays *)
(* within the offer and, for all offers of a place together, within the     *)
(* stock; and no demand is sent more than it lacks.                         *)
SoldOnce ==
  AfterMarket =>
    /\ \A o \in DOMAIN offers : Sum(Sold, SoldFrom(o)) <= offers[o].quantity
    /\ \A p \in Places : Sum(Sold, SoldAt(p)) <= Brought[p]
    /\ \A d \in DOMAIN Demands :
         served[d] + Sum(Sent, SentFor(d))
           <= Demands[d].quantity

(* The books tell the same story as the goods: in a closed month every      *)
(* business earned exactly the goods and carriage it delivered to others,   *)
(* spent what was delivered to it and what its people earned; goods under   *)
(* way have moved no money.                                                 *)
MoneyFollowsGoods ==
  stage = "closed" =>
    LET delivered == {i \in DOMAIN trades : trades[i].status = "delivered"
                                            /\ trades[i].seller # trades[i].buyer}
    IN \A e \in Businesses :
         /\ -bal[<<e, "sales_revenue", Finance!None>>] = Sum(EarnedBy(e), delivered)
         /\ -bal[<<e, "transport_revenue", Finance!None>>] = Sum(CarriedBy(e), delivered)
         /\ bal[<<e, "purchase_expense", Finance!None>>]
              + bal[Finance!Inventory(e)] - Opening[Finance!Inventory(e)]
              = Sum(BoughtBy(e), delivered)
         /\ bal[<<e, "payroll_expense", Finance!None>>] = wages[e]
=============================================================================
