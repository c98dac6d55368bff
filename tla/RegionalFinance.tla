-------------------------- MODULE RegionalFinance ---------------------------
(***************************************************************************)
(* regional_finance.py: the bookkeeping sidecar of one regional month.     *)
(* Opening positions are booked, then every event of the month by the      *)
(* handler of its kind, then the reports are drawn up.  The caller may end *)
(* its list of events anywhere; an event a handler refuses, and a report   *)
(* that does not reconcile, discard the whole run, so neither is a step.   *)
(*                                                                         *)
(* An account is <<entity, name, counterparty>>; debits are positive.      *)
(* Amounts are numbers of 1/Scale.  Text checks, event identifiers and the *)
(* layout of the reports are left out; an event's identity is its own.     *)
(***************************************************************************)
EXTENDS FixedPoint, FiniteSets, Sums

CONSTANTS Enterprises, Banks, Treasuries, LoanIds,
          Opening,        \* account |-> opening debit, zero where not stated
          Amounts,        \* amounts an event may name
          Rates,          \* annual rates
          Cent,           \* units per cent
          MaxEvents       \* bound: events in one month

VARIABLES bal,            \* account |-> signed balance
          loans,          \* loan id |-> its record
          flow,           \* activity |-> movement of settlement cash
          events,         \* number of events booked
          last            \* kind of the latest event

vars == <<bal, loans, flow, events, last>>

None == "-"
ASSUME FinanceAssumption ==
  /\ Amounts \subseteq Nat \ {0}
  /\ Rates \subseteq 0..Scale /\ Cent \in Nat \ {0}
  /\ MaxEvents \in Nat
  /\ \A S \in {Enterprises, Banks, Treasuries, LoanIds} : IsFiniteSet(S)
  \* register: an entity never changes its type.
  /\ Enterprises \cap Banks = {} /\ Enterprises \cap Treasuries = {}
  /\ Banks \cap Treasuries = {}
  /\ "cash" \notin Banks
  /\ None \notin Enterprises \cup Banks \cup Treasuries \cup LoanIds

\* The accounts the handlers name, by type.
Customers == Enterprises \cup Treasuries
Entities == Customers \cup Banks
Cash(e) == <<e, "cash", None>>
Inventory(e) == <<e, "inventory", None>>
Reserves(b) == <<b, "reserves", None>>
DepositAt(e, b) == <<e, "bank_deposit", b>>
CustomerDeposits(b) == <<b, "customer_deposits", None>>
Receivable(l) == <<loans[l].bank, "loans_receivable", l>>
Payable(l) == <<loans[l].borrower, "loan_payable", l>>

AssetAccounts ==
  Customers \X {"cash"} \X {None} \cup Enterprises \X {"inventory"} \X {None}
  \cup Banks \X {"reserves"} \X {None} \cup Customers \X {"bank_deposit"} \X Banks
  \cup Banks \X {"loans_receivable", "interest_receivable"} \X LoanIds
  \cup Treasuries \X {"taxes_receivable"} \X Enterprises
ContraAccounts == Banks \X {"loan_loss_allowance"} \X LoanIds
LiabilityAccounts ==
  Banks \X {"customer_deposits"} \X {None}
  \cup Enterprises \X {"loan_payable", "interest_payable"} \X LoanIds
  \cup Enterprises \X {"tax_payable"} \X Treasuries
EquityAccounts == Entities \X {"opening_equity"} \X {None}
IncomeAccounts ==
  Enterprises \X {"sales_revenue", "transport_revenue"} \X {None}
  \cup Banks \X {"interest_income"} \X {None}
  \cup Treasuries \X {"tax_revenue", "other_receipts"} \X {None}
ExpenseAccounts ==
  Enterprises \X {"purchase_expense", "payroll_expense", "interest_expense",
                  "tax_expense"} \X {None}
  \cup Banks \X {"credit_loss_expense"} \X {None}
Accounts == AssetAccounts \cup ContraAccounts \cup LiabilityAccounts
            \cup EquityAccounts \cup IncomeAccounts \cup ExpenseAccounts

OpeningAccounts ==
  Customers \X {"cash"} \X {None} \cup Enterprises \X {"inventory"} \X {None}
  \cup Banks \X {"reserves"} \X {None}

ASSUME OpeningAssumption == Opening \in [OpeningAccounts -> Nat]
-----------------------------------------------------------------------------
Named(names) == {a \in Accounts : a[2] \in names}
SettlementAccounts == Named({"cash", "reserves"})
SettlementCash == Sum(bal, SettlementAccounts)

\* _Engine.add: one transaction, posted to every account it names.  That each
\* entity's part of it balances is not assumed here but checked by the reports.
Book(kind, activity, posted) ==
  /\ events < MaxEvents
  /\ events' = events + 1 /\ last' = kind
  /\ bal' = [a \in Accounts |-> bal[a] + posted[a]]
  /\ flow' = [flow EXCEPT ![activity] = @ + Sum(posted, SettlementAccounts)]

\* _settlement: the account a customer pays from or is paid into.
Via == {"cash"} \cup Banks
Till(e, via) == IF via = "cash" THEN Cash(e) ELSE DepositAt(e, via)
\* _external_bank_outflow: money that leaves the region through a bank.
BankPays(via, n) ==
  via \in Banks => /\ -bal[CustomerDeposits(via)] >= n /\ bal[Reserves(via)] >= n
Outflow(x, via, n) ==
  IF via = "cash" THEN 0 ELSE At(x, CustomerDeposits(via), n) + At(x, Reserves(via), -n)
Inflow(x, via, n) == Outflow(x, via, -n)
-----------------------------------------------------------------------------
EnterpriseSale(e, n, via) ==
  LET posted == [x \in Accounts |->
            At(x, Till(e, via), n) + At(x, <<e, "sales_revenue", None>>, -n)
          + Inflow(x, via, n)]
  IN Book("enterprise_sale", "operating", posted) /\ UNCHANGED loans

BoughtAs(e, treatment) ==
  IF treatment = "inventory" THEN Inventory(e) ELSE <<e, "purchase_expense", None>>

EnterprisePurchase(e, n, via, treatment) ==
  LET posted == [x \in Accounts |->
            At(x, BoughtAs(e, treatment), n) + At(x, Till(e, via), -n)
          + Outflow(x, via, n)]
  IN /\ bal[Till(e, via)] >= n /\ BankPays(via, n)
     /\ Book("enterprise_purchase", "operating", posted) /\ UNCHANGED loans

\* Mutant: the buyer's means cover the goods, not their carriage.
TradeUncarried(seller, buyer, carrier, goods, transport, via, treatment) ==
  LET posted == [x \in Accounts |->
            At(x, Till(seller, via), goods)
          + At(x, <<seller, "sales_revenue", None>>, -goods)
          + At(x, BoughtAs(buyer, treatment), goods + transport)
          + At(x, Till(buyer, via), -(goods + transport))
          + At(x, Till(carrier, via), transport)
          + At(x, <<carrier, "transport_revenue", None>>, -transport)]
  IN /\ seller # buyer /\ bal[Till(buyer, via)] >= goods
     /\ Book("enterprise_trade", "operating", posted) /\ UNCHANGED loans

\* Mutant: the carriage the buyer pays reaches nobody.
CarrierUnpaid(seller, buyer, carrier, goods, transport, via, treatment) ==
  LET posted == [x \in Accounts |->
            At(x, Till(seller, via), goods)
          + At(x, <<seller, "sales_revenue", None>>, -goods)
          + At(x, BoughtAs(buyer, treatment), goods + transport)
          + At(x, Till(buyer, via), -(goods + transport))]
  IN /\ seller # buyer /\ bal[Till(buyer, via)] >= goods + transport
     /\ Book("enterprise_trade", "operating", posted) /\ UNCHANGED loans

EnterpriseTrade(seller, buyer, carrier, goods, transport, via, treatment) ==
  LET posted == [x \in Accounts |->
            At(x, Till(seller, via), goods)
          + At(x, <<seller, "sales_revenue", None>>, -goods)
          + At(x, BoughtAs(buyer, treatment), goods + transport)
          + At(x, Till(buyer, via), -(goods + transport))
          + At(x, Till(carrier, via), transport)
          + At(x, <<carrier, "transport_revenue", None>>, -transport)]
  IN /\ seller # buyer /\ bal[Till(buyer, via)] >= goods + transport
     /\ Book("enterprise_trade", "operating", posted) /\ UNCHANGED loans

Payroll(e, n, via) ==
  LET posted == [x \in Accounts |->
            At(x, <<e, "payroll_expense", None>>, n) + At(x, Till(e, via), -n)
          + Outflow(x, via, n)]
  IN /\ bal[Till(e, via)] >= n /\ BankPays(via, n)
     /\ Book("payroll", "operating", posted) /\ UNCHANGED loans

BankDeposit(b, e, n) ==
  LET posted == [x \in Accounts |->
            At(x, Reserves(b), n) + At(x, CustomerDeposits(b), -n)
          + At(x, DepositAt(e, b), n) + At(x, Cash(e), -n)]
  IN /\ bal[Cash(e)] >= n
     /\ Book("bank_deposit", "financing", posted) /\ UNCHANGED loans

NewLoan(b, e, n, rate) ==
  [bank |-> b, borrower |-> e, rate |-> rate, originated |-> n, outstanding |-> n,
   accrued |-> 0, paid |-> 0, repaid |-> 0, provided |-> 0]

LoanOrigination(l, b, e, n, rate) ==
  LET posted == [x \in Accounts |->
            At(x, <<b, "loans_receivable", l>>, n) + At(x, CustomerDeposits(b), -n)
          + At(x, DepositAt(e, b), n) + At(x, <<e, "loan_payable", l>>, -n)]
  IN /\ l \notin DOMAIN loans
     /\ Book("loan_origination", "financing", posted)
     /\ loans' = [k \in DOMAIN loans \cup {l} |->
                    IF k = l THEN NewLoan(b, e, n, rate) ELSE loans[k]]

MonthlyInterest(loan) == Rounded(loan.outstanding * loan.rate, 12 * Scale, Cent)

\* Mutant: only the lender accrues.
LenderAccrues(l) ==
  LET loan == loans[l]
      n == MonthlyInterest(loan)
      posted == [x \in Accounts |->
          At(x, <<loan.bank, "interest_receivable", l>>, n)
        + At(x, <<loan.bank, "interest_income", None>>, -n)]
  IN /\ loan.outstanding > 0 /\ n > 0
     /\ Book("loan_interest_accrual", "financing", posted)
     /\ loans' = [loans EXCEPT ![l].accrued = @ + n]

LoanInterestAccrual(l) ==
  LET loan == loans[l]
      n == MonthlyInterest(loan)
      posted == [x \in Accounts |->
          At(x, <<loan.bank, "interest_receivable", l>>, n)
        + At(x, <<loan.bank, "interest_income", None>>, -n)
        + At(x, <<loan.borrower, "interest_expense", None>>, n)
        + At(x, <<loan.borrower, "interest_payable", l>>, -n)]
  IN /\ loan.outstanding > 0 /\ n > 0
     /\ Book("loan_interest_accrual", "financing", posted)
     /\ loans' = [loans EXCEPT ![l].accrued = @ + n]

\* A payment on a loan is made from the borrower's deposit at the lender.
LoanPayment(x, l, n) ==
  At(x, CustomerDeposits(loans[l].bank), n)
  + At(x, DepositAt(loans[l].borrower, loans[l].bank), -n)
CanPay(l, n) ==
  /\ bal[DepositAt(loans[l].borrower, loans[l].bank)] >= n
  /\ -bal[CustomerDeposits(loans[l].bank)] >= n

LoanInterestPayment(l, n) ==
  LET loan == loans[l]
      posted == [x \in Accounts |->
          LoanPayment(x, l, n)
        + At(x, <<loan.bank, "interest_receivable", l>>, -n)
        + At(x, <<loan.borrower, "interest_payable", l>>, n)]
  IN /\ 0 < n /\ n <= loan.accrued /\ CanPay(l, n)
     /\ Book("loan_interest_payment", "financing", posted)
     /\ loans' = [loans EXCEPT ![l].accrued = @ - n, ![l].paid = @ + n]

\* Mutant: recovered cash leaves the allowance alone.
NothingReversed(loan, n) == 0

\* Cash recovered after a provision takes back the provision first.
AllowanceReversal(loan, n) == Lesser(n, loan.provided)

LoanPrincipalRepayment(l, n) ==
  LET loan == loans[l]
      back == AllowanceReversal(loan, n)
      posted == [x \in Accounts |->
          LoanPayment(x, l, n) + At(x, Receivable(l), -n) + At(x, Payable(l), n)
        + At(x, <<loan.bank, "loan_loss_allowance", l>>, back)
        + At(x, <<loan.bank, "credit_loss_expense", None>>, -back)]
  IN /\ n <= loan.outstanding /\ CanPay(l, n)
     /\ Book("loan_principal_repayment", "financing", posted)
     /\ loans' = [loans EXCEPT ![l].outstanding = @ - n, ![l].repaid = @ + n,
                               ![l].provided = @ - back]

LoanDefault(l, n) ==
  LET loan == loans[l]
      posted == [x \in Accounts |->
          At(x, <<loan.bank, "credit_loss_expense", None>>, n)
        + At(x, <<loan.bank, "loan_loss_allowance", l>>, -n)]
  IN /\ 0 < n /\ n <= loan.outstanding - loan.provided
     /\ Book("loan_default", "credit_loss", posted)
     /\ loans' = [loans EXCEPT ![l].provided = @ + n]

TaxAssessment(t, e, n) ==
  LET posted == [x \in Accounts |->
            At(x, <<e, "tax_expense", None>>, n) + At(x, <<e, "tax_payable", t>>, -n)
          + At(x, <<t, "taxes_receivable", e>>, n)
          + At(x, <<t, "tax_revenue", None>>, -n)]
  IN Book("treasury_tax_assessment", "treasury", posted) /\ UNCHANGED loans

TaxReceipt(t, e, n, via) ==
  LET posted == [x \in Accounts |->
            At(x, <<e, "tax_payable", t>>, n) + At(x, Till(e, via), -n)
          + At(x, Till(t, via), n) + At(x, <<t, "taxes_receivable", e>>, -n)]
  IN /\ -bal[<<e, "tax_payable", t>>] >= n /\ bal[<<t, "taxes_receivable", e>>] >= n
     /\ bal[Till(e, via)] >= n
     /\ Book("treasury_tax_receipt", "treasury", posted) /\ UNCHANGED loans

TreasuryReceipt(t, n, via) ==
  LET posted == [x \in Accounts |->
            At(x, Till(t, via), n) + At(x, <<t, "other_receipts", None>>, -n)
          + Inflow(x, via, n)]
  IN Book("treasury_receipt", "operating", posted) /\ UNCHANGED loans
-----------------------------------------------------------------------------
\* The reports' sums, and what _result raises on when they do not agree.
Total(S) == Sum(bal, S)
OfEntity == [e \in Entities |-> {a \in Accounts : a[1] = e}]
EntityReconciles(e) == Total(OfEntity[e]) = 0
\* Groups of accounts that cancel out between the entities: financial claims,
\* income that is another entity's expense, allowances and their expense.
Eliminated ==
  {{"bank_deposit", "customer_deposits"}, {"loans_receivable", "loan_payable"},
   {"interest_receivable", "interest_payable"}, {"taxes_receivable", "tax_payable"},
   {"interest_income", "interest_expense"}, {"tax_revenue", "tax_expense"},
   {"loan_loss_allowance", "credit_loss_expense"}}
ConsolidatedStatement == \A names \in Eliminated : Total(Named(names)) = 0
CashFlowReconciles ==
  SettlementCash - Sum(Opening, SettlementAccounts) = Sum(flow, DOMAIN flow)
Reports == /\ \A e \in Entities : EntityReconciles(e)
           /\ ConsolidatedStatement
           /\ CashFlowReconciles

Equity(e) == Sum(Opening, {a \in OpeningAccounts : a[1] = e})

Init ==
  /\ bal = [a \in Accounts |-> IF a \in OpeningAccounts THEN Opening[a]
                               ELSE IF a \in EquityAccounts THEN -Equity(a[1]) ELSE 0]
  /\ loans = [l \in {} |-> 0]
  /\ flow = [x \in {"operating", "financing", "treasury", "credit_loss"} |-> 0]
  /\ events = 0 /\ last = "opening"

Next ==
  \/ \E n \in Amounts :
       \/ \E e \in Enterprises, via \in Via :
            \/ EnterpriseSale(e, n, via)
            \/ Payroll(e, n, via)
            \/ \E k \in {"inventory", "expense"} : EnterprisePurchase(e, n, via, k)
            \/ \E b, c \in Enterprises, k \in {"inventory", "expense"},
                  transport \in Amounts \cup {0} :
                 EnterpriseTrade(e, b, c, n, transport, via, k)
            \/ \E t \in Treasuries : TaxReceipt(t, e, n, via)
       \/ \E e \in Customers, b \in Banks : BankDeposit(b, e, n)
       \/ \E l \in LoanIds, b \in Banks, e \in Enterprises, rate \in Rates :
            LoanOrigination(l, b, e, n, rate)
       \/ \E t \in Treasuries, e \in Enterprises : TaxAssessment(t, e, n)
       \/ \E t \in Treasuries, via \in Via : TreasuryReceipt(t, n, via)
  \/ \E l \in DOMAIN loans :
       \/ LoanInterestAccrual(l)
       \/ \E n \in Amounts \cup {loans[l].accrued} : LoanInterestPayment(l, n)
       \/ \E n \in Amounts : LoanPrincipalRepayment(l, n)
       \/ \E n \in Amounts \cup {loans[l].outstanding - loans[l].provided} : LoanDefault(l, n)

Spec == Init /\ [][Next]_vars
-----------------------------------------------------------------------------
(* Every month whose events the handlers accept can be reported: none of    *)
(* the checks _result makes at the end (per entity, consolidated claims,    *)
(* cash flow) ever throws the booked month away.                            *)
ReportsReconcile == Reports

(* The consolidation compares deposits over all banks together; they agree  *)
(* at each bank, so no bank owes what another one booked, and neither cash, *)
(* deposits nor reserves are ever overdrawn by any mix of settlements.      *)
ClaimsBacked ==
  /\ \A b \in Banks : Sum([e \in Customers |-> bal[DepositAt(e, b)]], Customers)
                      = -bal[CustomerDeposits(b)]
  /\ \A a \in SettlementAccounts \cup Customers \X {"bank_deposit"} \X Banks : bal[a] >= 0

(* However repayments, recoveries, provisions and interest are ordered, a   *)
(* loan's record agrees with both sides' books, and the provision never     *)
(* exceeds what is still owed ("bounded by the remaining principal").       *)
LoanBounded ==
  \A l \in DOMAIN loans :
    LET loan == loans[l]
    IN /\ 0 <= loan.provided /\ loan.provided <= loan.outstanding
       /\ loan.outstanding + loan.repaid = loan.originated
       /\ bal[Receivable(l)] = loan.outstanding /\ bal[Payable(l)] = -loan.outstanding
       /\ bal[<<loan.bank, "loan_loss_allowance", l>>] = -loan.provided
       /\ bal[<<loan.bank, "interest_receivable", l>>] = loan.accrued
       /\ bal[<<loan.borrower, "interest_payable", l>>] = -loan.accrued

(* Only dealings with the outside (sales, purchases, pay, other receipts)   *)
(* change how much cash and reserves the region holds; trades, deposits,    *)
(* loans and taxes move it ("without inventing external cash").             *)
External == {"enterprise_sale", "enterprise_purchase", "payroll", "treasury_receipt"}
NoInventedCash == [][last' \notin External => SettlementCash' = SettlementCash]_vars
=============================================================================
