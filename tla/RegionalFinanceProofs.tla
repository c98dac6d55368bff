----------------------- MODULE RegionalFinanceProofs ------------------------
(***************************************************************************)
(* For any finite sets of enterprises, banks, treasuries and loans, any    *)
(* opening positions, amounts and rates: the books of a month always       *)
(* reconcile, nothing liquid is overdrawn, a loan's record is what both    *)
(* sides have booked, and only the outside brings cash in or takes it out. *)
(*                                                                         *)
(* A handler posts at most six amounts.  A sum of balances over a set of   *)
(* accounts changes by the amounts that fall into the set, so that each    *)
(* report is reduced to arithmetic on those six (PostingsSound).           *)
(***************************************************************************)
EXTENDS RegionalFinance, SumTheorems

Activities == {"operating", "financing", "treasury", "credit_loss"}
\* The accounts that may not be overdrawn, those kept per loan, and what the
\* customers hold at a bank.
Liquid == Named({"cash", "reserves", "bank_deposit"})
LoanNames == {"loans_receivable", "loan_loss_allowance", "interest_receivable",
              "loan_payable", "interest_payable"}
Claims(f, b) == [e \in Customers |-> f[DepositAt(e, b)]]

LoanRecord ==
  [bank : Banks, borrower : Enterprises, rate : Rates, originated : Nat, outstanding : Nat,
   accrued : Nat, paid : Nat, repaid : Nat, provided : Nat]

Typed ==
  /\ bal \in [Accounts -> Int] /\ flow \in [Activities -> Int] /\ events \in Nat
  /\ DOMAIN loans \subseteq LoanIds /\ loans \in [DOMAIN loans -> LoanRecord]

\* The reports agree, and so do the deposits at each bank.
Balanced ==
  /\ Reports
  /\ \A b \in Banks : Sum(Claims(bal, b), Customers) = -bal[CustomerDeposits(b)]

Covered == \A a \in Liquid : bal[a] >= 0

\* Whether b lends, and e borrows, loan l.
Lends(b, l) == l \in DOMAIN loans /\ loans[l].bank = b
Borrows(e, l) == l \in DOMAIN loans /\ loans[l].borrower = e
\* The accounts of a loan hold what its record says, and nobody else's anything.
Books ==
  \A l \in LoanIds :
    /\ \A b \in Banks :
         /\ bal[<<b, "loans_receivable", l>>] = IF Lends(b, l) THEN loans[l].outstanding ELSE 0
         /\ bal[<<b, "loan_loss_allowance", l>>] = IF Lends(b, l) THEN -loans[l].provided ELSE 0
         /\ bal[<<b, "interest_receivable", l>>] = IF Lends(b, l) THEN loans[l].accrued ELSE 0
    /\ \A e \in Enterprises :
         /\ bal[<<e, "loan_payable", l>>] = IF Borrows(e, l) THEN -loans[l].outstanding ELSE 0
         /\ bal[<<e, "interest_payable", l>>] = IF Borrows(e, l) THEN -loans[l].accrued ELSE 0
Terms ==
  \A l \in DOMAIN loans :
    /\ loans[l].provided <= loans[l].outstanding
    /\ loans[l].outstanding + loans[l].repaid = loans[l].originated

FinanceInv == Typed /\ Balanced /\ Covered /\ Books /\ Terms
-----------------------------------------------------------------------------
(* Every set a report sums over is finite. *)
LEMMA FiniteTriples ==
  ASSUME NEW E, NEW N, NEW C, IsFiniteSet(E), IsFiniteSet(N), IsFiniteSet(C)
  PROVE  IsFiniteSet(E \X N \X C)
<1> DEFINE S == (E \X N) \X C
           T == E \X N \X C
           f == [x \in S |-> <<x[1][1], x[1][2], x[2]>>]
<1>1. IsFiniteSet(S)
  BY FS_Product
<1>2. ASSUME NEW t \in T PROVE \E x \in S : f[x] = t
  <2>1. PICK e \in E, n \in N, c \in C : t = <<e, n, c>>
    OBVIOUS
  <2>2. << <<e, n>>, c>> \in S /\ f[<< <<e, n>>, c>>] = t
    BY <2>1
  <2> QED
    BY <2>2
<1>3. f \in [S -> T]
  OBVIOUS
<1>4. f \in Surjection(S, T)
  <2> HIDE DEF f, S, T
  <2> QED
    BY <1>2, <1>3 DEF Surjection
<1> QED
  BY <1>1, <1>4, FS_Surjection

LEMMA FiniteNames == ASSUME NEW a, NEW b, NEW c, NEW d
                     PROVE  /\ IsFiniteSet({a}) /\ IsFiniteSet({a, b})
                            /\ IsFiniteSet({a, b, c, d})
<1>1. \A x, y : IsFiniteSet({x} \cup {y})
  BY FS_Singleton, FS_Union
<1>2. IsFiniteSet(({a} \cup {b}) \cup ({c} \cup {d}))
  BY <1>1, FS_Union
<1>3. {a, b} = {a} \cup {b} /\ {a, b, c, d} = ({a} \cup {b}) \cup ({c} \cup {d})
  OBVIOUS
<1>4. IsFiniteSet({a, b})
  <2>1. IsFiniteSet({a} \cup {b})
    BY <1>1
  <2> QED
    BY <1>3, <2>1, Zenon
<1>5. IsFiniteSet({a, b, c, d})
  BY <1>2, <1>3, Zenon
<1>6. IsFiniteSet({a})
  BY FS_Singleton
<1> QED
  BY <1>4, <1>5, <1>6

LEMMA Finite ==
  IsFiniteSet(Customers) /\ IsFiniteSet(Activities) /\ IsFiniteSet(Accounts)
<1>1. /\ IsFiniteSet(Enterprises) /\ IsFiniteSet(Banks)
      /\ IsFiniteSet(Treasuries) /\ IsFiniteSet(LoanIds)
  BY FinanceAssumption
<1>2. IsFiniteSet(Customers) /\ IsFiniteSet(Entities)
  BY <1>1, FS_Union DEF Customers, Entities
<1>3. IsFiniteSet(Activities)
  BY FiniteNames DEF Activities
<1>4. IsFiniteSet(AssetAccounts)
  BY <1>1, <1>2, FiniteNames, FiniteTriples, FS_Union DEF AssetAccounts
<1>5. IsFiniteSet(ContraAccounts) /\ IsFiniteSet(LiabilityAccounts)
  BY <1>1, FiniteNames, FiniteTriples, FS_Union DEF ContraAccounts, LiabilityAccounts
<1>6. IsFiniteSet(EquityAccounts) /\ IsFiniteSet(IncomeAccounts) /\ IsFiniteSet(ExpenseAccounts)
  BY <1>1, <1>2, FiniteNames, FiniteTriples, FS_Union
     DEF EquityAccounts, IncomeAccounts, ExpenseAccounts
<1> QED
  BY <1>2, <1>3, <1>4, <1>5, <1>6, FS_Union DEF Accounts
-----------------------------------------------------------------------------
(* An account is an entity, a name and a counterparty. *)
LEMMA Account ==
  ASSUME NEW a \in Accounts
  PROVE  /\ a = <<a[1], a[2], a[3]>> /\ a[1] \in Entities
         /\ a[2] = "bank_deposit" => a[1] \in Customers /\ a[3] \in Banks
<1> USE DEF Entities, Customers
<1>1. CASE a \in AssetAccounts
  BY <1>1 DEF AssetAccounts
<1>2. CASE a \in ContraAccounts \cup LiabilityAccounts
  BY <1>2 DEF ContraAccounts, LiabilityAccounts
<1>3. CASE a \in EquityAccounts \cup IncomeAccounts \cup ExpenseAccounts
  BY <1>3 DEF EquityAccounts, IncomeAccounts, ExpenseAccounts
<1> QED
  BY <1>1, <1>2, <1>3 DEF Accounts

(* The accounts that the handlers name are accounts. *)
LEMMA CustomerAccounts ==
  ASSUME NEW e \in Customers
  PROVE  Cash(e) \in Accounts /\ \A b \in Banks : DepositAt(e, b) \in Accounts
BY DEF Accounts, AssetAccounts, Cash, DepositAt

LEMMA EnterpriseAccounts ==
  ASSUME NEW e \in Enterprises
  PROVE  /\ e \in Customers /\ Inventory(e) \in Accounts
         /\ <<e, "sales_revenue", None>> \in Accounts
         /\ <<e, "transport_revenue", None>> \in Accounts
         /\ <<e, "purchase_expense", None>> \in Accounts
         /\ <<e, "payroll_expense", None>> \in Accounts
         /\ <<e, "interest_expense", None>> \in Accounts
         /\ <<e, "tax_expense", None>> \in Accounts
         /\ \A t \in Treasuries : <<e, "tax_payable", t>> \in Accounts
         /\ \A l \in LoanIds : /\ <<e, "loan_payable", l>> \in Accounts
                              /\ <<e, "interest_payable", l>> \in Accounts
BY DEF Customers, Accounts, Inventory, AssetAccounts, LiabilityAccounts, IncomeAccounts,
       ExpenseAccounts

LEMMA BankAccounts ==
  ASSUME NEW b \in Banks
  PROVE  /\ Reserves(b) \in Accounts /\ CustomerDeposits(b) \in Accounts
         /\ <<b, "interest_income", None>> \in Accounts
         /\ <<b, "credit_loss_expense", None>> \in Accounts
         /\ \A l \in LoanIds : /\ <<b, "loans_receivable", l>> \in Accounts
                              /\ <<b, "loan_loss_allowance", l>> \in Accounts
                              /\ <<b, "interest_receivable", l>> \in Accounts
BY DEF Accounts, Reserves, CustomerDeposits, AssetAccounts, ContraAccounts, LiabilityAccounts,
       IncomeAccounts, ExpenseAccounts

LEMMA TreasuryAccounts ==
  ASSUME NEW t \in Treasuries
  PROVE  /\ t \in Customers
         /\ <<t, "tax_revenue", None>> \in Accounts
         /\ <<t, "other_receipts", None>> \in Accounts
         /\ \A e \in Enterprises : <<t, "taxes_receivable", e>> \in Accounts
BY DEF Customers, Accounts, AssetAccounts, IncomeAccounts
-----------------------------------------------------------------------------
\* A transaction after which all reports still reconcile.
Sound(p) ==
  /\ p \in [Accounts -> Int]
  /\ \A e \in Entities : Sum(p, OfEntity[e]) = 0
  /\ \A names \in Eliminated : Sum(p, Named(names)) = 0
  /\ \A b \in Banks : Sum(Claims(p, b), Customers) = -p[CustomerDeposits(b)]

Indices == 1..6

(* Where the postings of a transaction must cancel out. *)
LEMMA PostingsSound ==
  ASSUME NEW a \in [Indices -> Accounts], NEW n \in [Indices -> Int],
         \A e \in Entities : Part(n, {i \in Indices : a[i][1] = e}) = 0,
         \A names \in Eliminated : Part(n, {i \in Indices : a[i][2] \in names}) = 0,
         \A b \in Banks :
           Part(n, {i \in Indices : a[i][2] = "bank_deposit" /\ a[i][3] = b})
             + Part(n, {i \in Indices : a[i] = CustomerDeposits(b)}) = 0
  PROVE  Sound(Postings(Accounts, a, n))
<1> DEFINE p == Postings(Accounts, a, n)
<1>1. \A i \in 1..6 : n[i] \in Int /\ a[i] \in Accounts
  BY DEF Indices
<1>2. p \in [Accounts -> Int]
  <2>1. \A i \in 1..6 : \A x : At(x, a[i], n[i]) \in Int
    BY <1>1 DEF At
  <2> QED
    BY <2>1 DEF Postings
<1>3. \A S \in SUBSET Accounts : IsFiniteSet(S)
  BY Finite, FS_Subset
<1>4. \A S \in SUBSET Accounts : Sum(p, S) = Part(n, {i \in Indices : a[i] \in S})
  BY <1>1, <1>3, SumPostings DEF Indices
<1>5. ASSUME NEW e \in Entities PROVE Sum(p, OfEntity[e]) = 0
  <2>1. /\ OfEntity[e] \in SUBSET Accounts
        /\ \A i \in Indices : a[i] \in OfEntity[e] <=> a[i][1] = e
    BY DEF OfEntity
  <2>2. {i \in Indices : a[i] \in OfEntity[e]} = {i \in Indices : a[i][1] = e}
    BY <2>1
  <2> HIDE DEF p
  <2> QED
    BY <1>4, <2>1, <2>2
<1>6. ASSUME NEW names \in Eliminated PROVE Sum(p, Named(names)) = 0
  <2>1. /\ Named(names) \in SUBSET Accounts
        /\ \A i \in Indices : a[i] \in Named(names) <=> a[i][2] \in names
    BY DEF Named
  <2>2. {i \in Indices : a[i] \in Named(names)} = {i \in Indices : a[i][2] \in names}
    BY <2>1
  <2> HIDE DEF p
  <2> QED
    BY <1>4, <2>1, <2>2
<1>7. ASSUME NEW b \in Banks PROVE Sum(Claims(p, b), Customers) = -p[CustomerDeposits(b)]
  <2> DEFINE D == {i \in Indices : a[i][2] = "bank_deposit" /\ a[i][3] = b}
             m == [i \in Indices |-> IF i \in D THEN n[i] ELSE 0]
             e == [i \in Indices |-> a[i][1]]
             q == Postings(Customers, e, m)
  <2>1. ASSUME NEW c \in Customers PROVE Claims(p, b)[c] = q[c]
    <3>1. \A i \in 1..6 : At(DepositAt(c, b), a[i], n[i]) = At(c, e[i], m[i])
      <4>1. \A i \in 1..6 : DepositAt(c, b) = a[i] <=> c = a[i][1] /\ i \in D
        BY <1>1, Account DEF DepositAt, Indices
      <4> QED
        BY <4>1 DEF At, Indices
    <3>2. DepositAt(c, b) \in Accounts /\ Claims(p, b)[c] = p[DepositAt(c, b)]
      BY CustomerAccounts DEF Claims
    <3> HIDE DEF e, m
    <3> QED
      BY <3>1, <3>2 DEF Postings
  <2>2. Sum(q, Customers) = Part(n, D)
    <3>1. \A i \in 1..6 : m[i] \in Int
      BY DEF Indices
    <3>2. Sum(q, Customers) = Part(m, {i \in 1..6 : e[i] \in Customers})
      <4> HIDE DEF m, e
      <4> QED
        BY <3>1, Finite, SumPostings
    <3>3. \A i \in 1..6 : (IF i \in {j \in 1..6 : e[j] \in Customers} THEN m[i] ELSE 0)
                             = (IF i \in D THEN n[i] ELSE 0)
      BY <1>1, Account DEF Indices
    <3> HIDE DEF m, e, D
    <3> QED
      BY <3>2, <3>3 DEF Part
  <2>3. Sum(Claims(p, b), Customers) = Sum(q, Customers)
    <3> HIDE DEF p, q
    <3> QED
      BY <2>1, Finite, SumEqual
  <2>4. p[CustomerDeposits(b)] = Part(n, {i \in Indices : a[i] = CustomerDeposits(b)})
    <3>1. CustomerDeposits(b) \in Accounts
      BY BankAccounts
    <3>2. \A i \in 1..6 : At(CustomerDeposits(b), a[i], n[i])
            = IF i \in {j \in Indices : a[j] = CustomerDeposits(b)} THEN n[i] ELSE 0
      BY DEF At, Indices
    <3> QED
      BY <3>1, <3>2 DEF Postings, Part
  <2>5. \A I : Part(n, I) \in Int
    BY <1>1 DEF Part
  <2>6. Part(n, D) + Part(n, {i \in Indices : a[i] = CustomerDeposits(b)}) = 0
    OBVIOUS
  <2> HIDE DEF p, q, D, m, e
  <2> QED
    BY <2>2, <2>3, <2>4, <2>5, <2>6
<1> QED
  BY <1>2, <1>5, <1>6, <1>7 DEF Sound

(* A sum of balances changes by the sum of what is posted. *)
LEMMA SumBooked ==
  ASSUME Typed, NEW p \in [Accounts -> Int], bal' = [a \in Accounts |-> bal[a] + p[a]],
         NEW S \in SUBSET Accounts
  PROVE  Sum(bal, S)' = Sum(bal, S) + Sum(p, S)
<1>1. IsFiniteSet(S)
  BY Finite, FS_Subset
<1>2. \A a \in S : bal[a] \in Int /\ p[a] \in Int /\ bal'[a] = bal[a] + p[a]
  BY DEF Typed
<1>3. Sum(bal', S) = Sum(bal, S) + Sum(p, S)
  BY <1>1, <1>2, SumPlus
<1> QED
  BY <1>3

(* A sound transaction keeps the reports reconciled.                        *)
LEMMA BookKeeps ==
  ASSUME Typed, Balanced, NEW kind, NEW activity \in Activities, NEW p, Sound(p),
         Book(kind, activity, p)
  PROVE  /\ bal' \in [Accounts -> Int] /\ flow' \in [Activities -> Int] /\ events' \in Nat
         /\ \A a \in Accounts : bal'[a] = bal[a] + p[a]
         /\ Balanced'
         /\ last' = kind
         /\ Sum(p, SettlementAccounts) = 0 => SettlementCash' = SettlementCash
<1>1. /\ bal' = [a \in Accounts |-> bal[a] + p[a]]
      /\ flow' = [flow EXCEPT ![activity] = @ + Sum(p, SettlementAccounts)]
      /\ events' = events + 1 /\ last' = kind
  BY DEF Book
<1>2. p \in [Accounts -> Int]
  BY DEF Sound
<1>3. \A S \in SUBSET Accounts : Sum(bal, S)' = Sum(bal, S) + Sum(p, S)
  BY <1>1, <1>2, SumBooked
<1>4. \A S \in SUBSET Accounts : IsFiniteSet(S) /\ Sum(bal, S) \in Int /\ Sum(p, S) \in Int
  BY <1>2, Finite, FS_Subset, SumType DEF Typed
<1>5. /\ bal' \in [Accounts -> Int] /\ events' \in Nat
      /\ \A a \in Accounts : bal'[a] = bal[a] + p[a]
  BY <1>1, <1>2 DEF Typed
<1>6. SettlementAccounts \in SUBSET Accounts
  BY DEF SettlementAccounts, Named
<1>7. /\ SettlementCash' = SettlementCash + Sum(p, SettlementAccounts)
      /\ SettlementCash \in Int /\ Sum(p, SettlementAccounts) \in Int
  BY <1>3, <1>4, <1>6 DEF SettlementCash
<1>8. flow' \in [Activities -> Int]
  BY <1>1, <1>7 DEF Typed
<1>9. ASSUME NEW e \in Entities PROVE EntityReconciles(e)'
  <2>1. OfEntity[e] \in SUBSET Accounts /\ Sum(p, OfEntity[e]) = 0
    BY DEF OfEntity, Sound
  <2>2. Sum(bal, OfEntity[e]) = 0
    BY DEF Balanced, Reports, EntityReconciles, Total
  <2>3. Sum(bal, OfEntity[e])' = 0
    BY <1>3, <2>1, <2>2
  <2> QED
    BY <2>3 DEF EntityReconciles, Total
<1>10. ASSUME NEW names \in Eliminated PROVE Total(Named(names))' = 0
  <2>1. Named(names) \in SUBSET Accounts /\ Sum(p, Named(names)) = 0
    BY DEF Named, Sound
  <2>2. Sum(bal, Named(names)) = 0
    BY DEF Balanced, Reports, ConsolidatedStatement, Total
  <2>3. Sum(bal, Named(names))' = 0
    BY <1>3, <2>1, <2>2
  <2> QED
    BY <2>3 DEF Total
<1>11. CashFlowReconciles'
  <2> DEFINE d == Sum(p, SettlementAccounts)
             G == [x \in Activities |-> IF x = activity THEN d ELSE 0]
             o == Sum(Opening, SettlementAccounts)
  <2>1. DOMAIN flow = Activities /\ DOMAIN flow' = Activities
    BY <1>8 DEF Typed
  <2>2. \A x \in Activities : flow[x] \in Int /\ G[x] \in Int /\ flow'[x] = flow[x] + G[x]
    BY <1>1, <1>7 DEF Typed
  <2>3. Sum(G, Activities) = d
    <3>1. \A x \in Activities : G[x] = IF x = activity THEN d ELSE 0
      OBVIOUS
    <3> HIDE DEF G, d
    <3> QED
      BY <1>7, <3>1, Finite, SumPoint DEF d
  <2>4. Sum(flow', Activities) = Sum(flow, Activities) + Sum(G, Activities)
    <3> HIDE DEF G
    <3> QED
      BY <2>2, Finite, SumPlus
  <2>5. SettlementCash - o = Sum(flow, Activities)
    BY <2>1 DEF Balanced, Reports, CashFlowReconciles
  <2>6. o \in Int /\ Sum(flow, Activities) \in Int
    <3>1. SettlementAccounts \subseteq OpeningAccounts
      BY DEF SettlementAccounts, Named, Accounts, AssetAccounts, ContraAccounts,
             LiabilityAccounts, EquityAccounts, IncomeAccounts, ExpenseAccounts, OpeningAccounts
    <3>2. \A a \in SettlementAccounts : Opening[a] \in Int
      BY <3>1, OpeningAssumption
    <3> QED
      BY <1>4, <1>6, <2>2, <3>2, Finite, SumType
  <2>7. SettlementCash' - o = Sum(flow', Activities)
    <3> HIDE DEF G, o
    <3> QED
      BY <1>7, <2>3, <2>4, <2>5, <2>6 DEF d
  <2> QED
    BY <2>1, <2>7 DEF CashFlowReconciles
<1>12. ASSUME NEW b \in Banks
       PROVE  Sum(Claims(bal, b), Customers)' = -bal'[CustomerDeposits(b)]
  <2> DEFINE F == Claims(bal, b)
             G == Claims(p, b)
             H == Claims(bal', b)
  <2>1. \A e \in Customers : F[e] \in Int /\ G[e] \in Int /\ H[e] = F[e] + G[e]
    BY <1>2, <1>5, CustomerAccounts DEF Claims, Typed
  <2>2. Sum(H, Customers) = Sum(F, Customers) + Sum(G, Customers)
    <3> HIDE DEF F, G, H
    <3> QED
      BY <2>1, Finite, SumPlus
  <2>3. Sum(F, Customers) = -bal[CustomerDeposits(b)] /\ Sum(G, Customers) = -p[CustomerDeposits(b)]
    BY DEF Balanced, Sound
  <2>4. /\ bal'[CustomerDeposits(b)] = bal[CustomerDeposits(b)] + p[CustomerDeposits(b)]
        /\ bal[CustomerDeposits(b)] \in Int /\ p[CustomerDeposits(b)] \in Int
    BY <1>2, <1>5, BankAccounts DEF Typed
  <2>5. Sum(H, Customers) = -bal'[CustomerDeposits(b)]
    <3> HIDE DEF F, G, H
    <3> QED
      BY <2>2, <2>3, <2>4
  <2> QED
    BY <2>5 DEF Claims
<1>13. Balanced'
  BY <1>9, <1>10, <1>11, <1>12 DEF Balanced, Reports, ConsolidatedStatement
<1> QED
  BY <1>1, <1>5, <1>7, <1>8, <1>13
-----------------------------------------------------------------------------
(* An event that is not about a loan.                                       *)
LEMMA NoLoan ==
  ASSUME FinanceInv, NEW kind, NEW activity \in Activities, NEW p, Sound(p),
         Book(kind, activity, p), UNCHANGED loans,
         \A a \in Accounts : a[2] \in LoanNames => p[a] = 0,
         \A a \in Liquid : bal[a] + p[a] >= 0
  PROVE  FinanceInv'
<1>1. /\ bal' \in [Accounts -> Int] /\ flow' \in [Activities -> Int] /\ events' \in Nat
      /\ \A a \in Accounts : bal'[a] = bal[a] + p[a]
      /\ Balanced'
  BY BookKeeps DEF FinanceInv
<1>2. Typed' /\ Terms'
  BY <1>1 DEF FinanceInv, Typed, Terms
<1>3. Covered'
  BY <1>1 DEF Covered, Liquid, Named
<1>4. \A a \in Accounts : a[2] \in LoanNames => bal'[a] = bal[a]
  BY <1>1 DEF FinanceInv, Typed
<1>5. Books'
  <2>1. ASSUME NEW l \in LoanIds, NEW b \in Banks
        PROVE  /\ bal'[<<b, "loans_receivable", l>>] = bal[<<b, "loans_receivable", l>>]
               /\ bal'[<<b, "loan_loss_allowance", l>>] = bal[<<b, "loan_loss_allowance", l>>]
               /\ bal'[<<b, "interest_receivable", l>>] = bal[<<b, "interest_receivable", l>>]
    BY <1>4, BankAccounts DEF LoanNames
  <2>2. ASSUME NEW l \in LoanIds, NEW e \in Enterprises
        PROVE  /\ bal'[<<e, "loan_payable", l>>] = bal[<<e, "loan_payable", l>>]
               /\ bal'[<<e, "interest_payable", l>>] = bal[<<e, "interest_payable", l>>]
    BY <1>4, EnterpriseAccounts DEF LoanNames
  <2> QED
    BY <2>1, <2>2 DEF FinanceInv, Books, Lends, Borrows
<1> QED
  BY <1>1, <1>2, <1>3, <1>5 DEF FinanceInv

\* The names of accounts that dealings with the outside use.
OutsideNames == {"sales_revenue", "inventory", "purchase_expense", "payroll_expense",
                 "other_receipts"}

(* A customer earns or spends n outside the region.                         *)
LEMMA Dealing ==
  ASSUME FinanceInv, NEW e \in Customers, NEW acct \in Accounts,
         acct[1] = e, acct[2] \in OutsideNames, NEW n \in Int, NEW via \in Via,
         n < 0 => bal[Till(e, via)] >= -n /\ BankPays(via, -n),
         NEW p,
         p = [x \in Accounts |->
                At(x, Till(e, via), n) + At(x, acct, -n) + Inflow(x, via, n)],
         NEW kind, Book(kind, "operating", p), UNCHANGED loans
  PROVE  FinanceInv'
<1>1. "operating" \in Activities
  BY DEF Activities
<1>2. CASE via = "cash"
  <2> DEFINE c == Cash(e)
             a == <<c, acct, c, c, c, c>>
             k == <<n, -n, 0, 0, 0, 0>>
  <2>1. p = Postings(Accounts, a, k)
    BY <1>2 DEF Till, Inflow, Outflow, Postings, At
  <2>2. a \in [Indices -> Accounts] /\ k \in [Indices -> Int]
    BY CustomerAccounts DEF Indices
  <2>3. ASSUME NEW f \in Entities PROVE Part(k, {i \in Indices : a[i][1] = f}) = 0
    BY DEF Part, Indices, Cash
  <2>4. ASSUME NEW names \in Eliminated PROVE Part(k, {i \in Indices : a[i][2] \in names}) = 0
    BY DEF Part, Indices, Eliminated, OutsideNames, Cash
  <2>5. ASSUME NEW b \in Banks
        PROVE  Part(k, {i \in Indices : a[i][2] = "bank_deposit" /\ a[i][3] = b})
             + Part(k, {i \in Indices : a[i] = CustomerDeposits(b)}) = 0
    BY DEF Part, Indices, OutsideNames, Cash, CustomerDeposits
  <2>6. Sound(p)
    <3> HIDE DEF a, k
    <3> QED
      BY <2>1, <2>2, <2>3, <2>4, <2>5, PostingsSound
  <2>7. \A x \in Accounts : x[2] \in LoanNames => p[x] = 0
    BY <1>2 DEF Till, Cash, Inflow, Outflow, At, LoanNames, OutsideNames
  <2>8. ASSUME NEW x \in Liquid PROVE bal[x] + p[x] >= 0
    <3>1. x \in Accounts /\ bal[x] \in Int /\ bal[x] >= 0
      BY DEF Liquid, Named, FinanceInv, Typed, Covered
    <3>2. CASE x = acct
      BY <3>2 DEF Liquid, Named, OutsideNames
    <3>3. CASE x # acct
      BY <1>2, <3>1, <3>3 DEF Till, Inflow, Outflow, At
    <3> QED
      BY <3>2, <3>3
  <2> QED
    BY <1>1, <2>6, <2>7, <2>8, NoLoan
<1>3. CASE via \in Banks
  <2> DEFINE d == DepositAt(e, via)
             a == <<d, acct, CustomerDeposits(via), Reserves(via), d, d>>
             k == <<n, -n, -n, n, 0, 0>>
  <2>0. via # "cash"
    BY <1>3, FinanceAssumption
  <2>1. p = Postings(Accounts, a, k)
    BY <2>0 DEF Till, Inflow, Outflow, Postings, At
  <2>2. a \in [Indices -> Accounts] /\ k \in [Indices -> Int]
    <3>1. d \in Accounts /\ CustomerDeposits(via) \in Accounts /\ Reserves(via) \in Accounts
      BY <1>3, CustomerAccounts, BankAccounts
    <3> HIDE DEF d
    <3> QED
      BY <3>1 DEF Indices
  <2>3. ASSUME NEW f \in Entities PROVE Part(k, {i \in Indices : a[i][1] = f}) = 0
    BY DEF Part, Indices, DepositAt, CustomerDeposits, Reserves
  <2>4. ASSUME NEW names \in Eliminated PROVE Part(k, {i \in Indices : a[i][2] \in names}) = 0
    BY DEF Part, Indices, Eliminated, OutsideNames, DepositAt, CustomerDeposits, Reserves
  <2>5. ASSUME NEW b \in Banks
        PROVE  Part(k, {i \in Indices : a[i][2] = "bank_deposit" /\ a[i][3] = b})
             + Part(k, {i \in Indices : a[i] = CustomerDeposits(b)}) = 0
    BY DEF Part, Indices, OutsideNames, DepositAt, CustomerDeposits, Reserves
  <2>6. Sound(p)
    <3> HIDE DEF a, k
    <3> QED
      BY <2>1, <2>2, <2>3, <2>4, <2>5, PostingsSound
  <2>7. \A x \in Accounts : x[2] \in LoanNames => p[x] = 0
    BY <2>0 DEF Till, DepositAt, CustomerDeposits, Reserves, Inflow, Outflow, At, LoanNames,
                OutsideNames
  <2>8. ASSUME NEW x \in Liquid PROVE bal[x] + p[x] >= 0
    <3>1. x \in Accounts /\ bal[x] \in Int /\ bal[x] >= 0
      BY DEF Liquid, Named, FinanceInv, Typed, Covered
    <3>2. x # acct /\ x # CustomerDeposits(via)
      BY DEF Liquid, Named, OutsideNames, CustomerDeposits
    <3>3. p[x] = At(x, d, n) + At(x, Reserves(via), n)
      BY <2>0, <3>1, <3>2 DEF Till, Inflow, Outflow, At
    <3>4. d # Reserves(via)
      BY DEF DepositAt, Reserves
    <3> QED
      BY <1>3, <2>0, <3>1, <3>3, <3>4 DEF Till, BankPays, At
  <2> QED
    BY <1>1, <2>6, <2>7, <2>8, NoLoan
<1> QED
  BY <1>2, <1>3 DEF Via
(* The four dealings with the outside. *)
LEMMA Outside ==
  ASSUME FinanceInv, NEW n \in Amounts, NEW via \in Via
  PROVE  /\ \A e \in Enterprises :
              \/ EnterpriseSale(e, n, via) \/ Payroll(e, n, via)
              \/ \E k \in {"inventory", "expense"} : EnterprisePurchase(e, n, via, k)
              => FinanceInv' /\ last' \in External
         /\ \A t \in Treasuries : TreasuryReceipt(t, n, via) => FinanceInv' /\ last' \in External
<1>1. n \in Nat /\ n > 0 /\ -n \in Int /\ n = -(-n)
  BY FinanceAssumption
<1>2. ASSUME NEW e \in Enterprises, EnterpriseSale(e, n, via)
      PROVE  FinanceInv' /\ last' \in External
  <2> DEFINE acct == <<e, "sales_revenue", None>>
             p == [x \in Accounts |->
                     At(x, Till(e, via), n) + At(x, acct, -n) + Inflow(x, via, n)]
  <2>1. Book("enterprise_sale", "operating", p) /\ UNCHANGED loans
    BY <1>2 DEF EnterpriseSale
  <2>2. e \in Customers /\ acct \in Accounts /\ acct[1] = e /\ acct[2] \in OutsideNames
    BY EnterpriseAccounts DEF OutsideNames
  <2>3. FinanceInv'
    <3> HIDE DEF acct
    <3> QED
      BY <1>1, <2>1, <2>2, Dealing
  <2> QED
    BY <2>1, <2>3 DEF Book, External
<1>3. ASSUME NEW e \in Enterprises, NEW acct \in Accounts, acct[1] = e, acct[2] \in OutsideNames,
             NEW kind, UNCHANGED loans, bal[Till(e, via)] >= n, BankPays(via, n),
             Book(kind, "operating",
                  [x \in Accounts |->
                     At(x, acct, n) + At(x, Till(e, via), -n) + Outflow(x, via, n)])
      PROVE  FinanceInv'
  <2> DEFINE p == [x \in Accounts |->
                     At(x, acct, n) + At(x, Till(e, via), -n) + Outflow(x, via, n)]
             q == [x \in Accounts |->
                     At(x, Till(e, via), -n) + At(x, acct, -(-n)) + Inflow(x, via, -n)]
  <2>1. p = q
    BY <1>1 DEF Inflow, Outflow, At
  <2>2. e \in Customers
    BY EnterpriseAccounts
  <2>3. Book(kind, "operating", q)
    BY <1>3, <2>1
  <2> HIDE DEF p, q
  <2> QED
    BY <1>1, <1>3, <2>2, <2>3, Dealing DEF q
<1>4. ASSUME NEW e \in Enterprises, Payroll(e, n, via)
      PROVE  FinanceInv' /\ last' \in External
  <2> DEFINE acct == <<e, "payroll_expense", None>>
  <2>1. /\ bal[Till(e, via)] >= n /\ BankPays(via, n) /\ UNCHANGED loans
        /\ Book("payroll", "operating", [x \in Accounts |->
              At(x, acct, n) + At(x, Till(e, via), -n) + Outflow(x, via, n)])
    BY <1>4 DEF Payroll
  <2>2. acct \in Accounts /\ acct[1] = e /\ acct[2] \in OutsideNames
    BY EnterpriseAccounts DEF OutsideNames
  <2>3. FinanceInv'
    <3> HIDE DEF acct
    <3> QED
      BY <1>3, <2>1, <2>2
  <2> QED
    BY <2>1, <2>3 DEF Book, External
<1>5. ASSUME NEW e \in Enterprises, NEW k \in {"inventory", "expense"},
             EnterprisePurchase(e, n, via, k)
      PROVE  FinanceInv' /\ last' \in External
  <2> DEFINE acct == BoughtAs(e, k)
  <2>1. /\ bal[Till(e, via)] >= n /\ BankPays(via, n) /\ UNCHANGED loans
        /\ Book("enterprise_purchase", "operating", [x \in Accounts |->
              At(x, acct, n) + At(x, Till(e, via), -n) + Outflow(x, via, n)])
    BY <1>5 DEF EnterprisePurchase
  <2>2. acct \in Accounts /\ acct[1] = e /\ acct[2] \in OutsideNames
    BY EnterpriseAccounts DEF OutsideNames, BoughtAs, Inventory
  <2>3. FinanceInv'
    <3> HIDE DEF acct
    <3> QED
      BY <1>3, <2>1, <2>2
  <2> QED
    BY <2>1, <2>3 DEF Book, External
<1>6. ASSUME NEW t \in Treasuries, TreasuryReceipt(t, n, via)
      PROVE  FinanceInv' /\ last' \in External
  <2> DEFINE acct == <<t, "other_receipts", None>>
             p == [x \in Accounts |->
                     At(x, Till(t, via), n) + At(x, acct, -n) + Inflow(x, via, n)]
  <2>1. Book("treasury_receipt", "operating", p) /\ UNCHANGED loans
    BY <1>6 DEF TreasuryReceipt
  <2>2. t \in Customers /\ acct \in Accounts /\ acct[1] = t /\ acct[2] \in OutsideNames
    BY TreasuryAccounts DEF OutsideNames
  <2>3. FinanceInv'
    <3> HIDE DEF acct
    <3> QED
      BY <1>1, <2>1, <2>2, Dealing
  <2> QED
    BY <2>1, <2>3 DEF Book, External
<1> QED
  BY <1>2, <1>4, <1>5, <1>6
-----------------------------------------------------------------------------
(* Within the region, cash and reserves only change hands.                  *)
LEMMA PostedCash ==
  ASSUME NEW a \in [Indices -> Accounts], NEW n \in [Indices -> Int]
  PROVE  Sum(Postings(Accounts, a, n), SettlementAccounts)
           = Part(n, {i \in Indices : a[i][2] \in {"cash", "reserves"}})
<1>1. IsFiniteSet(SettlementAccounts) /\ SettlementAccounts \in SUBSET Accounts
  BY Finite, FS_Subset DEF SettlementAccounts, Named
<1>2. \A i \in Indices : a[i] \in SettlementAccounts <=> a[i][2] \in {"cash", "reserves"}
  BY DEF SettlementAccounts, Named
<1>3. {i \in 1..6 : a[i] \in SettlementAccounts}
        = {i \in Indices : a[i][2] \in {"cash", "reserves"}}
  BY <1>2 DEF Indices
<1>4. \A i \in 1..6 : n[i] \in Int
  BY DEF Indices
<1> QED
  BY <1>1, <1>3, <1>4, SumPostings

(* The account a customer is settled through. *)
LEMMA TillIs ==
  ASSUME NEW e \in Customers, NEW via \in Via
  PROVE  /\ Till(e, via) \in Accounts /\ Till(e, via)[1] = e
         /\ Till(e, via)[2] = IF via = "cash" THEN "cash" ELSE "bank_deposit"
         /\ via # "cash" => Till(e, via)[3] = via /\ via \in Banks
         /\ \A f : Till(f, via) = Till(e, via) => e = f
BY CustomerAccounts DEF Till, Via, Cash, DepositAt

(* A trade between two enterprises, carried by a third. *)
LEMMA Trade ==
  ASSUME FinanceInv, NEW s \in Enterprises, NEW b \in Enterprises, NEW c \in Enterprises,
         NEW goods \in Amounts, NEW transport \in Amounts \cup {0}, NEW via \in Via,
         NEW k \in {"inventory", "expense"},
         EnterpriseTrade(s, b, c, goods, transport, via, k)
  PROVE  FinanceInv' /\ SettlementCash' = SettlementCash
<1> DEFINE total == goods + transport
           a == <<Till(s, via), <<s, "sales_revenue", None>>, BoughtAs(b, k), Till(b, via),
                  Till(c, via), <<c, "transport_revenue", None>> >>
           n == <<goods, -goods, total, -total, transport, -transport>>
           p == Postings(Accounts, a, n)
<1>1. goods \in Nat /\ transport \in Nat /\ "operating" \in Activities
  BY FinanceAssumption DEF Activities
<1>2. /\ s # b /\ bal[Till(b, via)] >= total /\ UNCHANGED loans
      /\ Book("enterprise_trade", "operating", p)
  BY DEF EnterpriseTrade, Postings
<1>3. a \in [Indices -> Accounts] /\ n \in [Indices -> Int]
  <2>1. /\ Till(s, via) \in Accounts /\ Till(b, via) \in Accounts /\ Till(c, via) \in Accounts
        /\ <<s, "sales_revenue", None>> \in Accounts
        /\ BoughtAs(b, k) \in Accounts /\ <<c, "transport_revenue", None>> \in Accounts
    BY TillIs, EnterpriseAccounts DEF BoughtAs
  <2> QED
    BY <1>1, <2>1 DEF Indices
<1>4. /\ Till(s, via)[1] = s /\ Till(b, via)[1] = b /\ Till(c, via)[1] = c
      /\ BoughtAs(b, k)[1] = b /\ BoughtAs(b, k)[2] \in {"inventory", "purchase_expense"}
  BY TillIs, EnterpriseAccounts DEF BoughtAs, Inventory
<1>5. /\ via = "cash" => /\ Till(s, via)[2] = "cash" /\ Till(b, via)[2] = "cash"
                         /\ Till(c, via)[2] = "cash"
      /\ via # "cash" => /\ Till(s, via)[2] = "bank_deposit" /\ Till(s, via)[3] = via
                         /\ Till(b, via)[2] = "bank_deposit" /\ Till(b, via)[3] = via
                         /\ Till(c, via)[2] = "bank_deposit" /\ Till(c, via)[3] = via
  <2>1. s \in Customers /\ b \in Customers /\ c \in Customers
    BY EnterpriseAccounts
  <2>2. ASSUME NEW e \in Customers
        PROVE  /\ via = "cash" => Till(e, via)[2] = "cash"
               /\ via # "cash" => Till(e, via)[2] = "bank_deposit" /\ Till(e, via)[3] = via
    BY TillIs
  <2> QED
    BY <2>1, <2>2, Zenon
<1>6. Till(s, via) # Till(b, via)
  BY <1>2, <1>4
<1>7. ASSUME NEW e \in Entities PROVE Part(n, {i \in Indices : a[i][1] = e}) = 0
  <2>1. /\ a[1][1] = s /\ a[2][1] = s /\ a[3][1] = b /\ a[4][1] = b /\ a[5][1] = c /\ a[6][1] = c
        /\ n[1] = goods /\ n[2] = -goods /\ n[3] = total /\ n[4] = -total
        /\ n[5] = transport /\ n[6] = -transport
    BY <1>4
  <2> HIDE DEF a, n
  <2> QED
    BY <1>1, <2>1 DEF Part, Indices
<1>8. ASSUME NEW names \in Eliminated PROVE Part(n, {i \in Indices : a[i][2] \in names}) = 0
  BY <1>1, <1>4, <1>5 DEF Part, Indices, Eliminated
<1>9. ASSUME NEW d \in Banks
      PROVE  Part(n, {i \in Indices : a[i][2] = "bank_deposit" /\ a[i][3] = d})
             + Part(n, {i \in Indices : a[i] = CustomerDeposits(d)}) = 0
  <2>1. \A x : x = CustomerDeposits(d) => x[2] = "customer_deposits"
    BY DEF CustomerDeposits
  <2>2. \A i \in Indices : a[i] # CustomerDeposits(d)
    BY <1>4, <1>5, <2>1 DEF Indices
  <2>3. Part(n, {i \in Indices : a[i] = CustomerDeposits(d)}) = 0
    BY <2>2 DEF Part
  <2>4. Part(n, {i \in Indices : a[i][2] = "bank_deposit" /\ a[i][3] = d}) = 0
    BY <1>1, <1>4, <1>5 DEF Part, Indices
  <2> QED
    BY <2>3, <2>4
<1>10. Part(n, {i \in Indices : a[i][2] \in {"cash", "reserves"}}) = 0
  BY <1>1, <1>4, <1>5 DEF Part, Indices
<1>11. Sound(p) /\ Sum(p, SettlementAccounts) = 0
  <2> HIDE DEF a, n
  <2> QED
    BY <1>3, <1>7, <1>8, <1>9, <1>10, PostingsSound, PostedCash
<1>12. \A x \in Accounts : x[2] \in LoanNames => p[x] = 0
  BY <1>4, <1>5 DEF Postings, At, LoanNames
<1>13. ASSUME NEW x \in Liquid PROVE bal[x] + p[x] >= 0
  <2>1. /\ x \in Accounts /\ bal[x] \in Int /\ bal[x] >= 0
        /\ x[2] \in {"cash", "reserves", "bank_deposit"}
    BY DEF Liquid, Named, FinanceInv, Typed, Covered
  <2>2. x # a[2] /\ x # a[3] /\ x # a[6]
    BY <1>4, <2>1
  <2>4. p[x] = At(x, Till(s, via), goods) + At(x, Till(b, via), -total)
               + At(x, Till(c, via), transport)
    BY <1>1, <2>1, <2>2 DEF Postings, At
  <2>5. At(x, Till(c, via), transport) \in Nat /\ At(x, Till(s, via), goods) \in Nat
    BY <1>1 DEF At
  <2>6. At(x, Till(b, via), -total) \in Int /\ bal[x] + At(x, Till(b, via), -total) >= 0
    BY <1>1, <1>2, <2>1 DEF At
  <2> HIDE DEF p, total
  <2> QED
    BY <2>1, <2>4, <2>5, <2>6
<1> HIDE DEF a, n, p
<1>14. FinanceInv'
  BY <1>1, <1>2, <1>11, <1>12, <1>13, NoLoan
<1>15. SettlementCash' = SettlementCash
  BY <1>1, <1>2, <1>11, BookKeeps DEF FinanceInv
<1> QED
  BY <1>14, <1>15

(* Cash brought to a bank becomes its reserves and its debt. *)
LEMMA Deposit ==
  ASSUME FinanceInv, NEW b \in Banks, NEW e \in Customers, NEW n \in Amounts,
         BankDeposit(b, e, n)
  PROVE  FinanceInv' /\ SettlementCash' = SettlementCash
<1> DEFINE a == <<Reserves(b), CustomerDeposits(b), DepositAt(e, b), Cash(e), Cash(e), Cash(e)>>
           k == <<n, -n, n, -n, 0, 0>>
           p == Postings(Accounts, a, k)
<1>1. n \in Nat /\ "financing" \in Activities
  BY FinanceAssumption DEF Activities
<1>2. bal[Cash(e)] >= n /\ UNCHANGED loans /\ Book("bank_deposit", "financing", p)
  <2>1. p = [x \in Accounts |-> At(x, Reserves(b), n) + At(x, CustomerDeposits(b), -n)
                                + At(x, DepositAt(e, b), n) + At(x, Cash(e), -n)]
    BY <1>1 DEF Postings, At
  <2> HIDE DEF p
  <2> QED
    BY <2>1 DEF BankDeposit
<1>3. a \in [Indices -> Accounts] /\ k \in [Indices -> Int]
  <2>1. /\ Reserves(b) \in Accounts /\ CustomerDeposits(b) \in Accounts
        /\ DepositAt(e, b) \in Accounts /\ Cash(e) \in Accounts
    BY BankAccounts, CustomerAccounts
  <2> QED
    BY <1>1, <2>1 DEF Indices
<1>4. ASSUME NEW f \in Entities PROVE Part(k, {i \in Indices : a[i][1] = f}) = 0
  BY <1>1 DEF Part, Indices, Reserves, CustomerDeposits, DepositAt, Cash
<1>5. ASSUME NEW names \in Eliminated PROVE Part(k, {i \in Indices : a[i][2] \in names}) = 0
  BY <1>1 DEF Part, Indices, Eliminated, Reserves, CustomerDeposits, DepositAt, Cash
<1>6. ASSUME NEW d \in Banks
      PROVE  Part(k, {i \in Indices : a[i][2] = "bank_deposit" /\ a[i][3] = d})
             + Part(k, {i \in Indices : a[i] = CustomerDeposits(d)}) = 0
  BY <1>1 DEF Part, Indices, Reserves, CustomerDeposits, DepositAt, Cash
<1>7. Part(k, {i \in Indices : a[i][2] \in {"cash", "reserves"}}) = 0
  BY <1>1 DEF Part, Indices, Reserves, CustomerDeposits, DepositAt, Cash
<1>8. Sound(p) /\ Sum(p, SettlementAccounts) = 0
  <2> HIDE DEF a, k
  <2> QED
    BY <1>3, <1>4, <1>5, <1>6, <1>7, PostingsSound, PostedCash
<1>9. \A x \in Accounts : x[2] \in LoanNames => p[x] = 0
  BY DEF Postings, At, LoanNames, Reserves, CustomerDeposits, DepositAt, Cash
<1>10. ASSUME NEW x \in Liquid PROVE bal[x] + p[x] >= 0
  <2>1. /\ x \in Accounts /\ bal[x] \in Int /\ bal[x] >= 0
        /\ x[2] \in {"cash", "reserves", "bank_deposit"}
    BY DEF Liquid, Named, FinanceInv, Typed, Covered
  <2>2. x # CustomerDeposits(b)
    BY <2>1 DEF CustomerDeposits
  <2>3. Cash(e) # DepositAt(e, b) /\ Cash(e) # Reserves(b) /\ DepositAt(e, b) # Reserves(b)
    BY DEF Cash, DepositAt, Reserves
  <2> QED
    BY <1>1, <1>2, <2>1, <2>2, <2>3 DEF Postings, At
<1> HIDE DEF a, k, p
<1>11. FinanceInv'
  BY <1>1, <1>2, <1>8, <1>9, <1>10, NoLoan
<1>12. SettlementCash' = SettlementCash
  BY <1>1, <1>2, <1>8, BookKeeps DEF FinanceInv
<1> QED
  BY <1>11, <1>12

(* A tax assessed is owed to the treasury and nothing is paid yet. *)
LEMMA Assessment ==
  ASSUME FinanceInv, NEW t \in Treasuries, NEW e \in Enterprises, NEW n \in Amounts,
         TaxAssessment(t, e, n)
  PROVE  FinanceInv' /\ SettlementCash' = SettlementCash
<1> DEFINE x1 == <<e, "tax_expense", None>>
           x2 == <<e, "tax_payable", t>>
           x3 == <<t, "taxes_receivable", e>>
           x4 == <<t, "tax_revenue", None>>
           a == <<x1, x2, x3, x4, x4, x4>>
           k == <<n, -n, n, -n, 0, 0>>
           p == Postings(Accounts, a, k)
<1>1. n \in Nat /\ "treasury" \in Activities
  BY FinanceAssumption DEF Activities
<1>2. UNCHANGED loans /\ Book("treasury_tax_assessment", "treasury", p)
  <2>1. p = [x \in Accounts |-> At(x, x1, n) + At(x, x2, -n) + At(x, x3, n) + At(x, x4, -n)]
    BY <1>1 DEF Postings, At
  <2> HIDE DEF p
  <2> QED
    BY <2>1 DEF TaxAssessment
<1>3. a \in [Indices -> Accounts] /\ k \in [Indices -> Int]
  <2>1. x1 \in Accounts /\ x2 \in Accounts /\ x3 \in Accounts /\ x4 \in Accounts
    BY EnterpriseAccounts, TreasuryAccounts
  <2> HIDE DEF x1, x2, x3, x4
  <2> QED
    BY <1>1, <2>1 DEF Indices
<1>4. ASSUME NEW f \in Entities PROVE Part(k, {i \in Indices : a[i][1] = f}) = 0
  BY <1>1 DEF Part, Indices
<1>5. ASSUME NEW names \in Eliminated PROVE Part(k, {i \in Indices : a[i][2] \in names}) = 0
  BY <1>1 DEF Part, Indices, Eliminated
<1>6. ASSUME NEW d \in Banks
      PROVE  Part(k, {i \in Indices : a[i][2] = "bank_deposit" /\ a[i][3] = d})
             + Part(k, {i \in Indices : a[i] = CustomerDeposits(d)}) = 0
  BY <1>1 DEF Part, Indices, CustomerDeposits
<1>7. Part(k, {i \in Indices : a[i][2] \in {"cash", "reserves"}}) = 0
  BY <1>1 DEF Part, Indices
<1>8. Sound(p) /\ Sum(p, SettlementAccounts) = 0
  <2> HIDE DEF a, k
  <2> QED
    BY <1>3, <1>4, <1>5, <1>6, <1>7, PostingsSound, PostedCash
<1>9. \A x \in Accounts : x[2] \in LoanNames => p[x] = 0
  BY DEF Postings, At, LoanNames
<1>10. ASSUME NEW x \in Liquid PROVE bal[x] + p[x] >= 0
  <2>1. /\ x \in Accounts /\ bal[x] \in Int /\ bal[x] >= 0
        /\ x[2] \in {"cash", "reserves", "bank_deposit"}
    BY DEF Liquid, Named, FinanceInv, Typed, Covered
  <2>2. p[x] = 0
    BY <2>1 DEF Postings, At
  <2> HIDE DEF p
  <2> QED
    BY <2>1, <2>2
<1> HIDE DEF a, k, p
<1>11. FinanceInv'
  BY <1>1, <1>2, <1>8, <1>9, <1>10, NoLoan
<1>12. SettlementCash' = SettlementCash
  BY <1>1, <1>2, <1>8, BookKeeps DEF FinanceInv
<1> QED
  BY <1>11, <1>12

(* A tax paid settles what was assessed, through one kind of account. *)
LEMMA Receipt ==
  ASSUME FinanceInv, NEW t \in Treasuries, NEW e \in Enterprises, NEW n \in Amounts,
         NEW via \in Via, TaxReceipt(t, e, n, via)
  PROVE  FinanceInv' /\ SettlementCash' = SettlementCash
<1> DEFINE x1 == <<e, "tax_payable", t>>
           x2 == Till(e, via)
           x3 == Till(t, via)
           x4 == <<t, "taxes_receivable", e>>
           a == <<x1, x2, x3, x4, x4, x4>>
           k == <<n, -n, n, -n, 0, 0>>
           p == Postings(Accounts, a, k)
<1>1. n \in Nat /\ "treasury" \in Activities
  BY FinanceAssumption DEF Activities
<1>2. bal[x2] >= n /\ UNCHANGED loans /\ Book("treasury_tax_receipt", "treasury", p)
  <2>1. p = [x \in Accounts |-> At(x, x1, n) + At(x, x2, -n) + At(x, x3, n) + At(x, x4, -n)]
    BY <1>1 DEF Postings, At
  <2> HIDE DEF p
  <2> QED
    BY <2>1 DEF TaxReceipt
<1>3. a \in [Indices -> Accounts] /\ k \in [Indices -> Int]
  <2>1. x1 \in Accounts /\ x2 \in Accounts /\ x3 \in Accounts /\ x4 \in Accounts
    BY EnterpriseAccounts, TreasuryAccounts, TillIs
  <2> HIDE DEF x1, x2, x3, x4
  <2> QED
    BY <1>1, <2>1 DEF Indices
<1>4. /\ x1[1] = e /\ x2[1] = e /\ x3[1] = t /\ x4[1] = t /\ e # t
      /\ x1[2] = "tax_payable" /\ x4[2] = "taxes_receivable"
  <2>1. e \in Customers /\ t \in Customers
    BY EnterpriseAccounts, TreasuryAccounts
  <2> QED
    BY <2>1, TillIs, FinanceAssumption
<1>5. /\ via = "cash" => x2[2] = "cash" /\ x3[2] = "cash"
      /\ via # "cash" => x2[2] = "bank_deposit" /\ x2[3] = via
                         /\ x3[2] = "bank_deposit" /\ x3[3] = via
  <2>1. e \in Customers /\ t \in Customers
    BY EnterpriseAccounts, TreasuryAccounts
  <2>2. ASSUME NEW f \in Customers
        PROVE  /\ via = "cash" => Till(f, via)[2] = "cash"
               /\ via # "cash" => Till(f, via)[2] = "bank_deposit" /\ Till(f, via)[3] = via
    BY TillIs
  <2> QED
    BY <2>1, <2>2, Zenon
<1> HIDE DEF x1, x2, x3, x4
<1>6. ASSUME NEW f \in Entities PROVE Part(k, {i \in Indices : a[i][1] = f}) = 0
  BY <1>1, <1>4 DEF Part, Indices
<1>7. ASSUME NEW names \in Eliminated PROVE Part(k, {i \in Indices : a[i][2] \in names}) = 0
  BY <1>1, <1>4, <1>5 DEF Part, Indices, Eliminated
<1>8. ASSUME NEW d \in Banks
      PROVE  Part(k, {i \in Indices : a[i][2] = "bank_deposit" /\ a[i][3] = d})
             + Part(k, {i \in Indices : a[i] = CustomerDeposits(d)}) = 0
  <2>1. \A x : x = CustomerDeposits(d) => x[2] = "customer_deposits"
    BY DEF CustomerDeposits
  <2>2. \A i \in Indices : a[i] # CustomerDeposits(d)
    BY <1>4, <1>5, <2>1 DEF Indices
  <2>3. Part(k, {i \in Indices : a[i] = CustomerDeposits(d)}) = 0
    BY <2>2 DEF Part
  <2>4. Part(k, {i \in Indices : a[i][2] = "bank_deposit" /\ a[i][3] = d}) = 0
    BY <1>1, <1>4, <1>5 DEF Part, Indices
  <2> QED
    BY <2>3, <2>4
<1>9. Part(k, {i \in Indices : a[i][2] \in {"cash", "reserves"}}) = 0
  BY <1>1, <1>4, <1>5 DEF Part, Indices
<1>10. Sound(p) /\ Sum(p, SettlementAccounts) = 0
  <2> HIDE DEF a, k
  <2> QED
    BY <1>3, <1>6, <1>7, <1>8, <1>9, PostingsSound, PostedCash
<1>11. \A x \in Accounts : x[2] \in LoanNames => p[x] = 0
  BY <1>4, <1>5 DEF Postings, At, LoanNames
<1>12. ASSUME NEW x \in Liquid PROVE bal[x] + p[x] >= 0
  <2>1. /\ x \in Accounts /\ bal[x] \in Int /\ bal[x] >= 0
        /\ x[2] \in {"cash", "reserves", "bank_deposit"}
    BY DEF Liquid, Named, FinanceInv, Typed, Covered
  <2>2. x # x1 /\ x # x4 /\ x2 # x3
    BY <1>4, <2>1
  <2> QED
    BY <1>1, <1>2, <2>1, <2>2 DEF Postings, At
<1> HIDE DEF a, k, p
<1>13. FinanceInv'
  BY <1>1, <1>2, <1>10, <1>11, <1>12, NoLoan
<1>14. SettlementCash' = SettlementCash
  BY <1>1, <1>2, <1>10, BookKeeps DEF FinanceInv
<1> QED
  BY <1>13, <1>14
-----------------------------------------------------------------------------
(* An event that makes loan l of bank b to enterprise e the record r, and   *)
(* posts to the accounts of that loan what the record changes by.           *)
LEMMA LoanEvent ==
  ASSUME FinanceInv, NEW l \in LoanIds, NEW b \in Banks, NEW e \in Enterprises,
         NEW r \in LoanRecord, r.bank = b, r.borrower = e,
         r.provided <= r.outstanding, r.outstanding + r.repaid = r.originated,
         l \in DOMAIN loans => loans[l].bank = b /\ loans[l].borrower = e,
         loans' = [i \in DOMAIN loans \cup {l} |-> IF i = l THEN r ELSE loans[i]],
         NEW kind, NEW activity \in Activities, NEW p, Sound(p), Book(kind, activity, p),
         bal[<<b, "loans_receivable", l>>] + p[<<b, "loans_receivable", l>>] = r.outstanding,
         bal[<<b, "loan_loss_allowance", l>>] + p[<<b, "loan_loss_allowance", l>>] = -r.provided,
         bal[<<b, "interest_receivable", l>>] + p[<<b, "interest_receivable", l>>] = r.accrued,
         bal[<<e, "loan_payable", l>>] + p[<<e, "loan_payable", l>>] = -r.outstanding,
         bal[<<e, "interest_payable", l>>] + p[<<e, "interest_payable", l>>] = -r.accrued,
         \A x \in Accounts :
           x[2] \in LoanNames /\ (x[3] # l \/ x[1] \notin {b, e}) => p[x] = 0,
         \A x \in Liquid : bal[x] + p[x] >= 0
  PROVE  FinanceInv'
<1>1. /\ bal' \in [Accounts -> Int] /\ flow' \in [Activities -> Int] /\ events' \in Nat
      /\ \A x \in Accounts : bal'[x] = bal[x] + p[x]
      /\ Balanced'
  BY BookKeeps DEF FinanceInv
<1>2. /\ DOMAIN loans' = DOMAIN loans \cup {l}
      /\ loans'[l] = r /\ \A i \in DOMAIN loans : i # l => loans'[i] = loans[i]
  OBVIOUS
<1>3. Typed'
  BY <1>1 DEF FinanceInv, Typed
<1>4. Terms'
  BY <1>2 DEF FinanceInv, Terms
<1>5. Covered'
  BY <1>1 DEF Covered, Liquid, Named
<1>6. \A x \in Accounts : x[2] \in LoanNames /\ (x[3] # l \/ x[1] \notin {b, e}) => bal'[x] = bal[x]
  BY <1>1 DEF FinanceInv, Typed
<1>7. e \notin Banks
  BY FinanceAssumption
<1>8. ASSUME NEW i \in LoanIds, NEW c \in Banks
      PROVE  /\ bal'[<<c, "loans_receivable", i>>] =
                    IF Lends(c, i)' THEN loans'[i].outstanding ELSE 0
             /\ bal'[<<c, "loan_loss_allowance", i>>] =
                    IF Lends(c, i)' THEN -loans'[i].provided ELSE 0
             /\ bal'[<<c, "interest_receivable", i>>] =
                    IF Lends(c, i)' THEN loans'[i].accrued ELSE 0
  <2>1. CASE i = l /\ c = b
    <3>1. Lends(c, i)'
      BY <1>2, <2>1 DEF Lends
    <3> QED
      BY <1>1, <1>2, <2>1, <3>1, BankAccounts
  <2>2. CASE i # l \/ c # b
    <3>1. Lends(c, i)' <=> Lends(c, i)
      BY <1>2, <2>2 DEF Lends
    <3>2. Lends(c, i) => loans'[i] = loans[i]
      BY <1>2, <2>2 DEF Lends
    <3>3. /\ bal'[<<c, "loans_receivable", i>>] = bal[<<c, "loans_receivable", i>>]
          /\ bal'[<<c, "loan_loss_allowance", i>>] = bal[<<c, "loan_loss_allowance", i>>]
          /\ bal'[<<c, "interest_receivable", i>>] = bal[<<c, "interest_receivable", i>>]
      BY <1>6, <1>7, <2>2, BankAccounts DEF LoanNames
    <3>4. /\ bal[<<c, "loans_receivable", i>>] = IF Lends(c, i) THEN loans[i].outstanding ELSE 0
          /\ bal[<<c, "loan_loss_allowance", i>>] = IF Lends(c, i) THEN -loans[i].provided ELSE 0
          /\ bal[<<c, "interest_receivable", i>>] = IF Lends(c, i) THEN loans[i].accrued ELSE 0
      BY DEF FinanceInv, Books
    <3> QED
      BY <3>1, <3>2, <3>3, <3>4
  <2> QED
    BY <2>1, <2>2
<1>9. ASSUME NEW i \in LoanIds, NEW c \in Enterprises
      PROVE  /\ bal'[<<c, "loan_payable", i>>] =
                    IF Borrows(c, i)' THEN -loans'[i].outstanding ELSE 0
             /\ bal'[<<c, "interest_payable", i>>] =
                    IF Borrows(c, i)' THEN -loans'[i].accrued ELSE 0
  <2>1. CASE i = l /\ c = e
    <3>1. Borrows(c, i)'
      BY <1>2, <2>1 DEF Borrows
    <3> QED
      BY <1>1, <1>2, <2>1, <3>1, EnterpriseAccounts
  <2>2. CASE i # l \/ c # e
    <3>1. Borrows(c, i)' <=> Borrows(c, i)
      BY <1>2, <2>2 DEF Borrows
    <3>2. Borrows(c, i) => loans'[i] = loans[i]
      BY <1>2, <2>2 DEF Borrows
    <3>3. /\ bal'[<<c, "loan_payable", i>>] = bal[<<c, "loan_payable", i>>]
          /\ bal'[<<c, "interest_payable", i>>] = bal[<<c, "interest_payable", i>>]
      <4>1. c \notin Banks
        BY FinanceAssumption
      <4> QED
        BY <1>6, <2>2, <4>1, EnterpriseAccounts DEF LoanNames
    <3>4. /\ bal[<<c, "loan_payable", i>>] = IF Borrows(c, i) THEN -loans[i].outstanding ELSE 0
          /\ bal[<<c, "interest_payable", i>>] = IF Borrows(c, i) THEN -loans[i].accrued ELSE 0
      BY DEF FinanceInv, Books
    <3> QED
      BY <3>1, <3>2, <3>3, <3>4
  <2> QED
    BY <2>1, <2>2
<1>10. Books'
  BY <1>8, <1>9 DEF Books
<1> QED
  BY <1>1, <1>3, <1>4, <1>5, <1>10 DEF FinanceInv

(* A loan is lent into the borrower's deposit. *)
LEMMA Origination ==
  ASSUME FinanceInv, NEW l \in LoanIds, NEW b \in Banks, NEW e \in Enterprises,
         NEW n \in Amounts, NEW rate \in Rates, LoanOrigination(l, b, e, n, rate)
  PROVE  FinanceInv' /\ SettlementCash' = SettlementCash
<1> DEFINE a == << <<b, "loans_receivable", l>>, CustomerDeposits(b), DepositAt(e, b),
                   <<e, "loan_payable", l>>, <<e, "loan_payable", l>>, <<e, "loan_payable", l>> >>
           k == <<n, -n, n, -n, 0, 0>>
           p == Postings(Accounts, a, k)
           r == NewLoan(b, e, n, rate)
<1>1. n \in Nat /\ "financing" \in Activities
  BY FinanceAssumption DEF Activities
<1>2. /\ Book("loan_origination", "financing", p) /\ l \notin DOMAIN loans
      /\ loans' = [i \in DOMAIN loans \cup {l} |-> IF i = l THEN r ELSE loans[i]]
  <2>1. p = [x \in Accounts |->
               At(x, <<b, "loans_receivable", l>>, n) + At(x, CustomerDeposits(b), -n)
             + At(x, DepositAt(e, b), n) + At(x, <<e, "loan_payable", l>>, -n)]
    BY <1>1 DEF Postings, At
  <2> HIDE DEF p
  <2> QED
    BY <2>1 DEF LoanOrigination
<1>3. a \in [Indices -> Accounts] /\ k \in [Indices -> Int]
  <2>1. /\ <<b, "loans_receivable", l>> \in Accounts /\ CustomerDeposits(b) \in Accounts
        /\ DepositAt(e, b) \in Accounts /\ <<e, "loan_payable", l>> \in Accounts
    BY BankAccounts, EnterpriseAccounts, CustomerAccounts
  <2> QED
    BY <1>1, <2>1 DEF Indices
<1>4. ASSUME NEW f \in Entities PROVE Part(k, {i \in Indices : a[i][1] = f}) = 0
  BY <1>1 DEF Part, Indices, CustomerDeposits, DepositAt
<1>5. ASSUME NEW names \in Eliminated PROVE Part(k, {i \in Indices : a[i][2] \in names}) = 0
  BY <1>1 DEF Part, Indices, Eliminated, CustomerDeposits, DepositAt
<1>6. ASSUME NEW d \in Banks
      PROVE  Part(k, {i \in Indices : a[i][2] = "bank_deposit" /\ a[i][3] = d})
             + Part(k, {i \in Indices : a[i] = CustomerDeposits(d)}) = 0
  BY <1>1 DEF Part, Indices, CustomerDeposits, DepositAt
<1>7. Part(k, {i \in Indices : a[i][2] \in {"cash", "reserves"}}) = 0
  BY <1>1 DEF Part, Indices, CustomerDeposits, DepositAt
<1>8. Sound(p) /\ Sum(p, SettlementAccounts) = 0
  <2> HIDE DEF a, k
  <2> QED
    BY <1>3, <1>4, <1>5, <1>6, <1>7, PostingsSound, PostedCash
<1>9. /\ p[<<b, "loans_receivable", l>>] = n /\ p[<<b, "loan_loss_allowance", l>>] = 0
      /\ p[<<b, "interest_receivable", l>>] = 0
      /\ p[<<e, "loan_payable", l>>] = -n /\ p[<<e, "interest_payable", l>>] = 0
  <2>1. /\ <<b, "loans_receivable", l>> \in Accounts /\ <<b, "loan_loss_allowance", l>> \in Accounts
        /\ <<b, "interest_receivable", l>> \in Accounts
        /\ <<e, "loan_payable", l>> \in Accounts /\ <<e, "interest_payable", l>> \in Accounts
    BY <1>1, BankAccounts, EnterpriseAccounts
  <2> QED
    BY <1>1, <2>1 DEF Postings, At, CustomerDeposits, DepositAt
<1>10. \A x \in Accounts : x[2] \in LoanNames /\ (x[3] # l \/ x[1] \notin {b, e}) => p[x] = 0
  BY DEF Postings, At, LoanNames, CustomerDeposits, DepositAt
<1>11. ASSUME NEW x \in Liquid PROVE bal[x] + p[x] >= 0
  <2>1. /\ x \in Accounts /\ bal[x] \in Int /\ bal[x] >= 0
        /\ x[2] \in {"cash", "reserves", "bank_deposit"}
    BY DEF Liquid, Named, FinanceInv, Typed, Covered
  <2>2. p[x] = At(x, DepositAt(e, b), n)
    BY <1>1, <2>1 DEF Postings, At, CustomerDeposits, DepositAt
  <2> HIDE DEF p
  <2> QED
    BY <1>1, <1>2, <2>1, <2>2 DEF At
<1>12. /\ r \in LoanRecord /\ r.bank = b /\ r.borrower = e /\ r.outstanding = n /\ r.originated = n
       /\ r.provided = 0 /\ r.accrued = 0 /\ r.repaid = 0
  BY <1>1 DEF NewLoan, LoanRecord
<1>13. /\ bal[<<b, "loans_receivable", l>>] = 0 /\ bal[<<b, "loan_loss_allowance", l>>] = 0
       /\ bal[<<b, "interest_receivable", l>>] = 0
       /\ bal[<<e, "loan_payable", l>>] = 0 /\ bal[<<e, "interest_payable", l>>] = 0
  BY <1>2 DEF FinanceInv, Books, Lends, Borrows
<1> HIDE DEF a, k, p, r
<1>14. FinanceInv'
  BY <1>1, <1>2, <1>8, <1>9, <1>10, <1>11, <1>12, <1>13, LoanEvent
<1>15. SettlementCash' = SettlementCash
  BY <1>1, <1>2, <1>8, BookKeeps DEF FinanceInv
<1> QED
  BY <1>14, <1>15

(* What the books say of a loan there is. *)
LEMMA LoanFacts ==
  ASSUME FinanceInv, NEW l \in DOMAIN loans
  PROVE  /\ l \in LoanIds /\ loans[l] \in LoanRecord
         /\ loans[l].bank \in Banks /\ loans[l].borrower \in Enterprises
         /\ loans[l].outstanding \in Nat /\ loans[l].accrued \in Nat /\ loans[l].paid \in Nat
         /\ loans[l].repaid \in Nat /\ loans[l].provided \in Nat
         /\ bal[<<loans[l].bank, "loans_receivable", l>>] = loans[l].outstanding
         /\ bal[<<loans[l].bank, "loan_loss_allowance", l>>] = -loans[l].provided
         /\ bal[<<loans[l].bank, "interest_receivable", l>>] = loans[l].accrued
         /\ bal[<<loans[l].borrower, "loan_payable", l>>] = -loans[l].outstanding
         /\ bal[<<loans[l].borrower, "interest_payable", l>>] = -loans[l].accrued
         /\ loans[l].provided <= loans[l].outstanding
         /\ loans[l].outstanding + loans[l].repaid = loans[l].originated
<1>1. l \in LoanIds /\ loans[l] \in LoanRecord
  BY DEF FinanceInv, Typed
<1>2. /\ loans[l].bank \in Banks /\ loans[l].borrower \in Enterprises
      /\ loans[l].outstanding \in Nat /\ loans[l].accrued \in Nat /\ loans[l].paid \in Nat
      /\ loans[l].repaid \in Nat /\ loans[l].provided \in Nat
  BY <1>1 DEF LoanRecord
<1>3. Lends(loans[l].bank, l) /\ Borrows(loans[l].borrower, l)
  BY DEF Lends, Borrows
<1> QED
  BY <1>1, <1>2, <1>3 DEF FinanceInv, Books, Terms

(* Interest is a number: the divisor is positive. *)
LEMMA Interest == ASSUME NEW r \in LoanRecord PROVE MonthlyInterest(r) \in Int
<1>1. r.outstanding * r.rate \in Int
  <2>1. r.outstanding \in Nat /\ r.rate \in Rates
    BY DEF LoanRecord
  <2>2. r.rate \in Nat
    BY <2>1, FinanceAssumption, ScaleAssumption, 0..Scale \subseteq Nat
  <2> QED
    BY <2>1, <2>2
<1>2. \A m \in Int : \A d \in Nat \ {0} : HalfEven(m, d) \in Int
  BY DEF HalfEven
<1>3. 12 * Scale * Cent \in Nat \ {0} /\ Cent \in Int
  BY FinanceAssumption, ScaleAssumption
<1>4. HalfEven(r.outstanding * r.rate, 12 * Scale * Cent) \in Int
  BY <1>1, <1>2, <1>3, Zenon
<1> QED
  BY <1>3, <1>4 DEF MonthlyInterest, Rounded

(* Both sides accrue the same interest. *)
LEMMA Accrual ==
  ASSUME FinanceInv, NEW l \in DOMAIN loans, LoanInterestAccrual(l)
  PROVE  FinanceInv' /\ SettlementCash' = SettlementCash
<1> DEFINE b == loans[l].bank
           e == loans[l].borrower
           n == MonthlyInterest(loans[l])
           a == << <<b, "interest_receivable", l>>, <<b, "interest_income", None>>,
                   <<e, "interest_expense", None>>, <<e, "interest_payable", l>>,
                   <<e, "interest_payable", l>>, <<e, "interest_payable", l>> >>
           k == <<n, -n, n, -n, 0, 0>>
           p == Postings(Accounts, a, k)
           r == [loans[l] EXCEPT !.accrued = @ + n]
<1>1. /\ l \in LoanIds /\ loans[l] \in LoanRecord /\ b \in Banks /\ e \in Enterprises
      /\ e \in Customers /\ loans[l].bank = b /\ loans[l].borrower = e
      /\ loans[l].outstanding \in Nat /\ loans[l].accrued \in Nat /\ loans[l].paid \in Nat
      /\ loans[l].repaid \in Nat /\ loans[l].provided \in Nat
      /\ bal[<<b, "loans_receivable", l>>] = loans[l].outstanding
      /\ bal[<<b, "loan_loss_allowance", l>>] = -loans[l].provided
      /\ bal[<<b, "interest_receivable", l>>] = loans[l].accrued
      /\ bal[<<e, "loan_payable", l>>] = -loans[l].outstanding
      /\ bal[<<e, "interest_payable", l>>] = -loans[l].accrued
      /\ loans[l].provided <= loans[l].outstanding
      /\ loans[l].outstanding + loans[l].repaid = loans[l].originated
  BY LoanFacts, EnterpriseAccounts
<1>2. Amounts \subseteq Nat /\ loans[l].outstanding - loans[l].provided \in Nat
  BY <1>1, FinanceAssumption
<1>3. /\ n \in Int
      /\ "financing" \in Activities
  BY <1>1, <1>2, Interest DEF Activities
<1>4. /\ Book("loan_interest_accrual", "financing", p) /\ n > 0
      /\ loans' = [i \in DOMAIN loans \cup {l} |-> IF i = l THEN r ELSE loans[i]]
  <2>1. p = [x \in Accounts |-> At(x, <<b, "interest_receivable", l>>, n)
                 + At(x, <<b, "interest_income", None>>, -n)
                 + At(x, <<e, "interest_expense", None>>, n)
                 + At(x, <<e, "interest_payable", l>>, -n)]
    BY <1>3 DEF Postings, At
  <2>2. loans \in [DOMAIN loans -> LoanRecord]
    BY DEF FinanceInv, Typed
  <2> HIDE DEF p
  <2> QED
    BY <2>1, <2>2 DEF LoanInterestAccrual
<1> HIDE DEF b, e, n
<1>5. a \in [Indices -> Accounts] /\ k \in [Indices -> Int]
  <2>1. /\ <<b, "interest_receivable", l>> \in Accounts /\ <<b, "interest_income", None>> \in Accounts
        /\ <<e, "interest_expense", None>> \in Accounts /\ <<e, "interest_payable", l>> \in Accounts
    BY <1>3, <1>1, BankAccounts, EnterpriseAccounts, CustomerAccounts
  <2> QED
    BY <1>3, <1>1, <2>1 DEF Indices
<1>6. ASSUME NEW f \in Entities PROVE Part(k, {i \in Indices : a[i][1] = f}) = 0
  BY <1>3 DEF Part, Indices, CustomerDeposits
<1>7. ASSUME NEW names \in Eliminated PROVE Part(k, {i \in Indices : a[i][2] \in names}) = 0
  BY <1>3 DEF Part, Indices, Eliminated, CustomerDeposits
<1>8. ASSUME NEW d \in Banks
      PROVE  Part(k, {i \in Indices : a[i][2] = "bank_deposit" /\ a[i][3] = d})
             + Part(k, {i \in Indices : a[i] = CustomerDeposits(d)}) = 0
  BY <1>3 DEF Part, Indices, CustomerDeposits
<1>9. Part(k, {i \in Indices : a[i][2] \in {"cash", "reserves"}}) = 0
  BY <1>3 DEF Part, Indices, CustomerDeposits
<1>10. Sound(p) /\ Sum(p, SettlementAccounts) = 0
  <2> HIDE DEF a, k
  <2> QED
    BY <1>5, <1>6, <1>7, <1>8, <1>9, PostingsSound, PostedCash
<1>11. /\ p[<<b, "loans_receivable", l>>] = 0 /\ p[<<b, "loan_loss_allowance", l>>] = 0
       /\ p[<<b, "interest_receivable", l>>] = n
       /\ p[<<e, "loan_payable", l>>] = 0 /\ p[<<e, "interest_payable", l>>] = -n
  <2>1. /\ <<b, "loans_receivable", l>> \in Accounts /\ <<b, "loan_loss_allowance", l>> \in Accounts
        /\ <<b, "interest_receivable", l>> \in Accounts
        /\ <<e, "loan_payable", l>> \in Accounts /\ <<e, "interest_payable", l>> \in Accounts
    BY <1>1, BankAccounts, EnterpriseAccounts
  <2> QED
    BY <1>3, <2>1 DEF Postings, At, CustomerDeposits, DepositAt
<1>12. \A x \in Accounts : x[2] \in LoanNames /\ (x[3] # l \/ x[1] \notin {b, e}) => p[x] = 0
  BY DEF Postings, At, LoanNames, CustomerDeposits, DepositAt
<1>13. ASSUME NEW x \in Liquid PROVE bal[x] + p[x] >= 0
  <2>1. /\ x \in Accounts /\ bal[x] \in Int /\ bal[x] >= 0
        /\ x[2] \in {"cash", "reserves", "bank_deposit"}
    BY DEF Liquid, Named, FinanceInv, Typed, Covered
  <2>2. p[x] = 0
    BY <1>3, <2>1 DEF Postings, At, CustomerDeposits, DepositAt
  <2> HIDE DEF p
  <2> QED
    BY <1>3, <1>4, <2>1, <2>2 DEF At
<1>14. /\ r \in LoanRecord /\ r.bank = b /\ r.borrower = e
       /\ r.originated = loans[l].originated /\ r.outstanding = loans[l].outstanding
       /\ r.provided = loans[l].provided
       /\ r.accrued = loans[l].accrued + n
       /\ r.provided <= r.outstanding /\ r.outstanding + r.repaid = r.originated
  <2>1. /\ r.bank = b /\ r.borrower = e /\ r.originated = loans[l].originated
        /\ r.outstanding = loans[l].outstanding /\ r.provided = loans[l].provided
       /\ r.accrued = loans[l].accrued + n
    BY <1>1 DEF LoanRecord
  <2>2. r \in LoanRecord
    BY <1>3, <1>4, <1>1 DEF LoanRecord
  <2>3. r.provided <= r.outstanding /\ r.outstanding + r.repaid = r.originated
    BY <1>3, <1>4, <1>1
  <2> QED
    BY <2>1, <2>2, <2>3
<1>15. /\ bal[<<b, "loans_receivable", l>>] + p[<<b, "loans_receivable", l>>] = r.outstanding
       /\ bal[<<b, "loan_loss_allowance", l>>] + p[<<b, "loan_loss_allowance", l>>] = -r.provided
       /\ bal[<<b, "interest_receivable", l>>] + p[<<b, "interest_receivable", l>>] = r.accrued
       /\ bal[<<e, "loan_payable", l>>] + p[<<e, "loan_payable", l>>] = -r.outstanding
       /\ bal[<<e, "interest_payable", l>>] + p[<<e, "interest_payable", l>>] = -r.accrued
  <2> HIDE DEF p, r
  <2> QED
    BY <1>3, <1>11, <1>14, <1>1
<1> HIDE DEF a, k, p, r
<1>16. FinanceInv'
  BY <1>3, <1>4, <1>10, <1>11, <1>12, <1>13, <1>14, <1>15, <1>1, LoanEvent
<1>17. SettlementCash' = SettlementCash
  BY <1>3, <1>4, <1>10, BookKeeps DEF FinanceInv
<1> QED
  BY <1>16, <1>17

(* Interest paid comes off what both sides accrued. *)
LEMMA InterestPayment ==
  ASSUME FinanceInv, NEW l \in DOMAIN loans,
         NEW n \in Amounts \cup {loans[l].accrued}, LoanInterestPayment(l, n)
  PROVE  FinanceInv' /\ SettlementCash' = SettlementCash
<1> DEFINE b == loans[l].bank
           e == loans[l].borrower
           a == << CustomerDeposits(b), DepositAt(e, b), <<b, "interest_receivable", l>>,
                   <<e, "interest_payable", l>>, <<e, "interest_payable", l>>,
                   <<e, "interest_payable", l>> >>
           k == <<n, -n, -n, n, 0, 0>>
           p == Postings(Accounts, a, k)
           r == [loans[l] EXCEPT !.accrued = @ - n, !.paid = @ + n]
<1>1. /\ l \in LoanIds /\ loans[l] \in LoanRecord /\ b \in Banks /\ e \in Enterprises
      /\ e \in Customers /\ loans[l].bank = b /\ loans[l].borrower = e
      /\ loans[l].outstanding \in Nat /\ loans[l].accrued \in Nat /\ loans[l].paid \in Nat
      /\ loans[l].repaid \in Nat /\ loans[l].provided \in Nat
      /\ bal[<<b, "loans_receivable", l>>] = loans[l].outstanding
      /\ bal[<<b, "loan_loss_allowance", l>>] = -loans[l].provided
      /\ bal[<<b, "interest_receivable", l>>] = loans[l].accrued
      /\ bal[<<e, "loan_payable", l>>] = -loans[l].outstanding
      /\ bal[<<e, "interest_payable", l>>] = -loans[l].accrued
      /\ loans[l].provided <= loans[l].outstanding
      /\ loans[l].outstanding + loans[l].repaid = loans[l].originated
  BY LoanFacts, EnterpriseAccounts
<1>2. Amounts \subseteq Nat /\ loans[l].outstanding - loans[l].provided \in Nat
  BY <1>1, FinanceAssumption
<1>3. /\ n \in Nat
      /\ "financing" \in Activities
  BY <1>1, <1>2 DEF Activities
<1>4. /\ Book("loan_interest_payment", "financing", p)
      /\ n <= loans[l].accrued /\ bal[DepositAt(e, b)] >= n
      /\ loans' = [i \in DOMAIN loans \cup {l} |-> IF i = l THEN r ELSE loans[i]]
  <2>1. p = [x \in Accounts |-> At(x, CustomerDeposits(b), n)
                 + At(x, DepositAt(e, b), -n)
                 + At(x, <<b, "interest_receivable", l>>, -n)
                 + At(x, <<e, "interest_payable", l>>, n)]
    BY <1>3 DEF Postings, At
  <2>2. loans \in [DOMAIN loans -> LoanRecord]
    BY DEF FinanceInv, Typed
  <2> HIDE DEF p
  <2> QED
    BY <2>1, <2>2 DEF LoanInterestPayment, LoanPayment, CanPay
<1> HIDE DEF b, e
<1>5. a \in [Indices -> Accounts] /\ k \in [Indices -> Int]
  <2>1. /\ CustomerDeposits(b) \in Accounts /\ DepositAt(e, b) \in Accounts
        /\ <<b, "interest_receivable", l>> \in Accounts /\ <<e, "interest_payable", l>> \in Accounts
    BY <1>3, <1>1, BankAccounts, EnterpriseAccounts, CustomerAccounts
  <2> QED
    BY <1>3, <1>1, <2>1 DEF Indices
<1>6. ASSUME NEW f \in Entities PROVE Part(k, {i \in Indices : a[i][1] = f}) = 0
  BY <1>3 DEF Part, Indices, CustomerDeposits, DepositAt
<1>7. ASSUME NEW names \in Eliminated PROVE Part(k, {i \in Indices : a[i][2] \in names}) = 0
  BY <1>3 DEF Part, Indices, Eliminated, CustomerDeposits, DepositAt
<1>8. ASSUME NEW d \in Banks
      PROVE  Part(k, {i \in Indices : a[i][2] = "bank_deposit" /\ a[i][3] = d})
             + Part(k, {i \in Indices : a[i] = CustomerDeposits(d)}) = 0
  BY <1>3 DEF Part, Indices, CustomerDeposits, DepositAt
<1>9. Part(k, {i \in Indices : a[i][2] \in {"cash", "reserves"}}) = 0
  BY <1>3 DEF Part, Indices, CustomerDeposits, DepositAt
<1>10. Sound(p) /\ Sum(p, SettlementAccounts) = 0
  <2> HIDE DEF a, k
  <2> QED
    BY <1>5, <1>6, <1>7, <1>8, <1>9, PostingsSound, PostedCash
<1>11. /\ p[<<b, "loans_receivable", l>>] = 0 /\ p[<<b, "loan_loss_allowance", l>>] = 0
       /\ p[<<b, "interest_receivable", l>>] = -n
       /\ p[<<e, "loan_payable", l>>] = 0 /\ p[<<e, "interest_payable", l>>] = n
  <2>1. /\ <<b, "loans_receivable", l>> \in Accounts /\ <<b, "loan_loss_allowance", l>> \in Accounts
        /\ <<b, "interest_receivable", l>> \in Accounts
        /\ <<e, "loan_payable", l>> \in Accounts /\ <<e, "interest_payable", l>> \in Accounts
    BY <1>1, BankAccounts, EnterpriseAccounts
  <2> QED
    BY <1>3, <2>1 DEF Postings, At, CustomerDeposits, DepositAt
<1>12. \A x \in Accounts : x[2] \in LoanNames /\ (x[3] # l \/ x[1] \notin {b, e}) => p[x] = 0
  BY DEF Postings, At, LoanNames, CustomerDeposits, DepositAt
<1>13. ASSUME NEW x \in Liquid PROVE bal[x] + p[x] >= 0
  <2>1. /\ x \in Accounts /\ bal[x] \in Int /\ bal[x] >= 0
        /\ x[2] \in {"cash", "reserves", "bank_deposit"}
    BY DEF Liquid, Named, FinanceInv, Typed, Covered
  <2>2. p[x] = At(x, DepositAt(e, b), -n)
    BY <1>3, <2>1 DEF Postings, At, CustomerDeposits, DepositAt
  <2> HIDE DEF p
  <2> QED
    BY <1>3, <1>4, <2>1, <2>2 DEF At
<1>14. /\ r \in LoanRecord /\ r.bank = b /\ r.borrower = e
       /\ r.originated = loans[l].originated /\ r.outstanding = loans[l].outstanding
       /\ r.provided = loans[l].provided
       /\ r.accrued = loans[l].accrued - n
       /\ r.provided <= r.outstanding /\ r.outstanding + r.repaid = r.originated
  <2>1. /\ r.bank = b /\ r.borrower = e /\ r.originated = loans[l].originated
        /\ r.outstanding = loans[l].outstanding /\ r.provided = loans[l].provided
       /\ r.accrued = loans[l].accrued - n
    BY <1>1 DEF LoanRecord
  <2>2. r \in LoanRecord
    <3> DEFINE q == [loans[l] EXCEPT !.accrued = @ - n]
    <3>1. q \in LoanRecord /\ q.paid = loans[l].paid
      BY <1>3, <1>4, <1>1 DEF LoanRecord
    <3>2. [q EXCEPT !.paid = @ + n] \in LoanRecord
      <4> HIDE DEF q
      <4> QED
        BY <1>3, <1>1, <3>1 DEF LoanRecord
    <3> QED
      BY <1>1, <3>2 DEF LoanRecord
  <2>3. r.provided <= r.outstanding /\ r.outstanding + r.repaid = r.originated
    BY <1>3, <1>4, <1>1
  <2> QED
    BY <2>1, <2>2, <2>3
<1>15. /\ bal[<<b, "loans_receivable", l>>] + p[<<b, "loans_receivable", l>>] = r.outstanding
       /\ bal[<<b, "loan_loss_allowance", l>>] + p[<<b, "loan_loss_allowance", l>>] = -r.provided
       /\ bal[<<b, "interest_receivable", l>>] + p[<<b, "interest_receivable", l>>] = r.accrued
       /\ bal[<<e, "loan_payable", l>>] + p[<<e, "loan_payable", l>>] = -r.outstanding
       /\ bal[<<e, "interest_payable", l>>] + p[<<e, "interest_payable", l>>] = -r.accrued
  <2> HIDE DEF p, r
  <2> QED
    BY <1>3, <1>11, <1>14, <1>1
<1> HIDE DEF a, k, p, r
<1>16. FinanceInv'
  BY <1>3, <1>4, <1>10, <1>11, <1>12, <1>13, <1>14, <1>15, <1>1, LoanEvent
<1>17. SettlementCash' = SettlementCash
  BY <1>3, <1>4, <1>10, BookKeeps DEF FinanceInv
<1> QED
  BY <1>16, <1>17

(* Principal repaid comes off what is owed, and off the provision first. *)
LEMMA Repayment ==
  ASSUME FinanceInv, NEW l \in DOMAIN loans,
         NEW n \in Amounts, LoanPrincipalRepayment(l, n)
  PROVE  FinanceInv' /\ SettlementCash' = SettlementCash
<1> DEFINE b == loans[l].bank
           e == loans[l].borrower
           back == AllowanceReversal(loans[l], n)
           a == << CustomerDeposits(b), DepositAt(e, b), <<b, "loans_receivable", l>>,
                   <<e, "loan_payable", l>>, <<b, "loan_loss_allowance", l>>,
                   <<b, "credit_loss_expense", None>> >>
           k == <<n, -n, -n, n, back, -back>>
           p == Postings(Accounts, a, k)
           r == [loans[l] EXCEPT !.outstanding = @ - n, !.repaid = @ + n, !.provided = @ - back]
<1>1. /\ l \in LoanIds /\ loans[l] \in LoanRecord /\ b \in Banks /\ e \in Enterprises
      /\ e \in Customers /\ loans[l].bank = b /\ loans[l].borrower = e
      /\ loans[l].outstanding \in Nat /\ loans[l].accrued \in Nat /\ loans[l].paid \in Nat
      /\ loans[l].repaid \in Nat /\ loans[l].provided \in Nat
      /\ bal[<<b, "loans_receivable", l>>] = loans[l].outstanding
      /\ bal[<<b, "loan_loss_allowance", l>>] = -loans[l].provided
      /\ bal[<<b, "interest_receivable", l>>] = loans[l].accrued
      /\ bal[<<e, "loan_payable", l>>] = -loans[l].outstanding
      /\ bal[<<e, "interest_payable", l>>] = -loans[l].accrued
      /\ loans[l].provided <= loans[l].outstanding
      /\ loans[l].outstanding + loans[l].repaid = loans[l].originated
  BY LoanFacts, EnterpriseAccounts
<1>2. Amounts \subseteq Nat /\ loans[l].outstanding - loans[l].provided \in Nat
  BY <1>1, FinanceAssumption
<1>3. /\ n \in Nat /\ back \in Nat /\ back <= n /\ back <= loans[l].provided
      /\ (back = n \/ back = loans[l].provided)
      /\ "financing" \in Activities
  BY <1>1, <1>2 DEF Activities, AllowanceReversal, Lesser
<1>4. /\ Book("loan_principal_repayment", "financing", p)
      /\ n <= loans[l].outstanding /\ bal[DepositAt(e, b)] >= n
      /\ loans' = [i \in DOMAIN loans \cup {l} |-> IF i = l THEN r ELSE loans[i]]
  <2>1. p = [x \in Accounts |-> At(x, CustomerDeposits(b), n)
                 + At(x, DepositAt(e, b), -n)
                 + At(x, <<b, "loans_receivable", l>>, -n)
                 + At(x, <<e, "loan_payable", l>>, n)
                 + At(x, <<b, "loan_loss_allowance", l>>, back)
                 + At(x, <<b, "credit_loss_expense", None>>, -back)]
    BY <1>3 DEF Postings, At
  <2>2. loans \in [DOMAIN loans -> LoanRecord]
    BY DEF FinanceInv, Typed
  <2> HIDE DEF p
  <2> QED
    BY <2>1, <2>2 DEF LoanPrincipalRepayment, LoanPayment, CanPay, Receivable, Payable
<1> HIDE DEF b, e, back
<1>5. a \in [Indices -> Accounts] /\ k \in [Indices -> Int]
  <2>1. /\ CustomerDeposits(b) \in Accounts /\ DepositAt(e, b) \in Accounts
        /\ <<b, "loans_receivable", l>> \in Accounts /\ <<e, "loan_payable", l>> \in Accounts
        /\ <<b, "loan_loss_allowance", l>> \in Accounts /\ <<b, "credit_loss_expense", None>> \in Accounts
    BY <1>3, <1>1, BankAccounts, EnterpriseAccounts, CustomerAccounts
  <2> QED
    BY <1>3, <1>1, <2>1 DEF Indices
<1>6. ASSUME NEW f \in Entities PROVE Part(k, {i \in Indices : a[i][1] = f}) = 0
  BY <1>3 DEF Part, Indices, CustomerDeposits, DepositAt
<1>7. ASSUME NEW names \in Eliminated PROVE Part(k, {i \in Indices : a[i][2] \in names}) = 0
  BY <1>3 DEF Part, Indices, Eliminated, CustomerDeposits, DepositAt
<1>8. ASSUME NEW d \in Banks
      PROVE  Part(k, {i \in Indices : a[i][2] = "bank_deposit" /\ a[i][3] = d})
             + Part(k, {i \in Indices : a[i] = CustomerDeposits(d)}) = 0
  BY <1>3 DEF Part, Indices, CustomerDeposits, DepositAt
<1>9. Part(k, {i \in Indices : a[i][2] \in {"cash", "reserves"}}) = 0
  BY <1>3 DEF Part, Indices, CustomerDeposits, DepositAt
<1>10. Sound(p) /\ Sum(p, SettlementAccounts) = 0
  <2> HIDE DEF a, k
  <2> QED
    BY <1>5, <1>6, <1>7, <1>8, <1>9, PostingsSound, PostedCash
<1>11. /\ p[<<b, "loans_receivable", l>>] = -n /\ p[<<b, "loan_loss_allowance", l>>] = back
       /\ p[<<b, "interest_receivable", l>>] = 0
       /\ p[<<e, "loan_payable", l>>] = n /\ p[<<e, "interest_payable", l>>] = 0
  <2>1. /\ <<b, "loans_receivable", l>> \in Accounts /\ <<b, "loan_loss_allowance", l>> \in Accounts
        /\ <<b, "interest_receivable", l>> \in Accounts
        /\ <<e, "loan_payable", l>> \in Accounts /\ <<e, "interest_payable", l>> \in Accounts
    BY <1>1, BankAccounts, EnterpriseAccounts
  <2> QED
    BY <1>3, <2>1 DEF Postings, At, CustomerDeposits, DepositAt
<1>12. \A x \in Accounts : x[2] \in LoanNames /\ (x[3] # l \/ x[1] \notin {b, e}) => p[x] = 0
  BY DEF Postings, At, LoanNames, CustomerDeposits, DepositAt
<1>13. ASSUME NEW x \in Liquid PROVE bal[x] + p[x] >= 0
  <2>1. /\ x \in Accounts /\ bal[x] \in Int /\ bal[x] >= 0
        /\ x[2] \in {"cash", "reserves", "bank_deposit"}
    BY DEF Liquid, Named, FinanceInv, Typed, Covered
  <2>2. p[x] = At(x, DepositAt(e, b), -n)
    BY <1>3, <2>1 DEF Postings, At, CustomerDeposits, DepositAt
  <2> HIDE DEF p
  <2> QED
    BY <1>3, <1>4, <2>1, <2>2 DEF At
<1>14. /\ r \in LoanRecord /\ r.bank = b /\ r.borrower = e
       /\ r.originated = loans[l].originated /\ r.outstanding = loans[l].outstanding - n
       /\ r.provided = loans[l].provided - back
       /\ r.accrued = loans[l].accrued
       /\ r.provided <= r.outstanding /\ r.outstanding + r.repaid = r.originated
  <2>1. /\ r.bank = b /\ r.borrower = e /\ r.originated = loans[l].originated
        /\ r.outstanding = loans[l].outstanding - n /\ r.provided = loans[l].provided - back
       /\ r.accrued = loans[l].accrued
    BY <1>1 DEF LoanRecord
  <2>2. r \in LoanRecord
    <3> DEFINE q == [loans[l] EXCEPT !.outstanding = @ - n]
               s == [q EXCEPT !.repaid = @ + n]
    <3>1. q \in LoanRecord /\ q.repaid = loans[l].repaid /\ q.provided = loans[l].provided
      BY <1>3, <1>4, <1>1 DEF LoanRecord
    <3>2. s \in LoanRecord /\ s.provided = loans[l].provided
      <4> HIDE DEF q
      <4> QED
        BY <1>3, <1>1, <3>1 DEF LoanRecord
    <3>3. [s EXCEPT !.provided = @ - back] \in LoanRecord
      <4> HIDE DEF s
      <4> QED
        BY <1>3, <1>1, <3>2 DEF LoanRecord
    <3> QED
      BY <1>1, <3>3 DEF LoanRecord
  <2>3. r.provided <= r.outstanding /\ r.outstanding + r.repaid = r.originated
    BY <1>3, <1>4, <1>1
  <2> QED
    BY <2>1, <2>2, <2>3
<1>15. /\ bal[<<b, "loans_receivable", l>>] + p[<<b, "loans_receivable", l>>] = r.outstanding
       /\ bal[<<b, "loan_loss_allowance", l>>] + p[<<b, "loan_loss_allowance", l>>] = -r.provided
       /\ bal[<<b, "interest_receivable", l>>] + p[<<b, "interest_receivable", l>>] = r.accrued
       /\ bal[<<e, "loan_payable", l>>] + p[<<e, "loan_payable", l>>] = -r.outstanding
       /\ bal[<<e, "interest_payable", l>>] + p[<<e, "interest_payable", l>>] = -r.accrued
  <2> HIDE DEF p, r
  <2> QED
    BY <1>3, <1>11, <1>14, <1>1
<1> HIDE DEF a, k, p, r
<1>16. FinanceInv'
  BY <1>3, <1>4, <1>10, <1>11, <1>12, <1>13, <1>14, <1>15, <1>1, LoanEvent
<1>17. SettlementCash' = SettlementCash
  BY <1>3, <1>4, <1>10, BookKeeps DEF FinanceInv
<1> QED
  BY <1>16, <1>17

(* A default provides for no more than is owed. *)
LEMMA Default ==
  ASSUME FinanceInv, NEW l \in DOMAIN loans,
         NEW n \in Amounts \cup {loans[l].outstanding - loans[l].provided}, LoanDefault(l, n)
  PROVE  FinanceInv' /\ SettlementCash' = SettlementCash
<1> DEFINE b == loans[l].bank
           e == loans[l].borrower
           a == << <<b, "credit_loss_expense", None>>, <<b, "loan_loss_allowance", l>>,
                   <<b, "loan_loss_allowance", l>>, <<b, "loan_loss_allowance", l>>,
                   <<b, "loan_loss_allowance", l>>, <<b, "loan_loss_allowance", l>> >>
           k == <<n, -n, 0, 0, 0, 0>>
           p == Postings(Accounts, a, k)
           r == [loans[l] EXCEPT !.provided = @ + n]
<1>1. /\ l \in LoanIds /\ loans[l] \in LoanRecord /\ b \in Banks /\ e \in Enterprises
      /\ e \in Customers /\ loans[l].bank = b /\ loans[l].borrower = e
      /\ loans[l].outstanding \in Nat /\ loans[l].accrued \in Nat /\ loans[l].paid \in Nat
      /\ loans[l].repaid \in Nat /\ loans[l].provided \in Nat
      /\ bal[<<b, "loans_receivable", l>>] = loans[l].outstanding
      /\ bal[<<b, "loan_loss_allowance", l>>] = -loans[l].provided
      /\ bal[<<b, "interest_receivable", l>>] = loans[l].accrued
      /\ bal[<<e, "loan_payable", l>>] = -loans[l].outstanding
      /\ bal[<<e, "interest_payable", l>>] = -loans[l].accrued
      /\ loans[l].provided <= loans[l].outstanding
      /\ loans[l].outstanding + loans[l].repaid = loans[l].originated
  BY LoanFacts, EnterpriseAccounts
<1>2. Amounts \subseteq Nat /\ loans[l].outstanding - loans[l].provided \in Nat
  BY <1>1, FinanceAssumption
<1>3. /\ n \in Nat
      /\ "credit_loss" \in Activities
  BY <1>1, <1>2 DEF Activities
<1>4. /\ Book("loan_default", "credit_loss", p) /\ n <= loans[l].outstanding - loans[l].provided
      /\ loans' = [i \in DOMAIN loans \cup {l} |-> IF i = l THEN r ELSE loans[i]]
  <2>1. p = [x \in Accounts |-> At(x, <<b, "credit_loss_expense", None>>, n)
                 + At(x, <<b, "loan_loss_allowance", l>>, -n)]
    BY <1>3 DEF Postings, At
  <2>2. loans \in [DOMAIN loans -> LoanRecord]
    BY DEF FinanceInv, Typed
  <2> HIDE DEF p
  <2> QED
    BY <2>1, <2>2 DEF LoanDefault
<1> HIDE DEF b, e
<1>5. a \in [Indices -> Accounts] /\ k \in [Indices -> Int]
  <2>1. /\ <<b, "credit_loss_expense", None>> \in Accounts /\ <<b, "loan_loss_allowance", l>> \in Accounts
    BY <1>3, <1>1, BankAccounts, EnterpriseAccounts, CustomerAccounts
  <2> QED
    BY <1>3, <1>1, <2>1 DEF Indices
<1>6. ASSUME NEW f \in Entities PROVE Part(k, {i \in Indices : a[i][1] = f}) = 0
  BY <1>3 DEF Part, Indices, CustomerDeposits
<1>7. ASSUME NEW names \in Eliminated PROVE Part(k, {i \in Indices : a[i][2] \in names}) = 0
  BY <1>3 DEF Part, Indices, Eliminated, CustomerDeposits
<1>8. ASSUME NEW d \in Banks
      PROVE  Part(k, {i \in Indices : a[i][2] = "bank_deposit" /\ a[i][3] = d})
             + Part(k, {i \in Indices : a[i] = CustomerDeposits(d)}) = 0
  BY <1>3 DEF Part, Indices, CustomerDeposits
<1>9. Part(k, {i \in Indices : a[i][2] \in {"cash", "reserves"}}) = 0
  BY <1>3 DEF Part, Indices, CustomerDeposits
<1>10. Sound(p) /\ Sum(p, SettlementAccounts) = 0
  <2> HIDE DEF a, k
  <2> QED
    BY <1>5, <1>6, <1>7, <1>8, <1>9, PostingsSound, PostedCash
<1>11. /\ p[<<b, "loans_receivable", l>>] = 0 /\ p[<<b, "loan_loss_allowance", l>>] = -n
       /\ p[<<b, "interest_receivable", l>>] = 0
       /\ p[<<e, "loan_payable", l>>] = 0 /\ p[<<e, "interest_payable", l>>] = 0
  <2>1. /\ <<b, "loans_receivable", l>> \in Accounts /\ <<b, "loan_loss_allowance", l>> \in Accounts
        /\ <<b, "interest_receivable", l>> \in Accounts
        /\ <<e, "loan_payable", l>> \in Accounts /\ <<e, "interest_payable", l>> \in Accounts
    BY <1>1, BankAccounts, EnterpriseAccounts
  <2> QED
    BY <1>3, <2>1 DEF Postings, At, CustomerDeposits, DepositAt
<1>12. \A x \in Accounts : x[2] \in LoanNames /\ (x[3] # l \/ x[1] \notin {b, e}) => p[x] = 0
  BY DEF Postings, At, LoanNames, CustomerDeposits, DepositAt
<1>13. ASSUME NEW x \in Liquid PROVE bal[x] + p[x] >= 0
  <2>1. /\ x \in Accounts /\ bal[x] \in Int /\ bal[x] >= 0
        /\ x[2] \in {"cash", "reserves", "bank_deposit"}
    BY DEF Liquid, Named, FinanceInv, Typed, Covered
  <2>2. p[x] = 0
    BY <1>3, <2>1 DEF Postings, At, CustomerDeposits, DepositAt
  <2> HIDE DEF p
  <2> QED
    BY <1>3, <1>4, <2>1, <2>2 DEF At
<1>14. /\ r \in LoanRecord /\ r.bank = b /\ r.borrower = e
       /\ r.originated = loans[l].originated /\ r.outstanding = loans[l].outstanding
       /\ r.provided = loans[l].provided + n
       /\ r.accrued = loans[l].accrued
       /\ r.provided <= r.outstanding /\ r.outstanding + r.repaid = r.originated
  <2>1. /\ r.bank = b /\ r.borrower = e /\ r.originated = loans[l].originated
        /\ r.outstanding = loans[l].outstanding /\ r.provided = loans[l].provided + n
       /\ r.accrued = loans[l].accrued
    BY <1>1 DEF LoanRecord
  <2>2. r \in LoanRecord
    BY <1>3, <1>4, <1>1 DEF LoanRecord
  <2>3. r.provided <= r.outstanding /\ r.outstanding + r.repaid = r.originated
    BY <1>3, <1>4, <1>1
  <2> QED
    BY <2>1, <2>2, <2>3
<1>15. /\ bal[<<b, "loans_receivable", l>>] + p[<<b, "loans_receivable", l>>] = r.outstanding
       /\ bal[<<b, "loan_loss_allowance", l>>] + p[<<b, "loan_loss_allowance", l>>] = -r.provided
       /\ bal[<<b, "interest_receivable", l>>] + p[<<b, "interest_receivable", l>>] = r.accrued
       /\ bal[<<e, "loan_payable", l>>] + p[<<e, "loan_payable", l>>] = -r.outstanding
       /\ bal[<<e, "interest_payable", l>>] + p[<<e, "interest_payable", l>>] = -r.accrued
  <2> HIDE DEF p, r
  <2> QED
    BY <1>3, <1>11, <1>14, <1>1
<1> HIDE DEF a, k, p, r
<1>16. FinanceInv'
  BY <1>3, <1>4, <1>10, <1>11, <1>12, <1>13, <1>14, <1>15, <1>1, LoanEvent
<1>17. SettlementCash' = SettlementCash
  BY <1>3, <1>4, <1>10, BookKeeps DEF FinanceInv
<1> QED
  BY <1>16, <1>17
-----------------------------------------------------------------------------
(* Opening positions are cash, stock and reserves, against equity. *)
LEMMA OpeningPositions ==
  /\ \A a \in OpeningAccounts : a \in Accounts /\ a[2] \in {"cash", "inventory", "reserves"}
                                /\ Opening[a] \in Nat
  /\ \A a \in Accounts : a[2] \in {"cash", "reserves"} => a \in OpeningAccounts
  /\ \A a \in EquityAccounts : a = <<a[1], "opening_equity", None>> /\ a[1] \in Entities
  /\ \A e \in Entities : /\ <<e, "opening_equity", None>> \in EquityAccounts
                         /\ <<e, "opening_equity", None>> \in Accounts
<1>1. OpeningAccounts \subseteq Accounts
  BY DEF OpeningAccounts, Accounts, AssetAccounts
<1>2. \A a \in OpeningAccounts : a[2] \in {"cash", "inventory", "reserves"} /\ Opening[a] \in Nat
  BY OpeningAssumption DEF OpeningAccounts
<1>3. \A a \in Accounts : a[2] \in {"cash", "reserves"} => a \in OpeningAccounts
  BY DEF Accounts, AssetAccounts, ContraAccounts, LiabilityAccounts, EquityAccounts,
         IncomeAccounts, ExpenseAccounts, OpeningAccounts
<1>4. \A a \in EquityAccounts : a = <<a[1], "opening_equity", None>> /\ a[1] \in Entities
  BY DEF EquityAccounts
<1>5. \A e \in Entities : <<e, "opening_equity", None>> \in EquityAccounts
  BY DEF EquityAccounts
<1>6. EquityAccounts \subseteq Accounts
  BY DEF Accounts
<1> QED
  BY <1>1, <1>2, <1>3, <1>4, <1>5, <1>6

(* The opening books are balanced by opening equity. *)
LEMMA InitHolds == ASSUME Init PROVE FinanceInv
<1>1. /\ bal = [a \in Accounts |-> IF a \in OpeningAccounts THEN Opening[a]
                                   ELSE IF a \in EquityAccounts THEN -Equity(a[1]) ELSE 0]
      /\ DOMAIN loans = {} /\ flow = [x \in Activities |-> 0] /\ events = 0
  BY DEF Init, Activities
<1>2. \A e : /\ {a \in OpeningAccounts : a[1] = e} \in SUBSET Accounts
             /\ IsFiniteSet({a \in OpeningAccounts : a[1] = e}) /\ Equity(e) \in Int
  <2> TAKE e
  <2> DEFINE O == {a \in OpeningAccounts : a[1] = e}
  <2>1. O \in SUBSET Accounts /\ \A a \in O : Opening[a] \in Int
    BY OpeningPositions
  <2> HIDE DEF O
  <2>2. IsFiniteSet(O) /\ Sum(Opening, O) \in Int
    BY <2>1, Finite, FS_Subset, SumType
  <2> QED
    BY <2>1, <2>2 DEF O, Equity
<1>3. \A e : Equity(e) \in Int /\ -Equity(e) \in Int
  <2>1. \A n \in Int : -n \in Int
    OBVIOUS
  <2> QED
    BY <1>2, <2>1, Zenon
<1>4. /\ \A a \in OpeningAccounts : bal[a] = Opening[a]
      /\ \A a \in EquityAccounts : bal[a] = -Equity(a[1])
      /\ \A a \in Accounts : a \notin OpeningAccounts /\ a \notin EquityAccounts => bal[a] = 0
  <2>1. \A a \in EquityAccounts : a[2] = "opening_equity" /\ a \in Accounts
    BY OpeningPositions DEF Accounts
  <2>2. \A a \in EquityAccounts : a \notin OpeningAccounts
    BY <2>1, OpeningPositions
  <2> QED
    BY <1>1, <2>1, <2>2, OpeningPositions
<1>5. \A a \in Accounts : bal[a] \in Int
  BY <1>4, <1>3, OpeningPositions
<1>6. Typed
  BY <1>1, <1>5 DEF Typed
<1>7. \A a \in Accounts : a[2] \notin {"cash", "inventory", "reserves", "opening_equity"}
                            => bal[a] = 0
  BY <1>4, OpeningPositions
<1>8. Covered
  <2>1. ASSUME NEW a \in Liquid PROVE bal[a] >= 0
    <3>1. a \in Accounts /\ a[2] \in {"cash", "reserves", "bank_deposit"}
      BY DEF Liquid, Named
    <3> QED
      BY <1>4, <1>7, <3>1, OpeningPositions
  <2> QED
    BY <2>1 DEF Covered
<1>9. Books /\ Terms
  <2>1. \A l \in LoanIds : \A b \in Banks : ~ Lends(b, l)
    BY <1>1 DEF Lends
  <2>2. \A l \in LoanIds : \A e \in Enterprises : ~ Borrows(e, l)
    BY <1>1 DEF Borrows
  <2>3. ASSUME NEW l \in LoanIds, NEW b \in Banks
        PROVE  /\ bal[<<b, "loans_receivable", l>>] = 0 /\ bal[<<b, "loan_loss_allowance", l>>] = 0
               /\ bal[<<b, "interest_receivable", l>>] = 0
    BY <1>7, BankAccounts
  <2>4. ASSUME NEW l \in LoanIds, NEW e \in Enterprises
        PROVE  bal[<<e, "loan_payable", l>>] = 0 /\ bal[<<e, "interest_payable", l>>] = 0
    BY <1>7, EnterpriseAccounts
  <2> QED
    BY <1>1, <2>1, <2>2, <2>3, <2>4 DEF Books, Terms
<1>10. ASSUME NEW e \in Entities PROVE EntityReconciles(e)
  <2> DEFINE A == OfEntity[e]
             O == {a \in OpeningAccounts : a[1] = e}
             q == <<e, "opening_equity", None>>
             G == [a \in A |-> IF a \in OpeningAccounts THEN Opening[a] ELSE 0]
             H == [a \in A |-> IF a = q THEN -Equity(e) ELSE 0]
  <2>1. /\ A \in SUBSET Accounts /\ q \in A /\ O \in SUBSET A
        /\ \A a \in A : a \in EquityAccounts <=> a = q
        /\ \A a \in A : a \in OpeningAccounts <=> a \in O
    BY OpeningPositions DEF OfEntity
  <2>2. IsFiniteSet(A) /\ q \notin OpeningAccounts
    BY <2>1, Finite, FS_Subset, OpeningPositions
  <2>3. \A a \in A : G[a] \in Int /\ H[a] \in Int /\ bal[a] = G[a] + H[a]
    <3>1. ASSUME NEW a \in A, a \in OpeningAccounts
          PROVE  G[a] \in Int /\ H[a] \in Int /\ bal[a] = G[a] + H[a]
      BY <1>4, <2>2, <3>1, OpeningPositions
    <3>2. ASSUME NEW a \in A, a = q PROVE G[a] \in Int /\ H[a] \in Int /\ bal[a] = G[a] + H[a]
      <4>1. bal[a] = -Equity(e)
        BY <1>4, <2>1, <3>2
      <4> QED
        BY <1>3, <2>2, <3>2, <4>1
    <3>3. ASSUME NEW a \in A, a \notin OpeningAccounts, a # q
          PROVE  G[a] \in Int /\ H[a] \in Int /\ bal[a] = G[a] + H[a]
      <4>1. bal[a] = 0
        BY <1>4, <2>1, <3>3
      <4> QED
        BY <3>3, <4>1
    <3> HIDE DEF A, G, H, q
    <3> QED
      BY <3>1, <3>2, <3>3
  <2>4. Sum(bal, A) = Sum(G, A) + Sum(H, A)
    <3> HIDE DEF A, G, H
    <3> QED
      BY <2>2, <2>3, SumPlus
  <2>5. Sum(G, A) = Sum(Opening, O)
    <3>1. \A a \in O : G[a] \in Int /\ Opening[a] = G[a]
      BY <2>1, OpeningPositions
    <3>2. \A a \in A \ O : G[a] = 0
      BY <2>1
    <3> HIDE DEF A, G, O
    <3> QED
      BY <2>1, <2>2, <3>1, <3>2, SumWithin
  <2>6. Sum(H, A) = -Equity(e)
    <3>1. \A a \in A : H[a] = IF a = q THEN -Equity(e) ELSE 0
      OBVIOUS
    <3>2. -Equity(e) \in Int
      BY <1>3
    <3> HIDE DEF A, H, q
    <3> QED
      BY <2>1, <2>2, <3>1, <3>2, SumPoint
  <2>7. Equity(e) = Sum(Opening, O) /\ Equity(e) \in Int
    BY <1>2 DEF Equity
  <2>8. Sum(bal, A) = 0
    <3> HIDE DEF A, G, H, O
    <3> QED
      BY <2>4, <2>5, <2>6, <2>7
  <2> QED
    BY <2>8 DEF EntityReconciles, Total
<1>11. ASSUME NEW names \in Eliminated PROVE Total(Named(names)) = 0
  <2>1. Named(names) \in SUBSET Accounts /\ IsFiniteSet(Named(names))
    BY Finite, FS_Subset DEF Named
  <2>2. \A a \in Named(names) : bal[a] = 0
    BY <1>7 DEF Named, Eliminated
  <2> QED
    BY <2>1, <2>2, SumZero DEF Total
<1>12. CashFlowReconciles
  <2>1. SettlementAccounts \in SUBSET Accounts /\ IsFiniteSet(SettlementAccounts)
    BY Finite, FS_Subset DEF SettlementAccounts, Named
  <2>2. \A a \in SettlementAccounts : bal[a] = Opening[a] /\ bal[a] \in Int
    BY <1>4, <1>5, <2>1, OpeningPositions DEF SettlementAccounts, Named
  <2>3. Sum(bal, SettlementAccounts) = Sum(Opening, SettlementAccounts)
        /\ Sum(bal, SettlementAccounts) \in Int
    BY <2>1, <2>2, SumEqual, SumType
  <2>4. \A x \in Activities : flow[x] = 0
    BY <1>1
  <2>5. DOMAIN flow = Activities /\ Sum(flow, Activities) = 0
    BY <1>1, <2>4, Finite, SumZero
  <2> QED
    BY <2>3, <2>5 DEF CashFlowReconciles, SettlementCash
<1>13. ASSUME NEW b \in Banks PROVE Sum(Claims(bal, b), Customers) = -bal[CustomerDeposits(b)]
  <2>1. \A e \in Customers : bal[DepositAt(e, b)] = 0
    BY <1>7, CustomerAccounts DEF DepositAt
  <2>2. \A e \in Customers : Claims(bal, b)[e] = 0
    BY <2>1 DEF Claims
  <2>3. Sum(Claims(bal, b), Customers) = 0
    BY <2>2, Finite, SumZero
  <2>4. bal[CustomerDeposits(b)] = 0
    BY <1>7, BankAccounts DEF CustomerDeposits
  <2>5. \A n, m \in Int : n >= 0 /\ n <= 0 /\ m >= 0 /\ m <= 0 => m = -n
    OBVIOUS
  <2>6. 0 \in Int /\ 0 >= 0 /\ 0 <= 0
    OBVIOUS
  <2> QED
    BY <2>3, <2>4, <2>5, <2>6, Zenon
<1>14. Balanced
  BY <1>10, <1>11, <1>12, <1>13 DEF Balanced, Reports, ConsolidatedStatement
<1> QED
  BY <1>6, <1>8, <1>9, <1>14 DEF FinanceInv
-----------------------------------------------------------------------------
(* Every event keeps the books, and only dealings with the outside change   *)
(* how much cash and reserves there are.                                    *)
LEMMA NextHolds ==
  ASSUME FinanceInv, Next
  PROVE  FinanceInv' /\ (last' \notin External => SettlementCash' = SettlementCash)
<1>1. ASSUME NEW n \in Amounts, NEW e \in Enterprises, NEW via \in Via,
             \/ EnterpriseSale(e, n, via)
             \/ Payroll(e, n, via)
             \/ \E k \in {"inventory", "expense"} : EnterprisePurchase(e, n, via, k)
      PROVE  FinanceInv' /\ last' \in External
  BY <1>1, Outside
<1>2. ASSUME NEW n \in Amounts, NEW t \in Treasuries, NEW via \in Via, TreasuryReceipt(t, n, via)
      PROVE  FinanceInv' /\ last' \in External
  BY <1>2, Outside
<1>3. ASSUME NEW n \in Amounts, NEW e \in Enterprises, NEW via \in Via,
             NEW b \in Enterprises, NEW c \in Enterprises, NEW k \in {"inventory", "expense"},
             NEW transport \in Amounts \cup {0}, EnterpriseTrade(e, b, c, n, transport, via, k)
      PROVE  FinanceInv' /\ SettlementCash' = SettlementCash
  BY <1>3, Trade
<1>4. ASSUME NEW n \in Amounts, NEW e \in Enterprises, NEW via \in Via, NEW t \in Treasuries,
             TaxReceipt(t, e, n, via)
      PROVE  FinanceInv' /\ SettlementCash' = SettlementCash
  BY <1>4, Receipt
<1>5. ASSUME NEW n \in Amounts, NEW e \in Customers, NEW b \in Banks, BankDeposit(b, e, n)
      PROVE  FinanceInv' /\ SettlementCash' = SettlementCash
  BY <1>5, Deposit
<1>6. ASSUME NEW n \in Amounts, NEW l \in LoanIds, NEW b \in Banks, NEW e \in Enterprises,
             NEW rate \in Rates, LoanOrigination(l, b, e, n, rate)
      PROVE  FinanceInv' /\ SettlementCash' = SettlementCash
  BY <1>6, Origination
<1>7. ASSUME NEW n \in Amounts, NEW t \in Treasuries, NEW e \in Enterprises, TaxAssessment(t, e, n)
      PROVE  FinanceInv' /\ SettlementCash' = SettlementCash
  BY <1>7, Assessment
<1>8. ASSUME NEW l \in DOMAIN loans,
             \/ LoanInterestAccrual(l)
             \/ \E n \in Amounts \cup {loans[l].accrued} : LoanInterestPayment(l, n)
             \/ \E n \in Amounts : LoanPrincipalRepayment(l, n)
             \/ \E n \in Amounts \cup {loans[l].outstanding - loans[l].provided} :
                  LoanDefault(l, n)
      PROVE  FinanceInv' /\ SettlementCash' = SettlementCash
  BY <1>8, Accrual, InterestPayment, Repayment, Default
<1> QED
  BY <1>1, <1>2, <1>3, <1>4, <1>5, <1>6, <1>7, <1>8 DEF Next

LEMMA StutterHolds == ASSUME FinanceInv, UNCHANGED vars
                      PROVE  FinanceInv' /\ SettlementCash' = SettlementCash
<1>1. bal' = bal /\ loans' = loans /\ flow' = flow /\ events' = events
  BY DEF vars
<1>2. Balanced'
  BY <1>1 DEF FinanceInv, Balanced, Reports, ConsolidatedStatement, CashFlowReconciles,
              EntityReconciles, Total, SettlementCash
<1> QED
  BY <1>1, <1>2 DEF FinanceInv, Typed, Covered, Books, Lends, Borrows, Terms, SettlementCash

(* The invariant: balances are numbers, the reports agree and so do the     *)
(* deposits of each bank, no liquid account is overdrawn, every account of  *)
(* a loan holds what the loan's record says, and a loan's terms are kept.   *)
THEOREM FinanceInvariant == Spec => []FinanceInv
<1>1. FinanceInv /\ [Next]_vars => FinanceInv'
  BY NextHolds, StutterHolds
<1> QED
  BY <1>1, InitHolds, PTL DEF Spec

(* However many events of whatever kinds a month books, over any entities,  *)
(* banks and loans, none of the checks _result makes at the end of the      *)
(* month can fail: a month whose events are accepted can be reported.       *)
THEOREM MonthCanBeReported == Spec => []ReportsReconcile
<1>1. FinanceInv => ReportsReconcile
  BY DEF FinanceInv, Balanced, ReportsReconcile
<1> QED
  BY <1>1, FinanceInvariant, PTL

(* At every bank the deposits its customers book are exactly what the bank  *)
(* owes, and no cash, deposit or reserve account is ever overdrawn.         *)
THEOREM DepositsBacked == Spec => []ClaimsBacked
<1>1. FinanceInv => ClaimsBacked
  <2> SUFFICES ASSUME FinanceInv PROVE ClaimsBacked
    OBVIOUS
  <2>1. ASSUME NEW b \in Banks
        PROVE  Sum([e \in Customers |-> bal[DepositAt(e, b)]], Customers)
                 = -bal[CustomerDeposits(b)]
    BY DEF FinanceInv, Balanced, Claims
  <2>2. \A a \in Customers \X {"bank_deposit"} \X Banks : a \in Liquid
    BY DEF Liquid, Named, Accounts, AssetAccounts
  <2>3. \A a \in SettlementAccounts : a \in Liquid
    BY DEF Liquid, Named, SettlementAccounts
  <2> QED
    BY <2>1, <2>2, <2>3 DEF ClaimsBacked, FinanceInv, Covered
<1> QED
  BY <1>1, FinanceInvariant, PTL

(* However repayments, recoveries, provisions and interest are ordered, a   *)
(* loan's record agrees with both sides' books, and no more is ever         *)
(* provided for than is still owed.                                         *)
THEOREM LoansAgree == Spec => []LoanBounded
<1>1. FinanceInv => LoanBounded
  BY LoanFacts DEF LoanBounded, Receivable, Payable
<1> QED
  BY <1>1, FinanceInvariant, PTL

(* Trades, deposits, loans and taxes move cash and reserves but neither     *)
(* make nor destroy any: only dealings with the outside change their sum.   *)
THEOREM CashIsConserved == Spec => NoInventedCash
<1>1. FinanceInv /\ [Next]_vars => [last' \notin External => SettlementCash' = SettlementCash]_vars
  BY NextHolds
<1> QED
  BY <1>1, FinanceInvariant, PTL DEF Spec, NoInventedCash
=============================================================================
