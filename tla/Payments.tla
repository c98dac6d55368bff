------------------------------ MODULE Payments ------------------------------
(***************************************************************************)
(* whole_economy.py: how money moves.  An entity holds cash and, if it has *)
(* a bank, a deposit there; a bank owes its deposits and holds reserves.   *)
(* Whoever pays hands over cash first; a deposit moves within its bank on  *)
(* paper and leaves it only as far as the bank's reserves go.              *)
(*                                                                         *)
(* Money is a record of four functions: cash and deposit of the entities,  *)
(* reserves and liability of the banks.                                    *)
(***************************************************************************)
EXTENDS SequencesExt, FiniteSets, FixedPoint, Sums

CONSTANTS Names,        \* the entities, in the order of their identifiers
          Banks,        \* those of them that are banks
          BankOf,       \* the bank an entity has its deposit with, or None
          None,
          Cent          \* units per cent

Entities == {Names[i] : i \in DOMAIN Names}

ASSUME PaymentsAssumption ==
  /\ Banks \subseteq Entities /\ None \notin Entities
  /\ BankOf \in [Entities -> Banks \cup {None}]
  /\ Cent \in Nat \ {0}

Cents(n) == Rounded(n, 1, Cent)

Funds(m, e) == m.cash[e] + m.deposit[e]
Customers(b) == {e \in Entities : BankOf[e] = b}
DepositsAt(m, b) == Sum(m.deposit, Customers(b))
-----------------------------------------------------------------------------
\* What e hands over in cash, and what it draws on its deposit, when n is to
\* go to somebody whose bank is `bank`.
InCash(m, e, n) == Lesser(m.cash[e], n)
FromDeposit(m, e, bank, n) ==
  LET rest == Lesser(n, Funds(m, e)) - InCash(m, e, n)
  IN IF rest = 0 \/ BankOf[e] = bank THEN rest ELSE Lesser(rest, m.reserves[BankOf[e]])

\* What arrives of n at `bank`; nothing there is owed to anybody yet.
Arriving(m, e, bank, n) == InCash(m, e, n) + FromDeposit(m, e, bank, n)
\* Mutant: who pays keeps the cash as well.
MovedKeepingCash(m, e, bank, cash, drawn) ==
  LET Reserve(b) == At(b, bank, cash)
                    + (IF BankOf[e] = bank THEN 0
                       ELSE At(b, bank, drawn) - At(b, BankOf[e], drawn))
  IN [cash |-> m.cash,
      deposit |-> [m.deposit EXCEPT ![e] = @ - drawn],
      reserves |-> [b \in Banks |-> m.reserves[b] + Reserve(b)],
      liability |-> [b \in Banks |-> m.liability[b] - At(b, BankOf[e], drawn)]]
Moved(m, e, bank, cash, drawn) ==
  LET Reserve(b) == At(b, bank, cash)
                    + (IF BankOf[e] = bank THEN 0
                       ELSE At(b, bank, drawn) - At(b, BankOf[e], drawn))
  IN [cash |-> [m.cash EXCEPT ![e] = @ - cash],
      deposit |-> [m.deposit EXCEPT ![e] = @ - drawn],
      reserves |-> [b \in Banks |-> m.reserves[b] + Reserve(b)],
      liability |-> [b \in Banks |-> m.liability[b] - At(b, BankOf[e], drawn)]]
PaidIn(m, e, bank, n) == Moved(m, e, bank, InCash(m, e, n), FromDeposit(m, e, bank, n))

\* _Month.transfer: what is paid of n, and the money afterwards.
Transferred(m, payer, payee, n) ==
  IF payer = payee THEN Larger(0, n) ELSE IF n <= 0 THEN 0 ELSE Arriving(m, payer, BankOf[payee], n)
Credited(m, payee, paid) ==
  IF BankOf[payee] = None THEN [m EXCEPT !.cash[payee] = @ + paid]
  ELSE [m EXCEPT !.deposit[payee] = @ + paid, !.liability[BankOf[payee]] = @ + paid]
Transfer(m, payer, payee, n) ==
  IF payer = payee \/ n <= 0 THEN m
  ELSE Credited(PaidIn(m, payer, BankOf[payee], n), payee, Transferred(m, payer, payee, n))
-----------------------------------------------------------------------------
\* A bundle is a sequence of dues; whoever owes one to itself owes nothing.
Due(to, amount) == [to |-> to, amount |-> amount]
Amounts(dues) == [i \in DOMAIN dues |-> dues[i].amount]
TotalDue(payer, dues) == Sum(Amounts(dues), {i \in DOMAIN dues : dues[i].to # payer})
DueOutside(payer, dues) ==
  Sum(Amounts(dues), {i \in DOMAIN dues : dues[i].to # payer
                                           /\ BankOf[dues[i].to] # BankOf[payer]})

\* _bundle_is_payable
Payable(m, payer, dues) ==
  /\ Funds(m, payer) >= TotalDue(payer, dues)
  /\ IF BankOf[payer] = None THEN m.cash[payer] >= TotalDue(payer, dues)
     ELSE DueOutside(payer, dues)
            <= m.cash[payer] + Lesser(m.deposit[payer], m.reserves[BankOf[payer]])

\* _settle_bundle: dues that leave the payer's bank come first.  (In full, they
\* come to the same in whatever order the dues within and without are taken.)
\* full is lost when a transfer falls short of its due.
Pay(acc, payer, to, amount) ==
  [money |-> Transfer(acc.money, payer, to, amount),
   full |-> acc.full /\ Transferred(acc.money, payer, to, amount) = amount]
PayIf(paying, acc, payer, d) == IF paying THEN Pay(acc, payer, d.to, d.amount) ELSE acc
PaidOff(m, payer, dues) ==
  LET Inside(d) == BankOf[d.to] = BankOf[payer]
      First(acc, d) == PayIf(~Inside(d), acc, payer, d)
      Then(acc, d) == PayIf(Inside(d), acc, payer, d)
  IN FoldLeft(Then, FoldLeft(First, [money |-> m, full |-> TRUE], dues), dues)
=============================================================================
