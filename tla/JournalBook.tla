---------------------------- MODULE JournalBook -----------------------------
(***************************************************************************)
(* finance.py: the journal book, which posts finance events accepted by    *)
(* the EventStore and exports them as ledger text, while corrections keep  *)
(* arriving in the same store.                                             *)
(*                                                                         *)
(* A JournalEvent is its source envelope, a book date the caller chooses   *)
(* and the postings the caller built; entity, payee and narration are      *)
(* compared with the source payload exactly as the postings are, and stand *)
(* under "postings" here.  Amounts are integers: addition of the journal's *)
(* 40-digit decimals is exact for the amounts the chart can hold.          *)
(***************************************************************************)
EXTENDS EventStore, Integers

CONSTANTS CurrentModel,  \* CURRENT_MODEL_VERSION
          Currencies,
          Dates,         \* book dates, in order
          Chart,         \* account |-> its AccountOpen contract
          Never          \* closed_on of an account that is never closed

VARIABLES book,          \* journal events posted so far
          exported       \* identities rendered as ledger text

bookVars == <<events, reversed, book, exported>>

ASSUME ModelAssumption == CurrentModel \in Models

\* The four source-event types and the accounts each one touches.  A body
\* carries the phase, the amount (or principal), the interest and the currency.
FinanceTypes == {"bank_deposit", "loan_credit", "loan_repayment", "treasury_borrowing"}

Posting(account, amount, currency) ==
  [account |-> account, amount |-> amount, currency |-> currency]

NCFAccounts == {"Reserves", "Loans", "Deposits", "Interest"}
TreasuryAccounts == {"Cash", "Debt"}

\* Deposits, loans and borrowing need a positive amount; a repayment needs
\* two non-negative parts that are not both zero.
AmountsAllowed(e) ==
  IF e.type = "loan_repayment"
  THEN e.body.amount >= 0 /\ e.body.interest >= 0 /\ e.body.amount + e.body.interest > 0
  ELSE e.body.amount > 0

ExpectedPostings(e) ==
  LET P(account, amount) == Posting(account, amount, e.body.currency)
  IN CASE e.type = "bank_deposit" ->
            {P("Reserves", e.body.amount), P("Deposits", -e.body.amount)}
       [] e.type = "loan_credit" ->
            {P("Loans", e.body.amount), P("Deposits", -e.body.amount)}
       [] e.type = "loan_repayment" ->
            {P("Deposits", e.body.amount + e.body.interest),
             P("Loans", -e.body.amount), P("Interest", -e.body.interest)}
       [] OTHER ->
            {P("Cash", e.body.amount), P("Debt", -e.body.amount)}

OpenOn(p, date) ==
  LET a == Chart[p.account]
  IN /\ p.account \in DOMAIN Chart
     /\ a.opened <= date
     /\ a.closed # Never => date < a.closed
     /\ p.currency \in a.currencies

\* Mutant: events of any model version are posted.
ValidAnyModel(j) ==
  /\ MayMutateActual(j.source)
  /\ j.source.body.phase = "finance"
  /\ j.source.type \in FinanceTypes
  /\ \A p \in j.postings : OpenOn(p, j.date)
  /\ AmountsAllowed(j.source)
  /\ j.postings = ExpectedPostings(j.source)

\* JournalEvent.validate: everything it checks before a posting is accepted.
Valid(j) ==
  /\ MayMutateActual(j.source)
  /\ j.source.body.phase = "finance"
  /\ j.source.model = CurrentModel
  /\ j.source.type \in FinanceTypes
  /\ \A p \in j.postings : OpenOn(p, j.date)
  /\ AmountsAllowed(j.source)
  /\ j.postings = ExpectedPostings(j.source)

AllSourcesActive == \A j \in book : ContainsActive(j.source)

JInit == StoreInit /\ book = {} /\ exported = {}

Accept(e) == AppendEvent(e) /\ UNCHANGED <<book, exported>>

\* Mutant: only the new entry's own source is looked up.
PostUnfrozen(j) ==
  /\ ContainsActive(j.source)
  /\ Valid(j)
  /\ \A k \in book : Id(k.source) # Id(j.source)
  /\ book' = book \cup {j}
  /\ UNCHANGED <<events, reversed, exported>>

Post(j) ==
  /\ AllSourcesActive
  /\ ContainsActive(j.source)
  /\ Valid(j)
  /\ \A k \in book : Id(k.source) # Id(j.source)
  /\ book' = book \cup {j}
  /\ UNCHANGED <<events, reversed, exported>>

Render(j) ==
  /\ AllSourcesActive
  /\ Valid(j)
  /\ exported' = exported \cup {Id(j.source)}
  /\ UNCHANGED <<events, reversed, book>>

\* What a caller may hand to post(): an envelope of the store, any book date,
\* and postings that were built for this payload or for another one.
Submissions ==
  [source : events, date : Dates,
   postings : {ExpectedPostings(f) : f \in {g \in events : g.type \in FinanceTypes}}]

JNext ==
  \/ \E e \in Offered : Accept(e)
  \/ \E j \in Submissions : Post(j)
  \/ \E j \in book : Render(j)

JSpec == JInit /\ [][JNext]_bookVars
-----------------------------------------------------------------------------
(* The book never holds two entries for one source event of the campaign,  *)
(* neither a duplicate nor an original beside its correction, in whatever  *)
(* order appends and posts interleave.                                     *)
OneEntryPerSource ==
  \A i, j \in book : i.source.key = j.source.key => i = j

(* Once the source of any posted entry has been corrected the book is      *)
(* frozen for good: nothing is posted, nothing is exported and no later    *)
(* append thaws it.                                                        *)
CorrectionFreezesBook ==
  [][~ AllSourcesActive =>
       UNCHANGED <<book, exported>> /\ ~ AllSourcesActive']_bookVars
=============================================================================
