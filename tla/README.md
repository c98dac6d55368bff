# Verification of the Baen economy engine

This directory models the core and the economies of `src/baen_economy` (a Python engine for the
material and financial economy of a role-playing campaign) in TLA+, checks it
with TLC on small instances and proves the parts that everything else rests on
with TLAPS for every value of the constants.

Paths below are relative to the repository.  `PROJECT.json` lists, for every
definition, the source lines it stands for; the hazards that the properties are
aimed at; and, for every property, a plausible bug in a definition that makes
the property fail (the operators marked "Mutant").

## The system

| part | state | operations | hard behaviour |
|---|---|---|---|
| event store (`events.py`) | accepted envelopes, reversed identities | `append` | chains of corrections across model versions, with colliding identities |
| journal book (`finance.py`) | posted journal events; reads the event store | `post`, `render` | corrections that arrive between posts |
| stock-flow engine (`stockflow.py`) | snapshot: stock, reserve, prices, goods under way, used shipment and event identities | `initial_snapshot`, `advance` | orders competing for stock, labour and capacity; finite-precision quotients; closing checks; the authority of events |
| domain (`domain.py`) | - | assignments of entities to a simulation mode | one mode per entity and month |
| campaign store and operator (`operator_store.py`, `operator.py`, `operator_dice.py`, `scenarios.py`) | one SQLite file: campaign row, snapshots, months, dice, artifacts | `init`, `status`, `run-month`, dry run, `report`, `verify` | several processes, crashes, failed commits, random dice, reads that are not one transaction |
| food operations store and server (`food_ops_*.py`) | SQLite file of scenarios; a thread for every connection, the set of active requests | start, save, load, list, verify, close | racing first saves, lost answers and retries, several servers on one file, closing while handlers run |
| business store and months (`business_*.py`) | SQLite file of registry receipts, source rows and runs | `init`, `registry-import`, `run-month`, `verify` | receipts that share rows or a capture time, racing months, reads that are not one transaction |
| regional month (`regional_engine.py`, `_rolls`, `_production`, `_transport`, `_market`, `_finance`, `_scenario`) | one month's lots, labour, trades, accounts | the month's phases, in order | sites competing for stock and routes; exports planned on one run of the market and resolved on another; books of several entities that must consolidate |
| regional catalog (`regional_cli.py`) | a SQLite file and JSON artifacts beside it | `init`, `simulate`, its dry run, `report` | rows and files that are not one transaction; cleaning up after a failure while others work |
| whole economy (`whole_economy.py`) | money, deposits, reserves, stocks, shipments, loans and pledges, prices, labour, people | `run_month` | bundles of payments through banks, pledges of a stock that moves, rounding, closing checks |
| whole-economy workspace (`whole_economy_cli.py`) | a directory per month, metadata | `init`, `run-month`, its dry run, `report`, `verify`, `boot` | racing renames, failures and deaths with a staging directory |
| pending operations (`whole_economy.py`, `boot`) | campaign events | matching gates against played events | events in any order, not canon or only planned; a different file, or none, at every boot |
| food sector, security, production (`food_*.py`) | - | pure calculations | rounding, dice from seeds |
| agriculture (`agriculture_*.py`) | stock per place and commodity over periods | pure simulation | carry-over between periods, capacity |
| source census (`census_acquisition.py`, `source_census*.py`, `tools/materialize_live_census.py`) | numbered receipts of bounded reads, evidence of the enumeration | acquire a collection, assemble a census, compare two | a collection that others edit between two reads, attempts that end early, files of several attempts |
| registry (`registry*.py`, `notion_read.py`) | - | compare rows, export | contradictions between rows |
| interfaces (`*_cli.py`, `http_api.py`, `js/`) | - | parsing and printing | - |

How they interact.  Envelopes are appended to an `EventStore` by callers.  The
journal book and the stock-flow engine never append; they ask the store, at each
call, whether the envelopes they were given are active and authoritative, so a
correction appended between two of their calls changes what they may do.  The
operator commands drive the stock-flow engine on a preview timeline, where no
events are needed, and persist its snapshots in the campaign store.  The regional
engine composes its own production, market and finance modules on one stock, and
`regional_cli.py` keeps the months in a catalog.  The whole economy is an engine of
its own; `whole_economy_cli.py` keeps its months in a directory, and replays all
of them whenever a command opens it.  The
census reads live pages through an external connector and files what it read, for a
census that is made later.  The stores share nothing; each has its own life cycle.

What makes each part correct: the event store keeps one active envelope per
chain and never revives a corrected one; the book never counts a source event
twice and stops when one it holds is corrected; a month of the engine never
uses what is not there, serves ranks in order, conserves goods, and either seals
a sound snapshot or leaves nothing; an actual snapshot rests on events that were
each spent once; the campaign store is an append-only chain of months on which
all processes agree; the preview stores never tell a caller of anything but what
they keep for good, and a server that has closed no longer writes.  A regional
month conserves goods, harms no local need for an export, and moves money only
with goods; its books consolidate.  A month of the whole economy conserves goods,
coins and pledges, its banks reconcile, and it does not get stuck.  The workspaces
show a complete history of one input, open unless a process died in them, and
keep what they reported.  A census that counts as complete has every page that was
there all the time.

## Modules

**`EventStore`** - `events.py`.  `events` and `reversed` are the store's
dictionaries and its set of reversed identities; `AppendEvent` is `append`,
its checks in `NewIdentity`, `NewRevision` and `Corrects`.  An envelope is a record;
its identity is the tuple the code hashes, so two envelopes may share an
identity and differ otherwise, as in the code.  Whether temporal state,
resolution and authority suffice is one field, `standing`.

**`JournalBook`** (extends `EventStore`) - `finance.py`.  `Post` and `Render` are
the methods with all their checks (`Valid` is `JournalEvent.validate`, `OpenOn`
the account contract, `ExpectedPostings` the four translations); `Accept` is an
append to the store under the book.

**`StockFlow`** - `_advance` of `stockflow.py`, one step per order: `Begin` (plan
checks and arrivals), `Produce`, `Dispatch`, `Consume`, then `Seal` or `Discard`.
A quantity is a whole number of `1/Scale` units and `Times` and `Over` round
half-even, as the engine's 40-digit decimals do on a far finer scale.  All the
errors about the plan itself are guards of `Begin`: a run that raises leaves
nothing behind, whenever it raises.  Orders of equal rank are sorted by their
identifiers in the code and may go in any order here.  Decimals have exponents, so
a price that is multiplied never becomes nothing, and on a fixed scale it stays at one
unit (`PriceAfterNeed`).

**`ActualTimeline`** (extends `EventStore`) - the authority that
`initial_snapshot` and `advance` demand on the actual timeline
(`_validate_actual_opening_payload`, `_validate_actual_plan`), while corrections
are appended.  `advance` is a pure function, so any sealed snapshot may be
advanced, twice or after a correction; `snapshots` holds all that were sealed.

**`CampaignHistory`** - what the campaign store promises: months are appended and
never change, and callers are told what is in the history.

**`CampaignStore`** - `operator_store.py` and `operator.py`.  Each step of a
process is one SQL statement or transaction boundary.  A snapshot's hash is
determined by its parent and the plan, and the plan by the month and the dice,
so a state is the sequence of the dice manifests of its months.  `Settle` is the
answer to a month that is already there, `Check` the checks inside the
transaction, `Commit` the rows that become visible together.  `History` is the
refinement mapping to `CampaignHistory`.

**`ArtifactLog`** - what both preview stores promise: a bundle is recorded under
its key once, and whoever is told of one is told the one that is recorded.

**`FoodOpsServer`** - `food_ops_server.py` and `food_ops_store.py`.  `phase` is how
far each server is: looking for the file, creating it, running, or closing
(`Stop`, `Cut`, `Drained` are the three parts of `close`).  `thread` is what the
handler of each connection does, one step for each SQL statement, transaction
boundary or use of the socket: `Receive` a save or `Load`, `Lookup` the stored
scenario, `Compute` the preview, `Begin`, `Check`, `Commit`, `Answer`, `End`.  A
plan is the kind and the request as stored, where a fingerprint replaces the seed.
`active` and `cut` are the open requests and those whose socket `close` has shut.

**`BusinessStore`** - `business_store.py` and `business_cli.py`, at the same grain.
A month's artifacts are functions of its receipt, entity, label and options,
so a run is these four.  `Insert` writes rows, snapshot and receipt, `Commit`
artifacts and run, which become visible together.

**`FixedPoint`** - decimals of finite precision as whole numbers of `1/Scale`:
`Times` and `Over` round half-even.  The engines extend it.

**`RegionalProduction`**, **`RegionalMarket`**, **`RegionalMonth`** (each extends the
one before) - a month of the region.  `RollMonth` and `Produce` are the dice and
the kernel's settlement of stock and labour, one recipe a step; `RegionalMarket`
has storage loss, handling within the month, offers, admission, the plan of
exports against a diagnostic run and the resolving run; `RegionalMonth` adds the
engine's own steps and turns pay and delivered trades into events, which an
instance of **`RegionalFinance`** books.  A demand met on the spot is one step for
each seller that is asked (`SellLocally`), and the books take one event a step
(`BookPayroll`, `BookDelivered`, `BookPreview`).  **`RegionalScenario`** says, as an assumption
on the constants, which scenarios are accepted.

**`RegionalFinance`** - `regional_finance.py`: opening positions, one action for each
kind of event (a handler with its checks and postings), the statements and their
consolidation.  An account is an entity, a name and a counterparty; an event adds a
number to each account it names, and a line of a report is a sum over accounts.

**`Sums`** - sums over finite sets, as the reports form them.

**`Payments`**, **`WholeMarket`**, **`WholeEconomy`** (each extends the one before) -
`whole_economy.py`.  `Payments` is how cash, deposits and reserves move and how a
bundle of dues is paid, those to other banks first; `WholeMarket` how one want is
met, from own stock, on the spot and by import, route by route and seller by seller;
`WholeEconomy` the month as a `Script` of phases, each step
one shipment, request, recipe, want, tenure, loan or link, up to the closing
checks.  An error the code raises sets `failed`: the month leaves nothing, and the
next attempt runs on the same state.
**`WholeScenario`** is `validate_scenario` and the check of the opening state, as
an assumption on the constants: every reference is to something known, rates are
rates, a deposit has a bank that owes it, pledges are covered, and what is due for a
shipment is due in whole cents, to which the code rounds it.  `ExactInputs` and
`InWholeCents` are what it does not ask for; only theorems that say so use them.

**`MonthWorkspace`** - `whole_economy_cli.py`: the directory of months.  Each step
is one write, check or rename of a command; a process may die, a write may fail.
Opening the workspace, which reads and replays all of it, is one step.

**`MonthCatalog`** - `regional_cli.py`: the catalog and its artifacts, at the
same grain, with the unlinking after a failed `init` and the undoing of rows after
a failed write.

**`PendingOperations`** - the gates of `whole_economy.py` and `boot`: `Record` is
what the campaign writes; `Boot` is given any of the recorded events, as in an earlier
file, another one or none at all (`--played-context` is optional), and shows what they
open, with its evidence; `BootRefused` is the error for a file that gives one identity to
two events.  No boot knows of an earlier one: one without a file hides what another
has shown, as `boot`'s help says it should.  `boots` keeps what every boot was given and
showed so that a property can compare two of them; no action reads it.

**`CensusAcquisition`** - both acquirers, `DirectNotionAcquisition` (by counts) and
`LiveNotionCensusAcquirer` (by ordered membership), which differ in when they stop
and how they close.  `Edit` is what others do to the collection, `ReadPage` one query
and the filing of its receipt, `Abandon` a refusal or a death; the next attempt
overwrites the files one by one.  `Made` and `Complete` are the checks under which a
census is made and counts as complete, from whatever files there are; `Removed` is
what a diff then reports.  A URL is its rank in the order of the cursor.

**`Workspaces`** - holds the last four side by side for one run.  They share no state;
the first state says which of them a behaviour is about.

`MC*` modules give the constants their small values; `*Proofs` modules hold the
theorems.

## Runs

| run | question | bounds | states |
|---|---|---|---|
| `journal` | do chains keep one active tip and stay corrected; is a source event ever entered twice, does a correction freeze the book? | two keys, an old and the current model, two types that compete for identities, two revisions, authoritative and provisional, two book dates, an account that closes | 16,836 |
| `stock_month` | do competing orders keep to stock, labour, capacity, rank and schedule? | two sites, two goods, two recipes, a fast and a slow route, three months, openings with reserved stock and with a lot under way, `Scale` 2, divisors that divide (`ExactRecipes`) | 120,070 |
| `actual_timeline` | is every change of stock authorised once, and does a correction end a history? | two keys, three types, two dates, two orders a plan, three snapshots | 5,027 |
| `campaign_store` | do racing, crashing processes agree on one chain, and does every command end? | two processes, both months of the scenario, one seed, two faces | 141,176 |
| `food_servers` | is what clients are told stored, does a retry never conflict with its first try, does no server serve a half-made file? | two servers, a connection each, one identity, two plans, and supplied results that do not fit | 1,620,000 (about) |
| `food_close` | does `close` end, and does nothing run after it? | one server, two connections, one plan | 77,384 |
| `business_store` | are provenance and runs complete, unique and final? | two processes, three receipts (two of the same rows, two of the same capture), one month, two options | 8,976 |
| `regional_finance` | do the books of several entities consolidate after any sequence of events, one of them a default? | two businesses and two banks with equal means, a treasury, one loan, two amounts, four events | 263,902 |
| `regional_month` | does a month conserve goods, keep local needs before exports, sell nothing twice and pay for what arrives? | three sites, two goods, two routes within the month and two that take one, three demands; 12 worlds from the dice on, 36 from the market on with two sellers at one place | 3,775 |
| `whole_economy` | do money, goods and pledges reconcile through months of shocks, defaults and migration, and where can a month fail? | two places, five payers and a crown, two banks, three routes, two requests and an old loan, four shocks; 288 openings, three months | 71,793 |
| `whole_stuck` | (violation) does every month complete? | the same instance | - |
| `workspaces` | do the directory and the catalog survive races, failures and deaths; is an operation shown only on played evidence, and never hidden by further events; does a complete census have every lasting page? | two processes, two inputs, two months, two database files; two gates that share an occurrence, three events recorded of three identities, any of them given to a boot; three pages, read one or two at a time, two attempts | 1,110,637 |

Why the bounds are enough.  A chain of two revisions per key has an original and a
correction, and the types and models make identities collide; longer chains,
and preview timelines, are covered by `RecordsProofs` for every length.
The book needs two keys, for a correction of the one
must stop the posting of the other.  A month has at most two orders in conflict at any
check of the engine; three months let a lot be sent, be under way and arrive
while its identity is used again.  The scenario defines exactly two months
(`scenarios.py:153`), and every race in the stores is between two processes, the
one in the transaction and the one outside it.  Scenarios of different identities
never meet in the food store (the primary key is all that its checks look at),
and a conflict needs two plans; months of different periods do not meet in the
business store, and a receipt can clash with another in its hash, its rows or its
capture time, which the three receipts do pairwise.

Four events hold a loan's whole life: it is granted, provided for, repaid or
written off, with one event of another kind between any two.  The regional engine
resolves one month; its worlds put each lot on either side of what recipes, routes
and demands need, and a lot whose size is unknown.  The openings of the whole
economy put each payer above and below what it owes, each bank above and below
what it must hand out, and stock above and below what is wanted and pledged;
in three months a loan of two months is granted, serviced, missed and seized or
repaid, and a shipment arrives in a later month.  Amounts are small beside
`Scale` 4, so quotients are rounded often, as in the code they are rarely: what
rounding can break shows.  A month number past two adds nothing to the
workspaces, where a command looks at the last month and the one it makes.  Three
pages of a collection let one be deleted, one be added and one last; two attempts
with different page sizes leave files that do not belong together.

Deadlock is not checked: stores may fill up to the bounds, months run out, a
month that a step refuses ends there, and a
campaign file left by a dead `init` stops everything.

Fairness.  `campaign_store` assumes weak fairness of each process's own steps:
a command is straight-line code that the operating system keeps running until it
ends or dies.  Nothing is assumed about when a command starts or a process dies.
Waiting for the lock ends because SQLite's busy timeout does (`Busy`).
`food_close` assumes it of every handler thread, whose waits end as well: a socket
by its timeout (`get_request`), the lock by the busy timeout, and a preview because
it is a calculation; and of the parts of `close`, which, when it times out, raises
and is called again.  Nothing is assumed of the clients.

## What the checks found

- **A month of the whole economy that can never complete** (`whole_stuck`).  The
  guide says that `run-month` "commits exactly one next month"
  (`docs/WHOLE_ECONOMY_GUIDE.md:13`).  Batches are limited by the employer's funds
  (`whole_economy.py:1522`), of which deposits are a part, but a deposit leaves its
  bank only as far as the bank's reserves go: where they are short, paying the wages
  raises, and as nothing was stored, so does every later attempt.  The same
  happens where batches limited by unrounded wages, or by rounded quotients of
  stock and labour, are then paid and taken in rounded parts.  `OnlyProductionFails`
  shows that no other phase fails a month, and `BanksReconcile`, `GoodsConserved`
  and `CoinsConserved` that what is stored is sound.  All of these are proved, the
  first of them under the hypotheses given there.

Noticed while modelling, where no run is kept:

- `stockflow.py:760` divides stock by input per batch and rounds half-even;
  multiplied back, the batches can need more than there is (on the scale of
  forty digits), and the month ends at an assertion.  A recipe that lists an input
  twice is bounded by each entry separately, and overdraws the same way.
  `stock_month` takes neither, and `NothingOverdrawn` shows that these two are the
  only ways to overdraw.  The whole economy divides likewise
  (`whole_economy.py:1458`); its inputs cannot be listed twice, and
  `InputsAlwaysThere` shows that rounding is the only way there.
- A loan whose amounts are not whole cents, as a scenario may have it, can be paid
  more than it owes, because what is due is rounded to cents (`whole_economy.py:2301`);
  the exposure is then negative, and the month raises.  `OnlyProductionEverFails`
  shows that this needs such an amount.
- The campaign store's `verify` (`operator_store.py:645`) reads the campaign row
  and the histories in separate transactions; a commit in between makes it raise.
- The business `run-month` takes the newest receipt when none is named
  (`business_cli.py:221`), and a month is compared only with those under the
  same receipt, while `docs/OPERATOR_GUIDE.md:246` promises a no-op or a conflict.
- The regional `--commit` says "atomically" (`regional_cli.py:165`); rows are
  committed before artifacts are written (`:472`) and a death in between leaves
  the rows without files.  The loser of two concurrent `init` unlinks the winner's
  database (`:346`).  `CatalogSound` says what does hold.
- A process that dies, or fails and cannot clean up, leaves a staging directory
  (`whole_economy_cli.py:423`), and every later command refuses the workspace.
  `OpensUnlessDeath` says that nothing else does this for good.
- `AcquisitionError` promises to "never silently skip a source"
  (`census_acquisition.py:29`).  A page added behind the cursor is skipped, and when
  one already read is deleted as well, the counts agree and the census counts as
  complete (`:208`).  `LastingPagesKept` says what does hold: no page that was
  there all the time is skipped.

## Proofs

TLAPS proves the following for every number of keys, models, types, ordinals,
bodies, timelines, revisions, processes, servers, receipts, months, operations, pages,
page sizes, enterprises, banks, treasuries, loans, amounts, rates, sites, goods,
recipes, routes, plans, demands, wages, dice, shocks, scenarios and openings.  Three
theorems of `StockFlowProofs` and three of `WholeEconomyProofs` have hypotheses of
their own, given there.  The only other
assumptions are those the modules make of their constants:
typing (`MaxRevAssumption`, `TimelinesAssumption`, `ModelAssumption` of the book and of
the stock-flow month, `ActualAssumption`, `PeriodAssumption`, `SeedAssumption`,
`HomeAssumption`, `ExportAssumption`, `OperationAssumption`, `CensusAssumption`,
`ScaleAssumption`, `OpeningAssumption`, `ProductionAssumption`, `MarketAssumption`,
`WholeAssumption`, `PaymentsAssumption`),
what the checks of a scenario accept (`ScenarioAssumption` of `RegionalScenario`,
and that of `WholeScenario`), that markers such as
"no process" are not themselves processes or results (`ProcAssumption`,
`ResultAssumption`, `MarkAssumption`, `InputAssumption`), and that there are finitely
many entities, each of one type, as `register` sees to (`FinanceAssumption`,
`regional_finance.py:150`), and finitely many sites, orders and lots (`ModelAssumption`
of the stock-flow month), as tuples hold.  The runs evaluate them all.

`RecordsProofs`, the event store.  `OnlyTipActive` is not inductive: from an arbitrary typed
state an append could reverse an identity that two envelopes share, or one whose
chain has a gap.  `IInv` adds that identities and revision slots are unique
(`UniqueIds`, `UniqueSlots`), that each correction names its predecessor and has
its authority (`Linked`), that chains have no gaps (`NoGaps`), and that the
reversed identities are exactly those named (`ReversedByLink`).  `AppendIInv`
shows that an append keeps it, by the two cases of the revision.  `TypeCorrect`,
`TipActive`, `OneUsable`, `ReversalAuthorised` and `Final` follow.

The book, in the same module.  `BookKeepsStore`: the steps of the book leave the store
alone or are appends, so `IInv` carries over.  `BookInv` adds that every entry's
source is in the store, valid, and alone in its identity.  `OneEntry` follows
because an entry is an original of the actual timeline under the current model,
hence in one slot; `Freezes` because nothing is ever un-reversed.

The actual timeline, in the same module.  By `TimelineKeepsStore` it keeps `IInv`
too, and `ActualInv` says of every snapshot that
its events are originals in the store (`Founded`) and that its orders and events
pair off (`Executed`).  `OneEvent`, `SpentOnce` and `HistoryEnds` follow.

`CampaignStoreProofs`.  The chain of months is read in one transaction and extended
in another.  `StoreInv` says what a process between the two has in hand: a parent
that is in the file, dice that were rolled for the seed, and a month that follows that
parent.  `AlwaysAChain` and `AlwaysReproduced` follow, and `Implements`: each step
extends the history that `CampaignHistory` promises, or leaves it.

`FoodOpsServerProofs`.  `ServerInv` relates the file, the handlers and the server that
is closing: a scenario is saved with the one result of its plan, whoever was told
something was told what is stored, and a handler in the middle of a request is one of
those its server waits for.  `AlwaysComplete`, `AlwaysRetriable`, `AlwaysQuiet` and
`Implements` (of `ArtifactLog`) follow.

`RecordsProofs`, the business store.  Its `StoreInv` says of the file that rows lead
to receipts and runs to both, and of a process between two transactions that what it
decided on is still there, because nothing is ever taken back.  `AlwaysProvenance`
and `Implements` (of `ArtifactLog`) follow.

The workspaces, in the same module.  Three inductive invariants of three components, and
`PreviewInv`, their conjunction with `CensusInv`, of all of them side by side.
`DirectoryInv`: the months that are there are `MonthOf` of the sealed input, from 0 on
without a gap, and whoever is writing has the opening or the successor of a month that
is there.  `CatalogInv`: names of files are fresh, an unreported row is held by one
job, and rows that were reported stay (`Kept`); as long as nothing failed, every other
row is finished or being written (`Undisturbed`).  `Shows`: what a boot
showed follows from the events it was given alone, which name no identity twice.  That
further events hide nothing is then a fact about two sets of events (`MoreEvents`): the
larger has all the candidates of the smaller, and its least one (`EvidenceLeast`, by
`LeastPosition`), if the smaller has it, is the least there too, and no other event has
its identity.
`AlwaysSealed`, `AlwaysOpens`, `AlwaysSound`, `AlwaysKept` and `NothingHiddenByMore` follow.

The census, in the same module.  What a complete census lacks says nothing of the files it
was made from, which may be those of several attempts.  `CensusInv` says, of every
receipt ever filed, that it holds all between its cursors that was never gone
(`FilesCover`), and of the evidence that nothing past its cursor lasted
(`EndReached`).  Any chain of such receipts covers all up to its cursor
(`ChainCovers`, by the least receipt that reaches a page), whoever filed them, and
`NothingSkipped` follows.

`SumTheorems`.  Lemmas only.  A sum is a fold over elements that `CHOOSE` picks, and
there is no induction over data here; but a set of numbers has a least one, and hence
what holds of the empty set and is kept when an element is added holds of every finite
set (`Induct`, `SubsetInduct`, `InsertInduct`, by the sizes at which it fails).  So folds exist,
agree, and do not depend on what is picked (`SumRemove`); a sum over a union splits
(`SumUnion`).  `SumPostings`: adding up to six postings to the accounts changes the
sum over any set of accounts by the postings that fall into it.  `SumParts`, `SumImage`
and `SumJoined` sum over what is grouped, renamed and appended to a list.  `ServedInTurn`
and `AllServed` are about a stock that is handed out in turn, each taking the lesser of
what it wants and what is left: nobody's share depends on those behind, and what is
handed out is the lesser of the stock and of all that is wanted.

`RegionalFinanceProofs`.  `FinanceInv` has five parts.  `Balanced` is what the
reports say, and that each bank's deposits are what its customers hold; `Covered`, that no liquid
account is below zero; `Books`, that the accounts of every loan, on both sides, hold
what its record says; `Terms`, that the record is consistent; and the types.  The
reports alone are not inductive: whether a withdrawal or a write-off keeps a bank's claims and a
loan's bounds depends on the single accounts, not on the totals.  `PostingsSound`
reduces all the reports to arithmetic on the six postings of an event, which each
handler's lemma then does.  `FinanceInvariant`, `MonthCanBeReported`,
`DepositsBacked`, `LoansAgree` and `CashIsConserved` follow.

`StockFlowProofs`.  `FlowInv` says of the sealed snapshot what the opening had to be
(`Sound`), and of a month in progress that the orders left are those of an accepted plan
(`Ordered`), that what is under way was not due or was sent in this run (`UnderWay`),
that no route carries more than its capacity (`WithinRoutes`), that prices are above
nothing (`Priced`), that a need not met in full has emptied its place and nothing before
it is left (`Ranked`), and that of every good as much is there as the books say
(`ConservationCheck`).  `Seal` checks most of this again: `FlowInvariant` shows that
after any number of orders it holds before it is checked.  The one place where conservation is
not simple bookkeeping is arrivals: what is delivered, summed place by place, is what the
due lots carried less what they lost (`SumFibers`).  `LotsOnSchedule` follows.
`FlowInvariant` and `LotsOnSchedule` hold of every model that the constructors accept.
The rest does not, because batches are a rounded quotient (`stockflow.py:760`), and
has the hypothesis `ExactRecipes`: every labour and input per batch divides the
scale, and no recipe names an input twice.  Under it rounding is exact on what matters
(`QuotientFits`), nothing that is reserved is touched (`Covered`), and
`NothingOverdrawn`, `NothingDiscarded` and `ServedByRank` follow.  `MCStockFlow`
satisfies it.

`RegionalMonthProofs`.  That nothing is sold twice and that local needs are served
first are not inductive: they hold at the end because of budgets that were drawn up
before, against a run that is thrown away.  `GoodsInv` says of the months between:
`ByStage`, what has not happened yet at a stage and what stock is by then;
`GoodsConserved`; `WithinBudgets`, that while exports are planned no offer, route or
demand is given more than it has left; `LocalNeedsUnharmed`; and, once the resolving
run is under way, `SalesHold`, that what is sold of a lot and what still may be is in
stock together.  The budgets meet the resolving run because local trade takes the
same lots in both (`ConsumedAlike`), which is where `ServedInTurn` comes in.
`GoodsKept`, `GoodsAccounted`, `LocalNeedsServed` and `NothingSoldTwice` follow.
`BooksInv` is about the money alone: what each account holds is its opening and the
sum over the pay and the deliveries that were booked so far (`Booked`), whichever of
the events of the month is next.  `BooksFollowGoods` follows.

`WholeEconomyProofs`.  `WholeInv` has three parts.  `Typed`; `Stocked`, that of every
good as much is in store and under way as the month opened with less what is gone,
and that numbers of shipments are not used again; `Booked`, that the interest and the
collateral on a bank's books are those of its loans and of its rows, and that the
sheet balances.  Most steps only trade.  What that may do is said once, as the set
`Traded` of the markets that one may become: goods move, money moves and leaves
every bank its reserves less its deposits, no pledge and no seized collateral is
touched, and what was payable is paid in full.  It is reflexive and transitive, so that it
passes through the folds of a step - over routes, in each over sellers, in each over
dues - by one lemma about folds (`FoldStays`, from `FoldRuns`), and each kind of
trade is looked at once.  Lending, production, spoilage, the service of a loan and
the close of a month do more, and have a proof each; seizure, where a bank may lend,
hold and fail at once, is the longest.  `PaidOffKeeps` is why a payable bundle is
settled in full: the dues to other banks are covered by cash and reserves, and what
they leave covers the rest.
`WholeSafe`, `BanksAlwaysReconcile`, `GoodsAlwaysConserved`, `CoinsAlwaysConserved`
and `ClosingChecksPass` follow, for every accepted scenario.

Two properties hold only of some scenarios.  What is pledged stays in stock if no
recipe takes more than is available, which the rounded quotient (`whole_economy.py:1458`)
does not guarantee: `PledgesAlwaysKept` and `InputsAlwaysThere` assume `ExactInputs`,
that the inputs of a batch divide the scale.  Their invariant (`PledgeInv`) compares
the pledge on each row with what the loans that are owed were promised of it: a loan
that ends gives back the lesser of its promise and of what is pledged, so that it
never takes from another one, and where nothing spoils the two are equal.  And
a loan is never overpaid if amounts come in whole cents, which openings and requests need
not: `OnlyProductionEverFails` assumes `InWholeCents` as well, and its invariant
(`Rounding`) is that money and loans stay so.  What remains to stop a month is a
payroll that is not paid in full, and labour beyond its days.  `MCWholeEconomy` satisfies both (there a cent is
the unit, so that the second is no restriction).

Only model-checked: liveness (`EveryCommandEnds`, `CloseSucceeds`), which the prover
does not handle, and the counterexample of `whole_stuck`.

## Not modelled, and the plan

Left out of the modelled parts: report, ledger, decision and briefing text, and JSON
encoding (taken to be injective, as are SHA-256 and UUIDv5); `status`, listings,
exports and the other commands that only read, the business store's `verify` among
them; HTTP headers and the bytes on a socket; sums of quantities that differ by
forty digits; the files of a workspace read one by one while it is opened; how
a digest becomes the face of a die; the source businesses a regional scenario is
built from; what a page of the census says, its schema and its coverage state.

The command lines, the codec, the HTTP wrapper, the banking sandbox and the
TypeScript package keep no state and decide nothing.

Next, in this order:

1. `AgricultureSimulation`: the inventory balance over several periods and the
   capacity of logistics.
2. The food and business calculations and registry contradictions as functions
   checked against reference definitions.
