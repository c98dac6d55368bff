--------------------------- MODULE BusinessStore ----------------------------
(***************************************************************************)
(* business_store.py and business_cli.py: processes that import registry   *)
(* receipts into one SQLite file and append monthly business previews      *)
(* bound to a receipt.  Every step of a process is one SQL statement or    *)
(* transaction boundary.                                                   *)
(*                                                                         *)
(* An export hash covers a receipt's rows and its capture time.  A month's *)
(* result is a pure function of the export, the entity, the month and the  *)
(* options (assumptions and seed), and so are its artifacts; so these four *)
(* are the bundle, and a run hash.                                         *)
(***************************************************************************)
EXTENDS Naturals, FiniteSets

CONSTANTS Procs,
          Exports,     \* export hashes
          SnapshotOf,  \* export |-> hash of the rows it holds
          CapturedAt,  \* export |-> capture time
          Businesses, Months, Options,
          Latest,      \* stands for "no --registry-export-hash"
          NoProc

VARIABLES file,        \* the database file
          exports,     \* table registry_exports
          snapshotRows, \* table registry_snapshots, each with its registry_rows
          runs,        \* table business_runs, each with its business_artifacts
          writer,      \* process in an immediate transaction
          proc,        \* what each process is doing
          said         \* what each process's latest run-month printed

vars == <<file, exports, snapshotRows, runs, writer, proc, said>>
tables == <<exports, snapshotRows, runs>>

ASSUME ExportAssumption ==
  DOMAIN SnapshotOf = Exports /\ CapturedAt \in [Exports -> Nat]
ASSUME MarkAssumption == Latest \notin Exports /\ NoProc \notin Procs

Run == [export : Exports, entity : Businesses, month : Months, options : Options]
Period(run) == <<run.export, run.entity, run.month>>
Command ==
  [export : Exports \cup {Latest}, entity : Businesses, month : Months, options : Options]

Idle == [at |-> "idle"]
Nothing == <<>>
At(p, place) == proc[p].at = place
Become(p, state) == proc' = [proc EXCEPT ![p] = state]
Goto(p, place) == [proc[p] EXCEPT !.at = place]
\* A BusinessStoreError, or the end of a command that prints no run.
Finish(p) == Become(p, Idle)
-----------------------------------------------------------------------------
\* init: reserve the file, write the schema, then the metadata and the first
\* receipt in one transaction; a failure removes the file.
Reserve(p, e) ==
  /\ At(p, "idle") /\ file = "absent"
  /\ file' = "reserved"
  /\ Become(p, [at |-> "schema", export |-> e])
  /\ UNCHANGED <<tables, writer, said>>

WriteSchema(p) ==
  /\ At(p, "schema")
  /\ file' = "schema"
  /\ Become(p, Goto(p, "metadata"))
  /\ UNCHANGED <<tables, writer, said>>

WriteMetadata(p) ==
  /\ At(p, "metadata")
  /\ file' = "ready"
  /\ exports' = {proc[p].export} /\ snapshotRows' = {SnapshotOf[proc[p].export]}
  /\ Finish(p)
  /\ UNCHANGED <<runs, writer, said>>

FailCreate(p) ==
  /\ At(p, "schema") \/ At(p, "metadata")
  /\ file' = "absent"
  /\ Finish(p)
  /\ UNCHANGED <<tables, writer, said>>
-----------------------------------------------------------------------------
Import(p, e) ==
  /\ At(p, "idle") /\ file = "ready"
  /\ Become(p, [at |-> "begin", next |-> "import", export |-> e])
  /\ said' = [said EXCEPT ![p] = Nothing]
  /\ UNCHANGED <<file, tables, writer>>

\* run-month --commit: choose the receipt, compute, check the receipt again.
RunMonth(p, asked) ==
  /\ At(p, "idle") /\ file = "ready"
  /\ Become(p, [at |-> "choose", command |-> asked])
  /\ said' = [said EXCEPT ![p] = Nothing]
  /\ UNCHANGED <<file, tables, writer>>

\* latest_registry_export; capture times are unique within the store.
Newest(e) == \A f \in exports : CapturedAt[f] <= CapturedAt[e]

\* load_registry_export: the receipt and every row of its snapshot are there.
Loadable(e) == e \in exports /\ SnapshotOf[e] \in snapshotRows

Choose(p) ==
  LET k == proc[p].command
      Chosen(e) == IF k.export = Latest THEN Newest(e) ELSE e = k.export
      chosen == {e \in exports : Chosen(e) /\ Loadable(e)}
  IN /\ At(p, "choose")
     /\ \/ \E e \in chosen :
             Become(p, [at |-> "begin", next |-> "check", run |-> [k EXCEPT !.export = e]])
        \/ chosen = {} /\ Finish(p)
     /\ UNCHANGED <<file, tables, writer, said>>

BeginWriting(p) ==
  /\ At(p, "begin") /\ writer = NoProc
  /\ writer' = p
  /\ Become(p, Goto(p, proc[p].next))
  /\ UNCHANGED <<file, tables, said>>

\* The busy timeout of 30 seconds expires.
Busy(p) ==
  /\ At(p, "begin") /\ writer # NoProc
  /\ Finish(p)
  /\ UNCHANGED <<file, tables, writer, said>>

\* Mutant: the capture time of a new receipt is not compared.
FitsAnyTime(e) == e \notin exports

\* A receipt that is new, and of a capture the store does not have.
Fits(e) == e \notin exports /\ \A f \in exports : CapturedAt[f] # CapturedAt[e]

\* _import_verified: an exact retry and a conflict leave the tables alone.
CheckImport(p) ==
  /\ At(p, "import")
  /\ \/ Fits(proc[p].export) /\ Become(p, Goto(p, "insert")) /\ UNCHANGED writer
     \/ ~ Fits(proc[p].export) /\ Finish(p) /\ writer' = NoProc
  /\ UNCHANGED <<file, tables, said>>

\* Several receipts may share a snapshot: its rows are inserted once.
Insert(p) ==
  /\ At(p, "insert")
  /\ exports' = exports \cup {proc[p].export}
  /\ snapshotRows' = snapshotRows \cup {SnapshotOf[proc[p].export]}
  /\ writer' = NoProc
  /\ Finish(p)
  /\ UNCHANGED <<file, runs, said>>

\* Mutant: a period counts as committed only with the same options.
SamePeriodAndOptions(run) == {r \in runs : r = run}

\* The stored run of the same receipt, entity and month.
SamePeriod(run) == {r \in runs : Period(r) = Period(run)}

\* commit_run: an exact retry answers the stored run, other options conflict.
CheckRun(p) ==
  LET run == proc[p].run
  IN /\ At(p, "check")
     /\ \/ SamePeriod(run) = {} /\ Become(p, Goto(p, "commit")) /\ UNCHANGED writer
        \/ SamePeriod(run) # {} /\ writer' = NoProc
           /\ IF run \in SamePeriod(run)
              THEN Become(p, [at |-> "answer", run |-> run]) ELSE Finish(p)
     /\ UNCHANGED <<file, tables, said>>

Commit(p) ==
  /\ At(p, "commit")
  /\ runs' = runs \cup {proc[p].run}
  /\ writer' = NoProc
  /\ Become(p, Goto(p, "answer"))
  /\ UNCHANGED <<file, exports, snapshotRows, said>>

\* A statement or COMMIT fails; the transaction is rolled back.
Fail(p) ==
  /\ At(p, "insert") \/ At(p, "commit")
  /\ writer' = NoProc
  /\ Finish(p)
  /\ UNCHANGED <<file, tables, said>>

\* load_run: a bundle is answered as it is stored, with its receipt.
LoadedRun(run) == run \in runs /\ Loadable(run.export)

Answer(p) ==
  /\ At(p, "answer") /\ LoadedRun(proc[p].run)
  /\ said' = [said EXCEPT ![p] = <<proc[p].run>>]
  /\ Finish(p)
  /\ UNCHANGED <<file, tables, writer>>
-----------------------------------------------------------------------------
\* The process dies; SQLite rolls its transaction back.
Crash(p) ==
  /\ proc[p] # Idle
  /\ writer' = IF writer = p THEN NoProc ELSE writer
  /\ Finish(p)
  /\ UNCHANGED <<file, tables, said>>
-----------------------------------------------------------------------------
BInit ==
  /\ file = "absent" /\ exports = {} /\ snapshotRows = {} /\ runs = {}
  /\ writer = NoProc
  /\ proc = [p \in Procs |-> Idle]
  /\ said = [p \in Procs |-> Nothing]

Progress(p) ==
  \/ WriteSchema(p) \/ WriteMetadata(p) \/ FailCreate(p)
  \/ Choose(p) \/ BeginWriting(p) \/ Busy(p) \/ CheckImport(p) \/ Insert(p)
  \/ CheckRun(p) \/ Commit(p) \/ Fail(p) \/ Answer(p)

BNext ==
  \E p \in Procs :
    \/ \E e \in Exports : Reserve(p, e) \/ Import(p, e)
    \/ \E asked \in Command : RunMonth(p, asked)
    \/ Progress(p) \/ Crash(p)

BSpec == BInit /\ [][BNext]_vars
-----------------------------------------------------------------------------
BTypeOK ==
  /\ file \in {"absent", "reserved", "schema", "ready"}
  /\ exports \subseteq Exports /\ runs \subseteq Run
  /\ writer \in Procs \cup {NoProc}
  /\ \A p \in Procs : said[p] # Nothing => said[p][1] \in Run

(* What verify looks for holds at every instant, whichever imports and runs *)
(* race and wherever they die: the stored rows are exactly those of the     *)
(* receipts, a capture has one receipt, every run's receipt is there.       *)
ProvenanceComplete ==
  /\ BTypeOK
  /\ snapshotRows = {SnapshotOf[e] : e \in exports}
  /\ \A e, f \in exports : CapturedAt[e] = CapturedAt[f] => e = f
  /\ \A r \in runs : r.export \in exports

RunOf(k) == CHOOSE r \in runs : Period(r) = k

(* The store implements the log its callers rely on.                        *)
Log == INSTANCE ArtifactLog
         WITH Callers <- Procs, Keys <- Exports \X Businesses \X Months, Bundles <- Run,
              log <- [k \in {Period(r) : r \in runs} |-> RunOf(k)],
              told <- [p \in Procs |-> IF said[p] = Nothing THEN <<>>
                                       ELSE <<Period(said[p][1]), said[p][1]>>]
ImplementsLog == Log!Spec
=============================================================================
