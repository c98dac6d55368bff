---------------------------- MODULE MonthCatalog ----------------------------
(***************************************************************************)
(* regional_cli.py: the SQLite catalog of the regional months with the     *)
(* JSON artifacts beside it.  init and run-month --commit write the        *)
(* catalog in one transaction and the artifacts after it, and undo the     *)
(* one when the other fails; the reads a month is computed from are        *)
(* outside any transaction.  Processes race, writes fail, processes die.   *)
(*                                                                         *)
(* A period's rows (its snapshot and, from 1 on, its run) come and go      *)
(* together; what they hold follows from the period and the scenario.      *)
(* SQLite refuses to write to a database file that was unlinked, so a      *)
(* command is bound to the file it opened: file number made.               *)
(***************************************************************************)
EXTENDS Naturals, FiniteSets

CONSTANTS Processes,
          MaxPeriod,   \* bound: periods that are run
          MaxMade      \* bound: database files ever created

VARIABLES database,    \* the file at the path: its number, schema and periods
          made,        \* database files created so far
          artifacts,   \* files: <<"scenario" | "state" | "output" | "report", period>>
          committed,   \* <<file, period>> some command reported as committed
          faulty,      \* a process died, a write failed, or two inits met
          job          \* what each process is doing

catalogVars == <<database, made, artifacts, committed, faulty, job>>

NoDatabase == [number |-> 0, periods |-> {}]
Idle == [stage |-> "idle"]
OpeningFiles == {<<"scenario", 0>>, <<"state", 0>>}
FilesOf(n) == {<<"state", n>>, <<"output", n>>}
Exists == database # NoDatabase
Newest == CHOOSE n \in database.periods : \A k \in database.periods : k <= n
Same(p) == Exists /\ database.number = job[p].file

Become(p, j) == job' = [job EXCEPT ![p] = j]
Goto(p, stage) == Become(p, [job[p] EXCEPT !.stage = stage])
Stored == <<database, made, artifacts, committed>>

StartInit(p) ==
  /\ job[p] = Idle
  /\ ~ Exists /\ made < MaxMade
  /\ Become(p, [stage |-> "new"])
  /\ UNCHANGED <<Stored, faulty>>

\* An artifact of an earlier catalog makes init refuse, before it creates.
LookForOpening(p) ==
  /\ job[p].stage = "new"
  /\ IF artifacts \cap OpeningFiles = {} THEN Goto(p, "connect") ELSE Become(p, Idle)
  /\ UNCHANGED <<Stored, faulty>>

\* Connecting creates the file; the schema of a file that has one fails.
CreateSchema(p) ==
  /\ job[p].stage = "connect"
  /\ ~ Exists
  /\ made' = made + 1
  /\ database' = [number |-> made', periods |-> {}]
  /\ Become(p, [stage |-> "schema", file |-> made', period |-> 0, left |-> OpeningFiles])
  /\ UNCHANGED <<artifacts, committed, faulty>>

\* The other init comes too late, and its handler removes what it finds.
SchemaExists(p) ==
  /\ job[p].stage = "connect"
  /\ Exists
  /\ Goto(p, "abandon")
  /\ faulty' = TRUE
  /\ UNCHANGED Stored

FillOpening(p) ==
  /\ job[p].stage = "schema"
  /\ Same(p)
  /\ database' = [database EXCEPT !.periods = {0}]
  /\ Goto(p, "files")
  /\ UNCHANGED <<made, artifacts, committed, faulty>>

\* The file was unlinked by an init that came too late.
FailFill(p) ==
  /\ job[p].stage = "schema"
  /\ ~ Same(p)
  /\ Goto(p, "abandon")
  /\ UNCHANGED <<Stored, faulty>>

\* The handler unlinks the database and the opening artifacts, whoever made
\* them.
Abandon(p) ==
  /\ job[p].stage = "abandon"
  /\ database' = NoDatabase
  /\ artifacts' = artifacts \ OpeningFiles
  /\ Become(p, Idle)
  /\ UNCHANGED <<made, committed, faulty>>

\* run-month reads the newest snapshot and computes the month after it.
ReadNewest(p) ==
  /\ job[p] = Idle
  /\ Exists
  /\ IF database.periods = {} \/ Newest >= MaxPeriod
     THEN Become(p, Idle)
     ELSE Become(p, [stage |-> "computed", file |-> database.number,
                     period |-> Newest + 1, left |-> FilesOf(Newest + 1)])
  /\ UNCHANGED <<Stored, faulty>>

AnswerDryRun(p) ==
  /\ job[p].stage = "computed"
  /\ Become(p, Idle)
  /\ UNCHANGED <<Stored, faulty>>

\* --commit refuses to overwrite an artifact.
LookForFiles(p) ==
  /\ job[p].stage = "computed"
  /\ IF artifacts \cap job[p].left = {} THEN Goto(p, "insert") ELSE Become(p, Idle)
  /\ UNCHANGED <<Stored, faulty>>

Insert(p) ==
  /\ job[p].stage = "insert"
  /\ Same(p) /\ job[p].period \notin database.periods
  /\ database' = [database EXCEPT !.periods = @ \cup {job[p].period}]
  /\ Goto(p, "files")
  /\ UNCHANGED <<made, artifacts, committed, faulty>>

\* Mutant: the insertion is inside the try block, and its failure is undone.
UndoRefusal(p) ==
  /\ job[p].stage = "insert"
  /\ ~ Same(p) \/ job[p].period \in database.periods
  /\ Goto(p, "undo")
  /\ UNCHANGED <<Stored, faulty>>

\* The period was inserted by another process, or the file is gone.
RefuseInsert(p) ==
  /\ job[p].stage = "insert"
  /\ ~ Same(p) \/ job[p].period \in database.periods
  /\ Become(p, Idle)
  /\ UNCHANGED <<Stored, faulty>>

\* The state is written before the output, the scenario before the state.
WriteFile(p) ==
  /\ job[p].stage = "files" /\ job[p].left # {}
  /\ \E f \in job[p].left :
       /\ f[1] = "state" => job[p].left \cap {<<"scenario", 0>>} = {}
       /\ f[1] = "output" => job[p].left = {f}
       /\ artifacts' = artifacts \cup {f}
       /\ Become(p, [job[p] EXCEPT !.left = @ \ {f}])
  /\ UNCHANGED <<database, made, committed, faulty>>

\* A write fails: init abandons the catalog, run-month undoes its month.
FailFile(p) ==
  /\ job[p].stage = "files" /\ job[p].left # {}
  /\ Goto(p, IF job[p].period = 0 THEN "abandon" ELSE "undo")
  /\ faulty' = TRUE
  /\ UNCHANGED Stored

DeleteRows(p) ==
  /\ job[p].stage = "undo"
  /\ IF Same(p)
     THEN /\ database' = [database EXCEPT !.periods = @ \ {job[p].period}]
          /\ Goto(p, "unlink")
     ELSE Become(p, Idle) /\ UNCHANGED database
  /\ UNCHANGED <<made, artifacts, committed, faulty>>

UnlinkFiles(p) ==
  /\ job[p].stage = "unlink"
  /\ artifacts' = artifacts \ FilesOf(job[p].period)
  /\ Become(p, Idle)
  /\ UNCHANGED <<database, made, committed, faulty>>

\* init answers; run-month first writes the readable report.
Answer(p) ==
  /\ job[p].stage = "files" /\ job[p].left = {}
  /\ artifacts' = IF job[p].period = 0 THEN artifacts
                  ELSE artifacts \cup {<<"report", job[p].period>>}
  /\ committed' = committed \cup {<<job[p].file, job[p].period>>}
  /\ Become(p, Idle)
  /\ UNCHANGED <<database, made, faulty>>

\* When the readable report cannot be written the month stays.
FailReport(p) ==
  /\ job[p].stage = "files" /\ job[p].left = {} /\ job[p].period > 0
  /\ faulty' = TRUE
  /\ Become(p, Idle)
  /\ UNCHANGED Stored

\* report writes the readable report of a stored month again.
Report(p, n) ==
  /\ job[p] = Idle
  /\ Exists /\ n \in database.periods \ {0}
  /\ artifacts' = artifacts \cup {<<"report", n>>}
  /\ UNCHANGED <<database, made, committed, faulty, job>>

Die(p) ==
  /\ job[p] # Idle
  /\ Become(p, Idle)
  /\ faulty' = TRUE
  /\ UNCHANGED Stored

Init ==
  /\ database = NoDatabase /\ made = 0
  /\ artifacts = {} /\ committed = {} /\ faulty = FALSE
  /\ job = [p \in Processes |-> Idle]

Step(p) ==
  \/ StartInit(p) \/ LookForOpening(p) \/ CreateSchema(p) \/ SchemaExists(p)
  \/ FillOpening(p) \/ FailFill(p) \/ Abandon(p)
  \/ ReadNewest(p) \/ AnswerDryRun(p) \/ LookForFiles(p)
  \/ Insert(p) \/ RefuseInsert(p) \/ WriteFile(p) \/ FailFile(p)
  \/ DeleteRows(p) \/ UnlinkFiles(p) \/ Answer(p) \/ FailReport(p)
  \/ \E n \in 1..MaxPeriod : Report(p, n)

Next == \E p \in Processes : Step(p) \/ Die(p)

Spec == Init /\ [][Next]_catalogVars
-----------------------------------------------------------------------------
(* A period that a command reported as committed keeps its rows as long as  *)
(* the database file exists, whatever other commands refuse, fail, undo or  *)
(* leave half done.  (Its artifacts it may lose, and the file itself too.)  *)
ReportedRowsStay ==
  \A c \in committed :
    Exists /\ database.number = c[1] => c[2] \in database.periods

\* What verify checks: no gap, and every artifact there.
Valid ==
  /\ database.periods = 0..Newest
  /\ OpeningFiles \subseteq artifacts
  /\ \A n \in 1..Newest : FilesOf(n) \cup {<<"report", n>>} \subseteq artifacts

(* Commands that only race leave a catalog that verify accepts: as long as  *)
(* nobody died, no write failed and no two inits met, a catalog at rest is  *)
(* a complete history with all of its artifacts.                            *)
ValidUnlessFault ==
  Exists /\ ~ faulty /\ (\A p \in Processes : job[p] = Idle) => Valid

(* Both hold together: no command takes back what another one committed.    *)
CatalogSound == ReportedRowsStay /\ ValidUnlessFault
=============================================================================
