--------------------------- MODULE CampaignStore ----------------------------
(***************************************************************************)
(* operator_store.py and operator.py: operator processes that initialise,  *)
(* run, dry-run, inspect and verify one preview campaign in one SQLite     *)
(* file.  Every step of a process is one SQL statement or transaction      *)
(* boundary, the points at which processes interleave.                     *)
(*                                                                         *)
(* A snapshot is identified by its state hash, which is determined by the  *)
(* parent's hash and the plan; the schedule being locked, a plan is        *)
(* determined by its month and its dice.  So a state is the sequence of    *)
(* the dice manifests of the months behind it, its length is its period    *)
(* index and its parent is the sequence without its last element.          *)
(***************************************************************************)
EXTENDS Integers, Sequences, FiniteSets

CONSTANTS Procs,       \* operator processes
          Seeds,       \* seeds a caller may give
          Faces,       \* outcomes of a roll
          SeedFaces,   \* (seed, month) |-> the faces the HMAC yields
          MaxPeriod,   \* months the scenario's profile defines
          NoProc, NoDice

VARIABLES file,        \* the database file
          current,     \* campaign row: current_period, current_state_hash
          snapshots,   \* table snapshots, as the states it holds
          runs,        \* table month_runs: month |-> row
          writer,      \* process in an immediate transaction
          proc,        \* what each process is doing
          said         \* what each process's latest command printed

vars == <<file, current, snapshots, runs, writer, proc, said>>
db == <<file, current, snapshots, runs>>

ASSUME PeriodAssumption == MaxPeriod \in Nat
ASSUME ProcAssumption == NoProc \notin Procs
ASSUME SeedAssumption == SeedFaces \in [Seeds \X (1..MaxPeriod) -> Faces]

\* Run options: no dice, secure dice, or dice from a seed (option_body).
Options == {"none", "secure"} \cup Seeds
Manifest == [options : Options, faces : Faces \cup {NoDice}]
Opening == <<>>
Nothing == <<>>
Parent(state) == SubSeq(state, 1, Len(state) - 1)
Row == [options : Options, manifest : Manifest, parent : Seq(Manifest),
        closing : Seq(Manifest)]

Requests ==
  {r \in [period : 1..(MaxPeriod + 1), options : Options, commit : BOOLEAN] :
     r.options = "secure" => r.commit}

\* Mutant: the seed is not used.
RollsUnseeded(r) ==
  IF r.options = "none" THEN {[options |-> "none", faces |-> NoDice]}
  ELSE {[options |-> r.options, faces |-> f] : f \in Faces}

\* The manifests roll_preview_checks can produce for a request.
Rolls(r) ==
  IF r.options = "none" THEN {[options |-> "none", faces |-> NoDice]}
  ELSE {[options |-> r.options, faces |-> f] :
          f \in IF r.options = "secure" THEN Faces ELSE {SeedFaces[<<r.options, r.period>>]}}

Idle == [at |-> "idle"]
At(p, place) == proc[p].at = place
Become(p, state) == proc' = [proc EXCEPT ![p] = state]
\* A StoreError, or an answer that says nothing about a committed month.
Raise(p) == Become(p, Idle)
\* Continue the request of p at another place, remembering more.
Goto(p, place) == [proc[p] EXCEPT !.at = place]
Stored(n) == [committed |-> TRUE, month |-> n, row |-> runs[n]]
-----------------------------------------------------------------------------
\* CampaignStore.create: reserve the file, run the schema script, insert the
\* campaign and the opening snapshot in one transaction.
Reserve(p) ==
  /\ At(p, "idle") /\ file = "absent"
  /\ file' = "reserved"
  /\ Become(p, [at |-> "schema"])
  /\ UNCHANGED <<current, snapshots, runs, writer, said>>

WriteSchema(p) ==
  /\ At(p, "schema")
  /\ file' = "schema"
  /\ Become(p, [at |-> "opening"])
  /\ UNCHANGED <<current, snapshots, runs, writer, said>>

WriteOpening(p) ==
  /\ At(p, "opening")
  /\ file' = "ready"
  /\ current' = [period |-> 0, state |-> Opening]
  /\ snapshots' = {Opening}
  /\ Become(p, Idle)
  /\ UNCHANGED <<runs, writer, said>>

FailCreate(p) ==
  /\ At(p, "schema") \/ At(p, "opening")
  /\ file' = "absent"
  /\ Raise(p)
  /\ UNCHANGED <<current, snapshots, runs, writer, said>>
-----------------------------------------------------------------------------
\* run_month: open, read the campaign row, look for an existing run, read the
\* newest snapshot, compute, commit.
Open(p, request) ==
  /\ At(p, "idle") /\ file = "ready"
  /\ Become(p, [at |-> "lookup", request |-> request, seen |-> current])
  /\ said' = [said EXCEPT ![p] = Nothing]
  /\ UNCHANGED <<db, writer>>

\* The answer to a request whose month is already in the history.
Replay(p) ==
  LET r == proc[p].request
  IN /\ r.period \in DOMAIN runs
     /\ IF runs[r.period].options = r.options
        THEN Become(p, [at |-> "answer", answer |-> Stored(r.period)])
        ELSE Raise(p)

Lookup(p) ==
  /\ At(p, "lookup")
  /\ \/ Replay(p)
     \/ /\ proc[p].request.period \notin DOMAIN runs
        /\ Become(p, Goto(p, "parent"))
  /\ UNCHANGED <<db, writer, said>>

\* load_snapshot: the row of a state hash.
Held(state) == state \in snapshots

ReadParent(p) ==
  LET r == proc[p].request
      seen == proc[p].seen
  IN /\ At(p, "parent")
     /\ IF ~ Held(current.state) THEN Raise(p)
        ELSE IF Len(current.state) # seen.period THEN Become(p, Goto(p, "recheck"))
        ELSE IF r.period # seen.period + 1 \/ r.period > MaxPeriod THEN Raise(p)
        ELSE \E m \in Rolls(r) :
               Become(p, [at |-> IF r.commit THEN "begin" ELSE "show", request |-> r,
                          row |-> [options |-> r.options, manifest |-> m,
                                   parent |-> current.state,
                                   closing |-> Append(current.state, m)]])
     /\ UNCHANGED <<db, writer, said>>

\* Another process committed since the campaign row was read.
Recheck(p) ==
  /\ At(p, "recheck")
  /\ \/ Replay(p)
     \/ proc[p].request.period \notin DOMAIN runs /\ Raise(p)
  /\ UNCHANGED <<db, writer, said>>

\* A run that is not committed is shown and forgotten.
Show(p) ==
  /\ At(p, "show")
  /\ said' = [said EXCEPT ![p] = [committed |-> FALSE, month |-> proc[p].request.period,
                                  row |-> proc[p].row]]
  /\ Become(p, Idle)
  /\ UNCHANGED <<db, writer>>

\* What commit_run validates before its transaction, and verify in every run:
\* the options are those of the dice, and replaying them yields the closing.
OptionsBound(row) ==
  /\ row.manifest.options = row.options
  /\ row.options = "none" <=> row.manifest.faces = NoDice
Reproducible(row) ==
  Held(row.parent) /\ row.closing = Append(row.parent, row.manifest)

Begin(p) ==
  /\ At(p, "begin") /\ writer = NoProc
  /\ OptionsBound(proc[p].row) /\ Reproducible(proc[p].row)
  /\ writer' = p
  /\ Become(p, Goto(p, "check"))
  /\ UNCHANGED <<db, said>>

\* Mutant: the lock is waited for without a timeout.
NeverBusy(p) == FALSE

\* SQLite's busy timeout expires while another process holds the lock.
Busy(p) ==
  /\ At(p, "begin") /\ writer # NoProc
  /\ Raise(p)
  /\ UNCHANGED <<db, writer, said>>

\* The schema's UNIQUE and REFERENCES constraints on the rows to insert.
Fits(n, row) ==
  /\ n \notin DOMAIN runs
  /\ row.parent \in snapshots
  /\ \A k \in DOMAIN runs : runs[k].closing # row.closing
  /\ \A s \in snapshots : Len(s) # Len(row.closing)

Current(n, row) == current.state = row.parent /\ current.period + 1 = n

\* The month was committed since it was looked up: the transaction ends.
Settle(p, n, row) ==
  /\ writer' = NoProc
  /\ IF runs[n].options = row.options
     THEN Become(p, [at |-> "answer", answer |-> Stored(n)])
     ELSE Raise(p)

\* The reads and checks of commit_run inside its transaction.
Check(p) ==
  LET n == proc[p].request.period
      row == proc[p].row
  IN /\ At(p, "check")
     /\ \/ n \in DOMAIN runs /\ Settle(p, n, row)
        \/ n \notin DOMAIN runs /\ ~ (Current(n, row) /\ Fits(n, row))
           /\ writer' = NoProc /\ Raise(p)
        \/ n \notin DOMAIN runs /\ Current(n, row) /\ Fits(n, row)
           /\ Become(p, Goto(p, "commit")) /\ UNCHANGED writer
     /\ UNCHANGED <<db, said>>

\* Mutant: the campaign row is left at the month before.
CommitWithoutCampaign(p) ==
  LET n == proc[p].request.period
      row == proc[p].row
  IN /\ At(p, "commit")
     /\ runs' = [k \in DOMAIN runs \cup {n} |-> IF k = n THEN row ELSE runs[k]]
     /\ snapshots' = snapshots \cup {row.closing}
     /\ writer' = NoProc
     /\ Become(p, [at |-> "answer", answer |-> [committed |-> TRUE, month |-> n, row |-> row]])
     /\ UNCHANGED <<file, current, said>>

\* All of the month's rows become visible together.
Commit(p) ==
  LET n == proc[p].request.period
      row == proc[p].row
  IN /\ At(p, "commit")
     /\ runs' = [k \in DOMAIN runs \cup {n} |-> IF k = n THEN row ELSE runs[k]]
     /\ snapshots' = snapshots \cup {row.closing}
     /\ current' = [period |-> n, state |-> row.closing]
     /\ writer' = NoProc
     /\ Become(p, [at |-> "answer", answer |-> [committed |-> TRUE, month |-> n, row |-> row]])
     /\ UNCHANGED <<file, said>>

\* Mutant: a failed COMMIT is answered like a successful one.
FailUnnoticed(p) ==
  /\ At(p, "commit")
  /\ writer' = NoProc
  /\ Become(p, [at |-> "answer", answer |-> [committed |-> TRUE,
                   month |-> proc[p].request.period, row |-> proc[p].row]])
  /\ UNCHANGED <<db, said>>

\* COMMIT itself fails (a reader keeps its lock, the disk is full).
FailCommit(p) ==
  /\ At(p, "commit")
  /\ writer' = NoProc
  /\ Raise(p)
  /\ UNCHANGED <<db, said>>

Answer(p) ==
  /\ At(p, "answer")
  /\ said' = [said EXCEPT ![p] = proc[p].answer]
  /\ Become(p, Idle)
  /\ UNCHANGED <<db, writer>>
-----------------------------------------------------------------------------
\* verify_database: three reads, each a transaction of its own.
VerifyCampaign(p) ==
  /\ At(p, "idle") /\ file = "ready"
  /\ Become(p, [at |-> "lineage", seen |-> current])
  /\ said' = [said EXCEPT ![p] = Nothing]
  /\ UNCHANGED <<db, writer>>

Lineage(states) ==
  /\ \E s \in states : Len(s) = 0
  /\ \A s \in states : Len(s) > 0 => Parent(s) \in states
  /\ \A s, t \in states : Len(s) = Len(t) => s = t
Tip(states) == CHOOSE s \in states : \A t \in states : Len(t) <= Len(s)

VerifyLineage(p) ==
  /\ At(p, "lineage")
  /\ Become(p, IF Lineage(snapshots)
               THEN [at |-> "months", seen |-> proc[p].seen, tip |-> Tip(snapshots)]
               ELSE [at |-> "alarm"])
  /\ UNCHANGED <<db, writer, said>>

RunsInOrder ==
  /\ DOMAIN runs = 1..Cardinality(DOMAIN runs)
  /\ \A n \in DOMAIN runs :
       /\ OptionsBound(runs[n]) /\ Reproducible(runs[n])
       /\ Len(runs[n].parent) = n - 1 /\ Held(runs[n].closing)

VerifyMonths(p) ==
  LET sound == /\ RunsInOrder
               /\ proc[p].seen.period = Cardinality(DOMAIN runs)
               /\ proc[p].seen.state = proc[p].tip
  IN /\ At(p, "months")
     /\ Become(p, IF sound THEN Idle ELSE [at |-> "alarm"])
     /\ UNCHANGED <<db, writer, said>>

\* verify raises StoreError.
Alarm(p) ==
  /\ At(p, "alarm")
  /\ Raise(p)
  /\ UNCHANGED <<db, writer, said>>

\* The process dies; SQLite rolls its transaction back.
Crash(p) ==
  /\ proc[p] # Idle
  /\ writer' = IF writer = p THEN NoProc ELSE writer
  /\ Become(p, Idle)
  /\ UNCHANGED <<db, said>>
-----------------------------------------------------------------------------
Init ==
  /\ file = "absent" /\ current = [period |-> 0, state |-> Opening]
  /\ snapshots = {} /\ runs = <<>>
  /\ writer = NoProc
  /\ proc = [p \in Procs |-> Idle]
  /\ said = [p \in Procs |-> Nothing]

Progress(p) ==
  \/ WriteSchema(p) \/ WriteOpening(p) \/ FailCreate(p)
  \/ Lookup(p) \/ ReadParent(p) \/ Recheck(p) \/ Show(p)
  \/ Begin(p) \/ Busy(p) \/ Check(p) \/ Commit(p) \/ FailCommit(p) \/ Answer(p)
  \/ VerifyLineage(p) \/ VerifyMonths(p) \/ Alarm(p)

Next ==
  \E p \in Procs :
    \/ Reserve(p) \/ VerifyCampaign(p) \/ \E r \in Requests : Open(p, r)
    \/ Progress(p)
    \/ Crash(p)

Spec == Init /\ [][Next]_vars

\* A process that has begun runs on until it ends or dies.
FairSpec == Spec /\ \A p \in Procs : WF_vars(Progress(p))
-----------------------------------------------------------------------------
TypeOK ==
  /\ file \in {"absent", "reserved", "schema", "ready"}
  /\ current \in [period : Nat, state : Seq(Manifest)]
  /\ snapshots \subseteq Seq(Manifest)
  /\ DOMAIN runs \subseteq Nat /\ \A n \in DOMAIN runs : runs[n] \in Row
  /\ writer \in Procs \cup {NoProc}
  /\ \A p \in Procs : said[p] # Nothing =>
       said[p] \in [committed : BOOLEAN, month : Nat, row : Row]

(* What verify looks for holds at every instant, whichever processes race   *)
(* and wherever they die: one snapshot per month, each the child of the one *)
(* before, one run per month joining two of them, the campaign row at the   *)
(* tip.                                                                     *)
HistoryIsAChain ==
  /\ TypeOK
  /\ file = "ready" =>
    /\ Lineage(snapshots) /\ RunsInOrder
    /\ current.period = Cardinality(DOMAIN runs)
    /\ current.state = Tip(snapshots)

(* A dry run shows exactly what a later commit with the same options        *)
(* stores, whatever was committed in between ("the later --commit can       *)
(* reproduce the exact receipt").                                           *)
PreviewReproduced ==
  \A p \in Procs : said[p] # Nothing /\ ~ said[p].committed =>
    LET n == said[p].month
    IN n \in DOMAIN runs /\ runs[n].options = said[p].row.options =>
         runs[n] = said[p].row

(* The store implements the history its callers rely on.                    *)
History == INSTANCE CampaignHistory
             WITH Callers <- Procs, Entries <- Row,
                  created <- file = "ready", history <- runs,
                  told <- [p \in Procs |-> IF said[p] # Nothing /\ said[p].committed
                                           THEN <<said[p].month, said[p].row>> ELSE <<>>]
ImplementsHistory == History!Spec

(* A command ends: nobody waits forever, for the lock or for anything else. *)
EveryCommandEnds == \A p \in Procs : proc[p] # Idle ~> proc[p] = Idle
=============================================================================
