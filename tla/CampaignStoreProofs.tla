------------------------ MODULE CampaignStoreProofs -------------------------
(***************************************************************************)
(* For any number of processes, months, seeds and faces: the database is   *)
(* always a chain, a dry run shows what a commit would store, and the      *)
(* store implements CampaignHistory.                                       *)
(***************************************************************************)
EXTENDS CampaignStore, FiniteSetTheorems, TLAPS

\* A month's row that the engine could have computed on a snapshot held here.
Computed(n, row) ==
  /\ row \in Row
  /\ row.manifest \in Rolls([options |-> row.options, period |-> n])
  /\ Len(row.parent) = n - 1 /\ Reproducible(row)

\* What is stored under a month, or told of it.
Answers == [committed : BOOLEAN, month : Nat, row : Row]
IsStored(answer) ==
  /\ answer \in Answers /\ answer.committed
  /\ answer.month \in DOMAIN runs /\ answer.row = runs[answer.month]
IsShown(answer) ==
  /\ answer \in Answers /\ ~ answer.committed
  /\ Computed(answer.month, answer.row) /\ answer.row.options # "secure"

\* What a process knows about the database where it is.
LocalOK(t) ==
  /\ t.at = "schema" => file = "reserved"
  /\ t.at = "opening" => file = "schema"
  /\ t.at \notin {"idle", "schema", "opening"} => file = "ready"
  /\ t.at \in {"lookup", "parent", "recheck"} => t.request \in Requests
  /\ t.at \in {"show", "begin", "check", "commit"} =>
       /\ t.request \in Requests /\ t.row.options = t.request.options
       /\ Computed(t.request.period, t.row)
       /\ t.at = "show" => ~ t.request.commit
  /\ t.at \in {"check", "commit"} => OptionsBound(t.row)
  /\ t.at = "commit" => Current(t.request.period, t.row) /\ Fits(t.request.period, t.row)
  /\ t.at = "answer" => IsStored(t.answer)

Functions == /\ proc = [p \in Procs |-> proc[p]]
             /\ said = [p \in Procs |-> said[p]]

Typed ==
  /\ file \in {"absent", "reserved", "schema", "ready"}
  /\ current \in [period : Nat, state : Seq(Manifest)]
  /\ snapshots \subseteq Seq(Manifest)
  /\ runs \in Seq(Row)
  /\ writer \in Procs \cup {NoProc}

Unmade == file # "ready" => current = [period |-> 0, state |-> Opening]
                              /\ snapshots = {} /\ runs = <<>>

\* The campaign row is at the newest snapshot, and every month has its run.
Chain ==
  /\ file = "ready" => Lineage(snapshots) /\ current.state \in snapshots
  /\ Len(current.state) = current.period /\ Len(runs) = current.period
  /\ \A s \in snapshots : Len(s) <= current.period
  /\ \A n \in DOMAIN runs :
       Computed(n, runs[n]) /\ OptionsBound(runs[n]) /\ Held(runs[n].closing)

Creating(p) == proc[p].at \in {"schema", "opening"}
OneCreator == \A p, q \in Procs : Creating(p) /\ Creating(q) => p = q
Locked == \A p \in Procs : proc[p].at \in {"check", "commit"} <=> writer = p
Located == \A p \in Procs : LocalOK(proc[p])
IsTrue(x) == x = Nothing \/ IsStored(x) \/ IsShown(x)
Honest == \A p \in Procs : IsTrue(said[p])

StoreInv ==
  /\ Functions /\ Typed /\ Unmade /\ Chain
  /\ OneCreator /\ Locked /\ Located /\ Honest
-----------------------------------------------------------------------------
(* A snapshot without its last month is its parent. *)
LEMMA ParentOfAppend ==
  ASSUME NEW state \in Seq(Manifest), NEW m \in Manifest
  PROVE  /\ Append(state, m) \in Seq(Manifest)
         /\ Len(Append(state, m)) = Len(state) + 1
         /\ Parent(Append(state, m)) = state
<1> DEFINE next == Append(state, m)
<1>1. next \in Seq(Manifest) /\ Len(next) = Len(state) + 1
  OBVIOUS
<1>2. \A i \in 1..Len(state) : next[i] = state[i]
  OBVIOUS
<1>3. Parent(next) \in Seq(Manifest) /\ Len(Parent(next)) = Len(state)
  BY <1>1, <1>2 DEF Parent
<1>4. \A i \in 1..Len(state) : Parent(next)[i] = state[i]
  BY <1>1, <1>2 DEF Parent
<1>5. Parent(next) = state
  BY <1>3, <1>4
<1> QED
  BY <1>1, <1>5

(* The empty sequence is not a record. *)
LEMMA AnswersAreSomething ==
  ASSUME NEW a \in Answers
  PROVE  a # Nothing
BY DEF Nothing, Answers

(* A step that leaves the database alone keeps the invariant if it leaves   *)
(* the process where it may be, with something true said.                   *)
LEMMA LocalStep ==
  ASSUME StoreInv, NEW p \in Procs, NEW t, Become(p, t), UNCHANGED db,
         NEW x, said' = [said EXCEPT ![p] = x], IsTrue(x),
         LocalOK(t), t.at \notin {"schema", "opening"},
         writer' \in Procs \cup {NoProc},
         t.at \in {"check", "commit"} <=> writer' = p,
         \A q \in Procs \ {p} : writer' = q <=> writer = q
  PROVE  StoreInv'
<1>1. /\ proc' = [q \in Procs |-> IF q = p THEN t ELSE proc[q]]
      /\ said' = [q \in Procs |-> IF q = p THEN x ELSE said[q]]
  BY DEF Become, StoreInv, Functions
<1>2. UNCHANGED <<file, current, snapshots, runs>>
  BY DEF db
<1>3. Functions'
  BY <1>1 DEF StoreInv, Functions
<1>4. Typed' /\ Unmade' /\ Chain'
  BY <1>2 DEF StoreInv, Typed, Unmade, Chain, Computed, Reproducible, Held, OptionsBound
<1>5. OneCreator' /\ Locked'
  BY <1>1 DEF StoreInv, OneCreator, Creating, Locked
<1>6. \A u : LocalOK(u)' <=> LocalOK(u)
  BY <1>2 DEF LocalOK, Computed, Reproducible, Held, OptionsBound, IsStored, Current, Fits
<1>7. Located'
  BY <1>1, <1>6 DEF StoreInv, Located
<1>8. \A u : IsTrue(u)' <=> IsTrue(u)
  BY <1>2 DEF IsTrue, IsStored, IsShown, Computed, Reproducible, Held
<1>9. Honest'
  BY <1>1, <1>8 DEF StoreInv, Honest
<1> QED
  BY <1>3, <1>4, <1>5, <1>7, <1>9 DEF StoreInv

(* The same of a step that says nothing. *)
LEMMA SilentStep ==
  ASSUME StoreInv, NEW p \in Procs, NEW t, Become(p, t), UNCHANGED <<db, said>>,
         LocalOK(t), t.at \notin {"schema", "opening"},
         writer' \in Procs \cup {NoProc},
         t.at \in {"check", "commit"} <=> writer' = p,
         \A q \in Procs \ {p} : writer' = q <=> writer = q
  PROVE  StoreInv'
<1>1. said' = [said EXCEPT ![p] = said[p]] /\ IsTrue(said[p])
  BY DEF StoreInv, Functions, Honest
<1> QED
  BY <1>1, LocalStep

(* Ending a command without an answer. *)
LEMMA RaiseStep ==
  ASSUME StoreInv, NEW p \in Procs, Raise(p), UNCHANGED <<db, said>>,
         writer' = IF writer = p THEN NoProc ELSE writer
  PROVE  StoreInv'
<1>1. LocalOK(Idle) /\ Idle.at = "idle"
  BY DEF LocalOK, Idle
<1> QED
  BY <1>1, SilentStep, ProcAssumption DEF Raise, StoreInv, Typed

(* Repeating a request whose month is committed answers what is stored. *)
LEMMA ReplayStep ==
  ASSUME StoreInv, NEW p \in Procs, proc[p].at \in {"lookup", "recheck"},
         Replay(p), UNCHANGED <<db, writer, said>>
  PROVE  StoreInv'
<1> DEFINE n == proc[p].request.period
           t == [at |-> "answer", answer |-> Stored(n)]
<1>1. writer # p /\ file = "ready" /\ proc[p].request \in Requests
  BY DEF StoreInv, Locked, Located, LocalOK
<1>2. CASE Raise(p)
  BY <1>1, <1>2, RaiseStep
<1>3. CASE Become(p, t) /\ n \in DOMAIN runs
  <2>1. IsStored(Stored(n))
    BY <1>3 DEF IsStored, Stored, StoreInv, Typed, Answers
  <2>2. LocalOK(t) /\ t.at = "answer"
    BY <1>1, <2>1 DEF LocalOK
  <2> QED
    BY <1>1, <1>3, <2>2, SilentStep DEF StoreInv, Typed
<1> QED
  BY <1>2, <1>3 DEF Replay
-----------------------------------------------------------------------------
(* What is rolled depends on the options and the month alone. *)
LEMMA RollsAreManifests ==
  ASSUME NEW r \in Requests, r.period <= MaxPeriod, NEW m \in Rolls(r)
  PROVE  m \in Manifest /\ m \in Rolls([options |-> r.options, period |-> r.period])
<1>1. /\ r.options \in Options /\ r.period \in 1..MaxPeriod
  BY PeriodAssumption DEF Requests
<1>2. CASE r.options = "none"
  BY <1>2 DEF Rolls, Manifest, Options
<1>3. CASE r.options = "secure"
  BY <1>3 DEF Rolls, Manifest, Options
<1>4. CASE r.options \notin {"none", "secure"}
  <2>1. r.options \in Seeds /\ <<r.options, r.period>> \in Seeds \X (1..MaxPeriod)
    BY <1>1, <1>4 DEF Options
  <2>2. SeedFaces[<<r.options, r.period>>] \in Faces
    BY <2>1, SeedAssumption
  <2>3. m = [options |-> r.options, faces |-> SeedFaces[<<r.options, r.period>>]]
    BY <1>4 DEF Rolls
  <2>4. m \in Rolls([options |-> r.options, period |-> r.period])
    BY <1>4, <2>3 DEF Rolls
  <2> QED
    BY <1>1, <2>2, <2>3, <2>4 DEF Manifest
<1> QED
  BY <1>2, <1>3, <1>4

(* A month computed from the newest snapshot. *)
LEMMA ReadParentStep ==
  ASSUME StoreInv, NEW p \in Procs, ReadParent(p)
  PROVE  StoreInv'
<1> DEFINE r == proc[p].request
<1>1. /\ file = "ready" /\ r \in Requests
      /\ writer # p /\ writer \in Procs \cup {NoProc}
  BY DEF ReadParent, At, StoreInv, Located, LocalOK, Locked, Typed
<1>2. CASE Raise(p)
  BY <1>1, <1>2, RaiseStep DEF ReadParent
<1>3. CASE Become(p, Goto(p, "recheck"))
  <2> DEFINE t == Goto(p, "recheck")
  <2>1. t.at = "recheck" /\ t.request = r
    BY DEF Goto
  <2>2. LocalOK(t)
    BY <1>1, <2>1 DEF LocalOK
  <2> QED
    BY <1>1, <1>3, <2>1, <2>2, SilentStep DEF ReadParent
<1>4. ASSUME NEW m \in Rolls(r), Held(current.state), Len(current.state) = proc[p].seen.period,
             r.period = proc[p].seen.period + 1, ~ (r.period > MaxPeriod),
             Become(p, [at |-> IF r.commit THEN "begin" ELSE "show", request |-> r,
                        row |-> [options |-> r.options, manifest |-> m,
                                 parent |-> current.state,
                                 closing |-> Append(current.state, m)]])
      PROVE  StoreInv'
  <2> DEFINE row == [options |-> r.options, manifest |-> m, parent |-> current.state,
                     closing |-> Append(current.state, m)]
             t == [at |-> IF r.commit THEN "begin" ELSE "show", request |-> r, row |-> row]
  <2>1. m \in Manifest /\ m \in Rolls([options |-> r.options, period |-> r.period])
    <3>1. r.period <= MaxPeriod
      BY <1>1, <1>4, PeriodAssumption DEF Requests
    <3> QED
      BY <1>1, <1>4, <3>1, RollsAreManifests
  <2>2. current.state \in Seq(Manifest)
    BY DEF StoreInv, Typed
  <2>3. Computed(r.period, row)
    <3>1. row \in Row
      BY <1>1, <2>1, <2>2 DEF Row, Requests
    <3>2. /\ row.parent = current.state /\ row.manifest = m /\ row.options = r.options
          /\ row.closing = Append(current.state, m)
      OBVIOUS
    <3>3. Len(row.parent) = r.period - 1
      BY <1>1, <1>4, <3>2 DEF Requests
    <3> HIDE DEF row
    <3> QED
      BY <1>4, <2>1, <3>1, <3>2, <3>3 DEF Computed, Reproducible
  <2>4. LocalOK(t) /\ t.at \in {"begin", "show"}
    BY <1>1, <2>3 DEF LocalOK
  <2> QED
    BY <1>1, <1>4, <2>4, SilentStep DEF ReadParent
<1> QED
  BY <1>2, <1>3, <1>4 DEF ReadParent

LEMMA BeginStep ==
  ASSUME StoreInv, NEW p \in Procs, Begin(p)
  PROVE  StoreInv'
<1> DEFINE t == Goto(p, "check")
<1>1. /\ t.at = "check" /\ t.request = proc[p].request /\ t.row = proc[p].row
      /\ LocalOK(proc[p]) /\ proc[p].at = "begin"
  BY DEF Begin, At, Goto, StoreInv, Located
<1>2. LocalOK(t)
  BY <1>1 DEF LocalOK, Begin
<1> QED
  BY <1>1, <1>2, SilentStep, ProcAssumption DEF Begin

LEMMA CheckStep ==
  ASSUME StoreInv, NEW p \in Procs, Check(p)
  PROVE  StoreInv'
<1> DEFINE n == proc[p].request.period
           row == proc[p].row
<1>1. proc[p].at = "check" /\ LocalOK(proc[p]) /\ writer = p /\ file = "ready"
  BY DEF Check, At, StoreInv, Located, Locked, LocalOK
<1>2. CASE Raise(p) /\ writer' = NoProc
  BY <1>1, <1>2, RaiseStep DEF Check
<1>3. CASE n \in DOMAIN runs /\ writer' = NoProc
             /\ Become(p, [at |-> "answer", answer |-> Stored(n)])
  <2> DEFINE t == [at |-> "answer", answer |-> Stored(n)]
  <2>1. IsStored(Stored(n))
    BY <1>3 DEF IsStored, Stored, StoreInv, Typed, Answers
  <2>2. LocalOK(t) /\ t.at = "answer"
    BY <1>1, <2>1 DEF LocalOK
  <2> QED
    BY <1>1, <1>3, <2>2, SilentStep, ProcAssumption DEF Check
<1>4. CASE /\ Current(n, row) /\ Fits(n, row)
           /\ Become(p, Goto(p, "commit")) /\ UNCHANGED writer
  <2> DEFINE t == Goto(p, "commit")
  <2>1. t.at = "commit" /\ t.request = proc[p].request /\ t.row = proc[p].row
    BY <1>1 DEF Goto
  <2>2. LocalOK(t)
    BY <1>1, <1>4, <2>1 DEF LocalOK
  <2> QED
    BY <1>1, <1>4, <2>1, <2>2, SilentStep DEF Check
<1> QED
  BY <1>2, <1>3, <1>4 DEF Check, Settle
-----------------------------------------------------------------------------
(* Reserving the file, its schema, and a failure: nothing is stored yet. *)
LEMMA CreatingStep ==
  ASSUME StoreInv, NEW p \in Procs,
         Reserve(p) \/ WriteSchema(p) \/ FailCreate(p)
  PROVE  StoreInv' /\ file # "ready" /\ file' # "ready"
<1>1. /\ file # "ready" /\ file' \in {"absent", "reserved", "schema"}
      /\ proc[p].at \in {"idle", "schema", "opening"}
      /\ writer # p /\ writer' = writer
      /\ UNCHANGED <<current, snapshots, runs, said>>
  BY DEF Reserve, WriteSchema, FailCreate, At, StoreInv, Located, LocalOK, Locked
<1>2. PICK t : /\ Become(p, t)
               /\ \/ t.at = "idle" /\ file' = "absent" /\ Creating(p)
                  \/ t.at = "schema" /\ file = "absent" /\ file' = "reserved"
                  \/ t.at = "opening" /\ file = "reserved" /\ file' = "schema" /\ Creating(p)
  BY DEF Reserve, WriteSchema, FailCreate, Raise, Idle, At, Creating,
         StoreInv, Located, LocalOK
<1>3. proc' = [q \in Procs |-> IF q = p THEN t ELSE proc[q]]
  BY <1>2 DEF Become, StoreInv, Functions
<1>4. \A q \in Procs \ {p} : proc[q].at = "idle"
  <2> SUFFICES ASSUME NEW q \in Procs \ {p}, proc[q].at # "idle" PROVE FALSE
    OBVIOUS
  <2>1. Creating(q) /\ file # "absent"
    BY <1>1 DEF StoreInv, Located, LocalOK, Creating
  <2> QED
    BY <1>2, <2>1 DEF StoreInv, OneCreator
<1>5. Functions' /\ OneCreator' /\ Locked'
  BY <1>1, <1>2, <1>3, <1>4 DEF StoreInv, Functions, OneCreator, Creating, Locked
<1>6. Typed' /\ Unmade' /\ Chain' /\ Honest'
  BY <1>1 DEF StoreInv, Typed, Unmade, Chain, Honest, IsTrue, Computed, Reproducible, Held,
              OptionsBound, IsStored, IsShown
<1>7. Located'
  BY <1>2, <1>3, <1>4 DEF Located, LocalOK
<1> QED
  BY <1>1, <1>5, <1>6, <1>7 DEF StoreInv

(* The campaign begins with its opening snapshot. *)
LEMMA WriteOpeningStep ==
  ASSUME StoreInv, NEW p \in Procs, WriteOpening(p)
  PROVE  StoreInv' /\ file # "ready"
<1>1. /\ file = "schema" /\ snapshots = {} /\ runs = <<>>
      /\ current = [period |-> 0, state |-> Opening] /\ writer # p
  BY DEF WriteOpening, At, StoreInv, Located, LocalOK, Locked, Unmade
<1>2. /\ file' = "ready" /\ snapshots' = {Opening} /\ current' = current
      /\ UNCHANGED <<runs, writer, said>>
      /\ proc' = [q \in Procs |-> IF q = p THEN Idle ELSE proc[q]]
  BY <1>1 DEF WriteOpening, Become, StoreInv, Functions
<1>3. \A q \in Procs \ {p} : proc[q].at = "idle"
  BY <1>1 DEF WriteOpening, At, StoreInv, Located, LocalOK, OneCreator, Creating
<1>4. Functions' /\ OneCreator' /\ Locked'
  BY <1>1, <1>2, <1>3 DEF StoreInv, Functions, OneCreator, Creating, Locked, Idle
<1>5. Opening \in Seq(Manifest) /\ Len(Opening) = 0
  BY DEF Opening
<1>6. Typed' /\ Unmade' /\ Chain'
  BY <1>1, <1>2, <1>5 DEF StoreInv, Typed, Unmade, Chain, Lineage
<1>7. \A q \in Procs : said[q] = Nothing
  BY <1>1 DEF StoreInv, Honest, IsTrue, IsStored, IsShown, Computed, Reproducible, Held
<1>8. Located' /\ Honest'
  BY <1>2, <1>3, <1>7 DEF Located, LocalOK, Honest, IsTrue, Idle
<1> QED
  BY <1>1, <1>4, <1>6, <1>8 DEF StoreInv
-----------------------------------------------------------------------------
(* Committing a month adds its run, its snapshot, and moves the campaign    *)
(* row to them.                                                             *)
LEMMA CommitAppends ==
  ASSUME StoreInv, NEW p \in Procs, Commit(p)
  PROVE  LET n == proc[p].request.period
             row == proc[p].row
         IN /\ file = "ready" /\ Computed(n, row) /\ OptionsBound(row) /\ Current(n, row)
            /\ n = Len(runs) + 1 /\ n = current.period + 1
            /\ runs' \in Seq(Row) /\ Len(runs') = n
            /\ runs'[n] = row /\ \A k \in DOMAIN runs : runs'[k] = runs[k]
            /\ row.closing \in Seq(Manifest) /\ Len(row.closing) = n
            /\ Parent(row.closing) = row.parent
<1> DEFINE n == proc[p].request.period
           row == proc[p].row
<1>1. /\ file = "ready" /\ Computed(n, row) /\ OptionsBound(row) /\ Current(n, row)
  BY DEF Commit, At, StoreInv, Located, LocalOK
<1>2. /\ runs \in Seq(Row) /\ current.period \in Nat /\ Len(runs) = current.period
      /\ current.state \in Seq(Manifest)
  BY DEF StoreInv, Typed, Chain
<1>3. n = Len(runs) + 1 /\ n = current.period + 1 /\ DOMAIN runs \cup {n} = 1..n
  BY <1>1, <1>2 DEF Current
<1>4. row \in Row
  BY <1>1 DEF Computed
<1>5. runs' = [k \in 1..n |-> IF k = n THEN row ELSE runs[k]]
  BY <1>3 DEF Commit
<1>6. /\ runs' \in Seq(Row) /\ Len(runs') = n
      /\ runs'[n] = row /\ \A k \in DOMAIN runs : runs'[k] = runs[k]
  <2> HIDE DEF n, row
  <2>1. \A k \in 1..n : runs'[k] \in Row
    BY <1>2, <1>3, <1>4, <1>5
  <2>2. runs' \in [1..n -> Row]
    BY <1>5, <2>1
  <2>3. n \in Nat
    BY <1>2, <1>3
  <2> QED
    BY <1>2, <1>3, <1>5, <2>2, <2>3
<1>7. /\ row.parent \in Seq(Manifest) /\ row.manifest \in Manifest
      /\ row.closing = Append(row.parent, row.manifest) /\ Len(row.parent) = n - 1
  BY <1>1, <1>4 DEF Computed, Reproducible, Row
<1>8. /\ row.closing \in Seq(Manifest) /\ Len(row.closing) = n
      /\ Parent(row.closing) = row.parent
  <2>1. Len(row.parent) + 1 = n
    BY <1>2, <1>3, <1>7
  <2> QED
    BY <1>7, <2>1, ParentOfAppend
<1> QED
  BY <1>1, <1>3, <1>6, <1>8

LEMMA CommitStep ==
  ASSUME StoreInv, NEW p \in Procs, Commit(p)
  PROVE  StoreInv'
<1> DEFINE n == proc[p].request.period
           row == proc[p].row
<1>0. PICK a, t : /\ a = [committed |-> TRUE, month |-> n, row |-> row]
                  /\ t = [at |-> "answer", answer |-> a]
  OBVIOUS
<1>1. /\ file = "ready" /\ Computed(n, row) /\ OptionsBound(row) /\ Current(n, row)
      /\ n = Len(runs) + 1 /\ n = current.period + 1
      /\ runs' \in Seq(Row) /\ Len(runs') = n
      /\ runs'[n] = row /\ \A k \in DOMAIN runs : runs'[k] = runs[k]
      /\ row.closing \in Seq(Manifest) /\ Len(row.closing) = n
      /\ Parent(row.closing) = row.parent
  BY CommitAppends
<1>2. /\ snapshots' = snapshots \cup {row.closing}
      /\ current' = [period |-> n, state |-> row.closing]
      /\ writer = p /\ writer' = NoProc /\ file' = file /\ said' = said
      /\ proc' = [q \in Procs |-> IF q = p THEN t ELSE proc[q]]
  BY <1>0 DEF Commit, Become, At, StoreInv, Locked, Functions
<1>3. /\ runs \in Seq(Row) /\ current.period \in Nat /\ n \in Nat
      /\ DOMAIN runs = 1..(n - 1) /\ DOMAIN runs' = 1..n
  BY <1>1 DEF StoreInv, Typed
<1>4. Typed' /\ Unmade'
  <2>1. /\ snapshots' \subseteq Seq(Manifest) /\ current'.period = n
        /\ current'.state = row.closing
    BY <1>1, <1>2 DEF StoreInv, Typed
  <2>2. file' = "ready" /\ writer' = NoProc /\ NoProc \notin Procs
    BY <1>1, <1>2, ProcAssumption
  <2>3. current' \in [period : Nat, state : Seq(Manifest)]
    BY <1>1, <1>2, <1>3
  <2> QED
    BY <1>1, <1>2, <1>3, <2>1, <2>2, <2>3 DEF StoreInv, Typed, Unmade
<1>5. \A k, x : Computed(k, x) => Computed(k, x)'
  BY <1>2 DEF Computed, Reproducible, Held
<1>6. Chain'
  <2>1. /\ Lineage(snapshots) /\ snapshots \subseteq Seq(Manifest)
        /\ row.parent \in snapshots
        /\ \A s \in snapshots : Len(s) <= n - 1
    BY <1>1 DEF StoreInv, Chain, Typed, Computed, Reproducible, Held
  <2>2. Lineage(snapshots')
    <3>1. \A s \in snapshots : Len(s) # n
      BY <1>3, <2>1
    <3> QED
      BY <1>1, <1>2, <2>1, <3>1 DEF Lineage
  <2>3. /\ current'.state \in snapshots' /\ Len(current'.state) = current'.period
        /\ Len(runs') = current'.period
    BY <1>1, <1>2
  <2>4. \A s \in snapshots' : Len(s) <= current'.period
    BY <1>1, <1>2, <1>3, <2>1
  <2>5. (\A k \in DOMAIN runs :
           Computed(k, runs[k]) /\ OptionsBound(runs[k]) /\ Held(runs[k].closing))'
    <3> SUFFICES ASSUME NEW k \in DOMAIN runs'
                 PROVE  (Computed(k, runs[k]) /\ OptionsBound(runs[k]) /\ Held(runs[k].closing))'
      OBVIOUS
    <3>1. PICK x : x = runs'[k]
      OBVIOUS
    <3>2. Computed(k, x) /\ OptionsBound(x) /\ x.closing \in snapshots'
      BY <1>1, <1>2, <1>3, <3>1 DEF StoreInv, Chain, Held
    <3>3. Computed(k, x)'
      BY <1>5, <3>2
    <3> QED
      BY <3>1, <3>2, <3>3 DEF Held, OptionsBound
  <2> QED
    BY <1>2, <2>2, <2>3, <2>4, <2>5 DEF Chain, Held
<1>7. \A x : IsStored(x) => IsStored(x)'
  BY <1>1, <1>3 DEF IsStored
<1>8. \A x : IsTrue(x) => IsTrue(x)'
  BY <1>5, <1>7 DEF IsTrue, IsShown
<1>9. IsStored(a)'
  BY <1>0, <1>1, <1>3 DEF IsStored, Computed, Answers
<1>10. \A q \in Procs \ {p} : LocalOK(proc[q])'
  <2> SUFFICES ASSUME NEW q \in Procs \ {p} PROVE LocalOK(proc[q])'
    OBVIOUS
  <2>1. LocalOK(proc[q]) /\ proc[q].at \notin {"check", "commit"} /\ proc'[q] = proc[q]
    BY <1>2 DEF StoreInv, Located, Locked
  <2> QED
    BY <1>2, <1>5, <1>7, <2>1 DEF LocalOK
<1>11. LocalOK(t)'
  BY <1>0, <1>1, <1>2, <1>9 DEF LocalOK
<1>12. Located' /\ Honest'
  BY <1>2, <1>8, <1>10, <1>11 DEF Located, Honest, StoreInv
<1>13. Functions' /\ OneCreator' /\ Locked'
  BY <1>0, <1>2, ProcAssumption DEF StoreInv, Functions, OneCreator, Creating, Locked
<1> QED
  BY <1>4, <1>6, <1>12, <1>13 DEF StoreInv

(* Opening the store for a run or a verification, and what they end with.   *)
LEMMA ReadingStep ==
  ASSUME StoreInv, NEW p \in Procs,
         \/ \E r \in Requests : Open(p, r)
         \/ VerifyCampaign(p) \/ VerifyLineage(p) \/ VerifyMonths(p)
         \/ Show(p) \/ Answer(p)
  PROVE  StoreInv' /\ UNCHANGED db
<1>1. /\ file = "ready" /\ writer # p /\ writer' = writer /\ UNCHANGED db
      /\ LocalOK(proc[p])
  BY DEF Open, VerifyCampaign, VerifyLineage, VerifyMonths, Show, Answer, At,
         StoreInv, Located, LocalOK, Locked
<1>2. \A t : (t.at \in {"idle", "lineage", "months", "alarm"}
                  \/ (t.at = "lookup" /\ t.request \in Requests))
             => LocalOK(t) /\ t.at \notin {"schema", "opening", "check", "commit"}
  BY <1>1 DEF LocalOK
<1>3. PICK t : /\ Become(p, t)
               /\ \/ t.at \in {"idle", "lineage", "months", "alarm"}
                  \/ t.at = "lookup" /\ t.request \in Requests
  <2>1. CASE VerifyLineage(p)
    BY <2>1 DEF VerifyLineage
  <2>2. CASE VerifyMonths(p) \/ Show(p) \/ Answer(p)
    <3>1. PICK t : Become(p, t) /\ (t = Idle \/ t = [at |-> "alarm"])
      BY <2>2 DEF VerifyMonths, Show, Answer
    <3> QED
      BY <3>1 DEF Idle
  <2>3. CASE VerifyCampaign(p)
    BY <2>3 DEF VerifyCampaign
  <2>4. ASSUME NEW r \in Requests, Open(p, r)
        PROVE  \E t : Become(p, t) /\ t.at = "lookup" /\ t.request \in Requests
    <3> DEFINE t == [at |-> "lookup", request |-> r, seen |-> current]
    <3>1. Become(p, t) /\ t.at = "lookup" /\ t.request = r
      BY <2>4 DEF Open
    <3> HIDE DEF t
    <3> QED
      BY <3>1
  <2> QED
    BY <2>1, <2>2, <2>3, <2>4
<1>4. PICK x : said' = [said EXCEPT ![p] = x] /\ IsTrue(x)
  <2>1. CASE VerifyLineage(p) \/ VerifyMonths(p)
    <3>1. said' = [said EXCEPT ![p] = said[p]] /\ IsTrue(said[p])
      BY <2>1 DEF VerifyLineage, VerifyMonths, StoreInv, Functions, Honest
    <3> QED
      BY <3>1
  <2>2. CASE VerifyCampaign(p) \/ \E r \in Requests : Open(p, r)
    BY <2>2 DEF VerifyCampaign, Open, IsTrue
  <2>3. CASE Show(p)
    <3> DEFINE x == [committed |-> FALSE, month |-> proc[p].request.period,
                     row |-> proc[p].row]
    <3>1. /\ proc[p].request \in Requests /\ ~ proc[p].request.commit
          /\ proc[p].row.options = proc[p].request.options
          /\ Computed(proc[p].request.period, proc[p].row)
      BY <1>1, <2>3 DEF Show, At, LocalOK
    <3>2. IsShown(x)
      BY <3>1, PeriodAssumption DEF IsShown, Computed, Requests, Answers
    <3> QED
      BY <2>3, <3>2 DEF Show, IsTrue
  <2>4. CASE Answer(p)
    BY <1>1, <2>4 DEF Answer, At, LocalOK, IsTrue
  <2> QED
    BY <2>1, <2>2, <2>3, <2>4
<1>5. LocalOK(t) /\ t.at \notin {"schema", "opening", "check", "commit"}
  BY <1>2, <1>3
<1>6. /\ writer' \in Procs \cup {NoProc} /\ writer' # p
      /\ \A q \in Procs \ {p} : writer' = q <=> writer = q
  BY <1>1 DEF StoreInv, Typed
<1> QED
  BY <1>1, <1>3, <1>4, <1>5, <1>6, LocalStep

LEMMA LookupStep ==
  ASSUME StoreInv, NEW p \in Procs, Lookup(p) \/ Recheck(p)
  PROVE  StoreInv'
<1>1. /\ file = "ready" /\ writer # p /\ proc[p].at \in {"lookup", "recheck"}
      /\ proc[p].request \in Requests /\ UNCHANGED <<db, writer, said>>
  BY DEF Lookup, Recheck, At, StoreInv, Located, LocalOK, Locked
<1>2. CASE Replay(p)
  BY <1>1, <1>2, ReplayStep
<1>3. CASE Raise(p)
  BY <1>1, <1>3, RaiseStep
<1>4. CASE Become(p, Goto(p, "parent"))
  <2> DEFINE t == Goto(p, "parent")
  <2>1. t.at = "parent" /\ t.request = proc[p].request
    BY <1>1 DEF Goto
  <2>2. LocalOK(t)
    BY <1>1, <2>1 DEF LocalOK
  <2>3. /\ t.at \notin {"schema", "opening"} /\ writer' \in Procs \cup {NoProc}
        /\ t.at \in {"check", "commit"} <=> writer' = p
        /\ \A q \in Procs \ {p} : writer' = q <=> writer = q
    BY <1>1, <2>1 DEF StoreInv, Typed
  <2>4. Become(p, t) /\ UNCHANGED <<db, said>>
    BY <1>1, <1>4
  <2> HIDE DEF t
  <2> QED
    BY <2>1, <2>2, <2>3, <2>4, SilentStep
<1> QED
  BY <1>2, <1>3, <1>4 DEF Lookup, Recheck

(* Commands that end without an answer, a failed COMMIT, a dying process.   *)
LEMMA EndingStep ==
  ASSUME StoreInv, NEW p \in Procs,
         Busy(p) \/ FailCommit(p) \/ Alarm(p) \/ Crash(p)
  PROVE  StoreInv'
<1>1. Raise(p) /\ UNCHANGED <<db, said>>
  BY DEF Busy, FailCommit, Alarm, Crash, Raise
<1>2. writer' = IF writer = p THEN NoProc ELSE writer
  BY DEF Busy, FailCommit, Alarm, Crash, At, StoreInv, Locked
<1> QED
  BY <1>1, <1>2, RaiseStep
-----------------------------------------------------------------------------
LEMMA InitHolds == Init => StoreInv
<1> SUFFICES ASSUME Init PROVE StoreInv
  OBVIOUS
<1>1. Opening \in Seq(Manifest) /\ Len(Opening) = 0
  BY DEF Opening
<1>2. \A p \in Procs : proc[p] = [at |-> "idle"] /\ said[p] = Nothing
  BY DEF Init, Idle
<1>3. Typed /\ Unmade /\ Chain
  BY <1>1 DEF Init, Typed, Unmade, Chain
<1>4. Functions /\ OneCreator /\ Honest
  BY <1>2 DEF Init, Functions, OneCreator, Creating, Honest, IsTrue
<1>5. Locked /\ Located
  BY <1>2, ProcAssumption DEF Init, Locked, Located, LocalOK
<1> QED
  BY <1>3, <1>4, <1>5 DEF StoreInv

LEMMA NextHolds == StoreInv /\ [Next]_vars => StoreInv'
<1> SUFFICES ASSUME StoreInv, [Next]_vars PROVE StoreInv'
  OBVIOUS
<1>1. CASE UNCHANGED vars
  <2> USE <1>1 DEF vars
  <2>1. Functions' /\ Typed' /\ Unmade' /\ OneCreator' /\ Locked'
    BY DEF StoreInv, Functions, Typed, Unmade, OneCreator, Creating, Locked
  <2>2. Chain'
    BY DEF StoreInv, Chain, Computed, Reproducible, Held, OptionsBound
  <2>3. \A u : LocalOK(u)' <=> LocalOK(u)
    BY DEF LocalOK, Computed, Reproducible, Held, OptionsBound, IsStored, Current, Fits
  <2>4. Located'
    BY <2>3 DEF StoreInv, Located
  <2>5. \A u : IsTrue(u)' <=> IsTrue(u)
    BY DEF IsTrue, IsStored, IsShown, Computed, Reproducible, Held
  <2>6. Honest'
    BY <2>5 DEF StoreInv, Honest
  <2> QED
    BY <2>1, <2>2, <2>4, <2>6 DEF StoreInv
<1>2. ASSUME NEW p \in Procs,
             \/ Reserve(p) \/ VerifyCampaign(p) \/ \E r \in Requests : Open(p, r)
             \/ Progress(p) \/ Crash(p)
      PROVE  StoreInv'
  <2>1. CASE Reserve(p) \/ WriteSchema(p) \/ FailCreate(p)
    BY <2>1, CreatingStep
  <2>2. CASE WriteOpening(p)
    BY <2>2, WriteOpeningStep
  <2>3. CASE \/ \E r \in Requests : Open(p, r)
             \/ VerifyCampaign(p) \/ VerifyLineage(p) \/ VerifyMonths(p)
             \/ Show(p) \/ Answer(p)
    BY <2>3, ReadingStep
  <2>4. CASE Lookup(p) \/ Recheck(p)
    BY <2>4, LookupStep
  <2>5. CASE ReadParent(p)
    BY <2>5, ReadParentStep
  <2>6. CASE Begin(p)
    BY <2>6, BeginStep
  <2>7. CASE Check(p)
    BY <2>7, CheckStep
  <2>8. CASE Commit(p)
    BY <2>8, CommitStep
  <2>9. CASE Busy(p) \/ FailCommit(p) \/ Alarm(p) \/ Crash(p)
    BY <2>9, EndingStep
  <2> QED
    BY <1>2, <2>1, <2>2, <2>3, <2>4, <2>5, <2>6, <2>7, <2>8, <2>9 DEF Progress
<1> QED
  BY <1>1, <1>2 DEF Next

(* The database, every process and every answer agree with each other.      *)
THEOREM Invariant == Spec => []StoreInv
BY InitHolds, NextHolds, PTL DEF Spec
-----------------------------------------------------------------------------
(* In a chain the longest snapshot is the one the campaign row names.       *)
LEMMA TipIsCurrent ==
  ASSUME StoreInv, file = "ready"
  PROVE  current.state = Tip(snapshots)
<1>1. /\ current.state \in snapshots /\ snapshots \subseteq Seq(Manifest)
      /\ \A s \in snapshots : Len(s) <= Len(current.state)
      /\ \A s, t \in snapshots : Len(s) = Len(t) => s = t
  BY DEF StoreInv, Typed, Chain, Lineage
<1>2. /\ Tip(snapshots) \in snapshots
      /\ \A t \in snapshots : Len(t) <= Len(Tip(snapshots))
  BY <1>1 DEF Tip
<1>3. Len(Tip(snapshots)) <= Len(current.state) /\ Len(current.state) <= Len(Tip(snapshots))
  BY <1>1, <1>2
<1>4. Len(Tip(snapshots)) \in Nat /\ Len(current.state) \in Nat
  BY <1>1, <1>2
<1>5. Len(Tip(snapshots)) = Len(current.state)
  BY <1>3, <1>4
<1> QED
  BY <1>1, <1>2, <1>5

LEMMA InvImpliesChain == StoreInv => HistoryIsAChain
<1> SUFFICES ASSUME StoreInv PROVE HistoryIsAChain
  OBVIOUS
<1>1. runs \in Seq(Row) /\ DOMAIN runs = 1..Len(runs) /\ Len(runs) \in Nat
  BY DEF StoreInv, Typed
<1>2. \A n \in DOMAIN runs : runs[n] \in Row
  BY <1>1
<1>3. TypeOK
  <2>1. \A p \in Procs : said[p] # Nothing =>
          said[p] \in [committed : BOOLEAN, month : Nat, row : Row]
    BY DEF StoreInv, Honest, IsTrue, IsStored, IsShown, Answers
  <2> QED
    BY <1>1, <1>2, <2>1 DEF TypeOK, StoreInv, Typed
<1>4. Cardinality(DOMAIN runs) = Len(runs)
  BY <1>1, FS_Interval
<1>5. RunsInOrder
  BY <1>1, <1>4 DEF RunsInOrder, StoreInv, Chain, Computed
<1> QED
  BY <1>3, <1>4, <1>5, TipIsCurrent DEF HistoryIsAChain, StoreInv, Chain

(* What verify looks for holds at every instant, whichever processes race   *)
(* and wherever they die.                                                   *)
THEOREM AlwaysAChain == Spec => []HistoryIsAChain
BY Invariant, InvImpliesChain, PTL

(* A month has one parent, and options other than secure dice one manifest: *)
(* two rows computed for it with the same options are the same.             *)
LEMMA ComputedOnce ==
  ASSUME StoreInv, NEW n, NEW x, NEW y, Computed(n, x), Computed(n, y),
         x.options = y.options, x.options # "secure"
  PROVE  x = y
<1>1. file = "ready"
  BY DEF StoreInv, Unmade, Computed, Reproducible, Held
<1>2. x.parent = y.parent
  BY <1>1 DEF StoreInv, Chain, Lineage, Computed, Reproducible, Held
<1>3. x.manifest = y.manifest
  BY DEF Computed, Rolls
<1>4. x.closing = y.closing
  BY <1>2, <1>3 DEF Computed, Reproducible
<1> QED
  BY <1>2, <1>3, <1>4 DEF Computed, Row

LEMMA InvImpliesReproduced == StoreInv => PreviewReproduced
<1> SUFFICES ASSUME StoreInv, NEW p \in Procs, said[p] # Nothing, ~ said[p].committed,
                    said[p].month \in DOMAIN runs,
                    runs[said[p].month].options = said[p].row.options
             PROVE  runs[said[p].month] = said[p].row
  BY DEF PreviewReproduced
<1>1. IsShown(said[p])
  BY DEF StoreInv, Honest, IsTrue, IsStored
<1>2. Computed(said[p].month, runs[said[p].month])
  BY DEF StoreInv, Chain
<1> QED
  BY <1>1, <1>2, ComputedOnce DEF IsShown

(* A dry run shows what a later commit with the same options stores.        *)
THEOREM AlwaysReproduced == Spec => []PreviewReproduced
BY Invariant, InvImpliesReproduced, PTL
-----------------------------------------------------------------------------
Told == [p \in Procs |-> IF said[p] # Nothing /\ said[p].committed
                         THEN <<said[p].month, said[p].row>> ELSE <<>>]

(* An answer is the entry of a month in the history. *)
LEMMA AnswerTells ==
  ASSUME StoreInv, NEW p \in Procs, Answer(p)
  PROVE  History!Tell(p)
<1> DEFINE a == proc[p].answer
<1>1. IsStored(a) /\ UNCHANGED <<file, runs>>
  BY DEF Answer, At, db, StoreInv, Located, LocalOK
<1>2. runs \in Seq(Row) /\ a.month \in DOMAIN runs /\ a.committed
      /\ a.row = runs[a.month]
  BY <1>1 DEF IsStored, StoreInv, Typed
<1>3. a # Nothing
  BY <1>1, AnswersAreSomething DEF IsStored
<1>4. said' = [q \in Procs |-> IF q = p THEN a ELSE said[q]]
  BY DEF Answer, StoreInv, Functions
<1>5. Told' = [Told EXCEPT ![p] = <<a.month, runs[a.month]>>]
  BY <1>2, <1>3, <1>4 DEF Told
<1> QED
  BY <1>1, <1>2, <1>5 DEF History!Tell, Told

(* A command that begins, or ends in a dry run, withdraws the last answer.  *)
LEMMA OtherwiseForgotten ==
  ASSUME StoreInv, NEW p \in Procs,
         VerifyCampaign(p) \/ Show(p) \/ \E r \in Requests : Open(p, r)
  PROVE  History!Forget(p)
<1>1. PICK x : /\ said' = [said EXCEPT ![p] = x]
               /\ x = Nothing \/ x.committed = FALSE
  <2>1. CASE Show(p)
    <3> DEFINE x == [committed |-> FALSE, month |-> proc[p].request.period,
                     row |-> proc[p].row]
    <3>1. said' = [said EXCEPT ![p] = x] /\ x.committed = FALSE
      BY <2>1 DEF Show
    <3> HIDE DEF x
    <3> QED
      BY <3>1
  <2>2. CASE VerifyCampaign(p) \/ \E r \in Requests : Open(p, r)
    <3>1. said' = [said EXCEPT ![p] = Nothing]
      BY <2>2 DEF VerifyCampaign, Open
    <3> QED
      BY <3>1
  <2> QED
    BY <2>1, <2>2
<1>2. UNCHANGED <<file, runs>>
  BY DEF VerifyCampaign, Show, Open, db
<1>3. said' = [q \in Procs |-> IF q = p THEN x ELSE said[q]]
  BY <1>1 DEF StoreInv, Functions
<1>4. Told' = [Told EXCEPT ![p] = <<>>]
  BY <1>1, <1>3 DEF Told
<1> QED
  BY <1>2, <1>4 DEF History!Forget, Told

LEMMA InitMaps == Init => History!Init
BY DEF Init, History!Init, Nothing

(* Each step extends the history by one month, tells or withdraws one       *)
(* answer, creates the campaign, or changes nothing of this.                *)
LEMMA StepMaps ==
  StoreInv /\ [Next]_vars
    => [History!Next]_<<file = "ready", runs, Told>>
<1> SUFFICES ASSUME StoreInv, [Next]_vars
             PROVE  History!Next \/ UNCHANGED <<file = "ready", runs, Told>>
  OBVIOUS
<1>1. \A x : x = said' /\ said = x => Told' = Told
  BY DEF Told
<1>2. CASE UNCHANGED vars
  BY <1>2, <1>1 DEF vars
<1>3. ASSUME NEW p \in Procs,
             \/ Reserve(p) \/ VerifyCampaign(p) \/ \E r \in Requests : Open(p, r)
             \/ Progress(p) \/ Crash(p)
      PROVE  History!Next \/ UNCHANGED <<file = "ready", runs, Told>>
  <2>1. CASE WriteOpening(p)
    <3>1. file # "ready" /\ file' = "ready" /\ said' = said /\ runs' = runs
      BY <2>1, WriteOpeningStep DEF WriteOpening
    <3> QED
      BY <1>1, <3>1 DEF History!Next, History!Create, Told
  <2>2. CASE Commit(p)
    <3>1. /\ file = "ready" /\ runs' \in Seq(Row) /\ runs \in Seq(Row)
          /\ Len(runs') = Len(runs) + 1
          /\ \A k \in DOMAIN runs : runs'[k] = runs[k]
      BY <2>2, CommitAppends DEF StoreInv, Typed
    <3>2. UNCHANGED <<file, said>>
      BY <2>2 DEF Commit
    <3> QED
      BY <1>1, <3>1, <3>2 DEF History!Next, History!Extend, Told
  <2>3. CASE Answer(p)
    BY <2>3, AnswerTells DEF History!Next
  <2>4. CASE VerifyCampaign(p) \/ Show(p) \/ \E r \in Requests : Open(p, r)
    BY <2>4, OtherwiseForgotten DEF History!Next
  <2>5. CASE Reserve(p) \/ WriteSchema(p) \/ FailCreate(p)
    <3>1. file # "ready" /\ file' # "ready"
      BY <2>5, CreatingStep
    <3>2. UNCHANGED <<runs, said>>
      BY <2>5 DEF Reserve, WriteSchema, FailCreate
    <3> QED
      BY <1>1, <3>1, <3>2
  <2>6. CASE \/ Lookup(p) \/ ReadParent(p) \/ Recheck(p) \/ Begin(p) \/ Busy(p) \/ Check(p)
             \/ FailCommit(p) \/ VerifyLineage(p) \/ VerifyMonths(p) \/ Alarm(p) \/ Crash(p)
    <3>1. UNCHANGED <<file, runs, said>>
      BY <2>6 DEF Lookup, ReadParent, Recheck, Begin, Busy, Check, FailCommit, VerifyLineage,
                  VerifyMonths, Alarm, Crash, db
    <3> QED
      BY <1>1, <3>1
  <2> QED
    BY <1>3, <2>1, <2>2, <2>3, <2>4, <2>5, <2>6 DEF Progress
<1> QED
  BY <1>2, <1>3 DEF Next

(* The store implements the history its callers rely on: months are         *)
(* appended and never change, whatever is told of one is what is stored.    *)
THEOREM Implements == Spec => ImplementsHistory
<1>1. Init => History!Init
  BY InitMaps
<1>2. StoreInv /\ [Next]_vars => [History!Next]_<<file = "ready", runs, Told>>
  BY StepMaps
<1> QED
  BY <1>1, <1>2, Invariant, PTL DEF Spec, ImplementsHistory, History!Spec, Told
=============================================================================
