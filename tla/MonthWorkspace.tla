--------------------------- MODULE MonthWorkspace ---------------------------
(***************************************************************************)
(* whole_economy_cli.py: the directory in which the whole economy's months *)
(* are kept.  Every command opens the workspace by checking and replaying  *)
(* all of it; init and run-month --commit fill a directory of a temporary  *)
(* name and rename it into place.  Several processes may work on one       *)
(* workspace; any of them may die, and any write may fail.                 *)
(*                                                                         *)
(* The engine is deterministic, so the state, the result and the report of *)
(* month n are determined by n and by the input (scenario and seed) that   *)
(* the metadata seals.  A month directory is its number, the input it was  *)
(* made from and the files in it; files are never changed once written.    *)
(***************************************************************************)
EXTENDS Naturals, FiniteSets, SequencesExt

CONSTANTS Processes,
          Inputs,     \* a scenario and a seed, as given to init
          MaxMonth    \* bound: months that are run

VARIABLES workspace,  \* the input sealed in the metadata, or Absent
          months,     \* the directories in months/ that carry a number
          stray,      \* an abandoned temporary directory is in months/
          died,       \* a process has died at work
          reported,   \* months some command told its caller are committed
          command     \* what each process is doing

workspaceVars == <<workspace, months, stray, died, reported, command>>

Absent == "absent"
Idle == [stage |-> "idle"]
InitFiles == <<"metadata", "scenario", "opening">>
MonthFiles == <<"state", "result", "report">>

Numbers == {d.number : d \in months}
Latest == CHOOSE n \in Numbers : \A k \in Numbers : k <= n
Filled(d) == d.files = IF d.number = 0 THEN {"opening"} ELSE ToSet(MonthFiles)

\* Processes with a temporary directory inside months/.
Committing ==
  {p \in Processes : command[p].stage \in {"filling", "full", "checked", "failed"}
                       /\ command[p].number > 0}

\* The metadata seals an input, and all that makes the workspace a preview.
Sealed == workspace \in Inputs

\* State and result carry their own hashes and those of the month before: they
\* are reproduced by the engine from the sealed input, or refused.
Reproduced(d) == Filled(d) /\ d.input = workspace

\* _open_and_verify accepts numbered, complete months without a gap, each
\* reproduced from its predecessor, and nothing else beside them.
Openable ==
  /\ Sealed
  /\ ~ stray /\ Committing = {}
  /\ Numbers = 0..Latest
  /\ \A d \in months : Reproduced(d)

Become(p, c) == command' = [command EXCEPT ![p] = c]
OnDisk == <<workspace, months, stray, died, reported>>

\* init finds no workspace and starts to fill a directory beside it.
StartInit(p, i) ==
  /\ command[p] = Idle
  /\ workspace = Absent
  /\ Become(p, [stage |-> "filling", number |-> 0, input |-> i, left |-> InitFiles])
  /\ UNCHANGED OnDisk

\* run-month replays the history and computes the next month from it.
OpenToRun(p) ==
  /\ command[p] = Idle
  /\ Openable /\ Latest < MaxMonth
  /\ Become(p, [stage |-> "resolved", number |-> Latest + 1, input |-> workspace,
                left |-> MonthFiles])
  /\ UNCHANGED OnDisk

\* Without --commit the answer says so, and nothing was written.
AnswerDryRun(p) ==
  /\ command[p].stage = "resolved"
  /\ Become(p, Idle)
  /\ UNCHANGED OnDisk

\* report opens the workspace as well, and shows a month the caller may rely on;
\* a copy it exports lies outside.
Report(p, n) ==
  /\ command[p] = Idle
  /\ Openable /\ n \in 1..Latest
  /\ reported' = reported \cup {n}
  /\ UNCHANGED <<workspace, months, stray, died, command>>

\* verify says the same of the newest month.
Verify(p) ==
  /\ command[p] = Idle
  /\ Openable
  /\ reported' = reported \cup {Latest}
  /\ UNCHANGED <<workspace, months, stray, died, command>>

\* --commit: a month that is not there yet gets its temporary directory.
Stage(p) ==
  /\ command[p].stage = "resolved"
  /\ command[p].number \notin Numbers
  /\ Become(p, [command[p] EXCEPT !.stage = "filling"])
  /\ UNCHANGED OnDisk

Write(p) ==
  /\ command[p].stage = "filling" /\ command[p].left # <<>>
  /\ Become(p, [command[p] EXCEPT !.left = Tail(@)])
  /\ UNCHANGED OnDisk

Taken(c) == IF c.number = 0 THEN workspace # Absent ELSE c.number \in Numbers

\* Mutant: the last file is left for after the rename.
WrittenButLast(c) == Len(c.left) <= 1

Written(c) == c.left = <<>>

\* The place is looked at once more before the rename.
Recheck(p) ==
  /\ command[p].stage = "filling" /\ Written(command[p])
  /\ ~ Taken(command[p])
  /\ Become(p, [command[p] EXCEPT !.stage = "checked"])
  /\ UNCHANGED OnDisk

\* A rename onto a directory that holds files fails.
Publish(p) ==
  LET c == command[p]
      done == {MonthFiles[k] : k \in 1..(Len(MonthFiles) - Len(c.left))}
  IN /\ c.stage = "checked" /\ ~ Taken(c)
     /\ workspace' = IF c.number = 0 THEN c.input ELSE workspace
     /\ months' = months \cup {[number |-> c.number, input |-> c.input,
                                files |-> IF c.number = 0 THEN {"opening"} ELSE done]}
     /\ reported' = IF c.number = 0 THEN reported ELSE reported \cup {c.number}
     /\ Become(p, Idle)
     /\ UNCHANGED <<stray, died>>

\* A place that was taken meanwhile, or a write that fails, ends the command.
Fail(p) ==
  /\ \/ command[p].stage = "filling" /\ command[p].left # <<>>
     \/ command[p].stage \in {"filling", "checked", "resolved"} /\ Taken(command[p])
  /\ Become(p, IF command[p].stage = "resolved" THEN Idle
               ELSE [command[p] EXCEPT !.stage = "failed"])
  /\ UNCHANGED OnDisk

\* Mutant: the temporary directory is left behind.
LeaveStaging(p) ==
  /\ command[p].stage = "failed"
  /\ stray' = (stray \/ command[p].number > 0)
  /\ Become(p, Idle)
  /\ UNCHANGED <<workspace, months, died, reported>>

\* The handler removes the temporary directory and raises.
RemoveStaging(p) ==
  /\ command[p].stage = "failed"
  /\ Become(p, Idle)
  /\ UNCHANGED OnDisk

\* A process dies; what it was filling stays, for init outside the workspace.
Die(p) ==
  /\ command[p] # Idle
  /\ stray' = (stray \/ p \in Committing)
  /\ died' = TRUE
  /\ Become(p, Idle)
  /\ UNCHANGED <<workspace, months, reported>>

Init ==
  /\ workspace = Absent /\ months = {} /\ reported = {}
  /\ stray = FALSE /\ died = FALSE
  /\ command = [p \in Processes |-> Idle]

Step(p) ==
  \/ \E i \in Inputs : StartInit(p, i)
  \/ OpenToRun(p) \/ AnswerDryRun(p) \/ Verify(p) \/ Stage(p) \/ Write(p)
  \/ \E n \in 1..MaxMonth : Report(p, n)
  \/ Recheck(p) \/ Publish(p) \/ Fail(p) \/ RemoveStaging(p)

Next == \E p \in Processes : Step(p) \/ Die(p)

Spec == Init /\ [][Next]_workspaceVars
-----------------------------------------------------------------------------
(* Whatever processes race, fail or die, the workspace shows a history:     *)
(* every month from 0 on once and complete, all made from the input that    *)
(* its metadata seals, and every month a caller was told of is among them.  *)
SealedHistory ==
  workspace # Absent =>
    /\ Numbers = 0..Latest
    /\ Cardinality(months) = Cardinality(Numbers)
    /\ \A d \in months : Reproduced(d)
    /\ reported \subseteq Numbers

(* A workspace refuses to open only while a command is committing a month   *)
(* to it, or after a process died at work: a commit that failed, or lost    *)
(* its month to another process, leaves nothing behind.                     *)
OpensUnlessDeath ==
  workspace # Absent /\ Committing = {} /\ ~ died => Openable
=============================================================================
