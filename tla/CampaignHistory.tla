-------------------------- MODULE CampaignHistory ---------------------------
(***************************************************************************)
(* What operator_store.py promises its callers: one campaign is created,   *)
(* months are appended to its history one at a time and never change, and  *)
(* whatever a caller is told about a committed month is that month's entry *)
(* in the history.                                                         *)
(***************************************************************************)
EXTENDS Integers, Sequences

CONSTANTS Callers, Entries

VARIABLES created,   \* the campaign exists
          history,   \* the entries of its committed months
          told       \* what a caller's latest command said: <<month, entry>> or <<>>

Init == created = FALSE /\ history = <<>> /\ told = [p \in Callers |-> <<>>]

Create == ~ created /\ created' = TRUE /\ UNCHANGED <<history, told>>

Extend ==
  /\ created
  /\ Len(history') = Len(history) + 1
  /\ history' \in Seq(Entries)
  /\ \A n \in DOMAIN history : history'[n] = history[n]
  /\ UNCHANGED <<created, told>>

Tell(p) ==
  /\ \E n \in DOMAIN history : told' = [told EXCEPT ![p] = <<n, history[n]>>]
  /\ UNCHANGED <<created, history>>

Forget(p) == told' = [told EXCEPT ![p] = <<>>] /\ UNCHANGED <<created, history>>

Next == Create \/ Extend \/ \E p \in Callers : Tell(p) \/ Forget(p)

Spec == Init /\ [][Next]_<<created, history, told>>
=============================================================================
