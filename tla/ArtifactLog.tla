---------------------------- MODULE ArtifactLog -----------------------------
(***************************************************************************)
(* What the preview stores (food_ops_store.py, business_store.py) promise  *)
(* their callers: a bundle is recorded under its key once and never        *)
(* changes, and whoever is told that a bundle is saved is told the one     *)
(* that is recorded.                                                       *)
(***************************************************************************)
CONSTANTS Callers, Keys, Bundles

VARIABLES log,   \* key |-> bundle, for the keys recorded so far
          told   \* caller |-> <<key, bundle>> of its latest answer, or <<>>

Init == log = <<>> /\ told = [c \in Callers |-> <<>>]

Record ==
  /\ \E k \in Keys \ DOMAIN log, b \in Bundles :
       log' = [x \in DOMAIN log \cup {k} |-> IF x = k THEN b ELSE log[x]]
  /\ UNCHANGED told

Tell(c) ==
  /\ \E k \in DOMAIN log : told' = [told EXCEPT ![c] = <<k, log[k]>>]
  /\ UNCHANGED log

Forget(c) == told' = [told EXCEPT ![c] = <<>>] /\ UNCHANGED log

Next == Record \/ \E c \in Callers : Tell(c) \/ Forget(c)

Spec == Init /\ [][Next]_<<log, told>>
=============================================================================
