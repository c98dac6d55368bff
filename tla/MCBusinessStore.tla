-------------------------- MODULE MCBusinessStore ---------------------------
(* Three receipts: e1 and e2 of the same rows at different times, e3 of     *)
(* other rows at the time of e2.  One business, one month, two options.     *)
EXTENDS BusinessStore, TLC

MCSnapshotOf == ("e1" :> "rows1") @@ ("e2" :> "rows1") @@ ("e3" :> "rows2")
MCCapturedAt == ("e1" :> 1) @@ ("e2" :> 2) @@ ("e3" :> 2)
Symmetric == Permutations(Procs)
=============================================================================
