---------------------------- MODULE MCWorkspaces ----------------------------
(* Two processes, two inputs, two months; two operations whose gates share  *)
(* an occurrence, and three events; three pages of a collection, read one   *)
(* or two at a time in up to two attempts.                                  *)
EXTENDS Workspaces, TLC

Gates == "met" :> {"arrival"} @@ "joined" :> {"arrival", "alliance"}

Symmetric == Permutations(Processes) \cup Permutations(Inputs)
=============================================================================
