-------------------------- MODULE MCFoodOpsServer ---------------------------
(* Two connections, to one server or to one each, and two plans that may be *)
(* saved under the same identities.                                         *)
EXTENDS FoodOpsServer, TLC

MCOneHome == [c \in Conns |-> CHOOSE s \in Servers : TRUE]
MCTwoHomes == CHOOSE f \in [Conns -> Servers] : \A s \in Servers : \E c \in Conns : f[c] = s
MCResult == [p \in Plans |-> IF p = "p1" THEN "r1" ELSE "r2"]
Symmetric == Permutations(Conns)
=============================================================================
