------------------------- MODULE MCRegionalFinance --------------------------
(* Two businesses with equal means, two banks with equal reserves and a     *)
(* treasury; room for one loan.  At a rate of 1 a loan of 6 rounds to no    *)
(* monthly interest and one of 12 bears 1.                                  *)
EXTENDS RegionalFinance, TLC

CONSTANTS mill, town, north, south

MCOpening == [a \in OpeningAccounts |->
                IF a \in SettlementAccounts /\ a[1] \notin Treasuries THEN 6 ELSE 0]
Alike == Permutations(Enterprises) \cup Permutations(Banks)
=============================================================================
