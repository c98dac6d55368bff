--------------------------- MODULE MCJournalBook ----------------------------
(* Two source keys under an outdated model version beside the current one,  *)
(* with envelopes that have authority and such that lack it.  An account    *)
(* closes on day 2.                                                         *)
EXTENDS JournalBook, TLC

MCBodies == {[phase |-> "finance", amount |-> 3, interest |-> 1, currency |-> "GP"]}
MCChart == [a \in NCFAccounts \cup TreasuryAccounts |->
              [opened |-> 1, closed |-> IF a = "Interest" THEN 2 ELSE Never,
               currencies |-> {"GP"}]]
Symmetric == Permutations(Keys)
=============================================================================
