------------------------- MODULE MCActualTimeline ---------------------------
(* An opening and two months of at most two orders each, by one entity.     *)
EXTENDS ActualTimeline

MCBodies == {[entity |-> "farm"]}
=============================================================================
