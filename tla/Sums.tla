-------------------------------- MODULE Sums --------------------------------
(***************************************************************************)
(* Sums of whole numbers over finite sets, and what a posting adds.        *)
(***************************************************************************)
EXTENDS Integers, FiniteSetsExt

\* The sum of F[x] over the elements x of S.
Sum(F, S) == LET Term(x) == F[x] IN MapThenSumSet(Term, S)

\* What a posting of n to account a adds to account x.
At(x, a, n) == IF x = a THEN n ELSE 0
=============================================================================
