----------------------------- MODULE FixedPoint -----------------------------
(***************************************************************************)
(* Decimals of finite precision, as whole numbers of 1/Scale: sums are     *)
(* exact, products and quotients are rounded half-even to a whole number   *)
(* of units, as Python's decimal contexts round to a number of digits.     *)
(***************************************************************************)
EXTENDS Integers

CONSTANT Scale          \* units per 1.0

ASSUME ScaleAssumption == Scale \in Nat \ {0}

\* Rounding to the nearest unit, ties to the even one, for a positive divisor.
HalfEven(n, d) ==
  LET q == n \div d  twice == 2 * (n % d)
  IN IF twice > d \/ (twice = d /\ q % 2 = 1) THEN q + 1 ELSE q
Times(x, y) == HalfEven(x * y, Scale)
Over(x, y) == HalfEven(x * Scale, y)

\* The quotient n / d, rounded to a multiple of some number of units.
Rounded(n, d, unit) == unit * HalfEven(n, d * unit)

Larger(x, y) == IF x > y THEN x ELSE y
Lesser(x, y) == IF x < y THEN x ELSE y
=============================================================================
