------------------------- MODULE WholeEconomyProofs -------------------------
(***************************************************************************)
(* For every scenario and every opening that the validation accepts: after *)
(* every step of every month each bank's balance sheet reconciles, every   *)
(* good is accounted for, and no coin is made or lost.                     *)
(*                                                                         *)
(* The invariant says what is where: the types, what there is of each good *)
(* against what the month opened with, and each bank's sheet.  Most steps  *)
(* only trade, and what a trade may do is put once (Traded): it moves      *)
(* goods and money, and leaves pledges and seized collateral alone.        *)
(* Lending, spoilage, production and the service of loans do more, and     *)
(* each has a proof of its own.                                            *)
(*                                                                         *)
(* Then, under what the code does not ask for - inputs that divide the     *)
(* scale, money in whole cents - what is pledged is there and is what was  *)
(* promised, and only a payroll or labour beyond its days stops a month.   *)
(***************************************************************************)
EXTENDS WholeScenario, SumTheorems
-----------------------------------------------------------------------------
\* h[s] is what folding F over the elements of s comes to, P[s] being the last.
Runs(h, D, P, F, base) ==
  \A s \in D : h[s] = IF s = {} THEN base ELSE F[<<h[s \ {P[s]}], P[s]>>]

(* A fold whose step is a function exists, and is made of its results. *)
LEMMA FoldRuns ==
  ASSUME NEW S, IsFiniteSet(S), NEW P, \A s \in SUBSET S : s # {} => P[s] \in s,
         NEW X, NEW base \in X, NEW F \in [X \X S -> X]
  PROVE  \E h \in [SUBSET S -> X] : Runs(h, SUBSET S, P, F, base)
<1> DEFINE N == {n \in Nat : \E h \in [UpTo(S, n) -> X] : Runs(h, UpTo(S, n), P, F, base)}
<1>1. \A s \in SUBSET S : IsFiniteSet(s) /\ Cardinality(s) \in Nat
  BY FS_Subset, FS_CardinalityType
<1>2. UpTo(S, 0) = {{}} /\ UpTo(S, Cardinality(S)) = SUBSET S
  BY Smaller, FS_CardinalityType
<1>3. \A n \in Nat : \A s \in UpTo(S, n + 1) : s # {} => s \ {P[s]} \in UpTo(S, n)
  <2>1. \A s \in SUBSET S : s # {} => Cardinality(s \ {P[s]}) = Cardinality(s) - 1
    BY <1>1, FS_RemoveElement
  <2> QED
    BY <1>1, <2>1 DEF UpTo
<1>4. 0 \in N
  <2>1. PICK h : h = [s \in {{}} |-> base]
    OBVIOUS
  <2>2. h \in [UpTo(S, 0) -> X] /\ Runs(h, UpTo(S, 0), P, F, base)
    BY <1>2, <2>1 DEF Runs
  <2> QED
    BY <2>2
<1>5. ASSUME NEW n \in N PROVE n + 1 \in N
  <2>1. PICK g \in [UpTo(S, n) -> X] : Runs(g, UpTo(S, n), P, F, base)
    OBVIOUS
  <2> DEFINE h == [s \in UpTo(S, n + 1) |->
                     IF s = {} THEN base ELSE F[<<g[s \ {P[s]}], P[s]>>]]
  <2>2. \A t \in UpTo(S, n) : t \in UpTo(S, n + 1)
    BY <1>1 DEF UpTo
  <2>3. \A s \in UpTo(S, n + 1) : s # {} => s \ {P[s]} \in UpTo(S, n)
    BY <1>3
  <2>4. \A t \in UpTo(S, n) : h[t] = g[t]
    BY <2>1, <2>2 DEF Runs
  <2>5. \A s \in UpTo(S, n + 1) : s # {} => h[s \ {P[s]}] = g[s \ {P[s]}]
    <3> HIDE DEF h
    <3> QED
      BY <2>3, <2>4
  <2>6. Runs(h, UpTo(S, n + 1), P, F, base)
    BY <2>5 DEF Runs
  <2>7. ASSUME NEW s \in UpTo(S, n + 1) PROVE h[s] \in X
    <3>1. CASE s = {}
      BY <3>1
    <3>2. CASE s # {}
      <4>1. g[s \ {P[s]}] \in X /\ P[s] \in S
        BY <2>1, <2>3, <3>2 DEF UpTo
      <4> QED
        BY <3>2, <4>1
    <3> QED
      BY <3>1, <3>2
  <2>8. h \in [UpTo(S, n + 1) -> X]
    BY <2>7
  <2> HIDE DEF h
  <2> QED
    BY <2>6, <2>8
<1>6. N = Nat
  <2> HIDE DEF N
  <2>1. N \in SUBSET Nat
    BY DEF N
  <2> QED
    BY <1>4, <1>5, <2>1, Induct
<1>7. Cardinality(S) \in N
  <2> HIDE DEF N
  <2> QED
    BY <1>6, FS_CardinalityType
<1>8. PICK h \in [UpTo(S, Cardinality(S)) -> X] : Runs(h, UpTo(S, Cardinality(S)), P, F, base)
  BY <1>7
<1> QED
  BY <1>2, <1>8

(* The greatest of some positions is one of them. *)
LEMMA LastPosition ==
  ASSUME NEW n \in Nat, NEW s \in SUBSET (1 .. n), s # {}
  PROVE  Max(s) \in s /\ \A x \in s : Max(s) >= x
<1>1. \E x \in s : \A y \in s : x >= y
  <2> DEFINE Behind == {k \in Nat : \E x \in s : k = n - x}
  <2>0. \A x \in s : n - x \in Behind /\ x \in Int
    OBVIOUS
  <2>1. Behind \in SUBSET Nat /\ Behind # {}
    BY <2>0
  <2>2. PICK k \in Behind : \A j \in Behind : k <= j
    <3> HIDE DEF Behind
    <3> QED
      BY <2>1, LeastNumber
  <2>3. PICK x \in s : k = n - x
    BY <2>2
  <2>4. ASSUME NEW y \in s PROVE x >= y
    <3>1. n - x <= n - y /\ x \in Int /\ y \in Int
      <4> HIDE DEF Behind
      <4> QED
        BY <2>0, <2>2, <2>3
    <3> QED
      BY <3>1
  <2> QED
    BY <2>4
<1> QED
  BY <1>1 DEF Max

RunsUp(h, n, F, base) ==
  \A s \in SUBSET (1 .. n) : h[s] = IF s = {} THEN base ELSE F[<<h[s \ {Max(s)}], Max(s)>>]

(* So does one over the positions of a list, taken in their order. *)
LEMMA FoldRunsUp ==
  ASSUME NEW n \in Nat, NEW X, NEW base \in X, NEW F \in [X \X (1 .. n) -> X]
  PROVE  \E h \in [SUBSET (1 .. n) -> X] : RunsUp(h, n, F, base)
<1> DEFINE P == [s \in SUBSET (1 .. n) |-> Max(s)]
<1>1. \A s \in SUBSET (1 .. n) : s # {} => P[s] \in s
  BY LastPosition
<1>2. PICK h \in [SUBSET (1 .. n) -> X] : Runs(h, SUBSET (1 .. n), P, F, base)
  <2> HIDE DEF P
  <2> QED
    <3>1. IsFiniteSet(1 .. n)
      BY FS_Interval
    <3> QED
      BY <1>1, <3>1, FoldRuns
<1> QED
  BY <1>2 DEF Runs, RunsUp

\* h folds F over the positions 1..n, as long as it stays within X.
Follows(h, n, X, F, base) ==
  /\ h[{}] = base
  /\ \A s \in SUBSET (1 .. n) : s # {} /\ h[s \ {Max(s)}] \in X
                                => h[s] = F[<<h[s \ {Max(s)}], Max(s)>>]

(* What holds before the first step, and is handed on from step to step, holds *)
(* after the last. *)
LEMMA FoldEnds ==
  ASSUME NEW n \in Nat, NEW X, NEW A, A[0] \subseteq X, NEW base \in A[0], NEW F, NEW h,
         Follows(h, n, X, F, base),
         \A k \in 1 .. n : A[k] \subseteq X /\ \A a \in A[k - 1] : F[<<a, k>>] \in A[k]
  PROVE  h[1 .. n] \in A[n]
<1> DEFINE N == {k \in Nat : k <= n => h[1 .. k] \in A[k]}
<1>1. 0 \in N
  <2>1. 1 .. 0 = {}
    OBVIOUS
  <2> QED
    BY <2>1 DEF Follows
<1>2. ASSUME NEW k \in N PROVE k + 1 \in N
  <2>1. SUFFICES ASSUME k + 1 <= n PROVE h[1 .. (k + 1)] \in A[k + 1]
    OBVIOUS
  <2> DEFINE s == 1 .. (k + 1)
  <2>2. s \in SUBSET (1 .. n) /\ s # {} /\ k + 1 \in s /\ \A x \in s : x <= k + 1
    <3>1. \A x \in s : x \in 1 .. n /\ x <= k + 1
      BY <2>1
    <3>2. k + 1 \in s
      OBVIOUS
    <3> QED
      BY <3>1, <3>2
  <2>3. Max(s) = k + 1
    <3>1. Max(s) \in s /\ Max(s) >= k + 1
      BY <2>2, LastPosition
    <3> QED
      BY <3>1, <2>2
  <2>4. s \ {k + 1} = 1 .. k
    OBVIOUS
  <2>5. h[1 .. k] \in A[k] /\ A[k] \subseteq X
    <3>1. k = 0 \/ k \in 1 .. n
      BY <2>1
    <3> QED
      BY <2>1, <3>1
  <2>6. h[s] = F[<<h[1 .. k], k + 1>>]
    <3> HIDE DEF s
    <3> QED
      BY <2>2, <2>3, <2>4, <2>5 DEF Follows
  <2>7. k + 1 \in 1 .. n /\ (k + 1) - 1 = k
    BY <2>1
  <2>8. F[<<h[1 .. k], k + 1>>] \in A[k + 1]
    BY <2>5, <2>7
  <2> QED
    BY <2>6, <2>8
<1>3. N = Nat
  <2> HIDE DEF N
  <2>1. N \in SUBSET Nat
    BY DEF N
  <2> QED
    BY <1>1, <1>2, <2>1, Induct
<1> QED
  BY <1>3

(* If no step leaves X, the fold ends in X. *)
LEMMA FoldStays ==
  ASSUME NEW n \in Nat, NEW X, NEW base \in X, NEW F \in [X \X (1 .. n) -> X], NEW h,
         Follows(h, n, X, F, base)
  PROVE  h[1 .. n] \in X
<1> DEFINE A == [k \in 0 .. n |-> X]
<1>1. A[0] = X /\ A[n] = X /\ \A k \in 1 .. n : A[k] = X /\ A[k - 1] = X
  OBVIOUS
<1>2. \A k \in 1 .. n : A[k] \subseteq X /\ \A a \in A[k - 1] : F[<<a, k>>] \in A[k]
  BY <1>1
<1> HIDE DEF A
<1>3. base \in A[0] /\ A[0] \subseteq X
  BY <1>1
<1>4. h[1 .. n] \in A[n]
  BY <1>2, <1>3, FoldEnds, Zenon
<1> QED
  BY <1>1, <1>4
-----------------------------------------------------------------------------
\* Money as an accepted opening has it: each bank owes its customers what they
\* hold with it, and who has no bank has no deposit.
Moneys == [cash : [Entities -> Nat], deposit : [Entities -> Nat],
           reserves : [Banks -> Nat], liability : [Banks -> Int]]
SoundMoney ==
  {m \in Moneys : /\ \A e \in Entities : BankOf[e] = None => m.deposit[e] = 0
                  /\ \A b \in Banks : m.liability[b] = DepositsAt(m, b)}
CoinsOf(m) == Sum(m.cash, Entities) + Sum(m.reserves, Banks)
Net(m, b) == m.reserves[b] - m.liability[b]

\* Whole numbers of cents.
Whole == {Cent * k : k \in Int}
WholeMoney(m) ==
  /\ \A e \in Entities : m.cash[e] \in Whole /\ m.deposit[e] \in Whole
  /\ \A b \in Banks : m.reserves[b] \in Whole

\* What k may become while money changes hands.
Onwards(k) ==
  {m \in SoundMoney : /\ CoinsOf(m) = CoinsOf(k)
                      /\ \A b \in Banks : Net(m, b) = Net(k, b)
                      /\ WholeMoney(k) => WholeMoney(m)}

(* The entities, the banks and their customers are finite sets, and a bank   *)
(* or no bank is what an entity has.                                         *)
LEMMA Finite ==
  /\ IsFiniteSet(Entities) /\ IsFiniteSet(Banks) /\ Banks \subseteq Entities
  /\ \A b : Customers(b) \subseteq Entities /\ IsFiniteSet(Customers(b))
  /\ None \notin Banks /\ None \notin Entities
  /\ \A e \in Entities : BankOf[e] \in Banks \cup {None}
  /\ Cent \in Nat \ {0}
<1>1. Names \in Seq({Names[i] : i \in DOMAIN Names})
  BY ScenarioAssumption DEF ScenarioAccepted, Listed
<1>2. DOMAIN Names = 1 .. Len(Names) /\ Len(Names) \in Nat
  BY <1>1
<1>3. IsFiniteSet(DOMAIN Names)
  BY <1>2, FS_Interval
<1>4. IsFiniteSet(Entities)
  BY <1>3, FiniteImage DEF Entities
<1>5. Banks \subseteq Entities
  BY PaymentsAssumption
<1>6. IsFiniteSet(Banks)
  BY <1>4, <1>5, FS_Subset
<1>7. \A b : Customers(b) \subseteq Entities
  BY DEF Customers
<1>8. \A b : IsFiniteSet(Customers(b))
  BY <1>4, <1>7, FS_Subset
<1> QED
  BY <1>4, <1>5, <1>6, <1>7, <1>8, PaymentsAssumption

(* Whole cents stay whole when they are added, subtracted, compared or       *)
(* rounded.                                                                  *)
LEMMA WholeSums ==
  /\ 0 \in Whole /\ Whole \subseteq Int
  /\ \A x, y \in Whole : x + y \in Whole /\ x - y \in Whole
  /\ \A x, y \in Whole : Lesser(x, y) \in Whole
  /\ \A n \in Int : Cents(n) \in Whole
<1>0. Cent \in Int
  BY Finite
<1>1. \A j, k \in Int : Cent * j + Cent * k = Cent * (j + k) /\ Cent * j - Cent * k = Cent * (j - k)
  BY <1>0
<1>2. 0 = Cent * 0 /\ \A k \in Int : Cent * k \in Int
  BY <1>0
<1>3. ASSUME NEW x \in Whole, NEW y \in Whole PROVE x + y \in Whole /\ x - y \in Whole
  <2>1. PICK j \in Int : x = Cent * j
    BY DEF Whole
  <2>2. PICK k \in Int : y = Cent * k
    BY DEF Whole
  <2>3. x + y = Cent * (j + k) /\ x - y = Cent * (j - k) /\ j + k \in Int /\ j - k \in Int
    BY <1>1, <2>1, <2>2
  <2> QED
    BY <2>3, Zenon DEF Whole
<1>4. ASSUME NEW n \in Int PROVE Cents(n) \in Whole
  <2>1. HalfEven(n, 1 * Cent) \in Int
    BY HalfEvenType, Finite
  <2> QED
    BY <2>1 DEF Cents, Rounded, Whole
<1> QED
  BY <1>2, <1>3, <1>4 DEF Whole, Lesser

(* A deposit changes what its bank owes. *)
LEMMA DepositsChange ==
  ASSUME NEW m \in Moneys, NEW k \in Moneys, NEW e \in Entities,
         \A x \in Entities : x # e => k.deposit[x] = m.deposit[x], NEW b \in Banks
  PROVE  DepositsAt(k, b) = DepositsAt(m, b) + (IF BankOf[e] = b THEN k.deposit[e] - m.deposit[e] ELSE 0)
         /\ DepositsAt(m, b) \in Int
<1> DEFINE S == Customers(b)
<1>1. IsFiniteSet(S) /\ S \subseteq Entities /\ (e \in S <=> BankOf[e] = b)
  BY Finite DEF Customers
<1>2. \A x \in Entities : m.deposit[x] \in Int /\ k.deposit[x] \in Int
  BY DEF Moneys
<1> HIDE DEF S
<1>3. Sum(m.deposit, S) \in Int
  BY <1>1, <1>2, SumType
<1>4. CASE e \in S
  <2>1. \A x \in S : x # e => k.deposit[x] = m.deposit[x]
    BY <1>1
  <2>2. Sum(k.deposit, S) = Sum(m.deposit, S) - m.deposit[e] + k.deposit[e]
    BY <1>1, <1>2, <1>4, <2>1, SumChange
  <2> QED
    BY <1>1, <1>2, <1>3, <1>4, <2>2 DEF DepositsAt, S
<1>5. CASE e \notin S
  <2>1. \A x \in S : m.deposit[x] = k.deposit[x]
    BY <1>1, <1>5
  <2>2. Sum(k.deposit, S) = Sum(m.deposit, S)
    BY <1>1, <2>1, SumEqual
  <2> QED
    BY <1>1, <1>3, <1>5, <2>2 DEF DepositsAt, S
<1> QED
  BY <1>4, <1>5

(* What a payer hands over is there. *)
LEMMA Drawn ==
  ASSUME NEW m \in SoundMoney, NEW e \in Entities, NEW bank \in Banks \cup {None}, NEW n \in Nat
  PROVE  LET c == InCash(m, e, n)
             d == FromDeposit(m, e, bank, n)
         IN /\ c \in Nat /\ c <= m.cash[e] /\ d \in Nat /\ d <= m.deposit[e] /\ c + d <= n
            /\ BankOf[e] = None => d = 0
            /\ BankOf[e] # None /\ BankOf[e] # bank => d <= m.reserves[BankOf[e]]
            /\ WholeMoney(m) /\ n \in Whole => c \in Whole /\ d \in Whole
<1> DEFINE c == InCash(m, e, n)
           r == Lesser(n, Funds(m, e)) - c
           d == FromDeposit(m, e, bank, n)
           R == m.reserves[BankOf[e]]
<1>1. m.cash[e] \in Nat /\ m.deposit[e] \in Nat /\ (BankOf[e] = None => m.deposit[e] = 0)
  BY DEF SoundMoney, Moneys
<1>2. BankOf[e] # None => R \in Nat
  BY Finite DEF SoundMoney, Moneys
<1>3. c \in Nat /\ c <= m.cash[e] /\ r \in Nat /\ r <= m.deposit[e] /\ c + r <= n
  BY <1>1 DEF InCash, Lesser, Funds
<1>4. d = IF r = 0 \/ BankOf[e] = bank THEN r ELSE Lesser(r, R)
  BY DEF FromDeposit
<1>5. BankOf[e] = None => r = 0
  BY <1>1, <1>3
<1>6. ASSUME WholeMoney(m), n \in Whole PROVE c \in Whole /\ d \in Whole
  <2>1. m.cash[e] \in Whole /\ m.deposit[e] \in Whole /\ (BankOf[e] # None => R \in Whole)
    BY <1>6, Finite DEF WholeMoney
  <2>2. c \in Whole /\ Lesser(n, Funds(m, e)) \in Whole
    BY <1>6, <2>1, WholeSums DEF InCash, Funds
  <2>3. r \in Whole
    BY <2>2, WholeSums
  <2> HIDE DEF r, c, R, d
  <2>4. BankOf[e] # None => Lesser(r, R) \in Whole
    BY <2>1, <2>3, WholeSums
  <2> QED
    BY <1>4, <1>5, <2>2, <2>3, <2>4
<1> HIDE DEF r, c, R, d
<1>7. d \in Nat /\ d <= r /\ (BankOf[e] = None => d = 0)
      /\ (BankOf[e] # None /\ BankOf[e] # bank => d <= R)
  BY <1>2, <1>3, <1>4, <1>5 DEF Lesser
<1>8. d <= m.deposit[e] /\ c + d <= n
  BY <1>1, <1>3, <1>7
<1> QED
  BY <1>3, <1>6, <1>7, <1>8 DEF c, d, R

\* What a payer may hand over towards `bank`: c in cash and d of its deposit.
Handing(m, e, bank, c, d) ==
  /\ c \in Nat /\ c <= m.cash[e] /\ d \in Nat /\ d <= m.deposit[e]
  /\ BankOf[e] = None => d = 0
  /\ BankOf[e] # None /\ BankOf[e] # bank => d <= m.reserves[BankOf[e]]

\* Coins on their way to `bank`: they have left, or lie in its reserves.
OnTheWay(bank, n) == IF bank = None THEN n ELSE 0

(* Reserves follow what is paid across banks. *)
LEMMA ReservesMoved ==
  ASSUME NEW m \in SoundMoney, NEW e \in Entities, NEW bank \in Banks \cup {None},
         NEW c, NEW d, Handing(m, e, bank, c, d)
  PROVE  LET k == Moved(m, e, bank, c, d)
         IN /\ k.reserves \in [Banks -> Nat]
            /\ Sum(k.reserves, Banks)
                 = Sum(m.reserves, Banks) + (IF bank = None THEN 0 ELSE c)
                   + (IF BankOf[e] = bank THEN 0
                      ELSE (IF bank = None THEN 0 ELSE d) - (IF BankOf[e] = None THEN 0 ELSE d))
<1> DEFINE k == Moved(m, e, bank, c, d)
           A == [b \in Banks |-> At(b, bank, c)]
           B == [b \in Banks |-> IF BankOf[e] = bank THEN 0 ELSE At(b, bank, d)]
           C == [b \in Banks |-> IF BankOf[e] = bank THEN 0 ELSE At(b, BankOf[e], 0 - d)]
           P == [b \in Banks |-> m.reserves[b] + A[b]]
           Q == [b \in Banks |-> B[b] + C[b]]
<1>1. c \in Int /\ d \in Int /\ 0 - d \in Int /\ 0 \in Int
  BY DEF Handing
<1>2. m.reserves \in [Banks -> Nat] /\ IsFiniteSet(Banks)
  BY Finite DEF SoundMoney, Moneys
<1>3. /\ \A b \in Banks : A[b] \in Int /\ B[b] \in Int /\ C[b] \in Int /\ m.reserves[b] \in Int
      /\ \A b \in Banks : A[b] = IF b = bank THEN c ELSE 0
      /\ \A b \in Banks : B[b] = IF b = bank THEN (IF BankOf[e] = bank THEN 0 ELSE d) ELSE 0
      /\ \A b \in Banks : C[b] = IF b = BankOf[e] THEN (IF BankOf[e] = bank THEN 0 ELSE 0 - d) ELSE 0
  <2>1. ASSUME NEW b \in Banks
        PROVE  A[b] = (IF b = bank THEN c ELSE 0) /\ A[b] \in Int /\ m.reserves[b] \in Int
    BY <1>1, <1>2 DEF At
  <2>2. ASSUME NEW b \in Banks
        PROVE  B[b] = (IF b = bank THEN (IF BankOf[e] = bank THEN 0 ELSE d) ELSE 0) /\ B[b] \in Int
    BY <1>1 DEF At
  <2>3. ASSUME NEW b \in Banks
        PROVE  /\ C[b] = (IF b = BankOf[e] THEN (IF BankOf[e] = bank THEN 0 ELSE 0 - d) ELSE 0)
               /\ C[b] \in Int
    BY <1>1 DEF At
  <2> HIDE DEF A, B, C
  <2> QED
    BY <2>1, <2>2, <2>3
<1>4. /\ k.reserves = [b \in Banks |-> P[b] + Q[b]]
      /\ \A b \in Banks : P[b] = m.reserves[b] + A[b] /\ Q[b] = B[b] + C[b]
      /\ \A b \in Banks : P[b] \in Int /\ Q[b] \in Int
  <2>1. k.reserves = [b \in Banks |-> m.reserves[b] + (At(b, bank, c) +
             (IF BankOf[e] = bank THEN 0 ELSE At(b, bank, d) - At(b, BankOf[e], d)))]
    BY DEF Moved
  <2>2. \A b \in Banks : At(b, bank, c) + (IF BankOf[e] = bank THEN 0 ELSE At(b, bank, d) - At(b, BankOf[e], d))
                           = A[b] + (B[b] + C[b])
    BY <1>1 DEF At
  <2> HIDE DEF A, B, C
  <2>3. \A b \in Banks : P[b] = m.reserves[b] + A[b] /\ Q[b] = B[b] + C[b]
    OBVIOUS
  <2>4. \A b \in Banks : P[b] \in Int /\ Q[b] \in Int
    BY <1>3, <2>3
  <2>5. \A b \in Banks : m.reserves[b] + (At(b, bank, c) +
             (IF BankOf[e] = bank THEN 0 ELSE At(b, bank, d) - At(b, BankOf[e], d))) = P[b] + Q[b]
    <3> HIDE DEF P, Q
    <3> SUFFICES ASSUME NEW b \in Banks
                 PROVE m.reserves[b] + (At(b, bank, c) +
             (IF BankOf[e] = bank THEN 0 ELSE At(b, bank, d) - At(b, BankOf[e], d))) = P[b] + Q[b]
      OBVIOUS
    <3>1. m.reserves[b] \in Int /\ A[b] \in Int /\ B[b] \in Int /\ C[b] \in Int
      BY <1>3
    <3> QED
      BY <2>2, <2>3, <3>1
  <2> HIDE DEF P, Q, k
  <2>6. k.reserves = [b \in Banks |-> P[b] + Q[b]]
    BY <2>1, <2>5, Zenon
  <2> QED
    BY <2>3, <2>4, <2>6
<1>5. Sum(A, Banks) = (IF bank \in Banks THEN c ELSE 0)
  BY <1>1, <1>2, <1>3, SumPoint
<1>6. Sum(B, Banks) = (IF bank \in Banks THEN (IF BankOf[e] = bank THEN 0 ELSE d) ELSE 0)
  <2> DEFINE n == IF BankOf[e] = bank THEN 0 ELSE d
  <2>1. n \in Int
    BY <1>1
  <2> HIDE DEF B
  <2> QED
    BY <1>2, <1>3, <2>1, SumPoint
<1>7. Sum(C, Banks) = (IF BankOf[e] \in Banks THEN (IF BankOf[e] = bank THEN 0 ELSE 0 - d) ELSE 0)
  <2> DEFINE n == IF BankOf[e] = bank THEN 0 ELSE 0 - d
  <2>1. n \in Int
    BY <1>1
  <2>2. \A b \in Banks : C[b] = IF b = BankOf[e] THEN n ELSE 0
    BY <1>3
  <2> HIDE DEF C, n
  <2>3. Sum(C, Banks) = IF BankOf[e] \in Banks THEN n ELSE 0
    BY <1>2, <2>1, <2>2, SumPoint
  <2> QED
    BY <2>3 DEF n
<1> HIDE DEF A, B, C, P, Q, k
<1>8. Sum(k.reserves, Banks) = Sum(m.reserves, Banks) + Sum(A, Banks) + (Sum(B, Banks) + Sum(C, Banks))
  <2>1. Sum(P, Banks) = Sum(m.reserves, Banks) + Sum(A, Banks)
    BY <1>2, <1>3, <1>4, SumPlus
  <2>2. Sum(Q, Banks) = Sum(B, Banks) + Sum(C, Banks)
    BY <1>2, <1>3, <1>4, SumPlus
  <2>3. Sum(k.reserves, Banks) = Sum(P, Banks) + Sum(Q, Banks)
    BY <1>2, <1>4, SumPlus
  <2> QED
    BY <2>1, <2>2, <2>3
<1>9. Sum(m.reserves, Banks) \in Int
  BY <1>2, <1>3, SumType
<1>10. k.reserves \in [Banks -> Nat]
  <2> SUFFICES ASSUME NEW b \in Banks PROVE P[b] + Q[b] \in Nat
    BY <1>4
  <2>1. P[b] + Q[b] = m.reserves[b] + A[b] + B[b] + C[b]
    BY <1>3, <1>4
  <2>2. m.reserves[b] \in Nat
    BY <1>2
  <2>3. A[b] \in Nat /\ B[b] \in Nat
    BY <1>3 DEF Handing
  <2>4. C[b] = 0 \/ (b = BankOf[e] /\ b # bank /\ C[b] = 0 - d)
    BY <1>3
  <2>5. b = BankOf[e] /\ b # bank => d <= m.reserves[b]
    BY Finite DEF Handing
  <2> QED
    BY <1>1, <2>1, <2>2, <2>3, <2>4, <2>5
<1>11. (bank \in Banks <=> bank # None) /\ (BankOf[e] \in Banks <=> BankOf[e] # None)
  BY Finite
<1>12. Sum(k.reserves, Banks)
                 = Sum(m.reserves, Banks) + (IF bank = None THEN 0 ELSE c)
                   + (IF BankOf[e] = bank THEN 0
                      ELSE (IF bank = None THEN 0 ELSE d) - (IF BankOf[e] = None THEN 0 ELSE d))
  BY <1>1, <1>5, <1>6, <1>7, <1>8, <1>9, <1>11
<1> QED
  BY <1>10, <1>12 DEF k

(* What is handed over leaves the payer, and lies with the bank it goes to. *)
LEMMA HandedOver ==
  ASSUME NEW m \in SoundMoney, NEW e \in Entities, NEW bank \in Banks \cup {None},
         NEW c, NEW d, Handing(m, e, bank, c, d)
  PROVE  LET k == Moved(m, e, bank, c, d)
         IN /\ k \in SoundMoney
            /\ CoinsOf(k) = CoinsOf(m) - OnTheWay(bank, c + d)
            /\ \A b \in Banks : Net(k, b) = Net(m, b) + At(b, bank, c + d)
            /\ WholeMoney(m) /\ c \in Whole /\ d \in Whole => WholeMoney(k)
<1> DEFINE k == Moved(m, e, bank, c, d)
<1>1. c \in Nat /\ d \in Nat /\ c <= m.cash[e] /\ d <= m.deposit[e] /\ (BankOf[e] = None => d = 0)
  BY DEF Handing
<1>2. m \in Moneys /\ IsFiniteSet(Entities) /\ IsFiniteSet(Banks)
  BY Finite DEF SoundMoney
<1>3. /\ m.cash \in [Entities -> Nat] /\ m.deposit \in [Entities -> Nat]
      /\ m.reserves \in [Banks -> Nat] /\ m.liability \in [Banks -> Int]
  BY <1>2 DEF Moneys
<1>4. /\ k.cash = [m.cash EXCEPT ![e] = @ - c] /\ k.deposit = [m.deposit EXCEPT ![e] = @ - d]
      /\ k.liability = [b \in Banks |-> m.liability[b] - At(b, BankOf[e], d)]
      /\ k = [cash |-> k.cash, deposit |-> k.deposit, reserves |-> k.reserves, liability |-> k.liability]
      /\ k.reserves = [b \in Banks |-> m.reserves[b] + (At(b, bank, c) +
             (IF BankOf[e] = bank THEN 0 ELSE At(b, bank, d) - At(b, BankOf[e], d)))]
  BY DEF Moved
<1>5. /\ k.reserves \in [Banks -> Nat]
            /\ Sum(k.reserves, Banks)
                 = Sum(m.reserves, Banks) + (IF bank = None THEN 0 ELSE c)
                   + (IF BankOf[e] = bank THEN 0
                      ELSE (IF bank = None THEN 0 ELSE d) - (IF BankOf[e] = None THEN 0 ELSE d))
  BY ReservesMoved
<1> HIDE DEF k
<1>6. k.cash \in [Entities -> Nat] /\ k.deposit \in [Entities -> Nat] /\ k.liability \in [Banks -> Int]
  BY <1>1, <1>3, <1>4 DEF At
<1>7. k \in Moneys
  <2>1. k \in [cash : {k.cash}, deposit : {k.deposit}, reserves : {k.reserves}, liability : {k.liability}]
    BY <1>4
  <2> QED
    BY <1>5, <1>6, <2>1 DEF Moneys
<1>8. k \in SoundMoney
  <2>1. ASSUME NEW x \in Entities, BankOf[x] = None PROVE k.deposit[x] = 0
    <3>1. m.deposit[x] = 0
      BY <2>1 DEF SoundMoney
    <3> QED
      BY <1>1, <1>3, <1>4, <2>1, <3>1
  <2>2. ASSUME NEW b \in Banks PROVE k.liability[b] = DepositsAt(k, b)
    <3>1. \A x \in Entities : x # e => k.deposit[x] = m.deposit[x]
      BY <1>3, <1>4
    <3>2. DepositsAt(k, b) = DepositsAt(m, b) + (IF BankOf[e] = b THEN k.deposit[e] - m.deposit[e] ELSE 0)
          /\ DepositsAt(m, b) \in Int
      BY <1>2, <1>7, <3>1, DepositsChange
    <3>3. k.deposit[e] = m.deposit[e] - d /\ m.deposit[e] \in Int
      BY <1>3, <1>4
    <3>4. m.liability[b] = DepositsAt(m, b)
      BY DEF SoundMoney
    <3>5. k.liability[b] = m.liability[b] - At(b, BankOf[e], d)
      BY <1>4
    <3> QED
      BY <1>1, <3>2, <3>3, <3>4, <3>5 DEF At
  <2> QED
    BY <1>7, <2>1, <2>2 DEF SoundMoney
<1>9. CoinsOf(k) = CoinsOf(m) - OnTheWay(bank, c + d)
  <2>1. Sum(k.cash, Entities) = Sum(m.cash, Entities) - c /\ Sum(m.cash, Entities) \in Int
    <3>1. \A x \in Entities : m.cash[x] \in Int /\ k.cash[x] \in Int
      BY <1>3, <1>6
    <3>2. \A x \in Entities : x # e => k.cash[x] = m.cash[x]
      BY <1>3, <1>4
    <3>3. k.cash[e] = m.cash[e] - c
      BY <1>3, <1>4
    <3>4. Sum(k.cash, Entities) = Sum(m.cash, Entities) - m.cash[e] + k.cash[e] /\ Sum(m.cash, Entities) \in Int
      BY <1>2, <3>1, <3>2, SumChange
    <3> QED
      BY <1>1, <3>1, <3>3, <3>4
  <2>2. Sum(m.reserves, Banks) \in Int
    BY <1>2, <1>3, SumType
  <2>3. BankOf[e] = bank /\ bank = None => d = 0
    BY <1>1
  <2> QED
    BY <1>1, <1>5, <2>1, <2>2, <2>3 DEF CoinsOf, OnTheWay
<1>10. ASSUME NEW b \in Banks PROVE Net(k, b) = Net(m, b) + At(b, bank, c + d)
  <2>1. m.reserves[b] \in Int /\ m.liability[b] \in Int
    BY <1>3
  <2> QED
    BY <1>1, <1>4, <2>1 DEF Net, At
<1>11. ASSUME WholeMoney(m), c \in Whole, d \in Whole PROVE WholeMoney(k)
  <2>1. \A x \in Entities : k.cash[x] \in Whole /\ k.deposit[x] \in Whole
    BY <1>3, <1>4, <1>11, WholeSums DEF WholeMoney
  <2>2. ASSUME NEW b \in Banks PROVE k.reserves[b] \in Whole
    <3>1. At(b, bank, c) \in Whole /\ At(b, bank, d) \in Whole /\ At(b, BankOf[e], d) \in Whole
          /\ m.reserves[b] \in Whole
      BY <1>11, WholeSums DEF At, WholeMoney
    <3> QED
      BY <1>4, <3>1, WholeSums
  <2> QED
    BY <2>1, <2>2 DEF WholeMoney
<1> QED
  BY <1>8, <1>9, <1>10, <1>11 DEF k

(* It arrives with whom it was for. *)
LEMMA PaidTo ==
  ASSUME NEW m \in SoundMoney, NEW e \in Entities, NEW n \in Nat
  PROVE  LET k == Credited(m, e, n)
         IN /\ k \in SoundMoney
            /\ CoinsOf(k) = CoinsOf(m) + OnTheWay(BankOf[e], n)
            /\ \A b \in Banks : Net(k, b) = Net(m, b) - At(b, BankOf[e], n)
            /\ WholeMoney(m) /\ n \in Whole => WholeMoney(k)
<1> DEFINE k == Credited(m, e, n)
<1>1. m \in Moneys /\ IsFiniteSet(Entities) /\ IsFiniteSet(Banks) /\ BankOf[e] \in Banks \cup {None}
  BY Finite DEF SoundMoney
<1>2. /\ m.cash \in [Entities -> Nat] /\ m.deposit \in [Entities -> Nat]
      /\ m.reserves \in [Banks -> Nat] /\ m.liability \in [Banks -> Int]
      /\ m = [cash |-> m.cash, deposit |-> m.deposit, reserves |-> m.reserves, liability |-> m.liability]
  BY <1>1 DEF Moneys
<1>3. Sum(m.cash, Entities) \in Int /\ Sum(m.reserves, Banks) \in Int
  <2>1. (\A x \in Entities : m.cash[x] \in Int) /\ (\A x \in Banks : m.reserves[x] \in Int)
    BY <1>2
  <2> QED
    BY <1>1, <2>1, SumType
<1>4. CASE BankOf[e] = None
  <2>1. /\ k.cash = [m.cash EXCEPT ![e] = @ + n] /\ k.deposit = m.deposit
        /\ k.reserves = m.reserves /\ k.liability = m.liability
        /\ k = [cash |-> k.cash, deposit |-> k.deposit, reserves |-> k.reserves, liability |-> k.liability]
    BY <1>2, <1>4 DEF Credited
  <2> HIDE DEF k
  <2>2. k.cash \in [Entities -> Nat]
    BY <1>2, <2>1
  <2>3. k \in Moneys
    <3>1. k \in [cash : {k.cash}, deposit : {k.deposit}, reserves : {k.reserves}, liability : {k.liability}]
      BY <2>1
    <3> QED
      BY <1>2, <2>1, <2>2, <3>1 DEF Moneys
  <2>4. k \in SoundMoney
    BY <2>1, <2>3 DEF SoundMoney, DepositsAt
  <2>5. Sum(k.cash, Entities) = Sum(m.cash, Entities) + n
    <3>1. \A x \in Entities : m.cash[x] \in Int /\ k.cash[x] \in Int
      BY <1>2, <2>2
    <3>2. \A x \in Entities : x # e => k.cash[x] = m.cash[x]
      BY <1>2, <2>1
    <3>3. k.cash[e] = m.cash[e] + n
      BY <1>2, <2>1
    <3>4. Sum(k.cash, Entities) = Sum(m.cash, Entities) - m.cash[e] + k.cash[e]
      BY <1>1, <3>1, <3>2, SumChange
    <3> QED
      BY <1>3, <3>1, <3>3, <3>4
  <2>6. CoinsOf(k) = CoinsOf(m) + OnTheWay(BankOf[e], n)
    BY <1>3, <1>4, <2>1, <2>5 DEF CoinsOf, OnTheWay
  <2>7. \A b \in Banks : Net(k, b) = Net(m, b) - At(b, BankOf[e], n)
    BY <1>2, <1>4, <2>1, Finite DEF Net, At
  <2>8. WholeMoney(m) /\ n \in Whole => WholeMoney(k)
    BY <1>2, <2>1, WholeSums DEF WholeMoney
  <2> QED
    BY <2>4, <2>6, <2>7, <2>8 DEF k
<1>5. CASE BankOf[e] # None
  <2>0. BankOf[e] \in Banks
    BY <1>1, <1>5
  <2>1. /\ k.deposit = [m.deposit EXCEPT ![e] = @ + n] /\ k.cash = m.cash
        /\ k.reserves = m.reserves /\ k.liability = [m.liability EXCEPT ![BankOf[e]] = @ + n]
        /\ k = [cash |-> k.cash, deposit |-> k.deposit, reserves |-> k.reserves, liability |-> k.liability]
    BY <1>2, <1>5 DEF Credited
  <2> HIDE DEF k
  <2>2. k.deposit \in [Entities -> Nat] /\ k.liability \in [Banks -> Int]
    BY <1>2, <2>0, <2>1
  <2>3. k \in Moneys
    <3>1. k \in [cash : {k.cash}, deposit : {k.deposit}, reserves : {k.reserves}, liability : {k.liability}]
      BY <2>1
    <3> QED
      BY <1>2, <2>1, <2>2, <3>1 DEF Moneys
  <2>4. ASSUME NEW x \in Entities, BankOf[x] = None PROVE k.deposit[x] = 0
    <3>1. m.deposit[x] = 0 /\ x # e
      BY <1>5, <2>4 DEF SoundMoney
    <3> QED
      BY <1>2, <2>1, <3>1
  <2>5. ASSUME NEW b \in Banks PROVE k.liability[b] = DepositsAt(k, b)
    <3>1. \A x \in Entities : x # e => k.deposit[x] = m.deposit[x]
      BY <1>2, <2>1
    <3>2. DepositsAt(k, b) = DepositsAt(m, b) + (IF BankOf[e] = b THEN k.deposit[e] - m.deposit[e] ELSE 0)
          /\ DepositsAt(m, b) \in Int
      BY <1>1, <2>3, <3>1, DepositsChange
    <3>3. k.deposit[e] = m.deposit[e] + n /\ m.deposit[e] \in Int
      BY <1>2, <2>1
    <3>4. m.liability[b] = DepositsAt(m, b)
      BY DEF SoundMoney
    <3>5. k.liability[b] = m.liability[b] + (IF BankOf[e] = b THEN n ELSE 0)
      BY <1>2, <2>1
    <3> QED
      BY <3>2, <3>3, <3>4, <3>5
  <2>6. k \in SoundMoney
    BY <2>3, <2>4, <2>5 DEF SoundMoney
  <2>7. CoinsOf(k) = CoinsOf(m) + OnTheWay(BankOf[e], n)
    BY <1>3, <1>5, <2>1 DEF CoinsOf, OnTheWay
  <2>8. ASSUME NEW b \in Banks PROVE Net(k, b) = Net(m, b) - At(b, BankOf[e], n)
    <3>1. m.reserves[b] \in Int /\ m.liability[b] \in Int
      BY <1>2
    <3> QED
      BY <1>2, <2>0, <2>1, <3>1 DEF Net, At
  <2>9. WholeMoney(m) /\ n \in Whole => WholeMoney(k)
    BY <1>2, <2>1, WholeSums DEF WholeMoney
  <2> QED
    BY <2>6, <2>7, <2>8, <2>9 DEF k
<1> QED
  BY <1>4, <1>5

(* Money may stay as it is. *)
LEMMA OnwardsSelf == \A m \in SoundMoney : m \in Onwards(m)
BY DEF Onwards

(* What money may become in two exchanges it may become in one. *)
LEMMA OnwardsOn ==
  ASSUME NEW k, NEW m \in Onwards(k), NEW p \in Onwards(m)
  PROVE  p \in Onwards(k)
BY DEF Onwards

(* A transfer only moves money. *)
LEMMA TransferKeeps ==
  ASSUME NEW m \in SoundMoney, NEW payer \in Entities, NEW payee \in Entities, NEW n \in Whole
  PROVE  Transfer(m, payer, payee, n) \in Onwards(m)
         /\ Transferred(m, payer, payee, n) \in Nat /\ Transferred(m, payer, payee, n) <= Larger(0, n)
<1>0. n \in Int
  BY WholeSums
<1>1. CASE payer = payee \/ n <= 0
  BY <1>0, <1>1, OnwardsSelf DEF Transfer, Transferred, Larger
<1>2. CASE payer # payee /\ ~(n <= 0)
  <2> DEFINE bank == BankOf[payee]
             c == InCash(m, payer, n)
             d == FromDeposit(m, payer, bank, n)
             k == Moved(m, payer, bank, c, d)
  <2>1. n \in Nat /\ bank \in Banks \cup {None}
    BY <1>0, <1>2, Finite
  <2>2. /\ c \in Nat /\ c <= m.cash[payer] /\ d \in Nat /\ d <= m.deposit[payer] /\ c + d <= n
        /\ BankOf[payer] = None => d = 0
        /\ BankOf[payer] # None /\ BankOf[payer] # bank => d <= m.reserves[BankOf[payer]]
        /\ WholeMoney(m) /\ n \in Whole => c \in Whole /\ d \in Whole
    BY <2>1, Drawn
  <2>3. Transferred(m, payer, payee, n) = c + d
    BY <1>2 DEF Transferred, Arriving
  <2>4. Transfer(m, payer, payee, n) = Credited(k, payee, c + d)
    BY <1>2, <2>3 DEF Transfer, PaidIn
  <2> HIDE DEF c, d
  <2>5. Handing(m, payer, bank, c, d)
    BY <2>2 DEF Handing
  <2>6. /\ k \in SoundMoney
        /\ CoinsOf(k) = CoinsOf(m) - OnTheWay(bank, c + d)
        /\ \A b \in Banks : Net(k, b) = Net(m, b) + At(b, bank, c + d)
        /\ WholeMoney(m) /\ c \in Whole /\ d \in Whole => WholeMoney(k)
    <3> HIDE DEF bank
    <3> QED
      BY <2>1, <2>5, HandedOver
  <2> HIDE DEF k
  <2> DEFINE p == Credited(k, payee, c + d)
  <2>7. c + d \in Nat
    BY <2>2
  <2>8. /\ p \in SoundMoney
        /\ CoinsOf(p) = CoinsOf(k) + OnTheWay(BankOf[payee], c + d)
        /\ \A b \in Banks : Net(p, b) = Net(k, b) - At(b, BankOf[payee], c + d)
        /\ WholeMoney(k) /\ c + d \in Whole => WholeMoney(p)
    BY <2>6, <2>7, PaidTo
  <2>9. CoinsOf(m) \in Int /\ OnTheWay(bank, c + d) \in Int
        /\ \A b \in Banks : Net(m, b) \in Int /\ At(b, bank, c + d) \in Int
    <3>1. /\ \A x \in Entities : m.cash[x] \in Int
          /\ \A b \in Banks : m.reserves[b] \in Int /\ m.liability[b] \in Int
      BY DEF SoundMoney, Moneys
    <3>2. Sum(m.cash, Entities) \in Int /\ Sum(m.reserves, Banks) \in Int
      BY <3>1, Finite, SumType
    <3> QED
      BY <2>7, <3>1, <3>2 DEF CoinsOf, Net, OnTheWay, At
  <2> HIDE DEF p
  <2>10. p \in Onwards(m)
    <3>1. CoinsOf(p) = CoinsOf(m)
      BY <2>6, <2>8, <2>9
    <3>2. \A b \in Banks : Net(p, b) = Net(m, b)
      BY <2>6, <2>8, <2>9
    <3>3. WholeMoney(m) => WholeMoney(p)
      BY <2>2, <2>6, <2>8, WholeSums
    <3> QED
      BY <2>8, <3>1, <3>2, <3>3 DEF Onwards
  <2> QED
    <3>1. Transfer(m, payer, payee, n) \in Onwards(m)
      BY <2>4, <2>10 DEF p
    <3>2. c + d \in Nat /\ c + d <= Larger(0, n)
      BY <2>1, <2>2 DEF Larger
    <3> QED
      BY <2>3, <3>1, <3>2
<1> QED
  BY <1>1, <1>2
-----------------------------------------------------------------------------
\* What a payer can send out of its bank.
Means(m, e) ==
  IF BankOf[e] = None THEN m.cash[e] ELSE m.cash[e] + Lesser(m.deposit[e], m.reserves[BankOf[e]])

(* A payment out of the bank that the payer has the means for is made in full. *)
LEMMA PaidOutside ==
  ASSUME NEW m \in SoundMoney, NEW payer \in Entities, NEW to \in Entities,
         BankOf[to] # BankOf[payer], NEW a \in Nat, a <= Means(m, payer)
  PROVE  LET k == Transfer(m, payer, to, a)
         IN /\ Transferred(m, payer, to, a) = a
            /\ Funds(k, payer) = Funds(m, payer) - a
            /\ Means(k, payer) = Means(m, payer) - a
<1>1. /\ payer # to /\ m.cash \in [Entities -> Nat] /\ m.deposit \in [Entities -> Nat]
      /\ m.reserves \in [Banks -> Nat] /\ (BankOf[payer] = None => m.deposit[payer] = 0)
      /\ BankOf[payer] \in Banks \cup {None} /\ BankOf[to] \in Banks \cup {None}
      /\ None \notin Banks
  BY Finite DEF SoundMoney, Moneys
<1>2. CASE a = 0
  <2>1. Funds(m, payer) \in Int /\ Means(m, payer) \in Int
    BY <1>1 DEF Funds, Means, Lesser
  <2> QED
    BY <1>1, <1>2, <2>1 DEF Transfer, Transferred
<1>3. CASE a # 0
  <2> DEFINE bank == BankOf[to]
             own == BankOf[payer]
             C == m.cash[payer]
             D == m.deposit[payer]
             R == m.reserves[own]
             c == Lesser(C, a)
             d == a - c
             k == Moved(m, payer, bank, c, d)
             t == Transfer(m, payer, to, a)
  <2>1. C \in Nat /\ D \in Nat /\ (own = None => D = 0) /\ (own # None => R \in Nat) /\ ~(a <= 0)
    BY <1>1, <1>3
  <2>2. a <= (IF own = None THEN C ELSE C + Lesser(D, R))
    BY DEF Means
  <2>3. c \in Nat /\ c <= C /\ d \in Nat /\ d <= D /\ (own = None => d = 0) /\ (own # None => d <= R)
    BY <2>1, <2>2 DEF Lesser
  <2>4. InCash(m, payer, a) = c
    BY DEF InCash
  <2>5. FromDeposit(m, payer, bank, a) = d
    <3>1. Lesser(a, Funds(m, payer)) - c = d
      BY <2>1, <2>3 DEF Funds, Lesser
    <3>2. d = 0 \/ Lesser(d, R) = d
      BY <2>1, <2>3 DEF Lesser
    <3> QED
      BY <2>4, <3>1, <3>2 DEF FromDeposit
  <2>6. Transferred(m, payer, to, a) = a /\ t = Credited(k, to, a)
    <3>1. c + d = a
      BY <2>3
    <3>2. Transferred(m, payer, to, a) = c + d
      BY <1>1, <2>1, <2>4, <2>5 DEF Transferred, Arriving
    <3>3. t = Credited(k, to, c + d)
      BY <1>1, <2>1, <2>4, <2>5, <3>2 DEF Transfer, PaidIn
    <3> QED
      BY <3>1, <3>2, <3>3
  <2>7. /\ k.cash[payer] = C - c /\ k.deposit[payer] = D - d
        /\ own # None => k.reserves[own] = R - d
    <3>1. own # None => At(own, bank, c) + (At(own, bank, d) - At(own, own, d)) = 0 - d
      BY <2>3 DEF At
    <3>2. k.cash = [m.cash EXCEPT ![payer] = @ - c] /\ k.deposit = [m.deposit EXCEPT ![payer] = @ - d]
          /\ k.reserves = [b \in Banks |-> m.reserves[b] + (At(b, bank, c) +
             (IF own = bank THEN 0 ELSE At(b, bank, d) - At(b, own, d)))]
      BY DEF Moved
    <3>3. own # None => k.reserves[own] = m.reserves[own] + (At(own, bank, c) + (At(own, bank, d) - At(own, own, d)))
      BY <1>1, <3>2
    <3> HIDE DEF k, c, d
    <3> QED
      BY <1>1, <2>1, <2>3, <3>1, <3>2, <3>3
  <2>8. /\ t.cash[payer] = k.cash[payer] /\ t.deposit[payer] = k.deposit[payer]
        /\ t.reserves = k.reserves
    <3>1. k.cash = [m.cash EXCEPT ![payer] = @ - c] /\ k.deposit = [m.deposit EXCEPT ![payer] = @ - d]
          /\ k = [cash |-> k.cash, deposit |-> k.deposit, reserves |-> k.reserves, liability |-> k.liability]
      BY DEF Moved
    <3> HIDE DEF k, t, c, d
    <3> QED
      BY <1>1, <2>6, <3>1 DEF Credited
  <2> HIDE DEF t, k, c, d, C, D, R, own
  <2>9. Funds(m, payer) = C + D /\ Funds(t, payer) = (C - c) + (D - d)
    BY <2>7, <2>8 DEF Funds, C, D
  <2>10. Means(m, payer) = (IF own = None THEN C ELSE C + Lesser(D, R))
         /\ Means(t, payer) = (IF own = None THEN C - c ELSE (C - c) + Lesser(D - d, R - d))
    BY <2>7, <2>8 DEF Means, C, D, R, own
  <2>11. c + d = a
    BY <2>3 DEF d
  <2>12. Funds(t, payer) = Funds(m, payer) - a
    BY <2>1, <2>3, <2>9, <2>11
  <2>13. Means(t, payer) = Means(m, payer) - a
    BY <2>1, <2>3, <2>10, <2>11 DEF Lesser
  <2> QED
    BY <2>6, <2>12, <2>13 DEF t
<1> QED
  BY <1>2, <1>3

(* A payment within the bank that the payer has the funds for is made in full. *)
LEMMA PaidInside ==
  ASSUME NEW m \in SoundMoney, NEW payer \in Entities, NEW to \in Entities, to # payer,
         BankOf[to] = BankOf[payer], NEW a \in Nat, a <= Funds(m, payer)
  PROVE  LET k == Transfer(m, payer, to, a)
         IN /\ Transferred(m, payer, to, a) = a
            /\ Funds(k, payer) = Funds(m, payer) - a
<1>1. /\ payer # to /\ m.cash \in [Entities -> Nat] /\ m.deposit \in [Entities -> Nat]
      /\ BankOf[payer] \in Banks \cup {None} /\ BankOf[to] \in Banks \cup {None}
  BY Finite DEF SoundMoney, Moneys
<1>2. CASE a = 0
  <2>1. Funds(m, payer) \in Int
    BY <1>1 DEF Funds
  <2> QED
    BY <1>1, <1>2, <2>1 DEF Transfer, Transferred
<1>3. CASE a # 0
  <2> DEFINE bank == BankOf[to]
             C == m.cash[payer]
             D == m.deposit[payer]
             c == Lesser(C, a)
             d == a - c
             k == Moved(m, payer, bank, c, d)
             t == Transfer(m, payer, to, a)
  <2>1. C \in Nat /\ D \in Nat /\ ~(a <= 0) /\ a <= C + D
    BY <1>1, <1>3 DEF Funds
  <2>3. c \in Nat /\ c <= C /\ d \in Nat /\ d <= D
    BY <2>1 DEF Lesser
  <2>4. InCash(m, payer, a) = c
    BY DEF InCash
  <2>5. FromDeposit(m, payer, bank, a) = d
    <3>1. Lesser(a, Funds(m, payer)) - c = d
      BY <2>1, <2>3 DEF Funds, Lesser
    <3> QED
      BY <2>4, <3>1 DEF FromDeposit
  <2>6. Transferred(m, payer, to, a) = a /\ t = Credited(k, to, a)
    <3>1. c + d = a
      BY <2>3
    <3>2. Transferred(m, payer, to, a) = c + d
      BY <1>1, <2>1, <2>4, <2>5 DEF Transferred, Arriving
    <3>3. t = Credited(k, to, c + d)
      BY <1>1, <2>1, <2>4, <2>5, <3>2 DEF Transfer, PaidIn
    <3> QED
      BY <3>1, <3>2, <3>3
  <2>7. k.cash[payer] = C - c /\ k.deposit[payer] = D - d
    BY <1>1 DEF Moved
  <2>8. t.cash[payer] = k.cash[payer] /\ t.deposit[payer] = k.deposit[payer]
    <3>1. k.cash = [m.cash EXCEPT ![payer] = @ - c] /\ k.deposit = [m.deposit EXCEPT ![payer] = @ - d]
          /\ k = [cash |-> k.cash, deposit |-> k.deposit, reserves |-> k.reserves, liability |-> k.liability]
      BY DEF Moved
    <3> HIDE DEF k, t, c, d
    <3> QED
      BY <1>1, <2>6, <3>1 DEF Credited
  <2> HIDE DEF t, k, c, d, C, D
  <2>9. Funds(m, payer) = C + D /\ Funds(t, payer) = (C - c) + (D - d)
    BY <2>7, <2>8 DEF Funds, C, D
  <2>11. c + d = a
    BY <2>3 DEF d
  <2>12. Funds(t, payer) = Funds(m, payer) - a
    BY <2>1, <2>3, <2>9, <2>11
  <2> QED
    BY <2>6, <2>12 DEF t
<1> QED
  BY <1>2, <1>3
-----------------------------------------------------------------------------
Bills == Seq([to : Entities, amount : Whole \cap Nat])
Payments(k) == [money : Onwards(k), full : BOOLEAN]

(* A payment keeps the money sound. *)
LEMMA PayKeeps ==
  ASSUME NEW k, NEW acc \in Payments(k), NEW payer \in Entities, NEW to \in Entities, NEW n \in Whole
  PROVE  Pay(acc, payer, to, n) \in Payments(k)
<1>1. acc.money \in Onwards(k) /\ acc.money \in SoundMoney /\ acc.full \in BOOLEAN
  BY DEF Payments, Onwards
<1>2. Transfer(acc.money, payer, to, n) \in Onwards(k)
  BY <1>1, TransferKeeps, OnwardsOn
<1> QED
  BY <1>1, <1>2 DEF Pay, Payments

(* A sequence over a set has its elements there. *)
LEMMA ListOf ==
  \A T : \A s \in Seq(T) : Len(s) \in Nat /\ DOMAIN s = 1 .. Len(s) /\ \A i \in 1 .. Len(s) : s[i] \in T
OBVIOUS

\* The positions up to k of dues out of and within the payer's bank.
Outside(payer, dues, k) ==
  {i \in 1 .. k : dues[i].to # payer /\ BankOf[dues[i].to] # BankOf[payer]}
Within(payer, dues, k) ==
  {i \in 1 .. k : dues[i].to # payer /\ BankOf[dues[i].to] = BankOf[payer]}
UpToNow(dues, S) == Sum(Amounts(dues), S)

(* What is due at each position adds to what was due before it, and to no    *)
(* more than all.                                                            *)
LEMMA DuesGrow ==
  ASSUME NEW payer, NEW dues \in Bills, NEW k \in 1 .. Len(dues)
  PROVE  LET a == dues[k].amount
             O(i) == UpToNow(dues, Outside(payer, dues, i))
             W(i) == UpToNow(dues, Within(payer, dues, i))
             n == Len(dues)
         IN /\ O(k - 1) \in Nat /\ W(k - 1) \in Nat /\ a \in Nat /\ O(k) \in Nat /\ W(k) \in Nat
            /\ O(k) = O(k - 1) + (IF k \in Outside(payer, dues, k) THEN a ELSE 0)
            /\ W(k) = W(k - 1) + (IF k \in Within(payer, dues, k) THEN a ELSE 0)
            /\ O(k) <= O(n) /\ W(k) <= W(n)
<1> DEFINE n == Len(dues)
           G == Amounts(dues)
<1>1. n \in Nat /\ DOMAIN dues = 1 .. n /\ \A i \in 1 .. n : dues[i] \in [to : Entities, amount : Whole \cap Nat]
  BY ListOf, Zenon DEF Bills
<1>2. \A i \in 1 .. n : G[i] = dues[i].amount /\ G[i] \in Nat
  BY <1>1 DEF Amounts
<1> HIDE DEF n, G
<1>3. k \in 1 .. n /\ k \in Nat /\ k - 1 \in Nat /\ k <= n
  BY <1>1 DEF n
<1>4. \A j \in Nat : j <= n => \A T \in SUBSET (1 .. j) : IsFiniteSet(T) /\ Sum(G, T) \in Nat
  <2> SUFFICES ASSUME NEW j \in Nat, j <= n, NEW T \in SUBSET (1 .. j) PROVE IsFiniteSet(T) /\ Sum(G, T) \in Nat
    OBVIOUS
  <2>1. IsFiniteSet(T)
    <3>1. IsFiniteSet(1 .. j)
      BY FS_Interval
    <3> QED
      BY <3>1, FS_Subset
  <2>2. \A i \in T : G[i] \in Nat
    BY <1>1, <1>2
  <2> QED
    BY <2>1, <2>2, SumNat
<1>5. ASSUME NEW S, NEW T, S \in SUBSET (1 .. (k - 1)), T \in SUBSET (1 .. k), k \notin S,
             T = S \/ T = S \cup {k}
      PROVE  Sum(G, T) = Sum(G, S) + (IF k \in T THEN G[k] ELSE 0)
  <2>1. IsFiniteSet(S) /\ Sum(G, S) \in Nat
    BY <1>3, <1>4, <1>5
  <2>2. CASE T = S
    BY <1>5, <2>1, <2>2
  <2>3. CASE T = S \cup {k}
    <3>1. G[k] \in Int /\ \A y \in S : G[y] \in Int
      BY <1>1, <1>2, <1>3, <1>5
    <3>2. Sum(G, T) = G[k] + Sum(G, S)
      BY <1>5, <2>1, <2>3, <3>1, SumInsert
    <3> QED
      BY <2>1, <2>3, <3>1, <3>2
  <2> QED
    BY <1>5, <2>2, <2>3
<1>6. ASSUME NEW S \in SUBSET (1 .. k), NEW T \in SUBSET (1 .. n), S \subseteq T
      PROVE  Sum(G, S) <= Sum(G, T)
  <2> DEFINE R == T \ S
  <2>a. n <= n
    BY <1>1
  <2>b. T = S \cup R /\ S \cap R = {}
    BY <1>6
  <2>c. R \in SUBSET (1 .. n)
    OBVIOUS
  <2>0. T = S \cup R /\ S \cap R = {} /\ R \in SUBSET (1 .. n) /\ n <= n
    BY <2>a, <2>b, <2>c
  <2> HIDE DEF R
  <2>1. IsFiniteSet(S) /\ Sum(G, S) \in Nat /\ IsFiniteSet(R) /\ Sum(G, R) \in Nat
    BY <1>1, <1>3, <1>4, <2>0
  <2>2. \A x \in S \cup R : G[x] \in Int
    BY <1>2, <2>0
  <2>3. Sum(G, T) = Sum(G, S) + Sum(G, R)
    BY <2>0, <2>1, <2>2, SumUnion
  <2> QED
    BY <2>1, <2>3
<1>7. /\ Outside(payer, dues, k - 1) \in SUBSET (1 .. (k - 1)) /\ Outside(payer, dues, k) \in SUBSET (1 .. k)
      /\ Within(payer, dues, k - 1) \in SUBSET (1 .. (k - 1)) /\ Within(payer, dues, k) \in SUBSET (1 .. k)
      /\ Outside(payer, dues, n) \in SUBSET (1 .. n) /\ Within(payer, dues, n) \in SUBSET (1 .. n)
      /\ Outside(payer, dues, k) \subseteq Outside(payer, dues, n)
      /\ Within(payer, dues, k) \subseteq Within(payer, dues, n)
      /\ k \notin Outside(payer, dues, k - 1) /\ k \notin Within(payer, dues, k - 1)
  BY <1>1, <1>3 DEF Outside, Within
<1>8. /\ Outside(payer, dues, k) = Outside(payer, dues, k - 1)
           \/ Outside(payer, dues, k) = Outside(payer, dues, k - 1) \cup {k}
      /\ Within(payer, dues, k) = Within(payer, dues, k - 1)
           \/ Within(payer, dues, k) = Within(payer, dues, k - 1) \cup {k}
  <2>1. \A i \in 1 .. k : i = k \/ i \in 1 .. (k - 1)
    BY <1>3
  <2>2. \A i \in 1 .. (k - 1) : i \in 1 .. k
    BY <1>3
  <2>3. k \in 1 .. k
    BY <1>3
  <2> QED
    BY <2>1, <2>2, <2>3 DEF Outside, Within
<1>9. \A i : UpToNow(dues, i) = Sum(G, i)
  BY DEF UpToNow, G
<1> DEFINE OO(i) == Outside(payer, dues, i)
           WW(i) == Within(payer, dues, i)
<1>10. /\ Sum(G, OO(k - 1)) \in Nat /\ Sum(G, WW(k - 1)) \in Nat /\ G[k] \in Nat
       /\ Sum(G, OO(k)) \in Nat /\ Sum(G, WW(k)) \in Nat
  <2>1. k - 1 <= n
    BY <1>1, <1>3
  <2> HIDE DEF OO, WW
  <2> QED
    BY <1>2, <1>3, <1>4, <1>7, <2>1 DEF OO, WW
<1>11. /\ Sum(G, OO(k)) = Sum(G, OO(k - 1)) + (IF k \in OO(k) THEN G[k] ELSE 0)
       /\ Sum(G, WW(k)) = Sum(G, WW(k - 1)) + (IF k \in WW(k) THEN G[k] ELSE 0)
  BY <1>5, <1>7, <1>8
<1>12. Sum(G, OO(k)) <= Sum(G, OO(n)) /\ Sum(G, WW(k)) <= Sum(G, WW(n))
  BY <1>6, <1>7
<1> HIDE DEF OO, WW
<1> QED
  BY <1>2, <1>3, <1>9, <1>10, <1>11, <1>12 DEF n, OO, WW

(* Paying off a bundle only moves money, and a payable one is paid in full. *)
LEMMA PaidOffKeeps ==
  ASSUME NEW m \in SoundMoney, NEW payer \in Entities, NEW dues \in Bills
  PROVE  /\ PaidOff(m, payer, dues).money \in Onwards(m)
         /\ PaidOff(m, payer, dues).full \in BOOLEAN
         /\ Payable(m, payer, dues) => PaidOff(m, payer, dues).full
<1> DEFINE n == Len(dues)
           X == Payments(m)
           Inside(d) == BankOf[d.to] = BankOf[payer]
           First(acc, d) == PayIf(~Inside(d), acc, payer, d)
           Then(acc, d) == PayIf(Inside(d), acc, payer, d)
           base == [money |-> m, full |-> TRUE]
           start == FoldLeft(First, base, dues)
           O(i) == UpToNow(dues, Outside(payer, dues, i))
           W(i) == UpToNow(dues, Within(payer, dues, i))
           F0 == Funds(m, payer)
           M0 == Means(m, payer)
           Out(acc, i) == /\ acc.full
                          /\ Funds(acc.money, payer) = F0 - O(i)
                          /\ Means(acc.money, payer) = M0 - O(i)
           In(acc, i) == /\ acc.full
                         /\ Funds(acc.money, payer) = F0 - O(n) - W(i)
           A == [i \in 0 .. n |-> {acc \in X : Payable(m, payer, dues) => Out(acc, i)}]
           B == [i \in 0 .. n |-> {acc \in X : Payable(m, payer, dues) => In(acc, i)}]
<1>1. n \in Nat /\ DOMAIN dues = 1 .. n
      /\ \A i \in 1 .. n : dues[i].to \in Entities /\ dues[i].amount \in Whole /\ dues[i].amount \in Nat
  <2>1. n \in Nat /\ DOMAIN dues = 1 .. n /\ \A i \in 1 .. n : dues[i] \in [to : Entities, amount : Whole \cap Nat]
    BY ListOf, Zenon DEF Bills
  <2> HIDE DEF n
  <2> QED
    BY <2>1
<1>2. base \in X
  BY OnwardsSelf DEF Payments
<1>3. \A acc \in X : \A i \in 1 .. n : First(acc, dues[i]) \in X /\ Then(acc, dues[i]) \in X
  BY <1>1, PayKeeps DEF PayIf
<1>4. PaidOff(m, payer, dues) = FoldLeft(Then, start, dues)
  BY DEF PaidOff
<1>5. \A i \in 1 .. n :
        /\ O(i - 1) \in Nat /\ W(i - 1) \in Nat /\ O(i) \in Nat /\ W(i) \in Nat
        /\ O(i) = O(i - 1) + (IF i \in Outside(payer, dues, i) THEN dues[i].amount ELSE 0)
        /\ W(i) = W(i - 1) + (IF i \in Within(payer, dues, i) THEN dues[i].amount ELSE 0)
        /\ O(i) <= O(n) /\ W(i) <= W(n)
  BY DuesGrow
<1>6. \A i \in 1 .. n : /\ i \in Outside(payer, dues, i) <=> dues[i].to # payer /\ ~Inside(dues[i])
                        /\ i \in Within(payer, dues, i) <=> dues[i].to # payer /\ Inside(dues[i])
  <2>1. \A i \in 1 .. n : i \in 1 .. i
    BY <1>1
  <2> QED
    BY <2>1 DEF Outside, Within
<1>7. F0 \in Int /\ M0 \in Int
  <2>1. /\ m.cash \in [Entities -> Nat] /\ m.deposit \in [Entities -> Nat]
        /\ m.reserves \in [Banks -> Nat] /\ (BankOf[payer] # None => BankOf[payer] \in Banks)
    BY Finite DEF SoundMoney, Moneys
  <2> QED
    BY <2>1 DEF Funds, Means, Lesser
<1>8. O(0) = 0 /\ W(0) = 0
  <2>1. Outside(payer, dues, 0) = {} /\ Within(payer, dues, 0) = {}
    BY DEF Outside, Within
  <2> QED
    BY <2>1, SumEmpty DEF UpToNow
<1>9. O(n) \in Nat /\ W(n) \in Nat
  <2>1. CASE n = 0
    BY <1>8, <2>1
  <2>2. CASE n # 0
    BY <1>1, <1>5, <2>2
  <2> QED
    BY <2>1, <2>2
<1>10. ASSUME Payable(m, payer, dues) PROVE O(n) <= M0 /\ O(n) + W(n) <= F0
  <2> DEFINE G == Amounts(dues)
             SO == Outside(payer, dues, n)
             SW == Within(payer, dues, n)
  <2>1. {i \in DOMAIN dues : dues[i].to # payer} = SO \cup SW /\ SO \cap SW = {}
        /\ {i \in DOMAIN dues : dues[i].to # payer /\ BankOf[dues[i].to] # BankOf[payer]} = SO
    BY <1>1 DEF Outside, Within
  <2>2. IsFiniteSet(SO) /\ IsFiniteSet(SW) /\ \A i \in SO \cup SW : G[i] \in Int
    <3>1. IsFiniteSet(1 .. n)
      BY <1>1, FS_Interval
    <3>2. SO \subseteq 1 .. n /\ SW \subseteq 1 .. n
      BY DEF Outside, Within
    <3>3. \A i \in 1 .. n : G[i] = dues[i].amount
      BY <1>1 DEF Amounts
    <3> QED
      BY <1>1, <3>1, <3>2, <3>3, FS_Subset
  <2> HIDE DEF G, SO, SW
  <2>3. Sum(G, SO \cup SW) = Sum(G, SO) + Sum(G, SW)
    BY <2>1, <2>2, SumUnion
  <2>4. Sum(G, SO) = O(n) /\ Sum(G, SW) = W(n)
    BY DEF UpToNow, G, SO, SW
  <2>5. TotalDue(payer, dues) = O(n) + W(n) /\ DueOutside(payer, dues) = O(n)
    BY <2>1, <2>3, <2>4 DEF TotalDue, DueOutside, G
  <2> HIDE DEF O, W, F0, M0
  <2>6. O(n) + W(n) <= F0
    BY <1>7, <1>9, <1>10, <2>5 DEF Payable, F0
  <2>7. CASE BankOf[payer] = None
    <3>1. M0 = m.cash[payer] /\ m.cash[payer] >= O(n) + W(n)
      BY <1>10, <2>5, <2>7 DEF Payable, M0, Means
    <3> QED
      BY <1>7, <1>9, <2>6, <3>1
  <2>8. CASE BankOf[payer] # None
    <3>1. M0 = m.cash[payer] + Lesser(m.deposit[payer], m.reserves[BankOf[payer]]) /\ O(n) <= M0
      BY <1>10, <2>5, <2>8 DEF Payable, M0, Means
    <3> QED
      BY <2>6, <3>1
  <2> QED
    BY <2>7, <2>8
<1>11. A[0] \subseteq X /\ base \in A[0]
       /\ \A k \in 1 .. n : A[k] \subseteq X /\ \A a \in A[k - 1] : First(a, dues[k]) \in A[k]
  <2>1. \A i \in 0 .. n : A[i] = {acc \in X : Payable(m, payer, dues) => Out(acc, i)}
    OBVIOUS
  <2>2. Out(base, 0)
    BY <1>7, <1>8
  <2>3. ASSUME NEW k \in 1 .. n, NEW a \in A[k - 1] PROVE First(a, dues[k]) \in A[k]
    <3> DEFINE d == dues[k]
               p == First(a, d)
    <3>1. k - 1 \in 0 .. n /\ k \in 0 .. n
      BY <1>1
    <3>2. a \in X /\ (Payable(m, payer, dues) => Out(a, k - 1))
      BY <2>1, <3>1
    <3>3. p \in X
      BY <1>3, <3>2
    <3>4. ASSUME Payable(m, payer, dues) PROVE Out(p, k)
      <4>1. Out(a, k - 1) /\ a.money \in SoundMoney
        BY <3>2, <3>4 DEF Payments, Onwards
      <4>2. CASE Inside(d)
        <5>1. O(k) = O(k - 1) /\ p = a
          <6>1. ~(k \in Outside(payer, dues, k)) /\ O(k - 1) \in Nat
                /\ O(k) = O(k - 1) + (IF k \in Outside(payer, dues, k) THEN dues[k].amount ELSE 0)
            BY <1>5, <1>6, <4>2
          <6>2. p = a
            BY <4>2 DEF PayIf
          <6> HIDE DEF O
          <6> QED
            BY <6>1, <6>2
        <5> QED
          BY <4>1, <5>1
      <4>3. CASE ~Inside(d)
        <5>1. /\ d.to \in Entities /\ d.amount \in Nat /\ BankOf[d.to] # BankOf[payer] /\ d.to # payer
              /\ p = Pay(a, payer, d.to, d.amount)
          BY <1>1, <4>3 DEF PayIf
        <5>2. k \in Outside(payer, dues, k)
          BY <1>6, <4>3, <5>1
        <5>3. O(k - 1) \in Nat /\ O(k) = O(k - 1) + d.amount /\ O(k) <= O(n)
          BY <1>5, <5>2
        <5>4. O(n) <= M0
          BY <1>10, <3>4
        <5> HIDE DEF O, F0, M0, p, d
        <5>5. d.amount <= Means(a.money, payer)
          BY <1>7, <1>9, <4>1, <5>1, <5>3, <5>4
        <5>6. /\ Transferred(a.money, payer, d.to, d.amount) = d.amount
              /\ Funds(p.money, payer) = Funds(a.money, payer) - d.amount
              /\ Means(p.money, payer) = Means(a.money, payer) - d.amount
          BY <4>1, <5>1, <5>5, PaidOutside DEF Pay
        <5>7. p.full
          BY <4>1, <5>1, <5>6 DEF Pay
        <5> QED
          BY <1>7, <4>1, <5>1, <5>3, <5>6, <5>7
      <4> QED
        BY <4>2, <4>3
    <3> HIDE DEF A, X, Out, p
    <3> QED
      BY <2>1, <3>1, <3>3, <3>4 DEF p
  <2>4. \A k \in 1 .. n : A[k] \subseteq X
    BY <1>1, <2>1
  <2>5. 0 \in 0 .. n
    BY <1>1
  <2> HIDE DEF A, Out, X, First, base
  <2> QED
    BY <1>2, <2>1, <2>2, <2>3, <2>4, <2>5
<1> HIDE DEF n, X, base, start, A, Inside, First, Then, Out, In, B
<1>12. FoldLeft(First, base, dues) \in A[n]
  <2> DEFINE F == [p \in X \X (1 .. n) |-> First(p[1], dues[p[2]])]
             Is(h) == h = [s \in SUBSET (1 .. n) |->
                             IF s = {} THEN base ELSE First(h[s \ {Max(s)}], dues[Max(s)])]
             g == CHOOSE h : Is(h)
  <2>1. FoldLeft(First, base, dues) = g[1 .. n]
    BY <1>1 DEF FoldLeft, MapThenFoldSet
  <2> HIDE DEF First
  <2>2. n \in Nat /\ base \in X
    BY <1>1, <1>2
  <2>3. F \in [X \X (1 .. n) -> X]
    BY <1>3
  <2>4. \A acc \in X : \A i \in 1 .. n : F[<<acc, i>>] = First(acc, dues[i])
    OBVIOUS
  <2>5. \A s \in SUBSET (1 .. n) : s # {} => Max(s) \in 1 .. n
    BY <2>2, LastPosition
  <2> HIDE DEF F
  <2>6. PICK h \in [SUBSET (1 .. n) -> X] : RunsUp(h, n, F, base)
    BY <2>2, <2>3, FoldRunsUp
  <2>7. Is(h)
    BY <2>4, <2>5, <2>6 DEF RunsUp
  <2>8. Is(g)
    BY <2>7
  <2> HIDE DEF g
  <2>9. Follows(g, n, X, F, base)
    BY <2>4, <2>5, <2>8 DEF Follows
  <2>10. \A k \in 1 .. n : A[k] \subseteq X /\ \A a \in A[k - 1] : F[<<a, k>>] \in A[k]
    BY <2>2, <2>4, <1>11
  <2>11. A[0] \subseteq X /\ base \in A[0]
    BY <1>11
  <2>12. g[1 .. n] \in A[n]
    BY <2>2, <2>9, <2>10, <2>11, FoldEnds
  <2> QED
    BY <2>1, <2>12
<1>13. start \in X /\ (Payable(m, payer, dues) => Out(start, n))
  <2>1. n \in 0 .. n
    BY <1>1
  <2>2. A[n] = {acc \in X : Payable(m, payer, dues) => Out(acc, n)}
    BY <2>1 DEF A
  <2> QED
    BY <1>12, <2>2 DEF start
<1>14. B[0] \subseteq X /\ start \in B[0]
       /\ \A k \in 1 .. n : B[k] \subseteq X /\ \A a \in B[k - 1] : Then(a, dues[k]) \in B[k]
  <2>1. \A i \in 0 .. n : B[i] = {acc \in X : Payable(m, payer, dues) => In(acc, i)}
    BY DEF B
  <2>2. Out(start, n) => In(start, 0)
    BY <1>7, <1>8, <1>9 DEF In, Out
  <2>3. ASSUME NEW k \in 1 .. n, NEW a \in B[k - 1] PROVE Then(a, dues[k]) \in B[k]
    <3> DEFINE d == dues[k]
               p == Then(a, d)
    <3>1. k - 1 \in 0 .. n /\ k \in 0 .. n
      BY <1>1
    <3>2. a \in X /\ (Payable(m, payer, dues) => In(a, k - 1))
      BY <2>1, <3>1
    <3>3. p \in X
      BY <1>3, <3>2
    <3>4. ASSUME Payable(m, payer, dues) PROVE In(p, k)
      <4>1. In(a, k - 1) /\ a.money \in SoundMoney
        BY <3>2, <3>4 DEF Payments, Onwards, X
      <4>2. CASE ~Inside(d)
        <5>1. W(k) = W(k - 1) /\ p = a
          <6>1. ~(k \in Within(payer, dues, k)) /\ W(k - 1) \in Nat
                /\ W(k) = W(k - 1) + (IF k \in Within(payer, dues, k) THEN dues[k].amount ELSE 0)
            BY <1>5, <1>6, <4>2
          <6>2. p = a
            BY <4>2 DEF PayIf, Then
          <6> HIDE DEF W
          <6> QED
            BY <6>1, <6>2
        <5> QED
          BY <4>1, <5>1 DEF In
      <4>3. CASE Inside(d) /\ d.to # payer
        <5>1. /\ d.to \in Entities /\ d.amount \in Nat /\ BankOf[d.to] = BankOf[payer] /\ d.to # payer
              /\ p = Pay(a, payer, d.to, d.amount)
          BY <1>1, <4>3 DEF PayIf, Inside, Then
        <5>2. k \in Within(payer, dues, k)
          BY <1>6, <4>3, <5>1
        <5>3. W(k - 1) \in Nat /\ W(k) = W(k - 1) + d.amount /\ W(k) <= W(n)
          BY <1>5, <5>2
        <5>4. O(n) + W(n) <= F0
          BY <1>10, <3>4
        <5> HIDE DEF O, W, F0, M0, p, d
        <5>5. d.amount <= Funds(a.money, payer)
          BY <1>7, <1>9, <4>1, <5>1, <5>3, <5>4 DEF In
        <5>6. /\ Transferred(a.money, payer, d.to, d.amount) = d.amount
              /\ Funds(p.money, payer) = Funds(a.money, payer) - d.amount
          BY <4>1, <5>1, <5>5, PaidInside DEF Pay
        <5>7. p.full
          BY <4>1, <5>1, <5>6 DEF Pay, In
        <5> QED
          BY <1>7, <1>9, <4>1, <5>1, <5>3, <5>6, <5>7 DEF In
      <4>4. CASE Inside(d) /\ d.to = payer
        <5>1. W(k) = W(k - 1)
          <6>1. ~(k \in Within(payer, dues, k)) /\ W(k - 1) \in Nat
                /\ W(k) = W(k - 1) + (IF k \in Within(payer, dues, k) THEN dues[k].amount ELSE 0)
            BY <1>5, <1>6, <4>4
          <6> HIDE DEF W
          <6> QED
            BY <6>1
        <5>2. d.amount \in Nat /\ p = Pay(a, payer, d.to, d.amount)
          BY <1>1, <4>4 DEF PayIf, Then
        <5>3. Transferred(a.money, payer, d.to, d.amount) = d.amount /\ Transfer(a.money, payer, d.to, d.amount) = a.money
          BY <4>4, <5>2 DEF Transferred, Transfer, Larger
        <5> HIDE DEF p, W, O, F0
        <5>4. p.money = a.money /\ p.full
          BY <4>1, <5>2, <5>3 DEF Pay, In
        <5> QED
          BY <4>1, <5>1, <5>4 DEF In
      <4> QED
        BY <4>2, <4>3, <4>4
    <3> HIDE DEF p
    <3> QED
      BY <2>1, <3>1, <3>3, <3>4 DEF p
  <2>4. \A k \in 1 .. n : B[k] \subseteq X
    BY <1>1, <2>1
  <2>5. 0 \in 0 .. n
    BY <1>1
  <2> QED
    BY <1>13, <2>1, <2>2, <2>3, <2>4, <2>5
<1>15. start \in X
  BY <1>13
<1>16. FoldLeft(Then, start, dues) \in B[n]
  <2> DEFINE F == [p \in X \X (1 .. n) |-> Then(p[1], dues[p[2]])]
             Is(h) == h = [s \in SUBSET (1 .. n) |->
                             IF s = {} THEN start ELSE Then(h[s \ {Max(s)}], dues[Max(s)])]
             g == CHOOSE h : Is(h)
  <2>1. FoldLeft(Then, start, dues) = g[1 .. n]
    BY <1>1 DEF FoldLeft, MapThenFoldSet
  <2> HIDE DEF Then
  <2>2. n \in Nat /\ start \in X
    BY <1>1, <1>15
  <2>3. F \in [X \X (1 .. n) -> X]
    BY <1>3
  <2>4. \A acc \in X : \A i \in 1 .. n : F[<<acc, i>>] = Then(acc, dues[i])
    OBVIOUS
  <2>5. \A s \in SUBSET (1 .. n) : s # {} => Max(s) \in 1 .. n
    BY <2>2, LastPosition
  <2> HIDE DEF F
  <2>6. PICK h \in [SUBSET (1 .. n) -> X] : RunsUp(h, n, F, start)
    BY <2>2, <2>3, FoldRunsUp
  <2>7. Is(h)
    BY <2>4, <2>5, <2>6 DEF RunsUp
  <2>8. Is(g)
    BY <2>7
  <2> HIDE DEF g
  <2>9. Follows(g, n, X, F, start)
    BY <2>4, <2>5, <2>8 DEF Follows
  <2>10. \A k \in 1 .. n : B[k] \subseteq X /\ \A a \in B[k - 1] : F[<<a, k>>] \in B[k]
    BY <2>2, <2>4, <1>14
  <2>11. B[0] \subseteq X /\ start \in B[0]
    BY <1>14
  <2>12. g[1 .. n] \in B[n]
    BY <2>2, <2>9, <2>10, <2>11, FoldEnds
  <2> QED
    BY <2>1, <2>12
<1>17. PaidOff(m, payer, dues) \in X /\ (Payable(m, payer, dues) => In(PaidOff(m, payer, dues), n))
  <2>1. n \in 0 .. n
    BY <1>1
  <2>2. B[n] = {acc \in X : Payable(m, payer, dues) => In(acc, n)}
    BY <2>1 DEF B
  <2> QED
    BY <1>4, <1>16, <2>2
<1> QED
  BY <1>17 DEF X, Payments, In

\* Stock, and what trading leaves of it alone.
Stocks == [Rows -> [quantity : Nat, pledged : Nat, carrying : Nat]]
StockKept(s, t) ==
  \A row \in Rows : /\ t[row].pledged = s[row].pledged /\ t[row].carrying = s[row].carrying
                    /\ s[row].pledged <= s[row].quantity => t[row].pledged <= t[row].quantity
Stored(stock, g) == Sum([row \in Rows |-> stock[row].quantity], RowsOf(g))
Moving(transit, g) == Sum([l \in transit |-> l.quantity], {l \in transit : l.good = g})

\* What trading takes out of the rows, by good.
Goes(row, n, g) == IF row[3] = g THEN n ELSE 0

(* What dividing whole numbers leaves. *)
LEMMA Division ==
  ASSUME NEW n \in Int, NEW d \in Nat \ {0}
  PROVE  n \div d \in Int /\ n % d \in 0 .. d - 1 /\ n = d * (n \div d) + (n % d)
<1> DEFINE q == n \div d
           r == n % d
<1>1. q \in Int /\ r \in 0 .. d - 1 /\ n = d * q + r
  OBVIOUS
<1> QED
  BY <1>1, Zenon

(* The rows, places, goods and sites are finite, and dues in cents are whole *)
(* cents.                                                                    *)
LEMMA ScenarioSets ==
  /\ IsFiniteSet(Rows) /\ \A g : IsFiniteSet(RowsOf(g)) /\ RowsOf(g) \subseteq Rows
  /\ IsFiniteSet(Goods) /\ IsFiniteSet(Sites)
  /\ Places = Sites \X Goods /\ Rows = Entities \X Sites \X Goods
  /\ InCents \subseteq Whole \cap Nat
<1>1. IsFiniteSet(Goods) /\ IsFiniteSet(Sites)
  BY ScenarioAssumption DEF ScenarioAccepted
<1>2. IsFiniteSet(Rows)
  <2>1. IsFiniteSet(Sites \X Goods)
    BY <1>1, FS_Product
  <2>2. IsFiniteSet(Entities \X (Sites \X Goods))
    BY <2>1, Finite, FS_Product
  <2> DEFINE f == [p \in Entities \X (Sites \X Goods) |-> <<p[1], p[2][1], p[2][2]>>]
  <2>3. IsFiniteSet({f[p] : p \in Entities \X (Sites \X Goods)})
    <3> HIDE DEF f
    <3> QED
      BY <2>2, FiniteImage
  <2>4. Rows = {f[p] : p \in Entities \X (Sites \X Goods)}
    <3>1. ASSUME NEW row \in Rows PROVE row \in {f[p] : p \in Entities \X (Sites \X Goods)}
      <4>1. row = <<row[1], row[2], row[3]>> /\ row[1] \in Entities /\ row[2] \in Sites /\ row[3] \in Goods
        BY DEF Rows
      <4>2. f[<<row[1], <<row[2], row[3]>>>>] = <<row[1], row[2], row[3]>>
        BY <4>1
      <4> QED
        BY <4>1, <4>2
    <3>2. ASSUME NEW p \in Entities \X (Sites \X Goods) PROVE f[p] \in Rows
      BY DEF Rows
    <3> QED
      BY <3>1, <3>2
  <2> QED
    BY <2>3, <2>4
<1>3. \A g : IsFiniteSet(RowsOf(g)) /\ RowsOf(g) \subseteq Rows
  BY <1>2, FS_Subset DEF RowsOf
<1>4. InCents \subseteq Whole \cap Nat
  <2>1. SUFFICES ASSUME NEW n \in Nat, n % Cent = 0 PROVE n \in Whole
    BY DEF InCents
  <2>2. Cent \in Nat \ {0} /\ n \in Int
    BY Finite
  <2> DEFINE q == n \div Cent
             r == n % Cent
  <2>3. q \in Int /\ r \in 0 .. Cent - 1 /\ n = Cent * q + r
    BY <2>2, Division, Zenon
  <2>4. r = 0
    BY <2>1, Zenon
  <2> HIDE DEF q, r
  <2>5. n = Cent * q
    BY <2>2, <2>3, <2>4
  <2> QED
    BY <2>3, <2>5 DEF Whole
<1> QED
  BY <1>1, <1>2, <1>3, <1>4 DEF Places, Rows

(* A row's stock, and what of it is available. *)
LEMMA StockTyped ==
  ASSUME NEW s \in Stocks, NEW row \in Rows
  PROVE  /\ s[row] \in [quantity : Nat, pledged : Nat, carrying : Nat]
         /\ s[row].quantity \in Nat /\ s[row].pledged \in Nat /\ s[row].carrying \in Nat
         /\ Available(s[row]) \in Nat /\ Available(s[row]) <= s[row].quantity
BY DEF Stocks, Available, Larger

(* A row that holds n more, or less. *)
LEMMA StoredChange ==
  ASSUME NEW s \in Stocks, NEW t \in Stocks, NEW row \in Rows, NEW n \in Int,
         t[row].quantity = s[row].quantity + n,
         \A r \in Rows : r # row => t[r].quantity = s[r].quantity,
         NEW g
  PROVE  Stored(t, g) = Stored(s, g) + Goes(row, n, g) /\ Stored(s, g) \in Int
<1> DEFINE F == [r \in Rows |-> s[r].quantity]
           G == [r \in Rows |-> t[r].quantity]
           S == RowsOf(g)
<1>1. IsFiniteSet(S) /\ S \subseteq Rows /\ (row \in S <=> row[3] = g)
  BY ScenarioSets DEF RowsOf
<1>2. \A r \in Rows : F[r] \in Int /\ G[r] \in Int /\ (r # row => G[r] = F[r])
  BY StockTyped
<1>3. G[row] = F[row] + n
  OBVIOUS
<1>4. Stored(t, g) = Sum(G, S) /\ Stored(s, g) = Sum(F, S)
  BY DEF Stored
<1> HIDE DEF F, G, S
<1>5. Sum(F, S) \in Int
  BY <1>1, <1>2, SumType
<1>6. CASE row \in S
  <2>1. \A x \in S : F[x] \in Int /\ G[x] \in Int
    BY <1>1, <1>2
  <2>2. \A x \in S : x # row => G[x] = F[x]
    BY <1>1, <1>2
  <2>3. Sum(G, S) = Sum(F, S) - F[row] + G[row]
    BY <1>1, <1>6, <2>1, <2>2, SumChange
  <2> QED
    BY <1>1, <1>2, <1>3, <1>4, <1>5, <1>6, <2>3 DEF Goes
<1>7. CASE row \notin S
  <2>1. \A x \in S : F[x] = G[x]
    BY <1>1, <1>2, <1>7
  <2>2. Sum(G, S) = Sum(F, S)
    BY <1>1, <2>1, SumEqual
  <2> QED
    BY <1>1, <1>4, <1>5, <1>7, <2>2 DEF Goes
<1> QED
  BY <1>6, <1>7

(* What is available can be taken. *)
LEMMA StockTaken ==
  ASSUME NEW s \in Stocks, NEW row \in Rows, NEW n \in Nat, n <= Available(s[row])
  PROVE  LET t == [s EXCEPT ![row].quantity = @ - n]
         IN /\ t \in Stocks /\ StockKept(s, t)
            /\ \A g : Stored(t, g) = Stored(s, g) - Goes(row, n, g) /\ Stored(s, g) \in Int
<1> DEFINE t == [s EXCEPT ![row].quantity = @ - n]
           q == s[row].quantity - n
<1>1. s[row] \in [quantity : Nat, pledged : Nat, carrying : Nat] /\ q \in Nat
      /\ s[row].quantity \in Nat /\ s[row].pledged \in Nat
      /\ (s[row].pledged <= s[row].quantity => s[row].pledged <= q)
  BY StockTyped DEF Available, Larger
<1>2. t = [s EXCEPT ![row] = [s[row] EXCEPT !.quantity = q]]
  OBVIOUS
<1>3. [s[row] EXCEPT !.quantity = q] \in [quantity : Nat, pledged : Nat, carrying : Nat]
  BY <1>1
<1>4. t \in Stocks
  BY <1>2, <1>3 DEF Stocks
<1>5. /\ t[row].quantity = q /\ t[row].pledged = s[row].pledged /\ t[row].carrying = s[row].carrying
      /\ \A r \in Rows : r # row => t[r] = s[r]
  BY <1>1, <1>2 DEF Stocks
<1> HIDE DEF t, q
<1>6. StockKept(s, t)
  BY <1>1, <1>5 DEF StockKept
<1>7. ASSUME NEW g PROVE Stored(t, g) = Stored(s, g) - Goes(row, n, g) /\ Stored(s, g) \in Int
  <2>1. 0 - n \in Int /\ t[row].quantity = s[row].quantity + (0 - n)
    BY <1>1, <1>5 DEF q
  <2>2. Stored(t, g) = Stored(s, g) + Goes(row, 0 - n, g) /\ Stored(s, g) \in Int
    BY <1>4, <1>5, <2>1, StoredChange
  <2>3. Goes(row, 0 - n, g) = 0 - Goes(row, n, g) /\ Goes(row, n, g) \in Int
    BY DEF Goes
  <2> QED
    BY <2>2, <2>3
<1> QED
  BY <1>4, <1>6, <1>7 DEF t

\* Markets of a month.  The shipments of this month are numbered by its trades.
Supplies == [Places -> [requested : Nat, consumed : Nat, offered : Nat]]
Numbered(m, now) ==
  \A l \in m.transit : l.id[1] < now \/ (l.id[1] = now /\ l.id[2] <= m.trades)
Markets ==
  {m \in [money : SoundMoney, stock : Stocks, transit : SUBSET Lots, full : BOOLEAN,
          trades : Nat, gone : [Goods -> Int], carried : [DOMAIN Routes -> Int],
          supply : Supplies] : IsFiniteSet(m.transit)}
Balance(m, g) == InStore(m, g) + m.gone[g]

\* What k may become by trading.
Traded(k, now) ==
  {m \in Markets : /\ Numbered(k, now) => Numbered(m, now) /\ \A g \in Goods : Balance(m, g) = Balance(k, g)
                   /\ m.money \in Onwards(k.money)
                   /\ StockKept(k.stock, m.stock)
                   /\ k.full => m.full}

(* A market is the record of its parts. *)
LEMMA MarketParts ==
  ASSUME NEW m
  PROVE  m \in Markets <=>
           /\ m = [money |-> m.money, stock |-> m.stock, transit |-> m.transit, full |-> m.full,
                   trades |-> m.trades, gone |-> m.gone, carried |-> m.carried, supply |-> m.supply]
           /\ m.money \in SoundMoney /\ m.stock \in Stocks /\ m.transit \in SUBSET Lots
           /\ m.full \in BOOLEAN /\ m.trades \in Nat /\ m.gone \in [Goods -> Int]
           /\ m.carried \in [DOMAIN Routes -> Int] /\ m.supply \in Supplies
           /\ IsFiniteSet(m.transit)
BY DEF Markets

\* A record of a market's parts, and the parts that two of them share.
Shaped(m) ==
  m = [money |-> m.money, stock |-> m.stock, transit |-> m.transit, full |-> m.full,
       trades |-> m.trades, gone |-> m.gone, carried |-> m.carried, supply |-> m.supply]
Others(m, k, changed) ==
  /\ "money" \in changed \/ k.money = m.money
  /\ "stock" \in changed \/ k.stock = m.stock
  /\ "transit" \in changed \/ k.transit = m.transit
  /\ "full" \in changed \/ k.full = m.full
  /\ "trades" \in changed \/ k.trades = m.trades
  /\ "gone" \in changed \/ k.gone = m.gone
  /\ "carried" \in changed \/ k.carried = m.carried
  /\ "supply" \in changed \/ k.supply = m.supply

Plus(f, x, n) == [f EXCEPT ![x] = @ + n]

(* What is taken comes out of the stock only. *)
LEMMA TakenShape ==
  ASSUME NEW m, Shaped(m), NEW owner, NEW place, NEW n
  PROVE  LET t == Taken(m, owner, place, n)
         IN /\ Shaped(t) /\ Others(m, t, {"stock"})
            /\ t.stock = [m.stock EXCEPT ![<<owner, place[1], place[2]>>].quantity = @ - n]
BY DEF Shaped, Others, Taken

(* What is used up is only counted. *)
LEMMA GoneShape ==
  ASSUME NEW m, Shaped(m), NEW good, NEW n
  PROVE  LET t == Gone(m, good, n)
         IN Shaped(t) /\ Others(m, t, {"gone"}) /\ t.gone = Plus(m.gone, good, n)
BY DEF Shaped, Others, Gone, Plus

(* What there is of a good lies in store or is under way. *)
LEMMA StoreParts ==
  /\ \A m, g : InStore(m, g) = Stored(m.stock, g) + Moving(m.transit, g)
  /\ \A m \in Markets : \A g : Stored(m.stock, g) \in Int /\ Moving(m.transit, g) \in Int
<1>1. \A m, g : InStore(m, g) = Stored(m.stock, g) + Moving(m.transit, g)
  BY DEF InStore, Stored, Moving
<1>2. ASSUME NEW m \in Markets, NEW g PROVE Stored(m.stock, g) \in Int /\ Moving(m.transit, g) \in Int
  <2> DEFINE F == [row \in Rows |-> m.stock[row].quantity]
             G == [l \in m.transit |-> l.quantity]
             S == {l \in m.transit : l.good = g}
  <2>1. m.stock \in Stocks /\ m.transit \in SUBSET Lots /\ IsFiniteSet(m.transit)
    BY MarketParts
  <2>2. \A row \in RowsOf(g) : F[row] \in Int
    BY <2>1, StockTyped, ScenarioSets
  <2>3. \A l \in S : G[l] \in Int
    BY <2>1 DEF Lots
  <2>4. IsFiniteSet(S)
    BY <2>1, FS_Subset
  <2> HIDE DEF F, G, S
  <2>5. Sum(F, RowsOf(g)) \in Int
    BY <2>2, ScenarioSets, SumType
  <2>6. Sum(G, S) \in Int
    BY <2>3, <2>4, SumType
  <2> QED
    BY <2>5, <2>6 DEF Stored, Moving, F, G, S
<1> QED
  BY <1>1, <1>2

(* Stock may stay as it is, and may be traded twice. *)
LEMMA StockKeptOn ==
  /\ \A s : StockKept(s, s)
  /\ \A s, t, u : StockKept(s, t) /\ StockKept(t, u) => StockKept(s, u)
BY DEF StockKept

(* A market may stay as it is. *)
LEMMA TradedSelf == ASSUME NEW k \in Markets, NEW now PROVE k \in Traded(k, now)
BY MarketParts, OnwardsSelf, StockKeptOn DEF Traded

(* What a market may become in two trades it may become in one. *)
LEMMA TradedOn ==
  ASSUME NEW k, NEW now, NEW m \in Traded(k, now), NEW p \in Traded(m, now)
  PROVE  p \in Traded(k, now)
<1>1. p.money \in Onwards(k.money)
  BY OnwardsOn DEF Traded
<1>2. StockKept(k.stock, p.stock)
  BY StockKeptOn DEF Traded
<1> QED
  BY <1>1, <1>2 DEF Traded

(* Money may change hands. *)
LEMMA PaidTraded ==
  ASSUME NEW m \in Markets, NEW now, NEW money \in Onwards(m.money), NEW k,
         k = [m EXCEPT !.money = money]
  PROVE  k \in Traded(m, now) /\ k.stock = m.stock /\ k.money = money
<1>1. /\ k.money = money /\ k.stock = m.stock /\ k.transit = m.transit /\ k.full = m.full
      /\ k.trades = m.trades /\ k.gone = m.gone /\ k.carried = m.carried /\ k.supply = m.supply
      /\ k = [money |-> k.money, stock |-> k.stock, transit |-> k.transit, full |-> k.full,
              trades |-> k.trades, gone |-> k.gone, carried |-> k.carried, supply |-> k.supply]
  BY MarketParts
<1>2. money \in SoundMoney
  BY DEF Onwards
<1>3. k \in Markets
  BY <1>1, <1>2, MarketParts
<1>4. \A g \in Goods : Balance(k, g) = Balance(m, g)
  BY <1>1, StoreParts DEF Balance
<1> QED
  BY <1>1, <1>3, <1>4, StockKeptOn DEF Traded, Numbered

(* Stock may be taken and consumed, and put down as gone. *)
LEMMA UsedTraded ==
  ASSUME NEW m \in Markets, NEW now, NEW owner \in Entities, NEW place \in Places, NEW n \in Nat,
         n <= Available(Row(m, owner, place)), NEW k,
         k = UsedUp(Taken(m, owner, place, n), place, n)
  PROVE  k \in Traded(m, now) /\ k.trades = m.trades /\ k.transit = m.transit
<1> DEFINE row == <<owner, place[1], place[2]>>
           stock == [m.stock EXCEPT ![row].quantity = @ - n]
           g0 == place[2]
           gone == [m.gone EXCEPT ![g0] = @ + n]
           supply == [m.supply EXCEPT ![place].consumed = @ + n]
<1>1. row \in Rows /\ g0 \in Goods /\ row[3] = g0 /\ m.stock \in Stocks /\ n <= Available(m.stock[row])
  BY MarketParts DEF Places, Rows, Row
<1>2. /\ k.money = m.money /\ k.stock = stock /\ k.transit = m.transit /\ k.full = m.full
      /\ k.trades = m.trades /\ k.gone = gone /\ k.carried = m.carried /\ k.supply = supply
      /\ Shaped(k)
  <2> DEFINE t == Taken(m, owner, place, n)
             l == Gone(t, place[2], n)
  <2>1. Shaped(m)
    BY MarketParts DEF Shaped
  <2>2. Shaped(t) /\ t.stock = stock /\ Others(m, t, {"stock"})
    BY <2>1, TakenShape
  <2>3. Shaped(l) /\ l.gone = gone /\ Others(t, l, {"gone"})
    <3> HIDE DEF t, gone
    <3>1. Shaped(l) /\ l.gone = Plus(t.gone, g0, n) /\ Others(t, l, {"gone"})
      BY <2>2, GoneShape
    <3>2. t.gone = m.gone
      BY <2>2 DEF Others
    <3> QED
      BY <3>1, <3>2 DEF gone, Plus
  <2>4. k = [l EXCEPT !.supply[place].consumed = @ + n]
    BY DEF UsedUp
  <2>5. Shaped(k) /\ k.supply = [l.supply EXCEPT ![place].consumed = @ + n] /\ Others(l, k, {"supply"})
    <3> HIDE DEF l
    <3> QED
      BY <2>3, <2>4 DEF Shaped, Others
  <2> HIDE DEF t, l, stock, gone, supply
  <2>6. l.supply = m.supply
    BY <2>2, <2>3 DEF Others
  <2> QED
    BY <2>2, <2>3, <2>5, <2>6 DEF Others, supply
<1>3. /\ stock \in Stocks /\ StockKept(m.stock, stock)
      /\ \A g : Stored(stock, g) = Stored(m.stock, g) - Goes(row, n, g) /\ Stored(m.stock, g) \in Int
  <2> HIDE DEF row
  <2> QED
    BY <1>1, StockTaken
<1>4. m.gone \in [Goods -> Int] /\ m.supply \in Supplies
  BY MarketParts
<1>5. gone \in [Goods -> Int]
  BY <1>1, <1>4
<1>6. supply \in Supplies
  BY <1>4 DEF Supplies
<1>7. k \in Markets
  BY <1>2, <1>3, <1>5, <1>6, MarketParts DEF Shaped
<1>8. ASSUME NEW g \in Goods PROVE Balance(k, g) = Balance(m, g)
  <2>1. gone[g] = m.gone[g] + Goes(row, n, g) /\ m.gone[g] \in Int /\ Goes(row, n, g) \in Int
    BY <1>1, <1>4 DEF Goes
  <2>2. Stored(k.stock, g) = Stored(m.stock, g) - Goes(row, n, g) /\ Stored(m.stock, g) \in Int
    BY <1>2, <1>3
  <2>3. Moving(k.transit, g) = Moving(m.transit, g) /\ Moving(m.transit, g) \in Int
    BY <1>2, StoreParts
  <2>4. k.gone[g] = gone[g]
    BY <1>2
  <2> HIDE DEF row, gone
  <2> QED
    BY <2>1, <2>2, <2>3, <2>4, StoreParts DEF Balance
<1>9. Numbered(m, now) => Numbered(k, now)
  BY <1>2 DEF Numbered
<1> QED
  BY <1>2, <1>3, <1>7, <1>8, <1>9, MarketParts, OnwardsSelf DEF Traded

(* One more trade, or another figure of what was asked for, is of no matter. *)
LEMMA CountedTraded ==
  ASSUME NEW m \in Markets, NEW now, NEW k,
         \/ k = [m EXCEPT !.trades = @ + 1]
         \/ \E place \in Places : \E n \in Nat : k = [m EXCEPT !.supply[place].requested = @ + n]
  PROVE  k \in Traded(m, now) /\ k.stock = m.stock
<1>1. /\ k.money = m.money /\ k.stock = m.stock /\ k.transit = m.transit /\ k.full = m.full
      /\ k.trades \in {m.trades, m.trades + 1} /\ k.gone = m.gone /\ k.carried = m.carried
      /\ k = [money |-> k.money, stock |-> k.stock, transit |-> k.transit, full |-> k.full,
              trades |-> k.trades, gone |-> k.gone, carried |-> k.carried, supply |-> k.supply]
  BY MarketParts
<1>2. k.supply \in Supplies
  <2>1. m.supply \in Supplies
    BY MarketParts
  <2>2. CASE k = [m EXCEPT !.trades = @ + 1]
    BY <2>1, <2>2, MarketParts
  <2>3. CASE \E place \in Places : \E n \in Nat : k = [m EXCEPT !.supply[place].requested = @ + n]
    <3>1. PICK place \in Places, n \in Nat : k = [m EXCEPT !.supply[place].requested = @ + n]
      BY <2>3
    <3>2. k.supply = [m.supply EXCEPT ![place].requested = @ + n]
      BY <3>1, MarketParts
    <3> QED
      BY <2>1, <3>2 DEF Supplies
  <2> QED
    BY <2>2, <2>3
<1>3. m.trades \in Nat
  BY MarketParts
<1>4. k \in Markets
  BY <1>1, <1>2, <1>3, MarketParts
<1>5. \A g \in Goods : Balance(k, g) = Balance(m, g)
  BY <1>1, StoreParts DEF Balance
<1>6. Numbered(m, now) => Numbered(k, now)
  <2>1. \A l \in m.transit : l.id[2] \in Nat
    BY MarketParts DEF Lots
  <2> QED
    BY <1>1, <1>3, <2>1 DEF Numbered
<1> QED
  BY <1>1, <1>4, <1>5, <1>6, MarketParts, OnwardsSelf, StockKeptOn DEF Traded

(* A settlement in full is a trade. *)
LEMMA PayingTraded ==
  ASSUME NEW m \in Markets, NEW now, NEW settled, settled.money \in Onwards(m.money), settled.full,
         settled.full \in BOOLEAN, NEW k, k = Paying(m, settled)
  PROVE  k \in Traded(m, now) /\ Others(m, k, {"money", "full"})
<1>1. /\ k.money = settled.money /\ k.stock = m.stock /\ k.transit = m.transit
      /\ k.full = (m.full /\ settled.full)
      /\ k.trades = m.trades /\ k.gone = m.gone /\ k.carried = m.carried /\ k.supply = m.supply
      /\ k = [money |-> k.money, stock |-> k.stock, transit |-> k.transit, full |-> k.full,
              trades |-> k.trades, gone |-> k.gone, carried |-> k.carried, supply |-> k.supply]
  <2> DEFINE full == m.full /\ settled.full
             money == settled.money
  <2>1. k = [m EXCEPT !.money = money, !.full = full]
    BY DEF Paying
  <2> HIDE DEF full, money
  <2>2. Shaped(m)
    BY MarketParts DEF Shaped
  <2>3. Shaped(k) /\ k.money = money /\ k.full = full /\ Others(m, k, {"money", "full"})
    BY <2>1, <2>2 DEF Shaped, Others
  <2> QED
    BY <2>3 DEF Shaped, Others, full, money
<1>2. k.money \in SoundMoney
  BY <1>1 DEF Onwards
<1>3. k.full \in BOOLEAN /\ (m.full => k.full)
  BY <1>1
<1>4. k \in Markets
  BY <1>1, <1>2, <1>3, MarketParts
<1>5. \A g \in Goods : Balance(k, g) = Balance(m, g)
  BY <1>1, StoreParts DEF Balance
<1> QED
  BY <1>1, <1>3, <1>4, <1>5, StockKeptOn DEF Traded, Numbered, Others

(* An accepted route's ends, its people and its terms. *)
LEMMA RoutesKnown ==
  /\ \E n \in Nat : DOMAIN Routes = 1 .. n
  /\ \A r \in DOMAIN Routes :
       /\ Routes[r].origin \in Sites /\ Routes[r].destination \in Sites
       /\ Routes[r].carrier \in Entities /\ Routes[r].collector \in Entities
       /\ Routes[r].loss \in 0 .. Scale - 1 /\ Scale - Routes[r].loss \in Nat \ {0}
       /\ Routes[r].travel \in Nat /\ Routes[r].carriage \in Nat /\ Routes[r].toll \in Nat
<1>1. Listed(Routes) /\ \A r \in DOMAIN Routes : ValidRoute(Routes[r])
  BY ScenarioAssumption DEF ScenarioAccepted
<1>2. \E n \in Nat : DOMAIN Routes = 1 .. n
  BY <1>1, ListOf, Zenon DEF Listed
<1> QED
  BY <1>1, <1>2, ScaleAssumption DEF ValidRoute, BelowOne

(* A shipment under way that is new adds what it carries. *)
LEMMA MovingGrows ==
  ASSUME NEW T \in SUBSET Lots, IsFiniteSet(T), NEW l \in Lots, l \notin T, NEW g
  PROVE  Moving(T \cup {l}, g) = Moving(T, g) + (IF l.good = g THEN l.quantity ELSE 0)
         /\ Moving(T, g) \in Int
<1> DEFINE U == T \cup {l}
           F == [x \in T |-> x.quantity]
           G == [x \in U |-> x.quantity]
           S == {x \in T : x.good = g}
           R == {x \in U : x.good = g}
<1>1. IsFiniteSet(S)
  BY FS_Subset
<1>2. \A x \in S : F[x] \in Int /\ G[x] = F[x] /\ G[x] \in Int
  BY DEF Lots
<1>3. Moving(T, g) = Sum(F, S) /\ Moving(U, g) = Sum(G, R)
  BY DEF Moving
<1>4. G[l] = l.quantity /\ l.quantity \in Int /\ l \notin S
  BY DEF Lots
<1>5. R = IF l.good = g THEN S \cup {l} ELSE S
  OBVIOUS
<1> HIDE DEF F, G, S, R, U
<1>6. Sum(F, S) \in Int /\ Sum(G, S) = Sum(F, S)
  <2>1. Sum(F, S) \in Int
    BY <1>1, <1>2, SumType
  <2>2. \A x \in S : G[x] = F[x]
    BY <1>2
  <2>3. Sum(G, S) = Sum(F, S)
    BY <1>1, <2>2, SumEqual
  <2> QED
    BY <2>1, <2>3
<1>7. CASE l.good = g
  <2>1. Sum(G, S \cup {l}) = G[l] + Sum(G, S)
    <3>1. G[l] \in Int /\ l \notin S /\ \A x \in S : G[x] \in Int
      BY <1>2, <1>4
    <3> QED
      BY <1>1, <3>1, SumInsert
  <2> QED
    BY <1>3, <1>4, <1>5, <1>6, <1>7, <2>1 DEF U
<1>8. CASE l.good # g
  BY <1>3, <1>5, <1>6, <1>8 DEF U
<1> QED
  BY <1>7, <1>8

(* Goods that leave on a route are sold, lost on the way, used or under way. *)
LEMMA SentTraded ==
  ASSUME NEW m \in Markets, NEW now \in Nat, NEW r \in DOMAIN Routes,
         NEW seller \in Entities, NEW buyer \in Entities, NEW place \in Places,
         NEW dispatched \in Nat, NEW delivered \in 0 .. dispatched,
         dispatched <= Available(Row(m, seller, <<Routes[r].origin, place[2]>>)), NEW k,
         k = Sent(m, r, seller, buyer, place, dispatched, delivered, now)
  PROVE  k \in Traded(m, now) /\ k.money = m.money
<1> DEFINE route == Routes[r]
           good == place[2]
           row == <<seller, route.origin, good>>
           lost == dispatched - delivered
           taken == Taken(m, seller, <<route.origin, good>>, dispatched)
           short == Gone(taken, good, lost)
           left == [short EXCEPT !.carried[r] = @ + dispatched, !.trades = @ + 1]
           stock == [m.stock EXCEPT ![row].quantity = @ - dispatched]
           carried == [m.carried EXCEPT ![r] = @ + dispatched]
           ship == Shipment(route, seller, buyer, good, delivered, now, m.trades + 1)
           under == m.transit \cup {ship}
<1>1. row \in Rows /\ good \in Goods /\ row[3] = good /\ m.stock \in Stocks
      /\ dispatched <= Available(m.stock[row]) /\ place = <<place[1], good>>
  BY MarketParts, RoutesKnown DEF Places, Rows, Row
<1>2. lost \in Nat /\ delivered \in Nat
  OBVIOUS
<1>3. /\ Shaped(left) /\ left.stock = stock /\ left.gone = Plus(m.gone, good, lost)
      /\ left.carried = carried /\ left.trades = m.trades + 1
      /\ left.money = m.money /\ left.transit = m.transit /\ left.full = m.full /\ left.supply = m.supply
  <2> HIDE DEF lost
  <2>1. Shaped(m)
    BY MarketParts DEF Shaped
  <2>2. Shaped(taken) /\ taken.stock = stock /\ Others(m, taken, {"stock"})
    BY <2>1, TakenShape
  <2> HIDE DEF taken, stock, good, route, ship, carried, row
  <2>3. Shaped(short) /\ short.gone = Plus(taken.gone, good, lost) /\ Others(taken, short, {"gone"})
    BY <2>2, GoneShape
  <2> HIDE DEF short
  <2>4. /\ Shaped(left) /\ left.carried = Plus(short.carried, r, dispatched)
        /\ left.trades = short.trades + 1 /\ Others(short, left, {"carried", "trades"})
    <3> DEFINE c1 == Plus(short.carried, r, dispatched)
               t1 == short.trades + 1
    <3>1. Shaped(short) /\ left = [short EXCEPT !.carried = c1, !.trades = t1]
      BY <2>3 DEF Plus
    <3> HIDE DEF c1, t1, left
    <3>2. Shaped(left) /\ left.carried = c1 /\ left.trades = t1 /\ Others(short, left, {"carried", "trades"})
      BY <3>1 DEF Shaped, Others
    <3> QED
      BY <3>2 DEF c1, t1
  <2> HIDE DEF left
  <2> QED
    BY <2>2, <2>3, <2>4 DEF Others, carried, Plus
<1>4. /\ stock \in Stocks /\ StockKept(m.stock, stock)
      /\ \A g : Stored(stock, g) = Stored(m.stock, g) - Goes(row, dispatched, g) /\ Stored(m.stock, g) \in Int
  <2> HIDE DEF row
  <2> QED
    BY <1>1, StockTaken
<1>5. m.gone \in [Goods -> Int] /\ m.supply \in Supplies /\ m.carried \in [DOMAIN Routes -> Int]
      /\ m.trades \in Nat /\ m.transit \in SUBSET Lots /\ IsFiniteSet(m.transit)
  BY MarketParts
<1>6. carried \in [DOMAIN Routes -> Int]
  BY <1>5
<1>7. k = IF route.travel = 0 THEN UsedUp(left, place, delivered)
          ELSE [left EXCEPT !.transit = @ \cup {ship}]
  <2>1. left.trades = m.trades + 1
    BY <1>3
  <2> HIDE DEF left
  <2>2. k = IF route.travel = 0 THEN UsedUp(left, place, delivered)
            ELSE [left EXCEPT !.transit = @ \cup
                   {Shipment(route, seller, buyer, place[2], delivered, now, left.trades)}]
    BY DEF Sent, left, short, taken, lost
  <2> QED
    BY <2>1, <2>2
<1>8. \A g \in Goods : /\ m.gone[g] \in Int /\ Goes(row, dispatched, g) \in Int
                       /\ Stored(m.stock, g) \in Int /\ Moving(m.transit, g) \in Int
                       /\ Balance(m, g) = Stored(m.stock, g) + Moving(m.transit, g) + m.gone[g]
  BY <1>4, <1>5, StoreParts DEF Goes, Balance
<1>9. CASE route.travel = 0
  <2>1. UsedUp(left, place, delivered) = [Gone(left, good, delivered) EXCEPT !.supply[place].consumed = @ + delivered]
    BY DEF UsedUp
  <2> DEFINE l == Gone(left, good, delivered)
  <2>2. Shaped(l) /\ l.gone = Plus(left.gone, good, delivered) /\ Others(left, l, {"gone"})
    <3> HIDE DEF left
    <3> QED
      BY <1>3, GoneShape
  <2>3. k = [l EXCEPT !.supply[place].consumed = @ + delivered]
    BY <1>7, <1>9, <2>1
  <2> HIDE DEF l
  <2>4. Shaped(k) /\ k.supply = [l.supply EXCEPT ![place].consumed = @ + delivered] /\ Others(l, k, {"supply"})
    BY <2>2, <2>3 DEF Shaped, Others
  <2> HIDE DEF left, stock, carried
  <2>5. /\ k.money = m.money /\ k.stock = stock /\ k.transit = m.transit /\ k.full = m.full
        /\ k.trades = m.trades + 1 /\ k.carried = carried
        /\ k.gone = Plus(left.gone, good, delivered)
        /\ k.supply = [m.supply EXCEPT ![place].consumed = @ + delivered]
    BY <1>3, <2>2, <2>4 DEF Others
  <2>6. k.gone \in [Goods -> Int] /\ \A g \in Goods : k.gone[g] = m.gone[g] + Goes(row, dispatched, g)
    <3>1. left.gone = Plus(m.gone, good, lost)
      BY <1>3
    <3> QED
      BY <1>1, <1>2, <1>5, <2>5, <3>1 DEF Goes, Plus
  <2>7. k.supply \in Supplies
    BY <1>5, <2>5 DEF Supplies
  <2>8. k \in Markets
    BY <1>4, <1>5, <1>6, <2>4, <2>5, <2>6, <2>7, MarketParts DEF Shaped
  <2>9. \A g \in Goods : Balance(k, g) = Balance(m, g)
    <3>1. \A g \in Goods : Balance(k, g) = Stored(k.stock, g) + Moving(k.transit, g) + k.gone[g]
      BY StoreParts DEF Balance
    <3>2. \A g \in Goods : Stored(k.stock, g) = Stored(m.stock, g) - Goes(row, dispatched, g)
                           /\ Moving(k.transit, g) = Moving(m.transit, g)
      BY <1>4, <2>5
    <3> HIDE DEF row
    <3> QED
      BY <1>8, <2>6, <3>1, <3>2
  <2>10. Numbered(m, now) => Numbered(k, now)
    <3>1. \A x \in m.transit : x.id[2] \in Nat
      BY <1>5 DEF Lots
    <3> QED
      BY <1>5, <2>5, <3>1 DEF Numbered
  <2> QED
    BY <1>4, <2>5, <2>8, <2>9, <2>10, MarketParts, OnwardsSelf DEF Traded
<1>10. CASE route.travel # 0
  <2>1. k = [left EXCEPT !.transit = @ \cup {ship}]
    BY <1>7, <1>10
  <2> HIDE DEF left, stock, carried
  <2>2. Shaped(k) /\ k.transit = left.transit \cup {ship} /\ Others(left, k, {"transit"})
    <3> HIDE DEF ship
    <3> QED
      BY <1>3, <2>1 DEF Shaped, Others
  <2>3. /\ k.money = m.money /\ k.stock = stock /\ k.transit = m.transit \cup {ship} /\ k.full = m.full
        /\ k.trades = m.trades + 1 /\ k.carried = carried
        /\ k.gone = Plus(m.gone, good, lost)
        /\ k.supply = m.supply
    <3> HIDE DEF ship
    <3> QED
      BY <1>3, <2>2 DEF Others
  <2>4. /\ ship \in Lots /\ ship.good = good /\ ship.quantity = delivered
        /\ ship.id[1] = now /\ ship.id[2] = m.trades + 1
    <3>1. route.destination \in Sites /\ route.travel \in Nat
      BY RoutesKnown
    <3>2. <<>> \in Seq([to : Entities, amount : InCents])
      OBVIOUS
    <3>3. ship.good = good /\ ship.quantity = delivered /\ ship.id[1] = now /\ ship.id[2] = m.trades + 1
      BY DEF Shipment
    <3>4. ship \in Lots
      <4>1. m.trades + 1 \in Nat /\ now + route.travel \in Nat
        BY <1>5, <3>1
      <4> HIDE DEF route
      <4> QED
        BY <1>1, <1>2, <3>1, <3>2, <4>1 DEF Lots, Shipment
    <3> QED
      BY <3>3, <3>4
  <2> HIDE DEF ship
  <2>5. k.gone \in [Goods -> Int] /\ \A g \in Goods : k.gone[g] = m.gone[g] + Goes(row, lost, g)
    BY <1>1, <1>2, <1>5, <2>3 DEF Goes, Plus
  <2>6. under \in SUBSET Lots /\ IsFiniteSet(under) /\ k.transit = under
    <3>1. IsFiniteSet(m.transit \cup {ship})
      BY <1>5, FS_AddElement
    <3>2. m.transit \cup {ship} \in SUBSET Lots
      BY <1>5, <2>4
    <3> QED
      BY <2>3, <3>1, <3>2
  <2> HIDE DEF under
  <2>7. k \in Markets
    BY <1>4, <1>5, <1>6, <2>2, <2>3, <2>5, <2>6, MarketParts DEF Shaped
  <2>8. ASSUME Numbered(m, now) PROVE Numbered(k, now) /\ ship \notin m.transit
    <3>1. \A x \in m.transit : x.id[2] \in Nat /\ x.id[1] \in Nat
      BY <1>5 DEF Lots
    <3>2. ship \notin m.transit
      BY <1>5, <2>4, <2>8, <3>1 DEF Numbered
    <3> QED
      BY <1>5, <2>3, <2>4, <2>8, <3>1, <3>2 DEF Numbered
  <2>9. ASSUME Numbered(m, now), NEW g \in Goods PROVE Balance(k, g) = Balance(m, g)
    <3>1. Balance(k, g) = Stored(k.stock, g) + Moving(k.transit, g) + k.gone[g]
      BY StoreParts DEF Balance
    <3>2. Stored(k.stock, g) = Stored(m.stock, g) - Goes(row, dispatched, g)
      BY <1>4, <2>3
    <3>3. Moving(under, g) = Moving(m.transit, g) + (IF ship.good = g THEN ship.quantity ELSE 0)
      BY <1>5, <2>4, <2>8, <2>9, MovingGrows DEF under
    <3>4. Moving(k.transit, g) = Moving(m.transit, g) + Goes(row, delivered, g)
      BY <1>1, <2>4, <2>6, <3>3 DEF Goes
    <3>5. Goes(row, dispatched, g) = Goes(row, delivered, g) + Goes(row, lost, g)
          /\ Goes(row, delivered, g) \in Int /\ Goes(row, lost, g) \in Int
      BY <1>2 DEF Goes
    <3> HIDE DEF row, lost
    <3>6. k.gone[g] = m.gone[g] + Goes(row, lost, g)
      BY <2>5
    <3>7. /\ m.gone[g] \in Int /\ Stored(m.stock, g) \in Int /\ Moving(m.transit, g) \in Int
          /\ Balance(m, g) = Stored(m.stock, g) + Moving(m.transit, g) + m.gone[g]
      BY <1>8
    <3> QED
      BY <3>1, <3>2, <3>4, <3>5, <3>6, <3>7
  <2> QED
    BY <1>4, <2>3, <2>7, <2>8, <2>9, MarketParts, OnwardsSelf DEF Traded
<1> QED
  BY <1>9, <1>10

(* What an entity has in cash and in its bank. *)
LEMMA MoneyTyped ==
  ASSUME NEW m \in SoundMoney, NEW e \in Entities
  PROVE  m.cash[e] \in Nat /\ m.deposit[e] \in Nat /\ Funds(m, e) \in Nat
BY DEF SoundMoney, Moneys, Funds

(* An amount rounded to cents is an amount in whole cents. *)
LEMMA CentsNat == \A n \in Nat : Cents(n) \in Whole \cap Nat
<1> TAKE n \in Nat
<1>1. Cent \in Nat \ {0} /\ 1 * Cent = Cent /\ Cents(n) \in Whole
  BY Finite, WholeSums
<1>2. HalfEven(n, Cent) \in Nat
  BY <1>1, HalfEvenAbove
<1>3. Cents(n) = Cent * HalfEven(n, Cent)
  BY <1>1 DEF Cents, Rounded
<1>4. \A x, y \in Nat : x * y \in Nat
  OBVIOUS
<1> QED
  BY <1>1, <1>2, <1>3, <1>4

(* The names are those of entities. *)
LEMMA NamesListed ==
  /\ Len(Names) \in Nat /\ DOMAIN Names = 1 .. Len(Names)
  /\ \A i \in 1 .. Len(Names) : Names[i] \in Entities
<1>1. Names \in Seq(Entities)
  BY ScenarioAssumption DEF ScenarioAccepted, Listed, Entities
<1> QED
  BY <1>1, ListOf, Zenon

Deals(k, now) == [market : Traded(k, now), units : Int]

(* A market after trades is a market. *)
LEMMA TradedMarket ==
  \A k, now : \A m \in Traded(k, now) :
    m \in Markets /\ m.money \in SoundMoney /\ m.stock \in Stocks /\ m.carried \in [DOMAIN Routes -> Int]
BY MarketParts DEF Traded

(* What is sold on the spot is paid for, and was available. *)
LEMMA PurchaseTraded ==
  ASSUME NEW m \in Markets, NEW now, NEW buyer \in Entities, NEW seller \in Entities,
         NEW place \in Places, NEW value \in Nat \ {0}, NEW wanted \in Int
  PROVE  Purchase(m, buyer, seller, place, value, Wish(m, buyer, seller, place, value, wanted))
           \in Deals(m, now)
<1> DEFINE wish == Wish(m, buyer, seller, place, value, wanted)
           cost == Cents(Times(wish, value))
           paid == [m EXCEPT !.money = Transfer(@, buyer, seller, cost)]
           units == Lesser(wish, Over(Transferred(m.money, buyer, seller, cost), value))
           available == Available(Row(m, seller, place))
           used == UsedUp(Taken(paid, seller, place, units), place, units)
           deal == Purchase(m, buyer, seller, place, value, wish)
<1>1. m.money \in SoundMoney /\ m.stock \in Stocks
  BY MarketParts
<1>2. available \in Nat
  <2>1. <<seller, place[1], place[2]>> \in Rows
    BY DEF Places, Rows
  <2> QED
    BY <1>1, <2>1, StockTyped DEF Row
<1>3. wish \in Int /\ wish <= available
  <2>1. Over(Funds(m.money, buyer), value) \in Int
    BY <1>1, MoneyTyped, OverType
  <2> HIDE DEF available
  <2> QED
    BY <1>2, <2>1 DEF Wish, Lesser, available
<1>4. cost \in Whole
  BY <1>3, TimesType, WholeSums
<1> HIDE DEF wish, cost
<1>5. Transfer(m.money, buyer, seller, cost) \in Onwards(m.money)
      /\ Transferred(m.money, buyer, seller, cost) \in Int
  BY <1>1, <1>4, TransferKeeps
<1>6. paid \in Traded(m, now) /\ paid.stock = m.stock
  BY <1>5, PaidTraded
<1>7. units \in Int /\ units <= available
  <2>1. Over(Transferred(m.money, buyer, seller, cost), value) \in Int
    BY <1>5, OverType
  <2> HIDE DEF available
  <2> QED
    BY <1>2, <1>3, <2>1 DEF Lesser
<1>8. CASE wish <= 0 \/ cost <= 0
  <2>1. deal = [market |-> m, units |-> 0]
    BY <1>8 DEF Purchase, cost
  <2> QED
    BY <2>1, TradedSelf DEF Deals, wish
<1>9. CASE ~(wish <= 0 \/ cost <= 0)
  <2>1. deal = IF units <= 0 THEN [market |-> paid, units |-> 0]
               ELSE [market |-> [used EXCEPT !.trades = @ + 1], units |-> units]
    BY <1>9 DEF Purchase, Exchange, cost
  <2> HIDE DEF paid, units, available
  <2>2. ASSUME units > 0 PROVE [used EXCEPT !.trades = @ + 1] \in Traded(m, now)
    <3>1. units \in Nat /\ units <= Available(Row(paid, seller, place)) /\ paid \in Markets
      BY <1>6, <1>7, <2>2 DEF Row, available, Traded
    <3>2. used \in Traded(paid, now)
      BY <3>1, UsedTraded
    <3>3. [used EXCEPT !.trades = @ + 1] \in Traded(used, now)
      <4> HIDE DEF used
      <4> QED
        BY <3>2, CountedTraded DEF Traded
    <3> QED
      BY <1>6, <3>2, <3>3, TradedOn
  <2> HIDE DEF used, deal
  <2>3. CASE units <= 0
    BY <1>6, <2>1, <2>3 DEF Deals, deal, wish
  <2>4. CASE ~(units <= 0)
    BY <1>7, <2>1, <2>2, <2>4 DEF Deals, deal, wish
  <2> QED
    BY <1>7, <2>3, <2>4 DEF deal, wish
<1> QED
  BY <1>8, <1>9

(* A purchase from a seller on the spot, whether it comes about or not, is a *)
(* trade.                                                                    *)
LEMMA BuyFromTraded ==
  ASSUME NEW k, NEW now, NEW acc \in Deals(k, now), NEW buyer \in Entities, NEW seller \in Entities,
         NEW place \in Places, NEW value \in Nat, NEW wanted \in Int
  PROVE  BuyFrom(acc, seller, buyer, place, value, wanted) \in Deals(k, now)
<1> DEFINE still == wanted - acc.units
           deal == Purchase(acc.market, buyer, seller, place, value,
                            Wish(acc.market, buyer, seller, place, value, still))
<1>1. acc.market \in Traded(k, now) /\ acc.units \in Int /\ acc.market \in Markets /\ still \in Int
  BY DEF Deals, Traded
<1>2. CASE ~Sells(seller, buyer) \/ acc.units >= wanted \/ value <= 0
  BY <1>2 DEF BuyFrom
<1>3. CASE ~(~Sells(seller, buyer) \/ acc.units >= wanted \/ value <= 0)
  <2>1. BuyFrom(acc, seller, buyer, place, value, wanted) = Bought(acc, deal)
    BY <1>3 DEF BuyFrom
  <2>2. value \in Nat \ {0}
    BY <1>3
  <2> HIDE DEF still
  <2>3. deal \in Deals(acc.market, now)
    BY <1>1, <2>2, PurchaseTraded
  <2> HIDE DEF deal
  <2>4. deal.market \in Traded(acc.market, now) /\ deal.units \in Int
    BY <2>3 DEF Deals
  <2>5. deal.market \in Traded(k, now)
    BY <1>1, <2>4, TradedOn
  <2> QED
    BY <1>1, <2>1, <2>4, <2>5 DEF Bought, Deals
<1> QED
  BY <1>2, <1>3

(* What a buyer uses of its own is a trade. *)
LEMMA OwnFirstTraded ==
  ASSUME NEW m \in Markets, NEW now, NEW buyer \in Entities, NEW place \in Places, NEW wanted \in Nat
  PROVE  OwnFirst(m, buyer, place, wanted, OwnUse(m, buyer, place, wanted)) \in Deals(m, now)
<1> DEFINE own == OwnUse(m, buyer, place, wanted)
           asked == [m EXCEPT !.supply[place].requested = @ + wanted]
           used == UsedUp(Taken(asked, buyer, place, own), place, own)
<1>1. own \in Nat /\ own <= Available(Row(m, buyer, place))
  <2>1. <<buyer, place[1], place[2]>> \in Rows
    BY DEF Places, Rows
  <2>2. Available(Row(m, buyer, place)) \in Nat
    BY <2>1, MarketParts, StockTyped DEF Row
  <2> QED
    BY <2>2 DEF OwnUse, Lesser
<1>2. asked \in Traded(m, now) /\ asked.stock = m.stock
  BY CountedTraded
<1> HIDE DEF own, asked
<1>3. asked \in Markets /\ own <= Available(Row(asked, buyer, place))
  BY <1>1, <1>2 DEF Traded, Row
<1>4. used \in Traded(asked, now)
  BY <1>1, <1>3, UsedTraded
<1> HIDE DEF used
<1>5. used \in Traded(m, now)
  BY <1>2, <1>4, TradedOn
<1>6. OwnFirst(m, buyer, place, wanted, own) = [market |-> used, units |-> own]
  BY DEF OwnFirst, used, asked
<1>7. [market |-> used, units |-> own] \in Deals(m, now)
  BY <1>1, <1>5 DEF Deals
<1> QED
  BY <1>6, <1>7 DEF own

(* A want is met on the spot by trading. *)
LEMMA LocalTraded ==
  ASSUME NEW m \in Markets, NEW now, NEW buyer \in Entities, NEW place \in Places, NEW value \in Nat,
         NEW wanted \in Int
  PROVE  LocalConsumption(m, buyer, place, value, wanted) \in Deals(m, now)
<1> DEFINE n == Len(Names)
           X == Deals(m, now)
           Buy(acc, seller) == BuyFrom(acc, seller, buyer, place, value, wanted)
           base == OwnFirst(m, buyer, place, wanted, OwnUse(m, buyer, place, wanted))
           folded == FoldLeft(Buy, base, Names)
<1>0. LocalConsumption(m, buyer, place, value, wanted)
        = IF wanted <= 0 THEN [market |-> m, units |-> 0] ELSE folded
  BY DEF LocalConsumption
<1>1. n \in Nat /\ DOMAIN Names = 1 .. n
  BY NamesListed
<1>2. CASE wanted <= 0
  <2> HIDE DEF folded
  <2>1. LocalConsumption(m, buyer, place, value, wanted) = [market |-> m, units |-> 0]
    BY <1>0, <1>2
  <2> QED
    BY <2>1, TradedSelf DEF Deals
<1>3. CASE wanted > 0
  <2>1. LocalConsumption(m, buyer, place, value, wanted) = folded
    <3> HIDE DEF folded
    <3> QED
      BY <1>0, <1>3
  <2>2. base \in X
    BY <1>3, OwnFirstTraded
  <2>3. \A acc \in X : \A i \in 1 .. n : Buy(acc, Names[i]) \in X
    BY NamesListed, BuyFromTraded
  <2> HIDE DEF n, X, base
<2>4. FoldLeft(Buy, base, Names) \in X
    <3> DEFINE F == [p \in X \X (1 .. n) |-> Buy(p[1], Names[p[2]])]
               Is(h) == h = [s \in SUBSET (1 .. n) |->
                               IF s = {} THEN base ELSE Buy(h[s \ {Max(s)}], Names[Max(s)])]
               g == CHOOSE h : Is(h)
    <3>1. FoldLeft(Buy, base, Names) = g[1 .. n]
      BY <1>1 DEF FoldLeft, MapThenFoldSet
    <3> HIDE DEF Buy
    <3>2. n \in Nat /\ base \in X
      BY <1>1, <2>2
    <3>3. F \in [X \X (1 .. n) -> X]
      BY <2>3
    <3>4. \A acc \in X : \A i \in 1 .. n : F[<<acc, i>>] = Buy(acc, Names[i])
      OBVIOUS
    <3>5. \A s \in SUBSET (1 .. n) : s # {} => Max(s) \in 1 .. n
      BY <3>2, LastPosition
    <3> HIDE DEF F
    <3>6. PICK h \in [SUBSET (1 .. n) -> X] : RunsUp(h, n, F, base)
      BY <3>2, <3>3, FoldRunsUp
    <3>7. Is(h)
      BY <3>4, <3>5, <3>6 DEF RunsUp
    <3>8. Is(g)
      BY <3>7
    <3> HIDE DEF g
    <3>9. Follows(g, n, X, F, base)
      BY <3>4, <3>5, <3>8 DEF Follows
    <3>10. g[1 .. n] \in X
      BY <3>2, <3>3, <3>9, FoldStays
    <3> QED
      BY <3>1, <3>10
  <2>5. folded \in X
    BY <2>4
  <2> HIDE DEF folded
  <2> QED
    BY <2>1, <2>5 DEF X
<1> QED
  BY <1>2, <1>3

Todos(k, now) ==
  [market : Traded(k, now), wanted : Int, room : Int, affordable : Int, arrived : Int]

(* What is due for an import is due to entities in whole cents. *)
LEMMA DuesAreBills ==
  ASSUME NEW r \in DOMAIN Routes, NEW seller \in Entities, NEW value \in Nat, NEW dispatched \in Nat
  PROVE  Dues(Routes[r], seller, value, dispatched) \in Bills
<1> DEFINE route == Routes[r]
           T == [to : Entities, amount : Whole \cap Nat]
           a == Cents(Times(Times(dispatched, Scale - route.loss), value))
           b == Cents(Times(dispatched, route.carriage))
           c == Cents(Times(dispatched, route.toll))
<1>1. route.carrier \in Entities /\ route.collector \in Entities
      /\ Scale - route.loss \in Nat /\ route.carriage \in Nat /\ route.toll \in Nat
  BY RoutesKnown
<1> HIDE DEF route
<1>2. a \in Whole \cap Nat /\ b \in Whole \cap Nat /\ c \in Whole \cap Nat
  <2>1. Times(dispatched, Scale - route.loss) \in Nat
    BY <1>1, TimesNat
  <2>2. Times(Times(dispatched, Scale - route.loss), value) \in Nat
    BY <2>1, TimesNat
  <2>3. Times(dispatched, route.carriage) \in Nat /\ Times(dispatched, route.toll) \in Nat
    BY <1>1, TimesNat
  <2> QED
    BY <2>2, <2>3, CentsNat
<1>3. Dues(route, seller, value, dispatched)
        = <<Due(seller, a), Due(route.carrier, b), Due(route.collector, c)>>
  BY DEF Dues
<1> HIDE DEF a, b, c
<1>4. Due(seller, a) \in T /\ Due(route.carrier, b) \in T /\ Due(route.collector, c) \in T
  BY <1>1, <1>2 DEF Due
<1> HIDE DEF T
<1>5. \A x, y, z \in T : <<x, y, z>> \in Seq(T)
  OBVIOUS
<1> QED
  BY <1>3, <1>4, <1>5 DEF Bills, T, route

(* A shipment that leaves is paid for in full. *)
LEMMA SendTraded ==
  ASSUME NEW k, NEW now \in Nat, NEW todo \in Todos(k, now), NEW r \in DOMAIN Routes,
         NEW seller \in Entities, NEW buyer \in Entities, NEW place \in Places,
         NEW dispatched \in Int, NEW delivered, NEW dues,
         dispatched > 0 => dues \in Bills /\ delivered \in 0 .. dispatched,
         dispatched <= Available(Row(todo.market, seller, <<Routes[r].origin, place[2]>>))
  PROVE  Send(todo, r, seller, buyer, place, dues, dispatched, delivered, now) \in Todos(k, now)
<1> DEFINE m == todo.market
           off == PaidOff(m.money, buyer, dues)
           paid == Paying(m, off)
           sent == Sent(paid, r, seller, buyer, place, dispatched, delivered, now)
           travel == Routes[r].travel
           next == [market |-> sent, wanted |-> todo.wanted - delivered,
                    room |-> todo.room - dispatched, affordable |-> todo.affordable - delivered,
                    arrived |-> todo.arrived + (IF travel = 0 THEN delivered ELSE 0)]
<1>1. CASE dispatched <= 0 \/ ~Affordable(m, buyer, dues)
  BY <1>1 DEF Send
<1>2. CASE dispatched > 0 /\ Affordable(m, buyer, dues)
  <2>1. Send(todo, r, seller, buyer, place, dues, dispatched, delivered, now) = next
    BY <1>2 DEF Send
  <2>2. m \in Traded(k, now) /\ m \in Markets /\ m.money \in SoundMoney /\ todo.wanted \in Int
        /\ todo.room \in Int /\ todo.affordable \in Int /\ todo.arrived \in Int
    BY TradedMarket DEF Todos
  <2>3. dues \in Bills /\ delivered \in 0 .. dispatched /\ dispatched \in Nat
    BY <1>2
  <2>4. off.money \in Onwards(m.money) /\ off.full /\ off.full \in BOOLEAN
    <3>1. Payable(m.money, buyer, dues)
      BY <1>2 DEF Affordable
    <3> HIDE DEF m
    <3> QED
      BY <2>2, <2>3, <3>1, PaidOffKeeps
  <2> HIDE DEF m, off, travel
  <2>5. paid \in Traded(m, now) /\ paid.stock = m.stock
    BY <2>2, <2>4, PayingTraded DEF Others
  <2> HIDE DEF paid
  <2>6. dispatched <= Available(Row(paid, seller, <<Routes[r].origin, place[2]>>)) /\ paid \in Markets
    BY <2>5 DEF Row, m, Traded
  <2>7. sent \in Traded(paid, now)
    BY <2>3, <2>6, SentTraded
  <2> HIDE DEF sent
  <2>8. sent \in Traded(k, now)
    BY <2>2, <2>5, <2>7, TradedOn
  <2>9. next \in Todos(k, now)
    <3>1. delivered \in Int
      BY <2>3
    <3> QED
      BY <2>2, <2>8, <3>1 DEF Todos
  <2> QED
    BY <2>1, <2>9
<1> QED
  BY <1>1, <1>2 DEF Send

(* No more arrives than was sent. *)
LEMMA ShareDelivered ==
  ASSUME NEW r \in DOMAIN Routes, NEW dispatched \in Nat
  PROVE  Times(dispatched, Scale - Routes[r].loss) \in 0 .. dispatched
<1> DEFINE rest == Scale - Routes[r].loss
<1>1. rest \in Nat /\ rest <= Scale /\ Scale \in Nat \ {0}
  BY RoutesKnown, ScaleAssumption
<1> HIDE DEF rest
<1>2. Times(dispatched, rest) \in Nat
  BY <1>1, TimesNat
<1>3. dispatched * rest <= Scale * dispatched /\ dispatched * rest \in Int
  <2>1. dispatched * rest <= dispatched * Scale
    BY <1>1, ProductOrder
  <2> QED
    BY <1>1, <2>1
<1>4. Times(dispatched, rest) <= dispatched
  BY <1>1, <1>3, HalfEvenBelow DEF Times
<1> QED
  BY <1>2, <1>4 DEF rest

(* An import from a seller along a route, whether it comes about or not, is  *)
(* a trade.                                                                  *)
LEMMA ImportTraded ==
  ASSUME NEW k, NEW now \in Nat, NEW todo \in Todos(k, now), NEW r \in DOMAIN Routes,
         NEW seller \in Entities, NEW buyer \in Entities, NEW place \in Places,
         NEW prices \in [Places -> Nat]
  PROVE  Import(todo, r, seller, buyer, place, prices, Dispatchable(todo, r, seller, place), now)
           \in Todos(k, now)
<1> DEFINE n == Dispatchable(todo, r, seller, place)
           rest == Scale - Routes[r].loss
           from == <<Routes[r].origin, place[2]>>
           available == Available(Row(todo.market, seller, from))
           a == Over(Larger(0, todo.wanted), rest)
           b == Over(todo.affordable, rest)
           S == {available, a, todo.room, b}
           dues == Dues(Routes[r], seller, prices[from], n)
           share == Times(n, rest)
<1>1. from \in Places /\ <<seller, Routes[r].origin, place[2]>> \in Rows /\ rest \in Nat \ {0}
  BY RoutesKnown DEF Places, Rows
<1>2. todo.market \in Traded(k, now) /\ todo.wanted \in Int /\ todo.room \in Int /\ todo.affordable \in Int
      /\ todo.market.stock \in Stocks
  BY TradedMarket DEF Todos
<1>3. available \in Nat
  BY <1>1, <1>2, StockTyped DEF Row
<1> HIDE DEF rest, from
<1>4. a \in Int /\ b \in Int
  <2>1. Larger(0, todo.wanted) \in Int
    BY <1>2 DEF Larger
  <2> QED
    BY <1>1, <1>2, <2>1, OverType
<1>5. n = Min(S)
  BY DEF Dispatchable, rest, from
<1> HIDE DEF n, available, a, b
<1>6. n \in Int /\ n <= available
  <2>1. S \in SUBSET Int /\ S # {} /\ available \in S
    BY <1>2, <1>3, <1>4
  <2>2. IsFiniteSet(S)
    <3>1. \A x : IsFiniteSet({x})
      BY FS_Singleton
    <3>2. S = ({available} \cup {a}) \cup ({todo.room} \cup {b})
      OBVIOUS
    <3> DEFINE U == {available} \cup {a}
               V == {todo.room} \cup {b}
    <3>3. IsFiniteSet(U) /\ IsFiniteSet(V) /\ S = U \cup V
      BY <3>1, <3>2, FS_Union
    <3> HIDE DEF S, U, V
    <3>4. IsFiniteSet(U \cup V)
      BY <3>3, FS_Union
    <3> QED
      BY <3>3, <3>4
  <2> HIDE DEF S
  <2> QED
    BY <1>5, <2>1, <2>2, MinOf
<1>7. n > 0 => dues \in Bills /\ share \in 0 .. n
  <2>1. SUFFICES ASSUME n > 0 PROVE dues \in Bills /\ share \in 0 .. n
    OBVIOUS
  <2>2. n \in Nat /\ prices[from] \in Nat
    BY <1>1, <1>6, <2>1
  <2> QED
    BY <2>2, DuesAreBills, ShareDelivered DEF rest
<1>8. CASE ~Sells(seller, buyer)
  BY <1>8 DEF Import
<1>9. CASE Sells(seller, buyer)
  <2>1. Import(todo, r, seller, buyer, place, prices, n, now)
          = Send(todo, r, seller, buyer, place, dues, n, share, now)
    BY <1>9 DEF Import, rest, from
  <2> HIDE DEF dues, share
  <2>2. n <= Available(Row(todo.market, seller, <<Routes[r].origin, place[2]>>))
    BY <1>6 DEF available, from
  <2> QED
    BY <1>6, <1>7, <2>1, <2>2, SendTraded DEF n
<1> QED
  BY <1>8, <1>9

(* The imports along a route are trades. *)
LEMMA AlongTraded ==
  ASSUME NEW k, NEW now \in Nat, NEW todo \in Todos(k, now), NEW r \in DOMAIN Routes,
         NEW buyer \in Entities, NEW place \in Places, NEW prices \in [Places -> Nat],
         NEW capacity \in [DOMAIN Routes -> Int]
  PROVE  Along(todo, r, buyer, place, prices, capacity, now) \in Todos(k, now)
<1> DEFINE n == Len(Names)
           X == Todos(k, now)
           room == Larger(0, capacity[r] - todo.market.carried[r])
           From(acc, seller) == Import(acc, r, seller, buyer, place, prices,
                                       Dispatchable(acc, r, seller, place), now)
           cost == LandedCost(Routes[r], prices, place[2])
           base == Setting(todo, r, cost, buyer, room)
           folded == FoldLeft(From, base, Names)
<1>0. Along(todo, r, buyer, place, prices, capacity, now)
        = IF todo.wanted <= 0 \/ room <= 0 THEN todo ELSE folded
  BY DEF Along
<1>1. n \in Nat /\ DOMAIN Names = 1 .. n
  BY NamesListed
<1>2. base \in X
  <2>1. todo.market.carried[r] \in Int /\ todo.market.money \in SoundMoney
    BY TradedMarket DEF Todos
  <2>2. room \in Int
    BY <2>1 DEF Larger
  <2>3. cost \in Int
    <3>1. /\ <<Routes[r].origin, place[2]>> \in Places
          /\ Routes[r].carriage + Routes[r].toll \in Int /\ Scale - Routes[r].loss \in Nat \ {0}
      BY RoutesKnown DEF Places
    <3>2. Over(Routes[r].carriage + Routes[r].toll, Scale - Routes[r].loss) \in Int
      BY <3>1, OverType
    <3> QED
      BY <3>1, <3>2 DEF LandedCost
  <2> HIDE DEF room, cost
  <2> DEFINE means == IF cost <= 0 THEN 0 ELSE Over(Funds(todo.market.money, buyer), cost)
  <2>4. means \in Int
    BY <2>1, <2>3, MoneyTyped, OverType
  <2>5. base = [todo EXCEPT !.room = room, !.affordable = means]
    BY DEF Setting
  <2> HIDE DEF means, base
  <2> QED
    BY <2>2, <2>4, <2>5 DEF Todos
<1>3. \A acc \in X : \A i \in 1 .. n : From(acc, Names[i]) \in X
  BY NamesListed, ImportTraded
<1> HIDE DEF n, X, base, room
<1>4. FoldLeft(From, base, Names) \in X
  <2> DEFINE F == [p \in X \X (1 .. n) |-> From(p[1], Names[p[2]])]
             Is(h) == h = [s \in SUBSET (1 .. n) |->
                             IF s = {} THEN base ELSE From(h[s \ {Max(s)}], Names[Max(s)])]
             g == CHOOSE h : Is(h)
  <2>1. FoldLeft(From, base, Names) = g[1 .. n]
    BY <1>1 DEF FoldLeft, MapThenFoldSet
  <2> HIDE DEF From
  <2>2. n \in Nat /\ base \in X
    BY <1>1, <1>2
  <2>3. F \in [X \X (1 .. n) -> X]
    BY <1>3
  <2>4. \A acc \in X : \A i \in 1 .. n : F[<<acc, i>>] = From(acc, Names[i])
    OBVIOUS
  <2>5. \A s \in SUBSET (1 .. n) : s # {} => Max(s) \in 1 .. n
    BY <2>2, LastPosition
  <2> HIDE DEF F
  <2>6. PICK h \in [SUBSET (1 .. n) -> X] : RunsUp(h, n, F, base)
    BY <2>2, <2>3, FoldRunsUp
  <2>7. Is(h)
    BY <2>4, <2>5, <2>6 DEF RunsUp
  <2>8. Is(g)
    BY <2>7
  <2> HIDE DEF g
  <2>9. Follows(g, n, X, F, base)
    BY <2>4, <2>5, <2>8 DEF Follows
  <2>10. g[1 .. n] \in X
    BY <2>2, <2>3, <2>9, FoldStays
  <2> QED
    BY <2>1, <2>10
<1>5. folded \in X
  BY <1>4
<1> HIDE DEF folded
<1> QED
  BY <1>0, <1>5 DEF X

(* Imports are trading: what is under way is fully paid for. *)
LEMMA ImportsTraded ==
  ASSUME NEW m \in Markets, NEW now \in Nat, NEW buyer \in Entities, NEW place \in Places,
         NEW prices \in [Places -> Nat], NEW capacity \in [DOMAIN Routes -> Int], NEW wanted \in Int
  PROVE  DispatchRoutes(m, buyer, place, prices, capacity, wanted, now) \in Todos(m, now)
<1> DEFINE n == CHOOSE i \in Nat : DOMAIN Routes = 1 .. i
           X == Todos(m, now)
           order == [i \in DOMAIN Routes |-> i]
           Try(todo, i) == NextRoute(todo, Turn(i, place, prices), buyer, place, prices, capacity, now)
           base == [market |-> m, wanted |-> wanted, room |-> 0, affordable |-> 0, arrived |-> 0]
           folded == FoldLeft(Try, base, order)
<1>1. n \in Nat /\ DOMAIN order = 1 .. n
  BY RoutesKnown
<1>2. base \in X
  BY TradedSelf DEF Todos
<1>3. \A todo \in X : \A i : Try(todo, i) \in X
  <2> TAKE todo \in X
  <2> TAKE i
  <2> DEFINE turn == Turn(i, place, prices)
  <2>1. turn \subseteq DOMAIN Routes
    BY DEF Turn, RoutesTo
  <2> HIDE DEF turn
  <2>2. CASE turn = {}
    BY <2>2 DEF NextRoute, turn
  <2>3. CASE turn # {}
    <3>1. (CHOOSE r \in turn : TRUE) \in DOMAIN Routes
      BY <2>1, <2>3
    <3>2. Try(todo, i) = Along(todo, CHOOSE r \in turn : TRUE, buyer, place, prices, capacity, now)
      BY <2>3 DEF NextRoute, turn
    <3> QED
      BY <3>1, <3>2, AlongTraded
  <2> QED
    BY <2>2, <2>3
<1>4. \A todo \in X : \A i \in 1 .. n : Try(todo, order[i]) \in X
  <2> HIDE DEF X, Try, n, order
  <2> QED
    BY <1>3
<1>5. DispatchRoutes(m, buyer, place, prices, capacity, wanted, now) = folded
  BY DEF DispatchRoutes, FoldLeftDomain
<1> HIDE DEF n, X, base, order
<1>6. FoldLeft(Try, base, order) \in X
  <2> DEFINE F == [p \in X \X (1 .. n) |-> Try(p[1], order[p[2]])]
             Is(h) == h = [s \in SUBSET (1 .. n) |->
                             IF s = {} THEN base ELSE Try(h[s \ {Max(s)}], order[Max(s)])]
             g == CHOOSE h : Is(h)
  <2>1. FoldLeft(Try, base, order) = g[1 .. n]
    BY <1>1 DEF FoldLeft, MapThenFoldSet
  <2> HIDE DEF Try
  <2>2. n \in Nat /\ base \in X
    BY <1>1, <1>2
  <2>3. F \in [X \X (1 .. n) -> X]
    BY <1>4
  <2>4. \A acc \in X : \A i \in 1 .. n : F[<<acc, i>>] = Try(acc, order[i])
    OBVIOUS
  <2>5. \A s \in SUBSET (1 .. n) : s # {} => Max(s) \in 1 .. n
    BY <2>2, LastPosition
  <2> HIDE DEF F
  <2>6. PICK h \in [SUBSET (1 .. n) -> X] : RunsUp(h, n, F, base)
    BY <2>2, <2>3, FoldRunsUp
  <2>7. Is(h)
    BY <2>4, <2>5, <2>6 DEF RunsUp
  <2>8. Is(g)
    BY <2>7
  <2> HIDE DEF g
  <2>9. Follows(g, n, X, F, base)
    BY <2>4, <2>5, <2>8 DEF Follows
  <2>10. g[1 .. n] \in X
    BY <2>2, <2>3, <2>9, FoldStays
  <2> QED
    BY <2>1, <2>10
<1>7. folded \in X
  BY <1>6
<1> HIDE DEF folded
<1> QED
  BY <1>5, <1>7 DEF X

(* The shocks at work have effects that are whole numbers. *)
LEMMA ShocksTyped ==
  ASSUME day.active \in SUBSET Shocks, NEW name, NEW site, NEW sector
  PROVE  /\ IsFiniteSet(Hitting(name, site, sector))
         /\ \A s \in Hitting(name, site, sector) : s.effects[name] \in Int /\ s \in Shocks
                                                   /\ name \in DOMAIN s.effects
<1> DEFINE S == Hitting(name, site, sector)
<1>1. S \subseteq Shocks /\ \A s \in S : name \in DOMAIN s.effects
  BY DEF Hitting
<1>2. IsFiniteSet(Shocks) /\ \A s \in Shocks : ValidShock(s)
  BY ScenarioAssumption DEF ScenarioAccepted
<1> HIDE DEF S
<1>3. IsFiniteSet(S)
  BY <1>1, <1>2, FS_Subset
<1> QED
  BY <1>1, <1>2, <1>3 DEF ValidShock, S

(* What shocks add up to is a whole number. *)
LEMMA DeltaTyped ==
  ASSUME day.active \in SUBSET Shocks, NEW name, NEW site
  PROVE  Delta(name, site) \in Int
<1> DEFINE S == Hitting(name, site, Anywhere)
           F == [s \in S |-> s.effects[name]]
<1>1. IsFiniteSet(S) /\ \A s \in S : F[s] \in Int
  BY ShocksTyped
<1>2. Delta(name, site) = Sum(F, S)
  BY DEF Delta
<1> HIDE DEF S, F
<1> QED
  BY <1>1, <1>2, SumType

(* What shocks multiply by is not negative. *)
LEMMA MultiplierTyped ==
  ASSUME day.active \in SUBSET Shocks, NEW name, NEW site, NEW sector
  PROVE  Multiplier(name, site, sector) \in Nat
<1> DEFINE S == Hitting(name, site, sector)
           Apply(s, value) == Times(value, s.effects[name])
           Is(h) == h = [s \in SUBSET S |->
                           IF s = {} THEN Scale
                           ELSE Apply(CHOOSE x \in s : TRUE, h[s \ {CHOOSE x \in s : TRUE}])]
           g == CHOOSE h : Is(h)
           F == [p \in Int \X S |-> Times(p[1], p[2].effects[name])]
           P == [s \in SUBSET S |-> Pick(s)]
           folded == FoldSet(Apply, Scale, S)
<1>1. IsFiniteSet(S) /\ \A s \in S : s.effects[name] \in Int
  BY ShocksTyped
<1>2. folded = g[S]
  BY DEF FoldSet, MapThenFoldSet
<1>3. Multiplier(name, site, sector) = Larger(0, folded)
  BY DEF Multiplier
<1> HIDE DEF S, folded
<1>4. F \in [Int \X S -> Int] /\ Scale \in Int
  <2>1. ASSUME NEW p \in Int \X S PROVE F[p] \in Int
    <3>1. p[1] \in Int /\ p[2].effects[name] \in Int
      BY <1>1
    <3>2. F[p] = Times(p[1], p[2].effects[name])
      OBVIOUS
    <3> QED
      BY <3>1, <3>2, TimesType
  <2> QED
    BY <2>1, ScaleAssumption
<1>5. \A s \in SUBSET S : s # {} => P[s] \in s
  BY Picked
<1>6. PICK h \in [SUBSET S -> Int] : Runs(h, SUBSET S, P, F, Scale)
  <2> HIDE DEF F, P
  <2> QED
    BY <1>1, <1>4, <1>5, FoldRuns
<1>7. Is(h)
  <2>1. \A s \in SUBSET S : s # {} => /\ P[s] = CHOOSE x \in s : TRUE
                                      /\ P[s] \in S /\ s \ {P[s]} \in SUBSET S
    BY <1>5 DEF Pick
  <2>2. \A n \in Int : \A x \in S : F[<<n, x>>] = Apply(x, n)
    OBVIOUS
  <2> HIDE DEF F, P, Apply
  <2>3. \A s \in SUBSET S : h[s] = IF s = {} THEN Scale ELSE Apply(P[s], h[s \ {P[s]}])
    BY <1>6, <2>1, <2>2 DEF Runs
  <2> QED
    BY <2>1, <2>3
<1>8. Is(g)
  BY <1>7
<1> HIDE DEF g
<1> DEFINE Q == {s \in SUBSET S : g[s] \in Int}
<1>9. {} \in Q
  BY <1>4, <1>8
<1>10. ASSUME NEW s \in SUBSET S, s # {}, s \ {Pick(s)} \in Q PROVE s \in Q
  <2>1. Pick(s) \in S /\ g[s \ {Pick(s)}] \in Int
    BY <1>10, Picked
  <2>2. g[s] = Times(g[s \ {Pick(s)}], Pick(s).effects[name])
    BY <1>8, <1>10 DEF Pick
  <2>3. Pick(s).effects[name] \in Int
    BY <1>1, <2>1
  <2>4. g[s] \in Int
    <3> DEFINE x == g[s \ {Pick(s)}]
               e == Pick(s).effects[name]
    <3>1. x \in Int /\ e \in Int /\ g[s] = Times(x, e)
      BY <2>1, <2>2, <2>3
    <3> HIDE DEF x, e
    <3> QED
      BY <3>1, TimesType
  <2> QED
    BY <2>4
<1>11. S \in Q
  <2>1. Q \in SUBSET (SUBSET S)
    OBVIOUS
  <2> HIDE DEF Q
  <2> QED
    BY <1>1, <1>9, <1>10, <2>1, SubsetInduct
<1>12. folded \in Int
  BY <1>2, <1>11
<1> QED
  BY <1>3, <1>12 DEF Larger

(* The capacity of a route under shocks is a whole number. *)
LEMMA CapacityTyped ==
  ASSUME day.active \in SUBSET Shocks
  PROVE  \A r \in DOMAIN Routes : Capacity(r) \in Int
<1> TAKE r \in DOMAIN Routes
<1>1. Routes[r].capacity \in Nat
  BY ScenarioAssumption DEF ScenarioAccepted, ValidRoute
<1>2. Multiplier("route_capacity_multiplier", Routes[r].origin, Anywhere) \in Nat
  BY MultiplierTyped
<1> DEFINE x == Routes[r].capacity
           y == Multiplier("route_capacity_multiplier", Routes[r].origin, Anywhere)
<1>3. Capacity(r) = Times(x, y) /\ x \in Int /\ y \in Int
  BY <1>1, <1>2 DEF Capacity
<1> HIDE DEF x, y
<1> QED
  BY <1>3, TimesType

(* The imports of a want are trades. *)
LEMMA ImportedTraded ==
  ASSUME NEW k, NEW m \in Traded(k, month), month \in Nat, day.active \in SUBSET Shocks,
         price \in [Places -> Nat],
         NEW buyer \in Entities, NEW place \in Places, NEW wanted \in Int
  PROVE  Imported(m, buyer, place, wanted).market \in Traded(k, month)
         /\ Imported(m, buyer, place, wanted).arrived \in Int
<1> DEFINE capacity == [r \in DOMAIN Routes |-> Capacity(r)]
           done == DispatchRoutes(m, buyer, place, price, capacity, wanted, month)
<1>1. capacity \in [DOMAIN Routes -> Int]
  BY CapacityTyped
<1>2. Imported(m, buyer, place, wanted) = done
  BY DEF Imported
<1> HIDE DEF capacity
<1>3. m \in Markets
  BY DEF Traded
<1>4. done \in Todos(m, month)
  BY <1>1, <1>3, ImportsTraded
<1> HIDE DEF done
<1>5. done.market \in Traded(m, month) /\ done.arrived \in Int
  BY <1>4 DEF Todos
<1> QED
  BY <1>2, <1>5, TradedOn

(* Substitutes are bought on the spot. *)
LEMMA SubstitutedTraded ==
  ASSUME NEW m \in Markets, NEW now, price \in [Places -> Nat], NEW start \in Deals(m, now),
         NEW want, want.buyer \in Entities, want.place \in Places,
         want.substitutes \in Seq([good : Goods, ratio : Nat \ {0}]), NEW wanted \in Int
  PROVE  Substituted(start, want, wanted) \in Deals(m, now)
<1> DEFINE seq == want.substitutes
           n == Len(seq)
           X == Deals(m, now)
           Try(acc, choice) == Substitute(acc, choice, want.buyer, <<want.place[1], choice.good>>, wanted)
           folded == FoldLeft(Try, start, seq)
<1>1. n \in Nat /\ DOMAIN seq = 1 .. n
      /\ \A i \in 1 .. n : seq[i].good \in Goods /\ seq[i].ratio \in Nat \ {0}
  <2>1. n \in Nat /\ DOMAIN seq = 1 .. n /\ \A i \in 1 .. n : seq[i] \in [good : Goods, ratio : Nat \ {0}]
    BY ListOf, Zenon
  <2> HIDE DEF n, seq
  <2> QED
    BY <2>1
<1>2. start \in X
  OBVIOUS
<1>3. ASSUME NEW acc \in X, NEW i \in 1 .. n PROVE Try(acc, seq[i]) \in X
  <2> DEFINE choice == seq[i]
             place == <<want.place[1], choice.good>>
             short == Times(wanted - acc.units, choice.ratio)
             deal == LocalConsumption(acc.market, want.buyer, place, price[place], short)
  <2>1. choice.good \in Goods /\ choice.ratio \in Nat \ {0}
    BY <1>1
  <2> HIDE DEF n, seq, choice
  <2>2. acc.market \in Traded(m, now) /\ acc.units \in Int /\ acc.market \in Markets
    BY DEF Deals, Traded
  <2>3. place \in Places
    BY <2>1 DEF Places
  <2>4. short \in Int
    <3>0. choice.ratio \in Int
      BY <2>1
    <3>1. \A x \in Int : Times(x, choice.ratio) \in Int
      BY <3>0, TimesType
    <3>2. wanted - acc.units \in Int
      BY <2>2
    <3> QED
      BY <3>1, <3>2
  <2> HIDE DEF place, short
  <2>5. price[place] \in Nat
    BY <2>3
  <2>6. deal \in Deals(acc.market, now)
    BY <2>2, <2>3, <2>4, <2>5, LocalTraded
  <2>7. Try(acc, choice) = IF acc.units >= wanted THEN acc ELSE Added(acc, deal, choice)
    BY DEF Substitute, place, short
  <2> HIDE DEF deal
  <2>8. deal.market \in Traded(m, now) /\ deal.units \in Int
    <3>1. deal.market \in Traded(acc.market, now) /\ deal.units \in Int
      BY <2>6 DEF Deals
    <3> QED
      BY <2>2, <3>1, TradedOn
  <2>9. Over(deal.units, choice.ratio) \in Int
    BY <2>1, <2>8, OverType
  <2>10. Added(acc, deal, choice) \in X
    BY <2>2, <2>8, <2>9 DEF Added, Deals
  <2> HIDE DEF X, Try
  <2> QED
    BY <2>7, <2>10 DEF choice
<1> HIDE DEF n, X, seq
<1>4. FoldLeft(Try, start, seq) \in X
  <2> DEFINE F == [p \in X \X (1 .. n) |-> Try(p[1], seq[p[2]])]
             Is(h) == h = [s \in SUBSET (1 .. n) |->
                             IF s = {} THEN start ELSE Try(h[s \ {Max(s)}], seq[Max(s)])]
             g == CHOOSE h : Is(h)
  <2>1. FoldLeft(Try, start, seq) = g[1 .. n]
    BY <1>1 DEF FoldLeft, MapThenFoldSet
  <2> HIDE DEF Try
  <2>2. n \in Nat /\ start \in X
    BY <1>1, <1>2
  <2>3. F \in [X \X (1 .. n) -> X]
    BY <1>3
  <2>4. \A acc \in X : \A i \in 1 .. n : F[<<acc, i>>] = Try(acc, seq[i])
    OBVIOUS
  <2>5. \A s \in SUBSET (1 .. n) : s # {} => Max(s) \in 1 .. n
    BY <2>2, LastPosition
  <2> HIDE DEF F
  <2>6. PICK h \in [SUBSET (1 .. n) -> X] : RunsUp(h, n, F, start)
    BY <2>2, <2>3, FoldRunsUp
  <2>7. Is(h)
    BY <2>4, <2>5, <2>6 DEF RunsUp
  <2>8. Is(g)
    BY <2>7
  <2> HIDE DEF g
  <2>9. Follows(g, n, X, F, start)
    BY <2>4, <2>5, <2>8 DEF Follows
  <2>10. g[1 .. n] \in X
    BY <2>2, <2>3, <2>9, FoldStays
  <2> QED
    BY <2>1, <2>10
<1>5. folded \in X
  BY <1>4
<1>6. Substituted(start, want, wanted) = folded
  BY DEF Substituted, seq
<1> HIDE DEF folded
<1> QED
  BY <1>5, <1>6 DEF X
-----------------------------------------------------------------------------
Books == [Banks -> [interest : Int, collateral : Int, equity : Int]]
Workers == [DOMAIN Pools -> [workers : Nat, wage : Nat, employed : Int]]
Todays(crowd) ==
  [active : SUBSET Shocks, seen : SUBSET (Nat \X Nat), opening : [Goods -> Int],
   used : [DOMAIN Pools -> Int], batches : [DOMAIN Recipes -> Int], short : [crowd -> Int]]
Peopled(crowd) ==
  /\ \A i \in DOMAIN Baskets : <<Baskets[i].place[1], Baskets[i].class>> \in crowd
  /\ \A i \in DOMAIN Links : /\ <<Links[i].origin, Links[i].class>> \in crowd
                             /\ <<Links[i].destination, Links[i].class>> \in crowd
Lent == IsFiniteSet(DOMAIN loans) /\ loans \in [DOMAIN loans -> LoanRecords]
Typed ==
  /\ month \in Nat
  /\ books \in Books
  /\ Lent
  /\ price \in [Places -> Nat]
  /\ labor \in Workers
  /\ people \in [DOMAIN people -> Nat] /\ Peopled(DOMAIN people)
  /\ day \in Todays(DOMAIN people)

Stocked(m, now, opening) ==
  m \in Markets /\ Numbered(m, now) /\ \A g \in Goods : Balance(m, g) = opening[g]

OwedTo(lns, b) == {l \in DOMAIN lns : lns[l].bank = b /\ Owing(lns[l])}
PrincipalOf(lns, b) == Sum([l \in DOMAIN lns |-> lns[l].principal], OwedTo(lns, b))
InterestOf(lns, b) == Sum([l \in DOMAIN lns |-> lns[l].interest], OwedTo(lns, b))
Held(stock, b) == Sum([row \in Rows |-> stock[row].carrying], {row \in Rows : row[1] = b})
Booked(m, bks, lns) ==
  \A b \in Banks :
    /\ bks[b].interest = InterestOf(lns, b)
    /\ bks[b].collateral = Held(m.stock, b)
    /\ Net(m.money, b) + PrincipalOf(lns, b) + bks[b].interest + bks[b].collateral = bks[b].equity

WholeInv == Typed /\ Stocked(market, month, day.opening) /\ Booked(market, books, loans)

(* What is owed to a bank adds up to amounts that are not negative. *)
LEMMA LoansTyped ==
  ASSUME NEW lns, IsFiniteSet(DOMAIN lns), lns \in [DOMAIN lns -> LoanRecords], NEW b
  PROVE  /\ PrincipalOf(lns, b) \in Nat /\ InterestOf(lns, b) \in Nat
         /\ IsFiniteSet(OwedTo(lns, b)) /\ OwedTo(lns, b) \subseteq DOMAIN lns
         /\ \A l \in DOMAIN lns : lns[l] \in LoanRecords /\ lns[l].principal \in Nat /\ lns[l].interest \in Nat
<1> DEFINE S == OwedTo(lns, b)
           F == [l \in DOMAIN lns |-> lns[l].principal]
           G == [l \in DOMAIN lns |-> lns[l].interest]
<1>1. IsFiniteSet(S) /\ S \subseteq DOMAIN lns
  BY FS_Subset DEF OwedTo
<1>2. \A l \in DOMAIN lns : lns[l] \in LoanRecords /\ lns[l].principal \in Nat /\ lns[l].interest \in Nat
  BY DEF LoanRecords
<1>3. \A l \in S : F[l] \in Nat /\ G[l] \in Nat
  BY <1>1, <1>2
<1> HIDE DEF F, G, S
<1>4. Sum(F, S) \in Nat /\ Sum(G, S) \in Nat
  BY <1>1, <1>3, SumNat
<1> QED
  BY <1>1, <1>2, <1>4 DEF PrincipalOf, InterestOf, F, G, S

(* What a bank holds in seized collateral is not negative. *)
LEMMA HeldTyped ==
  ASSUME NEW s \in Stocks, NEW b
  PROVE  Held(s, b) \in Nat /\ IsFiniteSet({row \in Rows : row[1] = b})
<1> DEFINE S == {row \in Rows : row[1] = b}
           F == [row \in Rows |-> s[row].carrying]
<1>1. IsFiniteSet(S) /\ S \subseteq Rows
  BY ScenarioSets, FS_Subset
<1>2. \A row \in S : F[row] \in Nat
  BY <1>1, StockTyped
<1>3. Held(s, b) = Sum(F, S)
  BY DEF Held
<1> HIDE DEF S, F
<1> QED
  BY <1>1, <1>2, <1>3, SumNat DEF S

(* The invariant is what the two properties of the books and the stores say. *)
LEMMA WholeImplies ==
  ASSUME WholeInv
  PROVE  BanksReconcile /\ GoodsConserved
<1>1. market \in Markets /\ market.money \in SoundMoney /\ market.gone \in [Goods -> Int]
      /\ market.stock \in Stocks /\ market.money \in Moneys /\ day.opening \in [Goods -> Int]
  BY MarketParts DEF WholeInv, Stocked, Typed, Todays, SoundMoney
<1>2. ASSUME NEW b \in Banks PROVE Reconciled(b)
  <2>1. Interest(b) = InterestOf(loans, b) /\ Principal(b) = PrincipalOf(loans, b)
    BY DEF Interest, Principal, InterestOf, PrincipalOf, LoansOf, OwedTo, Active
  <2>2. DepositsReconcile(b)
    BY <1>1 DEF DepositsReconcile, SoundMoney
  <2>3. InterestReconciles(b)
    BY <2>1 DEF InterestReconciles, WholeInv, Booked
  <2>4. CollateralReconciles(b)
    BY DEF CollateralReconciles, WholeInv, Booked, Held
  <2>5. SheetBalances(b)
    <3>1. Net(market.money, b) + PrincipalOf(loans, b) + books[b].interest + books[b].collateral = books[b].equity
      BY DEF WholeInv, Booked
    <3>2. market.money.reserves[b] \in Int /\ market.money.liability[b] \in Int
      BY <1>1 DEF Moneys
    <3>3. PrincipalOf(loans, b) \in Int
      BY LoansTyped DEF WholeInv, Typed, Lent
    <3>4. books[b].interest \in Int /\ books[b].collateral \in Int /\ books[b].equity \in Int
      BY DEF WholeInv, Typed, Books
    <3> QED
      BY <2>1, <3>1, <3>2, <3>3, <3>4 DEF SheetBalances, Net
  <2> QED
    BY <2>2, <2>3, <2>4, <2>5 DEF Reconciled
<1>3. ASSUME NEW g \in Goods PROVE day.opening[g] - market.gone[g] = InStore(market, g)
  <2>1. InStore(market, g) + market.gone[g] = day.opening[g]
    BY DEF WholeInv, Stocked, Balance
  <2>2. InStore(market, g) \in Int /\ market.gone[g] \in Int
    <3>1. \A x, y \in Int : x + y \in Int
      OBVIOUS
    <3>2. Stored(market.stock, g) \in Int /\ Moving(market.transit, g) \in Int
      BY <1>1, StoreParts
    <3>3. InStore(market, g) = Stored(market.stock, g) + Moving(market.transit, g)
      BY StoreParts
    <3> QED
      BY <1>1, <3>1, <3>2, <3>3
  <2> QED
    BY <2>1, <2>2
<1> QED
  BY <1>2, <1>3 DEF BanksReconcile, GoodsConserved, Conserved

\* What a step that lends nothing and collects no loan makes of a market.
Reworked(k, now) ==
  {m \in Markets : /\ Numbered(k, now) => Numbered(m, now) /\ \A g \in Goods : Balance(m, g) = Balance(k, g)
                   /\ m.money \in Onwards(k.money)
                   /\ \A row \in Rows : m.stock[row].carrying = k.stock[row].carrying}

(* Trading lends nothing and collects no loan. *)
LEMMA TradedReworked == \A k, now : \A m \in Traded(k, now) : m \in Reworked(k, now)
BY DEF Traded, Reworked, StockKept

(* What neither lends nor collects leaves the goods, the sheets and the      *)
(* coins as they were.                                                       *)
LEMMA ReworkedSafe ==
  ASSUME NEW k, NEW now, NEW m \in Reworked(k, now), NEW opening, NEW bks, NEW lns,
         Stocked(k, now, opening), Booked(k, bks, lns)
  PROVE  Stocked(m, now, opening) /\ Booked(m, bks, lns) /\ CoinsOf(m.money) = CoinsOf(k.money)
<1>1. Stocked(m, now, opening)
  BY DEF Stocked, Reworked
<1>2. CoinsOf(m.money) = CoinsOf(k.money) /\ \A b \in Banks : Net(m.money, b) = Net(k.money, b)
  BY DEF Reworked, Onwards
<1>3. \A b : Held(m.stock, b) = Held(k.stock, b)
  <2>1. [row \in Rows |-> m.stock[row].carrying] = [row \in Rows |-> k.stock[row].carrying]
    BY DEF Reworked
  <2> QED
    BY <2>1 DEF Held
<1> QED
  BY <1>1, <1>2, <1>3 DEF Booked
-----------------------------------------------------------------------------
(* What is added up over a part of S, when one element of S changes. *)
LEMMA FilterChange ==
  ASSUME NEW S, IsFiniteSet(S), NEW a \in S, NEW T \in SUBSET S, NEW U \in SUBSET S, NEW F, NEW G,
         \A x \in S : F[x] \in Int /\ G[x] \in Int,
         \A x \in S : x # a => (x \in T <=> x \in U) /\ G[x] = F[x]
  PROVE  /\ Sum(G, U) = Sum(F, T) - (IF a \in T THEN F[a] ELSE 0) + (IF a \in U THEN G[a] ELSE 0)
         /\ Sum(F, T) \in Int
<1> DEFINE A == [x \in S |-> IF x \in T THEN F[x] ELSE 0]
           B == [x \in S |-> IF x \in U THEN G[x] ELSE 0]
<1>1. \A x \in S : A[x] \in Int /\ B[x] \in Int /\ (x # a => B[x] = A[x])
  OBVIOUS
<1>2. A[a] = (IF a \in T THEN F[a] ELSE 0) /\ B[a] = (IF a \in U THEN G[a] ELSE 0)
  OBVIOUS
<1>3. (\A x \in T : A[x] \in Int /\ F[x] = A[x]) /\ (\A x \in S \ T : A[x] = 0)
  OBVIOUS
<1>4. (\A x \in U : B[x] \in Int /\ G[x] = B[x]) /\ (\A x \in S \ U : B[x] = 0)
  OBVIOUS
<1> HIDE DEF A, B
<1>5. Sum(A, S) = Sum(F, T) /\ Sum(B, S) = Sum(G, U)
  BY <1>3, <1>4, SumWithin
<1>6. Sum(B, S) = Sum(A, S) - A[a] + B[a] /\ Sum(A, S) \in Int
  BY <1>1, SumChange
<1> QED
  BY <1>2, <1>5, <1>6

\* A loan with what it still owes replaced.
LEMMA LoanChanged ==
  ASSUME NEW lns, IsFiniteSet(DOMAIN lns), lns \in [DOMAIN lns -> LoanRecords],
         NEW id \in DOMAIN lns, NEW new \in LoanRecords, Owing(lns[id]), new.bank = lns[id].bank,
         Owing(new) \/ (new.principal = 0 /\ new.interest = 0), NEW b
  PROVE  LET k == [lns EXCEPT ![id] = new]
             hit == lns[id].bank = b
         IN /\ PrincipalOf(k, b) = PrincipalOf(lns, b) + (IF hit THEN new.principal - lns[id].principal ELSE 0)
            /\ InterestOf(k, b) = InterestOf(lns, b) + (IF hit THEN new.interest - lns[id].interest ELSE 0)
            /\ DOMAIN k = DOMAIN lns /\ k \in [DOMAIN k -> LoanRecords]
<1> DEFINE k == [lns EXCEPT ![id] = new]
           S == DOMAIN lns
           T == OwedTo(lns, b)
           U == OwedTo(k, b)
           F == [l \in DOMAIN lns |-> lns[l].principal]
           G == [l \in DOMAIN k |-> k[l].principal]
           P == [l \in DOMAIN lns |-> lns[l].interest]
           Q == [l \in DOMAIN k |-> k[l].interest]
           old == lns[id]
<1>1. DOMAIN k = S /\ k \in [S -> LoanRecords] /\ k[id] = new /\ \A l \in S : l # id => k[l] = lns[l]
  OBVIOUS
<1>2. \A l \in S : lns[l].principal \in Int /\ lns[l].interest \in Int /\ k[l].principal \in Int /\ k[l].interest \in Int
  <2>1. \A l \in S : lns[l] \in LoanRecords /\ k[l] \in LoanRecords
    BY <1>1
  <2> HIDE DEF k
  <2> QED
    BY <2>1 DEF LoanRecords
<1>3. old.principal \in Int /\ old.interest \in Int /\ new.principal \in Int /\ new.interest \in Int
  BY <1>1, <1>2
<1> HIDE DEF k, S
<1>4. \A l \in S : /\ F[l] = lns[l].principal /\ G[l] = k[l].principal
                   /\ P[l] = lns[l].interest /\ Q[l] = k[l].interest
  BY <1>1 DEF S
<1>5. T \in SUBSET S /\ U \in SUBSET S /\ IsFiniteSet(S)
  BY <1>1 DEF OwedTo, S
<1>6. \A l \in S : l # id => (l \in T <=> l \in U)
  BY <1>1 DEF OwedTo, S
<1>7. id \in S /\ (id \in T <=> old.bank = b) /\ (id \in U <=> old.bank = b /\ Owing(new))
  BY <1>1 DEF OwedTo, S
<1>8. PrincipalOf(lns, b) = Sum(F, T) /\ PrincipalOf(k, b) = Sum(G, U)
      /\ InterestOf(lns, b) = Sum(P, T) /\ InterestOf(k, b) = Sum(Q, U)
  BY DEF PrincipalOf, InterestOf
<1> HIDE DEF T, U, F, G, P, Q, old
<1>9. /\ Sum(G, U) = Sum(F, T) - (IF id \in T THEN F[id] ELSE 0) + (IF id \in U THEN G[id] ELSE 0)
      /\ Sum(F, T) \in Int
  <2>1. \A l \in S : F[l] \in Int /\ G[l] \in Int
    BY <1>2, <1>4
  <2>2. \A l \in S : l # id => (l \in T <=> l \in U) /\ G[l] = F[l]
    BY <1>1, <1>4, <1>6
  <2> QED
    BY <1>5, <1>7, <2>1, <2>2, FilterChange
<1>10. /\ Sum(Q, U) = Sum(P, T) - (IF id \in T THEN P[id] ELSE 0) + (IF id \in U THEN Q[id] ELSE 0)
       /\ Sum(P, T) \in Int
  <2>1. \A l \in S : P[l] \in Int /\ Q[l] \in Int
    BY <1>2, <1>4
  <2>2. \A l \in S : l # id => (l \in T <=> l \in U) /\ Q[l] = P[l]
    BY <1>1, <1>4, <1>6
  <2> QED
    BY <1>5, <1>7, <2>1, <2>2, FilterChange
<1>11. F[id] = old.principal /\ P[id] = old.interest /\ G[id] = new.principal /\ Q[id] = new.interest
  BY <1>1, <1>4, <1>7 DEF old
<1>12. PrincipalOf(k, b) = PrincipalOf(lns, b) + (IF old.bank = b THEN new.principal - old.principal ELSE 0)
  BY <1>3, <1>7, <1>8, <1>9, <1>11
<1>13. InterestOf(k, b) = InterestOf(lns, b) + (IF old.bank = b THEN new.interest - old.interest ELSE 0)
  BY <1>3, <1>7, <1>8, <1>10, <1>11
<1> QED
  BY <1>1, <1>12, <1>13 DEF k, S, old

\* A step that only trades: it lends nothing, and no loan is serviced.
Trades ==
  /\ market' \in Traded(market, month) /\ UNCHANGED <<month, books, loans>>
  /\ day'.opening = day.opening /\ Typed'

(* A step that neither lends nor collects keeps the invariant. *)
LEMMA StillSafe ==
  ASSUME WholeInv, market' \in Reworked(market, month), UNCHANGED <<month, books, loans>>,
         day'.opening = day.opening, Typed'
  PROVE  WholeInv' /\ Coins' = Coins
<1>1. /\ Stocked(market', month, day.opening) /\ Booked(market', books, loans)
      /\ CoinsOf(market'.money) = CoinsOf(market.money)
  BY ReworkedSafe DEF WholeInv
<1> QED
  BY <1>1 DEF WholeInv, Coins, CoinsOf

(* What does not change keeps its type. *)
LEMMA TypedStays == ASSUME Typed, UNCHANGED <<month, account, day>> PROVE Typed'
BY DEF Typed, account, Lent

(* What the invariant says of the market, the prices and the shocks. *)
LEMMA MarketOfInv ==
  ASSUME WholeInv
  PROVE  /\ Typed /\ market \in Markets /\ market.money \in SoundMoney /\ market.stock \in Stocks
         /\ market \in Traded(market, month) /\ market.transit \in SUBSET Lots /\ IsFiniteSet(market.transit)
         /\ month \in Nat
         /\ price \in [Places -> Nat] /\ day.active \in SUBSET Shocks
BY MarketParts, TradedSelf DEF WholeInv, Stocked, Typed, Todays

(* A step of the script is about one of the things of its phase. *)
LEMMA ItemOf ==
  ASSUME NEW phase, NEW items, Doing(phase, items)
  PROVE  Item \in DOMAIN items
BY DEF Doing, Item

(* A step that leaves the market alone is a trade. *)
LEMMA StaysTrades ==
  ASSUME WholeInv, UNCHANGED <<month, market, account, day>>
  PROVE  Trades
<1>1. Typed'
  BY TypedStays DEF WholeInv
<1> QED
  BY <1>1, MarketOfInv DEF Trades, account

(* A month that is given up changes nothing (Fail). *)
LEMMA FailTrades == ASSUME WholeInv, NEW why, Fail(why) PROVE Trades
BY StaysTrades DEF Fail

(* Drawing the shocks touches no market (ApplyShocks). *)
LEMMA ShocksTrade == ASSUME WholeInv, ApplyShocks PROVE Trades
<1>1. PICK on : on \in SUBSET {s \in Shocks : month \in s.months} /\ day' = [day EXCEPT !.active = on]
  BY DEF ApplyShocks
<1>2. on \in SUBSET Shocks
  BY <1>1
<1>3. day' \in Todays(DOMAIN people) /\ day'.opening = day.opening
  BY <1>1, <1>2 DEF WholeInv, Typed, Todays
<1>4. UNCHANGED <<month, market, account>>
  BY DEF ApplyShocks, NextStep
<1>5. Typed'
  BY <1>3, <1>4 DEF Typed, account, WholeInv, Lent
<1> QED
  BY <1>3, <1>4, <1>5, MarketOfInv DEF Trades, account

(* The end of the arrivals changes nothing (AllArrived). *)
LEMMA AllArrivedTrades == ASSUME WholeInv, AllArrived PROVE Trades
BY StaysTrades DEF AllArrived, NextStep

(* What is on offer is there. *)
LEMMA OpenTrades == ASSUME WholeInv, OpenMarket PROVE Trades
<1> DEFINE site == SiteOrder[Item]
           supply == [p \in Places |->
                        IF p[1] = site THEN [requested |-> 0, consumed |-> 0, offered |-> OnOffer(p)]
                        ELSE market.supply[p]]
<1>1. CASE \E why : Fail(why)
  BY <1>1, FailTrades
<1>2. CASE market' = [market EXCEPT !.supply = supply] /\ NextStep /\ UNCHANGED <<account, day>>
  <2>1. \A p \in Places : OnOffer(p) \in Nat
    <3> TAKE p \in Places
    <3> DEFINE S == Entities \ Banks
               F == [e \in Entities |-> Available(Row(market, e, p))]
    <3>1. IsFiniteSet(S)
      BY Finite, FS_Subset
    <3>2. \A e \in S : F[e] \in Nat
      <4> TAKE e \in S
      <4>1. <<e, p[1], p[2]>> \in Rows
        BY DEF Places, Rows
      <4>2. Available(market.stock[<<e, p[1], p[2]>>]) \in Nat
        BY <4>1, MarketOfInv, StockTyped
      <4> QED
        BY <4>2 DEF Row
    <3>3. OnOffer(p) = Sum(F, S)
      BY DEF OnOffer
    <3> HIDE DEF F, S
    <3> QED
      BY <3>1, <3>2, <3>3, SumNat
  <2>2. supply \in Supplies
    <3>1. market.supply \in Supplies
      BY MarketParts, MarketOfInv
    <3> QED
      BY <2>1, <3>1 DEF Supplies
  <2> HIDE DEF supply
  <2>3. market' \in Markets /\ Others(market, market', {"supply"})
    <3>1. Shaped(market)
      BY MarketParts, MarketOfInv DEF Shaped
    <3>2. Shaped(market') /\ market'.supply = supply /\ Others(market, market', {"supply"})
      BY <1>2, <3>1 DEF Shaped, Others
    <3> QED
      BY <2>2, <3>2, MarketParts, MarketOfInv DEF Shaped, Others
  <2>4. \A g \in Goods : Balance(market', g) = Balance(market, g)
    BY <2>3, StoreParts DEF Balance, Others
  <2>5. market' \in Traded(market, month)
    BY <2>3, <2>4, MarketOfInv, OnwardsSelf, StockKeptOn DEF Traded, Others, Numbered
  <2>6. Typed' /\ month' = month
    BY <1>2, TypedStays, MarketOfInv DEF NextStep
  <2> QED
    BY <1>2, <2>5, <2>6 DEF Trades, account
<1> QED
  BY <1>1, <1>2 DEF OpenMarket

(* The wants of households and businesses are of entities, for goods at      *)
(* places.                                                                   *)
LEMMA WantsKnown ==
  /\ \A i \in DOMAIN Baskets :
       /\ Baskets[i].buyer \in Entities /\ Baskets[i].place \in Places /\ Baskets[i].each \in Nat
       /\ Baskets[i].substitutes \in Seq([good : Goods, ratio : Nat \ {0}])
  /\ \A i \in DOMAIN Demands :
       Demands[i].buyer \in Entities /\ Demands[i].place \in Places /\ Demands[i].quantity \in Nat
BY ScenarioAssumption DEF ScenarioAccepted, ValidWant, ValidDemand

(* Serving the want of a household is a trade (Household). *)
LEMMA HouseholdTrades == ASSUME WholeInv, Household PROVE Trades
<1> DEFINE want == Baskets[Item]
           class == <<want.place[1], want.class>>
           wanted == Times(people[class], want.each)
           first == LocalConsumption(market, want.buyer, want.place, price[want.place], wanted)
           local == Substituted(first, want, wanted)
           gap == Larger(0, wanted - local.units)
           imports == Imported(local.market, want.buyer, want.place, gap)
           short == Larger(0, wanted - local.units - imports.arrived)
<1>1. /\ want.buyer \in Entities /\ want.place \in Places /\ want.each \in Nat
      /\ want.substitutes \in Seq([good : Goods, ratio : Nat \ {0}])
      /\ class \in DOMAIN people
  <2>1. Item \in DOMAIN Baskets
    BY ItemOf DEF Household
  <2> QED
    BY <2>1, WantsKnown DEF WholeInv, Typed, Peopled
<1>2. Consumed(class, wanted, local.units, imports) /\ NextStep /\ UNCHANGED account
  BY DEF Household, Supplied
<1> HIDE DEF want, class
<1>3. wanted \in Nat
  <2>1. people[class] \in Nat
    BY <1>1 DEF WholeInv, Typed
  <2> QED
    BY <1>1, <2>1, TimesNat
<1> HIDE DEF wanted
<1>4. first \in Deals(market, month)
  <2>1. price[want.place] \in Nat
    BY <1>1, MarketOfInv
  <2> QED
    BY <1>1, <1>3, <2>1, LocalTraded, MarketOfInv
<1> HIDE DEF first
<1>5. local \in Deals(market, month)
  <2>1. wanted \in Int /\ market \in Markets /\ price \in [Places -> Nat]
    BY <1>3, MarketOfInv
  <2> QED
    BY <1>1, <1>4, <2>1, SubstitutedTraded
<1> HIDE DEF local
<1>6. local.market \in Traded(market, month) /\ local.units \in Int
  BY <1>5 DEF Deals
<1>7. gap \in Int
  BY <1>3, <1>6 DEF Larger
<1> HIDE DEF gap
<1>8. imports.market \in Traded(market, month) /\ imports.arrived \in Int
  BY <1>1, <1>6, <1>7, ImportedTraded, MarketOfInv
<1> HIDE DEF imports
<1>9. short \in Int
  BY <1>3, <1>6, <1>8 DEF Larger
<1>10. /\ market' = imports.market
       /\ day' = [day EXCEPT !.short[class] = IF wanted = 0 THEN @ ELSE Larger(@, Over(short, wanted))]
  BY <1>2 DEF Consumed
<1>11. Over(short, wanted) \in Int \/ wanted = 0
  BY <1>3, <1>9, OverType
<1> HIDE DEF short
<1> DEFINE worst == IF wanted = 0 THEN day.short[class] ELSE Larger(day.short[class], Over(short, wanted))
<1>12. worst \in Int /\ day \in Todays(DOMAIN people) /\ day.short \in [DOMAIN people -> Int]
  <2>1. day.short \in [DOMAIN people -> Int] /\ day \in Todays(DOMAIN people)
    BY DEF WholeInv, Typed, Todays
  <2> QED
    BY <1>1, <1>11, <2>1 DEF Larger
<1>13. day' = [day EXCEPT !.short[class] = worst]
  BY <1>10
<1> HIDE DEF worst
<1>14. day' \in Todays(DOMAIN people) /\ day'.opening = day.opening
  BY <1>1, <1>12, <1>13 DEF Todays
<1>15. UNCHANGED <<month, account>>
  BY <1>2 DEF NextStep
<1>16. Typed'
  BY <1>14, <1>15 DEF Typed, account, WholeInv, Lent
<1> QED
  BY <1>8, <1>10, <1>14, <1>15, <1>16 DEF Trades, account

(* Serving the want of a business is a trade (Business). *)
LEMMA BusinessTrades == ASSUME WholeInv, Business PROVE Trades
<1> DEFINE want == Demands[Item]
           local == LocalConsumption(market, want.buyer, want.place, price[want.place], want.quantity)
           gap == Larger(0, want.quantity - local.units)
           imports == Imported(local.market, want.buyer, want.place, gap)
<1>1. want.buyer \in Entities /\ want.place \in Places /\ want.quantity \in Nat
  <2>1. Item \in DOMAIN Demands
    BY ItemOf DEF Business
  <2> QED
    BY <2>1, WantsKnown
<1>2. market' = imports.market /\ NextStep /\ UNCHANGED <<account, day>>
  BY DEF Business, Restocked
<1> HIDE DEF want
<1>3. local \in Deals(market, month)
  <2>1. price[want.place] \in Nat /\ want.quantity \in Int
    BY <1>1, MarketOfInv
  <2> QED
    BY <1>1, <2>1, LocalTraded, MarketOfInv
<1> HIDE DEF local
<1>4. local.market \in Traded(market, month) /\ local.units \in Int
  BY <1>3 DEF Deals
<1>5. gap \in Int
  BY <1>1, <1>4 DEF Larger
<1> HIDE DEF gap
<1>6. imports.market \in Traded(market, month)
  BY <1>1, <1>4, <1>5, ImportedTraded, MarketOfInv
<1>7. Typed' /\ month' = month
  BY <1>2, TypedStays, MarketOfInv DEF NextStep
<1> HIDE DEF imports
<1> QED
  BY <1>2, <1>6, <1>7 DEF Trades, account

(* A shipment's dues are whole cents owed to entities. *)
LEMMA LotsOwe == \A l \in Lots : l.dues \in Bills /\ l.buyer \in Entities
<1> TAKE l \in Lots
<1> DEFINE S == [to : Entities, amount : InCents]
           T == [to : Entities, amount : Whole \cap Nat]
<1>1. S \subseteq T
  BY ScenarioSets
<1>2. l.dues \in Seq(S) /\ l.buyer \in Entities
  BY DEF Lots
<1> HIDE DEF S, T
<1>3. l.dues \in Seq(T)
  BY <1>1, <1>2
<1> QED
  BY <1>2, <1>3 DEF Bills, T

(* What arrives is put in store. *)
LEMMA DeliveredTraded ==
  ASSUME NEW m \in Markets, NEW now, NEW l \in m.transit, NEW k, k = Delivered(m, l)
  PROVE  k \in Traded(m, now) /\ k.money = m.money /\ k.full = m.full
<1> DEFINE row == <<l.buyer, l.site, l.good>>
           n == l.quantity
           transit == m.transit \ {l}
           stock == [m.stock EXCEPT ![row].quantity = @ + n]
<1>1. /\ l \in Lots /\ m.transit \in SUBSET Lots /\ IsFiniteSet(m.transit) /\ m.stock \in Stocks
      /\ n \in Nat /\ row \in Rows /\ row[3] = l.good
  <2>1. m.transit \in SUBSET Lots /\ IsFiniteSet(m.transit) /\ m.stock \in Stocks
    BY MarketParts
  <2>2. l \in Lots
    BY <2>1
  <2>3. l.quantity \in Nat /\ l.buyer \in Entities /\ l.site \in Sites /\ l.good \in Goods
    BY <2>2 DEF Lots
  <2> QED
    BY <2>1, <2>2, <2>3 DEF Rows
<1>2. k = [m EXCEPT !.transit = transit, !.stock = stock]
  BY DEF Delivered
<1>3. Shaped(m)
  BY MarketParts DEF Shaped
<1> HIDE DEF row, n
<1>4. stock \in Stocks /\ StockKept(m.stock, stock)
  <2> DEFINE q == m.stock[row].quantity + n
  <2>1. m.stock[row] \in [quantity : Nat, pledged : Nat, carrying : Nat] /\ q \in Nat
        /\ m.stock[row].quantity \in Nat /\ m.stock[row].pledged \in Nat /\ m.stock[row].quantity <= q
    BY <1>1, StockTyped
  <2>2. stock = [m.stock EXCEPT ![row] = [m.stock[row] EXCEPT !.quantity = q]]
    OBVIOUS
  <2> HIDE DEF q, stock
  <2>3. [m.stock[row] EXCEPT !.quantity = q] \in [quantity : Nat, pledged : Nat, carrying : Nat]
    BY <2>1
  <2>4. stock \in Stocks
    BY <1>1, <2>2, <2>3 DEF Stocks
  <2>5. \A r \in Rows : r # row => stock[r] = m.stock[r]
    BY <1>1, <2>2 DEF Stocks
  <2>6. /\ stock[row].pledged = m.stock[row].pledged /\ stock[row].carrying = m.stock[row].carrying
        /\ stock[row].quantity = q
    BY <1>1, <2>1, <2>2 DEF Stocks
  <2>7. ASSUME NEW r \in Rows
        PROVE  /\ stock[r].pledged = m.stock[r].pledged /\ stock[r].carrying = m.stock[r].carrying
               /\ m.stock[r].pledged <= m.stock[r].quantity => stock[r].pledged <= stock[r].quantity
    <3>1. CASE r = row
      BY <2>1, <2>6, <3>1
    <3>2. CASE r # row
      BY <2>5, <3>2
    <3> QED
      BY <3>1, <3>2
  <2> QED
    BY <2>4, <2>7 DEF StockKept
<1>5. stock[row].quantity = m.stock[row].quantity + n /\ \A r \in Rows : r # row => stock[r].quantity = m.stock[r].quantity
  <2>1. m.stock[row] \in [quantity : Nat, pledged : Nat, carrying : Nat]
    BY <1>1, StockTyped
  <2> QED
    BY <1>1, <2>1 DEF Stocks
<1> HIDE DEF stock, transit
<1>6. Shaped(k) /\ k.transit = transit /\ k.stock = stock /\ Others(m, k, {"transit", "stock"})
  BY <1>2, <1>3 DEF Shaped, Others
<1>7. transit \in SUBSET Lots /\ IsFiniteSet(transit) /\ l \notin transit /\ m.transit = transit \cup {l}
  BY <1>1, FS_RemoveElement DEF transit
<1>8. k \in Markets
  BY <1>4, <1>6, <1>7, MarketParts DEF Shaped, Others
<1>9. ASSUME NEW g \in Goods PROVE Balance(k, g) = Balance(m, g)
  <2>1. Stored(stock, g) = Stored(m.stock, g) + Goes(row, n, g) /\ Stored(m.stock, g) \in Int
    <3>1. n \in Int
      BY <1>1
    <3> QED
      BY <1>1, <1>4, <1>5, <3>1, StoredChange
  <2>2. Moving(m.transit, g) = Moving(transit, g) + Goes(row, n, g) /\ Moving(transit, g) \in Int
    <3>1. /\ Moving(transit \cup {l}, g) = Moving(transit, g) + (IF l.good = g THEN l.quantity ELSE 0)
          /\ Moving(transit, g) \in Int
      BY <1>1, <1>7, MovingGrows
    <3> QED
      BY <1>1, <1>7, <3>1 DEF Goes, n
  <2>3. Goes(row, n, g) \in Int
    BY <1>1 DEF Goes
  <2>4. k.gone = m.gone /\ k.stock = stock /\ k.transit = transit
    BY <1>6 DEF Others
  <2> QED
    BY <2>1, <2>2, <2>3, <2>4, StoreParts DEF Balance
<1>10. Numbered(m, now) => Numbered(k, now)
  BY <1>6, <1>7 DEF Numbered, Others
<1> QED
  BY <1>4, <1>6, <1>8, <1>9, <1>10, MarketParts, OnwardsSelf DEF Traded, Others

\* One of several lots is the earliest.
LEMMA EarliestOf ==
  ASSUME NEW S \in SUBSET Lots, S # {}
  PROVE  Earliest(S) \in S
<1> DEFINE M == {l.id[1] : l \in S}
<1>1. \A l \in S : l.id[1] \in Nat /\ l.id[2] \in Nat
  BY DEF Lots
<1>2. PICK i \in M : \A j \in M : i <= j
  <2>1. M \in SUBSET Nat /\ M # {}
    BY <1>1
  <2> HIDE DEF M
  <2> QED
    BY <2>1, LeastNumber
<1> DEFINE N == {l.id[2] : l \in {k \in S : k.id[1] = i}}
<1>3. PICK j \in N : \A k \in N : j <= k
  <2>1. N \in SUBSET Nat /\ N # {}
    BY <1>1, <1>2
  <2> HIDE DEF N
  <2> QED
    BY <2>1, LeastNumber
<1>4. PICK l \in S : l.id[1] = i /\ l.id[2] = j
  BY <1>3
<1>5. ASSUME NEW k \in S PROVE l.id[1] < k.id[1] \/ (l.id[1] = k.id[1] /\ l.id[2] <= k.id[2])
  <2>1. i <= k.id[1] /\ i \in Nat
    BY <1>1, <1>2
  <2>2. k.id[1] = i => j <= k.id[2]
    BY <1>3
  <2> QED
    BY <1>1, <1>4, <2>1, <2>2
<1> QED
  BY <1>4, <1>5 DEF Earliest

(* A shipment that arrives, paid on arrival or left waiting, is a trade      *)
(* (Arrive).                                                                 *)
LEMMA ArriveTrades == ASSUME WholeInv, Arrive PROVE Trades
<1> DEFINE l == Earliest(Waiting)
           done == Delivered(market, l)
           off == PaidOff(market.money, l.buyer, l.dues)
<1>1. l \in market.transit
  <2>1. Waiting \subseteq market.transit /\ Waiting # {}
    BY DEF Waiting, Arrive
  <2>2. Waiting \in SUBSET Lots
    BY <2>1, MarketOfInv
  <2> HIDE DEF Waiting
  <2> QED
    BY <2>1, <2>2, EarliestOf
<1>2. /\ market' = IF l.prepaid THEN done
                   ELSE IF Payable(market.money, l.buyer, l.dues) THEN Paying(done, off) ELSE market
      /\ day' = [day EXCEPT !.seen = @ \cup {l.id}]
      /\ UNCHANGED <<month, account>>
  BY DEF Arrive
<1> HIDE DEF l
<1>3. l \in Lots /\ l.id \in Nat \X Nat
  BY <1>1, MarketOfInv DEF Lots
<1>4. done \in Traded(market, month) /\ done.money = market.money
  BY <1>1, DeliveredTraded, MarketOfInv
<1> HIDE DEF done
<1>5. ASSUME Payable(market.money, l.buyer, l.dues) PROVE Paying(done, off) \in Traded(market, month)
  <2>1. off.money \in Onwards(market.money) /\ off.full \in BOOLEAN /\ off.full
    BY <1>3, <1>5, LotsOwe, PaidOffKeeps, MarketOfInv
  <2> HIDE DEF off
  <2>2. done \in Markets
    BY <1>4 DEF Traded
  <2>3. Paying(done, off) \in Traded(done, month)
    BY <1>4, <2>1, <2>2, PayingTraded
  <2> QED
    BY <1>4, <2>3, TradedOn
<1> HIDE DEF off
<1>6. market' \in Traded(market, month)
  <2>1. market \in Traded(market, month)
    BY MarketOfInv
  <2> QED
    BY <1>2, <1>4, <1>5, <2>1
<1>7. day' \in Todays(DOMAIN people) /\ day'.opening = day.opening
  <2>1. day \in Todays(DOMAIN people)
    BY DEF WholeInv, Typed
  <2> QED
    BY <1>2, <1>3, <2>1 DEF Todays
<1>8. Typed'
  BY <1>2, <1>7 DEF Typed, account, WholeInv, Lent
<1> QED
  BY <1>2, <1>6, <1>7, <1>8 DEF Trades, account

(* A share of something is no more than all of it. *)
LEMMA ShareOf ==
  ASSUME NEW x \in Nat, NEW y \in 0 .. Scale
  PROVE  Times(x, y) \in 0 .. x
<1>1. Scale \in Nat \ {0}
  BY ScaleAssumption
<1>2. Times(x, y) \in Nat
  BY <1>1, TimesNat
<1>3. x * y <= Scale * x /\ x * y \in Int
  <2>1. x * y <= x * Scale
    BY <1>1, ProductOrder
  <2> QED
    BY <1>1, <2>1
<1>4. Times(x, y) <= x
  BY <1>1, <1>3, HalfEvenBelow DEF Times
<1> QED
  BY <1>2, <1>4

(* What the invariant says of the labour pools. *)
LEMMA LaborTyped ==
  ASSUME WholeInv
  PROVE  /\ \A p \in DOMAIN Pools : /\ labor[p].workers \in Nat /\ labor[p].wage \in Nat /\ labor[p].employed \in Int
                                    /\ labor[p] \in [workers : Nat, wage : Nat, employed : Int]
                                    /\ day.used[p] \in Int
         /\ labor \in Workers /\ day \in Todays(DOMAIN people)
BY DEF WholeInv, Typed, Workers, Todays

(* Moving the wages touches no market (AdjustWages). *)
LEMMA WagesTrade == ASSUME WholeInv, AdjustWages PROVE Trades
<1>1. \A p \in DOMAIN Pools : labor'[p] \in [workers : Nat, wage : Nat, employed : Int]
  <2> TAKE p \in DOMAIN Pools
  <2> DEFINE capacity == labor[p].workers * Days
             utilised == IF capacity = 0 THEN 0 ELSE Lesser(Scale, Over(day.used[p], capacity))
             x == labor[p].wage * (96 * Scale + 5 * utilised)
             wage == Larger(Cent, HalfEven(x, 100 * Scale))
  <2>1. labor'[p] = [labor[p] EXCEPT !.employed = day.used[p], !.wage = wage]
    BY DEF AdjustWages
  <2>2. capacity \in Nat
    <3>1. \A a, b \in Nat : a * b \in Nat
      OBVIOUS
    <3> QED
      BY <3>1, LaborTyped, WholeAssumption
  <2> HIDE DEF capacity
  <2>3. utilised \in Int
    <3>1. capacity # 0 => Over(day.used[p], capacity) \in Int
      BY <2>2, LaborTyped, OverType
    <3> QED
      BY <3>1, ScaleAssumption DEF Lesser
  <2> HIDE DEF utilised
  <2>4. x \in Int /\ 100 * Scale \in Nat \ {0}
    <3>1. 96 * Scale + 5 * utilised \in Int /\ 100 * Scale \in Nat \ {0}
      BY <2>3, ScaleAssumption
    <3>2. \A a, b \in Int : a * b \in Int
      OBVIOUS
    <3>3. labor[p].wage \in Int
      BY LaborTyped
    <3> QED
      BY <3>1, <3>2, <3>3
  <2> HIDE DEF x
  <2>5. HalfEven(x, 100 * Scale) \in Int
    BY <2>4, HalfEvenType
  <2>6. wage \in Nat
    BY <2>5, Finite DEF Larger
  <2> HIDE DEF wage
  <2> QED
    BY <2>1, <2>6, LaborTyped
<1>2. labor' \in Workers
  <2>1. labor' = [p \in DOMAIN Pools |-> labor'[p]]
    BY DEF AdjustWages
  <2> QED
    BY <1>1, <2>1 DEF Workers
<1>3. UNCHANGED <<month, market, books, loans, price, people, day>>
  BY DEF AdjustWages, NextStep
<1>4. Typed'
  BY <1>2, <1>3 DEF Typed, WholeInv, Lent
<1> QED
  BY <1>3, <1>4, MarketOfInv DEF Trades

(* Moving the prices touches no market (AdjustPrices). *)
LEMMA PricesTrade == ASSUME WholeInv, AdjustPrices PROVE Trades
<1>1. ASSUME NEW p \in Places PROVE price'[p] \in Nat
  <2> DEFINE s == market.supply[p]
             rule == PriceRule[p[2]]
             short == IF s.requested = 0 THEN 0
                      ELSE Over(Larger(0, s.requested - s.consumed), s.requested)
             surplus == IF s.offered = 0 THEN 0
                        ELSE Over(Larger(0, s.offered - s.requested), s.offered)
             delta == Delta("price_pressure", p[1])
             a == Times(rule.elasticity, short)
             b == HalfEven(rule.elasticity * surplus, 4 * Scale)
             factor == Scale + a - b + delta
             least == HalfEven(Scale, 10)
             moved == Times(price[p], Larger(least, factor))
  <2>1. price'[p] = Between(rule.min, moved, rule.max)
    BY DEF AdjustPrices
  <2>2. s.requested \in Nat /\ s.consumed \in Nat /\ s.offered \in Nat
    <3>1. market.supply \in Supplies
      BY MarketParts, MarketOfInv
    <3> QED
      BY <3>1 DEF Supplies
  <2>3. rule.min \in Nat /\ rule.max \in Nat /\ rule.elasticity \in Nat
    <3>1. p[2] \in Goods
      BY DEF Places
    <3>2. ValidGood(p[2])
      BY <3>1, ScenarioAssumption DEF ScenarioAccepted
    <3> QED
      BY <3>2 DEF ValidGood
  <2> HIDE DEF s, rule
  <2>4. short \in Int
    <3>1. Larger(0, s.requested - s.consumed) \in Int
      BY <2>2 DEF Larger
    <3>2. s.requested # 0 => Over(Larger(0, s.requested - s.consumed), s.requested) \in Int
      BY <2>2, <3>1, OverType
    <3> QED
      BY <3>2
  <2>5. surplus \in Int
    <3>1. Larger(0, s.offered - s.requested) \in Int
      BY <2>2 DEF Larger
    <3>2. s.offered # 0 => Over(Larger(0, s.offered - s.requested), s.offered) \in Int
      BY <2>2, <3>1, OverType
    <3> QED
      BY <3>2
  <2> HIDE DEF short, surplus
  <2>6. a \in Int
    <3>1. rule.elasticity \in Int
      BY <2>3
    <3> QED
      BY <2>4, <3>1, TimesType
  <2>7. b \in Int
    <3>1. rule.elasticity * surplus \in Int /\ 4 * Scale \in Nat \ {0}
      BY <2>3, <2>5, ScaleAssumption
    <3> QED
      BY <3>1, HalfEvenType
  <2>8. delta \in Int
    BY DeltaTyped, MarketOfInv
  <2>9. least \in Int
    BY HalfEvenType, ScaleAssumption
  <2> HIDE DEF a, b, delta, least
  <2>10. Larger(least, factor) \in Int
    BY <2>6, <2>7, <2>8, <2>9, ScaleAssumption DEF Larger
  <2> HIDE DEF factor
  <2>11. moved \in Int
    <3>1. price[p] \in Int
      BY MarketOfInv
    <3> QED
      BY <2>10, <3>1, TimesType
  <2> HIDE DEF moved
  <2> QED
    BY <2>1, <2>3, <2>11 DEF Between, Larger, Lesser
<1>2. price' \in [Places -> Nat]
  <2>1. price' = [p \in Places |-> price'[p]]
    BY DEF AdjustPrices
  <2> QED
    BY <1>1, <2>1
<1>3. UNCHANGED <<month, market, books, loans, labor, people, day>>
  BY DEF AdjustPrices, NextStep
<1>4. Typed'
  BY <1>2, <1>3 DEF Typed, WholeInv, Lent
<1> QED
  BY <1>3, <1>4, MarketOfInv DEF Trades

(* The best wage of a class is not negative. *)
LEMMA ClassWageTyped ==
  ASSUME WholeInv, NEW site, NEW class
  PROVE  ClassWage(site, class) \in Nat
<1> DEFINE Q == {q \in DOMAIN Pools : q[1] = site /\ Pools[q].class = class}
           f == [p \in Q |-> labor[p].wage]
           S == {0} \cup {f[p] : p \in Q}
<1>1. IsFiniteSet(Q)
  <2>1. IsFiniteSet(DOMAIN Pools)
    BY ScenarioAssumption DEF ScenarioAccepted
  <2> QED
    BY <2>1, FS_Subset
<1>2. S \in SUBSET Nat /\ S # {}
  <2>1. \A p \in Q : f[p] \in Nat
    BY LaborTyped
  <2> HIDE DEF f, Q
  <2> QED
    BY <2>1
<1>3. {f[p] : p \in Q} = {labor[p].wage : p \in Q}
  OBVIOUS
<1>4. ClassWage(site, class) = Max(S)
  BY <1>3 DEF ClassWage
<1> HIDE DEF Q, f
<1>5. IsFiniteSet(S)
  <2> DEFINE A == {0}
             B == {f[p] : p \in Q}
  <2>0. IsFiniteSet(A)
    BY FS_Singleton
  <2>1. IsFiniteSet(A) /\ IsFiniteSet(B)
    BY <1>1, <2>0, FiniteImage
  <2>2. S = A \cup B
    OBVIOUS
  <2> HIDE DEF A, B, S
  <2>3. IsFiniteSet(A \cup B)
    BY <2>1, FS_Union
  <2> QED
    BY <2>2, <2>3
<1> HIDE DEF S
<1>6. Max(S) \in S
  <2>1. S \in SUBSET Int
    BY <1>2
  <2> QED
    BY <1>2, <1>5, <2>1, MaxOf
<1> QED
  BY <1>2, <1>4, <1>6

(* No more than all of a population moves. *)
LEMMA RateTyped ==
  ASSUME WholeInv, NEW i \in DOMAIN Links
  PROVE  MigrationRate(Links[i]) \in 0 .. Scale
<1> DEFINE k == Links[i]
           here == ClassWage(k.origin, k.class)
           there == ClassWage(k.destination, k.class)
           base == Larger(Cent, here)
           pull == IF there > here THEN Over(there - here, base) ELSE 0
           class == <<k.origin, k.class>>
           a == Times(day.short[class], k.hunger)
           b == Times(pull, k.wage)
           c == Delta("migration_push", k.origin)
           pressure == a + b + c - k.friction
<1>1. k.hunger \in Nat /\ k.wage \in Nat /\ k.friction \in Nat /\ k.max \in 0 .. Scale
  BY ScenarioAssumption DEF ScenarioAccepted, ValidLink, Fraction
<1>2. day.short[class] \in Int
  <2>1. class \in DOMAIN people
    BY DEF WholeInv, Typed, Peopled
  <2>2. day.short \in [DOMAIN people -> Int]
    BY DEF WholeInv, Typed, Todays
  <2> QED
    BY <2>1, <2>2
<1>3. here \in Nat /\ there \in Nat
  BY ClassWageTyped
<1>4. MigrationRate(k) = Between(0, pressure, k.max)
  BY DEF MigrationRate
<1>5. c \in Int
  BY DeltaTyped, MarketOfInv
<1> HIDE DEF k, here, there, class, c
<1>6. base \in Nat \ {0}
  BY <1>3, Finite DEF Larger
<1> HIDE DEF base
<1>7. pull \in Int
  <2>1. there - here \in Int
    BY <1>3
  <2>2. Over(there - here, base) \in Int
    BY <1>6, <2>1, OverType
  <2> QED
    BY <2>2
<1> HIDE DEF pull
<1>8. a \in Int /\ b \in Int
  <2>1. k.hunger \in Int /\ k.wage \in Int
    BY <1>1
  <2> QED
    BY <1>2, <1>7, <2>1, TimesType
<1> HIDE DEF a, b
<1>9. pressure \in Int
  BY <1>1, <1>5, <1>8
<1> HIDE DEF pressure
<1>10. Between(0, pressure, k.max) \in 0 .. Scale
  BY <1>1, <1>9, ScaleAssumption DEF Between, Larger, Lesser
<1> QED
  BY <1>4, <1>10 DEF k

(* Those who move take no goods and no money along (Migrate). *)
LEMMA MigrateTrades == ASSUME WholeInv, Migrate PROVE Trades
<1> DEFINE k == Links[Item]
           from == <<k.origin, k.class>>
           to == <<k.destination, k.class>>
           source == <<k.origin, k.occupation>>
           target == <<k.destination, k.occupation>>
           rate == MigrationRate(k)
           migrants == Times(people[from], rate)
           share == Over(migrants, people[from])
           moving == Times(labor[source].workers, share)
           staying == labor[source].workers - moving
           left == Lesser(Times(labor[source].employed, Scale - share), staying * Days)
           moved == [[people EXCEPT ![from] = @ - migrants] EXCEPT ![to] = @ + migrants]
           worked == [[labor EXCEPT ![source].workers = staying, ![source].employed =
                         Lesser(Times(@, Scale - share), staying * Days)]
                         EXCEPT ![target].workers = @ + moving]
<1>1. Item \in DOMAIN Links
  BY ItemOf DEF Migrate
<1>2. from \in DOMAIN people /\ to \in DOMAIN people /\ people \in [DOMAIN people -> Nat]
  BY <1>1 DEF WholeInv, Typed, Peopled
<1>3. rate \in 0 .. Scale
  BY <1>1, RateTyped
<1>4. /\ IF migrants > 0
         THEN /\ people' = moved
              /\ labor' = IF {source, target} \subseteq DOMAIN Pools THEN worked ELSE labor
         ELSE UNCHANGED <<people, labor>>
      /\ NextStep /\ UNCHANGED <<market, books, loans, price, arrears, day>>
  BY DEF Migrate
<1> HIDE DEF k, from, to, rate, source, target
<1>5. people[from] \in Nat /\ migrants \in 0 .. people[from]
  <2>1. people[from] \in Nat
    BY <1>2
  <2> QED
    BY <1>3, <2>1, ShareOf
<1> HIDE DEF migrants
<1>6. moved \in [DOMAIN people -> Nat]
  <2>1. migrants \in Nat /\ people[from] - migrants \in Nat
    BY <1>5
  <2> DEFINE f == [people EXCEPT ![from] = @ - migrants]
  <2>3. f \in [DOMAIN people -> Nat]
    BY <1>2, <2>1
  <2>4. f[to] \in Nat /\ f[to] + migrants \in Nat
    <3> HIDE DEF f
    <3> QED
      BY <1>2, <2>1, <2>3
  <2>5. moved = [f EXCEPT ![to] = f[to] + migrants]
    OBVIOUS
  <2> HIDE DEF f, moved
  <2> QED
    BY <1>2, <2>3, <2>4, <2>5
<1>7. ASSUME migrants > 0, {source, target} \subseteq DOMAIN Pools
      PROVE  worked \in Workers
  <2>1. people[from] \in Nat \ {0}
    BY <1>5, <1>7
  <2>2. share \in 0 .. Scale
    <3>1. migrants * Scale \in Int /\ migrants * Scale >= 0 /\ migrants * Scale <= people[from] * Scale
      <4>1. Scale * migrants <= Scale * people[from]
        BY <1>5, ProductOrder, ScaleAssumption
      <4> QED
        BY <1>5, <4>1, ScaleAssumption
    <3>2. HalfEven(migrants * Scale, people[from]) \in Nat
      BY <2>1, <3>1, HalfEvenAbove
    <3>3. HalfEven(migrants * Scale, people[from]) <= Scale
      BY <2>1, <3>1, HalfEvenBelow, ScaleAssumption
    <3> QED
      BY <3>2, <3>3, ScaleAssumption DEF Over
  <2> HIDE DEF share
  <2>3. /\ labor \in Workers /\ source \in DOMAIN Pools /\ target \in DOMAIN Pools
        /\ labor[source].workers \in Nat /\ labor[source].employed \in Int
    BY <1>7, LaborTyped
  <2>4. moving \in 0 .. labor[source].workers
    BY <2>2, <2>3, ShareOf
  <2> HIDE DEF moving
  <2>5. staying \in Nat /\ moving \in Nat
    BY <2>3, <2>4
  <2> HIDE DEF staying
  <2>6. left \in Int
    <3>1. Times(labor[source].employed, Scale - share) \in Int
      <4>1. Scale - share \in Int
        BY <2>2, ScaleAssumption
      <4> QED
        BY <2>3, <4>1, TimesType
    <3>2. staying * Days \in Int
      BY <2>5, WholeAssumption
    <3> QED
      BY <3>1, <3>2 DEF Lesser
  <2> HIDE DEF left
  <2> DEFINE f == [labor EXCEPT ![source].workers = staying, ![source].employed = left]
  <2>7. f \in Workers
    BY <2>3, <2>5, <2>6 DEF Workers
  <2>8. worked = [f EXCEPT ![target].workers = @ + moving]
    BY DEF left
  <2> HIDE DEF f, worked
  <2>9. f[target].workers + moving \in Nat
    BY <2>3, <2>5, <2>7 DEF Workers
  <2> QED
    BY <2>3, <2>7, <2>8, <2>9 DEF Workers
<1> HIDE DEF moved, worked
<1>8. people' \in [DOMAIN people -> Nat] /\ DOMAIN people' = DOMAIN people
  BY <1>2, <1>4, <1>6
<1>9. labor' \in Workers
  BY <1>4, <1>7, LaborTyped
<1>10. UNCHANGED <<month, market, books, loans, price, day>>
  BY <1>4 DEF NextStep
<1>11. Typed'
  BY <1>8, <1>9, <1>10 DEF Typed, WholeInv, Lent
<1> QED
  BY <1>10, <1>11, MarketOfInv DEF Trades
-----------------------------------------------------------------------------
Levies == Seq([to : Entities, amount : Whole])

(* A harvest's worth is a whole number. *)
LEMMA HarvestTyped ==
  ASSUME WholeInv, NEW tenant, NEW site \in Sites
  PROVE  Harvest(tenant, site) \in Int
<1> DEFINE S == {i \in DOMAIN Recipes : Recipes[i].farming /\ Recipes[i].entity = tenant
                                        /\ Recipes[i].site = site}
           Worth(i) == [g \in DOMAIN Recipes[i].outputs |->
                          Times(Times(Recipes[i].outputs[g], day.batches[i]), price[<<site, g>>])]
           F == [i \in S |-> Sum(Worth(i), DOMAIN Recipes[i].outputs)]
<1>1. Listed(Recipes) /\ \A i \in DOMAIN Recipes : Partial(Recipes[i].outputs, Goods)
  BY ScenarioAssumption DEF ScenarioAccepted, ValidRecipe
<1>2. \E n \in Nat : DOMAIN Recipes = 1 .. n
  BY <1>1, ListOf, Zenon DEF Listed
<1>3. IsFiniteSet(S)
  <2>1. IsFiniteSet(DOMAIN Recipes)
    BY <1>2, FS_Interval
  <2> QED
    BY <2>1, FS_Subset
<1>4. ASSUME NEW i \in S PROVE F[i] \in Int
  <2> DEFINE T == DOMAIN Recipes[i].outputs
             G == Worth(i)
  <2>1. T \subseteq Goods /\ Recipes[i].outputs \in [T -> Nat]
    BY <1>1 DEF Partial
  <2>2. IsFiniteSet(T)
    BY <2>1, ScenarioSets, FS_Subset
  <2>3. day.batches[i] \in Int
    BY DEF WholeInv, Typed, Todays
  <2>4. \A g \in T : G[g] \in Int
    <3> TAKE g \in T
    <3> DEFINE x == Recipes[i].outputs[g]
               y == day.batches[i]
               z == price[<<site, g>>]
    <3>1. x \in Int /\ y \in Int /\ z \in Int
      <4>1. <<site, g>> \in Places
        BY <2>1 DEF Places
      <4> QED
        BY <2>1, <2>3, <4>1, MarketOfInv
    <3>2. G[g] = Times(Times(x, y), z)
      OBVIOUS
    <3> HIDE DEF x, y, z
    <3>3. Times(x, y) \in Int
      BY <3>1, TimesType
    <3> QED
      BY <3>1, <3>2, <3>3, TimesType
  <2>5. F[i] = Sum(G, T)
    OBVIOUS
  <2> HIDE DEF G, T, F
  <2> QED
    BY <2>2, <2>4, <2>5, SumType
<1>5. Harvest(tenant, site) = Sum(F, S)
  BY DEF Harvest
<1> HIDE DEF F, S
<1> QED
  BY <1>3, <1>4, <1>5, SumType

(* An accepted tenure's people, site and terms. *)
LEMMA TenuresKnown ==
  /\ IsFiniteSet(DOMAIN Tenures)
  /\ \A i \in DOMAIN Tenures :
       LET t == Tenures[i]
       IN /\ t.site \in Sites /\ t.tenant \in Entities /\ t.landlord \in Entities
          /\ t.church \in Entities /\ t.treasury \in Entities
          /\ t.acres \in Nat /\ t.rent \in Nat
          /\ t.due \in 0 .. Scale /\ t.tithe \in 0 .. Scale /\ t.tax \in 0 .. Scale
<1>1. Listed(Tenures) /\ \A i \in DOMAIN Tenures : ValidTenure(Tenures[i])
  BY ScenarioAssumption DEF ScenarioAccepted
<1>2. \E n \in Nat : DOMAIN Tenures = 1 .. n
  BY <1>1, ListOf, Zenon DEF Listed
<1>3. IsFiniteSet(DOMAIN Tenures)
  BY <1>2, FS_Interval
<1> QED
  BY <1>1, <1>3 DEF ValidTenure, Fraction

(* What a tenant is charged is in whole cents. *)
LEMMA ChargesTyped ==
  ASSUME WholeInv, NEW i \in DOMAIN Tenures
  PROVE  Charges(Tenures[i]) \in Levies
<1> DEFINE t == Tenures[i]
           T == [to : Entities, amount : Whole]
           all == Acres(t.tenant, t.site)
           gross == IF all = 0 THEN 0 ELSE HalfEven(Harvest(t.tenant, t.site) * t.acres, all)
           delta == Delta("tax_rate_delta", t.site)
           tax == Between(0, t.tax + delta, Scale)
           a == Cents(Times(t.acres, t.rent))
           b == Cents(Times(gross, t.due))
           c == Cents(Times(gross, t.tithe))
           d == Cents(Times(gross, tax))
<1>1. /\ t.site \in Sites /\ t.tenant \in Entities /\ t.landlord \in Entities
      /\ t.church \in Entities /\ t.treasury \in Entities
      /\ t.acres \in Nat /\ t.rent \in Nat
      /\ t.due \in Int /\ t.tithe \in Int /\ t.tax \in Int
  BY TenuresKnown
<1>2. all \in Nat
  <2> DEFINE S == {j \in DOMAIN Tenures : Tenures[j].tenant = t.tenant /\ Tenures[j].site = t.site}
             F == [j \in DOMAIN Tenures |-> Tenures[j].acres]
  <2>1. IsFiniteSet(S) /\ \A j \in S : F[j] \in Nat
    BY TenuresKnown, FS_Subset
  <2>2. all = Sum(F, S)
    BY DEF Acres
  <2> HIDE DEF F, S, all
  <2> QED
    BY <2>1, <2>2, SumNat
<1>3. Charges(t) = <<Due(t.landlord, a), Due(t.landlord, b), Due(t.church, c), Due(t.treasury, d)>>
  BY DEF Charges
<1>4. delta \in Int
  BY DeltaTyped, MarketOfInv
<1> HIDE DEF all, delta
<1>5. gross \in Int
  <2>1. Harvest(t.tenant, t.site) \in Int
    BY <1>1, HarvestTyped
  <2>2. Harvest(t.tenant, t.site) * t.acres \in Int
    BY <1>1, <2>1
  <2>3. all # 0 => HalfEven(Harvest(t.tenant, t.site) * t.acres, all) \in Int
    BY <1>2, <2>2, HalfEvenType
  <2> QED
    BY <2>3
<1> HIDE DEF gross, t
<1>6. tax \in Int
  BY <1>1, <1>4, ScaleAssumption DEF Between, Larger, Lesser
<1> HIDE DEF tax
<1>7. a \in Whole /\ b \in Whole /\ c \in Whole /\ d \in Whole
  <2>1. /\ Times(t.acres, t.rent) \in Int /\ Times(gross, t.due) \in Int
        /\ Times(gross, t.tithe) \in Int /\ Times(gross, tax) \in Int
    <3>1. t.acres \in Int /\ t.rent \in Int
      BY <1>1
    <3> QED
      BY <1>1, <1>5, <1>6, <3>1, TimesType
  <2> QED
    BY <2>1, WholeSums
<1> HIDE DEF a, b, c, d
<1>8. Due(t.landlord, a) \in T /\ Due(t.landlord, b) \in T /\ Due(t.church, c) \in T /\ Due(t.treasury, d) \in T
  BY <1>1, <1>7 DEF Due
<1> HIDE DEF T
<1>9. \A w, x, y, z \in T : <<w, x, y, z>> \in Seq(T)
  OBVIOUS
<1> QED
  BY <1>3, <1>8, <1>9 DEF Levies, T, t

(* Collecting from a tenant moves money only, and what it cannot pay is kept *)
(* as arrears (CollectObligations).                                          *)
LEMMA CollectTrades == ASSUME WholeInv, CollectObligations PROVE Trades
<1> DEFINE t == Tenures[Item]
           seq == Charges(t)
           n == Len(seq)
           X == [money : Onwards(market.money), owed : Int]
           Levy(acc, e) == Collect(acc, t.tenant, e.to, e.amount)
           base == [money |-> market.money, owed |-> 0]
           folded == FoldLeft(Levy, base, seq)
<1>1. Item \in DOMAIN Tenures
  BY ItemOf DEF CollectObligations
<1>2. t.tenant \in Entities /\ seq \in Levies
  BY <1>1, ChargesTyped, TenuresKnown
<1>3. market' = [market EXCEPT !.money = folded.money]
  BY DEF CollectObligations
<1>4. NextStep /\ UNCHANGED <<books, loans, price, labor, people, day>>
  BY DEF CollectObligations
<1> HIDE DEF t, seq
<1>5. n \in Nat /\ DOMAIN seq = 1 .. n
      /\ \A i \in 1 .. n : seq[i].to \in Entities /\ seq[i].amount \in Whole
  <2>1. n \in Nat /\ DOMAIN seq = 1 .. n /\ \A i \in 1 .. n : seq[i] \in [to : Entities, amount : Whole]
    BY <1>2, ListOf, Zenon DEF Levies
  <2> HIDE DEF n
  <2> QED
    BY <2>1
<1>6. base \in X
  BY MarketOfInv, OnwardsSelf
<1>7. ASSUME NEW acc \in X, NEW i \in 1 .. n PROVE Levy(acc, seq[i]) \in X
  <2> DEFINE to == seq[i].to
             amount == seq[i].amount
             m == acc.money
  <2>1. m \in SoundMoney /\ m \in Onwards(market.money) /\ acc.owed \in Int
    BY DEF Onwards
  <2>2. to \in Entities /\ amount \in Whole /\ amount \in Int
    BY <1>5, WholeSums
  <2> HIDE DEF m, to, amount
  <2>3. /\ Transfer(m, t.tenant, to, amount) \in Onwards(m)
        /\ Transferred(m, t.tenant, to, amount) \in Int
    BY <1>2, <2>1, <2>2, TransferKeeps
  <2>4. Transfer(m, t.tenant, to, amount) \in Onwards(market.money)
    BY <2>1, <2>3, OnwardsOn
  <2> DEFINE next == [money |-> Transfer(m, t.tenant, to, amount),
                      owed |-> acc.owed + amount - Transferred(m, t.tenant, to, amount)]
  <2>5. next \in X
    BY <2>1, <2>2, <2>3, <2>4
  <2>6. Levy(acc, seq[i]) = next
    BY DEF Collect, to, amount, m
  <2> HIDE DEF next, X
  <2> QED
    BY <2>5, <2>6
<1> HIDE DEF n, X, base
<1>8. FoldLeft(Levy, base, seq) \in X
  <2> DEFINE F == [p \in X \X (1 .. n) |-> Levy(p[1], seq[p[2]])]
             Is(h) == h = [s \in SUBSET (1 .. n) |->
                             IF s = {} THEN base ELSE Levy(h[s \ {Max(s)}], seq[Max(s)])]
             g == CHOOSE h : Is(h)
  <2>1. FoldLeft(Levy, base, seq) = g[1 .. n]
    BY <1>5 DEF FoldLeft, MapThenFoldSet
  <2> HIDE DEF Levy
  <2>2. n \in Nat /\ base \in X
    BY <1>5, <1>6
  <2>3. F \in [X \X (1 .. n) -> X]
    BY <1>7
  <2>4. \A acc \in X : \A i \in 1 .. n : F[<<acc, i>>] = Levy(acc, seq[i])
    OBVIOUS
  <2>5. \A s \in SUBSET (1 .. n) : s # {} => Max(s) \in 1 .. n
    BY <2>2, LastPosition
  <2> HIDE DEF F
  <2>6. PICK h \in [SUBSET (1 .. n) -> X] : RunsUp(h, n, F, base)
    BY <2>2, <2>3, FoldRunsUp
  <2>7. Is(h)
    BY <2>4, <2>5, <2>6 DEF RunsUp
  <2>8. Is(g)
    BY <2>7
  <2> HIDE DEF g
  <2>9. Follows(g, n, X, F, base)
    BY <2>4, <2>5, <2>8 DEF Follows
  <2>10. g[1 .. n] \in X
    BY <2>2, <2>3, <2>9, FoldStays
  <2> QED
    BY <2>1, <2>10
<1>9. folded \in X
  BY <1>8
<1> HIDE DEF folded
<1>10. folded.money \in Onwards(market.money)
  BY <1>9 DEF X
<1>11. market' \in Traded(market, month)
  BY <1>3, <1>10, PaidTraded, MarketOfInv
<1>12. Typed'
  BY <1>4 DEF WholeInv, Typed, NextStep, Lent
<1> QED
  BY <1>4, <1>11, <1>12 DEF Trades, NextStep

\* The step keeps the invariant, and the coins.
Safe == WholeInv' /\ Coins' = Coins

(* A trade keeps the invariant and the coins. *)
LEMMA TradesSafe == ASSUME WholeInv, Trades PROVE Safe
<1>1. market' \in Reworked(market, month)
  BY TradedReworked DEF Trades
<1> QED
  BY <1>1, StillSafe DEF Trades, Safe
-----------------------------------------------------------------------------
\* Money, once n has been lent to e by its bank b.
Lending(m, k, e, b, n) == k = [m EXCEPT !.deposit[e] = @ + n, !.liability[b] = @ + n]

(* A loan's deposit is made, and owed by its bank: no coin moves. *)
LEMMA LentMoney ==
  ASSUME NEW m \in SoundMoney, NEW e \in Entities, NEW b \in Banks, BankOf[e] = b, NEW n \in Nat, NEW k,
         Lending(m, k, e, b, n)
  PROVE  /\ k \in SoundMoney /\ CoinsOf(k) = CoinsOf(m)
         /\ \A c \in Banks : Net(k, c) = Net(m, c) - At(c, b, n)
<1>0. m = [cash |-> m.cash, deposit |-> m.deposit, reserves |-> m.reserves, liability |-> m.liability]
  BY DEF SoundMoney, Moneys
<1>1. /\ m \in Moneys /\ m.cash \in [Entities -> Nat] /\ m.deposit \in [Entities -> Nat]
      /\ m.reserves \in [Banks -> Nat] /\ m.liability \in [Banks -> Int]
  BY DEF SoundMoney, Moneys
<1> DEFINE dep == [m.deposit EXCEPT ![e] = @ + n]
           lia == [m.liability EXCEPT ![b] = @ + n]
<1>2. k = [cash |-> m.cash, deposit |-> dep, reserves |-> m.reserves, liability |-> lia]
  BY <1>0 DEF Lending
<1>3. dep \in [Entities -> Nat] /\ lia \in [Banks -> Int]
  BY <1>1
<1>4. /\ dep[e] = m.deposit[e] + n /\ \A x \in Entities : x # e => dep[x] = m.deposit[x]
      /\ \A c \in Banks : lia[c] = m.liability[c] + At(c, b, n)
  BY <1>1 DEF At
<1> HIDE DEF dep, lia
<1>5. /\ k \in Moneys /\ k.cash = m.cash /\ k.deposit = dep /\ k.reserves = m.reserves
      /\ k.liability = lia
  <2>1. [cash |-> m.cash, deposit |-> dep, reserves |-> m.reserves, liability |-> lia] \in Moneys
    BY <1>1, <1>3 DEF Moneys
  <2>2. k \in Moneys
    BY <1>2, <2>1, Zenon
  <2>3. /\ [cash |-> m.cash, deposit |-> dep, reserves |-> m.reserves, liability |-> lia].cash = m.cash
        /\ [cash |-> m.cash, deposit |-> dep, reserves |-> m.reserves, liability |-> lia].deposit = dep
        /\ [cash |-> m.cash, deposit |-> dep, reserves |-> m.reserves, liability |-> lia].reserves = m.reserves
        /\ [cash |-> m.cash, deposit |-> dep, reserves |-> m.reserves, liability |-> lia].liability = lia
    OBVIOUS
  <2> QED
    BY <1>2, <2>2, <2>3, Zenon
<1>6. ASSUME NEW c \in Banks PROVE k.liability[c] = DepositsAt(k, c)
  <2>1. DepositsAt(k, c) = DepositsAt(m, c) + (IF BankOf[e] = c THEN k.deposit[e] - m.deposit[e] ELSE 0)
        /\ DepositsAt(m, c) \in Int
    <3>1. \A x \in Entities : x # e => k.deposit[x] = m.deposit[x]
      BY <1>4, <1>5
    <3>2. k \in Moneys /\ m \in Moneys
      BY <1>1, <1>5
    <3> QED
      BY <3>1, <3>2, DepositsChange
  <2>2. m.liability[c] = DepositsAt(m, c) /\ m.deposit[e] \in Int
    BY <1>1 DEF SoundMoney
  <2>3. k.liability[c] = m.liability[c] + At(c, b, n) /\ k.deposit[e] = m.deposit[e] + n
    BY <1>4, <1>5
  <2> QED
    BY <2>1, <2>2, <2>3 DEF At
<1>7. \A x \in Entities : BankOf[x] = None => k.deposit[x] = 0
  BY <1>4, <1>5, Finite DEF SoundMoney
<1>8. k \in SoundMoney
  BY <1>5, <1>6, <1>7 DEF SoundMoney
<1>9. \A c \in Banks : Net(k, c) = Net(m, c) - At(c, b, n)
  <2> TAKE c \in Banks
  <2>1. m.reserves[c] \in Int /\ m.liability[c] \in Int /\ At(c, b, n) \in Int
    BY <1>1 DEF At
  <2>2. k.liability[c] = m.liability[c] + At(c, b, n) /\ k.reserves[c] = m.reserves[c]
    BY <1>4, <1>5
  <2> QED
    BY <2>1, <2>2 DEF Net
<1> QED
  BY <1>5, <1>8, <1>9 DEF CoinsOf

(* A new loan adds what is owed on it to what its bank is owed. *)
LEMMA LoanAdded ==
  ASSUME NEW lns, IsFiniteSet(DOMAIN lns), lns \in [DOMAIN lns -> LoanRecords],
         NEW id, id \notin DOMAIN lns, NEW new \in LoanRecords, Owing(new), NEW k,
         k = [l \in DOMAIN lns \cup {id} |-> IF l = id THEN new ELSE lns[l]], NEW b
  PROVE  /\ PrincipalOf(k, b) = PrincipalOf(lns, b) + At(new.bank, b, new.principal)
         /\ InterestOf(k, b) = InterestOf(lns, b) + At(new.bank, b, new.interest)
         /\ IsFiniteSet(DOMAIN k) /\ k \in [DOMAIN k -> LoanRecords]
<1> DEFINE S == DOMAIN lns
           T == OwedTo(lns, b)
           U == OwedTo(k, b)
           F == [l \in DOMAIN lns |-> lns[l].principal]
           G == [l \in DOMAIN k |-> k[l].principal]
           P == [l \in DOMAIN lns |-> lns[l].interest]
           Q == [l \in DOMAIN k |-> k[l].interest]
<1>1. /\ DOMAIN k = S \cup {id} /\ k \in [S \cup {id} -> LoanRecords] /\ k[id] = new
      /\ \A l \in S : k[l] = lns[l]
  OBVIOUS
<1>2. IsFiniteSet(S \cup {id})
  BY FS_AddElement
<1>3. /\ T \subseteq S /\ IsFiniteSet(T) /\ id \notin T
      /\ \A l \in S : lns[l].principal \in Nat /\ lns[l].interest \in Nat
  BY LoansTyped DEF S
<1>4. new.principal \in Nat /\ new.interest \in Nat
  BY DEF LoanRecords
<1> HIDE DEF S
<1>5. U = IF new.bank = b THEN T \cup {id} ELSE T
  BY <1>1 DEF OwedTo, S
<1>6. /\ \A l \in T : F[l] \in Int /\ G[l] = F[l] /\ P[l] \in Int /\ Q[l] = P[l]
      /\ G[id] = new.principal /\ Q[id] = new.interest
  BY <1>1, <1>3, <1>4 DEF S
<1>7. PrincipalOf(lns, b) = Sum(F, T) /\ PrincipalOf(k, b) = Sum(G, U)
      /\ InterestOf(lns, b) = Sum(P, T) /\ InterestOf(k, b) = Sum(Q, U)
  BY DEF PrincipalOf, InterestOf
<1> HIDE DEF T, U, F, G, P, Q
<1>8. /\ Sum(G, T \cup {id}) = Sum(F, T) + new.principal /\ Sum(F, T) \in Int
      /\ Sum(Q, T \cup {id}) = Sum(P, T) + new.interest /\ Sum(P, T) \in Int
  <2>1. G[id] \in Int /\ Q[id] \in Int
    BY <1>4, <1>6
  <2>2. Sum(G, T \cup {id}) = Sum(F, T) + G[id] /\ Sum(F, T) \in Int
    BY <1>3, <1>6, <2>1, SumGrown
  <2>3. Sum(Q, T \cup {id}) = Sum(P, T) + Q[id] /\ Sum(P, T) \in Int
    BY <1>3, <1>6, <2>1, SumGrown
  <2> QED
    BY <1>6, <2>2, <2>3
<1>9. Sum(G, T) = Sum(F, T) /\ Sum(Q, T) = Sum(P, T)
  <2>1. (\A l \in T : G[l] = F[l]) /\ (\A l \in T : Q[l] = P[l])
    BY <1>6
  <2> QED
    BY <1>3, <2>1, SumEqual
<1>10. PrincipalOf(k, b) = PrincipalOf(lns, b) + At(new.bank, b, new.principal)
  BY <1>4, <1>5, <1>7, <1>8, <1>9 DEF At
<1>11. InterestOf(k, b) = InterestOf(lns, b) + At(new.bank, b, new.interest)
  BY <1>4, <1>5, <1>7, <1>8, <1>9 DEF At
<1> QED
  BY <1>1, <1>2, <1>10, <1>11

(* An accepted request's bank, people and terms. *)
LEMMA RequestsKnown ==
  \A i \in DOMAIN Requests :
    LET r == Requests[i]
    IN /\ r.bank \in Banks /\ r.borrower \in Entities /\ r.owner \in Entities /\ r.place \in Places
       /\ r.amount \in Nat /\ r.pledge \in Nat /\ r.rate \in Fraction /\ r.haircut \in Fraction
       /\ r.term \in Nat \ {0} /\ r.limit \in Nat \ {0}
BY ScenarioAssumption DEF ScenarioAccepted, ValidRequest

(* A granted loan is one that is owed, for the amount requested. *)
LEMMA LoanMade ==
  ASSUME WholeInv, NEW i \in DOMAIN Requests
  PROVE  LET new == Loan(Requests[i])
         IN /\ new \in LoanRecords /\ Owing(new) /\ new.bank = Requests[i].bank
            /\ new.principal = Requests[i].amount /\ new.interest = 0
<1> DEFINE r == Requests[i]
           scheduled == HalfEven(r.amount, r.term)
<1>1. /\ r.bank \in Banks /\ r.borrower \in Entities /\ r.owner \in Entities /\ r.place \in Places
      /\ r.amount \in Nat /\ r.pledge \in Nat /\ r.rate \in Fraction /\ r.haircut \in Fraction
      /\ r.term \in Nat \ {0} /\ r.limit \in Nat \ {0} /\ r.term \in Nat
  BY RequestsKnown
<1> HIDE DEF r
<1>2. scheduled \in Nat
  BY <1>1, HalfEvenAbove
<1>3. month \in Nat
  BY MarketOfInv
<1>4. Loan(r) =
  [bank |-> r.bank, borrower |-> r.borrower, principal |-> r.amount, rate |-> r.rate,
   interest |-> 0, scheduled |-> scheduled, remaining |-> r.term,
   origin |-> month, missed |-> 0, limit |-> r.limit, status |-> "performing",
   owner |-> r.owner, place |-> r.place, pledge |-> r.pledge, haircut |-> r.haircut,
   released |-> FALSE]
  BY DEF Loan
<1> HIDE DEF scheduled
<1>5. Loan(r) \in LoanRecords
  <2>1. "performing" \in Statuses
    BY DEF Statuses
  <2> QED
    BY <1>1, <1>2, <1>3, <1>4, <2>1 DEF LoanRecords
<1> QED
  BY <1>4, <1>5 DEF Owing, r

(* Stock that is pledged stays where it is. *)
LEMMA StockPledged ==
  ASSUME NEW s \in Stocks, NEW row \in Rows, NEW n \in Nat, NEW t,
         t = [s EXCEPT ![row].pledged = @ + n]
  PROVE  /\ t \in Stocks
         /\ \A r \in Rows : /\ t[r].quantity = s[r].quantity /\ t[r].carrying = s[r].carrying
                            /\ t[r].pledged = s[r].pledged + At(r, row, n)
<1> DEFINE p == s[row].pledged + n
           new == [s[row] EXCEPT !.pledged = p]
<1>1. s[row] \in [quantity : Nat, pledged : Nat, carrying : Nat] /\ p \in Nat
      /\ \A r \in Rows : s[r].pledged \in Nat
  BY StockTyped
<1>2. t = [s EXCEPT ![row] = new]
  OBVIOUS
<1>3. /\ new \in [quantity : Nat, pledged : Nat, carrying : Nat]
      /\ new.quantity = s[row].quantity /\ new.carrying = s[row].carrying /\ new.pledged = p
  BY <1>1
<1> HIDE DEF new
<1>4. t \in Stocks /\ t[row] = new /\ \A r \in Rows : r # row => t[r] = s[r]
  BY <1>2, <1>3 DEF Stocks
<1> QED
  BY <1>1, <1>3, <1>4 DEF At

(* Quantities that stay are stored as they were. *)
LEMMA StoredSame ==
  ASSUME NEW s, NEW t, \A r \in Rows : t[r].quantity = s[r].quantity
  PROVE  \A g : Stored(t, g) = Stored(s, g)
<1>1. [row \in Rows |-> t[row].quantity] = [row \in Rows |-> s[row].quantity]
  OBVIOUS
<1> QED
  BY <1>1 DEF Stored

(* Stock at the same value is held at the same value. *)
LEMMA HeldSame ==
  ASSUME NEW s, NEW t, \A r \in Rows : t[r].carrying = s[r].carrying
  PROVE  \A b : Held(t, b) = Held(s, b)
<1>1. [row \in Rows |-> t[row].carrying] = [row \in Rows |-> s[row].carrying]
  OBVIOUS
<1> QED
  BY <1>1 DEF Held

(* A loan granted makes as much deposit as it is owed, and no coin           *)
(* (OriginateCredit).                                                        *)
LEMMA CreditSafe == ASSUME WholeInv, OriginateCredit PROVE Safe
<1> DEFINE r == Requests[Item]
           row == Pledge(r)
           money == [market.money EXCEPT !.deposit[r.borrower] = @ + r.amount,
                                         !.liability[r.bank] = @ + r.amount]
           stock == [market.stock EXCEPT ![row].pledged = @ + r.pledge]
           new == Loan(r)
           lns == [l \in DOMAIN loans \cup {r.loan} |-> IF l = r.loan THEN new ELSE loans[l]]
<1>1. Item \in DOMAIN Requests
  BY ItemOf DEF OriginateCredit
<1>2. /\ r.bank \in Banks /\ r.borrower \in Entities /\ r.amount \in Nat /\ r.pledge \in Nat
      /\ row \in Rows
  BY <1>1, RequestsKnown DEF Pledge, Places, Rows
<1>3. new \in LoanRecords /\ Owing(new) /\ new.bank = r.bank /\ new.principal = r.amount /\ new.interest = 0
  BY <1>1, LoanMade
<1>4. UNCHANGED <<month, books, price, labor, people, arrears, day>>
  BY DEF OriginateCredit, NextStep
<1>5. CASE UNCHANGED <<market, loans>>
  <2>1. Trades
    BY <1>4, <1>5, StaysTrades DEF account
  <2> QED
    BY <2>1, TradesSafe
<1>6. CASE /\ r.loan \notin DOMAIN loans /\ BankOf[r.borrower] = r.bank
           /\ market' = [market EXCEPT !.money.deposit[r.borrower] = @ + r.amount,
                             !.money.liability[r.bank] = @ + r.amount,
                             !.stock[Pledge(r)].pledged = @ + r.pledge]
           /\ loans' = lns
  <2>1. /\ market \in Markets /\ Shaped(market) /\ market.money \in SoundMoney /\ market.stock \in Stocks
        /\ IsFiniteSet(market.transit)
    BY MarketParts, MarketOfInv DEF Shaped
  <2>2. Shaped(market') /\ Others(market, market', {"money", "stock"})
        /\ market'.money = money /\ market'.stock = stock
    BY <1>6, <2>1 DEF Shaped, Others
  <2>3. /\ Lent /\ \A b \in Banks :
             Net(market.money, b) + PrincipalOf(loans, b) + books[b].interest + books[b].collateral
               = books[b].equity
    BY DEF WholeInv, Typed, Booked
  <2> HIDE DEF r, row, new
  <2>4. /\ money \in SoundMoney /\ CoinsOf(money) = CoinsOf(market.money)
        /\ \A c \in Banks : Net(money, c) = Net(market.money, c) - At(c, r.bank, r.amount)
    <3>1. /\ r.borrower \in Entities /\ r.bank \in Banks /\ BankOf[r.borrower] = r.bank /\ r.amount \in Nat
          /\ market.money \in SoundMoney
      BY <1>2, <1>6, <2>1
    <3>2. Lending(market.money, money, r.borrower, r.bank, r.amount)
      BY DEF Lending
    <3> HIDE DEF money
    <3> QED
      BY <3>1, <3>2, LentMoney
  <2>5. /\ stock \in Stocks
        /\ \A x \in Rows : stock[x].quantity = market.stock[x].quantity
        /\ \A x \in Rows : stock[x].carrying = market.stock[x].carrying
    BY <1>2, <2>1, StockPledged DEF stock
  <2>6. /\ \A b : /\ PrincipalOf(lns, b) = PrincipalOf(loans, b) + At(r.bank, b, r.amount)
                  /\ InterestOf(lns, b) = InterestOf(loans, b) + At(r.bank, b, 0)
        /\ IsFiniteSet(DOMAIN lns) /\ lns \in [DOMAIN lns -> LoanRecords]
    <3>1. ASSUME NEW b
          PROVE  /\ PrincipalOf(lns, b) = PrincipalOf(loans, b) + At(new.bank, b, new.principal)
                 /\ InterestOf(lns, b) = InterestOf(loans, b) + At(new.bank, b, new.interest)
                 /\ IsFiniteSet(DOMAIN lns) /\ lns \in [DOMAIN lns -> LoanRecords]
      BY <1>3, <1>6, <2>3, LoanAdded DEF Lent
    <3> HIDE DEF lns
    <3> QED
      BY <1>3, <3>1
  <2> HIDE DEF money, stock, lns
  <2>7. market' \in Markets
    BY <2>1, <2>2, <2>4, <2>5, MarketParts DEF Shaped, Others
  <2>8. Stocked(market', month', day'.opening)
    <3>1. Numbered(market', month')
      BY <1>4, <2>2 DEF Numbered, Others, WholeInv, Stocked
    <3>2. \A g \in Goods : Balance(market', g) = Balance(market, g)
      BY <2>2, <2>5, StoredSame, StoreParts DEF Balance, Others
    <3> QED
      BY <1>4, <2>7, <3>1, <3>2 DEF Stocked, WholeInv
  <2>9. Booked(market', books', loans')
    <3> SUFFICES ASSUME NEW b \in Banks
                 PROVE  /\ books[b].interest = InterestOf(lns, b)
                        /\ books[b].collateral = Held(stock, b)
                        /\ Net(money, b) + PrincipalOf(lns, b) + books[b].interest + books[b].collateral
                             = books[b].equity
      BY <1>4, <1>6, <2>2 DEF Booked
    <3>1. /\ books[b].interest = InterestOf(loans, b) /\ books[b].collateral = Held(market.stock, b)
          /\ InterestOf(loans, b) \in Int /\ PrincipalOf(loans, b) \in Int
          /\ books[b].interest \in Int /\ books[b].collateral \in Int /\ books[b].equity \in Int
      BY <2>3, LoansTyped DEF WholeInv, Booked, Typed, Books, Lent
    <3>2. Net(market.money, b) \in Int
      BY <2>1 DEF SoundMoney, Moneys, Net
    <3>3. Held(stock, b) = Held(market.stock, b)
      BY <2>5, HeldSame
    <3>4. At(r.bank, b, r.amount) = At(b, r.bank, r.amount) /\ At(r.bank, b, 0) = 0
          /\ At(b, r.bank, r.amount) \in Int
      BY <1>2 DEF At
    <3>5. /\ InterestOf(lns, b) = InterestOf(loans, b)
          /\ PrincipalOf(lns, b) = PrincipalOf(loans, b) + At(b, r.bank, r.amount)
          /\ Net(money, b) = Net(market.money, b) - At(b, r.bank, r.amount)
      BY <2>4, <2>6, <3>1, <3>4
    <3>6. Net(market.money, b) + PrincipalOf(loans, b) + books[b].interest + books[b].collateral
               = books[b].equity
      BY <2>3
    <3> QED
      BY <3>1, <3>2, <3>3, <3>4, <3>5, <3>6
  <2>10. Typed'
    <3>1. Lent'
      BY <1>6, <2>6 DEF Lent
    <3> QED
      BY <1>4, <3>1 DEF Typed, WholeInv
  <2> QED
    BY <2>2, <2>4, <2>8, <2>9, <2>10 DEF Safe, WholeInv, Coins, CoinsOf
<1> QED
  BY <1>5, <1>6 DEF OriginateCredit

(* What spoils was there, and is written off no further than it was carried. *)
LEMMA LostTyped ==
  ASSUME WholeInv, NEW row \in Rows
  PROVE  Lost(row) \in 0 .. market.stock[row].quantity
         /\ Impaired(row) \in 0 .. market.stock[row].carrying
<1> DEFINE s == market.stock[row]
           rate == Between(0, Spoilage[row[3]] + Delta("spoilage_rate_delta", row[2]), Scale - 1)
           lost == Times(s.quantity, rate)
           off == Rounded(s.carrying * lost, s.quantity, Cent)
<1>1. s.quantity \in Nat /\ s.carrying \in Nat
  BY MarketOfInv, StockTyped
<1>2. rate \in 0 .. Scale
  <2>1. Spoilage[row[3]] \in Nat
    <3>1. row[3] \in Goods
      BY DEF Rows
    <3> QED
      BY <3>1, ScenarioAssumption, ScaleAssumption DEF ScenarioAccepted, ValidGood, BelowOne
  <2>2. Delta("spoilage_rate_delta", row[2]) \in Int
    BY DeltaTyped, MarketOfInv
  <2> QED
    BY <2>1, <2>2, ScaleAssumption DEF Between, Larger, Lesser
<1>3. Lost(row) = lost
  BY DEF Lost
<1> HIDE DEF s, rate
<1>4. lost \in 0 .. s.quantity
  BY <1>1, <1>2, ShareOf
<1> HIDE DEF lost
<1>5. lost # 0 => off \in Nat
  <2> SUFFICES ASSUME lost # 0 PROVE off \in Nat
    OBVIOUS
  <2>1. lost \in Nat /\ s.quantity \in Nat \ {0} /\ Cent \in Nat \ {0}
    BY <1>1, <1>4, Finite
  <2>2. s.carrying * lost \in Nat /\ s.quantity * Cent \in Nat \ {0}
    BY <1>1, <2>1
  <2>3. HalfEven(s.carrying * lost, s.quantity * Cent) \in Nat
    BY <2>2, HalfEvenAbove
  <2> QED
    BY <2>1, <2>3 DEF Rounded
<1> HIDE DEF off
<1>6. Impaired(row) = IF row[1] \notin Banks \/ lost = 0 THEN 0
                      ELSE IF lost = s.quantity THEN s.carrying ELSE Lesser(s.carrying, off)
  BY <1>3 DEF Impaired, s, off
<1>7. Impaired(row) \in 0 .. s.carrying
  BY <1>1, <1>5, <1>6 DEF Lesser
<1> QED
  BY <1>3, <1>4, <1>7 DEF s

(* What has spoilt and what is left make up what there was, in quantity and  *)
(* in value.                                                                 *)
LEMMA SpoiltTyped ==
  ASSUME WholeInv, NEW row \in Rows
  PROVE  /\ Spoilt(row) \in [quantity : Nat, pledged : Nat, carrying : Nat]
         /\ Spoilt(row).quantity + Lost(row) = market.stock[row].quantity
         /\ Spoilt(row).carrying + Impaired(row) = market.stock[row].carrying
         /\ Spoilt(row).quantity \in Int /\ Spoilt(row).carrying \in Int
<1> DEFINE s == market.stock[row]
           q == s.quantity - Lost(row)
           p == Lesser(s.pledged, q)
           c == s.carrying - Impaired(row)
<1>1. /\ s \in [quantity : Nat, pledged : Nat, carrying : Nat]
      /\ s.quantity \in Nat /\ s.pledged \in Nat /\ s.carrying \in Nat
  BY MarketOfInv, StockTyped
<1>2. Lost(row) \in 0 .. s.quantity /\ Impaired(row) \in 0 .. s.carrying
  BY LostTyped
<1>3. Lost(row) = 0 => Impaired(row) = 0
  BY DEF Impaired
<1> HIDE DEF s
<1>4. q \in Nat /\ p \in Nat /\ c \in Nat /\ q + Lost(row) = s.quantity /\ c + Impaired(row) = s.carrying
  BY <1>1, <1>2 DEF Lesser
<1>5. Spoilt(row) = IF Lost(row) = 0 THEN s ELSE [quantity |-> q, pledged |-> p, carrying |-> c]
  BY DEF Spoilt, s
<1>6. CASE Lost(row) = 0
  <2>1. Spoilt(row) = s
    BY <1>5, <1>6
  <2> QED
    BY <1>1, <1>3, <1>6, <2>1 DEF s
<1>7. CASE Lost(row) # 0
  <2> HIDE DEF q, p, c
  <2>1. Spoilt(row) = [quantity |-> q, pledged |-> p, carrying |-> c]
    BY <1>5, <1>7
  <2> QED
    BY <1>4, <2>1 DEF s
<1> QED
  BY <1>6, <1>7

(* What spoils is counted as gone, and written off where a bank held it      *)
(* (ApplyStorageSpoilage).                                                   *)
LEMMA SpoilageSafe == ASSUME WholeInv, ApplyStorageSpoilage PROVE Safe
<1> DEFINE stock == [row \in Rows |-> Spoilt(row)]
           F == [row \in Rows |-> Lost(row)]
           I == [row \in Rows |-> Impaired(row)]
           Of(g) == {row \in Rows : row[3] = g}
           In(b) == {row \in Rows : row[1] = b}
           gone == [g \in Goods |-> market.gone[g] + Sum(F, Of(g))]
           bks == [b \in Banks |-> [books[b] EXCEPT !.collateral = @ - Sum(I, In(b)),
                                                    !.equity = @ - Sum(I, In(b))]]
<1>1. /\ market' = [market EXCEPT !.stock = stock, !.gone = gone] /\ books' = bks
      /\ NextStep /\ UNCHANGED <<loans, price, labor, people, arrears, day>>
  BY DEF ApplyStorageSpoilage
<1>2. /\ market \in Markets /\ Shaped(market) /\ market.stock \in Stocks /\ market.gone \in [Goods -> Int]
      /\ market.money \in SoundMoney /\ IsFiniteSet(market.transit)
  BY MarketParts, MarketOfInv DEF Shaped
<1>3. Shaped(market') /\ Others(market, market', {"stock", "gone"}) /\ market'.stock = stock /\ market'.gone = gone
  BY <1>1, <1>2 DEF Shaped, Others
<1>4. \A row \in Rows : /\ F[row] \in Int /\ I[row] \in Int
                        /\ stock[row].quantity + F[row] = market.stock[row].quantity
                        /\ stock[row].carrying + I[row] = market.stock[row].carrying
                        /\ stock[row].quantity \in Int /\ stock[row].carrying \in Int
  BY LostTyped, SpoiltTyped
<1>5. stock \in Stocks
  BY SpoiltTyped DEF Stocks
<1>6. \A g : IsFiniteSet(Of(g)) /\ Of(g) = RowsOf(g) /\ Of(g) \subseteq Rows
  BY ScenarioSets DEF RowsOf
<1>7. \A b : IsFiniteSet(In(b)) /\ In(b) \subseteq Rows
  BY ScenarioSets, FS_Subset
<1>8. \A g \in Goods : gone[g] = market.gone[g] + Sum(F, Of(g)) /\ market.gone[g] \in Int
  BY <1>2
<1>9. \A b \in Banks : /\ books[b] \in [interest : Int, collateral : Int, equity : Int]
                       /\ books[b].interest \in Int /\ books[b].collateral \in Int /\ books[b].equity \in Int
  BY DEF WholeInv, Typed, Books
<1>10. UNCHANGED <<month, loans, price, labor, people, day>>
  BY <1>1 DEF NextStep
<1> HIDE DEF stock, F, I, Of
<1>11. ASSUME NEW g
       PROVE Stored(market.stock, g) = Stored(stock, g) + Sum(F, Of(g))
             /\ Sum(F, Of(g)) \in Int /\ Stored(stock, g) \in Int
  <2> DEFINE A == [row \in Rows |-> market.stock[row].quantity]
             B == [row \in Rows |-> stock[row].quantity]
  <2>1. \A row \in Of(g) : B[row] \in Int /\ F[row] \in Int /\ A[row] = B[row] + F[row]
    <3> TAKE row \in Of(g)
    <3>1. row \in Rows
      BY <1>6
    <3> QED
      BY <1>4, <3>1
  <2>2. Stored(market.stock, g) = Sum(A, Of(g)) /\ Stored(stock, g) = Sum(B, Of(g))
    BY <1>6 DEF Stored
  <2> HIDE DEF A, B
  <2>3. IsFiniteSet(Of(g))
    BY <1>6
  <2> DEFINE S == Of(g)
  <2> HIDE DEF S
  <2>4. Sum(F, S) \in Int /\ Sum(B, S) \in Int
    BY <2>1, <2>3, SumType DEF S
  <2>5. Sum(A, S) = Sum(B, S) + Sum(F, S)
    BY <2>1, <2>3, SumPlus DEF S
  <2> QED
    BY <2>2, <2>4, <2>5 DEF S
<1>12. ASSUME NEW b
       PROVE Held(market.stock, b) = Held(stock, b) + Sum(I, In(b))
             /\ Sum(I, In(b)) \in Int /\ Held(stock, b) \in Int
  <2> DEFINE A == [row \in Rows |-> market.stock[row].carrying]
             B == [row \in Rows |-> stock[row].carrying]
  <2>1. \A row \in In(b) : B[row] \in Int /\ I[row] \in Int /\ A[row] = B[row] + I[row]
    <3> TAKE row \in In(b)
    <3>1. row \in Rows
      BY <1>7
    <3> QED
      BY <1>4, <3>1
  <2>2. Held(market.stock, b) = Sum(A, In(b)) /\ Held(stock, b) = Sum(B, In(b))
    BY DEF Held
  <2> HIDE DEF A, B, In
  <2>3. Sum(I, In(b)) \in Int /\ Sum(B, In(b)) \in Int
    BY <1>7, <2>1, SumType
  <2> QED
    BY <1>7, <2>1, <2>2, <2>3, SumPlus
<1>13. bks \in Books
       /\ \A b \in Banks : /\ bks[b].interest = books[b].interest
                           /\ bks[b].collateral = books[b].collateral - Sum(I, In(b))
                           /\ bks[b].equity = books[b].equity - Sum(I, In(b))
  <2> DEFINE W(b) == Sum(I, In(b))
  <2>1. \A b \in Banks : W(b) \in Int
    BY <1>12
  <2> HIDE DEF W
  <2>2. bks = [b \in Banks |-> [books[b] EXCEPT !.collateral = @ - W(b), !.equity = @ - W(b)]]
    BY DEF W
  <2> HIDE DEF bks
  <2>3. ASSUME NEW b \in Banks
        PROVE  /\ bks[b] \in [interest : Int, collateral : Int, equity : Int]
               /\ bks[b].interest = books[b].interest
               /\ bks[b].collateral = books[b].collateral - W(b)
               /\ bks[b].equity = books[b].equity - W(b)
    <3>1. bks[b] = [books[b] EXCEPT !.collateral = books[b].collateral - W(b), !.equity = books[b].equity - W(b)]
      BY <2>2
    <3>2. books[b].collateral - W(b) \in Int /\ books[b].equity - W(b) \in Int
      BY <1>9, <2>1
    <3> QED
      BY <1>9, <3>1, <3>2
  <2> QED
    BY <2>2, <2>3 DEF Books, W
<1>14. gone \in [Goods -> Int]
  BY <1>8, <1>11
<1> HIDE DEF gone, bks, In
<1>15. market' \in Markets
  BY <1>2, <1>3, <1>5, <1>14, MarketParts DEF Shaped, Others
<1>16. Stocked(market', month', day'.opening)
  <2>1. Numbered(market', month')
    BY <1>3, <1>10 DEF Numbered, Others, WholeInv, Stocked
  <2>2. ASSUME NEW g \in Goods PROVE Balance(market', g) = Balance(market, g)
    <3>1. /\ InStore(market, g) = Stored(market.stock, g) + Moving(market.transit, g)
          /\ InStore(market', g) = Stored(stock, g) + Moving(market.transit, g)
          /\ Moving(market.transit, g) \in Int
      BY <1>2, <1>3, StoreParts DEF Others
    <3> QED
      BY <1>3, <1>8, <1>11, <3>1 DEF Balance
  <2> QED
    BY <1>10, <1>15, <2>1, <2>2 DEF Stocked, WholeInv
<1>17. Booked(market', books', loans')
  <2> SUFFICES ASSUME NEW b \in Banks
               PROVE  /\ bks[b].interest = InterestOf(loans, b)
                      /\ bks[b].collateral = Held(stock, b)
                      /\ Net(market.money, b) + PrincipalOf(loans, b) + bks[b].interest + bks[b].collateral
                           = bks[b].equity
    BY <1>1, <1>3, <1>10 DEF Booked, Others
  <2>1. /\ books[b].interest = InterestOf(loans, b) /\ books[b].collateral = Held(market.stock, b)
        /\ Net(market.money, b) + PrincipalOf(loans, b) + books[b].interest + books[b].collateral
             = books[b].equity
    BY DEF WholeInv, Booked
  <2>2. PrincipalOf(loans, b) \in Int /\ Net(market.money, b) \in Int
    BY <1>2, LoansTyped DEF WholeInv, Typed, Lent, SoundMoney, Moneys, Net
  <2> QED
    BY <1>9, <1>12, <1>13, <2>1, <2>2
<1>18. Typed'
  BY <1>1, <1>10, <1>13 DEF Typed, WholeInv, Lent
<1> QED
  BY <1>3, <1>15, <1>16, <1>17, <1>18 DEF Safe, WholeInv, Coins, Others
-----------------------------------------------------------------------------
(* A month starts with nothing seen, used or made. *)
LEMMA NewDayTyped ==
  ASSUME NEW opening \in [Goods -> Int]
  PROVE  NewDay(opening) \in Todays(DOMAIN people) /\ NewDay(opening).opening = opening
BY DEF NewDay, Todays

(* The month that follows opens with what is there (CloseMonth). *)
LEMMA CloseSafe == ASSUME WholeInv, CloseMonth PROVE Safe
<1> DEFINE opening == [g \in Goods |-> InStore(market, g)]
<1>1. CASE \E why : Fail(why)
  BY <1>1, FailTrades, TradesSafe
<1>2. CASE /\ month' = month + 1 /\ market' = Fresh(market) /\ day' = NewDay(opening)
           /\ UNCHANGED account
  <2>1. /\ market \in Markets /\ Shaped(market) /\ market.money \in SoundMoney
        /\ market.transit \in SUBSET Lots /\ month \in Nat /\ IsFiniteSet(market.transit)
    BY MarketParts, MarketOfInv DEF Shaped
  <2> DEFINE gone == [g \in Goods |-> 0]
             carried == [r \in DOMAIN Routes |-> 0]
  <2>2. Shaped(market') /\ Others(market, market', {"gone", "carried", "trades"})
        /\ market'.gone = gone /\ market'.carried = carried /\ market'.trades = 0
    BY <1>2, <2>1 DEF Shaped, Others, Fresh
  <2>3. gone \in [Goods -> Int] /\ carried \in [DOMAIN Routes -> Int] /\ \A g \in Goods : gone[g] = 0
    OBVIOUS
  <2> HIDE DEF gone, carried
  <2>4. market' \in Markets
    BY <2>1, <2>2, <2>3, MarketParts DEF Shaped, Others
  <2>5. \A g \in Goods : InStore(market, g) \in Int
    BY <2>1, StoreParts
  <2>6. opening \in [Goods -> Int] /\ \A g \in Goods : opening[g] = InStore(market, g)
    BY <2>5
  <2> HIDE DEF opening
  <2>7. day' \in Todays(DOMAIN people) /\ day'.opening = opening
    BY <1>2, <2>6, NewDayTyped
  <2>8. Numbered(market', month')
    <3> SUFFICES ASSUME NEW l \in market.transit PROVE l.id[1] < month + 1
      BY <1>2, <2>2 DEF Numbered, Others
    <3>1. l.id \in Nat \X Nat
      BY <2>1 DEF Lots
    <3>2. l.id[1] < month \/ l.id[1] = month
      BY DEF WholeInv, Stocked, Numbered
    <3> QED
      BY <2>1, <3>1, <3>2
  <2>9. ASSUME NEW g \in Goods PROVE Balance(market', g) = opening[g]
    <3>1. InStore(market', g) = InStore(market, g)
      BY <2>2, StoreParts DEF Others
    <3> QED
      BY <2>2, <2>3, <2>5, <2>6, <3>1 DEF Balance
  <2>10. Stocked(market', month', day'.opening)
    BY <2>4, <2>7, <2>8, <2>9 DEF Stocked
  <2>11. Booked(market', books', loans')
    BY <1>2, <2>2 DEF Booked, Others, account, WholeInv
  <2>12. Typed'
    <3>1. month' \in Nat
      BY <1>2, <2>1
    <3> QED
      BY <1>2, <2>7, <3>1 DEF Typed, WholeInv, account, Lent
  <2> QED
    BY <2>2, <2>10, <2>11, <2>12 DEF Safe, WholeInv, Coins, Others
<1> QED
  BY <1>1, <1>2 DEF CloseMonth

(* The money of an accepted opening is sound. *)
LEMMA OpeningMoney ==
  ASSUME NEW w \in Openings
  PROVE  OpeningMarket(w).money \in SoundMoney
<1> DEFINE k == [cash |-> w.cash, deposit |-> w.deposit, reserves |-> w.reserves,
                 liability |-> [b \in Banks |-> 0]]
           lia == [b \in Banks |-> DepositsAt(k, b)]
           m == [cash |-> w.cash, deposit |-> w.deposit, reserves |-> w.reserves, liability |-> lia]
<1>1. /\ w.cash \in [Entities -> Nat] /\ w.deposit \in [Entities -> Nat] /\ w.reserves \in [Banks -> Nat]
      /\ \A e \in Entities : BankOf[e] = None => w.deposit[e] = 0
  BY ScenarioAssumption DEF OpeningAccepted, AmountsValid
<1>2. OpeningMarket(w).money = m
  BY DEF OpeningMarket
<1>3. \A b : DepositsAt(k, b) = Sum(w.deposit, Customers(b)) /\ DepositsAt(m, b) = Sum(w.deposit, Customers(b))
  BY DEF DepositsAt
<1>4. \A b : Sum(w.deposit, Customers(b)) \in Int
  <2> TAKE b
  <2>1. \A e \in Customers(b) : w.deposit[e] \in Int
    BY <1>1, Finite
  <2> QED
    BY <2>1, Finite, SumType
<1>5. lia \in [Banks -> Int] /\ \A b \in Banks : lia[b] = DepositsAt(m, b)
  <2> HIDE DEF k, m
  <2> QED
    BY <1>3, <1>4
<1> HIDE DEF lia
<1>6. m \in Moneys
  BY <1>1, <1>5 DEF Moneys
<1>7. m \in SoundMoney
  BY <1>1, <1>5, <1>6 DEF SoundMoney
<1> QED
  BY <1>2, <1>7

(* The stock of an accepted opening, of which no bank has seized any. *)
LEMMA OpeningStored ==
  ASSUME NEW w \in Openings
  PROVE  /\ OpeningMarket(w).stock \in Stocks
         /\ \A row \in Rows : OpeningMarket(w).stock[row].carrying = 0
<1> DEFINE stock == [row \in Rows |-> OpeningStock(w, row)]
<1>1. /\ DOMAIN w.stock \subseteq Rows /\ w.stock \in [DOMAIN w.stock -> Nat]
      /\ IsFiniteSet(DOMAIN w.loans) /\ w.loans \in [DOMAIN w.loans -> LoanRecords]
  BY ScenarioAssumption DEF OpeningAccepted, AmountsValid, Partial
<1>2. ASSUME NEW row \in Rows
      PROVE  OpeningStock(w, row) \in [quantity : Nat, pledged : Nat, carrying : Nat]
             /\ OpeningStock(w, row).carrying = 0
  <2> DEFINE q == IF row \in DOMAIN w.stock THEN w.stock[row] ELSE 0
             S == {l \in DOMAIN w.loans : Owing(w.loans[l]) /\ Pledge(w.loans[l]) = row}
             F == [l \in DOMAIN w.loans |-> w.loans[l].pledge]
  <2>1. q \in Nat
    BY <1>1
  <2>2. IsFiniteSet(S) /\ S \subseteq DOMAIN w.loans
    BY <1>1, FS_Subset
  <2>3. \A l \in S : F[l] \in Nat
    <3>1. \A l \in DOMAIN w.loans : w.loans[l] \in LoanRecords
      BY <1>1
    <3>2. \A l \in DOMAIN w.loans : w.loans[l].pledge \in Nat
      BY <3>1 DEF LoanRecords
    <3> QED
      BY <3>2
  <2>4. OpeningStock(w, row) = [quantity |-> q, pledged |-> PledgedIn(w, row), carrying |-> 0]
        /\ PledgedIn(w, row) = Sum(F, S)
    BY DEF OpeningStock, PledgedIn
  <2> HIDE DEF F, S, q
  <2>5. Sum(F, S) \in Nat
    BY <2>2, <2>3, SumNat
  <2> QED
    BY <2>1, <2>4, <2>5
<1>3. OpeningMarket(w).stock = stock
  BY DEF OpeningMarket
<1> QED
  BY <1>2, <1>3 DEF Stocks

(* The invariant holds of every accepted opening. *)
LEMMA InitSafe == ASSUME Init PROVE WholeInv
<1>1. PICK w \in Openings :
        /\ month = 1 /\ market = OpeningMarket(w) /\ loans = w.loans /\ price = w.price
        /\ labor = w.labor /\ people = w.people
        /\ books = [b \in Banks |->
             [interest |-> Interest(b), collateral |-> 0,
              equity |-> market.money.reserves[b] + Principal(b) + Interest(b)
                         - market.money.liability[b]]]
        /\ day = NewDay([g \in Goods |-> InStore(market, g)])
  BY DEF Init
<1>2. OpeningAccepted(w)
  BY ScenarioAssumption
<1>3. market.money \in SoundMoney /\ market.stock \in Stocks /\ \A row \in Rows : market.stock[row].carrying = 0
  BY <1>1, OpeningMoney, OpeningStored
<1>4. market \in Markets /\ market.transit = w.transit /\ \A g \in Goods : market.gone[g] = 0
  <2>1. IsFiniteSet(w.transit) /\ w.transit \in SUBSET Lots
    BY <1>2 DEF OpeningAccepted, ValidShipment
  <2> DEFINE gone == [g \in Goods |-> 0]
             carried == [r \in DOMAIN Routes |-> 0]
             supply == [p \in Places |-> [requested |-> 0, consumed |-> 0, offered |-> 0]]
  <2>2. Shaped(market) /\ market.transit = w.transit /\ market.full = TRUE /\ market.trades = 0
        /\ market.gone = gone /\ market.carried = carried /\ market.supply = supply
    BY <1>1 DEF Shaped, OpeningMarket
  <2>3. gone \in [Goods -> Int] /\ carried \in [DOMAIN Routes -> Int] /\ supply \in Supplies
        /\ \A g \in Goods : gone[g] = 0
    BY DEF Supplies
  <2> HIDE DEF gone, carried, supply
  <2>a. market.transit \in SUBSET Lots /\ IsFiniteSet(market.transit)
    BY <2>1, <2>2, Zenon
  <2>b. market.full \in BOOLEAN /\ market.trades \in Nat
    <3>1. market.full = TRUE /\ market.trades = 0
      BY <2>2, Zenon
    <3>2. TRUE \in BOOLEAN /\ 0 \in Nat
      OBVIOUS
    <3> QED
      BY <3>1, <3>2, Zenon
  <2>c. market.gone \in [Goods -> Int] /\ market.carried \in [DOMAIN Routes -> Int] /\ market.supply \in Supplies
    BY <2>2, <2>3, Zenon
  <2>5. market \in Markets
    BY <1>3, <2>2, <2>a, <2>b, <2>c, MarketParts DEF Shaped
  <2> QED
    BY <2>2, <2>3, <2>5
<1> DEFINE opening == [g \in Goods |-> InStore(market, g)]
<1>5. \A g \in Goods : InStore(market, g) \in Int
  BY <1>4, StoreParts
<1>6. opening \in [Goods -> Int] /\ \A g \in Goods : opening[g] = InStore(market, g)
  BY <1>5
<1>7. day = NewDay(opening)
  BY <1>1
<1> HIDE DEF opening
<1>8. day \in Todays(DOMAIN people) /\ day.opening = opening
  BY <1>6, <1>7, NewDayTyped
<1>9. Stocked(market, month, day.opening)
  <2>1. Numbered(market, 1)
    BY <1>2, <1>4 DEF Numbered, OpeningAccepted, ValidShipment
  <2>2. ASSUME NEW g \in Goods PROVE Balance(market, g) = opening[g]
    BY <1>4, <1>5, <1>6 DEF Balance
  <2> QED
    BY <1>1, <1>4, <1>8, <2>1, <2>2 DEF Stocked
<1>10. Lent
  BY <1>1, <1>2 DEF OpeningAccepted, Lent
<1>11. \A b : Interest(b) = InterestOf(loans, b) /\ Principal(b) = PrincipalOf(loans, b)
  BY DEF Interest, Principal, InterestOf, PrincipalOf, LoansOf, OwedTo, Active
<1>12. \A b : InterestOf(loans, b) \in Int /\ PrincipalOf(loans, b) \in Int
  BY <1>10, LoansTyped DEF Lent
<1>13. \A b \in Banks : market.money.reserves[b] \in Int /\ market.money.liability[b] \in Int
  BY <1>3 DEF SoundMoney, Moneys
<1>14. /\ books \in Books
       /\ \A b \in Banks : /\ books[b].interest = InterestOf(loans, b) /\ books[b].collateral = 0
                           /\ books[b].equity = market.money.reserves[b] + PrincipalOf(loans, b)
                                                + InterestOf(loans, b) - market.money.liability[b]
  <2> DEFINE equity(b) == market.money.reserves[b] + PrincipalOf(loans, b)
                          + InterestOf(loans, b) - market.money.liability[b]
  <2>1. books = [b \in Banks |-> [interest |-> InterestOf(loans, b), collateral |-> 0, equity |-> equity(b)]]
    BY <1>1, <1>11
  <2>2. \A b \in Banks : equity(b) \in Int
    BY <1>12, <1>13
  <2> HIDE DEF equity
  <2>3. books \in Books /\ \A b \in Banks : /\ books[b].interest = InterestOf(loans, b)
                                            /\ books[b].collateral = 0 /\ books[b].equity = equity(b)
    BY <1>12, <2>1, <2>2 DEF Books
  <2> QED
    BY <2>3 DEF equity
<1>15. Booked(market, books, loans)
  <2> SUFFICES ASSUME NEW b \in Banks
               PROVE  /\ books[b].collateral = Held(market.stock, b)
                      /\ Net(market.money, b) + PrincipalOf(loans, b) + books[b].interest + books[b].collateral
                           = books[b].equity
    BY <1>14 DEF Booked
  <2>1. Held(market.stock, b) = 0
    <3> DEFINE S == {row \in Rows : row[1] = b}
               F == [row \in Rows |-> market.stock[row].carrying]
    <3>1. IsFiniteSet(S) /\ \A row \in S : F[row] = 0
      BY <1>3, HeldTyped
    <3>2. Held(market.stock, b) = Sum(F, S)
      BY DEF Held
    <3> HIDE DEF F, S
    <3> QED
      BY <3>1, <3>2, SumZero
  <2> QED
    BY <1>12, <1>13, <1>14, <2>1 DEF Net
<1>16. Typed
  <2>1. /\ price \in [Places -> Nat] /\ people \in [DOMAIN people -> Nat]
        /\ labor \in [DOMAIN Pools -> [workers : Nat, wage : Nat, employed : Nat]]
    BY <1>1, <1>2 DEF OpeningAccepted, AmountsValid
  <2>2. labor \in Workers
    BY <2>1 DEF Workers
  <2>3. Peopled(DOMAIN people)
    BY <1>1, <1>2 DEF OpeningAccepted, ClassesKnown, Peopled
  <2> QED
    BY <1>1, <1>8, <1>10, <1>14, <2>1, <2>2, <2>3 DEF Typed
<1> QED
  BY <1>9, <1>15, <1>16 DEF WholeInv

(* An accepted recipe's owner, goods and labour. *)
LEMMA RecipesKnown ==
  \A i \in DOMAIN Recipes :
    LET r == Recipes[i]
    IN /\ r.entity \in Entities /\ r.site \in Sites /\ r.max \in Nat /\ r.desired \in Nat
       /\ DOMAIN r.inputs \subseteq Goods /\ r.inputs \in [DOMAIN r.inputs -> Nat]
       /\ DOMAIN r.outputs \subseteq Goods /\ r.outputs \in [DOMAIN r.outputs -> Nat]
       /\ r.labor \in Seq([pool : DOMAIN Pools, days : Nat])
BY ScenarioAssumption DEF ScenarioAccepted, ValidRecipe, Partial

(* A recipe's labour is of pools, by days. *)
LEMMA CrewKnown ==
  ASSUME NEW i \in DOMAIN Recipes
  PROVE  LET crew == Recipes[i].labor
         IN /\ Len(crew) \in Nat /\ DOMAIN crew = 1 .. Len(crew) /\ IsFiniteSet(DOMAIN crew)
            /\ \A j \in DOMAIN crew : crew[j].pool \in DOMAIN Pools /\ crew[j].days \in Nat
<1> DEFINE crew == Recipes[i].labor
           n == Len(crew)
<1>1. crew \in Seq([pool : DOMAIN Pools, days : Nat])
  BY RecipesKnown
<1> HIDE DEF crew
<1>2. n \in Nat /\ DOMAIN crew = 1 .. n /\ \A j \in 1 .. n : crew[j] \in [pool : DOMAIN Pools, days : Nat]
  BY <1>1, ListOf, Zenon
<1> HIDE DEF n
<1>3. IsFiniteSet(DOMAIN crew)
  BY <1>2, FS_Interval
<1>4. \A j \in DOMAIN crew : crew[j].pool \in DOMAIN Pools /\ crew[j].days \in Nat
  BY <1>2
<1> QED
  BY <1>2, <1>3, <1>4 DEF crew, n

(* The batches of a recipe are not negative. *)
LEMMA BatchesTyped ==
  ASSUME WholeInv, NEW i \in DOMAIN Recipes
  PROVE  /\ Batches(Recipes[i]) \in Nat
         /\ \A g \in Inputs(Recipes[i]) :
              LET r == Recipes[i]
                  there == Available(market.stock[<<r.entity, r.site, g>>])
              IN there \in Nat /\ (Batches(r) = 0 \/ Batches(r) <= Over(there, r.inputs[g]))
<1> DEFINE r == Recipes[i]
           crew == r.labor
           stock(g) == Available(market.stock[<<r.entity, r.site, g>>])
           worked == {j \in DOMAIN crew : crew[j].days > 0}
           wage == WagePerBatch(r)
           most == Times(r.max, Multiplier("production_multiplier", r.site, r.sector))
           f == [g \in Inputs(r) |-> Over(stock(g), r.inputs[g])]
           h == [j \in worked |-> Larger(0, Over(DaysLeft(r, crew[j].pool), crew[j].days))]
           A == {r.desired, most}
           B == {f[g] : g \in Inputs(r)}
           C == {h[j] : j \in worked}
           D == IF wage > 0 THEN {Over(Funds(market.money, r.entity), wage)} ELSE {}
           all == A \cup B \cup C \cup D
<1>1. /\ r.entity \in Entities /\ r.site \in Sites /\ r.max \in Nat /\ r.desired \in Nat
      /\ DOMAIN r.inputs \subseteq Goods /\ r.inputs \in [DOMAIN r.inputs -> Nat]
  BY RecipesKnown
<1>2. /\ IsFiniteSet(DOMAIN crew)
      /\ \A j \in DOMAIN crew : crew[j].pool \in DOMAIN Pools /\ crew[j].days \in Nat
  BY CrewKnown
<1>3. \A p \in DOMAIN Pools : labor[p].workers \in Nat /\ labor[p].wage \in Nat
  BY LaborTyped
<1>4. \A name, site, sector : Multiplier(name, site, sector) \in Nat
  BY MultiplierTyped, MarketOfInv
<1>5. \A p \in DOMAIN Pools : day.used[p] \in Int
  BY DEF WholeInv, Typed, Todays
<1>6. market.stock \in Stocks /\ market.money \in SoundMoney
  BY MarketOfInv
<1>7. Batches(r) = Larger(0, Min(all))
  <2>1. B = {Over(stock(g), r.inputs[g]) : g \in Inputs(r)}
    OBVIOUS
  <2>2. C = {Larger(0, Over(DaysLeft(r, crew[j].pool), crew[j].days)) : j \in worked}
    OBVIOUS
  <2> QED
    BY <2>1, <2>2 DEF Batches
<1> HIDE DEF r, crew
<1>8. wage \in Int
  <2> DEFINE F == [j \in DOMAIN crew |-> Times(crew[j].days, labor[crew[j].pool].wage)]
  <2>1. \A j \in DOMAIN crew : F[j] \in Int
    BY <1>2, <1>3, TimesNat
  <2>2. wage = Sum(F, DOMAIN crew)
    BY DEF WagePerBatch, crew
  <2> HIDE DEF F, wage
  <2> QED
    BY <1>2, <2>1, <2>2, SumType
<1> HIDE DEF wage
<1>9. \A j \in DOMAIN crew : DaysLeft(r, crew[j].pool) \in Int
  <2> TAKE j \in DOMAIN crew
  <2> DEFINE p == crew[j].pool
             x == labor[p].workers * Days
             y == Multiplier("labor_multiplier", r.site, r.sector)
  <2>1. x \in Int /\ y \in Int /\ day.used[p] \in Int
    BY <1>2, <1>3, <1>4, <1>5, WholeAssumption
  <2>2. DaysLeft(r, p) = Times(x, y) - day.used[p]
    BY DEF DaysLeft
  <2> HIDE DEF p, x, y
  <2>3. Times(x, y) \in Int
    BY <2>1, TimesType
  <2> QED
    BY <2>1, <2>2, <2>3 DEF p
<1>10. most \in Int
  <2>1. r.max \in Int /\ Multiplier("production_multiplier", r.site, r.sector) \in Int
    BY <1>1, <1>4
  <2> QED
    BY <2>1, TimesType
<1>11. Inputs(r) \subseteq DOMAIN r.inputs /\ IsFiniteSet(Inputs(r)) /\ \A g \in Inputs(r) : r.inputs[g] \in Nat \ {0}
  <2>1. Inputs(r) \subseteq DOMAIN r.inputs /\ \A g \in Inputs(r) : r.inputs[g] \in Nat \ {0}
    BY <1>1 DEF Inputs
  <2>2. Inputs(r) \subseteq Goods
    BY <1>1, <2>1
  <2> QED
    BY <2>1, <2>2, ScenarioSets, FS_Subset
<1>12. \A g \in Inputs(r) : f[g] \in Int
  <2> TAKE g \in Inputs(r)
  <2>1. stock(g) \in Int
    <3>1. <<r.entity, r.site, g>> \in Rows
      BY <1>1, <1>11 DEF Rows
    <3> QED
      BY <1>6, <3>1, StockTyped
  <2>2. r.inputs[g] \in Nat \ {0}
    BY <1>11
  <2>3. f[g] = Over(stock(g), r.inputs[g])
    OBVIOUS
  <2> HIDE DEF stock, f
  <2> QED
    BY <2>1, <2>2, <2>3, OverType
<1>13. \A j \in worked : h[j] \in Int
  <2> TAKE j \in worked
  <2>1. DaysLeft(r, crew[j].pool) \in Int /\ crew[j].days \in Nat \ {0}
    BY <1>2, <1>9
  <2>2. Over(DaysLeft(r, crew[j].pool), crew[j].days) \in Int
    BY <2>1, OverType
  <2>3. h[j] = Larger(0, Over(DaysLeft(r, crew[j].pool), crew[j].days))
    OBVIOUS
  <2> HIDE DEF h
  <2> QED
    BY <2>2, <2>3, LargerType
<1>14. IsFiniteSet(worked)
  BY <1>2, FS_Subset
<1>15. D \in SUBSET Int /\ IsFiniteSet(D)
  <2>1. CASE wage > 0
    <3>1. Funds(market.money, r.entity) \in Int
      BY <1>1, <1>6 DEF SoundMoney, Moneys, Funds
    <3>2. Over(Funds(market.money, r.entity), wage) \in Int
      BY <1>8, <2>1, <3>1, OverType
    <3>3. D = {Over(Funds(market.money, r.entity), wage)}
      BY <2>1
    <3> HIDE DEF D
    <3>4. IsFiniteSet({Over(Funds(market.money, r.entity), wage)})
      BY FS_Singleton
    <3> QED
      BY <3>2, <3>3, <3>4
  <2>2. CASE ~(wage > 0)
    BY <2>2, FS_EmptySet
  <2> QED
    BY <2>1, <2>2
<1>16. A \in SUBSET Int /\ IsFiniteSet(A) /\ A # {}
  <2>1. IsFiniteSet({r.desired}) /\ IsFiniteSet({most})
    BY FS_Singleton
  <2>2. A = {r.desired} \cup {most}
    OBVIOUS
  <2>3. IsFiniteSet({r.desired} \cup {most})
    BY <2>1, FS_Union
  <2>4. IsFiniteSet(A)
    BY <2>2, <2>3, Zenon
  <2> QED
    BY <1>1, <1>10, <2>4
<1> HIDE DEF A, D, worked, f, h, stock
<1>17. B \in SUBSET Int /\ C \in SUBSET Int
  BY <1>12, <1>13
<1>18. IsFiniteSet(B) /\ IsFiniteSet(C)
  BY <1>11, <1>14, FiniteImage
<1> HIDE DEF B, C
<1>19. IsFiniteSet(all)
  <2>1. IsFiniteSet(A \cup B)
    BY <1>16, <1>18, FS_Union
  <2>2. IsFiniteSet(A \cup B \cup C)
    BY <1>18, <2>1, FS_Union
  <2> QED
    BY <1>15, <2>2, FS_Union
<1>20. all \in SUBSET Int /\ all # {}
  BY <1>15, <1>16, <1>17
<1> HIDE DEF all
<1>21. Min(all) \in Int /\ \A x \in all : Min(all) <= x
  BY <1>19, <1>20, MinOf
<1>22. ASSUME NEW g \in Inputs(r)
       PROVE  stock(g) \in Nat /\ (Batches(r) = 0 \/ Batches(r) <= Over(stock(g), r.inputs[g]))
  <2>1. f[g] \in all /\ f[g] \in Int
    BY <1>12, <1>22 DEF all, B
  <2>2. Min(all) <= f[g]
    BY <1>21, <2>1
  <2>3. Batches(r) = 0 \/ Batches(r) <= f[g]
    BY <1>7, <1>21, <2>1, <2>2 DEF Larger
  <2>4. f[g] = Over(stock(g), r.inputs[g])
    BY <1>22 DEF f
  <2>5. stock(g) \in Nat
    <3>1. <<r.entity, r.site, g>> \in Rows
      BY <1>1, <1>11, <1>22 DEF Rows
    <3> QED
      BY <1>6, <3>1, StockTyped DEF stock
  <2> QED
    BY <2>3, <2>4, <2>5
<1>23. Batches(r) \in Nat
  BY <1>7, <1>21 DEF Larger
<1> QED
  BY <1>22, <1>23 DEF r, stock

(* What is paid out for the work only moves money. *)
LEMMA PayrollKeeps ==
  ASSUME WholeInv, NEW i \in DOMAIN Recipes, NEW count \in Nat
  PROVE  Payroll(market, Recipes[i], count) \in Payments(market.money)
<1> DEFINE r == Recipes[i]
           crew == r.labor
           n == Len(crew)
           X == Payments(market.money)
           PayWage(acc, part) ==
             Pay(acc, r.entity, Pools[part.pool].household,
                 Cents(Times(Times(part.days, count), labor[part.pool].wage)))
           base == [money |-> market.money, full |-> TRUE]
           folded == FoldLeft(PayWage, base, crew)
<1>1. r.entity \in Entities
  BY RecipesKnown
<1>2. n \in Nat /\ DOMAIN crew = 1 .. n
      /\ \A j \in 1 .. n : crew[j].pool \in DOMAIN Pools /\ crew[j].days \in Nat
  BY CrewKnown
<1>3. Payroll(market, r, count) = folded
  BY DEF Payroll
<1> HIDE DEF r, crew, n
<1>4. base \in X
  BY MarketOfInv, OnwardsSelf DEF Payments
<1>5. ASSUME NEW acc \in X, NEW j \in 1 .. n PROVE PayWage(acc, crew[j]) \in X
  <2> DEFINE part == crew[j]
             wage == labor[part.pool].wage
             due == Cents(Times(Times(part.days, count), wage))
             to == Pools[part.pool].household
  <2>1. part.pool \in DOMAIN Pools /\ part.days \in Nat
    BY <1>2
  <2>2. to \in Entities
    BY <2>1, ScenarioAssumption DEF ScenarioAccepted
  <2>3. wage \in Int
    BY <2>1, LaborTyped
  <2>5. PayWage(acc, part) = Pay(acc, r.entity, to, due)
    OBVIOUS
  <2> HIDE DEF part, wage, to, PayWage
  <2>4. Times(part.days, count) \in Int
    <3>1. part.days \in Nat /\ count \in Nat
      BY <2>1
    <3>2. Times(part.days, count) \in Nat
      BY <3>1, TimesNat
    <3> QED
      BY <3>2
  <2>6. Times(Times(part.days, count), wage) \in Int
    BY <2>3, <2>4, TimesType
  <2>7. due \in Whole
    BY <2>6, WholeSums
  <2> HIDE DEF due
  <2>8. Pay(acc, r.entity, to, due) \in X
    BY <1>1, <2>2, <2>7, PayKeeps
  <2> QED
    BY <2>5, <2>8 DEF part
<1> HIDE DEF X, base
<1>6. FoldLeft(PayWage, base, crew) \in X
  <2> DEFINE F == [p \in X \X (1 .. n) |-> PayWage(p[1], crew[p[2]])]
             Is(h) == h = [s \in SUBSET (1 .. n) |->
                             IF s = {} THEN base ELSE PayWage(h[s \ {Max(s)}], crew[Max(s)])]
             g == CHOOSE h : Is(h)
  <2>1. FoldLeft(PayWage, base, crew) = g[1 .. n]
    BY <1>2 DEF FoldLeft, MapThenFoldSet
  <2> HIDE DEF PayWage
  <2>2. n \in Nat /\ base \in X
    BY <1>2, <1>4
  <2>3. F \in [X \X (1 .. n) -> X]
    BY <1>5
  <2>4. \A acc \in X : \A j \in 1 .. n : F[<<acc, j>>] = PayWage(acc, crew[j])
    OBVIOUS
  <2>5. \A s \in SUBSET (1 .. n) : s # {} => Max(s) \in 1 .. n
    BY <2>2, LastPosition
  <2> HIDE DEF F
  <2>6. PICK h \in [SUBSET (1 .. n) -> X] : RunsUp(h, n, F, base)
    BY <2>2, <2>3, FoldRunsUp
  <2>7. Is(h)
    BY <2>4, <2>5, <2>6 DEF RunsUp
  <2>8. Is(g)
    BY <2>7
  <2> HIDE DEF g
  <2>9. Follows(g, n, X, F, base)
    BY <2>4, <2>5, <2>8 DEF Follows
  <2>10. g[1 .. n] \in X
    BY <2>2, <2>3, <2>9, FoldStays
  <2> QED
    BY <2>1, <2>10
<1> QED
  BY <1>3, <1>6 DEF X, r

(* A recipe takes from its own stores what it turns into something else. *)
LEMMA WorkedStock ==
  ASSUME WholeInv, NEW i \in DOMAIN Recipes, NEW count \in Nat,
         ~Overdrawn(Worked(Recipes[i], count), Recipes[i])
  PROVE  LET k == Worked(Recipes[i], count)
         IN /\ Shaped(k) /\ Others(market, k, {"stock", "gone"})
            /\ k.stock \in Stocks /\ k.gone \in [Goods -> Int]
            /\ \A row \in Rows : /\ k.stock[row].carrying = market.stock[row].carrying
                                 /\ k.stock[row].pledged = market.stock[row].pledged
            /\ \A g \in Goods : Stored(k.stock, g) + k.gone[g] = Stored(market.stock, g) + market.gone[g]
<1> DEFINE r == Recipes[i]
           k == Worked(r, count)
           Store(g) == <<r.entity, r.site, g>>
           Amount(of, g) == IF g \in DOMAIN of THEN Times(of[g], count) ELSE 0
           add == [g \in Goods |-> Amount(r.outputs, g) - Amount(r.inputs, g)]
           stock == [row \in Rows |->
                       IF row = Store(row[3])
                       THEN [market.stock[row] EXCEPT !.quantity = @ + add[row[3]]] ELSE market.stock[row]]
           gone == [g \in Goods |-> market.gone[g] - add[g]]
<1>1. /\ r.entity \in Entities /\ r.site \in Sites
      /\ DOMAIN r.inputs \subseteq Goods /\ r.inputs \in [DOMAIN r.inputs -> Nat]
      /\ DOMAIN r.outputs \subseteq Goods /\ r.outputs \in [DOMAIN r.outputs -> Nat]
  BY RecipesKnown
<1>2. /\ market \in Markets /\ Shaped(market) /\ market.stock \in Stocks /\ market.gone \in [Goods -> Int]
  BY MarketParts, MarketOfInv DEF Shaped
<1>3. \A row \in Rows : row[3] \in Goods
  BY DEF Rows
<1>4. k = [market EXCEPT !.stock = stock, !.gone = gone]
  <2>1. stock = [row \in Rows |->
                   IF row = Store(row[3])
                   THEN [market.stock[row] EXCEPT
                           !.quantity = @ + (Amount(r.outputs, row[3]) - Amount(r.inputs, row[3]))]
                   ELSE market.stock[row]]
    BY <1>3
  <2>2. gone = [g \in Goods |-> market.gone[g] - (Amount(r.outputs, g) - Amount(r.inputs, g))]
    OBVIOUS
  <2> HIDE DEF stock, gone
  <2>3. k = [market EXCEPT
        !.stock = [row \in Rows |->
                     IF row = Store(row[3])
                     THEN [market.stock[row] EXCEPT
                             !.quantity = @ + (Amount(r.outputs, row[3]) - Amount(r.inputs, row[3]))]
                     ELSE market.stock[row]],
        !.gone = [g \in Goods |-> market.gone[g] - (Amount(r.outputs, g) - Amount(r.inputs, g))]]
    BY DEF Worked
  <2> QED
    BY <2>1, <2>2, <2>3
<1> HIDE DEF stock, gone, k, r
<1>5. Shaped(k) /\ Others(market, k, {"stock", "gone"}) /\ k.stock = stock /\ k.gone = gone
  BY <1>2, <1>4 DEF Shaped, Others
<1>6. \A g \in Goods : add[g] \in Int /\ (g \notin DOMAIN r.inputs => add[g] >= 0)
  <2> TAKE g \in Goods
  <2>1. Amount(r.outputs, g) \in Nat /\ Amount(r.inputs, g) \in Nat
    BY <1>1, TimesNat
  <2>2. g \notin DOMAIN r.inputs => Amount(r.inputs, g) = 0
    OBVIOUS
  <2>3. add[g] = Amount(r.outputs, g) - Amount(r.inputs, g)
    OBVIOUS
  <2> HIDE DEF Amount, add
  <2> QED
    BY <2>1, <2>2, <2>3
<1>7. \A g \in Goods : Store(g) \in Rows /\ Store(g)[3] = g
  BY <1>1 DEF Rows
<1> HIDE DEF add
<1>8. ASSUME NEW row \in Rows
      PROVE  /\ stock[row] \in [quantity : Nat, pledged : Nat, carrying : Nat]
             /\ stock[row].carrying = market.stock[row].carrying
             /\ stock[row].pledged = market.stock[row].pledged
             /\ stock[row].quantity = market.stock[row].quantity
                                      + (IF row = Store(row[3]) THEN add[row[3]] ELSE 0)
  <2> DEFINE s == market.stock[row]
             q == s.quantity + add[row[3]]
  <2>1. s \in [quantity : Nat, pledged : Nat, carrying : Nat] /\ add[row[3]] \in Int /\ s.quantity \in Nat
    BY <1>2, <1>3, <1>6, StockTyped
  <2>2. CASE row # Store(row[3])
    <3>1. stock[row] = s
      BY <2>2 DEF stock
    <3> QED
      BY <2>1, <2>2, <3>1
  <2>3. CASE row = Store(row[3])
    <3>1. stock[row] = [s EXCEPT !.quantity = q]
      BY <2>3 DEF stock
    <3>2. q \in Nat
      <4>1. CASE row[3] \in DOMAIN r.inputs
        <5>1. ~(k.stock[Store(row[3])].quantity < 0)
          BY <4>1 DEF Overdrawn, k, r
        <5>2. stock[row].quantity = q
          BY <2>1, <3>1
        <5>3. q \in Int
          BY <2>1
        <5> QED
          BY <1>5, <2>3, <5>1, <5>2, <5>3
      <4>2. CASE row[3] \notin DOMAIN r.inputs
        BY <1>3, <1>6, <2>1, <4>2
      <4> QED
        BY <4>1, <4>2
    <3> HIDE DEF s
    <3>3. /\ stock[row] \in [quantity : Nat, pledged : Nat, carrying : Nat]
          /\ stock[row].carrying = s.carrying /\ stock[row].pledged = s.pledged /\ stock[row].quantity = q
      BY <2>1, <3>1, <3>2
    <3> QED
      BY <2>3, <3>3 DEF s
  <2> QED
    BY <2>2, <2>3
<1>9. stock \in Stocks
  <2>1. DOMAIN stock = Rows /\ stock = [row \in Rows |-> stock[row]]
    BY DEF stock
  <2> HIDE DEF stock
  <2> QED
    BY <1>8, <2>1 DEF Stocks
<1>10. gone \in [Goods -> Int] /\ \A g \in Goods : gone[g] = market.gone[g] - add[g] /\ market.gone[g] \in Int
  BY <1>2, <1>6 DEF gone
<1>11. ASSUME NEW g \in Goods
       PROVE  Stored(stock, g) = Stored(market.stock, g) + add[g] /\ Stored(market.stock, g) \in Int
  <2> DEFINE F == [row \in Rows |-> market.stock[row].quantity]
             G == [row \in Rows |-> stock[row].quantity]
             S == RowsOf(g)
             a == Store(g)
  <2>1. IsFiniteSet(S) /\ S \subseteq Rows /\ a \in S /\ \A row \in S : row[3] = g
    BY <1>7, ScenarioSets DEF RowsOf
  <2> HIDE DEF S, Store
  <2>2. \A row \in S : F[row] \in Int /\ G[row] \in Int
    BY <1>2, <1>9, <2>1, StockTyped
  <2>3. \A row \in S : G[row] = F[row] + (IF row = a THEN add[g] ELSE 0)
    <3> TAKE row \in S
    <3>1. row \in Rows /\ row[3] = g
      BY <2>1
    <3> QED
      BY <1>8, <3>1
  <2>4. Stored(stock, g) = Sum(G, S) /\ Stored(market.stock, g) = Sum(F, S)
    BY DEF Stored, S
  <2> HIDE DEF F, G, a
  <2>5. F[a] \in Int /\ G[a] = F[a] + add[g] /\ add[g] \in Int
    BY <1>6, <2>1, <2>2, <2>3
  <2>6. \A row \in S : row # a => G[row] = F[row]
    <3> TAKE row \in S
    <3> QED
      BY <2>2, <2>3
  <2>7. Sum(G, S) = Sum(F, S) - F[a] + G[a] /\ Sum(F, S) \in Int
    BY <2>1, <2>2, <2>6, SumChange
  <2> QED
    BY <2>4, <2>5, <2>7
<1>12. \A g \in Goods : Stored(k.stock, g) + k.gone[g] = Stored(market.stock, g) + market.gone[g]
  BY <1>5, <1>6, <1>10, <1>11
<1>13. \A row \in Rows : /\ k.stock[row].carrying = market.stock[row].carrying
                         /\ k.stock[row].pledged = market.stock[row].pledged
  BY <1>5, <1>8
<1> QED
  BY <1>5, <1>9, <1>10, <1>12, <1>13 DEF k, r

(* The days worked are a whole number. *)
LEMMA WorkedDaysTyped ==
  ASSUME NEW i \in DOMAIN Recipes, NEW count \in Nat, NEW p
  PROVE  WorkedDays(Recipes[i], count, p) \in Int
<1> DEFINE crew == Recipes[i].labor
           F == [j \in DOMAIN crew |-> Times(crew[j].days, count)]
           S == {j \in DOMAIN crew : crew[j].pool = p}
<1>1. IsFiniteSet(DOMAIN crew) /\ \A j \in DOMAIN crew : crew[j].days \in Nat
  BY CrewKnown
<1>2. WorkedDays(Recipes[i], count, p) = Sum(F, S)
  BY DEF WorkedDays
<1> HIDE DEF crew
<1>3. IsFiniteSet(S)
  BY <1>1, FS_Subset
<1>4. \A j \in S : F[j] \in Int
  <2> TAKE j \in S
  <2>1. crew[j].days \in Nat
    BY <1>1
  <2>2. Times(crew[j].days, count) \in Nat
    BY <2>1, TimesNat
  <2> QED
    BY <2>2
<1> HIDE DEF F, S
<1> QED
  BY <1>2, <1>3, <1>4, SumType

(* Goods used up and produced are counted, and wages paid are paid to        *)
(* households (Produce).                                                     *)
LEMMA ProduceSafe == ASSUME WholeInv, Produce PROVE Safe
<1> DEFINE r == Recipes[Item]
           n == Batches(r)
           k == Worked(r, n)
           paid == Payroll(market, r, n)
           used == [p \in DOMAIN Pools |-> day.used[p] + WorkedDays(r, n, p)]
<1>1. Item \in DOMAIN Recipes
  BY ItemOf DEF Produce
<1>2. n \in Nat
  BY <1>1, BatchesTyped
<1>3. Completed(r, n, k, paid)
  BY DEF Produce, Produced
<1>4. CASE \E why : Fail(why)
  BY <1>4, FailTrades, TradesSafe
<1>5. CASE /\ ~Overdrawn(k, r) /\ market' = [k EXCEPT !.money = paid.money]
           /\ day' = [day EXCEPT !.batches[Item] = n, !.used = used]
           /\ NextStep /\ UNCHANGED account
  <2>1. /\ market \in Markets /\ market.money \in SoundMoney /\ IsFiniteSet(market.transit)
    BY MarketParts, MarketOfInv
  <2> HIDE DEF n
  <2>2. paid.money \in Onwards(market.money)
    BY <1>1, <1>2, PayrollKeeps DEF Payments
  <2>3. /\ Shaped(k) /\ Others(market, k, {"stock", "gone"})
        /\ k.stock \in Stocks /\ k.gone \in [Goods -> Int]
        /\ \A row \in Rows : k.stock[row].carrying = market.stock[row].carrying
        /\ \A g \in Goods : Stored(k.stock, g) + k.gone[g] = Stored(market.stock, g) + market.gone[g]
    BY <1>1, <1>2, <1>5, WorkedStock
  <2>4. \A p : WorkedDays(r, n, p) \in Int
    BY <1>1, <1>2, WorkedDaysTyped
  <2> HIDE DEF r, k, paid
  <2>5. /\ Shaped(market') /\ market'.stock = k.stock /\ market'.gone = k.gone /\ market'.money = paid.money
        /\ Others(market, market', {"stock", "gone", "money"})
    BY <1>5, <2>3 DEF Shaped, Others
  <2>6. market' \in Markets
    <3>1. paid.money \in SoundMoney
      BY <2>2 DEF Onwards
    <3> QED
      BY <2>1, <2>3, <2>5, <3>1, MarketParts DEF Shaped, Others
  <2>7. market' \in Reworked(market, month)
    <3>1. ASSUME NEW g \in Goods PROVE Balance(market', g) = Balance(market, g)
      <4>1. /\ InStore(market, g) = Stored(market.stock, g) + Moving(market.transit, g)
            /\ InStore(market', g) = Stored(k.stock, g) + Moving(market.transit, g)
        BY <2>5, StoreParts DEF Others
      <4>2. /\ Stored(market.stock, g) \in Int /\ Moving(market.transit, g) \in Int
            /\ Stored(market'.stock, g) \in Int /\ k.gone[g] \in Int /\ market.gone[g] \in Int
        BY <2>1, <2>3, <2>6, StoreParts, MarketParts
      <4>3. Stored(k.stock, g) + k.gone[g] = Stored(market.stock, g) + market.gone[g]
        BY <2>3
      <4> QED
        BY <2>5, <4>1, <4>2, <4>3 DEF Balance
    <3>2. Numbered(market, month) => Numbered(market', month)
      BY <2>5 DEF Numbered, Others
    <3> QED
      BY <2>2, <2>3, <2>5, <2>6, <3>1, <3>2 DEF Reworked
  <2>8. day' \in Todays(DOMAIN people) /\ day'.opening = day.opening
    <3>1. used \in [DOMAIN Pools -> Int]
      <4>1. \A p \in DOMAIN Pools : day.used[p] \in Int
        BY DEF WholeInv, Typed, Todays
      <4> QED
        BY <2>4, <4>1
    <3>2. day \in Todays(DOMAIN people)
      BY DEF WholeInv, Typed
    <3> HIDE DEF used
    <3>3. n \in Int
      BY <1>2
    <3> QED
      BY <1>1, <1>5, <3>1, <3>2, <3>3 DEF Todays
  <2>9. UNCHANGED <<month, account>>
    BY <1>5 DEF NextStep
  <2>10. Typed'
    BY <2>8, <2>9 DEF Typed, account, WholeInv, Lent
  <2> QED
    BY <2>7, <2>8, <2>9, <2>10, StillSafe DEF Safe, account
<1> QED
  BY <1>3, <1>4, <1>5 DEF Completed

(* What is paid in to a bank lies there, and is no longer owed to the payer. *)
LEMMA PaidInKeeps ==
  ASSUME NEW m \in SoundMoney, NEW e \in Entities, NEW bank \in Banks, NEW n \in Nat
  PROVE  LET k == PaidIn(m, e, bank, n)
             a == Arriving(m, e, bank, n)
         IN /\ k \in SoundMoney /\ a \in Nat /\ CoinsOf(k) = CoinsOf(m)
            /\ \A b \in Banks : Net(k, b) = Net(m, b) + At(b, bank, a) /\ Net(m, b) \in Int
<1> DEFINE c == InCash(m, e, n)
           d == FromDeposit(m, e, bank, n)
           k == PaidIn(m, e, bank, n)
           a == Arriving(m, e, bank, n)
<1>0. bank # None /\ bank \in Banks \cup {None}
  BY Finite
<1>1. Handing(m, e, bank, c, d) /\ c \in Nat /\ d \in Nat
  BY <1>0, Drawn DEF Handing
<1>2. k = Moved(m, e, bank, c, d) /\ a = c + d
  BY DEF PaidIn, Arriving
<1> HIDE DEF c, d, k, a
<1>3. /\ k \in SoundMoney
      /\ CoinsOf(k) = CoinsOf(m) - OnTheWay(bank, c + d)
      /\ \A b \in Banks : Net(k, b) = Net(m, b) + At(b, bank, c + d)
  BY <1>0, <1>1, <1>2, HandedOver
<1>4. CoinsOf(m) \in Int
  <2>1. \A x \in Entities : m.cash[x] \in Int
    BY DEF SoundMoney, Moneys
  <2>2. \A b \in Banks : m.reserves[b] \in Int
    BY DEF SoundMoney, Moneys
  <2>3. Sum(m.cash, Entities) \in Int /\ Sum(m.reserves, Banks) \in Int
    BY <2>1, <2>2, Finite, SumType
  <2> QED
    BY <2>3 DEF CoinsOf
<1>5. CoinsOf(k) = CoinsOf(m)
  BY <1>0, <1>3, <1>4 DEF OnTheWay
<1>6. \A b \in Banks : Net(m, b) \in Int
  BY DEF SoundMoney, Moneys, Net
<1> QED
  BY <1>1, <1>2, <1>3, <1>5, <1>6 DEF k, a

(* What is due of a loan is an amount. *)
LEMMA LoanDue ==
  ASSUME NEW l \in LoanRecords
  PROVE  /\ NewInterest(l) \in Nat /\ Cents(l.interest + NewInterest(l)) \in Nat /\ PrincipalDue(l) \in Nat
         /\ l.principal \in Nat /\ l.interest \in Nat
<1>1. l.principal \in Nat /\ l.interest \in Nat /\ l.rate \in Fraction /\ l.scheduled \in Nat /\ l.remaining \in Nat
  BY DEF LoanRecords
<1>2. \A n \in Nat : Cents(n) \in Nat
  <2> TAKE n \in Nat
  <2>1. Cent \in Nat \ {0} /\ 1 * Cent \in Nat \ {0}
    BY Finite
  <2>2. HalfEven(n, 1 * Cent) \in Nat
    BY <2>1, HalfEvenAbove
  <2> QED
    BY <2>1, <2>2 DEF Cents, Rounded
<1>3. NewInterest(l) \in Nat
  <2>1. l.rate \in Nat /\ Scale \in Nat \ {0} /\ Cent \in Nat \ {0}
    BY <1>1, ScaleAssumption, Finite DEF Fraction
  <2>2. l.principal * l.rate \in Nat /\ (12 * Scale) * Cent \in Nat \ {0}
    <3>1. \A x, y \in Nat : x * y \in Nat
      OBVIOUS
    <3>2. \A x, y \in Nat \ {0} : x * y \in Nat \ {0}
      OBVIOUS
    <3> QED
      BY <1>1, <2>1, <3>1, <3>2
  <2>3. HalfEven(l.principal * l.rate, (12 * Scale) * Cent) \in Nat
    BY <2>2, HalfEvenAbove
  <2> QED
    BY <2>1, <2>3 DEF NewInterest, Rounded
<1>4. PrincipalDue(l) \in Nat
  <2> DEFINE x == IF l.remaining <= 1 THEN l.principal ELSE Lesser(l.principal, l.scheduled)
  <2>1. x \in Nat
    BY <1>1 DEF Lesser
  <2>2. PrincipalDue(l) = Cents(x)
    BY DEF PrincipalDue
  <2> HIDE DEF x
  <2> QED
    BY <1>2, <2>1, <2>2
<1>5. l.interest + NewInterest(l) \in Nat
  BY <1>1, <1>3
<1> QED
  BY <1>1, <1>2, <1>3, <1>4, <1>5

(* A loan after its payments is one that is still owed, or has nothing owing. *)
LEMMA ServedTyped ==
  ASSUME NEW old \in LoanRecords, NEW i \in Nat, NEW p \in Nat, NEW hit, NEW l,
         l = Served(old, i, p, hit), ~Overpaid(l)
  PROVE  /\ l \in LoanRecords /\ l.bank = old.bank /\ l.principal = old.principal - p
         /\ l.interest = old.interest + NewInterest(old) - i
         /\ Owing(l) \/ (l.principal = 0 /\ l.interest = 0)
         /\ l.principal \in Nat /\ l.interest \in Nat
<1> DEFINE principal == old.principal - p
           interest == old.interest + NewInterest(old) - i
           paid == [old EXCEPT !.principal = principal, !.interest = interest]
           cleared == paid.principal = 0 /\ paid.interest = 0
           short == NewInterest(old) + old.interest - i + PrincipalDue(old) - p
           A == [paid EXCEPT !.missed = @ + 1, !.status = "delinquent"]
           B == [paid EXCEPT !.missed = 0, !.remaining = Larger(0, @ - 1),
                       !.status = IF cleared THEN "repaid" ELSE "performing",
                       !.released = cleared]
<1>1. old.principal \in Nat /\ old.interest \in Nat /\ NewInterest(old) \in Nat
  BY LoanDue
<1>3. /\ old.bank \in Banks /\ old.borrower \in Entities /\ old.owner \in Entities /\ old.place \in Places
      /\ old.scheduled \in Nat /\ old.pledge \in Nat /\ old.rate \in Fraction /\ old.haircut \in Fraction
      /\ old.remaining \in Nat /\ old.origin \in Nat /\ old.missed \in Nat /\ old.limit \in Nat \ {0}
      /\ old.released \in BOOLEAN
  BY DEF LoanRecords
<1>4. principal \in Int /\ interest \in Int
  BY <1>1
<1>5. l = A \/ l = B
  BY DEF Served
<1> HIDE DEF principal, interest
<1> DEFINE Half == [bank : {old.bank}, borrower : Entities, owner : Entities, place : Places,
                    principal : {principal}, interest : {interest}, scheduled : Nat, pledge : Nat,
                    rate : Fraction, haircut : Fraction, remaining : Nat, origin : Nat, missed : Nat,
                    limit : Nat \ {0}, status : Statuses, released : BOOLEAN]
<1>6. paid \in Half
  BY DEF LoanRecords
<1> HIDE DEF paid
<1>7. paid.principal = principal /\ paid.interest = interest /\ paid.remaining \in Nat /\ paid.missed \in Nat
  BY <1>6
<1> HIDE DEF cleared
<1>8. cleared <=> principal = 0 /\ interest = 0
  BY <1>7 DEF cleared
<1>9. Larger(0, paid.remaining - 1) \in Nat /\ paid.missed + 1 \in Nat
  BY <1>7 DEF Larger
<1>10. {"performing", "delinquent", "repaid"} \subseteq Statuses
  BY DEF Statuses
<1>11. CASE l = A
  <2>1. l \in Half
    BY <1>6, <1>9, <1>10, <1>11
  <2>2. l.principal = principal /\ l.interest = interest /\ l.bank = old.bank
    BY <2>1
  <2>3. l.status = "delinquent"
    BY <1>6, <1>11
  <2>4. principal \in Nat /\ interest \in Nat
    BY <1>4, <2>2 DEF Overpaid
  <2>5. l \in LoanRecords
    BY <1>3, <2>1, <2>4 DEF LoanRecords
  <2> QED
    BY <2>2, <2>3, <2>4, <2>5 DEF Owing, principal, interest
<1>12. CASE l = B
  <2> DEFINE status == IF cleared THEN "repaid" ELSE "performing"
             remaining == Larger(0, paid.remaining - 1)
  <2>1. l = [paid EXCEPT !.missed = 0, !.remaining = remaining, !.status = status, !.released = cleared]
    BY <1>12
  <2>2. /\ status \in Statuses /\ remaining \in Nat /\ (~cleared => status = "performing")
        /\ cleared \in BOOLEAN
    BY <1>9, <1>10 DEF cleared
  <2> HIDE DEF status, remaining
  <2>3. l \in Half /\ l.status = status
    <3>1. remaining \in Nat /\ status \in Statuses /\ cleared \in BOOLEAN
      BY <2>2
    <3>2. l.status = status
      BY <1>6, <2>1
    <3>3. l \in Half
      <4>1. \A x \in Nat, y \in Statuses, z \in BOOLEAN :
              [paid EXCEPT !.missed = 0, !.remaining = x, !.status = y, !.released = z] \in Half
        BY <1>6
      <4>2. cleared => l = [paid EXCEPT !.missed = 0, !.remaining = remaining, !.status = status, !.released = TRUE]
        BY <2>1
      <4>3. ~cleared => l = [paid EXCEPT !.missed = 0, !.remaining = remaining, !.status = status, !.released = FALSE]
        <5>1. ~cleared => cleared = FALSE
          BY DEF cleared
        <5> QED
          BY <2>1, <5>1
      <4>4. TRUE \in BOOLEAN /\ FALSE \in BOOLEAN
        BY Zenon
      <4> HIDE DEF Half
      <4>5. CASE cleared
        BY <3>1, <4>1, <4>2, <4>4, <4>5
      <4>6. CASE ~cleared
        BY <3>1, <4>1, <4>3, <4>4, <4>6
      <4> QED
        BY <4>5, <4>6
    <3> QED
      BY <3>2, <3>3
  <2>4. l.principal = principal /\ l.interest = interest /\ l.bank = old.bank
    BY <2>3
  <2>5. principal \in Nat /\ interest \in Nat
    BY <1>4, <2>4 DEF Overpaid
  <2>6. l \in LoanRecords
    BY <1>3, <2>3, <2>5 DEF LoanRecords
  <2> QED
    BY <1>8, <2>2, <2>3, <2>4, <2>5, <2>6 DEF Owing, principal, interest
<1> QED
  BY <1>5, <1>11, <1>12

\* A loan that is written off.
Off(l) == [l EXCEPT !.principal = 0, !.interest = 0, !.status = "defaulted", !.released = TRUE]

(* A loan that is written off owes nothing. *)
LEMMA OffTyped ==
  ASSUME NEW l \in LoanRecords
  PROVE  Off(l) \in LoanRecords /\ Off(l).bank = l.bank /\ Off(l).principal = 0 /\ Off(l).interest = 0
<1>1. "defaulted" \in Statuses
  BY DEF Statuses
<1> QED
  BY <1>1 DEF LoanRecords, Off

(* What is carried at another value. *)
LEMMA HeldChange ==
  ASSUME NEW s \in Stocks, NEW t \in Stocks, NEW row \in Rows, NEW n \in Int,
         t[row].carrying = s[row].carrying + n,
         \A r \in Rows : r # row => t[r].carrying = s[r].carrying,
         NEW b
  PROVE  Held(t, b) = Held(s, b) + At(row[1], b, n) /\ Held(s, b) \in Int
<1> DEFINE F == [r \in Rows |-> s[r].carrying]
           G == [r \in Rows |-> t[r].carrying]
           S == {r \in Rows : r[1] = b}
<1>1. IsFiniteSet(S) /\ S \subseteq Rows /\ (row \in S <=> row[1] = b)
  BY ScenarioSets, FS_Subset
<1>2. \A r \in Rows : F[r] \in Int /\ G[r] \in Int /\ (r # row => G[r] = F[r])
  BY StockTyped
<1>3. G[row] = F[row] + n
  OBVIOUS
<1>4. Held(t, b) = Sum(G, S) /\ Held(s, b) = Sum(F, S)
  BY DEF Held
<1> HIDE DEF F, G, S
<1>5. Sum(F, S) \in Int
  BY <1>1, <1>2, SumType
<1>6. CASE row \in S
  <2>1. \A x \in S : F[x] \in Int /\ G[x] \in Int
    BY <1>1, <1>2
  <2>2. \A x \in S : x # row => G[x] = F[x]
    BY <1>1, <1>2
  <2>3. Sum(G, S) = Sum(F, S) - F[row] + G[row]
    BY <1>1, <1>6, <2>1, <2>2, SumChange
  <2> QED
    BY <1>1, <1>2, <1>3, <1>4, <1>5, <1>6, <2>3 DEF At
<1>7. CASE row \notin S
  <2>1. \A x \in S : F[x] = G[x]
    BY <1>1, <1>2, <1>7
  <2>2. Sum(G, S) = Sum(F, S)
    BY <1>1, <2>1, SumEqual
  <2> QED
    BY <1>1, <1>4, <1>5, <1>7, <2>2 DEF At
<1> QED
  BY <1>6, <1>7

(* A bank seizes no more than was pledged, and than there is. *)
LEMMA SeizedTyped ==
  ASSUME WholeInv, NEW l \in LoanRecords
  PROVE  LET s == market.stock[Pledge(l)]
         IN /\ Pledge(l) \in Rows /\ Vault(l) \in Rows /\ Pledge(l)[3] = Vault(l)[3] /\ Vault(l)[1] = l.bank
            /\ Released(l) \in 0 .. s.pledged
            /\ Seized(l) \in 0 .. s.quantity /\ Seized(l) <= Released(l)
            /\ Recovered(l) \in 0 .. l.principal + l.interest
<1> DEFINE s == market.stock[Pledge(l)]
           net == NetPrice(l)
           owed == l.principal + l.interest
           worth == Over(owed, net)
<1>1. /\ l.bank \in Banks /\ l.owner \in Entities /\ l.place \in Places /\ l.pledge \in Nat
      /\ l.haircut \in Fraction /\ l.principal \in Nat /\ l.interest \in Nat
  BY DEF LoanRecords
<1>2. Pledge(l) \in Rows /\ Vault(l) \in Rows /\ Pledge(l)[3] = Vault(l)[3] /\ Vault(l)[1] = l.bank
  BY <1>1, Finite DEF Pledge, Vault, Places, Rows
<1>3. s.pledged \in Nat /\ s.quantity \in Nat
  BY <1>2, MarketOfInv, StockTyped
<1>4. net \in Nat
  <2>1. price[l.place] \in Nat /\ Scale - l.haircut \in Nat
    BY <1>1, MarketOfInv, ScaleAssumption DEF Fraction
  <2> QED
    BY <2>1, TimesNat DEF NetPrice
<1>5. owed \in Nat
  BY <1>1
<1> HIDE DEF net, owed
<1>6. net # 0 => worth \in Nat
  <2> SUFFICES ASSUME net # 0 PROVE worth \in Nat
    OBVIOUS
  <2>1. net \in Nat \ {0}
    BY <1>4
  <2>2. owed * Scale \in Int /\ owed * Scale >= 0
    BY <1>5, ScaleAssumption
  <2> QED
    BY <2>1, <2>2, HalfEvenAbove DEF Over
<1> DEFINE cash == Cents(Times(Seized(l), net))
<1>7. /\ Released(l) = Lesser(l.pledge, s.pledged)
      /\ Seized(l) = IF ~Defaults(l) \/ net = 0 THEN 0 ELSE Min({Released(l), s.quantity, worth})
      /\ Recovered(l) = Lesser(owed, cash)
  <2>1. Released(l) = Lesser(l.pledge, s.pledged)
    BY DEF Released
  <2>2. Seized(l) = IF ~Defaults(l) \/ net = 0 THEN 0 ELSE Min({Released(l), s.quantity, worth})
    BY Zenon DEF Seized, net, owed
  <2>3. Recovered(l) = Lesser(owed, cash)
    BY Zenon DEF Recovered, net, owed
  <2> QED
    BY <2>1, <2>2, <2>3
<1> HIDE DEF s, worth, cash
<1>8. Released(l) \in 0 .. s.pledged /\ Released(l) \in Nat
  BY <1>1, <1>3, <1>7 DEF Lesser
<1>9. Seized(l) \in 0 .. s.quantity /\ Seized(l) <= Released(l)
  <2>1. CASE ~Defaults(l) \/ net = 0
    BY <1>3, <1>7, <1>8, <2>1
  <2>2. CASE ~(~Defaults(l) \/ net = 0)
    <3> DEFINE x == Min({Released(l), s.quantity, worth})
    <3>1. Released(l) \in Int /\ s.quantity \in Int /\ worth \in Int
      BY <1>3, <1>6, <1>8, <2>2
    <3>2. x \in {Released(l), s.quantity, worth} /\ x <= Released(l) /\ x <= s.quantity
      <4> DEFINE S == {Released(l), s.quantity, worth}
      <4>1. \A a, b, c \in Int : LET T == {a, b, c} IN Min(T) \in T /\ Min(T) <= a /\ Min(T) <= b
        BY MinOfFew
      <4> QED
        BY <3>1, <4>1
    <3>3. Seized(l) = x
      BY <1>7, <2>2
    <3> HIDE DEF x
    <3>4. x \in Nat
      BY <1>3, <1>6, <1>8, <2>2, <3>2
    <3> QED
      BY <1>3, <3>2, <3>3, <3>4
  <2> QED
    BY <2>1, <2>2
<1>10. Recovered(l) \in 0 .. owed
  <2>1. Seized(l) \in Nat
    BY <1>3, <1>9
  <2>2. Times(Seized(l), net) \in Nat
    BY <1>4, <2>1, TimesNat
  <2>3. cash \in Nat
    <3>1. Cent \in Nat \ {0} /\ 1 * Cent \in Nat \ {0}
      BY Finite
    <3>2. HalfEven(Times(Seized(l), net), 1 * Cent) \in Nat
      BY <2>2, <3>1, HalfEvenAbove
    <3> QED
      BY <3>1, <3>2 DEF Cents, Rounded, cash
  <2> QED
    BY <1>5, <1>7, <2>3 DEF Lesser
<1> QED
  BY <1>2, <1>8, <1>9, <1>10 DEF s, owed

(* Collateral that is freed and seized is stored as before, in another place. *)
LEMMA CollateralKept ==
  ASSUME WholeInv, NEW l \in LoanRecords
  PROVE  LET t == Collateral(l)
             n == IF Defaults(l) THEN Recovered(l) ELSE 0
         IN /\ t \in Stocks /\ n \in Int
            /\ \A g : Stored(t, g) = Stored(market.stock, g)
            /\ \A b : Held(t, b) = Held(market.stock, b) + At(l.bank, b, n) /\ Held(market.stock, b) \in Int
<1> DEFINE s == market.stock
           t == Collateral(l)
           a == Pledge(l)
           v == Vault(l)
           n == IF Defaults(l) THEN Recovered(l) ELSE 0
           z == Seized(l)
           f == IF Ended(l) THEN Released(l) ELSE 0
           u == [row \in Rows |-> [quantity |-> s[row].quantity - At(row, a, z),
                                   pledged |-> s[row].pledged - At(row, a, f),
                                   carrying |-> s[row].carrying]]
<1>1. /\ a \in Rows /\ v \in Rows /\ a[3] = v[3] /\ v[1] = l.bank /\ s \in Stocks
      /\ z \in 0 .. s[a].quantity /\ z \in Int /\ f \in 0 .. s[a].pledged /\ f \in Int /\ n \in Nat
  <2>1. s \in Stocks /\ l.principal \in Nat /\ l.interest \in Nat
    BY MarketOfInv DEF LoanRecords
  <2>2. /\ a \in Rows /\ v \in Rows /\ a[3] = v[3] /\ v[1] = l.bank
        /\ z \in 0 .. s[a].quantity /\ Released(l) \in 0 .. s[a].pledged
        /\ Recovered(l) \in 0 .. l.principal + l.interest
    BY SeizedTyped
  <2>3. s[a].quantity \in Nat /\ s[a].pledged \in Nat
    BY <2>1, <2>2, StockTyped
  <2>4. Recovered(l) \in Nat /\ z \in Int /\ f \in 0 .. s[a].pledged /\ f \in Int
    BY <2>1, <2>2, <2>3
  <2> QED
    BY <2>1, <2>2, <2>3, <2>4
<1>2. t = [row \in Rows |-> [quantity |-> s[row].quantity + (At(row, v, z) - At(row, a, z)),
                             pledged |-> s[row].pledged - At(row, a, f),
                             carrying |-> s[row].carrying + At(row, v, n)]]
  BY DEF Collateral
<1> HIDE DEF s, a, v, z, f, n, t
<1>3. ASSUME NEW row \in Rows
      PROVE  /\ At(row, v, z) \in Nat /\ At(row, v, n) \in Nat
             /\ s[row].quantity - At(row, a, z) \in Nat /\ s[row].pledged - At(row, a, f) \in Nat
             /\ s[row].quantity \in Nat /\ s[row].carrying \in Nat
  <2>1. s[row].quantity \in Nat /\ s[row].pledged \in Nat /\ s[row].carrying \in Nat
    BY <1>1, StockTyped
  <2> QED
    BY <1>1, <2>1 DEF At
<1>4. \A row \in Rows :
        /\ u[row] = [quantity |-> s[row].quantity - At(row, a, z),
                     pledged |-> s[row].pledged - At(row, a, f), carrying |-> s[row].carrying]
        /\ t[row] = [quantity |-> s[row].quantity + (At(row, v, z) - At(row, a, z)),
                     pledged |-> s[row].pledged - At(row, a, f),
                     carrying |-> s[row].carrying + At(row, v, n)]
        /\ t = [x \in Rows |-> t[x]] /\ u = [x \in Rows |-> u[x]]
  BY <1>2
<1> HIDE DEF u
<1>5. ASSUME NEW row \in Rows
      PROVE  /\ u[row].quantity = s[row].quantity - At(row, a, z)
             /\ t[row].quantity = u[row].quantity + At(row, v, z)
             /\ u[row].carrying = s[row].carrying
             /\ t[row].carrying = s[row].carrying + At(row, v, n)
             /\ u[row] \in [quantity : Nat, pledged : Nat, carrying : Nat]
             /\ t[row] \in [quantity : Nat, pledged : Nat, carrying : Nat]
             /\ u[row].quantity \in Nat
  <2> DEFINE q == s[row].quantity - At(row, a, z)
             p == s[row].pledged - At(row, a, f)
             c == s[row].carrying
             vz == At(row, v, z)
             vn == At(row, v, n)
  <2>1. q \in Nat /\ p \in Nat /\ c \in Nat /\ vz \in Nat /\ vn \in Nat
    BY <1>3
  <2>2. s[row].quantity + (vz - At(row, a, z)) = q + vz
    <3>1. s[row].quantity \in Int /\ vz \in Int /\ At(row, a, z) \in Int
      BY <1>1, <1>3 DEF At
    <3> QED
      BY <3>1
  <2>3. u[row] = [quantity |-> q, pledged |-> p, carrying |-> c]
        /\ t[row] = [quantity |-> q + vz, pledged |-> p, carrying |-> c + vn]
    BY <1>4, <2>2
  <2> HIDE DEF q, p, c, vz, vn
  <2>4. /\ u[row].quantity = q /\ t[row].quantity = q + vz /\ u[row].carrying = c /\ t[row].carrying = c + vn
        /\ u[row] \in [quantity : Nat, pledged : Nat, carrying : Nat]
        /\ t[row] \in [quantity : Nat, pledged : Nat, carrying : Nat]
    BY <2>1, <2>3
  <2> QED
    BY <2>1, <2>4 DEF q, c, vz, vn
<1>6. u \in Stocks /\ t \in Stocks
  BY <1>1, <1>4, <1>5 DEF Stocks
<1>7. ASSUME NEW g PROVE Stored(t, g) = Stored(s, g)
  <2>1. 0 - z \in Int /\ u[a].quantity = s[a].quantity + (0 - z) /\ t[v].quantity = u[v].quantity + z
        /\ s[a].quantity \in Int
    BY <1>1, <1>3, <1>5 DEF At
  <2>2. \A r \in Rows : r # a => u[r].quantity = s[r].quantity
    BY <1>3, <1>5 DEF At
  <2>3. \A r \in Rows : r # v => t[r].quantity = u[r].quantity
    BY <1>3, <1>5 DEF At
  <2>4. Stored(u, g) = Stored(s, g) + Goes(a, 0 - z, g) /\ Stored(s, g) \in Int
    BY <1>1, <1>6, <2>1, <2>2, StoredChange
  <2>5. Stored(t, g) = Stored(u, g) + Goes(v, z, g) /\ Stored(u, g) \in Int
    BY <1>1, <1>6, <2>1, <2>3, StoredChange
  <2>6. Goes(v, z, g) \in Int /\ Goes(a, 0 - z, g) = 0 - Goes(v, z, g)
    BY <1>1 DEF Goes
  <2> QED
    BY <2>4, <2>5, <2>6
<1>8. ASSUME NEW b PROVE Held(t, b) = Held(s, b) + At(l.bank, b, n) /\ Held(s, b) \in Int
  <2>1. t[v].carrying = s[v].carrying + n /\ \A r \in Rows : r # v => t[r].carrying = s[r].carrying
    BY <1>1, <1>3, <1>5 DEF At
  <2>2. n \in Int
    BY <1>1
  <2>3. Held(t, b) = Held(s, b) + At(v[1], b, n) /\ Held(s, b) \in Int
    BY <1>1, <1>6, <2>1, <2>2, HeldChange
  <2> QED
    BY <1>1, <2>3
<1>9. n \in Int
  BY <1>1
<1> QED
  BY <1>6, <1>7, <1>8, <1>9 DEF s, t, n

(* A loan's payments, its default and what is recovered come out even. *)
LEMMA ServedSafe ==
  ASSUME WholeInv, NEW id \in DOMAIN loans, Active(id), NEW i \in Nat, NEW p \in Nat, NEW hit,
         NEW l, l = Served(loans[id], i, p, hit), ~Overpaid(l),
         NEW paid \in SoundMoney, CoinsOf(paid) = CoinsOf(market.money),
         \A b \in Banks : Net(paid, b) = Net(market.money, b) + At(b, loans[id].bank, i + p),
         Serviced(id, loans[id], l, paid, i), NextStep, UNCHANGED <<price, labor, people, arrears, day>>
  PROVE  Safe
<1> DEFINE old == loans[id]
           new == IF Defaults(l) THEN Off(l) ELSE l
           stock == Collateral(l)
           n == IF Defaults(l) THEN Recovered(l) ELSE 0
           earned == NewInterest(old)
           bank == old.bank
           bk == Accounted(books[bank], old, l, i)
           bks == [books EXCEPT ![bank] = bk]
           lns == [loans EXCEPT ![id] = new]
<1>1. Lent /\ old \in LoanRecords /\ bank \in Banks /\ Owing(old)
  BY DEF WholeInv, Typed, Lent, LoanRecords, Active
<1>2. earned \in Nat /\ old.principal \in Nat /\ old.interest \in Nat
  BY <1>1, LoanDue
<1>3. /\ l \in LoanRecords /\ l.bank = bank /\ l.principal = old.principal - p
      /\ l.interest = old.interest + earned - i
      /\ Owing(l) \/ (l.principal = 0 /\ l.interest = 0)
      /\ l.principal \in Nat /\ l.interest \in Nat
  BY <1>1, ServedTyped
<1>4. /\ market' = [market EXCEPT !.money = paid, !.stock = stock] /\ books' = bks /\ loans' = lns
  BY DEF Serviced, Off
<1>5. UNCHANGED <<month, price, labor, people, day>>
  BY DEF NextStep
<1> HIDE DEF old, stock
<1>6. /\ new \in LoanRecords /\ new.bank = bank /\ (Owing(new) \/ (new.principal = 0 /\ new.interest = 0))
      /\ new.principal = (IF Defaults(l) THEN 0 ELSE l.principal)
      /\ new.interest = (IF Defaults(l) THEN 0 ELSE l.interest)
  BY <1>3, OffTyped
<1> HIDE DEF new
<1>7. /\ market \in Markets /\ Shaped(market) /\ IsFiniteSet(market.transit) /\ market.money \in SoundMoney
  BY MarketParts, MarketOfInv DEF Shaped
<1>8. /\ stock \in Stocks /\ n \in Int
      /\ \A g : Stored(stock, g) = Stored(market.stock, g)
      /\ \A b : Held(stock, b) = Held(market.stock, b) + At(bank, b, n) /\ Held(market.stock, b) \in Int
  BY <1>3, CollateralKept DEF stock
<1> HIDE DEF n
<1>9. Shaped(market') /\ Others(market, market', {"money", "stock"}) /\ market'.money = paid /\ market'.stock = stock
  BY <1>4, <1>7 DEF Shaped, Others
<1>10. market' \in Markets
  BY <1>7, <1>8, <1>9, MarketParts DEF Shaped, Others
<1>11. Stocked(market', month', day'.opening)
  <2>1. Numbered(market', month')
    BY <1>5, <1>9 DEF Numbered, Others, WholeInv, Stocked
  <2>2. \A g \in Goods : Balance(market', g) = Balance(market, g)
    BY <1>8, <1>9, StoreParts DEF Balance, Others
  <2> QED
    BY <1>5, <1>10, <2>1, <2>2 DEF Stocked, WholeInv
<1>12. /\ \A b : /\ PrincipalOf(lns, b) = PrincipalOf(loans, b) + (IF bank = b THEN new.principal - old.principal ELSE 0)
                 /\ InterestOf(lns, b) = InterestOf(loans, b) + (IF bank = b THEN new.interest - old.interest ELSE 0)
       /\ DOMAIN lns = DOMAIN loans /\ lns \in [DOMAIN lns -> LoanRecords]
  <2>1. /\ IsFiniteSet(DOMAIN loans) /\ loans \in [DOMAIN loans -> LoanRecords] /\ Owing(loans[id])
        /\ new.bank = loans[id].bank
    BY <1>1, <1>6 DEF Lent, old
  <2> QED
    BY <1>6, <2>1, LoanChanged DEF old
<1>13. /\ books[bank] \in [interest : Int, collateral : Int, equity : Int]
       /\ \A b \in Banks : books[b].interest \in Int /\ books[b].collateral \in Int /\ books[b].equity \in Int
       /\ books \in [Banks -> [interest : Int, collateral : Int, equity : Int]]
  BY <1>1 DEF WholeInv, Typed, Books
<1> DEFINE off == IF Defaults(l) THEN l.interest ELSE 0
           lost == IF Defaults(l) THEN l.principal + l.interest - n ELSE 0
<1>14. off \in Int /\ lost \in Int
  BY <1>3, <1>8
<1>15. bk = [books[bank] EXCEPT !.interest = @ + earned - i - off, !.collateral = @ + n,
                                !.equity = @ + earned - lost]
  BY DEF Accounted, n
<1> HIDE DEF off, lost, bk, earned, lns
<1>16. /\ bk \in [interest : Int, collateral : Int, equity : Int]
       /\ bk.interest = books[bank].interest + earned - i - off
       /\ bk.collateral = books[bank].collateral + n
       /\ bk.equity = books[bank].equity + earned - lost
  <2>1. /\ books[bank].interest + earned - i - off \in Int /\ books[bank].collateral + n \in Int
        /\ books[bank].equity + earned - lost \in Int
    BY <1>1, <1>2, <1>8, <1>13, <1>14
  <2> QED
    BY <1>13, <1>15, <2>1
<1>17. bks \in Books /\ bks[bank] = bk /\ \A b \in Banks : b # bank => bks[b] = books[b]
  BY <1>1, <1>13, <1>16 DEF Books
<1> HIDE DEF bks
<1>18. Booked(market', books', loans')
  <2> SUFFICES ASSUME NEW b \in Banks
               PROVE  /\ bks[b].interest = InterestOf(lns, b)
                      /\ bks[b].collateral = Held(stock, b)
                      /\ Net(paid, b) + PrincipalOf(lns, b) + bks[b].interest + bks[b].collateral = bks[b].equity
    BY <1>4, <1>9 DEF Booked
  <2>1. /\ books[b].interest = InterestOf(loans, b) /\ books[b].collateral = Held(market.stock, b)
        /\ Net(market.money, b) + PrincipalOf(loans, b) + books[b].interest + books[b].collateral
             = books[b].equity
    BY DEF WholeInv, Booked
  <2>2. PrincipalOf(loans, b) \in Int /\ InterestOf(loans, b) \in Int
    BY <1>1, LoansTyped DEF Lent
  <2>3. Net(market.money, b) \in Int
    BY <1>7 DEF SoundMoney, Moneys, Net
  <2>4. Net(paid, b) = Net(market.money, b) + At(b, bank, i + p)
    BY DEF old
  <2>5. CASE b # bank
    <3>1. At(b, bank, i + p) = 0 /\ At(bank, b, n) = 0
      BY <2>5 DEF At
    <3> QED
      BY <1>8, <1>12, <1>13, <1>17, <2>1, <2>2, <2>3, <2>4, <2>5, <3>1
  <2>6. CASE b = bank
    <3>1. At(b, bank, i + p) = i + p /\ At(bank, b, n) = n
      BY <2>6 DEF At
    <3>2. bks[b].interest = InterestOf(lns, b)
      <4>1. new.interest - old.interest = earned - i - off
        BY <1>2, <1>3, <1>6 DEF off
      <4>2. InterestOf(lns, b) = InterestOf(loans, b) + (new.interest - old.interest)
        BY <1>12, <2>6
      <4> QED
        BY <1>2, <1>14, <1>16, <1>17, <2>1, <2>2, <2>6, <4>1, <4>2
    <3>3. bks[b].collateral = Held(stock, b)
      BY <1>8, <1>16, <1>17, <2>1, <2>6, <3>1
    <3>4. new.principal - old.principal = 0 - p - (IF Defaults(l) THEN l.principal ELSE 0)
      BY <1>2, <1>3, <1>6
    <3>5. n = 0 \/ Defaults(l)
      BY DEF n
    <3>6. PrincipalOf(lns, b) = PrincipalOf(loans, b) + (new.principal - old.principal)
      BY <1>12, <2>6
    <3>7. Net(paid, b) + PrincipalOf(lns, b) + bks[b].interest + bks[b].collateral = bks[b].equity
      <4>1. /\ bks[b].interest = books[b].interest + earned - i - off
            /\ bks[b].collateral = books[b].collateral + n
            /\ bks[b].equity = books[b].equity + earned - lost
        BY <1>16, <1>17, <2>6
      <4>2. lost = (IF Defaults(l) THEN l.principal ELSE 0) + off - n
        BY <1>3, <1>8, <3>5 DEF lost, off
      <4>3. (IF Defaults(l) THEN l.principal ELSE 0) \in Int
        BY <1>3
      <4> DEFINE lp == IF Defaults(l) THEN l.principal ELSE 0
                 N == Net(market.money, b)
                 P == PrincipalOf(loans, b)
                 I == books[b].interest
                 C == books[b].collateral
                 E == books[b].equity
      <4>4. /\ Net(paid, b) = N + (i + p) /\ PrincipalOf(lns, b) = P + (0 - p - lp)
            /\ bks[b].interest = I + earned - i - off /\ bks[b].collateral = C + n
            /\ bks[b].equity = E + earned - lost /\ lost = lp + off - n
            /\ N + P + I + C = E
        BY <2>1, <2>4, <3>1, <3>4, <3>6, <4>1, <4>2
      <4>5. /\ N \in Int /\ P \in Int /\ I \in Int /\ C \in Int /\ E \in Int /\ lp \in Int /\ off \in Int
            /\ n \in Int /\ earned \in Int
        BY <1>2, <1>8, <1>13, <1>14, <2>2, <2>3, <4>3
      <4> HIDE DEF lp, N, P, I, C, E
      <4> QED
        BY <4>4, <4>5
    <3> QED
      BY <3>2, <3>3, <3>7
  <2> QED
    BY <2>5, <2>6
<1>19. Typed'
  <2>1. Lent'
    BY <1>1, <1>4, <1>12 DEF Lent
  <2> QED
    BY <1>4, <1>5, <1>17, <2>1 DEF Typed, WholeInv
<1> QED
  BY <1>9, <1>11, <1>18, <1>19 DEF Safe, WholeInv, Coins, CoinsOf

(* A loan that is paid, missed, repaid, or in default with its collateral    *)
(* seized and the rest written off keeps the bank's sheet (ServiceLoan).     *)
LEMMA ServiceSafe == ASSUME WholeInv, ServiceLoan PROVE Safe
<1> DEFINE id == LoanOrder[Item]
           old == loans[id]
           due == Cents(old.interest + NewInterest(old))
           once == PaidIn(market.money, old.borrower, old.bank, due)
           i == Arriving(market.money, old.borrower, old.bank, due)
           more == PrincipalDue(old)
           p == Arriving(once, old.borrower, old.bank, more)
           paid == PaidIn(once, old.borrower, old.bank, more)
<1>1. CASE NextStep /\ UNCHANGED <<market, account, day>>
  <2>1. Trades
    BY <1>1, StaysTrades DEF NextStep
  <2> QED
    BY <2>1, TradesSafe
<1>2. CASE \E why : Fail(why)
  BY <1>2, FailTrades, TradesSafe
<1>3. ASSUME id \in DOMAIN loans, Active(id), NEW hit,
             ~Overpaid(Served(old, i, p, hit)),
             Serviced(id, old, Served(old, i, p, hit), paid, i),
             NextStep, UNCHANGED <<price, labor, people, arrears, day>>
      PROVE  Safe
  <2>1. old \in LoanRecords /\ old.bank \in Banks /\ old.borrower \in Entities
    BY <1>3 DEF WholeInv, Typed, Lent, LoanRecords
  <2>2. due \in Nat /\ more \in Nat
    BY <2>1, LoanDue
  <2>3. market.money \in SoundMoney
    BY MarketOfInv
  <2> HIDE DEF due, more
  <2>4. /\ once \in SoundMoney /\ i \in Nat /\ CoinsOf(once) = CoinsOf(market.money)
        /\ \A b \in Banks : Net(once, b) = Net(market.money, b) + At(b, old.bank, i) /\ Net(market.money, b) \in Int
    BY <2>1, <2>2, <2>3, PaidInKeeps
  <2> HIDE DEF once, i
  <2>5. /\ paid \in SoundMoney /\ p \in Nat /\ CoinsOf(paid) = CoinsOf(once)
        /\ \A b \in Banks : Net(paid, b) = Net(once, b) + At(b, old.bank, p)
    BY <2>1, <2>2, <2>4, PaidInKeeps
  <2> HIDE DEF paid, p
  <2>6. \A b \in Banks : Net(paid, b) = Net(market.money, b) + At(b, old.bank, i + p)
    BY <2>4, <2>5 DEF At
  <2>7. CoinsOf(paid) = CoinsOf(market.money)
    BY <2>4, <2>5
  <2> QED
    BY <1>3, <2>4, <2>5, <2>6, <2>7, ServedSafe
<1>4. \/ NextStep /\ UNCHANGED <<market, account, day>>
      \/ id \in DOMAIN loans /\ Active(id) /\ \E hit : Withdrawn(id, old, once, i, hit)
  BY DEF ServiceLoan
<1>5. ASSUME NEW hit, Withdrawn(id, old, once, i, hit)
      PROVE  \/ Fail("exposure")
             \/ /\ ~Overpaid(Served(old, i, p, hit))
                /\ Serviced(id, old, Served(old, i, p, hit), paid, i)
                /\ NextStep /\ UNCHANGED <<price, labor, people, arrears, day>>
  BY <1>5 DEF Withdrawn, Settled
<1> HIDE DEF id, old, once, i, p, paid
<1> QED
  BY <1>1, <1>2, <1>3, <1>4, <1>5

(* A step that changes nothing keeps the invariant. *)
LEMMA StutterSafe == ASSUME WholeInv, UNCHANGED vars PROVE Safe
<1>1. UNCHANGED <<month, market, account, day>>
  BY DEF vars, account
<1>2. Trades
  BY <1>1, StaysTrades
<1> QED
  BY <1>2, TradesSafe

(* Every step keeps the invariant, and the coins there are. *)
LEMMA StepSafe == ASSUME WholeInv, [Next]_vars PROVE Safe
<1>1. CASE ApplyShocks
  BY <1>1, ShocksTrade, TradesSafe
<1>2. CASE Arrive
  BY <1>2, ArriveTrades, TradesSafe
<1>3. CASE AllArrived
  BY <1>3, AllArrivedTrades, TradesSafe
<1>4. CASE OriginateCredit
  BY <1>4, CreditSafe
<1>5. CASE Produce
  BY <1>5, ProduceSafe
<1>6. CASE AdjustWages
  BY <1>6, WagesTrade, TradesSafe
<1>7. CASE ApplyStorageSpoilage
  BY <1>7, SpoilageSafe
<1>8. CASE OpenMarket
  BY <1>8, OpenTrades, TradesSafe
<1>9. CASE Household
  BY <1>9, HouseholdTrades, TradesSafe
<1>10. CASE Business
  BY <1>10, BusinessTrades, TradesSafe
<1>11. CASE AdjustPrices
  BY <1>11, PricesTrade, TradesSafe
<1>12. CASE CollectObligations
  BY <1>12, CollectTrades, TradesSafe
<1>13. CASE ServiceLoan
  BY <1>13, ServiceSafe
<1>14. CASE Migrate
  BY <1>14, MigrateTrades, TradesSafe
<1>15. CASE CloseMonth
  BY <1>15, CloseSafe
<1>16. CASE UNCHANGED vars
  BY <1>16, StutterSafe
<1> QED
  BY <1>1, <1>2, <1>3, <1>4, <1>5, <1>6, <1>7, <1>8, <1>9, <1>10, <1>11, <1>12, <1>13, <1>14,
     <1>15, <1>16 DEF Next

(* The inductive invariant: the types, the goods there are, and each bank's  *)
(* sheet.                                                                    *)
THEOREM WholeSafe == Spec => []WholeInv
<1>1. Init => WholeInv
  BY InitSafe
<1>2. WholeInv /\ [Next]_vars => WholeInv'
  BY StepSafe DEF Safe
<1> QED
  BY <1>1, <1>2, PTL DEF Spec

(* Each bank's deposits, interest, collateral and balance sheet reconcile    *)
(* after every step, for every accepted scenario (whole_economy.py _checks). *)
THEOREM BanksAlwaysReconcile == Spec => []BanksReconcile
<1>1. WholeInv => BanksReconcile
  BY WholeImplies
<1> QED
  BY <1>1, WholeSafe, PTL

(* What there is of a good, in store and under way, is what the month opened *)
(* with less what is gone (whole_economy.py _checks, physical totals).       *)
THEOREM GoodsAlwaysConserved == Spec => []GoodsConserved
<1>1. WholeInv => GoodsConserved
  BY WholeImplies
<1> QED
  BY <1>1, WholeSafe, PTL

(* No step makes or loses a coin: credit and write-offs move deposits and    *)
(* equity only (whole_economy.py transfer, _originate_credit,                *)
(* _service_loans).                                                          *)
THEOREM CoinsAlwaysConserved == Spec => CoinsConserved
<1>1. WholeInv /\ [Next]_vars => [Coins' = Coins]_vars
  BY StepSafe DEF Safe
<1> QED
  BY <1>1, WholeSafe, PTL DEF Spec, CoinsConserved
-----------------------------------------------------------------------------
\* What the loans that are owed were promised of a row, and what is pledged of
\* it for them.
OwedOn(lns, row) == {l \in DOMAIN lns : Owing(lns[l]) /\ Pledge(lns[l]) = row}
PromisedOf(lns, row) == Sum([l \in DOMAIN lns |-> lns[l].pledge], OwedOn(lns, row))
Secured(stock, lns) ==
  \A row \in Rows :
    /\ stock[row].pledged <= stock[row].quantity
    /\ stock[row].pledged <= PromisedOf(lns, row)
    /\ MaySpoil(row) \/ stock[row].pledged = PromisedOf(lns, row)
PledgeInv == WholeInv /\ Secured(market.stock, loans)

(* What was promised of a row to the loans that are owed is not negative. *)
LEMMA PromisedTyped ==
  ASSUME NEW lns, IsFiniteSet(DOMAIN lns), lns \in [DOMAIN lns -> LoanRecords], NEW row
  PROVE  /\ PromisedOf(lns, row) \in Nat
         /\ IsFiniteSet(OwedOn(lns, row)) /\ OwedOn(lns, row) \subseteq DOMAIN lns
         /\ \A l \in DOMAIN lns : lns[l].pledge \in Nat
<1> DEFINE S == OwedOn(lns, row)
           F == [l \in DOMAIN lns |-> lns[l].pledge]
<1>1. IsFiniteSet(S) /\ S \subseteq DOMAIN lns
  BY FS_Subset DEF OwedOn
<1>2. \A l \in DOMAIN lns : lns[l].pledge \in Nat
  <2>1. \A l \in DOMAIN lns : lns[l] \in LoanRecords
    OBVIOUS
  <2> QED
    BY <2>1 DEF LoanRecords
<1>3. \A l \in S : F[l] \in Nat
  BY <1>1, <1>2
<1> HIDE DEF F, S
<1>4. Sum(F, S) \in Nat
  BY <1>1, <1>3, SumNat
<1> QED
  BY <1>1, <1>2, <1>4 DEF PromisedOf, F, S

(* The invariant says what PledgesKept and the closing check of pledges ask  *)
(* for.                                                                      *)
LEMMA SecuredImplies ==
  ASSUME PledgeInv
  PROVE  PledgesKept /\ PledgesValid
<1>1. \A row \in Rows : Promised(row) = PromisedOf(loans, row)
  BY DEF Promised, PromisedOf, OwedOn, Active
<1>2. \A row \in Rows : /\ market.stock[row].pledged \in Nat /\ market.stock[row].quantity \in Nat
                        /\ market.stock[row].carrying \in Nat
  BY MarketOfInv, StockTyped DEF PledgeInv
<1>3. \A row \in Rows : PromisedOf(loans, row) \in Nat
  BY PromisedTyped DEF PledgeInv, WholeInv, Typed, Lent
<1>4. PledgesValid
  BY <1>2 DEF PledgesValid, PledgeInv, Secured
<1>5. ASSUME NEW row \in Rows
      PROVE  LET s == market.stock[row]
             IN /\ 0 <= s.pledged /\ s.pledged <= Lesser(Promised(row), Larger(0, s.quantity))
                /\ MaySpoil(row) \/ s.pledged = Promised(row)
  <2>1. /\ market.stock[row].pledged <= market.stock[row].quantity
        /\ market.stock[row].pledged <= PromisedOf(loans, row)
        /\ MaySpoil(row) \/ market.stock[row].pledged = PromisedOf(loans, row)
    BY DEF PledgeInv, Secured
  <2>2. /\ market.stock[row].pledged \in Nat /\ market.stock[row].quantity \in Nat
        /\ PromisedOf(loans, row) \in Nat /\ Promised(row) = PromisedOf(loans, row)
    BY <1>1, <1>2, <1>3
  <2>3. Larger(0, market.stock[row].quantity) = market.stock[row].quantity
    BY <2>2 DEF Larger
  <2> QED
    BY <2>1, <2>2, <2>3 DEF Lesser
<1> QED
  BY <1>4, <1>5 DEF PledgesKept

\* The pledges after a step.
Secures == Secured(market'.stock, loans')

(* Trading takes only what is available. *)
LEMMA TradesSecure == ASSUME PledgeInv, Trades PROVE Secures
<1>1. StockKept(market.stock, market'.stock) /\ loans' = loans
  BY DEF Trades, Traded
<1> QED
  BY <1>1 DEF StockKept, Secures, Secured, PledgeInv

(* A new loan adds its pledge to what was promised of its row, and to no     *)
(* other.                                                                    *)
LEMMA PledgeAdded ==
  ASSUME NEW lns, IsFiniteSet(DOMAIN lns), lns \in [DOMAIN lns -> LoanRecords],
         NEW id, id \notin DOMAIN lns, NEW new \in LoanRecords, Owing(new), NEW k,
         k = [l \in DOMAIN lns \cup {id} |-> IF l = id THEN new ELSE lns[l]], NEW row
  PROVE  PromisedOf(k, row) = PromisedOf(lns, row) + At(row, Pledge(new), new.pledge)
<1> DEFINE S == DOMAIN lns
           T == OwedOn(lns, row)
           U == OwedOn(k, row)
           F == [l \in DOMAIN lns |-> lns[l].pledge]
           G == [l \in DOMAIN k |-> k[l].pledge]
<1>1. DOMAIN k = S \cup {id} /\ k[id] = new /\ \A l \in S : k[l] = lns[l]
  OBVIOUS
<1>2. /\ T \subseteq S /\ IsFiniteSet(T) /\ id \notin T
      /\ \A l \in S : lns[l].pledge \in Nat
  BY PromisedTyped DEF S
<1>3. new.pledge \in Nat
  BY DEF LoanRecords
<1> HIDE DEF S
<1>4. U = IF Pledge(new) = row THEN T \cup {id} ELSE T
  BY <1>1 DEF OwedOn, S
<1>5. \A l \in T : F[l] \in Int /\ G[l] = F[l]
  BY <1>1, <1>2 DEF S
<1>6. G[id] = new.pledge
  BY <1>1
<1>7. PromisedOf(lns, row) = Sum(F, T) /\ PromisedOf(k, row) = Sum(G, U)
  BY DEF PromisedOf
<1> HIDE DEF T, U, F, G
<1>8. Sum(G, T \cup {id}) = Sum(F, T) + G[id] /\ Sum(F, T) \in Int
  <2>1. G[id] \in Int
    BY <1>3, <1>6
  <2> QED
    BY <1>2, <1>5, <2>1, SumGrown
<1>9. Sum(G, T) = Sum(F, T)
  BY <1>2, <1>5, SumEqual
<1> QED
  BY <1>3, <1>4, <1>6, <1>7, <1>8, <1>9 DEF At

(* What is pledged for a new loan was available (OriginateCredit). *)
LEMMA CreditSecures == ASSUME PledgeInv, OriginateCredit PROVE Secures
<1> DEFINE r == Requests[Item]
           row == Pledge(r)
           stock == [market.stock EXCEPT ![row].pledged = @ + r.pledge]
           new == Loan(r)
           lns == [l \in DOMAIN loans \cup {r.loan} |-> IF l = r.loan THEN new ELSE loans[l]]
<1>1. Item \in DOMAIN Requests
  BY ItemOf DEF OriginateCredit
<1>2. r.pledge \in Nat /\ row \in Rows
  BY <1>1, RequestsKnown DEF Pledge, Places, Rows
<1>3. new \in LoanRecords /\ Owing(new)
  BY <1>1, LoanMade DEF PledgeInv
<1>4. new.pledge = r.pledge /\ Pledge(new) = row
  BY DEF Loan, Pledge
<1>5. CASE UNCHANGED <<market, loans>>
  BY <1>5 DEF Secures, PledgeInv
<1>6. CASE /\ r.loan \notin DOMAIN loans /\ Covered(r)
           /\ market' = [market EXCEPT !.money.deposit[r.borrower] = @ + r.amount,
                             !.money.liability[r.bank] = @ + r.amount,
                             !.stock[Pledge(r)].pledged = @ + r.pledge]
           /\ loans' = lns
  <2>1. Shaped(market) /\ market.stock \in Stocks
    BY MarketParts, MarketOfInv DEF Shaped, PledgeInv
  <2>2. market'.stock = stock
    BY <1>6, <2>1 DEF Shaped
  <2>3. r.pledge <= Available(market.stock[row])
    BY <1>6 DEF Covered
  <2>4. Lent
    BY DEF PledgeInv, WholeInv, Typed
  <2> HIDE DEF r, row, new
  <2>5. \A x \in Rows : /\ stock[x].quantity = market.stock[x].quantity
                        /\ stock[x].pledged = market.stock[x].pledged + At(x, row, r.pledge)
    <3> DEFINE s == market.stock
               n == r.pledge
    <3>1. s \in Stocks /\ n \in Nat /\ stock = [s EXCEPT ![row].pledged = @ + n]
      BY <1>2, <2>1
    <3> HIDE DEF s, n, stock
    <3>2. \A x \in Rows : stock[x].quantity = s[x].quantity /\ stock[x].pledged = s[x].pledged + At(x, row, n)
      <4> TAKE x \in Rows
      <4>1. s[row].pledged \in Nat /\ s[x].pledged \in Nat /\ s[row] \in [quantity : Nat, pledged : Nat, carrying : Nat]
        BY <1>2, <3>1, StockTyped
      <4>2. stock[x] = IF x = row THEN [s[row] EXCEPT !.pledged = @ + n] ELSE s[x]
        BY <1>2, <3>1 DEF Stocks
      <4>3. CASE x = row
        BY <3>1, <4>1, <4>2, <4>3 DEF At
      <4>4. CASE x # row
        BY <4>1, <4>2, <4>4 DEF At
      <4> QED
        BY <4>3, <4>4
    <3> QED
      BY <3>2 DEF s, n
  <2>6. \A x : PromisedOf(lns, x) = PromisedOf(loans, x) + At(x, row, r.pledge)
    <3>1. ASSUME NEW x
          PROVE  PromisedOf(lns, x) = PromisedOf(loans, x) + At(x, Pledge(new), new.pledge)
      BY <1>3, <1>6, <2>4, PledgeAdded DEF Lent
    <3> QED
      BY <1>4, <3>1
  <2> HIDE DEF stock, lns
  <2>7. ASSUME NEW x \in Rows
        PROVE  /\ stock[x].pledged <= stock[x].quantity
               /\ stock[x].pledged <= PromisedOf(lns, x)
               /\ MaySpoil(x) \/ stock[x].pledged = PromisedOf(lns, x)
    <3>1. /\ market.stock[x].pledged <= market.stock[x].quantity
          /\ market.stock[x].pledged <= PromisedOf(loans, x)
          /\ MaySpoil(x) \/ market.stock[x].pledged = PromisedOf(loans, x)
      BY DEF PledgeInv, Secured
    <3>2. market.stock[x].pledged \in Nat /\ market.stock[x].quantity \in Nat
      BY <2>1, StockTyped
    <3>3. PromisedOf(loans, x) \in Nat
      BY <2>4, PromisedTyped DEF Lent
    <3>4. At(x, row, r.pledge) \in Nat
      BY <1>2 DEF At
    <3>5. market.stock[x].pledged + At(x, row, r.pledge) <= market.stock[x].quantity
      BY <1>2, <2>3, <3>1, <3>2 DEF At, Available, Larger
    <3> QED
      BY <2>5, <2>6, <3>1, <3>2, <3>3, <3>4, <3>5
  <2> QED
    BY <1>6, <2>2, <2>7 DEF Secures, Secured
<1> QED
  BY <1>5, <1>6 DEF OriginateCredit

(* A recipe takes from a row no more than the input of its batches, and      *)
(* leaves the pledges.                                                       *)
LEMMA WorkedLeaves ==
  ASSUME WholeInv, NEW i \in DOMAIN Recipes, NEW count \in Nat, NEW row \in Rows
  PROVE  LET r == Recipes[i]
             before == market.stock[row]
             after == Worked(r, count).stock[row]
         IN /\ after.pledged = before.pledged /\ after.quantity \in Int
            /\ \/ after.quantity >= before.quantity
               \/ /\ row[3] \in DOMAIN r.inputs /\ row = <<r.entity, r.site, row[3]>>
                  /\ after.quantity >= before.quantity - Times(r.inputs[row[3]], count)
<1> DEFINE r == Recipes[i]
           g == row[3]
           made == IF g \in DOMAIN r.outputs THEN Times(r.outputs[g], count) ELSE 0
           used == IF g \in DOMAIN r.inputs THEN Times(r.inputs[g], count) ELSE 0
           s == market.stock[row]
           t == Worked(r, count).stock[row]
<1>1. /\ r.inputs \in [DOMAIN r.inputs -> Nat] /\ r.outputs \in [DOMAIN r.outputs -> Nat]
  BY RecipesKnown
<1>2. Shaped(market) /\ market.stock \in Stocks
  BY MarketParts, MarketOfInv DEF Shaped
<1>3. s \in [quantity : Nat, pledged : Nat, carrying : Nat] /\ s.quantity \in Nat
  BY <1>2, StockTyped
<1>4. t = IF row = <<r.entity, r.site, g>>
          THEN [s EXCEPT !.quantity = @ + (made - used)] ELSE s
  <2> DEFINE Amount(of, h) == IF h \in DOMAIN of THEN Times(of[h], count) ELSE 0
             stock == [x \in Rows |->
                         IF x = <<r.entity, r.site, x[3]>>
                         THEN [market.stock[x] EXCEPT
                                 !.quantity = @ + (Amount(r.outputs, x[3]) - Amount(r.inputs, x[3]))]
                         ELSE market.stock[x]]
             gone == [h \in Goods |-> market.gone[h] - (Amount(r.outputs, h) - Amount(r.inputs, h))]
  <2>1. Worked(r, count) = [market EXCEPT !.stock = stock, !.gone = gone]
    BY DEF Worked
  <2>2. Worked(r, count).stock = stock
    <3> HIDE DEF stock, gone
    <3> QED
      BY <1>2, <2>1 DEF Shaped
  <2> QED
    BY <2>2
<1>5. made \in Nat /\ used \in Nat
  BY <1>1, TimesNat
<1> HIDE DEF s, t, r, g
<1>6. CASE row # <<r.entity, r.site, g>>
  BY <1>3, <1>4, <1>6 DEF s, t, r
<1>7. CASE row = <<r.entity, r.site, g>>
  <2> DEFINE n == made - used
  <2>1. n \in Int /\ t = [s EXCEPT !.quantity = @ + n]
    BY <1>4, <1>5, <1>7
  <2>2. t.quantity = s.quantity + n /\ t.pledged = s.pledged
    <3> HIDE DEF n
    <3> QED
      BY <1>3, <2>1
  <2>3. t.quantity >= s.quantity - used /\ t.quantity \in Int
    <3> HIDE DEF made, used
    <3> QED
      BY <1>3, <1>5, <2>2
  <2>4. CASE g \in DOMAIN r.inputs
    <3>1. used = Times(r.inputs[g], count)
      BY <2>4
    <3> QED
      BY <1>7, <2>2, <2>3, <2>4, <3>1 DEF s, t, r, g
  <2>5. CASE g \notin DOMAIN r.inputs
    <3>1. used = 0
      BY <2>5
    <3>2. t.quantity >= s.quantity
      BY <1>3, <2>3, <3>1
    <3> QED
      BY <2>2, <2>3, <3>2 DEF s, t, r, g
  <2> QED
    BY <2>4, <2>5
<1> QED
  BY <1>6, <1>7

(* The batches that an exact input allows leave what is pledged in the row. *)
LEMMA InputsThere ==
  ASSUME ExactInputs, PledgeInv, NEW i \in DOMAIN Recipes, NEW row \in Rows
  PROVE  LET after == Worked(Recipes[i], Batches(Recipes[i])).stock[row]
         IN /\ after.pledged = market.stock[row].pledged /\ after.quantity \in Int
            /\ after.pledged <= after.quantity
<1> DEFINE r == Recipes[i]
           n == Batches(r)
           g == row[3]
           s == market.stock[row]
           t == Worked(r, n).stock[row]
           d == r.inputs[g]
<1>1. n \in Nat /\ \A h \in Inputs(r) :
        LET there == Available(market.stock[<<r.entity, r.site, h>>])
        IN there \in Nat /\ (n = 0 \/ n <= Over(there, r.inputs[h]))
  BY BatchesTyped DEF PledgeInv
<1> HIDE DEF n
<1>2. /\ t.pledged = s.pledged /\ t.quantity \in Int
      /\ \/ t.quantity >= s.quantity
         \/ g \in DOMAIN r.inputs /\ row = <<r.entity, r.site, g>> /\ t.quantity >= s.quantity - Times(d, n)
  BY <1>1, WorkedLeaves DEF PledgeInv
<1>3. s.pledged \in Nat /\ s.quantity \in Nat /\ s.pledged <= s.quantity
  BY MarketOfInv, StockTyped DEF PledgeInv, Secured
<1>4. ASSUME g \in DOMAIN r.inputs, row = <<r.entity, r.site, g>>
      PROVE  Times(d, n) \in Nat /\ Times(d, n) <= s.quantity - s.pledged
  <2>1. d \in Nat
    BY <1>4, RecipesKnown
  <2>2. Times(d, n) \in Nat
    BY <1>1, <2>1, TimesNat
  <2>3. d * n = 0 => Times(d, n) <= 0
    <3> SUFFICES ASSUME d * n = 0 PROVE Times(d, n) <= 0
      OBVIOUS
    <3>1. Scale \in Nat \ {0} /\ Scale * 0 = 0
      BY ScaleAssumption
    <3>2. HalfEven(0, Scale) <= 0
      BY <3>1, HalfEvenBelow
    <3> QED
      BY <3>2 DEF Times
  <2>4. CASE d = 0 \/ n = 0
    <3>1. d * n = 0
      BY <1>1, <2>1, <2>4
    <3> QED
      BY <1>3, <2>2, <2>3, <3>1
  <2>5. CASE d # 0 /\ n # 0
    <3>1. g \in Inputs(r) /\ d \in Nat \ {0}
      BY <1>4, <2>1, <2>5 DEF Inputs
    <3>2. Available(s) \in Nat /\ n <= Over(Available(s), d)
      BY <1>1, <1>4, <2>5, <3>1
    <3>3. Scale % d = 0
      BY <3>1 DEF ExactInputs
    <3> DEFINE x == Available(s)
    <3>4. x = s.quantity - s.pledged
      BY <1>3 DEF Available, Larger
    <3> HIDE DEF s, d, x
    <3>5. Times(d, n) <= x
      BY <1>1, <3>1, <3>2, <3>3, QuotientFits DEF x
    <3> QED
      BY <2>2, <3>4, <3>5
  <2> QED
    BY <2>4, <2>5
<1> QED
  BY <1>2, <1>3, <1>4 DEF r, n

(* Batches of exact inputs leave no stock below nothing. *)
LEMMA NeverOverdrawn ==
  ASSUME ExactInputs, PledgeInv, NEW i \in DOMAIN Recipes
  PROVE  ~Overdrawn(Worked(Recipes[i], Batches(Recipes[i])), Recipes[i])
<1> SUFFICES ASSUME NEW g \in DOMAIN Recipes[i].inputs
             PROVE  LET row == <<Recipes[i].entity, Recipes[i].site, g>>
                    IN ~(Worked(Recipes[i], Batches(Recipes[i])).stock[row].quantity < 0)
  BY DEF Overdrawn
<1> DEFINE row == <<Recipes[i].entity, Recipes[i].site, g>>
           after == Worked(Recipes[i], Batches(Recipes[i])).stock[row]
<1>1. row \in Rows
  BY RecipesKnown DEF Rows
<1>2. after.pledged = market.stock[row].pledged /\ after.quantity \in Int /\ after.pledged <= after.quantity
  BY <1>1, InputsThere
<1>3. market.stock[row].pledged \in Nat
  BY <1>1, MarketOfInv, StockTyped DEF PledgeInv
<1> QED
  BY <1>2, <1>3

(* Production works up only what is not pledged (Produce). *)
LEMMA ProduceSecures == ASSUME ExactInputs, PledgeInv, Produce PROVE Secures
<1> DEFINE r == Recipes[Item]
           n == Batches(r)
           k == Worked(r, n)
           paid == Payroll(market, r, n)
<1>1. Item \in DOMAIN Recipes
  BY ItemOf DEF Produce
<1>2. Completed(r, n, k, paid)
  BY DEF Produce, Produced
<1>3. CASE \E why : Fail(why)
  BY <1>3 DEF Fail, account, Secures, PledgeInv
<1>4. CASE market' = [k EXCEPT !.money = paid.money] /\ UNCHANGED account /\ ~Overdrawn(k, r)
  <2>1. n \in Nat
    BY <1>1, BatchesTyped DEF PledgeInv
  <2>2. Shaped(k)
    <3> HIDE DEF n
    <3> QED
      BY <1>1, <1>4, <2>1, WorkedStock DEF PledgeInv
  <2>3. \A row \in Rows : k.stock[row].pledged = market.stock[row].pledged
                          /\ k.stock[row].pledged <= k.stock[row].quantity
    BY <1>1, InputsThere
  <2> HIDE DEF k, paid
  <2>4. market'.stock = k.stock /\ loans' = loans
    BY <1>4, <2>2 DEF Shaped, account
  <2> QED
    BY <2>3, <2>4 DEF Secures, Secured, PledgeInv
<1> QED
  BY <1>2, <1>3, <1>4 DEF Completed

(* Where neither the good nor a shock spoils, nothing is lost. *)
LEMMA NothingLost ==
  ASSUME WholeInv, NEW row \in Rows, ~MaySpoil(row)
  PROVE  Lost(row) = 0
<1> DEFINE D == Delta("spoilage_rate_delta", row[2])
           H == Hitting("spoilage_rate_delta", row[2], Anywhere)
<1>1. Spoilage[row[3]] = 0
  <2>1. row[3] \in Goods
    BY DEF Rows
  <2>2. Spoilage[row[3]] \in Nat
    BY <2>1, ScenarioAssumption, ScaleAssumption DEF ScenarioAccepted, ValidGood, BelowOne
  <2> QED
    BY <2>2 DEF MaySpoil
<1>2. H = {}
  <2>1. day.active \subseteq Shocks
    BY MarketOfInv
  <2> QED
    BY <2>1 DEF Hitting, MaySpoil
<1>3. D = 0
  <2>1. D = Sum([s \in H |-> s.effects["spoilage_rate_delta"]], H)
    BY DEF Delta
  <2> QED
    BY <1>2, <2>1, SumEmpty
<1>4. Between(0, Spoilage[row[3]] + D, Scale - 1) = 0
  BY <1>1, <1>3, ScaleAssumption DEF Between, Larger, Lesser
<1>5. market.stock[row].quantity \in Nat
  BY MarketOfInv, StockTyped
<1>6. Lost(row) = Times(market.stock[row].quantity, 0)
  BY <1>4 DEF Lost
<1>7. market.stock[row].quantity * 0 = 0 /\ Scale \in Nat \ {0} /\ Scale * 0 = 0
  BY <1>5, ScaleAssumption
<1>8. HalfEven(0, Scale) = 0
  <2>1. HalfEven(0, Scale) <= 0 /\ HalfEven(0, Scale) \in Nat
    BY <1>7, HalfEvenBelow, HalfEvenAbove
  <2> QED
    BY <2>1
<1> QED
  BY <1>6, <1>7, <1>8 DEF Times

(* What spoils under a pledge shrinks the pledge to what is left             *)
(* (ApplyStorageSpoilage).                                                   *)
LEMMA SpoilageSecures == ASSUME PledgeInv, ApplyStorageSpoilage PROVE Secures
<1> DEFINE stock == [row \in Rows |-> Spoilt(row)]
           gone == [g \in Goods |-> market.gone[g] + Sum([row \in Rows |-> Lost(row)],
                                                         {row \in Rows : row[3] = g})]
<1>1. market' = [market EXCEPT !.stock = stock, !.gone = gone] /\ loans' = loans
  BY DEF ApplyStorageSpoilage
<1>2. Shaped(market)
  BY MarketParts, MarketOfInv DEF Shaped, PledgeInv
<1>3. market'.stock = stock
  <2> HIDE DEF stock, gone
  <2> QED
    BY <1>1, <1>2 DEF Shaped
<1>4. ASSUME NEW row \in Rows
      PROVE  /\ Spoilt(row).pledged <= Spoilt(row).quantity
             /\ Spoilt(row).pledged <= PromisedOf(loans, row)
             /\ MaySpoil(row) \/ Spoilt(row).pledged = PromisedOf(loans, row)
  <2> DEFINE s == market.stock[row]
             q == s.quantity - Lost(row)
             P == PromisedOf(loans, row)
  <2>1. /\ s.pledged <= s.quantity /\ s.pledged <= P /\ (MaySpoil(row) \/ s.pledged = P)
        /\ s.pledged \in Nat /\ s.quantity \in Nat /\ P \in Nat
    BY MarketOfInv, StockTyped, PromisedTyped DEF PledgeInv, Secured, WholeInv, Typed, Lent
  <2>2. Lost(row) \in 0 .. s.quantity /\ (MaySpoil(row) \/ Lost(row) = 0)
    BY LostTyped, NothingLost DEF PledgeInv
  <2>3. CASE Lost(row) = 0
    <3>1. Spoilt(row) = s
      BY <2>3 DEF Spoilt
    <3> QED
      BY <2>1, <3>1
  <2>4. CASE Lost(row) # 0
    <3>1. Spoilt(row).pledged = Lesser(s.pledged, q) /\ Spoilt(row).quantity = q
      BY <2>4 DEF Spoilt
    <3> QED
      BY <2>1, <2>2, <2>4, <3>1 DEF Lesser
  <2> QED
    BY <2>3, <2>4
<1> QED
  BY <1>1, <1>3, <1>4 DEF Secures, Secured

(* A loan that is still owed keeps its promise; one that ends takes it back, *)
(* from its own row.                                                         *)
LEMMA PledgeChanged ==
  ASSUME NEW lns, IsFiniteSet(DOMAIN lns), lns \in [DOMAIN lns -> LoanRecords],
         NEW id \in DOMAIN lns, NEW new \in LoanRecords, Owing(lns[id]),
         new.pledge = lns[id].pledge, Pledge(new) = Pledge(lns[id]), NEW row
  PROVE  PromisedOf([lns EXCEPT ![id] = new], row)
           = PromisedOf(lns, row) - (IF Owing(new) THEN 0 ELSE At(row, Pledge(new), new.pledge))
<1> DEFINE k == [lns EXCEPT ![id] = new]
           S == DOMAIN lns
           T == OwedOn(lns, row)
           U == OwedOn(k, row)
           F == [l \in DOMAIN lns |-> lns[l].pledge]
           G == [l \in DOMAIN k |-> k[l].pledge]
           a == Pledge(new)
           n == new.pledge
<1>1. DOMAIN k = S /\ k \in [S -> LoanRecords] /\ k[id] = new /\ \A l \in S : l # id => k[l] = lns[l]
  OBVIOUS
<1>2. \A l \in S : lns[l].pledge \in Int /\ k[l].pledge \in Int
  <2>1. \A l \in S : lns[l] \in LoanRecords /\ k[l] \in LoanRecords
    BY <1>1
  <2> HIDE DEF k
  <2> QED
    BY <2>1 DEF LoanRecords
<1>3. n \in Int
  BY DEF LoanRecords
<1> HIDE DEF k, S
<1>4. \A l \in S : F[l] = lns[l].pledge /\ G[l] = k[l].pledge
  BY <1>1 DEF S
<1>5. T \in SUBSET S /\ U \in SUBSET S /\ IsFiniteSet(S)
  BY <1>1 DEF OwedOn, S
<1>6. \A l \in S : l # id => (l \in T <=> l \in U)
  BY <1>1 DEF OwedOn, S
<1>7. id \in S /\ (id \in T <=> a = row) /\ (id \in U <=> a = row /\ Owing(new))
  BY <1>1 DEF OwedOn, S
<1>8. PromisedOf(lns, row) = Sum(F, T) /\ PromisedOf(k, row) = Sum(G, U)
  BY DEF PromisedOf
<1>9. F[id] = n /\ G[id] = n
  BY <1>1, <1>4, <1>7
<1> HIDE DEF T, U, F, G, a, n
<1>10. /\ Sum(G, U) = Sum(F, T) - (IF id \in T THEN F[id] ELSE 0) + (IF id \in U THEN G[id] ELSE 0)
       /\ Sum(F, T) \in Int
  <2>1. \A l \in S : F[l] \in Int /\ G[l] \in Int
    BY <1>2, <1>4
  <2>2. \A l \in S : l # id => (l \in T <=> l \in U) /\ G[l] = F[l]
    BY <1>1, <1>4, <1>6
  <2> QED
    BY <1>5, <1>7, <2>1, <2>2, FilterChange
<1>11. PromisedOf(k, row) = PromisedOf(lns, row) - (IF Owing(new) THEN 0 ELSE At(row, a, n))
  BY <1>3, <1>7, <1>8, <1>9, <1>10 DEF At
<1> QED
  BY <1>11 DEF k, a, n

(* Serving a loan leaves its pledge alone, and what it owes is what it owed  *)
(* less what was paid.                                                       *)
LEMMA ServedPledge ==
  ASSUME NEW old \in LoanRecords, NEW i \in Nat, NEW p \in Nat, NEW hit, NEW l,
         l = Served(old, i, p, hit)
  PROVE  /\ l.pledge = old.pledge /\ Pledge(l) = Pledge(old)
         /\ l.principal = old.principal - p /\ l.interest = old.interest + NewInterest(old) - i
         /\ l.status \in {"performing", "delinquent", "repaid"}
<1> DEFINE principal == old.principal - p
           interest == old.interest + NewInterest(old) - i
           paid == [old EXCEPT !.principal = principal, !.interest = interest]
           cleared == paid.principal = 0 /\ paid.interest = 0
           A == [paid EXCEPT !.missed = @ + 1, !.status = "delinquent"]
           status == IF cleared THEN "repaid" ELSE "performing"
           B == [paid EXCEPT !.missed = 0, !.remaining = Larger(0, @ - 1), !.status = status,
                       !.released = cleared]
<1>1. l = A \/ l = B
  BY DEF Served
<1>2. status \in {"performing", "repaid"}
  OBVIOUS
<1> HIDE DEF status, cleared, principal, interest
<1>3. /\ l.pledge = old.pledge /\ Pledge(l) = Pledge(old)
      /\ l.status \in {"performing", "delinquent", "repaid"}
  BY <1>1, <1>2 DEF LoanRecords, Pledge
<1>4. l.principal = principal /\ l.interest = interest
  BY <1>1 DEF LoanRecords
<1> QED
  BY <1>3, <1>4 DEF principal, interest

(* What is seized was released from the same row, so that the other pledges  *)
(* on it stay covered.                                                       *)
LEMMA CollateralSecured ==
  ASSUME WholeInv, NEW l \in LoanRecords, NEW row \in Rows,
         market.stock[row].pledged <= market.stock[row].quantity
  PROVE  LET t == Collateral(l)
             s == market.stock
         IN /\ t[row].pledged = s[row].pledged - At(row, Pledge(l), IF Ended(l) THEN Released(l) ELSE 0)
            /\ t[row].pledged <= t[row].quantity
<1> DEFINE s == market.stock
           a == Pledge(l)
           v == Vault(l)
           z == Seized(l)
           f == IF Ended(l) THEN Released(l) ELSE 0
           n == IF Defaults(l) THEN Recovered(l) ELSE 0
           t == Collateral(l)
<1>1. s[row].quantity \in Nat /\ s[row].pledged \in Nat /\ a \in Rows
      /\ s[a].pledged \in Nat /\ s[a].quantity \in Nat
  BY MarketOfInv, StockTyped, SeizedTyped
<1>2. z \in Nat /\ Released(l) \in Nat /\ z <= Released(l)
  BY <1>1, SeizedTyped
<1>3. z <= f /\ f \in Nat
  <2>1. CASE Ended(l)
    BY <1>2, <2>1
  <2>2. CASE ~Ended(l)
    <3>1. z = 0
      BY <2>2 DEF Ended, Seized
    <3> QED
      BY <2>2, <3>1
  <2> QED
    BY <2>1, <2>2
<1>4. t[row] = [quantity |-> s[row].quantity + (At(row, v, z) - At(row, a, z)),
                pledged |-> s[row].pledged - At(row, a, f),
                carrying |-> s[row].carrying + At(row, v, n)]
  BY DEF Collateral
<1>5. /\ t[row].quantity = s[row].quantity + (At(row, v, z) - At(row, a, z))
      /\ t[row].pledged = s[row].pledged - At(row, a, f)
  BY <1>4
<1> HIDE DEF t, f, z, a, v
<1>6. At(row, v, z) \in Nat /\ At(row, a, z) \in Nat /\ At(row, a, f) \in Nat /\ At(row, a, z) <= At(row, a, f)
  BY <1>2, <1>3 DEF At, z
<1>7. t[row].pledged <= t[row].quantity
  BY <1>1, <1>5, <1>6 DEF s
<1> QED
  BY <1>5, <1>7 DEF t, f, a

(* A loan that ends gives back its own pledge, once, and one that goes on    *)
(* gives back nothing.                                                       *)
LEMMA ServedSecures ==
  ASSUME PledgeInv, NEW id \in DOMAIN loans, Active(id), NEW i \in Nat, NEW p \in Nat, NEW hit,
         NEW l, l = Served(loans[id], i, p, hit), ~Overpaid(l), NEW paid,
         Serviced(id, loans[id], l, paid, i)
  PROVE  Secures
<1> DEFINE old == loans[id]
           new == IF Defaults(l) THEN Off(l) ELSE l
           stock == Collateral(l)
           lns == [loans EXCEPT ![id] = new]
           a == Pledge(old)
           n == old.pledge
           f == IF Ended(l) THEN Released(l) ELSE 0
<1>1. /\ old \in LoanRecords /\ Owing(old)
      /\ IsFiniteSet(DOMAIN loans) /\ loans \in [DOMAIN loans -> LoanRecords]
  BY DEF PledgeInv, WholeInv, Typed, Lent, Active
<1>2. l \in LoanRecords
  BY <1>1, ServedTyped
<1>3. l.pledge = n /\ Pledge(l) = a /\ l.status \in {"performing", "delinquent", "repaid"}
  BY <1>1, ServedPledge
<1>4. market' = [market EXCEPT !.money = paid, !.stock = stock] /\ loans' = lns
  BY DEF Serviced, Off
<1>5. market'.stock = stock
  <2>1. Shaped(market)
    BY MarketParts, MarketOfInv DEF Shaped, PledgeInv
  <2> HIDE DEF stock
  <2> QED
    BY <1>4, <2>1 DEF Shaped
<1>6. /\ new \in LoanRecords /\ new.pledge = n /\ Pledge(new) = a
      /\ Owing(new) <=> ~Ended(l)
  <2>1. CASE Defaults(l)
    <3>1. new = Off(l) /\ Ended(l)
      BY <2>1 DEF Ended
    <3>2. Off(l) \in LoanRecords
      BY <1>2, OffTyped
    <3>3. Off(l).pledge = l.pledge /\ Pledge(Off(l)) = Pledge(l) /\ Off(l).status = "defaulted"
      BY <1>2 DEF Off, Pledge, LoanRecords
    <3> QED
      BY <1>3, <3>1, <3>2, <3>3 DEF Owing
  <2>2. CASE ~Defaults(l)
    <3>1. new = l
      BY <2>2
    <3> QED
      BY <1>2, <1>3, <2>2, <3>1 DEF Owing, Ended
  <2> QED
    BY <2>1, <2>2
<1>7. \A row : PromisedOf(lns, row) = PromisedOf(loans, row) - (IF Ended(l) THEN At(row, a, n) ELSE 0)
  <2> TAKE row
  <2> HIDE DEF new
  <2>1. PromisedOf(lns, row) = PromisedOf(loans, row) - (IF Owing(new) THEN 0 ELSE At(row, Pledge(new), new.pledge))
    BY <1>1, <1>6, PledgeChanged
  <2> QED
    BY <1>6, <2>1
<1>8. \A row : PromisedOf(lns, row) \in Nat /\ PromisedOf(loans, row) \in Nat
  <2> HIDE DEF new
  <2>1. DOMAIN lns = DOMAIN loans /\ lns \in [DOMAIN lns -> LoanRecords]
    BY <1>1, <1>6
  <2> HIDE DEF lns
  <2> QED
    BY <1>1, <2>1, PromisedTyped
<1>9. n \in Nat /\ f \in Nat /\ a \in Rows /\ (Ended(l) => f = Lesser(n, market.stock[a].pledged))
  <2>1. n \in Nat
    BY <1>1 DEF LoanRecords
  <2>2. Released(l) = Lesser(n, market.stock[a].pledged)
    BY <1>3 DEF Released
  <2>3. a \in Rows
    BY <1>2, <1>3, SeizedTyped DEF PledgeInv
  <2>4. market.stock[a].pledged \in Nat
    BY <2>3, MarketOfInv, StockTyped DEF PledgeInv
  <2> QED
    BY <2>1, <2>2, <2>3, <2>4 DEF Lesser
<1>10. ASSUME NEW row \in Rows
       PROVE  /\ stock[row].pledged <= stock[row].quantity
              /\ stock[row].pledged <= PromisedOf(lns, row)
              /\ MaySpoil(row) \/ stock[row].pledged = PromisedOf(lns, row)
  <2> DEFINE q == market.stock[row].pledged
             P == PromisedOf(loans, row)
             R == PromisedOf(lns, row)
  <2>1. q <= market.stock[row].quantity /\ q <= P /\ (MaySpoil(row) \/ q = P) /\ q \in Nat
    BY MarketOfInv, StockTyped DEF PledgeInv, Secured
  <2>2. stock[row].pledged = q - At(row, a, f) /\ stock[row].pledged <= stock[row].quantity
    BY <1>2, <1>3, <2>1, CollateralSecured DEF PledgeInv
  <2>3. R = P - (IF Ended(l) THEN At(row, a, n) ELSE 0) /\ R \in Nat /\ P \in Nat
    BY <1>7, <1>8
  <2> HIDE DEF P, R, lns, stock, n
  <2>4. CASE row # a
    <3>1. At(row, a, f) = 0 /\ At(row, a, n) = 0
      BY <2>4 DEF At
    <3> QED
      BY <2>1, <2>2, <2>3, <3>1 DEF P, R
  <2>5. CASE row = a /\ Ended(l)
    <3>1. At(row, a, f) = Lesser(n, q) /\ At(row, a, n) = n
      BY <1>9, <2>5 DEF At
    <3> QED
      BY <1>9, <2>1, <2>2, <2>3, <2>5, <3>1 DEF P, R, Lesser
  <2>6. CASE row = a /\ ~Ended(l)
    <3>1. At(row, a, f) = 0
      BY <2>6 DEF At
    <3> QED
      BY <2>1, <2>2, <2>3, <2>6, <3>1 DEF P, R
  <2> QED
    BY <2>4, <2>5, <2>6
<1> QED
  BY <1>4, <1>5, <1>10 DEF Secures, Secured

(* The service of a loan keeps the pledges (ServiceLoan). *)
LEMMA ServiceSecures == ASSUME PledgeInv, ServiceLoan PROVE Secures
<1> DEFINE id == LoanOrder[Item]
           old == loans[id]
           due == Cents(old.interest + NewInterest(old))
           once == PaidIn(market.money, old.borrower, old.bank, due)
           i == Arriving(market.money, old.borrower, old.bank, due)
           more == PrincipalDue(old)
           p == Arriving(once, old.borrower, old.bank, more)
           paid == PaidIn(once, old.borrower, old.bank, more)
<1>1. CASE UNCHANGED <<market, loans>>
  BY <1>1 DEF Secures, PledgeInv
<1>2. ASSUME id \in DOMAIN loans, Active(id), NEW hit,
             ~Overpaid(Served(old, i, p, hit)),
             Serviced(id, old, Served(old, i, p, hit), paid, i)
      PROVE  Secures
  <2>1. old \in LoanRecords /\ old.bank \in Banks /\ old.borrower \in Entities
    BY <1>2 DEF PledgeInv, WholeInv, Typed, Lent, LoanRecords
  <2>2. due \in Nat /\ more \in Nat
    BY <2>1, LoanDue
  <2>3. market.money \in SoundMoney
    BY MarketOfInv DEF PledgeInv
  <2> HIDE DEF due, more
  <2>4. once \in SoundMoney /\ i \in Nat
    BY <2>1, <2>2, <2>3, PaidInKeeps
  <2> HIDE DEF once, i
  <2>5. p \in Nat
    BY <2>1, <2>2, <2>4, PaidInKeeps
  <2> HIDE DEF paid, p
  <2> QED
    BY <1>2, <2>4, <2>5, ServedSecures
<1>3. \/ UNCHANGED <<market, loans>>
      \/ id \in DOMAIN loans /\ Active(id) /\ \E hit : Withdrawn(id, old, once, i, hit)
  BY DEF ServiceLoan, account
<1>4. ASSUME NEW hit, Withdrawn(id, old, once, i, hit)
      PROVE  \/ UNCHANGED <<market, loans>>
             \/ /\ ~Overpaid(Served(old, i, p, hit))
                /\ Serviced(id, old, Served(old, i, p, hit), paid, i)
  BY <1>4 DEF Withdrawn, Settled, Fail, account
<1> HIDE DEF id, old, once, i, p, paid
<1> QED
  BY <1>1, <1>2, <1>3, <1>4

(* The close of a month leaves stock and loans alone (CloseMonth). *)
LEMMA CloseSecures == ASSUME PledgeInv, CloseMonth PROVE Secures
<1>1. CASE \E why : Fail(why)
  BY <1>1 DEF Fail, account, Secures, PledgeInv
<1>2. CASE market' = Fresh(market) /\ UNCHANGED account
  <2>1. Shaped(market)
    BY MarketParts, MarketOfInv DEF Shaped, PledgeInv
  <2>2. market'.stock = market.stock /\ loans' = loans
    BY <1>2, <2>1 DEF Shaped, Fresh, account
  <2> QED
    BY <2>2 DEF Secures, PledgeInv
<1> QED
  BY <1>1, <1>2 DEF CloseMonth

(* In an accepted opening what is pledged is what was promised, and is       *)
(* there.                                                                    *)
LEMMA InitSecured == ASSUME Init PROVE PledgeInv
<1>1. PICK w \in Openings : market = OpeningMarket(w) /\ loans = w.loans
  BY DEF Init
<1>2. /\ OpeningAccepted(w) /\ IsFiniteSet(DOMAIN w.loans) /\ w.loans \in [DOMAIN w.loans -> LoanRecords]
      /\ w.stock \in [DOMAIN w.stock -> Nat] /\ PledgesCovered(w)
  BY ScenarioAssumption DEF OpeningAccepted, AmountsValid, Partial
<1>3. ASSUME NEW row \in Rows
      PROVE  /\ market.stock[row].pledged <= market.stock[row].quantity
             /\ market.stock[row].pledged = PromisedOf(loans, row)
             /\ PromisedOf(loans, row) \in Nat
  <2> DEFINE S == OwedOn(w.loans, row)
             F == [l \in DOMAIN w.loans |-> w.loans[l].pledge]
             q == IF row \in DOMAIN w.stock THEN w.stock[row] ELSE 0
  <2>1. PledgedIn(w, row) = Sum(F, S) /\ PromisedOf(w.loans, row) = Sum(F, S)
    BY DEF PledgedIn, PromisedOf, OwedOn
  <2>2. market.stock[row] = [quantity |-> q, pledged |-> PledgedIn(w, row), carrying |-> 0]
    BY <1>1 DEF OpeningMarket, OpeningStock
  <2>3. PromisedOf(w.loans, row) \in Nat
    BY <1>2, PromisedTyped
  <2>4. q \in Nat
    BY <1>2
  <2>5. PledgedIn(w, row) <= q
    <3>1. CASE S = {}
      <4>1. Sum(F, S) = 0
        BY <3>1, SumEmpty
      <4> QED
        BY <2>1, <2>4, <4>1
    <3>2. CASE S # {}
      <4>1. PICK id \in DOMAIN w.loans : Owing(w.loans[id]) /\ Pledge(w.loans[id]) = row
        BY <3>2 DEF OwedOn
      <4> QED
        BY <1>2, <4>1 DEF PledgesCovered
    <3> QED
      BY <3>1, <3>2
  <2> HIDE DEF F, S, q
  <2> QED
    BY <1>1, <2>1, <2>2, <2>3, <2>5
<1>4. WholeInv
  BY InitSafe
<1>5. Secured(market.stock, loans)
  BY <1>3 DEF Secured
<1> QED
  BY <1>4, <1>5 DEF PledgeInv

(* Every step keeps what is pledged there and promised. *)
LEMMA StepSecures == ASSUME ExactInputs, PledgeInv, [Next]_vars PROVE PledgeInv'
<1>1. Secures
  <2>0. WholeInv /\ (Trades => Secures)
    BY TradesSecure DEF PledgeInv
  <2>1. CASE ApplyShocks
    BY <2>0, <2>1, ShocksTrade
  <2>2. CASE Arrive
    BY <2>0, <2>2, ArriveTrades
  <2>3. CASE AllArrived
    BY <2>0, <2>3, AllArrivedTrades
  <2>4. CASE OriginateCredit
    BY <2>4, CreditSecures
  <2>5. CASE Produce
    BY <2>5, ProduceSecures
  <2>6. CASE AdjustWages
    BY <2>0, <2>6, WagesTrade
  <2>7. CASE ApplyStorageSpoilage
    BY <2>7, SpoilageSecures
  <2>8. CASE OpenMarket
    BY <2>0, <2>8, OpenTrades
  <2>9. CASE Household
    BY <2>0, <2>9, HouseholdTrades
  <2>10. CASE Business
    BY <2>0, <2>10, BusinessTrades
  <2>11. CASE AdjustPrices
    BY <2>0, <2>11, PricesTrade
  <2>12. CASE CollectObligations
    BY <2>0, <2>12, CollectTrades
  <2>13. CASE ServiceLoan
    BY <2>13, ServiceSecures
  <2>14. CASE Migrate
    BY <2>0, <2>14, MigrateTrades
  <2>15. CASE CloseMonth
    BY <2>15, CloseSecures
  <2>16. CASE UNCHANGED vars
    BY <2>0, <2>16 DEF vars, Secures, PledgeInv
  <2> QED
    BY <2>1, <2>2, <2>3, <2>4, <2>5, <2>6, <2>7, <2>8, <2>9, <2>10, <2>11, <2>12, <2>13, <2>14,
       <2>15, <2>16 DEF Next
<1>2. WholeInv'
  BY StepSafe DEF Safe, PledgeInv
<1> QED
  BY <1>1, <1>2 DEF Secures, PledgeInv
-----------------------------------------------------------------------------
\* Loans whose amounts come in whole cents, and a world of whole cents.
WholeLoans(lns) == \A l \in DOMAIN lns : lns[l].principal \in Whole /\ lns[l].interest \in Whole
Rounding == WholeInv /\ WholeMoney(market.money) /\ WholeLoans(loans)

(* An amount in cents is a whole number of cents. *)
LEMMA InCentsWhole == \A n \in InCents : n \in Whole /\ n \in Nat
<1> TAKE n \in InCents
<1>1. n \in Nat /\ n % Cent = 0 /\ Cent \in Nat \ {0}
  BY Finite DEF InCents
<1>2. n = Cent * (n \div Cent) /\ n \div Cent \in Int
  BY <1>1, Division
<1> QED
  BY <1>1, <1>2 DEF Whole

(* Rounding to cents does not exceed a number of whole cents that the amount *)
(* does not exceed.                                                          *)
LEMMA CentsBelow ==
  ASSUME NEW n \in Nat, NEW x \in Whole, n <= x
  PROVE  Cents(n) <= x
<1>1. PICK k \in Int : x = Cent * k
  BY DEF Whole
<1>2. Cent \in Nat \ {0} /\ 1 * Cent = Cent
  BY Finite
<1>3. HalfEven(n, Cent) <= k
  BY <1>1, <1>2, HalfEvenBelow
<1>4. HalfEven(n, Cent) \in Int
  BY <1>2, HalfEvenType
<1>5. Cent * HalfEven(n, Cent) <= Cent * k
  BY <1>1, <1>2, <1>3, <1>4, ProductOrder
<1> QED
  BY <1>1, <1>2, <1>5 DEF Cents, Rounded

(* What arrives at a bank for whole cents due is in whole cents, and no more *)
(* than is due.                                                              *)
LEMMA PaidInWhole ==
  ASSUME NEW m \in SoundMoney, WholeMoney(m), NEW e \in Entities, NEW bank \in Banks,
         NEW n \in Nat, n \in Whole
  PROVE  /\ WholeMoney(PaidIn(m, e, bank, n))
         /\ Arriving(m, e, bank, n) \in Whole /\ Arriving(m, e, bank, n) <= n
<1> DEFINE c == InCash(m, e, n)
           d == FromDeposit(m, e, bank, n)
<1>1. bank \in Banks \cup {None}
  OBVIOUS
<1>2. Handing(m, e, bank, c, d) /\ c \in Whole /\ d \in Whole /\ c + d <= n
  BY <1>1, Drawn DEF Handing
<1>3. PaidIn(m, e, bank, n) = Moved(m, e, bank, c, d) /\ Arriving(m, e, bank, n) = c + d
  BY DEF PaidIn, Arriving
<1> HIDE DEF c, d
<1>4. WholeMoney(Moved(m, e, bank, c, d))
  BY <1>1, <1>2, HandedOver
<1> QED
  BY <1>2, <1>3, <1>4, WholeSums

(* What a loan in whole cents is due is in whole cents, and no more than it  *)
(* owes.                                                                     *)
LEMMA LoanDueWhole ==
  ASSUME NEW l \in LoanRecords, l.principal \in Whole, l.interest \in Whole
  PROVE  /\ NewInterest(l) \in Whole
         /\ Cents(l.interest + NewInterest(l)) \in Whole
         /\ Cents(l.interest + NewInterest(l)) <= l.interest + NewInterest(l)
         /\ PrincipalDue(l) \in Whole /\ PrincipalDue(l) <= l.principal
<1>1. /\ l.principal \in Nat /\ l.interest \in Nat /\ l.scheduled \in Nat /\ l.rate \in Nat
  BY ScaleAssumption DEF LoanRecords, Fraction
<1>2. NewInterest(l) \in Nat
  BY LoanDue
<1>3. NewInterest(l) \in Whole
  <2>1. l.principal * l.rate \in Int
    BY <1>1
  <2>2. (12 * Scale) * Cent \in Nat \ {0}
    <3>1. \A x, y \in Nat \ {0} : x * y \in Nat \ {0}
      OBVIOUS
    <3> QED
      BY <3>1, ScaleAssumption, Finite
  <2> DEFINE h == HalfEven(l.principal * l.rate, (12 * Scale) * Cent)
  <2>3. h \in Int
    BY <2>1, <2>2, HalfEvenType
  <2>4. NewInterest(l) = Cent * h
    BY Zenon DEF NewInterest, Rounded
  <2> DEFINE n == NewInterest(l)
  <2>5. \E k \in Int : n = Cent * k
    <3> HIDE DEF h, n
    <3>1. n = Cent * h
      BY <2>4 DEF n
    <3> QED
      BY Zenon, <2>3, <3>1
  <2> HIDE DEF n
  <2>6. n \in Whole
    BY <2>5 DEF Whole
  <2> QED
    BY <2>6 DEF n
<1>4. l.interest + NewInterest(l) \in Whole /\ l.interest + NewInterest(l) \in Nat
  <2> DEFINE x == l.interest
             y == NewInterest(l)
  <2>1. x \in Nat /\ y \in Nat /\ x \in Whole /\ y \in Whole
    BY <1>1, <1>2, <1>3
  <2> HIDE DEF x, y
  <2>2. x + y \in Whole /\ x + y \in Nat
    BY <2>1, WholeSums
  <2> QED
    BY <2>2 DEF x, y
<1>5. /\ Cents(l.interest + NewInterest(l)) \in Whole
      /\ Cents(l.interest + NewInterest(l)) <= l.interest + NewInterest(l)
  <2> DEFINE x == l.interest + NewInterest(l)
  <2>1. x \in Nat /\ x \in Whole /\ x <= x
    BY <1>4
  <2> HIDE DEF x
  <2>2. Cents(x) \in Whole /\ Cents(x) <= x
    BY <2>1, CentsNat, CentsBelow
  <2> QED
    BY <2>2 DEF x
<1>6. PrincipalDue(l) \in Whole /\ PrincipalDue(l) <= l.principal
  <2> DEFINE x == IF l.remaining <= 1 THEN l.principal ELSE Lesser(l.principal, l.scheduled)
  <2>1. x \in Nat /\ x <= l.principal
    BY <1>1 DEF Lesser
  <2>2. PrincipalDue(l) = Cents(x)
    BY DEF PrincipalDue
  <2> HIDE DEF x
  <2> QED
    BY <2>1, <2>2, CentsNat, CentsBelow
<1> QED
  BY <1>3, <1>5, <1>6

(* In whole cents a loan is never overpaid (ServiceLoan). *)
LEMMA ServiceWhole ==
  ASSUME Rounding, ServiceLoan
  PROVE  WholeMoney(market'.money) /\ WholeLoans(loans') /\ failed' = failed
<1> DEFINE id == LoanOrder[Item]
           old == loans[id]
           due == Cents(old.interest + NewInterest(old))
           once == PaidIn(market.money, old.borrower, old.bank, due)
           i == Arriving(market.money, old.borrower, old.bank, due)
           more == PrincipalDue(old)
           p == Arriving(once, old.borrower, old.bank, more)
           paid == PaidIn(once, old.borrower, old.bank, more)
<1>1. CASE NextStep /\ UNCHANGED <<market, loans>>
  BY <1>1 DEF NextStep, Rounding
<1>2. \/ NextStep /\ UNCHANGED <<market, loans>>
      \/ id \in DOMAIN loans /\ Active(id) /\ \E hit : Withdrawn(id, old, once, i, hit)
  BY DEF ServiceLoan, account
<1>3. ASSUME id \in DOMAIN loans, Active(id), NEW hit, Withdrawn(id, old, once, i, hit)
      PROVE  WholeMoney(market'.money) /\ WholeLoans(loans') /\ failed' = failed
  <2> DEFINE l == Served(old, i, p, hit)
             new == IF Defaults(l) THEN Off(l) ELSE l
  <2>1. /\ old \in LoanRecords /\ old.bank \in Banks /\ old.borrower \in Entities
        /\ old.principal \in Whole /\ old.interest \in Whole
        /\ loans \in [DOMAIN loans -> LoanRecords]
    BY <1>3 DEF Rounding, WholeInv, Typed, Lent, LoanRecords, WholeLoans
  <2>2. /\ due \in Nat /\ more \in Nat /\ due \in Whole /\ more \in Whole /\ more <= old.principal
        /\ due <= old.interest + NewInterest(old)
        /\ NewInterest(old) \in Whole /\ NewInterest(old) \in Nat
        /\ old.principal \in Nat /\ old.interest \in Nat
    BY <2>1, LoanDue, LoanDueWhole
  <2>3. market.money \in SoundMoney /\ WholeMoney(market.money) /\ Shaped(market)
    BY MarketOfInv, MarketParts DEF Rounding, Shaped
  <2>4. IF Overpaid(l) THEN Fail("exposure")
        ELSE Serviced(id, old, l, paid, i) /\ NextStep
    BY <1>3 DEF Withdrawn, Settled
  <2> HIDE DEF due, more
  <2>5. once \in SoundMoney /\ WholeMoney(once) /\ i \in Nat /\ i \in Whole /\ i <= due
    BY <2>1, <2>2, <2>3, PaidInKeeps, PaidInWhole
  <2> HIDE DEF once, i
  <2>6. p \in Nat /\ WholeMoney(paid) /\ p \in Whole /\ p <= more
    BY <2>1, <2>2, <2>5, PaidInKeeps, PaidInWhole
  <2> HIDE DEF paid, p, old
  <2>7. l.principal = old.principal - p /\ l.interest = old.interest + NewInterest(old) - i
    BY <2>1, <2>5, <2>6, ServedPledge
  <2>8. /\ l.principal \in Whole /\ l.interest \in Whole
        /\ l.principal >= 0 /\ l.interest >= 0 /\ l.principal \in Int /\ l.interest \in Int
    <3> DEFINE x == old.interest + NewInterest(old)
               y == old.principal
    <3>0. NewInterest(old) \in Whole /\ old.interest \in Whole /\ y \in Whole
      BY <2>1, <2>2
    <3>1. x \in Whole /\ y \in Whole /\ x \in Int /\ y \in Int /\ due \in Int /\ more \in Int
      <4>1. x \in Whole
        BY <3>0, WholeSums
      <4>2. Whole \subseteq Int
        BY WholeSums
      <4> HIDE DEF x, y
      <4>3. due \in Int /\ more \in Int
        BY <2>2
      <4> QED
        BY <3>0, <4>1, <4>2, <4>3
    <3> HIDE DEF l
    <3>2. l.principal = y - p /\ l.interest = x - i
      <4>1. /\ \A a, b, c \in Int : (a + b) - c = a + (b - c)
            /\ old.interest \in Int /\ NewInterest(old) \in Int /\ i \in Int
        BY <2>2, <2>5
      <4> QED
        BY Zenon, <2>7, <4>1
    <3>3. i <= due /\ due <= x /\ p <= more /\ more <= y /\ i \in Whole /\ p \in Whole /\ i \in Int /\ p \in Int
      BY <2>2, <2>5, <2>6
    <3> HIDE DEF x, y
    <3>4. y - p \in Whole /\ x - i \in Whole
      BY <3>1, <3>3, WholeSums
    <3>5. y - p >= 0 /\ x - i >= 0 /\ y - p \in Int /\ x - i \in Int
      BY <3>1, <3>3
    <3> QED
      BY <3>2, <3>4, <3>5
  <2>9. ~Overpaid(l)
    <3> HIDE DEF l
    <3> QED
      BY <2>8 DEF Overpaid
  <2>10. l \in LoanRecords
    BY <2>1, <2>5, <2>6, <2>9, ServedTyped
  <2> HIDE DEF l
  <2>11. new.principal \in Whole /\ new.interest \in Whole
    BY <2>8, <2>10, OffTyped, WholeSums
  <2>12. Serviced(id, old, l, paid, i) /\ NextStep
    BY <2>4, <2>9 DEF l
  <2>13. market'.money = paid /\ loans' = [loans EXCEPT ![id] = new]
    <3> DEFINE stock == Collateral(l)
    <3>1. market' = [market EXCEPT !.money = paid, !.stock = stock] /\ loans' = [loans EXCEPT ![id] = new]
      BY <2>12 DEF Serviced, Off
    <3> HIDE DEF stock, new
    <3> QED
      BY <2>3, <3>1 DEF Shaped
  <2> HIDE DEF new
  <2>14. WholeLoans(loans')
    BY <2>11, <2>13 DEF WholeLoans, Rounding
  <2> QED
    BY <2>6, <2>12, <2>13, <2>14 DEF NextStep
<1> HIDE DEF id, old, once, i
<1> QED
  BY <1>1, <1>2, <1>3

(* A loan of whole cents makes a deposit of whole cents (OriginateCredit). *)
LEMMA CreditWhole ==
  ASSUME InWholeCents, Rounding, OriginateCredit
  PROVE  WholeMoney(market'.money) /\ WholeLoans(loans')
<1> DEFINE r == Requests[Item]
           m == market.money
           k == [m EXCEPT !.deposit[r.borrower] = @ + r.amount, !.liability[r.bank] = @ + r.amount]
           new == Loan(r)
           lns == [l \in DOMAIN loans \cup {r.loan} |-> IF l = r.loan THEN new ELSE loans[l]]
<1>1. Item \in DOMAIN Requests
  BY ItemOf DEF OriginateCredit
<1>2. r.bank \in Banks /\ r.borrower \in Entities /\ r.amount \in Whole
  BY <1>1, RequestsKnown, InCentsWhole DEF InWholeCents
<1>3. new.principal = r.amount /\ new.interest = 0
  BY <1>1, LoanMade DEF Rounding
<1>4. CASE UNCHANGED <<market, loans>>
  BY <1>4 DEF Rounding
<1>5. CASE /\ market' = [market EXCEPT !.money.deposit[r.borrower] = @ + r.amount,
                             !.money.liability[r.bank] = @ + r.amount,
                             !.stock[Pledge(r)].pledged = @ + r.pledge]
           /\ loans' = lns
  <2>1. Shaped(market) /\ m \in SoundMoney /\ WholeMoney(m)
    BY MarketParts, MarketOfInv DEF Shaped, Rounding
  <2>2. market'.money = k
    BY <1>5, <2>1 DEF Shaped
  <2> HIDE DEF r, m, new
  <2>3. /\ k.cash = m.cash /\ k.reserves = m.reserves
        /\ \A x \in Entities : k.deposit[x] = m.deposit[x] \/ k.deposit[x] = m.deposit[x] + r.amount
    BY <1>2, <2>1 DEF SoundMoney, Moneys
  <2> HIDE DEF k
  <2>4. WholeMoney(k)
    <3>1. ASSUME NEW x \in Entities PROVE k.cash[x] \in Whole /\ k.deposit[x] \in Whole
      <4>1. m.cash[x] \in Whole /\ m.deposit[x] \in Whole
        BY <2>1 DEF WholeMoney
      <4>2. m.deposit[x] + r.amount \in Whole
        BY <1>2, <4>1, WholeSums
      <4> QED
        BY <2>3, <4>1, <4>2
    <3>2. \A b \in Banks : k.reserves[b] \in Whole
      BY <2>1, <2>3 DEF WholeMoney
    <3> QED
      BY <3>1, <3>2 DEF WholeMoney
  <2>5. WholeLoans(lns)
    BY <1>2, <1>3, WholeSums DEF WholeLoans, Rounding
  <2> QED
    BY <1>5, <2>2, <2>4, <2>5
<1> QED
  BY <1>4, <1>5 DEF OriginateCredit

(* An opening in whole cents is in whole cents. *)
LEMMA InitWhole == ASSUME InWholeCents, Init PROVE Rounding
<1>1. PICK w \in Openings : market = OpeningMarket(w) /\ loans = w.loans
  BY DEF Init
<1>2. /\ \A e \in Entities : w.cash[e] \in Whole /\ w.deposit[e] \in Whole
      /\ \A b \in Banks : w.reserves[b] \in Whole
      /\ \A id \in DOMAIN w.loans : w.loans[id].principal \in Whole /\ w.loans[id].interest \in Whole
  BY InCentsWhole DEF InWholeCents
<1>3. /\ market.money.cash = w.cash /\ market.money.deposit = w.deposit
      /\ market.money.reserves = w.reserves
  BY <1>1 DEF OpeningMarket
<1>4. WholeMoney(market.money)
  BY <1>2, <1>3 DEF WholeMoney
<1>5. WholeLoans(loans)
  BY <1>1, <1>2 DEF WholeLoans
<1> QED
  BY <1>4, <1>5, InitSafe DEF Rounding

(* No account of an accepted world is ever below zero. *)
LEMMA Positive == ASSUME WholeInv PROVE NothingNegative
<1>1. market.money \in SoundMoney /\ market.money \in Moneys
  BY MarketOfInv DEF SoundMoney
<1>2. ASSUME NEW b \in Banks PROVE market.money.liability[b] >= 0
  <2>1. \A e \in Customers(b) : market.money.deposit[e] \in Nat
    BY <1>1, Finite DEF Moneys
  <2>2. Sum(market.money.deposit, Customers(b)) \in Nat
    BY <2>1, Finite, SumNat
  <2> QED
    BY <1>1, <2>2 DEF SoundMoney, DepositsAt
<1>3. ASSUME NEW b \in Banks PROVE books[b].interest >= 0
  <2>1. books[b].interest = InterestOf(loans, b)
    BY DEF WholeInv, Booked
  <2>2. InterestOf(loans, b) \in Nat
    BY LoansTyped DEF WholeInv, Typed, Lent
  <2> QED
    BY <2>1, <2>2
<1>4. \A e \in Entities : market.money.cash[e] \in Nat /\ market.money.deposit[e] \in Nat
  BY <1>1 DEF Moneys
<1>5. \A b \in Banks : market.money.reserves[b] \in Nat
  BY <1>1 DEF Moneys
<1>6. \A l \in DOMAIN loans : loans[l].principal \in Nat /\ loans[l].interest \in Nat
  BY LoansTyped DEF WholeInv, Typed, Lent
<1>7. \A n \in Nat : n >= 0
  OBVIOUS
<1> QED
  BY <1>2, <1>3, <1>4, <1>5, <1>6, <1>7 DEF NothingNegative

(* Nothing that was payable is ever paid in part. *)
LEMMA FullStays == ASSUME WholeInv, market.full, [Next]_vars PROVE market'.full
<1>0. Shaped(market)
  BY MarketParts, MarketOfInv DEF Shaped
<1>1. ASSUME Trades PROVE market'.full
  BY <1>1 DEF Trades, Traded
<1>2. CASE UNCHANGED market
  BY <1>2
<1>3. CASE OriginateCredit
  <2> DEFINE r == Requests[Item]
             money == [market.money EXCEPT !.deposit[r.borrower] = @ + r.amount,
                                           !.liability[r.bank] = @ + r.amount]
             stock == [market.stock EXCEPT ![Pledge(r)].pledged = @ + r.pledge]
  <2>1. \/ market' = market
        \/ market' = [market EXCEPT !.money.deposit[r.borrower] = @ + r.amount,
                                    !.money.liability[r.bank] = @ + r.amount,
                                    !.stock[Pledge(r)].pledged = @ + r.pledge]
    BY <1>3 DEF OriginateCredit
  <2> HIDE DEF r
  <2> QED
    BY <1>0, <2>1 DEF Shaped
<1>4. CASE Produce
  <2> DEFINE r == Recipes[Item]
             n == Batches(r)
             k == Worked(r, n)
             paid == Payroll(market, r, n)
  <2>1. Item \in DOMAIN Recipes
    BY <1>4, ItemOf DEF Produce
  <2>2. Completed(r, n, k, paid)
    BY <1>4 DEF Produce, Produced
  <2>3. n \in Nat
    BY <2>1, BatchesTyped
  <2>4. market' = market \/ (~Overdrawn(k, r) /\ market' = [k EXCEPT !.money = paid.money])
    BY <2>2 DEF Completed, Fail
  <2>5. CASE ~Overdrawn(k, r) /\ market' = [k EXCEPT !.money = paid.money]
    <3> HIDE DEF n
    <3>1. Shaped(k) /\ k.full = market.full
      BY <2>1, <2>3, <2>5, WorkedStock DEF Others
    <3> HIDE DEF k, paid
    <3> QED
      BY <2>5, <3>1 DEF Shaped
  <2> QED
    BY <2>4, <2>5
<1>5. CASE ApplyStorageSpoilage
  <2> DEFINE stock == [row \in Rows |-> Spoilt(row)]
             gone == [g \in Goods |-> market.gone[g] + Sum([row \in Rows |-> Lost(row)],
                                                           {row \in Rows : row[3] = g})]
  <2>1. market' = [market EXCEPT !.stock = stock, !.gone = gone]
    BY <1>5 DEF ApplyStorageSpoilage
  <2> HIDE DEF stock, gone
  <2> QED
    BY <1>0, <2>1 DEF Shaped
<1>6. CASE ServiceLoan
  <2> DEFINE id == LoanOrder[Item]
             due == Cents(loans[id].interest + NewInterest(loans[id]))
  <2>1. \/ UNCHANGED market
        \/ \E once, i, hit : Withdrawn(id, loans[id], once, i, hit)
    BY <1>6 DEF ServiceLoan
  <2>2. \/ UNCHANGED market
        \/ \E l, paid, i : Serviced(id, loans[id], l, paid, i)
    BY <2>1 DEF Withdrawn, Settled, Fail
  <2>3. ASSUME NEW l, NEW paid, NEW i, Serviced(id, loans[id], l, paid, i)
        PROVE  market'.full
    <3> DEFINE stock == Collateral(l)
    <3>1. market' = [market EXCEPT !.money = paid, !.stock = stock]
      BY <2>3 DEF Serviced
    <3> HIDE DEF stock
    <3> QED
      BY <1>0, <3>1 DEF Shaped
  <2> QED
    BY <2>2, <2>3
<1>7. CASE CloseMonth
  <2>1. market' = market \/ market' = Fresh(market)
    BY <1>7 DEF CloseMonth, Fail
  <2> QED
    BY <1>0, <2>1 DEF Fresh, Shaped
<1>8. \/ Trades \/ UNCHANGED market \/ OriginateCredit \/ Produce \/ ApplyStorageSpoilage
      \/ ServiceLoan \/ CloseMonth
  BY ShocksTrade, ArriveTrades, AllArrivedTrades, WagesTrade, OpenTrades, HouseholdTrades,
     BusinessTrades, PricesTrade, CollectTrades, MigrateTrades DEF Next, vars
<1> QED
  BY <1>1, <1>2, <1>3, <1>4, <1>5, <1>6, <1>7, <1>8

(* Nothing has failed, and nothing been paid in part, when the world opens. *)
LEMMA OpensFull == ASSUME Init PROVE market.full /\ failed = ""
<1>1. (\E w \in Openings : market = OpeningMarket(w)) /\ failed = ""
  BY DEF Init
<1>2. PICK w \in Openings : market = OpeningMarket(w)
  BY <1>1
<1>3. OpeningMarket(w).full
  BY DEF OpeningMarket
<1> QED
  BY <1>1, <1>2, <1>3

(* A month is stopped by what is asked of it before it closes, or at the    *)
(* close by a pledge or by employment.                                      *)
LEMMA CloseFails ==
  ASSUME WholeInv, CloseMonth
  PROVE  \/ failed' \in {failed, "employment"}
         \/ failed' = "pledges" /\ ~PledgesValid
         \/ failed' = "settlement" /\ ~market.full
<1>1. Conserved /\ NothingNegative /\ \A b \in Banks : Reconciled(b)
  BY WholeImplies, Positive DEF BanksReconcile, GoodsConserved
<1> QED
  BY <1>1 DEF CloseMonth, Fail

(* Only production, the opening of a market, a loan's service and the close  *)
(* of a month can stop it.                                                   *)
LEMMA PlainSteps ==
  ASSUME [Next]_vars
  PROVE  \/ Produce \/ OpenMarket \/ ServiceLoan \/ CloseMonth
         \/ failed' = failed
BY DEF Next, vars, ApplyShocks, Arrive, AllArrived, OriginateCredit, AdjustWages,
       ApplyStorageSpoilage, Household, Business, AdjustPrices, CollectObligations, Migrate, NextStep

(* Why production stops a month. *)
LEMMA ProduceFails ==
  ASSUME Produce
  PROVE  \/ failed' \in {failed, "payroll"}
         \/ failed' = "pledges"
            /\ \E g \in Inputs(Recipes[Item]) : Overpledged(<<Recipes[Item].entity, Recipes[Item].site, g>>)
         \/ failed' = "inputs" /\ Overdrawn(Worked(Recipes[Item], Batches(Recipes[Item])), Recipes[Item])
BY DEF Produce, Produced, Completed, Fail, NextStep

(* Why the opening of a market stops a month. *)
LEMMA OpenFails ==
  ASSUME OpenMarket
  PROVE  failed' = failed \/ (failed' = "pledges" /\ \E row \in Rows : Overpledged(row))
BY DEF OpenMarket, Fail, NextStep

(* Why a loan's service stops a month. *)
LEMMA ServiceFails == ASSUME ServiceLoan PROVE failed' \in {failed, "exposure"}
BY DEF ServiceLoan, Withdrawn, Settled, Fail, NextStep

(* The closing checks of a month, and settlement in full, never fail: the   *)
(* books reconcile, whatever else may stop a month.                         *)
THEOREM ClosingChecksPass == Spec => [](market.full /\ failed \notin {"settlement", "checks"})
<1> DEFINE Passing == market.full /\ failed \notin {"settlement", "checks"}
<1>1. Init => Passing
  BY OpensFull
<1>2. WholeInv /\ Passing /\ [Next]_vars => Passing'
  <2> SUFFICES ASSUME WholeInv, Passing, [Next]_vars PROVE Passing'
    OBVIOUS
  <2>1. market'.full
    BY FullStays
  <2>2. failed' \notin {"settlement", "checks"}
    BY PlainSteps, ProduceFails, OpenFails, ServiceFails, CloseFails
  <2> QED
    BY <2>1, <2>2
<1> QED
  BY <1>1, <1>2, WholeSafe, PTL DEF Spec
-----------------------------------------------------------------------------
(* No stock is pledged beyond what there is of it. *)
LEMMA NotOverpledged == ASSUME PledgeInv PROVE \A row \in Rows : ~Overpledged(row)
<1> SUFFICES ASSUME NEW row \in Rows PROVE ~Overpledged(row)
  OBVIOUS
<1>1. market.stock[row].pledged <= market.stock[row].quantity
  BY DEF PledgeInv, Secured
<1>2. market.stock[row].pledged \in Nat /\ market.stock[row].quantity \in Nat
  BY MarketOfInv, StockTyped DEF PledgeInv
<1> QED
  BY <1>1, <1>2 DEF Overpledged

(* With exact inputs no stock is overdrawn and no pledge is broken into. *)
LEMMA StepHasInputs ==
  ASSUME ExactInputs, PledgeInv, [Next]_vars
  PROVE  failed' = failed \/ failed' \notin {"inputs", "pledges"}
<1>1. CASE Produce
  <2>1. Item \in DOMAIN Recipes
    BY <1>1, ItemOf DEF Produce
  <2>2. ~Overdrawn(Worked(Recipes[Item], Batches(Recipes[Item])), Recipes[Item])
    BY <2>1, NeverOverdrawn
  <2>3. ASSUME NEW g \in Inputs(Recipes[Item])
        PROVE  ~Overpledged(<<Recipes[Item].entity, Recipes[Item].site, g>>)
    <3>1. <<Recipes[Item].entity, Recipes[Item].site, g>> \in Rows
      BY <2>1, RecipesKnown DEF Rows, Inputs
    <3> QED
      BY <3>1, NotOverpledged
  <2> QED
    BY <1>1, <2>2, <2>3, ProduceFails
<1>2. CASE OpenMarket
  BY <1>2, OpenFails, NotOverpledged
<1>3. CASE CloseMonth
  BY <1>3, CloseFails, SecuredImplies DEF PledgeInv
<1> QED
  BY <1>1, <1>2, <1>3, PlainSteps, ServiceFails

(* Where the inputs of a batch divide the scale, what is pledged is there,  *)
(* and is what the loans on it were promised (whole_economy.py _produce and *)
(* _release_pledge).                                                        *)
THEOREM PledgesAlwaysKept == ASSUME ExactInputs PROVE Spec => []PledgesKept
<1>1. Init => PledgeInv
  BY InitSecured
<1>2. PledgeInv /\ [Next]_vars => PledgeInv'
  BY StepSecures
<1>3. PledgeInv => PledgesKept
  BY SecuredImplies
<1> QED
  BY <1>1, <1>2, <1>3, PTL DEF Spec

(* Where the inputs of a batch divide the scale, no recipe takes more than  *)
(* there is, and no month is stopped by that (whole_economy.py _produce).   *)
THEOREM InputsAlwaysThere == ASSUME ExactInputs PROVE Spec => [](failed \notin {"inputs", "pledges"})
<1> DEFINE There == failed \notin {"inputs", "pledges"}
<1>1. Init => PledgeInv /\ There
  BY InitSecured DEF Init
<1>2. PledgeInv /\ There /\ [Next]_vars => (PledgeInv /\ There)'
  BY StepSecures, StepHasInputs
<1> QED
  BY <1>1, <1>2, PTL DEF Spec
-----------------------------------------------------------------------------
(* Every step keeps money and loans in whole cents. *)
LEMMA StepRounds == ASSUME InWholeCents, Rounding, [Next]_vars PROVE Rounding'
<1>0. WholeInv /\ WholeMoney(market.money) /\ WholeLoans(loans) /\ Shaped(market)
  BY MarketParts, MarketOfInv DEF Rounding, Shaped
<1>1. WholeMoney(market'.money) /\ WholeLoans(loans')
  <2>1. ASSUME Trades PROVE WholeMoney(market'.money) /\ WholeLoans(loans')
    BY <1>0, <2>1 DEF Trades, Traded, Onwards
  <2>2. CASE UNCHANGED <<market, loans>>
    BY <1>0, <2>2
  <2>3. CASE Produce
    <3> DEFINE r == Recipes[Item]
               n == Batches(r)
               k == Worked(r, n)
               paid == Payroll(market, r, n)
    <3>1. Item \in DOMAIN Recipes
      BY <2>3, ItemOf DEF Produce
    <3>2. Completed(r, n, k, paid)
      BY <2>3 DEF Produce, Produced
    <3>3. n \in Nat
      BY <1>0, <3>1, BatchesTyped
    <3>4. \/ market' = market
          \/ ~Overdrawn(k, r) /\ market' = [k EXCEPT !.money = paid.money]
      BY <3>2 DEF Completed, Fail
    <3>5. loans' = loans
      BY <3>2 DEF Completed, Fail, account
    <3>6. CASE ~Overdrawn(k, r) /\ market' = [k EXCEPT !.money = paid.money]
      <4> HIDE DEF n
      <4>1. Shaped(k)
        BY <1>0, <3>1, <3>3, <3>6, WorkedStock
      <4>2. paid.money \in Onwards(market.money)
        BY <1>0, <3>1, <3>3, PayrollKeeps DEF Payments
      <4> HIDE DEF k, paid
      <4>3. market'.money = paid.money
        BY <3>6, <4>1 DEF Shaped
      <4> QED
        BY <1>0, <3>5, <4>2, <4>3 DEF Onwards
    <3> QED
      BY <1>0, <3>4, <3>5, <3>6
  <2>4. CASE ApplyStorageSpoilage
    <3> DEFINE stock == [row \in Rows |-> Spoilt(row)]
               gone == [g \in Goods |-> market.gone[g] + Sum([row \in Rows |-> Lost(row)],
                                                             {row \in Rows : row[3] = g})]
    <3>1. market' = [market EXCEPT !.stock = stock, !.gone = gone] /\ loans' = loans
      BY <2>4 DEF ApplyStorageSpoilage
    <3> HIDE DEF stock, gone
    <3>2. market'.money = market.money
      BY <1>0, <3>1 DEF Shaped
    <3> QED
      BY <1>0, <3>1, <3>2
  <2>5. CASE CloseMonth
    <3>1. (market' = market \/ market' = Fresh(market)) /\ loans' = loans
      BY <2>5 DEF CloseMonth, Fail, account
    <3>2. market'.money = market.money
      BY <1>0, <3>1 DEF Fresh, Shaped
    <3> QED
      BY <1>0, <3>1, <3>2
  <2>6. \/ Trades \/ UNCHANGED <<market, loans>> \/ OriginateCredit \/ Produce
        \/ ApplyStorageSpoilage \/ ServiceLoan \/ CloseMonth
    BY <1>0, ShocksTrade, ArriveTrades, AllArrivedTrades, WagesTrade, OpenTrades, HouseholdTrades,
       BusinessTrades, PricesTrade, CollectTrades, MigrateTrades DEF Next, vars
  <2> QED
    BY <2>1, <2>2, <2>3, <2>4, <2>5, <2>6, CreditWhole, ServiceWhole
<1>2. WholeInv'
  BY <1>0, StepSafe DEF Safe
<1> QED
  BY <1>1, <1>2 DEF Rounding

\* Why a month stops, where nothing is rounded but batches.
Stops == PledgeInv /\ Rounding /\ OnlyProductionFails

(* Every step keeps the reasons that a month can be stopped for. *)
LEMMA StepStops == ASSUME ExactInputs, InWholeCents, Stops, [Next]_vars PROVE Stops'
<1>1. PledgeInv' /\ Rounding' /\ WholeInv
  BY StepSecures, StepRounds DEF Stops, PledgeInv
<1>2. market'.full
  BY <1>1, FullStays DEF Stops, OnlyProductionFails
<1>3. failed' \notin {"inputs", "pledges"} \/ failed' = failed
  BY StepHasInputs DEF Stops
<1>4. ServiceLoan => failed' = failed
  BY ServiceWhole DEF Stops
<1>5. failed \in {"", "inputs", "payroll", "employment"} /\ market.full
  BY DEF Stops, OnlyProductionFails
<1>6. failed' \in {"", "inputs", "payroll", "employment"}
  BY <1>1, <1>3, <1>4, <1>5, PlainSteps, ProduceFails, OpenFails, CloseFails
<1> QED
  BY <1>1, <1>2, <1>6 DEF Stops, OnlyProductionFails

(* In whole cents, and where the inputs of a batch divide the scale, only a *)
(* payroll or the labour a pool has can stop a month: every bundle admitted *)
(* is settled, every loan's service adds up, and the closing checks pass.   *)
THEOREM OnlyProductionEverFails == ASSUME ExactInputs, InWholeCents PROVE Spec => []OnlyProductionFails
<1>1. Init => Stops
  <2> SUFFICES ASSUME Init PROVE Stops
    OBVIOUS
  <2>1. market.full /\ failed = ""
    BY OpensFull
  <2> QED
    BY <2>1, InitSecured, InitWhole DEF Stops, OnlyProductionFails
<1>2. Stops /\ [Next]_vars => Stops'
  BY StepStops
<1>3. Stops => OnlyProductionFails
  BY DEF Stops
<1> QED
  BY <1>1, <1>2, <1>3, PTL DEF Spec
=============================================================================
