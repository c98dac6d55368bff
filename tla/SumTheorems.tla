---------------------------- MODULE SumTheorems -----------------------------
(***************************************************************************)
(* Sums of whole numbers over finite sets.  A sum is a fold over chosen    *)
(* elements; these lemmas say that it is defined, that the choice does not *)
(* matter, and how it changes with the set and with what is added up.      *)
(* Then what rounding half-even keeps, and least and greatest numbers.     *)
(***************************************************************************)
EXTENDS FixedPoint, Sums, FiniteSetTheorems, TLAPS

Pick(s) == CHOOSE x \in s : TRUE

\* What the fold takes on the subsets in D, where it is defined there.
IsFold(g, F, D) ==
  g = [s \in D |-> IF s = {} THEN 0 ELSE F[Pick(s)] + g[s \ {Pick(s)}]]

(* The element a fold takes first is one of the set. *)
LEMMA Picked == \A s : s # {} => Pick(s) \in s
BY DEF Pick

(* A sum is the value of such a fold on the whole set. *)
LEMMA SumUnfolds ==
  ASSUME NEW F, NEW S
  PROVE  Sum(F, S) = (CHOOSE g : IsFold(g, F, SUBSET S))[S]
BY DEF Sum, MapThenSumSet, MapThenFoldSet, IsFold, Pick

(* A nonempty set of numbers has a least one. *)
LEMMA LeastNumber ==
  ASSUME NEW N \in SUBSET Nat, N # {}
  PROVE  \E n \in N : \A k \in N : n <= k
<1> DEFINE Less == {pair \in Nat \X Nat : pair[1] < pair[2]}
<1>1. IsWellFoundedOn(Less, Nat)
  BY NatLessThanWellFounded, Zenon DEF OpToRel
<1>2. PICK n \in N : \A k \in N : <<k, n>> \notin Less
  <2> HIDE DEF Less
  <2> QED  BY <1>1, WFMin
<1>3. \A k \in N : ~ (k < n)
  BY <1>2
<1> QED
  BY <1>3

(* A set of numbers with 0 and, after each of its numbers, the next is Nat. *)
LEMMA Induct ==
  ASSUME NEW N \in SUBSET Nat, 0 \in N, \A n \in N : n + 1 \in N
  PROVE  N = Nat
<1> SUFFICES ASSUME Nat \ N # {} PROVE FALSE
  OBVIOUS
<1>1. PICK n \in Nat \ N : \A k \in Nat \ N : n <= k
  BY LeastNumber
<1>2. n - 1 \in N
  BY <1>1
<1> QED
  BY <1>1, <1>2

\* The subsets with at most n elements.
UpTo(S, n) == {s \in SUBSET S : Cardinality(s) <= n}

(* A subset without the element picked is one smaller. *)
LEMMA Smaller ==
  ASSUME NEW S, IsFiniteSet(S), NEW n \in Nat
  PROVE  /\ UpTo(S, 0) = {{}}
         /\ UpTo(S, Cardinality(S)) = SUBSET S
         /\ \A s \in UpTo(S, n + 1) : s # {} => s \ {Pick(s)} \in UpTo(S, n)
<1>1. \A s \in SUBSET S : IsFiniteSet(s) /\ Cardinality(s) \in Nat
                            /\ Cardinality(s) <= Cardinality(S)
  BY FS_Subset, FS_CardinalityType
<1>2. \A s \in SUBSET S : Cardinality(s) = 0 <=> s = {}
  BY <1>1, FS_EmptySet
<1>3. \A s \in SUBSET S : s # {} => Cardinality(s \ {Pick(s)}) = Cardinality(s) - 1
  BY <1>1, Picked, FS_RemoveElement
<1>4. UpTo(S, 0) = {{}}
  <2>1. \A s \in SUBSET S : Cardinality(s) <= 0 <=> s = {}
    BY <1>1, <1>2
  <2> QED
    BY <2>1 DEF UpTo
<1>5. UpTo(S, Cardinality(S)) = SUBSET S
  BY <1>1 DEF UpTo
<1>6. ASSUME NEW s \in UpTo(S, n + 1), s # {} PROVE s \ {Pick(s)} \in UpTo(S, n)
  BY <1>1, <1>3, <1>6 DEF UpTo
<1> QED
  BY <1>4, <1>5, <1>6

\* A set of subsets that, from the empty set on, holds every subset once it
\* holds that subset without the element picked, holds them all.
LEMMA SubsetInduct ==
  ASSUME NEW S, IsFiniteSet(S), NEW P \in SUBSET (SUBSET S), {} \in P,
         \A s \in SUBSET S : s # {} /\ s \ {Pick(s)} \in P => s \in P
  PROVE  P = SUBSET S
<1> DEFINE N == {n \in Nat : UpTo(S, n) \subseteq P}
<1>1. 0 \in N
  <2>1. UpTo(S, 0) = {{}}
    BY Smaller
  <2> QED
    BY <2>1
<1>2. ASSUME NEW n \in N PROVE n + 1 \in N
  <2>1. n \in Nat /\ UpTo(S, n) \subseteq P
    OBVIOUS
  <2>2. ASSUME NEW s \in UpTo(S, n + 1) PROVE s \in P
    <3>1. s \in SUBSET S
      BY DEF UpTo
    <3>2. s # {} => s \ {Pick(s)} \in UpTo(S, n)
      BY <2>1, Smaller
    <3> QED
      BY <2>1, <3>1, <3>2
  <2> QED
    BY <2>1, <2>2
<1>3. N = Nat
  <2> HIDE DEF N
  <2>1. N \in SUBSET Nat
    BY DEF N
  <2> QED
    BY <1>1, <1>2, <2>1, Induct
<1>4. Cardinality(S) \in Nat /\ UpTo(S, Cardinality(S)) = SUBSET S
  BY FS_CardinalityType, Smaller
<1> QED
  BY <1>3, <1>4

(* The same, adding any element. *)
LEMMA InsertInduct ==
  ASSUME NEW S, IsFiniteSet(S), NEW P \in SUBSET (SUBSET S), {} \in P,
         \A s \in P : \A x \in S \ s : s \cup {x} \in P
  PROVE  P = SUBSET S
<1>1. ASSUME NEW s \in SUBSET S, s # {}, s \ {Pick(s)} \in P PROVE s \in P
  <2>1. Pick(s) \in s
    BY <1>1, Picked
  <2>2. s = (s \ {Pick(s)}) \cup {Pick(s)} /\ Pick(s) \in S \ (s \ {Pick(s)})
    BY <2>1
  <2> QED
    BY <1>1, <2>2
<1> QED
  BY <1>1, SubsetInduct
-----------------------------------------------------------------------------
(* There is such a fold over a finite set. *)
LEMMA FoldExists ==
  ASSUME NEW F, NEW S, IsFiniteSet(S)
  PROVE  \E g : IsFold(g, F, SUBSET S)
<1> DEFINE N == {n \in Nat : \E g : IsFold(g, F, UpTo(S, n))}
<1>1. 0 \in N
  <2>1. PICK g : g = [s \in {{}} |-> 0]
    OBVIOUS
  <2>2. UpTo(S, 0) = {{}}
    BY Smaller
  <2>3. IsFold(g, F, UpTo(S, 0))
    BY <2>1, <2>2 DEF IsFold
  <2> QED
    BY <2>3
<1>2. ASSUME NEW n \in N PROVE n + 1 \in N
  <2>1. PICK g : IsFold(g, F, UpTo(S, n))
    OBVIOUS
  <2> DEFINE h == [s \in UpTo(S, n + 1) |->
                     IF s = {} THEN 0 ELSE F[Pick(s)] + g[s \ {Pick(s)}]]
  <2>2. \A t \in UpTo(S, n) : t \in UpTo(S, n + 1)
    <3>1. \A t \in SUBSET S : Cardinality(t) \in Nat
      BY FS_Subset, FS_CardinalityType
    <3> QED
      BY <3>1 DEF UpTo
  <2>3. \A t \in UpTo(S, n) : h[t] = g[t]
    BY <2>1, <2>2 DEF IsFold
  <2>4. \A s \in UpTo(S, n + 1) : s # {} => h[s \ {Pick(s)}] = g[s \ {Pick(s)}]
    <3> HIDE DEF h
    <3> QED
      BY <2>3, Smaller
  <2>5. IsFold(h, F, UpTo(S, n + 1))
    BY <2>4 DEF IsFold
  <2> QED
    BY <2>5
<1>3. N = Nat
  <2> HIDE DEF N
  <2>1. N \in SUBSET Nat
    BY DEF N
  <2> QED
    BY <1>1, <1>2, <2>1, Induct
<1>4. Cardinality(S) \in N
  <2> HIDE DEF N
  <2> QED
    BY <1>3, FS_CardinalityType
<1>5. PICK g : IsFold(g, F, UpTo(S, Cardinality(S)))
  BY <1>4
<1>6. UpTo(S, Cardinality(S)) = SUBSET S
  BY Smaller, FS_CardinalityType
<1> QED
  BY <1>5, <1>6

(* Two folds agree wherever both are defined on all subsets. *)
LEMMA FoldsAgree ==
  ASSUME NEW F, NEW S, NEW T \in SUBSET S, IsFiniteSet(T), NEW g, NEW h,
         IsFold(g, F, SUBSET S), IsFold(h, F, SUBSET T)
  PROVE  g[T] = h[T]
<1> DEFINE P == {s \in SUBSET T : g[s] = h[s]}
<1>1. \A s \in SUBSET S :
        g[s] = IF s = {} THEN 0 ELSE F[Pick(s)] + g[s \ {Pick(s)}]
  BY DEF IsFold
<1>2. \A s \in SUBSET T :
        h[s] = IF s = {} THEN 0 ELSE F[Pick(s)] + h[s \ {Pick(s)}]
  BY DEF IsFold
<1>3. {} \in P
  BY <1>1, <1>2
<1>4. ASSUME NEW s \in SUBSET T, s # {}, s \ {Pick(s)} \in P PROVE s \in P
  BY <1>1, <1>2, <1>4
<1>5. P = SUBSET T
  <2> HIDE DEF P
  <2>1. P \in SUBSET (SUBSET T)
    BY DEF P
  <2> QED
    BY <1>3, <1>4, <2>1, SubsetInduct
<1>6. T \in P
  BY <1>5
<1> QED
  BY <1>6

(* A sum is its picked element and the sum of the others. *)
LEMMA SumStep ==
  ASSUME NEW F, NEW S, IsFiniteSet(S)
  PROVE  /\ S = {} => Sum(F, S) = 0
         /\ S # {} => Sum(F, S) = F[Pick(S)] + Sum(F, S \ {Pick(S)})
<1> DEFINE g == CHOOSE k : IsFold(k, F, SUBSET S)
           T == S \ {Pick(S)}
           h == CHOOSE k : IsFold(k, F, SUBSET T)
<1>1. IsFiniteSet(T)
  BY FS_Subset
<1>2. IsFold(g, F, SUBSET S) /\ IsFold(h, F, SUBSET T)
  BY <1>1, FoldExists
<1>3. Sum(F, S) = g[S] /\ Sum(F, T) = h[T]
  BY SumUnfolds
<1>4. g[T] = h[T]
  <2> HIDE DEF g, h
  <2> QED
    BY <1>1, <1>2, FoldsAgree
<1>5. g[S] = IF S = {} THEN 0 ELSE F[Pick(S)] + g[T]
  <2> HIDE DEF g
  <2> QED
    BY <1>2 DEF IsFold
<1> QED
  BY <1>3, <1>4, <1>5
-----------------------------------------------------------------------------
(* The element that is taken out first does not matter. *)
LEMMA SumRemove ==
  ASSUME NEW S, IsFiniteSet(S), NEW F, \A x \in S : F[x] \in Int
  PROVE  /\ Sum(F, S) \in Int
         /\ \A x \in S : Sum(F, S) = F[x] + Sum(F, S \ {x})
<1> DEFINE Free(s) == /\ Sum(F, s) \in Int
                      /\ \A x \in s : Sum(F, s) = F[x] + Sum(F, s \ {x})
           N == {n \in Nat : \A s \in UpTo(S, n) : Free(s)}
<1>0. \A s \in SUBSET S : IsFiniteSet(s)
  BY FS_Subset
<1>1. 0 \in N
  <2>1. UpTo(S, 0) = {{}}
    BY Smaller
  <2>2. Sum(F, {}) = 0
    BY <1>0, SumStep
  <2> QED
    BY <2>1, <2>2
<1>2. ASSUME NEW n \in N PROVE n + 1 \in N
  <2>1. n \in Nat /\ \A s \in UpTo(S, n) : Free(s)
    OBVIOUS
  <2>2. ASSUME NEW s \in UpTo(S, n + 1), s # {} PROVE Free(s)
    <3> DEFINE p == Pick(s)
    <3>1. p \in s /\ s \in SUBSET S
      BY <2>2, Picked DEF UpTo
    <3>2. s \ {p} \in UpTo(S, n)
      BY <2>1, <2>2, Smaller
    <3>3. Sum(F, s) = F[p] + Sum(F, s \ {p})
      BY <1>0, <2>2, <3>1, SumStep
    <3>4. Sum(F, s \ {p}) \in Int /\ F[p] \in Int
      BY <2>1, <3>1, <3>2
    <3>5. ASSUME NEW x \in s, x # p PROVE Sum(F, s) = F[x] + Sum(F, s \ {x})
      <4> DEFINE r == (s \ {p}) \ {x}
      <4>1. Sum(F, s \ {p}) = F[x] + Sum(F, r)
        BY <2>1, <3>2, <3>5
      <4>2. s \ {x} \in UpTo(S, n)
        <5>1. Cardinality(s \ {x}) = Cardinality(s) - 1
          BY <1>0, <3>1, FS_RemoveElement
        <5>2. Cardinality(s) \in Nat /\ Cardinality(s) <= n + 1
          BY <1>0, <3>1, FS_CardinalityType DEF UpTo
        <5> QED
          BY <2>1, <3>1, <5>1, <5>2 DEF UpTo
      <4>3. p \in s \ {x} /\ (s \ {x}) \ {p} = r
        BY <3>1, <3>5
      <4>4. Sum(F, s \ {x}) = F[p] + Sum(F, r)
        BY <2>1, <4>2, <4>3
      <4>5. Sum(F, r) \in Int
        <5>1. r \in UpTo(S, n)
          <6>1. Cardinality(r) = Cardinality(s \ {x}) - 1
            <7>1. IsFiniteSet(s \ {x})
              BY <1>0, <3>1
            <7> HIDE DEF r, p
            <7> QED
              BY <4>3, <7>1, FS_RemoveElement
          <6>2. Cardinality(s \ {x}) \in Nat /\ Cardinality(s \ {x}) <= n
            BY <1>0, <3>1, <4>2, FS_CardinalityType DEF UpTo
          <6> QED
            BY <2>1, <3>1, <6>1, <6>2 DEF UpTo
        <5> QED
          BY <2>1, <5>1
      <4>6. F[x] \in Int
        BY <3>1
      <4> HIDE DEF r, p
      <4> QED
        BY <3>3, <3>4, <4>1, <4>4, <4>5, <4>6
    <3>6. Sum(F, s) \in Int
      <4> HIDE DEF p
      <4> QED
        BY <3>3, <3>4
    <3>7. \A x \in s : Sum(F, s) = F[x] + Sum(F, s \ {x})
      <4> HIDE DEF p
      <4> QED
        BY <3>3, <3>5
    <3> QED
      BY <3>6, <3>7
  <2>3. Free({})
    <3>1. Sum(F, {}) = 0
      BY <1>0, SumStep
    <3> QED
      BY <3>1
  <2> HIDE DEF Free
  <2> QED
    BY <2>1, <2>2, <2>3
<1>3. N = Nat
  <2> HIDE DEF N
  <2>1. N \in SUBSET Nat
    BY DEF N
  <2> QED
    BY <1>1, <1>2, <2>1, Induct
<1>4. S \in UpTo(S, Cardinality(S)) /\ Cardinality(S) \in N
  <2>1. Cardinality(S) \in Nat
    BY FS_CardinalityType
  <2> QED
    BY <1>3, <2>1 DEF UpTo
<1>5. Free(S)
  BY <1>4
<1> QED
  BY <1>5

(* The sum of nothing is zero. *)
LEMMA SumEmpty == \A F : Sum(F, {}) = 0
BY SumStep, FS_EmptySet

(* A new element adds its own. *)
LEMMA SumInsert ==
  ASSUME NEW S, IsFiniteSet(S), NEW x, x \notin S, NEW F,
         F[x] \in Int, \A y \in S : F[y] \in Int
  PROVE  Sum(F, S \cup {x}) = F[x] + Sum(F, S)
<1> DEFINE T == S \cup {x}
<1>1. IsFiniteSet(T)
  BY FS_AddElement
<1>2. \A y \in T : F[y] \in Int
  OBVIOUS
<1>3. x \in T /\ T \ {x} = S
  OBVIOUS
<1> HIDE DEF T
<1>4. Sum(F, T) = F[x] + Sum(F, T \ {x})
  BY <1>1, <1>2, <1>3, SumRemove
<1> QED
  BY <1>3, <1>4 DEF T

(* A sum of whole numbers is a whole number. *)
LEMMA SumType ==
  ASSUME NEW S, IsFiniteSet(S), NEW F, \A x \in S : F[x] \in Int
  PROVE  Sum(F, S) \in Int
BY SumRemove

(* Only what is added up matters. *)
LEMMA SumEqual ==
  ASSUME NEW S, IsFiniteSet(S), NEW F, NEW G, \A x \in S : F[x] = G[x]
  PROVE  Sum(F, S) = Sum(G, S)
<1> DEFINE P == {s \in SUBSET S : Sum(F, s) = Sum(G, s)}
<1>1. {} \in P
  BY SumEmpty
<1>2. ASSUME NEW s \in SUBSET S, s # {}, s \ {Pick(s)} \in P PROVE s \in P
  <2>1. IsFiniteSet(s) /\ Pick(s) \in s
    BY <1>2, FS_Subset, Picked
  <2>2. /\ Sum(F, s) = F[Pick(s)] + Sum(F, s \ {Pick(s)})
        /\ Sum(G, s) = G[Pick(s)] + Sum(G, s \ {Pick(s)})
    BY <1>2, <2>1, SumStep
  <2> QED
    BY <1>2, <2>1, <2>2
<1>3. P = SUBSET S
  <2> HIDE DEF P
  <2>1. P \in SUBSET (SUBSET S)
    BY DEF P
  <2> QED
    BY <1>1, <1>2, <2>1, SubsetInduct
<1>4. S \in P
  BY <1>3
<1> QED
  BY <1>4

(* The sum of sums is the sum of what they add. *)
LEMMA SumPlus ==
  ASSUME NEW S, IsFiniteSet(S), NEW F, NEW G, NEW H,
         \A x \in S : F[x] \in Int /\ G[x] \in Int /\ H[x] = F[x] + G[x]
  PROVE  Sum(H, S) = Sum(F, S) + Sum(G, S)
<1> DEFINE P == {s \in SUBSET S : Sum(H, s) = Sum(F, s) + Sum(G, s)}
<1>1. {} \in P
  BY SumEmpty
<1>2. ASSUME NEW s \in SUBSET S, s # {}, s \ {Pick(s)} \in P PROVE s \in P
  <2> DEFINE r == s \ {Pick(s)}
  <2>1. IsFiniteSet(s) /\ IsFiniteSet(r) /\ Pick(s) \in s
    BY <1>2, FS_Subset, Picked
  <2>2. /\ Sum(F, s) = F[Pick(s)] + Sum(F, r)
        /\ Sum(G, s) = G[Pick(s)] + Sum(G, r)
        /\ Sum(H, s) = H[Pick(s)] + Sum(H, r)
    BY <1>2, <2>1, SumStep
  <2>3. Sum(F, r) \in Int /\ Sum(G, r) \in Int
    BY <2>1, SumType
  <2>4. Sum(H, r) = Sum(F, r) + Sum(G, r)
    BY <1>2
  <2> HIDE DEF r
  <2> QED
    BY <2>1, <2>2, <2>3, <2>4
<1>3. P = SUBSET S
  <2> HIDE DEF P
  <2>1. P \in SUBSET (SUBSET S)
    BY DEF P
  <2> QED
    BY <1>1, <1>2, <2>1, SubsetInduct
<1>4. S \in P
  BY <1>3
<1> QED
  BY <1>4

(* Zeros add up to zero. *)
LEMMA SumZero ==
  ASSUME NEW S, IsFiniteSet(S), NEW F, \A x \in S : F[x] = 0
  PROVE  Sum(F, S) = 0
<1>1. \A x \in S : F[x] \in Int /\ F[x] = F[x] + F[x]
  OBVIOUS
<1>2. Sum(F, S) = Sum(F, S) + Sum(F, S) /\ Sum(F, S) \in Int
  BY <1>1, SumPlus, SumType
<1>3. \A k \in Int : k = k + k => k = 0
  OBVIOUS
<1> QED
  BY <1>2, <1>3, Zenon

(* All but one are nothing. *)
LEMMA SumPoint ==
  ASSUME NEW S, IsFiniteSet(S), NEW F, NEW a, NEW n \in Int,
         \A x \in S : F[x] = IF x = a THEN n ELSE 0
  PROVE  Sum(F, S) = IF a \in S THEN n ELSE 0
<1>1. CASE a \notin S
  BY <1>1, SumZero
<1>2. CASE a \in S
  <2>1. Sum(F, S) = F[a] + Sum(F, S \ {a})
    BY <1>2, SumRemove
  <2>2. Sum(F, S \ {a}) = 0
    BY FS_Subset, SumZero
  <2> QED
    BY <1>2, <2>1, <2>2
<1> QED
  BY <1>1, <1>2

(* Disjoint sets add up apart. *)
LEMMA SumUnion ==
  ASSUME NEW S, IsFiniteSet(S), NEW T, IsFiniteSet(T), S \cap T = {}, NEW F,
         \A x \in S \cup T : F[x] \in Int
  PROVE  Sum(F, S \cup T) = Sum(F, S) + Sum(F, T)
<1> DEFINE U == S \cup T
           G == [x \in U |-> IF x \in S THEN F[x] ELSE 0]
           H == [x \in U |-> IF x \in T THEN F[x] ELSE 0]
           P == {s \in SUBSET T : Sum(F, S \cup s) = Sum(F, S) + Sum(F, s)}
<1>0. \A s \in SUBSET T : IsFiniteSet(s) /\ IsFiniteSet(S \cup s)
  BY FS_Subset, FS_Union
<1>1. {} \in P
  <2>1. S \cup {} = S /\ Sum(F, S) \in Int
    BY SumType
  <2> QED
    BY <2>1, SumEmpty
<1>2. ASSUME NEW s \in P, NEW x \in T \ s PROVE s \cup {x} \in P
  <2> DEFINE V == S \cup s
  <2>1. /\ IsFiniteSet(s) /\ IsFiniteSet(V) /\ x \notin V
        /\ S \cup (s \cup {x}) = V \cup {x}
    BY <1>0
  <2>2. F[x] \in Int /\ (\A y \in V : F[y] \in Int) /\ (\A y \in s : F[y] \in Int)
    OBVIOUS
  <2> HIDE DEF V
  <2>3. Sum(F, V \cup {x}) = F[x] + Sum(F, V)
    BY <2>1, <2>2, SumInsert
  <2>4. Sum(F, s \cup {x}) = F[x] + Sum(F, s)
    BY <2>1, <2>2, SumInsert
  <2>5. Sum(F, V) = Sum(F, S) + Sum(F, s)
    BY DEF V
  <2>6. Sum(F, S) \in Int /\ Sum(F, s) \in Int
    BY <2>1, <2>2, SumType
  <2>7. Sum(F, V \cup {x}) = Sum(F, S) + Sum(F, s \cup {x})
    BY <2>2, <2>3, <2>4, <2>5, <2>6
  <2>8. s \cup {x} \in SUBSET T
    OBVIOUS
  <2> QED
    BY <2>1, <2>7, <2>8
<1>3. P = SUBSET T
  <2> HIDE DEF P
  <2>1. P \in SUBSET (SUBSET T)
    BY DEF P
  <2> QED
    BY <1>1, <1>2, <2>1, InsertInduct
<1>4. T \in P
  BY <1>3
<1> QED
  BY <1>4

(* Nothing negative adds up to nothing negative. *)
LEMMA SumNat ==
  ASSUME NEW S, IsFiniteSet(S), NEW F, \A x \in S : F[x] \in Nat
  PROVE  Sum(F, S) \in Nat
<1> DEFINE P == {s \in SUBSET S : Sum(F, s) \in Nat}
<1>1. {} \in P
  BY SumEmpty
<1>2. ASSUME NEW s \in P, NEW x \in S \ s PROVE s \cup {x} \in P
  <2>1. IsFiniteSet(s)
    BY FS_Subset
  <2>2. F[x] \in Nat /\ \A y \in s : F[y] \in Nat
    OBVIOUS
  <2>3. Sum(F, s \cup {x}) = F[x] + Sum(F, s)
    BY <2>1, <2>2, SumInsert
  <2> QED
    BY <2>2, <2>3
<1>3. P = SUBSET S
  <2> HIDE DEF P
  <2>1. P \in SUBSET (SUBSET S)
    BY DEF P
  <2> QED
    BY <1>1, <1>2, <2>1, InsertInduct
<1>4. S \in P
  BY <1>3
<1> QED
  BY <1>4
-----------------------------------------------------------------------------
\* A transaction on the accounts in X: up to six postings, of n[i] to a[i].
Postings(X, a, n) ==
  [x \in X |-> At(x, a[1], n[1]) + At(x, a[2], n[2]) + At(x, a[3], n[3])
               + At(x, a[4], n[4]) + At(x, a[5], n[5]) + At(x, a[6], n[6])]
\* What the postings in I come to.
Part(n, I) == (IF 1 \in I THEN n[1] ELSE 0) + (IF 2 \in I THEN n[2] ELSE 0)
            + (IF 3 \in I THEN n[3] ELSE 0) + (IF 4 \in I THEN n[4] ELSE 0)
            + (IF 5 \in I THEN n[5] ELSE 0) + (IF 6 \in I THEN n[6] ELSE 0)

(* A transaction changes a sum by those of its postings that fall into it. *)
LEMMA SumPostings ==
  ASSUME NEW X, NEW S \in SUBSET X, IsFiniteSet(S), NEW a, NEW n,
         \A i \in 1..6 : n[i] \in Int
  PROVE  Sum(Postings(X, a, n), S) = Part(n, {i \in 1..6 : a[i] \in S})
<1> DEFINE F == Postings(X, a, n)
           F0 == [x \in S |-> 0]
           F1 == [x \in S |-> At(x, a[1], n[1])]
           F2 == [x \in S |-> F1[x] + At(x, a[2], n[2])]
           F3 == [x \in S |-> F2[x] + At(x, a[3], n[3])]
           F4 == [x \in S |-> F3[x] + At(x, a[4], n[4])]
           F5 == [x \in S |-> F4[x] + At(x, a[5], n[5])]
           F6 == [x \in S |-> F5[x] + At(x, a[6], n[6])]
           Adds(f, g, c, k) == \A x \in S : f[x] \in Int /\ g[x] = f[x] + At(x, c, k)
<1>0. /\ n[1] \in Int /\ n[2] \in Int /\ n[3] \in Int
      /\ n[4] \in Int /\ n[5] \in Int /\ n[6] \in Int
  OBVIOUS
<1>1. /\ Adds(F0, F1, a[1], n[1]) /\ Adds(F1, F2, a[2], n[2]) /\ Adds(F2, F3, a[3], n[3])
      /\ Adds(F3, F4, a[4], n[4]) /\ Adds(F4, F5, a[5], n[5]) /\ Adds(F5, F6, a[6], n[6])
  <2>1. \A x : /\ At(x, a[1], n[1]) \in Int /\ At(x, a[2], n[2]) \in Int
               /\ At(x, a[3], n[3]) \in Int /\ At(x, a[4], n[4]) \in Int
               /\ At(x, a[5], n[5]) \in Int /\ At(x, a[6], n[6]) \in Int
    BY <1>0 DEF At
  <2>2. \A x \in S : F0[x] = 0 /\ F1[x] = F0[x] + At(x, a[1], n[1]) /\ F1[x] \in Int
    BY <2>1
  <2>3. \A x \in S : F2[x] = F1[x] + At(x, a[2], n[2]) /\ F3[x] = F2[x] + At(x, a[3], n[3])
    OBVIOUS
  <2>4. \A x \in S : F4[x] = F3[x] + At(x, a[4], n[4]) /\ F5[x] = F4[x] + At(x, a[5], n[5])
    OBVIOUS
  <2>5. \A x \in S : F6[x] = F5[x] + At(x, a[6], n[6])
    OBVIOUS
  <2> HIDE DEF F0, F1, F2, F3, F4, F5, F6
  <2> QED
    BY <2>1, <2>2, <2>3, <2>4, <2>5
<1>2. \A x \in S : F[x] = F6[x] /\ F0[x] = 0
  BY <1>0 DEF At, Postings
<1>11. ASSUME NEW f, NEW g, NEW c, NEW k \in Int, Adds(f, g, c, k)
       PROVE  Sum(g, S) = Sum(f, S) + (IF c \in S THEN k ELSE 0)
  <2> DEFINE H == [x \in S |-> At(x, c, k)]
  <2>1. \A x \in S : H[x] = IF x = c THEN k ELSE 0
    BY DEF At
  <2>2. \A x \in S : f[x] \in Int /\ H[x] \in Int /\ g[x] = f[x] + H[x]
    BY <1>11, <2>1
  <2> HIDE DEF Adds, H, F, F0, F1, F2, F3, F4, F5, F6
  <2>3. Sum(H, S) = IF c \in S THEN k ELSE 0
    BY <2>1, SumPoint
  <2>4. Sum(g, S) = Sum(f, S) + Sum(H, S)
    BY <2>2, SumPlus
  <2> QED
    BY <2>3, <2>4
<1> HIDE DEF F, F0, F1, F2, F3, F4, F5, F6, Adds
<1>3. Sum(F0, S) = 0
  BY <1>2, SumZero
<1>4. Sum(F1, S) = Sum(F0, S) + (IF a[1] \in S THEN n[1] ELSE 0)
  BY <1>0, <1>1, <1>11
<1>5. Sum(F2, S) = Sum(F1, S) + (IF a[2] \in S THEN n[2] ELSE 0)
  BY <1>0, <1>1, <1>11
<1>6. Sum(F3, S) = Sum(F2, S) + (IF a[3] \in S THEN n[3] ELSE 0)
  BY <1>0, <1>1, <1>11
<1>7. Sum(F4, S) = Sum(F3, S) + (IF a[4] \in S THEN n[4] ELSE 0)
  BY <1>0, <1>1, <1>11
<1>8. Sum(F5, S) = Sum(F4, S) + (IF a[5] \in S THEN n[5] ELSE 0)
  BY <1>0, <1>1, <1>11
<1>9. Sum(F6, S) = Sum(F5, S) + (IF a[6] \in S THEN n[6] ELSE 0)
  BY <1>0, <1>1, <1>11
<1>10. Sum(F, S) = Sum(F6, S)
  BY <1>2, SumEqual
<1>12. Sum(F, S) = (IF a[1] \in S THEN n[1] ELSE 0) + (IF a[2] \in S THEN n[2] ELSE 0)
                   + (IF a[3] \in S THEN n[3] ELSE 0) + (IF a[4] \in S THEN n[4] ELSE 0)
                   + (IF a[5] \in S THEN n[5] ELSE 0) + (IF a[6] \in S THEN n[6] ELSE 0)
  BY <1>0, <1>3, <1>4, <1>5, <1>6, <1>7, <1>8, <1>9, <1>10
<1>13. \A i \in 1..6 : i \in {j \in 1..6 : a[j] \in S} <=> a[i] \in S
  OBVIOUS
<1> QED
  BY <1>12, <1>13 DEF F, Part

(* What adds nothing may be left out. *)
LEMMA SumWithin ==
  ASSUME NEW S, IsFiniteSet(S), NEW T \in SUBSET S, NEW F, NEW G,
         \A x \in T : F[x] \in Int /\ G[x] = F[x],
         \A x \in S \ T : F[x] = 0
  PROVE  Sum(F, S) = Sum(G, T)
<1> DEFINE R == S \ T
<1>1. IsFiniteSet(T) /\ IsFiniteSet(R) /\ T \cap R = {} /\ S = T \cup R
  BY FS_Subset
<1>2. \A x \in T \cup R : F[x] \in Int
  OBVIOUS
<1>3. Sum(F, R) = 0 /\ Sum(F, T) = Sum(G, T) /\ Sum(F, T) \in Int
  BY <1>1, SumZero, SumEqual, SumType
<1>4. Sum(F, S) = Sum(F, T) + Sum(F, R)
  <2> HIDE DEF R
  <2> QED
    BY <1>1, <1>2, SumUnion
<1> QED
  BY <1>3, <1>4

(* What is sorted into places adds up to what it was. *)
LEMMA SumFibers ==
  ASSUME NEW S, IsFiniteSet(S), NEW T, IsFiniteSet(T), NEW F, NEW f,
         \A t \in T : F[t] \in Int /\ f[t] \in S
  PROVE  Sum([s \in S |-> Sum(F, {t \in T : f[t] = s})], S) = Sum(F, T)
<1> DEFINE Within(u, s) == {t \in u : f[t] = s}
           G(u) == [s \in S |-> Sum(F, Within(u, s))]
           P == {u \in SUBSET T : Sum(G(u), S) = Sum(F, u)}
<1>1. {} \in P
  <2>1. \A s \in S : Within({}, s) = {}
    OBVIOUS
  <2>2. \A s \in S : G({})[s] = 0
    BY <2>1, SumEmpty
  <2> HIDE DEF G
  <2>3. Sum(G({}), S) = 0
    BY <2>2, SumZero
  <2> QED
    BY <2>3, SumEmpty
<1>2. ASSUME NEW u \in P, NEW x \in T \ u PROVE u \cup {x} \in P
  <2> DEFINE v == u \cup {x}
             At0 == [s \in S |-> IF s = f[x] THEN F[x] ELSE 0]
  <2>1. u \in SUBSET T /\ v \in SUBSET T /\ Sum(G(u), S) = Sum(F, u)
    OBVIOUS
  <2>2. IsFiniteSet(u) /\ F[x] \in Int /\ f[x] \in S /\ \A t \in u : F[t] \in Int
    BY FS_Subset
  <2>3. Sum(F, v) = F[x] + Sum(F, u)
    BY <2>2, SumInsert
  <2>4. ASSUME NEW s \in S
        PROVE  /\ G(u)[s] \in Int /\ At0[s] \in Int
               /\ G(v)[s] = G(u)[s] + At0[s]
    <3> DEFINE w == Within(u, s)
    <3>1. IsFiniteSet(w) /\ x \notin w /\ \A t \in w : F[t] \in Int
      BY <2>2, FS_Subset
    <3>2. Sum(F, w) \in Int
      <4> HIDE DEF w
      <4> QED
        BY <3>1, SumType
    <3>3. G(u)[s] = Sum(F, w) /\ G(v)[s] = Sum(F, Within(v, s))
      OBVIOUS
    <3>4. CASE s = f[x]
      <4>1. Within(v, s) = w \cup {x}
        BY <3>4
      <4>2. Sum(F, w \cup {x}) = F[x] + Sum(F, w)
        <5> HIDE DEF w
        <5> QED
          BY <2>2, <3>1, SumInsert
      <4>3. At0[s] = F[x]
        BY <3>4
      <4>4. G(v)[s] = F[x] + Sum(F, w)
        <5> HIDE DEF w, Within, G
        <5> QED
          BY <3>3, <4>1, <4>2
      <4>5. F[x] \in Int
        BY <2>2
      <4> HIDE DEF w, Within, G, At0, v
      <4> QED
        BY <3>2, <3>3, <4>3, <4>4, <4>5
    <3>5. CASE s # f[x]
      <4>1. Within(v, s) = w
        BY <3>5
      <4>2. At0[s] = 0
        BY <3>5
      <4> HIDE DEF w, Within, G, At0
      <4> QED
        BY <3>2, <3>3, <4>1, <4>2
    <3> QED
      BY <3>4, <3>5
  <2>5. Sum(At0, S) = F[x]
    <3> DEFINE y == f[x]
               n == F[x]
    <3>1. \A s \in S : At0[s] = IF s = y THEN n ELSE 0
      OBVIOUS
    <3>2. y \in S /\ n \in Int
      BY <2>2
    <3> HIDE DEF At0, y, n
    <3>3. Sum(At0, S) = IF y \in S THEN n ELSE 0
      BY <3>1, <3>2, SumPoint
    <3>4. Sum(At0, S) = n
      BY <3>2, <3>3
    <3> QED
      BY <3>4 DEF n
  <2>6. Sum(G(v), S) = Sum(G(u), S) + Sum(At0, S)
    <3> HIDE DEF G, At0, v
    <3> QED
      BY <2>4, SumPlus
  <2>7. Sum(F, u) \in Int
    BY <2>2, SumType
  <2>8. Sum(G(v), S) = Sum(F, v)
    <3> HIDE DEF G, At0, v
    <3> QED
      BY <2>1, <2>2, <2>3, <2>5, <2>6, <2>7
  <2> QED
    BY <2>1, <2>8
<1>3. P = SUBSET T
  <2> HIDE DEF P
  <2>1. P \in SUBSET (SUBSET T)
    BY DEF P
  <2> QED
    BY <1>1, <1>2, <2>1, InsertInduct
<1>4. T \in P
  BY <1>3
<1> QED
  BY <1>4
-----------------------------------------------------------------------------
(* Multiplying by what is not negative keeps an order. *)
LEMMA ProductOrder ==
  ASSUME NEW a \in Int, NEW b \in Int, NEW d \in Nat, a <= b
  PROVE  d * a <= d * b
<1>1. PICK k \in Nat : b = a + k
  <2>1. b - a \in Nat /\ b = a + (b - a)
    OBVIOUS
  <2> QED
    BY <2>1
<1>2. d * b = d * a + d * k /\ d * k >= 0
  BY <1>1
<1> QED
  BY <1>2

(* A quotient with a remainder, and how it is rounded. *)
LEMMA HalfEvenRounds ==
  ASSUME NEW n \in Int, NEW d \in Nat \ {0}
  PROVE  \E q \in Int : \E r \in 0 .. d - 1 :
           /\ n = d * q + r
           /\ r = 0 => HalfEven(n, d) = q
           /\ HalfEven(n, d) \in {q, q + 1}
<1> DEFINE q == n \div d
           r == n % d
<1>1. q \in Int /\ r \in 0 .. d - 1 /\ n = d * q + r
  OBVIOUS
<1>2. HalfEven(n, d) = IF 2 * r > d \/ (2 * r = d /\ q % 2 = 1) THEN q + 1 ELSE q
  BY DEF HalfEven
<1> HIDE DEF q, r
<1>3. HalfEven(n, d) \in {q, q + 1} /\ (r = 0 => HalfEven(n, d) = q)
  BY <1>1, <1>2
<1> QED
  BY <1>1, <1>3

LEMMA HalfEvenType ==
  ASSUME NEW n \in Int, NEW d \in Nat \ {0}
  PROVE  HalfEven(n, d) \in Int
BY HalfEvenRounds

(* Rounding stays within any whole number that bounds the quotient. *)
LEMMA HalfEvenBelow ==
  ASSUME NEW n \in Int, NEW d \in Nat \ {0}, NEW x \in Int, n <= d * x
  PROVE  HalfEven(n, d) <= x
<1>1. PICK q \in Int, r \in 0 .. d - 1 :
        /\ n = d * q + r
        /\ r = 0 => HalfEven(n, d) = q
        /\ HalfEven(n, d) \in {q, q + 1}
  BY HalfEvenRounds
<1>2. CASE q >= x + 1
  <2>1. d * (x + 1) <= d * q /\ d * (x + 1) = d * x + d
    BY <1>2, ProductOrder
  <2> QED
    BY <1>1, <2>1
<1>3. CASE q = x
  BY <1>1, <1>3
<1>4. CASE q <= x - 1
  BY <1>1, <1>4
<1> QED
  BY <1>2, <1>3, <1>4

LEMMA HalfEvenAbove ==
  ASSUME NEW n \in Int, n >= 0, NEW d \in Nat \ {0}
  PROVE  HalfEven(n, d) \in Nat
<1>1. PICK q \in Int, r \in 0 .. d - 1 :
        /\ n = d * q + r
        /\ r = 0 => HalfEven(n, d) = q
        /\ HalfEven(n, d) \in {q, q + 1}
  BY HalfEvenRounds
<1>2. CASE q <= -1
  <2>1. d * (q + 1) <= d * 0 /\ d * (q + 1) = d * q + d /\ d * 0 = 0
    BY <1>2, ProductOrder
  <2> QED
    BY <1>1, <2>1
<1> QED
  BY <1>1, <1>2

(* Products and quotients are whole numbers. *)
LEMMA TimesType ==
  ASSUME NEW x \in Int, NEW y \in Int
  PROVE  Times(x, y) \in Int
<1>1. Scale \in Nat \ {0} /\ x * y \in Int
  BY ScaleAssumption
<1> QED
  BY <1>1, HalfEvenType DEF Times

LEMMA TimesNat ==
  ASSUME NEW x \in Nat, NEW y \in Nat
  PROVE  Times(x, y) \in Nat
<1>1. Scale \in Nat \ {0} /\ x * y \in Int /\ x * y >= 0
  BY ScaleAssumption
<1> QED
  BY <1>1, HalfEvenAbove DEF Times

LEMMA OverType ==
  ASSUME NEW x \in Int, NEW y \in Nat \ {0}
  PROVE  Over(x, y) \in Int
<1>1. x * Scale \in Int
  BY ScaleAssumption
<1> QED
  BY <1>1, HalfEvenType DEF Over

(* Where the divisor divides the scale, as many batches as the quotient     *)
(* says need no more than there is.                                         *)
LEMMA QuotientFits ==
  ASSUME NEW d \in Nat \ {0}, Scale % d = 0, NEW x \in Int, NEW n \in Int,
         n <= Over(x, d)
  PROVE  Times(d, n) <= x
<1> DEFINE k == Scale \div d
<1>1. Scale \in Nat \ {0}
  BY ScaleAssumption
<1>2. k \in Int /\ Scale = d * k
  BY <1>1
<1> HIDE DEF k
<1>3. x * k \in Int /\ x * Scale = d * (x * k)
  BY <1>2
<1>4. Over(x, d) <= x * k
  <2>1. x * Scale \in Int /\ x * Scale <= d * (x * k)
    BY <1>1, <1>3
  <2>2. HalfEven(x * Scale, d) <= x * k
    BY <1>3, <2>1, HalfEvenBelow
  <2> QED
    BY <2>2 DEF Over
<1>5. Over(x, d) \in Int
  BY <1>1, HalfEvenType DEF Over
<1>6. n <= x * k
  BY <1>3, <1>4, <1>5
<1>7. d * n <= d * (x * k) /\ d * (x * k) = Scale * x /\ d * n \in Int
  <2>1. d * n <= d * (x * k)
    BY <1>3, <1>6, ProductOrder
  <2>2. d * (x * k) = Scale * x
    BY <1>1, <1>3
  <2> QED
    BY <2>1, <2>2
<1> QED
  BY <1>1, <1>7, HalfEvenBelow DEF Times
-----------------------------------------------------------------------------
(* The least of finitely many numbers is one of them. *)
LEMMA MinOf ==
  ASSUME NEW S \in SUBSET Int, IsFiniteSet(S), S # {}
  PROVE  Min(S) \in S /\ \A x \in S : Min(S) <= x
<1> DEFINE Has(s) == s # {} => \E x \in s : \A y \in s : x <= y
           P == {s \in SUBSET S : Has(s)}
<1>1. {} \in P
  OBVIOUS
<1>2. ASSUME NEW s \in P, NEW z \in S \ s PROVE s \cup {z} \in P
  <2>1. CASE s = {}
    BY <2>1
  <2>2. CASE s # {}
    <3>1. PICK x \in s : \A y \in s : x <= y
      BY <2>2
    <3>2. CASE x <= z
      BY <3>1, <3>2
    <3>3. CASE z <= x
      BY <3>1, <3>3
    <3> QED
      BY <3>2, <3>3
  <2> QED
    BY <2>1, <2>2
<1>3. P = SUBSET S
  <2>1. P \in SUBSET (SUBSET S)
    OBVIOUS
  <2> HIDE DEF P
  <2> QED
    BY <1>1, <1>2, <2>1, InsertInduct
<1>4. Has(S)
  BY <1>3
<1> QED
  BY <1>4 DEF Min

(* The values of a function on a finite set are finitely many. *)
LEMMA FiniteImage ==
  ASSUME NEW S, IsFiniteSet(S), NEW f
  PROVE  IsFiniteSet({f[x] : x \in S})
<1> DEFINE Image(s) == {f[x] : x \in s}
           P == {s \in SUBSET S : IsFiniteSet(Image(s))}
<1>1. {} \in P
  <2>1. Image({}) = {}
    OBVIOUS
  <2> QED
    BY <2>1, FS_EmptySet
<1>2. ASSUME NEW s \in P, NEW z \in S \ s PROVE s \cup {z} \in P
  <2>1. Image(s \cup {z}) = Image(s) \cup {f[z]}
    OBVIOUS
  <2>2. IsFiniteSet(Image(s) \cup {f[z]})
    BY FS_AddElement
  <2> QED
    BY <2>1, <2>2
<1>3. P = SUBSET S
  <2>1. P \in SUBSET (SUBSET S)
    OBVIOUS
  <2> HIDE DEF P
  <2> QED
    BY <1>1, <1>2, <2>1, InsertInduct
<1>4. S \in P
  BY <1>3
<1> QED
  BY <1>4

(* The larger of two numbers. *)
LEMMA LargerType ==
  ASSUME NEW x \in Int, NEW y \in Int
  PROVE  Larger(x, y) \in Int /\ Larger(x, y) >= x /\ Larger(x, y) >= y
         /\ Larger(x, y) \in {x, y}
BY DEF Larger

(* The least of two or three numbers. *)
LEMMA MinOfFew ==
  ASSUME NEW a \in Int, NEW b \in Int, NEW c \in Int
  PROVE  /\ Min({a, b}) \in {a, b} /\ Min({a, b}) <= a /\ Min({a, b}) <= b
         /\ Min({a, b, c}) \in {a, b, c}
         /\ Min({a, b, c}) <= a /\ Min({a, b, c}) <= b /\ Min({a, b, c}) <= c
<1>1. \A x : IsFiniteSet({x})
  BY FS_Singleton
<1>2. \A x, y : IsFiniteSet({x} \cup {y})
  BY <1>1, FS_Union
<1>3. \A x, y, z : IsFiniteSet({x} \cup {y} \cup {z})
  BY <1>1, <1>2, FS_Union
<1>4. {a, b} = {a} \cup {b} /\ {a, b, c} = {a} \cup {b} \cup {c}
  OBVIOUS
<1>5. IsFiniteSet({a, b}) /\ IsFiniteSet({a, b, c})
  <2>1. IsFiniteSet({a} \cup {b}) /\ IsFiniteSet({a} \cup {b} \cup {c})
    BY <1>2, <1>3
  <2> QED
    BY <1>4, <2>1, Zenon
<1>6. {a, b} \in SUBSET Int /\ {a, b, c} \in SUBSET Int /\ {a, b} # {} /\ {a, b, c} # {}
  OBVIOUS
<1>7. Min({a, b}) \in {a, b} /\ \A x \in {a, b} : Min({a, b}) <= x
  BY <1>5, <1>6, MinOf
<1>8. Min({a, b, c}) \in {a, b, c} /\ \A x \in {a, b, c} : Min({a, b, c}) <= x
  BY <1>5, <1>6, MinOf
<1> QED
  BY <1>7, <1>8

(* A new element adds its own to a sum of what was there. *)
LEMMA SumGrown ==
  ASSUME NEW S, IsFiniteSet(S), NEW x, x \notin S, NEW F, NEW G, G[x] \in Int,
         \A y \in S : F[y] \in Int /\ G[y] = F[y]
  PROVE  Sum(G, S \cup {x}) = Sum(F, S) + G[x] /\ Sum(F, S) \in Int
<1>1. \A y \in S : G[y] \in Int
  OBVIOUS
<1>2. Sum(G, S \cup {x}) = G[x] + Sum(G, S)
  BY <1>1, SumInsert
<1>3. Sum(G, S) = Sum(F, S) /\ Sum(F, S) \in Int
  BY SumEqual, SumType
<1> QED
  BY <1>2, <1>3

(* What changes at one place changes the sum by as much. *)
LEMMA SumChange ==
  ASSUME NEW S, IsFiniteSet(S), NEW a \in S, NEW F, NEW G,
         \A x \in S : F[x] \in Int /\ G[x] \in Int,
         \A x \in S : x # a => G[x] = F[x]
  PROVE  /\ Sum(G, S) = Sum(F, S) - F[a] + G[a]
         /\ Sum(F, S) \in Int /\ Sum(G, S) \in Int
<1> DEFINE R == S \ {a}
<1>1. IsFiniteSet(R) /\ \A x \in R : F[x] = G[x] /\ F[x] \in Int
  BY FS_Subset
<1>2. Sum(F, S) = F[a] + Sum(F, R) /\ Sum(G, S) = G[a] + Sum(G, R)
  BY SumRemove
<1> HIDE DEF R
<1>3. Sum(F, R) = Sum(G, R) /\ Sum(F, R) \in Int
  BY <1>1, SumEqual, SumType
<1>4. Sum(F, S) \in Int /\ Sum(G, S) \in Int
  BY SumType
<1> QED
  BY <1>2, <1>3, <1>4

(* Renaming what is added up does not change the sum. *)
LEMMA SumImage ==
  ASSUME NEW T, IsFiniteSet(T), NEW I, NEW f \in [T -> I], NEW F, NEW G,
         \A y \in I : \E x \in T : y = f[x],
         \A x, y \in T : f[x] = f[y] => x = y,
         \A x \in T : G[x] \in Int /\ F[f[x]] = G[x]
  PROVE  Sum(F, I) = Sum(G, T) /\ IsFiniteSet(I)
<1> DEFINE Image(s) == {f[x] : x \in s}
           P == {s \in SUBSET T : Sum(F, Image(s)) = Sum(G, s)}
<1>1. {} \in P
  <2>1. Image({}) = {}
    OBVIOUS
  <2> QED
    BY <2>1, SumEmpty
<1>2. ASSUME NEW s \in P, NEW z \in T \ s PROVE s \cup {z} \in P
  <2>1. Image(s \cup {z}) = Image(s) \cup {f[z]} /\ f[z] \notin Image(s)
    OBVIOUS
  <2>2. IsFiniteSet(s) /\ IsFiniteSet(Image(s))
    <3>1. IsFiniteSet(s)
      BY FS_Subset
    <3> QED
      BY <3>1, FiniteImage
  <2>3. /\ F[f[z]] \in Int /\ (\A y \in Image(s) : F[y] \in Int)
        /\ G[z] \in Int /\ (\A y \in s : G[y] \in Int)
    OBVIOUS
  <2>4. Sum(G, s \cup {z}) = G[z] + Sum(G, s)
    BY <2>2, <2>3, SumInsert
  <2>5. Sum(F, Image(s) \cup {f[z]}) = F[f[z]] + Sum(F, Image(s))
    <3> HIDE DEF Image
    <3> QED
      BY <2>1, <2>2, <2>3, SumInsert
  <2>6. Sum(F, Image(s)) = Sum(G, s) /\ F[f[z]] = G[z]
    OBVIOUS
  <2> HIDE DEF Image
  <2>7. Sum(F, Image(s \cup {z})) = Sum(G, s \cup {z})
    BY <2>1, <2>4, <2>5, <2>6
  <2> QED
    BY <2>7
<1>3. P = SUBSET T
  <2>1. P \in SUBSET (SUBSET T)
    OBVIOUS
  <2> HIDE DEF P
  <2> QED
    BY <1>1, <1>2, <2>1, InsertInduct
<1>4. T \in P
  BY <1>3
<1>5. I = Image(T)
  OBVIOUS
<1>6. IsFiniteSet(Image(T))
  BY FiniteImage
<1> QED
  BY <1>4, <1>5, <1>6

(* The greatest of finitely many numbers is one of them. *)
LEMMA MaxOf ==
  ASSUME NEW S \in SUBSET Int, IsFiniteSet(S), S # {}
  PROVE  Max(S) \in S /\ \A x \in S : Max(S) >= x
<1> DEFINE Has(s) == s # {} => \E x \in s : \A y \in s : x >= y
           P == {s \in SUBSET S : Has(s)}
<1>1. {} \in P
  OBVIOUS
<1>2. ASSUME NEW s \in P, NEW z \in S \ s PROVE s \cup {z} \in P
  <2>1. CASE s = {}
    BY <2>1
  <2>2. CASE s # {}
    <3>1. PICK x \in s : \A y \in s : x >= y
      BY <2>2
    <3>2. CASE x <= z
      BY <3>1, <3>2
    <3>3. CASE z <= x
      BY <3>1, <3>3
    <3> QED
      BY <3>2, <3>3
  <2> QED
    BY <2>1, <2>2
<1>3. P = SUBSET S
  <2>1. P \in SUBSET (SUBSET S)
    OBVIOUS
  <2> HIDE DEF P
  <2> QED
    BY <1>1, <1>2, <2>1, InsertInduct
<1>4. Has(S)
  BY <1>3
<1> QED
  BY <1>4 DEF Max

(* The greater the terms, the greater the sum.                              *)
LEMMA SumOrder ==
  ASSUME NEW S, IsFiniteSet(S), NEW F, NEW G,
         \A x \in S : F[x] \in Int /\ G[x] \in Int /\ F[x] <= G[x]
  PROVE  Sum(F, S) <= Sum(G, S) /\ Sum(F, S) \in Int /\ Sum(G, S) \in Int
<1> DEFINE D == [x \in S |-> G[x] - F[x]]
<1>1. /\ \A x \in S : D[x] \in Nat
      /\ \A x \in S : F[x] \in Int /\ D[x] \in Int /\ G[x] = F[x] + D[x]
  OBVIOUS
<1> HIDE DEF D
<1>2. Sum(G, S) = Sum(F, S) + Sum(D, S)
  BY <1>1, SumPlus
<1>3. Sum(D, S) \in Nat
  BY <1>1, SumNat
<1>4. Sum(F, S) \in Int
  BY <1>1, SumType
<1> QED
  BY <1>2, <1>3, <1>4
-----------------------------------------------------------------------------
\* What x gets of h where those before it in S come first.
InTurn(Q, S, h, x) == Larger(0, Lesser(Q[x], h - Sum(Q, {y \in S : y < x})))

(* Whoever is served in turn: together they get what there is, or all they  *)
(* ask for.                                                                 *)
LEMMA ServedInTurn ==
  ASSUME NEW n \in Nat, NEW S \in SUBSET (1 .. n), NEW h \in Nat, NEW Q, NEW G,
         \A x \in S : Q[x] \in Nat /\ G[x] = InTurn(Q, S, h, x)
  PROVE  /\ Sum(G, S) = Lesser(h, Sum(Q, S)) /\ Sum(Q, S) \in Nat
         /\ \A x \in S : G[x] \in Nat /\ G[x] <= Q[x]
<1> DEFINE Below(m) == {y \in S : y < m}
           N == {m \in Nat : Sum(G, Below(m)) = Lesser(h, Sum(Q, Below(m)))}
<1>0. \A x \in S : x \in Int /\ x \in Nat /\ x < n + 1
  <2>1. S \subseteq 1 .. n
    OBVIOUS
  <2> QED
    BY <2>1
<1>1. IsFiniteSet(S) /\ \A m \in Nat : IsFiniteSet(Below(m))
  <2>1. 1 \in Int /\ n \in Int
    OBVIOUS
  <2>2. IsFiniteSet(1 .. n)
    BY <2>1, FS_Interval
  <2>3. IsFiniteSet(S)
    BY <2>2, FS_Subset
  <2> QED
    BY <2>3, FS_Subset
<1>2. \A m \in Nat : Sum(Q, Below(m)) \in Nat
  <2> SUFFICES ASSUME NEW m \in Nat PROVE Sum(Q, Below(m)) \in Nat
    OBVIOUS
  <2>1. \A x \in Below(m) : Q[x] \in Nat
    OBVIOUS
  <2> HIDE DEF Below
  <2> QED
    BY <1>1, <2>1, SumNat
<1>3. \A x \in S : G[x] = Larger(0, Lesser(Q[x], h - Sum(Q, Below(x))))
  BY DEF InTurn
<1>4. \A x \in S : G[x] \in Nat /\ G[x] <= Q[x] /\ x \in Nat
  <2> SUFFICES ASSUME NEW x \in S PROVE G[x] \in Nat /\ G[x] <= Q[x]
    BY <1>0
  <2>1. Sum(Q, Below(x)) \in Nat /\ Q[x] \in Nat
    BY <1>0, <1>2
  <2> HIDE DEF Below
  <2> QED
    BY <1>3, <2>1 DEF Larger, Lesser
<1>5. 0 \in N
  <2>1. Below(0) = {}
    <3>1. S \subseteq 1 .. n /\ \A x \in 1 .. n : ~ (x < 0)
      OBVIOUS
    <3> QED
      BY <3>1
  <2> HIDE DEF Below
  <2>2. Sum(G, Below(0)) = 0 /\ Sum(Q, Below(0)) = 0
    BY <2>1, SumEmpty
  <2> QED
    BY <2>2 DEF Lesser
<1>6. ASSUME NEW m \in N PROVE m + 1 \in N
  <2> DEFINE A == Sum(Q, Below(m))
             B == Sum(G, Below(m))
  <2>0. m \in Nat /\ B = Lesser(h, A) /\ A \in Nat
    BY <1>2
  <2>1. CASE m \notin S
    <3>1. \A x \in S : x < m + 1 <=> x < m
      BY <1>0, <2>1, <2>0
    <3>2. Below(m + 1) = Below(m)
      BY <3>1
    <3> HIDE DEF Below
    <3> QED
      BY <2>0, <3>2
  <2>2. CASE m \in S
    <3>0. \A x \in S : x < m + 1 <=> x < m \/ x = m
      BY <1>0, <2>0
    <3>1. Below(m + 1) = Below(m) \cup {m} /\ m \notin Below(m)
      <4>1. ~ (m < m)
        BY <2>0
      <4> QED
        BY <2>2, <3>0, <4>1, Zenon
    <3>2. (\A x \in Below(m) : Q[x] \in Int /\ G[x] \in Int) /\ Q[m] \in Int /\ G[m] \in Int
      BY <1>4, <2>2
    <3>3. G[m] = Larger(0, Lesser(Q[m], h - A)) /\ Q[m] \in Nat
      BY <1>3, <2>2
    <3> HIDE DEF Below
    <3>4. Sum(Q, Below(m) \cup {m}) = Q[m] + A
      BY <1>1, <2>0, <3>1, <3>2, SumInsert
    <3>5. Sum(G, Below(m) \cup {m}) = G[m] + B
      BY <1>1, <2>0, <3>1, <3>2, SumInsert
    <3>6. G[m] + B = Lesser(h, Q[m] + A)
      <4> HIDE DEF A, B
      <4> QED
        BY <2>0, <3>3 DEF Larger, Lesser
    <3> QED
      BY <2>0, <3>1, <3>4, <3>5, <3>6
  <2> QED
    BY <2>1, <2>2
<1>7. N = Nat
  <2> HIDE DEF N
  <2>1. N \in SUBSET Nat
    BY DEF N
  <2> QED
    BY <1>5, <1>6, <2>1, Induct
<1>8. Below(n + 1) = S
  BY <1>0
<1>9. n + 1 \in N
  BY <1>7
<1>10. Sum(G, S) = Lesser(h, Sum(Q, S)) /\ Sum(Q, S) \in Nat
  BY <1>2, <1>8, <1>9
<1> QED
  BY <1>4, <1>10

(* Where there is enough for all, each gets what it asks for.               *)
LEMMA AllServed ==
  ASSUME NEW S, IsFiniteSet(S), NEW h \in Int, NEW Q, NEW x \in S,
         \A y \in S : y \in Int /\ Q[y] \in Nat, Sum(Q, S) <= h
  PROVE  InTurn(Q, S, h, x) = Q[x]
<1> DEFINE Below == {y \in S : y < x}
           R == S \ (Below \cup {x})
           L == Below \cup {x}
<1>1. /\ IsFiniteSet(Below) /\ IsFiniteSet(L) /\ IsFiniteSet(R)
      /\ L \cap R = {} /\ S = L \cup R /\ x \notin Below
  <2>1. IsFiniteSet(Below) /\ IsFiniteSet(L) /\ IsFiniteSet(R)
    BY FS_Subset
  <2> QED
    BY <2>1
<1>2. /\ \A y \in Below : Q[y] \in Nat /\ Q[y] \in Int
      /\ \A y \in R : Q[y] \in Nat
      /\ \A y \in L \cup R : Q[y] \in Int
      /\ Q[x] \in Int /\ Q[x] \in Nat
  OBVIOUS
<1>3. InTurn(Q, S, h, x) = Larger(0, Lesser(Q[x], h - Sum(Q, Below)))
  BY DEF InTurn
<1>4. L = Below \cup {x}
  OBVIOUS
<1> HIDE DEF L, R, Below
<1>5. Sum(Q, Below) \in Nat /\ Sum(Q, R) \in Nat
  BY <1>1, <1>2, SumNat
<1>6. Sum(Q, Below \cup {x}) = Q[x] + Sum(Q, Below)
  BY <1>1, <1>2, SumInsert
<1>7. Sum(Q, L \cup R) = Sum(Q, L) + Sum(Q, R)
  BY <1>1, <1>2, SumUnion
<1>8. Q[x] <= h - Sum(Q, Below)
  BY <1>1, <1>2, <1>4, <1>5, <1>6, <1>7
<1> QED
  BY <1>2, <1>3, <1>5, <1>8 DEF Larger, Lesser

(* The same, whatever function gives the parts.                             *)
LEMMA SumParts ==
  ASSUME NEW S, IsFiniteSet(S), NEW T, IsFiniteSet(T), NEW F, NEW G,
         NEW f \in [T -> S], NEW P \in [S -> SUBSET T],
         \A t \in T : F[t] \in Int,
         \A s \in S : \A t \in T : t \in P[s] <=> f[t] = s,
         \A s \in S : G[s] = Sum(F, P[s])
  PROVE  Sum(G, S) = Sum(F, T)
<1> DEFINE H == [s \in S |-> Sum(F, {t \in T : f[t] = s})]
<1>1. Sum(H, S) = Sum(F, T)
  BY SumFibers
<1>2. \A s \in S : G[s] = H[s]
  <2> SUFFICES ASSUME NEW s \in S PROVE G[s] = H[s]
    OBVIOUS
  <2>1. P[s] = {t \in T : f[t] = s}
    OBVIOUS
  <2> QED
    BY <2>1
<1> HIDE DEF H
<1> QED
  BY <1>1, <1>2, SumEqual

(* Two lists one after the other: the second one's places are moved on.     *)
MovedOn(n, S, T, U) ==
  /\ n \in Nat /\ S \subseteq 1 .. n /\ T \subseteq Nat \ {0}
  /\ \A x : x \in U <=> x \in S \/ (\E j \in T : x = n + j)
Continues(H, n, T, G) == \A j \in T : G[j] \in Int /\ H[n + j] = G[j]

LEMMA SumMoved ==
  ASSUME NEW n, NEW T, IsFiniteSet(T), NEW I, NEW G, NEW H,
         MovedOn(n, {}, T, I), Continues(H, n, T, G)
  PROVE  Sum(H, I) = Sum(G, T) /\ IsFiniteSet(I)
<1>1. \E f \in [T -> I] : /\ \A y \in I : \E x \in T : y = f[x]
                          /\ \A x, y \in T : f[x] = f[y] => x = y
                          /\ \A x \in T : G[x] \in Int /\ H[f[x]] = G[x]
  <2> DEFINE f == [j \in T |-> n + j]
  <2>1. f \in [T -> I] /\ \A y \in I : \E x \in T : y = f[x]
    BY DEF MovedOn
  <2>2. \A x, y \in T : f[x] = f[y] => x = y
    BY DEF MovedOn
  <2>3. \A x \in T : G[x] \in Int /\ H[f[x]] = G[x]
    BY DEF Continues
  <2> HIDE DEF f
  <2> QED
    BY <2>1, <2>2, <2>3
<1>2. PICK f \in [T -> I] :
        /\ \A y \in I : \E x \in T : y = f[x]
        /\ \A x, y \in T : f[x] = f[y] => x = y
        /\ \A x \in T : G[x] \in Int /\ H[f[x]] = G[x]
  BY <1>1
<1>3. \A y \in I : \E x \in T : y = f[x]
  BY <1>2
<1>4. \A x, y \in T : f[x] = f[y] => x = y
  BY <1>2
<1>5. \A x \in T : G[x] \in Int /\ H[f[x]] = G[x]
  BY <1>2
<1> QED
  BY <1>3, <1>4, <1>5, SumImage

LEMMA SumJoined ==
  ASSUME NEW n, NEW S, IsFiniteSet(S), NEW T, IsFiniteSet(T),
         NEW U, NEW F, NEW G, NEW H, MovedOn(n, S, T, U), Continues(H, n, T, G),
         \A x \in S : F[x] \in Int /\ H[x] = F[x]
  PROVE  Sum(H, U) = Sum(F, S) + Sum(G, T)
<1> DEFINE I == {n + j : j \in T}
<1>1. U = S \cup I /\ S \cap I = {} /\ MovedOn(n, {}, T, I)
  BY DEF MovedOn
<1>2. \A x \in S \cup I : H[x] \in Int
  BY DEF Continues
<1> HIDE DEF I
<1>3. Sum(H, I) = Sum(G, T) /\ IsFiniteSet(I)
  BY <1>1, SumMoved
<1>4. Sum(H, S) = Sum(F, S)
  BY SumEqual
<1>5. Sum(H, S \cup I) = Sum(H, S) + Sum(H, I)
  BY <1>1, <1>2, <1>3, SumUnion
<1> QED
  BY <1>1, <1>3, <1>4, <1>5
=============================================================================
