------------------------------ MODULE FoldFacts ------------------------------
(***************************************************************************)
(* What the folds of the community modules compute, for a step Op that     *)
(* takes an environment e, the value so far and the next element.  A       *)
(* module that uses FoldLeft or FoldSet gives Op its step: then Folded and *)
(* FoldedSet are what those two stand for, written out.                    *)
(*                                                                         *)
(* The induction over the length, or over the subsets, is the argument of  *)
(* a least counterexample.                                                 *)
(***************************************************************************)
EXTENDS Integers, FiniteSets, FiniteSetsExt, FiniteSetTheorems,
        WellFoundedInduction, TLAPS

CONSTANT Op(_, _, _)

\* FoldLeft(LAMBDA x, y : Op(e, x, y), base, seq)
Folded(e, base, seq) ==
  (CHOOSE iter : iter =
     [S \in SUBSET (DOMAIN seq) |->
        IF S = {} THEN base ELSE Op(e, iter[S \ {Max(S)}], seq[Max(S)])])[DOMAIN seq]

\* FoldSet(LAMBDA x, y : Op(e, y, x), base, T)
FoldedSet(e, base, T) ==
  (CHOOSE iter : iter =
     [S \in SUBSET T |->
        IF S = {} THEN base
        ELSE Op(e, iter[S \ {CHOOSE x \in S : TRUE}], CHOOSE x \in S : TRUE)])[T]

-----------------------------------------------------------------------------
(* A set of naturals that is not empty has a least element.                *)
LEMMA LeastNat ==
  ASSUME NEW A \in SUBSET Nat, A # {}
  PROVE  \E x \in A : \A y \in A : x <= y
  <1>1. PICK x \in A : \A y \in A : ~(<<y, x>> \in OpToRel(<, Nat))
    BY NatLessThanWellFounded, WFMin, Zenon
  <1>2. \A y \in A : ~(y < x)
    BY <1>1 DEF OpToRel
  <1>3. QED
    BY <1>2

(* Induction up to n, over a set.                                          *)
LEMMA CountingUp ==
  ASSUME NEW n \in Nat, NEW A, 0 \in A, \A k \in 0 .. n - 1 : k \in A => k + 1 \in A
  PROVE  \A k \in 0 .. n : k \in A
  <1> DEFINE B == {k \in 0 .. n : k \notin A}
  <1>1. SUFFICES ASSUME B # {} PROVE FALSE
    OBVIOUS
  <1>2. B \in SUBSET Nat
    OBVIOUS
  <1>3. PICK b \in B : \A y \in B : b <= y
    <2> HIDE DEF B
    <2> QED BY <1>1, <1>2, LeastNat
  <1>4. b \in 1 .. n /\ b \notin A
    OBVIOUS
  <1>5. b - 1 \in 0 .. n - 1 /\ b - 1 \in 0 .. n /\ ~(b <= b - 1)
    BY <1>4
  <1>6. b - 1 \in A
    BY <1>3, <1>5
  <1>7. (b - 1) + 1 \in A
    BY <1>5, <1>6
  <1>8. (b - 1) + 1 = b
    BY <1>4
  <1>9. QED
    BY <1>4, <1>7, <1>8

(* The greatest element of a set that has one.                             *)
LEMMA MaxIs ==
  ASSUME NEW S \in SUBSET Int, NEW m \in S, \A y \in S : m >= y
  PROVE  Max(S) = m
  <1>1. Max(S) \in S /\ \A y \in S : Max(S) >= y
    BY DEF Max
  <1>2. PICK x : x = Max(S)
    OBVIOUS
  <1>3. x \in S /\ x >= m /\ m >= x
    BY <1>1, <1>2
  <1>4. x \in Int /\ m \in Int
    BY <1>3
  <1>5. x = m
    BY <1>3, <1>4
  <1>6. QED
    BY <1>2, <1>5

-----------------------------------------------------------------------------
(* The equation that Folded chooses a solution of has one.                 *)
Solves(e, base, seq, it, m) ==
  it = [S \in SUBSET (1 .. m) |->
          IF S = {} THEN base ELSE Op(e, it[S \ {Max(S)}], seq[Max(S)])]

LEMMA FoldExists ==
  ASSUME NEW e, NEW base, NEW seq, NEW n \in Nat
  PROVE  \E it : Solves(e, base, seq, it, n)
  <1> DEFINE A == {m \in 0 .. n : \E it : Solves(e, base, seq, it, m)}
  <1>1. 0 \in A
    <2>1. Solves(e, base, seq, [S \in SUBSET (1 .. 0) |-> base], 0)
      BY 1 .. 0 = {} DEF Solves
    <2>2. QED
      BY <2>1
  <1>2. ASSUME NEW m \in 0 .. n - 1, m \in A PROVE m + 1 \in A
    <2>1. PICK it : Solves(e, base, seq, it, m)
      BY <1>2
    <2> DEFINE up == [S \in SUBSET (1 .. m + 1) |->
                        IF m + 1 \in S THEN Op(e, it[S \ {m + 1}], seq[m + 1]) ELSE it[S]]
    <2>2. ASSUME NEW S \in SUBSET (1 .. m + 1)
          PROVE up[S] = IF S = {} THEN base ELSE Op(e, up[S \ {Max(S)}], seq[Max(S)])
      <3>1. CASE m + 1 \in S
        <4>1. Max(S) = m + 1
          BY <3>1, MaxIs
        <4>2. S \ {m + 1} \in SUBSET (1 .. m) /\ S \ {m + 1} \in SUBSET (1 .. m + 1)
          OBVIOUS
        <4>3. up[S \ {m + 1}] = it[S \ {m + 1}]
          BY <4>2
        <4>4. up[S] = Op(e, it[S \ {m + 1}], seq[m + 1])
          BY <3>1
        <4> HIDE DEF up
        <4>5. QED
          BY <3>1, <4>1, <4>3, <4>4
      <3>2. CASE m + 1 \notin S /\ S # {}
        <4>1. S \in SUBSET (1 .. m)
          BY <3>2
        <4>2. /\ S \ {Max(S)} \in SUBSET (1 .. m)
              /\ S \ {Max(S)} \in SUBSET (1 .. m + 1)
              /\ m + 1 \notin S \ {Max(S)}
          BY <3>2, <4>1
        <4>3. up[S] = it[S] /\ up[S \ {Max(S)}] = it[S \ {Max(S)}]
          BY <3>2, <4>2
        <4>4. it[S] = Op(e, it[S \ {Max(S)}], seq[Max(S)])
          BY <2>1, <3>2, <4>1, Zenon DEF Solves
        <4> HIDE DEF up
        <4>5. QED
          BY <3>2, <4>3, <4>4
      <3>3. CASE S = {}
        <4>1. {} \in SUBSET (1 .. m) /\ m + 1 \notin {}
          OBVIOUS
        <4>2. it[{}] = base
          BY <2>1, <4>1, Zenon DEF Solves
        <4>3. up[{}] = it[{}]
          BY <4>1
        <4> HIDE DEF up
        <4>4. QED
          BY <3>3, <4>2, <4>3
      <3>4. QED
        BY <3>1, <3>2, <3>3
    <2>3. up = [S \in SUBSET (1 .. m + 1) |->
                  IF S = {} THEN base ELSE Op(e, up[S \ {Max(S)}], seq[Max(S)])]
      <3> DEFINE rhs == [S \in SUBSET (1 .. m + 1) |->
                  IF S = {} THEN base ELSE Op(e, up[S \ {Max(S)}], seq[Max(S)])]
      <3>1. \A S \in SUBSET (1 .. m + 1) : up[S] = rhs[S]
        <4> HIDE DEF up
        <4> QED BY <2>2
      <3>2. up = [S \in SUBSET (1 .. m + 1) |-> up[S]]
        OBVIOUS
      <3>3. rhs = [S \in SUBSET (1 .. m + 1) |-> rhs[S]]
        OBVIOUS
      <3>4. QED
        <4> HIDE DEF up, rhs
        <4>1. [S \in SUBSET (1 .. m + 1) |-> up[S]] = [S \in SUBSET (1 .. m + 1) |-> rhs[S]]
          BY <3>1
        <4>2. up = rhs
          BY <3>2, <3>3, <4>1
        <4>3. QED
          BY <4>2, Zenon DEF rhs
    <2>4. Solves(e, base, seq, up, m + 1)
      BY <2>3, Zenon DEF Solves
    <2>5. m + 1 \in 0 .. n
      OBVIOUS
    <2> HIDE DEF up
    <2>6. QED
      BY <2>4, <2>5
  <1>3. n \in A
    <2> HIDE DEF A
    <2>1. n \in 0 .. n
      OBVIOUS
    <2>2. QED
      BY <1>1, <1>2, <2>1, CountingUp
  <1>4. QED
    BY <1>3

\* h holds the values of the fold over seq, from the base to the last.
Traces(e, base, seq, n, h) ==
  /\ h[0] = base
  /\ \A k \in 1 .. n : h[k] = Op(e, h[k - 1], seq[k])
  /\ Folded(e, base, seq) = h[n]

(* A fold over a sequence takes its steps one by one, in order.            *)
LEMMA FoldSteps ==
  ASSUME NEW e, NEW base, NEW seq, NEW n \in Nat, DOMAIN seq = 1 .. n
  PROVE  \E h : Traces(e, base, seq, n, h)
  <1> DEFINE it == CHOOSE iter : Solves(e, base, seq, iter, n)
             h == [k \in 0 .. n |-> it[1 .. k]]
  <1>1. Solves(e, base, seq, it, n)
    BY FoldExists
  <1>2. Folded(e, base, seq) = it[1 .. n]
    BY Zenon DEF Folded, Solves
  <1> HIDE DEF it
  <1>3. ASSUME NEW S \in SUBSET (1 .. n)
        PROVE it[S] = IF S = {} THEN base ELSE Op(e, it[S \ {Max(S)}], seq[Max(S)])
    BY <1>1, Zenon DEF Solves
  <1>4. h[0] = base
    <2>1. 1 .. 0 = {} /\ {} \in SUBSET (1 .. n) /\ 0 \in 0 .. n
      OBVIOUS
    <2>2. it[{}] = base
      BY <1>3, <2>1, Zenon
    <2>3. QED
      BY <2>1, <2>2
  <1>5. ASSUME NEW k \in 1 .. n PROVE h[k] = Op(e, h[k - 1], seq[k])
    <2>1. /\ 1 .. k \in SUBSET (1 .. n) /\ 1 .. k # {}
          /\ (1 .. k) \ {k} = 1 .. k - 1
          /\ k \in 0 .. n /\ k - 1 \in 0 .. n
      <3>1. k \in 0 .. n /\ k - 1 \in 0 .. n
        OBVIOUS
      <3>2. 1 .. k \in SUBSET (1 .. n) /\ 1 .. k # {}
        <4>1. \A x \in 1 .. k : x \in 1 .. n
          OBVIOUS
        <4>2. k \in 1 .. k
          OBVIOUS
        <4>3. QED
          BY <4>1, <4>2, Zenon
      <3>3. \A x : x \in (1 .. k) \ {k} <=> x \in 1 .. k - 1
        OBVIOUS
      <3>4. (1 .. k) \ {k} = 1 .. k - 1
        BY <3>3
      <3>5. QED
        BY <3>1, <3>2, <3>4
    <2>2. Max(1 .. k) = k
      <3>1. /\ 1 .. k \in SUBSET Int /\ k \in 1 .. k
            /\ \A y \in 1 .. k : k >= y
        OBVIOUS
      <3>2. QED
        BY <3>1, MaxIs
    <2>3. it[1 .. k] = Op(e, it[(1 .. k) \ {Max(1 .. k)}], seq[Max(1 .. k)])
      BY <1>3, <2>1, Zenon
    <2>4. h[k] = it[1 .. k] /\ h[k - 1] = it[1 .. k - 1]
      BY <2>1
    <2> HIDE DEF h
    <2>5. QED
      BY <2>1, <2>2, <2>3, <2>4
  <1>6. h[n] = it[1 .. n]
    OBVIOUS
  <1> HIDE DEF h
  <1>7. Traces(e, base, seq, n, h)
    BY <1>2, <1>4, <1>5, <1>6 DEF Traces
  <1>8. QED
    BY <1>7

\* F takes the steps of the fold in every order.
Unfolds(e, base, T, F) ==
  /\ F = [S \in SUBSET T |-> F[S]] /\ F[{}] = base
  /\ \A S \in SUBSET T : \A c \in S : F[S] = Op(e, F[S \ {c}], c)

(* A fold over a finite set is what a function gives that takes the same   *)
(* steps in every order.                                                   *)
LEMMA FoldOfSet ==
  ASSUME NEW e, NEW base, NEW T, IsFiniteSet(T), NEW F, Unfolds(e, base, T, F)
  PROVE  FoldedSet(e, base, T) = F[T]
  <1> DEFINE Chosen(it) ==
        it = [S \in SUBSET T |->
                IF S = {} THEN base
                ELSE Op(e, it[S \ {CHOOSE x \in S : TRUE}], CHOOSE x \in S : TRUE)]
             it == CHOOSE iter : Chosen(iter)
  <1> USE DEF Unfolds
  <1>1. ASSUME NEW S \in SUBSET T
        PROVE F[S] = IF S = {} THEN base
                     ELSE Op(e, F[S \ {CHOOSE x \in S : TRUE}], CHOOSE x \in S : TRUE)
    <2>1. CASE S = {}
      BY <2>1
    <2>2. CASE S # {}
      <3>1. (CHOOSE x \in S : TRUE) \in S
        BY <2>2
      <3>2. QED
        BY <2>2, <3>1
    <2>3. QED
      BY <2>1, <2>2
  <1>2. Chosen(F)
    <2> DEFINE rhs == [S \in SUBSET T |->
                IF S = {} THEN base
                ELSE Op(e, F[S \ {CHOOSE x \in S : TRUE}], CHOOSE x \in S : TRUE)]
    <2>1. \A S \in SUBSET T : F[S] = rhs[S]
      BY <1>1
    <2>2. rhs = [S \in SUBSET T |-> rhs[S]]
      OBVIOUS
    <2>3. F = rhs
      <3> HIDE DEF rhs
      <3>1. [S \in SUBSET T |-> F[S]] = [S \in SUBSET T |-> rhs[S]]
        BY <2>1
      <3>2. QED
        BY <2>2, <3>1
    <2>4. QED
      BY <2>3, Zenon
  <1>3. Chosen(it)
    <2> HIDE DEF Chosen
    <2> QED BY <1>2
  <1>4. FoldedSet(e, base, T) = it[T]
    BY Zenon DEF FoldedSet
  <1> HIDE DEF it
  <1>5. ASSUME NEW S \in SUBSET T
        PROVE it[S] = IF S = {} THEN base
                     ELSE Op(e, it[S \ {CHOOSE x \in S : TRUE}], CHOOSE x \in S : TRUE)
    BY <1>3, Zenon
  <1> DEFINE Differ == {S \in SUBSET T : it[S] # F[S]}
             Sizes == {Cardinality(S) : S \in Differ}
  <1>6. SUFFICES ASSUME Differ # {} PROVE FALSE
    <2>1. T \in SUBSET T
      OBVIOUS
    <2>2. QED
      BY <1>4, <2>1
  <1>7. \A S \in SUBSET T : IsFiniteSet(S) /\ Cardinality(S) \in Nat
    BY FS_Subset, FS_CardinalityType
  <1>8. Sizes \in SUBSET Nat /\ Sizes # {}
    BY <1>6, <1>7
  <1>9. PICK m \in Sizes : \A y \in Sizes : m <= y
    <2> HIDE DEF Sizes
    <2> QED BY <1>8, LeastNat
  <1>10. PICK S \in Differ : m = Cardinality(S)
    BY <1>9
  <1>11. S # {}
    BY <1>1, <1>5, <1>10
  <1> DEFINE c == CHOOSE x \in S : TRUE
  <1>12. c \in S /\ S \ {c} \in SUBSET T
    BY <1>10, <1>11
  <1>13. it[S] = Op(e, it[S \ {c}], c) /\ F[S] = Op(e, F[S \ {c}], c)
    BY <1>1, <1>5, <1>10, <1>11
  <1> HIDE DEF c
  <1>14. Cardinality(S \ {c}) = Cardinality(S) - 1
    BY <1>7, <1>10, <1>12, FS_RemoveElement
  <1>15. ~(m <= Cardinality(S \ {c}))
    BY <1>7, <1>10, <1>14
  <1>16. S \ {c} \notin Differ
    <2> HIDE DEF Differ
    <2> QED BY <1>9, <1>15
  <1>17. it[S \ {c}] = F[S \ {c}]
    BY <1>12, <1>16
  <1>18. QED
    BY <1>10, <1>13, <1>17
=============================================================================
