---------------------------- MODULE FoldTheorems ----------------------------
(***************************************************************************)
(* What FoldLeft of SequencesExt computes with an operator Op, step by     *)
(* step.  A module that folds with an operator of its own instantiates     *)
(* this one for it; Fold below is FoldLeft with the definitions it is made *)
(* of put in.                                                              *)
(***************************************************************************)
EXTENDS Integers, WellFoundedInduction, TLAPS

CONSTANT Op(_, _)

Largest(set) == CHOOSE m \in set : \A n \in set : m >= n

(* The function FoldLeft is defined by, on the sets of positions given.    *)
Folds(iter, sets, base, seq) ==
    iter = [set \in sets |->
               IF set = {} THEN base
               ELSE Op(iter[set \ {Largest(set)}], seq[Largest(set)])]

Fold(base, seq) ==
    (CHOOSE iter : Folds(iter, SUBSET DOMAIN seq, base, seq))[DOMAIN seq]

(* A set of natural numbers that is not empty has a least one.             *)
LEMMA Least ==
    ASSUME NEW T \in SUBSET Nat, T # {}
    PROVE  \E n \in T : \A m \in T : n <= m
  <1>1. PICK n \in T : \A m \in T : ~(<<m, n>> \in OpToRel(<, Nat))
    BY NatLessThanWellFounded, WFMin
  <1>2. ASSUME NEW m \in T PROVE n <= m
    <2>1. m \in Nat /\ n \in Nat
      OBVIOUS
    <2>2. ~(m < n)
      BY <1>1, <2>1 DEF OpToRel
    <2> QED
      BY <2>1, <2>2
  <1> QED
    BY <1>2

(* Induction up to n, over a set: what holds of 0, and of each number if   *)
(* of the one before.                                                      *)
LEMMA UpTo ==
    ASSUME NEW n \in Nat, NEW T, 0 \in T, \A i \in 1 .. n : i - 1 \in T => i \in T
    PROVE  0 .. n \subseteq T
  <1>1. SUFFICES ASSUME (0 .. n) \ T # {} PROVE FALSE
    OBVIOUS
  <1>2. PICK k \in (0 .. n) \ T : \A m \in (0 .. n) \ T : k <= m
    <2>1. (0 .. n) \ T \in SUBSET Nat
      OBVIOUS
    <2> QED
      BY <1>1, <2>1, Least
  <1>3. k \in 1 .. n /\ k - 1 \in 0 .. n
    BY <1>2
  <1>4. k - 1 \in T
    BY <1>2, <1>3
  <1> QED
    BY <1>2, <1>3, <1>4

LEMMA LargestIsThere ==
    ASSUME NEW n \in Nat, NEW set \in SUBSET (1 .. n), set # {}
    PROVE  Largest(set) \in set /\ \A m \in set : m <= Largest(set)
  <1> DEFINE below == {n - m : m \in set}
  <1>1. below \in SUBSET Nat /\ below # {}
    <2>1. \A m \in set : m \in 1 .. n /\ n - m \in Nat
      OBVIOUS
    <2> QED
      BY <2>1
  <1>2. PICK d \in below : \A e \in below : d <= e
    <2> HIDE DEF below
    <2> QED
      BY <1>1, Least
  <1>3. PICK m \in set : d = n - m
    OBVIOUS
  <1>4. \A k \in set : m >= k
    <2> SUFFICES ASSUME NEW k \in set PROVE m >= k
      OBVIOUS
    <2>1. n - k \in below
      OBVIOUS
    <2>2. n - m <= n - k
      BY <1>2, <1>3, <2>1
    <2> QED
      BY <2>2
  <1>5. Largest(set) \in set /\ \A k \in set : Largest(set) >= k
    BY <1>4 DEF Largest
  <1> QED
    BY <1>5

(* There is such a function, since each position needs those before only.  *)
LEMMA FoldsOneMore ==
    ASSUME NEW base, NEW seq, NEW k \in Nat \ {0},
           NEW g, Folds(g, SUBSET (1 .. k - 1), base, seq)
    PROVE  \E h : Folds(h, SUBSET (1 .. k), base, seq)
  <1> DEFINE h == [set \in SUBSET (1 .. k) |->
                      IF k \in set THEN Op(g[set \ {k}], seq[k]) ELSE g[set]]
  <1>1. ASSUME NEW set \in SUBSET (1 .. k)
        PROVE  h[set] = IF set = {} THEN base
                        ELSE Op(h[set \ {Largest(set)}], seq[Largest(set)])
    <2>1. CASE k \in set
      <3>1. Largest(set) = k
        <4>1. Largest(set) \in set /\ k <= Largest(set)
          BY <2>1, LargestIsThere
        <4>2. Largest(set) \in 1 .. k
          BY <4>1
        <4> QED
          BY <4>1, <4>2
      <3>2. h[set \ {k}] = g[set \ {k}]
        OBVIOUS
      <3> QED
        BY <2>1, <3>1, <3>2
    <2>2. CASE k \notin set
      <3>1. set \in SUBSET (1 .. k - 1)
        BY <2>2
      <3>2. h[set] = g[set]
        BY <2>2
      <3>3. CASE set = {}
        BY <3>1, <3>2, <3>3 DEF Folds
      <3>4. CASE set # {}
        <4>1. h[set \ {Largest(set)}] = g[set \ {Largest(set)}]
          BY <2>2
        <4>2. g[set] = Op(g[set \ {Largest(set)}], seq[Largest(set)])
          BY <3>1, <3>4 DEF Folds
        <4> QED
          BY <3>2, <3>4, <4>1, <4>2
      <3> QED
        BY <3>3, <3>4
    <2> QED
      BY <2>1, <2>2
  <1>2. h = [set \in SUBSET (1 .. k) |->
                IF set = {} THEN base
                ELSE Op(h[set \ {Largest(set)}], seq[Largest(set)])]
    <2>1. h = [set \in SUBSET (1 .. k) |-> h[set]]
      OBVIOUS
    <2> HIDE DEF h
    <2> QED
      BY <1>1, <2>1
  <1> QED
    BY <1>2 DEF Folds

LEMMA FoldsExist ==
    ASSUME NEW base, NEW seq, NEW n \in Nat, DOMAIN seq = 1 .. n
    PROVE  \E iter : Folds(iter, SUBSET DOMAIN seq, base, seq)
  <1> DEFINE T == {k \in 0 .. n : \E g : Folds(g, SUBSET (1 .. k), base, seq)}
  <1>1. 0 \in T
    <2>1. 1 .. 0 = {}
      OBVIOUS
    <2>2. Folds([set \in SUBSET (1 .. 0) |-> base], SUBSET (1 .. 0), base, seq)
      BY <2>1 DEF Folds
    <2> QED
      BY <2>2
  <1>2. \A i \in 1 .. n : i - 1 \in T => i \in T
    <2> SUFFICES ASSUME NEW i \in 1 .. n, i - 1 \in T PROVE i \in T
      OBVIOUS
    <2>1. PICK g : Folds(g, SUBSET (1 .. i - 1), base, seq)
      OBVIOUS
    <2>2. \E h : Folds(h, SUBSET (1 .. i), base, seq)
      <3>1. i \in Nat \ {0}
        OBVIOUS
      <3> QED
        BY <2>1, <3>1, FoldsOneMore
    <2> QED
      BY <2>2
  <1>3. n \in T
    <2> HIDE DEF T
    <2>1. 0 .. n \subseteq T
      BY <1>1, <1>2, UpTo
    <2> QED
      BY <2>1
  <1> QED
    BY <1>3

(* A fold is a loop: it begins with base, and takes the elements one by    *)
(* one.                                                                    *)
LEMMA FoldIsLoop ==
    ASSUME NEW base, NEW seq, NEW n \in Nat, DOMAIN seq = 1 .. n
    PROVE  \E loop : /\ loop[0] = base
                     /\ \A i \in 1 .. n : loop[i] = Op(loop[i - 1], seq[i])
                     /\ Fold(base, seq) = loop[n]
  <1> DEFINE iter == CHOOSE iter : Folds(iter, SUBSET DOMAIN seq, base, seq)
             loop == [i \in 0 .. n |-> iter[1 .. i]]
  <1>1. Folds(iter, SUBSET DOMAIN seq, base, seq)
    BY FoldsExist
  <1>2. Fold(base, seq) = iter[1 .. n]
    BY DEF Fold
  <1> HIDE DEF iter
  <1>3. loop[0] = base
    <2>1. 1 .. 0 = {} /\ {} \in SUBSET DOMAIN seq
      OBVIOUS
    <2>2. iter[{}] = base
      BY <1>1, <2>1 DEF Folds
    <2> QED
      BY <2>1, <2>2
  <1>4. ASSUME NEW i \in 1 .. n
        PROVE  loop[i] = Op(loop[i - 1], seq[i])
    <2>1. 1 .. i \in SUBSET DOMAIN seq /\ 1 .. i # {}
      OBVIOUS
    <2>2. Largest(1 .. i) = i
      <3>1. i \in Nat /\ 1 .. i \in SUBSET (1 .. i) /\ i \in 1 .. i
        OBVIOUS
      <3>2. Largest(1 .. i) \in 1 .. i /\ i <= Largest(1 .. i)
        BY <2>1, <3>1, LargestIsThere
      <3> QED
        BY <3>1, <3>2
    <2>3. (1 .. i) \ {i} = 1 .. i - 1
      OBVIOUS
    <2>4. iter[1 .. i] = Op(iter[1 .. i - 1], seq[i])
      BY <1>1, <2>1, <2>2, <2>3 DEF Folds
    <2> QED
      BY <2>4
  <1>5. Fold(base, seq) = loop[n]
    BY <1>2
  <1> QED
    BY <1>3, <1>4, <1>5

(* What is kept from step to step holds in the end: S[i] is the set of     *)
(* what the loop may have computed from the first i elements.              *)
LEMMA FoldReaches ==
    ASSUME NEW base, NEW seq, NEW n \in Nat, DOMAIN seq = 1 .. n,
           NEW S, base \in S[0],
           \A i \in 1 .. n : \A s \in S[i - 1] : Op(s, seq[i]) \in S[i]
    PROVE  Fold(base, seq) \in S[n]
  <1>1. PICK loop : /\ loop[0] = base
                    /\ \A i \in 1 .. n : loop[i] = Op(loop[i - 1], seq[i])
                    /\ Fold(base, seq) = loop[n]
    BY FoldIsLoop
  <1> DEFINE T == {i \in 0 .. n : loop[i] \in S[i]}
  <1>2. 0 \in T
    BY <1>1
  <1>3. \A i \in 1 .. n : i - 1 \in T => i \in T
    BY <1>1
  <1>4. n \in T
    <2> HIDE DEF T
    <2>1. 0 .. n \subseteq T
      BY <1>2, <1>3, UpTo
    <2> QED
      BY <2>1
  <1> QED
    BY <1>1, <1>4

=============================================================================
