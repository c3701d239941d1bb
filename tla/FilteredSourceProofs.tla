------------------------ MODULE FilteredSourceProofs ------------------------
(***************************************************************************)
(* Theorems about FilterTree and about FilteredSource, which feeds the     *)
(* tree, for any set of strings, finite or not, however deep their paths   *)
(* are, and for any counts and bounds.                                     *)
(*                                                                         *)
(* First the tree on its own: what the filter refuses, what the check      *)
(* marks say, and what an open menu acts on.  Then the tree that is fed by *)
(* the thread of a source: the same holds of it, and the rows shown are    *)
(* those of the selected items at every moment.  The last rests on the     *)
(* order of the posted events: an object is in the cache only when the     *)
(* filter list knows it or its newElement is posted, and an entry is       *)
(* posted behind the newElement of its object.                             *)
(***************************************************************************)
EXTENDS FilteredSource, FiniteSetTheorems, SequenceTheorems, WellFoundedInduction, TLAPS

-----------------------------------------------------------------------------
(***************************************************************************)
(* Paths.                                                                  *)
(***************************************************************************)

LEMMA PrefixProperties ==
  ASSUME NEW s \in Seq(Nat), NEW n \in 1..Len(s)
  PROVE  /\ SubSeq(s, 1, n) \in Seq(Nat)
         /\ Len(SubSeq(s, 1, n)) = n
         /\ SubSeq(s, 1, n) \in PathTo(s)
<1>1. Len(s) \in Nat /\ \A k \in 1..Len(s) : s[k] \in Nat
  BY LenProperties, ElementOfSeq
<1>2. n \in Int /\ 1 <= n /\ \A k \in 1..n : s[k] \in Nat
  BY <1>1
<1>3. /\ SubSeq(s, 1, n) \in Seq(Nat)
      /\ Len(SubSeq(s, 1, n)) = IF 1 <= n THEN n - 1 + 1 ELSE 0
  BY <1>2, SubSeqProperties
<1> QED
  BY <1>2, <1>3 DEF PathTo

LEMMA PathToMember ==
  ASSUME NEW s \in Seq(Nat), NEW p \in PathTo(s)
  PROVE  /\ p \in Seq(Nat) /\ p # Root
         /\ Len(s) \in Nat /\ Len(p) \in Nat /\ Len(p) \in 1..Len(s)
         /\ p = SubSeq(s, 1, Len(p))
<1>1. PICK n \in 1..Len(s) : p = SubSeq(s, 1, n)
  BY DEF PathTo
<1>2. p \in Seq(Nat) /\ Len(p) = n /\ Len(s) \in Nat
  BY <1>1, PrefixProperties, LenProperties
<1>3. p # Root
  BY <1>2, EmptySeq DEF Root
<1> QED
  BY <1>1, <1>2, <1>3

LEMMA PathToSelf ==
  ASSUME NEW s \in Seq(Nat), s # Root
  PROVE  s \in PathTo(s)
<1>1. Len(s) \in 1..Len(s)
  BY EmptySeq DEF Root
<1>2. SubSeq(s, 1, Len(s)) = s
  BY SubSeqFull
<1> QED
  BY <1>1, <1>2 DEF PathTo

\* Of two items of a path the one that is not longer leads to the other.
LEMMA PathToOrdered ==
  ASSUME NEW s \in Seq(Nat), NEW p \in PathTo(s), NEW q \in PathTo(s), Len(p) <= Len(q)
  PROVE  p \in PathTo(q) /\ (Len(p) = Len(q) => p = q)
<1>1. /\ p \in Seq(Nat) /\ q \in Seq(Nat)
      /\ Len(p) \in 1..Len(s) /\ Len(q) \in 1..Len(s) /\ Len(s) \in Nat
      /\ p = SubSeq(s, 1, Len(p)) /\ q = SubSeq(s, 1, Len(q))
  BY PathToMember
<1> DEFINE l == Len(p)
           m == Len(q)
<1>2. 1 \in 1..Len(s) /\ 1 \in 1..(m - 1 + 1) /\ l \in 1..(m - 1 + 1) /\ l \in 1..m
  BY <1>1
<1>3. 1 + 1 - 1 = 1 /\ 1 + l - 1 = l
  BY <1>1
<1>4. SubSeq(SubSeq(s, 1, m), 1, l) = SubSeq(s, 1 + 1 - 1, 1 + l - 1)
  BY <1>1, <1>2, SubSeqOfSubSeq
<1>5. p = SubSeq(q, 1, l)
  BY <1>1, <1>3, <1>4
<1> QED
  BY <1>1, <1>2, <1>5 DEF PathTo

LEMMA PathToTransitive ==
  ASSUME NEW s \in Seq(Nat), NEW q \in PathTo(s), NEW p \in PathTo(q)
  PROVE  p \in PathTo(s)
<1>1. /\ p \in Seq(Nat) /\ q \in Seq(Nat)
      /\ Len(p) \in 1..Len(q) /\ Len(q) \in 1..Len(s) /\ Len(s) \in Nat
      /\ p = SubSeq(q, 1, Len(p)) /\ q = SubSeq(s, 1, Len(q))
  BY PathToMember
<1> DEFINE l == Len(p)
           m == Len(q)
<1>2. 1 \in 1..Len(s) /\ 1 \in 1..(m - 1 + 1) /\ l \in 1..(m - 1 + 1) /\ l \in 1..Len(s)
  BY <1>1
<1>3. 1 + 1 - 1 = 1 /\ 1 + l - 1 = l
  BY <1>1
<1>4. SubSeq(SubSeq(s, 1, m), 1, l) = SubSeq(s, 1 + 1 - 1, 1 + l - 1)
  BY <1>1, <1>2, SubSeqOfSubSeq
<1>5. p = SubSeq(s, 1, l)
  BY <1>1, <1>3, <1>4
<1> QED
  BY <1>2, <1>5 DEF PathTo

\* The parent has one part less, and the others in their places.
LEMMA ParentProperties ==
  ASSUME NEW s \in Seq(Nat), s # Root
  PROVE  /\ Len(s) \in Nat \ {0} /\ s[Len(s)] \in Nat
         /\ Parent(s) \in Seq(Nat) /\ Len(Parent(s)) = Len(s) - 1
         /\ \A k \in 1..(Len(s) - 1) : Parent(s)[k] = s[k]
<1>1. Len(s) \in Nat \ {0} /\ \A k \in 1..Len(s) : s[k] \in Nat
  BY EmptySeq, ElementOfSeq DEF Root
<1>2. Len(s) - 1 \in Int /\ \A k \in 1..(Len(s) - 1) : s[k] \in Nat
  BY <1>1
<1>3. /\ SubSeq(s, 1, Len(s) - 1) \in Seq(Nat)
      /\ Len(SubSeq(s, 1, Len(s) - 1))
           = IF 1 <= Len(s) - 1 THEN (Len(s) - 1) - 1 + 1 ELSE 0
      /\ \A k \in 1..((Len(s) - 1) - 1 + 1) :
           SubSeq(s, 1, Len(s) - 1)[k] = s[1 + k - 1]
  BY <1>2, SubSeqProperties
<1>4. \A k \in 1..(Len(s) - 1) : k \in 1..((Len(s) - 1) - 1 + 1) /\ 1 + k - 1 = k
  BY <1>1
<1>5. Len(s) \in 1..Len(s)
  BY <1>1
<1>6. \A n \in Nat \ {0} : n - 1 = IF 1 <= n - 1 THEN (n - 1) - 1 + 1 ELSE 0
  OBVIOUS
<1>7. Len(SubSeq(s, 1, Len(s) - 1)) = Len(s) - 1
  BY <1>1, <1>3, <1>6
<1>8. \A k \in 1..(Len(s) - 1) : SubSeq(s, 1, Len(s) - 1)[k] = s[k]
  BY <1>3, <1>4
<1> QED
  BY <1>1, <1>3, <1>5, <1>7, <1>8 DEF Parent

\* An item is known by its parent and its last part.
LEMMA ParentAndPart ==
  ASSUME NEW p \in Seq(Nat), p # Root, NEW q \in Seq(Nat), q # Root,
         Parent(p) = Parent(q), p[Len(p)] = q[Len(q)]
  PROVE  p = q
<1>1. Len(p) \in Nat \ {0} /\ Len(q) \in Nat \ {0} /\ Len(p) - 1 = Len(q) - 1
  BY ParentProperties
<1>2. Len(p) = Len(q)
  BY <1>1
<1>3. ASSUME NEW k \in 1..Len(p) PROVE p[k] = q[k]
  <2>1. CASE k = Len(p)
    BY <1>2, <2>1
  <2>2. CASE k # Len(p)
    <3>1. k \in 1..(Len(p) - 1) /\ k \in 1..(Len(q) - 1)
      BY <1>1, <1>2, <2>2
    <3> QED
      BY <3>1, ParentProperties
  <2> QED
    BY <2>1, <2>2
<1> QED
  BY <1>2, <1>3, SeqEqual

\* Items are paths below the root, with every item on the way to them.
LEMMA ItemPaths ==
  ASSUME received \subseteq Strings
  PROVE  /\ Items \subseteq Paths
         /\ \A i \in Items : /\ i \in Seq(Nat) /\ i # Root /\ i \in PathTo(i)
                             /\ Len(i) \in Nat /\ PathTo(i) \subseteq Items
<1>1. Items \subseteq Paths
  BY DEF Items, Paths
<1>2. ASSUME NEW i \in Items
      PROVE  /\ i \in Seq(Nat) /\ i # Root /\ i \in PathTo(i)
             /\ Len(i) \in Nat /\ PathTo(i) \subseteq Items
  <2>1. PICK s \in received : i \in PathTo(s)
    BY DEF Items
  <2>2. s \in Seq(Nat)
    BY StringsAssumption
  <2>3. i \in Seq(Nat) /\ i # Root /\ Len(i) \in Nat
    BY <2>1, <2>2, PathToMember
  <2>4. i \in PathTo(i)
    BY <2>3, PathToSelf
  <2>5. PathTo(i) \subseteq PathTo(s)
    BY <2>1, <2>2, PathToTransitive
  <2> QED
    BY <2>1, <2>3, <2>4, <2>5 DEF Items
<1> QED
  BY <1>1, <1>2

\* An item above one below i is above i, or is i, or is below i.
LEMMA AboveSplit ==
  ASSUME received \subseteq Strings, NEW i \in Items, NEW d \in Below(i), NEW p \in Above(d)
  PROVE  p \in Above(i) \/ p = i \/ p \in Below(i)
<1>1. /\ d \in Items /\ d \in Seq(Nat) /\ i \in PathTo(d) /\ PathTo(d) \subseteq Items
  BY ItemPaths DEF Below
<1>2. CASE p = Root
  BY <1>2 DEF Above
<1>3. CASE p \in PathTo(d)
  <2>1. Len(p) \in Nat /\ Len(i) \in Nat /\ p \in Items
    BY <1>1, <1>3, PathToMember
  <2>2. CASE Len(p) <= Len(i)
    BY <1>1, <1>3, <2>2, PathToOrdered DEF Above
  <2>3. CASE Len(i) <= Len(p)
    BY <1>1, <1>3, <2>1, <2>3, PathToOrdered DEF Below
  <2> QED
    BY <2>1, <2>2, <2>3
<1> QED
  BY <1>2, <1>3 DEF Above

\* What is above an item above d is above d, and shorter.
LEMMA AboveTransitive ==
  ASSUME received \subseteq Strings, NEW d \in Items, NEW q \in Above(d), NEW p \in Above(q)
  PROVE  p \in Above(d) /\ Len(p) \in Nat /\ Len(q) \in Nat /\ (q # Root => Len(p) < Len(q))
<1>1. d \in Seq(Nat) /\ PathTo(d) \subseteq Items
  BY ItemPaths
<1>2. Len(Root) = 0 /\ Len(Root) \in Nat /\ Root \in Seq(Nat)
  BY EmptySeq DEF Root
<1>3. CASE q = Root
  <2>1. PathTo(Root) = {}
    BY <1>2 DEF PathTo
  <2> QED
    BY <1>2, <1>3, <2>1 DEF Above
<1>4. CASE q \in PathTo(d) \ {d}
  <2>1. q \in Seq(Nat) /\ Len(q) \in Nat /\ Len(q) >= 1
    BY <1>1, <1>4, PathToMember
  <2>2. CASE p = Root
    BY <1>2, <2>1, <2>2 DEF Above
  <2>3. CASE p \in PathTo(q) \ {q}
    <3>1. p \in PathTo(d) /\ Len(p) \in Nat /\ Len(p) <= Len(q)
      BY <1>1, <1>4, <2>1, <2>3, PathToTransitive, PathToMember
    <3>2. Len(p) # Len(q)
      BY <1>1, <1>4, <2>3, <3>1, PathToOrdered
    <3>3. p # d
      <4>1. Len(q) <= Len(d) /\ Len(d) \in Nat
        BY <1>1, <1>4, PathToMember
      <4> QED
        BY <2>1, <3>1, <3>2, <4>1
    <3> QED
      BY <2>1, <3>1, <3>2, <3>3 DEF Above
  <2> QED
    BY <2>2, <2>3 DEF Above
<1> QED
  BY <1>3, <1>4 DEF Above
\* A set of natural numbers that is not empty has a least one.
LEMMA LeastNatural ==
  ASSUME NEW T \in SUBSET Nat, T # {}
  PROVE  \E n \in T : \A m \in T : n <= m
<1>1. PICK n \in T : \A m \in T : ~(<<m, n>> \in OpToRel(<, Nat))
  BY NatLessThanWellFounded, WFMin
<1>2. ASSUME NEW m \in T PROVE n <= m
  <2>1. m \in Nat /\ n \in Nat
    OBVIOUS
  <2>2. ~(m < n)
    BY <1>1, <2>1 DEF OpToRel
  <2> QED
    BY <2>1, <2>2
<1> QED
  BY <1>2

-----------------------------------------------------------------------------
(***************************************************************************)
(* Check marks.                                                            *)
(***************************************************************************)

\* The topmost of the items that force an item.
LEMMA TopmostForces ==
  ASSUME received \subseteq Strings, NEW i \in Items, Forced(i)
  PROVE  \E p \in Forcing(i) : \A q \in Forcing(i) : Len(p) <= Len(q)
<1>1. \A p \in Forcing(i) : Len(p) \in Nat
  <2>1. i \in Seq(Nat) /\ Len(Root) = 0
    BY ItemPaths, EmptySeq DEF Root
  <2> QED
    BY <2>1, PathToMember DEF Forcing, Above
<1> DEFINE lengths == {Len(p) : p \in Forcing(i)}
<1>2. lengths \in SUBSET Nat /\ lengths # {}
  BY <1>1 DEF Forced
<1>3. PICK n \in lengths : \A m \in lengths : n <= m
  BY <1>2, LeastNatural
<1>4. PICK p \in Forcing(i) : n = Len(p)
  OBVIOUS
<1> QED
  BY <1>3, <1>4

\* What a deselected item shows: itself deselected, or children that are.
LEMMA DeselectsBelow ==
  ASSUME TypeOK, NEW i \in Items, ~Forced(i), checkedChilds[i] = "Inherit", IsPartial(i)
  PROVE  \E d \in Below(i) : ~IsChecked(d)
<1>1. received \subseteq Strings
  BY DEF TypeOK
<1>2. PICK d \in Below(i) :
        Deselects(d) /\ \A m \in Above(d) \cap Below(i) : checkedChilds[m] = "Inherit"
  BY DEF IsPartial
<1>3. \A m \in Above(d) : checkedChilds[m] = "Inherit"
  BY <1>1, <1>2, AboveSplit DEF Forced, Forcing
<1>4. CASE checkedSelf[d] = "Unchecked"
  BY <1>3, <1>4 DEF IsChecked, Forced, Forcing
<1>5. CASE checkedChilds[d] = "Unchecked" /\ Below(d) # {}
  <2>1. PICK e \in Below(d) : TRUE
    BY <1>5
  <2>2. /\ d \in Items /\ e \in Items /\ d # e /\ d \in PathTo(e) /\ i \in PathTo(d) /\ i # d
        /\ e \in Seq(Nat) /\ d \in Seq(Nat)
    BY <1>1, <2>1, ItemPaths DEF Below
  <2>3. i \in PathTo(e) /\ d \in Above(e)
    BY <2>2, PathToTransitive DEF Above
  <2>4. i # e
    <3>1. Len(i) \in 1..Len(d) /\ Len(d) \in 1..Len(e) /\ Len(e) \in Nat
      BY <2>2, PathToMember
    <3>2. Len(i) # Len(d)
      <4>1. d \in PathTo(d)
        BY <1>1, <2>2, ItemPaths
      <4> QED
        BY <2>2, <3>1, <4>1, PathToOrdered
    <3> QED
      BY <3>1, <3>2
  <2>5. e \in Below(i)
    BY <2>2, <2>3, <2>4 DEF Below
  <2>6. d \in Forcing(e)
    BY <1>5, <2>3 DEF Forcing
  <2>7. ASSUME NEW p \in Forcing(e), \A q \in Forcing(e) : Len(p) <= Len(q)
        PROVE  p = d
    <3>1. Len(p) <= Len(d) /\ p \in Above(e) /\ checkedChilds[p] # "Inherit"
      BY <2>6, <2>7 DEF Forcing
    <3>2. p \notin Above(d)
      BY <1>3, <3>1
    <3>3. p \in PathTo(e)
      BY <3>1, <3>2 DEF Above
    <3>4. p \in PathTo(d)
      BY <2>2, <3>1, <3>3, PathToOrdered
    <3> QED
      BY <3>2, <3>4 DEF Above
  <2>8. ~IsChecked(e)
    BY <1>5, <2>6, <2>7 DEF IsChecked, Forced
  <2> QED
    BY <2>5, <2>8
<1> QED
  BY <1>2, <1>4, <1>5 DEF Deselects

LEMMA DeselectedIsShown ==
  ASSUME TypeOK, NEW i \in Items, ~Forced(i), checkedChilds[i] = "Inherit",
         NEW d \in Below(i), ~IsChecked(d)
  PROVE  IsPartial(i)
<1>1. received \subseteq Strings /\ d \in Items
  BY DEF TypeOK, Below
<1>2. CASE ~Forced(d)
  <2>1. checkedSelf[d] = "Unchecked" /\ \A m \in Above(d) : checkedChilds[m] = "Inherit"
    BY <1>2 DEF IsChecked, Forced, Forcing
  <2> QED
    BY <2>1 DEF IsPartial, Deselects
<1>3. CASE Forced(d)
  <2>1. PICK p \in Forcing(d) : \A q \in Forcing(d) : Len(p) <= Len(q)
    BY <1>1, <1>3, TopmostForces
  <2>2. p \in Above(d) /\ checkedChilds[p] # "Inherit" /\ checkedChilds[p] # "Checked"
    BY <1>3, <2>1 DEF IsChecked, Forcing
  <2>3. p \in Below(i)
    BY <1>1, <2>2, AboveSplit DEF Forced, Forcing
  <2>4. /\ p \in Items /\ p \in Paths /\ p # Root
    BY <1>1, <2>3, ItemPaths DEF Below
  <2>5. checkedChilds[p] = "Unchecked"
    BY <2>2, <2>4 DEF TypeOK, Check
  <2>6. d \in Below(p)
    BY <1>1, <2>2, <2>4 DEF Above, Below
  <2>7. ASSUME NEW m \in Above(p) PROVE checkedChilds[m] = "Inherit"
    <3>1. m \in Above(d) /\ Len(m) \in Nat /\ Len(p) \in Nat /\ Len(m) < Len(p)
      BY <1>1, <2>2, <2>4, AboveTransitive
    <3> QED
      BY <2>1, <3>1 DEF Forcing
  <2> QED
    BY <2>3, <2>5, <2>6, <2>7 DEF IsPartial, Deselects
<1> QED
  BY <1>2, <1>3

LEMMA PartialIsTrue ==
  ASSUME TypeOK
  PROVE  PartialTellsTruth
BY DeselectsBelow, DeselectedIsShown DEF PartialTellsTruth
-----------------------------------------------------------------------------
(***************************************************************************)
(* "Select only this".                                                     *)
(***************************************************************************)

\* No item of a path stands beside another one of it.
LEMMA PathNotAside ==
  ASSUME received \subseteq Strings, NEW i \in Items,
         NEW p \in PathTo(i), NEW q \in PathTo(i)
  PROVE  p \notin Siblings(q)
<1> SUFFICES ASSUME p # q, Parent(p) = Parent(q) PROVE FALSE
  BY DEF Siblings
<1>1. i \in Seq(Nat) /\ p \in Seq(Nat) /\ q \in Seq(Nat) /\ PathTo(i) \subseteq Items
  BY ItemPaths
<1>2. p # Root /\ q # Root
  BY <1>1, ItemPaths
<1>3. /\ Len(p) \in Nat \ {0} /\ Len(q) \in Nat \ {0}
      /\ Len(Parent(p)) = Len(p) - 1 /\ Len(Parent(q)) = Len(q) - 1
  BY <1>1, <1>2, ParentProperties
<1>4. Len(p) = Len(q)
  BY <1>3
<1> QED
  BY <1>1, <1>3, <1>4, PathToOrdered

\* Where a path leaves the path to i, it goes through an item beside that path.
LEMMA LeavesAside ==
  ASSUME received \subseteq Strings, NEW i \in Items, NEW j \in Items,
         j \notin PathTo(i), j \notin Below(i)
  PROVE  \E a \in PathTo(j) :
            /\ a \notin PathTo(i)
            /\ \E b \in PathTo(i) : a \in Siblings(b)
            /\ \A p \in PathTo(j) : Len(p) < Len(a) => p \in PathTo(i) \ {i}
<1>1. /\ i \in Seq(Nat) /\ j \in Seq(Nat) /\ Len(i) \in Nat /\ Len(j) \in Nat
      /\ i \in PathTo(i) /\ j \in PathTo(j)
      /\ PathTo(i) \subseteq Items /\ PathTo(j) \subseteq Items
  BY ItemPaths
<1>2. i \notin PathTo(j)
  BY <1>1 DEF Below
<1> DEFINE lengths == {Len(p) : p \in PathTo(j) \ PathTo(i)}
<1>3. lengths \in SUBSET Nat /\ lengths # {}
  BY <1>1, PathToMember
<1>4. PICK n \in lengths : \A m \in lengths : n <= m
  BY <1>3, LeastNatural
<1>5. PICK a \in PathTo(j) \ PathTo(i) : n = Len(a)
  OBVIOUS
<1>6. a \in Seq(Nat) /\ n \in Nat /\ n \in 1..Len(j) /\ a = SubSeq(j, 1, n)
  BY <1>1, <1>5, PathToMember
<1>7. ASSUME NEW p \in PathTo(j), Len(p) < n
      PROVE  p \in PathTo(i) \ {i}
  <2>1. Len(p) \in Nat
    BY <1>1, PathToMember
  <2>2. p \in PathTo(i)
    <3>1. Len(p) \notin lengths
      BY <1>4, <1>6, <1>7, <2>1
    <3> QED
      BY <3>1
  <2> QED
    BY <1>2, <2>2
<1>8. n <= Len(i)
  <2> SUFFICES ASSUME Len(i) < n PROVE FALSE
    BY <1>1, <1>6
  <2> DEFINE p == SubSeq(j, 1, Len(i))
  <2>1. Len(i) \in 1..Len(j)
    BY <1>1, <1>6, PathToMember
  <2>2. p \in PathTo(j) /\ Len(p) = Len(i)
    BY <1>1, <2>1, PrefixProperties
  <2>3. p \in PathTo(i)
    BY <1>7, <2>2
  <2> HIDE DEF p
  <2>4. p = i
    <3>1. Len(p) <= Len(i)
      BY <1>1, <2>2
    <3> QED
      BY <1>1, <2>2, <2>3, <3>1, PathToOrdered
  <2> QED
    BY <1>2, <2>2, <2>4
<1> DEFINE b == SubSeq(i, 1, n)
<1>9. b \in PathTo(i) /\ b \in Seq(Nat) /\ Len(b) = n /\ b # a
  <2>1. n \in 1..Len(i)
    BY <1>1, <1>6, <1>8
  <2> QED
    BY <1>1, <1>5, <2>1, PrefixProperties
<1> HIDE DEF lengths, b
<1>10. Parent(a) = Parent(b)
  <2>1. CASE n = 1
    <3>1. Parent(a) = <<>> /\ Parent(b) = <<>>
      BY <1>5, <1>9, <2>1, SubSeqEmpty DEF Parent
    <3> QED
      BY <3>1
  <2>2. CASE n # 1
    <3> DEFINE p == SubSeq(a, 1, n - 1)
               q == SubSeq(b, 1, n - 1)
    <3>1. n - 1 \in 1..n /\ n - 1 \in 1..Len(a) /\ n - 1 \in 1..Len(b) /\ n - 1 < n
      <4>1. n - 1 \in 1..n /\ n - 1 < n
        BY <1>6, <2>2
      <4> QED
        BY <1>5, <1>9, <4>1
    <3>2. /\ p \in PathTo(a) /\ Len(p) = n - 1
          /\ q \in PathTo(b) /\ Len(q) = n - 1
      BY <1>6, <1>9, <3>1, PrefixProperties
    <3>3. p \in PathTo(j) /\ q \in PathTo(i)
      BY <1>1, <1>5, <1>9, <3>2, PathToTransitive
    <3>4. p \in PathTo(i)
      BY <1>7, <3>1, <3>2, <3>3
    <3>5. p = q
      <4>1. Len(p) \in Nat /\ Len(p) <= Len(q) /\ Len(p) = Len(q)
        BY <1>6, <3>1, <3>2
      <4> HIDE DEF p, q
      <4> QED
        BY <1>1, <3>3, <3>4, <4>1, PathToOrdered
    <3> QED
      BY <1>5, <1>9, <3>5 DEF Parent
  <2> QED
    BY <2>1, <2>2
<1>11. a \in Siblings(b)
  BY <1>1, <1>5, <1>9, <1>10 DEF Siblings
<1> QED
  BY <1>5, <1>7, <1>9, <1>11

\* What the items of the path and beside it say when only i is selected.
LEMMA OnlyThisMarks ==
  ASSUME TypeOK, checkedChilds[Root] = "Inherit",
         NEW i \in Items, NEW path \in BOOLEAN, CheckOnlyThisElement(i, path)
  PROVE  /\ checkedSelf'[i] = "Checked" /\ checkedChilds'[i] = "Checked"
         /\ \A p \in Above(i) : checkedChilds'[p] = "Inherit"
         /\ \A p \in PathTo(i) \ {i} : checkedSelf'[p] = IF path THEN "Inherit" ELSE "Unchecked"
         /\ \A b \in PathTo(i) : \A a \in Siblings(b) :
              a # i => checkedSelf'[a] = "Unchecked" /\ checkedChilds'[a] = "Unchecked"
<1> DEFINE aside == UNION {Siblings(j) : j \in PathTo(i)}
<1>1. /\ received \subseteq Strings
      /\ DOMAIN checkedSelf = Paths \cup {Root} /\ DOMAIN checkedChilds = Paths \cup {Root}
  BY DEF TypeOK
<1>2. Items \subseteq Paths /\ PathTo(i) \subseteq Items /\ \A p \in Items : p # Root
  BY <1>1, ItemPaths
<1>3. aside \subseteq Items /\ PathTo(i) \cap aside = {}
  BY <1>1, PathNotAside DEF Siblings
<1>4. /\ checkedSelf' = [j \in Paths \cup {Root} |->
           IF j = i THEN "Checked"
           ELSE IF j \in aside THEN "Unchecked"
           ELSE IF j \in PathTo(i) THEN IF path THEN "Inherit" ELSE "Unchecked"
           ELSE checkedSelf[j]]
      /\ checkedChilds' = [j \in Paths \cup {Root} |->
           IF j = i THEN "Checked"
           ELSE IF j \in aside THEN "Unchecked"
           ELSE IF j \in PathTo(i) THEN "Inherit"
           ELSE checkedChilds[j]]
  BY <1>1 DEF CheckOnlyThisElement
<1>5. \A b \in PathTo(i) : \A a \in Siblings(b) : a \in aside
  OBVIOUS
<1> HIDE DEF aside
<1>6. \A p \in Above(i) : checkedChilds'[p] = "Inherit"
  <2>1. i # Root
    BY <1>2
  <2> QED
    BY <1>2, <1>3, <1>4, <2>1 DEF Above
<1>7. \A p \in PathTo(i) \ {i} : checkedSelf'[p] = IF path THEN "Inherit" ELSE "Unchecked"
  BY <1>2, <1>3, <1>4
<1>8. \A a \in aside : a # i => checkedSelf'[a] = "Unchecked" /\ checkedChilds'[a] = "Unchecked"
  BY <1>2, <1>3, <1>4
<1> QED
  BY <1>2, <1>4, <1>5, <1>6, <1>7, <1>8

\* Which items are selected then.
LEMMA OnlyThisStaysSelected ==
  ASSUME TypeOK, checkedChilds[Root] = "Inherit",
         NEW i \in Items, NEW path \in BOOLEAN, CheckOnlyThisElement(i, path)
  PROVE  {j \in Items : IsChecked(j)'} = {i} \cup Below(i) \cup (IF path THEN PathTo(i) ELSE {})
<1>1. /\ received \subseteq Strings /\ i \in Seq(Nat) /\ i \in PathTo(i) /\ PathTo(i) \subseteq Items
  BY ItemPaths DEF TypeOK
<1>2. /\ checkedSelf'[i] = "Checked" /\ checkedChilds'[i] = "Checked"
      /\ \A p \in Above(i) : checkedChilds'[p] = "Inherit"
      /\ \A p \in PathTo(i) \ {i} : checkedSelf'[p] = IF path THEN "Inherit" ELSE "Unchecked"
      /\ \A b \in PathTo(i) : \A a \in Siblings(b) :
           a # i => checkedSelf'[a] = "Unchecked" /\ checkedChilds'[a] = "Unchecked"
  BY OnlyThisMarks
<1>3. IsChecked(i)'
  BY <1>2 DEF IsChecked, Forced, Forcing
<1>4. ASSUME NEW j \in PathTo(i) \ {i} PROVE IsChecked(j)' <=> path
  <2>1. \A p \in Above(j) : p \in Above(i)
    BY <1>1, AboveTransitive DEF Above
  <2> QED
    BY <1>2, <2>1 DEF IsChecked, Forced, Forcing
<1>5. ASSUME NEW j \in Below(i) PROVE IsChecked(j)'
  <2>1. i \in Above(j) /\ j \in Items
    BY DEF Below, Above
  <2>2. i \in {p \in Above(j) : checkedChilds'[p] # "Inherit"}
    BY <1>2, <2>1
  <2>3. ASSUME NEW q \in Above(j), checkedChilds'[q] # "Inherit"
        PROVE  Len(i) <= Len(q)
    <3>1. q = i \/ q \in Below(i)
      BY <1>1, <1>2, <2>3, AboveSplit
    <3>2. CASE q = i
      BY <1>1, <3>2, LenProperties
    <3>3. CASE q \in Below(i)
      <4>1. i \in PathTo(q) /\ q \in Seq(Nat)
        BY <1>1, <3>3, ItemPaths DEF Below
      <4> QED
        BY <4>1, PathToMember
    <3> QED
      BY <3>1, <3>2, <3>3
  <2> QED
    BY <1>2, <2>2, <2>3 DEF IsChecked, Forced, Forcing
<1>6. ASSUME NEW j \in Items, j \notin PathTo(i), j \notin Below(i) PROVE ~IsChecked(j)'
  <2>1. PICK a \in PathTo(j) :
            /\ a \notin PathTo(i)
            /\ \E b \in PathTo(i) : a \in Siblings(b)
            /\ \A p \in PathTo(j) : Len(p) < Len(a) => p \in PathTo(i) \ {i}
    BY <1>1, <1>6, LeavesAside
  <2>2. j \in Seq(Nat) /\ j \in PathTo(j) /\ a # i
    BY <1>1, <2>1, ItemPaths
  <2>3. checkedSelf'[a] = "Unchecked" /\ checkedChilds'[a] = "Unchecked"
    BY <1>2, <2>1, <2>2
  <2>4. ASSUME NEW p \in Above(j), checkedChilds'[p] # "Inherit"
        PROVE  p \in PathTo(j) /\ Len(a) <= Len(p)
    <3>1. p # Root
      BY <1>2, <2>4 DEF Above
    <3>2. p \in PathTo(j)
      BY <2>4, <3>1 DEF Above
    <3>3. ~(Len(p) < Len(a))
      BY <1>2, <2>1, <2>4, <3>2 DEF Above
    <3>4. Len(p) \in Nat /\ Len(a) \in Nat
      BY <2>1, <2>2, <3>2, PathToMember
    <3> QED
      BY <3>2, <3>3, <3>4
  <2>5. CASE a = j
    <3>1. \A p \in Above(j) : checkedChilds'[p] = "Inherit"
      <4> SUFFICES ASSUME NEW p \in Above(j), checkedChilds'[p] # "Inherit" PROVE FALSE
        OBVIOUS
      <4>1. p \in PathTo(j) /\ Len(j) <= Len(p) /\ p # Root
        BY <1>2, <2>4, <2>5 DEF Above
      <4>2. p = j
        BY <2>2, <4>1, PathToMember, PathToOrdered
      <4> QED
        BY <4>1, <4>2 DEF Above
    <3> QED
      BY <2>3, <2>5, <3>1 DEF IsChecked, Forced, Forcing
  <2>6. CASE a # j
    <3>1. a \in Above(j)
      BY <2>1, <2>6 DEF Above
    <3>2. ASSUME NEW p \in Above(j), checkedChilds'[p] # "Inherit", Len(p) <= Len(a)
          PROVE  p = a
      <4>1. p \in PathTo(j) /\ Len(a) <= Len(p) /\ Len(p) \in Nat /\ Len(a) \in Nat
        BY <2>1, <2>2, <2>4, <3>2, PathToMember
      <4> QED
        BY <2>1, <2>2, <3>2, <4>1, PathToOrdered
    <3> QED
      BY <2>3, <3>1, <3>2 DEF IsChecked, Forced, Forcing
  <2> QED
    BY <2>5, <2>6
<1>7. Below(i) \subseteq Items
  BY DEF Below
<1>8. ASSUME NEW j \in Items
      PROVE  IsChecked(j)' <=> j \in {i} \cup Below(i) \cup (IF path THEN PathTo(i) ELSE {})
  <2>1. CASE j = i
    BY <1>3, <2>1
  <2>2. CASE j \in PathTo(i) \ {i}
    <3>1. j \notin Below(i)
      <4> SUFFICES ASSUME i \in PathTo(j) PROVE FALSE
        BY DEF Below
      <4>1. Len(i) \in Nat /\ Len(j) \in Nat /\ Len(i) <= Len(j) /\ Len(j) <= Len(i)
        <5>1. j \in Seq(Nat)
          BY <1>1, <2>2, PathToMember
        <5> QED
          BY <1>1, <2>2, <5>1, PathToMember
      <4> QED
        BY <1>1, <2>2, <4>1, PathToOrdered
    <3> QED
      BY <1>4, <2>2, <3>1
  <2>3. CASE j \in Below(i)
    BY <1>5, <2>3
  <2>4. CASE j \notin PathTo(i) /\ j \notin Below(i)
    BY <1>1, <1>6, <2>4
  <2> QED
    BY <2>1, <2>2, <2>3, <2>4
<1> QED
  BY <1>1, <1>7, <1>8
-----------------------------------------------------------------------------
(***************************************************************************)
(* The rows of the view.                                                   *)
(***************************************************************************)

Part(i) == i[Len(i)]

\* The siblings in front of an item.
Before(i) == {j \in Siblings(i) : Part(j) < Part(i)}

LEMMA RowType ==
  ASSUME IsFiniteSet(Items), NEW i
  PROVE  /\ IsFiniteSet(Before(i)) /\ Cardinality(Before(i)) \in Nat
         /\ Row(i) = 1 + Cardinality(Before(i)) /\ Row(i) \in Nat \ {0}
<1>1. Before(i) \in SUBSET Items
  BY DEF Before, Siblings
<1>2. IsFiniteSet(Before(i)) /\ Cardinality(Before(i)) \in Nat
  BY <1>1, FS_Subset, FS_CardinalityType
<1>3. Row(i) = 1 + Cardinality(Before(i))
  BY DEF Row, Before, Part
<1> QED
  BY <1>2, <1>3

\* An item that is not in the first row has one in the row before it.
LEMMA RowBefore ==
  ASSUME received \subseteq Strings, IsFiniteSet(Items), NEW i \in Items, Row(i) # 1
  PROVE  \E p \in Before(i) : Row(p) = Row(i) - 1
<1>1. \A j \in Items : j \in Seq(Nat) /\ j # Root /\ Part(j) \in Nat
  BY ItemPaths, ParentProperties DEF Part
<1>2. /\ IsFiniteSet(Before(i)) /\ Cardinality(Before(i)) \in Nat
      /\ Row(i) = 1 + Cardinality(Before(i))
  BY RowType
<1>3. Before(i) # {} /\ Before(i) \subseteq Items
  BY <1>2, FS_EmptySet DEF Before, Siblings
<1> DEFINE gaps == {Part(i) - Part(j) : j \in Before(i)}
<1>4. gaps \in SUBSET Nat /\ gaps # {}
  BY <1>1, <1>3 DEF Before
<1>5. PICK n \in gaps : \A m \in gaps : n <= m
  BY <1>4, LeastNatural
<1>6. PICK p \in Before(i) : n = Part(i) - Part(p)
  OBVIOUS
<1>7. p \in Items /\ p # i /\ Parent(p) = Parent(i) /\ Part(p) < Part(i)
  BY <1>6 DEF Before, Siblings
<1>8. ASSUME NEW j \in Before(i), j # p PROVE Part(j) < Part(p)
  <2>1. Part(i) - Part(p) <= Part(i) - Part(j)
    BY <1>5, <1>6
  <2>2. j \in Items /\ Parent(j) = Parent(p)
    BY <1>7 DEF Before, Siblings
  <2>3. Part(j) # Part(p)
    BY <1>1, <1>7, <1>8, <2>2, ParentAndPart DEF Part
  <2> QED
    BY <1>1, <1>7, <2>1, <2>2, <2>3
<1>9. Before(p) \subseteq Before(i) \ {p}
  <2> SUFFICES ASSUME NEW j \in Before(p) PROVE j \in Before(i) \ {p}
    OBVIOUS
  <2>1. j \in Items /\ j # p /\ Parent(j) = Parent(p) /\ Part(j) < Part(p)
    BY DEF Before, Siblings
  <2>2. Part(j) < Part(i) /\ j # i
    BY <1>1, <1>7, <2>1
  <2> QED
    BY <1>7, <2>1, <2>2 DEF Before, Siblings
<1>10. Before(i) \ {p} \subseteq Before(p)
  <2> SUFFICES ASSUME NEW j \in Before(i) \ {p} PROVE j \in Before(p)
    OBVIOUS
  <2>1. j \in Items /\ Parent(j) = Parent(p) /\ Part(j) < Part(p)
    BY <1>7, <1>8 DEF Before, Siblings
  <2> QED
    BY <2>1 DEF Before, Siblings
<1>11. Before(p) = Before(i) \ {p}
  BY <1>9, <1>10
<1>12. Cardinality(Before(p)) = Cardinality(Before(i)) - 1
  BY <1>2, <1>6, <1>11, FS_RemoveElement
<1>13. Row(p) = 1 + Cardinality(Before(p))
  BY RowType
<1>14. Row(p) = Row(i) - 1
  BY <1>2, <1>12, <1>13
<1> QED
  BY <1>6, <1>14

\* The rows of the children of an item have no gaps.
LEMMA RowsWithoutGaps ==
  ASSUME received \subseteq Strings, IsFiniteSet(Items),
         NEW i \in Items, NEW row \in Nat \ {0}, row <= Row(i)
  PROVE  \E j \in Items : Parent(j) = Parent(i) /\ Row(j) = row
<1>1. \A j \in Items : Part(j) \in Nat /\ Row(j) \in Nat \ {0}
  BY ItemPaths, ParentProperties, RowType DEF Part
<1> DEFINE far == {j \in Items : Parent(j) = Parent(i) /\ row <= Row(j)}
           parts == {Part(j) : j \in far}
<1>2. parts \in SUBSET Nat /\ parts # {}
  BY <1>1
<1>3. PICK n \in parts : \A m \in parts : n <= m
  BY <1>2, LeastNatural
<1>4. PICK j \in far : n = Part(j)
  OBVIOUS
<1>5. Row(j) = row
  <2> SUFFICES ASSUME Row(j) # row PROVE FALSE
    OBVIOUS
  <2>1. Row(j) # 1 /\ row <= Row(j) - 1
    BY <1>1, <1>4
  <2>2. PICK p \in Before(j) : Row(p) = Row(j) - 1
    BY <1>4, <2>1, RowBefore
  <2>3. p \in far /\ Part(p) < Part(j)
    BY <1>4, <2>1, <2>2 DEF Before, Siblings
  <2>4. Part(p) \in Nat /\ Part(j) \in Nat /\ Part(j) <= Part(p)
    BY <1>1, <1>3, <1>4, <2>3
  <2> QED
    BY <2>3, <2>4
<1> QED
  BY <1>4, <1>5

-----------------------------------------------------------------------------
(***************************************************************************)
(* The invariant, and the steps.                                           *)
(***************************************************************************)

\* The root inherits: no item forces all the others.
RootInherits == checkedChilds[Root] = "Inherit"

\* The row an open menu stands on is not behind the last one.
MenuRowTaken ==
  menu # NoMenu =>
    /\ menu.row \in Nat \ {0}
    /\ \E i \in Items : Parent(i) = menu.parent /\ menu.row <= Row(i)

\* The inductive invariant.
TreeInv == TypeOK /\ IsFiniteSet(Items) /\ RootInherits /\ MenuRowTaken /\ FilterMatchesTree

\* Whatever the program has read while the menu was open, there is an item for it.
MenuActsOnItem ==
  menu # NoMenu =>
    ItemAt(menu) \in Items /\ Parent(ItemAt(menu)) = menu.parent /\ Row(ItemAt(menu)) = menu.row

LEMMA MenuIndexIsValid ==
  ASSUME TreeInv
  PROVE  MenuActsOnItem
<1> SUFFICES ASSUME menu # NoMenu
             PROVE  \E j \in Items : Parent(j) = menu.parent /\ Row(j) = menu.row
  BY DEF MenuActsOnItem, ItemAt
<1>1. PICK i \in Items : Parent(i) = menu.parent /\ menu.row <= Row(i)
  BY DEF TreeInv, MenuRowTaken
<1>2. menu.row \in Nat \ {0} /\ received \subseteq Strings /\ IsFiniteSet(Items)
  BY DEF TreeInv, MenuRowTaken, TypeOK
<1>3. \E j \in Items : Parent(j) = Parent(i) /\ Row(j) = menu.row
  BY <1>1, <1>2, RowsWithoutGaps
<1> QED
  BY <1>1, <1>3

\* updateFilters leaves the strings that are deselected now, if none was lost.
LEMMA UpdateFiltersMatches ==
  ASSUME removeStrings \subseteq received', UpdateFilters
  PROVE  FilterMatchesTree' /\ (removeStrings \subseteq received)'
BY DEF UpdateFilters, FilterMatchesTree, Deselected

\* A path has finitely many items.
LEMMA PathIsFinite ==
  ASSUME NEW s \in Seq(Nat)
  PROVE  IsFiniteSet(PathTo(s))
<1> DEFINE f == [n \in 1..Len(s) |-> SubSeq(s, 1, n)]
<1>1. Len(s) \in Nat
  BY LenProperties
<1>2. f \in Surjection(1..Len(s), PathTo(s))
  BY DEF PathTo, Surjection
<1>3. IsFiniteSet(1..Len(s))
  BY <1>1, FS_Interval
<1> QED
  BY <1>2, <1>3, FS_Surjection

LEMMA NewStringElementStep ==
  ASSUME TreeInv, NEW s, NewStringElement(s)
  PROVE  TreeInv'
<1>1. /\ s \in Strings /\ s \in Seq(Nat) /\ received' = received \cup {s}
      /\ received \subseteq Strings /\ received' \subseteq Strings
      /\ UNCHANGED <<checkedSelf, checkedChilds, menu>> /\ UpdateFilters
  BY StringsAssumption DEF NewStringElement, TreeInv, TypeOK, treeVars
<1>2. Items' = Items \cup PathTo(s)
  BY <1>1 DEF Items
<1>3. IsFiniteSet(Items')
  BY <1>1, <1>2, PathIsFinite, FS_Union DEF TreeInv
<1>4. FilterMatchesTree' /\ (removeStrings \subseteq received)'
  BY <1>1, UpdateFiltersMatches DEF TreeInv, TypeOK
<1>5. TypeOK'
  BY <1>1, <1>2, <1>4 DEF TreeInv, TypeOK
<1>6. MenuRowTaken'
  <2> SUFFICES ASSUME menu # NoMenu PROVE MenuRowTaken'
    BY <1>1 DEF MenuRowTaken
  <2>1. menu.row \in Nat \ {0}
    BY DEF TreeInv, MenuRowTaken
  <2>2. PICK i \in Items : Parent(i) = menu.parent /\ menu.row <= Row(i)
    BY DEF TreeInv, MenuRowTaken
  <2>3. Before(i) \subseteq Before(i)'
    BY <1>2 DEF Before, Siblings
  <2>4. /\ IsFiniteSet(Before(i)) /\ Cardinality(Before(i)) \in Nat
        /\ Row(i) = 1 + Cardinality(Before(i))
    BY RowType DEF TreeInv
  <2>5. (/\ IsFiniteSet(Before(i)) /\ Cardinality(Before(i)) \in Nat
         /\ Row(i) = 1 + Cardinality(Before(i)))'
    <3>1. Before(i)' \in SUBSET Items'
      BY DEF Before, Siblings
    <3>2. IsFiniteSet(Before(i)') /\ Cardinality(Before(i)') \in Nat
      BY <1>3, <3>1, FS_Subset, FS_CardinalityType
    <3>3. Row(i)' = 1 + Cardinality(Before(i)')
      BY DEF Row, Before, Part
    <3> QED
      BY <3>2, <3>3
  <2>6. Cardinality(Before(i)) <= Cardinality(Before(i)')
    BY <2>3, <2>5, FS_Subset
  <2>7. menu.row <= Row(i)'
    BY <2>1, <2>2, <2>4, <2>5, <2>6
  <2> QED
    BY <1>1, <1>2, <2>1, <2>2, <2>7 DEF MenuRowTaken
<1> QED
  BY <1>1, <1>3, <1>4, <1>5, <1>6 DEF TreeInv, RootInherits

\* A change of the check marks, up to updateFilters.
LEMMA MarksStep ==
  ASSUME TreeInv, received' = received, menu' = menu \/ menu' = NoMenu, UpdateFilters,
         checkedSelf' \in [Paths \cup {Root} -> Check],
         checkedChilds' \in [Paths \cup {Root} -> Check], RootInherits'
  PROVE  TreeInv'
<1>1. Items' = Items /\ \A i : Row(i)' = Row(i)
  BY DEF Items, Row, Siblings
<1>2. FilterMatchesTree' /\ (removeStrings \subseteq received)'
  BY UpdateFiltersMatches DEF TreeInv, TypeOK
<1>3. menu' \in [parent : Items \cup {Root}, row : Nat]
  BY DEF TreeInv, TypeOK, NoMenu
<1>4. TypeOK'
  BY <1>1, <1>2, <1>3 DEF TreeInv, TypeOK
<1>5. MenuRowTaken'
  BY <1>1 DEF TreeInv, MenuRowTaken
<1> QED
  BY <1>1, <1>2, <1>4, <1>5 DEF TreeInv

\* The operations on an item leave check marks everywhere, and the root alone.
LEMMA MarksType ==
  ASSUME TreeInv, NEW i \in Items,
         \/ NextChecked(i) \/ SelectThis(i) \/ DeselectThis(i)
         \/ SelectOnlyThisWithPath(i) \/ SelectOnlyThisWithoutPath(i)
         \/ ResetAll \/ CheckTree(i) \/ UncheckTree(i)
  PROVE  /\ checkedSelf' \in [Paths \cup {Root} -> Check]
         /\ checkedChilds' \in [Paths \cup {Root} -> Check]
         /\ RootInherits'
<1>1. /\ checkedSelf \in [Paths \cup {Root} -> Check]
      /\ checkedChilds \in [Paths \cup {Root} -> Check]
      /\ checkedChilds[Root] = "Inherit" /\ received \subseteq Strings
      /\ {"Inherit", "Checked", "Unchecked"} = Check
  BY DEF TreeInv, TypeOK, RootInherits, Check
<1>2. Items \subseteq Paths /\ i # Root /\ Root \notin {i} \cup Below(i)
  BY <1>1, ItemPaths DEF Below
<1>3. CASE NextChecked(i)
  <2>1. CASE Forced(i)
    BY <1>1, <1>3, <2>1 DEF NextChecked, treeVars, RootInherits
  <2>2. CASE ~Forced(i)
    <3>1. PICK next \in Check : /\ checkedSelf' = [checkedSelf EXCEPT ![i] = next]
                                /\ checkedChilds' = [checkedChilds EXCEPT ![i] = next]
      BY <1>1, <1>3, <2>2 DEF NextChecked
    <3> QED
      BY <1>1, <1>2, <3>1 DEF RootInherits
  <2> QED
    BY <2>1, <2>2
<1>4. CASE SelectThis(i) \/ DeselectThis(i)
  BY <1>1, <1>4 DEF SelectThis, DeselectThis, SetCheckedSelf, RootInherits
<1>5. CASE SelectOnlyThisWithPath(i) \/ SelectOnlyThisWithoutPath(i)
  <2>1. PICK path \in BOOLEAN : CheckOnlyThisElement(i, path)
    BY <1>5 DEF SelectOnlyThisWithPath, SelectOnlyThisWithoutPath
  <2>2. RootInherits'
    BY <1>1, <2>1, OnlyThisMarks DEF TreeInv, RootInherits, Above
  <2>3. checkedSelf' \in [Paths \cup {Root} -> Check]
    BY <1>1, <2>1 DEF CheckOnlyThisElement
  <2>4. checkedChilds' \in [Paths \cup {Root} -> Check]
    BY <1>1, <2>1 DEF CheckOnlyThisElement
  <2> QED
    BY <2>2, <2>3, <2>4
<1>6. CASE ResetAll
  BY <1>1, <1>6 DEF ResetAll, RootInherits
<1>7. CASE CheckTree(i) \/ UncheckTree(i)
  <2>1. PICK self \in Check : RecursiveSetTree(i, self, "Inherit")
    BY <1>1, <1>7 DEF CheckTree, UncheckTree
  <2> QED
    BY <1>1, <1>2, <2>1 DEF RecursiveSetTree, RootInherits
<1> QED
  BY <1>3, <1>4, <1>5, <1>6, <1>7

LEMMA ToggleStep ==
  ASSUME TreeInv, NEW i \in Items, Toggle(i)
  PROVE  TreeInv'
BY MarksType, MarksStep DEF Toggle

LEMMA ContextMenuPopupStep ==
  ASSUME TreeInv, ContextMenuPopup
  PROVE  TreeInv'
<1> DEFINE i == ItemAt(menu)
<1>1. i \in Items
  BY MenuIndexIsValid DEF ContextMenuPopup, MenuActsOnItem
<1>2. \/ SelectThis(i) \/ DeselectThis(i)
      \/ SelectOnlyThisWithPath(i) \/ SelectOnlyThisWithoutPath(i)
      \/ ResetAll \/ CheckTree(i) \/ UncheckTree(i)
  BY DEF ContextMenuPopup
<1> HIDE DEF i
<1> QED
  BY <1>1, <1>2, MarksType, MarksStep DEF ContextMenuPopup

\* A menu opens on an item that is there, and closes.
LEMMA MenuStep ==
  ASSUME TreeInv,
         CloseMenu \/ \E i \in Items : OpenMenu(i)
  PROVE  TreeInv'
<1>1. UNCHANGED <<received, checkedSelf, checkedChilds, removeStrings>>
  BY DEF CloseMenu, OpenMenu, treeVars
<1>2. Items' = Items /\ \A i : Row(i)' = Row(i)
  BY <1>1 DEF Items, Row, Siblings
<1>3. FilterMatchesTree' /\ RootInherits'
  BY <1>1 DEF TreeInv, FilterMatchesTree, RootInherits, Deselected, IsChecked, Forced, Forcing
<1>4. menu' \in [parent : Items \cup {Root}, row : Nat] /\ MenuRowTaken'
  <2>1. CASE CloseMenu
    BY <2>1 DEF CloseMenu, NoMenu, MenuRowTaken
  <2>2. ASSUME NEW i \in Items, OpenMenu(i)
        PROVE  menu' \in [parent : Items \cup {Root}, row : Nat] /\ MenuRowTaken'
    <3>1. menu' = [parent |-> Parent(i), row |-> Row(i)]
      BY <2>2 DEF OpenMenu
    <3>2. Row(i) \in Nat \ {0} /\ Row(i) <= Row(i)
      BY RowType DEF TreeInv
    <3>3. Parent(i) \in Items \cup {Root}
      <4>1. i \in Seq(Nat) /\ i # Root /\ PathTo(i) \subseteq Items
        BY ItemPaths DEF TreeInv, TypeOK
      <4>2. Len(i) \in Nat \ {0}
        BY <4>1, ParentProperties
      <4>3. CASE Len(i) = 1
        BY <4>3, SubSeqEmpty DEF Parent, Root
      <4>4. CASE Len(i) # 1
        <5>1. Len(i) - 1 \in 1..Len(i)
          BY <4>2, <4>4
        <5> QED
          BY <4>1, <5>1 DEF Parent, PathTo
      <4> QED
        BY <4>3, <4>4
    <3> QED
      BY <1>2, <3>1, <3>2, <3>3 DEF MenuRowTaken
  <2> QED
    BY <2>1, <2>2
<1>5. TypeOK'
  BY <1>1, <1>2, <1>4 DEF TreeInv, TypeOK
<1> QED
  BY <1>2, <1>3, <1>4, <1>5 DEF TreeInv

LEMMA StutterStep ==
  ASSUME TreeInv, UNCHANGED vars
  PROVE  TreeInv'
<1>1. UNCHANGED <<received, checkedSelf, checkedChilds, removeStrings, menu>>
  BY DEF vars, treeVars
<1>2. Items' = Items /\ \A i : Row(i)' = Row(i)
  BY <1>1 DEF Items, Row, Siblings
<1>3. FilterMatchesTree' /\ RootInherits'
  BY <1>1 DEF TreeInv, FilterMatchesTree, RootInherits, Deselected, IsChecked, Forced, Forcing
<1> QED
  BY <1>1, <1>2, <1>3 DEF TreeInv, TypeOK, MenuRowTaken

LEMMA EmptyTree == Init => TreeInv
<1> SUFFICES ASSUME Init PROVE TreeInv
  OBVIOUS
<1> USE DEF Init
<1>1. Items = {} /\ IsFiniteSet({})
  BY FS_EmptySet DEF Items
<1>2. TypeOK
  BY DEF TypeOK, Check, NoMenu
<1>3. FilterMatchesTree
  BY DEF FilterMatchesTree, Deselected
<1> QED
  BY <1>1, <1>2, <1>3 DEF TreeInv, RootInherits, MenuRowTaken

-----------------------------------------------------------------------------
(***************************************************************************)
(* The theorems about the tree.                                            *)
(***************************************************************************)

LEMMA Invariance == Spec => []TreeInv
<1>1. TreeInv /\ [Next]_vars => TreeInv'
  BY NewStringElementStep, ToggleStep, ContextMenuPopupStep, MenuStep, StutterStep DEF Next
<1> QED
  BY <1>1, EmptyTree, PTL DEF Spec

\* The filter refuses exactly the strings whose items are deselected.
THEOREM FilterIsTheTree == Spec => []FilterMatchesTree
BY Invariance, PTL DEF TreeInv

\* Where children inherit, a partial check mark says that an item below is deselected.
THEOREM CheckMarksAreTrue == Spec => []PartialTellsTruth
<1>1. TreeInv => PartialTellsTruth
  BY PartialIsTrue DEF TreeInv
<1> QED
  BY <1>1, Invariance, PTL

\* "Select only this" leaves the item, what is below it, and the path if it is asked for.
THEOREM OnlyThis == Spec => OnlyThisIsSelected
<1>1. TreeInv => \A i \in Items, path \in BOOLEAN :
        CheckOnlyThisElement(i, path) =>
          {j \in Items : IsChecked(j)'} =
            {i} \cup Below(i) \cup (IF path THEN PathTo(i) ELSE {})
  BY OnlyThisStaysSelected DEF TreeInv, RootInherits
<1> QED
  BY <1>1, Invariance, PTL DEF OnlyThisIsSelected

\* The index an open context menu holds names an item, however many strings have come
\* to the tree since: not always the one that was clicked on.
THEOREM MenuHasItem == Spec => []MenuActsOnItem
<1>1. TreeInv => MenuActsOnItem
  BY MenuIndexIsValid
<1> QED
  BY <1>1, Invariance, PTL

-----------------------------------------------------------------------------
(***************************************************************************)
(* The events between the thread of the source and the window.             *)
(***************************************************************************)

Events ==
  [kind : {"newElement"}, object : Objects] \cup [kind : {"newEntry"}, objects : SUBSET Objects]

\* The list knows o, or is told of it by one of the first n events of q.
Told(o, q, n, k) == o \in k \/ \E j \in 1..n : q[j] = Element(o)

\* The list is told of everything in the cache c, and of every object before its row comes.
ToldInTime(q, k, c) ==
  /\ \A o \in c : Told(o, q, Len(q), k)
  /\ \A i \in 1..Len(q) : q[i].kind = "newEntry" => \A o \in q[i].objects : Told(o, q, i - 1, k)

\* The order of the events.
Order ==
  /\ posted \in Seq(Events)
  /\ message \subseteq cache
  /\ table \subseteq known
  /\ \A o \in known : o.text \in received
  /\ window \in {"open", "closed"}
  /\ window = "open" => ToldInTime(posted, known, cache)
  /\ window = "closed" => posted = <<>>

\* The inductive invariant.
FeedInv == TreeInv /\ FeedTypeOK /\ Order /\ SelectionDecidesRows

-----------------------------------------------------------------------------
(***************************************************************************)
(* The queue of the GUI thread.                                            *)
(***************************************************************************)

LEMMA EventProperties ==
  /\ \A o \in Objects : Element(o) \in Events /\ Element(o).kind = "newElement"
  /\ \A objects \in SUBSET Objects :
       /\ Entries(objects) \in Events
       /\ Entries(objects).kind = "newEntry" /\ Entries(objects).objects = objects
  /\ \A e \in Events : \/ e.kind = "newElement" /\ e.object \in Objects /\ e = Element(e.object)
                       \/ e.kind = "newEntry" /\ e.objects \in SUBSET Objects
  /\ \A o, p : Element(o) = Element(p) => o = p
<1>1. \A o, p : Element(o) = Element(p) => o = p
  <2> SUFFICES ASSUME NEW o, NEW p, Element(o) = Element(p) PROVE o = p
    OBVIOUS
  <2>1. Element(o).object = o /\ Element(p).object = p
    BY DEF Element
  <2> QED
    BY <2>1
<1>2. \A e \in Events : \/ e.kind = "newElement" /\ e.object \in Objects /\ e = Element(e.object)
                        \/ e.kind = "newEntry" /\ e.objects \in SUBSET Objects
  BY DEF Events, Element
<1> QED
  BY <1>1, <1>2 DEF Events, Element, Entries

\* Behind a queue that tells in time comes an element, or entries of the cache.
LEMMA ToldAppend ==
  ASSUME NEW q \in Seq(Events), NEW k, NEW c, ToldInTime(q, k, c), NEW e \in Events,
         e.kind = "newEntry" => e.objects \subseteq c,
         NEW d, \A o \in d : o \in c \/ e = Element(o)
  PROVE  Append(q, e) \in Seq(Events) /\ ToldInTime(Append(q, e), k, d)
<1> DEFINE r == Append(q, e)
<1>1. Len(q) \in Nat
  BY LenProperties
<1>2. /\ r \in Seq(Events) /\ Len(r) = Len(q) + 1
      /\ r[Len(q) + 1] = e /\ \A j \in 1..Len(q) : r[j] = q[j]
  BY AppendProperties
<1> HIDE DEF r
<1>3. ASSUME NEW o, NEW n \in 0..Len(q), Told(o, q, n, k)
      PROVE  Told(o, r, n, k) /\ Told(o, r, Len(q), k) /\ Told(o, r, Len(r), k)
  <2>1. CASE o \in k
    BY <2>1 DEF Told
  <2>2. ASSUME NEW j \in 1..n, q[j] = Element(o)
        PROVE  Told(o, r, n, k) /\ Told(o, r, Len(q), k) /\ Told(o, r, Len(r), k)
    <3>1. j \in 1..Len(q) /\ j \in 1..Len(r)
      BY <1>1, <1>2
    <3> QED
      BY <1>2, <2>2, <3>1 DEF Told
  <2> QED
    BY <1>3, <2>1, <2>2 DEF Told
<1>4. Len(q) \in 0..Len(q) /\ \A o \in c : Told(o, q, Len(q), k)
  BY <1>1 DEF ToldInTime
<1>5. \A o \in d : Told(o, r, Len(r), k)
  <2> SUFFICES ASSUME NEW o \in d PROVE Told(o, r, Len(r), k)
    OBVIOUS
  <2>1. CASE o \in c
    BY <1>3, <1>4, <2>1
  <2>2. CASE e = Element(o)
    <3>1. Len(r) \in 1..Len(r) /\ r[Len(r)] = Element(o)
      BY <1>1, <1>2, <2>2
    <3> QED
      BY <3>1 DEF Told
  <2> QED
    BY <2>1, <2>2
<1>6. ASSUME NEW i \in 1..Len(r), r[i].kind = "newEntry", NEW o \in r[i].objects
      PROVE  Told(o, r, i - 1, k)
  <2>1. CASE i \in 1..Len(q)
    <3>1. i - 1 \in 0..Len(q) /\ Told(o, q, i - 1, k)
      BY <1>1, <1>2, <1>6, <2>1 DEF ToldInTime
    <3> QED
      BY <1>3, <3>1
  <2>2. CASE i = Len(q) + 1
    <3>1. o \in c /\ i - 1 = Len(q)
      BY <1>1, <1>2, <1>6, <2>2
    <3> QED
      BY <1>3, <1>4, <3>1
  <2> QED
    BY <1>1, <1>2, <2>1, <2>2
<1> QED
  BY <1>2, <1>5, <1>6 DEF ToldInTime, r

\* The queue tells in time without its first event, when the list knows what that told.
LEMMA ToldTail ==
  ASSUME NEW q \in Seq(Events), q # <<>>, NEW k, NEW c, ToldInTime(q, k, c),
         NEW l, k \subseteq l, \A o : Head(q) = Element(o) => o \in l
  PROVE  Tail(q) \in Seq(Events) /\ ToldInTime(Tail(q), l, c)
<1> DEFINE r == Tail(q)
<1>1. Len(q) \in Nat \ {0} /\ q[1] = Head(q)
  BY EmptySeq
<1>2. /\ r \in Seq(Events) /\ Len(r) = Len(q) - 1
      /\ \A i \in 1..Len(r) : r[i] = q[i + 1]
  BY HeadTailProperties
<1> HIDE DEF r
<1>3. ASSUME NEW o, NEW n \in Nat, n + 1 <= Len(q), Told(o, q, n + 1, k)
      PROVE  Told(o, r, n, l)
  <2>1. CASE o \in k
    BY <2>1 DEF Told
  <2>2. ASSUME NEW j \in 1..(n + 1), q[j] = Element(o)
        PROVE  Told(o, r, n, l)
    <3>1. CASE j = 1
      BY <1>1, <2>2, <3>1 DEF Told
    <3>2. CASE j # 1
      <4>1. j - 1 \in 1..n /\ j - 1 \in 1..Len(r) /\ (j - 1) + 1 = j
        BY <1>1, <1>2, <1>3, <3>2
      <4>2. r[j - 1] = Element(o)
        BY <1>2, <2>2, <4>1
      <4> QED
        BY <4>1, <4>2 DEF Told
    <3> QED
      BY <3>1, <3>2
  <2> QED
    BY <1>3, <2>1, <2>2 DEF Told
<1>4. \A o \in c : Told(o, r, Len(r), l)
  <2>1. Len(r) \in Nat /\ Len(r) + 1 = Len(q) /\ Len(r) + 1 <= Len(q)
    BY <1>1, <1>2
  <2> QED
    BY <1>3, <2>1 DEF ToldInTime
<1>5. ASSUME NEW i \in 1..Len(r), r[i].kind = "newEntry", NEW o \in r[i].objects
      PROVE  Told(o, r, i - 1, l)
  <2>1. /\ i - 1 \in Nat /\ (i - 1) + 1 <= Len(q) /\ (i + 1) - 1 = (i - 1) + 1
        /\ i + 1 \in 1..Len(q)
    BY <1>1, <1>2
  <2>2. Told(o, q, (i + 1) - 1, k)
    BY <1>2, <1>5, <2>1 DEF ToldInTime
  <2> QED
    BY <1>3, <2>1, <2>2
<1> QED
  BY <1>2, <1>4, <1>5 DEF ToldInTime, r

\* The list knows the objects of an entry that is first in the queue.
LEMMA FirstEntryIsKnown ==
  ASSUME NEW q \in Seq(Events), q # <<>>, NEW k, NEW c, ToldInTime(q, k, c),
         Head(q).kind = "newEntry"
  PROVE  Head(q).objects \subseteq k
<1>1. Len(q) \in Nat \ {0} /\ q[1] = Head(q) /\ 1 \in 1..Len(q)
  BY EmptySeq
<1>2. \A o \in Head(q).objects : Told(o, q, 1 - 1, k)
  BY <1>1 DEF ToldInTime
<1>3. 1..(1 - 1) = {}
  OBVIOUS
<1> QED
  BY <1>2, <1>3 DEF Told
-----------------------------------------------------------------------------
(***************************************************************************)
(* The thread.                                                             *)
(***************************************************************************)

\* What the cache gives back is in it then, and the only object with its text.
LEMMA GetObjectProperties ==
  ASSUME FeedTypeOK, NEW text \in Strings,
         NEW got, got = GetObject(NewObject(text)),
         cache' = IF got.new THEN cache \cup {got.object} ELSE cache
  PROVE  /\ got.object \in Objects /\ got.object \in cache'
         /\ cache' \subseteq Objects
         /\ \A o, p \in cache' : o.text = p.text => o = p
<1>1. cache \subseteq Objects /\ \A o, p \in cache : o.text = p.text => o = p
  BY DEF FeedTypeOK
<1> DEFINE object == NewObject(text)
           same == {o \in cache : o.text = object.text}
<1>2. object \in Objects
  BY DEF NewObject, Objects
<1>3. CASE same = {}
  <2>1. got.new = TRUE /\ got.object = object
    BY <1>3 DEF GetObject
  <2> QED
    BY <1>1, <1>2, <1>3, <2>1
<1>4. CASE same # {}
  <2>1. got.new = FALSE /\ got.object \in same
    BY <1>4 DEF GetObject
  <2> QED
    BY <1>1, <2>1
<1> QED
  BY <1>3, <1>4

\* The events an entry sends are told in time.
LEMMA MakeEntryOrder ==
  ASSUME FeedInv, NEW text \in Strings, NEW isLast \in BOOLEAN, MakeEntry(text, isLast),
         UNCHANGED <<known, window>>
  PROVE  /\ posted' \in Seq(Events) /\ message' \subseteq cache' /\ cache' \subseteq Objects
         /\ \A o, p \in cache' : o.text = p.text => o = p
         /\ window = "open" => ToldInTime(posted', known, cache')
         /\ window = "closed" => posted' = <<>>
<1> DEFINE got == GetObject(NewObject(text))
           all == message \cup ({got.object} \ table)
           element == IF got.new THEN <<Element(got.object)>> ELSE <<>>
           entries == IF isLast /\ all # {} THEN <<Entries(all)>> ELSE <<>>
<1>1. /\ cache' = IF got.new THEN cache \cup {got.object} ELSE cache
      /\ message' = IF isLast THEN {} ELSE all
      /\ posted' = IF window = "open" THEN posted \o (element \o entries) ELSE posted
  BY DEF MakeEntry, Post, ElementFirst
<1>2. /\ got.object \in Objects /\ got.object \in cache' /\ cache' \subseteq Objects
      /\ \A o, p \in cache' : o.text = p.text => o = p
  BY <1>1, GetObjectProperties DEF FeedInv
<1>3. all \subseteq cache' /\ all \in SUBSET Objects
  BY <1>1, <1>2 DEF FeedInv, Order
<1>4. message' \subseteq cache'
  BY <1>1, <1>3
<1>5. CASE window = "open"
  <2>1. posted \in Seq(Events) /\ ToldInTime(posted, known, cache)
    BY <1>5 DEF FeedInv, Order
  <2>2. element \in Seq(Events) /\ entries \in Seq(Events)
    <3>1. Element(got.object) \in Events /\ Entries(all) \in Events
      BY <1>2, <1>3, EventProperties
    <3> DEFINE first == Element(got.object)
               second == Entries(all)
    <3> HIDE DEF got, all, first, second
    <3>2. first \in Events /\ second \in Events
      BY <3>1 DEF first, second
    <3>3. <<first>> \in Seq(Events) /\ <<second>> \in Seq(Events) /\ <<>> \in Seq(Events)
      BY <3>2
    <3> QED
      BY <3>3 DEF first, second
  <2>3. posted' = (posted \o element) \o entries
    <3>1. posted' = posted \o (element \o entries)
      BY <1>1, <1>5
    <3> HIDE DEF element, entries
    <3> QED
      BY <2>1, <2>2, <3>1, ConcatAssociative, SMTT(30)
  <2>4. posted \o element \in Seq(Events) /\ ToldInTime(posted \o element, known, cache')
    <3>1. CASE got.new
      <4>1. posted \o element = Append(posted, Element(got.object))
        BY <1>2, <2>1, <3>1, EventProperties, AppendIsConcat
      <4>2. \A o \in cache' : o \in cache \/ Element(got.object) = Element(o)
        BY <1>1, <3>1
      <4>3. /\ Element(got.object) \in Events
            /\ Element(got.object).kind = "newEntry" => Element(got.object).objects \subseteq cache
        BY <1>2, EventProperties
      <4> QED
        BY <2>1, <4>1, <4>2, <4>3, ToldAppend
    <3>2. CASE ~got.new
      BY <1>1, <2>1, <3>2, ConcatEmptySeq
    <3> QED
      BY <3>1, <3>2
  <2> DEFINE q == posted \o element
  <2>5. q \in Seq(Events) /\ ToldInTime(q, known, cache')
    BY <2>4
  <2>6. posted' = q \o entries
    BY <2>3
  <2> HIDE DEF q
  <2>7. CASE isLast /\ all # {}
    <3>1. /\ Entries(all) \in Events
          /\ Entries(all).kind = "newEntry" => Entries(all).objects \subseteq cache'
      BY <1>3, EventProperties
    <3>2. posted' = Append(q, Entries(all))
      BY <2>5, <2>6, <2>7, <3>1, AppendIsConcat
    <3>3. Append(q, Entries(all)) \in Seq(Events) /\ ToldInTime(Append(q, Entries(all)), known, cache')
      BY <2>5, <3>1, ToldAppend
    <3> QED
      BY <1>2, <1>4, <1>5, <3>2, <3>3
  <2>8. CASE ~(isLast /\ all # {})
    <3>1. posted' = q
      BY <2>5, <2>6, <2>8, ConcatEmptySeq
    <3> QED
      BY <1>2, <1>4, <1>5, <2>5, <3>1
  <2> QED
    BY <2>7, <2>8
<1>6. CASE window # "open"
  BY <1>1, <1>2, <1>4, <1>6 DEF FeedInv, Order
<1> QED
  BY <1>5, <1>6

\* While nothing changes in the tree and the rows, the right rows stay on show.
LEMMA RowsStay ==
  ASSUME FeedInv, UNCHANGED <<vars, known, table, shown>>
  PROVE  /\ TreeInv' /\ SelectionDecidesRows'
         /\ (table \subseteq known)' /\ (\A o \in known : o.text \in received)'
<1>1. UNCHANGED <<received, checkedSelf, checkedChilds>>
  BY DEF vars, treeVars
<1>2. \A i : IsChecked(i)' <=> IsChecked(i)
  BY <1>1 DEF IsChecked, Forced, Forcing
<1> QED
  BY <1>1, <1>2, StutterStep DEF FeedInv, SelectionDecidesRows, Order

LEMMA RunStep ==
  ASSUME FeedInv, Run
  PROVE  FeedInv'
<1>1. UNCHANGED <<vars, abort, window, held, known, table, shown, clicks>>
  BY DEF Run, rows
<1>2. /\ TreeInv' /\ SelectionDecidesRows'
      /\ (table \subseteq known)' /\ (\A o \in known : o.text \in received)'
  BY <1>1, RowsStay
<1>3. /\ pc' \in {"sleep", "count", "ended"} /\ count' \in Nat
      /\ message' \subseteq cache' /\ cache' \subseteq Objects
      /\ \A o, p \in cache' : o.text = p.text => o = p
      /\ posted' \in Seq(Events)
      /\ window = "open" => ToldInTime(posted', known, cache')
      /\ window = "closed" => posted' = <<>>
  <2>1. CASE Sleep
    BY <2>1 DEF Sleep, FeedInv, FeedTypeOK, Order
  <2>2. ASSUME NEW text \in Strings, CountDown(text) \/ LastEntry(text)
        PROVE  /\ pc' \in {"sleep", "count", "ended"} /\ count' \in Nat
               /\ message' \subseteq cache' /\ cache' \subseteq Objects
               /\ \A o, p \in cache' : o.text = p.text => o = p
               /\ posted' \in Seq(Events)
               /\ window = "open" => ToldInTime(posted', known, cache')
               /\ window = "closed" => posted' = <<>>
    <3>1. PICK isLast \in BOOLEAN : MakeEntry(text, isLast)
      BY <2>2 DEF CountDown, LastEntry
    <3>2. pc' \in {"sleep", "count", "ended"} /\ count' \in Nat
      <4>1. pc \in {"sleep", "count", "ended"} /\ count \in Nat
        BY DEF FeedInv, FeedTypeOK
      <4>2. CASE CountDown(text)
        <5>1. count # 0 /\ count' = count - 1 /\ pc' = pc
          BY <4>2 DEF CountDown
        <5> QED
          BY <4>1, <5>1
      <4>3. CASE LastEntry(text)
        BY <4>1, <4>3 DEF LastEntry
      <4> QED
        BY <2>2, <4>2, <4>3
    <3> QED
      BY <1>1, <3>1, <3>2, MakeEntryOrder
  <2> QED
    BY <2>1, <2>2 DEF Run
<1>4. FeedTypeOK'
  BY <1>1, <1>2, <1>3 DEF FeedInv, FeedTypeOK, TreeInv
<1>5. Order'
  BY <1>1, <1>2, <1>3 DEF FeedInv, Order
<1> QED
  BY <1>2, <1>4, <1>5 DEF FeedInv

-----------------------------------------------------------------------------
(***************************************************************************)
(* The GUI thread and the user.                                            *)
(***************************************************************************)

\* The proxy looks at every row again: those of deselected items go.
LEMMA InvalidateShowsSelected ==
  ASSUME FilterMatchesTree', (table \subseteq known)', (\A o \in known : o.text \in received)',
         table' = table, Invalidate
  PROVE  SelectionDecidesRows' /\ shown' \subseteq table'
<1>1. \A o \in table' : Refuses(o)' <=> ~(o.text \in received' /\ IsChecked(o.text)')
  BY DEF Refuses, FilterMatchesTree, Deselected
<1> QED
  BY <1>1 DEF Invalidate, SelectionDecidesRows

LEMMA NewElementStep ==
  ASSUME FeedInv, Gui, NewElement
  PROVE  FeedInv'
<1> DEFINE event == Head(posted)
<1>1. /\ posted # <<>> /\ posted' = Tail(posted) /\ event.kind = "newElement"
      /\ known' = known \cup {event.object} /\ NewStringElement(event.object.text)
      /\ table' = table /\ Invalidate
      /\ UNCHANGED <<pc, count, message, cache, abort, window, held>>
  BY DEF Gui, NewElement, Deliver, thread
<1>2. event \in Events /\ posted \in Seq(Events) /\ window = "open"
  BY <1>1, HeadTailProperties DEF FeedInv, Order
<1>3. event.object \in Objects /\ event = Element(event.object)
  BY <1>1, <1>2, EventProperties
<1>4. TreeInv'
  BY <1>1, NewStringElementStep DEF FeedInv
<1>5. (table \subseteq known)' /\ (\A o \in known : o.text \in received)'
  BY <1>1 DEF FeedInv, Order, NewStringElement
<1>6. SelectionDecidesRows' /\ shown' \subseteq table'
  BY <1>1, <1>4, <1>5, InvalidateShowsSelected DEF TreeInv
<1>7. posted' \in Seq(Events) /\ ToldInTime(posted', known', cache)
  <2>1. \A o : event = Element(o) => o \in known'
    BY <1>1, <1>3, EventProperties
  <2> QED
    BY <1>1, <1>2, <2>1, ToldTail DEF FeedInv, Order
<1>8. FeedTypeOK'
  BY <1>1, <1>3, <1>4, <1>6 DEF FeedInv, FeedTypeOK, TreeInv
<1>9. Order'
  BY <1>1, <1>2, <1>5, <1>7 DEF FeedInv, Order
<1> QED
  BY <1>4, <1>6, <1>8, <1>9 DEF FeedInv

LEMMA InsertEntryStep ==
  ASSUME FeedInv, Gui, InsertEntry
  PROVE  FeedInv'
<1> DEFINE event == Head(posted)
<1>1. /\ posted # <<>> /\ posted' = Tail(posted) /\ event.kind = "newEntry"
      /\ table' = table \cup event.objects
      /\ shown' = shown \cup {o \in event.objects : ~Refuses(o)}
      /\ UNCHANGED <<vars, known, pc, count, message, cache, abort, window, held>>
  BY DEF Gui, InsertEntry, Deliver, thread
<1>2. event \in Events /\ posted \in Seq(Events) /\ window = "open"
  BY <1>1, HeadTailProperties DEF FeedInv, Order
<1>3. UNCHANGED <<received, checkedSelf, checkedChilds>> /\ TreeInv'
  BY <1>1, StutterStep DEF vars, treeVars, FeedInv
<1>4. event.objects \subseteq known /\ event.objects \subseteq Objects
  BY <1>1, <1>2, FirstEntryIsKnown, EventProperties DEF FeedInv, Order
<1>5. \A o \in known : Refuses(o) <=> ~(o.text \in received /\ IsChecked(o.text))
  BY DEF Refuses, FilterMatchesTree, Deselected, FeedInv, TreeInv, Order
<1>6. \A i : IsChecked(i)' <=> IsChecked(i)
  BY <1>3 DEF IsChecked, Forced, Forcing
<1>7. SelectionDecidesRows' /\ shown' \subseteq table'
  BY <1>1, <1>3, <1>4, <1>5, <1>6 DEF SelectionDecidesRows, FeedInv
<1>8. posted' \in Seq(Events) /\ ToldInTime(posted', known, cache)
  <2>1. \A o : event # Element(o)
    BY <1>1 DEF Element
  <2> QED
    BY <1>1, <1>2, <2>1, ToldTail DEF FeedInv, Order
<1>9. FeedTypeOK'
  BY <1>1, <1>3, <1>4, <1>7 DEF FeedInv, FeedTypeOK, TreeInv
<1>10. Order'
  BY <1>1, <1>2, <1>3, <1>4, <1>8 DEF FeedInv, Order
<1> QED
  BY <1>3, <1>7, <1>9, <1>10 DEF FeedInv

LEMMA UseTreeStep ==
  ASSUME FeedInv, UseTree
  PROVE  FeedInv'
<1>1. /\ received' = received /\ known' = known /\ table' = table /\ Invalidate
      /\ UNCHANGED <<pc, count, message, cache, abort, posted, window, held>>
  BY DEF UseTree, Toggle, OpenMenu, ContextMenuPopup, CloseMenu, thread
<1>2. TreeInv'
  BY ToggleStep, MenuStep, ContextMenuPopupStep DEF FeedInv, UseTree
<1>3. (table \subseteq known)' /\ (\A o \in known : o.text \in received)'
  BY <1>1 DEF FeedInv, Order
<1>4. SelectionDecidesRows' /\ shown' \subseteq table'
  BY <1>1, <1>2, <1>3, InvalidateShowsSelected DEF TreeInv
<1>5. FeedTypeOK'
  BY <1>1, <1>2, <1>4 DEF FeedInv, FeedTypeOK, TreeInv
<1>6. Order'
  BY <1>1, <1>3 DEF FeedInv, Order
<1> QED
  BY <1>2, <1>4, <1>5, <1>6 DEF FeedInv

LEMMA CloseWindowStep ==
  ASSUME FeedInv, CloseWindow
  PROVE  FeedInv'
<1>1. /\ window' = "closed" /\ posted' = <<>> /\ known' = {} /\ table' = {} /\ shown' = {}
      /\ UNCHANGED <<pc, count, message, cache, held>>
  BY DEF CloseWindow, thread
<1>2. Init'
  BY DEF CloseWindow, Init, ResetAll, FeedInv, FeedTypeOK, TypeOK
<1>3. TreeInv'
  BY <1>2, EmptyTree, PTL
<1>4. FeedTypeOK'
  BY <1>1, <1>3 DEF FeedInv, FeedTypeOK, TreeInv
<1>5. Order' /\ SelectionDecidesRows'
  BY <1>1, EmptySeq DEF FeedInv, Order, SelectionDecidesRows
<1> QED
  BY <1>3, <1>4, <1>5 DEF FeedInv

\* Steps that leave tree, rows and events alone.
LEMMA OtherStep ==
  ASSUME FeedInv, AddEntries \/ OpenAnother \/ UNCHANGED feedVars
  PROVE  FeedInv'
<1>1. /\ UNCHANGED <<vars, pc, message, cache, posted, window, known, table, shown>>
      /\ count' \in Nat
  BY SourceAssumption DEF AddEntries, OpenAnother, feedVars, thread, rows, FeedInv, FeedTypeOK
<1>2. /\ TreeInv' /\ SelectionDecidesRows'
      /\ (table \subseteq known)' /\ (\A o \in known : o.text \in received)'
  BY <1>1, RowsStay
<1>3. FeedTypeOK'
  BY <1>1, <1>2 DEF FeedInv, FeedTypeOK, TreeInv
<1>4. Order'
  BY <1>1, <1>2 DEF FeedInv, Order
<1> QED
  BY <1>2, <1>3, <1>4 DEF FeedInv

-----------------------------------------------------------------------------
(***************************************************************************)
(* The theorems about the tree that is fed.                                *)
(***************************************************************************)

LEMMA FeedInitInv == FeedInit => FeedInv
<1> SUFFICES ASSUME FeedInit PROVE FeedInv
  OBVIOUS
<1>1. TreeInv
  BY EmptyTree DEF FeedInit
<1>2. FeedTypeOK
  BY <1>1, SourceAssumption DEF FeedInit, FeedTypeOK, TreeInv
<1>3. posted = <<>> /\ posted \in Seq(Events) /\ Len(posted) = 0 /\ cache = {}
  BY EmptySeq DEF FeedInit
<1>4. ToldInTime(posted, known, cache)
  BY <1>3 DEF ToldInTime
<1>5. Order /\ SelectionDecidesRows
  BY <1>3, <1>4 DEF FeedInit, Order, SelectionDecidesRows
<1> QED
  BY <1>1, <1>2, <1>5 DEF FeedInv

LEMMA FeedInvariance == FeedSpec => []FeedInv
<1>1. FeedInv /\ [FeedNext]_feedVars => FeedInv'
  BY RunStep, NewElementStep, InsertEntryStep, UseTreeStep, CloseWindowStep, OtherStep
     DEF FeedNext, Gui
<1> QED
  BY <1>1, FeedInitInv, PTL DEF FeedSpec

\* The state of the thread, the events, the tree and the rows has its type.
THEOREM FeedTypeCorrect == FeedSpec => []FeedTypeOK
BY FeedInvariance, PTL DEF FeedInv

\* Exactly the rows of selected items are shown, while strings and rows keep coming.
THEOREM SelectionIsObeyed == FeedSpec => []SelectionDecidesRows
BY FeedInvariance, PTL DEF FeedInv

\* What FilterTree promises of the tree on its own holds for the tree that is fed by a
\* thread, and that is emptied with its window.
THEOREM FedFilterIsTheTree == FeedSpec => []FilterMatchesTree
BY FeedInvariance, PTL DEF FeedInv, TreeInv

\* A partial check mark still says that an item below is deselected.
THEOREM FedCheckMarksAreTrue == FeedSpec => []PartialTellsTruth
<1>1. FeedInv => PartialTellsTruth
  BY PartialIsTrue DEF FeedInv, TreeInv
<1> QED
  BY <1>1, FeedInvariance, PTL

\* "Select only this" still leaves what it says, whatever strings came before it.
THEOREM FedOnlyThis == FeedSpec => OnlyThisIsSelected
<1>1. FeedInv => \A i \in Items, path \in BOOLEAN :
        CheckOnlyThisElement(i, path) =>
          {j \in Items : IsChecked(j)'} =
            {i} \cup Below(i) \cup (IF path THEN PathTo(i) ELSE {})
  BY OnlyThisStaysSelected DEF FeedInv, TreeInv, RootInherits
<1> QED
  BY <1>1, FeedInvariance, PTL DEF OnlyThisIsSelected
=============================================================================
