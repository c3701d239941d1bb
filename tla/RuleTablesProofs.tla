-------------------------- MODULE RuleTablesProofs --------------------------
(***************************************************************************)
(* Proofs about RuleTables: that the rules in force are those shown, and   *)
(* that the cells are drawn by what these say, for any texts, any number   *)
(* of rows and of search bars.                                             *)
(***************************************************************************)
EXTENDS RuleTables, FiniteSetTheorems, SequenceTheorems, TLAPS

Adding    == INSTANCE FoldTheorems WITH Op <- AddIfValid
Removing  == INSTANCE FoldTheorems WITH Op <- RemoveAt
Taking    == INSTANCE FoldTheorems WITH Op <- TakeOut
Inserting == INSTANCE FoldTheorems WITH Op <- InsertLine
Merging   == INSTANCE FoldTheorems WITH Op <- AddChangeSet
Drawing   == INSTANCE FoldTheorems WITH Op <- ModifyCell

-----------------------------------------------------------------------------
(* The rule table *)

(* All rules are those of the sources.                                     *)
Sound(t) ==
    /\ DOMAIN t = {"sources", "rules", "onChange", "discards"}
    /\ \A rule : rule \in t.rules <=> \E s \in DOMAIN t.sources : rule \in t.sources[s]

UpToDate(t) == t.discards = DiscardsOf(t.rules)

LEMMA DataChangedIs ==
    ASSUME NEW t, Sound(t)
    PROVE  /\ Sound(DataChanged(t))
           /\ DataChanged(t).sources = t.sources /\ DataChanged(t).rules = t.rules
           /\ DataChanged(t).onChange = t.onChange
           /\ ~t.onChange => UpToDate(DataChanged(t))
  BY DEF DataChanged, Sound, UpToDate

LEMMA AddRuleIs ==
    ASSUME NEW t, Sound(t), NEW source, NEW rule
    PROVE  /\ Sound(AddRule(t, source, rule))
           /\ AddRule(t, source, rule).onChange = t.onChange
           /\ DOMAIN AddRule(t, source, rule).sources = DOMAIN t.sources \cup {source}
           /\ \A s : RulesFrom(AddRule(t, source, rule), s) =
                        RulesFrom(t, s) \cup IF s = source THEN {rule} ELSE {}
           /\ ~t.onChange => UpToDate(AddRule(t, source, rule))
  <1> DEFINE added == RulesFrom(t, source) \cup {rule}
             u == [t EXCEPT !.sources = Put(@, source, added), !.rules = @ \cup {rule}]
  <1>1. /\ u.sources = Put(t.sources, source, added)
        /\ u.rules = t.rules \cup {rule} /\ u.onChange = t.onChange
        /\ DOMAIN u = {"sources", "rules", "onChange", "discards"}
    BY DEF Sound
  <1>2. DOMAIN u.sources = DOMAIN t.sources \cup {source}
        /\ \A s \in DOMAIN u.sources :
               u.sources[s] = IF s = source THEN added ELSE t.sources[s]
    BY <1>1 DEF Put
  <1>4. \A s : RulesFrom(u, s) = RulesFrom(t, s) \cup IF s = source THEN {rule} ELSE {}
    <2> HIDE DEF u
    <2> QED
      BY <1>2 DEF RulesFrom
  <1>5. \A r : r \in u.rules <=> \E s \in DOMAIN u.sources : r \in u.sources[s]
    <2> HIDE DEF u
    <2> SUFFICES ASSUME NEW r
                 PROVE  r \in u.rules <=> \E s \in DOMAIN u.sources : r \in u.sources[s]
      OBVIOUS
    <2>1. r \in t.rules <=> \E s \in DOMAIN t.sources : r \in t.sources[s]
      BY DEF Sound
    <2> QED
      BY <1>1, <1>2, <2>1 DEF RulesFrom
  <1>6. Sound(u)
    BY <1>1, <1>5 DEF Sound
  <1>7. AddRule(t, source, rule) = DataChanged(u)
    BY DEF AddRule
  <1> HIDE DEF u
  <1> QED
    BY <1>1, <1>2, <1>4, <1>6, <1>7, DataChangedIs DEF RulesFrom

LEMMA ClearIs ==
    ASSUME NEW t, Sound(t), NEW source
    PROVE  /\ Sound(Clear(t, source))
           /\ Clear(t, source).onChange = t.onChange
           /\ DOMAIN Clear(t, source).sources = DOMAIN t.sources \ {source}
           /\ \A s : RulesFrom(Clear(t, source), s) = IF s = source THEN {} ELSE RulesFrom(t, s)
           /\ ~t.onChange /\ UpToDate(t) => UpToDate(Clear(t, source))
  <1>1. CASE source \notin DOMAIN t.sources
    BY <1>1 DEF Clear, RulesFrom
  <1>2. CASE source \in DOMAIN t.sources
    <2> DEFINE left == Restrict(t.sources, DOMAIN t.sources \ {source})
               u == [t EXCEPT !.sources = left, !.rules = UNION Range(left)]
    <2>1. /\ u.sources = left /\ u.rules = UNION Range(left) /\ u.onChange = t.onChange
          /\ DOMAIN u = {"sources", "rules", "onChange", "discards"}
      BY DEF Sound
    <2>2. DOMAIN left = DOMAIN t.sources \ {source}
          /\ \A s \in DOMAIN left : left[s] = t.sources[s]
      BY DEF Restrict
    <2>3. Clear(t, source) = DataChanged(u)
      BY <1>2 DEF Clear
    <2> HIDE DEF left, u
    <2>4. Sound(u)
      <3>1. \A rule : rule \in UNION Range(left) <=> \E s \in DOMAIN left : rule \in left[s]
        <4> SUFFICES ASSUME NEW rule
                     PROVE  rule \in UNION Range(left) <=> \E s \in DOMAIN left : rule \in left[s]
          OBVIOUS
        <4>1. rule \in UNION Range(left) <=> \E set \in Range(left) : rule \in set
          OBVIOUS
        <4>2. \A set : set \in Range(left) <=> \E s \in DOMAIN left : set = left[s]
          BY DEF Range
        <4> QED
          BY <4>1, <4>2
      <3> QED
        BY <2>1, <3>1 DEF Sound
    <2>5. \A s : RulesFrom(u, s) = IF s = source THEN {} ELSE RulesFrom(t, s)
      BY <2>1, <2>2 DEF RulesFrom
    <2> QED
      BY <2>1, <2>2, <2>3, <2>4, <2>5, DataChangedIs DEF RulesFrom
  <1> QED
    BY <1>1, <1>2

-----------------------------------------------------------------------------
(* The rules of the editor *)

Edited(rows) == {CompiledRow(rule) : rule \in {r \in ToSet(rows) : ValidRule(r)}}

(* Whatever rows the editor has, its own rules are replaced by theirs, and *)
(* nobody else's are touched; the filter hears of it at the end.           *)
LEMMA UpdateIs ==
    ASSUME NEW t, Sound(t), NEW rows, NEW n \in Nat, DOMAIN rows = 1 .. n
    PROVE  LET u == UpdateFilterRuleTable(t, rows)
           IN  /\ Sound(u) /\ UpToDate(u) /\ u.onChange = FALSE
               /\ DOMAIN u.sources \subseteq DOMAIN t.sources \cup {Filters}
               /\ \A s : RulesFrom(u, s) = IF s = Filters THEN Edited(rows) ELSE RulesFrom(t, s)
  <1> DEFINE base == Clear(BeginChange(t), Filters)
             first(i) == {CompiledRow(rows[j]) : j \in {k \in 1 .. i : ValidRule(rows[k])}}
  <1>1. /\ Sound(base) /\ base.onChange = TRUE
        /\ DOMAIN base.sources = DOMAIN t.sources \ {Filters}
        /\ \A s : RulesFrom(base, s) = IF s = Filters THEN {} ELSE RulesFrom(t, s)
    <2>1. Sound(BeginChange(t)) /\ BeginChange(t).onChange = TRUE
          /\ BeginChange(t).sources = t.sources
      BY DEF BeginChange, Sound
    <2> QED
      BY <2>1, ClearIs DEF RulesFrom
  <1> HIDE DEF base
  <1>2. PICK loop : /\ loop[0] = base
                    /\ \A i \in 1 .. n : loop[i] = AddIfValid(loop[i - 1], rows[i])
                    /\ Adding!Fold(base, rows) = loop[n]
    BY Adding!FoldIsLoop
  <1> DEFINE Kept(i) ==
                 /\ Sound(loop[i]) /\ loop[i].onChange = TRUE
                 /\ DOMAIN loop[i].sources \subseteq DOMAIN t.sources \cup {Filters}
                 /\ \A s : RulesFrom(loop[i], s) =
                              IF s = Filters THEN first(i) ELSE RulesFrom(t, s)
             T == {i \in 0 .. n : Kept(i)}
  <1>3. 0 \in T
    <2>1. first(0) = {}
      OBVIOUS
    <2>2. \A s : RulesFrom(loop[0], s) = IF s = Filters THEN first(0) ELSE RulesFrom(t, s)
      BY <1>1, <1>2, <2>1
    <2> HIDE DEF first
    <2>3. Kept(0)
      BY <1>1, <1>2, <2>2
    <2> QED
      BY <2>3
  <1>4. ASSUME NEW i \in 1 .. n, i - 1 \in T
        PROVE  i \in T
    <2>1. Kept(i - 1) /\ loop[i] = AddIfValid(loop[i - 1], rows[i])
      BY <1>2, <1>4
    <2> HIDE DEF Kept
    <2>2. CASE ValidRule(rows[i])
      <3>1. first(i) = first(i - 1) \cup {CompiledRow(rows[i])}
        BY <2>2
      <3>2. loop[i] = AddRule(loop[i - 1], Filters, CompiledRow(rows[i]))
        BY <2>1, <2>2 DEF AddIfValid
      <3> HIDE DEF first
      <3>3. Kept(i)
        <4>1. /\ Sound(loop[i - 1]) /\ loop[i - 1].onChange = TRUE
              /\ DOMAIN loop[i - 1].sources \subseteq DOMAIN t.sources \cup {Filters}
              /\ \A s : RulesFrom(loop[i - 1], s) =
                           IF s = Filters THEN first(i - 1) ELSE RulesFrom(t, s)
          BY <2>1 DEF Kept
        <4>2. /\ Sound(loop[i]) /\ loop[i].onChange = TRUE
              /\ DOMAIN loop[i].sources = DOMAIN loop[i - 1].sources \cup {Filters}
              /\ \A s : RulesFrom(loop[i], s) =
                           RulesFrom(loop[i - 1], s)
                           \cup IF s = Filters THEN {CompiledRow(rows[i])} ELSE {}
          BY <3>2, <4>1, AddRuleIs
        <4>3. \A s : RulesFrom(loop[i], s) = IF s = Filters THEN first(i) ELSE RulesFrom(t, s)
          BY <3>1, <4>1, <4>2
        <4> QED
          BY <4>1, <4>2, <4>3 DEF Kept
      <3> QED
        BY <3>3
    <2>3. CASE ~ValidRule(rows[i])
      <3>1. first(i) = first(i - 1)
        BY <2>3
      <3>2. loop[i] = loop[i - 1]
        BY <2>1, <2>3 DEF AddIfValid
      <3> HIDE DEF first
      <3>3. Kept(i)
        BY <2>1, <3>1, <3>2 DEF Kept
      <3> QED
        BY <3>3
    <2> QED
      BY <2>2, <2>3
  <1>5. Kept(n)
    <2> HIDE DEF Kept
    <2>1. 0 .. n \subseteq T
      <3> HIDE DEF T
      <3> QED
        BY <1>3, <1>4, Adding!UpTo
    <2> QED
      BY <2>1
  <1>6. first(n) = Edited(rows)
    BY DEF Edited, ToSet
  <1>7. FoldLeft(AddIfValid, base, rows) = Adding!Fold(base, rows)
    BY DEF FoldLeft, MapThenFoldSet, Max, Adding!Fold, Adding!Folds, Adding!Largest
  <1>8. UpdateFilterRuleTable(t, rows) = EndChange(loop[n])
    BY <1>2, <1>7 DEF UpdateFilterRuleTable, base
  <1> DEFINE e == [loop[n] EXCEPT !.onChange = FALSE]
  <1>9. EndChange(loop[n]) = DataChanged(e) /\ e.onChange = FALSE
        /\ Sound(e) /\ e.sources = loop[n].sources
    BY <1>5 DEF EndChange, Sound
  <1> HIDE DEF e, first
  <1> QED
    BY <1>5, <1>6, <1>8, <1>9, DataChangedIs DEF RulesFrom
-----------------------------------------------------------------------------
(* The rows of the editor *)

Backwards(order) == \A i, j \in DOMAIN order : i < j => order[i] > order[j]

(* Any rows can be numbered from the back.                                 *)
LEMMA BackwardsExists ==
    ASSUME NEW n \in Nat
    PROVE  \A rows \in SUBSET (1 .. n) :
               /\ IsFiniteSet(rows) /\ Cardinality(rows) \in Nat
               /\ \E order \in [1 .. Cardinality(rows) -> rows] : Backwards(order)
  <1> DEFINE Numbered(rows) ==
                 /\ IsFiniteSet(rows) /\ Cardinality(rows) \in Nat
                 /\ \E order \in [1 .. Cardinality(rows) -> rows] : Backwards(order)
             T == {k \in 0 .. n : \A rows \in SUBSET (1 .. k) : Numbered(rows)}
  <1>1. 0 \in T
    <2>1. IsFiniteSet({}) /\ Cardinality({}) = 0
      BY FS_EmptySet
    <2>2. \E order \in [1 .. 0 -> {}] : Backwards(order)
      <3>1. [i \in 1 .. 0 |-> i] \in [1 .. 0 -> {}] /\ Backwards([i \in 1 .. 0 |-> i])
        BY DEF Backwards
      <3> QED
        BY <3>1
    <2>3. ASSUME NEW rows \in SUBSET (1 .. 0) PROVE Numbered(rows)
      <3>1. rows = {} /\ Cardinality(rows) = 0 /\ IsFiniteSet(rows)
        <4>1. rows = {}
          OBVIOUS
        <4> QED
          BY <2>1, <4>1
      <3>2. \E order \in [1 .. Cardinality(rows) -> rows] : Backwards(order)
        BY <2>2, <3>1
      <3> QED
        BY <3>1, <3>2
    <2> HIDE DEF Numbered
    <2> QED
      BY <2>3
  <1>2. ASSUME NEW k \in 1 .. n, k - 1 \in T
        PROVE  k \in T
    <2>1. ASSUME NEW rows \in SUBSET (1 .. k) PROVE Numbered(rows)
      <3>1. CASE k \notin rows
        <4>1. rows \in SUBSET (1 .. k - 1)
          BY <3>1
        <4> QED
          BY <1>2, <4>1
      <3>2. CASE k \in rows
        <4> DEFINE others == rows \ {k}
        <4>1. others \in SUBSET (1 .. k - 1) /\ k \notin others /\ rows = others \cup {k}
          BY <3>2
        <4>2. Numbered(others)
          BY <1>2, <4>1
        <4> HIDE DEF others
        <4>3. IsFiniteSet(rows) /\ Cardinality(rows) = Cardinality(others) + 1
          BY <4>1, <4>2, FS_AddElement
        <4>4. PICK order \in [1 .. Cardinality(others) -> others] : Backwards(order)
          BY <4>2
        <4> DEFINE c == Cardinality(others)
                   longer == [i \in 1 .. c + 1 |-> IF i = 1 THEN k ELSE order[i - 1]]
        <4>5. c \in Nat
          BY <4>2
        <4> HIDE DEF c
        <4>6. order \in [1 .. c -> others]
          BY <4>4 DEF c
        <4>7. longer \in [1 .. c + 1 -> rows]
          <5>1. ASSUME NEW i \in 1 .. c + 1, i # 1 PROVE order[i - 1] \in rows
            <6>1. i - 1 \in 1 .. c
              BY <4>5, <5>1
            <6> QED
              BY <4>1, <4>6, <6>1
          <5> QED
            BY <4>1, <5>1
        <4>8. ASSUME NEW i \in 1 .. c + 1, NEW j \in 1 .. c + 1, i < j
              PROVE  longer[i] > longer[j]
          <5>1. j - 1 \in 1 .. c /\ longer[j] = order[j - 1] /\ order[j - 1] \in 1 .. k - 1
            <6>1. j - 1 \in 1 .. c /\ j # 1
              BY <4>5, <4>8
            <6>2. order[j - 1] \in others
              BY <4>6, <6>1
            <6> QED
              BY <4>1, <6>1, <6>2
          <5>2. CASE i = 1
            BY <5>1, <5>2
          <5>3. CASE i # 1
            <6>1. i - 1 \in 1 .. c /\ longer[i] = order[i - 1] /\ i - 1 < j - 1
              BY <4>5, <4>8, <5>3
            <6> QED
              BY <4>4, <4>6, <5>1, <6>1 DEF Backwards
          <5> QED
            BY <5>2, <5>3
        <4>9. Backwards(longer)
          BY <4>8 DEF Backwards
        <4> HIDE DEF longer
        <4> QED
          BY <4>2, <4>3, <4>5, <4>7, <4>9 DEF c
      <3> QED
        BY <3>1, <3>2
    <2> HIDE DEF Numbered
    <2> QED
      BY <2>1
  <1>3. n \in T
    <2> HIDE DEF T
    <2>1. 0 .. n \subseteq T
      BY <1>1, <1>2, Removing!UpTo
    <2> QED
      BY <2>1
  <1> QED
    BY <1>3

(* Each row taken out is still where it was, those behind it have left.    *)
LEMMA FromTheBackIs ==
    ASSUME NEW n \in Nat, NEW rows \in SUBSET (1 .. n)
    PROVE  LET order == FromTheBack(rows)
               c == Cardinality(rows)
           IN  /\ c \in 0 .. n /\ order \in [1 .. c -> rows] /\ Backwards(order)
               /\ \A i \in 1 .. c : order[i] \in rows /\ order[i] <= n - i + 1
  <1> DEFINE order == FromTheBack(rows)
             c == Cardinality(rows)
  <1>1. IsFiniteSet(rows) /\ c \in Nat
        /\ \E o \in [1 .. c -> rows] : Backwards(o)
    BY BackwardsExists
  <1>2. order \in [1 .. c -> rows] /\ Backwards(order)
    BY <1>1 DEF FromTheBack, Backwards
  <1> HIDE DEF order, c
  <1> DEFINE T == {i \in 0 .. c : i > 0 => order[i] <= n - i + 1}
  <1>3. 0 \in T
    BY <1>1
  <1>4. ASSUME NEW i \in 1 .. c, i - 1 \in T
        PROVE  i \in T
    <2>1. order[i] \in 1 .. n
      BY <1>2
    <2>2. CASE i = 1
      BY <1>1, <2>1, <2>2
    <2>3. CASE i # 1
      <3>1. i - 1 \in 1 .. c /\ order[i - 1] \in 1 .. n /\ order[i - 1] <= n - (i - 1) + 1
        <4>1. i - 1 \in 1 .. c /\ i - 1 > 0
          BY <1>1, <2>3
        <4> QED
          BY <1>2, <1>4, <4>1
      <3>2. order[i - 1] > order[i]
        BY <1>2, <3>1 DEF Backwards
      <3> QED
        BY <1>1, <2>1, <3>1, <3>2
    <2> QED
      BY <2>2, <2>3
  <1>5. 0 .. c \subseteq T
    <2> HIDE DEF T
    <2> QED
      BY <1>1, <1>3, <1>4, Removing!UpTo
  <1>6. \A i \in 1 .. c : order[i] \in rows /\ order[i] <= n - i + 1
    BY <1>1, <1>2, <1>5
  <1>7. c <= n
    <2>1. CASE c = 0
      BY <2>1
    <2>2. CASE c # 0
      <3>1. c \in 1 .. c
        BY <1>1, <2>2
      <3>2. order[c] \in 1 .. n /\ order[c] <= n - c + 1
        BY <1>6, <3>1
      <3> QED
        BY <1>1, <3>2
    <2> QED
      BY <1>1, <2>1, <2>2
  <1> QED
    BY <1>1, <1>2, <1>6, <1>7 DEF order, c
LEMMA PartIs ==
    ASSUME NEW S, NEW s \in Seq(S), NEW m \in Nat \ {0}, NEW n \in Nat, m <= n + 1, n <= Len(s)
    PROVE  SubSeq(s, m, n) \in Seq(S) /\ Len(SubSeq(s, m, n)) = n - m + 1
  <1>1. \A i \in m .. n : s[i] \in S
    BY ElementOfSeq
  <1>2. SubSeq(s, m, n) \in Seq(S) /\ Len(SubSeq(s, m, n)) = IF m <= n THEN n - m + 1 ELSE 0
    BY <1>1, SubSeqProperties
  <1> QED
    BY <1>2

LEMMA JoinedIs ==
    ASSUME NEW S, NEW a \in Seq(S), NEW b \in Seq(S)
    PROVE  a \o b \in Seq(S) /\ Len(a \o b) = Len(a) + Len(b)
  BY ConcatProperties

LEMMA RemoveAtIs ==
    ASSUME NEW S, NEW s \in Seq(S), NEW row \in 1 .. Len(s)
    PROVE  RemoveAt(s, row) \in Seq(S) /\ Len(RemoveAt(s, row)) = Len(s) - 1
  <1> DEFINE front == SubSeq(s, 1, row - 1)
             back == SubSeq(s, row + 1, Len(s))
  <1>1. Len(s) \in Nat /\ row \in Nat \ {0} /\ row - 1 \in Nat /\ row + 1 \in Nat \ {0}
    BY LenProperties
  <1>2. front \in Seq(S) /\ Len(front) = row - 1
    BY <1>1, PartIs
  <1>3. back \in Seq(S) /\ Len(back) = Len(s) - row
    BY <1>1, PartIs
  <1>4. RemoveAt(s, row) = front \o back
    BY DEF RemoveAt
  <1> HIDE DEF front, back
  <1>5. front \o back \in Seq(S) /\ Len(front \o back) = Len(front) + Len(back)
    BY <1>2, <1>3, JoinedIs
  <1> QED
    BY <1>1, <1>2, <1>3, <1>4, <1>5

LEMMA WithoutIs ==
    ASSUME table \in Seq(Rules), NEW rows \in SUBSET DOMAIN table
    PROVE  Without(rows) \in Seq(Rules) /\ Len(Without(rows)) <= Len(table)
  <1> DEFINE n == Len(table)
             order == FromTheBack(rows)
             c == Cardinality(rows)
             S == [i \in 0 .. c |-> {s \in Seq(Rules) : Len(s) = n - i}]
  <1>1. n \in Nat /\ rows \in SUBSET (1 .. n)
    OBVIOUS
  <1>2. /\ c \in 0 .. n /\ order \in [1 .. c -> rows]
        /\ \A i \in 1 .. c : order[i] \in rows /\ order[i] <= n - i + 1
    BY <1>1, FromTheBackIs
  <1> HIDE DEF n, order, c
  <1>3. table \in S[0]
    BY <1>1, <1>2 DEF n
  <1>4. \A i \in 1 .. c : \A s \in S[i - 1] : RemoveAt(s, order[i]) \in S[i]
    <2> SUFFICES ASSUME NEW i \in 1 .. c, NEW s \in S[i - 1]
                 PROVE  RemoveAt(s, order[i]) \in S[i]
      OBVIOUS
    <2>1. s \in Seq(Rules) /\ Len(s) = n - (i - 1)
      BY <1>1, <1>2
    <2>2. order[i] \in 1 .. Len(s)
      BY <1>1, <1>2, <2>1
    <2>3. RemoveAt(s, order[i]) \in Seq(Rules) /\ Len(RemoveAt(s, order[i])) = n - i
      <3>1. RemoveAt(s, order[i]) \in Seq(Rules) /\ Len(RemoveAt(s, order[i])) = Len(s) - 1
        BY <2>1, <2>2, RemoveAtIs
      <3> QED
        BY <1>1, <1>2, <2>1, <3>1
    <2> QED
      BY <2>3
  <1>5. Removing!Fold(table, order) \in S[c]
    <2>1. c \in Nat /\ DOMAIN order = 1 .. c
      BY <1>1, <1>2
    <2> HIDE DEF S
    <2> QED
      BY <1>3, <1>4, <2>1, Removing!FoldReaches
  <1>6. Without(rows) = Removing!Fold(table, order)
    BY DEF Without, order, FoldLeft, MapThenFoldSet, Max, Removing!Fold, Removing!Folds, Removing!Largest
  <1> QED
    BY <1>1, <1>2, <1>5, <1>6 DEF n
LEMMA TakeOutIs ==
    ASSUME NEW n \in Nat, NEW i \in 1 .. n, NEW row \in 1 .. n, row <= n - i + 1,
           NEW s \in [rows : Seq(Rules), taken : Seq(Rules), pos : 1 .. n + 1],
           Len(s.rows) = n - (i - 1), Len(s.taken) = i - 1, s.pos <= n - (i - 1) + 1
    PROVE  /\ TakeOut(s, row) \in [rows : Seq(Rules), taken : Seq(Rules), pos : 1 .. n + 1]
           /\ Len(TakeOut(s, row).rows) = n - i /\ Len(TakeOut(s, row).taken) = i
           /\ TakeOut(s, row).pos <= n - i + 1
  <1>1. row \in 1 .. Len(s.rows) /\ s.rows \in Seq(Rules) /\ s.taken \in Seq(Rules)
    OBVIOUS
  <1>2. RemoveAt(s.rows, row) \in Seq(Rules) /\ Len(RemoveAt(s.rows, row)) = n - i
    <2>1. RemoveAt(s.rows, row) \in Seq(Rules) /\ Len(RemoveAt(s.rows, row)) = Len(s.rows) - 1
      BY <1>1, RemoveAtIs
    <2> QED
      BY <2>1
  <1>3. <<s.rows[row]>> \o s.taken \in Seq(Rules) /\ Len(<<s.rows[row]>> \o s.taken) = i
    <2>1. s.rows[row] \in Rules
      BY <1>1, ElementOfSeq
    <2>2. <<s.rows[row]>> \in Seq(Rules) /\ Len(<<s.rows[row]>>) = 1
      BY <2>1
    <2> DEFINE one == <<s.rows[row]>>
    <2> HIDE DEF one
    <2>3. one \o s.taken \in Seq(Rules) /\ Len(one \o s.taken) = Len(one) + Len(s.taken)
      BY <1>1, <2>2, JoinedIs DEF one
    <2> QED
      BY <2>2, <2>3 DEF one
  <1> DEFINE p == IF row <= s.pos /\ s.pos > 1 THEN s.pos - 1 ELSE s.pos
  <1>4. p \in 1 .. n + 1 /\ p <= n - i + 1
    BY <1>1
  <1>5. TakeOut(s, row) = [rows |-> RemoveAt(s.rows, row), taken |-> <<s.rows[row]>> \o s.taken,
                           pos |-> p]
    BY DEF TakeOut
  <1> HIDE DEF p
  <1> QED
    BY <1>2, <1>3, <1>4, <1>5

LEMMA PutInIs ==
    ASSUME NEW rows \in Seq(Rules), NEW moved \in Seq(Rules), NEW pos \in 1 .. Len(rows) + 1
    PROVE  /\ PutIn(rows, pos, moved) \in Seq(Rules)
           /\ Len(PutIn(rows, pos, moved)) = Len(rows) + Len(moved)
  <1> DEFINE front == SubSeq(rows, 1, pos - 1)
             back == SubSeq(rows, pos, Len(rows))
  <1>1. Len(rows) \in Nat /\ Len(moved) \in Nat /\ pos - 1 \in Nat /\ pos \in Nat \ {0}
    BY LenProperties
  <1>2. front \in Seq(Rules) /\ Len(front) = pos - 1
    BY <1>1, PartIs
  <1>3. back \in Seq(Rules) /\ Len(back) = Len(rows) - pos + 1
    BY <1>1, PartIs
  <1>4. PutIn(rows, pos, moved) = (front \o moved) \o back
    BY DEF PutIn
  <1> HIDE DEF front, back
  <1> DEFINE begun == front \o moved
  <1>5. begun \in Seq(Rules) /\ Len(begun) = Len(front) + Len(moved)
    BY <1>2, JoinedIs
  <1> HIDE DEF begun
  <1>6. begun \o back \in Seq(Rules) /\ Len(begun \o back) = Len(begun) + Len(back)
    BY <1>3, <1>5, JoinedIs
  <1> QED
    BY <1>1, <1>2, <1>3, <1>4, <1>5, <1>6 DEF begun

(* Moving rows neither loses nor doubles any.                              *)
LEMMA MovedIs ==
    ASSUME table \in Seq(Rules), NEW rows \in SUBSET DOMAIN table, NEW pos \in ViewRows
    PROVE  Moved(rows, pos) \in Seq(Rules) /\ Len(Moved(rows, pos)) = Len(table)
  <1> DEFINE n == Len(table)
             order == FromTheBack(rows)
             c == Cardinality(rows)
             start == [rows |-> table, taken |-> <<>>, pos |-> pos]
             States == [rows : Seq(Rules), taken : Seq(Rules), pos : 1 .. n + 1]
             S == [i \in 0 .. c |-> {s \in States : /\ Len(s.rows) = n - i /\ Len(s.taken) = i
                                                    /\ s.pos <= n - i + 1}]
  <1>1. n \in Nat /\ rows \in SUBSET (1 .. n) /\ pos \in 1 .. n + 1
    BY DEF ViewRows
  <1>2. /\ c \in 0 .. n /\ order \in [1 .. c -> rows]
        /\ \A i \in 1 .. c : order[i] \in rows /\ order[i] <= n - i + 1
    BY <1>1, FromTheBackIs
  <1>3. start \in S[0]
    BY <1>1, <1>2
  <1> HIDE DEF n, order, c, start
  <1>4. ASSUME NEW i \in 1 .. c, NEW s \in S[i - 1]
        PROVE  TakeOut(s, order[i]) \in S[i]
    <2>1. /\ s \in States
          /\ Len(s.rows) = n - (i - 1) /\ Len(s.taken) = i - 1 /\ s.pos <= n - (i - 1) + 1
      <3>1. i - 1 \in 0 .. c
        BY <1>1, <1>2
      <3> QED
        BY <3>1
    <2>2. i \in 1 .. n /\ order[i] \in 1 .. n /\ order[i] <= n - i + 1
      <3>1. c \in Nat /\ c <= n /\ order[i] \in rows /\ order[i] <= n - i + 1
        BY <1>1, <1>2
      <3> QED
        BY <1>1, <3>1
    <2>3. /\ TakeOut(s, order[i]) \in States
          /\ Len(TakeOut(s, order[i]).rows) = n - i /\ Len(TakeOut(s, order[i]).taken) = i
          /\ TakeOut(s, order[i]).pos <= n - i + 1
      BY <1>1, <2>1, <2>2, TakeOutIs
    <2> QED
      BY <2>3
  <1>5. Taking!Fold(start, order) \in S[c]
    <2>1. c \in Nat /\ DOMAIN order = 1 .. c
      BY <1>1, <1>2
    <2> HIDE DEF S
    <2> QED
      BY <1>3, <1>4, <2>1, Taking!FoldReaches
  <1>6. FoldLeft(TakeOut, start, order) = Taking!Fold(start, order)
    BY DEF FoldLeft, MapThenFoldSet, Max, Taking!Fold, Taking!Folds, Taking!Largest
  <1> DEFINE out == Taking!Fold(start, order)
  <1>7. Moved(rows, pos) = PutIn(out.rows, out.pos, out.taken)
    BY <1>6 DEF Moved, order, start
  <1>8. /\ out \in States /\ Len(out.rows) = n - c /\ Len(out.taken) = c
        /\ out.pos <= n - c + 1
    BY <1>1, <1>2, <1>5
  <1> HIDE DEF out
  <1>9. /\ out.rows \in Seq(Rules) /\ out.taken \in Seq(Rules)
        /\ out.pos \in 1 .. Len(out.rows) + 1
    BY <1>1, <1>2, <1>8
  <1>10. /\ PutIn(out.rows, out.pos, out.taken) \in Seq(Rules)
         /\ Len(PutIn(out.rows, out.pos, out.taken)) = Len(out.rows) + Len(out.taken)
    BY <1>9, PutInIs
  <1>11. Len(out.rows) + Len(out.taken) = n
    BY <1>1, <1>2, <1>8
  <1> QED
    BY <1>7, <1>10, <1>11 DEF n

LEMMA InsertAtIs ==
    ASSUME NEW s \in Seq(Rules), NEW rule \in Rules, NEW pos \in 1 .. Len(s) + 1
    PROVE  InsertAt(s, pos, rule) \in Seq(Rules) /\ Len(InsertAt(s, pos, rule)) = Len(s) + 1
  <1>1. <<rule>> \in Seq(Rules) /\ Len(<<rule>>) = 1 /\ Len(s) \in Nat
    OBVIOUS
  <1>2. InsertAt(s, pos, rule) = PutIn(s, pos, <<rule>>)
    BY DEF InsertAt, PutIn
  <1> QED
    BY <1>1, <1>2, PutInIs

LEMMA TextDropped ==
    ASSUME table \in Seq(Rules), NEW pos \in ViewRows,
           NEW m \in Nat, NEW lines \in [1 .. m -> Rules \cup {Garbage}]
    PROVE  LET out == FoldLeft(InsertLine, [rows |-> table, pos |-> pos], lines)
           IN  out.rows \in Seq(Rules) /\ Len(out.rows) <= Len(table) + m
  <1> DEFINE n == Len(table)
             start == [rows |-> table, pos |-> pos]
             S == [i \in 0 .. m |-> {s \in [rows : Seq(Rules), pos : Nat \ {0}] :
                                        Len(s.rows) <= n + i /\ s.pos <= Len(s.rows) + 1}]
  <1>1. n \in Nat /\ start \in S[0]
    BY DEF ViewRows
  <1>2. EmptyRule \in Rules
    BY TextsAssumption DEF EmptyRule, Rules
  <1>3. ASSUME NEW i \in 1 .. m, NEW s \in S[i - 1]
        PROVE  InsertLine(s, lines[i]) \in S[i]
    <2> DEFINE line == lines[i]
               rule == IF line = Garbage THEN EmptyRule ELSE line
    <2>1. s \in [rows : Seq(Rules), pos : Nat \ {0}]
          /\ Len(s.rows) <= n + i - 1 /\ s.pos <= Len(s.rows) + 1 /\ Len(s.rows) \in Nat
      BY <1>1
    <2>2. rule \in Rules
      BY <1>2
    <2> HIDE DEF n, line, rule
    <2>3. CASE InsertLine(s, line) = s
      BY <1>1, <2>1, <2>3 DEF line
    <2>4. CASE InsertLine(s, line) = [rows |-> InsertAt(s.rows, s.pos, rule), pos |-> s.pos + 1]
      <3>1. InsertAt(s.rows, s.pos, rule) \in Seq(Rules)
            /\ Len(InsertAt(s.rows, s.pos, rule)) = Len(s.rows) + 1
        BY <2>1, <2>2, InsertAtIs
      <3> DEFINE longer == InsertAt(s.rows, s.pos, rule)
                 next == [rows |-> longer, pos |-> s.pos + 1]
      <3>2. longer \in Seq(Rules) /\ s.pos + 1 \in Nat \ {0}
            /\ Len(longer) <= n + i /\ s.pos + 1 <= Len(longer) + 1
        BY <1>1, <2>1, <3>1
      <3> HIDE DEF longer
      <3>3. next \in S[i]
        <4>1. /\ next \in [rows : Seq(Rules), pos : Nat \ {0}]
              /\ next.rows = longer /\ next.pos = s.pos + 1 /\ i \in 0 .. m
          BY <3>2
        <4> HIDE DEF next
        <4> QED
          BY <3>2, <4>1
      <3> QED
        BY <2>4, <3>3 DEF line, longer
    <2> QED
      BY <2>3, <2>4 DEF InsertLine, rule
  <1> HIDE DEF start, n
  <1>4. Inserting!Fold(start, lines) \in S[m]
    <2> HIDE DEF S
    <2>1. DOMAIN lines = 1 .. m
      OBVIOUS
    <2> QED
      BY <1>1, <1>3, <2>1, Inserting!FoldReaches
  <1>5. FoldLeft(InsertLine, start, lines) = Inserting!Fold(start, lines)
    BY DEF FoldLeft, MapThenFoldSet, Max, Inserting!Fold, Inserting!Folds, Inserting!Largest
  <1> QED
    BY <1>4, <1>5 DEF start, n
-----------------------------------------------------------------------------
(* Where moved rows stand *)

Forwards(order) == \A i, j \in DOMAIN order : i < j => order[i] < order[j]

(* Any rows can be numbered from the front, and each has a number.         *)
LEMMA FrontIs ==
    ASSUME NEW n \in Nat, NEW rows \in SUBSET (1 .. n)
    PROVE  LET c == Cardinality(rows)
           IN  /\ c \in Nat /\ IsFiniteSet(rows)
               /\ FromTheFront(rows) \in [1 .. c -> rows] /\ Forwards(FromTheFront(rows))
               /\ \A r \in rows : \E i \in 1 .. c : FromTheFront(rows)[i] = r
  <1> DEFINE c == Cardinality(rows)
             order == FromTheFront(rows)
  <1>1. /\ c \in Nat /\ IsFiniteSet(rows)
        /\ \E o \in [1 .. c -> rows] : Backwards(o)
    BY BackwardsExists
  <1> HIDE DEF c
  <1>2. PICK back \in [1 .. c -> rows] : Backwards(back)
    BY <1>1
  <1> DEFINE front == [i \in 1 .. c |-> back[c + 1 - i]]
  <1>3. ASSUME NEW i \in 1 .. c
        PROVE  c + 1 - i \in 1 .. c
    BY <1>1
  <1>4. front \in [1 .. c -> rows]
    BY <1>2, <1>3
  <1>5. Forwards(front)
    <2> SUFFICES ASSUME NEW i \in 1 .. c, NEW j \in 1 .. c, i < j
                 PROVE  front[i] < front[j]
      BY DEF Forwards
    <2>1. c + 1 - i \in 1 .. c /\ c + 1 - j \in 1 .. c /\ c + 1 - j < c + 1 - i
      BY <1>1
    <2>2. back[c + 1 - j] > back[c + 1 - i]
      BY <1>2, <2>1 DEF Backwards
    <2>3. back[c + 1 - j] \in 1 .. n /\ back[c + 1 - i] \in 1 .. n
      BY <1>2, <2>1
    <2> QED
      BY <2>2, <2>3
  <1> HIDE DEF front
  <1>6. order \in [1 .. c -> rows] /\ Forwards(order)
    <2>1. \E o \in [1 .. c -> rows] : \A i, j \in DOMAIN o : i < j => o[i] < o[j]
      BY <1>4, <1>5 DEF Forwards
    <2> QED
      BY <2>1 DEF FromTheFront, Forwards, c
  <1> HIDE DEF order
  <1>7. \A r \in rows : \E i \in 1 .. c : order[i] = r
    <2>1. ASSUME NEW i \in 1 .. c, NEW j \in 1 .. c, order[i] = order[j]
          PROVE  i = j
      <3>1. order[i] \in 1 .. n
        BY <1>6
      <3>2. i < j => order[i] < order[j]
        BY <1>6 DEF Forwards
      <3>3. j < i => order[j] < order[i]
        BY <1>6 DEF Forwards
      <3> QED
        BY <1>1, <2>1, <3>1, <3>2, <3>3
    <2>2. order \in Injection(1 .. c, rows)
      BY <1>6, <2>1 DEF Injection, IsInjective
    <2>3. Cardinality(1 .. c) = Cardinality(rows)
      <3>1. Cardinality(1 .. c) = IF 1 > c THEN 0 ELSE c - 1 + 1
        BY <1>1, FS_Interval
      <3> QED
        BY <1>1, <3>1 DEF c
    <2>4. order \in Surjection(1 .. c, rows)
      BY <1>1, <2>2, <2>3, FS_Injection
    <2> QED
      BY <2>4 DEF Surjection
  <1> QED
    BY <1>1, <1>6, <1>7 DEF c, order

(* There is only one such numbering.                                       *)
LEMMA FrontIsOne ==
    ASSUME NEW n \in Nat, NEW rows \in SUBSET (1 .. n),
           NEW o \in [1 .. Cardinality(rows) -> rows], Forwards(o)
    PROVE  o = FromTheFront(rows)
  <1> DEFINE c == Cardinality(rows)
             p == FromTheFront(rows)
             Other == {k \in 1 .. c : o[k] # p[k]}
  <1>1. /\ c \in Nat /\ IsFiniteSet(rows)
        /\ p \in [1 .. c -> rows] /\ Forwards(p)
        /\ \A r \in rows : \E i \in 1 .. c : p[i] = r
    BY FrontIs
  <1> HIDE DEF p
  <1>2. /\ o \in [1 .. c -> rows]
        /\ \A r \in rows : \E i \in 1 .. c : o[i] = r
    <2>1. ASSUME NEW i \in 1 .. c, NEW j \in 1 .. c, o[i] = o[j]
          PROVE  i = j
      <3>1. o[i] \in 1 .. n
        OBVIOUS
      <3>2. i < j => o[i] < o[j]
        BY DEF Forwards
      <3>3. j < i => o[j] < o[i]
        BY DEF Forwards
      <3> QED
        BY <1>1, <2>1, <3>1, <3>2, <3>3
    <2>2. o \in Injection(1 .. c, rows)
      BY <2>1 DEF Injection, IsInjective
    <2>3. Cardinality(1 .. c) = Cardinality(rows)
      <3>1. Cardinality(1 .. c) = IF 1 > c THEN 0 ELSE c - 1 + 1
        BY <1>1, FS_Interval
      <3> QED
        BY <1>1, <3>1
    <2>4. o \in Surjection(1 .. c, rows)
      BY <1>1, <2>2, <2>3, FS_Injection
    <2> QED
      BY <2>4 DEF Surjection
  <1> HIDE DEF c
  <1>3. Other = {}
    <2>1. SUFFICES ASSUME Other # {} PROVE FALSE
      OBVIOUS
    <2>2. PICK k \in Other : \A m \in Other : k <= m
      <3>1. Other \in SUBSET Nat
        OBVIOUS
      <3> HIDE DEF Other
      <3> QED
        BY <2>1, <3>1, Removing!Least
    <2>3. k \in 1 .. c /\ o[k] \in 1 .. n /\ p[k] \in 1 .. n /\ o[k] # p[k]
      BY <1>1, <1>2, <2>2
    <2>4. \A m \in 1 .. c : m < k => o[m] = p[m]
      BY <1>1, <2>2, <2>3
    <2>5. CASE o[k] < p[k]
      <3>1. PICK j \in 1 .. c : p[j] = o[k]
        BY <1>1, <1>2, <2>3
      <3>2. CASE j < k
        <4>1. o[j] < o[k] /\ o[j] = p[j]
          BY <1>2, <2>3, <2>4, <3>2 DEF Forwards
        <4> QED
          BY <2>3, <3>1, <4>1
      <3>3. CASE k < j
        <4>1. p[k] < p[j] /\ p[j] \in 1 .. n
          BY <1>1, <2>3, <3>3 DEF Forwards
        <4> QED
          BY <2>3, <2>5, <3>1, <4>1
      <3> QED
        BY <1>1, <2>3, <3>1, <3>2, <3>3
    <2>6. CASE p[k] < o[k]
      <3>1. PICK j \in 1 .. c : o[j] = p[k]
        BY <1>1, <1>2, <2>3
      <3>2. CASE j < k
        <4>1. p[j] < p[k] /\ o[j] = p[j]
          BY <1>1, <2>3, <2>4, <3>2 DEF Forwards
        <4> QED
          BY <2>3, <3>1, <4>1
      <3>3. CASE k < j
        <4>1. o[k] < o[j] /\ o[j] \in 1 .. n
          BY <1>2, <2>3, <3>3 DEF Forwards
        <4> QED
          BY <2>3, <2>6, <3>1, <4>1
      <3> QED
        BY <1>1, <2>3, <3>1, <3>2, <3>3
    <2> QED
      BY <2>3, <2>5, <2>6
  <1>4. \A k \in 1 .. c : o[k] = p[k]
    BY <1>3
  <1>5. o = p
    <2>1. o = [k \in 1 .. c |-> o[k]] /\ p = [k \in 1 .. c |-> p[k]]
      BY <1>1, <1>2
    <2>2. [k \in 1 .. c |-> o[k]] = [k \in 1 .. c |-> p[k]]
      BY <1>4
    <2> QED
      BY <2>1, <2>2
  <1> QED
    BY <1>5 DEF p

LEMMA PickIs ==
    ASSUME table \in Seq(Rules), NEW rows \in SUBSET DOMAIN table
    PROVE  /\ Cardinality(rows) \in Nat /\ IsFiniteSet(rows)
           /\ Pick(rows) \in Seq(Rules) /\ Len(Pick(rows)) = Cardinality(rows)
           /\ \A i \in 1 .. Cardinality(rows) : Pick(rows)[i] = table[FromTheFront(rows)[i]]
  <1> DEFINE c == Cardinality(rows)
             front == FromTheFront(rows)
  <1>1. c \in Nat /\ IsFiniteSet(rows) /\ front \in [1 .. c -> rows]
    <2>1. Len(table) \in Nat /\ rows \in SUBSET (1 .. Len(table))
      OBVIOUS
    <2> QED
      BY <2>1, FrontIs
  <1>2. Pick(rows) = [i \in 1 .. c |-> table[front[i]]]
    BY DEF Pick
  <1> HIDE DEF c, front
  <1>3. \A i \in 1 .. c : table[front[i]] \in Rules
    <2>1. \A r \in DOMAIN table : table[r] \in Rules
      BY ElementOfSeq
    <2> QED
      BY <1>1, <2>1
  <1>4. Pick(rows) \in Seq(Rules) /\ Len(Pick(rows)) = c
    BY <1>1, <1>2, <1>3
  <1>5. \A i \in 1 .. c : Pick(rows)[i] = table[front[i]]
    BY <1>2
  <1> QED
    BY <1>1, <1>4, <1>5 DEF c, front

(* Rows in front of others come first.                                     *)
LEMMA PickConcat ==
    ASSUME table \in Seq(Rules), NEW low \in SUBSET DOMAIN table,
           NEW high \in SUBSET DOMAIN table, \A i \in low : \A j \in high : i < j
    PROVE  /\ Cardinality(low \cup high) = Cardinality(low) + Cardinality(high)
           /\ Pick(low \cup high) = Pick(low) \o Pick(high)
  <1> DEFINE a == Cardinality(low)
             b == Cardinality(high)
             all == low \cup high
             p == FromTheFront(low)
             q == FromTheFront(high)
             o == [i \in 1 .. a + b |-> IF i <= a THEN p[i] ELSE q[i - a]]
  <1>1. /\ Len(table) \in Nat /\ DOMAIN table = 1 .. Len(table)
        /\ low \in SUBSET (1 .. Len(table)) /\ high \in SUBSET (1 .. Len(table))
    OBVIOUS
  <1>2. /\ a \in Nat /\ IsFiniteSet(low) /\ p \in [1 .. a -> low] /\ Forwards(p)
        /\ b \in Nat /\ IsFiniteSet(high) /\ q \in [1 .. b -> high] /\ Forwards(q)
    BY <1>1, FrontIs
  <1>3. Cardinality(all) = a + b
    <2>1. low \cap high = {}
      BY <1>1
    <2>2. Cardinality(low \cap high) = 0
      BY <2>1, FS_EmptySet
    <2>3. Cardinality(low \cup high) = Cardinality(low) + Cardinality(high) - Cardinality(low \cap high)
      BY <1>2, FS_Union
    <2> QED
      BY <1>2, <2>2, <2>3
  <1> HIDE DEF a, b, p, q
  <1>4. ASSUME NEW i \in 1 .. a + b
        PROVE  /\ i <= a => i \in 1 .. a /\ o[i] = p[i] /\ p[i] \in low
               /\ ~(i <= a) => i - a \in 1 .. b /\ o[i] = q[i - a] /\ q[i - a] \in high
    <2>1. i <= a => i \in 1 .. a
      BY <1>2
    <2>2. ~(i <= a) => i - a \in 1 .. b
      BY <1>2
    <2> QED
      BY <1>2, <2>1, <2>2
  <1>5. o \in [1 .. a + b -> all]
    BY <1>4
  <1> HIDE DEF o
  <1>6. Forwards(o)
    <2> SUFFICES ASSUME NEW i \in 1 .. a + b, NEW j \in 1 .. a + b, i < j
                 PROVE  o[i] < o[j]
      BY <1>5 DEF Forwards
    <2>1. CASE j <= a
      <3>1. i <= a
        BY <1>2, <2>1
      <3> QED
        BY <1>2, <1>4, <2>1, <3>1 DEF Forwards
    <2>2. CASE i <= a /\ ~(j <= a)
      BY <1>4, <2>2
    <2>3. CASE ~(i <= a)
      <3>1. ~(j <= a) /\ i - a < j - a
        BY <1>2, <2>3
      <3> QED
        BY <1>2, <1>4, <2>3, <3>1 DEF Forwards
    <2> QED
      BY <2>1, <2>2, <2>3
  <1>7. o = FromTheFront(all)
    <2>1. all \in SUBSET (1 .. Len(table)) /\ o \in [1 .. Cardinality(all) -> all]
      BY <1>1, <1>3, <1>5
    <2> HIDE DEF all
    <2> QED
      BY <1>1, <1>6, <2>1, FrontIsOne
  <1>8. /\ Pick(low) \in Seq(Rules) /\ Len(Pick(low)) = a
        /\ \A i \in 1 .. a : Pick(low)[i] = table[p[i]]
        /\ Pick(high) \in Seq(Rules) /\ Len(Pick(high)) = b
        /\ \A i \in 1 .. b : Pick(high)[i] = table[q[i]]
    BY PickIs DEF a, b, p, q
  <1>9. /\ Pick(all) \in Seq(Rules) /\ Len(Pick(all)) = a + b
        /\ \A i \in 1 .. a + b : Pick(all)[i] = table[o[i]]
    <2>1. all \in SUBSET DOMAIN table
      OBVIOUS
    <2> HIDE DEF all
    <2> QED
      BY <1>3, <1>7, <2>1, PickIs
  <1>10. /\ Pick(low) \o Pick(high) \in Seq(Rules) /\ Len(Pick(low) \o Pick(high)) = a + b
         /\ \A i \in 1 .. a + b : (Pick(low) \o Pick(high))[i]
                                     = IF i <= a THEN Pick(low)[i] ELSE Pick(high)[i - a]
    <2> DEFINE s == Pick(low)
               t == Pick(high)
    <2>1. s \in Seq(Rules) /\ Len(s) = a /\ t \in Seq(Rules) /\ Len(t) = b
      BY <1>8
    <2> HIDE DEF s, t
    <2>2. /\ s \o t \in Seq(Rules) /\ Len(s \o t) = a + b
          /\ \A i \in 1 .. a + b : (s \o t)[i] = IF i <= a THEN s[i] ELSE t[i - a]
      BY <2>1, ConcatProperties
    <2> QED
      BY <2>2 DEF s, t
  <1> HIDE DEF all
  <1>11. \A i \in 1 .. a + b : Pick(all)[i] = (Pick(low) \o Pick(high))[i]
    <2> SUFFICES ASSUME NEW i \in 1 .. a + b
                 PROVE  Pick(all)[i] = (Pick(low) \o Pick(high))[i]
      OBVIOUS
    <2>1. Pick(all)[i] = table[o[i]]
      BY <1>9
    <2>2. CASE i <= a
      <3>1. (Pick(low) \o Pick(high))[i] = Pick(low)[i]
        BY <1>10, <2>2
      <3> QED
        BY <1>4, <1>8, <2>1, <2>2, <3>1
    <2>3. CASE ~(i <= a)
      <3>1. (Pick(low) \o Pick(high))[i] = Pick(high)[i - a]
        BY <1>10, <2>3
      <3> QED
        BY <1>4, <1>8, <2>1, <2>3, <3>1
    <2> QED
      BY <2>2, <2>3
  <1>12. Pick(all) = Pick(low) \o Pick(high)
    <2> DEFINE s == Pick(all)
               t == Pick(low) \o Pick(high)
    <2>1. s \in Seq(Rules) /\ t \in Seq(Rules) /\ Len(s) = Len(t) /\ Len(s) = a + b
          /\ \A i \in 1 .. Len(s) : s[i] = t[i]
      BY <1>9, <1>10, <1>11
    <2> HIDE DEF s, t
    <2>2. s = t
      BY <2>1, SeqEqual
    <2> QED
      BY <2>2 DEF s, t
  <1> QED
    BY <1>3, <1>12 DEF a, b, all

LEMMA CountIs ==
    ASSUME NEW k \in Nat
    PROVE  Cardinality(1 .. k) = k
  <1>1. Cardinality(1 .. k) = IF 1 > k THEN 0 ELSE k - 1 + 1
    BY FS_Interval
  <1> QED
    BY <1>1

(* A beginning of the table, and one row of it.                            *)
LEMMA PickBeginning ==
    ASSUME table \in Seq(Rules), NEW k \in 0 .. Len(table)
    PROVE  Cardinality(1 .. k) = k /\ FromTheFront(1 .. k) = [i \in 1 .. k |-> i]
  <1>1. k \in Nat /\ Len(table) \in Nat /\ (1 .. k) \in SUBSET (1 .. Len(table))
    OBVIOUS
  <1>2. Cardinality(1 .. k) = k
    BY <1>1, CountIs
  <1> DEFINE o == [i \in 1 .. k |-> i]
             part == 1 .. k
  <1>3. o \in [1 .. k -> part] /\ Forwards(o)
    BY DEF Forwards
  <1>4. o \in [1 .. Cardinality(part) -> part] /\ part \in SUBSET (1 .. Len(table))
    BY <1>1, <1>2, <1>3
  <1> HIDE DEF o, part
  <1>5. o = FromTheFront(part)
    BY <1>1, <1>3, <1>4, FrontIsOne
  <1> QED
    BY <1>2, <1>5 DEF o, part

LEMMA PickAll ==
    ASSUME table \in Seq(Rules)
    PROVE  Pick(DOMAIN table) = table
  <1> DEFINE n == Len(table)
  <1>1. n \in Nat /\ n \in 0 .. Len(table) /\ DOMAIN table = 1 .. n
    OBVIOUS
  <1>2. Cardinality(1 .. n) = n /\ FromTheFront(1 .. n) = [i \in 1 .. n |-> i]
    BY <1>1, PickBeginning
  <1>3. Pick(1 .. n) = [i \in 1 .. n |-> table[i]]
    BY <1>2 DEF Pick
  <1>4. table = [i \in 1 .. n |-> table[i]]
    OBVIOUS
  <1> QED
    BY <1>1, <1>3, <1>4

LEMMA PickOne ==
    ASSUME table \in Seq(Rules), NEW r \in DOMAIN table
    PROVE  Pick({r}) = <<table[r]>> /\ Cardinality({r}) = 1
  <1>1. Cardinality({r}) = 1
    BY FS_Singleton
  <1>2. Len(table) \in Nat /\ {r} \in SUBSET (1 .. Len(table))
    OBVIOUS
  <1>3. FromTheFront({r}) \in [1 .. 1 -> {r}]
    BY <1>1, <1>2, FrontIs
  <1>4. FromTheFront({r})[1] = r
    BY <1>3
  <1>5. Pick({r}) = [i \in 1 .. 1 |-> table[FromTheFront({r})[i]]]
    BY <1>1 DEF Pick
  <1>6. [i \in 1 .. 1 |-> table[FromTheFront({r})[i]]] = <<table[r]>>
    BY <1>4
  <1> QED
    BY <1>1, <1>5, <1>6

LEMMA CutIs ==
    ASSUME NEW a \in Seq(Rules), NEW b \in Seq(Rules)
    PROVE  /\ SubSeq(a \o b, 1, Len(a)) = a
           /\ SubSeq(a \o b, Len(a) + 1, Len(a \o b)) = b
  <1> DEFINE s == a \o b
             n == Len(a)
             m == Len(b)
             front == SubSeq(s, 1, n)
             back == SubSeq(s, n + 1, n + m)
  <1>1. /\ n \in Nat /\ m \in Nat /\ s \in Seq(Rules) /\ Len(s) = n + m
        /\ \A i \in 1 .. n + m : s[i] = IF i <= n THEN a[i] ELSE b[i - n]
    BY ConcatProperties
  <1> HIDE DEF s
  <1>2. \A i \in 1 .. n + m : s[i] \in Rules
    BY <1>1, ElementOfSeq
  <1>3. front = a
    <2>1. \A i \in 1 .. n : s[i] \in Rules
      BY <1>1, <1>2
    <2>2. /\ front \in Seq(Rules) /\ Len(front) = IF 1 <= n THEN n - 1 + 1 ELSE 0
          /\ \A i \in 1 .. n - 1 + 1 : front[i] = s[1 + i - 1]
      BY <1>1, <2>1, SubSeqProperties
    <2> HIDE DEF front
    <2>3. Len(front) = n /\ \A i \in 1 .. n : front[i] = a[i]
      BY <1>1, <2>2
    <2> QED
      BY <2>2, <2>3, SeqEqual
  <1>4. back = b
    <2>1. \A i \in n + 1 .. n + m : s[i] \in Rules
      BY <1>1, <1>2
    <2>2. /\ back \in Seq(Rules)
          /\ Len(back) = IF n + 1 <= n + m THEN n + m - (n + 1) + 1 ELSE 0
          /\ \A i \in 1 .. n + m - (n + 1) + 1 : back[i] = s[n + 1 + i - 1]
      BY <1>1, <2>1, SubSeqProperties
    <2> HIDE DEF back
    <2>3. ASSUME NEW i \in 1 .. m PROVE back[i] = b[i]
      <3>1. i \in 1 .. n + m - (n + 1) + 1 /\ n + 1 + i - 1 = n + i
        BY <1>1
      <3>2. n + i \in 1 .. n + m /\ ~(n + i <= n) /\ n + i - n = i
        BY <1>1
      <3>3. s[n + i] = b[i]
        BY <1>1, <3>2
      <3> QED
        BY <2>2, <3>1, <3>3
    <2>4. Len(back) = m
      BY <1>1, <2>2
    <2> QED
      BY <2>2, <2>3, <2>4, SeqEqual
  <1> QED
    BY <1>1, <1>3, <1>4 DEF s

(* The loop of dropMimeData when the rows in `left' are still in place.    *)
Place(left, pos) == Cardinality({x \in left : x < pos}) + 1

Taken(left, pos) ==
    [rows |-> Pick(left), taken |-> Pick(DOMAIN table \ left), pos |-> Place(left, pos)]

(* The row taken next is the last of those to be moved: all in front of it *)
(* are in place, and its number is the one it had.                         *)
LEMMA RowTaken ==
    ASSUME table \in Seq(Rules), NEW left \in SUBSET DOMAIN table, NEW r \in left,
           \A x \in DOMAIN table \ left : r < x
    PROVE  /\ RemoveAt(Pick(left), r) = Pick(left \ {r})
           /\ Pick(left)[r] = table[r]
           /\ <<table[r]>> \o Pick(DOMAIN table \ left) = Pick(DOMAIN table \ (left \ {r}))
  <1> DEFINE before == 1 .. r - 1
             upTo == 1 .. r
             behind == {x \in left : x > r}
             from == {r} \cup behind
  <1>1. Len(table) \in Nat /\ DOMAIN table = 1 .. Len(table) /\ r \in 1 .. Len(table)
    OBVIOUS
  <1>2. \A x \in 1 .. Len(table) : x < r => x \in left
    BY <1>1
  <1>3. /\ before \in SUBSET DOMAIN table /\ upTo \in SUBSET DOMAIN table
        /\ behind \in SUBSET DOMAIN table /\ from \in SUBSET DOMAIN table
        /\ left = before \cup from /\ left = upTo \cup behind
        /\ left \ {r} = before \cup behind
        /\ \A i \in before : \A j \in from : i < j
        /\ \A i \in upTo : \A j \in behind : i < j
        /\ \A i \in before : \A j \in behind : i < j
    BY <1>1, <1>2
  <1>4. /\ Cardinality(before) = r - 1 /\ Cardinality(upTo) = r
        /\ FromTheFront(upTo) = [i \in 1 .. r |-> i]
    <2>1. r - 1 \in 0 .. Len(table) /\ r \in 0 .. Len(table)
      BY <1>1
    <2> QED
      BY <2>1, PickBeginning
  <1> HIDE DEF before, upTo, behind, from
  <1>5. /\ Pick(left) = Pick(before) \o Pick(from) /\ Pick(left) = Pick(upTo) \o Pick(behind)
        /\ Pick(left \ {r}) = Pick(before) \o Pick(behind)
    BY <1>3, PickConcat
  <1>6. /\ Pick(before) \in Seq(Rules) /\ Pick(from) \in Seq(Rules) /\ Pick(upTo) \in Seq(Rules)
        /\ Pick(behind) \in Seq(Rules) /\ Len(Pick(before)) = r - 1 /\ Len(Pick(upTo)) = r
        /\ Pick(upTo)[r] = table[r]
    <2>1. /\ Pick(before) \in Seq(Rules) /\ Len(Pick(before)) = r - 1
      BY <1>3, <1>4, PickIs
    <2>2. /\ Pick(from) \in Seq(Rules) /\ Pick(behind) \in Seq(Rules)
      BY <1>3, PickIs
    <2>3. /\ Pick(upTo) \in Seq(Rules) /\ Len(Pick(upTo)) = r
          /\ \A i \in 1 .. r : Pick(upTo)[i] = table[FromTheFront(upTo)[i]]
      BY <1>3, <1>4, PickIs
    <2>4. r \in 1 .. r
      BY <1>1
    <2> QED
      BY <1>4, <2>1, <2>2, <2>3, <2>4
  <1>7. RemoveAt(Pick(left), r) = Pick(left \ {r})
    <2>1. SubSeq(Pick(left), 1, r - 1) = Pick(before)
      <3> DEFINE a == Pick(before)
                 b == Pick(from)
      <3>1. a \in Seq(Rules) /\ b \in Seq(Rules) /\ Len(a) = r - 1 /\ Pick(left) = a \o b
        BY <1>5, <1>6
      <3> HIDE DEF a, b
      <3>2. SubSeq(a \o b, 1, Len(a)) = a
        BY <3>1, CutIs
      <3> QED
        BY <3>1, <3>2 DEF a
    <2>2. SubSeq(Pick(left), r + 1, Len(Pick(left))) = Pick(behind)
      <3> DEFINE a == Pick(upTo)
                 b == Pick(behind)
      <3>1. a \in Seq(Rules) /\ b \in Seq(Rules) /\ Len(a) = r /\ Pick(left) = a \o b
        BY <1>5, <1>6
      <3> HIDE DEF a, b
      <3>2. SubSeq(a \o b, Len(a) + 1, Len(a \o b)) = b
        BY <3>1, CutIs
      <3> QED
        BY <3>1, <3>2 DEF b
    <2> QED
      BY <1>5, <2>1, <2>2 DEF RemoveAt
  <1>8. Pick(left)[r] = table[r]
    <2>1. r \in 1 .. Len(Pick(upTo)) + Len(Pick(behind)) /\ r <= Len(Pick(upTo))
      BY <1>1, <1>6, LenProperties
    <2>2. (Pick(upTo) \o Pick(behind))[r] = Pick(upTo)[r]
      BY <1>6, <2>1, ConcatProperties
    <2> QED
      BY <1>5, <1>6, <2>2
  <1>9. <<table[r]>> \o Pick(DOMAIN table \ left) = Pick(DOMAIN table \ (left \ {r}))
    <2>1. DOMAIN table \ (left \ {r}) = {r} \cup (DOMAIN table \ left)
      OBVIOUS
    <2>2. {r} \in SUBSET DOMAIN table /\ (DOMAIN table \ left) \in SUBSET DOMAIN table
          /\ \A i \in {r} : \A j \in DOMAIN table \ left : i < j
      OBVIOUS
    <2>3. Pick({r} \cup (DOMAIN table \ left)) = Pick({r}) \o Pick(DOMAIN table \ left)
      BY <2>2, PickConcat
    <2> QED
      BY <2>1, <2>3, PickOne
  <1> QED
    BY <1>7, <1>8, <1>9

(* The position moves along if the row was in front of it.                 *)
LEMMA PositionMoves ==
    ASSUME table \in Seq(Rules), NEW left \in SUBSET DOMAIN table, NEW r \in left,
           \A x \in DOMAIN table \ left : r < x, NEW pos \in ViewRows, pos # r
    PROVE  /\ Place(left, pos) \in Nat
           /\ Place(left \ {r}, pos)
                = IF r <= Place(left, pos) /\ Place(left, pos) > 1
                  THEN Place(left, pos) - 1 ELSE Place(left, pos)
  <1> DEFINE low == {x \in left : x < pos}
             less == {x \in left \ {r} : x < pos}
             c == Cardinality(low)
  <1>1. /\ Len(table) \in Nat /\ DOMAIN table = 1 .. Len(table) /\ r \in 1 .. Len(table)
        /\ pos \in 1 .. Len(table) + 1
    BY DEF ViewRows
  <1>2. \A x \in 1 .. Len(table) : x <= r => x \in left
    BY <1>1
  <1>3. c \in Nat /\ IsFiniteSet(low)
    <2>1. low \in SUBSET DOMAIN table
      OBVIOUS
    <2> HIDE DEF low
    <2> QED
      BY <2>1, PickIs
  <1>p. Place(left, pos) = c + 1 /\ Place(left \ {r}, pos) = Cardinality(less) + 1
    BY DEF Place
  <1>4. CASE r < pos
    <2>1. less = low \ {r} /\ r \in low
      BY <1>1, <1>4
    <2>2. 1 .. r \in SUBSET low
      BY <1>1, <1>2, <1>4
    <2> HIDE DEF low, less
    <2>3. Cardinality(less) = c - 1
      BY <1>3, <2>1, FS_RemoveElement
    <2>4. Cardinality(1 .. r) = r
      BY <1>1, CountIs
    <2>5. r <= c
      BY <1>3, <2>2, <2>4, FS_Subset
    <2> HIDE DEF c
    <2> QED
      BY <1>1, <1>3, <1>p, <2>3, <2>5
  <1>5. CASE pos < r
    <2>1. less = low /\ low = 1 .. pos - 1
      BY <1>1, <1>2, <1>5
    <2> HIDE DEF low, less
    <2>2. c = pos - 1
      <3>1. pos - 1 \in Nat
        BY <1>1
      <3> QED
        BY <2>1, <3>1, CountIs
    <2>3. Cardinality(less) = c
      BY <2>1
    <2> HIDE DEF c
    <2> QED
      BY <1>1, <1>5, <1>p, <2>2, <2>3
  <1> QED
    BY <1>1, <1>4, <1>5

LEMMA TakenIs ==
    ASSUME table \in Seq(Rules), NEW left \in SUBSET DOMAIN table, NEW r \in left,
           \A x \in DOMAIN table \ left : r < x, NEW pos \in ViewRows, pos # r
    PROVE  TakeOut(Taken(left, pos), r) = Taken(left \ {r}, pos)
  <1> DEFINE s == Taken(left, pos)
  <1>1. /\ s.rows = Pick(left) /\ s.taken = Pick(DOMAIN table \ left)
        /\ s.pos = Place(left, pos)
    BY DEF Taken
  <1> HIDE DEF s
  <1>2. TakeOut(s, r) = [rows |-> RemoveAt(s.rows, r), taken |-> <<s.rows[r]>> \o s.taken,
                         pos |-> IF r <= s.pos /\ s.pos > 1 THEN s.pos - 1 ELSE s.pos]
    BY DEF TakeOut
  <1>3. /\ RemoveAt(s.rows, r) = Pick(left \ {r})
        /\ <<s.rows[r]>> \o s.taken = Pick(DOMAIN table \ (left \ {r}))
    <2>1. /\ RemoveAt(Pick(left), r) = Pick(left \ {r})
          /\ Pick(left)[r] = table[r]
          /\ <<table[r]>> \o Pick(DOMAIN table \ left) = Pick(DOMAIN table \ (left \ {r}))
      BY RowTaken
    <2> QED
      BY <1>1, <2>1
  <1>4. (IF r <= s.pos /\ s.pos > 1 THEN s.pos - 1 ELSE s.pos)
            = Place(left \ {r}, pos)
    BY <1>1, PositionMoves
  <1> QED
    BY <1>2, <1>3, <1>4 DEF Taken, s

(* Rows are dropped where they belong.                                     *)
LEMMA RowsPlaced ==
    ASSUME table \in Seq(Rules), NEW rows \in SUBSET DOMAIN table, NEW pos \in ViewRows \ rows
    PROVE  Moved(rows, pos) = CutAndPaste(rows, pos)
  <1> DEFINE n == Len(table)
             order == FromTheBack(rows)
             c == Cardinality(rows)
             start == [rows |-> table, taken |-> <<>>, pos |-> pos]
             Left(i) == DOMAIN table \ {order[k] : k \in 1 .. i}
             S == [i \in 0 .. c |-> {Taken(Left(i), pos)}]
             stay == DOMAIN table \ rows
             low == {r \in stay : r < pos}
             high == {r \in stay : r >= pos}
  <1>1. n \in Nat /\ rows \in SUBSET (1 .. n) /\ pos \in 1 .. n + 1 /\ DOMAIN table = 1 .. n
    BY DEF ViewRows
  <1>2. c \in Nat /\ order \in [1 .. c -> rows] /\ Backwards(order)
    BY <1>1, FromTheBackIs
  <1>3. \A r \in rows : \E k \in 1 .. c : order[k] = r
    <2>1. ASSUME NEW i \in 1 .. c, NEW j \in 1 .. c, order[i] = order[j]
          PROVE  i = j
      <3> HIDE DEF order, c
      <3>1. order[i] \in 1 .. n
        BY <1>1, <1>2
      <3>2. i < j => order[i] > order[j]
        BY <1>2 DEF Backwards
      <3>3. j < i => order[j] > order[i]
        BY <1>2 DEF Backwards
      <3> QED
        BY <1>1, <1>2, <2>1, <3>1, <3>2, <3>3
    <2>2. order \in Injection(1 .. c, rows)
      <3> HIDE DEF order, c
      <3> QED
        BY <1>2, <2>1 DEF Injection, IsInjective
    <2>3. Cardinality(1 .. c) = Cardinality(rows) /\ IsFiniteSet(rows)
      BY <1>2, CountIs, PickIs
    <2>4. order \in Surjection(1 .. c, rows)
      <3> HIDE DEF order, c
      <3> QED
        BY <2>2, <2>3, FS_Injection
    <2> HIDE DEF order, c
    <2> QED
      BY <2>4 DEF Surjection
  <1>4. start \in S[0]
    <2>1. Left(0) = DOMAIN table /\ 0 \in 0 .. c
      <3> HIDE DEF order, c
      <3>1. {order[k] : k \in 1 .. 0} = {}
        OBVIOUS
      <3>2. 0 \in 0 .. c
        BY <1>2
      <3>3. Left(0) = DOMAIN table \ {}
        BY <3>1
      <3> QED
        BY <3>2, <3>3
    <2>2. Pick(DOMAIN table) = table
      BY PickAll
    <2>3. Pick({}) = <<>>
      <3>1. Cardinality({}) = 0
        BY FS_EmptySet
      <3> QED
        BY <3>1 DEF Pick
    <2>4. Place(DOMAIN table, pos) = pos
      <3>1. {x \in DOMAIN table : x < pos} = 1 .. pos - 1 /\ pos - 1 \in Nat
        BY <1>1
      <3>2. Cardinality(1 .. pos - 1) = pos - 1
        BY <3>1, CountIs
      <3>3. Place(DOMAIN table, pos) = Cardinality(1 .. pos - 1) + 1
        BY <3>1 DEF Place
      <3> QED
        BY <1>1, <3>2, <3>3
    <2>5. Taken(DOMAIN table, pos) = start
      <3>1. DOMAIN table \ DOMAIN table = {}
        OBVIOUS
      <3> QED
        BY <2>2, <2>3, <2>4, <3>1 DEF Taken
    <2> HIDE DEF start, Left
    <2> QED
      BY <2>1, <2>5
  <1> HIDE DEF start
  <1>5. ASSUME NEW i \in 1 .. c, NEW s \in S[i - 1]
        PROVE  TakeOut(s, order[i]) \in S[i]
    <2> HIDE DEF n, order, c
    <2>1. i - 1 \in 0 .. c /\ i \in 0 .. c /\ order[i] \in rows
      BY <1>2
    <2>2. s = Taken(Left(i - 1), pos)
      BY <2>1
    <2>3. Left(i - 1) \in SUBSET DOMAIN table /\ Left(i) = Left(i - 1) \ {order[i]}
      <3>1. ASSUME NEW k \in 1 .. i PROVE k \in 1 .. i - 1 \/ k = i
        BY <1>2
      <3>2. ASSUME NEW k \in 1 .. i - 1 PROVE k \in 1 .. i
        BY <1>2
      <3>3. i \in 1 .. i
        BY <1>2
      <3> QED
        BY <3>1, <3>2, <3>3
    <2>4. ASSUME NEW x \in DOMAIN table \ Left(i - 1)
          PROVE  order[i] < x /\ x # order[i]
      <3>1. PICK k \in 1 .. i - 1 : order[k] = x
        BY <2>4
      <3>2. k \in 1 .. c /\ k < i
        BY <1>2
      <3>3. order[k] > order[i] /\ order[k] \in 1 .. n /\ order[i] \in 1 .. n
        BY <1>1, <1>2, <3>2 DEF Backwards
      <3> QED
        BY <1>1, <3>1, <3>3
    <2>5. order[i] \in Left(i - 1) /\ pos # order[i]
      BY <2>1, <2>4
    <2> HIDE DEF Left
    <2>6. TakeOut(s, order[i]) = Taken(Left(i), pos)
      BY <2>2, <2>3, <2>4, <2>5, TakenIs
    <2> QED
      BY <2>1, <2>6
  <1>6. Taking!Fold(start, order) \in S[c]
    <2>1. DOMAIN order = 1 .. c
      BY <1>2
    <2> HIDE DEF S, order, c
    <2> QED
      BY <1>2, <1>4, <1>5, <2>1, Taking!FoldReaches
  <1>7. FoldLeft(TakeOut, start, order) = Taking!Fold(start, order)
    BY DEF FoldLeft, MapThenFoldSet, Max, Taking!Fold, Taking!Folds, Taking!Largest
  <1>8. FoldLeft(TakeOut, start, order) = Taken(stay, pos)
    <2> HIDE DEF order, c
    <2>1. c \in 0 .. c
      BY <1>2
    <2>2. Left(c) = stay
      BY <1>2, <1>3
    <2> HIDE DEF Left, stay
    <2> QED
      BY <1>6, <1>7, <2>1, <2>2
  <1>9. Moved(rows, pos) = PutIn(Pick(stay), Place(stay, pos), Pick(rows))
    <2>1. Moved(rows, pos) = LET out == Taken(stay, pos) IN PutIn(out.rows, out.pos, out.taken)
      <3> HIDE DEF stay
      <3> QED
        BY <1>8 DEF Moved, start, order
    <2>2. DOMAIN table \ stay = rows
      OBVIOUS
    <2> HIDE DEF stay
    <2> QED
      BY <2>1, <2>2 DEF Taken
  <1>10. /\ Pick(stay) = Pick(low) \o Pick(high) /\ Pick(low) \in Seq(Rules)
         /\ Pick(high) \in Seq(Rules) /\ Place(stay, pos) = Len(Pick(low)) + 1
         /\ Len(Pick(low)) \in Nat
    <2>1. /\ low \in SUBSET DOMAIN table /\ high \in SUBSET DOMAIN table
          /\ stay = low \cup high /\ \A i \in low : \A j \in high : i < j
      BY <1>1
    <2>2. Place(stay, pos) = Cardinality(low) + 1
      BY DEF Place
    <2> HIDE DEF low, high, stay
    <2> QED
      BY <2>1, <2>2, PickConcat, PickIs
  <1>11. CutAndPaste(rows, pos) = Pick(low) \o Pick(rows) \o Pick(high)
    BY DEF CutAndPaste
  <1> HIDE DEF low, high, stay
  <1>13. PutIn(Pick(stay), Place(stay, pos), Pick(rows)) = Pick(low) \o Pick(rows) \o Pick(high)
    <2> DEFINE a == Pick(low)
               b == Pick(high)
               s == Pick(stay)
               k == Place(stay, pos)
               m == Pick(rows)
    <2>1. /\ a \in Seq(Rules) /\ b \in Seq(Rules) /\ s = a \o b /\ k = Len(a) + 1
      BY <1>10
    <2> HIDE DEF a, b, s, k, m
    <2>2. PutIn(s, k, m) = a \o m \o b
      <3>1. SubSeq(a \o b, 1, Len(a)) = a /\ SubSeq(a \o b, Len(a) + 1, Len(a \o b)) = b
        BY <2>1, CutIs
      <3>2. Len(a) \in Nat
        BY <2>1
      <3>3. SubSeq(s, 1, k - 1) = a
        <4>1. k - 1 = Len(a)
          BY <2>1, <3>2
        <4> QED
          BY <2>1, <3>1, <4>1
      <3>4. SubSeq(s, k, Len(s)) = b
        BY <2>1, <3>1
      <3> QED
        BY <3>3, <3>4 DEF PutIn
    <2> QED
      BY <2>2 DEF a, b, s, k, m
  <1> QED
    BY <1>9, <1>11, <1>13

-----------------------------------------------------------------------------
(* The invariant *)

(* What a source should have in the rule table.  The rules of a new row    *)
(* come only with the next change, if its description is written first,    *)
(* but they match nothing then: AsShown allows for that, and for no rule   *)
(* that is not shown.                                                      *)
Shown(source) ==
    IF source = Filters THEN Edited(table)
    ELSE IF source \in DOMAIN bars /\ bars[source].marked /\ bars[source].search # NoSearch
         THEN {Highlight(source, bars[source].search)}
         ELSE {}

Typed ==
    /\ table \in Seq(Rules) /\ Len(table) <= MaxRows
    /\ nextUid \in 0 .. Cardinality(Bars)
    /\ DOMAIN bars \subseteq 1 .. nextUid
    /\ \A name \in DOMAIN bars : DOMAIN bars[name] = {"text", "mode", "marked", "search"}

AsShown(rules, shown) == rules \subseteq shown /\ Effective(rules) = Effective(shown)

RulesAreShown ==
    /\ Sound(ruleTable) /\ ruleTable.onChange = FALSE
    /\ DOMAIN ruleTable.sources \subseteq 0 .. nextUid
    /\ \A source : AsShown(RulesFrom(ruleTable, source), Shown(source))

RuleInv == Typed /\ RulesAreShown /\ DiscardsUpToDate

LEMMA InitRules == Init => RuleInv
  <1> SUFFICES ASSUME Init PROVE RuleInv
    OBVIOUS
  <1>1. /\ table = <<>> /\ bars = <<>> /\ nextUid = 0
        /\ ruleTable = [sources |-> <<>>, rules |-> {}, onChange |-> FALSE, discards |-> {}]
    BY DEF Init
  <1>2. Typed
    <2>1. Cardinality(Bars) \in Nat /\ MaxRows \in Nat
      BY BarsAssumption, BoundsAssumption, FS_CardinalityType
    <2> QED
      BY <1>1, <2>1 DEF Typed
  <1>3. \A source : RulesFrom(ruleTable, source) = {} /\ Shown(source) = {}
    BY <1>1 DEF RulesFrom, Shown, Edited, ToSet
  <1>4. RulesAreShown
    <2>1. \A source : AsShown(RulesFrom(ruleTable, source), Shown(source))
      BY <1>3 DEF AsShown
    <2> QED
      BY <1>1, <2>1 DEF RulesAreShown, Sound
  <1>5. DiscardsUpToDate
    BY <1>1 DEF DiscardsUpToDate, DiscardsOf
  <1> QED
    BY <1>2, <1>4, <1>5 DEF RuleInv

(* Every change of the rows but that of a description.                     *)
LEMMA RowsAreShown ==
    ASSUME RuleInv, NEW rows \in Seq(Rules), Len(rows) <= MaxRows, ShowsRows(rows)
    PROVE  RuleInv'
  <1>1. /\ table' = rows /\ ruleTable' = UpdateFilterRuleTable(ruleTable, rows)
        /\ bars' = bars /\ nextUid' = nextUid
    BY DEF ShowsRows
  <1>2. Typed'
    BY <1>1 DEF RuleInv, Typed
  <1>3. Sound(ruleTable) /\ DOMAIN ruleTable.sources \subseteq 0 .. nextUid
    BY DEF RuleInv, RulesAreShown
  <1>4. Len(rows) \in Nat /\ DOMAIN rows = 1 .. Len(rows)
    OBVIOUS
  <1> DEFINE u == UpdateFilterRuleTable(ruleTable, rows)
  <1>5. /\ Sound(u) /\ UpToDate(u) /\ u.onChange = FALSE
        /\ DOMAIN u.sources \subseteq DOMAIN ruleTable.sources \cup {Filters}
        /\ \A s : RulesFrom(u, s) = IF s = Filters THEN Edited(rows) ELSE RulesFrom(ruleTable, s)
    BY <1>3, <1>4, UpdateIs
  <1> HIDE DEF u
  <1>6. ruleTable' = u
    BY <1>1 DEF u
  <1>7. DOMAIN u.sources \subseteq 0 .. nextUid'
    BY <1>1, <1>3, <1>5 DEF Filters, RuleInv, Typed
  <1>8. ASSUME NEW source
        PROVE  AsShown(RulesFrom(u, source), Shown(source)')
    <2>1. CASE source = Filters
      BY <1>1, <1>5, <2>1 DEF Shown, AsShown
    <2>2. CASE source # Filters
      <3>1. Shown(source)' = Shown(source)
        BY <1>1, <2>2 DEF Shown
      <3> QED
        BY <1>5, <2>2, <3>1 DEF RuleInv, RulesAreShown
    <2> QED
      BY <2>1, <2>2
  <1>9. RulesAreShown'
    BY <1>5, <1>6, <1>7, <1>8 DEF RulesAreShown, Sound, RulesFrom
  <1>10. DiscardsUpToDate'
    BY <1>5, <1>6 DEF DiscardsUpToDate, UpToDate
  <1> QED
    BY <1>2, <1>9, <1>10 DEF RuleInv

-----------------------------------------------------------------------------
(* One lemma for each action of the editor that does more than to write.   *)

LEMMA WithRowIs ==
    ASSUME RuleInv, NEW row \in ViewRows, row > Len(table) => Room(1)
    PROVE  /\ WithRow(row) \in Seq(Rules) /\ Len(WithRow(row)) <= MaxRows
           /\ row \in DOMAIN WithRow(row)
  <1>1. table \in Seq(Rules) /\ Len(table) \in Nat /\ Len(table) <= MaxRows
    BY DEF RuleInv, Typed
  <1>2. EmptyRule \in Rules
    BY TextsAssumption DEF EmptyRule, Rules
  <1>3. CASE row > Len(table)
    <2>1. Append(table, EmptyRule) \in Seq(Rules)
          /\ Len(Append(table, EmptyRule)) = Len(table) + 1
      BY <1>1, <1>2
    <2>2. Len(table) + 1 <= MaxRows /\ row = Len(table) + 1
      BY <1>1, <1>3 DEF Room, ViewRows
    <2> QED
      BY <1>1, <1>3, <2>1, <2>2 DEF WithRow
  <1>4. CASE ~(row > Len(table))
    <2>1. row \in 1 .. Len(table)
      BY <1>1, <1>4 DEF ViewRows
    <2> QED
      BY <1>1, <1>4, <2>1 DEF WithRow
  <1> QED
    BY <1>3, <1>4

(* One row written over.                                                   *)
LEMMA RowWritten ==
    ASSUME NEW rows \in Seq(Rules), NEW row \in DOMAIN rows, NEW rule \in Rules
    PROVE  /\ [rows EXCEPT ![row] = rule] \in Seq(Rules)
           /\ Len([rows EXCEPT ![row] = rule]) = Len(rows)
  BY ExceptSeq

LEMMA ExpressionSet ==
    ASSUME RuleInv, NEW row, NEW text \in Exps, SetExpression(row, text)
    PROVE  RuleInv'
  <1> DEFINE rows == WithRow(row)
             rule == [rows[row] EXCEPT !.exp = text]
  <1>1. /\ rows \in Seq(Rules) /\ Len(rows) <= MaxRows /\ row \in DOMAIN rows
    BY WithRowIs DEF SetExpression
  <1>2. rule \in Rules
    <2>1. rows[row] \in Rules
      BY <1>1, ElementOfSeq
    <2> QED
      BY <2>1 DEF Rules
  <1>3. ShowsRows([rows EXCEPT ![row] = rule])
    BY DEF SetExpression
  <1> HIDE DEF rows, rule
  <1> QED
    BY <1>1, <1>2, <1>3, RowWritten, RowsAreShown

LEMMA ActionSet ==
    ASSUME RuleInv, NEW row, NEW text \in Acts, SetAction(row, text)
    PROVE  RuleInv'
  <1> DEFINE rows == WithRow(row)
             rule == [rows[row] EXCEPT !.act = text]
  <1>1. /\ rows \in Seq(Rules) /\ Len(rows) <= MaxRows /\ row \in DOMAIN rows
    BY WithRowIs DEF SetAction
  <1>2. rule \in Rules
    <2>1. rows[row] \in Rules
      BY <1>1, ElementOfSeq
    <2> QED
      BY <2>1 DEF Rules
  <1>3. ShowsRows([rows EXCEPT ![row] = rule])
    BY DEF SetAction
  <1> HIDE DEF rows, rule
  <1> QED
    BY <1>1, <1>2, <1>3, RowWritten, RowsAreShown

(* The rule table is left alone: what changed matches nothing.             *)
LEMMA DescriptionSet ==
    ASSUME RuleInv, NEW row, NEW text \in Descs, SetDescription(row, text)
    PROVE  RuleInv'
  <1> DEFINE rows == WithRow(row)
             rule == [rows[row] EXCEPT !.desc = text]
             written == [rows EXCEPT ![row] = rule]
  <1>1. /\ rows \in Seq(Rules) /\ Len(rows) <= MaxRows /\ row \in DOMAIN rows
    BY WithRowIs DEF SetDescription
  <1>2. /\ rows[row] \in Rules /\ rule \in Rules
        /\ rule.exp = rows[row].exp /\ rule.act = rows[row].act
    <2>1. rows[row] \in Rules
      BY <1>1, ElementOfSeq
    <2> QED
      BY <2>1 DEF Rules
  <1>3. /\ table' = written /\ ruleTable' = ruleTable /\ bars' = bars /\ nextUid' = nextUid
    BY DEF SetDescription
  <1>4. table \in Seq(Rules) /\ Len(table) \in Nat
    BY DEF RuleInv, Typed
  <1>5. /\ \A i \in DOMAIN table : i \in DOMAIN rows /\ rows[i] = table[i]
        /\ \A i \in DOMAIN rows \ DOMAIN table : rows[i] = EmptyRule
    BY <1>4 DEF WithRow
  <1> HIDE DEF rows
  <1>6. DOMAIN written = DOMAIN rows
        /\ \A i \in DOMAIN rows : written[i] = IF i = row THEN rule ELSE rows[i]
    BY <1>1
  <1>7. written \in Seq(Rules) /\ Len(written) <= MaxRows
    <2> HIDE DEF rule
    <2> QED
      BY <1>1, <1>2, RowWritten
  <1> HIDE DEF rule, written
  <1>8. \A i \in DOMAIN rows : /\ CompiledRow(written[i]) = CompiledRow(rows[i])
                               /\ ValidRule(written[i]) <=> ValidRule(rows[i])
    BY <1>2, <1>6 DEF CompiledRow, ValidRule, ActionOk
  <1>9. CompiledRow(EmptyRule).exp.text = "none"
    BY DEF CompiledRow, Compiled, Expression, EmptyRule
  <1>10. Edited(table) \subseteq Edited(written)
         /\ Effective(Edited(written)) = Effective(Edited(table))
    <2> DEFINE In(r, s) == \E i \in DOMAIN s : ValidRule(s[i]) /\ r = CompiledRow(s[i])
    <2>1. ASSUME NEW r
          PROVE  /\ r \in Edited(written) <=> In(r, written)
                 /\ r \in Edited(table) <=> In(r, table)
      BY DEF Edited, ToSet
    <2>2. ASSUME NEW r
          PROVE  In(r, written) <=> In(r, rows)
      BY <1>6, <1>8
    <2>3. ASSUME NEW r
          PROVE  /\ In(r, table) => In(r, rows)
                 /\ r.exp.text # "none" => (In(r, rows) <=> In(r, table))
      BY <1>5, <1>9
    <2> HIDE DEF In
    <2> QED
      BY <2>1, <2>2, <2>3 DEF Effective
  <1>11. Typed'
    BY <1>3, <1>7 DEF RuleInv, Typed
  <1>12. ASSUME NEW source
         PROVE  AsShown(RulesFrom(ruleTable, source), Shown(source)')
    <2>1. Shown(source) \subseteq Shown(source)'
          /\ Effective(Shown(source)') = Effective(Shown(source))
      BY <1>3, <1>10 DEF Shown
    <2>2. AsShown(RulesFrom(ruleTable, source), Shown(source))
      BY DEF RuleInv, RulesAreShown
    <2> QED
      BY <2>1, <2>2 DEF AsShown
  <1>13. RulesAreShown'
    BY <1>3, <1>12 DEF RuleInv, RulesAreShown, Sound, RulesFrom
  <1>14. DiscardsUpToDate'
    BY <1>3 DEF RuleInv, DiscardsUpToDate
  <1> QED
    BY <1>11, <1>13, <1>14 DEF RuleInv

LEMMA EditorStep ==
    ASSUME RuleInv, Editor
    PROVE  RuleInv'
  <1>1. table \in Seq(Rules) /\ Len(table) \in Nat /\ Len(table) <= MaxRows /\ MaxRows \in Nat
    BY BoundsAssumption DEF RuleInv, Typed
  <1>2. ASSUME NEW row \in ViewRows, NEW text \in Exps, SetExpression(row, text)
        PROVE  RuleInv'
    BY <1>2, ExpressionSet
  <1>3. ASSUME NEW row \in ViewRows, NEW text \in Acts, SetAction(row, text)
        PROVE  RuleInv'
    BY <1>3, ActionSet
  <1>4. ASSUME NEW row \in ViewRows, NEW text \in Descs, SetDescription(row, text)
        PROVE  RuleInv'
    BY <1>4, DescriptionSet
  <1>5. ASSUME NEW rows \in SUBSET DOMAIN table, RemoveRules(rows)
        PROVE  RuleInv'
    <2>1. Without(rows) \in Seq(Rules) /\ Len(Without(rows)) <= Len(table)
      BY <1>1, WithoutIs
    <2>2. ShowsRows(Without(rows))
      BY <1>5 DEF RemoveRules
    <2> DEFINE left == Without(rows)
    <2> HIDE DEF left
    <2>3. left \in Seq(Rules) /\ Len(left) <= MaxRows /\ ShowsRows(left)
      <3>1. left \in Seq(Rules) /\ Len(left) <= Len(table) /\ ShowsRows(left)
        BY <2>1, <2>2 DEF left
      <3>2. Len(left) \in Nat
        BY <3>1
      <3> QED
        BY <1>1, <3>1, <3>2
    <2> QED
      BY <2>3, RowsAreShown
  <1>6. ASSUME NEW rows \in SUBSET DOMAIN table, NEW pos \in ViewRows, DropOwnRows(rows, pos)
        PROVE  RuleInv'
    <2>1. Moved(rows, pos) \in Seq(Rules) /\ Len(Moved(rows, pos)) = Len(table)
      BY <1>1, MovedIs
    <2>2. ShowsRows(Moved(rows, pos))
      BY <1>6 DEF DropOwnRows
    <2> DEFINE order == Moved(rows, pos)
    <2> HIDE DEF order
    <2>3. order \in Seq(Rules) /\ Len(order) <= MaxRows /\ ShowsRows(order)
      BY <1>1, <2>1, <2>2 DEF order
    <2> QED
      BY <2>3, RowsAreShown
  <1>7. ASSUME NEW m \in 1 .. MaxLines, NEW lines \in [1 .. m -> Rules \cup {Garbage}],
               NEW pos \in ViewRows, DropText(lines, pos)
        PROVE  RuleInv'
    <2> DEFINE rows == FoldLeft(InsertLine, [rows |-> table, pos |-> pos], lines).rows
    <2>1. m \in Nat /\ Len(lines) = m
      BY BoundsAssumption
    <2>2. rows \in Seq(Rules) /\ Len(rows) <= Len(table) + m
      BY <1>1, <2>1, TextDropped
    <2>3. ShowsRows(rows) /\ Len(table) + m <= MaxRows
      BY <1>7, <2>1 DEF DropText, Room
    <2> HIDE DEF rows
    <2>4. Len(rows) \in Nat
      BY <2>2
    <2>5. Len(rows) <= MaxRows
      BY <1>1, <2>1, <2>2, <2>3, <2>4
    <2> QED
      BY <2>2, <2>3, <2>5, RowsAreShown
  <1> QED
    BY <1>2, <1>3, <1>4, <1>5, <1>6, <1>7 DEF Editor

-----------------------------------------------------------------------------
(* The actions of the search bars *)

Fields4(bar) == DOMAIN bar = {"text", "mode", "marked", "search"}

(* A bar changes nothing but what is its own.                              *)
LEMMA BarChanged ==
    ASSUME RuleInv, NEW name \in DOMAIN bars, table' = table, nextUid' = nextUid,
           DOMAIN bars' \subseteq DOMAIN bars,
           \A other \in DOMAIN bars \ {name} : other \in DOMAIN bars' /\ bars'[other] = bars[other],
           name \in DOMAIN bars' => Fields4(bars'[name]),
           Sound(ruleTable'), ruleTable'.onChange = FALSE, UpToDate(ruleTable'),
           DOMAIN ruleTable'.sources \subseteq DOMAIN ruleTable.sources \cup {name},
           \A s : s # name => RulesFrom(ruleTable', s) = RulesFrom(ruleTable, s),
           RulesFrom(ruleTable', name) = Shown(name)'
    PROVE  RuleInv'
  <1>1. DOMAIN bars \subseteq 1 .. nextUid /\ nextUid \in Nat
    <2>1. Cardinality(Bars) \in Nat
      BY BarsAssumption, FS_CardinalityType
    <2> QED
      BY <2>1 DEF RuleInv, Typed
  <1>2. name # Filters /\ name \in 0 .. nextUid
    BY <1>1 DEF Filters
  <1>3. ASSUME NEW other \in DOMAIN bars'
        PROVE  DOMAIN bars'[other] = {"text", "mode", "marked", "search"}
    BY DEF Fields4, RuleInv, Typed
  <1>4. Typed'
    BY <1>1, <1>3 DEF RuleInv, Typed
  <1>5. ASSUME NEW source
        PROVE  AsShown(RulesFrom(ruleTable', source), Shown(source)')
    <2>1. CASE source = name
      BY <2>1 DEF AsShown
    <2>2. CASE source # name
      <3>1. source \in DOMAIN bars' <=> source \in DOMAIN bars
        BY <2>2
      <3>2. Shown(source)' = Shown(source)
        BY <2>2, <3>1 DEF Shown
      <3>3. AsShown(RulesFrom(ruleTable, source), Shown(source))
        BY DEF RuleInv, RulesAreShown
      <3> QED
        BY <2>2, <3>2, <3>3
    <2> QED
      BY <2>1, <2>2
  <1>6. DOMAIN ruleTable.sources \subseteq 0 .. nextUid
    BY DEF RuleInv, RulesAreShown
  <1>7. RulesAreShown'
    BY <1>2, <1>5, <1>6 DEF RulesAreShown, Sound, RulesFrom
  <1>8. DiscardsUpToDate'
    BY DEF DiscardsUpToDate, UpToDate
  <1> QED
    BY <1>4, <1>7, <1>8 DEF RuleInv

LEMMA SearchUpdated ==
    ASSUME RuleInv, NEW name \in DOMAIN bars, NEW bar, Fields4(bar), UpdateSearch(name, bar)
    PROVE  RuleInv'
  <1> DEFINE search == SearchFor(bar)
             shown == [bar EXCEPT !.search = search]
             cleared == Clear(ruleTable, name)
             rule == Highlight(name, search)
             added == AddRule(cleared, name, rule)
  <1>1. /\ table' = table /\ nextUid' = nextUid
        /\ bars' = [bars EXCEPT ![name] = shown]
        /\ ruleTable' = IF bar.marked /\ search # NoSearch THEN added ELSE cleared
    BY DEF UpdateSearch
  <1>2. Fields4(shown) /\ shown.marked = bar.marked /\ shown.search = search
    BY DEF Fields4
  <1>3. /\ Sound(ruleTable) /\ ruleTable.onChange = FALSE /\ UpToDate(ruleTable)
    BY DEF RuleInv, RulesAreShown, DiscardsUpToDate, UpToDate
  <1>4. /\ Sound(cleared) /\ cleared.onChange = FALSE /\ UpToDate(cleared)
        /\ DOMAIN cleared.sources \subseteq DOMAIN ruleTable.sources \cup {name}
        /\ \A s : RulesFrom(cleared, s) = IF s = name THEN {} ELSE RulesFrom(ruleTable, s)
    BY <1>3, ClearIs
  <1> HIDE DEF cleared, shown, search, rule
  <1>5. /\ Sound(added) /\ added.onChange = FALSE /\ UpToDate(added)
        /\ DOMAIN added.sources \subseteq DOMAIN ruleTable.sources \cup {name}
        /\ \A s : RulesFrom(added, s) = IF s = name THEN {rule} ELSE RulesFrom(ruleTable, s)
    <2>1. /\ Sound(added) /\ added.onChange = FALSE /\ UpToDate(added)
          /\ DOMAIN added.sources = DOMAIN cleared.sources \cup {name}
          /\ \A s : RulesFrom(added, s) =
                       RulesFrom(cleared, s) \cup IF s = name THEN {rule} ELSE {}
      BY <1>4, AddRuleIs
    <2> HIDE DEF added
    <2>2. ASSUME NEW s
          PROVE  RulesFrom(added, s) = IF s = name THEN {rule} ELSE RulesFrom(ruleTable, s)
      BY <1>4, <2>1
    <2> QED
      BY <1>4, <2>1, <2>2
  <1> HIDE DEF added
  <1>6. DOMAIN bars' = DOMAIN bars /\ bars'[name] = shown
        /\ \A other \in DOMAIN bars \ {name} : bars'[other] = bars[other]
    BY <1>1
  <1>7. name # Filters
    BY DEF RuleInv, Typed, Filters
  <1>8. Shown(name)' = IF bar.marked /\ search # NoSearch THEN {rule} ELSE {}
    BY <1>2, <1>6, <1>7 DEF Shown, rule
  <1>9. /\ Sound(ruleTable') /\ ruleTable'.onChange = FALSE /\ UpToDate(ruleTable')
        /\ DOMAIN ruleTable'.sources \subseteq DOMAIN ruleTable.sources \cup {name}
        /\ \A s : s # name => RulesFrom(ruleTable', s) = RulesFrom(ruleTable, s)
        /\ RulesFrom(ruleTable', name) = Shown(name)'
    <2>1. CASE bar.marked /\ search # NoSearch
      BY <1>1, <1>5, <1>8, <2>1
    <2>2. CASE ~(bar.marked /\ search # NoSearch)
      BY <1>1, <1>4, <1>8, <2>2
    <2> QED
      BY <2>1, <2>2
  <1> QED
    BY <1>1, <1>2, <1>6, <1>9, BarChanged

LEMMA BarDeleted ==
    ASSUME RuleInv, NEW name \in DOMAIN bars, DeleteBar(name)
    PROVE  RuleInv'
  <1>1. /\ table' = table /\ nextUid' = nextUid
        /\ bars' = Restrict(bars, DOMAIN bars \ {name}) /\ ruleTable' = Clear(ruleTable, name)
    BY DEF DeleteBar
  <1>2. /\ Sound(ruleTable) /\ ruleTable.onChange = FALSE /\ UpToDate(ruleTable)
    BY DEF RuleInv, RulesAreShown, DiscardsUpToDate, UpToDate
  <1>3. /\ Sound(ruleTable') /\ ruleTable'.onChange = FALSE /\ UpToDate(ruleTable')
        /\ DOMAIN ruleTable'.sources \subseteq DOMAIN ruleTable.sources \cup {name}
        /\ \A s : RulesFrom(ruleTable', s) = IF s = name THEN {} ELSE RulesFrom(ruleTable, s)
    BY <1>1, <1>2, ClearIs
  <1>4. DOMAIN bars' = DOMAIN bars \ {name}
        /\ \A other \in DOMAIN bars \ {name} : bars'[other] = bars[other]
    BY <1>1 DEF Restrict
  <1>5. Shown(name)' = {}
    <2>1. name # Filters /\ name \notin DOMAIN bars'
      BY <1>4 DEF RuleInv, Typed, Filters
    <2> QED
      BY <2>1 DEF Shown
  <1> QED
    BY <1>1, <1>3, <1>4, <1>5, BarChanged

(* Typing is not yet searching.                                            *)
LEMMA TextTyped ==
    ASSUME RuleInv, NEW name \in DOMAIN bars, NEW text, Type(name, text)
    PROVE  RuleInv'
  <1> DEFINE bar == [bars[name] EXCEPT !.text = text]
  <1>1. /\ table' = table /\ nextUid' = nextUid /\ ruleTable' = ruleTable
        /\ bars' = [bars EXCEPT ![name] = bar]
    BY DEF Type
  <1>2. /\ DOMAIN bar = {"text", "mode", "marked", "search"}
        /\ bar.marked = bars[name].marked /\ bar.search = bars[name].search
    BY DEF RuleInv, Typed
  <1> HIDE DEF bar
  <1>3. DOMAIN bars' = DOMAIN bars /\ bars'[name] = bar
        /\ \A other \in DOMAIN bars \ {name} : bars'[other] = bars[other]
    BY <1>1
  <1>4. Typed'
    BY <1>1, <1>2, <1>3 DEF RuleInv, Typed
  <1>5. \A source : Shown(source)' = Shown(source)
    BY <1>1, <1>2, <1>3 DEF Shown
  <1>6. RulesAreShown' /\ DiscardsUpToDate'
    BY <1>1, <1>5 DEF RuleInv, RulesAreShown, DiscardsUpToDate, Sound, RulesFrom
  <1> QED
    BY <1>4, <1>6 DEF RuleInv

(* The number of a new bar is that of no source in the table.              *)
LEMMA BarAdded ==
    ASSUME RuleInv, AddQuicksearchBar
    PROVE  RuleInv'
  <1> DEFINE new == nextUid + 1
             bar == [text |-> "none", mode |-> "text", marked |-> TRUE, search |-> NoSearch]
  <1>1. /\ table' = table /\ nextUid' = new /\ new \in Bars
        /\ ruleTable' = [ruleTable EXCEPT !.sources = Put(@, new, {})]
        /\ bars' = Put(bars, new, bar)
    BY DEF AddQuicksearchBar
  <1>2. /\ Cardinality(Bars) \in Nat /\ Bars = 1 .. Cardinality(Bars)
    BY BarsAssumption, FS_CardinalityType
  <1>3. /\ nextUid \in Nat /\ new \notin DOMAIN bars /\ new \notin DOMAIN ruleTable.sources
        /\ new # Filters
    BY <1>2 DEF RuleInv, Typed, RulesAreShown, Filters
  <1>4. /\ DOMAIN bars' = DOMAIN bars \cup {new} /\ bars'[new] = bar
        /\ \A name \in DOMAIN bars : bars'[name] = bars[name]
    BY <1>1, <1>3 DEF Put
  <1>5. /\ ruleTable'.sources = Put(ruleTable.sources, new, {})
        /\ ruleTable'.rules = ruleTable.rules /\ ruleTable'.onChange = FALSE
        /\ ruleTable'.discards = ruleTable.discards /\ DOMAIN ruleTable' = DOMAIN ruleTable
    BY <1>1 DEF RuleInv, RulesAreShown, Sound
  <1>6. /\ DOMAIN ruleTable'.sources = DOMAIN ruleTable.sources \cup {new}
        /\ ruleTable'.sources[new] = {}
        /\ \A s \in DOMAIN ruleTable.sources : ruleTable'.sources[s] = ruleTable.sources[s]
    BY <1>3, <1>5 DEF Put
  <1> HIDE DEF new
  <1>7. Typed'
    <2>1. new \in 0 .. Cardinality(Bars) /\ nextUid' = new /\ 1 .. nextUid \cup {new} \subseteq 1 .. new
      BY <1>1, <1>2, <1>3 DEF new
    <2>2. DOMAIN bars' \subseteq 1 .. new
      BY <1>4, <2>1 DEF RuleInv, Typed
    <2>3. \A name \in DOMAIN bars' : DOMAIN bars'[name] = {"text", "mode", "marked", "search"}
      BY <1>4 DEF RuleInv, Typed
    <2> QED
      BY <1>1, <2>1, <2>2, <2>3 DEF RuleInv, Typed
  <1>8. \A s : RulesFrom(ruleTable', s) = RulesFrom(ruleTable, s)
    BY <1>3, <1>6 DEF RulesFrom
  <1>9. Sound(ruleTable')
    <2>1. Sound(ruleTable)
      BY DEF RuleInv, RulesAreShown
    <2>2. \A rule : rule \in ruleTable'.rules
                    <=> \E s \in DOMAIN ruleTable'.sources : rule \in ruleTable'.sources[s]
      BY <1>5, <1>6, <2>1 DEF Sound
    <2> QED
      BY <1>5, <2>1, <2>2 DEF Sound
  <1>10. \A source : Shown(source)' = Shown(source)
    <2>1. bars'[new].search = NoSearch
      BY <1>4
    <2> HIDE DEF bar
    <2> QED
      BY <1>1, <1>3, <1>4, <2>1 DEF Shown
  <1>11. DOMAIN ruleTable'.sources \subseteq 0 .. nextUid'
    BY <1>1, <1>3, <1>6 DEF new, RuleInv, RulesAreShown
  <1>12. RulesAreShown'
    BY <1>5, <1>8, <1>9, <1>10, <1>11 DEF RulesAreShown, Sound, RulesFrom, RuleInv
  <1>13. DiscardsUpToDate'
    BY <1>5 DEF RuleInv, DiscardsUpToDate
  <1> QED
    BY <1>7, <1>12, <1>13 DEF RuleInv

LEMMA BarStep ==
    ASSUME RuleInv, NEW name \in DOMAIN bars, SearchBar(name)
    PROVE  RuleInv'
  <1>0. Fields4(bars[name])
    BY DEF RuleInv, Typed, Fields4
  <1>1. ASSUME NEW text \in SearchTexts, Type(name, text) PROVE RuleInv'
    BY <1>1, TextTyped
  <1>2. ASSUME NEW text \in SearchTexts, NEW mode \in Modes, DropOnSearch(name, text, mode)
        PROVE  RuleInv'
    <2> DEFINE bar == [bars[name] EXCEPT !.text = text, !.mode = mode]
    <2>1. Fields4(bar) /\ UpdateSearch(name, bar)
      BY <1>0, <1>2 DEF DropOnSearch, Fields4
    <2> HIDE DEF bar
    <2> QED
      BY <2>1, SearchUpdated
  <1>3. CASE EditingFinished(name)
    BY <1>0, <1>3, SearchUpdated DEF EditingFinished
  <1>4. CASE SwitchSearchMode(name)
    <2> DEFINE bar == [bars[name] EXCEPT !.mode = NextMode(@)]
    <2>1. Fields4(bar) /\ UpdateSearch(name, bar)
      BY <1>0, <1>4 DEF SwitchSearchMode, Fields4
    <2> HIDE DEF bar
    <2> QED
      BY <2>1, SearchUpdated
  <1>5. CASE ToggleMark(name)
    <2> DEFINE bar == [bars[name] EXCEPT !.marked = ~@]
    <2>1. Fields4(bar) /\ UpdateSearch(name, bar)
      BY <1>0, <1>5 DEF ToggleMark, Fields4
    <2> HIDE DEF bar
    <2> QED
      BY <2>1, SearchUpdated
  <1>6. CASE DeleteBar(name)
    BY <1>6, BarDeleted
  <1> QED
    BY <1>1, <1>2, <1>3, <1>4, <1>5, <1>6 DEF SearchBar

-----------------------------------------------------------------------------
(* The theorems *)

LEMMA RuleStep == RuleInv /\ [Next]_vars => RuleInv'
  <1> SUFFICES ASSUME RuleInv, [Next]_vars PROVE RuleInv'
    OBVIOUS
  <1>1. CASE Editor
    BY <1>1, EditorStep
  <1>2. CASE AddQuicksearchBar
    BY <1>2, BarAdded
  <1>3. ASSUME NEW name \in DOMAIN bars, SearchBar(name) PROVE RuleInv'
    BY <1>3, BarStep
  <1>4. CASE UNCHANGED vars
    <2>1. table' = table /\ ruleTable' = ruleTable /\ bars' = bars /\ nextUid' = nextUid
      BY <1>4 DEF vars
    <2>2. \A source : Shown(source)' = Shown(source)
      BY <2>1 DEF Shown
    <2> QED
      BY <2>1, <2>2 DEF RuleInv, Typed, RulesAreShown, DiscardsUpToDate, Sound, RulesFrom
  <1> QED
    BY <1>1, <1>2, <1>3, <1>4 DEF Next

LEMMA RuleInvHolds == Spec => []RuleInv
  BY InitRules, RuleStep, PTL DEF Spec

LEMMA TypesFollow == RuleInv => TypeOK
  BY DEF RuleInv, Typed, RulesAreShown, TypeOK

LEMMA RulesFollow == RuleInv => RulesInForce
  <1> SUFFICES ASSUME RuleInv PROVE RulesInForce
    OBVIOUS
  <1> DEFINE edited == Edited(table)
             marked == {name \in DOMAIN bars :
                           bars[name].marked /\ bars[name].search # NoSearch}
             shown == edited \cup {Highlight(name, bars[name].search) : name \in marked}
  <1>1. ASSUME NEW r PROVE r \in Effective(ruleTable.rules) <=> r \in Effective(shown)
    <2>1. r \in ruleTable.rules <=> \E s : r \in RulesFrom(ruleTable, s)
      BY DEF RuleInv, RulesAreShown, Sound, RulesFrom
    <2>2. r.exp.text # "none" => \A s : r \in RulesFrom(ruleTable, s) <=> r \in Shown(s)
      BY DEF RuleInv, RulesAreShown, AsShown, Effective
    <2>3. (\E s : r \in Shown(s)) <=> r \in shown
      <3>1. \A name \in DOMAIN bars : name # Filters
        BY DEF RuleInv, Typed, Filters
      <3>2. ASSUME NEW s, r \in Shown(s) PROVE r \in shown
        <4> HIDE DEF edited
        <4> QED
          BY <3>2 DEF Shown, edited
      <3>3. r \in edited => r \in Shown(Filters)
        BY DEF Shown
      <3>4. ASSUME NEW name \in marked, r = Highlight(name, bars[name].search)
            PROVE  r \in Shown(name)
        BY <3>1, <3>4 DEF Shown
      <3> HIDE DEF edited, marked
      <3> QED
        BY <3>2, <3>3, <3>4
    <2> HIDE DEF shown
    <2> QED
      BY <2>1, <2>2, <2>3 DEF Effective
  <1>2. Effective(ruleTable.rules) = Effective(shown)
    <2> HIDE DEF shown
    <2> QED
      BY <1>1
  <1> QED
    BY <1>2 DEF RulesInForce, Edited

-----------------------------------------------------------------------------
(* What the cells are drawn by *)

(* What changes has a role, and is said in two or three words.             *)
LEMMA RewriteRuleIs ==
    ASSUME NEW S, NEW words \in Seq(S)
    PROVE  /\ RewriteRule(words) # NoChange =>
                 RewriteRule(words).role \in Roles /\ Len(words) \in {2, 3}
           /\ RewriteRule(words) = NoChange => RewriteRule(words).role \notin Roles
  <1> DEFINE Colored == /\ Len(words) = 3 /\ words[1] \in DOMAIN ColorRole
                        /\ words[2] = ":" /\ words[3] \in Colors
             Iconic == /\ Len(words) = 3 /\ words[1] = "icon"
                       /\ words[2] = ":" /\ words[3] \in Icons
             Wiped == words = <<"text", ":">>
  <1>1. NoChange.role \notin Roles
    BY DEF NoChange, Roles
  <1>2. (Colored => ~Iconic /\ ~Wiped) /\ (Iconic => ~Wiped)
    <2>1. Len(<<"text", ":">>) = 2
      OBVIOUS
    <2>2. Wiped => Len(words) = 2
      BY <2>1
    <2>3. words[1] \in DOMAIN ColorRole => words[1] # "icon"
      BY DEF ColorRole
    <2> QED
      BY <2>2, <2>3
  <1>3. RewriteRule(words) = CASE Colored -> Change(ColorRole[words[1]], words[3])
                               [] Iconic -> Change("decoration", words[3])
                               [] Wiped -> Change("display", "")
                               [] OTHER -> NoChange
    BY DEF RewriteRule
  <1>4. (Colored \/ Iconic => Len(words) = 3) /\ (Wiped => Len(words) = 2)
        /\ (Colored => ColorRole[words[1]] \in Roles)
    <2>1. Wiped => Len(words) = 2
      OBVIOUS
    <2>2. Colored => ColorRole[words[1]] \in Roles
      BY DEF ColorRole, Roles
    <2> QED
      BY <2>1, <2>2
  <1> HIDE DEF Colored, Iconic, Wiped
  <1>5. \A role, value : Change(role, value).role = role
    BY DEF Change
  <1>6. "decoration" \in Roles /\ "display" \in Roles
    BY DEF Roles
  <1>7. CASE Colored
    <2>1. RewriteRule(words) = Change(ColorRole[words[1]], words[3])
      BY <1>2, <1>3, <1>7
    <2> QED
      BY <1>1, <1>4, <1>5, <1>7, <2>1
  <1>8. CASE Iconic
    <2>1. RewriteRule(words) = Change("decoration", words[3])
      BY <1>2, <1>3, <1>8
    <2> QED
      BY <1>1, <1>4, <1>5, <1>6, <1>8, <2>1
  <1>9. CASE Wiped
    <2>1. RewriteRule(words) = Change("display", "")
      BY <1>2, <1>3, <1>9
    <2>2. RewriteRule(words).role = "display" /\ Len(words) = 2
      BY <1>4, <1>5, <1>9, <2>1
    <2> QED
      BY <1>1, <1>6, <2>2
  <1>10. CASE ~Colored /\ ~Iconic /\ ~Wiped
    <2>1. RewriteRule(words) = NoChange
      BY <1>3, <1>10
    <2> QED
      BY <1>1, <2>1
  <1> QED
    BY <1>7, <1>8, <1>9, <1>10

(* A part is about a cell if it names its column, and about the row if it  *)
(* names none.                                                             *)
LEMMA KeysAre ==
    ASSUME NEW S, NEW words \in Seq(S), NEW column \in Columns, NEW role \in Roles
    PROVE  /\ <<role, column>> \in KeysOf(words) <=>
                 /\ words[1] = Fields[column]
                 /\ RewriteRule(SubSeq(words, 3, Len(words))).role = role
           /\ <<role, WholeRow>> \in KeysOf(words) <=> RewriteRule(words).role = role
  <1> DEFINE rest == SubSeq(words, 3, Len(words))
  <1>1. column # WholeRow /\ WholeRow \notin Columns
    BY FieldsAssumption DEF WholeRow, Columns
  <1>2. rest \in Seq(S) /\ (Len(words) \in {2, 3} => Len(rest) \in {0, 1})
    <2>1. Len(words) \in Nat
      OBVIOUS
    <2>2. rest \in Seq(S)
      BY <2>1
    <2>3. Len(rest) = IF 3 <= Len(words) THEN Len(words) - 2 ELSE 0
      BY <2>1
    <2> QED
      BY <2>1, <2>2, <2>3
  <1> HIDE DEF rest
  <1>3. CASE RewriteRule(words) # NoChange
    <2>1. KeysOf(words) = {<<RewriteRule(words).role, WholeRow>>}
      BY <1>3 DEF KeysOf
    <2>2. RewriteRule(rest).role # role
      <3>1. Len(words) \in {2, 3}
        BY <1>3, RewriteRuleIs
      <3>2. Len(rest) \notin {2, 3}
        BY <1>2, <3>1
      <3>3. RewriteRule(rest) = NoChange
        BY <1>2, <3>2, RewriteRuleIs
      <3> QED
        BY <1>2, <3>3, RewriteRuleIs
    <2> QED
      BY <1>1, <2>1, <2>2 DEF rest
  <1>4. CASE RewriteRule(words) = NoChange
    <2>1. KeysOf(words) = {<<RewriteRule(rest).role, c>> :
                              c \in {i \in Columns : Fields[i] = words[1]}}
      BY <1>4 DEF KeysOf, rest
    <2>2. RewriteRule(words).role # role
      BY <1>4, RewriteRuleIs
    <2>3. \A c : <<role, c>> \in KeysOf(words) <=>
                    c \in Columns /\ Fields[c] = words[1] /\ RewriteRule(rest).role = role
      BY <2>1
    <2> QED
      BY <1>1, <2>2, <2>3 DEF rest
  <1> QED
    BY <1>3, <1>4

(* The changes of an action: insert() leaves a change that is there as it  *)
(* is, so that the first part that says something about a key counts.      *)
About(parts, key) == {i \in DOMAIN parts : key \in KeysOf(parts[i])}

FirstCounts(changes, parts, key) ==
    /\ key \in DOMAIN changes <=> About(parts, key) # {}
    /\ \A i \in About(parts, key) :
          (\A j \in About(parts, key) : i <= j) => changes[key] = ValueOf(parts[i])

LEMMA ChangesAre ==
    ASSUME NEW parts, NEW n \in Nat, DOMAIN parts = 1 .. n, NEW key
    PROVE  FirstCounts(FoldLeft(AddChangeSet, <<>>, parts), parts, key)
  <1> DEFINE about == {i \in 1 .. n : key \in KeysOf(parts[i])}
             none == <<>>
  <1>0. about = About(parts, key)
    BY DEF About
  <1>1. PICK loop : /\ loop[0] = none
                    /\ \A i \in 1 .. n : loop[i] = AddChangeSet(loop[i - 1], parts[i])
                    /\ Merging!Fold(none, parts) = loop[n]
    <2>1. PICK result : result = Merging!Fold(none, parts)
      OBVIOUS
    <2> HIDE DEF about, none
    <2> QED
      BY <2>1, Merging!FoldIsLoop
  <1> DEFINE First(i) == i \in about /\ \A j \in about : i <= j
             Kept(i) ==
                 /\ key \in DOMAIN loop[i] <=> \E j \in about : j <= i
                 /\ \A k \in 1 .. n : First(k) /\ k <= i => loop[i][key] = ValueOf(parts[k])
             T == {i \in 0 .. n : Kept(i)}
  <1>2. 0 \in T
    <2>1. DOMAIN loop[0] = {}
      BY <1>1
    <2>2. Kept(0)
      BY <2>1
    <2> QED
      BY <2>2
  <1>3. ASSUME NEW i \in 1 .. n, i - 1 \in T
        PROVE  i \in T
    <2>1. Kept(i - 1) /\ i \in Nat /\ i - 1 \in Nat
      BY <1>3
    <2>2. /\ DOMAIN loop[i] = DOMAIN loop[i - 1] \cup KeysOf(parts[i])
          /\ \A k \in DOMAIN loop[i] :
                 loop[i][k] = IF k \in DOMAIN loop[i - 1] THEN loop[i - 1][k]
                              ELSE ValueOf(parts[i])
      <3>1. loop[i] = AddChangeSet(loop[i - 1], parts[i])
        BY <1>1
      <3> QED
        BY <3>1 DEF AddChangeSet
    <2>3. key \in KeysOf(parts[i]) <=> i \in about
      OBVIOUS
    <2> HIDE DEF about
    <2>4. CASE key \in DOMAIN loop[i - 1]
      <3>1. PICK j \in about : j <= i - 1
        BY <2>1, <2>4
      <3>2. j \in Nat
        BY DEF about
      <3>3. \A k \in 1 .. n : First(k) => k <= i - 1
        BY <2>1, <3>1, <3>2
      <3> QED
        BY <2>1, <2>2, <2>4, <3>1, <3>2, <3>3
    <2>5. CASE key \notin DOMAIN loop[i - 1]
      <3>1. \A j \in about : j \in Nat /\ j > i - 1
        BY <2>1, <2>5 DEF about
      <3>2. \A j \in about : j <= i => j = i
        BY <2>1, <3>1
      <3>3. key \in DOMAIN loop[i] <=> i \in about
        BY <2>2, <2>3, <2>5
      <3>4. i \in about => loop[i][key] = ValueOf(parts[i])
        BY <2>2, <2>5, <3>3
      <3>5. Kept(i)
        BY <2>1, <3>2, <3>3, <3>4
      <3> QED
        BY <3>5
    <2> QED
      BY <2>4, <2>5
  <1>4. Kept(n)
    <2> HIDE DEF Kept
    <2>1. 0 .. n \subseteq T
      <3> HIDE DEF T
      <3> QED
        BY <1>2, <1>3, Merging!UpTo
    <2> QED
      BY <2>1
  <1>5. FoldLeft(AddChangeSet, <<>>, parts) = loop[n]
    <2>1. FoldLeft(AddChangeSet, <<>>, parts) = Merging!Fold(<<>>, parts)
      BY DEF FoldLeft, MapThenFoldSet, Max, Merging!Fold, Merging!Folds, Merging!Largest
    <2> QED
      BY <1>1, <2>1
  <1> HIDE DEF about
  <1> QED
    BY <1>0, <1>4, <1>5 DEF FirstCounts, about

(* One text of an action, and one cell: it is drawn as the text says of    *)
(* its column, or else of the row, or as it was.                           *)
DrawnAs(drawn, value, said) == IF said = {} THEN drawn = value ELSE drawn \in said

LEMMA CellIs ==
    ASSUME NEW S, NEW text, text.parts \in Seq(Seq(S)), ParseAction(text).kind = "rewrite",
           NEW value, NEW column \in Columns, NEW role \in Roles
    PROVE  DrawnAs(ModifyData(value, ParseAction(text).changes, column, role),
                   value, Written(text.parts, column, role))
  <1> DEFINE parts == text.parts
             changes == FoldLeft(AddChangeSet, <<>>, parts)
             aboutCell == About(parts, <<role, column>>)
             aboutRow == About(parts, <<role, WholeRow>>)
             said == IF aboutCell # {} THEN aboutCell ELSE aboutRow
             first == {i \in said : \A k \in said : i <= k}
  <1>1. parts \in Seq(Seq(S)) /\ Len(parts) \in Nat /\ DOMAIN parts = 1 .. Len(parts)
    OBVIOUS
  <1>2. ParseAction(text).changes = changes
    <2> DEFINE Rewrites == /\ text.call = "rewrite" /\ text.parts # <<>>
                           /\ \A i \in DOMAIN text.parts : IsPart(text.parts[i])
    <2>1. ~Rewrites => ParseAction(text).kind # "rewrite"
      <3>1. ~Rewrites => ParseAction(text).kind \in {"discard", "nothing", "bad"}
        BY DEF ParseAction
      <3> QED
        BY <3>1
    <2>2. Rewrites => text # DiscardText /\ text # NoText
      <3>1. DiscardText.parts = <<>> /\ NoText.parts = <<>>
        BY DEF DiscardText, NoText
      <3> QED
        BY <3>1
    <2>3. Rewrites => ParseAction(text) = [kind |-> "rewrite", changes |-> changes]
      BY <2>2 DEF ParseAction
    <2> HIDE DEF Rewrites, changes
    <2> QED
      BY <2>1, <2>3
  <1>3. /\ aboutCell = {i \in DOMAIN parts :
               /\ parts[i][1] = Fields[column]
               /\ RewriteRule(SubSeq(parts[i], 3, Len(parts[i]))).role = role}
        /\ aboutRow = {i \in DOMAIN parts : RewriteRule(parts[i]).role = role}
    <2>1. \A i \in DOMAIN parts : parts[i] \in Seq(S)
      BY <1>1, ElementOfSeq
    <2> HIDE DEF parts
    <2> QED
      BY <2>1, KeysAre DEF About
  <1>4. Written(parts, column, role) = {ValueOf(parts[i]) : i \in first}
    BY <1>3 DEF Written
  <1>5. /\ <<role, column>> \in DOMAIN changes <=> aboutCell # {}
        /\ \A i \in aboutCell : (\A j \in aboutCell : i <= j) =>
                                    changes[<<role, column>>] = ValueOf(parts[i])
    <2> HIDE DEF parts
    <2> QED
      BY <1>1, ChangesAre DEF FirstCounts
  <1>6. /\ <<role, WholeRow>> \in DOMAIN changes <=> aboutRow # {}
        /\ \A i \in aboutRow : (\A j \in aboutRow : i <= j) =>
                                   changes[<<role, WholeRow>>] = ValueOf(parts[i])
    <2> HIDE DEF parts
    <2> QED
      BY <1>1, ChangesAre DEF FirstCounts
  <1>7. said \in SUBSET Nat /\ (said # {} => first # {})
    <2>1. said \in SUBSET Nat
      BY <1>1 DEF About
    <2> HIDE DEF said
    <2> QED
      BY <2>1, Merging!Least
  <1>8. ModifyData(value, changes, column, role) =
            IF said = {} THEN value
            ELSE IF aboutCell # {} THEN changes[<<role, column>>]
            ELSE changes[<<role, WholeRow>>]
    <2> HIDE DEF changes, aboutCell, aboutRow
    <2> QED
      BY <1>5, <1>6 DEF ModifyData
  <1> HIDE DEF changes, aboutCell, aboutRow, parts
  <1>9. CASE said = {}
    <2>1. first = {}
      BY <1>9
    <2> QED
      BY <1>2, <1>4, <1>8, <1>9, <2>1 DEF DrawnAs, parts
  <1>10. CASE said # {}
    <2>1. PICK i \in said : \A k \in said : i <= k
      BY <1>7, <1>10
    <2>2. ModifyData(value, changes, column, role) = ValueOf(parts[i])
      BY <1>5, <1>6, <1>8, <1>10, <2>1
    <2>3. ValueOf(parts[i]) \in Written(parts, column, role)
      BY <1>4, <2>1
    <2> QED
      BY <1>2, <2>2, <2>3 DEF DrawnAs, parts
  <1> QED
    BY <1>9, <1>10

(* The actions of all rules that match: the last that says something about *)
(* the cell decides, and what it says is there.                            *)
AllDrawn(acts, n, value, column, role) ==
    DrawnAs(Data(value, [i \in 1 .. n |-> ParseAction(acts[i])], column, role), value,
            UNION {Written(acts[i].parts, column, role) : i \in 1 .. n})

LEMMA DrawnIs ==
    ASSUME NEW S, NEW acts, NEW n \in Nat, DOMAIN acts = 1 .. n,
           \A i \in 1 .. n : /\ acts[i].parts \in Seq(Seq(S))
                             /\ ParseAction(acts[i]).kind = "rewrite",
           NEW value, NEW column \in Columns, NEW role \in Roles
    PROVE  AllDrawn(acts, n, value, column, role)
  <1> DEFINE actions == [i \in 1 .. n |-> ParseAction(acts[i])]
             cells == [i \in DOMAIN actions |->
                          [changes |-> actions[i].changes, column |-> column, role |-> role]]
             W(i) == Written(acts[i].parts, column, role)
             said(i) == UNION {W(j) : j \in 1 .. i}
  <1>1. DOMAIN cells = 1 .. n
    OBVIOUS
  <1>3. ASSUME NEW i \in 1 .. n, NEW drawn
        PROVE  DrawnAs(ModifyCell(drawn, cells[i]), drawn, W(i))
    <2>1. cells[i].changes = ParseAction(acts[i]).changes
          /\ cells[i].column = column /\ cells[i].role = role
      OBVIOUS
    <2> HIDE DEF cells, W
    <2>2. ModifyCell(drawn, cells[i]) =
              ModifyData(drawn, ParseAction(acts[i]).changes, column, role)
      BY <2>1 DEF ModifyCell
    <2> QED
      BY <2>2, CellIs DEF W
  <1>4. \A i \in 1 .. n : said(i) = said(i - 1) \cup W(i)
    <2> SUFFICES ASSUME NEW i \in 1 .. n PROVE said(i) = said(i - 1) \cup W(i)
      OBVIOUS
    <2>1. 1 .. i = (1 .. i - 1) \cup {i}
      OBVIOUS
    <2> HIDE DEF W
    <2> QED
      BY <2>1
  <1> DEFINE after == [i \in 0 .. n |->
                      {drawn \in {value} \cup said(i) : DrawnAs(drawn, value, said(i))}]
  <1>5. value \in after[0]
    <2>1. said(0) = {}
      OBVIOUS
    <2> HIDE DEF said
    <2> QED
      BY <2>1 DEF DrawnAs
  <1>6. ASSUME NEW i \in 1 .. n, NEW drawn \in after[i - 1]
        PROVE  ModifyCell(drawn, cells[i]) \in after[i]
    <2> DEFINE next == ModifyCell(drawn, cells[i])
    <2> HIDE DEF said, W, cells
    <2>1. DrawnAs(drawn, value, said(i - 1))
      OBVIOUS
    <2>2. DrawnAs(next, drawn, W(i))
      BY <1>3
    <2>3. said(i) = said(i - 1) \cup W(i)
      BY <1>4
    <2> HIDE DEF next
    <2>4. DrawnAs(next, value, said(i)) /\ next \in {value} \cup said(i)
      BY <2>1, <2>2, <2>3 DEF DrawnAs
    <2> QED
      BY <2>4 DEF next
  <1>7. Drawing!Fold(value, cells) \in after[n]
    <2> HIDE DEF cells, after
    <2> QED
      BY <1>1, <1>5, <1>6, Drawing!FoldReaches
  <1>8. Data(value, actions, column, role) = Drawing!Fold(value, cells)
    <2>1. FoldLeft(ModifyCell, value, cells) = Drawing!Fold(value, cells)
      <3> HIDE DEF cells
      <3> QED
        BY DEF FoldLeft, MapThenFoldSet, Max, Drawing!Fold, Drawing!Folds, Drawing!Largest
    <2> QED
      BY <2>1 DEF Data
  <1>9. DrawnAs(Data(value, actions, column, role), value, said(n))
    <2> HIDE DEF said
    <2> QED
      BY <1>7, <1>8
  <1> QED
    BY <1>9 DEF AllDrawn

(* The words of the actions, those of the search bars among them.          *)
Words == STRING \cup UNION {{"BG", ":", ColorOf(name)} : name \in Bars}

LEMMA ActionIs ==
    ASSUME NEW text \in Acts \cup {MarkText(name) : name \in Bars}
    PROVE  text.parts \in Seq(Seq(Words)) /\ Action[text] = ParseAction(text)
  <1>1. ASSUME NEW name \in Bars PROVE MarkText(name).parts \in Seq(Seq(Words))
    <2> DEFINE color == ColorOf(name)
               words == <<"BG", ":", color>>
               parts == <<words>>
    <2>1. "BG" \in Words /\ ":" \in Words /\ color \in Words
      BY DEF Words
    <2> HIDE DEF color
    <2>2. words \in Seq(Words)
      BY <2>1
    <2>3. MarkText(name) = RewriteText(parts)
      BY DEF MarkText, color
    <2> HIDE DEF words
    <2>4. parts \in Seq(Seq(Words))
      BY <2>2
    <2> QED
      BY <2>3, <2>4 DEF RewriteText
  <1>2. ASSUME NEW act \in Acts PROVE act.parts \in Seq(Seq(Words))
    <2>1. act.parts \in Seq(Seq(STRING))
      BY TextsAssumption DEF Texts
    <2>2. Seq(STRING) \subseteq Seq(Words)
      BY DEF Words
    <2> QED
      BY <2>1, <2>2
  <1>3. Action[text] = ParseAction(text)
    BY DEF Action
  <1> QED
    BY <1>1, <1>2, <1>3

(* Every rule there is comes from a row or from a bar that is shown.       *)
LEMMA RulesComeFrom ==
    ASSUME RuleInv, NEW r \in ruleTable.rules
    PROVE  \/ \E i \in DOMAIN table : ValidRule(table[i]) /\ r = CompiledRow(table[i])
           \/ \E name \in DOMAIN bars : r = Highlight(name, bars[name].search)
  <1>1. PICK source : r \in RulesFrom(ruleTable, source)
    BY DEF RuleInv, RulesAreShown, Sound, RulesFrom
  <1>2. r \in Shown(source)
    BY <1>1 DEF RuleInv, RulesAreShown, AsShown
  <1>3. CASE source = Filters
    BY <1>2, <1>3 DEF Shown, Edited, ToSet
  <1>4. CASE source # Filters
    BY <1>2, <1>4 DEF Shown
  <1> QED
    BY <1>3, <1>4

LEMMA RulesAreFinite ==
    ASSUME RuleInv
    PROVE  IsFiniteSet(ruleTable.rules)
  <1> DEFINE f == [i \in DOMAIN table |-> CompiledRow(table[i])]
             g == [name \in DOMAIN bars |-> Highlight(name, bars[name].search)]
             F == {f[i] : i \in DOMAIN f}
             G == {g[i] : i \in DOMAIN g}
  <1>1. IsFiniteSet(DOMAIN f) /\ IsFiniteSet(DOMAIN g)
    <2>1. DOMAIN table = 1 .. Len(table) /\ Len(table) \in Nat
      BY DEF RuleInv, Typed
    <2>2. nextUid \in Nat /\ DOMAIN bars \subseteq 1 .. nextUid
      <3>1. Cardinality(Bars) \in Nat
        BY BarsAssumption, FS_CardinalityType
      <3> QED
        BY <3>1 DEF RuleInv, Typed
    <2>3. IsFiniteSet(1 .. Len(table)) /\ IsFiniteSet(1 .. nextUid)
      BY <2>1, <2>2, FS_Interval
    <2> QED
      BY <2>1, <2>2, <2>3, FS_Subset
  <1>2. f \in Surjection(DOMAIN f, F) /\ g \in Surjection(DOMAIN g, G)
    BY DEF Surjection
  <1>3. IsFiniteSet(F) /\ IsFiniteSet(G)
    <2> HIDE DEF f, g, F, G
    <2> QED
      BY <1>1, <1>2, FS_Surjection
  <1>4. ruleTable.rules \subseteq F \cup G
    BY RulesComeFrom
  <1> HIDE DEF F, G
  <1>5. IsFiniteSet(F \cup G)
    BY <1>3, FS_Union
  <1> QED
    BY <1>4, <1>5, FS_Subset

(* An order of the rules that match has them all.                          *)
LEMMA OrderHasAll ==
    ASSUME NEW S, IsFiniteSet(S), NEW order \in SetToSeqs(S)
    PROVE  /\ Cardinality(S) \in Nat /\ DOMAIN order = 1 .. Cardinality(S)
           /\ S = {order[i] : i \in 1 .. Cardinality(S)}
  <1> DEFINE D == 1 .. Cardinality(S)
  <1>1. Cardinality(S) \in Nat
    BY FS_CardinalityType
  <1>2. order \in [D -> S] /\ \A i, j \in D : i # j => order[i] # order[j]
    BY DEF SetToSeqs
  <1>3. IsFiniteSet(D) /\ Cardinality(D) = Cardinality(S)
    BY <1>1, FS_Interval
  <1>4. order \in Injection(D, S)
    BY <1>2 DEF Injection, IsInjective
  <1>5. order \in Surjection(D, S)
    <2> HIDE DEF D
    <2> QED
      BY <1>3, <1>4, FS_Injection
  <1> QED
    BY <1>1, <1>2, <1>5 DEF Surjection

LEMMA CellsFollow == RuleInv => CellsAsWritten
  <1> DEFINE rewriting == {r \in ruleTable.rules : Action[r.act].kind = "rewrite"}
             shown == {rule.act : rule \in {r \in ToSet(table) : ValidRule(r)}}
                      \cup {MarkText(name) : name \in DOMAIN bars}
  <1> SUFFICES ASSUME RuleInv, NEW matched \in SUBSET rewriting,
                      NEW order \in SetToSeqs(matched),
                      NEW column \in Columns, NEW role \in Roles
               PROVE  DrawnAs(Data("as it is", [i \in DOMAIN order |-> Action[order[i].act]],
                                   column, role), "as it is",
                              UNION {Written(act.parts, column, role) :
                                         act \in {r.act : r \in matched} \cap shown})
    BY DEF CellsAsWritten, DrawnAs
  <1> DEFINE n == Cardinality(matched)
             acts == [i \in 1 .. n |-> order[i].act]
             texts == {r.act : r \in matched} \cap shown
             said == UNION {Written(act.parts, column, role) : act \in texts}
  <1>1. IsFiniteSet(matched)
    BY RulesAreFinite, FS_Subset
  <1>2. n \in Nat /\ DOMAIN order = 1 .. n /\ matched = {order[i] : i \in 1 .. n}
    BY <1>1, OrderHasAll
  <1>3. ASSUME NEW r \in ruleTable.rules
        PROVE  r.act \in shown /\ r.act \in Acts \cup {MarkText(name) : name \in Bars}
    <2>1. ASSUME NEW i \in DOMAIN table, ValidRule(table[i]), r = CompiledRow(table[i])
          PROVE  r.act \in shown /\ r.act \in Acts
      <3>1. table[i] \in ToSet(table) /\ table[i] \in Rules
        BY ElementOfSeq DEF ToSet, RuleInv, Typed
      <3>2. r.act = table[i].act
        BY <2>1 DEF CompiledRow, Compiled
      <3> QED
        BY <2>1, <3>1, <3>2 DEF Rules
    <2>2. ASSUME NEW name \in DOMAIN bars, r = Highlight(name, bars[name].search)
          PROVE  r.act \in shown /\ r.act \in {MarkText(bar) : bar \in Bars}
      <3>1. r.act = MarkText(name)
        BY <2>2 DEF Highlight, Compiled
      <3>2. name \in Bars
        <4>1. Cardinality(Bars) \in Nat
          BY BarsAssumption, FS_CardinalityType
        <4>2. nextUid \in 0 .. Cardinality(Bars) /\ name \in 1 .. nextUid
          BY DEF RuleInv, Typed
        <4>3. name \in 1 .. Cardinality(Bars)
          BY <4>1, <4>2
        <4> QED
          BY <4>3, BarsAssumption
      <3> QED
        BY <3>1, <3>2
    <2> HIDE DEF shown
    <2> QED
      BY <2>1, <2>2, RulesComeFrom
  <1>4. texts = {acts[i] : i \in 1 .. n}
    <2> HIDE DEF shown, n
    <2>1. \A r \in matched : r.act \in shown
      BY <1>3
    <2> QED
      BY <1>2, <2>1
  <1>5. \A i \in 1 .. n : /\ acts[i].parts \in Seq(Seq(Words)) /\ ParseAction(acts[i]).kind = "rewrite"
                          /\ Action[order[i].act] = ParseAction(acts[i])
    <2> SUFFICES ASSUME NEW i \in 1 .. n
                 PROVE  /\ acts[i].parts \in Seq(Seq(Words)) /\ ParseAction(acts[i]).kind = "rewrite"
                        /\ Action[order[i].act] = ParseAction(acts[i])
      OBVIOUS
    <2> HIDE DEF shown, n
    <2>1. order[i] \in ruleTable.rules /\ Action[order[i].act].kind = "rewrite"
      BY <1>2
    <2>2. order[i].act \in Acts \cup {MarkText(name) : name \in Bars}
      BY <1>3, <2>1
    <2>3. order[i].act.parts \in Seq(Seq(Words)) /\ Action[order[i].act] = ParseAction(order[i].act)
      BY <2>2, ActionIs
    <2> QED
      BY <2>1, <2>3
  <1> HIDE DEF shown, texts, n
  <1>6. [i \in DOMAIN order |-> Action[order[i].act]] = [i \in 1 .. n |-> ParseAction(acts[i])]
    BY <1>2, <1>5
  <1>7. said = UNION {Written(acts[i].parts, column, role) : i \in 1 .. n}
    BY <1>4
  <1> HIDE DEF said
  <1>8. AllDrawn(acts, n, "as it is", column, role)
    <2>1. DOMAIN acts = 1 .. n
      OBVIOUS
    <2> HIDE DEF acts
    <2>2. \A i \in 1 .. n : acts[i].parts \in Seq(Seq(Words)) /\ ParseAction(acts[i]).kind = "rewrite"
      BY <1>5
    <2> QED
      BY <1>2, <2>1, <2>2, DrawnIs
  <1> QED
    BY <1>6, <1>7, <1>8 DEF AllDrawn, said, texts

-----------------------------------------------------------------------------
LEMMA DiscardsFollow == RuleInv => DiscardsUpToDate
  BY DEF RuleInv

LEMMA PlacesFollow == RuleInv => DropPlacesRows
  <1>1. RuleInv => table \in Seq(Rules)
    BY DEF RuleInv, Typed
  <1> QED
    BY <1>1, RowsPlaced DEF DropPlacesRows

(* The type invariant: the editor has rows of rules, never more than it    *)
(* has room for, sources in the rule table are the editor or bars that     *)
(* were added, and no batch of changes is left open between two steps.     *)
THEOREM RuleTypeCorrect == Spec => []TypeOK
  BY RuleInvHolds, TypesFollow, PTL

(* Whatever is written, moved, dropped or removed in the editor, and       *)
(* typed, switched, unmarked or deleted in the search bars, in any order:  *)
(* the rules in force are those that are shown.                            *)
THEOREM ShownRulesAreInForce == Spec => []RulesInForce
  BY RuleInvHolds, RulesFollow, PTL

(* The filter discards by the rules as they are, whichever way they came.  *)
THEOREM FilterHearsOfEveryChange == Spec => []DiscardsUpToDate
  BY RuleInvHolds, DiscardsFollow, PTL

(* Rows moved by drag and drop stand in front of the row they were dropped *)
(* on, in the order they had, however many they are and wherever they      *)
(* were: the loop of dropMimeData, one row after the other while the       *)
(* position moves along, is cut and paste.                                 *)
THEOREM MovedRowsStandWhereDropped == Spec => []DropPlacesRows
  BY RuleInvHolds, PlacesFollow, PTL

(* Whatever rules match an entry, and in whatever order, each of its cells *)
(* is drawn as one of the rules that are shown says of it: the first part  *)
(* of an action that names its column, or else the first that names none.  *)
THEOREM CellsDrawnAsWritten == Spec => []CellsAsWritten
  BY RuleInvHolds, CellsFollow, PTL

=============================================================================
