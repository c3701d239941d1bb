-------------------------- MODULE OpenLogfileProofs --------------------------
(***************************************************************************)
(* Proofs about OpenLogfile: that the packages of a plain log file, joined *)
(* in whatever order the pool converts them, are what reading its lines in *)
(* order gives, and that a window shows the entries of its file whole and  *)
(* once, for files, packages and exports of any size.                      *)
(***************************************************************************)
EXTENDS OpenLogfile, FiniteSetTheorems, SequenceTheorems, TLAPS

(* The lines of a package are gathered by a fold.                          *)
Gathering == INSTANCE FoldTheorems WITH Op <- Plain!TakeLine

-----------------------------------------------------------------------------
(* The entries of the first lines of a file are numbered. *)

Rank(n, b) == Cardinality({c \in Plain!Begins(n) : c <= b})
Count(n) == Cardinality(Plain!Begins(n))

LEMMA CardinalityIsPlain ==
    ASSUME NEW S
    PROVE  Plain!Cardinality(S) = Cardinality(S)
  BY DEF Plain!Cardinality, Cardinality

LEMMA CountIs ==
    ASSUME NEW n \in Nat
    PROVE  /\ IsFiniteSet(Plain!Begins(n)) /\ Count(n) \in Nat
           /\ Plain!Begins(n) \subseteq 1 .. n
  <1>1. IsFiniteSet(1 .. n) /\ Plain!Begins(n) \subseteq 1 .. n
    BY FS_Interval DEF Plain!Begins
  <1>2. IsFiniteSet(Plain!Begins(n))
    BY <1>1, FS_Subset
  <1> QED
    BY <1>1, <1>2, FS_CardinalityType DEF Count

LEMMA RankIs ==
    ASSUME NEW n \in Nat, NEW b \in Plain!Begins(n)
    PROVE  /\ Rank(n, b) \in 1 .. Count(n)
           /\ \A d \in Plain!Begins(n) : b < d => Rank(n, b) < Rank(n, d)
  <1> DEFINE upTo(d) == {c \in Plain!Begins(n) : c <= d}
  <1>1. /\ IsFiniteSet(Plain!Begins(n)) /\ Count(n) \in Nat
        /\ Plain!Begins(n) \subseteq 1 .. n
    BY CountIs
  <1>2. ASSUME NEW d PROVE IsFiniteSet(upTo(d)) /\ Cardinality(upTo(d)) \in Nat
                           /\ Cardinality(upTo(d)) <= Count(n)
    <2>1. upTo(d) \subseteq Plain!Begins(n)
      OBVIOUS
    <2> HIDE DEF upTo
    <2>2. IsFiniteSet(upTo(d)) /\ Cardinality(upTo(d)) <= Cardinality(Plain!Begins(n))
      BY <1>1, <2>1, FS_Subset
    <2> QED
      BY <2>2, FS_CardinalityType DEF Count
  <1>3. b \in upTo(b)
    BY <1>1
  <1>4. Cardinality(upTo(b)) # 0
    <2> HIDE DEF upTo
    <2> QED
      BY <1>2, <1>3, FS_EmptySet
  <1>5. ASSUME NEW d \in Plain!Begins(n), b < d
        PROVE  Cardinality(upTo(b)) < Cardinality(upTo(d))
    <2>1. b \in 1 .. n /\ d \in 1 .. n
      BY <1>1
    <2>2. upTo(b) \subseteq upTo(d)
      <3> SUFFICES ASSUME NEW c \in Plain!Begins(n), c <= b PROVE c <= d
        OBVIOUS
      <3>1. c \in 1 .. n
        BY <1>1
      <3> QED
        BY <1>5, <2>1, <3>1
    <2>3. d \in upTo(d) /\ d \notin upTo(b)
      BY <1>5, <2>1
    <2>4. IsFiniteSet(upTo(d)) /\ Cardinality(upTo(d)) \in Nat /\ Cardinality(upTo(b)) \in Nat
      BY <1>2
    <2> HIDE DEF upTo
    <2>5. /\ Cardinality(upTo(b)) <= Cardinality(upTo(d))
          /\ Cardinality(upTo(b)) = Cardinality(upTo(d)) => upTo(b) = upTo(d)
      BY <2>2, <2>4, FS_Subset
    <2> QED
      BY <2>3, <2>4, <2>5
  <1>6. Cardinality(upTo(b)) \in 1 .. Count(n)
    <2> HIDE DEF upTo
    <2> QED
      BY <1>1, <1>2, <1>4
  <1> QED
    BY <1>5, <1>6 DEF Rank

(* Each line that begins an entry has one number, and each number a line.  *)
LEMMA BeginIs ==
    ASSUME NEW n \in Nat
    PROVE  /\ \A k \in 1 .. Count(n) :
                 Plain!Begin(n, k) \in Plain!Begins(n) /\ Rank(n, Plain!Begin(n, k)) = k
           /\ \A b \in Plain!Begins(n) : b = Plain!Begin(n, Rank(n, b))
  <1> DEFINE rank == [b \in Plain!Begins(n) |-> Rank(n, b)]
  <1>1. /\ IsFiniteSet(Plain!Begins(n)) /\ Count(n) \in Nat
        /\ Plain!Begins(n) \subseteq 1 .. n
    BY CountIs
  <1>2. ASSUME NEW b \in Plain!Begins(n), NEW d \in Plain!Begins(n), Rank(n, b) = Rank(n, d)
        PROVE  b = d
    <2>1. b \in 1 .. n /\ d \in 1 .. n
      BY <1>1
    <2>2. Rank(n, b) \in 1 .. Count(n)
      BY RankIs
    <2>3. ~(b < d) /\ ~(d < b)
      BY <1>1, <1>2, <2>2, RankIs
    <2> QED
      BY <2>1, <2>3
  <1>3. rank \in Injection(Plain!Begins(n), 1 .. Count(n))
    BY <1>2, RankIs DEF Injection, IsInjective
  <1>4. IsFiniteSet(1 .. Count(n)) /\ Cardinality(1 .. Count(n)) = Count(n)
    BY <1>1, FS_Interval
  <1>5. rank \in Surjection(Plain!Begins(n), 1 .. Count(n))
    <2> HIDE DEF rank
    <2> QED
      BY <1>1, <1>3, <1>4, FS_Injection DEF Count
  <1>6. \A k \in 1 .. Count(n) : \E b \in Plain!Begins(n) : Rank(n, b) = k
    BY <1>5 DEF Surjection
  <1>7. ASSUME NEW k \in 1 .. Count(n)
        PROVE  Plain!Begin(n, k) \in Plain!Begins(n) /\ Rank(n, Plain!Begin(n, k)) = k
    BY <1>6, CardinalityIsPlain DEF Plain!Begin, Rank
  <1>8. ASSUME NEW b \in Plain!Begins(n)
        PROVE  b = Plain!Begin(n, Rank(n, b))
    <2>1. Rank(n, b) \in 1 .. Count(n)
      BY RankIs
    <2> QED
      BY <1>2, <1>7, <2>1
  <1> QED
    BY <1>7, <1>8

(* The next line begins an entry, or it does not.                          *)
LEMMA NextBegins ==
    ASSUME NEW n \in Nat, file[n + 1]
    PROVE  /\ Count(n + 1) = Count(n) + 1
           /\ Plain!Begin(n + 1, Count(n + 1)) = n + 1
           /\ \A k \in 1 .. Count(n) : Plain!Begin(n + 1, k) = Plain!Begin(n, k)
  <1>1. /\ IsFiniteSet(Plain!Begins(n)) /\ Count(n) \in Nat
        /\ Plain!Begins(n) \subseteq 1 .. n
    BY CountIs
  <1>2. Plain!Begins(n + 1) = Plain!Begins(n) \cup {n + 1} /\ n + 1 \notin Plain!Begins(n)
    BY DEF Plain!Begins
  <1>3. Count(n + 1) = Count(n) + 1
    BY <1>1, <1>2, FS_AddElement DEF Count
  <1>4. Rank(n + 1, n + 1) = Count(n + 1)
    <2>1. {c \in Plain!Begins(n + 1) : c <= n + 1} = Plain!Begins(n + 1)
      BY <1>1, <1>2
    <2> QED
      BY <2>1 DEF Rank, Count
  <1>5. ASSUME NEW b \in Plain!Begins(n)
        PROVE  Rank(n + 1, b) = Rank(n, b)
    <2>1. {c \in Plain!Begins(n + 1) : c <= b} = {c \in Plain!Begins(n) : c <= b}
      BY <1>1, <1>2
    <2> QED
      BY <2>1 DEF Rank
  <1>6. ASSUME NEW k \in 1 .. Count(n)
        PROVE  Plain!Begin(n + 1, k) = Plain!Begin(n, k)
    <2>1. Plain!Begin(n, k) \in Plain!Begins(n) /\ Rank(n, Plain!Begin(n, k)) = k
      BY BeginIs
    <2>2. Rank(n + 1, Plain!Begin(n, k)) = k /\ Plain!Begin(n, k) \in Plain!Begins(n + 1)
      BY <1>2, <1>5, <2>1
    <2>3. n + 1 \in Nat
      OBVIOUS
    <2> QED
      BY <2>2, <2>3, BeginIs
  <1>7. Plain!Begin(n + 1, Count(n + 1)) = n + 1
    <2>1. n + 1 \in Nat /\ n + 1 \in Plain!Begins(n + 1)
      BY <1>2
    <2> QED
      BY <1>4, <2>1, BeginIs
  <1> QED
    BY <1>3, <1>6, <1>7

LEMMA NextContinues ==
    ASSUME NEW n \in Nat, ~file[n + 1]
    PROVE  /\ Count(n + 1) = Count(n)
           /\ \A k : Plain!Begin(n + 1, k) = Plain!Begin(n, k)
  <1>1. Plain!Begins(n + 1) = Plain!Begins(n)
    BY DEF Plain!Begins
  <1> QED
    BY <1>1 DEF Count, Plain!Begin

-----------------------------------------------------------------------------
(* Reading in order takes one line after the other. *)

Lines == Plain!Lines

(* The lines of the k-th entry.                                            *)
LastLine(n, k) == IF k = Count(n) THEN n ELSE Plain!Begin(n, k + 1) - 1

LinesOf(n, k) ==
    [i \in 1 .. LastLine(n, k) - Plain!Begin(n, k) + 1 |-> Plain!Begin(n, k) + i - 1]

LEMMA SequentialIs ==
    ASSUME NEW n \in Nat
    PROVE  Plain!Sequential(n) = [k \in 1 .. Count(n) |-> LinesOf(n, k)]
  BY CardinalityIsPlain DEF Plain!Sequential, LinesOf, LastLine, Count

LEMMA LinesOfIs ==
    ASSUME NEW n \in Nat, NEW k \in 1 .. Count(n)
    PROVE  /\ Plain!Begin(n, k) \in 1 .. n
           /\ LastLine(n, k) \in Plain!Begin(n, k) .. n
           /\ LinesOf(n, k) \in Lines
           /\ Len(LinesOf(n, k)) = LastLine(n, k) - Plain!Begin(n, k) + 1
  <1>1. Count(n) \in Nat /\ Plain!Begins(n) \subseteq 1 .. n
    BY CountIs
  <1>2. Plain!Begin(n, k) \in Plain!Begins(n) /\ Rank(n, Plain!Begin(n, k)) = k
    BY BeginIs
  <1>3. LastLine(n, k) \in Plain!Begin(n, k) .. n
    <2>1. CASE k = Count(n)
      BY <1>1, <1>2, <2>1 DEF LastLine
    <2>2. CASE k # Count(n)
      <3>1. k + 1 \in 1 .. Count(n)
        BY <1>1, <2>2
      <3> DEFINE b == Plain!Begin(n, k)
                 d == Plain!Begin(n, k + 1)
      <3>2. d \in Plain!Begins(n) /\ Rank(n, d) = k + 1
        BY <3>1, BeginIs
      <3>3. b \in 1 .. n /\ d \in 1 .. n /\ b # d
        BY <1>1, <1>2, <3>2
      <3>4. ~(d < b)
        <4>1. d < b => Rank(n, d) < Rank(n, b)
          BY <1>2, <3>2, RankIs
        <4> QED
          BY <1>2, <3>2, <4>1
      <3> QED
        BY <2>2, <3>3, <3>4 DEF LastLine
    <2> QED
      BY <2>1, <2>2
  <1> DEFINE b == Plain!Begin(n, k)
             m == LastLine(n, k) - b + 1
  <1>4. b \in 1 .. n /\ m \in Nat
    BY <1>1, <1>2, <1>3
  <1>5. LinesOf(n, k) = [i \in 1 .. m |-> b + i - 1]
    BY DEF LinesOf
  <1> HIDE DEF b, m
  <1>6. [i \in 1 .. m |-> b + i - 1] \in [1 .. m -> Nat \ {0}]
    BY <1>4
  <1>7. LinesOf(n, k) \in Seq(Nat \ {0}) /\ Len(LinesOf(n, k)) = m
    BY <1>4, <1>5, <1>6
  <1> QED
    BY <1>3, <1>4, <1>7 DEF b, m, Lines, Plain!Lines

LEMMA SequentialType ==
    ASSUME NEW n \in Nat
    PROVE  /\ Plain!Sequential(n) \in Seq(Lines)
           /\ Len(Plain!Sequential(n)) = Count(n)
  <1>1. Count(n) \in Nat
    BY CountIs
  <1>2. [k \in 1 .. Count(n) |-> LinesOf(n, k)] \in [1 .. Count(n) -> Lines]
    BY LinesOfIs
  <1> QED
    BY <1>1, <1>2, SequentialIs

LEMMA SequentialBegin == Plain!Sequential(0) = <<>>
  <1>1. Plain!Begins(0) = {}
    BY DEF Plain!Begins
  <1>2. Count(0) = 0
    BY <1>1, FS_EmptySet DEF Count
  <1> QED
    BY <1>2, SequentialType, SequentialIs

LEMMA SequentialBegins ==
    ASSUME NEW n \in Nat, file[n + 1]
    PROVE  Plain!Sequential(n + 1) = Append(Plain!Sequential(n), <<n + 1>>)
  <1> DEFINE c == Count(n)
             S == Plain!Sequential(n)
  <1>1. /\ c \in Nat /\ Count(n + 1) = c + 1
        /\ Plain!Begin(n + 1, c + 1) = n + 1
        /\ \A k \in 1 .. c : Plain!Begin(n + 1, k) = Plain!Begin(n, k)
    BY CountIs, NextBegins
  <1>2. ASSUME NEW k \in 1 .. c
        PROVE  LinesOf(n + 1, k) = LinesOf(n, k)
    <2>1. LastLine(n + 1, k) = LastLine(n, k)
      <3>1. CASE k = c
        BY <1>1, <3>1 DEF LastLine
      <3>2. CASE k # c
        <4>1. k + 1 \in 1 .. c /\ k # c + 1
          BY <1>1, <3>2
        <4> QED
          BY <1>1, <3>2, <4>1 DEF LastLine
      <3> QED
        BY <3>1, <3>2
    <2>2. Plain!Begin(n + 1, k) = Plain!Begin(n, k)
      BY <1>1
    <2> QED
      BY <2>1, <2>2 DEF LinesOf
  <1>3. LinesOf(n + 1, c + 1) = <<n + 1>>
    <2>1. LastLine(n + 1, c + 1) = n + 1
      BY <1>1 DEF LastLine
    <2>2. LastLine(n + 1, c + 1) - Plain!Begin(n + 1, c + 1) + 1 = 1
      BY <1>1, <2>1
    <2>3. LinesOf(n + 1, c + 1) = [i \in 1 .. 1 |-> n + 1 + i - 1]
      BY <1>1, <2>2 DEF LinesOf
    <2>4. [i \in 1 .. 1 |-> n + 1 + i - 1] = <<n + 1>>
      OBVIOUS
    <2> QED
      BY <2>3, <2>4
  <1>4. /\ S \in Seq(Lines) /\ Len(S) = c
        /\ S = [k \in 1 .. c |-> LinesOf(n, k)]
        /\ Plain!Sequential(n + 1) = [k \in 1 .. c + 1 |-> LinesOf(n + 1, k)]
    <2>1. n + 1 \in Nat
      OBVIOUS
    <2> QED
      BY <1>1, <2>1, SequentialType, SequentialIs
  <1> HIDE DEF c, S
  <1>5. [k \in 1 .. c + 1 |-> LinesOf(n + 1, k)] = Append(S, <<n + 1>>)
    <2>1. Append(S, <<n + 1>>) = [k \in 1 .. c + 1 |-> IF k = c + 1 THEN <<n + 1>> ELSE S[k]]
      <3>1. S \in Seq(Lines) /\ Len(S) = c
        BY <1>4
      <3> QED
        BY ONLY <3>1
    <2>2. ASSUME NEW k \in 1 .. c + 1
          PROVE  LinesOf(n + 1, k) = IF k = c + 1 THEN <<n + 1>> ELSE S[k]
      <3>1. CASE k = c + 1
        BY <1>3, <3>1
      <3>2. CASE k # c + 1
        <4>1. k \in 1 .. c
          BY <1>1, <3>2
        <4> QED
          BY <1>2, <1>4, <3>2, <4>1
      <3> QED
        BY <3>1, <3>2
    <2> QED
      BY <2>1, <2>2
  <1> QED
    BY <1>4, <1>5 DEF S

LEMMA SequentialContinues ==
    ASSUME NEW n \in Nat, ~file[n + 1]
    PROVE  LET S == Plain!Sequential(n)
           IN  Plain!Sequential(n + 1) =
                 IF S = <<>> THEN S ELSE [S EXCEPT ![Len(S)] = Append(@, n + 1)]
  <1> DEFINE c == Count(n)
             S == Plain!Sequential(n)
  <1>1. /\ c \in Nat /\ Count(n + 1) = c
        /\ \A k : Plain!Begin(n + 1, k) = Plain!Begin(n, k)
    BY CountIs, NextContinues
  <1>2. /\ S \in Seq(Lines) /\ Len(S) = c
        /\ S = [k \in 1 .. c |-> LinesOf(n, k)]
        /\ Plain!Sequential(n + 1) = [k \in 1 .. c |-> LinesOf(n + 1, k)]
    <2>1. n + 1 \in Nat
      OBVIOUS
    <2> QED
      BY <1>1, <2>1, SequentialType, SequentialIs
  <1>3. ASSUME NEW k \in 1 .. c, k # c
        PROVE  LinesOf(n + 1, k) = LinesOf(n, k)
    BY <1>1, <1>3 DEF LinesOf, LastLine
  <1>4. ASSUME c # 0
        PROVE  LinesOf(n + 1, c) = Append(LinesOf(n, c), n + 1)
    <2> DEFINE b == Plain!Begin(n, c)
               m == n - b + 1
    <2>1. c \in 1 .. c
      BY <1>1, <1>4
    <2>2. b \in 1 .. n /\ LinesOf(n, c) \in Lines
      BY <2>1, LinesOfIs
    <2>3. LinesOf(n, c) = [i \in 1 .. m |-> b + i - 1]
      BY DEF LinesOf, LastLine
    <2>4. LinesOf(n + 1, c) = [i \in 1 .. m + 1 |-> b + i - 1]
      <3>1. LastLine(n + 1, c) - Plain!Begin(n + 1, c) + 1 = m + 1
        BY <1>1, <2>2 DEF LastLine
      <3> QED
        BY <1>1, <3>1 DEF LinesOf
    <2>5. m \in Nat /\ b + (m + 1) - 1 = n + 1
      BY <2>2
    <2> HIDE DEF b, m
    <2>6. LinesOf(n, c) \in Seq(Nat \ {0}) /\ Len(LinesOf(n, c)) = m
      BY <2>2, <2>3, <2>5 DEF Lines, Plain!Lines
    <2>7. Append(LinesOf(n, c), n + 1)
            = [i \in 1 .. m + 1 |-> IF i = m + 1 THEN n + 1 ELSE LinesOf(n, c)[i]]
      BY <2>6
    <2>8. ASSUME NEW i \in 1 .. m + 1
          PROVE  b + i - 1 = IF i = m + 1 THEN n + 1 ELSE LinesOf(n, c)[i]
      <3>1. CASE i = m + 1
        BY <2>5, <3>1
      <3>2. CASE i # m + 1
        <4>1. i \in 1 .. m
          BY <2>5, <3>2
        <4> QED
          BY <2>3, <3>2, <4>1
      <3> QED
        BY <3>1, <3>2
    <2> QED
      BY <2>4, <2>7, <2>8
  <1>5. CASE c = 0
    BY <1>2, <1>5
  <1>6. CASE c # 0
    <2>1. S # <<>>
      BY <1>1, <1>2, <1>6
    <2>2. [S EXCEPT ![c] = Append(@, n + 1)]
            = [k \in 1 .. c |-> IF k = c THEN Append(S[c], n + 1) ELSE S[k]]
      BY <1>2
    <2>3. ASSUME NEW k \in 1 .. c
          PROVE  LinesOf(n + 1, k) = IF k = c THEN Append(S[c], n + 1) ELSE S[k]
      BY <1>2, <1>3, <1>4, <1>6
    <2> QED
      BY <1>2, <2>1, <2>2, <2>3
  <1> QED
    BY <1>5, <1>6

LEMMA SequentialStep ==
    ASSUME NEW n \in Nat, file[n + 1] \in BOOLEAN
    PROVE  Plain!Sequential(n + 1) = Plain!TakeLine(Plain!Sequential(n), n + 1)
  <1>1. CASE file[n + 1]
    BY <1>1, SequentialBegins DEF Plain!TakeLine
  <1>2. CASE ~file[n + 1]
    BY <1>2, SequentialContinues DEF Plain!TakeLine
  <1> QED
    BY <1>1, <1>2

-----------------------------------------------------------------------------
(* A package is gathered, and joined, as its lines are read in order. *)

(* The lines behind line a, up to line b.                                  *)
Span(a, b) == [i \in 1 .. b - a |-> a + i]

LEMMA SpanIs ==
    ASSUME NEW a \in Nat, NEW b \in Nat, a <= b
    PROVE  /\ Span(a, b) \in Lines /\ Len(Span(a, b)) = b - a
           /\ DOMAIN Span(a, b) = 1 .. b - a
           /\ \A i \in 1 .. b - a : Span(a, b)[i] = a + i
  <1>1. b - a \in Nat /\ Span(a, b) \in [1 .. b - a -> Nat \ {0}]
    BY DEF Span
  <1>2. Span(a, b) \in Seq(Nat \ {0})
    BY <1>1
  <1> QED
    BY <1>1, <1>2 DEF Span, Lines, Plain!Lines

LEMMA TakeLineType ==
    ASSUME NEW pre \in Seq(Lines), NEW line \in Nat \ {0}
    PROVE  /\ Plain!TakeLine(pre, line) \in Seq(Lines)
           /\ file[line] \/ pre # <<>> => Plain!TakeLine(pre, line) # <<>>
           /\ ~file[line] /\ pre = <<>> => Plain!TakeLine(pre, line) = <<>>
  <1>1. CASE file[line]
    <2>1. <<line>> \in Lines
      BY DEF Lines, Plain!Lines
    <2>2. Append(pre, <<line>>) \in Seq(Lines) /\ Append(pre, <<line>>) # <<>>
      BY <2>1, AppendProperties
    <2> QED
      BY <1>1, <2>2 DEF Plain!TakeLine
  <1>2. CASE ~file[line] /\ pre = <<>>
    BY <1>2 DEF Plain!TakeLine
  <1>3. CASE ~file[line] /\ pre # <<>>
    <2> DEFINE k == Len(pre)
               more == Append(pre[k], line)
    <2>1. k \in Nat /\ k \in 1 .. k
      BY <1>3
    <2>2. pre[k] \in Seq(Nat \ {0})
      BY <2>1 DEF Lines, Plain!Lines
    <2>3. more \in Lines
      BY <2>2 DEF Lines, Plain!Lines
    <2> HIDE DEF k, more
    <2>4. [pre EXCEPT ![k] = more] \in Seq(Lines) /\ Len([pre EXCEPT ![k] = more]) = k
      BY <2>1, <2>3, ExceptSeq DEF k
    <2>5. [pre EXCEPT ![k] = more] # <<>>
      BY <2>1, <2>4
    <2> QED
      BY <1>3, <2>4, <2>5 DEF Plain!TakeLine, k, more
  <1> QED
    BY <1>1, <1>2, <1>3

(* What has been gathered before does not matter, if there is an entry.    *)
LEMMA TakenBehind ==
    ASSUME NEW x \in Seq(Lines), NEW y \in Seq(Lines), NEW line \in Nat \ {0},
           file[line] \/ y # <<>> \/ x = <<>>
    PROVE  Plain!TakeLine(x \o y, line) = x \o Plain!TakeLine(y, line)
  <1>1. CASE file[line]
    <2>1. <<line>> \in Lines
      BY DEF Lines, Plain!Lines
    <2>2. Append(x \o y, <<line>>) = x \o Append(y, <<line>>)
      <3>1. <<(<<line>>)>> \in Seq(Lines)
        BY <2>1
      <3>2. x \o y \in Seq(Lines)
        BY ConcatProperties
      <3>3. Append(x \o y, <<line>>) = (x \o y) \o <<(<<line>>)>>
        BY <2>1, <3>2, AppendIsConcat
      <3>4. Append(y, <<line>>) = y \o <<(<<line>>)>>
        BY <2>1, AppendIsConcat
      <3>5. (x \o y) \o <<(<<line>>)>> = x \o (y \o <<(<<line>>)>>)
        BY <3>1, ConcatAssociative
      <3> QED
        BY <3>3, <3>4, <3>5
    <2> QED
      BY <1>1, <2>2 DEF Plain!TakeLine
  <1>2. CASE ~file[line] /\ y = <<>>
    <2>1. x = <<>> /\ x \o y = <<>> /\ <<>> \o <<>> = <<>>
      BY <1>2
    <2> QED
      BY <1>2, <2>1 DEF Plain!TakeLine
  <1>3. CASE ~file[line] /\ y # <<>>
    <2> DEFINE m == Len(x)
               k == Len(y)
               more == Append(y[k], line)
    <2>1. m \in Nat /\ k \in Nat /\ k \in 1 .. k
      BY <1>3
    <2>2. /\ x \o y # <<>> /\ Len(x \o y) = m + k
          /\ (x \o y)[m + k] = y[k]
      BY <1>3
    <2>3. more \in Lines
      BY <2>1 DEF Lines, Plain!Lines
    <2> HIDE DEF m, k, more
    <2>4. [x \o y EXCEPT ![m + k] = more] = x \o [y EXCEPT ![k] = more]
      <3> DEFINE new == [y EXCEPT ![k] = more]
                 old == x \o y
      <3>1. /\ new \in Seq(Lines) /\ Len(new) = k
            /\ \A j \in 1 .. k : new[j] = IF j = k THEN more ELSE y[j]
        BY <2>1, <2>3, ExceptSeq DEF k
      <3>2. /\ old \in Seq(Lines) /\ Len(old) = m + k
            /\ \A i \in 1 .. m + k : old[i] = IF i <= m THEN x[i] ELSE y[i - m]
        BY ConcatProperties DEF m, k
      <3> HIDE DEF new, old
      <3>3. m + k \in 1 .. m + k
        BY <2>1
      <3>4. /\ [old EXCEPT ![m + k] = more] \in Seq(Lines)
            /\ Len([old EXCEPT ![m + k] = more]) = m + k
            /\ \A i \in 1 .. m + k :
                  [old EXCEPT ![m + k] = more][i] = IF i = m + k THEN more ELSE old[i]
        BY <2>3, <3>2, <3>3, ExceptSeq
      <3>5. /\ x \o new \in Seq(Lines) /\ Len(x \o new) = m + k
            /\ \A i \in 1 .. m + k : (x \o new)[i] = IF i <= m THEN x[i] ELSE new[i - m]
        <4>1. /\ x \o new \in Seq(Lines) /\ Len(x \o new) = Len(x) + Len(new)
              /\ \A i \in 1 .. Len(x) + Len(new) :
                    (x \o new)[i] = IF i <= Len(x) THEN x[i] ELSE new[i - Len(x)]
          <5>1. new \in Seq(Lines)
            BY <3>1
          <5> QED
            BY <5>1, ConcatProperties
        <4> QED
          BY <3>1, <4>1 DEF m
      <3> DEFINE left == [old EXCEPT ![m + k] = more]
                 right == x \o new
      <3>6. ASSUME NEW i \in 1 .. m + k
            PROVE  left[i] = right[i]
        <4> HIDE DEF left, right
        <4>1. left[i] = IF i = m + k THEN more ELSE old[i]
          BY <3>4 DEF left
        <4>2. right[i] = IF i <= m THEN x[i] ELSE new[i - m]
          BY <3>5 DEF right
        <4>3. CASE i <= m
          <5>1. i # m + k
            BY <2>1, <4>3
          <5> QED
            BY <3>2, <4>1, <4>2, <4>3, <5>1
        <4>4. CASE ~(i <= m)
          <5>1. i - m \in 1 .. k /\ (i - m = k <=> i = m + k)
            BY <2>1, <4>4
          <5>2. new[i - m] = IF i - m = k THEN more ELSE y[i - m]
            BY <3>1, <5>1
          <5>3. old[i] = y[i - m]
            BY <3>2, <4>4
          <5> QED
            BY <4>1, <4>2, <4>4, <5>1, <5>2, <5>3
        <4> QED
          BY <4>3, <4>4
      <3> HIDE DEF left, right
      <3>7. left = right
        <4>1. left \in Seq(Lines) /\ right \in Seq(Lines)
              /\ Len(left) = m + k /\ Len(right) = m + k
          BY <3>4, <3>5 DEF left, right
        <4> QED
          BY <3>6, <4>1, SeqEqual
      <3> QED
        BY <3>7 DEF left, right, new, old
    <2>5. Plain!TakeLine(x \o y, line) = [x \o y EXCEPT ![m + k] = more]
      BY <1>3, <2>2 DEF Plain!TakeLine, more
    <2>6. Plain!TakeLine(y, line) = [y EXCEPT ![k] = more]
      BY <1>3 DEF Plain!TakeLine, k, more
    <2> QED
      BY <2>4, <2>5, <2>6
  <1> QED
    BY <1>1, <1>2, <1>3

LEMMA GatheringIs ==
    ASSUME NEW pre, NEW lines
    PROVE  Plain!FoldLeft(Plain!TakeLine, pre, lines) = Gathering!Fold(pre, lines)
  BY DEF Plain!FoldLeft, Plain!MapThenFoldSet, Plain!Max,
         Gathering!Fold, Gathering!Folds, Gathering!Largest

(* Lines that are taken behind what has been gathered go on with it: x has *)
(* been put away, p may still grow.                                        *)
LEMMA GoesOn ==
    ASSUME file \in Seq(BOOLEAN), NEW a \in Nat, NEW b \in Nat, a <= b, b <= Len(file),
           NEW x \in Seq(Lines), NEW p \in Seq(Lines), p = <<>> => x = <<>>,
           x \o p = Plain!Sequential(a)
    PROVE  LET q == Plain!FoldLeft(Plain!TakeLine, p, Span(a, b))
           IN  /\ q \in Seq(Lines)
               /\ q = <<>> => x = <<>>
               /\ x \o q = Plain!Sequential(b)
  <1> DEFINE n == b - a
             S == [i \in 0 .. n |-> {q \in Seq(Lines) : /\ q = <<>> => x = <<>>
                                                       /\ x \o q = Plain!Sequential(a + i)}]
             lines == Span(a, b)
  <1>1. n \in Nat /\ DOMAIN lines = 1 .. n /\ \A i \in 1 .. n : lines[i] = a + i
    BY SpanIs
  <1>2. p \in S[0]
    <2>1. a + 0 = a /\ 0 \in 0 .. n
      BY <1>1
    <2> QED
      BY <2>1
  <1>3. ASSUME NEW i \in 1 .. n, NEW q \in S[i - 1]
        PROVE  Plain!TakeLine(q, lines[i]) \in S[i]
    <2> DEFINE l == a + i
               next == Plain!TakeLine(q, l)
    <2>1. /\ l \in Nat \ {0} /\ l \in 1 .. Len(file) /\ lines[i] = l
          /\ l - 1 \in Nat /\ (l - 1) + 1 = l /\ a + (i - 1) = l - 1
          /\ i - 1 \in 0 .. n /\ i \in 0 .. n
      BY <1>1
    <2>2. file[l] \in BOOLEAN
      BY <2>1
    <2>3. q \in Seq(Lines) /\ (q = <<>> => x = <<>>) /\ x \o q = Plain!Sequential(l - 1)
      BY <2>1
    <2> HIDE DEF l, n
    <2>4. Plain!Sequential(l) = Plain!TakeLine(Plain!Sequential(l - 1), l)
      <3>1. file[(l - 1) + 1] \in BOOLEAN
        BY <2>1, <2>2
      <3> QED
        BY <2>1, <3>1, SequentialStep
    <2>5. Plain!TakeLine(x \o q, l) = x \o next
      BY <2>1, <2>3, TakenBehind
    <2>6. next \in Seq(Lines) /\ (next = <<>> => q = <<>>)
      BY <2>1, <2>3, TakeLineType
    <2> HIDE DEF next
    <2>7. x \o next = Plain!Sequential(l)
      BY <2>3, <2>4, <2>5
    <2>8. (next = <<>> => x = <<>>)
      BY <2>3, <2>6
    <2>9. next \in S[i]
      BY <2>1, <2>6, <2>7, <2>8 DEF l
    <2> QED
      BY <2>1, <2>9 DEF next
  <1>4. Gathering!Fold(p, lines) \in S[n]
    <2> HIDE DEF S, n, lines
    <2> QED
      BY <1>1, <1>2, <1>3, Gathering!FoldReaches
  <1>5. a + n = b /\ n \in 0 .. n
    BY <1>1
  <1> QED
    BY <1>4, <1>5, GatheringIs

(* Where the lines of a package go on with the entry in front of it.       *)
LEMMA UnclaimedIs ==
    ASSUME NEW a \in Nat, NEW b \in Nat, a <= b
    PROVE  \E c \in a .. b :
              /\ Plain!Unclaimed(Span(a, b), <<>>) = Span(a, c)
              /\ \A i \in a + 1 .. c : ~file[i]
              /\ c < b => file[c + 1]
  <1> DEFINE lines == Span(a, b)
             matching == {i \in DOMAIN lines : file[lines[i]]}
             one == CHOOSE i \in matching : \A j \in matching : i <= j
  <1>1. DOMAIN lines = 1 .. b - a /\ \A i \in 1 .. b - a : lines[i] = a + i
    BY SpanIs
  <1>2. CASE matching = {}
    <2>1. Plain!Unclaimed(lines, <<>>) = Span(a, b)
      BY <1>2 DEF Plain!Unclaimed
    <2>2. ASSUME NEW i \in a + 1 .. b PROVE ~file[i]
      <3>1. i - a \in 1 .. b - a /\ a + (i - a) = i
        OBVIOUS
      <3> QED
        BY <1>1, <1>2, <3>1
    <2> QED
      BY <2>1, <2>2
  <1>3. CASE matching # {}
    <2>1. matching \subseteq 1 .. b - a /\ matching \in SUBSET Nat
      BY <1>1
    <2>2. one \in matching /\ \A j \in matching : one <= j
      <3> HIDE DEF matching
      <3>1. \E i \in matching : \A j \in matching : i <= j
        BY <1>3, <2>1, Gathering!Least
      <3> QED
        BY <3>1
    <2>3. Plain!Unclaimed(lines, <<>>) = SubSeq(lines, 1, one - 1)
      BY <1>3 DEF Plain!Unclaimed
    <2>4. one \in 1 .. b - a /\ file[a + one]
      BY <1>1, <2>1, <2>2
    <2> DEFINE c == a + one - 1
    <2>5. ASSUME NEW i \in a + 1 .. c PROVE ~file[i]
      <3>1. i - a \in 1 .. b - a /\ i - a < one /\ a + (i - a) = i
        BY <2>4
      <3>2. i - a \notin matching
        <4> HIDE DEF matching, one
        <4>1. i - a \in matching => one <= i - a
          BY <2>2
        <4> QED
          BY <2>4, <3>1, <4>1
      <3> QED
        BY <1>1, <3>1, <3>2
    <2> HIDE DEF matching, one
    <2>6. SubSeq(lines, 1, one - 1) = Span(a, c)
      <3>1. one - 1 \in Nat /\ one - 1 = c - a
        BY <2>4
      <3>2. SubSeq(lines, 1, one - 1) = [i \in 1 .. one - 1 |-> lines[i]]
        <4>1. lines \in Seq(Nat \ {0}) /\ one - 1 \in 0 .. Len(lines)
          BY <2>4, SpanIs DEF Lines, Plain!Lines
        <4> HIDE DEF lines
        <4>2. SubSeq(lines, 1, one - 1) = [i \in 1 .. (one - 1) - 1 + 1 |-> lines[1 + i - 1]]
          BY <3>1, <4>1
        <4>3. (one - 1) - 1 + 1 = one - 1 /\ \A i \in 1 .. one - 1 : 1 + i - 1 = i
          BY <3>1
        <4> QED
          BY <4>2, <4>3
      <3>3. \A i \in 1 .. one - 1 : lines[i] = a + i
        BY <1>1, <2>4
      <3> HIDE DEF lines, c
      <3> QED
        BY <3>1, <3>2, <3>3 DEF Span
    <2>7. c \in a .. b /\ c + 1 = a + one
      BY <2>4
    <2> QED
      BY <2>3, <2>4, <2>5, <2>6, <2>7
  <1> QED
    BY <1>2, <1>3

(* A package gathered by itself goes behind what its unclaimed lines have  *)
(* completed.                                                              *)
LEMMA GathersBehind ==
    ASSUME file \in Seq(BOOLEAN), NEW a \in Nat, NEW b \in Nat, b <= Len(file),
           NEW c \in a .. b, \A i \in a + 1 .. c : ~file[i], c < b => file[c + 1],
           NEW x \in Seq(Lines), x = Plain!Sequential(c)
    PROVE  LET q == Plain!FoldLeft(Plain!TakeLine, <<>>, Span(a, b))
           IN  /\ q \in Seq(Lines)
               /\ x \o q = Plain!Sequential(b)
  <1> DEFINE n == b - a
             S == [i \in 0 .. n |->
                     {q \in Seq(Lines) :
                        IF a + i <= c THEN q = <<>>
                        ELSE q # <<>> /\ x \o q = Plain!Sequential(a + i)}]
             lines == Span(a, b)
  <1>1. a <= b /\ n \in Nat /\ c \in Nat
    OBVIOUS
  <1>2. DOMAIN lines = 1 .. n /\ \A i \in 1 .. n : lines[i] = a + i
    BY <1>1, SpanIs
  <1>3. <<>> \in S[0]
    <2>1. <<>> \in Seq(Lines) /\ a + 0 <= c /\ 0 \in 0 .. n
      BY <1>1
    <2> QED
      BY <2>1
  <1>4. x \o <<>> = x
    BY ConcatEmptySeq
  <1>5. ASSUME NEW i \in 1 .. n, NEW q \in S[i - 1]
        PROVE  Plain!TakeLine(q, lines[i]) \in S[i]
    <2> DEFINE l == a + i
               next == Plain!TakeLine(q, l)
    <2>1. /\ l \in Nat \ {0} /\ l \in 1 .. Len(file) /\ lines[i] = l
          /\ l - 1 \in Nat /\ (l - 1) + 1 = l /\ a + (i - 1) = l - 1
          /\ i - 1 \in 0 .. n /\ i \in 0 .. n /\ l \in a + 1 .. b
      BY <1>1, <1>2
    <2>2. file[l] \in BOOLEAN
      BY <2>1
    <2>3. /\ q \in Seq(Lines)
          /\ l - 1 <= c => q = <<>>
          /\ ~(l - 1 <= c) => q # <<>> /\ x \o q = Plain!Sequential(l - 1)
      BY <2>1
    <2> HIDE DEF l, n
    <2>4. next \in Seq(Lines)
          /\ (file[l] \/ q # <<>> => next # <<>>)
          /\ (~file[l] /\ q = <<>> => next = <<>>)
      BY <2>1, <2>3, TakeLineType
    <2> HIDE DEF next
    <2>5. CASE l <= c
      <3>1. ~file[l] /\ q = <<>>
        BY <1>1, <2>1, <2>3, <2>5
      <3>2. next = <<>>
        BY <2>4, <3>1
      <3>3. next \in S[i]
        BY <2>1, <2>4, <2>5, <3>2 DEF l
      <3> QED
        BY <2>1, <3>3 DEF next
    <2>6. CASE ~(l <= c)
      <3>1. x \o q = Plain!Sequential(l - 1) /\ (file[l] \/ q # <<>>)
        <4>1. CASE l - 1 <= c
          <5>1. l - 1 = c /\ c + 1 = l /\ c < b /\ q = <<>>
            BY <1>1, <2>1, <2>3, <2>6, <4>1
          <5>2. file[l]
            BY <5>1
          <5>3. x \o q = x
            BY <1>4, <5>1
          <5> QED
            BY <5>1, <5>2, <5>3
        <4>2. CASE ~(l - 1 <= c)
          BY <2>3, <4>2
        <4> QED
          BY <4>1, <4>2
      <3>2. Plain!Sequential(l) = Plain!TakeLine(Plain!Sequential(l - 1), l)
        <4>1. file[(l - 1) + 1] \in BOOLEAN
          BY <2>1, <2>2
        <4> QED
          BY <2>1, <4>1, SequentialStep
      <3>3. Plain!TakeLine(x \o q, l) = x \o Plain!TakeLine(q, l)
        BY <2>1, <2>3, <3>1, TakenBehind
      <3>4. x \o next = Plain!Sequential(l) /\ next # <<>>
        BY <2>4, <3>1, <3>2, <3>3 DEF next
      <3>5. next \in S[i]
        BY <2>1, <2>4, <2>6, <3>4 DEF l
      <3> QED
        BY <2>1, <3>5 DEF next
    <2> QED
      BY <2>5, <2>6
  <1>6. Gathering!Fold(<<>>, lines) \in S[n]
    <2> HIDE DEF S, n, lines
    <2> QED
      BY <1>1, <1>2, <1>3, <1>5, Gathering!FoldReaches
  <1> DEFINE out == Gathering!Fold(<<>>, lines)
  <1>7. a + n = b /\ n \in 0 .. n
    BY <1>1
  <1>8. /\ out \in Seq(Lines)
        /\ b <= c => out = <<>>
        /\ ~(b <= c) => x \o out = Plain!Sequential(b)
    <2> HIDE DEF out, n
    <2> QED
      BY <1>6, <1>7 DEF out
  <1>9. x \o out = Plain!Sequential(b)
    <2>1. b <= c => b = c
      BY <1>1
    <2> HIDE DEF out
    <2> QED
      BY <1>4, <1>8, <2>1
  <1>10. Plain!FoldLeft(Plain!TakeLine, <<>>, lines) = out
    BY GatheringIs
  <1> HIDE DEF out
  <1> QED
    BY <1>8, <1>9, <1>10

(* WorkPackage::join: with the package behind it, what has been read up to *)
(* line a is what has been read up to line b.                              *)
LEMMA JoinIs ==
    ASSUME file \in Seq(BOOLEAN), NEW a \in Nat, NEW b \in Nat, a <= b, b <= Len(file),
           NEW x \in Seq(Lines), NEW p \in Seq(Lines), p = <<>> => x = <<>>,
           x \o p = Plain!Sequential(a)
    PROVE  LET next == Plain!Converted(Span(a, b), <<>>)
               taken == Plain!Converted(next.lines, p)
           IN  /\ taken.lines \in Lines /\ taken.pre \o next.pre \in Seq(Lines)
               /\ taken.pre \o next.pre = <<>> => x = <<>>
               /\ x \o (taken.pre \o next.pre) = Plain!Sequential(b)
  <1>1. PICK c \in a .. b :
           /\ Plain!Unclaimed(Span(a, b), <<>>) = Span(a, c)
           /\ \A i \in a + 1 .. c : ~file[i]
           /\ c < b => file[c + 1]
    BY UnclaimedIs
  <1> DEFINE own == Plain!FoldLeft(Plain!TakeLine, p, Span(a, c))
             pre == Plain!FoldLeft(Plain!TakeLine, <<>>, Span(a, b))
  <1>2. c \in Nat /\ a <= c /\ c <= Len(file)
    <2>1. Len(file) \in Nat
      OBVIOUS
    <2> QED
      BY <2>1
  <1>3. own \in Seq(Lines) /\ (own = <<>> => x = <<>>) /\ x \o own = Plain!Sequential(c)
    BY <1>2, GoesOn, ZenonT(30)
  <1>4. x \o own \in Seq(Lines)
    BY <1>2, <1>3, SequentialType
  <1>5. pre \in Seq(Lines) /\ (x \o own) \o pre = Plain!Sequential(b)
    BY <1>1, <1>3, <1>4, GathersBehind
  <1> DEFINE next == Plain!Converted(Span(a, b), <<>>)
             taken == Plain!Converted(next.lines, p)
  <1>6. next.lines = Span(a, c) /\ next.pre = pre
    BY <1>1 DEF Plain!Converted
  <1>7. taken.lines = Plain!Unclaimed(Span(a, c), p) /\ taken.pre = own
    BY <1>6 DEF Plain!Converted
  <1>8. Plain!Unclaimed(Span(a, c), p) \in Lines
    <2>1. CASE p # <<>>
      BY <2>1 DEF Plain!Unclaimed, Lines, Plain!Lines
    <2>2. CASE p = <<>>
      <3>1. PICK d \in a .. c : Plain!Unclaimed(Span(a, c), <<>>) = Span(a, d)
        BY <1>2, UnclaimedIs
      <3>2. d \in Nat /\ a <= d
        OBVIOUS
      <3>3. Span(a, d) \in Lines
        BY <3>2, SpanIs
      <3> QED
        BY <2>2, <3>1, <3>3
    <2> QED
      BY <2>1, <2>2
  <1> HIDE DEF own, pre, next, taken
  <1>9. own \o pre \in Seq(Lines) /\ (own \o pre = <<>> => own = <<>>)
    <2>1. own \o pre = <<>> => own = <<>>
      BY <1>3, <1>5, ConcatEqualIffEmpty
    <2> QED
      BY <1>3, <1>5, <2>1, ConcatProperties
  <1>10. x \o (own \o pre) = Plain!Sequential(b)
    <2>1. own \in Seq(Lines) /\ pre \in Seq(Lines)
      BY <1>3, <1>5
    <2>2. (x \o own) \o pre = x \o (own \o pre)
      BY ONLY <2>1, x \in Seq(Lines), ConcatAssociative
    <2> QED
      BY <1>5, <2>2
  <1>11. /\ taken.lines \in Lines /\ taken.pre \o next.pre \in Seq(Lines)
         /\ taken.pre \o next.pre = <<>> => x = <<>>
         /\ x \o (taken.pre \o next.pre) = Plain!Sequential(b)
    BY ONLY <1>3, <1>6, <1>7, <1>8, <1>9, <1>10
  <1> QED
    BY <1>11, Zenon DEF next, taken

-----------------------------------------------------------------------------
(* The inductive invariant. *)

(* The last line of package p.                                             *)
EndOf(p) == IF p * PackageSize <= Len(file) THEN p * PackageSize ELSE Len(file)

Gathered(p) == Plain!Converted(Span(EndOf(p - 1), EndOf(p)), <<>>)

(* The packages cut the lines read so far, and the rest is collected.      *)
LinesInOrder ==
    /\ read = EndOf(Len(packages)) + Len(collected)
    /\ collected = Span(EndOf(Len(packages)), read)
    /\ Len(collected) < PackageSize
    /\ read = Len(file) => collected = <<>>

PackagesHoldThem ==
    \A p \in DOMAIN packages :
        IF packages[p].converted
        THEN packages[p].lines = Gathered(p).lines /\ packages[p].pre = Gathered(p).pre
        ELSE packages[p].lines = Span(EndOf(p - 1), EndOf(p)) /\ packages[p].pre = <<>>

(* How far the reading thread is.                                          *)
Progress ==
    /\ phase = "idle" => packages = <<>> /\ read = 0
    /\ phase \in {"idle", "reading"} => entries = <<>>
    /\ phase = "joining" =>
          /\ read = Len(file) /\ joined # 0
          /\ first.pre = <<>> => entries = <<>>
          /\ entries \o first.pre = Plain!Sequential(EndOf(joined))
    /\ phase = "done" => entries = Plain!Sequential(Len(file))

PlainInv == Plain!TypeOK /\ LinesInOrder /\ PackagesHoldThem /\ Progress

(* The parser of the own format: as long as lines are left there are all   *)
(* fields, and what is gathered is a sequence of entries.                  *)
OwnEntries ==
    \E S : newEntries \in Seq(S) /\ \A e \in S : DOMAIN e = 0 .. Fields - 1

FieldsKnown ==
    lwiPhase \notin {"idle", "written", "done"} /\ ~Lwi!AtEnd =>
        fields = Fields /\ DOMAIN order = 0 .. Fields - 1

OwnInv == Lwi!TypeOK /\ OwnEntries /\ FieldsKnown

(* The one message: it is on its way only when the thread is done, and the *)
(* table is empty until it comes.  The types of the window come with it.   *)
OneMessage ==
    /\ window \in {"none", "refused", "open", "closing", "closed"}
    /\ capture \in BOOLEAN /\ posted \in BOOLEAN
    /\ phase # "idle" => lwiPhase \in {"idle", "written"}
    /\ window \in {"none", "refused"} => table = <<>> /\ phase = "idle" /\ lwiPhase # "done"
    /\ window \in {"none", "refused", "closed"} => ~ThreadRuns
    /\ posted => window \in {"open", "closing"} /\ ~ThreadRuns
    /\ posted \/ ThreadRuns => table = <<>>
    /\ table # <<>> => table = Content

Inv == PlainInv /\ OwnInv /\ OneMessage

-----------------------------------------------------------------------------
(* The parser of plain files keeps its part. *)

Packages == [lines : Lines, pre : Seq(Lines), converted : BOOLEAN]

LEMMA EndOfIs ==
    ASSUME file \in Files
    PROVE  /\ file \in Seq(BOOLEAN) /\ Len(file) \in Nat /\ EndOf(0) = 0
           /\ \A p \in Nat : /\ EndOf(p) \in Nat /\ EndOf(p) <= Len(file)
                             /\ EndOf(p) <= EndOf(p + 1)
  <1>1. file \in Seq(BOOLEAN) /\ Len(file) \in Nat /\ PackageSize \in Nat
    BY ParserAssumption
  <1>2. EndOf(0) = 0
    BY <1>1 DEF EndOf
  <1>3. ASSUME NEW p \in Nat
        PROVE  /\ EndOf(p) \in Nat /\ EndOf(p) <= Len(file)
               /\ EndOf(p) <= EndOf(p + 1)
    <2>1. p * PackageSize \in Nat /\ (p + 1) * PackageSize = p * PackageSize + PackageSize
      BY <1>1
    <2> QED
      BY <1>1, <2>1 DEF EndOf
  <1> QED
    BY <1>1, <1>2, <1>3

LEMMA GatheredType ==
    ASSUME file \in Files, NEW p \in Nat \ {0}
    PROVE  Gathered(p) \in [lines : Lines, pre : Seq(Lines)]
  <1> DEFINE a == EndOf(p - 1)
             b == EndOf(p)
  <1>1. /\ file \in Seq(BOOLEAN) /\ a \in Nat /\ b \in Nat /\ a <= b /\ b <= Len(file)
        /\ Len(file) \in Nat
    <2>1. p - 1 \in Nat /\ (p - 1) + 1 = p
      OBVIOUS
    <2> QED
      BY <2>1, EndOfIs
  <1> HIDE DEF a, b
  <1>2. PICK c \in a .. b :
           /\ Plain!Unclaimed(Span(a, b), <<>>) = Span(a, c)
           /\ \A i \in a + 1 .. c : ~file[i]
           /\ c < b => file[c + 1]
    BY <1>1, UnclaimedIs
  <1>3. c \in Nat /\ a <= c
    BY <1>1
  <1>4. Span(a, c) \in Lines
    BY <1>1, <1>3, SpanIs
  <1>5. Plain!FoldLeft(Plain!TakeLine, <<>>, Span(a, b)) \in Seq(Lines)
    <2>1. Plain!Sequential(c) \in Seq(Lines)
      BY <1>3, SequentialType
    <2> QED
      BY <1>1, <1>2, <2>1, GathersBehind
  <1> QED
    BY <1>2, <1>4, <1>5 DEF Gathered, Plain!Converted, a, b

LEMMA SameFile ==
    ASSUME file' = file
    PROVE  /\ \A p : EndOf(p)' = EndOf(p) /\ Gathered(p)' = Gathered(p)
           /\ \A n : Plain!Sequential(n)' = Plain!Sequential(n)
           /\ Plain!Sequential(Len(file))' = Plain!Sequential(Len(file))
  <1>1. ASSUME NEW p PROVE EndOf(p)' = EndOf(p)
    BY DEF EndOf
  <1>2. ASSUME NEW p PROVE Gathered(p)' = Gathered(p)
    BY DEF Gathered, Span, EndOf, Plain!Converted, Plain!Unclaimed, Plain!FoldLeft,
           Plain!MapThenFoldSet, Plain!Max, Plain!TakeLine
  <1>3. ASSUME NEW n PROVE Plain!Sequential(n)' = Plain!Sequential(n)
    BY DEF Plain!Sequential, Plain!Begin, Plain!Begins
  <1>4. Plain!Sequential(Len(file))' = Plain!Sequential(Len(file))
    BY DEF Plain!Sequential, Plain!Begin, Plain!Begins
  <1> QED
    BY <1>1, <1>2, <1>3, <1>4

LEMMA PlainTypes ==
    ASSUME Plain!TypeOK
    PROVE  /\ file \in Files /\ file \in Seq(BOOLEAN) /\ Len(file) \in Nat
           /\ read \in 0 .. Len(file) /\ collected \in Lines
           /\ packages \in Seq(Packages) /\ Len(packages) \in Nat
           /\ joined \in 0 .. Len(packages) /\ entries \in Seq(Lines)
           /\ first \in [lines : Lines, pre : Seq(Lines)]
           /\ PackageSize \in Nat \ {0}
  BY ParserAssumption DEF Plain!TypeOK, Packages, Lines

LEMMA SpanGrows ==
    ASSUME NEW a \in Nat, NEW b \in Nat, a <= b
    PROVE  Append(Span(a, b), b + 1) = Span(a, b + 1)
  <1> DEFINE n == b - a
  <1>1. Span(a, b) \in Seq(Nat \ {0}) /\ Len(Span(a, b)) = n /\ n \in Nat
    BY SpanIs DEF Lines, Plain!Lines
  <1>2. Append(Span(a, b), b + 1) = [i \in 1 .. n + 1 |-> IF i = n + 1 THEN b + 1 ELSE Span(a, b)[i]]
    <2> HIDE DEF n
    <2> QED
      BY <1>1
  <1>3. ASSUME NEW i \in 1 .. n + 1
        PROVE  (IF i = n + 1 THEN b + 1 ELSE Span(a, b)[i]) = a + i
    <2>1. CASE i = n + 1
      BY <2>1
    <2>2. CASE i # n + 1
      <3>1. i \in 1 .. b - a
        BY <2>2
      <3> QED
        BY <2>2, <3>1 DEF Span
    <2> QED
      BY <2>1, <2>2
  <1>4. Span(a, b + 1) = [i \in 1 .. n + 1 |-> a + i]
    <2>1. (b + 1) - a = n + 1
      OBVIOUS
    <2> QED
      BY <2>1 DEF Span
  <1> QED
    BY <1>2, <1>3, <1>4

\* A package more leaves those that are there as they are.
LEMMA PackageAdded ==
    ASSUME Plain!TypeOK, PackagesHoldThem, file' = file,
           NEW lines \in Lines, lines = Span(EndOf(Len(packages)), EndOf(Len(packages) + 1)),
           packages' = Append(packages, [lines |-> lines, pre |-> <<>>, converted |-> FALSE])
    PROVE  /\ packages' \in Seq(Packages) /\ Len(packages') = Len(packages) + 1
           /\ PackagesHoldThem'
  <1> DEFINE k == Len(packages)
             new == [lines |-> lines, pre |-> <<>>, converted |-> FALSE]
  <1>1. packages \in Seq(Packages) /\ k \in Nat /\ new \in Packages
    BY PlainTypes DEF Packages
  <1>2. new.lines = lines /\ new.pre = <<>> /\ ~new.converted
    OBVIOUS
  <1>3. packages' = Append(packages, new)
    OBVIOUS
  <1> HIDE DEF new
  <1>4. /\ packages' \in Seq(Packages) /\ Len(packages') = k + 1
        /\ \A p \in 1 .. k : packages'[p] = packages[p]
        /\ packages'[k + 1] = new
    BY <1>1, <1>3, AppendProperties
  <1>5. ASSUME NEW p \in DOMAIN packages'
        PROVE  IF packages'[p].converted
               THEN /\ packages'[p].lines = Gathered(p)'.lines
                    /\ packages'[p].pre = Gathered(p)'.pre
               ELSE packages'[p].lines = Span(EndOf(p - 1)', EndOf(p)') /\ packages'[p].pre = <<>>
    <2>1. p \in 1 .. k + 1
      BY <1>1, <1>4
    <2>2. EndOf(p - 1)' = EndOf(p - 1) /\ EndOf(p)' = EndOf(p) /\ Gathered(p)' = Gathered(p)
      BY SameFile
    <2>3. CASE p = k + 1
      <3>1. p - 1 = k
        BY <1>1, <2>3
      <3> QED
        BY <1>2, <1>4, <2>2, <2>3, <3>1
    <2>4. CASE p # k + 1
      <3>1. p \in DOMAIN packages /\ packages'[p] = packages[p]
        BY <1>1, <1>4, <2>1, <2>4
      <3> QED
        BY <2>2, <3>1 DEF PackagesHoldThem
    <2> QED
      BY <2>3, <2>4
  <1>6. PackagesHoldThem'
    BY <1>5 DEF PackagesHoldThem, Span
  <1> QED
    BY <1>4, <1>6

LEMMA ReadLineKeeps ==
    ASSUME PlainInv, Plain!ReadLine
    PROVE  PlainInv'
  <1> DEFINE k == Len(packages)
             e == EndOf(k)
             lines == Append(collected, read + 1)
             full == read + 1 = Len(file) \/ Len(lines) >= PackageSize
  <1>1. /\ Plain!TypeOK /\ LinesInOrder /\ PackagesHoldThem /\ Progress
        /\ file \in Files /\ Len(file) \in Nat /\ k \in Nat /\ PackageSize \in Nat \ {0}
        /\ read \in Nat /\ collected \in Lines /\ Len(collected) \in Nat
    BY PlainTypes DEF PlainInv, Lines, Plain!Lines
  <1>2. /\ phase = "reading" /\ read < Len(file) /\ read' = read + 1
        /\ file' = file /\ phase' = phase /\ first' = first /\ joined' = joined
        /\ entries' = entries
    BY DEF Plain!ReadLine
  <1>3. IF full
        THEN /\ packages' = Append(packages, [lines |-> lines, pre |-> <<>>, converted |-> FALSE])
             /\ collected' = <<>>
        ELSE collected' = lines /\ packages' = packages
    BY DEF Plain!ReadLine
  <1>4. /\ e \in Nat /\ e <= Len(file) /\ read = e + Len(collected)
        /\ collected = Span(e, read) /\ Len(collected) < PackageSize
    BY <1>1, EndOfIs DEF LinesInOrder
  <1>5. /\ lines = Span(e, read + 1) /\ lines \in Lines
        /\ Len(lines) = Len(collected) + 1
    <2>1. e <= read /\ read + 1 \in Nat /\ e <= read + 1
      BY <1>1, <1>4
    <2>2. lines = Span(e, read + 1)
      BY <1>1, <1>4, <2>1, SpanGrows
    <2>3. Len(Span(e, read + 1)) = (read + 1) - e /\ Span(e, read + 1) \in Lines
      BY <1>4, <2>1, SpanIs
    <2>4. (read + 1) - e = Len(collected) + 1
      BY <1>1, <1>4
    <2> QED
      BY <2>2, <2>3, <2>4
  <1>7. /\ phase' = "reading" /\ entries' = <<>>
        /\ Plain!TypeOK' <=> packages' \in Seq(Packages) /\ collected' \in Lines
                             /\ joined' \in 0 .. Len(packages')
    BY <1>1, <1>2 DEF Plain!TypeOK, Progress, Packages, Lines, Plain!Lines
  <1>8. Progress'
    BY <1>7 DEF Progress
  <1>9. CASE full
    <2>1. EndOf(k + 1) = read + 1
      <3>1. e = k * PackageSize /\ (k + 1) * PackageSize = k * PackageSize + PackageSize
            /\ k * PackageSize \in Nat
        <4>1. k * PackageSize \in Nat /\ (k + 1) * PackageSize = k * PackageSize + PackageSize
          BY <1>1
        <4>2. e # Len(file)
          BY <1>1, <1>2, <1>4
        <4> QED
          BY <4>1, <4>2 DEF EndOf
      <3>2. CASE Len(lines) >= PackageSize
        <4>1. (k + 1) * PackageSize = read + 1
          BY <1>1, <1>4, <1>5, <3>1, <3>2
        <4> QED
          BY <1>1, <1>2, <4>1 DEF EndOf
      <3>3. CASE read + 1 = Len(file)
        <4>1. read + 1 <= (k + 1) * PackageSize
          BY <1>1, <1>4, <3>1
        <4> QED
          BY <1>1, <3>1, <3>3, <4>1 DEF EndOf
      <3> QED
        BY <1>9, <3>2, <3>3
    <2>2. packages' = Append(packages, [lines |-> lines, pre |-> <<>>, converted |-> FALSE])
          /\ collected' = <<>>
      BY <1>3, <1>9
    <2> HIDE DEF lines
    <2>3. /\ packages' \in Seq(Packages) /\ Len(packages') = k + 1
          /\ PackagesHoldThem'
      BY <1>1, <1>2, <1>5, <2>1, <2>2, PackageAdded
    <2>4. Plain!TypeOK'
      <3>1. <<>> \in Lines /\ joined \in 0 .. k
        BY <1>1, PlainTypes DEF Lines, Plain!Lines
      <3> QED
        BY <1>1, <1>2, <1>7, <2>2, <2>3, <3>1
    <2>5. LinesInOrder'
      <3>1. EndOf(Len(packages))' = read + 1
        BY <1>2, <2>1, <2>3 DEF EndOf
      <3>2. Span(read + 1, read + 1) = <<>>
        <4>1. (read + 1) - (read + 1) = 0
          BY <1>1
        <4> QED
          BY <4>1 DEF Span
      <3>3. Span(EndOf(Len(packages)), read)' = Span(read + 1, read + 1)
        BY <1>2, <3>1 DEF Span
      <3> QED
        <4>1. (collected = Span(EndOf(Len(packages)), read))'
          BY <2>2, <3>2, <3>3
        <4>2. Len(collected') = 0 /\ read' = EndOf(Len(packages))' + Len(collected')
          BY <1>1, <1>2, <2>2, <3>1
        <4>3. Len(collected') < PackageSize
          BY <1>1, <4>2
        <4> QED
          BY <2>2, <4>1, <4>2, <4>3 DEF LinesInOrder
    <2> QED
      BY <1>8, <2>3, <2>4, <2>5 DEF PlainInv
  <1>10. CASE ~full
    <2>1. collected' = lines /\ packages' = packages
      BY <1>3, <1>10
    <2>2. Plain!TypeOK'
      BY <1>1, <1>2, <1>5, <1>7, <2>1, PlainTypes
    <2>3. LinesInOrder'
      <3>1. EndOf(Len(packages))' = e
        BY <1>2, <2>1 DEF EndOf
      <3>2. Span(EndOf(Len(packages)), read)' = Span(e, read + 1)
        BY <1>2, <3>1 DEF Span
      <3>3. read' # Len(file)' /\ Len(lines) < PackageSize
        BY <1>1, <1>2, <1>5, <1>10
      <3> QED
        <4>1. (collected = Span(EndOf(Len(packages)), read))'
          BY <1>5, <2>1, <3>2
        <4>2. read' = EndOf(Len(packages))' + Len(collected')
          BY <1>1, <1>2, <1>4, <1>5, <2>1, <3>1
        <4>3. Len(collected') < PackageSize
          BY <2>1, <3>3
        <4> QED
          BY <3>3, <4>1, <4>2, <4>3 DEF LinesInOrder
    <2>4. PackagesHoldThem'
      BY <1>1, <1>2, <2>1, SameFile DEF PackagesHoldThem, Span
    <2> QED
      BY <1>8, <2>2, <2>3, <2>4 DEF PlainInv
  <1> QED
    BY <1>9, <1>10

LEMMA NothingRead ==
    ASSUME LinesInOrder, PackagesHoldThem,
           file' = file, read' = read, collected' = collected, packages' = packages
    PROVE  LinesInOrder' /\ PackagesHoldThem'
  <1>1. LinesInOrder'
    BY DEF LinesInOrder, EndOf, Span
  <1>2. PackagesHoldThem'
    BY SameFile DEF PackagesHoldThem, Span
  <1> QED
    BY <1>1, <1>2

LEMMA EmptyFileKeeps ==
    ASSUME PlainInv, Plain!EmptyFile
    PROVE  PlainInv'
  <1>1. /\ Plain!TypeOK /\ LinesInOrder /\ PackagesHoldThem /\ Progress
        /\ file \in Files /\ Len(file) \in Nat /\ EndOf(0) = 0
    BY PlainTypes, EndOfIs DEF PlainInv
  <1>2. /\ phase = "reading" /\ read = Len(file) /\ packages = <<>> /\ phase' = "done"
        /\ file' = file /\ read' = read /\ collected' = collected /\ packages' = packages
        /\ first' = first /\ joined' = joined /\ entries' = entries
    BY DEF Plain!EmptyFile
  <1>3. Plain!TypeOK' /\ LinesInOrder' /\ PackagesHoldThem'
    BY <1>1, <1>2, NothingRead DEF Plain!TypeOK
  <1>4. Len(file) = 0
    BY <1>1, <1>2 DEF LinesInOrder
  <1>5. entries' = Plain!Sequential(Len(file))'
    BY <1>1, <1>2, <1>4, SameFile, SequentialBegin DEF Progress
  <1> QED
    BY <1>2, <1>3, <1>5 DEF PlainInv, Progress

\* The first package is not joined to anything.
LEMMA FirstIs ==
    ASSUME file \in Files
    PROVE  Gathered(1).pre = Plain!Sequential(EndOf(1))
  <1> DEFINE b == EndOf(1)
  <1>1. /\ file \in Seq(BOOLEAN) /\ EndOf(0) = 0 /\ b \in Nat /\ 0 <= b /\ b <= Len(file)
        /\ Len(file) \in Nat /\ 1 - 1 = 0
    BY EndOfIs
  <1> HIDE DEF b
  <1>2. PICK c \in 0 .. b :
           /\ Plain!Unclaimed(Span(0, b), <<>>) = Span(0, c)
           /\ \A i \in 0 + 1 .. c : ~file[i]
           /\ c < b => file[c + 1]
    BY <1>1, UnclaimedIs
  <1>3. Plain!Sequential(c) = <<>>
    <2>1. c \in Nat /\ Plain!Begins(c) = {}
      BY <1>1, <1>2 DEF Plain!Begins
    <2>2. Count(c) = 0
      BY <2>1, FS_EmptySet DEF Count
    <2> QED
      BY <2>1, <2>2, SequentialType
  <1> DEFINE q == Plain!FoldLeft(Plain!TakeLine, <<>>, Span(0, b))
  <1>4. q \in Seq(Lines) /\ <<>> \o q = Plain!Sequential(b)
    <2>1. <<>> \in Seq(Lines) /\ 0 \in Nat
      OBVIOUS
    <2> QED
      BY <1>1, <1>2, <1>3, <2>1, GathersBehind, ZenonT(30)
  <1>5. Gathered(1).pre = q
    BY <1>1 DEF Gathered, Plain!Converted, b
  <1> HIDE DEF q
  <1>6. <<>> \o q = q
    BY <1>4, ConcatEmptySeq
  <1> QED
    BY <1>4, <1>5, <1>6 DEF b

LEMMA TakeFirstKeeps ==
    ASSUME PlainInv, Plain!TakeFirst
    PROVE  PlainInv'
  <1>1. /\ Plain!TypeOK /\ LinesInOrder /\ PackagesHoldThem /\ Progress
        /\ file \in Files /\ packages \in Seq(Packages) /\ Len(packages) \in Nat
        /\ entries \in Seq(Lines)
    BY PlainTypes DEF PlainInv
  <1>2. /\ phase = "reading" /\ read = Len(file) /\ packages # <<>> /\ packages[1].converted
        /\ first' = [lines |-> <<>>, pre |-> packages[1].pre] /\ joined' = 1
        /\ phase' = "joining"
        /\ file' = file /\ read' = read /\ collected' = collected /\ packages' = packages
        /\ entries' = entries
    BY DEF Plain!TakeFirst
  <1>3. LinesInOrder' /\ PackagesHoldThem'
    BY <1>1, <1>2, NothingRead
  <1>4. 1 \in DOMAIN packages /\ packages[1] \in Packages
    BY <1>1, <1>2
  <1>5. first'.pre = packages[1].pre /\ first'.pre \in Seq(Lines)
    BY <1>2, <1>4 DEF Packages
  <1>6. Plain!TypeOK'
    <2>1. first' \in [lines : Lines, pre : Seq(Lines)]
      BY <1>2, <1>5 DEF Lines, Plain!Lines
    <2>2. joined' \in 0 .. Len(packages)
      BY <1>1, <1>2, <1>4
    <2> QED
      BY <1>1, <1>2, <2>1, <2>2 DEF Plain!TypeOK, Lines, Plain!Lines
  <1>7. packages[1].pre = Plain!Sequential(EndOf(1))
    BY <1>1, <1>2, <1>4, FirstIs DEF PackagesHoldThem
  <1>8. entries' = <<>> /\ <<>> \o first'.pre = first'.pre
    BY <1>1, <1>2, <1>5, ConcatEmptySeq DEF Progress
  <1>9. (entries \o first.pre = Plain!Sequential(EndOf(joined)))'
    <2>1. Plain!Sequential(EndOf(joined))' = Plain!Sequential(EndOf(1))
      BY <1>2 DEF EndOf, Plain!Sequential, Plain!Begin, Plain!Begins
    <2> QED
      BY <1>5, <1>7, <1>8, <2>1
  <1>10. Progress'
    BY <1>2, <1>8, <1>9 DEF Progress
  <1> QED
    BY <1>3, <1>6, <1>10 DEF PlainInv

\* What is put away and what may still grow are what has been gathered.
LEMMA JoinedIs ==
    ASSUME PlainInv, Plain!JoinNext
    PROVE  LET grown == Plain!Join(first, packages[joined + 1])
           IN  /\ grown \in [lines : Lines, pre : Seq(Lines)]
               /\ grown.pre = <<>> => entries = <<>>
               /\ entries \o grown.pre = Plain!Sequential(EndOf(joined + 1))
  <1> DEFINE a == EndOf(joined)
             b == EndOf(joined + 1)
             next == packages[joined + 1]
  <1>1. /\ Plain!TypeOK /\ PackagesHoldThem /\ Progress
        /\ file \in Files /\ packages \in Seq(Packages) /\ Len(packages) \in Nat
        /\ entries \in Seq(Lines) /\ joined \in 0 .. Len(packages)
        /\ first \in [lines : Lines, pre : Seq(Lines)]
    BY PlainTypes DEF PlainInv
  <1>2. phase = "joining" /\ joined < Len(packages) /\ next.converted
    BY DEF Plain!JoinNext
  <1>3. joined \in Nat /\ joined + 1 \in DOMAIN packages /\ (joined + 1) - 1 = joined
    BY <1>1, <1>2
  <1>4. /\ file \in Seq(BOOLEAN) /\ a \in Nat /\ b \in Nat /\ a <= b /\ b <= Len(file)
    <2>1. joined + 1 \in Nat
      BY <1>3
    <2> QED
      BY <1>1, <1>3, <2>1, EndOfIs
  <1>5. /\ next.lines = Plain!Converted(Span(a, b), <<>>).lines
        /\ next.pre = Plain!Converted(Span(a, b), <<>>).pre
    BY <1>1, <1>2, <1>3 DEF PackagesHoldThem, Gathered
  <1>6. /\ first.pre \in Seq(Lines) /\ (first.pre = <<>> => entries = <<>>)
        /\ entries \o first.pre = Plain!Sequential(a)
    BY <1>1, <1>2 DEF Progress
  <1> DEFINE other == Plain!Converted(Span(a, b), <<>>)
             taken == Plain!Converted(other.lines, first.pre)
  <1> HIDE DEF a, b
  <1>7. /\ taken.lines \in Lines /\ taken.pre \o other.pre \in Seq(Lines)
        /\ taken.pre \o other.pre = <<>> => entries = <<>>
        /\ entries \o (taken.pre \o other.pre) = Plain!Sequential(b)
    <2>1. entries \in Seq(Lines)
      BY <1>1
    <2> QED
      BY <1>4, <1>6, <2>1, JoinIs
  <1>8. Plain!Join(first, next) = [lines |-> taken.lines, pre |-> taken.pre \o other.pre]
    <2> HIDE DEF next, other
    <2> QED
      BY <1>5 DEF Plain!Join, other
  <1> DEFINE grown == Plain!Join(first, next)
             ours == taken.lines
             pre == taken.pre \o other.pre
  <1> HIDE DEF other, taken
  <1>9. grown = [lines |-> ours, pre |-> pre]
    BY <1>8
  <1>10. /\ ours \in Lines /\ pre \in Seq(Lines) /\ (pre = <<>> => entries = <<>>)
         /\ entries \o pre = Plain!Sequential(b)
    BY <1>7
  <1> HIDE DEF ours, pre, grown
  <1>11. /\ grown \in [lines : Lines, pre : Seq(Lines)]
         /\ grown.pre = <<>> => entries = <<>>
         /\ entries \o grown.pre = Plain!Sequential(b)
    <2>1. grown.pre = pre
      BY <1>9
    <2> QED
      BY <1>9, <1>10, <2>1
  <1> QED
    BY <1>11 DEF b, next, grown

LEMMA JoinNextKeeps ==
    ASSUME PlainInv, Plain!JoinNext
    PROVE  PlainInv'
  <1> DEFINE grown == Plain!Join(first, packages[joined + 1])
             pre == grown.pre
             whole_ == Len(pre) - 1
             put == SubSeq(pre, 1, whole_)
  <1>1. /\ Plain!TypeOK /\ LinesInOrder /\ PackagesHoldThem /\ Progress
        /\ file \in Files /\ packages \in Seq(Packages) /\ Len(packages) \in Nat
        /\ entries \in Seq(Lines) /\ joined \in 0 .. Len(packages)
    BY PlainTypes DEF PlainInv
  <1>2. /\ phase = "joining" /\ joined < Len(packages) /\ joined' = joined + 1
        /\ file' = file /\ phase' = phase /\ read' = read /\ collected' = collected
        /\ packages' = packages
    BY DEF Plain!JoinNext
  <1>3. IF pre = <<>> THEN first' = grown /\ entries' = entries
        ELSE /\ first' = [grown EXCEPT !.pre = <<pre[Len(pre)]>>]
             /\ entries' = entries \o put
    BY DEF Plain!JoinNext, Plain!Last
  <1>4. /\ grown \in [lines : Lines, pre : Seq(Lines)]
        /\ pre = <<>> => entries = <<>>
        /\ entries \o pre = Plain!Sequential(EndOf(joined + 1))
    BY JoinedIs
  <1> HIDE DEF grown
  <1>5. LinesInOrder' /\ PackagesHoldThem'
    BY <1>1, <1>2, NothingRead
  <1>6. /\ first' \in [lines : Lines, pre : Seq(Lines)] /\ entries' \in Seq(Lines)
        /\ first'.pre = <<>> => entries' = <<>>
        /\ entries' \o first'.pre = entries \o pre
    <2>1. CASE pre = <<>>
      BY <1>1, <1>3, <1>4, <2>1
    <2>2. CASE pre # <<>>
      <3>1. pre \in Seq(Lines) /\ Len(pre) \in Nat \ {0} /\ grown.lines \in Lines
        BY <1>4, <2>2
      <3>2. first' = [grown EXCEPT !.pre = <<pre[Len(pre)]>>] /\ entries' = entries \o put
        BY <1>3, <2>2
      <3> HIDE DEF pre
      <3>3. pre[Len(pre)] \in Lines /\ <<pre[Len(pre)]>> \in Seq(Lines)
        BY <3>1
      <3>4. put \in Seq(Lines) /\ put \o <<pre[Len(pre)]>> = pre
        <4>1. Len(pre) \in 1 .. Len(pre) /\ 1 \in 1 .. Len(pre)
          BY <3>1
        <4>2. SubSeq(pre, 1, Len(pre)) = SubSeq(pre, 1, Len(pre) - 1) \o <<pre[Len(pre)]>>
          BY <3>1, <4>1, SubSeqRecursiveSecond
        <4>3. SubSeq(pre, 1, Len(pre)) = pre
          BY <3>1, SubSeqFull
        <4>4. put \in Seq(Lines)
          <5>1. \A i \in 1 .. whole_ : pre[i] \in Lines
            BY <3>1
          <5>2. whole_ \in Int
            BY <3>1
          <5> QED
            BY <5>1, <5>2, SubSeqProperties
        <4> QED
          BY <4>2, <4>3, <4>4
      <3>5. first'.pre = <<pre[Len(pre)]>> /\ first' \in [lines : Lines, pre : Seq(Lines)]
        <4>1. first' = [lines |-> grown.lines, pre |-> <<pre[Len(pre)]>>]
          BY <1>4, <3>2
        <4> QED
          BY <3>1, <3>3, <4>1
      <3>6. entries \o put \in Seq(Lines)
            /\ (entries \o put) \o <<pre[Len(pre)]>> = entries \o pre
        <4> DEFINE last == <<pre[Len(pre)]>>
        <4>1. last \in Seq(Lines) /\ put \in Seq(Lines) /\ put \o last = pre
          BY <3>3, <3>4
        <4> HIDE DEF last, put
        <4>2. (entries \o put) \o last = entries \o (put \o last)
          <5>1. entries \in Seq(Lines)
            BY <1>1
          <5>2. last \in Seq(Lines) /\ put \in Seq(Lines)
            BY <4>1
          <5> QED
            BY <5>1, <5>2, ConcatAssociative
        <4>3. entries \o put \in Seq(Lines)
          BY <1>1, <4>1, ConcatProperties
        <4> QED
          BY <4>1, <4>2, <4>3 DEF last
      <3>7. first'.pre # <<>>
        BY <3>5
      <3> QED
        BY <3>2, <3>5, <3>6, <3>7
    <2> QED
      BY <2>1, <2>2
  <1>7. Plain!TypeOK'
    <2>1. joined' \in 0 .. Len(packages)
      BY <1>1, <1>2
    <2> QED
      BY <1>1, <1>2, <1>6, <2>1 DEF Plain!TypeOK, Lines, Plain!Lines
  <1>8. Progress'
    <2>1. Plain!Sequential(EndOf(joined))' = Plain!Sequential(EndOf(joined + 1))
      BY <1>2 DEF EndOf, Plain!Sequential, Plain!Begin, Plain!Begins
    <2>2. joined' # 0
      BY <1>1, <1>2
    <2>3. (entries \o first.pre = Plain!Sequential(EndOf(joined)))'
      BY <1>4, <1>6, <2>1
    <2> QED
      BY <1>1, <1>2, <1>6, <2>2, <2>3 DEF Progress
  <1> QED
    BY <1>5, <1>7, <1>8 DEF PlainInv

LEMMA EmitEntriesKeeps ==
    ASSUME PlainInv, Plain!EmitEntries
    PROVE  PlainInv'
  <1>1. /\ Plain!TypeOK /\ LinesInOrder /\ PackagesHoldThem /\ Progress
        /\ file \in Files /\ Len(file) \in Nat /\ EndOf(joined) \in Nat
        /\ entries \in Seq(Lines) /\ first.pre \in Seq(Lines)
    BY PlainTypes, EndOfIs DEF PlainInv
  <1>2. /\ phase = "joining" /\ joined = Len(packages) /\ entries' = entries \o first.pre
        /\ phase' = "done"
        /\ file' = file /\ read' = read /\ collected' = collected /\ packages' = packages
        /\ first' = first /\ joined' = joined
    BY DEF Plain!EmitEntries
  <1>3. LinesInOrder' /\ PackagesHoldThem'
    BY <1>1, <1>2, NothingRead
  <1>4. EndOf(joined) = Len(file)
    <2>1. read = EndOf(joined) + 0 /\ read = Len(file)
      BY <1>1, <1>2 DEF LinesInOrder, Progress
    <2> QED
      BY <1>1, <2>1
  <1>5. entries' = Plain!Sequential(Len(file))
    BY <1>1, <1>2, <1>4 DEF Progress
  <1>6. Plain!TypeOK'
    <2>1. entries' \in Seq(Lines)
      BY <1>1, <1>2, ConcatProperties
    <2> QED
      BY <1>1, <1>2, <2>1 DEF Plain!TypeOK, Lines
  <1>7. Progress'
    BY <1>2, <1>5, SameFile DEF Progress
  <1> QED
    BY <1>3, <1>6, <1>7 DEF PlainInv

LEMMA ConvertKeeps ==
    ASSUME PlainInv, NEW p \in DOMAIN packages, Plain!Convert(p)
    PROVE  PlainInv'
  <1> DEFINE done == Plain!Converted(packages[p].lines, packages[p].pre)
             new == [lines |-> done.lines, pre |-> done.pre, converted |-> TRUE]
  <1>1. /\ Plain!TypeOK /\ LinesInOrder /\ PackagesHoldThem /\ Progress
        /\ file \in Files /\ packages \in Seq(Packages) /\ Len(packages) \in Nat
        /\ joined \in 0 .. Len(packages)
    BY PlainTypes DEF PlainInv
  <1>2. /\ ~packages[p].converted
        /\ packages' = [packages EXCEPT ![p] = new]
        /\ file' = file /\ phase' = phase /\ read' = read /\ collected' = collected
        /\ first' = first /\ joined' = joined /\ entries' = entries
    BY DEF Plain!Convert
  <1>3. p \in Nat \ {0}
    BY <1>1
  <1>4. done = Gathered(p)
    <2>1. packages[p].lines = Span(EndOf(p - 1), EndOf(p)) /\ packages[p].pre = <<>>
      BY <1>1, <1>2 DEF PackagesHoldThem
    <2> QED
      BY <2>1 DEF Gathered
  <1> HIDE DEF done
  <1>5. done \in [lines : Lines, pre : Seq(Lines)]
    BY <1>1, <1>3, <1>4, GatheredType
  <1>6. new \in Packages /\ new.lines = done.lines /\ new.pre = done.pre /\ new.converted
    BY <1>5 DEF Packages
  <1> HIDE DEF new
  <1>7. /\ packages' \in Seq(Packages) /\ Len(packages') = Len(packages)
        /\ DOMAIN packages' = DOMAIN packages /\ packages'[p] = new
        /\ \A q \in DOMAIN packages : q # p => packages'[q] = packages[q]
    BY <1>1, <1>2, <1>6
  <1>8. Plain!TypeOK'
    BY <1>1, <1>2, <1>7 DEF Plain!TypeOK, Packages, Lines, Plain!Lines
  <1>9. LinesInOrder'
    BY <1>1, <1>2, <1>7 DEF LinesInOrder, EndOf, Span
  <1>10. ASSUME NEW q \in DOMAIN packages'
         PROVE  IF packages'[q].converted
                THEN /\ packages'[q].lines = Gathered(q)'.lines
                     /\ packages'[q].pre = Gathered(q)'.pre
                ELSE packages'[q].lines = Span(EndOf(q - 1)', EndOf(q)') /\ packages'[q].pre = <<>>
    <2>1. EndOf(q - 1)' = EndOf(q - 1) /\ EndOf(q)' = EndOf(q) /\ Gathered(q)' = Gathered(q)
      BY <1>2, SameFile
    <2>2. CASE q = p
      BY <1>4, <1>6, <1>7, <2>1, <2>2
    <2>3. CASE q # p
      <3>1. q \in DOMAIN packages /\ packages'[q] = packages[q]
        BY <1>7, <2>3
      <3> QED
        BY <1>1, <2>1, <3>1 DEF PackagesHoldThem
    <2> QED
      BY <2>2, <2>3
  <1>11. PackagesHoldThem'
    BY <1>10 DEF PackagesHoldThem, Span
  <1>12. Progress'
    <2>1. phase = "idle" => packages' = <<>>
      BY <1>1, <1>7 DEF Progress
    <2>2. Plain!Sequential(EndOf(joined))' = Plain!Sequential(EndOf(joined))
      BY <1>2 DEF EndOf, Plain!Sequential, Plain!Begin, Plain!Begins
    <2>3. Plain!Sequential(Len(file))' = Plain!Sequential(Len(file))
      BY <1>2, SameFile
    <2> QED
      BY <1>1, <1>2, <2>1, <2>2, <2>3 DEF Progress
  <1> QED
    BY <1>8, <1>9, <1>11, <1>12 DEF PlainInv

LEMMA InitParserKeeps ==
    ASSUME PlainInv, NEW lines \in Files, Plain!InitParser(lines)
    PROVE  PlainInv'
  <1>1. /\ Plain!TypeOK /\ LinesInOrder /\ PackagesHoldThem /\ Progress
        /\ file \in Files /\ EndOf(0) = 0 /\ collected \in Lines /\ PackageSize \in Nat \ {0}
    BY PlainTypes, EndOfIs DEF PlainInv
  <1>2. /\ phase = "idle" /\ file' = lines /\ phase' = "reading"
        /\ read' = read /\ collected' = collected /\ packages' = packages
        /\ first' = first /\ joined' = joined /\ entries' = entries
    BY DEF Plain!InitParser
  <1>3. packages = <<>> /\ read = 0 /\ entries = <<>>
    BY <1>1, <1>2 DEF Progress
  <1>4. collected = <<>>
    <2>1. Len(packages) = 0
      BY <1>3
    <2>2. Len(collected) = 0
      BY <1>1, <1>3, <2>1 DEF LinesInOrder, Lines, Plain!Lines
    <2> QED
      BY <1>1, <2>2 DEF Lines, Plain!Lines
  <1>5. Len(file') \in Nat
    BY <1>2, ParserAssumption
  <1>6. Plain!TypeOK'
    <2>1. 0 \in 0 .. Len(file')
      BY <1>5
    <2> QED
      BY <1>1, <1>2, <1>3, <2>1 DEF Plain!TypeOK
  <1>7. LinesInOrder'
    <2>1. EndOf(Len(packages))' = 0
      <3>1. Len(packages') = 0 /\ 0 * PackageSize = 0
        BY <1>1, <1>2, <1>3
      <3> QED
        BY <1>5, <3>1 DEF EndOf
    <2>2. Span(EndOf(Len(packages)), read)' = <<>>
      BY <1>2, <1>3, <2>1 DEF Span
    <2>3. Len(collected') = 0 /\ 0 < PackageSize
      BY <1>1, <1>2, <1>4
    <2> QED
      BY <1>2, <1>3, <1>4, <2>1, <2>2, <2>3 DEF LinesInOrder
  <1>8. PackagesHoldThem'
    BY <1>2, <1>3 DEF PackagesHoldThem
  <1>9. Progress'
    BY <1>2, <1>3 DEF Progress
  <1> QED
    BY <1>6, <1>7, <1>8, <1>9 DEF PlainInv

LEMMA PlainStays ==
    ASSUME PlainInv, UNCHANGED plainVars
    PROVE  PlainInv'
  <1>1. /\ Plain!TypeOK /\ LinesInOrder /\ PackagesHoldThem /\ Progress
    BY DEF PlainInv
  <1>2. /\ phase' = phase /\ file' = file /\ read' = read /\ collected' = collected
        /\ packages' = packages /\ first' = first /\ joined' = joined /\ entries' = entries
    BY DEF plainVars
  <1>3. LinesInOrder' /\ PackagesHoldThem'
    BY <1>1, <1>2, NothingRead
  <1>4. Plain!TypeOK'
    BY <1>1, <1>2 DEF Plain!TypeOK
  <1>5. Plain!Sequential(EndOf(joined))' = Plain!Sequential(EndOf(joined))
        /\ Plain!Sequential(Len(file))' = Plain!Sequential(Len(file))
    BY <1>2 DEF EndOf, Plain!Sequential, Plain!Begin, Plain!Begins
  <1>6. Progress'
    BY <1>1, <1>2, <1>5 DEF Progress
  <1> QED
    BY <1>3, <1>4, <1>6 DEF PlainInv

-----------------------------------------------------------------------------
(* The own format: the exporter, and the parser of what it left. *)

\* The message goes to the end and no field is lost.
LEMMA OrderIs ==
    /\ Lwi!ExportOrder # <<>> /\ Len(Lwi!ExportOrder) = Fields
    /\ (0 .. Fields - 1) \ Lwi!Range(Lwi!ExportOrder) = {}
  <1> DEFINE order_ == Lwi!ExportOrder
  <1>1. Fields \in Nat /\ MessageID \in 1 .. Fields - 1
    BY FieldsAssumption
  <1>2. order_ = [c \in 1 .. Fields |->
                    IF c <= MessageID THEN c - 1 ELSE IF c < Fields THEN c ELSE MessageID]
    BY DEF Lwi!ExportOrder
  <1> HIDE DEF order_
  <1>3. DOMAIN order_ = 1 .. Fields /\ Len(order_) = Fields
    <2>1. order_ \in Seq(Int)
      BY <1>1, <1>2
    <2> QED
      BY <1>1, <1>2, <2>1
  <1>4. ASSUME NEW f \in 0 .. Fields - 1 PROVE f \in Lwi!Range(order_)
    <2>1. \E c \in 1 .. Fields : order_[c] = f
      <3>1. CASE f < MessageID
        <4>1. f + 1 \in 1 .. Fields /\ f + 1 <= MessageID /\ (f + 1) - 1 = f
          BY <1>1, <3>1
        <4>2. order_[f + 1] = f
          BY <1>2, <4>1
        <4> QED
          BY <4>1, <4>2
      <3>2. CASE f = MessageID
        <4>1. Fields \in 1 .. Fields /\ ~(Fields <= MessageID) /\ ~(Fields < Fields)
          BY <1>1
        <4>2. order_[Fields] = f
          BY <1>2, <3>2, <4>1
        <4> QED
          BY <4>1, <4>2
      <3>3. CASE f > MessageID
        <4>1. f \in 1 .. Fields /\ ~(f <= MessageID) /\ f < Fields
          BY <1>1, <3>3
        <4>2. order_[f] = f
          BY <1>2, <4>1
        <4> QED
          BY <4>1, <4>2
      <3> QED
        BY <1>1, <3>1, <3>2, <3>3
    <2> QED
      BY <1>3, <2>1 DEF Lwi!Range
  <1>5. order_ # <<>>
    BY <1>1, <1>3
  <1> QED
    BY <1>3, <1>4, <1>5 DEF order_

\* An empty file has one line, the empty one, and there is nothing behind it.
LEMMA NoLines ==
    /\ Lwi!Split(<<>>, Lwi!LineEnd) = << <<>> >>
    /\ Head(<< <<>> >>) = <<>> /\ Tail(<< <<>> >>) = <<>>
  <1>1. Lwi!Matches(<<>>, Lwi!LineEnd) = <<>>
    <2> DEFINE f == [i \in 1 .. Len(<<>>) + Len(Lwi!LineEnd) |-> <<>>]
    <2>1. Len(<<>>) = 0 /\ Len(Lwi!LineEnd) = 1
      BY DEF Lwi!LineEnd
    <2> DEFINE Is(g) == g = [i \in 1 .. Len(<<>>) + Len(Lwi!LineEnd) |->
                          IF i + Len(Lwi!LineEnd) - 1 > Len(<<>>) THEN <<>>
                          ELSE IF SubSeq(<<>>, i, i + Len(Lwi!LineEnd) - 1) = Lwi!LineEnd
                            THEN <<i>> \o g[i + Len(Lwi!LineEnd)]
                          ELSE g[i + 1]]
    <2>2. Is(f)
      <3>1. \A i \in 1 .. Len(<<>>) + Len(Lwi!LineEnd) : i + Len(Lwi!LineEnd) - 1 > Len(<<>>)
        BY <2>1
      <3> QED
        BY <3>1
    <2> DEFINE g == CHOOSE h : Is(h)
    <2>3. Is(g)
      <3> HIDE DEF Is, f
      <3> QED
        BY <2>2
    <2>4. g[1] = <<>>
      <3>1. 1 \in 1 .. Len(<<>>) + Len(Lwi!LineEnd) /\ 1 + Len(Lwi!LineEnd) - 1 > Len(<<>>)
        BY <2>1
      <3> HIDE DEF g
      <3> QED
        BY <2>3, <3>1
    <2>5. Lwi!Matches(<<>>, Lwi!LineEnd) = g[1]
      BY DEF Lwi!Matches
    <2> QED
      BY <2>4, <2>5
  <1>2. Lwi!Split(<<>>, Lwi!LineEnd) = << <<>> >>
    <2> DEFINE at == <<1 - Len(Lwi!LineEnd)>> \o Lwi!Matches(<<>>, Lwi!LineEnd) \o <<Len(<<>>) + 1>>
    <2>1. Len(<<>>) = 0 /\ Len(Lwi!LineEnd) = 1
      BY DEF Lwi!LineEnd
    <2>2. Lwi!Split(<<>>, Lwi!LineEnd)
            = [i \in 1 .. Len(at) - 1 |-> SubSeq(<<>>, at[i] + Len(Lwi!LineEnd), at[i + 1] - 1)]
      BY DEF Lwi!Split
    <2>3. Len(at) = 2 /\ at[1] = 0 /\ at[2] = 1
      <3>1. 1 - Len(Lwi!LineEnd) = 0 /\ Len(<<>>) + 1 = 1
        BY <2>1
      <3>2. at = (<<0>> \o <<>>) \o <<1>>
        BY <1>1, <3>1
      <3>3. <<0>> \o <<>> = <<0>>
        BY ConcatEmptySeq
      <3>4. <<0>> \in Seq(Int) /\ <<1>> \in Seq(Int) /\ Len(<<0>>) = 1 /\ Len(<<1>>) = 1
        OBVIOUS
      <3>5. at = <<0>> \o <<1>>
        BY <3>2, <3>3
      <3> HIDE DEF at
      <3> QED
        BY <3>4, <3>5
    <2> HIDE DEF at
    <2>4. \A i \in 1 .. 1 : SubSeq(<<>>, at[i] + Len(Lwi!LineEnd), at[i + 1] - 1) = <<>>
      <3>1. at[1] + Len(Lwi!LineEnd) = 1 /\ at[1 + 1] - 1 = 0
        BY <2>1, <2>3
      <3>2. SubSeq(<<>>, 1, 0) = <<>>
        OBVIOUS
      <3> QED
        BY <3>1, <3>2
    <2> DEFINE part(i) == SubSeq(<<>>, at[i] + Len(Lwi!LineEnd), at[i + 1] - 1)
    <2>5. Lwi!Split(<<>>, Lwi!LineEnd) = [i \in 1 .. 1 |-> <<>>]
      <3>1. Len(at) - 1 = 1
        BY <2>3
      <3>2. Lwi!Split(<<>>, Lwi!LineEnd) = [i \in 1 .. 1 |-> part(i)]
        BY <2>2, <3>1
      <3>3. \A i \in 1 .. 1 : part(i) = <<>>
        BY <2>4
      <3> HIDE DEF part
      <3> QED
        BY <3>2, <3>3
    <2> QED
      BY <2>5
  <1>3. Head(<< <<>> >>) = <<>>
    OBVIOUS
  <1>4. Tail(<< <<>> >>) = <<>>
    OBVIOUS
  <1> QED
    BY <1>2, <1>3, <1>4

LEMMA OwnParts ==
    ASSUME OwnInv
    PROVE  /\ lwiPhase \in {"idle", "written", "run", "next", "gather", "split", "done"}
           /\ abort \in BOOLEAN /\ whole \in 0 .. Len(rows)
           /\ lwiFile # <<>> => header = Lwi!ExportOrder
           /\ lwiPhase \in {"gather", "split"} => fields = Fields /\ DOMAIN order = 0 .. Fields - 1
           /\ OwnEntries /\ FieldsKnown
  BY DEF OwnInv, Lwi!TypeOK, Lwi!FieldIDs

\* The parts of the invariant back into one.
LEMMA OwnTogether ==
    ASSUME lwiPhase' \in {"idle", "written", "run", "next", "gather", "split", "done"},
           abort' \in BOOLEAN, whole' \in 0 .. Len(rows'),
           lwiFile' # <<>> => header' = Lwi!ExportOrder,
           lwiPhase' \in {"gather", "split"} => fields' = Fields /\ DOMAIN order' = 0 .. Fields - 1,
           OwnEntries', FieldsKnown'
    PROVE  OwnInv'
  <1>1. Lwi!ExportOrder' = Lwi!ExportOrder
    BY DEF Lwi!ExportOrder
  <1>2. \A i \in DOMAIN newEntries' : DOMAIN newEntries'[i] = 0 .. Fields - 1
    <2>1. PICK S : newEntries' \in Seq(S) /\ \A e \in S : DOMAIN e = 0 .. Fields - 1
      BY DEF OwnEntries
    <2> QED
      BY <2>1
  <1>3. Lwi!TypeOK'
    BY <1>1, <1>2 DEF Lwi!TypeOK, Lwi!FieldIDs
  <1> QED
    BY <1>3 DEF OwnInv

LEMMA SameEntries ==
    ASSUME OwnEntries, newEntries' = newEntries
    PROVE  OwnEntries'
  BY DEF OwnEntries

LEMMA ExportKeeps ==
    ASSUME OwnInv, Lwi!Export
    PROVE  OwnInv'
  <1>1. PICK n \in 0 .. Len(Numbers) :
          \E text \in [1 .. n -> [Lwi!FieldIDs \ {0} -> Texts]] :
            rows' = [i \in 1 .. n |->
                       [f \in Lwi!FieldIDs |-> IF f = 0 THEN <<Numbers[i]>> ELSE text[i][f]]]
    BY DEF Lwi!Export
  <1>2. PICK text \in [1 .. n -> [Lwi!FieldIDs \ {0} -> Texts]] :
          rows' = [i \in 1 .. n |->
                     [f \in Lwi!FieldIDs |-> IF f = 0 THEN <<Numbers[i]>> ELSE text[i][f]]]
    BY <1>1
  <1>3. whole' = Len(rows') /\ header' = Lwi!ExportOrder /\ lwiPhase' = "written"
        /\ abort' = abort /\ newEntries' = newEntries
    BY DEF Lwi!Export, Lwi!reader
  <1>4. Len(rows') \in Nat
    <2> DEFINE row(i) == [f \in Lwi!FieldIDs |-> IF f = 0 THEN <<Numbers[i]>> ELSE text[i][f]]
    <2>1. rows' = [i \in 1 .. n |-> row(i)] /\ n \in Nat
      BY <1>2
    <2> HIDE DEF row
    <2>2. rows' \in Seq({row(i) : i \in 1 .. n})
      BY <2>1
    <2> QED
      BY <2>2
  <1>5. whole' \in 0 .. Len(rows')
    BY <1>3, <1>4
  <1>6. OwnEntries' /\ FieldsKnown'
    BY <1>3, OwnParts, SameEntries DEF FieldsKnown
  <1> QED
    BY <1>3, <1>5, <1>6, OwnParts, OwnTogether

LEMMA WriteFailsKeeps ==
    ASSUME OwnInv, Lwi!WriteFails
    PROVE  OwnInv'
  <1>1. /\ lwiPhase' = "written" /\ rows' = rows /\ abort' = abort /\ newEntries' = newEntries
        /\ whole = Len(rows)
    BY DEF Lwi!WriteFails, Lwi!reader
  <1>2. /\ whole' \in 0 .. Len(rows')
        /\ lwiFile' # <<>> => header' = Lwi!ExportOrder
    <2>1. CASE \E n \in 0 .. Len(lwiFile) - 1 :
                 /\ lwiFile' = SubSeq(lwiFile, 1, n)
                 /\ \E r \in 0 .. Len(rows) :
                       /\ r = 0 \/ Len(Lwi!TextOf(SubSeq(rows, 1, r))) <= n + 1
                       /\ r < Len(rows) => Len(Lwi!TextOf(SubSeq(rows, 1, r + 1))) > n + 1
                       /\ whole' = r
                 /\ UNCHANGED header
      <3>1. whole' \in 0 .. Len(rows') /\ header' = header
        BY <1>1, <2>1
      <3>2. lwiFile # <<>>
        BY <2>1
      <3> QED
        BY <3>1, <3>2, OwnParts
    <2>2. CASE \E n \in 0 .. Fields - 1, column \in {<<>>, <<-1>>} :
                 /\ header' = SubSeq(header, 1, n) \o column
                 /\ lwiFile' = <<>> /\ whole' = 0
      <3>1. lwiFile' = <<>> /\ whole' = 0
        BY <2>2
      <3>2. 0 \in 0 .. Len(rows)
        BY <1>1, OwnParts
      <3> QED
        BY <1>1, <3>1, <3>2
    <2> QED
      BY <2>1, <2>2 DEF Lwi!WriteFails
  <1>3. OwnEntries' /\ FieldsKnown'
    BY <1>1, OwnParts, SameEntries DEF FieldsKnown
  <1> QED
    BY <1>1, <1>2, <1>3, OwnParts, OwnTogether

\* Where rows are left, the header is whole, and every field has its place.
LEMMA InitOwnKeeps ==
    ASSUME OwnInv, Lwi!InitParser
    PROVE  OwnInv'
  <1> DEFINE columns == 0 .. Len(header) - 1
             missing == columns \ Lwi!Range(header)
             lines == Lwi!Split(lwiFile, Lwi!LineEnd)
             behind == Tail(lines)
  <1>1. /\ lwiPhase' = "run" /\ newEntries' = <<>> /\ abort' = FALSE
        /\ header' = header /\ lwiFile' = lwiFile /\ rows' = rows /\ whole' = whole
    BY DEF Lwi!InitParser
  <1>2. order' = [c \in columns |-> IF missing = {} THEN header[c + 1] ELSE c]
    BY DEF Lwi!InitParser
  <1>3. fields' = Len(header) + (IF missing = {} \/ -1 \in Lwi!Range(header) THEN 0
                                ELSE Lwi!Min(missing))
    BY DEF Lwi!InitParser
  <1>4. /\ stash' = IF Lwi!IsPrefix(Lwi!ContextID, Head(lines)) THEN <<>> ELSE Head(lines)
        /\ rest' = IF behind # <<>> /\ Lwi!Last(behind) = <<>> THEN Lwi!Front(behind) ELSE behind
    BY DEF Lwi!InitParser
  <1>5. CASE lwiFile = <<>>
    <2>1. rest' = <<>> /\ stash' = <<>>
      BY <1>4, <1>5, NoLines
    <2>2. Lwi!AtEnd'
      BY <2>1 DEF Lwi!AtEnd
    <2> QED
      <3>1. FieldsKnown'
        BY <2>2 DEF FieldsKnown
      <3>2. OwnEntries'
        <4>1. newEntries' \in Seq({})
          BY <1>1
        <4> QED
          BY <4>1 DEF OwnEntries
      <3> QED
        BY <1>1, <3>1, <3>2, OwnParts, OwnTogether
  <1>6. CASE lwiFile # <<>>
    <2>1. header = Lwi!ExportOrder
      BY <1>6, OwnParts
    <2>2. Len(header) = Fields /\ missing = {}
      BY <2>1, OrderIs
    <2>3. fields' = Fields /\ DOMAIN order' = 0 .. Fields - 1
      <3>1. Fields \in Nat
        BY FieldsAssumption
      <3> QED
        BY <1>2, <1>3, <2>2, <3>1
    <2> QED
      <3>1. FieldsKnown'
        BY <2>3 DEF FieldsKnown
      <3>2. OwnEntries'
        <4>1. newEntries' \in Seq({})
          BY <1>1
        <4> QED
          BY <4>1 DEF OwnEntries
      <3> QED
        BY <1>1, <2>3, <3>1, <3>2, OwnParts, OwnTogether
  <1> QED
    BY <1>5, <1>6

LEMMA AbortKeeps ==
    ASSUME OwnInv, Lwi!Abort
    PROVE  OwnInv'
  <1>1. /\ lwiPhase' = lwiPhase /\ abort' = TRUE /\ whole' = whole /\ rows' = rows
        /\ lwiFile' = lwiFile /\ header' = header /\ fields' = fields /\ order' = order
        /\ newEntries' = newEntries /\ rest' = rest /\ stash' = stash
    BY DEF Lwi!Abort
  <1>2. OwnEntries'
    BY <1>1, OwnParts, SameEntries
  <1>3. FieldsKnown'
    BY <1>1, OwnParts DEF FieldsKnown, Lwi!AtEnd
  <1> QED
    BY <1>1, <1>2, <1>3, OwnParts, OwnTogether

\* The two ways on from a line.
LEMMA GatherLineMoves ==
    ASSUME Lwi!GatherLine
    PROVE  /\ lwiPhase = "gather" /\ lwiPhase' \in {"gather", "split"}
           /\ header' = header /\ lwiFile' = lwiFile /\ order' = order /\ fields' = fields
           /\ newEntries' = newEntries /\ abort' = abort /\ rows' = rows /\ whole' = whole
  <1> DEFINE line == IF stash = <<>> THEN Head(rest) ELSE stash
             ends == str # <<>> /\ (line = <<>> \/ line[1] # " ")
  <1>1. lwiPhase' = IF ends THEN "split" ELSE lwiPhase
    BY Zenon DEF Lwi!GatherLine
  <1>2. lwiPhase = "gather"
    BY Zenon DEF Lwi!GatherLine
  <1>3. /\ header' = header /\ lwiFile' = lwiFile /\ order' = order /\ fields' = fields
        /\ newEntries' = newEntries /\ abort' = abort /\ rows' = rows /\ whole' = whole
    BY Zenon DEF Lwi!GatherLine
  <1> HIDE DEF ends
  <1> QED
    BY <1>1, <1>2, <1>3

LEMMA ReadMoves ==
    ASSUME Lwi!Read
    PROVE  /\ lwiPhase \in {"run", "next", "gather", "split"}
           /\ lwiPhase' \in {"run", "next", "gather", "split", "done"}
  <1>1. CASE Lwi!GatherLine
    BY <1>1, GatherLineMoves
  <1>2. CASE Lwi!BeginEntry
    BY <1>2 DEF Lwi!BeginEntry
  <1>3. CASE Lwi!LastLine
    BY <1>3 DEF Lwi!LastLine
  <1>4. CASE Lwi!SplitEntry
    BY <1>4, Zenon DEF Lwi!SplitEntry
  <1>5. CASE Lwi!Finish
    BY <1>5 DEF Lwi!Finish
  <1> QED
    BY <1>1, <1>2, <1>3, <1>4, <1>5 DEF Lwi!Read

LEMMA ReadKeeps ==
    ASSUME OwnInv, Lwi!Read
    PROVE  OwnInv'
  <1>1. CASE Lwi!BeginEntry
    <2>1. /\ lwiPhase \in {"next", "run"} /\ ~Lwi!AtEnd /\ lwiPhase' = "gather"
          /\ header' = header /\ lwiFile' = lwiFile /\ order' = order /\ fields' = fields
          /\ newEntries' = newEntries /\ abort' = abort /\ rows' = rows /\ whole' = whole
      BY <1>1 DEF Lwi!BeginEntry
    <2>2. fields' = Fields /\ DOMAIN order' = 0 .. Fields - 1
      BY <2>1, OwnParts DEF FieldsKnown
    <2>3. OwnEntries' /\ FieldsKnown'
      BY <2>1, <2>2, OwnParts, SameEntries DEF FieldsKnown
    <2> QED
      BY <2>1, <2>2, <2>3, OwnParts, OwnTogether
  <1>2. CASE Lwi!GatherLine \/ Lwi!LastLine
    <2>1. /\ lwiPhase = "gather" /\ lwiPhase' \in {"gather", "split"}
          /\ header' = header /\ lwiFile' = lwiFile /\ order' = order /\ fields' = fields
          /\ newEntries' = newEntries /\ abort' = abort /\ rows' = rows /\ whole' = whole
      <3>1. CASE Lwi!GatherLine
        BY <3>1, GatherLineMoves
      <3>2. CASE Lwi!LastLine
        BY <3>2 DEF Lwi!LastLine, Lwi!reader
      <3> QED
        BY <1>2, <3>1, <3>2
    <2>2. fields' = Fields /\ DOMAIN order' = 0 .. Fields - 1
      BY <2>1, OwnParts
    <2>3. OwnEntries' /\ FieldsKnown'
      BY <2>1, <2>2, OwnParts, SameEntries DEF FieldsKnown
    <2> QED
      BY <2>1, <2>2, <2>3, OwnParts, OwnTogether
  <1>3. CASE Lwi!SplitEntry
    <2>1. /\ lwiPhase = "split" /\ lwiPhase' \in {"next", "run"}
          /\ newEntries' = newEntries \o Lwi!EntryOf(str)
          /\ header' = header /\ lwiFile' = lwiFile /\ order' = order /\ fields' = fields
          /\ abort' = abort /\ rows' = rows /\ whole' = whole
      BY <1>3 DEF Lwi!SplitEntry
    <2>2. fields' = Fields /\ DOMAIN order' = 0 .. Fields - 1
      BY <2>1, OwnParts
    <2>3. OwnEntries'
      <3>1. PICK S : newEntries \in Seq(S) /\ \A e \in S : DOMAIN e = 0 .. Fields - 1
        BY OwnParts DEF OwnEntries
      <3>2. \/ Lwi!EntryOf(str) = <<>>
            \/ \E e : Lwi!EntryOf(str) = <<e>> /\ DOMAIN e = 0 .. Fields - 1
        <4> DEFINE split == Lwi!Split(str, Lwi!Separator)
                   parts == IF Len(split) <= fields THEN split
                            ELSE Append(SubSeq(split, 1, fields - 1),
                                        Lwi!Join(SubSeq(split, fields, Len(split)), Lwi!Separator))
                   entry == [f \in Lwi!FieldIDs |->
                               parts[CHOOSE i \in 1 .. fields : order[i - 1] = f]]
        <4>1. Lwi!EntryOf(str) = IF Len(parts) < fields THEN <<>> ELSE <<entry>>
          BY DEF Lwi!EntryOf
        <4>2. DOMAIN entry = 0 .. Fields - 1
          BY DEF Lwi!FieldIDs
        <4> HIDE DEF parts, entry
        <4> QED
          BY <4>1, <4>2
      <3>3. CASE Lwi!EntryOf(str) = <<>>
        <4>1. newEntries' = newEntries
          BY <2>1, <3>1, <3>3, ConcatEmptySeq
        <4> QED
          BY <4>1, OwnParts, SameEntries
      <3>4. CASE \E e : Lwi!EntryOf(str) = <<e>> /\ DOMAIN e = 0 .. Fields - 1
        <4>1. PICK e : Lwi!EntryOf(str) = <<e>> /\ DOMAIN e = 0 .. Fields - 1
          BY <3>4
        <4>2. newEntries \in Seq(S \cup {e}) /\ <<e>> \in Seq(S \cup {e})
          BY <3>1
        <4>3. newEntries' \in Seq(S \cup {e})
          BY <2>1, <4>1, <4>2, ConcatProperties
        <4> QED
          BY <3>1, <4>1, <4>3 DEF OwnEntries
      <3> QED
        BY <3>2, <3>3, <3>4
    <2>4. FieldsKnown'
      BY <2>2 DEF FieldsKnown
    <2> QED
      BY <2>1, <2>2, <2>3, <2>4, OwnParts, OwnTogether
  <1>4. CASE Lwi!Finish
    <2>1. /\ lwiPhase' = "done"
          /\ header' = header /\ lwiFile' = lwiFile /\ order' = order /\ fields' = fields
          /\ newEntries' = newEntries /\ abort' = abort /\ rows' = rows /\ whole' = whole
      BY <1>4 DEF Lwi!Finish, Lwi!reader
    <2>2. OwnEntries' /\ FieldsKnown'
      BY <2>1, OwnParts, SameEntries DEF FieldsKnown
    <2> QED
      BY <2>1, <2>2, OwnParts, OwnTogether
  <1> QED
    BY <1>1, <1>2, <1>3, <1>4 DEF Lwi!Read

LEMMA OwnStays ==
    ASSUME OwnInv, UNCHANGED lwiVars
    PROVE  OwnInv'
  <1>1. /\ lwiPhase' = lwiPhase /\ abort' = abort /\ whole' = whole /\ rows' = rows
        /\ lwiFile' = lwiFile /\ header' = header /\ fields' = fields /\ order' = order
        /\ newEntries' = newEntries /\ rest' = rest /\ stash' = stash
    BY DEF lwiVars
  <1>2. OwnEntries'
    BY <1>1, OwnParts, SameEntries
  <1>3. FieldsKnown'
    BY <1>1, OwnParts DEF FieldsKnown, Lwi!AtEnd
  <1> QED
    BY <1>1, <1>2, <1>3, OwnParts, OwnTogether

-----------------------------------------------------------------------------
(* The window and the one message. *)

\* Where a thread runs there is a window, and no other thread.
LEMMA Running ==
    ASSUME Inv, ThreadRuns
    PROVE  /\ window \in {"open", "closing"} /\ table = <<>> /\ ~posted
           /\ phase = "idle" \/ lwiPhase \in {"idle", "written"}
  BY DEF Inv, OneMessage

\* The window's steps with nothing moved in the parsers.
LEMMA SameContent ==
    ASSUME phase' = phase, file' = file, newEntries' = newEntries, lwiPhase' = lwiPhase
    PROVE  Content' = Content /\ ThreadRuns' = ThreadRuns
  <1>1. Plain!Sequential(Len(file))' = Plain!Sequential(Len(file))
    BY DEF Plain!Sequential, Plain!Begin, Plain!Begins
  <1>2. Content' = Content
    BY <1>1 DEF Content
  <1>3. ThreadRuns' = ThreadRuns
    BY DEF ThreadRuns
  <1> QED
    BY <1>2, <1>3

LEMMA FilesKeep ==
    ASSUME Inv, ExportLogfile \/ OpenOwnFormat \/ OpenPlain \/ OpenFails
    PROVE  Inv'
  <1>1. /\ PlainInv /\ OwnInv /\ OneMessage /\ window = "none" /\ table = <<>> /\ ~posted
        /\ phase = "idle" /\ lwiPhase # "done" /\ ~ThreadRuns
    BY DEF Inv, OneMessage, ExportLogfile, OpenOwnFormat, OpenPlain, OpenFails, OpenWindow
  <1>2. lwiPhase \in {"idle", "written"}
    BY <1>1 DEF ThreadRuns
  <1>3. capture \in BOOLEAN /\ posted \in BOOLEAN
    BY <1>1 DEF OneMessage
  <1>4. CASE ExportLogfile
    <2>1. UNCHANGED gui /\ UNCHANGED plainVars /\ (Lwi!Export \/ Lwi!WriteFails)
      BY <1>4 DEF ExportLogfile
    <2>2. PlainInv' /\ OwnInv'
      BY <1>1, <2>1, PlainStays, ExportKeeps, WriteFailsKeeps
    <2>3. /\ window' = "none" /\ table' = <<>> /\ ~posted' /\ capture' = capture
          /\ posted' = posted /\ phase' = "idle"
      BY <1>1, <2>1 DEF gui, plainVars
    <2>4. lwiPhase' = "written"
      BY <2>1 DEF Lwi!Export, Lwi!WriteFails
    <2>5. ~ThreadRuns'
      BY <2>3, <2>4 DEF ThreadRuns
    <2>6. OneMessage'
      BY <1>3, <2>3, <2>4, <2>5 DEF OneMessage
    <2> QED
      BY <2>2, <2>6 DEF Inv
  <1>5. CASE OpenOwnFormat
    <2>1. /\ window' = "open" /\ table' = <<>> /\ ~posted' /\ capture' = capture
          /\ posted' = posted /\ UNCHANGED plainVars /\ Lwi!InitParser
      BY <1>1, <1>5 DEF OpenOwnFormat, OpenWindow
    <2>2. PlainInv' /\ OwnInv'
      BY <1>1, <2>1, PlainStays, InitOwnKeeps
    <2>3. phase' = "idle"
      BY <1>1, <2>1 DEF plainVars
    <2>4. OneMessage'
      BY <1>3, <2>1, <2>3 DEF OneMessage
    <2> QED
      BY <2>2, <2>4 DEF Inv
  <1>6. CASE OpenPlain
    <2>1. /\ window' = "open" /\ table' = <<>> /\ ~posted' /\ capture' = capture
          /\ posted' = posted /\ UNCHANGED lwiVars
          /\ \E lines \in PlainFiles : Plain!InitParser(lines)
      BY <1>1, <1>6 DEF OpenPlain, OpenWindow
    <2>2. PICK lines \in Files : Plain!InitParser(lines)
      BY <2>1, ParserAssumption DEF PlainFiles
    <2>3. PlainInv' /\ OwnInv'
      BY <1>1, <2>1, <2>2, InitParserKeeps, OwnStays
    <2>4. lwiPhase' \in {"idle", "written"}
      BY <1>2, <2>1 DEF lwiVars
    <2>5. OneMessage'
      BY <1>3, <2>1, <2>4 DEF OneMessage
    <2> QED
      BY <2>3, <2>5 DEF Inv
  <1>7. CASE OpenFails
    <2>1. /\ window' = "refused" /\ table' = <<>> /\ ~posted' /\ capture' = capture
          /\ posted' = posted /\ UNCHANGED lwiVars /\ UNCHANGED plainVars
      BY <1>1, <1>7 DEF OpenFails
    <2>2. PlainInv' /\ OwnInv'
      BY <1>1, <2>1, PlainStays, OwnStays
    <2>3. phase' = phase /\ lwiPhase' = lwiPhase
      BY <2>1 DEF lwiVars, plainVars
    <2>4. ~ThreadRuns'
      BY <1>1, <2>3 DEF ThreadRuns
    <2>5. OneMessage'
      BY <1>1, <1>2, <1>3, <2>1, <2>3, <2>4 DEF OneMessage
    <2> QED
      BY <2>2, <2>5 DEF Inv
  <1> QED
    BY <1>4, <1>5, <1>6, <1>7

LEMMA WindowKeeps ==
    ASSUME Inv, Capture \/ CloseWindow \/ Destroyed \/ UNCHANGED vars
    PROVE  Inv'
  <1>1. PlainInv /\ OwnInv /\ OneMessage
    BY DEF Inv
  <1>2. UNCHANGED plainVars /\ (UNCHANGED lwiVars \/ Lwi!Abort)
    BY DEF Capture, CloseWindow, Destroyed, vars
  <1>3. PlainInv' /\ OwnInv'
    BY <1>1, <1>2, PlainStays, OwnStays, AbortKeeps
  <1>4. /\ phase' = phase /\ file' = file /\ newEntries' = newEntries /\ lwiPhase' = lwiPhase
    BY <1>2 DEF plainVars, lwiVars, Lwi!Abort
  <1>5. Content' = Content /\ ThreadRuns' = ThreadRuns
    BY <1>4, SameContent
  <1>6. OneMessage'
    <2>1. CASE Capture
      <3>1. /\ window' = window /\ posted' = posted /\ table' = table /\ capture' = ~capture
        BY <2>1 DEF Capture
      <3> QED
        BY <1>1, <1>4, <1>5, <3>1 DEF OneMessage
    <2>2. CASE CloseWindow
      <3>1. /\ window = "open" /\ window' = "closing"
            /\ posted' = posted /\ table' = table /\ capture' = capture
        BY <2>2 DEF CloseWindow
      <3> QED
        BY <1>1, <1>4, <1>5, <3>1 DEF OneMessage
    <2>3. CASE Destroyed
      <3>1. /\ window' = "closed" /\ posted' = FALSE /\ table' = <<>> /\ capture' = capture
            /\ ~ThreadRuns
        BY <2>3 DEF Destroyed
      <3> QED
        BY <1>1, <1>4, <1>5, <3>1 DEF OneMessage
    <2>4. CASE UNCHANGED vars
      <3>1. /\ window' = window /\ posted' = posted /\ table' = table /\ capture' = capture
        BY <2>4 DEF vars, gui
      <3> QED
        BY <1>1, <1>4, <1>5, <3>1 DEF OneMessage
    <2> QED
      BY <2>1, <2>2, <2>3, <2>4
  <1> QED
    BY <1>3, <1>6 DEF Inv

\* The message is sent at the end of a thread, when no other one runs.
LEMMA ThreadsKeep ==
    ASSUME Inv, RunLwi \/ RunPlain \/ Pool
    PROVE  Inv'
  <1>1. PlainInv /\ OwnInv /\ OneMessage
    BY DEF Inv
  <1>2. CASE RunLwi
    <2>1. /\ Lwi!Read /\ UNCHANGED plainVars
          /\ posted' = (posted \/ (lwiPhase # "done" /\ lwiPhase' = "done"))
          /\ window' = window /\ capture' = capture /\ table' = table
      BY <1>2 DEF RunLwi, Emitted
    <2>2. PlainInv' /\ OwnInv'
      BY <1>1, <2>1, PlainStays, ReadKeeps
    <2>3. lwiPhase \in {"run", "next", "gather", "split"}
          /\ lwiPhase' \in {"run", "next", "gather", "split", "done"}
      BY <2>1, ReadMoves
    <2>4. ThreadRuns
      BY <2>3 DEF ThreadRuns
    <2>5. window \in {"open", "closing"} /\ table = <<>> /\ ~posted /\ phase = "idle"
      BY <2>3, <2>4, Running
    <2>6. phase' = "idle"
      BY <2>1, <2>5 DEF plainVars
    <2>7. posted' <=> lwiPhase' = "done"
      BY <2>1, <2>3, <2>5
    <2>8. posted' \in BOOLEAN
      BY <2>1
    <2>9. ThreadRuns' <=> lwiPhase' # "done"
      BY <2>3, <2>6 DEF ThreadRuns
    <2>10. OneMessage'
      BY <1>1, <2>1, <2>5, <2>6, <2>7, <2>8, <2>9 DEF OneMessage
    <2> QED
      BY <2>2, <2>10 DEF Inv
  <1>3. CASE RunPlain
    <2>1. /\ Plain!GetEntries /\ UNCHANGED lwiVars
          /\ posted' = (posted \/ (phase # "done" /\ phase' = "done"))
          /\ window' = window /\ capture' = capture /\ table' = table
      BY <1>3 DEF RunPlain, Emitted
    <2>2. PlainInv' /\ OwnInv'
      BY <1>1, <2>1, OwnStays, ReadLineKeeps, EmptyFileKeeps, TakeFirstKeeps, JoinNextKeeps,
         EmitEntriesKeeps DEF Plain!GetEntries
    <2>3. /\ phase \in {"reading", "joining"}
          /\ phase' \in {"reading", "joining", "done"}
      BY <2>1 DEF Plain!GetEntries, Plain!ReadLine, Plain!EmptyFile, Plain!TakeFirst,
                  Plain!JoinNext, Plain!EmitEntries
    <2>4. ThreadRuns
      BY <2>3 DEF ThreadRuns
    <2>5. window \in {"open", "closing"} /\ table = <<>> /\ ~posted
          /\ lwiPhase \in {"idle", "written"}
      BY <2>3, <2>4, Running
    <2>6. lwiPhase' = lwiPhase
      BY <2>1 DEF lwiVars
    <2>7. posted' <=> phase' = "done"
      BY <2>1, <2>3, <2>5
    <2>8. posted' \in BOOLEAN
      BY <2>1
    <2>9. ThreadRuns' <=> phase' # "done"
      BY <2>3, <2>5, <2>6 DEF ThreadRuns
    <2>10. OneMessage'
      BY <1>1, <2>1, <2>5, <2>6, <2>7, <2>8, <2>9 DEF OneMessage
    <2> QED
      BY <2>2, <2>10 DEF Inv
  <1>4. CASE Pool
    <2>1. UNCHANGED gui /\ UNCHANGED lwiVars /\ \E p \in DOMAIN packages : Plain!Convert(p)
      BY <1>4 DEF Pool, Plain!ConvertSome
    <2>2. PICK p \in DOMAIN packages : Plain!Convert(p)
      BY <2>1
    <2>3. PlainInv' /\ OwnInv'
      BY <1>1, <2>1, <2>2, ConvertKeeps, OwnStays
    <2>4. /\ phase' = phase /\ file' = file /\ newEntries' = newEntries /\ lwiPhase' = lwiPhase
      BY <2>1, <2>2 DEF lwiVars, Plain!Convert
    <2>5. Content' = Content /\ ThreadRuns' = ThreadRuns
      BY <2>4, SameContent
    <2>6. /\ window' = window /\ posted' = posted /\ table' = table /\ capture' = capture
      BY <2>1 DEF gui
    <2>7. OneMessage'
      BY <1>1, <2>4, <2>5, <2>6 DEF OneMessage
    <2> QED
      BY <2>3, <2>7 DEF Inv
  <1> QED
    BY <1>2, <1>3, <1>4

\* What is in the message is the whole content of the file.
LEMMA InsertEntryKeeps ==
    ASSUME Inv, InsertEntry
    PROVE  Inv'
  <1>1. PlainInv /\ OwnInv /\ OneMessage
    BY DEF Inv
  <1>2. /\ window = "open" /\ posted /\ posted' = FALSE /\ window' = window /\ capture' = capture
        /\ table' = IF capture THEN table \o InMessage ELSE table
        /\ UNCHANGED lwiVars /\ UNCHANGED plainVars
    BY DEF InsertEntry
  <1>3. PlainInv' /\ OwnInv'
    BY <1>1, <1>2, PlainStays, OwnStays
  <1>4. /\ phase' = phase /\ file' = file /\ newEntries' = newEntries /\ lwiPhase' = lwiPhase
    BY <1>2 DEF plainVars, lwiVars
  <1>5. Content' = Content /\ ThreadRuns' = ThreadRuns
    BY <1>4, SameContent
  <1>6. table = <<>> /\ ~ThreadRuns
    BY <1>1, <1>2 DEF OneMessage
  <1>7. table' = <<>> \/ table' = Content
    <2>1. InMessage = Content
      <3>1. CASE phase = "idle"
        BY <3>1 DEF InMessage, Content
      <3>2. CASE phase # "idle"
        <4>1. phase = "done"
          BY <1>6, <3>2 DEF ThreadRuns
        <4>2. entries = Plain!Sequential(Len(file))
          BY <1>1, <4>1 DEF PlainInv, Progress
        <4> QED
          BY <3>2, <4>2 DEF InMessage, Content
      <3> QED
        BY <3>1, <3>2
    <2>2. \E S : InMessage \in Seq(S)
      <3>1. \E S : newEntries \in Seq(S)
        BY <1>1, OwnParts DEF OwnEntries
      <3>2. entries \in Seq(Lines)
        BY <1>1, PlainTypes DEF PlainInv
      <3> QED
        BY <3>1, <3>2 DEF InMessage
    <2>3. <<>> \o InMessage = InMessage
      BY <2>2, ConcatEmptySeq
    <2> QED
      BY <1>2, <1>6, <2>1, <2>3
  <1>8. OneMessage'
    BY <1>1, <1>2, <1>4, <1>5, <1>6, <1>7 DEF OneMessage
  <1> QED
    BY <1>3, <1>8 DEF Inv

-----------------------------------------------------------------------------
(* The theorems. *)

LEMMA InvInit == Init => Inv
  <1> SUFFICES ASSUME Init PROVE Inv
    OBVIOUS
  <1>1. Lwi!Init /\ Plain!Init
    BY DEF Init
  <1>2. /\ file = <<>> /\ phase = "idle" /\ read = 0 /\ collected = <<>> /\ packages = <<>>
        /\ first = [lines |-> <<>>, pre |-> <<>>] /\ joined = 0 /\ entries = <<>>
    BY <1>1 DEF Plain!Init
  <1>3. <<>> \in Files /\ PackageSize \in Nat \ {0} /\ EndOf(0) = 0
    <2>1. <<>> \in Files /\ PackageSize \in Nat \ {0}
      BY ParserAssumption
    <2> QED
      BY <1>2, <2>1, EndOfIs
  <1>4. Plain!TypeOK
    BY <1>2, <1>3 DEF Plain!TypeOK, Plain!Lines
  <1>5. LinesInOrder
    <2>1. Span(0, 0) = <<>>
      BY DEF Span
    <2>2. Len(packages) = 0 /\ Len(collected) = 0
      BY <1>2
    <2> QED
      BY <1>2, <1>3, <2>1, <2>2 DEF LinesInOrder
  <1>6. PackagesHoldThem /\ Progress
    BY <1>2 DEF PackagesHoldThem, Progress
  <1>7. PlainInv
    BY <1>4, <1>5, <1>6 DEF PlainInv
  <1>8. /\ lwiPhase = "idle" /\ lwiFile = <<>> /\ newEntries = <<>> /\ abort = FALSE
        /\ rows = <<>> /\ whole = 0
    BY <1>1 DEF Lwi!Init
  <1>9. OwnInv
    <2>1. Lwi!TypeOK
      <3>1. Len(rows) = 0 /\ DOMAIN newEntries = {}
        BY <1>8
      <3> QED
        <4>1. whole \in 0 .. Len(rows)
          <5>1. whole = 0
            BY <1>8
          <5> QED
            BY ONLY <3>1, <5>1
        <4>3. abort \in BOOLEAN
          BY <1>8
        <4>2. \A k \in DOMAIN newEntries : DOMAIN newEntries[k] = Lwi!FieldIDs
          BY <3>1
        <4> QED
          BY <1>8, <4>1, <4>2, <4>3 DEF Lwi!TypeOK
    <2>2. newEntries \in Seq({})
      BY <1>8
    <2> QED
      <3>1. OwnEntries
        BY <2>2 DEF OwnEntries
      <3>2. FieldsKnown
        BY <1>8 DEF FieldsKnown
      <3> QED
        BY <2>1, <3>1, <3>2 DEF OwnInv
  <1>10. ~ThreadRuns
    BY <1>2, <1>8 DEF ThreadRuns
  <1>11. OneMessage
    BY <1>2, <1>8, <1>10 DEF OneMessage, Init
  <1> QED
    BY <1>7, <1>9, <1>11 DEF Inv

LEMMA InvNext == Inv /\ [Next]_vars => Inv'
  BY FilesKeep, WindowKeeps, ThreadsKeep, InsertEntryKeeps DEF Next

LEMMA InvShows ==
    ASSUME Inv
    PROVE  TypeOK /\ (JoinedHasNoLines => JoinsAsSequential) /\ ShownWholeAndOnce
  <1>1. PlainInv /\ OwnInv /\ OneMessage
    BY DEF Inv
  <1>2. TypeOK
    BY <1>1 DEF TypeOK, PlainInv, OwnInv, OneMessage
  <1>3. JoinedHasNoLines => JoinsAsSequential
    BY <1>1 DEF PlainInv, Progress, JoinsAsSequential, Plain!JoinsAsSequential, JoinedHasNoLines,
                Plain!JoinedLines, EndOf
  <1>4. ShownWholeAndOnce
    BY <1>1 DEF OneMessage, ShownWholeAndOnce
  <1> QED
    BY <1>2, <1>3, <1>4

-----------------------------------------------------------------------------
(* No line is left in front of a join. *)

(* A line that matches begins an entry.                                    *)
LEMMA NothingBegins ==
    ASSUME NEW n \in Nat, Plain!Sequential(n) = <<>>, NEW i \in 1 .. n
    PROVE  ~file[i]
  <1>1. Count(n) = 0
    BY SequentialType
  <1>2. IsFiniteSet(Plain!Begins(n)) /\ Cardinality(Plain!Begins(n)) = 0
    BY <1>1, CountIs DEF Count
  <1>3. Plain!Begins(n) = {}
    BY <1>2, FS_EmptySet
  <1> QED
    BY <1>3 DEF Plain!Begins

(* The first package ends at PackageSize, or with the file.                *)
LEMMA FirstEnds ==
    ASSUME file \in Files, NEW p \in Nat \ {0}
    PROVE  PackageSize <= EndOf(p) \/ EndOf(p) = Len(file)
  <1>1. PackageSize \in Nat /\ Len(file) \in Nat
    BY ParserAssumption
  <1>2. p - 1 \in Nat /\ (p - 1) * PackageSize \in Nat
    BY <1>1
  <1>3. p * PackageSize = (p - 1) * PackageSize + PackageSize
    BY <1>1
  <1> QED
    BY <1>1, <1>2, <1>3 DEF EndOf

(* Either an entry takes the lines at the beginning of the next package,   *)
(* or there is none yet; then one of these must be the line that matches,  *)
(* and it is the first of them.                                            *)
LEMMA JoinLeavesNothing ==
    ASSUME PlainInv, Plain!JoinNext,
           NEW i \in DOMAIN file, i <= PackageSize + 1, file[i]
    PROVE  first'.lines = <<>>
  <1> DEFINE a == EndOf(joined)
             b == EndOf(joined + 1)
             next == packages[joined + 1]
             grown == Plain!Join(first, next)
  <1>1. /\ PackagesHoldThem /\ Progress /\ file \in Files /\ Len(file) \in Nat
        /\ PackageSize \in Nat /\ joined \in 0 .. Len(packages) /\ Len(packages) \in Nat
        /\ packages \in Seq(Packages) /\ file \in Seq(BOOLEAN)
        /\ entries \in Seq(Lines) /\ first.pre \in Seq(Lines)
    BY PlainTypes DEF PlainInv
  <1>2. /\ phase = "joining" /\ joined < Len(packages) /\ next.converted
        /\ joined # 0 /\ joined + 1 \in DOMAIN packages /\ joined \in Nat \ {0}
    BY <1>1 DEF Plain!JoinNext, Progress
  <1>3. first'.lines = grown.lines
    <2>1. grown \in [lines : Lines, pre : Seq(Lines)]
      BY JoinedIs
    <2> HIDE DEF grown
    <2>2. first' = grown \/ first' = [grown EXCEPT !.pre = <<grown.pre[Len(grown.pre)]>>]
      BY DEF Plain!JoinNext, Plain!Last, grown
    <2> QED
      BY <2>1, <2>2
  <1>4. grown.lines = Plain!Unclaimed(next.lines, first.pre)
    BY DEF Plain!Join, Plain!Converted
  <1>5. CASE first.pre # <<>>
    BY <1>3, <1>4, <1>5 DEF Plain!Unclaimed
  <1>6. CASE first.pre = <<>>
    <2>1. a \in Nat /\ b \in Nat /\ a <= b /\ b <= Len(file)
      BY <1>1, <1>2, EndOfIs
    <2>2. Plain!Sequential(a) = <<>>
      <3>1. entries = <<>> /\ entries \o first.pre = Plain!Sequential(a)
        BY <1>1, <1>2, <1>6 DEF Progress
      <3>2. <<>> \o <<>> = <<>>
        OBVIOUS
      <3> QED
        BY <1>6, <3>1, <3>2
    <2>3. i \in 1 .. Len(file) /\ ~(i <= a)
      <3>1. i \in 1 .. Len(file)
        BY <1>1
      <3>2. i <= a => i \in 1 .. a
        BY <2>1, <3>1
      <3> QED
        BY <2>1, <2>2, <3>1, <3>2, NothingBegins
    <2>4. i = a + 1
      <3>1. PackageSize <= a \/ a = Len(file)
        BY <1>1, <1>2, FirstEnds
      <3> HIDE DEF a
      <3> QED
        BY <1>1, <2>1, <2>3, <3>1
    <2>5. next.lines = Plain!Unclaimed(Span(a, b), <<>>)
      <3>1. (joined + 1) - 1 = joined
        BY <1>2
      <3>2. next.lines = Gathered(joined + 1).lines
        BY <1>1, <1>2 DEF PackagesHoldThem
      <3> QED
        BY <3>1, <3>2 DEF Gathered, Plain!Converted
    <2>6. Plain!Unclaimed(Span(a, b), <<>>) = Span(a, a)
      <3>1. PICK c \in a .. b :
               /\ Plain!Unclaimed(Span(a, b), <<>>) = Span(a, c)
               /\ \A k \in a + 1 .. c : ~file[k]
        BY <2>1, UnclaimedIs
      <3> HIDE DEF a, b
      <3>2. c = a
        BY <2>1, <2>4, <3>1
      <3> QED
        BY <3>1, <3>2
    <2>7. Plain!Unclaimed(Span(a, a), <<>>) = Span(a, a)
      <3> HIDE DEF a, b
      <3>1. PICK c \in a .. a : Plain!Unclaimed(Span(a, a), <<>>) = Span(a, c)
        <4>1. a \in Nat /\ a <= a
          BY <2>1
        <4> QED
          BY ONLY <4>1, UnclaimedIs
      <3>2. c = a
        BY <2>1, <3>1
      <3> QED
        BY <3>1, <3>2
    <2>8. Span(a, a) = <<>>
      <3> HIDE DEF a
      <3> QED
        BY <2>1, SpanIs DEF Lines, Plain!Lines
    <2> QED
      BY <1>3, <1>4, <1>6, <2>5, <2>6, <2>7, <2>8
  <1> QED
    BY <1>5, <1>6

LEMMA LinesLeftNext ==
    ASSUME Inv, JoinedHasNoLines, [Next]_vars
    PROVE  JoinedHasNoLines'
  <1>1. PlainInv
    BY DEF Inv
  <1>2. CASE Plain!JoinNext
    <2>1. UNCHANGED file
      BY <1>2 DEF Plain!JoinNext
    <2> QED
      BY <1>1, <1>2, <2>1, JoinLeavesNothing DEF JoinedHasNoLines, Plain!JoinedHasNoLines
  <1>3. CASE Plain!TakeFirst
    BY <1>3 DEF Plain!TakeFirst, JoinedHasNoLines, Plain!JoinedHasNoLines
  <1>4. CASE phase' # "joining"
    BY <1>4 DEF JoinedHasNoLines, Plain!JoinedHasNoLines
  <1>5. CASE UNCHANGED <<phase, file, first>>
    BY <1>5 DEF JoinedHasNoLines, Plain!JoinedHasNoLines
  <1>6. Plain!JoinNext \/ Plain!TakeFirst \/ phase' # "joining"
        \/ UNCHANGED <<phase, file, first>>
    <2>1. CASE RunPlain
      BY <2>1 DEF RunPlain, Plain!GetEntries, Plain!ReadLine, Plain!EmptyFile, Plain!EmitEntries
    <2>2. CASE OpenPlain
      BY <2>2 DEF OpenPlain, Plain!InitParser
    <2>3. CASE Pool
      BY <2>3 DEF Pool, Plain!ConvertSome, Plain!Convert
    <2>4. CASE UNCHANGED plainVars
      BY <2>4 DEF plainVars
    <2> QED
      BY <2>1, <2>2, <2>3, <2>4 DEF Next, vars, ExportLogfile, OpenOwnFormat, OpenFails,
         Capture, CloseWindow, Destroyed, RunLwi, InsertEntry
  <1> QED
    BY <1>2, <1>3, <1>4, <1>5, <1>6

-----------------------------------------------------------------------------
(* The theorems. *)

(* TypeOK: one parser at most has a file, and only for a window; a message *)
(* waits only for a window that is still there.                            *)
THEOREM TypeCorrect == Spec => []TypeOK
  <1>1. Inv => TypeOK
    BY InvShows
  <1> QED
    BY <1>1, InvInit, InvNext, PTL DEF Spec

(* Q_ASSERT(m_lines.empty()) in WorkPackage::join holds for every file in  *)
(* which a line of the first package or the first line of the second       *)
(* matches, whatever the size of the packages and the order of the pool.   *)
THEOREM NoLinesAreLeft == Spec => []JoinedHasNoLines
  <1>1. Init => JoinedHasNoLines
    BY DEF Init, Plain!Init, JoinedHasNoLines, Plain!JoinedHasNoLines
  <1>2. Inv /\ JoinedHasNoLines /\ [Next]_vars => JoinedHasNoLines'
    BY LinesLeftNext
  <1> QED
    BY <1>1, <1>2, InvInit, InvNext, PTL DEF Spec

(* WorkPackage::convert and join: in whatever order the pool finishes the  *)
(* packages, and wherever they cut an entry, every join leaves what one    *)
(* thread reading the lines in order would have gathered, for every file   *)
(* and every size of the packages.                                         *)
THEOREM JoinsInOrder == Spec => []JoinsAsSequential
  <1>1. Inv /\ JoinedHasNoLines => JoinsAsSequential
    BY InvShows
  <1> QED
    BY <1>1, NoLinesAreLeft, InvInit, InvNext, PTL DEF Spec

(* The one message of a file is shown whole and once, or not at all,       *)
(* however the window is used, closed and destroyed meanwhile.             *)
THEOREM ShownOnce == Spec => []ShownWholeAndOnce
  <1>1. Inv => ShownWholeAndOnce
    BY InvShows
  <1> QED
    BY <1>1, InvInit, InvNext, PTL DEF Spec

==============================================================================
