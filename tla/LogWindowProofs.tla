--------------------------- MODULE LogWindowProofs ---------------------------
(***************************************************************************)
(* Theorems about what a log window shows.  FilteredTable, its rows, for   *)
(* any kinds of entries, any distance around a peeked row, any limits and  *)
(* bounds: the mapping the proxy keeps is the one it would build anew, and *)
(* the refused rows in it are those around the row that was peeked at.     *)
(* Columns, its header, for any number of columns and windows: a window    *)
(* opens with the header the user changed last, and opening it changes     *)
(* nothing of what was stored.                                             *)
(***************************************************************************)
EXTENDS FilteredTable, Columns, SequenceTheorems, FiniteSetTheorems, TLAPS

Placing == INSTANCE FoldTheorems WITH Op <- GivePlace

\* The menu keeps the table from changing under the row it was opened on.
MenuBlocks == menuRow # -1 => blocking

\* Where the peeked row is now is all there is to know about the range.
RangeAroundCenter ==
  \/ center = Uncovered
  \/ center = NoCenter /\ range = NoRange
  \/ /\ center >= -Around
     /\ range = [first |-> Larger(0, center - Around), last |-> center + Around]

\* The inductive invariant.
IInv == TypeOK /\ MenuBlocks /\ ShownIsAccepted /\ RangeAroundCenter

-----------------------------------------------------------------------------
(***************************************************************************)
(* What the proxy accepts of a table that grows or is trimmed.             *)
(***************************************************************************)

\* The rows that are left after the first k have been taken out.
LEMMA DropFirstProperties ==
  ASSUME NEW S, NEW rows \in Seq(S), NEW k \in 0..Len(rows)
  PROVE  /\ DropFirst(rows, k) \in Seq(S)
         /\ Len(DropFirst(rows, k)) = Len(rows) - k
         /\ \A i \in 1..(Len(rows) - k) : DropFirst(rows, k)[i] = rows[i + k]
<1>1. Len(rows) \in Nat /\ \A i \in 1..Len(rows) : rows[i] \in S
  BY LenProperties
<1>2. \A i \in (k + 1)..Len(rows) : rows[i] \in S
  BY <1>1
<1>3. /\ SubSeq(rows, k + 1, Len(rows)) \in Seq(S)
      /\ Len(SubSeq(rows, k + 1, Len(rows)))
           = IF k + 1 <= Len(rows) THEN Len(rows) - (k + 1) + 1 ELSE 0
      /\ \A i \in 1..(Len(rows) - (k + 1) + 1) :
           SubSeq(rows, k + 1, Len(rows))[i] = rows[(k + 1) + i - 1]
  BY <1>1, <1>2, SubSeqProperties
<1> QED
  BY <1>1, <1>3 DEF DropFirst

\* Rows appended behind others change nothing for those.
LEMMA AcceptedConcat ==
  ASSUME NEW rows \in Seq(Kinds), NEW mess \in Seq(Kinds), NEW peeked
  PROVE  RowsInserted(Accepted(rows, peeked), rows \o mess, Len(rows), peeked)
           = Accepted(rows \o mess, peeked)
<1>1. /\ Len(rows) \in Nat /\ Len(mess) \in Nat
      /\ Len(rows \o mess) = Len(rows) + Len(mess)
      /\ \A i \in 1..Len(rows) : (rows \o mess)[i] = rows[i]
  <2>1. Len(rows) \in Nat /\ Len(mess) \in Nat
    BY LenProperties
  <2> QED
    BY <2>1, ConcatProperties
<1>2. \A r \in 0..(Len(rows) - 1) :
        FilterAcceptsRow(rows \o mess, r, peeked) <=> FilterAcceptsRow(rows, r, peeked)
  <2> SUFFICES ASSUME NEW r \in 0..(Len(rows) - 1)
               PROVE  (rows \o mess)[r + 1] = rows[r + 1]
    BY DEF FilterAcceptsRow
  <2> QED
    BY <1>1
<1>3. ASSUME NEW r \in 0..(Len(rows \o mess) - 1)
      PROVE  r \in 0..(Len(rows) - 1) \/ r >= Len(rows)
  BY <1>1
<1>4. 0..(Len(rows) - 1) \subseteq 0..(Len(rows \o mess) - 1)
  BY <1>1
<1> QED
  BY <1>2, <1>3, <1>4 DEF RowsInserted, Accepted

\* Without peeked rows a mapping that is shifted is the mapping of the shifted rows.
LEMMA AcceptedDrop ==
  ASSUME NEW rows \in Seq(Kinds), NEW k \in 0..Len(rows)
  PROVE  RowsRemoved(Accepted(rows, NoRange), k) = Accepted(RemoveRowsUnlocked(rows, k), NoRange)
<1>1. Len(rows) \in Nat /\ \A i \in 1..Len(rows) : rows[i] \in Kinds
  BY LenProperties
<1> DEFINE left == RemoveRowsUnlocked(rows, k)
<1>2. /\ left \in Seq(Kinds) /\ Len(left) = Len(rows) - k
      /\ \A i \in 1..(Len(rows) - k) : left[i] = rows[i + k]
  BY DropFirstProperties DEF RemoveRowsUnlocked
<1> HIDE DEF left
<1>3. \A seq : Accepted(seq, NoRange) = {r \in 0..(Len(seq) - 1) : FilterAcceptInt(seq[r + 1])}
  BY DEF Accepted, FilterAcceptsRow, InRange, NoRange
<1>4. ASSUME NEW r \in 0..(Len(left) - 1)
      PROVE  left[r + 1] = rows[(r + k) + 1] /\ r + k \in 0..(Len(rows) - 1)
  <2>1. r \in Nat /\ r + 1 \in 1..(Len(rows) - k) /\ (r + 1) + k = (r + k) + 1
    BY <1>1, <1>2
  <2>2. left[r + 1] = rows[(r + 1) + k]
    BY <1>2, <2>1
  <2> QED
    BY <1>1, <2>1, <2>2
<1>5. ASSUME NEW s \in Accepted(rows, NoRange), s >= k
      PROVE  s - k \in Accepted(left, NoRange)
  <2>1. s \in 0..(Len(rows) - 1) /\ FilterAcceptInt(rows[s + 1])
    BY <1>3
  <2>2. s - k \in 0..(Len(left) - 1) /\ (s - k) + k = s
    BY <1>1, <1>2, <1>5, <2>1
  <2> QED
    BY <1>3, <1>4, <2>1, <2>2
<1>6. ASSUME NEW r \in Accepted(left, NoRange)
      PROVE  \E s \in Accepted(rows, NoRange) : s >= k /\ r = s - k
  <2>1. r \in 0..(Len(left) - 1) /\ FilterAcceptInt(left[r + 1])
    BY <1>3
  <2>2. r + k \in 0..(Len(rows) - 1) /\ r + k >= k /\ r = (r + k) - k
    BY <1>4, <2>1
  <2>3. r + k \in Accepted(rows, NoRange)
    BY <1>3, <1>4, <2>1, <2>2
  <2> QED
    BY <2>2, <2>3
<1> QED
  BY <1>5, <1>6 DEF RowsRemoved, left

-----------------------------------------------------------------------------
(***************************************************************************)
(* The range of peeked rows, when rows are removed from the first one on.  *)
(***************************************************************************)

Ranges == [first : Nat \cup {-1}, last : Nat \cup {-1}]

LEMMA ShortenedType ==
  ASSUME NEW from \in Int, NEW to \in Int, to < from \/ (from >= -1 /\ to >= -1)
  PROVE  Shortened(from, to) \in Ranges
<1>1. CASE to < from
  BY <1>1 DEF Shortened, NoRange, Ranges
<1>2. CASE ~(to < from)
  <2>1. from \in Nat \cup {-1} /\ to \in Nat \cup {-1}
    BY <1>2
  <2>2. Shortened(from, to) = [first |-> from, last |-> to]
    BY <1>2 DEF Shortened
  <2> QED
    BY <2>1, <2>2 DEF Ranges
<1> QED
  BY <1>1, <1>2

\* slotRowsAboutToBeRemoved leaves a range, and none where there was none.
LEMMA RangeWithoutType ==
  ASSUME NEW peeked \in Ranges, NEW k \in Nat \ {0}
  PROVE  /\ RangeWithout(peeked, 0, k - 1) \in Ranges
         /\ RangeWithout(NoRange, 0, k - 1) = NoRange
<1>1. PICK a \in Nat \cup {-1}, b \in Nat \cup {-1} : peeked = [first |-> a, last |-> b]
  BY DEF Ranges
<1>2. NoRange \in Ranges
  BY DEF NoRange, Ranges
<1>3. a \in Int /\ b \in Int /\ a >= -1 /\ b >= -1 /\ k \in Int /\ -1 \in Int
  OBVIOUS
<1>4. (k - 1) - 0 + 1 = k
  OBVIOUS
<1> SUFFICES RangeWithout(peeked, 0, k - 1) \in Ranges
  BY DEF RangeWithout
<1>5. CASE peeked = NoRange
  BY <1>2, <1>5 DEF RangeWithout
<1>6. CASE peeked # NoRange /\ 0 < a
  <2>1. CASE k - 1 < a
    <3>1. RangeWithout(peeked, 0, k - 1) = Shortened(a - k, b - k)
      BY <1>1, <1>4, <1>6, <2>1 DEF RangeWithout
    <3>2. /\ a - k \in Int /\ b - k \in Int
          /\ b - k < a - k \/ (a - k >= -1 /\ b - k >= -1)
      BY <1>3, <2>1
    <3> QED
      BY <3>1, <3>2, ShortenedType
  <2>2. CASE ~(k - 1 < a) /\ k - 1 < b
    <3>1. RangeWithout(peeked, 0, k - 1) = Shortened(0, b - k)
      BY <1>1, <1>4, <1>6, <2>2 DEF RangeWithout
    <3>2. b - k \in Int /\ b - k >= -1 /\ 0 \in Int /\ 0 >= -1
      BY <1>3, <2>2
    <3> QED
      BY <3>1, <3>2, ShortenedType
  <2>3. CASE ~(k - 1 < a) /\ ~(k - 1 < b)
    <3>1. RangeWithout(peeked, 0, k - 1) = Shortened(a, b)
      BY <1>1, <1>4, <1>6, <2>3 DEF RangeWithout
    <3> QED
      BY <1>3, <3>1, ShortenedType
  <2> QED
    BY <2>1, <2>2, <2>3
<1>7. CASE peeked # NoRange /\ ~(0 < a)
  <2>1. CASE k - 1 <= b
    <3>1. RangeWithout(peeked, 0, k - 1) = Shortened(a, b - k)
      BY <1>1, <1>4, <1>7, <2>1 DEF RangeWithout
    <3>2. b - k \in Int /\ b - k >= -1
      BY <1>3, <2>1
    <3> QED
      BY <1>3, <3>1, <3>2, ShortenedType
  <2>2. CASE ~(k - 1 <= b)
    <3>1. RangeWithout(peeked, 0, k - 1) = Shortened(a, -1)
      BY <1>1, <1>4, <1>7, <2>2 DEF RangeWithout
    <3>2. -1 >= -1
      OBVIOUS
    <3> QED
      BY <1>3, <3>1, <3>2, ShortenedType
  <2> QED
    BY <2>1, <2>2
<1> QED
  BY <1>5, <1>6, <1>7

\* The range follows the peeked row, unless the trim ends at or behind its last row.
LEMMA RangeFollowsTrim ==
  ASSUME TypeOK, RangeAroundCenter, NEW k \in Nat \ {0},
         range' = RangeWithout(range, 0, k - 1),
         center' = IF range' = NoRange THEN NoCenter ELSE Moved(center, k)
  PROVE  RangeAroundCenter'
<1>1. Around \in Nat /\ center \in Int
  BY FilteredAssumption DEF TypeOK
<1>2. CASE range' = NoRange
  BY <1>2 DEF RangeAroundCenter
<1>3. CASE range' # NoRange /\ Moved(center, k) = Uncovered
  BY <1>3 DEF RangeAroundCenter
<1>4. CASE range' # NoRange /\ Moved(center, k) # Uncovered
  <2>1. center # Uncovered /\ ~(0 < range.first /\ range.last < k)
    BY <1>4 DEF Moved
  <2>2. range # NoRange
    BY <1>4 DEF RangeWithout
  <2>3. PICK a \in Int, b \in Int : /\ center >= -Around
                                    /\ a = Larger(0, center - Around) /\ b = center + Around
                                    /\ range = [first |-> a, last |-> b]
    BY <1>1, <2>1, <2>2 DEF RangeAroundCenter, Larger
  <2>4. /\ a = IF 0 >= center - Around THEN 0 ELSE center - Around
        /\ ~(0 < a /\ b < k) /\ (k - 1) - 0 + 1 = k
    BY <2>1, <2>3 DEF Larger
  <2>5. CASE 0 < a /\ k - 1 < a
    <3>1. range' = Shortened(a - k, b - k)
      BY <2>2, <2>3, <2>4, <2>5 DEF RangeWithout
    <3>2. range' = [first |-> a - k, last |-> b - k]
      BY <1>4, <3>1 DEF Shortened
    <3>3. Larger(0, (center - k) - Around) = a - k /\ (center - k) + Around = b - k
      BY <1>1, <2>3, <2>4, <2>5 DEF Larger
    <3>4. center' = center - k /\ center - k >= -Around
      BY <1>1, <1>4, <2>1, <2>3, <2>4, <2>5 DEF Moved
    <3> QED
      BY <3>2, <3>3, <3>4 DEF RangeAroundCenter
  <2>6. CASE 0 < a /\ ~(k - 1 < a)
    <3>1. range' = Shortened(0, b - k)
      BY <2>2, <2>3, <2>4, <2>6 DEF RangeWithout
    <3>2. range' = [first |-> 0, last |-> b - k]
      BY <1>4, <3>1 DEF Shortened
    <3>3. Larger(0, (center - k) - Around) = 0 /\ (center - k) + Around = b - k
      BY <1>1, <2>3, <2>4, <2>6 DEF Larger
    <3>4. center' = center - k /\ center - k >= -Around
      BY <1>1, <1>4, <2>1, <2>3, <2>4, <2>6 DEF Moved
    <3> QED
      BY <3>2, <3>3, <3>4 DEF RangeAroundCenter
  <2>7. CASE ~(0 < a)
    <3>1. a = 0
      BY <1>1, <2>4, <2>7
    <3>2. range' = IF k - 1 <= b THEN Shortened(0, b - k) ELSE Shortened(0, -1)
      BY <2>2, <2>3, <2>4, <3>1 DEF RangeWithout
    <3>3. b - k >= 0 /\ range' = [first |-> 0, last |-> b - k]
      BY <1>4, <2>3, <3>2 DEF Shortened
    <3>4. Larger(0, (center - k) - Around) = 0 /\ (center - k) + Around = b - k
      BY <1>1, <2>3, <2>4, <3>1 DEF Larger
    <3>5. center' = center - k /\ center - k >= -Around
      BY <1>1, <1>4, <2>1, <2>3, <2>4, <3>3 DEF Moved
    <3> QED
      BY <3>3, <3>4, <3>5 DEF RangeAroundCenter
  <2> QED
    BY <2>5, <2>6, <2>7
<1> QED
  BY <1>2, <1>3, <1>4

-----------------------------------------------------------------------------
(***************************************************************************)
(* A message is stored: the table grows, is trimmed first, or is replaced. *)
(***************************************************************************)

\* Which rows insertEntry leaves, by how the filter follows it.
LEMMA InsertedCases ==
  ASSUME TypeOK, NEW mess \in Seq(Kinds)
  PROVE  /\ Inserted(table, mess, maxEntries) \in Seq(Kinds)
         /\ ToRemove(mess) \in Int
         /\ ToRemove(mess) <= 0 => Inserted(table, mess, maxEntries) = table \o mess
         /\ ToRemove(mess) \in 1..(Len(table) - 1) =>
              Inserted(table, mess, maxEntries)
                = RemoveRowsUnlocked(table, ToRemove(mess)) \o mess
<1>1. /\ table \in Seq(Kinds) /\ maxEntries \in Nat
      /\ Len(table) \in Nat /\ Len(mess) \in Nat
  BY LenProperties DEF TypeOK, TableTypeOK
<1> DEFINE n == Len(table)
           l == Len(mess)
<1>2. CASE maxEntries = 0 \/ n + l <= maxEntries
  <2>1. Inserted(table, mess, maxEntries) = table \o mess
    BY <1>2 DEF Inserted
  <2>2. ToRemove(mess) \in Int /\ ToRemove(mess) <= 0
    BY <1>1, <1>2 DEF ToRemove
  <2> QED
    BY <1>1, <2>1, <2>2, ConcatProperties
<1>3. CASE ~(maxEntries = 0 \/ n + l <= maxEntries) /\ l >= maxEntries
  <2>1. Inserted(table, mess, maxEntries) = DropFirst(mess, l - maxEntries)
    BY <1>3 DEF Inserted
  <2>2. /\ ToRemove(mess) \in Int /\ ToRemove(mess) > 0 /\ ToRemove(mess) >= n
        /\ l - maxEntries \in 0..l
    BY <1>1, <1>3 DEF ToRemove
  <2>3. DropFirst(mess, l - maxEntries) \in Seq(Kinds)
    BY <2>2, DropFirstProperties
  <2> QED
    BY <1>1, <2>1, <2>2, <2>3
<1>4. CASE ~(maxEntries = 0 \/ n + l <= maxEntries) /\ ~(l >= maxEntries)
  <2>1. ToRemove(mess) = n + l - maxEntries
    BY <1>4 DEF ToRemove
  <2>2. Inserted(table, mess, maxEntries) = RemoveRowsUnlocked(table, ToRemove(mess)) \o mess
    BY <1>1, <1>4, <2>1 DEF Inserted
  <2>3. ToRemove(mess) \in Int /\ ToRemove(mess) > 0 /\ ToRemove(mess) \in 0..n
    BY <1>1, <1>4, <2>1
  <2>4. RemoveRowsUnlocked(table, ToRemove(mess)) \in Seq(Kinds)
    BY <1>1, <2>3, DropFirstProperties DEF RemoveRowsUnlocked
  <2> QED
    BY <2>2, <2>3, <2>4, ConcatProperties
<1> QED
  BY <1>2, <1>3, <1>4

LEMMA NoRangeIsNone == NoRange \in Ranges /\ NoCenter \in Int /\ Uncovered \in Int
BY FilteredAssumption DEF NoRange, Ranges, NoCenter, Uncovered

\* Between two changes of the filters a row is accepted for its entry and the range.
LEMMA AcceptedFixesFilters ==
  ASSUME UNCHANGED <<hidden, discarded>>
  PROVE  Accepted(table, range)' = Accepted(table', range')
BY DEF Accepted, FilterAcceptsRow, FilterAcceptInt, InRange

\* The filter is up to date again when the message is stored.
LEMMA FollowKeepsUp ==
  ASSUME IInv, NEW mess \in Seq(Kinds), Follow(mess),
         table' = Inserted(table, mess, maxEntries)
  PROVE  range' \in Ranges /\ center' \in Int /\ ShownIsAccepted' /\ RangeAroundCenter'
<1>1. /\ table \in Seq(Kinds) /\ Len(table) \in Nat
      /\ range \in Ranges /\ center \in Int
      /\ visible = Accepted(table, range) /\ RangeAroundCenter
  BY LenProperties DEF IInv, TypeOK, TableTypeOK, Ranges, ShownIsAccepted
<1>2. Accepted(table, range)' = Accepted(table', range')
  BY AcceptedFixesFilters DEF Follow
<1>3. CASE FollowAppend(mess)
  <2>1. table' = table \o mess
    BY <1>3, InsertedCases DEF FollowAppend, IInv
  <2>2. visible' = Accepted(table \o mess, range)
    BY <1>1, <1>3, <2>1, AcceptedConcat DEF FollowAppend
  <2> QED
    BY <1>1, <1>3, <1>2, <2>1, <2>2 DEF FollowAppend, ShownIsAccepted, RangeAroundCenter
<1>4. CASE FollowReset
  BY <1>4, <1>2, NoRangeIsNone DEF FollowReset, ShownIsAccepted, RangeAroundCenter
<1>5. CASE FollowTrim(mess)
  <2> DEFINE k == ToRemove(mess)
             rows == RemoveRowsUnlocked(table, k)
             peeked == RangeWithout(range, 0, k - 1)
             shown == IF range = NoRange THEN RowsRemoved(visible, k) ELSE Accepted(rows, peeked)
  <2>1. /\ k \in 1..(Len(table) - 1)
        /\ range' = peeked
        /\ visible' = RowsInserted(shown, table', Len(rows), peeked)
        /\ center' = IF peeked = NoRange THEN NoCenter ELSE Moved(center, k)
    BY <1>5 DEF FollowTrim
  <2>2. k \in Nat \ {0} /\ k \in 0..Len(table)
    BY <1>1, <2>1
  <2>3. table' = rows \o mess /\ rows \in Seq(Kinds)
    BY <1>1, <2>1, <2>2, InsertedCases, DropFirstProperties DEF IInv, RemoveRowsUnlocked
  <2>4. peeked \in Ranges /\ RangeWithout(NoRange, 0, k - 1) = NoRange
    BY <1>1, <2>2, RangeWithoutType
  <2>5. shown = Accepted(rows, peeked)
    BY <1>1, <2>2, <2>4, AcceptedDrop
  <2> HIDE DEF k, rows, peeked, shown
  <2>6. visible' = Accepted(table', range')
    BY <2>1, <2>3, <2>5, AcceptedConcat
  <2>7. RangeAroundCenter'
    BY <2>1, <2>2, RangeFollowsTrim DEF IInv, peeked
  <2>8. center' \in Int
    BY <1>1, <2>1, <2>2, NoRangeIsNone DEF Moved
  <2> QED
    BY <1>2, <2>1, <2>4, <2>6, <2>7, <2>8 DEF ShownIsAccepted
<1> QED
  BY <1>3, <1>4, <1>5 DEF Follow

-----------------------------------------------------------------------------
(***************************************************************************)
(* The steps keep the invariant.                                           *)
(***************************************************************************)

\* An accepted row is a row.
LEMMA ShownRowsExist ==
  ASSUME ShownIsAccepted
  PROVE  visible \subseteq 0..(Len(table) - 1)
BY DEF ShownIsAccepted, Accepted

\* What is left to show when the table and the rows on show are up to date.
LEMMA StoredStep ==
  ASSUME IInv, NEW mess \in Seq(Kinds), ~blocking,
         table' = Inserted(table, mess, maxEntries), Follow(mess),
         UNCHANGED <<captureActive, maxEntries, blocking>>,
         blocked' \in Seq(Seq(Kinds))
  PROVE  IInv'
<1>1. /\ range' \in Ranges /\ center' \in Int
      /\ ShownIsAccepted' /\ RangeAroundCenter'
  BY FollowKeepsUp
<1>2. table' \in Seq(Kinds) /\ Len(table') \in Nat
  BY InsertedCases, LenProperties DEF IInv
<1>3. menuRow' = -1 /\ menuRow' \in -1..(Len(table') - 1)
  BY <1>2 DEF IInv, MenuBlocks, Follow, menuVars
<1>4. (visible \subseteq 0..(Len(table) - 1))'
  BY <1>1, ShownRowsExist, PTL
<1>5. TypeOK'
  BY <1>1, <1>2, <1>3, <1>4 DEF IInv, TypeOK, TableTypeOK, Follow, menuVars, Ranges
<1> QED
  BY <1>1, <1>3, <1>5 DEF IInv, MenuBlocks

\* The table stays as it is, with what blocks it.
LEMMA QuietStep ==
  ASSUME IInv, UNCHANGED tableVars,
         known' \subseteq Kinds, hidden' \subseteq known', discarded' \subseteq Kinds,
         range' \in Ranges, center' \in Int, RangeAroundCenter', ShownIsAccepted',
         menuRow' = menuRow, staleIndex' \in BOOLEAN
  PROVE  IInv'
<1>1. (visible \subseteq 0..(Len(table) - 1))'
  BY ShownRowsExist, PTL
<1> QED
  BY <1>1 DEF IInv, TypeOK, TableTypeOK, tableVars, MenuBlocks, Ranges

LEMMA InsertMessageStep ==
  ASSUME IInv, NEW mess \in Seq(Kinds), InsertMessage(mess)
  PROVE  IInv'
<1>1. CASE DropMessage(mess) /\ UNCHANGED <<known, filterVars, menuVars, center>>
  BY <1>1 DEF DropMessage, IInv, TypeOK, TableTypeOK, tableVars, filterVars, menuVars, MenuBlocks,
              ShownIsAccepted, RangeAroundCenter, Accepted, FilterAcceptsRow, FilterAcceptInt, InRange
<1>2. CASE BlockMessage(mess) /\ UNCHANGED <<known, filterVars, menuVars, center>>
  <2>1. Append(blocked, mess) \in Seq(Seq(Kinds))
    BY AppendProperties DEF IInv, TypeOK, TableTypeOK
  <2>2. Accepted(table, range)' = Accepted(table, range)
    BY <1>2, AcceptedFixesFilters DEF BlockMessage, filterVars
  <2> QED
    BY <1>2, <2>1, <2>2 DEF BlockMessage, IInv, TypeOK, TableTypeOK, filterVars, menuVars,
         MenuBlocks, ShownIsAccepted, RangeAroundCenter
<1>3. CASE StoreMessage(mess) /\ Follow(mess)
  <2>1. ~blocking /\ blocked' \in Seq(Seq(Kinds))
    BY <1>3 DEF StoreMessage, Stores, IInv, TypeOK, TableTypeOK
  <2> QED
    BY <1>3, <2>1, StoredStep DEF StoreMessage
<1> QED
  BY <1>1, <1>2, <1>3 DEF InsertMessage

LEMMA InsertBlockedStep ==
  ASSUME IInv, InsertBlocked
  PROVE  IInv'
<1>1. blocked \in Seq(Seq(Kinds)) /\ blocked # <<>> /\ ~blocking
  BY DEF InsertBlocked, DrainMessage, Draining, IInv, TypeOK, TableTypeOK
<1>2. Head(blocked) \in Seq(Kinds) /\ Tail(blocked) \in Seq(Seq(Kinds))
  BY <1>1, HeadTailProperties
<1>3. CASE Stores(Head(blocked))
  BY <1>1, <1>2, <1>3, StoredStep DEF InsertBlocked, DrainMessage
<1>4. CASE ~Stores(Head(blocked))
  <2>1. Accepted(table, range)' = Accepted(table, range)
    BY <1>4, AcceptedFixesFilters DEF InsertBlocked, DrainMessage, filterVars
  <2> QED
    BY <1>2, <1>4, <2>1 DEF InsertBlocked, DrainMessage, IInv, TypeOK, TableTypeOK, filterVars,
         menuVars, MenuBlocks, ShownIsAccepted, RangeAroundCenter
<1> QED
  BY <1>3, <1>4

\* The filters and rules invalidate the proxy; rules drop the range as well.
LEMMA NewStringStep ==
  ASSUME IInv, NEW kind \in Kinds, NewString(kind)
  PROVE  IInv'
<1>1. known' \subseteq Kinds /\ hidden' \subseteq known' /\ staleIndex' \in BOOLEAN
  BY DEF NewString, IInv, TypeOK
<1> QED
  BY <1>1, QuietStep DEF NewString, Invalidate, IInv, TypeOK, ShownIsAccepted, RangeAroundCenter, Ranges

LEMMA FilterUpdateStep ==
  ASSUME IInv, NEW kinds \in SUBSET known, FilterUpdateFinished(kinds)
  PROVE  IInv'
BY QuietStep DEF FilterUpdateFinished, Invalidate, IInv, TypeOK, ShownIsAccepted,
     RangeAroundCenter, Ranges, menuVars

LEMMA UpdateChangesStep ==
  ASSUME IInv, NEW kinds \in SUBSET Kinds, UpdateChanges(kinds)
  PROVE  IInv'
BY QuietStep, NoRangeIsNone DEF UpdateChanges, Invalidate, IInv, TypeOK, ShownIsAccepted,
     RangeAroundCenter, Ranges, menuVars

\* The range is set around the row that is peeked at, or dropped if there is none.
LEMMA PeekKeepsRange ==
  ASSUME TypeOK, NEW row \in -1..(Len(table) - 1), ShowSurroundingLogEntries(row)
  PROVE  /\ range' \in Ranges /\ center' \in Int
         /\ RangeAroundCenter' /\ ShownIsAccepted'
<1>1. Len(table) \in Nat /\ Around \in Nat
  BY LenProperties, FilteredAssumption DEF TypeOK, TableTypeOK
<1>2. CASE row = -1
  BY <1>2, NoRangeIsNone DEF ShowSurroundingLogEntries, Invalidate, RangeAroundCenter, ShownIsAccepted
<1>3. CASE row # -1
  <2>1. row \in Nat /\ row >= -Around
    BY <1>1, <1>3
  <2>2. /\ range' = [first |-> Larger(0, row - Around), last |-> row + Around]
        /\ center' = row
    BY <1>3 DEF ShowSurroundingLogEntries
  <2>3. Larger(0, row - Around) \in Nat /\ row + Around \in Nat
    BY <1>1, <2>1 DEF Larger
  <2> QED
    BY <1>1, <2>1, <2>2, <2>3 DEF ShowSurroundingLogEntries, Invalidate, RangeAroundCenter,
         ShownIsAccepted, Ranges
<1> QED
  BY <1>2, <1>3

LEMMA OnDoubleClickStep ==
  ASSUME IInv, NEW r \in visible, OnDoubleClick(r)
  PROVE  IInv'
<1>1. r \in -1..(Len(table) - 1)
  BY DEF IInv, TypeOK
<1> QED
  BY <1>1, PeekKeepsRange, QuietStep DEF OnDoubleClick, ShowSurroundingLogEntries, IInv, TypeOK, menuVars

LEMMA MenuStep ==
  ASSUME IInv,
         PeekFiltered \/ CloseMenu \/ \E r \in visible : OpenMenu(r)
  PROVE  IInv'
<1>1. -1 \in -1..(Len(table) - 1)
  BY LenProperties DEF IInv, TypeOK, TableTypeOK
<1>2. ASSUME NEW r \in visible, OpenMenu(r)
      PROVE  IInv'
  <2>1. Accepted(table, range)' = Accepted(table, range) /\ r \in -1..(Len(table) - 1)
    BY <1>2, AcceptedFixesFilters DEF OpenMenu, BeginBlockItems, filterVars, IInv, TypeOK
  <2> QED
    BY <1>2, <2>1 DEF OpenMenu, BeginBlockItems, IInv, TypeOK, TableTypeOK, filterVars, MenuBlocks,
         ShownIsAccepted, RangeAroundCenter
<1>3. CASE PeekFiltered
  <2>1. PICK row \in -1..(Len(table) - 1) : ShowSurroundingLogEntries(row)
    BY <1>3 DEF PeekFiltered, MapToSource, IInv, TypeOK
  <2>2. /\ range' \in Ranges /\ center' \in Int
        /\ RangeAroundCenter' /\ ShownIsAccepted'
    BY <2>1, PeekKeepsRange DEF IInv
  <2>3. (visible \subseteq 0..(Len(table) - 1))'
    BY <2>2, ShownRowsExist, PTL
  <2> QED
    BY <1>1, <1>3, <2>1, <2>2, <2>3 DEF PeekFiltered, EndBlockItems, ShowSurroundingLogEntries, IInv,
         TypeOK, TableTypeOK, MenuBlocks, Ranges
<1>4. CASE CloseMenu
  <2>1. Accepted(table, range)' = Accepted(table, range)
    BY <1>4, AcceptedFixesFilters DEF CloseMenu, EndBlockItems, filterVars
  <2> QED
    BY <1>1, <1>4, <2>1 DEF CloseMenu, EndBlockItems, IInv, TypeOK, TableTypeOK, filterVars, MenuBlocks,
         ShownIsAccepted, RangeAroundCenter
<1> QED
  BY <1>2, <1>3, <1>4

LEMMA ClearRowsStep ==
  ASSUME IInv, ClearRows
  PROVE  IInv'
<1>1. /\ <<>> \in Seq(Kinds) /\ Len(<<>>) = 0 /\ menuRow = -1
  BY EmptySeq DEF ClearRows, Idle, IInv, MenuBlocks
<1>2. ShownIsAccepted' /\ RangeAroundCenter' /\ range' \in Ranges /\ center' \in Int
  BY AcceptedFixesFilters, NoRangeIsNone
     DEF ClearRows, FollowReset, ShownIsAccepted, RangeAroundCenter
<1>3. (visible \subseteq 0..(Len(table) - 1))'
  BY <1>2, ShownRowsExist, PTL
<1> QED
  BY <1>1, <1>2, <1>3 DEF ClearRows, ClearTable, IInv, TypeOK, TableTypeOK, MenuBlocks, menuVars, Ranges

LEMMA UserSwitchesStep ==
  ASSUME IInv, UserSwitches
  PROVE  IInv'
<1>1. UNCHANGED <<table, blocking, blocked, known, filterVars, menuVars, center>>
  BY DEF UserSwitches, Capture, SetMaxEntries
<1>2. captureActive' \in BOOLEAN /\ maxEntries' \in Nat
  BY FilteredAssumption DEF UserSwitches, Capture, SetMaxEntries, IInv, TypeOK, TableTypeOK
<1>3. Accepted(table, range)' = Accepted(table, range)
  BY <1>1, AcceptedFixesFilters DEF filterVars
<1> QED
  BY <1>1, <1>2, <1>3 DEF IInv, TypeOK, TableTypeOK, filterVars, menuVars, MenuBlocks,
       ShownIsAccepted, RangeAroundCenter

-----------------------------------------------------------------------------
(***************************************************************************)
(* The theorems.                                                           *)
(***************************************************************************)

LEMMA InitIInv == Init => IInv
<1> SUFFICES ASSUME Init PROVE IInv
  OBVIOUS
<1>1. table = <<>> /\ table \in Seq(Kinds) /\ blocked \in Seq(Seq(Kinds)) /\ Len(table) = 0
  BY EmptySeq DEF Init, TableInit
<1>2. Accepted(table, range) = {}
  BY <1>1 DEF Accepted
<1>3. TableTypeOK(Kinds)
  BY <1>1 DEF Init, TableInit, TableTypeOK
<1>4. menuRow = -1 /\ menuRow \in -1..(Len(table) - 1)
  BY <1>1 DEF Init
<1>5. TypeOK
  BY <1>3, <1>4, NoRangeIsNone DEF Init, TypeOK, Ranges
<1> QED
  BY <1>2, <1>4, <1>5 DEF Init, IInv, MenuBlocks, ShownIsAccepted, RangeAroundCenter

LEMMA NextIInv == IInv /\ [Next]_vars => IInv'
<1> SUFFICES ASSUME IInv, [Next]_vars PROVE IInv'
  OBVIOUS
<1>1. ASSUME NEW n \in 1..MaxMess, NEW mess \in [1..n -> known], InsertMessage(mess)
      PROVE  IInv'
  <2>1. known \subseteq Kinds /\ n \in Nat
    BY FilteredAssumption DEF IInv, TypeOK
  <2>2. mess \in Seq(Kinds)
    BY <2>1, SeqDef
  <2> QED
    BY <1>1, <2>2, InsertMessageStep
<1>2. CASE InsertBlocked
  BY <1>2, InsertBlockedStep
<1>3. ASSUME NEW kind \in Kinds, NewString(kind) PROVE IInv'
  BY <1>3, NewStringStep
<1>4. ASSUME NEW kinds \in SUBSET known, FilterUpdateFinished(kinds) PROVE IInv'
  BY <1>4, FilterUpdateStep
<1>5. ASSUME NEW kinds \in SUBSET Kinds, UpdateChanges(kinds) PROVE IInv'
  BY <1>5, UpdateChangesStep
<1>6. ASSUME NEW r \in visible, OnDoubleClick(r) PROVE IInv'
  BY <1>6, OnDoubleClickStep
<1>7. CASE PeekFiltered \/ CloseMenu \/ \E r \in visible : OpenMenu(r)
  BY <1>7, MenuStep
<1>8. CASE ClearRows
  BY <1>8, ClearRowsStep
<1>9. CASE UserSwitches
  BY <1>9, UserSwitchesStep
<1>10. CASE UNCHANGED vars
  <2>1. Accepted(table, range)' = Accepted(table, range)
    BY <1>10, AcceptedFixesFilters DEF vars, tableVars, filterVars
  <2> QED
    BY <1>10, <2>1 DEF vars, tableVars, filterVars, menuVars, IInv, TypeOK, TableTypeOK, MenuBlocks,
         ShownIsAccepted, RangeAroundCenter
<1> QED
  BY <1>1, <1>2, <1>3, <1>4, <1>5, <1>6, <1>7, <1>8, <1>9, <1>10 DEF Next

LEMMA Invariance == Spec => []IInv
BY InitIInv, NextIInv, PTL DEF Spec

\* Without a stray range the refused rows on show are those the range names.
LEMMA SurroundingsAreTheRange ==
  ASSUME IInv
  PROVE  SurroundingsShown
<1> SUFFICES ASSUME center # Uncovered
             PROVE  \A r \in 0..(Len(table) - 1) :
                      ~FilterAcceptInt(table[r + 1]) =>
                        (r \in visible <=> /\ center # NoCenter
                                          /\ center - Around <= r /\ r <= center + Around)
  BY ShownRowsExist DEF SurroundingsShown, IInv
<1>1. Around \in Nat /\ center \in Int
  BY FilteredAssumption DEF IInv, TypeOK
<1> TAKE r \in 0..(Len(table) - 1)
<1> HAVE ~FilterAcceptInt(table[r + 1])
<1>2. r \in visible <=> InRange(r, range)
  BY DEF IInv, ShownIsAccepted, Accepted, FilterAcceptsRow
<1>3. CASE center = NoCenter /\ range = NoRange
  BY <1>2, <1>3 DEF InRange, NoRange
<1>4. CASE /\ center >= -Around
           /\ range = [first |-> Larger(0, center - Around), last |-> center + Around]
  <2>1. center # NoCenter
    BY <1>1, <1>4 DEF NoCenter
  <2>2. InRange(r, range) <=> center - Around <= r /\ r <= center + Around
    BY <1>1, <1>4 DEF InRange, Larger
  <2> QED
    BY <1>2, <2>1, <2>2
<1> QED
  BY <1>3, <1>4 DEF IInv, RangeAroundCenter

\* The state of the table and of the filter has its type.
THEOREM TypeCorrect == Spec => []TypeOK
BY Invariance, PTL DEF IInv

\* Whatever is inserted, trimmed, filtered, discarded or peeked at, in any order: the
\* proxy shows the rows it would show if it were built anew.
THEOREM ProxyIsUpToDate == Spec => []ShownIsAccepted
BY Invariance, PTL DEF IInv

\* The refused rows on show are those around the row the user peeked at, wherever
\* later trims have moved it.
THEOREM PeekFollowsRow == Spec => []SurroundingsShown
BY Invariance, SurroundingsAreTheRange, PTL

-----------------------------------------------------------------------------
(***************************************************************************)
(* The headers of the windows                                              *)
(***************************************************************************)

(* Lists of hints are no longer than there are columns.                    *)
Hints ==
    {h \in [width : Seq(Int), show : Seq(BOOLEAN), order : Seq(Nat)] :
        /\ Len(h.width) <= ColumnCount
        /\ Len(h.show) <= ColumnCount
        /\ Len(h.order) <= ColumnCount}

Places == {place \in [Cols -> Cols] : \A c, d \in Cols : place[c] = place[d] => c = d}

Looks == [width : [Cols -> Nat], hidden : SUBSET Cols, place : Places]

HeaderTypes ==
    /\ settings = <<>> \/ (settings[1] \in Hints /\ settings = <<settings[1]>>)
    /\ opening = <<>> \/ \E w \in Windows, step \in 0 .. ColumnCount + 2 : opening = <<w, step>>
    /\ open \subseteq Windows
    /\ hints \in [Windows -> Hints]
    /\ loaded \in [Windows -> BOOLEAN]
    /\ look \in [Windows -> Looks]
    /\ changes \in 0 .. MaxChanges
    /\ last \in Looks
    /\ torn \in {"nothing", "defaults", "places"}

(* The header of a window is always as its hints would arrange it anew.    *)
HintsFollowHeader ==
    /\ opening # <<>> => opening[1] \notin open
    /\ \A w \in open : look[w] = Arranged(hints[w])

(* What a parser has proposed before the step, on settings without hints.  *)
ProposedBefore(step) ==
    [width |-> [i \in 1 .. IF step = 0 THEN 0 ELSE IF step > ColumnCount THEN ColumnCount
                           ELSE step - 1 |-> DefaultWidth[i - 1]],
     show  |-> <<>>,
     order |-> IF step > ColumnCount + 1 THEN DefaultOrder ELSE <<>>]

(* Hints that are in the settings are those of the header changed last,    *)
(* without its places if a move broke off.  Until there are any, nothing   *)
(* has broken off, that header is as the parser proposes, and the hints    *)
(* of the window that is opened are on their way there.                    *)
SettingsOfLast ==
    /\ settings = <<>> => torn = "nothing"
    /\ opening = <<>> /\ settings = <<>> => last = Arranged(DefaultHints)
    /\ (opening = <<>> \/ loaded[opening[1]]) /\ settings # <<>> =>
          SameHeader(Arranged(settings[1]), last, torn)
    /\ opening # <<>> /\ loaded[opening[1]] => settings = <<hints[opening[1]]>>
    /\ opening # <<>> /\ ~loaded[opening[1]] =>
          /\ torn = "nothing"
          /\ last = Arranged(DefaultHints)
          /\ hints[opening[1]] = ProposedBefore(opening[2])
          /\ settings = IF opening[2] = 0 THEN <<>> ELSE <<hints[opening[1]]>>

HeaderInv == HeaderTypes /\ HintsFollowHeader /\ (torn = "defaults" \/ SettingsOfLast)

(* A list that was filled up and given a hint for a column.                *)
Given(new, S, list, col, value, fill) ==
    /\ new \in Seq(S) /\ Len(new) <= ColumnCount
    /\ Len(new) = IF col < Len(list) THEN Len(list) ELSE col + 1
    /\ new[col + 1] = value
    /\ \A i \in 1 .. Len(new) :
           i # col + 1 => new[i] = IF i <= Len(list) THEN list[i] ELSE fill

LEMMA WithIs ==
    ASSUME NEW S, NEW list \in Seq(S), Len(list) <= ColumnCount,
           NEW col \in Cols, NEW value \in S, NEW fill \in S
    PROVE  Given(With(list, col, value, fill), S, list, col, value, fill)
  <1> DEFINE n == col + 1 - Len(list)
             more == [i \in 1 .. n |-> fill]
             padded == list \o more
             len == Len(list) + Len(more)
  <1>1. Len(list) \in Nat /\ col \in Nat /\ col < ColumnCount
    BY ColumnsAssumption DEF Cols
  <1>2. /\ more \in Seq(S) /\ Len(more) \in Nat
        /\ Len(more) = IF n > 0 THEN n ELSE 0
        /\ n > 0 => \A i \in 1 .. n : more[i] = fill
        /\ n \in Int
    <2>1. n \in Int
      BY <1>1
    <2> HIDE DEF n
    <2>2. CASE n > 0
      <3>1. n \in Nat
        BY <2>1, <2>2
      <3> QED
        BY <2>1, <2>2, <3>1
    <2>3. CASE ~(n > 0)
      <3>1. 1 .. n = {}
        BY <2>1, <2>3
      <3>2. more = <<>>
        BY <3>1
      <3> HIDE DEF more
      <3>3. more \in Seq(S) /\ Len(more) = 0
        BY <3>2
      <3> QED
        BY <2>1, <2>3, <3>3
    <2> QED
      BY <2>2, <2>3
  <1> HIDE DEF more
  <1>3. /\ padded \in Seq(S) /\ Len(padded) = len
        /\ \A i \in 1 .. len : padded[i] = IF i <= Len(list) THEN list[i] ELSE more[i - Len(list)]
    BY <1>2, ConcatProperties
  <1>4. /\ len \in Nat /\ len >= col + 1 /\ len <= ColumnCount
        /\ len = IF col < Len(list) THEN Len(list) ELSE col + 1
    BY <1>1, <1>2, ColumnsAssumption
  <1>5. ASSUME NEW i \in 1 .. len, i > Len(list)
        PROVE  more[i - Len(list)] = fill
    <2>1. n > 0 /\ i - Len(list) \in 1 .. n
      BY <1>1, <1>2, <1>5
    <2> HIDE DEF n
    <2> QED
      BY <1>2, <2>1
  <1>6. \A i \in 1 .. len : padded[i] = IF i <= Len(list) THEN list[i] ELSE fill
    <2> HIDE DEF padded
    <2> QED
      BY <1>1, <1>3, <1>4, <1>5
  <1> HIDE DEF padded, len
  <1>7. With(list, col, value, fill) = [padded EXCEPT ![col + 1] = value]
    BY DEF With, Padded, padded, more, n
  <1>8. col + 1 \in 1 .. len
    BY <1>1, <1>4
  <1> DEFINE new == [padded EXCEPT ![col + 1] = value]
  <1>9. /\ new \in Seq(S) /\ Len(new) = len /\ new[col + 1] = value
        /\ \A i \in 1 .. len : i # col + 1 => new[i] = padded[i]
    BY <1>1, <1>3, <1>8, ExceptSeq
  <1> HIDE DEF new
  <1> QED
    BY <1>1, <1>4, <1>6, <1>7, <1>9 DEF new, Given

LEMMA NoHintsAreHints == NoHints \in Hints
  BY ColumnsAssumption DEF NoHints, Hints

(* A width that is hinted is that of its column, and of no other.          *)
LEMMA WidthSetIs ==
    ASSUME NEW h \in Hints, NEW col \in Cols, NEW width \in Nat
    PROVE  /\ WidthSet(h, col, width) \in Hints
           /\ \A c \in Cols : /\ WidthHint(WidthSet(h, col, width), c)
                                   = IF c = col THEN width ELSE WidthHint(h, c)
                              /\ ShowHint(WidthSet(h, col, width), c) = ShowHint(h, c)
                              /\ OrderHint(WidthSet(h, col, width), c) = OrderHint(h, c)
  <1> DEFINE list == h.width
             new == With(list, col, width, -1)
             g == [h EXCEPT !.width = new]
  <1>1. /\ list \in Seq(Int) /\ Len(list) <= ColumnCount /\ Len(list) \in Nat
        /\ h.show \in Seq(BOOLEAN) /\ h.order \in Seq(Nat)
        /\ h = [width |-> list, show |-> h.show, order |-> h.order]
        /\ Len(h.show) <= ColumnCount /\ Len(h.order) <= ColumnCount
    BY DEF Hints
  <1>2. width \in Int /\ -1 \in Int
    OBVIOUS
  <1> HIDE DEF list
  <1>3. /\ new \in Seq(Int) /\ Len(new) <= ColumnCount /\ Len(new) > col
        /\ new[col + 1] = width /\ Len(new) >= Len(list)
        /\ \A i \in 1 .. Len(new) :
               i # col + 1 => new[i] = IF i <= Len(list) THEN list[i] ELSE -1
    <2>1. Given(new, Int, list, col, width, -1)
      BY <1>1, <1>2, WithIs
    <2> HIDE DEF new
    <2> QED
      BY <1>1, <2>1, ColumnsAssumption DEF Given, Cols
  <1>4. g = WidthSet(h, col, width)
    BY DEF WidthSet, list
  <1> HIDE DEF new
  <1>5. g = [width |-> new, show |-> h.show, order |-> h.order]
    BY <1>1
  <1>6. g.width = new /\ g.show = h.show /\ g.order = h.order /\ g \in Hints
    BY <1>1, <1>3, <1>5 DEF Hints
  <1> HIDE DEF g
  <1>7. ASSUME NEW c \in Cols
        PROVE  WidthHint(g, c) = IF c = col THEN width ELSE WidthHint(h, c)
    <2>1. c \in Nat /\ Len(new) \in Nat
      BY <1>3, ColumnsAssumption DEF Cols
    <2>2. CASE c = col
      BY <1>3, <1>6, <2>1, <2>2 DEF WidthHint
    <2>3. CASE c # col /\ c < Len(new)
      <3>1. c + 1 \in 1 .. Len(new) /\ c + 1 # col + 1 /\ col \in Nat
        BY <2>1, <2>3, ColumnsAssumption DEF Cols
      <3>2. new[c + 1] = IF c + 1 <= Len(list) THEN list[c + 1] ELSE -1
        BY <1>3, <3>1
      <3> QED
        BY <1>1, <1>6, <2>1, <2>3, <3>2 DEF WidthHint, list
    <2>4. CASE c # col /\ ~(c < Len(new))
      BY <1>1, <1>3, <1>6, <2>1, <2>4 DEF WidthHint, list
    <2> QED
      BY <2>2, <2>3, <2>4
  <1>8. ASSUME NEW c \in Cols
        PROVE  ShowHint(g, c) = ShowHint(h, c) /\ OrderHint(g, c) = OrderHint(h, c)
    BY <1>6 DEF ShowHint, OrderHint
  <1> QED
    BY <1>4, <1>6, <1>7, <1>8

(* The same of what is shown and hidden.                                   *)
LEMMA ShowSetIs ==
    ASSUME NEW h \in Hints, NEW col \in Cols, NEW show \in BOOLEAN
    PROVE  /\ ShowSet(h, col, show) \in Hints
           /\ \A c \in Cols : /\ WidthHint(ShowSet(h, col, show), c) = WidthHint(h, c)
                              /\ ShowHint(ShowSet(h, col, show), c)
                                   = IF c = col THEN show ELSE ShowHint(h, c)
                              /\ OrderHint(ShowSet(h, col, show), c) = OrderHint(h, c)
  <1> DEFINE list == h.show
             new == With(list, col, show, TRUE)
             g == [h EXCEPT !.show = new]
  <1>1. /\ list \in Seq(BOOLEAN) /\ Len(list) <= ColumnCount /\ Len(list) \in Nat
        /\ h.width \in Seq(Int) /\ h.order \in Seq(Nat)
        /\ h = [width |-> h.width, show |-> list, order |-> h.order]
        /\ Len(h.width) <= ColumnCount /\ Len(h.order) <= ColumnCount
    BY DEF Hints
  <1> HIDE DEF list
  <1>2. /\ new \in Seq(BOOLEAN) /\ Len(new) <= ColumnCount /\ Len(new) > col
        /\ new[col + 1] = show /\ Len(new) >= Len(list)
        /\ \A i \in 1 .. Len(new) :
               i # col + 1 => new[i] = IF i <= Len(list) THEN list[i] ELSE TRUE
    <2>1. Given(new, BOOLEAN, list, col, show, TRUE)
      BY <1>1, WithIs
    <2> HIDE DEF new
    <2>2. /\ new \in Seq(BOOLEAN) /\ Len(new) <= ColumnCount
          /\ Len(new) = IF col < Len(list) THEN Len(list) ELSE col + 1
          /\ new[col + 1] = show
          /\ \A i \in 1 .. Len(new) :
                 i # col + 1 => new[i] = IF i <= Len(list) THEN list[i] ELSE TRUE
      BY <2>1, Zenon DEF Given
    <2>3. Len(new) > col /\ Len(new) >= Len(list)
      <3>1. Len(new) = IF col < Len(list) THEN Len(list) ELSE col + 1
        BY <2>2
      <3>2. col \in Nat /\ Len(list) \in Nat
        BY <1>1, ColumnsAssumption DEF Cols
      <3> QED
        BY ONLY <3>1, <3>2
    <2> QED
      BY <2>2, <2>3, Zenon
  <1>3. g = ShowSet(h, col, show)
    BY DEF ShowSet, list
  <1> HIDE DEF new
  <1>4. g = [width |-> h.width, show |-> new, order |-> h.order]
    BY <1>1
  <1>5. g.show = new /\ g.width = h.width /\ g.order = h.order /\ g \in Hints
    BY <1>1, <1>2, <1>4 DEF Hints
  <1> HIDE DEF g
  <1>6. ASSUME NEW c \in Cols
        PROVE  ShowHint(g, c) = IF c = col THEN show ELSE ShowHint(h, c)
    <2>1. c \in Nat /\ Len(new) \in Nat /\ col \in Nat
      BY <1>2, ColumnsAssumption DEF Cols
    <2>2. CASE c = col
      BY <1>2, <1>5, <2>1, <2>2 DEF ShowHint
    <2>3. CASE c # col /\ c < Len(new)
      <3>1. c + 1 \in 1 .. Len(new) /\ c + 1 # col + 1
        BY <2>1, <2>3
      <3>2. new[c + 1] = IF c + 1 <= Len(list) THEN list[c + 1] ELSE TRUE
        BY <1>2, <3>1
      <3> QED
        BY <1>1, <1>5, <2>1, <2>3, <3>2 DEF ShowHint, list
    <2>4. CASE c # col /\ ~(c < Len(new))
      BY <1>1, <1>2, <1>5, <2>1, <2>4 DEF ShowHint, list
    <2> QED
      BY <2>2, <2>3, <2>4
  <1>7. ASSUME NEW c \in Cols
        PROVE  WidthHint(g, c) = WidthHint(h, c) /\ OrderHint(g, c) = OrderHint(h, c)
    BY <1>5 DEF WidthHint, OrderHint
  <1> QED
    BY <1>3, <1>5, <1>6, <1>7

-----------------------------------------------------------------------------
(* A header arranged by its hints *)

LEMMA ColsAreFinite ==
    /\ IsFiniteSet(Cols) /\ Cardinality(Cols) = ColumnCount
    /\ Cols \subseteq Nat
  BY FS_Interval, ColumnsAssumption DEF Cols

InFrontOf(h, c) == {d \in Cols : Before(h, d, c)}

LEMMA InFrontOfIs ==
    ASSUME NEW h, NEW c \in Cols
    PROVE  /\ IsFiniteSet(InFrontOf(h, c))
           /\ Cardinality(InFrontOf(h, c)) \in Nat
  <1>1. InFrontOf(h, c) \in SUBSET Cols
    BY DEF InFrontOf
  <1>2. IsFiniteSet(InFrontOf(h, c))
    BY <1>1, ColsAreFinite, FS_Subset
  <1> QED
    BY <1>2, FS_CardinalityType

LEMMA OrderHintIs ==
    ASSUME NEW h \in Hints, NEW c \in Cols
    PROVE  OrderHint(h, c) \in Nat
  <1>1. h.order \in Seq(Nat) /\ c \in Nat /\ Len(h.order) \in Nat
    BY ColsAreFinite DEF Hints
  <1>2. c < Len(h.order) => h.order[c + 1] \in Nat
    BY <1>1
  <1> QED
    BY <1>2 DEF OrderHint

(* A column further back has more columns in front of it.                  *)
LEMMA MoreInFront ==
    ASSUME NEW h \in Hints, NEW c \in Cols, NEW d \in Cols, Before(h, c, d)
    PROVE  Cardinality(InFrontOf(h, c)) < Cardinality(InFrontOf(h, d))
  <1>1. \A e \in Cols : e \in Nat /\ OrderHint(h, e) \in Nat
    BY OrderHintIs, ColsAreFinite
  <1>2. InFrontOf(h, c) \in SUBSET InFrontOf(h, d)
    BY <1>1 DEF InFrontOf, Before
  <1>3. c \in InFrontOf(h, d) /\ c \notin InFrontOf(h, c)
    BY <1>1 DEF InFrontOf, Before
  <1>4. /\ Cardinality(InFrontOf(h, c)) <= Cardinality(InFrontOf(h, d))
        /\ Cardinality(InFrontOf(h, d)) # Cardinality(InFrontOf(h, c))
    BY <1>2, <1>3, InFrontOfIs, FS_Subset
  <1> QED
    BY <1>4, InFrontOfIs

(* Every column gets a place of its own.                                   *)
LEMMA PlacesOfHints ==
    ASSUME NEW h \in Hints
    PROVE  Arranged(h).place \in Places
  <1> DEFINE place == [c \in Cols |-> Cardinality(InFrontOf(h, c))]
  <1>1. Arranged(h).place = place
    BY DEF Arranged, InFrontOf
  <1>2. ASSUME NEW c \in Cols
        PROVE  place[c] \in Cols
    <2>1. InFrontOf(h, c) \in SUBSET Cols /\ c \notin InFrontOf(h, c)
      BY OrderHintIs, ColsAreFinite DEF InFrontOf, Before
    <2>2. /\ Cardinality(InFrontOf(h, c)) <= ColumnCount
          /\ Cardinality(InFrontOf(h, c)) # ColumnCount
      BY <2>1, ColsAreFinite, FS_Subset
    <2>3. Cardinality(InFrontOf(h, c)) \in Nat
      BY InFrontOfIs
    <2> QED
      BY <2>2, <2>3, ColumnsAssumption DEF Cols
  <1>3. ASSUME NEW c \in Cols, NEW d \in Cols, place[c] = place[d]
        PROVE  c = d
    <2>1. c = d \/ Before(h, c, d) \/ Before(h, d, c)
      BY OrderHintIs, ColsAreFinite DEF Before
    <2>2. ~(Cardinality(InFrontOf(h, c)) < Cardinality(InFrontOf(h, d)))
          /\ ~(Cardinality(InFrontOf(h, d)) < Cardinality(InFrontOf(h, c)))
      BY <1>3, InFrontOfIs
    <2> QED
      BY <2>1, <2>2, MoreInFront
  <1> HIDE DEF place
  <1>4. place \in [Cols -> Cols]
    BY <1>2 DEF place
  <1> QED
    BY <1>1, <1>3, <1>4 DEF Places

LEMMA WidthHintIs ==
    ASSUME NEW h \in Hints, NEW c \in Cols
    PROVE  WidthHint(h, c) \in Nat
  <1>1. h.width \in Seq(Int) /\ c \in Nat /\ Len(h.width) \in Nat
    BY ColsAreFinite DEF Hints
  <1>2. c < Len(h.width) => h.width[c + 1] \in Int
    BY <1>1
  <1> QED
    BY <1>2 DEF WidthHint

LEMMA ArrangedIs ==
    ASSUME NEW h \in Hints
    PROVE  Arranged(h) \in Looks
  <1>1. Arranged(h).width \in [Cols -> Nat]
    BY WidthHintIs DEF Arranged
  <1>2. Arranged(h).hidden \in SUBSET Cols
    BY DEF Arranged
  <1>3. Arranged(h) = [width |-> Arranged(h).width, hidden |-> Arranged(h).hidden,
                       place |-> Arranged(h).place]
    BY DEF Arranged
  <1> QED
    BY <1>1, <1>2, <1>3, PlacesOfHints DEF Looks

(* Hints that agree on every column arrange a header in the same way.      *)
LEMMA SamePlace ==
    ASSUME NEW g, NEW h, \A c \in Cols : OrderHint(g, c) = OrderHint(h, c)
    PROVE  Arranged(g).place = Arranged(h).place
  <1>1. \A c \in Cols : InFrontOf(g, c) = InFrontOf(h, c)
    BY DEF InFrontOf, Before
  <1>2. [c \in Cols |-> Cardinality(InFrontOf(g, c))]
          = [c \in Cols |-> Cardinality(InFrontOf(h, c))]
    BY <1>1
  <1> QED
    BY <1>2 DEF Arranged, InFrontOf

LEMMA SizedIs ==
    ASSUME NEW h \in Hints, NEW col \in Cols, NEW size \in Nat
    PROVE  /\ Sized(h, col, size) \in Hints
           /\ Arranged(Sized(h, col, size))
                = [Arranged(h) EXCEPT !.width[col] = size, !.hidden = @ \ {col}]
  <1> DEFINE f == ShowSet(h, col, TRUE)
             g == Sized(h, col, size)
             a == Arranged(h)
  <1>1. /\ f \in Hints
        /\ \A c \in Cols : /\ WidthHint(f, c) = WidthHint(h, c)
                           /\ ShowHint(f, c) = IF c = col THEN TRUE ELSE ShowHint(h, c)
                           /\ OrderHint(f, c) = OrderHint(h, c)
    BY ShowSetIs
  <1>2. g = WidthSet(f, col, size)
    BY DEF Sized
  <1> HIDE DEF f
  <1>3. /\ g \in Hints
        /\ \A c \in Cols : /\ WidthHint(g, c) = IF c = col THEN size ELSE WidthHint(f, c)
                           /\ ShowHint(g, c) = ShowHint(f, c)
                           /\ OrderHint(g, c) = OrderHint(f, c)
    BY <1>1, <1>2, WidthSetIs
  <1> HIDE DEF g
  <1>4. Arranged(g).width = [a.width EXCEPT ![col] = size]
    BY <1>1, <1>3 DEF Arranged
  <1>5. Arranged(g).hidden = a.hidden \ {col}
    BY <1>1, <1>3 DEF Arranged
  <1>6. Arranged(g).place = a.place
    BY <1>1, <1>3, SamePlace
  <1>7. Arranged(g) = [width |-> Arranged(g).width, hidden |-> Arranged(g).hidden,
                       place |-> Arranged(g).place]
        /\ a = [width |-> a.width, hidden |-> a.hidden, place |-> a.place]
    BY DEF Arranged
  <1> HIDE DEF a
  <1>8. Arranged(g) = [a EXCEPT !.width[col] = size, !.hidden = @ \ {col}]
    BY <1>4, <1>5, <1>6, <1>7
  <1> QED
    BY <1>3, <1>8 DEF g, a

LEMMA HiddenIs ==
    ASSUME NEW h \in Hints, NEW col \in Cols
    PROVE  /\ ShowSet(h, col, FALSE) \in Hints
           /\ Arranged(ShowSet(h, col, FALSE))
                = [Arranged(h) EXCEPT !.hidden = @ \cup {col}]
  <1> DEFINE g == ShowSet(h, col, FALSE)
             a == Arranged(h)
  <1>1. /\ g \in Hints
        /\ \A c \in Cols : /\ WidthHint(g, c) = WidthHint(h, c)
                           /\ ShowHint(g, c) = IF c = col THEN FALSE ELSE ShowHint(h, c)
                           /\ OrderHint(g, c) = OrderHint(h, c)
    BY ShowSetIs
  <1> HIDE DEF g
  <1>2. Arranged(g).width = a.width
    BY <1>1 DEF Arranged
  <1>3. Arranged(g).hidden = a.hidden \cup {col}
    BY <1>1 DEF Arranged
  <1>4. Arranged(g).place = a.place
    BY <1>1, SamePlace
  <1>5. Arranged(g) = [width |-> Arranged(g).width, hidden |-> Arranged(g).hidden,
                       place |-> Arranged(g).place]
        /\ a = [width |-> a.width, hidden |-> a.hidden, place |-> a.place]
    BY DEF Arranged
  <1> HIDE DEF a
  <1>6. Arranged(g) = [a EXCEPT !.hidden = @ \cup {col}]
    BY <1>2, <1>3, <1>4, <1>5
  <1> QED
    BY <1>1, <1>6 DEF g, a

LEMMA ShownIs ==
    ASSUME NEW h \in Hints, NEW col \in Cols
    PROVE  /\ ShowSet(h, col, TRUE) \in Hints
           /\ Arranged(ShowSet(h, col, TRUE))
                = [Arranged(h) EXCEPT !.hidden = @ \ {col}]
  <1> DEFINE g == ShowSet(h, col, TRUE)
             a == Arranged(h)
  <1>1. /\ g \in Hints
        /\ \A c \in Cols : /\ WidthHint(g, c) = WidthHint(h, c)
                           /\ ShowHint(g, c) = IF c = col THEN TRUE ELSE ShowHint(h, c)
                           /\ OrderHint(g, c) = OrderHint(h, c)
    BY ShowSetIs
  <1> HIDE DEF g
  <1>2. Arranged(g).width = a.width
    BY <1>1 DEF Arranged
  <1>3. Arranged(g).hidden = a.hidden \ {col}
    BY <1>1 DEF Arranged
  <1>4. Arranged(g).place = a.place
    BY <1>1, SamePlace
  <1>5. Arranged(g) = [width |-> Arranged(g).width, hidden |-> Arranged(g).hidden,
                       place |-> Arranged(g).place]
        /\ a = [width |-> a.width, hidden |-> a.hidden, place |-> a.place]
    BY DEF Arranged
  <1> HIDE DEF a
  <1>6. Arranged(g) = [a EXCEPT !.hidden = @ \ {col}]
    BY <1>2, <1>3, <1>4, <1>5
  <1> QED
    BY <1>1, <1>6 DEF g, a

LEMMA OrderSetIs ==
    ASSUME NEW h \in Hints, NEW col \in Cols, NEW place \in Nat
    PROVE  /\ OrderSet(h, col, place) \in Hints
           /\ OrderSet(h, col, place).width = h.width
           /\ OrderSet(h, col, place).show = h.show
           /\ Given(OrderSet(h, col, place).order, Nat, h.order, col, place, 1)
  <1> DEFINE new == With(h.order, col, place, 1)
             g == [h EXCEPT !.order = new]
  <1>1. /\ h = [width |-> h.width, show |-> h.show, order |-> h.order]
        /\ h.width \in Seq(Int) /\ h.show \in Seq(BOOLEAN) /\ h.order \in Seq(Nat)
        /\ Len(h.width) <= ColumnCount /\ Len(h.show) <= ColumnCount
        /\ Len(h.order) <= ColumnCount
    BY DEF Hints
  <1>2. Given(new, Nat, h.order, col, place, 1)
    BY <1>1, WithIs
  <1>3. new \in Seq(Nat) /\ Len(new) <= ColumnCount
    BY <1>2, Zenon DEF Given
  <1>4. OrderSet(h, col, place) = g
    BY DEF OrderSet
  <1> HIDE DEF new
  <1>5. g = [width |-> h.width, show |-> h.show, order |-> new]
    <2> DEFINE w == h.width
               s == h.show
               o == h.order
    <2>1. h = [width |-> w, show |-> s, order |-> o]
      BY <1>1
    <2> HIDE DEF w, s, o
    <2>2. g = [width |-> w, show |-> s, order |-> new]
      BY <2>1
    <2> QED
      BY <2>2 DEF w, s
  <1>6. g \in Hints /\ g.width = h.width /\ g.show = h.show /\ g.order = new
    BY <1>1, <1>3, <1>5 DEF Hints
  <1> QED
    BY <1>2, <1>4, <1>6

(* The hints when the columns at the first n places have been given them.  *)
UpToPlace(h, place, n) ==
    {g \in Hints :
        /\ g.width = h.width /\ g.show = h.show
        /\ \A c \in Cols : place[c] < n => c < Len(g.order) /\ g.order[c + 1] = place[c]}

LEMMA PlaceGiven ==
    ASSUME NEW h \in Hints, NEW place \in Places, NEW n \in 1 .. ColumnCount,
           NEW g \in UpToPlace(h, place, n - 1)
    PROVE  GivePlace(g, <<ColumnAt(place, n - 1), n - 1>>) \in UpToPlace(h, place, n)
  <1> DEFINE col == ColumnAt(place, n - 1)
             new == OrderSet(g, col, n - 1)
  <1>1. /\ place \in [Cols -> Cols]
        /\ \A c, d \in Cols : place[c] = place[d] => c = d
    BY DEF Places
  <1>2. n - 1 \in Cols /\ n - 1 \in Nat
    BY ColumnsAssumption DEF Cols
  <1>3. col \in Cols /\ place[col] = n - 1
    <2>1. place \in Injection(Cols, Cols)
      BY <1>1 DEF Injection, IsInjective
    <2>2. place \in Surjection(Cols, Cols)
      BY <2>1, ColsAreFinite, FS_Injection
    <2>3. \E c \in Cols : place[c] = n - 1
      BY <1>2, <2>2 DEF Surjection
    <2> QED
      BY <2>3 DEF ColumnAt
  <1>4. /\ g \in Hints /\ g.width = h.width /\ g.show = h.show
        /\ \A c \in Cols : place[c] < n - 1 => c < Len(g.order) /\ g.order[c + 1] = place[c]
    BY DEF UpToPlace
  <1> HIDE DEF col
  <1>5. /\ new \in Hints /\ new.width = g.width /\ new.show = g.show
        /\ Given(new.order, Nat, g.order, col, n - 1, 1)
    BY <1>2, <1>3, <1>4, OrderSetIs
  <1>6. GivePlace(g, <<col, n - 1>>) = new
    BY DEF GivePlace
  <1> HIDE DEF new
  <1>7. ASSUME NEW c \in Cols, place[c] < n
        PROVE  c < Len(new.order) /\ new.order[c + 1] = place[c]
    <2>1. /\ Len(new.order) = IF col < Len(g.order) THEN Len(g.order) ELSE col + 1
          /\ new.order[col + 1] = n - 1
          /\ \A i \in 1 .. Len(new.order) :
                 i # col + 1 => new.order[i] = IF i <= Len(g.order) THEN g.order[i] ELSE 1
      BY <1>5, Zenon DEF Given
    <2>2. /\ c \in Nat /\ col \in Nat /\ place[c] \in Nat
          /\ Len(g.order) \in Nat
      <3>1. g.order \in Seq(Nat)
        BY <1>4 DEF Hints
      <3> QED
        BY <1>1, <1>3, <3>1, ColsAreFinite
    <2>3. CASE c = col
      <3>1. c < Len(new.order)
        BY <2>1, <2>2, <2>3
      <3> QED
        BY <1>3, <2>1, <2>3, <3>1
    <2>4. CASE c # col
      <3>1. place[c] < n - 1
        <4>1. place[c] # n - 1
          BY <1>1, <1>3, <2>4
        <4> QED
          BY <1>2, <1>7, <2>2, <4>1
      <3>2. c < Len(g.order) /\ g.order[c + 1] = place[c]
        BY <1>4, <3>1
      <3>3. c < Len(new.order)
        BY <2>1, <2>2, <3>2
      <3>4. Len(new.order) \in Nat
        BY <2>1, <2>2
      <3>5. c + 1 \in 1 .. Len(new.order) /\ c + 1 # col + 1 /\ c + 1 <= Len(g.order)
        BY <2>2, <2>4, <3>2, <3>3, <3>4
      <3> QED
        BY <2>1, <3>2, <3>3, <3>5
    <2> QED
      BY <2>3, <2>4
  <1> QED
    BY <1>4, <1>5, <1>6, <1>7 DEF UpToPlace, col

LEMMA PlacedUpToIs ==
    ASSUME NEW h \in Hints, NEW place \in Places, NEW n \in 0 .. ColumnCount
    PROVE  PlacedUpTo(h, place, n) \in UpToPlace(h, place, n)
  <1> DEFINE seq == [i \in 1 .. n |-> <<ColumnAt(place, i - 1), i - 1>>]
             S == [i \in 0 .. n |-> UpToPlace(h, place, i)]
  <1>1. n \in Nat /\ n <= ColumnCount
    BY ColumnsAssumption
  <1>2. h \in S[0]
    <2>1. \A c \in Cols : ~(place[c] < 0)
      <3>1. \A c \in Cols : place[c] \in Nat
        BY ColsAreFinite DEF Places
      <3> QED
        BY <3>1
    <2>2. h \in UpToPlace(h, place, 0)
      BY <2>1 DEF UpToPlace
    <2> QED
      BY <1>1, <2>2
  <1>3. ASSUME NEW i \in 1 .. n, NEW g \in S[i - 1]
        PROVE  GivePlace(g, seq[i]) \in S[i]
    <2>1. i \in 1 .. ColumnCount /\ i \in 0 .. n /\ i - 1 \in 0 .. n
      BY <1>1, ColumnsAssumption
    <2>2. g \in UpToPlace(h, place, i - 1)
      BY <2>1
    <2> QED
      BY <2>1, <2>2, PlaceGiven
  <1> DEFINE r == Placing!Fold(h, seq)
  <1>4. r \in S[n]
    <2>1. DOMAIN seq = 1 .. n
      OBVIOUS
    <2> HIDE DEF S, seq
    <2> QED
      BY <1>1, <1>2, <1>3, <2>1, Placing!FoldReaches
  <1>5. FoldLeft(GivePlace, h, seq) = r
    BY DEF FoldLeft, MapThenFoldSet, Max, Placing!Fold, Placing!Folds, Placing!Largest
  <1>6. PlacedUpTo(h, place, n) = r
    BY <1>5 DEF PlacedUpTo
  <1>7. S[n] = UpToPlace(h, place, n)
    BY <1>1
  <1> QED
    BY <1>4, <1>6, <1>7

(* A column with a place has as many columns in front of it: their places  *)
(* are the smaller ones.                                                   *)
LEMMA PlacedIs ==
    ASSUME NEW h \in Hints, NEW place \in Places
    PROVE  /\ Placed(h, place) \in Hints
           /\ Arranged(Placed(h, place)) = [Arranged(h) EXCEPT !.place = place]
  <1> DEFINE g == Placed(h, place)
             a == Arranged(h)
  <1>1. /\ place \in [Cols -> Cols]
        /\ \A c, d \in Cols : place[c] = place[d] => c = d
    BY DEF Places
  <1>2. g \in UpToPlace(h, place, ColumnCount)
    BY ColumnsAssumption, PlacedUpToIs DEF Placed
  <1>3. /\ g \in Hints /\ g.width = h.width /\ g.show = h.show
        /\ \A c \in Cols : place[c] < ColumnCount =>
              c < Len(g.order) /\ g.order[c + 1] = place[c]
    BY <1>2 DEF UpToPlace
  <1>4. ASSUME NEW c \in Cols
        PROVE  OrderHint(g, c) = place[c]
    <2>1. place[c] < ColumnCount
      <3> DEFINE p == place[c]
      <3>1. p \in Cols
        BY <1>1
      <3> HIDE DEF p
      <3>2. p < ColumnCount
        BY <3>1, ColumnsAssumption DEF Cols
      <3> QED
        BY <3>2 DEF p
    <2> HIDE DEF g
    <2> QED
      BY <1>3, <2>1 DEF OrderHint
  <1> HIDE DEF g
  <1>5. Arranged(g).width = a.width /\ Arranged(g).hidden = a.hidden
    BY <1>3 DEF Arranged, WidthHint, ShowHint
  <1>6. Arranged(g).place = place
    <2>1. place \in Injection(Cols, Cols)
      BY <1>1 DEF Injection, IsInjective
    <2>2. place \in Surjection(Cols, Cols)
      BY <2>1, ColsAreFinite, FS_Injection
    <2>3. ASSUME NEW c \in Cols
          PROVE  Cardinality(InFrontOf(g, c)) = place[c]
      <3> DEFINE front == 0 .. place[c] - 1
                 f == [d \in InFrontOf(g, c) |-> place[d]]
      <3>1. place[c] \in Nat /\ place[c] < ColumnCount /\ front \subseteq Cols
        <4>1. place[c] \in Cols
          BY <1>1
        <4> DEFINE p == place[c]
        <4> HIDE DEF p
        <4>2. p \in Cols => p \in Nat /\ p < ColumnCount /\ 0 .. p - 1 \subseteq Cols
          BY ColumnsAssumption DEF Cols
        <4> QED
          BY <4>1, <4>2 DEF p
      <3>2. InFrontOf(g, c) = {d \in Cols : place[d] < place[c]}
        <4>1. \A d \in Cols : place[d] \in Nat
          BY <1>1, ColsAreFinite
        <4>2. \A d \in Cols : Before(g, d, c) <=> place[d] < place[c]
          BY <1>1, <1>4, <4>1, ColsAreFinite DEF Before
        <4> QED
          BY <4>2 DEF InFrontOf
      <3>3. \A d \in InFrontOf(g, c) : place[d] \in front /\ d \in Cols
        <4>1. ASSUME NEW d \in InFrontOf(g, c)
              PROVE  place[d] \in front /\ d \in Cols
          <5>1. d \in Cols /\ place[d] < place[c]
            BY <3>2
          <5>2. place[d] \in Nat
            BY <1>1, <5>1, ColsAreFinite
          <5> QED
            BY <3>1, <5>1, <5>2
        <4> QED
          BY <4>1
      <3>4. \A p \in front : \E d \in InFrontOf(g, c) : place[d] = p
        <4>1. ASSUME NEW p \in front PROVE \E d \in InFrontOf(g, c) : place[d] = p
          <5>1. p \in Cols /\ p < place[c]
            BY <3>1
          <5>2. PICK d \in Cols : place[d] = p
            BY <2>2, <5>1 DEF Surjection
          <5> QED
            BY <3>2, <5>1, <5>2
        <4> QED
          BY <4>1
      <3> HIDE DEF front
      <3>5. f \in Bijection(InFrontOf(g, c), front)
        BY <1>1, <3>3, <3>4 DEF Bijection, Injection, Surjection, IsInjective
      <3>6. Cardinality(front) = Cardinality(InFrontOf(g, c))
        <4>1. ExistsBijection(InFrontOf(g, c), front)
          BY <3>5 DEF ExistsBijection
        <4>2. IsFiniteSet(InFrontOf(g, c))
          BY InFrontOfIs
        <4> QED
          BY <4>1, <4>2, FS_Bijection
      <3>7. Cardinality(front) = place[c]
        BY <3>1, FS_Interval DEF front
      <3> QED
        BY <3>6, <3>7
    <2>4. [c \in Cols |-> Cardinality(InFrontOf(g, c))] = place
      BY <1>1, <2>3
    <2> QED
      BY <2>4 DEF Arranged, InFrontOf
  <1>7. Arranged(g) = [width |-> Arranged(g).width, hidden |-> Arranged(g).hidden,
                       place |-> Arranged(g).place]
        /\ a = [width |-> a.width, hidden |-> a.hidden, place |-> a.place]
    BY DEF Arranged
  <1> HIDE DEF a
  <1>8. Arranged(g) = [a EXCEPT !.place = place]
    BY <1>5, <1>6, <1>7
  <1> QED
    BY <1>3, <1>8 DEF g, a

(* Dragging a column leaves a place for each.                              *)
LEMMA DraggedIs ==
    ASSUME NEW place \in Places, NEW from \in Cols, NEW to \in Cols
    PROVE  Dragged(place, from, to) \in Places
  <1>1. /\ place \in [Cols -> Cols] /\ \A c \in Cols : place[c] \in Cols
        /\ \A c, d \in Cols : place[c] = place[d] => c = d
    BY DEF Places
  <1> DEFINE new(p) == CASE p = from -> to
                         [] from < p /\ p <= to -> p - 1
                         [] to <= p /\ p < from -> p + 1
                         [] OTHER -> p
  <1>2. ASSUME NEW p \in Cols
        PROVE  /\ p = from => new(p) = to
               /\ from < p /\ p <= to => new(p) = p - 1
               /\ to <= p /\ p < from => new(p) = p + 1
               /\ p # from /\ ~(from < p /\ p <= to) /\ ~(to <= p /\ p < from) => new(p) = p
    BY ColumnsAssumption DEF Cols
  <1>3. Dragged(place, from, to) = [c \in Cols |-> new(place[c])]
    BY DEF Dragged
  <1> HIDE DEF new
  <1>4. ASSUME NEW p \in Cols
        PROVE  new(p) \in Cols
    <2>1. /\ p \in Nat /\ from \in Nat /\ to \in Nat
          /\ p < ColumnCount /\ from < ColumnCount /\ to < ColumnCount
      BY ColumnsAssumption DEF Cols
    <2>2. CASE p = from
      BY <1>2, <2>2
    <2>3. CASE from < p /\ p <= to
      BY <1>2, <2>1, <2>3, ColumnsAssumption DEF Cols
    <2>4. CASE to <= p /\ p < from
      BY <1>2, <2>1, <2>4, ColumnsAssumption DEF Cols
    <2>5. CASE p # from /\ ~(from < p /\ p <= to) /\ ~(to <= p /\ p < from)
      BY <1>2, <2>5
    <2> QED
      BY <2>2, <2>3, <2>4, <2>5
  <1>5. ASSUME NEW p \in Cols, NEW q \in Cols, new(p) = new(q)
        PROVE  p = q
    <2>1. p \in Nat /\ q \in Nat /\ from \in Nat /\ to \in Nat
      BY ColsAreFinite
    <2>2. CASE p = from
      BY <1>2, <1>5, <2>1, <2>2
    <2>3. CASE q = from
      BY <1>2, <1>5, <2>1, <2>3
    <2>4. CASE p # from /\ q # from
      BY <1>2, <1>5, <2>1, <2>4
    <2> QED
      BY <2>2, <2>3, <2>4
  <1> QED
    BY <1>1, <1>3, <1>4, <1>5 DEF Places

-----------------------------------------------------------------------------
(* The defaults a parser proposes *)

LEMMA DefaultsAre ==
    /\ DefaultHints \in Hints /\ ProposedBefore(ColumnCount + 2) = DefaultHints
    /\ ProposedBefore(0) = NoHints
  <1>1. ColumnCount \in Nat /\ ColumnCount > 0
    BY ColumnsAssumption
  <1> DEFINE widths == [i \in 1 .. ColumnCount |-> DefaultWidth[i - 1]]
  <1>2. widths \in Seq(Int) /\ Len(widths) = ColumnCount
    <2>1. \A i \in 1 .. ColumnCount : i - 1 \in 0 .. ColumnCount - 1
      BY <1>1
    <2>2. \A i \in 1 .. ColumnCount : DefaultWidth[i - 1] \in Int
      BY <2>1, ColumnsAssumption
    <2> QED
      BY <1>1, <2>2
  <1>3. DefaultHints \in Hints
    <2>1. DefaultHints = [width |-> widths, show |-> <<>>, order |-> DefaultOrder]
      BY DEF DefaultHints
    <2> HIDE DEF widths
    <2> QED
      BY <1>1, <1>2, <2>1, ColumnsAssumption DEF Hints
  <1>4. ProposedBefore(ColumnCount + 2) = DefaultHints
    BY <1>1 DEF ProposedBefore, DefaultHints
  <1>5. ProposedBefore(0) = NoHints
    <2>1. 1 .. 0 = {}
      OBVIOUS
    <2>2. [i \in 1 .. 0 |-> DefaultWidth[i - 1]] = <<>>
      BY <2>1
    <2>3. ~(0 > ColumnCount + 1)
      BY <1>1
    <2> QED
      BY <2>2, <2>3 DEF ProposedBefore, NoHints
  <1> QED
    BY <1>3, <1>4, <1>5

LEMMA ProposedType ==
    ASSUME NEW h \in Hints, NEW step \in 0 .. ColumnCount + 1
    PROVE  Proposed(h, step) \in Hints
  <1>1. CASE step = 0
    BY <1>1 DEF Proposed
  <1>2. CASE step # 0 /\ step <= ColumnCount
    <2> DEFINE col == step - 1
    <2>1. col \in Cols /\ DefaultWidth[col] \in Nat
      BY <1>2, ColumnsAssumption DEF Cols
    <2>2. Proposed(h, step) = WidthSet(h, col, DefaultWidth[col])
      BY <1>2 DEF Proposed
    <2> HIDE DEF col
    <2> QED
      BY <2>1, <2>2, WidthSetIs
  <1>3. CASE step # 0 /\ ~(step <= ColumnCount)
    <2>1. Proposed(h, step) = [h EXCEPT !.order = DefaultOrder]
      BY <1>3 DEF Proposed
    <2> QED
      BY <2>1, ColumnsAssumption DEF Hints
  <1> QED
    BY <1>1, <1>2, <1>3

(* Each step proposes what the last one left.                              *)
LEMMA ProposedIs ==
    ASSUME NEW step \in 0 .. ColumnCount + 1, ProposedBefore(step) \in Hints
    PROVE  Proposed(ProposedBefore(step), step) = ProposedBefore(step + 1)
  <1> DEFINE h == ProposedBefore(step)
  <1>1. ColumnCount \in Nat /\ step \in Nat
    BY ColumnsAssumption
  <1>2. CASE step = 0
    BY <1>1, <1>2, ColumnsAssumption DEF Proposed, ProposedBefore
  <1>3. CASE step # 0 /\ step <= ColumnCount
    <2> DEFINE col == step - 1
               list == [i \in 1 .. col |-> DefaultWidth[i - 1]]
               new == With(list, col, DefaultWidth[col], -1)
               more == [i \in 1 .. step |-> DefaultWidth[i - 1]]
    <2>1. /\ col \in Cols /\ col \in Nat /\ col + 1 = step
          /\ DefaultWidth[col] \in Int /\ -1 \in Int
          /\ col < ColumnCount
      BY <1>3, ColumnsAssumption DEF Cols
    <2>2. h = [width |-> list, show |-> <<>>, order |-> <<>>]
      BY <1>1, <1>3 DEF ProposedBefore
    <2>3. ProposedBefore(step + 1) = [width |-> more, show |-> <<>>, order |-> <<>>]
      <3> DEFINE next == step + 1
      <3>1. /\ next # 0 /\ ~(next > ColumnCount + 1)
            /\ (IF next > ColumnCount THEN ColumnCount ELSE next - 1) = step
        BY <1>1, <1>3
      <3> HIDE DEF next
      <3>2. /\ ProposedBefore(next).width = more
            /\ ProposedBefore(next).show = <<>> /\ ProposedBefore(next).order = <<>>
        BY <3>1 DEF ProposedBefore
      <3>3. ProposedBefore(next) = [width |-> ProposedBefore(next).width,
                                    show |-> ProposedBefore(next).show,
                                    order |-> ProposedBefore(next).order]
        BY DEF ProposedBefore
      <3> QED
        BY <3>2, <3>3 DEF next
    <2>4. /\ list \in Seq(Int) /\ Len(list) = col
          /\ \A i \in 1 .. col : list[i] = DefaultWidth[i - 1]
      <3>1. \A i \in 1 .. col : DefaultWidth[i - 1] \in Int
        <4>1. \A i \in 1 .. col : i - 1 \in 0 .. ColumnCount - 1
          BY <2>1, <1>1
        <4> QED
          BY <4>1, ColumnsAssumption
      <3> HIDE DEF col
      <3> QED
        BY <2>1, <3>1
    <2>5. /\ more \in Seq(Int) /\ Len(more) = step
          /\ \A i \in 1 .. step : more[i] = DefaultWidth[i - 1]
      <3>1. \A i \in 1 .. step : DefaultWidth[i - 1] \in Int
        <4>1. \A i \in 1 .. step : i - 1 \in 0 .. ColumnCount - 1
          BY <1>1, <1>3
        <4> QED
          BY <4>1, ColumnsAssumption
      <3> QED
        BY <1>1, <3>1
    <2>6. Proposed(h, step) = [h EXCEPT !.width = With(@, col, DefaultWidth[col], -1)]
      BY <1>3 DEF Proposed, WidthSet
    <2> HIDE DEF list, more, h
    <2>7. Proposed(h, step) = [width |-> new, show |-> <<>>, order |-> <<>>]
      BY <2>2, <2>6
    <2>8. Given(new, Int, list, col, DefaultWidth[col], -1)
      <3> HIDE DEF col
      <3> QED
        BY <1>1, <2>1, <2>4, WithIs
    <2> HIDE DEF new, col
    <2>9. new \in Seq(Int) /\ Len(new) = step /\ new[step] = DefaultWidth[col]
          /\ \A i \in 1 .. step : i # step => new[i] = IF i <= Len(list) THEN list[i] ELSE -1
      BY <2>1, <2>4, <2>8 DEF Given
    <2>10. \A i \in 1 .. step : new[i] = more[i]
      <3>1. more[step] = DefaultWidth[col]
        BY <1>1, <1>3, <2>1, <2>5 DEF col
      <3>2. ASSUME NEW i \in 1 .. step, i # step
            PROVE  new[i] = more[i]
        <4>1. i \in 1 .. col /\ i <= Len(list)
          BY <2>1, <2>4, <3>2
        <4> QED
          BY <2>4, <2>5, <2>9, <3>2, <4>1
      <3> QED
        BY <2>9, <3>1, <3>2
    <2>11. new = more
      BY <2>5, <2>9, <2>10, SeqEqual
    <2> QED
      BY <2>3, <2>7, <2>11 DEF h
  <1>4. CASE step # 0 /\ ~(step <= ColumnCount)
    <2>1. step = ColumnCount + 1
      BY <1>1, <1>4
    <2>2. Proposed(h, step) = [h EXCEPT !.order = DefaultOrder]
      BY <1>4 DEF Proposed
    <2>3. h = [width |-> [i \in 1 .. ColumnCount |-> DefaultWidth[i - 1]],
               show |-> <<>>, order |-> <<>>]
      BY <1>1, <2>1 DEF ProposedBefore
    <2>4. ProposedBefore(step + 1) = [width |-> [i \in 1 .. ColumnCount |-> DefaultWidth[i - 1]],
                                      show |-> <<>>, order |-> DefaultOrder]
      BY <1>1, <2>1 DEF ProposedBefore
    <2> HIDE DEF h
    <2>5. Proposed(h, step) = ProposedBefore(step + 1)
      BY <2>2, <2>3, <2>4
    <2> QED
      BY <2>5 DEF h
  <1> QED
    BY <1>2, <1>3, <1>4

-----------------------------------------------------------------------------
(* The headers follow the hints *)

LEMMA InitHeader == HeaderInit => HeaderInv
  <1> SUFFICES ASSUME HeaderInit PROVE HeaderInv
    OBVIOUS
  <1>1. Arranged(NoHints) \in Looks /\ Arranged(DefaultHints) \in Looks
    BY ArrangedIs, NoHintsAreHints, DefaultsAre
  <1>2. HeaderTypes
    <2>1. changes \in 0 .. MaxChanges /\ open \subseteq Windows
      BY ColumnsAssumption DEF HeaderInit
    <2>2. hints \in [Windows -> Hints] /\ look \in [Windows -> Looks] /\ last \in Looks
      BY <1>1, NoHintsAreHints DEF HeaderInit
    <2>3. loaded \in [Windows -> BOOLEAN] /\ torn = "nothing"
      BY DEF HeaderInit
    <2>4. settings = <<>> /\ opening = <<>>
      BY DEF HeaderInit
    <2> QED
      BY <2>1, <2>2, <2>3, <2>4, Zenon DEF HeaderTypes
  <1>3. HintsFollowHeader /\ SettingsOfLast
    BY DEF HeaderInit, HintsFollowHeader, SettingsOfLast
  <1> QED
    BY <1>2, <1>3 DEF HeaderInv

LEMMA RestoreKeepsHeader ==
    ASSUME HeaderInv, NEW w \in Windows, Restore(w)
    PROVE  HeaderInv'
  <1>1. /\ opening = <<>> /\ w \notin open
        /\ hints' = [hints EXCEPT ![w] = IF settings = <<>> THEN NoHints ELSE settings[1]]
        /\ loaded' = [loaded EXCEPT ![w] = settings # <<>>]
        /\ opening' = <<w, 0>>
        /\ settings' = settings /\ open' = open /\ look' = look
        /\ changes' = changes /\ last' = last /\ torn' = torn
    BY DEF Restore
  <1>2. HeaderTypes /\ HintsFollowHeader
    BY DEF HeaderInv
  <1>3. /\ opening'[1] = w /\ opening'[2] = 0 /\ opening' # <<>>
        /\ hints'[w] = IF settings = <<>> THEN NoHints ELSE settings[1]
        /\ loaded'[w] <=> settings # <<>>
        /\ \A v \in open : v \in Windows /\ hints'[v] = hints[v]
    BY <1>1, <1>2 DEF HeaderTypes
  <1>4. HeaderTypes'
    <2>1. 0 \in 0 .. ColumnCount + 2
      BY ColumnsAssumption
    <2>2. (IF settings = <<>> THEN NoHints ELSE settings[1]) \in Hints
      BY <1>2, NoHintsAreHints DEF HeaderTypes
    <2>3. (opening = <<>> \/ \E v \in Windows, step \in 0 .. ColumnCount + 2 : opening = <<v, step>>)'
      BY <1>1, <2>1
    <2> QED
      BY <1>1, <1>2, <2>2, <2>3 DEF HeaderTypes
  <1>5. HintsFollowHeader'
    BY <1>1, <1>2, <1>3 DEF HintsFollowHeader
  <1>6. ASSUME SettingsOfLast
        PROVE  SettingsOfLast'
    <2>1. settings # <<>> => settings = <<settings[1]>>
      BY <1>2 DEF HeaderTypes
    <2> QED
      BY <1>1, <1>3, <1>6, <2>1, DefaultsAre DEF SettingsOfLast, SameHeader
  <1> QED
    BY <1>1, <1>4, <1>5, <1>6 DEF HeaderInv

LEMMA ProposeKeepsHeader ==
    ASSUME HeaderInv, Propose
    PROVE  HeaderInv'
  <1>1. HeaderTypes /\ HintsFollowHeader
    BY DEF HeaderInv
  <1>2. /\ opening # <<>> /\ opening[2] <= ColumnCount + 1
        /\ opening' = [opening EXCEPT ![2] = @ + 1]
        /\ open' = open /\ loaded' = loaded /\ look' = look
        /\ changes' = changes /\ last' = last /\ torn' = torn
    BY DEF Propose
  <1>3. PICK w \in Windows, step \in 0 .. ColumnCount + 2 : opening = <<w, step>>
    BY <1>1, <1>2 DEF HeaderTypes
  <1>4. /\ step \in 0 .. ColumnCount + 1 /\ step + 1 \in 0 .. ColumnCount + 2
        /\ opening' = <<w, step + 1>>
    BY <1>2, <1>3, ColumnsAssumption
  <1>5. opening[1] = w /\ opening[2] = step /\ opening'[1] = w /\ opening'[2] = step + 1
    BY <1>3, <1>4
  <1>6. opening' # <<>>
    BY <1>4
  <1>7. hints[w] \in Hints /\ w \notin open /\ loaded[w] \in BOOLEAN
    BY <1>1, <1>2, <1>5 DEF HeaderTypes, HintsFollowHeader
  <1>8. CASE loaded[w] /\ step > 0
    <2>1. hints' = hints /\ settings' = settings
      BY <1>2, <1>5, <1>8 DEF Propose
    <2>2. (opening = <<>> \/ \E v \in Windows, s \in 0 .. ColumnCount + 2 : opening = <<v, s>>)'
      BY <1>4
    <2>3. HeaderTypes'
      BY <1>1, <1>2, <2>1, <2>2 DEF HeaderTypes
    <2>4. HintsFollowHeader'
      BY <1>1, <1>2, <1>5, <1>7, <2>1 DEF HintsFollowHeader
    <2>5. ASSUME SettingsOfLast
          PROVE  SettingsOfLast'
      BY <1>2, <1>5, <1>6, <1>8, <2>1, <2>5 DEF SettingsOfLast, SameHeader
    <2> QED
      BY <1>2, <2>3, <2>4, <2>5 DEF HeaderInv
  <1>9. CASE ~(loaded[w] /\ step > 0)
    <2> DEFINE h == Proposed(hints[w], step)
    <2>1. hints' = [hints EXCEPT ![w] = h] /\ settings' = <<h>>
      BY <1>2, <1>5, <1>9 DEF Propose, Store
    <2>2. h \in Hints
      BY <1>4, <1>7, ProposedType
    <2>3. loaded[w] => h = hints[w]
      BY <1>4, <1>9 DEF Proposed
    <2>4. ASSUME hints[w] = ProposedBefore(step)
          PROVE  h = ProposedBefore(step + 1)
      <3>1. ProposedBefore(step) \in Hints
        BY <1>7, <2>4
      <3>2. Proposed(ProposedBefore(step), step) = ProposedBefore(step + 1)
        BY <1>4, <3>1, ProposedIs
      <3> QED
        BY <2>4, <3>2
    <2> HIDE DEF h
    <2>5. /\ hints'[w] = h /\ settings'[1] = h /\ settings' # <<>>
          /\ \A v \in open : hints'[v] = hints[v]
      BY <1>1, <1>7, <2>1 DEF HeaderTypes
    <2>6. (opening = <<>> \/ \E v \in Windows, s \in 0 .. ColumnCount + 2 : opening = <<v, s>>)'
      BY <1>4
    <2>7. HeaderTypes'
      BY <1>1, <1>2, <2>1, <2>2, <2>5, <2>6 DEF HeaderTypes
    <2>8. HintsFollowHeader'
      BY <1>1, <1>2, <1>5, <1>7, <2>5 DEF HintsFollowHeader
    <2>9. ASSUME SettingsOfLast
          PROVE  SettingsOfLast'
      <3>1. CASE loaded[w]
        <4>1. /\ settings = <<hints[w]>>
              /\ settings # <<>> => SameHeader(Arranged(settings[1]), last, torn)
          BY <1>2, <1>5, <2>9, <3>1 DEF SettingsOfLast
        <4>2. SameHeader(Arranged(h), last, torn)
          BY <2>3, <3>1, <4>1
        <4>3. SameHeader(Arranged(h), last', torn')
          BY <1>2, <2>1, <4>2 DEF SameHeader
        <4> QED
          BY <1>2, <1>5, <1>6, <2>1, <2>5, <3>1, <4>3 DEF SettingsOfLast
      <3>2. CASE ~loaded[w]
        <4>1. /\ torn = "nothing"
              /\ last = Arranged(DefaultHints) /\ hints[w] = ProposedBefore(step)
          BY <1>2, <1>5, <2>9, <3>2 DEF SettingsOfLast
        <4>2. h = ProposedBefore(step + 1) /\ step + 1 # 0
          BY <1>4, <2>4, <4>1
        <4> QED
          BY <1>2, <1>5, <1>6, <2>1, <2>5, <3>2, <4>1, <4>2 DEF SettingsOfLast
      <3> QED
        BY <3>1, <3>2
    <2> QED
      BY <1>2, <2>7, <2>8, <2>9 DEF HeaderInv
  <1> QED
    BY <1>8, <1>9

LEMMA BuildKeepsHeader ==
    ASSUME HeaderInv, BuildWindow
    PROVE  /\ HeaderInv'
           /\ \A w \in Windows :
                 w \in open' \ open /\ torn # "defaults" => SameHeader(look'[w], last, torn)
  <1>1. HeaderTypes /\ HintsFollowHeader
    BY DEF HeaderInv
  <1>2. /\ opening # <<>> /\ opening[2] = ColumnCount + 2
        /\ look' = [look EXCEPT ![opening[1]] = Arranged(hints[opening[1]])]
        /\ open' = open \cup {opening[1]}
        /\ opening' = <<>>
        /\ settings' = settings /\ hints' = hints /\ loaded' = loaded
        /\ changes' = changes /\ last' = last /\ torn' = torn
    BY DEF BuildWindow
  <1>3. PICK w \in Windows, step \in 0 .. ColumnCount + 2 : opening = <<w, step>>
    BY <1>1, <1>2 DEF HeaderTypes
  <1>4. opening[1] = w /\ hints[w] \in Hints /\ w \notin open /\ open \subseteq Windows
    BY <1>1, <1>2, <1>3 DEF HeaderTypes, HintsFollowHeader
  <1>5. Arranged(hints[w]) \in Looks
    BY <1>4, ArrangedIs
  <1>6. /\ look' \in [Windows -> Looks]
        /\ look'[w] = Arranged(hints[w])
        /\ \A v \in open : look'[v] = look[v]
    BY <1>1, <1>2, <1>4, <1>5 DEF HeaderTypes
  <1>7. HeaderTypes'
    BY <1>1, <1>2, <1>4, <1>6 DEF HeaderTypes
  <1>8. HintsFollowHeader'
    BY <1>1, <1>2, <1>4, <1>6 DEF HintsFollowHeader
  <1>9. ASSUME SettingsOfLast
        PROVE  SettingsOfLast' /\ SameHeader(Arranged(hints[w]), last, torn)
    <2>1. CASE loaded[w]
      <3>1. /\ settings = <<hints[w]>>
            /\ SameHeader(Arranged(hints[w]), last, torn)
        <4>1. /\ settings = <<hints[w]>>
              /\ settings # <<>> => SameHeader(Arranged(settings[1]), last, torn)
          BY <1>2, <1>4, <1>9, <2>1 DEF SettingsOfLast
        <4> QED
          BY <4>1
      <3>2. SameHeader(Arranged(hints[w]), last', torn')
        BY <1>2, <3>1 DEF SameHeader
      <3> QED
        BY <1>2, <3>1, <3>2 DEF SettingsOfLast
    <2>2. CASE ~loaded[w]
      <3>1. /\ torn = "nothing"
            /\ last = Arranged(DefaultHints) /\ hints[w] = ProposedBefore(ColumnCount + 2)
            /\ settings = IF ColumnCount + 2 = 0 THEN <<>> ELSE <<hints[w]>>
        BY <1>2, <1>4, <1>9, <2>2 DEF SettingsOfLast
      <3>2. ColumnCount + 2 # 0
        BY ColumnsAssumption
      <3>3. Arranged(hints[w]) = last /\ settings = <<hints[w]>>
        BY <3>1, <3>2, DefaultsAre
      <3>4. SameHeader(Arranged(hints[w]), last, torn) /\ SameHeader(Arranged(hints[w]), last', torn')
        BY <1>2, <3>3 DEF SameHeader
      <3> QED
        BY <1>2, <3>3, <3>4 DEF SettingsOfLast
    <2> QED
      BY <2>1, <2>2
  <1> QED
    BY <1>2, <1>4, <1>6, <1>7, <1>8, <1>9 DEF HeaderInv

(* What the user changes in the header is changed in the hints in the same *)
(* way.                                                                    *)
LEMMA ChangeKeepsHeader ==
    ASSUME HeaderInv, NEW w \in Windows, NEW newLook, NEW h \in Hints,
           newLook = Arranged(h), Change(w, newLook, h)
    PROVE  HeaderInv' /\ open' = open
  <1>1. HeaderTypes /\ HintsFollowHeader
    BY DEF HeaderInv
  <1>2. /\ opening = <<>> /\ w \in open /\ changes < MaxChanges
        /\ look' = [look EXCEPT ![w] = newLook]
        /\ hints' = [hints EXCEPT ![w] = h] /\ settings' = <<h>>
        /\ last' = newLook /\ changes' = changes + 1
        /\ opening' = opening /\ open' = open /\ loaded' = loaded /\ torn' = "nothing"
    BY DEF Change, Store
  <1>3. newLook \in Looks
    BY ArrangedIs
  <1>4. changes' \in 0 .. MaxChanges
    BY <1>1, <1>2, ColumnsAssumption DEF HeaderTypes
  <1>5. settings'[1] = h /\ settings' # <<>>
    BY <1>2
  <1>6. HeaderTypes'
    BY <1>1, <1>2, <1>3, <1>4, <1>5 DEF HeaderTypes
  <1>7. HintsFollowHeader'
    BY <1>1, <1>2 DEF HintsFollowHeader, HeaderTypes
  <1>8. SettingsOfLast'
    BY <1>2, <1>5 DEF SettingsOfLast, SameHeader
  <1> QED
    BY <1>2, <1>6, <1>7, <1>8 DEF HeaderInv

(* A change that breaks off has to leave what the header looks like with   *)
(* the hints it has stored.                                                *)
LEMMA BreakOffKeepsHeader ==
    ASSUME HeaderInv, NEW w \in Windows, NEW h \in Hints, BreakOff(w, h),
           last' \in Looks, torn' \in {"nothing", "places"},
           SameHeader(Arranged(h), last', torn')
    PROVE  HeaderInv' /\ open' \subseteq open
  <1>1. HeaderTypes /\ HintsFollowHeader
    BY DEF HeaderInv
  <1>2. /\ opening = <<>> /\ changes < MaxChanges
        /\ settings' = <<h>> /\ open' = {} /\ changes' = changes + 1
        /\ opening' = opening /\ hints' = hints /\ loaded' = loaded /\ look' = look
    BY DEF BreakOff
  <1>3. changes' \in 0 .. MaxChanges
    BY <1>1, <1>2, ColumnsAssumption DEF HeaderTypes
  <1>4. settings'[1] = h /\ settings' # <<>>
    BY <1>2
  <1>5. HeaderTypes'
    BY <1>1, <1>2, <1>3, <1>4 DEF HeaderTypes
  <1>6. HintsFollowHeader'
    BY <1>2 DEF HintsFollowHeader
  <1>7. SettingsOfLast'
    BY <1>2, <1>4 DEF SettingsOfLast
  <1> QED
    BY <1>2, <1>5, <1>6, <1>7 DEF HeaderInv

LEMMA UserKeepsHeader ==
    ASSUME HeaderInv, NEW w \in Windows, NEW col \in Cols,
           \/ \E size \in Sizes : ResizeColumn(w, col, size)
           \/ ShowColumn(w, col)
           \/ HideColumn(w, col)
           \/ SizeColumnTorn(w, col)
    PROVE  HeaderInv' /\ open' \subseteq open
  <1>1. hints[w] \in Hints /\ look[w] \in Looks
    BY DEF HeaderInv, HeaderTypes
  <1> DEFINE h == hints[w]
  <1>2. ASSUME w \in open PROVE look[w] = Arranged(h)
    BY <1>2 DEF HeaderInv, HintsFollowHeader
  <1>3. /\ look[w] = [width |-> look[w].width, hidden |-> look[w].hidden, place |-> look[w].place]
        /\ look[w].width \in [Cols -> Nat] /\ look[w].hidden \subseteq Cols
        /\ look[w].width[col] \in Nat
    BY <1>1 DEF Looks
  <1>4. ASSUME NEW size \in Sizes, ResizeColumn(w, col, size)
        PROVE  HeaderInv' /\ open' = open
    <2>1. /\ col \notin look[w].hidden
          /\ Change(w, [look[w] EXCEPT !.width[col] = size], Sized(h, col, size))
      BY <1>4 DEF ResizeColumn
    <2>2. size \in Nat /\ w \in open
      BY <2>1, ColumnsAssumption DEF Change
    <2>3. look[w].hidden \ {col} = look[w].hidden
      BY <2>1
    <2>4. [look[w] EXCEPT !.width[col] = size, !.hidden = @ \ {col}]
            = [look[w] EXCEPT !.width[col] = size]
      BY <1>3, <2>3
    <2>5. /\ Sized(h, col, size) \in Hints
          /\ Arranged(Sized(h, col, size)) = [look[w] EXCEPT !.width[col] = size]
      BY <1>1, <1>2, <2>2, <2>4, SizedIs
    <2> QED
      BY <2>1, <2>5, ChangeKeepsHeader
  <1>5. CASE ShowColumn(w, col)
    <2> DEFINE size == look[w].width[col]
    <2>1. Change(w, [look[w] EXCEPT !.hidden = @ \ {col}], Sized(h, col, size))
      BY <1>5 DEF ShowColumn
    <2>2. size \in Nat /\ w \in open
      BY <1>3, <2>1 DEF Change
    <2>3. [look[w] EXCEPT !.width[col] = size, !.hidden = @ \ {col}]
            = [look[w] EXCEPT !.hidden = @ \ {col}]
      <3>1. [look[w].width EXCEPT ![col] = size] = look[w].width
        BY <1>3
      <3> QED
        BY <1>3, <3>1
    <2>4. /\ Sized(h, col, size) \in Hints
          /\ Arranged(Sized(h, col, size)) = [look[w] EXCEPT !.hidden = @ \ {col}]
      <3>1. look[w] = Arranged(h)
        BY <1>2, <2>2
      <3> HIDE DEF size
      <3>2. /\ Sized(h, col, size) \in Hints
            /\ Arranged(Sized(h, col, size))
                 = [Arranged(h) EXCEPT !.width[col] = size, !.hidden = @ \ {col}]
        BY <1>1, <2>2, SizedIs
      <3> QED
        BY <2>3, <3>1, <3>2
    <2> QED
      BY <2>1, <2>4, ChangeKeepsHeader
  <1>6. CASE HideColumn(w, col)
    <2>1. Change(w, [look[w] EXCEPT !.hidden = @ \cup {col}], ShowSet(h, col, FALSE))
      BY <1>6 DEF HideColumn
    <2>2. w \in open
      BY <2>1 DEF Change
    <2>3. /\ ShowSet(h, col, FALSE) \in Hints
          /\ Arranged(ShowSet(h, col, FALSE)) = [look[w] EXCEPT !.hidden = @ \cup {col}]
      BY <1>1, <1>2, <2>2, HiddenIs
    <2> QED
      BY <2>1, <2>3, ChangeKeepsHeader
  <1>7. CASE SizeColumnTorn(w, col)
    <2> DEFINE g == ShowSet(h, col, TRUE)
    <2>1. /\ BreakOff(w, g) /\ w \in open
          /\ last' = [look[w] EXCEPT !.hidden = @ \ {col}] /\ torn' = "nothing"
      BY <1>7 DEF SizeColumnTorn, BreakOff
    <2>2. g \in Hints /\ Arranged(g) = [Arranged(h) EXCEPT !.hidden = @ \ {col}]
      BY <1>1, ShownIs
    <2>3. Arranged(g) = last' /\ last' \in Looks
      BY <1>2, <2>1, <2>2, ArrangedIs
    <2>4. SameHeader(Arranged(g), last', torn')
      BY <2>3 DEF SameHeader
    <2> QED
      BY <2>1, <2>2, <2>3, <2>4, BreakOffKeepsHeader
  <1> QED
    BY <1>4, <1>5, <1>6, <1>7

LEMMA MoveKeepsHeader ==
    ASSUME HeaderInv, NEW w \in Windows, NEW from \in Cols, NEW to \in Cols,
           MoveColumn(w, from, to)
    PROVE  HeaderInv' /\ open' = open
  <1> DEFINE h == hints[w]
             place == Dragged(look[w].place, from, to)
  <1>1. h \in Hints /\ look[w] \in Looks
    BY DEF HeaderInv, HeaderTypes
  <1>2. look[w].place \in Places
    BY <1>1 DEF Looks
  <1>3. place \in Places
    BY <1>2, DraggedIs
  <1>4. Change(w, [look[w] EXCEPT !.place = place], Placed(h, place))
    BY DEF MoveColumn
  <1>5. look[w] = Arranged(h)
    BY <1>4 DEF Change, HeaderInv, HintsFollowHeader
  <1> HIDE DEF place, h
  <1>6. /\ Placed(h, place) \in Hints
        /\ Arranged(Placed(h, place)) = [look[w] EXCEPT !.place = place]
    BY <1>1, <1>3, <1>5, PlacedIs
  <1> QED
    BY <1>4, <1>6, ChangeKeepsHeader

LEMMA MoveTornKeepsHeader ==
    ASSUME HeaderInv, NEW w \in Windows, NEW from \in Cols, NEW to \in Cols,
           MoveColumnTorn(w, from, to)
    PROVE  HeaderInv' /\ open' \subseteq open
  <1> DEFINE h == hints[w]
             place == Dragged(look[w].place, from, to)
  <1>1. h \in Hints /\ look[w] \in Looks
    BY DEF HeaderInv, HeaderTypes
  <1>2. place \in Places
    BY <1>1, DraggedIs DEF Looks
  <1>3. PICK n \in 1 .. ColumnCount - 1 : BreakOff(w, PlacedUpTo(h, place, n))
    BY DEF MoveColumnTorn
  <1>4. last' = look[w] /\ torn' = "places" /\ w \in open
    BY <1>3 DEF MoveColumnTorn, BreakOff
  <1>5. look[w] = Arranged(h)
    BY <1>4 DEF HeaderInv, HintsFollowHeader
  <1> HIDE DEF place, h
  <1>6. PlacedUpTo(h, place, n) \in UpToPlace(h, place, n)
    BY <1>1, <1>2, ColumnsAssumption, PlacedUpToIs
  <1> DEFINE g == PlacedUpTo(h, place, n)
  <1>7. g \in Hints /\ g.width = h.width /\ g.show = h.show
    BY <1>6 DEF UpToPlace
  <1> HIDE DEF g
  <1>8. Arranged(g).width = last'.width /\ Arranged(g).hidden = last'.hidden
    BY <1>4, <1>5, <1>7 DEF Arranged, WidthHint, ShowHint
  <1>9. SameHeader(Arranged(g), last', torn')
    BY <1>4, <1>8 DEF SameHeader
  <1> QED
    BY <1>1, <1>3, <1>4, <1>7, <1>9, BreakOffKeepsHeader DEF g

LEMMA CloseKeepsHeader ==
    ASSUME HeaderInv, EndProgram \/ \E w \in Windows : CloseWindow(w)
    PROVE  HeaderInv' /\ open' \subseteq open
  <1>1. HeaderTypes /\ HintsFollowHeader
    BY DEF HeaderInv
  <1>2. ASSUME NEW w \in Windows, CloseWindow(w)
        PROVE  HeaderInv' /\ open' \subseteq open
    <2>1. HeaderTypes' /\ HintsFollowHeader' /\ open' \subseteq open
      BY <1>1, <1>2 DEF CloseWindow, HeaderTypes, HintsFollowHeader
    <2>2. SettingsOfLast => SettingsOfLast'
      BY <1>2 DEF CloseWindow, SettingsOfLast, SameHeader
    <2> QED
      BY <1>2, <2>1, <2>2 DEF CloseWindow, HeaderInv
  <1>3. CASE EndProgram
    <2>1. /\ open' = {} /\ opening' = <<>>
          /\ torn' = IF opening # <<>> /\ settings # <<>> /\ ~loaded[opening[1]]
                       THEN "defaults" ELSE torn
          /\ settings' = settings /\ hints' = hints /\ loaded' = loaded /\ look' = look
          /\ changes' = changes /\ last' = last
      BY <1>3 DEF EndProgram
    <2>2. torn' \in {"nothing", "defaults", "places"}
      BY <1>1, <2>1 DEF HeaderTypes
    <2>3. HeaderTypes'
      BY <1>1, <2>1, <2>2 DEF HeaderTypes
    <2>4. HintsFollowHeader' /\ open' \subseteq open
      BY <2>1 DEF HintsFollowHeader
    <2>5. ASSUME torn' # "defaults"
          PROVE  SettingsOfLast'
      <3>1. /\ SettingsOfLast /\ torn' = torn
            /\ opening = <<>> \/ settings = <<>> \/ loaded[opening[1]]
        BY <2>1, <2>5 DEF HeaderInv
      <3> QED
        BY <2>1, <3>1 DEF SettingsOfLast, SameHeader
    <2> QED
      BY <2>3, <2>4, <2>5 DEF HeaderInv
  <1> QED
    BY <1>2, <1>3

LEMMA HeaderStep ==
    ASSUME HeaderInv, [HeaderNext]_headerVars
    PROVE  /\ HeaderInv'
           /\ \A w \in Windows :
                 w \in open' \ open /\ torn # "defaults" => SameHeader(look'[w], last, torn)
  <1>1. ASSUME NEW w \in Windows, Restore(w)
        PROVE  HeaderInv' /\ open' = open
    BY <1>1, RestoreKeepsHeader DEF Restore
  <1>2. ASSUME NEW w \in Windows, CloseWindow(w)
        PROVE  HeaderInv' /\ open' \subseteq open
    BY <1>2, CloseKeepsHeader
  <1>3. CASE Propose
    BY <1>3, ProposeKeepsHeader DEF Propose
  <1>4. CASE BuildWindow
    BY <1>4, BuildKeepsHeader
  <1>5. ASSUME NEW w \in Windows, NEW col \in Cols,
               \/ \E size \in Sizes : ResizeColumn(w, col, size)
               \/ ShowColumn(w, col)
               \/ HideColumn(w, col)
               \/ SizeColumnTorn(w, col)
        PROVE  HeaderInv' /\ open' \subseteq open
    BY <1>5, UserKeepsHeader
  <1>6. ASSUME NEW w \in Windows, NEW from \in Cols, NEW to \in Cols,
               MoveColumn(w, from, to) \/ MoveColumnTorn(w, from, to)
        PROVE  HeaderInv' /\ open' \subseteq open
    BY <1>6, MoveKeepsHeader, MoveTornKeepsHeader
  <1>7. CASE EndProgram
    BY <1>7, CloseKeepsHeader
  <1>8. CASE UNCHANGED headerVars
    BY <1>8 DEF headerVars, HeaderInv, HeaderTypes, HintsFollowHeader, SettingsOfLast,
                    SameHeader
  <1> QED
    BY <1>1, <1>2, <1>3, <1>4, <1>5, <1>6, <1>7, <1>8 DEF HeaderNext

LEMMA HeaderInvariant == HeaderSpec => []HeaderInv
  <1>1. HeaderInv /\ [HeaderNext]_headerVars => HeaderInv'
    BY HeaderStep
  <1> QED
    BY <1>1, InitHeader, PTL DEF HeaderSpec

(* The header of every window has each column at a place of its own, and   *)
(* the lists of hints never outgrow the columns, whatever is proposed,     *)
(* restored, dragged, hidden and shown, in any windows.                    *)
THEOREM HeaderTypeCorrect == HeaderSpec => []HeaderTypeOK
  <1>1. HeaderInv => HeaderTypeOK
    BY DEF HeaderInv, HeaderTypes, HeaderTypeOK, Hints, Looks, Places
  <1> QED
    BY <1>1, HeaderInvariant, PTL

(* A window opens as the user left the header changed last, for any number *)
(* of columns and windows: the hints of all the changes, stored at each of *)
(* them, arrange the same header anew.                                     *)
THEOREM OpensAsLeft == HeaderSpec => NewWindowLooksLikeLast
  <1>1. HeaderInv /\ [HeaderNext]_headerVars =>
            [\A w \in Windows :
                w \in open' \ open /\ torn # "defaults" => SameHeader(look'[w], last, torn)]_headerVars
    BY HeaderStep
  <1> QED
    BY <1>1, HeaderInvariant, PTL DEF HeaderSpec, NewWindowLooksLikeLast

-----------------------------------------------------------------------------
(* Hints that were stored *)

Placement ==
    /\ settings # <<>> => settings = <<settings[1]>>
    /\ DOMAIN hints = Windows
    /\ loaded \in [Windows -> BOOLEAN]
    /\ opening # <<>> => opening \in Windows \X Nat

(* While the defaults of a window are ignored its hints are still those    *)
(* that were stored: nobody else stores anything meanwhile.                *)
Restored == opening # <<>> /\ loaded[opening[1]] => settings = <<hints[opening[1]]>>

OpeningInv == Placement /\ Restored

LEMMA InitOpening == HeaderInit => OpeningInv
  BY DEF HeaderInit, OpeningInv, Placement, Restored

LEMMA RestoreOpens ==
    ASSUME OpeningInv, NEW w \in Windows, Restore(w)
    PROVE  OpeningInv'
  <1>1. /\ hints' = [hints EXCEPT ![w] = IF settings = <<>> THEN NoHints ELSE settings[1]]
        /\ loaded' = [loaded EXCEPT ![w] = settings # <<>>]
        /\ opening' = <<w, 0>> /\ settings' = settings
    BY DEF Restore
  <1>2. opening' \in Windows \X Nat
    BY <1>1
  <1>3. Placement'
    BY <1>1, <1>2 DEF OpeningInv, Placement
  <1>4. Restored'
    <2>1. loaded'[w] => settings = <<settings[1]>> /\ hints'[w] = settings[1]
      BY <1>1 DEF OpeningInv, Placement
    <2> QED
      BY <1>1, <2>1 DEF Restored
  <1> QED
    BY <1>3, <1>4 DEF OpeningInv

LEMMA DefaultsAreProposed ==
    ASSUME OpeningInv, Propose
    PROVE  OpeningInv' /\ (loaded[opening[1]] => settings' = settings)
  <1>1. /\ opening # <<>> /\ opening[2] <= ColumnCount + 1 /\ loaded' = loaded
        /\ opening' = [opening EXCEPT ![2] = @ + 1]
    BY DEF Propose
  <1>2. PICK w \in Windows, step \in Nat : opening = <<w, step>>
    BY <1>1 DEF OpeningInv, Placement
  <1>3. opening' = <<w, step + 1>> /\ step + 1 \in Nat
    BY <1>1, <1>2
  <1>4. CASE loaded[w] /\ step > 0
    BY <1>1, <1>2, <1>3, <1>4 DEF Propose, OpeningInv, Placement, Restored
  <1>5. CASE ~(loaded[w] /\ step > 0)
    <2>1. /\ hints' = [hints EXCEPT ![w] = Proposed(hints[w], step)]
          /\ settings' = <<Proposed(hints[w], step)>>
      BY <1>2, <1>5 DEF Propose, Store
    <2>2. OpeningInv'
      BY <1>1, <1>2, <1>3, <2>1 DEF OpeningInv, Placement, Restored
    <2>3. loaded[w] => step = 0 /\ Proposed(hints[w], step) = hints[w]
      BY <1>5 DEF Proposed
    <2> QED
      BY <1>1, <1>2, <2>1, <2>2, <2>3 DEF OpeningInv, Restored
  <1> QED
    BY <1>4, <1>5

(* What users do waits until the window is built.                          *)
LEMMA UserChanges ==
    ASSUME OpeningInv, NEW w, NEW newLook, NEW h, Change(w, newLook, h)
    PROVE  OpeningInv' /\ opening = <<>>
  BY DEF Change, Store, OpeningInv, Placement, Restored

LEMMA ChangesBreakOff ==
    ASSUME OpeningInv, NEW w, NEW h, BreakOff(w, h)
    PROVE  OpeningInv' /\ opening = <<>>
  BY DEF BreakOff, OpeningInv, Placement, Restored

LEMMA OpeningStep ==
    ASSUME OpeningInv, [HeaderNext]_headerVars
    PROVE  /\ OpeningInv'
           /\ opening # <<>> /\ loaded[opening[1]] => settings' = settings
  <1>1. ASSUME NEW w \in Windows, Restore(w)
        PROVE  OpeningInv' /\ opening = <<>>
    BY <1>1, RestoreOpens DEF Restore
  <1>2. ASSUME NEW w \in Windows, CloseWindow(w)
        PROVE  OpeningInv' /\ opening = <<>>
    BY <1>2 DEF CloseWindow, OpeningInv, Placement, Restored
  <1>3. CASE Propose
    BY <1>3, DefaultsAreProposed
  <1>4. CASE BuildWindow
    BY <1>4 DEF BuildWindow, OpeningInv, Placement, Restored
  <1>5. ASSUME NEW w \in Windows, NEW col \in Cols,
               \/ \E size \in Sizes : ResizeColumn(w, col, size)
               \/ ShowColumn(w, col)
               \/ HideColumn(w, col)
               \/ SizeColumnTorn(w, col)
        PROVE  OpeningInv' /\ opening = <<>>
    BY <1>5, UserChanges, ChangesBreakOff
       DEF ResizeColumn, ShowColumn, HideColumn, SizeColumnTorn
  <1>6. ASSUME NEW w \in Windows, NEW from \in Cols, NEW to \in Cols,
               MoveColumn(w, from, to) \/ MoveColumnTorn(w, from, to)
        PROVE  OpeningInv' /\ opening = <<>>
    BY <1>6, UserChanges, ChangesBreakOff DEF MoveColumn, MoveColumnTorn
  <1>7. CASE EndProgram
    BY <1>7 DEF EndProgram, OpeningInv, Placement, Restored
  <1>8. CASE UNCHANGED headerVars
    BY <1>8 DEF headerVars, OpeningInv, Placement, Restored
  <1> QED
    BY <1>1, <1>2, <1>3, <1>4, <1>5, <1>6, <1>7, <1>8 DEF HeaderNext

(* Opening a window, or breaking off in the middle of it, changes nothing  *)
(* that was stored before: the parser stores its hierarchies again with    *)
(* the hints that were restored, and its defaults are ignored.             *)
THEOREM StoredHintsSurvive == HeaderSpec => OpeningKeepsSettings
  <1>1. OpeningInv /\ [HeaderNext]_headerVars =>
            OpeningInv' /\ [opening # <<>> /\ loaded[opening[1]] => settings' = settings]_headerVars
    BY OpeningStep
  <1> QED
    BY <1>1, InitOpening, PTL DEF HeaderSpec, OpeningKeepsSettings

==============================================================================
