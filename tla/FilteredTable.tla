---------------------------- MODULE FilteredTable ----------------------------
(***************************************************************************)
(* The rows a log window shows: LogEntryTableFilter, a                     *)
(* QSortFilterProxyModel over the LogEntryTable.  A row is shown if its    *)
(* entry passes the filter chain and no discard rule matches it, or if it  *)
(* lies in the range of rows the user peeks at ("Peek filtered" or a       *)
(* double click: the rows around the clicked one).  The proxy computes the *)
(* shown rows when rows appear and when the filter is invalidated, and     *)
(* keeps them in between.                                                  *)
(*                                                                         *)
(* The filters tell entries apart by the values of their attributes: an    *)
(* entry is its kind here.  Rows count from 0, as in the code.             *)
(***************************************************************************)
EXTENDS LogEntryTable, Integers

CONSTANTS
  Kinds,    \* the values of the filtered attribute
  Around,   \* valuesToShow, 10 in both callers
  Limits,   \* the arguments of setMaxEntries; {} in the program as shipped
  MaxMess,  \* bound: entries of a message
  MaxRows   \* bound: rows of the table

ASSUME FilteredAssumption ==
  /\ Around \in Nat
  /\ Limits \subseteq Nat
  /\ MaxMess \in Nat
  /\ MaxRows \in Nat

VARIABLES
  known,      \* the kinds that have passed the string cache of the source
  hidden,     \* the kinds the filter chain refuses
  discarded,  \* the kinds the discard rules match, m_discardExpressions
  range,      \* m_surroundingRowStart and m_surroundingRowEnd
  visible,    \* the rows in the mapping of the proxy
  menuRow,    \* the row under an open context menu, -1 if there is none
  staleIndex, \* the proxy was invalidated after the menu took its index
  center      \* history: where the peeked row is now, counted from the first row

filterVars == <<hidden, discarded, range, visible>>
menuVars == <<menuRow, staleIndex>>
vars == <<tableVars, known, filterVars, menuVars, center>>

NoRange == [first |-> -1, last |-> -1]

\* The history is given up when the peeked row is so far above the table that none
\* of the rows around it is left.
NoCenter == -Around - 1

\* The history is given up, too, when rows are removed from above the peeked rows to
\* their last one: the code leaves the range where it is, over rows that have moved.
Uncovered == -Around - 2

TypeOK ==
  /\ TableTypeOK(Kinds)
  /\ known \subseteq Kinds
  /\ hidden \subseteq known
  /\ discarded \subseteq Kinds
  /\ range \in [first : Nat \cup {-1}, last : Nat \cup {-1}]
  /\ visible \subseteq 0..(Len(table) - 1)
  /\ menuRow \in -1..(Len(table) - 1)
  /\ staleIndex \in BOOLEAN
  /\ center \in Int

Init ==
  /\ TableInit
  /\ known = {}
  /\ hidden = {}
  /\ discarded = {}
  /\ range = NoRange
  /\ visible = {}
  /\ menuRow = -1
  /\ staleIndex = FALSE
  /\ center = NoCenter

-----------------------------------------------------------------------------
(* What the filter accepts, and how the proxy keeps up with it.            *)

InRange(r, peeked) == peeked.first <= r /\ r <= peeked.last

FilterAcceptInt(kind) == kind \notin hidden /\ kind \notin discarded

FilterAcceptsRow(rows, r, peeked) == InRange(r, peeked) \/ FilterAcceptInt(rows[r + 1])

\* The mapping the proxy builds from nothing.
Accepted(rows, peeked) ==
  {r \in 0..(Len(rows) - 1) : FilterAcceptsRow(rows, r, peeked)}

\* The proxy filters the rows that are appended behind the first n.
RowsInserted(shown, rows, n, peeked) == shown \cup {r \in Accepted(rows, peeked) : r >= n}

\* The proxy takes the first k rows out of its mapping.
RowsRemoved(shown, k) == {r - k : r \in {s \in shown : s >= k}}

-----------------------------------------------------------------------------
(* slotRowsAboutToBeRemoved, for the rows from start to end.               *)

Shortened(first, last) == IF last < first THEN NoRange ELSE [first |-> first, last |-> last]

RangeWithout(peeked, start, end) ==
  LET diff == end - start + 1 IN
    IF peeked = NoRange THEN NoRange
    ELSE IF start < peeked.first
           THEN IF end < peeked.first
                  THEN Shortened(peeked.first - diff, peeked.last - diff)
                ELSE IF end < peeked.last
                  THEN Shortened(start, peeked.last - diff)
                ELSE Shortened(peeked.first, peeked.last)
    ELSE IF end <= peeked.last
           THEN Shortened(peeked.first, peeked.last - diff)
           ELSE Shortened(peeked.first, start - 1)

-----------------------------------------------------------------------------
(* The filter follows the table.                                           *)

Moved(row, k) ==
  IF center = Uncovered \/ (0 < range.first /\ range.last < k) THEN Uncovered
  ELSE IF row - k < -Around THEN NoCenter
  ELSE row - k

\* The rows insertEntry removes before it stores a message.
ToRemove(mess) == IF maxEntries = 0 THEN 0 ELSE Len(table) + Len(mess) - maxEntries

FollowAppend(mess) ==
  /\ ToRemove(mess) <= 0
  /\ visible' = RowsInserted(visible, table', Len(table), range)
  /\ UNCHANGED <<range, center>>

\* modelAboutToBeReset drops the range, after modelReset the mapping is built anew.
FollowReset ==
  /\ range' = NoRange
  /\ visible' = Accepted(table', NoRange)
  /\ center' = NoCenter

\* Faulty variant: rowsRemoved is not connected to slotInvalidateIfNeeded.
FollowTrimQuietly(mess) ==
  /\ ToRemove(mess) \in 1..(Len(table) - 1)
  /\ LET k == ToRemove(mess)
         rows == RemoveRowsUnlocked(table, k)
         peeked == RangeWithout(range, 0, k - 1)
     IN /\ range' = peeked
        /\ visible' = RowsInserted(RowsRemoved(visible, k), table', Len(rows), peeked)
        /\ center' = IF peeked = NoRange THEN NoCenter ELSE Moved(center, k)

\* rowsAboutToBeRemoved moves the range, rowsRemoved shortens the mapping and
\* slotInvalidateIfNeeded builds it anew, if there was a range.
FollowTrim(mess) ==
  /\ ToRemove(mess) \in 1..(Len(table) - 1)
  /\ LET k == ToRemove(mess)
         rows == RemoveRowsUnlocked(table, k)
         peeked == RangeWithout(range, 0, k - 1)
         shown == IF range = NoRange THEN RowsRemoved(visible, k) ELSE Accepted(rows, peeked)
     IN /\ range' = peeked
        /\ visible' = RowsInserted(shown, table', Len(rows), peeked)
        /\ center' = IF peeked = NoRange THEN NoCenter ELSE Moved(center, k)

Follow(mess) ==
  /\ \/ FollowAppend(mess)
     \/ ToRemove(mess) > 0 /\ ToRemove(mess) >= Len(table) /\ FollowReset
     \/ FollowTrim(mess)
  /\ UNCHANGED <<known, hidden, discarded, menuVars>>

-----------------------------------------------------------------------------
(* Messages of the source.  The kinds of their entries have passed the     *)
(* string cache before; LivePipeline shows that at most one is blocked.    *)

Idle == ~blocking /\ ~Draining

InsertMessage(mess) ==
  /\ blocked = <<>>
  /\ Len(table) + Len(mess) <= MaxRows
  /\ \/ /\ DropMessage(mess) \/ BlockMessage(mess)
        /\ UNCHANGED <<known, filterVars, menuVars, center>>
     \/ StoreMessage(mess) /\ Follow(mess)

InsertBlocked ==
  /\ DrainMessage
  /\ IF Stores(Head(blocked)) THEN Follow(Head(blocked))
     ELSE UNCHANGED <<known, filterVars, menuVars, center>>

-----------------------------------------------------------------------------
(* The filter chain and the discard rules.                                 *)

Invalidate == visible' = Accepted(table, range)'

\* A new string enters the tree of the filter list, where it may be deselected from
\* the start, and filterUpdateFinished invalidates the proxy: all its indexes, too.
NewString(kind) ==
  /\ ~Draining /\ kind \notin known
  /\ known' = known \cup {kind}
  /\ hidden' \in {hidden, hidden \cup {kind}}
  /\ staleIndex' = (menuRow # -1)
  /\ UNCHANGED <<tableVars, discarded, range, menuRow, center>>
  /\ Invalidate

\* The user has changed the selection in the filter list.
FilterUpdateFinished(kinds) ==
  /\ Idle
  /\ hidden' = kinds
  /\ UNCHANGED <<tableVars, known, discarded, range, menuVars, center>>
  /\ Invalidate

\* updateChanges with other discard rules than before.
UpdateChanges(kinds) ==
  /\ Idle /\ kinds # discarded
  /\ discarded' = kinds
  /\ range' = NoRange
  /\ center' = NoCenter
  /\ UNCHANGED <<tableVars, known, hidden, menuVars>>
  /\ Invalidate

-----------------------------------------------------------------------------
(* Peeking.                                                                *)

Larger(a, b) == IF a >= b THEN a ELSE b

ShowSurroundingLogEntries(row) ==
  /\ IF row = -1
       THEN range' = NoRange /\ center' = NoCenter
       ELSE /\ range' = [first |-> Larger(0, row - Around), last |-> row + Around]
            /\ center' = row
  /\ UNCHANGED <<known, hidden, discarded>>
  /\ Invalidate

OnDoubleClick(r) ==
  /\ Idle
  /\ r \in visible
  /\ UNCHANGED <<tableVars, menuVars>>
  /\ ShowSurroundingLogEntries(r)

\* contextMenu up to the nested event loop of the menu, and from its end on.
OpenMenu(r) ==
  /\ Idle
  /\ r \in visible
  /\ BeginBlockItems
  /\ menuRow' = r
  /\ staleIndex' = FALSE
  /\ UNCHANGED <<known, filterVars, center>>

\* mapToSource of an index that the proxy no longer knows is undefined: any row.
MapToSource == IF staleIndex THEN -1..(Len(table) - 1) ELSE {menuRow}

PeekFiltered ==
  /\ blocking
  /\ EndBlockItems
  /\ \E row \in MapToSource : ShowSurroundingLogEntries(row)
  /\ menuRow' = -1
  /\ staleIndex' = FALSE

CloseMenu ==
  /\ blocking
  /\ EndBlockItems
  /\ menuRow' = -1
  /\ staleIndex' = FALSE
  /\ UNCHANGED <<known, filterVars, center>>

-----------------------------------------------------------------------------
\* Faulty variant: modelAboutToBeReset is not connected, the range stays.
ClearKeepsRange ==
  /\ Idle
  /\ ClearTable
  /\ center' = NoCenter
  /\ UNCHANGED <<known, hidden, discarded, range, menuVars>>
  /\ Invalidate

\* Faulty variant: clearTable does not announce the reset of the model.
ClearUnannounced ==
  /\ Idle
  /\ ClearTable
  /\ UNCHANGED <<known, filterVars, menuVars, center>>

ClearRows ==
  /\ Idle
  /\ ClearTable
  /\ FollowReset
  /\ UNCHANGED <<known, hidden, discarded, menuVars>>

UserSwitches ==
  /\ Idle
  /\ \/ \E active \in BOOLEAN : Capture(active)
     \/ \E max \in Limits : SetMaxEntries(max)
  /\ UNCHANGED <<known, filterVars, menuVars, center>>

Next ==
  \/ \E n \in 1..MaxMess : \E mess \in [1..n -> known] : ~Draining /\ InsertMessage(mess)
  \/ InsertBlocked
  \/ \E kind \in Kinds : NewString(kind)
  \/ \E kinds \in SUBSET known : FilterUpdateFinished(kinds)
  \/ \E kinds \in SUBSET Kinds : UpdateChanges(kinds)
  \/ \E r \in visible : OnDoubleClick(r) \/ OpenMenu(r)
  \/ PeekFiltered
  \/ CloseMenu
  \/ ClearRows
  \/ UserSwitches

Spec == Init /\ [][Next]_vars

-----------------------------------------------------------------------------
(* Properties.                                                             *)

\* The rows the proxy keeps are those it would compute anew: no insertion, trimming,
\* reset, rule, filter or peek leaves a row shown that should not be, or hides one.
ShownIsAccepted == visible = Accepted(table, range)

\* "This enables the show surrounding entries around index and woith +/- valuesToShow."
\* The refused rows on show are exactly those around the row the user peeked at,
\* wherever that row has moved since, unless a trim has uncovered others.
SurroundingsShown ==
  center # Uncovered =>
  {r \in visible : ~FilterAcceptInt(table[r + 1])} =
    {r \in 0..(Len(table) - 1) :
       ~FilterAcceptInt(table[r + 1]) /\ center # NoCenter
         /\ center - Around <= r /\ r <= center + Around}
=============================================================================
