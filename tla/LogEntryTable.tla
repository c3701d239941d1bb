---------------------------- MODULE LogEntryTable ----------------------------
(***************************************************************************)
(* The table of a log window: class LogEntryTableModel                     *)
(* (Models/LogEntryTableModel.h/.cpp).  A parser hands it messages, each a *)
(* non-empty sequence of log entries; the table appends them, or stores    *)
(* them while a context menu is open, or drops them while capturing is     *)
(* switched off.  The handlers all run in the thread of the event loop.    *)
(*                                                                         *)
(* The module states the component's handlers; LivePipeline composes them  *)
(* with a parser.  Entries are opaque here.                                *)
(***************************************************************************)
EXTENDS Naturals, Sequences

VARIABLES
  table,          \* m_table, oldest entry first
  captureActive,  \* m_captureActive
  maxEntries,     \* m_maxNumberOfEntries, 0 means no limit
  blocking,       \* m_blockInsertingMessages
  blocked         \* m_blockedInsertedMessages, a sequence of messages

tableVars == <<table, captureActive, maxEntries, blocking, blocked>>

TableTypeOK(Entry) ==
  /\ table \in Seq(Entry)
  /\ captureActive \in BOOLEAN
  /\ maxEntries \in Nat
  /\ blocking \in BOOLEAN
  /\ blocked \in Seq(Seq(Entry))

TableInit ==
  /\ table = <<>>
  /\ captureActive = TRUE
  /\ maxEntries = 0
  /\ blocking = FALSE
  /\ blocked = <<>>

-----------------------------------------------------------------------------
(* insertEntry.  With a limit the oldest rows make room first; a message   *)
(* that leaves no old row replaces the table by its own newest entries.    *)

DropFirst(s, k) == SubSeq(s, k + 1, Len(s))

\* removeRows_unlocked erases from the first row on, whatever row it is given.
RemoveRowsUnlocked(rows, count) == DropFirst(rows, count)

\* Faulty variant: a message longer than the limit is stored whole.
InsertedWhole(rows, mess, max) ==
  LET total == Len(rows) + Len(mess) IN
    IF max = 0 \/ total <= max
      THEN rows \o mess
      ELSE IF Len(mess) >= max
             THEN mess
             ELSE RemoveRowsUnlocked(rows, total - max) \o mess

Inserted(rows, mess, max) ==
  LET total == Len(rows) + Len(mess) IN
    IF max = 0 \/ total <= max
      THEN rows \o mess
      ELSE IF Len(mess) >= max
             THEN DropFirst(mess, Len(mess) - max)
             ELSE RemoveRowsUnlocked(rows, total - max) \o mess

Stores(mess) == captureActive /\ mess # <<>> /\ ~blocking

DropMessage(mess) ==
  /\ ~captureActive \/ mess = <<>>
  /\ UNCHANGED tableVars

BlockMessage(mess) ==
  /\ captureActive /\ mess # <<>> /\ blocking
  /\ blocked' = Append(blocked, mess)
  /\ UNCHANGED <<table, captureActive, maxEntries, blocking>>

StoreMessage(mess) ==
  /\ Stores(mess)
  /\ table' = Inserted(table, mess, maxEntries)
  /\ UNCHANGED <<captureActive, maxEntries, blocking, blocked>>

InsertEntry(mess) == DropMessage(mess) \/ BlockMessage(mess) \/ StoreMessage(mess)

-----------------------------------------------------------------------------
(* The other slots.                                                        *)

ClearTable ==
  /\ table' = <<>>
  /\ UNCHANGED <<captureActive, maxEntries, blocking, blocked>>

\* setMaxEntries only stores the limit: a longer table shrinks at the next insert.
SetMaxEntries(max) ==
  /\ maxEntries' = max
  /\ UNCHANGED <<table, captureActive, blocking, blocked>>

Capture(active) ==
  /\ captureActive' = active
  /\ UNCHANGED <<table, maxEntries, blocking, blocked>>

BeginBlockItems ==
  /\ blocking' = TRUE
  /\ UNCHANGED <<table, captureActive, maxEntries, blocked>>

\* endBlockItems clears the flag and then drains the blocked messages in a loop
\* that keeps the event loop's thread: while Draining no other handler runs.
EndBlockItems ==
  /\ blocking' = FALSE
  /\ UNCHANGED <<table, captureActive, maxEntries, blocked>>

Draining == ~blocking /\ blocked # <<>>

\* One round of the loop: insertEntry(front) followed by pop_front, where
\* insertEntry checks the capture flag a second time.
DrainMessage ==
  /\ Draining
  /\ blocked' = Tail(blocked)
  /\ table' = IF Stores(Head(blocked)) THEN Inserted(table, Head(blocked), maxEntries)
                                       ELSE table
  /\ UNCHANGED <<captureActive, maxEntries, blocking>>
=============================================================================
