---------------------------- MODULE LivePipeline ----------------------------
(***************************************************************************)
(* A log window on a socket source: the receivers of a SocketServer, the   *)
(* event queue between the server and the LogEntryTable, and the user who  *)
(* opens the table's context menu, clears the table and switches capturing.*)
(* Every action is one event handler of the GUI thread; an open menu runs  *)
(* a nested event loop in which receivers and posted events go on.         *)
(***************************************************************************)
EXTENDS LogEntryTable, SocketServer, FiniteSets

CONSTANTS
  Receivers,  \* the connected peers
  BatchSize,  \* bound: most entries one read of a socket completes
  SendLimit,  \* bound: entries a peer sends
  Limits      \* the arguments of setMaxEntries; {} in the program as shipped,
              \* where nothing calls this public slot

ASSUME PipelineAssumption ==
  /\ BatchSize \in Nat
  /\ SendLimit \in Nat
  /\ Limits \subseteq Nat

VARIABLE sent  \* how many entries the receiver of each peer has decoded

vars == <<tableVars, serverVars, events, sent>>

Entry == [receiver : Receivers, index : Nat, number : Nat]

TypeOK ==
  /\ TableTypeOK(Entry)
  /\ ServerTypeOK(Entry)
  /\ sent \in [Receivers -> Nat]

Init == TableInit /\ ServerInit /\ sent = [r \in Receivers |-> 0]

-----------------------------------------------------------------------------
(* The window starts the parser once it is connected to it.                *)
StartModel ==
  /\ ~emittingAllowed
  /\ StartEmiting
  /\ UNCHANGED <<tableVars, sent>>

\* The entries a receiver hands to its server are the next n of its peer;
\* their number field is not set yet.
Decoded(r, n) ==
  [i \in 1..n |-> [receiver |-> r, index |-> sent[r] + i, number |-> 0]]

ReceiveEntries(r, n) ==
  /\ ~Draining
  /\ sent[r] + n <= SendLimit
  /\ sent' = [sent EXCEPT ![r] = @ + n]
  /\ NewEntryFromReceiver(Decoded(r, n))
  /\ UNCHANGED tableVars

(* The event loop delivers a posted message to insertEntry.  Unless the    *)
(* table kept it, the event held the last reference: the message is        *)
(* destroyed when the handler returns.                                     *)
DeliverAndRelease ==
  /\ events # <<>> /\ ~Draining
  /\ DropMessage(Head(events)) \/ StoreMessage(Head(events))
  /\ LogEntryMessageDestroyed(Tail(events))
  /\ UNCHANGED sent

DeliverAndHold ==
  /\ events # <<>> /\ ~Draining
  /\ BlockMessage(Head(events))
  /\ events' = Tail(events)
  /\ UNCHANGED <<serverVars, sent>>

Deliver == DeliverAndRelease \/ DeliverAndHold

-----------------------------------------------------------------------------
(* The context menu needs a row to click on; it is modal, so that the      *)
(* actions of the main window cannot be reached before it is closed.       *)
OpenMenu ==
  /\ ~blocking /\ ~Draining
  /\ table # <<>>
  /\ BeginBlockItems
  /\ UNCHANGED <<serverVars, events, sent>>

CloseMenu ==
  /\ blocking
  /\ EndBlockItems
  /\ UNCHANGED <<serverVars, events, sent>>

\* The rest of the handler that closed the menu: popping a message from the
\* list destroys it.
DrainBlocked ==
  /\ DrainMessage
  /\ LogEntryMessageDestroyed(events)
  /\ UNCHANGED sent

UserAction ==
  /\ ~blocking /\ ~Draining
  /\ \/ ClearTable
     \/ \E active \in BOOLEAN : Capture(active)
     \/ \E max \in Limits : SetMaxEntries(max)
  /\ UNCHANGED <<serverVars, events, sent>>

Next ==
  \/ StartModel
  \/ \E r \in Receivers, n \in 1..BatchSize : ReceiveEntries(r, n)
  \/ Deliver
  \/ OpenMenu
  \/ CloseMenu
  \/ DrainBlocked
  \/ UserAction

Spec == Init /\ [][Next]_vars

(* The event loop serves posted events and finishes its handlers; the user *)
(* closes a menu at some time.                                             *)
FairSpec ==
  /\ Spec
  /\ WF_vars(Deliver) /\ WF_vars(DrainBlocked) /\ WF_vars(CloseMenu)

-----------------------------------------------------------------------------
(* Properties.                                                             *)

\* The entries of the one message that is on its way to the table.
Outstanding ==
  IF blocked # <<>> THEN Head(blocked)
  ELSE IF events # <<>> THEN Head(events)
  ELSE <<>>

\* Everything numbered that is neither shown nor dropped, in order.
Pending == Outstanding \o nextMessage

\* Back-pressure: m_messageInProgress is set exactly while one message is posted
\* or held by the table, and entries wait in m_nextMessage only behind it.  A flag
\* left set would silence the source, a flag cleared early would let the event
\* queue grow without bound.  A message on its way is never empty.
OneOutstanding ==
  /\ Len(events) + Len(blocked) = (IF messageInProgress THEN 1 ELSE 0)
  /\ nextMessage # <<>> => messageInProgress
  /\ messageInProgress => Outstanding # <<>>

\* The number column grows from row to row, the line behind the rows is numbered
\* without a gap up to the next free number, and every row is older than the line:
\* nothing is shown twice or out of order, whatever was held back by a menu, dropped,
\* cleared or trimmed in between.
NumbersUpgrowing ==
  /\ \A i, j \in DOMAIN table : i < j => table[i].number < table[j].number
  /\ \A i \in DOMAIN Pending : Pending[i].number + Len(Pending) + 1 = logEntryNumber + i
  /\ \A i \in DOMAIN table : table[i].number + Len(Pending) < logEntryNumber

\* The pipeline implements the abstract stream: exactly once, in order, newest kept.
Stream == INSTANCE EntryStream WITH
  accepted <- logEntryNumber, pending <- Pending, shown <- table,
  capturing <- captureActive, limit <- maxEntries
ImplementsStream == Stream!Spec

\* Every numbered entry leaves the line: nothing waits forever in m_nextMessage, in
\* the event queue or in the blocked list, even if menus are opened again and again.
EntriesLeaveTheLine ==
  \A n \in 0..(Cardinality(Receivers) * SendLimit - 1) :
    (\E i \in DOMAIN Pending : Pending[i].number = n)
      ~> (\A i \in DOMAIN Pending : Pending[i].number # n)
=============================================================================
