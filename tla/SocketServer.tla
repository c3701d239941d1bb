---------------------------- MODULE SocketServer ----------------------------
(***************************************************************************)
(* The socket servers LogEntryParser_log4cplusSocket and                   *)
(* LogEntryParser_pythonSocket: they number the entries their receivers    *)
(* decode and hand them to the table in messages, at most one at a time.   *)
(* What arrives while a message is alive waits in m_nextMessage; the       *)
(* destruction of the message (its last shared pointer going away) sends   *)
(* the waiting one.  newEntry is connected to the table with a queued      *)
(* connection, so emitting it posts an event.                              *)
(*                                                                         *)
(* Both classes have the same code for this; both run in the event loop's  *)
(* thread, like the table.                                                 *)
(***************************************************************************)
EXTENDS Naturals, Sequences

VARIABLES
  emittingAllowed,    \* m_emittingAllowed
  logEntryNumber,     \* m_logEntryNumber
  messageInProgress,  \* m_messageInProgress
  nextMessage,        \* entries of m_nextMessage, <<>> when the pointer is null
  events              \* posted newEntry events not yet delivered, oldest first

serverVars == <<emittingAllowed, logEntryNumber, messageInProgress, nextMessage>>

ServerTypeOK(Entry) ==
  /\ emittingAllowed \in BOOLEAN
  /\ logEntryNumber \in Nat
  /\ messageInProgress \in BOOLEAN
  /\ nextMessage \in Seq(Entry)
  /\ events \in Seq(Seq(Entry))

ServerInit ==
  /\ emittingAllowed = FALSE
  /\ logEntryNumber = 0
  /\ messageInProgress = FALSE
  /\ nextMessage = <<>>
  /\ events = <<>>

StartEmiting ==
  /\ emittingAllowed' = TRUE
  /\ UNCHANGED <<logEntryNumber, messageInProgress, nextMessage, events>>

-----------------------------------------------------------------------------
(* newEntryFromReceiver: entries received before the window is ready are   *)
(* dropped, the others get consecutive numbers before they are queued.     *)

\* Faulty variant: numbering starts one too low.
NumberedFromPrevious(entries, first) ==
  [i \in 1..Len(entries) |-> [entries[i] EXCEPT !.number = first + i - 2]]

Numbered(entries, first) ==
  [i \in 1..Len(entries) |-> [entries[i] EXCEPT !.number = first + i - 1]]

DropEntries ==
  /\ ~emittingAllowed
  /\ UNCHANGED <<serverVars, events>>

QueueEntries(entries) ==
  /\ emittingAllowed /\ messageInProgress
  /\ nextMessage' = nextMessage \o Numbered(entries, logEntryNumber)
  /\ logEntryNumber' = logEntryNumber + Len(entries)
  /\ UNCHANGED <<emittingAllowed, messageInProgress, events>>

SendEntries(entries) ==
  /\ emittingAllowed /\ ~messageInProgress
  /\ messageInProgress' = TRUE
  /\ events' = Append(events, Numbered(entries, logEntryNumber))
  /\ logEntryNumber' = logEntryNumber + Len(entries)
  /\ UNCHANGED <<emittingAllowed, nextMessage>>

NewEntryFromReceiver(entries) ==
  DropEntries \/ QueueEntries(entries) \/ SendEntries(entries)

-----------------------------------------------------------------------------
(* logEntryMessageDestroyed, where rest is the event queue at that moment. *)

\* Faulty variant: m_nextMessage.reset() is missing.
SendNextMessageAgain(rest) ==
  /\ nextMessage # <<>>
  /\ events' = Append(rest, nextMessage)
  /\ UNCHANGED <<emittingAllowed, logEntryNumber, messageInProgress, nextMessage>>

\* Faulty variant: the flag is cleared although the next message is sent.
SendNextMessageIdle(rest) ==
  /\ nextMessage # <<>>
  /\ events' = Append(rest, nextMessage)
  /\ nextMessage' = <<>>
  /\ messageInProgress' = FALSE
  /\ UNCHANGED <<emittingAllowed, logEntryNumber>>

SendNextMessage(rest) ==
  /\ nextMessage # <<>>
  /\ events' = Append(rest, nextMessage)
  /\ nextMessage' = <<>>
  /\ UNCHANGED <<emittingAllowed, logEntryNumber, messageInProgress>>

BecomeIdle(rest) ==
  /\ nextMessage = <<>>
  /\ messageInProgress' = FALSE
  /\ events' = rest
  /\ UNCHANGED <<emittingAllowed, logEntryNumber, nextMessage>>

\* Faulty variant: a waiting message is not sent, only the flag is cleared.
ForgetNextMessage(rest) ==
  /\ messageInProgress' = FALSE
  /\ events' = rest
  /\ UNCHANGED <<emittingAllowed, logEntryNumber, nextMessage>>

LogEntryMessageDestroyed(rest) == SendNextMessage(rest) \/ BecomeIdle(rest)
=============================================================================
