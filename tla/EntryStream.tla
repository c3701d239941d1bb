----------------------------- MODULE EntryStream -----------------------------
(***************************************************************************)
(* What a log window promises about a live source, without messages,       *)
(* events or menus: accepted entries carry consecutive numbers, wait in    *)
(* one line, leave it from the front, each exactly once, and are appended  *)
(* to the rows shown, or dropped if capturing is off.  With a limit the    *)
(* newest rows stay.                                                       *)
(***************************************************************************)
EXTENDS Naturals, Sequences

VARIABLES
  accepted,   \* number of entries accepted so far, the number of the next one
  pending,    \* accepted entries that are neither shown nor dropped yet
  shown,      \* the rows of the window
  capturing,  \* the user's capture switch
  limit       \* most rows to keep, 0 for no limit

streamVars == <<accepted, pending, shown, capturing, limit>>

First(s, k) == SubSeq(s, 1, k)
Rest(s, k) == SubSeq(s, k + 1, Len(s))

Newest(s, max) == IF max = 0 \/ Len(s) <= max THEN s ELSE Rest(s, Len(s) - max)

Init ==
  /\ accepted = 0
  /\ pending = <<>>
  /\ shown = <<>>
  /\ capturing = TRUE
  /\ limit = 0

\* Some entries join the end of the line under the next free numbers.
Accept ==
  /\ Len(pending') > Len(pending)
  /\ First(pending', Len(pending)) = pending
  /\ \A i \in (Len(pending) + 1)..Len(pending') :
       pending'[i].number = accepted + (i - Len(pending)) - 1
  /\ accepted' = accepted + (Len(pending') - Len(pending))
  /\ UNCHANGED <<shown, capturing, limit>>

\* The first k entries of the line become rows.
Show(k) ==
  /\ capturing
  /\ shown' = Newest(shown \o First(pending, k), limit)
  /\ pending' = Rest(pending, k)
  /\ UNCHANGED <<accepted, capturing, limit>>

\* The first k entries of the line are dropped: capturing is off.
Drop(k) ==
  /\ ~capturing
  /\ pending' = Rest(pending, k)
  /\ UNCHANGED <<accepted, shown, capturing, limit>>

Clear ==
  /\ shown' = <<>>
  /\ UNCHANGED <<accepted, pending, capturing, limit>>

SwitchCapture ==
  /\ capturing' \in BOOLEAN
  /\ UNCHANGED <<accepted, pending, shown, limit>>

ChangeLimit ==
  /\ limit' \in Nat
  /\ UNCHANGED <<accepted, pending, shown, capturing>>

Next ==
  \/ Accept
  \/ \E k \in 1..Len(pending) : Show(k) \/ Drop(k)
  \/ Clear
  \/ SwitchCapture
  \/ ChangeLimit

Spec == Init /\ [][Next]_streamVars
=============================================================================
