----------------------------- MODULE TableSearch -----------------------------
(***************************************************************************)
(* LogEntryTableWindow::search: the next or the previous row that matches  *)
(* an expression, from the selected row on and around the end of the       *)
(* table.  Each round of the loop is a step; who calls it and changes the  *)
(* table between two searches is the business of the module that           *)
(* instantiates this one.  Rows are counted from 0, and -1 stands for no   *)
(* row, as in the code.                                                    *)
(***************************************************************************)
EXTENDS Integers

VARIABLES
    rowCount,   \* rows of the table as it is shown
    matching,   \* rows the expression of the search matches
    selected,   \* first selected row, or -1
    inc,        \* 1 forwards, -1 backwards, 0 when no search runs
    startRow, nextRow,
    origin      \* history: the row that was selected when the search began

Rows(n) == 0 .. n - 1

NoSearch ==
    /\ inc = 0 /\ matching = {}
    /\ startRow = -1 /\ nextRow = -1 /\ origin = -1

(* Around either end of the table.                                         *)
Wrapped(row) ==
    IF row >= rowCount THEN 0 ELSE IF row < 0 THEN rowCount - 1 ELSE row

(* The call, with the rows its expression will say yes to.                 *)
Begin(direction, rows) ==
    /\ inc = 0 /\ rowCount > 0
    /\ inc' = direction
    /\ matching' = rows
    /\ startRow' = selected
    /\ nextRow' = Wrapped(selected + direction)
    /\ origin' = selected
    /\ UNCHANGED <<rowCount, selected>>

(* Mutant: the round without a selection has no end to come back to. *)
NextWithoutStart ==
    /\ inc # 0 /\ nextRow # startRow /\ nextRow \notin matching
    /\ nextRow' = Wrapped(nextRow + inc)
    /\ UNCHANGED <<rowCount, matching, selected, inc, startRow, origin>>

(* The row looked at does not match; without a selection the first one     *)
(* looked at is where the round ends.  That startRow is cut to the size of *)
(* the table never matters, since no event is handled between two rounds.  *)
NextRound ==
    /\ inc # 0 /\ nextRow # startRow /\ nextRow \notin matching
    /\ startRow' = IF startRow < 0 THEN nextRow ELSE startRow
    /\ nextRow' = Wrapped(nextRow + inc)
    /\ UNCHANGED <<rowCount, matching, selected, inc, origin>>

EndOfSearch ==
    /\ inc' = 0 /\ matching' = {}
    /\ startRow' = -1 /\ nextRow' = -1 /\ origin' = -1

(* Mutant: the row looked at last is selected in any case. *)
SelectLast ==
    /\ inc # 0
    /\ nextRow = startRow \/ nextRow \in matching
    /\ selected' = nextRow
    /\ EndOfSearch
    /\ UNCHANGED rowCount

Finish ==
    /\ inc # 0
    /\ nextRow = startRow \/ nextRow \in matching
    /\ selected' = IF nextRow # startRow THEN nextRow ELSE selected
    /\ EndOfSearch
    /\ UNCHANGED rowCount

-----------------------------------------------------------------------------
(* Properties, checked by the module that instantiates this one. *)

(* How many rows on from `origin', in the direction of the search, a row   *)
(* is met.                                                                 *)
Distance(row) ==
    LET first == IF origin >= 0 THEN origin + inc
                 ELSE IF inc > 0 THEN 0 ELSE rowCount - 1
    IN  ((row - first) * inc) % rowCount

(* A search selects the nearest other row that matches, around the end of  *)
(* the table if need be, and leaves the selection alone if there is none.  *)
SelectsNearest ==
    inc # 0 /\ inc' = 0 =>
        LET others == matching \ {origin}
        IN  IF others = {} THEN selected' = selected
            ELSE /\ selected' \in others
                 /\ \A row \in others : Distance(selected') <= Distance(row)

=============================================================================
