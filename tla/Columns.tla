------------------------------- MODULE Columns -------------------------------
(***************************************************************************)
(* The columns of the log windows: LogEntryParserModelConfiguration keeps  *)
(* hints for their widths, order and visibility, stores them in the        *)
(* settings at every change and restores them for the next window; the     *)
(* window arranges its header by the hints and turns what the user does    *)
(* with the header into hints.  Columns are counted from 0, as in the      *)
(* code; the lists of hints begin with column 0.                           *)
(***************************************************************************)
EXTENDS Integers, SequencesExt

CONSTANTS
    Windows,
    ColumnCount,
    Sizes,          \* widths a column is dragged to
    DefaultWidth,   \* the width the parser proposes for each column
    DefaultOrder,   \* the order hints the parser proposes
    MaxChanges      \* bound: what users do with headers

ASSUME ColumnsAssumption ==
    /\ ColumnCount \in Nat \ {0}
    /\ Sizes \subseteq Nat \ {0}
    /\ DefaultWidth \in [0 .. ColumnCount - 1 -> Nat \ {0}]
    /\ DefaultOrder \in Seq(Nat) /\ Len(DefaultOrder) <= ColumnCount
    /\ MaxChanges \in Nat

VARIABLES
    settings,   \* <<>>, or the hints stored, as a sequence of one
    opening,    \* <<>>, or the window being built and the step, <<w, step>>
    open,       \* windows with a header
    hints,      \* hints of each window's configuration
    loaded,     \* m_field...HintsLoaded: the three are restored together
    look,       \* header of each window
    changes,    \* number of changes made by users
    last,       \* history: the header changed last, in any window
    torn        \* history: what a crash left half stored, "defaults" or "places", and
                \* no change has stored as a whole since; "nothing" otherwise

headerVars == <<settings, opening, open, hints, loaded, look, changes, last, torn>>

Cols == 0 .. ColumnCount - 1
NoHints == [width |-> <<>>, show |-> <<>>, order |-> <<>>]

-----------------------------------------------------------------------------
(* LogEntryParserModelConfiguration: a hint that was not given is filled   *)
(* up in front of one that is.                                             *)

(* Mutant: the list is filled up behind the hint, too. *)
PaddedTooFar(list, col, fill) == list \o [i \in 1 .. col + 2 - Len(list) |-> fill]

Padded(list, col, fill) == list \o [i \in 1 .. col + 1 - Len(list) |-> fill]

With(list, col, value, fill) == [Padded(list, col, fill) EXCEPT ![col + 1] = value]

WidthSet(h, col, width) == [h EXCEPT !.width = With(@, col, width, -1)]
ShowSet(h, col, show)   == [h EXCEPT !.show = With(@, col, show, TRUE)]
OrderSet(h, col, place) == [h EXCEPT !.order = With(@, col, place, 1)]

WidthHint(h, col) ==
    IF col < Len(h.width) /\ h.width[col + 1] >= 0 THEN h.width[col + 1] ELSE 150
ShowHint(h, col) == col < Len(h.show) => h.show[col + 1]
(* Behind all others without a hint.                                       *)
OrderHint(h, col) == IF col < Len(h.order) THEN h.order[col + 1] ELSE 2147483647

(* Every setter of window w stores all of its hints.                       *)
Store(w, h) ==
    /\ hints' = [hints EXCEPT ![w] = h]
    /\ settings' = <<h>>

-----------------------------------------------------------------------------
(* A window is opened *)

(* The constructor of the configuration: restoreHintsFromSettings.         *)
Restore(w) ==
    /\ opening = <<>> /\ w \notin open
    /\ hints' = [hints EXCEPT ![w] = IF settings = <<>> THEN NoHints ELSE settings[1]]
    /\ loaded' = [loaded EXCEPT ![w] = settings # <<>>]
    /\ opening' = <<w, 0>>
    /\ UNCHANGED <<settings, open, look, changes, last, torn>>

(* The parser's constructor goes on with the hierarchies, which store the  *)
(* hints as they are, with the default widths, one by one, and with the    *)
(* default order.                                                          *)
Proposed(h, step) ==
    IF step = 0 THEN h
    ELSE IF step <= ColumnCount THEN WidthSet(h, step - 1, DefaultWidth[step - 1])
    ELSE [h EXCEPT !.order = DefaultOrder]

(* Mutant: defaults replace what was restored. *)
ProposeAnyway ==
    /\ opening # <<>> /\ opening[2] <= ColumnCount + 1
    /\ Store(opening[1], Proposed(hints[opening[1]], opening[2]))
    /\ opening' = [opening EXCEPT ![2] = @ + 1]
    /\ UNCHANGED <<open, loaded, look, changes, last, torn>>

(* Defaults are ignored when hints were restored.                          *)
Propose ==
    /\ opening # <<>> /\ opening[2] <= ColumnCount + 1
    /\ IF loaded[opening[1]] /\ opening[2] > 0 THEN UNCHANGED <<hints, settings>>
       ELSE Store(opening[1], Proposed(hints[opening[1]], opening[2]))
    /\ opening' = [opening EXCEPT ![2] = @ + 1]
    /\ UNCHANGED <<open, loaded, look, changes, last, torn>>

(* Columns with the same hint stand in the order of the model.             *)
Before(h, c, d) ==
    \/ OrderHint(h, c) < OrderHint(h, d)
    \/ OrderHint(h, c) = OrderHint(h, d) /\ c < d

(* The header as the hints have it: the place of a column, also counted    *)
(* from 0, is the number of columns in front of it.                        *)
Arranged(h) ==
    [width  |-> [c \in Cols |-> WidthHint(h, c)],
     hidden |-> {c \in Cols : ~ShowHint(h, c)},
     place  |-> [c \in Cols |-> Cardinality({d \in Cols : Before(h, d, c)})]]

(* The constructor of the window, whose signals are connected only when    *)
(* the header is arranged.                                                 *)
BuildWindow ==
    /\ opening # <<>> /\ opening[2] = ColumnCount + 2
    /\ look' = [look EXCEPT ![opening[1]] = Arranged(hints[opening[1]])]
    /\ open' = open \cup {opening[1]}
    /\ opening' = <<>>
    /\ UNCHANGED <<settings, hints, loaded, changes, last, torn>>

-----------------------------------------------------------------------------
(* The user works on the header of window w *)

Change(w, newLook, h) ==
    /\ opening = <<>> /\ w \in open /\ changes < MaxChanges
    /\ look' = [look EXCEPT ![w] = newLook]
    /\ Store(w, h)
    /\ last' = newLook
    /\ changes' = changes + 1
    /\ torn' = "nothing"
    /\ UNCHANGED <<opening, open, loaded>>

(* The program crashes when a change has stored h, and not yet the rest.   *)
BreakOff(w, h) ==
    /\ opening = <<>> /\ w \in open /\ changes < MaxChanges
    /\ settings' = <<h>>
    /\ open' = {}
    /\ changes' = changes + 1
    /\ UNCHANGED <<opening, hints, loaded, look>>

(* updateHeaderSizeToModel with a size; a column that is shown again has   *)
(* the size it had.                                                        *)
Sized(h, col, size) == WidthSet(ShowSet(h, col, TRUE), col, size)

ResizeColumn(w, col, size) ==
    /\ col \notin look[w].hidden /\ size # look[w].width[col]
    /\ Change(w, [look[w] EXCEPT !.width[col] = size], Sized(hints[w], col, size))

ShowColumn(w, col) ==
    /\ col \in look[w].hidden
    /\ Change(w, [look[w] EXCEPT !.hidden = @ \ {col}],
              Sized(hints[w], col, look[w].width[col]))

(* Shown, and its size is not stored yet.                                  *)
SizeColumnTorn(w, col) ==
    /\ BreakOff(w, ShowSet(hints[w], col, TRUE))
    /\ last' = [look[w] EXCEPT !.hidden = @ \ {col}]
    /\ torn' = "nothing"

(* updateHeaderSizeToModel with size 0.  One column is always shown.       *)
HideColumn(w, col) ==
    /\ col \notin look[w].hidden
    /\ Cardinality(look[w].hidden) < ColumnCount - 1
    /\ Change(w, [look[w] EXCEPT !.hidden = @ \cup {col}], ShowSet(hints[w], col, FALSE))

(* Mutant: the column at a place is taken for the place of the column. *)
PlacedInverse(h, place) ==
    [h EXCEPT !.order = [i \in 1..ColumnCount |-> CHOOSE c \in Cols : place[c] = i - 1]]

(* updateHeaderPositionToModel: from the first place to the last, the      *)
(* column there is given its place as hint.  So it is done up to place n.  *)
ColumnAt(place, p) == CHOOSE c \in Cols : place[c] = p
GivePlace(h, given) == OrderSet(h, given[1], given[2])
PlacedUpTo(h, place, n) ==
    FoldLeft(GivePlace, h, [i \in 1..n |-> <<ColumnAt(place, i - 1), i - 1>>])
Placed(h, place) == PlacedUpTo(h, place, ColumnCount)

(* A column is dragged to another place, and those between move up.        *)
Dragged(place, from, to) ==
    [c \in Cols |->
        CASE place[c] = from -> to
          [] from < place[c] /\ place[c] <= to -> place[c] - 1
          [] to <= place[c] /\ place[c] < from -> place[c] + 1
          [] OTHER -> place[c]]

MoveColumn(w, from, to) ==
    /\ from # to
    /\ LET place == Dragged(look[w].place, from, to)
       IN  Change(w, [look[w] EXCEPT !.place = place], Placed(hints[w], place))

(* Some of the columns have the hints of their new places, the others not. *)
MoveColumnTorn(w, from, to) ==
    /\ from # to
    /\ \E n \in 1 .. ColumnCount - 1 :
          BreakOff(w, PlacedUpTo(hints[w], Dragged(look[w].place, from, to), n))
    /\ last' = look[w]
    /\ torn' = "places"

CloseWindow(w) ==
    /\ opening = <<>> /\ w \in open
    /\ open' = open \ {w}
    /\ UNCHANGED <<settings, opening, hints, loaded, look, changes, last, torn>>

(* The program ends, or crashes, in the middle of opening a window, too;   *)
(* the settings stay.                                                      *)
EndProgram ==
    /\ open # {} \/ opening # <<>>
    /\ open' = {} /\ opening' = <<>>
    /\ torn' = IF opening # <<>> /\ settings # <<>> /\ ~loaded[opening[1]] THEN "defaults" ELSE torn
    /\ UNCHANGED <<settings, hints, loaded, look, changes, last>>

-----------------------------------------------------------------------------
(* What the parser proposes.                                               *)
DefaultHints == [width |-> [i \in 1..ColumnCount |-> DefaultWidth[i - 1]],
                 show |-> <<>>, order |-> DefaultOrder]

HeaderInit ==
    /\ settings = <<>> /\ opening = <<>> /\ open = {}
    /\ hints = [w \in Windows |-> NoHints]
    /\ loaded = [w \in Windows |-> FALSE]
    /\ look = [w \in Windows |-> Arranged(NoHints)]
    /\ changes = 0 /\ last = Arranged(DefaultHints) /\ torn = "nothing"

HeaderNext ==
    \/ \E w \in Windows : Restore(w) \/ CloseWindow(w)
    \/ Propose
    \/ BuildWindow
    \/ \E w \in Windows, col \in Cols :
          \/ \E size \in Sizes : ResizeColumn(w, col, size)
          \/ ShowColumn(w, col)
          \/ HideColumn(w, col)
          \/ SizeColumnTorn(w, col)
    \/ \E w \in Windows, from, to \in Cols : MoveColumn(w, from, to) \/ MoveColumnTorn(w, from, to)
    \/ EndProgram

HeaderSpec == HeaderInit /\ [][HeaderNext]_headerVars

-----------------------------------------------------------------------------
(* Properties *)

(* The type invariant: no list of hints is longer than there are columns,  *)
(* and every header has each column at a place of its own.                 *)
HeaderTypeOK ==
    /\ open \subseteq Windows /\ changes \in 0..MaxChanges
    /\ torn \in {"nothing", "defaults", "places"}
    /\ opening # <<>> => opening \in Windows \X (0 .. ColumnCount + 2)
    /\ loaded \in [Windows -> BOOLEAN]
    /\ \A w \in Windows :
          /\ Len(hints[w].width) <= ColumnCount
          /\ Len(hints[w].show) <= ColumnCount
          /\ Len(hints[w].order) <= ColumnCount
          /\ look[w].hidden \subseteq Cols
          /\ look[w].width \in [Cols -> Nat]
          /\ look[w].place \in [Cols -> Cols]
          /\ \A c, d \in Cols : look[w].place[c] = look[w].place[d] => c = d

(* Of a move that broke off in the middle the places are not known.        *)
SameHeader(a, b, lost) ==
    /\ a.width = b.width
    /\ a.hidden = b.hidden
    /\ lost # "places" => a.place = b.place

(* A window opens with the columns as the user left them in the window     *)
(* changed last, whichever that was and whatever became of it: widths,     *)
(* those of hidden columns, too, what is hidden, and the order; the first  *)
(* one opens as the parser proposes.  A crash between the stores of a      *)
(* change loses no more than that change, or, while a column is moved, the *)
(* order; one before the very first window has stored all the defaults     *)
(* loses these.  The next change makes up for both.                        *)
NewWindowLooksLikeLast ==
    [][\A w \in Windows :
          w \in open' \ open /\ torn # "defaults" => SameHeader(look'[w], last, torn)]_headerVars

(* Opening a window, or breaking off in the middle of it, changes nothing  *)
(* that was stored before: the parser's defaults do not come back.         *)
OpeningKeepsSettings ==
    [][opening # <<>> /\ loaded[opening[1]] => settings' = settings]_headerVars

=============================================================================
