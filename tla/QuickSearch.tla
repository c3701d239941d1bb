----------------------------- MODULE QuickSearch -----------------------------
(***************************************************************************)
(* A quick search bar over the table of its window: what is typed or       *)
(* dropped becomes an expression (QuickSearchBar::updateSearch), and the   *)
(* buttons look for the next row it matches (LogEntryTableWindow::search). *)
(*                                                                         *)
(* What an expression on a column that the window does not have answers is *)
(* undefined (LogEntry reads in front of its attributes): each such row    *)
(* may match or not.                                                       *)
(***************************************************************************)
EXTENDS Expressions, FiniteSets

CONSTANTS
    MaxRows,    \* bound: rows of the table
    Arriving,   \* bound: the entries that arrive
    Texts       \* bound: what is typed, and the expressions of rules dropped

ASSUME QuickSearchAssumption ==
    /\ MaxRows \in Nat
    /\ Arriving \subseteq Entries

VARIABLES
    table,      \* the entries of the rows shown
    selected,   \* first selected row, or -1
    lineEdit,   \* text of the line edit
    searchMode,
    quickSearchExp, \* m_quickSearchExp
    dropped,    \* history: the expression dropped last, until the next change
    matching, inc, startRow, nextRow, origin    \* the search that runs

Search == INSTANCE TableSearch WITH rowCount <- Len(table)

searchVars == <<matching, inc, startRow, nextRow, origin>>
barVars == <<lineEdit, searchMode, quickSearchExp, dropped>>
quickSearchVars == <<table, selected, barVars, searchVars>>

QuickSearchInit ==
    /\ table = <<>> /\ selected = -1
    /\ lineEdit = <<>> /\ searchMode = "Text"
    /\ quickSearchExp = NoExpression /\ dropped = NoExpression
    /\ Search!NoSearch

-----------------------------------------------------------------------------
(* The table, between two searches. *)

NewRow(entry) ==
    /\ inc = 0
    /\ Len(table) < MaxRows
    /\ table' = Append(table, entry)
    /\ UNCHANGED <<selected, barVars, searchVars>>

ClearTable ==
    /\ inc = 0
    /\ table' = <<>> /\ selected' = -1
    /\ UNCHANGED <<barVars, searchVars>>

Select(row) ==
    /\ inc = 0
    /\ row \in Search!Rows(Len(table)) \cup {-1}
    /\ selected' = row
    /\ UNCHANGED <<table, barVars, searchVars>>

-----------------------------------------------------------------------------
(* The bar. *)

Message == LogEntryField("message")

(* A line that is a single word is found where the column holds it; the    *)
(* longer lines of this model are expressions, which no message contains.  *)
LineIsWord(line) == Len(line) = 1 /\ Len(line[1]) = 1

LineExpression(line, find(_, _)) ==
    IF LineIsWord(line) THEN find(Message, line[1][1])
    ELSE Basic(Message.valid, {}, line)

SearchedFor(line, mode) ==
    CASE line = <<>> -> NoExpression
      [] line # <<>> /\ mode = "Text" -> LineExpression(line, ExpressionFind)
      [] line # <<>> /\ mode = "Regex" -> LineExpression(line, ExpressionRegEx)
      [] line # <<>> /\ mode = "Expression" -> Parse(line)

(* Every text of this instance, in every mode, evaluated once.             *)
Lines == {<<>>} \cup Texts \cup {Parse(line).dropText : line \in Texts}
SearchedForLine == [line \in Lines |-> [mode \in SearchModes |-> SearchedFor(line, mode)]]

UpdateSearch(line, mode) ==
    /\ lineEdit' = line
    /\ searchMode' = mode
    /\ quickSearchExp' = SearchedForLine[line][mode]
    /\ UNCHANGED <<table, selected, searchVars>>

EditText(line) ==
    /\ inc = 0
    /\ UpdateSearch(line, searchMode)
    /\ dropped' = NoExpression

SwitchSearchMode ==
    /\ inc = 0
    /\ UpdateSearch(lineEdit, CASE searchMode = "Text" -> "Regex"
                            [] searchMode = "Regex" -> "Expression"
                            [] searchMode = "Expression" -> "Text")
    /\ dropped' = NoExpression

(* A rule whose expression parses is dropped on the bar.  Its parser knew  *)
(* no columns, which changes nothing of what is written out.               *)
DropRule(line) ==
    /\ inc = 0
    /\ LET rule == SearchedForLine[line]["Expression"]
       IN  /\ rule # NoExpression
           /\ UpdateSearch(rule.dropText, rule.dropMode)
           /\ dropped' = rule

-----------------------------------------------------------------------------
(* The search. *)

RowsIn(entries) == {row \in Search!Rows(Len(table)) : table[row + 1] \in entries}

(* The rows the expression says yes to, where it says anything.            *)
SearchNextOrPrev(direction) ==
    /\ quickSearchExp # NoExpression
    /\ UNCHANGED <<table, barVars>>
    /\ \E undecided \in SUBSET RowsIn(quickSearchExp.undefined) :
          Search!Begin(direction, RowsIn(quickSearchExp.matches) \cup undecided)

Round == UNCHANGED <<table, barVars>> /\ Search!NextRound

Finish == UNCHANGED <<table, barVars>> /\ Search!Finish

QuickSearchNext ==
    \/ \E entry \in Arriving : NewRow(entry)
    \/ ClearTable
    \/ \E row \in -1 .. MaxRows : Select(row)
    \/ \E line \in Texts : EditText(line) \/ DropRule(line)
    \/ SwitchSearchMode
    \/ \E direction \in {1, -1} : SearchNextOrPrev(direction)
    \/ Round
    \/ Finish

(* The loop runs in one call, nothing stops it but its condition.          *)
QuickSearchSpec ==
    QuickSearchInit /\ [][QuickSearchNext]_quickSearchVars /\ WF_quickSearchVars(Round \/ Finish)

-----------------------------------------------------------------------------
(* Properties *)

(* What a text says by the manual (Help/HelpText): parentheses first, then *)
(* !, &&, ^^ and ||.  The weakest operator outside all parentheses splits  *)
(* it, and there may be only one of it.  The result is the set of what the *)
(* text may mean, as the entries matched: nothing or one meaning.          *)
Opens(token) == token \in {<<"(">>, <<"!(">>, <<"find(">>}

Depth(line, i, j) ==
    Cardinality({k \in i .. j - 1 : Opens(line[k])})
    - Cardinality({k \in i .. j - 1 : line[k] = <<")">>})

Reading(line) ==
    LET reading[i \in 1 .. Len(line) + 1, j \in 0 .. Len(line)] ==
            LET outside(op) == {k \in i .. j : line[k] = <<op>> /\ Depth(line, i, k) = 0}
                split(op, join(_, _)) ==
                    {join(sides[1], sides[2]) : sides \in
                        UNION {reading[i, k - 1] \X reading[k + 1, j] :
                                  k \in {k \in outside(op) : outside(op) = {k}}}}
                basic == BasicExpr(line, i)
            IN  CASE outside("||") # {} -> split("||", LAMBDA l, r : l \cup r)
                  [] outside("||") = {} /\ outside("^^") # {} ->
                       split("^^", LAMBDA l, r : (l \ r) \cup (r \ l))
                  [] outside("||") = {} /\ outside("^^") = {} /\ outside("&&") # {} ->
                       split("&&", LAMBDA l, r : l \cap r)
                  [] OTHER ->
                       IF j > i /\ line[i] \in {<<"(">>, <<"!(">>} /\ line[j] = <<")">>
                       THEN {IF line[i] = <<"(">> THEN inner ELSE Entries \ inner :
                                inner \in reading[i + 1, j - 1]}
                       ELSE IF i <= j /\ basic.end = j + 1 THEN {basic.exp.matches} ELSE {}
    IN  reading[1, Len(line)]

ReadingOfLine == [line \in Lines |-> Reading(line)]

(* In the mode for expressions a text is taken if and only if it can be    *)
(* read by the precedence of the manual, and then with that meaning; what  *)
(* names an unknown column means nothing (ExpressionParser::parse).        *)
TextMeansWhatItSays ==
    searchMode = "Expression" /\ lineEdit # <<>> =>
        /\ quickSearchExp = NoExpression <=> ReadingOfLine[lineEdit] = {}
        /\ quickSearchExp.valid => ReadingOfLine[lineEdit] = {quickSearchExp.matches}

(* A rule dropped on the bar is searched for with the meaning it had, by   *)
(* way of what out() writes and of the mode chosen for it; only a pattern  *)
(* with a quotation mark outside the message column is refused.            *)
DropKeepsMeaning ==
    dropped # NoExpression =>
        \/ quickSearchExp.matches = dropped.matches /\ quickSearchExp.undefined = dropped.undefined
        \/ quickSearchExp = NoExpression
           /\ \E i \in DOMAIN dropped.dropText : dropped.dropText[i] = <<"\"">>

(* The nearest match is selected (LogEntryTableWindow::search).            *)
FindsNearest == [][Search!SelectsNearest]_quickSearchVars

(* The loop ends, although it moves its own end.                           *)
SearchEnds == inc # 0 ~> inc = 0

(* LogEntry::getAttributeAsString asserts that the attribute it is asked   *)
(* for exists; the row looked at in a round is asked for those of the      *)
(* expression.                                                             *)
AttributeExists ==
    inc # 0 /\ nextRow # startRow => table[nextRow + 1] \notin quickSearchExp.undefined

=============================================================================
