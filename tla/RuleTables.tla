----------------------------- MODULE RuleTables -----------------------------
(***************************************************************************)
(* The rules of one log window: the editor (TableModelRulesCompiled), the  *)
(* quick search bars, the rule table both write to (RuleTable) and what    *)
(* the row filter keeps of it (LogEntryTableFilter::updateChanges).        *)
(*                                                                         *)
(* Expressions stand for what their parser makes of them: "none" is the    *)
(* empty text, which parses to an expression that matches nothing, "bad"   *)
(* does not parse, "foreign" parses but names a field the source of the    *)
(* window does not have.  Actions are the texts of RewriteActions.         *)
(***************************************************************************)
EXTENDS RewriteActions, FiniteSets

CONSTANTS
    Exps, Acts, Descs,      \* what the user writes into the three columns
    SearchTexts,            \* what the user writes into a search bar
    Bars,                   \* bound: the numbers of the search bars ever added
    MaxRows,                \* bound: rows of the editor
    MaxThings,              \* bound: rows and search bars at once
    MaxLines                \* bound: lines of a text dropped at once

ASSUME TextsAssumption ==
    "none" \in Exps \cap Descs \cap SearchTexts /\ NoText \in Acts /\ Acts \subseteq Texts
ASSUME BarsAssumption == IsFiniteSet(Bars) /\ Bars = 1..Cardinality(Bars)
ASSUME BoundsAssumption == {MaxRows, MaxThings, MaxLines} \subseteq Nat

VARIABLES
    table,      \* m_table of the editor
    ruleTable,  \* the RuleTable, and m_discardExpressions that follows it
    bars,       \* the search bars there are
    nextUid     \* m_nextUid of the rule table

vars == <<table, ruleTable, bars, nextUid>>

Rules == [exp : Exps, act : Acts, desc : Descs]
EmptyRule == [exp |-> "none", act |-> NoText, desc |-> "none"]
Garbage == [exp |-> "garbage", act |-> NoText, desc |-> "none"]   \* a line that is no rule

ExpressionOk(rule) == rule.exp # "bad"
(* The background of a bar, one of five colors in turn.                    *)
ColorOf(name) == <<"#a0ffd4", "#81bef7", "#ffc596", "#64ffa9", "#e4afff">>[(name % 5) + 1]
MarkText(name) == RewriteText(<<<<"BG", ":", ColorOf(name)>>>>)

Action == [text \in Acts \cup {MarkText(name) : name \in Bars} |-> ParseAction(text)]

ActionOk(rule) == Action[rule.act].kind # "bad"
ValidRule(rule) == ActionOk(rule) /\ rule.exp \notin {"bad", "foreign"}

(* Where a rule of the table comes from: the editor, "filters" in the code, *)
(* or a search bar, "UN+" and its number.                                  *)
Filters == 0

Expression(mode, text) == [mode |-> mode, text |-> text]

(* The compiled rule; rules of different sources are different objects.    *)
Compiled(source, exp, act) == [source |-> source, exp |-> exp, act |-> act]

CompiledRow(rule) ==
    Compiled(Filters, Expression("expression", rule.exp), rule.act)

-----------------------------------------------------------------------------
(* RuleTable, and the filter that listens to changed() *)

DiscardsOf(rules) == {r \in rules : Action[r.act].kind = "discard"}

(* Mutant: the filter is not told that a source was cleared. *)
DataChangedUnlessEmpty(t) ==
    IF t.onChange \/ t.rules = {} THEN t
    ELSE [t EXCEPT !.discards = DiscardsOf(t.rules)]

DataChanged(t) ==
    IF t.onChange THEN t ELSE [t EXCEPT !.discards = DiscardsOf(t.rules)]

(* An entry of a std::map, new or written over.                            *)
Put(map, key, value) ==
    [k \in DOMAIN map \cup {key} |-> IF k = key THEN value ELSE map[k]]

RulesFrom(t, source) == IF source \in DOMAIN t.sources THEN t.sources[source] ELSE {}

AddRule(t, source, rule) ==
    DataChanged([t EXCEPT !.sources = Put(@, source, RulesFrom(t, source) \cup {rule}),
                          !.rules = @ \cup {rule}])

Clear(t, source) ==
    IF source \notin DOMAIN t.sources THEN t
    ELSE LET left == Restrict(t.sources, DOMAIN t.sources \ {source})
         IN  DataChanged([t EXCEPT !.sources = left,
                                   !.rules = UNION Range(left)])

BeginChange(t) == [t EXCEPT !.onChange = TRUE]

(* Mutant: the batch is left open. *)
EndChangeOpen(t) == DataChanged(t)

EndChange(t) == DataChanged([t EXCEPT !.onChange = FALSE])

-----------------------------------------------------------------------------
(* The editor *)

AddIfValid(t, rule) ==
    IF ValidRule(rule) THEN AddRule(t, Filters, CompiledRow(rule)) ELSE t

UpdateFilterRuleTable(t, rows) ==
    EndChange(FoldLeft(AddIfValid, Clear(BeginChange(t), Filters), rows))

ShowsRows(rows) ==
    /\ table' = rows
    /\ ruleTable' = UpdateFilterRuleTable(ruleTable, rows)
    /\ UNCHANGED <<bars, nextUid>>

(* The rows of the view: those of the table, and one to begin a new rule.  *)
ViewRows == 1 .. Len(table) + 1

Room(n) ==
    /\ Len(table) + n <= MaxRows
    /\ Len(table) + Cardinality(DOMAIN bars) + n <= MaxThings

WithRow(row) == IF row > Len(table) THEN Append(table, EmptyRule) ELSE table

SetExpression(row, text) ==
    /\ row \in ViewRows
    /\ row > Len(table) => text # "none" /\ Room(1)
    /\ ShowsRows([WithRow(row) EXCEPT ![row].exp = text])

SetAction(row, text) ==
    /\ row \in ViewRows
    /\ row > Len(table) => text # NoText /\ Room(1)
    /\ ShowsRows([WithRow(row) EXCEPT ![row].act = text])

(* A description changes no rule, and the rule table is left alone.        *)
SetDescription(row, text) ==
    /\ row \in ViewRows
    /\ row > Len(table) => text # "none" /\ Room(1)
    /\ table' = [WithRow(row) EXCEPT ![row].desc = text]
    /\ UNCHANGED <<ruleTable, bars, nextUid>>

(* Rows are taken out from the back, so that the others keep their numbers *)
(* meanwhile.                                                              *)
FromTheBack(rows) ==
    CHOOSE order \in [1 .. Cardinality(rows) -> rows] :
        \A i, j \in DOMAIN order : i < j => order[i] > order[j]

Without(rows) == FoldLeft(RemoveAt, table, FromTheBack(rows))

(* The trash button, the delete key, or a drop on the trash button.        *)
RemoveRules(rows) ==
    /\ rows # {} /\ rows \subseteq DOMAIN table
    /\ ShowsRows(Without(rows))

(* Mutant: the rows are collected from the back, too. *)
TakeOutBackwards(state, row) ==
    [rows |-> RemoveAt(state.rows, row),
     taken |-> Append(state.taken, state.rows[row]),
     pos |-> IF row <= state.pos /\ state.pos > 1 THEN state.pos - 1 ELSE state.pos]

(* Rows of this editor dropped onto its row `pos': they are taken out, the *)
(* position moves along, and they are put in again.                        *)
TakeOut(state, row) ==
    [rows |-> RemoveAt(state.rows, row),
     taken |-> <<state.rows[row]>> \o state.taken,
     pos |-> IF row <= state.pos /\ state.pos > 1 THEN state.pos - 1 ELSE state.pos]

PutIn(rows, pos, moved) ==
    SubSeq(rows, 1, pos - 1) \o moved \o SubSeq(rows, pos, Len(rows))

Moved(rows, pos) ==
    LET out == FoldLeft(TakeOut, [rows |-> table, taken |-> <<>>, pos |-> pos],
                        FromTheBack(rows))
    IN  PutIn(out.rows, out.pos, out.taken)

DropOwnRows(rows, pos) ==
    /\ rows # {} /\ rows \subseteq DOMAIN table /\ pos \in ViewRows
    /\ ShowsRows(Moved(rows, pos))

(* Rules of another editor, or any text, dropped onto the row `pos': each  *)
(* line that is not in the table yet becomes a rule, the empty one if it   *)
(* is none.                                                                *)
InsertLine(state, line) ==
    LET rule == IF line = Garbage THEN EmptyRule ELSE line
        known == line # Garbage /\ line \in Range(state.rows)
    IN  IF known \/ ~ExpressionOk(rule) \/ ~ActionOk(rule) THEN state
        ELSE [rows |-> InsertAt(state.rows, state.pos, rule), pos |-> state.pos + 1]

DropText(lines, pos) ==
    /\ pos \in ViewRows /\ Room(Len(lines))
    /\ ShowsRows(FoldLeft(InsertLine, [rows |-> table, pos |-> pos], lines).rows)

-----------------------------------------------------------------------------
(* The quick search bars *)

Modes == {"text", "regex", "expression"}

NextMode(mode) ==
    CASE mode = "text" -> "regex" [] mode = "regex" -> "expression"
      [] mode = "expression" -> "text"

NoSearch == Expression("text", "none")

(* What updateSearch makes of the text: nothing of an empty one, nothing   *)
(* of an expression that does not parse.                                   *)
SearchFor(bar) ==
    IF bar.text = "none" \/ (bar.mode = "expression" /\ bar.text = "bad")
    THEN NoSearch ELSE Expression(bar.mode, bar.text)

Highlight(name, search) == Compiled(name, search, MarkText(name))

(* Mutant: the rule of the search before is not cleared when there is none *)
(* now.                                                                    *)
UpdateSearchIfAny(name, bar) ==
    LET search == SearchFor(bar)
    IN  /\ bars' = [bars EXCEPT ![name] = [bar EXCEPT !.search = search]]
        /\ ruleTable' = IF bar.marked /\ search # NoSearch
                        THEN AddRule(Clear(ruleTable, name), name,
                                     Highlight(name, search))
                        ELSE ruleTable
        /\ UNCHANGED <<table, nextUid>>

UpdateSearch(name, bar) ==
    LET search == SearchFor(bar)
        cleared == Clear(ruleTable, name)
    IN  /\ bars' = [bars EXCEPT ![name] = [bar EXCEPT !.search = search]]
        /\ ruleTable' = IF bar.marked /\ search # NoSearch
                        THEN AddRule(cleared, name, Highlight(name, search))
                        ELSE cleared
        /\ UNCHANGED <<table, nextUid>>

(* The names are unique by their numbers, whatever was cleared before.     *)
AddQuicksearchBar ==
    /\ nextUid + 1 \in Bars /\ Len(table) + Cardinality(DOMAIN bars) < MaxThings
    /\ nextUid' = nextUid + 1
    /\ ruleTable' = [ruleTable EXCEPT !.sources = Put(@, nextUid', {})]
    /\ bars' = Put(bars, nextUid', [text |-> "none", mode |-> "text", marked |-> TRUE,
                                    search |-> NoSearch])
    /\ UNCHANGED table

(* Typing alone searches nothing: editingFinished comes later.             *)
Type(name, text) ==
    /\ bars' = [bars EXCEPT ![name].text = text]
    /\ UNCHANGED <<table, ruleTable, nextUid>>

EditingFinished(name) == UpdateSearch(name, bars[name])

SwitchSearchMode(name) ==
    UpdateSearch(name, [bars[name] EXCEPT !.mode = NextMode(@)])

ToggleMark(name) == UpdateSearch(name, [bars[name] EXCEPT !.marked = ~@])

(* A rule dropped onto the line becomes the search, in the mode of its kind. *)
DropOnSearch(name, text, mode) ==
    UpdateSearch(name, [bars[name] EXCEPT !.text = text, !.mode = mode])

(* The trash button of the bar, when the deletion it asked for comes.      *)
DeleteBar(name) ==
    /\ bars' = Restrict(bars, DOMAIN bars \ {name})
    /\ ruleTable' = Clear(ruleTable, name)
    /\ UNCHANGED <<table, nextUid>>

-----------------------------------------------------------------------------
Init ==
    /\ table = <<>>
    /\ ruleTable = [sources |-> <<>>, rules |-> {}, onChange |-> FALSE, discards |-> {}]
    /\ bars = <<>>
    /\ nextUid = 0

Editor ==
    \/ \E row \in ViewRows :
          \/ \E text \in Exps : SetExpression(row, text)
          \/ \E text \in Acts : SetAction(row, text)
          \/ \E text \in Descs : SetDescription(row, text)
    \/ \E rows \in SUBSET DOMAIN table :
          \/ RemoveRules(rows)
          \/ \E pos \in ViewRows : DropOwnRows(rows, pos)
    \/ \E n \in 1..MaxLines : \E lines \in [1..n -> Rules \cup {Garbage}] :
          \E pos \in ViewRows : DropText(lines, pos)

SearchBar(name) ==
    \/ \E text \in SearchTexts :
          \/ Type(name, text)
          \/ \E mode \in Modes : DropOnSearch(name, text, mode)
    \/ EditingFinished(name)
    \/ SwitchSearchMode(name)
    \/ ToggleMark(name)
    \/ DeleteBar(name)

Next == Editor \/ AddQuicksearchBar \/ \E name \in DOMAIN bars : SearchBar(name)

Spec == Init /\ [][Next]_vars

-----------------------------------------------------------------------------
(* Properties *)

(* The type invariant.                                                     *)
TypeOK ==
    /\ table \in Seq(Rules)
    /\ Len(table) <= MaxRows
    /\ nextUid \in 0..Cardinality(Bars)
    /\ DOMAIN bars \subseteq 1..nextUid
    /\ DOMAIN ruleTable.sources \subseteq 0..nextUid
    /\ ruleTable.onChange = FALSE

(* Rules whose expression is the empty text match nothing.                 *)
Effective(rules) == {r \in rules : r.exp.text # "none"}

(* What the rows are drawn by and discarded by is what the editor and the  *)
(* search bars show: the valid rules of the editor and the searches that   *)
(* are marked, nothing left over from a text, a row or a bar that is gone. *)
RulesInForce ==
    LET edited == {CompiledRow(rule) : rule \in {r \in ToSet(table) : ValidRule(r)}}
        marked == {name \in DOMAIN bars :
                      bars[name].marked /\ bars[name].search # NoSearch}
    IN  Effective(ruleTable.rules) =
            Effective(edited \cup {Highlight(name, bars[name].search) : name \in marked})

(* What is written about a cell by the parts of one action: the first part *)
(* that names its column, or else the first that names none.               *)
Written(parts, column, role) ==
    LET about(name) == {i \in DOMAIN parts :
              /\ parts[i][1] = name
              /\ RewriteRule(SubSeq(parts[i], 3, Len(parts[i]))).role = role}
        general == {i \in DOMAIN parts : RewriteRule(parts[i]).role = role}
        said == IF about(Fields[column]) # {} THEN about(Fields[column]) ELSE general
    IN  {ValueOf(parts[i]) : i \in {j \in said : \A k \in said : j <= k}}

(* Whichever of the rules match an entry, and in whatever order their      *)
(* addresses put them, each of its cells is drawn as one of the rules that *)
(* are shown says of it, and as the source says if none does.              *)
CellsAsWritten ==
    LET rewriting == {r \in ruleTable.rules : Action[r.act].kind = "rewrite"}
        shown == {rule.act : rule \in {r \in ToSet(table) : ValidRule(r)}}
                 \cup {MarkText(name) : name \in DOMAIN bars}
    IN  \A matched \in SUBSET rewriting : \A order \in SetToSeqs(matched) :
        \A column \in Columns, role \in Roles :
            LET actions == [i \in DOMAIN order |-> Action[order[i].act]]
                drawn == Data("as it is", actions, column, role)
                texts == {r.act : r \in matched} \cap shown
                said == UNION {Written(act.parts, column, role) : act \in texts}
            IN  IF said = {} THEN drawn = "as it is"
                ELSE drawn \in said

(* The filter discards by the rules of the table as they are now, after    *)
(* any batch of changes between beginChange and endChange.                 *)
DiscardsUpToDate == ruleTable.discards = DiscardsOf(ruleTable.rules)

(* The rows of a set as they follow each other.                            *)
FromTheFront(rows) ==
    CHOOSE order \in [1 .. Cardinality(rows) -> rows] :
        \A i, j \in DOMAIN order : i < j => order[i] < order[j]

Pick(rows) == [i \in 1 .. Cardinality(rows) |-> table[FromTheFront(rows)[i]]]

(* Rows moved by drag and drop stand in front of the row they were dropped *)
(* on, in the order they had, between the rows that stayed: nothing lost,  *)
(* nothing doubled (dropMimeData), unless they are dropped onto themselves.*)
CutAndPaste(rows, pos) ==
    LET stay == DOMAIN table \ rows
    IN  Pick({r \in stay : r < pos}) \o Pick(rows) \o Pick({r \in stay : r >= pos})

DropPlacesRows ==
    \A rows \in SUBSET DOMAIN table \ {{}} : \A pos \in ViewRows \ rows :
        Moved(rows, pos) = CutAndPaste(rows, pos)

=============================================================================
