------------------------------ MODULE RuleText ------------------------------
(***************************************************************************)
(* The rules of the rule editor survive a restart of the program as text:  *)
(* FilterRuleCompiled::toString writes                                     *)
(*     "description":{expression}=>{action}                                *)
(* and its constructor parses it.  FilterRuleSelectionWindow stores the    *)
(* texts when it is destroyed and appends them when it is built.           *)
(*                                                                         *)
(* A text is a sequence of characters, of which only those the conversion  *)
(* treats differently are told apart: the backslash, the characters that   *)
(* close a part, other ASCII characters and all the rest, which the        *)
(* parser's ASCII character class does not accept.                         *)
(***************************************************************************)
EXTENDS Naturals, SequencesExt

CONSTANTS
    Rules,      \* the rules the user may enter
    MaxRules    \* bound: rules of the editor

Backslash == "backslash"
Quote == "quote"
Close == "close brace"
Letter == "letter"
NotAscii == "not ascii"
Chars == {Backslash, Quote, Close, Letter, NotAscii}

ASSUME RulesAssumption ==
    Rules \subseteq [description : Seq(Chars), expression : Seq(Chars), action : Seq(Chars)]

VARIABLES
    rules,      \* the rows of the editor, m_rulesModel
    stored,     \* the array "Rules" of the settings
    running,    \* whether the program runs
    kept        \* history: the rows when the program ended

vars == <<rules, stored, running, kept>>

EmptyRule == [description |-> <<>>, expression |-> <<>>, action |-> <<>>]

-----------------------------------------------------------------------------
(* A backslash before each backslash and each character that would end the *)
(* part.                                                                   *)
Quoted(text, close) ==
    FlattenSeq([i \in DOMAIN text |->
        IF text[i] \in {Backslash, close} THEN <<Backslash, text[i]>> ELSE <<text[i]>>])

RuleToString(rule) ==
    <<Quote>> \o Quoted(rule.description, Quote) \o <<Quote, ":", "{">>
    \o Quoted(rule.expression, Close) \o <<Close, "=>", "{">>
    \o Quoted(rule.action, Close) \o <<Close>>

(* quotedQString from position i on.  The operator || of the grammar takes *)
(* an escaped character, or a character that does not close the part, or   *)
(* one of each: behind an escaped character a backslash is a plain one.    *)
Unquoted(s, i, close) ==
    LET ascii(j) == j <= Len(s) /\ s[j] # NotAscii
        escaped(j) == ascii(j) /\ s[j] = Backslash /\ ascii(j + 1)
        plain(j) == ascii(j) /\ s[j] # close
        more(rest, text) == [rest EXCEPT !.text = text \o @]
        parse[j \in i .. Len(s) + 2] ==
            CASE escaped(j) /\ plain(j + 2) ->
                    more(parse[j + 3], <<s[j + 1], s[j + 2]>>)
              [] escaped(j) /\ ~plain(j + 2) -> more(parse[j + 2], <<s[j + 1]>>)
              [] ~escaped(j) /\ plain(j) -> more(parse[j + 1], <<s[j]>>)
              [] OTHER -> [text |-> <<>>, end |-> j]
    IN  parse[i]

(* Whether s goes on with the given characters at position i.              *)
At(s, i, chars) ==
    i + Len(chars) - 1 <= Len(s) /\ SubSeq(s, i, i + Len(chars) - 1) = chars

(* The constructor: a text that is no rule makes an empty one.             *)
FilterRuleCompiled(s) ==
    LET d == Unquoted(s, 2, Quote)
        e == Unquoted(s, d.end + 3, Close)
        a == Unquoted(s, e.end + 3, Close)
    IN  IF /\ At(s, 1, <<Quote>>)
           /\ At(s, d.end, <<Quote, ":", "{">>)
           /\ At(s, e.end, <<Close, "=>", "{">>)
           /\ At(s, a.end, <<Close>>) /\ a.end = Len(s)
        THEN [description |-> d.text, expression |-> e.text, action |-> a.text]
        ELSE EmptyRule

-----------------------------------------------------------------------------
HasRule(rows, s) == \E i \in DOMAIN rows : RuleToString(rows[i]) = s

(* Mutant: what is in the table already is appended again. *)
AppendAnyRule(rows, s) == Append(rows, FilterRuleCompiled(s))

AppendRule(rows, s) ==
    IF HasRule(rows, s) THEN rows ELSE Append(rows, FilterRuleCompiled(s))

Init ==
    /\ rules = <<>>
    /\ stored = <<>>
    /\ running = TRUE
    /\ kept = <<>>

(* The user fills in a row, the last one of the view included.             *)
Edit(row, rule) ==
    /\ running
    /\ row \in 1 .. Len(rules) + 1 /\ row <= MaxRules
    /\ rules' = IF row > Len(rules) THEN Append(rules, rule)
                ELSE [rules EXCEPT ![row] = rule]
    /\ UNCHANGED <<stored, running, kept>>

RemoveRow(row) ==
    /\ running
    /\ row \in DOMAIN rules
    /\ rules' = RemoveAt(rules, row)
    /\ UNCHANGED <<stored, running, kept>>

(* storeRules, from the destructor.                                        *)
Quit ==
    /\ running
    /\ running' = FALSE
    /\ stored' = [i \in DOMAIN rules |-> RuleToString(rules[i])]
    /\ kept' = rules
    /\ rules' = <<>>

(* The program ends without its destructors: nothing is stored.            *)
Crash ==
    /\ running
    /\ running' = FALSE
    /\ rules' = <<>>
    /\ UNCHANGED <<stored, kept>>

(* loadRules, from the constructor.                                        *)
Start ==
    /\ ~running
    /\ running' = TRUE
    /\ rules' = FoldLeft(AppendRule, <<>>, stored)
    /\ UNCHANGED <<stored, kept>>

Next ==
    \/ \E row \in 1..MaxRules : RemoveRow(row) \/ \E rule \in Rules : Edit(row, rule)
    \/ Quit
    \/ Crash
    \/ Start

Spec == Init /\ [][Next]_vars

-----------------------------------------------------------------------------
(* Properties *)

(* The rows without the later ones of equal rules: appendRule takes none   *)
(* that is there already.                                                  *)
WithoutRepeats(rows) ==
    FoldLeft(LAMBDA seen, rule : IF Contains(seen, rule) THEN seen ELSE Append(seen, rule),
             <<>>, rows)

(* After a restart the editor shows the rules it showed when the program   *)
(* ended, in their order (storeRules, loadRules): what toString writes     *)
(* recreates the rule.                                                     *)
RulesSurviveRestart ==
    [][~running /\ running' => rules' = WithoutRepeats(kept)]_vars

=============================================================================
