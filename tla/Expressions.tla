---------------------------- MODULE Expressions ----------------------------
(***************************************************************************)
(* The expressions of rules and searches: ExpressionParser::parse and the  *)
(* subclasses of Expression.  A text is a sequence of tokens (the blanks   *)
(* between them are skipped), each a tuple of strings: <<"&&">> is an      *)
(* operator or a bare word, <<"/", "a">> the word a between slashes.       *)
(*                                                                         *)
(* An expression is what can be told of it: whether it isValid(), the      *)
(* entries it matches, the entries on which match() asks for an attribute  *)
(* that no entry has, what out() writes, and what becomes of it when it is *)
(* dropped on a search bar.                                                *)
(***************************************************************************)
EXTENDS Integers, Sequences

CONSTANTS
    Fields,         \* short names of the window's columns
    Values,         \* what a cell may hold
    Names,          \* words made of letters, which may be names of columns
    QuotedWords,    \* words that hold a quotation mark
    Finds,          \* <<value, word>>: the value contains the word
    RegexFinds      \* <<value, word>>: the word, as a regular expression, is found

ASSUME ExpressionsAssumption ==
    /\ Fields \subseteq Names
    /\ \A pair \in Finds \cup RegexFinds : pair \in Values \X STRING

Entries == [Fields -> Values]

(* The kinds of search of a bar, QuickSearchBar::SearchModes.              *)
SearchModes == {"Text", "Regex", "Expression"}

-----------------------------------------------------------------------------
(* ValueGetterConstQString and ValueGetterLogEntry.  The name of a column  *)
(* the window does not have gives m_fieldId -1.                            *)
ConstQString(word) ==
    [valid |-> TRUE, field |-> FALSE, value |-> [e \in Entries |-> word], text |-> <<<<"\"", word>>>>]

LogEntryField(name) ==
    [valid |-> name \in Fields, field |-> TRUE, text |-> <<<<name>>>>,
     value |-> [e \in Entries |-> IF name \in Fields THEN e[name] ELSE ""]]

(* An expression that compares what getters return: an attribute -1 is     *)
(* read where one of them is not valid, whatever the entry.                *)
Basic(valid, matches, text) ==
    [valid |-> valid, text |-> text,
     matches |-> IF valid THEN matches ELSE {},
     undefined |-> IF valid THEN {} ELSE Entries,
     dropMode |-> "Expression", dropText |-> text]

(* Mutant: the pattern of any column becomes the text of the search. *)
DropsAsAnyColumn(exp, getter, mode, word) ==
    IF getter.field THEN [exp EXCEPT !.dropMode = mode, !.dropText = <<<<word>>>>] ELSE exp

(* A pattern looked for in the message becomes the text of the search bar  *)
(* it is dropped on (QuickSearchLineEdit::dropEvent), anything else        *)
(* becomes an expression.                                                  *)
DropsAs(exp, getter, mode, word) ==
    IF getter.field /\ getter.text = <<<<"message">>>>
    THEN [exp EXCEPT !.dropMode = mode, !.dropText = <<<<word>>>>]
    ELSE exp

(* What out() writes for a pattern, which it does not escape: a quotation  *)
(* mark inside leaves one without its partner.                             *)
Pattern(word) == IF word \in QuotedWords THEN <<<<"\"", word>>, <<"\"">>>> ELSE <<<<"\"", word>>>>

ExpressionMatch(left, right) ==
    Basic(left.valid /\ right.valid,
          {e \in Entries : left.value[e] = right.value[e]},
          left.text \o <<<<"==">>>> \o right.text)

ExpressionRegEx(getter, word) ==
    DropsAs(Basic(getter.valid,
                  {e \in Entries : <<getter.value[e], word>> \in RegexFinds},
                  getter.text \o <<<<"=~">>>> \o Pattern(word)),
            getter, "Regex", word)

ExpressionFind(getter, word) ==
    DropsAs(Basic(getter.valid,
                  {e \in Entries : <<getter.value[e], word>> \in Finds},
                  <<<<"find(">>>> \o getter.text \o <<<<",">>>> \o Pattern(word) \o <<<<")">>>>),
            getter, "Text", word)

ExpressionConst(value) ==
    Basic(TRUE, IF value THEN Entries ELSE {}, IF value THEN <<<<"true">>>> ELSE <<<<"false">>>>)

(* match() of an operator, which asks its right operand only if it has to. *)
Operator(valid, matches, undefined, text) ==
    [valid |-> valid, matches |-> matches \ undefined, undefined |-> undefined, text |-> text,
     dropMode |-> "Expression", dropText |-> text]

ExpressionOpNegate(exp) ==
    Operator(exp.valid, Entries \ exp.matches, exp.undefined,
             <<<<"!(">>>> \o exp.text \o <<<<")">>>>)

Joined(left, op, right) ==
    <<<<"(">>>> \o left.text \o <<<<op>>>> \o right.text \o <<<<")">>>>

ExpressionOpAnd(left, right) ==
    Operator(left.valid /\ right.valid, left.matches \cap right.matches,
             left.undefined \cup (left.matches \cap right.undefined), Joined(left, "&&", right))

ExpressionOpOr(left, right) ==
    Operator(left.valid /\ right.valid, left.matches \cup right.matches,
             left.undefined \cup (right.undefined \ left.matches), Joined(left, "||", right))

ExpressionOpXOr(left, right) ==
    Operator(left.valid /\ right.valid,
             (left.matches \cup right.matches) \ (left.matches \cap right.matches),
             left.undefined \cup right.undefined, Joined(left, "^^", right))

(* The null pointer.                                                       *)
NoExpression ==
    [valid |-> FALSE, matches |-> {}, undefined |-> {}, text |-> <<>>,
     dropMode |-> "Expression", dropText |-> <<>>]

-----------------------------------------------------------------------------
(* The grammar, at position i of a text: each rule gives the position      *)
(* behind what it takes and the expression built, or position 0.           *)
Token(text, i) == IF i \in DOMAIN text THEN text[i] ELSE <<"end of the text">>

Failure == [end |-> 0, exp |-> NoExpression]

QuotedBy(token, marks) == Len(token) = 2 /\ token[1] \in marks

IsName(token) == Len(token) = 1 /\ token[1] \in Names

IsValueGetter(token) == QuotedBy(token, {"\""}) \/ IsName(token)

ValueGetter(token) == IF IsName(token) THEN LogEntryField(token[1]) ELSE ConstQString(token[2])

(* `exp', or its negation behind an operator that begins with "!".         *)
Signed(negated, exp) == IF negated THEN ExpressionOpNegate(exp) ELSE exp

BasicExpr(text, i) ==
    LET t(k) == Token(text, i + k)
    IN  CASE IsValueGetter(t(0)) /\ t(1) \in {<<"==">>, <<"!=">>} /\ IsValueGetter(t(2)) ->
               [end |-> i + 3, exp |-> Signed(t(1) = <<"!=">>,
                                              ExpressionMatch(ValueGetter(t(0)), ValueGetter(t(2))))]
          [] /\ IsValueGetter(t(0)) /\ t(1) \in {<<"=~">>, <<"!~">>}
             /\ QuotedBy(t(2), {"\"", "/", "|", "#"}) ->
               [end |-> i + 3, exp |-> Signed(t(1) = <<"!~">>,
                                              ExpressionRegEx(ValueGetter(t(0)), t(2)[2]))]
          [] /\ t(0) = <<"find(">> /\ IsValueGetter(t(1)) /\ t(2) = <<",">>
             /\ QuotedBy(t(3), {"\""}) /\ t(4) = <<")">> ->
               [end |-> i + 5, exp |-> ExpressionFind(ValueGetter(t(1)), t(3)[2])]
          [] OTHER ->
               IF t(0) \in {<<"true">>, <<"false">>}
               THEN [end |-> i + 1, exp |-> ExpressionConst(t(0) = <<"true">>)]
               ELSE Failure

(* Mutant: || binds stronger than ^^. *)
OperatorsOrFirst == <<"&&", "||", "^^">>

(* Level 0 is unaryExprTerm, then andExprTerm, xorExprTerm and orExprTerm. *)
(* The first alternative of a level is two terms of the level below with   *)
(* its operator between them, the second one term: there are no chains.    *)
OperatorOf == <<"&&", "^^", "||">>

Combine(op, left, right) ==
    CASE op = "&&" -> ExpressionOpAnd(left, right)
      [] op = "^^" -> ExpressionOpXOr(left, right)
      [] op = "||" -> ExpressionOpOr(left, right)

Expression(text) ==
    LET parse[level \in 0..3, i \in 1 .. Len(text) + 1] ==
            IF level = 0
            THEN LET inner == parse[3, i + 1]
                 IN  IF Token(text, i) \in {<<"!(">>, <<"(">>}
                     THEN IF inner.end > 0 /\ Token(text, inner.end) = <<")">>
                          THEN [end |-> inner.end + 1,
                                exp |-> Signed(Token(text, i) = <<"!(">>, inner.exp)]
                          ELSE Failure
                     ELSE BasicExpr(text, i)
            ELSE LET left == parse[level - 1, i]
                     right == parse[level - 1, left.end + 1]
                 IN  IF /\ left.end > 0 /\ Token(text, left.end) = <<OperatorOf[level]>>
                        /\ right.end > 0
                     THEN [end |-> right.end, exp |-> Combine(OperatorOf[level], left.exp, right.exp)]
                     ELSE left
    IN  parse[3, 1]

(* ExpressionParser::parse: the empty text is false, and a text with       *)
(* something left over is nothing.                                         *)
Parse(text) ==
    LET whole == Expression(text)
    IN  CASE text = <<>> -> ExpressionConst(FALSE)
          [] whole.end = Len(text) + 1 -> whole.exp
          [] OTHER -> NoExpression

=============================================================================
