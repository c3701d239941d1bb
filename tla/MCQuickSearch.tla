---------------------------- MODULE MCQuickSearch ----------------------------
(* Model checking of QuickSearch: tables of up to three rows, expressions of each kind, two   *)
(* and three of them with every pair of operators and every placing of parentheses, and what  *)
(* is left of such a text when a token is missing.                                            *)
EXTENDS QuickSearch, SequencesExt

Word(w) == <<<<w>>>>
Quoted(w) == <<<<"\"", w>>>>

MCNames == {"message", "level", "lvl", "true", "false"}
MCFinds == {<<"a", "a">>, <<"b", "b">>}
MCRegexFinds == {<<"a", "a">>, <<"a", ".">>, <<"b", ".">>}

MessageIsA == Word("message") \o Word("==") \o Quoted("a")
LevelHasA == Word("find(") \o Word("level") \o Word(",") \o Quoted("a") \o Word(")")
NotFalse == Word("!(") \o Word("false") \o Word(")")

Basics == {
    MessageIsA, LevelHasA, NotFalse,
    Quoted("a") \o Word("!=") \o Word("level"),
    Word("message") \o Word("=~") \o <<<<"/", ".">>>>,
    Word("level") \o Word("!~") \o <<<<"|", "b">>>>,
    Word("level") \o Word("=~") \o <<<<"#", "q">>>>,
    Word("find(") \o Word("message") \o Word(",") \o Quoted("q") \o Word(")"),
    Word("find(") \o Word("message") \o Word(",") \o Quoted(".") \o Word(")"),
    Word("find(") \o Quoted("a") \o Word(",") \o Quoted("a") \o Word(")"),
    Quoted("q") \o Word("==") \o Word("message"),
    Word("false"), Word("a"), Word(".")}

Unknown == {
    Word("lvl") \o Word("==") \o Quoted("a"),
    Word("true") \o Word("==") \o Word("level"),
    MessageIsA \o Word("&&") \o Word("lvl") \o Word("=~") \o <<<<"/", "a">>>>}

Chains(a, b, c) == UNION {
    {a \o op \o b \o op2 \o c,
     Word("(") \o a \o op \o b \o Word(")") \o op2 \o c,
     Word("!(") \o a \o op \o b \o Word(")") \o op2 \o c,
     a \o op \o Word("(") \o b \o op2 \o c \o Word(")")}
    : op \in {Word("&&"), Word("^^"), Word("||")}, op2 \in {Word("&&"), Word("^^"), Word("||")}}

LongChain ==
    Word("true") \o Word("&&") \o Word("!(") \o MessageIsA \o Word("||") \o LevelHasA \o Word(")")
    \o Word("^^") \o LevelHasA

MCTexts ==
    Basics \cup Unknown \cup Chains(MessageIsA, LevelHasA, NotFalse)
    \cup {RemoveAt(LongChain, i) : i \in DOMAIN LongChain} \cup {<<>>, LongChain}

MCArriving ==
    {[message |-> "a", level |-> "b"], [message |-> "b", level |-> "a"],
     [message |-> "b", level |-> "b"]}

UnknownTexts == Unknown \cup {MessageIsA}
=============================================================================
