----------------------------- MODULE MCRuleText -----------------------------
(* Model checking of RuleText: two rows of rules without two characters to be escaped in a    *)
(* row, then single rules with such characters.                                               *)
EXTENDS RuleText

TextsOf(chars, length) == UNION {[1..n -> chars] : n \in 0..length}

NoPair(text, special) ==
    \A i \in 1 .. Len(text) - 1 : ~(text[i] \in special /\ text[i + 1] \in special)

RulesOf(description, expressions) ==
    [description : {description}, expression : expressions, action : {<<Letter>>}]

PlainRules ==
    RulesOf(<<Quote, Letter, Backslash, Letter>>,
            {text \in TextsOf({Backslash, Close, Letter}, 2) : NoPair(text, {Backslash, Close})}
            \cup {<<Backslash, Letter, Close>>, <<Close, Letter, Letter>>})

EscapedRules == RulesOf(<<>>, TextsOf({Backslash, Close, Letter}, 2))
=============================================================================
