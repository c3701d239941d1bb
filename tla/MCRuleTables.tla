---------------------------- MODULE MCRuleTables ----------------------------
(* Model checking of RuleTables: an editor of up to three rows beside two search bars, with   *)
(* texts that parse, that name unknown fields, and that do not parse.                         *)
EXTENDS RuleTables

MCFields == <<"message", "level">>

(* The cell against the row, the first part against a later one, an unknown column.           *)
Repainting ==
    RewriteText(<<<<"level", ":", "text", ":">>, <<"FG", ":", "red">>,
                  <<"level", ":", "FG", ":", "blue">>, <<"level", ":", "FG", ":", "red">>,
                  <<"logger", ":", "BG", ":", "red">>, <<"icon", ":", "info">>>>)

MCActs == {NoText, DiscardText, Repainting}
=============================================================================
