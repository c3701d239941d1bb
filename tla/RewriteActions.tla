--------------------------- MODULE RewriteActions ---------------------------
(***************************************************************************)
(* The actions of rules: their texts (ActionParser), what a rewriting      *)
(* action changes (ActionDataRewriter), and how a shown cell comes by its  *)
(* data (LogEntryTableFilter::data).                                       *)
(*                                                                         *)
(* A text is what stands before its brackets and the parts between its     *)
(* commas, each a sequence of words and colons: the blanks are skipped.    *)
(***************************************************************************)
EXTENDS Naturals, Integers, SequencesExt

CONSTANTS
    Fields,     \* the short names of the fields of the source, column by column
    Colors      \* words of the color table, and codes #rrggbb

ASSUME FieldsAssumption == Fields \in Seq(STRING) /\ IsInjective(Fields)

Texts == [call : STRING, parts : Seq(Seq(STRING))]

NoText == [call |-> "", parts |-> <<>>]
DiscardText == [call |-> "discard", parts |-> <<>>]
RewriteText(parts) == [call |-> "rewrite", parts |-> parts]

Columns == DOMAIN Fields
Roles == {"foreground", "background", "decoration", "display"}

ColorRole == [FG |-> "foreground", BG |-> "background"]
Icons == {"fatal", "error", "warn", "info", "trace"}

-----------------------------------------------------------------------------
(* The grammar: rewriteRule, then rewriteRuleColumn. *)

NoChange == [role |-> "none"]
Change(role, value) == [role |-> role, value |-> value]

(* A text takes none: only the text of the source can be wiped.            *)
RewriteRule(words) ==
    CASE /\ Len(words) = 3 /\ words[1] \in DOMAIN ColorRole
         /\ words[2] = ":" /\ words[3] \in Colors -> Change(ColorRole[words[1]], words[3])
      [] /\ Len(words) = 3 /\ words[1] = "icon"
         /\ words[2] = ":" /\ words[3] \in Icons -> Change("decoration", words[3])
      [] words = <<"text", ":">> -> Change("display", "")
      [] OTHER -> NoChange

IsName(word) == word \notin {":", "#"} \cup Colors \cup Icons

(* Behind text: the parser has committed itself to a text.                 *)
NamesColumn(words) ==
    /\ Len(words) > 2 /\ IsName(words[1]) /\ words[1] # "text" /\ words[2] = ":"
    /\ RewriteRule(SubSeq(words, 3, Len(words))) # NoChange

IsPart(words) == RewriteRule(words) # NoChange \/ NamesColumn(words)

-----------------------------------------------------------------------------
(* ActionDataRewriter: what changes, by role and column; 0 is the whole row. *)

WholeRow == 0

(* A name the source has no field of changes nothing.                      *)
KeysOf(words) ==
    IF RewriteRule(words) # NoChange THEN {<<RewriteRule(words).role, WholeRow>>}
    ELSE {<<RewriteRule(SubSeq(words, 3, Len(words))).role, column>> :
              column \in {i \in Columns : Fields[i] = words[1]}}

ValueOf(words) ==
    IF RewriteRule(words) # NoChange THEN RewriteRule(words).value
    ELSE RewriteRule(SubSeq(words, 3, Len(words))).value

(* insert() leaves a change that is there as it is.                        *)
AddChangeSet(changes, words) ==
    [key \in DOMAIN changes \cup KeysOf(words) |->
        IF key \in DOMAIN changes THEN changes[key] ELSE ValueOf(words)]

ParseAction(text) ==
    CASE /\ text.call = "rewrite" /\ text.parts # <<>>
         /\ \A i \in DOMAIN text.parts : IsPart(text.parts[i]) ->
            [kind |-> "rewrite", changes |-> FoldLeft(AddChangeSet, <<>>, text.parts)]
      [] text = DiscardText -> [kind |-> "discard"]
      [] text = NoText -> [kind |-> "nothing"]
      [] OTHER -> [kind |-> "bad"]

(* Mutant: what is said of the row goes before what is said of the cell. *)
ModifyRowFirst(value, changes, column, role) ==
    CASE <<role, WholeRow>> \in DOMAIN changes -> changes[<<role, WholeRow>>]
      [] <<role, column>> \in DOMAIN changes -> changes[<<role, column>>]
      [] OTHER -> value

ModifyData(value, changes, column, role) ==
    CASE <<role, column>> \in DOMAIN changes -> changes[<<role, column>>]
      [] /\ <<role, column>> \notin DOMAIN changes
         /\ <<role, WholeRow>> \in DOMAIN changes -> changes[<<role, WholeRow>>]
      [] OTHER -> value

ModifyCell(var, cell) == ModifyData(var, cell.changes, cell.column, cell.role)

(* The actions of all rules that match, one after the other.               *)
Data(value, actions, column, role) ==
    FoldLeft(ModifyCell, value,
             [i \in DOMAIN actions |->
                 [changes |-> actions[i].changes, column |-> column, role |-> role]])

=============================================================================
