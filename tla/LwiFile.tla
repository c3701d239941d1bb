------------------------------- MODULE LwiFile -------------------------------
(***************************************************************************)
(* LogWitch's own file format: LogEntryTableModelFileExporter writes the   *)
(* rows of a table, LogEntryParser_LogfileLWI reads them back.  Texts are  *)
(* sequences of the characters the format tells apart: x, a blank, a dash  *)
(* and a line end, and % and = for the line of the context.  Fields are    *)
(* counted from 0, as in the code; field 0 is the number, which every      *)
(* source has first.  OpenLogfile composes the two with the window and     *)
(* states the assumption on the constants.                                 *)
(***************************************************************************)
EXTENDS Integers, SequencesExt

CONSTANTS
    Fields,         \* number of fields of an entry
    MessageID,      \* the one whose description is `message'
    Texts,          \* texts of the other fields
    Numbers         \* the number column, one character for each row

VARIABLES
    phase,          \* idle, written, run, next (entry), gather (lines), split, done
    header,         \* the field of each column of the file, -1 without one
    file,           \* what is in the file behind its header
    order,          \* m_order of the parser
    fields,         \* number of fields of the parser's factory
    rest,           \* lines not read yet
    stash,          \* m_stashedLine
    str,            \* logEntryString
    newEntries,     \* entries of the message run() gathers
    abort,          \* m_abort
    rows, whole     \* history: the rows exported, how many are whole in the file

vars == <<phase, header, file, order, fields, rest, stash, str, newEntries,
          abort, rows, whole>>
reader == <<order, fields, rest, stash, str, newEntries, abort>>

FieldIDs == 0 .. Fields - 1
Separator == <<" ", "-", " ">>
LineEnd == <<"\n">>
ContextID == <<"%", "=">>   \* the name behind it selects no entries

-----------------------------------------------------------------------------
(* Texts *)

(* Where `pattern' is found in `s', looked for from the left and without   *)
(* overlaps.                                                               *)
Matches(s, pattern) ==
    LET m == Len(pattern)
        from[i \in 1 .. Len(s) + m] ==
            IF i + m - 1 > Len(s) THEN <<>>
            ELSE IF SubSeq(s, i, i + m - 1) = pattern THEN <<i>> \o from[i + m]
            ELSE from[i + 1]
    IN  from[1]

(* The parts of `s' between these places: QString::split.                  *)
Split(s, pattern) ==
    LET m == Len(pattern)
        at == <<1 - m>> \o Matches(s, pattern) \o <<Len(s) + 1>>
    IN  [i \in 1 .. Len(at) - 1 |-> SubSeq(s, at[i] + m, at[i + 1] - 1)]

Join(parts, glue) ==
    LET upTo[n \in 1..Len(parts)] == IF n = 1 THEN parts[1] ELSE upTo[n - 1] \o glue \o parts[n]
    IN  upTo[Len(parts)]

Replace(s, pattern, by) == Join(Split(s, pattern), by)

-----------------------------------------------------------------------------
(* LogEntryTableModelFileExporter *)

(* Mutant: the message keeps its own place, too. *)
ExportOrderTwice == [i \in 1..Fields |-> i - 1] \o <<MessageID>>

(* The message goes to the end, the fields behind it move up.              *)
ExportOrder ==
    [c \in 1..Fields |-> IF c <= MessageID THEN c - 1 ELSE IF c < Fields THEN c ELSE MessageID]

Escaped(field, text) ==
    LET entry == Replace(text, LineEnd, <<"\n", " ">>)
    IN  IF field = MessageID THEN entry ELSE Replace(entry, Separator, <<" ", "-", "-", " ">>)

(* Every line begins with a text, the number: a separator goes in front of *)
(* every other one, an empty one, too.                                     *)
LineOf(row) ==
    Join([c \in 1..Fields |-> Escaped(ExportOrder[c], row[ExportOrder[c]])], Separator)

TextOf(exported) ==
    Join(<<ContextID \o LineEnd>> \o [i \in DOMAIN exported |-> LineOf(exported[i]) \o LineEnd], <<>>)

(* exportTo, all in one call while the table is locked.                    *)
Export ==
    /\ phase = "idle"
    /\ \E n \in 0..Len(Numbers) : \E text \in [1..n -> [FieldIDs \ {0} -> Texts]] :
          rows' = [i \in 1..n |-> [f \in FieldIDs |-> IF f = 0 THEN <<Numbers[i]>> ELSE text[i][f]]]
    /\ whole' = Len(rows')
    /\ header' = ExportOrder
    /\ file' = TextOf(rows')
    /\ phase' = "written"
    /\ UNCHANGED reader

(* Neither open() nor a write is looked at: the disk is full, or the       *)
(* program ends, and the file holds a part of what was to be written.      *)
WriteFails ==
    /\ phase = "written" /\ whole = Len(rows) /\ Len(header) = Fields
    /\ \/ \E n \in 0 .. Len(file) - 1 :
            /\ file' = SubSeq(file, 1, n)
            /\ \E r \in 0..Len(rows) :
                  /\ r = 0 \/ Len(TextOf(SubSeq(rows, 1, r))) <= n + 1
                  /\ r < Len(rows) => Len(TextOf(SubSeq(rows, 1, r + 1))) > n + 1
                  /\ whole' = r
            /\ UNCHANGED header
       \/ \E n \in 0 .. Fields - 1, column \in {<<>>, <<-1>>} :
            /\ header' = SubSeq(header, 1, n) \o column
            /\ file' = <<>> /\ whole' = 0
    /\ UNCHANGED <<phase, rows>> /\ UNCHANGED reader

-----------------------------------------------------------------------------
(* LogEntryParser_LogfileLWI *)

(* A file without its magic is left to the next parser.  The columns give  *)
(* the place of each field in an entry; when one has no place, or a place  *)
(* is missing, they are taken as they come, and then the fields that were  *)
(* added before the missing one was noticed are added again.  The next     *)
(* line names the context; if it was torn in front of its =, it is kept as *)
(* if it began an entry.                                                   *)
HasMagic == phase = "written" /\ header # <<>>

InitParser ==
    /\ HasMagic
    /\ LET columns == 0 .. Len(header) - 1
           missing == columns \ Range(header)
           lines == Split(file, LineEnd)
           behind == Tail(lines)
       IN  /\ order' = [c \in columns |-> IF missing = {} THEN header[c + 1] ELSE c]
           /\ fields' = Len(header) + (IF missing = {} \/ -1 \in Range(header) THEN 0
                                       ELSE Min(missing))
           /\ stash' = IF IsPrefix(ContextID, Head(lines)) THEN <<>> ELSE Head(lines)
           /\ rest' = IF behind # <<>> /\ Last(behind) = <<>> THEN Front(behind) ELSE behind
    /\ phase' = "run"
    /\ str' = <<>> /\ newEntries' = <<>> /\ abort' = FALSE
    /\ UNCHANGED <<header, file, rows, whole>>

(* The window is closed while the file is read: the destructor.            *)
Abort ==
    /\ abort' = TRUE
    /\ UNCHANGED <<phase, header, file, order, fields, rest, stash, str,
                   newEntries, rows, whole>>

AtEnd == rest = <<>> /\ stash = <<>>

(* getNextLogEntry: the line the last entry stopped at begins the next     *)
(* one.  run() looks at m_abort between two entries only.                  *)
BeginEntry ==
    /\ phase = "next" \/ (phase = "run" /\ ~abort)
    /\ ~AtEnd
    /\ str' = stash /\ stash' = <<>>
    /\ phase' = "gather"
    /\ UNCHANGED <<header, file, order, fields, rest, newEntries, abort, rows, whole>>

(* Mutant: the line that ends an entry is not kept for the next one. *)
GatherLineLosing ==
    /\ phase = "gather" /\ rest # <<>>
    /\ LET line == Head(rest)
           ends == str # <<>> /\ (line = <<>> \/ line[1] # " ")
       IN  /\ str' = IF ends THEN str ELSE str \o line
           /\ phase' = IF ends THEN "split" ELSE phase
    /\ stash' = <<>> /\ rest' = Tail(rest)
    /\ UNCHANGED <<header, file, order, fields, newEntries, abort, rows, whole>>

(* A line that begins with a blank goes on with the entry, and keeps its   *)
(* blank in place of the line end.                                         *)
GatherLine ==
    /\ phase = "gather" /\ rest # <<>>
    /\ LET line == IF stash = <<>> THEN Head(rest) ELSE stash
           ends == str # <<>> /\ (line = <<>> \/ line[1] # " ")
       IN  /\ str' = IF ends THEN str ELSE str \o line
           /\ stash' = IF ends THEN line ELSE <<>>
           /\ phase' = IF ends THEN "split" ELSE phase
    /\ rest' = IF stash = <<>> THEN Tail(rest) ELSE rest
    /\ UNCHANGED <<header, file, order, fields, newEntries, abort, rows, whole>>

LastLine ==
    /\ phase = "gather" /\ rest = <<>>
    /\ phase' = "split"
    /\ UNCHANGED <<header, file, rows, whole>> /\ UNCHANGED reader

(* The entry of a text, or none if it has too few parts: what is left of   *)
(* the parts is the last field, the message.                               *)
EntryOf(text) ==
    LET split == Split(text, Separator)
        parts == IF Len(split) <= fields THEN split
                 ELSE Append(SubSeq(split, 1, fields - 1),
                             Join(SubSeq(split, fields, Len(split)), Separator))
    IN  IF Len(parts) < fields THEN <<>>
        ELSE <<[f \in FieldIDs |-> parts[CHOOSE i \in 1..fields : order[i - 1] = f]]>>

(* A text that is no entry is skipped, without another look at m_abort.    *)
SplitEntry ==
    /\ phase = "split"
    /\ newEntries' = newEntries \o EntryOf(str)
    /\ phase' = IF EntryOf(str) = <<>> THEN "next" ELSE "run"
    /\ UNCHANGED <<header, file, order, fields, rest, stash, str, abort, rows, whole>>

(* The one message with all entries is sent.                               *)
Finish ==
    /\ phase \in {"run", "next"}
    /\ AtEnd \/ (phase = "run" /\ abort)
    /\ phase' = "done"
    /\ UNCHANGED <<header, file, rows, whole>> /\ UNCHANGED reader

Init ==
    /\ phase = "idle"
    /\ header = <<>> /\ file = <<>> /\ rest = <<>> /\ stash = <<>> /\ str = <<>>
    /\ order = <<>> /\ fields = 0 /\ newEntries = <<>> /\ abort = FALSE
    /\ rows = <<>> /\ whole = 0

Read == BeginEntry \/ GatherLine \/ LastLine \/ SplitEntry \/ Finish

-----------------------------------------------------------------------------
(* Properties *)

(* The type invariant: a file with rows has a header with all fields.      *)
TypeOK ==
    /\ phase \in {"idle", "written", "run", "next", "gather", "split", "done"}
    /\ abort \in BOOLEAN
    /\ whole \in 0 .. Len(rows)
    /\ file # <<>> => header = ExportOrder
    /\ phase \in {"gather", "split"} => fields = Fields /\ DOMAIN order = FieldIDs
    /\ \A i \in DOMAIN newEntries : DOMAIN newEntries[i] = FieldIDs

(* A text that survives in a field in front of another one: no line end,   *)
(* no separator, nor the beginning of one at its end.                      *)
Plain(text) ==
    /\ "\n" \notin Range(text)
    /\ Len(Split(text \o Separator, Separator)) = 2
    /\ Split(text \o Separator, Separator)[1] = text

(* Every row that got into the file whole is one entry again, in its       *)
(* place, whatever its texts are: no line end and no separator in them     *)
(* makes two entries of it or takes one away.  If the other fields are     *)
(* plain, the message comes back with blanks for its line ends.  An abort  *)
(* or a torn file cuts the entries short and changes nothing else, except  *)
(* for one entry of the row that was torn.                                 *)
RowsComeBack ==
    phase = "done" =>
        /\ Len(newEntries) <= whole + 1
        /\ ~abort => Len(newEntries) >= whole
        /\ \A i \in DOMAIN newEntries : i <= whole =>
              /\ newEntries[i][0] = rows[i][0]
              /\ (\A f \in FieldIDs \ {MessageID} : Plain(rows[i][f])) =>
                    newEntries[i] = [rows[i] EXCEPT ![MessageID] =
                        Replace(rows[i][MessageID], LineEnd, <<" ">>)]

=============================================================================
