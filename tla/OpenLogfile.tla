----------------------------- MODULE OpenLogfile -----------------------------
(***************************************************************************)
(* A log file is opened: LogfileAnalyser::openLogfile tries the parser of  *)
(* LogWitch's own format first and, when that one refuses the file, the    *)
(* parser of plain log files.  The parser that takes the file gets a       *)
(* window; its thread reads the file and posts one message with all the    *)
(* entries to the window's table, unless the window is closed before.      *)
(***************************************************************************)
EXTENDS Integers, Sequences

CONSTANTS
  Fields, MessageID, Texts, Numbers,    \* of LwiFile
  Files, PackageSize                    \* of LogfileParser

ASSUME FieldsAssumption == Fields \in Nat /\ MessageID \in 1 .. Fields - 1
ASSUME ParserAssumption ==
  /\ <<>> \in Files /\ <<FALSE>> \in Files
  /\ \A f \in Files : f \in Seq(BOOLEAN)
  /\ PackageSize \in Nat \ {0}

VARIABLES
  window,     \* "none", "refused" (the message box), "open", "closing" or "closed"
  capture,    \* m_captureActive of the window's table
  posted,     \* the parser's message waits for the table
  table,      \* m_table
  missed,     \* history: the message came while the table did not capture
  \* the exporter and the parser of the own format
  lwiPhase, header, lwiFile, order, fields, rest, stash, str, newEntries, abort, rows, whole,
  \* the parser of plain files
  phase, file, read, collected, packages, first, joined, entries

Lwi == INSTANCE LwiFile WITH phase <- lwiPhase, file <- lwiFile
Plain == INSTANCE LogfileParser

gui == <<window, capture, posted, table, missed>>
lwiVars == <<lwiPhase, header, lwiFile, order, fields, rest, stash, str, newEntries, abort, rows, whole>>
plainVars == <<phase, file, read, collected, packages, first, joined, entries>>
vars == <<gui, lwiVars, plainVars>>

Init ==
  /\ window = "none" /\ capture = TRUE /\ posted = FALSE /\ table = <<>> /\ missed = FALSE
  /\ Lwi!Init /\ Plain!Init

-----------------------------------------------------------------------------
(* The files: what an earlier export left, whole or torn, or any other.    *)

ExportLogfile ==
  /\ window = "none"
  /\ Lwi!Export \/ Lwi!WriteFails
  /\ UNCHANGED gui /\ UNCHANGED plainVars

\* An export torn in its first line has one line, or none, and it is no log line.
PlainFiles == IF lwiPhase = "idle" THEN Files ELSE {<<>>, <<FALSE>>}

-----------------------------------------------------------------------------
(* The user.                                                               *)

\* openLogfile and createWindowsFromParser, where the window begins to capture.
OpenWindow == window = "none" /\ window' = "open" /\ UNCHANGED <<capture, posted, table, missed>>

OpenOwnFormat ==
  /\ OpenWindow
  /\ Lwi!InitParser
  /\ UNCHANGED plainVars

OpenPlain ==
  /\ OpenWindow
  /\ ~Lwi!HasMagic
  /\ \E lines \in PlainFiles : Plain!InitParser(lines)
  /\ UNCHANGED lwiVars

\* The file cannot be read: both parsers refuse it.
OpenFails ==
  /\ window = "none"
  /\ window' = "refused"
  /\ UNCHANGED <<capture, posted, table, missed>> /\ UNCHANGED lwiVars /\ UNCHANGED plainVars

\* A toggle while no message waits is seen by the next one, as if it came then.
Capture ==
  /\ window = "open" /\ posted
  /\ capture' = ~capture
  /\ UNCHANGED <<window, posted, table, missed>> /\ UNCHANGED lwiVars /\ UNCHANGED plainVars

\* The window takes its table with it, the table its parser, whose destructor sets m_abort
\* and waits: the parser of plain files has one, too, and reads on.
CloseWindow ==
  /\ window = "open"
  /\ window' = "closing"
  /\ IF lwiPhase \in {"idle", "written"} THEN UNCHANGED lwiVars ELSE Lwi!Abort
  /\ UNCHANGED <<capture, posted, table, missed>> /\ UNCHANGED plainVars

ThreadRuns == lwiPhase \notin {"idle", "written", "done"} \/ phase \notin {"idle", "done"}

\* wait() returns; a message that is still posted goes with its receiver.
Destroyed ==
  /\ window = "closing" /\ ~ThreadRuns
  /\ window' = "closed" /\ posted' = FALSE /\ table' = <<>>
  /\ UNCHANGED <<capture, missed>> /\ UNCHANGED lwiVars /\ UNCHANGED plainVars

-----------------------------------------------------------------------------
(* The threads, and the message from one to the other.                     *)

Emitted(wasRunning, ended) == posted' = (posted \/ (wasRunning /\ ended))

RunLwi ==
  /\ Lwi!Read
  /\ Emitted(lwiPhase # "done", lwiPhase' = "done")
  /\ UNCHANGED <<window, capture, table, missed>> /\ UNCHANGED plainVars

\* Faulty variant: the entries are sent when the pool is done with the first package.
RunPlainEarly ==
  /\ Plain!GetEntries
  /\ Emitted(phase = "reading", phase' # "reading")
  /\ UNCHANGED <<window, capture, table, missed>> /\ UNCHANGED lwiVars

RunPlain ==
  /\ Plain!GetEntries
  /\ Emitted(phase # "done", phase' = "done")
  /\ UNCHANGED <<window, capture, table, missed>> /\ UNCHANGED lwiVars

Pool ==
  /\ Plain!ConvertSome
  /\ UNCHANGED gui /\ UNCHANGED lwiVars

InMessage == IF phase = "idle" THEN newEntries ELSE entries

\* LogEntryTableModel::insertEntry: nothing is kept for a table that does not capture.
InsertEntry ==
  /\ window = "open" /\ posted
  /\ posted' = FALSE
  /\ table' = IF capture THEN table \o InMessage ELSE table
  /\ missed' = (missed \/ ~capture)
  /\ UNCHANGED <<window, capture>> /\ UNCHANGED lwiVars /\ UNCHANGED plainVars

Next ==
  \/ ExportLogfile
  \/ OpenOwnFormat \/ OpenPlain \/ OpenFails
  \/ Capture \/ CloseWindow \/ Destroyed
  \/ RunLwi \/ RunPlain \/ Pool \/ InsertEntry

Spec == Init /\ [][Next]_vars

(* The threads run, and the GUI gets to its messages and past the wait.    *)
FairSpec ==
  /\ Spec
  /\ WF_vars(RunLwi) /\ WF_vars(RunPlain) /\ WF_vars(Pool)
  /\ WF_vars(InsertEntry) /\ WF_vars(Destroyed)

-----------------------------------------------------------------------------
(* Properties.                                                             *)

\* The type invariant: one parser at most has a file, and only for a window.
TypeOK ==
  /\ window \in {"none", "refused", "open", "closing", "closed"}
  /\ capture \in BOOLEAN /\ posted \in BOOLEAN
  /\ Lwi!TypeOK /\ Plain!TypeOK
  /\ phase # "idle" => lwiPhase \in {"idle", "written"}
  /\ window \in {"none", "refused"} => ~ThreadRuns
  /\ posted => window \in {"open", "closing"}

\* What LwiFile says of the entries it reads, and LogfileParser of those it joins, holds
\* in whatever order the window is used, closed and destroyed meanwhile.
RowsComeBack == Lwi!RowsComeBack
JoinsAsSequential == Plain!JoinsAsSequential

\* The part of it that is asserted before each join, as far as it holds.
JoinedHasNoLines == Plain!JoinedHasNoLines

Content == IF phase = "idle" THEN newEntries ELSE Plain!Sequential(Len(file))

\* The one message of a file is shown whole and once, or not at all: the table is empty
\* until the file has been read, and never has an entry twice.
ShownWholeAndOnce ==
  table # <<>> => /\ ~posted /\ ~ThreadRuns
                  /\ table = Content

Shown == ~ThreadRuns /\ ~posted /\ (table = Content \/ missed)

\* An opened file is read to its end and its entries come to the table, unless the window
\* is closed or does not capture when the message comes; a window that is closed goes away, since
\* the destructor's wait for the thread ends.
OpeningEnds ==
  /\ window = "open" ~> (window # "open" \/ Shown)
  /\ window = "closing" ~> window = "closed"
=============================================================================
