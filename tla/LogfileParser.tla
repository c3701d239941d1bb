---------------------------- MODULE LogfileParser ----------------------------
(***************************************************************************)
(* LogEntryParser_Logfile: a thread reads a log file line by line and cuts *)
(* it into packages of a thousand lines; the threads of a pool match the   *)
(* lines of each package and gather them into entries (WorkPackage::       *)
(* convert); the reading thread then joins the packages in order.  A line  *)
(* that matches the pattern of a log line begins an entry, the lines       *)
(* behind it that do not match belong to its message.                      *)
(*                                                                         *)
(* A line is known by its position in the file, a PreLogEntry by the       *)
(* sequence of its lines.  OpenLogfile composes the parser with the window *)
(* it reads for and states the assumption on the constants.                *)
(***************************************************************************)
EXTENDS Naturals, SequencesExt

CONSTANTS
  Files,       \* the files there are to parse
  PackageSize  \* maxWork

VARIABLES
  file,      \* the file: for each line whether it matches
  phase,     \* "idle" without a thread, then "reading", "joining" and "done"
  read,      \* how many lines have been read
  collected, \* lineProcessors, the lines of the next package
  packages,  \* workPackages: lines, entries, and whether the pool is done with it
  first,     \* firstWorkPackage while joining: m_lines and m_preLogEntries
  joined,    \* how many packages first has taken in
  entries    \* the entries of the message, entryReturn

vars == <<file, phase, read, collected, packages, first, joined, entries>>

Lines == Seq(Nat \ {0})

TypeOK ==
  /\ file \in Files
  /\ phase \in {"idle", "reading", "joining", "done"}
  /\ read \in 0..Len(file)
  /\ collected \in Lines
  /\ packages \in Seq([lines : Lines, pre : Seq(Lines), converted : BOOLEAN])
  /\ first \in [lines : Lines, pre : Seq(Lines)]
  /\ joined \in 0..Len(packages)
  /\ entries \in Seq(Lines)

Init ==
  /\ file = <<>>
  /\ phase = "idle"
  /\ read = 0
  /\ collected = <<>>
  /\ packages = <<>>
  /\ first = [lines |-> <<>>, pre |-> <<>>]
  /\ joined = 0
  /\ entries = <<>>

(* initParser and startEmiting: the stream is got and the thread started.  *)
InitParser(lines) ==
  /\ phase = "idle"
  /\ file' = lines
  /\ phase' = "reading"
  /\ UNCHANGED <<read, collected, packages, first, joined, entries>>

-----------------------------------------------------------------------------
(* WorkPackage::convert: lines in front of the first matching one stay, if *)
(* no entry of the package can take them.                                  *)

TakeLine(pre, line) ==
  IF file[line] THEN Append(pre, <<line>>)
  ELSE IF pre = <<>> THEN pre
  ELSE [pre EXCEPT ![Len(pre)] = Append(@, line)]

Unclaimed(lines, pre) ==
  IF pre # <<>> THEN <<>>
  ELSE LET matching == {i \in DOMAIN lines : file[lines[i]]}
       IN IF matching = {} THEN lines
          ELSE SubSeq(lines, 1, (CHOOSE i \in matching : \A j \in matching : i <= j) - 1)

Converted(lines, pre) ==
  [lines |-> Unclaimed(lines, pre), pre |-> FoldLeft(TakeLine, pre, lines)]

-----------------------------------------------------------------------------
(* The reading thread: getEntries, which never looks at m_abort.           *)

ReadLine ==
  /\ phase = "reading"
  /\ read < Len(file)
  /\ read' = read + 1
  /\ LET lines == Append(collected, read + 1)
     IN IF read + 1 = Len(file) \/ Len(lines) >= PackageSize
          THEN /\ packages' = Append(packages, [lines |-> lines, pre |-> <<>>, converted |-> FALSE])
               /\ collected' = <<>>
          ELSE collected' = lines /\ UNCHANGED packages
  /\ UNCHANGED <<file, phase, first, joined, entries>>

EmptyFile ==
  /\ phase = "reading"
  /\ read = Len(file) /\ packages = <<>>
  /\ phase' = "done"
  /\ UNCHANGED <<file, read, collected, packages, first, joined, entries>>

\* Pending lines of the first package are dropped.
TakeFirst ==
  /\ phase = "reading"
  /\ read = Len(file) /\ packages # <<>>
  /\ packages[1].converted
  /\ first' = [lines |-> <<>>, pre |-> packages[1].pre]
  /\ joined' = 1
  /\ phase' = "joining"
  /\ UNCHANGED <<file, read, collected, packages, entries>>

\* Faulty variant: the unclaimed lines of the next package are dropped.
JoinEntries(package, next) ==
  [lines |-> package.lines, pre |-> package.pre \o next.pre]

\* WorkPackage::join, whose leading lines belong to the last entry so far.
Join(package, next) ==
  LET own == Converted(next.lines, package.pre)
  IN [lines |-> own.lines, pre |-> own.pre \o next.pre]

\* Every entry but the last, which may go on in the next package, is finished.
JoinNext ==
  /\ phase = "joining"
  /\ joined < Len(packages)
  /\ packages[joined + 1].converted
  /\ joined' = joined + 1
  /\ LET grown == Join(first, packages[joined + 1])
         whole == Len(grown.pre) - 1
     IN IF grown.pre = <<>>
          THEN first' = grown /\ UNCHANGED entries
          ELSE /\ first' = [grown EXCEPT !.pre = <<Last(grown.pre)>>]
               /\ entries' = entries \o SubSeq(grown.pre, 1, whole)
  /\ UNCHANGED <<file, phase, read, collected, packages>>

EmitEntries ==
  /\ phase = "joining"
  /\ joined = Len(packages)
  /\ entries' = entries \o first.pre
  /\ phase' = "done"
  /\ UNCHANGED <<file, read, collected, packages, first, joined>>

GetEntries == ReadLine \/ EmptyFile \/ TakeFirst \/ JoinNext \/ EmitEntries

-----------------------------------------------------------------------------
(* A thread of the pool: convert of package p.                             *)

\* Faulty variant: the package cut by the end of the file is not started.
ConvertFullPackage(p) ==
  /\ p \in DOMAIN packages /\ ~packages[p].converted
  /\ Len(packages[p].lines) = PackageSize
  /\ LET done == Converted(packages[p].lines, packages[p].pre)
     IN packages' = [packages EXCEPT ![p] =
                       [lines |-> done.lines, pre |-> done.pre, converted |-> TRUE]]
  /\ UNCHANGED <<file, phase, read, collected, first, joined, entries>>

Convert(p) ==
  /\ p \in DOMAIN packages /\ ~packages[p].converted
  /\ LET done == Converted(packages[p].lines, packages[p].pre)
     IN packages' = [packages EXCEPT ![p] =
                       [lines |-> done.lines, pre |-> done.pre, converted |-> TRUE]]
  /\ UNCHANGED <<file, phase, read, collected, first, joined, entries>>

ConvertSome == \E p \in DOMAIN packages : Convert(p)

-----------------------------------------------------------------------------
(* Properties.                                                             *)

\* The lines that begin an entry, and the k-th of them.
Begins(n) == {i \in 1..n : file[i]}
Begin(n, k) == CHOOSE b \in Begins(n) : Cardinality({c \in Begins(n) : c <= b}) = k

\* What one thread reading the first n lines in order would gather: the lines of an
\* entry reach from a matching line to the next one.
Sequential(n) ==
  LET count == Cardinality(Begins(n))
      last(k) == IF k = count THEN n ELSE Begin(n, k + 1) - 1
  IN [k \in 1..count |-> [i \in 1..(last(k) - Begin(n, k) + 1) |-> Begin(n, k) + i - 1]]

JoinedLines == IF joined * PackageSize <= Len(file) THEN joined * PackageSize ELSE Len(file)

\* Q_ASSERT(m_lines.empty()) in WorkPackage::join: whatever has been joined so far has no
\* lines of its own left, if one of the lines of the first package or the first of the
\* second matches.  Otherwise the assertion is wrong: there is no entry yet that could take
\* the lines in front of the first one, and they stay until the next join.
JoinedHasNoLines ==
  phase = "joining" /\ (\E i \in DOMAIN file : i <= PackageSize + 1 /\ file[i])
    => first.lines = <<>>

\* In whatever order the pool finishes the packages, and wherever they cut an entry, each
\* join leaves exactly what reading the lines in order gives: no line of a message is
\* lost, doubled or given to another entry; and none is left over for the next join.
JoinsAsSequential ==
  /\ JoinedHasNoLines
  /\ phase = "joining" => entries \o first.pre = Sequential(JoinedLines)
  /\ phase = "done" => entries = Sequential(Len(file))
=============================================================================
