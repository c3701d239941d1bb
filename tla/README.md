# A verification project for LogWitch

LogWitch shows logs as they arrive over a socket, or as they are read from a
file, in windows with filters, rules, quick searches and a search. This directory
holds TLA+ modules that model its core, TLC configurations that check them on
small instances, and proofs that TLAPS checks for every instance. Paths below are
relative to `src/logWitch/`; `PROJECT.json` has the line ranges each definition
stands for.

Contents: [the system](#the-system), [modules](#modules-and-how-they-correspond-to-the-code),
[runs](#runs), [proofs](#proofs), [what the code does otherwise](#where-the-code-does-something-else),
[what is not modelled](#what-is-not-modelled), [plan](#plan).

## The system

Almost all of LogWitch runs in the thread of the Qt event loop. What makes it hard
is not parallelism but *re-entrance and order*: handlers that open a nested event
loop (a context menu), posted events behind direct calls, destructors that emit
signals, objects that watch each other, and values cached outside the object they
were computed from. Three kinds of threads exist beside the GUI's: those that read
a file, one of which has a pool of workers, and the one of the dummy source.

| Component | State | Operations | Talks to |
|---|---|---|---|
| socket receivers (`Plugins/LogSource/*/LogEntryParser_*Socket.cpp`, class `*Receiver`) | buffer, bytes needed, header or payload | `newDataAvailable`, `readDataToBuffer`, `shutdown` | calls its server with the entries of a read |
| socket servers (same files) | next number, message in progress, message behind it | `newEntryFromReceiver`, `logEntryMessageDestroyed`, `startEmiting` | posts `newEntry` to the table; the end of the message comes back to it |
| table (`Models/LogEntryTableModel.cpp`) | rows, limit, capture switch, blocked messages | `insertEntry`, `clearTable`, `captureActive`, `beginBlockItems`, `endBlockItems`, `setMaxEntries` | signals to its proxies |
| row filter (`Models/LogEntryTableFilter.cpp`, `LogEntryFilterChain.cpp`, `LogEntryRemoveFilter.cpp`) | range of peeked rows, discard rules, the proxy's mapping | slots for rows, filters and rules | table, filter lists, rule table |
| filter lists (`Models/StringCacheTreeModel.cpp`, `StringCacheTreeItem.cpp`, `FilterListView.cpp`) | a tree of strings with check marks, the set of refused strings | new string, click, context menu | row filter |
| rule table, editor, search bars (`ActionRules/`, `GUI/QuickSearchBar.cpp`) | rules by source; rows of the editor; text, mode and mark of a bar | edits, drag and drop, load, save | row filter, settings |
| search (`LogEntryTableWindow::search`) | where the loop is | search next and previous | the shown rows |
| window states (`GUITools/WidgetStateSaver.cpp`, `SignalMultiplexer.cpp`, `logfileanalyser.cpp`) | stored states by window, connections, capture switch, rules and dock | open, activate, close, lose a window | all windows, through one menu |
| columns (`LogData/LogEntryParserModelConfiguration.cpp`, `LogEntryTableWindow.cpp`, `ContextMenuManipulateHeader.cpp`) | hints for width, order, visibility; settings; header | open a window; resize, hide, show, move | settings shared by all windows of a kind |
| log file parser (`LogData/LogEntryParser_Logfile.cpp`) | packages of lines | read, convert in a pool, join | sends one message at the end |
| own file format (`LogData/LogEntryParser_LogfileLWI.cpp`, `Models/LogEntryTableModelFileExporter.cpp`) | lines, the line kept back, entries | export, parse, abort | sends one message at the end |
| opening a file (`logfileanalyser.cpp`) | a window, its parser, the message on its way | choose a parser, open, close | both file parsers, the table |
| expressions and actions (`ActionRules/Expression*.cpp`, `Action*.cpp`) | none | parse, match, write out; rewrite a cell | rules, search, row filter |
| factory, caches, attribute names (`LogData/`) | strings seen | look up | tell the filter lists of new strings |
| dummy source (`Plugins/LogSource/dummy/`) | entries asked for, abort | a thread makes entries, ask for more | posts to the table; the caches |
| time display, headers of the rule windows, help, dialogs, plugins | - | - | - |

What makes each of them correct:

* *Live source*: every byte that arrives is decoded as it was sent, however TCP
  cuts the stream; a bad length cannot make the receiver allocate or read on; every
  entry accepted is shown or dropped exactly once, in order; at most one message is
  on its way, and none waits forever.
* *Row filter and filter lists*: the rows shown are always those the filter would
  accept now; the filter refuses exactly what the tree shows as deselected.
* *Rules*: the rules in force are those shown; a cell is drawn as they say; a rule
  survives a restart.
* *Search*: a text means what the manual says of it, however it came to the bar; the
  nearest match is found.
* *Threads*: a string is known to the filter before a row with it is shown; one text
  is one object; a thread that is told to stop does.
* *Windows*: the menu's switches act on the window that is active, and on no other;
  a new window looks as the last one was left.
* *Files*: parallel parsing gives what sequential parsing gives; a file that was
  written is read back as the same rows; a file is shown whole and once, or not at all.

The hazards, with their lines and the properties about each, are the list
`hazards` of `PROJECT.json`.

## Modules and how they correspond to the code

| Module | Code | Kind |
|---|---|---|
| `LogEntryTable` | the table's handlers | component, composed below |
| `SocketServer` | number, hand over, one message in progress | component, composed below |
| `LivePipeline` | both, the event queue and the user | composition |
| `EntryStream` | what a live window promises | abstract specification |
| `LivePipelineProofs` | theorems about `LivePipeline` | proofs |
| `SocketReceiver` | one receiver and its peer | component |
| `FilteredTable` | the row filter over `LogEntryTable` | component over another |
| `FilterTree` | a filter list with its filter | component, composed below |
| `FilteredSource` | a source's thread, a cache, a filter list and the rows | composition |
| `RewriteActions` | texts of actions, what they change in a cell | pure operators |
| `RuleTables` | the rule table with an editor and search bars, the cells drawn | composition |
| `RuleText` | rules as text in the settings | component with a conversion |
| `Expressions` | texts of expressions, what they match and write out | pure operators |
| `TableSearch` | the search loop | algorithm, composed below |
| `QuickSearch` | a search bar, its expressions and the search | composition |
| `WindowStates` | window area, state saver, multiplexer | composition |
| `Columns` | hints, settings and headers of several windows | composition |
| `LogfileParser` | the reading thread and its pool | component, composed below |
| `LwiFile` | exporter, file and parser | component, composed below |
| `OpenLogfile` | the two parsers, their window and its table | composition |
| `SocketReceiverProofs`, `RuleTablesProofs`, `OpenLogfileProofs` | theorems about the modules they are named after | proofs |
| `LogWindowProofs` | theorems about a window's rows (`FilteredTable`) and its header (`Columns`) | proofs |
| `WindowStatesProofs` | theorems about `WindowStates`, and about the search in the window in front (`QuickSearch`) | proofs |
| `FilteredSourceProofs` | theorems about `FilterTree` and `FilteredSource` | proofs |
| `FoldTheorems` | what a fold over a sequence of any length computes | lemmas, instantiated for an operator |

Each `MC...` module extends the module it is named after and gives its constants
values; definitions marked *Mutant* or *Faulty variant* are wrong versions of the
definition that follows, kept to show that the properties notice.

**SocketReceiver.** Bytes are counted, not stored: a frame is its offset and size, so
"the buffer holds the payload of frame f" is a statement about offsets, and what
the receiver takes for a length when it is *not* at the start of a frame may be any
size. The action `NewDataAvailable` is one round of the `while` loop of
`newDataAvailable`: `ReadSome` a partial read, then one action per branch on a
complete header or payload; `Return` hands the entries over. `ReadyRead`,
`PeerCloses`, `Disconnected` and `ServerDestroyed` are the outside world.

**SocketServer, LogEntryTable, LivePipeline.** `nextMessage`, `messageInProgress`,
`logEntryNumber` and `table`, `blocked`, `blocking` are the members of the same
name; `events` is the queue of `newEntry` signals (a queued connection). A message
is destroyed when its last shared pointer goes: at the end of the handler that
received it, or when `endBlockItems` pops it. `logEntryMessageDestroyed` therefore
is part of `DeliverAndRelease` and of `DrainBlocked`, as in the code, and it may
post the next message at once. While a menu is open (`blocking`) receivers and
posted events go on, because `menu->exec()` runs an event loop; `Draining` says that
the handler after it is on the stack, when nothing else runs. `Limits` is what
`setMaxEntries` is called with: nothing calls this slot in the program as shipped,
so that limits are a what-if of the public interface.

**EntryStream** is the promise: a line of accepted entries with consecutive numbers;
from its front they become rows, or are dropped when capturing is off; with a limit
the newest rows stay. `LivePipeline!Stream` maps the line to the message on its way
followed by `nextMessage`, wherever the message is at the moment.

**FilteredTable.** An entry is its *kind*, the value the filters look at. `visible` is
the mapping `QSortFilterProxyModel` keeps; it changes only when the model says so,
not when the filter would answer differently. `range` is the pair of rows kept by
"Peek filtered" and `RangeWithout` the case distinction of
`slotRowsAboutToBeRemoved`. `center` is a history variable that follows the row
that was peeked at. While the menu is open new strings may arrive and
`staleIndex` tells that the index the menu holds is void.

**FilterTree.** An item is its path. `checkedSelf` and `checkedChilds` are the two
marks of `StringCacheTreeItem`; `Shown`, `Deselects` and the others are the methods
that derive what is displayed. `removeStrings` is the set the filter keeps, updated
by the model's signals and not computed from the tree: that is what
`FilterMatchesTree` is about.

**FilteredSource.** The thread is that of `LogEntryParser_dummy`, the only source that makes
entries without end in a thread of its own: `Sleep`, `CountDown`, `LastEntry` are the
three parts of `run`. An object is its text and a copy number: `GetObject` is
`ObjectCache::getObject`, which gives the object it has for an equal text. `posted` is
the one queue of the GUI thread, which gets the cache's `newElement` and the table's
`newEntry`. The filter knows *objects* (`LogEntryRemoveFilter` compares addresses), the
tree knows texts. Rows that share an object are all shown or all hidden, so that one
stands for them; the numbers, times and messages of the entries are left out, and
which string an entry gets is open. `AddEntries` writes the count the thread counts
down; a decrement lost between load and store is the same as an `AddEntries` that was
chosen later. The plugin keeps the last parser it opened (`held`), and with it the thread,
even if the window is closed; `OpenAnother` lets go of it.

**RewriteActions.** A text is what stands before its brackets and a sequence of parts,
each a sequence of words and colons. `RewriteRule` and `NamesColumn` are the grammar,
`AddChangeSet` fills `m_changes` (a map: the first change of a key stays), `ModifyData`
looks for the cell and then for the whole row, and `Data` is the loop of
`LogEntryTableFilter::data` over the actions that match.

**RuleTables.** `table` holds the editor's rows, each with a kind of expression, some of
which do not parse, and the text of an action; `ruleTable` is the shared `RuleTable` with rules
by source, the batch flag `onChange`, and `discards`, which the row filter caches and
updates by `changed()` only. Every edit, removal, drop and load of the editor, and
every change of a search bar, is an action with all that it does to the rule table.
`FromTheBack` is the order in which rows are taken out, so that those left keep their
numbers meanwhile. `CellsAsWritten` asks, in each state, for every set of rules that may match an entry and
every order the set of pointers may have, how each cell is drawn; `Written` reads that off
the texts, without the change sets.

**RuleText.** A rule's three texts are sequences of letter, quote, backslash, closing
bracket. `RuleToString` is `toString`, `Unquoted` is what the `boost::spirit` grammar
does with the result, including its operator `||`, which takes an escaped character
*and then* a plain one. `Quit` stores, `Crash` does not, `Start` loads.

**Expressions.** A text is a sequence of tokens. An expression is a record of what can be
told of it: the entries it matches, those on which `match` asks for an attribute that is
not there (an operator asks its right side only if it has to), its text by `out`, and the mode and text it gives
a bar it is dropped on. `BasicExpr` and `Expression` are the rules of the grammar, with
their ordered alternatives; regular expressions are a relation between values and words.

**TableSearch, QuickSearch.** Begin, one round, end of the loop of
`LogEntryTableWindow::search`, with rows counted from 0 and -1 for none; `QuickSearch` is
the bar whose expression is looked for: `EditText`, `SwitchSearchMode` and `DropRule` lead
through `updateSearch`. On rows for which the expression reads an attribute that is not
there, the search may find or not find. `Reading` is the reference: what the manual
(`Help/HelpText`) says of precedence, by splitting at the weakest operator, where the code
descends from it.

**WindowStates.** `shared` is the record of everything all windows share: the
multiplexer's object, its connections (counted: they can be made twice), the capture
check mark, the rule widget, the dock, and the histories of `WidgetStateSaver`. The
states are dumped and replayed in the order of the watched objects' *addresses*
(`std::map<QObject*, ...>`): `order` is fixed for a run of the program and chosen at
its beginning.

**Columns.** `Restore` is the constructor of `LogEntryParserModelConfiguration`;
`Propose` are the setters a parser calls after it, each of which stores all hints;
`BuildWindow` arranges the header before its signals are connected. A header has the
width of each column, those hidden, and the place (`visualIndex`) of each: the number of
columns that stand in front of it by their hints (`Before`). `Dragged` is what Qt's
`moveSection` does to the places. The user's actions go through `setHeaderData` back to
the hints and the settings, one store after the other: a move is one for each column
(`PlacedUpTo`, the loop of `updateHeaderPositionToModel` up to some place), a size is one
for showing the column and one for its width. A change is one step, for nothing reads what it
has stored before it is through; but the program may crash between two of its stores
(`BreakOff`: `MoveColumnTorn` stops at any place, `SizeColumnTorn` behind the first store), as
it may end between any two steps. The three `...Loaded` flags are one, since the three
lists are stored by one call.

**OpenLogfile.** `OpenOwnFormat`, `OpenPlain` and `OpenFails` are the three ends of
`openLogfile`; the file is one an export left, whole or torn, or any plain one. `RunLwi`
and `RunPlain` are the threads of `LwiFile` and `LogfileParser` (both by `INSTANCE`), which
post one message at their end; `CloseWindow` begins the destructor and `Destroyed` is
the return of its `wait()`. `missed` remembers that the message came while the table did
not capture.

**LogfileParser.** A file is a sequence of booleans: a line matches, and begins an
entry, or belongs to the entry before. `Convert` is a worker on one package,
`GetEntries` the reading thread: read, hand to the pool, join in order.

**LwiFile.** Texts are sequences of the four characters the format tells apart.
`Export` writes rows as `exportTo` does, `WriteFails` cuts the file at any character
or the header at any column, `InitParser` reads the header, and `BeginEntry`,
`GatherLine`, `LastLine`, `SplitEntry` are `getNextLogEntry` with `m_stashedLine`. The line
that names the context is the first of the file; torn in front of its `=`, it is stashed
like the beginning of an entry, and later skipped for its want of parts.

## Runs

Every run ends with no bound hit silently: where a counter is bounded, the bound is
a named constant in the guard. Deadlock is checked except where the system really
stops (a thread that has ended, a connection that is closed).

| Run | Bounds | Question |
|---|---|---|
| `live_pipeline` | 2 peers, 3 entries each, 2 in a read, limits 0, 1, 2 | Is there at most one message on its way (`OneOutstanding`), are numbers in order and without a gap (`NumbersUpgrowing`), does all of it implement `EntryStream`, and does every entry leave the line (`EntriesLeaveTheLine`)? |
| `socket_receiver` | 3 frames of sizes 0, below, at and above the limit; header of 2 bytes | Are the entries exactly the frames read (`FramesBecomeEntries`), is memory bounded (`MemoryBound`), is what arrived delivered (`ArrivedEntriesDelivered`)? |
| `filtered_table` | 2 kinds, 7 rows, limits 0 and 3, 1 row around the peeked one | Is what is shown what is accepted (`ShownIsAccepted`), and does peeking show the rows around one row (`SurroundingsShown`)? |
| `filtered_source` | items on three levels, with and without strings; 3 events on their way (`MaxPosted`), 1 entry asked for, 1 change of the tree while events come (`MaxClicks`), any number afterwards | Does the filter match the tree (`FilterMatchesTree`), do partial marks tell the truth (`PartialTellsTruth`), does "only this" select only this (`OnlyThisIsSelected`), are the rows shown those of the selected items at every moment (`SelectionDecidesRows`), and does a thread told to stop stop (`AbortEnds`)? |
| `rule_tables` | 3 rows, 2 bars, 4 of both at once (`MaxThings`); expressions that are empty, hold, or name unknown fields; actions that do nothing, discard, or change each role twice | Are the rules in force those shown (`RulesInForce`), are cells drawn by what they say (`CellsAsWritten`), does the row filter know (`DiscardsUpToDate`), do moved rows stand where they were dropped (`DropPlacesRows`)? |
| `rule_text` | 2 rows, no two special characters in a row | Do rules survive a restart or a crash? |
| `rule_text_escaped` | 1 row, any two special characters | *Violation*, see below. |
| `quick_search` | 2 columns, 3 rows, expressions of each kind, two and three of them with every pair of operators and brackets, and what is left of a text when a token is missing | Does a text mean what the manual says (`TextMeansWhatItSays`), does a dropped rule keep its meaning (`DropKeepsMeaning`), is the nearest match found (`FindsNearest`) and does the loop end (`SearchEnds`)? |
| `quick_search_unknown` | the same, with a name of no column | *Violation*, see below. |
| `window_states` | 3 windows, 3 orders of addresses | Do shared objects belong to the active window (`SharedBelongToActive`), does capturing follow the user (`CaptureFollowsInOrder`), is nothing left of a deleted window (`NothingOfTheDeleted`)? |
| `columns` | 2 windows, which are alike (symmetry), 3 columns, 3 changes, whole or broken off | Does a new window look like the last one (`NewWindowLooksLikeLast`), and do defaults stay out of what was stored (`OpeningKeepsSettings`)? |
| `open_logfile` | plain files of up to 6 lines in packages of 2; exports of up to 2 rows of 3 fields with 4 texts each, cut anywhere | Do rows come back (`RowsComeBack`), does joining in any order of the pool give the sequential result and leave no line over (`JoinsAsSequential`), is a file shown whole and once (`ShownWholeAndOnce`), and do reading and closing end (`OpeningEnds`)? |

Why the bounds are enough: two peers are what it takes for entries to wait behind
those of another; three entries in reads of up to two make messages shorter than,
equal to and longer than the limits, and a message behind the one in progress.
Three frames let a frame stand before and behind a bad one. Seven rows with a limit of
three let a range of three peeked rows lie above, across and below what is trimmed.
Three windows are the smallest number for which "the window before the one that
closed" differs from "the only other". Three columns are the smallest number for
which a permutation and its inverse differ. Packages of two lines with six lines make
three packages, so that an entry can begin in one, pass through the second and end in the
last. Two rows in a file let the end of one meet the beginning of the next and the
end of the file. Three strings, two of them on different levels of one path, are siblings,
parent and child, and items without a string; three events let a new string and its row
wait behind another row. Two bars and two rows of the editor are four rules for one
cell in any order. Three rows of a table let the nearest match differ from the first and
from the last, with the selection between them.

**Fairness.** `LivePipeline!FairSpec`: weak fairness of delivering a posted event, of
going on with a handler, and of closing a menu, i.e. the event loop runs and the user
does not leave a menu open forever; nothing is assumed about peers, and the user may
open menus again and again. `SocketReceiver`: a handler that has begun goes on.
`OpenLogfile`: both threads and the pool run, the GUI gets to the message posted to it and past the wait in
a destructor. `FilteredSource`: the thread runs and the GUI comes back to its events; the
user need not do anything. `QuickSearch`: the loop runs, in one call. Nothing else has
fairness, and no property needs strong fairness.

## Proofs

Seven modules prove theorems about the modules they extend, for every value of the
constants; the lemmas about folds are an eighth. Every invariant and action property the
runs check is a theorem, but for those named at the end of this section. Each proof of a safety property goes
the same way: an inductive invariant that TLC has checked on the instance of the run,
one lemma for each action (or group of actions that change the same variables), and a
theorem for each property. The assumptions are those named in the modules
(`...Assumption`: bounds are naturals, a limit is not below the size of a header, and
the like); TLC evaluates them on every run.

| Module | Theorem | States | Invariant it rests on |
|---|---|---|---|
| `LivePipelineProofs` | `TypeCorrect`, `BackPressure`, `NumberColumn`, `Implementation` | `TypeOK`, `OneOutstanding`, `NumbersUpgrowing`, `ImplementsStream` | `IInv` |
| `SocketReceiverProofs` | `TypeCorrect`, `FramesDecoded`, `MemoryIsBounded` | `TypeOK`, `FramesBecomeEntries`, `MemoryBound` | `IInv` |
| `LogWindowProofs`, the rows | `TypeCorrect`, `ProxyIsUpToDate`, `PeekFollowsRow` | `TypeOK`, `ShownIsAccepted`, `SurroundingsShown` | `IInv` |
| `LogWindowProofs`, the header | `HeaderTypeCorrect`, `OpensAsLeft` | `HeaderTypeOK`, `NewWindowLooksLikeLast` | `HeaderInv` |
| | `StoredHintsSurvive` | `OpeningKeepsSettings` | `OpeningInv` |
| `FilteredSourceProofs`, the tree | `FilterIsTheTree`, `CheckMarksAreTrue`, `OnlyThis`, `MenuHasItem` | `FilterMatchesTree`, `PartialTellsTruth`, `OnlyThisIsSelected`, `MenuActsOnItem` | `TreeInv` |
| `FilteredSourceProofs`, the thread | `FeedTypeCorrect`, `SelectionIsObeyed`, `FedFilterIsTheTree`, `FedCheckMarksAreTrue`, `FedOnlyThis` | `FeedTypeOK`, `SelectionDecidesRows`, and those of the tree | `FeedInv` |
| `WindowStatesProofs`, the search | `NearestIsSelected`, `LooksAtRows` | `FindsNearest`, no read outside the table | `SearchInv` |
| `WindowStatesProofs` | `StatesTypeCorrect`, `SharedBelong`, `NothingIsLeft`, `CaptureFollows` | `TypeOK`, `SharedBelongToActive`, `NothingOfTheDeleted`, `CaptureFollowsInOrder` | `StatesInv` |
| `RuleTablesProofs` | `RuleTypeCorrect`, `ShownRulesAreInForce`, `FilterHearsOfEveryChange`, `MovedRowsStandWhereDropped`, `CellsDrawnAsWritten` | `TypeOK`, `RulesInForce`, `DiscardsUpToDate`, `DropPlacesRows`, `CellsAsWritten` | `RuleInv` |
| `OpenLogfileProofs` | `TypeCorrect`, `JoinsInOrder`, `NoLinesAreLeft`, `ShownOnce` | `TypeOK`, `JoinsAsSequential`, its part `JoinedHasNoLines`, `ShownWholeAndOnce` | `Inv` |

**LivePipeline**, for any set of peers, batch size and limits. `OneOutstanding` is what
the code relies on without saying so: `logEntryMessageDestroyed` clears the flag or
sends the next message without looking whether another message is alive. It is inductive
together with `TypeOK` (`IInv`): as long as there is one message in one place,
delivering, blocking or draining it leaves none, and the next one is posted by the same
handler. `ThreePlaces` turns it into a case distinction: nothing on its way, one message
posted, one message held by the table. Without it neither refinement nor order can be
shown, since two messages alive at once could be delivered and drained out of order.
*The refinement*: `InsertedIsNewest` shows that the three branches of `insertEntry` all
append and keep the newest rows the limit allows; `SplitConcat`, `LineAfterDestruction`,
`LeaveTheLine` and `JoinTheLine` say how the line (message on its way, then
`nextMessage`) changes when its message is destroyed or entries arrive; `StreamStep` goes
through the actions, one step each. *The order*: `NumbersUpgrowing` speaks of the line
and of the rows, so that only two kinds of steps matter, and each is a lemma about the
abstract line: `JoiningKeepsOrder` for entries that arrive, `LeavingKeepsOrder` for those
that become rows. `OrderStep` applies them to the steps `StreamStep` has classified.

**SocketReceiver**, for any sizes of headers and payloads, and any cut of the stream. The
receiver knows where it is only by the size of its buffer and what is missing of it. The
invariant (`IsAt`) says that both together point into the header or the payload of one
frame, or behind the header that ended the connection, and that exactly the frames before
it have become entries. `FramesBecomeEntries` alone is not inductive: the frame that is
completed next must be the one behind those decoded. `Filled` is the lemma the steps
share: a buffer that is filled ends where the next byte is due.

**FilteredTable**, for any kinds, limits and distance around a peeked row.
`ShownIsAccepted` compares the mapping, which is changed by signals only, with what the
filter accepts now; each slot has a lemma about sequences (`AcceptedConcat` for rows that
come, and those for rows that go). It needs `MenuBlocks`: a row is peeked at from a menu,
and while that is open nothing is trimmed. `RangeAroundCenter` relates the range, which
the code shifts on each removal, to the row it began with.

**FilterTree and FilteredSource**, for any set of strings, infinite too, and paths of any
depth. `FilterMatchesTree` becomes inductive with `RootInherits` (the invisible root
never turns anything off). `TopmostForces` and `LeavesAside` carry the
weight: of the items above one that say what their children show there is a topmost, which
decides; and a path that leaves the path to the item of "only this" goes through a sibling
of an item on that path, which was deselected. `MenuRowTaken` gives
`MenuActsOnItem`: an index held by an open menu always names an item, though not
always the one that was clicked. In `FilteredSource` the rows follow from the order of the
events (`ToldInTime`): an object is in the cache only if the filter list knows it or its
`newElement` is posted, and an entry is posted behind the `newElement` of each of its
objects. `ToldAppend` and `ToldTail` are the two ways the queue changes. Each step of the
composition that changes the tree is a step of `FilterTree`, so that `TreeInv` is used
again and not proved again.

**QuickSearch**, for tables of any length. `Running` says that no row met before the next
one matches; "before" counts from the first row looked at, in the search's direction and
around the end (`Met`, which `MetIsDistance` shows to be the `Distance` of the property
without its division). The special case is a search without a selection: its end is
remembered only after the first row, and until then `startRow` is -1.

**WindowStates**, for any set of windows and any order of the four watched objects in
memory that has each of them once (`OrderAssumption`). `SharedBelongToActive` is not
inductive: the shared widgets are what the replay of the stored states makes them, so the
invariant has to say what is stored. `Replayable` says it: what is kept of a window is one
state of each watched object, all of that window; what is kept of no window are the
defaults. `Kept` adds that the multiplexer's connections are those of its object, once
each (`Tied`), so that the next `setObject` takes all of them back. `StoreStateIs` and
`ReplayIs` are the two loops of the state saver, by `FoldTheorems`: a replay
makes everything belong to one window, in whatever order the objects lie, and only the
capture check mark depends on that order. Hence `Capturing`, which is the part for
`CaptureFollowsInOrder`, has the order as its premise and the other three theorems do not.
`DestroyedKeeps` is the difficult step. `subWindowDestroyed` deletes the object of the
multiplexer, switches, which stores once more what is shown of the window that is gone,
and only then takes its states out of the history; in between the invariant does not hold
and `Kept(known, living, s)` says by its two sets what holds instead. Before the first
window the dock is not made yet (`Bare`), and `CreateIs` follows
`createWindowsFromParser` through `setObject` to the fourth watched object.

**Columns**, for any number of windows and columns. The assumption is that a parser
proposes a width above 0 for each column and at most one order hint for each, which the
constructors of the parsers do (that of the own format proposes no order). Nothing says that
these hints differ: those of the Python receiver have the 7 twice
(`LogEntryParser_pythonSocket.cpp:65`).
`NewWindowLooksLikeLast` speaks of two things far apart, the
header changed last and the window built next, and is not inductive: between them lie the
settings. `SettingsOfLast` says what these are at every step of an opening: the hints of the
header changed last, or none; and when there are none, what the parser has proposed so far
(`ProposedBefore`), one store after the other. `HintsFollowHeader` says that the header of
every open window is what its hints would arrange anew, so that what one change stores is
the whole header and not only what was changed. Its steps are facts about lists
that are filled up in front of a hint (`WithIs`), about hiding and sizing, and about places: since `Before` is
a strict total order, the numbers of columns in front are a permutation (`MoreInFront`,
`PlacedIs`), and hints that are a permutation arrange the header to just that
(`PlacesOfHints`), which `DraggedIs` keeps. `PlacedUpToIs` is the loop that stores them, up to
any place: once it is through, each hint is a place, whatever it was before. Until then
`BreakOffKeepsHeader` holds: a crash in the middle leaves all else as it was
(`SameHeader`), and when a column is moved (`torn` is "places") nothing is said of the order until
the next change stores all of it. `torn` is "defaults" when the program ends in the
middle of the first opening ever; then the property says nothing until the next
change, and neither does the invariant.
`OpeningKeepsSettings` is an action property and needs only `OpeningInv`: while a window
with restored hints is being opened, the stored hints are those it has.

**OpenLogfile**, for files of any length, packages of any size and exports of any rows.
`JoinsAsSequential` speaks of the joins, after each of them and at the end. `PlainInv` says of every moment what the packages
are: they cut the lines read so far (`LinesInOrder`), each holds its lines or, once a worker
of the pool was there, what `Gathered` says of them (`PackagesHoldThem`), and the entries
joined from the first packages, with what the last of them left open, are what reading the
same lines in order gives (`Progress`). `Sequential` is defined by where entries begin, the code
gathers line by line: `SequentialStep` is one line, `GoesOn` a package, and `JoinIs` the join,
where the beginning of the next package may belong to the entry left open by the last.
That the pool may convert packages in any order costs nothing then, since what a package
becomes depends on its own lines. `JoinedHasNoLines`, the
part about the lines left over, is inductive beside `Inv`
(`JoinLeavesNothing`): either the last entry takes all lines in front of the next one, or there
is no entry yet, and then the first line of the package must be the one that matches. `OneMessage` is the part about the window: the
one message is on its way only when the thread is done, and the table is empty until it comes. `OwnInv` has what
the parser of the own format needs to be typed: as long as lines are left there are all
fields (`FieldsKnown`), since a file with lines has a whole header.

**RuleTables**, for any texts, any number of rows, bars and lines dropped. `RuleInv` splits
`RulesInForce` by source (`Shown`): each source of the table has what its row or bar shows.
The union of the property cannot be kept by itself, since clearing one source must leave
the others alone. `Effective` is part of it, because a row that is new by its
description alone (`SetDescription`) brings its rule, which matches nothing, with the next
change. `AddRuleIs` and `ClearIs` are the two operations of the table, for a batch that is
open and for one that is not; `UpdateIs` is the loop of `updateFilterRuleTable` over
any number of rows. `FromTheBackIs`, `WithoutIs` and `MovedIs` are the loops
of removing and moving: each row is still where it was when it is its turn.
`DropPlacesRows` needs what the loop of a move has done so far, exactly (`Taken`): the
rows not taken yet are in the table in their order, those taken are kept in theirs, and the
position is one behind the rows in front of it that are still there. `TakenIs` is one round of
the loop: the row taken next is the last one left (`RowTaken`), and the position
moves by one if, and only if, that row was in front of it (`PositionMoves`), which is false
of a row dropped onto itself. `PickConcat` is the lemma they share: the rows of two sets, one in
front of the other, are those of the one and then those of the other. It rests on there being
only one ascending numbering of a set of rows (`FrontIsOne`).
`CellsAsWritten` follows from the state (`RulesComeFrom`: no rule is left of a row or bar
that is gone, which `AsShown` keeps) and from three lemmas about the operators, for actions
of any number of parts: `KeysAre`, a part is about the cell or about the row, and about one of
them only; `ChangesAre`, of the parts about one key the first counts; `DrawnIs`, whichever
action comes last in the loop of `data`, what the cell has is what one of the texts says.
That an order of the rules that match has each of them (`OrderHasAll`) needs them to be
finitely many.

**Folds.** `FoldTheorems` has the operator of a fold as its constant. `UpTo` is
induction over the set of numbers for which something holds, by the least number for which
it does not; `FoldsExist` shows with it that the function `FoldLeft` is defined by exists,
and `FoldIsLoop` that its value is that of the loop. A module instantiates it for an
operator of its own and expands `FoldLeft` once.

Only model-checked:

* *Liveness*: `EntriesLeaveTheLine`, `ArrivedEntriesDelivered`, `AbortEnds`, `SearchEnds`,
  `OpeningEnds`. The prover has no reasoning about fairness.
* *Texts*: `TextMeansWhatItSays`, `DropKeepsMeaning` (`QuickSearch`), and all of `RuleText`:
  the descent of the grammars is recursion over data. So is `RowsComeBack`, through the
  splitting and joining of texts in `LwiFile`.

## Where the code does something else

Two runs show violations:

* `rule_text_escaped`: `ActionRules/FilterRuleCompiled.h:78` promises "a full
  description of the rule, which can be used to recreate the" rule. In
  `FilterRuleCompiled.cpp:64` two alternatives of the grammar are connected by `||`,
  *one and then the other*, so that a rule whose text has two characters in a row that
  need a backslash does not parse, or loses a backslash; it comes back from the settings
  as the empty rule and is stored as such.

* `quick_search_unknown`: `LogData/LogEntry.cpp:57` asserts that the attribute asked for
  exists. `GUI/QuickSearchBar.cpp:235` takes every expression that parses and does not ask
  whether it `isValid()`, as `FilterRuleCompiled::validWithinContext` does for rules. A name
  without a column has the field id -1, and the search reads in front of the attributes of
  each row (a debug build stops). The same happens in the modes for text and regular
  expressions in a window without a column `message`.

Met while modelling, and left outside the properties in the way stated here:

* `GUITools/WidgetStateSaver.cpp:64` replays states in the order of the watched
  objects' addresses. If the multiplexer has a higher address than the capture action
  (it is a member of the main window, which `main()` keeps on the stack; the action
  is on the heap), the check mark of the window entered is set while the multiplexer
  still points to the window left, whose capturing it switches.
  `CaptureFollowsInOrder` is stated for the orders in which the multiplexer comes
  first; `SharedBelongToActive` and `NothingOfTheDeleted` for all.
* `Models/LogEntryTableFilter.cpp:203` has no case for a removal that begins before
  the peeked rows and ends at or behind their last one: the range stays and uncovers
  rows that never were around the peeked one (`Uncovered` in `FilteredTable`). Reached
  through `setMaxEntries` only, which nothing calls today.
* `LogEntryTableWindow.cpp:450` and `FilterListView.cpp:77` keep an index of a proxy
  across the event loop of a menu. A string that arrives meanwhile invalidates the
  one (nothing, or other rows, are peeked at) and sorts new rows in above the other
  (the menu's entry acts on the item's neighbour). Both modules have the interleaving;
  no property says what row or item is acted on (`MenuHasItem` proves that there is one).
* `LogData/LogEntryParser_Logfile.cpp:196` asserts that a package has no lines left when
  the next one is joined (`Q_ASSERT(m_lines.empty())`). It is wrong for a file of more than two
  packages if no line of the first package matches, nor the first line of the second:
  no entry takes these lines, they are still there at the join after the next, and a
  debug build stops. `JoinedHasNoLines`, a part of `JoinsAsSequential`, says
  that the assertion holds for all other files; allowed one line more in front of the first match, the run finds it violated. A
  release build goes on with the lines of the next package, and its result is right in
  any case (`JoinsAsSequential`).
* `Models/StringCacheTreeModel.cpp:97`: "Select Tree" below a deselected item sets
  everything to inherit, so that nothing is selected.
* `ActionRules/TableModelRulesCompiled.cpp:429`: rows dropped onto one of themselves
  move up by one; `DropPlacesRows` speaks of the other places.
* `ActionRules/FilterRuleCompiled.cpp:53`: `ascii::char_` takes no byte beyond ASCII;
  rules with such characters are lost like the ones above.
* `Models/LogEntryTableModelFileExporter.cpp`: line ends of a message come back as
  blanks, a separator in another field as " -- ", and a field that ends in " -", or
  has "- -" between blanks, gives its end to the field behind it (`Plain` in
  `LwiFile` excludes these; the number of entries and their order are kept for all).
  Lines 117 and 140 use the configuration of field `i` for column `order[i]`.
* `LogData/LogEntryParser_LogfileLWI.cpp:148`: a header without one of the places adds
  the fields before the missing one twice, and then no entry has enough parts. Only a
  header edited by hand has rows behind it.
* `ActionRules/ExpressionParser.cpp:233`: each level takes one operator: `a || b || c` is
  refused, and needs brackets. An empty text is `false`. `ExpressionFind.cpp:55` and
  `ExpressionRegEx.cpp:54` write a quotation mark in a pattern without a backslash, so that
  the text does not parse again (`DropKeepsMeaning` speaks of it).
* `ActionRules/ActionParser.cpp:174`: `text:` takes no text, it only wipes the cell's, where
  the help (`Help/HelpText/index.html:131`) has `text:textString`. A column the source does
  not have is ignored (`ActionDataRewriter.cpp:70`).
* `ActionRules/RuleTable.h`: the rules in force are a set of pointers, applied in the order
  of their addresses. Rules that change one cell in two ways give either
  (`CellsAsWritten` allows each of them), whatever their order in the editor.
* `LogData/LogEntryParser_Logfile.cpp:64` sets `m_abort`, which its thread never reads:
  closing the window waits until the whole file has been parsed.
* `Models/LogEntryTableModel.cpp:222`: a file is one message. If capturing is off when it
  comes, all of the file is dropped and nothing shows it again (`missed` in `OpenLogfile`).
* `Plugins/LogSource/dummy/`: the plugin's pointer to the last parser keeps its thread alive
  after its window is closed (`DummyLogSource.cpp:54`); `updateErrorEmit` is connected to
  the wrong menu entry (`:46`); two threads write `m_count` without a lock.
* `LogData/LogEntryFactory.cpp:50` puts the empty string into each cache before a filter list
  listens: the list has no item for it, and no filter ever refuses it.
* `LogData/LogEntryParserModelConfiguration.cpp:50`: a program that ends while the very
  first window of a kind is being opened leaves half of the defaults behind, which
  count as what the user wants; `NewWindowLooksLikeLast` is stated without it (`torn`).

## What is not modelled

* *Characters of expressions and actions*: texts are sequences of tokens; what makes a
  token (blanks, backslashes, words beyond ASCII, which are refused) is left out, and so
  are words that are no regular expression. In `RuleTables` an expression is one of a few
  kinds. How the editor draws its own rows (`toDisplay`) and an action without a
  configuration are left out, and so are the font and the grey of peeked rows in `data`.
* *Decoding a payload, matching a line, formatting an attribute*: data; frames, lines
  and texts stand for what they contain.
* *Attribute names, several caches*: `FilteredSource` has the cache of one attribute; the
  table of names and defaults is data. The caches are used by the thread of their source
  only, or by the GUI's if it has none, so that they need no lock.
* *Errors the dummy source makes up*, and its every third initialisation that fails: tests
  of the display of errors.
* *Listening on a port, Qt's sockets, proxies and views*: modelled from how the code
  uses them, marked external in the map.
* *Export lists and `removeRows`*: the former end before the size of the table, the
  latter has no caller.
* *Wrap-around of the 32 bit entry number*: after 2^31 entries, which no table holds.
* *Time display, synchronized headers of the rule windows, dialogs, help, plugin
  loading*: display and plumbing.

## Plan

In the order of importance.

1. Written: the live pipeline with its abstract specification and proofs; receivers;
   row filter; filter lists and the source behind them; opening log files of both
   formats; rules, their text and what they draw; expressions and search; window states;
   columns.
2. Proofs written: every invariant and action property of the runs except those about
   texts. What would come next is `RowsComeBack`, from lemmas about `Split` and `Join`: a
   line end cuts a text in two that are split alone, and a plain text in front of a
   separator is the first part.
3. Models next: the synchronized headers of the rule windows
   (`GUITools/SynchronizedHeaderView.cpp`); the export of a selection; a composition of
   `FilterTree` and `RuleTables` with `FilteredTable`, so that what the lists and bars refuse
   is what is hidden.
