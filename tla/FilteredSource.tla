--------------------------- MODULE FilteredSource ---------------------------
(***************************************************************************)
(* A source with a thread of its own, the cache of one attribute, and the  *)
(* filter list and the rows that live in the GUI thread.  The thread of    *)
(* LogEntryParser_dummy makes entries; LogEntry::setAttribute passes each  *)
(* string through the ObjectCache of the attribute, which tells the filter *)
(* list of a new one; both this signal and the message with the entries    *)
(* are posted to the GUI thread.  The filter compares strings by address:  *)
(* it works because the cache gives every text one object.                 *)
(*                                                                         *)
(* A row is known by the object of its attribute: rows that share it are   *)
(* all shown or all hidden, and the first of them stands for all.          *)
(***************************************************************************)
EXTENDS FilterTree

CONSTANTS
  FirstCount,   \* what m_count begins with
  MoreCount,    \* what "Add Entries" asks for
  MaxPosted,    \* bound: events waiting for the GUI thread
  MaxClicks     \* bound: changes of the tree before every string has its row

ASSUME SourceAssumption ==
  /\ FirstCount \in Nat /\ MoreCount \in Nat \ {0}
  /\ MaxPosted \in Nat \ {0} /\ MaxClicks \in Nat

VARIABLES
  pc,        \* where run() is: "sleep", "count" or "ended"
  count,     \* m_count, which both threads write
  abort,     \* m_abort
  message,   \* the objects in the message that is being made
  cache,     \* the objects in the cache of the attribute
  posted,    \* the events that wait for the GUI thread
  window,    \* "open" or "closed"
  held,      \* the plugin still has this parser as its m_parser
  known,     \* the objects newStringElement got
  table,     \* the objects of the rows of the model
  shown,     \* those of the rows the row filter shows
  clicks     \* bound: counted up to MaxClicks

thread == <<pc, count, message, cache>>
rows == <<known, table, shown>>
feedVars == <<vars, thread, abort, posted, window, held, rows, clicks>>

Objects == [text : Strings, copy : 0..1]

FeedInit ==
  /\ Init
  /\ pc = "sleep" /\ count = FirstCount
  /\ abort = FALSE /\ message = {} /\ cache = {}
  /\ posted = <<>> /\ window = "open" /\ held = TRUE
  /\ known = {} /\ table = {} /\ shown = {} /\ clicks = 0

-----------------------------------------------------------------------------
(* The thread.                                                             *)

\* Each of the signals goes to the window, while there is one.
Post(events) == posted' = IF window = "open" THEN posted \o events ELSE posted

RoomToPost == Len(posted) + 2 <= MaxPosted

\* The object of a string that has just been read.
NewObject(text) == [text |-> text, copy |-> IF \E o \in cache : o.text = text THEN 1 ELSE 0]

\* Faulty variant: a set ordered by the addresses.
GetObjectByAddress(object) == [new |-> object \notin cache, object |-> object]

\* ObjectCache::getObject: a set ordered by the texts.
GetObject(object) ==
  LET same == {o \in cache : o.text = object.text}
  IN IF same = {} THEN [new |-> TRUE, object |-> object]
     ELSE [new |-> FALSE, object |-> CHOOSE o \in same : TRUE]

Element(object) == [kind |-> "newElement", object |-> object]
Entries(objects) == [kind |-> "newEntry", objects |-> objects]

\* Faulty variant: the entries are sent before the cache has seen the last of them.
EntriesFirst(element, entries) == entries \o element

\* setAttribute comes before emit newEntry, and both wait in one queue.
ElementFirst(element, entries) == element \o entries

\* getNextLogEntry and setAttribute, for an entry with this text; the message is sent when
\* the entry is the last of it.  A message with no row of a new object changes nothing.
MakeEntry(text, isLast) ==
  LET got == GetObject(NewObject(text))
      all == message \cup ({got.object} \ table)
  IN /\ RoomToPost
     /\ cache' = IF got.new THEN cache \cup {got.object} ELSE cache
     /\ message' = IF isLast THEN {} ELSE all
     /\ Post(ElementFirst(IF got.new THEN <<Element(got.object)>> ELSE <<>>,
                          IF isLast /\ all # {} THEN <<Entries(all)>> ELSE <<>>))

\* Faulty variant: m_abort is looked at only while entries are asked for.
SleepOn ==
  /\ pc = "sleep"
  /\ pc' = IF count # 0 /\ abort THEN "ended" ELSE "count"
  /\ UNCHANGED <<count, message, cache, posted>>

\* The sleeping loop: m_abort counts while no entries are asked for; behind the fourth
\* sleep there is an entry nobody asked for.
Sleep ==
  /\ pc = "sleep"
  /\ pc' = IF count = 0 /\ abort THEN "ended" ELSE "count"
  /\ UNCHANGED <<count, message, cache, posted>>

\* while( m_count ): an entry for each.
CountDown(text) ==
  /\ pc = "count" /\ count # 0
  /\ MakeEntry(text, FALSE)
  /\ count' = count - 1
  /\ UNCHANGED pc

\* The entry nobody asked for, which ends every message.
LastEntry(text) ==
  /\ pc = "count" /\ count = 0
  /\ MakeEntry(text, TRUE)
  /\ pc' = "sleep"
  /\ UNCHANGED count

Run ==
  /\ Sleep \/ \E text \in Strings : CountDown(text) \/ LastEntry(text)
  /\ UNCHANGED <<vars, abort, window, held, rows, clicks>>

-----------------------------------------------------------------------------
(* The GUI thread: the events posted to it, in their order.                *)

Refuses(object) == object \in known /\ object.text \in removeStrings

\* filterUpdateFinished lets the row filter look at every row again.
Invalidate == shown' = {o \in table : ~Refuses(o)'}

\* The changes of the tree; they are bounded while events still come.
Busy == posted # <<>> \/ message # {} \/ Cardinality(table) < Cardinality(Strings)

Deliver == posted # <<>> /\ posted' = Tail(posted)

NewElement ==
  /\ Deliver
  /\ LET event == Head(posted)
     IN /\ event.kind = "newElement"
        /\ known' = known \cup {event.object}
        /\ NewStringElement(event.object.text)
  /\ UNCHANGED table
  /\ Invalidate

InsertEntry ==
  /\ Deliver
  /\ LET event == Head(posted)
     IN /\ event.kind = "newEntry"
        /\ table' = table \cup event.objects
        /\ shown' = shown \cup {o \in event.objects : ~Refuses(o)}
  /\ UNCHANGED <<vars, known>>

Gui ==
  /\ NewElement \/ InsertEntry
  /\ UNCHANGED <<thread, abort, window, held>>
  /\ clicks' = IF Busy' THEN clicks ELSE 0

-----------------------------------------------------------------------------
(* The user.                                                               *)

UseTree ==
  /\ window = "open"
  /\ clicks < MaxClicks \/ ~Busy
  /\ \/ \E i \in Items : Toggle(i) \/ OpenMenu(i)
     \/ ContextMenuPopup
     \/ CloseMenu
  /\ clicks' = IF Busy /\ treeVars' # treeVars THEN clicks + 1 ELSE clicks
  /\ UNCHANGED <<known, table>>
  /\ Invalidate
  /\ UNCHANGED <<thread, abort, posted, window, held>>

\* "Add Entries" of the plugin's menu.  The threads race for m_count: what is written
\* between the load and the store of m_count-- is lost, as if the entry was never chosen.
AddEntries ==
  /\ held
  /\ count' = MoreCount
  /\ UNCHANGED <<vars, pc, message, cache, abort, posted, window, held, rows, clicks>>

\* The window goes with its table, filter list and the events for them.  Its parser goes,
\* too, unless the plugin has it.
CloseWindow ==
  /\ window = "open" /\ menu = NoMenu
  /\ window' = "closed"
  /\ abort' = ~held
  /\ posted' = <<>> /\ known' = {} /\ table' = {} /\ shown' = {} /\ clicks' = 0
  /\ received' = {} /\ removeStrings' = {} /\ menu' = NoMenu
  /\ ResetAll
  /\ UNCHANGED <<thread, held>>

\* openDummyLogfile for the next window: m_parser = parser.
OpenAnother ==
  /\ held
  /\ held' = FALSE
  /\ abort' = (window = "closed")
  /\ UNCHANGED <<vars, thread, posted, window, rows, clicks>>

FeedNext ==
  \/ Run
  \/ Gui
  \/ UseTree \/ AddEntries \/ CloseWindow \/ OpenAnother

FeedSpec == FeedInit /\ [][FeedNext]_feedVars

(* The thread runs, and the GUI thread comes back to its events.           *)
FairSpec == FeedSpec /\ WF_feedVars(Run) /\ WF_feedVars(Gui)

-----------------------------------------------------------------------------
(* Properties.                                                             *)

\* The type invariant, with that of the tree: there is one object for each text.
FeedTypeOK ==
  /\ TypeOK
  /\ pc \in {"sleep", "count", "ended"}
  /\ count \in Nat
  /\ message \cup cache \cup known \cup table \subseteq Objects
  /\ shown \subseteq table
  /\ \A o, p \in cache : o.text = p.text => o = p

\* Exactly the rows are shown whose item is in the tree and selected, at every moment: a
\* string comes to the tree before the first row with it, rows that come later share the
\* object the filter knows, and every change of the tree reaches the rows that are there.
SelectionDecidesRows ==
  shown = {o \in table : o.text \in received /\ IsChecked(o.text)}

\* A destructor that waits for the thread gets to its end: m_abort is seen, although
\* only between messages, since nobody can ask this parser for more.
AbortEnds == abort ~> pc = "ended"
=============================================================================
