---------------------------- MODULE WindowStates ----------------------------
(***************************************************************************)
(* Several log windows behind one menu.  The capture switch, the rule      *)
(* widget and the filter dock exist once; WidgetStateSaver stores what     *)
(* they show for the window that is left and replays what they showed for  *)
(* the window that is entered, and SignalMultiplexer connects the menu to  *)
(* the one window that is active.                                          *)
(*                                                                         *)
(* A call that emits a signal runs the connected slots before it returns,  *)
(* so that one event of the window area is a chain of calls: the operators *)
(* below take the state `s' of the shared widgets to the state after the   *)
(* call, the actions apply a chain of them.                                *)
(***************************************************************************)
EXTENDS Naturals, FiniteSets, SequencesExt

CONSTANTS
    Windows,            \* log windows that can be opened
    NoWindow,           \* the null pointer
    AddressOrders       \* orders the watched objects may have in memory

Watchable == {"multiplexer", "rules", "capture", "dock"}

ASSUME WindowsAssumption == NoWindow \notin Windows
ASSUME OrderAssumption ==
    \A order \in AddressOrders :
        /\ order \in [1..4 -> Watchable]
        /\ \A i, j \in 1..4 : order[i] = order[j] => i = j

VARIABLES
    list,       \* QMdiArea::subWindowList
    active,     \* QMdiArea::activeSubWindow
    closed,     \* windows closed by the user, their deletion is on its way
    shared,     \* the widgets all windows share, and who is connected to them
    wanted,     \* what the user chose as the capture switch of each window
    order       \* the watched objects by their addresses, the keys of a std::map

vars == <<list, active, closed, shared, wanted, order>>

AnyWindow == Windows \cup {NoWindow}
Opened == {list[i] : i \in DOMAIN list}
Living == Opened \cup closed

-----------------------------------------------------------------------------
(* SignalMultiplexer *)

Connect(s, w) ==
    IF w \in s.states THEN [s EXCEPT !.connected[w] = @ + 1] ELSE s

Disconnect(s, w) ==
    IF w \in s.states THEN [s EXCEPT !.connected[w] = 0] ELSE s

(* Mutant: the object left stays connected. *)
SetObjectUnseparated(s, w) ==
    IF w = s.object THEN s ELSE Connect([s EXCEPT !.object = w], w)

SetObject(s, w) ==
    IF w = s.object THEN s
    ELSE Connect([Disconnect(s, s.object) EXCEPT !.object = w], w)

(* The three connections createWindowsFromParser makes for a new window.   *)
AddConnections(s, w) == Connect([s EXCEPT !.states = @ \cup {w}], w)

(* The window is gone, and with it, by QObject, its connections.           *)
DeleteObject(s, w) ==
    LET unset == IF w = s.object THEN SetObject(s, NoWindow) ELSE s
    IN  IF w \in s.states
        THEN [unset EXCEPT !.states = @ \ {w}, !.connected[w] = 0] ELSE s

-----------------------------------------------------------------------------
(* The watched objects *)

(* QAction::setChecked emits toggled when the check state changes, and     *)
(* LogEntryTableWindow::capture of each connected window runs.             *)
SetChecked(s, on) ==
    IF s.checked = on THEN s
    ELSE [s EXCEPT !.checked = on,
                   !.capturing = [w \in Windows |->
                       IF s.connected[w] > 0 THEN on ELSE @[w]]]

SetRules(s, w) == [s EXCEPT !.rules = w]
SetDock(s, w) == [s EXCEPT !.dock = w]

(* What dumpState keeps of a watched object.                               *)
Dump(s, obj) ==
    [of |-> obj,
     value |-> CASE obj = "capture" -> s.checked
                 [] obj = "rules" -> s.rules
                 [] obj = "dock" -> s.dock
                 [] obj = "multiplexer" -> NoWindow]

ReplayObject(s, state) ==
    CASE state.of = "multiplexer" -> SetObject(s, s.last)
      [] state.of = "capture" -> SetChecked(s, state.value)
      [] state.of = "rules" -> SetRules(s, state.value)
      [] state.of = "dock" -> SetDock(s, state.value)

-----------------------------------------------------------------------------
(* WidgetStateSaver *)

(* An entry of a std::map, new or written over.                            *)
Put(map, key, value) ==
    [k \in DOMAIN map \cup {key} |-> IF k = key THEN value ELSE map[k]]

(* What the object shows now is its default, replayed for the null window. *)
AddElementToWatch(s, obj) ==
    [s EXCEPT !.watched = @ \cup {obj},
              !.history = Put(@, NoWindow, Append(@[NoWindow], Dump(s, obj)))]

KeepWatched(states, dump) ==
    IF dump.watched THEN Append(states, dump.state) ELSE states

StoreState(s, w) ==
    LET dumped == [i \in 1..4 |-> [state |-> Dump(s, order[i]),
                                   watched |-> order[i] \in s.watched]]
    IN  [s EXCEPT !.history = Put(@, w, FoldLeft(KeepWatched, <<>>, dumped))]

ReplayState(s, w) ==
    IF w \in DOMAIN s.history
    THEN FoldLeft(ReplayObject, s, s.history[w]) ELSE s

DeregisterFocusObject(s, w) == [s EXCEPT !.history = Restrict(@, DOMAIN @ \ {w})]

SwitchState(s, w) ==
    IF s.last = w THEN s
    ELSE LET stored == IF s.last = NoWindow THEN s ELSE StoreState(s, s.last)
         IN  ReplayState([stored EXCEPT !.last = w], w)

-----------------------------------------------------------------------------
(* LogfileAnalyser and the window area *)

Init ==
    /\ list = <<>>
    /\ active = NoWindow
    /\ closed = {}
    /\ wanted = [w \in Windows |-> TRUE]
    /\ order \in AddressOrders
    /\ LET bare == [object |-> NoWindow, states |-> {},
                    connected |-> [w \in AnyWindow |-> 0],
                    capturing |-> [w \in Windows |-> TRUE],
                    checked |-> FALSE, rules |-> NoWindow, dock |-> NoWindow,
                    watched |-> {}, last |-> NoWindow,
                    history |-> [w \in {NoWindow} |-> <<>>]]
       IN  shared = FoldLeft(AddElementToWatch, bare,
                             <<"multiplexer", "rules", "capture">>)

(* Mutant: the dock is watched when it already shows the first window. *)
DockWatchedLate(s, w) ==
    IF "dock" \in s.watched THEN SetDock(s, w)
    ELSE AddElementToWatch(SetDock(s, w), "dock")

(* The dock is made with the first window, and its default is to be empty. *)
DockOf(s, w) ==
    SetDock(IF "dock" \in s.watched THEN s ELSE AddElementToWatch(s, "dock"), w)

(* Showing the window activates it before show() returns.                  *)
CreateWindowsFromParser(w) ==
    /\ w \notin Living
    /\ list' = Append(list, w)
    /\ active' = w
    /\ wanted' = [wanted EXCEPT ![w] = TRUE]
    /\ LET new == [shared EXCEPT !.capturing[w] = TRUE]
           tied == AddConnections(SetObject(new, w), w)
           shown == SwitchState(tied, w)
       IN  shared' = SetRules(DockOf(SetChecked(shown, TRUE), w), w)
    /\ UNCHANGED closed

SubWindowActivated(w) ==
    /\ w \in Opened \ {active}
    /\ active' = w
    /\ shared' = SwitchState(shared, w)
    /\ UNCHANGED <<list, closed, wanted>>

(* Mutant: the window closed stays in the list until it is deleted. *)
CloseWindowListed ==
    /\ active # NoWindow
    /\ closed' = closed \cup {active}
    /\ active' = NoWindow
    /\ UNCHANGED <<list, shared, wanted>>

(* The user closes the window in front; the area activates another one.    *)
CloseWindow ==
    /\ active # NoWindow
    /\ list' = RemoveFirst(list, active)
    /\ closed' = closed \cup {active}
    /\ \/ /\ list' = <<>>
          /\ active' = NoWindow
          /\ UNCHANGED shared
       \/ /\ active' \in Opened \ {active}
          /\ shared' = SwitchState(shared, active')
    /\ UNCHANGED wanted

(* Mutant: deregistered before the switch stores its states. *)
DestroyedDeregisteredFirst(w, left, front) ==
    LET next == IF front = NoWindow /\ left # <<>> THEN Head(left) ELSE front
    IN  SwitchState(DeregisterFocusObject(DeleteObject(shared, w), w), next)

(* The slots of destroyed(): the multiplexer's, then the main window's,    *)
(* which looks at the windows that are left.                               *)
SubWindowDestroyed(w, left, front) ==
    LET next == IF front = NoWindow /\ left # <<>> THEN Head(left) ELSE front
    IN  DeregisterFocusObject(SwitchState(DeleteObject(shared, w), next), w)

(* WA_DeleteOnClose.                                                       *)
DeleteClosed(w) ==
    /\ w \in closed
    /\ closed' = closed \ {w}
    /\ shared' = SubWindowDestroyed(w, list, active)
    /\ UNCHANGED <<list, active, wanted>>

(* The source reports an error and the user answers Close: the window, in  *)
(* front or not, is deleted without having been closed.                    *)
ErrorFromModel(w) ==
    /\ w \in Opened
    /\ list' = RemoveFirst(list, w)
    /\ \/ /\ w # active
          /\ shared' = SubWindowDestroyed(w, list', active)
          /\ UNCHANGED active
       \/ /\ w = active
          /\ list' = <<>>
          /\ active' = NoWindow
          /\ shared' = SubWindowDestroyed(w, list', NoWindow)
       \/ /\ w = active
          /\ active' \in Opened \ {w}
          /\ shared' = SwitchState(SubWindowDestroyed(w, list', NoWindow), active')
    /\ UNCHANGED <<closed, wanted>>

(* The user clicks the capture switch of the menu.                         *)
ToggleCapture ==
    /\ shared' = SetChecked(shared, ~shared.checked)
    /\ wanted' = [w \in Windows |->
                     IF w = active THEN ~shared.checked ELSE wanted[w]]
    /\ UNCHANGED <<list, active, closed>>

Next ==
    \/ \E w \in Windows : \/ CreateWindowsFromParser(w)
                          \/ SubWindowActivated(w)
                          \/ DeleteClosed(w)
                          \/ ErrorFromModel(w)
    \/ CloseWindow
    \/ ToggleCapture

(* Nothing moves in memory while the program runs.                         *)
Spec == Init /\ [][Next /\ UNCHANGED order]_vars

-----------------------------------------------------------------------------
(* Properties *)

(* The type invariant.                                                     *)
TypeOK ==
    /\ list \in Seq(Windows) /\ IsInjective(list)
    /\ active \in AnyWindow /\ active \notin closed
    /\ closed \subseteq Windows \ Opened
    /\ wanted \in [Windows -> BOOLEAN]
    /\ shared.connected \in [AnyWindow -> Nat]
    /\ shared.capturing \in [Windows -> BOOLEAN]
    /\ shared.checked \in BOOLEAN
    /\ {shared.object, shared.last, shared.rules, shared.dock} \subseteq AnyWindow
    /\ DOMAIN shared.history \subseteq AnyWindow
    /\ order \in AddressOrders

(* A window captures exactly if the user last wanted it to, and the check  *)
(* mark tells so, whatever windows were opened, entered, closed or lost in *)
(* between: what is replayed for the window that is entered must not reach *)
(* the one that is left (WidgetStateSaver::switchState).  It holds if the  *)
(* multiplexer lies below the switch in memory and is replayed before it;  *)
(* in the other orders the check mark is set while the multiplexer still   *)
(* points to the window that is left.                                      *)
CaptureFollowsInOrder ==
    (\E i, j \in 1..4 : i < j /\ order[i] = "multiplexer" /\ order[j] = "capture") =>
        /\ \A w \in Opened : shared.capturing[w] = wanted[w]
        /\ active # NoWindow => shared.checked = shared.capturing[active]

(* The menu, the rule widget and the dock belong to the active window, and *)
(* no other window answers the menu; without any window they show what     *)
(* they showed at the beginning.                                           *)
SharedBelongToActive ==
    /\ active # NoWindow =>
        /\ shared.object = active
        /\ shared.last = active
        /\ shared.rules = active
        /\ shared.dock = active
        /\ \A w \in AnyWindow : shared.connected[w] = IF w = active THEN 1 ELSE 0
    /\ Living = {} =>
        /\ {shared.object, shared.last, shared.rules, shared.dock} = {NoWindow}
        /\ \A w \in AnyWindow : shared.connected[w] = 0

(* Nothing of a window that was deleted is kept: a new window may live at  *)
(* its address, and would inherit connections and states.                  *)
NothingOfTheDeleted ==
    /\ {shared.object, shared.last, shared.rules, shared.dock}
           \subseteq Living \cup {NoWindow}
    /\ shared.states \subseteq Living
    /\ DOMAIN shared.history \subseteq Living \cup {NoWindow}
    /\ \A w \in DOMAIN shared.history : \A i \in DOMAIN shared.history[w] :
          shared.history[w][i].value \in BOOLEAN \cup Living \cup {NoWindow}

=============================================================================
