------------------------- MODULE WindowStatesProofs -------------------------
(***************************************************************************)
(* Proofs about WindowStates: that whatever windows are opened, entered,   *)
(* closed and lost, and wherever the watched objects lie in memory, the    *)
(* shared widgets belong to the window in front and keep nothing of those  *)
(* that are gone; and about QuickSearch, which shares no state with it:    *)
(* that a search in the window in front selects the next match, for a      *)
(* table of any length, any entries and any expression.                    *)
(***************************************************************************)
EXTENDS WindowStates, QuickSearch, SequenceTheorems, TLAPS

Replaying == INSTANCE FoldTheorems WITH Op <- ReplayObject
Keeping   == INSTANCE FoldTheorems WITH Op <- KeepWatched
Watching  == INSTANCE FoldTheorems WITH Op <- AddElementToWatch

-----------------------------------------------------------------------------
(* What is kept of the shared widgets *)

Orders == {o \in [1..4 -> Watchable] : \A i, j \in 1..4 : o[i] = o[j] => i = j}

(* The order they were watched in.                                         *)
WatchOrder == <<"multiplexer", "rules", "capture", "dock">>

(* What the watched objects show while all belong to w.                    *)
Shown(obj, w, on) ==
    IF obj = "capture" THEN on ELSE IF obj = "multiplexer" THEN NoWindow ELSE w

StatesOf(o, w, on) == [i \in 1..4 |-> [of |-> o[i], value |-> Shown(o[i], w, on)]]

(* The connections of the multiplexer when it points to w.                 *)
Only(w) == [v \in AnyWindow |-> IF v = w /\ v # NoWindow THEN 1 ELSE 0]

Shared(states, watched, history) ==
    [object : states \cup {NoWindow}, states : {states}, connected : [AnyWindow -> Nat],
     capturing : [Windows -> BOOLEAN], checked : BOOLEAN,
     rules : AnyWindow, dock : AnyWindow, last : AnyWindow,
     watched : {watched}, history : {history}]

Tied(s) == s.connected = Only(s.object)

(* Nothing but the object of the multiplexer changes from s to t.          *)
Pointed(s, t, w) ==
    /\ t.object = w /\ t.rules = s.rules /\ t.dock = s.dock /\ t.last = s.last
    /\ t.checked = s.checked /\ t.capturing = s.capturing

-----------------------------------------------------------------------------
(* One call on a watched object *)

LEMMA DisconnectIs ==
    ASSUME NEW states \in SUBSET Windows, NEW watched, NEW history,
           NEW s \in Shared(states, watched, history), Tied(s)
    PROVE  Disconnect(s, s.object) = [s EXCEPT !.connected = [v \in AnyWindow |-> 0]]
  <1>1. /\ s.object \in states \cup {NoWindow} /\ s.states = states
        /\ s.connected = Only(s.object) /\ NoWindow \notin states
        /\ states \subseteq AnyWindow /\ NoWindow \in AnyWindow
    BY WindowsAssumption DEF Shared, Tied, AnyWindow
  <1> DEFINE left == Disconnect(s, s.object)
  <1>2. CASE s.object \in states
    <2>1. [Only(s.object) EXCEPT ![s.object] = 0] = [v \in AnyWindow |-> 0]
      BY <1>1 DEF Only
    <2>2. left = [s EXCEPT !.connected = [s.connected EXCEPT ![s.object] = 0]]
      BY <1>1, <1>2 DEF Disconnect
    <2> QED
      BY <1>1, <2>1, <2>2
  <1>3. CASE s.object = NoWindow
    <2>1. Only(NoWindow) = [v \in AnyWindow |-> 0]
      BY DEF Only
    <2>2. left = s
      BY <1>1, <1>3 DEF Disconnect
    <2>3. s = [s EXCEPT !.connected = [v \in AnyWindow |-> 0]]
      BY <1>1, <1>3, <2>1 DEF Shared
    <2> QED
      BY <2>2, <2>3
  <1> QED
    BY <1>1, <1>2, <1>3

LEMMA SetObjectIs ==
    ASSUME NEW states \in SUBSET Windows, NEW watched, NEW history,
           NEW s \in Shared(states, watched, history), Tied(s),
           NEW w \in states \cup {NoWindow}
    PROVE  /\ SetObject(s, w) \in Shared(states, watched, history)
           /\ Tied(SetObject(s, w))
           /\ Pointed(s, SetObject(s, w), w)
  <1> DEFINE left == Disconnect(s, s.object)
             t == [s EXCEPT !.object = w, !.connected = Only(w)]
  <1>1. /\ s.object \in states \cup {NoWindow} /\ s.states = states
        /\ s.connected = Only(s.object) /\ NoWindow \notin states
        /\ states \subseteq AnyWindow /\ NoWindow \in AnyWindow
    BY WindowsAssumption DEF Shared, Tied, AnyWindow
  <1>2. t \in Shared(states, watched, history) /\ Tied(t) /\ Pointed(s, t, w)
    BY <1>1 DEF Shared, Tied, Only, Pointed
  <1>3. CASE w = s.object
    <2>1. t = s
      BY <1>1, <1>3 DEF Shared
    <2> QED
      BY <1>2, <1>3, <2>1 DEF SetObject
  <1>4. CASE w # s.object
    <2>1. left = [s EXCEPT !.connected = [v \in AnyWindow |-> 0]]
      BY DisconnectIs
    <2> DEFINE pointed == [left EXCEPT !.object = w]
    <2>2. pointed = [s EXCEPT !.object = w, !.connected = [v \in AnyWindow |-> 0]]
      BY <2>1 DEF Shared
    <2>3. Connect(pointed, w) = t
      <3>1. /\ pointed.states = states /\ pointed.connected = [v \in AnyWindow |-> 0]
        BY <1>1, <2>2 DEF Shared
      <3>2. CASE w \in states
        <4>1. [[v \in AnyWindow |-> 0] EXCEPT ![w] = 1] = Only(w)
          BY <1>1, <3>2 DEF Only
        <4>2. pointed.connected[w] + 1 = 1
          BY <1>1, <3>1, <3>2
        <4> HIDE DEF pointed
        <4>3. Connect(pointed, w) = [pointed EXCEPT !.connected = [pointed.connected EXCEPT ![w] = 1]]
          BY <3>1, <3>2, <4>2 DEF Connect
        <4>4. Connect(pointed, w) = [pointed EXCEPT !.connected = Only(w)]
          BY <3>1, <4>1, <4>3
        <4> QED
          BY <2>2, <4>4 DEF Shared
      <3>3. CASE w = NoWindow
        <4>1. Only(w) = [v \in AnyWindow |-> 0]
          BY <3>3 DEF Only
        <4> QED
          BY <1>1, <2>2, <3>1, <3>3, <4>1 DEF Connect
      <3> QED
        BY <3>2, <3>3
    <2> QED
      BY <1>2, <1>4, <2>3 DEF SetObject
  <1> QED
    BY <1>3, <1>4

(* The windows that hear of the capture switch.                            *)
Heard(s, on) == [v \in Windows |-> IF v = s.object THEN on ELSE s.capturing[v]]

LEMMA SetCheckedIs ==
    ASSUME NEW states \in SUBSET Windows, NEW watched, NEW history,
           NEW s \in Shared(states, watched, history), Tied(s),
           NEW on \in BOOLEAN
    PROVE  LET t == SetChecked(s, on)
           IN  /\ t \in Shared(states, watched, history) /\ Tied(t)
               /\ t.checked = on
               /\ t.capturing = IF s.checked = on THEN s.capturing ELSE Heard(s, on)
               /\ t.object = s.object /\ t.rules = s.rules
               /\ t.dock = s.dock /\ t.last = s.last
  <1> DEFINE t == SetChecked(s, on)
  <1>1. CASE s.checked = on
    BY <1>1 DEF SetChecked
  <1>2. CASE s.checked # on
    <2>1. t = [s EXCEPT !.checked = on,
                   !.capturing = [w \in Windows |->
                       IF s.connected[w] > 0 THEN on ELSE s.capturing[w]]]
      BY <1>2 DEF SetChecked, Shared
    <2>2. [w \in Windows |-> IF s.connected[w] > 0 THEN on ELSE s.capturing[w]] = Heard(s, on)
      <3>1. \A w \in Windows : s.connected[w] > 0 <=> w = s.object
        BY WindowsAssumption DEF Tied, Only, AnyWindow
      <3> QED
        BY <3>1 DEF Heard
    <2>3. Heard(s, on) \in [Windows -> BOOLEAN]
      BY DEF Heard, Shared
    <2>4. t = [s EXCEPT !.checked = on, !.capturing = Heard(s, on)]
      BY <2>1, <2>2
    <2> HIDE DEF t
    <2>5. t \in Shared(states, watched, history) /\ Tied(t)
      BY <2>3, <2>4 DEF Shared, Tied
    <2>6. /\ t.checked = on /\ t.capturing = Heard(s, on)
          /\ t.object = s.object /\ t.rules = s.rules
          /\ t.dock = s.dock /\ t.last = s.last
      BY <2>4 DEF Shared
    <2>7. t.capturing = IF s.checked = on THEN s.capturing ELSE Heard(s, on)
      BY <1>2, <2>6, Zenon
    <2> USE DEF t
    <2> QED
      BY <2>5, <2>6, <2>7, Zenon
  <1> QED
    BY <1>1, <1>2

(* The multiplexer is replayed before the capture switch.                  *)
InOrder(o) == \E i, j \in 1..4 : i < j /\ o[i] = "multiplexer" /\ o[j] = "capture"

Belongs(s, obj, w, on) ==
    /\ obj = "multiplexer" => s.object = w
    /\ obj = "rules" => s.rules = w
    /\ obj = "dock" => s.dock = w
    /\ obj = "capture" => s.checked = on

(* One state replayed changes what its object shows, and nothing else.     *)
LEMMA ReplayObjectIs ==
    ASSUME NEW states \in SUBSET Windows, NEW watched, NEW history,
           NEW s \in Shared(states, watched, history), Tied(s),
           NEW obj \in Watchable, NEW w \in states \cup {NoWindow}, s.last = w,
           NEW on \in BOOLEAN
    PROVE  LET t == ReplayObject(s, [of |-> obj, value |-> Shown(obj, w, on)])
           IN  /\ t \in Shared(states, watched, history) /\ Tied(t) /\ t.last = w
               /\ Belongs(t, obj, w, on)
               /\ \A other \in Watchable : Belongs(s, other, w, on) => Belongs(t, other, w, on)
               /\ \/ t.capturing = s.capturing
                  \/ obj = "capture" /\ t.capturing = Heard(s, on)
  <1> DEFINE state == [of |-> obj, value |-> Shown(obj, w, on)]
             t == ReplayObject(s, state)
             Others == \A other \in Watchable : Belongs(s, other, w, on) => Belongs(t, other, w, on)
  <1>0. state.of = obj /\ state.value = Shown(obj, w, on) /\ w \in AnyWindow
    BY DEF AnyWindow
  <1>1. CASE obj = "multiplexer"
    <2>1. t = SetObject(s, w)
      BY <1>0, <1>1 DEF ReplayObject
    <2> HIDE DEF t
    <2>2. /\ SetObject(s, w) \in Shared(states, watched, history) /\ Tied(SetObject(s, w))
          /\ Pointed(s, SetObject(s, w), w)
      BY SetObjectIs
    <2>3. /\ t.object = w /\ t.rules = s.rules /\ t.dock = s.dock /\ t.last = w
          /\ t.checked = s.checked /\ t.capturing = s.capturing
      BY <2>1, <2>2 DEF Pointed
    <2>4. Belongs(t, obj, w, on) /\ Others
      BY <1>1, <2>3 DEF Belongs
    <2> QED
      BY <2>1, <2>2, <2>3, <2>4 DEF t
  <1>2. CASE obj = "capture"
    <2>1. t = SetChecked(s, on)
      BY <1>0, <1>2 DEF ReplayObject, Shown
    <2> HIDE DEF t
    <2>2. /\ t \in Shared(states, watched, history) /\ Tied(t) /\ t.checked = on
          /\ t.capturing = s.capturing \/ t.capturing = Heard(s, on)
          /\ t.object = s.object /\ t.rules = s.rules /\ t.dock = s.dock /\ t.last = s.last
      BY <2>1, SetCheckedIs
    <2>3. Belongs(t, obj, w, on) /\ Others
      BY <1>2, <2>2 DEF Belongs
    <2> QED
      BY <1>2, <2>2, <2>3 DEF t
  <1>3. CASE obj = "rules"
    <2>1. t = [s EXCEPT !.rules = w]
      BY <1>0, <1>3 DEF ReplayObject, SetRules, Shown
    <2> HIDE DEF t
    <2>2. t \in Shared(states, watched, history) /\ Tied(t)
      BY <1>0, <2>1 DEF Shared, Tied
    <2>3. /\ t.object = s.object /\ t.rules = w /\ t.dock = s.dock /\ t.last = w
          /\ t.checked = s.checked /\ t.capturing = s.capturing
      BY <2>1 DEF Shared
    <2>4. Belongs(t, obj, w, on) /\ Others
      BY <1>3, <2>3 DEF Belongs
    <2> QED
      BY <2>2, <2>3, <2>4 DEF t
  <1>4. CASE obj = "dock"
    <2>1. t = [s EXCEPT !.dock = w]
      BY <1>0, <1>4 DEF ReplayObject, SetDock, Shown
    <2> HIDE DEF t
    <2>2. t \in Shared(states, watched, history) /\ Tied(t)
      BY <1>0, <2>1 DEF Shared, Tied
    <2>3. /\ t.object = s.object /\ t.rules = s.rules /\ t.dock = w /\ t.last = w
          /\ t.checked = s.checked /\ t.capturing = s.capturing
      BY <2>1 DEF Shared
    <2>4. Belongs(t, obj, w, on) /\ Others
      BY <1>4, <2>3 DEF Belongs
    <2> QED
      BY <2>2, <2>3, <2>4 DEF t
  <1> QED
    BY <1>1, <1>2, <1>3, <1>4 DEF Watchable

LEMMA OrdersReachAll ==
    ASSUME NEW o \in Orders, NEW obj \in Watchable
    PROVE  \E i \in 1..4 : o[i] = obj
  <1>1. /\ 1 \in 1..4 /\ 2 \in 1..4 /\ 3 \in 1..4 /\ 4 \in 1..4
        /\ o[1] \in Watchable /\ o[2] \in Watchable /\ o[3] \in Watchable /\ o[4] \in Watchable
        /\ o[1] # o[2] /\ o[1] # o[3] /\ o[1] # o[4]
        /\ o[2] # o[3] /\ o[2] # o[4] /\ o[3] # o[4]
    BY DEF Orders
  <1>2. o[1] = obj \/ o[2] = obj \/ o[3] = obj \/ o[4] = obj
    BY <1>1 DEF Watchable
  <1> QED
    BY <1>1, <1>2

(* What is replayed for w makes all watched objects belong to it; and no   *)
(* window hears of the capture switch if the multiplexer comes first and   *)
(* the states are those of w.                                              *)
LEMMA ReplayIs ==
    ASSUME NEW states \in SUBSET Windows, NEW watched, NEW history,
           NEW s \in Shared(states, watched, history), Tied(s),
           NEW o \in Orders, NEW w \in states \cup {NoWindow}, s.last = w,
           NEW on \in BOOLEAN
    PROVE  LET t == FoldLeft(ReplayObject, s, StatesOf(o, w, on))
           IN  /\ t \in Shared(states, watched, history) /\ Tied(t)
               /\ t.object = w /\ t.rules = w /\ t.dock = w /\ t.last = w
               /\ t.checked = on
               /\ InOrder(o) /\ (w = NoWindow \/ s.capturing[w] = on)
                      => t.capturing = s.capturing
  <1> DEFINE calm == InOrder(o) /\ (w = NoWindow \/ s.capturing[w] = on)
             seq == StatesOf(o, w, on)
             S == [i \in 0..4 |-> {t \in Shared(states, watched, history) :
                      /\ Tied(t) /\ t.last = w
                      /\ \A j \in 1..i : Belongs(t, o[j], w, on)
                      /\ calm => t.capturing = s.capturing}]
  <1>1. \A i \in 1..4 : seq[i] = [of |-> o[i], value |-> Shown(o[i], w, on)] /\ o[i] \in Watchable
    BY DEF StatesOf, Orders
  <1>2. s \in S[0]
    OBVIOUS
  <1>3. ASSUME NEW i \in 1..4, NEW t \in S[i - 1]
        PROVE  ReplayObject(t, seq[i]) \in S[i]
    <2>1. /\ t \in Shared(states, watched, history) /\ Tied(t) /\ t.last = w
          /\ \A j \in 1 .. i - 1 : Belongs(t, o[j], w, on)
          /\ calm => t.capturing = s.capturing
      <3>1. i - 1 \in 0..4
        OBVIOUS
      <3> QED
        BY <3>1
    <2> DEFINE u == ReplayObject(t, seq[i])
    <2>2. /\ u \in Shared(states, watched, history) /\ Tied(u) /\ u.last = w
          /\ Belongs(u, o[i], w, on)
          /\ \A other \in Watchable : Belongs(t, other, w, on) => Belongs(u, other, w, on)
          /\ \/ u.capturing = t.capturing
             \/ o[i] = "capture" /\ u.capturing = Heard(t, on)
      <3> HIDE DEF seq, u
      <3>1. o[i] \in Watchable /\ seq[i] = [of |-> o[i], value |-> Shown(o[i], w, on)]
        BY <1>1
      <3> DEFINE r == ReplayObject(t, [of |-> o[i], value |-> Shown(o[i], w, on)])
      <3>2. /\ r \in Shared(states, watched, history) /\ Tied(r) /\ r.last = w
            /\ Belongs(r, o[i], w, on)
            /\ \A other \in Watchable : Belongs(t, other, w, on) => Belongs(r, other, w, on)
            /\ \/ r.capturing = t.capturing
               \/ o[i] = "capture" /\ r.capturing = Heard(t, on)
        BY <2>1, <3>1, ReplayObjectIs
      <3>3. u = r
        BY <3>1 DEF u
      <3> QED
        BY <3>2, <3>3
    <2>3. \A j \in 1..i : Belongs(u, o[j], w, on)
      <3>1. \A j \in 1..i : j = i \/ j \in 1 .. i - 1
        OBVIOUS
      <3>2. \A j \in 1..i : o[j] \in Watchable
        BY <1>1
      <3> QED
        BY <2>1, <2>2, <3>1, <3>2, Zenon
    <2>4. ASSUME calm PROVE u.capturing = s.capturing
      <3>1. CASE o[i] = "capture" /\ u.capturing = Heard(t, on)
        <4>1. PICK j \in 1 .. i - 1 : o[j] = "multiplexer"
          BY <2>4, <3>1 DEF InOrder, Orders
        <4>2. t.object = w
          BY <2>1, <4>1 DEF Belongs
        <4>3. t.capturing \in [Windows -> BOOLEAN] /\ t.capturing = s.capturing
          BY <2>1, <2>4 DEF Shared
        <4>4. Heard(t, on) = t.capturing
          BY <2>4, <4>2, <4>3, WindowsAssumption DEF Heard
        <4> QED
          BY <3>1, <4>3, <4>4
      <3> QED
        BY <2>1, <2>2, <2>4, <3>1
    <2> QED
      BY <2>2, <2>3, <2>4
  <1> DEFINE r == Replaying!Fold(s, seq)
  <1>4. r \in S[4]
    <2>1. DOMAIN seq = 1..4 /\ 4 \in Nat
      BY DEF StatesOf
    <2> HIDE DEF S, seq
    <2> QED
      BY <1>2, <1>3, <2>1, Replaying!FoldReaches
  <1>5. FoldLeft(ReplayObject, s, seq) = r
    BY DEF FoldLeft, MapThenFoldSet, Max, Replaying!Fold, Replaying!Folds, Replaying!Largest
  <1>6. /\ r \in Shared(states, watched, history) /\ Tied(r) /\ r.last = w
        /\ \A j \in 1..4 : Belongs(r, o[j], w, on)
        /\ calm => r.capturing = s.capturing
    BY <1>4
  <1> HIDE DEF r, seq, calm
  <1>7. r.object = w /\ r.rules = w /\ r.dock = w /\ r.checked = on
    <2>1. \A obj \in Watchable : Belongs(r, obj, w, on)
      BY <1>6, OrdersReachAll
    <2> QED
      BY <2>1 DEF Belongs, Watchable
  <1> QED
    BY <1>5, <1>6, <1>7 DEF calm, seq

-----------------------------------------------------------------------------
(* Storing and switching *)

LEMMA KeepWatchedIs ==
    ASSUME NEW states, DOMAIN states = 1..4,
           NEW dumped, dumped = [i \in 1..4 |-> [state |-> states[i], watched |-> TRUE]]
    PROVE  FoldLeft(KeepWatched, <<>>, dumped) = [i \in 1..4 |-> states[i]]
  <1> DEFINE first(i) == [k \in 1..i |-> states[k]]
             S == [i \in 0..4 |-> {first(i)}]
  <1>1. <<>> \in S[0]
    OBVIOUS
  <1>2. ASSUME NEW i \in 1..4, NEW kept \in S[i - 1]
        PROVE  KeepWatched(kept, dumped[i]) \in S[i]
    <2>1. kept = first(i - 1)
      <3>1. i - 1 \in 0..4
        OBVIOUS
      <3> QED
        BY <3>1
    <2>2. KeepWatched(kept, dumped[i]) = Append(kept, states[i])
      BY DEF KeepWatched
    <2>3. Append(first(i - 1), states[i]) = first(i)
      OBVIOUS
    <2> HIDE DEF first
    <2>4. S[i] = {first(i)}
      OBVIOUS
    <2> HIDE DEF S
    <2> QED
      BY <2>1, <2>2, <2>3, <2>4
  <1>3. Keeping!Fold(<<>>, dumped) \in S[4]
    <2>1. DOMAIN dumped = 1..4 /\ 4 \in Nat
      OBVIOUS
    <2> HIDE DEF S
    <2> QED
      BY <1>1, <1>2, <2>1, Keeping!FoldReaches
  <1>4. FoldLeft(KeepWatched, <<>>, dumped) = Keeping!Fold(<<>>, dumped)
    BY DEF FoldLeft, MapThenFoldSet, Max, Keeping!Fold, Keeping!Folds, Keeping!Largest
  <1> QED
    BY <1>3, <1>4

LEMMA StoreStateIs ==
    ASSUME NEW states \in SUBSET Windows, NEW history,
           NEW s \in Shared(states, Watchable, history), order \in Orders,
           NEW w, s.rules = w, s.dock = w
    PROVE  StoreState(s, w) = [s EXCEPT !.history =
                                  Put(history, w, StatesOf(order, w, s.checked))]
  <1> DEFINE stored == StatesOf(order, w, s.checked)
             dumped == [i \in 1..4 |-> [state |-> Dump(s, order[i]),
                                        watched |-> order[i] \in s.watched]]
  <1>1. /\ \A i \in 1..4 : order[i] \in Watchable
        /\ s.watched = Watchable /\ s.history = history
    BY DEF Orders, Shared
  <1>2. ASSUME NEW obj \in Watchable
        PROVE  Dump(s, obj) = [of |-> obj, value |-> Shown(obj, w, s.checked)]
    BY DEF Dump, Shown, Watchable
  <1>3. dumped = [i \in 1..4 |-> [state |-> stored[i], watched |-> TRUE]]
    BY <1>1, <1>2 DEF StatesOf
  <1>4. FoldLeft(KeepWatched, <<>>, dumped) = stored
    <2>1. DOMAIN stored = 1..4 /\ stored = [i \in 1..4 |-> stored[i]]
      BY DEF StatesOf
    <2> HIDE DEF stored, dumped
    <2> QED
      BY <1>3, <2>1, KeepWatchedIs
  <1> HIDE DEF stored
  <1> QED
    BY <1>1, <1>4 DEF StoreState, stored

Stored(s) ==
    IF s.last = NoWindow THEN s.history
    ELSE Put(s.history, s.last, StatesOf(order, s.last, s.checked))

BelongTo(s, w) == s.object = w /\ s.rules = w /\ s.dock = w /\ s.last = w

(* What is left is stored before anything is replayed.                     *)
LEMMA LeavingIs ==
    ASSUME NEW states \in SUBSET Windows, NEW watched, NEW history,
           NEW s \in Shared(states, watched, history), Tied(s), order \in Orders,
           s.last # NoWindow => watched = Watchable /\ s.rules = s.last /\ s.dock = s.last,
           NEW w \in AnyWindow, s.last # w
    PROVE  \E t \in Shared(states, watched, Stored(s)) :
               /\ Tied(t) /\ t.last = w /\ t.object = s.object
               /\ t.rules = s.rules /\ t.dock = s.dock
               /\ t.checked = s.checked /\ t.capturing = s.capturing
               /\ SwitchState(s, w) = ReplayState(t, w)
  <1> DEFINE stored == IF s.last = NoWindow THEN s ELSE StoreState(s, s.last)
             t == [stored EXCEPT !.last = w]
  <1>1. stored = [s EXCEPT !.history = Stored(s)]
    <2>1. CASE s.last = NoWindow
      BY <2>1 DEF Stored, Shared
    <2>2. CASE s.last # NoWindow
      <3>1. StoreState(s, s.last) = [s EXCEPT !.history =
                          Put(s.history, s.last, StatesOf(order, s.last, s.checked))]
        <4>1. s.history = history /\ s \in Shared(states, Watchable, history)
          BY <2>2 DEF Shared
        <4> QED
          BY <2>2, <4>1, StoreStateIs
      <3> QED
        BY <2>2, <3>1 DEF Stored
    <2> QED
      BY <2>1, <2>2
  <1>2. SwitchState(s, w) = ReplayState(t, w)
    BY DEF SwitchState
  <1> DEFINE h == Stored(s)
  <1> HIDE DEF stored, h
  <1>3. t = [s EXCEPT !.history = h, !.last = w]
    BY <1>1 DEF h
  <1> HIDE DEF t
  <1>4. t \in Shared(states, watched, h) /\ Tied(t)
    BY <1>3 DEF Shared, Tied
  <1>5. /\ t.last = w /\ t.object = s.object /\ t.rules = s.rules /\ t.dock = s.dock
        /\ t.checked = s.checked /\ t.capturing = s.capturing
    BY <1>3 DEF Shared
  <1> QED
    BY <1>2, <1>4, <1>5 DEF h

(* A window that was never left has nothing to replay.                     *)
LEMMA EnterNewIs ==
    ASSUME NEW states \in SUBSET Windows, NEW watched, NEW history,
           NEW s \in Shared(states, watched, history), Tied(s), order \in Orders,
           s.last # NoWindow => watched = Watchable /\ s.rules = s.last /\ s.dock = s.last,
           NEW w \in AnyWindow, s.last # w, w \notin DOMAIN history
    PROVE  LET t == SwitchState(s, w)
           IN  /\ t \in Shared(states, watched, Stored(s))
               /\ Tied(t) /\ t.last = w /\ t.object = s.object
               /\ t.rules = s.rules /\ t.dock = s.dock
               /\ t.checked = s.checked /\ t.capturing = s.capturing
  <1>1. PICK t \in Shared(states, watched, Stored(s)) :
               /\ Tied(t) /\ t.last = w /\ t.object = s.object
               /\ t.rules = s.rules /\ t.dock = s.dock
               /\ t.checked = s.checked /\ t.capturing = s.capturing
               /\ SwitchState(s, w) = ReplayState(t, w)
    BY LeavingIs
  <1>2. w \notin DOMAIN t.history
    <2>1. t.history = Stored(s) /\ s.history = history
      BY DEF Shared
    <2> QED
      BY <2>1 DEF Stored, Put
  <1>3. ReplayState(t, w) = t
    BY <1>2 DEF ReplayState
  <1> QED
    BY <1>1, <1>3

(* A window that was left, or none, gets back what was stored.             *)
LEMMA SwitchIs ==
    ASSUME NEW states \in SUBSET Windows, NEW history,
           NEW s \in Shared(states, Watchable, history), Tied(s), order \in Orders,
           s.rules = s.last, s.dock = s.last,
           NEW w \in states \cup {NoWindow}, s.last # w, w \in DOMAIN history,
           NEW o \in Orders, NEW on \in BOOLEAN, history[w] = StatesOf(o, w, on)
    PROVE  LET t == SwitchState(s, w)
           IN  /\ t \in Shared(states, Watchable, Stored(s)) /\ Tied(t)
               /\ BelongTo(t, w)
               /\ t.checked = on
               /\ InOrder(o) /\ (w = NoWindow \/ s.capturing[w] = on)
                      => t.capturing = s.capturing
  <1>1. PICK u \in Shared(states, Watchable, Stored(s)) :
               /\ Tied(u) /\ u.last = w /\ u.object = s.object
               /\ u.rules = s.rules /\ u.dock = s.dock
               /\ u.checked = s.checked /\ u.capturing = s.capturing
               /\ SwitchState(s, w) = ReplayState(u, w)
    <2>1. w \in AnyWindow
      BY DEF AnyWindow
    <2> QED
      BY <2>1, LeavingIs
  <1>2. w \in DOMAIN u.history /\ u.history[w] = StatesOf(o, w, on)
    <2>1. u.history = Stored(s) /\ s.history = history
      BY DEF Shared
    <2> QED
      BY <2>1 DEF Stored, Put
  <1>3. SwitchState(s, w) = FoldLeft(ReplayObject, u, StatesOf(o, w, on))
    BY <1>1, <1>2 DEF ReplayState
  <1> DEFINE t == FoldLeft(ReplayObject, u, StatesOf(o, w, on))
  <1>4. /\ t \in Shared(states, Watchable, Stored(s)) /\ Tied(t)
        /\ t.object = w /\ t.rules = w /\ t.dock = w /\ t.last = w
        /\ t.checked = on
        /\ InOrder(o) /\ (w = NoWindow \/ u.capturing[w] = on)
               => t.capturing = u.capturing
    <2> DEFINE h == Stored(s)
    <2>1. u \in Shared(states, Watchable, h) /\ Tied(u) /\ u.last = w
      BY <1>1
    <2> HIDE DEF h, t
    <2>2. t \in Shared(states, Watchable, h) /\ Tied(t)
          /\ t.object = w /\ t.rules = w /\ t.dock = w /\ t.last = w
          /\ t.checked = on
          /\ (InOrder(o) /\ (w = NoWindow \/ u.capturing[w] = on)
                 => t.capturing = u.capturing)
      BY <2>1, ReplayIs DEF t
    <2> QED
      BY <2>2 DEF h
  <1> HIDE DEF t
  <1>5. SwitchState(s, w) = t
    BY <1>3 DEF t
  <1> QED
    BY <1>1, <1>4, <1>5 DEF BelongTo

-----------------------------------------------------------------------------
(* What holds between two events of the window area *)

Defaults == StatesOf(WatchOrder, NoWindow, FALSE)

(* What is kept is complete, of the window it is kept for, and only for    *)
(* those that live.                                                        *)
Replayable(history, living) ==
    /\ NoWindow \in DOMAIN history /\ DOMAIN history \subseteq living \cup {NoWindow}
    /\ history[NoWindow] = Defaults
    /\ \A w \in DOMAIN history \ {NoWindow} :
          \E on \in BOOLEAN : history[w] = StatesOf(order, w, on)

(* The multiplexer knows only the windows in `known'.                      *)
Kept(known, living, s) ==
    /\ s \in Shared(known, Watchable, s.history) /\ Tied(s)
    /\ s.rules = s.last /\ s.dock = s.last /\ s.last \in living \cup {NoWindow}
    /\ Replayable(s.history, living)

LEMMA WatchOrderIs == WatchOrder \in Orders /\ InOrder(WatchOrder)
  <1>1. /\ WatchOrder[1] = "multiplexer" /\ WatchOrder[2] = "rules"
        /\ WatchOrder[3] = "capture" /\ WatchOrder[4] = "dock" /\ DOMAIN WatchOrder = 1..4
    BY DEF WatchOrder
  <1>2. WatchOrder = [i \in 1..4 |-> WatchOrder[i]]
    BY DEF WatchOrder
  <1> HIDE DEF WatchOrder
  <1>3. \A i \in 1..4 : i = 1 \/ i = 2 \/ i = 3 \/ i = 4
    OBVIOUS
  <1>4. WatchOrder \in [1..4 -> Watchable]
    BY <1>1, <1>2, <1>3 DEF Watchable
  <1>5. \A i, j \in 1..4 : WatchOrder[i] = WatchOrder[j] => i = j
    BY <1>1, <1>3
  <1>6. InOrder(WatchOrder)
    BY <1>1 DEF InOrder
  <1> QED
    BY <1>4, <1>5, <1>6 DEF Orders

LEMMA StoredIsReplayable ==
    ASSUME NEW known \in SUBSET Windows, NEW living \in SUBSET Windows,
           NEW s, Kept(known, living, s)
    PROVE  /\ Replayable(Stored(s), living)
           /\ DOMAIN Stored(s) = DOMAIN s.history \cup {s.last}
           /\ \A w \in DOMAIN s.history \ {s.last} : Stored(s)[w] = s.history[w]
           /\ s.last # NoWindow => Stored(s)[s.last] = StatesOf(order, s.last, s.checked)
  <1>1. CASE s.last = NoWindow
    BY <1>1 DEF Kept, Replayable, Stored
  <1>2. CASE s.last # NoWindow
    <2> DEFINE h == s.history
               g == Stored(s)
    <2>1. g = [w \in DOMAIN h \cup {s.last} |->
                  IF w = s.last THEN StatesOf(order, s.last, s.checked) ELSE h[w]]
      BY <1>2 DEF Stored, Put
    <2>2. s.checked \in BOOLEAN /\ s.last \in living
      BY <1>2 DEF Kept, Shared
    <2> HIDE DEF g
    <2>3. /\ NoWindow \in DOMAIN g /\ DOMAIN g \subseteq living \cup {NoWindow}
          /\ g[NoWindow] = Defaults
      BY <1>2, <2>1, <2>2 DEF Kept, Replayable
    <2>4. ASSUME NEW w \in DOMAIN g \ {NoWindow}
          PROVE  \E on \in BOOLEAN : g[w] = StatesOf(order, w, on)
      <3>1. CASE w = s.last
        BY <2>1, <2>2, <3>1
      <3>2. CASE w # s.last
        BY <2>1, <3>2 DEF Kept, Replayable
      <3> QED
        BY <3>1, <3>2
    <2>5. Replayable(g, living)
      BY <2>3, <2>4 DEF Replayable
    <2> QED
      BY <1>2, <2>1, <2>5 DEF g
  <1> QED
    BY <1>1, <1>2

CanReplay(s, w) == w \in DOMAIN s.history /\ s.last # w

(* No window hears of the capture switch if its states are those of w.     *)
SwitchedTo(s, t, w) ==
    /\ t.object = w /\ t.last = w /\ t.history = Stored(s)
    /\ InOrder(order) /\ w # NoWindow
          /\ s.history[w] = StatesOf(order, w, s.capturing[w])
       => t.capturing = s.capturing /\ t.checked = s.capturing[w]

LEMMA SwitchKeeps ==
    ASSUME NEW known \in SUBSET Windows, NEW living \in SUBSET Windows,
           NEW s, Kept(known, living, s), order \in Orders,
           NEW w \in known \cup {NoWindow}, known \subseteq living, CanReplay(s, w)
    PROVE  /\ Kept(known, living, SwitchState(s, w))
           /\ SwitchedTo(s, SwitchState(s, w), w)
  <1>0. Replayable(Stored(s), living)
    BY StoredIsReplayable
  <1> USE DEF CanReplay
  <1> DEFINE t == SwitchState(s, w)
             h == s.history
  <1>1. /\ s \in Shared(known, Watchable, h) /\ Tied(s)
        /\ s.rules = s.last /\ s.dock = s.last
    BY DEF Kept
  <1>2. \E o \in Orders, on \in BOOLEAN : h[w] = StatesOf(o, w, on)
    <2>1. CASE w = NoWindow
      BY <2>1, WatchOrderIs DEF Kept, Replayable, Defaults
    <2>2. CASE w # NoWindow
      BY <2>2 DEF Kept, Replayable
    <2> QED
      BY <2>1, <2>2
  <1> HIDE DEF t, h
  <1>3. t \in Shared(known, Watchable, Stored(s)) /\ Tied(t) /\ BelongTo(t, w)
    <2>1. PICK o \in Orders, on \in BOOLEAN : h[w] = StatesOf(o, w, on)
      BY <1>2
    <2>2. w \in DOMAIN h
      BY DEF h
    <2> QED
      BY <1>1, <2>1, <2>2, SwitchIs DEF t
  <1>4. ASSUME InOrder(order), w # NoWindow, h[w] = StatesOf(order, w, s.capturing[w])
        PROVE  t.capturing = s.capturing /\ t.checked = s.capturing[w]
    <2>1. s.capturing[w] \in BOOLEAN /\ w \in DOMAIN h
      BY <1>1, <1>4 DEF Shared, h
    <2> QED
      BY <1>1, <1>4, <2>1, SwitchIs DEF t
  <1>5. t.history = Stored(s) /\ Kept(known, living, t)
    <2>1. t.history = Stored(s)
      BY <1>3 DEF Shared
    <2>2. Replayable(t.history, living)
      BY <1>0, <2>1
    <2>3. t \in Shared(known, Watchable, t.history)
      BY <1>3, <2>1
    <2>4. t.rules = t.last /\ t.dock = t.last /\ t.last \in living \cup {NoWindow}
      BY <1>3 DEF BelongTo
    <2> QED
      BY <1>3, <2>1, <2>2, <2>3, <2>4 DEF Kept
  <1> QED
    BY <1>3, <1>4, <1>5 DEF BelongTo, SwitchedTo, t, h

(* The multiplexer forgets a window before the states are switched.        *)
LEMMA DeleteObjectKeeps ==
    ASSUME NEW living \in SUBSET Windows, NEW s, Kept(living, living, s),
           NEW w \in living
    PROVE  LET t == DeleteObject(s, w)
           IN  /\ Kept(living \ {w}, living, t)
               /\ t.object = IF w = s.object THEN NoWindow ELSE s.object
               /\ t.last = s.last /\ t.history = s.history
               /\ t.checked = s.checked /\ t.capturing = s.capturing
  <1> DEFINE unset == IF w = s.object THEN SetObject(s, NoWindow) ELSE s
             h == s.history
             t == DeleteObject(s, w)
  <1>1. s \in Shared(living, Watchable, h) /\ Tied(s)
    BY DEF Kept
  <1> HIDE DEF h
  <1>2. /\ unset \in Shared(living, Watchable, h) /\ Tied(unset)
        /\ unset.object = IF w = s.object THEN NoWindow ELSE s.object
        /\ unset.rules = s.rules /\ unset.dock = s.dock /\ unset.last = s.last
        /\ unset.checked = s.checked /\ unset.capturing = s.capturing
    <2>1. CASE w = s.object
      <3>1. /\ SetObject(s, NoWindow) \in Shared(living, Watchable, h)
            /\ Tied(SetObject(s, NoWindow))
            /\ Pointed(s, SetObject(s, NoWindow), NoWindow)
        BY <1>1, SetObjectIs
      <3> QED
        BY <2>1, <3>1 DEF Pointed
    <2>2. CASE w # s.object
      BY <1>1, <2>2
    <2> QED
      BY <2>1, <2>2
  <1>3. w # unset.object /\ w \in AnyWindow /\ w \in s.states
    BY <1>1, <1>2, WindowsAssumption DEF AnyWindow, Shared
  <1>4. t = [unset EXCEPT !.states = living \ {w}]
    <2>1. t = [unset EXCEPT !.states = unset.states \ {w},
                            !.connected = [unset.connected EXCEPT ![w] = 0]]
      BY <1>3 DEF DeleteObject
    <2>2. [unset.connected EXCEPT ![w] = 0] = unset.connected
      BY <1>2, <1>3 DEF Tied, Only
    <2>3. unset.states = living
      BY <1>2 DEF Shared
    <2> HIDE DEF unset
    <2> QED
      BY <1>2, <2>1, <2>2, <2>3 DEF Shared
  <1> HIDE DEF unset, t
  <1>5. t \in Shared(living \ {w}, Watchable, h) /\ Tied(t)
    <2>1. unset.object \in (living \ {w}) \cup {NoWindow}
      BY <1>2, <1>3 DEF Shared
    <2> QED
      BY <1>2, <1>4, <2>1 DEF Shared, Tied
  <1>6. /\ t.object = unset.object /\ t.rules = s.rules /\ t.dock = s.dock
        /\ t.last = s.last /\ t.checked = s.checked /\ t.capturing = s.capturing
        /\ t.history = h
    BY <1>2, <1>4 DEF Shared
  <1>7. Kept(living \ {w}, living, t)
    BY <1>5, <1>6 DEF Kept, h
  <1> QED
    BY <1>2, <1>6, <1>7 DEF t, h

Shows(s, w) == s.last = w

(* The states stored for w are thrown away, when nothing shows w any more. *)
Deregistered(s, t, w) ==
    /\ t.object = s.object /\ t.last = s.last
    /\ t.checked = s.checked /\ t.capturing = s.capturing
    /\ DOMAIN t.history = DOMAIN s.history \ {w}
    /\ \A v \in DOMAIN s.history \ {w} : t.history[v] = s.history[v]

LEMMA DeregisterKeeps ==
    ASSUME NEW living \in SUBSET Windows, NEW w \in living,
           NEW s, Kept(living \ {w}, living, s), ~Shows(s, w)
    PROVE  /\ Kept(living \ {w}, living \ {w}, DeregisterFocusObject(s, w))
           /\ Deregistered(s, DeregisterFocusObject(s, w), w)
  <1> USE DEF Shows
  <1> DEFINE h == s.history
             g == [v \in DOMAIN h \ {w} |-> h[v]]
             t == DeregisterFocusObject(s, w)
  <1>1. t = [s EXCEPT !.history = g]
    BY DEF DeregisterFocusObject, Restrict
  <1>2. s \in Shared(living \ {w}, Watchable, h) /\ w # NoWindow
    BY WindowsAssumption DEF Kept
  <1>3. Replayable(g, living \ {w})
    BY <1>2 DEF Kept, Replayable
  <1> HIDE DEF h, g, t
  <1>4. t \in Shared(living \ {w}, Watchable, g) /\ t.history = g
    BY <1>1, <1>2 DEF Shared
  <1>5. /\ t.object = s.object /\ t.rules = s.rules /\ t.dock = s.dock /\ t.last = s.last
        /\ t.checked = s.checked /\ t.capturing = s.capturing
        /\ t.connected = s.connected
    BY <1>1, <1>2 DEF Shared
  <1>6. Kept(living \ {w}, living \ {w}, t)
    BY <1>3, <1>4, <1>5 DEF Kept, Tied
  <1>7. Deregistered(s, t, w)
    BY <1>4, <1>5 DEF Deregistered, g, h
  <1> QED
    BY <1>6, <1>7 DEF t

(* What destroyed() of a window leaves: the shared widgets are those of    *)
(* the window in front, or else of the first one left.                     *)
NextFront(left, front) == IF front = NoWindow /\ left # <<>> THEN Head(left) ELSE front

DestroyedTo(t, w, next) ==
    /\ t.object = next /\ t.last = next
    /\ DOMAIN shared.history \ {w} \subseteq DOMAIN t.history
    /\ \A v \in DOMAIN shared.history \ {w, shared.last} : t.history[v] = shared.history[v]
    /\ next = shared.last => t.capturing = shared.capturing /\ t.checked = shared.checked
    /\ InOrder(order) /\ next # NoWindow /\ next # shared.last
          /\ shared.history[next] = StatesOf(order, next, shared.capturing[next])
       => t.capturing = shared.capturing /\ t.checked = shared.capturing[next]

CanEnter(living, w, next) ==
    /\ next \in (living \ {w}) \cup {NoWindow}
    /\ next = shared.last \/ next \in DOMAIN shared.history

LEMMA DestroyedKeeps ==
    ASSUME NEW living \in SUBSET Windows, Kept(living, living, shared),
           shared.object = shared.last, order \in Orders,
           NEW w \in living, NEW left, NEW front,
           CanEnter(living, w, NextFront(left, front))
    PROVE  LET t == SubWindowDestroyed(w, left, front)
           IN  /\ Kept(living \ {w}, living \ {w}, t)
               /\ DestroyedTo(t, w, NextFront(left, front))
  <1> DEFINE next == NextFront(left, front)
  <1>0. /\ next \in (living \ {w}) \cup {NoWindow}
        /\ next = shared.last \/ next \in DOMAIN shared.history
    BY DEF CanEnter
  <1> DEFINE d == DeleteObject(shared, w)
             u == SwitchState(d, next)
             t == SubWindowDestroyed(w, left, front)
  <1>1. t = DeregisterFocusObject(u, w)
    BY DEF SubWindowDestroyed, NextFront
  <1>d. d = DeleteObject(shared, w)
    OBVIOUS
  <1> HIDE DEF d, u, t, next
  <1>2. /\ Kept(living \ {w}, living, d)
        /\ d.object = IF w = shared.object THEN NoWindow ELSE shared.object
        /\ d.last = shared.last /\ d.history = shared.history
        /\ d.checked = shared.checked /\ d.capturing = shared.capturing
    BY <1>d, DeleteObjectKeeps
  <1> USE DEF u
  <1>3. w # next /\ living \ {w} \in SUBSET Windows /\ living \ {w} \subseteq living
    BY <1>0, WindowsAssumption
  <1> DEFINE rest == living \ {w}
  <1>r. /\ rest \in SUBSET Windows /\ rest \subseteq living /\ next \in rest \cup {NoWindow}
        /\ Kept(rest, living, d)
    BY <1>0, <1>2, <1>3
  <1>4. CASE next = shared.last
    <2>1. u = d
      BY <1>2, <1>4 DEF SwitchState
    <2>2. d.object = next
      BY <1>2, <1>3, <1>4
    <2>3. Kept(living \ {w}, living \ {w}, t) /\ Deregistered(d, t, w)
      <3>1. ~Shows(d, w)
        BY <1>2, <1>3, <1>4 DEF Shows
      <3>2. t = DeregisterFocusObject(d, w)
        BY <1>1, <2>1
      <3> QED
        BY <1>2, <3>1, <3>2, DeregisterKeeps
    <2> QED
      BY <1>2, <1>4, <2>2, <2>3 DEF t, next, DestroyedTo, Deregistered
  <1>5. CASE next # shared.last
    <2>1. Kept(rest, living, u) /\ SwitchedTo(d, u, next)
      <3>1. CanReplay(d, next)
        BY <1>0, <1>2, <1>5 DEF CanReplay
      <3> HIDE DEF rest
      <3> QED
        BY <1>r, <3>1, SwitchKeeps
    <2>2. /\ u.object = next /\ u.last = next /\ u.history = Stored(d)
          /\ InOrder(order) /\ next # NoWindow
                /\ d.history[next] = StatesOf(order, next, d.capturing[next])
             => u.capturing = d.capturing /\ u.checked = d.capturing[next]
      <3> HIDE DEF u
      <3> QED
        BY <2>1 DEF SwitchedTo
    <2>3. /\ DOMAIN Stored(d) = DOMAIN d.history \cup {d.last}
          /\ \A v \in DOMAIN d.history \ {d.last} : Stored(d)[v] = d.history[v]
      BY <1>2, <1>3, StoredIsReplayable
    <2> HIDE DEF u
    <2>4. Kept(living \ {w}, living \ {w}, t) /\ Deregistered(u, t, w)
      <3>1. ~Shows(u, w)
        BY <1>3, <2>2 DEF Shows
      <3> QED
        BY <1>1, <2>1, <3>1, DeregisterKeeps
    <2> QED
      BY <1>2, <1>5, <2>2, <2>3, <2>4 DEF t, next, DestroyedTo, Deregistered
  <1> QED
    BY <1>4, <1>5

-----------------------------------------------------------------------------
(* The inductive invariant *)

FirstThree == [w \in {NoWindow} |-> [i \in 1..3 |-> Defaults[i]]]

(* Before the first window: the dock is not made, and nothing was left.    *)
Bare(s) ==
    /\ s \in Shared({}, Watchable \ {"dock"}, s.history) /\ Tied(s)
    /\ s.rules = NoWindow /\ s.dock = NoWindow /\ s.last = NoWindow
    /\ s.history = FirstThree

WindowArea ==
    /\ list \in Seq(Windows) /\ IsInjective(list)
    /\ active \in Opened \cup {NoWindow} /\ (active = NoWindow => list = <<>>)
    /\ closed \subseteq Windows \ Opened
    /\ wanted \in [Windows -> BOOLEAN] /\ order \in AddressOrders

(* Each open window but the one in front has been left, and its states are *)
(* stored; the shared widgets are those of the window in front.            *)
InFront ==
    /\ active # NoWindow => shared.last = active
    /\ Opened \ {shared.last} \subseteq DOMAIN shared.history
    /\ \/ Living = {} /\ Bare(shared)
       \/ Kept(Living, Living, shared) /\ shared.object = shared.last

(* What is stored of a window is what its user wants.                      *)
Capturing ==
    InOrder(order) =>
        /\ \A w \in Opened : shared.capturing[w] = wanted[w]
        /\ active # NoWindow => shared.checked = shared.capturing[active]
        /\ \A w \in Opened \ {shared.last} :
              shared.history[w] = StatesOf(order, w, wanted[w])

StatesInv == WindowArea /\ InFront /\ Capturing

-----------------------------------------------------------------------------
(* The list of windows *)

Of(seq) == {seq[i] : i \in DOMAIN seq}

LEMMA AppendIs ==
    ASSUME NEW seq \in Seq(Windows), IsInjective(seq), NEW w \in Windows \ Of(seq)
    PROVE  /\ Append(seq, w) \in Seq(Windows) /\ IsInjective(Append(seq, w))
           /\ Of(Append(seq, w)) = Of(seq) \cup {w}
  <1> DEFINE n == Len(seq)
             longer == Append(seq, w)
  <1>1. /\ n \in Nat /\ DOMAIN seq = 1..n /\ longer \in Seq(Windows)
        /\ DOMAIN longer = 1 .. n + 1
        /\ \A i \in 1..n : longer[i] = seq[i] /\ longer[n + 1] = w
        /\ longer[n + 1] = w
    BY AppendProperties, LenProperties
  <1> HIDE DEF longer, n
  <1>2. \A i \in 1 .. n + 1 : i \in 1..n \/ i = n + 1
    BY <1>1
  <1>3. \A i \in 1..n : seq[i] # w /\ i \in 1 .. n + 1 /\ i # n + 1
    BY <1>1 DEF Of
  <1>4. IsInjective(longer)
    BY <1>1, <1>2, <1>3 DEF IsInjective
  <1>5. Of(longer) = Of(seq) \cup {w}
    <2>1. n + 1 \in 1 .. n + 1
      BY <1>1
    <2> QED
      BY <1>1, <1>2, <1>3, <2>1 DEF Of
  <1> QED
    BY <1>1, <1>4, <1>5 DEF longer

LEMMA RemoveFirstIs ==
    ASSUME NEW seq \in Seq(Windows), IsInjective(seq), NEW w \in Of(seq)
    PROVE  /\ RemoveFirst(seq, w) \in Seq(Windows) /\ IsInjective(RemoveFirst(seq, w))
           /\ Of(RemoveFirst(seq, w)) = Of(seq) \ {w}
  <1> DEFINE n == Len(seq)
  <1>1. n \in Nat /\ DOMAIN seq = 1..n /\ \A i \in 1..n : seq[i] \in Windows
    BY LenProperties, ElementOfSeq
  <1>2. PICK k \in 1..n : seq[k] = w
    BY <1>1 DEF Of
  <1>3. {i \in 1..n : seq[i] = w} = {k}
    BY <1>1, <1>2 DEF IsInjective
  <1>4. Min({k}) = k
    BY <1>1, <1>2 DEF Min
  <1>5. RemoveFirst(seq, w) = RemoveAt(seq, k)
    BY <1>1, <1>2, <1>3, <1>4 DEF RemoveFirst, SelectInSeq
  <1> DEFINE before == SubSeq(seq, 1, k - 1)
             behind == SubSeq(seq, k + 1, n)
             rest == before \o behind
  <1>6. /\ before \in Seq(Windows) /\ Len(before) = k - 1
        /\ \A i \in 1 .. k - 1 : before[i] = seq[i]
    BY <1>1, <1>2, SubSeqProperties
  <1>7. /\ behind \in Seq(Windows) /\ Len(behind) = n - k
        /\ \A i \in 1 .. n - k : behind[i] = seq[k + i]
    <2>1. /\ k + 1 \in Int /\ n \in Int /\ \A i \in k + 1 .. n : seq[i] \in Windows
          /\ (IF k + 1 <= n THEN n - (k + 1) + 1 ELSE 0) = n - k
          /\ n - (k + 1) + 1 = n - k
          /\ \A i \in 1 .. n - k : (k + 1) + i - 1 = k + i
      <3> HIDE DEF n
      <3>1. /\ k \in Int /\ n \in Int /\ 1 <= k /\ k <= n
            /\ \A i \in k + 1 .. n : i \in 1..n
        BY <1>1, <1>2
      <3>2. \A i \in k + 1 .. n : seq[i] \in Windows
        BY <1>1, <3>1
      <3> QED
        BY <3>1, <3>2
    <2>2. /\ behind \in Seq(Windows)
          /\ Len(behind) = IF k + 1 <= n THEN n - (k + 1) + 1 ELSE 0
          /\ \A i \in 1 .. n - (k + 1) + 1 : behind[i] = seq[(k + 1) + i - 1]
      <3> HIDE DEF n
      <3> QED
        BY <2>1, SubSeqProperties
    <2> HIDE DEF behind, n
    <2> QED
      BY <2>1, <2>2
  <1>8. rest = RemoveFirst(seq, w)
    BY <1>5 DEF RemoveAt
  <1> HIDE DEF n, before, behind
  <1>9. /\ rest \in Seq(Windows) /\ Len(rest) = Len(before) + Len(behind)
        /\ \A i \in 1 .. Len(before) + Len(behind) :
              rest[i] = IF i <= Len(before) THEN before[i] ELSE behind[i - Len(before)]
    BY <1>6, <1>7, ConcatProperties
  <1> HIDE DEF rest
  <1> DEFINE At(i) == IF i < k THEN i ELSE i + 1
  <1>10. DOMAIN rest = 1 .. n - 1
    <2>1. Len(rest) = n - 1
      BY <1>1, <1>2, <1>6, <1>7, <1>9
    <2> QED
      BY <1>9, <2>1, LenProperties
  <1>11. ASSUME NEW i \in 1 .. n - 1
         PROVE  At(i) \in 1..n /\ At(i) # k /\ rest[i] = seq[At(i)]
    <2>1. i \in 1 .. Len(before) + Len(behind) /\ Len(before) = k - 1
      BY <1>1, <1>2, <1>6, <1>7
    <2>2. CASE i < k
      <3>1. i \in 1 .. k - 1 /\ i <= k - 1
        BY <1>1, <1>2, <2>2
      <3>2. rest[i] = before[i]
        BY <1>9, <2>1, <3>1
      <3> QED
        BY <1>1, <1>2, <1>6, <2>2, <3>1, <3>2
    <2>3. CASE ~(i < k)
      <3>1. ~(i <= k - 1) /\ i - (k - 1) \in 1 .. n - k /\ k + (i - (k - 1)) = i + 1
        BY <1>1, <1>2, <2>3
      <3>2. rest[i] = behind[i - (k - 1)]
        BY <1>9, <2>1, <3>1
      <3>3. behind[i - (k - 1)] = seq[i + 1]
        BY <1>7, <3>1
      <3> QED
        BY <1>1, <1>2, <2>3, <3>2, <3>3
    <2> QED
      BY <2>2, <2>3
  <1>12. /\ \A i, j \in 1 .. n - 1 : At(i) = At(j) => i = j
         /\ \A i \in 1..n : i # k => \E j \in 1 .. n - 1 : At(j) = i
    <2>1. \A i, j \in 1 .. n - 1 : At(i) = At(j) => i = j
      BY <1>1, <1>2
    <2>2. ASSUME NEW i \in 1..n, i # k
          PROVE  \E j \in 1 .. n - 1 : At(j) = i
      <3>1. CASE i < k
        <4>1. i \in 1 .. n - 1 /\ At(i) = i
          BY <1>1, <1>2, <3>1
        <4> QED
          BY <4>1
      <3>2. CASE i > k
        <4>1. i - 1 \in 1 .. n - 1 /\ At(i - 1) = i
          BY <1>1, <1>2, <3>2
        <4> QED
          BY <4>1
      <3> QED
        BY <1>1, <1>2, <2>2, <3>1, <3>2
    <2> QED
      BY <2>1, <2>2
  <1> HIDE DEF At
  <1>13. IsInjective(rest)
    BY <1>1, <1>10, <1>11, <1>12 DEF IsInjective
  <1>14. Of(rest) = Of(seq) \ {w}
    <2>1. \A i \in 1..n : seq[i] = w <=> i = k
      BY <1>1, <1>2 DEF IsInjective
    <2>2. Of(rest) = {seq[At(i)] : i \in 1 .. n - 1}
      BY <1>10, <1>11 DEF Of
    <2>3. Of(seq) = {seq[i] : i \in 1..n}
      BY <1>1 DEF Of
    <2>4. ASSUME NEW v \in Of(rest)
          PROVE  v \in Of(seq) /\ v # w
      BY <1>11, <2>1, <2>2, <2>3, <2>4
    <2>5. ASSUME NEW v \in Of(seq), v # w
          PROVE  v \in Of(rest)
      <3>1. PICK i \in 1..n : v = seq[i]
        BY <2>3, <2>5
      <3>2. PICK j \in 1 .. n - 1 : At(j) = i
        BY <1>12, <2>1, <2>5, <3>1
      <3> QED
        BY <2>2, <3>1, <3>2
    <2> QED
      BY <2>4, <2>5
  <1> QED
    BY <1>8, <1>9, <1>13, <1>14

-----------------------------------------------------------------------------
(* A new window *)

(* The multiplexer points to a window before it knows it.                  *)
LEMMA ConnectNewIs ==
    ASSUME NEW known \in SUBSET Windows, NEW watched, NEW history,
           NEW s \in Shared(known, watched, history), Tied(s),
           NEW w \in Windows \ known
    PROVE  LET t == AddConnections(SetObject(s, w), w)
           IN  /\ t \in Shared(known \cup {w}, watched, history) /\ Tied(t)
               /\ Pointed(s, t, w)
  <1> DEFINE left == Disconnect(s, s.object)
             u == SetObject(s, w)
             t == AddConnections(u, w)
             zeros == [v \in AnyWindow |-> 0]
  <1>1. /\ w # s.object /\ s.states = known /\ w # NoWindow /\ w \in AnyWindow
    BY WindowsAssumption DEF Shared, AnyWindow
  <1>2. left = [s EXCEPT !.connected = zeros]
    BY DisconnectIs
  <1>3. u = [s EXCEPT !.object = w, !.connected = zeros]
    <2> DEFINE pointed == [left EXCEPT !.object = w]
    <2>1. pointed = [s EXCEPT !.object = w, !.connected = zeros] /\ pointed.states = known
      BY <1>1, <1>2 DEF Shared
    <2>2. u = Connect(pointed, w)
      BY <1>1 DEF SetObject
    <2> HIDE DEF pointed
    <2>3. Connect(pointed, w) = pointed
      BY <1>1, <2>1 DEF Connect
    <2> QED
      BY <2>1, <2>2, <2>3
  <1> HIDE DEF u, left, t
  <1>4. t = [s EXCEPT !.object = w, !.states = known \cup {w}, !.connected = Only(w)]
    <2> DEFINE told == [u EXCEPT !.states = u.states \cup {w}]
    <2>1. /\ told = [s EXCEPT !.object = w, !.states = known \cup {w}, !.connected = zeros]
          /\ told.states = known \cup {w} /\ told.connected = zeros
      BY <1>1, <1>3 DEF Shared
    <2>2. t = Connect(told, w)
      BY DEF AddConnections, t
    <2> HIDE DEF told
    <2>3. zeros[w] + 1 = 1 /\ [zeros EXCEPT ![w] = 1] = Only(w)
      BY <1>1 DEF Only
    <2> HIDE DEF zeros
    <2>4. Connect(told, w) = [told EXCEPT !.connected = [told.connected EXCEPT ![w] = told.connected[w] + 1]]
      BY <2>1 DEF Connect
    <2>5. Connect(told, w) = [told EXCEPT !.connected = Only(w)]
      BY <2>1, <2>3, <2>4
    <2> QED
      BY <2>1, <2>2, <2>5 DEF Shared
  <1>5. t \in Shared(known \cup {w}, watched, history) /\ Tied(t)
    <2>1. Only(w) \in [AnyWindow -> Nat]
      BY DEF Only
    <2> QED
      BY <1>1, <1>4, <2>1 DEF Shared, Tied
  <1>6. Pointed(s, t, w)
    BY <1>4 DEF Shared, Pointed
  <1> QED
    BY <1>5, <1>6 DEF t, u

LEMMA FirstThreeAndDock ==
    Put(FirstThree, NoWindow, Append(FirstThree[NoWindow],
        [of |-> "dock", value |-> NoWindow])) = [w \in {NoWindow} |-> Defaults]
  <1> DEFINE three == [i \in 1..3 |-> Defaults[i]]
             dock == [of |-> "dock", value |-> NoWindow]
  <1>1. /\ Defaults = [i \in 1..4 |-> Defaults[i]] /\ Defaults[4] = dock
    <2>1. WatchOrder[4] = "dock"
      BY DEF WatchOrder
    <2>2. Defaults = [i \in 1..4 |-> [of |-> WatchOrder[i], value |-> Shown(WatchOrder[i], NoWindow, FALSE)]]
      BY DEF Defaults, StatesOf
    <2>3. Shown("dock", NoWindow, FALSE) = NoWindow
      BY DEF Shown
    <2> DEFINE value(i) == [of |-> WatchOrder[i], value |-> Shown(WatchOrder[i], NoWindow, FALSE)]
    <2>4. value(4) = dock
      BY <2>1, <2>3
    <2> HIDE DEF value
    <2>5. Defaults = [i \in 1..4 |-> value(i)]
      BY <2>2 DEF value
    <2> HIDE DEF dock
    <2>6. Defaults = [i \in 1..4 |-> Defaults[i]] /\ Defaults[4] = value(4)
      BY <2>5
    <2> QED
      BY <2>4, <2>6
  <1>2. Append(three, dock) = Defaults
    <2>1. Append(three, dock) = [i \in 1..4 |-> IF i = 4 THEN dock ELSE Defaults[i]]
      OBVIOUS
    <2> QED
      BY <1>1, <2>1
  <1>3. FirstThree[NoWindow] = three
    BY DEF FirstThree
  <1> HIDE DEF three
  <1> QED
    BY <1>2, <1>3 DEF Put, FirstThree

(* What the dock shows before the first window is its default.             *)
LEMMA DockIs ==
    ASSUME NEW known \in SUBSET Windows, NEW watched, NEW history,
           NEW s \in Shared(known, watched, history), Tied(s), NEW w \in known,
           \/ watched = Watchable
           \/ watched = Watchable \ {"dock"} /\ s.dock = NoWindow /\ history = FirstThree
    PROVE  LET h == IF watched = Watchable THEN history ELSE [v \in {NoWindow} |-> Defaults]
               t == SetRules(DockOf(s, w), w)
           IN  /\ t \in Shared(known, Watchable, h) /\ Tied(t)
               /\ t.object = s.object /\ t.rules = w /\ t.dock = w /\ t.last = s.last
               /\ t.checked = s.checked /\ t.capturing = s.capturing
  <1> DEFINE h == IF watched = Watchable THEN history ELSE [v \in {NoWindow} |-> Defaults]
             d == IF "dock" \in s.watched THEN s ELSE AddElementToWatch(s, "dock")
             t == SetRules(DockOf(s, w), w)
  <1>0. /\ s.watched = watched /\ s.history = history /\ w \in AnyWindow
        /\ "dock" \in Watchable /\ "dock" \notin Watchable \ {"dock"}
    BY DEF Shared, AnyWindow, Watchable
  <1>1. d = [s EXCEPT !.watched = Watchable, !.history = h]
    <2>1. CASE watched = Watchable
      BY <1>0, <2>1 DEF Shared
    <2>2. CASE watched = Watchable \ {"dock"} /\ s.dock = NoWindow /\ history = FirstThree
      <3>1. d = [s EXCEPT !.watched = s.watched \cup {"dock"},
                    !.history = Put(s.history, NoWindow,
                                    Append(s.history[NoWindow], Dump(s, "dock")))]
        BY <1>0, <2>2 DEF AddElementToWatch
      <3>2. Dump(s, "dock") = [of |-> "dock", value |-> NoWindow]
        BY <2>2 DEF Dump
      <3>3. s.watched \cup {"dock"} = Watchable /\ watched # Watchable
        BY <1>0, <2>2
      <3>4. Put(s.history, NoWindow, Append(s.history[NoWindow], Dump(s, "dock"))) = h
        BY <1>0, <2>2, <3>2, <3>3, FirstThreeAndDock
      <3> HIDE DEF h, d
      <3> QED
        BY <3>1, <3>3, <3>4
    <2> QED
      BY <2>1, <2>2
  <1>2. t = [d EXCEPT !.dock = w, !.rules = w]
    <2>1. t = [[d EXCEPT !.dock = w] EXCEPT !.rules = w]
      BY DEF SetRules, DockOf, SetDock
    <2> HIDE DEF d, t
    <2> QED
      BY <1>1, <2>1 DEF Shared
  <1> HIDE DEF h, d, t
  <1>3. t = [s EXCEPT !.watched = Watchable, !.history = h, !.dock = w, !.rules = w]
    BY <1>1, <1>2 DEF Shared
  <1>4. t \in Shared(known, Watchable, h) /\ Tied(t)
    BY <1>0, <1>3 DEF Shared, Tied
  <1>5. /\ t.object = s.object /\ t.rules = w /\ t.dock = w /\ t.last = s.last
        /\ t.checked = s.checked /\ t.capturing = s.capturing
    BY <1>3 DEF Shared
  <1> QED
    BY <1>4, <1>5 DEF h, t

LEMMA OrderIs == order \in AddressOrders => order \in Orders
  BY OrderAssumption DEF Orders

(* The shared widgets go over to the new window, which captures; what the  *)
(* one left showed is stored.                                              *)
LEMMA CreateIs ==
    ASSUME WindowArea, InFront, NEW w \in Windows, CreateWindowsFromParser(w)
    PROVE  /\ Kept(Living \cup {w}, Living \cup {w}, shared')
           /\ shared'.object = w /\ shared'.last = w
           /\ DOMAIN shared'.history = DOMAIN shared.history \cup {shared.last}
           /\ \A v \in DOMAIN shared.history \ {NoWindow, shared.last} :
                 shared'.history[v] = shared.history[v]
           /\ shared.last # NoWindow => shared'.history[shared.last]
                                            = StatesOf(order, shared.last, shared.checked)
           /\ shared'.checked = TRUE
           /\ shared'.capturing = [shared.capturing EXCEPT ![w] = TRUE]
  <1> DEFINE known == Living
             h == shared.history
             watched == shared.watched
             new == [shared EXCEPT !.capturing = [shared.capturing EXCEPT ![w] = TRUE]]
             tied == AddConnections(SetObject(new, w), w)
             shown == SwitchState(tied, w)
             checked == SetChecked(shown, TRUE)
             t == SetRules(DockOf(checked, w), w)
             H == IF watched = Watchable THEN Stored(shared) ELSE [v \in {NoWindow} |-> Defaults]
  <1>1. shared' = t /\ w \notin known
    BY DEF CreateWindowsFromParser
  <1>2. known \in SUBSET Windows /\ order \in Orders
    <2>1. Opened \subseteq Windows
      BY ElementOfSeq DEF WindowArea, Opened
    <2> QED
      BY <2>1, OrderIs DEF WindowArea, Living
  <1>3. /\ shared \in Shared(known, watched, h) /\ Tied(shared)
        /\ shared.rules = shared.last /\ shared.dock = shared.last
        /\ shared.last \in known \cup {NoWindow}
        /\ DOMAIN h \subseteq known \cup {NoWindow} /\ NoWindow \in DOMAIN h
        /\ \/ watched = Watchable /\ Kept(known, known, shared)
           \/ /\ watched = Watchable \ {"dock"} /\ shared.last = NoWindow
              /\ h = FirstThree /\ known = {}
    <2>1. CASE Living = {} /\ Bare(shared)
      BY <2>1 DEF Bare, Shared, FirstThree
    <2>2. CASE Kept(Living, Living, shared) /\ shared.object = shared.last
      BY <2>2 DEF Kept, Shared, Replayable
    <2> QED
      BY <2>1, <2>2 DEF InFront
  <1>4. w # shared.last /\ w \notin DOMAIN h /\ w \in AnyWindow
        /\ w \in known \cup {w} /\ known \cup {w} \in SUBSET Windows
    BY <1>1, <1>2, <1>3, WindowsAssumption DEF AnyWindow
  <1> HIDE DEF known, h, watched, tied, shown, checked, t, H
  <1>5. /\ new \in Shared(known, watched, h) /\ Tied(new)
        /\ new.rules = shared.rules /\ new.dock = shared.dock /\ new.last = shared.last
        /\ new.checked = shared.checked
        /\ new.capturing = [shared.capturing EXCEPT ![w] = TRUE]
    <2>1. [shared.capturing EXCEPT ![w] = TRUE] \in [Windows -> BOOLEAN]
      BY <1>3 DEF Shared
    <2> QED
      BY <1>3, <2>1 DEF Shared, Tied
  <1> HIDE DEF new
  <1>6. /\ tied \in Shared(known \cup {w}, watched, h) /\ Tied(tied) /\ Pointed(new, tied, w)
    BY <1>1, <1>2, <1>5, ConnectNewIs DEF tied
  <1>7. Stored(tied) = Stored(shared)
    <2>1. tied.history = shared.history /\ tied.last = shared.last /\ tied.checked = shared.checked
      BY <1>3, <1>5, <1>6 DEF Pointed, Shared
    <2> QED
      BY <2>1 DEF Stored
  <1>8. /\ shown \in Shared(known \cup {w}, watched, Stored(shared))
        /\ Tied(shown) /\ shown.last = w /\ shown.object = w
        /\ shown.rules = shared.rules /\ shown.dock = shared.dock
        /\ shown.capturing = [shared.capturing EXCEPT ![w] = TRUE]
    <2>1. /\ tied.last # w
          /\ tied.last # NoWindow => watched = Watchable /\ tied.rules = tied.last
                                                         /\ tied.dock = tied.last
      BY <1>3, <1>4, <1>5, <1>6 DEF Pointed
    <2>2. /\ shown \in Shared(known \cup {w}, watched, Stored(tied))
          /\ Tied(shown) /\ shown.last = w /\ shown.object = tied.object
          /\ shown.rules = tied.rules /\ shown.dock = tied.dock
          /\ shown.checked = tied.checked /\ shown.capturing = tied.capturing
      BY <1>2, <1>4, <1>6, <2>1, EnterNewIs DEF shown
    <2> QED
      BY <1>5, <1>6, <1>7, <2>2 DEF Pointed
  <1>9. /\ checked \in Shared(known \cup {w}, watched, Stored(shared)) /\ Tied(checked)
        /\ checked.checked = TRUE
        /\ checked.capturing = [shared.capturing EXCEPT ![w] = TRUE]
        /\ checked.object = w /\ checked.dock = shared.dock /\ checked.last = w
    <2>1. /\ checked \in Shared(known \cup {w}, watched, Stored(shared)) /\ Tied(checked)
          /\ checked.checked = TRUE
          /\ checked.capturing = IF shown.checked = TRUE THEN shown.capturing
                                 ELSE Heard(shown, TRUE)
          /\ checked.object = shown.object /\ checked.rules = shown.rules
          /\ checked.dock = shown.dock /\ checked.last = shown.last
      BY <1>4, <1>8, SetCheckedIs DEF checked
    <2>2. Heard(shown, TRUE) = [shared.capturing EXCEPT ![w] = TRUE]
      <3>1. shared.capturing \in [Windows -> BOOLEAN]
        BY <1>3 DEF Shared
      <3> QED
        BY <1>8, <3>1 DEF Heard
    <2> QED
      BY <1>8, <2>1, <2>2
  <1>10. /\ t \in Shared(known \cup {w}, Watchable, H) /\ Tied(t)
         /\ t.object = w /\ t.rules = w /\ t.dock = w /\ t.last = w
         /\ t.checked = TRUE /\ t.capturing = [shared.capturing EXCEPT ![w] = TRUE]
    <2> DEFINE g == Stored(shared)
    <2>1. \/ watched = Watchable
          \/ watched = Watchable \ {"dock"} /\ checked.dock = NoWindow /\ g = FirstThree
      BY <1>3, <1>9 DEF Stored, h
    <2> HIDE DEF g
    <2>2. H = IF watched = Watchable THEN g ELSE [v \in {NoWindow} |-> Defaults]
      BY DEF H, g
    <2>3. checked \in Shared(known \cup {w}, watched, g)
      BY <1>9 DEF g
    <2>4. /\ t \in Shared(known \cup {w}, Watchable, H) /\ Tied(t)
          /\ t.object = checked.object /\ t.rules = w /\ t.dock = w /\ t.last = checked.last
          /\ t.checked = checked.checked /\ t.capturing = checked.capturing
      BY <1>4, <1>9, <2>1, <2>2, <2>3, DockIs DEF t
    <2> QED
      BY <1>9, <2>4
  <1>11. /\ Replayable(H, known \cup {w})
         /\ DOMAIN H = DOMAIN h \cup {shared.last}
         /\ \A v \in DOMAIN h \ {NoWindow, shared.last} : H[v] = h[v]
         /\ shared.last # NoWindow =>
               H[shared.last] = StatesOf(order, shared.last, shared.checked)
    <2>1. CASE watched = Watchable /\ Kept(known, known, shared)
      <3>1. H = Stored(shared)
        BY <2>1 DEF H
      <3>2. /\ Replayable(H, known) /\ DOMAIN H = DOMAIN h \cup {shared.last}
            /\ \A v \in DOMAIN h \ {shared.last} : H[v] = h[v]
            /\ shared.last # NoWindow =>
                  H[shared.last] = StatesOf(order, shared.last, shared.checked)
        BY <1>2, <2>1, <3>1, StoredIsReplayable DEF h
      <3> QED
        BY <3>2 DEF Replayable
    <2>2. CASE /\ watched = Watchable \ {"dock"} /\ shared.last = NoWindow
               /\ h = FirstThree /\ known = {}
      <3>1. watched # Watchable
        BY <2>2 DEF Watchable
      <3>2. H = [v \in {NoWindow} |-> Defaults]
        BY <3>1 DEF H
      <3> QED
        BY <2>2, <3>2 DEF Replayable, FirstThree
    <2> QED
      BY <1>3, <2>1, <2>2
  <1>12. t.history = H /\ Kept(known \cup {w}, known \cup {w}, t)
    <2>1. t.history = H
      BY <1>10 DEF Shared
    <2> QED
      BY <1>10, <1>11, <2>1 DEF Kept
  <1> QED
    BY <1>1, <1>10, <1>11, <1>12 DEF known, h

-----------------------------------------------------------------------------
(* The window in front *)

(* The shared widgets are those of one of the windows that are open, and   *)
(* the others have been left as their users want them.                     *)
Fronted(s, opened, living, want) ==
    /\ Kept(living, living, s) /\ s.object = s.last /\ s.last \in opened
    /\ opened \subseteq living /\ opened \ {s.last} \subseteq DOMAIN s.history
    /\ InOrder(order) =>
          /\ \A w \in opened : s.capturing[w] = want[w]
          /\ s.checked = want[s.last]
          /\ \A w \in opened \ {s.last} : s.history[w] = StatesOf(order, w, want[w])

(* No window is open; those closed may still be shown.                     *)
Empty(s, living) == \/ living = {} /\ Bare(s)
                    \/ Kept(living, living, s) /\ s.object = s.last

LEMMA FrontIs ==
    ASSUME StatesInv
    PROVE  /\ Living \in SUBSET Windows /\ Opened \in SUBSET Windows
           /\ order \in Orders /\ Living = Opened \cup closed /\ active \notin closed
           /\ active # NoWindow => /\ Fronted(shared, Opened, Living, wanted)
                                   /\ shared.last = active /\ active \in Opened
           /\ active = NoWindow => Empty(shared, Living) /\ list = <<>> /\ Opened = {}
  <1>1. Opened \in SUBSET Windows /\ Living \in SUBSET Windows /\ Living = Opened \cup closed
    BY ElementOfSeq DEF StatesInv, WindowArea, Opened, Living
  <1>2. active \notin closed /\ order \in Orders
    BY OrderIs, WindowsAssumption DEF StatesInv, WindowArea
  <1>3. ASSUME active # NoWindow
        PROVE  /\ Fronted(shared, Opened, Living, wanted)
               /\ shared.last = active /\ active \in Opened
    <2>1. active \in Opened /\ shared.last = active /\ Living # {}
      BY <1>1, <1>3 DEF StatesInv, WindowArea, InFront
    <2>2. Kept(Living, Living, shared) /\ shared.object = shared.last
      BY <2>1 DEF StatesInv, InFront
    <2> QED
      BY <1>1, <1>3, <2>1, <2>2 DEF StatesInv, InFront, Capturing, Fronted
  <1>4. ASSUME active = NoWindow
        PROVE  Empty(shared, Living) /\ list = <<>> /\ Opened = {}
    BY <1>4 DEF StatesInv, WindowArea, InFront, Empty, Opened
  <1> QED
    BY <1>1, <1>2, <1>3, <1>4

(* The other way round, after a step.                                      *)
LEMMA FrontAgain ==
    ASSUME WindowArea', order' = order,
           active' # NoWindow => /\ Fronted(shared', Opened', Living', wanted')
                                 /\ shared'.last = active',
           active' = NoWindow => Empty(shared', Living')
    PROVE  StatesInv'
  <1>1. CASE active' # NoWindow
    <2>1. Fronted(shared', Opened', Living', wanted') /\ shared'.last = active'
      BY <1>1
    <2>2. InFront'
      BY <1>1, <2>1 DEF Fronted, InFront, Kept, Replayable
    <2>3. Capturing'
      <3>1. active' \in Opened'
        BY <1>1 DEF WindowArea
      <3> QED
        BY <1>1, <2>1, <3>1 DEF Fronted, Capturing
    <2> QED
      BY <2>2, <2>3 DEF StatesInv
  <1>2. CASE active' = NoWindow
    <2>1. Opened' = {} /\ Empty(shared', Living')
      BY <1>2 DEF WindowArea, Opened
    <2>2. InFront'
      BY <1>2, <2>1 DEF InFront, Empty, Kept, Replayable, Bare
    <2>3. Capturing'
      BY <1>2, <2>1 DEF Capturing
    <2> QED
      BY <2>2, <2>3 DEF StatesInv
  <1> QED
    BY <1>1, <1>2

(* Entering another of the windows.                                        *)
LEMMA FrontSwitches ==
    ASSUME NEW living \in SUBSET Windows, NEW opened, NEW want,
           NEW s, Fronted(s, opened, living, want), order \in Orders,
           NEW w \in opened, ~Shows(s, w)
    PROVE  /\ Fronted(SwitchState(s, w), opened, living, want)
           /\ Shows(SwitchState(s, w), w)
  <1> DEFINE t == SwitchState(s, w)
             g == Stored(s)
  <1>1. /\ Kept(living, living, s) /\ w # NoWindow /\ w \in living
        /\ s.last # w /\ w \in DOMAIN s.history /\ s.last # NoWindow
    BY WindowsAssumption DEF Fronted, Shows
  <1>2. Kept(living, living, t) /\ SwitchedTo(s, t, w)
    <2>1. CanReplay(s, w) /\ w \in living \cup {NoWindow} /\ living \subseteq living
      BY <1>1 DEF CanReplay
    <2> QED
      BY <1>1, <2>1, SwitchKeeps
  <1>3. /\ DOMAIN g = DOMAIN s.history \cup {s.last}
        /\ \A v \in DOMAIN s.history \ {s.last} : g[v] = s.history[v]
        /\ g[s.last] = StatesOf(order, s.last, s.checked)
    BY <1>1, StoredIsReplayable
  <1> HIDE DEF t, g
  <1>4. /\ t.object = w /\ t.last = w /\ t.history = g
        /\ InOrder(order) /\ s.history[w] = StatesOf(order, w, s.capturing[w])
           => t.capturing = s.capturing /\ t.checked = s.capturing[w]
    BY <1>1, <1>2 DEF SwitchedTo, g
  <1>5. opened \ {w} \subseteq DOMAIN g
    BY <1>3 DEF Fronted
  <1>6. ASSUME InOrder(order)
        PROVE  /\ \A v \in opened : t.capturing[v] = want[v]
               /\ t.checked = want[w]
               /\ \A v \in opened \ {w} : g[v] = StatesOf(order, v, want[v])
    <2>1. t.capturing = s.capturing /\ t.checked = s.capturing[w]
      BY <1>1, <1>4, <1>6 DEF Fronted
    <2>2. \A v \in opened : v # s.last => v \in DOMAIN s.history
      BY DEF Fronted
    <2> QED
      BY <1>1, <1>3, <1>6, <2>1, <2>2 DEF Fronted
  <1>7. Fronted(t, opened, living, want)
    BY <1>2, <1>4, <1>5, <1>6 DEF Fronted
  <1> QED
    BY <1>4, <1>7 DEF Shows, t

(* One of the windows is gone, which may be the one in front.              *)
LEMMA FrontDestroyed ==
    ASSUME NEW living \in SUBSET Windows, NEW opened, NEW want,
           Fronted(shared, opened, living, want), order \in Orders,
           NEW w \in living, NEW left, NEW front,
           NextFront(left, front) \in opened \ {w},
           w = shared.last \/ NextFront(left, front) = shared.last
    PROVE  /\ Fronted(SubWindowDestroyed(w, left, front), opened \ {w}, living \ {w}, want)
           /\ Shows(SubWindowDestroyed(w, left, front), NextFront(left, front))
  <1> DEFINE next == NextFront(left, front)
             t == SubWindowDestroyed(w, left, front)
             h == shared.history
  <1>1. /\ Kept(living, living, shared) /\ shared.object = shared.last
        /\ shared.last \in opened /\ opened \subseteq living
        /\ opened \ {shared.last} \subseteq DOMAIN h
        /\ w \in Windows /\ next # NoWindow /\ next \in living \ {w}
        /\ next = shared.last \/ next \in DOMAIN h
    BY WindowsAssumption DEF Fronted
  <1>2. /\ Kept(living \ {w}, living \ {w}, t) /\ t.object = next /\ t.last = next
        /\ DOMAIN h \ {w} \subseteq DOMAIN t.history
        /\ \A v \in DOMAIN h \ {w, shared.last} : t.history[v] = h[v]
        /\ next = shared.last => t.capturing = shared.capturing /\ t.checked = shared.checked
        /\ InOrder(order) /\ next # NoWindow /\ next # shared.last
              /\ h[next] = StatesOf(order, next, shared.capturing[next])
           => t.capturing = shared.capturing /\ t.checked = shared.capturing[next]
    <2>1. CanEnter(living, w, next)
      BY <1>1 DEF CanEnter
    <2>2. Kept(living \ {w}, living \ {w}, t) /\ DestroyedTo(t, w, next)
      BY <1>1, <2>1, DestroyedKeeps
    <2> HIDE DEF next, t
    <2> QED
      BY <2>2 DEF DestroyedTo
  <1> HIDE DEF next, t, h
  <1>3. (opened \ {w}) \ {next} \subseteq DOMAIN t.history
    BY <1>1, <1>2 DEF next
  <1>4. ASSUME InOrder(order)
        PROVE  /\ \A v \in opened \ {w} : t.capturing[v] = want[v]
               /\ t.checked = want[next]
               /\ \A v \in (opened \ {w}) \ {next} : t.history[v] = StatesOf(order, v, want[v])
    <2>1. /\ \A v \in opened : shared.capturing[v] = want[v]
          /\ shared.checked = want[shared.last]
          /\ \A v \in opened \ {shared.last} : h[v] = StatesOf(order, v, want[v])
      BY <1>4 DEF Fronted, h
    <2>2. t.capturing = shared.capturing /\ t.checked = want[next]
      <3>1. CASE next = shared.last
        BY <1>2, <2>1, <3>1
      <3>2. CASE next # shared.last
        <4>1. next \in opened
          BY DEF next
        <4>2. h[next] = StatesOf(order, next, shared.capturing[next])
              /\ shared.capturing[next] = want[next]
          BY <2>1, <3>2, <4>1
        <4> QED
          BY <1>1, <1>2, <1>4, <3>2, <4>2
      <3> QED
        BY <3>1, <3>2
    <2>3. \A v \in (opened \ {w}) \ {next} : v \in DOMAIN h \ {w, shared.last} /\ v \in opened \ {shared.last}
      BY <1>1 DEF next
    <2> QED
      BY <1>2, <2>1, <2>2, <2>3
  <1>5. next \in opened \ {w} /\ opened \ {w} \subseteq living \ {w}
    BY <1>1 DEF next
  <1>6. Fronted(t, opened \ {w}, living \ {w}, want)
    BY <1>2, <1>3, <1>4, <1>5 DEF Fronted
  <1> QED
    BY <1>2, <1>6 DEF t, next, Shows

(* A window is gone, and no other is open.                                 *)
LEMMA EmptyDestroyed ==
    ASSUME NEW living \in SUBSET Windows, Kept(living, living, shared),
           shared.object = shared.last, order \in Orders,
           NEW w \in living, NEW left, NEW front, NextFront(left, front) = NoWindow
    PROVE  Empty(SubWindowDestroyed(w, left, front), living \ {w})
  <1> DEFINE next == NextFront(left, front)
             t == SubWindowDestroyed(w, left, front)
  <1>1. CanEnter(living, w, next)
    BY DEF CanEnter, Kept, Replayable
  <1>2. Kept(living \ {w}, living \ {w}, t) /\ DestroyedTo(t, w, next)
    BY <1>1, DestroyedKeeps
  <1> QED
    BY <1>2 DEF Empty, DestroyedTo

-----------------------------------------------------------------------------
(* The events of the window area *)

LEMMA CreateStep ==
    ASSUME StatesInv, order' = order, NEW w \in Windows, CreateWindowsFromParser(w)
    PROVE  StatesInv'
  <1>1. /\ w \notin Living /\ list' = Append(list, w) /\ active' = w /\ closed' = closed
        /\ wanted' = [wanted EXCEPT ![w] = TRUE]
    BY DEF CreateWindowsFromParser
  <1>2. list' \in Seq(Windows) /\ IsInjective(list') /\ Opened' = Opened \cup {w}
    <2>1. w \notin Of(list) /\ list \in Seq(Windows) /\ IsInjective(list)
      BY <1>1 DEF StatesInv, WindowArea, Living, Opened, Of
    <2>2. list' \in Seq(Windows) /\ IsInjective(list') /\ Of(list') = Of(list) \cup {w}
      BY <1>1, <2>1, AppendIs
    <2>3. Of(list') = Opened' /\ Of(list) = Opened
      BY DEF Of, Opened
    <2> QED
      BY <2>2, <2>3
  <1>3. Opened' = Opened \cup {w} /\ Living' = Living \cup {w}
    BY <1>1, <1>2 DEF Living
  <1>10. WindowArea'
    <2>1. closed' \subseteq Windows \ Opened'
      BY <1>1, <1>2 DEF StatesInv, WindowArea, Living
    <2>2. wanted' \in [Windows -> BOOLEAN] /\ order' \in AddressOrders
      BY <1>1 DEF StatesInv, WindowArea
    <2>3. active' \in Opened' \cup {NoWindow} /\ active' # NoWindow
      BY <1>1, <1>2, WindowsAssumption
    <2> QED
      BY <1>2, <2>1, <2>2, <2>3 DEF WindowArea
  <1>4. /\ Kept(Living \cup {w}, Living \cup {w}, shared')
        /\ shared'.object = w /\ shared'.last = w
        /\ DOMAIN shared'.history = DOMAIN shared.history \cup {shared.last}
        /\ \A v \in DOMAIN shared.history \ {NoWindow, shared.last} :
              shared'.history[v] = shared.history[v]
        /\ shared.last # NoWindow => shared'.history[shared.last]
                                         = StatesOf(order, shared.last, shared.checked)
        /\ shared'.checked = TRUE
        /\ shared'.capturing = [shared.capturing EXCEPT ![w] = TRUE]
    BY CreateIs DEF StatesInv
  <1>5. /\ Living \in SUBSET Windows /\ Opened \in SUBSET Windows
        /\ Living = Opened \cup closed
        /\ active # NoWindow => /\ Fronted(shared, Opened, Living, wanted)
                                /\ shared.last = active /\ active \in Opened
        /\ active = NoWindow => Opened = {}
    BY FrontIs
  <1>6. \A v \in Opened : v # w /\ v # NoWindow /\ active # NoWindow
    BY <1>1, <1>5, WindowsAssumption
  <1>7. Opened \subseteq DOMAIN shared'.history
    BY <1>4, <1>5, <1>6 DEF Fronted
  <1>8. ASSUME InOrder(order)
        PROVE  /\ \A v \in Opened \cup {w} : shared'.capturing[v] = wanted'[v]
               /\ shared'.checked = wanted'[w]
               /\ \A v \in Opened : shared'.history[v] = StatesOf(order, v, wanted'[v])
    <2>1. /\ wanted'[w] = TRUE /\ shared'.capturing[w] = TRUE
          /\ \A v \in Opened : wanted'[v] = wanted[v]
                               /\ shared'.capturing[v] = shared.capturing[v]
      <3>1. wanted \in [Windows -> BOOLEAN] /\ DOMAIN shared'.capturing = Windows
        <4>1. DOMAIN shared'.capturing = Windows
          BY <1>4 DEF Kept, Shared
        <4> QED
          BY <4>1 DEF StatesInv, WindowArea
      <3>2. DOMAIN shared.capturing = Windows
        BY <1>4, <3>1
      <3>3. \A v \in Opened : v \in Windows /\ v # w
        BY <1>5, <1>6
      <3>4. wanted'[w] = TRUE /\ \A v \in Opened : wanted'[v] = wanted[v]
        BY <1>1, <3>1, <3>3
      <3>5. /\ shared'.capturing[w] = TRUE
            /\ \A v \in Opened : shared'.capturing[v] = shared.capturing[v]
        BY <1>4, <3>2, <3>3
      <3> QED
        BY <3>4, <3>5
    <2>2. ASSUME NEW v \in Opened
          PROVE  /\ shared.capturing[v] = wanted[v]
                 /\ shared'.history[v] = StatesOf(order, v, wanted[v])
      <3>1. /\ shared.capturing[v] = wanted[v] /\ shared.checked = wanted[shared.last]
            /\ v # shared.last => /\ v \in DOMAIN shared.history
                                  /\ shared.history[v] = StatesOf(order, v, wanted[v])
        BY <1>5, <1>6, <1>8 DEF Fronted
      <3>2. CASE v = shared.last
        BY <1>4, <1>6, <3>1, <3>2
      <3>3. CASE v # shared.last
        BY <1>4, <1>6, <3>1, <3>3
      <3> QED
        BY <3>1, <3>2, <3>3
    <2> QED
      BY <1>4, <2>1, <2>2
  <1>9. Fronted(shared', Opened', Living', wanted')
    BY <1>3, <1>4, <1>5, <1>7, <1>8 DEF Fronted
  <1> QED
    BY <1>1, <1>4, <1>9, <1>10, WindowsAssumption, FrontAgain

LEMMA ActivateStep ==
    ASSUME StatesInv, order' = order, NEW w \in Windows, SubWindowActivated(w)
    PROVE  StatesInv'
  <1>1. /\ w \in Opened /\ w # active /\ active' = w /\ shared' = SwitchState(shared, w)
        /\ list' = list /\ closed' = closed /\ wanted' = wanted
    BY DEF SubWindowActivated
  <1>2. Opened' = Opened /\ Living' = Living
    BY <1>1 DEF Opened, Living
  <1>3. /\ Fronted(shared, Opened, Living, wanted) /\ ~Shows(shared, w)
        /\ Living \in SUBSET Windows /\ order \in Orders
    BY <1>1, FrontIs DEF Shows
  <1>4. Fronted(shared', Opened, Living, wanted) /\ Shows(shared', w)
    BY <1>1, <1>3, FrontSwitches
  <1>5. WindowArea'
    BY <1>1, <1>2, WindowsAssumption DEF StatesInv, WindowArea
  <1> QED
    BY <1>1, <1>2, <1>4, <1>5, WindowsAssumption, FrontAgain DEF Shows

(* What is left of the list when one of its windows goes.                  *)
LEMMA ListWithout ==
    ASSUME StatesInv, NEW w \in Opened, list' = RemoveFirst(list, w)
    PROVE  /\ list' \in Seq(Windows) /\ IsInjective(list') /\ Opened' = Opened \ {w}
           /\ list' = <<>> <=> Opened' = {}
           /\ list' # <<>> => Head(list') \in Opened'
  <1>1. list' \in Seq(Windows) /\ IsInjective(list') /\ Opened' = Opened \ {w}
    <2>1. Of(list') = Opened' /\ Of(list) = Opened
      BY DEF Of, Opened
    <2>2. list \in Seq(Windows) /\ IsInjective(list)
      BY DEF StatesInv, WindowArea
    <2> QED
      BY <2>1, <2>2, RemoveFirstIs
  <1>2. CASE list' = <<>>
    BY <1>1, <1>2 DEF Opened
  <1>3. CASE list' # <<>>
    <2>1. 1 \in DOMAIN list' /\ Head(list') = list'[1]
      BY <1>1, <1>3
    <2> QED
      BY <1>1, <1>3, <2>1 DEF Opened
  <1> QED
    BY <1>1, <1>2, <1>3

LEMMA CloseStep ==
    ASSUME StatesInv, order' = order, CloseWindow
    PROVE  StatesInv'
  <1>1. /\ active # NoWindow /\ list' = RemoveFirst(list, active)
        /\ closed' = closed \cup {active} /\ wanted' = wanted
    BY DEF CloseWindow
  <1>2. /\ Fronted(shared, Opened, Living, wanted) /\ shared.last = active /\ active \in Opened
        /\ Living \in SUBSET Windows /\ order \in Orders /\ Living = Opened \cup closed
        /\ Opened \in SUBSET Windows
    BY <1>1, FrontIs
  <1>3. /\ list' \in Seq(Windows) /\ IsInjective(list') /\ Opened' = Opened \ {active}
        /\ list' = <<>> <=> Opened' = {}
    BY <1>1, <1>2, ListWithout
  <1>4. Living' = Living
    BY <1>1, <1>2, <1>3 DEF Living
  <1>5. closed' \subseteq Windows \ Opened'
    BY <1>1, <1>2, <1>3 DEF StatesInv, WindowArea
  <1>6. CASE list' = <<>> /\ active' = NoWindow /\ UNCHANGED shared
    <2>1. WindowArea'
      BY <1>1, <1>3, <1>5, <1>6 DEF StatesInv, WindowArea
    <2>2. Empty(shared', Living')
      BY <1>2, <1>4, <1>6 DEF Empty, Fronted
    <2> QED
      BY <1>6, <2>1, <2>2, FrontAgain
  <1>7. CASE active' \in Opened \ {active} /\ shared' = SwitchState(shared, active')
    <2>1. ~Shows(shared, active') /\ active' \in Opened /\ active' # NoWindow
      BY <1>2, <1>7, WindowsAssumption DEF Shows
    <2>2. Fronted(shared', Opened, Living, wanted) /\ Shows(shared', active')
      BY <1>2, <1>7, <2>1, FrontSwitches
    <2>3. Fronted(shared', Opened', Living', wanted')
      BY <1>1, <1>3, <1>4, <1>7, <2>2 DEF Fronted, Shows
    <2>4. WindowArea'
      BY <1>1, <1>3, <1>5, <1>7, <2>1 DEF StatesInv, WindowArea
    <2> QED
      BY <2>1, <2>2, <2>3, <2>4, FrontAgain DEF Shows
  <1> QED
    BY <1>6, <1>7 DEF CloseWindow

LEMMA DeleteStep ==
    ASSUME StatesInv, order' = order, NEW w \in Windows, DeleteClosed(w)
    PROVE  StatesInv'
  <1>1. /\ w \in closed /\ closed' = closed \ {w} /\ list' = list /\ active' = active
        /\ wanted' = wanted /\ shared' = SubWindowDestroyed(w, list, active)
    BY DEF DeleteClosed
  <1>2. /\ Living \in SUBSET Windows /\ order \in Orders /\ Living = Opened \cup closed
        /\ active # NoWindow => /\ Fronted(shared, Opened, Living, wanted)
                                /\ shared.last = active /\ active \in Opened
        /\ active = NoWindow => Empty(shared, Living) /\ list = <<>> /\ Opened = {}
    BY FrontIs
  <1>3. w \in Living /\ w \notin Opened /\ Opened' = Opened /\ Living' = Living \ {w}
    BY <1>1, <1>2 DEF StatesInv, WindowArea, Opened, Living
  <1>4. WindowArea'
    BY <1>1, <1>3 DEF StatesInv, WindowArea
  <1>5. NextFront(list, active) = active
    BY <1>2 DEF NextFront
  <1>6. CASE active # NoWindow
    <2>1. /\ Fronted(shared, Opened, Living, wanted)
          /\ NextFront(list, active) \in Opened \ {w} /\ NextFront(list, active) = shared.last
          /\ Opened \ {w} = Opened
      BY <1>2, <1>3, <1>5, <1>6
    <2>2. /\ Fronted(shared', Opened \ {w}, Living \ {w}, wanted)
          /\ Shows(shared', NextFront(list, active))
      BY <1>1, <1>2, <1>3, <2>1, FrontDestroyed
    <2> QED
      BY <1>1, <1>3, <1>4, <1>5, <1>6, <2>1, <2>2, FrontAgain DEF Shows
  <1>7. CASE active = NoWindow
    <2>1. Kept(Living, Living, shared) /\ shared.object = shared.last
      BY <1>2, <1>3, <1>7 DEF Empty
    <2>2. Empty(shared', Living \ {w})
      BY <1>1, <1>2, <1>3, <1>5, <1>7, <2>1, EmptyDestroyed
    <2> QED
      BY <1>1, <1>3, <1>4, <1>7, <2>2, FrontAgain
  <1> QED
    BY <1>6, <1>7

LEMMA ErrorStep ==
    ASSUME StatesInv, order' = order, NEW w \in Windows, ErrorFromModel(w)
    PROVE  StatesInv'
  <1>1. /\ w \in Opened /\ list' = RemoveFirst(list, w)
        /\ closed' = closed /\ wanted' = wanted
    BY DEF ErrorFromModel
  <1>2. /\ Living \in SUBSET Windows /\ order \in Orders /\ Living = Opened \cup closed
        /\ Opened \in SUBSET Windows /\ active # NoWindow
        /\ Fronted(shared, Opened, Living, wanted)
        /\ shared.last = active /\ active \in Opened
    BY <1>1, FrontIs
  <1>3. /\ list' \in Seq(Windows) /\ IsInjective(list') /\ Opened' = Opened \ {w}
        /\ list' = <<>> <=> Opened' = {}
        /\ list' # <<>> => Head(list') \in Opened'
    BY <1>1, ListWithout
  <1>4. w \in Living /\ Living' = Living \ {w}
    BY <1>1, <1>2, <1>3 DEF StatesInv, WindowArea, Living
  <1>5. /\ closed' \subseteq Windows \ Opened' /\ wanted' \in [Windows -> BOOLEAN]
        /\ order' \in AddressOrders
    BY <1>1, <1>3 DEF StatesInv, WindowArea
  (* Another window is in front, and stays there. *)
  <1>6. CASE w # active /\ shared' = SubWindowDestroyed(w, list', active) /\ active' = active
    <2>1. NextFront(list', active) = active /\ active \in Opened \ {w}
      BY <1>2, <1>6 DEF NextFront
    <2>2. /\ Fronted(shared', Opened \ {w}, Living \ {w}, wanted)
          /\ Shows(shared', NextFront(list', active))
      BY <1>2, <1>4, <1>6, <2>1, FrontDestroyed
    <2>3. WindowArea'
      BY <1>2, <1>3, <1>5, <1>6, <2>1 DEF WindowArea
    <2> QED
      BY <1>1, <1>2, <1>3, <1>4, <1>6, <2>1, <2>2, <2>3, FrontAgain DEF Shows
  (* It was the last one. *)
  <1>7. CASE /\ w = active /\ list' = <<>> /\ active' = NoWindow
             /\ shared' = SubWindowDestroyed(w, list', NoWindow)
    <2>1. NextFront(list', NoWindow) = NoWindow
      BY <1>7 DEF NextFront
    <2>2. Kept(Living, Living, shared) /\ shared.object = shared.last
      BY <1>2 DEF Fronted
    <2>3. Empty(shared', Living \ {w})
      BY <1>2, <1>4, <1>7, <2>1, <2>2, EmptyDestroyed
    <2>4. WindowArea'
      BY <1>3, <1>5, <1>7 DEF WindowArea
    <2> QED
      BY <1>4, <1>7, <2>3, <2>4, FrontAgain
  (* The first of the list is shown, then the one the area activates. *)
  <1>8. CASE /\ w = active /\ active' \in Opened \ {w}
             /\ shared' = SwitchState(SubWindowDestroyed(w, list', NoWindow), active')
    <2> DEFINE u == SubWindowDestroyed(w, list', NoWindow)
    <2>1. NextFront(list', NoWindow) \in Opened \ {w} /\ w = shared.last
      BY <1>2, <1>3, <1>8 DEF NextFront
    <2>2. Fronted(u, Opened \ {w}, Living \ {w}, wanted)
      BY <1>2, <1>4, <2>1, FrontDestroyed
    <2> HIDE DEF u
    <2>3. Fronted(shared', Opened \ {w}, Living \ {w}, wanted) /\ Shows(shared', active')
      <3>1. CASE Shows(u, active')
        <4>1. shared' = u
          BY <1>8, <3>1 DEF SwitchState, Shows, u
        <4> QED
          BY <2>2, <3>1, <4>1
      <3>2. CASE ~Shows(u, active')
        <4>1. Living \ {w} \in SUBSET Windows /\ shared' = SwitchState(u, active')
              /\ active' \in Opened \ {w}
          BY <1>2, <1>8 DEF u
        <4> QED
          BY <1>2, <2>2, <3>2, <4>1, FrontSwitches
      <3> QED
        BY <3>1, <3>2
    <2>4. WindowArea' /\ active' # NoWindow
      BY <1>2, <1>3, <1>5, <1>8, WindowsAssumption DEF WindowArea
    <2> QED
      BY <1>1, <1>3, <1>4, <2>3, <2>4, FrontAgain DEF Shows
  <1> QED
    BY <1>6, <1>7, <1>8 DEF ErrorFromModel

LEMMA ToggleStep ==
    ASSUME StatesInv, order' = order, ToggleCapture
    PROVE  StatesInv'
  <1> DEFINE on == ~shared.checked
             h == shared.history
             watched == shared.watched
             t == SetChecked(shared, on)
  <1>1. /\ list' = list /\ active' = active /\ closed' = closed /\ shared' = t
        /\ wanted' = [v \in Windows |-> IF v = active THEN on ELSE wanted[v]]
    BY DEF ToggleCapture
  <1>2. /\ Living \in SUBSET Windows /\ Opened \in SUBSET Windows
        /\ active # NoWindow => /\ Fronted(shared, Opened, Living, wanted)
                                /\ shared.last = active /\ active \in Opened
        /\ active = NoWindow => Empty(shared, Living)
    BY FrontIs
  <1>3. Opened' = Opened /\ Living' = Living
    BY <1>1 DEF Opened, Living
  <1>4. shared \in Shared(Living, watched, h) /\ Tied(shared) /\ on \in BOOLEAN
    <2>1. CASE active = NoWindow
      BY <1>2, <2>1 DEF Empty, Bare, Kept, Shared
    <2>2. CASE active # NoWindow
      BY <1>2, <2>2 DEF Fronted, Kept, Shared
    <2> QED
      BY <2>1, <2>2
  <1> HIDE DEF on, h, watched, t
  <1>5. WindowArea'
    <2>1. wanted' \in [Windows -> BOOLEAN]
      BY <1>1, <1>4 DEF StatesInv, WindowArea
    <2> QED
      BY <1>1, <1>3, <2>1 DEF StatesInv, WindowArea
  <1>6. /\ t \in Shared(Living, watched, h) /\ Tied(t) /\ t.checked = on
        /\ t.capturing = IF shared.checked = on THEN shared.capturing ELSE Heard(shared, on)
        /\ t.object = shared.object /\ t.rules = shared.rules
        /\ t.dock = shared.dock /\ t.last = shared.last
    BY <1>2, <1>4, SetCheckedIs DEF t
  <1>7. t.history = h /\ t.watched = watched
    BY <1>6 DEF Shared
  <1>8. CASE active = NoWindow
    <2>1. Empty(t, Living)
      <3>1. CASE Living = {} /\ Bare(shared)
        BY <1>6, <1>7, <3>1 DEF Empty, Bare, Shared, h, watched
      <3>2. CASE Kept(Living, Living, shared) /\ shared.object = shared.last
        BY <1>6, <1>7, <3>2 DEF Empty, Kept, Shared, h, watched
      <3> QED
        BY <1>2, <1>8, <3>1, <3>2 DEF Empty
    <2> QED
      BY <1>1, <1>3, <1>5, <1>8, <2>1, FrontAgain
  <1>9. CASE active # NoWindow
    <2>1. Kept(Living, Living, t)
      BY <1>2, <1>6, <1>7, <1>9 DEF Fronted, Kept, Shared, h, watched
    <2>2. shared.checked # on
      BY <1>4 DEF on, Shared
    <2>3. t.capturing = [v \in Windows |-> IF v = active THEN on ELSE shared.capturing[v]]
      BY <1>2, <1>6, <1>9, <2>2 DEF Heard, Fronted
    <2>4. Fronted(t, Opened, Living, wanted')
      BY <1>1, <1>2, <1>6, <1>7, <1>9, <2>1, <2>3 DEF Fronted, h
    <2> QED
      BY <1>1, <1>2, <1>3, <1>5, <1>6, <1>9, <2>4, FrontAgain
  <1> QED
    BY <1>8, <1>9

-----------------------------------------------------------------------------
(* The beginning *)

First(i) == [w \in {NoWindow} |-> [j \in 1..i |-> Defaults[j]]]

(* The first i of the watched objects are watched.                         *)
Beginnings(i) ==
    {s \in Shared({}, {WatchOrder[j] : j \in 1..i}, First(i)) :
        /\ Tied(s) /\ s.checked = FALSE
        /\ s.rules = NoWindow /\ s.dock = NoWindow /\ s.last = NoWindow}

LEMMA BeginningGrows ==
    ASSUME NEW i \in 1..3, NEW s \in Beginnings(i - 1)
    PROVE  AddElementToWatch(s, WatchOrder[i]) \in Beginnings(i)
  <1> DEFINE first(k) == [j \in 1..k |-> Defaults[j]]
             names(k) == {WatchOrder[j] : j \in 1..k}
             t == AddElementToWatch(s, WatchOrder[i])
  <1>1. /\ s \in Shared({}, names(i - 1), First(i - 1)) /\ Tied(s) /\ s.checked = FALSE
        /\ s.rules = NoWindow /\ s.dock = NoWindow /\ s.last = NoWindow
    BY DEF Beginnings
  <1>2. s.watched = names(i - 1) /\ s.history = First(i - 1)
    BY <1>1 DEF Shared
  <1>3. Dump(s, WatchOrder[i]) = Defaults[i]
    <2>1. /\ WatchOrder[1] = "multiplexer" /\ WatchOrder[2] = "rules"
          /\ WatchOrder[3] = "capture"
      BY DEF WatchOrder
    <2>2. i = 1 \/ i = 2 \/ i = 3
      OBVIOUS
    <2>3. WatchOrder[i] \in {"multiplexer", "rules", "capture"}
      BY <2>1, <2>2
    <2>4. Defaults[i] = [of |-> WatchOrder[i], value |-> Shown(WatchOrder[i], NoWindow, FALSE)]
      <3>1. i \in 1..4
        OBVIOUS
      <3> QED
        BY <3>1 DEF Defaults, StatesOf
    <2> QED
      BY <1>1, <2>3, <2>4 DEF Dump, Shown
  <1>4. Append(first(i - 1), Defaults[i]) = first(i)
    OBVIOUS
  <1>5. names(i - 1) \cup {WatchOrder[i]} = names(i)
    <2>1. \A j \in 1..i : j = i \/ j \in 1 .. i - 1
      OBVIOUS
    <2>2. \A j \in 1 .. i - 1 : j \in 1..i
      OBVIOUS
    <2>3. i \in 1..i
      OBVIOUS
    <2> QED
      BY <2>1, <2>2, <2>3
  <1> HIDE DEF first, names
  <1>6. Put(First(i - 1), NoWindow, first(i)) = First(i) /\ First(i - 1)[NoWindow] = first(i - 1)
    BY DEF Put, First, first
  <1>7. t = [s EXCEPT !.watched = names(i), !.history = First(i)]
    BY <1>2, <1>3, <1>4, <1>5, <1>6 DEF AddElementToWatch
  <1> HIDE DEF t
  <1>8. t \in Shared({}, names(i), First(i)) /\ Tied(t)
    BY <1>1, <1>7 DEF Shared, Tied
  <1>9. /\ t.checked = FALSE /\ t.rules = NoWindow /\ t.dock = NoWindow /\ t.last = NoWindow
    BY <1>1, <1>7 DEF Shared
  <1> QED
    BY <1>8, <1>9 DEF Beginnings, names, t

LEMMA InitStates == Init => StatesInv
  <1> SUFFICES ASSUME Init PROVE StatesInv
    OBVIOUS
  <1> DEFINE names == <<"multiplexer", "rules", "capture">>
             bare == [object |-> NoWindow, states |-> {},
                      connected |-> [w \in AnyWindow |-> 0],
                      capturing |-> [w \in Windows |-> TRUE],
                      checked |-> FALSE, rules |-> NoWindow, dock |-> NoWindow,
                      watched |-> {}, last |-> NoWindow,
                      history |-> [w \in {NoWindow} |-> <<>>]]
  <1>1. shared = FoldLeft(AddElementToWatch, bare, names)
    BY DEF Init
  <1>2. bare \in Beginnings(0)
    <2>1. {WatchOrder[j] : j \in 1..0} = {} /\ [j \in 1..0 |-> Defaults[j]] = <<>>
      OBVIOUS
    <2>2. bare.history = First(0)
      BY <2>1 DEF First
    <2>3. [w \in AnyWindow |-> 0] = Only(NoWindow) /\ [w \in AnyWindow |-> 0] \in [AnyWindow -> Nat]
      BY DEF Only
    <2>4. NoWindow \in AnyWindow
      BY DEF AnyWindow
    <2>5. bare \in Shared({}, {}, First(0)) /\ Tied(bare)
      BY <2>2, <2>3, <2>4 DEF Shared, Tied
    <2> QED
      BY <2>1, <2>5 DEF Beginnings
  <1> HIDE DEF bare
  <1>3. FoldLeft(AddElementToWatch, bare, names) = Watching!Fold(bare, names)
    BY DEF FoldLeft, MapThenFoldSet, Max, Watching!Fold, Watching!Folds, Watching!Largest
  <1>4. DOMAIN names = 1..3 /\ \A i \in 1..3 : names[i] = WatchOrder[i]
    BY DEF WatchOrder
  <1> HIDE DEF names
  <1>5. Watching!Fold(bare, names) \in Beginnings(3)
    <2> DEFINE S == [i \in 0..3 |-> Beginnings(i)]
    <2>1. bare \in S[0]
      BY <1>2
    <2>2. ASSUME NEW i \in 1..3, NEW s \in S[i - 1]
          PROVE  AddElementToWatch(s, names[i]) \in S[i]
      <3>1. i - 1 \in 0..3 /\ i \in 0..3
        OBVIOUS
      <3>2. s \in Beginnings(i - 1)
        BY <3>1
      <3> QED
        BY <1>4, <3>1, <3>2, BeginningGrows
    <2>3. Watching!Fold(bare, names) \in S[3]
      <3>1. 3 \in Nat
        OBVIOUS
      <3> HIDE DEF S
      <3> QED
        BY <1>4, <2>1, <2>2, <3>1, Watching!FoldReaches
    <2> QED
      BY <2>3
  <1>6. shared \in Beginnings(3)
    BY <1>1, <1>3, <1>5
  <1>7. Bare(shared)
    <2>1. {WatchOrder[j] : j \in 1..3} = Watchable \ {"dock"}
      <3>1. /\ WatchOrder[1] = "multiplexer" /\ WatchOrder[2] = "rules"
            /\ WatchOrder[3] = "capture" /\ 1 \in 1..3 /\ 2 \in 1..3 /\ 3 \in 1..3
        BY DEF WatchOrder
      <3>2. \A j \in 1..3 : j = 1 \/ j = 2 \/ j = 3
        OBVIOUS
      <3>3. {WatchOrder[j] : j \in 1..3} = {"multiplexer", "rules", "capture"}
        BY <3>1, <3>2
      <3> QED
        BY <3>3 DEF Watchable
    <2>2. First(3) = FirstThree
      BY DEF First, FirstThree
    <2>3. shared \in Shared({}, Watchable \ {"dock"}, FirstThree)
      BY <1>6, <2>1, <2>2 DEF Beginnings
    <2>4. shared.history = FirstThree
      BY <2>3 DEF Shared
    <2> QED
      BY <1>6, <2>3, <2>4 DEF Bare, Beginnings
  <1>8. /\ list = <<>> /\ active = NoWindow /\ closed = {}
        /\ wanted \in [Windows -> BOOLEAN] /\ order \in AddressOrders
        /\ Opened = {} /\ Living = {}
    BY DEF Init, Opened, Living
  <1>9. WindowArea
    BY <1>8 DEF WindowArea, IsInjective
  <1>10. InFront /\ Capturing
    BY <1>7, <1>8 DEF InFront, Capturing
  <1> QED
    BY <1>9, <1>10 DEF StatesInv

LEMMA StatesStep ==
    ASSUME StatesInv, [Next /\ UNCHANGED order]_vars
    PROVE  StatesInv'
  <1>1. ASSUME order' = order, NEW w \in Windows,
               \/ CreateWindowsFromParser(w)
               \/ SubWindowActivated(w)
               \/ DeleteClosed(w)
               \/ ErrorFromModel(w)
        PROVE  StatesInv'
    BY <1>1, CreateStep, ActivateStep, DeleteStep, ErrorStep
  <1>2. CASE order' = order /\ CloseWindow
    BY <1>2, CloseStep
  <1>3. CASE order' = order /\ ToggleCapture
    BY <1>3, ToggleStep
  <1>4. CASE UNCHANGED vars
    BY <1>4 DEF vars, StatesInv, WindowArea, InFront, Capturing, Opened, Living,
                Kept, Replayable, Bare
  <1> QED
    BY <1>1, <1>2, <1>3, <1>4 DEF Next

LEMMA StatesInvariant == Spec => []StatesInv
  BY InitStates, StatesStep, PTL DEF Spec

(* What is stored and shown has the types the code gives it.               *)
THEOREM StatesTypeCorrect == Spec => []TypeOK
  <1>1. ASSUME StatesInv PROVE TypeOK
    <2>1. \E states \in SUBSET Windows : \E watched, history :
              shared \in Shared(states, watched, history)
      <3>1. Living \in SUBSET Windows /\ {} \in SUBSET Windows
        BY <1>1, FrontIs
      <3> QED
        BY <1>1, <3>1 DEF StatesInv, InFront, Bare, Kept
    <2>2. /\ shared.connected \in [AnyWindow -> Nat]
          /\ shared.capturing \in [Windows -> BOOLEAN] /\ shared.checked \in BOOLEAN
          /\ {shared.object, shared.last, shared.rules, shared.dock} \subseteq AnyWindow
      BY <2>1 DEF Shared, AnyWindow
    <2>3. DOMAIN shared.history \subseteq AnyWindow
      <3>1. Living \in SUBSET Windows
        BY <1>1, FrontIs
      <3> QED
        BY <1>1, <3>1 DEF StatesInv, InFront, Bare, FirstThree, Kept, Replayable, AnyWindow
    <2>4. active \in AnyWindow /\ active \notin closed
      <3>1. active \notin closed /\ Opened \in SUBSET Windows
        BY <1>1, FrontIs
      <3> QED
        BY <1>1, <3>1 DEF StatesInv, WindowArea, AnyWindow
    <2> QED
      BY <1>1, <2>2, <2>3, <2>4 DEF StatesInv, WindowArea, TypeOK
  <1> QED
    BY <1>1, StatesInvariant, PTL

(* A window captures exactly if the user last wanted it to, and the check  *)
(* mark tells so, whatever was opened, entered, closed or lost in between, *)
(* if the multiplexer lies below the capture switch in memory: the order   *)
(* of WidgetStateSaver's map is that of the addresses.                     *)
THEOREM CaptureFollows == Spec => []CaptureFollowsInOrder
  <1>1. ASSUME StatesInv PROVE CaptureFollowsInOrder
    BY <1>1 DEF StatesInv, Capturing, InOrder, CaptureFollowsInOrder
  <1> QED
    BY <1>1, StatesInvariant, PTL

(* The menu, the rule widget and the dock belong to the active window, and *)
(* no other window answers the menu; without any window they show what     *)
(* they showed at the beginning.                                           *)
THEOREM SharedBelong == Spec => []SharedBelongToActive
  <1>1. ASSUME StatesInv PROVE SharedBelongToActive
    <2>1. ASSUME active # NoWindow
          PROVE  /\ shared.object = active /\ shared.last = active
                 /\ shared.rules = active /\ shared.dock = active
                 /\ \A w \in AnyWindow : shared.connected[w] = IF w = active THEN 1 ELSE 0
      <3>1. Fronted(shared, Opened, Living, wanted) /\ shared.last = active
        BY <1>1, <2>1, FrontIs
      <3>2. shared.object = active /\ shared.rules = active /\ shared.dock = active
            /\ Tied(shared)
        BY <3>1 DEF Fronted, Kept
      <3> QED
        BY <2>1, <3>1, <3>2 DEF Tied, Only
    <2>2. ASSUME Living = {}
          PROVE  /\ {shared.object, shared.last, shared.rules, shared.dock} = {NoWindow}
                 /\ \A w \in AnyWindow : shared.connected[w] = 0
      <3>1. /\ shared.object = NoWindow /\ shared.last = NoWindow /\ shared.rules = NoWindow
            /\ shared.dock = NoWindow /\ Tied(shared)
        BY <1>1, <2>2 DEF StatesInv, InFront, Bare, Kept, Shared
      <3> QED
        BY <3>1 DEF Tied, Only
    <2> QED
      BY <2>1, <2>2 DEF SharedBelongToActive
  <1> QED
    BY <1>1, StatesInvariant, PTL

(* Nothing of a window that was deleted is kept: a new window may live at  *)
(* its address, and would inherit connections and states.                  *)
THEOREM NothingIsLeft == Spec => []NothingOfTheDeleted
  <1>1. ASSUME StatesInv PROVE NothingOfTheDeleted
    <2>1. CASE Living = {} /\ Bare(shared)
      <3>1. \A i \in 1..3 : Defaults[i].value \in BOOLEAN \cup {NoWindow}
        BY DEF Defaults, StatesOf, Shown, WatchOrder
      <3>2. /\ shared.object = NoWindow /\ shared.rules = NoWindow /\ shared.dock = NoWindow
            /\ shared.last = NoWindow /\ shared.states = {} /\ shared.history = FirstThree
        BY <2>1 DEF Bare, Shared
      <3>3. DOMAIN FirstThree = {NoWindow} /\ FirstThree[NoWindow] = [i \in 1..3 |-> Defaults[i]]
        BY DEF FirstThree
      <3> QED
        BY <3>1, <3>2, <3>3 DEF NothingOfTheDeleted
    <2>2. CASE Kept(Living, Living, shared) /\ shared.object = shared.last
      <3>1. ASSUME NEW w \in DOMAIN shared.history, NEW i \in DOMAIN shared.history[w]
            PROVE  shared.history[w][i].value \in BOOLEAN \cup Living \cup {NoWindow}
        <4>1. PICK o \in Orders, on \in BOOLEAN : shared.history[w] = StatesOf(o, w, on)
          <5>1. CASE w = NoWindow
            BY <2>2, <5>1, WatchOrderIs DEF Kept, Replayable, Defaults
          <5>2. CASE w # NoWindow
            BY <1>1, <2>2, <5>2, FrontIs DEF Kept, Replayable
          <5> QED
            BY <5>1, <5>2
        <4>2. w \in Living \cup {NoWindow}
          BY <2>2 DEF Kept, Replayable
        <4>3. shared.history[w][i].value = Shown(o[i], w, on)
          BY <4>1 DEF StatesOf
        <4> QED
          BY <4>1, <4>2, <4>3 DEF Shown
      <3>2. /\ {shared.object, shared.last, shared.rules, shared.dock} \subseteq Living \cup {NoWindow}
            /\ shared.states \subseteq Living
            /\ DOMAIN shared.history \subseteq Living \cup {NoWindow}
        BY <2>2 DEF Kept, Shared, Replayable
      <3> QED
        BY <3>1, <3>2 DEF NothingOfTheDeleted
    <2> QED
      BY <1>1, <2>1, <2>2 DEF StatesInv, InFront
  <1> QED
    BY <1>1, StatesInvariant, PTL

-----------------------------------------------------------------------------
(* The search *)

(* The row looked at first, and how many rows behind it a row is met:      *)
(* Search!Distance without the division.                                   *)
FirstRow == IF origin >= 0 THEN origin + inc ELSE IF inc > 0 THEN 0 ELSE Len(table) - 1

Ahead(row) == IF inc > 0 THEN row - FirstRow ELSE FirstRow - row

Met(row) == IF Ahead(row) >= 0 THEN Ahead(row) ELSE Ahead(row) + Len(table)

RowsShown == Search!Rows(Len(table))

Selection ==
    /\ table \in Seq(Entries)
    /\ selected \in Int /\ -1 <= selected /\ selected < Len(table)
    /\ inc \in {0, 1, -1}

(* What the loop keeps: the selection is the one the search began with,    *)
(* and no row met before the next one matches.  Without a selection        *)
(* startRow is the row looked at first, once that one did not match, and   *)
(* when the loop is back there nothing matches.                            *)
Running ==
    inc # 0 =>
        /\ selected = origin
        /\ nextRow \in RowsShown
        /\ matching \subseteq RowsShown
        /\ startRow = origin \/ (origin = -1 /\ startRow = FirstRow)
        /\ startRow = -1 => nextRow = FirstRow
        /\ IF startRow = nextRow /\ origin = -1
           THEN matching = {}
           ELSE \A row \in RowsShown : Met(row) < Met(nextRow) => row \notin matching

SearchInv == Selection /\ Running

-----------------------------------------------------------------------------
(* Met is Distance, and tells the rows of the table apart. *)

LEMMA DivisionByRows ==
    ASSUME NEW n \in Nat \ {0}, NEW x \in Int, -n <= x, x < n
    PROVE  x % n = IF x >= 0 THEN x ELSE x + n
  OBVIOUS

(* Where the search looks first, wherever it starts.                       *)
LEMMA FirstInReach ==
    ASSUME Selection, inc # 0, selected = origin, Len(table) > 0
    PROVE  /\ Len(table) \in Nat /\ FirstRow \in Int
           /\ inc = 1 => 0 <= FirstRow /\ FirstRow <= Len(table)
           /\ inc = -1 => -1 <= FirstRow /\ FirstRow < Len(table)
  BY DEF Selection, FirstRow

LEMMA MetIsDistance ==
    ASSUME Selection, inc # 0, selected = origin,
           NEW row \in RowsShown
    PROVE  /\ Met(row) \in 0 .. Len(table) - 1
           /\ Search!Distance(row) = Met(row)
  <1>1. Len(table) \in Nat \ {0} /\ row \in 0 .. Len(table) - 1
    BY DEF Selection, RowsShown, Search!Rows
  <1>2. FirstRow \in Int /\ Ahead(row) \in Int
        /\ -Len(table) <= Ahead(row) /\ Ahead(row) < Len(table)
    BY <1>1, FirstInReach DEF Ahead, Selection
  <1>3. (row - FirstRow) * inc = Ahead(row)
    BY <1>1, <1>2 DEF Ahead, Selection
  <1>4. Search!Distance(row) = Ahead(row) % Len(table)
    BY <1>3 DEF Search!Distance, FirstRow
  <1>5. Ahead(row) % Len(table) = Met(row)
    BY <1>1, <1>2, DivisionByRows DEF Met
  <1> QED
    BY <1>1, <1>2, <1>4, <1>5 DEF Met

LEMMA MetOnce ==
    ASSUME Selection, inc # 0, selected = origin,
           NEW row \in RowsShown, NEW other \in RowsShown, Met(row) = Met(other)
    PROVE  row = other
  <1>1. Len(table) \in Nat \ {0} /\ row \in 0 .. Len(table) - 1 /\ other \in 0 .. Len(table) - 1
    BY DEF Selection, RowsShown, Search!Rows
  <1>2. FirstRow \in Int
    BY <1>1, FirstInReach
  <1>3. CASE inc = 1
    BY <1>1, <1>2, <1>3 DEF Met, Ahead
  <1>4. CASE inc = -1
    BY <1>1, <1>2, <1>4 DEF Met, Ahead
  <1> QED
    BY <1>3, <1>4 DEF Selection

(* The row the search starts from is met last, the first one at once.      *)
LEMMA MetLastAndFirst ==
    ASSUME Selection, inc # 0, selected = origin, Len(table) > 0
    PROVE  /\ origin # -1 => Met(origin) = Len(table) - 1
           /\ origin = -1 => FirstRow \in RowsShown /\ Met(FirstRow) = 0
           /\ Search!Wrapped(origin + inc) \in RowsShown
           /\ Met(Search!Wrapped(origin + inc)) = 0
           /\ origin = -1 => Search!Wrapped(origin + inc) = FirstRow
  <1>1. Len(table) \in Nat \ {0} /\ FirstRow \in Int /\ origin \in Int
    BY FirstInReach DEF Selection
  <1>2. CASE inc = 1
    BY <1>1, <1>2 DEF Selection, FirstRow, Met, Ahead, RowsShown, Search!Rows, Search!Wrapped
  <1>3. CASE inc = -1
    BY <1>1, <1>3 DEF Selection, FirstRow, Met, Ahead, RowsShown, Search!Rows, Search!Wrapped
  <1> QED
    BY <1>2, <1>3 DEF Selection

(* From one row to the next, around the end of the table.                  *)
LEMMA MetNext ==
    ASSUME Selection, inc # 0, selected = origin, NEW row \in RowsShown
    PROVE  /\ Search!Wrapped(row + inc) \in RowsShown
           /\ Met(Search!Wrapped(row + inc)) =
                 IF Met(row) = Len(table) - 1 THEN 0 ELSE Met(row) + 1
  <1>1. Len(table) \in Nat \ {0} /\ row \in 0 .. Len(table) - 1 /\ FirstRow \in Int
    BY FirstInReach DEF Selection, RowsShown, Search!Rows
  <1>2. CASE inc = 1
    <2>1. 0 <= FirstRow /\ FirstRow <= Len(table)
      BY <1>1, <1>2, FirstInReach
    <2> QED
      BY <1>1, <1>2, <2>1 DEF Met, Ahead, RowsShown, Search!Rows, Search!Wrapped
  <1>3. CASE inc = -1
    <2>1. -1 <= FirstRow /\ FirstRow < Len(table)
      BY <1>1, <1>3, FirstInReach
    <2>2. CASE row = 0
      <3>1. Search!Wrapped(row + inc) = Len(table) - 1
        BY <1>1, <1>3, <2>2 DEF Search!Wrapped
      <3> QED
        BY <1>1, <1>3, <2>1, <2>2, <3>1 DEF Met, Ahead, RowsShown, Search!Rows
    <2>3. CASE row > 0
      <3>1. Search!Wrapped(row + inc) = row - 1
        BY <1>1, <1>3, <2>3 DEF Search!Wrapped
      <3> QED
        BY <1>1, <1>3, <2>1, <2>3, <3>1 DEF Met, Ahead, RowsShown, Search!Rows
    <2> QED
      BY <1>1, <2>2, <2>3
  <1> QED
    BY <1>2, <1>3 DEF Selection
-----------------------------------------------------------------------------
(* The loop *)

LEMMA InitSearch == QuickSearchInit => SearchInv
  BY DEF QuickSearchInit, SearchInv, Selection, Running, Search!NoSearch

(* Between two searches nothing but the selection has to be right.         *)
LEMMA TableSteps ==
    ASSUME SearchInv, inc = 0,
           \/ \E entry \in Arriving : NewRow(entry)
           \/ ClearTable
           \/ \E row \in -1 .. MaxRows : Select(row)
           \/ \E line \in Texts : EditText(line) \/ DropRule(line)
           \/ SwitchSearchMode
    PROVE  SearchInv' /\ Search!SelectsNearest
  <1>1. inc' = 0
    BY DEF NewRow, ClearTable, Select, EditText, DropRule, SwitchSearchMode, UpdateSearch, searchVars
  <1>2. ASSUME NEW entry \in Arriving, NewRow(entry) PROVE Selection'
    <2>1. entry \in Entries
      BY QuickSearchAssumption
    <2>2. table' = Append(table, entry) /\ selected' = selected
      BY <1>2 DEF NewRow
    <2>3. table' \in Seq(Entries) /\ Len(table') = Len(table) + 1
      BY <2>1, <2>2 DEF SearchInv, Selection
    <2> QED
      BY <1>1, <2>2, <2>3 DEF SearchInv, Selection
  <1>3. ASSUME ClearTable PROVE Selection'
    BY <1>1, <1>3 DEF ClearTable, Selection
  <1>4. ASSUME NEW row \in -1 .. MaxRows, Select(row) PROVE Selection'
    BY <1>1, <1>4, QuickSearchAssumption DEF Select, SearchInv, Selection, Search!Rows
  <1>5. ASSUME (\E line \in Texts : EditText(line) \/ DropRule(line)) \/ SwitchSearchMode
        PROVE  Selection'
    <2>1. UNCHANGED <<table, selected>>
      BY <1>5 DEF EditText, DropRule, SwitchSearchMode, UpdateSearch
    <2> QED
      BY <1>1, <2>1 DEF SearchInv, Selection
  <1> QED
    BY <1>1, <1>2, <1>3, <1>4, <1>5 DEF SearchInv, Running, Search!SelectsNearest, Selection

MetInTable == \A row \in RowsShown : Met(row) \in 0 .. Len(table) - 1

LEMMA MetInTableHolds ==
    ASSUME Selection, inc # 0, selected = origin
    PROVE  MetInTable
  BY MetIsDistance DEF MetInTable

LEMMA SearchBegins ==
    ASSUME SearchInv, NEW direction \in {1, -1}, SearchNextOrPrev(direction)
    PROVE  SearchInv' /\ Search!SelectsNearest
  <1>1. PICK undecided \in SUBSET RowsIn(quickSearchExp.undefined) :
            Search!Begin(direction, RowsIn(quickSearchExp.matches) \cup undecided)
    BY DEF SearchNextOrPrev
  <1>2. /\ inc = 0 /\ Len(table) > 0 /\ inc' = direction
        /\ matching' = RowsIn(quickSearchExp.matches) \cup undecided
        /\ startRow' = selected /\ origin' = selected
        /\ nextRow' = Search!Wrapped(selected + direction)
        /\ UNCHANGED <<table, selected>>
    BY <1>1 DEF Search!Begin, SearchNextOrPrev
  <1>3. Selection' /\ (inc # 0)' /\ (selected = origin)' /\ (Len(table) > 0)'
    BY <1>2 DEF SearchInv, Selection
  <1>4. /\ (origin # -1 => Met(origin) = Len(table) - 1)'
        /\ (origin = -1 => FirstRow \in RowsShown /\ Met(FirstRow) = 0)'
        /\ (Search!Wrapped(origin + inc) \in RowsShown)'
        /\ (Met(Search!Wrapped(origin + inc)) = 0)'
        /\ (origin = -1 => Search!Wrapped(origin + inc) = FirstRow)'
    BY <1>3, MetLastAndFirst, PTL
  <1>5. nextRow' = Search!Wrapped(origin + inc)'
    BY <1>2 DEF Search!Wrapped
  <1>6. (nextRow \in RowsShown)' /\ (Met(nextRow) = 0)' /\ (origin = -1 => nextRow = FirstRow)'
    BY <1>4, <1>5
  <1>7. MetInTable'
    BY <1>3, MetInTableHolds, PTL
  <1>8. (matching \subseteq RowsShown)'
    BY <1>2 DEF RowsIn, RowsShown
  <1>9. startRow' = origin' /\ ~(startRow = nextRow /\ origin = -1)'
    BY <1>2, <1>6 DEF RowsShown, Search!Rows
  <1>10. \A row \in RowsShown' : ~(Met(row)' < Met(nextRow)')
    BY <1>6, <1>7 DEF MetInTable
  <1>11. Running'
    BY <1>3, <1>6, <1>8, <1>9, <1>10 DEF Running
  <1> QED
    BY <1>2, <1>3, <1>11 DEF SearchInv, Search!SelectsNearest
(* The row looked at does not match, and is met like those before it.      *)
LEMMA RoundGoesOn ==
    ASSUME SearchInv, Round
    PROVE  SearchInv' /\ Search!SelectsNearest
  <1>1. /\ inc # 0 /\ nextRow # startRow /\ nextRow \notin matching
        /\ startRow' = IF startRow < 0 THEN nextRow ELSE startRow
        /\ nextRow' = Search!Wrapped(nextRow + inc)
        /\ UNCHANGED <<table, matching, selected, inc, origin>>
    BY DEF Round, Search!NextRound
  <1>2. /\ Selection /\ selected = origin
        /\ nextRow \in RowsShown /\ matching \subseteq RowsShown
        /\ startRow = origin \/ (origin = -1 /\ startRow = FirstRow)
        /\ startRow = -1 => nextRow = FirstRow
        /\ \A row \in RowsShown : Met(row) < Met(nextRow) => row \notin matching
    BY <1>1 DEF SearchInv, Running
  <1>3. Len(table) \in Nat \ {0} /\ RowsShown = 0 .. Len(table) - 1
        /\ origin \in Int /\ FirstRow \in Int
    BY <1>1, <1>2, FirstInReach DEF Selection, RowsShown, Search!Rows
  <1>4. /\ nextRow' \in RowsShown
        /\ Met(nextRow) \in 0 .. Len(table) - 1
        /\ Met(nextRow') = IF Met(nextRow) = Len(table) - 1 THEN 0 ELSE Met(nextRow) + 1
    BY <1>1, <1>2, MetNext, MetIsDistance
  <1>5. \A row \in RowsShown : Met(row) <= Met(nextRow) => row \notin matching
    <2> SUFFICES ASSUME NEW row \in RowsShown, Met(row) <= Met(nextRow)
                 PROVE  row \notin matching
      OBVIOUS
    <2>1. Met(row) \in 0 .. Len(table) - 1
      BY <1>1, <1>2, MetIsDistance
    <2>2. CASE Met(row) = Met(nextRow)
      BY <1>1, <1>2, <2>2, MetOnce
    <2>3. CASE Met(row) < Met(nextRow)
      BY <1>2, <2>3
    <2> QED
      BY <1>4, <2>1, <2>2, <2>3
  <1>6. /\ FirstRow' = FirstRow /\ RowsShown' = RowsShown /\ Met(nextRow)' = Met(nextRow')
        /\ \A row : Met(row)' = Met(row)
    BY <1>1 DEF FirstRow, RowsShown, Search!Rows, Met, Ahead
  <1>7. startRow' = IF origin = -1 THEN FirstRow ELSE origin
    <2>1. origin = -1 => FirstRow >= 0
      BY <1>1, <1>2, <1>3, MetLastAndFirst
    <2>2. origin # -1 => origin >= 0
      BY <1>2, <1>3 DEF Selection
    <2>3. CASE startRow = origin
      BY <1>1, <1>2, <1>3, <2>2, <2>3
    <2>4. CASE origin = -1 /\ startRow = FirstRow
      BY <1>1, <1>3, <2>1, <2>4
    <2> QED
      BY <1>2, <2>3, <2>4
  <1>8. CASE origin = -1
    <2>1. Met(FirstRow) = 0 /\ FirstRow \in RowsShown
      BY <1>1, <1>2, <1>3, <1>8, MetLastAndFirst
    <2>2. ASSUME Met(nextRow) = Len(table) - 1 PROVE Running'
      <3>1. nextRow' = FirstRow
        BY <1>1, <1>2, <1>4, <2>1, <2>2, MetOnce
      <3>2. \A row \in RowsShown : Met(row) <= Met(nextRow)
        BY <1>1, <1>2, <1>3, <2>2, MetIsDistance
      <3>3. matching = {}
        BY <1>2, <1>5, <3>2
      <3> QED
        BY <1>1, <1>2, <1>3, <1>4, <1>6, <1>7, <1>8, <2>1, <3>1, <3>3 DEF Running
    <2>3. ASSUME Met(nextRow) # Len(table) - 1 PROVE Running'
      <3>1. nextRow' # FirstRow /\ Met(nextRow') = Met(nextRow) + 1
        BY <1>3, <1>4, <2>1, <2>3
      <3>2. \A row \in RowsShown : Met(row) < Met(nextRow') => row \notin matching
        BY <1>1, <1>2, <1>3, <1>4, <1>5, <3>1, MetIsDistance
      <3>3. \A row \in RowsShown' : Met(row)' < Met(nextRow)' => row \notin matching'
        BY <1>1, <1>6, <3>2
      <3> QED
        BY <1>1, <1>2, <1>3, <1>4, <1>6, <1>7, <1>8, <2>1, <3>1, <3>3 DEF Running
    <2> QED
      BY <1>1, <1>2, <1>6, <2>2, <2>3 DEF SearchInv, Selection, Search!SelectsNearest
  <1>9. CASE origin # -1
    <2>1. origin \in RowsShown /\ Met(origin) = Len(table) - 1
      BY <1>1, <1>2, <1>3, <1>9, MetLastAndFirst DEF Selection
    <2>2. nextRow # origin
      BY <1>1, <1>2, <1>9
    <2>3. Met(nextRow) # Len(table) - 1
      BY <1>1, <1>2, <2>1, <2>2, MetOnce
    <2>4. \A row \in RowsShown : Met(row) < Met(nextRow') => row \notin matching
      BY <1>1, <1>2, <1>3, <1>4, <1>5, <2>3, MetIsDistance
    <2>5. Running'
      BY <1>1, <1>2, <1>4, <1>6, <1>7, <1>9, <2>4, <1>3, <2>1 DEF Running
    <2> QED
      BY <1>1, <1>2, <1>6, <2>5 DEF SearchInv, Selection, Search!SelectsNearest
  <1> QED
    BY <1>8, <1>9

LEMMA SearchFinishes ==
    ASSUME SearchInv, Finish
    PROVE  SearchInv' /\ Search!SelectsNearest
  <1>1. /\ inc # 0 /\ inc' = 0 /\ table' = table
        /\ nextRow = startRow \/ nextRow \in matching
        /\ selected' = IF nextRow # startRow THEN nextRow ELSE selected
    BY DEF Finish, Search!Finish, Search!EndOfSearch
  <1>2. /\ Selection /\ selected = origin
        /\ nextRow \in RowsShown /\ matching \subseteq RowsShown
        /\ startRow = origin \/ (origin = -1 /\ startRow = FirstRow)
        /\ IF startRow = nextRow /\ origin = -1
           THEN matching = {}
           ELSE \A row \in RowsShown : Met(row) < Met(nextRow) => row \notin matching
    BY <1>1 DEF SearchInv, Running
  <1>3. Len(table) \in Nat \ {0} /\ RowsShown = 0 .. Len(table) - 1 /\ origin \in Int
    BY <1>1, <1>2 DEF Selection, RowsShown, Search!Rows
  <1>4. SearchInv'
    BY <1>1, <1>2, <1>3 DEF SearchInv, Selection, Running
  <1>5. CASE nextRow = startRow
    <2>1. matching \ {origin} = {}
      <3>1. CASE origin = -1
        BY <1>2, <1>5, <3>1
      <3>2. CASE origin # -1
        <4>1. nextRow = origin /\ Met(origin) = Len(table) - 1
          BY <1>1, <1>2, <1>3, <1>5, <3>2, MetLastAndFirst
        <4> SUFFICES ASSUME NEW row \in RowsShown, row # origin PROVE row \notin matching
          BY <1>2
        <4>2. Met(row) \in 0 .. Len(table) - 1 /\ Met(row) # Met(origin)
          BY <1>1, <1>2, <4>1, MetIsDistance, MetOnce
        <4> QED
          BY <1>2, <1>3, <3>2, <4>1, <4>2
      <3> QED
        BY <3>1, <3>2
    <2> QED
      BY <1>1, <1>4, <1>5, <2>1 DEF Search!SelectsNearest
  <1>6. CASE nextRow # startRow
    <2>1. nextRow \in matching \ {origin} /\ selected' = nextRow
      BY <1>1, <1>2, <1>3, <1>6
    <2>2. \A row \in matching : Search!Distance(nextRow) <= Search!Distance(row)
      <3> SUFFICES ASSUME NEW row \in matching
                   PROVE  Search!Distance(nextRow) <= Search!Distance(row)
        OBVIOUS
      <3>1. /\ Met(row) \in 0 .. Len(table) - 1 /\ Search!Distance(row) = Met(row)
            /\ Met(nextRow) \in 0 .. Len(table) - 1 /\ Search!Distance(nextRow) = Met(nextRow)
        BY <1>1, <1>2, MetIsDistance
      <3> QED
        BY <1>2, <1>6, <3>1
    <2> QED
      BY <1>4, <2>1, <2>2 DEF Search!SelectsNearest
  <1> QED
    BY <1>5, <1>6

-----------------------------------------------------------------------------
(* Theorems *)

LEMMA EveryStep ==
    SearchInv /\ [QuickSearchNext]_quickSearchVars =>
        SearchInv' /\ (Search!SelectsNearest \/ UNCHANGED quickSearchVars)
  <1> SUFFICES ASSUME SearchInv, [QuickSearchNext]_quickSearchVars
               PROVE  SearchInv' /\ (Search!SelectsNearest \/ UNCHANGED quickSearchVars)
    OBVIOUS
  <1>1. CASE UNCHANGED quickSearchVars
    BY <1>1 DEF quickSearchVars, searchVars, SearchInv, Selection, Running, FirstRow, RowsShown, Search!Rows, Met, Ahead
  <1>2. ASSUME NEW direction \in {1, -1}, SearchNextOrPrev(direction)
        PROVE  SearchInv' /\ Search!SelectsNearest
    BY <1>2, SearchBegins
  <1>3. CASE Round
    BY <1>3, RoundGoesOn
  <1>4. CASE Finish
    BY <1>4, SearchFinishes
  <1>5. ASSUME \/ \E entry \in Arriving : NewRow(entry)
               \/ ClearTable
               \/ \E row \in -1 .. MaxRows : Select(row)
               \/ \E line \in Texts : EditText(line) \/ DropRule(line)
               \/ SwitchSearchMode
        PROVE  SearchInv' /\ Search!SelectsNearest
    <2>1. inc = 0
      BY <1>5 DEF NewRow, ClearTable, Select, EditText, DropRule, SwitchSearchMode
    <2> QED
      BY <1>5, <2>1, TableSteps
  <1> QED
    BY <1>1, <1>2, <1>3, <1>4, <1>5 DEF QuickSearchNext

(* A search selects the nearest other row that matches, in its direction   *)
(* and around the end of the table, and leaves the selection alone if no   *)
(* other row matches (LogEntryTableWindow::search).                        *)
THEOREM NearestIsSelected == QuickSearchSpec => FindsNearest
  <1>1. QuickSearchInit => SearchInv
    BY InitSearch
  <1>2. SearchInv /\ [QuickSearchNext]_quickSearchVars => SearchInv' /\ [Search!SelectsNearest]_quickSearchVars
    BY EveryStep
  <1> QED
    BY <1>1, <1>2, PTL DEF QuickSearchSpec, FindsNearest

(* The row a search looks at is always one of the table, so that the loop  *)
(* reads no entry that is not there.                                       *)
THEOREM LooksAtRows == QuickSearchSpec => [](inc # 0 => nextRow + 1 \in DOMAIN table)
  <1>1. SearchInv => (inc # 0 => nextRow + 1 \in DOMAIN table)
    BY DEF SearchInv, Selection, Running, RowsShown, Search!Rows
  <1> QED
    BY <1>1, InitSearch, EveryStep, PTL DEF QuickSearchSpec

=============================================================================
