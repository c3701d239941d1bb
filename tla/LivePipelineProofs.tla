------------------------- MODULE LivePipelineProofs -------------------------
(***************************************************************************)
(* Proofs about LivePipeline, for any number of peers, any bounds and any  *)
(* limits.                                                                 *)
(***************************************************************************)
EXTENDS LivePipeline, SequenceTheorems, TLAPS

(***************************************************************************)
(* Lemmas about the operators the component modules are built from.        *)
(***************************************************************************)

\* DropFirst keeps the type and removes exactly k elements from the front.
LEMMA DropFirstProperties ==
  ASSUME NEW S, NEW s \in Seq(S), NEW k \in 0..Len(s)
  PROVE  /\ DropFirst(s, k) \in Seq(S)
         /\ Len(DropFirst(s, k)) = Len(s) - k
         /\ \A i \in 1..(Len(s) - k) : DropFirst(s, k)[i] = s[i + k]
<1>1. Len(s) \in Nat /\ \A i \in 1..Len(s) : s[i] \in S
  BY LenProperties
<1>2. \A i \in (k + 1)..Len(s) : s[i] \in S
  BY <1>1
<1>3. /\ SubSeq(s, k + 1, Len(s)) \in Seq(S)
      /\ Len(SubSeq(s, k + 1, Len(s)))
           = IF k + 1 <= Len(s) THEN Len(s) - (k + 1) + 1 ELSE 0
      /\ \A i \in 1..(Len(s) - (k + 1) + 1) :
           SubSeq(s, k + 1, Len(s))[i] = s[(k + 1) + i - 1]
  BY <1>1, <1>2, SubSeqProperties
<1> QED
  BY <1>1, <1>3 DEF DropFirst

\* Dropping fewer elements than the first part of a concatenation has.
LEMMA DropFromFirstPart ==
  ASSUME NEW S, NEW s \in Seq(S), NEW t \in Seq(S), NEW k \in 0..Len(s)
  PROVE  DropFirst(s \o t, k) = DropFirst(s, k) \o t
<1>1. PICK c \in Seq(S) : c = s \o t
  BY ConcatProperties
<1>2. PICK d \in Seq(S) : d = DropFirst(s, k)
  BY DropFirstProperties
<1>3. PICK r \in Seq(S) : r = d \o t
  BY ConcatProperties
<1>4. /\ Len(s) \in Nat /\ Len(t) \in Nat
      /\ Len(c) = Len(s) + Len(t)
      /\ \A i \in 1..(Len(s) + Len(t)) : c[i] = IF i <= Len(s) THEN s[i] ELSE t[i - Len(s)]
  BY <1>1, ConcatProperties, LenProperties
<1>5. k \in 0..Len(c)
  BY <1>4
<1>6. PICK l \in Seq(S) : l = DropFirst(c, k)
  BY <1>5, DropFirstProperties
<1>7. /\ Len(l) = Len(c) - k
      /\ \A i \in 1..(Len(c) - k) : l[i] = c[i + k]
  BY <1>5, <1>6, DropFirstProperties
<1>8. /\ Len(d) = Len(s) - k
      /\ \A i \in 1..(Len(s) - k) : d[i] = s[i + k]
  BY <1>2, DropFirstProperties
<1>9. /\ Len(r) = Len(d) + Len(t)
      /\ \A i \in 1..(Len(d) + Len(t)) : r[i] = IF i <= Len(d) THEN d[i] ELSE t[i - Len(d)]
  BY <1>3, ConcatProperties
<1>10. ASSUME NEW i \in 1..Len(l) PROVE l[i] = r[i]
  <2>1. PICK j \in 1..(Len(s) + Len(t)) : j = i + k
    BY <1>4, <1>7
  <2>2. l[i] = c[j] /\ i \in 1..(Len(d) + Len(t))
    BY <1>4, <1>7, <1>8, <2>1
  <2>3. CASE i <= Len(d)
    <3>1. j <= Len(s) /\ i \in 1..(Len(s) - k)
      BY <1>4, <1>8, <2>1, <2>3
    <3> QED
      BY <1>4, <1>8, <1>9, <2>1, <2>2, <2>3, <3>1
  <2>4. CASE ~(i <= Len(d))
    <3>1. ~(j <= Len(s)) /\ j - Len(s) = i - Len(d)
      BY <1>4, <1>8, <2>1, <2>4
    <3> QED
      BY <1>4, <1>9, <2>1, <2>2, <2>4, <3>1
  <2> QED
    BY <2>3, <2>4
<1>11. Len(l) = Len(r)
  BY <1>4, <1>7, <1>8, <1>9
<1>12. l = r
  BY <1>10, <1>11, SeqEqual
<1> QED
  BY <1>1, <1>2, <1>3, <1>6, <1>12

\* Dropping the whole first part of a concatenation and more.
LEMMA DropFromSecondPart ==
  ASSUME NEW S, NEW s \in Seq(S), NEW t \in Seq(S), NEW k \in 0..Len(t)
  PROVE  DropFirst(s \o t, Len(s) + k) = DropFirst(t, k)
<1>1. PICK c \in Seq(S) : c = s \o t
  BY ConcatProperties
<1>2. /\ Len(s) \in Nat /\ Len(t) \in Nat
      /\ Len(c) = Len(s) + Len(t)
      /\ \A i \in 1..(Len(s) + Len(t)) : c[i] = IF i <= Len(s) THEN s[i] ELSE t[i - Len(s)]
  BY <1>1, ConcatProperties, LenProperties
<1>3. PICK n \in 0..Len(c) : n = Len(s) + k
  BY <1>2
<1>4. PICK l \in Seq(S) : l = DropFirst(c, n)
  BY DropFirstProperties
<1>5. PICK r \in Seq(S) : r = DropFirst(t, k)
  BY DropFirstProperties
<1>6. /\ Len(l) = Len(c) - n
      /\ \A i \in 1..(Len(c) - n) : l[i] = c[i + n]
  BY <1>4, DropFirstProperties
<1>7. /\ Len(r) = Len(t) - k
      /\ \A i \in 1..(Len(t) - k) : r[i] = t[i + k]
  BY <1>5, DropFirstProperties
<1>8. Len(l) = Len(r)
  BY <1>2, <1>3, <1>6, <1>7
<1>9. ASSUME NEW i \in 1..Len(l) PROVE l[i] = r[i]
  <2>1. PICK j \in 1..(Len(s) + Len(t)) : j = i + n
    BY <1>2, <1>3, <1>6
  <2>2. ~(j <= Len(s)) /\ j - Len(s) = i + k /\ i \in 1..(Len(t) - k)
    BY <1>2, <1>3, <1>6, <2>1
  <2>3. l[i] = c[j]
    BY <1>6, <2>1
  <2> QED
    BY <1>2, <1>7, <2>2, <2>3
<1>10. l = r
  BY <1>8, <1>9, SeqEqual
<1> QED
  BY <1>1, <1>3, <1>4, <1>5, <1>10

\* The three branches of insertEntry all do the same thing: append the message and
\* keep the newest rows the limit allows.
LEMMA InsertedIsNewest ==
  ASSUME NEW S, NEW rows \in Seq(S), NEW mess \in Seq(S), NEW max \in Nat
  PROVE  /\ Inserted(rows, mess, max) \in Seq(S)
         /\ Inserted(rows, mess, max) = Stream!Newest(rows \o mess, max)
<1> DEFINE total == Len(rows) + Len(mess)
<1>1. /\ Len(rows) \in Nat /\ Len(mess) \in Nat
      /\ rows \o mess \in Seq(S) /\ Len(rows \o mess) = total
  BY ConcatProperties, LenProperties
<1>2. CASE max = 0 \/ total <= max
  BY <1>1, <1>2 DEF Inserted, Stream!Newest
<1>3. CASE max # 0 /\ total > max
  <2>1. Stream!Newest(rows \o mess, max) = DropFirst(rows \o mess, total - max)
    BY <1>1, <1>3 DEF Stream!Newest, Stream!Rest, DropFirst
  <2>2. CASE Len(mess) >= max
    <3>0. Len(mess) - max \in 0..Len(mess)
      BY <1>1, <2>2
    <3>1. PICK k \in 0..Len(mess) : k = Len(mess) - max
      BY <3>0
    <3>2. total - max = Len(rows) + k
      BY <1>1, <3>1
    <3>3. Inserted(rows, mess, max) = DropFirst(mess, k)
      BY <1>1, <1>3, <2>2, <3>1 DEF Inserted
    <3> QED
      BY <2>1, <3>2, <3>3, DropFirstProperties, DropFromSecondPart
  <2>3. CASE Len(mess) < max
    <3>0. total - max \in 0..Len(rows)
      BY <1>1, <1>3, <2>3
    <3>1. PICK k \in 0..Len(rows) : k = total - max
      BY <3>0
    <3>2. Inserted(rows, mess, max) = DropFirst(rows, k) \o mess
      BY <1>1, <1>3, <2>3, <3>1 DEF Inserted, RemoveRowsUnlocked
    <3>3. DropFirst(rows, k) \o mess \in Seq(S)
      BY DropFirstProperties, ConcatProperties
    <3> QED
      BY <2>1, <3>1, <3>2, <3>3, DropFromFirstPart
  <2> QED
    BY <1>1, <2>2, <2>3
<1> QED
  BY <1>1, <1>2, <1>3

\* Numbering keeps a batch of entries a batch of entries, with consecutive numbers.
LEMMA NumberedProperties ==
  ASSUME NEW entries \in Seq(Entry), NEW first \in Nat
  PROVE  /\ Numbered(entries, first) \in Seq(Entry)
         /\ Len(Numbered(entries, first)) = Len(entries)
         /\ \A i \in 1..Len(entries) : Numbered(entries, first)[i].number = first + i - 1
<1>1. Len(entries) \in Nat /\ \A i \in 1..Len(entries) : entries[i] \in Entry
  BY LenProperties
<1> DEFINE e(i) == [entries[i] EXCEPT !.number = first + i - 1]
<1>2. ASSUME NEW i \in 1..Len(entries)
      PROVE  e(i) \in Entry /\ e(i).number = first + i - 1
  <2>1. first + i - 1 \in Nat
    BY <1>1
  <2>2. entries[i] \in [receiver : Receivers, index : Nat, number : Nat]
    BY <1>1 DEF Entry
  <2> QED
    BY <2>1, <2>2 DEF Entry
<1>3. Numbered(entries, first) = [i \in 1..Len(entries) |-> e(i)]
  BY DEF Numbered
<1> HIDE DEF e
<1>4. [i \in 1..Len(entries) |-> e(i)] \in Seq(Entry)
  BY <1>1, <1>2, IsASeq
<1>5. Len([i \in 1..Len(entries) |-> e(i)]) = Len(entries)
  BY <1>1, <1>4, LenProperties
<1> QED
  BY <1>2, <1>3, <1>4, <1>5

\* What a receiver hands over is a batch of n entries.
LEMMA DecodedProperties ==
  ASSUME TypeOK, NEW r \in Receivers, NEW n \in Nat
  PROVE  Decoded(r, n) \in Seq(Entry) /\ Len(Decoded(r, n)) = n
<1> DEFINE e(i) == [receiver |-> r, index |-> sent[r] + i, number |-> 0]
<1>1. \A i \in 1..n : e(i) \in Entry
  BY DEF TypeOK, Entry
<1>2. Decoded(r, n) = [i \in 1..n |-> e(i)]
  BY DEF Decoded
<1> HIDE DEF e
<1> QED
  BY <1>1, <1>2, IsASeq, LenProperties

-----------------------------------------------------------------------------
(***************************************************************************)
(* Type correctness.                                                       *)
(***************************************************************************)

\* The destruction of a message keeps the server's types.
LEMMA DestroyedTypes ==
  ASSUME ServerTypeOK(Entry), NEW rest \in Seq(Seq(Entry)), LogEntryMessageDestroyed(rest)
  PROVE  ServerTypeOK(Entry)'
<1>1. CASE SendNextMessage(rest)
  <2>1. Append(rest, nextMessage) \in Seq(Seq(Entry))
    BY AppendProperties DEF ServerTypeOK
  <2>2. <<>> \in Seq(Entry)
    BY EmptySeq
  <2> QED
    BY <1>1, <2>1, <2>2 DEF SendNextMessage, ServerTypeOK
<1>2. CASE BecomeIdle(rest)
  BY <1>2 DEF BecomeIdle, ServerTypeOK
<1> QED
  BY <1>1, <1>2 DEF LogEntryMessageDestroyed

\* Storing a message keeps the table's types.
LEMMA InsertedTypes ==
  ASSUME TableTypeOK(Entry), NEW mess \in Seq(Entry)
  PROVE  Inserted(table, mess, maxEntries) \in Seq(Entry)
  BY InsertedIsNewest DEF TableTypeOK

\* Every step of the pipeline keeps the types.
LEMMA TypeStep == TypeOK /\ [Next]_vars => TypeOK'
<1> SUFFICES ASSUME TypeOK, [Next]_vars PROVE TypeOK'
  OBVIOUS
<1>0. TableTypeOK(Entry) /\ ServerTypeOK(Entry) /\ sent \in [Receivers -> Nat]
  BY DEF TypeOK
<1>1. CASE StartModel
  BY <1>0, <1>1 DEF StartModel, StartEmiting, TypeOK, ServerTypeOK, TableTypeOK, tableVars
<1>2. ASSUME NEW r \in Receivers, NEW n \in 1..BatchSize, ReceiveEntries(r, n)
      PROVE  TypeOK'
  <2>1. n \in Nat
    BY PipelineAssumption
  <2>2. sent' \in [Receivers -> Nat]
    BY <1>0, <1>2, <2>1 DEF ReceiveEntries
  <2>3. TableTypeOK(Entry)'
    BY <1>0, <1>2 DEF ReceiveEntries, TableTypeOK, tableVars
  <2>4. PICK batch \in Seq(Entry) : batch = Decoded(r, n) /\ Len(batch) \in Nat
    BY <2>1, DecodedProperties
  <2>5. PICK numbered \in Seq(Entry) : numbered = Numbered(batch, logEntryNumber)
    BY <1>0, NumberedProperties DEF ServerTypeOK
  <2>6. nextMessage \o numbered \in Seq(Entry) /\ Append(events, numbered) \in Seq(Seq(Entry))
    BY <1>0, ConcatProperties, AppendProperties DEF ServerTypeOK
  <2>7. NewEntryFromReceiver(batch)
    BY <1>2, <2>4 DEF ReceiveEntries
  <2>8. ServerTypeOK(Entry)'
    <3>1. CASE DropEntries
      BY <1>0, <3>1 DEF DropEntries, ServerTypeOK, serverVars
    <3>2. CASE QueueEntries(batch)
      BY <1>0, <2>4, <2>5, <2>6, <3>2 DEF QueueEntries, ServerTypeOK
    <3>3. CASE SendEntries(batch)
      BY <1>0, <2>4, <2>5, <2>6, <3>3 DEF SendEntries, ServerTypeOK
    <3> QED
      BY <2>7, <3>1, <3>2, <3>3 DEF NewEntryFromReceiver
  <2> QED
    BY <2>2, <2>3, <2>8 DEF TypeOK
<1>3. CASE DeliverAndRelease
  <2>1. Head(events) \in Seq(Entry) /\ Tail(events) \in Seq(Seq(Entry))
    BY <1>0, <1>3, HeadTailProperties DEF DeliverAndRelease, ServerTypeOK
  <2>2. TableTypeOK(Entry)'
    <3>1. CASE DropMessage(Head(events))
      BY <1>0, <3>1 DEF DropMessage, TableTypeOK, tableVars
    <3>2. CASE StoreMessage(Head(events))
      BY <1>0, <2>1, <3>2, InsertedTypes DEF StoreMessage, TableTypeOK
    <3> QED
      BY <1>3, <3>1, <3>2 DEF DeliverAndRelease
  <2>3. ServerTypeOK(Entry)'
    BY <1>0, <1>3, <2>1, DestroyedTypes DEF DeliverAndRelease
  <2> QED
    BY <1>0, <1>3, <2>2, <2>3 DEF DeliverAndRelease, TypeOK
<1>4. CASE DeliverAndHold
  <2>1. Head(events) \in Seq(Entry) /\ Tail(events) \in Seq(Seq(Entry))
    BY <1>0, <1>4, HeadTailProperties DEF DeliverAndHold, ServerTypeOK
  <2>2. Append(blocked, Head(events)) \in Seq(Seq(Entry))
    BY <1>0, <2>1, AppendProperties DEF TableTypeOK
  <2> QED
    BY <1>0, <1>4, <2>1, <2>2
    DEF DeliverAndHold, BlockMessage, serverVars, TypeOK, TableTypeOK, ServerTypeOK
<1>5. CASE OpenMenu
  BY <1>0, <1>5
  DEF OpenMenu, BeginBlockItems, serverVars, TypeOK, TableTypeOK, ServerTypeOK
<1>6. CASE CloseMenu
  BY <1>0, <1>6
  DEF CloseMenu, EndBlockItems, serverVars, TypeOK, TableTypeOK, ServerTypeOK
<1>7. CASE DrainBlocked
  <2>1. Head(blocked) \in Seq(Entry) /\ Tail(blocked) \in Seq(Seq(Entry))
    BY <1>0, <1>7, HeadTailProperties DEF DrainBlocked, DrainMessage, Draining, TableTypeOK
  <2>2. table' \in Seq(Entry)
    BY <1>0, <1>7, <2>1, InsertedTypes DEF DrainBlocked, DrainMessage, TableTypeOK
  <2>3. TableTypeOK(Entry)'
    BY <1>0, <1>7, <2>1, <2>2 DEF DrainBlocked, DrainMessage, TableTypeOK
  <2>4. events \in Seq(Seq(Entry))
    BY <1>0 DEF ServerTypeOK
  <2>5. ServerTypeOK(Entry)'
    BY <1>0, <1>7, <2>4, DestroyedTypes DEF DrainBlocked
  <2> QED
    BY <1>0, <1>7, <2>3, <2>5 DEF DrainBlocked, TypeOK
<1>8. CASE UserAction
  <2>1. ServerTypeOK(Entry)' /\ sent' \in [Receivers -> Nat]
    BY <1>0, <1>8 DEF UserAction, serverVars, ServerTypeOK
  <2>2. TableTypeOK(Entry)'
    <3>1. CASE ClearTable
      <4>1. <<>> \in Seq(Entry)
        BY EmptySeq
      <4> QED
        BY <1>0, <3>1, <4>1 DEF ClearTable, TableTypeOK
    <3>2. ASSUME NEW active \in BOOLEAN, Capture(active) PROVE TableTypeOK(Entry)'
      BY <1>0, <3>2 DEF Capture, TableTypeOK
    <3>3. ASSUME NEW max \in Limits, SetMaxEntries(max) PROVE TableTypeOK(Entry)'
      BY <1>0, <3>3, PipelineAssumption DEF SetMaxEntries, TableTypeOK
    <3> QED
      BY <1>8, <3>1, <3>2, <3>3 DEF UserAction
  <2> QED
    BY <2>1, <2>2 DEF TypeOK
<1>9. CASE UNCHANGED vars
  BY <1>0, <1>9 DEF vars, tableVars, serverVars, TypeOK, TableTypeOK, ServerTypeOK
<1> QED
  BY <1>1, <1>2, <1>3, <1>4, <1>5, <1>6, <1>7, <1>8, <1>9 DEF Next, Deliver

\* Type correctness of the pipeline (the state declared in LogEntryTableModel.h and
\* in the headers of the two socket parsers), for every instance.
THEOREM TypeCorrect == Spec => []TypeOK
<1>1. Init => TypeOK
  <2>1. <<>> \in Seq(Entry) /\ <<>> \in Seq(Seq(Entry))
    BY EmptySeq
  <2>2. [r \in Receivers |-> 0] \in [Receivers -> Nat]
    OBVIOUS
  <2> SUFFICES ASSUME Init PROVE TypeOK
    OBVIOUS
  <2>3. TableTypeOK(Entry)
    BY <2>1 DEF Init, TableInit, TableTypeOK
  <2>4. ServerTypeOK(Entry)
    BY <2>1 DEF Init, ServerInit, ServerTypeOK
  <2> QED
    BY <2>2, <2>3, <2>4 DEF Init, TypeOK
<1> QED
  BY <1>1, TypeStep, PTL DEF Spec

-----------------------------------------------------------------------------
(***************************************************************************)
(* Back-pressure.  OneOutstanding is inductive together with the types.    *)
(***************************************************************************)
IInv == TypeOK /\ OneOutstanding

\* A sequence of length zero is empty, one of length one has no tail.
LEMMA ShortSequences ==
  ASSUME NEW S, NEW s \in Seq(S)
  PROVE  /\ Len(s) \in Nat
         /\ Len(s) = 0 <=> s = <<>>
         /\ Len(s) = 1 => Tail(s) = <<>> /\ Head(s) \in S
<1>1. Len(s) \in Nat /\ (Len(s) = 0 <=> s = <<>>)
  BY LenProperties, EmptySeq
<1>2. ASSUME Len(s) = 1 PROVE Tail(s) = <<>> /\ Head(s) \in S
  <2>1. Head(s) \in S /\ Tail(s) \in Seq(S) /\ Len(Tail(s)) = 0
    BY <1>1, <1>2, HeadTailProperties
  <2> QED
    BY <2>1, EmptySeq
<1> QED
  BY <1>1, <1>2

\* The three places the server's messages can be in.
Idle == ~messageInProgress /\ events = <<>> /\ blocked = <<>> /\ nextMessage = <<>>
Posted == /\ messageInProgress /\ blocked = <<>>
          /\ events # <<>> /\ Tail(events) = <<>>
          /\ Outstanding = Head(events) /\ Head(events) # <<>>
Held == /\ messageInProgress /\ events = <<>>
        /\ blocked # <<>> /\ Tail(blocked) = <<>>
        /\ Outstanding = Head(blocked) /\ Head(blocked) # <<>>

LEMMA ThreePlaces == IInv => Idle \/ Posted \/ Held
<1> SUFFICES ASSUME IInv PROVE Idle \/ Posted \/ Held
  OBVIOUS
<1>1. events \in Seq(Seq(Entry)) /\ blocked \in Seq(Seq(Entry)) /\ messageInProgress \in BOOLEAN
  BY DEF IInv, TypeOK, TableTypeOK, ServerTypeOK
<1>2. /\ Len(events) \in Nat /\ (Len(events) = 0 <=> events = <<>>)
      /\ Len(events) = 1 => Tail(events) = <<>>
  BY <1>1, ShortSequences
<1>3. /\ Len(blocked) \in Nat /\ (Len(blocked) = 0 <=> blocked = <<>>)
      /\ Len(blocked) = 1 => Tail(blocked) = <<>>
  BY <1>1, ShortSequences
<1>4. CASE ~messageInProgress
  <2>1. Len(events) = 0 /\ Len(blocked) = 0
    BY <1>2, <1>3, <1>4 DEF IInv, OneOutstanding
  <2> QED
    BY <1>2, <1>3, <1>4, <2>1 DEF IInv, OneOutstanding, Idle
<1>5. CASE messageInProgress
  <2>1. Len(events) + Len(blocked) = 1 /\ Outstanding # <<>>
    BY <1>5 DEF IInv, OneOutstanding
  <2>2. CASE Len(events) = 1 /\ Len(blocked) = 0
    BY <1>2, <1>3, <1>5, <2>1, <2>2 DEF Posted, Outstanding
  <2>3. CASE Len(events) = 0 /\ Len(blocked) = 1
    BY <1>2, <1>3, <1>5, <2>1, <2>3 DEF Held, Outstanding
  <2>4. Len(events) \in Nat /\ Len(blocked) \in Nat
    BY <1>2, <1>3
  <2>5. \A a, b \in Nat : a + b = 1 => (a = 1 /\ b = 0) \/ (a = 0 /\ b = 1)
    OBVIOUS
  <2> QED
    BY <2>1, <2>2, <2>3, <2>4, <2>5
<1> QED
  BY <1>1, <1>4, <1>5

\* Every step keeps at most one message on its way.
LEMMA OutstandingStep == IInv /\ TypeOK' /\ [Next]_vars => OneOutstanding'
<1> SUFFICES ASSUME IInv, TypeOK', [Next]_vars PROVE OneOutstanding'
  OBVIOUS
<1>0. /\ TypeOK /\ TableTypeOK(Entry) /\ ServerTypeOK(Entry)
      /\ Idle \/ Posted \/ Held
  BY ThreePlaces DEF IInv, TypeOK
<1>1. ASSUME UNCHANGED <<events, blocked, messageInProgress, nextMessage>>
      PROVE  OneOutstanding'
  BY <1>1 DEF IInv, OneOutstanding, Outstanding
\* The destruction of the only message.
<1>2. ASSUME LogEntryMessageDestroyed(<<>>), blocked' = <<>>, messageInProgress
      PROVE  OneOutstanding'
  <2>1. CASE SendNextMessage(<<>>)
    <3>1. nextMessage \in Seq(Entry) /\ nextMessage # <<>>
      BY <1>0, <2>1 DEF SendNextMessage, ServerTypeOK
    <3>2. messageInProgress' /\ events' = <<nextMessage>>
      BY <1>2, <2>1 DEF SendNextMessage
    <3>3. Len(<<nextMessage>>) = 1 /\ Head(<<nextMessage>>) = nextMessage /\ Len(<<>>) = 0
          /\ <<nextMessage>> # <<>>
      BY EmptySeq
    <3> QED
      BY <1>2, <3>1, <3>2, <3>3 DEF OneOutstanding, Outstanding
  <2>2. CASE BecomeIdle(<<>>)
    <3>1. ~messageInProgress' /\ events' = <<>> /\ nextMessage' = <<>>
      BY <2>2 DEF BecomeIdle
    <3>2. Len(<<>>) = 0
      BY EmptySeq
    <3> QED
      BY <1>2, <3>1, <3>2 DEF OneOutstanding
  <2> QED
    BY <1>2, <2>1, <2>2 DEF LogEntryMessageDestroyed
<1>3. CASE StartModel
  BY <1>1, <1>3 DEF StartModel, StartEmiting, tableVars
<1>4. ASSUME NEW r \in Receivers, NEW n \in 1..BatchSize, ReceiveEntries(r, n)
      PROVE  OneOutstanding'
  <2>1. n \in Nat /\ n # 0
    BY PipelineAssumption
  <2>2. PICK batch \in Seq(Entry) : batch = Decoded(r, n) /\ Len(batch) = n
    BY <1>0, <2>1, DecodedProperties
  <2>3. PICK numbered \in Seq(Entry) :
          numbered = Numbered(batch, logEntryNumber) /\ Len(numbered) = n
    BY <1>0, <2>2, NumberedProperties DEF ServerTypeOK
  <2>4. numbered # <<>>
    BY <2>1, <2>3, EmptySeq
  <2>5. NewEntryFromReceiver(batch) /\ blocked' = blocked
    BY <1>4, <2>2 DEF ReceiveEntries, tableVars
  <2>6. CASE DropEntries
    BY <1>1, <2>5, <2>6 DEF DropEntries, serverVars
  <2>7. CASE QueueEntries(batch)
    BY <2>5, <2>7 DEF QueueEntries, IInv, OneOutstanding, Outstanding
  <2>8. CASE SendEntries(batch)
    <3>1. Idle
      BY <1>0, <2>8 DEF SendEntries, Posted, Held
    <3>2. events' = <<numbered>> /\ messageInProgress' /\ nextMessage' = <<>> /\ blocked' = <<>>
      BY <2>3, <2>5, <2>8, <3>1 DEF SendEntries, Idle
    <3>3. Len(<<numbered>>) = 1 /\ Head(<<numbered>>) = numbered /\ Len(<<>>) = 0
          /\ <<numbered>> # <<>>
      BY EmptySeq
    <3> QED
      BY <2>4, <3>2, <3>3 DEF OneOutstanding, Outstanding
  <2> QED
    BY <2>5, <2>6, <2>7, <2>8 DEF NewEntryFromReceiver
<1>5. CASE DeliverAndRelease
  <2>1. Posted
    BY <1>0, <1>5 DEF DeliverAndRelease, Idle, Held
  <2>2. blocked' = <<>>
    BY <1>5, <2>1 DEF DeliverAndRelease, DropMessage, StoreMessage, tableVars, Posted
  <2> QED
    BY <1>2, <1>5, <2>1, <2>2 DEF DeliverAndRelease, Posted
<1>6. CASE DeliverAndHold
  <2>1. Posted
    BY <1>0, <1>6 DEF DeliverAndHold, Idle, Held
  <2>2. PICK m \in Seq(Entry) : m = Head(events)
    BY <1>0, <2>1, HeadTailProperties DEF ServerTypeOK, Posted
  <2>3. /\ events' = <<>> /\ blocked' = <<m>> /\ m # <<>>
        /\ messageInProgress' /\ nextMessage' = nextMessage
    BY <1>6, <2>1, <2>2 DEF DeliverAndHold, BlockMessage, serverVars, Posted
  <2>4. Len(<<m>>) = 1 /\ Head(<<m>>) = m /\ Len(<<>>) = 0 /\ <<m>> # <<>>
    BY EmptySeq
  <2> QED
    BY <2>3, <2>4 DEF OneOutstanding, Outstanding
<1>7. CASE OpenMenu
  BY <1>1, <1>7 DEF OpenMenu, BeginBlockItems, serverVars
<1>8. CASE CloseMenu
  BY <1>1, <1>8 DEF CloseMenu, EndBlockItems, serverVars
<1>9. CASE DrainBlocked
  <2>1. Held
    BY <1>0, <1>9 DEF DrainBlocked, DrainMessage, Draining, Idle, Posted
  <2>2. blocked' = <<>> /\ LogEntryMessageDestroyed(<<>>)
    BY <1>9, <2>1 DEF DrainBlocked, DrainMessage, Held
  <2> QED
    BY <1>2, <2>1, <2>2 DEF Held
<1>10. CASE UserAction
  <2>1. UNCHANGED <<serverVars, events, blocked>>
    BY <1>10 DEF UserAction, ClearTable, Capture, SetMaxEntries
  <2> QED
    BY <1>1, <2>1 DEF serverVars
<1>11. CASE UNCHANGED vars
  BY <1>1, <1>11 DEF vars, tableVars, serverVars
<1> QED
  BY <1>3, <1>4, <1>5, <1>6, <1>7, <1>8, <1>9, <1>10, <1>11 DEF Next, Deliver

\* The inductive invariant holds initially and in every step, hence always.
LEMMA InductiveInvariant == Spec => []IInv
<1>1. Init => OneOutstanding
  <2>1. Len(<<>>) = 0
    BY EmptySeq
  <2> QED
    BY <2>1 DEF Init, TableInit, ServerInit, OneOutstanding
<1>2. IInv /\ [Next]_vars /\ TypeOK' => IInv'
  BY OutstandingStep DEF IInv
<1>3. IInv <=> TypeOK /\ OneOutstanding
  BY DEF IInv
<1> QED
  BY <1>1, <1>2, <1>3, TypeCorrect, PTL DEF Spec

\* Back-pressure for every number of peers and every bound: the socket servers never
\* have more than one message on its way to the table, and m_messageInProgress says
\* exactly whether there is one (newEntryFromReceiver, logEntryMessageDestroyed).
THEOREM BackPressure == Spec => []OneOutstanding
<1>1. IInv => OneOutstanding
  BY DEF IInv
<1> QED
  BY <1>1, InductiveInvariant, PTL

-----------------------------------------------------------------------------
(***************************************************************************)
(* Refinement: the pipeline implements EntryStream.                        *)
(***************************************************************************)

\* Splitting a concatenation where its parts meet.
LEMMA SplitConcat ==
  ASSUME NEW S, NEW s \in Seq(S), NEW t \in Seq(S)
  PROVE  /\ Stream!First(s \o t, Len(s)) = s
         /\ Stream!Rest(s \o t, Len(s)) = t
<1>1. Len(s) \in Nat /\ Len(t) \in Nat
  BY LenProperties
<1>2. Stream!First(s \o t, Len(s)) = s
  <2>1. CASE Len(s) = 0
    <3>1. s = <<>>
      BY <2>1, ShortSequences
    <3>2. SubSeq(s \o t, 1, 0) = <<>>
      BY SubSeqEmpty
    <3> QED
      BY <2>1, <3>1, <3>2 DEF Stream!First
  <2>2. CASE Len(s) # 0
    <3>1. 1 \in 1..Len(s) /\ Len(s) \in 1..Len(s)
      BY <1>1, <2>2
    <3>2. SubSeq(s \o t, 1, Len(s)) = SubSeq(s, 1, Len(s))
      BY <3>1, SubSeqOfConcat1
    <3> QED
      BY <3>2, SubSeqFull DEF Stream!First
  <2> QED
    BY <2>1, <2>2
<1>3. Stream!Rest(s \o t, Len(s)) = t
  <2>1. 0 \in 0..Len(t)
    BY <1>1
  <2>2. DropFirst(s \o t, Len(s) + 0) = DropFirst(t, 0)
    BY <2>1, DropFromSecondPart
  <2>3. Len(s) + 0 = Len(s) /\ 0 + 1 = 1
    BY <1>1
  <2>4. DropFirst(t, 0) = t
    BY <2>3, SubSeqFull DEF DropFirst
  <2> QED
    BY <2>2, <2>3, <2>4 DEF Stream!Rest, DropFirst
<1> QED
  BY <1>2, <1>3

\* The line has entries only, and joining is associative.
LEMMA PendingType == TypeOK => /\ Outstanding \in Seq(Entry)
                               /\ nextMessage \in Seq(Entry)
                               /\ Pending \in Seq(Entry)
<1> SUFFICES ASSUME TypeOK
             PROVE  /\ Outstanding \in Seq(Entry)
                    /\ nextMessage \in Seq(Entry)
                    /\ Pending \in Seq(Entry)
  OBVIOUS
<1>1. /\ events \in Seq(Seq(Entry)) /\ blocked \in Seq(Seq(Entry))
      /\ nextMessage \in Seq(Entry) /\ <<>> \in Seq(Entry)
  BY EmptySeq DEF TypeOK, TableTypeOK, ServerTypeOK
<1>2. Outstanding \in Seq(Entry)
  BY <1>1, HeadTailProperties DEF Outstanding
<1> QED
  BY <1>1, <1>2, ConcatProperties DEF Pending

\* When the outstanding message m is destroyed, the line is what waited behind it.
LEMMA LineAfterDestruction ==
  ASSUME TypeOK, LogEntryMessageDestroyed(<<>>), blocked' = <<>>
  PROVE  Pending' = nextMessage
<1>1. nextMessage \in Seq(Entry) /\ <<>> \in Seq(Entry)
  BY EmptySeq DEF TypeOK, ServerTypeOK
<1>2. CASE SendNextMessage(<<>>)
  <2>1. events' = <<nextMessage>> /\ nextMessage' = <<>>
    BY <1>2 DEF SendNextMessage
  <2>2. <<nextMessage>> # <<>> /\ Head(<<nextMessage>>) = nextMessage
    OBVIOUS
  <2>3. Outstanding' = nextMessage
    BY <2>1, <2>2 DEF Outstanding
  <2> QED
    BY <1>1, <2>1, <2>3, ConcatEmptySeq DEF Pending
<1>3. CASE BecomeIdle(<<>>)
  <2>1. events' = <<>> /\ nextMessage' = <<>> /\ nextMessage = <<>>
    BY <1>3 DEF BecomeIdle
  <2>2. Outstanding' = <<>>
    BY <2>1 DEF Outstanding
  <2> QED
    BY <1>1, <2>1, <2>2, ConcatEmptySeq DEF Pending
<1> QED
  BY <1>2, <1>3 DEF LogEntryMessageDestroyed

\* Showing or dropping the outstanding message is a step of the stream.
LEMMA LeaveTheLine ==
  ASSUME TypeOK, Outstanding # <<>>, Pending' = nextMessage,
         UNCHANGED <<logEntryNumber, captureActive, maxEntries>>,
         \/ captureActive /\ table' = Inserted(table, Outstanding, maxEntries)
         \/ ~captureActive /\ table' = table
  PROVE  Stream!Next
<1>1. /\ Outstanding \in Seq(Entry) /\ nextMessage \in Seq(Entry)
      /\ table \in Seq(Entry) /\ maxEntries \in Nat
  BY PendingType DEF TypeOK, TableTypeOK
<1> DEFINE k == Len(Outstanding)
<1>2. Stream!First(Pending, k) = Outstanding /\ Stream!Rest(Pending, k) = nextMessage
  BY <1>1, SplitConcat DEF Pending
<1>3. k \in 1..Len(Pending)
  <2>1. Len(Outstanding) \in Nat /\ Len(nextMessage) \in Nat /\ Len(Outstanding) # 0
    BY <1>1, ShortSequences
  <2>2. Len(Pending) = Len(Outstanding) + Len(nextMessage)
    BY <1>1, ConcatProperties DEF Pending
  <2> QED
    BY <2>1, <2>2
<1>4. Inserted(table, Outstanding, maxEntries)
        = Stream!Newest(table \o Stream!First(Pending, k), maxEntries)
  BY <1>1, <1>2, InsertedIsNewest
<1> HIDE DEF k
<1>5. Stream!Show(k) \/ Stream!Drop(k)
  BY <1>2, <1>4 DEF Stream!Show, Stream!Drop
<1> QED
  BY <1>3, <1>5 DEF Stream!Next

\* Numbered entries joining the end of the line are a step of the stream.
LEMMA JoinTheLine ==
  ASSUME TypeOK, NEW batch \in Seq(Entry), Len(batch) # 0,
         \A i \in 1..Len(batch) : batch[i].number = logEntryNumber + i - 1,
         Pending' = Pending \o batch,
         logEntryNumber' = logEntryNumber + Len(batch),
         UNCHANGED <<table, captureActive, maxEntries>>
  PROVE  Stream!Next
<1>1. PICK p \in Seq(Entry) : p = Pending
  BY PendingType
<1>2. PICK q \in Seq(Entry) : q = Pending' /\ q = p \o batch
  BY <1>1, ConcatProperties
<1>3. Len(p) \in Nat /\ Len(batch) \in Nat /\ logEntryNumber \in Nat
  BY LenProperties DEF TypeOK, ServerTypeOK
<1>4. /\ Len(q) = Len(p) + Len(batch)
      /\ \A i \in 1..(Len(p) + Len(batch)) : q[i] = IF i <= Len(p) THEN p[i] ELSE batch[i - Len(p)]
  BY <1>2, ConcatProperties
<1>5. Stream!First(q, Len(p)) = p
  BY <1>2, SplitConcat
<1>6. ASSUME NEW i \in (Len(p) + 1)..Len(q)
      PROVE  q[i].number = logEntryNumber + (i - Len(p)) - 1
  <2>1. i \in 1..(Len(p) + Len(batch)) /\ ~(i <= Len(p)) /\ i - Len(p) \in 1..Len(batch)
    BY <1>3, <1>4
  <2>2. q[i] = batch[i - Len(p)]
    BY <1>4, <2>1
  <2> QED
    BY <2>1, <2>2
<1>7. Len(q) > Len(p) /\ Len(q) - Len(p) = Len(batch)
  BY <1>3, <1>4
<1>8. Stream!Accept
  BY <1>1, <1>2, <1>5, <1>6, <1>7 DEF Stream!Accept
<1> QED
  BY <1>8 DEF Stream!Next

\* Every step of the pipeline is a step of the stream or leaves it unchanged.
LEMMA StreamStep == IInv /\ [Next]_vars => [Stream!Next]_Stream!streamVars
<1> SUFFICES ASSUME IInv, [Next]_vars PROVE [Stream!Next]_Stream!streamVars
  OBVIOUS
<1>0. /\ TypeOK /\ TableTypeOK(Entry) /\ ServerTypeOK(Entry)
      /\ Idle \/ Posted \/ Held
  BY ThreePlaces DEF IInv, TypeOK
<1>1. ASSUME UNCHANGED <<tableVars, events, nextMessage, logEntryNumber>>
      PROVE  UNCHANGED Stream!streamVars
  BY <1>1 DEF Stream!streamVars, Pending, Outstanding, tableVars
<1>2. CASE StartModel
  BY <1>1, <1>2 DEF StartModel, StartEmiting
<1>3. ASSUME NEW r \in Receivers, NEW n \in 1..BatchSize, ReceiveEntries(r, n)
      PROVE  [Stream!Next]_Stream!streamVars
  <2>1. n \in Nat /\ n # 0
    BY PipelineAssumption
  <2>2. PICK batch \in Seq(Entry) : batch = Decoded(r, n) /\ Len(batch) = n
    BY <1>0, <2>1, DecodedProperties
  <2>3. PICK numbered \in Seq(Entry) :
          /\ numbered = Numbered(batch, logEntryNumber) /\ Len(numbered) = n
          /\ \A i \in 1..n : numbered[i].number = logEntryNumber + i - 1
    BY <1>0, <2>2, NumberedProperties DEF ServerTypeOK
  <2>4. NewEntryFromReceiver(batch) /\ UNCHANGED tableVars
    BY <1>3, <2>2 DEF ReceiveEntries
  <2>5. CASE DropEntries
    BY <1>1, <2>4, <2>5 DEF DropEntries, serverVars
  <2>6. ASSUME Pending' = Pending \o numbered, logEntryNumber' = logEntryNumber + n
        PROVE  Stream!Next
    BY <1>0, <2>1, <2>3, <2>4, <2>6, JoinTheLine DEF tableVars
  <2>7. CASE QueueEntries(batch)
    <3>1. /\ Outstanding' = Outstanding /\ nextMessage' = nextMessage \o numbered
          /\ logEntryNumber' = logEntryNumber + n
      BY <2>2, <2>3, <2>4, <2>7 DEF QueueEntries, Outstanding, tableVars
    <3>2. Outstanding \in Seq(Entry) /\ nextMessage \in Seq(Entry)
      BY <1>0, PendingType
    <3>3. Outstanding \o (nextMessage \o numbered) = (Outstanding \o nextMessage) \o numbered
      BY <3>2, ConcatAssociative, SMTT(30)
    <3>4. Pending' = Pending \o numbered
      BY <3>1, <3>3 DEF Pending
    <3> QED
      BY <2>6, <3>1, <3>4
  <2>8. CASE SendEntries(batch)
    <3>1. Idle
      BY <1>0, <2>8 DEF SendEntries, Posted, Held
    <3>2. /\ events' = <<numbered>> /\ nextMessage' = <<>> /\ blocked' = <<>>
          /\ logEntryNumber' = logEntryNumber + n
      BY <2>2, <2>3, <2>4, <2>8, <3>1 DEF SendEntries, Idle, tableVars
    <3>3. <<numbered>> # <<>> /\ Head(<<numbered>>) = numbered
      OBVIOUS
    <3>4. Outstanding' = numbered /\ Outstanding = <<>> /\ nextMessage = <<>>
      BY <3>1, <3>2, <3>3 DEF Outstanding, Idle
    <3>5. numbered \o <<>> = numbered /\ <<>> \o numbered = numbered /\ <<>> \o <<>> = <<>>
      BY ConcatEmptySeq, EmptySeq
    <3> QED
      BY <2>6, <3>2, <3>4, <3>5 DEF Pending
  <2> QED
    BY <2>4, <2>5, <2>7, <2>8, <2>6, <1>1 DEF NewEntryFromReceiver
<1>4. CASE DeliverAndRelease
  <2>1. Posted
    BY <1>0, <1>4 DEF DeliverAndRelease, Idle, Held
  <2>2. blocked' = <<>> /\ LogEntryMessageDestroyed(<<>>)
    BY <1>4, <2>1 DEF DeliverAndRelease, DropMessage, StoreMessage, tableVars, Posted
  <2>3. Pending' = nextMessage
    BY <1>0, <2>2, LineAfterDestruction
  <2>4. UNCHANGED <<logEntryNumber, captureActive, maxEntries>>
    BY <1>4, <2>2 DEF DeliverAndRelease, DropMessage, StoreMessage, tableVars,
                      LogEntryMessageDestroyed, SendNextMessage, BecomeIdle
  <2>5. \/ captureActive /\ table' = Inserted(table, Outstanding, maxEntries)
        \/ ~captureActive /\ table' = table
    BY <1>0, <1>4, <2>1
    DEF DeliverAndRelease, DropMessage, StoreMessage, Stores, tableVars, Posted
  <2> QED
    BY <1>0, <2>1, <2>3, <2>4, <2>5, LeaveTheLine DEF Posted
<1>5. CASE DeliverAndHold
  <2>1. Posted
    BY <1>0, <1>5 DEF DeliverAndHold, Idle, Held
  <2>2. PICK m \in Seq(Entry) : m = Head(events)
    BY <1>0, <2>1, HeadTailProperties DEF ServerTypeOK, Posted
  <2>3. /\ events' = <<>> /\ blocked' = <<m>>
        /\ UNCHANGED <<table, captureActive, maxEntries, serverVars>>
    BY <1>5, <2>1, <2>2 DEF DeliverAndHold, BlockMessage, Posted
  <2>4. <<m>> # <<>> /\ Head(<<m>>) = m
    OBVIOUS
  <2>5. Outstanding' = m /\ Outstanding = m
    BY <2>1, <2>2, <2>3, <2>4 DEF Outstanding, Posted
  <2> QED
    BY <2>3, <2>5 DEF Stream!streamVars, Pending, serverVars
<1>6. CASE OpenMenu
  BY <1>6 DEF OpenMenu, BeginBlockItems, serverVars, Stream!streamVars, Pending, Outstanding
<1>7. CASE CloseMenu
  BY <1>7 DEF CloseMenu, EndBlockItems, serverVars, Stream!streamVars, Pending, Outstanding
<1>8. CASE DrainBlocked
  <2>1. Held
    BY <1>0, <1>8 DEF DrainBlocked, DrainMessage, Draining, Idle, Posted
  <2>2. blocked' = <<>> /\ LogEntryMessageDestroyed(<<>>)
    BY <1>8, <2>1 DEF DrainBlocked, DrainMessage, Held
  <2>3. Pending' = nextMessage
    BY <1>0, <2>2, LineAfterDestruction
  <2>4. UNCHANGED <<logEntryNumber, captureActive, maxEntries>>
    BY <1>8, <2>2 DEF DrainBlocked, DrainMessage,
                      LogEntryMessageDestroyed, SendNextMessage, BecomeIdle
  <2>5. \/ captureActive /\ table' = Inserted(table, Outstanding, maxEntries)
        \/ ~captureActive /\ table' = table
    BY <1>0, <1>8, <2>1 DEF DrainBlocked, DrainMessage, Draining, Stores, Held
  <2> QED
    BY <1>0, <2>1, <2>3, <2>4, <2>5, LeaveTheLine DEF Held
<1>9. CASE UserAction
  <2>1. UNCHANGED <<logEntryNumber, nextMessage, events>>
    BY <1>9 DEF UserAction, serverVars
  <2>2. CASE ClearTable
    BY <2>1, <2>2 DEF ClearTable, Pending, Outstanding, Stream!Clear, Stream!Next
  <2>3. ASSUME NEW active \in BOOLEAN, Capture(active) PROVE Stream!Next
    BY <2>1, <2>3 DEF Capture, Pending, Outstanding, Stream!SwitchCapture, Stream!Next
  <2>4. ASSUME NEW max \in Limits, SetMaxEntries(max) PROVE Stream!Next
    <3>1. max \in Nat
      BY PipelineAssumption
    <3> QED
      BY <2>1, <2>4, <3>1 DEF SetMaxEntries, Pending, Outstanding, Stream!ChangeLimit, Stream!Next
  <2> QED
    BY <1>9, <2>2, <2>3, <2>4 DEF UserAction
<1>10. CASE UNCHANGED vars
  BY <1>1, <1>10 DEF vars, serverVars
<1> QED
  BY <1>2, <1>3, <1>4, <1>5, <1>6, <1>7, <1>8, <1>9, <1>10 DEF Next, Deliver

\* The pipeline implements the abstract stream, for every instance: from the socket
\* servers through the event queue, the blocked messages and the limit to the rows,
\* accepted entries are neither lost nor doubled nor reordered.
THEOREM Implementation == Spec => ImplementsStream
<1>1. Init => Stream!Init
  <2>1. <<>> \o <<>> = <<>>
    BY ConcatEmptySeq, EmptySeq
  <2> QED
    BY <2>1 DEF Init, TableInit, ServerInit, Pending, Outstanding, Stream!Init
<1> QED
  BY <1>1, StreamStep, InductiveInvariant, PTL DEF Spec, ImplementsStream, Stream!Spec

-----------------------------------------------------------------------------
(***************************************************************************)
(* The number column.                                                      *)
(***************************************************************************)

\* Numbers grow along s and stay below b.
Upgrowing(s, b) ==
  /\ \A i, j \in 1..Len(s) : i < j => s[i].number < s[j].number
  /\ \A i \in 1..Len(s) : s[i].number < b

\* The line carries the numbers from b up to n, the rows smaller ones.
OrderedFrom(b, rows, line, n) ==
  /\ b + Len(line) = n
  /\ Upgrowing(rows, b)
  /\ \A i \in 1..Len(line) : line[i].number = b + i - 1

Ordered(rows, line, n) == \E b \in Nat : OrderedFrom(b, rows, line, n)

LEMMA EntryNumbers ==
  ASSUME NEW s \in Seq(Entry)
  PROVE  Len(s) \in Nat /\ \A i \in 1..Len(s) : s[i].number \in Nat
<1>1. Len(s) \in Nat /\ \A i \in 1..Len(s) : s[i] \in Entry
  BY LenProperties
<1> QED
  BY <1>1 DEF Entry

\* Keeping the newest rows keeps the order.
LEMMA NewestUpgrowing ==
  ASSUME NEW s \in Seq(Entry), NEW b \in Nat, NEW max \in Nat, Upgrowing(s, b)
  PROVE  Upgrowing(Stream!Newest(s, max), b)
<1>1. CASE max = 0 \/ Len(s) <= max
  BY <1>1 DEF Stream!Newest
<1>2. CASE max # 0 /\ Len(s) > max
  <2>0. Len(s) \in Nat
    BY LenProperties
  <2>1. PICK k \in 0..Len(s) : k = Len(s) - max
    <3>1. \A l, m \in Nat : l > m => l - m \in 0..l
      OBVIOUS
    <3> QED
      BY <1>2, <2>0, <3>1
  <2>2. PICK d \in Seq(Entry) : d = DropFirst(s, k)
    BY DropFirstProperties
  <2>3. /\ Len(s) \in Nat /\ Len(d) = Len(s) - k
        /\ \A i \in 1..(Len(s) - k) : d[i] = s[i + k]
    BY <2>2, DropFirstProperties, LenProperties
  <2>4. \A i \in 1..Len(d) : i + k \in 1..Len(s) /\ d[i] = s[i + k]
    BY <2>3
  <2>5. \A i, j \in 1..Len(d) : i < j => i + k < j + k
    BY <2>3
  <2>6. Upgrowing(d, b)
    BY <2>4, <2>5 DEF Upgrowing
  <2>7. Stream!Newest(s, max) = d
    BY <1>2, <2>1, <2>2, LenProperties DEF Stream!Newest, Stream!Rest, DropFirst
  <2> QED
    BY <2>6, <2>7
<1>3. Len(s) \in Nat
  BY LenProperties
<1> QED
  BY <1>1, <1>2, <1>3

\* Rows followed by the front of the line are in order.
LEMMA ConcatUpgrowing ==
  ASSUME NEW s \in Seq(Entry), NEW t \in Seq(Entry), NEW a \in Nat, NEW b \in Nat,
         Upgrowing(s, a), Upgrowing(t, b), a <= b,
         \A i \in 1..Len(t) : a <= t[i].number
  PROVE  Upgrowing(s \o t, b)
<1>1. PICK c \in Seq(Entry) : c = s \o t
  BY ConcatProperties
<1>2. /\ Len(s) \in Nat /\ Len(t) \in Nat /\ Len(c) = Len(s) + Len(t)
      /\ \A i \in 1..(Len(s) + Len(t)) : c[i] = IF i <= Len(s) THEN s[i] ELSE t[i - Len(s)]
  BY <1>1, ConcatProperties, LenProperties
<1>3. /\ \A i \in 1..Len(s) : s[i].number \in Nat
      /\ \A i \in 1..Len(t) : t[i].number \in Nat
  BY EntryNumbers
<1>4. \A i \in 1..Len(c) :
        \/ i \in 1..Len(s) /\ c[i] = s[i]
        \/ i > Len(s) /\ i - Len(s) \in 1..Len(t) /\ c[i] = t[i - Len(s)]
  BY <1>2
<1>5. \A i \in 1..Len(c) : c[i].number < b
  BY <1>3, <1>4 DEF Upgrowing
<1>6. ASSUME NEW i \in 1..Len(c), NEW j \in 1..Len(c), i < j
      PROVE  c[i].number < c[j].number
  <2>1. CASE i \in 1..Len(s) /\ j \in 1..Len(s) /\ c[i] = s[i] /\ c[j] = s[j]
    BY <1>6, <2>1 DEF Upgrowing
  <2>2. CASE i \in 1..Len(s) /\ c[i] = s[i] /\ j - Len(s) \in 1..Len(t) /\ c[j] = t[j - Len(s)]
    <3>1. s[i].number < a /\ a <= t[j - Len(s)].number
      BY <2>2 DEF Upgrowing
    <3>2. s[i].number \in Nat /\ t[j - Len(s)].number \in Nat
      BY <1>3, <2>2
    <3> QED
      BY <2>2, <3>1, <3>2
  <2>3. CASE /\ i - Len(s) \in 1..Len(t) /\ c[i] = t[i - Len(s)]
             /\ j - Len(s) \in 1..Len(t) /\ c[j] = t[j - Len(s)]
    <3>1. i - Len(s) < j - Len(s)
      BY <1>2, <1>6
    <3> QED
      BY <2>3, <3>1 DEF Upgrowing
  <2> QED
    BY <1>2, <1>4, <1>6, <2>1, <2>2, <2>3
<1> QED
  BY <1>1, <1>5, <1>6 DEF Upgrowing

\* The line's numbers, in the two forms the property and Ordered use.
LEMMA LineNumbers ==
  ASSUME NEW line \in Seq(Entry), NEW n \in Nat, NEW b \in Nat, b + Len(line) = n
  PROVE  \A i \in 1..Len(line) :
           line[i].number + Len(line) + 1 = n + i <=> line[i].number = b + i - 1
<1>1. PICK l \in Nat : l = Len(line)
  BY LenProperties
<1>2. \A x \in Nat, i \in 1..l : x + l + 1 = n + i <=> x = b + i - 1
  BY <1>1
<1>3. \A i \in 1..l : line[i].number \in Nat
  BY <1>1, EntryNumbers
<1> QED
  BY <1>1, <1>2, <1>3

LEMMA RowNumbers ==
  ASSUME NEW rows \in Seq(Entry), NEW l \in Nat, NEW n \in Nat, NEW b \in Nat, b + l = n
  PROVE  \A i \in 1..Len(rows) : rows[i].number + l < n <=> rows[i].number < b
<1>1. \A x \in Nat : x + l < n <=> x < b
  OBVIOUS
<1>2. \A i \in 1..Len(rows) : rows[i].number \in Nat
  BY EntryNumbers
<1> QED
  BY <1>1, <1>2

\* The property, in terms of Ordered.
LEMMA NumbersOrdered ==
  TypeOK => (NumbersUpgrowing <=> Ordered(table, Pending, logEntryNumber))
<1> SUFFICES ASSUME TypeOK
             PROVE  NumbersUpgrowing <=> Ordered(table, Pending, logEntryNumber)
  OBVIOUS
<1>1. table \in Seq(Entry) /\ Pending \in Seq(Entry) /\ logEntryNumber \in Nat
  BY PendingType DEF TypeOK, TableTypeOK, ServerTypeOK
<1>2. /\ DOMAIN table = 1..Len(table) /\ DOMAIN Pending = 1..Len(Pending)
      /\ Len(Pending) \in Nat
  BY <1>1, LenProperties
<1>3. ASSUME NumbersUpgrowing PROVE Ordered(table, Pending, logEntryNumber)
  <2>1. Len(Pending) <= logEntryNumber
    <3>1. CASE Len(Pending) = 0
      BY <1>1, <3>1
    <3>2. CASE Len(Pending) # 0
      <4>1. 1 \in 1..Len(Pending)
        BY <1>2, <3>2
      <4>2. Pending[1].number + Len(Pending) + 1 = logEntryNumber + 1
        BY <1>2, <1>3, <4>1 DEF NumbersUpgrowing
      <4>3. Pending[1].number \in Nat
        BY <1>1, <4>1, EntryNumbers
      <4>4. \A x, l, n \in Nat : x + l + 1 = n + 1 => l <= n
        OBVIOUS
      <4> QED
        BY <1>1, <1>2, <4>2, <4>3, <4>4
    <3> QED
      BY <3>1, <3>2
  <2>2. PICK b \in Nat : b + Len(Pending) = logEntryNumber
    <3>1. \A l, n \in Nat : l <= n => \E b \in Nat : b + l = n
      <4>1. \A l, n \in Nat : l <= n => n - l \in Nat /\ (n - l) + l = n
        OBVIOUS
      <4> QED
        BY <4>1
    <3> QED
      BY <1>1, <1>2, <2>1, <3>1
  <2>3. \A i \in 1..Len(Pending) : Pending[i].number = b + i - 1
    BY <1>1, <1>2, <1>3, <2>2, LineNumbers DEF NumbersUpgrowing
  <2>4. \A i \in 1..Len(table) : table[i].number < b
    BY <1>1, <1>2, <1>3, <2>2, RowNumbers DEF NumbersUpgrowing
  <2>5. Upgrowing(table, b)
    BY <1>2, <1>3, <2>4 DEF NumbersUpgrowing, Upgrowing
  <2> QED
    BY <2>2, <2>3, <2>5 DEF Ordered, OrderedFrom
<1>4. ASSUME Ordered(table, Pending, logEntryNumber) PROVE NumbersUpgrowing
  <2>1. PICK b \in Nat : OrderedFrom(b, table, Pending, logEntryNumber)
    BY <1>4 DEF Ordered
  <2>2. \A i \in 1..Len(Pending) : Pending[i].number + Len(Pending) + 1 = logEntryNumber + i
    BY <1>1, <2>1, LineNumbers DEF OrderedFrom
  <2>3. \A i \in 1..Len(table) : table[i].number + Len(Pending) < logEntryNumber
    BY <1>1, <1>2, <2>1, RowNumbers DEF OrderedFrom, Upgrowing
  <2>4. \A i, j \in 1..Len(table) : i < j => table[i].number < table[j].number
    BY <2>1 DEF OrderedFrom, Upgrowing
  <2> QED
    BY <1>2, <2>2, <2>3, <2>4 DEF NumbersUpgrowing
<1> QED
  BY <1>3, <1>4

\* Showing the first k entries of the line, or dropping them, keeps the order.
LEMMA LeavingKeepsOrder ==
  ASSUME NEW rows \in Seq(Entry), NEW line \in Seq(Entry), NEW n \in Nat, NEW max \in Nat,
         NEW k \in 1..Len(line), Ordered(rows, line, n)
  PROVE  /\ Ordered(Stream!Newest(rows \o Stream!First(line, k), max), Stream!Rest(line, k), n)
         /\ Ordered(rows, Stream!Rest(line, k), n)
<1>1. PICK b \in Nat : OrderedFrom(b, rows, line, n)
  BY DEF Ordered
<1>2. Len(line) \in Nat /\ k \in Nat /\ k \in 0..Len(line) /\ b + k \in Nat /\ b <= b + k
  BY LenProperties
<1>3. PICK rest \in Seq(Entry) : rest = DropFirst(line, k)
  BY <1>2, DropFirstProperties
<1>4. /\ rest = Stream!Rest(line, k)
      /\ Len(rest) = Len(line) - k
      /\ \A i \in 1..(Len(line) - k) : rest[i] = line[i + k]
  BY <1>2, <1>3, DropFirstProperties DEF DropFirst, Stream!Rest
<1>5. \A i \in 1..Len(rest) : rest[i].number = (b + k) + i - 1
  <2>1. \A i \in 1..Len(rest) : i + k \in 1..Len(line) /\ rest[i] = line[i + k]
    BY <1>2, <1>4
  <2>2. \A i \in 1..Len(rest) : rest[i].number = b + (i + k) - 1
    BY <1>1, <2>1 DEF OrderedFrom
  <2> QED
    BY <1>2, <1>4, <2>2
<1>6. (b + k) + Len(rest) = n
  <2>1. \A l, m \in Nat : m <= l => (b + m) + (l - m) = b + l
    OBVIOUS
  <2>2. b + Len(line) = n
    BY <1>1 DEF OrderedFrom
  <2>3. k <= Len(line)
    BY <1>2
  <2> QED
    BY <1>2, <1>4, <2>1, <2>2, <2>3
<1>7. PICK front \in Seq(Entry) : /\ front = Stream!First(line, k)
                                  /\ Len(front) = k
                                  /\ \A i \in 1..k : front[i] = line[i]
  <2>1. \A i \in 1..k : line[i] \in Entry
    BY <1>2, LenProperties
  <2>2. /\ SubSeq(line, 1, k) \in Seq(Entry)
        /\ Len(SubSeq(line, 1, k)) = IF 1 <= k THEN k - 1 + 1 ELSE 0
        /\ \A i \in 1..(k - 1 + 1) : SubSeq(line, 1, k)[i] = line[1 + i - 1]
    BY <1>2, <2>1, SubSeqProperties
  <2>3. k - 1 + 1 = k /\ 1 <= k /\ \A i \in 1..k : 1 + i - 1 = i
    BY <1>2
  <2>4. /\ Stream!First(line, k) \in Seq(Entry)
        /\ Len(Stream!First(line, k)) = k
        /\ \A i \in 1..k : Stream!First(line, k)[i] = line[i]
    BY <2>2, <2>3 DEF Stream!First
  <2> QED
    BY <2>4
<1>8. \A i \in 1..Len(front) : front[i].number = b + i - 1
  <2>1. \A i \in 1..Len(front) : i \in 1..Len(line) /\ front[i] = line[i]
    BY <1>2, <1>7
  <2> QED
    BY <1>1, <2>1 DEF OrderedFrom
<1>9. Upgrowing(front, b + k) /\ \A i \in 1..Len(front) : b <= front[i].number
  BY <1>2, <1>7, <1>8 DEF Upgrowing
<1>10. Upgrowing(rows, b)
  BY <1>1 DEF OrderedFrom
<1>11. rows \o front \in Seq(Entry) /\ Upgrowing(rows \o front, b + k)
  BY <1>2, <1>9, <1>10, ConcatProperties, ConcatUpgrowing
<1>12. Upgrowing(Stream!Newest(rows \o front, max), b + k)
  BY <1>2, <1>11, NewestUpgrowing
<1>13. Upgrowing(rows, b + k)
  <2>1. \A i \in 1..Len(rows) : rows[i].number \in Nat
    BY EntryNumbers
  <2> QED
    BY <1>2, <1>10, <2>1 DEF Upgrowing
<1>14. OrderedFrom(b + k, rows, rest, n)
  BY <1>5, <1>6, <1>13 DEF OrderedFrom
<1>15. OrderedFrom(b + k, Stream!Newest(rows \o front, max), rest, n)
  BY <1>5, <1>6, <1>12 DEF OrderedFrom
<1> QED
  BY <1>2, <1>4, <1>7, <1>14, <1>15 DEF Ordered

\* New entries join the line under the next free numbers.
LEMMA JoiningKeepsOrder ==
  ASSUME NEW rows \in Seq(Entry), NEW line \in Seq(Entry), NEW n \in Nat,
         NEW longer \in Seq(Entry), NEW next \in Nat,
         Ordered(rows, line, n),
         Len(longer) > Len(line),
         Stream!First(longer, Len(line)) = line,
         \A i \in (Len(line) + 1)..Len(longer) :
           longer[i].number = n + (i - Len(line)) - 1,
         next = n + (Len(longer) - Len(line))
  PROVE  Ordered(rows, longer, next)
<1>1. PICK b \in Nat : OrderedFrom(b, rows, line, n)
  BY DEF Ordered
<1>2. PICK l \in Nat : l = Len(line)
  BY LenProperties
<1>3. PICK m \in Nat : m = Len(longer)
  BY LenProperties
<1>4. l < m /\ next = n + (m - l)
  BY <1>2, <1>3
<1>5. b + l = n
  BY <1>1, <1>2 DEF OrderedFrom
<1>6. b + m = next
  BY <1>4, <1>5
<1>7. \A i \in 1..l : line[i].number = b + i - 1
  BY <1>1, <1>2 DEF OrderedFrom
<1>8. \A i \in (l + 1)..m : longer[i].number = n + (i - l) - 1
  BY <1>2, <1>3
<1>9. \A i \in 1..l : longer[i] = line[i]
  <2>1. \A i \in 1..l : longer[i] \in Entry
    BY <1>3, <1>4, LenProperties
  <2>2. \A i \in 1..(l - 1 + 1) : SubSeq(longer, 1, l)[i] = longer[1 + i - 1]
    BY <2>1, SubSeqProperties
  <2>3. l - 1 + 1 = l /\ \A i \in 1..l : 1 + i - 1 = i
    OBVIOUS
  <2>4. SubSeq(longer, 1, l) = line
    BY <1>2 DEF Stream!First
  <2> QED
    BY <2>2, <2>3, <2>4
<1>10. ASSUME NEW i \in 1..m PROVE longer[i].number = b + i - 1
  <2>1. CASE i <= l
    <3>1. i \in 1..l
      BY <2>1
    <3> QED
      BY <1>7, <1>9, <3>1
  <2>2. CASE ~(i <= l)
    <3>1. i \in (l + 1)..m
      BY <2>2
    <3>2. n + (i - l) - 1 = b + i - 1
      BY <1>5
    <3> QED
      BY <1>8, <3>1, <3>2
  <2> QED
    BY <2>1, <2>2
<1>11. Upgrowing(rows, b)
  BY <1>1 DEF OrderedFrom
<1>12. OrderedFrom(b, rows, longer, next)
  BY <1>3, <1>6, <1>10, <1>11 DEF OrderedFrom
<1> QED
  BY <1>12 DEF Ordered

\* Every step of the abstract stream keeps the order.
LEMMA OrderStep ==
  ASSUME table \in Seq(Entry), Pending \in Seq(Entry), logEntryNumber \in Nat,
         maxEntries \in Nat,
         table' \in Seq(Entry), Pending' \in Seq(Entry), logEntryNumber' \in Nat,
         Ordered(table, Pending, logEntryNumber),
         [Stream!Next]_(Stream!streamVars)
  PROVE  Ordered(table', Pending', logEntryNumber')
<1>1. CASE Stream!Accept
  <2>1. /\ Len(Pending') > Len(Pending)
        /\ Stream!First(Pending', Len(Pending)) = Pending
        /\ \A i \in (Len(Pending) + 1)..Len(Pending') :
             Pending'[i].number = logEntryNumber + (i - Len(Pending)) - 1
        /\ logEntryNumber' = logEntryNumber + (Len(Pending') - Len(Pending))
        /\ table' = table
    BY <1>1 DEF Stream!Accept
  <2> QED
    BY <2>1, JoiningKeepsOrder
<1>2. ASSUME NEW k \in 1..Len(Pending), Stream!Show(k) \/ Stream!Drop(k)
      PROVE  Ordered(table', Pending', logEntryNumber')
  BY <1>2, LeavingKeepsOrder DEF Stream!Show, Stream!Drop
<1>3. CASE Stream!Clear
  <2>1. PICK b \in Nat : OrderedFrom(b, table, Pending, logEntryNumber)
    BY DEF Ordered
  <2>2. Upgrowing(<<>>, b)
    BY EmptySeq DEF Upgrowing
  <2>3. OrderedFrom(b, <<>>, Pending, logEntryNumber)
    BY <2>1, <2>2 DEF OrderedFrom
  <2> QED
    BY <1>3, <2>3 DEF Stream!Clear, Ordered
<1>4. CASE Stream!SwitchCapture \/ Stream!ChangeLimit
  BY <1>4 DEF Stream!SwitchCapture, Stream!ChangeLimit
<1>5. CASE UNCHANGED Stream!streamVars
  BY <1>5 DEF Stream!streamVars
<1> QED
  BY <1>1, <1>2, <1>3, <1>4, <1>5 DEF Stream!Next

\* The number column grows from row to row, for every instance: the order survives
\* every step of the abstract stream, which the pipeline implements.
THEOREM NumberColumn == Spec => []NumbersUpgrowing
<1>1. Init => NumbersUpgrowing
  <2>1. <<>> \o <<>> = <<>> /\ DOMAIN <<>> = {}
    BY ConcatEmptySeq, EmptySeq
  <2> QED
    BY <2>1 DEF Init, TableInit, ServerInit, Pending, Outstanding, NumbersUpgrowing
<1>2. TypeOK /\ TypeOK' /\ NumbersUpgrowing /\ [Stream!Next]_(Stream!streamVars)
        => NumbersUpgrowing'
  <2> SUFFICES ASSUME TypeOK, TypeOK', NumbersUpgrowing, [Stream!Next]_(Stream!streamVars)
               PROVE  NumbersUpgrowing'
    OBVIOUS
  <2>1. /\ table \in Seq(Entry) /\ Pending \in Seq(Entry) /\ logEntryNumber \in Nat
        /\ maxEntries \in Nat
    BY PendingType DEF TypeOK, TableTypeOK, ServerTypeOK
  <2>2. table' \in Seq(Entry) /\ Pending' \in Seq(Entry) /\ logEntryNumber' \in Nat
    <3>1. (TypeOK => Pending \in Seq(Entry))'
      BY PendingType, PTL
    <3> QED
      BY <3>1 DEF TypeOK, TableTypeOK, ServerTypeOK, Entry
  <2>3. Ordered(table, Pending, logEntryNumber)
    BY NumbersOrdered
  <2>4. Ordered(table', Pending', logEntryNumber')
    BY <2>1, <2>2, <2>3, OrderStep
  <2>5. (TypeOK => (NumbersUpgrowing <=> Ordered(table, Pending, logEntryNumber)))'
    BY NumbersOrdered, PTL
  <2> QED
    BY <2>4, <2>5
<1> QED
  BY <1>1, <1>2, TypeCorrect, Implementation, PTL DEF Spec, ImplementsStream, Stream!Spec
=============================================================================
