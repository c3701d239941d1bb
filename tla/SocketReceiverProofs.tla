------------------------ MODULE SocketReceiverProofs ------------------------
(***************************************************************************)
(* Theorems about SocketReceiver, for any header size, limit, payload      *)
(* sizes and number of frames, and wherever the stream is cut.             *)
(*                                                                         *)
(* The receiver knows where it is in the stream by two numbers only, the   *)
(* size of its buffer and what is still missing of it.  The invariant says *)
(* that together they point to the header or the payload of one frame.     *)
(***************************************************************************)
EXTENDS SocketReceiver, SequenceTheorems, TLAPS

\* The offset of frame f, or the end of the stream behind the last one.
Start(f) == IF f \in DOMAIN frames THEN frames[f].at ELSE SentBytes

\* The frames lie one behind the other.
Consecutive ==
  /\ \A f \in DOMAIN frames : End(f) <= SentBytes
  /\ \A f, g \in DOMAIN frames : f < g => End(f) <= frames[g].at
  /\ \A f \in DOMAIN frames : Start(f + 1) = End(f)
  /\ SentBytes \in Nat

\* What is read has arrived, what arrives has been sent.
Flow == consumed <= arrived /\ arrived <= SentBytes

\* The buffer takes the header of frame f.
AtHeader(f) ==
  /\ stateReadSize /\ bytesNeeded > 0
  /\ capacity = HeaderSize /\ Front = Start(f)

\* The buffer takes the payload of frame f.
InPayload(f) ==
  /\ ~stateReadSize /\ bytesNeeded > 0
  /\ f \in DOMAIN frames /\ frames[f].size \in 1..MaxSize
  /\ capacity = frames[f].size /\ Front = frames[f].at + HeaderSize

\* The size of frame f has ended the connection.
Rejected(f) ==
  /\ ~open /\ ~running
  /\ f \in DOMAIN frames /\ frames[f].size > MaxSize
  /\ capacity = HeaderSize /\ consumed = frames[f].at + HeaderSize

\* The receiver is at frame f, and has made its entries of the frames before it.
IsAt(f) ==
  /\ AtHeader(f) \/ InPayload(f) \/ Rejected(f)
  /\ \A g \in 1..(f - 1) : frames[g].size <= MaxSize
  /\ \A g \in Nat : (\E i \in 1..Len(Decoded) : Decoded[i] = g)
                      <=> g \in 1..(f - 1) /\ frames[g].size > 0

InOrder == \A i, j \in 1..Len(Decoded) : i < j => Decoded[i] < Decoded[j]

\* The inductive invariant.
IInv ==
  /\ TypeOK
  /\ Consecutive
  /\ Flow
  /\ \E f \in 1..(Len(frames) + 1) : IsAt(f)
  /\ InOrder
  /\ ~running => entries = <<>>

-----------------------------------------------------------------------------
\* Type facts that the steps need again and again.
LEMMA Types ==
  ASSUME TypeOK
  PROVE  /\ Len(frames) \in Nat /\ DOMAIN frames = 1..Len(frames)
         /\ \A f \in DOMAIN frames : frames[f].at \in Nat /\ frames[f].size \in Nat
         /\ \A f \in DOMAIN frames : End(f) \in Nat
         /\ arrived \in Nat /\ consumed \in Nat /\ capacity \in Nat
         /\ bytesNeeded \in Nat /\ bytesNeeded <= capacity
         /\ HeaderSize \in Nat /\ HeaderSize > 0 /\ MaxSize \in Nat /\ HeaderSize <= MaxSize
         /\ Decoded \in Seq(Nat) /\ Len(Decoded) \in Nat
         /\ \A i \in 1..Len(Decoded) : Decoded[i] \in Nat
<1>1. /\ Len(frames) \in Nat /\ DOMAIN frames = 1..Len(frames)
      /\ \A f \in DOMAIN frames : frames[f] \in Frame
  BY LenProperties DEF TypeOK
<1>2. \A f \in DOMAIN frames : frames[f].at \in Nat /\ frames[f].size \in Nat
  BY <1>1 DEF Frame
<1>3. HeaderSize \in Nat /\ HeaderSize > 0 /\ MaxSize \in Nat /\ HeaderSize <= MaxSize
  BY ReceiverAssumption
<1>4. \A f \in DOMAIN frames : End(f) \in Nat
  BY <1>2, <1>3 DEF End
<1>5. Decoded \in Seq(Nat) /\ Len(Decoded) \in Nat
  BY ConcatProperties, LenProperties DEF TypeOK, Decoded
<1>6. \A i \in 1..Len(Decoded) : Decoded[i] \in Nat
  BY <1>5
<1> QED
  BY <1>1, <1>2, <1>3, <1>4, <1>5, <1>6 DEF TypeOK

\* A buffer that is filled ends where the next byte is due.
LEMMA Filled ==
  ASSUME TypeOK, Completes
  PROVE  /\ ToRead = bytesNeeded /\ bytesNeeded \in Nat
         /\ consumed + bytesNeeded <= arrived
         /\ consumed < arrived
         /\ Front + capacity = consumed + bytesNeeded
<1>1. /\ arrived \in Nat /\ consumed \in Nat /\ capacity \in Nat /\ bytesNeeded \in Nat
  BY Types
<1> QED
  BY <1>1 DEF Completes, ToRead, Available, Least, Front

\* A header that is complete is that of the frame the receiver is at.
LEMMA HeaderIsRead ==
  ASSUME IInv, NEW f \in 1..(Len(frames) + 1), IsAt(f), Completes, stateReadSize
  PROVE  /\ f \in DOMAIN frames
         /\ AnnouncedSizes = {frames[f].size}
         /\ consumed + ToRead = frames[f].at + HeaderSize
         /\ capacity = HeaderSize
<1>1. TypeOK /\ AtHeader(f)
  BY DEF IInv, IsAt, InPayload, Rejected, Completes
<1>2. /\ Len(frames) \in Nat /\ DOMAIN frames = 1..Len(frames)
      /\ \A g \in DOMAIN frames : frames[g].at \in Nat /\ frames[g].size \in Nat
      /\ \A g \in DOMAIN frames : End(g) \in Nat
      /\ arrived \in Nat /\ consumed \in Nat
      /\ HeaderSize \in Nat /\ HeaderSize > 0
  BY <1>1, Types
<1>3. /\ ToRead = bytesNeeded /\ bytesNeeded \in Nat /\ consumed + bytesNeeded <= arrived
      /\ consumed < arrived /\ Front + HeaderSize = consumed + bytesNeeded
  BY <1>1, Filled DEF AtHeader
<1>4. Front \in Int /\ Front <= consumed
  BY <1>1, <1>2, <1>3 DEF AtHeader, Front, TypeOK
<1>5. f \in DOMAIN frames
  <2> SUFFICES ASSUME f \notin DOMAIN frames PROVE FALSE
    OBVIOUS
  <2>1. Front = SentBytes
    BY <1>1 DEF AtHeader, Start
  <2>2. arrived <= SentBytes /\ SentBytes \in Nat
    BY DEF IInv, Flow, Consecutive
  <2> QED
    BY <1>2, <1>3, <1>4, <2>1, <2>2
<1>6. Front = frames[f].at
  BY <1>1, <1>5 DEF AtHeader, Start
<1>7. ASSUME NEW g \in DOMAIN frames, frames[g].at = Front PROVE g = f
  <2>1. g < f => End(g) <= frames[f].at
    BY <1>5 DEF IInv, Consecutive
  <2>2. f < g => End(f) <= frames[g].at
    BY <1>5 DEF IInv, Consecutive
  <2>3. End(f) = frames[f].at + HeaderSize + frames[f].size
    BY DEF End
  <2>4. End(g) = frames[g].at + HeaderSize + frames[g].size
    BY DEF End
  <2> QED
    BY <1>2, <1>5, <1>6, <1>7, <2>1, <2>2, <2>3, <2>4
<1>8. {g \in DOMAIN frames : frames[g].at = Front /\ capacity = HeaderSize} = {f}
  BY <1>1, <1>5, <1>6, <1>7 DEF AtHeader
<1>9. AnnouncedSizes = {frames[f].size}
  BY <1>8 DEF AnnouncedSizes
<1> QED
  BY <1>1, <1>3, <1>5, <1>6, <1>9 DEF AtHeader

\* A payload that is complete is that of the frame the receiver is at, and becomes its entry.
LEMMA PayloadIsRead ==
  ASSUME IInv, NEW f \in 1..(Len(frames) + 1), IsAt(f), Completes, ~stateReadSize
  PROVE  /\ f \in DOMAIN frames
         /\ frames[f].size \in 1..MaxSize
         /\ BufferToEntry = f
         /\ consumed + ToRead = End(f)
<1>1. TypeOK /\ InPayload(f)
  BY DEF IInv, IsAt, AtHeader, Rejected, Completes
<1>2. /\ Len(frames) \in Nat /\ DOMAIN frames = 1..Len(frames)
      /\ \A g \in DOMAIN frames : frames[g].at \in Nat /\ frames[g].size \in Nat
      /\ \A g \in DOMAIN frames : End(g) \in Nat
      /\ HeaderSize \in Nat /\ HeaderSize > 0 /\ MaxSize \in Nat
  BY <1>1, Types
<1>3. /\ f \in DOMAIN frames /\ frames[f].size \in 1..MaxSize
      /\ capacity = frames[f].size /\ Front = frames[f].at + HeaderSize
  BY <1>1 DEF InPayload
<1>4. ToRead = bytesNeeded /\ Front + capacity = consumed + bytesNeeded
  BY <1>1, Filled
<1>5. ASSUME NEW g \in DOMAIN frames, frames[g].at + HeaderSize = Front PROVE g = f
  <2>1. g < f => End(g) <= frames[f].at
    BY <1>3 DEF IInv, Consecutive
  <2>2. f < g => End(f) <= frames[g].at
    BY <1>3 DEF IInv, Consecutive
  <2>3. End(f) = frames[f].at + HeaderSize + frames[f].size
    BY DEF End
  <2>4. End(g) = frames[g].at + HeaderSize + frames[g].size
    BY DEF End
  <2>5. /\ frames[g].at = frames[f].at /\ frames[f].at \in Nat /\ HeaderSize \in Nat
        /\ HeaderSize > 0 /\ frames[f].size \in Nat /\ frames[g].size \in Nat
    BY <1>2, <1>3, <1>5
  <2>6. ~(g < f) /\ ~(f < g)
    <3>1. End(f) > frames[f].at /\ End(g) > frames[g].at
      BY <2>3, <2>4, <2>5
    <3>2. End(f) \in Nat /\ End(g) \in Nat
      BY <1>2, <1>3
    <3> QED
      BY <2>1, <2>2, <2>5, <3>1, <3>2
  <2>7. f \in Nat /\ g \in Nat
    BY <1>2, <1>3
  <2> QED
    BY <2>6, <2>7
<1>6. {g \in DOMAIN frames : frames[g].at + HeaderSize = Front /\ frames[g].size = capacity} = {f}
  BY <1>3, <1>5
<1>7. BufferToEntry = f
  BY <1>6 DEF BufferToEntry
<1>8. consumed + ToRead = End(f)
  BY <1>2, <1>3, <1>4 DEF End
<1> QED
  BY <1>3, <1>7, <1>8

-----------------------------------------------------------------------------
(***************************************************************************)
(* Type correctness.                                                       *)
(***************************************************************************)

\* Every step keeps the types.
LEMMA TypeStep == TypeOK /\ [Next]_vars => TypeOK'
<1> SUFFICES ASSUME TypeOK, [Next]_vars PROVE TypeOK'
  OBVIOUS
<1>0. /\ Len(frames) \in Nat /\ DOMAIN frames = 1..Len(frames)
      /\ \A f \in DOMAIN frames : frames[f].at \in Nat /\ frames[f].size \in Nat
      /\ \A f \in DOMAIN frames : End(f) \in Nat
      /\ HeaderSize \in Nat /\ HeaderSize > 0 /\ MaxSize \in Nat
  BY Types
<1>1. <<>> \in Seq(Nat) /\ delivered \o entries \in Seq(Nat)
  BY ConcatProperties, EmptySeq DEF TypeOK
<1>2. AnnouncedSizes \subseteq Nat
  BY <1>0, ReceiverAssumption DEF AnnouncedSizes
<1>3. BufferToEntry \in Nat
  <2> DEFINE held == {f \in DOMAIN frames : /\ frames[f].at + HeaderSize = Front
                                            /\ frames[f].size = capacity}
  <2>1. BufferToEntry = IF held = {} THEN 0 ELSE CHOOSE f \in held : TRUE
    BY DEF BufferToEntry
  <2>2. held \subseteq Nat
    BY <1>0
  <2>3. held # {} => (CHOOSE f \in held : TRUE) \in held
    OBVIOUS
  <2> QED
    BY <2>1, <2>2, <2>3
<1>4. SentBytes \in Nat
  <2>1. frames # <<>> => Len(frames) \in DOMAIN frames
    BY <1>0, EmptySeq DEF TypeOK
  <2> QED
    BY <1>0, <2>1 DEF SentBytes
<1>5. Completes => consumed + ToRead \in Nat
  BY Filled DEF TypeOK
<1>6. ASSUME NEW size \in Sizes, SendFrame(size) PROVE TypeOK'
  <2>1. [at |-> SentBytes, size |-> size] \in Frame
    BY <1>4, ReceiverAssumption DEF Frame
  <2>2. frames' \in Seq(Frame)
    BY <1>6, <2>1, AppendProperties DEF SendFrame, TypeOK
  <2> QED
    BY <1>6, <2>2 DEF SendFrame, bufferVars, TypeOK
<1>7. CASE PeerCloses
  BY <1>7 DEF PeerCloses, bufferVars, TypeOK
<1>8. ASSUME NEW total \in 1..SentBytes, ReadyRead(total) PROVE TypeOK'
  BY <1>4, <1>8 DEF ReadyRead, bufferVars, TypeOK
<1>9. CASE ReadSome
  BY <1>9 DEF ReadSome, peerVars, ToRead, Least, Available, TypeOK
<1>10. CASE IgnoreProbe
  BY <1>0, <1>5, <1>10 DEF IgnoreProbe, NextBuffer, peerVars, TypeOK
<1>11. CASE ExpectPayload
  <2>1. PICK size \in AnnouncedSizes : NextBuffer(size)
    BY <1>11 DEF ExpectPayload
  <2>2. size \in Nat /\ size \in 0..size
    BY <1>2
  <2>3. consumed' \in Nat /\ capacity' = size /\ bytesNeeded' = size
    BY <1>5, <1>11, <2>1 DEF NextBuffer, ExpectPayload
  <2> QED
    BY <1>11, <2>2, <2>3 DEF ExpectPayload, peerVars, TypeOK
<1>12. CASE RejectFrame
  <2>1. consumed' \in Nat /\ bytesNeeded' \in 0..capacity
    BY <1>5, <1>12 DEF RejectFrame, TypeOK
  <2>2. delivered' \in Seq(Nat) /\ entries' \in Seq(Nat)
    BY <1>1, <1>12 DEF RejectFrame, HandOver
  <2> QED
    BY <1>12, <2>1, <2>2 DEF RejectFrame, Shutdown, peerVars, TypeOK
<1>13. CASE TakeEntry
  <2>1. entries' \in Seq(Nat)
    BY <1>3, <1>13, AppendProperties DEF TakeEntry, TypeOK
  <2> QED
    BY <1>0, <1>5, <1>13, <2>1 DEF TakeEntry, NextBuffer, peerVars, TypeOK
<1>14. CASE Return
  BY <1>1, <1>14 DEF Return, HandOver, peerVars, bufferVars, TypeOK
<1>15. CASE Disconnected \/ ServerDestroyed
  BY <1>15 DEF Disconnected, ServerDestroyed, Shutdown, peerVars, bufferVars, TypeOK
<1>16. CASE UNCHANGED vars
  BY <1>16 DEF vars, peerVars, bufferVars, TypeOK
<1> QED
  BY <1>6, <1>7, <1>8, <1>9, <1>10, <1>11, <1>12, <1>13, <1>14, <1>15, <1>16
  DEF Next, NewDataAvailable

\* Type correctness of the receiver (members of the two receiver classes): the missing
\* bytes never exceed the buffer, so that no read goes beyond its end.
THEOREM TypeCorrect == Spec => []TypeOK
<1>1. Init => TypeOK
  <2> SUFFICES ASSUME Init PROVE TypeOK
    OBVIOUS
  <2>1. <<>> \in Seq(Frame) /\ <<>> \in Seq(Nat)
    BY EmptySeq
  <2>2. HeaderSize \in Nat /\ HeaderSize \in 0..HeaderSize
    BY ReceiverAssumption
  <2> QED
    BY <2>1, <2>2 DEF Init, TypeOK
<1> QED
  BY <1>1, TypeStep, PTL DEF Spec

-----------------------------------------------------------------------------
(***************************************************************************)
(* Where the receiver is in the stream.                                    *)
(***************************************************************************)

\* A frame sent goes behind the others, and the receiver stays where it is.
LEMMA SendFrameStep ==
  ASSUME IInv, NEW size \in Sizes, SendFrame(size)
  PROVE  /\ Consecutive' /\ Flow'
         /\ \A f \in 1..(Len(frames) + 1) : IsAt(f) => IsAt(f)'
         /\ Len(frames') \in Nat /\ Len(frames) <= Len(frames')
<1>1. /\ Len(frames) \in Nat /\ DOMAIN frames = 1..Len(frames)
      /\ \A f \in DOMAIN frames : frames[f].at \in Nat /\ frames[f].size \in Nat
      /\ \A f \in DOMAIN frames : End(f) \in Nat
      /\ HeaderSize \in Nat /\ HeaderSize > 0
  BY Types DEF IInv
<1>2. SentBytes \in Nat /\ size \in Nat
  BY ReceiverAssumption DEF IInv, Consecutive
<1>0. PICK n \in Nat : n = Len(frames)
  BY <1>1
<1> DEFINE new == [at |-> SentBytes, size |-> size]
<1>3. new \in Frame
  BY <1>2 DEF Frame
<1>4. /\ frames' \in Seq(Frame) /\ Len(frames') = n + 1
      /\ \A f \in 1..n : frames'[f] = frames[f]
      /\ frames'[n + 1] = new
  BY <1>0, <1>3, AppendProperties DEF SendFrame, IInv, TypeOK
<1>5. DOMAIN frames' = 1..(n + 1)
  BY <1>4, LenProperties
<1>6. SentBytes' = SentBytes + HeaderSize + size
  <2>1. frames' # <<>>
    BY <1>0, <1>1, <1>4, EmptySeq
  <2>2. SentBytes' = End(n + 1)'
    BY <1>4, <2>1 DEF SentBytes
  <2> QED
    BY <1>4, <2>2 DEF End
<1>7. \A f \in DOMAIN frames : End(f)' = End(f)
  BY <1>0, <1>1, <1>4 DEF End
<1>8. End(n + 1)' = SentBytes'
  BY <1>4, <1>5, <1>6 DEF End
<1>9. \A f \in 1..(n + 1) : Start(f)' = Start(f)
  BY <1>0, <1>1, <1>4, <1>5 DEF Start
<1>10. SentBytes' \in Nat /\ SentBytes <= SentBytes'
  BY <1>0, <1>1, <1>2, <1>6
<1>11. Consecutive'
  <2>1. \A f \in DOMAIN frames' : End(f)' <= SentBytes'
    BY <1>0, <1>1, <1>2, <1>5, <1>7, <1>8, <1>10 DEF IInv, Consecutive
  <2>2. ASSUME NEW f \in DOMAIN frames', NEW g \in DOMAIN frames', f < g
        PROVE  End(f)' <= frames'[g].at
    <3>1. f \in DOMAIN frames
      BY <1>0, <1>1, <1>5, <2>2
    <3>2. CASE g \in DOMAIN frames
      BY <1>0, <1>1, <1>4, <1>7, <2>2, <3>1, <3>2 DEF IInv, Consecutive
    <3>3. CASE g = n + 1
      BY <1>4, <1>7, <3>1, <3>3 DEF IInv, Consecutive
    <3> QED
      BY <1>0, <1>1, <1>5, <3>2, <3>3
  <2>3. ASSUME NEW f \in DOMAIN frames' PROVE Start(f + 1)' = End(f)'
    <3>1. CASE f = n + 1
      BY <1>0, <1>1, <1>5, <1>8, <3>1 DEF Start
    <3>2. CASE f \in DOMAIN frames
      <4>1. f + 1 \in 1..(n + 1)
        BY <1>0, <1>1, <3>2
      <4> QED
        BY <1>7, <1>9, <3>2, <4>1 DEF IInv, Consecutive
    <3> QED
      BY <1>0, <1>1, <1>5, <3>1, <3>2
  <2> QED
    BY <1>10, <2>1, <2>2, <2>3 DEF Consecutive
<1>12. Flow'
  <2>1. arrived \in Nat /\ consumed \in Nat
    BY DEF IInv, TypeOK
  <2> QED
    BY <1>2, <1>10, <2>1 DEF SendFrame, bufferVars, IInv, Flow
<1>13. ASSUME NEW f \in 1..(n + 1), IsAt(f) PROVE IsAt(f)'
  <2>1. UNCHANGED <<consumed, capacity, bytesNeeded, stateReadSize, open, running, Decoded, Front>>
    BY DEF SendFrame, bufferVars, Decoded, Front
  <2>2. AtHeader(f) => AtHeader(f)'
    BY <1>9, <2>1 DEF AtHeader
  <2>3. InPayload(f) => InPayload(f)'
    BY <1>0, <1>1, <1>4, <1>5, <2>1 DEF InPayload
  <2>4. Rejected(f) => Rejected(f)'
    BY <1>0, <1>1, <1>4, <1>5, <2>1 DEF Rejected
  <2>5. \A g \in 1..(f - 1) : frames'[g] = frames[g]
    BY <1>0, <1>1, <1>4
  <2> QED
    BY <1>13, <2>1, <2>2, <2>3, <2>4, <2>5 DEF IsAt
<1> QED
  BY <1>0, <1>1, <1>4, <1>11, <1>12, <1>13

\* Without a new frame the frames lie where they lay.
LEMMA FramesStay ==
  ASSUME UNCHANGED frames
  PROVE  /\ SentBytes' = SentBytes
         /\ \A f : End(f)' = End(f) /\ Start(f)' = Start(f)
         /\ Consecutive => Consecutive'
<1>1. SentBytes' = SentBytes
  BY DEF SentBytes, End
<1>2. \A f : End(f)' = End(f) /\ Start(f)' = Start(f)
  BY <1>1 DEF End, Start
<1> QED
  BY <1>1, <1>2 DEF Consecutive

\* The bytes of a round are there, so that reading them stays behind what has arrived.
LEMMA ReadingFlows ==
  ASSUME IInv, UNCHANGED peerVars, consumed' = consumed \/ consumed' = consumed + ToRead
  PROVE  Consecutive' /\ Flow'
<1>1. /\ arrived \in Nat /\ consumed \in Nat /\ bytesNeeded \in Nat
  BY DEF IInv, TypeOK
<1>2. consumed <= arrived => consumed + ToRead <= arrived
  BY <1>1 DEF ToRead, Least, Available
<1>3. arrived' = arrived /\ SentBytes' = SentBytes /\ Consecutive'
  BY FramesStay DEF peerVars, IInv
<1> QED
  BY <1>1, <1>2, <1>3 DEF IInv, Flow

\* A part of the buffer is filled: the receiver stays at the frame.
LEMMA ReadSomeStep ==
  ASSUME IInv, ReadSome, NEW f \in 1..(Len(frames) + 1), IsAt(f)
  PROVE  IsAt(f)'
<1>1. /\ arrived \in Nat /\ consumed \in Nat /\ capacity \in Nat /\ bytesNeeded \in Nat
  BY DEF IInv, TypeOK
<1>2. ToRead \in Nat /\ ToRead < bytesNeeded
  BY <1>1 DEF ReadSome, ToRead, Least, Available
<1>3. Front' = Front /\ bytesNeeded' > 0
  BY <1>1, <1>2 DEF ReadSome, Front
<1>4. Start(f)' = Start(f) /\ UNCHANGED <<frames, Decoded>>
  BY FramesStay DEF ReadSome, peerVars, Decoded
<1>5. AtHeader(f) \/ InPayload(f)
  BY DEF ReadSome, IsAt, Rejected
<1>6. AtHeader(f)' \/ InPayload(f)'
  BY <1>3, <1>4, <1>5 DEF ReadSome, AtHeader, InPayload
<1> QED
  BY <1>4, <1>6 DEF IsAt

\* Behind a frame that made no entry there is the header of the next one.
LEMMA IgnoreProbeStep ==
  ASSUME IInv, IgnoreProbe, NEW f \in 1..(Len(frames) + 1), IsAt(f)
  PROVE  f \in DOMAIN frames /\ IsAt(f + 1)'
<1>1. /\ Len(frames) \in Nat /\ DOMAIN frames = 1..Len(frames)
      /\ \A g \in DOMAIN frames : frames[g].at \in Nat /\ frames[g].size \in Nat
      /\ HeaderSize \in Nat /\ HeaderSize > 0 /\ MaxSize \in Nat /\ consumed \in Nat
  BY Types DEF IInv
<1>2. /\ f \in DOMAIN frames /\ AnnouncedSizes = {frames[f].size}
      /\ consumed + ToRead = frames[f].at + HeaderSize
  BY HeaderIsRead DEF IgnoreProbe
<1>3. frames[f].size = 0
  BY <1>2 DEF IgnoreProbe
<1>4. Start(f + 1) = frames[f].at + HeaderSize
  BY <1>1, <1>2, <1>3 DEF IInv, Consecutive, End
<1>5. UNCHANGED <<frames, Decoded>> /\ Start(f + 1)' = Start(f + 1)
  BY FramesStay DEF IgnoreProbe, peerVars, Decoded
<1>6. Front' = frames[f].at + HeaderSize
  BY <1>1, <1>2 DEF IgnoreProbe, NextBuffer, Front
<1>7. AtHeader(f + 1)'
  BY <1>1, <1>4, <1>5, <1>6 DEF IgnoreProbe, NextBuffer, AtHeader
<1>8. 1..f = 1..(f - 1) \cup {f} /\ f \notin 1..(f - 1) /\ (f + 1) - 1 = f
  BY <1>1
<1>9. \A g \in 1..f : frames[g].size <= MaxSize
  BY <1>1, <1>3, <1>8 DEF IsAt
<1>10. \A g \in Nat : g \in 1..(f - 1) /\ frames[g].size > 0 <=> g \in 1..f /\ frames[g].size > 0
  BY <1>3, <1>8
<1> QED
  BY <1>2, <1>5, <1>7, <1>8, <1>9, <1>10 DEF IsAt

\* The header of a frame that is not empty is followed by its payload.
LEMMA ExpectPayloadStep ==
  ASSUME IInv, ExpectPayload, NEW f \in 1..(Len(frames) + 1), IsAt(f)
  PROVE  IsAt(f)'
<1>1. /\ Len(frames) \in Nat /\ DOMAIN frames = 1..Len(frames)
      /\ \A g \in DOMAIN frames : frames[g].at \in Nat /\ frames[g].size \in Nat
      /\ HeaderSize \in Nat /\ MaxSize \in Nat /\ consumed \in Nat
  BY Types DEF IInv
<1>2. /\ f \in DOMAIN frames /\ AnnouncedSizes = {frames[f].size}
      /\ consumed + ToRead = frames[f].at + HeaderSize
  BY HeaderIsRead DEF ExpectPayload
<1>3. frames[f].size # 0 /\ frames[f].size <= MaxSize /\ NextBuffer(frames[f].size)
  BY <1>2 DEF ExpectPayload
<1>4. UNCHANGED <<frames, Decoded>>
  BY DEF ExpectPayload, peerVars, Decoded
<1>5. Front' = frames[f].at + HeaderSize
  BY <1>1, <1>2, <1>3 DEF NextBuffer, Front
<1>6. InPayload(f)'
  BY <1>1, <1>2, <1>3, <1>4, <1>5 DEF ExpectPayload, NextBuffer, InPayload
<1> QED
  BY <1>4, <1>6 DEF IsAt

\* Handing the entries over loses none and doubles none.
LEMMA HandOverKeeps ==
  ASSUME TypeOK, HandOver
  PROVE  UNCHANGED Decoded
<1>1. delivered \o entries \in Seq(Nat)
  BY ConcatProperties DEF TypeOK
<1>2. (delivered \o entries) \o <<>> = delivered \o entries
  BY <1>1, ConcatEmptySeq
<1> QED
  BY <1>2 DEF HandOver, Decoded

\* The header of a frame above the limit is the last thing that is read.
LEMMA RejectFrameStep ==
  ASSUME IInv, RejectFrame, NEW f \in 1..(Len(frames) + 1), IsAt(f)
  PROVE  IsAt(f)'
<1>1. /\ f \in DOMAIN frames /\ AnnouncedSizes = {frames[f].size}
      /\ consumed + ToRead = frames[f].at + HeaderSize /\ capacity = HeaderSize
  BY HeaderIsRead DEF RejectFrame
<1>2. frames[f].size > MaxSize
  BY <1>1 DEF RejectFrame
<1>3. UNCHANGED <<frames, Decoded>>
  BY HandOverKeeps DEF RejectFrame, peerVars, IInv
<1>4. Rejected(f)'
  BY <1>1, <1>2, <1>3 DEF RejectFrame, Shutdown, Rejected
<1> QED
  BY <1>3, <1>4 DEF IsAt

\* The payload of a frame becomes the next entry.
LEMMA TakeEntryStep ==
  ASSUME IInv, TakeEntry, NEW f \in 1..(Len(frames) + 1), IsAt(f)
  PROVE  f \in DOMAIN frames /\ IsAt(f + 1)' /\ InOrder'
<1>1. /\ Len(frames) \in Nat /\ DOMAIN frames = 1..Len(frames)
      /\ \A g \in DOMAIN frames : frames[g].at \in Nat /\ frames[g].size \in Nat
      /\ HeaderSize \in Nat /\ HeaderSize > 0 /\ MaxSize \in Nat /\ consumed \in Nat
      /\ Decoded \in Seq(Nat) /\ Len(Decoded) \in Nat
      /\ \A i \in 1..Len(Decoded) : Decoded[i] \in Nat
  BY Types DEF IInv
<1>2. /\ f \in DOMAIN frames /\ frames[f].size \in 1..MaxSize
      /\ BufferToEntry = f /\ consumed + ToRead = End(f)
  BY PayloadIsRead DEF TakeEntry
<1>3. UNCHANGED frames /\ Start(f + 1)' = Start(f + 1)
  BY FramesStay DEF TakeEntry, peerVars
<1>4. Start(f + 1) = End(f) /\ End(f) \in Nat
  BY <1>1, <1>2 DEF IInv, Consecutive, End
<1>5. Front' = End(f)
  BY <1>1, <1>2, <1>4 DEF TakeEntry, NextBuffer, Front
<1>6. AtHeader(f + 1)'
  BY <1>1, <1>3, <1>4, <1>5 DEF TakeEntry, NextBuffer, AtHeader
<1>7. Decoded' = Append(Decoded, f)
  <2>1. delivered \in Seq(Nat) /\ entries \in Seq(Nat) /\ f \in Nat /\ <<f>> \in Seq(Nat)
    BY <1>1 DEF IInv, TypeOK
  <2>2. Append(entries, f) = entries \o <<f>> /\ Append(Decoded, f) = Decoded \o <<f>>
    BY <1>1, <2>1, AppendIsConcat
  <2>3. delivered \o (entries \o <<f>>) = (delivered \o entries) \o <<f>>
    BY <2>1, ConcatAssociative
  <2> QED
    BY <1>2, <2>2, <2>3 DEF TakeEntry, Decoded
<1>8. PICK n \in Nat : n = Len(Decoded)
  BY <1>1
<1>9. /\ Len(Decoded') = n + 1 /\ Decoded'[n + 1] = f
      /\ \A i \in 1..n : Decoded'[i] = Decoded[i]
  BY <1>1, <1>7, <1>8, AppendProperties
<1>10. \A g \in Nat : (\E i \in 1..(n + 1) : Decoded'[i] = g)
                        <=> g = f \/ \E i \in 1..n : Decoded[i] = g
  BY <1>8, <1>9
<1>11. 1..f = 1..(f - 1) \cup {f} /\ f \notin 1..(f - 1) /\ (f + 1) - 1 = f /\ f \in Nat
  BY <1>1
<1>12. \A g \in 1..f : frames[g].size <= MaxSize
  BY <1>1, <1>2, <1>11 DEF IsAt
<1>13. \A g \in Nat : g \in 1..f /\ frames[g].size > 0 <=> g = f \/ (g \in 1..(f - 1) /\ frames[g].size > 0)
  BY <1>1, <1>2, <1>11
<1>14. \A g \in Nat : (\E i \in 1..n : Decoded[i] = g) <=> g \in 1..(f - 1) /\ frames[g].size > 0
  BY <1>8 DEF IsAt
<1>15. IsAt(f + 1)'
  <2>1. \A g \in Nat : (\E i \in 1..(n + 1) : Decoded'[i] = g) <=> g \in 1..f /\ frames[g].size > 0
    BY <1>10, <1>13, <1>14
  <2>2. \A g \in Nat : (\E i \in 1..Len(Decoded') : Decoded'[i] = g)
                         <=> g \in 1..((f + 1) - 1) /\ frames'[g].size > 0
    BY <1>3, <1>9, <1>11, <2>1
  <2>3. \A g \in 1..((f + 1) - 1) : frames'[g].size <= MaxSize
    BY <1>3, <1>11, <1>12
  <2> QED
    BY <1>6, <2>2, <2>3 DEF IsAt
<1>16. InOrder'
  <2>1. \A i \in 1..n : Decoded[i] \in Nat /\ Decoded[i] < f
    BY <1>1, <1>8, <1>14, <1>11
  <2> QED
    BY <1>8, <1>9, <2>1 DEF IInv, InOrder
<1> QED
  BY <1>2, <1>15, <1>16

\* Steps of the peer and the end of the connection leave the receiver where it is.
LEMMA OtherSteps ==
  ASSUME IInv, NEW f \in 1..(Len(frames) + 1), IsAt(f),
         \/ PeerCloses
         \/ \E total \in 1..SentBytes : ReadyRead(total)
         \/ Return
         \/ Disconnected \/ ServerDestroyed
         \/ UNCHANGED vars
  PROVE  IsAt(f)' /\ Consecutive' /\ Flow' /\ UNCHANGED Decoded
<1>1. UNCHANGED <<frames, bufferVars, Decoded>>
  <2>1. CASE Return
    BY <2>1, HandOverKeeps DEF Return, peerVars, IInv
  <2>2. CASE ~Return
    BY <2>2 DEF PeerCloses, ReadyRead, Disconnected, ServerDestroyed, vars, peerVars, Decoded
  <2> QED
    BY <2>1, <2>2
<1>2. Start(f)' = Start(f) /\ SentBytes' = SentBytes /\ Consecutive'
  BY <1>1, FramesStay DEF IInv
<1>3. Flow'
  <2>1. arrived' = arrived \/ (arrived' > arrived /\ arrived' <= SentBytes /\ arrived' \in Int)
    <3>1. CASE \E total \in 1..SentBytes : ReadyRead(total)
      <4>1. arrived \in Nat /\ SentBytes \in Nat
        BY DEF IInv, TypeOK, Consecutive
      <4> QED
        BY <3>1, <4>1 DEF ReadyRead
    <3>2. CASE ~\E total \in 1..SentBytes : ReadyRead(total)
      BY <3>2 DEF PeerCloses, Return, Disconnected, ServerDestroyed, vars, peerVars
    <3> QED
      BY <3>1, <3>2
  <2>2. arrived \in Nat /\ consumed \in Nat /\ consumed' = consumed /\ SentBytes \in Nat
    BY <1>1 DEF bufferVars, IInv, TypeOK, Consecutive
  <2> QED
    BY <1>2, <2>1, <2>2 DEF IInv, Flow
<1>4. AtHeader(f) => AtHeader(f)'
  BY <1>1, <1>2 DEF AtHeader, Front, bufferVars
<1>5. InPayload(f) => InPayload(f)'
  BY <1>1 DEF InPayload, Front, bufferVars
<1>6. Rejected(f) => Rejected(f)'
  <2> SUFFICES ASSUME Rejected(f) PROVE Rejected(f)'
    OBVIOUS
  <2>1. ~open /\ ~running
    BY DEF Rejected
  <2>2. UNCHANGED <<open, running>>
    BY <2>1 DEF PeerCloses, ReadyRead, Return, Disconnected, ServerDestroyed, vars
  <2> QED
    BY <1>1, <2>2 DEF Rejected, bufferVars
<1> QED
  BY <1>1, <1>2, <1>3, <1>4, <1>5, <1>6 DEF IsAt

\* Every step keeps the invariant.
LEMMA InvStep == IInv /\ [Next]_vars => IInv'
<1> SUFFICES ASSUME IInv, [Next]_vars PROVE IInv'
  OBVIOUS
<1>1. TypeOK'
  BY TypeStep DEF IInv
<1>2. PICK f \in 1..(Len(frames) + 1) : IsAt(f)
  BY DEF IInv
<1>3. Len(frames) \in Nat /\ DOMAIN frames = 1..Len(frames)
  BY Types DEF IInv
<1> DEFINE Somewhere == \E g \in 1..(Len(frames) + 1) : IsAt(g)
<1>4. UNCHANGED Decoded /\ InOrder => InOrder'
  BY DEF InOrder
<1>5. InOrder /\ (~running => entries = <<>>)
  BY DEF IInv
<1>6. ASSUME NEW size \in Sizes, SendFrame(size) PROVE IInv'
  <2>1. /\ Consecutive' /\ Flow' /\ IsAt(f)'
        /\ Len(frames') \in Nat /\ Len(frames) <= Len(frames')
    BY <1>2, <1>6, SendFrameStep
  <2>2. f \in 1..(Len(frames') + 1)
    BY <1>3, <2>1
  <2>3. UNCHANGED <<running, entries, Decoded>>
    BY <1>6 DEF SendFrame, Decoded
  <2> QED
    BY <1>1, <1>4, <1>5, <2>1, <2>2, <2>3 DEF IInv
<1>7. ASSUME \/ PeerCloses
             \/ \E total \in 1..SentBytes : ReadyRead(total)
             \/ Return
             \/ Disconnected \/ ServerDestroyed
             \/ UNCHANGED vars
      PROVE  IInv'
  <2>1. IsAt(f)' /\ Consecutive' /\ Flow' /\ UNCHANGED Decoded
    BY <1>2, <1>7, OtherSteps
  <2>2. frames' = frames
    BY <1>7 DEF PeerCloses, ReadyRead, Return, Disconnected, ServerDestroyed, vars, peerVars
  <2>3. ~running' => entries' = <<>>
    BY <1>5, <1>7
    DEF PeerCloses, ReadyRead, Return, HandOver, Disconnected, ServerDestroyed, vars
  <2> QED
    BY <1>1, <1>2, <1>4, <1>5, <2>1, <2>2, <2>3 DEF IInv
<1>8. CASE ReadSome
  <2>1. IsAt(f)' /\ Consecutive' /\ Flow'
    BY <1>2, <1>8, ReadSomeStep, ReadingFlows DEF ReadSome
  <2>2. UNCHANGED <<frames, running, entries, Decoded>>
    BY <1>8 DEF ReadSome, peerVars, Decoded
  <2> QED
    BY <1>1, <1>2, <1>4, <1>5, <2>1, <2>2 DEF IInv
<1>9. CASE IgnoreProbe
  <2>1. f \in DOMAIN frames /\ IsAt(f + 1)'
    BY <1>2, <1>9, IgnoreProbeStep
  <2>2. Consecutive' /\ Flow'
    BY <1>9, ReadingFlows DEF IgnoreProbe, NextBuffer
  <2>3. UNCHANGED <<frames, running, entries, Decoded>>
    BY <1>9 DEF IgnoreProbe, peerVars, Decoded
  <2>4. f + 1 \in 1..(Len(frames') + 1)
    BY <1>3, <2>1, <2>3
  <2> QED
    BY <1>1, <1>4, <1>5, <2>1, <2>2, <2>3, <2>4 DEF IInv
<1>10. CASE ExpectPayload
  <2>1. IsAt(f)'
    BY <1>2, <1>10, ExpectPayloadStep
  <2>2. Consecutive' /\ Flow'
    BY <1>10, ReadingFlows DEF ExpectPayload, NextBuffer
  <2>3. UNCHANGED <<frames, running, entries, Decoded>>
    BY <1>10 DEF ExpectPayload, peerVars, Decoded
  <2> QED
    BY <1>1, <1>2, <1>4, <1>5, <2>1, <2>2, <2>3 DEF IInv
<1>11. CASE RejectFrame
  <2>1. IsAt(f)'
    BY <1>2, <1>11, RejectFrameStep
  <2>2. Consecutive' /\ Flow'
    BY <1>11, ReadingFlows DEF RejectFrame
  <2>3. UNCHANGED <<frames, Decoded>> /\ entries' = <<>>
    BY <1>11, HandOverKeeps DEF RejectFrame, HandOver, peerVars, IInv
  <2> QED
    BY <1>1, <1>2, <1>4, <1>5, <2>1, <2>2, <2>3 DEF IInv
<1>12. CASE TakeEntry
  <2>1. f \in DOMAIN frames /\ IsAt(f + 1)' /\ InOrder'
    BY <1>2, <1>12, TakeEntryStep
  <2>2. Consecutive' /\ Flow'
    BY <1>12, ReadingFlows DEF TakeEntry, NextBuffer
  <2>3. UNCHANGED <<frames, running>> /\ running
    BY <1>12 DEF TakeEntry, Completes, peerVars
  <2>4. f + 1 \in 1..(Len(frames') + 1)
    BY <1>3, <2>1, <2>3
  <2> QED
    BY <1>1, <2>1, <2>2, <2>3, <2>4 DEF IInv
<1> QED
  BY <1>6, <1>7, <1>8, <1>9, <1>10, <1>11, <1>12 DEF Next, NewDataAvailable

\* The invariant holds at the beginning.
LEMMA InvInit == Init => IInv
<1> SUFFICES ASSUME Init PROVE IInv
  OBVIOUS
<1>1. <<>> \in Seq(Frame) /\ <<>> \in Seq(Nat) /\ Len(frames) = 0 /\ DOMAIN frames = {}
  BY EmptySeq DEF Init
<1>2. HeaderSize \in Nat /\ HeaderSize > 0 /\ HeaderSize \in 0..HeaderSize
  BY ReceiverAssumption
<1>3. TypeOK
  BY <1>1, <1>2 DEF Init, TypeOK
<1>4. Consecutive /\ Flow
  BY <1>1 DEF Init, SentBytes, Consecutive, Flow
<1>5. Decoded = <<>> /\ Len(Decoded) = 0
  BY <1>1, ConcatEmptySeq, EmptySeq DEF Init, Decoded
<1>6. IsAt(1)
  <2>1. AtHeader(1)
    BY <1>1, <1>2 DEF Init, AtHeader, Front, Start, SentBytes
  <2> QED
    BY <1>5, <2>1 DEF IsAt
<1> QED
  BY <1>1, <1>3, <1>4, <1>5, <1>6 DEF Init, InOrder, IInv

\* The invariant says what has been decoded and how far the stream has been read.
LEMMA InvImplies == IInv => FramesBecomeEntries /\ MemoryBound
<1> SUFFICES ASSUME IInv PROVE FramesBecomeEntries /\ MemoryBound
  OBVIOUS
<1>1. PICK f \in 1..(Len(frames) + 1) : IsAt(f)
  BY DEF IInv
<1>2. /\ Len(frames) \in Nat /\ DOMAIN frames = 1..Len(frames)
      /\ \A g \in DOMAIN frames : frames[g].at \in Nat /\ frames[g].size \in Nat
      /\ \A g \in DOMAIN frames : End(g) \in Nat
      /\ arrived \in Nat /\ consumed \in Nat /\ capacity \in Nat
      /\ bytesNeeded \in Nat /\ bytesNeeded <= capacity
      /\ HeaderSize \in Nat /\ HeaderSize > 0 /\ MaxSize \in Nat /\ HeaderSize <= MaxSize
      /\ Decoded \in Seq(Nat) /\ Len(Decoded) \in Nat
      /\ \A i \in 1..Len(Decoded) : Decoded[i] \in Nat
  BY Types DEF IInv
<1>3. \A g \in DOMAIN frames : g < f => End(g) <= consumed /\ frames[g].size <= MaxSize
  <2> SUFFICES ASSUME NEW g \in DOMAIN frames, g < f
               PROVE  End(g) <= consumed /\ frames[g].size <= MaxSize
    OBVIOUS
  <2>1. frames[g].size <= MaxSize
    BY <1>1, <1>2 DEF IsAt
  <2>2. End(g) <= Start(f)
    BY <1>2 DEF IInv, Consecutive, Start
  <2>3. Start(f) <= consumed
    <3> DEFINE missing == capacity - bytesNeeded
    <3>0. /\ missing \in Nat /\ consumed \in Nat /\ HeaderSize \in Nat
          /\ Front = consumed - missing
      BY <1>2 DEF Front
    <3> HIDE DEF missing
    <3>1. CASE AtHeader(f)
      <4>1. Start(f) = consumed - missing
        BY <3>0, <3>1 DEF AtHeader
      <4> QED
        BY <3>0, <4>1
    <3>2. CASE InPayload(f)
      <4>1. Start(f) = frames[f].at /\ consumed - missing = frames[f].at + HeaderSize
            /\ frames[f].at \in Nat
        BY <1>2, <3>0, <3>2 DEF InPayload, Start
      <4> QED
        BY <3>0, <4>1
    <3>3. CASE Rejected(f)
      <4>1. Start(f) = frames[f].at /\ consumed = frames[f].at + HeaderSize
            /\ frames[f].at \in Nat
        BY <1>2, <3>3 DEF Rejected, Start
      <4> QED
        BY <3>0, <4>1
    <3> QED
      BY <1>1, <3>1, <3>2, <3>3 DEF IsAt
  <2>4. Start(f) \in Nat
    BY <1>2 DEF Start, IInv, Consecutive
  <2> QED
    BY <1>2, <2>1, <2>2, <2>3, <2>4
<1>4. f \in DOMAIN frames => consumed < End(f) \/ frames[f].size > MaxSize
  <2>1. CASE AtHeader(f)
    BY <1>2, <2>1 DEF AtHeader, Front, Start, End
  <2>2. CASE InPayload(f)
    BY <1>2, <2>2 DEF InPayload, Front, Start, End
  <2>3. CASE Rejected(f)
    BY <2>3 DEF Rejected
  <2> QED
    BY <1>1, <2>1, <2>2, <2>3 DEF IsAt
<1>5. \A g \in DOMAIN frames : f < g => f \in DOMAIN frames /\ End(f) <= frames[g].at /\ End(f) < End(g)
  <2> SUFFICES ASSUME NEW g \in DOMAIN frames, f < g
               PROVE  f \in DOMAIN frames /\ End(f) <= frames[g].at /\ End(f) < End(g)
    OBVIOUS
  <2>1. f \in DOMAIN frames
    BY <1>2
  <2>2. End(f) <= frames[g].at
    BY <2>1 DEF IInv, Consecutive
  <2>3. End(g) = frames[g].at + HeaderSize + frames[g].size
    BY DEF End
  <2> QED
    BY <1>2, <2>1, <2>2, <2>3
<1>6. FramesBecomeEntries
  <2>1. \A i, j \in DOMAIN Decoded : i < j => Decoded[i] < Decoded[j]
    BY <1>2, LenProperties DEF IInv, InOrder
  <2>2. \A g \in DOMAIN frames : Acceptable(g) /\ End(g) <= consumed <=> g < f
    <3> SUFFICES ASSUME NEW g \in DOMAIN frames
                 PROVE  Acceptable(g) /\ End(g) <= consumed <=> g < f
      OBVIOUS
    <3>1. g < f => Acceptable(g) /\ End(g) <= consumed
      BY <1>1, <1>2, <1>3 DEF Acceptable, IsAt
    <3>2. g = f => ~(Acceptable(g) /\ End(g) <= consumed)
      <4>1. g = f /\ Acceptable(g) => frames[f].size <= MaxSize
        BY <1>2 DEF Acceptable
      <4> QED
        BY <1>2, <1>4, <4>1
    <3>3. f < g => ~(Acceptable(g) /\ End(g) <= consumed)
      <4> SUFFICES ASSUME f < g, Acceptable(g) PROVE ~(End(g) <= consumed)
        OBVIOUS
      <4>1. f \in DOMAIN frames /\ End(f) < End(g)
        BY <1>5
      <4>2. frames[f].size <= MaxSize /\ frames[f].size \in Nat /\ MaxSize \in Nat
        BY <1>2, <4>1 DEF Acceptable
      <4>3. consumed < End(f)
        BY <1>4, <4>1, <4>2
      <4>4. consumed \in Nat /\ End(f) \in Nat /\ End(g) \in Nat
        BY <1>2, <4>1
      <4> QED
        BY <4>1, <4>3, <4>4
    <3> QED
      BY <1>2, <3>1, <3>2, <3>3
  <2>3. {Decoded[i] : i \in DOMAIN Decoded} = {g \in 1..(f - 1) : frames[g].size > 0}
    <3>1. DOMAIN Decoded = 1..Len(Decoded)
      BY <1>2, LenProperties
    <3>2. \A g \in Nat : (\E i \in 1..Len(Decoded) : Decoded[i] = g)
                           <=> g \in 1..(f - 1) /\ frames[g].size > 0
      BY <1>1 DEF IsAt
    <3>3. ASSUME NEW i \in DOMAIN Decoded
          PROVE  Decoded[i] \in {g \in 1..(f - 1) : frames[g].size > 0}
      <4>1. Decoded[i] \in Nat /\ i \in 1..Len(Decoded)
        BY <1>2, <3>1
      <4> QED
        BY <3>2, <4>1
    <3>4. ASSUME NEW g \in 1..(f - 1), frames[g].size > 0
          PROVE  \E i \in DOMAIN Decoded : Decoded[i] = g
      <4>1. g \in Nat
        OBVIOUS
      <4> QED
        BY <3>1, <3>2, <3>4, <4>1
    <3> QED
      BY <3>3, <3>4
  <2>4. {g \in 1..(f - 1) : frames[g].size > 0} =
          {g \in DOMAIN frames : frames[g].size > 0 /\ Acceptable(g) /\ End(g) <= consumed}
    BY <1>2, <2>2
  <2> QED
    BY <2>1, <2>3, <2>4 DEF IInv, FramesBecomeEntries
<1>7. MemoryBound
  <2>1. capacity <= MaxSize
    BY <1>1, <1>2 DEF IsAt, AtHeader, InPayload, Rejected
  <2>2. ASSUME NEW g \in DOMAIN frames, frames[g].size > MaxSize
        PROVE  consumed <= frames[g].at + HeaderSize
    <3>1. ~(g < f)
      BY <1>2, <1>3, <2>2
    <3>2. CASE g = f
      <4>1. CASE AtHeader(f)
        BY <1>2, <3>2, <4>1 DEF AtHeader, Front, Start
      <4>2. CASE InPayload(f)
        BY <1>2, <2>2, <3>2, <4>2 DEF InPayload
      <4>3. CASE Rejected(f)
        BY <1>2, <3>2, <4>3 DEF Rejected
      <4> QED
        BY <1>1, <4>1, <4>2, <4>3 DEF IsAt
    <3>3. CASE f < g
      <4>1. f \in DOMAIN frames /\ End(f) <= frames[g].at
        BY <1>5, <3>3
      <4>2. consumed <= End(f)
        <5>1. /\ frames[f].at \in Nat /\ frames[f].size \in Nat /\ End(f) \in Nat
              /\ consumed \in Nat /\ HeaderSize \in Nat
              /\ End(f) = frames[f].at + HeaderSize + frames[f].size
          BY <1>2, <4>1 DEF End
        <5>2. CASE Rejected(f)
          <6>1. consumed = frames[f].at + HeaderSize
            BY <5>2 DEF Rejected
          <6> QED
            BY <5>1, <6>1
        <5>3. ASSUME ~Rejected(f) PROVE consumed < End(f)
          <6> DEFINE missing == capacity - bytesNeeded
          <6>1. /\ missing \in Nat /\ missing < capacity
                /\ consumed = Front + missing /\ Front \in Int /\ capacity \in Nat
            <7>1. bytesNeeded > 0
              BY <1>1, <5>3 DEF IsAt, AtHeader, InPayload
            <7> QED
              BY <1>2, <7>1 DEF Front
          <6> HIDE DEF missing
          <6>2. CASE AtHeader(f)
            <7>1. Front = frames[f].at /\ capacity = HeaderSize
              BY <4>1, <6>2 DEF AtHeader, Start
            <7>2. consumed = frames[f].at + missing /\ missing < HeaderSize
              BY <6>1, <7>1
            <7>3. frames[f].at + missing < frames[f].at + HeaderSize + frames[f].size
              BY <5>1, <6>1, <7>2
            <7> QED
              BY <5>1, <7>2, <7>3
          <6>3. CASE InPayload(f)
            <7>1. Front = frames[f].at + HeaderSize /\ capacity = frames[f].size
              BY <6>3 DEF InPayload
            <7> QED
              BY <5>1, <6>1, <7>1
          <6> QED
            BY <1>1, <5>3, <6>2, <6>3 DEF IsAt
        <5> QED
          BY <5>1, <5>2, <5>3
      <4>3. consumed \in Nat /\ HeaderSize \in Nat /\ frames[g].at \in Nat /\ End(f) \in Nat
        BY <1>2, <4>1
      <4> QED
        BY <4>1, <4>2, <4>3
    <3> QED
      BY <1>2, <3>1, <3>2, <3>3
  <2> QED
    BY <2>1, <2>2 DEF MemoryBound
<1> QED
  BY <1>6, <1>7

\* newDataAvailable makes entries of exactly the non-empty frames it has read to the end,
\* in their order, wherever TCP cuts the stream and whenever the connection ends.
THEOREM FramesDecoded == Spec => []FramesBecomeEntries
<1>1. Spec => []IInv
  BY InvInit, InvStep, PTL DEF Spec
<1> QED
  BY <1>1, InvImplies, PTL

\* No announced size makes newDataAvailable allocate more than the limit, or read behind
\* the header that announces more.
THEOREM MemoryIsBounded == Spec => []MemoryBound
<1>1. Spec => []IInv
  BY InvInit, InvStep, PTL DEF Spec
<1> QED
  BY <1>1, InvImplies, PTL
=============================================================================
