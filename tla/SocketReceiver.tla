---------------------------- MODULE SocketReceiver ----------------------------
(***************************************************************************)
(* The receiver of one peer of a socket source: classes                    *)
(* LogEntryParser_log4cplusSocket_Receiver and                             *)
(* LogEntryParser_pythonSocket_Receiver, which share this automaton.  A    *)
(* peer sends frames, each a header with the size of the payload and the   *)
(* payload; TCP cuts the byte stream at any place.  newDataAvailable reads *)
(* what has arrived, decodes the complete frames into log entries and      *)
(* hands them to the server in one list.  Frames of size 0 carry no entry, *)
(* a frame above the limit ends the connection.                            *)
(*                                                                         *)
(* A byte is known by its offset in the stream, an entry by the index of   *)
(* its frame.  The handler's loop is modelled round by round; nothing else *)
(* happens in the thread while it runs.                                    *)
(***************************************************************************)
EXTENDS Naturals, Sequences, FiniteSets

CONSTANTS
  HeaderSize,  \* sizeof(unsigned int), sizeof(sizePayload_t)
  MaxSize,     \* 1024 * 1024
  Sizes,       \* payload sizes a peer may announce
  MaxFrames    \* bound: frames a peer sends

ASSUME ReceiverAssumption ==
  /\ HeaderSize \in Nat \ {0}
  /\ MaxSize \in Nat
  /\ HeaderSize <= MaxSize
  /\ Sizes \subseteq Nat
  /\ MaxFrames \in Nat

VARIABLES
  \* the peer and the network
  frames,         \* the frames sent, each with its first offset and payload size
  arrived,        \* how many bytes have reached the socket
  peerClosed,     \* the peer has closed the connection
  \* the receiver
  consumed,       \* how many bytes have been read from the socket
  capacity,       \* size of m_buffer
  bytesNeeded,    \* m_bytesNeeded, free bytes at the end of m_buffer
  stateReadSize,  \* m_stateReadSize
  open,           \* the socket has not been shut down
  running,        \* newDataAvailable is on the stack
  entries,        \* the local list of decoded entries
  delivered       \* the entries handed to the server by newEntry

peerVars == <<frames, arrived, peerClosed>>
bufferVars == <<consumed, capacity, bytesNeeded, stateReadSize>>
vars == <<peerVars, bufferVars, open, running, entries, delivered>>

Frame == [at : Nat, size : Nat]

TypeOK ==
  /\ frames \in Seq(Frame)
  /\ arrived \in Nat
  /\ peerClosed \in BOOLEAN
  /\ consumed \in Nat
  /\ capacity \in Nat
  /\ bytesNeeded \in 0..capacity
  /\ stateReadSize \in BOOLEAN
  /\ open \in BOOLEAN
  /\ running \in BOOLEAN
  /\ entries \in Seq(Nat)
  /\ delivered \in Seq(Nat)

\* The log4cplus receiver makes its buffer in the first newDataAvailable, the
\* python receiver in its constructor; the loop starts from this state in both.
Init ==
  /\ frames = <<>>
  /\ arrived = 0
  /\ peerClosed = FALSE
  /\ consumed = 0
  /\ capacity = HeaderSize
  /\ bytesNeeded = HeaderSize
  /\ stateReadSize = TRUE
  /\ open = TRUE
  /\ running = FALSE
  /\ entries = <<>>
  /\ delivered = <<>>

-----------------------------------------------------------------------------
(* The peer and the network.                                               *)

End(f) == frames[f].at + HeaderSize + frames[f].size

SentBytes == IF frames = <<>> THEN 0 ELSE End(Len(frames))

SendFrame(size) ==
  /\ ~peerClosed
  /\ Len(frames) < MaxFrames
  /\ frames' = Append(frames, [at |-> SentBytes, size |-> size])
  /\ UNCHANGED <<arrived, peerClosed, bufferVars, open, running, entries, delivered>>

\* The connection ends behind any byte.
PeerCloses ==
  /\ ~peerClosed
  /\ peerClosed' = TRUE
  /\ UNCHANGED <<frames, arrived, bufferVars, open, running, entries, delivered>>

\* Bytes arrive: readyRead calls newDataAvailable.
ReadyRead(total) ==
  /\ open /\ ~running /\ ~peerClosed
  /\ total \in (arrived + 1)..SentBytes
  /\ arrived' = total
  /\ running' = TRUE
  /\ UNCHANGED <<frames, peerClosed, bufferVars, open, entries, delivered>>

-----------------------------------------------------------------------------
(* One round of the loop in newDataAvailable.                              *)

Least(a, b) == IF a <= b THEN a ELSE b

Available == arrived - consumed

ToRead == Least(Available, bytesNeeded)

\* The offset of the byte at the front of m_buffer.
Front == consumed - (capacity - bytesNeeded)

\* The sizes m_buffer can be read as: the announced one if the buffer holds exactly
\* the header of a frame, any one otherwise.
AnnouncedSizes ==
  LET headed == {f \in DOMAIN frames : frames[f].at = Front /\ capacity = HeaderSize}
  IN IF headed = {} THEN Sizes ELSE {frames[f].size : f \in headed}

\* What bufferToEntry makes of m_buffer; 0 stands for an entry made of anything else
\* than the payload of one frame.
BufferToEntry ==
  LET held == {f \in DOMAIN frames : /\ frames[f].at + HeaderSize = Front
                                     /\ frames[f].size = capacity}
  IN IF held = {} THEN 0 ELSE CHOOSE f \in held : TRUE

\* readDataToBuffer has filled m_buffer.
Completes == running /\ Available > 0 /\ ToRead = bytesNeeded

ReadSome ==
  /\ running /\ Available > 0 /\ ToRead < bytesNeeded
  /\ consumed' = consumed + ToRead
  /\ bytesNeeded' = bytesNeeded - ToRead
  /\ UNCHANGED <<peerVars, capacity, stateReadSize, open, running, entries, delivered>>

\* Faulty variant: m_bytesNeeded is not set to the new size.
NextBufferHeader(size) ==
  /\ consumed' = consumed + ToRead
  /\ capacity' = size
  /\ bytesNeeded' = HeaderSize

NextBuffer(size) ==
  /\ consumed' = consumed + ToRead
  /\ capacity' = size
  /\ bytesNeeded' = size

HandOver ==
  /\ delivered' = delivered \o entries
  /\ entries' = <<>>

Shutdown == open' = FALSE

\* A frame of size 0 is used for tunnel probing.
IgnoreProbe ==
  /\ Completes /\ stateReadSize
  /\ 0 \in AnnouncedSizes
  /\ NextBuffer(HeaderSize)
  /\ UNCHANGED <<peerVars, stateReadSize, open, running, entries, delivered>>

\* Faulty variant: the limit is tested before the header has been decoded.
ExpectAnyPayload ==
  /\ Completes /\ stateReadSize
  /\ \E size \in AnnouncedSizes \ {0} : NextBuffer(size)
  /\ stateReadSize' = FALSE
  /\ UNCHANGED <<peerVars, open, running, entries, delivered>>

ExpectPayload ==
  /\ Completes /\ stateReadSize
  /\ \E size \in AnnouncedSizes \ {0} : size <= MaxSize /\ NextBuffer(size)
  /\ stateReadSize' = FALSE
  /\ UNCHANGED <<peerVars, open, running, entries, delivered>>

\* Faulty variant: the entries decoded so far are not handed over.
RejectAllFrames ==
  /\ Completes /\ stateReadSize
  /\ \E size \in AnnouncedSizes : size > MaxSize
  /\ consumed' = consumed + ToRead
  /\ bytesNeeded' = 0
  /\ stateReadSize' = FALSE
  /\ entries' = <<>>
  /\ Shutdown
  /\ running' = FALSE
  /\ UNCHANGED <<peerVars, capacity, delivered>>

\* A frame above the limit: the connection is shut down and the handler returns.
RejectFrame ==
  /\ Completes /\ stateReadSize
  /\ \E size \in AnnouncedSizes : size > MaxSize
  /\ consumed' = consumed + ToRead
  /\ bytesNeeded' = 0
  /\ stateReadSize' = FALSE
  /\ HandOver
  /\ Shutdown
  /\ running' = FALSE
  /\ UNCHANGED <<peerVars, capacity>>

TakeEntry ==
  /\ Completes /\ ~stateReadSize
  /\ entries' = Append(entries, BufferToEntry)
  /\ NextBuffer(HeaderSize)
  /\ stateReadSize' = TRUE
  /\ UNCHANGED <<peerVars, open, running, delivered>>

\* Faulty variant: the handler returns without newEntry.
ReturnSilently ==
  /\ running /\ Available = 0
  /\ running' = FALSE
  /\ UNCHANGED <<peerVars, bufferVars, open, entries, delivered>>

Return ==
  /\ running /\ Available = 0
  /\ HandOver
  /\ running' = FALSE
  /\ UNCHANGED <<peerVars, bufferVars, open>>

NewDataAvailable ==
  ReadSome \/ IgnoreProbe \/ ExpectPayload \/ RejectFrame \/ TakeEntry \/ Return

-----------------------------------------------------------------------------
\* disconnected() of the socket, once its bytes have been read.
Disconnected ==
  /\ open /\ ~running /\ peerClosed
  /\ Shutdown
  /\ UNCHANGED <<peerVars, bufferVars, running, entries, delivered>>

\* destroyed() of the server: the user has closed the log window.
ServerDestroyed ==
  /\ open /\ ~running
  /\ Shutdown
  /\ UNCHANGED <<peerVars, bufferVars, running, entries, delivered>>

Next ==
  \/ \E size \in Sizes : SendFrame(size)
  \/ PeerCloses
  \/ \E total \in 1..SentBytes : ReadyRead(total)
  \/ NewDataAvailable
  \/ Disconnected
  \/ ServerDestroyed

Spec == Init /\ [][Next]_vars

\* A handler that has begun goes on to its end.
FairSpec == Spec /\ WF_vars(NewDataAvailable)

-----------------------------------------------------------------------------
(* Properties.                                                             *)

Decoded == delivered \o entries

Acceptable(f) == \A g \in 1..f : frames[g].size <= MaxSize

\* However TCP cuts the stream, exactly the non-empty frames that were read to the end
\* have become entries, in the order they were sent, each once: none made of misread
\* bytes, none for a probe, none behind a frame above the limit, and none lost when
\* that frame or the peer ends the connection.
FramesBecomeEntries ==
  /\ \A i, j \in DOMAIN Decoded : i < j => Decoded[i] < Decoded[j]
  /\ {Decoded[i] : i \in DOMAIN Decoded} =
       {f \in DOMAIN frames : frames[f].size > 0 /\ Acceptable(f) /\ End(f) <= consumed}
  /\ ~running => entries = <<>>

\* "prevention from memory errors due to wrong data": no announced size makes the
\* receiver allocate more than the limit or read on behind the header announcing it.
MemoryBound ==
  /\ capacity <= MaxSize
  /\ \A f \in DOMAIN frames :
       frames[f].size > MaxSize => consumed <= frames[f].at + HeaderSize

\* An entry that has arrived completely is handed over, although readyRead is
\* signalled once only for the bytes of many frames.
ArrivedEntriesDelivered ==
  \A f \in 1..MaxFrames :
    (/\ f \in DOMAIN frames
     /\ frames[f].size > 0 /\ Acceptable(f) /\ End(f) <= arrived)
      ~> (\E i \in DOMAIN delivered : delivered[i] = f)
=============================================================================
