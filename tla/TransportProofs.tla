--------------------------- MODULE TransportProofs ---------------------------
(***************************************************************************)
(* Proofs about module Transport, for any number of calls and stream ids.  *)
(***************************************************************************)
EXTENDS Transport, TLAPS

(***************************************************************************)
(* What the operators of the model return.                                 *)
(***************************************************************************)

\* Taking a request from the channel.
LEMMA TakeType ==
    ASSUME NEW S, NEW q \in Seq(S), q # <<>>
    PROVE  Head(q) \in S /\ Tail(q) \in Seq(S)
  OBVIOUS

\* Adding at the end of the channel, of the frame, or of frame_stream_ids.
LEMMA AppendType ==
    ASSUME NEW S, NEW q \in Seq(S), NEW x \in S
    PROVE  Append(q, x) \in Seq(S)
  OBVIOUS

\* Resolving oneshots changes statuses only.
LEMMA ResolveType ==
    ASSUME TypeOK, NEW S, NEW outcome \in Statuses
    PROVE  Resolve(S, outcome) \in [Calls -> Statuses]
  BY DEF TypeOK, Resolve

\* The id next_stream_id returns is a stream id, and the counter stays in i16.
LEMMA StreamType ==
    ASSUME NEW n \in -(StreamMax + 1) .. StreamMax
    PROVE  /\ StreamOf(n) \in StreamIds \cup {-1}
           /\ CounterAfter(n) \in -(StreamMax + 1) .. StreamMax
  BY TransportAssumption DEF StreamOf, CounterAfter, WrapI16, StreamIds, INITIAL_STREAM_ID

\* The request being written, as an envelope.
LEMMA EnvelopeType ==
    ASSUME TypeOK, request \in Calls
    PROVE  Envelope \in Envelopes
  BY DEF TypeOK, Envelope, Envelopes

\* The frame being filled holds envelopes, so writing it hands envelopes over.
LEMMA FrameType ==
    ASSUME TypeOK
    PROVE  {frame[i] : i \in DOMAIN frame} \subseteq Envelopes
  BY DEF TypeOK

\* Writing moves envelopes between the two sets they can be in.
LEMMA PutType ==
    ASSUME TypeOK, NEW E \in SUBSET Envelopes, PutOnWire(E)
    PROVE  buffered' \subseteq Envelopes /\ server' \subseteq Envelopes /\ link' = link
  BY DEF TypeOK, PutOnWire

\* The task's futures are dropped and the task ends.
LEMMA FailType ==
    ASSUME TypeOK, NEW calls \in [Calls -> Statuses], Fail(calls),
           handlers' \in [StreamIds -> Calls \cup {NoCall}],
           answer' = answer, keyspace' \in Uses \cup {NoCall}
    PROVE  TypeOK'
<1>1. status' \in [Calls -> Statuses]
  BY DEF Fail, CloseQueued, Statuses
<1>2. /\ wpc' = "dropped" /\ request' = NoCall /\ streamId' = 0 /\ chunk' = 0
      /\ frame' = <<>> /\ frameIds' = <<>> /\ queue' = <<>> /\ buffered' = {}
      /\ eventBlocked' = FALSE /\ task' = "failed"
      /\ UNCHANGED <<server, link, framed, events, isBroken, nextStream, clash>>
  BY DEF Fail, DropFutures
<1>3. 0 \in StreamIds /\ 0 \in 0 .. Chunks
  BY TransportAssumption DEF StreamIds
<1>4. eventBlocked' \in BOOLEAN
  BY <1>2, Zenon
<1> QED
  BY <1>1, <1>2, <1>3, <1>4 DEF TypeOK

-----------------------------------------------------------------------------
(***************************************************************************)
(* Type correctness.                                                       *)
(***************************************************************************)

\* A request is being worked on from alloc until the writer asks for more.
Working ==
    /\ wpc \in {"alloc", "encode", "handshake", "write", "chunk"} => request \in Calls
    /\ wpc = "chunk" => chunk \in 1 .. Chunks

TypeInv == TypeOK /\ Working

\* A fresh connection is well typed.
LEMMA TypeInit == Init => TypeInv
<1>1. 0 \in StreamIds /\ 0 \in 0 .. Chunks /\ 0 \in 0 .. EventCapacity
  BY TransportAssumption DEF StreamIds
<1>2. INITIAL_STREAM_ID \in -(StreamMax + 1) .. StreamMax
  BY TransportAssumption DEF INITIAL_STREAM_ID
<1> QED
  BY <1>1, <1>2 DEF Init, TypeInv, TypeOK, Working, Statuses

\* Every step keeps the state typed.
LEMMA TypeStep == TypeInv /\ [Next]_vars => TypeInv'
<1> SUFFICES ASSUME TypeInv, [Next]_vars PROVE TypeInv'
  OBVIOUS
<1> USE DEF TypeInv, TypeOK, Working, vars, callVars, mapVars, writerVars, netVars, readerVars, taskVars
<1>1. CASE UNCHANGED vars
  BY <1>1
<1>2. CASE Next
  <2>1. ASSUME NEW c \in Calls, WriteEnvelope(c) PROVE TypeInv'
    BY <2>1 DEF WriteEnvelope, Statuses
  <2>2. ASSUME NEW c \in Calls, SendRequest(c) PROVE TypeInv'
    BY <2>2 DEF SendRequest, Statuses
  <2>3. ASSUME NEW c \in Calls, SendClosed(c) PROVE TypeInv'
    BY <2>3 DEF SendClosed, Statuses
  <2>4. ASSUME NEW c \in Calls, Cancel(c) PROVE TypeInv'
    BY <2>4 DEF Cancel, Statuses
  <2>5. CASE DropTransport
    <3>1. /\ wpc' = "dropped" /\ request' = NoCall /\ streamId' = 0 /\ chunk' = 0
          /\ frame' = <<>> /\ frameIds' = <<>> /\ queue' = <<>> /\ buffered' = {}
          /\ eventBlocked' = FALSE /\ task' = "aborted"
          /\ handlers' = [i \in StreamIds |-> NoCall]
          /\ UNCHANGED <<callVars, nextStream, clash, server, link, framed, events, keyspace, isBroken>>
      BY <2>5 DEF DropTransport, DropFutures
    <3>2. eventBlocked' \in BOOLEAN
      BY <3>1, Zenon
    <3> QED
      BY <3>1, <3>2, TransportAssumption DEF StreamIds
  <2>6. CASE Receive
    BY <2>6, TakeType DEF Receive
  <2>7. CASE Allocate
    <3>1. StreamOf(nextStream) \in StreamIds \cup {-1} /\ nextStream' \in -(StreamMax + 1) .. StreamMax
      BY <2>7, StreamType DEF Allocate
    <3>2. CASE StreamOf(nextStream) = -1
      BY <2>7, <3>1, <3>2 DEF Allocate
    <3>3. CASE StreamOf(nextStream) # -1
      <4>0. streamId' \in StreamIds /\ frameIds' = Append(frameIds, streamId')
        BY <2>7, <3>1, <3>3 DEF Allocate
      <4>1. /\ frameIds' \in Seq(StreamIds)
            /\ AddHandler(streamId', request)
            /\ wpc' \in {"handshake", "encode"}
            /\ UNCHANGED <<answer, queue, request, frame, chunk, netVars, readerVars, taskVars>>
        BY <2>7, <3>3, <4>0 DEF Allocate
      <4>2. request \in Calls
        BY <2>7 DEF Allocate
      <4>3. status' \in [Calls -> Statuses]
        BY <4>1, ResolveType DEF AddHandler, Statuses, TypeInv
      <4>4. handlers' \in [StreamIds -> Calls \cup {NoCall}]
        BY <4>1, <4>2, Zenon DEF AddHandler
      <4>5. clash' \in BOOLEAN
        BY <4>1 DEF AddHandler
      <4> QED
        BY <3>1, <4>0, <4>1, <4>2, <4>3, <4>4, <4>5
    <3> QED
      BY <3>2, <3>3
  <2>8. CASE Encode
    <3>1. Envelope \in Envelopes
      BY <2>8, EnvelopeType DEF Encode, TypeInv
    <3>2. frame' \in Seq(Envelopes)
      <4>1. frame' = frame \/ frame' = Append(frame, Envelope)
        BY <2>8 DEF Encode
      <4>2. frame \in Seq(Envelopes)
        OBVIOUS
      <4>3. Append(frame, Envelope) \in Seq(Envelopes)
        BY <3>1, <4>2, AppendType, Zenon
      <4> QED
        BY <4>1, <4>2, <4>3, Zenon
    <3>3. chunk' \in 0 .. Chunks /\ wpc' \in {"next", "write", "chunk"} /\ (wpc' = "chunk" => chunk' = Chunks)
      BY <2>8, TransportAssumption DEF Encode
    <3> QED
      BY <2>8, <3>2, <3>3, TransportAssumption DEF Encode
  <2>9. CASE TryReceive
    <3>1. request' \in Calls \cup {NoCall} /\ queue' \in Seq(Calls)
      <4>1. CASE queue = <<>>
        BY <2>9, <4>1 DEF TryReceive
      <4>2. CASE queue # <<>>
        <5>1. request' = Head(queue) /\ queue' = Tail(queue)
          BY <2>9, <4>2 DEF TryReceive
        <5>2. queue \in Seq(Calls)
          OBVIOUS
        <5>3. Head(queue) \in Calls /\ Tail(queue) \in Seq(Calls)
          BY <4>2, <5>2, TakeType, Zenon
        <5> QED
          BY <5>1, <5>3
      <4> QED
        BY <4>1, <4>2
    <3>2. wpc' \in {"alloc", "final", "flush"} /\ (wpc' = "alloc" => request' \in Calls)
      BY <2>9, TakeType DEF TryReceive
    <3> QED
      BY <2>9, <3>1, <3>2 DEF TryReceive
  <2>10. CASE HandshakeWritten
    <3>1. {Envelope} \in SUBSET Envelopes
      BY <2>10, EnvelopeType DEF HandshakeWritten, TypeInv
    <3>2. buffered' \subseteq Envelopes /\ server' \subseteq Envelopes /\ link' = link
      BY <2>10, <3>1, PutType DEF HandshakeWritten, TypeInv
    <3>3. wpc' \in {"next", "chunk", "encode", "flush"} /\ (wpc' \in {"chunk", "encode"} => request \in Calls)
      BY <2>10 DEF HandshakeWritten, AfterWrite
    <3>4. chunk' \in 0 .. Chunks /\ frame' \in Seq(Envelopes) /\ (wpc' = "chunk" => chunk' \in 1 .. Chunks)
      BY <2>10, TransportAssumption DEF HandshakeWritten, AfterWrite
    <3> QED
      BY <2>10, <3>2, <3>3, <3>4 DEF HandshakeWritten
  <2>11. CASE HandshakeError
    <3>1. /\ Fail(Resolve({handlers[streamId]}, "failed")) /\ answer' = answer /\ keyspace' = keyspace
          /\ handlers' \in [StreamIds -> Calls \cup {NoCall}]
      BY <2>11 DEF HandshakeError
    <3>2. Resolve({handlers[streamId]}, "failed") \in [Calls -> Statuses]
      BY ResolveType DEF Statuses, TypeInv
    <3>3. TypeOK'
      BY <3>1, <3>2, FailType, Zenon DEF TypeInv
    <3>4. wpc' = "dropped"
      BY <3>1 DEF Fail, DropFutures
    <3> QED
      BY <3>3, <3>4 DEF TypeInv, Working
  <2>12. CASE FrameWritten
    <3>1. {frame[i] : i \in DOMAIN frame} \in SUBSET Envelopes
      BY FrameType DEF TypeInv
    <3>2. buffered' \subseteq Envelopes /\ server' \subseteq Envelopes /\ link' = link
      BY <2>12, <3>1, PutType DEF FrameWritten, TypeInv
    <3>3. wpc' \in {"next", "chunk", "encode", "flush"} /\ (wpc' \in {"chunk", "encode"} => request \in Calls)
      BY <2>12 DEF FrameWritten, AfterWrite
    <3>4. chunk' \in 0 .. Chunks /\ frame' \in Seq(Envelopes) /\ (wpc' = "chunk" => chunk' \in 1 .. Chunks)
      BY <2>12, TransportAssumption DEF FrameWritten, AfterWrite
    <3> QED
      BY <2>12, <3>2, <3>3, <3>4 DEF FrameWritten
  <2>13. CASE FrameError
    <3>1. /\ status' \in [Calls -> Statuses]
          /\ handlers' \in [StreamIds -> Calls \cup {NoCall}]
          /\ UNCHANGED <<answer, nextStream, clash>>
      BY <2>13, ResolveType DEF FrameError, NotifyErrorHandlers, Statuses, TypeInv
    <3>2. wpc' \in {"next", "chunk", "encode", "flush"} /\ (wpc' \in {"chunk", "encode"} => request \in Calls)
      BY <2>13 DEF FrameError, AfterWrite
    <3>3. chunk' \in 0 .. Chunks /\ frame' \in Seq(Envelopes) /\ frameIds' \in Seq(StreamIds) /\ (wpc' = "chunk" => chunk' \in 1 .. Chunks)
      BY <2>13, TransportAssumption DEF FrameError, AfterWrite
    <3> QED
      BY <2>13, <3>1, <3>2, <3>3 DEF FrameError
  <2>14. CASE ChunkWritten
    <3>1. (IF chunk = 1 THEN {Envelope} ELSE {}) \in SUBSET Envelopes
      BY <2>14, EnvelopeType DEF ChunkWritten, TypeInv
    <3>2. buffered' \subseteq Envelopes /\ server' \subseteq Envelopes /\ link' = link
      BY <2>14, <3>1, PutType DEF ChunkWritten, TypeInv
    <3>3. wpc' \in {"next", "chunk", "encode", "flush"} /\ (wpc' \in {"chunk", "encode"} => request \in Calls)
      BY <2>14 DEF ChunkWritten, AfterWrite
    <3>4. chunk' \in 0 .. Chunks /\ frame' \in Seq(Envelopes) /\ (wpc' = "chunk" => chunk' \in 1 .. Chunks)
      BY <2>14, TransportAssumption DEF ChunkWritten, AfterWrite
    <3> QED
      BY <2>14, <3>2, <3>3, <3>4 DEF ChunkWritten
  <2>15. CASE ChunkError
    <3>1. /\ status' \in [Calls -> Statuses]
          /\ handlers' \in [StreamIds -> Calls \cup {NoCall}]
          /\ UNCHANGED <<answer, nextStream, clash>>
      BY <2>15, ResolveType DEF ChunkError, NotifyErrorHandlers, Statuses, TypeInv
    <3>2. wpc' \in {"next", "chunk", "encode", "flush"} /\ (wpc' \in {"chunk", "encode"} => request \in Calls)
      BY <2>15 DEF ChunkError, AfterWrite
    <3>3. chunk' \in 0 .. Chunks /\ frame' \in Seq(Envelopes) /\ frameIds' \in Seq(StreamIds) /\ (wpc' = "chunk" => chunk' \in 1 .. Chunks)
      BY <2>15, TransportAssumption DEF ChunkError, AfterWrite
    <3> QED
      BY <2>15, <3>1, <3>2, <3>3 DEF ChunkError
  <2>16. CASE Flushed
    BY <2>16 DEF Flushed
  <2>17. CASE WriterFails
    <3>1. /\ Fail(Resolve(HandledBy(NotifiedIds), "failed")) /\ answer' = answer /\ keyspace' = keyspace
          /\ handlers' \in [StreamIds -> Calls \cup {NoCall}]
      BY <2>17 DEF WriterFails
    <3>2. Resolve(HandledBy(NotifiedIds), "failed") \in [Calls -> Statuses]
      BY ResolveType DEF Statuses, TypeInv
    <3>3. TypeOK'
      BY <3>1, <3>2, FailType DEF TypeInv
    <3>4. wpc' = "dropped"
      BY <3>1 DEF Fail, DropFutures
    <3> QED
      BY <3>3, <3>4 DEF TypeInv, Working
  <2>18. ASSUME NEW e \in server, ReadHandshake(e) PROVE TypeInv'
    <3>1. PICK outcome \in Statuses : Deliver(e, outcome)
      BY <2>18 DEF ReadHandshake, Outcomes, Statuses
    <3>2. e \in Envelopes /\ e.call \in Calls
      BY <2>18 DEF Envelopes
    <3>3. status' \in [Calls -> Statuses]
      BY <3>1, ResolveType DEF Deliver, TypeInv
    <3>4. answer' \in [Calls -> Calls \cup {NoCall}] /\ handlers' \in [StreamIds -> Calls \cup {NoCall}]
      BY <3>1, <3>2, Zenon DEF Deliver
    <3>5. keyspace' \in Uses \cup {NoCall} /\ framed' \in BOOLEAN /\ UNCHANGED <<nextStream, clash>>
      BY <2>18, <3>1 DEF ReadHandshake, RecordKeyspace, Deliver
    <3> QED
      BY <2>18, <3>3, <3>4, <3>5 DEF ReadHandshake
  <2>19. ASSUME NEW e \in server, ReadHandshakeRefused(e) PROVE TypeInv'
    <3>1. Fail(status) /\ handlers' = handlers /\ answer' = answer /\ keyspace' \in Uses \cup {NoCall}
      BY <2>19 DEF ReadHandshakeRefused, RecordKeyspace
    <3>2. TypeOK'
      BY <3>1, FailType DEF TypeInv
    <3>3. wpc' = "dropped"
      BY <3>1 DEF Fail, DropFutures
    <3> QED
      BY <3>2, <3>3 DEF TypeInv, Working
  <2>20. ASSUME NEW e \in server, ReadResponse(e) PROVE TypeInv'
    <3>1. PICK outcome \in Statuses : Deliver(e, outcome)
      BY <2>20 DEF ReadResponse, Outcomes, Statuses
    <3>2. e \in Envelopes /\ e.call \in Calls
      BY <2>20 DEF Envelopes
    <3>3. status' \in [Calls -> Statuses]
      BY <3>1, ResolveType DEF Deliver, TypeInv
    <3>4. answer' \in [Calls -> Calls \cup {NoCall}] /\ handlers' \in [StreamIds -> Calls \cup {NoCall}]
      BY <3>1, <3>2, Zenon DEF Deliver
    <3>5. keyspace' \in Uses \cup {NoCall} /\ framed' \in BOOLEAN /\ UNCHANGED <<nextStream, clash>>
      BY <2>20, <3>1 DEF ReadResponse, RecordKeyspace, Deliver
    <3> QED
      BY <2>20, <3>3, <3>4, <3>5 DEF ReadResponse
  <2>21. ASSUME NEW e \in server, ReadUnmatched(e) PROVE TypeInv'
    <3>1. Fail(status) /\ handlers' = handlers /\ answer' = answer /\ keyspace' \in Uses \cup {NoCall}
      BY <2>21 DEF ReadUnmatched, RecordKeyspace
    <3>2. TypeOK'
      BY <3>1, FailType DEF TypeInv
    <3>3. wpc' = "dropped"
      BY <3>1 DEF Fail, DropFutures
    <3> QED
      BY <3>2, <3>3 DEF TypeInv, Working
  <2>22. CASE ReadFails
    <3>1. Fail(status) /\ handlers' = handlers /\ answer' = answer /\ keyspace' \in Uses \cup {NoCall}
      BY <2>22 DEF ReadFails, RecordKeyspace
    <3>2. TypeOK'
      BY <3>1, FailType DEF TypeInv
    <3>3. wpc' = "dropped"
      BY <3>1 DEF Fail, DropFutures
    <3> QED
      BY <3>2, <3>3 DEF TypeInv, Working
  <2>23. CASE ReadEvent
    BY <2>23, TransportAssumption DEF ReadEvent
  <2>24. CASE ForwardEvent
    <3>1. events' \in 0 .. EventCapacity
      BY <2>24, TransportAssumption DEF ForwardEvent
    <3>2. eventBlocked' \in BOOLEAN
      BY <2>24, Zenon DEF ForwardEvent
    <3> QED
      BY <2>24, <3>1, <3>2 DEF ForwardEvent
  <2>25. CASE MarkBroken
    BY <2>25 DEF MarkBroken
  <2>26. CASE SignalGeneralError
    <3>1. status' \in [Calls -> Statuses]
      BY <2>26, ResolveType DEF SignalGeneralError, Statuses, TypeInv
    <3> QED
      BY <2>26, <3>1 DEF SignalGeneralError
  <2>27. CASE ReportError
    BY <2>27 DEF ReportError
  <2>28. CASE ConsumeEvent
    BY <2>28, TransportAssumption DEF ConsumeEvent
  <2>29. CASE LinkDown
    BY <2>29 DEF LinkDown
  <2> QED
    BY <1>2, <2>1, <2>2, <2>3, <2>4, <2>5, <2>6, <2>7, <2>8, <2>9, <2>10, <2>11, <2>12, <2>13, <2>14, <2>15, <2>16, <2>17, <2>18, <2>19, <2>20, <2>21, <2>22, <2>23, <2>24, <2>25, <2>26, <2>27, <2>28, <2>29, Zenon
      DEF Next, CallerNext, WriterNext, ReadSome, TaskNext
<1> QED
  BY <1>1, <1>2

\* The state of a connection stays well formed whatever its callers, the
\* server and the network do.
THEOREM TypeCorrect == Spec => []TypeOK
<1>1. Init => TypeInv
  BY TypeInit
<1>2. TypeInv /\ [Next]_vars => TypeInv'
  BY TypeStep
<1>3. TypeInv => TypeOK
  BY DEF TypeInv
<1> QED
  BY <1>1, <1>2, <1>3, PTL DEF Spec
-----------------------------------------------------------------------------
(***************************************************************************)
(* Nobody waits forever on a connection that has failed.                   *)
(***************************************************************************)

\* Who is in the channel after one more request, and after one less.
LEMMA AppendMembers ==
    ASSUME NEW S, NEW q \in Seq(S), NEW x \in S, NEW y
    PROVE  (y = x \/ \E i \in DOMAIN q : q[i] = y)
              => \E i \in DOMAIN Append(q, x) : Append(q, x)[i] = y
<1>1. /\ DOMAIN Append(q, x) = 1 .. Len(q) + 1 /\ DOMAIN q = 1 .. Len(q) /\ Len(q) \in Nat
      /\ Append(q, x)[Len(q) + 1] = x
      /\ \A i \in DOMAIN q : Append(q, x)[i] = q[i]
  OBVIOUS
<1>2. CASE y = x
  BY <1>1, <1>2
<1>3. ASSUME NEW i \in DOMAIN q, q[i] = y
      PROVE  \E j \in DOMAIN Append(q, x) : Append(q, x)[j] = y
  <2>1. i \in DOMAIN Append(q, x) /\ Append(q, x)[i] = y
    BY <1>1, <1>3
  <2> QED
    BY <2>1
<1> QED
  BY <1>2, <1>3

\* Taking the first request removes nobody else from the channel.
LEMMA TakeMembers ==
    ASSUME NEW S, NEW q \in Seq(S), q # <<>>, NEW i \in DOMAIN q, q[i] # Head(q)
    PROVE  \E j \in DOMAIN Tail(q) : Tail(q)[j] = q[i]
<1>1. i # 1 /\ i - 1 \in DOMAIN Tail(q) /\ Tail(q)[i - 1] = q[i]
  OBVIOUS
<1> QED
  BY <1>1

\* A task that is over has dropped the channel and the writer, and once
\* signal_general_error has run the map is empty for good.
Wound ==
    /\ ~Running => queue = <<>> /\ wpc = "dropped"
    /\ task \in {"signalled", "stopped", "aborted"} =>
          \A i \in StreamIds : handlers[i] = NoCall

HeldInv == TypeInv /\ WaitingIsHeld /\ Wound

\* Failing closes the queued calls, so that only the map can hold a caller.
LEMMA FailHolds ==
    ASSUME HeldInv, AtAwait, NEW calls \in [Calls -> Statuses], Fail(calls),
           \A c \in Calls : calls[c] = "waiting" => status[c] = "waiting",
           \A c \in Calls : calls[c] = "waiting" =>
                \A i \in StreamIds : handlers[i] = c => handlers'[i] = c
    PROVE  WaitingIsHeld' /\ Wound'
<1>1. task' = "failed" /\ queue' = <<>> /\ wpc' = "dropped" /\ status' = CloseQueued(calls)
  BY DEF Fail, DropFutures
<1>2. Wound'
  BY <1>1 DEF Wound, Running
<1>3. ASSUME NEW c \in Calls, status'[c] = "waiting"
      PROVE  \E i \in StreamIds : handlers'[i] = c
  <2>1. calls[c] = "waiting" /\ ~ \E i \in DOMAIN queue : queue[i] = c
    BY <1>1, <1>3 DEF CloseQueued
  <2>2. wpc # "alloc" /\ status[c] = "waiting"
    BY <2>1 DEF AtAwait
  <2>3. \E i \in StreamIds : handlers[i] = c
    BY <2>1, <2>2 DEF HeldInv, WaitingIsHeld
  <2> QED
    BY <2>1, <2>3
<1> QED
  BY <1>2, <1>3 DEF WaitingIsHeld

\* Nobody waits on a fresh connection.
LEMMA HeldInit == Init => HeldInv
  BY TypeInit DEF Init, HeldInv, WaitingIsHeld, Wound, Running

\* No step of a caller, the writer, the reader or the failing task lets go of a
\* caller that still waits.
LEMMA HeldStep == HeldInv /\ [Next]_vars => HeldInv'
<1> SUFFICES ASSUME HeldInv, [Next]_vars PROVE WaitingIsHeld' /\ Wound'
  BY TypeStep DEF HeldInv
<1> USE DEF vars, callVars, mapVars, writerVars, netVars, readerVars, taskVars
<1>1. CASE UNCHANGED vars
  BY <1>1, SMTT(20) DEF HeldInv, WaitingIsHeld, Wound, Running
<1>2. CASE Next
  <2>1. ASSUME NEW x \in Calls, WriteEnvelope(x) PROVE WaitingIsHeld' /\ Wound'
    <3>0. /\ status \in [Calls -> Statuses] /\ queue \in Seq(Calls)
          /\ handlers \in [StreamIds -> Calls \cup {NoCall}] /\ WaitingIsHeld /\ Wound
      BY DEF HeldInv, TypeInv, TypeOK
    <3>1. /\ \A c \in Calls : status'[c] = "waiting" => status[c] = "waiting"
          /\ UNCHANGED <<queue, handlers, wpc, request, task>>
      BY <2>1, <3>0 DEF WriteEnvelope
    <3> QED
      BY <3>0, <3>1 DEF WaitingIsHeld, Wound, Running
  <2>2. ASSUME NEW x \in Calls, SendRequest(x) PROVE WaitingIsHeld' /\ Wound'
    <3>1. queue \in Seq(Calls) /\ queue' = Append(queue, x) /\ wpc' = wpc /\ request' = request
          /\ handlers' = handlers /\ task' = task /\ Running
      BY <2>2 DEF SendRequest, HeldInv, TypeInv, TypeOK
    <3>2. ASSUME NEW c \in Calls, status'[c] = "waiting", ~ \E i \in DOMAIN queue' : queue'[i] = c
          PROVE  (wpc = "alloc" /\ request = c) \/ \E i \in StreamIds : handlers[i] = c
      <4>1. c # x /\ ~ \E i \in DOMAIN queue : queue[i] = c
        BY <3>1, <3>2, AppendMembers
      <4>2. status[c] = "waiting"
        BY <2>2, <3>2, <4>1 DEF SendRequest, HeldInv, TypeInv, TypeOK
      <4> QED
        BY <4>1, <4>2 DEF HeldInv, WaitingIsHeld
    <3> QED
      BY <3>1, <3>2 DEF WaitingIsHeld, Wound, Running
  <2>3. ASSUME NEW x \in Calls, SendClosed(x) PROVE WaitingIsHeld' /\ Wound'
    <3>0. /\ status \in [Calls -> Statuses] /\ queue \in Seq(Calls)
          /\ handlers \in [StreamIds -> Calls \cup {NoCall}] /\ WaitingIsHeld /\ Wound
      BY DEF HeldInv, TypeInv, TypeOK
    <3>1. /\ \A c \in Calls : status'[c] = "waiting" => status[c] = "waiting"
          /\ UNCHANGED <<queue, handlers, wpc, request, task>>
      BY <2>3, <3>0 DEF SendClosed
    <3> QED
      BY <3>0, <3>1 DEF WaitingIsHeld, Wound, Running
  <2>4. ASSUME NEW x \in Calls, Cancel(x) PROVE WaitingIsHeld' /\ Wound'
    <3>0. /\ status \in [Calls -> Statuses] /\ queue \in Seq(Calls)
          /\ handlers \in [StreamIds -> Calls \cup {NoCall}] /\ WaitingIsHeld /\ Wound
      BY DEF HeldInv, TypeInv, TypeOK
    <3>1. /\ \A c \in Calls : status'[c] = "waiting" => status[c] = "waiting"
          /\ UNCHANGED <<queue, handlers, wpc, request, task>>
      BY <2>4, <3>0 DEF Cancel
    <3> QED
      BY <3>0, <3>1 DEF WaitingIsHeld, Wound, Running
  <2>5. CASE DropTransport
    <3>0. /\ status \in [Calls -> Statuses] /\ queue \in Seq(Calls)
          /\ handlers \in [StreamIds -> Calls \cup {NoCall}] /\ WaitingIsHeld /\ Wound
      BY DEF HeldInv, TypeInv, TypeOK
    <3>1. /\ \A c \in Calls : status'[c] # "waiting"
          /\ queue' = <<>> /\ wpc' = "dropped" /\ handlers' = [i \in StreamIds |-> NoCall]
      BY <2>5, <3>0 DEF DropTransport, DropFutures, Pending, callVars
    <3> QED
      BY <3>1 DEF WaitingIsHeld, Wound
  <2>6. CASE Receive
    <3>1. /\ queue \in Seq(Calls) /\ queue # <<>> /\ queue' = Tail(queue) /\ request' = Head(queue)
          /\ wpc # "alloc" /\ wpc' = "alloc" /\ UNCHANGED <<status, handlers, task>> /\ Running
      BY <2>6 DEF Receive, HeldInv, TypeInv, TypeOK
    <3>2. ASSUME NEW c \in Calls, status[c] = "waiting", c # request'
          PROVE  (\E i \in DOMAIN queue' : queue'[i] = c) \/ (\E i \in StreamIds : handlers[i] = c)
      <4>1. (\E i \in DOMAIN queue : queue[i] = c) \/ (\E i \in StreamIds : handlers[i] = c)
        BY <3>1, <3>2 DEF HeldInv, WaitingIsHeld
      <4>2. ASSUME NEW i \in DOMAIN queue, queue[i] = c
            PROVE  \E j \in DOMAIN queue' : queue'[j] = c
        <5>1. queue[i] # Head(queue) /\ queue \in Seq(Calls) /\ queue # <<>> /\ queue' = Tail(queue)
          BY <3>1, <3>2, <4>2
        <5>2. \E j \in DOMAIN Tail(queue) : Tail(queue)[j] = queue[i]
          BY <5>1, TakeMembers, Zenon
        <5> QED
          BY <5>1, <5>2, <4>2
      <4> QED
        BY <4>1, <4>2, ZenonT(30)
    <3> QED
      BY <3>1, <3>2 DEF WaitingIsHeld, Wound, Running
  <2>7. CASE Allocate
    <3>0. /\ status \in [Calls -> Statuses] /\ queue \in Seq(Calls)
          /\ handlers \in [StreamIds -> Calls \cup {NoCall}] /\ WaitingIsHeld /\ Wound
      BY DEF HeldInv, TypeInv, TypeOK
    <3>1. CASE StreamOf(nextStream) = -1
      BY <2>7, <3>0, <3>1 DEF Allocate, WaitingIsHeld, Wound, Running, mapVars
    <3>2. CASE StreamOf(nextStream) # -1
      <4>1. /\ streamId' \in StreamIds /\ handlers' = [handlers EXCEPT ![streamId'] = request]
            /\ status' = Resolve({handlers[streamId']}, "closed")
            /\ wpc = "alloc" /\ UNCHANGED <<queue, request, task>> /\ Running
        BY <2>7, <3>2, TypeStep, Zenon DEF Allocate, AddHandler, taskVars, HeldInv, TypeInv, TypeOK, Next, WriterNext
      <4>2. ASSUME NEW c \in Calls, status'[c] = "waiting", c # request
            PROVE  (\E i \in DOMAIN queue : queue[i] = c) \/ (\E i \in StreamIds : handlers'[i] = c)
        <5>1. status[c] = "waiting" /\ c # handlers[streamId']
          BY <4>1, <4>2 DEF Resolve
        <5> QED
          BY <3>0, <4>1, <4>2, <5>1 DEF WaitingIsHeld
      <4>3. handlers'[streamId'] = request
        BY <3>0, <4>1
      <4> QED
        BY <4>1, <4>2, <4>3 DEF WaitingIsHeld, Wound, Running
    <3> QED
      BY <3>1, <3>2
  <2>8. CASE Encode
    <3>1. /\ UNCHANGED <<status, queue, handlers>> /\ wpc # "alloc"
          /\ task = "running" /\ task' = "running"
      BY <2>8 DEF Encode, Running, AtAwait, Reading
    <3> QED
      BY <3>1 DEF HeldInv, WaitingIsHeld, Wound, Running
  <2>9. CASE TryReceive
    <3>1. CASE queue = <<>>
      BY <2>9, <3>1, SMTT(20) DEF TryReceive, HeldInv, WaitingIsHeld, Wound, Running
    <3>2. CASE queue # <<>>
      <4>1. /\ queue \in Seq(Calls) /\ queue # <<>> /\ queue' = Tail(queue) /\ request' = Head(queue)
            /\ wpc # "alloc" /\ wpc' = "alloc" /\ UNCHANGED <<status, handlers, task>> /\ Running
        BY <2>9, <3>2 DEF TryReceive, HeldInv, TypeInv, TypeOK
      <4>2. ASSUME NEW c \in Calls, status[c] = "waiting", c # request'
            PROVE  (\E i \in DOMAIN queue' : queue'[i] = c) \/ (\E i \in StreamIds : handlers[i] = c)
        <5>1. (\E i \in DOMAIN queue : queue[i] = c) \/ (\E i \in StreamIds : handlers[i] = c)
          BY <4>1, <4>2, Zenon DEF HeldInv, WaitingIsHeld
        <5>2. ASSUME NEW i \in DOMAIN queue, queue[i] = c
              PROVE  \E j \in DOMAIN queue' : queue'[j] = c
          <6>1. queue[i] # Head(queue) /\ queue \in Seq(Calls) /\ queue # <<>> /\ queue' = Tail(queue)
            BY <4>1, <4>2, <5>2
          <6>2. \E j \in DOMAIN Tail(queue) : Tail(queue)[j] = queue[i]
            BY <6>1, TakeMembers, Zenon
          <6> QED
            BY <6>1, <6>2, <5>2
        <5> QED
          BY <5>1, <5>2, Zenon
      <4> QED
        BY <4>1, <4>2 DEF WaitingIsHeld, Wound, Running
    <3> QED
      BY <3>1, <3>2
  <2>10. CASE HandshakeWritten
    <3>1. /\ UNCHANGED <<status, queue, handlers>> /\ wpc # "alloc"
          /\ task = "running" /\ task' = "running"
      BY <2>10 DEF HandshakeWritten, Running, AtAwait, Reading
    <3> QED
      BY <3>1 DEF HeldInv, WaitingIsHeld, Wound, Running
  <2>11. CASE HandshakeError
    <3>0. /\ status \in [Calls -> Statuses] /\ queue \in Seq(Calls)
          /\ handlers \in [StreamIds -> Calls \cup {NoCall}] /\ WaitingIsHeld /\ Wound
      BY DEF HeldInv, TypeInv, TypeOK
    <3>1. /\ handlers' = [handlers EXCEPT ![streamId] = NoCall]
          /\ Fail(Resolve({handlers[streamId]}, "failed")) /\ AtAwait
      BY <2>11 DEF HandshakeError, AtAwait
    <3>2. Resolve({handlers[streamId]}, "failed") \in [Calls -> Statuses]
      BY ResolveType DEF HeldInv, TypeInv, Statuses
    <3>3. ASSUME NEW c \in Calls, Resolve({handlers[streamId]}, "failed")[c] = "waiting"
          PROVE  status[c] = "waiting" /\ \A i \in StreamIds : handlers[i] = c => handlers'[i] = c
      BY <3>0, <3>1, <3>3, SMTT(20) DEF Resolve
    <3> QED
      BY <3>1, <3>2, <3>3, FailHolds
  <2>12. CASE FrameWritten
    <3>1. /\ UNCHANGED <<status, queue, handlers>> /\ wpc # "alloc"
          /\ task = "running" /\ task' = "running"
      BY <2>12 DEF FrameWritten, Running, AtAwait, Reading
    <3> QED
      BY <3>1 DEF HeldInv, WaitingIsHeld, Wound, Running
  <2>13. CASE FrameError
    <3>0. /\ status \in [Calls -> Statuses] /\ queue \in Seq(Calls)
          /\ handlers \in [StreamIds -> Calls \cup {NoCall}] /\ WaitingIsHeld /\ Wound
      BY DEF HeldInv, TypeInv, TypeOK
    <3>1. /\ handlers' = [i \in StreamIds |-> IF i \in NotifiedIds THEN NoCall ELSE handlers[i]]
          /\ status' = Resolve(HandledBy(NotifiedIds), "failed")
          /\ wpc # "alloc" /\ UNCHANGED <<queue, task>> /\ Running
      BY <2>13 DEF FrameError, NotifyErrorHandlers, taskVars
    <3>2. ASSUME NEW c \in Calls, status'[c] = "waiting"
          PROVE  (\E i \in DOMAIN queue : queue[i] = c) \/ (\E i \in StreamIds : handlers'[i] = c)
      <4>1. status[c] = "waiting" /\ c \notin HandledBy(NotifiedIds)
        BY <3>1, <3>2 DEF Resolve
      <4> QED
        BY <3>0, <3>1, <4>1 DEF WaitingIsHeld, HandledBy
    <3> QED
      BY <3>1, <3>2 DEF WaitingIsHeld, Wound, Running
  <2>14. CASE ChunkWritten
    <3>1. /\ UNCHANGED <<status, queue, handlers>> /\ wpc # "alloc"
          /\ task = "running" /\ task' = "running"
      BY <2>14 DEF ChunkWritten, Running, AtAwait, Reading
    <3> QED
      BY <3>1 DEF HeldInv, WaitingIsHeld, Wound, Running
  <2>15. CASE ChunkError
    <3>0. /\ status \in [Calls -> Statuses] /\ queue \in Seq(Calls)
          /\ handlers \in [StreamIds -> Calls \cup {NoCall}] /\ WaitingIsHeld /\ Wound
      BY DEF HeldInv, TypeInv, TypeOK
    <3>1. /\ handlers' = [i \in StreamIds |-> IF i \in NotifiedIds THEN NoCall ELSE handlers[i]]
          /\ status' = Resolve(HandledBy(NotifiedIds), "failed")
          /\ wpc # "alloc" /\ UNCHANGED <<queue, task>> /\ Running
      BY <2>15 DEF ChunkError, NotifyErrorHandlers, taskVars
    <3>2. ASSUME NEW c \in Calls, status'[c] = "waiting"
          PROVE  (\E i \in DOMAIN queue : queue[i] = c) \/ (\E i \in StreamIds : handlers'[i] = c)
      <4>1. status[c] = "waiting" /\ c \notin HandledBy(NotifiedIds)
        BY <3>1, <3>2 DEF Resolve
      <4> QED
        BY <3>0, <3>1, <4>1 DEF WaitingIsHeld, HandledBy
    <3> QED
      BY <3>1, <3>2 DEF WaitingIsHeld, Wound, Running
  <2>16. CASE Flushed
    <3>1. /\ UNCHANGED <<status, queue, handlers>> /\ wpc # "alloc"
          /\ task = "running" /\ task' = "running"
      BY <2>16 DEF Flushed, Running, AtAwait, Reading
    <3> QED
      BY <3>1 DEF HeldInv, WaitingIsHeld, Wound, Running
  <2>17. CASE WriterFails
    <3>0. /\ status \in [Calls -> Statuses] /\ queue \in Seq(Calls)
          /\ handlers \in [StreamIds -> Calls \cup {NoCall}] /\ WaitingIsHeld /\ Wound
      BY DEF HeldInv, TypeInv, TypeOK
    <3>1. /\ handlers' = [i \in StreamIds |-> IF i \in NotifiedIds THEN NoCall ELSE handlers[i]]
          /\ Fail(Resolve(HandledBy(NotifiedIds), "failed")) /\ AtAwait
      BY <2>17 DEF WriterFails, AtAwait
    <3>2. Resolve(HandledBy(NotifiedIds), "failed") \in [Calls -> Statuses]
      BY ResolveType DEF HeldInv, TypeInv, Statuses
    <3>3. ASSUME NEW c \in Calls, Resolve(HandledBy(NotifiedIds), "failed")[c] = "waiting"
          PROVE  status[c] = "waiting" /\ \A i \in StreamIds : handlers[i] = c => handlers'[i] = c
      BY <3>0, <3>1, <3>3 DEF Resolve, HandledBy
    <3> QED
      BY <3>1, <3>2, <3>3, FailHolds
  <2>18. ASSUME NEW e \in server, ReadHandshake(e) PROVE WaitingIsHeld' /\ Wound'
    <3>0. /\ status \in [Calls -> Statuses] /\ queue \in Seq(Calls)
          /\ handlers \in [StreamIds -> Calls \cup {NoCall}] /\ WaitingIsHeld /\ Wound
      BY DEF HeldInv, TypeInv, TypeOK
    <3>1. PICK outcome \in Statuses \ {"waiting"} : Deliver(e, outcome)
      BY <2>18, SMTT(20) DEF ReadHandshake, Outcomes, Statuses
    <3>2. /\ handlers' = [handlers EXCEPT ![e.id] = NoCall]
          /\ status' = Resolve({handlers[e.id]}, outcome)
          /\ wpc # "alloc" /\ UNCHANGED <<queue, wpc, task>> /\ Running
      BY <2>18, <3>1, SMTT(20) DEF ReadHandshake, Deliver, Slot, Reading, AtAwait, writerVars, taskVars
    <3>3. ASSUME NEW c \in Calls, status'[c] = "waiting"
          PROVE  (\E i \in DOMAIN queue : queue[i] = c) \/ (\E i \in StreamIds : handlers'[i] = c)
      <4>1. status[c] = "waiting" /\ c # handlers[e.id]
        BY <3>1, <3>2, <3>3 DEF Resolve
      <4> QED
        BY <3>0, <3>2, <4>1 DEF WaitingIsHeld
    <3> QED
      BY <3>2, <3>3 DEF WaitingIsHeld, Wound, Running
  <2>19. ASSUME NEW e \in server, ReadHandshakeRefused(e) PROVE WaitingIsHeld' /\ Wound'
    <3>1. AtAwait /\ Fail(status) /\ handlers' = handlers
      BY <2>19 DEF ReadHandshakeRefused, Reading
    <3>2. status \in [Calls -> Statuses]
      BY DEF HeldInv, TypeInv, TypeOK
    <3> QED
      BY <3>1, <3>2, FailHolds
  <2>20. ASSUME NEW e \in server, ReadResponse(e) PROVE WaitingIsHeld' /\ Wound'
    <3>0. /\ status \in [Calls -> Statuses] /\ queue \in Seq(Calls)
          /\ handlers \in [StreamIds -> Calls \cup {NoCall}] /\ WaitingIsHeld /\ Wound
      BY DEF HeldInv, TypeInv, TypeOK
    <3>1. PICK outcome \in Statuses \ {"waiting"} : Deliver(e, outcome)
      BY <2>20, SMTT(20) DEF ReadResponse, Outcomes, Statuses
    <3>2. /\ handlers' = [handlers EXCEPT ![e.id] = NoCall]
          /\ status' = Resolve({handlers[e.id]}, outcome)
          /\ wpc # "alloc" /\ UNCHANGED <<queue, wpc, task>> /\ Running
      BY <2>20, <3>1, SMTT(20) DEF ReadResponse, Deliver, Slot, Reading, AtAwait, writerVars, taskVars
    <3>3. ASSUME NEW c \in Calls, status'[c] = "waiting"
          PROVE  (\E i \in DOMAIN queue : queue[i] = c) \/ (\E i \in StreamIds : handlers'[i] = c)
      <4>1. status[c] = "waiting" /\ c # handlers[e.id]
        BY <3>1, <3>2, <3>3 DEF Resolve
      <4> QED
        BY <3>0, <3>2, <4>1 DEF WaitingIsHeld
    <3> QED
      BY <3>2, <3>3 DEF WaitingIsHeld, Wound, Running
  <2>21. ASSUME NEW e \in server, ReadUnmatched(e) PROVE WaitingIsHeld' /\ Wound'
    <3>1. AtAwait /\ Fail(status) /\ handlers' = handlers
      BY <2>21 DEF ReadUnmatched, Reading
    <3>2. status \in [Calls -> Statuses]
      BY DEF HeldInv, TypeInv, TypeOK
    <3> QED
      BY <3>1, <3>2, FailHolds
  <2>22. CASE ReadFails
    <3>1. AtAwait /\ Fail(status) /\ handlers' = handlers
      BY <2>22 DEF ReadFails, Reading
    <3>2. status \in [Calls -> Statuses]
      BY DEF HeldInv, TypeInv, TypeOK
    <3> QED
      BY <3>1, <3>2, FailHolds
  <2>23. CASE ReadEvent
    <3>1. UNCHANGED <<status, queue, handlers, wpc, request>>
      BY <2>23 DEF ReadEvent
    <3> QED
      BY <2>23, <3>1 DEF ReadEvent, HeldInv, WaitingIsHeld, Wound, Running
  <2>24. CASE ForwardEvent
    <3>1. UNCHANGED <<status, queue, handlers, wpc, request>>
      BY <2>24 DEF ForwardEvent
    <3> QED
      BY <2>24, <3>1 DEF ForwardEvent, HeldInv, WaitingIsHeld, Wound, Running
  <2>25. CASE MarkBroken
    <3>1. UNCHANGED <<status, queue, handlers, wpc, request>>
      BY <2>25 DEF MarkBroken
    <3> QED
      BY <2>25, <3>1 DEF MarkBroken, HeldInv, WaitingIsHeld, Wound, Running
  <2>26. CASE SignalGeneralError
    <3>0. /\ status \in [Calls -> Statuses] /\ queue \in Seq(Calls)
          /\ handlers \in [StreamIds -> Calls \cup {NoCall}] /\ WaitingIsHeld /\ Wound
      BY DEF HeldInv, TypeInv, TypeOK
    <3>1. /\ handlers' = [i \in StreamIds |-> NoCall] /\ queue = <<>> /\ UNCHANGED <<queue, wpc>>
          /\ status' = Resolve(HandledBy(StreamIds), "failed") /\ task' = "signalled" /\ wpc = "dropped"
      BY <2>26, <3>0 DEF SignalGeneralError, writerVars, Wound, Running
    <3>2. ASSUME NEW c \in Calls PROVE status'[c] # "waiting"
      <4>1. status[c] = "waiting" => c \in HandledBy(StreamIds)
        BY <3>0, <3>1 DEF WaitingIsHeld, HandledBy
      <4> QED
        BY <3>1, <4>1 DEF Resolve
    <3> QED
      BY <3>1, <3>2 DEF WaitingIsHeld, Wound, Running
  <2>27. CASE ReportError
    <3>1. UNCHANGED <<status, queue, handlers, wpc, request>>
      BY <2>27 DEF ReportError
    <3> QED
      BY <2>27, <3>1 DEF ReportError, HeldInv, WaitingIsHeld, Wound, Running
  <2>28. CASE ConsumeEvent
    <3>1. UNCHANGED <<status, queue, handlers, wpc, request>>
      BY <2>28 DEF ConsumeEvent
    <3> QED
      BY <2>28, <3>1 DEF ConsumeEvent, HeldInv, WaitingIsHeld, Wound, Running
  <2>29. CASE LinkDown
    <3>1. UNCHANGED <<status, queue, handlers, wpc, request>>
      BY <2>29 DEF LinkDown
    <3> QED
      BY <2>29, <3>1 DEF LinkDown, HeldInv, WaitingIsHeld, Wound, Running
  <2> QED
    BY <1>2, <2>1, <2>2, <2>3, <2>4, <2>5, <2>6, <2>7, <2>8, <2>9, <2>10, <2>11, <2>12, <2>13, <2>14, <2>15, <2>16, <2>17, <2>18, <2>19, <2>20, <2>21, <2>22, <2>23, <2>24, <2>25, <2>26, <2>27, <2>28, <2>29
      DEF Next, CallerNext, WriterNext, ReadSome, TaskNext
<1> QED
  BY <1>1, <1>2

\* A caller waiting for a response is always held by the channel, the writer
\* or the handler map.
THEOREM CallersAreHeld == Spec => []WaitingIsHeld
<1>1. HeldInv => WaitingIsHeld
  BY DEF HeldInv
<1> QED
  BY HeldInit, HeldStep, <1>1, PTL DEF Spec

\* When the task has reported its error, or was aborted, every caller has
\* been told.
THEOREM CallersAreReleased == Spec => []NobodyLeftBehind
<1>1. HeldInv => NobodyLeftBehind
  <2> SUFFICES ASSUME HeldInv, task \in {"signalled", "stopped", "aborted"}, NEW c \in Calls
               PROVE  status[c] # "waiting"
    BY Zenon DEF NobodyLeftBehind
  <2>1. queue = <<>> /\ wpc = "dropped" /\ \A i \in StreamIds : handlers[i] # c
    BY TransportAssumption DEF HeldInv, Wound, Running
  <2> QED
    BY <2>1 DEF HeldInv, WaitingIsHeld
<1> QED
  BY HeldInit, HeldStep, <1>1, PTL DEF Spec

-----------------------------------------------------------------------------
(***************************************************************************)
(* Responses reach their own callers.                                      *)
(***************************************************************************)

\* The envelope the writer has registered but not yet put anywhere.
Current == IF wpc \in {"encode", "handshake", "write", "chunk"} THEN {Envelope} ELSE {}

\* Every envelope that may still be answered.
Routable == InFlight \cup Current

\* The handler registered under an envelope's id, if any, is its caller's.
Routed == ~clash => \A e \in Routable : handlers[e.id] \in {e.call, NoCall}

OwnInv == TypeInv /\ Routed /\ ResponseIsOwn

\* What is under way are envelopes.
LEMMA RoutableType ==
    ASSUME TypeInv
    PROVE  Routable \subseteq Envelopes
<1>1. InFlight \subseteq Envelopes
  BY FrameType DEF TypeInv, TypeOK, InFlight
<1>2. Current \subseteq Envelopes
  BY EnvelopeType DEF TypeInv, Working, Current
<1> QED
  BY <1>1, <1>2 DEF Routable

\* Removing envelopes, or handlers, leaves the rest routed.
LEMMA RoutedKept ==
    ASSUME OwnInv, clash' = clash, Routable' \subseteq Routable,
           \A i \in StreamIds : handlers'[i] \in {handlers[i], NoCall}
    PROVE  Routed'
<1> SUFFICES ASSUME ~clash', NEW e \in Routable'
             PROVE  handlers'[e.id] \in {e.call, NoCall}
  BY DEF Routed
<1>1. e \in Routable /\ e.id \in StreamIds
  BY RoutableType DEF OwnInv, Envelopes
<1>2. handlers[e.id] \in {e.call, NoCall}
  BY <1>1 DEF OwnInv, Routed
<1> QED
  BY <1>1, <1>2

\* Appending an envelope adds that envelope and no other.
LEMMA AppendRange ==
    ASSUME NEW S, NEW q \in Seq(S), NEW x \in S
    PROVE  {Append(q, x)[i] : i \in DOMAIN Append(q, x)} \subseteq {q[i] : i \in DOMAIN q} \cup {x}
<1>1. /\ DOMAIN Append(q, x) = 1 .. Len(q) + 1 /\ DOMAIN q = 1 .. Len(q) /\ Len(q) \in Nat
      /\ Append(q, x)[Len(q) + 1] = x
      /\ \A i \in DOMAIN q : Append(q, x)[i] = q[i]
  OBVIOUS
<1>2. ASSUME NEW i \in DOMAIN Append(q, x)
      PROVE  Append(q, x)[i] \in {q[j] : j \in DOMAIN q} \cup {x}
  <2>1. i = Len(q) + 1 \/ i \in DOMAIN q
    BY <1>1
  <2> QED
    BY <1>1, <2>1
<1> QED
  BY <1>2

\* Writing an envelope does not create others.
LEMMA PutRoutable ==
    ASSUME NEW E, PutOnWire(E)
    PROVE  buffered' \cup server' \subseteq buffered \cup server \cup E
  BY DEF PutOnWire

\* Failing hands out no response.
LEMMA FailOwn ==
    ASSUME OwnInv, NEW calls, Fail(calls), answer' = answer,
           \A i \in StreamIds : handlers'[i] \in {handlers[i], NoCall}
    PROVE  Routed' /\ ResponseIsOwn'
<1>1. frame' = <<>> /\ buffered' = {} /\ server' = server /\ wpc' = "dropped" /\ clash' = clash
  BY DEF Fail, DropFutures
<1>2. Routable' \subseteq Routable
  <2>1. Current' = {}
    BY <1>1 DEF Current
  <2>2. InFlight' \subseteq InFlight
    BY <1>1 DEF InFlight
  <2> QED
    BY <2>1, <2>2 DEF Routable
<1>3. Routed'
  BY <1>1, <1>2, RoutedKept
<1> QED
  BY <1>1, <1>3 DEF OwnInv, ResponseIsOwn

\* Nothing is under way on a fresh connection.
LEMMA OwnInit == Init => OwnInv
<1> SUFFICES ASSUME Init PROVE Routed /\ ResponseIsOwn
  BY TypeInit DEF OwnInv
<1>1. Routable = {}
  BY DEF Init, Routable, InFlight, Current
<1> QED
  BY <1>1 DEF Init, Routed, ResponseIsOwn

\* No step makes two envelopes under way share an id, or answers the wrong
\* caller, unless an id was given out while in use.
LEMMA OwnStep == OwnInv /\ [Next]_vars => OwnInv'
<1> SUFFICES ASSUME OwnInv, [Next]_vars PROVE Routed' /\ ResponseIsOwn'
  BY TypeStep DEF OwnInv
<1> USE DEF vars, callVars, mapVars, writerVars, netVars, readerVars, taskVars
<1>1. CASE UNCHANGED vars
  <2>1. Routable' = Routable
    BY <1>1, SMTT(20) DEF Routable, InFlight, Current, Envelope
  <2> QED
    BY <1>1, <2>1 DEF OwnInv, Routed, ResponseIsOwn
<1>2. CASE Next
  <2>1. ASSUME NEW x \in Calls, WriteEnvelope(x) PROVE Routed' /\ ResponseIsOwn'
    <3>1. UNCHANGED <<frame, buffered, server, wpc, streamId, request, handlers, answer, clash>>
      BY <2>1, ZenonT(20), SMTT(20) DEF WriteEnvelope
    <3>2. Routable' \subseteq Routable
      BY <3>1, SMTT(20) DEF Routable, InFlight, Current, Envelope
    <3> QED
      BY <3>1, <3>2, RoutedKept, ZenonT(20), SMTT(20) DEF OwnInv, ResponseIsOwn
  <2>2. ASSUME NEW x \in Calls, SendRequest(x) PROVE Routed' /\ ResponseIsOwn'
    <3>1. UNCHANGED <<frame, buffered, server, wpc, streamId, request, handlers, answer, clash>>
      BY <2>2 DEF SendRequest
    <3>2. Routable' \subseteq Routable
      BY <3>1, SMTT(20) DEF Routable, InFlight, Current, Envelope
    <3> QED
      BY <3>1, <3>2, RoutedKept DEF OwnInv, ResponseIsOwn
  <2>3. ASSUME NEW x \in Calls, SendClosed(x) PROVE Routed' /\ ResponseIsOwn'
    <3>1. UNCHANGED <<frame, buffered, server, wpc, streamId, request, handlers, answer, clash>>
      BY <2>3 DEF SendClosed
    <3>2. Routable' \subseteq Routable
      BY <3>1, SMTT(20) DEF Routable, InFlight, Current, Envelope
    <3> QED
      BY <3>1, <3>2, RoutedKept DEF OwnInv, ResponseIsOwn
  <2>4. ASSUME NEW x \in Calls, Cancel(x) PROVE Routed' /\ ResponseIsOwn'
    <3>1. UNCHANGED <<frame, buffered, server, wpc, streamId, request, handlers, answer, clash>>
      BY <2>4, SMTT(20) DEF Cancel
    <3>2. Routable' \subseteq Routable
      BY <3>1, SMTT(20) DEF Routable, InFlight, Current, Envelope
    <3> QED
      BY <3>1, <3>2, RoutedKept DEF OwnInv, ResponseIsOwn
  <2>5. CASE DropTransport
    <3>1. /\ frame' = <<>> /\ buffered' = {} /\ wpc' = "dropped" /\ UNCHANGED <<server, clash, answer>>
          /\ handlers' = [i \in StreamIds |-> NoCall]
      BY <2>5 DEF DropTransport, DropFutures
    <3>2. Routable' \subseteq Routable
      <4>1. Current' = {}
        BY <3>1 DEF Current
      <4>2. InFlight' \subseteq InFlight
        BY <3>1 DEF InFlight
      <4> QED
        BY <4>1, <4>2 DEF Routable
    <3> QED
      BY <3>1, <3>2, RoutedKept DEF OwnInv, ResponseIsOwn
  <2>6. CASE Receive
    <3>1. UNCHANGED <<frame, buffered, server, handlers, answer, clash>> /\ wpc' \notin {"encode", "handshake", "write", "chunk"}
      BY <2>6 DEF Receive
    <3>2. Routable' \subseteq Routable
      BY <3>1 DEF Routable, InFlight, Current
    <3> QED
      BY <3>1, <3>2, RoutedKept DEF OwnInv, ResponseIsOwn
  <2>7. CASE Allocate
    <3>1. CASE StreamOf(nextStream) = -1
      <4>1. UNCHANGED <<frame, buffered, server, wpc, streamId, request, handlers, answer, clash>>
        BY <2>7, <3>1, SMTT(20) DEF Allocate
      <4>2. Routable' \subseteq Routable
        BY <4>1, SMTT(20) DEF Routable, InFlight, Current, Envelope
      <4> QED
        BY <4>1, <4>2, RoutedKept DEF OwnInv, ResponseIsOwn
    <3>2. CASE StreamOf(nextStream) # -1
      <4>1. /\ UNCHANGED <<frame, buffered, server, request, answer>>
            /\ wpc' \in {"handshake", "encode"} /\ streamId' \in StreamIds
            /\ handlers' = [handlers EXCEPT ![streamId'] = request]
            /\ clash' = (clash \/ Outstanding(streamId'))
        BY <2>7, <3>2, StreamType, Zenon DEF Allocate, AddHandler, OwnInv, TypeInv, TypeOK
      <4>2. Routable' = InFlight \cup {[id |-> streamId', call |-> request]}
        BY <4>1, Zenon DEF Routable, InFlight, Current, Envelope
      <4>3. ASSUME ~clash', NEW e \in Routable'
            PROVE  handlers'[e.id] \in {e.call, NoCall}
        <5>1. ~clash /\ ~Outstanding(streamId')
          BY <4>1, <4>3, Zenon
        <5>2. CASE e \in InFlight
          <6>1. e.id # streamId' /\ e.id \in StreamIds
            BY <5>1, <5>2, RoutableType DEF Outstanding, Routable, OwnInv, Envelopes
          <6>2. handlers[e.id] \in {e.call, NoCall}
            BY <5>1, <5>2 DEF OwnInv, Routed, Routable
          <6> QED
            BY <4>1, <6>1, <6>2, ZenonT(20), SMTT(20) DEF OwnInv, TypeInv, TypeOK
        <5>3. CASE e = [id |-> streamId', call |-> request]
          BY <4>1, <5>3 DEF OwnInv, TypeInv, TypeOK
        <5> QED
          BY <4>2, <4>3, <5>2, <5>3
      <4>4. ~clash' => ~clash
        BY <4>1, Zenon
      <4> QED
        BY <4>1, <4>3, <4>4 DEF OwnInv, Routed, ResponseIsOwn
    <3> QED
      BY <3>1, <3>2
  <2>8. CASE Encode
    <3>1. UNCHANGED <<buffered, server, streamId, request, handlers, answer, clash>> /\ wpc = "encode"
      BY <2>8 DEF Encode
    <3>2. Routable' \subseteq Routable
      <4>1. CASE frame' = Append(frame, Envelope) /\ wpc' = "next"
        <5>1. frame \in Seq(Envelopes) /\ Envelope \in Envelopes
          BY <3>1, EnvelopeType, SMTT(20) DEF OwnInv, TypeInv, TypeOK, Working
        <5>2. {frame'[i] : i \in DOMAIN frame'} \subseteq {frame[i] : i \in DOMAIN frame} \cup {Envelope}
          <6> DEFINE after == Append(frame, Envelope)
          <6>1. {after[i] : i \in DOMAIN after} \subseteq {frame[i] : i \in DOMAIN frame} \cup {Envelope}
            BY <5>1, AppendRange, SMTT(20)
          <6> QED
            BY <4>1, <6>1
        <5> QED
          BY <3>1, <4>1, <5>2, SMTT(20) DEF Routable, InFlight, Current
      <4>2. CASE frame' = frame
        BY <3>1, <4>2 DEF Routable, InFlight, Current, Envelope
      <4> QED
        BY <2>8, <4>1, <4>2 DEF Encode
    <3> QED
      BY <3>1, <3>2, RoutedKept, Zenon DEF OwnInv, ResponseIsOwn
  <2>9. CASE TryReceive
    <3>1. UNCHANGED <<frame, buffered, server, handlers, answer, clash>> /\ wpc' \notin {"encode", "handshake", "write", "chunk"}
      BY <2>9 DEF TryReceive
    <3>2. Routable' \subseteq Routable
      BY <3>1, SMTT(20) DEF Routable, InFlight, Current
    <3> QED
      BY <3>1, <3>2, RoutedKept DEF OwnInv, ResponseIsOwn
  <2>10. CASE HandshakeWritten
    <3>1. UNCHANGED <<streamId, request, handlers, answer, clash>>
      BY <2>10 DEF HandshakeWritten
    <3>2. Routable' \subseteq Routable
      <4>1. buffered' \cup server' \subseteq Routable
        <5>1. {Envelope} \subseteq Routable
          BY <2>10, Zenon DEF HandshakeWritten, Routable, InFlight, Current
        <5> QED
          BY <2>10, <5>1, PutRoutable, Zenon DEF HandshakeWritten, Routable, InFlight
      <4>2. {frame'[i] : i \in DOMAIN frame'} \subseteq Routable
        BY <2>10 DEF HandshakeWritten, Routable, InFlight
      <4>3. Current' \subseteq Routable
        BY <2>10, <3>1 DEF HandshakeWritten, AfterWrite, Routable, Current, Envelope
      <4> QED
        BY <4>1, <4>2, <4>3 DEF Routable, InFlight
    <3> QED
      BY <3>1, <3>2, RoutedKept DEF OwnInv, ResponseIsOwn
  <2>11. CASE HandshakeError
    <3>1. /\ Fail(Resolve({handlers[streamId]}, "failed")) /\ answer' = answer
          /\ \A i \in StreamIds : handlers'[i] \in {handlers[i], NoCall}
      BY <2>11, SMTT(20) DEF HandshakeError, OwnInv, TypeInv, TypeOK
    <3> QED
      BY <3>1, FailOwn
  <2>12. CASE FrameWritten
    <3>1. UNCHANGED <<streamId, request, handlers, answer, clash>>
      BY <2>12 DEF FrameWritten
    <3>2. Routable' \subseteq Routable
      <4>1. buffered' \cup server' \subseteq Routable
        <5>1. {frame[i] : i \in DOMAIN frame} \subseteq Routable
          BY <2>12 DEF FrameWritten, Routable, InFlight, Current
        <5> QED
          BY <2>12, <5>1, PutRoutable DEF FrameWritten, Routable, InFlight
      <4>2. {frame'[i] : i \in DOMAIN frame'} \subseteq Routable
        BY <2>12 DEF FrameWritten, Routable, InFlight
      <4>3. Current' \subseteq Routable
        BY <2>12, <3>1, SMTT(20) DEF FrameWritten, AfterWrite, Routable, Current, Envelope
      <4> QED
        BY <4>1, <4>2, <4>3 DEF Routable, InFlight
    <3> QED
      BY <3>1, <3>2, RoutedKept DEF OwnInv, ResponseIsOwn
  <2>13. CASE FrameError
    <3>1. /\ UNCHANGED <<buffered, server, streamId, request, answer, clash>>
          /\ \A i \in StreamIds : handlers'[i] \in {handlers[i], NoCall}
      BY <2>13 DEF FrameError, NotifyErrorHandlers
    <3>2. Routable' \subseteq Routable
      <4>1. {frame'[i] : i \in DOMAIN frame'} \subseteq Routable
        BY <2>13 DEF FrameError, Routable, InFlight
      <4>2. Current' \subseteq Current
        BY <2>13, <3>1, SMTT(20) DEF FrameError, AfterWrite, Current, Envelope
      <4> QED
        BY <3>1, <4>1, <4>2, Zenon DEF Routable, InFlight
    <3> QED
      BY <3>1, <3>2, RoutedKept DEF OwnInv, ResponseIsOwn
  <2>14. CASE ChunkWritten
    <3>1. UNCHANGED <<streamId, request, handlers, answer, clash>>
      BY <2>14, SMTT(20) DEF ChunkWritten
    <3>2. Routable' \subseteq Routable
      <4>1. buffered' \cup server' \subseteq Routable
        <5>1. (IF chunk = 1 THEN {Envelope} ELSE {}) \subseteq Routable
          BY <2>14 DEF ChunkWritten, Routable, InFlight, Current
        <5> QED
          BY <2>14, <5>1, PutRoutable, SMTT(20) DEF ChunkWritten, Routable, InFlight
      <4>2. {frame'[i] : i \in DOMAIN frame'} \subseteq Routable
        BY <2>14 DEF ChunkWritten, Routable, InFlight
      <4>3. Current' \subseteq Routable
        BY <2>14, <3>1, SMTT(20) DEF ChunkWritten, AfterWrite, Routable, Current, Envelope
      <4> QED
        BY <4>1, <4>2, <4>3, SMTT(20) DEF Routable, InFlight
    <3> QED
      BY <3>1, <3>2, RoutedKept DEF OwnInv, ResponseIsOwn
  <2>15. CASE ChunkError
    <3>1. /\ UNCHANGED <<buffered, server, streamId, request, answer, clash>>
          /\ \A i \in StreamIds : handlers'[i] \in {handlers[i], NoCall}
      BY <2>15 DEF ChunkError, NotifyErrorHandlers
    <3>2. Routable' \subseteq Routable
      <4>1. {frame'[i] : i \in DOMAIN frame'} \subseteq Routable
        BY <2>15 DEF ChunkError, Routable, InFlight
      <4>2. Current' \subseteq Current
        BY <2>15, <3>1 DEF ChunkError, AfterWrite, Current, Envelope
      <4> QED
        BY <3>1, <4>1, <4>2, Zenon DEF Routable, InFlight
    <3> QED
      BY <3>1, <3>2, RoutedKept DEF OwnInv, ResponseIsOwn
  <2>16. CASE Flushed
    <3>1. UNCHANGED <<frame, handlers, answer, clash>> /\ wpc' = "recv"
      BY <2>16 DEF Flushed
    <3>2. Routable' \subseteq Routable
      BY <2>16, <3>1 DEF Flushed, Routable, InFlight, Current
    <3> QED
      BY <3>1, <3>2, RoutedKept DEF OwnInv, ResponseIsOwn
  <2>17. CASE WriterFails
    <3>1. /\ Fail(Resolve(HandledBy(NotifiedIds), "failed")) /\ answer' = answer
          /\ \A i \in StreamIds : handlers'[i] \in {handlers[i], NoCall}
      BY <2>17 DEF WriterFails, OwnInv, TypeInv, TypeOK
    <3> QED
      BY <3>1, FailOwn
  <2>18. ASSUME NEW e \in server, ReadHandshake(e) PROVE Routed' /\ ResponseIsOwn'
    <3>1. PICK outcome : Deliver(e, outcome)
      BY <2>18, ZenonT(20), SMTT(20) DEF ReadHandshake
    <3>2. /\ UNCHANGED <<frame, buffered, wpc, streamId, request, clash>> /\ server' \subseteq server
          /\ handlers' = [handlers EXCEPT ![e.id] = NoCall] /\ handlers[e.id] # NoCall
      <4>1. UNCHANGED <<frame, buffered, wpc, streamId, request>> /\ server' = server \ {e}
        BY <2>18, Zenon DEF ReadHandshake
      <4>2. handlers[e.id] # NoCall
        BY <2>18, Zenon DEF ReadHandshake
      <4>3. clash' = clash /\ handlers' = [handlers EXCEPT ![e.id] = NoCall]
        BY <3>1, Zenon DEF Deliver, Slot
      <4> QED
        BY <4>1, <4>2, <4>3
    <3>3. Routable' \subseteq Routable
      BY <3>2 DEF Routable, InFlight, Current, Envelope
    <3>4. Routed'
      BY <3>2, <3>3, RoutedKept, ZenonT(20), SMTT(20) DEF OwnInv, TypeInv, TypeOK
    <3>5. ASSUME ~clash, NEW c \in Calls PROVE answer'[c] \in {c, NoCall}
      <4>1. handlers[e.id] = e.call
        BY <2>18, <3>2, <3>5 DEF OwnInv, Routed, Routable, InFlight
      <4>2. answer[c] \in {c, NoCall}
        BY <3>5 DEF OwnInv, ResponseIsOwn
      <4> QED
        BY <3>1, <4>1, <4>2 DEF Deliver, Slot
    <3> QED
      BY <3>2, <3>4, <3>5, Zenon DEF ResponseIsOwn
  <2>19. ASSUME NEW e \in server, ReadHandshakeRefused(e) PROVE Routed' /\ ResponseIsOwn'
    <3>1. /\ Fail(status) /\ answer' = answer
          /\ \A i \in StreamIds : handlers'[i] \in {handlers[i], NoCall}
      BY <2>19, SMTT(20) DEF ReadHandshakeRefused, OwnInv, TypeInv, TypeOK
    <3> QED
      BY <3>1, FailOwn
  <2>20. ASSUME NEW e \in server, ReadResponse(e) PROVE Routed' /\ ResponseIsOwn'
    <3>1. PICK outcome : Deliver(e, outcome)
      BY <2>20, ZenonT(30) DEF ReadResponse
    <3>2. /\ UNCHANGED <<frame, buffered, wpc, streamId, request, clash>> /\ server' \subseteq server
          /\ handlers' = [handlers EXCEPT ![e.id] = NoCall] /\ handlers[e.id] # NoCall
      <4>1. UNCHANGED <<frame, buffered, wpc, streamId, request>> /\ server' = server \ {e}
        BY <2>20, Zenon DEF ReadResponse
      <4>2. handlers[e.id] # NoCall
        BY <2>20, Zenon DEF ReadResponse
      <4>3. clash' = clash /\ handlers' = [handlers EXCEPT ![e.id] = NoCall]
        BY <3>1, Zenon DEF Deliver, Slot
      <4> QED
        BY <4>1, <4>2, <4>3
    <3>3. Routable' \subseteq Routable
      BY <3>2 DEF Routable, InFlight, Current, Envelope
    <3>4. Routed'
      BY <3>2, <3>3, RoutedKept, ZenonT(20), SMTT(20) DEF OwnInv, TypeInv, TypeOK
    <3>5. ASSUME ~clash, NEW c \in Calls PROVE answer'[c] \in {c, NoCall}
      <4>1. handlers[e.id] = e.call
        BY <2>20, <3>2, <3>5 DEF OwnInv, Routed, Routable, InFlight
      <4>2. answer[c] \in {c, NoCall}
        BY <3>5 DEF OwnInv, ResponseIsOwn
      <4> QED
        BY <3>1, <4>1, <4>2 DEF Deliver, Slot
    <3> QED
      BY <3>2, <3>4, <3>5 DEF ResponseIsOwn
  <2>21. ASSUME NEW e \in server, ReadUnmatched(e) PROVE Routed' /\ ResponseIsOwn'
    <3>1. /\ Fail(status) /\ answer' = answer
          /\ \A i \in StreamIds : handlers'[i] \in {handlers[i], NoCall}
      BY <2>21 DEF ReadUnmatched, OwnInv, TypeInv, TypeOK
    <3> QED
      BY <3>1, FailOwn
  <2>22. CASE ReadFails
    <3>1. /\ Fail(status) /\ answer' = answer
          /\ \A i \in StreamIds : handlers'[i] \in {handlers[i], NoCall}
      BY <2>22 DEF ReadFails, OwnInv, TypeInv, TypeOK
    <3> QED
      BY <3>1, FailOwn
  <2>23. CASE ReadEvent
    <3>1. UNCHANGED <<frame, buffered, server, wpc, streamId, request, handlers, answer, clash>>
      BY <2>23 DEF ReadEvent
    <3>2. Routable' \subseteq Routable
      BY <3>1, ZenonT(20), SMTT(20) DEF Routable, InFlight, Current, Envelope
    <3> QED
      BY <3>1, <3>2, RoutedKept, Zenon DEF OwnInv, ResponseIsOwn
  <2>24. CASE ForwardEvent
    <3>1. UNCHANGED <<frame, buffered, server, wpc, streamId, request, handlers, answer, clash>>
      BY <2>24, SMTT(20) DEF ForwardEvent
    <3>2. Routable' \subseteq Routable
      BY <3>1, ZenonT(20), SMTT(20) DEF Routable, InFlight, Current, Envelope
    <3> QED
      BY <3>1, <3>2, RoutedKept DEF OwnInv, ResponseIsOwn
  <2>25. CASE MarkBroken
    <3>1. UNCHANGED <<frame, buffered, server, wpc, streamId, request, handlers, answer, clash>>
      BY <2>25 DEF MarkBroken
    <3>2. Routable' \subseteq Routable
      BY <3>1, ZenonT(20), SMTT(20) DEF Routable, InFlight, Current, Envelope
    <3> QED
      BY <3>1, <3>2, RoutedKept DEF OwnInv, ResponseIsOwn
  <2>26. CASE SignalGeneralError
    <3>1. /\ UNCHANGED <<frame, buffered, server, wpc, streamId, request, answer, clash>>
          /\ handlers' = [i \in StreamIds |-> NoCall]
      BY <2>26, SMTT(20) DEF SignalGeneralError
    <3>2. Routable' \subseteq Routable
      BY <3>1, ZenonT(20), SMTT(20) DEF Routable, InFlight, Current, Envelope
    <3> QED
      BY <3>1, <3>2, RoutedKept DEF OwnInv, ResponseIsOwn
  <2>27. CASE ReportError
    <3>1. UNCHANGED <<frame, buffered, server, wpc, streamId, request, handlers, answer, clash>>
      BY <2>27, SMTT(20) DEF ReportError
    <3>2. Routable' \subseteq Routable
      BY <3>1, ZenonT(20), SMTT(20) DEF Routable, InFlight, Current, Envelope
    <3> QED
      BY <3>1, <3>2, RoutedKept DEF OwnInv, ResponseIsOwn
  <2>28. CASE ConsumeEvent
    <3>1. UNCHANGED <<frame, buffered, server, wpc, streamId, request, handlers, answer, clash>>
      BY <2>28, SMTT(20) DEF ConsumeEvent
    <3>2. Routable' \subseteq Routable
      BY <3>1 DEF Routable, InFlight, Current, Envelope
    <3> QED
      BY <3>1, <3>2, RoutedKept DEF OwnInv, ResponseIsOwn
  <2>29. CASE LinkDown
    <3>1. UNCHANGED <<frame, buffered, server, wpc, streamId, request, handlers, answer, clash>>
      BY <2>29, SMTT(20) DEF LinkDown
    <3>2. Routable' \subseteq Routable
      BY <3>1 DEF Routable, InFlight, Current, Envelope
    <3> QED
      BY <3>1, <3>2, RoutedKept DEF OwnInv, ResponseIsOwn
  <2> QED
    BY <1>2, <2>1, <2>2, <2>3, <2>4, <2>5, <2>6, <2>7, <2>8, <2>9, <2>10, <2>11, <2>12, <2>13, <2>14, <2>15, <2>16, <2>17, <2>18, <2>19, <2>20, <2>21, <2>22, <2>23, <2>24, <2>25, <2>26, <2>27, <2>28, <2>29
      DEF Next, CallerNext, WriterNext, ReadSome, TaskNext
<1> QED
  BY <1>1, <1>2

\* As long as no id was handed out while still in use, every caller gets the
\* response to its own request.
THEOREM ResponsesAreOwn == Spec => []ResponseIsOwn
<1>1. OwnInv => ResponseIsOwn
  BY DEF OwnInv
<1> QED
  BY OwnInit, OwnStep, <1>1, PTL DEF Spec

-----------------------------------------------------------------------------
(***************************************************************************)
(* A successful USE is in effect when its caller hears of it.              *)
(***************************************************************************)

\* Until the handshake is answered, STARTUP is the only call ever made.
FramedInv ==
    /\ ~framed => \A c \in Calls \ {Startup} : status[c] = "idle"
    /\ status[Startup] = "answered" => framed

UseInv == OwnInv /\ FramedInv

\* What every step that is not the delivery of a response leaves alone.
Quiet ==
    /\ framed' = framed
    /\ \A c \in Calls :
          /\ status'[c] = "answered" => status[c] = "answered"
          /\ (~framed /\ c # Startup) => status'[c] = "idle"

Delivery == \E e \in server : ReadHandshake(e) \/ ReadResponse(e)

\* Only reading a response answers a caller.
LEMMA QuietOrDelivery == UseInv /\ Next => Quiet \/ Delivery
<1> SUFFICES ASSUME UseInv, Next PROVE Quiet \/ Delivery
  OBVIOUS
<1>0. /\ status \in [Calls -> Statuses]
      /\ ~framed => \A c \in Calls \ {Startup} : status[c] = "idle"
  BY DEF UseInv, OwnInv, TypeInv, TypeOK, FramedInv
<1>2. Next
  OBVIOUS
<1> USE DEF vars, callVars, mapVars, writerVars, netVars, readerVars, taskVars
<1>a1. ASSUME NEW x \in Calls, WriteEnvelope(x) PROVE Quiet \/ Delivery
  BY <1>a1, <1>0 DEF WriteEnvelope, Quiet, UseInv, FramedInv
<1>a2. ASSUME NEW x \in Calls, SendRequest(x) PROVE Quiet \/ Delivery
  BY <1>a2, <1>0 DEF SendRequest, Quiet
<1>a3. ASSUME NEW x \in Calls, SendClosed(x) PROVE Quiet \/ Delivery
  BY <1>a3, <1>0 DEF SendClosed, Quiet
<1>a4. ASSUME NEW x \in Calls, Cancel(x) PROVE Quiet \/ Delivery
  BY <1>a4, <1>0 DEF Cancel, Quiet, Pending
<1>a5. CASE DropTransport
  BY <1>a5, <1>0 DEF DropTransport, Quiet
<1>a6. CASE Receive
  BY <1>a6, <1>0 DEF Receive, Quiet
<1>a7. CASE Allocate
  BY <1>a7, <1>0 DEF Allocate, Quiet, AddHandler, Resolve
<1>a8. CASE Encode
  BY <1>a8, <1>0 DEF Encode, Quiet
<1>a9. CASE TryReceive
  BY <1>a9, <1>0 DEF TryReceive, Quiet
<1>a10. CASE HandshakeWritten
  BY <1>a10, <1>0 DEF HandshakeWritten, Quiet
<1>a11. CASE HandshakeError
  BY <1>a11, <1>0 DEF HandshakeError, Quiet, Fail, CloseQueued, Resolve
<1>a12. CASE FrameWritten
  BY <1>a12, <1>0 DEF FrameWritten, Quiet
<1>a13. CASE FrameError
  BY <1>a13, <1>0 DEF FrameError, Quiet, Resolve, NotifyErrorHandlers
<1>a14. CASE ChunkWritten
  BY <1>a14, <1>0 DEF ChunkWritten, Quiet
<1>a15. CASE ChunkError
  BY <1>a15, <1>0 DEF ChunkError, Quiet, Resolve, NotifyErrorHandlers
<1>a16. CASE Flushed
  BY <1>a16, <1>0 DEF Flushed, Quiet
<1>a17. CASE WriterFails
  BY <1>a17, <1>0 DEF WriterFails, Quiet, Fail, CloseQueued, Resolve
<1>a18. ASSUME NEW e \in server, ReadHandshake(e) PROVE Quiet \/ Delivery
  BY <1>a18 DEF Delivery
<1>a19. ASSUME NEW e \in server, ReadHandshakeRefused(e) PROVE Quiet \/ Delivery
  BY <1>a19, <1>0 DEF ReadHandshakeRefused, Quiet, Fail, CloseQueued, Resolve
<1>a20. ASSUME NEW e \in server, ReadResponse(e) PROVE Quiet \/ Delivery
  BY <1>a20 DEF Delivery
<1>a21. ASSUME NEW e \in server, ReadUnmatched(e) PROVE Quiet \/ Delivery
  BY <1>a21, <1>0, Zenon DEF ReadUnmatched, Quiet, Fail, CloseQueued, Resolve
<1>a22. CASE ReadFails
  BY <1>a22, <1>0 DEF ReadFails, Quiet, Fail, CloseQueued, Resolve
<1>a23. CASE ReadEvent
  BY <1>a23, <1>0 DEF ReadEvent, Quiet
<1>a24. CASE ForwardEvent
  BY <1>a24, <1>0 DEF ForwardEvent, Quiet
<1>a25. CASE MarkBroken
  BY <1>a25, <1>0 DEF MarkBroken, Quiet
<1>a26. CASE SignalGeneralError
  BY <1>a26, <1>0 DEF SignalGeneralError, Quiet, Resolve, NotifyErrorHandlers
<1>a27. CASE ReportError
  BY <1>a27, <1>0 DEF ReportError, Quiet
<1>a28. CASE ConsumeEvent
  BY <1>a28, <1>0 DEF ConsumeEvent, Quiet
<1>a29. CASE LinkDown
  BY <1>a29, <1>0 DEF LinkDown, Quiet
<1> QED
  BY <1>2, <1>a1, <1>a2, <1>a3, <1>a4, <1>a5, <1>a6, <1>a7, <1>a8, <1>a9, <1>a10, <1>a11, <1>a12, <1>a13, <1>a14, <1>a15, <1>a16, <1>a17, <1>a18, <1>a19, <1>a20, <1>a21, <1>a22, <1>a23, <1>a24, <1>a25, <1>a26, <1>a27, <1>a28, <1>a29
    DEF Next, CallerNext, WriterNext, ReadSome, TaskNext

\* A delivery answers the call registered under the envelope's id only, and
\* if it is a USE that succeeded, the keyspace is recorded in the same step.
LEMMA DeliveryRecords ==
    ASSUME UseInv, NEW e \in server, ReadHandshake(e) \/ ReadResponse(e),
           ~clash, NEW u \in Uses, status[u] # "answered", status'[u] = "answered"
    PROVE  keyspace' = u
<1>1. handlers[e.id] = e.call
  <2>1. e \in Routable /\ handlers[e.id] # NoCall
    BY DEF Routable, InFlight, ReadHandshake, ReadResponse
  <2> QED
    BY <2>1, SMTT(20) DEF UseInv, OwnInv, Routed
<1>2. u \in Calls \ {Startup}
  BY TransportAssumption
<1>3. CASE ReadResponse(e)
  <2>1. PICK outcome \in Outcomes(e) : Deliver(e, outcome) /\ RecordKeyspace(e, outcome)
    BY <1>3, ZenonT(20), SMTT(20) DEF ReadResponse
  <2>2. u = e.call /\ outcome = "answered"
    <3>1. status' = [c \in Calls |-> IF c \in {e.call} /\ status[c] = "waiting" THEN outcome ELSE status[c]]
      BY <1>1, <2>1, Zenon DEF Deliver, Slot, Resolve
    <3>2. status'[u] = IF u = e.call /\ status[u] = "waiting" THEN outcome ELSE status[u]
      BY <1>2, <3>1
    <3> QED
      BY <3>2
  <2> QED
    BY <2>1, <2>2, SMTT(20) DEF RecordKeyspace
<1>4. CASE ReadHandshake(e)
  <2>1. status[u] = "idle"
    BY <1>2, <1>4, ZenonT(30) DEF ReadHandshake, UseInv, FramedInv
  <2>2. status'[u] = status[u]
    BY <1>2, <1>4, <2>1 DEF ReadHandshake, Deliver, Resolve
  <2> QED
    BY <2>1, <2>2
<1> QED
  BY <1>3, <1>4

\* The reader switches to the framed protocol at the handshake, before any
\* other call was registered.
LEMMA FramedStep == UseInv /\ [Next]_vars => FramedInv'
<1> SUFFICES ASSUME UseInv, [Next]_vars PROVE FramedInv'
  OBVIOUS
<1>1. CASE UNCHANGED vars
  BY <1>1 DEF UseInv, FramedInv, vars, callVars, readerVars
<1>2. CASE Quiet
  BY <1>2, TransportAssumption DEF Quiet, UseInv, FramedInv
<1>3. CASE Delivery
  <2>1. framed' = TRUE
    BY <1>3, Zenon DEF Delivery, ReadHandshake, ReadResponse
  <2> QED
    BY <2>1 DEF FramedInv
<1> QED
  BY <1>1, <1>2, <1>3, QuietOrDelivery

\* When a caller is told that its USE succeeded, that keyspace is the one
\* the session has recorded.
THEOREM UseTakesEffect == Spec => UseIsInEffect
<1>1. Init => UseInv
  BY OwnInit, TransportAssumption DEF UseInv, FramedInv, Init
<1>2. UseInv /\ [Next]_vars => UseInv'
  BY OwnStep, FramedStep DEF UseInv
<1>3. UseInv /\ [Next]_vars =>
        [\A u \in Uses : (~clash /\ status[u] # "answered" /\ status'[u] = "answered")
                            => keyspace' = u]_vars
  <2> SUFFICES ASSUME UseInv, Next, NEW u \in Uses,
                      ~clash, status[u] # "answered", status'[u] = "answered"
               PROVE  keyspace' = u
    OBVIOUS
  <2>1. Delivery
    BY QuietOrDelivery, TransportAssumption DEF Quiet
  <2> QED
    BY <2>1, DeliveryRecords DEF Delivery
<1> QED
  BY <1>1, <1>2, <1>3, PTL DEF Spec, UseIsInEffect

-----------------------------------------------------------------------------
(***************************************************************************)
(* The error report comes after the flag.                                  *)
(***************************************************************************)
BrokenInv == task \in {"broken", "signalled", "stopped"} => isBroken

\* When the pool hears of the error, is_broken is already set.
THEOREM ReportsComeAfterBroken == Spec => []ReportedIsBroken
<1>1. Init => BrokenInv
  BY DEF Init, BrokenInv
<1>2. BrokenInv /\ [Next]_vars => BrokenInv'
  <2> SUFFICES ASSUME BrokenInv, [Next]_vars PROVE BrokenInv'
    OBVIOUS
  <2>1. CASE task' = task /\ isBroken' = isBroken
    BY <2>1 DEF BrokenInv
  <2>2. CASE task' \in {"failed", "aborted"}
    BY <2>2 DEF BrokenInv
  <2>3. CASE MarkBroken \/ SignalGeneralError \/ ReportError
    BY <2>3 DEF BrokenInv, MarkBroken, SignalGeneralError, ReportError
  <2> QED
    BY <2>1, <2>2, <2>3, Zenon DEF Next, vars, taskVars, CallerNext, WriterNext, ReadSome, TaskNext,
       WriteEnvelope, SendRequest, SendClosed, Cancel, DropTransport, Receive, Allocate, Encode,
       TryReceive, HandshakeWritten, HandshakeError, FrameWritten, FrameError, ChunkWritten,
       ChunkError, Flushed, WriterFails, ReadHandshake, ReadHandshakeRefused, ReadResponse,
       ReadUnmatched, ReadFails, ReadEvent, ForwardEvent, ConsumeEvent, LinkDown, Fail
<1>3. BrokenInv => ReportedIsBroken
  BY DEF BrokenInv, ReportedIsBroken
<1> QED
  BY <1>1, <1>2, <1>3, PTL DEF Spec

=============================================================================
