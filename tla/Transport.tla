------------------------------ MODULE Transport ------------------------------
(***************************************************************************)
(* One multiplexed connection to a Cassandra node: AsyncTransport of       *)
(* cdrs-tokio/src/transport.rs.  Many callers run write_envelope; one task *)
(* (start_processing) polls a writer and a reader that share the map from  *)
(* stream ids to the oneshot senders of the callers.                       *)
(*                                                                         *)
(* The writer and the reader are futures of the SAME task, so a reader     *)
(* step happens only while the writer is suspended at an await (AtAwait).  *)
(* Callers are other tasks and interleave everywhere.                      *)
(***************************************************************************)
EXTENDS Integers, Sequences

CONSTANTS
    Calls,          \* the write_envelope calls made on this connection
    NoCall,         \* "no handler" in the map, "no request" in the writer
    Startup,        \* the handshake call (STARTUP); it is made first
    Uses,           \* calls that send a USE statement; each names a keyspace
    Large,          \* calls whose envelope does not fit in an empty frame
    Chunks,         \* frames a Large envelope is cut into
    FrameCapacity,  \* envelopes one self-contained frame can hold
    BufferSize,     \* capacity of the channel from callers to the writer
    EventCapacity,  \* capacity of the event handler's channel
    StreamMax       \* i16::MAX, shrunk for model checking

INITIAL_STREAM_ID == 1

ASSUME TransportAssumption ==
    /\ NoCall \notin Calls
    /\ Startup \in Calls
    /\ Large \subseteq Calls \ {Startup} /\ Uses \subseteq Calls \ {Startup}
    /\ Chunks \in Nat \ {0, 1}
    /\ FrameCapacity \in Nat \ {0}
    /\ BufferSize \in Nat \ {0}
    /\ EventCapacity \in Nat \ {0}
    /\ StreamMax \in Nat \ {0}

VARIABLES
    status,         \* [Calls -> ...] how far each write_envelope call is
    answer,         \* [Calls -> Calls \cup {NoCall}] whose response a call got
    queue,          \* write_sender/write_receiver: calls not yet picked up
    handlers,       \* stream_handlers: [stream id -> call or NoCall]
    nextStream,     \* available_stream_id, an AtomicI16
    wpc,            \* where the writer is suspended or about to run
    request,        \* the request the writer is working on
    streamId,       \* the id set_stream_id wrote into that request
    frame,          \* envelopes in frame_encoder's buffer
    frameIds,       \* frame_stream_ids
    chunk,          \* frames of a Large envelope still to write
    buffered,       \* envelopes accepted by the BufWriter, not yet flushed
    server,         \* envelopes that reached the server and are unanswered
    link,           \* "up" or "down": the TCP/TLS stream
    framed,         \* TRUE once the reader reads frames, not bare envelopes
    eventBlocked,   \* the reader awaits event_handler.send
    events,         \* events in the event handler's channel
    keyspace,       \* keyspace_holder: the USE recorded last, or NoCall
    task,           \* progress of start_processing
    isBroken,       \* is_broken
    clash           \* history: a stream id was reused while still in use

callVars   == <<status, answer>>
mapVars    == <<handlers, nextStream, clash>>
writerVars == <<wpc, request, streamId, frame, frameIds, chunk>>
netVars    == <<buffered, server, link>>
readerVars == <<framed, eventBlocked, events, keyspace>>
taskVars   == <<task, isBroken>>
vars == <<callVars, queue, mapVars, writerVars, netVars, readerVars, taskVars>>

StreamIds == 0 .. StreamMax
Envelopes == [id : StreamIds, call : Calls]
Pending   == {"sending", "waiting"}

(***************************************************************************)
(* ResponseHandlerMap                                                      *)
(***************************************************************************)

\* AtomicI16::fetch_add wraps around in two's complement.
WrapI16(n) == IF n > StreamMax THEN -(StreamMax + 1) ELSE n

\* One iteration of next_stream_id: the id it returns, or -1 when the
\* compare_exchange on the value fetched fails and the loop continues.
\* The fetch_add has already moved the counter past that value.
StreamOf(n) ==
    IF n >= 0 THEN n
    ELSE IF WrapI16(n + 1) = n THEN INITIAL_STREAM_ID ELSE -1

CounterAfter(n) ==
    IF n < 0 /\ WrapI16(n + 1) = n THEN INITIAL_STREAM_ID ELSE WrapI16(n + 1)

\* Envelopes carrying a stream id that somebody may still answer.
InFlight == {frame[i] : i \in DOMAIN frame} \cup buffered \cup server

Outstanding(id) ==
    \/ handlers[id] # NoCall
    \/ \E e \in InFlight : e.id = id

\* Sending on (or dropping) the oneshots of calls whose receivers may be gone.
Resolve(S, outcome) ==
    [c \in Calls |-> IF c \in S /\ status[c] = "waiting" THEN outcome ELSE status[c]]

HandledBy(ids) == {c \in Calls : \E i \in ids : handlers[i] = c}

\* add_handler: HashMap::insert drops the sender it replaces, which wakes
\* its caller with a RecvError.
AddHandler(id, c) ==
    /\ handlers' = [handlers EXCEPT ![id] = c]
    /\ status' = Resolve({handlers[id]}, "closed")
    /\ clash' = (clash \/ Outstanding(id))

\* send_response with an error for every id of frame_stream_ids in turn,
\* stopping at the first that has no handler (left, if it occurs twice).
Matched(k) ==
    \A i \in 1 .. k : /\ handlers[frameIds[i]] # NoCall
                      /\ \A j \in 1 .. (i - 1) : frameIds[j] # frameIds[i]

NotifiedIds ==
    {frameIds[i] : i \in {k \in DOMAIN frameIds : Matched(k)}}

AllMatched == Matched(Len(frameIds))

NotifyErrorHandlers ==
    /\ handlers' = [i \in StreamIds |-> IF i \in NotifiedIds THEN NoCall
                                                             ELSE handlers[i]]
    /\ status' = Resolve(HandledBy(NotifiedIds), "failed")
    /\ UNCHANGED <<answer, nextStream, clash>>

-----------------------------------------------------------------------------
Init ==
    /\ status = [c \in Calls |-> "idle"]
    /\ answer = [c \in Calls |-> NoCall]
    /\ queue = <<>>
    /\ handlers = [i \in StreamIds |-> NoCall]
    /\ nextStream = INITIAL_STREAM_ID
    /\ clash = FALSE
    /\ wpc = "recv" /\ request = NoCall /\ streamId = 0
    /\ frame = <<>> /\ frameIds = <<>> /\ chunk = 0
    /\ buffered = {} /\ server = {} /\ link = "up"
    /\ framed = FALSE /\ eventBlocked = FALSE /\ events = 0 /\ keyspace = NoCall
    /\ task = "running" /\ isBroken = FALSE

Running == task = "running"

\* The writer is suspended, so the other future of the task may be polled.
AtAwait == wpc \in {"recv", "handshake", "write", "chunk", "final", "flush"}

\* What the two futures own besides the queue and the map.
DropFutures ==
    /\ wpc' = "dropped" /\ request' = NoCall /\ streamId' = 0
    /\ frame' = <<>> /\ frameIds' = <<>> /\ chunk' = 0
    /\ buffered' = {}

\* Faulty variant: requests left in the channel are forgotten.
ForgetQueued(calls) == calls

\* The receiving end of the channel goes, and the requests queued in it.
CloseQueued(calls) ==
    [c \in Calls |-> IF calls[c] = "waiting" /\ \E i \in DOMAIN queue : queue[i] = c
                     THEN "closed" ELSE calls[c]]

\* The task returns an error: try_join drops both futures.
Fail(calls) ==
    /\ task' = "failed"
    /\ queue' = <<>>
    /\ status' = CloseQueued(calls)
    /\ DropFutures
    /\ eventBlocked' = FALSE
    /\ UNCHANGED <<server, link, framed, events, isBroken, nextStream, clash>>

-----------------------------------------------------------------------------
(***************************************************************************)
(* Callers: write_envelope.                                                *)
(***************************************************************************)

\* The connection is handed out by the connection manager only after
\* startup has got its answer.
WriteEnvelope(c) ==
    /\ status[c] = "idle"
    /\ c # Startup => status[Startup] = "answered"
    /\ task # "aborted"
    /\ status' = [status EXCEPT ![c] = "sending"]
    /\ UNCHANGED <<answer, queue, mapVars, writerVars, netVars, readerVars, taskVars>>

SendRequest(c) ==
    /\ status[c] = "sending"
    /\ Running
    /\ Len(queue) < BufferSize
    /\ queue' = Append(queue, c)
    /\ status' = [status EXCEPT ![c] = "waiting"]
    /\ UNCHANGED <<answer, mapVars, writerVars, netVars, readerVars, taskVars>>

\* "Connection closed when writing data!"
SendClosed(c) ==
    /\ status[c] = "sending"
    /\ ~Running
    /\ status' = [status EXCEPT ![c] = "closed"]
    /\ UNCHANGED <<answer, queue, mapVars, writerVars, netVars, readerVars, taskVars>>

\* The caller drops its future, e.g. on a timeout of its own.
Cancel(c) ==
    /\ status[c] \in Pending
    /\ status' = [status EXCEPT ![c] = "cancelled"]
    /\ UNCHANGED <<answer, queue, mapVars, writerVars, netVars, readerVars, taskVars>>

\* Dropping the last reference aborts the task at its next (or current)
\* await; a task that has ended is left alone.  write_envelope borrows the
\* transport, so no call is pending then, and none can be made after.
DropTransport ==
    /\ \A c \in Calls : status[c] \notin Pending
    /\ status[Startup] # "idle"
    /\ (Running /\ AtAwait) \/ task = "signalled"
    /\ task' = "aborted"
    /\ queue' = <<>>
    /\ handlers' = [i \in StreamIds |-> NoCall]
    /\ DropFutures
    /\ eventBlocked' = FALSE
    /\ UNCHANGED <<callVars, nextStream, clash, server, link, framed, events, keyspace, isBroken>>

-----------------------------------------------------------------------------
(***************************************************************************)
(* The writer: start_writing.                                              *)
(***************************************************************************)

\* The outer recv().await: a new batch starts.
Receive ==
    /\ Running /\ wpc = "recv" /\ queue # <<>>
    /\ request' = Head(queue)
    /\ queue' = Tail(queue)
    /\ frameIds' = <<>>
    /\ wpc' = "alloc"
    /\ UNCHANGED <<callVars, mapVars, streamId, frame, chunk, netVars, readerVars, taskVars>>

\* One iteration of next_stream_id, then set_stream_id and add_handler.
Allocate ==
    /\ Running /\ wpc = "alloc"
    /\ nextStream' = CounterAfter(nextStream)
    /\ \/ /\ StreamOf(nextStream) = -1
          /\ UNCHANGED <<status, handlers, clash, streamId, frameIds, wpc>>
       \/ /\ StreamOf(nextStream) # -1
          /\ streamId' = StreamOf(nextStream)
          /\ frameIds' = Append(frameIds, streamId')
          /\ AddHandler(streamId', request)
          /\ wpc' = IF request = Startup THEN "handshake" ELSE "encode"
    /\ UNCHANGED <<answer, queue, request, frame, chunk, netVars, readerVars, taskVars>>

Envelope == [id |-> streamId, call |-> request]

CanFit == request \notin Large /\ Len(frame) < FrameCapacity

\* frame_encoder: add the envelope, or first flush the frame it does not fit
\* in, or cut it into frames of its own.
Encode ==
    /\ Running /\ wpc = "encode"
    /\ \/ /\ CanFit
          /\ frame' = Append(frame, Envelope)
          /\ wpc' = "next"
          /\ UNCHANGED chunk
       \/ /\ ~CanFit /\ frame # <<>>
          /\ wpc' = "write"
          /\ UNCHANGED <<frame, chunk>>
       \/ /\ ~CanFit /\ frame = <<>>
          /\ chunk' = Chunks
          /\ wpc' = "chunk"
          /\ UNCHANGED frame
    /\ UNCHANGED <<callVars, queue, mapVars, request, streamId, frameIds, netVars, readerVars, taskVars>>

\* try_recv: go on with the next request of the batch, or write the last
\* frame and flush.
TryReceive ==
    /\ Running /\ wpc = "next"
    /\ \/ /\ queue # <<>>
          /\ request' = Head(queue)
          /\ queue' = Tail(queue)
          /\ wpc' = "alloc"
       \/ /\ queue = <<>>
          /\ request' = NoCall
          /\ wpc' = IF frame # <<>> THEN "final" ELSE "flush"
          /\ UNCHANGED queue
    /\ UNCHANGED <<callVars, mapVars, streamId, frame, frameIds, chunk, netVars, readerVars, taskVars>>

\* write_all succeeds.  The BufWriter keeps the bytes or, when its buffer is
\* exceeded, passes everything on; a stream that is down swallows them.
PutOnWire(envelopes) ==
    /\ \/ link = "up" /\ buffered' = buffered \cup envelopes /\ UNCHANGED server
       \/ link = "up" /\ server' = server \cup buffered \cup envelopes /\ buffered' = {}
       \/ link = "down" /\ UNCHANGED <<buffered, server>>
    /\ UNCHANGED link

\* A handshake envelope is written as it is.
HandshakeWritten ==
    /\ Running /\ wpc = "handshake"
    /\ PutOnWire({Envelope})
    /\ wpc' = "next"
    /\ UNCHANGED <<callVars, queue, mapVars, request, streamId, frame, frameIds, chunk, readerVars, taskVars>>

HandshakeError ==
    /\ Running /\ wpc = "handshake" /\ link = "down"
    /\ handlers' = [handlers EXCEPT ![streamId] = NoCall]
    /\ Fail(Resolve({handlers[streamId]}, "failed"))
    /\ UNCHANGED <<answer, keyspace>>

\* Faulty variant: the last frame of a batch is not flushed.
AfterWriteUnflushed == IF wpc = "write" THEN "encode" ELSE "recv"

\* write_self_contained_frame succeeds, before another envelope is added
\* ("write") or at the end of the batch ("final").
AfterWrite == IF wpc = "write" THEN "encode" ELSE "flush"

FrameWritten ==
    /\ Running /\ wpc \in {"write", "final"}
    /\ PutOnWire({frame[i] : i \in DOMAIN frame})
    /\ frame' = <<>>
    /\ wpc' = AfterWrite
    /\ UNCHANGED <<callVars, queue, mapVars, request, streamId, frameIds, chunk, readerVars, taskVars>>

\* write_frame fails: every id of the batch so far is told, the one about to
\* be encoded included, and the writer carries on as if it had succeeded.
FrameError ==
    /\ Running /\ wpc \in {"write", "final"} /\ link = "down"
    /\ AllMatched
    /\ NotifyErrorHandlers
    /\ frame' = <<>> /\ frameIds' = <<>>
    /\ wpc' = AfterWrite
    /\ UNCHANGED <<queue, request, streamId, chunk, netVars, readerVars, taskVars>>

\* One frame of a Large envelope is written; the envelope is complete, and
\* can be answered, after the last one.
ChunkWritten ==
    /\ Running /\ wpc = "chunk"
    /\ PutOnWire(IF chunk = 1 THEN {Envelope} ELSE {})
    /\ chunk' = chunk - 1
    /\ wpc' = IF chunk = 1 THEN "next" ELSE "chunk"
    /\ UNCHANGED <<callVars, queue, mapVars, request, streamId, frame, frameIds, readerVars, taskVars>>

ChunkError ==
    /\ Running /\ wpc = "chunk" /\ link = "down"
    /\ AllMatched
    /\ NotifyErrorHandlers
    /\ frameIds' = <<>>
    /\ chunk' = chunk - 1
    /\ wpc' = IF chunk = 1 THEN "next" ELSE "chunk"
    /\ UNCHANGED <<queue, request, streamId, frame, netVars, readerVars, taskVars>>

Flushed ==
    /\ Running /\ wpc = "flush"
    /\ buffered' = {}
    /\ server' = IF link = "up" THEN server \cup buffered ELSE server
    /\ wpc' = "recv"
    /\ UNCHANGED <<callVars, queue, mapVars, request, streamId, frame, frameIds, chunk, link, readerVars, taskVars>>

\* The writer returns an error: flush failed, or notify_error_handlers met
\* an id without a handler ("Unmatched stream id").
WriterFails ==
    /\ Running /\ link = "down"
    /\ \/ wpc = "flush"
       \/ wpc \in {"write", "final", "chunk"} /\ ~AllMatched
    /\ handlers' = [i \in StreamIds |-> IF i \in NotifiedIds THEN NoCall
                                                             ELSE handlers[i]]
    /\ Fail(Resolve(HandledBy(NotifiedIds), "failed"))
    /\ UNCHANGED <<answer, keyspace>>

-----------------------------------------------------------------------------
(***************************************************************************)
(* The reader.                                                             *)
(***************************************************************************)
Reading == Running /\ AtAwait /\ ~eventBlocked

\* Faulty variant: responses are taken to arrive in the order of requests.
OldestSlot(e) ==
    CHOOSE i \in StreamIds : /\ handlers[i] # NoCall
                             /\ \A j \in StreamIds : handlers[j] # NoCall => i <= j

\* Where the handler of a response is looked up.
Slot(e) == e.id

\* send_response for an envelope the server answered.
Deliver(e, outcome) ==
    /\ handlers' = [handlers EXCEPT ![Slot(e)] = NoCall]
    /\ status' = Resolve({handlers[Slot(e)]}, outcome)
    /\ answer' = [c \in Calls |->
                    IF c = handlers[Slot(e)] /\ status[c] = "waiting" THEN e.call ELSE answer[c]]
    /\ UNCHANGED <<nextStream, clash>>

\* start_reading_handshake_frames: Ready or Authenticate.  From here on the
\* stream carries frames.
ReadHandshake(e) ==
    /\ Reading /\ ~framed
    /\ handlers[e.id] # NoCall
    /\ Deliver(e, "answered")
    /\ server' = server \ {e}
    /\ framed' = TRUE
    /\ UNCHANGED <<queue, writerVars, buffered, link, eventBlocked, events, keyspace, taskVars>>

\* parse_envelope turns an Error envelope into an error of the reader.
ReadHandshakeRefused(e) ==
    /\ Reading /\ ~framed
    /\ handlers' = handlers
    /\ Fail(status)
    /\ UNCHANGED <<answer, keyspace>>

\* A SetKeyspace result is recorded before the response is sent on, whether
\* or not somebody still waits for it.  For calls that are not USE
\* statements "answered" also stands for an error reported by the server.
Outcomes(e) == IF e.call \in Uses THEN {"answered", "refused"} ELSE {"answered"}

RecordKeyspace(e, outcome) ==
    keyspace' = IF e.call \in Uses /\ outcome = "answered" THEN e.call ELSE keyspace

\* start_reading_normal_frames: a response.
ReadResponse(e) ==
    /\ Reading /\ framed
    /\ handlers[e.id] # NoCall
    /\ \E outcome \in Outcomes(e) : Deliver(e, outcome) /\ RecordKeyspace(e, outcome)
    /\ server' = server \ {e}
    /\ UNCHANGED <<queue, writerVars, buffered, link, framed, eventBlocked, events, taskVars>>

\* "unmatched stream - probably a bug somewhere"
ReadUnmatched(e) ==
    /\ Reading /\ framed
    /\ handlers[e.id] = NoCall
    /\ \E outcome \in Outcomes(e) : RecordKeyspace(e, outcome)
    /\ handlers' = handlers
    /\ Fail(status)
    /\ UNCHANGED answer

\* EOF, a read error, or bytes the decoder rejects.
ReadFails ==
    /\ Reading /\ link = "down"
    /\ handlers' = handlers
    /\ Fail(status)
    /\ UNCHANGED <<answer, keyspace>>

\* A server event is forwarded on a bounded channel; the reader waits while
\* the channel is full.
ReadEvent ==
    /\ Reading /\ framed
    /\ eventBlocked' = TRUE
    /\ UNCHANGED <<callVars, queue, mapVars, writerVars, netVars, framed, events, keyspace, taskVars>>

ForwardEvent ==
    /\ Running /\ AtAwait /\ eventBlocked
    /\ events < EventCapacity
    /\ events' = events + 1
    /\ eventBlocked' = FALSE
    /\ UNCHANGED <<callVars, queue, mapVars, writerVars, netVars, framed, keyspace, taskVars>>

\* External: process_events of the control connection takes an event.
ConsumeEvent ==
    /\ events > 0
    /\ events' = events - 1
    /\ UNCHANGED <<callVars, queue, mapVars, writerVars, netVars, framed, eventBlocked, keyspace, taskVars>>

\* External: the stream is reset, closed, or corrupted.
LinkDown ==
    /\ link = "up"
    /\ link' = "down"
    /\ UNCHANGED <<callVars, queue, mapVars, writerVars, buffered, server, readerVars, taskVars>>

-----------------------------------------------------------------------------
(***************************************************************************)
(* The end of start_processing: three stores visible to other tasks.       *)
(***************************************************************************)
MarkBroken ==
    /\ task = "failed"
    /\ task' = "broken" /\ isBroken' = TRUE
    /\ UNCHANGED <<callVars, queue, mapVars, writerVars, netVars, readerVars>>

\* Faulty variant: callers registered in the map are not told.
SignalNobody ==
    /\ task = "broken" /\ task' = "signalled"
    /\ UNCHANGED <<callVars, queue, mapVars, writerVars, netVars, readerVars, isBroken>>

SignalGeneralError ==
    /\ task = "broken"
    /\ task' = "signalled"
    /\ handlers' = [i \in StreamIds |-> NoCall]
    /\ status' = Resolve(HandledBy(StreamIds), "failed")
    /\ UNCHANGED <<answer, queue, nextStream, clash, writerVars, netVars, readerVars, isBroken>>

\* error_handler.send(error).await
ReportError ==
    /\ task = "signalled"
    /\ task' = "stopped"
    /\ UNCHANGED <<callVars, queue, mapVars, writerVars, netVars, readerVars, isBroken>>

-----------------------------------------------------------------------------
CallerNext ==
    \/ \E c \in Calls :
         WriteEnvelope(c) \/ SendRequest(c) \/ SendClosed(c) \/ Cancel(c)
    \/ DropTransport

WriterNext ==
    \/ Receive \/ Allocate \/ Encode \/ TryReceive
    \/ HandshakeWritten \/ HandshakeError
    \/ FrameWritten \/ FrameError \/ ChunkWritten \/ ChunkError
    \/ Flushed \/ WriterFails

ReadSome ==
    \E e \in server :
        ReadHandshake(e) \/ ReadHandshakeRefused(e) \/ ReadResponse(e) \/ ReadUnmatched(e)

TaskNext == MarkBroken \/ SignalGeneralError \/ ReportError

Next ==
    \/ CallerNext
    \/ WriterNext
    \/ ReadSome \/ ReadFails \/ ReadEvent \/ ForwardEvent
    \/ TaskNext
    \/ ConsumeEvent \/ LinkDown

Spec == Init /\ [][Next]_vars

(***************************************************************************)
(* Fairness.  The task is polled whenever it can move, callers poll their  *)
(* own futures, process_events drains events, and a stream that is down is *)
(* noticed by the reader.  The server answers what it received.  Responses *)
(* and the end of the stream come after finitely many events, and channel  *)
(* permits are handed out in order, hence strong fairness there.           *)
(***************************************************************************)
Fairness ==
    /\ WF_vars(WriterNext) /\ WF_vars(TaskNext)
    /\ WF_vars(ForwardEvent) /\ WF_vars(ConsumeEvent)
    /\ SF_vars(ReadFails) /\ SF_vars(ReadSome)
    /\ SF_vars(\E c \in Calls : SendRequest(c))
    /\ WF_vars(\E c \in Calls : SendClosed(c))

FairSpec == Spec /\ Fairness

-----------------------------------------------------------------------------
(***************************************************************************)
(* Properties                                                              *)
(***************************************************************************)

Statuses == {"idle", "sending", "waiting", "answered", "refused",
             "failed", "closed", "cancelled"}

\* Type invariant of the connection's state.
TypeOK ==
    /\ status \in [Calls -> Statuses]
    /\ answer \in [Calls -> Calls \cup {NoCall}]
    /\ queue \in Seq(Calls)
    /\ handlers \in [StreamIds -> Calls \cup {NoCall}]
    /\ nextStream \in -(StreamMax + 1) .. StreamMax
    /\ wpc \in {"recv", "alloc", "encode", "handshake", "write", "chunk",
                "next", "final", "flush", "dropped"}
    /\ request \in Calls \cup {NoCall}
    /\ streamId \in StreamIds
    /\ frame \in Seq(Envelopes)
    /\ frameIds \in Seq(StreamIds)
    /\ chunk \in 0 .. Chunks
    /\ buffered \subseteq Envelopes
    /\ server \subseteq Envelopes
    /\ link \in {"up", "down"}
    /\ framed \in BOOLEAN /\ eventBlocked \in BOOLEAN
    /\ events \in 0 .. EventCapacity
    /\ keyspace \in Uses \cup {NoCall}
    /\ task \in {"running", "failed", "broken", "signalled", "stopped", "aborted"}
    /\ isBroken \in BOOLEAN /\ clash \in BOOLEAN

\* A caller waiting on its oneshot is always held by somebody who will send
\* on it or drop it: the channel, the writer's current request, or the
\* handler map (write_envelope, add_handler, send_response).
WaitingIsHeld ==
    \A c \in Calls : status[c] = "waiting" =>
        \/ \E i \in DOMAIN queue : queue[i] = c
        \/ wpc = "alloc" /\ request = c
        \/ \E i \in StreamIds : handlers[i] = c

\* Once signal_general_error has run, or the task was aborted, no caller is
\* left waiting for a response that cannot come.
NobodyLeftBehind ==
    task \in {"signalled", "stopped", "aborted"} =>
        \A c \in Calls : status[c] # "waiting"

\* As long as no stream id was given out while it was still in use, a caller
\* only ever receives the response to its own request, whatever order the
\* server answers in and whichever writes fail.
ResponseIsOwn ==
    ~clash => \A c \in Calls : answer[c] \in {c, NoCall}

\* A USE is in effect at the moment its caller hears that it succeeded: the
\* reader records the keyspace before it hands over the response, and the
\* response it hands over is the one of that USE.
UseIsInEffect ==
    [][\A u \in Uses :
        (~clash /\ status[u] # "answered" /\ status'[u] = "answered") => keyspace' = u]_vars

\* By the time the error reaches error_handler, is_broken is visible: the
\* pool's monitor counts the connection as down when it receives the error.
ReportedIsBroken == task \in {"signalled", "stopped"} => isBroken

\* Every write_envelope call returns, if the server answers what reaches it
\* or the stream goes down: a call is made once, and in the end none of them
\* is pending.
EveryCallReturns ==
    (\E c \in Calls : status[c] \in Pending) ~> (\A c \in Calls : status[c] \notin Pending)

=============================================================================
