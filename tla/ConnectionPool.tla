---------------------------- MODULE ConnectionPool ----------------------------
(***************************************************************************)
(* The connections to one node: ConnectionPoolFactory and ConnectionPool   *)
(* of cdrs-tokio/src/cluster/connection_pool.rs, with the part of Node that *)
(* owns the pool (cluster/topology/node.rs).                               *)
(*                                                                         *)
(* Tasks: the call that creates the pool, the monitor, the reconnection    *)
(* tasks it spawns, the heartbeat, and the callers of connection().  They  *)
(* share the RwLock around the vector of connections, the bounded channel  *)
(* of errors, the reconnection state and the state of the node.            *)
(***************************************************************************)
EXTENDS Integers, Sequences, FiniteSets

CONSTANTS
    Size,           \* desired_size; also the capacity of the error channel
    Callers,        \* tasks that call connection()
    Workers,        \* identities for reconnection tasks
    Monitor, Heartbeat, Nobody,
    Attempts,       \* delays a ReconnectionSchedule hands out ...
    Endless,        \* ... or TRUE if it never stops
    MaxStray        \* bound: replaced connections somebody else still holds

ASSUME PoolAssumption ==
    /\ Size \in Nat \ {0}
    /\ Attempts \in Nat /\ Endless \in BOOLEAN /\ MaxStray \in Nat
    /\ Monitor \notin Callers \cup Workers /\ Heartbeat \notin Callers \cup Workers
    /\ Monitor # Heartbeat /\ Callers \cap Workers = {}
    /\ Nobody \notin Callers \cup Workers \cup {Monitor, Heartbeat}

Tasks == Callers \cup Workers \cup {Monitor, Heartbeat}

\* A connection is up, broken with its error report due, or broken and
\* reported (is_broken is set before the report, see module Transport).
Connection == {"up", "due", "sent"}

VARIABLES
    phase,          \* creation: "none", "connecting", "sending", "ready"
    failures,       \* connections of this creation that could not be made
    unsupported,    \* one of them failed with InvalidProtocol
    pool,           \* the vector of connections
    channel,        \* errors in the channel to the monitor
    stray,          \* reports due from connections replaced in the vector
    world,          \* what is alive besides the tasks (see Discard)
    readers, writer, lockQueue,     \* the RwLock and its FIFO of waiters
    mon,            \* program counter of the monitor
    recState,       \* ReconnectionState
    rec,            \* [Workers -> [pc, slot, left, result]]
    hb,             \* program counter of the heartbeat
    hbSlot,         \* connection the heartbeat waits for
    call,           \* [Callers -> [pc, first, slot]]
    nodeState       \* NodeState

createVars == <<phase, failures, unsupported>>
lockVars   == <<readers, writer, lockQueue>>
hbVars     == <<hb, hbSlot>>
vars == <<createVars, pool, channel, stray, world, lockVars, mon, recState, rec,
          hbVars, call, nodeState>>

NodeStates == {"Unknown", "Up", "Down", "ForcedDown"}

IsBroken(i) == pool[i] # "up"
AllDown == \A i \in DOMAIN pool : IsBroken(i)

NodeAlive == world = "live"
ManagerAlive == world \in {"live", "node gone"}
PoolAlive == world # "pool gone"

\* An error is put in the channel by a task that does not wait for room: the
\* handshake of a new connection failed, and the transport is dropped.
Reported(n) == IF n < Size THEN n + 1 ELSE n

-----------------------------------------------------------------------------
(***************************************************************************)
(* tokio's RwLock: first come, first served; readers share.                *)
(***************************************************************************)
Enqueue(t) == lockQueue' = Append(lockQueue, t) /\ UNCHANGED <<readers, writer>>

Grant ==
    /\ lockQueue # <<>> /\ writer = Nobody
    /\ \/ /\ Head(lockQueue) \in Workers /\ readers = {}
          /\ writer' = Head(lockQueue) /\ UNCHANGED readers
       \/ /\ Head(lockQueue) \notin Workers
          /\ readers' = readers \cup {Head(lockQueue)} /\ UNCHANGED writer
    /\ lockQueue' = Tail(lockQueue)
    /\ UNCHANGED <<createVars, pool, channel, stray, world, mon, recState, rec, hbVars, call, nodeState>>

ReleaseRead(t) == readers' = readers \ {t} /\ UNCHANGED <<writer, lockQueue>>

\* Faulty variant: the write guard outlives reconnect_broken.
ReleaseNothing == UNCHANGED <<readers, writer, lockQueue>>

ReleaseWrite == writer' = Nobody /\ UNCHANGED <<readers, lockQueue>>

-----------------------------------------------------------------------------
Idle == [pc |-> "off", slot |-> 0, left |-> 0, result |-> "NotRunning"]

Init ==
    /\ phase = "none" /\ failures = 0 /\ unsupported = FALSE
    /\ pool = <<>> /\ channel = 0 /\ stray = 0 /\ world = "live"
    /\ readers = {} /\ writer = Nobody /\ lockQueue = <<>>
    /\ mon = "off" /\ recState = "NotRunning" /\ rec = [t \in Workers |-> Idle]
    /\ hb = "off" /\ hbSlot = 0
    /\ call = [c \in Callers |-> [pc |-> "idle", first |-> 0, slot |-> 0]]
    /\ nodeState \in {"Unknown", "Up"}

(***************************************************************************)
(* persistent_connection creates the pool on first use.                    *)
(***************************************************************************)
Create ==
    /\ phase = "none" /\ NodeAlive
    /\ phase' = "connecting" /\ failures' = 0 /\ unsupported' = FALSE
    /\ pool' = <<>> /\ channel' = 0
    /\ UNCHANGED <<stray, world, lockVars, mon, recState, rec, hbVars, call, nodeState>>

Started == Len(pool) + failures

\* join_all: the connections are opened concurrently and end in any order.
Connected ==
    /\ phase = "connecting" /\ Started < Size
    /\ pool' = Append(pool, "up")
    /\ UNCHANGED <<createVars, channel, stray, world, lockVars, mon, recState, rec, hbVars, call, nodeState>>

\* It fails before there is a transport, after a timeout, or in the
\* handshake; in the last case the transport has reported the error itself.
ConnectFailed ==
    /\ phase = "connecting" /\ Started < Size
    /\ failures' = failures + 1
    /\ channel' \in {channel, Reported(channel)}
    /\ unsupported' \in {unsupported, TRUE}
    /\ UNCHANGED <<phase, pool, stray, world, lockVars, mon, recState, rec, hbVars, call, nodeState>>

\* An InvalidProtocol error is propagated and forces the node down.
CreateFailed ==
    /\ phase = "connecting" /\ Started = Size /\ unsupported
    /\ phase' = "none"
    /\ nodeState' = "ForcedDown"
    /\ pool' = <<>> /\ channel' = 0
    /\ UNCHANGED <<failures, unsupported, stray, world, lockVars, mon, recState, rec, hbVars, call>>

\* If connections are missing, an error is sent to trigger reconnection.
Joined ==
    /\ phase = "connecting" /\ Started = Size /\ ~unsupported /\ Len(pool) # Size
    /\ phase' = "sending"
    /\ UNCHANGED <<failures, unsupported, pool, channel, stray, world, lockVars, mon, recState, rec, hbVars, call, nodeState>>

\* The monitor and the heartbeat are spawned.
Ready(n) ==
    /\ phase' = "ready" /\ channel' = n /\ mon' = "recv" /\ hb' = "tick"
    /\ UNCHANGED <<failures, unsupported, pool, stray, world, lockVars, recState, rec, hbSlot, call, nodeState>>

CreatedWhole ==
    /\ phase = "connecting" /\ ~unsupported /\ Len(pool) = Size
    /\ Ready(channel)

\* Faulty variant: nobody is told that connections are missing.
CreatedSilently ==
    /\ phase = "sending" /\ channel < Size
    /\ Ready(channel)

CreatedPartly ==
    /\ phase = "sending" /\ channel < Size
    /\ Ready(channel + 1)

-----------------------------------------------------------------------------
(***************************************************************************)
(* Transports break and report it.                                         *)
(***************************************************************************)
Break(i) ==
    /\ i \in DOMAIN pool /\ pool[i] = "up"
    /\ pool' = [pool EXCEPT ![i] = "due"]
    /\ UNCHANGED <<createVars, channel, stray, world, lockVars, mon, recState, rec, hbVars, call, nodeState>>

Report(i) ==
    /\ i \in DOMAIN pool /\ pool[i] = "due" /\ channel < Size
    /\ pool' = [pool EXCEPT ![i] = "sent"]
    /\ channel' = channel + 1
    /\ UNCHANGED <<createVars, stray, world, lockVars, mon, recState, rec, hbVars, call, nodeState>>

StrayReport ==
    /\ stray > 0 /\ channel < Size
    /\ stray' = stray - 1 /\ channel' = channel + 1
    /\ UNCHANGED <<createVars, pool, world, lockVars, mon, recState, rec, hbVars, call, nodeState>>

\* External: the node is replaced in the metadata, the session is dropped,
\* and then the keyspace watcher lets go of the pool.
Discard ==
    /\ phase = "ready"
    /\ \/ /\ world = "live" /\ mon \in {"recv", "stopped"} /\ hb \in {"tick", "stopped"}
          /\ \A c \in Callers : call[c].pc = "idle"
          /\ world' = "node gone"
       \/ world = "node gone" /\ world' = "session gone"
       \/ /\ world = "session gone"
          /\ readers = {} /\ writer = Nobody /\ lockQueue = <<>>
          /\ world' = "pool gone"
    /\ UNCHANGED <<createVars, pool, channel, stray, lockVars, mon, recState, rec, hbVars, call, nodeState>>

-----------------------------------------------------------------------------
(***************************************************************************)
(* monitor_connections                                                     *)
(***************************************************************************)
MonitorReceive ==
    /\ mon = "recv" /\ channel > 0
    /\ channel' = channel - 1
    /\ IF NodeAlive /\ nodeState # "ForcedDown"
       THEN mon' = "lock" /\ Enqueue(Monitor)
       ELSE mon' = "stopped" /\ UNCHANGED lockVars
    /\ UNCHANGED <<createVars, pool, stray, world, recState, rec, hbVars, call, nodeState>>

\* recv returns None when the pool and every transport are gone.
MonitorClosed ==
    /\ mon = "recv" /\ channel = 0 /\ ~PoolAlive
    /\ mon' = "stopped"
    /\ UNCHANGED <<createVars, pool, channel, stray, world, lockVars, recState, rec, hbVars, call, nodeState>>

\* are_all_connections_down, under the read lock.
MonitorCheck ==
    /\ mon = "lock" /\ Monitor \in readers
    /\ mon' = IF AllDown THEN "mark" ELSE "load"
    /\ ReleaseRead(Monitor)
    /\ UNCHANGED <<createVars, pool, channel, stray, world, recState, rec, hbVars, call, nodeState>>

MarkDown ==
    /\ mon = "mark"
    /\ mon' = "load" /\ nodeState' = "Down"
    /\ UNCHANGED <<createVars, pool, channel, stray, world, lockVars, recState, rec, hbVars, call>>

\* "when one connection goes down, all of them will most likely go down, so
\* we need to protect against many reconnection attempts"
MonitorSkips ==
    /\ mon = "load" /\ recState # "NotRunning"
    /\ mon' = IF recState = "Disabled" THEN "stopped" ELSE "recv"
    /\ UNCHANGED <<createVars, pool, channel, stray, world, lockVars, recState, rec, hbVars, call, nodeState>>

\* Faulty variant: every error starts a reconnection.
StartAlways(t) ==
    /\ mon = "load" /\ rec[t].pc = "off"
    /\ mon' = "recv" /\ recState' = "InProgress"
    /\ rec' = [rec EXCEPT ![t] = [pc |-> "delay", slot |-> 0, left |-> Attempts, result |-> "NotRunning"]]
    /\ UNCHANGED <<createVars, pool, channel, stray, world, lockVars, hbVars, call, nodeState>>

\* Only the monitor stores InProgress, so its load and store do not race.
StartReconnection(t) ==
    /\ mon = "load" /\ recState = "NotRunning"
    /\ rec[t].pc = "off"
    /\ mon' = "recv" /\ recState' = "InProgress"
    /\ rec' = [rec EXCEPT ![t] = [pc |-> "delay", slot |-> 0, left |-> Attempts, result |-> "NotRunning"]]
    /\ UNCHANGED <<createVars, pool, channel, stray, world, lockVars, hbVars, call, nodeState>>

-----------------------------------------------------------------------------
(***************************************************************************)
(* The reconnection task: run_reconnection_loop and reconnect_broken.      *)
(***************************************************************************)
Finish(t, result) == rec' = [rec EXCEPT ![t].pc = "store", ![t].result = result]

\* next_delay, sleep, upgrade the pool and the manager.
Delay(t) ==
    /\ rec[t].pc = "delay"
    /\ \/ /\ ~Endless /\ rec[t].left = 0
          /\ Finish(t, "Disabled") /\ UNCHANGED lockVars
       \/ /\ Endless \/ rec[t].left > 0
          /\ \/ ~PoolAlive /\ Finish(t, "Disabled") /\ UNCHANGED lockVars
             \/ /\ PoolAlive /\ ~ManagerAlive
                /\ rec' = [rec EXCEPT ![t].left = IF Endless THEN @ ELSE @ - 1]
                /\ UNCHANGED lockVars
             \/ /\ ManagerAlive
                /\ rec' = [rec EXCEPT ![t].pc = "lock", ![t].left = IF Endless THEN @ ELSE @ - 1]
                /\ Enqueue(t)
    /\ UNCHANGED <<createVars, pool, channel, stray, world, mon, recState, hbVars, call, nodeState>>

BeginReconnect(t) ==
    /\ rec[t].pc = "lock" /\ writer = t
    /\ rec' = [rec EXCEPT ![t].pc = "connect", ![t].slot = 1]
    /\ UNCHANGED <<createVars, pool, channel, stray, world, lockVars, mon, recState, hbVars, call, nodeState>>

SkipHealthy(t) ==
    /\ rec[t].pc = "connect" /\ rec[t].slot \in DOMAIN pool
    /\ ~IsBroken(rec[t].slot)
    /\ rec' = [rec EXCEPT ![t].slot = @ + 1]
    /\ UNCHANGED <<createVars, pool, channel, stray, world, lockVars, mon, recState, hbVars, call, nodeState>>

\* A broken connection is to be replaced, or a missing one to be added.
NeedsConnection(t) ==
    /\ rec[t].pc = "connect" /\ rec[t].slot <= Size
    /\ rec[t].slot \in DOMAIN pool => IsBroken(rec[t].slot)

\* Dropping the replaced transport aborts a report that is still due, unless
\* somebody else holds the transport.
Reconnected(t) ==
    /\ NeedsConnection(t)
    /\ rec' = [rec EXCEPT ![t].slot = @ + 1]
    /\ IF rec[t].slot \in DOMAIN pool
       THEN /\ pool' = [pool EXCEPT ![rec[t].slot] = "up"]
            /\ \/ UNCHANGED stray
               \/ pool[rec[t].slot] = "due" /\ stray < MaxStray /\ stray' = stray + 1
       ELSE pool' = Append(pool, "up") /\ UNCHANGED stray
    /\ UNCHANGED <<createVars, channel, world, lockVars, mon, recState, hbVars, call, nodeState>>

ReconnectFailed(t) ==
    /\ NeedsConnection(t)
    /\ \/ rec' = [rec EXCEPT ![t].pc = "delay"]
       \/ Finish(t, "Disabled")                   \* InvalidProtocol
    /\ channel' \in {channel, Reported(channel)}
    /\ ReleaseWrite
    /\ UNCHANGED <<createVars, pool, stray, world, mon, recState, hbVars, call, nodeState>>

AllReconnected(t) ==
    /\ rec[t].pc = "connect" /\ rec[t].slot = Size + 1
    /\ Finish(t, "NotRunning")
    /\ ReleaseWrite
    /\ UNCHANGED <<createVars, pool, channel, stray, world, mon, recState, hbVars, call, nodeState>>

\* Faulty variants: giving up is not recorded; nothing is recorded.
StoreNotRunning(t) ==
    /\ rec[t].pc = "store" /\ recState' = "NotRunning"
    /\ rec' = [rec EXCEPT ![t].pc = "mark"]
    /\ UNCHANGED <<createVars, pool, channel, stray, world, lockVars, mon, hbVars, call, nodeState>>

StoreNothing(t) ==
    /\ rec[t].pc = "store" /\ rec' = [rec EXCEPT ![t].pc = "mark"]
    /\ UNCHANGED <<createVars, pool, channel, stray, world, lockVars, mon, recState, hbVars, call, nodeState>>

StoreState(t) ==
    /\ rec[t].pc = "store"
    /\ recState' = rec[t].result
    /\ rec' = [rec EXCEPT ![t].pc = "mark"]
    /\ UNCHANGED <<createVars, pool, channel, stray, world, lockVars, mon, hbVars, call, nodeState>>

MarkNode(t) ==
    /\ rec[t].pc = "mark"
    /\ rec' = [rec EXCEPT ![t] = Idle]
    /\ nodeState' = IF ~NodeAlive THEN nodeState
                    ELSE IF rec[t].result = "Disabled" THEN "ForcedDown" ELSE "Up"
    /\ UNCHANGED <<createVars, pool, channel, stray, world, lockVars, mon, recState, hbVars, call>>

-----------------------------------------------------------------------------
(***************************************************************************)
(* start_heartbeat: one request after the other, under the read lock.      *)
(***************************************************************************)
HeartbeatTick ==
    /\ hb = "tick"
    /\ \/ /\ ~NodeAlive \/ nodeState = "ForcedDown"
          /\ hb' = "stopped" /\ UNCHANGED lockVars
       \/ /\ NodeAlive /\ nodeState = "Up"
          /\ hb' = "lock" /\ Enqueue(Heartbeat)
    /\ UNCHANGED <<createVars, pool, channel, stray, world, mon, recState, rec, hbSlot, call, nodeState>>

HeartbeatSend ==
    /\ hb = "lock" /\ Heartbeat \in readers
    /\ hb' = "beat" /\ hbSlot' = 1
    /\ UNCHANGED <<createVars, pool, channel, stray, world, lockVars, mon, recState, rec, call, nodeState>>

\* The connection answers, or is broken and the request fails.
HeartbeatAnswered ==
    /\ hb = "beat" /\ hbSlot \in DOMAIN pool
    /\ hbSlot' = hbSlot + 1
    /\ UNCHANGED <<createVars, pool, channel, stray, world, lockVars, mon, recState, rec, hb, call, nodeState>>

HeartbeatDone ==
    /\ hb = "beat" /\ hbSlot \notin DOMAIN pool
    /\ hb' = "tick" /\ hbSlot' = 0
    /\ ReleaseRead(Heartbeat)
    /\ UNCHANGED <<createVars, pool, channel, stray, world, mon, recState, rec, call, nodeState>>

-----------------------------------------------------------------------------
(***************************************************************************)
(* connection(): round robin over the connections, under the read lock.    *)
(***************************************************************************)
CallConnection(c) ==
    /\ call[c].pc = "idle" /\ phase = "ready" /\ NodeAlive
    /\ call' = [call EXCEPT ![c].pc = "lock"]
    /\ Enqueue(c)
    /\ UNCHANGED <<createVars, pool, channel, stray, world, mon, recState, rec, hbVars, nodeState>>

\* current_index is shared with all callers, so the scan starts anywhere.
BeginScan(c) ==
    /\ call[c].pc = "lock" /\ c \in readers /\ pool # <<>>
    /\ \E i \in DOMAIN pool : call' = [call EXCEPT ![c] = [pc |-> "scan", first |-> i, slot |-> i]]
    /\ UNCHANGED <<createVars, pool, channel, stray, world, lockVars, mon, recState, rec, hbVars, nodeState>>

\* Faulty variant: the last connection is never looked at.
NextSlotShort(i) == IF i + 1 >= Len(pool) THEN 1 ELSE i + 1

NextSlot(i) == (i % Len(pool)) + 1

ScanNext(c) ==
    /\ call[c].pc = "scan" /\ IsBroken(call[c].slot)
    /\ NextSlot(call[c].slot) # call[c].first
    /\ call' = [call EXCEPT ![c].slot = NextSlot(@)]
    /\ UNCHANGED <<createVars, pool, channel, stray, world, lockVars, mon, recState, rec, hbVars, nodeState>>

Return(c) ==
    /\ call' = [call EXCEPT ![c] = [pc |-> "idle", first |-> 0, slot |-> 0]]
    /\ ReleaseRead(c)
    /\ UNCHANGED <<createVars, pool, channel, stray, world, mon, recState, rec, hbVars, nodeState>>

ReturnConnection(c) ==
    /\ call[c].pc = "scan" /\ ~IsBroken(call[c].slot)
    /\ Return(c)

NoConnections(c) ==
    /\ \/ call[c].pc = "lock" /\ c \in readers /\ pool = <<>>
       \/ /\ call[c].pc = "scan" /\ IsBroken(call[c].slot)
          /\ NextSlot(call[c].slot) = call[c].first
    /\ Return(c)

-----------------------------------------------------------------------------
CreateNext == Create \/ Connected \/ ConnectFailed \/ CreateFailed \/ Joined \/ CreatedWhole \/ CreatedPartly
MonitorNext ==
    \/ MonitorReceive \/ MonitorClosed \/ MonitorCheck \/ MarkDown \/ MonitorSkips
    \/ \E t \in Workers : StartReconnection(t)
WorkerNext(t) ==
    \/ Delay(t) \/ BeginReconnect(t) \/ SkipHealthy(t) \/ Reconnected(t)
    \/ ReconnectFailed(t) \/ AllReconnected(t) \/ StoreState(t) \/ MarkNode(t)
HeartbeatNext == HeartbeatSend \/ HeartbeatAnswered \/ HeartbeatDone
CallNext(c) == BeginScan(c) \/ ScanNext(c) \/ ReturnConnection(c) \/ NoConnections(c)
Reporting == StrayReport \/ \E i \in 1 .. Size : Report(i)

Next ==
    \/ CreateNext \/ Grant \/ MonitorNext \/ Reporting \/ Discard
    \/ \E t \in Workers : WorkerNext(t)
    \/ HeartbeatTick \/ HeartbeatNext
    \/ \E c \in Callers : CallConnection(c) \/ CallNext(c)
    \/ \E i \in 1 .. Size : Break(i)

Spec == Init /\ [][Next]_vars

(***************************************************************************)
(* Fairness.  Every task is polled when it can run, connection attempts    *)
(* end, and a connection either answers a heartbeat or breaks.  A slot     *)
(* that is tried again and again is connected in the end, and the keyspace *)
(* watcher ends with the session.                                          *)
(***************************************************************************)
Fairness ==
    /\ WF_vars(Grant) /\ WF_vars(MonitorNext) /\ WF_vars(Reporting) /\ WF_vars(HeartbeatNext)
    /\ WF_vars(CreateNext /\ phase # "none") /\ SF_vars(Discard /\ world = "session gone")
    /\ \A t \in Workers : WF_vars(WorkerNext(t))
    /\ \A t \in Workers, i \in 1 .. Size : SF_vars(Reconnected(t) /\ rec[t].slot = i)
    /\ \A c \in Callers : WF_vars(CallNext(c))

FairSpec == Spec /\ Fairness

-----------------------------------------------------------------------------
(***************************************************************************)
(* Properties                                                              *)
(***************************************************************************)

WorkerPcs == {"off", "delay", "lock", "connect", "store", "mark"}
Results == {"NotRunning", "Disabled"}
RecRecord == [pc : WorkerPcs, slot : 0 .. Size + 1, left : 0 .. Attempts, result : Results]
CallRecord == [pc : {"idle", "lock", "scan"}, first : 0 .. Size, slot : 0 .. Size]

CreateType ==
    /\ phase \in {"none", "connecting", "sending", "ready"}
    /\ failures \in 0 .. Size /\ unsupported \in BOOLEAN
PoolType ==
    /\ pool \in Seq(Connection) /\ Len(pool) <= Size
    /\ channel \in 0 .. Size /\ stray \in 0 .. MaxStray
    /\ world \in {"live", "node gone", "session gone", "pool gone"}
LockType ==
    readers \subseteq Tasks /\ writer \in Workers \cup {Nobody} /\ lockQueue \in Seq(Tasks)
TaskType ==
    /\ mon \in {"off", "recv", "lock", "mark", "load", "stopped"}
    /\ recState \in {"NotRunning", "InProgress", "Disabled"} /\ nodeState \in NodeStates
    /\ hb \in {"off", "tick", "lock", "beat", "stopped"} /\ hbSlot \in 0 .. Size + 1
    /\ rec \in [Workers -> RecRecord] /\ call \in [Callers -> CallRecord]

\* Type invariant of the pool and of the tasks that share it: the channel
\* and the vector keep within their size, an index within the vector's.
TypeOK == CreateType /\ PoolType /\ LockType /\ TaskType

\* Reconnection tasks that have not yet stored their result.
Active == {t \in Workers : rec[t].pc \in {"delay", "lock", "connect", "store"}}

\* At most one reconnection runs, exactly while the state says InProgress:
\* the monitor's load and the task's store keep the promise of the comment
\* "we need to protect against many reconnection attempts".
OneReconnection ==
    /\ \A t, u \in Active : t = u
    /\ recState = "InProgress" <=> Active # {}

\* The monitor has an error to look at, is looking at one, or a reconnection
\* runs; or reconnecting was given up for good.
Watched ==
    \/ channel > 0 \/ mon \in {"lock", "mark", "load"} \/ Active # {}
    \/ recState = "Disabled" \/ mon = "stopped"

\* A pool that was created with connections missing is completed: the error
\* ConnectionPool::new sends keeps the monitor busy until it is.
MissingIsNoticed ==
    phase = "ready" /\ NodeAlive /\ Len(pool) < Size => Watched

\* connection() gives up only when every connection of the pool is broken at
\* that moment, although it looked at them one at a time.
GiveUpMeansAllDown ==
    [][\A c \in Callers : NoConnections(c) => AllDown]_vars

\* "the driver will never try to reconnect" to a node that is forced down.
ForcedDownIsLeftAlone ==
    nodeState = "ForcedDown" =>
        \A t \in Workers : rec[t].pc \notin {"delay", "lock", "connect"}

\* connection() always returns: the lock is handed on, whoever holds it.
AcquireReturns ==
    \A c \in Callers : call[c].pc = "lock" ~> call[c].pc = "idle"

\* A reconnection ends when the node can be reached again.
ReconnectionEnds == recState = "InProgress" ~> recState # "InProgress"

=============================================================================
