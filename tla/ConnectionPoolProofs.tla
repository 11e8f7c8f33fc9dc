------------------------ MODULE ConnectionPoolProofs ------------------------
(***************************************************************************)
(* Proofs about module ConnectionPool, for any size of the pool and any    *)
(* number of callers.                                                      *)
(***************************************************************************)
EXTENDS ConnectionPool, TLAPS

\* Waiting for the lock, and adding a connection.
LEMMA AppendType ==
    ASSUME NEW S, NEW q \in Seq(S), NEW x \in S
    PROVE  Append(q, x) \in Seq(S) /\ Len(Append(q, x)) = Len(q) + 1
  OBVIOUS

\* Leaving the queue of the lock.
LEMMA TakeType ==
    ASSUME NEW S, NEW q \in Seq(S), q # <<>>
    PROVE  Head(q) \in S /\ Tail(q) \in Seq(S)
  OBVIOUS

\* A reconnection task moves on.
LEMMA RecPc ==
    ASSUME rec \in [Workers -> RecRecord], NEW t \in Workers, NEW p \in WorkerPcs
    PROVE  [rec EXCEPT ![t].pc = p] \in [Workers -> RecRecord]
  BY DEF RecRecord

\* It goes to the next connection.
LEMMA RecSlot ==
    ASSUME rec \in [Workers -> RecRecord], NEW t \in Workers, NEW s \in 0 .. Size + 1
    PROVE  [rec EXCEPT ![t].slot = s] \in [Workers -> RecRecord]
  BY DEF RecRecord

\* It uses up a delay of its schedule.
LEMMA RecLeft ==
    ASSUME rec \in [Workers -> RecRecord], NEW t \in Workers, NEW l \in 0 .. Attempts
    PROVE  [rec EXCEPT ![t].left = l] \in [Workers -> RecRecord]
  BY DEF RecRecord

\* It begins with the first connection.
LEMMA RecPcSlot ==
    ASSUME rec \in [Workers -> RecRecord], NEW t \in Workers, NEW p \in WorkerPcs, NEW s \in 0 .. Size + 1
    PROVE  [rec EXCEPT ![t].pc = p, ![t].slot = s] \in [Workers -> RecRecord]
  BY Zenon DEF RecRecord

\* It uses up a delay and asks for the lock.
LEMMA RecPcLeft ==
    ASSUME rec \in [Workers -> RecRecord], NEW t \in Workers, NEW p \in WorkerPcs, NEW l \in 0 .. Attempts
    PROVE  [rec EXCEPT ![t].pc = p, ![t].left = l] \in [Workers -> RecRecord]
  BY Zenon DEF RecRecord

\* It ends with a result.
LEMMA RecPcResult ==
    ASSUME rec \in [Workers -> RecRecord], NEW t \in Workers, NEW p \in WorkerPcs, NEW r \in Results
    PROVE  [rec EXCEPT ![t].pc = p, ![t].result = r] \in [Workers -> RecRecord]
  BY Zenon DEF RecRecord

\* The bounds of the model are numbers.
LEMMA Bounds == Size \in Nat /\ Size > 0 /\ Attempts \in Nat /\ MaxStray \in Nat
  BY PoolAssumption

\* What the channel, the vector and the indices range over.
LEMMA Ranges ==
    ASSUME TypeOK
    PROVE  /\ channel \in 0 .. Size /\ stray \in 0 .. MaxStray /\ failures \in 0 .. Size
           /\ Len(pool) \in 0 .. Size /\ DOMAIN pool = 1 .. Len(pool)
           /\ hbSlot \in 0 .. Size + 1 /\ rec \in [Workers -> RecRecord] /\ call \in [Callers -> CallRecord]
<1>1. pool \in Seq(Connection) /\ Len(pool) <= Size
  BY Zenon DEF TypeOK, PoolType
<1>2. Len(pool) \in 0 .. Size /\ DOMAIN pool = 1 .. Len(pool)
  BY <1>1, Bounds
<1> QED
  BY <1>2, Zenon DEF TypeOK, CreateType, PoolType, TaskType

\* What an index ranges over when a connection is added.
LEMMA Longer ==
    ASSUME NEW m \in Nat, NEW n, n = m \/ n = m + 1
    PROVE  1 .. m + 1 \subseteq 1 .. n + 1
  OBVIOUS

\* connection() goes round the vector.
LEMMA NextSlotIs ==
    ASSUME NEW i \in 1 .. Len(pool), Len(pool) \in Nat
    PROVE  NextSlot(i) = IF i = Len(pool) THEN 1 ELSE i + 1
  BY DEF NextSlot

-----------------------------------------------------------------------------
(***************************************************************************)
(* Types, and where the tasks are in the vector of connections.            *)
(***************************************************************************)

\* Where a worker is in the vector, and that the vector is whole when it is
\* done; the index a caller or the heartbeat looks at is one of the vector.
WorkerSlots ==
    \A t \in Workers :
        /\ rec[t].pc = "connect" => rec[t].slot \in 1 .. Len(pool) + 1
        /\ rec[t].pc = "store" /\ rec[t].result = "NotRunning" => Len(pool) = Size
BeatSlot == hb = "beat" => hbSlot \in 1 .. Len(pool) + 1
ScanSlots ==
    \A c \in Callers : call[c].pc = "scan" =>
        call[c].slot \in 1 .. Len(pool) /\ call[c].first \in 1 .. Len(pool)
SlotInv == WorkerSlots /\ BeatSlot /\ ScanSlots

\* Before the pool is created none of its tasks exists.
PhaseInv ==
    phase # "ready" =>
        /\ mon = "off" /\ hb = "off" /\ recState = "NotRunning"
        /\ \A t \in Workers : rec[t].pc = "off"
        /\ \A c \in Callers : call[c].pc = "idle"

PoolInv == TypeOK /\ SlotInv /\ PhaseInv

\* Every step keeps the state typed.
LEMMA TypeStep == PoolInv /\ [Next]_vars => TypeOK'
<1> SUFFICES ASSUME PoolInv, [Next]_vars PROVE TypeOK'
  OBVIOUS
<1> USE DEF PoolInv
<1>1. CASE UNCHANGED vars
  <2>1. CreateType' /\ LockType'
    BY <1>1 DEF TypeOK, CreateType, LockType, vars, createVars, lockVars
  <2>2. PoolType'
    BY <1>1, Zenon DEF TypeOK, PoolType, vars
  <2>3. TaskType'
    BY <1>1 DEF TypeOK, TaskType, vars, hbVars
  <2> QED
    BY <2>1, <2>2, <2>3 DEF TypeOK
<1>2. CASE Next
  <2>1. CASE Create
    <3>1. UNCHANGED <<stray, world, readers, writer, lockQueue, mon, recState, rec, hb, hbSlot, call, nodeState>>
      BY <2>1 DEF Create, createVars, lockVars, hbVars
    <3>2. phase' \in {"none", "connecting", "sending", "ready"}
      BY <2>1, PoolAssumption DEF Create, TypeOK, CreateType
    <3>3. failures' \in 0 .. Size
      BY <2>1, Ranges, Bounds DEF Create
    <3>4. unsupported' \in BOOLEAN
      BY <2>1, Zenon DEF Create, TypeOK, CreateType
    <3>5. pool' \in Seq(Connection) /\ Len(pool') <= Size
      <4>1. pool \in Seq(Connection) /\ Len(pool) <= Size
        BY Zenon DEF TypeOK, PoolType
      <4> QED
        BY <2>1, PoolAssumption DEF Create
    <3>6. channel' \in 0 .. Size
      BY <2>1, Ranges, Bounds DEF Create
    <3>7. CreateType'
      BY <3>1, <3>2, <3>3, <3>4 DEF TypeOK, CreateType
    <3>8. PoolType'
      BY <3>1, <3>5, <3>6, Zenon DEF TypeOK, PoolType
    <3>9. LockType'
      BY <3>1 DEF TypeOK, LockType
    <3>10. TaskType'
      BY <3>1 DEF TypeOK, TaskType
    <3> QED
      BY <3>7, <3>8, <3>9, <3>10 DEF TypeOK
  <2>2. CASE Connected
    <3>1. UNCHANGED <<phase, failures, unsupported, channel, stray, world, readers, writer, lockQueue, mon, recState, rec, hb, hbSlot, call, nodeState>>
      BY <2>2 DEF Connected, Started, createVars, lockVars, hbVars
    <3>2. pool' \in Seq(Connection) /\ Len(pool') <= Size
      <4>1. pool \in Seq(Connection) /\ Len(pool) <= Size
        BY Zenon DEF TypeOK, PoolType
      <4>2. Len(pool) < Size
        BY <2>2, <4>1, PoolAssumption DEF Connected, Started, TypeOK, CreateType
      <4>3. "up" \in Connection
        BY DEF Connection
      <4> QED
        BY <2>2, <4>1, <4>2, <4>3, AppendType, PoolAssumption DEF Connected
    <3>3. CreateType'
      BY <3>1 DEF TypeOK, CreateType
    <3>4. PoolType'
      BY <3>1, <3>2, Zenon DEF TypeOK, PoolType
    <3>5. LockType'
      BY <3>1 DEF TypeOK, LockType
    <3>6. TaskType'
      BY <3>1 DEF TypeOK, TaskType
    <3> QED
      BY <3>3, <3>4, <3>5, <3>6 DEF TypeOK
  <2>3. CASE ConnectFailed
    <3>1. UNCHANGED <<phase, pool, stray, world, readers, writer, lockQueue, mon, recState, rec, hb, hbSlot, call, nodeState>>
      BY <2>3 DEF ConnectFailed, Reported, Started, createVars, lockVars, hbVars
    <3>2. failures' \in 0 .. Size
      BY <2>3, Ranges, Bounds DEF ConnectFailed, Reported, Started
    <3>3. channel' \in 0 .. Size
      BY <2>3, Ranges, Bounds DEF ConnectFailed, Reported, Started
    <3>4. unsupported' \in BOOLEAN
      BY <2>3, Zenon DEF ConnectFailed, Reported, Started, TypeOK, CreateType
    <3>5. CreateType'
      BY <3>1, <3>2, <3>4 DEF TypeOK, CreateType
    <3>6. PoolType'
      BY <3>1, <3>3, Zenon DEF TypeOK, PoolType
    <3>7. LockType'
      BY <3>1 DEF TypeOK, LockType
    <3>8. TaskType'
      BY <3>1 DEF TypeOK, TaskType
    <3> QED
      BY <3>5, <3>6, <3>7, <3>8 DEF TypeOK
  <2>4. CASE CreateFailed
    <3>1. UNCHANGED <<failures, unsupported, stray, world, readers, writer, lockQueue, mon, recState, rec, hb, hbSlot, call>>
      BY <2>4 DEF CreateFailed, Started, createVars, lockVars, hbVars
    <3>2. phase' \in {"none", "connecting", "sending", "ready"}
      BY <2>4, PoolAssumption DEF CreateFailed, Started, TypeOK, CreateType
    <3>3. nodeState' \in NodeStates
      BY <2>4, PoolAssumption DEF CreateFailed, Started, TypeOK, TaskType, NodeStates
    <3>4. pool' \in Seq(Connection) /\ Len(pool') <= Size
      <4>1. pool \in Seq(Connection) /\ Len(pool) <= Size
        BY Zenon DEF TypeOK, PoolType
      <4> QED
        BY <2>4, PoolAssumption DEF CreateFailed
    <3>5. channel' \in 0 .. Size
      BY <2>4, Ranges, Bounds DEF CreateFailed, Started
    <3>6. CreateType'
      BY <3>1, <3>2 DEF TypeOK, CreateType
    <3>7. PoolType'
      BY <3>1, <3>4, <3>5, Zenon DEF TypeOK, PoolType
    <3>8. LockType'
      BY <3>1 DEF TypeOK, LockType
    <3>9. TaskType'
      BY <3>1, <3>3 DEF TypeOK, TaskType
    <3> QED
      BY <3>6, <3>7, <3>8, <3>9 DEF TypeOK
  <2>5. CASE Joined
    <3>1. UNCHANGED <<failures, unsupported, pool, channel, stray, world, readers, writer, lockQueue, mon, recState, rec, hb, hbSlot, call, nodeState>>
      BY <2>5 DEF Joined, Started, createVars, lockVars, hbVars
    <3>2. phase' \in {"none", "connecting", "sending", "ready"}
      BY <2>5, PoolAssumption DEF Joined, Started, TypeOK, CreateType
    <3>3. CreateType'
      BY <3>1, <3>2 DEF TypeOK, CreateType
    <3>4. PoolType'
      BY <3>1, Zenon DEF TypeOK, PoolType
    <3>5. LockType'
      BY <3>1 DEF TypeOK, LockType
    <3>6. TaskType'
      BY <3>1 DEF TypeOK, TaskType
    <3> QED
      BY <3>3, <3>4, <3>5, <3>6 DEF TypeOK
  <2>6. CASE CreatedWhole
    <3>1. UNCHANGED <<failures, unsupported, pool, stray, world, readers, writer, lockQueue, recState, rec, hbSlot, call, nodeState>>
      BY <2>6 DEF CreatedWhole, Ready, createVars, lockVars, hbVars
    <3>2. phase' \in {"none", "connecting", "sending", "ready"}
      BY <2>6, PoolAssumption DEF CreatedWhole, Ready, TypeOK, CreateType
    <3>3. channel' \in 0 .. Size
      BY <2>6, Ranges, Bounds DEF CreatedWhole, Ready
    <3>4. mon' \in {"off", "recv", "lock", "mark", "load", "stopped"}
      BY <2>6, PoolAssumption DEF CreatedWhole, Ready, TypeOK, TaskType
    <3>5. hb' \in {"off", "tick", "lock", "beat", "stopped"}
      BY <2>6, PoolAssumption DEF CreatedWhole, Ready, TypeOK, TaskType
    <3>6. CreateType'
      BY <3>1, <3>2 DEF TypeOK, CreateType
    <3>7. PoolType'
      BY <3>1, <3>3, Zenon DEF TypeOK, PoolType
    <3>8. LockType'
      BY <3>1 DEF TypeOK, LockType
    <3>9. TaskType'
      BY <3>1, <3>4, <3>5 DEF TypeOK, TaskType
    <3> QED
      BY <3>6, <3>7, <3>8, <3>9 DEF TypeOK
  <2>7. CASE CreatedPartly
    <3>1. UNCHANGED <<failures, unsupported, pool, stray, world, readers, writer, lockQueue, recState, rec, hbSlot, call, nodeState>>
      BY <2>7 DEF CreatedPartly, Ready, createVars, lockVars, hbVars
    <3>2. phase' \in {"none", "connecting", "sending", "ready"}
      BY <2>7, PoolAssumption DEF CreatedPartly, Ready, TypeOK, CreateType
    <3>3. channel' \in 0 .. Size
      BY <2>7, Ranges, Bounds DEF CreatedPartly, Ready
    <3>4. mon' \in {"off", "recv", "lock", "mark", "load", "stopped"}
      BY <2>7, PoolAssumption DEF CreatedPartly, Ready, TypeOK, TaskType
    <3>5. hb' \in {"off", "tick", "lock", "beat", "stopped"}
      BY <2>7, PoolAssumption DEF CreatedPartly, Ready, TypeOK, TaskType
    <3>6. CreateType'
      BY <3>1, <3>2 DEF TypeOK, CreateType
    <3>7. PoolType'
      BY <3>1, <3>3, Zenon DEF TypeOK, PoolType
    <3>8. LockType'
      BY <3>1 DEF TypeOK, LockType
    <3>9. TaskType'
      BY <3>1, <3>4, <3>5 DEF TypeOK, TaskType
    <3> QED
      BY <3>6, <3>7, <3>8, <3>9 DEF TypeOK
  <2>8. CASE Grant
    <3>1. UNCHANGED <<phase, failures, unsupported, pool, channel, stray, world, mon, recState, rec, hb, hbSlot, call, nodeState>>
      BY <2>8 DEF Grant, createVars, lockVars, hbVars
    <3>2. readers' \subseteq Tasks
      BY <2>8 DEF Grant, TypeOK, LockType, Tasks, lockVars
    <3>3. writer' \in Workers \cup {Nobody}
      BY <2>8 DEF Grant, TypeOK, LockType, Tasks, lockVars
    <3>4. lockQueue' \in Seq(Tasks)
      BY <2>8, TakeType DEF Grant, TypeOK, LockType, Tasks, lockVars
    <3>5. CreateType'
      BY <3>1 DEF TypeOK, CreateType
    <3>6. PoolType'
      BY <3>1, Zenon DEF TypeOK, PoolType
    <3>7. LockType'
      BY <3>1, <3>2, <3>3, <3>4 DEF TypeOK, LockType
    <3>8. TaskType'
      BY <3>1 DEF TypeOK, TaskType
    <3> QED
      BY <3>5, <3>6, <3>7, <3>8 DEF TypeOK
  <2>9. CASE MonitorReceive
    <3>1. UNCHANGED <<phase, failures, unsupported, pool, stray, world, readers, writer, recState, rec, hb, hbSlot, call, nodeState>>
      BY <2>9 DEF MonitorReceive, Enqueue, createVars, lockVars, hbVars
    <3>2. channel' \in 0 .. Size
      BY <2>9, Ranges, Bounds DEF MonitorReceive, Enqueue
    <3>3. mon' \in {"off", "recv", "lock", "mark", "load", "stopped"}
      BY <2>9, PoolAssumption DEF MonitorReceive, Enqueue, TypeOK, TaskType
    <3>4. lockQueue' \in Seq(Tasks)
      BY <2>9, AppendType DEF MonitorReceive, Enqueue, TypeOK, LockType, Tasks, lockVars
    <3>5. CreateType'
      BY <3>1 DEF TypeOK, CreateType
    <3>6. PoolType'
      BY <3>1, <3>2, Zenon DEF TypeOK, PoolType
    <3>7. LockType'
      BY <3>1, <3>4 DEF TypeOK, LockType
    <3>8. TaskType'
      BY <3>1, <3>3 DEF TypeOK, TaskType
    <3> QED
      BY <3>5, <3>6, <3>7, <3>8 DEF TypeOK
  <2>10. CASE MonitorClosed
    <3>1. UNCHANGED <<phase, failures, unsupported, pool, channel, stray, world, readers, writer, lockQueue, recState, rec, hb, hbSlot, call, nodeState>>
      BY <2>10 DEF MonitorClosed, createVars, lockVars, hbVars
    <3>2. mon' \in {"off", "recv", "lock", "mark", "load", "stopped"}
      BY <2>10, PoolAssumption DEF MonitorClosed, TypeOK, TaskType
    <3>3. CreateType'
      BY <3>1 DEF TypeOK, CreateType
    <3>4. PoolType'
      BY <3>1, Zenon DEF TypeOK, PoolType
    <3>5. LockType'
      BY <3>1 DEF TypeOK, LockType
    <3>6. TaskType'
      BY <3>1, <3>2 DEF TypeOK, TaskType
    <3> QED
      BY <3>3, <3>4, <3>5, <3>6 DEF TypeOK
  <2>11. CASE MonitorCheck
    <3>1. UNCHANGED <<phase, failures, unsupported, pool, channel, stray, world, writer, lockQueue, recState, rec, hb, hbSlot, call, nodeState>>
      BY <2>11 DEF MonitorCheck, ReleaseRead, createVars, lockVars, hbVars
    <3>2. mon' \in {"off", "recv", "lock", "mark", "load", "stopped"}
      BY <2>11, PoolAssumption DEF MonitorCheck, ReleaseRead, TypeOK, TaskType
    <3>3. readers' \subseteq Tasks
      BY <2>11 DEF MonitorCheck, ReleaseRead, TypeOK, LockType, Tasks, lockVars
    <3>4. CreateType'
      BY <3>1 DEF TypeOK, CreateType
    <3>5. PoolType'
      BY <3>1, Zenon DEF TypeOK, PoolType
    <3>6. LockType'
      BY <3>1, <3>3 DEF TypeOK, LockType
    <3>7. TaskType'
      BY <3>1, <3>2 DEF TypeOK, TaskType
    <3> QED
      BY <3>4, <3>5, <3>6, <3>7 DEF TypeOK
  <2>12. CASE MarkDown
    <3>1. UNCHANGED <<phase, failures, unsupported, pool, channel, stray, world, readers, writer, lockQueue, recState, rec, hb, hbSlot, call>>
      BY <2>12 DEF MarkDown, createVars, lockVars, hbVars
    <3>2. mon' \in {"off", "recv", "lock", "mark", "load", "stopped"}
      BY <2>12, PoolAssumption DEF MarkDown, TypeOK, TaskType
    <3>3. nodeState' \in NodeStates
      BY <2>12, PoolAssumption DEF MarkDown, TypeOK, TaskType, NodeStates
    <3>4. CreateType'
      BY <3>1 DEF TypeOK, CreateType
    <3>5. PoolType'
      BY <3>1, Zenon DEF TypeOK, PoolType
    <3>6. LockType'
      BY <3>1 DEF TypeOK, LockType
    <3>7. TaskType'
      BY <3>1, <3>2, <3>3 DEF TypeOK, TaskType
    <3> QED
      BY <3>4, <3>5, <3>6, <3>7 DEF TypeOK
  <2>13. CASE MonitorSkips
    <3>1. UNCHANGED <<phase, failures, unsupported, pool, channel, stray, world, readers, writer, lockQueue, recState, rec, hb, hbSlot, call, nodeState>>
      BY <2>13 DEF MonitorSkips, createVars, lockVars, hbVars
    <3>2. mon' \in {"off", "recv", "lock", "mark", "load", "stopped"}
      BY <2>13, PoolAssumption DEF MonitorSkips, TypeOK, TaskType
    <3>3. CreateType'
      BY <3>1 DEF TypeOK, CreateType
    <3>4. PoolType'
      BY <3>1, Zenon DEF TypeOK, PoolType
    <3>5. LockType'
      BY <3>1 DEF TypeOK, LockType
    <3>6. TaskType'
      BY <3>1, <3>2 DEF TypeOK, TaskType
    <3> QED
      BY <3>3, <3>4, <3>5, <3>6 DEF TypeOK
  <2>14. ASSUME NEW t \in Workers, StartReconnection(t) PROVE TypeOK'
    <3>1. UNCHANGED <<phase, failures, unsupported, pool, channel, stray, world, readers, writer, lockQueue, hb, hbSlot, call, nodeState>>
      BY <2>14 DEF StartReconnection, Idle, createVars, lockVars, hbVars
    <3>2. mon' \in {"off", "recv", "lock", "mark", "load", "stopped"}
      BY <2>14, PoolAssumption DEF StartReconnection, Idle, TypeOK, TaskType
    <3>3. recState' \in {"NotRunning", "InProgress", "Disabled"}
      BY <2>14, PoolAssumption DEF StartReconnection, Idle, TypeOK, TaskType
    <3>4. rec' \in [Workers -> RecRecord]
      <4>1. rec \in [Workers -> RecRecord]
        BY Ranges
      <4>2. rec' = [rec EXCEPT ![t] = [pc |-> "delay", slot |-> 0, left |-> Attempts, result |-> "NotRunning"]]
        BY <2>14 DEF StartReconnection
      <4>3. [pc |-> "delay", slot |-> 0, left |-> Attempts, result |-> "NotRunning"] \in RecRecord
        BY Bounds DEF RecRecord, WorkerPcs, Results, Idle
      <4> QED
        BY <4>1, <4>2, <4>3
    <3>5. CreateType'
      BY <3>1 DEF TypeOK, CreateType
    <3>6. PoolType'
      BY <3>1, Zenon DEF TypeOK, PoolType
    <3>7. LockType'
      BY <3>1 DEF TypeOK, LockType
    <3>8. TaskType'
      BY <3>1, <3>2, <3>3, <3>4 DEF TypeOK, TaskType
    <3> QED
      BY <3>5, <3>6, <3>7, <3>8 DEF TypeOK
  <2>15. CASE StrayReport
    <3>1. UNCHANGED <<phase, failures, unsupported, pool, world, readers, writer, lockQueue, mon, recState, rec, hb, hbSlot, call, nodeState>>
      BY <2>15 DEF StrayReport, createVars, lockVars, hbVars
    <3>2. stray' \in 0 .. MaxStray
      BY <2>15, Ranges, Bounds DEF StrayReport
    <3>3. channel' \in 0 .. Size
      BY <2>15, Ranges, Bounds DEF StrayReport
    <3>4. CreateType'
      BY <3>1 DEF TypeOK, CreateType
    <3>5. PoolType'
      BY <3>1, <3>3, <3>2, Zenon DEF TypeOK, PoolType
    <3>6. LockType'
      BY <3>1 DEF TypeOK, LockType
    <3>7. TaskType'
      BY <3>1 DEF TypeOK, TaskType
    <3> QED
      BY <3>4, <3>5, <3>6, <3>7 DEF TypeOK
  <2>16. ASSUME NEW i \in 1 .. Size, Report(i) PROVE TypeOK'
    <3>1. UNCHANGED <<phase, failures, unsupported, stray, world, readers, writer, lockQueue, mon, recState, rec, hb, hbSlot, call, nodeState>>
      BY <2>16 DEF Report, createVars, lockVars, hbVars
    <3>2. pool' \in Seq(Connection) /\ Len(pool') <= Size
      <4>1. pool \in Seq(Connection) /\ Len(pool) <= Size
        BY Zenon DEF TypeOK, PoolType
      <4>2. "sent" \in Connection
        BY DEF Connection
      <4> QED
        BY <2>16, <4>1, <4>2 DEF Report
    <3>3. channel' \in 0 .. Size
      BY <2>16, Ranges, Bounds DEF Report
    <3>4. CreateType'
      BY <3>1 DEF TypeOK, CreateType
    <3>5. PoolType'
      BY <3>1, <3>2, <3>3, Zenon DEF TypeOK, PoolType
    <3>6. LockType'
      BY <3>1 DEF TypeOK, LockType
    <3>7. TaskType'
      BY <3>1 DEF TypeOK, TaskType
    <3> QED
      BY <3>4, <3>5, <3>6, <3>7 DEF TypeOK
  <2>17. CASE Discard
    <3>1. UNCHANGED <<phase, failures, unsupported, pool, channel, stray, readers, writer, lockQueue, mon, recState, rec, hb, hbSlot, call, nodeState>>
      BY <2>17, Zenon DEF Discard, createVars, lockVars, hbVars
    <3>2. world' \in {"live", "node gone", "session gone", "pool gone"}
      BY <2>17, PoolAssumption, Zenon DEF Discard, TypeOK, PoolType
    <3>3. CreateType'
      BY <3>1 DEF TypeOK, CreateType
    <3>4. PoolType'
      BY <3>1, <3>2, Zenon DEF TypeOK, PoolType
    <3>5. LockType'
      BY <3>1 DEF TypeOK, LockType
    <3>6. TaskType'
      BY <3>1 DEF TypeOK, TaskType
    <3> QED
      BY <3>3, <3>4, <3>5, <3>6 DEF TypeOK
  <2>18. ASSUME NEW t \in Workers, Delay(t) PROVE TypeOK'
    <3>1. UNCHANGED <<phase, failures, unsupported, pool, channel, stray, world, readers, writer, mon, recState, hb, hbSlot, call, nodeState>>
      BY <2>18 DEF Delay, Enqueue, Finish, createVars, lockVars, hbVars
    <3>2. rec' \in [Workers -> RecRecord]
      <4>1. rec \in [Workers -> RecRecord]
        BY Ranges
      <4>2. ASSUME Endless \/ rec[t].left > 0
            PROVE  (IF Endless THEN rec[t].left ELSE rec[t].left - 1) \in 0 .. Attempts
        <5>1. rec[t].left \in 0 .. Attempts
          BY <4>1 DEF RecRecord
        <5> QED
          BY <4>2, <5>1, Bounds
      <4>3. "lock" \in WorkerPcs /\ "store" \in WorkerPcs /\ "Disabled" \in Results
        BY DEF WorkerPcs, Results
      <4>4. CASE Finish(t, "Disabled")
        BY <4>1, <4>3, <4>4, RecPcResult, Zenon DEF Finish
      <4> DEFINE l == IF Endless THEN rec[t].left ELSE rec[t].left - 1
      <4>5. CASE rec' = [rec EXCEPT ![t].left = l] /\ (Endless \/ rec[t].left > 0)
        <5>1. l \in 0 .. Attempts
          BY <4>2, <4>5
        <5> HIDE DEF l
        <5> QED
          BY <4>1, <4>5, <5>1, RecLeft, Zenon
      <4>6. CASE rec' = [rec EXCEPT ![t].pc = "lock", ![t].left = l] /\ (Endless \/ rec[t].left > 0)
        <5>1. l \in 0 .. Attempts
          BY <4>2, <4>6
        <5> HIDE DEF l
        <5> QED
          BY <4>1, <4>3, <4>6, <5>1, RecPcLeft, Zenon
      <4> QED
        BY <2>18, <4>4, <4>5, <4>6 DEF Delay
    <3>3. lockQueue' \in Seq(Tasks)
      BY <2>18, AppendType DEF Delay, Enqueue, Finish, TypeOK, LockType, Tasks, lockVars
    <3>4. CreateType'
      BY <3>1 DEF TypeOK, CreateType
    <3>5. PoolType'
      BY <3>1, Zenon DEF TypeOK, PoolType
    <3>6. LockType'
      BY <3>1, <3>3 DEF TypeOK, LockType
    <3>7. TaskType'
      BY <3>1, <3>2 DEF TypeOK, TaskType
    <3> QED
      BY <3>4, <3>5, <3>6, <3>7 DEF TypeOK
  <2>19. ASSUME NEW t \in Workers, BeginReconnect(t) PROVE TypeOK'
    <3>1. UNCHANGED <<phase, failures, unsupported, pool, channel, stray, world, readers, writer, lockQueue, mon, recState, hb, hbSlot, call, nodeState>>
      BY <2>19 DEF BeginReconnect, createVars, lockVars, hbVars
    <3>2. rec' \in [Workers -> RecRecord]
      <4>1. rec \in [Workers -> RecRecord]
        BY Ranges
      <4>2. "connect" \in WorkerPcs /\ 1 \in 0 .. Size + 1
        BY Bounds DEF WorkerPcs
      <4>3. rec' = [rec EXCEPT ![t].pc = "connect", ![t].slot = 1]
        BY <2>19 DEF BeginReconnect
      <4>4. [rec EXCEPT ![t].pc = "connect", ![t].slot = 1] \in [Workers -> RecRecord]
        BY <4>1, <4>2, RecPcSlot, Zenon
      <4> QED
        BY <4>3, <4>4, Zenon
    <3>3. CreateType'
      BY <3>1 DEF TypeOK, CreateType
    <3>4. PoolType'
      BY <3>1, Zenon DEF TypeOK, PoolType
    <3>5. LockType'
      BY <3>1 DEF TypeOK, LockType
    <3>6. TaskType'
      BY <3>1, <3>2 DEF TypeOK, TaskType
    <3> QED
      BY <3>3, <3>4, <3>5, <3>6 DEF TypeOK
  <2>20. ASSUME NEW t \in Workers, SkipHealthy(t) PROVE TypeOK'
    <3>1. UNCHANGED <<phase, failures, unsupported, pool, channel, stray, world, readers, writer, lockQueue, mon, recState, hb, hbSlot, call, nodeState>>
      BY <2>20 DEF SkipHealthy, createVars, lockVars, hbVars
    <3>2. rec' \in [Workers -> RecRecord]
      <4>1. rec \in [Workers -> RecRecord]
        BY Ranges
      <4>2. rec[t].slot \in 0 .. Size + 1
        BY <4>1 DEF RecRecord
      <4>3. rec[t].slot <= Size
        BY <2>20, <4>2, Ranges, Bounds DEF SkipHealthy, NeedsConnection
      <4>4. rec[t].slot + 1 \in 0 .. Size + 1
        BY <4>2, <4>3, Bounds
      <4>5. rec' = [rec EXCEPT ![t].slot = rec[t].slot + 1]
        BY <2>20 DEF SkipHealthy
      <4> QED
        BY <4>1, <4>4, <4>5, RecSlot, Zenon
    <3>3. CreateType'
      BY <3>1 DEF TypeOK, CreateType
    <3>4. PoolType'
      BY <3>1, Zenon DEF TypeOK, PoolType
    <3>5. LockType'
      BY <3>1 DEF TypeOK, LockType
    <3>6. TaskType'
      BY <3>1, <3>2 DEF TypeOK, TaskType
    <3> QED
      BY <3>3, <3>4, <3>5, <3>6 DEF TypeOK
  <2>21. ASSUME NEW t \in Workers, Reconnected(t) PROVE TypeOK'
    <3>1. UNCHANGED <<phase, failures, unsupported, channel, world, readers, writer, lockQueue, mon, recState, hb, hbSlot, call, nodeState>>
      BY <2>21 DEF Reconnected, NeedsConnection, createVars, lockVars, hbVars
    <3>2. rec' \in [Workers -> RecRecord]
      <4>1. rec \in [Workers -> RecRecord]
        BY Ranges
      <4>2. rec[t].slot \in 0 .. Size + 1
        BY <4>1 DEF RecRecord
      <4>3. rec[t].slot <= Size
        BY <2>21, <4>2, Ranges, Bounds DEF Reconnected, NeedsConnection
      <4>4. rec[t].slot + 1 \in 0 .. Size + 1
        BY <4>2, <4>3, Bounds
      <4>5. rec' = [rec EXCEPT ![t].slot = rec[t].slot + 1]
        BY <2>21 DEF Reconnected
      <4> QED
        BY <4>1, <4>4, <4>5, RecSlot, Zenon
    <3>3. pool' \in Seq(Connection) /\ Len(pool') <= Size
      <4>1. pool \in Seq(Connection) /\ Len(pool) <= Size
        BY Zenon DEF TypeOK, PoolType
      <4>2. "up" \in Connection
        BY DEF Connection
      <4>3. CASE rec[t].slot \in DOMAIN pool
        BY <2>21, <4>1, <4>2, <4>3 DEF Reconnected
      <4>4. CASE rec[t].slot \notin DOMAIN pool
        <5>1. Len(pool) < Size
          BY <2>21, <4>1, <4>4, PoolAssumption DEF Reconnected, NeedsConnection, SlotInv, WorkerSlots
        <5> QED
          BY <2>21, <4>1, <4>2, <4>4, <5>1, AppendType, PoolAssumption DEF Reconnected
      <4> QED
        BY <4>3, <4>4
    <3>4. stray' \in 0 .. MaxStray
      <4>1. stray' = stray \/ (stray < MaxStray /\ stray' = stray + 1)
        BY <2>21 DEF Reconnected
      <4> QED
        BY <4>1, Ranges, Bounds
    <3>5. CreateType'
      BY <3>1 DEF TypeOK, CreateType
    <3>6. PoolType'
      BY <3>1, <3>3, <3>4, Zenon DEF TypeOK, PoolType
    <3>7. LockType'
      BY <3>1 DEF TypeOK, LockType
    <3>8. TaskType'
      BY <3>1, <3>2 DEF TypeOK, TaskType
    <3> QED
      BY <3>5, <3>6, <3>7, <3>8 DEF TypeOK
  <2>22. ASSUME NEW t \in Workers, ReconnectFailed(t) PROVE TypeOK'
    <3>1. UNCHANGED <<phase, failures, unsupported, pool, stray, world, readers, lockQueue, mon, recState, hb, hbSlot, call, nodeState>>
      BY <2>22 DEF ReconnectFailed, NeedsConnection, Finish, ReleaseWrite, Reported, createVars, lockVars, hbVars
    <3>2. rec' \in [Workers -> RecRecord]
      <4>1. rec \in [Workers -> RecRecord]
        BY Ranges
      <4>2. "store" \in WorkerPcs /\ "delay" \in WorkerPcs /\ "Disabled" \in Results
        BY DEF WorkerPcs, Results
      <4>3. CASE rec' = [rec EXCEPT ![t].pc = "delay"]
        BY <4>1, <4>2, <4>3, RecPc, Zenon
      <4>4. CASE Finish(t, "Disabled")
        BY <4>1, <4>2, <4>4, RecPcResult, Zenon DEF Finish
      <4> QED
        BY <2>22, <4>3, <4>4 DEF ReconnectFailed
    <3>3. channel' \in 0 .. Size
      <4>1. channel' \in {channel, Reported(channel)}
        BY <2>22 DEF ReconnectFailed
      <4> QED
        BY <4>1, Ranges, Bounds DEF Reported
    <3>4. writer' \in Workers \cup {Nobody}
      BY <2>22 DEF ReconnectFailed, NeedsConnection, Finish, ReleaseWrite, Reported, TypeOK, LockType, Tasks, lockVars
    <3>5. CreateType'
      BY <3>1 DEF TypeOK, CreateType
    <3>6. PoolType'
      BY <3>1, <3>3, Zenon DEF TypeOK, PoolType
    <3>7. LockType'
      BY <3>1, <3>4 DEF TypeOK, LockType
    <3>8. TaskType'
      BY <3>1, <3>2 DEF TypeOK, TaskType
    <3> QED
      BY <3>5, <3>6, <3>7, <3>8 DEF TypeOK
  <2>23. ASSUME NEW t \in Workers, AllReconnected(t) PROVE TypeOK'
    <3>1. UNCHANGED <<phase, failures, unsupported, pool, channel, stray, world, readers, lockQueue, mon, recState, hb, hbSlot, call, nodeState>>
      BY <2>23 DEF AllReconnected, Finish, ReleaseWrite, createVars, lockVars, hbVars
    <3>2. rec' \in [Workers -> RecRecord]
      <4>1. rec \in [Workers -> RecRecord]
        BY Ranges
      <4>2. "store" \in WorkerPcs /\ "NotRunning" \in Results
        BY DEF WorkerPcs, Results
      <4>3. rec' = [rec EXCEPT ![t].pc = "store", ![t].result = "NotRunning"]
        BY <2>23 DEF AllReconnected, Finish, ReleaseWrite
      <4>4. [rec EXCEPT ![t].pc = "store", ![t].result = "NotRunning"] \in [Workers -> RecRecord]
        BY <4>1, <4>2, RecPcResult, Zenon
      <4> QED
        BY <4>3, <4>4, Zenon
    <3>3. writer' \in Workers \cup {Nobody}
      BY <2>23 DEF AllReconnected, Finish, ReleaseWrite, TypeOK, LockType, Tasks, lockVars
    <3>4. CreateType'
      BY <3>1 DEF TypeOK, CreateType
    <3>5. PoolType'
      BY <3>1, Zenon DEF TypeOK, PoolType
    <3>6. LockType'
      BY <3>1, <3>3 DEF TypeOK, LockType
    <3>7. TaskType'
      BY <3>1, <3>2 DEF TypeOK, TaskType
    <3> QED
      BY <3>4, <3>5, <3>6, <3>7 DEF TypeOK
  <2>24. ASSUME NEW t \in Workers, StoreState(t) PROVE TypeOK'
    <3>1. UNCHANGED <<phase, failures, unsupported, pool, channel, stray, world, readers, writer, lockQueue, mon, hb, hbSlot, call, nodeState>>
      BY <2>24 DEF StoreState, createVars, lockVars, hbVars
    <3>2. rec' \in [Workers -> RecRecord]
      <4>1. rec \in [Workers -> RecRecord]
        BY Ranges
      <4>2. "mark" \in WorkerPcs
        BY DEF WorkerPcs
      <4>3. rec' = [rec EXCEPT ![t].pc = "mark"]
        BY <2>24 DEF StoreState
      <4>4. [rec EXCEPT ![t].pc = "mark"] \in [Workers -> RecRecord]
        BY <4>1, <4>2, RecPc, Zenon
      <4> QED
        BY <4>3, <4>4, Zenon
    <3>3. recState' \in {"NotRunning", "InProgress", "Disabled"}
      BY <2>24, PoolAssumption DEF StoreState, TypeOK, TaskType, RecRecord, Results
    <3>4. CreateType'
      BY <3>1 DEF TypeOK, CreateType
    <3>5. PoolType'
      BY <3>1, Zenon DEF TypeOK, PoolType
    <3>6. LockType'
      BY <3>1 DEF TypeOK, LockType
    <3>7. TaskType'
      BY <3>1, <3>3, <3>2 DEF TypeOK, TaskType
    <3> QED
      BY <3>4, <3>5, <3>6, <3>7 DEF TypeOK
  <2>25. ASSUME NEW t \in Workers, MarkNode(t) PROVE TypeOK'
    <3>1. UNCHANGED <<phase, failures, unsupported, pool, channel, stray, world, readers, writer, lockQueue, mon, recState, hb, hbSlot, call>>
      BY <2>25 DEF MarkNode, Idle, createVars, lockVars, hbVars
    <3>2. rec' \in [Workers -> RecRecord]
      <4>1. rec \in [Workers -> RecRecord]
        BY Ranges
      <4>2. rec' = [rec EXCEPT ![t] = Idle]
        BY <2>25 DEF MarkNode
      <4>3. Idle \in RecRecord
        BY Bounds DEF RecRecord, WorkerPcs, Results, Idle
      <4> QED
        BY <4>1, <4>2, <4>3
    <3>3. nodeState' \in NodeStates
      BY <2>25, PoolAssumption DEF MarkNode, Idle, TypeOK, TaskType, NodeStates
    <3>4. CreateType'
      BY <3>1 DEF TypeOK, CreateType
    <3>5. PoolType'
      BY <3>1, Zenon DEF TypeOK, PoolType
    <3>6. LockType'
      BY <3>1 DEF TypeOK, LockType
    <3>7. TaskType'
      BY <3>1, <3>3, <3>2 DEF TypeOK, TaskType
    <3> QED
      BY <3>4, <3>5, <3>6, <3>7 DEF TypeOK
  <2>26. CASE HeartbeatTick
    <3>1. UNCHANGED <<phase, failures, unsupported, pool, channel, stray, world, readers, writer, mon, recState, rec, hbSlot, call, nodeState>>
      BY <2>26 DEF HeartbeatTick, Enqueue, createVars, lockVars, hbVars
    <3>2. hb' \in {"off", "tick", "lock", "beat", "stopped"}
      BY <2>26, PoolAssumption DEF HeartbeatTick, Enqueue, TypeOK, TaskType
    <3>3. lockQueue' \in Seq(Tasks)
      BY <2>26, AppendType DEF HeartbeatTick, Enqueue, TypeOK, LockType, Tasks, lockVars
    <3>4. CreateType'
      BY <3>1 DEF TypeOK, CreateType
    <3>5. PoolType'
      BY <3>1, Zenon DEF TypeOK, PoolType
    <3>6. LockType'
      BY <3>1, <3>3 DEF TypeOK, LockType
    <3>7. TaskType'
      BY <3>1, <3>2 DEF TypeOK, TaskType
    <3> QED
      BY <3>4, <3>5, <3>6, <3>7 DEF TypeOK
  <2>27. CASE HeartbeatSend
    <3>1. UNCHANGED <<phase, failures, unsupported, pool, channel, stray, world, readers, writer, lockQueue, mon, recState, rec, call, nodeState>>
      BY <2>27 DEF HeartbeatSend, createVars, lockVars, hbVars
    <3>2. hb' \in {"off", "tick", "lock", "beat", "stopped"}
      BY <2>27, PoolAssumption DEF HeartbeatSend, TypeOK, TaskType
    <3>3. hbSlot' \in 0 .. Size + 1
      BY <2>27, Ranges, Bounds DEF HeartbeatSend
    <3>4. CreateType'
      BY <3>1 DEF TypeOK, CreateType
    <3>5. PoolType'
      BY <3>1, Zenon DEF TypeOK, PoolType
    <3>6. LockType'
      BY <3>1 DEF TypeOK, LockType
    <3>7. TaskType'
      BY <3>1, <3>2, <3>3 DEF TypeOK, TaskType
    <3> QED
      BY <3>4, <3>5, <3>6, <3>7 DEF TypeOK
  <2>28. CASE HeartbeatAnswered
    <3>1. UNCHANGED <<phase, failures, unsupported, pool, channel, stray, world, readers, writer, lockQueue, mon, recState, rec, hb, call, nodeState>>
      BY <2>28 DEF HeartbeatAnswered, createVars, lockVars, hbVars
    <3>2. hbSlot' \in 0 .. Size + 1
      BY <2>28, Ranges, Bounds DEF HeartbeatAnswered
    <3>3. CreateType'
      BY <3>1 DEF TypeOK, CreateType
    <3>4. PoolType'
      BY <3>1, Zenon DEF TypeOK, PoolType
    <3>5. LockType'
      BY <3>1 DEF TypeOK, LockType
    <3>6. TaskType'
      BY <3>1, <3>2 DEF TypeOK, TaskType
    <3> QED
      BY <3>3, <3>4, <3>5, <3>6 DEF TypeOK
  <2>29. CASE HeartbeatDone
    <3>1. UNCHANGED <<phase, failures, unsupported, pool, channel, stray, world, writer, lockQueue, mon, recState, rec, call, nodeState>>
      BY <2>29 DEF HeartbeatDone, ReleaseRead, createVars, lockVars, hbVars
    <3>2. hb' \in {"off", "tick", "lock", "beat", "stopped"}
      BY <2>29, PoolAssumption DEF HeartbeatDone, ReleaseRead, TypeOK, TaskType
    <3>3. hbSlot' \in 0 .. Size + 1
      BY <2>29, Ranges, Bounds DEF HeartbeatDone, ReleaseRead
    <3>4. readers' \subseteq Tasks
      BY <2>29 DEF HeartbeatDone, ReleaseRead, TypeOK, LockType, Tasks, lockVars
    <3>5. CreateType'
      BY <3>1 DEF TypeOK, CreateType
    <3>6. PoolType'
      BY <3>1, Zenon DEF TypeOK, PoolType
    <3>7. LockType'
      BY <3>1, <3>4 DEF TypeOK, LockType
    <3>8. TaskType'
      BY <3>1, <3>2, <3>3 DEF TypeOK, TaskType
    <3> QED
      BY <3>5, <3>6, <3>7, <3>8 DEF TypeOK
  <2>30. ASSUME NEW c \in Callers, CallConnection(c) PROVE TypeOK'
    <3>1. UNCHANGED <<phase, failures, unsupported, pool, channel, stray, world, readers, writer, mon, recState, rec, hb, hbSlot, nodeState>>
      BY <2>30 DEF CallConnection, Enqueue, createVars, lockVars, hbVars
    <3>2. call' \in [Callers -> CallRecord]
      <4>1. call \in [Callers -> CallRecord]
        BY DEF TypeOK, TaskType
      <4> QED
        BY <2>30, <4>1 DEF CallConnection, CallRecord
    <3>3. lockQueue' \in Seq(Tasks)
      BY <2>30, AppendType DEF CallConnection, Enqueue, TypeOK, LockType, Tasks, lockVars
    <3>4. CreateType'
      BY <3>1 DEF TypeOK, CreateType
    <3>5. PoolType'
      BY <3>1, Zenon DEF TypeOK, PoolType
    <3>6. LockType'
      BY <3>1, <3>3 DEF TypeOK, LockType
    <3>7. TaskType'
      BY <3>1, <3>2 DEF TypeOK, TaskType
    <3> QED
      BY <3>4, <3>5, <3>6, <3>7 DEF TypeOK
  <2>31. ASSUME NEW c \in Callers, BeginScan(c) PROVE TypeOK'
    <3>1. UNCHANGED <<phase, failures, unsupported, pool, channel, stray, world, readers, writer, lockQueue, mon, recState, rec, hb, hbSlot, nodeState>>
      BY <2>31 DEF BeginScan, createVars, lockVars, hbVars
    <3>2. call' \in [Callers -> CallRecord]
      <4>1. call \in [Callers -> CallRecord]
        BY DEF TypeOK, TaskType
      <4>2. PICK i \in DOMAIN pool : call' = [call EXCEPT ![c] = [pc |-> "scan", first |-> i, slot |-> i]]
        BY <2>31, Zenon DEF BeginScan
      <4>3. i \in 0 .. Size
        BY Ranges, Bounds
      <4> QED
        BY <4>1, <4>2, <4>3 DEF CallRecord
    <3>3. CreateType'
      BY <3>1 DEF TypeOK, CreateType
    <3>4. PoolType'
      BY <3>1, Zenon DEF TypeOK, PoolType
    <3>5. LockType'
      BY <3>1 DEF TypeOK, LockType
    <3>6. TaskType'
      BY <3>1, <3>2 DEF TypeOK, TaskType
    <3> QED
      BY <3>3, <3>4, <3>5, <3>6 DEF TypeOK
  <2>32. ASSUME NEW c \in Callers, ScanNext(c) PROVE TypeOK'
    <3>1. UNCHANGED <<phase, failures, unsupported, pool, channel, stray, world, readers, writer, lockQueue, mon, recState, rec, hb, hbSlot, nodeState>>
      BY <2>32 DEF ScanNext, createVars, lockVars, hbVars
    <3>2. call' \in [Callers -> CallRecord]
      <4>1. call \in [Callers -> CallRecord]
        BY DEF TypeOK, TaskType
      <4>2. call[c].slot \in 1 .. Len(pool) /\ Len(pool) \in 0 .. Size
        BY <2>32, Ranges DEF ScanNext, SlotInv, ScanSlots
      <4>3. NextSlot(call[c].slot) \in 0 .. Size
        BY <4>2, NextSlotIs, Bounds
      <4> QED
        BY <2>32, <4>1, <4>3 DEF ScanNext, CallRecord
    <3>3. CreateType'
      BY <3>1 DEF TypeOK, CreateType
    <3>4. PoolType'
      BY <3>1, Zenon DEF TypeOK, PoolType
    <3>5. LockType'
      BY <3>1 DEF TypeOK, LockType
    <3>6. TaskType'
      BY <3>1, <3>2 DEF TypeOK, TaskType
    <3> QED
      BY <3>3, <3>4, <3>5, <3>6 DEF TypeOK
  <2>33. ASSUME NEW c \in Callers, ReturnConnection(c) PROVE TypeOK'
    <3>1. UNCHANGED <<phase, failures, unsupported, pool, channel, stray, world, writer, lockQueue, mon, recState, rec, hb, hbSlot, nodeState>>
      BY <2>33 DEF ReturnConnection, Return, ReleaseRead, createVars, lockVars, hbVars
    <3>2. call' \in [Callers -> CallRecord]
      <4>1. call \in [Callers -> CallRecord]
        BY DEF TypeOK, TaskType
      <4>2. [pc |-> "idle", first |-> 0, slot |-> 0] \in CallRecord
        BY PoolAssumption DEF CallRecord
      <4> QED
        BY <2>33, <4>1, <4>2 DEF ReturnConnection, Return
    <3>3. readers' \subseteq Tasks
      BY <2>33 DEF ReturnConnection, Return, ReleaseRead, TypeOK, LockType, Tasks, lockVars
    <3>4. CreateType'
      BY <3>1 DEF TypeOK, CreateType
    <3>5. PoolType'
      BY <3>1, Zenon DEF TypeOK, PoolType
    <3>6. LockType'
      BY <3>1, <3>3 DEF TypeOK, LockType
    <3>7. TaskType'
      BY <3>1, <3>2 DEF TypeOK, TaskType
    <3> QED
      BY <3>4, <3>5, <3>6, <3>7 DEF TypeOK
  <2>34. ASSUME NEW c \in Callers, NoConnections(c) PROVE TypeOK'
    <3>1. UNCHANGED <<phase, failures, unsupported, pool, channel, stray, world, writer, lockQueue, mon, recState, rec, hb, hbSlot, nodeState>>
      BY <2>34 DEF NoConnections, Return, ReleaseRead, createVars, lockVars, hbVars
    <3>2. call' \in [Callers -> CallRecord]
      <4>1. call \in [Callers -> CallRecord]
        BY DEF TypeOK, TaskType
      <4>2. [pc |-> "idle", first |-> 0, slot |-> 0] \in CallRecord
        BY PoolAssumption DEF CallRecord
      <4> QED
        BY <2>34, <4>1, <4>2 DEF NoConnections, Return
    <3>3. readers' \subseteq Tasks
      BY <2>34 DEF NoConnections, Return, ReleaseRead, TypeOK, LockType, Tasks, lockVars
    <3>4. CreateType'
      BY <3>1 DEF TypeOK, CreateType
    <3>5. PoolType'
      BY <3>1, Zenon DEF TypeOK, PoolType
    <3>6. LockType'
      BY <3>1, <3>3 DEF TypeOK, LockType
    <3>7. TaskType'
      BY <3>1, <3>2 DEF TypeOK, TaskType
    <3> QED
      BY <3>4, <3>5, <3>6, <3>7 DEF TypeOK
  <2>35. ASSUME NEW i \in 1 .. Size, Break(i) PROVE TypeOK'
    <3>1. UNCHANGED <<phase, failures, unsupported, channel, stray, world, readers, writer, lockQueue, mon, recState, rec, hb, hbSlot, call, nodeState>>
      BY <2>35 DEF Break, createVars, lockVars, hbVars
    <3>2. pool' \in Seq(Connection) /\ Len(pool') <= Size
      <4>1. pool \in Seq(Connection) /\ Len(pool) <= Size
        BY Zenon DEF TypeOK, PoolType
      <4>2. "due" \in Connection
        BY DEF Connection
      <4> QED
        BY <2>35, <4>1, <4>2 DEF Break
    <3>3. CreateType'
      BY <3>1 DEF TypeOK, CreateType
    <3>4. PoolType'
      BY <3>1, <3>2, Zenon DEF TypeOK, PoolType
    <3>5. LockType'
      BY <3>1 DEF TypeOK, LockType
    <3>6. TaskType'
      BY <3>1 DEF TypeOK, TaskType
    <3> QED
      BY <3>3, <3>4, <3>5, <3>6 DEF TypeOK
  <2> QED
    BY <1>2, <2>1, <2>2, <2>3, <2>4, <2>5, <2>6, <2>7, <2>8, <2>9, <2>10, <2>11, <2>12, <2>13, <2>14, <2>15, <2>16, <2>17, <2>18, <2>19, <2>20, <2>21, <2>22, <2>23, <2>24, <2>25, <2>26, <2>27, <2>28, <2>29, <2>30, <2>31, <2>32, <2>33, <2>34, <2>35
       DEF Next, CreateNext, MonitorNext, Reporting, WorkerNext, HeartbeatNext, CallNext
<1> QED
  BY <1>1, <1>2

\* Indices stay within the vector.
LEMMA SlotStep == PoolInv /\ [Next]_vars => SlotInv'
<1> SUFFICES ASSUME PoolInv, [Next]_vars PROVE SlotInv'
  OBVIOUS
<1> USE DEF PoolInv
<1>1. CASE UNCHANGED vars
  BY <1>1, SMTT(20) DEF vars, createVars, hbVars, lockVars, SlotInv, WorkerSlots, BeatSlot, ScanSlots
<1>2. CASE Next
  <2>1. CASE Create
    BY <2>1 DEF Create, hbVars, SlotInv, WorkerSlots, BeatSlot, ScanSlots, PhaseInv
  <2>2. CASE Connected
    BY <2>2 DEF Connected, hbVars, SlotInv, WorkerSlots, BeatSlot, ScanSlots, PhaseInv
  <2>3. CASE ConnectFailed
    BY <2>3 DEF ConnectFailed, hbVars, SlotInv, WorkerSlots, BeatSlot, ScanSlots
  <2>4. CASE CreateFailed
    BY <2>4 DEF CreateFailed, hbVars, SlotInv, WorkerSlots, BeatSlot, ScanSlots, PhaseInv
  <2>5. CASE Joined
    BY <2>5 DEF Joined, hbVars, SlotInv, WorkerSlots, BeatSlot, ScanSlots
  <2>6. CASE CreatedWhole
    <3>1. WorkerSlots'
      BY <2>6 DEF CreatedWhole, Ready, hbVars, SlotInv, WorkerSlots
    <3>2. BeatSlot'
      BY <2>6, Ranges, Bounds DEF CreatedWhole, Ready, hbVars, SlotInv, BeatSlot
    <3>3. ScanSlots'
      BY <2>6 DEF CreatedWhole, Ready, hbVars, SlotInv, ScanSlots
    <3> QED
      BY <3>1, <3>2, <3>3 DEF SlotInv
  <2>7. CASE CreatedPartly
    <3>1. WorkerSlots'
      BY <2>7 DEF CreatedPartly, Ready, hbVars, SlotInv, WorkerSlots
    <3>2. BeatSlot'
      BY <2>7, Ranges, Bounds DEF CreatedPartly, Ready, hbVars, SlotInv, BeatSlot
    <3>3. ScanSlots'
      BY <2>7 DEF CreatedPartly, Ready, hbVars, SlotInv, ScanSlots
    <3> QED
      BY <3>1, <3>2, <3>3 DEF SlotInv
  <2>8. CASE Grant
    BY <2>8 DEF Grant, hbVars, SlotInv, WorkerSlots, BeatSlot, ScanSlots
  <2>9. CASE MonitorReceive
    BY <2>9 DEF MonitorReceive, hbVars, SlotInv, WorkerSlots, BeatSlot, ScanSlots
  <2>10. CASE MonitorClosed
    BY <2>10 DEF MonitorClosed, hbVars, SlotInv, WorkerSlots, BeatSlot, ScanSlots
  <2>11. CASE MonitorCheck
    BY <2>11 DEF MonitorCheck, hbVars, SlotInv, WorkerSlots, BeatSlot, ScanSlots
  <2>12. CASE MarkDown
    BY <2>12 DEF MarkDown, hbVars, SlotInv, WorkerSlots, BeatSlot, ScanSlots
  <2>13. CASE MonitorSkips
    BY <2>13 DEF MonitorSkips, hbVars, SlotInv, WorkerSlots, BeatSlot, ScanSlots
  <2>14. ASSUME NEW t \in Workers, StartReconnection(t) PROVE SlotInv'
    <3>1. WorkerSlots'
      BY <2>14, Ranges, Bounds, Zenon DEF StartReconnection, Idle, hbVars, SlotInv, WorkerSlots
    <3>2. BeatSlot'
      BY <2>14 DEF StartReconnection, Idle, hbVars, SlotInv, BeatSlot
    <3>3. ScanSlots'
      BY <2>14, SMTT(20) DEF StartReconnection, Idle, hbVars, SlotInv, ScanSlots
    <3> QED
      BY <3>1, <3>2, <3>3 DEF SlotInv
  <2>15. CASE StrayReport
    BY <2>15 DEF StrayReport, hbVars, SlotInv, WorkerSlots, BeatSlot, ScanSlots
  <2>16. ASSUME NEW i \in 1 .. Size, Report(i) PROVE SlotInv'
    <3>1. Len(pool') = Len(pool)
      <4>1. pool \in Seq(Connection)
        BY Zenon DEF TypeOK, PoolType
      <4> QED
        BY <2>16, <4>1 DEF Report
    <3>2. WorkerSlots'
      BY <2>16, <3>1, Ranges, Bounds, Zenon DEF Report, hbVars, SlotInv, WorkerSlots
    <3>3. BeatSlot'
      BY <2>16, <3>1, Ranges, Bounds DEF Report, hbVars, SlotInv, BeatSlot
    <3>4. ScanSlots'
      BY <2>16, <3>1, Ranges, Bounds DEF Report, hbVars, SlotInv, ScanSlots
    <3> QED
      BY <3>2, <3>3, <3>4 DEF SlotInv
  <2>17. CASE Discard
    BY <2>17, Zenon DEF Discard, hbVars, SlotInv, WorkerSlots, BeatSlot, ScanSlots
  <2>18. ASSUME NEW t \in Workers, Delay(t) PROVE SlotInv'
    <3>1. WorkerSlots'
      <4>1. \A u \in Workers : u # t => rec'[u] = rec[u]
        BY <2>18, Ranges DEF Delay, Finish
      <4>2. rec'[t].pc # "connect" /\ (rec'[t].pc = "store" => rec'[t].result = "Disabled")
        BY <2>18, Ranges DEF Delay, Finish, RecRecord
      <4>3. UNCHANGED pool
        BY <2>18 DEF Delay
      <4> QED
        BY <4>1, <4>2, <4>3 DEF SlotInv, WorkerSlots
    <3>2. BeatSlot'
      BY <2>18 DEF Delay, Enqueue, Finish, hbVars, SlotInv, BeatSlot
    <3>3. ScanSlots'
      BY <2>18 DEF Delay, Enqueue, Finish, hbVars, SlotInv, ScanSlots
    <3> QED
      BY <3>1, <3>2, <3>3 DEF SlotInv
  <2>19. ASSUME NEW t \in Workers, BeginReconnect(t) PROVE SlotInv'
    <3>1. WorkerSlots'
      BY <2>19, Ranges, Bounds DEF BeginReconnect, hbVars, SlotInv, WorkerSlots
    <3>2. BeatSlot'
      BY <2>19 DEF BeginReconnect, hbVars, SlotInv, BeatSlot
    <3>3. ScanSlots'
      BY <2>19 DEF BeginReconnect, hbVars, SlotInv, ScanSlots
    <3> QED
      BY <3>1, <3>2, <3>3 DEF SlotInv
  <2>20. ASSUME NEW t \in Workers, SkipHealthy(t) PROVE SlotInv'
    <3>1. ASSUME NEW u \in Workers
          PROVE  /\ rec'[u].pc = "connect" => rec'[u].slot \in 1 .. Len(pool') + 1
                 /\ rec'[u].pc = "store" /\ rec'[u].result = "NotRunning" => Len(pool') = Size
      <4>1. /\ rec'[u].pc = rec[u].pc /\ rec'[u].result = rec[u].result
            /\ u = t => rec'[u].slot = rec[t].slot + 1
            /\ u # t => rec'[u].slot = rec[u].slot
        BY <2>20, Ranges DEF SkipHealthy, RecRecord
      <4>2. /\ rec[t].pc = "connect" /\ rec[t].slot \in 1 .. Len(pool) + 1
            /\ rec[u].pc = "connect" => rec[u].slot \in 1 .. Len(pool) + 1
            /\ rec[u].pc = "store" /\ rec[u].result = "NotRunning" => Len(pool) = Size
        BY <2>20 DEF SkipHealthy, NeedsConnection, SlotInv, WorkerSlots
      <4>3. Len(pool) \in 0 .. Size /\ DOMAIN pool = 1 .. Len(pool)
        BY Ranges
      <4>4. /\ Len(pool') = Len(pool) \/ Len(pool') = Len(pool) + 1
            /\ rec[t].slot + 1 \in 1 .. Len(pool') + 1
            /\ Len(pool) = Size => Len(pool') = Len(pool)
        BY <2>20, <4>2, <4>3, Bounds DEF SkipHealthy, NeedsConnection
      <4>5. CASE u = t
        BY <4>1, <4>2, <4>4, <4>5
      <4>6. CASE u # t
        <5>0. Len(pool) \in Nat
          BY <4>3, Bounds
        <5>1. 1 .. Len(pool) + 1 \subseteq 1 .. Len(pool') + 1
          BY <4>4, <5>0, Longer, Zenon
        <5>2. rec[u].pc = "connect" => rec[u].slot \in 1 .. Len(pool') + 1
          BY <4>2, <5>1, Zenon
        <5> QED
          BY <4>1, <4>2, <4>4, <4>6, <5>2
      <4> QED
        BY <4>5, <4>6
    <3>2. WorkerSlots'
      BY <3>1 DEF WorkerSlots
    <3>3. BeatSlot'
      BY <2>20 DEF SkipHealthy, hbVars, SlotInv, BeatSlot
    <3>4. ScanSlots'
      BY <2>20 DEF SkipHealthy, hbVars, SlotInv, ScanSlots
    <3> QED
      BY <3>2, <3>3, <3>4 DEF SlotInv
  <2>21. ASSUME NEW t \in Workers, Reconnected(t) PROVE SlotInv'
    <3>1. \/ rec[t].slot \in DOMAIN pool /\ Len(pool') = Len(pool)
          \/ rec[t].slot \notin DOMAIN pool /\ Len(pool') = Len(pool) + 1
      <4>1. pool \in Seq(Connection)
        BY Zenon DEF TypeOK, PoolType
      <4> QED
        BY <2>21, <4>1, AppendType DEF Reconnected, Connection
    <3>2. ASSUME NEW u \in Workers
          PROVE  /\ rec'[u].pc = "connect" => rec'[u].slot \in 1 .. Len(pool') + 1
                 /\ rec'[u].pc = "store" /\ rec'[u].result = "NotRunning" => Len(pool') = Size
      <4>1. /\ rec'[u].pc = rec[u].pc /\ rec'[u].result = rec[u].result
            /\ u = t => rec'[u].slot = rec[t].slot + 1
            /\ u # t => rec'[u].slot = rec[u].slot
        BY <2>21, Ranges DEF Reconnected, RecRecord
      <4>2. /\ rec[t].pc = "connect" /\ rec[t].slot \in 1 .. Len(pool) + 1
            /\ rec[u].pc = "connect" => rec[u].slot \in 1 .. Len(pool) + 1
            /\ rec[u].pc = "store" /\ rec[u].result = "NotRunning" => Len(pool) = Size
        BY <2>21 DEF Reconnected, NeedsConnection, SlotInv, WorkerSlots
      <4>3. Len(pool) \in 0 .. Size /\ DOMAIN pool = 1 .. Len(pool)
        BY Ranges
      <4>4. /\ Len(pool') = Len(pool) \/ Len(pool') = Len(pool) + 1
            /\ rec[t].slot + 1 \in 1 .. Len(pool') + 1
            /\ Len(pool) = Size => Len(pool') = Len(pool)
        BY <2>21, <3>1, <4>2, <4>3, Bounds DEF Reconnected, NeedsConnection
      <4>5. CASE u = t
        BY <4>1, <4>2, <4>4, <4>5
      <4>6. CASE u # t
        <5>0. Len(pool) \in Nat
          BY <4>3, Bounds
        <5>1. 1 .. Len(pool) + 1 \subseteq 1 .. Len(pool') + 1
          BY <4>4, <5>0, Longer, Zenon
        <5>2. rec[u].pc = "connect" => rec[u].slot \in 1 .. Len(pool') + 1
          BY <4>2, <5>1, Zenon
        <5> QED
          BY <4>1, <4>2, <4>4, <4>6, <5>2
      <4> QED
        BY <4>5, <4>6
    <3>3. WorkerSlots'
      BY <3>2 DEF WorkerSlots
    <3>4. BeatSlot'
      BY <2>21, <3>1, Ranges, Bounds DEF Reconnected, NeedsConnection, hbVars, SlotInv, BeatSlot
    <3>5. ScanSlots'
      BY <2>21, <3>1, Ranges, Bounds, ZenonT(20), SMTT(20) DEF Reconnected, NeedsConnection, hbVars, SlotInv, ScanSlots
    <3> QED
      BY <3>3, <3>4, <3>5 DEF SlotInv
  <2>22. ASSUME NEW t \in Workers, ReconnectFailed(t) PROVE SlotInv'
    <3>1. WorkerSlots'
      <4>1. \A u \in Workers : u # t => rec'[u] = rec[u]
        BY <2>22, Ranges DEF ReconnectFailed, Finish
      <4>2. rec'[t].pc # "connect" /\ (rec'[t].pc = "store" => rec'[t].result = "Disabled")
        BY <2>22, Ranges DEF ReconnectFailed, Finish, RecRecord
      <4>3. UNCHANGED pool
        BY <2>22 DEF ReconnectFailed
      <4> QED
        BY <4>1, <4>2, <4>3 DEF SlotInv, WorkerSlots
    <3>2. BeatSlot'
      BY <2>22 DEF ReconnectFailed, NeedsConnection, Finish, ReleaseWrite, Reported, hbVars, SlotInv, BeatSlot
    <3>3. ScanSlots'
      BY <2>22 DEF ReconnectFailed, NeedsConnection, Finish, ReleaseWrite, Reported, hbVars, SlotInv, ScanSlots
    <3> QED
      BY <3>1, <3>2, <3>3 DEF SlotInv
  <2>23. ASSUME NEW t \in Workers, AllReconnected(t) PROVE SlotInv'
    <3>1. WorkerSlots'
      BY <2>23, Ranges, Bounds DEF AllReconnected, Finish, ReleaseWrite, hbVars, SlotInv, WorkerSlots
    <3>2. BeatSlot'
      BY <2>23 DEF AllReconnected, Finish, ReleaseWrite, hbVars, SlotInv, BeatSlot
    <3>3. ScanSlots'
      BY <2>23 DEF AllReconnected, Finish, ReleaseWrite, hbVars, SlotInv, ScanSlots
    <3> QED
      BY <3>1, <3>2, <3>3 DEF SlotInv
  <2>24. ASSUME NEW t \in Workers, StoreState(t) PROVE SlotInv'
    <3>1. WorkerSlots'
      BY <2>24, Ranges, Bounds DEF StoreState, hbVars, SlotInv, WorkerSlots
    <3>2. BeatSlot'
      BY <2>24 DEF StoreState, hbVars, SlotInv, BeatSlot
    <3>3. ScanSlots'
      BY <2>24 DEF StoreState, hbVars, SlotInv, ScanSlots
    <3> QED
      BY <3>1, <3>2, <3>3 DEF SlotInv
  <2>25. ASSUME NEW t \in Workers, MarkNode(t) PROVE SlotInv'
    <3>1. WorkerSlots'
      BY <2>25, Ranges, Bounds, Zenon DEF MarkNode, Idle, hbVars, SlotInv, WorkerSlots
    <3>2. BeatSlot'
      BY <2>25 DEF MarkNode, Idle, hbVars, SlotInv, BeatSlot
    <3>3. ScanSlots'
      BY <2>25 DEF MarkNode, Idle, hbVars, SlotInv, ScanSlots
    <3> QED
      BY <3>1, <3>2, <3>3 DEF SlotInv
  <2>26. CASE HeartbeatTick
    <3>1. WorkerSlots'
      BY <2>26 DEF HeartbeatTick, Enqueue, hbVars, SlotInv, WorkerSlots
    <3>2. BeatSlot'
      BY <2>26, Ranges, Bounds DEF HeartbeatTick, Enqueue, hbVars, SlotInv, BeatSlot
    <3>3. ScanSlots'
      BY <2>26 DEF HeartbeatTick, Enqueue, hbVars, SlotInv, ScanSlots
    <3> QED
      BY <3>1, <3>2, <3>3 DEF SlotInv
  <2>27. CASE HeartbeatSend
    <3>1. WorkerSlots'
      BY <2>27 DEF HeartbeatSend, hbVars, SlotInv, WorkerSlots
    <3>2. BeatSlot'
      BY <2>27, Ranges, Bounds DEF HeartbeatSend, hbVars, SlotInv, BeatSlot
    <3>3. ScanSlots'
      BY <2>27 DEF HeartbeatSend, hbVars, SlotInv, ScanSlots
    <3> QED
      BY <3>1, <3>2, <3>3 DEF SlotInv
  <2>28. CASE HeartbeatAnswered
    <3>1. WorkerSlots'
      BY <2>28 DEF HeartbeatAnswered, hbVars, SlotInv, WorkerSlots
    <3>2. BeatSlot'
      BY <2>28, Ranges, Bounds DEF HeartbeatAnswered, hbVars, SlotInv, BeatSlot
    <3>3. ScanSlots'
      BY <2>28 DEF HeartbeatAnswered, hbVars, SlotInv, ScanSlots
    <3> QED
      BY <3>1, <3>2, <3>3 DEF SlotInv
  <2>29. CASE HeartbeatDone
    <3>1. WorkerSlots'
      BY <2>29 DEF HeartbeatDone, ReleaseRead, hbVars, SlotInv, WorkerSlots
    <3>2. BeatSlot'
      BY <2>29, Ranges, Bounds DEF HeartbeatDone, ReleaseRead, hbVars, SlotInv, BeatSlot
    <3>3. ScanSlots'
      BY <2>29 DEF HeartbeatDone, ReleaseRead, hbVars, SlotInv, ScanSlots
    <3> QED
      BY <3>1, <3>2, <3>3 DEF SlotInv
  <2>30. ASSUME NEW c \in Callers, CallConnection(c) PROVE SlotInv'
    <3>1. WorkerSlots'
      BY <2>30 DEF CallConnection, Enqueue, hbVars, SlotInv, WorkerSlots
    <3>2. BeatSlot'
      BY <2>30 DEF CallConnection, Enqueue, hbVars, SlotInv, BeatSlot
    <3>3. ScanSlots'
      BY <2>30, Ranges, Bounds DEF CallConnection, Enqueue, hbVars, SlotInv, ScanSlots
    <3> QED
      BY <3>1, <3>2, <3>3 DEF SlotInv
  <2>31. ASSUME NEW c \in Callers, BeginScan(c) PROVE SlotInv'
    <3>1. WorkerSlots'
      BY <2>31 DEF BeginScan, hbVars, SlotInv, WorkerSlots
    <3>2. BeatSlot'
      BY <2>31 DEF BeginScan, hbVars, SlotInv, BeatSlot
    <3>3. ScanSlots'
      <4>1. PICK i \in DOMAIN pool : call' = [call EXCEPT ![c] = [pc |-> "scan", first |-> i, slot |-> i]]
        BY <2>31, Zenon DEF BeginScan
      <4>2. i \in 1 .. Len(pool) /\ UNCHANGED pool
        BY <2>31, Ranges DEF BeginScan
      <4> QED
        BY <4>1, <4>2, Ranges DEF SlotInv, ScanSlots
    <3> QED
      BY <3>1, <3>2, <3>3 DEF SlotInv
  <2>32. ASSUME NEW c \in Callers, ScanNext(c) PROVE SlotInv'
    <3>1. WorkerSlots'
      BY <2>32 DEF ScanNext, hbVars, SlotInv, WorkerSlots
    <3>2. BeatSlot'
      BY <2>32 DEF ScanNext, hbVars, SlotInv, BeatSlot
    <3>3. ScanSlots'
      <4>1. call[c].slot \in 1 .. Len(pool) /\ call[c].first \in 1 .. Len(pool) /\ Len(pool) \in 0 .. Size
        BY <2>32, Ranges DEF ScanNext, SlotInv, ScanSlots
      <4>2. NextSlot(call[c].slot) \in 1 .. Len(pool)
        BY <4>1, NextSlotIs, Bounds
      <4>3. UNCHANGED pool /\ call' = [call EXCEPT ![c].slot = NextSlot(call[c].slot)]
        BY <2>32 DEF ScanNext
      <4> QED
        BY <4>1, <4>2, <4>3, Ranges DEF SlotInv, ScanSlots, CallRecord
    <3> QED
      BY <3>1, <3>2, <3>3 DEF SlotInv
  <2>33. ASSUME NEW c \in Callers, ReturnConnection(c) PROVE SlotInv'
    <3>1. WorkerSlots'
      BY <2>33 DEF ReturnConnection, Return, ReleaseRead, hbVars, SlotInv, WorkerSlots
    <3>2. BeatSlot'
      BY <2>33 DEF ReturnConnection, Return, ReleaseRead, hbVars, SlotInv, BeatSlot
    <3>3. ScanSlots'
      BY <2>33, Ranges, Bounds, SMTT(20) DEF ReturnConnection, Return, ReleaseRead, hbVars, SlotInv, ScanSlots
    <3> QED
      BY <3>1, <3>2, <3>3 DEF SlotInv
  <2>34. ASSUME NEW c \in Callers, NoConnections(c) PROVE SlotInv'
    <3>1. WorkerSlots'
      BY <2>34 DEF NoConnections, Return, ReleaseRead, hbVars, SlotInv, WorkerSlots
    <3>2. BeatSlot'
      BY <2>34 DEF NoConnections, Return, ReleaseRead, hbVars, SlotInv, BeatSlot
    <3>3. ScanSlots'
      BY <2>34, Ranges, Bounds DEF NoConnections, Return, ReleaseRead, hbVars, SlotInv, ScanSlots
    <3> QED
      BY <3>1, <3>2, <3>3 DEF SlotInv
  <2>35. ASSUME NEW i \in 1 .. Size, Break(i) PROVE SlotInv'
    <3>1. Len(pool') = Len(pool)
      <4>1. pool \in Seq(Connection)
        BY Zenon DEF TypeOK, PoolType
      <4> QED
        BY <2>35, <4>1 DEF Break
    <3>2. WorkerSlots'
      BY <2>35, <3>1, Ranges, Bounds, Zenon DEF Break, hbVars, SlotInv, WorkerSlots
    <3>3. BeatSlot'
      BY <2>35, <3>1, Ranges, Bounds DEF Break, hbVars, SlotInv, BeatSlot
    <3>4. ScanSlots'
      BY <2>35, <3>1, Ranges, Bounds DEF Break, hbVars, SlotInv, ScanSlots
    <3> QED
      BY <3>2, <3>3, <3>4 DEF SlotInv
  <2> QED
    BY <1>2, <2>1, <2>2, <2>3, <2>4, <2>5, <2>6, <2>7, <2>8, <2>9, <2>10, <2>11, <2>12, <2>13, <2>14, <2>15, <2>16, <2>17, <2>18, <2>19, <2>20, <2>21, <2>22, <2>23, <2>24, <2>25, <2>26, <2>27, <2>28, <2>29, <2>30, <2>31, <2>32, <2>33, <2>34, <2>35
       DEF Next, CreateNext, MonitorNext, Reporting, WorkerNext, HeartbeatNext, CallNext
<1> QED
  BY <1>1, <1>2

\* The tasks are spawned with the pool.
LEMMA PhaseStep == PoolInv /\ [Next]_vars => PhaseInv'
<1> SUFFICES ASSUME PoolInv, [Next]_vars PROVE PhaseInv'
  OBVIOUS
<1> USE DEF PoolInv
<1>1. CASE UNCHANGED vars
  BY <1>1, SMTT(20) DEF vars, createVars, hbVars, lockVars, PhaseInv
<1>2. CASE Next
  <2>1. CASE Create
    BY <2>1, Ranges DEF Create, hbVars, createVars, PhaseInv
  <2>2. CASE Connected
    BY <2>2 DEF Connected, Started, hbVars, createVars, PhaseInv
  <2>3. CASE ConnectFailed
    BY <2>3 DEF ConnectFailed, Reported, Started, hbVars, createVars, PhaseInv
  <2>4. CASE CreateFailed
    BY <2>4, Ranges DEF CreateFailed, Started, hbVars, createVars, PhaseInv
  <2>5. CASE Joined
    BY <2>5, Ranges DEF Joined, Started, hbVars, createVars, PhaseInv
  <2>6. CASE CreatedWhole
    BY <2>6, Ranges DEF CreatedWhole, Ready, hbVars, createVars, PhaseInv
  <2>7. CASE CreatedPartly
    BY <2>7, Ranges DEF CreatedPartly, Ready, hbVars, createVars, PhaseInv
  <2>8. CASE Grant
    BY <2>8 DEF Grant, hbVars, createVars, PhaseInv
  <2>9. CASE MonitorReceive
    BY <2>9, Ranges DEF MonitorReceive, Enqueue, hbVars, createVars, PhaseInv
  <2>10. CASE MonitorClosed
    BY <2>10, Ranges DEF MonitorClosed, hbVars, createVars, PhaseInv
  <2>11. CASE MonitorCheck
    BY <2>11, Ranges DEF MonitorCheck, ReleaseRead, hbVars, createVars, PhaseInv
  <2>12. CASE MarkDown
    BY <2>12, Ranges DEF MarkDown, hbVars, createVars, PhaseInv
  <2>13. CASE MonitorSkips
    BY <2>13, Ranges DEF MonitorSkips, hbVars, createVars, PhaseInv
  <2>14. ASSUME NEW t \in Workers, StartReconnection(t) PROVE PhaseInv'
    BY <2>14, Ranges DEF StartReconnection, Idle, hbVars, createVars, PhaseInv
  <2>15. CASE StrayReport
    BY <2>15 DEF StrayReport, hbVars, createVars, PhaseInv
  <2>16. ASSUME NEW i \in 1 .. Size, Report(i) PROVE PhaseInv'
    BY <2>16 DEF Report, hbVars, createVars, PhaseInv
  <2>17. CASE Discard
    BY <2>17, Zenon DEF Discard, hbVars, createVars, PhaseInv
  <2>18. ASSUME NEW t \in Workers, Delay(t) PROVE PhaseInv'
    BY <2>18, Ranges DEF Delay, Enqueue, Finish, hbVars, createVars, PhaseInv
  <2>19. ASSUME NEW t \in Workers, BeginReconnect(t) PROVE PhaseInv'
    BY <2>19, Ranges DEF BeginReconnect, hbVars, createVars, PhaseInv
  <2>20. ASSUME NEW t \in Workers, SkipHealthy(t) PROVE PhaseInv'
    BY <2>20, Ranges DEF SkipHealthy, hbVars, createVars, PhaseInv
  <2>21. ASSUME NEW t \in Workers, Reconnected(t) PROVE PhaseInv'
    BY <2>21, Ranges DEF Reconnected, NeedsConnection, hbVars, createVars, PhaseInv
  <2>22. ASSUME NEW t \in Workers, ReconnectFailed(t) PROVE PhaseInv'
    BY <2>22, Ranges DEF ReconnectFailed, NeedsConnection, Finish, ReleaseWrite, Reported, hbVars, createVars, PhaseInv
  <2>23. ASSUME NEW t \in Workers, AllReconnected(t) PROVE PhaseInv'
    BY <2>23, Ranges DEF AllReconnected, Finish, ReleaseWrite, hbVars, createVars, PhaseInv
  <2>24. ASSUME NEW t \in Workers, StoreState(t) PROVE PhaseInv'
    BY <2>24, Ranges, SMTT(20) DEF StoreState, hbVars, createVars, PhaseInv
  <2>25. ASSUME NEW t \in Workers, MarkNode(t) PROVE PhaseInv'
    BY <2>25, Ranges DEF MarkNode, Idle, hbVars, createVars, PhaseInv
  <2>26. CASE HeartbeatTick
    BY <2>26, Ranges DEF HeartbeatTick, Enqueue, hbVars, createVars, PhaseInv
  <2>27. CASE HeartbeatSend
    BY <2>27, Ranges DEF HeartbeatSend, hbVars, createVars, PhaseInv
  <2>28. CASE HeartbeatAnswered
    BY <2>28 DEF HeartbeatAnswered, hbVars, createVars, PhaseInv
  <2>29. CASE HeartbeatDone
    BY <2>29, Ranges DEF HeartbeatDone, ReleaseRead, hbVars, createVars, PhaseInv
  <2>30. ASSUME NEW c \in Callers, CallConnection(c) PROVE PhaseInv'
    BY <2>30, Ranges DEF CallConnection, Enqueue, hbVars, createVars, PhaseInv
  <2>31. ASSUME NEW c \in Callers, BeginScan(c) PROVE PhaseInv'
    BY <2>31, Ranges DEF BeginScan, hbVars, createVars, PhaseInv
  <2>32. ASSUME NEW c \in Callers, ScanNext(c) PROVE PhaseInv'
    BY <2>32, Ranges DEF ScanNext, hbVars, createVars, PhaseInv
  <2>33. ASSUME NEW c \in Callers, ReturnConnection(c) PROVE PhaseInv'
    BY <2>33, Ranges DEF ReturnConnection, Return, ReleaseRead, hbVars, createVars, PhaseInv
  <2>34. ASSUME NEW c \in Callers, NoConnections(c) PROVE PhaseInv'
    BY <2>34, Ranges, SMTT(20) DEF NoConnections, Return, ReleaseRead, hbVars, createVars, PhaseInv
  <2>35. ASSUME NEW i \in 1 .. Size, Break(i) PROVE PhaseInv'
    BY <2>35 DEF Break, hbVars, createVars, PhaseInv
  <2> QED
    BY <1>2, <2>1, <2>2, <2>3, <2>4, <2>5, <2>6, <2>7, <2>8, <2>9, <2>10, <2>11, <2>12, <2>13, <2>14, <2>15, <2>16, <2>17, <2>18, <2>19, <2>20, <2>21, <2>22, <2>23, <2>24, <2>25, <2>26, <2>27, <2>28, <2>29, <2>30, <2>31, <2>32, <2>33, <2>34, <2>35
       DEF Next, CreateNext, MonitorNext, Reporting, WorkerNext, HeartbeatNext, CallNext
<1> QED
  BY <1>1, <1>2

\* The invariant holds when nothing has happened yet.
LEMMA PoolInit == Init => PoolInv
<1> SUFFICES ASSUME Init PROVE PoolInv
  OBVIOUS
<1>0. unsupported \in BOOLEAN
  BY Zenon DEF Init
<1>1. CreateType /\ LockType
  <2>1. CreateType
    BY <1>0, Bounds DEF Init, CreateType
  <2>2. LockType
    BY DEF Init, LockType
  <2> QED
    BY <2>1, <2>2
<1>2. PoolType
  BY Bounds DEF Init, PoolType, Connection
<1>3. rec \in [Workers -> RecRecord] /\ call \in [Callers -> CallRecord]
  BY Bounds DEF Init, Idle, RecRecord, CallRecord, WorkerPcs, Results
<1>4. TaskType
  BY <1>3, Bounds DEF Init, TaskType, NodeStates
<1>5. SlotInv /\ PhaseInv
  BY DEF Init, Idle, SlotInv, WorkerSlots, BeatSlot, ScanSlots, PhaseInv
<1> QED
  BY <1>1, <1>2, <1>4, <1>5 DEF PoolInv, TypeOK

\* Every step keeps types, indices and phases.
LEMMA PoolStep == PoolInv /\ [Next]_vars => PoolInv'
  BY TypeStep, SlotStep, PhaseStep DEF PoolInv

\* The state of the pool is typed: the error channel never holds more than
\* its capacity, the vector is never longer than desired_size, and every
\* index into it is in range (connection(), reconnect_broken).
THEOREM PoolTypeCorrect == Spec => []TypeOK
<1>1. Init => PoolInv
  BY PoolInit
<1>2. PoolInv /\ [Next]_vars => PoolInv'
  BY PoolStep
<1>3. PoolInv => TypeOK
  BY DEF PoolInv
<1> QED
  BY <1>1, <1>2, <1>3, PTL DEF Spec

-----------------------------------------------------------------------------
(***************************************************************************)
(* At most one reconnection.                                               *)
(***************************************************************************)

(***************************************************************************)
(* What the tasks leave alone.                                             *)
(***************************************************************************)

\* The lock, the heartbeat and the callers change neither the vector nor the
\* states of the node and of the reconnection.
UserNext == Grant \/ HeartbeatTick \/ HeartbeatNext \/ \E c \in Callers : CallConnection(c) \/ CallNext(c)

\* So none of their steps is about the connections.
LEMMA UserFrame ==
    UserNext => UNCHANGED <<phase, pool, channel, world, mon, recState, rec, nodeState>>
<1>1. Grant => UNCHANGED <<phase, pool, channel, world, mon, recState, rec, nodeState>>
  BY DEF Grant, createVars
<1>2. HeartbeatTick \/ HeartbeatNext => UNCHANGED <<phase, pool, channel, world, mon, recState, rec, nodeState>>
  BY DEF HeartbeatTick, HeartbeatNext, HeartbeatSend, HeartbeatAnswered, HeartbeatDone, createVars
<1>3. ASSUME NEW c \in Callers, CallConnection(c) \/ CallNext(c)
      PROVE  UNCHANGED <<phase, pool, channel, world, mon, recState, rec, nodeState>>
  BY <1>3, SMTT(20) DEF CallConnection, CallNext, BeginScan, ScanNext, ReturnConnection, NoConnections, Return, createVars
<1> QED
  BY <1>1, <1>2, <1>3 DEF UserNext

\* Creating the pool happens before there are reconnections and callers.
LEMMA CreateFrame == CreateNext => phase # "ready" /\ UNCHANGED <<world, readers, writer, recState, rec, call>>
  BY Zenon DEF CreateNext, Create, Connected, ConnectFailed, CreateFailed, Joined, CreatedWhole, CreatedPartly,
         Ready, createVars, lockVars

\* Until it starts a reconnection the monitor only looks.
LookNext == MonitorReceive \/ MonitorClosed \/ MonitorCheck \/ MarkDown \/ MonitorSkips

\* It may at most give its read lock back.
LEMMA LookFrame ==
    LookNext => /\ UNCHANGED <<phase, pool, world, writer, recState, rec, call>>
                /\ readers' \in {readers, readers \ {Monitor}}
  BY DEF LookNext, MonitorReceive, MonitorClosed, MonitorCheck, MarkDown, MonitorSkips, Enqueue, ReleaseRead,
         createVars, lockVars

\* Breaking and reporting are up to the transports, discarding to the session.
LinkNext == Reporting \/ Discard \/ \E i \in 1 .. Size : Break(i)

\* None of them takes the lock or touches the reconnection.
LEMMA LinkFrame ==
    LinkNext => UNCHANGED <<phase, readers, writer, mon, recState, rec, call, nodeState>>
<1>1. StrayReport \/ Discard => UNCHANGED <<phase, readers, writer, mon, recState, rec, call, nodeState>>
  BY Zenon DEF StrayReport, Discard, createVars, lockVars
<1>2. ASSUME NEW i \in 1 .. Size, Report(i) \/ Break(i)
      PROVE  UNCHANGED <<phase, readers, writer, mon, recState, rec, call, nodeState>>
  BY <1>2 DEF Report, Break, createVars, lockVars
<1> QED
  BY <1>1, <1>2 DEF LinkNext, Reporting

\* Every step is one of these, or a step of a reconnection.
LEMMA Kinds ==
    Next => \/ UserNext \/ CreateNext \/ LookNext \/ LinkNext
            \/ \E t \in Workers : StartReconnection(t) \/ WorkerNext(t)
  BY Zenon DEF Next, MonitorNext, UserNext, LookNext, LinkNext

\* Starting a reconnection.
LEMMA StartStep ==
    ASSUME PoolInv, NEW t \in Workers, StartReconnection(t)
    PROVE  /\ recState = "NotRunning" /\ recState' = "InProgress" /\ mon = "load"
           /\ rec'[t].pc = "delay" /\ \A u \in Workers : u # t => rec'[u] = rec[u]
           /\ UNCHANGED <<phase, pool, channel, world, readers, writer, call, nodeState>>
<1>1. rec \in [Workers -> RecRecord]
  BY Ranges DEF PoolInv
<1> QED
  BY <1>1 DEF StartReconnection, createVars, lockVars

\* What a step of a reconnection task does: it stays active, stores its
\* result, or marks the node and ends.
LEMMA WorkerStep ==
    ASSUME PoolInv, NEW t \in Workers, WorkerNext(t)
    PROVE  /\ \A u \in Workers : u # t => rec'[u] = rec[u]
           /\ UNCHANGED <<phase, mon, world, call>>
           /\ \/ t \in Active /\ t \in Active' /\ UNCHANGED <<recState, nodeState>>
              \/ /\ rec[t].pc = "store" /\ rec'[t].pc = "mark" /\ rec'[t].result = rec[t].result
                 /\ recState' = rec[t].result /\ UNCHANGED <<nodeState, pool, channel>>
              \/ /\ rec[t].pc = "mark" /\ rec'[t].pc = "off" /\ UNCHANGED <<recState, pool, channel>>
                 /\ nodeState' \in {nodeState, IF rec[t].result = "Disabled" THEN "ForcedDown" ELSE "Up"}
<1>0. rec \in [Workers -> RecRecord]
  BY Ranges DEF PoolInv
<1>1. CASE Delay(t)
  BY <1>0, <1>1 DEF Delay, Enqueue, Finish, createVars, Active, RecRecord
<1>2. CASE BeginReconnect(t)
  BY <1>0, <1>2 DEF BeginReconnect, createVars, Active, RecRecord
<1>3. CASE SkipHealthy(t)
  BY <1>0, <1>3 DEF SkipHealthy, createVars, Active, RecRecord
<1>4. CASE Reconnected(t)
  BY <1>0, <1>4 DEF Reconnected, NeedsConnection, createVars, Active, RecRecord
<1>5. CASE ReconnectFailed(t)
  BY <1>0, <1>5 DEF ReconnectFailed, NeedsConnection, Finish, ReleaseWrite, Reported, createVars, Active, RecRecord
<1>6. CASE AllReconnected(t)
  BY <1>0, <1>6 DEF AllReconnected, Finish, ReleaseWrite, createVars, Active, RecRecord
<1>7. CASE StoreState(t)
  BY <1>0, <1>7 DEF StoreState, createVars, Active, RecRecord
<1>8. CASE MarkNode(t)
  BY <1>0, <1>8 DEF MarkNode, Idle, createVars, Active, RecRecord
<1> QED
  BY <1>1, <1>2, <1>3, <1>4, <1>5, <1>6, <1>7, <1>8, Zenon DEF WorkerNext

-----------------------------------------------------------------------------
(***************************************************************************)
(* One reconnection at a time.                                             *)
(***************************************************************************)

\* No reconnection runs in a pool that does not exist yet.
LEMMA OneInit == Init => OneReconnection
<1> SUFFICES ASSUME Init PROVE OneReconnection
  OBVIOUS
<1>1. recState = "NotRunning" /\ rec = [t \in Workers |-> Idle]
  BY DEF Init
<1>2. Active = {}
  BY <1>1 DEF Idle, Active
<1> QED
  BY <1>1, <1>2 DEF OneReconnection

\* The load and the two stores of the reconnection state do not race.
LEMMA OneStep == PoolInv /\ OneReconnection /\ [Next]_vars => OneReconnection'
<1> SUFFICES ASSUME PoolInv, OneReconnection, [Next]_vars PROVE OneReconnection'
  OBVIOUS
<1>1. ASSUME UNCHANGED <<recState, rec>> PROVE OneReconnection'
  BY <1>1 DEF OneReconnection, Active
<1>2. CASE UNCHANGED vars
  BY <1>1, <1>2 DEF vars
<1>3. CASE UserNext \/ CreateNext \/ LookNext \/ LinkNext
  BY <1>1, <1>3, UserFrame, CreateFrame, LookFrame, LinkFrame
<1>4. ASSUME NEW t \in Workers, StartReconnection(t) PROVE OneReconnection'
  <2>1. Active = {} /\ recState' = "InProgress"
    BY <1>4, StartStep DEF OneReconnection
  <2>2. Active' = {t}
    BY <1>4, <2>1, StartStep DEF Active
  <2> QED
    BY <2>1, <2>2 DEF OneReconnection
<1>5. ASSUME NEW t \in Workers, WorkerNext(t) PROVE OneReconnection'
  <2>1. \A u \in Workers : u # t => rec'[u] = rec[u]
    BY <1>5, WorkerStep
  <2>2. CASE t \in Active /\ t \in Active' /\ UNCHANGED recState
    BY <2>1, <2>2 DEF OneReconnection, Active
  <2>3. CASE rec[t].pc = "store" /\ rec'[t].pc = "mark" /\ recState' = rec[t].result
    <3>1. rec[t].result # "InProgress"
      BY Ranges DEF PoolInv, RecRecord, Results
    <3> QED
      BY <2>1, <2>3, <3>1 DEF OneReconnection, Active
  <2>4. CASE rec[t].pc = "mark" /\ rec'[t].pc = "off" /\ UNCHANGED recState
    BY <2>1, <2>4 DEF OneReconnection, Active
  <2> QED
    BY <1>5, <2>2, <2>3, <2>4, WorkerStep, Zenon
<1> QED
  BY <1>2, <1>3, <1>4, <1>5, Kinds

\* At most one reconnection task runs, exactly while the state says
\* InProgress, whenever errors arrive and however long the task takes.
THEOREM ReconnectionIsSingle == Spec => []OneReconnection
<1> DEFINE I == PoolInv /\ OneReconnection
<1>1. Init => I
  BY PoolInit, OneInit
<1>2. I /\ [Next]_vars => I'
  BY PoolStep, OneStep
<1>3. I => OneReconnection
  OBVIOUS
<1> QED
  BY <1>1, <1>2, <1>3, PTL DEF Spec

-----------------------------------------------------------------------------
(***************************************************************************)
(* A node that is forced down stays down.                                  *)
(***************************************************************************)

\* Whoever forces the node down has stored Disabled before, or the pool was
\* never made and the monitor has not got past its check.
ForcedInv ==
    /\ nodeState = "ForcedDown" =>
          recState = "Disabled" \/ (mon \in {"off", "recv", "stopped"} /\ Active = {})
    /\ \A t \in Workers :
          rec[t].pc = "mark" /\ rec[t].result = "Disabled" => recState = "Disabled"

\* Nothing is forced down before the pool exists.
LEMMA ForcedInit == Init => ForcedInv
<1> SUFFICES ASSUME Init PROVE ForcedInv
  OBVIOUS
<1>1. nodeState # "ForcedDown" /\ rec = [t \in Workers |-> Idle]
  BY DEF Init, NodeStates
<1> QED
  BY <1>1 DEF Idle, ForcedInv

\* Storing the result comes before marking the node.
LEMMA ForcedStep == PoolInv /\ OneReconnection /\ ForcedInv /\ [Next]_vars => ForcedInv'
<1> SUFFICES ASSUME PoolInv, OneReconnection, ForcedInv, [Next]_vars PROVE ForcedInv'
  OBVIOUS
<1>1. ASSUME UNCHANGED <<mon, recState, rec, nodeState>> PROVE ForcedInv'
  BY <1>1 DEF ForcedInv, Active
<1>2. CASE UNCHANGED vars
  BY <1>1, <1>2 DEF vars
<1>3. CASE UserNext \/ LinkNext
  BY <1>1, <1>3, UserFrame, LinkFrame
<1>4. CASE CreateNext
  <2>1. recState' = recState /\ rec' = rec /\ mon = "off" /\ \A t \in Workers : rec[t].pc = "off"
    BY <1>4, CreateFrame, Zenon DEF PoolInv, PhaseInv
  <2>2. mon' \in {"off", "recv"}
    BY <1>4, <2>1, Zenon DEF CreateNext, Create, Connected, ConnectFailed, CreateFailed, Joined, CreatedWhole,
                      CreatedPartly, Ready
  <2> QED
    BY <2>1, <2>2 DEF ForcedInv, Active
<1>5. CASE LookNext
  <2>1. recState' = recState /\ rec' = rec
    BY <1>5, LookFrame
  <2>2. nodeState' = nodeState \/ (mon = "mark" /\ nodeState' = "Down")
    BY <1>5 DEF LookNext, MonitorReceive, MonitorClosed, MonitorCheck, MarkDown, MonitorSkips
  <2>3. nodeState' = "ForcedDown" /\ mon \in {"off", "recv", "stopped"} => mon' = "stopped"
    BY <1>5, <2>2, SMTT(20) DEF LookNext, MonitorReceive, MonitorClosed, MonitorCheck, MarkDown, MonitorSkips
  <2> QED
    BY <2>1, <2>2, <2>3 DEF ForcedInv, Active
<1>6. ASSUME NEW t \in Workers, WorkerNext(t) PROVE ForcedInv'
  <2>1. \A u \in Workers : u # t => rec'[u] = rec[u]
    BY <1>6, WorkerStep
  <2>2. UNCHANGED mon
    BY <1>6, WorkerStep
  <2>3. CASE t \in Active /\ t \in Active' /\ UNCHANGED <<recState, nodeState>>
    <3>1. recState = "InProgress"
      BY <2>3 DEF OneReconnection
    <3>2. nodeState # "ForcedDown"
      BY <2>3, <3>1 DEF ForcedInv
    <3> QED
      BY <2>1, <2>3, <3>1, <3>2 DEF ForcedInv, Active
  <2>4. CASE /\ rec[t].pc = "store" /\ rec'[t].pc = "mark" /\ rec'[t].result = rec[t].result
             /\ recState' = rec[t].result /\ UNCHANGED nodeState
    <3>1. t \in Active /\ recState = "InProgress"
      BY <2>4 DEF OneReconnection, Active
    <3>2. nodeState # "ForcedDown"
      BY <3>1 DEF ForcedInv
    <3> QED
      BY <2>1, <2>4, <3>1, <3>2 DEF ForcedInv
  <2>5. CASE /\ rec[t].pc = "mark" /\ rec'[t].pc = "off" /\ UNCHANGED recState
             /\ nodeState' \in {nodeState, IF rec[t].result = "Disabled" THEN "ForcedDown" ELSE "Up"}
    <3>1. Active' = Active
      BY <2>1, <2>5 DEF Active
    <3>2. rec[t].result = "Disabled" => recState = "Disabled"
      BY <2>5 DEF ForcedInv
    <3> QED
      BY <2>1, <2>2, <2>5, <3>1, <3>2 DEF ForcedInv
  <2> QED
    BY <1>6, <2>3, <2>4, <2>5, WorkerStep, ZenonT(30)
<1>7. ASSUME NEW t \in Workers, StartReconnection(t) PROVE ForcedInv'
  <2>1. nodeState # "ForcedDown"
    BY <1>7, StartStep DEF ForcedInv
  <2> QED
    BY <1>7, <2>1, StartStep DEF ForcedInv
<1> QED
  BY <1>2, <1>3, <1>4, <1>5, <1>6, <1>7, Kinds

\* A node that is forced down is left alone: no reconnection to it is waiting
\* or running (run_reconnection_loop, monitor_connections).
THEOREM ForcedDownIsFinal == Spec => []ForcedDownIsLeftAlone
<1> DEFINE I == PoolInv /\ OneReconnection /\ ForcedInv
<1>1. Init => I
  BY PoolInit, OneInit, ForcedInit
<1>2. I /\ [Next]_vars => I'
  BY PoolStep, OneStep, ForcedStep
<1>3. I => ForcedDownIsLeftAlone
  BY DEF OneReconnection, ForcedInv, ForcedDownIsLeftAlone, Active
<1> QED
  BY <1>1, <1>2, <1>3, PTL DEF Spec

-----------------------------------------------------------------------------
(***************************************************************************)
(* A pool created with connections missing is completed.                   *)
(***************************************************************************)

\* A reconnection task never takes a connection or an error away.
LEMMA PoolGrows ==
    ASSUME PoolInv, NEW t \in Workers, WorkerNext(t)
    PROVE  Len(pool') >= Len(pool) /\ channel' >= channel /\ Len(pool) \in Nat /\ Len(pool') \in Nat
<1>0. pool \in Seq(Connection) /\ channel \in Nat /\ Len(pool) \in Nat
  <2>1. pool \in Seq(Connection)
    BY Zenon DEF PoolInv, TypeOK, PoolType
  <2>2. channel \in 0 .. Size /\ Len(pool) \in 0 .. Size
    BY Ranges DEF PoolInv
  <2> QED
    BY <2>1, <2>2, Bounds
<1>1. CASE Reconnected(t)
  BY <1>0, <1>1, AppendType DEF Reconnected, Connection
<1>2. CASE ReconnectFailed(t)
  <2>1. UNCHANGED pool /\ channel' \in {channel, Reported(channel)}
    BY <1>2 DEF ReconnectFailed
  <2> QED
    BY <1>0, <2>1, Bounds DEF Reported
<1>3. CASE UNCHANGED <<pool, channel>>
  BY <1>0, <1>3
<1> QED
  BY <1>1, <1>2, <1>3 DEF WorkerNext, Delay, BeginReconnect, SkipHealthy, AllReconnected, StoreState, MarkNode

\* A reconnection that ends well leaves no connection missing.
LEMMA MissingStep == PoolInv /\ OneReconnection /\ MissingIsNoticed /\ [Next]_vars => MissingIsNoticed'
<1> SUFFICES ASSUME PoolInv, OneReconnection, MissingIsNoticed, [Next]_vars PROVE MissingIsNoticed'
  OBVIOUS
<1>0. Len(pool) \in Nat /\ channel \in Nat /\ Size \in Nat
  BY Ranges, Bounds DEF PoolInv
<1>1. ASSUME UNCHANGED <<phase, pool, channel, world, mon, recState, rec>> PROVE MissingIsNoticed'
  BY <1>1 DEF MissingIsNoticed, Watched, Active, NodeAlive
<1>2. CASE UNCHANGED vars
  BY <1>1, <1>2 DEF vars, createVars
<1>3. CASE UserNext
  BY <1>1, <1>3, UserFrame
<1>4. CASE CreateNext
  <2>1. CASE CreatedWhole
    BY <1>0, <2>1 DEF CreatedWhole, Ready, MissingIsNoticed
  <2>2. CASE CreatedPartly
    BY <1>0, <2>2 DEF CreatedPartly, Ready, MissingIsNoticed, Watched
  <2>3. CASE Create \/ Connected \/ ConnectFailed \/ CreateFailed \/ Joined
    <3>1. phase' # "ready"
      <4>1. CASE Create \/ CreateFailed \/ Joined
        BY <4>1 DEF Create, CreateFailed, Joined
      <4>2. CASE Connected \/ ConnectFailed
        BY <4>2, Zenon DEF Connected, ConnectFailed, createVars
      <4> QED
        BY <2>3, <4>1, <4>2
    <3> QED
      BY <3>1 DEF MissingIsNoticed
  <2> QED
    BY <1>4, <2>1, <2>2, <2>3 DEF CreateNext
<1>5. CASE LookNext
  <2>1. UNCHANGED <<phase, pool, world, recState, rec>>
    BY <1>5, LookFrame
  <2>2. CASE mon' \in {"lock", "mark", "load", "stopped"}
    BY <2>2 DEF MissingIsNoticed, Watched
  <2>3. CASE MonitorSkips
    <3>1. recState = "Disabled" \/ recState = "InProgress"
      BY <2>3 DEF MonitorSkips, PoolInv, TypeOK, TaskType
    <3> QED
      BY <2>1, <3>1 DEF OneReconnection, MissingIsNoticed, Watched, Active
  <2> QED
    BY <1>5, <2>2, <2>3 DEF LookNext, MonitorReceive, MonitorClosed, MonitorCheck, MarkDown
<1>6. ASSUME NEW t \in Workers, WorkerNext(t) PROVE MissingIsNoticed'
  <2>1. Len(pool') >= Len(pool) /\ channel' >= channel /\ Len(pool) \in Nat /\ Len(pool') \in Nat
    BY <1>6, PoolGrows, ZenonT(30)
  <2>2. UNCHANGED <<phase, mon, world>>
    BY <1>6, WorkerStep
  <2>3. CASE t \in Active'
    BY <2>3 DEF MissingIsNoticed, Watched
  <2>4. CASE rec[t].pc = "store" /\ recState' = rec[t].result /\ UNCHANGED pool
    <3>1. rec[t].result \in Results
      BY Ranges DEF PoolInv, RecRecord
    <3>2. CASE rec[t].result = "NotRunning"
      <4>1. Len(pool) = Size
        BY <2>4, <3>2 DEF PoolInv, SlotInv, WorkerSlots
      <4> QED
        BY <2>4, <4>1, Bounds DEF MissingIsNoticed
    <3>3. CASE rec[t].result = "Disabled"
      BY <2>4, <3>3, SMTT(20) DEF MissingIsNoticed, Watched
    <3> QED
      BY <3>1, <3>2, <3>3 DEF Results
  <2>5. CASE rec[t].pc = "mark" /\ rec'[t].pc = "off" /\ UNCHANGED <<recState, pool, channel>>
    <3>1. Active' = Active
      BY <1>6, <2>5, WorkerStep, Zenon DEF Active
    <3> QED
      BY <2>2, <2>5, <3>1, Zenon DEF MissingIsNoticed, Watched, NodeAlive
  <2> QED
    BY <1>6, <2>3, <2>4, <2>5, WorkerStep
<1>7. ASSUME NEW t \in Workers, StartReconnection(t) PROVE MissingIsNoticed'
  <2>1. t \in Active'
    BY <1>7, StartStep DEF Active
  <2> QED
    BY <2>1, SMTT(20) DEF MissingIsNoticed, Watched
<1>8. CASE LinkNext
  <2>1. UNCHANGED <<phase, mon, recState, rec>>
    BY <1>8, LinkFrame
  <2>2. pool \in Seq(Connection)
    BY Zenon DEF PoolInv, TypeOK, PoolType
  <2>3. Len(pool') = Len(pool) /\ channel' >= channel /\ channel' \in Nat
    <3>1. CASE StrayReport \/ Discard
      <4>1. pool' = pool /\ (channel' = channel \/ channel' = channel + 1)
        BY <3>1, Zenon DEF StrayReport, Discard
      <4> QED
        BY <1>0, <4>1
    <3>2. ASSUME NEW i \in 1 .. Size, Report(i) \/ Break(i)
          PROVE  Len(pool') = Len(pool) /\ channel' >= channel /\ channel' \in Nat
      BY <1>0, <2>2, <3>2 DEF Report, Break
    <3> QED
      BY <1>8, <3>1, <3>2 DEF LinkNext, Reporting
  <2>4. NodeAlive' => NodeAlive
    <3>1. CASE StrayReport \/ Discard
      BY <3>1 DEF StrayReport, Discard, NodeAlive
    <3>2. ASSUME NEW i \in 1 .. Size, Report(i) \/ Break(i) PROVE NodeAlive' => NodeAlive
      BY <3>2 DEF Report, Break, NodeAlive
    <3> QED
      BY <1>8, <3>1, <3>2, SMTT(20) DEF LinkNext, Reporting
  <2>5. Watched => Watched'
    BY <1>0, <2>1, <2>3 DEF Watched, Active
  <2> QED
    BY <2>1, <2>3, <2>4, <2>5 DEF MissingIsNoticed
<1> QED
  BY <1>2, <1>3, <1>4, <1>5, <1>6, <1>7, <1>8, Kinds

\* While connections are missing there is an error to look at, a reconnection
\* running, or reconnecting was given up for good.
THEOREM MissingIsAlwaysNoticed == Spec => []MissingIsNoticed
<1> DEFINE I == PoolInv /\ OneReconnection /\ MissingIsNoticed
<1>1. Init => I
  <2>1. Init => MissingIsNoticed
    BY DEF Init, MissingIsNoticed
  <2> QED
    BY <2>1, PoolInit, OneInit, SMTT(20)
<1>2. I /\ [Next]_vars => I'
  BY PoolStep, OneStep, MissingStep
<1>3. I => MissingIsNoticed
  OBVIOUS
<1> QED
  BY <1>1, <1>2, <1>3, PTL DEF Spec

-----------------------------------------------------------------------------
(***************************************************************************)
(* connection() gives up only if everything is down.                       *)
(***************************************************************************)

\* Whoever goes through the vector holds the lock, and a task that replaces
\* connections holds it alone.
LockInv ==
    /\ writer # Nobody => readers = {}
    /\ \A t \in Workers : rec[t].pc = "connect" => writer = t
    /\ \A c \in Callers : call[c].pc = "scan" => c \in readers

\* The connections a caller has already looked at, from its first index
\* around to where it is, are broken: nobody replaces them meanwhile.
Scanned(c) ==
    {i \in DOMAIN pool : IF call[c].first <= call[c].slot
                         THEN call[c].first <= i /\ i < call[c].slot
                         ELSE call[c].first <= i \/ i < call[c].slot}
ScanInv ==
    \A c \in Callers : call[c].pc = "scan" => \A i \in Scanned(c) : IsBroken(i)

\* The lock is exclusive.
LEMMA LockStep == PoolInv /\ LockInv /\ [Next]_vars => LockInv'
<1> SUFFICES ASSUME PoolInv, LockInv, [Next]_vars PROVE LockInv'
  OBVIOUS
<1> USE DEF PoolInv
<1>0. \A c \in Callers : c # Monitor /\ c # Heartbeat /\ c # Nobody
  BY PoolAssumption
<1>1. ASSUME /\ UNCHANGED <<writer, rec, call>>
             /\ readers' \in {readers, readers \ {Monitor}, readers \ {Heartbeat}}
      PROVE  LockInv'
  BY <1>0, <1>1 DEF LockInv
<1>2. CASE UNCHANGED vars
  BY <1>1, <1>2 DEF vars, lockVars
<1>3. CASE CreateNext \/ LookNext \/ LinkNext
  BY <1>1, <1>3, CreateFrame, LookFrame, LinkFrame
<1>4. CASE Grant
  <2>1. UNCHANGED <<rec, call>>
    BY <1>4 DEF Grant
  <2>2. writer = Nobody
    BY <1>4 DEF Grant
  <2>3. \/ readers \subseteq readers' /\ writer' = Nobody
        \/ readers = {} /\ readers' = {}
    BY <1>4, <2>2 DEF Grant
  <2> QED
    BY <2>1, <2>2, <2>3, PoolAssumption DEF LockInv
<1>5. CASE HeartbeatTick \/ HeartbeatNext
  <2>1. UNCHANGED <<writer, rec, call>> /\ readers' \in {readers, readers \ {Heartbeat}}
    BY <1>5 DEF HeartbeatTick, HeartbeatNext, HeartbeatSend, HeartbeatAnswered, HeartbeatDone, Enqueue,
                ReleaseRead, lockVars
  <2> QED
    BY <1>1, <2>1
<1>6. ASSUME NEW t \in Workers, WorkerNext(t) PROVE LockInv'
  <2>1. /\ \A u \in Workers : u # t => rec'[u] = rec[u]
        /\ UNCHANGED call
    BY <1>6, WorkerStep, Zenon
  <2>2. t # Nobody
    BY PoolAssumption, SMTT(20)
  <2>3. CASE rec[t].pc = "connect"
    <3>1. writer = t /\ readers = {} /\ \A u \in Workers : rec[u].pc = "connect" => u = t
      BY <2>2, <2>3, SMTT(20) DEF LockInv
    <3>2. /\ UNCHANGED readers
          /\ UNCHANGED writer \/ (writer' = Nobody /\ rec'[t].pc # "connect")
      BY <1>6, <2>3, Ranges DEF WorkerNext, Delay, BeginReconnect, SkipHealthy, Reconnected,
         ReconnectFailed, AllReconnected, StoreState, MarkNode, NeedsConnection, Finish, ReleaseWrite, lockVars, RecRecord
    <3> QED
      BY <2>1, <3>1, <3>2, SMTT(20) DEF LockInv
  <2>4. CASE rec[t].pc # "connect"
    <3> DEFINE Goal == UNCHANGED <<readers, writer>> /\ (rec'[t].pc = "connect" => writer = t)
    <3>0. rec \in [Workers -> RecRecord]
      BY Ranges
    <3>a. ASSUME Delay(t) PROVE Goal
      BY <2>4, <3>0, <3>a DEF Delay, Finish, Enqueue, lockVars, RecRecord
    <3>b. ASSUME BeginReconnect(t) PROVE Goal
      BY <2>4, <3>0, <3>b DEF BeginReconnect, lockVars, RecRecord
    <3>c. ASSUME SkipHealthy(t) \/ Reconnected(t) \/ ReconnectFailed(t) \/ AllReconnected(t) PROVE Goal
      BY <2>4, <3>c DEF SkipHealthy, Reconnected, ReconnectFailed, AllReconnected, NeedsConnection
    <3>d. ASSUME StoreState(t) \/ MarkNode(t) PROVE Goal
      BY <2>4, <3>0, <3>d DEF StoreState, MarkNode, Idle, lockVars, RecRecord
    <3>1. Goal
      BY <1>6, <3>a, <3>b, <3>c, <3>d, Zenon DEF WorkerNext
    <3> QED
      BY <2>1, <3>1 DEF LockInv
  <2> QED
    BY <2>3, <2>4
<1>7. ASSUME NEW t \in Workers, StartReconnection(t) PROVE LockInv'
  BY <1>7, StartStep, Zenon DEF LockInv
<1>8. ASSUME NEW c \in Callers, CallConnection(c) \/ CallNext(c) PROVE LockInv'
  <2>0. call \in [Callers -> CallRecord]
    BY Ranges
  <2>1. UNCHANGED <<writer, rec>> /\ \A b \in Callers : b # c => call'[b] = call[b]
    BY <1>8, <2>0, SMTT(20) DEF CallConnection, CallNext, BeginScan, ScanNext, ReturnConnection, NoConnections, Return,
                      Enqueue, ReleaseRead, lockVars
  <2>2. \/ readers' = readers /\ (call'[c].pc = "scan" => c \in readers)
        \/ readers' = readers \ {c} /\ call'[c].pc = "idle"
    <3>1. CASE CallConnection(c)
      BY <2>0, <3>1 DEF CallConnection, Enqueue, CallRecord
    <3>2. CASE BeginScan(c)
      BY <2>0, <3>2 DEF BeginScan, lockVars
    <3>3. CASE ScanNext(c)
      BY <2>0, <3>3, SMTT(20) DEF ScanNext, lockVars, LockInv
    <3>4. CASE ReturnConnection(c) \/ NoConnections(c)
      BY <2>0, <3>4 DEF ReturnConnection, NoConnections, Return, ReleaseRead
    <3> QED
      BY <1>8, <3>1, <3>2, <3>3, <3>4 DEF CallNext
  <2> QED
    BY <2>1, <2>2 DEF LockInv
<1> QED
  BY <1>2, <1>3, <1>4, <1>5, <1>6, <1>7, <1>8, Kinds DEF UserNext

\* What a caller has found broken stays broken while it looks further.
LEMMA ScanStep == PoolInv /\ LockInv /\ ScanInv /\ [Next]_vars => ScanInv'
<1> SUFFICES ASSUME PoolInv, LockInv, ScanInv, [Next]_vars PROVE ScanInv'
  OBVIOUS
<1> USE DEF PoolInv
<1>0. ASSUME /\ UNCHANGED call /\ DOMAIN pool' = DOMAIN pool
             /\ \A j \in DOMAIN pool : pool[j] # "up" => pool'[j] # "up"
      PROVE  ScanInv'
  <2>1. ASSUME NEW c \in Callers PROVE Scanned(c)' = Scanned(c)
    BY <1>0 DEF Scanned
  <2>2. ASSUME NEW c \in Callers PROVE Scanned(c) \subseteq DOMAIN pool
    BY DEF Scanned
  <2> QED
    BY <1>0, <2>1, <2>2 DEF ScanInv, IsBroken
<1>1. ASSUME UNCHANGED <<pool, call>> PROVE ScanInv'
  BY <1>0, <1>1
<1>2. CASE UNCHANGED vars
  BY <1>1, <1>2, SMTT(20) DEF vars
<1>3. CASE CreateNext
  <2>1. \A c \in Callers : call'[c].pc = "idle"
    BY <1>3, CreateFrame DEF PhaseInv
  <2> QED
    BY <2>1, ZenonT(20), SMTT(20) DEF ScanInv
<1>4. CASE Grant \/ LookNext
  BY <1>1, <1>4, LookFrame DEF Grant
<1>5. CASE HeartbeatTick \/ HeartbeatNext
  <2>1. UNCHANGED <<pool, call>>
    BY <1>5 DEF HeartbeatTick, HeartbeatNext, HeartbeatSend, HeartbeatAnswered, HeartbeatDone
  <2> QED
    BY <1>1, <2>1
<1>6. CASE LinkNext
  <2>1. UNCHANGED call
    BY <1>6, LinkFrame
  <2>2. CASE StrayReport \/ Discard
    BY <1>1, <2>1, <2>2, Zenon DEF StrayReport, Discard
  <2>3. ASSUME NEW i \in 1 .. Size, Report(i) \/ Break(i) PROVE ScanInv'
    <3>1. DOMAIN pool' = DOMAIN pool /\ \A j \in DOMAIN pool : pool[j] # "up" => pool'[j] # "up"
      BY <2>3, Ranges, SMTT(20) DEF Report, Break
    <3> QED
      BY <1>0, <2>1, <3>1
  <2> QED
    BY <1>6, <2>2, <2>3 DEF LinkNext, Reporting
<1>7. ASSUME NEW t \in Workers, StartReconnection(t) PROVE ScanInv'
  BY <1>1, <1>7, StartStep, ZenonT(30)
<1>8. ASSUME NEW c \in Callers, UNCHANGED pool, call'[c].pc # "scan",
             \A b \in Callers : b # c => call'[b] = call[b]
      PROVE  ScanInv'
  <2>1. ASSUME NEW b \in Callers, b # c PROVE Scanned(b)' = Scanned(b)
    BY <1>8, <2>1 DEF Scanned
  <2> QED
    BY <1>8, <2>1, SMTT(20) DEF ScanInv, IsBroken
<1>9. ASSUME NEW c \in Callers, CallConnection(c) \/ ReturnConnection(c) \/ NoConnections(c) PROVE ScanInv'
  <2>1. UNCHANGED pool /\ call'[c].pc # "scan" /\ \A b \in Callers : b # c => call'[b] = call[b]
    BY <1>9, Ranges, SMTT(20) DEF CallConnection, ReturnConnection, NoConnections, Return, CallRecord
  <2> QED
    BY <1>8, <2>1
<1>10. ASSUME NEW c \in Callers, BeginScan(c) PROVE ScanInv'
  <2>1. PICK i \in DOMAIN pool : call' = [call EXCEPT ![c] = [pc |-> "scan", first |-> i, slot |-> i]]
    BY <1>10, Zenon DEF BeginScan
  <2>2. UNCHANGED pool /\ DOMAIN pool = 1 .. Len(pool) /\ Len(pool) \in 0 .. Size
    BY <1>10, Ranges DEF BeginScan
  <2>3. /\ call'[c].first = i /\ call'[c].slot = i
        /\ \A b \in Callers : b # c => call'[b] = call[b]
    BY <2>1, Ranges
  <2>4. \A j \in Scanned(c)' : FALSE
    <3>1. i \in 1 .. Len(pool)
      BY <2>2, SMTT(20)
    <3>2. Scanned(c)' = {j \in 1 .. Len(pool) : i <= j /\ j < i}
      BY <2>2, <2>3, <3>1, ZenonT(20), SMTT(20) DEF Scanned
    <3> QED
      BY <2>2, <3>1, <3>2
  <2>5. ASSUME NEW b \in Callers, b # c PROVE Scanned(b)' = Scanned(b)
    BY <2>2, <2>3, <2>5 DEF Scanned
  <2> QED
    BY <2>2, <2>3, <2>4, <2>5 DEF ScanInv, IsBroken
<1>11. ASSUME NEW c \in Callers, ScanNext(c) PROVE ScanInv'
  <2>1. /\ call[c].pc = "scan" /\ pool[call[c].slot] # "up"
        /\ NextSlot(call[c].slot) # call[c].first /\ UNCHANGED pool
        /\ call' = [call EXCEPT ![c].slot = NextSlot(call[c].slot)]
    BY <1>11 DEF ScanNext, IsBroken
  <2>2. DOMAIN pool = 1 .. Len(pool) /\ Len(pool) \in 0 .. Size
    BY Ranges
  <2>3. call[c].slot \in 1 .. Len(pool) /\ call[c].first \in 1 .. Len(pool)
    BY <2>1 DEF SlotInv, ScanSlots
  <2>4. /\ call'[c].first = call[c].first /\ call'[c].pc = call[c].pc
        /\ call'[c].slot = NextSlot(call[c].slot)
        /\ \A b \in Callers : b # c => call'[b] = call[b]
    BY <2>1, Ranges DEF CallRecord
  <2>5. \A j \in Scanned(c)' : j \in Scanned(c) \/ j = call[c].slot
    <3> DEFINE f == call[c].first
               s == call[c].slot
               n == Len(pool)
    <3>0. Len(pool) \in Nat
      BY <2>2, Bounds
    <3>1. NextSlot(s) = IF s = n THEN 1 ELSE s + 1
      BY <2>3, <3>0, NextSlotIs, Zenon
    <3>2. Scanned(c) = {j \in 1 .. n : IF f <= s THEN f <= j /\ j < s ELSE f <= j \/ j < s}
      BY <2>2 DEF Scanned
    <3>3. Scanned(c)' = {j \in 1 .. n : IF f <= NextSlot(s) THEN f <= j /\ j < NextSlot(s)
                                                       ELSE f <= j \/ j < NextSlot(s)}
      BY <2>1, <2>2, <2>4 DEF Scanned
    <3>4. f \in 1 .. n /\ s \in 1 .. n /\ n \in Nat /\ NextSlot(s) # f
      BY <2>1, <2>2, <2>3, Bounds
    <3> HIDE DEF f, s, n
    <3>5. ASSUME s = n PROVE \A j \in Scanned(c)' : j \in Scanned(c) \/ j = s
      BY <3>1, <3>2, <3>3, <3>4, <3>5
    <3>6. ASSUME s # n PROVE \A j \in Scanned(c)' : j \in Scanned(c) \/ j = s
      BY <3>1, <3>2, <3>3, <3>4, <3>6
    <3>7. \A j \in Scanned(c)' : j \in Scanned(c) \/ j = s
      BY <3>5, <3>6
    <3> QED
      BY <3>7 DEF s
  <2>6. ASSUME NEW b \in Callers, b # c PROVE Scanned(b)' = Scanned(b)
    BY <2>1, <2>4, <2>6 DEF Scanned
  <2>7. \A j \in Scanned(c)' : pool'[j] # "up"
    BY <2>1, <2>5 DEF ScanInv, IsBroken
  <2> QED
    BY <2>1, <2>4, <2>6, <2>7 DEF ScanInv, IsBroken
<1>12. ASSUME NEW t \in Workers, WorkerNext(t) PROVE ScanInv'
  <2>1. UNCHANGED call
    BY <1>12, WorkerStep, SMTT(20)
  <2>2. CASE UNCHANGED pool
    BY <2>1, <2>2 DEF ScanInv, Scanned, IsBroken
  <2>3. CASE Reconnected(t)
    <3>1. writer = t /\ t # Nobody
      BY <2>3, PoolAssumption DEF Reconnected, NeedsConnection, LockInv
    <3>2. \A c \in Callers : call[c].pc # "scan"
      BY <3>1 DEF LockInv
    <3> QED
      BY <2>1, <3>2 DEF ScanInv
  <2> QED
    BY <1>12, <2>2, <2>3 DEF WorkerNext, Delay, BeginReconnect, SkipHealthy, ReconnectFailed,
       AllReconnected, StoreState, MarkNode
<1> QED
  BY <1>2, <1>3, <1>4, <1>5, <1>6, <1>7, <1>9, <1>10, <1>11, <1>12, Kinds DEF UserNext, CallNext

\* A caller that is back at its first index has looked at every connection.
LEMMA ScannedAll ==
    ASSUME PoolInv, ScanInv, NEW c \in Callers, NoConnections(c)
    PROVE  AllDown
<1>1. CASE pool = <<>>
  BY <1>1, SMTT(20) DEF AllDown
<1>2. CASE /\ call[c].pc = "scan" /\ IsBroken(call[c].slot)
           /\ NextSlot(call[c].slot) = call[c].first
  <2>1. DOMAIN pool = 1 .. Len(pool) /\ Len(pool) \in 0 .. Size
    BY Ranges DEF PoolInv
  <2>2. call[c].slot \in 1 .. Len(pool) /\ call[c].first \in 1 .. Len(pool)
    BY <1>2, Zenon DEF PoolInv, SlotInv, ScanSlots
  <2>3. call[c].first = IF call[c].slot = Len(pool) THEN 1 ELSE call[c].slot + 1
    <3>1. Len(pool) \in Nat
      BY <2>1, Bounds
    <3> QED
      BY <1>2, <2>2, <3>1, NextSlotIs, Zenon
  <2>4. \A j \in DOMAIN pool : j \in Scanned(c) \/ j = call[c].slot
    <3> DEFINE f == call[c].first
               s == call[c].slot
               n == Len(pool)
    <3>1. Scanned(c) = {j \in 1 .. n : IF f <= s THEN f <= j /\ j < s ELSE f <= j \/ j < s}
      BY <2>1 DEF Scanned
    <3>2. f \in 1 .. n /\ s \in 1 .. n /\ n \in Nat /\ f = IF s = n THEN 1 ELSE s + 1
      BY <2>1, <2>2, <2>3, Bounds
    <3> HIDE DEF f, s, n
    <3>3. \A j \in 1 .. n : j \in Scanned(c) \/ j = s
      BY <3>1, <3>2
    <3> QED
      BY <2>1, <3>3, Zenon DEF s, n
  <2> QED
    BY <1>2, <2>4 DEF ScanInv, AllDown
<1> QED
  BY <1>1, <1>2 DEF NoConnections

\* When connection() answers that there are no active connections, every
\* connection of the pool is broken at that moment.
THEOREM NoFalseAlarm == Spec => GiveUpMeansAllDown
<1> DEFINE I == PoolInv /\ LockInv /\ ScanInv
<1>1. Init => I
  <2> SUFFICES ASSUME Init PROVE LockInv /\ ScanInv
    BY PoolInit
  <2>1. /\ readers = {} /\ writer = Nobody /\ rec = [t \in Workers |-> Idle]
        /\ call = [c \in Callers |-> [pc |-> "idle", first |-> 0, slot |-> 0]]
    BY DEF Init
  <2> QED
    BY <2>1 DEF Idle, LockInv, ScanInv
<1>2. I /\ [Next]_vars => I'
  BY PoolStep, LockStep, ScanStep
<1>3. I => \A c \in Callers : NoConnections(c) => AllDown
  BY ScannedAll
<1>4. I /\ [Next]_vars => [\A c \in Callers : NoConnections(c) => AllDown]_vars
  BY <1>3
<1> QED
  BY <1>1, <1>2, <1>4, PTL DEF Spec, GiveUpMeansAllDown

=============================================================================
