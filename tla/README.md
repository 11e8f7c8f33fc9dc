# Verification of cdrs-tokio

TLA+ models of the CQL driver in `src/cdrs-tokio` and of the parts of
`src/cassandra-protocol` it is built on, checked with TLC on small instances
and, for all but a few of the safety properties, proved with TLAPS for every value of
the constants.

## 1. The system

A `Session` sends statements to a Cassandra cluster.  For each statement the
load balancer makes a query plan (a sequence of nodes), each node hands out a
connection of its pool, and the connection multiplexes many requests over one
TCP or TLS stream.  In the background a control connection follows topology,
status and schema events and keeps the cluster metadata current.

| Part | Modules | What makes it hard |
|---|---|---|
| Connection (`transport.rs`) | `Transport`, `TransportProofs` | writer and reader interleave in one task; callers cancel; a batch fails half way; stream ids wrap |
| Envelopes and frames (`frame.rs`, `frame_encoder.rs`, `frame_decoder.rs`, `envelope_parser.rs`) | `Envelope`, `FrameCodec`, `EnvelopeChannel` | the stream cuts frames anywhere; several envelopes in a frame, several frames for an envelope |
| Pool of a node (`connection_pool.rs`, `node.rs`) | `ConnectionPool`, `ConnectionPoolProofs` | two atomics loaded and stored by three tasks; connecting under a write lock; errors dropped on purpose |
| Keyspace (`keyspace_holder.rs`, watcher in the pool) | `Keyspace`, `SessionProofs` | the answers to a repeated `USE` feed back; storing and announcing are two steps |
| Metadata and control connection (`cluster_metadata_manager.rs`, `control_connection.rs`, `topology/*`, `token_map.rs`) | `Topology`, `ClusterMetadataManager`, `ClusterMetadataManagerProofs` | snapshots taken before a query and stored after it; old errors reaching a new connection |
| Load balancing and routing (`load_balancing/*`, `session.rs`) | `Topology`, `Routing`, `LoadBalancing`, `PlacementProofs`, `LoadBalancingProofs` | replicas over racks and datacenters; what a statement is routed by |
| Sending (`session.rs`, `send_envelope.rs`, `retry_policy.rs`, `speculative_execution.rs`) | `SendEnvelope`, `SendEnvelopeProofs` | concurrent attempts end in any order; the plan runs out; what may be repeated |
| Configuration and start-up (`config_*.rs`, `*_connection_manager.rs`, `connection_manager.rs`, `authenticators.rs`, `reconnection_policy.rs`) | `Startup`, `ReconnectionPolicy`, `StartupProofs` | both ends change format in the middle of the handshake; a dialogue of any length |
| Paging (`pager.rs`, metadata id in `session.rs`) | `Pager`, `SessionProofs` | failed pages, kept states, an id shared by concurrent executions |
| Messages (`frame/message_*.rs`, `types.rs`, `query/*`, `statement_params_builder.rs`) | `Wire`, `Requests`, `Responses`, `Messages` | writing and reading are separate code that depends on version and flags |

How the models fit together.  `ConnectionPool` uses of a connection what
`Transport` establishes: `is_broken` is set before the error is reported, and
there is one report per connection.  `Transport` takes frames as units;
`FrameCodec` shows that they are.  `SendEnvelope` takes plans from a set; its
premise that a plan names a node once is `PlanNamesNodesOnce` of
`LoadBalancing`, which has one exception (section 8).  `LoadBalancing` and `ClusterMetadataManager` share `Topology`,
and the premise of the first, a ring that agrees with the nodes, is
`RingIsNodes` of the second.  `Startup` ends with the `USE` that `Keyspace`
begins a connection with.  `SendEnvelope` assumes that a request ends, which is
`EveryCallReturns` of `Transport`, and that a connection is found or not, which
is `AcquireReturns` of `ConnectionPool`.

## 2. Connection: Transport

Models `AsyncTransport`: many callers, one task.  The writer and the reader are
two futures polled by `try_join!` in the same task, so the reader moves only
while the writer is suspended at an await (`AtAwait`); a writer action is what
happens between two awaits, further cut where callers could interleave.

* `status`, `answer`: where each `write_envelope` is, and whose response it got.
* `queue`, `request`, `wpc`, `frame`, `frameIds`, `chunk`: `start_writing`.  A
  batch begins with `Receive`, goes on while `TryReceive` finds requests, and
  ends with `Flushed`.  `Encode` is the inner loop over the frame encoder.
* `handlers`, `nextStream`: `ResponseHandlerMap`; `AddHandler` wakes the caller
  whose sender the insertion drops.
* `buffered`, `server`, `link`: bytes accepted by the `BufWriter`, requests the
  server has and will answer in any order, the stream itself (external).
* `framed`, `eventBlocked`, `events`, `keyspace`: the reader.
* `task`, `isBroken`: the end of `start_processing`, in its three steps.
* `clash` is a history variable: a stream id was given out while in use.

An envelope is its stream id and the call it belongs to.  `FrameCapacity`
stands for the byte size of a frame and `Large` for envelopes that exceed it.

Run `transport`: the handshake and three statements, two of them `USE` and one of
these in two frames, on a connection with two stream ids (`StreamMax = 1`).
Three statements make a batch and a late answer to a cancelled one; with two ids
the counter wraps, and the third gets the id of the first whether that has been
answered or not.

Fairness: the runtime polls a task that can move; the server answers what
reached it or the stream goes down and the reader notices; the event consumer
drains its channel.  Strong fairness is used where weak fairness would let an
endless stream of events or of other callers starve a step.

`ResponseIsOwn` has a proviso, no clash, that the code does not secure:
`next_stream_id` gives out ids in turn without looking whether one is in use
(`transport.rs:687-700`), so a request left unanswered for 32768 others loses its
id to another caller, who may then get its late response.

**Proved** (`TransportProofs`), from `TransportAssumption` (sizes are positive,
the handshake call exists): types, `WaitingIsHeld`, `NobodyLeftBehind`,
`ResponseIsOwn`, `UseIsInEffect`, `ReportedIsBroken`.

* `WaitingIsHeld` needs that the writer holds a request from `alloc` until it is
  registered (`Working`), and that after the task has failed everybody is in the
  map until `signal_general_error` empties it (`Wound`).
* `ResponseIsOwn` needs the routing invariant `Routed`: without a clash, an
  envelope under way with id `i` belongs to the caller registered at `i`, if
  there is one, and no two envelopes under way carry the same id.
* `UseIsInEffect` follows from routing: the response handed over is the one that
  was just recorded.

## 3. Frames: Envelope, FrameCodec, EnvelopeChannel

`Envelope` holds the functions on bytes: `encode_with` and `from_buffer`,
`check_envelope_size`, `parse_raw_envelope`, flags, opcodes, warnings, tracing
ids and compression of bodies.  `FrameCodec` is one direction of a connection:
the encoder as `start_writing` drives it, the wire, and the decoder with
`frame_buffer`, `payload_buffer` and `expected_payload_len`, for the legacy, the
uncompressed and the LZ4 format.  `Read` takes any number of bytes from
`ReadSizes`, or all; `Damage` changes a byte.  A checksum is the bytes it was
computed from: CRC collisions are not modelled.  Compression is run-length
coding, so that some bodies shrink and others grow.

`EnvelopeChannel` is the abstract specification: envelopes are received whole,
once and in order, until the connection breaks.  `FramingIsAChannel` states that
`FrameCodec` implements it; `NothingIsLost` adds that nothing stays behind.

Run `frames`: `PAYLOAD_SIZE_LIMIT` is 32 instead of 2^17 and tracing ids have two
bytes, so that a body of 40 takes two frames and two of 5 share one; reads of 1,
2 and 11 bytes cut headers, payloads and trailers.  The bodies in parts are
those the decoder handles (`Regular`, in `MCFrameCodec`).

Run `frames_large` (violated): bodies of 40 and 80.  The decoder takes the
length of the first envelope in parts and keeps it for all later ones, so a
longer one is decoded before it is complete and dropped.  `findings` in
`PROJECT.json` quotes the contract.

## 4. Pool: ConnectionPool

`phase` is the creation (concurrent attempts, then the send on the error
channel); `pool` the vector, each connection `up`, broken with its report `due`,
or `sent`; `channel` the bounded error channel; `mon`, `rec`, `hb`, `call` the
program counters of the monitor, the reconnection tasks, the heartbeat and the
callers; `recState` and `nodeState` the two atomics they share.  The `RwLock` is
tokio's: first come, first served.  `world` says what is still alive (node,
session, pool), for the `Weak` references.

`Connected`, `Reconnected` and the failures stand for `new_connection` with its
timeout; a failure in the handshake also leaves a report in the channel, because
the transport reports before it is dropped.  `stray` counts replaced connections
somebody else still holds, whose report may still come.

Run `pool`: two connections are needed for a break behind the index of
`reconnect_broken` and for a scan that wraps; two worker identities for a task
that still has to mark the node while the next one starts.  `Attempts = 1`
exhausts the schedule.  Run `pool_live` has an endless schedule, and one
connection and no stray report to keep the graph small.

Fairness (`pool_live`): tasks are polled, connection attempts end, a heartbeat
is answered or its connection breaks; a slot tried again and again is connected
in the end (otherwise no reconnection need ever end), and the keyspace watcher
lets go of the pool when the session is gone.

**Proved** (`ConnectionPoolProofs`), from `PoolAssumption` (sizes, distinct
identities): types and all four properties of run `pool`.

* Types need where the tasks are in the vector (`SlotInv`): a reconnection task
  at index `i` has a vector of at least `i - 1` connections.
* `OneReconnection` is inductive with the types: only the monitor stores
  `InProgress`, only the active task stores anything else.
* `ForcedDownIsLeftAlone` needs `ForcedInv`: whoever forces the node down has
  stored `Disabled` before.
* `MissingIsNoticed` needs that a reconnection that ends with `NotRunning` has
  seen the whole vector.
* `GiveUpMeansAllDown` needs `LockInv` and `ScanInv`: the connections between
  the first index and the current one, going round, are broken, because nobody
  replaces them while a reader holds the lock.

## 5. Keyspace

`current` is the holder's value and `watch` the channel; each connection has a
keyspace at the server, `USE` statements on their way (`requests`) and answers
(`answers`).  The reader of a connection swaps `current` (`ReadAnswer`), then
announces a change (`SendNotification`) and delivers the answer; other readers
come in between.  The watcher of a pool wakes, borrows the value, takes the read
lock and sends `USE` on all connections; new connections (`SetKeyspace`) begin
with the value current when they ask.  A server may refuse a `USE` (`Refuse`): its
node may not know the keyspace yet.  The error then goes to who sent the
statement (`ReadRefusal`): the application, a new connection, which is given up,
or the watcher, which logs it and leaves the connection in its old keyspace
(`connection_pool.rs:231`).  `logged` is a history variable: the connections left
behind that way.

Run `keyspace`: two pools of one connection, two keyspaces, two `USE`s of the
application, and one refusal or one break (`MaxFaults`), which are enough for
answers that cross, for a change between borrow and lock, for a connection made
with an older keyspace, and for one of two pools left behind.  Refusals and breaks
in one history are left to the proof.  The keyspaces are
interchangeable, so a session built with `k1` stands for one built with `k2`
(`MCInit`).  `QuietMeansAgreed` is about every order; `SettlesOnOne` about an
application that asks for one keyspace (with two in turn the connections may
never settle, which the documentation of the session builder warns of).  Both
except the connections in `logged`, and only those.

Fairness: the server answers, the driver's tasks run, a reconnection ends; the
lock is handed out in order, hence strong fairness for `UseOnAll`.

**Proved** (`SessionProofs`), from `KeyspaceAssumption`: types and
`QuietMeansAgreed`.  The invariant adds that nothing is under way on a
connection that is down, that the server uses the keyspace of its last answer
that was no error, and `Settled`: an idle connection uses the current keyspace, or
has refused the last `USE` repeated on it, or an announcement is due, or the
watcher of its pool still has something to repeat.

## 6. Metadata and control connection: Topology, ClusterMetadataManager

`Topology` has the functions: rows of the system tables to node infos, nodes,
ring, initial metadata and its refresh, the copies with and without a node or a
keyspace.  `ClusterMetadataManager` has the servers (hosts join, leave, go down,
come up at another address; keyspaces are created and dropped), the task of
`ControlConnection::run` (`control.pc`: check, register, listen, drop, plan,
connect, fetch, store), and the task that applies events, which loads metadata,
may query, and stores (`task.pc`: idle, find, query, load, store).  `errors` is
the error channel of capacity 1, `events` the bounded broadcast channel that
drops the oldest.  `missed` and `moved` are history: a change of which nobody
told the driver, and a host at another address.

Run `metadata`: three hosts of which one joins, three addresses, one keyspace,
three changes, one failure of the connection; rows of the joining host may lack
a column, and `system.peers_v2` may be missing.

`MetadataFollows` names what the code does not cover: a change while no
connection is registered (between the refresh and REGISTER), an event dropped by
a full channel, a host that moved, and metadata after a refresh that is not a
full one, which loses the keyspaces.

Fairness: both tasks run and a broken connection reports.  `ControlConnectionReturns`
holds unless the nodes planned are unreachable again and again.

**Proved** (`ClusterMetadataManagerProofs`), from `TopologyAssumption` (hosts
have distinct home addresses and disjoint tokens, `None` is none of them) and
`CapacityAssumption` (the event channel holds at least one event):
`RingIsNodes`, `OneNodePerAddress`, `MetadataFollows`,
`SessionStartsWithMetadata`.

* The first two need `MetadataOK`, of the metadata and of whatever a task is
  about to store, with what it rests on: servers are at different addresses, the
  infos of a refresh name hosts and addresses once, and where a host is looked
  for the snapshot has no node.
* `MetadataFollows` needs `FollowInv`: for every host and keyspace, if no event
  about it is under way the metadata (or what the event task is about to make
  of it, `AppliedHosts`, `AppliedKeyspaces`) has it exactly if the cluster has,
  and otherwise the last such event in the channel says what the cluster has
  (`Told`).  It holds from the first stored refresh on; until then `RowsFollow`
  keeps that the rows read are current unless a change was missed.
* `SessionStartsWithMetadata` needs `StartInv`: the ways to `register` lead
  through a stored refresh.

## 7. Plans: LoadBalancing, Routing

`Routing` has the routing keys: `serialize_routing_value`,
`serialize_routing_key`, `serialize_routing_key_with_indexes`, and what
`exec_with_params`, `query_with_params`, batches and preparations put into a
`Request`.  `LoadBalancing` has the replication settings of keyspaces
(`build_replication_strategy`), the wrapper that plans contact points before
there is metadata, and the three strategies.  A shuffle is a choice of any
order; Murmur3 is a parameter (`Generate`).

Run `plans`: three nodes in the local datacenter and one in another, on one, two
or three racks, nine rings (with one node owning two tokens in four of them and
one owning none in another), unused nodes, five keyspaces and every kind of statement; `prev_idx` wraps at 3.
`ReplicasComeFirst` compares the walk over the ring with `Placement`, a
reference definition of NetworkTopologyStrategy; `RoutedByPartition` compares
with `PartitionKey`, the composite key of the server.

**Proved** (`PlacementProofs`, the walk over the ring, and `LoadBalancingProofs`,
which builds on it): `PlanNamesNodesOnce`, `PlanCoversLocalNodes`,
`ReplicasComeFirst` and `RoutedByPartition`, for every cluster, order of the node
map, strategy, content of `system_schema.keyspaces`, index and statement.  The
assumptions are named in `LoadBalancing`: nodes are under their own host ids, at
different addresses and with finite, disjoint sets of tokens
(`ClustersAssumption`, which `OneNodePerAddress` and `RingIsNodes` of section 6
justify), the node map yields every host once (`OrderAssumption`), factors that
are numbers are not negative (`TablesAssumption`), bound values are bytes
(`StatementsAssumption`), and a token is a number (`TokenAssumption`).

* A plan is made of parts.  Each filter, rotation, shuffle, cap and
  deduplication is described by a lemma on what it keeps: only entries of its
  argument (`Names`), in some order and none of them twice unless there before
  (`Rearranges`), or every one of them but for repetitions (`Deduplicated`).
  They rest on `AscendingSorts`, on the order in which `Ascending` lists a
  finite set of numbers.
* `Walked` shows that the recursive function of the walk exists and that each
  value is a `Visit` of the one before (`VisitIs`, its four cases), so that
  replicas are nodes of the metadata and the counters stay in their types.
* `PlansOK` puts the parts together for each strategy.  The inductive invariant
  `PlanInv` carries it from the moment the plan is made, with the types it needs:
  what `RefreshKeyspaces` accepted has factors that are numbers (`ReadKeyspaces`).
* `ReplicasComeFirst` compares two computations.  The walk counts down a factor
  for each datacenter and a surplus for its racks; `Placement` takes the nearest
  nodes among the first of each rack, then the nearest of the others.
  `ReplicasArePlaced` relates them by an induction over the walk.  `WalkInv` says
  that after `i` nodes what was taken is placed, because the factor used up is
  at least the number of racks seen and the surplus used up at least the number
  of further nodes passed, unless it is exhausted (`Counts`).  `FindInv` says the
  converse for nodes with one token each: what is placed and was passed has been
  taken.  With more tokens it fails, since the walk may take a node again.
* `PlansLead` takes this to plans: sorting and shuffling adds and loses none of
  the replicas (`SortedAreFound`), and deduplication leaves them in front
  (`StaysInFront`).
* `RoutedByPartition` needs `KeyIs`: two bytes hold the size of every value
  Cassandra accepts in a key, so the key built is the partition's byte for byte.

## 8. Sending: SendEnvelope

Models one statement of a session, from the call to its result.  `stmt` holds
the parameters that matter: idempotent or not, the retry policy, whether it is
a prepared statement (`exec_with_params`) and the speculative policy.  `phase`
is the round: the statement, the re-preparation at the node that answered
Unprepared, the statement again.  Each round is a `send_envelope` with a plan of
its own; `plan` is what is left of it, shared by the executions in `exec`.

* `NextNode`, `Connected`, `ConnectFails`, `Responds`, `WriteFails`: the loop of
  `send_envelope.rs`.  All executions are polled by the caller's task, so what
  one does between two awaits is one action, and the end of an execution
  includes the session's reaction (`Finish`).
* `DefaultDecide`, `SessionAfter`, `Decide`: the retry policies.  Errors are
  named after what the policies distinguish.
* `Tick`: the timer of the speculative loop with
  `ConstantSpeculativeExecutionPolicy`.
* `Panic`: the loop goes on after an Io or Timeout error even if no execution is
  left.  `select_next_some` finds the set empty and terminated and wakes the
  task; polled again it panics, since tokio's `select!` does not look at
  `is_terminated`.  A timer due at one of these polls comes before it, and if the
  policy allows another execution the loop has something to wait for again.
* `AfterStatement`, `AfterPrepare`, `Begin`, `Return`: `exec_with_params`.
* `sends` and `doubt` are history variables: requests written in this round, and
  whether a write of the statement ended without telling if it was applied.

Run `send`: with two nodes and two executions one goes on to the second node, or
finds the plan used up, while the other waits; `max_executions` ranges from 0,
where the first execution is started all the same.  `Repeats` is `FALSE`: with
plans that name a node twice, as the topology-aware strategy makes them for a
dc-local consistency (`topology_aware.rs:229`), two executions can meet at one
node.  Retries need no bound: flags and the plan limit them.

Fairness: connection attempts end, and so do requests, a sleep ends, and a task
that woke itself is polled.  `EveryCallEnds` says that every call then returns or
panics, and `PanicsOnlyAfterIoError` which may panic; together, all others
return.

**Proved** (`SendEnvelopeProofs`), from `SendAssumption`: types,
`ExecutionsBounded`, `UnpreparedOnlyAfterTrying`, and every safety property of
the run; `DistinctNodes` and `ResendsBounded` if plans name a node once.

* `StepCases` reduces every action of an execution to going to a node, retrying
  there, writing, or ending; `FinishEnds` lists how an end can go on.
* `NoBlindResend` needs `ResendInv`: without speculation only the first
  execution exists, a call that returned has none, and a doubt about a statement
  not marked idempotent means that the call has returned.
* `DistinctNodes` needs `PlanInv`: what is left of the plan has no node twice and
  none an execution is at.
* `ResendsBounded` needs `SendsInv`: a node still in the plan has got nothing,
  and one an execution is at no more than the flags it has used up.
* `ExecutionsBounded` and `PanicsOnlyAfterIoError` need `LoopInv`: the executions
  started are those the policy was asked for, and a speculative loop with none in
  flight has kept an error.
* `NoNodesIsLast`, an action property, needs `AloneInv`: without speculation
  there is no execution but the first.  With it, the errors that executions keep
  are Io and Timeout, so only one that finds the plan empty ends with "no nodes",
  and the session returns that only when no other is in flight.
* `UnpreparedOnlyAfterTrying` needs `PreparedInv`: after the first round the
  error that led to preparing again is kept.

## 9. Start-up: Startup, ReconnectionPolicy

`Startup` begins with the builder of the node configuration (`WithNodeTcp` or
`WithNodeRustls`, contact points and their resolution), goes on with that of the
session (`WithSessionTcp`, `WithSessionRustls`, `BuildSession`), and establishes
one connection: socket, proxy, TLS, STARTUP, authentication, `USE`.  One message is under way at a time;
it has the format it was written in, and the reader has a format of its own that
it changes with the answer to STARTUP.  The server is external: versions and
compressions it accepts, the authenticator it asks for, whether it challenges,
and whether it may answer something unexpected.  `set_keyspace` takes every
answer but an error for success, so `UsableMeansAccepted` rests on a server that
answers `USE` with SET_KEYSPACE or an error.  `ReconnectionPolicy` has the three
schedules; the number of the attempt is cast to `u32` (`AsU32`) and then shifts
a `u32`, so it comes back to small delays when it outgrows the cast.

Run `startup`: seven settings (four of the node, three of the session) in any
combination, one contact point that may be a name with two addresses, four kinds
of servers, one failing link, one `USE` elsewhere, two challenges.  The width of
the integers is 2 bits instead of 32 and `max_attempts` is 6, so that the shift
leaves its width and the number of the attempt that of the cast.

Fairness: the driver takes the next step and the server answers.  Without
`connect_timeout` the code has no timeout around the handshake, so nothing
follows for a server that stays silent.

**Proved** (`StartupProofs`), for every configuration and server: `FormatsAgree`,
`CredentialsOnlyWhenAsked`, `UsableMeansAccepted` and `RetriesArePaced`.

* The invariant `IInv` follows the stage of establishing: during STARTUP bare
  envelopes on both sides, later frames in the format both have agreed to, and
  in `auth` a server that asked for the scheme of the credentials.
* `UsableMeansAccepted` needs `AcceptInv`: what the server has accepted at each
  stage, and with which response.  `CredentialsAreRead` shows that a server finds
  the name and the password in the initial response, at its zero bytes, if
  neither holds one itself.
* `RetriesArePaced` is proved from `PolicyAssumption` (schedules are made by the
  constructors, with base <= max), `JitterAssumption` (85 to 115 per cent) and
  `ShiftAssumption`, for every width: the limits for any number of attempts, the
  doubling while the number fits the cast.  `PowersGrow`, that powers of two
  grow, is an induction.

## 10. Paging: Pager

Each user has a pager (query or exec) with its state, a copy they may have kept,
and the rows they were given.  Calls fail before or after the server answered;
the schema changes and the metadata id with it; the server forgets the statement
and it is prepared again.  The application calls `next` as long as `has_more`.

Run `pager`: three rows in pages of two (a full page and a last one), two users
on one prepared statement, two schema changes, two failures, one eviction.
Fairness: calls end, and users go on paging; without further executions nothing
would bring the id up to date.

**Proved** (`SessionProofs`, with `Keyspace`: the two share no state), from `PagingAssumption`, for any number of rows and
any page size: `PagesInOrder`, `EndMeansAll`.  The invariant `Consistent` says
that a state, current or kept, has the number of its rows as cursor, or none at
the beginning and the end.

## 11. Messages: Wire, Requests, Responses, Messages

`Wire` has the notations of the protocol as cells (a number, string or byte
array with its width), `Requests` and `Responses` the writing and reading of
every message, `Messages` a client that builds statements and batches with the
builders, prepares and executes, and a server that answers.  Both ends are this
crate.  The two properties say exactly which messages are read as they were
meant: all but a list of incoherent ones, which are named with their lines at
the property and which are each read as something else or refused.

Run `messages`: versions 3 to 5, up to three calls of a builder, all errors,
events and column types, and metadata with every combination of flags and parts.

## 12. Results

| Run | Properties | Result |
|---|---|---|
| `transport` | `WaitingIsHeld`, `NobodyLeftBehind`, `ResponseIsOwn`, `EveryCallReturns` | hold |
| `frames` | `PayloadFits`, `NothingIsLost`, `ReadersAgree`, `FramingIsAChannel` | hold |
| `frames_large` | `NothingIsLost` | violated |
| `pool` | `OneReconnection`, `MissingIsNoticed`, `ForcedDownIsLeftAlone`, `GiveUpMeansAllDown` | hold |
| `pool_live` | `AcquireReturns`, `ReconnectionEnds` | hold |
| `keyspace` | `QuietMeansAgreed`, `SettlesOnOne` | hold |
| `metadata` | `RingIsNodes`, `OneNodePerAddress`, `MetadataFollows`, `ControlConnectionReturns` | hold |
| `plans` | `PlanNamesNodesOnce`, `PlanCoversLocalNodes`, `ReplicasComeFirst`, `RoutedByPartition` | hold |
| `send` | `NoBlindResend`, `DistinctNodes`, `ResendsBounded`, `PanicsOnlyAfterIoError`, `NoNodesIsLast`, `EveryCallEnds` | hold |
| `startup` | `FormatsAgree`, `UsableMeansAccepted`, `CredentialsOnlyWhenAsked`, `RetriesArePaced`, `StartupEnds` | hold |
| `pager` | `PagesInOrder`, `EndMeansAll`, `MetadataIdCatchesUp` | hold |
| `messages` | `RequestsAreUnderstood`, `ResponsesAreUnderstood` | hold |

Deadlock is checked in `pager` and `messages`; elsewhere the system may stop (a
connection that has ended, an application that asks for nothing more).

**Only proved.**  The type invariants of `Transport`, `ConnectionPool`, `Keyspace`
and `SendEnvelope`, and `ReportedIsBroken`, `UseIsInEffect`,
`SessionStartsWithMetadata`, `ExecutionsBounded` and `UnpreparedOnlyAfterTrying`:
their theorems hold for every value of the constants, so no run repeats them.

**Proved and model-checked.**  Every other safety property of the runs
`transport`, `pool`, `keyspace`, `metadata`, `plans`, `send`, `startup` and
`pager`.

**Only model-checked.**

* The liveness properties (`EveryCallReturns`, `AcquireReturns`,
  `ReconnectionEnds`, `SettlesOnOne`, `ControlConnectionReturns`,
  `EveryCallEnds`, `StartupEnds`, `MetadataIdCatchesUp`): the prover does not
  handle fairness.
* `FrameCodec`: `NothingIsLost` and `FramingIsAChannel` do not hold for all
  bodies (run `frames_large`), and with the bodies restricted they, `PayloadFits`
  and `ReadersAgree` are about what nested loops over bytes compute.
* `Messages`: the modules use recursive operators, for which the prover has no
  arithmetic.

Theorems of the library that take an operator as a parameter cannot be used with
the installed provers.  Induction over the naturals is taken from the
well-foundedness of `<` instead (`Induction`, `Recursion` and `Iteration` in the
proof modules), which is enough for recursive functions with numeric arguments.

## 13. What the code does that a reader may not expect

These came up while modelling.  They are part of the models (the properties are
stated so that they hold with them) unless noted.

* `transport.rs:627`: when a frame of a batch cannot be written, every caller of
  the batch gets the error, and the writer goes on; a response to a frame already
  written is then unmatched and ends the connection.
* `cluster_metadata_manager.rs:532`: a new node is stored in a copy of metadata
  loaded before the query about it; a refresh stored meanwhile, after the control
  connection moved, is undone until the next refresh.
* `connection_pool.rs:338`: an error that arrives during a reconnection is
  dropped.  A connection the reconnection has already passed then stays broken
  until the next error (the heartbeat only logs what its request ended with), although `reconnect_broken` (line 582) counts on a new
  reconnection.
* `connection_pool.rs:322`: the monitor can mark a node `Down` just after it was
  forced down; no reconnection runs, although `node_state.rs:22` says so of
  `Down`.
* `connection_pool.rs:488`: with every handshake of a new pool failed, the error
  channel is full and the creation waits for its own receiver.
* `connection_pool.rs:378-394` is reached by no result of the reconnection loop
  and has no action; a node with some connections back stays `Down` until all are.
* `connection_pool.rs:231`: a `USE` repeated on the connections of a pool that a
  node refuses is only logged; that connection stays in its old keyspace and
  goes on being handed out.
* `session.rs:713`: after an Io or Timeout error of the last execution the
  speculative loop polls an empty set of executions, and unless the timer is due
  at that moment `select_next_some` (line 709) panics; the error is not returned.
* `send_envelope.rs:35`: errors that lead to the next node are dropped, so a plan
  whose nodes all answered can end in "no nodes available".
* `topology_aware.rs:229`: a plan for a dc-local consistency names local replicas
  twice.  With several tokens for a node the walk can choose it twice and so
  find fewer replicas.  `max_nodes_per_remote_dc` caps the remote nodes of all
  datacenters together.
* `session.rs:265-280`: an explicit routing key is used for an execution only if
  values are bound by position and do not give one; unset values are left out of
  a composite key.
* `pager.rs:139`: `next` after the last page begins again from the first.
* Preparing again does not store the new metadata id.
* A connection established with an older keyspace sets the session's back to it.
* `reconnection_policy.rs:120`: after 2^32 attempts, if so many are allowed, the exponential delay starts
  again from the base.
* `reconnection_policy.rs:128`: `clamp` panics if the base delay exceeds the
  maximum (not modelled: policies have base <= max).
* A refresh that is not full discards the keyspaces, and nodes in use whose
  address changed begin with an unknown state.

## 14. Not modelled

* CQL value types, their conversions and the derive macros: functions of one
  value, without state.
* `QueryParamsBuilder`, and the setters of `StatementParamsBuilder` and of the
  configuration that only pass a policy or a flag on.
* Murmur3 and the CRC and compression algorithms: parameters or abstract
  functions of the models.
* Bytes of the TLS and proxy dialogues, socket options, logging.

## 15. Running

    tlc -config MCTransport.cfg MCTransport
    tlapm TransportProofs.tla

`PROJECT.json` lists the runs, the theorems, the map from definitions to source
lines, the hazards with the properties that cover them, and for each property of a
run a faulty variant of a definition that violates it.  The longest run takes
three minutes, the longest proof about fifteen.
