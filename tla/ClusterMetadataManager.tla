------------------------ MODULE ClusterMetadataManager ------------------------
(***************************************************************************)
(* How a session follows the cluster: the task of the control connection   *)
(* (ControlConnection::run, control_connection.rs), the task that applies  *)
(* server events (ClusterMetadataManager::listen_to_events,                *)
(* cluster_metadata_manager.rs), and the metadata they share.  Every await *)
(* and every load followed by a store is a point where the other task, the *)
(* cluster or the connection can come in between.                          *)
(***************************************************************************)
EXTENDS Topology, Sequences

CONSTANTS
    Hosts, Addresses, Names,        \* Names: keyspaces
    Dc, Rack, Tokens,               \* of the hosts
    Members,                        \* hosts in the cluster at first
    HomeAddress,                    \* and where they are
    IncompleteRows,                 \* hosts whose rows may lack a column
    ContactPoints,                  \* addresses
    EventCapacity,                  \* of the broadcast channel
    MaxChanges, MaxFailures         \* bounds: of the cluster, of the connection

\* Connections the control connection can have.
Transports == [address : Addresses, host : Hosts, alive : BOOLEAN, registered : BOOLEAN, unsent : BOOLEAN]

ASSUME TopologyAssumption ==
    /\ None \notin Hosts \cup Addresses \cup Transports
    /\ HomeAddress \in [Hosts -> Addresses]
    /\ \A g, h \in Hosts : g # h => Tokens[g] \cap Tokens[h] = {} /\ HomeAddress[g] # HomeAddress[h]
    /\ Members \subseteq Hosts
ASSUME CapacityAssumption == EventCapacity \in Nat \ {0}

VARIABLES
    cluster,        \* the servers: members with their addresses, live ones, keyspaces
    peers_v2,       \* whether the servers have system.peers_v2
    incomplete,     \* hosts whose rows lack a column
    metadata, did_initial_refresh, is_schema_v2,
    control,        \* task of the control connection: [pc, nodes, full, fetched]
    transport,      \* control_connection_transport
    errors,         \* error channel, capacity 1
    events,         \* event channel
    task,           \* task that applies events: [pc, ...]
    init_complete,  \* the session was handed to the application
    changes, failures,
    missed,         \* history: a change nobody told the driver about
    moved           \* history: a host changed its address

serverVars == <<cluster, peers_v2, incomplete, changes, moved>>
controlVars == <<control, did_initial_refresh, is_schema_v2, init_complete>>
vars == <<serverVars, metadata, controlVars, transport, errors, events, task, failures, missed>>

-----------------------------------------------------------------------------
(***************************************************************************)
(* The servers and their tables.                                           *)
(***************************************************************************)
InCluster == DOMAIN cluster.address
HostAt(a) == {h \in InCluster : cluster.address[h] = a}
Reachable(a) == HostAt(a) \cap cluster.live # {}

Row(h, table) ==
    [table |-> table, host |-> h, rpc_address |-> cluster.address[h],
     broadcast_address |-> <<"internode", h>>, internode_port |-> peers_v2,
     complete |-> h \notin incomplete, dc |-> Dc[h], rack |-> Rack[h], tokens |-> Tokens[h]]

LocalRow == Row(transport.host, "local")
PeerRows == {Row(h, "peers") : h \in InCluster \ {transport.host}}

Connected == transport # None
Alive == IF transport = None THEN FALSE ELSE transport.alive
Subscribed == IF transport = None THEN FALSE ELSE transport.alive /\ transport.registered

\* The server sends what happened; a full broadcast channel drops the oldest.
Emit(new) ==
    IF Subscribed
    THEN LET all == events \o new
             lost == IF Len(all) > EventCapacity THEN Len(all) - EventCapacity ELSE 0
         IN events' = SubSeq(all, lost + 1, Len(all)) /\ missed' = (missed \/ lost > 0)
    ELSE missed' = TRUE /\ UNCHANGED events

Change(new, address, live, keyspaces) ==
    /\ changes < MaxChanges
    /\ changes' = changes + 1
    /\ cluster' = [address |-> address, live |-> live, keyspaces |-> keyspaces]
    /\ moved' = (moved \/ \E h \in DOMAIN address : address[h] # HomeAddress[h])
    /\ Emit(new)
    /\ UNCHANGED <<peers_v2, incomplete, metadata, controlVars, transport, errors, task, failures>>

Event(type, what) == [type |-> type, what |-> what]

Join(h) ==
    /\ h \notin InCluster /\ HostAt(HomeAddress[h]) = {}
    /\ Change(<<Event("NewNode", HomeAddress[h]), Event("Up", HomeAddress[h])>>,
              [g \in InCluster \cup {h} |-> IF g = h THEN HomeAddress[h] ELSE cluster.address[g]],
              cluster.live \cup {h}, cluster.keyspaces)

\* Whoever serves the control connection loses it before it goes.
Serving(h) == IF Alive THEN transport.host = h ELSE FALSE

Leave(h) ==
    /\ h \in InCluster /\ ~Serving(h)
    /\ Change(<<Event("RemovedNode", cluster.address[h])>>,
              [g \in InCluster \ {h} |-> cluster.address[g]], cluster.live \ {h}, cluster.keyspaces)

GoDown(h) ==
    /\ h \in cluster.live /\ ~Serving(h)
    /\ Change(<<Event("Down", cluster.address[h])>>, cluster.address, cluster.live \ {h},
              cluster.keyspaces)

\* A node starts again, perhaps at another address.
GoUp(h, a) ==
    /\ h \in InCluster \ cluster.live /\ HostAt(a) \subseteq {h}
    /\ Change(<<Event("Up", a)>>, [cluster.address EXCEPT ![h] = a], cluster.live \cup {h},
              cluster.keyspaces)

CreateKeyspace(k) ==
    /\ k \notin cluster.keyspaces
    /\ Change(<<Event("Created", k)>>, cluster.address, cluster.live, cluster.keyspaces \cup {k})

DropKeyspace(k) ==
    /\ k \in cluster.keyspaces
    /\ Change(<<Event("Dropped", k)>>, cluster.address, cluster.live, cluster.keyspaces \ {k})

\* The control connection breaks; its task then reports the error.
Fail ==
    /\ failures < MaxFailures /\ Alive
    /\ failures' = failures + 1
    /\ transport' = [transport EXCEPT !.alive = FALSE, !.unsent = TRUE]
    /\ UNCHANGED <<serverVars, metadata, controlVars, errors, events, task, missed>>

SendError ==
    /\ Connected /\ transport.unsent /\ errors = 0
    /\ errors' = 1
    /\ transport' = [transport EXCEPT !.unsent = FALSE]
    /\ UNCHANGED <<serverVars, metadata, controlVars, events, task, failures, missed>>

-----------------------------------------------------------------------------
(***************************************************************************)
(* ControlConnection::run.                                                 *)
(***************************************************************************)
At(pc) == control.pc = pc
GoTo(pc) == control' = [control EXCEPT !.pc = pc]
controlOnly == <<serverVars, metadata, did_initial_refresh, is_schema_v2, events, task, failures>>

CheckTransport ==
    /\ At("check")
    /\ GoTo(IF Connected THEN "register" ELSE "plan")
    /\ UNCHANGED <<controlOnly, init_complete, transport, errors, missed>>

\* The session is complete after the first attempt, whatever came of it.
Register ==
    /\ At("register")
    /\ init_complete' = TRUE
    /\ IF Alive THEN GoTo("listen") /\ transport' = [transport EXCEPT !.registered = TRUE]
                ELSE GoTo("drop") /\ UNCHANGED transport
    /\ UNCHANGED <<controlOnly, errors, missed>>

ReceiveError ==
    /\ At("listen") /\ errors = 1
    /\ errors' = 0
    /\ GoTo("drop")
    /\ UNCHANGED <<controlOnly, init_complete, transport, missed>>

\* Faulty variant: the broken transport stays in the session context.
DropNothing ==
    /\ At("drop")
    /\ GoTo("check")
    /\ UNCHANGED <<controlOnly, init_complete, transport, errors, missed>>

\* The transport is dropped, and with it whatever it had not reported yet.
DropTransport ==
    /\ At("drop")
    /\ transport' = None
    /\ GoTo("check")
    /\ UNCHANGED <<controlOnly, init_complete, errors, missed>>

\* The plan of the (wrapped) load balancer; contact points if it is empty.
QueryPlan == IF metadata.nodes = NoNodes THEN ContactPoints
             ELSE {metadata.nodes[h].rpc : h \in UnignoredNodes(metadata)}

PlanNodes ==
    /\ At("plan")
    /\ control' = [control EXCEPT !.pc = "connect", !.full = QueryPlan = {},
                                  !.nodes = IF QueryPlan = {} THEN ContactPoints ELSE QueryPlan]
    /\ UNCHANGED <<controlOnly, init_complete, transport, errors, missed>>

Connect(a) ==
    /\ At("connect") /\ a \in control.nodes
    /\ IF Reachable(a)
       THEN /\ control' = [control EXCEPT !.pc = "fetch", !.nodes = @ \ {a}]
            /\ transport' = [address |-> a, host |-> CHOOSE h \in HostAt(a) : TRUE, alive |-> TRUE,
                             registered |-> FALSE, unsent |-> FALSE]
       ELSE control' = [control EXCEPT !.nodes = @ \ {a}] /\ UNCHANGED transport
    /\ UNCHANGED <<controlOnly, init_complete, errors, missed>>

AllFailed ==
    /\ At("connect") /\ control.nodes = {}
    /\ GoTo("plan")
    /\ UNCHANGED <<controlOnly, init_complete, transport, errors, missed>>

\* refresh_metadata: the queries.  Without peers_v2, peers is used from then on.
Fetch ==
    /\ At("fetch")
    /\ IF Alive /\ IsPeerRowValid(LocalRow)
       THEN /\ control' = [control EXCEPT !.pc = "store",
                  !.fetched = [infos |-> NodeInfos(LocalRow, PeerRows, transport.address),
                               keyspaces |-> cluster.keyspaces]]
            /\ is_schema_v2' = (is_schema_v2 /\ peers_v2)
            /\ missed' = FALSE
       ELSE GoTo("connect") /\ UNCHANGED <<is_schema_v2, missed>>
    /\ UNCHANGED <<serverVars, metadata, did_initial_refresh, init_complete, transport, errors,
                   events, task, failures>>

StoreRefresh ==
    /\ At("store")
    /\ did_initial_refresh' = TRUE
    /\ metadata' = IF ~did_initial_refresh \/ control.full
           THEN BuildInitialMetadata(control.fetched.infos, control.fetched.keyspaces, ContactPoints)
           ELSE RefreshMetadata(control.fetched.infos, metadata)
    /\ control' = [control EXCEPT !.pc = "check", !.fetched = None]
    /\ UNCHANGED <<serverVars, is_schema_v2, init_complete, transport, errors, events, task,
                   failures, missed>>

-----------------------------------------------------------------------------
(***************************************************************************)
(* The task that applies events, one at a time.                            *)
(***************************************************************************)
Idle == [pc |-> "idle"]
FindInfo(a, state) == [pc |-> "find", address |-> a, state |-> state, snapshot |-> metadata]
Store(new) == [pc |-> "store", new |-> new]

\* Faulty variant: a node is removed only if it is not in use.
RemoveUnused(e) ==
    IF e.type = "NewNode"
    THEN task' = IF HasNodeByRpcAddress(metadata, e.what) THEN Idle ELSE FindInfo(e.what, "Unknown")
    ELSE task' = IF /\ HasNodeByRpcAddress(metadata, e.what)
                    /\ IsIgnored(FindNodeByRpcAddress(metadata, e.what))
                 THEN Store(CloneWithoutNode(metadata, e.what)) ELSE Idle

ProcessTopology(e) ==
    IF e.type = "NewNode"
    THEN task' = IF HasNodeByRpcAddress(metadata, e.what) THEN Idle ELSE FindInfo(e.what, "Unknown")
    ELSE task' = IF HasNodeByRpcAddress(metadata, e.what)
                 THEN Store(CloneWithoutNode(metadata, e.what)) ELSE Idle

\* A node with a connection is not marked down, whatever the event says.
ProcessStatus(e) ==
    LET known == HasNodeByRpcAddress(metadata, e.what)
        node == FindNodeByRpcAddress(metadata, e.what)
    IN IF e.type = "Up"
       THEN task' = IF ~known THEN FindInfo(e.what, "Up")
                    ELSE IF node.state = "Up" THEN Idle
                    ELSE Store(CloneWithNode(metadata, CloneWithNodeState(node, "Up")))
       ELSE IF known /\ node.state \notin {"Down", "ForcedDown"}
            THEN \E any_connection_up \in BOOLEAN :
                    task' = IF any_connection_up THEN Idle
                            ELSE Store(CloneWithNode(metadata, CloneWithNodeState(node, "Down")))
            ELSE task' = Idle

ProcessSchema(e) ==
    task' = IF e.type = "Created" THEN [pc |-> "query", keyspace |-> e.what]
            ELSE Store(CloneWithoutKeyspace(metadata, e.what))

ProcessEvent ==
    /\ task.pc = "idle" /\ events # <<>>
    /\ events' = Tail(events)
    /\ LET e == Head(events)
       IN \/ e.type \in {"NewNode", "RemovedNode"} /\ ProcessTopology(e)
          \/ e.type \in {"Up", "Down"} /\ ProcessStatus(e)
          \/ e.type \in {"Created", "Dropped"} /\ ProcessSchema(e)
    /\ UNCHANGED <<serverVars, metadata, controlVars, transport, errors, failures, missed>>

\* find_new_node_info asks over the control connection there is by now.
FindNewNodeInfo ==
    /\ task.pc = "find"
    /\ LET found == IF ~Alive THEN {}
                    ELSE IF task.address = transport.address
                    THEN {BuildNodeInfo(LocalRow, task.address)}
                    ELSE FindInPeers(PeerRows, task.address, transport.address)
       IN task' = IF found = {} THEN Idle
                  ELSE Store(AddNewNode(CHOOSE info \in found : TRUE, task.snapshot, task.state))
    /\ UNCHANGED <<serverVars, metadata, controlVars, transport, errors, events, failures, missed>>

\* try_refresh_keyspace: the metadata is loaded after the answer.
QueryKeyspace ==
    /\ task.pc = "query"
    /\ task' = IF ~Alive THEN Idle
               ELSE [pc |-> "load", keyspace |-> task.keyspace,
                     exists |-> task.keyspace \in cluster.keyspaces]
    /\ UNCHANGED <<serverVars, metadata, controlVars, transport, errors, events, failures, missed>>

LoadMetadata ==
    /\ task.pc = "load"
    /\ task' = Store(IF task.exists THEN CloneWithKeyspace(metadata, task.keyspace)
                                    ELSE CloneWithoutKeyspace(metadata, task.keyspace))
    /\ UNCHANGED <<serverVars, metadata, controlVars, transport, errors, events, failures, missed>>

StoreMetadata ==
    /\ task.pc = "store"
    /\ metadata' = task.new
    /\ task' = Idle
    /\ UNCHANGED <<serverVars, controlVars, transport, errors, events, failures, missed>>

-----------------------------------------------------------------------------
Init ==
    /\ cluster = [address |-> [h \in Members |-> HomeAddress[h]], live |-> Members, keyspaces |-> {}]
    /\ peers_v2 \in BOOLEAN /\ incomplete \in SUBSET IncompleteRows
    /\ metadata = EmptyMetadata /\ did_initial_refresh = FALSE /\ is_schema_v2 = TRUE
    /\ control = [pc |-> "check", nodes |-> {}, full |-> FALSE, fetched |-> None]
    /\ transport = None /\ errors = 0 /\ events = <<>> /\ task = Idle
    /\ init_complete = FALSE /\ changes = 0 /\ failures = 0 /\ missed = FALSE /\ moved = FALSE

ServerStep ==
    \/ \E h \in Hosts : Join(h) \/ Leave(h) \/ GoDown(h) \/ (\E a \in Addresses : GoUp(h, a))
    \/ \E k \in Names : CreateKeyspace(k) \/ DropKeyspace(k)
    \/ Fail

ControlStep ==
    \/ CheckTransport \/ Register \/ ReceiveError \/ DropTransport \/ PlanNodes \/ AllFailed
    \/ (\E a \in Addresses : Connect(a)) \/ Fetch \/ StoreRefresh

EventStep == ProcessEvent \/ FindNewNodeInfo \/ QueryKeyspace \/ LoadMetadata \/ StoreMetadata

Next == ServerStep \/ SendError \/ ControlStep \/ EventStep

Spec == Init /\ [][Next]_vars

\* The two tasks run, and a broken connection reports its error.
FairSpec == Spec /\ WF_vars(ControlStep) /\ WF_vars(EventStep) /\ WF_vars(SendError)

-----------------------------------------------------------------------------
(***************************************************************************)
(* Properties.                                                             *)
(***************************************************************************)
\* The ring, which is updated node by node, is the one that would be built from
\* the nodes: no token leads to a node that left, or to an older copy of it.
RingIsNodes == metadata.ring = TokenMapNew(metadata.nodes)

\* No two nodes share an address, though hosts move, events arrive late and
\* their results are stored over newer metadata.
OneNodePerAddress ==
    \A g, h \in DOMAIN metadata.nodes :
        g # h => metadata.nodes[g].rpc # metadata.nodes[h].rpc

\* The application gets the session after the metadata was read once.
SessionStartsWithMetadata == init_complete => did_initial_refresh

Listening == At("listen") /\ Alive /\ transport.registered

Quiet == Listening /\ events = <<>> /\ task.pc = "idle"

\* As long as the first control connection lasts, hosts keep their addresses and
\* the servers could tell the driver of every change, the driver knows exactly
\* the members and the keyspaces once it has applied all events.
MetadataFollows ==
    Quiet /\ failures = 0 /\ ~missed /\ ~moved =>
        /\ DOMAIN metadata.nodes = InCluster \ incomplete
        /\ metadata.keyspaces = cluster.keyspaces

PlanReachable == \E a \in IF QueryPlan = {} THEN ContactPoints ELSE QueryPlan : Reachable(a)

\* A control connection comes back, however it was lost and whatever errors were
\* still under way, if some node of the plan stays reachable (with an empty plan,
\* some contact point).
ControlConnectionReturns == <>[]Listening \/ []<>~PlanReachable
=============================================================================
