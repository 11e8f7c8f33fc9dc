---------------------------- MODULE LoadBalancing ----------------------------
(***************************************************************************)
(* Query plans: RoundRobinLoadBalancingStrategy, Random... and             *)
(* TopologyAwareLoadBalancingStrategy (cdrs-tokio/src/load_balancing),     *)
(* with the replication settings of keyspaces they use, read from          *)
(* system_schema.keyspaces (cluster_metadata_manager.rs).                  *)
(*                                                                         *)
(* A plan is a sequence of nodes.  A shuffle is a choice of any order; the *)
(* iteration order of the node map is a constant.                          *)
(***************************************************************************)
EXTENDS Topology, Sequences

CONSTANTS
    Order,              \* hosts in the order the node map yields them
    IndexLimit,         \* prev_idx wraps: 2^64 in the code
    Clusters,           \* node maps
    Strategies,         \* [kind, max_nodes_per_remote_dc, allow_dc_failover_for_local_cl]
    KeyspaceTables,     \* contents of system_schema.keyspaces
    Statements,         \* what plans are made for; None: for a connection
    CurrentKeyspaces,   \* of the session
    ContactPoints,      \* a sequence of nodes
    Generate(_)         \* Murmur3Token::generate

INSTANCE Routing

ASSUME IndexAssumption == IndexLimit \in Nat \ {0}

\* Nodes under their host ids, at different addresses (OneNodePerAddress of
\* ClusterMetadataManager), each with tokens of its own.
IsNodeMap(c) ==
    \A h \in DOMAIN c :
        /\ c[h].host = h /\ IsFiniteSet(c[h].tokens) /\ c[h].tokens \subseteq Int
        /\ \A g \in DOMAIN c \ {h} : c[g].rpc # c[h].rpc /\ c[g].tokens \cap c[h].tokens = {}

ASSUME ClustersAssumption == \A c \in Clusters : IsNodeMap(c)

\* A map yields every host once.
Hosts == UNION {DOMAIN c : c \in Clusters}

ASSUME OrderAssumption ==
    /\ Order \in Seq(Hosts) /\ \A i, j \in DOMAIN Order : Order[i] = Order[j] => i = j
    /\ \A h \in Hosts : \E i \in DOMAIN Order : Order[i] = h

ASSUME StrategiesAssumption ==
    \A s \in Strategies : /\ s.kind \in {"RoundRobin", "Random", "TopologyAware"}
                          /\ s.max_nodes_per_remote_dc \in Nat \cup {None}

ASSUME TablesAssumption ==
    \A rows \in KeyspaceTables : \A name \in DOMAIN rows :
        /\ IsFiniteSet(DOMAIN rows[name].factors)
        /\ \A p \in DOMAIN rows[name].factors :
              rows[name].factors[p].type \in {"number", "transient"} => rows[name].factors[p].n \in Nat

\* Values of a statement are bytes; keys are columns by their positions.
Values == [set : BOOLEAN, bytes : Seq(0..255)]

ASSUME StatementsAssumption ==
    /\ None \notin Seq(0..255)
    /\ \A s \in Statements \ {None} : s.op = "exec" =>
          /\ s.prepared.pk_indexes \in Seq(Nat)
          /\ s.parameters.values # None => s.parameters.values.list \in Seq(Values)

VARIABLES
    nodes, strategy, keyspaces,     \* fixed in a behaviour
    current_keyspace,
    prev_idx,                       \* AtomicUsize, wrapping; counts all requests of a session
    statement, request, plan        \* one of them, and its plan

vars == <<nodes, strategy, keyspaces, current_keyspace, prev_idx, statement, request, plan>>

-----------------------------------------------------------------------------
(***************************************************************************)
(* build_keyspace: replication settings.  A factor is a number, or a       *)
(* number of replicas and of transient ones ("3/1"), or no number.         *)
(***************************************************************************)
Error == [kind |-> "Error"]
Simple(rf) == [kind |-> "Simple", rf |-> rf]
NetworkTopology(rf) == [kind |-> "NetworkTopology", rf |-> rf]
Other == [kind |-> "Other"]

ExtractReplicationFactor(value) ==
    CASE value.type = "number"    -> value.n
      [] value.type = "transient" -> value.n
      [] OTHER                    -> -1

BuildReplicationStrategy(properties) ==
    LET factors == [p \in DOMAIN properties.factors |-> ExtractReplicationFactor(properties.factors[p])]
    IN CASE properties.class = "SimpleStrategy" ->
                IF "replication_factor" \notin DOMAIN factors THEN Error
                ELSE IF factors["replication_factor"] < 0 THEN Error
                ELSE Simple(factors["replication_factor"])
         [] properties.class = "NetworkTopologyStrategy" ->
                IF \E dc \in DOMAIN factors : factors[dc] < 0 THEN Error ELSE NetworkTopology(factors)
         [] properties.class = None -> Error
         [] OTHER -> Other

\* refresh_keyspaces: one row that cannot be read fails the whole refresh.
RefreshKeyspaces(rows) ==
    LET read == [name \in DOMAIN rows |-> BuildReplicationStrategy(rows[name])]
    IN IF \E name \in DOMAIN rows : read[name] = Error THEN Error ELSE read

-----------------------------------------------------------------------------
(***************************************************************************)
(* TokenMap::nodes_for_token(_capped): once around the ring from a token.  *)
(***************************************************************************)
Ring == TokenMapNew(nodes)
Ascending(S) ==
    [i \in 1..Cardinality(S) |-> CHOOSE t \in S : Cardinality({s \in S : s < t}) = i - 1]

FromToken(token) == Ascending({t \in DOMAIN Ring : t >= token}) \o Ascending(DOMAIN Ring)

Capped(seq, n) == SubSeq(seq, 1, IF n < Len(seq) THEN n ELSE Len(seq))

NodesForTokenCapped(token, n) ==
    LET ring == Ring
        tokens == Capped(FromToken(token), n)
    IN [i \in DOMAIN tokens |-> ring[tokens[i]]]

NodesForToken(token) == NodesForTokenCapped(token, Cardinality(DOMAIN Ring))

-----------------------------------------------------------------------------
(***************************************************************************)
(* The parts of a plan.                                                    *)
(***************************************************************************)
\* The elements of a sequence at some of its indices.
Pick(seq, keep) == LET order == Ascending(keep) IN [i \in DOMAIN order |-> seq[order[i]]]

IsLocal(n) == n.distance = "Local"
IsRemote(n) == n.distance = "Remote"

Unignored(seq) == Pick(seq, {i \in DOMAIN seq : ~IsIgnored(seq[i])})
Local(seq) == Pick(seq, {i \in DOMAIN seq : IsLocal(seq[i])})
NotLocal(seq) == Pick(seq, {i \in DOMAIN seq : ~IsLocal(seq[i])})
Remote(seq) == Pick(seq, {i \in DOMAIN seq : IsRemote(seq[i])})

NodesInOrder ==
    LET hosts == Pick(Order, {i \in DOMAIN Order : Order[i] \in DOMAIN nodes})
    IN [i \in DOMAIN hosts |-> nodes[hosts[i]]]

\* Faulty variant: the node before the first one is lost.
RotateLosing(seq) == IF seq = <<>> THEN seq
                     ELSE LET i == prev_idx % Len(seq)
                          IN SubSeq(seq, i + 1, Len(seq)) \o SubSeq(seq, 1, i - 1)

Rotate(seq) == IF seq = <<>> THEN seq
               ELSE LET i == prev_idx % Len(seq) IN SubSeq(seq, i + 1, Len(seq)) \o SubSeq(seq, 1, i)

UnignoredInOrder == Unignored(NodesInOrder)
LocalInOrder == Local(UnignoredInOrder)
RoundRobinUnignoredNodes == Rotate(UnignoredInOrder)
RoundRobinUnignoredLocalNodes == Rotate(LocalInOrder)
UnignoredRemoteNodesCapped(n) == Capped(Remote(UnignoredInOrder), n)

Shuffles(seq) ==
    {[i \in DOMAIN seq |-> seq[p[i]]] :
        p \in {q \in [DOMAIN seq -> DOMAIN seq] : \A i, j \in DOMAIN seq : i # j => q[i] # q[j]}}

\* Faulty variant: neighbours are compared, as dedup does.
UniqueNeighbours(seq) ==
    Pick(seq, {i \in DOMAIN seq : i = 1 \/ seq[i].rpc # seq[i - 1].rpc})

\* unique_by address: the first of equals stays.
UniqueByAddress(seq) ==
    Pick(seq, {i \in DOMAIN seq : \A j \in 1..(i - 1) : seq[j].rpc # seq[i].rpc})

-----------------------------------------------------------------------------
(***************************************************************************)
(* network_topology_strategy_replicas, the walk around the ring.           *)
(***************************************************************************)
SaturatingSub(a, b) == IF a > b THEN a - b ELSE 0

SameRackReplicas(rf) ==
    LET datacenters == BuildDatacenterInfo(nodes)
    IN [dc \in DOMAIN rf |->
           SaturatingSub(rf[dc], IF dc \in DOMAIN datacenters THEN datacenters[dc] ELSE 0)]

\* The sum of the factors.
Total(rf) == Cardinality(UNION {{dc} \X (1..rf[dc]) : dc \in DOMAIN rf})

Take(acc, n) == [acc EXCEPT !.rf[n.dc] = @ - 1, !.result = Append(@, n)]

\* Faulty variant: racks are not told apart.
VisitAnyRack(acc, n, desired) ==
    IF acc.done \/ n.dc \notin DOMAIN acc.rf THEN acc
    ELSE IF acc.rf[n.dc] = 0 THEN acc ELSE Take(acc, n)

\* One replica of the ring.  The walk ends after a node of a datacenter with
\* replicas, when there are enough.
Visit(acc, n, desired) ==
    IF acc.done \/ n.dc \notin DOMAIN acc.rf THEN acc
    ELSE IF acc.rf[n.dc] = 0 THEN acc
    ELSE LET next == IF <<n.dc, n.rack>> \notin acc.used
                     THEN [Take(acc, n) EXCEPT !.used = @ \cup {<<n.dc, n.rack>>}]
                     ELSE IF acc.same[n.dc] > 0 THEN [Take(acc, n) EXCEPT !.same[n.dc] = @ - 1]
                     ELSE acc
         IN [next EXCEPT !.done = Len(next.result) = desired]

Walk(replicas, rf) ==
    LET desired == Total(rf)
        acc[i \in 0..Len(replicas)] ==
            IF i = 0 THEN [rf |-> rf, same |-> SameRackReplicas(rf), used |-> {}, result |-> <<>>, done |-> FALSE]
            ELSE Visit(acc[i - 1], replicas[i], desired)
    IN acc

NetworkTopologyReplicas(token, rf) ==
    LET replicas == NodesForToken(token) IN Walk(replicas, rf)[Len(replicas)].result

-----------------------------------------------------------------------------
(***************************************************************************)
(* The plans a strategy can return, and what it does to prev_idx.          *)
(***************************************************************************)
IsDcLocal(consistency) == consistency \in {"LocalOne", "LocalQuorum", "LocalSerial"}

\* Local replicas first.  The sort is unstable, and the local replicas are
\* shuffled besides when remote ones follow: any order of each is possible.
SortedReplicas(token, rf) ==
    LET replicas == Unignored(NetworkTopologyReplicas(token, rf))
    IN {l \o r : l \in Shuffles(Local(replicas)), r \in Shuffles(NotLocal(replicas))}

NetworkTopologyPlans(token, rf, consistency) ==
    LET replicas == {s \o RoundRobinUnignoredLocalNodes : s \in SortedReplicas(token, rf)}
        max == strategy.max_nodes_per_remote_dc
    IN IF max = None THEN {UniqueByAddress(p) : p \in replicas}
       ELSE IF /\ consistency # None /\ ~strategy.allow_dc_failover_for_local_cl
               /\ IsDcLocal(consistency)
       THEN replicas
       ELSE {UniqueByAddress(p \o r) : p \in replicas, r \in Shuffles(UnignoredRemoteNodesCapped(max))}

SimplePlans(token, n) ==
    {UniqueByAddress(p \o RoundRobinUnignoredNodes) : p \in Shuffles(Unignored(NodesForTokenCapped(token, n)))}

TokenOf(r) ==
    IF r.token # None THEN r.token
    ELSE IF r.routing_key # None THEN Generate(r.routing_key) ELSE None

\* A Murmur3Token is a number.
ASSUME TokenAssumption ==
    \A s \in Statements, k \in CurrentKeyspaces :
        Request(s, k) # None => TokenOf(Request(s, k)) \in Int \cup {None}

\* How a topology-aware plan is made: without a request, a token or a known
\* keyspace from the local nodes only.
Routing(r) ==
    IF r = None THEN [kind |-> "Local"]
    ELSE IF TokenOf(r) = None \/ r.keyspace \notin DOMAIN keyspaces THEN [kind |-> "Local"]
    ELSE keyspaces[r.keyspace]

TopologyAwarePlans(r) ==
    LET routing == Routing(r)
    IN CASE routing.kind = "Local"  -> {RoundRobinUnignoredLocalNodes}
         [] routing.kind = "Simple" -> SimplePlans(TokenOf(r), routing.rf)
         [] routing.kind = "Other"  -> SimplePlans(TokenOf(r), 1)
         [] routing.kind = "NetworkTopology" ->
                NetworkTopologyPlans(TokenOf(r), routing.rf, r.consistency)

\* Without metadata the contact points are the plan.
Plans(r) ==
    IF nodes = NoNodes THEN {ContactPoints}
    ELSE CASE strategy.kind = "RoundRobin"    -> {RoundRobinUnignoredNodes}
           [] strategy.kind = "Random"        -> Shuffles(UnignoredInOrder)
           [] strategy.kind = "TopologyAware" -> TopologyAwarePlans(r)

\* fetch_add happens only when there is something to rotate.
Rotates(r) ==
    CASE strategy.kind = "RoundRobin" -> UnignoredInOrder # <<>>
      [] strategy.kind = "Random" -> FALSE
      [] strategy.kind = "TopologyAware" ->
             IF Routing(r).kind \in {"Local", "NetworkTopology"} THEN LocalInOrder # <<>>
             ELSE UnignoredInOrder # <<>>

QueryPlan(s) ==
    LET r == Request(s, current_keyspace)
    IN /\ plan = None
       /\ statement' = s /\ request' = r
       /\ plan' \in Plans(r)
       /\ prev_idx' = IF Rotates(r) THEN (prev_idx + 1) % IndexLimit ELSE prev_idx
       /\ UNCHANGED <<nodes, strategy, keyspaces, current_keyspace>>

\* The first refresh gives all of the metadata, or none.
Init ==
    /\ strategy \in Strategies
    /\ \E rows \in KeyspaceTables :
          IF RefreshKeyspaces(rows) = Error
          THEN nodes = NoNodes /\ keyspaces = NoNodes
          ELSE nodes \in Clusters /\ keyspaces = RefreshKeyspaces(rows)
    /\ prev_idx \in 0..(IndexLimit - 1)
    /\ current_keyspace \in CurrentKeyspaces
    /\ statement = None /\ request = None /\ plan = None

Next == \E s \in Statements : QueryPlan(s)

Spec == Init /\ [][Next]_vars

-----------------------------------------------------------------------------
Planned(h) == \E i \in DOMAIN plan : plan[i].host = h
Usable(h) == ~IsIgnored(nodes[h])

\* A local consistency level, with other datacenters configured but not as a
\* failover: the plan is returned as it was put together.
StaysLocal ==
    /\ strategy.kind = "TopologyAware" /\ Routing(request).kind = "NetworkTopology"
    /\ strategy.max_nodes_per_remote_dc # None /\ ~strategy.allow_dc_failover_for_local_cl
    /\ IsDcLocal(request.consistency)

\* A query plan never names a node twice (a retry on the next node would go
\* to the same one), except the one plan that is not deduplicated, and the
\* contact points, which are tried as they were configured.
PlanNamesNodesOnce ==
    plan # None /\ nodes # NoNodes =>
        \A i, j \in DOMAIN plan : i # j => plan[i].rpc # plan[j].rpc \/ StaysLocal

\* A query plan consists of nodes that are in use and leaves out none of the
\* local ones, whatever the strategy, the index, the keyspace and the
\* replicas of the token: no node goes without requests.
PlanCoversLocalNodes ==
    plan # None /\ nodes # NoNodes =>
        /\ \A i \in DOMAIN plan : ~IsIgnored(plan[i])
        /\ \A h \in DOMAIN nodes : Usable(h) /\ IsLocal(nodes[h]) => Planned(h)

-----------------------------------------------------------------------------
(***************************************************************************)
(* Cassandra's placement, as a reference: in the order in which they own   *)
(* tokens from the given one on, the first node of each rack, and, when    *)
(* there are fewer racks than replicas, the first of the others.           *)
(***************************************************************************)
FirstAt(walk, h) ==
    CHOOSE i \in DOMAIN walk : walk[i].host = h /\ \A j \in 1..(i - 1) : walk[j].host # h

Placement(token, rf) ==
    UNION {LET hosts == {h \in DOMAIN nodes : nodes[h].dc = dc /\ nodes[h].tokens # {}}
               walk == NodesForToken(token)
               place == [h \in hosts |-> FirstAt(walk, h)]
               first == {h \in hosts : \A g \in hosts :
                            nodes[g].rack = nodes[h].rack => place[h] <= place[g]}
               Nearest(S, n) == {h \in S : Cardinality({g \in S : place[g] < place[h]}) < n}
           IN Nearest(first, rf[dc])
              \cup Nearest(hosts \ first, SaturatingSub(rf[dc], Cardinality(first))) :
           dc \in DOMAIN rf}

\* The nodes a plan for a NetworkTopologyStrategy keyspace starts with are
\* replicas of the token in Cassandra's own placement, and when every node
\* has one token they are all of them that are in use: racks are told
\* apart, the factor of each datacenter is met, and the ring wraps.
ReplicasComeFirst ==
    strategy.kind = "TopologyAware" /\ plan # None /\ nodes # NoNodes =>
        LET routing == Routing(request)
        IN routing.kind = "NetworkTopology" =>
            LET placed == {h \in Placement(TokenOf(request), routing.rf) : Usable(h)}
                walked == NetworkTopologyReplicas(TokenOf(request), routing.rf)
                found == {h \in DOMAIN nodes : Usable(h) /\ \E i \in DOMAIN walked : walked[i].host = h}
            IN /\ found \subseteq placed
               /\ (\A h \in DOMAIN nodes : Cardinality(nodes[h].tokens) = 1) => found = placed
               /\ \A i \in DOMAIN plan : i <= Cardinality(found) /\ ~StaysLocal => plan[i].host \in found

-----------------------------------------------------------------------------
(***************************************************************************)
(* The key Cassandra hashes for a partition: the value of the only column  *)
(* of the key, or all of them with their sizes and an end marker.          *)
(***************************************************************************)
Component(bytes) == <<Len(bytes) \div 256, Len(bytes) % 256>> \o bytes \o <<0>>

PartitionKey(columns) ==
    IF Len(columns) = 1 THEN columns[1] ELSE Concat([i \in DOMAIN columns |-> Component(columns[i])])

KeyLimit == 65536

\* The columns of the key with a value that Cassandra accepts in a key.
Bound(s) == {i \in DOMAIN s.prepared.pk_indexes :
                /\ s.prepared.pk_indexes[i] < Len(s.parameters.values.list)
                /\ s.parameters.values.list[s.prepared.pk_indexes[i] + 1].set
                /\ Len(s.parameters.values.list[s.prepared.pk_indexes[i] + 1].bytes) < KeyLimit}

\* A prepared statement whose whole primary key is bound by position is
\* routed by the key of its partition, in its own keyspace, and not by the
\* routing key or the keyspace of its parameters; an explicit token wins.
RoutedByPartition ==
    plan # None /\ statement # None => (statement.op = "exec" =>
        LET s == statement
            parameters == s.parameters
        IN (/\ parameters.values # None /\ ~parameters.values.named
            /\ s.prepared.pk_indexes # <<>> /\ Bound(s) = DOMAIN s.prepared.pk_indexes) =>
            LET key == PartitionKey([i \in DOMAIN s.prepared.pk_indexes |->
                                        parameters.values.list[s.prepared.pk_indexes[i] + 1].bytes])
            IN /\ TokenOf(request) = Either(parameters.token, Generate(key))
               /\ s.prepared.keyspace # None => request.keyspace = s.prepared.keyspace)
=============================================================================
