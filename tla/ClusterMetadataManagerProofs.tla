--------------------- MODULE ClusterMetadataManagerProofs ---------------------
(***************************************************************************)
(* Proofs about ClusterMetadataManager: for any cluster, any changes of it *)
(* and any interleaving of the two tasks, the metadata is consistent.      *)
(*                                                                         *)
(* The metadata is replaced as a whole, by values that were computed some  *)
(* steps earlier, from rows read earlier still.  The invariant therefore   *)
(* speaks of every value on its way: the rows that were fetched, the       *)
(* snapshot an event is applied to, and the metadata about to be stored.   *)
(***************************************************************************)
EXTENDS ClusterMetadataManager, TLAPS

-----------------------------------------------------------------------------
(***************************************************************************)
(* Consistent metadata.                                                    *)
(***************************************************************************)
IsNode(n) ==
    n = [host |-> n.host, rpc |-> n.rpc, broadcast |-> n.broadcast, distance |-> n.distance,
         state |-> n.state, tokens |-> n.tokens, dc |-> n.dc, rack |-> n.rack]
NodeOK(h, n) == IsNode(n) /\ n.host = h /\ n.tokens = Tokens[h]

NodesOK(nodes) ==
    /\ DOMAIN nodes \subseteq Hosts
    /\ nodes = [h \in DOMAIN nodes |-> nodes[h]]
    /\ \A h \in DOMAIN nodes : NodeOK(h, nodes[h])

Distinct(nodes) == \A g, h \in DOMAIN nodes : g # h => nodes[g].rpc # nodes[h].rpc

IsMetadata(m) ==
    m = [nodes |-> m.nodes, ring |-> m.ring, keyspaces |-> m.keyspaces,
         datacenters |-> m.datacenters]
MetadataOK(m) ==
    IsMetadata(m) /\ NodesOK(m.nodes) /\ Distinct(m.nodes) /\ m.ring = TokenMapNew(m.nodes)

\* Rows of one refresh: one for every host, at different addresses.
IsInfo(i) ==
    i = [host |-> i.host, rpc |-> i.rpc, broadcast |-> i.broadcast, dc |-> i.dc,
         rack |-> i.rack, tokens |-> i.tokens]
InfoOK(i) == IsInfo(i) /\ i.host \in Hosts /\ i.tokens = Tokens[i.host]
InfosOK(infos) ==
    /\ \A i \in infos : InfoOK(i)
    /\ \A i, j \in infos : i # j => i.host # j.host /\ i.rpc # j.rpc

\* A token of a node leads to that node: no other host has it.
LEMMA RingAt ==
    ASSUME NEW nodes, NodesOK(nodes), NEW h \in DOMAIN nodes, NEW t \in Tokens[h]
    PROVE  t \in AllTokens(nodes) /\ TokenMapNew(nodes)[t] = nodes[h]
<1>1. t \in nodes[h].tokens
  BY DEF NodesOK, NodeOK
<1>2. t \in AllTokens(nodes)
  BY <1>1 DEF AllTokens
<1>3. ASSUME NEW g \in DOMAIN nodes, t \in nodes[g].tokens PROVE g = h
  BY <1>3, TopologyAssumption DEF NodesOK, NodeOK
<1>4. (CHOOSE g \in DOMAIN nodes : t \in nodes[g].tokens) = h
  BY <1>1, <1>3
<1> QED
  BY <1>2, <1>4, Zenon DEF TokenMapNew

\* ClusterMetadata::new makes consistent metadata of consistent nodes.
LEMMA NewOK ==
    ASSUME NEW nodes, NodesOK(nodes), Distinct(nodes), NEW keyspaces
    PROVE  MetadataOK(MetadataNew(nodes, keyspaces))
BY DEF MetadataOK, MetadataNew, IsMetadata

\* Node::new makes a node of the host it was given.
LEMMA NewNodeOK ==
    ASSUME NEW i, InfoOK(i), NEW d, NEW s
    PROVE  NodeOK(i.host, NewNode(i, d, s)) /\ NewNode(i, d, s).rpc = i.rpc
BY DEF InfoOK, NodeOK, NewNode, IsNode

\* clone_with_node: the ring is updated as if it had been built anew.
LEMMA CloneWithNodeOK ==
    ASSUME NEW m, MetadataOK(m), NEW k \in Hosts, NEW n, NodeOK(k, n),
           \A g \in DOMAIN m.nodes \ {k} : m.nodes[g].rpc # n.rpc
    PROVE  MetadataOK(CloneWithNode(m, n))
<1> DEFINE nodes == [h \in DOMAIN m.nodes \cup {k} |-> IF h = k THEN n ELSE m.nodes[h]]
<1>1. n.host = k /\ n.tokens = Tokens[k]
  BY DEF NodeOK
<1>2. CloneWithNode(m, n) =
        [nodes |-> nodes, ring |-> RingWithNode(m.ring, n), keyspaces |-> m.keyspaces,
         datacenters |-> BuildDatacenterInfo(nodes)]
  BY <1>1 DEF CloneWithNode
<1>3. NodesOK(nodes)
  BY DEF MetadataOK, NodesOK
<1>4. Distinct(nodes)
  BY DEF MetadataOK, Distinct
<1>5. AllTokens(nodes) = AllTokens(m.nodes) \cup Tokens[k]
  <2>1. \A h \in DOMAIN m.nodes : m.nodes[h].tokens = Tokens[h]
    BY DEF MetadataOK, NodesOK, NodeOK
  <2>2. \A h \in DOMAIN nodes : nodes[h].tokens = Tokens[h]
    BY <1>3 DEF NodesOK, NodeOK
  <2>3. DOMAIN nodes = DOMAIN m.nodes \cup {k}
    OBVIOUS
  <2> HIDE DEF nodes
  <2> QED
    BY <2>1, <2>2, <2>3 DEF AllTokens
<1>6. ASSUME NEW t \in AllTokens(nodes)
      PROVE  TokenMapNew(nodes)[t] = IF t \in Tokens[k] THEN n ELSE m.ring[t]
  <2>1. CASE t \in Tokens[k]
    <3>1. TokenMapNew(nodes)[t] = nodes[k]
      BY <1>3, <2>1, RingAt
    <3> QED
      BY <2>1, <3>1
  <2>2. CASE t \notin Tokens[k]
    <3>1. PICK h \in DOMAIN m.nodes : t \in m.nodes[h].tokens
      BY <1>5, <1>6, <2>2, Zenon DEF AllTokens
    <3>2. t \in Tokens[h] /\ h # k
      BY <2>2, <3>1 DEF MetadataOK, NodesOK, NodeOK
    <3>3. TokenMapNew(m.nodes)[t] = m.nodes[h]
      BY <3>2, RingAt DEF MetadataOK
    <3>4. TokenMapNew(nodes)[t] = nodes[h]
      BY <1>3, <3>2, RingAt
    <3>5. nodes[h] = m.nodes[h]
      BY <3>2
    <3> QED
      BY <2>2, <3>3, <3>4, <3>5 DEF MetadataOK
  <2> QED
    BY <2>1, <2>2
<1>7. RingWithNode(m.ring, n) = TokenMapNew(nodes)
  <2>1. DOMAIN m.ring = AllTokens(m.nodes)
    BY DEF MetadataOK, TokenMapNew
  <2>2. RingWithNode(m.ring, n) = [t \in AllTokens(nodes) |-> IF t \in Tokens[k] THEN n ELSE m.ring[t]]
    BY <1>1, <1>5, <2>1, Zenon DEF RingWithNode
  <2>3. TokenMapNew(nodes) = [t \in AllTokens(nodes) |-> TokenMapNew(nodes)[t]]
    BY DEF TokenMapNew
  <2> HIDE DEF nodes
  <2> QED
    BY <1>6, <2>2, <2>3
<1> HIDE DEF nodes
<1> QED
  BY <1>2, <1>3, <1>4, <1>7 DEF MetadataOK, IsMetadata

\* clone_without_node: the rest of the nodes is consistent.
LEMMA CloneWithoutNodeOK ==
    ASSUME NEW m, MetadataOK(m), NEW a
    PROVE  MetadataOK(CloneWithoutNode(m, a))
<1> DEFINE nodes == [h \in {g \in DOMAIN m.nodes : m.nodes[g].rpc # a} |-> m.nodes[h]]
<1>1. NodesOK(nodes) /\ Distinct(nodes)
  BY DEF MetadataOK, NodesOK, Distinct
<1> HIDE DEF nodes
<1>2. MetadataOK(MetadataNew(nodes, m.keyspaces))
  BY <1>1, NewOK
<1> QED
  BY <1>2 DEF nodes, CloneWithoutNode

\* Keyspaces come and go without the nodes.
LEMMA KeyspaceOK ==
    ASSUME NEW m, MetadataOK(m), NEW k
    PROVE  MetadataOK(CloneWithKeyspace(m, k)) /\ MetadataOK(CloneWithoutKeyspace(m, k))
<1>1. ASSUME NEW S PROVE MetadataOK([m EXCEPT !.keyspaces = S])
  BY DEF MetadataOK, IsMetadata
<1> QED
  BY <1>1 DEF CloneWithKeyspace, CloneWithoutKeyspace

\* A node with another state is still that node.
LEMMA NodeStateOK ==
    ASSUME NEW h, NEW n, NodeOK(h, n), NEW s
    PROVE  NodeOK(h, CloneWithNodeState(n, s)) /\ CloneWithNodeState(n, s).rpc = n.rpc
BY DEF NodeOK, IsNode, CloneWithNodeState

\* add_new_node, for a host found at an address where the snapshot has no node.
LEMMA AddNewNodeOK ==
    ASSUME NEW m, MetadataOK(m), NEW i, InfoOK(i), HostsAt(m, i.rpc) = {}, NEW s
    PROVE  MetadataOK(AddNewNode(i, m, s))
<1>1. \A g \in DOMAIN m.nodes : m.nodes[g].rpc # i.rpc
  BY DEF HostsAt
<1>2. i.host \in Hosts
  BY DEF InfoOK
<1>3. AddNewNode(i, m, s) = CloneWithNode(m, NewNode(i, None, s))
  BY <1>1 DEF AddNewNode, CloneWithNodeInfoAndState
<1>4. NodeOK(i.host, NewNode(i, None, s)) /\ NewNode(i, None, s).rpc = i.rpc
  BY NewNodeOK
<1> QED
  BY <1>1, <1>2, <1>3, <1>4, CloneWithNodeOK

\* The node found at an address is the node of some host, and another state of it
\* can be stored.
LEMMA SetStateOK ==
    ASSUME NEW m, MetadataOK(m), NEW a, HasNodeByRpcAddress(m, a), NEW s
    PROVE  MetadataOK(CloneWithNode(m, CloneWithNodeState(FindNodeByRpcAddress(m, a), s)))
<1>1. PICK h \in HostsAt(m, a) : FindNodeByRpcAddress(m, a) = m.nodes[h]
  BY Zenon DEF HasNodeByRpcAddress, FindNodeByRpcAddress
<1>2. h \in DOMAIN m.nodes /\ h \in Hosts /\ NodeOK(h, m.nodes[h])
  BY <1>1 DEF HostsAt, MetadataOK, NodesOK
<1> DEFINE n == CloneWithNodeState(m.nodes[h], s)
<1>3. NodeOK(h, n) /\ n.rpc = m.nodes[h].rpc
  BY <1>2, NodeStateOK
<1>4. \A g \in DOMAIN m.nodes \ {h} : m.nodes[g].rpc # n.rpc
  BY <1>2, <1>3 DEF MetadataOK, Distinct
<1> HIDE DEF n
<1>5. MetadataOK(CloneWithNode(m, n))
  BY <1>2, <1>3, <1>4, CloneWithNodeOK
<1> QED
  BY <1>1, <1>5 DEF n

\* The row of a host, among rows of different hosts.
LEMMA InfoOfOK ==
    ASSUME NEW infos, InfosOK(infos), NEW h \in HostsOf(infos)
    PROVE  InfoOf(infos, h) \in infos /\ InfoOf(infos, h).host = h /\ InfoOK(InfoOf(infos, h))
<1>1. PICK i \in infos : i.host = h
  BY DEF HostsOf
<1> QED
  BY <1>1 DEF InfoOf, InfosOK

\* Nodes made of the rows, one by one, are consistent.
LEMMA NodesOfInfos ==
    ASSUME NEW infos, InfosOK(infos), NEW nodes,
           nodes = [h \in HostsOf(infos) |-> nodes[h]],
           \A h \in HostsOf(infos) : NodeOK(h, nodes[h]) /\ nodes[h].rpc = InfoOf(infos, h).rpc
    PROVE  NodesOK(nodes) /\ Distinct(nodes)
<1>1. DOMAIN nodes = HostsOf(infos)
  OBVIOUS
<1>2. HostsOf(infos) \subseteq Hosts
  BY DEF HostsOf, InfosOK, InfoOK
<1>3. NodesOK(nodes)
  BY <1>1, <1>2 DEF NodesOK
<1>4. ASSUME NEW g \in HostsOf(infos), NEW h \in HostsOf(infos), g # h
      PROVE  InfoOf(infos, g).rpc # InfoOf(infos, h).rpc
  BY <1>4, InfoOfOK DEF InfosOK
<1> QED
  BY <1>1, <1>3, <1>4 DEF Distinct

\* Metadata of the hosts with these rows, at these addresses.
IsMadeOf(m, infos) ==
    DOMAIN m.nodes = HostsOf(infos) /\ \A h \in DOMAIN m.nodes : m.nodes[h].rpc = InfoOf(infos, h).rpc

\* build_initial_metadata makes consistent metadata of the rows.
LEMMA BuildInitialOK ==
    ASSUME NEW infos, InfosOK(infos), NEW keyspaces, NEW points
    PROVE  /\ MetadataOK(BuildInitialMetadata(infos, keyspaces, points))
           /\ IsMadeOf(BuildInitialMetadata(infos, keyspaces, points), infos)
           /\ BuildInitialMetadata(infos, keyspaces, points).keyspaces = keyspaces
<1> DEFINE node(h) == LET info == InfoOf(infos, h)
                      IN IF info.rpc \in points
                         THEN CloneAsContactPoint(ContactPoint(info.rpc), info)
                         ELSE NewNode(info, ComputeDistance(info), "Unknown")
           nodes == [h \in HostsOf(infos) |-> node(h)]
<1>1. ASSUME NEW h \in HostsOf(infos)
      PROVE  NodeOK(h, node(h)) /\ node(h).rpc = InfoOf(infos, h).rpc
  <2> DEFINE i == InfoOf(infos, h)
  <2>1. InfoOK(i) /\ i.host = h
    BY InfoOfOK
  <2> HIDE DEF i
  <2>2. [i EXCEPT !.rpc = i.rpc] = i
    BY <2>1 DEF InfoOK, IsInfo
  <2>3. CloneAsContactPoint(ContactPoint(i.rpc), i) = NewNode(i, "Local", "Up")
    BY <2>2 DEF CloneAsContactPoint, ContactPoint
  <2>4. \A d, s : NodeOK(h, NewNode(i, d, s)) /\ NewNode(i, d, s).rpc = i.rpc
    BY <2>1, NewNodeOK
  <2> QED
    BY <2>3, <2>4 DEF i
<1> HIDE DEF node
<1>2. NodesOK(nodes) /\ Distinct(nodes)
  BY <1>1, NodesOfInfos
<1>4. DOMAIN nodes = HostsOf(infos) /\ \A h \in HostsOf(infos) : nodes[h].rpc = InfoOf(infos, h).rpc
  BY <1>1
<1> HIDE DEF nodes
<1>3. MetadataOK(MetadataNew(nodes, keyspaces))
  BY <1>2, NewOK
<1>5. IsMadeOf(MetadataNew(nodes, keyspaces), infos) /\ MetadataNew(nodes, keyspaces).keyspaces = keyspaces
  BY <1>4 DEF IsMadeOf, MetadataNew
<1>6. BuildInitialMetadata(infos, keyspaces, points) = MetadataNew(nodes, keyspaces)
  BY DEF nodes, node, BuildInitialMetadata
<1> QED
  BY <1>3, <1>5, <1>6

\* refresh_metadata makes consistent metadata of the rows and the nodes before.
LEMMA RefreshOK ==
    ASSUME NEW infos, InfosOK(infos), NEW old
    PROVE  MetadataOK(RefreshMetadata(infos, old))
<1> DEFINE node(h) == LET info == InfoOf(infos, h)
                      IN IF h \in DOMAIN old.nodes THEN CloneWithNodeInfo(old.nodes[h], info)
                         ELSE NewNode(info, ComputeDistance(info), "Unknown")
           nodes == [h \in HostsOf(infos) |-> node(h)]
<1>1. ASSUME NEW h \in HostsOf(infos)
      PROVE  NodeOK(h, node(h)) /\ node(h).rpc = InfoOf(infos, h).rpc
  <2> DEFINE i == InfoOf(infos, h)
  <2>1. InfoOK(i) /\ i.host = h
    BY InfoOfOK
  <2> HIDE DEF i
  <2>2. \A d, s : NodeOK(h, NewNode(i, d, s)) /\ NewNode(i, d, s).rpc = i.rpc
    BY <2>1, NewNodeOK
  <2> QED
    BY <2>2 DEF i, CloneWithNodeInfo
<1> HIDE DEF node
<1>2. NodesOK(nodes) /\ Distinct(nodes)
  BY <1>1, NodesOfInfos
<1> HIDE DEF nodes
<1>3. MetadataOK(MetadataNew(nodes, old.keyspaces))
  BY <1>2, NewOK
<1> QED
  BY <1>3 DEF nodes, node, RefreshMetadata

-----------------------------------------------------------------------------
(***************************************************************************)
(* The invariant.                                                          *)
(***************************************************************************)
\* The servers are at different addresses.
ServersOK ==
    /\ InCluster \subseteq Hosts
    /\ \A g, h \in InCluster : g # h => cluster.address[g] # cluster.address[h]

\* A control connection that works leads to a member of the cluster.
TransportOK ==
    transport # None =>
        /\ transport = [address |-> transport.address, host |-> transport.host,
                        alive |-> transport.alive, registered |-> transport.registered,
                        unsent |-> transport.unsent]
        /\ transport.alive \in BOOLEAN
        /\ transport.alive => transport.host \in InCluster

\* The rows about to be stored are those of one refresh.
ControlOK ==
    /\ control = [pc |-> control.pc, nodes |-> control.nodes, full |-> control.full,
                  fetched |-> control.fetched]
    /\ At("store") => InfosOK(control.fetched.infos)

\* The metadata about to be stored is consistent; where a host is looked for, the
\* snapshot has no node.
TaskOK ==
    /\ task.pc = "find" => MetadataOK(task.snapshot) /\ HostsAt(task.snapshot, task.address) = {}
    /\ task.pc = "store" => MetadataOK(task.new)

IInv == ServersOK /\ TransportOK /\ ControlOK /\ TaskOK /\ MetadataOK(metadata)

\* A row describes its host.
LEMMA RowOK ==
    ASSUME NEW h \in Hosts, NEW table, NEW a
    PROVE  InfoOK(BuildNodeInfo(Row(h, table), a)) /\ BuildNodeInfo(Row(h, table), a).rpc = a
           /\ BuildNodeInfo(Row(h, table), a).host = h
BY Zenon DEF InfoOK, IsInfo, BuildNodeInfo, Row

\* find_new_node_info over a connection that answers: the rows it may take.
FoundInfos ==
    IF task.address = transport.address
    THEN {BuildNodeInfo(LocalRow, task.address)}
    ELSE FindInPeers(PeerRows, task.address, transport.address)

\* The node that is found is stored, and without one the task is done.
LEMMA FindSteps ==
    ASSUME Alive, FindNewNodeInfo
    PROVE  /\ FoundInfos = {} => task' = Idle
           /\ FoundInfos # {} =>
                task' = Store(AddNewNode(CHOOSE i \in FoundInfos : TRUE, task.snapshot, task.state))
BY DEF FindNewNodeInfo, FoundInfos

\* Where every member is at the address it started with.
HostsAtHome ==
    /\ cluster.live \subseteq InCluster
    /\ \A h \in InCluster : cluster.address[h] = HomeAddress[h]

\* They are the row of the one host at the address, where every host is at home.
LEMMA FoundOK ==
    ASSUME HostsAtHome, transport.host \in InCluster \ incomplete, InCluster \subseteq Hosts,
           HomeAddress[transport.host] = transport.address
    PROVE  LET here == {h \in InCluster \ incomplete : HomeAddress[h] = task.address}
           IN  /\ \A i \in FoundInfos : InfoOK(i) /\ i.rpc = task.address /\ i.host \in here
               /\ here # {} => FoundInfos # {}
<1> DEFINE found == FoundInfos
           here == {h \in InCluster \ incomplete : HomeAddress[h] = task.address}
           me == transport.host
<1>1. ASSUME NEW i \in found PROVE InfoOK(i) /\ i.rpc = task.address /\ i.host \in here
  <2>1. CASE task.address = transport.address
    <3>1. i = BuildNodeInfo(Row(me, "local"), task.address)
      BY <1>1, <2>1 DEF LocalRow, FoundInfos
    <3>2. me \in Hosts
      BY Zenon
    <3>3. InfoOK(i) /\ i.rpc = task.address /\ i.host = me
      BY <3>1, <3>2, RowOK
    <3> QED
      BY <2>1, <3>3
  <2>2. CASE task.address # transport.address
    <3>1. PICK r \in PeerRows : /\ BroadcastRpcAddress(r, transport.address) = task.address
                                /\ IsPeerRowValid(r) /\ i = BuildNodeInfo(r, task.address)
      BY <1>1, <2>2 DEF FindInPeers, FoundInfos
    <3>2. PICK h \in InCluster \ {me} : r = Row(h, "peers")
      BY <3>1 DEF PeerRows
    <3>3. InfoOK(i) /\ i.rpc = task.address /\ i.host = h
      BY <3>1, <3>2, RowOK
    <3>4. r.rpc_address = cluster.address[h] /\ r.complete = (h \notin incomplete) /\ r.table = "peers"
      BY <3>2, Zenon DEF Row
    <3>5. h \notin incomplete
      BY <3>1, <3>4, Zenon DEF IsPeerRowValid
    <3>6. cluster.address[h] = HomeAddress[h] /\ HomeAddress[h] # transport.address
      BY TopologyAssumption, Zenon DEF HostsAtHome
    <3>7. task.address = HomeAddress[h]
      BY <3>1, <3>4, <3>6, Zenon DEF BroadcastRpcAddress
    <3> QED
      BY <3>3, <3>5, <3>7
  <2> QED
    BY <2>1, <2>2, Zenon
<1>2. ASSUME NEW h \in here PROVE found # {}
  <2>1. CASE task.address = transport.address
    BY <2>1 DEF FoundInfos
  <2>2. CASE task.address # transport.address
    <3> DEFINE r == Row(h, "peers")
    <3>1. h # me /\ HomeAddress[h] # None /\ cluster.address[h] = HomeAddress[h]
      BY <1>2, <2>2, TopologyAssumption DEF HostsAtHome
    <3>2. r \in PeerRows
      BY <1>2, <3>1 DEF PeerRows
    <3>3. r.table = "peers" /\ r.rpc_address = task.address /\ r.complete /\ task.address # None
      BY <1>2, <3>1, Zenon DEF Row
    <3> HIDE DEF r
    <3>4. BroadcastRpcAddress(r, transport.address) = task.address /\ IsPeerRowValid(r)
      BY <2>2, <3>3 DEF BroadcastRpcAddress, IsPeerRowValid
    <3>5. BuildNodeInfo(r, task.address) \in FindInPeers(PeerRows, task.address, transport.address)
      BY <3>2, <3>4 DEF FindInPeers
    <3> QED
      BY <2>2, <3>5 DEF FoundInfos
  <2> QED
    BY <2>1, <2>2
<1> QED
  BY <1>1, <1>2, Zenon

\* refresh_node_infos reads one row for every host, and different addresses.
LEMMA FetchedOK ==
    ASSUME ServersOK, TransportOK, Alive
    PROVE  InfosOK(NodeInfos(LocalRow, PeerRows, transport.address))
<1> DEFINE me == transport.host
           local == BuildNodeInfo(LocalRow, transport.address)
           peer(h) == BuildNodeInfo(Row(h, "peers"), cluster.address[h])
<1>1. me \in InCluster /\ me \in Hosts
  BY DEF TransportOK, Alive, ServersOK
<1>2. InfoOK(local) /\ local.rpc = transport.address /\ local.host = me
  BY <1>1, RowOK DEF LocalRow
<1>3. ASSUME NEW h \in InCluster
      PROVE  InfoOK(peer(h)) /\ peer(h).rpc = cluster.address[h] /\ peer(h).host = h
  BY <1>3, RowOK DEF ServersOK
<1>4. ASSUME NEW i \in NodeInfos(LocalRow, PeerRows, transport.address)
      PROVE  i = local \/ \E h \in InCluster \ {me} :
                             i = peer(h) /\ cluster.address[h] # transport.address
  <2>1. NodeBroadcastRpcAddress(LocalRow, BroadcastRpcAddress(LocalRow, transport.address),
                                transport.address) = transport.address
    BY DEF NodeBroadcastRpcAddress, LocalRow, Row
  <2>2. CASE i = local
    BY <2>2
  <2>3. CASE i # local
    <3>1. PICK r \in PeerRows : /\ BroadcastRpcAddress(r, transport.address) # None
                                /\ i = BuildNodeInfo(r, r.rpc_address)
      BY <1>4, <2>1, <2>3 DEF NodeInfos
    <3>2. PICK h \in InCluster \ {me} : r = Row(h, "peers")
      BY <3>1 DEF PeerRows
    <3>3. r.rpc_address = cluster.address[h] /\ r.table # "local"
      BY <3>2 DEF Row
    <3>4. cluster.address[h] # transport.address
      BY <3>1, <3>3 DEF BroadcastRpcAddress
    <3> QED
      BY <3>1, <3>2, <3>3, <3>4
  <2> QED
    BY <2>2, <2>3
<1> HIDE DEF local, peer, me
<1>5. ASSUME NEW g \in InCluster, NEW h \in InCluster, g # h
      PROVE  cluster.address[g] # cluster.address[h]
  BY <1>5 DEF ServersOK
<1>6. \A i \in NodeInfos(LocalRow, PeerRows, transport.address) : InfoOK(i)
  BY <1>2, <1>3, <1>4
<1>7. ASSUME NEW i \in NodeInfos(LocalRow, PeerRows, transport.address),
             NEW j \in NodeInfos(LocalRow, PeerRows, transport.address), i # j
      PROVE  i.host # j.host /\ i.rpc # j.rpc
  <2>1. CASE i = local
    BY <1>2, <1>3, <1>4, <1>7, <2>1
  <2>2. CASE j = local
    BY <1>2, <1>3, <1>4, <1>7, <2>2
  <2>3. CASE i # local /\ j # local
    <3>1. PICK g \in InCluster \ {me} : i = peer(g)
      BY <1>4, <2>3
    <3>2. PICK h \in InCluster \ {me} : j = peer(h)
      BY <1>4, <2>3
    <3> QED
      BY <1>3, <1>5, <1>7, <3>1, <3>2
  <2> QED
    BY <2>1, <2>2, <2>3
<1> QED
  BY <1>6, <1>7 DEF InfosOK

\* A change of the cluster keeps addresses apart and the control connection's host.
LEMMA ChangeOK ==
    ASSUME IInv, NEW new, NEW address, NEW live, NEW keyspaces,
           Change(new, address, live, keyspaces), DOMAIN address \subseteq Hosts,
           \A g, h \in DOMAIN address : g # h => address[g] # address[h],
           \A h \in InCluster : Serving(h) => h \in DOMAIN address
    PROVE  IInv'
<1>1. cluster'.address = address
  BY DEF Change
<1>2. UNCHANGED <<metadata, control, transport, task>>
  BY DEF Change, controlVars
<1>3. ServersOK'
  BY <1>1 DEF ServersOK, InCluster
<1>4. TransportOK'
  <2>1. transport # None /\ transport.alive => transport.host \in DOMAIN address
    BY DEF IInv, TransportOK, Serving, Alive
  <2> QED
    BY <1>1, <1>2, <2>1 DEF IInv, TransportOK, InCluster
<1> QED
  BY <1>2, <1>3, <1>4 DEF IInv, ControlOK, TaskOK, At

\* Whatever the servers do, and wherever the control connection breaks.
LEMMA ServerStepOK == IInv /\ (ServerStep \/ SendError) => IInv'
<1> SUFFICES ASSUME IInv, ServerStep \/ SendError PROVE IInv'
  OBVIOUS
<1>0. /\ DOMAIN cluster.address \subseteq Hosts
      /\ \A g, h \in DOMAIN cluster.address : g # h => cluster.address[g] # cluster.address[h]
  BY DEF IInv, ServersOK, InCluster
<1>1. ASSUME NEW h \in Hosts, Join(h) PROVE IInv'
  <2> DEFINE address == [g \in InCluster \cup {h} |-> IF g = h THEN HomeAddress[h] ELSE cluster.address[g]]
  <2>1. /\ DOMAIN address \subseteq Hosts /\ InCluster \subseteq DOMAIN address
        /\ \A f, g \in DOMAIN address : f # g => address[f] # address[g]
    BY <1>0, <1>1 DEF Join, HostAt, InCluster
  <2>2. \E new, live, keyspaces : Change(new, address, live, keyspaces)
    BY <1>1, Zenon DEF Join
  <2> HIDE DEF address
  <2> QED
    BY <2>1, <2>2, ChangeOK
<1>2. ASSUME NEW h \in Hosts, Leave(h) PROVE IInv'
  <2> DEFINE address == [g \in InCluster \ {h} |-> cluster.address[g]]
  <2>1. /\ DOMAIN address \subseteq Hosts
        /\ \A f, g \in DOMAIN address : f # g => address[f] # address[g]
        /\ \A g \in InCluster : Serving(g) => g \in DOMAIN address
    BY <1>0, <1>2 DEF Leave, InCluster
  <2>2. \E new, live, keyspaces : Change(new, address, live, keyspaces)
    BY <1>2, Zenon DEF Leave
  <2> HIDE DEF address
  <2> QED
    BY <2>1, <2>2, ChangeOK
<1>3. ASSUME NEW h \in Hosts, NEW a \in Addresses, GoUp(h, a) PROVE IInv'
  <2> DEFINE address == [cluster.address EXCEPT ![h] = a]
  <2>1. /\ DOMAIN address \subseteq Hosts /\ InCluster \subseteq DOMAIN address
        /\ \A f, g \in DOMAIN address : f # g => address[f] # address[g]
    BY <1>0, <1>3 DEF GoUp, HostAt, InCluster
  <2>2. \E new, live, keyspaces : Change(new, address, live, keyspaces)
    BY <1>3 DEF GoUp
  <2> HIDE DEF address
  <2> QED
    BY <2>1, <2>2, ChangeOK
<1>4. ASSUME \E new, live, keyspaces : Change(new, cluster.address, live, keyspaces) PROVE IInv'
  BY <1>0, <1>4, ChangeOK DEF InCluster
<1>5. ASSUME Fail PROVE IInv'
  <2>1. TransportOK'
    BY <1>5, Zenon DEF Fail, Alive, IInv, TransportOK, serverVars, InCluster
  <2> QED
    BY <1>5, <2>1 DEF Fail, IInv, serverVars, controlVars, ServersOK, ControlOK, TaskOK, At, InCluster
<1>6. ASSUME SendError PROVE IInv'
  <2>1. TransportOK'
    BY <1>6, Zenon DEF SendError, Connected, IInv, TransportOK, serverVars, InCluster
  <2> QED
    BY <1>6, <2>1 DEF SendError, IInv, serverVars, controlVars, ServersOK, ControlOK, TaskOK, At, InCluster
<1>7. ASSUME NEW h \in Hosts, GoDown(h) PROVE IInv'
  BY <1>4, <1>7 DEF GoDown
<1>8. ASSUME NEW k \in Names, CreateKeyspace(k) \/ DropKeyspace(k) PROVE IInv'
  BY <1>4, <1>8 DEF CreateKeyspace, DropKeyspace
<1> QED
  BY <1>1, <1>2, <1>3, <1>5, <1>6, <1>7, <1>8 DEF ServerStep

\* The task of the control connection.
LEMMA ControlStepOK == IInv /\ ControlStep => IInv'
<1> SUFFICES ASSUME IInv, ControlStep PROVE IInv'
  OBVIOUS
<1> DEFINE Same == UNCHANGED <<cluster, task>>
<1>0. ASSUME Same, TransportOK', ControlOK', MetadataOK(metadata') PROVE IInv'
  BY <1>0 DEF IInv, ServersOK, InCluster, TaskOK
<1>1. ASSUME NEW pc, pc # "store", GoTo(pc) PROVE ControlOK'
  BY <1>1 DEF GoTo, IInv, ControlOK, At
<1>2. ASSUME UNCHANGED <<cluster, transport>> PROVE TransportOK'
  BY <1>2 DEF IInv, TransportOK, InCluster
<1>3. CASE CheckTransport
  BY <1>0, <1>1, <1>2, <1>3 DEF CheckTransport, controlOnly, serverVars, IInv
<1>4. CASE Register
  <2>1. TransportOK'
    BY <1>4 DEF Register, Alive, IInv, TransportOK, controlOnly, serverVars, InCluster
  <2> QED
    BY <1>0, <1>1, <1>4, <2>1 DEF Register, controlOnly, serverVars, IInv
<1>5. CASE ReceiveError
  BY <1>0, <1>1, <1>2, <1>5 DEF ReceiveError, controlOnly, serverVars, IInv
<1>6. CASE DropTransport
  <2>1. TransportOK'
    BY <1>6 DEF DropTransport, TransportOK
  <2> QED
    BY <1>0, <1>1, <1>6, <2>1 DEF DropTransport, controlOnly, serverVars, IInv
<1>7. CASE PlanNodes
  <2>1. ControlOK'
    BY <1>7, Zenon DEF PlanNodes, IInv, ControlOK, At
  <2> QED
    BY <1>0, <1>2, <1>7, <2>1 DEF PlanNodes, controlOnly, serverVars, IInv
<1>8. CASE AllFailed
  BY <1>0, <1>1, <1>2, <1>8 DEF AllFailed, controlOnly, serverVars, IInv
<1>9. ASSUME NEW a \in Addresses, Connect(a) PROVE IInv'
  <2>1. UNCHANGED <<cluster, task, metadata>>
    BY <1>9 DEF Connect, controlOnly, serverVars
  <2>2. CASE Reachable(a)
    <3>1. (CHOOSE h \in HostAt(a) : TRUE) \in InCluster
      BY <2>2 DEF Reachable, HostAt
    <3>2. ControlOK'
      BY <1>9, <2>2, Zenon DEF Connect, IInv, ControlOK, At
    <3>3. TransportOK'
      <4> DEFINE host == CHOOSE h \in HostAt(a) : TRUE
      <4>1. transport' = [address |-> a, host |-> host, alive |-> TRUE, registered |-> FALSE,
                          unsent |-> FALSE]
        BY <1>9, <2>2 DEF Connect
      <4>2. host \in InCluster'
        BY <2>1, <3>1 DEF InCluster
      <4> HIDE DEF host
      <4> QED
        BY <4>1, <4>2 DEF TransportOK
    <3> QED
      BY <1>0, <2>1, <3>2, <3>3 DEF IInv
  <2>3. CASE ~Reachable(a)
    <3>1. ControlOK'
      BY <1>9, <2>3 DEF Connect, IInv, ControlOK, At
    <3> QED
      BY <1>0, <1>2, <1>9, <2>1, <2>3, <3>1 DEF Connect, IInv
  <2> QED
    BY <2>2, <2>3
<1>10. CASE Fetch
  <2>1. UNCHANGED <<cluster, task, metadata, transport>>
    BY <1>10 DEF Fetch, serverVars
  <2>2. CASE Alive /\ IsPeerRowValid(LocalRow)
    <3>1. InfosOK(NodeInfos(LocalRow, PeerRows, transport.address))
      BY <2>2, FetchedOK DEF IInv
    <3>2. control' = [control EXCEPT !.pc = "store",
             !.fetched = [infos |-> NodeInfos(LocalRow, PeerRows, transport.address),
                          keyspaces |-> cluster.keyspaces]]
      BY <1>10, <2>2 DEF Fetch
    <3>3. ControlOK'
      BY <3>1, <3>2, Zenon DEF IInv, ControlOK, At
    <3> QED
      BY <1>0, <1>2, <2>1, <3>3 DEF IInv
  <2>3. CASE ~(Alive /\ IsPeerRowValid(LocalRow))
    <3>1. GoTo("connect")
      BY <1>10, <2>3 DEF Fetch
    <3> QED
      BY <1>0, <1>1, <1>2, <2>1, <3>1 DEF IInv
  <2> QED
    BY <2>2, <2>3
<1>11. CASE StoreRefresh
  <2>1. UNCHANGED <<cluster, task, transport>>
    BY <1>11 DEF StoreRefresh, serverVars
  <2>2. InfosOK(control.fetched.infos)
    BY <1>11 DEF StoreRefresh, IInv, ControlOK
  <2>3. MetadataOK(metadata')
    BY <1>11, <2>2, BuildInitialOK, RefreshOK DEF StoreRefresh
  <2>4. ControlOK'
    BY <1>11, Zenon DEF StoreRefresh, IInv, ControlOK, At
  <2> QED
    BY <1>0, <1>2, <2>1, <2>3, <2>4
<1> QED
  BY <1>3, <1>4, <1>5, <1>6, <1>7, <1>8, <1>9, <1>10, <1>11 DEF ControlStep

\* The task that applies events.
LEMMA EventStepOK == IInv /\ EventStep => IInv'
<1> SUFFICES ASSUME IInv, EventStep PROVE IInv'
  OBVIOUS
<1>0. ASSUME UNCHANGED <<cluster, transport, control>>, TaskOK', MetadataOK(metadata')
      PROVE  IInv'
  BY <1>0 DEF IInv, ServersOK, TransportOK, ControlOK, InCluster, At
<1>1. MetadataOK(metadata)
  BY DEF IInv
<1>2. ASSUME NEW pc, task'.pc = pc, pc \notin {"find", "store"} PROVE TaskOK'
  BY <1>2 DEF TaskOK
<1>3. ASSUME NEW m, MetadataOK(m), task' = Store(m) PROVE TaskOK'
  BY <1>3 DEF TaskOK, Store
<1>4. ASSUME NEW a, NEW s, ~HasNodeByRpcAddress(metadata, a), task' = FindInfo(a, s) PROVE TaskOK'
  BY <1>1, <1>4 DEF TaskOK, FindInfo, HasNodeByRpcAddress
<1>5. task' = Idle => TaskOK'
  BY DEF TaskOK, Idle
<1>6. CASE ProcessEvent
  <2> DEFINE e == Head(events)
  <2>1. ASSUME ProcessTopology(e) PROVE TaskOK'
    BY <1>1, <1>3, <1>4, <1>5, <2>1, CloneWithoutNodeOK DEF ProcessTopology
  <2>2. ASSUME ProcessStatus(e) PROVE TaskOK'
    <3>1. CASE ~HasNodeByRpcAddress(metadata, e.what)
      BY <1>4, <1>5, <2>2, <3>1 DEF ProcessStatus
    <3>2. CASE HasNodeByRpcAddress(metadata, e.what)
      <4> DEFINE node == FindNodeByRpcAddress(metadata, e.what)
      <4>1. \/ task' = Idle
            \/ \E s : task' = Store(CloneWithNode(metadata, CloneWithNodeState(node, s)))
        BY <2>2, <3>2 DEF ProcessStatus
      <4> QED
        BY <1>1, <1>3, <1>5, <3>2, <4>1, SetStateOK
    <3> QED
      BY <3>1, <3>2
  <2>3. ASSUME ProcessSchema(e) PROVE TaskOK'
    <3>1. CASE e.type = "Created"
      <4>1. task' = [pc |-> "query", keyspace |-> e.what]
        BY <2>3, <3>1 DEF ProcessSchema
      <4> QED
        BY <1>2, <4>1
    <3>2. CASE e.type # "Created"
      BY <1>1, <1>3, <2>3, <3>2, KeyspaceOK DEF ProcessSchema
    <3> QED
      BY <3>1, <3>2
  <2>4. TaskOK'
    BY <1>6, <2>1, <2>2, <2>3 DEF ProcessEvent
  <2> QED
    BY <1>0, <1>1, <1>6, <2>4 DEF ProcessEvent, serverVars, controlVars
<1>7. CASE FindNewNodeInfo
  <2> DEFINE found == IF ~Alive THEN {}
                      ELSE IF task.address = transport.address
                      THEN {BuildNodeInfo(LocalRow, task.address)}
                      ELSE FindInPeers(PeerRows, task.address, transport.address)
             info == CHOOSE i \in found : TRUE
  <2>1. task' = IF found = {} THEN Idle ELSE Store(AddNewNode(info, task.snapshot, task.state))
    BY <1>7 DEF FindNewNodeInfo
  <2>2. ASSUME NEW i \in found PROVE InfoOK(i) /\ i.rpc = task.address
    <3>1. transport.host \in Hosts
      BY <2>2 DEF Alive, IInv, TransportOK, ServersOK
    <3>2. CASE task.address = transport.address
      <4>1. i = BuildNodeInfo(Row(transport.host, "local"), task.address)
        BY <2>2, <3>2 DEF LocalRow
      <4> QED
        BY <3>1, <4>1, RowOK
    <3>3. CASE task.address # transport.address
      <4>1. PICK r \in PeerRows : i = BuildNodeInfo(r, task.address)
        BY <2>2, <3>3 DEF FindInPeers
      <4>2. PICK h \in Hosts : r = Row(h, "peers")
        BY <4>1 DEF PeerRows, IInv, ServersOK
      <4> QED
        BY <4>1, <4>2, RowOK
    <3> QED
      BY <3>2, <3>3
  <2>3. MetadataOK(task.snapshot) /\ HostsAt(task.snapshot, task.address) = {}
    BY <1>7 DEF FindNewNodeInfo, IInv, TaskOK
  <2> HIDE DEF found
  <2>4. ASSUME found # {} PROVE MetadataOK(AddNewNode(info, task.snapshot, task.state))
    <3>1. info \in found
      BY <2>4
    <3> HIDE DEF info
    <3>2. InfoOK(info) /\ info.rpc = task.address
      BY <2>2, <3>1
    <3> QED
      BY <2>3, <3>2, AddNewNodeOK
  <2>5. TaskOK'
    BY <1>3, <1>5, <2>1, <2>4
  <2> QED
    BY <1>0, <1>1, <1>7, <2>5 DEF FindNewNodeInfo, serverVars, controlVars
<1>8. CASE QueryKeyspace
  <2>1. TaskOK'
    BY <1>2, <1>5, <1>8 DEF QueryKeyspace
  <2> QED
    BY <1>0, <1>1, <1>8, <2>1 DEF QueryKeyspace, serverVars, controlVars
<1>9. CASE LoadMetadata
  <2>1. TaskOK'
    BY <1>1, <1>3, <1>9, KeyspaceOK DEF LoadMetadata
  <2> QED
    BY <1>0, <1>1, <1>9, <2>1 DEF LoadMetadata, serverVars, controlVars
<1>10. CASE StoreMetadata
  <2>1. MetadataOK(metadata')
    BY <1>10 DEF StoreMetadata, IInv, TaskOK
  <2> QED
    BY <1>0, <1>5, <1>10, <2>1 DEF StoreMetadata, serverVars, controlVars
<1> QED
  BY <1>6, <1>7, <1>8, <1>9, <1>10 DEF EventStep

\* The invariant holds at first.
LEMMA InitIInv == Init => IInv
<1> SUFFICES ASSUME Init PROVE IInv
  OBVIOUS
<1>1. ServersOK
  <2>1. cluster.address = [h \in Members |-> HomeAddress[h]]
    BY DEF Init
  <2>2. InCluster = Members /\ \A h \in Members : cluster.address[h] = HomeAddress[h]
    BY <2>1 DEF InCluster
  <2>3. Members \subseteq Hosts /\ \A g, h \in Hosts : g # h => HomeAddress[g] # HomeAddress[h]
    BY TopologyAssumption
  <2> QED
    BY <2>2, <2>3 DEF ServersOK
<1>2. NodesOK(NoNodes) /\ Distinct(NoNodes)
  BY DEF NoNodes, NodesOK, Distinct
<1>3. MetadataOK(metadata)
  BY <1>2, NewOK DEF Init, EmptyMetadata
<1> QED
  BY <1>1, <1>3 DEF Init, IInv, TransportOK, ControlOK, TaskOK, Idle, At

\* The invariant is inductive.
LEMMA Invariance == Spec => []IInv
<1>1. IInv /\ UNCHANGED vars => IInv'
  BY DEF vars, serverVars, controlVars, IInv, ServersOK, TransportOK, ControlOK, TaskOK, InCluster, At
<1>2. IInv /\ [Next]_vars => IInv'
  BY <1>1, ServerStepOK, ControlStepOK, EventStepOK DEF Next
<1> QED
  BY <1>2, InitIInv, PTL DEF Spec

-----------------------------------------------------------------------------
(***************************************************************************)
(* Theorems.                                                               *)
(***************************************************************************)
\* The ring of clone_with_node and of TokenMap::new is always that of the nodes,
\* whatever metadata the two tasks store over each other's.
THEOREM RingFollowsNodes == Spec => []RingIsNodes
<1>1. IInv => RingIsNodes
  BY DEF IInv, MetadataOK, RingIsNodes
<1> QED
  BY <1>1, Invariance, PTL

\* The nodes of the metadata are at different addresses: an address leads to one
\* node in find_node_by_rpc_address.
THEOREM AddressesAreDistinct == Spec => []OneNodePerAddress
<1>1. IInv => OneNodePerAddress
  BY DEF IInv, MetadataOK, Distinct, OneNodePerAddress
<1> QED
  BY <1>1, Invariance, PTL

\* ControlConnection::run completes the initialisation only after a refresh: the
\* ways to "register" lead through a stored refresh.
StartInv ==
    /\ control = [pc |-> control.pc, nodes |-> control.nodes, full |-> control.full,
                  fetched |-> control.fetched]
    /\ At("check") /\ Connected => did_initial_refresh
    /\ control.pc \in {"register", "listen", "drop"} => did_initial_refresh
    /\ SessionStartsWithMetadata

\* The application gets its session with metadata that was read at least once.
THEOREM SessionsHaveMetadata == Spec => []SessionStartsWithMetadata
<1>1. Init => StartInv
  BY DEF Init, StartInv, At, Connected, SessionStartsWithMetadata
<1>2. StartInv /\ [Next]_vars => StartInv'
  <2> SUFFICES ASSUME StartInv, [Next]_vars PROVE StartInv'
    OBVIOUS
  <2> USE DEF StartInv, At, GoTo, Connected, SessionStartsWithMetadata
  <2>1. CASE ControlStep
    <3>1. CASE CheckTransport
      BY <3>1 DEF CheckTransport, controlOnly
    <3>2. CASE Register
      BY <3>2 DEF Register, controlOnly
    <3>3. CASE ReceiveError
      BY <3>3 DEF ReceiveError, controlOnly
    <3>4. CASE DropTransport
      BY <3>4 DEF DropTransport, controlOnly
    <3>5. CASE PlanNodes
      BY <3>5, Zenon DEF PlanNodes, controlOnly
    <3>6. CASE AllFailed
      BY <3>6 DEF AllFailed, controlOnly
    <3>7. ASSUME NEW a \in Addresses, Connect(a) PROVE StartInv'
      BY <3>7, Zenon DEF Connect, controlOnly
    <3>8. CASE Fetch
      BY <3>8, Zenon DEF Fetch
    <3>9. CASE StoreRefresh
      BY <3>9, Zenon DEF StoreRefresh
    <3> QED
      BY <2>1, <3>1, <3>2, <3>3, <3>4, <3>5, <3>6, <3>7, <3>8, <3>9, Zenon DEF ControlStep
  <2>2. CASE ~ControlStep
    <3>1. UNCHANGED controlVars /\ (Connected' => Connected)
      <4>1. ASSUME NEW new, NEW address, NEW live, NEW keyspaces,
                   Change(new, address, live, keyspaces)
            PROVE  UNCHANGED controlVars /\ UNCHANGED transport
        BY <4>1 DEF Change
      <4>2. CASE ServerStep
        BY <2>2, <4>1, <4>2, Zenon DEF ServerStep, Join, Leave, GoDown, GoUp, CreateKeyspace, DropKeyspace,
                           Fail, Alive
      <4>3. CASE SendError
        BY <4>3 DEF SendError
      <4>4. CASE EventStep
        BY <4>4, Zenon DEF EventStep, ProcessEvent, FindNewNodeInfo, QueryKeyspace, LoadMetadata,
                    StoreMetadata
      <4> QED
        BY <2>2, <4>2, <4>3, <4>4 DEF Next, vars
    <3> QED
      BY <3>1 DEF controlVars
  <2> QED
    BY <2>1, <2>2
<1>3. StartInv => SessionStartsWithMetadata
  BY DEF StartInv
<1> QED
  BY <1>1, <1>2, <1>3, PTL DEF Spec
-----------------------------------------------------------------------------
(***************************************************************************)
(* The metadata follows the cluster.                                       *)
(***************************************************************************)
\* What is known of x is right, or will be once the events are applied: without
\* an event about x under way, x is applied if and only if it is present;
\* otherwise the last of these events says whether it is.
Told(s, on, off, x, present, applied) ==
    /\ (\A i \in 1..Len(s) : s[i] \notin {on, off}) => (x \in present <=> x \in applied)
    /\ \A i \in 1..Len(s) :
          s[i] \in {on, off} /\ (\A j \in (i + 1)..Len(s) : s[j] \notin {on, off})
              => (s[i] = on <=> x \in present)

\* Hosts and keyspaces of the metadata, once the task has finished its event.
AppliedHosts ==
    IF task.pc = "store" THEN DOMAIN task.new.nodes
    ELSE IF task.pc = "find"
    THEN DOMAIN metadata.nodes \cup {h \in InCluster \ incomplete : HomeAddress[h] = task.address}
    ELSE DOMAIN metadata.nodes
AppliedKeyspaces ==
    IF task.pc = "store" THEN task.new.keyspaces
    ELSE IF task.pc = "query"
    THEN (metadata.keyspaces \ {task.keyspace}) \cup (cluster.keyspaces \cap {task.keyspace})
    ELSE IF task.pc = "load" /\ task.exists THEN metadata.keyspaces \cup {task.keyspace}
    ELSE IF task.pc = "load" THEN metadata.keyspaces \ {task.keyspace}
    ELSE metadata.keyspaces

HostFollows(h) ==
    Told(events, Event("NewNode", HomeAddress[h]), Event("RemovedNode", HomeAddress[h]),
         h, InCluster, AppliedHosts)
KeyspaceFollows(k) ==
    Told(events, Event("Created", k), Event("Dropped", k), k, cluster.keyspaces, AppliedKeyspaces)

Events == [type : {"NewNode", "RemovedNode", "Up", "Down", "Created", "Dropped"},
           what : Addresses \cup Names]

Follows ==
    /\ events \in Seq(Events)
    /\ \A h \in Hosts \ incomplete : HostFollows(h)
    /\ \A k : KeyspaceFollows(k)

\* Nodes of hosts with complete rows, where they always are.
AtHome(nodes) == \A h \in DOMAIN nodes : nodes[h].rpc = HomeAddress[h] /\ h \notin incomplete
NodesAtHome ==
    /\ AtHome(metadata.nodes)
    /\ task.pc = "find" => task.snapshot = metadata
    /\ task.pc = "store" => AtHome(task.new.nodes)

\* The first control connection, from the plan to the registration for events.
FirstConnection ==
    /\ errors = 0
    /\ Connected => /\ transport \in Transports /\ transport.alive /\ ~transport.unsent
                    /\ transport.address = HomeAddress[transport.host]
                    /\ transport.registered <=> At("listen")
    /\ IF did_initial_refresh
       THEN control.pc \in {"check", "register", "listen"} /\ Connected /\ transport.host \notin incomplete
       ELSE control.pc \in {"check", "plan", "connect", "fetch", "store"} /\ (At("check") => ~Connected)
    /\ At("store") => Connected /\ transport.host \notin incomplete
    /\ ~At("listen") => events = <<>> /\ task = Idle

\* The rows that were fetched: those of the members, unless one came or went since.
RowsFollow ==
    At("store") =>
        /\ \A i \in control.fetched.infos : i.rpc = HomeAddress[i.host] /\ i.host \notin incomplete
        /\ ~missed => /\ HostsOf(control.fetched.infos) = InCluster \ incomplete
                      /\ control.fetched.keyspaces = cluster.keyspaces

FollowInv ==
    /\ failures \in Nat
    /\ failures = 0 /\ ~moved =>
          /\ HostsAtHome /\ FirstConnection /\ RowsFollow /\ NodesAtHome
          /\ did_initial_refresh /\ ~missed => Follows

\* Another event arrives.
LEMMA ToldOther ==
    ASSUME NEW E, NEW s \in Seq(E), NEW e \in E, NEW on, NEW off, NEW x,
           NEW p, NEW a, NEW q, NEW b, Told(s, on, off, x, p, a), e \notin {on, off},
           x \in q <=> x \in p, x \in b <=> x \in a
    PROVE  Told(Append(s, e), on, off, x, q, b)
<1> DEFINE t == Append(s, e)
<1>1. /\ Len(s) \in Nat /\ Len(t) = Len(s) + 1 /\ t[Len(s) + 1] = e
      /\ \A i \in 1..Len(s) : t[i] = s[i]
  OBVIOUS
<1> HIDE DEF t
<1>2. ASSUME \A i \in 1..Len(t) : t[i] \notin {on, off} PROVE x \in q <=> x \in b
  <2>1. \A i \in 1..Len(s) : s[i] \notin {on, off}
    BY <1>1, <1>2
  <2> QED
    BY <2>1 DEF Told
<1>3. ASSUME NEW i \in 1..Len(t), t[i] \in {on, off}, \A j \in (i + 1)..Len(t) : t[j] \notin {on, off}
      PROVE  t[i] = on <=> x \in q
  <2>1. i \in 1..Len(s)
    BY <1>1, <1>3
  <2>2. \A j \in (i + 1)..Len(s) : s[j] \notin {on, off}
    BY <1>1, <1>3, <2>1
  <2> QED
    BY <1>1, <1>3, <2>1, <2>2 DEF Told
<1>4. Told(t, on, off, x, q, b)
  BY <1>2, <1>3, Zenon DEF Told
<1> QED
  BY <1>4 DEF t

\* Another event arrives, and nothing else happens.
LEMMA ToldSkip ==
    ASSUME NEW s \in Seq(Events), NEW e \in Events, NEW on, NEW off, NEW x, NEW p, NEW a,
           Told(s, on, off, x, p, a), e \notin {on, off}
    PROVE  Told(Append(s, e), on, off, x, p, a)
BY ToldOther

\* An event about x arrives, and says what happened to x.
LEMMA ToldNew ==
    ASSUME NEW E, NEW s \in Seq(E), NEW e \in E, NEW on, NEW off, NEW x,
           NEW p, NEW a, e \in {on, off}, e = on <=> x \in p
    PROVE  Told(Append(s, e), on, off, x, p, a)
<1> DEFINE t == Append(s, e)
<1>1. Len(s) \in Nat /\ Len(t) = Len(s) + 1 /\ t[Len(s) + 1] = e
  OBVIOUS
<1> HIDE DEF t
<1>2. ~(\A i \in 1..Len(t) : t[i] \notin {on, off})
  BY <1>1
<1>3. ASSUME NEW i \in 1..Len(t), t[i] \in {on, off}, \A j \in (i + 1)..Len(t) : t[j] \notin {on, off}
      PROVE  t[i] = on <=> x \in p
  <2>1. i = Len(s) + 1
    BY <1>1, <1>3
  <2> QED
    BY <1>1, <2>1
<1>4. Told(t, on, off, x, p, a)
  BY <1>2, <1>3 DEF Told
<1> QED
  BY <1>4 DEF t

\* The first event is taken: it is about something else, or x is then as it says.
LEMMA ToldHead ==
    ASSUME NEW E, NEW s \in Seq(E), s # <<>>, NEW on, NEW off, NEW x,
           NEW p, NEW a, NEW b, Told(s, on, off, x, p, a),
           Head(s) \notin {on, off} => (x \in b <=> x \in a) \/ (x \in b <=> x \in p),
           Head(s) \in {on, off} /\ (Head(s) = on <=> x \in p) => (x \in b <=> x \in p)
    PROVE  Told(Tail(s), on, off, x, p, b)
<1> DEFINE t == Tail(s)
<1>1. /\ Len(s) \in Nat \ {0} /\ Len(t) = Len(s) - 1 /\ Head(s) = s[1]
      /\ \A i \in 1..Len(t) : t[i] = s[i + 1]
  OBVIOUS
<1> HIDE DEF t
<1>2. ASSUME \A i \in 1..Len(t) : t[i] \notin {on, off} PROVE x \in p <=> x \in b
  <2>1. \A j \in 2..Len(s) : s[j] \notin {on, off}
    <3> SUFFICES ASSUME NEW j \in 2..Len(s) PROVE s[j] \notin {on, off}
      OBVIOUS
    <3>1. j - 1 \in 1..Len(t) /\ (j - 1) + 1 = j
      BY <1>1
    <3>2. t[j - 1] = s[(j - 1) + 1]
      BY <1>1, <3>1
    <3> QED
      BY <1>2, <3>1, <3>2
  <2>2. CASE s[1] \in {on, off}
    <3>1. 1 \in 1..Len(s) /\ \A j \in (1 + 1)..Len(s) : s[j] \notin {on, off}
      BY <1>1, <2>1
    <3>2. s[1] = on <=> x \in p
      BY <2>2, <3>1 DEF Told
    <3> QED
      BY <1>1, <2>2, <3>2
  <2>3. CASE s[1] \notin {on, off}
    <3>1. \A j \in 1..Len(s) : s[j] \notin {on, off}
      BY <1>1, <2>1, <2>3
    <3> QED
      BY <1>1, <2>3, <3>1 DEF Told
  <2> QED
    BY <2>2, <2>3
<1>3. ASSUME NEW i \in 1..Len(t), t[i] \in {on, off}, \A j \in (i + 1)..Len(t) : t[j] \notin {on, off}
      PROVE  t[i] = on <=> x \in p
  <2>1. i + 1 \in 1..Len(s) /\ t[i] = s[i + 1]
    BY <1>1
  <2>2. ASSUME NEW j \in ((i + 1) + 1)..Len(s) PROVE s[j] \notin {on, off}
    <3>1. j - 1 \in (i + 1)..Len(t) /\ j - 1 \in 1..Len(t) /\ (j - 1) + 1 = j
      BY <1>1
    <3>2. t[j - 1] = s[(j - 1) + 1]
      BY <1>1, <3>1
    <3> QED
      BY <1>3, <3>1, <3>2
  <2> QED
    BY <1>3, <2>1, <2>2 DEF Told
<1>4. Told(t, on, off, x, p, b)
  BY <1>2, <1>3 DEF Told
<1> QED
  BY <1>4 DEF t

\* Every event was sent, since none was missed.
LEMMA Emitted ==
    ASSUME NEW new \in Seq(Events), events \in Seq(Events), Emit(new), ~missed'
    PROVE  Subscribed /\ ~missed /\ events' = events \o new
<1>1. Subscribed
  BY DEF Emit
<1> DEFINE all == events \o new
           lost == IF Len(all) > EventCapacity THEN Len(all) - EventCapacity ELSE 0
<1>2. events' = SubSeq(all, lost + 1, Len(all)) /\ ~missed /\ ~(lost > 0)
  <2>1. events' = SubSeq(all, lost + 1, Len(all)) /\ missed' = (missed \/ lost > 0)
    BY <1>1, Zenon DEF Emit
  <2> HIDE DEF lost
  <2> QED
    BY <2>1, Zenon
<1>3. all \in Seq(Events) /\ Len(all) \in Nat
  OBVIOUS
<1> HIDE DEF all
<1>4. lost = 0
  BY <1>2, <1>3, CapacityAssumption
<1>5. SubSeq(all, 1, Len(all)) = all
  BY <1>3
<1> HIDE DEF lost
<1> QED
  BY <1>1, <1>2, <1>4, <1>5 DEF all

\* A change of the cluster: what the events say of it is all there is to show.
LEMMA ChangeFollows ==
    ASSUME FollowInv, NEW new \in Seq(Events), NEW address, NEW live, NEW keyspaces,
           Change(new, address, live, keyspaces), HostsAtHome => live \subseteq DOMAIN address,
           HostsAtHome /\ ~moved' /\ Follows /\ events' = events \o new => Follows'
    PROVE  FollowInv'
<1>1. /\ UNCHANGED <<incomplete, metadata, control, did_initial_refresh, transport, errors, task, failures>>
      /\ Emit(new) /\ cluster'.address = address /\ cluster'.live = live
      /\ moved' = (moved \/ \E h \in DOMAIN address : address[h] # HomeAddress[h])
      /\ failures \in Nat
  BY DEF Change, controlVars, FollowInv
<1> SUFFICES ASSUME failures = 0, ~moved'
             PROVE  /\ HostsAtHome' /\ FirstConnection' /\ RowsFollow' /\ NodesAtHome'
                    /\ did_initial_refresh /\ ~missed' => Follows'
  BY <1>1, Zenon DEF FollowInv
<1>2. HostsAtHome /\ FirstConnection /\ RowsFollow /\ NodesAtHome
      /\ (did_initial_refresh /\ ~missed => Follows)
  <2>1. ~moved
    BY <1>1, Zenon
  <2> QED
    BY <2>1 DEF FollowInv
<1>3. HostsAtHome'
  <2>1. \A h \in DOMAIN address : address[h] = HomeAddress[h]
    BY <1>1, Zenon
  <2> QED
    BY <1>1, <1>2, <2>1, Zenon DEF HostsAtHome, InCluster
<1>4. ASSUME ~At("listen") PROVE events' = events /\ missed'
  BY <1>1, <1>2, <1>4, Zenon DEF Emit, Subscribed, FirstConnection, Connected
<1>5. FirstConnection'
  BY <1>1, <1>2, <1>4, Zenon DEF FirstConnection, Connected, At
<1>6. RowsFollow'
  BY <1>1, <1>2, <1>4, Zenon DEF RowsFollow, At
<1>7. NodesAtHome'
  BY <1>1, <1>2, Zenon DEF NodesAtHome, AtHome
<1>8. ASSUME did_initial_refresh, ~missed' PROVE Follows'
  <2>1. ~missed
    <3>1. missed' = TRUE \/ \E b : missed' = (missed \/ b)
      BY <1>1, Zenon DEF Emit
    <3> QED
      BY <1>8, <3>1, Zenon
  <2>2. Follows
    BY <1>2, <1>8, <2>1
  <2>3. events' = events \o new
    BY <1>1, <1>8, <2>2, Emitted, Zenon DEF Follows
  <2> QED
    BY <1>2, <2>2, <2>3
<1> QED
  BY <1>3, <1>5, <1>6, <1>7, <1>8

\* One event arrives, about no host: the members, and what is applied, stay.
LEMMA HostsUntold ==
    ASSUME Follows, NEW e \in Events, events' = Append(events, e),
           e.type \notin {"NewNode", "RemovedNode"},
           InCluster' = InCluster, UNCHANGED <<incomplete, metadata, task>>
    PROVE  \A h \in Hosts \ incomplete : HostFollows(h)'
<1> SUFFICES ASSUME NEW h \in Hosts \ incomplete PROVE HostFollows(h)'
  OBVIOUS
<1>1. AppliedHosts' = AppliedHosts
  BY DEF AppliedHosts
<1>2. e \notin {Event("NewNode", HomeAddress[h]), Event("RemovedNode", HomeAddress[h])}
  BY DEF Event
<1>3. HostFollows(h) /\ events \in Seq(Events)
  BY DEF Follows
<1> QED
  BY <1>1, <1>2, <1>3, ToldOther DEF HostFollows

\* One event arrives, about no keyspace.
LEMMA KeyspacesUntold ==
    ASSUME Follows, NEW e \in Events, events' = Append(events, e),
           e.type \notin {"Created", "Dropped"},
           cluster'.keyspaces = cluster.keyspaces, UNCHANGED <<metadata, task>>
    PROVE  \A k : KeyspaceFollows(k)'
<1> SUFFICES ASSUME NEW k PROVE KeyspaceFollows(k)'
  OBVIOUS
<1>1. AppliedKeyspaces' = AppliedKeyspaces
  BY DEF AppliedKeyspaces
<1>2. e \notin {Event("Created", k), Event("Dropped", k)}
  BY DEF Event
<1>3. KeyspaceFollows(k) /\ events \in Seq(Events)
  BY DEF Follows
<1> QED
  BY <1>1, <1>2, <1>3, ToldOther, Zenon DEF KeyspaceFollows

\* A host comes to the cluster, or leaves it.
LEMMA HostTold ==
    ASSUME HostsAtHome, Follows, NEW h \in Hosts, NEW e \in Events, UNCHANGED <<incomplete, metadata, task>>,
           \/ e = Event("NewNode", HomeAddress[h]) /\ InCluster' = InCluster \cup {h}
           \/ e = Event("RemovedNode", HomeAddress[h]) /\ InCluster' = InCluster \ {h}
    PROVE  \A g \in Hosts \ incomplete :
              Told(Append(events, e), Event("NewNode", HomeAddress[g]),
                   Event("RemovedNode", HomeAddress[g]), g, InCluster', AppliedHosts')
<1> SUFFICES ASSUME NEW g \in Hosts \ incomplete
             PROVE  Told(Append(events, e), Event("NewNode", HomeAddress[g]),
                         Event("RemovedNode", HomeAddress[g]), g, InCluster', AppliedHosts')
  OBVIOUS
<1>1. events \in Seq(Events) /\ HostFollows(g)
  BY DEF Follows
<1>2. CASE g = h
  <2>1. e \in {Event("NewNode", HomeAddress[g]), Event("RemovedNode", HomeAddress[g])}
    BY <1>2
  <2>2. e = Event("NewNode", HomeAddress[g]) <=> g \in InCluster'
    BY <1>2 DEF Event
  <2> QED
    BY <1>1, <2>1, <2>2, ToldNew
<1>3. CASE g # h
  <2>1. HomeAddress[g] # HomeAddress[h]
    BY <1>3, TopologyAssumption
  <2>2. e \notin {Event("NewNode", HomeAddress[g]), Event("RemovedNode", HomeAddress[g])}
    BY <2>1 DEF Event
  <2>3. g \in InCluster' <=> g \in InCluster
    BY <1>3
  <2>4. g \in AppliedHosts' <=> g \in AppliedHosts
    BY <2>3 DEF AppliedHosts
  <2> QED
    BY <1>1, <2>2, <2>3, <2>4, ToldOther DEF HostFollows
<1> QED
  BY <1>2, <1>3

\* Whatever the servers do, they tell of it.
LEMMA ServersAreHeard == IInv /\ FollowInv /\ (ServerStep \/ SendError) => FollowInv'
<1> SUFFICES ASSUME IInv, FollowInv, ServerStep \/ SendError PROVE FollowInv'
  OBVIOUS
<1>0. ASSUME NEW e, NEW address, NEW live, NEW keyspaces, Change(<<e>>, address, live, keyspaces),
             e \in Events, HostsAtHome => live \subseteq DOMAIN address,
             \/ e.type \notin {"NewNode", "RemovedNode"} /\ DOMAIN address = InCluster
             \/ \E h \in Hosts : e = Event("RemovedNode", HomeAddress[h]) /\ DOMAIN address = InCluster \ {h},
             \/ e.type \notin {"Created", "Dropped"} /\ keyspaces = cluster.keyspaces
             \/ e = Event("Created", e.what) /\ keyspaces = cluster.keyspaces \cup {e.what}
             \/ e = Event("Dropped", e.what) /\ keyspaces = cluster.keyspaces \ {e.what}
      PROVE  FollowInv'
  <2>1. /\ UNCHANGED <<incomplete, metadata, task>> /\ InCluster' = DOMAIN address
        /\ cluster'.keyspaces = keyspaces
    BY <1>0, Zenon DEF Change, InCluster
  <2>2. <<e>> \in Seq(Events)
    BY <1>0
  <2>3. ASSUME HostsAtHome, Follows, events' = events \o <<e>> PROVE Follows'
    <3>1. events' = Append(events, e) /\ events' \in Seq(Events) /\ events \in Seq(Events)
      BY <1>0, <2>3 DEF Follows
    <3>2. \A h \in Hosts \ incomplete : HostFollows(h)'
      <4>1. CASE e.type \notin {"NewNode", "RemovedNode"} /\ DOMAIN address = InCluster
        BY <1>0, <2>1, <2>3, <3>1, <4>1, HostsUntold, Zenon
      <4>2. ASSUME NEW h \in Hosts, e = Event("RemovedNode", HomeAddress[h]), DOMAIN address = InCluster \ {h}
            PROVE  \A g \in Hosts \ incomplete : HostFollows(g)'
        <5>1. e = Event("RemovedNode", HomeAddress[h]) /\ InCluster' = InCluster \ {h}
          BY <2>1, <4>2
        <5>2. \A g \in Hosts \ incomplete :
                 Told(Append(events, e), Event("NewNode", HomeAddress[g]),
                      Event("RemovedNode", HomeAddress[g]), g, InCluster', AppliedHosts')
          BY <1>0, <2>1, <2>3, <4>2, <5>1, HostTold, Zenon
        <5> QED
          BY <3>1, <5>2, Zenon DEF HostFollows
      <4> QED
        BY <1>0, <4>1, <4>2, Zenon
    <3>3. ASSUME NEW k PROVE KeyspaceFollows(k)'
      <4>0. KeyspaceFollows(k)
        BY <2>3 DEF Follows
      <4>1. CASE e.type \notin {"Created", "Dropped"} /\ keyspaces = cluster.keyspaces
        BY <1>0, <2>1, <2>3, <3>1, <4>1, KeyspacesUntold, Zenon
      <4>2. CASE k = e.what /\ ~(e.type \notin {"Created", "Dropped"} /\ keyspaces = cluster.keyspaces)
        <5>1. /\ e \in {Event("Created", k), Event("Dropped", k)}
              /\ e = Event("Created", k) <=> k \in cluster'.keyspaces
          BY <1>0, <2>1, <4>2 DEF Event
        <5>0. e \in Events
          BY <1>0, Zenon
        <5>2. Told(Append(events, e), Event("Created", k), Event("Dropped", k), k,
                   cluster'.keyspaces, AppliedKeyspaces')
          BY <3>1, <5>0, <5>1, ToldNew
        <5> QED
          BY <3>1, <5>2, Zenon DEF KeyspaceFollows
      <4>3. CASE k # e.what
        <5>1. e \notin {Event("Created", k), Event("Dropped", k)}
          BY <4>3 DEF Event
        <5>2. k \in cluster'.keyspaces <=> k \in cluster.keyspaces
          BY <1>0, <2>1, <4>3, Zenon
        <5>3. k \in AppliedKeyspaces' <=> k \in AppliedKeyspaces
          BY <2>1, <5>2 DEF AppliedKeyspaces
        <5> QED
          BY <1>0, <3>1, <4>0, <5>1, <5>2, <5>3, ToldOther, Zenon DEF KeyspaceFollows
      <4> QED
        BY <4>1, <4>2, <4>3
    <3> QED
      BY <2>1, <3>1, <3>2, <3>3 DEF Follows
  <2>4. HostsAtHome /\ ~moved' /\ Follows /\ events' = events \o <<e>> => Follows'
    BY <2>3
  <2> QED
    BY <1>0, <2>2, <2>4, ChangeFollows, Zenon
<1>1. ASSUME moved' \/ failures # 0, UNCHANGED failures PROVE FollowInv'
  BY <1>1 DEF FollowInv
<1>2. ASSUME NEW new, NEW address, NEW live, NEW keyspaces, Change(new, address, live, keyspaces),
             ~(moved' \/ failures # 0)
      PROVE  HostsAtHome
  <2>1. ~moved
    <3>1. moved' = (moved \/ \E h \in DOMAIN address : address[h] # HomeAddress[h])
      BY <1>2 DEF Change
    <3> QED
      BY <1>2, <3>1, Zenon
  <2> QED
    BY <1>2, <2>1 DEF FollowInv
<1>3. \A a \in Addresses \cup Names : \A t \in {"NewNode", "RemovedNode", "Up", "Down", "Created", "Dropped"} :
         Event(t, a) \in Events /\ Event(t, a).type = t /\ Event(t, a).what = a
  BY DEF Event, Events
<1>4. InCluster \subseteq Hosts /\ HomeAddress \in [Hosts -> Addresses]
  BY TopologyAssumption DEF IInv, ServersOK
<1>5. ASSUME NEW h \in Hosts, Join(h) PROVE FollowInv'
  <2> DEFINE new == Event("NewNode", HomeAddress[h])
             up == Event("Up", HomeAddress[h])
             address == [g \in InCluster \cup {h} |-> IF g = h THEN HomeAddress[h] ELSE cluster.address[g]]
  <2>1. Change(<<new, up>>, address, cluster.live \cup {h}, cluster.keyspaces)
    BY <1>5, Zenon DEF Join
  <2>2. new \in Events /\ up \in Events /\ up.type = "Up" /\ new.type = "NewNode"
    BY <1>3, <1>4
  <2>3. <<new, up>> \in Seq(Events)
    BY <2>2
  <2>4. /\ UNCHANGED <<incomplete, metadata, task>> /\ InCluster' = InCluster \cup {h}
        /\ cluster'.keyspaces = cluster.keyspaces
    BY <2>1, Zenon DEF Change, InCluster
  <2>5. ASSUME HostsAtHome, Follows, events' = events \o <<new, up>> PROVE Follows'
    <3> HIDE DEF new, up, address
    <3>1. /\ events' = Append(Append(events, new), up) /\ events' \in Seq(Events)
          /\ events \in Seq(Events) /\ Append(events, new) \in Seq(Events)
      BY <2>2, <2>5 DEF Follows
    <3>2. ASSUME NEW g \in Hosts \ incomplete PROVE HostFollows(g)'
      <4>1. Told(Append(events, new), Event("NewNode", HomeAddress[g]),
                 Event("RemovedNode", HomeAddress[g]), g, InCluster', AppliedHosts')
        <5>1. new = Event("NewNode", HomeAddress[h])
          BY DEF new
        <5> QED
          BY <2>2, <2>4, <2>5, <5>1, HostTold, Zenon
      <4>2. up \notin {Event("NewNode", HomeAddress[g]), Event("RemovedNode", HomeAddress[g])}
        BY <2>2 DEF Event
      <4>3. Told(Append(Append(events, new), up), Event("NewNode", HomeAddress[g]),
                 Event("RemovedNode", HomeAddress[g]), g, InCluster', AppliedHosts')
        BY <2>2, <3>1, <4>1, <4>2, ToldSkip, Zenon
      <4> QED
        BY <3>1, <4>3, Zenon DEF HostFollows
    <3>3. ASSUME NEW k PROVE KeyspaceFollows(k)'
      <4>1. KeyspaceFollows(k)
        BY <2>5 DEF Follows
      <4>2. AppliedKeyspaces' = AppliedKeyspaces
        BY <2>4 DEF AppliedKeyspaces
      <4>3. /\ up \notin {Event("Created", k), Event("Dropped", k)}
            /\ new \notin {Event("Created", k), Event("Dropped", k)}
        BY <2>2 DEF Event
      <4>4. Told(Append(events, new), Event("Created", k), Event("Dropped", k), k, cluster.keyspaces,
                 AppliedKeyspaces)
        BY <2>2, <3>1, <4>1, <4>3, ToldOther, Zenon DEF KeyspaceFollows
      <4>5. Told(Append(Append(events, new), up), Event("Created", k), Event("Dropped", k), k,
                 cluster.keyspaces, AppliedKeyspaces)
        BY <2>2, <3>1, <4>3, <4>4, ToldSkip, Zenon
      <4> QED
        BY <2>4, <3>1, <4>2, <4>5, Zenon DEF KeyspaceFollows
    <3> QED
      BY <2>4, <3>1, <3>2, <3>3 DEF Follows
  <2>6. HostsAtHome => cluster.live \cup {h} \subseteq DOMAIN address
    BY DEF HostsAtHome
  <2>7. HostsAtHome /\ ~moved' /\ Follows /\ events' = events \o <<new, up>> => Follows'
    BY <2>5
  <2> HIDE DEF new, up, address
  <2> QED
    BY <2>1, <2>3, <2>6, <2>7, ChangeFollows, Zenon
<1>6. ASSUME NEW h \in Hosts, Leave(h) PROVE FollowInv'
  <2> DEFINE e == Event("RemovedNode", cluster.address[h])
             address == [g \in InCluster \ {h} |-> cluster.address[g]]
  <2>1. Change(<<e>>, address, cluster.live \ {h}, cluster.keyspaces) /\ UNCHANGED failures
    BY <1>6, Zenon DEF Leave, Change
  <2>2. CASE HostsAtHome
    <3>1. e = Event("RemovedNode", HomeAddress[h])
      BY <1>6, <2>2 DEF Leave, HostsAtHome
    <3>2. e \in Events /\ e.type = "RemovedNode"
      BY <1>3, <1>4, <3>1
    <3> HIDE DEF e
    <3>3. DOMAIN address = InCluster \ {h} /\ (HostsAtHome => cluster.live \ {h} \subseteq DOMAIN address)
      BY DEF HostsAtHome
    <3> HIDE DEF address
    <3> QED
      BY <1>0, <2>1, <3>1, <3>2, <3>3, Zenon
  <2> QED
    BY <1>1, <1>2, <2>1, <2>2, Zenon
<1>7. ASSUME NEW h \in Hosts, NEW t \in {"Up", "Down"}, NEW a, NEW address, NEW live,
             Change(<<Event(t, a)>>, address, live, cluster.keyspaces), DOMAIN address = InCluster,
             HostsAtHome => a \in Addresses /\ live \subseteq DOMAIN address
      PROVE  FollowInv'
  <2>1. CASE HostsAtHome
    BY <1>0, <1>3, <1>7, <2>1, Zenon
  <2>2. UNCHANGED failures
    BY <1>7, Zenon DEF Change
  <2> QED
    BY <1>1, <1>2, <1>7, <2>1, <2>2
<1>8. ASSUME NEW h \in Hosts, GoDown(h) PROVE FollowInv'
  <2>1. /\ Change(<<Event("Down", cluster.address[h])>>, cluster.address, cluster.live \ {h}, cluster.keyspaces)
        /\ h \in cluster.live
    BY <1>8 DEF GoDown
  <2>2. HostsAtHome => cluster.address[h] \in Addresses /\ cluster.live \ {h} \subseteq DOMAIN cluster.address
    BY <1>4, <2>1 DEF HostsAtHome, InCluster
  <2>3. \E a, address, live :
           /\ Change(<<Event("Down", a)>>, address, live, cluster.keyspaces) /\ DOMAIN address = InCluster
           /\ HostsAtHome => a \in Addresses /\ live \subseteq DOMAIN address
    BY <2>1, <2>2 DEF InCluster
  <2>4. "Down" \in {"Up", "Down"}
    OBVIOUS
  <2> QED
    BY <1>7, <2>3, <2>4, Zenon
<1>9. ASSUME NEW h \in Hosts, NEW a \in Addresses, GoUp(h, a) PROVE FollowInv'
  <2>1. /\ Change(<<Event("Up", a)>>, [cluster.address EXCEPT ![h] = a], cluster.live \cup {h}, cluster.keyspaces)
        /\ h \in InCluster
    BY <1>9 DEF GoUp
  <2>2. /\ DOMAIN [cluster.address EXCEPT ![h] = a] = InCluster
        /\ HostsAtHome => cluster.live \cup {h} \subseteq DOMAIN [cluster.address EXCEPT ![h] = a]
    BY <2>1 DEF InCluster, HostsAtHome
  <2> QED
    BY <1>7, <2>1, <2>2, Zenon
<1>10. ASSUME NEW k \in Names, CreateKeyspace(k) PROVE FollowInv'
  <2>1. Change(<<Event("Created", k)>>, cluster.address, cluster.live, cluster.keyspaces \cup {k})
    BY <1>10 DEF CreateKeyspace
  <2>2. HostsAtHome => cluster.live \subseteq DOMAIN cluster.address
    BY DEF InCluster, HostsAtHome
  <2> QED
    BY <1>0, <1>3, <2>1, <2>2 DEF InCluster
<1>11. ASSUME NEW k \in Names, DropKeyspace(k) PROVE FollowInv'
  <2>1. Change(<<Event("Dropped", k)>>, cluster.address, cluster.live, cluster.keyspaces \ {k})
    BY <1>11 DEF DropKeyspace
  <2>2. HostsAtHome => cluster.live \subseteq DOMAIN cluster.address
    BY DEF InCluster, HostsAtHome
  <2> QED
    BY <1>0, <1>3, <2>1, <2>2 DEF InCluster
<1>12. ASSUME Fail PROVE FollowInv'
  BY <1>12 DEF Fail, FollowInv
<1>13. ASSUME SendError PROVE FollowInv'
  <2>1. ~(failures = 0 /\ ~moved)
    BY <1>13 DEF SendError, Connected, FollowInv, FirstConnection
  <2> QED
    BY <1>13, <2>1 DEF SendError, FollowInv, serverVars
<1> QED
  BY <1>5, <1>6, <1>8, <1>9, <1>10, <1>11, <1>12, <1>13 DEF ServerStep

\* The rows of one refresh are those of the members with complete rows.
LEMMA FetchedFollows ==
    ASSUME IInv, HostsAtHome, Alive, transport.address = HomeAddress[transport.host],
           IsPeerRowValid(LocalRow)
    PROVE  /\ transport.host \notin incomplete
           /\ HostsOf(NodeInfos(LocalRow, PeerRows, transport.address)) = InCluster \ incomplete
           /\ \A i \in NodeInfos(LocalRow, PeerRows, transport.address) : i.rpc = HomeAddress[i.host]
<1> DEFINE me == transport.host
           local == BuildNodeInfo(LocalRow, transport.address)
           peer(h) == BuildNodeInfo(Row(h, "peers"), cluster.address[h])
           infos == NodeInfos(LocalRow, PeerRows, transport.address)
<1>1. me \in InCluster /\ me \in Hosts /\ InCluster \subseteq Hosts
  BY DEF IInv, TransportOK, Alive, ServersOK
<1>2. me \notin incomplete
  BY Zenon DEF IsPeerRowValid, LocalRow, Row
<1>3. local.rpc = HomeAddress[me] /\ local.host = me
  BY <1>1, RowOK DEF LocalRow
<1>4. ASSUME NEW h \in InCluster
      PROVE  peer(h).rpc = HomeAddress[h] /\ peer(h).host = h
  <2>1. h \in Hosts /\ cluster.address[h] = HomeAddress[h]
    BY <1>1, <1>4, Zenon DEF HostsAtHome
  <2>2. peer(h).rpc = cluster.address[h] /\ peer(h).host = h
    BY <2>1, RowOK
  <2> QED
    BY <2>1, <2>2, Zenon
<1>5. local \in infos
  <2>1. NodeBroadcastRpcAddress(LocalRow, BroadcastRpcAddress(LocalRow, transport.address),
                                transport.address) = transport.address
    BY Zenon DEF NodeBroadcastRpcAddress, LocalRow, Row
  <2> QED
    BY <2>1 DEF NodeInfos
<1>6. ASSUME NEW i \in infos PROVE i = local \/ \E h \in InCluster \ incomplete : i = peer(h)
  <2>1. NodeBroadcastRpcAddress(LocalRow, BroadcastRpcAddress(LocalRow, transport.address),
                                transport.address) = transport.address
    BY Zenon DEF NodeBroadcastRpcAddress, LocalRow, Row
  <2>2. CASE i # local
    <3>1. PICK r \in PeerRows : IsPeerRowValid(r) /\ i = BuildNodeInfo(r, r.rpc_address)
      BY <1>6, <2>1, <2>2 DEF NodeInfos
    <3>2. PICK h \in InCluster \ {me} : r = Row(h, "peers")
      BY <3>1 DEF PeerRows
    <3>3. r.rpc_address = cluster.address[h] /\ h \notin incomplete
      BY <3>1, <3>2, Zenon DEF Row, IsPeerRowValid
    <3> QED
      BY <3>1, <3>2, <3>3, Zenon
  <2> QED
    BY <2>2, Zenon
<1>7. ASSUME NEW h \in InCluster \ incomplete, h # me PROVE peer(h) \in infos
  <2> DEFINE r == Row(h, "peers")
  <2>1. /\ r \in PeerRows /\ r.host = h /\ r.rpc_address = HomeAddress[h] /\ r.complete
        /\ r.table = "peers"
    BY <1>7, Zenon DEF PeerRows, Row, HostsAtHome
  <2>2. HomeAddress[h] # None /\ HomeAddress[h] # transport.address
    BY <1>1, <1>7, TopologyAssumption
  <2>3. LocalRow.host = me
    BY Zenon DEF LocalRow, Row
  <2> HIDE DEF r
  <2>4. /\ r.host # LocalRow.host /\ IsPeerRowValid(r)
        /\ BroadcastRpcAddress(r, transport.address) # None
    BY <1>7, <2>1, <2>2, <2>3 DEF IsPeerRowValid, BroadcastRpcAddress
  <2>5. BuildNodeInfo(r, r.rpc_address) \in infos
    BY <2>1, <2>4 DEF NodeInfos
  <2> QED
    BY <1>7, <2>1, <2>5, Zenon DEF r, HostsAtHome
<1> HIDE DEF local, peer, infos, me
<1>8. \A i \in infos : i.rpc = HomeAddress[i.host] /\ i.host \in InCluster \ incomplete
  BY <1>1, <1>2, <1>3, <1>4, <1>6
<1>9. \A h \in InCluster \ incomplete : \E i \in infos : i.host = h
  BY <1>3, <1>4, <1>5, <1>7
<1>10. HostsOf(infos) = InCluster \ incomplete
  BY <1>8, <1>9 DEF HostsOf
<1> QED
  BY <1>2, <1>8, <1>10, Zenon DEF infos, me

\* The task of the control connection, from the plan to the registration.
LEMMA ControlFollows == IInv /\ FollowInv /\ ControlStep => FollowInv'
<1> SUFFICES ASSUME IInv, FollowInv, ControlStep PROVE FollowInv'
  OBVIOUS
<1>0. UNCHANGED <<cluster, incomplete, moved, events, task, failures>>
  BY Zenon DEF ControlStep, CheckTransport, Register, ReceiveError, DropTransport, PlanNodes, AllFailed,
         Connect, Fetch, StoreRefresh, controlOnly, serverVars
<1> SUFFICES ASSUME failures = 0, ~moved
             PROVE  /\ FirstConnection' /\ RowsFollow' /\ NodesAtHome'
                    /\ did_initial_refresh' /\ ~missed' => Follows'
  <2>1. HostsAtHome => HostsAtHome'
    BY <1>0, Zenon DEF HostsAtHome, InCluster
  <2> QED
    BY <1>0, <2>1 DEF FollowInv
<1>1. /\ HostsAtHome /\ FirstConnection /\ RowsFollow /\ NodesAtHome
      /\ did_initial_refresh /\ ~missed => Follows
  BY DEF FollowInv
<1>2. ASSUME UNCHANGED metadata PROVE NodesAtHome'
  BY <1>0, <1>1, <1>2, Zenon DEF NodesAtHome, AtHome
<1>3. ASSUME UNCHANGED <<metadata, did_initial_refresh, missed>>
      PROVE  did_initial_refresh' /\ ~missed' => Follows'
  <2>1. Follows => Follows'
    BY <1>0, <1>3, Zenon DEF Follows, HostFollows, KeyspaceFollows, AppliedHosts, AppliedKeyspaces, InCluster
  <2> QED
    BY <1>1, <1>3, <2>1
<1>4. control = [pc |-> control.pc, nodes |-> control.nodes, full |-> control.full,
                 fetched |-> control.fetched]
  BY DEF IInv, ControlOK
<1>5. ASSUME NEW c, UNCHANGED <<metadata, did_initial_refresh, missed, errors, transport>>,
             control'.pc = c, control.pc # "listen", c \notin {"listen", "store"},
             did_initial_refresh => c \in {"check", "register"},
             ~did_initial_refresh => c \in {"plan", "connect", "fetch"}
      PROVE  /\ FirstConnection' /\ RowsFollow' /\ NodesAtHome'
             /\ did_initial_refresh' /\ ~missed' => Follows'
  <2>1. FirstConnection'
    BY <1>0, <1>1, <1>5, Zenon DEF FirstConnection, Connected, At
  <2>2. RowsFollow'
    BY <1>5 DEF RowsFollow, At
  <2> QED
    BY <1>2, <1>3, <1>5, <2>1, <2>2
<1>6. CASE CheckTransport
  <2>1. control'.pc = (IF Connected THEN "register" ELSE "plan") /\ control.pc = "check"
    BY <1>4, <1>6 DEF CheckTransport, GoTo, At
  <2>2. did_initial_refresh <=> Connected
    BY <1>1, <2>1 DEF FirstConnection, At
  <2> QED
    BY <1>5, <1>6, <2>1, <2>2 DEF CheckTransport, controlOnly
<1>7. CASE Register
  <2>1. Connected /\ transport.alive /\ did_initial_refresh /\ events = <<>> /\ task = Idle
    BY <1>1, <1>7 DEF Register, FirstConnection, At
  <2>2. Alive
    BY <2>1 DEF Alive, Connected
  <2>3. /\ control'.pc = "listen" /\ transport' = [transport EXCEPT !.registered = TRUE]
        /\ UNCHANGED <<metadata, did_initial_refresh, missed, errors>>
    BY <1>4, <1>7, <2>2 DEF Register, GoTo, controlOnly
  <2>4. /\ transport' # None /\ transport'.alive = transport.alive
        /\ transport'.address = transport.address /\ transport'.host = transport.host
        /\ transport'.unsent = transport.unsent /\ transport'.registered = TRUE
        /\ transport' \in Transports
    <3>1. transport \in Transports
      BY <1>1, <2>1 DEF FirstConnection
    <3>2. transport' \in Transports
      BY <2>3, <3>1, Zenon DEF Transports
    <3> QED
      BY <2>3, <3>1, <3>2, TopologyAssumption, Zenon DEF Transports
  <2>5. FirstConnection'
    BY <1>0, <1>1, <2>1, <2>3, <2>4 DEF FirstConnection, Connected, At
  <2>6. RowsFollow'
    BY <2>3 DEF RowsFollow, At
  <2> QED
    BY <1>2, <1>3, <2>3, <2>5, <2>6
<1>8. ASSUME ReceiveError PROVE FALSE
  BY <1>1, <1>8 DEF ReceiveError, FirstConnection
<1>9. ASSUME DropTransport PROVE FALSE
  BY <1>1, <1>9 DEF DropTransport, FirstConnection, At
<1>10. CASE PlanNodes
  <2>1. control'.pc = "connect" /\ control.pc = "plan"
    BY <1>4, <1>10 DEF PlanNodes, At
  <2>2. ~did_initial_refresh
    BY <1>1, <2>1 DEF FirstConnection
  <2> QED
    BY <1>5, <1>10, <2>1, <2>2 DEF PlanNodes, controlOnly
<1>11. CASE AllFailed
  <2>1. control'.pc = "plan" /\ control.pc = "connect"
    BY <1>4, <1>11 DEF AllFailed, GoTo, At
  <2>2. ~did_initial_refresh
    BY <1>1, <2>1 DEF FirstConnection
  <2> QED
    BY <1>5, <1>11, <2>1, <2>2 DEF AllFailed, controlOnly
<1>12. ASSUME NEW a \in Addresses, Connect(a)
       PROVE  /\ FirstConnection' /\ RowsFollow' /\ NodesAtHome'
              /\ did_initial_refresh' /\ ~missed' => Follows'
  <2>1. control.pc = "connect" /\ UNCHANGED <<metadata, did_initial_refresh, missed, errors>>
    BY <1>12 DEF Connect, At, controlOnly
  <2>2. ~did_initial_refresh
    BY <1>1, <2>1 DEF FirstConnection
  <2>3. CASE Reachable(a)
    <3> DEFINE host == CHOOSE h \in HostAt(a) : TRUE
    <3>1. /\ control'.pc = "fetch"
          /\ transport' = [address |-> a, host |-> host, alive |-> TRUE, registered |-> FALSE,
                           unsent |-> FALSE]
      BY <1>4, <1>12, <2>3, Zenon DEF Connect
    <3>2. host \in Hosts /\ HomeAddress[host] = a
      <4>1. host \in HostAt(a)
        BY <2>3 DEF Reachable
      <4> HIDE DEF host
      <4> QED
        BY <1>1, <4>1 DEF HostAt, HostsAtHome, IInv, ServersOK
    <3> HIDE DEF host
    <3>3. transport' \in Transports
      BY <1>12, <3>1, <3>2 DEF Transports
    <3>4. FirstConnection'
      BY <1>0, <1>1, <2>1, <2>2, <3>1, <3>2, <3>3, Zenon DEF FirstConnection, Connected, At
    <3>5. RowsFollow'
      BY <3>1, Zenon DEF RowsFollow, At
    <3> QED
      BY <1>2, <1>3, <2>1, <3>4, <3>5
  <2>4. CASE ~Reachable(a)
    <3>1. control'.pc = "connect" /\ UNCHANGED transport
      BY <1>4, <1>12, <2>1, <2>4 DEF Connect
    <3> QED
      BY <1>5, <2>1, <2>2, <3>1
  <2> QED
    BY <2>3, <2>4
<1>13. CASE Fetch
  <2>1. control.pc = "fetch" /\ UNCHANGED <<metadata, did_initial_refresh, errors, transport>>
    BY <1>13 DEF Fetch, At
  <2>2. ~did_initial_refresh
    BY <1>1, <2>1 DEF FirstConnection
  <2>3. CASE Alive /\ IsPeerRowValid(LocalRow)
    <3> DEFINE infos == NodeInfos(LocalRow, PeerRows, transport.address)
    <3>1. /\ control'.pc = "store" /\ control'.fetched.infos = infos
          /\ control'.fetched.keyspaces = cluster.keyspaces
      <4> DEFINE fetched == [infos |-> infos, keyspaces |-> cluster.keyspaces]
      <4>1. control' = [control EXCEPT !.pc = "store", !.fetched = fetched]
        BY <1>13, <2>3 DEF Fetch
      <4>2. fetched.infos = infos /\ fetched.keyspaces = cluster.keyspaces
        OBVIOUS
      <4> HIDE DEF infos, fetched
      <4>3. control'.pc = "store" /\ control'.fetched = fetched
        BY <1>4, <4>1
      <4> QED
        BY <4>2, <4>3
    <3>2. Connected /\ transport.address = HomeAddress[transport.host]
      BY <1>1, <2>3 DEF Alive, Connected, FirstConnection
    <3>3. /\ transport.host \notin incomplete /\ HostsOf(infos) = InCluster \ incomplete
          /\ \A i \in infos : i.rpc = HomeAddress[i.host]
      BY <1>1, <2>3, <3>2, FetchedFollows, Zenon
    <3> HIDE DEF infos
    <3>4. \A i \in infos : i.host \notin incomplete
      BY <3>3 DEF HostsOf
    <3>5. FirstConnection'
      BY <1>0, <1>1, <2>1, <2>2, <3>1, <3>2, <3>3, Zenon DEF FirstConnection, Connected, At
    <3>6. RowsFollow'
      BY <1>0, <3>1, <3>3, <3>4, Zenon DEF RowsFollow, At, InCluster
    <3> QED
      BY <1>2, <2>1, <2>2, <3>5, <3>6
  <2>4. CASE ~(Alive /\ IsPeerRowValid(LocalRow))
    <3>1. control'.pc = "connect" /\ UNCHANGED missed
      BY <1>4, <1>13, <2>4 DEF Fetch, GoTo
    <3> QED
      BY <1>5, <2>1, <2>2, <3>1
  <2> QED
    BY <2>3, <2>4
<1>14. CASE StoreRefresh
  <2>1. control.pc = "store" /\ UNCHANGED <<errors, transport, missed>> /\ did_initial_refresh'
    BY <1>14 DEF StoreRefresh, At
  <2>2. /\ ~did_initial_refresh /\ events = <<>> /\ task = Idle /\ Connected
        /\ transport.host \notin incomplete
    BY <1>1, <2>1 DEF FirstConnection, At
  <2> DEFINE infos == control.fetched.infos
  <2>3. /\ metadata' = BuildInitialMetadata(infos, control.fetched.keyspaces, ContactPoints)
        /\ control'.pc = "check"
    BY <1>4, <1>14, <2>2 DEF StoreRefresh
  <2>4. InfosOK(infos)
    BY <2>1 DEF IInv, ControlOK, At
  <2>5. IsMadeOf(metadata', infos) /\ metadata'.keyspaces = control.fetched.keyspaces
    BY <2>3, <2>4, BuildInitialOK, ZenonT(20), SMTT(20)
  <2>6. \A i \in infos : i.rpc = HomeAddress[i.host] /\ i.host \notin incomplete
    BY <1>1, <2>1 DEF RowsFollow, At
  <2>7. ~missed => HostsOf(infos) = InCluster \ incomplete /\ control.fetched.keyspaces = cluster.keyspaces
    BY <1>1, <2>1 DEF RowsFollow, At
  <2> HIDE DEF infos
  <2>8. AtHome(metadata.nodes)'
    <3> SUFFICES ASSUME NEW h \in DOMAIN metadata'.nodes
                 PROVE  metadata'.nodes[h].rpc = HomeAddress[h] /\ h \notin incomplete
      BY <1>0 DEF AtHome
    <3>1. h \in HostsOf(infos) /\ metadata'.nodes[h].rpc = InfoOf(infos, h).rpc
      BY <2>5 DEF IsMadeOf
    <3>2. InfoOf(infos, h) \in infos /\ InfoOf(infos, h).host = h
      BY <2>4, <3>1, InfoOfOK
    <3> QED
      BY <2>6, <3>1, <3>2
  <2>9. NodesAtHome'
    BY <1>0, <2>2, <2>8 DEF NodesAtHome, Idle
  <2>10. FirstConnection'
    BY <1>0, <1>1, <2>1, <2>2, <2>3, Zenon DEF FirstConnection, Connected, At
  <2>11. RowsFollow'
    BY <2>3 DEF RowsFollow, At
  <2>12. ASSUME ~missed PROVE Follows'
    <3>1. AppliedHosts' = InCluster \ incomplete /\ AppliedKeyspaces' = cluster.keyspaces
      BY <1>0, <2>2, <2>5, <2>7, <2>12, Zenon DEF AppliedHosts, AppliedKeyspaces, Idle, IsMadeOf
    <3>2. events' = <<>> /\ InCluster' = InCluster /\ cluster' = cluster /\ incomplete' = incomplete
      BY <1>0, <2>2 DEF InCluster
    <3>3. \A h \in Hosts \ incomplete : HostFollows(h)'
      BY <3>1, <3>2 DEF HostFollows, Told
    <3>4. \A k : KeyspaceFollows(k)'
      BY <3>1, <3>2 DEF KeyspaceFollows, Told
    <3>5. events' \in Seq(Events)
      BY <3>2
    <3> QED
      BY <3>2, <3>3, <3>4, <3>5 DEF Follows
  <2> QED
    BY <2>1, <2>9, <2>10, <2>11, <2>12
<1> QED
  BY <1>6, <1>7, <1>8, <1>9, <1>10, <1>11, <1>12, <1>13, <1>14, Zenon DEF ControlStep

\* Where every node is at home, the node at the home of a host is that of the host.
LEMMA NodeAtHome ==
    ASSUME NEW m, MetadataOK(m), AtHome(m.nodes), NEW h \in Hosts
    PROVE  HasNodeByRpcAddress(m, HomeAddress[h]) <=> h \in DOMAIN m.nodes
<1>1. ASSUME NEW g \in HostsAt(m, HomeAddress[h]) PROVE g = h /\ g \in DOMAIN m.nodes
  <2>1. g \in DOMAIN m.nodes /\ HomeAddress[g] = HomeAddress[h] /\ g \in Hosts
    BY <1>1, Zenon DEF HostsAt, AtHome, MetadataOK, NodesOK
  <2> QED
    BY <2>1, TopologyAssumption
<1>2. h \in DOMAIN m.nodes => h \in HostsAt(m, HomeAddress[h])
  BY DEF HostsAt, AtHome
<1> QED
  BY <1>1, <1>2 DEF HasNodeByRpcAddress

\* Metadata with one node more, or one anew, where it is at home.
LEMMA PutNode ==
    ASSUME NEW m, AtHome(m.nodes), NEW n, n.rpc = HomeAddress[n.host], n.host \notin incomplete
    PROVE  /\ DOMAIN CloneWithNode(m, n).nodes = DOMAIN m.nodes \cup {n.host}
           /\ AtHome(CloneWithNode(m, n).nodes) /\ CloneWithNode(m, n).keyspaces = m.keyspaces
<1> DEFINE nodes == [g \in DOMAIN m.nodes \cup {n.host} |-> IF g = n.host THEN n ELSE m.nodes[g]]
<1>1. CloneWithNode(m, n).nodes = nodes /\ CloneWithNode(m, n).keyspaces = m.keyspaces
  BY Zenon DEF CloneWithNode
<1>2. DOMAIN nodes = DOMAIN m.nodes \cup {n.host} /\ AtHome(nodes)
  BY Zenon DEF AtHome
<1> QED
  BY <1>1, <1>2, Zenon

\* Another state of a node: the same hosts at the same addresses.
LEMMA SetStateNodes ==
    ASSUME NEW m, MetadataOK(m), AtHome(m.nodes), NEW a, HasNodeByRpcAddress(m, a), NEW s
    PROVE  LET n == CloneWithNodeState(FindNodeByRpcAddress(m, a), s)
           IN  /\ DOMAIN CloneWithNode(m, n).nodes = DOMAIN m.nodes
               /\ AtHome(CloneWithNode(m, n).nodes) /\ CloneWithNode(m, n).keyspaces = m.keyspaces
<1> DEFINE n == CloneWithNodeState(FindNodeByRpcAddress(m, a), s)
<1>1. PICK h \in HostsAt(m, a) : FindNodeByRpcAddress(m, a) = m.nodes[h]
  BY Zenon DEF HasNodeByRpcAddress, FindNodeByRpcAddress
<1>2. h \in DOMAIN m.nodes /\ NodeOK(h, m.nodes[h])
  BY <1>1, Zenon DEF HostsAt, MetadataOK, NodesOK
<1>3. NodeOK(h, n) /\ n.rpc = m.nodes[h].rpc
  <2>1. n = CloneWithNodeState(m.nodes[h], s)
    BY <1>1, Zenon
  <2> HIDE DEF n
  <2> QED
    BY <1>2, <2>1, NodeStateOK, Zenon
<1>4. n.host = h /\ n.rpc = HomeAddress[n.host] /\ n.host \notin incomplete
  BY <1>2, <1>3, Zenon DEF NodeOK, AtHome
<1>5. DOMAIN m.nodes \cup {n.host} = DOMAIN m.nodes
  BY <1>2, <1>4, Zenon
<1> QED
  BY <1>4, <1>5, PutNode, Zenon

\* Without the node at an address: the other hosts.
LEMMA RemoveNodes ==
    ASSUME NEW m, AtHome(m.nodes), NEW a, NEW new, new = CloneWithoutNode(m, a)
    PROVE  /\ DOMAIN new.nodes = {h \in DOMAIN m.nodes : HomeAddress[h] # a}
           /\ AtHome(new.nodes) /\ new.keyspaces = m.keyspaces
<1> DEFINE nodes == [h \in {g \in DOMAIN m.nodes : m.nodes[g].rpc # a} |-> m.nodes[h]]
<1>1. DOMAIN nodes = {h \in DOMAIN m.nodes : HomeAddress[h] # a} /\ AtHome(nodes)
  BY Zenon DEF AtHome
<1>2. new.nodes = nodes /\ new.keyspaces = m.keyspaces
  BY DEF CloneWithoutNode, MetadataNew
<1> QED
  BY <1>1, <1>2, Zenon

\* Metadata after the host at an address was added: that of one more host.
LEMMA AddNodes ==
    ASSUME NEW m, MetadataOK(m), AtHome(m.nodes), NEW i, InfoOK(i), HostsAt(m, i.rpc) = {},
           i.rpc = HomeAddress[i.host], i.host \notin incomplete, NEW s
    PROVE  /\ DOMAIN AddNewNode(i, m, s).nodes = DOMAIN m.nodes \cup {i.host}
           /\ AtHome(AddNewNode(i, m, s).nodes) /\ AddNewNode(i, m, s).keyspaces = m.keyspaces
<1> DEFINE n == NewNode(i, None, s)
<1>1. \A g \in DOMAIN m.nodes : m.nodes[g].rpc # i.rpc
  BY Zenon DEF HostsAt
<1>2. AddNewNode(i, m, s) = CloneWithNode(m, n)
  BY <1>1, Zenon DEF AddNewNode, CloneWithNodeInfoAndState
<1>3. n.host = i.host /\ n.rpc = i.rpc
  BY Zenon DEF NewNode
<1> HIDE DEF n
<1>4. n.rpc = HomeAddress[n.host] /\ n.host \notin incomplete
  BY <1>3, Zenon
<1>5. /\ DOMAIN CloneWithNode(m, n).nodes = DOMAIN m.nodes \cup {n.host}
      /\ AtHome(CloneWithNode(m, n).nodes) /\ CloneWithNode(m, n).keyspaces = m.keyspaces
  BY <1>4, PutNode, Zenon
<1> QED
  BY <1>2, <1>3, <1>5, Zenon

\* An event is taken: what is then applied is what it says.
LEMMA ProcessFollows ==
    ASSUME IInv, NodesAtHome, ProcessEvent
    PROVE  NodesAtHome' /\ (Follows => Follows')
<1> DEFINE e == Head(events)
           a == e.what
           D == DOMAIN metadata.nodes
           K == metadata.keyspaces
           here == {h \in InCluster \ incomplete : HomeAddress[h] = a}
<1>0. /\ UNCHANGED <<cluster, incomplete, metadata>> /\ task.pc = "idle" /\ events # <<>>
      /\ events' = Tail(events) /\ InCluster' = InCluster
  BY DEF ProcessEvent, serverVars, InCluster
<1>1. MetadataOK(metadata) /\ AtHome(metadata.nodes)
  BY DEF IInv, NodesAtHome
<1>2. AppliedHosts = D /\ AppliedKeyspaces = K
  BY <1>0 DEF AppliedHosts, AppliedKeyspaces
<1>3. ASSUME task' = Idle PROVE NodesAtHome' /\ AppliedHosts' = D /\ AppliedKeyspaces' = K
  BY <1>0, <1>1, <1>3, Zenon DEF NodesAtHome, AtHome, AppliedHosts, AppliedKeyspaces, Idle
<1>4. ASSUME NEW t, task' = FindInfo(a, t)
      PROVE  NodesAtHome' /\ AppliedHosts' = D \cup here /\ AppliedKeyspaces' = K
  BY <1>0, <1>1, <1>4, Zenon DEF NodesAtHome, AtHome, AppliedHosts, AppliedKeyspaces, FindInfo
<1>5. ASSUME NEW new, task' = Store(new), AtHome(new.nodes)
      PROVE  NodesAtHome' /\ AppliedHosts' = DOMAIN new.nodes /\ AppliedKeyspaces' = new.keyspaces
  BY <1>0, <1>1, <1>5, Zenon DEF NodesAtHome, AtHome, AppliedHosts, AppliedKeyspaces, Store
<1>6. ASSUME e.type \in {"NewNode", "RemovedNode"}, ProcessTopology(e)
      PROVE  /\ NodesAtHome' /\ AppliedKeyspaces' = K
             /\ \/ e.type = "NewNode" /\ HasNodeByRpcAddress(metadata, a) /\ AppliedHosts' = D
                \/ e.type = "NewNode" /\ AppliedHosts' = D \cup here
                \/ e.type = "RemovedNode" /\ ~HasNodeByRpcAddress(metadata, a) /\ AppliedHosts' = D
                \/ e.type = "RemovedNode" /\ AppliedHosts' = {h \in D : HomeAddress[h] # a}
  <2>1. CASE e.type = "NewNode" /\ HasNodeByRpcAddress(metadata, a)
    BY <1>3, <1>6, <2>1, Zenon DEF ProcessTopology
  <2>2. CASE e.type = "NewNode" /\ ~HasNodeByRpcAddress(metadata, a)
    BY <1>4, <1>6, <2>2, Zenon DEF ProcessTopology
  <2>3. CASE e.type = "RemovedNode" /\ ~HasNodeByRpcAddress(metadata, a)
    BY <1>3, <1>6, <2>3, Zenon DEF ProcessTopology
  <2>4. CASE e.type = "RemovedNode" /\ HasNodeByRpcAddress(metadata, a)
    <3> DEFINE new == CloneWithoutNode(metadata, a)
    <3>1. task' = Store(new)
      BY <1>6, <2>4, Zenon DEF ProcessTopology
    <3>2. DOMAIN new.nodes = {h \in D : HomeAddress[h] # a} /\ AtHome(new.nodes) /\ new.keyspaces = K
      BY <1>1, RemoveNodes
    <3> HIDE DEF new
    <3> QED
      BY <1>5, <2>4, <3>1, <3>2, Zenon
  <2> QED
    BY <1>6, <2>1, <2>2, <2>3, <2>4, Zenon
<1>7. ASSUME e.type \in {"Up", "Down"}, ProcessStatus(e)
      PROVE  /\ NodesAtHome' /\ AppliedKeyspaces' = K
             /\ \/ AppliedHosts' = D
                \/ ~HasNodeByRpcAddress(metadata, a) /\ AppliedHosts' = D \cup here
  <2>1. CASE ~HasNodeByRpcAddress(metadata, a)
    <3>1. task' = Idle \/ task' = FindInfo(a, "Up")
      BY <1>7, <2>1, Zenon DEF ProcessStatus
    <3> QED
      BY <1>3, <1>4, <2>1, <3>1
  <2>2. CASE HasNodeByRpcAddress(metadata, a)
    <3>1. \/ task' = Idle
          \/ \E s : task' = Store(CloneWithNode(metadata,
                                      CloneWithNodeState(FindNodeByRpcAddress(metadata, a), s)))
      BY <1>7, <2>2, Zenon DEF ProcessStatus
    <3>2. ASSUME NEW s,
                 task' = Store(CloneWithNode(metadata,
                                   CloneWithNodeState(FindNodeByRpcAddress(metadata, a), s)))
          PROVE  NodesAtHome' /\ AppliedHosts' = D /\ AppliedKeyspaces' = K
      <4> DEFINE new == CloneWithNode(metadata, CloneWithNodeState(FindNodeByRpcAddress(metadata, a), s))
      <4>1. DOMAIN new.nodes = D /\ AtHome(new.nodes) /\ new.keyspaces = K
        BY <1>1, <2>2, SetStateNodes, Zenon
      <4> HIDE DEF new
      <4>2. task' = Store(new)
        BY <3>2, Zenon DEF new
      <4> QED
        BY <1>5, <4>1, <4>2, Zenon
    <3> QED
      BY <1>3, <3>1, <3>2, Zenon
  <2> QED
    BY <2>1, <2>2, Zenon
<1>8. ASSUME e.type \in {"Created", "Dropped"}, ProcessSchema(e)
      PROVE  /\ NodesAtHome' /\ AppliedHosts' = D
             /\ \/ e.type = "Created" /\ AppliedKeyspaces' = (K \ {a}) \cup (cluster.keyspaces \cap {a})
                \/ e.type = "Dropped" /\ AppliedKeyspaces' = K \ {a}
  <2>1. CASE e.type = "Created"
    <3>1. task' = [pc |-> "query", keyspace |-> a]
      BY <1>8, <2>1, Zenon DEF ProcessSchema
    <3> HIDE DEF a
    <3> QED
      BY <1>0, <1>1, <2>1, <3>1, Zenon DEF NodesAtHome, AtHome, AppliedHosts, AppliedKeyspaces
  <2>2. CASE e.type = "Dropped"
    <3> DEFINE new == CloneWithoutKeyspace(metadata, a)
    <3>1. task' = Store(new)
      BY <1>8, <2>2 DEF ProcessSchema
    <3>2. new.nodes = metadata.nodes /\ new.keyspaces = K \ {a}
      BY <1>1 DEF CloneWithoutKeyspace, MetadataOK, IsMetadata
    <3> HIDE DEF new
    <3> QED
      BY <1>1, <1>5, <2>2, <3>1, <3>2
  <2> QED
    BY <1>8, <2>1, <2>2
<1>9. \/ e.type \in {"NewNode", "RemovedNode"} /\ ProcessTopology(e)
      \/ e.type \in {"Up", "Down"} /\ ProcessStatus(e)
      \/ e.type \in {"Created", "Dropped"} /\ ProcessSchema(e)
  BY DEF ProcessEvent
<1>10. NodesAtHome'
  BY <1>6, <1>7, <1>8, <1>9, Zenon
<1>11. ASSUME Follows PROVE Follows'
  <2>0. events \in Seq(Events) /\ e \in Events /\ events' \in Seq(Events)
    BY <1>0, <1>11 DEF Follows
  <2>1. ASSUME NEW t, NEW b PROVE e = Event(t, b) <=> e.type = t /\ a = b
    BY <2>0 DEF Event, Events
  <2> HIDE DEF e, a, D, K, here
  <2>2. ASSUME NEW h \in Hosts \ incomplete PROVE HostFollows(h)'
    <3> DEFINE on == Event("NewNode", HomeAddress[h])
               off == Event("RemovedNode", HomeAddress[h])
    <3>1. Told(events, on, off, h, InCluster, D)
      BY <1>2, <1>11 DEF Follows, HostFollows
    <3>2. /\ e = on <=> e.type = "NewNode" /\ a = HomeAddress[h]
          /\ e = off <=> e.type = "RemovedNode" /\ a = HomeAddress[h]
      BY <2>1
    <3>3. HasNodeByRpcAddress(metadata, HomeAddress[h]) <=> h \in D
      BY <1>1, NodeAtHome DEF D
    <3>4. h \in here <=> h \in InCluster /\ a = HomeAddress[h]
      BY DEF here
    <3> HIDE DEF on, off
    <3>5. /\ e \notin {on, off} => (h \in AppliedHosts' <=> h \in D) \/ (h \in AppliedHosts' <=> h \in InCluster)
          /\ e \in {on, off} /\ (e = on <=> h \in InCluster) => (h \in AppliedHosts' <=> h \in InCluster)
      <4>1. CASE e.type \in {"NewNode", "RemovedNode"} /\ ProcessTopology(e)
        BY <1>6, <3>2, <3>3, <3>4, <4>1
      <4>2. CASE e.type \in {"Up", "Down"} /\ ProcessStatus(e)
        BY <1>7, <3>2, <3>3, <3>4, <4>2
      <4>3. CASE e.type \in {"Created", "Dropped"} /\ ProcessSchema(e)
        BY <1>8, <3>2, <4>3
      <4> QED
        BY <1>9, <4>1, <4>2, <4>3
    <3>6. Told(Tail(events), on, off, h, InCluster, AppliedHosts')
      BY <1>0, <2>0, <3>1, <3>5, ToldHead, Zenon DEF e
    <3> QED
      BY <1>0, <3>6 DEF HostFollows, on, off
  <2>3. ASSUME NEW k PROVE KeyspaceFollows(k)'
    <3> DEFINE on == Event("Created", k)
               off == Event("Dropped", k)
               C == cluster.keyspaces
    <3>1. Told(events, on, off, k, C, K)
      BY <1>2, <1>11 DEF Follows, KeyspaceFollows
    <3>2. /\ e = on <=> e.type = "Created" /\ a = k
          /\ e = off <=> e.type = "Dropped" /\ a = k
      BY <2>1
    <3> HIDE DEF on, off
    <3>3. /\ e \notin {on, off} => (k \in AppliedKeyspaces' <=> k \in K)
          /\ e \in {on, off} /\ (e = on <=> k \in C) => (k \in AppliedKeyspaces' <=> k \in C)
      <4>1. CASE e.type \in {"NewNode", "RemovedNode"} /\ ProcessTopology(e)
        BY <1>6, <3>2, <4>1, Zenon
      <4>2. CASE e.type \in {"Up", "Down"} /\ ProcessStatus(e)
        BY <1>7, <3>2, <4>2, Zenon
      <4>3. CASE e.type \in {"Created", "Dropped"} /\ ProcessSchema(e)
        BY <1>8, <3>2, <4>3
      <4> QED
        BY <1>9, <4>1, <4>2, <4>3, Zenon
    <3> HIDE DEF C
    <3>4. Told(Tail(events), on, off, k, C, AppliedKeyspaces')
      BY <1>0, <2>0, <3>1, <3>3, ToldHead DEF e
    <3> QED
      BY <1>0, <3>4 DEF KeyspaceFollows, on, off, C
  <2> QED
    BY <1>0, <2>0, <2>2, <2>3 DEF Follows
<1> QED
  BY <1>10, <1>11

\* The task goes on with an event: in the end it applies what it was to apply.
LEMMA TaskFollows ==
    ASSUME IInv, HostsAtHome, FirstConnection, NodesAtHome, Connected, transport.host \notin incomplete,
           FindNewNodeInfo \/ QueryKeyspace \/ LoadMetadata \/ StoreMetadata
    PROVE  NodesAtHome' /\ (Follows => Follows')
<1>0. UNCHANGED <<cluster, incomplete, events>> /\ InCluster' = InCluster
  BY Zenon DEF FindNewNodeInfo, QueryKeyspace, LoadMetadata, StoreMetadata, serverVars, InCluster
<1>1. ASSUME NodesAtHome', AppliedHosts' = AppliedHosts, AppliedKeyspaces' = AppliedKeyspaces
      PROVE  NodesAtHome' /\ (Follows => Follows')
  BY <1>0, <1>1, Zenon DEF Follows, HostFollows, KeyspaceFollows
<1>2. MetadataOK(metadata) /\ AtHome(metadata.nodes) /\ Alive
  BY DEF IInv, NodesAtHome, FirstConnection, Alive, Connected
<1>3. CASE FindNewNodeInfo
  <2> DEFINE found == FoundInfos
             info == CHOOSE i \in found : TRUE
             new == AddNewNode(info, metadata, task.state)
             here == {h \in InCluster \ incomplete : HomeAddress[h] = task.address}
             me == transport.host
  <2>1. /\ task.pc = "find" /\ task.snapshot = metadata /\ UNCHANGED metadata
        /\ HostsAt(metadata, task.address) = {}
    BY <1>3, Zenon DEF FindNewNodeInfo, NodesAtHome, IInv, TaskOK
  <2>2. (found = {} => task' = Idle) /\ (found # {} => task' = Store(new))
    BY <1>2, <1>3, <2>1, FindSteps, Zenon
  <2>3. me \in InCluster /\ InCluster \subseteq Hosts /\ HomeAddress[me] = transport.address
    BY <1>2, Zenon DEF IInv, TransportOK, Alive, ServersOK, FirstConnection, Connected
  <2>4. ASSUME NEW i \in found PROVE InfoOK(i) /\ i.rpc = task.address /\ i.host \in here
    BY <1>2, <2>3, <2>4, FoundOK, Zenon
  <2>5. ASSUME NEW h \in here PROVE found # {}
    BY <1>2, <2>3, <2>5, FoundOK, Zenon
  <2>6. ASSUME NEW g \in here, NEW h \in here PROVE g = h
    BY <2>3, <2>6, TopologyAssumption
  <2>7. AppliedHosts = DOMAIN metadata.nodes \cup here /\ AppliedKeyspaces = metadata.keyspaces
    BY <2>1 DEF AppliedHosts, AppliedKeyspaces
  <2> HIDE DEF found, here, me
  <2>8. CASE found = {}
    <3>1. task' = Idle /\ here = {}
      BY <2>2, <2>5, <2>8
    <3>2. AppliedHosts' = DOMAIN metadata.nodes /\ AppliedKeyspaces' = metadata.keyspaces /\ NodesAtHome'
      BY <1>0, <1>2, <2>1, <3>1, Zenon DEF AppliedHosts, AppliedKeyspaces, NodesAtHome, AtHome, Idle
    <3> QED
      BY <1>1, <2>7, <3>1, <3>2
  <2>9. CASE found # {}
    <3>1. info \in found /\ task' = Store(new)
      BY <2>2, <2>9
    <3>2. InfoOK(info) /\ info.rpc = task.address /\ info.host \in here
      BY <2>4, <3>1
    <3>3. info.rpc = HomeAddress[info.host] /\ info.host \notin incomplete /\ here = {info.host}
      BY <2>6, <3>2, Zenon DEF here
    <3> HIDE DEF info
    <3>4. /\ DOMAIN new.nodes = DOMAIN metadata.nodes \cup {info.host}
          /\ AtHome(new.nodes) /\ new.keyspaces = metadata.keyspaces
      <4>1. HostsAt(metadata, info.rpc) = {}
        BY <2>1, <3>2, Zenon
      <4> QED
        BY <1>2, <3>2, <3>3, <4>1, AddNodes, Zenon
    <3> HIDE DEF new
    <3>5. AppliedHosts' = DOMAIN new.nodes /\ AppliedKeyspaces' = new.keyspaces /\ NodesAtHome'
      BY <1>0, <1>2, <2>1, <3>1, <3>4, Zenon DEF AppliedHosts, AppliedKeyspaces, NodesAtHome, AtHome, Store
    <3> QED
      BY <1>1, <2>7, <3>3, <3>4, <3>5, Zenon
  <2> QED
    BY <2>8, <2>9
<1>4. CASE QueryKeyspace
  <2>1. /\ task.pc = "query" /\ UNCHANGED metadata
        /\ task' = [pc |-> "load", keyspace |-> task.keyspace,
                    exists |-> task.keyspace \in cluster.keyspaces]
    BY <1>2, <1>4, Zenon DEF QueryKeyspace
  <2>2. AppliedHosts' = AppliedHosts /\ NodesAtHome'
    BY <1>0, <1>2, <2>1, Zenon DEF AppliedHosts, NodesAtHome, AtHome
  <2>3. /\ task'.pc = "load" /\ task'.keyspace = task.keyspace
        /\ task'.exists <=> task.keyspace \in cluster.keyspaces
    BY <2>1, Zenon
  <2>4. ASSUME NEW k PROVE k \in AppliedKeyspaces' <=> k \in AppliedKeyspaces
    BY <1>0, <2>1, <2>3, Zenon DEF AppliedKeyspaces
  <2> QED
    BY <1>1, <2>2, <2>4
<1>5. CASE LoadMetadata
  <2> DEFINE new == IF task.exists THEN CloneWithKeyspace(metadata, task.keyspace)
                                   ELSE CloneWithoutKeyspace(metadata, task.keyspace)
  <2>1. task.pc = "load" /\ UNCHANGED metadata /\ task' = Store(new)
    BY <1>5 DEF LoadMetadata
  <2>2. /\ new.nodes = metadata.nodes
        /\ new.keyspaces = IF task.exists THEN metadata.keyspaces \cup {task.keyspace}
                                          ELSE metadata.keyspaces \ {task.keyspace}
    BY <1>2 DEF CloneWithKeyspace, CloneWithoutKeyspace, MetadataOK, IsMetadata
  <2> HIDE DEF new
  <2>3. AppliedHosts' = AppliedHosts /\ AppliedKeyspaces' = AppliedKeyspaces /\ NodesAtHome'
    BY <1>0, <1>2, <2>1, <2>2, Zenon DEF AppliedHosts, AppliedKeyspaces, NodesAtHome, AtHome, Store
  <2> QED
    BY <1>1, <2>3
<1>6. CASE StoreMetadata
  <2>1. task.pc = "store" /\ metadata' = task.new /\ task' = Idle
    BY <1>6 DEF StoreMetadata
  <2>2. AppliedHosts' = AppliedHosts /\ AppliedKeyspaces' = AppliedKeyspaces /\ NodesAtHome'
    BY <1>0, <2>1, Zenon DEF AppliedHosts, AppliedKeyspaces, NodesAtHome, AtHome, Idle
  <2> QED
    BY <1>1, <2>2
<1> QED
  BY <1>3, <1>4, <1>5, <1>6

\* The task that applies events.
LEMMA EventsFollow == IInv /\ FollowInv /\ EventStep => FollowInv'
<1> SUFFICES ASSUME IInv, FollowInv, EventStep PROVE FollowInv'
  OBVIOUS
<1>0. /\ UNCHANGED <<cluster, incomplete, moved, failures, control, did_initial_refresh, transport, errors, missed>>
      /\ events # <<>> \/ task # Idle
  <2>1. CASE ProcessEvent
    BY <2>1, Zenon DEF ProcessEvent, serverVars, controlVars
  <2>2. CASE FindNewNodeInfo \/ QueryKeyspace \/ LoadMetadata \/ StoreMetadata
    <3>1. UNCHANGED <<cluster, incomplete, moved, failures, control, did_initial_refresh, transport, errors, missed>>
      BY <2>2, Zenon DEF FindNewNodeInfo, QueryKeyspace, LoadMetadata, StoreMetadata, serverVars, controlVars
    <3>2. task.pc # "idle"
      BY <2>2, Zenon DEF FindNewNodeInfo, QueryKeyspace, LoadMetadata, StoreMetadata
    <3> QED
      BY <3>1, <3>2 DEF Idle
  <2> QED
    BY <2>1, <2>2, Zenon DEF EventStep
<1> SUFFICES ASSUME failures = 0, ~moved
             PROVE  /\ FirstConnection' /\ RowsFollow' /\ NodesAtHome'
                    /\ did_initial_refresh /\ ~missed => Follows'
  <2>1. HostsAtHome => HostsAtHome'
    BY <1>0, Zenon DEF HostsAtHome, InCluster
  <2> QED
    BY <1>0, <2>1 DEF FollowInv
<1>1. /\ HostsAtHome /\ FirstConnection /\ RowsFollow /\ NodesAtHome
      /\ did_initial_refresh /\ ~missed => Follows
  BY DEF FollowInv
<1>2. At("listen") /\ did_initial_refresh /\ Connected /\ transport.host \notin incomplete
  BY <1>0, <1>1 DEF FirstConnection, At
<1>3. FirstConnection'
  BY <1>0, <1>1, <1>2, Zenon DEF FirstConnection, Connected, At
<1>4. RowsFollow'
  BY <1>0, <1>2, Zenon DEF RowsFollow, At
<1>5. NodesAtHome' /\ (Follows => Follows')
  BY <1>1, <1>2, ProcessFollows, TaskFollows DEF EventStep
<1> QED
  BY <1>1, <1>3, <1>4, <1>5

\* As long as the first control connection lasts, hosts keep their addresses and
\* no change went unheard, the members and the keyspaces of the metadata are those
\* of the cluster whenever all events are applied, for any cluster, any sequence
\* of changes and any interleaving with the two tasks.
THEOREM MetadataIsCurrent == Spec => []MetadataFollows
<1>1. Init => FollowInv
  <2> SUFFICES ASSUME Init PROVE FollowInv
    OBVIOUS
  <2>1. cluster.address = [h \in Members |-> HomeAddress[h]] /\ cluster.live = Members
    BY DEF Init
  <2>2. HostsAtHome
    BY <2>1 DEF HostsAtHome, InCluster
  <2>3. FirstConnection /\ RowsFollow
    BY Zenon DEF Init, FirstConnection, RowsFollow, Connected, At
  <2>4. NodesAtHome
    BY Zenon DEF Init, NodesAtHome, AtHome, EmptyMetadata, MetadataNew, NoNodes, Idle
  <2> QED
    BY <2>2, <2>3, <2>4 DEF Init, FollowInv
<1>2. IInv /\ FollowInv /\ [Next]_vars => FollowInv'
  <2>1. FollowInv /\ UNCHANGED vars => FollowInv'
    <3> SUFFICES ASSUME UNCHANGED vars PROVE FollowInv => FollowInv'
      OBVIOUS
    <3> USE DEF vars, serverVars, controlVars
    <3>1. (HostsAtHome => HostsAtHome') /\ (NodesAtHome => NodesAtHome')
      BY Zenon DEF HostsAtHome, NodesAtHome, AtHome, InCluster
    <3>2. (FirstConnection => FirstConnection') /\ (RowsFollow => RowsFollow')
      BY Zenon DEF FirstConnection, RowsFollow, Connected, At, InCluster
    <3>3. Follows => Follows'
      BY Zenon DEF Follows, HostFollows, KeyspaceFollows, AppliedHosts, AppliedKeyspaces, InCluster
    <3> QED
      BY <3>1, <3>2, <3>3 DEF FollowInv
  <2> QED
    BY <2>1, ServersAreHeard, ControlFollows, EventsFollow DEF Next
<1>3. IInv /\ FollowInv => MetadataFollows
  <2> SUFFICES ASSUME IInv, FollowInv, Quiet, failures = 0, ~missed, ~moved
               PROVE  /\ DOMAIN metadata.nodes = InCluster \ incomplete
                      /\ metadata.keyspaces = cluster.keyspaces
    BY DEF MetadataFollows
  <2>1. FirstConnection /\ NodesAtHome /\ At("listen") /\ events = <<>> /\ task.pc = "idle"
    BY DEF FollowInv, Quiet, Listening
  <2>2. did_initial_refresh
    BY <2>1 DEF FirstConnection, At
  <2>3. Follows
    BY <2>2 DEF FollowInv
  <2>4. AppliedHosts = DOMAIN metadata.nodes /\ AppliedKeyspaces = metadata.keyspaces
    BY <2>1 DEF AppliedHosts, AppliedKeyspaces
  <2>5. \A h \in Hosts \ incomplete : h \in InCluster <=> h \in DOMAIN metadata.nodes
    BY <2>1, <2>3, <2>4 DEF Follows, HostFollows, Told
  <2>6. \A k : k \in cluster.keyspaces <=> k \in metadata.keyspaces
    BY <2>1, <2>3, <2>4 DEF Follows, KeyspaceFollows, Told
  <2>7. DOMAIN metadata.nodes \subseteq Hosts \ incomplete /\ InCluster \subseteq Hosts
    BY <2>1 DEF IInv, MetadataOK, NodesOK, NodesAtHome, AtHome, ServersOK
  <2> QED
    BY <2>5, <2>6, <2>7
<1> QED
  BY <1>1, <1>2, <1>3, Invariance, PTL DEF Spec
=============================================================================
