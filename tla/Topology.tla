------------------------------- MODULE Topology -------------------------------
(***************************************************************************)
(* What a session knows about the cluster, and how that is computed:       *)
(* Node, TokenMap and ClusterMetadata (cdrs-tokio/src/cluster/topology,    *)
(* token_map.rs), metadata_builder.rs, and the reading of the system       *)
(* tables in cluster_metadata_manager.rs.                                  *)
(*                                                                         *)
(* An address stands for an IP address and a port.  The tokens of a node   *)
(* are a set; token ranges of different nodes do not overlap.              *)
(***************************************************************************)
EXTENDS Integers, FiniteSets

CONSTANTS
    None,
    LocalDc         \* of the distance evaluator; None: all nodes are local

States == {"Unknown", "Up", "Down", "ForcedDown"}

-----------------------------------------------------------------------------
(***************************************************************************)
(* Rows of system.local, system.peers and system.peers_v2.                 *)
(***************************************************************************)
\* In the peers tables the control node itself is ignored.
BroadcastRpcAddress(row, control) ==
    IF row.table # "local" /\ row.rpc_address = control THEN None ELSE row.rpc_address

\* The control node is known by the address it was reached at.
NodeBroadcastRpcAddress(row, address, control) ==
    IF row.table = "local" THEN control ELSE IF address = None THEN control ELSE address

\* Every column the driver needs is there.
IsPeerRowValid(row) == row.rpc_address # None /\ row.complete

\* The port of the broadcast address is known from Cassandra 4 on.
BuildNodeInfo(row, address) ==
    [host |-> row.host, rpc |-> address,
     broadcast |-> IF row.internode_port THEN row.broadcast_address ELSE None,
     dc |-> row.dc, rack |-> row.rack, tokens |-> row.tokens]

FindInPeers(peers, address, control) ==
    {BuildNodeInfo(row, address) :
        row \in {r \in peers : BroadcastRpcAddress(r, control) = address /\ IsPeerRowValid(r)}}

\* refresh_node_infos, from the rows: the local row and the usable peers.
\* Of several rows with one host id the first, the local one, counts.
NodeInfos(local, peers, control) ==
    {BuildNodeInfo(local, NodeBroadcastRpcAddress(local, BroadcastRpcAddress(local, control), control))}
    \cup {BuildNodeInfo(row, row.rpc_address) :
            row \in {r \in peers : /\ r.host # local.host /\ IsPeerRowValid(r)
                                   /\ BroadcastRpcAddress(r, control) # None}}

-----------------------------------------------------------------------------
(***************************************************************************)
(* Nodes.                                                                  *)
(***************************************************************************)
ComputeDistance(info) ==
    IF LocalDc = None \/ info.dc = LocalDc THEN "Local" ELSE "Remote"

NewNode(info, distance, state) ==
    [host |-> info.host, rpc |-> info.rpc, broadcast |-> info.broadcast, distance |-> distance,
     state |-> state, tokens |-> info.tokens, dc |-> info.dc, rack |-> info.rack]

\* The address counts as changed when the broadcast address is known and is
\* not the new RPC address.  A node that is Down is given another chance.
CloneWithNodeInfo(node, info) ==
    LET address_changed == node.broadcast # None /\ node.broadcast # info.rpc
    IN NewNode(info, IF address_changed THEN None ELSE node.distance,
               IF address_changed THEN "Unknown"
               ELSE IF node.state = "Down" THEN "Up" ELSE node.state)

CloneAsContactPoint(node, info) ==
    NewNode([info EXCEPT !.rpc = node.rpc], node.distance, node.state)

CloneWithNodeInfoAndState(info, state) == NewNode(info, None, state)

CloneWithNodeState(node, state) == [node EXCEPT !.state = state]

IsIgnored(node) == node.distance = None \/ node.state # "Up"

-----------------------------------------------------------------------------
(***************************************************************************)
(* TokenMap: a ring from tokens to nodes.                                  *)
(***************************************************************************)
AllTokens(nodes) == UNION {nodes[h].tokens : h \in DOMAIN nodes}

TokenMapNew(nodes) ==
    [t \in AllTokens(nodes) |-> nodes[CHOOSE h \in DOMAIN nodes : t \in nodes[h].tokens]]

\* Faulty variant: tokens that are known already keep their node.
RingKeepsNodes(ring, node) ==
    [t \in DOMAIN ring \cup node.tokens |-> IF t \in DOMAIN ring THEN ring[t] ELSE node]

RingWithNode(ring, node) ==
    [t \in DOMAIN ring \cup node.tokens |-> IF t \in node.tokens THEN node ELSE ring[t]]

-----------------------------------------------------------------------------
(***************************************************************************)
(* ClusterMetadata.                                                        *)
(***************************************************************************)
\* build_datacenter_info: the racks of every datacenter.
BuildDatacenterInfo(nodes) ==
    [dc \in {nodes[h].dc : h \in DOMAIN nodes} |->
        Cardinality({nodes[h].rack : h \in {g \in DOMAIN nodes : nodes[g].dc = dc}})]

MetadataNew(nodes, keyspaces) ==
    [nodes |-> nodes, ring |-> TokenMapNew(nodes), keyspaces |-> keyspaces,
     datacenters |-> BuildDatacenterInfo(nodes)]

NoNodes == [h \in {} |-> None]
EmptyMetadata == MetadataNew(NoNodes, {})

CloneWithKeyspace(metadata, k) == [metadata EXCEPT !.keyspaces = @ \cup {k}]
CloneWithoutKeyspace(metadata, k) == [metadata EXCEPT !.keyspaces = @ \ {k}]

CloneWithNode(metadata, node) ==
    LET nodes == [h \in DOMAIN metadata.nodes \cup {node.host} |->
                     IF h = node.host THEN node ELSE metadata.nodes[h]]
    IN [nodes |-> nodes, ring |-> RingWithNode(metadata.ring, node),
        keyspaces |-> metadata.keyspaces, datacenters |-> BuildDatacenterInfo(nodes)]

CloneWithoutNode(metadata, address) ==
    MetadataNew([h \in {g \in DOMAIN metadata.nodes : metadata.nodes[g].rpc # address} |->
                    metadata.nodes[h]], metadata.keyspaces)

UnignoredNodes(metadata) == {h \in DOMAIN metadata.nodes : ~IsIgnored(metadata.nodes[h])}

HostsAt(metadata, address) ==
    {h \in DOMAIN metadata.nodes : metadata.nodes[h].rpc = address}
HasNodeByRpcAddress(metadata, address) == HostsAt(metadata, address) # {}
FindNodeByRpcAddress(metadata, address) ==
    metadata.nodes[CHOOSE h \in HostsAt(metadata, address) : TRUE]

-----------------------------------------------------------------------------
(***************************************************************************)
(* metadata_builder.rs.  Contact points are nodes without a host id.       *)
(***************************************************************************)
ContactPoint(address) ==
    [host |-> None, rpc |-> address, broadcast |-> None, distance |-> "Local", state |-> "Up",
     tokens |-> {}, dc |-> None, rack |-> None]

InfoOf(infos, h) == CHOOSE info \in infos : info.host = h
HostsOf(infos) == {info.host : info \in infos}

BuildInitialMetadata(infos, keyspaces, contact_points) ==
    MetadataNew([h \in HostsOf(infos) |->
                    LET info == InfoOf(infos, h)
                    IN IF info.rpc \in contact_points
                       THEN CloneAsContactPoint(ContactPoint(info.rpc), info)
                       ELSE NewNode(info, ComputeDistance(info), "Unknown")],
                keyspaces)

\* Faulty variant: nodes that are in no table any more stay.
RefreshMerges(infos, old) ==
    MetadataNew([h \in HostsOf(infos) \cup DOMAIN old.nodes |->
                    IF h \notin HostsOf(infos) THEN old.nodes[h]
                    ELSE IF h \in DOMAIN old.nodes
                    THEN CloneWithNodeInfo(old.nodes[h], InfoOf(infos, h))
                    ELSE NewNode(InfoOf(infos, h), ComputeDistance(InfoOf(infos, h)), "Unknown")],
                old.keyspaces)

\* The keyspaces stay as they were.
RefreshMetadata(infos, old) ==
    MetadataNew([h \in HostsOf(infos) |->
                    LET info == InfoOf(infos, h)
                    IN IF h \in DOMAIN old.nodes THEN CloneWithNodeInfo(old.nodes[h], info)
                       ELSE NewNode(info, ComputeDistance(info), "Unknown")],
                old.keyspaces)

AddNewNode(info, old, state) ==
    CloneWithNode(old,
        IF info.host \notin DOMAIN old.nodes THEN NewNode(info, None, state)
        ELSE IF old.nodes[info.host].rpc = info.rpc THEN CloneWithNodeState(old.nodes[info.host], state)
        ELSE CloneWithNodeInfoAndState(info, state))
=============================================================================
