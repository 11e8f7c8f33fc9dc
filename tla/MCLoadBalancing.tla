--------------------------- MODULE MCLoadBalancing ---------------------------
(***************************************************************************)
(* Three nodes in the local datacenter and one in another; every           *)
(* arrangement of racks up to renaming; rings with one token per node and  *)
(* with two for one of them or none, started at different places.          *)
(***************************************************************************)
EXTENDS LoadBalancing, SequencesExt

CONSTANTS h1, h2, h3, h4, d1, d2, r1, r2, r3, simple, strict, network, wide, other

MCOrder == <<h2, h4, h1, h3>>
Dc == h1 :> d1 @@ h2 :> d1 @@ h3 :> d1 @@ h4 :> d2

Racks == {h1 :> r1 @@ h2 :> r1 @@ h3 :> r1 @@ h4 :> r1,
          h1 :> r1 @@ h2 :> r1 @@ h3 :> r2 @@ h4 :> r1,
          h1 :> r1 @@ h2 :> r2 @@ h3 :> r3 @@ h4 :> r2}

Rings == {<<h1, h2, h3, h4>>, <<h4, h2, h1, h3>>, <<h1, h3, h4, h2>>, <<h3, h2, h1, h4>>,
          <<h1, h1, h2, h3, h4>>, <<h2, h4, h3, h1, h2>>, <<h1, h3, h1, h4, h2>>, <<h4, h3, h2, h4, h1>>,
          <<h3, h1, h4>>}

Unused == {{}, {h1}, {h4}, {h2, h3}, {h1, h2, h3}}

MCCluster(rack, ring, unused) ==
    [h \in {h1, h2, h3, h4} |->
        [host |-> h, rpc |-> h, broadcast |-> None, distance |-> IF Dc[h] = LocalDc THEN "Local" ELSE "Remote",
         state |-> IF h \in unused THEN "Down" ELSE "Up",
         tokens |-> {10 * i : i \in {j \in DOMAIN ring : ring[j] = h}}, dc |-> Dc[h], rack |-> rack[h]]]

MCClusters == {MCCluster(rack, ring, unused) : rack \in Racks, ring \in Rings, unused \in Unused}

MCStrategies ==
    {[kind |-> k, max_nodes_per_remote_dc |-> None, allow_dc_failover_for_local_cl |-> FALSE] :
        k \in {"RoundRobin", "Random", "TopologyAware"}}
    \cup {[kind |-> "TopologyAware", max_nodes_per_remote_dc |-> 1, allow_dc_failover_for_local_cl |-> b] :
            b \in BOOLEAN}

Number(n) == [type |-> "number", n |-> n]
MCKeyspaceRows ==
    simple :> [class |-> "SimpleStrategy", factors |-> [replication_factor |-> Number(2)]]
    @@ strict :> [class |-> "NetworkTopologyStrategy", factors |-> d1 :> Number(1) @@ d2 :> Number(1)]
    @@ network :> [class |-> "NetworkTopologyStrategy", factors |-> d1 :> Number(2)]
    @@ wide :> [class |-> "NetworkTopologyStrategy",
                factors |-> d1 :> [type |-> "transient", n |-> 3] @@ d2 :> Number(0)]
    @@ other :> [class |-> "EverywhereStrategy", factors |-> [replication_factor |-> [type |-> "text"]]]

MCKeyspaceTables ==
    {MCKeyspaceRows,
     simple :> [class |-> "SimpleStrategy", factors |-> [replication_factor |-> [type |-> "text"]]],
     simple :> [class |-> "SimpleStrategy", factors |-> d1 :> Number(1)],
     network :> [class |-> "NetworkTopologyStrategy", factors |-> d1 :> Number(1) @@ d2 :> [type |-> "text"]],
     other :> [class |-> None, factors |-> d1 :> Number(1)]}

Parameters == [values |-> None, routing_key |-> None, token |-> None, keyspace |-> None, consistency |-> "One"]

Positional(list) == [named |-> FALSE, list |-> list]
Prepared(k, indexes) == [keyspace |-> k, pk_indexes |-> indexes]
Exec(prepared, parameters) == [op |-> "exec", prepared |-> prepared, parameters |-> parameters]
Query(parameters) == [op |-> "query", parameters |-> parameters]

\* Plans for given tokens, plans for bound values, and the other statements.
MCStatements ==
    {None, [op |-> "prepare"], [op |-> "batch", consistency |-> "LocalOne", parameters |-> Parameters]}
    \cup {Query([Parameters EXCEPT !.token = t, !.keyspace = k, !.consistency = c]) :
            t \in {10, 25, 60}, k \in {simple, strict, network, wide, other}, c \in {"One", "LocalOne"}}
    \cup {Query([Parameters EXCEPT !.routing_key = key]) : key \in {<<>>, <<Some(<<3>>)>>, <<Some(<<1>>), Null>>}}
    \cup {Exec(Prepared(k, indexes), [Parameters EXCEPT !.values = values, !.routing_key = key, !.keyspace = strict]) :
            k \in {None, network}, indexes \in {<<>>, <<1>>, <<1, 0>>},
            values \in {None, [named |-> TRUE, list |-> <<Some(<<2>>)>>], Positional(<<Some(<<2>>)>>),
                       Positional(<<Some(<<2>>), Null>>), Positional(<<Some(<<2, 1>>), Some(<<4>>)>>)},
            key \in {None, <<Some(<<3>>)>>}}
    \cup {Exec(Prepared(network, <<0>>), [Parameters EXCEPT !.values = Positional(<<Some(<<5>>)>>), !.token = 25])}

MCContactPoints == <<ContactPoint(h1), ContactPoint(h2)>>

\* A hash of the key.
MCGenerate(key) == (7 * Len(key) + FoldLeft(LAMBDA a, b : 2 * a + b, 0, key)) % 60
=============================================================================
