------------------------------- MODULE Routing -------------------------------
(***************************************************************************)
(* What a statement tells the load balancer: the request that Session's    *)
(* query, exec, batch and prepare functions put together, and the routing  *)
(* key they make of the values (cdrs-tokio/src/cluster/session.rs).        *)
(*                                                                         *)
(* A value is [set, bytes]; one that is null or not set has no bytes.      *)
(* values is None or [named, list]; routing_key is None or a sequence of   *)
(* values.                                                                 *)
(***************************************************************************)
EXTENDS Integers, Sequences

CONSTANTS None

Some(bytes) == [set |-> TRUE, bytes |-> bytes]
Null == [set |-> FALSE, bytes |-> <<>>]

\* Sequences one after the other.
Concat(seqs) ==
    LET upto[i \in 0..Len(seqs)] == IF i = 0 THEN <<>> ELSE upto[i - 1] \o seqs[i]
    IN upto[Len(seqs)]

\* A CIntShort, big-endian; longer sizes wrap.
Short(n) == <<(n \div 256) % 256, n % 256>>

\* Faulty variant: the byte after the value is missing.
UnterminatedRoutingValue(bytes) == Short(Len(bytes)) \o bytes

\* CompositeType: size, value, end of component.
SerializeRoutingValue(bytes) == Short(Len(bytes)) \o bytes \o <<0>>

\* Values that are not set leave no trace.
SerializeRoutingValues(values) ==
    Concat([i \in DOMAIN values |->
               IF values[i].set THEN SerializeRoutingValue(values[i].bytes) ELSE <<>>])

\* The primary key of a prepared statement, from the values bound to it:
\* pk_indexes count from zero.
SerializeRoutingKeyWithIndexes(values, pk_indexes) ==
    IF pk_indexes = <<>> \/ \E i \in DOMAIN pk_indexes : pk_indexes[i] >= Len(values) THEN None
    ELSE LET keys == [i \in DOMAIN pk_indexes |-> values[pk_indexes[i] + 1]]
         IN IF Len(keys) > 1 THEN SerializeRoutingValues(keys)
            ELSE IF keys[1].set THEN keys[1].bytes ELSE None

SerializeRoutingKey(values) ==
    IF values = <<>> THEN <<>>
    ELSE IF Len(values) > 1 THEN SerializeRoutingValues(values)
    ELSE values[1].bytes

Either(a, b) == IF a # None THEN a ELSE b

-----------------------------------------------------------------------------
(***************************************************************************)
(* The request of each kind of statement: [keyspace, token, routing_key,   *)
(* consistency].  A plan for connecting has none.                          *)
(***************************************************************************)
ExplicitKey(parameters) ==
    IF parameters.routing_key = None THEN None ELSE SerializeRoutingKey(parameters.routing_key)

\* Without values, or with named ones, there is no routing key at all.
ExecWithParams(prepared, parameters) ==
    [keyspace |-> Either(prepared.keyspace, parameters.keyspace), token |-> parameters.token,
     routing_key |->
         IF parameters.values = None THEN None
         ELSE IF parameters.values.named THEN None
         ELSE Either(SerializeRoutingKeyWithIndexes(parameters.values.list, prepared.pk_indexes),
                     ExplicitKey(parameters)),
     consistency |-> parameters.consistency]

QueryWithParams(parameters) ==
    [keyspace |-> parameters.keyspace, token |-> parameters.token,
     routing_key |-> ExplicitKey(parameters), consistency |-> parameters.consistency]

BatchWithParams(batch_consistency, parameters) ==
    [keyspace |-> parameters.keyspace, token |-> None, routing_key |-> None,
     consistency |-> batch_consistency]

PrepareRaw == [keyspace |-> None, token |-> None, routing_key |-> None, consistency |-> None]

\* Session::send_envelope: the current keyspace stands in for none.
Request(statement, current_keyspace) ==
    IF statement = None THEN None
    ELSE LET request == CASE statement.op = "exec"    -> ExecWithParams(statement.prepared, statement.parameters)
                          [] statement.op = "query"   -> QueryWithParams(statement.parameters)
                          [] statement.op = "batch"   -> BatchWithParams(statement.consistency, statement.parameters)
                          [] statement.op = "prepare" -> PrepareRaw
         IN [request EXCEPT !.keyspace = Either(@, current_keyspace)]
=============================================================================
