------------------------------ MODULE Requests ------------------------------
(***************************************************************************)
(* The bodies of requests: frame/message_{startup,options,query,prepare,   *)
(* execute,register,batch,auth_response,request}.rs and query/*.rs.  Each  *)
(* is written by serialize and read back by from_cursor, as a server built *)
(* on this crate reads it.                                                 *)
(*                                                                         *)
(* A request is a record of the fields of its body and its opcode; query   *)
(* values are [names, vals], vals a sequence or a function from names.     *)
(***************************************************************************)
EXTENDS Wire

V5 == 5

(***************************************************************************)
(* QueryFlags are an int from version 5 on and a byte before, which the    *)
(* last of them does not fit.                                              *)
(***************************************************************************)
QueryFlags ==
    [VALUE |-> 1, SKIP_METADATA |-> 2, PAGE_SIZE |-> 4, WITH_PAGING_STATE |-> 8,
     WITH_SERIAL_CONSISTENCY |-> 16, WITH_DEFAULT_TIMESTAMP |-> 32, WITH_NAMES_FOR_VALUES |-> 64,
     WITH_KEYSPACE |-> 128, WITH_NOW_IN_SECONDS |-> 256]
AsU8(n) == n % 256

QueryFlagsSerialize(flags, version) ==
    LET n == Bits(flags, QueryFlags) IN IF version >= V5 THEN CInt(n) ELSE Byte(AsU8(n))
QueryFlagsFromCursor(in, version) ==
    Then(ReadCell(in, IF version >= V5 THEN "int" ELSE "byte"),
         LAMBDA n : Ok(n.in, FromBitsTruncate(n.val, QueryFlags)))

PrepareFlags == [WITH_KEYSPACE |-> 1]
PrepareFlagsSerialize(flags) == CInt(Bits(flags, PrepareFlags))
PrepareFlagsFromCursor(in) ==
    Then(ReadCell(in, "int"), LAMBDA n : Ok(n.in, FromBitsTruncate(n.val, PrepareFlags)))

HasFlag(r, flag) == r.ok /\ flag \in r.val.flags
Flag(flag, present) == IF present THEN {flag} ELSE {}

HasNames(values) == values.names
NumberOfValues(values) == Cardinality(DOMAIN values.vals)

QueryValuesSerialize(values) ==
    IF HasNames(values)
    THEN FoldLeft(LAMBDA cells, name : cells \o serialize_str(name) \o ValueSerialize(values.vals[name]),
                  <<>>, SetToSeq(DOMAIN values.vals))
    ELSE FoldLeft(LAMBDA cells, value : cells \o ValueSerialize(value), <<>>, values.vals)

NamedValuesFromCursor(in, n) ==
    Then(Repeat(in, n, LAMBDA i : Field(Struct(i, <<<<"name", "string">>>>), "value", ValueFromCursor)),
         LAMBDA r : Ok(r.in, [names |-> TRUE,
                              vals |-> [name \in {p.name : p \in Range(r.val)} |->
                                  (CHOOSE p \in Range(r.val) : p.name = name).value]]))
SimpleValuesFromCursor(in, n) ==
    Then(Repeat(in, n, ValueFromCursor), LAMBDA r : Ok(r.in, [names |-> FALSE, vals |-> r.val]))

-----------------------------------------------------------------------------
QueryParamsFlags(p) ==
    Flag("VALUE", p.values # None) \cup Flag("WITH_NAMES_FOR_VALUES", p.with_names)
    \cup Flag("PAGE_SIZE", p.page_size # None)
    \cup Flag("WITH_PAGING_STATE", p.paging_state # None)
    \cup Flag("WITH_SERIAL_CONSISTENCY", p.serial_consistency # None)
    \cup Flag("WITH_DEFAULT_TIMESTAMP", p.timestamp # None)
    \cup Flag("WITH_KEYSPACE", p.keyspace # None)
    \cup Flag("WITH_NOW_IN_SECONDS", p.now_in_seconds # None)

\* What follows in a query as in a batch.
TimesSerialize(p) ==
    IfSome(p.serial_consistency, ConsistencySerialize) \o IfSome(p.timestamp, CLong)
    \o IfSome(p.keyspace, serialize_str) \o IfSome(p.now_in_seconds, CInt)

QueryParamsSerialize(p, version) ==
    ConsistencySerialize(p.consistency) \o QueryFlagsSerialize(QueryParamsFlags(p), version)
    \o IfSome(p.values, LAMBDA v : CIntShort(NumberOfValues(v)) \o QueryValuesSerialize(v))
    \o IfSome(p.page_size, CInt) \o IfSome(p.paging_state, CBytesSerialize)
    \o TimesSerialize(p)

TimesFromCursor(r) ==
    LET a == Option(r, "serial_consistency", HasFlag(r, "WITH_SERIAL_CONSISTENCY"), ConsistencyFromCursor)
        b == Option(a, "timestamp", HasFlag(r, "WITH_DEFAULT_TIMESTAMP"), LAMBDA in : ReadCell(in, "long"))
        c == Option(b, "keyspace", HasFlag(r, "WITH_KEYSPACE"), LAMBDA in : ReadCell(in, "string"))
    IN Option(c, "now_in_seconds", HasFlag(r, "WITH_NOW_IN_SECONDS"), LAMBDA in : ReadCell(in, "int"))

\* The flags are not part of what is read.
Without(r, field) ==
    Then(r, LAMBDA x : Ok(x.in, [f \in DOMAIN x.val \ {field} |-> x.val[f]]))

QueryParamsFromCursor(in, version) ==
    LET flags == Field(Struct(in, <<<<"consistency", "consistency">>>>), "flags",
                       LAMBDA i : QueryFlagsFromCursor(i, version))
        names == HasFlag(flags, "WITH_NAMES_FOR_VALUES")
        values == Option(flags, "values", HasFlag(flags, "VALUE"), LAMBDA i :
                      Then(ReadCell(i, "short"), LAMBDA n :
                          IF names THEN NamedValuesFromCursor(n.in, n.val)
                                   ELSE SimpleValuesFromCursor(n.in, n.val)))
        size == Option(values, "page_size", HasFlag(flags, "PAGE_SIZE"), LAMBDA i : ReadCell(i, "int"))
        state == Option(size, "paging_state", HasFlag(flags, "WITH_PAGING_STATE"), CBytesFromCursor)
    IN Without(Field(TimesFromCursor(state), "with_names", LAMBDA i : Ok(i, names)), "flags")

-----------------------------------------------------------------------------
BodyReqQuerySerialize(q, version) ==
    serialize_str_long(q.query) \o QueryParamsSerialize(q.query_params, version)
BodyReqQueryFromCursor(in, version) ==
    Field(Struct(in, <<<<"query", "long string">>>>), "query_params",
          LAMBDA i : QueryParamsFromCursor(i, version))

\* A prepare request has flags from version 5 on, and a keyspace only there.
BodyReqPrepareSerialize(q, version) ==
    serialize_str_long(q.query)
    \o IF version < V5 THEN <<>>
       ELSE PrepareFlagsSerialize(Flag("WITH_KEYSPACE", q.keyspace # None)) \o IfSome(q.keyspace, serialize_str)
BodyReqPrepareFromCursor(in, version) ==
    LET query == Struct(in, <<<<"query", "long string">>>>)
        flags == Field(query, "flags", PrepareFlagsFromCursor)
    IN IF version < V5 THEN Option(query, "keyspace", FALSE, LAMBDA i : Err)
       ELSE Without(Option(flags, "keyspace", HasFlag(flags, "WITH_KEYSPACE"),
                           LAMBDA i : ReadCell(i, "string")), "flags")

\* The id of the result metadata is written if there is one and read from
\* version 5 on.
BodyReqExecuteSerialize(x, version) ==
    CBytesShortSerialize(x.id) \o IfSome(x.result_metadata_id, CBytesShortSerialize)
    \o QueryParamsSerialize(x.query_parameters, version)
BodyReqExecuteFromCursor(in, version) ==
    LET id == Struct(in, <<<<"id", "short bytes">>>>)
        metadata == Option(id, "result_metadata_id", version >= V5, LAMBDA i : ReadCell(i, "short bytes"))
    IN Field(metadata, "query_parameters", LAMBDA i : QueryParamsFromCursor(i, version))

-----------------------------------------------------------------------------
BatchTypeCode == [Logged |-> 0, Unlogged |-> 1, Counter |-> 2]
BatchTypeOf == [n \in 0..2 |-> <<"Logged", "Unlogged", "Counter">>[n + 1]]

\* The subject of a query in a batch is the id of a prepared one, or its text.
BatchQuerySerialize(q) ==
    (IF q.prepared THEN Byte(1) \o CBytesShortSerialize(q.subject)
                   ELSE Byte(0) \o serialize_str_long(q.subject))
    \o CIntShort(NumberOfValues(q.values)) \o QueryValuesSerialize(q.values)
BatchQueryFromCursor(in) ==
    LET kind == Field(Begin(in), "prepared",
                      LAMBDA i : Then(ReadCell(i, "byte"), LAMBDA b : Ok(b.in, b.val # 0)))
        subject == Field(kind, "subject",
                         LAMBDA i : ReadCell(i, IF kind.val.prepared THEN "short bytes" ELSE "long string"))
    IN Field(subject, "values", LAMBDA i :
           Then(ReadCell(i, "short"), LAMBDA n : SimpleValuesFromCursor(n.in, n.val)))

BatchFlags(b) ==
    Flag("WITH_SERIAL_CONSISTENCY", b.serial_consistency # None)
    \cup Flag("WITH_DEFAULT_TIMESTAMP", b.timestamp # None)
    \cup Flag("WITH_KEYSPACE", b.keyspace # None)
    \cup Flag("WITH_NOW_IN_SECONDS", b.now_in_seconds # None)

BodyReqBatchSerialize(b, version) ==
    Byte(BatchTypeCode[b.batch_type])
    \o FoldLeft(LAMBDA cells, q : cells \o BatchQuerySerialize(q), CIntShort(Len(b.queries)), b.queries)
    \o ConsistencySerialize(b.consistency) \o QueryFlagsSerialize(BatchFlags(b), version)
    \o TimesSerialize(b)
BodyReqBatchFromCursor(in, version) ==
    LET type == Field(Begin(in), "batch_type", LAMBDA i : TryFrom(ReadCell(i, "byte"), BatchTypeOf))
        queries == Field(type, "queries", LAMBDA i :
                       Then(ReadCell(i, "short"), LAMBDA n : Repeat(n.in, n.val, BatchQueryFromCursor)))
        flags == Field(Fields(queries, <<<<"consistency", "consistency">>>>), "flags",
                       LAMBDA i : QueryFlagsFromCursor(i, version))
    IN Without(TimesFromCursor(flags), "flags")

-----------------------------------------------------------------------------
BodyReqStartup(compression, version) ==
    ("CQL_VERSION" :> "3.0.0")
    @@ (IF compression = None THEN <<>> ELSE "COMPRESSION" :> compression)
    @@ (IF version >= V5 THEN ("DRIVER_NAME" :> "cdrs-tokio") @@ ("DRIVER_VERSION" :> "version") ELSE <<>>)

BodyReqStartupSerialize(s) ==
    FoldLeft(LAMBDA cells, key : cells \o serialize_str(key) \o serialize_str(s.map[key]),
             CIntShort(Cardinality(DOMAIN s.map)), SetToSeq(DOMAIN s.map))
BodyReqStartupFromCursor(in) ==
    Field(Begin(in), "map", LAMBDA i :
        Then(ReadCell(i, "short"), LAMBDA n :
            Then(Repeat(n.in, n.val, LAMBDA j : Struct(j, <<<<"key", "string">>, <<"val", "string">>>>)),
                 LAMBDA r : Ok(r.in, [key \in {p.key : p \in Range(r.val)} |->
                                         (CHOOSE p \in Range(r.val) : p.key = key).val]))))

SimpleServerEventStr ==
    [TopologyChange |-> "TOPOLOGY_CHANGE", StatusChange |-> "STATUS_CHANGE", SchemaChange |-> "SCHEMA_CHANGE"]
SimpleServerEventOf ==
    [TOPOLOGY_CHANGE |-> "TopologyChange", STATUS_CHANGE |-> "StatusChange", SCHEMA_CHANGE |-> "SchemaChange"]

BodyReqRegisterSerialize(g) ==
    serialize_str_list([i \in DOMAIN g.events |-> SimpleServerEventStr[g.events[i]]])
BodyReqRegisterFromCursor(in) ==
    Field(Begin(in), "events", LAMBDA i :
        Then(from_cursor_string_list(i), LAMBDA r :
            IF Range(r.val) \subseteq DOMAIN SimpleServerEventOf
            THEN Ok(r.in, [j \in DOMAIN r.val |-> SimpleServerEventOf[r.val[j]]]) ELSE Err))

BodyReqAuthResponseSerialize(a) == CBytesSerialize(a.data)
BodyReqAuthResponseFromCursor(in) == Struct(in, <<<<"data", "bytes">>>>)

BodyReqOptionsSerialize == <<>>
BodyReqOptionsFromCursor(in) == Begin(in)

-----------------------------------------------------------------------------
RequestBodySerialize(q, version) ==
    CASE q.opcode = "Query"        -> BodyReqQuerySerialize(q, version)
      [] q.opcode = "Startup"      -> BodyReqStartupSerialize(q)
      [] q.opcode = "Options"      -> BodyReqOptionsSerialize
      [] q.opcode = "Prepare"      -> BodyReqPrepareSerialize(q, version)
      [] q.opcode = "Execute"      -> BodyReqExecuteSerialize(q, version)
      [] q.opcode = "Register"     -> BodyReqRegisterSerialize(q)
      [] q.opcode = "Batch"        -> BodyReqBatchSerialize(q, version)
      [] q.opcode = "AuthResponse" -> BodyReqAuthResponseSerialize(q)

RequestBodyTryFrom(in, opcode, version) ==
    CASE opcode = "Startup"      -> BodyReqStartupFromCursor(in)
      [] opcode = "Options"      -> BodyReqOptionsFromCursor(in)
      [] opcode = "Query"        -> BodyReqQueryFromCursor(in, version)
      [] opcode = "Prepare"      -> BodyReqPrepareFromCursor(in, version)
      [] opcode = "Execute"      -> BodyReqExecuteFromCursor(in, version)
      [] opcode = "Register"     -> BodyReqRegisterFromCursor(in)
      [] opcode = "Batch"        -> BodyReqBatchFromCursor(in, version)
      [] opcode = "AuthResponse" -> BodyReqAuthResponseFromCursor(in)
      [] OTHER                   -> Err
=============================================================================
