------------------------------ MODULE Responses ------------------------------
(***************************************************************************)
(* The bodies of responses: frame/events.rs and frame/message_{error,      *)
(* result,event,supported,authenticate,auth_challenge,auth_success,ready,  *)
(* response}.rs, written by serialize and read by from_cursor.             *)
(*                                                                         *)
(* A response is a record of the fields of its body and its opcode; an     *)
(* enum is a record whose field type names the variant.                    *)
(***************************************************************************)
EXTENDS Wire

With(r, name, val) == Field(r, name, LAMBDA in : Ok(in, val))

-----------------------------------------------------------------------------
(***************************************************************************)
(* Errors.                                                                 *)
(***************************************************************************)
WriteTypeStr ==
    [Simple |-> "SIMPLE", Batch |-> "BATCH", UnloggedBatch |-> "UNLOGGED_BATCH", Counter |-> "COUNTER",
     BatchLog |-> "BATCH_LOG", Cas |-> "CAS", View |-> "VIEW", Cdc |-> "CDC"]
WriteTypeSerialize(w) == serialize_str(IF w.type = "Unknown" THEN w.text ELSE WriteTypeStr[w.type])
WriteTypeFromCursor(in) ==
    Then(ReadCell(in, "string"), LAMBDA s :
        Ok(s.in, CASE s.val = "SIMPLE"         -> [type |-> "Simple"]
                   [] s.val = "BATCH"          -> [type |-> "Batch"]
                   [] s.val = "UNLOGGED_BATCH" -> [type |-> "UnloggedBatch"]
                   [] s.val = "COUNTER"        -> [type |-> "Counter"]
                   [] s.val = "BATCH_LOG"      -> [type |-> "BatchLog"]
                   [] s.val = "CAS"            -> [type |-> "Cas"]
                   [] s.val = "VIEW"           -> [type |-> "View"]
                   [] s.val = "CDC"            -> [type |-> "Cdc"]
                   [] OTHER                    -> [type |-> "Unknown", text |-> s.val]))

\* A count before version 5, then a code for each node.
FailureInfoSerialize(f) ==
    IF f.type = "NumFailures" THEN CInt(f.count)
    ELSE FoldLeft(LAMBDA cells, a : cells \o SocketAddrSerialize(a) \o CIntShort(f.map[a]),
                  CInt(Cardinality(DOMAIN f.map)), SetToSeq(DOMAIN f.map))
\* Faulty variant: only a count, in every version.
FailureCountFromCursor(in, version) ==
    Then(ReadCell(in, "int"), LAMBDA n : Ok(n.in, [type |-> "NumFailures", count |-> n.val]))

FailureInfoFromCursor(in, version) ==
    Then(ReadCell(in, "int"), LAMBDA n :
        IF version < 5 THEN Ok(n.in, [type |-> "NumFailures", count |-> n.val])
        ELSE Then(Repeat(n.in, n.val, LAMBDA i : Struct(i, <<<<"endpoint", "inet">>, <<"code", "short">>>>)),
                  LAMBDA r : Ok(r.in, [type |-> "ReasonMap",
                                       map |-> [a \in {p.endpoint : p \in Range(r.val)} |->
                                           (CHOOSE p \in Range(r.val) : p.endpoint = a).code]])))

UnavailableSerialize(e) == ConsistencySerialize(e.cl) \o CInt(e.required) \o CInt(e.alive)
UnavailableFromCursor(in) ==
    Struct(in, <<<<"cl", "consistency">>, <<"required", "int">>, <<"alive", "int">>>>)

\* What timeouts and failures begin with.
Acks(e) == ConsistencySerialize(e.cl) \o CInt(e.received) \o CInt(e.block_for)
AcksFromCursor(in) == Struct(in, <<<<"cl", "consistency">>, <<"received", "int">>, <<"block_for", "int">>>>)

\* Contentions are written if there are any and read of a Cas.
WriteTimeoutSerialize(e) == Acks(e) \o WriteTypeSerialize(e.write_type) \o IfSome(e.contentions, CIntShort)
WriteTimeoutFromCursor(in) ==
    LET w == Field(AcksFromCursor(in), "write_type", WriteTypeFromCursor)
    IN Option(w, "contentions", w.ok /\ w.val.write_type = [type |-> "Cas"], LAMBDA i : ReadCell(i, "short"))

ReadTimeoutSerialize(e) == Acks(e) \o Byte(e.data_present)
ReadTimeoutFromCursor(in) == Fields(AcksFromCursor(in), <<<<"data_present", "byte">>>>)

ReadFailureSerialize(e) == Acks(e) \o FailureInfoSerialize(e.failure_info) \o Byte(e.data_present)
ReadFailureFromCursor(in, version) ==
    Fields(Field(AcksFromCursor(in), "failure_info", LAMBDA i : FailureInfoFromCursor(i, version)),
           <<<<"data_present", "byte">>>>)

FunctionFailureSerialize(e) ==
    serialize_str(e.keyspace) \o serialize_str(e.function) \o serialize_str_list(e.arg_types)
FunctionFailureFromCursor(in) ==
    Struct(in, <<<<"keyspace", "string">>, <<"function", "string">>, <<"arg_types", "string list">>>>)

WriteFailureSerialize(e) == Acks(e) \o FailureInfoSerialize(e.failure_info) \o WriteTypeSerialize(e.write_type)
WriteFailureFromCursor(in, version) ==
    Field(Field(AcksFromCursor(in), "failure_info", LAMBDA i : FailureInfoFromCursor(i, version)),
          "write_type", WriteTypeFromCursor)

AlreadyExistsSerialize(e) == serialize_str(e.ks) \o serialize_str(e.table)
AlreadyExistsFromCursor(in) == Struct(in, <<<<"ks", "string">>, <<"table", "string">>>>)

UnpreparedSerialize(e) == CBytesShortSerialize(e.id)
UnpreparedFromCursor(in) == Struct(in, <<<<"id", "short bytes">>>>)

ErrorTypeSerialize(e) ==
    CASE e.type = "Unavailable"     -> UnavailableSerialize(e)
      [] e.type = "WriteTimeout"    -> WriteTimeoutSerialize(e)
      [] e.type = "ReadTimeout"     -> ReadTimeoutSerialize(e)
      [] e.type = "ReadFailure"     -> ReadFailureSerialize(e)
      [] e.type = "FunctionFailure" -> FunctionFailureSerialize(e)
      [] e.type = "WriteFailure"    -> WriteFailureSerialize(e)
      [] e.type = "AlreadyExists"   -> AlreadyExistsSerialize(e)
      [] e.type = "Unprepared"      -> UnpreparedSerialize(e)
      [] OTHER                      -> <<>>

\* 0x1000 and so on.
ErrorCode ==
    [Server |-> 0, Protocol |-> 10, Authentication |-> 256, Unavailable |-> 4096, Overloaded |-> 4097,
     IsBootstrapping |-> 4098, Truncate |-> 4099, WriteTimeout |-> 4352, ReadTimeout |-> 4608,
     ReadFailure |-> 4864, FunctionFailure |-> 5120, WriteFailure |-> 5376, Syntax |-> 8192,
     Unauthorized |-> 8448, Invalid |-> 8704, Config |-> 8960, AlreadyExists |-> 9216, Unprepared |-> 9472]

ErrorTypeFromCursor(in, code, version) ==
    CASE code = 0    -> With(Begin(in), "type", "Server")
      [] code = 10   -> With(Begin(in), "type", "Protocol")
      [] code = 256  -> With(Begin(in), "type", "Authentication")
      [] code = 4096 -> With(UnavailableFromCursor(in), "type", "Unavailable")
      [] code = 4097 -> With(Begin(in), "type", "Overloaded")
      [] code = 4098 -> With(Begin(in), "type", "IsBootstrapping")
      [] code = 4099 -> With(Begin(in), "type", "Truncate")
      [] code = 4352 -> With(WriteTimeoutFromCursor(in), "type", "WriteTimeout")
      [] code = 4608 -> With(ReadTimeoutFromCursor(in), "type", "ReadTimeout")
      [] code = 4864 -> With(ReadFailureFromCursor(in, version), "type", "ReadFailure")
      [] code = 5120 -> With(FunctionFailureFromCursor(in), "type", "FunctionFailure")
      [] code = 5376 -> With(WriteFailureFromCursor(in, version), "type", "WriteFailure")
      [] code = 8192 -> With(Begin(in), "type", "Syntax")
      [] code = 8448 -> With(Begin(in), "type", "Unauthorized")
      [] code = 8704 -> With(Begin(in), "type", "Invalid")
      [] code = 8960 -> With(Begin(in), "type", "Config")
      [] code = 9216 -> With(AlreadyExistsFromCursor(in), "type", "AlreadyExists")
      [] code = 9472 -> With(UnpreparedFromCursor(in), "type", "Unprepared")
      [] OTHER       -> Err

ErrorBodySerialize(b) ==
    CInt(ErrorCode[b.ty.type]) \o serialize_str(b.message) \o ErrorTypeSerialize(b.ty)
ErrorBodyFromCursor(in, version) ==
    Then(ReadCell(in, "int"), LAMBDA code :
        Field(Struct(code.in, <<<<"message", "string">>>>), "ty",
              LAMBDA i : ErrorTypeFromCursor(i, code.val, version)))

-----------------------------------------------------------------------------
(***************************************************************************)
(* Events.                                                                 *)
(***************************************************************************)
TopologyChangeTypeStr == [NewNode |-> "NEW_NODE", RemovedNode |-> "REMOVED_NODE"]
TopologyChangeTypeOf == [NEW_NODE |-> "NewNode", REMOVED_NODE |-> "RemovedNode"]
TopologyChangeSerialize(t) == serialize_str(TopologyChangeTypeStr[t.change_type]) \o SocketAddrSerialize(t.addr)
TopologyChangeFromCursor(in) ==
    Field(Field(Begin(in), "change_type", LAMBDA i : TryFrom(ReadCell(i, "string"), TopologyChangeTypeOf)),
          "addr", SocketAddrFromCursor)

StatusChangeTypeStr == [Up |-> "UP", Down |-> "DOWN"]
StatusChangeTypeOf == [UP |-> "Up", DOWN |-> "Down"]
StatusChangeSerialize(s) == serialize_str(StatusChangeTypeStr[s.change_type]) \o SocketAddrSerialize(s.addr)
StatusChangeFromCursor(in) ==
    Field(Field(Begin(in), "change_type", LAMBDA i : TryFrom(ReadCell(i, "string"), StatusChangeTypeOf)),
          "addr", SocketAddrFromCursor)

SchemaChangeTypeStr == [Created |-> "CREATED", Updated |-> "UPDATED", Dropped |-> "DROPPED"]
SchemaChangeTypeOf == [CREATED |-> "Created", UPDATED |-> "Updated", DROPPED |-> "Dropped"]
SchemaChangeTargetStr ==
    [Keyspace |-> "KEYSPACE", Table |-> "TABLE", Type |-> "TYPE", Function |-> "FUNCTION",
     Aggregate |-> "AGGREGATE"]
SchemaChangeTargetOf ==
    [KEYSPACE |-> "Keyspace", TABLE |-> "Table", TYPE |-> "Type", FUNCTION |-> "Function",
     AGGREGATE |-> "Aggregate"]

SchemaChangeOptionsSerialize(o) ==
    CASE o.type = "Keyspace"          -> serialize_str(o.ks)
      [] o.type = "TableType"         -> serialize_str(o.ks) \o serialize_str(o.name)
      [] o.type = "FunctionAggregate" ->
             serialize_str(o.ks) \o serialize_str(o.name) \o serialize_str_list(o.types)

\* from_cursor_and_target: the target says which options follow.
OptionsKeyspaceFromCursor(in) == With(Struct(in, <<<<"ks", "string">>>>), "type", "Keyspace")
OptionsTableTypeFromCursor(in) ==
    With(Struct(in, <<<<"ks", "string">>, <<"name", "string">>>>), "type", "TableType")
OptionsFunctionAggregateFromCursor(in) ==
    With(Struct(in, <<<<"ks", "string">>, <<"name", "string">>, <<"types", "string list">>>>),
         "type", "FunctionAggregate")
SchemaChangeOptionsFromCursor(in, target) ==
    CASE target = "Keyspace"                   -> OptionsKeyspaceFromCursor(in)
      [] target \in {"Table", "Type"}          -> OptionsTableTypeFromCursor(in)
      [] target \in {"Function", "Aggregate"}  -> OptionsFunctionAggregateFromCursor(in)

SchemaChangeSerialize(s) ==
    serialize_str(SchemaChangeTypeStr[s.change_type]) \o serialize_str(SchemaChangeTargetStr[s.target])
    \o SchemaChangeOptionsSerialize(s.options)
SchemaChangeFromCursor(in) ==
    LET type == Field(Begin(in), "change_type", LAMBDA i : TryFrom(ReadCell(i, "string"), SchemaChangeTypeOf))
        target == Field(type, "target", LAMBDA i : TryFrom(ReadCell(i, "string"), SchemaChangeTargetOf))
    IN Field(target, "options", LAMBDA i : SchemaChangeOptionsFromCursor(i, target.val.target))

ServerEventSerialize(e) ==
    CASE e.type = "TopologyChange" -> serialize_str("TOPOLOGY_CHANGE") \o TopologyChangeSerialize(e)
      [] e.type = "StatusChange"   -> serialize_str("STATUS_CHANGE") \o StatusChangeSerialize(e)
      [] e.type = "SchemaChange"   -> serialize_str("SCHEMA_CHANGE") \o SchemaChangeSerialize(e)
ServerEventFromCursor(in) ==
    Then(ReadCell(in, "string"), LAMBDA type :
        CASE type.val = "TOPOLOGY_CHANGE" -> With(TopologyChangeFromCursor(type.in), "type", "TopologyChange")
          [] type.val = "STATUS_CHANGE"   -> With(StatusChangeFromCursor(type.in), "type", "StatusChange")
          [] type.val = "SCHEMA_CHANGE"   -> With(SchemaChangeFromCursor(type.in), "type", "SchemaChange")
          [] OTHER                        -> Err)

-----------------------------------------------------------------------------
(***************************************************************************)
(* Column types: an id and, for some, more types.                          *)
(***************************************************************************)
ColTypeCode ==
    [Custom |-> 0, Ascii |-> 1, Bigint |-> 2, Blob |-> 3, Boolean |-> 4, Counter |-> 5, Decimal |-> 6,
     Double |-> 7, Float |-> 8, Int |-> 9, Timestamp |-> 11, Uuid |-> 12, Varchar |-> 13, Varint |-> 14,
     Timeuuid |-> 15, Inet |-> 16, Date |-> 17, Time |-> 18, Smallint |-> 19, Tinyint |-> 20,
     Duration |-> 21, List |-> 32, Map |-> 33, Set |-> 34, Udt |-> 48, Tuple |-> 49]
ColTypeOf ==
    (0 :> "Custom") @@ (1 :> "Ascii") @@ (2 :> "Bigint") @@ (3 :> "Blob") @@ (4 :> "Boolean")
    @@ (5 :> "Counter") @@ (6 :> "Decimal") @@ (7 :> "Double") @@ (8 :> "Float") @@ (9 :> "Int")
    @@ (11 :> "Timestamp") @@ (12 :> "Uuid") @@ (13 :> "Varchar") @@ (14 :> "Varint")
    @@ (15 :> "Timeuuid") @@ (16 :> "Inet") @@ (17 :> "Date") @@ (18 :> "Time") @@ (19 :> "Smallint")
    @@ (20 :> "Tinyint") @@ (21 :> "Duration") @@ (32 :> "List") @@ (33 :> "Map") @@ (34 :> "Set")
    @@ (48 :> "Udt") @@ (49 :> "Tuple") @@ (128 :> "Varchar")

ColTypeSerialize(id) == CIntShort(ColTypeCode[id])
ColTypeFromCursor(in) == TryFrom(ReadCell(in, "short"), ColTypeOf)

RECURSIVE ColTypeOptionSerialize(_)
CUdtSerialize(u) ==
    FoldLeft(LAMBDA cells, d : cells \o serialize_str(d.name) \o ColTypeOptionSerialize(d.col_type),
             serialize_str(u.ks) \o serialize_str(u.udt_name) \o CIntShort(Len(u.descriptions)),
             u.descriptions)
CTupleSerialize(t) ==
    FoldLeft(LAMBDA cells, ty : cells \o ColTypeOptionSerialize(ty), CIntShort(Len(t.types)), t.types)
ColTypeOptionValueSerialize(v) ==
    CASE v.type = "CString"          -> serialize_str(v.text)
      [] v.type \in {"CSet", "CList"} -> ColTypeOptionSerialize(v.of)
      [] v.type = "UdtType"          -> CUdtSerialize(v)
      [] v.type = "TupleType"        -> CTupleSerialize(v)
      [] v.type = "CMap"             -> ColTypeOptionSerialize(v.key) \o ColTypeOptionSerialize(v.of)
ColTypeOptionSerialize(c) == ColTypeSerialize(c.id) \o IfSome(c.value, ColTypeOptionValueSerialize)

RECURSIVE ColTypeOptionFromCursor(_)
CUdtFromCursor(in) ==
    Field(Struct(in, <<<<"ks", "string">>, <<"udt_name", "string">>>>), "descriptions", LAMBDA i :
        Then(ReadCell(i, "short"), LAMBDA n : Repeat(n.in, n.val, LAMBDA j :
            Field(Struct(j, <<<<"name", "string">>>>), "col_type", ColTypeOptionFromCursor))))
CTupleFromCursor(in) ==
    Field(Begin(in), "types", LAMBDA i :
        Then(ReadCell(i, "short"), LAMBDA n : Repeat(n.in, n.val, ColTypeOptionFromCursor)))
CMapFromCursor(in) ==
    Field(Field(Begin(in), "key", ColTypeOptionFromCursor), "of", ColTypeOptionFromCursor)
COfFromCursor(in) == Field(Begin(in), "of", ColTypeOptionFromCursor)
ColTypeOptionFromCursor(in) ==
    LET id == Field(Begin(in), "id", ColTypeFromCursor)
        Value(i) == CASE id.val.id = "Custom" -> With(Struct(i, <<<<"text", "string">>>>), "type", "CString")
                      [] id.val.id = "Set"    -> With(COfFromCursor(i), "type", "CSet")
                      [] id.val.id = "List"   -> With(COfFromCursor(i), "type", "CList")
                      [] id.val.id = "Udt"    -> With(CUdtFromCursor(i), "type", "UdtType")
                      [] id.val.id = "Tuple"  -> With(CTupleFromCursor(i), "type", "TupleType")
                      [] id.val.id = "Map"    -> With(CMapFromCursor(i), "type", "CMap")
                      [] OTHER                -> Ok(i, None)
    IN Field(id, "value", Value)

-----------------------------------------------------------------------------
(***************************************************************************)
(* Results.                                                                *)
(***************************************************************************)
TableSpecSerialize(t) == serialize_str(t.ks_name) \o serialize_str(t.table_name)
TableSpecFromCursor(in) == Struct(in, <<<<"ks_name", "string">>, <<"table_name", "string">>>>)

ColSpecSerialize(c) ==
    IfSome(c.table_spec, TableSpecSerialize) \o serialize_str(c.name) \o ColTypeOptionSerialize(c.col_type)
ParseColSpecs(in, column_count, has_global_table_space) ==
    Repeat(in, column_count, LAMBDA i :
        LET spec == Option(Begin(i), "table_spec", ~has_global_table_space, TableSpecFromCursor)
        IN Field(Fields(spec, <<<<"name", "string">>>>), "col_type", ColTypeOptionFromCursor))
ColSpecsSerialize(specs) == FoldLeft(LAMBDA cells, c : cells \o ColSpecSerialize(c), <<>>, specs)

RowsMetadataFlags ==
    [GLOBAL_TABLE_SPACE |-> 1, HAS_MORE_PAGES |-> 2, NO_METADATA |-> 4, METADATA_CHANGED |-> 8]
RowsMetadataFlagsSerialize(flags) == CInt(Bits(flags, RowsMetadataFlags))
RowsMetadataFlagsFromCursor(in) ==
    Then(ReadCell(in, "int"), LAMBDA n : Ok(n.in, FromBitsTruncate(n.val, RowsMetadataFlags)))

\* The assertions serialize begins with; a panic if they do not hold.
RowsMetadataAsserted(m) ==
    /\ ("HAS_MORE_PAGES" \in m.flags) = (m.paging_state # None)
    /\ IF "NO_METADATA" \in m.flags THEN m.global_table_spec = None /\ m.col_specs = <<>>
       ELSE /\ m.col_specs # <<>>
            /\ "GLOBAL_TABLE_SPACE" \notin m.flags => m.global_table_spec = None
RowsMetadataSerialize(m) ==
    RowsMetadataFlagsSerialize(m.flags) \o CInt(m.columns_count) \o IfSome(m.paging_state, CBytesSerialize)
    \o IfSome(m.new_metadata_id, CBytesShortSerialize) \o IfSome(m.global_table_spec, TableSpecSerialize)
    \o ColSpecsSerialize(m.col_specs)
RowsMetadataFromCursor(in) ==
    Then(Fields(Field(Begin(in), "flags", RowsMetadataFlagsFromCursor), <<<<"columns_count", "int">>>>), LAMBDA head :
        LET Has(flag) == flag \in head.val.flags
            paging == Option(head, "paging_state", Has("HAS_MORE_PAGES"), CBytesFromCursor)
            id == Option(paging, "new_metadata_id", Has("METADATA_CHANGED"), LAMBDA i : ReadCell(i, "short bytes"))
            global == Option(id, "global_table_spec", Has("GLOBAL_TABLE_SPACE"), TableSpecFromCursor)
        IN IF Has("NO_METADATA")
           THEN With(With(With(paging, "new_metadata_id", None), "global_table_spec", None), "col_specs", <<>>)
           ELSE Field(global, "col_specs",
                      LAMBDA i : ParseColSpecs(i, head.val.columns_count, Has("GLOBAL_TABLE_SPACE"))))

BodyResResultRowsSerialize(b) ==
    FoldLeft(LAMBDA cells, value : cells \o CBytesSerialize(value),
             RowsMetadataSerialize(b.metadata) \o CInt(b.rows_count), FlattenSeq(b.rows_content))
RowsContent(in, rows_count, columns_count) ==
    Repeat(in, rows_count, LAMBDA i : Repeat(i, columns_count, CBytesFromCursor))
BodyResResultRowsFromCursor(in, version) ==
    Then(Fields(Field(Begin(in), "metadata", RowsMetadataFromCursor), <<<<"rows_count", "int">>>>), LAMBDA head :
        With(Field(head, "rows_content",
                   LAMBDA i : RowsContent(i, head.val.rows_count, head.val.metadata.columns_count)),
             "protocol_version", version))

PreparedMetadataFlags == [GLOBAL_TABLE_SPACE |-> 1]

\* The number of partition key indexes is always written, and read from
\* version 4 on.
PreparedMetadataSerialize(m) ==
    CInt(Bits(IF m.global_table_spec # None THEN {"GLOBAL_TABLE_SPACE"} ELSE {}, PreparedMetadataFlags))
    \o CInt(Len(m.col_specs))
    \o FoldLeft(LAMBDA cells, i : cells \o CIntShort(i), CInt(Len(m.pk_indexes)), m.pk_indexes)
    \o IfSome(m.global_table_spec, TableSpecSerialize) \o ColSpecsSerialize(m.col_specs)
PreparedMetadataFromCursor(in, version) ==
    Then(Struct(in, <<<<"flags", "int">>, <<"columns_count", "int">>>>), LAMBDA head :
        LET has_global_table_space == "GLOBAL_TABLE_SPACE" \in FromBitsTruncate(head.val.flags, PreparedMetadataFlags)
            pk == Field(Begin(head.in), "pk_indexes", LAMBDA i :
                      IF version = 3 THEN Ok(i, <<>>)
                      ELSE Then(ReadCell(i, "int"), LAMBDA n :
                               Repeat(n.in, n.val, LAMBDA j : ReadCell(j, "short"))))
            global == Option(pk, "global_table_spec", has_global_table_space, TableSpecFromCursor)
        IN Field(global, "col_specs",
                 LAMBDA i : ParseColSpecs(i, head.val.columns_count, has_global_table_space)))

BodyResResultPreparedSerialize(b) ==
    CBytesShortSerialize(b.id) \o IfSome(b.result_metadata_id, CBytesShortSerialize)
    \o PreparedMetadataSerialize(b.metadata) \o RowsMetadataSerialize(b.result_metadata)
BodyResResultPreparedFromCursor(in, version) ==
    LET id == Option(Struct(in, <<<<"id", "short bytes">>>>), "result_metadata_id", version = 5,
                     LAMBDA i : ReadCell(i, "short bytes"))
        metadata == Field(id, "metadata", LAMBDA i : PreparedMetadataFromCursor(i, version))
    IN Field(metadata, "result_metadata", RowsMetadataFromCursor)

BodyResResultSetKeyspaceSerialize(b) == serialize_str(b.body)
BodyResResultSetKeyspaceFromCursor(in) == Struct(in, <<<<"body", "string">>>>)

ResultKindCode == [Void |-> 1, Rows |-> 2, SetKeyspace |-> 3, Prepared |-> 4, SchemaChange |-> 5]
ResultKindOf == <<"Void", "Rows", "SetKeyspace", "Prepared", "SchemaChange">>

ResResultBodySerialize(b) ==
    CInt(ResultKindCode[b.kind])
    \o CASE b.kind = "Void"         -> <<>>
         [] b.kind = "Rows"         -> BodyResResultRowsSerialize(b)
         [] b.kind = "SetKeyspace"  -> BodyResResultSetKeyspaceSerialize(b)
         [] b.kind = "Prepared"     -> BodyResResultPreparedSerialize(b)
         [] b.kind = "SchemaChange" -> SchemaChangeSerialize(b)
ParseBodyFromCursor(in, kind, version) ==
    CASE kind = "Void"         -> Begin(in)
      [] kind = "Rows"         -> BodyResResultRowsFromCursor(in, version)
      [] kind = "SetKeyspace"  -> BodyResResultSetKeyspaceFromCursor(in)
      [] kind = "Prepared"     -> BodyResResultPreparedFromCursor(in, version)
      [] kind = "SchemaChange" -> SchemaChangeFromCursor(in)
ResResultBodyFromCursor(in, version) ==
    Then(TryFrom(ReadCell(in, "int"), ResultKindOf), LAMBDA kind :
        With(ParseBodyFromCursor(kind.in, kind.val, version), "kind", kind.val))

-----------------------------------------------------------------------------
\* Options by name, each with the values the server supports.
BodyResSupportedSerialize(s) ==
    FoldLeft(LAMBDA cells, key : cells \o serialize_str(key) \o serialize_str_list(s.data[key]),
             CIntShort(Cardinality(DOMAIN s.data)), SetToSeq(DOMAIN s.data))
BodyResSupportedFromCursor(in) ==
    Field(Begin(in), "data", LAMBDA i :
        Then(ReadCell(i, "short"), LAMBDA n :
            Then(Repeat(n.in, n.val, LAMBDA j : Struct(j, <<<<"name", "string">>, <<"val", "string list">>>>)),
                 LAMBDA r : Ok(r.in, [name \in {p.name : p \in Range(r.val)} |->
                                         (CHOOSE p \in Range(r.val) : p.name = name).val]))))

BodyResAuthenticateSerialize(a) == serialize_str(a.data)
BodyResAuthenticateFromCursor(in) == Struct(in, <<<<"data", "string">>>>)
BodyResAuthChallengeSerialize(a) == CBytesSerialize(a.data)
BodyResAuthChallengeFromCursor(in) == Struct(in, <<<<"data", "bytes">>>>)
BodyReqAuthSuccessSerialize(a) == CBytesSerialize(a.data)
BodyReqAuthSuccessFromCursor(in) == Struct(in, <<<<"data", "bytes">>>>)
BodyResEventSerialize(b) == ServerEventSerialize(b.event)
BodyResEventFromCursor(in) == Field(Begin(in), "event", ServerEventFromCursor)

ResponseBodySerialize(b) ==
    CASE b.opcode = "Error"         -> ErrorBodySerialize(b)
      [] b.opcode = "Ready"         -> <<>>
      [] b.opcode = "Authenticate"  -> BodyResAuthenticateSerialize(b)
      [] b.opcode = "Supported"     -> BodyResSupportedSerialize(b)
      [] b.opcode = "Result"        -> ResResultBodySerialize(b)
      [] b.opcode = "Event"         -> BodyResEventSerialize(b)
      [] b.opcode = "AuthChallenge" -> BodyResAuthChallengeSerialize(b)
      [] b.opcode = "AuthSuccess"   -> BodyReqAuthSuccessSerialize(b)
ResponseBodyTryFrom(in, opcode, version) ==
    CASE opcode = "Error"         -> ErrorBodyFromCursor(in, version)
      [] opcode = "Ready"         -> Begin(in)
      [] opcode = "Authenticate"  -> BodyResAuthenticateFromCursor(in)
      [] opcode = "Supported"     -> BodyResSupportedFromCursor(in)
      [] opcode = "Result"        -> ResResultBodyFromCursor(in, version)
      [] opcode = "Event"         -> BodyResEventFromCursor(in)
      [] opcode = "AuthChallenge" -> BodyResAuthChallengeFromCursor(in)
      [] opcode = "AuthSuccess"   -> BodyReqAuthSuccessFromCursor(in)
      [] OTHER                    -> Err
=============================================================================
