----------------------------- MODULE MCMessages -----------------------------
(***************************************************************************)
(* Every kind of message: all the errors, events and column types, and the *)
(* metadata of rows with every combination of flags and parts, most of     *)
(* which contradict each other.                                            *)
(***************************************************************************)
EXTENDS Messages

CONSTANT Token      \* bytes of an authenticator, the name of one

MCVersions == {3, 4, 5}
MCTexts == {"select"}
MCTables == {"ks"}
MCLevels == {"One", "LocalSerial"}
MCQueryValues ==
    {[names |-> FALSE, vals |-> v] : v \in {<<>>, <<"v">>, <<Null>>, <<"v", NotSet>>, <<Empty>>}}
    \cup {[names |-> TRUE, vals |-> [n |-> v]] : v \in {"v", Empty}}
    \cup {[names |-> TRUE, vals |-> [n |-> "v", m |-> Null]]}

MCPlain ==
    {[opcode |-> "Options"], [opcode |-> "AuthResponse", data |-> Token],
     [opcode |-> "Register", events |-> <<"TopologyChange", "StatusChange", "SchemaChange">>],
     [opcode |-> "Register", events |-> <<>>]}

Addrs == {[family |-> 4, ip |-> "ip4", port |-> 9042], [family |-> 16, ip |-> "ip6", port |-> 9042]}

-----------------------------------------------------------------------------
AckFields == [cl |-> "Quorum", received |-> 1, block_for |-> 2]
FailureInfos ==
    {[type |-> "NumFailures", count |-> 1]}
    \cup {[type |-> "ReasonMap", map |-> [a \in A |-> 7]] : A \in SUBSET Addrs}
WriteTypes == {[type |-> t] : t \in DOMAIN WriteTypeStr} \cup {[type |-> "Unknown", text |-> "NEW"]}

Errors ==
    {[type |-> t] : t \in {"Server", "Protocol", "Authentication", "Overloaded", "IsBootstrapping",
                           "Truncate", "Syntax", "Unauthorized", "Invalid", "Config"}}
    \cup {[type |-> "Unavailable", cl |-> c, required |-> 2, alive |-> 1] : c \in DOMAIN ConsistencyCode}
    \cup {AckFields @@ [type |-> "WriteTimeout", write_type |-> w, contentions |-> c] :
             w \in WriteTypes, c \in {None, 3}}
    \cup {AckFields @@ [type |-> "ReadTimeout", data_present |-> 1]}
    \cup {AckFields @@ [type |-> "ReadFailure", failure_info |-> f, data_present |-> 0] : f \in FailureInfos}
    \cup {AckFields @@ [type |-> "WriteFailure", failure_info |-> f, write_type |-> [type |-> "Simple"]] :
             f \in FailureInfos}
    \cup {[type |-> "FunctionFailure", keyspace |-> "ks", function |-> "f", arg_types |-> <<"int", "text">>],
          [type |-> "AlreadyExists", ks |-> "ks", table |-> "t"], [type |-> "Unprepared", id |-> "i"]}

SchemaChanges ==
    {[change_type |-> "Created", target |-> "Keyspace", options |-> [type |-> "Keyspace", ks |-> "ks"]]}
    \cup {[change_type |-> "Updated", target |-> t, options |-> [type |-> "TableType", ks |-> "ks", name |-> "n"]] :
             t \in {"Table", "Type"}}
    \cup {[change_type |-> "Dropped", target |-> t,
           options |-> [type |-> "FunctionAggregate", ks |-> "ks", name |-> "n", types |-> <<"int">>]] :
             t \in {"Function", "Aggregate"}}
Events ==
    {[type |-> "TopologyChange", change_type |-> c, addr |-> a] : c \in {"NewNode", "RemovedNode"}, a \in Addrs}
    \cup {[type |-> "StatusChange", change_type |-> c, addr |-> a] : c \in {"Up", "Down"}, a \in Addrs}
    \cup {("type" :> "SchemaChange") @@ s : s \in SchemaChanges}

-----------------------------------------------------------------------------
IntType == [id |-> "Int", value |-> None]
ListOf(t) == [id |-> "List", value |-> [type |-> "CList", of |-> t]]
Tuple == [id |-> "Tuple", value |-> [type |-> "TupleType", types |-> <<IntType, ListOf(IntType)>>]]
Udt == [id |-> "Udt", value |-> [type |-> "UdtType", ks |-> "ks", udt_name |-> "u",
                                 descriptions |-> <<[name |-> "f", col_type |-> Tuple]>>]]
ColTypes ==
    {[id |-> i, value |-> None] :
        i \in DOMAIN ColTypeCode \ {"Custom", "List", "Set", "Map", "Udt", "Tuple"}}
    \cup {[id |-> "Custom", value |-> [type |-> "CString", text |-> "class"]], Tuple, Udt, ListOf(Udt),
          [id |-> "Set", value |-> [type |-> "CSet", of |-> IntType]],
          [id |-> "Map", value |-> [type |-> "CMap", key |-> IntType, of |-> ListOf(IntType)]]}

Table == [ks_name |-> "ks", table_name |-> "t"]
Col(spec, t) == [table_spec |-> spec, name |-> "c", col_type |-> t]
Metadata ==
    [flags : SUBSET DOMAIN RowsMetadataFlags, columns_count : {1, 2}, paging_state : {None, "page"},
     new_metadata_id : {None, "r2"}, global_table_spec : {None, Table},
     col_specs : {<<>>, <<Col(None, IntType)>>, <<Col(Table, IntType)>>}]
NoMetadata ==
    [flags |-> {"NO_METADATA"}, columns_count |-> 0, paging_state |-> None, new_metadata_id |-> None,
     global_table_spec |-> None, col_specs |-> <<>>]
Typed(t) ==
    [flags |-> {"GLOBAL_TABLE_SPACE"}, columns_count |-> 1, paging_state |-> None, new_metadata_id |-> None,
     global_table_spec |-> Table, col_specs |-> <<Col(None, t)>>]

Rows(m, v) ==
    [opcode |-> "Result", kind |-> "Rows", metadata |-> m, rows_count |-> 2,
     rows_content |-> [i \in 1..2 |-> [j \in 1..m.columns_count |-> IF i = 1 THEN "v" ELSE Null]],
     protocol_version |-> v]
Prepared ==
    {[opcode |-> "Result", kind |-> "Prepared", id |-> "i", result_metadata_id |-> r,
      metadata |-> [pk_indexes |-> pk, global_table_spec |-> g, col_specs |-> c], result_metadata |-> m] :
        r \in {None, "r1"}, pk \in {<<>>, <<0>>}, g \in {None, Table},
        c \in {<<>>, <<Col(None, IntType)>>, <<Col(Table, IntType)>>}, m \in {NoMetadata, Typed(IntType)}}

MCAnswers ==
    {[opcode |-> "Ready"], [opcode |-> "Authenticate", data |-> Token],
     [opcode |-> "AuthChallenge", data |-> Token], [opcode |-> "AuthSuccess", data |-> Token],
     [opcode |-> "Supported", data |-> [CQL_VERSION |-> <<"3.0.0">>, COMPRESSION |-> <<"lz4", "snappy">>]],
     [opcode |-> "Result", kind |-> "Void"], [opcode |-> "Result", kind |-> "SetKeyspace", body |-> "ks"]}
    \cup {[opcode |-> "Error", message |-> "m", ty |-> e] : e \in Errors}
    \cup {[opcode |-> "Event", event |-> e] : e \in Events}
    \cup {[opcode |-> "Result", kind |-> "SchemaChange"] @@ s : s \in SchemaChanges}
    \cup {Rows(m, v) : v \in MCVersions, m \in Metadata \cup {NoMetadata} \cup {Typed(t) : t \in ColTypes}}
    \cup Prepared
=============================================================================
