------------------------------ MODULE Messages ------------------------------
(***************************************************************************)
(* A client and a server that exchange message bodies in one version of    *)
(* the protocol: statements are put together with                          *)
(* statement/statement_params_builder.rs and query/batch_query_builder.rs, *)
(* prepared, executed and batched by session.rs, written and read by the   *)
(* message modules of cassandra-protocol.  Both ends are this crate: what  *)
(* one of them writes the other has to read as it was meant.               *)
(***************************************************************************)
EXTENDS Requests, Responses

CONSTANTS
    Versions,           \* the versions of the protocol a session may use
    Texts, Tables,      \* statements; keyspaces
    QueryValues,        \* values to bind, [names, vals]
    Levels,             \* consistencies
    Plain,              \* requests nobody builds: startup, options, ...
    Answers,            \* what a server may answer
    MaxCalls            \* bound on the calls of one builder

VARIABLES
    version,    \* of the session
    stage,      \* "open", "request", "served", "working", "response", "answered"
    builder,    \* StatementParamsBuilder or BatchQueryBuilder, or None
    calls,      \* made of the builder
    misnamed,   \* history: with_names said something else than the values do
    prepared,   \* the client's PreparedQuery, or None
    message,    \* what was written last
    body,       \* the cells it was written as
    read        \* what was read of them

vars == <<version, stage, builder, calls, misnamed, prepared, message, body, read>>
exchange == <<version, stage, prepared, message, body, read>>
building == <<builder, calls, misnamed>>

Init ==
    /\ version \in Versions
    /\ stage = "open" /\ builder = None /\ calls = 0 /\ misnamed = FALSE
    /\ prepared = None /\ message = None /\ body = <<>> /\ read = None

-----------------------------------------------------------------------------
(***************************************************************************)
(* The builders.                                                           *)
(***************************************************************************)
NewStatement ==
    [type |-> "statement", consistency |-> "One", values |-> None, with_names |-> FALSE,
     page_size |-> None, paging_state |-> None, serial_consistency |-> None, timestamp |-> None,
     keyspace |-> None, now_in_seconds |-> None]
NewBatch ==
    [type |-> "batch", batch_type |-> "Logged", queries |-> <<>>, consistency |-> "One",
     serial_consistency |-> None, timestamp |-> None, keyspace |-> None, now_in_seconds |-> None]

StatementParamsBuilderNew ==
    /\ stage = "open" /\ builder = None
    /\ builder' = NewStatement /\ UNCHANGED <<calls, misnamed, exchange>>
BatchQueryBuilderNew ==
    /\ stage = "open" /\ builder = None
    /\ builder' = NewBatch /\ UNCHANGED <<calls, misnamed, exchange>>

Building(type) == stage = "open" /\ builder # None /\ builder.type = type /\ calls < MaxCalls
Apply(b) == builder' = b /\ calls' = calls + 1 /\ UNCHANGED exchange
Call(b) == Apply(b) /\ UNCHANGED misnamed

\* Faulty variant: whether values have names is only said by with_names.
WithValuesOnly ==
    /\ Building("statement")
    /\ \E v \in QueryValues : Apply([builder EXCEPT !.values = v])
    /\ misnamed' = FALSE

WithValues ==
    /\ Building("statement")
    /\ \E v \in QueryValues : Apply([builder EXCEPT !.values = v, !.with_names = HasNames(v)])
    /\ misnamed' = FALSE
WithNames ==
    /\ Building("statement")
    /\ \E n \in BOOLEAN :
          /\ Apply([builder EXCEPT !.with_names = n])
          /\ misnamed' = (builder.values # None /\ n # HasNames(builder.values))
WithPageSize == Building("statement") /\ Call([builder EXCEPT !.page_size = 1])
WithPagingState == Building("statement") /\ Call([builder EXCEPT !.paging_state = "page"])
WithConsistency == Building("statement") /\ \E c \in Levels : Call([builder EXCEPT !.consistency = c])
WithSerialConsistency ==
    Building("statement") /\ \E c \in Levels : Call([builder EXCEPT !.serial_consistency = c])
WithTimestamp == Building("statement") /\ Call([builder EXCEPT !.timestamp = 2])
WithKeyspace == Building("statement") /\ \E k \in Tables : Call([builder EXCEPT !.keyspace = k])
WithNowInSeconds == Building("statement") /\ Call([builder EXCEPT !.now_in_seconds = 3])

StatementStep ==
    \/ StatementParamsBuilderNew \/ WithValues \/ WithNames \/ WithPageSize \/ WithPagingState
    \/ WithConsistency \/ WithSerialConsistency \/ WithTimestamp \/ WithKeyspace \/ WithNowInSeconds

AddQuery ==
    /\ Building("batch")
    /\ \E text \in Texts, v \in QueryValues :
          Call([builder EXCEPT !.queries = Append(@, [prepared |-> FALSE, subject |-> text, values |-> v])])
AddQueryPrepared ==
    /\ Building("batch") /\ prepared # None
    /\ \E v \in QueryValues :
          Call([builder EXCEPT !.queries = Append(@, [prepared |-> TRUE, subject |-> prepared.id, values |-> v])])
ClearQueries == Building("batch") /\ Call([builder EXCEPT !.queries = <<>>])
WithBatchType == Building("batch") /\ \E t \in DOMAIN BatchTypeCode : Call([builder EXCEPT !.batch_type = t])
BatchWithConsistency == Building("batch") /\ \E c \in Levels : Call([builder EXCEPT !.consistency = c])
BatchWithSerialConsistency ==
    Building("batch") /\ \E c \in Levels : Call([builder EXCEPT !.serial_consistency = c])
BatchWithTimestamp == Building("batch") /\ Call([builder EXCEPT !.timestamp = 2])
BatchWithKeyspace == Building("batch") /\ \E k \in Tables : Call([builder EXCEPT !.keyspace = k])
BatchWithNowInSeconds == Building("batch") /\ Call([builder EXCEPT !.now_in_seconds = 3])

BatchStep ==
    \/ BatchQueryBuilderNew \/ AddQuery \/ AddQueryPrepared \/ ClearQueries \/ WithBatchType
    \/ BatchWithConsistency \/ BatchWithSerialConsistency \/ BatchWithTimestamp \/ BatchWithKeyspace
    \/ BatchWithNowInSeconds

\* StatementParamsBuilder::build
BuildStatement == [f \in DOMAIN builder \ {"type"} |-> builder[f]]

\* BatchQueryBuilder::build refuses a batch with and without names.
BuildBatch ==
    LET Named == {i \in DOMAIN builder.queries : HasNames(builder.queries[i].values)}
    IN IF Named # DOMAIN builder.queries /\ Named # {} THEN None
       ELSE [f \in DOMAIN builder \ {"type"} |-> builder[f]]

-----------------------------------------------------------------------------
(***************************************************************************)
(* Requests.  Envelope::new_req_... writes the body.                       *)
(***************************************************************************)
NewReq(request) ==
    /\ message' = request /\ body' = RequestBodySerialize(request, version)
    /\ stage' = "request" /\ builder' = None /\ calls' = 0
    /\ UNCHANGED <<version, misnamed, prepared, read>>

Built(type) == stage = "open" /\ builder # None /\ builder.type = type

QueryWithParams ==
    /\ Built("statement")
    /\ \E text \in Texts : NewReq([opcode |-> "Query", query |-> text, query_params |-> BuildStatement])
ExecWithParams ==
    /\ Built("statement") /\ prepared # None
    /\ NewReq([opcode |-> "Execute", id |-> prepared.id, result_metadata_id |-> prepared.result_metadata_id,
               query_parameters |-> BuildStatement])
BatchWithParams ==
    /\ Built("batch") /\ BuildBatch # None
    /\ NewReq(("opcode" :> "Batch") @@ BuildBatch)
BatchRefused ==
    /\ Built("batch") /\ BuildBatch = None
    /\ builder' = None /\ calls' = 0 /\ UNCHANGED <<misnamed, exchange>>
PrepareRaw ==
    /\ stage = "open" /\ builder = None
    /\ \E text \in Texts, ks \in Tables \cup {None} :
          NewReq([opcode |-> "Prepare", query |-> text, keyspace |-> ks])
NewReqStartup ==
    /\ stage = "open" /\ builder = None
    /\ \E c \in {None, "lz4", "snappy"} : NewReq([opcode |-> "Startup", map |-> BodyReqStartup(c, version)])
NewReqPlain == stage = "open" /\ builder = None /\ \E q \in Plain : NewReq(q)

RequestStep ==
    \/ QueryWithParams \/ ExecWithParams \/ BatchWithParams \/ BatchRefused \/ PrepareRaw
    \/ NewReqStartup \/ NewReqPlain

ServerReads ==
    /\ stage = "request"
    /\ read' = RequestBodyTryFrom(body, message.opcode, version)
    /\ stage' = "served" /\ UNCHANGED <<version, building, prepared, message, body>>

\* The server goes about it; a request it cannot read is answered as well.
ServerWorks ==
    /\ stage = "served"
    /\ message' = [opcode |-> message.opcode] /\ body' = <<>> /\ read' = None
    /\ misnamed' = FALSE
    /\ stage' = "working" /\ UNCHANGED <<version, builder, calls, prepared>>

-----------------------------------------------------------------------------
(***************************************************************************)
(* Responses.                                                              *)
(***************************************************************************)
IsPrepared(r) == r.opcode = "Result" /\ r.kind = "Prepared"
IsRows(r) == r.opcode = "Result" /\ r.kind = "Rows"
Answering ==
    {r \in Answers : /\ IsPrepared(r) => message.opcode = "Prepare"
                     /\ IsRows(r) => r.protocol_version = version}

\* Whether serialize goes through.
Writable(r) ==
    /\ IsRows(r) => RowsMetadataAsserted(r.metadata)
    /\ IsPrepared(r) => RowsMetadataAsserted(r.result_metadata)

ServerResponds ==
    /\ stage = "working"
    /\ \E r \in Answering :
          /\ Writable(r)
          /\ message' = r /\ body' = ResponseBodySerialize(r)
    /\ stage' = "response" /\ UNCHANGED <<version, building, prepared, read>>
ServerPanics ==
    /\ stage = "working" /\ \E r \in Answering : ~Writable(r)
    /\ stage' = "open" /\ message' = None /\ UNCHANGED <<version, building, prepared, body, read>>

\* Session::prepare_tw
PreparedQuery(p) ==
    [id |-> p.id, result_metadata_id |-> p.result_metadata_id, pk_indexes |-> p.metadata.pk_indexes,
     keyspace |-> IF p.metadata.global_table_spec = None THEN None ELSE p.metadata.global_table_spec.ks_name]

ClientReads ==
    LET r == ResponseBodyTryFrom(body, message.opcode, version) IN
    /\ stage = "response"
    /\ read' = r
    /\ prepared' = IF r.ok /\ IsPrepared(message) THEN PreparedQuery(r.val) ELSE prepared
    /\ stage' = "answered" /\ UNCHANGED <<version, building, message, body>>

Again ==
    /\ stage = "answered"
    /\ stage' = "open" /\ message' = None /\ body' = <<>> /\ read' = None
    /\ UNCHANGED <<version, building, prepared>>

Next ==
    \/ StatementStep \/ BatchStep \/ RequestStep
    \/ ServerReads \/ ServerWorks \/ ServerResponds \/ ServerPanics \/ ClientReads \/ Again

Spec == Init /\ [][Next]_vars

-----------------------------------------------------------------------------
(***************************************************************************)
(* Properties.                                                             *)
(***************************************************************************)
Understood == read.ok /\ read.in = <<>> /\ read.val @@ ("opcode" :> message.opcode) = message

Bindable(values) == \A i \in DOMAIN values.vals : values.vals[i] # Empty
Dated(p) == p.now_in_seconds # None => version >= V5

\* The requests that say the same to both ends.
Coherent(q) ==
    LET ParamsCoherent(p) == /\ p.values # None => ~misnamed /\ Bindable(p.values)
                             /\ Dated(p)
    IN CASE q.opcode = "Query"   -> ParamsCoherent(q.query_params)
         [] q.opcode = "Execute" -> ParamsCoherent(q.query_parameters)
         [] q.opcode = "Prepare" -> q.keyspace # None => version >= V5
         [] q.opcode = "Batch"   -> /\ Dated(q)
                                    /\ \A i \in DOMAIN q.queries :
                                          ~HasNames(q.queries[i].values) /\ Bindable(q.queries[i].values)
         [] OTHER                -> TRUE

\* A server reads exactly the request that the client built, in whatever
\* order the methods of the builder were called and with the prepared
\* statement it got from the server before, unless the request is one of
\* these: with_names was called after with_values and contradicts them
\* (statement_params_builder.rs:75), a value has no bytes at all
\* (value.rs:54), a batch has named values (message_batch.rs:223), or the
\* version has no place for "now in seconds" (query_flags.rs:45) or for the
\* keyspace of a prepare request (message_prepare.rs:28).  Every one of
\* these is read as something else, or not at all.
RequestsAreUnderstood == stage = "served" => (Understood <=> Coherent(message))

\* The metadata whose flags say what there is, which the assertions of
\* serialize are about.
MetadataCoherent(m) ==
    IF "NO_METADATA" \in m.flags THEN m.new_metadata_id = None
    ELSE /\ ("METADATA_CHANGED" \in m.flags) = (m.new_metadata_id # None)
         /\ ("GLOBAL_TABLE_SPACE" \in m.flags) = (m.global_table_spec # None)
         /\ \A i \in DOMAIN m.col_specs :
               ("GLOBAL_TABLE_SPACE" \in m.flags) = (m.col_specs[i].table_spec = None)
         /\ m.columns_count = Len(m.col_specs)

ErrorCoherent(e) ==
    /\ e.type \in {"ReadFailure", "WriteFailure"} =>
          e.failure_info.type = (IF version >= V5 THEN "ReasonMap" ELSE "NumFailures")
    /\ e.type = "WriteTimeout" => (e.contentions # None) = (e.write_type = [type |-> "Cas"])

CoherentAnswer(r) ==
    CASE IsRows(r)      -> MetadataCoherent(r.metadata)
      [] IsPrepared(r)  -> /\ version # 3 /\ (r.result_metadata_id # None) = (version = V5)
                           /\ \A i \in DOMAIN r.metadata.col_specs :
                                 (r.metadata.global_table_spec # None)
                                     = (r.metadata.col_specs[i].table_spec = None)
                           /\ MetadataCoherent(r.result_metadata)
      [] r.opcode = "Error" -> ErrorCoherent(r.ty)
      [] OTHER          -> TRUE

\* The client reads exactly the response that the server wrote, unless its
\* parts contradict each other or the version: flags of metadata that are
\* not asserted (message_result.rs:304), failures without their reasons from
\* version 5 on and with them before (message_error.rs:67), contentions of
\* a write that is no compare and set (message_error.rs:270), and a prepared
\* statement in version 3, whose number of partition keys is written and
\* not read (message_result.rs:877).
ResponsesAreUnderstood == stage = "answered" => (Understood <=> CoherentAnswer(message))
=============================================================================
