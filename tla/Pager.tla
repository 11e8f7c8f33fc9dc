-------------------------------- MODULE Pager --------------------------------
(***************************************************************************)
(* Paged statements: QueryPager and ExecPager (cdrs-tokio/src/cluster/     *)
(* pager.rs) over Session::query_with_params and exec_with_params, and the *)
(* result metadata id that executions of one prepared statement share.     *)
(*                                                                         *)
(* Users page through the same rows, each with a pager of their own; a     *)
(* paging state is the number of rows before it.  The table does not       *)
(* change; the schema version, and with it the metadata id, does.  Calls   *)
(* fail before or after the server has answered.                           *)
(***************************************************************************)
EXTENDS Integers, Sequences

CONSTANTS
    NoValue,            \* Option::None
    Users,
    RowCount, PageSize,
    MaxAlters, MaxFailures, MaxEvictions

ASSUME PagingAssumption ==
    /\ RowCount \in Nat /\ PageSize \in Nat \ {0}
    /\ NoValue \notin Nat /\ NoValue \notin BOOLEAN

VARIABLES
    kind,               \* of a user's pager: "query" or "exec"
    pager_state,        \* PagerState: [cursor, has_more_pages]
    saved,              \* a copy the application keeps, with the rows before it
    rows,               \* the rows a user was given since the start
    call,               \* the call in progress: [pc, cursor, id]
    answer,             \* the server's answer on its way
    result_metadata_id, \* of the PreparedQuery
    version,            \* the server's metadata id
    known,              \* the server knows the statement
    alters, failures, evictions

pagingVars == <<kind, pager_state, saved, rows, call, answer, result_metadata_id,
                version, known, alters, failures, evictions>>
counters == <<alters, failures, evictions>>
serverVars == <<version, known>>
pagerVars == <<kind, pager_state, saved, rows>>

NewState == [cursor |-> NoValue, has_more_pages |-> NoValue]
HasMore(s) == s.has_more_pages = TRUE
Idle == [pc |-> "idle", cursor |-> NoValue, id |-> NoValue]

PagerInit ==
    /\ kind \in [Users -> {"query", "exec"}]
    /\ pager_state = [u \in Users |-> NewState]
    /\ saved = [u \in Users |-> NoValue]
    /\ rows = [u \in Users |-> <<>>]
    /\ call = [u \in Users |-> Idle]
    /\ answer = [u \in Users |-> NoValue]
    /\ result_metadata_id = 0 /\ version = 0 /\ known = TRUE
    /\ alters = 0 /\ failures = 0 /\ evictions = 0

-----------------------------------------------------------------------------
(***************************************************************************)
(* The application and its pager.                                          *)
(***************************************************************************)
Started(u) == pager_state[u].has_more_pages # NoValue

\* next(): the cursor, if there is one, is the paging state of the statement;
\* an execution carries the metadata id stored last.
CallNext(u) ==
    /\ call[u] = Idle /\ (Started(u) => HasMore(pager_state[u]))
    /\ call' = [call EXCEPT ![u] =
                   [pc |-> "sent", cursor |-> pager_state[u].cursor,
                    id |-> IF kind[u] = "exec" THEN result_metadata_id ELSE NoValue]]
    /\ UNCHANGED <<pagerVars, answer, result_metadata_id, serverVars, counters>>

\* The application keeps pager_state() and later goes on from it.
SaveState(u) ==
    /\ call[u] = Idle /\ saved[u] = NoValue
    /\ saved' = [saved EXCEPT ![u] = [state |-> pager_state[u], rows |-> rows[u]]]
    /\ UNCHANGED <<kind, pager_state, rows, call, answer, result_metadata_id, serverVars, counters>>

WithPagerState(u) ==
    /\ call[u] = Idle /\ saved[u] # NoValue
    /\ pager_state' = [pager_state EXCEPT ![u] = saved[u].state]
    /\ rows' = [rows EXCEPT ![u] = saved[u].rows]
    /\ saved' = [saved EXCEPT ![u] = NoValue]
    /\ UNCHANGED <<kind, call, answer, result_metadata_id, serverVars, counters>>

\* A new pager, when the last page was read.
NewPager(u) ==
    /\ call[u] = Idle /\ Started(u) /\ ~HasMore(pager_state[u])
    /\ pager_state' = [pager_state EXCEPT ![u] = NewState]
    /\ rows' = [rows EXCEPT ![u] = <<>>]
    /\ saved' = [saved EXCEPT ![u] = NoValue]
    /\ UNCHANGED <<kind, call, answer, result_metadata_id, serverVars, counters>>

-----------------------------------------------------------------------------
(***************************************************************************)
(* Answers.                                                                *)
(***************************************************************************)
\* Faulty variant: only the first change is stored.
StoreFirstId(u) ==
    result_metadata_id' = IF kind[u] = "exec" /\ answer[u].new_id # NoValue /\ result_metadata_id = 0
                          THEN answer[u].new_id ELSE result_metadata_id

\* exec_with_params: an id that came with the rows is stored for all.
StoreMetadataId(u) ==
    result_metadata_id' = IF kind[u] = "exec" /\ answer[u].new_id # NoValue
                          THEN answer[u].new_id ELSE result_metadata_id

\* Faulty variant: the flag is that of the page before.
StaleFlag(u) ==
    pager_state' = [pager_state EXCEPT ![u] = [cursor |-> answer[u].paging_state,
                                               has_more_pages |-> HasMore(pager_state[u])]]

\* The cursor and the flag are those of the page, and are set together.
UpdateState(u) ==
    pager_state' = [pager_state EXCEPT ![u] = [cursor |-> answer[u].paging_state,
                                               has_more_pages |-> answer[u].has_more_pages]]

RowsReceived(u) ==
    /\ answer[u] # NoValue /\ answer[u].kind = "rows"
    /\ StoreMetadataId(u)
    /\ UpdateState(u)
    /\ rows' = [rows EXCEPT ![u] = @ \o answer[u].rows]
    /\ call' = [call EXCEPT ![u] = Idle] /\ answer' = [answer EXCEPT ![u] = NoValue]
    /\ UNCHANGED <<kind, saved, serverVars, counters>>

\* The statement is prepared again on that node, and executed with the id
\* of this preparation, which is not stored.
Unprepared(u) ==
    /\ answer[u] # NoValue /\ answer[u].kind = "unprepared"
    /\ call' = [call EXCEPT ![u].pc = "prepare"] /\ answer' = [answer EXCEPT ![u] = NoValue]
    /\ UNCHANGED <<pagerVars, result_metadata_id, serverVars, counters>>

PreparedAgain(u) ==
    /\ answer[u] # NoValue /\ answer[u].kind = "prepared"
    /\ call' = [call EXCEPT ![u] = [@ EXCEPT !.pc = "sent", !.id = answer[u].new_id]]
    /\ answer' = [answer EXCEPT ![u] = NoValue]
    /\ UNCHANGED <<pagerVars, result_metadata_id, serverVars, counters>>

\* Faulty variant: a failed call forgets where it was.
CallForgets(u) ==
    /\ call[u] # Idle /\ failures < MaxFailures
    /\ failures' = failures + 1
    /\ pager_state' = [pager_state EXCEPT ![u].cursor = NoValue]
    /\ call' = [call EXCEPT ![u] = Idle] /\ answer' = [answer EXCEPT ![u] = NoValue]
    /\ UNCHANGED <<kind, saved, rows, result_metadata_id, serverVars, alters, evictions>>

\* An error at any point: next() returns it and the state stays as it was.
CallFails(u) ==
    /\ call[u] # Idle /\ failures < MaxFailures
    /\ failures' = failures + 1
    /\ call' = [call EXCEPT ![u] = Idle] /\ answer' = [answer EXCEPT ![u] = NoValue]
    /\ UNCHANGED <<pagerVars, result_metadata_id, serverVars, alters, evictions>>

-----------------------------------------------------------------------------
(***************************************************************************)
(* The server.                                                             *)
(***************************************************************************)
Offset(cursor) == IF cursor = NoValue THEN 0 ELSE cursor

Page(cursor, id) ==
    LET last == IF Offset(cursor) + PageSize < RowCount THEN Offset(cursor) + PageSize ELSE RowCount
    IN [kind |-> "rows", new_id |-> id, rows |-> [i \in 1..(last - Offset(cursor)) |-> Offset(cursor) + i],
        has_more_pages |-> last < RowCount, paging_state |-> IF last < RowCount THEN last ELSE NoValue]

ServePage(u) ==
    /\ call[u].pc = "sent" /\ answer[u] = NoValue
    /\ answer' = [answer EXCEPT ![u] =
          IF kind[u] = "exec" /\ ~known
          THEN [kind |-> "unprepared"]
          ELSE Page(call[u].cursor, IF call[u].id \in {NoValue, version} THEN NoValue ELSE version)]
    /\ UNCHANGED <<pagerVars, call, result_metadata_id, serverVars, counters>>

ServePrepare(u) ==
    /\ call[u].pc = "prepare" /\ answer[u] = NoValue
    /\ known' = TRUE
    /\ answer' = [answer EXCEPT ![u] = [kind |-> "prepared", new_id |-> version]]
    /\ UNCHANGED <<pagerVars, call, result_metadata_id, version, counters>>

Alter ==
    /\ alters < MaxAlters
    /\ alters' = alters + 1 /\ version' = version + 1
    /\ UNCHANGED <<pagerVars, call, answer, result_metadata_id, known, failures, evictions>>

Evict ==
    /\ evictions < MaxEvictions /\ known
    /\ evictions' = evictions + 1 /\ known' = FALSE
    /\ UNCHANGED <<pagerVars, call, answer, result_metadata_id, version, alters, failures>>

PagerStep(u) == RowsReceived(u) \/ Unprepared(u) \/ PreparedAgain(u) \/ ServePage(u) \/ ServePrepare(u)

PagerNext ==
    \/ \E u \in Users : \/ CallNext(u) \/ SaveState(u) \/ WithPagerState(u) \/ NewPager(u)
                        \/ PagerStep(u) \/ CallFails(u)
    \/ Alter \/ Evict

PagerSpec == PagerInit /\ [][PagerNext]_pagingVars
PagerFairSpec ==
    /\ PagerSpec
    /\ \A u \in Users : /\ WF_pagingVars(PagerStep(u)) /\ WF_pagingVars(CallNext(u))
                        /\ WF_pagingVars(NewPager(u))

-----------------------------------------------------------------------------
AllRows == [i \in 1..RowCount |-> i]

\* What a user was given is a beginning of the rows, in order, none of them
\* twice and none left out, through failed calls, repeated calls and states
\* that were kept and gone on from.
PagesInOrder ==
    \A u \in Users : Len(rows[u]) <= RowCount /\ rows[u] = SubSeq(AllRows, 1, Len(rows[u]))

\* When there are no more pages, the user has all rows.
EndMeansAll ==
    \A u \in Users : Started(u) /\ ~HasMore(pager_state[u]) => rows[u] = AllRows

\* The metadata id that executions share catches up with the schema: late
\* answers may set it back, but not for good.
MetadataIdCatchesUp == (\E u \in Users : kind[u] = "exec") => <>[](result_metadata_id = version)
=============================================================================
