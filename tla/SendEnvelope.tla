---------------------------- MODULE SendEnvelope ----------------------------
(***************************************************************************)
(* One statement of a Session, from the call to its result: the plan loop  *)
(* of cluster/send_envelope.rs, the retry policies, the speculative        *)
(* executions of Session::send_envelope and the re-preparation done by     *)
(* Session::exec_with_params.                                              *)
(*                                                                         *)
(* All executions are futures of ONE FuturesUnordered, polled by the       *)
(* caller's task, so what an execution does between two awaits is a single *)
(* step, and so is its end together with the session's reaction to it.     *)
(***************************************************************************)
EXTENDS Integers, Sequences, FiniteSets, SequencesExt

CONSTANTS
    Nodes,          \* the nodes a query plan may name
    NoNode,         \* "no node"
    MaxExecutions,  \* bound on max_executions of the speculative policy
    MaxPlan,        \* bound on the length of a query plan
    Repeats         \* whether a plan may name a node more than once

ASSUME SendAssumption ==
    /\ NoNode \notin Nodes
    /\ MaxExecutions \in Nat
    /\ MaxPlan \in Nat
    /\ Repeats \in BOOLEAN

VARIABLES
    stmt,           \* the statement's parameters, fixed for the whole call
    phase,          \* "first", "prepare", "second", "returned" or "panicked"
    plan,           \* nodes of the shared query plan not yet taken
    exec,           \* [Executions -> Execution]: the send_envelope futures
    running,        \* context.running_executions
    timer,          \* sleep_fut: "armed" or "spent"
    lastError,      \* last_error
    unprepared,     \* the result that made the statement be prepared again
    answer,         \* what the caller gets
    sends,          \* history: [Nodes -> Nat] envelopes written in this phase
    doubt           \* history: a write of the statement ended undecided

sessionVars == <<phase, running, timer, lastError, unprepared, answer>>
historyVars == <<sends, doubt>>
vars == <<stmt, plan, exec, sessionVars, historyVars>>

\* context.running_executions starts at 1 whatever the policy says.
Executions == 1 .. MaxExecutions + 1

(***************************************************************************)
(* Errors, as far as the retry policies and the session tell them apart.   *)
(***************************************************************************)

\* "overloaded" stands for Overloaded, Server and Truncate; "read_enough"
\* for a read timeout with received >= block_for and data from a replica;
\* "write_log" for a write timeout of type BatchLog.
WriteErrors ==
    {"io", "general", "overloaded", "unavailable", "read_enough", "read_short",
     "write_log", "write_other", "bootstrapping", "unprepared", "other"}

\* What persistent_connection fails with; "timeout" is the pool's.
ConnectErrors == {"io", "timeout", "other"}

\* Results made by the session itself.
SessionErrors == {"no_nodes", "no_such_node", "changed_id"}

Result(kind, node) == [kind |-> kind, node |-> node]
NoResult == Result("none", NoNode)
Results == [kind : WriteErrors \cup ConnectErrors \cup SessionErrors \cup {"none", "ok"},
            node : Nodes \cup {NoNode}]

\* What an execution, or the speculative loop, keeps for later.
Kept == [kind : ConnectErrors \cup {"none"}, node : Nodes \cup {NoNode}]

(***************************************************************************)
(* Retry policies                                                          *)
(***************************************************************************)

Sessions == [unavailable : BOOLEAN, read : BOOLEAN, write : BOOLEAN]
NewSession == [unavailable |-> FALSE, read |-> FALSE, write |-> FALSE]

\* Faulty variant: idempotence is not looked at.
DefaultDecideBlind(session, error, idempotent) ==
    IF error \in {"io", "general", "overloaded", "unavailable", "bootstrapping"}
    THEN "RetryNextNode" ELSE "DontRetry"

\* Faulty variant: a read timeout is retried however often it comes back.
DefaultDecideForgetful(session, error, idempotent) ==
    IF error = "read_enough" THEN "RetrySameNode" ELSE "DontRetry"

\* DefaultRetrySession::decide
DefaultDecide(session, error, idempotent) ==
    IF \/ error \in {"io", "general", "overloaded"} /\ idempotent
       \/ error = "unavailable" /\ ~session.unavailable
       \/ error = "bootstrapping"
    THEN "RetryNextNode"
    ELSE IF \/ error = "read_enough" /\ ~session.read
            \/ error = "write_log" /\ ~session.write /\ idempotent
         THEN "RetrySameNode"
         ELSE "DontRetry"

\* The flags decide sets; a flag is only ever set by the retry it allows.
SessionAfter(session, error, idempotent) ==
    [unavailable |-> session.unavailable \/ error = "unavailable",
     read        |-> session.read \/ error = "read_enough",
     write       |-> session.write \/ (error = "write_log" /\ idempotent)]

\* FallthroughRetrySession::decide never retries.
Decide(policy, session, error, idempotent) ==
    IF policy = "default" THEN DefaultDecide(session, error, idempotent)
                          ELSE "DontRetry"

(***************************************************************************)
(* The state of one call                                                   *)
(***************************************************************************)

\* StatementParams: prepared tells exec_with_params from the other calls;
\* max is max_executions, speculative whether there is a policy at all.
Statements ==
    [idempotent : BOOLEAN, policy : {"default", "fallthrough"}, prepared : BOOLEAN,
     speculative : BOOLEAN, max : 0 .. MaxExecutions]

\* Strategies name a node once, except the topology-aware one: for a
\* dc-local consistency it returns its replicas, one for each of their tokens,
\* followed by all local nodes, without unique_by.
Plans == {p \in SeqOf(Nodes, MaxPlan) : Repeats \/ IsInjective(p)}

Execution(pc, node, saved, session) ==
    [pc |-> pc, node |-> node, saved |-> saved, session |-> session]
Off    == Execution("off", NoNode, NoResult, NewSession)
Pushed == Execution("pushed", NoNode, NoResult, NewSession)
Done   == Execution("done", NoNode, NoResult, NewSession)

\* async_tasks: executions pushed and not finished.
Active == {x \in Executions : exec[x].pc \in {"pushed", "connect", "write"}}

\* The prepare statement is always sent as idempotent.
IsIdempotent == phase = "prepare" \/ stmt.idempotent

\* The loop of the arm Some(speculative_execution_policy) if is_idempotent.
Speculating == stmt.speculative /\ stmt.idempotent /\ phase \in {"first", "second"}

\* The executions when a send_envelope begins: the first one is pushed.
OnePushed == [x \in Executions |-> IF x = 1 THEN Pushed ELSE Off]

Init ==
    /\ stmt \in Statements
    /\ phase = "first"
    /\ plan \in Plans
    /\ exec = OnePushed
    /\ running = 1
    /\ timer = "armed"
    /\ lastError = NoResult
    /\ unprepared = NoResult
    /\ answer = NoResult
    /\ sends = [n \in Nodes |-> 0]
    /\ doubt = FALSE

(***************************************************************************)
(* The end of a send_envelope and what exec_with_params does next          *)
(***************************************************************************)

\* Another send_envelope begins, with a plan and executions of its own.
Begin(ph, p) ==
    /\ phase' = ph
    /\ plan' = p
    /\ exec' = OnePushed
    /\ running' = 1
    /\ timer' = "armed"
    /\ lastError' = NoResult
    /\ sends' = [n \in Nodes |-> 0]
    /\ UNCHANGED answer

\* The call returns; executions still in flight are dropped.
Return(result) ==
    /\ phase' = "returned"
    /\ answer' = result
    /\ exec' = [x \in Executions |-> Off]
    /\ UNCHANGED <<plan, running, timer, lastError, unprepared, sends>>

\* The statement was sent: prepare it again where it is missing, or return.
AfterStatement(result) ==
    IF phase = "first" /\ stmt.prepared /\ result.kind = "unprepared"
    THEN \/ Return(Result("no_such_node", NoNode))
         \/ Begin("prepare", <<result.node>>) /\ unprepared' = result
    ELSE Return(result)

\* The prepare request came back: with the same id, another id, or failed
\* (an answer that is no PREPARED result counts as failed).
AfterPrepare(result) ==
    \/ /\ result.kind = "ok"
       /\ \/ \E p \in Plans : Begin("second", p) /\ UNCHANGED unprepared
          \/ Return(Result("changed_id", NoNode))
    \/ Return(unprepared)

\* A whole Session::send_envelope, or that of the re-prepare, has its result.
SendReturns(result) ==
    LET r == IF result.kind = "none" THEN Result("no_nodes", NoNode) ELSE result
    IN  IF phase = "prepare" THEN AfterPrepare(r) ELSE AfterStatement(r)

(***************************************************************************)
(* One execution                                                           *)
(***************************************************************************)

SetExec(x, e) ==
    /\ exec' = [exec EXCEPT ![x] = e]
    /\ UNCHANGED sessionVars

\* Faulty variant: the first None ends the call, whoever else is in flight.
FinishHasty(x, result) ==
    IF Speculating /\ result.kind \in {"io", "timeout"}
    THEN /\ exec' = [exec EXCEPT ![x] = Done]
         /\ lastError' = result
         /\ UNCHANGED <<plan, phase, running, timer, unprepared, answer, sends>>
    ELSE SendReturns(IF result.kind = "none" THEN lastError ELSE result)

\* Faulty variant: None is ignored in the plain call too.
FinishNever(x, result) ==
    IF result.kind = "none" /\ (Speculating => Active # {x})
    THEN SetExec(x, Done) /\ UNCHANGED <<plan, sends>>
    ELSE SendReturns(result)

\* Faulty variant: None is ignored when nobody else is in flight either.
FinishIgnoring(x, result) ==
    IF Speculating /\ result.kind = "none"
    THEN SetExec(x, Done) /\ UNCHANGED <<plan, sends>>
    ELSE SendReturns(result)

\* Execution x ends; the plain call returns its result.  The speculative
\* loop keeps Io and Timeout errors as last_error and goes on, ignores None
\* while others are in flight, and returns everything else.
Finish(x, result) ==
    \/ /\ Speculating /\ result.kind \in {"io", "timeout"}
       /\ exec' = [exec EXCEPT ![x] = Done]
       /\ lastError' = result
       /\ UNCHANGED <<plan, phase, running, timer, unprepared, answer, sends>>
    \/ /\ Speculating /\ result.kind = "none" /\ Active # {x}
       /\ SetExec(x, Done)
       /\ UNCHANGED <<plan, sends>>
    \/ /\ Speculating /\ result.kind = "none" /\ Active = {x}
       /\ SendReturns(lastError)
    \/ /\ Speculating => result.kind \notin {"io", "timeout", "none"}
       /\ SendReturns(result)

\* Faulty variant: the plan is read without being advanced.
NextNodeStuck(x, saved, session) ==
    IF plan = <<>> THEN Finish(x, saved)
    ELSE /\ plan' = IF Len(plan) = 1 THEN <<>> ELSE plan
         /\ SetExec(x, Execution("connect", Head(plan), saved, session))
         /\ UNCHANGED sends

\* 'next_node: the next node of the shared plan, or the end of the loop.
NextNode(x, saved, session) ==
    IF plan = <<>> THEN Finish(x, saved)
    ELSE /\ plan' = Tail(plan)
         /\ SetExec(x, Execution("connect", Head(plan), saved, session))
         /\ UNCHANGED sends

\* The first poll of an execution.
Start(x) ==
    /\ exec[x].pc = "pushed"
    /\ NextNode(x, NoResult, exec[x].session)
    /\ UNCHANGED <<stmt, doubt>>

\* persistent_connection gives a transport, and the envelope is written.
Connected(x) ==
    /\ exec[x].pc = "connect"
    /\ SetExec(x, [exec[x] EXCEPT !.pc = "write"])
    /\ sends' = [sends EXCEPT ![exec[x].node] = @ + 1]
    /\ UNCHANGED <<stmt, plan, doubt>>

\* persistent_connection fails: the error is saved, the next node tried.
ConnectFails(x) ==
    /\ exec[x].pc = "connect"
    /\ \E e \in ConnectErrors : NextNode(x, Result(e, exec[x].node), exec[x].session)
    /\ UNCHANGED <<stmt, doubt>>

\* write_envelope returns a response.
Responds(x) ==
    /\ exec[x].pc = "write"
    /\ Finish(x, Result("ok", exec[x].node))
    /\ UNCHANGED <<stmt, doubt>>

\* Errors that leave open whether the node applied the statement.
Undecided == {"io", "general", "overloaded", "write_log", "write_other", "other"}

\* write_envelope fails, and the retry session decides.
WriteFails(x, error) ==
    LET e == exec[x]
        decision == Decide(stmt.policy, e.session, error, IsIdempotent)
        session == SessionAfter(e.session, error, IsIdempotent)
    IN  /\ e.pc = "write"
        /\ \/ /\ decision = "RetrySameNode"
              /\ SetExec(x, Execution("connect", e.node, e.saved, session))
              /\ UNCHANGED <<plan, sends>>
           \/ decision = "RetryNextNode" /\ NextNode(x, e.saved, session)
           \/ decision = "DontRetry" /\ Finish(x, Result(error, e.node))
        /\ doubt' = (doubt \/ (phase # "prepare" /\ error \in Undecided))
        /\ UNCHANGED stmt

(***************************************************************************)
(* The speculative loop's timer                                            *)
(***************************************************************************)

\* ConstantSpeculativeExecutionPolicy::execution_interval
ExecutionAllowed == running < stmt.max

\* sleep_fut fires: push one more execution and sleep again, or never again.
\* With no execution left it can still do so, if it is due when select! polls.
Tick ==
    /\ Speculating
    /\ timer = "armed"
    /\ IF ExecutionAllowed
       THEN /\ running' = running + 1
            /\ exec' = [exec EXCEPT ![running + 1] = Pushed]
            /\ UNCHANGED timer
       ELSE timer' = "spent" /\ UNCHANGED <<running, exec>>
    /\ UNCHANGED <<stmt, plan, phase, lastError, unprepared, answer, historyVars>>

\* The loop goes on with no execution left.  select_next_some finds the set
\* empty, which terminates it, and wakes the task; polled again, it panics:
\* tokio's select! does not look at is_terminated.  Only a timer due at one of
\* these two polls comes before it.
Panic ==
    /\ Speculating
    /\ Active = {}
    /\ phase' = "panicked"
    /\ exec' = [x \in Executions |-> Off]
    /\ UNCHANGED <<stmt, plan, running, timer, lastError, unprepared, answer, historyVars>>

Step(x) ==
    \/ Start(x)
    \/ Connected(x)
    \/ ConnectFails(x)
    \/ Responds(x)
    \/ \E e \in WriteErrors : WriteFails(x, e)

Next == Tick \/ Panic \/ \E x \in Executions : Step(x)

Spec == Init /\ [][Next]_vars

\* Every await of an execution ends, a sleep ends, and a task that woke itself
\* is polled again.
FairSpec ==
    Spec /\ WF_vars(Tick) /\ WF_vars(Panic) /\ \A x \in Executions : WF_vars(Step(x))

(***************************************************************************)
(* Properties                                                              *)
(***************************************************************************)

\* Type invariant: the state of a statement between session.rs and its executions.
TypeOK ==
    /\ stmt \in Statements
    /\ phase \in {"first", "prepare", "second", "returned", "panicked"}
    /\ plan \in Seq(Nodes)
    /\ exec \in [Executions -> [pc : {"off", "pushed", "connect", "write", "done"},
                                node : Nodes \cup {NoNode},
                                saved : Kept, session : Sessions]]
    /\ \A x \in Executions : exec[x].pc \in {"connect", "write"} <=> exec[x].node # NoNode
    /\ running \in Executions
    /\ timer \in {"armed", "spent"}
    /\ unprepared \in Results /\ answer \in Results
    /\ lastError \in [kind : {"io", "timeout", "none"}, node : Nodes \cup {NoNode}]
    /\ sends \in [Nodes -> Nat]
    /\ doubt \in BOOLEAN

\* Executions that wait for a response.
Writing == {x \in Executions : exec[x].pc = "write"}

\* A statement not marked idempotent is in flight at one node at a time, and
\* is not written again once an attempt ended without telling whether it was
\* applied: not by a retry, a speculative execution or the second round that
\* follows a re-preparation.
NoBlindResend ==
    ~stmt.idempotent /\ phase \in {"first", "second"} =>
        /\ \A x, y \in Writing : x = y
        /\ doubt => Writing = {}

\* Parallel executions share the plan, so a speculative execution goes to
\* another node: no two of them are ever at the same one.
DistinctNodes ==
    \A x, y \in Executions :
        exec[x].node # NoNode /\ exec[x].node = exec[y].node => x = y

\* Retries on the same node are limited by the session's two flags: in one
\* send_envelope whose plan names a node once, it gets the envelope at most
\* three times.
ResendsBounded == \A n \in Nodes : sends[n] <= 3

\* No more executions are in flight than the policy's max_executions (the
\* first one is started whatever it says).
ExecutionsBounded == Cardinality(Active) <= IF stmt.max = 0 THEN 1 ELSE stmt.max

\* An Unprepared error reaches the caller of a prepared statement only after
\* the statement was prepared again, or that failed.
UnpreparedOnlyAfterTrying ==
    stmt.prepared /\ answer.kind = "unprepared" => unprepared.kind = "unprepared"

\* "No nodes available" is never returned while another execution is in
\* flight or a node of the plan is left.
NoNodesIsLast ==
    [][answer'.kind = "no_nodes" /\ answer.kind # "no_nodes" =>
          Cardinality(Active) = 1 /\ plan = <<>>]_vars

\* Every call ends, with a result or, in the speculative loop, with a panic.
EveryCallEnds == <>(phase \in {"returned", "panicked"})

\* A call panics only in a speculative loop that kept an Io or Timeout error of
\* an execution (session.rs:713): one that ends with None returns when it is
\* the last.  Every other call ends with a result.
PanicsOnlyAfterIoError ==
    phase = "panicked" => stmt.speculative /\ stmt.idempotent /\ lastError.kind # "none"
=============================================================================
