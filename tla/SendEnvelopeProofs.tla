------------------------- MODULE SendEnvelopeProofs -------------------------
(***************************************************************************)
(* Proofs about SendEnvelope, for any nodes, plans and number of           *)
(* executions.                                                             *)
(***************************************************************************)
EXTENDS SendEnvelope, FiniteSetTheorems, TLAPS

\* Execution x ended and the speculative loop goes on without it.
LoopGoesOn(x) ==
    /\ Speculating
    /\ exec' = [exec EXCEPT ![x] = Done]
    /\ lastError' \in [kind : {"io", "timeout", "none"}, node : Nodes \cup {NoNode}]
    /\ lastError'.kind # "none" \/ Active # {x}
    /\ UNCHANGED <<plan, phase, running, timer, unprepared, answer, sends>>

\* The call returned a result.
CallReturned ==
    \E r \in Results :
        Return(r) /\ (r.kind = "unprepared" => phase # "first" \/ ~stmt.prepared)

\* The statement is being prepared at the node that reported it missing.
PrepareBegan ==
    /\ phase = "first"
    /\ \E n \in Nodes : Begin("prepare", <<n>>)
    /\ unprepared' \in Results /\ unprepared'.kind = "unprepared"

\* The statement is being sent a second time.
SecondBegan ==
    /\ phase = "prepare"
    /\ \E p \in Plans : Begin("second", p)
    /\ UNCHANGED unprepared

Ended(x) == LoopGoesOn(x) \/ CallReturned \/ PrepareBegan \/ SecondBegan

\* The results an execution may end with: one saying Unprepared names a node.
LEMMA FinishEnds ==
    ASSUME NEW x \in Executions, NEW result \in Results, TypeOK,
           result.kind = "unprepared" => result.node \in Nodes,
           Finish(x, result)
    PROVE  Ended(x)
<1> DEFINE Sent(r) == IF r.kind = "none" THEN Result("no_nodes", NoNode) ELSE r
<1>1. ASSUME NEW r \in Results, r.kind = "unprepared" => r.node \in Nodes, SendReturns(r)
      PROVE  CallReturned \/ PrepareBegan \/ SecondBegan
  <2>1. Sent(r) \in Results /\ (Sent(r).kind = "unprepared" => Sent(r).node \in Nodes)
    BY <1>1, Zenon DEF Results, Result, SessionErrors
  <2>2. CASE phase = "prepare"
    <3>1. AfterPrepare(Sent(r))
      BY <1>1, <2>2, Zenon DEF SendReturns
    <3>2. CASE Return(unprepared)
      BY <2>2, <3>2, Zenon DEF TypeOK, CallReturned
    <3>3. CASE Return(Result("changed_id", NoNode))
      <4>1. Result("changed_id", NoNode) \in Results /\ Result("changed_id", NoNode).kind # "unprepared"
        BY Zenon DEF Results, Result, SessionErrors
      <4> QED BY <4>1, <3>3, Zenon DEF CallReturned
    <3>4. CASE \E p \in Plans : Begin("second", p) /\ UNCHANGED unprepared
      BY <2>2, <3>4, Zenon DEF SecondBegan
    <3> QED BY <3>1, <3>2, <3>3, <3>4, Zenon DEF AfterPrepare
  <2>3. CASE phase # "prepare"
    <3>1. AfterStatement(Sent(r))
      BY <1>1, <2>3, Zenon DEF SendReturns
    <3>2. CASE Return(Sent(r)) /\ (Sent(r).kind = "unprepared" => phase # "first" \/ ~stmt.prepared)
      BY <2>1, <3>2, Zenon DEF CallReturned
    <3>3. CASE Return(Result("no_such_node", NoNode))
      <4>1. Result("no_such_node", NoNode) \in Results /\ Result("no_such_node", NoNode).kind # "unprepared"
        BY Zenon DEF Results, Result, SessionErrors
      <4> QED BY <4>1, <3>3, Zenon DEF CallReturned
    <3>4. CASE /\ phase = "first" /\ Sent(r).kind = "unprepared"
               /\ Begin("prepare", <<Sent(r).node>>) /\ unprepared' = Sent(r)
      BY <2>1, <3>4, Zenon DEF PrepareBegan
    <3> QED BY <3>1, <3>2, <3>3, <3>4, Zenon DEF AfterStatement
  <2> QED BY <2>2, <2>3, Zenon
<1>2. CASE Speculating /\ result.kind \in {"io", "timeout"}
  <2>1. result \in [kind : {"io", "timeout", "none"}, node : Nodes \cup {NoNode}]
    BY <1>2, Zenon DEF Results
  <2>2. LoopGoesOn(x)
    BY <1>2, <2>1, Zenon DEF Finish, LoopGoesOn
  <2> QED BY <2>2, Zenon DEF Ended
<1>3. CASE Speculating /\ result.kind = "none" /\ Active # {x}
  <2>1. SetExec(x, Done) /\ UNCHANGED <<plan, sends>>
    BY <1>3, Zenon DEF Finish
  <2>2. LoopGoesOn(x)
    BY <1>3, <2>1, Zenon DEF SetExec, sessionVars, LoopGoesOn, TypeOK
  <2> QED BY <2>2, Zenon DEF Ended
<1>4. CASE Speculating /\ result.kind = "none" /\ Active = {x}
  <2>1. SendReturns(lastError)
    BY <1>4, Zenon DEF Finish
  <2>2. lastError \in Results /\ lastError.kind # "unprepared"
    BY Zenon DEF TypeOK, Results, ConnectErrors
  <2> QED BY <1>1, <2>1, <2>2, Zenon DEF Ended
<1>5. CASE ~Speculating \/ result.kind \notin {"io", "timeout", "none"}
  <2>1. SendReturns(result)
    BY <1>5, Zenon DEF Finish
  <2> QED BY <1>1, <2>1, Zenon DEF Ended
<1> QED BY <1>2, <1>3, <1>4, <1>5, Zenon

\* Execution x is about to connect to node n.
Went(x, n) ==
    /\ n \in Nodes
    /\ \E s \in Kept, q \in Sessions :
          SetExec(x, Execution("connect", n, s, q))
    /\ UNCHANGED sends

\* The retries on the same node a session has allowed.
Flags(session) == (IF session.read THEN 1 ELSE 0) + (IF session.write THEN 1 ELSE 0)

\* It took n from the shared plan, or tries its node once more.
TookNode(x) == plan # <<>> /\ plan' = Tail(plan) /\ Went(x, Head(plan))
Retried(x) ==
    /\ exec[x].pc = "write" /\ Went(x, exec[x].node) /\ UNCHANGED plan
    /\ Flags(exec'[x].session) > Flags(exec[x].session)

\* An execution that asks for the next node takes the head of the plan, or ends.
LEMMA NextNodeEnds ==
    ASSUME NEW x \in Executions, NEW saved \in Kept, NEW session \in Sessions, TypeOK,
           NextNode(x, saved, session)
    PROVE  TookNode(x) \/ Ended(x)
<1>1. CASE plan = <<>>
  <2>1. saved \in Results /\ saved.kind # "unprepared"
    BY Zenon DEF Kept, Results, ConnectErrors
  <2>2. Finish(x, saved)
    BY <1>1, Zenon DEF NextNode
  <2> QED BY <2>1, <2>2, FinishEnds, Zenon
<1>2. CASE plan # <<>>
  <2>1. Head(plan) \in Nodes
    BY <1>2 DEF TypeOK
  <2> QED BY <1>2, <2>1, Zenon DEF NextNode, Went, TookNode
<1> QED BY <1>1, <1>2, Zenon

\* A doubt that arises about a statement not marked idempotent ends the call.
DoubtStep == doubt' /\ ~stmt.idempotent => doubt \/ phase' = "returned"

\* What a failed write leads to.
LEMMA WriteFailsCases ==
    ASSUME NEW x \in Executions, NEW error \in WriteErrors, TypeOK, WriteFails(x, error)
    PROVE  (TookNode(x) \/ Retried(x) \/ Ended(x)) /\ DoubtStep /\ doubt' \in BOOLEAN
<1> DEFINE e == exec[x]
           idem == IsIdempotent
           decision == Decide(stmt.policy, e.session, error, idem)
           after == SessionAfter(e.session, error, idem)
<1>1. e.saved \in Kept /\ e.session \in Sessions /\ e.pc = "write" /\ e.node \in Nodes
  BY Zenon DEF TypeOK, WriteFails
<1>2. after \in Sessions
  BY <1>1, Zenon DEF SessionAfter, Sessions, IsIdempotent
<1>3. Result(error, e.node) \in Results /\ Result(error, e.node).node \in Nodes
  BY <1>1, Zenon DEF Result, Results
<1>4. \/ /\ decision = "RetrySameNode"
         /\ SetExec(x, Execution("connect", e.node, e.saved, after))
         /\ UNCHANGED <<plan, sends>>
      \/ decision = "RetryNextNode" /\ NextNode(x, e.saved, after)
      \/ decision = "DontRetry" /\ Finish(x, Result(error, e.node))
  BY Zenon DEF WriteFails
<1>5. TookNode(x) \/ Retried(x) \/ Ended(x)
  <2>1. CASE /\ decision = "RetrySameNode"
             /\ SetExec(x, Execution("connect", e.node, e.saved, after))
             /\ UNCHANGED <<plan, sends>>
    <3>1. exec'[x].session = after
      BY <2>1, Zenon DEF SetExec, Execution, TypeOK
    <3>2. \/ error = "read_enough" /\ ~e.session.read
          \/ error = "write_log" /\ ~e.session.write /\ idem
      BY <2>1, Zenon DEF Decide, DefaultDecide
    <3>3. /\ e.session.read => after.read
          /\ e.session.write => after.write
          /\ (after.read /\ ~e.session.read) \/ (after.write /\ ~e.session.write)
      BY <3>2, Zenon DEF SessionAfter
    <3>4. Flags(after) > Flags(e.session)
      BY <3>3 DEF Flags
    <3> QED
      BY <1>1, <1>2, <2>1, <3>1, <3>4, Zenon DEF Retried, Went
  <2>2. CASE NextNode(x, e.saved, after)
    BY <1>1, <1>2, <2>2, NextNodeEnds, Zenon
  <2>3. CASE Finish(x, Result(error, e.node))
    BY <1>3, <2>3, FinishEnds, Zenon
  <2> QED BY <1>4, <2>1, <2>2, <2>3, Zenon
<1>6. doubt' = (doubt \/ (phase # "prepare" /\ error \in Undecided))
  BY Zenon DEF WriteFails
<1>7. DoubtStep
  <2> SUFFICES ASSUME ~stmt.idempotent, phase # "prepare", error \in Undecided
               PROVE  phase' = "returned"
    BY <1>6, Zenon DEF DoubtStep
  <2>1. decision = "DontRetry"
    BY Zenon DEF Decide, DefaultDecide, IsIdempotent, Undecided
  <2>2. Finish(x, Result(error, e.node))
    BY <1>4, <2>1, Zenon
  <2>3. SendReturns(Result(error, e.node))
    BY <2>2, Zenon DEF Finish, Speculating
  <2>4. error # "none" /\ error # "unprepared"
    BY Zenon DEF Undecided
  <2>5. AfterStatement(Result(error, e.node))
    BY <2>3, <2>4, Zenon DEF SendReturns, Result
  <2>6. Return(Result(error, e.node))
    BY <2>5, <2>4, Zenon DEF AfterStatement, Result
  <2> QED BY <2>6, Zenon DEF Return
<1> QED BY <1>5, <1>6, <1>7, Zenon DEF TypeOK

\* What a step of one execution does.
LEMMA StepCases ==
    ASSUME NEW x \in Executions, TypeOK, Step(x)
    PROVE  /\ exec[x].pc \in {"pushed", "connect", "write"}
           /\ TookNode(x) \/ Retried(x) \/ Connected(x) \/ Ended(x)
           /\ stmt' = stmt /\ doubt' \in BOOLEAN
           /\ DoubtStep
<1>1. exec[x].saved \in Kept /\ exec[x].session \in Sessions
  BY Zenon DEF TypeOK
<1>2. CASE Start(x)
  <2>1. NoResult \in Kept
    BY Zenon DEF NoResult, Result, Kept
  <2> QED BY <1>1, <1>2, <2>1, NextNodeEnds, Zenon DEF Start, DoubtStep, TypeOK
<1>3. CASE Connected(x)
  BY <1>3, Zenon DEF Connected, DoubtStep, TypeOK
<1>4. CASE ConnectFails(x)
  <2>1. PICK e \in ConnectErrors : NextNode(x, Result(e, exec[x].node), exec[x].session)
    BY <1>4, Zenon DEF ConnectFails
  <2>2. Result(e, exec[x].node) \in Kept
    BY Zenon DEF Result, Kept, TypeOK
  <2>3. TookNode(x) \/ Ended(x)
    BY <1>1, <2>1, <2>2, NextNodeEnds, Zenon
  <2> QED BY <1>4, <2>3, Zenon DEF ConnectFails, DoubtStep, TypeOK
<1>5. CASE Responds(x)
  <2>1. Result("ok", exec[x].node) \in Results /\ Result("ok", exec[x].node).kind # "unprepared"
    BY Zenon DEF Result, Results, TypeOK
  <2>2. Ended(x)
    BY <1>5, <2>1, FinishEnds, Zenon DEF Responds
  <2> QED BY <1>5, <2>2, Zenon DEF Responds, DoubtStep, TypeOK
<1>6. ASSUME NEW e \in WriteErrors, WriteFails(x, e)
      PROVE  /\ exec[x].pc = "write" /\ stmt' = stmt /\ doubt' \in BOOLEAN /\ DoubtStep
             /\ TookNode(x) \/ Retried(x) \/ Ended(x)
  BY <1>6, WriteFailsCases, Zenon DEF WriteFails
<1> QED BY <1>2, <1>3, <1>4, <1>5, <1>6, Zenon DEF Step

(***************************************************************************)
(* Types                                                                   *)
(***************************************************************************)

\* A query plan is a sequence of nodes.
LEMMA PlanType == Plans \subseteq Seq(Nodes)
  BY SendAssumption DEF Plans, SeqOf

\* The executions when a send_envelope begins, and when a call has returned.
LEMMA FreshType ==
    ASSUME NEW f \in {OnePushed, [x \in Executions |-> Off]}
    PROVE  /\ f \in [Executions -> [pc : {"off", "pushed", "connect", "write", "done"},
                                    node : Nodes \cup {NoNode},
                                    saved : Kept, session : Sessions]]
           /\ \A x \in Executions :
                 f[x].node = NoNode /\ f[x].pc \in {"off", "pushed"}
           /\ \A x \in Executions : f[x].pc # "off" => x = 1
<1> DEFINE E == [pc : {"off", "pushed", "connect", "write", "done"},
                 node : Nodes \cup {NoNode}, saved : Kept, session : Sessions]
<1>1. NoResult \in Kept /\ NewSession \in Sessions
  BY Zenon DEF NoResult, Result, Kept, Sessions, NewSession
<1>2. Off \in E /\ Off.pc = "off" /\ Off.node = NoNode
  BY <1>1, Zenon DEF Off, Execution
<1>3. Pushed \in E /\ Pushed.pc = "pushed" /\ Pushed.node = NoNode
  BY <1>1, Zenon DEF Pushed, Execution
<1> HIDE DEF E
<1>4. f \in [Executions -> E]
  BY <1>2, <1>3, Zenon DEF OnePushed
<1>5. \A x \in Executions : f[x] \in {Off, Pushed} /\ (f[x] = Pushed => x = 1)
  BY <1>2, <1>3, Zenon DEF OnePushed
<1> QED BY <1>2, <1>3, <1>4, <1>5, Zenon DEF E

\* A call that returns, or sends again, stays typed.
LEMMA EndedType ==
    ASSUME TypeOK, NEW x \in Executions, Ended(x), stmt' = stmt, doubt' \in BOOLEAN
    PROVE  TypeOK'
<1>1. 1 \in Executions
  BY SendAssumption DEF Executions
<1>2. NoResult \in [kind : {"io", "timeout", "none"}, node : Nodes \cup {NoNode}]
  BY Zenon DEF NoResult, Result
<1>3. CASE LoopGoesOn(x)
  <2>1. Done \in [pc : {"off", "pushed", "connect", "write", "done"},
                  node : Nodes \cup {NoNode}, saved : Kept, session : Sessions]
        /\ Done.pc = "done" /\ Done.node = NoNode
    BY Zenon DEF Done, Execution, NoResult, Result, Kept, Sessions, NewSession
  <2> QED BY <1>3, <2>1, Zenon DEF LoopGoesOn, TypeOK
<1>4. CASE CallReturned
  BY <1>4, FreshType DEF CallReturned, Return, TypeOK
<1>5. ASSUME NEW ph \in {"prepare", "second"}, NEW p \in Seq(Nodes), Begin(ph, p),
             unprepared' \in Results
      PROVE  TypeOK'
  BY <1>1, <1>2, <1>5, FreshType, Zenon DEF Begin, TypeOK
<1>6. CASE PrepareBegan
  <2>1. PICK n \in Nodes : Begin("prepare", <<n>>)
    BY <1>6, Zenon DEF PrepareBegan
  <2>2. <<n>> \in Seq(Nodes)
    OBVIOUS
  <2> QED BY <1>5, <1>6, <2>1, <2>2, Zenon DEF PrepareBegan
<1>7. CASE SecondBegan
  BY <1>5, <1>7, PlanType, Zenon DEF SecondBegan, TypeOK
<1> QED BY <1>3, <1>4, <1>6, <1>7, Zenon DEF Ended

\* An execution on its way to a node stays typed.
LEMMA WentType ==
    ASSUME TypeOK, NEW x \in Executions, NEW n, Went(x, n), plan' \in Seq(Nodes),
           stmt' = stmt, doubt' \in BOOLEAN
    PROVE  TypeOK'
<1>1. PICK s \in Kept, q \in Sessions : SetExec(x, Execution("connect", n, s, q))
  BY Zenon DEF Went
<1>2. n \in Nodes /\ n # NoNode
  BY SendAssumption, Zenon DEF Went
<1> QED BY <1>1, <1>2, Zenon DEF Went, SetExec, Execution, sessionVars, TypeOK

\* Every step keeps the types.
LEMMA TypeStep == TypeOK /\ [Next]_vars => TypeOK'
<1> SUFFICES ASSUME TypeOK, [Next]_vars PROVE TypeOK'
  BY Zenon
<1>1. CASE Tick
  <2>1. CASE ExecutionAllowed
    <3>1. running + 1 \in Executions
      BY <2>1, SendAssumption DEF ExecutionAllowed, TypeOK, Statements, Executions
    <3>2. Pushed \in [pc : {"off", "pushed", "connect", "write", "done"},
                      node : Nodes \cup {NoNode}, saved : Kept, session : Sessions]
          /\ Pushed.pc = "pushed" /\ Pushed.node = NoNode
      BY Zenon DEF Pushed, Execution, NoResult, Result, Kept, Sessions, NewSession
    <3>3. /\ running' = running + 1 /\ exec' = [exec EXCEPT ![running + 1] = Pushed]
          /\ UNCHANGED <<stmt, plan, phase, timer, lastError, unprepared, answer, sends, doubt>>
      BY <1>1, <2>1, Zenon DEF Tick, historyVars
    <3>4. exec' \in [Executions -> [pc : {"off", "pushed", "connect", "write", "done"},
                                    node : Nodes \cup {NoNode},
                                    saved : Kept, session : Sessions]]
      BY <3>2, <3>3, Zenon DEF TypeOK
    <3>5. \A x \in Executions : exec'[x].pc \in {"connect", "write"} <=> exec'[x].node # NoNode
      BY <3>1, <3>2, <3>3, Zenon DEF TypeOK
    <3> QED BY <3>1, <3>3, <3>4, <3>5, Zenon DEF TypeOK
  <2>2. CASE ~ExecutionAllowed
    BY <1>1, <2>2, Zenon DEF Tick, historyVars, TypeOK
  <2> QED BY <2>1, <2>2, Zenon
<1>2. ASSUME NEW x \in Executions, Step(x) PROVE TypeOK'
  <2>1. stmt' = stmt /\ doubt' \in BOOLEAN
    BY <1>2, StepCases, Zenon
  <2>2. CASE TookNode(x)
    <3>1. Tail(plan) \in Seq(Nodes)
      BY <2>2 DEF TookNode, TypeOK
    <3> QED BY <2>1, <2>2, <3>1, WentType, Zenon DEF TookNode
  <2>3. CASE Retried(x)
    BY <2>1, <2>3, WentType, Zenon DEF Retried, TypeOK
  <2>4. CASE Connected(x)
    <3>1. exec[x].node \in Nodes
      BY <2>4, Zenon DEF Connected, TypeOK
    <3>2. sends' \in [Nodes -> Nat]
      BY <2>4, <3>1 DEF Connected, TypeOK
    <3>3. /\ exec' = [exec EXCEPT ![x] = [exec[x] EXCEPT !.pc = "write"]]
          /\ UNCHANGED <<stmt, plan, phase, running, timer, lastError, unprepared, answer, doubt>>
      BY <2>4, Zenon DEF Connected, SetExec, sessionVars
    <3>4. exec[x].pc = "connect" /\ exec[x].node # NoNode
      BY <2>4, Zenon DEF Connected, TypeOK
    <3>5. exec' \in [Executions -> [pc : {"off", "pushed", "connect", "write", "done"},
                                    node : Nodes \cup {NoNode},
                                    saved : Kept, session : Sessions]]
      BY <3>3, ZenonT(30) DEF TypeOK
    <3>6. \A y \in Executions : exec'[y].pc \in {"connect", "write"} <=> exec'[y].node # NoNode
      BY <3>3, <3>4, Zenon DEF TypeOK
    <3> QED BY <3>2, <3>3, <3>5, <3>6, Zenon DEF TypeOK
  <2>5. CASE Ended(x)
    BY <2>1, <2>5, EndedType, Zenon
  <2> QED BY <1>2, <2>2, <2>3, <2>4, <2>5, StepCases, Zenon
<1>3. CASE Panic
  BY <1>3, FreshType, Zenon DEF Panic, historyVars, TypeOK
<1>4. CASE UNCHANGED vars
  BY <1>4, Zenon DEF vars, sessionVars, historyVars, TypeOK
<1> QED BY <1>1, <1>2, <1>3, <1>4, Zenon DEF Next

\* The type invariant holds at the start.
LEMMA TypeInit == Init => TypeOK
<1> SUFFICES ASSUME Init PROVE TypeOK
  BY Zenon
<1>1. 1 \in Executions
  BY SendAssumption DEF Executions
<1>2. /\ NoResult \in [kind : {"io", "timeout", "none"}, node : Nodes \cup {NoNode}]
      /\ NoResult \in Results
  BY Zenon DEF NoResult, Result, Results
<1> QED BY <1>1, <1>2, PlanType, FreshType, Zenon DEF Init, TypeOK

\* Every reachable state of a call is typed: what the loop keeps as last_error
\* is an Io or Timeout error, and the number of executions stays in its bound.
THEOREM SendTypeCorrect == Spec => []TypeOK
  BY TypeInit, TypeStep, PTL DEF Spec

(***************************************************************************)
(* Statements not marked idempotent                                        *)
(***************************************************************************)

\* Without speculation only the first execution exists; a call that ended has
\* none; and an unresolved doubt means the call returned.
ResendInv ==
    /\ ~stmt.idempotent \/ phase = "prepare" =>
          \A x \in Executions : exec[x].pc # "off" => x = 1
    /\ phase \in {"returned", "panicked"} => \A x \in Executions : exec[x].pc = "off"
    /\ doubt /\ ~stmt.idempotent => phase = "returned"

\* The first execution is the only one there is when a call begins.
LEMMA ResendInit == Init => ResendInv
BY FreshType, Zenon DEF Init, ResendInv

\* Every step keeps ResendInv.
LEMMA ResendStep == TypeOK /\ ResendInv /\ [Next]_vars => ResendInv'
<1> SUFFICES ASSUME TypeOK, ResendInv, [Next]_vars PROVE ResendInv'
  BY Zenon
<1>1. CASE Tick
  BY <1>1, Zenon DEF Tick, Speculating, historyVars, ResendInv
<1>2. ASSUME NEW x \in Executions, Step(x) PROVE ResendInv'
  <2>1. /\ exec[x].pc # "off" /\ phase \notin {"returned", "panicked"}
        /\ stmt' = stmt /\ DoubtStep /\ doubt' \in BOOLEAN
    BY <1>2, StepCases, Zenon DEF ResendInv
  <2>2. ASSUME phase' = phase, NEW e, e.pc # "off", exec' = [exec EXCEPT ![x] = e]
        PROVE  ResendInv'
    BY <2>1, <2>2, Zenon DEF ResendInv, DoubtStep, TypeOK
  <2>3. ASSUME NEW n, Went(x, n) PROVE ResendInv'
    BY <2>2, <2>3, Zenon DEF Went, SetExec, sessionVars, Execution
  <2>4. CASE Connected(x)
    BY <2>2, <2>4, Zenon DEF Connected, SetExec, sessionVars, TypeOK
  <2>5. CASE LoopGoesOn(x)
    BY <2>2, <2>5, Zenon DEF LoopGoesOn, Done, Execution
  <2>6. CASE CallReturned
    BY <2>1, <2>6, FreshType, Zenon DEF CallReturned, Return, Off, Execution, ResendInv
  <2>7. ASSUME NEW ph \in {"prepare", "second"}, NEW p, Begin(ph, p) PROVE ResendInv'
    BY <2>1, <2>7, FreshType, Zenon DEF Begin, ResendInv, DoubtStep
  <2>8. CASE PrepareBegan \/ SecondBegan
    BY <2>7, <2>8, Zenon DEF PrepareBegan, SecondBegan
  <2> QED BY <1>2, <2>3, <2>4, <2>5, <2>6, <2>8, StepCases, Zenon DEF TookNode, Retried, Ended
<1>3. CASE Panic
  BY <1>3, FreshType, Zenon DEF Panic, Speculating, historyVars, Off, Execution, ResendInv
<1>4. CASE UNCHANGED vars
  BY <1>4, Zenon DEF vars, sessionVars, historyVars, ResendInv
<1> QED BY <1>1, <1>2, <1>3, <1>4, Zenon DEF Next

\* A statement not marked idempotent is never written again while it is open
\* whether an earlier attempt was applied, whatever the retry policy, the
\* speculative policy, the plans and the errors.
THEOREM ResendIsSafe == Spec => []NoBlindResend
<1>1. Init => ResendInv
  BY ResendInit, Zenon
<1>2. ResendInv => NoBlindResend
  BY Zenon DEF ResendInv, NoBlindResend, Writing
<1> QED BY <1>1, <1>2, TypeInit, TypeStep, ResendStep, PTL DEF Spec

(***************************************************************************)
(* The shared plan                                                         *)
(***************************************************************************)

\* The nodes still in the plan are pairwise different and differ from those
\* the executions are at.
PlanInv ==
    /\ \A i, j \in DOMAIN plan : plan[i] = plan[j] => i = j
    /\ \A x \in Executions, i \in DOMAIN plan : exec[x].node # plan[i]
    /\ DistinctNodes

\* Every step keeps PlanInv, when plans name a node once.
LEMMA PlanStep == ~Repeats /\ TypeOK /\ PlanInv /\ [Next]_vars => PlanInv'
<1> SUFFICES ASSUME ~Repeats, TypeOK, PlanInv, [Next]_vars PROVE PlanInv'
  BY Zenon
<1>1. ASSUME NEW x \in Executions, NEW e, exec' = [exec EXCEPT ![x] = e],
             e.node \in {NoNode, exec[x].node}, plan' = plan
      PROVE  PlanInv'
  <2>1. \A i \in DOMAIN plan : plan[i] # NoNode
    BY SendAssumption DEF TypeOK
  <2> QED BY <1>1, <2>1 DEF PlanInv, DistinctNodes, TypeOK
<1>2. CASE Tick
  <2>1. CASE ExecutionAllowed
    <3>1. running + 1 \in Executions
      BY <2>1, SendAssumption DEF ExecutionAllowed, TypeOK, Statements, Executions
    <3> QED BY <1>1, <1>2, <2>1, <3>1, Zenon DEF Tick, Pushed, Execution
  <2>2. CASE ~ExecutionAllowed
    BY <1>2, <2>2, Zenon DEF Tick, PlanInv, DistinctNodes
  <2> QED BY <2>1, <2>2, Zenon
<1>3. ASSUME NEW x \in Executions, Step(x) PROVE PlanInv'
  <2>1. CASE TookNode(x)
    <3>1. PICK e : e.node = Head(plan) /\ exec' = [exec EXCEPT ![x] = e]
      BY <2>1, Zenon DEF TookNode, Went, SetExec, Execution
    <3>2. /\ plan \in Seq(Nodes) /\ Len(plan) > 0 /\ Head(plan) = plan[1]
          /\ plan' = Tail(plan) /\ DOMAIN plan = 1 .. Len(plan)
      BY <2>1 DEF TookNode, TypeOK
    <3>3. /\ DOMAIN plan' = 1 .. Len(plan) - 1
          /\ \A i \in DOMAIN plan' : i + 1 \in DOMAIN plan /\ plan'[i] = plan[i + 1]
      BY <3>2
    <3>4. \A i, j \in DOMAIN plan' : plan'[i] = plan'[j] => i = j
      BY <3>2, <3>3 DEF PlanInv
    <3>5. \A i \in DOMAIN plan' : plan'[i] # Head(plan)
      BY <3>2, <3>3 DEF PlanInv
    <3>6. \A y \in Executions : exec'[y].node = IF y = x THEN Head(plan) ELSE exec[y].node
      BY <3>1, Zenon DEF TypeOK
    <3>7. \A y \in Executions, i \in DOMAIN plan' : exec'[y].node # plan'[i]
      BY <3>3, <3>5, <3>6 DEF PlanInv
    <3>8. \A y \in Executions : exec[y].node # Head(plan)
      BY <3>2 DEF PlanInv
    <3>9. DistinctNodes'
      BY <3>6, <3>8, Zenon DEF PlanInv, DistinctNodes
    <3> QED BY <3>4, <3>7, <3>9, Zenon DEF PlanInv
  <2>2. CASE Retried(x)
    BY <1>1, <2>2, Zenon DEF Retried, Went, SetExec, Execution
  <2>3. CASE Connected(x)
    BY <1>1, <2>3, Zenon DEF Connected, SetExec, TypeOK
  <2>4. CASE LoopGoesOn(x)
    BY <1>1, <2>4, Zenon DEF LoopGoesOn, Done, Execution
  <2>5. ASSUME exec' \in {OnePushed, [y \in Executions |-> Off]}, plan' \in Seq(Nodes),
               \A i, j \in DOMAIN plan' : plan'[i] = plan'[j] => i = j
        PROVE  PlanInv'
    <3>1. \A y \in Executions : exec'[y].node = NoNode
      BY <2>5, FreshType, Zenon
    <3>2. \A i \in DOMAIN plan' : plan'[i] # NoNode
      BY <2>5, SendAssumption, SMTT(20)
    <3> QED BY <2>5, <3>1, <3>2, Zenon DEF PlanInv, DistinctNodes
  <2>6. CASE CallReturned
    BY <2>5, <2>6, Zenon DEF CallReturned, Return, TypeOK, PlanInv
  <2>7. CASE PrepareBegan
    <3>1. PICK n \in Nodes : Begin("prepare", <<n>>)
      BY <2>7, Zenon DEF PrepareBegan
    <3> QED BY <2>5, <3>1 DEF Begin
  <2>8. CASE SecondBegan
    <3>1. PICK p \in Plans : Begin("second", p)
      BY <2>8, Zenon DEF SecondBegan
    <3>2. \A i, j \in DOMAIN p : p[i] = p[j] => i = j
      BY Zenon DEF Plans, IsInjective
    <3> QED BY <2>5, <3>1, <3>2, PlanType, Zenon DEF Begin
  <2> QED BY <1>3, <2>1, <2>2, <2>3, <2>4, <2>6, <2>7, <2>8, StepCases, Zenon DEF Ended
<1>4. CASE Panic
  <2>1. (\A y \in Executions : exec'[y].node = NoNode) /\ plan' = plan
    BY <1>4, FreshType, Zenon DEF Panic
  <2>2. \A i \in DOMAIN plan : plan[i] # NoNode
    BY SendAssumption DEF TypeOK
  <2> QED
    BY <2>1, <2>2, Zenon DEF PlanInv, DistinctNodes
<1>5. CASE UNCHANGED vars
  BY <1>5, Zenon DEF vars, PlanInv, DistinctNodes
<1> QED BY <1>2, <1>3, <1>4, <1>5, Zenon DEF Next

\* PlanInv holds at the start, when plans name a node once.
LEMMA PlanInit == ~Repeats /\ Init => PlanInv
<1> SUFFICES ASSUME ~Repeats, Init PROVE PlanInv
  BY Zenon
<1>1. \A x \in Executions : exec[x].node = NoNode
  BY FreshType, Zenon DEF Init
<1>2. plan \in Seq(Nodes) /\ \A i, j \in DOMAIN plan : plan[i] = plan[j] => i = j
  BY PlanType, Zenon DEF Init, Plans, IsInjective
<1>3. \A i \in DOMAIN plan : plan[i] # NoNode
  BY <1>2, SendAssumption
<1> QED BY <1>1, <1>2, <1>3, Zenon DEF PlanInv, DistinctNodes

\* When the strategy names a node once in a plan, parallel executions are
\* never at the same node, however they share the plan.
THEOREM ExecutionsSpread == ~Repeats => (Spec => []DistinctNodes)
<1> SUFFICES ASSUME ~Repeats PROVE Spec => []DistinctNodes
  BY Zenon
<1>1. Init => PlanInv
  BY PlanInit, Zenon
<1>2. TypeOK /\ PlanInv /\ [Next]_vars => PlanInv'
  BY PlanStep, Zenon
<1>3. PlanInv => DistinctNodes
  BY Zenon DEF PlanInv
<1> QED BY <1>1, <1>2, <1>3, TypeInit, TypeStep, PTL DEF Spec

(***************************************************************************)
(* Resends                                                                 *)
(***************************************************************************)

\* A node of the plan got nothing yet.  The node an execution is at got no
\* more than one envelope, and one more for every retry its session allowed.
SendsInv ==
    /\ \A i \in DOMAIN plan : sends[plan[i]] = 0
    /\ \A x \in Executions :
          /\ exec[x].pc = "connect" => sends[exec[x].node] <= Flags(exec[x].session)
          /\ exec[x].pc = "write" => sends[exec[x].node] <= 1 + Flags(exec[x].session)
    /\ ResendsBounded

\* A session has two such flags.
LEMMA FlagsBound ==
    ASSUME NEW session PROVE Flags(session) \in 0..2
BY DEF Flags

\* Every step keeps SendsInv, when plans name a node once.
LEMMA SendsStep == TypeOK /\ PlanInv /\ SendsInv /\ [Next]_vars => SendsInv'
<1> SUFFICES ASSUME TypeOK, PlanInv, SendsInv, [Next]_vars PROVE SendsInv'
  BY Zenon
<1>0. ASSUME NEW x \in Executions, NEW e, exec' = [exec EXCEPT ![x] = e],
             e.pc \notin {"connect", "write"}, plan' = plan, sends' = sends
      PROVE  SendsInv'
  BY <1>0, Zenon DEF SendsInv, ResendsBounded, TypeOK
<1>1. CASE Tick
  <2>1. CASE ExecutionAllowed
    <3>1. running + 1 \in Executions
      BY <2>1, SendAssumption DEF ExecutionAllowed, TypeOK, Statements, Executions
    <3> QED
      BY <1>0, <1>1, <2>1, <3>1, Zenon DEF Tick, Pushed, Execution, historyVars
  <2>2. CASE ~ExecutionAllowed
    BY <1>1, <2>2, Zenon DEF Tick, historyVars, SendsInv, ResendsBounded
  <2> QED
    BY <2>1, <2>2, Zenon
<1>2. ASSUME NEW x \in Executions, Step(x) PROVE SendsInv'
  <2>1. CASE TookNode(x)
    <3>1. PICK s \in Kept, q \in Sessions : exec' = [exec EXCEPT ![x] = Execution("connect", Head(plan), s, q)]
      BY <2>1, Zenon DEF TookNode, Went, SetExec
    <3>2. /\ plan \in Seq(Nodes) /\ Len(plan) > 0 /\ Head(plan) = plan[1] /\ 1 \in DOMAIN plan
          /\ plan' = Tail(plan) /\ sends' = sends
      BY <2>1 DEF TookNode, Went, TypeOK
    <3>3. \A i \in DOMAIN plan' : i + 1 \in DOMAIN plan /\ plan'[i] = plan[i + 1]
      BY <3>2
    <3>4. \A i \in DOMAIN plan' : sends'[plan'[i]] = 0
      BY <3>2, <3>3, Zenon DEF SendsInv
    <3>5. /\ exec'[x].pc = "connect" /\ exec'[x].node = Head(plan)
          /\ \A y \in Executions : y # x => exec'[y] = exec[y]
      BY <3>1, Zenon DEF Execution, TypeOK
    <3>6. sends'[exec'[x].node] = 0
      BY <3>2, <3>5 DEF SendsInv
    <3>7. sends'[exec'[x].node] <= Flags(exec'[x].session)
      BY <3>6, FlagsBound
    <3> QED
      BY <3>2, <3>4, <3>5, <3>7, Zenon DEF SendsInv, ResendsBounded
  <2>2. CASE Retried(x)
    <3>1. /\ exec[x].pc = "write" /\ plan' = plan /\ sends' = sends
          /\ Flags(exec'[x].session) > Flags(exec[x].session) /\ exec[x].node \in Nodes
      BY <2>2, Zenon DEF Retried, Went
    <3>2. PICK e : e.pc = "connect" /\ e.node = exec[x].node /\ exec' = [exec EXCEPT ![x] = e]
      BY <2>2, Zenon DEF Retried, Went, SetExec, Execution
    <3>3. /\ exec'[x].pc = "connect" /\ exec'[x].node = exec[x].node
          /\ \A y \in Executions : y # x => exec'[y] = exec[y]
      BY <3>2, Zenon DEF TypeOK
    <3>4. sends[exec[x].node] <= 1 + Flags(exec[x].session) /\ sends[exec[x].node] \in Nat
      BY <3>1, Zenon DEF SendsInv, TypeOK
    <3>5. sends'[exec'[x].node] <= Flags(exec'[x].session)
      BY <3>1, <3>3, <3>4, FlagsBound
    <3> QED
      BY <3>1, <3>3, <3>5, Zenon DEF SendsInv, ResendsBounded
  <2>3. CASE Connected(x)
    <3>1. /\ exec[x].pc = "connect" /\ exec[x].node \in Nodes /\ plan' = plan
          /\ exec' = [exec EXCEPT ![x] = [exec[x] EXCEPT !.pc = "write"]]
          /\ sends' = [sends EXCEPT ![exec[x].node] = @ + 1]
      BY <2>3, Zenon DEF Connected, SetExec, TypeOK
    <3>2. /\ exec'[x].pc = "write" /\ exec'[x].node = exec[x].node /\ exec'[x].session = exec[x].session
          /\ \A y \in Executions : y # x => exec'[y] = exec[y]
      BY <3>1, Zenon DEF TypeOK
    <3>3. /\ sends'[exec[x].node] = sends[exec[x].node] + 1 /\ sends[exec[x].node] \in Nat
          /\ \A n \in Nodes : n # exec[x].node => sends'[n] = sends[n]
      BY <3>1, Zenon DEF TypeOK
    <3>4. sends[exec[x].node] <= Flags(exec[x].session)
      BY <3>1, Zenon DEF SendsInv
    <3>5. sends'[exec[x].node] <= 1 + Flags(exec[x].session) /\ sends'[exec[x].node] <= 3
      BY <3>3, <3>4, FlagsBound
    <3>6. ResendsBounded'
      BY <3>3, <3>5, Zenon DEF SendsInv, ResendsBounded
    <3>7. \A i \in DOMAIN plan : plan[i] \in Nodes /\ plan[i] # exec[x].node
      BY DEF PlanInv, TypeOK
    <3>8. \A i \in DOMAIN plan' : sends'[plan'[i]] = 0
      BY <3>1, <3>3, <3>7, Zenon DEF SendsInv
    <3>9. ASSUME NEW y \in Executions, exec'[y].pc \in {"connect", "write"}, y # x
          PROVE  sends'[exec'[y].node] = sends[exec[y].node] /\ exec'[y] = exec[y]
      <4>1. exec[y].node \in Nodes /\ exec[y].node # NoNode /\ exec'[y] = exec[y]
        BY <3>2, <3>9, Zenon DEF TypeOK
      <4>2. exec[y].node # exec[x].node
        BY <3>9, <4>1, Zenon DEF PlanInv, DistinctNodes
      <4> QED
        BY <3>3, <4>1, <4>2, Zenon
    <3> QED
      BY <3>2, <3>5, <3>6, <3>8, <3>9, Zenon DEF SendsInv
  <2>4. CASE LoopGoesOn(x)
    BY <1>0, <2>4, Zenon DEF LoopGoesOn, Done, Execution
  <2>5. CASE CallReturned
    BY <2>5, FreshType, Zenon DEF CallReturned, Return, SendsInv, ResendsBounded
  <2>6. ASSUME NEW ph, NEW p \in Seq(Nodes), Begin(ph, p) PROVE SendsInv'
    <3>1. \A n \in Nodes : sends'[n] = 0
      BY <2>6, Zenon DEF Begin
    <3>2. \A i \in DOMAIN plan' : plan'[i] \in Nodes
      BY <2>6 DEF Begin
    <3>3. \A y \in Executions : exec'[y].pc \in {"off", "pushed"}
      BY <2>6, FreshType, Zenon DEF Begin
    <3> QED
      BY <3>1, <3>2, <3>3 DEF SendsInv, ResendsBounded
  <2>7. CASE PrepareBegan
    <3>1. PICK n \in Nodes : Begin("prepare", <<n>>)
      BY <2>7, Zenon DEF PrepareBegan
    <3>2. <<n>> \in Seq(Nodes)
      OBVIOUS
    <3> QED
      BY <2>6, <3>1, <3>2, Zenon
  <2>8. CASE SecondBegan
    BY <2>6, <2>8, PlanType, Zenon DEF SecondBegan
  <2> QED
    BY <1>2, <2>1, <2>2, <2>3, <2>4, <2>5, <2>7, <2>8, StepCases, Zenon DEF Ended
<1>3. CASE Panic
  BY <1>3, FreshType, Zenon DEF Panic, historyVars, SendsInv, ResendsBounded
<1>4. CASE UNCHANGED vars
  BY <1>4, Zenon DEF vars, historyVars, SendsInv, ResendsBounded
<1> QED
  BY <1>1, <1>2, <1>3, <1>4, Zenon DEF Next

\* When plans name a node once, a node gets the envelope of one send_envelope
\* at most three times, whatever the errors and however many executions.
THEOREM ResendsAreBounded == ~Repeats => (Spec => []ResendsBounded)
<1> SUFFICES ASSUME ~Repeats PROVE Spec => []ResendsBounded
  BY Zenon
<1>1. Init => PlanInv /\ SendsInv
  <2> SUFFICES ASSUME Init PROVE SendsInv
    BY PlanInit, Zenon
  <2>1. \A n \in Nodes : sends[n] = 0
    BY Zenon DEF Init
  <2>2. \A x \in Executions : exec[x].pc \in {"off", "pushed"}
    BY FreshType, Zenon DEF Init
  <2>3. \A i \in DOMAIN plan : plan[i] \in Nodes
    BY PlanType DEF Init
  <2> QED
    BY <2>1, <2>2, <2>3 DEF SendsInv, ResendsBounded
<1>2. TypeOK /\ PlanInv /\ SendsInv /\ [Next]_vars => PlanInv' /\ SendsInv'
  BY PlanStep, SendsStep, Zenon
<1>3. SendsInv => ResendsBounded
  BY Zenon DEF SendsInv
<1> QED
  BY <1>1, <1>2, <1>3, TypeInit, TypeStep, PTL DEF Spec

(***************************************************************************)
(* The speculative loop                                                    *)
(***************************************************************************)

\* Executions are numbered in the order they are pushed, and no more are
\* pushed than the policy allows.  The loop is left without an execution, and
\* panics, only after one that ended with an error it keeps.
LoopInv ==
    /\ \A x \in Executions : exec[x].pc # "off" => x <= running
    /\ running <= IF stmt.max = 0 THEN 1 ELSE stmt.max
    /\ Speculating /\ Active = {} => lastError.kind # "none"
    /\ PanicsOnlyAfterIoError

\* An execution that goes on keeps the loop waiting for it.
LEMMA LoopContinues ==
    ASSUME TypeOK, LoopInv, NEW x \in Executions, exec[x].pc # "off", phase # "panicked",
           NEW e, exec' = [exec EXCEPT ![x] = e], UNCHANGED <<stmt, phase, running>>,
           \/ e.pc \in {"pushed", "connect", "write"}
           \/ lastError'.kind # "none"
           \/ \E y \in Active : y # x
    PROVE  LoopInv'
<1>1. \A y \in Executions : exec'[y].pc # "off" => y <= running
  BY Zenon DEF LoopInv, TypeOK
<1>2. lastError'.kind # "none" \/ Active' # {}
  <2>1. CASE e.pc \in {"pushed", "connect", "write"}
    BY <2>1, Zenon DEF Active, TypeOK
  <2>2. CASE \E y \in Active : y # x
    BY <2>2, Zenon DEF Active, TypeOK
  <2> QED
    BY <2>1, <2>2, Zenon
<1> QED
  BY <1>1, <1>2, Zenon DEF LoopInv, PanicsOnlyAfterIoError

\* Every step keeps LoopInv.
LEMMA LoopStep == TypeOK /\ ResendInv /\ LoopInv /\ [Next]_vars => LoopInv'
<1> SUFFICES ASSUME TypeOK, ResendInv, LoopInv, [Next]_vars PROVE LoopInv'
  BY Zenon
<1>0. 1 \in Executions /\ running \in Nat /\ stmt.max \in Nat
  BY SendAssumption DEF Executions, TypeOK, Statements
<1>1. CASE Tick
  <2>1. CASE ExecutionAllowed
    <3>1. running + 1 \in Executions
      BY <2>1, SendAssumption DEF ExecutionAllowed, TypeOK, Statements, Executions
    <3>2. /\ running' = running + 1 /\ exec' = [exec EXCEPT ![running + 1] = Pushed]
          /\ UNCHANGED <<stmt, phase, lastError>>
      BY <1>1, <2>1, Zenon DEF Tick
    <3>3. exec'[running + 1].pc = "pushed"
      BY <3>1, <3>2, Zenon DEF Pushed, Execution, TypeOK
    <3>4. Active' # {}
      BY <3>1, <3>3, Zenon DEF Active
    <3>5. \A x \in Executions : exec'[x].pc # "off" => x <= running + 1
      BY <1>0, <3>1, <3>2 DEF LoopInv, TypeOK, Executions
    <3>6. running + 1 <= IF stmt.max = 0 THEN 1 ELSE stmt.max
      BY <1>0, <2>1 DEF ExecutionAllowed
    <3> QED
      BY <3>2, <3>4, <3>5, <3>6, Zenon DEF LoopInv, PanicsOnlyAfterIoError
  <2>2. CASE ~ExecutionAllowed
    BY <1>1, <2>2, Zenon DEF Tick, LoopInv, Active, Speculating, PanicsOnlyAfterIoError
  <2> QED
    BY <2>1, <2>2, Zenon
<1>2. ASSUME NEW x \in Executions, Step(x) PROVE LoopInv'
  <2>1. /\ stmt' = stmt /\ exec[x].pc # "off" /\ x \in Active /\ phase # "panicked"
    BY <1>2, StepCases, Zenon DEF Active, ResendInv
  <2>2. ASSUME NEW n, Went(x, n) PROVE LoopInv'
    <3>1. PICK s \in Kept, q \in Sessions : SetExec(x, Execution("connect", n, s, q))
      BY <2>2, Zenon DEF Went
    <3>2. Execution("connect", n, s, q).pc = "connect"
      BY Zenon DEF Execution
    <3> QED
      BY <2>1, <3>1, <3>2, LoopContinues, Zenon DEF SetExec, sessionVars
  <2>3. CASE Connected(x)
    <3>1. [exec[x] EXCEPT !.pc = "write"].pc = "write"
      BY Zenon DEF TypeOK
    <3> QED
      BY <2>1, <2>3, <3>1, LoopContinues, Zenon DEF Connected, SetExec, sessionVars
  <2>4. CASE LoopGoesOn(x)
    <3>1. lastError'.kind # "none" \/ \E y \in Active : y # x
      BY <2>1, <2>4, Zenon DEF LoopGoesOn
    <3> QED
      BY <2>1, <2>4, <3>1, LoopContinues, Zenon DEF LoopGoesOn
  <2>5. CASE CallReturned
    <3>1. PICK r \in Results : Return(r)
      BY <2>5, Zenon DEF CallReturned
    <3>2. \A y \in Executions : exec'[y].pc = "off"
      BY <3>1, Zenon DEF Return, Off, Execution
    <3> QED
      BY <2>1, <3>1, <3>2, Zenon DEF Return, LoopInv, Speculating, PanicsOnlyAfterIoError
  <2>6. ASSUME NEW ph \in {"prepare", "second"}, NEW p, Begin(ph, p) PROVE LoopInv'
    <3>1. running' = 1 /\ exec' = OnePushed /\ phase' # "panicked"
      BY <2>6, Zenon DEF Begin
    <3>2. /\ \A y \in Executions : exec'[y].pc # "off" => y <= 1
          /\ exec'[1].pc = "pushed"
      BY <1>0, <3>1 DEF OnePushed, Off, Pushed, Execution
    <3>3. Active' # {}
      BY <1>0, <3>2, Zenon DEF Active
    <3>4. 1 <= IF stmt.max = 0 THEN 1 ELSE stmt.max
      BY <1>0
    <3> QED
      BY <2>1, <3>1, <3>2, <3>3, <3>4, Zenon DEF LoopInv, PanicsOnlyAfterIoError
  <2>7. CASE PrepareBegan \/ SecondBegan
    BY <2>6, <2>7, Zenon DEF PrepareBegan, SecondBegan
  <2> QED
    BY <1>2, <2>2, <2>3, <2>4, <2>5, <2>7, StepCases, Zenon DEF TookNode, Retried, Ended
<1>3. CASE Panic
  <2>1. \A y \in Executions : exec'[y].pc = "off"
    BY <1>3, Zenon DEF Panic, Off, Execution
  <2> QED
    BY <1>3, <2>1, Zenon DEF Panic, LoopInv, Speculating, PanicsOnlyAfterIoError
<1>4. CASE UNCHANGED vars
  BY <1>4, Zenon DEF vars, sessionVars, LoopInv, Active, Speculating, PanicsOnlyAfterIoError
<1> QED
  BY <1>1, <1>2, <1>3, <1>4, Zenon DEF Next

\* LoopInv holds at the start.
LEMMA LoopInit == Init => LoopInv
<1> SUFFICES ASSUME Init PROVE LoopInv
  BY Zenon
<1>1. 1 \in Executions /\ stmt.max \in Nat /\ running = 1
  BY SendAssumption DEF Executions, Init, Statements
<1>2. /\ \A y \in Executions : exec[y].pc # "off" => y <= 1
      /\ exec[1].pc = "pushed"
  BY <1>1 DEF Init, OnePushed, Off, Pushed, Execution
<1>3. Active # {}
  BY <1>1, <1>2, Zenon DEF Active
<1> QED
  BY <1>1, <1>2, <1>3 DEF LoopInv, Init, PanicsOnlyAfterIoError

\* No more executions are in flight than the speculative policy allows.
THEOREM ExecutionsAreBounded == Spec => []ExecutionsBounded
<1>1. TypeOK /\ LoopInv => ExecutionsBounded
  <2> SUFFICES ASSUME TypeOK, LoopInv PROVE ExecutionsBounded
    BY Zenon
  <2>1. running \in Nat /\ stmt.max \in Nat /\ Active \subseteq 1..running
    BY SendAssumption DEF TypeOK, Statements, Executions, Active, LoopInv
  <2>2. IsFiniteSet(1..running) /\ Cardinality(1..running) = running
    <3>1. 1 \in Int /\ running \in Int
      BY <2>1
    <3>2. /\ IsFiniteSet(1..running)
          /\ Cardinality(1..running) = IF 1 > running THEN 0 ELSE running - 1 + 1
      BY <3>1, FS_Interval, Zenon
    <3> QED
      BY <2>1, <3>2
  <2>3. IsFiniteSet(Active) /\ Cardinality(Active) <= Cardinality(1..running)
    BY <2>1, <2>2, FS_Subset, Zenon
  <2>4. Cardinality(Active) \in Nat
    BY <2>3, FS_CardinalityType, Zenon
  <2> QED
    BY <2>1, <2>2, <2>3, <2>4 DEF LoopInv, ExecutionsBounded
<1> QED
  BY <1>1, TypeInit, TypeStep, ResendInit, ResendStep, LoopInit, LoopStep, PTL DEF Spec

\* A call panics only in a speculative loop, and only after an execution ended
\* with an Io or Timeout error: no other end of an execution leaves the loop
\* without one, whatever the plans, the policies and the number of executions.
THEOREM PanicsComeFromIoErrors == Spec => []PanicsOnlyAfterIoError
<1>1. LoopInv => PanicsOnlyAfterIoError
  BY Zenon DEF LoopInv
<1> QED
  BY <1>1, TypeInit, TypeStep, ResendInit, ResendStep, LoopInit, LoopStep, PTL DEF Spec

(***************************************************************************)
(* Preparing again                                                         *)
(***************************************************************************)

\* A statement is prepared, and sent a second time, because it was missing;
\* a call that has not returned has no answer.
PreparedInv ==
    /\ phase \in {"prepare", "second"} => unprepared.kind = "unprepared"
    /\ phase # "returned" => answer.kind = "none"
    /\ UnpreparedOnlyAfterTrying

\* Every step keeps PreparedInv.
LEMMA PreparedStep == TypeOK /\ ResendInv /\ PreparedInv /\ [Next]_vars => PreparedInv'
<1> SUFFICES ASSUME TypeOK, ResendInv, PreparedInv, [Next]_vars PROVE PreparedInv'
  BY Zenon
<1>0. ASSUME UNCHANGED <<stmt, phase, unprepared, answer>> PROVE PreparedInv'
  BY <1>0, Zenon DEF PreparedInv, UnpreparedOnlyAfterTrying
<1>1. CASE Tick \/ UNCHANGED vars
  BY <1>0, <1>1, Zenon DEF Tick, vars, sessionVars
<1>2. ASSUME NEW x \in Executions, Step(x) PROVE PreparedInv'
  <2>1. stmt' = stmt /\ phase \notin {"returned", "panicked"}
    BY <1>2, StepCases, Zenon DEF ResendInv
  <2>2. ASSUME NEW n, Went(x, n) PROVE PreparedInv'
    BY <1>0, <2>1, <2>2, Zenon DEF Went, SetExec, sessionVars
  <2>3. CASE Connected(x)
    BY <1>0, <2>1, <2>3, Zenon DEF Connected, SetExec, sessionVars
  <2>4. CASE LoopGoesOn(x)
    BY <1>0, <2>1, <2>4, Zenon DEF LoopGoesOn
  <2>5. CASE CallReturned
    BY <2>1, <2>5, Zenon DEF CallReturned, Return, PreparedInv, UnpreparedOnlyAfterTrying, TypeOK
  <2>6. CASE PrepareBegan
    BY <2>1, <2>6, Zenon DEF PrepareBegan, Begin, PreparedInv, UnpreparedOnlyAfterTrying
  <2>7. CASE SecondBegan
    BY <2>1, <2>7, Zenon DEF SecondBegan, Begin, PreparedInv, UnpreparedOnlyAfterTrying
  <2> QED
    BY <1>2, <2>2, <2>3, <2>4, <2>5, <2>6, <2>7, StepCases, Zenon DEF TookNode, Retried, Ended
<1>3. CASE Panic
  BY <1>3, Zenon DEF Panic, Speculating, PreparedInv, UnpreparedOnlyAfterTrying
<1> QED
  BY <1>1, <1>2, <1>3, Zenon DEF Next

\* The caller of a prepared statement gets an Unprepared error only after the
\* statement was prepared again, or that failed.
THEOREM UnpreparedIsTried == Spec => []UnpreparedOnlyAfterTrying
<1>1. Init => ResendInv /\ PreparedInv
  BY FreshType DEF Init, ResendInv, PreparedInv, UnpreparedOnlyAfterTrying, NoResult, Result
<1>2. PreparedInv => UnpreparedOnlyAfterTrying
  BY Zenon DEF PreparedInv
<1> QED
  BY <1>1, <1>2, TypeInit, TypeStep, ResendStep, PreparedStep, PTL DEF Spec
(***************************************************************************)
(* "No nodes available"                                                    *)
(***************************************************************************)

\* Without speculation the first execution is the only one.
AloneInv == ~Speculating => \A x \in Executions : exec[x].pc # "off" => x = 1

\* Every step keeps AloneInv: only the timer of a speculative loop adds an
\* execution, and a send_envelope begins with one.
LEMMA AloneStep == TypeOK /\ AloneInv /\ [Next]_vars => AloneInv'
<1> SUFFICES ASSUME TypeOK, AloneInv, [Next]_vars PROVE AloneInv'
  BY Zenon
<1>1. CASE Tick
  BY <1>1, Zenon DEF Tick, Speculating, AloneInv
<1>2. ASSUME NEW x \in Executions, Step(x) PROVE AloneInv'
  <2>1. stmt' = stmt /\ exec[x].pc # "off"
    BY <1>2, StepCases, Zenon
  <2>2. ASSUME phase' = phase, NEW e, exec' = [exec EXCEPT ![x] = e] PROVE AloneInv'
    BY <2>1, <2>2, Zenon DEF AloneInv, Speculating, TypeOK
  <2>3. ASSUME NEW n, Went(x, n) PROVE AloneInv'
    BY <2>2, <2>3, Zenon DEF Went, SetExec, sessionVars
  <2>4. CASE Connected(x)
    BY <2>2, <2>4, Zenon DEF Connected, SetExec, sessionVars
  <2>5. CASE LoopGoesOn(x)
    BY <2>2, <2>5, Zenon DEF LoopGoesOn
  <2>6. CASE CallReturned
    BY <2>6, FreshType, Zenon DEF CallReturned, Return, AloneInv
  <2>7. CASE PrepareBegan \/ SecondBegan
    BY <2>7, FreshType, Zenon DEF PrepareBegan, SecondBegan, Begin, AloneInv
  <2> QED
    BY <1>2, <2>3, <2>4, <2>5, <2>6, <2>7, StepCases, Zenon DEF TookNode, Retried, Ended
<1>3. CASE Panic
  BY <1>3, FreshType, Zenon DEF Panic, AloneInv
<1>4. CASE UNCHANGED vars
  BY <1>4, Zenon DEF vars, sessionVars, AloneInv, Speculating
<1> QED
  BY <1>1, <1>2, <1>3, <1>4, Zenon DEF Next

\* A send_envelope returns "no nodes available" for a result that is none.
LEMMA NoNodesMeansNone ==
    ASSUME PreparedInv, NEW r, r.kind # "no_nodes", SendReturns(r),
           answer'.kind = "no_nodes", answer.kind # "no_nodes"
    PROVE  r.kind = "none"
<1> DEFINE s == IF r.kind = "none" THEN Result("no_nodes", NoNode) ELSE r
<1>1. \A ph, p : ~Begin(ph, p)
  BY Zenon DEF Begin
<1>2. ~Return(Result("changed_id", NoNode)) /\ ~Return(Result("no_such_node", NoNode))
  BY DEF Return, Result
<1>3. phase = "prepare" => ~Return(unprepared)
  BY Zenon DEF Return, PreparedInv
<1>4. Return(s)
  BY <1>1, <1>2, <1>3, Zenon DEF SendReturns, AfterPrepare, AfterStatement
<1> QED
  BY <1>4, Zenon DEF Return

\* The execution that ends a call this way is the only one in flight, and it
\* found the plan empty.
LEMMA FinishedLast ==
    ASSUME TypeOK, AloneInv, PreparedInv, NEW x \in Active, NEW result,
           result.kind # "no_nodes", result.kind = "none" => plan = <<>>,
           Finish(x, result), answer'.kind = "no_nodes", answer.kind # "no_nodes"
    PROVE  Active = {x} /\ plan = <<>>
<1>1. CASE Speculating /\ result.kind = "none" /\ Active = {x}
  BY <1>1, Zenon
<1>2. CASE /\ Speculating => result.kind \notin {"io", "timeout", "none"}
           /\ SendReturns(result)
  <2>1. result.kind = "none"
    BY <1>2, NoNodesMeansNone, Zenon
  <2>2. \A y \in Executions : exec[y].pc # "off" => y = 1
    BY <1>2, <2>1, Zenon DEF AloneInv
  <2> QED
    BY <2>1, <2>2, Zenon DEF Active
<1>3. answer' # answer
  BY Zenon
<1> QED
  BY <1>1, <1>2, <1>3, Zenon DEF Finish, SetExec, sessionVars

\* An execution that asks for the next node and ends the call this way.
LEMMA NextNodeLast ==
    ASSUME TypeOK, AloneInv, PreparedInv, NEW x \in Active, NEW saved, NEW session,
           saved.kind # "no_nodes", NextNode(x, saved, session),
           answer'.kind = "no_nodes", answer.kind # "no_nodes"
    PROVE  Active = {x} /\ plan = <<>>
<1>1. answer' # answer
  BY Zenon
<1>2. plan = <<>> /\ Finish(x, saved)
  BY <1>1, Zenon DEF NextNode, SetExec, sessionVars
<1> QED
  BY <1>2, FinishedLast, Zenon

\* The caller is told that no node is available only by the last execution
\* there is, after the last node of the plan, whatever the policies and errors.
THEOREM NoNodesComesLast == Spec => NoNodesIsLast
<1> DEFINE Told == answer'.kind = "no_nodes" /\ answer.kind # "no_nodes"
           Ends == Cardinality(Active) = 1 /\ plan = <<>>
<1>1. Init => ResendInv /\ PreparedInv /\ AloneInv
  BY FreshType DEF Init, ResendInv, PreparedInv, AloneInv, UnpreparedOnlyAfterTrying, NoResult, Result
<1>2. ASSUME TypeOK, AloneInv, PreparedInv, [Next]_vars, Told PROVE Ends
  <2>1. answer' # answer
    BY <1>2, Zenon
  <2>2. PICK x \in Executions : Step(x)
    BY <1>2, <2>1, Zenon DEF Next, Tick, Panic, vars, sessionVars
  <2>3. x \in Active /\ exec[x].saved.kind # "no_nodes"
    <3>1. exec[x].pc \in {"pushed", "connect", "write"}
      BY <1>2, <2>2, StepCases, Zenon
    <3>2. exec[x].saved \in Kept
      BY <1>2, Zenon DEF TypeOK
    <3> QED
      BY <3>1, <3>2, Zenon DEF Active, Kept, ConnectErrors
  <2>4. Active = {x} /\ plan = <<>>
    <3>1. CASE Start(x)
      <4>1. NoResult.kind # "no_nodes"
        BY Zenon DEF NoResult, Result
      <4> QED
        BY <1>2, <2>3, <3>1, <4>1, NextNodeLast, Zenon DEF Start
    <3>2. CASE Connected(x)
      BY <2>1, <3>2, Zenon DEF Connected, SetExec, sessionVars
    <3>3. CASE ConnectFails(x)
      <4>1. PICK e \in ConnectErrors : NextNode(x, Result(e, exec[x].node), exec[x].session)
        BY <3>3, Zenon DEF ConnectFails
      <4>2. Result(e, exec[x].node).kind # "no_nodes"
        BY Zenon DEF Result, ConnectErrors
      <4> QED
        BY <1>2, <2>3, <4>1, <4>2, NextNodeLast, Zenon
    <3>4. CASE Responds(x)
      <4>1. Result("ok", exec[x].node).kind \notin {"no_nodes", "none"}
        BY Zenon DEF Result
      <4> QED
        BY <1>2, <2>3, <3>4, <4>1, FinishedLast, Zenon DEF Responds
    <3>5. ASSUME NEW e \in WriteErrors, WriteFails(x, e) PROVE Active = {x} /\ plan = <<>>
      <4>1. Result(e, exec[x].node).kind \notin {"no_nodes", "none"}
        BY Zenon DEF Result, WriteErrors
      <4>2. CASE Finish(x, Result(e, exec[x].node))
        BY <1>2, <2>3, <4>1, <4>2, FinishedLast, Zenon
      <4>3. CASE NextNode(x, exec[x].saved, SessionAfter(exec[x].session, e, IsIdempotent))
        BY <1>2, <2>3, <4>3, NextNodeLast, Zenon
      <4> QED
        BY <2>1, <3>5, <4>2, <4>3, Zenon DEF WriteFails, SetExec, sessionVars
    <3> QED
      BY <2>2, <3>1, <3>2, <3>3, <3>4, <3>5, Zenon DEF Step
  <2>5. Cardinality({x}) = 1
    BY FS_Singleton, Zenon
  <2> QED
    BY <2>4, <2>5, Zenon
<1>3. TypeOK /\ AloneInv /\ PreparedInv /\ [Next]_vars => [Told => Ends]_vars
  BY <1>2, Zenon
<1> QED
  BY <1>1, <1>3, TypeInit, TypeStep, ResendStep, PreparedStep, AloneStep, PTL DEF Spec, NoNodesIsLast
=============================================================================
