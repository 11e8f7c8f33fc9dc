------------------------------- MODULE Keyspace -------------------------------
(***************************************************************************)
(* The current keyspace of a session: KeyspaceHolder                       *)
(* (cdrs-tokio/src/cluster/keyspace_holder.rs), the task of every pool     *)
(* that repeats a change of keyspace on its connections                    *)
(* (connection_pool.rs), the USE a new connection begins with              *)
(* (connection_manager.rs), and the readers of the connections, which      *)
(* record the answer to every USE (transport.rs).                          *)
(***************************************************************************)
EXTENDS Integers, Sequences, FiniteSets

CONSTANTS
    Pools,
    Slots,          \* connections of a pool
    Keyspaces,
    None,           \* no keyspace
    MaxUses,        \* bound: USE statements of the application
    MaxFaults       \* bound: connections that break and USE statements the
                    \* server refuses, together

ASSUME KeyspaceAssumption ==
    /\ None \notin Keyspaces
    /\ MaxUses \in Nat /\ MaxFaults \in Nat

Conns == Pools \X Slots

VARIABLES
    current,        \* KeyspaceHolder::current_keyspace
    watch,          \* the watch channel: the last value sent
    state,          \* [Conns -> "down", "starting", "up"]
    keyspace,       \* [Conns -> keyspace in effect at the server]
    requests,       \* [Conns -> USE statements on their way, with their sender]
    answers,        \* [Conns -> answers on their way back; an ERROR sets None]
    notify,         \* [Conns -> keyspace the reader is about to announce]
    locked,         \* pools whose connections are being replaced (write lock)
    watcher,        \* [Pools -> [pc, changed: a value not yet seen, keyspace]]
    uses, faults,
    asked,          \* keyspaces the application has asked for
    logged          \* history: connections that refused the last USE repeated
                    \* on them; nothing but the log tells

connVars == <<state, keyspace, requests, answers>>
bounds == <<uses, faults, asked>>
vars == <<current, watch, connVars, notify, locked, watcher, bounds, logged>>

-----------------------------------------------------------------------------
\* The session is built with or without a keyspace, which is stored without a
\* notification; the pools are being created.
Init ==
    /\ current \in Keyspaces \cup {None}
    /\ watch = None
    /\ state = [c \in Conns |-> "down"] /\ keyspace = [c \in Conns |-> None]
    /\ requests = [c \in Conns |-> <<>>] /\ answers = [c \in Conns |-> <<>>]
    /\ notify = [c \in Conns |-> None]
    /\ locked = Pools
    /\ watcher = [p \in Pools |-> [pc |-> "off", changed |-> FALSE, keyspace |-> None]]
    /\ uses = 0 /\ faults = 0
    /\ asked = {current} \ {None} /\ logged = {}

Send(c, k, from) == requests' = [requests EXCEPT ![c] = Append(@, [use |-> k, from |-> from])]

\* The application sends a USE statement on some connection.
Use(c, k) ==
    /\ uses < MaxUses /\ state[c] = "up"
    /\ uses' = uses + 1 /\ asked' = asked \cup {k}
    /\ Send(c, k, "user")
    /\ UNCHANGED <<current, watch, state, keyspace, answers, notify, locked, watcher>>
    /\ UNCHANGED <<faults, logged>>

\* The server handles the statements of a connection in order.
Serve(c) ==
    /\ requests[c] # <<>>
    /\ keyspace' = [keyspace EXCEPT ![c] = Head(requests[c]).use]
    /\ answers' = [answers EXCEPT ![c] = Append(@, Head(requests[c]))]
    /\ requests' = [requests EXCEPT ![c] = Tail(@)]
    /\ UNCHANGED <<current, watch, state, notify, locked, watcher, bounds, logged>>

\* It refuses a keyspace its node does not know (yet) and stays in the old one.
Refuse(c) ==
    /\ requests[c] # <<>> /\ faults < MaxFaults
    /\ faults' = faults + 1
    /\ answers' = [answers EXCEPT ![c] = Append(@, [Head(requests[c]) EXCEPT !.use = None])]
    /\ requests' = [requests EXCEPT ![c] = Tail(@)]
    /\ UNCHANGED <<current, watch, state, keyspace, notify, locked, watcher>>
    /\ UNCHANGED <<uses, asked, logged>>

-----------------------------------------------------------------------------
(***************************************************************************)
(* The reader of a connection: update_current_keyspace swaps the value and *)
(* then announces it if it differs; only then is the answer delivered.     *)
(* Other readers can come in between.                                      *)
(***************************************************************************)
\* Faulty variant: a keyspace is announced only if there was none before.
NotifiesFirst(old, new) == old = None

Notifies(old, new) == old = None \/ old # new

\* send_response: the statement has been answered, and its sender goes on.
Deliver(c) ==
    /\ answers' = [answers EXCEPT ![c] = Tail(@)]
    /\ state' = IF Head(answers[c]).from = "startup" THEN [state EXCEPT ![c] = "up"] ELSE state

\* A SET_KEYSPACE result.
ReadAnswer(c) ==
    /\ answers[c] # <<>> /\ notify[c] = None
    /\ LET k == Head(answers[c]).use
       IN /\ k # None
          /\ current' = k
          /\ IF Notifies(current, k)
             THEN notify' = [notify EXCEPT ![c] = k] /\ UNCHANGED <<answers, state>>
             ELSE Deliver(c) /\ UNCHANGED notify
    /\ logged' = logged \ {c}
    /\ UNCHANGED <<watch, keyspace, requests, locked, watcher, bounds>>

\* The connection is gone, with everything on its way.
Drop(c) ==
    /\ state' = [state EXCEPT ![c] = "down"]
    /\ requests' = [requests EXCEPT ![c] = <<>>] /\ answers' = [answers EXCEPT ![c] = <<>>]
    /\ keyspace' = [keyspace EXCEPT ![c] = None]
    /\ logged' = logged \ {c}

\* An ERROR: nothing is recorded.  A new connection is given up; the watcher
\* of the pool logs the error and leaves the connection as it is.
ReadRefusal(c) ==
    /\ answers[c] # <<>> /\ notify[c] = None /\ Head(answers[c]).use = None
    /\ IF Head(answers[c]).from = "startup" THEN Drop(c)
       ELSE /\ answers' = [answers EXCEPT ![c] = Tail(@)]
            /\ logged' = IF Head(answers[c]).from = "watcher" THEN logged \cup {c} ELSE logged
            /\ UNCHANGED <<state, keyspace, requests>>
    /\ UNCHANGED <<current, watch, notify, locked, watcher, bounds>>

SendNotification(c) ==
    /\ notify[c] # None
    /\ watch' = notify[c]
    /\ watcher' = [p \in Pools |-> [watcher[p] EXCEPT !.changed = TRUE]]
    /\ notify' = [notify EXCEPT ![c] = None]
    /\ Deliver(c)
    /\ UNCHANGED <<current, keyspace, requests, locked, bounds, logged>>

-----------------------------------------------------------------------------
(***************************************************************************)
(* The task of a pool that watches for changes.                            *)
(***************************************************************************)
Step(p, pc) == watcher[p].pc = pc

Changed(p) ==
    /\ Step(p, "idle") /\ watcher[p].changed
    /\ watcher' = [watcher EXCEPT ![p].pc = "borrow", ![p].changed = FALSE]
    /\ UNCHANGED <<current, watch, connVars, notify, locked, bounds, logged>>

Borrow(p) ==
    /\ Step(p, "borrow")
    /\ watcher' = [watcher EXCEPT ![p].pc = "lock", ![p].keyspace = watch]
    /\ UNCHANGED <<current, watch, connVars, notify, locked, bounds, logged>>

\* With the read lock, USE is sent on every connection that is not broken.
UseOnAll(p) ==
    /\ Step(p, "lock") /\ p \notin locked
    /\ requests' = [c \in Conns |->
           IF c[1] = p /\ state[c] = "up"
           THEN Append(requests[c], [use |-> watcher[p].keyspace, from |-> "watcher"])
           ELSE requests[c]]
    /\ watcher' = [watcher EXCEPT ![p].pc = "wait", ![p].keyspace = None]
    /\ UNCHANGED <<current, watch, state, keyspace, answers, notify, locked, bounds, logged>>

Outstanding(c) == {requests[c][i].from : i \in DOMAIN requests[c]}
                  \cup {answers[c][i].from : i \in DOMAIN answers[c]}

\* join_all waits for all answers, holding the lock.
AllAnswered(p) ==
    /\ Step(p, "wait")
    /\ \A s \in Slots : "watcher" \notin Outstanding(<<p, s>>)
    /\ watcher' = [watcher EXCEPT ![p].pc = "idle"]
    /\ UNCHANGED <<current, watch, connVars, notify, locked, bounds, logged>>

-----------------------------------------------------------------------------
(***************************************************************************)
(* Connections come and go.  New ones are made while the pool is created   *)
(* or with its write lock (reconnect_broken).                              *)
(***************************************************************************)
Break(c) ==
    /\ faults < MaxFaults /\ state[c] # "down" /\ notify[c] = None
    /\ faults' = faults + 1
    /\ Drop(c)
    /\ UNCHANGED <<current, watch, notify, locked, watcher, uses, asked>>

LockPool(p) ==
    /\ p \notin locked /\ watcher[p].pc # "wait"
    /\ \E s \in Slots : state[<<p, s>>] = "down"
    /\ locked' = locked \cup {p}
    /\ UNCHANGED <<current, watch, connVars, notify, watcher, bounds, logged>>

\* set_keyspace, the end of startup: USE if there is a current keyspace.
SetKeyspace(c) ==
    /\ c[1] \in locked /\ state[c] = "down"
    /\ IF current = None
       THEN state' = [state EXCEPT ![c] = "up"] /\ UNCHANGED requests
       ELSE state' = [state EXCEPT ![c] = "starting"] /\ Send(c, current, "startup")
    /\ UNCHANGED <<current, watch, keyspace, answers, notify, locked, watcher, bounds, logged>>

\* Faulty variant: the watcher of a new pool is not started.
UnlockUnwatched(p) ==
    /\ p \in locked /\ \A s \in Slots : state[<<p, s>>] # "starting"
    /\ locked' = locked \ {p}
    /\ UNCHANGED <<current, watch, connVars, notify, watcher, bounds, logged>>

\* Done, perhaps with connections that could not be made.  The watcher of a
\* new pool starts from the factory's receiver, which has seen nothing.
UnlockPool(p) ==
    /\ p \in locked /\ \A s \in Slots : state[<<p, s>>] # "starting"
    /\ locked' = locked \ {p}
    /\ watcher' = IF Step(p, "off") THEN [watcher EXCEPT ![p].pc = "idle"] ELSE watcher
    /\ UNCHANGED <<current, watch, connVars, notify, bounds, logged>>

-----------------------------------------------------------------------------
ReaderStep(c) == ReadAnswer(c) \/ ReadRefusal(c) \/ SendNotification(c)
WatcherStep(p) == Changed(p) \/ Borrow(p) \/ UseOnAll(p) \/ AllAnswered(p)

Next ==
    \/ \E c \in Conns :
         \/ \E k \in Keyspaces : Use(c, k)
         \/ Serve(c) \/ Refuse(c) \/ ReaderStep(c) \/ Break(c) \/ SetKeyspace(c)
    \/ \E p \in Pools : WatcherStep(p) \/ LockPool(p) \/ UnlockPool(p)

Spec == Init /\ [][Next]_vars

\* The server answers; the tasks of the driver keep running; a reconnection
\* ends.  Nothing is assumed of the application, nor that connections break.
Fairness ==
    /\ \A c \in Conns : WF_vars(Serve(c) \/ Refuse(c)) /\ WF_vars(ReaderStep(c))
    /\ \A p \in Pools : WF_vars(WatcherStep(p)) /\ SF_vars(UseOnAll(p)) /\ WF_vars(UnlockPool(p))

FairSpec == Spec /\ Fairness

-----------------------------------------------------------------------------
(***************************************************************************)
(* Properties.                                                             *)
(***************************************************************************)
Senders == {"user", "watcher", "startup"}
Statements == [use : Keyspaces, from : Senders]
Answers == [use : Keyspaces \cup {None}, from : Senders]

\* Type invariant; a USE always names a keyspace (set_keyspace sends none
\* without one).
TypeOK ==
    /\ current \in Keyspaces \cup {None}
    /\ watch \in Keyspaces \cup {None}
    /\ state \in [Conns -> {"down", "starting", "up"}]
    /\ keyspace \in [Conns -> Keyspaces \cup {None}]
    /\ requests \in [Conns -> Seq(Statements)] /\ answers \in [Conns -> Seq(Answers)]
    /\ notify \in [Conns -> Keyspaces \cup {None}]
    /\ locked \subseteq Pools
    /\ watcher \in [Pools -> [pc : {"off", "idle", "borrow", "lock", "wait"}, changed : BOOLEAN,
                              keyspace : Keyspaces \cup {None}]]
    /\ uses \in Nat /\ faults \in Nat
    /\ asked \subseteq Keyspaces /\ logged \subseteq Conns

Quiet ==
    /\ \A c \in Conns : Outstanding(c) = {} /\ notify[c] = None
    /\ \A p \in Pools : Step(p, "idle") /\ ~watcher[p].changed
    /\ locked = {}

\* But for connections that refused the last USE repeated on them.
Agreed == \A c \in Conns : state[c] = "up" /\ c \notin logged => keyspace[c] = current

\* Once every answer is in and every watcher has seen the last change, all
\* connections use the keyspace new connections would start with, whatever the
\* order of answers, announcements, refusals, breaks and reconnections was; only
\* a connection whose node refused the keyspace when the watcher repeated it is
\* left behind (connection_pool.rs logs the error and goes on).
QuietMeansAgreed == Quiet => Agreed

\* An application that asks for one keyspace only gets it in the end on all
\* connections that did not refuse it, those made while it was asking included,
\* and they keep it.
SettlesOnOne == <>[](Agreed \/ Cardinality(asked) > 1)
=============================================================================
