---------------------------- MODULE SessionProofs ----------------------------
(***************************************************************************)
(* Proofs about two parts of a session that share no state.                *)
(*                                                                         *)
(* Keyspace: for any number of pools, connections, keyspaces, USE          *)
(* statements, refusals and breaks, a quiet session has one keyspace, but  *)
(* for connections that refused it.  QuietMeansAgreed says nothing of a    *)
(* session that is not quiet.  What is preserved by every step is Settled: *)
(* a connection with nothing under way that will decide about its keyspace *)
(* has the current one, unless some reader still has to announce one, or   *)
(* the watcher of its pool has seen an announcement it has not acted upon. *)
(* A USE of the application decides nothing until the server has taken it, *)
(* as it may be refused.                                                   *)
(*                                                                         *)
(* Pager: for any number of users, rows and any page size, a pager gives   *)
(* every row once and in order.  The invariant ties the rows a user was    *)
(* given to the state of the pager, to the copy of that state the          *)
(* application kept, to the paging state of the call in progress and to    *)
(* the page on its way.                                                    *)
(***************************************************************************)
EXTENDS Keyspace, Pager, TLAPS

-----------------------------------------------------------------------------
(***************************************************************************)
(* Queues.                                                                 *)
(***************************************************************************)
Elements(q) == {q[i] : i \in DOMAIN q}

\* A queue that is not empty has a first element.
LEMMA HasFirst ==
    ASSUME NEW S, NEW q \in Seq(S), q # <<>>
    PROVE  1 \in DOMAIN q
OBVIOUS

\* What stays in a queue moves up by one place.
LEMMA TailElement ==
    ASSUME NEW S, NEW q \in Seq(S), q # <<>>, NEW i \in DOMAIN Tail(q)
    PROVE  i \in Nat /\ i + 1 \in DOMAIN q /\ Tail(q)[i] = q[i + 1]
OBVIOUS

\* Everything but the first element stays in it.
LEMMA RestElement ==
    ASSUME NEW S, NEW q \in Seq(S), q # <<>>, NEW i \in DOMAIN q
    PROVE  \/ i = 1 /\ q[i] = Head(q)
           \/ i - 1 \in DOMAIN Tail(q) /\ Tail(q)[i - 1] = q[i]
<1>1. /\ Len(q) \in Nat /\ DOMAIN q = 1..Len(q) /\ DOMAIN Tail(q) = 1..(Len(q) - 1)
      /\ Head(q) = q[1] /\ \A j \in 1..(Len(q) - 1) : Tail(q)[j] = q[j + 1]
  OBVIOUS
<1>2. CASE i = 1
  BY <1>1, <1>2, Zenon
<1>3. CASE i # 1
  <2>1. i - 1 \in 1..(Len(q) - 1) /\ (i - 1) + 1 = i
    BY <1>1, <1>3
  <2> QED
    BY <1>1, <2>1, Zenon
<1> QED
  BY <1>2, <1>3, Zenon

\* Taking the first element leaves the others.
LEMMA TailElements ==
    ASSUME NEW S, NEW q \in Seq(S), q # <<>>
    PROVE  Elements(q) = {Head(q)} \cup Elements(Tail(q))
<1>1. ASSUME NEW e \in Elements(q) PROVE e \in {Head(q)} \cup Elements(Tail(q))
  <2>1. PICK i \in DOMAIN q : e = q[i]
    BY Zenon DEF Elements
  <2> QED
    BY <2>1, RestElement, Zenon DEF Elements
<1>2. ASSUME NEW e \in Elements(Tail(q)) PROVE e \in Elements(q)
  <2>1. PICK i \in DOMAIN Tail(q) : e = Tail(q)[i]
    BY Zenon DEF Elements
  <2> QED
    BY <2>1, TailElement, Zenon DEF Elements
<1>3. Head(q) = q[1] /\ 1 \in DOMAIN q
  OBVIOUS
<1>4. Head(q) \in Elements(q)
  BY <1>3, Zenon DEF Elements
<1> QED
  BY <1>1, <1>2, <1>4, Zenon

\* What is appended to a queue is its last element, and the others stay.
LEMMA AppendElement ==
    ASSUME NEW S, NEW q \in Seq(S), NEW e \in S
    PROVE  /\ Append(q, e) # <<>> /\ Len(q) \in Nat
           /\ Len(q) + 1 \in DOMAIN Append(q, e) /\ Append(q, e)[Len(q) + 1] = e
           /\ \A i \in DOMAIN q : /\ i \in 1..Len(q) /\ i \in DOMAIN Append(q, e)
                                  /\ Append(q, e)[i] = q[i]
           /\ \A i \in DOMAIN Append(q, e) : i \in DOMAIN q \/ i = Len(q) + 1
<1>1. /\ Len(q) \in Nat /\ DOMAIN q = 1..Len(q) /\ DOMAIN Append(q, e) = 1..(Len(q) + 1)
      /\ Append(q, e)[Len(q) + 1] = e /\ \A i \in 1..Len(q) : Append(q, e)[i] = q[i]
  OBVIOUS
<1>2. Append(q, e) # <<>>
  BY <1>1, SMT
<1> QED
  BY <1>1, <1>2, SMT

LEMMA AppendElements ==
    ASSUME NEW S, NEW q \in Seq(S), NEW e \in S
    PROVE  Elements(Append(q, e)) = Elements(q) \cup {e} /\ Append(q, e) # <<>>
<1>1. ASSUME NEW x \in Elements(Append(q, e)) PROVE x \in Elements(q) \cup {e}
  <2>1. PICK i \in DOMAIN Append(q, e) : x = Append(q, e)[i]
    BY Zenon DEF Elements
  <2>2. (i \in DOMAIN q /\ x = q[i]) \/ x = e
    BY <2>1, AppendElement
  <2> QED
    BY <2>2, Zenon DEF Elements
<1>2. ASSUME NEW x \in Elements(q) PROVE x \in Elements(Append(q, e))
  <2>1. PICK i \in DOMAIN q : x = q[i]
    BY Zenon DEF Elements
  <2>2. i \in DOMAIN Append(q, e) /\ x = Append(q, e)[i]
    BY <2>1, AppendElement
  <2> QED
    BY <2>2, Zenon DEF Elements
<1>3. e \in Elements(Append(q, e)) /\ Append(q, e) # <<>>
  BY AppendElement DEF Elements
<1> QED
  BY <1>1, <1>2, <1>3, Zenon

-----------------------------------------------------------------------------
(***************************************************************************)
(* Types.                                                                  *)
(***************************************************************************)
\* A statement sent on a connection keeps the statements under way well typed.
LEMMA SendType ==
    ASSUME TypeOK, NEW c \in Conns, NEW k \in Keyspaces,
           NEW from \in Senders, Send(c, k, from)
    PROVE  requests' \in [Conns -> Seq(Statements)]
<1>1. [use |-> k, from |-> from] \in Statements
  BY Zenon DEF Statements
<1> QED
  BY <1>1 DEF TypeOK, Send

\* Delivering an answer keeps states and answers well typed.
LEMMA DeliverType ==
    ASSUME TypeOK, NEW c \in Conns, answers[c] # <<>>, Deliver(c)
    PROVE  /\ answers' \in [Conns -> Seq(Answers)]
           /\ state' \in [Conns -> {"down", "starting", "up"}]
BY DEF TypeOK, Deliver

\* A reader has something to deliver as long as it has something to announce.
Notifying == \A c \in Conns : notify[c] # None => answers[c] # <<>>

\* A watcher that has a value to repeat has a keyspace to repeat.
Watching ==
    \A p \in Pools :
        /\ watcher[p].changed \/ Step(p, "borrow") => watch # None
        /\ Step(p, "lock") => watcher[p].keyspace # None

Types == TypeOK /\ Notifying /\ Watching

\* The reader records a keyspace, never the lack of one.
LEMMA ReadUse ==
    ASSUME TypeOK, NEW c \in Conns, answers[c] # <<>>, Head(answers[c]).use # None
    PROVE  Head(answers[c]).use \in Keyspaces
<1>1. Head(answers[c]) \in Answers
  BY DEF TypeOK
<1> QED
  BY <1>1, Zenon DEF Answers

\* Every step keeps the types, a reader that announces has an answer and a
\* watcher that repeats has a keyspace.
LEMMA TypeStep == Types /\ [Next]_vars => Types'
<1> SUFFICES ASSUME Types, [Next]_vars PROVE Types'
  BY Zenon
<1> USE KeyspaceAssumption
<1>1. ASSUME NEW c \in Conns, NEW k \in Keyspaces, Use(c, k) PROVE Types'
  <2>1. requests' \in [Conns -> Seq(Statements)]
    BY <1>1, SendType, Zenon DEF Use, Types, Senders
  <2> QED
    BY <1>1, <2>1 DEF Use, Types, TypeOK, Notifying, Watching, Step
<1>2. ASSUME NEW c \in Conns, Serve(c) PROVE Types'
  <2>1. Head(requests[c]) \in Statements /\ Tail(requests[c]) \in Seq(Statements)
    BY <1>2 DEF Serve, Types, TypeOK
  <2>2. Head(requests[c]).use \in Keyspaces /\ Head(requests[c]) \in Answers
    BY <2>1, Zenon DEF Statements, Answers
  <2>3. answers'[c] # <<>> /\ \A d \in Conns \ {c} : answers'[d] = answers[d]
    <3>1. answers[c] \in Seq(Answers) /\ answers' = [answers EXCEPT ![c] = Append(@, Head(requests[c]))]
      BY <1>2, Zenon DEF Serve, Types, TypeOK
    <3> QED
      BY <2>2, <3>1, AppendElement DEF Types, TypeOK
  <2> QED
    BY <1>2, <2>1, <2>2, <2>3 DEF Serve, bounds, Types, TypeOK, Notifying, Watching, Step
<1>11. ASSUME NEW c \in Conns, Refuse(c) PROVE Types'
  <2> DEFINE refusal == [Head(requests[c]) EXCEPT !.use = None]
  <2>1. Head(requests[c]) \in Statements /\ Tail(requests[c]) \in Seq(Statements)
    BY <1>11 DEF Refuse, Types, TypeOK
  <2>2. refusal \in Answers
    BY <2>1, Zenon DEF Statements, Answers
  <2>3. /\ answers' = [answers EXCEPT ![c] = Append(@, refusal)]
        /\ requests' = [requests EXCEPT ![c] = Tail(@)]
        /\ faults' \in Nat
    BY <1>11 DEF Refuse, Types, TypeOK
  <2> HIDE DEF refusal
  <2>4. answers'[c] # <<>> /\ \A d \in Conns \ {c} : answers'[d] = answers[d]
    <3>1. answers[c] \in Seq(Answers)
      BY Zenon DEF Types, TypeOK
    <3> QED
      BY <2>2, <2>3, <3>1, AppendElement DEF Types, TypeOK
  <2>5. answers' \in [Conns -> Seq(Answers)] /\ requests' \in [Conns -> Seq(Statements)]
    BY <2>1, <2>2, <2>3 DEF Types, TypeOK
  <2> QED
    BY <1>11, <2>3, <2>4, <2>5, Zenon DEF Refuse, Types, TypeOK, Notifying, Watching, Step
<1>12. ASSUME NEW c \in Conns, ReadRefusal(c) PROVE Types'
  <2>1. CASE Head(answers[c]).from = "startup"
    <3>1. <<>> \in Seq(Statements) /\ <<>> \in Seq(Answers)
      OBVIOUS
    <3>2. /\ Drop(c) /\ notify[c] = None
          /\ UNCHANGED <<current, watch, notify, locked, watcher, uses, faults, asked>>
      BY <1>12, <2>1, Zenon DEF ReadRefusal, bounds
    <3> QED
      BY <3>1, <3>2, Zenon DEF Drop, Types, TypeOK, Notifying, Watching, Step
  <2>2. CASE Head(answers[c]).from # "startup"
    <3>1. Tail(answers[c]) \in Seq(Answers)
      BY <1>12 DEF ReadRefusal, Types, TypeOK
    <3>2. /\ answers' = [answers EXCEPT ![c] = Tail(@)] /\ notify[c] = None
          /\ logged' \subseteq logged \cup {c}
          /\ UNCHANGED <<current, watch, state, keyspace, requests, notify, locked, watcher>>
          /\ UNCHANGED <<uses, faults, asked>>
      BY <1>12, <2>2, Zenon DEF ReadRefusal, bounds
    <3> QED
      BY <3>1, <3>2, Zenon DEF Types, TypeOK, Notifying, Watching, Step
  <2> QED
    BY <2>1, <2>2, Zenon
<1>3. ASSUME NEW c \in Conns, ReadAnswer(c) PROVE Types'
  <2>1. Head(answers[c]).use \in Keyspaces
    BY <1>3, ReadUse, Zenon DEF ReadAnswer, Types
  <2>2. CASE Notifies(current, Head(answers[c]).use)
    <3>1. /\ notify' = [notify EXCEPT ![c] = Head(answers[c]).use]
          /\ UNCHANGED <<answers, state>> /\ answers[c] # <<>>
      BY <1>3, <2>2, Zenon DEF ReadAnswer
    <3>2. Notifying'
      BY <3>1, Zenon DEF Types, TypeOK, Notifying
    <3> QED
      BY <1>3, <2>1, <3>1, <3>2, Zenon DEF ReadAnswer, bounds, Types, TypeOK, Watching, Step
  <2>3. CASE ~Notifies(current, Head(answers[c]).use)
    <3>1. Deliver(c) /\ UNCHANGED notify
      BY <1>3, <2>3, Zenon DEF ReadAnswer
    <3>2. Notifying'
      BY <1>3, <3>1, Zenon DEF ReadAnswer, Deliver, Types, TypeOK, Notifying, Watching, Step
    <3> QED
      BY <1>3, <2>1, <3>1, <3>2, DeliverType, Zenon DEF ReadAnswer, bounds, Types, TypeOK, Watching, Step
  <2> QED
    BY <2>2, <2>3, Zenon
<1>4. ASSUME NEW c \in Conns, SendNotification(c) PROVE Types'
  <2>1. answers[c] # <<>> /\ Deliver(c)
    BY <1>4, Zenon DEF SendNotification, Types, Notifying
  <2>2. Notifying'
    BY <1>4, <2>1, Zenon DEF SendNotification, Deliver, Types, TypeOK, Notifying, Watching, Step
  <2> QED
    BY <1>4, <2>1, <2>2, DeliverType, ZenonT(30) DEF SendNotification, bounds, Types, TypeOK, Watching, Step
<1>5. ASSUME NEW c \in Conns, Break(c) PROVE Types'
  <2>1. <<>> \in Seq(Statements) /\ <<>> \in Seq(Answers)
    OBVIOUS
  <2> QED
    BY <1>5, <2>1 DEF Break, Drop, Types, TypeOK, Notifying, Watching, Step
<1>6. ASSUME NEW c \in Conns, SetKeyspace(c) PROVE Types'
  <2>1. CASE current = None
    BY <1>6, <2>1, Zenon DEF SetKeyspace, bounds, Types, TypeOK, Notifying, Watching, Step
  <2>2. CASE current # None
    <3>1. current \in Keyspaces
      BY <2>2, Zenon DEF Types, TypeOK
    <3>2. Send(c, current, "startup")
      BY <1>6, <2>2, Zenon DEF SetKeyspace
    <3>3. requests' \in [Conns -> Seq(Statements)]
      BY <3>1, <3>2, SendType, Zenon DEF Types, Senders
    <3> QED
      BY <1>6, <2>2, <3>3, Zenon DEF SetKeyspace, bounds, Types, TypeOK, Notifying, Watching, Step
  <2> QED
    BY <2>1, <2>2, Zenon
<1>7. ASSUME NEW p \in Pools, Changed(p) \/ Borrow(p) \/ AllAnswered(p) PROVE Types'
  <2>1. CASE Changed(p)
    BY <2>1 DEF Changed, connVars, bounds, Types, TypeOK, Notifying, Watching, Step
  <2>2. CASE Borrow(p)
    BY <2>2, ZenonT(30) DEF Borrow, connVars, bounds, Types, TypeOK, Notifying, Watching, Step
  <2>3. CASE AllAnswered(p)
    BY <2>3, ZenonT(30) DEF AllAnswered, connVars, bounds, Types, TypeOK, Notifying, Watching, Step
  <2> QED
    BY <1>7, <2>1, <2>2, <2>3, Zenon
<1>8. ASSUME NEW p \in Pools, UseOnAll(p) PROVE Types'
  <2>1. watcher[p].keyspace \in Keyspaces
    BY <1>8, Zenon DEF UseOnAll, Types, TypeOK, Watching, Step
  <2>2. [use |-> watcher[p].keyspace, from |-> "watcher"] \in Statements
    BY <2>1, Zenon DEF Statements, Senders
  <2>3. requests' \in [Conns -> Seq(Statements)]
    BY <1>8, <2>2 DEF UseOnAll, Types, TypeOK
  <2> QED
    BY <1>8, <2>3 DEF UseOnAll, bounds, Types, TypeOK, Notifying, Watching, Step
<1>9. ASSUME NEW p \in Pools, LockPool(p) \/ UnlockPool(p) PROVE Types'
  <2>1. CASE LockPool(p)
    BY <2>1, Zenon DEF LockPool, connVars, bounds, Types, TypeOK, Notifying, Watching, Step
  <2>2. CASE UnlockPool(p)
    BY <2>2, ZenonT(30) DEF UnlockPool, connVars, bounds, Types, TypeOK, Notifying, Watching, Step
  <2> QED
    BY <1>9, <2>1, <2>2, Zenon
<1>10. CASE UNCHANGED vars
  BY <1>10, Zenon DEF vars, connVars, bounds, Types, TypeOK, Notifying, Watching, Step
<1> QED
  BY <1>1, <1>2, <1>3, <1>4, <1>5, <1>6, <1>7, <1>8, <1>9, <1>10, <1>11, <1>12, Zenon
  DEF Next, ReaderStep, WatcherStep

-----------------------------------------------------------------------------
(***************************************************************************)
(* What holds of a connection with nothing under way.                      *)
(***************************************************************************)
\* Nothing is under way on a connection that is down.
DownIsEmpty ==
    \A c \in Conns : state[c] = "down" =>
        requests[c] = <<>> /\ answers[c] = <<>> /\ keyspace[c] = None

\* The server uses the keyspace of the last answer that sets one.
SetsLast(q, i) == q[i].use # None /\ \A j \in DOMAIN q : j > i => q[j].use = None

LastAnswer ==
    \A c \in Conns : \A i \in DOMAIN answers[c] :
        SetsLast(answers[c], i) => keyspace[c] = answers[c][i].use

Announcing == \E c \in Conns : notify[c] # None
WillRepeat(p) == watcher[p].changed \/ watcher[p].pc \in {"borrow", "lock"}

\* What is under way on c will set the current keyspace, have the connection
\* given up, or have an error logged: everything but a USE of the application
\* that the server has not taken.
Deciding(c) ==
    \/ \E r \in Elements(requests[c]) : r.from # "user"
    \/ \E a \in Elements(answers[c]) : a.from # "user" \/ a.use # None

Settled ==
    \A c \in Conns : state[c] = "up" /\ c \notin logged /\ ~Deciding(c) =>
        keyspace[c] = current \/ Announcing \/ WillRepeat(c[1])

IInv == Types /\ DownIsEmpty /\ LastAnswer /\ Settled

\* An answer that is taken off leaves the last answer that sets a keyspace; if
\* nothing else decides, it was itself the last one.
LEMMA TakeAnswer ==
    ASSUME IInv, NEW c \in Conns, answers[c] # <<>>,
           answers' = [answers EXCEPT ![c] = Tail(@)], UNCHANGED <<keyspace, requests>>
    PROVE  /\ LastAnswer'
           /\ Head(answers[c]).use # None /\ ~Deciding(c)' => keyspace[c] = Head(answers[c]).use
<1>1. /\ answers[c] \in Seq(Answers) /\ answers'[c] = Tail(answers[c])
      /\ \A d \in Conns \ {c} : answers'[d] = answers[d]
  BY Zenon DEF IInv, Types, TypeOK
<1>2. LastAnswer'
  <2> SUFFICES ASSUME NEW d \in Conns, NEW i \in DOMAIN answers'[d], SetsLast(answers'[d], i)
               PROVE  keyspace'[d] = answers'[d][i].use
    BY Zenon DEF LastAnswer
  <2>1. CASE d = c
    <3>0. i \in DOMAIN Tail(answers[c])
      BY <1>1, <2>1, Zenon
    <3>1. i \in Nat /\ i + 1 \in DOMAIN answers[c] /\ Tail(answers[c])[i] = answers[c][i + 1]
      BY <1>1, <3>0, TailElement, SMT
    <3>2. ASSUME NEW j \in DOMAIN answers[c], j > i + 1 PROVE answers[c][j].use = None
      <4>0. j \in Nat
        BY <1>1
      <4>1. j # 1 /\ j - 1 > i
        BY <3>1, <3>2, <4>0
      <4>2. j - 1 \in DOMAIN answers'[c] /\ answers'[c][j - 1] = answers[c][j]
        BY <1>1, <4>1, RestElement, Zenon
      <4> QED
        BY <2>1, <4>1, <4>2, Zenon DEF SetsLast
    <3>3. SetsLast(answers[c], i + 1)
      BY <1>1, <2>1, <3>1, <3>2, Zenon DEF SetsLast
    <3> QED
      BY <1>1, <2>1, <3>1, <3>3 DEF IInv, LastAnswer
  <2>2. CASE d # c
    BY <1>1, <2>2 DEF IInv, LastAnswer
  <2> QED
    BY <2>1, <2>2, Zenon
<1>3. ASSUME Head(answers[c]).use # None, ~Deciding(c)' PROVE keyspace[c] = Head(answers[c]).use
  <2>1. 1 \in DOMAIN answers[c] /\ answers[c][1] = Head(answers[c])
    BY <1>1
  <2>2. ASSUME NEW j \in DOMAIN answers[c], j > 1 PROVE answers[c][j].use = None
    <3>1. j # 1
      BY <1>1, <2>2
    <3>2. j - 1 \in DOMAIN Tail(answers[c]) /\ Tail(answers[c])[j - 1] = answers[c][j]
      BY <1>1, <3>1, RestElement, Zenon
    <3> QED
      BY <1>1, <1>3, <3>2 DEF Deciding, Elements
  <2>3. SetsLast(answers[c], 1)
    BY <1>3, <2>1, <2>2, Zenon DEF SetsLast
  <2> QED
    BY <2>1, <2>3, Zenon DEF IInv, LastAnswer
<1> QED
  BY <1>2, <1>3, Zenon

\* Every step leaves the connections settled: an answer that changes the current
\* keyspace is announced, one that does not finds the others settled, and a
\* refusal is logged or leaves what was decided before.
LEMMA SettledStep == IInv /\ [Next]_vars => DownIsEmpty' /\ LastAnswer' /\ Settled'
<1> SUFFICES ASSUME IInv, [Next]_vars PROVE DownIsEmpty' /\ LastAnswer' /\ Settled'
  BY Zenon
<1> USE KeyspaceAssumption
<1> DEFINE Good == DownIsEmpty' /\ LastAnswer' /\ Settled'
<1>t. TypeOK /\ TypeOK'
  BY TypeStep, Zenon DEF IInv, Types
<1>q. \A d \in Conns : requests[d] \in Seq(Statements) /\ answers[d] \in Seq(Answers)
  BY <1>t, Zenon DEF TypeOK
<1>1. ASSUME NEW c \in Conns, NEW k \in Keyspaces, Use(c, k) PROVE Good
  <2> DEFINE r == [use |-> k, from |-> "user"]
  <2>1. r \in Statements /\ r.from = "user"
    BY Zenon DEF Statements, Senders
  <2>2. requests'[c] = Append(requests[c], r) /\ \A d \in Conns \ {c} : requests'[d] = requests[d]
    BY <1>1, <1>t, Zenon DEF Use, Send, TypeOK
  <2>3. /\ UNCHANGED <<answers, keyspace, state, logged, current, notify, watcher>>
        /\ state[c] = "up"
    BY <1>1, Zenon DEF Use
  <2> HIDE DEF r
  <2>4. Elements(requests'[c]) = Elements(requests[c]) \cup {r}
    BY <1>q, <2>1, <2>2, AppendElements
  <2>5. \A d \in Conns : Deciding(d) => Deciding(d)'
    BY <2>2, <2>3, <2>4, Zenon DEF Deciding
  <2> QED
    BY <2>2, <2>3, <2>5, Zenon DEF IInv, DownIsEmpty, LastAnswer, Settled, Announcing, WillRepeat
<1>2. ASSUME NEW c \in Conns, Serve(c) PROVE Good
  <2> DEFINE r == Head(requests[c])
  <2>1. r \in Answers /\ r.use # None
    <3>1. r \in Statements
      BY <1>2, <1>q DEF Serve
    <3> QED
      BY <3>1, Zenon DEF Statements, Answers
  <2>2. /\ answers'[c] = Append(answers[c], r) /\ keyspace'[c] = r.use
        /\ \A d \in Conns \ {c} : /\ answers'[d] = answers[d] /\ requests'[d] = requests[d]
                                  /\ keyspace'[d] = keyspace[d]
    BY <1>2, <1>t, Zenon DEF Serve, TypeOK
  <2>3. UNCHANGED <<state, logged, current, notify, watcher>> /\ state[c] # "down"
    BY <1>2, Zenon DEF Serve, IInv, DownIsEmpty
  <2> HIDE DEF r
  <2>4. r \in Elements(answers'[c])
    BY <1>q, <2>1, <2>2, AppendElements
  <2>5. Deciding(c)' /\ \A d \in Conns \ {c} : Deciding(d)' = Deciding(d)
    BY <2>1, <2>2, <2>4, Zenon DEF Deciding
  <2>6. LastAnswer'
    <3>0. ASSUME NEW d \in Conns \ {c}, NEW k \in DOMAIN answers'[d], SetsLast(answers'[d], k)
          PROVE  keyspace'[d] = answers'[d][k].use
      BY <2>2, <3>0 DEF IInv, LastAnswer
    <3> SUFFICES ASSUME NEW i \in DOMAIN answers'[c], SetsLast(answers'[c], i)
                 PROVE  keyspace'[c] = answers'[c][i].use
      BY <3>0, Zenon DEF LastAnswer
    <3>1. /\ Len(answers[c]) + 1 \in DOMAIN answers'[c] /\ answers'[c][Len(answers[c]) + 1] = r
          /\ Len(answers[c]) \in Nat
          /\ (i \in 1..Len(answers[c]) \/ i = Len(answers[c]) + 1)
      BY <1>q, <2>1, <2>2, AppendElement
    <3>2. Len(answers[c]) + 1 > i => answers'[c][Len(answers[c]) + 1].use = None
      BY <3>1, Zenon DEF SetsLast
    <3>3. i = Len(answers[c]) + 1
      BY <3>1, <3>2, <2>1
    <3> QED
      BY <2>2, <3>1, <3>3, Zenon
  <2> QED
    BY <2>2, <2>3, <2>5, <2>6, Zenon DEF IInv, DownIsEmpty, Settled, Announcing, WillRepeat
<1>3. ASSUME NEW c \in Conns, Refuse(c) PROVE Good
  <2> DEFINE r == Head(requests[c])
             a == [r EXCEPT !.use = None]
  <2>1. requests[c] # <<>> /\ r \in Statements
    BY <1>3, <1>q DEF Refuse
  <2>2. a \in Answers /\ a.use = None /\ a.from = r.from
    BY <2>1, Zenon DEF Statements, Answers
  <2>3. /\ answers'[c] = Append(answers[c], a) /\ requests'[c] = Tail(requests[c])
        /\ \A d \in Conns \ {c} : answers'[d] = answers[d] /\ requests'[d] = requests[d]
    BY <1>3, <1>t, Zenon DEF Refuse, TypeOK
  <2>4. UNCHANGED <<state, keyspace, logged, current, notify, watcher>> /\ state[c] # "down"
    BY <1>3, Zenon DEF Refuse, IInv, DownIsEmpty
  <2>5. Elements(requests[c]) = {r} \cup Elements(requests'[c])
    BY <1>q, <2>1, <2>3, TailElements, Zenon
  <2> HIDE DEF r, a
  <2>6. Elements(answers'[c]) = Elements(answers[c]) \cup {a}
    BY <1>q, <2>2, <2>3, AppendElements
  <2>7. \A d \in Conns : Deciding(d) => Deciding(d)'
    <3>1. Deciding(c) => Deciding(c)'
      BY <2>2, <2>5, <2>6, Zenon DEF Deciding
    <3> QED
      BY <2>3, <3>1, Zenon DEF Deciding
  <2>8. LastAnswer'
    <3> SUFFICES ASSUME NEW i \in DOMAIN answers'[c], SetsLast(answers'[c], i)
                 PROVE  keyspace[c] = answers'[c][i].use
      BY <2>3, <2>4, Zenon DEF IInv, LastAnswer
    <3>1. /\ answers'[c][Len(answers[c]) + 1] = a
          /\ i \in DOMAIN answers[c] \/ i = Len(answers[c]) + 1
          /\ \A j \in DOMAIN answers[c] : j \in DOMAIN answers'[c] /\ answers'[c][j] = answers[c][j]
      BY <1>q, <2>2, <2>3, AppendElement
    <3>2. i \in DOMAIN answers[c] /\ answers'[c][i] = answers[c][i]
      BY <2>2, <3>1, Zenon DEF SetsLast
    <3>3. SetsLast(answers[c], i)
      BY <3>1, <3>2, Zenon DEF SetsLast
    <3> QED
      BY <3>2, <3>3, Zenon DEF IInv, LastAnswer
  <2> QED
    BY <2>3, <2>4, <2>7, <2>8, Zenon DEF IInv, DownIsEmpty, Settled, Announcing, WillRepeat
<1>4. ASSUME NEW c \in Conns, ReadAnswer(c) PROVE Good
  <2> DEFINE k == Head(answers[c]).use
  <2>0. /\ answers[c] # <<>> /\ k # None /\ current' = k /\ logged' = logged \ {c}
        /\ UNCHANGED <<keyspace, requests, watcher>>
    BY <1>4, Zenon DEF ReadAnswer
  <2>1. CASE Notifies(current, k)
    <3>1. notify' = [notify EXCEPT ![c] = k] /\ UNCHANGED <<answers, state>>
      BY <1>4, <2>1, Zenon DEF ReadAnswer
    <3>2. Announcing'
      BY <1>t, <2>0, <3>1, Zenon DEF Announcing, TypeOK
    <3> QED
      BY <2>0, <3>1, <3>2, Zenon DEF IInv, DownIsEmpty, LastAnswer, Settled
  <2>2. CASE ~Notifies(current, k)
    <3>1. Deliver(c) /\ UNCHANGED notify /\ current' = current
      BY <1>4, <2>0, <2>2, Zenon DEF ReadAnswer, Notifies
    <3>2. answers' = [answers EXCEPT ![c] = Tail(@)]
      BY <3>1, Zenon DEF Deliver
    <3>3. \A d \in Conns \ {c} : answers'[d] = answers[d] /\ state'[d] = state[d]
      BY <1>t, <3>1, Zenon DEF Deliver, TypeOK
    <3>4. state'[c] # "down"
      BY <1>t, <2>0, <3>1, Zenon DEF Deliver, TypeOK, IInv, DownIsEmpty
    <3>5. LastAnswer' /\ (~Deciding(c)' => keyspace[c] = k)
      BY <2>0, <3>2, TakeAnswer, Zenon
    <3>6. \A d \in Conns \ {c} : Deciding(d)' = Deciding(d)
      BY <2>0, <3>3, Zenon DEF Deciding
    <3> QED
      BY <2>0, <3>1, <3>3, <3>4, <3>5, <3>6, Zenon DEF IInv, DownIsEmpty, Settled, Announcing, WillRepeat
  <2> QED
    BY <2>1, <2>2, Zenon
<1>5. ASSUME NEW c \in Conns, SendNotification(c) PROVE Good
  <2>1. Deliver(c) /\ UNCHANGED <<requests, keyspace>> /\ answers[c] # <<>>
    BY <1>5, Zenon DEF SendNotification, IInv, Types, Notifying
  <2>2. \A d \in Conns : WillRepeat(d[1])'
    BY <1>5, <1>t DEF SendNotification, WillRepeat, Conns, TypeOK
  <2>3. \A d \in Conns \ {c} : answers'[d] = answers[d] /\ state'[d] = state[d]
    BY <1>t, <2>1, Zenon DEF Deliver, TypeOK
  <2>4. state'[c] # "down"
    BY <1>t, <2>1, Zenon DEF Deliver, TypeOK, IInv, DownIsEmpty
  <2>5. LastAnswer'
    BY <2>1, TakeAnswer, Zenon DEF Deliver
  <2> QED
    BY <2>1, <2>2, <2>3, <2>4, <2>5, Zenon DEF IInv, DownIsEmpty, Settled
<1>6. ASSUME NEW c \in Conns, Drop(c), UNCHANGED <<current, notify, watcher>> PROVE Good
  <2>1. /\ state'[c] = "down" /\ requests'[c] = <<>> /\ answers'[c] = <<>> /\ keyspace'[c] = None
        /\ \A d \in Conns \ {c} : /\ state'[d] = state[d] /\ keyspace'[d] = keyspace[d]
                                  /\ requests'[d] = requests[d] /\ answers'[d] = answers[d]
                                  /\ d \in logged' <=> d \in logged
    BY <1>6, <1>t, Zenon DEF Drop, TypeOK
  <2>2. DOMAIN answers'[c] = {}
    BY <2>1
  <2>3. \A d \in Conns \ {c} : Deciding(d)' = Deciding(d)
    BY <2>1, Zenon DEF Deciding
  <2> QED
    BY <1>6, <2>1, <2>2, <2>3 DEF IInv, DownIsEmpty, LastAnswer, Settled, Announcing, WillRepeat
<1>7. ASSUME NEW c \in Conns, ReadRefusal(c), Head(answers[c]).from # "startup" PROVE Good
  <2> DEFINE a == Head(answers[c])
  <2>1. /\ answers[c] # <<>> /\ a.use = None /\ a.from # "startup"
        /\ answers' = [answers EXCEPT ![c] = Tail(@)]
        /\ logged' = IF a.from = "watcher" THEN logged \cup {c} ELSE logged
        /\ UNCHANGED <<state, keyspace, requests, current, notify, watcher>>
    BY <1>7, Zenon DEF ReadRefusal
  <2>2. a.from \in Senders
    <3>1. a \in Answers
      BY <1>q, <2>1
    <3> QED
      BY <3>1, Zenon DEF Answers
  <2>3. LastAnswer'
    BY <2>1, TakeAnswer, Zenon
  <2>4. /\ Elements(answers[c]) = {a} \cup Elements(answers'[c])
        /\ \A d \in Conns \ {c} : answers'[d] = answers[d]
    <3>1. Elements(answers[c]) = {a} \cup Elements(Tail(answers[c]))
      BY <1>q, <2>1, TailElements, Zenon
    <3> QED
      BY <1>t, <2>1, <3>1, Zenon DEF TypeOK
  <2> HIDE DEF a
  <2>5. \A d \in Conns : (d = c => a.from = "user") => (Deciding(d) => Deciding(d)')
    BY <2>1, <2>4, Zenon DEF Deciding
  <2>6. c \notin logged' => a.from = "user"
    BY <2>1, <2>2, Zenon DEF Senders
  <2>7. state[c] # "down"
    BY <2>1, Zenon DEF IInv, DownIsEmpty
  <2>8. \A d \in Conns : d \notin logged' => d \notin logged
    BY <2>1, Zenon
  <2> QED
    BY <2>1, <2>3, <2>4, <2>5, <2>6, <2>7, <2>8, Zenon
    DEF IInv, DownIsEmpty, Settled, Announcing, WillRepeat
<1>8. ASSUME NEW c \in Conns, SetKeyspace(c) PROVE Good
  <2>0. /\ requests[c] = <<>> /\ answers[c] = <<>> /\ keyspace[c] = None
        /\ UNCHANGED <<answers, keyspace, logged, current, notify, watcher>>
    BY <1>8, Zenon DEF SetKeyspace, IInv, DownIsEmpty
  <2>1. CASE current = None
    <3>1. /\ UNCHANGED requests /\ state'[c] = "up"
          /\ \A d \in Conns \ {c} : state'[d] = state[d]
      BY <1>8, <1>t, <2>1, Zenon DEF SetKeyspace, TypeOK
    <3> QED
      BY <2>0, <2>1, <3>1, Zenon
      DEF IInv, DownIsEmpty, LastAnswer, Settled, Announcing, WillRepeat, Deciding
  <2>2. CASE current # None
    <3>1. /\ \A d \in Conns \ {c} : requests'[d] = requests[d]
          /\ state'[c] = "starting" /\ \A d \in Conns \ {c} : state'[d] = state[d]
      BY <1>8, <1>t, <2>2, Zenon DEF SetKeyspace, Send, TypeOK
    <3> QED
      BY <2>0, <3>1, Zenon
      DEF IInv, DownIsEmpty, LastAnswer, Settled, Announcing, WillRepeat, Deciding
  <2> QED
    BY <2>1, <2>2, Zenon
<1>9. ASSUME NEW p \in Pools, Changed(p) \/ Borrow(p) \/ AllAnswered(p) \/ UnlockPool(p) PROVE Good
  <2>1. UNCHANGED <<current, notify, connVars, logged>>
    BY <1>9, Zenon DEF Changed, Borrow, AllAnswered, UnlockPool
  <2>2. \A q \in Pools : WillRepeat(q) => WillRepeat(q)'
    <3>1. CASE Changed(p)
      BY <1>t, <3>1 DEF Changed, Step, WillRepeat, TypeOK
    <3>2. CASE Borrow(p)
      BY <1>t, <3>2, Zenon DEF Borrow, Step, WillRepeat, TypeOK
    <3>3. CASE AllAnswered(p)
      BY <1>t, <3>3 DEF AllAnswered, Step, WillRepeat, TypeOK
    <3>4. CASE UnlockPool(p)
      BY <1>t, <3>4 DEF UnlockPool, Step, WillRepeat, TypeOK
    <3> QED
      BY <1>9, <3>1, <3>2, <3>3, <3>4, Zenon
  <2>3. \A c \in Conns : c[1] \in Pools
    BY Zenon DEF Conns
  <2> QED
    BY <2>1, <2>2, <2>3, Zenon DEF IInv, connVars, DownIsEmpty, LastAnswer, Settled, Announcing, Deciding
<1>10. ASSUME NEW p \in Pools, UseOnAll(p) PROVE Good
  <2> DEFINE r == [use |-> watcher[p].keyspace, from |-> "watcher"]
  <2>0. UNCHANGED <<state, keyspace, answers, logged, current, notify>>
    BY <1>10, Zenon DEF UseOnAll
  <2>1. r \in Statements /\ r.from = "watcher"
    <3>1. watcher[p].keyspace \in Keyspaces
      BY <1>10, Zenon DEF UseOnAll, IInv, Types, TypeOK, Watching, Step
    <3> QED
      BY <3>1, Zenon DEF Statements, Senders
  <2>2. \A c \in Conns : requests'[c] = IF c[1] = p /\ state[c] = "up" THEN Append(requests[c], r)
                                                                      ELSE requests[c]
    BY <1>10, Zenon DEF UseOnAll
  <2> HIDE DEF r
  <2>3. \A c \in Conns : c[1] = p /\ state[c] = "up" => Deciding(c)'
    <3> SUFFICES ASSUME NEW c \in Conns, c[1] = p, state[c] = "up" PROVE Deciding(c)'
      BY Zenon
    <3>1. r \in Elements(requests'[c])
      BY <1>q, <2>1, <2>2, AppendElements
    <3> QED
      BY <2>1, <3>1, Zenon DEF Deciding
  <2>4. \A c \in Conns : ~(c[1] = p /\ state[c] = "up") => Deciding(c)' = Deciding(c)
    BY <2>0, <2>2, Zenon DEF Deciding
  <2>5. \A q \in Pools \ {p} : WillRepeat(q)' = WillRepeat(q)
    BY <1>10, <1>t, Zenon DEF UseOnAll, WillRepeat, TypeOK
  <2>6. \A c \in Conns : c[1] \in Pools
    BY Zenon DEF Conns
  <2>7. DownIsEmpty' /\ LastAnswer'
    BY <2>0, <2>2, Zenon DEF IInv, DownIsEmpty, LastAnswer
  <2> QED
    BY <2>0, <2>3, <2>4, <2>5, <2>6, <2>7, Zenon DEF IInv, Settled, Announcing
<1>11. ASSUME NEW p \in Pools, LockPool(p) PROVE Good
  BY <1>11, Zenon DEF LockPool, connVars, IInv, DownIsEmpty, LastAnswer, Settled, Announcing, WillRepeat, Deciding
<1>12. CASE UNCHANGED vars
  BY <1>12, Zenon DEF vars, connVars, IInv, DownIsEmpty, LastAnswer, Settled, Announcing, WillRepeat, Deciding
<1>13. ASSUME NEW c \in Conns, Break(c) PROVE Good
  BY <1>6, <1>13, Zenon DEF Break
<1>14. ASSUME NEW c \in Conns, ReadRefusal(c) PROVE Good
  BY <1>6, <1>7, <1>14, Zenon DEF ReadRefusal
<1> QED
  BY <1>1, <1>2, <1>3, <1>4, <1>5, <1>8, <1>9, <1>10, <1>11, <1>12, <1>13, <1>14, Zenon
  DEF Next, ReaderStep, WatcherStep

\* The invariant holds at first.
LEMMA InitIInv == Init => IInv
<1> SUFFICES ASSUME Init PROVE IInv
  BY Zenon
<1>1. TypeOK
  BY KeyspaceAssumption DEF Init, TypeOK
<1> QED
  BY <1>1 DEF Init, IInv, Types, Notifying, Watching, Step, DownIsEmpty, LastAnswer, Settled

\* The invariant is inductive.
LEMMA Invariance == Spec => []IInv
<1>1. IInv /\ [Next]_vars => IInv'
  BY TypeStep, SettledStep, Zenon DEF IInv
<1> QED
  BY <1>1, InitIInv, PTL DEF Spec

-----------------------------------------------------------------------------
(***************************************************************************)
(* Theorems.                                                               *)
(***************************************************************************)
\* The variables of keyspace_holder.rs and of the pools keep their types: no
\* USE statement without a keyspace is ever sent (set_keyspace and the watchers
\* of connection_pool.rs).
THEOREM KeyspaceTypeCorrect == Spec => []TypeOK
BY Invariance, PTL DEF IInv, Types

\* Once every answer is in and every watcher has seen the last change, all
\* connections use the keyspace of the KeyspaceHolder, except those that refused
\* it when the watcher of connection_pool.rs repeated it.
THEOREM QuietSessionsAgree == Spec => []QuietMeansAgreed
<1>1. IInv => QuietMeansAgreed
  <2> SUFFICES ASSUME IInv, Quiet, NEW c \in Conns, state[c] = "up", c \notin logged
               PROVE  keyspace[c] = current
    BY Zenon DEF QuietMeansAgreed, Agreed
  <2>1. ~Deciding(c)
    <3>1. Outstanding(c) = {}
      BY Zenon DEF Quiet
    <3>2. \A r \in Elements(requests[c]) : r.from \in Outstanding(c)
      BY Zenon DEF Outstanding, Elements
    <3>3. \A a \in Elements(answers[c]) : a.from \in Outstanding(c)
      BY Zenon DEF Outstanding, Elements
    <3> QED
      BY <3>1, <3>2, <3>3, Zenon DEF Deciding
  <2>2. ~Announcing
    BY Zenon DEF Quiet, Announcing
  <2>3. ~WillRepeat(c[1])
    BY Zenon DEF Quiet, Step, WillRepeat, Conns
  <2> QED
    BY <2>1, <2>2, <2>3, Zenon DEF IInv, Settled
<1> QED
  BY <1>1, Invariance, PTL

-----------------------------------------------------------------------------
(***************************************************************************)
(* Pager: the rows a user was given.                                       *)
(***************************************************************************)
\* The first n rows.
Rows(n) == [i \in 1..n |-> i]

\* The state of a pager whose user was given n rows.
StateAt(s, n) ==
    /\ n \in 0..RowCount
    /\ s.has_more_pages \in BOOLEAN \/ s.has_more_pages = NoValue
    /\ s.has_more_pages = NoValue => s.cursor = NoValue /\ n = 0
    /\ HasMore(s) => s.cursor = n
    /\ s.has_more_pages = FALSE => n = RowCount

Consistent(s, r) == \E n \in 0..RowCount : r = Rows(n) /\ StateAt(s, n)

\* A call goes on from the rows its user has, and its page follows them.
CallOK(u) ==
    /\ call[u] = [pc |-> call[u].pc, cursor |-> call[u].cursor, id |-> call[u].id]
    /\ call[u].pc # "idle" => call[u].cursor = pager_state[u].cursor
                              /\ (Started(u) => HasMore(pager_state[u]))
    /\ answer[u] # NoValue =>
           /\ call[u].pc # "idle"
           /\ answer[u].kind = "rows" => \E id : answer[u] = Page(call[u].cursor, id)

PagerInv ==
    /\ DOMAIN pager_state = Users /\ DOMAIN rows = Users /\ DOMAIN saved = Users
    /\ DOMAIN call = Users /\ DOMAIN answer = Users
    /\ \A u \in Users :
         /\ Consistent(pager_state[u], rows[u])
         /\ saved[u] # NoValue => Consistent(saved[u].state, saved[u].rows)
         /\ CallOK(u)

\* The next page continues the first n rows.
LEMMA PageFollows ==
    ASSUME NEW n \in 0..RowCount, NEW id, NEW cursor, Offset(cursor) = n
    PROVE  \E m \in n..RowCount :
              /\ Rows(n) \o Page(cursor, id).rows = Rows(m)
              /\ Page(cursor, id).has_more_pages = IF m < RowCount THEN TRUE ELSE FALSE
              /\ Page(cursor, id).paging_state = IF m < RowCount THEN m ELSE NoValue
<1> DEFINE m == IF n + PageSize < RowCount THEN n + PageSize ELSE RowCount
<1>0. RowCount \in Nat /\ PageSize \in Nat
  BY PagingAssumption, Zenon
<1>1. m \in n..RowCount
  BY <1>0
<1>2. Page(cursor, id).rows = [i \in 1..(m - n) |-> n + i]
  BY Zenon DEF Page
<1>3. Page(cursor, id).has_more_pages = IF m < RowCount THEN TRUE ELSE FALSE
  <2>1. Page(cursor, id).has_more_pages = (m < RowCount)
    BY Zenon DEF Page
  <2> HIDE DEF m
  <2> DEFINE more == Page(cursor, id).has_more_pages
  <2>2. more = (m < RowCount)
    BY <2>1, Zenon
  <2> HIDE DEF more
  <2>3. more \in BOOLEAN
    BY <2>2, SMT
  <2>4. CASE m < RowCount
    <3>1. more
      BY <2>2, <2>4, Zenon
    <3> QED
      BY <2>3, <2>4, <3>1, Zenon DEF more
  <2>5. CASE ~(m < RowCount)
    <3>1. ~more
      BY <2>2, <2>5, Zenon
    <3> QED
      BY <2>3, <2>5, <3>1, Zenon DEF more
  <2> QED
    BY <2>4, <2>5, Zenon
<1>4. Page(cursor, id).paging_state = IF m < RowCount THEN m ELSE NoValue
  BY Zenon DEF Page
<1> HIDE DEF m
<1>5. Rows(n) \in Seq(Nat) /\ Len(Rows(n)) = n
  BY <1>0 DEF Rows
<1>6. [i \in 1..(m - n) |-> n + i] \in Seq(Nat) /\ Len([i \in 1..(m - n) |-> n + i]) = m - n
  BY <1>0, <1>1
<1>7. Rows(m) \in Seq(Nat) /\ Len(Rows(m)) = m
  BY <1>0, <1>1 DEF Rows
<1>8. Rows(n) \o [i \in 1..(m - n) |-> n + i] = Rows(m)
  BY <1>0, <1>1, <1>5, <1>6, <1>7 DEF Rows
<1> QED
  BY <1>1, <1>2, <1>3, <1>4, <1>8, Zenon

\* A call in progress goes on from the rows its user has.
LEMMA CallOffset ==
    ASSUME PagerInv, NEW u \in Users, call[u].pc # "idle", NEW n \in 0..RowCount, StateAt(pager_state[u], n)
    PROVE  Offset(call[u].cursor) = n
<1>1. call[u].cursor = pager_state[u].cursor /\ (Started(u) => HasMore(pager_state[u]))
  BY Zenon DEF PagerInv, CallOK
<1>2. CASE pager_state[u].has_more_pages = NoValue
  BY <1>1, <1>2, Zenon DEF StateAt, Offset
<1>3. CASE pager_state[u].has_more_pages # NoValue
  <2>1. pager_state[u].cursor = n
    BY <1>1, <1>3, Zenon DEF Started, StateAt
  <2>2. n # NoValue
    BY PagingAssumption
  <2> QED
    BY <1>1, <2>1, <2>2, Zenon DEF Offset
<1> QED
  BY <1>2, <1>3, Zenon

\* A page that is applied leaves the pager at the rows the user then has.
LEMMA RowsReceivedOK ==
    ASSUME PagerInv, NEW u \in Users, RowsReceived(u)
    PROVE  Consistent(pager_state'[u], rows'[u])
<1>1. PICK n \in 0..RowCount : rows[u] = Rows(n) /\ StateAt(pager_state[u], n)
  BY Zenon DEF PagerInv, Consistent
<1>2. call[u].pc # "idle" /\ \E id : answer[u] = Page(call[u].cursor, id)
  BY Zenon DEF RowsReceived, PagerInv, CallOK
<1>3. PICK id : answer[u] = Page(call[u].cursor, id)
  BY <1>2, Zenon
<1>4. Offset(call[u].cursor) = n
  BY <1>1, <1>2, CallOffset, Zenon
<1>5. PICK m \in n..RowCount :
         /\ Rows(n) \o answer[u].rows = Rows(m)
         /\ answer[u].has_more_pages = IF m < RowCount THEN TRUE ELSE FALSE
         /\ answer[u].paging_state = IF m < RowCount THEN m ELSE NoValue
  <2> DEFINE page == Page(call[u].cursor, id)
  <2>1. \E m \in n..RowCount :
           /\ Rows(n) \o page.rows = Rows(m)
           /\ page.has_more_pages = IF m < RowCount THEN TRUE ELSE FALSE
           /\ page.paging_state = IF m < RowCount THEN m ELSE NoValue
    BY <1>4, PageFollows, Zenon
  <2> QED
    BY <1>3, <2>1, Zenon
<1>6. rows'[u] = Rows(m)
  BY <1>1, <1>5, Zenon DEF RowsReceived, PagerInv
<1>7. /\ pager_state'[u].cursor = answer[u].paging_state
      /\ pager_state'[u].has_more_pages = answer[u].has_more_pages
  BY Zenon DEF RowsReceived, UpdateState, PagerInv
<1>8. m \in 0..RowCount /\ n \in Nat /\ RowCount \in Nat
  BY PagingAssumption
<1>9. StateAt(pager_state'[u], m)
  <2>1. CASE m < RowCount
    <3>1. pager_state'[u].has_more_pages = TRUE /\ pager_state'[u].cursor = m
      BY <1>5, <1>7, <2>1, Zenon
    <3>2. TRUE # NoValue
      BY PagingAssumption, Zenon
    <3> QED
      BY <1>8, <3>1, <3>2, Zenon DEF StateAt, HasMore
  <2>2. CASE ~(m < RowCount)
    <3>0. m = RowCount
      BY <1>8, <2>2
    <3>1. pager_state'[u].has_more_pages = FALSE
      BY <1>5, <1>7, <2>2, Zenon
    <3>2. FALSE # NoValue
      BY PagingAssumption, Zenon
    <3> QED
      BY <1>8, <3>0, <3>1, <3>2, Zenon DEF StateAt, HasMore
  <2> QED
    BY <2>1, <2>2, Zenon
<1> QED
  BY <1>6, <1>8, <1>9, Zenon DEF Consistent

\* A new pager has given no rows.
LEMMA NewIsConsistent == Consistent(NewState, <<>>)
<1>1. Rows(0) = <<>>
  BY DEF Rows
<1>2. 0 \in 0..RowCount
  BY PagingAssumption
<1>3. NoValue # TRUE /\ NoValue # FALSE
  BY PagingAssumption, Zenon
<1> QED
  BY <1>1, <1>2, <1>3, Zenon DEF Consistent, StateAt, NewState, HasMore

\* The invariant is inductive: one step for every action.
LEMMA PagerInvariance == PagerSpec => []PagerInv
<1>1. PagerInit => PagerInv
  BY NewIsConsistent DEF PagerInit, PagerInv, CallOK, Idle
<1>2. PagerInv /\ [PagerNext]_pagingVars => PagerInv'
  <2> SUFFICES ASSUME PagerInv, [PagerNext]_pagingVars PROVE PagerInv'
    BY Zenon
  <2> USE DEF pagerVars, serverVars, counters
  <2>1. ASSUME NEW u \in Users, CallNext(u) PROVE PagerInv'
    BY <2>1 DEF CallNext, PagerInv, CallOK, Idle, Started
  <2>2. ASSUME NEW u \in Users, SaveState(u) PROVE PagerInv'
    BY <2>2, Zenon DEF SaveState, PagerInv, CallOK, Started
  <2>3. ASSUME NEW u \in Users, WithPagerState(u) PROVE PagerInv'
    BY <2>3 DEF WithPagerState, PagerInv, CallOK, Idle, Started
  <2>4. ASSUME NEW u \in Users, NewPager(u) PROVE PagerInv'
    BY <2>4, NewIsConsistent, Zenon DEF NewPager, PagerInv, CallOK, Idle, Started
  <2>5. ASSUME NEW u \in Users, RowsReceived(u) PROVE PagerInv'
    <3>1. Consistent(pager_state'[u], rows'[u])
      BY <2>5, RowsReceivedOK, Zenon
    <3>2. /\ call' = [call EXCEPT ![u] = Idle] /\ answer' = [answer EXCEPT ![u] = NoValue]
          /\ \A v \in Users \ {u} : pager_state'[v] = pager_state[v] /\ rows'[v] = rows[v]
          /\ UNCHANGED saved /\ DOMAIN pager_state' = Users /\ DOMAIN rows' = Users
      BY <2>5, Zenon DEF RowsReceived, UpdateState, PagerInv
    <3> QED
      BY <3>1, <3>2 DEF PagerInv, CallOK, Idle, Started
  <2>6. ASSUME NEW u \in Users, Unprepared(u) PROVE PagerInv'
    BY <2>6 DEF Unprepared, PagerInv, CallOK, Started
  <2>7. ASSUME NEW u \in Users, PreparedAgain(u) PROVE PagerInv'
    <3>1. /\ call'[u] = [pc |-> "sent", cursor |-> call[u].cursor, id |-> answer[u].new_id]
          /\ call[u].pc # "idle" /\ answer'[u] = NoValue
      <4>1. call'[u] = [call[u] EXCEPT !.pc = "sent", !.id = answer[u].new_id]
        BY <2>7, Zenon DEF PreparedAgain, PagerInv
      <4>2. call[u] = [pc |-> call[u].pc, cursor |-> call[u].cursor, id |-> call[u].id]
        BY Zenon DEF PagerInv, CallOK
      <4>3. call[u].pc # "idle" /\ answer'[u] = NoValue
        BY <2>7, Zenon DEF PreparedAgain, PagerInv, CallOK
      <4> QED
        BY <4>1, <4>2, <4>3, Zenon
    <3>2. \A v \in Users \ {u} : call'[v] = call[v] /\ answer'[v] = answer[v]
      BY <2>7, Zenon DEF PreparedAgain, PagerInv
    <3>3. UNCHANGED pagerVars /\ DOMAIN call' = Users /\ DOMAIN answer' = Users
      BY <2>7, Zenon DEF PreparedAgain, PagerInv
    <3> QED
      BY <3>1, <3>2, <3>3 DEF PagerInv, CallOK, Started
  <2>8. ASSUME NEW u \in Users, CallFails(u) PROVE PagerInv'
    BY <2>8, Zenon DEF CallFails, PagerInv, CallOK, Idle, Started
  <2>9. ASSUME NEW u \in Users, ServePage(u) PROVE PagerInv'
    BY <2>9, Zenon DEF ServePage, PagerInv, CallOK, Started
  <2>10. ASSUME NEW u \in Users, ServePrepare(u) PROVE PagerInv'
    BY <2>10, Zenon DEF ServePrepare, PagerInv, CallOK, Started
  <2>11. CASE Alter \/ Evict \/ UNCHANGED pagingVars
    BY <2>11 DEF Alter, Evict, pagingVars, PagerInv, CallOK, Started
  <2> QED
    BY <2>1, <2>2, <2>3, <2>4, <2>5, <2>6, <2>7, <2>8, <2>9, <2>10, <2>11, Zenon DEF PagerNext, PagerStep
<1> QED
  BY <1>1, <1>2, PTL DEF PagerSpec

-----------------------------------------------------------------------------
(***************************************************************************)
(* Theorems.                                                               *)
(***************************************************************************)
\* QueryPager::next and ExecPager::next give every row once and in order.
THEOREM RowsComeInOrder == PagerSpec => []PagesInOrder
<1>1. PagerInv => PagesInOrder
  <2> SUFFICES ASSUME PagerInv, NEW u \in Users
               PROVE  Len(rows[u]) <= RowCount /\ rows[u] = SubSeq(AllRows, 1, Len(rows[u]))
    BY Zenon DEF PagesInOrder
  <2>1. PICK n \in 0..RowCount : rows[u] = Rows(n)
    BY Zenon DEF PagerInv, Consistent
  <2>2. n \in Nat /\ RowCount \in Nat /\ n <= RowCount
    BY PagingAssumption
  <2>3. Len(Rows(n)) = n
    BY <2>2 DEF Rows
  <2>4. AllRows \in Seq(Nat) /\ Len(AllRows) = RowCount
    BY <2>2 DEF AllRows
  <2>5. SubSeq(AllRows, 1, n) = Rows(n)
    BY <2>2, <2>4 DEF Rows, AllRows
  <2> QED
    BY <2>1, <2>2, <2>3, <2>5, Zenon
<1> QED
  BY <1>1, PagerInvariance, PTL

\* has_more_pages() is false only when the user has all rows.
THEOREM LastPageEndsRows == PagerSpec => []EndMeansAll
<1>1. PagerInv => EndMeansAll
  <2> SUFFICES ASSUME PagerInv, NEW u \in Users, Started(u), ~HasMore(pager_state[u])
               PROVE  rows[u] = AllRows
    BY Zenon DEF EndMeansAll
  <2>1. PICK n \in 0..RowCount : rows[u] = Rows(n) /\ StateAt(pager_state[u], n)
    BY Zenon DEF PagerInv, Consistent
  <2>2. pager_state[u].has_more_pages = FALSE
    BY <2>1, Zenon DEF StateAt, Started, HasMore
  <2>3. n = RowCount
    BY <2>1, <2>2, Zenon DEF StateAt
  <2> QED
    BY <2>1, <2>3, Zenon DEF Rows, AllRows
<1> QED
  BY <1>1, PagerInvariance, PTL
=============================================================================
