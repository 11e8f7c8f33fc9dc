----------------------------- MODULE StartupProofs -----------------------------
(***************************************************************************)
(* Proofs about Startup: for any server, configuration and number of       *)
(* failures, no message of a handshake is misread, and credentials go only *)
(* to a server that asked for them.                                        *)
(*                                                                         *)
(* Both ends change their format at different moments, while a message is  *)
(* under way.  The invariant says for every stage of establishing what the *)
(* message under way is and what the server has agreed to.                 *)
(***************************************************************************)
EXTENDS Startup, WellFoundedInduction, TLAPS

IsConn ==
    conn = [state |-> conn.state, version |-> conn.version, compression |-> conn.compression,
            keyspace |-> conn.keyspace, rounds |-> conn.rounds]

\* The server has agreed to the version and compression it was asked for.
AgreedTo == conn.version = config.version /\ conn.compression = config.compression

Normal == EncoderFor(config.version, config.compression)

\* STARTUP has been sent, or answered, as a bare envelope.
InStartup ==
    /\ reader = "handshake"
    /\ request # None =>
          /\ conn.state = "startup" /\ conn.compression = "none" /\ response = None
          /\ request.op = "STARTUP" /\ request.format = "envelopes" /\ ~request.compressed
          /\ request.data = [version |-> config.version, compression |-> config.compression]
    /\ response # None =>
          /\ response.format = "envelopes" /\ ~response.compressed
          /\ response.op = "READY" => conn.state = "ready" /\ AgreedTo
          /\ response.op = "AUTHENTICATE" =>
                conn.state = "auth" /\ AgreedTo /\ response.data = server.authenticator

\* Later messages are in the format both have agreed to.
InNormal ==
    /\ reader = "normal" /\ conn.state \in {"auth", "ready"} /\ AgreedTo
    /\ request # None =>
          /\ request.format = Normal /\ (request.compressed => config.compression # "none")
          /\ response = None
    /\ response # None =>
          response.format = Normal /\ (response.compressed => config.compression # "none")

\* The server asked for the scheme of the credentials, and still waits for them
\* as long as it has not accepted them.
InAuth ==
    /\ server.authenticator = Provider.name
    /\ request # None => request.op = "AUTH_RESPONSE" /\ conn.state = "auth"
    /\ response # None /\ response.op = "AUTH_CHALLENGE" => conn.state = "auth"
    /\ response # None /\ response.op = "AUTH_SUCCESS" => conn.state = "ready"

InUse == conn.state = "ready" /\ (request # None => request.op = "USE")

IInv ==
    /\ IsConn
    /\ request # None \/ response # None => pc \in {"startup", "auth", "use"}
    /\ pc = "startup" => InStartup
    /\ pc \in {"auth", "use"} => InNormal
    /\ pc = "auth" => InAuth
    /\ pc = "use" => InUse

\* The formats agree in every stage.
LEMMA Formats == IInv => FormatsAgree
<1> SUFFICES ASSUME IInv PROVE FormatsAgree
  BY Zenon
<1>1. ASSUME request # None PROVE Understood
  BY <1>1, Zenon DEF IInv, InStartup, InNormal, AgreedTo, Normal, Understood, ServerFormat
<1>2. ASSUME response # None PROVE Readable(response)
  BY <1>2, Zenon DEF IInv, InStartup, InNormal, Normal, Readable, DecoderFormat
<1> QED
  BY <1>1, <1>2, Zenon DEF FormatsAgree

\* A stage that failed, or that has not begun, has no message under way.
LEMMA NothingUnderWay ==
    ASSUME IInv, pc' \notin {"startup", "auth", "use"}, request' = None, response' = None, IsConn'
    PROVE  IInv'
BY Zenon DEF IInv

\* Giving up an attempt closes the connection.
LEMMA FailedOK == ASSUME IInv, NEW e, Failed(e) PROVE IInv'
BY NothingUnderWay, Zenon DEF Failed, IsConn, Closed

\* STARTUP is sent on a new connection.
LEMMA StartOK == ASSUME IInv, Start, UNCHANGED config, pc \notin {"startup", "auth", "use"} PROVE IInv'
<1>1. /\ pc' = "startup" /\ reader' = "handshake" /\ response' = None
      /\ conn' = [state |-> "startup", version |-> None, compression |-> "none", keyspace |-> None,
                  rounds |-> 0]
  BY Zenon DEF IInv, Start, Closed
<1>2. /\ request'.op = "STARTUP" /\ request'.format = "envelopes" /\ ~request'.compressed
      /\ request'.data = [version |-> config.version, compression |-> config.compression]
  BY Zenon DEF Start, WriteEnvelope
<1>3. InStartup'
  BY <1>1, <1>2, Zenon DEF InStartup
<1> QED
  BY <1>1, <1>3, Zenon DEF IInv, IsConn

\* Messages after the handshake are written in the format of the configuration.
LEMMA WriteNormal ==
    ASSUME NEW op, NEW data, WriteEnvelope(op, data, FALSE)
    PROVE  /\ request'.op = op /\ request'.format = Normal
           /\ request'.compressed => config.compression # "none"
BY Zenon DEF WriteEnvelope, Normal

\* After READY or AUTH_SUCCESS the keyspace is chosen.
LEMMA SetKeyspaceOK ==
    ASSUME IInv, SetKeyspace, UNCHANGED <<config, server>>, reader' = "normal", conn.state = "ready",
           AgreedTo
    PROVE  IInv'
<1>0. conn' = conn /\ response' = None
  BY Zenon DEF SetKeyspace
<1>1. CASE current_keyspace = None
  <2>1. pc' = "ready" /\ request' = None
    BY <1>1, Zenon DEF SetKeyspace
  <2> QED
    BY <1>0, <2>1, Zenon DEF IInv, IsConn
<1>2. CASE current_keyspace # None
  <2>1. pc' = "use" /\ WriteEnvelope("USE", current_keyspace, FALSE)
    BY <1>2, Zenon DEF SetKeyspace
  <2>2. /\ request'.op = "USE" /\ request'.format = Normal
        /\ request'.compressed => config.compression # "none"
    BY <2>1, WriteNormal, Zenon
  <2>3. InNormal' /\ InUse'
    BY <1>0, <2>2, Zenon DEF InNormal, InUse, AgreedTo, Normal, EncoderFor
  <2> QED
    BY <1>0, <2>1, <2>3, Zenon DEF IInv, IsConn
<1> QED
  BY <1>1, <1>2, Zenon

\* An AUTH_RESPONSE goes to a server that waits for it.
LEMMA RespondOK ==
    ASSUME IInv, NEW data, Respond(data), UNCHANGED <<config, server>>, reader' = "normal",
           conn.state = "auth", AgreedTo, server.authenticator = Provider.name
    PROVE  IInv'
<1>0. conn' = conn /\ response' = None /\ pc' = "auth" /\ WriteEnvelope("AUTH_RESPONSE", data, FALSE)
  BY Zenon DEF Respond
<1>1. /\ request'.op = "AUTH_RESPONSE" /\ request'.format = Normal
      /\ request'.compressed => config.compression # "none"
  BY <1>0, WriteNormal, Zenon
<1>2. InNormal' /\ InAuth'
  BY <1>0, <1>1, Zenon DEF InNormal, InAuth, AgreedTo, Normal, EncoderFor, Provider
<1> QED
  BY <1>0, <1>2, Zenon DEF IInv, IsConn

\* Every answer to STARTUP, to AUTH_RESPONSE and to USE.
LEMMA ResponseOK == IInv /\ (StartupResponse \/ AuthResponse \/ UseResponse) => IInv'
<1> SUFFICES ASSUME IInv, StartupResponse \/ AuthResponse \/ UseResponse PROVE IInv'
  BY Zenon
<1>1. CASE StartupResponse
  <2>1. InStartup /\ response # None /\ UNCHANGED <<config, server>>
    BY <1>1, Zenon DEF StartupResponse, IInv, settings
  <2>2. ASSUME NEW e, FailStartup(e) PROVE IInv'
    BY <2>2, FailedOK, Zenon DEF FailStartup
  <2>3. CASE response.op = "READY" /\ SetKeyspace /\ SwitchReader
    BY <2>1, <2>3, SetKeyspaceOK, Zenon DEF InStartup, SwitchReader
  <2>4. CASE response.op = "AUTHENTICATE" /\ Authenticate
    <3>1. CASE response.data = Provider.name /\ Respond(InitialResponse) /\ SwitchReader
      <4>1. reader' = "normal" /\ conn.state = "auth" /\ AgreedTo /\ server.authenticator = Provider.name
        BY <2>1, <2>4, <3>1, Zenon DEF InStartup, SwitchReader
      <4> QED
        BY <2>1, <3>1, <4>1, RespondOK, Zenon
    <3> QED
      BY <2>2, <2>4, <3>1, Zenon DEF Authenticate
  <2> QED
    BY <1>1, <2>2, <2>3, <2>4, Zenon DEF StartupResponse
<1>2. CASE AuthResponse
  <2>1. InNormal /\ InAuth /\ response # None /\ UNCHANGED <<config, server>>
    BY <1>2, Zenon DEF AuthResponse, IInv, settings
  <2>2. ASSUME NEW e, FailStartup(e) PROVE IInv'
    BY <2>2, FailedOK, Zenon DEF FailStartup
  <2>3. ASSUME NEW data, response.op = "AUTH_CHALLENGE", Respond(data), UNCHANGED reader PROVE IInv'
    BY <2>1, <2>3, RespondOK, Zenon DEF InNormal, InAuth
  <2>4. CASE response.op = "AUTH_SUCCESS" /\ SetKeyspace /\ UNCHANGED reader
    BY <2>1, <2>4, SetKeyspaceOK, Zenon DEF InNormal, InAuth
  <2> QED
    BY <1>2, <2>2, <2>3, <2>4, Zenon DEF AuthResponse
<1>3. CASE UseResponse
  <2>1. ASSUME NEW e, FailStartup(e) PROVE IInv'
    BY <2>1, FailedOK, Zenon DEF FailStartup
  <2>2. CASE pc' = "ready" /\ response' = None /\ UNCHANGED <<request, conn>>
    <3>1. request = None
      BY <1>3, Zenon DEF UseResponse, IInv, InNormal
    <3> QED
      BY <2>2, <3>1, NothingUnderWay, Zenon DEF IInv, IsConn
  <2> QED
    BY <1>3, <2>1, <2>2, Zenon DEF UseResponse
<1> QED
  BY <1>1, <1>2, <1>3, Zenon

\* Every answer of the server.
LEMMA ServeOK == IInv /\ Serve => IInv'
<1> SUFFICES ASSUME IInv, Serve PROVE IInv'
  BY Zenon
<1>0. ASSUME NEW op, NEW data, NEW next, Reply(op, data, next)
      PROVE  /\ conn' = next /\ request' = None /\ UNCHANGED <<pc, config, server, reader>>
             /\ response'.op = op /\ response'.data = data /\ response'.format = ServerFormat
             /\ response'.compressed => ServerFormat = "envelopes" /\ conn.compression # "none"
  <2>1. PICK compressed \in {FALSE, ServerFormat = "envelopes" /\ conn.compression # "none"} :
           response' = [op |-> op, data |-> data, format |-> ServerFormat, compressed |-> compressed]
    BY <1>0, Zenon DEF Reply
  <2>2. response'.compressed = compressed
    BY <2>1, Zenon
  <2>3. response'.compressed => ServerFormat = "envelopes" /\ conn.compression # "none"
    BY <2>1, <2>2, Zenon
  <2> QED
    BY <1>0, <2>1, <2>3, Zenon DEF Reply, settings
<1>1. ASSUME request # None, request.op = "STARTUP", NEW op, NEW data, NEW next,
             Reply(op, data, next),
             next = [state |-> next.state, version |-> next.version,
                     compression |-> next.compression, keyspace |-> next.keyspace,
                     rounds |-> next.rounds],
             op = "READY" => next.state = "ready",
             op = "AUTHENTICATE" => next.state = "auth" /\ data = server.authenticator,
             op \in {"READY", "AUTHENTICATE"} =>
                 next.version = config.version /\ next.compression = config.compression
      PROVE  IInv'
  <2>1. pc = "startup" /\ InStartup
    BY <1>1, Zenon DEF IInv, InAuth, InUse
  <2>2. ServerFormat = "envelopes" /\ conn.compression = "none"
    BY <1>1, <2>1, Zenon DEF InStartup, ServerFormat
  <2>3. InStartup'
    BY <1>0, <1>1, <2>1, <2>2 DEF InStartup, AgreedTo
  <2> QED
    BY <1>0, <1>1, <2>1, <2>3, Zenon DEF IInv, IsConn
<1>2. ASSUME request # None, pc \in {"auth", "use"}, NEW op, NEW data, NEW next,
             Reply(op, data, next),
             next = [state |-> next.state, version |-> conn.version,
                     compression |-> conn.compression, keyspace |-> next.keyspace,
                     rounds |-> next.rounds],
             next.state \in {"auth", "ready"}, pc = "use" => next.state = "ready",
             op = "AUTH_CHALLENGE" => next.state = "auth",
             op = "AUTH_SUCCESS" => next.state = "ready"
      PROVE  IInv'
  <2>1. InNormal
    BY <1>2, Zenon DEF IInv
  <2>2. ServerFormat = Normal
    BY <2>1, Zenon DEF InNormal, AgreedTo, ServerFormat, Normal
  <2>3. next.version = conn.version /\ next.compression = conn.compression
    BY <1>2
  <2>4. InNormal'
    <3>1. Normal' = Normal /\ AgreedTo'
      BY <1>0, <1>2, <2>1, <2>3 DEF InNormal, AgreedTo, Normal
    <3> QED
      BY <1>0, <1>2, <2>1, <2>2, <3>1, Zenon DEF InNormal, AgreedTo
  <2>5. pc = "auth" => InAuth'
    BY <1>0, <1>2, Zenon DEF IInv, InAuth, Provider
  <2>6. pc = "use" => InUse'
    BY <1>0, <1>2, Zenon DEF InUse
  <2> QED
    BY <1>0, <1>2, <2>4, <2>5, <2>6, Zenon DEF IInv, IsConn
<1>3. CASE AnswerStartup
  <2>1. request # None /\ request.op = "STARTUP"
    BY <1>3, Zenon DEF AnswerStartup, Answering
  <2>2. request.data.version = config.version /\ request.data.compression = config.compression
    BY <2>1 DEF IInv, InStartup, InAuth, InUse
  <2>3. IsConn
    BY Zenon DEF IInv
  <2>4. ASSUME NEW state
        PROVE  Agreed(state) = [state |-> state, version |-> config.version,
                                compression |-> config.compression, keyspace |-> conn.keyspace,
                                rounds |-> conn.rounds]
    BY <2>2, Zenon DEF Agreed
  <2>5. \/ Reply("ERROR", "protocol", conn) \/ Reply("ERROR", "other", conn)
        \/ Reply("SUPPORTED", None, conn)
        \/ Reply("READY", None, Agreed("ready"))
        \/ Reply("AUTHENTICATE", server.authenticator, Agreed("auth"))
    BY <1>3, Zenon DEF AnswerStartup
  <2>6. ASSUME NEW op \in {"ERROR", "SUPPORTED"}, NEW data, Reply(op, data, conn) PROVE IInv'
    BY <1>1, <2>1, <2>3, <2>6, Zenon DEF IsConn
  <2>7. ASSUME Reply("READY", None, Agreed("ready")) PROVE IInv'
    BY <1>1, <2>1, <2>4, <2>7, Zenon
  <2>8. ASSUME Reply("AUTHENTICATE", server.authenticator, Agreed("auth")) PROVE IInv'
    BY <1>1, <2>1, <2>4, <2>8, Zenon
  <2> QED
    BY <2>5, <2>6, <2>7, <2>8, Zenon
<1>4. CASE AnswerAuth
  <2>1. request # None /\ pc = "auth" /\ InNormal /\ InAuth /\ IsConn /\ conn.state = "auth"
    BY <1>4, Zenon DEF AnswerAuth, Answering, IInv, InStartup, InAuth, InUse
  <2> DEFINE challenged == [conn EXCEPT !.rounds = @ + 1]
             ready == [conn EXCEPT !.state = "ready"]
  <2>2. /\ challenged = [state |-> "auth", version |-> conn.version, compression |-> conn.compression,
                         keyspace |-> conn.keyspace, rounds |-> conn.rounds + 1]
        /\ ready = [state |-> "ready", version |-> conn.version, compression |-> conn.compression,
                    keyspace |-> conn.keyspace, rounds |-> conn.rounds]
    BY <2>1 DEF IsConn
  <2>3. \/ Reply("AUTH_CHALLENGE", <<conn.rounds>>, challenged)
        \/ Reply("ERROR", "other", conn) \/ Reply("SUPPORTED", None, conn)
        \/ Reply("AUTH_SUCCESS", None, ready)
    BY <1>4, Zenon DEF AnswerAuth
  <2> HIDE DEF challenged, ready
  <2>4. ASSUME NEW op \in {"ERROR", "SUPPORTED"}, NEW data, Reply(op, data, conn) PROVE IInv'
    BY <1>2, <2>1, <2>4, Zenon DEF IsConn
  <2>5. ASSUME Reply("AUTH_CHALLENGE", <<conn.rounds>>, challenged) PROVE IInv'
    BY <1>2, <2>1, <2>2, <2>5, Zenon
  <2>6. ASSUME Reply("AUTH_SUCCESS", None, ready) PROVE IInv'
    BY <1>2, <2>1, <2>2, <2>6, Zenon
  <2> QED
    BY <2>3, <2>4, <2>5, <2>6, Zenon
<1>5. CASE AnswerUse
  <2>1. request # None /\ pc = "use" /\ InNormal /\ InUse /\ IsConn /\ conn.state = "ready"
    BY <1>5, Zenon DEF AnswerUse, Answering, IInv, InStartup, InAuth, InUse
  <2> DEFINE used == [conn EXCEPT !.keyspace = request.data]
  <2>2. used = [state |-> "ready", version |-> conn.version, compression |-> conn.compression,
                keyspace |-> request.data, rounds |-> conn.rounds]
    BY <2>1 DEF IsConn
  <2>3. Reply("SET_KEYSPACE", request.data, used) \/ Reply("ERROR", "other", conn)
    BY <1>5, Zenon DEF AnswerUse
  <2> HIDE DEF used
  <2>4. ASSUME Reply("SET_KEYSPACE", request.data, used) PROVE IInv'
    BY <1>2, <2>1, <2>2, <2>4, Zenon
  <2>5. ASSUME Reply("ERROR", "other", conn) PROVE IInv'
    BY <1>2, <2>1, <2>5, Zenon DEF IsConn
  <2> QED
    BY <2>3, <2>4, <2>5, Zenon
<1> QED
  BY <1>3, <1>4, <1>5, Zenon DEF Serve

\* The messages under way, the formats of both ends and what was asked for
\* agree in every state of establishing a connection.
THEOREM StartupInvariance == Spec => []IInv
<1>1. Init => IInv
  <2> SUFFICES ASSUME Init PROVE IInv
    BY Zenon
  <2>1. conn = Closed /\ request = None /\ response = None /\ pc = "configure"
    BY Zenon DEF Init
  <2> QED
    BY <2>1, Zenon DEF IInv, IsConn, Closed
<1>2. IInv /\ [Next]_vars => IInv'
  <2> SUFFICES ASSUME IInv, [Next]_vars PROVE IInv'
    BY Zenon
  <2>0. ASSUME UNCHANGED wire, pc \notin {"startup", "auth", "use"}, pc' \notin {"startup", "auth", "use"}
        PROVE  IInv'
    BY <2>0, NothingUnderWay, Zenon DEF IInv, IsConn, wire
  <2>1. CASE Configure
    BY <2>0, <2>1, Zenon DEF Configure, Set, WithNodeTcp, WithNodeRustls, WithSessionTcp, WithSessionRustls,
           NodeConfigured, WithContactPoint, BuildNodeConfig
  <2>2. CASE Resolve \/ BuildSession \/ Reconnect
    BY <2>0, <2>2, Zenon DEF Resolve, NodeConfigured, BuildSession, Reconnect
  <2>3. CASE CreateTransportTcp \/ CreateTransportRustls \/ HttpConnect \/ TlsConnect
    BY <2>0, <2>3, StartOK, Zenon DEF CreateTransportTcp, CreateTransportRustls, HttpConnect, TlsConnect, settings
  <2>4. CASE NoContactPoints \/ LinkFails
    BY <2>4, FailedOK, Zenon DEF NoContactPoints, LinkFails
  <2>5. CASE StartupResponse \/ AuthResponse \/ UseResponse
    BY <2>5, ResponseOK, Zenon
  <2>6. CASE Serve
    BY <2>6, ServeOK, Zenon
  <2>7. CASE (\E k \in Keyspaces : UseElsewhere(k)) \/ UNCHANGED vars
    <3>1. UNCHANGED <<config, server, pc, reader, request, response, conn>>
      BY <2>7, Zenon DEF UseElsewhere, settings, wire, vars
    <3> QED
      BY <3>1, Zenon DEF IInv, IsConn, InStartup, InNormal, InAuth, InUse, AgreedTo, Normal, Provider
  <2> QED
    BY <2>1, <2>2, <2>3, <2>4, <2>5, <2>6, <2>7, Zenon DEF Next, Establish
<1> QED
  BY <1>1, <1>2, PTL DEF Spec

\* Both ends change from bare envelopes to frames with the same message: no
\* message of a handshake is misread (start_reading_handshake_frames).
THEOREM HandshakesAreUnderstood == Spec => []FormatsAgree
BY StartupInvariance, Formats, PTL

\* Credentials are sent only to a server that asked for them, by the name of
\* the scheme they belong to.
THEOREM CredentialsAreAskedFor == Spec => []CredentialsOnlyWhenAsked
<1>1. IInv => CredentialsOnlyWhenAsked
  BY Zenon DEF IInv, InStartup, InAuth, InUse, CredentialsOnlyWhenAsked
<1> QED
  BY <1>1, StartupInvariance, PTL
-----------------------------------------------------------------------------
(***************************************************************************)
(* Delays.                                                                 *)
(***************************************************************************)

\* Induction over the natural numbers, for a set: the least number outside it
\* can be neither 0 nor a successor.
LEMMA Induction ==
    ASSUME NEW S, 0 \in S, \A n \in Nat : n \in S => n + 1 \in S
    PROVE  Nat \subseteq S
<1> SUFFICES ASSUME Nat \ S # {} PROVE FALSE
  BY Zenon
<1>1. IsWellFoundedOn(OpToRel(<, Nat), Nat)
  BY NatLessThanWellFounded, Zenon
<1>2. PICK x \in Nat \ S : \A y \in Nat \ S : ~(<<y, x>> \in OpToRel(<, Nat))
  BY <1>1, WFMin, Zenon
<1>3. ASSUME NEW y \in Nat \ S PROVE x <= y
  <2>1. ~(<<y, x>> \in OpToRel(<, Nat))
    BY <1>2, Zenon
  <2> QED
    BY <2>1 DEF OpToRel
<1>4. x # 0 /\ x - 1 \in Nat /\ x - 1 \in S
  BY <1>3
<1> QED
  BY <1>4

\* g lists what applying f to a again and again gives.
IsIteration(g, S, a, f) ==
    g \in [Nat -> S] /\ g[0] = a /\ \A n \in Nat : g[n + 1] = f[g[n]]

\* There is such a g: finite lists of every length exist, and they agree.
LEMMA Iteration ==
    ASSUME NEW S, NEW a \in S, NEW f \in [S -> S]
    PROVE  \E g : IsIteration(g, S, a, f)
<1> DEFINE Part(n) == {h \in [0..n -> S] : h[0] = a /\ \A i \in 0..(n - 1) : h[i + 1] = f[h[i]]}
<1>1. \A n \in Nat : Part(n) # {}
  <2> DEFINE T == {n \in Nat : Part(n) # {}}
  <2>1. 0 \in T
    <3>1. [i \in 0..0 |-> a] \in Part(0)
      OBVIOUS
    <3> QED
      BY <3>1, Zenon
  <2>2. ASSUME NEW n \in Nat, n \in T PROVE n + 1 \in T
    <3>1. PICK h \in Part(n) : TRUE
      BY <2>2, Zenon
    <3>2. h[n] \in S
      OBVIOUS
    <3>3. [i \in 0..(n + 1) |-> IF i = n + 1 THEN f[h[n]] ELSE h[i]] \in Part(n + 1)
      BY <3>2
    <3> HIDE DEF Part
    <3> QED
      BY <3>3
  <2> HIDE DEF T
  <2>3. Nat \subseteq T
    BY <2>1, <2>2, Induction, Zenon
  <2> QED
    BY <2>3, Zenon DEF T
<1>2. ASSUME NEW n \in Nat, NEW h \in Part(n), NEW k \in Part(n + 1) PROVE h[n] = k[n]
  <2> DEFINE T == {i \in Nat : i <= n => h[i] = k[i]}
  <2>1. 0 \in T
    BY <1>2, Zenon
  <2>2. ASSUME NEW i \in Nat, i \in T PROVE i + 1 \in T
    BY <1>2, <2>2
  <2> HIDE DEF T
  <2>3. Nat \subseteq T
    BY <2>1, <2>2, Induction, Zenon
  <2> QED
    BY <2>3 DEF T
<1> DEFINE G == [n \in Nat |-> CHOOSE h \in Part(n) : TRUE]
           g == [n \in Nat |-> G[n][n]]
<1>3. \A n \in Nat : G[n] \in Part(n)
  BY <1>1, Zenon
<1> HIDE DEF G
<1>4. g \in [Nat -> S] /\ g[0] = a
  BY <1>3
<1>5. ASSUME NEW n \in Nat PROVE g[n + 1] = f[g[n]]
  <2>1. G[n + 1] \in Part(n + 1) /\ G[n] \in Part(n)
    BY <1>3
  <2>2. G[n + 1][n] = G[n][n]
    BY <1>2, <2>1, Zenon
  <2>3. G[n + 1][n + 1] = f[G[n + 1][n]]
    BY <2>1
  <2> QED
    BY <2>2, <2>3
<1> HIDE DEF g
<1> QED
  BY <1>4, <1>5, Zenon DEF IsIteration

\* PowerOfTwo is what its definition says.
LEMMA PowersOfTwo ==
    /\ PowerOfTwo \in [Nat -> Nat] /\ PowerOfTwo[0] = 1
    /\ \A n \in Nat : PowerOfTwo[n + 1] = 2 * PowerOfTwo[n]
<1> DEFINE F(g) == [n \in Nat |-> IF n = 0 THEN 1 ELSE 2 * g[n - 1]]
           double == [n \in Nat |-> 2 * n]
<1>1. PICK g \in [Nat -> Nat] : g[0] = 1 /\ \A n \in Nat : g[n + 1] = double[g[n]]
  <2>1. double \in [Nat -> Nat] /\ 1 \in Nat
    OBVIOUS
  <2> HIDE DEF double
  <2>2. \E h : IsIteration(h, Nat, 1, double)
    BY <2>1, Iteration, Zenon
  <2> QED
    BY <2>2, Zenon DEF IsIteration
<1>2. g = F(g)
  <2>1. ASSUME NEW n \in Nat, n # 0 PROVE g[n] = 2 * g[n - 1]
    <3>1. n - 1 \in Nat /\ (n - 1) + 1 = n
      BY <2>1
    <3>2. g[(n - 1) + 1] = double[g[n - 1]]
      BY <1>1, <3>1, Zenon
    <3> QED
      BY <3>1, <3>2, Zenon
  <2> QED
    BY <1>1, <2>1, Zenon
<1>3. PowerOfTwo = F(PowerOfTwo)
  BY <1>2, Zenon DEF PowerOfTwo
<1>4. PowerOfTwo[0] = 1
  BY <1>3, Zenon
<1>5. ASSUME NEW n \in Nat PROVE PowerOfTwo[n + 1] = 2 * PowerOfTwo[n]
  BY <1>3
<1>6. DOMAIN PowerOfTwo = Nat /\ PowerOfTwo = [n \in Nat |-> PowerOfTwo[n]]
  BY <1>3, Zenon
<1>7. ASSUME NEW n \in Nat PROVE PowerOfTwo[n] \in Nat
  <2> DEFINE T == {i \in Nat : PowerOfTwo[i] \in Nat}
  <2>1. 0 \in T /\ \A i \in Nat : i \in T => i + 1 \in T
    BY <1>4, <1>5
  <2> HIDE DEF T
  <2>2. Nat \subseteq T
    BY <2>1, Induction, Zenon
  <2> QED
    BY <2>2, Zenon DEF T
<1> QED
  BY <1>4, <1>5, <1>6, <1>7, Zenon

\* A multiplier of more bits is larger.
LEMMA PowersGrow == \A m \in Nat : \A n \in Nat : n < m => PowerOfTwo[n] < PowerOfTwo[m]
<1> DEFINE T == {m \in Nat : \A n \in Nat : n < m => PowerOfTwo[n] < PowerOfTwo[m]}
<1>0. \A n \in Nat : PowerOfTwo[n] \in Nat /\ PowerOfTwo[n] > 0
  <2> DEFINE U == {i \in Nat : PowerOfTwo[i] > 0}
  <2>1. 0 \in U /\ \A i \in Nat : i \in U => i + 1 \in U
    BY PowersOfTwo
  <2> HIDE DEF U
  <2>2. Nat \subseteq U
    BY <2>1, Induction, Zenon
  <2> QED
    BY <2>2, PowersOfTwo, Zenon DEF U
<1>1. 0 \in T
  OBVIOUS
<1>2. ASSUME NEW m \in Nat, m \in T PROVE m + 1 \in T
  <2> SUFFICES ASSUME NEW n \in Nat, n < m + 1 PROVE PowerOfTwo[n] < PowerOfTwo[m + 1]
    OBVIOUS
  <2>1. PowerOfTwo[m + 1] = 2 * PowerOfTwo[m]
    BY PowersOfTwo, Zenon
  <2>2. n < m \/ n = m
    OBVIOUS
  <2> QED
    BY <1>0, <1>2, <2>1, <2>2
<1> HIDE DEF T
<1>3. Nat \subseteq T
  BY <1>1, <1>2, Induction, Zenon
<1> QED
  BY <1>3, Zenon DEF T

\* A cast keeps a number that fits.
LEMMA CastIs ==
    ASSUME NEW n \in Nat
    PROVE  AsU32(n) \in Nat /\ (n < PowerOfTwo[ShiftWidth] => AsU32(n) = n)
<1>1. PowerOfTwo[ShiftWidth] \in Nat /\ PowerOfTwo[ShiftWidth] > 0
  BY PowersOfTwo, PowersGrow, ShiftAssumption, SMTT(30)
<1>2. \A p \in Nat : p > 0 => n % p \in Nat /\ (n < p => n % p = n)
  OBVIOUS
<1> QED
  BY <1>1, <1>2, Zenon DEF AsU32

\* The multiplier of an attempt whose number fits is its power of two, as far
\* as the width goes.
LEMMA ShiftedIs ==
    ASSUME NEW n \in Nat
    PROVE  /\ n < PowerOfTwo[ShiftWidth] =>
                 Shifted(n) = Smaller(PowerOfTwo[n], PowerOfTwo[ShiftWidth] - 1)
           /\ Shifted(n) \in Nat
<1>0. Shifted(n) \in Nat
  <2>1. AsU32(n) \in Nat
    BY CastIs, Zenon
  <2>2. PowerOfTwo[AsU32(n)] \in Nat /\ PowerOfTwo[ShiftWidth] \in Nat
    BY <2>1, PowersOfTwo, ShiftAssumption, Zenon
  <2>3. PowerOfTwo[ShiftWidth] > 0
    BY PowersOfTwo, PowersGrow, ShiftAssumption
  <2> QED
    BY <2>2, <2>3 DEF Shifted
<1> SUFFICES ASSUME n < PowerOfTwo[ShiftWidth]
             PROVE  Shifted(n) = Smaller(PowerOfTwo[n], PowerOfTwo[ShiftWidth] - 1)
  BY <1>0, Zenon
<1> AsU32(n) = n
  BY CastIs, Zenon
<1>1. ShiftWidth \in Nat /\ PowerOfTwo[n] \in Nat /\ PowerOfTwo[ShiftWidth] \in Nat
  BY PowersOfTwo, ShiftAssumption, Zenon
<1>2. PowerOfTwo[ShiftWidth] > 0
  BY <1>1, PowersGrow, PowersOfTwo, ShiftAssumption
<1>3. CASE n < ShiftWidth
  <2>1. PowerOfTwo[n] < PowerOfTwo[ShiftWidth]
    BY <1>1, <1>3, PowersGrow, Zenon
  <2> QED
    BY <1>1, <1>3, <2>1 DEF Shifted, Smaller
<1>4. CASE n >= ShiftWidth
  <2>1. PowerOfTwo[ShiftWidth] <= PowerOfTwo[n]
    BY <1>1, <1>4, PowersGrow
  <2> QED
    BY <1>1, <1>2, <1>4, <2>1 DEF Shifted, Smaller
<1> QED
  BY <1>1, <1>3, <1>4

\* A delay for which RetriesArePaced is stated.
Paced(s, d) ==
    /\ d \in s.base..s.max
    /\ LET doubled == Smaller(PowerOfTwo[s.attempt], PowerOfTwo[ShiftWidth] - 1)
       IN s.attempt < PowerOfTwo[ShiftWidth] =>
             d >= (Smaller(s.base * doubled, s.max) \div 100) * 85

\* A schedule of an exponential policy.
IsExponential(s) ==
    /\ s = [kind |-> "exponential", base |-> s.base, max |-> s.max,
            max_attempts |-> s.max_attempts, attempt |-> s.attempt]
    /\ s.base \in Nat /\ s.max \in Nat /\ s.base <= s.max
    /\ s.max_attempts \in Nat /\ s.attempt \in Nat

\* Every delay of an exponential schedule is paced.
LEMMA DelaysArePaced ==
    ASSUME NEW s, IsExponential(s), NEW next \in NextDelay(s)
    PROVE  IsExponential(next.schedule) /\ Paced(next.schedule, next.delay)
<1>0. s.kind = "exponential" /\ s.base \in Nat /\ s.max \in Nat /\ s.attempt \in Nat
  BY DEF IsExponential
<1>1. CASE s.attempt = s.max_attempts
  <2>1. next.delay = s.max /\ next.schedule = s
    BY <1>0, <1>1 DEF NextDelay
  <2>2. s.base * Shifted(s.attempt) \in Nat
    BY <1>0, ShiftedIs
  <2>3. \A d \in Nat : (Smaller(d, s.max) \div 100) * 85 <= s.max
    BY <1>0 DEF Smaller
  <2> QED
    BY <1>0, <2>1, <2>2, <2>3, ShiftedIs DEF IsExponential, Paced
<1>2. CASE s.attempt # s.max_attempts
  <2> DEFINE a == s.attempt + 1
             wait == Smaller(s.base * Shifted(a), s.max)
  <2>1. PICK jitter \in Jitters :
            next = [delay |-> Clamp((wait \div 100) * jitter, s.base, s.max),
                    schedule |-> [s EXCEPT !.attempt = @ + 1]]
    BY <1>0, <1>2, Zenon DEF NextDelay
  <2>2. next.schedule = [kind |-> "exponential", base |-> s.base, max |-> s.max,
                         max_attempts |-> s.max_attempts, attempt |-> a]
    BY <2>1 DEF IsExponential
  <2>3. s.base * Shifted(a) \in Nat /\ a \in Nat
    BY <1>0, ShiftedIs
  <2>4. jitter \in Int /\ jitter >= 85
    BY JitterAssumption
  <2>5. wait \in Nat /\ wait <= s.max
    BY <1>0, <2>3 DEF Smaller
  <2> HIDE DEF wait
  <2>6. (wait \div 100) \in Nat /\ (wait \div 100) * 85 <= wait
    BY <2>5
  <2>7. (wait \div 100) * jitter \in Nat /\ (wait \div 100) * jitter >= (wait \div 100) * 85
    <3> DEFINE q == wait \div 100
    <3>1. q \in Nat
      BY <2>6, Zenon
    <3> HIDE DEF q
    <3>2. q * jitter = q * 85 + q * (jitter - 85) /\ q * (jitter - 85) \in Nat
      BY <2>4, <3>1
    <3> QED
      BY <2>4, <3>1, <3>2 DEF q
  <2>8. next.delay = Clamp((wait \div 100) * jitter, s.base, s.max)
    BY <2>1, Zenon
  <2>9. next.delay \in s.base..s.max /\ next.delay >= (wait \div 100) * 85
    BY <1>0, <2>5, <2>6, <2>7, <2>8 DEF Clamp, IsExponential
  <2>10. a < PowerOfTwo[ShiftWidth] =>
            Shifted(a) = Smaller(PowerOfTwo[a], PowerOfTwo[ShiftWidth] - 1)
    BY <2>3, ShiftedIs, Zenon
  <2> QED
    BY <1>0, <2>2, <2>3, <2>9, <2>10 DEF IsExponential, Paced, wait
<1> QED
  BY <1>1, <1>2, Zenon

\* The schedule in use comes from the policy, and the last delay from it.
PaceInv ==
    /\ pc \in {"configure", "resolve"} => delay = NoDelay
    /\ IsPolicy(policy)
    /\ policy.kind = "exponential" => IsExponential(schedule)
    /\ policy.kind # "exponential" => schedule = policy
    /\ schedule.kind = "exponential" /\ delay # NoDelay => Paced(schedule, delay)

\* A policy, as it was made.
LEMMA PolicyIs ==
    ASSUME NEW p, IsPolicy(p), p.kind = "exponential"
    PROVE  IsExponential(p)
<1>1. p = ExponentialPolicy(p.base, p.max, p.max_attempts) /\ p.base <= p.max
  BY DEF IsPolicy, NeverPolicy, ConstantPolicy
<1>2. p = [kind |-> "exponential", base |-> p.base, max |-> p.max,
           max_attempts |-> p.max_attempts, attempt |-> 0]
  BY <1>1, Zenon DEF ExponentialPolicy
<1>3. p.attempt = 0
  BY <1>2
<1> QED
  BY <1>1, <1>2, <1>3 DEF IsExponential, IsPolicy

\* Attempts to connect are never closer together than the exponential policy
\* says, for any base and maximum of it, any width of the multiplier and
\* whatever the jitter: within its limits for any number of attempts, and by
\* its doubling as long as the cast keeps their number.
THEOREM AttemptsArePaced == Spec => []RetriesArePaced
<1>1. Init => PaceInv
  <2> SUFFICES ASSUME Init PROVE PaceInv
    BY Zenon
  <2>1. IsPolicy(policy) /\ schedule = policy /\ delay = NoDelay
    BY PolicyAssumption, Zenon DEF Init
  <2> QED
    BY <2>1, PolicyIs, Zenon DEF PaceInv
<1>2. PaceInv /\ [Next]_vars => PaceInv'
  <2> SUFFICES ASSUME PaceInv, [Next]_vars PROVE PaceInv'
    BY Zenon
  <2>0. policy' = policy
    BY Zenon DEF Next, vars, settings, Configure, Set, WithNodeTcp, WithNodeRustls, WithSessionTcp, WithSessionRustls,
           NodeConfigured, WithContactPoint, BuildNodeConfig,
           Establish, Resolve, BuildSession, CreateTransportTcp, CreateTransportRustls, HttpConnect,
           TlsConnect, NoContactPoints, StartupResponse, AuthResponse, UseResponse, Serve,
           AnswerStartup, AnswerAuth, AnswerUse, Reply, LinkFails, Reconnect, UseElsewhere
  <2>1. CASE Reconnect
    <3>1. PICK next \in NextDelay(schedule) :
             /\ delay' = next.delay /\ schedule' = next.schedule
             /\ pc' = IF next.delay = NoDelay THEN "stopped" ELSE "connect"
      BY <2>1, Zenon DEF Reconnect
    <3>2. CASE policy.kind = "exponential"
      <4>1. IsExponential(schedule') /\ Paced(schedule', delay')
        BY <3>1, <3>2, DelaysArePaced, Zenon DEF PaceInv
      <4> QED
        BY <2>0, <3>1, <3>2, <4>1, Zenon DEF PaceInv
    <3>3. CASE policy.kind # "exponential"
      <4>1. schedule = policy /\ policy.kind \in {"never", "constant"}
        BY <3>3 DEF PaceInv, IsPolicy, NeverPolicy, ConstantPolicy, ExponentialPolicy
      <4>2. next.schedule = schedule
        BY <4>1 DEF NextDelay
      <4> QED
        BY <2>0, <3>1, <3>3, <4>1, <4>2, Zenon DEF PaceInv
    <3> QED
      BY <3>2, <3>3, Zenon
  <2>2. CASE BuildSession
    <3>1. /\ delay' = delay /\ delay = NoDelay
          /\ schedule' = policy \/ schedule' = schedule
      BY <2>2, Zenon DEF BuildSession, NodeConfigured, PaceInv
    <3> QED
      BY <2>0, <3>1, PolicyIs, Zenon DEF PaceInv
  <2>3. CASE ~Reconnect /\ ~BuildSession
    <3>1. /\ UNCHANGED scheduleVars
          /\ pc' \in {"configure", "resolve"} => pc \in {"configure", "resolve"}
      <4>1. CASE Configure \/ Resolve
        BY <4>1, Zenon DEF Configure, Set, WithNodeTcp, WithNodeRustls, WithSessionTcp, WithSessionRustls,
           NodeConfigured, WithContactPoint, BuildNodeConfig,
                    Resolve
      <4>2. CASE CreateTransportTcp \/ CreateTransportRustls \/ HttpConnect \/ TlsConnect
                 \/ NoContactPoints \/ LinkFails
        BY <4>2, Zenon DEF CreateTransportTcp, CreateTransportRustls, HttpConnect, TlsConnect, Start,
                    NoContactPoints, LinkFails, Failed
      <4>3. CASE StartupResponse \/ AuthResponse \/ UseResponse
        BY <4>3, Zenon DEF StartupResponse, AuthResponse, UseResponse, FailStartup, Failed, SetKeyspace,
                    Authenticate, Respond
      <4>4. CASE Serve
        BY <4>4, Zenon DEF Serve, AnswerStartup, AnswerAuth, AnswerUse, Reply
      <4>5. CASE (\E k \in Keyspaces : UseElsewhere(k)) \/ UNCHANGED vars
        BY <4>5, Zenon DEF UseElsewhere, vars, scheduleVars
      <4> QED
        BY <2>3, <4>1, <4>2, <4>3, <4>4, <4>5, Zenon DEF Next, Establish
    <3> QED
      BY <2>0, <3>1, Zenon DEF PaceInv, scheduleVars
  <2> QED
    BY <2>1, <2>2, <2>3, Zenon
<1>3. PaceInv => RetriesArePaced
  BY Zenon DEF PaceInv, Paced, RetriesArePaced
<1> QED
  BY <1>1, <1>2, <1>3, PTL DEF Spec
-----------------------------------------------------------------------------
(***************************************************************************)
(* Accepted connections.                                                   *)
(***************************************************************************)

\* The last zero byte, once it is known where.
LEMMA LastZeroIs ==
    ASSUME NEW data \in Seq(Nat), NEW i \in 1..Len(data), data[i] = 0,
           \A j \in (i + 1)..Len(data) : data[j] # 0
    PROVE  LastZero(data) = i
<1>1. i \in DOMAIN data /\ DOMAIN data = 1..Len(data) /\ Len(data) \in Nat
  OBVIOUS
<1>2. LastZero(data) \in DOMAIN data /\ data[LastZero(data)] = 0
      /\ \A j \in (LastZero(data) + 1)..Len(data) : data[j] # 0
  BY <1>1, Zenon DEF LastZero
<1>3. ~(LastZero(data) > i) /\ ~(LastZero(data) < i)
  BY <1>1, <1>2
<1> QED
  BY <1>1, <1>2, <1>3

\* What a sequence over a set holds.
LEMMA ItemsOf == ASSUME NEW S, NEW t \in Seq(S), NEW j \in 1..Len(t) PROVE t[j] \in S
OBVIOUS

\* A server reads from the initial response what was put into it.
LEMMA CredentialsAreRead ==
    ASSUME NEW u, NEW p, IsText(u), IsText(p)
    PROVE  Credentials(<<0>> \o u \o <<0>> \o p) = <<u, p>>
<1> DEFINE data == <<0>> \o u \o <<0>> \o p
           i == Len(u) + 2
<1>0. ASSUME NEW t, IsText(t)
      PROVE  t \in Seq(Nat) /\ Len(t) \in Nat /\ \A j \in 1..Len(t) : t[j] # 0
  <2>1. t \in Seq(1..255) /\ Len(t) \in Nat /\ t = [j \in 1..Len(t) |-> t[j]]
    BY <1>0 DEF IsText
  <2>2. \A j \in 1..Len(t) : t[j] \in 1..255
    BY <2>1, ItemsOf, Zenon
  <2>3. ASSUME NEW j \in 1..Len(t) PROVE t[j] \in Nat /\ t[j] # 0
    <3>1. \A b \in 1..255 : b \in Nat /\ b # 0
      OBVIOUS
    <3> QED
      BY <2>2, <3>1, Zenon
  <2>4. t \in [1..Len(t) -> Nat]
    BY <2>1, <2>3, Zenon
  <2> QED
    BY <2>1, <2>3, <2>4
<1>1. u \in Seq(Nat) /\ p \in Seq(Nat) /\ Len(u) \in Nat /\ Len(p) \in Nat
  BY <1>0, Zenon
<1>2. /\ \A j \in 1..Len(u) : u[j] # 0
      /\ \A j \in 1..Len(p) : p[j] # 0
  BY <1>0, Zenon
<1>3. data \in Seq(Nat) /\ Len(data) = Len(u) + Len(p) + 2
  BY <1>1
<1>4. /\ data[1] = 0 /\ data[i] = 0
      /\ \A j \in 1..Len(u) : data[j + 1] = u[j]
      /\ \A j \in 1..Len(p) : data[j + i] = p[j]
  BY <1>1
<1> HIDE DEF data
<1>5. LastZero(data) = i
  <2>1. ASSUME NEW j \in (i + 1)..Len(data) PROVE data[j] # 0
    <3>1. j - i \in 1..Len(p) /\ (j - i) + i = j
      BY <1>1, <1>3
    <3>2. data[(j - i) + i] = p[j - i]
      BY <1>4, <3>1, Zenon
    <3>3. p[j - i] # 0
      BY <1>2, <3>1, Zenon
    <3> QED
      BY <3>1, <3>2, <3>3, Zenon
  <2>2. i \in 1..Len(data)
    BY <1>1, <1>3
  <2> QED
    BY <1>3, <1>4, <2>1, <2>2, LastZeroIs, Zenon
<1> DEFINE front == SubSeq(data, 1, i - 1)
<1>6. front \in Seq(Nat) /\ Len(front) = i - 1 /\ \A j \in 1..(i - 1) : front[j] = data[j]
  BY <1>1, <1>3
<1>7. LastZero(front) = 1
  <2> HIDE DEF front
  <2>1. ASSUME NEW j \in 2..Len(front) PROVE front[j] # 0
    <3>1. j - 1 \in 1..Len(u) /\ (j - 1) + 1 = j /\ j \in 1..(i - 1)
      BY <1>1, <1>6
    <3>2. front[j] = data[(j - 1) + 1] /\ data[(j - 1) + 1] = u[j - 1]
      BY <1>4, <1>6, <3>1, Zenon
    <3>3. u[j - 1] # 0
      BY <1>2, <3>1, Zenon
    <3> QED
      BY <3>2, <3>3, Zenon
  <2>2. 1 \in 1..Len(front) /\ front[1] = 0
    BY <1>1, <1>4, <1>6
  <2> QED
    BY <1>6, <2>1, <2>2, LastZeroIs
<1>8. SubSeq(data, 2, i - 1) = u
  <2>1. /\ SubSeq(data, 2, i - 1) \in Seq(Nat) /\ Len(SubSeq(data, 2, i - 1)) = Len(u)
        /\ \A j \in 1..Len(u) : SubSeq(data, 2, i - 1)[j] = data[j + 1]
    BY <1>1, <1>3
  <2> QED
    BY <1>1, <1>4, <2>1
<1>9. SubSeq(data, i + 1, Len(data)) = p
  <2>0. i \in Nat /\ Len(data) \in Nat /\ Len(data) = Len(p) + i /\ 1 =< i + 1
    BY <1>1, <1>3
  <2> HIDE DEF i
  <2>1. /\ SubSeq(data, i + 1, Len(data)) \in Seq(Nat)
        /\ Len(SubSeq(data, i + 1, Len(data))) = Len(p)
        /\ \A j \in 1..Len(p) : SubSeq(data, i + 1, Len(data))[j] = data[j + i]
    <3>1. PICK m \in Int : m = i + 1
      BY <2>0
    <3>2. PICK n \in Int : n = Len(data)
      BY <2>0
    <3>3. \A j \in m..n : data[j] \in Nat
      BY <1>3, <2>0, <3>1, <3>2
    <3>4. /\ SubSeq(data, m, n) \in Seq(Nat)
          /\ Len(SubSeq(data, m, n)) = IF m =< n THEN n - m + 1 ELSE 0
          /\ \A j \in 1..(n - m + 1) : SubSeq(data, m, n)[j] = data[m + j - 1]
      BY <3>3
    <3>5. n - m + 1 = Len(p) /\ \A j \in 1..Len(p) : m + j - 1 = j + i
      BY <1>1, <2>0, <3>1, <3>2
    <3> QED
      BY <1>1, <2>0, <3>1, <3>2, <3>4, <3>5
  <2> USE DEF i
  <2> QED
    BY <1>1, <1>4, <2>1
<1>10. Credentials(data) = <<SubSeq(data, 2, i - 1), SubSeq(data, i + 1, Len(data))>>
  BY <1>5, <1>7 DEF Credentials
<1> QED
  BY <1>8, <1>9, <1>10, Zenon DEF data

\* The server took the initial response, if it asked for one and no challenge.
Accepted ==
    server.authenticator # None =>
        /\ Provider.name # None
        /\ conn.rounds = 0 => Credentials(InitialResponse) = <<server.username, server.password>>

\* How far the server has got: the first response it gets is the initial one,
\* and it goes on to the keyspace when it has accepted.
AcceptInv ==
    /\ conn.rounds \in Nat
    /\ pc \in {"startup", "auth"} => conn.keyspace = None
    /\ pc = "startup" /\ response # None /\ response.op = "READY" => server.authenticator = None
    /\ pc = "auth" =>
          /\ Provider.name # None
          /\ request # None /\ conn.rounds = 0 => request.data = InitialResponse
          /\ response # None /\ response.op = "AUTH_CHALLENGE" => conn.rounds # 0
          /\ response # None /\ response.op = "AUTH_SUCCESS" => Accepted
    /\ pc = "use" =>
          /\ Accepted
          /\ request # None => request.data = use
          /\ response # None /\ response.op # "ERROR" => conn.keyspace = use
    /\ pc = "ready" =>
          /\ conn.state = "ready" /\ reader = "normal" /\ request = None /\ response = None
          /\ conn.keyspace = use /\ Accepted

\* A connection that has just been set up owes the server its first request.
LEMMA AcceptStart ==
    ASSUME pc' = "startup", conn'.rounds = 0, conn'.keyspace = None, response' = None
    PROVE  AcceptInv'
BY DEF AcceptInv

\* Answers the client gets.
LEMMA AcceptResponse == IInv /\ AcceptInv /\ (StartupResponse \/ AuthResponse \/ UseResponse) => AcceptInv'
<1> SUFFICES ASSUME IInv, AcceptInv, StartupResponse \/ AuthResponse \/ UseResponse PROVE AcceptInv'
  BY Zenon
<1>0. UNCHANGED <<config, server>>
  BY Zenon DEF StartupResponse, AuthResponse, UseResponse, settings
<1>1. ASSUME NEW e, FailStartup(e) PROVE AcceptInv'
  BY <1>1, Zenon DEF FailStartup, Failed, Closed, AcceptInv
<1>2. ASSUME SetKeyspace, Accepted, reader' = "normal", conn.keyspace = None, conn.state = "ready"
      PROVE  AcceptInv'
  <2>1. conn' = conn /\ response' = None /\ use' = current_keyspace
    BY <1>2, Zenon DEF SetKeyspace
  <2>2. Accepted'
    BY <1>0, <1>2, <2>1, Zenon DEF Accepted, Provider, InitialResponse
  <2>3. CASE current_keyspace = None
    <3>1. pc' = "ready" /\ request' = None
      BY <1>2, <2>3, Zenon DEF SetKeyspace
    <3> QED
      BY <1>2, <2>1, <2>2, <2>3, <3>1, Zenon DEF AcceptInv
  <2>4. CASE current_keyspace # None
    <3>1. pc' = "use" /\ WriteEnvelope("USE", current_keyspace, FALSE)
      BY <1>2, <2>4, Zenon DEF SetKeyspace
    <3>2. request'.data = current_keyspace
      BY <3>1, Zenon DEF WriteEnvelope
    <3> QED
      BY <1>2, <2>1, <2>2, <3>1, <3>2, Zenon DEF AcceptInv
  <2> QED
    BY <2>3, <2>4, Zenon
<1>3. ASSUME NEW data, Respond(data), conn.keyspace = None, Provider.name # None,
             conn.rounds = 0 => data = InitialResponse
      PROVE  AcceptInv'
  <2>1. conn' = conn /\ response' = None /\ pc' = "auth" /\ request'.data = data
    BY <1>3, Zenon DEF Respond, WriteEnvelope
  <2>2. Provider' = Provider /\ InitialResponse' = InitialResponse
    BY <1>0, Zenon DEF Provider, InitialResponse
  <2> QED
    BY <1>3, <2>1, <2>2, Zenon DEF AcceptInv
<1>4. CASE StartupResponse
  <2>1. InStartup /\ response # None /\ pc = "startup" /\ conn.keyspace = None
    BY <1>4, Zenon DEF StartupResponse, IInv, AcceptInv
  <2>2. CASE response.op = "READY" /\ SetKeyspace /\ SwitchReader
    <3>1. server.authenticator = None /\ conn.state = "ready" /\ reader' = "normal"
      BY <2>1, <2>2, Zenon DEF AcceptInv, InStartup, SwitchReader
    <3> QED
      BY <1>2, <2>1, <2>2, <3>1, Zenon DEF Accepted
  <2>3. CASE response.op = "AUTHENTICATE" /\ Authenticate
    BY <1>1, <1>3, <2>1, <2>3, Zenon DEF Authenticate
  <2> QED
    BY <1>1, <1>4, <2>2, <2>3, Zenon DEF StartupResponse
<1>5. CASE AuthResponse
  <2>1. /\ InNormal /\ InAuth /\ response # None /\ pc = "auth" /\ conn.keyspace = None
        /\ Provider.name # None
    BY <1>5, Zenon DEF AuthResponse, IInv, AcceptInv
  <2>2. ASSUME NEW data, response.op = "AUTH_CHALLENGE", Respond(data) PROVE AcceptInv'
    BY <1>3, <2>1, <2>2, Zenon DEF AcceptInv
  <2>3. CASE response.op = "AUTH_SUCCESS" /\ SetKeyspace /\ UNCHANGED reader
    <3>1. Accepted /\ conn.state = "ready" /\ reader' = "normal"
      BY <2>1, <2>3, Zenon DEF AcceptInv, InNormal, InAuth
    <3> QED
      BY <1>2, <2>1, <2>3, <3>1, Zenon
  <2> QED
    BY <1>1, <1>5, <2>2, <2>3, Zenon DEF AuthResponse
<1>6. CASE UseResponse
  <2>1. CASE response.op # "ERROR" /\ pc' = "ready" /\ response' = None
             /\ UNCHANGED <<reader, request, conn, use>>
    <3>1. /\ request = None /\ reader = "normal" /\ conn.state = "ready"
          /\ conn.keyspace = use /\ Accepted
      BY <1>6, <2>1, Zenon DEF UseResponse, IInv, InNormal, InUse, AcceptInv
    <3>2. Accepted'
      BY <1>0, <2>1, <3>1, Zenon DEF Accepted, Provider, InitialResponse
    <3> QED
      BY <2>1, <3>1, <3>2, Zenon DEF AcceptInv
  <2> QED
    BY <1>1, <1>6, <2>1, Zenon DEF UseResponse
<1> QED
  BY <1>4, <1>5, <1>6, Zenon

\* Answers the server gives.
LEMMA AcceptServe == IInv /\ AcceptInv /\ Serve => AcceptInv'
<1> SUFFICES ASSUME IInv, AcceptInv, Serve PROVE AcceptInv'
  BY Zenon
<1>0. ASSUME NEW op, NEW data, NEW next, Reply(op, data, next)
      PROVE  /\ conn' = next /\ request' = None /\ UNCHANGED <<pc, config, server, use>>
             /\ response'.op = op /\ response'.data = data
             /\ Provider' = Provider /\ InitialResponse' = InitialResponse
  BY <1>0 DEF Reply, settings, keyspaceVars, Provider, InitialResponse
<1>1. request # None /\ pc \in {"startup", "auth", "use"} /\ IsConn
  BY Zenon DEF Serve, AnswerStartup, AnswerAuth, AnswerUse, Answering, IInv
<1>2. CASE AnswerStartup
  <2>1. pc = "startup"
    BY <1>1, <1>2, Zenon DEF AnswerStartup, Answering, IInv, InAuth, InUse
  <2>2. ASSUME NEW op, NEW data, NEW next, Reply(op, data, next),
               op = "READY" => server.authenticator = None,
               next.keyspace = conn.keyspace, next.rounds = conn.rounds
        PROVE  AcceptInv'
    BY <1>0, <2>1, <2>2 DEF AcceptInv
  <2>3. \A state : Agreed(state).keyspace = conn.keyspace /\ Agreed(state).rounds = conn.rounds
    BY Zenon DEF Agreed
  <2>4. \/ Reply("ERROR", "protocol", conn) \/ Reply("ERROR", "other", conn)
        \/ Reply("SUPPORTED", None, conn)
        \/ server.authenticator = None /\ Reply("READY", None, Agreed("ready"))
        \/ Reply("AUTHENTICATE", server.authenticator, Agreed("auth"))
    BY <1>2, Zenon DEF AnswerStartup
  <2> QED
    BY <2>2, <2>3, <2>4, Zenon
<1>3. CASE AnswerAuth
  <2>1. pc = "auth" /\ conn.state = "auth" /\ conn.keyspace = None /\ Provider.name # None
    BY <1>1, <1>3, Zenon DEF AnswerAuth, Answering, IInv, InStartup, InAuth, InUse, AcceptInv
  <2> DEFINE challenged == [conn EXCEPT !.rounds = @ + 1]
             ready == [conn EXCEPT !.state = "ready"]
  <2>2. /\ challenged.keyspace = None /\ challenged.rounds = conn.rounds + 1
        /\ ready.keyspace = None /\ ready.rounds = conn.rounds
    BY <1>1, <2>1, Zenon DEF IsConn
  <2>3. ASSUME NEW op \in {"ERROR", "SUPPORTED"}, NEW data, Reply(op, data, conn) PROVE AcceptInv'
    BY <1>0, <2>1, <2>3, Zenon DEF AcceptInv
  <2>4. ASSUME Reply("AUTH_CHALLENGE", <<conn.rounds>>, challenged) PROVE AcceptInv'
    <3>0. conn' = challenged
      BY <1>0, <2>4, Zenon
    <3>1. conn'.rounds \in Nat /\ conn'.rounds # 0 /\ conn'.keyspace = None
      <4> HIDE DEF challenged
      <4> QED BY <2>2, <3>0 DEF AcceptInv
    <3> QED
      BY <1>0, <2>1, <2>4, <3>1, Zenon DEF AcceptInv
  <2>5. ASSUME Reply("AUTH_SUCCESS", None, ready),
               ~(conn.rounds = 0 /\ Credentials(request.data) # <<server.username, server.password>>)
        PROVE  AcceptInv'
    <3>1. conn'.rounds = conn.rounds /\ conn'.keyspace = None
      BY <1>0, <2>2, <2>5, Zenon
    <3>2. Accepted'
      BY <1>0, <1>1, <2>1, <2>5, <3>1, Zenon DEF AcceptInv, Accepted
    <3> QED
      BY <1>0, <2>1, <2>5, <3>1, <3>2 DEF AcceptInv
  <2>6. \/ Reply("AUTH_CHALLENGE", <<conn.rounds>>, challenged)
        \/ Reply("ERROR", "other", conn) \/ Reply("SUPPORTED", None, conn)
        \/ /\ ~(conn.rounds = 0 /\ Credentials(request.data) # <<server.username, server.password>>)
           /\ Reply("AUTH_SUCCESS", None, ready)
    BY <1>3, Zenon DEF AnswerAuth
  <2> QED
    BY <2>3, <2>4, <2>5, <2>6, Zenon
<1>4. CASE AnswerUse
  <2>1. pc = "use" /\ Accepted /\ request.data = use
    BY <1>1, <1>4, Zenon DEF AnswerUse, Answering, IInv, InStartup, InAuth, AcceptInv
  <2>2. ASSUME NEW op, NEW data, NEW next, Reply(op, data, next), next.rounds = conn.rounds,
               op # "ERROR" => next.keyspace = use
        PROVE  AcceptInv'
    <3>1. Accepted'
      BY <1>0, <2>1, <2>2, Zenon DEF Accepted
    <3> QED
      BY <1>0, <2>1, <2>2, <3>1, Zenon DEF AcceptInv
  <2>3. /\ [conn EXCEPT !.keyspace = request.data].rounds = conn.rounds
        /\ [conn EXCEPT !.keyspace = request.data].keyspace = use
    BY <1>1, <2>1, Zenon DEF IsConn
  <2>4. \/ Reply("SET_KEYSPACE", request.data, [conn EXCEPT !.keyspace = request.data])
        \/ Reply("ERROR", "other", conn)
    BY <1>4, Zenon DEF AnswerUse
  <2> QED
    BY <2>2, <2>3, <2>4, Zenon
<1> QED
  BY <1>2, <1>3, <1>4, Zenon DEF Serve

\* A connection that is handed out was accepted by the server, with the
\* credentials of the configuration if it asked for them, and uses the keyspace
\* that startup() read, for any server, configuration and order of events.
THEOREM UsableIsAccepted == Spec => []UsableMeansAccepted
<1>1. Init => AcceptInv
  BY DEF Init, Closed, AcceptInv
<1>2. IInv /\ AcceptInv /\ [Next]_vars => AcceptInv'
  <2> SUFFICES ASSUME IInv, AcceptInv, [Next]_vars PROVE AcceptInv'
    BY Zenon
  <2>0. ASSUME UNCHANGED <<conn>>, pc' \notin {"startup", "auth", "use", "ready"} PROVE AcceptInv'
    BY <2>0, Zenon DEF AcceptInv
  <2>1. CASE Configure \/ Resolve \/ BuildSession \/ Reconnect
    BY <2>0, <2>1, Zenon DEF Configure, Set, WithNodeTcp, WithNodeRustls, WithSessionTcp, WithSessionRustls,
           NodeConfigured, WithContactPoint, BuildNodeConfig,
                      Resolve, BuildSession, Reconnect, wire
  <2>2. ASSUME Start, pc \notin {"startup", "auth", "use"} PROVE AcceptInv'
    <3>1. pc' = "startup" /\ conn'.rounds = 0 /\ conn'.keyspace = None /\ response' = response
      BY <2>2, Zenon DEF Start, Closed
    <3>2. response = None
      BY <2>2, Zenon DEF IInv
    <3> QED
      BY <3>1, <3>2, AcceptStart, Zenon
  <2>3. CASE CreateTransportTcp \/ CreateTransportRustls \/ HttpConnect \/ TlsConnect
    BY <2>0, <2>2, <2>3, Zenon DEF CreateTransportTcp, CreateTransportRustls, HttpConnect, TlsConnect, wire
  <2>4. CASE NoContactPoints \/ LinkFails
    BY <2>4 DEF NoContactPoints, LinkFails, Failed, Closed, AcceptInv
  <2>5. CASE StartupResponse \/ AuthResponse \/ UseResponse
    BY <2>5, AcceptResponse, Zenon
  <2>6. CASE Serve
    BY <2>6, AcceptServe, Zenon
  <2>7. CASE (\E k \in Keyspaces : UseElsewhere(k)) \/ UNCHANGED vars
    <3>1. UNCHANGED <<config, server, pc, use, reader, request, response, conn>>
      BY <2>7, Zenon DEF UseElsewhere, settings, wire, vars
    <3> QED
      BY <3>1, Zenon DEF AcceptInv, Accepted, Provider, InitialResponse
  <2> QED
    BY <2>1, <2>3, <2>4, <2>5, <2>6, <2>7, Zenon DEF Next, Establish
<1>3. AcceptInv => UsableMeansAccepted
  <2> SUFFICES ASSUME AcceptInv, pc = "ready", server.authenticator # None, conn.rounds = 0,
                      IsText(Provider.username), IsText(Provider.password)
               PROVE  Provider.username = server.username /\ Provider.password = server.password
    BY Zenon DEF AcceptInv, UsableMeansAccepted
  <2>1. Credentials(InitialResponse) = <<server.username, server.password>> /\ Provider.name # None
    BY Zenon DEF AcceptInv, Accepted
  <2>2. Credentials(InitialResponse) = <<Provider.username, Provider.password>>
    BY <2>1, CredentialsAreRead, Zenon DEF InitialResponse
  <2> QED
    BY <2>1, <2>2
<1> QED
  BY <1>1, <1>2, <1>3, StartupInvariance, PTL DEF Spec
=============================================================================
