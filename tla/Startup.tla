------------------------------- MODULE Startup -------------------------------
(***************************************************************************)
(* How a session is configured and how one connection of it is             *)
(* established: the node config builders (config_tcp.rs, config_rustls.rs, *)
(* node_address.rs) and session builders (session.rs), the connection      *)
(* managers (tcp_connection_manager.rs, rustls_connection_manager.rs), the *)
(* opening of a transport, startup() with authentication and the choice of *)
(* the keyspace (connection_manager.rs, authenticators.rs), and the        *)
(* schedule of attempts.                                                   *)
(*                                                                         *)
(* A message is [op, data, format, compressed]; one is in flight at a time *)
(* in each direction, as startup() waits for every answer.  Until the      *)
(* answer to STARTUP envelopes are not framed.                             *)
(***************************************************************************)
EXTENDS ReconnectionPolicy, Sequences

CONSTANTS
    None,
    Direct,         \* socket addresses
    Hostnames,      \* names to resolve; each may have several addresses
    Lookup(_),      \* the answers lookup_host can give for a name
    NodeSettings,   \* <<field, value>> pairs for the node configuration
    SessionSettings,\* and for the session
    Defaults,       \* the configuration builders start from
    Keyspaces,
    MaxContactPoints, MaxChallenges, MaxUses, MaxFailures,
    Policies,       \* reconnection policies
    Servers         \* [versions, compressions, authenticator, username, password, challenges, odd]

ASSUME PolicyAssumption == \A p \in Policies : IsPolicy(p)

VARIABLES
    config,             \* of the builders
    addrs,              \* contact points as configured
    contact_points,     \* and resolved
    pc, error,          \* where establishing is; what it returned
    current_keyspace,   \* of the KeyspaceHolder
    use,                \* the keyspace startup() read from it
    reader,             \* what the transport reads: "handshake" or "normal"
    request, response,  \* messages in flight
    server,             \* one of Servers
    conn,               \* the server's end: [state, version, compression, keyspace, rounds]
    policy, schedule, delay,
    uses, failures      \* counters of USE statements elsewhere and of failed links

vars == <<config, addrs, contact_points, pc, error, current_keyspace, use, reader, request,
          response, server, conn, policy, schedule, delay, uses, failures>>
settings == <<config, addrs, contact_points, server, policy>>
wire == <<reader, request, response, conn>>
keyspaceVars == <<current_keyspace, use, uses>>
scheduleVars == <<schedule, delay>>

Closed == [state |-> "closed", version |-> None, compression |-> "none", keyspace |-> None, rounds |-> 0]

-----------------------------------------------------------------------------
(***************************************************************************)
(* Configuration: first the builder of the node configuration, then that   *)
(* of the session.  A setter replaces the value, a contact point is added. *)
(***************************************************************************)
Set(field, value) ==
    /\ config' = [config EXCEPT ![field] = value]
    /\ UNCHANGED <<addrs, contact_points, pc, error, server, policy, failures>>
    /\ UNCHANGED <<wire, keyspaceVars, scheduleVars>>

WithNodeTcp(field, value) ==
    pc = "configure" /\ config.transport = "tcp" /\ Set(field, value)

WithNodeRustls(field, value) ==
    pc = "configure" /\ config.transport = "rustls" /\ Set(field, value)

WithContactPoint(addr) ==
    /\ pc = "configure" /\ Len(addrs) < MaxContactPoints
    /\ addrs' = Append(addrs, addr)
    /\ UNCHANGED <<config, contact_points, pc, error, server, policy, failures>>
    /\ UNCHANGED <<wire, keyspaceVars, scheduleVars>>

\* build() of the node configuration resolves the addresses in turn and fails
\* with the first that cannot be resolved.
ResolveAddress(addr) == IF addr \in Hostnames THEN Lookup(addr) ELSE {<<addr>>}

BuildNodeConfig ==
    /\ pc = "configure"
    /\ pc' = "resolve"
    /\ UNCHANGED <<settings, error, failures, wire, keyspaceVars, scheduleVars>>

Resolve ==
    /\ pc = "resolve" /\ addrs # <<>>
    /\ \E resolved \in ResolveAddress(Head(addrs)) :
          IF resolved = None
          THEN pc' = "refused" /\ error' = "Io" /\ UNCHANGED <<addrs, contact_points>>
          ELSE /\ contact_points' = contact_points \o resolved
               /\ addrs' = Tail(addrs)
               /\ UNCHANGED <<pc, error>>
    /\ UNCHANGED <<config, server, policy, failures, wire, keyspaceVars, scheduleVars>>

\* The node configuration is complete, and the session being configured.
NodeConfigured == pc = "resolve" /\ addrs = <<>>

WithSessionTcp(field, value) ==
    NodeConfigured /\ config.transport = "tcp" /\ Set(field, value)

WithSessionRustls(field, value) ==
    NodeConfigured /\ config.transport = "rustls" /\ Set(field, value)

VerifyCompressionConfiguration == config.version < 5 \/ config.compression # "snappy"

\* build() of the session: the keyspace is set without notification.
BuildSession ==
    /\ NodeConfigured
    /\ IF VerifyCompressionConfiguration
       THEN /\ pc' = "connect" /\ current_keyspace' = config.keyspace
            /\ schedule' = policy /\ UNCHANGED error
       ELSE /\ pc' = "refused" /\ error' = "CompressionTypeNotSupported"
            /\ UNCHANGED <<current_keyspace, schedule>>
    /\ UNCHANGED <<settings, use, uses, failures, delay, wire>>

-----------------------------------------------------------------------------
(***************************************************************************)
(* Opening a transport.                                                    *)
(***************************************************************************)
Failed(e) ==
    /\ pc' = "failed" /\ error' = e
    /\ reader' = None /\ request' = None /\ response' = None /\ conn' = Closed

EncoderFor(version, compression) ==
    IF version >= 5 THEN IF compression = "lz4" THEN "lz4 frames" ELSE "frames" ELSE "envelopes"

\* A handshake envelope is neither framed nor compressed.
WriteEnvelope(op, data, handshake) ==
    request' = [op |-> op, data |-> data,
                format |-> IF handshake THEN "envelopes"
                           ELSE EncoderFor(config.version, config.compression),
                compressed |-> ~handshake /\ config.version < 5 /\ config.compression # "none"]

\* The stream is open: the reader starts, and startup() sends STARTUP.
Start ==
    /\ pc' = "startup" /\ reader' = "handshake"
    /\ conn' = [Closed EXCEPT !.state = "startup"]
    /\ WriteEnvelope("STARTUP", [version |-> config.version, compression |-> config.compression], TRUE)
    /\ UNCHANGED <<response, error>>

CreateTransportTcp ==
    /\ pc = "connect" /\ config.transport = "tcp" /\ contact_points # <<>>
    /\ IF config.proxy = None THEN Start
       ELSE pc' = "proxy" /\ UNCHANGED <<error, wire>>
    /\ UNCHANGED <<settings, failures, keyspaceVars, scheduleVars>>

CreateTransportRustls ==
    /\ pc = "connect" /\ config.transport = "rustls" /\ contact_points # <<>>
    /\ pc' = IF config.proxy = None THEN "tls" ELSE "proxy"
    /\ UNCHANGED <<settings, error, failures, wire, keyspaceVars, scheduleVars>>

\* CONNECT, with basic authentication when it is configured.
HttpConnect ==
    /\ pc = "proxy"
    /\ IF config.transport = "tcp" THEN Start
       ELSE pc' = "tls" /\ UNCHANGED <<error, wire>>
    /\ UNCHANGED <<settings, failures, keyspaceVars, scheduleVars>>

TlsConnect ==
    /\ pc = "tls"
    /\ Start
    /\ UNCHANGED <<settings, failures, keyspaceVars, scheduleVars>>

NoContactPoints ==
    /\ pc = "connect" /\ contact_points = <<>>
    /\ Failed("NoContactPoints")
    /\ UNCHANGED <<settings, failures, keyspaceVars, scheduleVars>>

\* Any step of it can fail, and the link can be lost later on.
Establishing == pc \in {"connect", "proxy", "tls", "startup", "auth", "use"}

LinkFails ==
    /\ Establishing /\ contact_points # <<>> /\ failures < MaxFailures
    /\ Failed("Io")
    /\ failures' = failures + 1
    /\ UNCHANGED <<settings, keyspaceVars, scheduleVars>>

-----------------------------------------------------------------------------
(***************************************************************************)
(* startup().                                                              *)
(***************************************************************************)
Provider == config.authenticator

\* The initial response of the StaticPasswordAuthenticator, and of none.
InitialResponse ==
    IF Provider.name = None THEN <<0>> ELSE <<0>> \o Provider.username \o <<0>> \o Provider.password

\* Neither answers challenges; an application's own authenticator may.
EvaluateChallenge(challenge) == IF Provider.answers THEN challenge ELSE None

SetKeyspace ==
    /\ use' = current_keyspace
    /\ IF current_keyspace = None
       THEN pc' = "ready" /\ request' = None
       ELSE pc' = "use" /\ WriteEnvelope("USE", current_keyspace, FALSE)
    /\ response' = None /\ UNCHANGED <<error, conn, current_keyspace>>

Respond(data) ==
    /\ pc' = "auth" /\ response' = None
    /\ WriteEnvelope("AUTH_RESPONSE", data, FALSE)
    /\ UNCHANGED <<error, conn, current_keyspace, use>>

FailStartup(e) == Failed(e) /\ UNCHANGED <<current_keyspace, use>>

DecoderFormat ==
    IF reader = "handshake" THEN "envelopes" ELSE EncoderFor(config.version, config.compression)

Readable(message) ==
    message.format = DecoderFormat /\ (message.compressed => config.compression # "none")

\* Faulty variant: only READY ends the handshake.
SwitchReaderOnReady == reader' = IF response.op = "READY" THEN "normal" ELSE reader

\* start_reading_handshake_frames: all envelopes after this one are framed.
SwitchReader == reader' = IF response.op \in {"READY", "AUTHENTICATE"} THEN "normal" ELSE reader

\* Faulty variant: the name of the authenticator is not compared.
AuthenticateAnyone ==
    IF Provider.name = None \/ response.data = None THEN FailStartup("General")
    ELSE Respond(InitialResponse) /\ SwitchReader

Authenticate ==
    IF Provider.name = None \/ response.data = None THEN FailStartup("General")
    ELSE IF response.data # Provider.name THEN FailStartup("Io")
    ELSE Respond(InitialResponse) /\ SwitchReader

\* Faulty variant: an answer of another kind is ignored.
StartupIgnoring ==
    /\ pc = "startup" /\ response # None
    /\ IF response.op = "ERROR" THEN FailStartup("Server")
       ELSE IF response.op = "READY" THEN SetKeyspace /\ SwitchReader
       ELSE IF response.op = "AUTHENTICATE" THEN Authenticate
       ELSE response' = None /\ UNCHANGED <<pc, error, reader, request, conn, current_keyspace, use>>
    /\ UNCHANGED <<settings, uses, failures, scheduleVars>>

StartupResponse ==
    /\ pc = "startup" /\ response # None
    /\ IF ~Readable(response) THEN FailStartup("Io")
       ELSE IF response.op = "ERROR"
       THEN FailStartup(IF response.data = "protocol" THEN "InvalidProtocol" ELSE "Server")
       ELSE IF response.op = "READY" THEN SetKeyspace /\ SwitchReader
       ELSE IF response.op = "AUTHENTICATE" THEN Authenticate
       ELSE FailStartup("UnexpectedStartupResponse")
    /\ UNCHANGED <<settings, uses, failures, scheduleVars>>

\* Faulty variant: a challenge ends the exchange.
ReadyWhenChallenged ==
    /\ pc = "auth" /\ response # None
    /\ IF Readable(response) /\ response.op \in {"AUTH_CHALLENGE", "AUTH_SUCCESS"}
       THEN SetKeyspace /\ UNCHANGED reader ELSE FailStartup("Server")
    /\ UNCHANGED <<settings, uses, failures, scheduleVars>>

AuthResponse ==
    /\ pc = "auth" /\ response # None
    /\ IF ~Readable(response) THEN FailStartup("Io")
       ELSE IF response.op = "ERROR" THEN FailStartup("Server")
       ELSE IF response.op = "AUTH_CHALLENGE"
       THEN IF EvaluateChallenge(response.data) = None THEN FailStartup("General")
            ELSE Respond(EvaluateChallenge(response.data)) /\ UNCHANGED reader
       ELSE IF response.op = "AUTH_SUCCESS" THEN SetKeyspace /\ UNCHANGED reader
       ELSE FailStartup("UnexpectedAuthResponse")
    /\ UNCHANGED <<settings, uses, failures, scheduleVars>>

\* Any answer but an error will do; the reader records the keyspace of a
\* SET_KEYSPACE before startup() gets it.
UseResponse ==
    /\ pc = "use" /\ response # None
    /\ IF ~Readable(response) THEN FailStartup("Io")
       ELSE IF response.op = "ERROR" THEN FailStartup("Server")
       ELSE /\ current_keyspace' =
                  IF response.op = "SET_KEYSPACE" THEN response.data ELSE current_keyspace
            /\ pc' = "ready" /\ response' = None
            /\ UNCHANGED <<error, reader, request, conn, use>>
    /\ UNCHANGED <<settings, uses, failures, scheduleVars>>

\* Meanwhile another connection of the session got a SET_KEYSPACE.
UseElsewhere(k) ==
    /\ pc \notin {"configure", "resolve", "refused"} /\ uses < MaxUses /\ current_keyspace # k
    /\ current_keyspace' = k /\ uses' = uses + 1
    /\ UNCHANGED <<settings, pc, error, use, failures, wire, scheduleVars>>

\* The pool and the control connection try again after a delay.
Reconnect ==
    /\ pc = "failed"
    /\ \E next \in NextDelay(schedule) :
          /\ delay' = next.delay /\ schedule' = next.schedule
          /\ pc' = IF next.delay = NoDelay THEN "stopped" ELSE "connect"
    /\ UNCHANGED <<settings, error, failures, wire, keyspaceVars>>

-----------------------------------------------------------------------------
(***************************************************************************)
(* The server, as the code expects it.                                     *)
(***************************************************************************)
ServerFormat ==
    IF conn.state = "startup" THEN "envelopes" ELSE EncoderFor(conn.version, conn.compression)

Understood ==
    request.format = ServerFormat /\ (request.compressed => conn.compression # "none")

\* What the format of an answer is, is settled before the answer.
Reply(op, data, next) ==
    /\ conn' = next
    /\ \E compressed \in {FALSE, ServerFormat = "envelopes" /\ conn.compression # "none"} :
          response' = [op |-> op, data |-> data, format |-> ServerFormat, compressed |-> compressed]
    /\ request' = None
    /\ UNCHANGED <<settings, pc, error, reader, failures, keyspaceVars, scheduleVars>>

Answering(op) == request # None /\ request.op = op /\ Understood

Agreed(state) ==
    [state |-> state, version |-> request.data.version, compression |-> request.data.compression,
     keyspace |-> conn.keyspace, rounds |-> conn.rounds]

AnswerStartup ==
    /\ Answering("STARTUP")
    /\ IF request.data.version \notin server.versions THEN Reply("ERROR", "protocol", conn)
       ELSE IF request.data.compression \notin server.compressions THEN Reply("ERROR", "other", conn)
       ELSE \/ server.authenticator = None /\ Reply("READY", None, Agreed("ready"))
            \/ /\ server.authenticator # None
               /\ Reply("AUTHENTICATE", server.authenticator, Agreed("auth"))
            \/ server.odd /\ Reply("SUPPORTED", None, conn)

\* The credentials, split at the zero bytes from the end.
LastZero(data) == CHOOSE i \in DOMAIN data : data[i] = 0 /\ \A j \in (i + 1)..Len(data) : data[j] # 0
Credentials(data) ==
    LET i == LastZero(data)
    IN <<SubSeq(data, LastZero(SubSeq(data, 1, i - 1)) + 1, i - 1), SubSeq(data, i + 1, Len(data))>>

AnswerAuth ==
    /\ Answering("AUTH_RESPONSE")
    /\ \/ /\ conn.rounds < MaxChallenges /\ server.challenges
          /\ Reply("AUTH_CHALLENGE", <<conn.rounds>>, [conn EXCEPT !.rounds = @ + 1])
       \/ /\ conn.state = "auth"
          /\ IF conn.rounds = 0 /\ Credentials(request.data) # <<server.username, server.password>>
             THEN Reply("ERROR", "other", conn)
             ELSE Reply("AUTH_SUCCESS", None, [conn EXCEPT !.state = "ready"])
       \/ server.odd /\ Reply("SUPPORTED", None, conn)

AnswerUse ==
    /\ Answering("USE")
    /\ IF conn.state = "ready" /\ request.data \in Keyspaces
       THEN Reply("SET_KEYSPACE", request.data, [conn EXCEPT !.keyspace = request.data])
       ELSE Reply("ERROR", "other", conn)

-----------------------------------------------------------------------------
Init ==
    /\ config \in Defaults /\ addrs = <<>> /\ contact_points = <<>>
    /\ pc = "configure" /\ error = None
    /\ current_keyspace = None /\ use = None
    /\ reader = None /\ request = None /\ response = None
    /\ server \in Servers /\ conn = Closed
    /\ policy \in Policies /\ schedule = policy /\ delay = NoDelay
    /\ uses = 0 /\ failures = 0

Configure ==
    \/ \E s \in NodeSettings : WithNodeTcp(s[1], s[2]) \/ WithNodeRustls(s[1], s[2])
    \/ \E s \in SessionSettings : WithSessionTcp(s[1], s[2]) \/ WithSessionRustls(s[1], s[2])
    \/ \E addr \in Direct \cup Hostnames : WithContactPoint(addr)
    \/ BuildNodeConfig

Establish ==
    \/ Resolve \/ BuildSession
    \/ CreateTransportTcp \/ CreateTransportRustls \/ HttpConnect \/ TlsConnect \/ NoContactPoints
    \/ StartupResponse \/ AuthResponse \/ UseResponse

Serve == AnswerStartup \/ AnswerAuth \/ AnswerUse

Next ==
    \/ Configure \/ Establish \/ Serve \/ LinkFails \/ Reconnect
    \/ \E k \in Keyspaces : UseElsewhere(k)

Spec == Init /\ [][Next]_vars
FairSpec == Spec /\ WF_vars(Establish) /\ WF_vars(Serve)

-----------------------------------------------------------------------------
\* Both ends change from bare envelopes to frames with the same message, and
\* agree on frames and compression ever after: no message of a handshake is
\* read in another format than it was written in.
FormatsAgree ==
    /\ request # None => Understood
    /\ response # None => Readable(response)

\* The zero byte separates the credentials, and cannot be part of one.
IsText(bytes) == bytes \in Seq(1..255)

\* A connection is handed out only when the server has accepted it, with the
\* user's own credentials if it asked for any, after every challenge was
\* answered, and uses the keyspace that startup() asked for.
UsableMeansAccepted ==
    pc = "ready" =>
        /\ conn.state = "ready" /\ reader = "normal" /\ request = None /\ response = None
        /\ conn.keyspace = use
        /\ server.authenticator # None /\ conn.rounds = 0 =>
              (IsText(Provider.username) /\ IsText(Provider.password) =>
                  Provider.username = server.username /\ Provider.password = server.password)

\* Credentials are sent only to a server that asked for the scheme they are for.
CredentialsOnlyWhenAsked ==
    request # None =>
        (request.op = "AUTH_RESPONSE" => conn.state = "auth" /\ server.authenticator = Provider.name)

\* Attempts are paced: with the exponential policy the delay is always within
\* its limits and, until the number of the attempt no longer fits in 32 bits,
\* never shorter than the doubling of the base delay asks for, up to what 32
\* bits can hold and less 15 per cent.
RetriesArePaced ==
    schedule.kind = "exponential" /\ delay # NoDelay =>
        /\ delay \in schedule.base..schedule.max
        /\ LET doubled == Smaller(PowerOfTwo[schedule.attempt], PowerOfTwo[ShiftWidth] - 1)
           IN schedule.attempt < PowerOfTwo[ShiftWidth] =>
                 delay >= (Smaller(schedule.base * doubled, schedule.max) \div 100) * 85

\* Establishing a connection ends, if the server answers: every answer leads
\* to the next request, to a usable connection or to an error.
StartupEnds == Establishing /\ contact_points # <<>> ~> pc \in {"ready", "failed"}
=============================================================================
