------------------------------ MODULE MCStartup ------------------------------
(***************************************************************************)
(* Two addresses, one of them behind a name that may not resolve; four     *)
(* kinds of servers.                                                       *)
(***************************************************************************)
EXTENDS Startup

CONSTANTS a1, a2, n1, k1, k2, Password, Custom

NoneProvider == [name |-> None, username |-> <<>>, password |-> <<>>, answers |-> FALSE]
PasswordProvider == [name |-> Password, username |-> <<7>>, password |-> <<8, 9>>, answers |-> FALSE]
CustomProvider == [name |-> Custom, username |-> <<7>>, password |-> <<>>, answers |-> TRUE]

MCDefaults ==
    {[transport |-> t, version |-> 4, compression |-> "none", keyspace |-> None,
      authenticator |-> NoneProvider, proxy |-> None] : t \in {"tcp", "rustls"}}

MCNodeSettings ==
    {<<"version", 5>>, <<"authenticator", PasswordProvider>>, <<"authenticator", CustomProvider>>,
     <<"proxy", "basic">>}
MCSessionSettings ==
    {<<"compression", "lz4">>, <<"compression", "snappy">>, <<"keyspace", k1>>}

MCLookup(name) == {<<a1, a2>>, None}

Plain == [versions |-> {4}, compressions |-> {"none", "snappy"}, authenticator |-> None,
          username |-> <<>>, password |-> <<>>, challenges |-> FALSE, odd |-> TRUE]
Guarded == [versions |-> {4, 5}, compressions |-> {"none", "lz4"}, authenticator |-> Password,
            username |-> <<7>>, password |-> <<8, 9>>, challenges |-> FALSE, odd |-> FALSE]
Strict == [Guarded EXCEPT !.password = <<9>>, !.odd = TRUE]
Challenging == [Guarded EXCEPT !.authenticator = Custom, !.password = <<>>, !.challenges = TRUE]
MCServers == {Plain, Guarded, Strict, Challenging}

MCPolicies == {NeverPolicy, ConstantPolicy(100), ExponentialPolicy(100, 500, 6)}
=============================================================================
