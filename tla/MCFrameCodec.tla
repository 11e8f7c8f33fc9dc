----------------------------- MODULE MCFrameCodec -----------------------------
(***************************************************************************)
(* FrameCodec instantiated for TLC: a payload limit of 32 instead of 2^17, *)
(* tracing ids of two bytes.                                               *)
(***************************************************************************)
EXTENDS FrameCodec

CONSTANTS LargeBodies, Bodies       \* lengths of bodies sent in parts, and in one piece

\* A body of one byte repeated compresses, another one does not.
Plain(n) == [i \in 1..n |-> i % 7]
Repeated(n) == [i \in 1..n |-> 9]

Request(version, stream, body) ==
    [version |-> version, direction |-> "Request", flags |-> {}, opcode |-> "Query",
     stream_id |-> stream, body |-> body, tracing_id |-> <<>>, warnings |-> <<>>]

Response(version, stream, body) ==
    [version |-> version, direction |-> "Response", flags |-> {"TRACING", "WARNING"},
     opcode |-> "Result", stream_id |-> stream, body |-> body, tracing_id |-> <<7, 8>>,
     warnings |-> <<<<3>>, <<>>>>]

\* The decoder keeps the length of the first body it reassembles, without the
\* header; it is right for envelopes none of whose parts end in between.
PartEnds(body) == {k * (PAYLOAD_SIZE_LIMIT - 1) : k \in 1..((body + 8) \div (PAYLOAD_SIZE_LIMIT - 1))}
Regular(first, body) ==
    /\ body + ENVELOPE_HEADER_LEN >= first
    /\ PartEnds(body) \cap (first..(body + ENVELOPE_HEADER_LEN - 1)) = {}

RegularBodies == {40}

ASSUME BodiesAreRegular == \A first, body \in RegularBodies : Regular(first, body)

MCEnvelopes ==
    {Request(5, 258, Plain(n)) : n \in Bodies} \cup {Request(5, 1, Plain(n)) : n \in LargeBodies}
    \cup {Request(5, 2, Repeated(n)) : n \in LargeBodies}
    \cup {Response(5, -1, <<>>)}
    \cup {Request(4, 3, Repeated(5)), Response(4, 4, Plain(1))}
=============================================================================
