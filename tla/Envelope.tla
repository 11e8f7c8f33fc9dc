------------------------------- MODULE Envelope -------------------------------
(***************************************************************************)
(* Envelopes as bytes: Envelope::encode_with and Envelope::from_buffer of  *)
(* cassandra-protocol/src/frame.rs, parse_raw_envelope of                  *)
(* cdrs-tokio/src/envelope_parser.rs and compression.rs.                   *)
(*                                                                         *)
(* An envelope is a record; its body, tracing id and warnings are byte     *)
(* sequences (no tracing id: <<>>).  Lengths read from the wire are taken  *)
(* to be non-negative.                                                     *)
(***************************************************************************)
EXTENDS Integers, Sequences, SequencesExt

CONSTANT UUID_LEN       \* bytes of a tracing id, 16 in the code

ASSUME UuidAssumption == UUID_LEN \in Nat \ {0}

ENVELOPE_HEADER_LEN == 9

Bytes == 0..255

Opcode == [Error |-> 0, Startup |-> 1, Ready |-> 2, Authenticate |-> 3, Options |-> 5,
           Supported |-> 6, Query |-> 7, Result |-> 8, Prepare |-> 9, Execute |-> 10,
           Register |-> 11, Event |-> 12, Batch |-> 13, AuthChallenge |-> 14,
           AuthResponse |-> 15, AuthSuccess |-> 16]

OpcodeOf(b) == CHOOSE name \in DOMAIN Opcode : Opcode[name] = b
OpcodeKnown(b) == \E name \in DOMAIN Opcode : Opcode[name] = b

\* Version and Direction share a byte; Version::try_from masks the direction.
Versions == 3..5
VersionByte(version, direction) == version + (IF direction = "Response" THEN 128 ELSE 0)
VersionOf(b) == b % 128
DirectionOf(b) == IF b >= 128 THEN "Response" ELSE "Request"

Flags == [COMPRESSION |-> 1, TRACING |-> 2, CUSTOM_PAYLOAD |-> 4, WARNING |-> 8, BETA |-> 16]

FlagByte(set) == FoldSet(LAMBDA f, n : n + Flags[f], 0, set)
FlagsOf(b) == {f \in DOMAIN Flags : (b \div Flags[f]) % 2 = 1}      \* from_bits_truncate

\* Big-endian integers of two and four bytes.
Be16(n) == <<(n % 65536) \div 256, n % 256>>
Be32(n) == <<n \div 16777216, (n \div 65536) % 256, (n \div 256) % 256, n % 256>>
U16(b) == b[1] * 256 + b[2]
I16(b) == IF b[1] < 128 THEN U16(b) ELSE U16(b) - 65536
I32(b) == b[1] * 16777216 + b[2] * 65536 + b[3] * 256 + b[4]

\* A loop: Step applied n times.
Iterate(Step(_), n, start) ==
    LET after[i \in Nat] == IF i = 0 THEN start ELSE Step(after[i - 1]) IN after[n]

-----------------------------------------------------------------------------
(***************************************************************************)
(* The compression libraries, seen from here: a run of one byte shrinks,   *)
(* anything else grows by a marker; decompression fails on other input and *)
(* when the result is longer than announced.                               *)
(***************************************************************************)
IsRun(b) == Len(b) > 3 /\ \A i \in DOMAIN b : b[i] = b[1]
Compress(b) == IF IsRun(b) THEN <<1, b[1], Len(b)>> ELSE <<0>> \o b
MaxOutputSize(n) == n + 1

Failed == <<-1>>
Decompress(b, announced) ==
    LET out == IF b = <<>> THEN Failed
               ELSE IF b[1] = 1 /\ Len(b) = 3 THEN [i \in 1..b[3] |-> b[2]]
               ELSE IF b[1] = 0 THEN Tail(b) ELSE Failed
    IN IF Len(out) > announced THEN Failed ELSE out

Compressions == {"Lz4", "Snappy", "None"}

\* Lz4 puts the length of what it compressed in front; Snappy carries its own.
EncodeLz4(b) == Be32(Len(b)) \o Compress(b)
EncodeSnappy(b) == Compress(b)

\* decode_lz4 slices the length off without a check: fewer than four bytes panic.
DecodeLz4(b) == IF Len(b) < 4 THEN Failed ELSE Decompress(SubSeq(b, 5, Len(b)), I32(b))
DecodeSnappy(b) == Decompress(b, Len(b) + 255)

CompressionEncode(c, b) ==
    CASE c = "Lz4" -> EncodeLz4(b) [] c = "Snappy" -> EncodeSnappy(b) [] c = "None" -> b

CompressionDecode(c, b) ==
    CASE c = "Lz4" -> DecodeLz4(b) [] c = "Snappy" -> DecodeSnappy(b) [] c = "None" -> b

-----------------------------------------------------------------------------
(***************************************************************************)
(* Envelope::encode_with.                                                  *)
(***************************************************************************)
IsCompressed(e, c) == e.version < 5 /\ c # "None"

StringBytes(s) == Be16(Len(s)) \o s
StringListBytes(list) ==
    FoldLeft(LAMBDA acc, s : acc \o StringBytes(s), Be16(Len(list)), list)

\* What the flags put before the body, in a response only.
FlagsBuffer(e) ==
    (IF "TRACING" \in e.flags /\ e.direction = "Response" THEN e.tracing_id ELSE <<>>) \o
    (IF "WARNING" \in e.flags /\ e.direction = "Response" THEN StringListBytes(e.warnings) ELSE <<>>)

\* A traced response without a tracing id cannot be encoded.
Encodable(e) == "TRACING" \in e.flags /\ e.direction = "Response" => e.tracing_id # <<>>

WireFlags(e, c) == IF IsCompressed(e, c) THEN e.flags \cup {"COMPRESSION"}
                                         ELSE e.flags \ {"COMPRESSION"}

EncodeWith(e, c) ==
    LET full == FlagsBuffer(e) \o e.body
        body == IF IsCompressed(e, c) THEN CompressionEncode(c, full) ELSE full
    IN <<VersionByte(e.version, e.direction), FlagByte(WireFlags(e, c))>> \o Be16(e.stream_id)
       \o <<Opcode[e.opcode]>> \o Be32(Len(body)) \o body

-----------------------------------------------------------------------------
(***************************************************************************)
(* Envelope::from_buffer and check_envelope_size.  A result says how many  *)
(* bytes were read.                                                        *)
(***************************************************************************)
Rest(b, n) == SubSeq(b, n + 1, Len(b))

NotEnoughBytes == [result |-> "NotEnoughBytes"]
ParseError(why) == [result |-> "Err", error |-> why]

\* from_cursor_string_list: the strings and what follows them, or Failed.
ReadStringList(b) ==
    IF Len(b) < 2 THEN [rest |-> Failed, list |-> <<>>]
    ELSE Iterate(LAMBDA acc :
                      IF acc.rest = Failed \/ Len(acc.rest) < 2
                         \/ Len(acc.rest) < 2 + U16(acc.rest)
                      THEN [acc EXCEPT !.rest = Failed]
                      ELSE [rest |-> Rest(acc.rest, 2 + U16(acc.rest)),
                            list |-> Append(acc.list, SubSeq(acc.rest, 3, 2 + U16(acc.rest)))],
                 U16(b), [rest |-> Rest(b, 2), list |-> <<>>])

BodyLen(b) == I32(SubSeq(b, 6, 9))
EnvelopeLen(b) == ENVELOPE_HEADER_LEN + BodyLen(b)

CheckEnvelopeSize(b) ==
    IF Len(b) < ENVELOPE_HEADER_LEN THEN NotEnoughBytes
    ELSE IF Len(b) < EnvelopeLen(b) THEN NotEnoughBytes
    ELSE IF VersionOf(b[1]) \notin Versions THEN ParseError("UnsupportedVersion")
    ELSE [result |-> "Ok", len |-> EnvelopeLen(b)]

\* What follows the header: tracing id (if any is expected), warnings, body.
ParseBody(b, flags, full, traced) ==
    LET id   == IF traced THEN SubSeq(full, 1, UUID_LEN) ELSE <<>>
        warn == IF "WARNING" \in flags THEN ReadStringList(Rest(full, Len(id)))
                ELSE [rest |-> Rest(full, Len(id)), list |-> <<>>]
    IN IF full = Failed THEN ParseError("DecompressionError")
       ELSE IF traced /\ Len(full) < UUID_LEN THEN ParseError("panic")
       ELSE IF warn.rest = Failed THEN ParseError("InvalidWarnings")
       ELSE [result |-> "Ok", len |-> EnvelopeLen(b),
             envelope |-> [version |-> VersionOf(b[1]), direction |-> DirectionOf(b[1]),
                           flags |-> flags, opcode |-> OpcodeOf(b[5]),
                           stream_id |-> I16(SubSeq(b, 3, 4)),
                           body |-> warn.rest, tracing_id |-> id, warnings |-> warn.list]]

FullBody(b, flags, c) ==
    CompressionDecode(IF "COMPRESSION" \in flags THEN c ELSE "None",
                      SubSeq(b, ENVELOPE_HEADER_LEN + 1, EnvelopeLen(b)))

FromBuffer(b, c) ==
    IF Len(b) < ENVELOPE_HEADER_LEN THEN NotEnoughBytes
    ELSE IF Len(b) < EnvelopeLen(b) THEN NotEnoughBytes
    ELSE IF VersionOf(b[1]) \notin Versions THEN ParseError("UnsupportedVersion")
    ELSE IF ~OpcodeKnown(b[5]) THEN ParseError("UnsupportedOpcode")
    ELSE LET flags == FlagsOf(b[2])
         IN ParseBody(b, flags, FullBody(b, flags, c),
                      "TRACING" \in flags /\ DirectionOf(b[1]) = "Response")

\* Faulty variant: warnings are taken for the start of the body.
ParseRawUnwarned(b, c) ==
    LET flags == FlagsOf(b[2])
    IN ParseBody(b, flags \ {"WARNING"}, FullBody(b, flags, c), "TRACING" \in flags)

\* parse_raw_envelope, for the unframed envelopes of the handshake, reads
\* exactly one envelope and expects a tracing id in either direction.
ParseRawEnvelope(b, c) ==
    IF Len(b) < ENVELOPE_HEADER_LEN THEN NotEnoughBytes
    ELSE IF VersionOf(b[1]) \notin Versions \/ ~OpcodeKnown(b[5]) THEN ParseError("General")
    ELSE IF Len(b) < EnvelopeLen(b) THEN NotEnoughBytes
    ELSE LET flags == FlagsOf(b[2])
         IN ParseBody(b, flags, FullBody(b, flags, c), "TRACING" \in flags)

=============================================================================
