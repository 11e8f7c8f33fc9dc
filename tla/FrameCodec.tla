------------------------------ MODULE FrameCodec ------------------------------
(***************************************************************************)
(* One direction of a connection after the handshake: envelopes are put    *)
(* into frames (frame/frame_encoder.rs, driven by start_writing of         *)
(* cdrs-tokio/src/transport.rs), travel as bytes that arrive in pieces of  *)
(* any size, and are taken out again (frame/frame_decoder.rs, driven by    *)
(* start_reading_normal_frames).                                           *)
(*                                                                         *)
(* A byte on the wire is a record: its value, and, in the first byte of a  *)
(* checksum, the bytes that were summed (crc24 and crc32 are taken to tell *)
(* different bytes apart).                                                 *)
(***************************************************************************)
EXTENDS Envelope

CONSTANTS
    PAYLOAD_SIZE_LIMIT,     \* 2^17 in the code; a power of two
    Envelopes,              \* what may be sent
    ReadSizes,              \* bound: sizes of a read that does not take everything
    MaxSent,                \* bound: envelopes sent on the connection
    MaxDamaged              \* bound: bytes damaged on the way

ASSUME FrameAssumption ==
    /\ PAYLOAD_SIZE_LIMIT \in Nat /\ PAYLOAD_SIZE_LIMIT > 1
    /\ MaxSent \in Nat /\ MaxDamaged \in Nat

UNCOMPRESSED_FRAME_HEADER_LENGTH == 6
COMPRESSED_FRAME_HEADER_LENGTH == 8
FRAME_TRAILER_LENGTH == 4

VARIABLES
    codec,          \* "Legacy", "Uncompressed" or "Lz4"
    compression,    \* what the connection was configured with
    encoder,        \* payload of the frame being filled
    large,          \* rest of the envelope being sent in parts
    wire,           \* bytes on their way
    frame_buffer, payload_buffer, expected_payload_len,     \* decoder
    status,         \* "ok", or why reading ended
    damaged,        \* bytes damaged so far
    sent, received  \* envelopes given to the encoder and by the decoder

encVars == <<encoder, large>>
decVars == <<frame_buffer, payload_buffer, expected_payload_len>>
vars == <<codec, compression, encVars, wire, decVars, status, damaged, sent, received>>

\* ProtocolFrameEncodingFactory; since version 5 only lz4 is supported.
CodecFor(version, c) == IF version < 5 THEN "Legacy"
                        ELSE IF c = "Lz4" THEN "Lz4" ELSE "Uncompressed"

NoLength == -1

-----------------------------------------------------------------------------
(***************************************************************************)
(* The encoders.                                                           *)
(***************************************************************************)
Byte(n) == [v |-> n, sum |-> <<>>]
Raw(b) == [i \in DOMAIN b |-> Byte(b[i])]
Values(cells) == [i \in DOMAIN cells |-> cells[i].v]

\* A checksum of length n over b.
Crc(b, n) == [i \in 1..n |-> [v |-> 0, sum |-> IF i = 1 THEN b ELSE <<>>]]

\* Little-endian numbers.
Le(n, bytes) ==
    Iterate(LAMBDA acc : [low |-> Append(acc.low, acc.high % 256), high |-> acc.high \div 256],
            bytes, [low |-> <<>>, high |-> n]).low
FromLe(b) ==
    Iterate(LAMBDA acc : [n |-> acc.n * 256 + b[acc.i], i |-> acc.i - 1],
            Len(b), [n |-> 0, i |-> Len(b)]).n

\* write_header and add_trailer; the flag sits above the length bits.
UncompressedFrame(payload, self_contained) ==
    LET header == Le(Len(payload) + (IF self_contained THEN PAYLOAD_SIZE_LIMIT ELSE 0), 3)
    IN Raw(header) \o Crc(header, 3) \o Raw(payload) \o Crc(payload, FRAME_TRAILER_LENGTH)

Lz4Frame(payload, uncompressed_size, self_contained) ==
    LET header == Le(Len(payload) + uncompressed_size * PAYLOAD_SIZE_LIMIT
                     + (IF self_contained THEN PAYLOAD_SIZE_LIMIT * PAYLOAD_SIZE_LIMIT ELSE 0), 5)
    IN Raw(header) \o Crc(header, 3) \o Raw(payload) \o Crc(payload, FRAME_TRAILER_LENGTH)

\* Faulty variant: the limit itself is taken to fit.
CanFitLimit(kind, buffered, n) ==
    CASE kind = "Legacy"       -> buffered = 0
      [] kind = "Uncompressed" -> buffered + n <= PAYLOAD_SIZE_LIMIT
      [] kind = "Lz4"          -> MaxOutputSize(buffered + n) <= PAYLOAD_SIZE_LIMIT

CanFit(kind, buffered, n) ==
    CASE kind = "Legacy"       -> buffered = 0
      [] kind = "Uncompressed" -> buffered + n < PAYLOAD_SIZE_LIMIT
      [] kind = "Lz4"          -> MaxOutputSize(buffered + n) < PAYLOAD_SIZE_LIMIT

FinalizeSelfContained(kind, payload) ==
    CASE kind = "Legacy"       -> Raw(payload)
      [] kind = "Uncompressed" -> UncompressedFrame(payload, TRUE)
      [] kind = "Lz4"          -> Lz4Frame(Compress(payload), Len(payload), TRUE)

\* How much of an envelope goes into the next frame, and that frame.
PartSize(n) == IF n < PAYLOAD_SIZE_LIMIT THEN n ELSE PAYLOAD_SIZE_LIMIT - 1

FinalizeNonSelfContained(kind, data) ==
    LET part == SubSeq(data, 1, PartSize(Len(data)))
        small == Compress(part)
    IN IF kind = "Uncompressed" THEN UncompressedFrame(part, FALSE)
       ELSE IF Len(small) >= PAYLOAD_SIZE_LIMIT THEN Lz4Frame(part, 0, FALSE)
       ELSE Lz4Frame(small, Len(part), FALSE)

-----------------------------------------------------------------------------
(***************************************************************************)
(* The decoders.                                                           *)
(***************************************************************************)
\* extract_envelopes: the envelopes at the front of b, and what they took.
ExtractEnvelopes(b, c) ==
    Iterate(LAMBDA acc :
                 IF acc.done THEN acc
                 ELSE LET r == FromBuffer(Rest(b, acc.pos), c)
                      IN CASE r.result = "NotEnoughBytes" -> [acc EXCEPT !.done = TRUE]
                           [] r.result = "Err" -> [acc EXCEPT !.done = TRUE, !.ok = FALSE]
                           [] r.result = "Ok"  -> [acc EXCEPT !.pos = @ + r.len,
                                                   !.envelopes = Append(@, r.envelope)],
            Len(b) \div ENVELOPE_HEADER_LEN + 1,
            [pos |-> 0, envelopes |-> <<>>, done |-> FALSE, ok |-> TRUE])

\* A frame is not there yet, is refused, or is taken off the buffer.
Incomplete == [result |-> "None"]
Refused == [result |-> "Err"]
Frame(self_contained, payload, rest) ==
    [result |-> "Some", self_contained |-> self_contained, payload |-> payload, rest |-> rest]

\* The n bytes after from..to are the checksum of these.
Checked(cells, from, to, n) ==
    SubSeq(cells, to + 1, to + n) = Crc(Values(SubSeq(cells, from, to)), n)

TryDecodeUncompressed(b) ==
    LET H == UNCOMPRESSED_FRAME_HEADER_LENGTH
        header == FromLe(Values(SubSeq(b, 1, 3)))
        end == H + (header % PAYLOAD_SIZE_LIMIT)
    IN IF Len(b) < H THEN Incomplete
       ELSE IF ~Checked(b, 1, 3, 3) THEN Refused
       ELSE IF Len(b) < end + FRAME_TRAILER_LENGTH THEN Incomplete
       ELSE IF ~Checked(b, H + 1, end, FRAME_TRAILER_LENGTH) THEN Refused
       ELSE Frame((header \div PAYLOAD_SIZE_LIMIT) % 2 = 1, Values(SubSeq(b, H + 1, end)),
                  Rest(b, end + FRAME_TRAILER_LENGTH))

TryDecodeLz4(b) ==
    LET H == COMPRESSED_FRAME_HEADER_LENGTH
        header == FromLe(Values(SubSeq(b, 1, 5)))
        end == H + (header % PAYLOAD_SIZE_LIMIT)
        uncompressed == (header \div PAYLOAD_SIZE_LIMIT) % PAYLOAD_SIZE_LIMIT
        payload == Values(SubSeq(b, H + 1, end))
        plain == IF uncompressed = 0 THEN payload ELSE Decompress(payload, uncompressed)
    IN IF Len(b) < H THEN Incomplete
       ELSE IF ~Checked(b, 1, 5, 3) THEN Refused
       ELSE IF Len(b) < end + FRAME_TRAILER_LENGTH THEN Incomplete
       ELSE IF ~Checked(b, H + 1, end, FRAME_TRAILER_LENGTH) THEN Refused
       ELSE IF plain = Failed THEN Refused
       ELSE Frame((header \div (PAYLOAD_SIZE_LIMIT * PAYLOAD_SIZE_LIMIT)) % 2 = 1, plain,
                  Rest(b, end + FRAME_TRAILER_LENGTH))

TryDecodeFrame(kind, b) == IF kind = "Lz4" THEN TryDecodeLz4(b) ELSE TryDecodeUncompressed(b)

\* Faulty variant: the buffer is not cleared after an envelope was taken.
ExtractAgain(d) ==
    LET r == ExtractEnvelopes(d.payload, "None")
    IN IF ~r.ok THEN [d EXCEPT !.ok = FALSE] ELSE [d EXCEPT !.envelopes = @ \o r.envelopes]

\* extract_non_self_contained_envelopes: once a length is known it is kept.
ExtractNonSelfContained(d) ==
    LET known == d.expected # NoLength \/ Len(d.payload) >= ENVELOPE_HEADER_LEN
        expected == IF d.expected # NoLength THEN d.expected ELSE BodyLen(d.payload)
        r == ExtractEnvelopes(d.payload, "None")
    IN IF ~known THEN d
       ELSE IF Len(d.payload) < expected THEN [d EXCEPT !.expected = expected]
       ELSE IF ~r.ok THEN [d EXCEPT !.expected = expected, !.ok = FALSE]
       ELSE [d EXCEPT !.expected = expected, !.payload = <<>>,
                      !.envelopes = @ \o r.envelopes]

HandleFrame(d, frame) ==
    LET r == ExtractEnvelopes(frame.payload, "None")
    IN IF ~frame.self_contained
       THEN ExtractNonSelfContained([d EXCEPT !.payload = @ \o frame.payload])
       ELSE IF d.payload # <<>> \/ ~r.ok THEN [d EXCEPT !.ok = FALSE]
       ELSE [d EXCEPT !.envelopes = @ \o r.envelopes]

\* Faulty variant: one frame for every call.
ConsumeFirst(kind, data) ==
    LET d == [frame |-> frame_buffer \o data, payload |-> payload_buffer,
              expected |-> expected_payload_len, envelopes |-> <<>>, ok |-> TRUE]
        t == TryDecodeFrame(kind, d.frame)
    IN IF t.result = "None" THEN d
       ELSE IF t.result = "Err" THEN [d EXCEPT !.ok = FALSE]
       ELSE HandleFrame([d EXCEPT !.frame = t.rest], t)

\* GenericFrameDecoder::consume: as many frames as the bytes hold.
ConsumeFrames(kind, data) ==
    Iterate(LAMBDA d :
                 LET t == TryDecodeFrame(kind, d.frame)
                 IN IF ~d.ok \/ d.frame = <<>> \/ t.result = "None" THEN d
                    ELSE IF t.result = "Err" THEN [d EXCEPT !.ok = FALSE]
                    ELSE HandleFrame([d EXCEPT !.frame = t.rest], t),
            Len(frame_buffer \o data) \div UNCOMPRESSED_FRAME_HEADER_LENGTH + 1,
            [frame |-> frame_buffer \o data, payload |-> payload_buffer,
             expected |-> expected_payload_len, envelopes |-> <<>>, ok |-> TRUE])

\* LegacyFrameDecoder::consume.
ConsumeLegacy(data) ==
    LET b == Values(frame_buffer \o data)
        r == ExtractEnvelopes(b, compression)
    IN [frame |-> Raw(Rest(b, r.pos)), payload |-> payload_buffer,
        expected |-> expected_payload_len, envelopes |-> r.envelopes, ok |-> r.ok]

Consume(data) == IF codec = "Legacy" THEN ConsumeLegacy(data) ELSE ConsumeFrames(codec, data)

-----------------------------------------------------------------------------
Init ==
    /\ \E version \in Versions, c \in Compressions :
           codec = CodecFor(version, c) /\ compression = c
    /\ encoder = <<>> /\ large = <<>> /\ wire = <<>>
    /\ frame_buffer = <<>> /\ payload_buffer = <<>> /\ expected_payload_len = NoLength
    /\ status = "ok" /\ damaged = 0 /\ sent = <<>> /\ received = <<>>

Data(e) == EncodeWith(e, compression)
Fits(e) == CanFit(codec, Len(encoder), Len(Data(e)))

\* The version of an envelope is the one the codec was chosen for.
Sendable(e) == /\ Len(sent) < MaxSent /\ large = <<>>
               /\ (e.version < 5) = (codec = "Legacy") /\ Encodable(e)

\* start_writing, one request: it is added to the frame being filled ...
AddEnvelope(e) ==
    /\ Sendable(e) /\ Fits(e)
    /\ encoder' = encoder \o Data(e)
    /\ sent' = Append(sent, e)
    /\ UNCHANGED <<codec, compression, large, wire, decVars, status, damaged, received>>

\* ... which is written when the next request does not fit, or none is there ...
WriteSelfContained ==
    /\ encoder # <<>> /\ large = <<>>
    /\ wire' = wire \o FinalizeSelfContained(codec, encoder)
    /\ encoder' = <<>>
    /\ UNCHANGED <<codec, compression, large, decVars, status, damaged, sent, received>>

\* ... or, with nothing in the frame, it is sent in parts of its own.
BeginLarge(e) ==
    /\ Sendable(e) /\ ~Fits(e) /\ encoder = <<>>
    /\ large' = Data(e)
    /\ sent' = Append(sent, e)
    /\ UNCHANGED <<codec, compression, encoder, wire, decVars, status, damaged, received>>

WriteNonSelfContained ==
    /\ large # <<>>
    /\ wire' = wire \o FinalizeNonSelfContained(codec, large)
    /\ large' = Rest(large, PartSize(Len(large)))
    /\ UNCHANGED <<codec, compression, encoder, decVars, status, damaged, sent, received>>

\* read_buf returns some of the bytes that have arrived (bound: all of them
\* once a byte is damaged).  An error of the decoder ends the connection.
Read ==
    /\ status = "ok" /\ wire # <<>>
    /\ \E n \in {Len(wire)} \cup (IF damaged = 0 THEN ReadSizes \cap 1..Len(wire) ELSE {}) :
         LET d == Consume(SubSeq(wire, 1, n))
         IN /\ wire' = Rest(wire, n)
            /\ IF d.ok
               THEN /\ frame_buffer' = d.frame /\ payload_buffer' = d.payload
                    /\ expected_payload_len' = d.expected
                    /\ received' = received \o d.envelopes /\ UNCHANGED status
               ELSE /\ status' = "failed" /\ UNCHANGED <<decVars, received>>
    /\ UNCHANGED <<codec, compression, encVars, damaged, sent>>

\* The next byte to be read changes on the way; frames before version 5 have
\* no checksum.
Damage ==
    /\ damaged < MaxDamaged /\ codec # "Legacy" /\ wire # <<>>
    /\ wire' = [wire EXCEPT ![1] = IF @.sum = <<>> THEN [@ EXCEPT !.v = (@ + 1) % 256]
                                                   ELSE [@ EXCEPT !.sum = Failed]]
    /\ damaged' = damaged + 1
    /\ UNCHANGED <<codec, compression, encVars, decVars, status, sent, received>>

Next ==
    \/ \E e \in Envelopes : AddEnvelope(e) \/ BeginLarge(e)
    \/ WriteSelfContained \/ WriteNonSelfContained \/ Read \/ Damage

Spec == Init /\ [][Next]_vars

-----------------------------------------------------------------------------
(***************************************************************************)
(* Properties.                                                             *)
(***************************************************************************)
\* Only the compression flag is the encoder's to set.
OnWire(e, c) == [e EXCEPT !.flags = WireFlags(e, c)]
Channel == INSTANCE EnvelopeChannel WITH
    Envelopes <- {OnWire(e, c) : e \in Envelopes, c \in Compressions},
    sent <- [i \in DOMAIN sent |-> OnWire(sent[i], compression)],
    broken <- status # "ok"

\* Framing is a channel: however the bytes are cut into reads, envelopes are
\* read whole, once and in order, and none is made of damaged bytes.
FramingIsAChannel == Channel!Spec

\* write_header's debug assertion: a payload is shorter than the limit, so its
\* length does not run into the self-contained flag of the header.
PayloadFits ==
    codec # "Legacy" =>
        /\ Len(encoder) < PAYLOAD_SIZE_LIMIT
        /\ codec = "Lz4" /\ encoder # <<>> => Len(Compress(encoder)) < PAYLOAD_SIZE_LIMIT

\* FrameDecoder::consume buffers data until envelopes can be parsed, and no
\* longer: once all bytes are read, every envelope sent has been received.
NothingIsLost ==
    status = "ok" /\ wire = <<>> /\ encoder = <<>> /\ large = <<>>
        => received = [i \in DOMAIN sent |-> OnWire(sent[i], compression)]

\* The three readers of an unframed envelope agree on what has arrived:
\* check_envelope_size waits for more bytes exactly when from_buffer does and
\* names the same length, and parse_raw_envelope makes the same response of it.
ReadersAgree ==
    LET b == Values(frame_buffer \o wire)
        full == FromBuffer(b, compression)
        size == CheckEnvelopeSize(b)
    IN codec = "Legacy" =>
           /\ (size = NotEnoughBytes) = (full = NotEnoughBytes)
           /\ full.result = "Ok" => size.result = "Ok" /\ size.len = full.len
           /\ full.result = "Ok" /\ full.envelope.direction = "Response"
                  => ParseRawEnvelope(b, compression) = full
=============================================================================
