--------------------------- MODULE EnvelopeChannel ---------------------------
(***************************************************************************)
(* What framing promises (the traits FrameEncoder and FrameDecoder of      *)
(* cassandra-protocol/src/frame): the envelopes written on a connection    *)
(* are read from it whole, once, and in the order they were written, some  *)
(* at a time, until the connection fails.                                  *)
(***************************************************************************)
EXTENDS Sequences, SequencesExt

CONSTANT Envelopes

VARIABLES sent, received, broken

Init == sent = <<>> /\ received = <<>> /\ broken = FALSE

Send == \E e \in Envelopes :
    sent' = Append(sent, e) /\ UNCHANGED <<received, broken>>

\* One read delivers any number of the envelopes on their way.
Receive ==
    /\ ~broken
    /\ \E n \in 1..Len(sent) : received' = SubSeq(sent, 1, n)
    /\ IsStrictPrefix(received, received')
    /\ UNCHANGED <<sent, broken>>

Break == broken' = TRUE /\ UNCHANGED <<sent, received>>

Next == Send \/ Receive \/ Break

Spec == Init /\ [][Next]_<<sent, received, broken>>
=============================================================================
