--------------------------- MODULE StreamDecoder ---------------------------
(***************************************************************************)
(* The receiving end of the byte stream: the fixed buffer of               *)
(* StreamingDecoder (wire/codec/streaming.rs), and the loop of             *)
(* EngineState::receive_bytes (engine/state/ingress.rs) that feeds one     *)
(* chunk to it and then goes on feeding nothing until it asks for more.    *)
(* A call of receive is Receive followed by one step for every round of    *)
(* the loop.  What the engine does with a packet is left open but for its  *)
(* result.  PeerSlot drops its engine after an error; here the decoder may *)
(* be used again, as Engine::receive allows.                               *)
(***************************************************************************)
EXTENDS Envelope

CONSTANTS
    N,                \* MAX_INGRESS_BYTES: capacity of the buffer
    MAX_PACKET,       \* MAX_WIRE_BYTES: capacity of PacketBytes
    Chunks,           \* byte sequences an adapter may pass to receive
    MAX_STREAM,       \* bound: bytes passed to receive
    NoCall            \* no call of receive in progress

ASSUME StreamAssumption ==
    /\ N \in Nat
    /\ MAX_PACKET \in Nat
    /\ Chunks \subseteq Seq(Byte)
    /\ NoCall \notin Seq(Byte)

VARIABLES
    bytes,            \* StreamingDecoder::bytes up to len
    pending_consume,  \* StreamingDecoder::pending_consume
    input,            \* what the next feed of the call in progress appends
    report,           \* the report of the call in progress or of the last one
    stream,           \* all bytes passed to receive so far and not refused
    packets           \* all packets found in them, in order

decoderVars == <<bytes, pending_consume>>
vars == <<decoderVars, input, report, stream, packets>>

Reports == {"incomplete", "packet", "noise", "corrupted", "error"}

\* Types, and every index within the buffer: the slices of append, consume and
\* decode_buffer never panic.
TypeOK ==
    /\ bytes \in Seq(Byte) /\ Len(bytes) <= N
    /\ pending_consume \in 0 .. Len(bytes)
    /\ input \in Seq(Byte) \cup {NoCall}
    /\ report \in Reports
    /\ stream \in Seq(Byte)
    /\ packets \in Seq(Seq(Byte))

Init ==
    /\ bytes = <<>>
    /\ pending_consume = 0
    /\ input = NoCall
    /\ report = "incomplete"
    /\ stream = <<>>
    /\ packets = <<>>

-----------------------------------------------------------------------------

Receive(chunk) ==
    /\ input = NoCall
    /\ Len(stream) + Len(chunk) <= MAX_STREAM
    /\ input' = chunk
    /\ report' = "incomplete"
    /\ stream' = stream \o chunk
    /\ UNCHANGED <<decoderVars, packets>>

\* The bytes of the envelope decoded last stay in the buffer until the next feed.
Kept == Consume(bytes, pending_consume)

\* What feed looks at, once consume_pending and append are done.
Fed == Kept \o input

\* Faulty variant: one byte too many.
FitsOneMore(s) == Len(s) <= N + 1

Fits(s) == Len(s) <= N

\* Faulty variant: the buffer is cleared as well.
FeedTooLongCleared ==
    /\ input # NoCall
    /\ ~Fits(Fed)
    /\ bytes' = <<>>
    /\ pending_consume' = 0
    /\ input' = NoCall
    /\ report' = "error"
    /\ stream' = SubSeq(stream, 1, Len(stream) - Len(input))
    /\ UNCHANGED packets

\* append refuses a chunk that does not fit, and none of it is stored.
FeedTooLong ==
    /\ input # NoCall
    /\ ~Fits(Fed)
    /\ bytes' = Kept
    /\ pending_consume' = 0
    /\ input' = NoCall
    /\ report' = "error"
    /\ stream' = SubSeq(stream, 1, Len(stream) - Len(input))
    /\ UNCHANGED packets

\* A feed that ends with the buffer holding s, of which the next feed drops n
\* bytes; the loop goes on.
FeedGoesOn(s, n) ==
    /\ bytes' = s
    /\ pending_consume' = n
    /\ input' = <<>>
    /\ UNCHANGED stream

\* find_magic: the first magic of s, if there is one, comes after n bytes.
find_magic(s, n) ==
    /\ \A i \in 1 .. n : s[i] # MAGIC
    /\ n < Len(s) => s[n + 1] = MAGIC

FeedNoise ==
    /\ input # NoCall
    /\ Fits(Fed)
    /\ \E n \in 1 .. Len(Fed) : find_magic(Fed, n) /\ FeedGoesOn(Consume(Fed, n), 0)
    /\ report' = "noise"
    /\ UNCHANGED packets

\* The buffer starts with a magic.
Aligned == input # NoCall /\ Fits(Fed) /\ Fed # <<>> /\ Fed[1] = MAGIC

\* Faulty variant: the bad magic stays.
FeedResyncInPlace ==
    /\ Aligned
    /\ Len(Fed) >= WIRE_HEADER_LEN
    /\ ~HasHeader(Fed) \/ total_len(Fed) > N
    /\ FeedGoesOn(Fed, 0)
    /\ report' = "noise"
    /\ UNCHANGED packets

\* A header that fails its CRC, or announces more than the buffer can hold.
FeedResync ==
    /\ Aligned
    /\ Len(Fed) >= WIRE_HEADER_LEN
    /\ ~HasHeader(Fed) \/ total_len(Fed) > N
    /\ FeedGoesOn(Consume(Fed, 1), 0)
    /\ report' = "noise"
    /\ UNCHANGED packets

\* Faulty variant: an envelope longer than the buffer is waited for.
WaitsBeyond(s) ==
    s # <<>> =>
        /\ s[1] = MAGIC
        /\ \/ Len(s) < WIRE_HEADER_LEN
           \/ HasHeader(s) /\ Len(s) < total_len(s)

\* Waiting: for anything, for a header, or for the rest of the candidate.
Waits(s) ==
    s # <<>> =>
        /\ s[1] = MAGIC
        /\ \/ Len(s) < WIRE_HEADER_LEN
           \/ HasHeader(s) /\ Len(s) < total_len(s) /\ total_len(s) <= N

\* NeedMore ends the call; the report is that of the last round before it.
FeedNeedMore ==
    /\ input # NoCall
    /\ Fits(Fed)
    /\ Waits(Fed)
    /\ bytes' = Fed
    /\ pending_consume' = 0
    /\ input' = NoCall
    /\ UNCHANGED <<report, stream, packets>>

Complete == Aligned /\ HasHeader(Fed) /\ total_len(Fed) <= Len(Fed)

\* Faulty variant: everything buffered is given up with the bad candidate.
FeedCorruptedAll ==
    /\ Complete
    /\ ~verify(Fed)
    /\ FeedGoesOn(Fed, Len(Fed))
    /\ report' = "corrupted"
    /\ UNCHANGED packets

FeedCorrupted ==
    /\ Complete
    /\ ~verify(Fed)
    /\ FeedGoesOn(Fed, total_len(Fed))
    /\ report' = "corrupted"
    /\ UNCHANGED packets

\* The engine takes the packet; it may find it malformed all the same.
FeedPacket ==
    /\ Complete
    /\ verify(Fed)
    /\ Len(PacketIn(Fed)) <= MAX_PACKET
    /\ FeedGoesOn(Fed, total_len(Fed))
    /\ report' \in {"packet", "corrupted"}
    /\ packets' = Append(packets, PacketIn(Fed))

\* The packet does not fit PacketBytes, or the engine reports an error: the
\* call ends with the rest of the chunk still in the buffer.
FeedPacketError ==
    /\ Complete
    /\ verify(Fed)
    /\ bytes' = Fed
    /\ pending_consume' = total_len(Fed)
    /\ input' = NoCall
    /\ report' = "error"
    /\ packets' = Append(packets, PacketIn(Fed))
    /\ UNCHANGED stream

Feed ==
    \/ FeedTooLong
    \/ FeedNoise
    \/ FeedResync
    \/ FeedNeedMore
    \/ FeedCorrupted
    \/ FeedPacket
    \/ FeedPacketError

Next == (\E chunk \in Chunks : Receive(chunk)) \/ Feed

Spec == Init /\ [][Next]_vars

\* The loop of receive_bytes runs until it returns.
FairSpec == Spec /\ WF_vars(Feed)

-----------------------------------------------------------------------------
(* Properties *)

\* The bytes that arrived and were not taken yet.
Rest == IF input = NoCall THEN Kept ELSE Fed

Promise == INSTANCE Framing WITH
    MAX_ENVELOPE <- N,
    rest <- Rest,
    fresh <- IF input = NoCall THEN 0 ELSE Len(input)

\* The decoder and the receive loop implement what the wire layer promises of
\* the stream (module Framing): whatever the chunks, no byte is skipped, taken
\* twice or given up that the promise does not allow, although decoded bytes
\* stay in the buffer until the next feed, and an error may end a call between
\* the two or leave whole envelopes behind.
ImplementsFraming == Promise!Spec

\* No envelope a receiver waits for is longer than n bytes.
IsLongest(n) == n = N \/ \A b \in Byte : WIRE_HEADER_LEN + b + TAG_LEN <= n

\* A call that ends without an error leaves less than one envelope in the
\* buffer, so append takes every later chunk that leaves room for an envelope
\* less one byte, and single bytes always: noise, headers that announce too
\* much and corrupted candidates never use up the capacity.
LeftoverShort ==
    \A n \in WIRE_HEADER_LEN .. N :
        (IsLongest(n) /\ input = NoCall /\ report # "error") => Len(Kept) < n

\* A call of receive returns: every round of its loop takes at least one byte
\* for good, or is the last.
CallReturns == (input # NoCall) ~> (input = NoCall)
=============================================================================
