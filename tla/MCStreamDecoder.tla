-------------------------- MODULE MCStreamDecoder --------------------------
(* The stream decoder over two or three byte values, for TLC: any of them may
   stand for the magic, a length, a check value or payload. *)
EXTENDS StreamDecoder, SequencesExt

CONSTANT ChunkLens

MCHeaderCrc(b) == (b + 1) % Cardinality(Byte)
MCSeal(s) == <<FoldSeq(LAMBDA x, y : x + y, 1, s) % Cardinality(Byte)>>
MCChunks == UNION {[1 .. n -> Byte] : n \in ChunkLens}

\* The packets of a whole stream, decoded at one go with no buffer.
RECURSIVE PacketsOf(_)
PacketsOf(s) ==
    IF Waits(s) THEN <<>>
    ELSE IF ~HasHeader(s) \/ total_len(s) > N THEN PacketsOf(Tail(s))
    ELSE IF verify(s) THEN <<PacketIn(s)>> \o PacketsOf(Consume(s, total_len(s)))
    ELSE PacketsOf(Consume(s, total_len(s)))

\* How the stream is cut into calls of receive makes no difference: when a
\* call ends without an error the packets found are those of the whole stream,
\* refused chunks left out and errors in earlier calls notwithstanding.
ChunkingIrrelevant ==
    (input = NoCall /\ report # "error") => packets = PacketsOf(stream)

\* The streams of up to two envelopes with nothing in between, by the packets
\* they carry.
CleanStream ==
    [ps \in BoundedSeq(BoundedSeq(Byte, MAX_PACKET), 2) |->
        FlattenSeq([i \in DOMAIN ps |-> Encode(ps[i])])]

\* The receiver finds exactly the packets the sender's encoder put into a stream
\* of envelopes, however it is cut and whatever the payload looks like.
CleanStreamKept ==
    (input = NoCall /\ report # "error") =>
        \A ps \in DOMAIN CleanStream : CleanStream[ps] = stream => packets = ps
=============================================================================
