------------------------------ MODULE Framing ------------------------------
(***************************************************************************)
(* What the wire layer promises of the byte stream, with no buffer, no     *)
(* capacity of its own and no regard to how the bytes were cut into calls  *)
(* (architectures/wire.md): bytes are taken from the front of the stream   *)
(* only, in order, and each only once; a packet comes out for every        *)
(* envelope that is whole; and nothing else is thrown away than bytes      *)
(* before a magic, the magic of a header that is not believed, and a whole *)
(* candidate whose tag is wrong.                                           *)
(***************************************************************************)
EXTENDS Envelope

CONSTANT
    MAX_ENVELOPE      \* longest envelope the receiver waits for

VARIABLES
    rest,             \* bytes that arrived and were not taken yet
    fresh,            \* how many of them came last and were not looked at
    packets           \* packets recovered so far, in order

vars == <<rest, fresh, packets>>

Init ==
    /\ rest = <<>>
    /\ fresh = 0
    /\ packets = <<>>

\* rest starts with a complete candidate.
Candidate ==
    /\ HasHeader(rest)
    /\ total_len(rest) <= MAX_ENVELOPE
    /\ total_len(rest) <= Len(rest)

Arrive ==
    /\ rest' \in Seq(Byte)
    /\ Len(rest') >= Len(rest)
    /\ SubSeq(rest', 1, Len(rest)) = rest
    /\ fresh' = Len(rest') - Len(rest)
    /\ UNCHANGED packets

\* The first n bytes are done with.
Take(n) ==
    /\ rest' = Consume(rest, n)
    /\ fresh' = 0

\* No envelope can start in the first n bytes.
SkipNoise(n) ==
    /\ \A i \in 1 .. n : rest[i] # MAGIC
    /\ Take(n)
    /\ UNCHANGED packets

SkipMagic ==
    /\ Len(rest) >= WIRE_HEADER_LEN
    /\ rest[1] = MAGIC
    /\ ~HasHeader(rest) \/ total_len(rest) > MAX_ENVELOPE
    /\ Take(1)
    /\ UNCHANGED packets

SkipCorrupted ==
    /\ Candidate
    /\ ~verify(rest)
    /\ Take(total_len(rest))
    /\ UNCHANGED packets

Recover ==
    /\ Candidate
    /\ verify(rest)
    /\ Take(total_len(rest))
    /\ packets' = Append(packets, PacketIn(rest))

\* The receiver has looked and waits for more.
Wait ==
    /\ fresh' = 0
    /\ UNCHANGED <<rest, packets>>

\* The bytes that came last are refused, and none of them is kept.
Refuse ==
    /\ rest' = SubSeq(rest, 1, Len(rest) - fresh)
    /\ fresh' = 0
    /\ UNCHANGED packets

Next ==
    \/ Arrive
    \/ \E n \in 1 .. Len(rest) : SkipNoise(n)
    \/ SkipMagic
    \/ SkipCorrupted
    \/ Recover
    \/ Wait
    \/ Refuse

Spec == Init /\ [][Next]_vars
=============================================================================
