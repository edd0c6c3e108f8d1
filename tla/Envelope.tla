------------------------------ MODULE Envelope ------------------------------
(***************************************************************************)
(* The wire envelope that carries one packet on the byte stream:           *)
(*                                                                         *)
(*     magic | packet_len | CRC-8 of packet_len | packet | integrity tag   *)
(*                                                                         *)
(* Bytes are small numbers; the two check functions are parameters, so     *)
(* every statement holds for each of the integrity backends.               *)
(***************************************************************************)
EXTENDS Naturals, Sequences

CONSTANTS
    Byte,             \* 0 .. 255 in the code
    MAGIC,            \* EnvelopeMagic::MSRT
    TAG_LEN,          \* Integrity::tag_len
    header_crc(_),    \* CRC-8 of a length byte
    Seal(_)           \* Integrity::seal: the tag of a byte sequence

ASSUME EnvelopeAssumption ==
    /\ Byte \subseteq Nat
    /\ MAGIC \in Byte
    /\ TAG_LEN \in Nat
    /\ \A b \in Byte : header_crc(b) \in Byte

WIRE_HEADER_LEN == 3

\* What is left of s when its first n bytes are gone.
Consume(s, n) == SubSeq(s, n + 1, Len(s))

\* encode_message_fragment, encode_ack_packet and encode_liveness_packet all
\* wrap the packet this way.
Encode(packet) ==
    LET head == <<MAGIC, Len(packet), header_crc(Len(packet))>>
    IN  head \o packet \o Seal(head \o packet)

\* Faulty variant: the tag is not counted.
total_len_untagged(s) == WIRE_HEADER_LEN + s[2]

\* EnvelopeHeader::total_len of the envelope s starts with.
total_len(s) == WIRE_HEADER_LEN + s[2] + TAG_LEN

\* s starts with a header that may be believed.
HasHeader(s) ==
    /\ Len(s) >= WIRE_HEADER_LEN
    /\ s[1] = MAGIC
    /\ s[3] = header_crc(s[2])

\* Integrity::verify of the envelope s starts with, which is complete.
verify(s) ==
    LET tagged == total_len(s) - TAG_LEN
    IN  Seal(SubSeq(s, 1, tagged)) = SubSeq(s, tagged + 1, total_len(s))

PacketIn(s) == SubSeq(s, WIRE_HEADER_LEN + 1, WIRE_HEADER_LEN + s[2])
=============================================================================
