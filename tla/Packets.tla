------------------------------ MODULE Packets ------------------------------
(***************************************************************************)
(* Packets, packet keys, message identifiers and fragmentation: what       *)
(* engine/codec/outgoing.rs builds and engine/codec/packet.rs decodes.     *)
(* A message is its length in bytes and the identity of its content (a     *)
(* member of Bodies); a fragment carries the range of bytes it covers.     *)
(***************************************************************************)
EXTENDS Naturals

CONSTANTS
    FRAGMENT_BYTES,      \* EngineConfig::fragment_bytes after clamping
    MAX_MESSAGE_BYTES,   \* longest message a session accepts
    ID_MULTIPLIER,       \* MESSAGE_ID_MULTIPLIER of the message id generator
    ID_INCREMENT,        \* MESSAGE_ID_INCREMENT of the message id generator
    ID_MODULUS,          \* 2^32 in the code
    Bodies               \* identities of message contents

ASSUME PacketsAssumption ==
    /\ FRAGMENT_BYTES \in Nat \ {0}
    /\ MAX_MESSAGE_BYTES \in Nat
    /\ ID_MULTIPLIER \in Nat
    /\ ID_INCREMENT \in Nat
    /\ ID_MODULUS \in Nat \ {0}

MessageId == 0 .. ID_MODULUS - 1
PacketKey == MessageId \X Nat

\* Faulty variant: the generator's arithmetic does not wrap.
alloc_message_id_unwrapped(state) == state * ID_MULTIPLIER + ID_INCREMENT

\* NumberState::alloc_message_id: the generator steps, then its state is the id.
alloc_message_id(state) == (state * ID_MULTIPLIER + ID_INCREMENT) % ID_MODULUS

MessageTypes == {"data", "log"}

\* A fragment that reaches past the end of its message is malformed.
Fragment ==
    {f \in [type: MessageTypes, id: MessageId, index: Nat, len: Nat, offset: Nat,
            size: Nat, ack_eliciting: BOOLEAN, body: Bodies] : f.offset + f.size <= f.len}
AckPacket == [type: {"ack"}, id: MessageId, index: Nat]
Ping == [type |-> "ping"]
Pong == [type |-> "pong"]
Packet == Fragment \cup AckPacket \cup {Ping, Pong}

\* Both liveness packets are queued under the key (MessageId::ZERO, PacketIndex::ZERO).
LivenessKey == <<0, 0>>
KeyOf(packet) == <<packet.id, packet.index>>
AckFor(key) == [type |-> "ack", id |-> key[1], index |-> key[2]]

\* An empty message still takes one packet.
fragment_count(len) ==
    IF len = 0 THEN 1 ELSE (len + FRAGMENT_BYTES - 1) \div FRAGMENT_BYTES

\* Where the fragment that starts at offset ends.
FragmentEnd(offset, len) ==
    IF offset + FRAGMENT_BYTES < len THEN offset + FRAGMENT_BYTES ELSE len

\* Only Data, which is sent in reliable mode, asks for an ACK.
FragmentAt(type, id, body, len, offset, index) ==
    [type |-> type, id |-> id, index |-> index, len |-> len, offset |-> offset,
     size |-> FragmentEnd(offset, len) - offset,
     ack_eliciting |-> type = "data", body |-> body]
=============================================================================
