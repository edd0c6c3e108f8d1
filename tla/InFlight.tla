------------------------------ MODULE InFlight ------------------------------
(***************************************************************************)
(* The in-flight packet table of an engine                                 *)
(* (engine/state/recovery/inflight.rs): MAX_IN_FLIGHT slots and the        *)
(* counter len kept beside them.                                           *)
(*                                                                         *)
(* Time: the code stores last_sent_ms and only ever uses                   *)
(* now_ms - last_sent_ms compared with the timeout.  The model stores that *)
(* difference, taken at the engine's clock, as age, and stops counting at  *)
(* RTO.                                                                    *)
(***************************************************************************)
EXTENDS Naturals, FiniteSets, Packets

CONSTANTS
    MAX_IN_FLIGHT,           \* MAX_IN_FLIGHT_PACKETS
    MAX_ATTEMPTS,            \* EngineConfig::max_retransmit_attempts
    RTO,                     \* EngineConfig::retransmit_timeout_ms
    None                     \* an empty slot

Slots == 1 .. MAX_IN_FLIGHT

InFlightPacket == [key: PacketKey, packet: Fragment, attempts: Nat,
                   age: 0 .. RTO, sent: BOOLEAN]

ASSUME InFlightAssumption ==
    /\ MAX_IN_FLIGHT \in Nat \ {0}
    /\ MAX_ATTEMPTS \in Nat
    /\ RTO \in Nat
    /\ None \notin InFlightPacket

EmptyInFlight == [i \in Slots |-> None]

Occupied(t) == {i \in Slots : t[i] # None}

HoldsKey(t, key) == \E i \in Slots : t[i] # None /\ t[i].key = key

First(S) == CHOOSE i \in S : \A j \in S : i <= j

SlotsOfKey(t, key) == {i \in Occupied(t) : t[i].key = key}

SlotOfKey(t, key) == First(SlotsOfKey(t, key))

FirstFree(t) == First(Slots \ Occupied(t))

TrackFails(t, key) == ~HoldsKey(t, key) /\ Occupied(t) = Slots

\* InFlightPackets::track: same key replaced in place, else the first free slot.
track(t, packet) ==
    IF HoldsKey(t, packet.key) THEN [t EXCEPT ![SlotOfKey(t, packet.key)] = packet]
    ELSE IF Occupied(t) = Slots THEN t
    ELSE [t EXCEPT ![FirstFree(t)] = packet]

TrackedLen(t, len, key) ==
    IF HoldsKey(t, key) \/ Occupied(t) = Slots THEN len ELSE len + 1

\* usize::saturating_sub
SaturatingSub(m, n) == IF m >= n THEN m - n ELSE 0

\* Faulty variant: the packet is looked up by its index alone.
apply_ack_by_index(t, key) ==
    [i \in Slots |-> IF t[i] # None /\ t[i].key[2] = key[2] THEN None ELSE t[i]]

apply_ack(t, key) ==
    IF HoldsKey(t, key) THEN [t EXCEPT ![SlotOfKey(t, key)] = None] ELSE t

\* Faulty variant: the counter drops for every ACK, known key or not.
AckedLenAlways(t, len, key) == SaturatingSub(len, 1)

AckedLen(t, len, key) == IF HoldsKey(t, key) THEN SaturatingSub(len, 1) ELSE len

SlotsOfMessage(t, id) == {i \in Occupied(t) : t[i].packet.id = id}

remove_message(t, id) ==
    [i \in Slots |-> IF i \in SlotsOfMessage(t, id) THEN None ELSE t[i]]

RemovedLen(t, len, id) == SaturatingSub(len, Cardinality(SlotsOfMessage(t, id)))

Transmitted(packet) == [packet EXCEPT !.sent = TRUE, !.age = 0]

Retransmitted(packet) ==
    [packet EXCEPT !.sent = TRUE, !.age = 0, !.attempts = packet.attempts + 1]

note_sent(t, key) ==
    IF HoldsKey(t, key) THEN [t EXCEPT ![SlotOfKey(t, key)] = Transmitted(@)] ELSE t

\* Faulty variant: a retransmission is not counted as an attempt.
note_retransmit_uncounted(t, key) == note_sent(t, key)

note_retransmit_sent(t, key) ==
    IF HoldsKey(t, key) THEN [t EXCEPT ![SlotOfKey(t, key)] = Retransmitted(@)] ELSE t

\* delta milliseconds pass on the engine's clock.
Aged(t, delta) ==
    [i \in Slots |->
        IF t[i] = None THEN None
        ELSE [t[i] EXCEPT !.age = IF @ + delta > RTO THEN RTO ELSE @ + delta]]

\* The slots whose packet was sent and has been silent for a whole RTO.
Due(t) == {i \in Occupied(t) : t[i].sent /\ t[i].age >= RTO}

\* Faulty variant: one attempt too many.
ExhaustedLate(t) == {i \in Due(t) : t[i].attempts > MAX_ATTEMPTS}

Exhausted(t) == {i \in Due(t) : t[i].attempts >= MAX_ATTEMPTS}

FailedMessages(t) == {t[i].packet.id : i \in Exhausted(t)}

\* Faulty variant: the packets of messages that are about to fail are not skipped.
RetransmittableAny(t) == Due(t) \ Exhausted(t)

Retransmittable(t) ==
    {i \in Due(t) \ Exhausted(t) : t[i].packet.id \notin FailedMessages(t)}

UniqueKeys(t) == \A i, j \in Occupied(t) : t[i].key = t[j].key => i = j
=============================================================================
