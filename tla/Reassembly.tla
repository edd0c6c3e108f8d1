----------------------------- MODULE Reassembly -----------------------------
(***************************************************************************)
(* Message reassembly (engine/state/reassembly.rs).  A slot's received     *)
(* flags and bytes are one partial function from offsets to the content    *)
(* they came from.  age is the engine clock minus updated_at_ms: a slot    *)
(* that survives expire is younger than REASSEMBLY_TIMEOUT, so the         *)
(* difference is never cut off.                                            *)
(***************************************************************************)
EXTENDS Naturals, Packets

CONSTANTS
    MAX_REASSEMBLY,          \* MAX_REASSEMBLY_MESSAGES
    REASSEMBLY_TIMEOUT,      \* EngineConfig::reassembly_timeout_ms
    Inactive                 \* a slot that holds no message

ReassemblySlots == 1 .. MAX_REASSEMBLY

Offsets == 0 .. MAX_MESSAGE_BYTES - 1
Content == UNION {[S -> Bodies] : S \in SUBSET Offsets}

ReassemblySlot ==
    [type: MessageTypes, id: MessageId, expected_len: 0 .. MAX_MESSAGE_BYTES,
     age: 0 .. REASSEMBLY_TIMEOUT - 1, last_seen: BOOLEAN, bytes: Content]

MessageEvent == [type: MessageTypes, id: MessageId, bytes: Content]

ASSUME ReassemblyAssumption ==
    /\ MAX_REASSEMBLY \in Nat \ {0}
    /\ REASSEMBLY_TIMEOUT \in Nat \ {0}
    /\ Inactive \notin ReassemblySlot

EmptyReassembly == [i \in ReassemblySlots |-> Inactive]

Active(r) == {i \in ReassemblySlots : r[i] # Inactive}

SlotsOf(r, f) == {i \in Active(r) : r[i].type = f.type /\ r[i].id = f.id}

Lowest(S) == CHOOSE i \in S : \A j \in S : i <= j

\* The lowest of the slots updated longest ago.
oldest_slot(r) == Lowest({i \in Active(r) : \A j \in Active(r) : r[j].age <= r[i].age})

\* find_slot, else allocate_slot: a free slot, else the oldest one is evicted.
TargetSlot(r, f) ==
    IF SlotsOf(r, f) # {} THEN Lowest(SlotsOf(r, f))
    ELSE IF Active(r) # ReassemblySlots THEN Lowest(ReassemblySlots \ Active(r))
    ELSE oldest_slot(r)

start(f) == [type |-> f.type, id |-> f.id, expected_len |-> f.len, age |-> 0,
             last_seen |-> FALSE, bytes |-> [o \in {} |-> f.body]]

\* Faulty variant: the length of the whole message is not checked.
RejectsMismatch(r, f) ==
    SlotsOf(r, f) # {} /\ r[TargetSlot(r, f)].expected_len # f.len

Rejects(r, f) ==
    \/ f.len > MAX_MESSAGE_BYTES
    \/ SlotsOf(r, f) # {} /\ r[TargetSlot(r, f)].expected_len # f.len

Covered(f) == f.offset .. f.offset + f.size - 1

\* copy_from_slice, and the received flags.
Copied(bytes, f) ==
    [o \in DOMAIN bytes \cup Covered(f) |-> IF o \in Covered(f) THEN f.body ELSE bytes[o]]

\* The slot that takes the fragment, before it does.
SlotBefore(r, f) == IF SlotsOf(r, f) # {} THEN r[TargetSlot(r, f)] ELSE start(f)

\* The slot after the fragment was copied in.
Filled(r, f) ==
    LET old == SlotBefore(r, f)
    IN  [old EXCEPT
            !.age = 0,
            !.last_seen = old.last_seen \/ f.offset + f.size = old.expected_len,
            !.bytes = Copied(old.bytes, f)]

\* Faulty variant: the last fragment completes the message.
is_complete_at_last(slot) == slot.last_seen

is_complete(slot) ==
    slot.last_seen /\ \A o \in 0 .. slot.expected_len - 1 : o \in DOMAIN slot.bytes

Completes(r, f) == is_complete(Filled(r, f))

MessageOf(slot) == [type |-> slot.type, id |-> slot.id, bytes |-> slot.bytes]

\* Faulty variant: a completed slot is not released.
observe_keeping(r, f) == [r EXCEPT ![TargetSlot(r, f)] = Filled(r, f)]

\* ReassemblyState::observe; a completed slot is released.
observe(r, f) ==
    [r EXCEPT ![TargetSlot(r, f)] = IF Completes(r, f) THEN Inactive ELSE Filled(r, f)]

\* delta milliseconds pass, then expire releases the slots that timed out.
expire(r, delta) ==
    [i \in ReassemblySlots |->
        IF r[i] = Inactive \/ r[i].age + delta >= REASSEMBLY_TIMEOUT THEN Inactive
        ELSE [r[i] EXCEPT !.age = @ + delta]]
=============================================================================
