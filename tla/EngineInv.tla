----------------------------- MODULE EngineInv ------------------------------
(***************************************************************************)
(* The inductive invariant of the engine, which the proofs rest on.        *)
(* SenderInv is the invariant of the five values that make up the sending  *)
(* side of one engine: the scheduler s, the in-flight table t, the counter *)
(* n, the send call c and the poll call k in progress. SenderOK is that of *)
(* all sending sides, ReceiverOK adds the receiving sides and NumbersOK    *)
(* the message ids.                                                        *)
(***************************************************************************)
EXTENDS Engine

(* The types of the tables *)

SchedulerType == [QueueKind -> Seq(EngineOutput)]

TableType == [Slots -> InFlightPacket \cup {None}]

ReassemblyType == [ReassemblySlots -> ReassemblySlot \cup {Inactive}]

\* Every slot in use collects a message of its own, which is not complete.
Pending(r) ==
    \A i, j \in Active(r) :
        /\ (r[i].type = r[j].type /\ r[i].id = r[j].id) => i = j
        /\ ~is_complete(r[i])

Window(d) ==
    /\ Len(d) <= MAX_IN_FLIGHT
    /\ \A i, j \in DOMAIN d : d[i] = d[j] => i = j

-----------------------------------------------------------------------------
(* A round of send_message_fragments *)

\* The pieces of one round of the loop of Engine::send: the fragment, its
\* write, its record, and what the table, the counter and the call become.
NextFragment(c) == FragmentAt(c.type, c.id, c.body, c.len, c.offset, c.index)

NextWrite(c) == Write(KeyOf(NextFragment(c)), NextFragment(c), 0, "new_data")

NextRecord(c) == [key |-> KeyOf(NextFragment(c)), packet |-> NextFragment(c),
                  attempts |-> 0, age |-> 0, sent |-> FALSE]

TableAfter(t, c) == IF c.type = "data" THEN track(t, NextRecord(c)) ELSE t

LenAfter(t, n, c) == IF c.type = "data" THEN TrackedLen(t, n, KeyOf(NextFragment(c))) ELSE n

CallAfter(c) ==
    IF FragmentEnd(c.offset, c.len) >= c.len THEN NoCall
    ELSE Advanced(c, FragmentEnd(c.offset, c.len))

-----------------------------------------------------------------------------
(* The invariant *)

Room(s, t, c) ==
    c # NoCall =>
        LET left == fragment_count(c.len - c.offset)
        IN  /\ left <= SchedulerAvailable(s)
            /\ c.type = "data" => left <= MAX_IN_FLIGHT - Cardinality(Occupied(t))

WithinLimit(t) == \A j \in Occupied(t) : t[j].attempts <= MAX_ATTEMPTS

\* UnsentIsQueued, of one engine.
QueuedIfUnsent(s, t) ==
    \A j \in Occupied(t) :
        ~t[j].sent => \E q \in QueueKind : HoldsWrite(s[q], t[j].key)

SenderInv(s, t, n, c, k) ==
    /\ s \in SchedulerType
    /\ t \in TableType
    /\ n = Cardinality(Occupied(t))
    /\ c \in SendCall \cup {NoCall}
    /\ k \in TickCall \cup {NoCall}
    /\ c = NoCall \/ k = NoCall
    /\ SchedulerLen(s) <= MAX_EVENTS
    /\ UniqueWrites(s)
    /\ UniqueKeys(t)
    /\ WithinLimit(t)
    /\ Disciplined(s, t)
    /\ k # NoCall => Collected(t, k)
    /\ Room(s, t, c)

SenderOK ==
    /\ queues \in [Peers -> SchedulerType]
    /\ in_flight \in [Peers -> TableType]
    /\ in_flight_len \in [Peers -> Nat]
    /\ sending \in [Peers -> SendCall \cup {NoCall}]
    /\ ticking \in [Peers -> TickCall \cup {NoCall}]
    /\ \A p \in Peers :
           SenderInv(queues[p], in_flight[p], in_flight_len[p], sending[p], ticking[p])

ReceiverOK ==
    /\ acks \in [Peers -> Seq(PacketKey)]
    /\ dedup \in [Peers -> Seq(PacketKey)]
    /\ reassembly \in [Peers -> ReassemblyType]
    /\ messages \in [Peers -> Seq(MessageEvent)]
    /\ \A p \in Peers : Window(dedup[p]) /\ Pending(reassembly[p])

NumbersOK ==
    /\ next_id \in [Peers -> MessageId]
    /\ ticked \in [Peers -> BOOLEAN]

IndInv == SenderOK /\ ReceiverOK /\ NumbersOK
=============================================================================
