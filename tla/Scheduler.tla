----------------------------- MODULE Scheduler -----------------------------
(***************************************************************************)
(* The output scheduler of an engine (engine/state/scheduler): four FIFO   *)
(* queues that share one budget of MAX_EVENTS events.  Its ring buffers    *)
(* are sequences, head first.                                              *)
(***************************************************************************)
EXTENDS Naturals, Sequences, Packets

CONSTANT MAX_EVENTS      \* events the four queues may hold together

ASSUME SchedulerAssumption == MAX_EVENTS \in Nat \ {0}

QueueKind == {"control", "retransmit", "new_data", "local"}
WritePriority == {"control", "retransmit", "new_data"}

WriteEvent == [kind: {"write"}, key: PacketKey, packet: Packet,
               attempts: Nat, priority: WritePriority]
SendFailedEvent == [kind: {"send_failed"}, id: MessageId]
EngineOutput == WriteEvent \cup SendFailedEvent

Write(key, packet, attempts, priority) ==
    [kind |-> "write", key |-> key, packet |-> packet,
     attempts |-> attempts, priority |-> priority]
SendFailed(id) == [kind |-> "send_failed", id |-> id]

EmptyScheduler == [k \in QueueKind |-> <<>>]

SchedulerLen(s) ==
    Len(s["control"]) + Len(s["retransmit"]) + Len(s["new_data"]) + Len(s["local"])

SchedulerAvailable(s) == MAX_EVENTS - SchedulerLen(s)

queue_for_event(event) ==
    IF event.kind = "write" THEN event.priority ELSE "local"

\* Faulty variant: writes of one message are taken for the same packet.
IsWriteOfMessage(event, key) == event.kind = "write" /\ event.key[1] = key[1]

\* is_redundant_write compares packet keys and nothing else.
IsWriteOf(event, key) == event.kind = "write" /\ event.key = key

HoldsWrite(queue, key) == \E i \in DOMAIN queue : IsWriteOf(queue[i], key)

\* The first queue, in the order the code searches them, with a write of key.
QueueOf(s, key) ==
    IF HoldsWrite(s["control"], key) THEN "control"
    ELSE IF HoldsWrite(s["retransmit"], key) THEN "retransmit"
    ELSE IF HoldsWrite(s["new_data"], key) THEN "new_data"
    ELSE "local"

FirstWrite(queue, key) ==
    CHOOSE i \in DOMAIN queue :
        /\ IsWriteOf(queue[i], key)
        /\ \A j \in DOMAIN queue : j < i => ~IsWriteOf(queue[j], key)

\* Faulty variant: only the queue of the event's own priority is searched.
IsRedundantInQueue(s, event) ==
    event.kind = "write" /\ HoldsWrite(s[event.priority], event.key)

IsRedundant(s, event) ==
    event.kind = "write" /\ \E k \in QueueKind : HoldsWrite(s[k], event.key)

\* The queued write of the same key is overwritten where it stands.
replace_redundant_write(s, event) ==
    LET k == QueueOf(s, event.key)
    IN  [s EXCEPT ![k] = [@ EXCEPT ![FirstWrite(s[k], event.key)] = event]]

PushFails(s, event) == ~IsRedundant(s, event) /\ SchedulerLen(s) = MAX_EVENTS

\* SchedulerState::push; a push that fails leaves the scheduler as it was.
push(s, event) ==
    IF IsRedundant(s, event) THEN replace_redundant_write(s, event)
    ELSE IF SchedulerLen(s) = MAX_EVENTS THEN s
    ELSE [s EXCEPT ![queue_for_event(event)] = Append(@, event)]

HasUrgent(s) == \E k \in {"control", "retransmit", "local"} : s[k] # <<>>

\* The queue pop_urgent pops.
UrgentQueue(s) ==
    IF s["control"] # <<>> THEN "control"
    ELSE IF s["retransmit"] # <<>> THEN "retransmit"
    ELSE "local"

pop(s, k) == [s EXCEPT ![k] = Tail(@)]

SameWrite(e, f) == e.kind = "write" /\ f.kind = "write" /\ e.key = f.key

UniqueWrites(s) ==
    \A k, l \in QueueKind : \A i \in DOMAIN s[k], j \in DOMAIN s[l] :
        SameWrite(s[k][i], s[l][j]) => k = l /\ i = j
=============================================================================
