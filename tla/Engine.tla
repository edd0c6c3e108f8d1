------------------------------- MODULE Engine -------------------------------
(***************************************************************************)
(* The protocol engine (engine/state.rs and below): one engine for every   *)
(* peer in Peers, each driven by calls to send, send_log, send_ping,       *)
(* receive and poll, in any order the caller likes.  Engines share no      *)
(* state; module Transport joins two of them by a link.                    *)
(*                                                                         *)
(* A call that loops over several packets is a run of steps: send keeps    *)
(* its loop state in sending, poll keeps the packets its tick collected in *)
(* ticking.  While a call is in progress its engine takes no other call,   *)
(* as the code's exclusive borrow of the engine demands.                   *)
(***************************************************************************)
EXTENDS Scheduler, InFlight, Reassembly, Functions

CONSTANTS
    Peers,            \* the engines
    Seed,             \* Seed[p]: initial message id of p
    Lengths,          \* lengths of the messages an application sends
    Deltas,           \* milliseconds between the clock and a poll's now_ms
    TxRooms,          \* whether the caller's transmit buffer holds a packet
    Incoming,         \* packets the stream decoder may recover
    MAX_ACKS,         \* MAX_PENDING_ACKS
    MAX_MESSAGES,     \* MAX_MESSAGE_EVENTS
    NoCall            \* no call in progress

ASSUME EngineAssumption ==
    /\ Seed \in [Peers -> MessageId]
    /\ Lengths \subseteq Nat
    /\ Deltas \subseteq Nat
    /\ TxRooms \subseteq BOOLEAN
    /\ Incoming \subseteq Packet
    /\ MAX_ACKS \in Nat \ {0}
    /\ MAX_MESSAGES \in Nat \ {0}

VARIABLES
    next_id,          \* NumberState::message_id_state
    queues,           \* SchedulerState
    in_flight,        \* InFlightPackets::packets
    in_flight_len,    \* InFlightPackets::len
    ticked,           \* RecoveryState::last_tick_ms is the clock's now_ms
    acks,             \* AckState, oldest key first
    dedup,            \* PacketDedup, oldest key first
    reassembly,       \* ReassemblyState
    messages,         \* MessageState, oldest message first
    sending,          \* the send call in progress
    ticking           \* the poll call in progress: what its tick still has to do

sendVars == <<next_id, queues, in_flight, in_flight_len, ticked>>
receiveVars == <<acks, dedup, reassembly, messages>>
callVars == <<sending, ticking>>
vars == <<sendVars, receiveVars, callVars>>

SendCall ==
    {c \in [type: MessageTypes, id: MessageId, body: Bodies, len: Nat,
            offset: Nat, index: Nat] : c.offset <= c.len}
TickCall == [failed: SUBSET Slots, retransmits: SUBSET Slots]

ASSUME CallAssumption == NoCall \notin SendCall /\ NoCall \notin TickCall

TypeOK ==
    /\ next_id \in [Peers -> MessageId]
    /\ queues \in [Peers -> [QueueKind -> Seq(EngineOutput)]]
    /\ in_flight \in [Peers -> [Slots -> InFlightPacket \cup {None}]]
    /\ in_flight_len \in [Peers -> Nat]
    /\ ticked \in [Peers -> BOOLEAN]
    /\ acks \in [Peers -> Seq(PacketKey)]
    /\ dedup \in [Peers -> Seq(PacketKey)]
    /\ reassembly \in [Peers -> [ReassemblySlots -> ReassemblySlot \cup {Inactive}]]
    /\ messages \in [Peers -> Seq(MessageEvent)]
    /\ sending \in [Peers -> SendCall \cup {NoCall}]
    /\ ticking \in [Peers -> TickCall \cup {NoCall}]

Init ==
    /\ next_id = Seed
    /\ queues = [p \in Peers |-> EmptyScheduler]
    /\ in_flight = [p \in Peers |-> EmptyInFlight]
    /\ in_flight_len = [p \in Peers |-> 0]
    /\ ticked = [p \in Peers |-> FALSE]
    /\ acks = [p \in Peers |-> <<>>]
    /\ dedup = [p \in Peers |-> <<>>]
    /\ reassembly = [p \in Peers |-> EmptyReassembly]
    /\ messages = [p \in Peers |-> <<>>]
    /\ sending = [p \in Peers |-> NoCall]
    /\ ticking = [p \in Peers |-> NoCall]

Idle(p) == sending[p] = NoCall /\ ticking[p] = NoCall

-----------------------------------------------------------------------------
(* Engine::send and Engine::send_log *)

\* Faulty variant: room in the scheduler is checked for one packet only.
ensure_can_queue_packet(p, type, len) ==
    /\ fragment_count(len) <= MAX_EVENTS
    /\ SchedulerAvailable(queues[p]) >= 1
    /\ type = "data" => fragment_count(len) <= MAX_IN_FLIGHT - in_flight_len[p]

ensure_can_queue_message(p, type, len) ==
    /\ fragment_count(len) <= MAX_EVENTS
    /\ fragment_count(len) <= SchedulerAvailable(queues[p])
    /\ type = "data" => fragment_count(len) <= MAX_IN_FLIGHT - in_flight_len[p]

CanSend(p, type, len) ==
    ensure_can_queue_message(p, type, len) /\ len <= MAX_MESSAGE_BYTES

\* A message that passed both checks: its fragments are queued by SendFragment.
Send(p, type, len, body) ==
    /\ Idle(p)
    /\ CanSend(p, type, len)
    /\ next_id' = [next_id EXCEPT ![p] = alloc_message_id(@)]
    /\ sending' = [sending EXCEPT ![p] =
           [type |-> type, id |-> next_id'[p], body |-> body, len |-> len,
            offset |-> 0, index |-> 0]]
    /\ UNCHANGED <<queues, in_flight, in_flight_len, ticked, receiveVars, ticking>>

\* A message that was refused has already used up its message id.
SendRefused(p, type, len) ==
    /\ Idle(p)
    /\ ~CanSend(p, type, len)
    /\ next_id' = [next_id EXCEPT ![p] = alloc_message_id(@)]
    /\ UNCHANGED <<queues, in_flight, in_flight_len, ticked, receiveVars, callVars>>

\* The loop state after the fragment that ends at end.
Advanced(call, end) == [call EXCEPT !.offset = end, !.index = call.index + 1]

\* One round of the loop of send_message_fragments.  A push or a track that
\* fails ends the call with an error.
SendFragment(p) ==
    /\ sending[p] # NoCall
    /\ LET c == sending[p]
           f == FragmentAt(c.type, c.id, c.body, c.len, c.offset, c.index)
           end == FragmentEnd(c.offset, c.len)
           key == KeyOf(f)
           w == Write(key, f, 0, "new_data")
           pushed == ~PushFails(queues[p], w)
           tracks == pushed /\ c.type = "data"
           failed == ~pushed \/ (tracks /\ TrackFails(in_flight[p], key))
           t == in_flight[p]
       IN  /\ queues' = [queues EXCEPT ![p] = push(@, w)]
           /\ in_flight' = [in_flight EXCEPT ![p] =
                  IF tracks
                  THEN track(@, [key |-> key, packet |-> f, attempts |-> 0,
                                 age |-> 0, sent |-> FALSE])
                  ELSE @]
           /\ in_flight_len' = [in_flight_len EXCEPT ![p] =
                  IF tracks THEN TrackedLen(t, @, key) ELSE @]
           /\ sending' = [sending EXCEPT ![p] =
                  IF failed \/ end >= c.len THEN NoCall
                  ELSE Advanced(c, end)]
    /\ UNCHANGED <<next_id, ticked, receiveVars, ticking>>

\* Engine::send_ping; a push that fails is reported to the caller.
SendPing(p) ==
    /\ Idle(p)
    /\ queues' = [queues EXCEPT ![p] = push(@, Write(LivenessKey, Ping, 0, "new_data"))]
    /\ UNCHANGED <<next_id, in_flight, in_flight_len, ticked, receiveVars, callVars>>

-----------------------------------------------------------------------------
(* Engine::receive, for one packet the stream decoder recovered.  Packets
   that change no engine state are left out: a Pong, a malformed packet, and
   a fragment that reassembly refuses. *)

\* AckState::observe; a full queue refuses the key and receive reports an error.
queue_ack(p, f) ==
    acks' = IF f.ack_eliciting /\ Len(acks[p]) < MAX_ACKS
            THEN [acks EXCEPT ![p] = Append(@, KeyOf(f))]
            ELSE acks

\* Faulty variant: the scan stops one place short of the newest key.
is_duplicate_but_newest(p, key) == \E i \in 1 .. Len(dedup[p]) - 1 : dedup[p][i] = key

is_duplicate(p, key) == key \in Range(dedup[p])

\* Faulty variant: the ring forgets one key too early.
Remember_one_less(keys, key) ==
    Append(IF Len(keys) + 1 = MAX_IN_FLIGHT THEN Tail(keys) ELSE keys, key)

\* PacketDedup::observe_packet: the ring forgets the oldest of its N keys.
Remember(keys, key) ==
    Append(IF Len(keys) = MAX_IN_FLIGHT THEN Tail(keys) ELSE keys, key)

\* MessageState::push: a full queue loses its oldest message.
Enqueue(q, m) == Append(IF Len(q) = MAX_MESSAGES THEN Tail(q) ELSE q, m)

Reassemble(p, f) ==
    /\ ~Rejects(reassembly[p], f)
    /\ reassembly' = [reassembly EXCEPT ![p] = observe(@, f)]
    /\ messages' = IF Completes(reassembly[p], f)
                   THEN [messages EXCEPT ![p] = Enqueue(@, MessageOf(Filled(reassembly[p], f)))]
                   ELSE messages

ReceiveDuplicate(p, f) ==
    /\ Idle(p)
    /\ f.type = "data"
    /\ is_duplicate(p, KeyOf(f))
    /\ queue_ack(p, f)
    /\ UNCHANGED <<sendVars, dedup, reassembly, messages, callVars>>

\* Faulty variant: a full ACK queue ends the call before reassembly, after the
\* packet was remembered.
ReceiveData_ack_first(p, f) ==
    /\ Idle(p)
    /\ f.type = "data"
    /\ ~is_duplicate(p, KeyOf(f))
    /\ IF Len(acks[p]) = MAX_ACKS THEN UNCHANGED <<reassembly, messages>> ELSE Reassemble(p, f)
    /\ dedup' = [dedup EXCEPT ![p] = Remember(@, KeyOf(f))]
    /\ queue_ack(p, f)
    /\ UNCHANGED <<sendVars, callVars>>

ReceiveData(p, f) ==
    /\ Idle(p)
    /\ f.type = "data"
    /\ ~is_duplicate(p, KeyOf(f))
    /\ Reassemble(p, f)
    /\ dedup' = [dedup EXCEPT ![p] = Remember(@, KeyOf(f))]
    /\ queue_ack(p, f)
    /\ UNCHANGED <<sendVars, callVars>>

ReceiveLog(p, f) ==
    /\ Idle(p)
    /\ f.type = "log"
    /\ Reassemble(p, f)
    /\ UNCHANGED <<sendVars, acks, dedup, callVars>>

ReceiveAck(p, a) ==
    /\ Idle(p)
    /\ a.type = "ack"
    /\ in_flight' = [in_flight EXCEPT ![p] = apply_ack(@, KeyOf(a))]
    /\ in_flight_len' = [in_flight_len EXCEPT ![p] = AckedLen(in_flight[p], @, KeyOf(a))]
    /\ UNCHANGED <<next_id, queues, ticked, receiveVars, callVars>>

\* queue_pong; when the push fails receive reports an error.
ReceivePing(p, a) ==
    /\ Idle(p)
    /\ a.type = "ping"
    /\ queues' = [queues EXCEPT ![p] = push(@, Write(LivenessKey, Pong, 0, "control"))]
    /\ UNCHANGED <<next_id, in_flight, in_flight_len, ticked, receiveVars, callVars>>

Receive(p, packet) ==
    \/ ReceiveDuplicate(p, packet)
    \/ ReceiveData(p, packet)
    \/ ReceiveLog(p, packet)
    \/ ReceiveAck(p, packet)
    \/ ReceivePing(p, packet)

-----------------------------------------------------------------------------
(* Engine::poll: tick_retransmit, then one output. *)

\* should_tick is false for a second poll at the same now_ms.
Poll(p, delta) ==
    /\ Idle(p)
    /\ LET t == Aged(in_flight[p], delta)
           runs == ~(ticked[p] /\ delta = 0)
       IN  /\ in_flight' = [in_flight EXCEPT ![p] = t]
           /\ ticking' = [ticking EXCEPT ![p] =
                  [failed |-> IF runs THEN Exhausted(t) ELSE {},
                   retransmits |-> IF runs THEN Retransmittable(t) ELSE {}]]
    /\ reassembly' = [reassembly EXCEPT ![p] = expire(@, delta)]
    /\ ticked' = [ticked EXCEPT ![p] = TRUE]
    /\ UNCHANGED <<next_id, queues, in_flight_len, acks, dedup, messages, sending>>

\* The messages that ran out of attempts, in slot order, once each.  The
\* result of the push is dropped.
TickFail(p) ==
    /\ ticking[p] # NoCall
    /\ \E i \in ticking[p].failed :
           /\ \A j \in ticking[p].failed : i <= j
           /\ LET id == in_flight[p][i].packet.id
                  of == SlotsOfMessage(in_flight[p], id)
              IN  /\ in_flight' = [in_flight EXCEPT ![p] = remove_message(@, id)]
                  /\ in_flight_len' = [in_flight_len EXCEPT ![p] =
                         RemovedLen(in_flight[p], @, id)]
                  /\ queues' = [queues EXCEPT ![p] = push(@, SendFailed(id))]
                  /\ ticking' = [ticking EXCEPT ![p].failed = @ \ of]
    /\ UNCHANGED <<next_id, ticked, receiveVars, sending>>

\* Then the retransmissions, in slot order; this push may fail unnoticed too.
TickRetransmit(p) ==
    /\ ticking[p] # NoCall
    /\ ticking[p].failed = {}
    /\ \E i \in ticking[p].retransmits :
           /\ \A j \in ticking[p].retransmits : i <= j
           /\ LET t == in_flight[p][i]
              IN  queues' = [queues EXCEPT ![p] =
                      push(@, Write(t.key, t.packet, t.attempts + 1, "retransmit"))]
           /\ ticking' = [ticking EXCEPT ![p].retransmits = @ \ {i}]
    /\ UNCHANGED <<next_id, in_flight, in_flight_len, ticked, receiveVars, sending>>

TickDone(p) ==
    /\ ticking[p] # NoCall
    /\ ticking[p].failed = {}
    /\ ticking[p].retransmits = {}

EndPoll(p) == ticking' = [ticking EXCEPT ![p] = NoCall]

\* The key leaves the queue whether or not the ACK fits the buffer.
PollAck(p) ==
    /\ TickDone(p)
    /\ acks[p] # <<>>
    /\ acks' = [acks EXCEPT ![p] = Tail(@)]
    /\ EndPoll(p)
    /\ UNCHANGED <<sendVars, dedup, reassembly, messages, sending>>

\* poll_event on the head of queue k: an event that does not fit the buffer is
\* lost, and nothing is noted about it.
PollEvent(p, k, room) ==
    LET e == Head(queues[p][k])
    IN  /\ queues' = [queues EXCEPT ![p] = pop(@, k)]
        /\ in_flight' = [in_flight EXCEPT ![p] =
               IF e.kind = "write" /\ room
               THEN IF e.priority = "retransmit"
                    THEN note_retransmit_sent(@, e.key)
                    ELSE note_sent(@, e.key)
               ELSE @]
        /\ EndPoll(p)
        /\ UNCHANGED <<next_id, in_flight_len, ticked, receiveVars, sending>>

PollUrgent(p, room) ==
    /\ TickDone(p)
    /\ acks[p] = <<>>
    /\ HasUrgent(queues[p])
    /\ PollEvent(p, UrgentQueue(queues[p]), room)

PollMessage(p) ==
    /\ TickDone(p)
    /\ acks[p] = <<>>
    /\ ~HasUrgent(queues[p])
    /\ messages[p] # <<>>
    /\ messages' = [messages EXCEPT ![p] = Tail(@)]
    /\ EndPoll(p)
    /\ UNCHANGED <<sendVars, acks, dedup, reassembly, sending>>

PollNewData(p, room) ==
    /\ TickDone(p)
    /\ acks[p] = <<>>
    /\ ~HasUrgent(queues[p])
    /\ messages[p] = <<>>
    /\ queues[p]["new_data"] # <<>>
    /\ PollEvent(p, "new_data", room)

PollIdle(p) ==
    /\ TickDone(p)
    /\ acks[p] = <<>>
    /\ ~HasUrgent(queues[p])
    /\ messages[p] = <<>>
    /\ queues[p]["new_data"] = <<>>
    /\ EndPoll(p)
    /\ UNCHANGED <<sendVars, receiveVars, sending>>

Output(p) ==
    \/ PollAck(p)
    \/ \E room \in TxRooms : PollUrgent(p, room) \/ PollNewData(p, room)
    \/ PollMessage(p)
    \/ PollIdle(p)

Step(p) ==
    \/ \E type \in MessageTypes, len \in Lengths :
           \/ \E body \in Bodies : Send(p, type, len, body)
           \/ SendRefused(p, type, len)
    \/ SendFragment(p)
    \/ SendPing(p)
    \/ \E packet \in Incoming : Receive(p, packet)
    \/ \E delta \in Deltas : Poll(p, delta)
    \/ TickFail(p)
    \/ TickRetransmit(p)
    \/ Output(p)

Next == \E p \in Peers : Step(p)

Spec == Init /\ [][Next]_vars

-----------------------------------------------------------------------------
(* Properties *)

\* The scheduler never holds more than MAX_EVENTS events, and never two writes
\* of one packet key: push replaces the queued write of a key wherever it
\* stands, so a packet is not sent twice for one decision to send it.
OneWritePerKey ==
    \A p \in Peers : SchedulerLen(queues[p]) <= MAX_EVENTS /\ UniqueWrites(queues[p])

\* The counter InFlightPackets::len, which alone decides whether a message may
\* be sent, agrees with the slots in use, and no key takes two slots: ACKs,
\* duplicates of ACKs, message failures and reused keys neither leak a slot nor
\* free one twice.
InFlightExact ==
    \A p \in Peers :
        /\ in_flight_len[p] = Cardinality(Occupied(in_flight[p]))
        /\ UniqueKeys(in_flight[p])

\* The packet a queued write belongs to is due, and the write is its next attempt.
NextAttempt(t, e) ==
    /\ t.sent
    /\ t.age = RTO
    /\ e.attempts = t.attempts + 1
    /\ e.attempts <= MAX_ATTEMPTS

Disciplined(s, t) ==
    \A k \in QueueKind : \A i \in DOMAIN s[k], j \in Occupied(t) :
        (/\ IsWriteOf(s[k][i], t[j].key)
         /\ s[k][i].priority = "retransmit") => NextAttempt(t[j], s[k][i])

\* No packet is retransmitted more often than max_retransmit_attempts allows,
\* nor before a whole RTO of silence: a retransmission waiting in the scheduler
\* is the next attempt of its packet, within the limit, and the packet is still
\* silent however long the write waits and whatever calls come in between.
RetryBudget ==
    \A p \in Peers :
        /\ \A j \in Occupied(in_flight[p]) : in_flight[p][j].attempts <= MAX_ATTEMPTS
        /\ Disciplined(queues[p], in_flight[p])

Collected(t, tick) ==
    /\ tick.failed \subseteq Exhausted(t)
    /\ tick.retransmits \subseteq Due(t) \ Exhausted(t)
    /\ \A i \in tick.failed, j \in tick.retransmits : t[i].packet.id # t[j].packet.id

\* What tick_retransmit copied out of the in-flight table before it changes
\* anything is still true of the table when its loops act on it: removing a
\* failed message neither fails it twice nor leaves a retransmission of a
\* packet that is gone.
TickCurrent ==
    \A p \in Peers : ticking[p] # NoCall => Collected(in_flight[p], ticking[p])

\* A reliable packet that was never transmitted has its write in the scheduler.
\* tick_retransmit skips packets that were not sent, so without that write the
\* packet would stay in flight for ever, neither retried nor failed.  It needs
\* callers whose transmit buffer always has room.
UnsentIsQueued ==
    \A p \in Peers : \A j \in Occupied(in_flight[p]) :
        ~in_flight[p][j].sent =>
            \E k \in QueueKind : HoldsWrite(queues[p][k], in_flight[p][j].key)

\* A send is all or nothing: once ensure_can_queue_message let a message
\* through, every fragment the loop has left finds room in the scheduler and in
\* the in-flight table, so the loop never stops half way with an error.
SendAllOrNothing ==
    \A p \in Peers : sending[p] # NoCall =>
        LET left == fragment_count(sending[p].len - sending[p].offset)
        IN  /\ left <= SchedulerAvailable(queues[p])
            /\ sending[p].type = "data" =>
                   left <= MAX_IN_FLIGHT - Cardinality(Occupied(in_flight[p]))

\* Two slots never collect fragments of one message, and no slot keeps a
\* message that is complete: what reassembly holds is always still missing bytes.
ReassemblyPending ==
    \A p \in Peers : \A i, j \in Active(reassembly[p]) :
        LET r == reassembly[p]
        IN  /\ (r[i].type = r[j].type /\ r[i].id = r[j].id) => i = j
            /\ ~is_complete(r[i])

\* The duplicate detector remembers as many different packets as its ring has
\* places: no key takes two of them, so the window never shrinks.
DedupWindow ==
    \A p \in Peers :
        /\ Len(dedup[p]) <= MAX_IN_FLIGHT
        /\ \A i, j \in DOMAIN dedup[p] : dedup[p][i] = dedup[p][j] => i = j

\* When a message runs out of attempts its packets are removed from the
\* in-flight table and a SendFailed event is queued for the application.
FailureQueued ==
    [][\A p \in Peers, id \in MessageId :
           (/\ ticking[p] # NoCall
            /\ SlotsOfMessage(in_flight[p], id) # {}
            /\ SlotsOfMessage(in_flight'[p], id) = {})
               => SendFailed(id) \in Range(queues'[p]["local"])]_vars

PongQueued(s) == \E k \in QueueKind : \E i \in DOMAIN s[k] :
                     s[k][i].kind = "write" /\ s[k][i].packet = Pong

\* A Pong that was queued for a Ping leaves the scheduler by a poll only, and
\* is not dropped as a duplicate of something else.
PongKept ==
    [][\A p \in Peers :
           (PongQueued(queues[p]) /\ ticking[p] = NoCall) => PongQueued(queues'[p])]_vars
=============================================================================
