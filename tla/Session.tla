------------------------------ MODULE Session ------------------------------
(***************************************************************************)
(* Two endpoints with their engines, joined by a link: a client that       *)
(* connects, and connects again (endpoint/client.rs), and a passive        *)
(* endpoint that makes its session when bytes arrive (passive.rs).  Each   *)
(* is a PeerSlot around an Engine.  The link keeps the order of packets    *)
(* and may lose them; what a call of receive gets may hold several packets *)
(* and end in noise.                                                       *)
(*                                                                         *)
(* A call of an endpoint is a run of steps on its own engine and slot, so  *)
(* one call at a time is in progress, as in module Transport.  The state   *)
(* of an engine that was dropped is that of a new one.                     *)
(***************************************************************************)
EXTENDS Engine, PeerSlot

CONSTANTS
    Clients,          \* the ClientEndpoints; the other peers are passive
    Senders,          \* the endpoints whose application sends messages
    IDLE_TIMEOUT,     \* the timeout an adapter passes to disconnect_if_idle
    FRESH_LAG,        \* the adapter's clock when a new engine's clock is 0
    LAG_CAP,          \* beyond every timeout of an engine
    CHUNK,            \* bound: packets in one call of receive
    Noisy,            \* noise may follow them
    Lossy,            \* the link may lose a packet
    MAX_CONNECTS,     \* bound: calls of connect
    MAX_SENDS,        \* bound: calls of send
    WIRE_CAP          \* bound: packets on the link in one direction

ASSUME SessionAssumption ==
    /\ \E p, q \in Peers : p # q /\ Peers = {p, q}
    /\ Clients \subseteq Peers /\ Senders \subseteq Peers
    /\ MAX_SENDS \in Nat /\ Bodies = 0 .. MAX_SENDS
    /\ IDLE_TIMEOUT <= HORIZON
    /\ FRESH_LAG \in Nat /\ LAG_CAP \in Nat
    /\ RTO <= LAG_CAP /\ REASSEMBLY_TIMEOUT <= LAG_CAP /\ FRESH_LAG <= LAG_CAP
    /\ {Noisy, Lossy} \subseteq BOOLEAN

VARIABLES
    slot,             \* slot[p]: the PeerSlot of p
    lag,              \* lag[p]: the adapter's clock minus the clock of p's engine
    running,          \* the call in progress, if it is one of receive or poll
    wire,             \* wire[p]: packets sent by p, oldest first
    connects,         \* number of calls of connect so far
    calls             \* number of calls of send so far

slotVars == <<slot, lag>>
historyVars == <<connects, calls>>
allVars == <<vars, slotVars, running, wire, historyVars>>

Other(p) == CHOOSE q \in Peers : q # p

SessionInit ==
    /\ Init
    /\ slot = [p \in Peers |-> EmptySlot]
    /\ lag = [p \in Peers |-> 0]
    /\ running = NoCall
    /\ wire = [p \in Peers |-> <<>>]
    /\ connects = 0
    /\ calls = 0

Free == running = NoCall /\ \A p \in Peers : Idle(p)

Polling(p) == [op |-> "poll", peer |-> p]
Dropping(p) == [op |-> "drop", peer |-> p]

ASSUME RunningAssumption == \A p \in Peers : NoCall # Dropping(p)

-----------------------------------------------------------------------------
(* Beginning and end of a session *)

\* Engine::new, with the given message id generator and send call.
ResetEngine(p, id, call) ==
    /\ next_id' = [next_id EXCEPT ![p] = id]
    /\ queues' = [queues EXCEPT ![p] = EmptyScheduler]
    /\ in_flight' = [in_flight EXCEPT ![p] = EmptyInFlight]
    /\ in_flight_len' = [in_flight_len EXCEPT ![p] = 0]
    /\ ticked' = [ticked EXCEPT ![p] = FALSE]
    /\ acks' = [acks EXCEPT ![p] = <<>>]
    /\ dedup' = [dedup EXCEPT ![p] = <<>>]
    /\ reassembly' = [reassembly EXCEPT ![p] = EmptyReassembly]
    /\ messages' = [messages EXCEPT ![p] = <<>>]
    /\ sending' = [sending EXCEPT ![p] = call]
    /\ ticking' = [ticking EXCEPT ![p] = NoCall]

\* HELLO_MESSAGE is one byte; every session starts from the configured seed.
HelloId(p) == alloc_message_id(Seed[p])
HelloCall(p) == [type |-> "data", id |-> HelloId(p), body |-> 0, len |-> 1,
                 offset |-> 0, index |-> 0]

\* PeerSlot::connect; SendFragment queues the hello message.
Connect(p) ==
    /\ Free
    /\ p \in Clients
    /\ connects < MAX_CONNECTS
    /\ connects' = connects + 1
    /\ ResetEngine(p, HelloId(p), HelloCall(p))
    /\ slot' = [slot EXCEPT ![p] = NewSession]
    /\ lag' = [lag EXCEPT ![p] = FRESH_LAG]
    /\ UNCHANGED <<running, wire, calls>>

\* disconnect, called by the application or by disconnect_if_idle.
EndSession(p) ==
    /\ ResetEngine(p, Seed[p], NoCall)
    /\ slot' = [slot EXCEPT ![p] = EmptySlot]
    /\ UNCHANGED <<lag, running, wire, historyVars>>

Disconnect(p) == Free /\ slot[p].engine /\ EndSession(p)

CheckIdle(p) == Free /\ IdleFor(slot[p], IDLE_TIMEOUT) /\ EndSession(p)

\* The rest of a call that drops its engine.
DropEngine(p) ==
    /\ running = Dropping(p)
    /\ running' = NoCall
    /\ ResetEngine(p, Seed[p], NoCall)
    /\ UNCHANGED <<slotVars, wire, historyVars>>

\* The call of p is over; a slot that lost its session drops the engine.
EndCall(p) == running' = IF slot'[p].engine THEN NoCall ELSE Dropping(p)

-----------------------------------------------------------------------------
(* send *)

AppSend(p, len) ==
    /\ Free
    /\ p \in Senders
    /\ slot[p].engine
    /\ calls < MAX_SENDS
    /\ calls' = calls + 1
    /\ Send(p, "data", len, calls') \/ SendRefused(p, "data", len)
    /\ UNCHANGED <<slotVars, running, wire, connects>>

SendLoop(p) == SendFragment(p) /\ UNCHANGED <<slotVars, running, wire, historyVars>>

-----------------------------------------------------------------------------
(* poll *)

\* queue_ping_if_idle, when it has to; a probe that finds no room is an error.
PollPing(p) ==
    /\ Free
    /\ slot[p].engine
    /\ PingDue(slot[p])
    /\ IF PushFails(queues[p], Write(LivenessKey, Ping, 0, "new_data"))
       THEN /\ slot' = [slot EXCEPT ![p] = EmptySlot]
            /\ running' = Dropping(p)
            /\ UNCHANGED vars
       ELSE /\ slot' = [slot EXCEPT ![p] = Pinged(@)]
            /\ running' = Polling(p)
            /\ SendPing(p)
    /\ UNCHANGED <<lag, wire, historyVars>>

\* Engine::poll sets the engine's clock to the adapter's.
PollEngine(p) ==
    /\ slot[p].engine
    /\ \/ Free /\ ~PingDue(slot[p])
       \/ running = Polling(p) /\ ticking[p] = NoCall
    /\ Poll(p, lag[p])
    /\ lag' = [lag EXCEPT ![p] = 0]
    /\ running' = Polling(p)
    /\ UNCHANGED <<slot, wire, historyVars>>

PollTick(p) ==
    /\ TickFail(p) \/ TickRetransmit(p)
    /\ UNCHANGED <<slotVars, running, wire, historyVars>>

\* The engine's poll returned, and with it PeerSlot::poll.
Polled(p, result) ==
    /\ slot' = [slot EXCEPT ![p] = poll(@, result)]
    /\ EndCall(p)
    /\ UNCHANGED <<lag, historyVars>>

Transmit(p, packet) ==
    wire' = IF Len(wire[p]) < WIRE_CAP THEN [wire EXCEPT ![p] = Append(@, packet)]
            ELSE wire

\* A packet goes to the link, or does not fit the adapter's buffer.
TransmitOrFail(p, packet, room) ==
    IF room THEN Transmit(p, packet) /\ Polled(p, "transmit")
    ELSE UNCHANGED wire /\ Polled(p, "error")

PollOutAck(p, room) == PollAck(p) /\ TransmitOrFail(p, AckFor(Head(acks[p])), room)

PollOutWrite(p, room) ==
    \E k \in QueueKind :
        /\ \/ PollUrgent(p, room) /\ k = UrgentQueue(queues[p])
           \/ PollNewData(p, room) /\ k = "new_data"
        /\ Head(queues[p][k]).kind = "write"
        /\ TransmitOrFail(p, Head(queues[p][k]).packet, room)

PollOutFailed(p) ==
    /\ PollUrgent(p, TRUE)
    /\ Head(queues[p][UrgentQueue(queues[p])]).kind = "send_failed"
    /\ Polled(p, "send_failed")
    /\ UNCHANGED wire

PollOutMessage(p) == PollMessage(p) /\ Polled(p, "message") /\ UNCHANGED wire

PollOutIdle(p) == PollIdle(p) /\ Polled(p, "idle") /\ UNCHANGED wire

PollOut(p) ==
    \/ \E room \in TxRooms : PollOutAck(p, room) \/ PollOutWrite(p, room)
    \/ PollOutFailed(p)
    \/ PollOutMessage(p)
    \/ PollOutIdle(p)

-----------------------------------------------------------------------------
(* receive *)

Noise == [type |-> "noise"]

\* The next k packets of the link to q, and perhaps noise, in one call.
ReceiveStart(q, k, noise) ==
    LET p == Other(q)
        items == SubSeq(wire[p], 1, k) \o (IF noise THEN <<Noise>> ELSE <<>>)
    IN  /\ Free
        /\ items # <<>>
        /\ slot[q].engine \/ q \notin Clients
        /\ wire' = [wire EXCEPT ![p] = SubSeq(@, k + 1, Len(@))]
        /\ slot' = IF q \in Clients THEN slot
                   ELSE [slot EXCEPT ![q] = accept_passive_if_needed(@)]
        /\ lag' = IF slot[q].engine THEN lag ELSE [lag EXCEPT ![q] = FRESH_LAG]
        /\ running' = [op |-> "receive", peer |-> q, items |-> items,
                       report |-> "incomplete"]
        /\ UNCHANGED <<vars, historyVars>>

\* Packets that change no engine state: see Receive.
Ignored(q, packet) ==
    \/ packet.type \in {"pong", "noise"}
    \/ /\ packet.type \in MessageTypes
       /\ Rejects(reassembly[q], packet)
       /\ ~is_duplicate(q, KeyOf(packet))

\* What receive_complete_packet reports; a full ACK queue and a scheduler with
\* no room for a Pong are errors.
ReportOf(q, packet) ==
    CASE packet.type \in {"noise", "pong", "ack"} -> packet.type
      [] packet.type = "ping" ->
            IF PushFails(queues[q], Write(LivenessKey, Pong, 0, "control")) THEN "error"
            ELSE "ping"
      [] OTHER ->
            IF Ignored(q, packet) THEN "corrupted"
            ELSE IF Len(acks[q]) = MAX_ACKS THEN "error"
            ELSE IF is_duplicate(q, KeyOf(packet)) THEN "duplicate"
            ELSE "packet"

Receiving(q) == running # NoCall /\ running.op = "receive" /\ running.peer = q

ReceiveItem(q) ==
    /\ Receiving(q)
    /\ running.items # <<>>
    /\ LET packet == Head(running.items)
           report == ReportOf(q, packet)
       IN  /\ \/ Receive(q, packet)
              \/ Ignored(q, packet) /\ UNCHANGED vars
           /\ slot' = IF report = "error" THEN [slot EXCEPT ![q] = receive(@, report)] ELSE slot
           /\ running' = IF report = "error" THEN Dropping(q)
                         ELSE [running EXCEPT !.items = Tail(@), !.report = report]
    /\ UNCHANGED <<lag, wire, historyVars>>

\* The report of the call is the last one.
ReceiveEnd(q) ==
    /\ Receiving(q)
    /\ running.items = <<>>
    /\ slot' = [slot EXCEPT ![q] = receive(@, running.report)]
    /\ EndCall(q)
    /\ UNCHANGED <<vars, lag, wire, historyVars>>

-----------------------------------------------------------------------------
(* The link and the clock *)

\* A packet is lost on the link, or arrives at a client that has no session.
Lose(p) ==
    /\ Free
    /\ wire[p] # <<>>
    /\ Lossy \/ (Other(p) \in Clients /\ ~slot[Other(p)].engine)
    /\ wire' = [wire EXCEPT ![p] = Tail(@)]
    /\ UNCHANGED <<vars, slotVars, running, historyVars>>

Plus(t) == IF t < LAG_CAP THEN t + 1 ELSE LAG_CAP

Tick ==
    /\ Free
    /\ slot' = [p \in Peers |-> Later(slot[p], 1)]
    /\ lag' = [p \in Peers |-> IF slot[p].engine THEN Plus(lag[p]) ELSE lag[p]]
    /\ UNCHANGED <<vars, running, wire, historyVars>>

\* A call that was started runs on.
Work(p) ==
    \/ SendLoop(p)
    \/ running = Polling(p) /\ PollEngine(p)
    \/ PollTick(p)
    \/ PollOut(p)
    \/ ReceiveItem(p)
    \/ ReceiveEnd(p)
    \/ DropEngine(p)

SessionNext ==
    \/ \E p \in Peers :
           \/ Connect(p)
           \/ Disconnect(p)
           \/ CheckIdle(p)
           \/ \E len \in Lengths : AppSend(p, len)
           \/ PollPing(p)
           \/ Free /\ PollEngine(p)
           \/ \E k \in 0 .. CHUNK, noise \in {FALSE, Noisy} :
                  k <= Len(wire[Other(p)]) /\ ReceiveStart(p, k, noise)
           \/ Work(p)
           \/ Lose(p)
    \/ Tick

SessionSpec == SessionInit /\ [][SessionNext]_allVars

\* Time passes, every call runs to its end, and the adapters go on polling.
\* Nothing is assumed of the link, of the application or of disconnect_if_idle.
FairSessionSpec ==
    /\ SessionSpec
    /\ SF_allVars(Tick)
    /\ \A p \in Peers :
           /\ WF_allVars(Work(p))
           /\ SF_allVars(PollPing(p) \/ (Free /\ PollEngine(p)))

-----------------------------------------------------------------------------
(* Properties *)

\* In a live session a reliable packet that was never transmitted has its write
\* in the scheduler, even when the adapter's buffer may be too small: poll drops
\* a session whose packet did not fit, instead of leaving the packet in flight
\* with nothing that would ever send, retry or fail it.
LiveUnsentIsQueued ==
    running = NoCall =>
        \A p \in Peers : slot[p].engine =>
            \A j \in Occupied(in_flight[p]) :
                (~in_flight[p][j].sent /\ sending[p] = NoCall) =>
                    \E k \in QueueKind : HoldsWrite(queues[p][k], in_flight[p][j].key)

HelloPending(p) ==
    \/ HoldsKey(in_flight[p], <<HelloId(p), 0>>)
    \/ SendFailed(HelloId(p)) \in Range(queues[p]["local"])

\* The slot and the engine of a client agree about the hello message: between
\* calls a client is connecting only while the hello is in flight or its failure
\* is on the way.  A client whose hello was acknowledged is connected; otherwise
\* nothing would be left to end its wait.  Stated for a link without noise.
ConnectingHasHello ==
    Free => \A p \in Clients : slot[p].state = "connecting" => HelloPending(p)

\* A client never waits for ever: the hello message of connect is confirmed by a
\* packet of the peer or fails after its retransmissions, whatever the link
\* loses, without any help of disconnect_if_idle.  Stated for a link without
\* noise.
ConnectingResolves ==
    \A p \in Clients : slot[p].state = "connecting" ~> slot[p].state # "connecting"
=============================================================================
