----------------------------- MODULE Transport -----------------------------
(***************************************************************************)
(* Two engines joined by a link.  Every packet an engine's poll returns is *)
(* put on the link; the link may lose, repeat or overtake packets, and     *)
(* what it delivers is passed to the other engine's receive.  The link     *)
(* stands for the serial line or socket, the stream decoder and the        *)
(* integrity check: a damaged packet is a lost one.                        *)
(*                                                                         *)
(* The two engines run at the same time, but a call works on its own       *)
(* engine only and puts its packet on the link in its last step.  So the   *)
(* steps of a call need not be interleaved with those of the other side,   *)
(* and a call in progress is the only thing that moves.                    *)
(***************************************************************************)
EXTENDS Engine

CONSTANTS
    Senders,          \* the engines whose application sends messages
    SendTypes,        \* the message types it sends
    MAX_SENDS,        \* bound: calls to send and send_log
    MAX_PINGS,        \* bound: calls to send_ping
    WIRE_CAP,         \* bound: packets on the link in one direction
    Lossy,            \* the link may lose a packet
    Reorder,          \* a packet may overtake the ones before it
    MAX_REPEATS       \* bound: deliveries after which the link keeps the packet

ASSUME TransportAssumption ==
    /\ \E p, q \in Peers : p # q /\ Peers = {p, q}
    /\ Senders \subseteq Peers
    /\ SendTypes \subseteq MessageTypes
    /\ MAX_SENDS \in Nat /\ Bodies = 1 .. MAX_SENDS
    /\ {Lossy, Reorder} \subseteq BOOLEAN
    /\ MAX_REPEATS \in Nat

\* The ids an engine draws during a session differ.  The code's generator has
\* the full period of 2^32: its multiplier is 1 modulo 4, its increment is odd.
ASSUME IdAssumption ==
    \A p \in Peers : \E ids \in [0 .. MAX_SENDS -> MessageId] :
        /\ ids[0] = Seed[p]
        /\ \A n \in 1 .. MAX_SENDS : ids[n] = alloc_message_id(ids[n - 1])
        /\ \A m, n \in 0 .. MAX_SENDS : ids[m] = ids[n] => m = n

VARIABLES
    wire,             \* wire[p]: packets sent by p and not yet delivered or lost
    calls,            \* number of send and send_log calls so far
    pings,            \* number of send_ping calls so far
    repeats,          \* number of packets the link repeated so far
    accepted,         \* messages a send call accepted
    seen,             \* seen[p]: keys of the Data packets p's engine accepted
    delivered,        \* delivered[p]: Data messages p's poll returned, in order
    reported          \* reported[p]: ids p's poll reported as failed

historyVars == <<calls, pings, repeats, accepted, seen, delivered, reported>>
allVars == <<vars, wire, historyVars>>

Other(p) == CHOOSE q \in Peers : q # p

TransportInit ==
    /\ Init
    /\ wire = [p \in Peers |-> <<>>]
    /\ calls = 0
    /\ pings = 0
    /\ repeats = 0
    /\ accepted = {}
    /\ seen = [p \in Peers |-> {}]
    /\ delivered = [p \in Peers |-> <<>>]
    /\ reported = [p \in Peers |-> {}]

-----------------------------------------------------------------------------
(* Calls of the application *)

NoCallRuns == \A p \in Peers : Idle(p)

AppSend(p, type, len) ==
    /\ NoCallRuns
    /\ p \in Senders
    /\ calls < MAX_SENDS
    /\ calls' = calls + 1
    /\ \/ /\ Send(p, type, len, calls')
          /\ accepted' = accepted \cup {[from |-> p, type |-> type, id |-> next_id'[p],
                                         len |-> len, body |-> calls']}
       \/ /\ SendRefused(p, type, len)
          /\ UNCHANGED accepted
    /\ UNCHANGED <<wire, pings, repeats, seen, delivered, reported>>

AppPing(p) ==
    /\ NoCallRuns
    /\ pings < MAX_PINGS
    /\ pings' = pings + 1
    /\ SendPing(p)
    /\ UNCHANGED <<wire, calls, repeats, accepted, seen, delivered, reported>>

\* The part of a call that puts nothing on the link.
Quiet(p) ==
    /\ SendFragment(p) \/ TickFail(p) \/ TickRetransmit(p) \/ PollIdle(p)
    /\ UNCHANGED <<wire, historyVars>>

AppPoll(p, delta) == NoCallRuns /\ Poll(p, delta) /\ UNCHANGED <<wire, historyVars>>

\* A full link drops what is added to it.
Transmit(p, packet) ==
    wire' = IF Len(wire[p]) < WIRE_CAP THEN [wire EXCEPT ![p] = Append(@, packet)]
            ELSE wire

OutputAck(p) ==
    /\ PollAck(p)
    /\ Transmit(p, AckFor(Head(acks[p])))
    /\ UNCHANGED historyVars

OutputWrite(p) ==
    \E k \in QueueKind :
        /\ \/ PollUrgent(p, TRUE) /\ k = UrgentQueue(queues[p])
           \/ PollNewData(p, TRUE) /\ k = "new_data"
        /\ Head(queues[p][k]).kind = "write"
        /\ Transmit(p, Head(queues[p][k]).packet)
        /\ UNCHANGED historyVars

OutputSendFailed(p) ==
    /\ PollUrgent(p, TRUE)
    /\ LET e == Head(queues[p][UrgentQueue(queues[p])])
       IN  /\ e.kind = "send_failed"
           /\ reported' = [reported EXCEPT ![p] = @ \cup {e.id}]
    /\ UNCHANGED <<wire, calls, pings, repeats, accepted, seen, delivered>>

OutputMessage(p) ==
    /\ PollMessage(p)
    /\ delivered' = IF Head(messages[p]).type = "data"
                    THEN [delivered EXCEPT ![p] = Append(@, Head(messages[p]))]
                    ELSE delivered
    /\ UNCHANGED <<wire, calls, pings, repeats, accepted, seen, reported>>

-----------------------------------------------------------------------------
(* The link *)

\* The packet at position i of the link from p leaves it.
Without(s, i) == SubSeq(s, 1, i - 1) \o SubSeq(s, i + 1, Len(s))

Arrivals(p) == {i \in 1 .. Len(wire[p]) : Reorder \/ i = 1}

\* Packets that change no engine state: see Receive.
Ignored(p, packet) ==
    \/ packet.type = "pong"
    \/ /\ packet.type \in MessageTypes
       /\ Rejects(reassembly[p], packet)
       /\ ~(packet.type = "data" /\ is_duplicate(p, KeyOf(packet)))

Deliver(p, i) ==
    LET q == Other(p)
        packet == wire[p][i]
    IN  /\ NoCallRuns
        /\ \/ wire' = [wire EXCEPT ![p] = Without(@, i)] /\ UNCHANGED repeats
           \/ repeats < MAX_REPEATS /\ repeats' = repeats + 1 /\ UNCHANGED wire
        /\ \/ Receive(q, packet)
           \/ Ignored(q, packet) /\ UNCHANGED vars
        /\ seen' = IF packet.type = "data" /\ ~Ignored(q, packet)
                   THEN [seen EXCEPT ![q] = @ \cup {KeyOf(packet)}]
                   ELSE seen
        /\ UNCHANGED <<calls, pings, accepted, delivered, reported>>

Lose(p, i) ==
    /\ NoCallRuns
    /\ Lossy
    /\ wire' = [wire EXCEPT ![p] = Without(@, i)]
    /\ UNCHANGED <<vars, historyVars>>

Outputs(p) ==
    OutputAck(p) \/ OutputWrite(p) \/ OutputSendFailed(p) \/ OutputMessage(p)

TransportNext ==
    \E p \in Peers :
        \/ \E type \in SendTypes, len \in Lengths : AppSend(p, type, len)
        \/ AppPing(p)
        \/ \E delta \in Deltas : AppPoll(p, delta)
        \/ Quiet(p)
        \/ Outputs(p)
        \/ \E i \in Arrivals(p) : Deliver(p, i) \/ Lose(p, i)

TransportSpec == TransportInit /\ [][TransportNext]_allVars

\* The application polls again and again while time passes, and a call that was
\* started runs to its end.  Of the link nothing is assumed but that it does not
\* repeat packets for ever (MAX_REPEATS): poll sends ACKs and Pongs first, so an
\* endless stream of repeated packets would keep new data waiting.
Fairness ==
    \A p \in Peers :
        /\ WF_allVars(Quiet(p) \/ Outputs(p))
        /\ SF_allVars(\E delta \in Deltas \ {0} : AppPoll(p, delta))

FairTransportSpec == TransportSpec /\ Fairness

-----------------------------------------------------------------------------
(* Properties *)

\* What is queued for an application is a message the other one sent, whole and
\* with the bytes of that message only, whatever the link loses, repeats or
\* reorders and however fragments of several messages interleave.
DeliveredIntact ==
    \A p \in Peers : \A m \in Range(messages[p]) :
        \E a \in accepted :
            /\ a.from = Other(p) /\ a.type = m.type /\ a.id = m.id
            /\ m.bytes = [o \in 0 .. a.len - 1 |-> a.body]

\* A Data message is handed to the application at most once, although its
\* packets may arrive many times.
AtMostOnce ==
    \A p \in Peers : \A i, j \in 1 .. Len(delivered[p]) :
        delivered[p][i].id = delivered[p][j].id => i = j

\* A packet on the link that the other engine accepted before is a duplicate to
\* it: the ring of PacketDedup has not forgotten it.  What holds for as many
\* packets as the ring has places, and is lost with more (window_rollover).
WindowCovers ==
    \A p \in Peers : \A i \in DOMAIN wire[p] :
        (wire[p][i].type = "data" /\ KeyOf(wire[p][i]) \in seen[Other(p)])
            => is_duplicate(Other(p), KeyOf(wire[p][i]))

FailureKnown(p, id) == id \in reported[p] \/ SendFailed(id) \in Range(queues[p]["local"])

\* The sender never forgets a packet it accepted: until the other engine has
\* accepted the packet it is in flight, or still to be queued by send, or the
\* failure of its message is on its way to the application.
NothingForgotten ==
    \A a \in accepted : a.type = "data" =>
        \A n \in 0 .. fragment_count(a.len) - 1 :
            \/ <<a.id, n>> \in seen[Other(a.from)]
            \/ HoldsKey(in_flight[a.from], <<a.id, n>>)
            \/ sending[a.from] # NoCall /\ sending[a.from].id = a.id /\ n >= sending[a.from].index
            \/ FailureKnown(a.from, a.id)

Settled(a) ==
    \/ a.id \in reported[a.from]
    \/ /\ \A n \in 0 .. fragment_count(a.len) - 1 : <<a.id, n>> \in seen[Other(a.from)]
       /\ \A i \in Slots : in_flight[a.from][i] # None => in_flight[a.from][i].packet.id # a.id

\* Every Data message a send call accepted is settled in the end: the other
\* engine has accepted and acknowledged all its packets, or the failure was
\* reported to the application.
EventuallySettled ==
    \A b \in Bodies :
        (\E a \in accepted : a.type = "data" /\ a.body = b)
            ~> (\E a \in accepted : a.body = b /\ Settled(a))

-----------------------------------------------------------------------------
(* What an application sees, as a state of module Channel *)

ContentOf(a) == [from |-> a.from, id |-> a.id, bytes |-> [o \in 0 .. a.len - 1 |-> a.body]]

Offered == {a \in accepted : a.type = "data"}

Arrived(a) == \A n \in 0 .. fragment_count(a.len) - 1 : <<a.id, n>> \in seen[Other(a.from)]

ArrivedData == {a \in Offered : Arrived(a)}

HasMessage(p, id) ==
    \E m \in Range(messages[p]) \cup Range(delivered[p]) : m.type = "data" /\ m.id = id

\* The queue of messages has a place for all that can be sent or repeated.
RoomForAll == MAX_SENDS + MAX_REPEATS <= MAX_MESSAGES

\* A Data message that its receiver accepted, and will not accept again, is not
\* lost there: a message of one packet is in the queue for the application or
\* was handed over, even when receive reported an error because the ACK found no
\* place.  Stated for a queue that cannot overflow; a longer message may also be
\* lost to the limits of reassembly.
ArrivedKept ==
    RoomForAll => \A a \in ArrivedData :
        fragment_count(a.len) = 1 => HasMessage(Other(a.from), a.id)

Unsettled(a) ==
    \/ sending[a.from] # NoCall /\ sending[a.from].id = a.id
    \/ \E i \in Occupied(in_flight[a.from]) : in_flight[a.from][i].packet.id = a.id

ConfirmedData == {a \in Offered : ~Unsettled(a) /\ ~FailureKnown(a.from, a.id)}

FailedData == {a \in Offered : FailureKnown(a.from, a.id)}

TakenData ==
    [p \in Peers |-> [i \in 1 .. Len(delivered[p]) |->
        [from |-> Other(p), id |-> delivered[p][i].id, bytes |-> delivered[p][i].bytes]]]

Contents(M) == {ContentOf(a) : a \in M}

Promise == INSTANCE Channel WITH
    offered <- Contents(Offered),
    arrived <- Contents(ArrivedData),
    taken <- TakenData,
    confirmed <- Contents(ConfirmedData),
    failed <- Contents(FailedData)

\* Two engines and the link implement a channel (module Channel) as long as the
\* duplicate window and the scheduler have room: a message is handed over at most
\* once and only after all of it arrived, and the sender, whatever ACKs are lost,
\* late or repeated, takes it for delivered only when it arrived, never both
\* confirms it and gives it up, and never goes back on either.
ImplementsChannel == Promise!Spec
=============================================================================
