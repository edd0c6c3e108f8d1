--------------------------- MODULE SessionProofs ----------------------------
(***************************************************************************)
(* Two endpoints with their engines, for all values of the constants: the  *)
(* engines keep their invariant although sessions begin and end, and a     *)
(* session whose engine lost a write is on its way to be dropped.          *)
(***************************************************************************)
EXTENDS Session, EngineProofs

\* A leaf is left to Zenon unless it names another prover.
USE Zenon

Item == Packet \cup {Noise}

Running ==
    {NoCall} \cup {Polling(p) : p \in Peers} \cup {Dropping(p) : p \in Peers}
    \cup [op: {"receive"}, peer: Peers, items: Seq(Item), report: Reports]

StateOK ==
    /\ DOMAIN slot = Peers
    /\ lag \in [Peers -> Nat]
    /\ running \in Running
    /\ wire \in [Peers -> Seq(Packet)]
    /\ calls \in 0 .. MAX_SENDS

\* Only the poll in progress has a tick.
OneTick == \A p \in Peers : ticking[p] # NoCall => running = Polling(p)

\* A packet that was never transmitted has its write in the scheduler, unless
\* its session is being dropped.
Live == \A p \in Peers : running = Dropping(p) \/ QueuedIfUnsent(queues[p], in_flight[p])

SessionInv == IndInv /\ StateOK /\ OneTick /\ Live

\* The calls that may be in progress differ.
LEMMA CallsDiffer ==
    /\ \A p, q \in Peers : p # q => Polling(p) # Polling(q) /\ Dropping(p) # Dropping(q)
    /\ \A p, q \in Peers : Polling(p) # Dropping(q)
    /\ \A p \in Peers : NoCall # Dropping(p)
<1>1. \A p \in Peers : /\ Polling(p).op = "poll" /\ Polling(p).peer = p
                       /\ Dropping(p).op = "drop" /\ Dropping(p).peer = p
  BY DEF Polling, Dropping
<1> HIDE DEF Polling, Dropping
<1> QED BY <1>1, RunningAssumption, SMTT(30)

\* There are two peers, each the other of the other.
LEMMA OtherPeer ==
    ASSUME NEW p \in Peers
    PROVE  Other(p) \in Peers
<1>1. PICK x, y \in Peers : x # y /\ Peers = {x, y}
  BY SessionAssumption
<1>2. Other(x) = y /\ Other(y) = x
  BY <1>1 DEF Other
<1> QED BY <1>1, <1>2

\* Between calls no engine has one in progress, and every session is live.
LEMMA FreeIsLive ==
    ASSUME SessionInv, Free
    PROVE  /\ running = NoCall /\ \A p \in Peers : sending[p] = NoCall /\ ticking[p] = NoCall
           /\ \A p \in Peers : running # Dropping(p)
BY CallsDiffer DEF Free, Idle

\* A step that keeps the writes of unsent packets keeps sessions live.
LEMMA LiveStays ==
    ASSUME Live, AllStay, running' = running \/ \A p \in Peers : running # Dropping(p)
    PROVE  Live'
BY DEF Live, AllStay, UnsentStays, StaysQueued

\* A step that leaves the engines alone.
LEMMA EnginesRest ==
    ASSUME IndInv, UNCHANGED vars
    PROVE  IndInv' /\ AllStay /\ ticking' = ticking
BY Unchanged DEF vars, sendVars, receiveVars, callVars, IndInv

\* The hello message of connect finds room in a new engine.
LEMMA HelloFits ==
    ASSUME NEW p \in Peers, NEW c \in {NoCall, HelloCall(p)}
    PROVE  /\ SenderInv(EmptyScheduler, EmptyInFlight, 0, c, NoCall)
           /\ QueuedIfUnsent(EmptyScheduler, EmptyInFlight)
<1>1. /\ EmptyScheduler \in SchedulerType /\ SchedulerLen(EmptyScheduler) = 0
      /\ UniqueWrites(EmptyScheduler) /\ \A k \in QueueKind : DOMAIN EmptyScheduler[k] = {}
  <2>1. \A k \in QueueKind : EmptyScheduler[k] = <<>>
    BY DEF EmptyScheduler
  <2>2. \A k \in QueueKind : Len(EmptyScheduler[k]) = 0 /\ DOMAIN EmptyScheduler[k] = {}
    BY <2>1, SMTT(30)
  <2>3. EmptyScheduler \in SchedulerType
    BY SMTT(30) DEF EmptyScheduler, SchedulerType
  <2>4. /\ Len(EmptyScheduler["control"]) = 0 /\ Len(EmptyScheduler["retransmit"]) = 0
        /\ Len(EmptyScheduler["new_data"]) = 0 /\ Len(EmptyScheduler["local"]) = 0
    BY <2>2 DEF QueueKind
  <2>5. SchedulerLen(EmptyScheduler) = 0 + 0 + 0 + 0
    BY <2>4, Zenon DEF SchedulerLen
  <2> QED BY <2>2, <2>3, <2>5, SMTT(30) DEF UniqueWrites
<1>2. EmptyInFlight \in TableType /\ Occupied(EmptyInFlight) = {}
  BY DEF EmptyInFlight, TableType, Occupied
<1>3. Cardinality(Occupied(EmptyInFlight)) = 0
  BY <1>2, FS_EmptySet
<1>4. SchedulerLen(EmptyScheduler) <= MAX_EVENTS
  BY <1>1, SchedulerAssumption, SMTT(30)
<1>5. UniqueKeys(EmptyInFlight) /\ WithinLimit(EmptyInFlight)
      /\ Disciplined(EmptyScheduler, EmptyInFlight)
      /\ QueuedIfUnsent(EmptyScheduler, EmptyInFlight)
  BY <1>2 DEF UniqueKeys, WithinLimit, Disciplined, QueuedIfUnsent
<1>6. c \in SendCall \cup {NoCall} /\ Room(EmptyScheduler, EmptyInFlight, c)
  <2>1. CASE c = NoCall
    BY <2>1 DEF Room
  <2>2. CASE c = HelloCall(p)
    <3>1. c.type = "data" /\ c.len = 1 /\ c.offset = 0
      BY <2>2 DEF HelloCall
    <3>2. HelloId(p) \in MessageId
      BY AllocType, EngineAssumption DEF HelloId
    <3>3. 0 \in Bodies
      BY SessionAssumption, SMTT(30)
    <3>4. c \in SendCall
      BY <2>2, <3>2, <3>3, SMTT(30) DEF HelloCall, SendCall, MessageTypes
    <3>5. fragment_count(1) = 1
      <4>1. 1 + FRAGMENT_BYTES - 1 = FRAGMENT_BYTES /\ FRAGMENT_BYTES \in Nat \ {0}
        BY PacketsAssumption, SMTT(30)
      <4>2. FRAGMENT_BYTES \div FRAGMENT_BYTES = 1
        BY <4>1, SMTT(30)
      <4> QED BY <4>1, <4>2 DEF fragment_count
    <3>6. fragment_count(c.len - c.offset) = 1
      BY <3>1, <3>5, SMTT(30)
    <3>7. 1 <= SchedulerAvailable(EmptyScheduler) /\ 1 <= MAX_IN_FLIGHT - 0
      BY <1>1, SchedulerAssumption, InFlightAssumption, SMTT(30) DEF SchedulerAvailable
    <3> QED BY <1>3, <3>4, <3>6, <3>7 DEF Room
  <2> QED BY <2>1, <2>2
<1> QED BY <1>1, <1>2, <1>3, <1>4, <1>5, <1>6 DEF SenderInv

-----------------------------------------------------------------------------
(* The steps *)

\* An engine that is made anew, or dropped, satisfies the invariant of a new
\* one, and the other engine is left alone.
LEMMA ResetKeeps ==
    ASSUME IndInv, NEW p \in Peers, NEW id \in MessageId, NEW c \in {NoCall, HelloCall(p)},
           ResetEngine(p, id, c)
    PROVE  /\ IndInv' /\ ticking'[p] = NoCall
           /\ QueuedIfUnsent(queues'[p], in_flight'[p])
           /\ \A q \in Peers : q # p => ticking'[q] = ticking[q] /\ UnsentStays(q)
<1>1. SenderInv(EmptyScheduler, EmptyInFlight, 0, c, NoCall)
      /\ QueuedIfUnsent(EmptyScheduler, EmptyInFlight)
  BY HelloFits
<1>2. /\ queues' = [queues EXCEPT ![p] = EmptyScheduler]
      /\ in_flight' = [in_flight EXCEPT ![p] = EmptyInFlight]
      /\ in_flight_len' = [in_flight_len EXCEPT ![p] = 0]
      /\ sending' = [sending EXCEPT ![p] = c]
      /\ ticking' = [ticking EXCEPT ![p] = NoCall]
  BY DEF ResetEngine
<1>3. SenderOK' /\ \A q \in Peers : q # p => UnsentStays(q)
  <2>1. /\ Sets(queues, queues', p, EmptyScheduler) /\ Sets(in_flight, in_flight', p, EmptyInFlight)
        /\ Sets(in_flight_len, in_flight_len', p, 0) /\ Sets(sending, sending', p, c)
        /\ Sets(ticking, ticking', p, NoCall)
    BY <1>2 DEF Sets
  <2> QED BY <1>1, <2>1, LiftSender DEF IndInv
<1>4. ReceiverOK'
  <2>1. EmptyReassembly \in ReassemblyType /\ Active(EmptyReassembly) = {}
    BY DEF EmptyReassembly, ReassemblyType, Active
  <2>2. Pending(EmptyReassembly)
    BY <2>1 DEF Pending
  <2>3. <<>> \in Seq(PacketKey) /\ <<>> \in Seq(MessageEvent) /\ Window(<<>>)
    BY InFlightAssumption, SMTT(30) DEF Window
  <2>4. /\ Sets(acks, acks', p, <<>>) /\ Sets(dedup, dedup', p, <<>>)
        /\ Sets(reassembly, reassembly', p, EmptyReassembly) /\ Sets(messages, messages', p, <<>>)
    BY DEF ResetEngine, Sets
  <2> QED BY <2>1, <2>2, <2>3, <2>4, LiftReceiver DEF IndInv
<1>5. NumbersOK'
  BY DEF ResetEngine, IndInv, NumbersOK
<1>6. /\ queues'[p] = EmptyScheduler /\ in_flight'[p] = EmptyInFlight /\ ticking'[p] = NoCall
      /\ \A q \in Peers : q # p => ticking'[q] = ticking[q]
  BY <1>2 DEF IndInv, SenderOK
<1> QED BY <1>1, <1>3, <1>4, <1>5, <1>6 DEF IndInv

\* connect, disconnect and disconnect_if_idle, and the end of a call that drops
\* its engine.
LEMMA SessionsBeginAndEnd ==
    ASSUME SessionInv, NEW p \in Peers,
           Connect(p) \/ Disconnect(p) \/ CheckIdle(p) \/ DropEngine(p)
    PROVE  SessionInv'
<1>1. HelloId(p) \in MessageId /\ Seed[p] \in MessageId
  BY AllocType, EngineAssumption DEF HelloId
<1>2. PICK id \in MessageId, c \in {NoCall, HelloCall(p)} : ResetEngine(p, id, c)
  BY <1>1 DEF Connect, Disconnect, CheckIdle, EndSession, DropEngine
<1>3. /\ IndInv' /\ ticking'[p] = NoCall
      /\ QueuedIfUnsent(queues'[p], in_flight'[p])
      /\ \A q \in Peers : q # p => ticking'[q] = ticking[q] /\ UnsentStays(q)
  BY <1>2, ResetKeeps DEF SessionInv
<1>4. \A q \in Peers : /\ ticking[q] = NoCall
                       /\ q # p => QueuedIfUnsent(queues[q], in_flight[q])
  <2>1. CASE Free
    BY <2>1, FreeIsLive DEF SessionInv, Live
  <2>2. CASE running = Dropping(p)
    BY <2>2, CallsDiffer DEF SessionInv, OneTick, Live
  <2> QED BY <2>1, <2>2 DEF Connect, Disconnect, CheckIdle, DropEngine
<1>5. OneTick' /\ Live'
  BY <1>3, <1>4, SMTT(30) DEF OneTick, Live, UnsentStays, StaysQueued
<1>6. StateOK'
  BY SessionAssumption, SMTT(30) DEF SessionInv, StateOK, Running, Connect, Disconnect, CheckIdle,
     EndSession, DropEngine, slotVars, historyVars, EmptySlot, NewSession
<1> QED BY <1>3, <1>5, <1>6 DEF SessionInv

\* send and its loop.
LEMMA SendSteps ==
    ASSUME SessionInv, NEW p \in Peers, SendLoop(p) \/ \E len \in Lengths : AppSend(p, len)
    PROVE  SessionInv'
<1>1. CASE SendLoop(p)
  <2>1. IndInv' /\ AllStay /\ ticking' = ticking
    BY <1>1, SendFragmentPreserves DEF SendLoop, SessionInv, SendFragment
  <2>2. UNCHANGED <<slot, lag, running, wire, calls>>
    BY <1>1 DEF SendLoop, slotVars, historyVars
  <2> QED BY <2>1, <2>2, LiveStays DEF SessionInv, StateOK, OneTick
<1>2. ASSUME NEW len \in Lengths, AppSend(p, len)
      PROVE  SessionInv'
  <2>1. calls' \in 0 .. MAX_SENDS /\ calls' \in Bodies /\ "data" \in MessageTypes
    BY <1>2, SessionAssumption, SMTT(30) DEF AppSend, SessionInv, StateOK, MessageTypes
  <2>2. Send(p, "data", len, calls') \/ SendRefused(p, "data", len)
    BY <1>2 DEF AppSend
  <2>3. IndInv' /\ AllStay
    BY <2>1, <2>2, SendPreserves, SendRefusedPreserves DEF SessionInv
  <2>4. ticking' = ticking
    BY <2>2 DEF Send, SendRefused, callVars
  <2>5. UNCHANGED <<slot, lag, running, wire>>
    BY <1>2 DEF AppSend, slotVars
  <2> QED BY <2>1, <2>3, <2>4, <2>5, LiveStays DEF SessionInv, StateOK, OneTick
<1> QED BY <1>1, <1>2

\* Time passes, and packets get lost.
LEMMA LinkSteps ==
    ASSUME SessionInv, Tick \/ \E p \in Peers : Lose(p)
    PROVE  SessionInv'
<1>1. UNCHANGED vars /\ UNCHANGED <<running, calls>>
  BY DEF Tick, Lose, historyVars
<1>2. IndInv' /\ AllStay /\ ticking' = ticking
  BY <1>1, EnginesRest DEF SessionInv
<1>3. DOMAIN slot' = Peers /\ lag' \in [Peers -> Nat] /\ wire' \in [Peers -> Seq(Packet)]
  <2>1. CASE Tick
    <3>1. \A t \in Nat : Plus(t) \in Nat
      BY SessionAssumption, SMTT(30) DEF Plus
    <3> QED BY <2>1, <3>1 DEF Tick, SessionInv, StateOK
  <2>2. ASSUME NEW p \in Peers, Lose(p)
        PROVE  DOMAIN slot' = Peers /\ lag' \in [Peers -> Nat] /\ wire' \in [Peers -> Seq(Packet)]
    <3>1. wire[p] \in Seq(Packet) /\ wire[p] # <<>>
      BY <2>2 DEF Lose, SessionInv, StateOK
    <3>2. Tail(wire[p]) \in Seq(Packet)
      BY <3>1, SMTT(30)
    <3> QED BY <2>2, <3>2 DEF Lose, SessionInv, StateOK, slotVars
  <2> QED BY <2>1, <2>2
<1> QED BY <1>1, <1>2, <1>3, LiveStays DEF SessionInv, StateOK, OneTick


\* The start of poll, its probe and its tick.
LEMMA PollSteps ==
    ASSUME SessionInv, NEW p \in Peers, PollPing(p) \/ PollEngine(p) \/ PollTick(p)
    PROVE  SessionInv'
<1>1. CASE PollPing(p)
  <2>1. IndInv' /\ AllStay /\ ticking' = ticking
    <3>1. CASE UNCHANGED vars
      BY <3>1, EnginesRest DEF SessionInv
    <3>2. CASE SendPing(p)
      BY <3>2, LivenessPreserves DEF SessionInv, SendPing, callVars
    <3> QED BY <1>1, <3>1, <3>2 DEF PollPing
  <2>2. Free /\ running' \in {Dropping(p), Polling(p)} /\ DOMAIN slot' = DOMAIN slot
        /\ UNCHANGED <<lag, wire, calls>>
    BY <1>1 DEF PollPing, historyVars
  <2>3. running' \in Running
    BY <2>2 DEF Running
  <2>4. OneTick' /\ Live'
    BY <2>1, <2>2, FreeIsLive, LiveStays DEF SessionInv, OneTick
  <2> QED BY <2>1, <2>2, <2>3, <2>4 DEF SessionInv, StateOK
<1>2. CASE PollEngine(p)
  <2>1. lag[p] \in Nat /\ Poll(p, lag[p]) /\ running' = Polling(p)
    BY <1>2 DEF PollEngine, SessionInv, StateOK
  <2>2. IndInv' /\ AllStay
    BY <2>1, PollPreserves DEF SessionInv
  <2>3. \A q \in Peers : running # Dropping(q) /\ ticking[q] = NoCall
    <3>1. CASE Free
      BY <3>1, FreeIsLive
    <3>2. CASE running = Polling(p) /\ ticking[p] = NoCall
      BY <3>2, CallsDiffer DEF SessionInv, OneTick
    <3> QED BY <1>2, <3>1, <3>2 DEF PollEngine
  <2>4. \A q \in Peers : q # p => ticking'[q] = ticking[q]
    BY <2>1 DEF Poll, SessionInv, IndInv, SenderOK
  <2>5. OneTick' /\ Live'
    BY <2>1, <2>2, <2>3, <2>4, LiveStays DEF SessionInv, OneTick
  <2>6. StateOK'
    BY <1>2 DEF PollEngine, SessionInv, StateOK, Running, historyVars
  <2> QED BY <2>2, <2>5, <2>6 DEF SessionInv
<1>3. CASE PollTick(p)
  <2>1. IndInv' /\ AllStay
    BY <1>3, TickFailPreserves, TickRetransmitPreserves DEF PollTick, SessionInv
  <2>2. /\ ticking[p] # NoCall /\ UNCHANGED <<slot, lag, running, wire, calls>>
        /\ \A q \in Peers : q # p => ticking'[q] = ticking[q]
    BY <1>3 DEF PollTick, TickFail, TickRetransmit, SessionInv, IndInv, SenderOK, slotVars,
       historyVars
  <2> QED BY <2>1, <2>2, LiveStays DEF SessionInv, StateOK, OneTick
<1> QED BY <1>1, <1>2, <1>3

\* What a poll hands to the link is a packet.
LEMMA PolledPackets ==
    ASSUME IndInv, NEW p \in Peers
    PROVE  /\ acks[p] # <<>> => AckFor(Head(acks[p])) \in Packet
           /\ \A k \in QueueKind :
                  queues[p][k] # <<>> /\ Head(queues[p][k]).kind = "write" =>
                      Head(queues[p][k]).packet \in Packet
<1>1. acks[p] # <<>> => AckFor(Head(acks[p])) \in Packet
  <2>1. acks[p] # <<>> => Head(acks[p]) \in PacketKey
    BY SMTT(30) DEF IndInv, ReceiverOK
  <2> QED BY <2>1 DEF AckFor, Packet, AckPacket, PacketKey
<1>2. ASSUME NEW k \in QueueKind, queues[p][k] # <<>>, Head(queues[p][k]).kind = "write"
      PROVE  Head(queues[p][k]).packet \in Packet
  <2>1. Head(queues[p][k]) \in EngineOutput
    BY <1>2, PopShifts DEF IndInv, SenderOK
  <2> QED BY <1>2, <2>1 DEF EngineOutput, WriteEvent, SendFailedEvent
<1> QED BY <1>1, <1>2

\* A poll returns.  When a packet was lost for want of room the session is over.
LEMMA PolledKeeps ==
    ASSUME SessionInv, NEW p \in Peers, NEW result,
           IndInv', ticking[p] # NoCall, EndPoll(p), Polled(p, result),
           wire' \in [Peers -> Seq(Packet)],
           \A q \in Peers : q # p \/ result # "error" => UnsentStays(q)
    PROVE  SessionInv'
<1>1. running = Polling(p) /\ \A q \in Peers : running # Dropping(q)
  BY CallsDiffer DEF SessionInv, OneTick
<1>2. \A q \in Peers : ticking'[q] = NoCall
  BY <1>1, CallsDiffer DEF EndPoll, SessionInv, OneTick, IndInv, SenderOK
<1>3. /\ slot' = [slot EXCEPT ![p] = poll(slot[p], result)] /\ UNCHANGED <<lag, calls>>
      /\ running' = IF slot'[p].engine THEN NoCall ELSE Dropping(p)
  BY DEF Polled, EndCall, historyVars
<1>4. result = "error" => running' = Dropping(p)
  <2>1. slot'[p] = poll(slot[p], result)
    BY <1>3 DEF SessionInv, StateOK
  <2> QED BY <1>3, <2>1, SMTT(30) DEF poll, EmptySlot
<1>5. \A q \in Peers : QueuedIfUnsent(queues[q], in_flight[q])
  BY <1>1 DEF SessionInv, Live
<1>6. Live'
  BY <1>4, <1>5 DEF Live, UnsentStays, StaysQueued
<1>7. StateOK'
  <2>1. running' \in Running /\ DOMAIN slot' = DOMAIN slot
    BY <1>3 DEF Running
  <2> QED BY <1>3, <2>1 DEF SessionInv, StateOK
<1> QED BY <1>2, <1>6, <1>7 DEF SessionInv, OneTick


\* The link carries packets.
LEMMA TransmitType ==
    ASSUME NEW p \in Peers, NEW packet \in Packet, wire \in [Peers -> Seq(Packet)],
           Transmit(p, packet)
    PROVE  wire' \in [Peers -> Seq(Packet)]
<1>1. Append(wire[p], packet) \in Seq(Packet)
  BY SMTT(30)
<1> QED BY <1>1 DEF Transmit

\* The end of poll.
LEMMA PollOutSteps ==
    ASSUME SessionInv, NEW p \in Peers, PollOut(p)
    PROVE  SessionInv'
<1>1. IndInv /\ wire \in [Peers -> Seq(Packet)]
  BY DEF SessionInv, StateOK
<1>2. ASSUME PollAck(p) \/ PollMessage(p) \/ PollIdle(p)
      PROVE  IndInv' /\ AllStay /\ ticking[p] # NoCall /\ EndPoll(p)
  BY <1>1, <1>2, QuietOutputPreserves DEF PollAck, PollMessage, PollIdle, TickDone
<1>3. ASSUME NEW room \in BOOLEAN, PollUrgent(p, room) \/ PollNewData(p, room)
      PROVE  /\ IndInv' /\ ticking[p] # NoCall /\ EndPoll(p)
             /\ \A q \in Peers : q # p \/ room => UnsentStays(q)
  BY <1>1, <1>3, EventOutputPreserves DEF PollUrgent, PollNewData, TickDone, PollEvent
<1>4. ASSUME NEW room \in BOOLEAN, NEW packet \in Packet, TransmitOrFail(p, packet, room),
             IndInv', ticking[p] # NoCall, EndPoll(p),
             \A q \in Peers : q # p \/ room => UnsentStays(q)
      PROVE  SessionInv'
  <2>1. CASE room
    <3>1. wire' \in [Peers -> Seq(Packet)] /\ Polled(p, "transmit")
      BY <1>1, <1>4, <2>1, TransmitType DEF TransmitOrFail
    <3> QED BY <1>4, <2>1, <3>1, PolledKeeps
  <2>2. CASE ~room
    <3>1. wire' \in [Peers -> Seq(Packet)] /\ Polled(p, "error")
      BY <1>1, <1>4, <2>2 DEF TransmitOrFail
    <3> QED BY <1>4, <2>2, <3>1, PolledKeeps
  <2> QED BY <2>1, <2>2
<1>5. ASSUME NEW room \in TxRooms, PollOutAck(p, room)
      PROVE  SessionInv'
  <2>1. room \in BOOLEAN /\ AckFor(Head(acks[p])) \in Packet
    BY <1>1, <1>5, PolledPackets, EngineAssumption DEF PollOutAck, PollAck
  <2> QED BY <1>2, <1>4, <1>5, <2>1 DEF PollOutAck, AllStay
<1>6. ASSUME NEW room \in TxRooms, PollOutWrite(p, room)
      PROVE  SessionInv'
  <2>1. PICK k \in QueueKind :
            /\ \/ PollUrgent(p, room) /\ k = UrgentQueue(queues[p])
               \/ PollNewData(p, room) /\ k = "new_data"
            /\ Head(queues[p][k]).kind = "write"
            /\ TransmitOrFail(p, Head(queues[p][k]).packet, room)
    BY <1>6 DEF PollOutWrite
  <2>2. queues[p][k] # <<>>
    BY <2>1 DEF PollUrgent, PollNewData, HasUrgent, UrgentQueue
  <2>3. room \in BOOLEAN /\ Head(queues[p][k]).packet \in Packet
    BY <1>1, <2>1, <2>2, PolledPackets, EngineAssumption
  <2> QED BY <1>3, <1>4, <2>1, <2>3
<1>7. CASE PollOutFailed(p)
  BY <1>1, <1>3, <1>7, PolledKeeps DEF PollOutFailed
<1>8. CASE PollOutMessage(p)
  BY <1>1, <1>2, <1>8, PolledKeeps DEF PollOutMessage, AllStay
<1>9. CASE PollOutIdle(p)
  BY <1>1, <1>2, <1>9, PolledKeeps DEF PollOutIdle, AllStay
<1> QED BY <1>5, <1>6, <1>7, <1>8, <1>9 DEF PollOut

\* While an endpoint receives, no engine polls and no session is being dropped.
LEMMA ReceivingIsLive ==
    ASSUME SessionInv, NEW q \in Peers, Receiving(q)
    PROVE  /\ running \in [op: {"receive"}, peer: Peers, items: Seq(Item), report: Reports]
           /\ \A p \in Peers : ticking[p] = NoCall /\ running # Dropping(p)
<1>1. \A p \in Peers : Polling(p).op = "poll" /\ Dropping(p).op = "drop"
  BY DEF Polling, Dropping
<1>2. running # NoCall /\ running.op = "receive"
  BY DEF Receiving
<1>3. \A p \in Peers : running # Polling(p) /\ running # Dropping(p)
  BY <1>1, <1>2
<1> QED BY <1>2, <1>3 DEF SessionInv, StateOK, Running, OneTick

\* What receive reports is a report.
LEMMA ReportType ==
    ASSUME NEW q \in Peers, NEW packet
    PROVE  ReportOf(q, packet) \in Reports
BY DEF ReportOf, Reports

\* receive, packet by packet.
LEMMA ReceiveSteps ==
    ASSUME SessionInv, NEW q \in Peers, ReceiveItem(q) \/ ReceiveEnd(q)
    PROVE  SessionInv'
<1>1. /\ running \in [op: {"receive"}, peer: Peers, items: Seq(Item), report: Reports]
      /\ \A p \in Peers : ticking[p] = NoCall /\ running # Dropping(p)
  BY ReceivingIsLive DEF ReceiveItem, ReceiveEnd
<1>2. ASSUME IndInv', AllStay, ticking' = ticking
      PROVE  OneTick' /\ Live'
  BY <1>1, <1>2, LiveStays DEF SessionInv, OneTick
<1>3. CASE ReceiveItem(q)
  <2> DEFINE packet == Head(running.items)
             report == ReportOf(q, packet)
  <2>1. packet \in Item /\ Tail(running.items) \in Seq(Item)
    BY <1>1, <1>3, SMTT(30) DEF ReceiveItem
  <2>2. report \in Reports
    BY ReportType
  <2>3. /\ Receive(q, packet) \/ UNCHANGED vars
        /\ DOMAIN slot' = DOMAIN slot /\ UNCHANGED <<lag, wire, calls>>
        /\ running' = IF report = "error" THEN Dropping(q)
                      ELSE [running EXCEPT !.items = Tail(@), !.report = report]
    BY <1>3 DEF ReceiveItem, historyVars
  <2>4. running' \in Running
    BY <1>1, <2>1, <2>2, <2>3 DEF Running
  <2>5. IndInv' /\ AllStay /\ ticking' = ticking
    <3>1. CASE UNCHANGED vars
      BY <3>1, EnginesRest DEF SessionInv
    <3>2. CASE Receive(q, packet)
      <4>1. packet # Noise
        BY <3>2, SMTT(30)
           DEF Receive, ReceiveDuplicate, ReceiveData, ReceiveLog, ReceiveAck, ReceivePing,
           Noise
      <4>2. packet \in Packet
        BY <2>1, <4>1 DEF Item
      <4>3. ticking' = ticking
        BY <3>2 DEF Receive, ReceiveDuplicate, ReceiveData, ReceiveLog, ReceiveAck, ReceivePing,
           callVars
      <4> QED BY <3>2, <4>2, <4>3, ReceivePreserves DEF SessionInv
    <3> QED BY <2>3, <3>1, <3>2
  <2> QED BY <1>2, <2>3, <2>4, <2>5 DEF SessionInv, StateOK
<1>4. CASE ReceiveEnd(q)
  <2>1. IndInv' /\ AllStay /\ ticking' = ticking
    BY <1>4, EnginesRest DEF ReceiveEnd, SessionInv
  <2>2. DOMAIN slot' = DOMAIN slot /\ running' \in Running /\ UNCHANGED <<lag, wire, calls>>
    BY <1>4 DEF ReceiveEnd, EndCall, Running, historyVars
  <2> QED BY <1>2, <2>1, <2>2 DEF SessionInv, StateOK
<1> QED BY <1>3, <1>4


\* The start of receive: the call takes packets off the link.
LEMMA ReceiveStartStep ==
    ASSUME SessionInv, NEW q \in Peers, NEW k \in 0 .. CHUNK, NEW noise \in BOOLEAN,
           k <= Len(wire[Other(q)]), ReceiveStart(q, k, noise)
    PROVE  SessionInv'
<1> DEFINE p == Other(q)
           items == SubSeq(wire[p], 1, k) \o (IF noise THEN <<Noise>> ELSE <<>>)
<1>1. p \in Peers /\ wire[p] \in Seq(Packet) /\ k \in Nat
  BY OtherPeer, SMTT(30) DEF SessionInv, StateOK
<1>2. /\ Free /\ UNCHANGED <<vars, calls>>
      /\ wire' = [wire EXCEPT ![p] = SubSeq(@, k + 1, Len(@))]
      /\ lag' = IF slot[q].engine THEN lag ELSE [lag EXCEPT ![q] = FRESH_LAG]
      /\ DOMAIN slot' = DOMAIN slot
      /\ running' = [op |-> "receive", peer |-> q, items |-> items, report |-> "incomplete"]
  BY DEF ReceiveStart, historyVars
<1>3. items \in Seq(Item)
  <2>1. SubSeq(wire[p], 1, k) \in Seq(Packet)
    BY <1>1, SMTT(30)
  <2>2. SubSeq(wire[p], 1, k) \in Seq(Item)
    BY <2>1, SMTT(30) DEF Item
  <2>3. (IF noise THEN <<Noise>> ELSE <<>>) \in Seq(Item)
    <3>1. Noise \in Item
      BY DEF Item
    <3>2. <<Noise>> \in Seq(Item) /\ <<>> \in Seq(Item)
      BY <3>1, SMTT(30)
    <3> QED BY <3>2
  <2> QED BY <2>2, <2>3, SMTT(30)
<1>4. wire' \in [Peers -> Seq(Packet)]
  <2>1. SubSeq(wire[p], k + 1, Len(wire[p])) \in Seq(Packet)
    BY <1>1, SMTT(30)
  <2> QED BY <1>1, <1>2, <2>1 DEF SessionInv, StateOK
<1> HIDE DEF items
<1>5. running' \in Running
  BY <1>2, <1>3 DEF Running, Reports
<1>6. lag' \in [Peers -> Nat]
  BY <1>2, SessionAssumption DEF SessionInv, StateOK
<1>7. IndInv' /\ AllStay /\ ticking' = ticking
  BY <1>2, EnginesRest DEF SessionInv
<1>8. OneTick' /\ Live'
  BY <1>2, <1>7, FreeIsLive, LiveStays DEF SessionInv, OneTick
<1> QED BY <1>2, <1>4, <1>5, <1>6, <1>7, <1>8 DEF SessionInv, StateOK

-----------------------------------------------------------------------------
(* The theorem *)

\* The endpoints start with no session, and with engines as new makes them.
LEMMA SessionStart == SessionInit => SessionInv
<1> SUFFICES ASSUME SessionInit
             PROVE  SessionInv
  OBVIOUS
<1>1. IndInv
  BY InitInd DEF SessionInit
<1>2. \A p \in Peers : ticking[p] = NoCall /\ QueuedIfUnsent(queues[p], in_flight[p])
  <2>1. \A p \in Peers : ticking[p] = NoCall /\ queues[p] = EmptyScheduler
                         /\ in_flight[p] = EmptyInFlight
    BY DEF SessionInit, Init
  <2> QED BY <2>1, HelloFits
<1>3. StateOK
  BY SessionAssumption, SMTT(30) DEF SessionInit, StateOK, Running
<1> QED BY <1>1, <1>2, <1>3 DEF SessionInv, OneTick, Live

\* Every call of an application, every output and every arrival keeps the
\* invariant of the sessions.
LEMMA SessionStep == SessionInv /\ [SessionNext]_allVars => SessionInv'
<1> SUFFICES ASSUME SessionInv, [SessionNext]_allVars
             PROVE  SessionInv'
  OBVIOUS
<1>1. ASSUME NEW p \in Peers, Work(p)
      PROVE  SessionInv'
  BY <1>1, SendSteps, PollSteps, PollOutSteps, ReceiveSteps, SessionsBeginAndEnd DEF Work
<1>2. ASSUME NEW p \in Peers, NEW k \in 0 .. CHUNK, NEW noise \in {FALSE, Noisy},
             k <= Len(wire[Other(p)]) /\ ReceiveStart(p, k, noise)
      PROVE  SessionInv'
  BY <1>2, ReceiveStartStep, SessionAssumption
<1>3. CASE UNCHANGED allVars
  <2>1. UNCHANGED vars /\ UNCHANGED <<slot, lag, running, wire, calls>>
    BY <1>3 DEF allVars, slotVars, historyVars
  <2>2. IndInv' /\ AllStay /\ ticking' = ticking
    BY <2>1, EnginesRest DEF SessionInv
  <2> QED BY <2>1, <2>2, LiveStays DEF SessionInv, StateOK, OneTick
<1> QED BY <1>1, <1>2, <1>3, SendSteps, PollSteps, SessionsBeginAndEnd, LinkSteps
        DEF SessionNext

\* Sessions begin, end and begin again, calls fail half way, and still every
\* engine keeps its invariant, and only a session that is being dropped may have
\* lost the write of a packet it never sent (PeerSlot::poll, receive, connect).
THEOREM SessionsSound == SessionSpec => []SessionInv
<1>1. SessionInv /\ [SessionNext]_allVars => SessionInv'
  BY SessionStep
<1> QED BY <1>1, SessionStart, PTL DEF SessionSpec

\* In a live session a reliable packet that was never transmitted has its write
\* in the scheduler, whatever buffers the adapter passes to poll: the session
\* whose packet did not fit is dropped before the next call.
THEOREM LiveSessionsKeepWrites == SessionSpec => []LiveUnsentIsQueued
<1>1. SessionInv => LiveUnsentIsQueued
  BY CallsDiffer DEF SessionInv, Live, QueuedIfUnsent, LiveUnsentIsQueued
<1> QED BY <1>1, SessionsSound, PTL
=============================================================================
