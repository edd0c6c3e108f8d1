-------------------------- MODULE TransportProofs ---------------------------
(***************************************************************************)
(* Two engines and the link between them, for all values of the constants: *)
(* nothing is forgotten, messages are delivered intact and once, and the   *)
(* transport implements a channel.                                         *)
(***************************************************************************)
EXTENDS ChannelProofs, EngineProofs

\* A leaf is left to Zenon unless it names another prover.
USE Zenon

(* The invariants hold *)

\* Every step of the transport is a step of one engine, or of the link alone.
LEMMA EngineKept ==
    ASSUME IndInv, HistoryOK, [TransportNext]_allVars
    PROVE  IndInv'
<1>1. CASE UNCHANGED vars
  BY <1>1, Unchanged DEF vars, sendVars, receiveVars, callVars, IndInv
<1>2. ASSUME NEW p \in Peers, NEW type \in SendTypes, NEW len \in Lengths, AppSend(p, type, len)
      PROVE  IndInv'
  <2>1. type \in MessageTypes /\ calls' \in Bodies
    BY <1>2, TransportAssumption, SMTT(30) DEF HistoryOK, AppSend
  <2>2. Send(p, type, len, calls') \/ SendRefused(p, type, len)
    BY <1>2 DEF AppSend
  <2> QED BY <2>1, <2>2, SendPreserves, SendRefusedPreserves
<1>3. ASSUME NEW p \in Peers, AppPing(p)
      PROVE  IndInv'
  BY <1>3, LivenessPreserves DEF AppPing
<1>4. ASSUME NEW p \in Peers, NEW delta \in Deltas, AppPoll(p, delta)
      PROVE  IndInv'
  BY <1>4, PollPreserves, EngineAssumption DEF AppPoll
<1>5. ASSUME NEW p \in Peers, Quiet(p)
      PROVE  IndInv'
  BY <1>5, SendFragmentPreserves, TickFailPreserves, TickRetransmitPreserves,
     QuietOutputPreserves DEF Quiet
<1>6. ASSUME NEW p \in Peers, Outputs(p)
      PROVE  IndInv'
  <2>1. PollAck(p) \/ PollMessage(p) \/ PollUrgent(p, TRUE) \/ PollNewData(p, TRUE)
    BY <1>6 DEF Outputs, OutputAck, OutputWrite, OutputSendFailed, OutputMessage
  <2> QED BY <2>1, QuietOutputPreserves, EventOutputPreserves
<1>7. ASSUME NEW p \in Peers, NEW i \in Arrivals(p), Deliver(p, i)
      PROVE  IndInv'
  <2>1. wire[p][i] \in Packet /\ Other(p) \in Peers
    BY <1>7, OtherPeer, SMTT(30) DEF HistoryOK, Arrivals
  <2>2. Receive(Other(p), wire[p][i]) \/ UNCHANGED vars
    BY <1>7 DEF Deliver
  <2> QED BY <1>1, <2>1, <2>2, ReceivePreserves
<1>8. ASSUME NEW p \in Peers, NEW i \in Arrivals(p), Lose(p, i)
      PROVE  IndInv'
  BY <1>1, <1>8 DEF Lose
<1>9. CASE UNCHANGED allVars
  BY <1>1, <1>9 DEF allVars
<1> QED BY <1>2, <1>3, <1>4, <1>5, <1>6, <1>7, <1>8, <1>9 DEF TransportNext

\* The engines that have just been created, and the link with nothing on it.
LEMMA TransportStart == TransportInit => Base /\ accepted = {}
<1> SUFFICES ASSUME TransportInit
             PROVE  Base
  BY DEF TransportInit
<1>1. IndInv
  BY InitInd DEF TransportInit
<1>2. HistoryOK
  BY TransportAssumption, SMTT(30) DEF TransportInit, HistoryOK
<1>3. ASSUME NEW p \in Peers
      PROVE  /\ WireValid(accepted, seen[p], p, wire[p])
             /\ AcksValid(seen[p], acks[p])
             /\ CallValid(accepted, p, sending[p])
  BY SMTT(30) DEF TransportInit, Init, WireValid, AcksValid, CallValid
<1>4. ASSUME NEW p \in Peers
      PROVE  QueuesValid(accepted, seen[p], p, queues[p])
  <2>1. queues[p] = EmptyScheduler
    BY DEF TransportInit, Init
  <2>2. \A k \in QueueKind : EmptyScheduler[k] = <<>>
    BY DEF EmptyScheduler
  <2> QED BY <2>1, <2>2, SMTT(30) DEF QueuesValid
<1>5. ASSUME NEW p \in Peers
      PROVE  TableValid(accepted, p, in_flight[p])
  BY DEF TransportInit, Init, EmptyInFlight, TableValid, Occupied
<1> QED BY <1>1, <1>2, <1>3, <1>4, <1>5 DEF Base, Origin

\* Every packet of a transport stems from a message that was accepted.
LEMMA BaseHolds == TransportSpec => []Base
<1>1. Base /\ [TransportNext]_allVars => Base'
  BY EngineKept, HistoryKept, OriginKept DEF Base
<1> QED BY <1>1, TransportStart, PTL DEF TransportSpec

\* Ids name messages, and what is collected and handed over is intact.
LEMMA IntactHolds == TransportSpec => [](Numbered /\ Intact)
<1> DEFINE Inv == Numbered /\ Intact
<1>1. TransportInit => Inv
  <2> SUFFICES ASSUME TransportInit
               PROVE  Inv
    OBVIOUS
  <2>1. accepted = {} /\ calls = 0 /\ next_id = Seed
    BY DEF TransportInit, Init
  <2>2. 0 \in 0 .. calls
    BY <2>1, SMTT(30)
  <2>3. Numbered
    BY <2>1, <2>2, IdsDiffer DEF Numbered, Drawn, OneMessagePerId
  <2>4. Intact
    BY SMTT(30)
    DEF TransportInit, Init, Intact, SlotsIntact, EventsIntact, Active, EmptyReassembly
  <2> QED BY <2>3, <2>4
<1>2. Base /\ Base' /\ Inv /\ [TransportNext]_allVars => Inv'
  BY NumberedKept, IntactKept DEF Base
<1> QED BY <1>1, <1>2, BaseHolds, PTL DEF TransportSpec

-----------------------------------------------------------------------------
(* What the application sees *)

\* The sender never forgets a packet it accepted (NothingForgotten), however the
\* link loses, repeats and reorders packets, ACKs come late and ticks give up
\* messages, as long as the scheduler has room for the failures of a tick.
THEOREM SenderRemembers == TransportSpec /\ []FailuresFit => []NothingForgotten
<1>1. TransportInit => Remembered
  BY TransportStart DEF Remembered
<1>2. Base /\ Base' /\ Remembered /\ FailuresFit /\ [TransportNext]_allVars => Remembered'
  BY RememberedKept DEF Base
<1>3. Base /\ Remembered => NothingForgotten
  BY DEF Remembered, NothingForgotten, Kept, Known, FailureKnown, CallOf
<1> QED BY <1>1, <1>2, <1>3, BaseHolds, PTL DEF TransportSpec

\* An application is handed whole messages of the other one (DeliveredIntact),
\* whatever the link loses, repeats or reorders, however many messages share the
\* reassembly slots and whenever these time out.
THEOREM MessagesIntact == TransportSpec => []DeliveredIntact
<1>1. Base /\ Intact => DeliveredIntact
  <2> SUFFICES ASSUME Intact, NEW p \in Peers, NEW m \in Range(messages[p])
               PROVE  \E a \in accepted :
                          /\ a.from = Other(p) /\ a.type = m.type /\ a.id = m.id
                          /\ m.bytes = [o \in 0 .. a.len - 1 |-> a.body]
    BY DEF DeliveredIntact
  <2>1. PICK i \in DOMAIN messages[p] : messages[p][i] = m
    BY DEF Range
  <2> QED BY <2>1 DEF Intact, EventsIntact, Whole
<1> QED BY <1>1, BaseHolds, IntactHolds, PTL

\* A Data message is handed to the application at most once (AtMostOnce),
\* although its packets may arrive many times, as long as the duplicate window
\* covers what is on the link.
THEOREM HandedOverOnce == TransportSpec /\ []WindowCovers => []AtMostOnce
<1>1. TransportInit => Once
  BY SMTT(30) DEF TransportInit, Init, Once, OnceIn
<1>2. Base /\ Numbered /\ Intact /\ Once /\ WindowCovers /\ [TransportNext]_allVars => Once'
  BY OnceKept
<1>3. Base /\ Once => AtMostOnce
  <2>1. Base => \A p \in Peers : DOMAIN delivered[p] = 1 .. Len(delivered[p])
    BY SMTT(30) DEF Base, HistoryOK
  <2> QED BY <2>1 DEF Once, OnceIn, AtMostOnce
<1> QED BY <1>1, <1>2, <1>3, BaseHolds, IntactHolds, PTL DEF TransportSpec

\* The duplicate window covers what is on the link (WindowCovers) as long as no
\* engine has accepted more Data packets than its ring has places, however often
\* the link repeats them.
THEOREM WindowSuffices == TransportSpec /\ []FewPackets => []WindowCovers
<1>1. TransportInit => AllRemembered
  <2>1. Range(<<>>) = {}
    BY SMTT(30) DEF Range
  <2> QED BY <2>1 DEF TransportInit, Init, AllRemembered
<1>2. Base /\ AllRemembered /\ FewPackets' /\ [TransportNext]_allVars => AllRemembered'
  BY AllRememberedKept
<1>3. AllRemembered => WindowCovers
  BY OtherPeer DEF AllRemembered, WindowCovers, is_duplicate
<1> QED BY <1>1, <1>2, <1>3, BaseHolds, PTL DEF TransportSpec

\* So few packets are never handed over twice (AtMostOnce).
THEOREM FewHandedOverOnce == TransportSpec /\ []FewPackets => []AtMostOnce
BY WindowSuffices, HandedOverOnce, PTL

-----------------------------------------------------------------------------
(* The transport implements the channel *)

\* The sender knows that x has failed.
Told(x) == FailureKnown(x.from, x.id)

\* Different messages have different contents.
LEMMA ContentsDiffer ==
    ASSUME NEW A, OneMessagePerId(A), NEW M \in SUBSET A, NEW m \in A, m \notin M
    PROVE  ContentOf(m) \notin Contents(M)
<1> SUFFICES ASSUME NEW a \in M, ContentOf(m) = ContentOf(a)
             PROVE  FALSE
  BY DEF Contents
<1>1. m.from = a.from /\ m.id = a.id
  BY DEF ContentOf
<1> QED BY <1>1 DEF OneMessagePerId

\* One message more is one content more.
LEMMA ContentsAdd ==
    ASSUME NEW M, NEW m
    PROVE  Contents(M \cup {m}) = Contents(M) \cup {ContentOf(m)}
BY DEF Contents

\* What the sender knows of a message, in the terms of its tables.
LEMMA FateTerms ==
    /\ \A x : Unsettled(x) <=> InHand(in_flight[x.from], sending[x.from], x.id)
    /\ \A x : Told(x) <=> Known(queues[x.from], reported[x.from], x.id)
    /\ \A x : (Unsettled(x))' <=> InHand(in_flight'[x.from], sending'[x.from], x.id)
    /\ \A x : (Told(x))' <=> Known(queues'[x.from], reported'[x.from], x.id)
BY DEF Unsettled, Told, FailureKnown, InHand, Known

\* Accepting a Data message offers it to the channel, and nothing is known of it
\* yet; the channel has no Log messages.
LEMMA AcceptOffers ==
    ASSUME Base, Numbered, Fates, [TransportNext]_allVars, NEW m \in accepted', m \notin accepted
    PROVE  /\ Offered' = IF m.type = "data" THEN Offered \cup {m} ELSE Offered
           /\ m \notin Offered
           /\ UNCHANGED <<ArrivedData, ConfirmedData, FailedData, TakenData>>
<1>1. /\ m.from \in Peers /\ Starts(m.from, m) /\ accepted' = accepted \cup {m}
      /\ UNCHANGED <<seen, delivered, reported, queues, in_flight>>
      /\ \A p \in Peers : p # m.from => sending'[p] = sending[p]
  BY NewMessage DEF Base
<1>2. \A n \in accepted : n.from = m.from => n.id # m.id
  BY NewId
<1>3. m \in Message /\ \A x \in accepted : x \in Message
  <2>1. HistoryOK'
    BY HistoryKept DEF Base
  <2> QED BY <1>1, <2>1 DEF HistoryOK
<1>4. ~Arrived(m)
  <2>1. m.len \in Nat /\ fragment_count(m.len) \in Nat /\ fragment_count(m.len) # 0
    BY <1>3, FragmentCount DEF Message
  <2>2. 0 \in 0 .. fragment_count(m.len) - 1
    BY <2>1, SMTT(30)
  <2>3. Other(m.from) \in Peers /\ Other(Other(m.from)) = m.from
    BY <1>1, OtherPeer
  <2>4. ASSUME <<m.id, 0>> \in seen[Other(m.from)]
        PROVE  FALSE
    <3>1. PICK n \in accepted : n.from = Other(Other(m.from)) /\ n.id = <<m.id, 0>>[1]
      BY <2>3, <2>4 DEF Fates, KeysOf
    <3> QED BY <1>2, <2>3, <3>1
  <2> QED BY <2>2, <2>4 DEF Arrived
<1>5. (Unsettled(m))'
  <2>1. sending'[m.from].id = m.id
    BY <1>1, SMTT(30) DEF Starts
  <2>2. sending'[m.from] \in SendCall
    BY <1>1, <1>3, SMTT(30) DEF Starts, SendCall, Message
  <2> QED BY <2>1, <2>2, CallAssumption DEF Unsettled
<1>6. ~Told(m)
  <2> SUFFICES ASSUME Known(queues[m.from], reported[m.from], m.id)
               PROVE  FALSE
    BY FateTerms
  <2>1. m.id \in MessageId
    BY <1>3 DEF Message
  <2>2. \E n \in accepted : n.from = m.from /\ n.id = m.id
    BY <1>1, <2>1 DEF Fates, FateOf
  <2> QED BY <1>2, <2>2
<1>7. \A x : (Arrived(x))' <=> Arrived(x)
  BY <1>1 DEF Arrived
<1>8. \A x : (Told(x))' <=> Told(x)
  BY <1>1 DEF Told, FailureKnown
<1>9. ASSUME NEW x \in accepted
      PROVE  (Unsettled(x))' <=> Unsettled(x)
  <2>1. CASE x.from = m.from
    <3>1. x.id # m.id /\ sending[x.from] = NoCall /\ sending'[x.from].id = m.id
      BY <1>1, <1>2, <2>1, SMTT(30) DEF Starts
    <3> QED BY <1>1, <3>1 DEF Unsettled
  <2>2. CASE x.from # m.from
    <3>1. x.from \in Peers
      BY <1>3 DEF Message
    <3> QED BY <1>1, <2>2, <3>1 DEF Unsettled
  <2> QED BY <2>1, <2>2
<1>10. Offered' = (IF m.type = "data" THEN Offered \cup {m} ELSE Offered) /\ m \notin Offered
  BY <1>1 DEF Offered
<1>11. ArrivedData' = ArrivedData
  <2>1. \A x : x \in ArrivedData' <=> x \in Offered' /\ (Arrived(x))'
    BY DEF ArrivedData
  <2>2. \A x : x \in ArrivedData <=> x \in Offered /\ Arrived(x)
    BY DEF ArrivedData
  <2> QED BY <1>4, <1>7, <1>10, <2>1, <2>2
<1>12. FailedData' = FailedData
  <2>1. \A x : x \in FailedData' <=> x \in Offered' /\ (Told(x))'
    BY DEF FailedData, Told
  <2>2. \A x : x \in FailedData <=> x \in Offered /\ Told(x)
    BY DEF FailedData, Told
  <2> QED BY <1>6, <1>8, <1>10, <2>1, <2>2
<1>13. ConfirmedData' = ConfirmedData
  <2>1. \A x : x \in ConfirmedData' <=> x \in Offered' /\ ~(Unsettled(x))' /\ ~(Told(x))'
    BY DEF ConfirmedData, Told
  <2>2. \A x : x \in ConfirmedData <=> x \in Offered /\ ~Unsettled(x) /\ ~Told(x)
    BY DEF ConfirmedData, Told
  <2>3. \A x \in Offered : x \in accepted
    BY DEF Offered
  <2> QED BY <1>5, <1>8, <1>9, <1>10, <2>1, <2>2, <2>3
<1>14. TakenData' = TakenData
  BY <1>1 DEF TakenData
<1> QED BY <1>10, <1>11, <1>12, <1>13, <1>14

\* A step of a sender leaves the fate of every message as it is, or settles that
\* of one: the message is confirmed, all of it having arrived, or given up.
LEMMA SenderSettles ==
    ASSUME Base, Base', Numbered, Fates, FailuresFit, Remembered', NEW p \in Peers, SenderMoves(p)
    PROVE  /\ UNCHANGED <<Offered, ArrivedData, TakenData>>
           /\ \/ UNCHANGED <<ConfirmedData, FailedData>>
              \/ \E m \in Offered \ (ConfirmedData \cup FailedData) :
                     \/ /\ m \in ArrivedData
                        /\ ConfirmedData' = ConfirmedData \cup {m} /\ UNCHANGED FailedData
                     \/ FailedData' = FailedData \cup {m} /\ UNCHANGED ConfirmedData
<1>1. accepted' = accepted /\ seen' = seen /\ delivered' = delivered
      /\ \A q \in Peers : q # p => Rests(q)
  BY DEF SenderMoves
<1>2. UNCHANGED <<Offered, ArrivedData, TakenData>>
  BY <1>1 DEF Offered, ArrivedData, Arrived, TakenData
<1>3. FateOf(accepted, p, in_flight[p], sending[p], queues[p], reported[p])
  BY DEF Fates
<1>4. PICK id \in MessageId : FateMoves(in_flight[p], sending[p], queues[p], reported[p],
                                        in_flight'[p], sending'[p], queues'[p], reported'[p], id)
  BY <1>3, FateStep DEF Base, SenderMoves, FateOf
<1>5. \A x \in Offered : x \in accepted /\ x.from \in Peers /\ x.id \in MessageId /\ x.type = "data"
  BY DEF Offered, Base, HistoryOK, Message
<1>6. ASSUME NEW x \in Offered, x.from # p \/ x.id # id
      PROVE  /\ (Unsettled(x))' <=> Unsettled(x)
             /\ (Told(x))' <=> Told(x)
  <2>1. CASE x.from # p
    BY <1>1, <1>5, <2>1 DEF Rests, Unsettled, Told, FailureKnown
  <2>2. CASE x.from = p
    <3>1. x.id \in MessageId /\ x.id # id
      BY <1>5, <1>6, <2>2
    <3> QED BY <1>4, <2>2, <3>1, FateTerms DEF FateMoves
  <2> QED BY <2>1, <2>2
<1>7. /\ \A x : x \in ConfirmedData' <=> x \in Offered /\ ~(Unsettled(x))' /\ ~(Told(x))'
      /\ \A x : x \in FailedData' <=> x \in Offered /\ (Told(x))'
      /\ \A x : x \in ConfirmedData <=> x \in Offered /\ ~Unsettled(x) /\ ~Told(x)
      /\ \A x : x \in FailedData <=> x \in Offered /\ Told(x)
  BY <1>2 DEF ConfirmedData, FailedData, Told
<1>8. CASE ~ \E x \in Offered : x.from = p /\ x.id = id
  BY <1>2, <1>6, <1>7, <1>8
<1>9. ASSUME NEW x \in Offered, x.from = p, x.id = id
      PROVE  \/ UNCHANGED <<ConfirmedData, FailedData>>
             \/ \E m \in Offered \ (ConfirmedData \cup FailedData) :
                    \/ /\ m \in ArrivedData
                       /\ ConfirmedData' = ConfirmedData \cup {m} /\ UNCHANGED FailedData
                    \/ FailedData' = FailedData \cup {m} /\ UNCHANGED ConfirmedData
  <2>1. \A y \in Offered : y # x => y.from # p \/ y.id # id
    BY <1>5, <1>9 DEF Numbered, OneMessagePerId
  <2>2. /\ (Unsettled(x))' => Unsettled(x)
        /\ ((Told(x))' <=> Told(x)) \/ (Unsettled(x) /\ ~(Unsettled(x))' /\ (Told(x))')
    BY <1>4, <1>9, FateTerms DEF FateMoves
  <2>3. Told(x) => ~Unsettled(x)
    BY <1>3, <1>9, FateTerms DEF FateOf
  <2>4. ASSUME ~(Unsettled(x))', ~(Told(x))'
        PROVE  x \in ArrivedData
    <3>1. ASSUME NEW n \in 0 .. fragment_count(x.len) - 1
          PROVE  <<x.id, n>> \in seen[Other(x.from)]
      <4>1. Kept(seen'[Other(x.from)], in_flight'[x.from], sending'[x.from],
                 queues'[x.from], reported'[x.from], x, n)
        BY <1>1, <1>5 DEF Remembered
      <4>2. ~Known(queues'[x.from], reported'[x.from], x.id)
            /\ ~InHand(in_flight'[x.from], sending'[x.from], x.id)
        BY <2>4, FateTerms
      <4>3. TableValid(accepted', p, in_flight'[p])
        BY DEF Base, Origin
      <4>4. ~HoldsKey(in_flight'[x.from], <<x.id, n>>)
        BY <1>9, <4>2, <4>3, SMTT(30)
        DEF HoldsKey, TableValid, RecordValid, KeyOf, InHand, Occupied
      <4>5. ~(sending'[x.from] # NoCall /\ CallOf(sending'[x.from], x))
        BY <4>2 DEF InHand, CallOf
      <4> QED BY <1>1, <4>1, <4>2, <4>4, <4>5 DEF Kept
    <3> QED BY <3>1 DEF ArrivedData, Arrived
  <2>5. CASE ((Unsettled(x))' <=> Unsettled(x)) /\ ((Told(x))' <=> Told(x))
    BY <1>6, <1>7, <2>1, <2>5
  <2>6. CASE Unsettled(x) /\ ~(Unsettled(x))' /\ ~(Told(x))' /\ ~Told(x)
    <3>1. x \in Offered \ (ConfirmedData \cup FailedData) /\ x \in ArrivedData
      BY <1>7, <2>4, <2>6
    <3>2. ConfirmedData' = ConfirmedData \cup {x} /\ FailedData' = FailedData
      BY <1>6, <1>7, <2>1, <2>6
    <3> QED BY <3>1, <3>2
  <2>7. CASE Unsettled(x) /\ ~(Unsettled(x))' /\ (Told(x))' /\ ~Told(x)
    <3>1. x \in Offered \ (ConfirmedData \cup FailedData)
      BY <1>7, <2>7
    <3>2. FailedData' = FailedData \cup {x} /\ ConfirmedData' = ConfirmedData
      BY <1>6, <1>7, <2>1, <2>7
    <3> QED BY <3>1, <3>2
  <2> QED BY <2>2, <2>3, <2>5, <2>6, <2>7
<1> QED BY <1>2, <1>8, <1>9

\* A packet the receiver accepts may complete the arrival of its own message, and
\* changes nothing else.
LEMMA PacketArrives ==
    ASSUME Base, Numbered, NEW p \in Peers, PacketSeen(p)
    PROVE  /\ UNCHANGED <<Offered, ConfirmedData, FailedData, TakenData>>
           /\ \/ UNCHANGED ArrivedData
              \/ \E m \in Offered \ ArrivedData : ArrivedData' = ArrivedData \cup {m}
<1>1. accepted' = accepted /\ delivered' = delivered /\ \A q \in Peers : Rests(q)
  BY DEF PacketSeen
<1>2. PICK j \in DOMAIN wire[p] :
          /\ wire[p][j].type = "data"
          /\ seen' = [seen EXCEPT ![Other(p)] = @ \cup {KeyOf(wire[p][j])}]
  BY DEF PacketSeen
<1> DEFINE f == wire[p][j]
<1>3. PICK m \in accepted : m.from = p /\ FragmentOf(f, m)
  BY <1>2 DEF Base, Origin, WireValid, Valid, Sent, MessageTypes
<1>4. m \in Offered /\ m.id = f.id
  BY <1>2, <1>3 DEF Offered, FragmentOf
<1>5. \A x \in Offered : x \in accepted /\ x.from \in Peers
  BY DEF Offered, Base, HistoryOK, Message
<1>6. UNCHANGED <<Offered, TakenData>>
  BY <1>1 DEF Offered, TakenData
<1>7. \A x \in Offered : ((Unsettled(x))' <=> Unsettled(x)) /\ ((Told(x))' <=> Told(x))
  BY <1>1, <1>5 DEF Rests, Unsettled, Told, FailureKnown
<1>8. UNCHANGED <<ConfirmedData, FailedData>>
  BY <1>6, <1>7 DEF ConfirmedData, FailedData, Told
<1>9. ASSUME NEW x \in Offered, x # m
      PROVE  (Arrived(x))' <=> Arrived(x)
  <2>1. x.from \in Peers /\ (x.from = p => x.id # f.id)
    BY <1>3, <1>4, <1>5, <1>9 DEF Numbered, OneMessagePerId
  <2>2. seen \in [Peers -> SUBSET PacketKey] /\ Other(p) \in Peers /\ Other(x.from) \in Peers
        /\ (x.from # p => Other(x.from) # Other(p))
    BY <2>1, OtherPeer DEF Base, HistoryOK
  <2>3. \A n : <<x.id, n>> \in seen'[Other(x.from)] <=> <<x.id, n>> \in seen[Other(x.from)]
    <3>1. CASE x.from = p
      <4>1. seen'[Other(p)] = seen[Other(p)] \cup {<<f.id, f.index>>}
        BY <1>2, <2>2 DEF KeyOf
      <4> QED BY <2>1, <3>1, <4>1, SMTT(30)
    <3>2. CASE x.from # p
      BY <1>2, <2>2, <3>2
    <3> QED BY <3>1, <3>2
  <2> QED BY <2>3 DEF Arrived
<1>10. Arrived(m) => (Arrived(m))'
  <2>1. seen[Other(m.from)] \subseteq seen'[Other(m.from)]
    BY <1>2, <1>3, OtherPeer DEF Base, HistoryOK
  <2> QED BY <2>1 DEF Arrived
<1>11. /\ \A x : x \in ArrivedData' <=> x \in Offered /\ (Arrived(x))'
       /\ \A x : x \in ArrivedData <=> x \in Offered /\ Arrived(x)
  BY <1>6 DEF ArrivedData
<1>12. UNCHANGED ArrivedData \/ (m \notin ArrivedData /\ ArrivedData' = ArrivedData \cup {m})
  BY <1>4, <1>9, <1>10, <1>11
<1> QED BY <1>4, <1>6, <1>8, <1>12

\* A poll that returns a Data message takes it from the channel: all of it has
\* arrived, and it was not taken before.
LEMMA PollTakes ==
    ASSUME Base, Intact, Once, NEW p \in Peers, DataTaken(p)
    PROVE  /\ UNCHANGED <<Offered, ArrivedData, ConfirmedData, FailedData>>
           /\ \E m \in ArrivedData :
                  /\ ContentOf(m).from # p
                  /\ \A i \in 1 .. Len(TakenData[p]) : TakenData[p][i] # ContentOf(m)
                  /\ TakenData' = [TakenData EXCEPT ![p] = Append(@, ContentOf(m))]
<1> DEFINE e == Head(messages[p])
           d == delivered[p]
<1>1. /\ accepted' = accepted /\ seen' = seen /\ messages[p] # <<>> /\ e.type = "data"
      /\ delivered' = [delivered EXCEPT ![p] = Append(@, e)]
      /\ \A q \in Peers : Rests(q)
  BY DEF DataTaken
<1>2. \A x \in Offered : x \in accepted /\ x.from \in Peers
  BY DEF Offered, Base, HistoryOK, Message
<1>3. Offered' = Offered
  BY <1>1 DEF Offered
<1>4. UNCHANGED <<ArrivedData, ConfirmedData, FailedData>>
  <2>1. \A x \in Offered : /\ (Arrived(x))' <=> Arrived(x)
                           /\ (Unsettled(x))' <=> Unsettled(x)
                           /\ (Told(x))' <=> Told(x)
    BY <1>1, <1>2 DEF Rests, Arrived, Unsettled, Told, FailureKnown
  <2> QED BY <1>3, <2>1 DEF ArrivedData, ConfirmedData, FailedData, Told
<1>5. messages[p] \in Seq(MessageEvent) /\ d \in Seq(MessageEvent)
      /\ delivered \in [Peers -> Seq(MessageEvent)]
  BY DEF Base, HistoryOK, IndInv, ReceiverOK
<1>6. 1 \in DOMAIN messages[p] /\ e = messages[p][1] /\ e \in MessageEvent
  BY <1>1, <1>5, SMTT(30)
<1> HIDE DEF e, d
<1>7. PICK m \in accepted : m.from = Other(p) /\ Whole(seen[p], e, m)
  BY <1>6 DEF Intact, EventsIntact
<1>8. Other(p) \in Peers /\ Other(p) # p /\ Other(Other(p)) = p
  BY OtherPeer
<1>9. m \in ArrivedData
  BY <1>1, <1>7, <1>8 DEF Whole, ArrivedIn, ArrivedData, Arrived, Offered
<1>10. ContentOf(m) = [from |-> Other(p), id |-> e.id, bytes |-> e.bytes]
  BY <1>7 DEF Whole, ContentOf
<1> DEFINE c == [from |-> Other(p), id |-> e.id, bytes |-> e.bytes]
           T(s) == [i \in 1 .. Len(s) |->
                       [from |-> Other(p), id |-> s[i].id, bytes |-> s[i].bytes]]
<1>11. TakenData[p] = T(d) /\ Len(T(d)) = Len(d)
  BY <1>5, SMTT(30) DEF TakenData, d
<1>12. \A i \in 1 .. Len(TakenData[p]) : TakenData[p][i] # c
  <2>1. \A i \in DOMAIN d : e.id # d[i].id
    BY <1>1, <1>6 DEF Once, OnceIn, d
  <2>2. DOMAIN d = 1 .. Len(d)
    BY <1>5, SMTT(30)
  <2>3. \A i \in 1 .. Len(d) : T(d)[i].id = d[i].id
    OBVIOUS
  <2>4. c.id = e.id
    OBVIOUS
  <2> HIDE DEF T, c
  <2> QED BY <1>11, <2>1, <2>2, <2>3, <2>4
<1>13. T(Append(d, e)) = Append(T(d), c)
  <2>1. T(d) \in Seq({T(d)[i] : i \in 1 .. Len(d)}) /\ Len(T(d)) = Len(d) /\ Len(d) \in Nat
    BY <1>5, SMTT(30)
  <2>2. Len(Append(d, e)) = Len(d) + 1 /\ Append(d, e)[Len(d) + 1] = e
        /\ \A i \in 1 .. Len(d) : Append(d, e)[i] = d[i]
    BY <1>5, <1>6, SMTT(30)
  <2>3. DOMAIN T(Append(d, e)) = 1 .. Len(d) + 1 /\ DOMAIN Append(T(d), c) = 1 .. Len(d) + 1
    BY <2>1, <2>2, SMTT(30)
  <2>4. ASSUME NEW i \in 1 .. Len(d) + 1
        PROVE  T(Append(d, e))[i] = Append(T(d), c)[i]
    BY <2>1, <2>2, <2>4, SMTT(30)
  <2> QED BY <2>1, <2>2, <2>3, <2>4, SMTT(30)
<1>14. TakenData' = [TakenData EXCEPT ![p] = Append(@, c)]
  <2>1. delivered'[p] = Append(d, e)
        /\ \A q \in Peers : q # p => delivered'[q] = delivered[q]
    BY <1>1, <1>5 DEF d
  <2>2. TakenData'[p] = T(Append(d, e))
    BY <2>1 DEF TakenData
  <2>3. \A q \in Peers : q # p => TakenData'[q] = TakenData[q]
    BY <2>1 DEF TakenData
  <2>4. /\ TakenData' = [q \in Peers |-> TakenData'[q]]
        /\ TakenData = [q \in Peers |-> TakenData[q]]
    BY DEF TakenData
  <2> HIDE DEF T, c
  <2> QED BY <1>11, <1>13, <2>2, <2>3, <2>4
<1> HIDE DEF c
<1>15. ContentOf(m) = c /\ ContentOf(m).from # p
  BY <1>8, <1>10, SMTT(30) DEF c
<1> QED BY <1>3, <1>4, <1>9, <1>12, <1>14, <1>15

\* Every step of the transport is a step of the channel, or none.
LEMMA ChannelStep ==
    ASSUME Base, Base', Numbered, Intact, Once, Fates, FailuresFit, Remembered',
           [TransportNext]_allVars
    PROVE  [Promise!Next]_(Promise!vars)
<1>0. OneMessagePerId(accepted) /\ OneMessagePerId(accepted')
      /\ ArrivedData \subseteq Offered /\ ConfirmedData \subseteq Offered
      /\ FailedData \subseteq Offered /\ Offered \subseteq accepted
  BY NumberedKept DEF Base, Numbered, ArrivedData, ConfirmedData, FailedData, Offered
<1>1. CASE UNCHANGED <<Offered, ArrivedData, ConfirmedData, FailedData, TakenData>>
  <2>1. UNCHANGED <<Contents(Offered), Contents(ArrivedData), TakenData,
                    Contents(ConfirmedData), Contents(FailedData)>>
    BY <1>1 DEF Contents
  <2> QED BY <2>1 DEF Promise!vars
<1>2. ASSUME NEW m \in accepted', m \notin accepted
      PROVE  [Promise!Next]_(Promise!vars)
  <2>1. /\ Offered' = IF m.type = "data" THEN Offered \cup {m} ELSE Offered
        /\ UNCHANGED <<ArrivedData, ConfirmedData, FailedData, TakenData>>
    BY <1>2, AcceptOffers
  <2>2. CASE m.type = "data"
    <3>1. Offered' = Offered \cup {m}
      BY <2>1, <2>2
    <3>2. Offered \subseteq accepted'
      BY <1>0, NewMessage, <1>2 DEF Base
    <3>3. Contents(Offered') = Contents(Offered) \cup {ContentOf(m)}
          /\ ContentOf(m) \notin Contents(Offered)
      BY <1>0, <1>2, <3>1, <3>2, ContentsAdd, ContentsDiffer
    <3>4. UNCHANGED <<Contents(ArrivedData), TakenData,
                      Contents(ConfirmedData), Contents(FailedData)>>
      BY <2>1 DEF Contents
    <3>5. Contents(Offered)' = Contents(Offered')
      BY DEF Contents
    <3> QED BY <3>3, <3>4, <3>5 DEF Promise!Next, Promise!Offer
  <2> QED BY <1>1, <2>1, <2>2
<1>3. ASSUME NEW p \in Peers, SenderMoves(p)
      PROVE  [Promise!Next]_(Promise!vars)
  <2>1. UNCHANGED <<Offered, ArrivedData, TakenData>>
    BY <1>3, SenderSettles
  <2>2. UNCHANGED <<Contents(Offered), Contents(ArrivedData), TakenData>>
    BY <2>1 DEF Contents
  <2>3. ASSUME NEW m \in Offered \ (ConfirmedData \cup FailedData), m \in ArrivedData,
               ConfirmedData' = ConfirmedData \cup {m}, FailedData' = FailedData
        PROVE  Promise!Next
    <3>1. /\ ContentOf(m) \in Contents(Offered) /\ ContentOf(m) \in Contents(ArrivedData)
          /\ ContentOf(m) \notin Contents(ConfirmedData) \cup Contents(FailedData)
      <4>1. ConfirmedData \in SUBSET accepted /\ FailedData \in SUBSET accepted /\ m \in accepted
        BY <1>0
      <4>2. ContentOf(m) \notin Contents(ConfirmedData)
        BY <1>0, <2>3, <4>1, ContentsDiffer
      <4>3. ContentOf(m) \notin Contents(FailedData)
        BY <1>0, <2>3, <4>1, ContentsDiffer
      <4> QED BY <2>3, <4>2, <4>3 DEF Contents
    <3>2. Contents(ConfirmedData)' = Contents(ConfirmedData) \cup {ContentOf(m)}
      BY <2>3 DEF Contents
    <3>3. Contents(FailedData)' = Contents(FailedData)
      BY <2>3 DEF Contents
    <3> QED BY <2>2, <3>1, <3>2, <3>3 DEF Promise!Next, Promise!Confirm
  <2>4. ASSUME NEW m \in Offered \ (ConfirmedData \cup FailedData),
               FailedData' = FailedData \cup {m}, ConfirmedData' = ConfirmedData
        PROVE  Promise!Next
    <3>1. /\ ContentOf(m) \in Contents(Offered)
          /\ ContentOf(m) \notin Contents(ConfirmedData) \cup Contents(FailedData)
      <4>1. ConfirmedData \in SUBSET accepted /\ FailedData \in SUBSET accepted /\ m \in accepted
        BY <1>0
      <4>2. ContentOf(m) \notin Contents(ConfirmedData)
        BY <1>0, <2>4, <4>1, ContentsDiffer
      <4>3. ContentOf(m) \notin Contents(FailedData)
        BY <1>0, <2>4, <4>1, ContentsDiffer
      <4> QED BY <2>4, <4>2, <4>3 DEF Contents
    <3>2. Contents(FailedData)' = Contents(FailedData) \cup {ContentOf(m)}
      BY <2>4 DEF Contents
    <3>3. Contents(ConfirmedData)' = Contents(ConfirmedData)
      BY <2>4 DEF Contents
    <3> QED BY <2>2, <3>1, <3>2, <3>3 DEF Promise!Next, Promise!GiveUp
  <2> QED BY <1>1, <1>3, <2>1, <2>3, <2>4, SenderSettles
<1>4. ASSUME NEW p \in Peers, PacketSeen(p)
      PROVE  [Promise!Next]_(Promise!vars)
  <2>1. UNCHANGED <<Offered, ConfirmedData, FailedData, TakenData>>
    BY <1>4, PacketArrives
  <2>2. UNCHANGED <<Contents(Offered), Contents(ConfirmedData), Contents(FailedData), TakenData>>
    BY <2>1 DEF Contents
  <2>3. ASSUME NEW m \in Offered \ ArrivedData, ArrivedData' = ArrivedData \cup {m}
        PROVE  Promise!Next
    <3>1. ArrivedData \in SUBSET accepted /\ m \in accepted
      BY <1>0
    <3>2. ContentOf(m) \notin Contents(ArrivedData)
      BY <1>0, <2>3, <3>1, ContentsDiffer
    <3>3. Contents(ArrivedData)' = Contents(ArrivedData) \cup {ContentOf(m)}
          /\ ContentOf(m) \in Contents(Offered)
      BY <2>3 DEF Contents
    <3> QED BY <2>2, <3>2, <3>3 DEF Promise!Next, Promise!Arrive
  <2> QED BY <1>1, <1>4, <2>1, <2>3, PacketArrives
<1>5. ASSUME NEW p \in Peers, DataTaken(p)
      PROVE  [Promise!Next]_(Promise!vars)
  <2>1. UNCHANGED <<Offered, ArrivedData, ConfirmedData, FailedData>>
    BY <1>5, PollTakes
  <2>2. UNCHANGED <<Contents(Offered), Contents(ArrivedData), Contents(ConfirmedData),
                    Contents(FailedData)>>
    BY <2>1 DEF Contents
  <2>3. PICK m \in ArrivedData :
            /\ ContentOf(m).from # p
            /\ \A i \in 1 .. Len(TakenData[p]) : TakenData[p][i] # ContentOf(m)
            /\ TakenData' = [TakenData EXCEPT ![p] = Append(@, ContentOf(m))]
    BY <1>5, PollTakes
  <2>4. ContentOf(m) \in Contents(Offered) /\ ContentOf(m) \in Contents(ArrivedData)
    BY <1>0, <2>3 DEF Contents
  <2>5. p \in DOMAIN TakenData
    BY DEF TakenData
  <2> QED BY <2>2, <2>3, <2>4, <2>5 DEF Promise!Next, Promise!Take
<1> QED BY <1>2, <1>3, <1>4, <1>5, OneSide

\* Two engines and the link implement the channel (ImplementsChannel), for any
\* number of messages and packets and any sizes of the tables, as long as the
\* scheduler has room for the failures of a tick and the duplicate window still
\* knows every packet that may arrive again.
THEOREM TransportImplementsChannel ==
    TransportSpec /\ []FailuresFit /\ []WindowCovers => ImplementsChannel
<1> DEFINE Inv == Remembered /\ Once /\ Fates
<1>1. TransportInit => Inv
  <2> SUFFICES ASSUME TransportInit
               PROVE  Inv
    OBVIOUS
  <2>1. accepted = {} /\ Remembered
    BY TransportStart DEF Remembered
  <2>2. Once
    BY SMTT(30) DEF TransportInit, Init, Once, OnceIn
  <2>3. Fates
    <3>1. ASSUME NEW p \in Peers
          PROVE  /\ seen[p] = {} /\ reported[p] = {}
                 /\ \A k \in QueueKind : queues[p][k] = <<>>
      BY DEF TransportInit, Init, EmptyScheduler
    <3>2. ASSUME NEW p \in Peers
          PROVE  FateOf(accepted, p, in_flight[p], sending[p], queues[p], reported[p])
      <4>1. "local" \in QueueKind
        BY DEF QueueKind
      <4> QED BY <3>1, <4>1, SMTT(30) DEF FateOf, Placed, Known, Range
    <3> QED BY <3>1, <3>2 DEF Fates, KeysOf
  <2> QED BY <2>1, <2>2, <2>3
<1>2. Base /\ Base' /\ Numbered /\ Intact /\ FailuresFit /\ WindowCovers /\ Inv
      /\ [TransportNext]_allVars => Inv'
  <2> SUFFICES ASSUME Base, Base', Numbered, Intact, FailuresFit, WindowCovers, Inv,
                      [TransportNext]_allVars
               PROVE  Inv'
    OBVIOUS
  <2>1. Remembered'
    BY RememberedKept DEF Base
  <2>2. Once'
    BY OnceKept
  <2>3. Fates'
    BY FatesKept
  <2> QED BY <2>1, <2>2, <2>3
<1>3. TransportInit => Promise!Init
  <2> SUFFICES ASSUME TransportInit
               PROVE  Promise!Init
    OBVIOUS
  <2>1. Offered = {} /\ ArrivedData = {} /\ ConfirmedData = {} /\ FailedData = {}
    BY TransportStart DEF Offered, ArrivedData, ConfirmedData, FailedData
  <2>2. DOMAIN TakenData = Peers /\ \A p \in Peers : TakenData[p] = <<>>
    <3>1. ASSUME NEW p \in Peers
          PROVE  delivered[p] = <<>>
      BY DEF TransportInit
    <3> QED BY <3>1, SMTT(30) DEF TakenData
  <2> QED BY <2>1, <2>2 DEF Promise!Init, Contents
<1>4. Base /\ Base' /\ Numbered /\ Intact /\ FailuresFit /\ Inv /\ Inv'
      /\ [TransportNext]_allVars => [Promise!Next]_(Promise!vars)
  <2> SUFFICES ASSUME Base, Base', Numbered, Intact, FailuresFit, Inv, Inv',
                      [TransportNext]_allVars
               PROVE  [Promise!Next]_(Promise!vars)
    OBVIOUS
  <2>1. Remembered' /\ Once /\ Fates
    OBVIOUS
  <2> QED BY <2>1, ChannelStep
<1> QED BY <1>1, <1>2, <1>3, <1>4, BaseHolds, IntactHolds, PTL
        DEF TransportSpec, ImplementsChannel, Promise!Spec
=============================================================================
