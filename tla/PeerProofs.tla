----------------------------- MODULE PeerProofs -----------------------------
(***************************************************************************)
(* Two engines and the link between them: what a step does to the sending  *)
(* and to the receiving side of each engine, where the packets in transit  *)
(* come from, and that a sender keeps a message until its fate is known.   *)
(***************************************************************************)
EXTENDS Transport, StateProofs

\* A leaf is left to Zenon unless it names another prover.
USE Zenon

(* The fragments of a message *)

\* What a send call accepted.
Message == [from: Peers, type: MessageTypes, id: MessageId, len: Nat, body: Bodies]

\* f is a packet send_message_fragments makes of the message m.
FragmentOf(f, m) ==
    /\ f.type = m.type /\ f.id = m.id /\ f.len = m.len /\ f.body = m.body
    /\ f.index < fragment_count(m.len)
    /\ f.offset = f.index * FRAGMENT_BYTES
    /\ f.size <= FRAGMENT_BYTES

\* c is the loop of send_message_fragments for the message m: the fragments
\* made and the ones still to come add up.
CallOf(c, m) ==
    /\ c.type = m.type /\ c.id = m.id /\ c.len = m.len /\ c.body = m.body
    /\ c.offset = c.index * FRAGMENT_BYTES
    /\ c.index + fragment_count(c.len - c.offset) = fragment_count(c.len)

\* What fits one packet is one fragment.
LEMMA SingleFragment ==
    ASSUME NEW x \in Nat, x <= FRAGMENT_BYTES
    PROVE  fragment_count(x) = 1
<1>1. FRAGMENT_BYTES \in Nat \ {0}
  BY PacketsAssumption
<1>2. CASE x = 0
  BY <1>2 DEF fragment_count
<1>3. CASE x # 0
  <2>1. x - 1 \in Nat /\ x + FRAGMENT_BYTES - 1 = (x - 1) + FRAGMENT_BYTES
    BY <1>1, <1>3, SMTT(30)
  <2>2. (x - 1) \div FRAGMENT_BYTES = 0
    BY <1>1, <1>3, SMTT(30)
  <2>3. ((x - 1) + FRAGMENT_BYTES) \div FRAGMENT_BYTES = ((x - 1) \div FRAGMENT_BYTES) + 1
    BY <1>1, <2>1, OneDivisorMore
  <2> QED BY <1>3, <2>1, <2>2, <2>3, SMTT(30) DEF fragment_count
<1> QED BY <1>2, <1>3

\* A call that starts has all the fragments of its message to make.
LEMMA StartOf ==
    ASSUME NEW m \in Message, NEW c,
           c = [type |-> m.type, id |-> m.id, body |-> m.body, len |-> m.len,
                offset |-> 0, index |-> 0]
    PROVE  CallOf(c, m) /\ c.index = 0
<1>1. /\ c.type = m.type /\ c.id = m.id /\ c.len = m.len /\ c.body = m.body
      /\ c.offset = 0 /\ c.index = 0 /\ m.len \in Nat
  BY DEF Message
<1>2. FRAGMENT_BYTES \in Nat /\ fragment_count(m.len) \in Nat
  BY <1>1, PacketsAssumption, FragmentCount
<1>3. c.len - c.offset = m.len /\ c.offset = c.index * FRAGMENT_BYTES
  BY <1>1, <1>2, SMTT(30)
<1> QED BY <1>1, <1>2, <1>3, SMTT(30) DEF CallOf

\* A round of the loop makes a fragment of the message, and the loop ends with
\* the last one.
LEMMA RoundOf ==
    ASSUME NEW m \in Message, NEW c \in SendCall, CallOf(c, m)
    PROVE  /\ FragmentOf(NextFragment(c), m)
           /\ KeyOf(NextFragment(c)) = <<m.id, c.index>>
           /\ IF CallAfter(c) = NoCall THEN c.index + 1 = fragment_count(m.len)
              ELSE CallOf(CallAfter(c), m) /\ CallAfter(c).index = c.index + 1
<1> DEFINE x == c.len - c.offset
           end == FragmentEnd(c.offset, c.len)
           F == FRAGMENT_BYTES
<1>1. /\ c.len \in Nat /\ c.offset \in Nat /\ c.index \in Nat /\ c.offset <= c.len
      /\ F \in Nat \ {0}
  BY SendCallType, PacketsAssumption
<1>2. x \in Nat
  BY <1>1, SMTT(30)
<1>3. fragment_count(x) \in Nat \ {0} /\ c.index + fragment_count(x) = fragment_count(m.len)
  BY <1>2, FragmentCount DEF CallOf
<1>4. /\ end \in Nat /\ end <= c.len /\ end - c.offset <= F
      /\ ~(end >= c.len) => end = c.offset + F /\ x > F
      /\ end >= c.len => x <= F
  BY <1>1, SMTT(30) DEF FragmentEnd
<1>5. FragmentOf(NextFragment(c), m) /\ KeyOf(NextFragment(c)) = <<m.id, c.index>>
  <2>1. c.index < fragment_count(m.len)
    BY <1>1, <1>3, SMTT(30)
  <2> QED BY <1>4, <2>1 DEF NextFragment, FragmentAt, FragmentOf, CallOf, KeyOf
<1>6. CASE end >= c.len
  <2>1. fragment_count(x) = 1
    BY <1>2, <1>4, <1>6, SingleFragment
  <2>2. CallAfter(c) = NoCall
    BY <1>6 DEF CallAfter
  <2> QED BY <1>3, <1>5, <2>1, <2>2
<1>7. CASE ~(end >= c.len)
  <2> DEFINE d == Advanced(c, end)
  <2>1. CallAfter(c) = d
    BY <1>7 DEF CallAfter
  <2>2. d \in SendCall /\ d.type = c.type /\ d.len = c.len /\ d.offset = end
    BY <1>4, SendCallNext, SMTT(30)
  <2>3. d.id = c.id /\ d.body = c.body /\ d.index = c.index + 1
    BY DEF Advanced, SendCall
  <2>4. d # NoCall
    BY <2>2, CallAssumption
  <2> HIDE DEF d
  <2>5. d.len - d.offset = x - F
    BY <1>1, <1>4, <1>7, <2>2, SMTT(30)
  <2>6. fragment_count(x) = fragment_count(x - F) + 1 /\ x - F \in Nat
    BY <1>1, <1>2, <1>4, <1>7, FragmentCount, SMTT(30)
  <2>7. fragment_count(x - F) \in Nat
    BY <2>6, FragmentCount
  <2>8. d.index + fragment_count(d.len - d.offset) = fragment_count(d.len)
    <3>1. PICK a \in Nat, b \in Nat : a = c.index /\ b = fragment_count(x - F)
      BY <1>1, <2>7
    <3>2. a + (b + 1) = fragment_count(c.len)
      BY <1>3, <2>6, <3>1 DEF CallOf
    <3>3. (a + 1) + b = fragment_count(c.len)
      BY <3>2, SMTT(30)
    <3> QED BY <2>2, <2>3, <2>5, <3>1, <3>3
  <2>9. d.offset = d.index * FRAGMENT_BYTES
    <3>1. PICK a \in Nat, b \in Nat : a = c.index /\ b = F
      BY <1>1
    <3>2. d.offset = a * b + b
      BY <1>4, <1>7, <2>2, <3>1 DEF CallOf
    <3>3. a * b + b = (a + 1) * b
      BY SMTT(30)
    <3> QED BY <2>3, <3>1, <3>2, <3>3
  <2>10. CallOf(d, m)
    BY <2>2, <2>3, <2>8, <2>9 DEF CallOf
  <2> QED BY <1>5, <2>1, <2>3, <2>4, <2>10
<1> QED BY <1>6, <1>7

-----------------------------------------------------------------------------
(* Where packets come from *)

\* p sent the fragment f of one of the messages A.
Sent(A, p, f) == \E m \in A : m.from = p /\ FragmentOf(f, m)

\* p had reason to send the packet: it is of a message of A, or acknowledges a
\* key of S, those p's engine accepted.
Valid(A, S, p, packet) ==
    /\ packet.type \in MessageTypes => Sent(A, p, packet)
    /\ packet.type = "ack" => KeyOf(packet) \in S

WireValid(A, S, p, w) == \A i \in DOMAIN w : Valid(A, S, p, w[i])

QueuesValid(A, S, p, s) ==
    \A k \in QueueKind : \A i \in DOMAIN s[k] :
        s[k][i].kind = "write" => Valid(A, S, p, s[k][i].packet)

RecordValid(A, p, r) ==
    r.key = KeyOf(r.packet) /\ r.packet.type = "data" /\ Sent(A, p, r.packet)

TableValid(A, p, t) == \A j \in Occupied(t) : RecordValid(A, p, t[j])

AcksValid(S, w) == \A i \in DOMAIN w : w[i] \in S

CallValid(A, p, c) == c # NoCall => \E m \in A : m.from = p /\ CallOf(c, m)

\* What is valid stays so when messages and keys are added.
LEMMA ValidGrows ==
    ASSUME NEW A, NEW B, A \subseteq B, NEW S, NEW T, S \subseteq T, NEW p
    PROVE  /\ \A w : WireValid(A, S, p, w) => WireValid(B, T, p, w)
           /\ \A s : QueuesValid(A, S, p, s) => QueuesValid(B, T, p, s)
           /\ \A t : TableValid(A, p, t) => TableValid(B, p, t)
           /\ \A w : AcksValid(S, w) => AcksValid(T, w)
           /\ \A c : CallValid(A, p, c) => CallValid(B, p, c)
<1>1. \A f : Sent(A, p, f) => Sent(B, p, f)
  BY DEF Sent
<1>2. \A f : Valid(A, S, p, f) => Valid(B, T, p, f)
  BY <1>1 DEF Valid
<1>3. \A r : RecordValid(A, p, r) => RecordValid(B, p, r)
  BY <1>1 DEF RecordValid
<1> QED BY <1>2, <1>3 DEF WireValid, QueuesValid, TableValid, AcksValid, CallValid

\* Pushing a valid packet, or a failure, keeps the queues valid.
LEMMA PushValid ==
    ASSUME NEW A, NEW S, NEW p, NEW s \in SchedulerType, QueuesValid(A, S, p, s),
           NEW e \in EngineOutput, e.kind = "write" => Valid(A, S, p, e.packet)
    PROVE  QueuesValid(A, S, p, push(s, e))
<1> SUFFICES ASSUME NEW k \in QueueKind, NEW i \in DOMAIN push(s, e)[k],
                    push(s, e)[k][i].kind = "write"
             PROVE  Valid(A, S, p, push(s, e)[k][i].packet)
  BY DEF QueuesValid
<1>1. \/ push(s, e)[k][i] = e
      \/ i \in DOMAIN s[k] /\ push(s, e)[k][i] = s[k][i]
  BY PushOrigin
<1> QED BY <1>1 DEF QueuesValid

\* Popping an event keeps the queues valid.
LEMMA PopValid ==
    ASSUME NEW A, NEW S, NEW p, NEW s \in SchedulerType, QueuesValid(A, S, p, s),
           NEW k \in QueueKind, s[k] # <<>>
    PROVE  QueuesValid(A, S, p, pop(s, k))
<1> DEFINE u == pop(s, k)
<1>1. ASSUME NEW l \in QueueKind, NEW j \in DOMAIN u[l]
      PROVE  \E i \in DOMAIN s[l] : u[l][j] = s[l][i]
  <2>1. LET i == IF l = k THEN j + 1 ELSE j
        IN  i \in DOMAIN s[l] /\ u[l][j] = s[l][i]
    BY PopShifts, SMTT(30)
  <2> QED BY <2>1
<1> HIDE DEF u
<1>2. QueuesValid(A, S, p, u)
  BY <1>1, SMTT(30) DEF QueuesValid
<1> QED BY <1>2 DEF u

\* Transmitting an event changes no key and no packet of the table.
LEMMA NotedPackets ==
    ASSUME NEW t \in TableType, UniqueKeys(t), NEW e
    PROVE  /\ Occupied(Noted(t, e, TRUE)) = Occupied(t)
           /\ \A j \in Occupied(t) : /\ Noted(t, e, TRUE)[j].key = t[j].key
                                     /\ Noted(t, e, TRUE)[j].packet = t[j].packet
<1> DEFINE u == Noted(t, e, TRUE)
<1>1. u = t \/ u = note_sent(t, e.key) \/ u = note_retransmit_sent(t, e.key)
  BY DEF Noted
<1> HIDE DEF u
<1>2. CASE u = note_sent(t, e.key) \/ u = note_retransmit_sent(t, e.key)
  <2>1. /\ Occupied(u) = Occupied(t)
        /\ \A j \in Occupied(t) : u[j].key = t[j].key /\ u[j].packet = t[j].packet
    BY <1>2, NoteSent, SMTT(30)
  <2> QED BY <2>1 DEF u
<1>3. CASE u = t
  BY <1>3 DEF u
<1> QED BY <1>1, <1>2, <1>3

\* The table stays valid when its packets stay, and when one is tracked.
LEMMA TableStaysValid ==
    ASSUME NEW A, NEW p, NEW t \in TableType, TableValid(A, p, t)
    PROVE  /\ \A u : (/\ Occupied(u) \subseteq Occupied(t)
                      /\ \A j \in Occupied(u) : u[j].key = t[j].key /\ u[j].packet = t[j].packet)
                         => TableValid(A, p, u)
           /\ \A r \in InFlightPacket :
                  (UniqueKeys(t) /\ ~TrackFails(t, r.key) /\ RecordValid(A, p, r))
                      => TableValid(A, p, track(t, r))
<1>1. \A u : (/\ Occupied(u) \subseteq Occupied(t)
              /\ \A j \in Occupied(u) : u[j].key = t[j].key /\ u[j].packet = t[j].packet)
                 => TableValid(A, p, u)
  BY DEF TableValid, RecordValid
<1>2. ASSUME NEW r \in InFlightPacket, UniqueKeys(t), ~TrackFails(t, r.key), RecordValid(A, p, r)
      PROVE  TableValid(A, p, track(t, r))
  <2> DEFINE u == track(t, r)
  <2>0. UniqueKeys(t) /\ ~TrackFails(t, r.key)
    BY <1>2
  <2>1. \A j \in Occupied(u) : \/ u[j] = r
                               \/ j \in Occupied(t) /\ u[j] = t[j] /\ t[j].key # r.key
    BY <2>0, TrackSlot, ZenonT(30)
  <2> HIDE DEF u
  <2>2. TableValid(A, p, u)
    BY <1>2, <2>1 DEF TableValid
  <2> QED BY <2>2 DEF u
<1> QED BY <1>1, <1>2

-----------------------------------------------------------------------------
(* Packets and failures that are kept *)

\* A push keeps the failures that are queued.
LEMMA PushKeepsFailures ==
    ASSUME NEW s \in SchedulerType, NEW e \in EngineOutput, NEW id,
           SendFailed(id) \in Range(s["local"])
    PROVE  SendFailed(id) \in Range(push(s, e)["local"])
<1> DEFINE u == push(s, e)
<1>1. "local" \in QueueKind
  BY DEF QueueKind
<1>2. PICK j \in DOMAIN s["local"] : s["local"][j] = SendFailed(id)
  BY DEF Range
<1>3. j \in DOMAIN u["local"] /\ u["local"][j] = s["local"][j]
  <2>1. CASE IsRedundant(s, e)
    <3>0. PICK k \in QueueKind : \E i \in DOMAIN s[k] :
              /\ IsWriteOf(s[k][i], e.key)
              /\ \A l \in QueueKind :
                     /\ DOMAIN push(s, e)[l] = DOMAIN s[l]
                     /\ \A x \in DOMAIN s[l] :
                            push(s, e)[l][x] = IF l = k /\ x = i THEN e ELSE s[l][x]
      BY <2>1, PushReplaces
    <3>1. PICK i \in DOMAIN s[k] :
              /\ IsWriteOf(s[k][i], e.key)
              /\ \A l \in QueueKind :
                     /\ DOMAIN push(s, e)[l] = DOMAIN s[l]
                     /\ \A x \in DOMAIN s[l] :
                            push(s, e)[l][x] = IF l = k /\ x = i THEN e ELSE s[l][x]
      BY <3>0
    <3>2. ~IsWriteOf(s["local"][j], e.key)
      BY <1>2, SMTT(30) DEF IsWriteOf, SendFailed
    <3>3. ~("local" = k /\ j = i)
      BY <3>1, <3>2
    <3> QED BY <1>1, <3>1, <3>3
  <2>2. CASE ~IsRedundant(s, e) /\ SchedulerLen(s) = MAX_EVENTS
    BY <2>2 DEF push
  <2>3. CASE ~IsRedundant(s, e) /\ SchedulerLen(s) # MAX_EVENTS
    <3>1. /\ DOMAIN u["local"] = IF "local" = queue_for_event(e) THEN 1 .. Len(s["local"]) + 1
                                 ELSE DOMAIN s["local"]
          /\ u["local"][j] = s["local"][j]
      BY <1>1, <2>3, PushAppends, SMTT(30)
    <3>2. DOMAIN s["local"] = 1 .. Len(s["local"]) /\ Len(s["local"]) \in Nat
      BY <1>1, SchedulerLenType
    <3>3. j \in 1 .. Len(s["local"]) + 1
      BY <3>2, SMTT(30)
    <3> QED BY <3>1, <3>3
  <2> QED BY <2>1, <2>2, <2>3
<1> QED BY <1>2, <1>3 DEF Range

\* While there is room, a failure that is pushed is queued.
LEMMA PushQueuesFailure ==
    ASSUME NEW s \in SchedulerType, NEW id \in MessageId, SchedulerLen(s) # MAX_EVENTS
    PROVE  SendFailed(id) \in Range(push(s, SendFailed(id))["local"])
<1> DEFINE e == SendFailed(id)
           u == push(s, e)
<1>1. e \in EngineOutput /\ ~IsRedundant(s, e) /\ queue_for_event(e) = "local"
  BY EventType DEF SendFailed, IsRedundant, queue_for_event
<1> HIDE DEF e
<1>2. /\ DOMAIN u["local"] = 1 .. Len(s["local"]) + 1
      /\ u["local"][Len(s["local"]) + 1] = e
  BY <1>1, PushAppends DEF QueueKind
<1>3. Len(s["local"]) \in Nat
  BY SchedulerLenType DEF QueueKind
<1>4. Len(s["local"]) + 1 \in DOMAIN u["local"]
  BY <1>2, <1>3, SMTT(30)
<1> QED BY <1>2, <1>4 DEF Range, e

\* A pop takes at most the failure it returns.
LEMMA PopKeepsFailures ==
    ASSUME NEW s \in SchedulerType, NEW k \in QueueKind, s[k] # <<>>, NEW id,
           SendFailed(id) \in Range(s["local"])
    PROVE  Head(s[k]) = SendFailed(id) \/ SendFailed(id) \in Range(pop(s, k)["local"])
<1> DEFINE u == pop(s, k)
<1>1. PICK j \in DOMAIN s["local"] : s["local"][j] = SendFailed(id)
  BY DEF Range
<1>2. CASE k = "local" /\ j = 1
  BY <1>1, <1>2, PopShifts
<1>3. CASE k # "local" \/ j # 1
  <2>1. "local" \in QueueKind
    BY DEF QueueKind
  <2>2. \A l \in QueueKind : \A i \in DOMAIN s[l] :
           (l # k \/ i # 1) =>
               LET h == IF l = k THEN i - 1 ELSE i
               IN  h \in DOMAIN u[l] /\ u[l][h] = s[l][i]
    BY PopShifts
  <2>3. LET i == IF "local" = k THEN j - 1 ELSE j
        IN  i \in DOMAIN u["local"] /\ u["local"][i] = s["local"][j]
    BY <1>3, <2>1, <2>2
  <2> QED BY <1>1, <2>3 DEF Range
<1> QED BY <1>2, <1>3

\* A table that keeps its packets keeps its keys.
LEMMA KeysStay ==
    ASSUME NEW t, NEW u, NEW key, HoldsKey(t, key),
           \A j \in Occupied(t) : t[j].key = key => j \in Occupied(u) /\ u[j].key = t[j].key
    PROVE  HoldsKey(u, key)
BY DEF HoldsKey, Occupied

\* Tracking a packet loses no other one.
LEMMA TrackKeepsKeys ==
    ASSUME NEW t \in TableType, NEW r \in InFlightPacket, ~TrackFails(t, r.key),
           NEW key, HoldsKey(t, key) \/ key = r.key
    PROVE  HoldsKey(track(t, r), key)
<1> DEFINE u == track(t, r)
<1>1. r # None
  BY InFlightAssumption
<1>2. CASE HoldsKey(t, r.key)
  <2> DEFINE i == SlotOfKey(t, r.key)
  <2>1. i \in Occupied(t) /\ i \in Slots /\ t[i].key = r.key
    BY <1>2, SlotOfKeyIn DEF Occupied
  <2>2. u = [t EXCEPT ![i] = r]
    BY <1>2 DEF track
  <2> HIDE DEF i, u
  <2>3. u[i] = r /\ \A j \in Slots : j # i => u[j] = t[j]
    BY <2>1, <2>2 DEF TableType
  <2>4. HoldsKey(u, key)
    BY <1>1, <2>1, <2>3 DEF HoldsKey
  <2> QED BY <2>4 DEF u
<1>3. CASE ~HoldsKey(t, r.key)
  <2> DEFINE i == FirstFree(t)
  <2>1. Occupied(t) # Slots
    BY <1>3 DEF TrackFails
  <2>2. i \in Slots \ Occupied(t)
    <3>1. Slots \ Occupied(t) # {} /\ Slots \ Occupied(t) \in SUBSET Slots
      BY <2>1 DEF Occupied
    <3> QED BY <3>1, FirstIn DEF FirstFree
  <2>3. u = [t EXCEPT ![i] = r]
    BY <1>3, <2>1 DEF track
  <2> HIDE DEF i, u
  <2>4. u[i] = r /\ \A j \in Slots : j # i => u[j] = t[j]
    BY <2>2, <2>3 DEF TableType
  <2>5. HoldsKey(u, key)
    BY <1>1, <2>2, <2>4 DEF HoldsKey, Occupied
  <2> QED BY <2>5 DEF u
<1> QED BY <1>2, <1>3

\* An ACK removes no packet but its own.
LEMMA AckKeepsOthers ==
    ASSUME NEW t \in TableType, NEW k, NEW key, key # k, HoldsKey(t, key)
    PROVE  HoldsKey(apply_ack(t, k), key)
<1>1. CASE HoldsKey(t, k)
  <2> DEFINE i == SlotOfKey(t, k)
             u == apply_ack(t, k)
  <2>1. i \in Slots /\ t[i].key = k
    BY <1>1, SlotOfKeyIn DEF Occupied
  <2>2. u = [t EXCEPT ![i] = None]
    BY <1>1 DEF apply_ack
  <2> HIDE DEF i, u
  <2>3. \A j \in Slots : j # i => u[j] = t[j]
    BY <2>1, <2>2 DEF TableType
  <2>4. HoldsKey(u, key)
    BY <2>1, <2>3 DEF HoldsKey
  <2> QED BY <2>4 DEF u
<1>2. CASE ~HoldsKey(t, k)
  BY <1>2 DEF apply_ack
<1> QED BY <1>1, <1>2

\* The failure of id is reported, or queued to be.
Known(s, R, id) == id \in R \/ SendFailed(id) \in Range(s["local"])

-----------------------------------------------------------------------------
(* The peers and what they have sent *)

\* There are two peers, each the other of the other.
LEMMA OtherPeer ==
    ASSUME NEW p \in Peers
    PROVE  /\ Other(p) \in Peers /\ Other(p) # p /\ Other(Other(p)) = p
           /\ \A q \in Peers : q # p => q = Other(p)
<1>1. PICK x, y \in Peers : x # y /\ Peers = {x, y}
  BY TransportAssumption
<1>2. Other(x) = y /\ Other(y) = x
  BY <1>1 DEF Other
<1> QED BY <1>1, <1>2

HistoryOK ==
    /\ wire \in [Peers -> Seq(Packet)]
    /\ calls \in 0 .. MAX_SENDS
    /\ accepted \subseteq Message
    /\ seen \in [Peers -> SUBSET PacketKey]
    /\ delivered \in [Peers -> Seq(MessageEvent)]
    /\ reported \in [Peers -> SUBSET MessageId]

-----------------------------------------------------------------------------
(* What is on the link *)

\* Taking a packet off the link adds nothing to it.
LEMMA WithoutElements ==
    ASSUME NEW S, NEW s \in Seq(S), NEW i \in 1 .. Len(s)
    PROVE  /\ Without(s, i) \in Seq(S)
           /\ \A j \in DOMAIN Without(s, i) : \E k \in DOMAIN s : Without(s, i)[j] = s[k]
<1> DEFINE h == SubSeq(s, 1, i - 1)
           l == SubSeq(s, i + 1, Len(s))
<1>1. /\ h \in Seq(S) /\ Len(h) = i - 1
      /\ \A j \in 1 .. i - 1 : h[j] = s[j]
  BY SMTT(30)
<1>2. /\ l \in Seq(S) /\ Len(l) = Len(s) - i
      /\ \A j \in 1 .. Len(s) - i : l[j] = s[i + j]
  BY SMTT(30)
<1>3. Without(s, i) = h \o l
  BY DEF Without
<1> HIDE DEF h, l
<1> DEFINE w == h \o l
<1>4. /\ w \in Seq(S) /\ Len(w) = Len(h) + Len(l)
      /\ \A j \in 1 .. Len(h) + Len(l) : w[j] = IF j <= Len(h) THEN h[j] ELSE l[j - Len(h)]
  <2>1. h \in Seq(S) /\ l \in Seq(S)
    BY <1>1, <1>2
  <2>2. w \in Seq(S)
    BY <2>1, SMTT(30)
  <2>3. Len(w) = Len(h) + Len(l)
    BY <2>1, SMTT(30)
  <2>4. \A j \in 1 .. Len(h) + Len(l) : w[j] = IF j <= Len(h) THEN h[j] ELSE l[j - Len(h)]
    BY <2>1, SMTT(30)
  <2> QED BY <2>2, <2>3, <2>4
<1> HIDE DEF w
<1>5. ASSUME NEW j \in DOMAIN w
      PROVE  \E k \in DOMAIN s : w[j] = s[k]
  <2>1. j \in 1 .. Len(w) /\ DOMAIN s = 1 .. Len(s)
    BY <1>4, SMTT(30)
  <2>2. j \in 1 .. Len(h) + Len(l)
    BY <1>4, <2>1
  <2> DEFINE n == i - 1
             g == j - n
  <2>3. Len(h) = n /\ n \in Nat /\ j \in Nat
    BY <1>1, <2>1, SMTT(30)
  <2>4. CASE j <= Len(h)
    <3>1. j \in 1 .. i - 1
      BY <2>2, <2>4, <2>3, SMTT(30)
    <3>2. w[j] = h[j]
      BY <1>4, <2>2, <2>4
    <3> QED BY <1>1, <2>1, <3>1, <3>2, SMTT(30)
  <2>5. CASE ~(j <= Len(h))
    <3>1. w[j] = l[g]
      BY <1>4, <2>2, <2>5, <2>3
    <3>2. Len(l) = Len(s) - i
      BY <1>2
    <3>3. g \in 1 .. Len(s) - i /\ i + g \in 1 .. Len(s)
      BY <2>2, <2>5, <2>3, <3>2, SMTT(30)
    <3>4. w[j] = s[i + g]
      BY <1>2, <3>1, <3>3
    <3> QED BY <2>1, <3>3, <3>4
  <2> QED BY <2>4, <2>5
<1> QED BY <1>3, <1>4, <1>5 DEF w

\* The packets that may be on the link from q next: those that are, and the one
\* packet a poll of q puts there.
Carried(q, packet) ==
    \/ \E k \in DOMAIN wire[q] : packet = wire[q][k]
    \/ acks[q] # <<>> /\ packet = AckFor(Head(acks[q]))
    \/ \E k \in QueueKind : /\ queues[q][k] # <<>>
                            /\ Head(queues[q][k]).kind = "write"
                            /\ packet = Head(queues[q][k]).packet

\* A poll puts at most its own packet on the link, behind the ones before it.
LEMMA TransmitElements ==
    ASSUME HistoryOK, NEW p \in Peers, NEW packet \in Packet, Carried(p, packet),
           Transmit(p, packet)
    PROVE  /\ wire' \in [Peers -> Seq(Packet)]
           /\ \A q \in Peers : \A j \in DOMAIN wire'[q] : Carried(q, wire'[q][j])
<1>1. wire[p] \in Seq(Packet)
  BY DEF HistoryOK
<1>2. CASE wire' = wire
  BY <1>2 DEF HistoryOK, Carried
<1>3. CASE wire' = [wire EXCEPT ![p] = Append(wire[p], packet)]
  <2>1. /\ Append(wire[p], packet) \in Seq(Packet)
        /\ \A j \in DOMAIN Append(wire[p], packet) :
               \/ Append(wire[p], packet)[j] = packet
               \/ j \in DOMAIN wire[p] /\ Append(wire[p], packet)[j] = wire[p][j]
    BY <1>1, SMTT(30)
  <2>2. wire'[p] = Append(wire[p], packet) /\ \A q \in Peers : q # p => wire'[q] = wire[q]
    BY <1>3 DEF HistoryOK
  <2>3. wire' \in [Peers -> Seq(Packet)]
    BY <1>3, <2>1 DEF HistoryOK
  <2>4. ASSUME NEW q \in Peers, NEW j \in DOMAIN wire'[q]
        PROVE  Carried(q, wire'[q][j])
    <3>1. CASE q = p
      BY <2>1, <2>2, <3>1 DEF Carried
    <3>2. CASE q # p
      BY <2>2, <3>2 DEF Carried
    <3> QED BY <3>1, <3>2
  <2> QED BY <2>3, <2>4
<1> QED BY <1>2, <1>3 DEF Transmit

\* Nothing else comes onto the link.
LEMMA LinkCarries ==
    ASSUME IndInv, HistoryOK, [TransportNext]_allVars
    PROVE  /\ wire' \in [Peers -> Seq(Packet)]
           /\ \A q \in Peers : \A j \in DOMAIN wire'[q] : Carried(q, wire'[q][j])
<1>1. CASE wire' = wire
  BY <1>1 DEF HistoryOK, Carried
<1>2. ASSUME NEW p \in Peers, NEW i \in Arrivals(p), wire' = [wire EXCEPT ![p] = Without(@, i)]
      PROVE  /\ wire' \in [Peers -> Seq(Packet)]
             /\ \A q \in Peers : \A j \in DOMAIN wire'[q] : Carried(q, wire'[q][j])
  <2>1. wire[p] \in Seq(Packet) /\ i \in 1 .. Len(wire[p])
    BY DEF HistoryOK, Arrivals
  <2>2. /\ Without(wire[p], i) \in Seq(Packet)
        /\ \A j \in DOMAIN Without(wire[p], i) :
               \E k \in DOMAIN wire[p] : Without(wire[p], i)[j] = wire[p][k]
    BY <2>1, WithoutElements
  <2>3. wire'[p] = Without(wire[p], i) /\ \A q \in Peers : q # p => wire'[q] = wire[q]
    BY <1>2 DEF HistoryOK
  <2>4. wire' \in [Peers -> Seq(Packet)]
    BY <1>2, <2>2 DEF HistoryOK
  <2> QED BY <2>2, <2>3, <2>4, SMTT(30) DEF Carried
<1>3. ASSUME NEW p \in Peers, OutputAck(p)
      PROVE  \E packet \in Packet : Carried(p, packet) /\ Transmit(p, packet)
  <2>1. acks[p] \in Seq(PacketKey) /\ acks[p] # <<>>
    BY <1>3 DEF IndInv, ReceiverOK, OutputAck, PollAck
  <2>2. Head(acks[p]) \in PacketKey
    BY <2>1, SMTT(30)
  <2>3. AckFor(Head(acks[p])) \in Packet
    BY <2>2 DEF AckFor, Packet, AckPacket, PacketKey
  <2> QED BY <1>3, <2>1, <2>3 DEF OutputAck, Carried
<1>4. ASSUME NEW p \in Peers, OutputWrite(p)
      PROVE  \E packet \in Packet : Carried(p, packet) /\ Transmit(p, packet)
  <2>1. PICK k \in QueueKind :
            /\ \/ PollUrgent(p, TRUE) /\ k = UrgentQueue(queues[p])
               \/ PollNewData(p, TRUE) /\ k = "new_data"
            /\ Head(queues[p][k]).kind = "write"
            /\ Transmit(p, Head(queues[p][k]).packet)
    BY <1>4 DEF OutputWrite
  <2>2. queues[p][k] # <<>>
    BY <2>1 DEF PollUrgent, PollNewData, HasUrgent, UrgentQueue
  <2>3. Head(queues[p][k]) \in EngineOutput
    BY <2>2, PopShifts DEF IndInv, SenderOK
  <2>4. Head(queues[p][k]).packet \in Packet
    BY <2>1, <2>3 DEF EngineOutput, WriteEvent, SendFailedEvent
  <2> QED BY <2>1, <2>2, <2>4 DEF Carried
<1>5. CASE \E p \in Peers : OutputAck(p) \/ OutputWrite(p)
  BY <1>3, <1>4, <1>5, TransmitElements
<1>6. CASE UNCHANGED allVars
  BY <1>1, <1>6 DEF allVars
<1>7. CASE TransportNext
  <2>1. \/ UNCHANGED wire
        \/ \E p \in Peers : OutputAck(p) \/ OutputWrite(p)
        \/ \E p \in Peers : \E i \in Arrivals(p) : wire' = [wire EXCEPT ![p] = Without(@, i)]
    BY <1>7 DEF TransportNext, AppSend, AppPing, AppPoll, Quiet, Outputs, OutputSendFailed,
                OutputMessage, Deliver, Lose
  <2> QED BY <1>1, <1>2, <1>5, <2>1
<1> QED BY <1>6, <1>7

\* The types of what the link and the applications have seen are kept.
LEMMA HistoryKept ==
    ASSUME IndInv, HistoryOK, [TransportNext]_allVars
    PROVE  HistoryOK'
<1>1. wire' \in [Peers -> Seq(Packet)]
  BY LinkCarries
<1>2. CASE UNCHANGED historyVars
  BY <1>1, <1>2 DEF HistoryOK, historyVars
<1>3. ASSUME NEW p \in Peers, NEW type \in SendTypes, NEW len \in Lengths, AppSend(p, type, len)
      PROVE  HistoryOK'
  <2>1. /\ type \in MessageTypes /\ len \in Nat /\ calls' \in 0 .. MAX_SENDS /\ calls' \in Bodies
    BY <1>3, TransportAssumption, EngineAssumption, SMTT(30) DEF HistoryOK, AppSend
  <2>2. next_id'[p] \in MessageId
    BY <1>3, NextId DEF AppSend, Send, SendRefused, IndInv
  <2>3. accepted' \subseteq Message
    BY <1>3, <2>1, <2>2, SMTT(30) DEF HistoryOK, AppSend, Message
  <2> QED BY <1>1, <1>3, <2>1, <2>3 DEF HistoryOK, AppSend
<1>4. ASSUME NEW p \in Peers, AppPing(p)
      PROVE  HistoryOK'
  BY <1>1, <1>4 DEF HistoryOK, AppPing
<1>5. ASSUME NEW p \in Peers, OutputSendFailed(p)
      PROVE  HistoryOK'
  <2> DEFINE k == UrgentQueue(queues[p])
             e == Head(queues[p][k])
  <2>1. k \in QueueKind /\ queues[p][k] # <<>>
    BY <1>5 DEF OutputSendFailed, PollUrgent, HasUrgent, UrgentQueue, QueueKind
  <2>2. e \in EngineOutput
    BY <2>1, PopShifts DEF IndInv, SenderOK
  <2>3. e.kind = "send_failed" /\ reported' = [reported EXCEPT ![p] = @ \cup {e.id}]
    BY <1>5 DEF OutputSendFailed
  <2>4. e.id \in MessageId
    BY <2>2, <2>3 DEF EngineOutput, WriteEvent, SendFailedEvent
  <2>5. reported' \in [Peers -> SUBSET MessageId]
    BY <2>3, <2>4 DEF HistoryOK
  <2> QED BY <1>1, <1>5, <2>5 DEF HistoryOK, OutputSendFailed
<1>6. ASSUME NEW p \in Peers, OutputMessage(p)
      PROVE  HistoryOK'
  <2>1. messages[p] \in Seq(MessageEvent) /\ messages[p] # <<>>
    BY <1>6 DEF OutputMessage, PollMessage, IndInv, ReceiverOK
  <2>2. Head(messages[p]) \in MessageEvent /\ delivered[p] \in Seq(MessageEvent)
    BY <2>1, SMTT(30) DEF HistoryOK
  <2>3. Append(delivered[p], Head(messages[p])) \in Seq(MessageEvent)
    BY <2>2, SMTT(30)
  <2>4. delivered' \in [Peers -> Seq(MessageEvent)]
    BY <1>6, <2>3 DEF HistoryOK, OutputMessage
  <2> QED BY <1>1, <1>6, <2>4 DEF HistoryOK, OutputMessage
<1>7. ASSUME NEW p \in Peers, NEW i \in Arrivals(p), Deliver(p, i)
      PROVE  HistoryOK'
  <2> DEFINE f == wire[p][i]
  <2>1. f \in Packet /\ Other(p) \in Peers
    BY OtherPeer, SMTT(30) DEF HistoryOK, Arrivals
  <2>2. f.type = "data" => KeyOf(f) \in PacketKey
    BY <2>1, IncomingFragment DEF MessageTypes
  <2>3. seen' \in [Peers -> SUBSET PacketKey]
    BY <1>7, <2>1, <2>2 DEF HistoryOK, Deliver
  <2> QED BY <1>1, <1>7, <2>3 DEF HistoryOK, Deliver
<1>8. CASE UNCHANGED allVars
  BY <1>2, <1>8 DEF allVars
<1>9. CASE TransportNext
  <2>1. ASSUME NEW p \in Peers, Quiet(p) \/ OutputAck(p) \/ OutputWrite(p)
        PROVE  UNCHANGED historyVars
    BY <2>1 DEF Quiet, OutputAck, OutputWrite
  <2> QED BY <1>2, <1>3, <1>4, <1>5, <1>6, <1>7, <1>9, <2>1
          DEF TransportNext, Outputs, AppPoll, Lose
<1> QED BY <1>8, <1>9

-----------------------------------------------------------------------------
(* A step of the transport, as the sending side of one engine sees it *)

Rests(q) ==
    /\ queues'[q] = queues[q] /\ in_flight'[q] = in_flight[q]
    /\ sending'[q] = sending[q] /\ reported'[q] = reported[q]

Starts(q, m) ==
    /\ sending[q] = NoCall
    /\ sending'[q] = [type |-> m.type, id |-> m.id, body |-> m.body, len |-> m.len,
                      offset |-> 0, index |-> 0]
    /\ queues'[q] = queues[q] /\ in_flight'[q] = in_flight[q] /\ reported'[q] = reported[q]

Splits(q) ==
    /\ sending[q] # NoCall
    /\ queues'[q] = push(queues[q], NextWrite(sending[q]))
    /\ in_flight'[q] = TableAfter(in_flight[q], sending[q])
    /\ sending'[q] = CallAfter(sending[q])
    /\ reported'[q] = reported[q]

Greets(q, e) ==
    /\ e.kind = "write" /\ e.packet \in {Ping, Pong}
    /\ queues'[q] = push(queues[q], e)
    /\ in_flight'[q] = in_flight[q] /\ sending'[q] = sending[q] /\ reported'[q] = reported[q]

Hears(q, a) ==
    /\ a.type = "ack"
    /\ sending[q] = NoCall
    /\ in_flight'[q] = apply_ack(in_flight[q], KeyOf(a))
    /\ queues'[q] = queues[q] /\ sending'[q] = sending[q] /\ reported'[q] = reported[q]

Ages(q, delta) ==
    /\ in_flight'[q] = Aged(in_flight[q], delta)
    /\ queues'[q] = queues[q] /\ sending'[q] = sending[q] /\ reported'[q] = reported[q]

Fails(q, i) ==
    /\ ticking[q] # NoCall /\ sending[q] = NoCall
    /\ i \in ticking[q].failed /\ i \in Occupied(in_flight[q])
    /\ in_flight'[q] = remove_message(in_flight[q], in_flight[q][i].packet.id)
    /\ queues'[q] = push(queues[q], SendFailed(in_flight[q][i].packet.id))
    /\ sending'[q] = sending[q] /\ reported'[q] = reported[q]

Retries(q, i) ==
    LET t == in_flight[q][i]
    IN  /\ i \in Occupied(in_flight[q])
        /\ queues'[q] = push(queues[q], Write(t.key, t.packet, t.attempts + 1, "retransmit"))
        /\ in_flight'[q] = in_flight[q] /\ sending'[q] = sending[q] /\ reported'[q] = reported[q]

Emits(q, k) ==
    LET e == Head(queues[q][k])
    IN  /\ queues[q][k] # <<>>
        /\ queues'[q] = pop(queues[q], k)
        /\ in_flight'[q] = Noted(in_flight[q], e, TRUE)
        /\ sending'[q] = sending[q]
        /\ \/ e.kind = "write" /\ reported'[q] = reported[q]
           \/ e.kind = "send_failed" /\ reported'[q] = reported[q] \cup {e.id}

SenderStep(q) ==
    \/ Rests(q)
    \/ \E m \in accepted' : m.from = q /\ Starts(q, m)
    \/ Splits(q)
    \/ \E e \in EngineOutput : Greets(q, e)
    \/ \E j \in DOMAIN wire[Other(q)] : Hears(q, wire[Other(q)][j])
    \/ \E delta \in Nat : Ages(q, delta)
    \/ \E i \in Slots : Fails(q, i)
    \/ \E i \in Slots : Retries(q, i)
    \/ \E k \in QueueKind : Emits(q, k)

\* The messages accepted so far, and the keys a side has seen, only grow.
Grows ==
    /\ accepted \subseteq accepted'
    /\ \A q \in Peers : seen[q] \subseteq seen'[q]

\* Every step is one of these for the sending side of each engine: the other
\* engine and the link touch it by the packets they pass it only.
LEMMA SenderCases ==
    ASSUME IndInv, HistoryOK, [TransportNext]_allVars, NEW q \in Peers
    PROVE  SenderStep(q)
<1>0. /\ queues \in [Peers -> SchedulerType] /\ in_flight \in [Peers -> TableType]
      /\ sending \in [Peers -> SendCall \cup {NoCall}] /\ reported \in [Peers -> SUBSET MessageId]
  BY DEF IndInv, SenderOK, HistoryOK
<1>1. CASE UNCHANGED <<queues, in_flight, sending, reported>>
  BY <1>1 DEF SenderStep, Rests
<1>2. ASSUME NEW p \in Peers, NEW type \in SendTypes, NEW len \in Lengths, AppSend(p, type, len)
      PROVE  SenderStep(q)
  <2>1. CASE SendRefused(p, type, len)
    BY <1>1, <1>2, <2>1 DEF AppSend, SendRefused, callVars
  <2>2. CASE Send(p, type, len, calls') /\ q # p
    BY <1>0, <1>2, <2>2 DEF AppSend, Send, SenderStep, Rests
  <2>3. CASE Send(p, type, len, calls') /\ q = p
    <3> DEFINE m == [from |-> p, type |-> type, id |-> next_id'[p], len |-> len, body |-> calls']
    <3>1. CASE accepted' = accepted \cup {m}
      <4>1. m \in accepted' /\ m.from = q
        BY <2>3, <3>1
      <4>2. Starts(q, m)
        BY <1>0, <1>2, <2>3, SMTT(30) DEF AppSend, Send, Starts, Idle
      <4> QED BY <4>1, <4>2 DEF SenderStep
    <3>2. CASE SendRefused(p, type, len)
      BY <2>1, <3>2
    <3> QED BY <1>2, <3>1, <3>2 DEF AppSend
  <2> QED BY <1>2, <2>1, <2>2, <2>3 DEF AppSend
<1>3. ASSUME NEW p \in Peers, SendFragment(p), reported' = reported
      PROVE  SenderStep(q)
  <2> DEFINE s == queues[p]
             t == in_flight[p]
             c == sending[p]
  <2>1. SenderInv(s, t, in_flight_len[p], c, NoCall) /\ c # NoCall
    BY <1>3, SenderAt DEF IndInv, SendFragment
  <2>2. /\ ~PushFails(s, NextWrite(c))
        /\ c.type = "data" => ~TrackFails(t, KeyOf(NextFragment(c)))
    BY <2>1, RoomSuffices DEF NextWrite, NextFragment
  <2>3. /\ queues' = [queues EXCEPT ![p] = push(s, NextWrite(c))]
        /\ in_flight' = [in_flight EXCEPT ![p] = TableAfter(t, c)]
        /\ sending' = [sending EXCEPT ![p] = CallAfter(c)]
    BY <1>3, <2>2
    DEF SendFragment, NextWrite, NextFragment, NextRecord, TableAfter, CallAfter
  <2>4. CASE q = p
    BY <1>0, <1>3, <2>1, <2>3, <2>4 DEF SenderStep, Splits
  <2>5. CASE q # p
    BY <1>0, <1>3, <2>3, <2>5 DEF SenderStep, Rests
  <2> QED BY <2>4, <2>5
<1>4. ASSUME NEW p \in Peers, NEW a, SendPing(p) \/ ReceivePing(p, a), reported' = reported
      PROVE  SenderStep(q)
  <2>1. PICK packet \in {Ping, Pong}, priority \in {"control", "new_data"} :
            queues' = [queues EXCEPT ![p] = push(@, Write(LivenessKey, packet, 0, priority))]
    BY <1>4 DEF SendPing, ReceivePing
  <2> DEFINE e == Write(LivenessKey, packet, 0, priority)
  <2>2. e \in EngineOutput /\ e.kind = "write" /\ e.packet \in {Ping, Pong}
    BY EventType, LivenessType DEF WritePriority, Write
  <2>3. UNCHANGED <<in_flight, sending>>
    BY <1>4 DEF SendPing, ReceivePing, callVars
  <2>4. CASE q = p
    <3>1. Greets(q, e)
      BY <1>0, <1>4, <2>1, <2>2, <2>3, <2>4 DEF Greets
    <3> QED BY <2>2, <3>1 DEF SenderStep
  <2>5. CASE q # p
    BY <1>0, <1>4, <2>1, <2>3, <2>5 DEF SenderStep, Rests
  <2> QED BY <2>4, <2>5
<1>5. ASSUME NEW p \in Peers, NEW delta \in Deltas, Poll(p, delta), reported' = reported
      PROVE  SenderStep(q)
  <2>1. delta \in Nat
    BY EngineAssumption
  <2>2. CASE q = p
    <3>1. Ages(q, delta)
      BY <1>0, <1>5, <2>2 DEF Poll, Ages
    <3> QED BY <2>1, <3>1 DEF SenderStep
  <2>3. CASE q # p
    BY <1>0, <1>5, <2>3 DEF Poll, SenderStep, Rests
  <2> QED BY <2>2, <2>3
<1>6. ASSUME NEW p \in Peers, TickFail(p), reported' = reported
      PROVE  SenderStep(q)
  <2>1. PICK i \in ticking[p].failed :
            /\ in_flight' = [in_flight EXCEPT ![p] = remove_message(@, in_flight[p][i].packet.id)]
            /\ queues' = [queues EXCEPT ![p] = push(@, SendFailed(in_flight[p][i].packet.id))]
    BY <1>6 DEF TickFail
  <2>2. /\ ticking[p] # NoCall /\ ticking[p] \in TickCall /\ sending[p] = NoCall
        /\ Collected(in_flight[p], ticking[p])
    BY <1>6, SenderAt DEF TickFail, IndInv, SenderInv
  <2>3. i \in Occupied(in_flight[p]) /\ i \in Slots
    BY <1>0, <2>2, CollectedType DEF Occupied
  <2>4. CASE q = p
    <3>1. Fails(q, i)
      BY <1>0, <1>6, <2>1, <2>2, <2>3, <2>4 DEF Fails, TickFail
    <3> QED BY <2>3, <3>1 DEF SenderStep
  <2>5. CASE q # p
    BY <1>0, <1>6, <2>1, <2>5 DEF SenderStep, Rests, TickFail
  <2> QED BY <2>4, <2>5
<1>7. ASSUME NEW p \in Peers, TickRetransmit(p), reported' = reported
      PROVE  SenderStep(q)
  <2>1. PICK i \in ticking[p].retransmits :
            LET t == in_flight[p][i]
            IN  queues' = [queues EXCEPT ![p] =
                               push(@, Write(t.key, t.packet, t.attempts + 1, "retransmit"))]
    BY <1>7 DEF TickRetransmit
  <2>2. ticking[p] # NoCall /\ ticking[p] \in TickCall /\ Collected(in_flight[p], ticking[p])
    BY <1>7, SenderAt DEF TickRetransmit, IndInv, SenderInv
  <2>3. i \in Occupied(in_flight[p]) /\ i \in Slots
    BY <1>0, <2>2, CollectedType DEF Occupied
  <2>4. CASE q = p
    <3>1. Retries(q, i)
      BY <1>0, <1>7, <2>1, <2>3, <2>4 DEF Retries, TickRetransmit
    <3> QED BY <2>3, <3>1 DEF SenderStep
  <2>5. CASE q # p
    BY <1>0, <1>7, <2>1, <2>5 DEF SenderStep, Rests, TickRetransmit
  <2> QED BY <2>4, <2>5
<1>8. ASSUME NEW p \in Peers, NEW k \in QueueKind, queues[p][k] # <<>>, PollEvent(p, k, TRUE),
             LET e == Head(queues[p][k])
             IN  \/ e.kind = "write" /\ reported' = reported
                 \/ e.kind = "send_failed" /\ reported' = [reported EXCEPT ![p] = @ \cup {e.id}]
      PROVE  SenderStep(q)
  <2>1. /\ queues' = [queues EXCEPT ![p] = pop(queues[p], k)]
        /\ in_flight' = [in_flight EXCEPT ![p] = Noted(in_flight[p], Head(queues[p][k]), TRUE)]
        /\ sending' = sending
    BY <1>8 DEF PollEvent, Noted
  <2>2. CASE q = p
    <3>1. Emits(q, k)
      BY <1>0, <1>8, <2>1, <2>2 DEF Emits
    <3> QED BY <3>1 DEF SenderStep
  <2>3. CASE q # p
    BY <1>0, <1>8, <2>1, <2>3 DEF SenderStep, Rests
  <2> QED BY <2>2, <2>3
<1>9. ASSUME NEW p \in Peers, OutputWrite(p) \/ OutputSendFailed(p)
      PROVE  SenderStep(q)
  <2>1. PICK k \in QueueKind :
            /\ \/ PollUrgent(p, TRUE) /\ k = UrgentQueue(queues[p])
               \/ PollNewData(p, TRUE) /\ k = "new_data"
            /\ LET e == Head(queues[p][k])
               IN  \/ e.kind = "write" /\ reported' = reported
                   \/ e.kind = "send_failed" /\ reported' = [reported EXCEPT ![p] = @ \cup {e.id}]
    BY <1>9 DEF OutputWrite, OutputSendFailed, historyVars, UrgentQueue, QueueKind
  <2>2. queues[p][k] # <<>> /\ PollEvent(p, k, TRUE)
    BY <2>1 DEF PollUrgent, PollNewData, HasUrgent, UrgentQueue
  <2> QED BY <1>8, <2>1, <2>2
<1>10. ASSUME NEW p \in Peers, OutputAck(p) \/ OutputMessage(p) \/ (PollIdle(p) /\ reported' = reported)
       PROVE  SenderStep(q)
  BY <1>1, <1>10
  DEF OutputAck, OutputMessage, PollAck, PollMessage, PollIdle, sendVars, historyVars
<1>11. ASSUME NEW p \in Peers, NEW i \in Arrivals(p), Deliver(p, i)
       PROVE  SenderStep(q)
  <2> DEFINE f == wire[p][i]
             r == Other(p)
  <2>1. r \in Peers /\ Other(r) = p /\ i \in DOMAIN wire[p] /\ reported' = reported
    BY <1>11, OtherPeer, SMTT(30) DEF Deliver, HistoryOK, Arrivals
  <2>2. CASE UNCHANGED <<queues, in_flight, sending>>
    BY <1>1, <2>1, <2>2
  <2>3. CASE ReceivePing(r, f)
    BY <1>4, <2>1, <2>3
  <2>4. CASE ReceiveAck(r, f)
    <3>1. CASE q = r
      <4>1. Hears(q, f)
        BY <1>0, <2>1, <2>4, <3>1 DEF Hears, ReceiveAck, callVars, Idle
      <4> QED BY <2>1, <3>1, <4>1 DEF SenderStep
    <3>2. CASE q # r
      BY <1>0, <2>1, <2>4, <3>2 DEF SenderStep, Rests, ReceiveAck, callVars
    <3> QED BY <3>1, <3>2
  <2>5. CASE ReceiveDuplicate(r, f) \/ ReceiveData(r, f) \/ ReceiveLog(r, f) \/ UNCHANGED vars
    BY <2>2, <2>5 DEF ReceiveDuplicate, ReceiveData, ReceiveLog, vars, sendVars, callVars
  <2> QED BY <1>11, <2>3, <2>4, <2>5 DEF Deliver, Receive
<1>12. ASSUME NEW p \in Peers, NEW i \in Arrivals(p), Lose(p, i)
       PROVE  SenderStep(q)
  BY <1>1, <1>12 DEF Lose, vars, sendVars, callVars, historyVars
<1>13. CASE UNCHANGED allVars
  BY <1>1, <1>13 DEF allVars, vars, sendVars, callVars, historyVars
<1>14. ASSUME NEW p \in Peers, Quiet(p)
       PROVE  SenderStep(q)
  BY <1>3, <1>6, <1>7, <1>10, <1>14 DEF Quiet, historyVars
<1>15. ASSUME NEW p \in Peers, AppPing(p) \/ \E delta \in Deltas : AppPoll(p, delta)
       PROVE  SenderStep(q)
  BY <1>4, <1>5, <1>15 DEF AppPing, AppPoll, historyVars
<1> QED BY <1>2, <1>9, <1>10, <1>11, <1>12, <1>13, <1>14, <1>15 DEF TransportNext, Outputs

\* No step of the transport takes an accepted message or a seen key back.
LEMMA AllGrow ==
    ASSUME HistoryOK, [TransportNext]_allVars
    PROVE  Grows
<1>1. CASE UNCHANGED <<accepted, seen>>
  BY <1>1 DEF Grows
<1>2. ASSUME NEW p \in Peers, NEW type, NEW len, AppSend(p, type, len)
      PROVE  Grows
  BY <1>2 DEF Grows, AppSend
<1>3. ASSUME NEW p \in Peers, NEW i \in Arrivals(p), Deliver(p, i)
      PROVE  Grows
  BY <1>3 DEF Grows, Deliver, HistoryOK
<1>4. CASE UNCHANGED allVars
  BY <1>1, <1>4 DEF allVars, historyVars
<1>5. CASE TransportNext
  <2>1. \/ UNCHANGED <<accepted, seen>>
        \/ \E p \in Peers : \E type \in SendTypes, len \in Lengths : AppSend(p, type, len)
        \/ \E p \in Peers : \E i \in Arrivals(p) : Deliver(p, i)
    BY <1>5 DEF TransportNext, AppPing, AppPoll, Quiet, Outputs, OutputAck, OutputWrite,
                OutputSendFailed, OutputMessage, Lose, historyVars
  <2> QED BY <1>1, <1>2, <1>3, <2>1
<1> QED BY <1>4, <1>5

-----------------------------------------------------------------------------
(* A step of the transport, as the receiving side of one engine sees it *)

KeepsMessages(q) ==
    /\ reassembly'[q] = reassembly[q]
    /\ messages'[q] = messages[q] /\ delivered'[q] = delivered[q]

Listens(q) ==
    /\ KeepsMessages(q)
    /\ seen'[q] = seen[q]
    /\ acks'[q] = acks[q] \/ (acks[q] # <<>> /\ acks'[q] = Tail(acks[q]))

HandsOver(q) ==
    /\ messages[q] # <<>>
    /\ messages'[q] = Tail(messages[q])
    /\ delivered'[q] = IF Head(messages[q]).type = "data"
                       THEN Append(delivered[q], Head(messages[q]))
                       ELSE delivered[q]
    /\ reassembly'[q] = reassembly[q]
    /\ seen'[q] = seen[q] /\ acks'[q] = acks[q]

Expires(q, delta) ==
    /\ reassembly'[q] = expire(reassembly[q], delta)
    /\ messages'[q] = messages[q] /\ delivered'[q] = delivered[q]
    /\ seen'[q] = seen[q] /\ acks'[q] = acks[q]

Sees(q, f) ==
    /\ f.type = "data"
    /\ seen'[q] = seen[q] \cup {KeyOf(f)}
    /\ acks'[q] = acks[q] \/ acks'[q] = Append(acks[q], KeyOf(f))

Gathers(q, f) ==
    /\ ~Rejects(reassembly[q], f)
    /\ reassembly'[q] = observe(reassembly[q], f)
    /\ messages'[q] = IF Completes(reassembly[q], f)
                      THEN Enqueue(messages[q], MessageOf(Filled(reassembly[q], f)))
                      ELSE messages[q]
    /\ delivered'[q] = delivered[q]
    /\ \/ Sees(q, f) /\ ~is_duplicate(q, KeyOf(f))
       \/ f.type = "log" /\ seen'[q] = seen[q] /\ acks'[q] = acks[q]

ReceiverStep(q) ==
    \/ Listens(q)
    \/ HandsOver(q)
    \/ \E delta \in Nat : Expires(q, delta)
    \/ \E j \in DOMAIN wire[Other(q)] :
           \/ Sees(q, wire[Other(q)][j]) /\ is_duplicate(q, KeyOf(wire[Other(q)][j])) /\ KeepsMessages(q)
           \/ Gathers(q, wire[Other(q)][j])

\* Every step is one of these for the receiving side of each engine.
LEMMA ReceiverCases ==
    ASSUME IndInv, HistoryOK, [TransportNext]_allVars, NEW q \in Peers
    PROVE  ReceiverStep(q)
<1>0. /\ acks \in [Peers -> Seq(PacketKey)] /\ reassembly \in [Peers -> ReassemblyType]
      /\ messages \in [Peers -> Seq(MessageEvent)] /\ delivered \in [Peers -> Seq(MessageEvent)]
      /\ seen \in [Peers -> SUBSET PacketKey]
  BY DEF IndInv, ReceiverOK, HistoryOK
<1>1. CASE UNCHANGED <<acks, reassembly, messages, delivered, seen>>
  BY <1>1 DEF ReceiverStep, Listens, KeepsMessages
<1>2. ASSUME NEW p \in Peers, OutputAck(p)
      PROVE  ReceiverStep(q)
  BY <1>0, <1>2 DEF OutputAck, PollAck, historyVars, ReceiverStep, Listens, KeepsMessages
<1>3. ASSUME NEW p \in Peers, OutputMessage(p)
      PROVE  ReceiverStep(q)
  <2>1. CASE q = p
    BY <1>0, <1>3, <2>1 DEF OutputMessage, PollMessage, ReceiverStep, HandsOver
  <2>2. CASE q # p
    BY <1>0, <1>3, <2>2 DEF OutputMessage, PollMessage, ReceiverStep, Listens, KeepsMessages
  <2> QED BY <2>1, <2>2
<1>4. ASSUME NEW p \in Peers, NEW delta \in Deltas, AppPoll(p, delta)
      PROVE  ReceiverStep(q)
  <2>1. delta \in Nat
    BY EngineAssumption
  <2>2. CASE q = p
    <3>1. Expires(q, delta)
      BY <1>0, <1>4, <2>2 DEF AppPoll, Poll, historyVars, Expires
    <3> QED BY <2>1, <3>1 DEF ReceiverStep
  <2>3. CASE q # p
    BY <1>0, <1>4, <2>3 DEF AppPoll, Poll, historyVars, ReceiverStep, Listens, KeepsMessages
  <2> QED BY <2>2, <2>3
<1>5. ASSUME NEW p \in Peers, NEW i \in Arrivals(p), Deliver(p, i)
      PROVE  ReceiverStep(q)
  <2> DEFINE f == wire[p][i]
             r == Other(p)
  <2>1. /\ r \in Peers /\ Other(r) = p /\ i \in DOMAIN wire[p] /\ delivered' = delivered
        /\ seen' = IF f.type = "data" /\ ~Ignored(r, f)
                   THEN [seen EXCEPT ![r] = @ \cup {KeyOf(f)}]
                   ELSE seen
    BY <1>5, OtherPeer, SMTT(30) DEF Deliver, HistoryOK, Arrivals
  <2> HIDE DEF f, r
  <2>2. CASE ReceiveDuplicate(r, f)
    <3>1. ~Ignored(r, f) /\ f.type = "data"
      BY <2>2 DEF ReceiveDuplicate, Ignored
    <3>2. CASE q = r
      <4>1. Sees(q, f) /\ is_duplicate(q, KeyOf(f)) /\ KeepsMessages(q)
        BY <1>0, <2>1, <2>2, <3>1, <3>2 DEF ReceiveDuplicate, queue_ack, Sees, KeepsMessages
      <4> QED BY <2>1, <3>2, <4>1 DEF ReceiverStep, f
    <3>3. CASE q # r
      BY <1>0, <2>1, <2>2, <3>3
      DEF ReceiveDuplicate, queue_ack, ReceiverStep, Listens, KeepsMessages
    <3> QED BY <3>2, <3>3
  <2>3. CASE ReceiveData(r, f)
    <3>1. ~Ignored(r, f) /\ f.type = "data"
      BY <2>3 DEF ReceiveData, Reassemble, Ignored
    <3>2. CASE q = r
      <4>1. Sees(q, f) /\ ~is_duplicate(q, KeyOf(f))
        BY <1>0, <2>1, <2>3, <3>1, <3>2 DEF ReceiveData, queue_ack, Sees
      <4>2. Gathers(q, f)
        BY <1>0, <2>1, <2>3, <3>2, <4>1 DEF ReceiveData, Reassemble, Gathers
      <4> QED BY <2>1, <3>2, <4>2 DEF ReceiverStep, f
    <3>3. CASE q # r
      BY <1>0, <2>1, <2>3, <3>3
      DEF ReceiveData, Reassemble, queue_ack, ReceiverStep, Listens, KeepsMessages
    <3> QED BY <3>2, <3>3
  <2>4. CASE ReceiveLog(r, f)
    <3>1. f.type = "log" /\ seen' = seen
      BY <2>1, <2>4 DEF ReceiveLog
    <3>2. CASE q = r
      <4>1. Gathers(q, f)
        BY <1>0, <2>1, <2>4, <3>1, <3>2 DEF ReceiveLog, Reassemble, Gathers
      <4> QED BY <2>1, <3>2, <4>1 DEF ReceiverStep, f
    <3>3. CASE q # r
      BY <1>0, <2>1, <2>4, <3>1, <3>3
      DEF ReceiveLog, Reassemble, ReceiverStep, Listens, KeepsMessages
    <3> QED BY <3>2, <3>3
  <2>5. CASE ReceiveAck(r, f) \/ ReceivePing(r, f)
    BY <1>1, <2>1, <2>5 DEF ReceiveAck, ReceivePing, receiveVars
  <2>6. CASE Ignored(r, f) /\ UNCHANGED vars
    BY <1>1, <2>1, <2>6 DEF vars, receiveVars
  <2> QED BY <1>5, <2>2, <2>3, <2>4, <2>5, <2>6 DEF Deliver, Receive, f, r
<1>6. CASE UNCHANGED allVars
  BY <1>1, <1>6 DEF allVars, vars, receiveVars, historyVars
<1>7. ASSUME NEW p \in Peers, NEW type \in SendTypes, NEW len \in Lengths, AppSend(p, type, len)
      PROVE  ReceiverStep(q)
  BY <1>1, <1>7 DEF AppSend, Send, SendRefused, receiveVars
<1>8. ASSUME NEW p \in Peers,
             AppPing(p) \/ Quiet(p) \/ OutputWrite(p) \/ OutputSendFailed(p)
      PROVE  ReceiverStep(q)
  <2>1. UNCHANGED receiveVars
    BY <1>8 DEF AppPing, SendPing, Quiet, SendFragment, TickFail, TickRetransmit, PollIdle,
                OutputWrite, OutputSendFailed, PollUrgent, PollNewData, PollEvent
  <2>2. UNCHANGED <<delivered, seen>>
    BY <1>8 DEF AppPing, Quiet, OutputWrite, OutputSendFailed, historyVars
  <2> QED BY <1>1, <2>1, <2>2 DEF receiveVars
<1>9. ASSUME NEW p \in Peers, NEW i \in Arrivals(p), Lose(p, i)
      PROVE  ReceiverStep(q)
  BY <1>1, <1>9 DEF Lose, vars, receiveVars, historyVars
<1> QED BY <1>2, <1>3, <1>4, <1>5, <1>6, <1>7, <1>8, <1>9 DEF TransportNext, Outputs

-----------------------------------------------------------------------------
(* Where packets come from *)

\* Every packet on the link, in a queue or in flight stems from a message that
\* was accepted, and every ACK from a packet that was.
Origin ==
    \A p \in Peers :
        /\ WireValid(accepted, seen[p], p, wire[p])
        /\ QueuesValid(accepted, seen[p], p, queues[p])
        /\ TableValid(accepted, p, in_flight[p])
        /\ AcksValid(seen[p], acks[p])
        /\ CallValid(accepted, p, sending[p])

\* Every step keeps the link valid: a poll sends a packet of the scheduler, or
\* the ACK of a key that was accepted.
LEMMA WireStaysValid ==
    ASSUME IndInv, HistoryOK, Origin, [TransportNext]_allVars, NEW q \in Peers
    PROVE  WireValid(accepted', seen'[q], q, wire'[q])
<1> SUFFICES ASSUME NEW j \in DOMAIN wire'[q]
             PROVE  Valid(accepted', seen'[q], q, wire'[q][j])
  BY DEF WireValid
<1> DEFINE packet == wire'[q][j]
<1>1. Carried(q, packet)
  BY LinkCarries
<1>2. accepted \subseteq accepted' /\ seen[q] \subseteq seen'[q]
  BY AllGrow DEF Grows
<1> HIDE DEF packet
<1>3. /\ WireValid(accepted', seen'[q], q, wire[q])
      /\ QueuesValid(accepted', seen'[q], q, queues[q])
      /\ AcksValid(seen'[q], acks[q])
  BY <1>2, ValidGrows DEF Origin
<1>4. CASE \E k \in DOMAIN wire[q] : packet = wire[q][k]
  BY <1>3, <1>4 DEF WireValid, packet
<1>5. CASE acks[q] # <<>> /\ packet = AckFor(Head(acks[q]))
  <2>1. acks[q] \in Seq(PacketKey)
    BY DEF IndInv, ReceiverOK
  <2>2. 1 \in DOMAIN acks[q] /\ Head(acks[q]) = acks[q][1] /\ Head(acks[q]) \in PacketKey
    BY <1>5, <2>1, SMTT(30)
  <2>3. Head(acks[q]) \in seen'[q]
    BY <1>3, <2>2 DEF AcksValid
  <2>4. packet.type = "ack" /\ KeyOf(packet) = Head(acks[q])
    BY <1>5, <2>2, SMTT(30) DEF AckFor, KeyOf, PacketKey
  <2> QED BY <2>3, <2>4 DEF Valid, MessageTypes, packet
<1>6. ASSUME NEW k \in QueueKind, queues[q][k] # <<>>, Head(queues[q][k]).kind = "write",
             packet = Head(queues[q][k]).packet
      PROVE  Valid(accepted', seen'[q], q, packet)
  <2>1. 1 \in DOMAIN queues[q][k] /\ Head(queues[q][k]) = queues[q][k][1]
    BY <1>6, PopShifts, ZenonT(30) DEF IndInv, SenderOK
  <2> QED BY <1>3, <1>6, <2>1 DEF QueuesValid
<1> QED BY <1>1, <1>4, <1>5, <1>6 DEF Carried, packet

\* Every step keeps the queue of ACKs valid.
LEMMA AcksStayValid ==
    ASSUME IndInv, HistoryOK, Origin, [TransportNext]_allVars, NEW q \in Peers
    PROVE  AcksValid(seen'[q], acks'[q])
<1>1. acks[q] \in Seq(PacketKey)
  BY DEF IndInv, ReceiverOK
<1>2. AcksValid(seen'[q], acks[q])
  BY AllGrow, ValidGrows DEF Grows, Origin
<1>3. CASE acks'[q] = acks[q]
  BY <1>2, <1>3
<1>4. CASE acks[q] # <<>> /\ acks'[q] = Tail(acks[q])
  <2>1. \A i \in DOMAIN Tail(acks[q]) : i + 1 \in DOMAIN acks[q] /\ Tail(acks[q])[i] = acks[q][i + 1]
    BY <1>1, <1>4, SMTT(30)
  <2> QED BY <1>2, <1>4, <2>1 DEF AcksValid
<1>5. ASSUME NEW f, Sees(q, f)
      PROVE  AcksValid(seen'[q], acks'[q])
  <2>1. KeyOf(f) \in seen'[q]
    BY <1>5 DEF Sees
  <2>2. CASE acks'[q] = Append(acks[q], KeyOf(f))
    <3>1. \A i \in DOMAIN Append(acks[q], KeyOf(f)) :
              \/ i \in DOMAIN acks[q] /\ Append(acks[q], KeyOf(f))[i] = acks[q][i]
              \/ Append(acks[q], KeyOf(f))[i] = KeyOf(f)
      BY <1>1, SMTT(30)
    <3> QED BY <1>2, <2>1, <2>2, <3>1 DEF AcksValid
  <2> QED BY <1>3, <1>5, <2>2 DEF Sees
<1> QED BY <1>3, <1>4, <1>5, ReceiverCases
    DEF ReceiverStep, Listens, HandsOver, Expires, Gathers

\* Every step keeps the sending side valid.
LEMMA SenderStaysValid ==
    ASSUME IndInv, HistoryOK, HistoryOK', Origin, [TransportNext]_allVars, NEW q \in Peers
    PROVE  /\ QueuesValid(accepted', seen'[q], q, queues'[q])
           /\ TableValid(accepted', q, in_flight'[q])
           /\ CallValid(accepted', q, sending'[q])
<1> DEFINE A == accepted'
           S == seen'[q]
           s == queues[q]
           t == in_flight[q]
           c == sending[q]
           Goal == /\ QueuesValid(A, S, q, queues'[q])
                   /\ TableValid(A, q, in_flight'[q])
                   /\ CallValid(A, q, sending'[q])
<1>1. QueuesValid(A, S, q, s) /\ TableValid(A, q, t) /\ CallValid(A, q, c)
  BY AllGrow, ValidGrows DEF Grows, Origin
<1>2. /\ s \in SchedulerType /\ t \in TableType /\ c \in SendCall \cup {NoCall}
      /\ UniqueKeys(t)
  BY DEF IndInv, SenderOK, SenderInv
<1>s. s = queues[q] /\ t = in_flight[q] /\ c = sending[q] /\ A = accepted'
  OBVIOUS
<1> SUFFICES Goal
  OBVIOUS
<1> HIDE DEF A, S, s, t, c, Goal
<1>3. CASE Rests(q)
  BY <1>1, <1>3, <1>s DEF Rests, Goal
<1>4. ASSUME NEW m \in accepted', m.from = q, Starts(q, m)
      PROVE  Goal
  <2>1. m \in Message
    BY DEF HistoryOK
  <2>2. CallOf(sending'[q], m)
    BY <1>4, <2>1, StartOf DEF Starts
  <2>3. CallValid(A, q, sending'[q])
    BY <1>4, <1>s, <2>2 DEF CallValid
  <2> QED BY <1>1, <1>4, <1>s, <2>3 DEF Starts, Goal
<1>5. CASE Splits(q)
  <2>1. /\ c \in SendCall /\ c # NoCall
        /\ queues'[q] = push(s, NextWrite(c))
        /\ in_flight'[q] = TableAfter(t, c)
        /\ sending'[q] = CallAfter(c)
    BY <1>2, <1>5, <1>s DEF Splits
  <2>2. PICK m \in A : m.from = q /\ CallOf(c, m)
    BY <1>1, <2>1 DEF CallValid
  <2>3. m \in Message
    BY <1>s DEF HistoryOK
  <2>4. /\ FragmentOf(NextFragment(c), m)
        /\ CallAfter(c) # NoCall => CallOf(CallAfter(c), m)
    BY <2>1, <2>2, <2>3, RoundOf
  <2>5. Sent(A, q, NextFragment(c))
    BY <2>2, <2>4 DEF Sent
  <2>6. QueuesValid(A, S, q, queues'[q])
    <3>1. Valid(A, S, q, NextFragment(c))
      BY <2>1, <2>5, RoundType DEF Valid, MessageTypes
    <3>2. /\ NextWrite(c) \in EngineOutput
          /\ NextWrite(c).kind = "write" => Valid(A, S, q, NextWrite(c).packet)
      BY <2>1, <3>1, RoundType
    <3> QED BY <1>1, <1>2, <2>1, <3>2, PushValid
  <2>7. TableValid(A, q, in_flight'[q])
    <3>1. CASE c.type = "data"
      <4>1. TableAfter(t, c) = track(t, NextRecord(c))
        BY <3>1 DEF TableAfter
      <4>2. NextRecord(c) \in InFlightPacket /\ RecordValid(A, q, NextRecord(c))
        BY <2>1, <2>5, <3>1, RoundType DEF RecordValid
      <4>3. SenderInv(s, t, in_flight_len[q], c, NoCall)
        BY <2>1, <1>s, SenderAt DEF IndInv
      <4>4. ~TrackFails(t, NextRecord(c).key)
        BY <2>1, <3>1, <4>3, RoomSuffices
      <4> QED BY <1>1, <1>2, <2>1, <4>1, <4>2, <4>4, TableStaysValid
    <3>2. CASE c.type # "data"
      BY <1>1, <2>1, <3>2 DEF TableAfter
    <3> QED BY <3>1, <3>2
  <2>8. CallValid(A, q, sending'[q])
    BY <2>1, <2>2, <2>4 DEF CallValid
  <2> QED BY <2>6, <2>7, <2>8 DEF Goal
<1>6. ASSUME NEW e \in EngineOutput, Greets(q, e)
      PROVE  Goal
  <2>1. e.kind = "write" => Valid(A, S, q, e.packet)
    BY <1>6, SMTT(30) DEF Greets, Valid, Ping, Pong, MessageTypes
  <2>2. QueuesValid(A, S, q, push(s, e))
    BY <1>1, <1>2, <2>1, PushValid
  <2> QED BY <1>1, <1>6, <1>s, <2>2 DEF Greets, Goal
<1>7. ASSUME NEW a, Hears(q, a)
      PROVE  Goal
  <2>1. Shrinks(t, apply_ack(t, KeyOf(a)))
    BY <1>2, AckShrinks
  <2>2. TableValid(A, q, apply_ack(t, KeyOf(a)))
    BY <1>1, <1>2, <2>1, TableStaysValid DEF Shrinks
  <2> QED BY <1>1, <1>7, <1>s, <2>2 DEF Hears, Goal
<1>8. ASSUME NEW delta \in Nat, Ages(q, delta)
      PROVE  Goal
  <2>1. TableValid(A, q, Aged(t, delta))
    BY <1>1, <1>2, AgedTable, TableStaysValid, SMTT(30)
  <2> QED BY <1>1, <1>8, <1>s, <2>1 DEF Ages, Goal
<1>9. ASSUME NEW i \in Slots, Fails(q, i)
      PROVE  Goal
  <2> DEFINE id == t[i].packet.id
  <2>1. i \in Occupied(t)
    BY <1>9, <1>s DEF Fails
  <2>2. t[i] \in InFlightPacket
    BY <1>2, <2>1, OccupiedType
  <2>3. id \in MessageId
    BY <2>2 DEF InFlightPacket, Fragment
  <2>4. SendFailed(id) \in EngineOutput /\ SendFailed(id).kind # "write"
    BY <2>3, EventType DEF SendFailed
  <2>5. QueuesValid(A, S, q, push(s, SendFailed(id)))
    BY <1>1, <1>2, <2>4, PushValid
  <2>6. Shrinks(t, remove_message(t, id))
    BY <1>2, RemoveShrinks
  <2>7. TableValid(A, q, remove_message(t, id))
    BY <1>1, <1>2, <2>6, TableStaysValid DEF Shrinks
  <2> QED BY <1>1, <1>9, <1>s, <2>5, <2>7 DEF Fails, Goal
<1>10. ASSUME NEW i \in Slots, Retries(q, i)
       PROVE  Goal
  <2> DEFINE r == t[i]
             e == Write(r.key, r.packet, r.attempts + 1, "retransmit")
  <2>1. i \in Occupied(t)
    BY <1>10, <1>s DEF Retries
  <2>2. r \in InFlightPacket /\ RecordValid(A, q, r)
    BY <1>1, <1>2, <2>1, OccupiedType DEF TableValid
  <2>3. r.key \in PacketKey /\ r.packet \in Packet /\ r.attempts + 1 \in Nat
    BY <2>2, SMTT(30) DEF InFlightPacket, Packet
  <2>4. e \in EngineOutput /\ e.packet = r.packet
    BY <2>3, EventType DEF WritePriority, Write
  <2>5. Valid(A, S, q, e.packet)
    BY <2>2, <2>4 DEF RecordValid, Valid, MessageTypes
  <2> HIDE DEF e
  <2>6. QueuesValid(A, S, q, push(s, e))
    BY <1>1, <1>2, <2>4, <2>5, PushValid
  <2> QED BY <1>1, <1>10, <1>s, <2>6 DEF Retries, e, Goal
<1>11. ASSUME NEW k \in QueueKind, Emits(q, k)
       PROVE  Goal
  <2>1. s[k] # <<>>
    BY <1>11, <1>s DEF Emits
  <2>2. QueuesValid(A, S, q, pop(s, k))
    BY <1>1, <1>2, <2>1, PopValid
  <2>3. TableValid(A, q, Noted(t, Head(s[k]), TRUE))
    <3> DEFINE u == Noted(t, Head(s[k]), TRUE)
    <3>1. /\ Occupied(u) = Occupied(t)
          /\ \A j \in Occupied(t) : u[j].key = t[j].key /\ u[j].packet = t[j].packet
      BY <1>2, NotedPackets
    <3> HIDE DEF u
    <3>2. TableValid(A, q, u)
      BY <1>1, <1>2, <3>1, TableStaysValid
    <3> QED BY <3>2 DEF u
  <2> QED BY <1>1, <1>11, <1>s, <2>2, <2>3 DEF Emits, Goal
<1> QED BY <1>3, <1>4, <1>5, <1>6, <1>7, <1>8, <1>9, <1>10, <1>11, SenderCases
        DEF SenderStep

\* So packets keep their origin.
LEMMA OriginKept ==
    ASSUME IndInv, HistoryOK, HistoryOK', Origin, [TransportNext]_allVars
    PROVE  Origin'
BY WireStaysValid, AcksStayValid, SenderStaysValid DEF Origin

\* What holds of two engines and a link whatever the queues' sizes.
Base == IndInv /\ HistoryOK /\ Origin

-----------------------------------------------------------------------------
(* Nothing is forgotten *)

\* A message is accepted by a send call of its sender, under the id just drawn.
LEMMA NewMessage ==
    ASSUME IndInv, HistoryOK, [TransportNext]_allVars, NEW m \in accepted', m \notin accepted
    PROVE  /\ m.from \in Peers /\ Starts(m.from, m)
           /\ accepted' = accepted \cup {m}
           /\ m.id = next_id'[m.from]
           /\ UNCHANGED <<wire, seen, delivered, reported, queues, in_flight, receiveVars>>
           /\ \A p \in Peers : p # m.from => sending'[p] = sending[p]
<1>1. PICK p \in Peers, type \in SendTypes, len \in Lengths : AppSend(p, type, len)
  BY DEF TransportNext, AppPing, AppPoll, Quiet, Outputs, OutputAck, OutputWrite,
         OutputSendFailed, OutputMessage, Deliver, Lose, historyVars, allVars
<1> DEFINE a == [from |-> p, type |-> type, id |-> next_id'[p], len |-> len, body |-> calls']
<1>2. Send(p, type, len, calls') /\ accepted' = accepted \cup {a} /\ m = a
  BY <1>1 DEF AppSend
<1>3. m.from = p /\ m.type = type /\ m.id = next_id'[p] /\ m.len = len /\ m.body = calls'
  BY <1>2
<1>4. UNCHANGED <<wire, seen, delivered, reported>>
  BY <1>1 DEF AppSend
<1>5. /\ UNCHANGED <<queues, in_flight, receiveVars>>
      /\ sending' = [sending EXCEPT ![p] =
             [type |-> m.type, id |-> m.id, body |-> m.body, len |-> m.len,
              offset |-> 0, index |-> 0]]
      /\ sending[p] = NoCall
  BY <1>2, <1>3 DEF Send, Idle
<1>6. Starts(p, m) /\ \A q \in Peers : q # p => sending'[q] = sending[q]
  BY <1>4, <1>5 DEF Starts, IndInv, SenderOK
<1> QED BY <1>2, <1>3, <1>4, <1>5, <1>6

\* Packet n of message m is accounted for: S are the keys the receiver has
\* seen; t, c, s and R are the sender's table, call, queues and reports.
Kept(S, t, c, s, R, m, n) ==
    \/ <<m.id, n>> \in S
    \/ HoldsKey(t, <<m.id, n>>)
    \/ c # NoCall /\ CallOf(c, m) /\ n >= c.index
    \/ Known(s, R, m.id)

Remembered ==
    \A m \in accepted : m.type = "data" =>
        \A n \in 0 .. fragment_count(m.len) - 1 :
            Kept(seen[Other(m.from)], in_flight[m.from], sending[m.from],
                 queues[m.from], reported[m.from], m, n)

\* Whenever a message fails the scheduler has room for its failure.  Without
\* that the failure is lost: tick_retransmit drops the result of the push.
FailuresFit ==
    \A p \in Peers :
        (ticking[p] # NoCall /\ ticking[p].failed # {}) => SchedulerLen(queues[p]) < MAX_EVENTS

\* A step of the sender keeps account of every packet of a message it accepted.
LEMMA KeptStays ==
    ASSUME IndInv, HistoryOK, Origin, FailuresFit, [TransportNext]_allVars,
           NEW m \in accepted, m.type = "data", NEW n \in 0 .. fragment_count(m.len) - 1,
           Kept(seen[Other(m.from)], in_flight[m.from], sending[m.from],
                queues[m.from], reported[m.from], m, n)
    PROVE  Kept(seen'[Other(m.from)], in_flight'[m.from], sending'[m.from],
                queues'[m.from], reported'[m.from], m, n)
<1> DEFINE q == m.from
           key == <<m.id, n>>
           S == seen[Other(q)]
           t == in_flight[q]
           c == sending[q]
           s == queues[q]
           R == reported[q]
           Goal == Kept(seen'[Other(q)], in_flight'[q], sending'[q], queues'[q], reported'[q], m, n)
<1>0. m \in Message /\ q \in Peers /\ m.len \in Nat /\ m.id \in MessageId
  BY DEF HistoryOK, Message
<1>s. /\ q = m.from /\ key = <<m.id, n>> /\ S = seen[Other(q)] /\ t = in_flight[q]
      /\ c = sending[q] /\ s = queues[q] /\ R = reported[q]
  OBVIOUS
<1>1. S \subseteq seen'[Other(q)]
  BY <1>0, AllGrow, OtherPeer DEF Grows
<1>2. /\ s \in SchedulerType /\ t \in TableType /\ c \in SendCall \cup {NoCall}
      /\ UniqueKeys(t)
  BY <1>0 DEF IndInv, SenderOK, SenderInv
<1>3. SenderStep(q)
  BY <1>0, SenderCases
<1>4. fragment_count(m.len) \in Nat /\ n \in Nat /\ n < fragment_count(m.len)
  BY <1>0, FragmentCount, SMTT(30)
<1>5. \/ key \in S \/ HoldsKey(t, key)
      \/ c # NoCall /\ CallOf(c, m) /\ n >= c.index
      \/ Known(s, R, m.id)
  BY DEF Kept
<1> SUFFICES Goal
  OBVIOUS
<1>6. (\/ key \in seen'[Other(q)] \/ HoldsKey(in_flight'[q], key)
       \/ sending'[q] # NoCall /\ CallOf(sending'[q], m) /\ n >= sending'[q].index
       \/ Known(queues'[q], reported'[q], m.id)) => Goal
  BY DEF Kept
<1> HIDE DEF q, key, S, t, c, s, R, Goal
<1>7. CASE key \in S
  BY <1>1, <1>6, <1>7
<1>8. CASE Known(s, R, m.id)
  <2>1. CASE queues'[q] = s /\ R \subseteq reported'[q]
    BY <1>6, <1>8, <2>1 DEF Known
  <2>2. ASSUME NEW e \in EngineOutput, queues'[q] = push(s, e), R \subseteq reported'[q]
        PROVE  Goal
    BY <1>2, <1>6, <1>8, <2>2, PushKeepsFailures DEF Known
  <2>3. ASSUME NEW k \in QueueKind, Emits(q, k)
        PROVE  Goal
    <3>1. s[k] # <<>> /\ queues'[q] = pop(s, k) /\ R \subseteq reported'[q]
      BY <1>s, <2>3 DEF Emits
    <3>2. CASE SendFailed(m.id) \in Range(s["local"]) /\ Head(s[k]) = SendFailed(m.id)
      <4>1. Head(s[k]).kind = "send_failed" /\ Head(s[k]).id = m.id
        BY <3>2, SMTT(30) DEF SendFailed
      <4>2. m.id \in reported'[q]
        BY <1>s, <2>3, <4>1 DEF Emits
      <4> QED BY <1>6, <4>2 DEF Known
    <3> QED BY <1>2, <1>6, <1>8, <3>1, <3>2, PopKeepsFailures DEF Known
  <2>4. CASE Splits(q)
    BY <1>2, <1>s, <2>2, <2>4, RoundType DEF Splits
  <2>5. ASSUME NEW i \in Slots, Fails(q, i)
        PROVE  Goal
    <3>1. t[i] \in InFlightPacket /\ queues'[q] = push(s, SendFailed(t[i].packet.id))
          /\ reported'[q] = R
      BY <1>2, <1>s, <2>5, OccupiedType DEF Fails
    <3>2. SendFailed(t[i].packet.id) \in EngineOutput
      BY <3>1, EventType DEF InFlightPacket, Fragment
    <3> QED BY <2>2, <3>1, <3>2
  <2>6. ASSUME NEW i \in Slots, Retries(q, i)
        PROVE  Goal
    <3> DEFINE e == Write(t[i].key, t[i].packet, t[i].attempts + 1, "retransmit")
    <3>1. t[i] \in InFlightPacket /\ queues'[q] = push(s, e) /\ reported'[q] = R
      BY <1>2, <1>s, <2>6, OccupiedType DEF Retries
    <3>2. t[i].key \in PacketKey /\ t[i].packet \in Packet /\ t[i].attempts + 1 \in Nat
      BY <3>1, SMTT(30) DEF InFlightPacket, Packet
    <3>3. e \in EngineOutput
      BY <3>2, EventType DEF WritePriority
    <3> QED BY <2>2, <3>1, <3>3
  <2> QED BY <1>3, <1>s, <2>1, <2>2, <2>3, <2>4, <2>5, <2>6
      DEF SenderStep, Rests, Starts, Greets, Hears, Ages
<1>9. CASE HoldsKey(t, key)
  <2>1. CASE in_flight'[q] = t
    BY <1>6, <1>9, <2>1
  <2>2. CASE Splits(q)
    <3>1. c \in SendCall /\ c # NoCall /\ in_flight'[q] = TableAfter(t, c)
      BY <1>2, <1>s, <2>2 DEF Splits
    <3>2. CASE c.type = "data"
      <4>1. in_flight'[q] = track(t, NextRecord(c)) /\ NextRecord(c) \in InFlightPacket
        BY <3>1, <3>2, RoundType DEF TableAfter
      <4>2. SenderInv(s, t, in_flight_len[q], c, NoCall)
        BY <1>0, <1>s, <3>1, SenderAt DEF IndInv
      <4>3. ~TrackFails(t, NextRecord(c).key)
        BY <3>1, <3>2, <4>2, RoomSuffices
      <4> QED BY <1>2, <1>6, <1>9, <4>1, <4>3, TrackKeepsKeys
    <3>3. CASE c.type # "data"
      BY <2>1, <3>1, <3>3 DEF TableAfter
    <3> QED BY <3>2, <3>3
  <2>3. ASSUME NEW j \in DOMAIN wire[Other(q)], Hears(q, wire[Other(q)][j])
        PROVE  Goal
    <3> DEFINE k == KeyOf(wire[Other(q)][j])
    <3>1. k \in S
      <4>1. Valid(accepted, seen[Other(q)], Other(q), wire[Other(q)][j])
        BY <1>0, OtherPeer DEF Origin, WireValid
      <4> QED BY <1>s, <2>3, <4>1 DEF Valid, Hears
    <3>2. CASE key = k
      BY <1>7, <3>1, <3>2
    <3>3. CASE key # k
      <4>1. HoldsKey(apply_ack(t, k), key)
        BY <1>2, <1>9, <3>3, AckKeepsOthers
      <4> QED BY <1>6, <1>s, <2>3, <4>1 DEF Hears
    <3> QED BY <3>2, <3>3
  <2>4. ASSUME NEW delta \in Nat, Ages(q, delta)
        PROVE  Goal
    <3>1. HoldsKey(Aged(t, delta), key)
      <4>1. \A j \in Occupied(t) :
                t[j].key = key => j \in Occupied(Aged(t, delta)) /\ Aged(t, delta)[j].key = t[j].key
        BY <1>2, AgedTable
      <4> QED BY <1>9, <4>1, KeysStay
    <3> QED BY <1>6, <1>s, <2>4, <3>1 DEF Ages
  <2>5. ASSUME NEW i \in Slots, Fails(q, i)
        PROVE  Goal
    <3> DEFINE id == t[i].packet.id
    <3>1. /\ i \in Occupied(t) /\ t[i] \in InFlightPacket /\ i \in ticking[q].failed
          /\ ticking[q] # NoCall /\ queues'[q] = push(s, SendFailed(id))
          /\ in_flight'[q] = remove_message(t, id)
      BY <1>2, <1>s, <2>5, OccupiedType DEF Fails
    <3>2. CASE m.id = id
      <4>1. SchedulerLen(s) # MAX_EVENTS
        <5>1. SchedulerLen(s) < MAX_EVENTS
          BY <1>0, <1>s, <3>1 DEF FailuresFit
        <5>2. \A x, y \in Nat : x < y => x # y
          BY SMTT(30)
        <5>3. SchedulerLen(s) \in Nat /\ MAX_EVENTS \in Nat
          BY <1>2, SchedulerLenType, SchedulerAssumption
        <5> HIDE DEF SchedulerLen
        <5> QED BY <5>1, <5>2, <5>3
      <4>2. SendFailed(m.id) \in Range(queues'[q]["local"])
        BY <1>0, <1>2, <3>1, <3>2, <4>1, PushQueuesFailure
      <4> QED BY <1>6, <4>2 DEF Known
    <3>3. CASE m.id # id
      <4>1. \A j \in Occupied(t) : t[j].key = KeyOf(t[j].packet)
        BY <1>0, <1>s DEF Origin, TableValid, RecordValid
      <4>2. \A j \in Occupied(t) : t[j].key = key => j \notin SlotsOfMessage(t, id)
        <5> SUFFICES ASSUME NEW j \in Occupied(t), t[j].key = key, j \in SlotsOfMessage(t, id)
                     PROVE  FALSE
          OBVIOUS
        <5>1. t[j].packet.id = id
          BY DEF SlotsOfMessage
        <5>2. <<m.id, n>> = <<t[j].packet.id, t[j].packet.index>>
          BY <1>s, <4>1 DEF KeyOf
        <5> QED BY <3>3, <5>1, <5>2
      <4>3. /\ Occupied(remove_message(t, id)) = Occupied(t) \ SlotsOfMessage(t, id)
            /\ \A j \in Occupied(remove_message(t, id)) : remove_message(t, id)[j] = t[j]
        BY <1>2, RemoveShrinks DEF Shrinks
      <4>4. HoldsKey(remove_message(t, id), key)
        BY <1>9, <4>2, <4>3, KeysStay, SMTT(30)
      <4> QED BY <1>6, <3>1, <4>4
    <3> QED BY <3>2, <3>3
  <2>6. ASSUME NEW k \in QueueKind, Emits(q, k)
        PROVE  Goal
    <3> DEFINE u == Noted(t, Head(s[k]), TRUE)
    <3>1. HoldsKey(u, key)
      <4>1. Occupied(u) = Occupied(t) /\ \A j \in Occupied(t) : u[j].key = t[j].key
        BY <1>2, NotedPackets
      <4> HIDE DEF u
      <4> QED BY <1>9, <4>1, KeysStay
    <3> QED BY <1>6, <1>s, <2>6, <3>1 DEF Emits
  <2> QED BY <1>3, <1>s, <2>1, <2>2, <2>3, <2>4, <2>5, <2>6
      DEF SenderStep, Rests, Starts, Greets, Retries
<1>10. CASE c # NoCall /\ CallOf(c, m) /\ n >= c.index
  <2>1. CASE sending'[q] = c
    BY <1>6, <1>10, <2>1
  <2>2. CASE Splits(q)
    <3>1. c \in SendCall /\ in_flight'[q] = TableAfter(t, c) /\ sending'[q] = CallAfter(c)
      BY <1>2, <1>10, <1>s, <2>2 DEF Splits
    <3>2. /\ KeyOf(NextFragment(c)) = <<m.id, c.index>>
          /\ IF CallAfter(c) = NoCall THEN c.index + 1 = fragment_count(m.len)
             ELSE CallOf(CallAfter(c), m) /\ CallAfter(c).index = c.index + 1
      BY <1>0, <1>10, <3>1, RoundOf
    <3>3. CASE n = c.index
      <4>1. c.type = "data"
        BY <1>10 DEF CallOf
      <4>2. /\ in_flight'[q] = track(t, NextRecord(c)) /\ NextRecord(c) \in InFlightPacket
            /\ NextRecord(c).key = key
        BY <1>s, <3>1, <3>2, <3>3, <4>1, RoundType DEF TableAfter
      <4>3. SenderInv(s, t, in_flight_len[q], c, NoCall)
        BY <1>0, <1>10, <1>s, SenderAt DEF IndInv
      <4>4. ~TrackFails(t, NextRecord(c).key)
        BY <1>10, <4>1, <4>3, RoomSuffices
      <4> QED BY <1>2, <1>6, <4>2, <4>4, TrackKeepsKeys
    <3>4. CASE n # c.index
      <4>1. c.index \in Nat
        BY <3>1, SendCallType
      <4>2. n >= c.index + 1
        <5>1. \A x, y \in Nat : x >= y /\ x # y => x >= y + 1
          BY SMTT(30)
        <5> QED BY <1>4, <1>10, <3>4, <4>1, <5>1
      <4>3. CallAfter(c) # NoCall
        <5>1. \A x, y, z \in Nat : x >= y + 1 /\ x < z => y + 1 # z
          BY SMTT(30)
        <5>2. c.index + 1 # fragment_count(m.len)
          BY <1>4, <4>1, <4>2, <5>1
        <5> QED BY <3>2, <5>2
      <4> QED BY <1>6, <3>1, <3>2, <4>2, <4>3
    <3> QED BY <3>3, <3>4
  <2> QED BY <1>3, <1>10, <1>s, <2>1, <2>2
      DEF SenderStep, Rests, Starts, Greets, Hears, Ages, Fails, Retries, Emits
<1> QED BY <1>5, <1>7, <1>8, <1>9, <1>10

\* So no step forgets a packet, and a message that is accepted has all its
\* packets to come.
LEMMA RememberedKept ==
    ASSUME IndInv, HistoryOK, HistoryOK', Origin, Remembered, FailuresFit,
           [TransportNext]_allVars
    PROVE  Remembered'
<1> SUFFICES ASSUME NEW m \in accepted', m.type = "data",
                    NEW n \in 0 .. fragment_count(m.len) - 1
             PROVE  Kept(seen'[Other(m.from)], in_flight'[m.from], sending'[m.from],
                         queues'[m.from], reported'[m.from], m, n)
  BY DEF Remembered
<1>1. CASE m \in accepted
  BY <1>1, KeptStays DEF Remembered
<1>2. CASE m \notin accepted
  <2> DEFINE c == sending'[m.from]
  <2>1. Starts(m.from, m)
    BY <1>2, NewMessage
  <2>2. m \in Message
    BY DEF HistoryOK
  <2>3. CallOf(c, m) /\ c.index = 0 /\ c \in SendCall
    <3>1. c = [type |-> m.type, id |-> m.id, body |-> m.body, len |-> m.len,
               offset |-> 0, index |-> 0]
      BY <2>1 DEF Starts
    <3> QED BY <2>2, <3>1, StartOf, SMTT(30) DEF Message, SendCall
  <2>4. c # NoCall /\ n >= c.index
    BY <2>3, CallAssumption, SMTT(30)
  <2> QED BY <2>3, <2>4 DEF Kept
<1> QED BY <1>1, <1>2
=============================================================================
