--------------------------- MODULE ChannelProofs ----------------------------
(***************************************************************************)
(* What the steps of the transport do to a message: its id names it alone, *)
(* it is put together from its own packets, it is handed over once, and    *)
(* its fate at the sender never changes once it is told.                   *)
(***************************************************************************)
EXTENDS PeerProofs

\* A leaf is left to Zenon unless it names another prover.
USE Zenon

(* Packets and failures that are kept *)

\* Failures wait in the local queue only.
Placed(s) ==
    \A k \in QueueKind : \A i \in DOMAIN s[k] : s[k][i].kind = "send_failed" => k = "local"

\* The sender still has packets of message id to queue, or in flight.
InHand(t, c, id) ==
    \/ c # NoCall /\ c.id = id
    \/ \E i \in Occupied(t) : t[i].packet.id = id

\* Pushing a write changes no failure.
LEMMA PushWriteFailures ==
    ASSUME NEW s \in SchedulerType, NEW e \in EngineOutput, e.kind = "write", Placed(s)
    PROVE  /\ Placed(push(s, e))
           /\ \A R, id : Known(push(s, e), R, id) <=> Known(s, R, id)
<1> DEFINE u == push(s, e)
<1>1. \A l \in QueueKind : \A j \in DOMAIN u[l] : u[l][j] = e \/ (j \in DOMAIN s[l] /\ u[l][j] = s[l][j])
  BY PushOrigin
<1>2. ASSUME NEW id, SendFailed(id) \in Range(s["local"])
      PROVE  SendFailed(id) \in Range(u["local"])
  BY <1>2, PushKeepsFailures
<1> HIDE DEF u
<1>3. Placed(u)
  BY <1>1, SMTT(30) DEF Placed
<1>4. ASSUME NEW id, SendFailed(id) \in Range(u["local"])
      PROVE  SendFailed(id) \in Range(s["local"])
  <2>1. SendFailed(id) # e /\ "local" \in QueueKind
    BY SMTT(30) DEF SendFailed, QueueKind
  <2> QED BY <1>1, <1>4, <2>1 DEF Range
<1> QED BY <1>2, <1>3, <1>4 DEF Known, u

\* Pushing a failure while there is room adds that failure.
LEMMA PushFailureFailures ==
    ASSUME NEW s \in SchedulerType, NEW id \in MessageId, Placed(s), SchedulerLen(s) # MAX_EVENTS
    PROVE  LET u == push(s, SendFailed(id))
           IN  /\ Placed(u)
               /\ \A R : Known(u, R, id)
               /\ \A R, z : z # id => (Known(u, R, z) <=> Known(s, R, z))
<1> DEFINE e == SendFailed(id)
           u == push(s, e)
<1>1. e \in EngineOutput /\ ~IsRedundant(s, e) /\ queue_for_event(e) = "local"
  BY EventType DEF SendFailed, IsRedundant, queue_for_event
<1>2. e.kind = "send_failed" /\ e.id = id
  BY DEF SendFailed
<1>3. e \in Range(u["local"])
  BY PushQueuesFailure
<1> HIDE DEF e
<1>4. /\ \A l \in QueueKind : l # "local" => DOMAIN u[l] = DOMAIN s[l]
      /\ \A l \in QueueKind : \A j \in DOMAIN s[l] : u[l][j] = s[l][j]
  BY <1>1, PushAppends, SMTT(30)
<1>5. \A l \in QueueKind : \A j \in DOMAIN u[l] : u[l][j] = e \/ (j \in DOMAIN s[l] /\ u[l][j] = s[l][j])
  BY <1>1, PushOrigin
<1>6. ASSUME NEW z, SendFailed(z) \in Range(s["local"])
      PROVE  SendFailed(z) \in Range(u["local"])
  BY <1>1, <1>6, PushKeepsFailures
<1> HIDE DEF u
<1>7. Placed(u)
  BY <1>4 DEF Placed
<1>8. ASSUME NEW z, z # id, SendFailed(z) \in Range(u["local"])
      PROVE  SendFailed(z) \in Range(s["local"])
  <2>1. SendFailed(z) # e /\ "local" \in QueueKind
    BY <1>2, <1>8, SMTT(30) DEF SendFailed, QueueKind
  <2> QED BY <1>5, <1>8, <2>1 DEF Range
<1>9. (\A R : Known(u, R, id)) /\ \A R, z : z # id => (Known(u, R, z) <=> Known(s, R, z))
  BY <1>3, <1>6, <1>8 DEF Known, e
<1> QED BY <1>7, <1>9 DEF u, e

\* A failure that is popped is reported in the same step.
LEMMA PopFailures ==
    ASSUME NEW s \in SchedulerType, NEW k \in QueueKind, s[k] # <<>>, Placed(s), NEW R, NEW Q,
           \/ Head(s[k]).kind = "write" /\ Q = R
           \/ Head(s[k]).kind = "send_failed" /\ Q = R \cup {Head(s[k]).id}
    PROVE  /\ Placed(pop(s, k))
           /\ \A id : Known(pop(s, k), Q, id) <=> Known(s, R, id)
<1> DEFINE u == pop(s, k)
           e == Head(s[k])
<1>1. /\ e \in EngineOutput /\ 1 \in DOMAIN s[k] /\ e = s[k][1]
      /\ \A l \in QueueKind : \A j \in DOMAIN u[l] : \E i \in DOMAIN s[l] : u[l][j] = s[l][i]
  BY PopShifts, SMTT(30)
<1>2. ASSUME NEW id, SendFailed(id) \in Range(s["local"])
      PROVE  e = SendFailed(id) \/ SendFailed(id) \in Range(u["local"])
  BY <1>2, PopKeepsFailures
<1> HIDE DEF u, e
<1>3. Placed(u)
  BY <1>1, SMTT(30) DEF Placed
<1>4. ASSUME NEW id, Known(s, R, id)
      PROVE  Known(u, Q, id)
  <2>1. e = SendFailed(id) => e.kind = "send_failed" /\ e.id = id
    BY SMTT(30) DEF SendFailed
  <2> QED BY <1>2, <1>4, <2>1 DEF Known, e
<1>5. ASSUME NEW id, Known(u, Q, id)
      PROVE  Known(s, R, id)
  <2>1. CASE SendFailed(id) \in Range(u["local"])
    BY <1>1, <2>1, SMTT(30) DEF Known, Range, QueueKind
  <2>2. CASE e.kind = "send_failed" /\ id = e.id
    <3>1. k = "local"
      BY <1>1, <2>2 DEF Placed
    <3>2. e = SendFailed(id)
      BY <1>1, <2>2 DEF EngineOutput, WriteEvent, SendFailedEvent, SendFailed
    <3> QED BY <1>1, <3>1, <3>2, ZenonT(30) DEF Known, Range
  <2> QED BY <1>5, <2>1, <2>2 DEF Known, e
<1> QED BY <1>3, <1>4, <1>5 DEF u

\* A step changes the fate of one message at most.  It takes packets out of the
\* sender's hand and puts none back, and a failure that becomes known is of a
\* message that was in hand and no longer is.
FateMoves(t, c, s, R, u, d, v, Q, id) ==
    /\ \A z \in MessageId : z # id => /\ InHand(u, d, z) <=> InHand(t, c, z)
                                      /\ Known(v, Q, z) <=> Known(s, R, z)
    /\ InHand(u, d, id) => InHand(t, c, id)
    /\ \/ Known(v, Q, id) <=> Known(s, R, id)
       \/ InHand(t, c, id) /\ ~InHand(u, d, id) /\ Known(v, Q, id)

\* The same packets in the table and the same call: the same messages in hand.
LEMMA SameHand ==
    ASSUME NEW t, NEW u, NEW c, Occupied(u) = Occupied(t),
           \A j \in Occupied(t) : u[j].packet = t[j].packet
    PROVE  \A z : InHand(u, c, z) <=> InHand(t, c, z)
BY DEF InHand

\* A round of send_message_fragments keeps its own message in hand, if it is
\* Data, and the others as they are.
LEMMA SplitHand ==
    ASSUME NEW t \in TableType, UniqueKeys(t), NEW c \in SendCall, c # NoCall,
           c.type = "data" => ~TrackFails(t, NextRecord(c).key),
           \A j \in Occupied(t) : t[j].key = KeyOf(t[j].packet)
    PROVE  /\ \A z : z # c.id => (InHand(TableAfter(t, c), CallAfter(c), z) <=> InHand(t, c, z))
           /\ InHand(t, c, c.id)
<1> DEFINE r == NextRecord(c)
           u == TableAfter(t, c)
<1>1. CallAfter(c) # NoCall => CallAfter(c).id = c.id
  BY DEF CallAfter, Advanced, SendCall
<1>2. r.packet.id = c.id /\ r.key = KeyOf(r.packet) /\ r \in InFlightPacket
  BY RoundType DEF NextRecord, NextFragment, FragmentAt
<1>3. CASE c.type # "data"
  <2>1. u = t
    BY <1>3 DEF TableAfter
  <2> QED BY <1>1, <2>1 DEF InHand
<1>4. CASE c.type = "data"
  <2>1. u = track(t, r)
    BY <1>4 DEF TableAfter
  <2>0. ~TrackFails(t, r.key)
    BY <1>2, <1>4
  <2>2. \A j \in Occupied(u) : u[j] = r \/ (j \in Occupied(t) /\ u[j] = t[j])
    BY <1>2, <2>0, <2>1, TrackSlot, SMTT(30)
  <2>3. ASSUME NEW z, z # c.id, NEW j \in Occupied(t), t[j].packet.id = z
        PROVE  \E i \in Occupied(u) : u[i].packet.id = z
    <3>1. HoldsKey(t, t[j].key)
      BY <2>3 DEF HoldsKey, Occupied
    <3>2. HoldsKey(u, t[j].key)
      BY <1>2, <1>4, <2>1, <3>1, TrackKeepsKeys
    <3>3. PICK i \in Occupied(u) : u[i].key = t[j].key
      BY <3>2 DEF HoldsKey, Occupied
    <3>4. u[i].key = KeyOf(u[i].packet) /\ t[j].key = KeyOf(t[j].packet)
      BY <1>2, <2>2, <2>3, <3>3
    <3>5. u[i].packet.id = t[j].packet.id
      <4>1. <<u[i].packet.id, u[i].packet.index>> = <<t[j].packet.id, t[j].packet.index>>
        BY <3>3, <3>4 DEF KeyOf
      <4> QED BY <4>1
    <3> QED BY <2>3, <3>5
  <2> QED BY <1>1, <1>2, <2>2, <2>3 DEF InHand
<1> QED BY <1>3, <1>4

-----------------------------------------------------------------------------
(* Messages are put together from their own packets *)

\* S accepted every packet of m.
ArrivedIn(S, m) == \A n \in 0 .. fragment_count(m.len) - 1 : <<m.id, n>> \in S

\* The slot collects bytes of m, those of packets in S if the packets are kept.
Pieces(S, slot, m) ==
    /\ slot.type = m.type /\ slot.id = m.id /\ slot.expected_len = m.len
    /\ \A o \in DOMAIN slot.bytes : o \in 0 .. m.len - 1 /\ slot.bytes[o] = m.body
    /\ m.type = "data" =>
           \A n \in Nat : n * FRAGMENT_BYTES \in DOMAIN slot.bytes => <<m.id, n>> \in S

\* The event hands over all of m, and nothing else.
Whole(S, e, m) ==
    /\ e.type = m.type /\ e.id = m.id
    /\ e.bytes = [o \in 0 .. m.len - 1 |-> m.body]
    /\ m.type = "data" => ArrivedIn(S, m)

SlotsIntact(A, S, p, r) ==
    \A i \in Active(r) : \E m \in A : m.from = p /\ Pieces(S, r[i], m)

EventsIntact(A, S, p, q) ==
    \A i \in DOMAIN q : \E m \in A : m.from = p /\ Whole(S, q[i], m)

\* More messages and more keys leave what was collected as it is.
LEMMA IntactGrows ==
    ASSUME NEW A, NEW B, A \subseteq B, NEW S, NEW T, S \subseteq T, NEW p
    PROVE  /\ \A r : SlotsIntact(A, S, p, r) => SlotsIntact(B, T, p, r)
           /\ \A q : EventsIntact(A, S, p, q) => EventsIntact(B, T, p, q)
<1>1. ASSUME NEW slot, NEW m, Pieces(S, slot, m)
      PROVE  Pieces(T, slot, m)
  BY <1>1 DEF Pieces
<1>2. ASSUME NEW e, NEW m, Whole(S, e, m)
      PROVE  Whole(T, e, m)
  BY <1>2 DEF Whole, ArrivedIn
<1> QED BY <1>1, <1>2 DEF SlotsIntact, EventsIntact

\* Of the first bytes of packets, a packet holds only its own.
LEMMA OwnOffset ==
    ASSUME NEW F \in Nat \ {0}, NEW i \in Nat, NEW n \in Nat, NEW size \in Nat, size <= F,
           n * F \in i * F .. i * F + size - 1
    PROVE  n = i
<1> DEFINE a == i * F
           b == n * F
<1>1. a \in Nat /\ b \in Nat /\ a <= b /\ b < a + F
  <2>1. a \in Nat /\ b \in Nat
    BY SMTT(30)
  <2>2. b \in a .. a + size - 1
    OBVIOUS
  <2> HIDE DEF a, b
  <2> QED BY <2>1, <2>2, SMTT(30)
<1>2. CASE n < i
  <2>1. PICK d \in Nat : i = n + 1 + d
    <3>1. i - n - 1 \in Nat /\ i = n + 1 + (i - n - 1)
      BY <1>2, SMTT(30)
    <3> QED BY <3>1
  <2>2. a = b + F + d * F /\ d * F \in Nat
    BY <2>1, SMTT(30)
  <2> HIDE DEF a, b
  <2> QED BY <1>1, <2>2, SMTT(30)
<1>3. CASE i < n
  <2>1. PICK d \in Nat : n = i + 1 + d
    <3>1. n - i - 1 \in Nat /\ n = i + 1 + (n - i - 1)
      BY <1>3, SMTT(30)
    <3> QED BY <3>1
  <2>2. b = a + F + d * F /\ d * F \in Nat
    BY <2>1, SMTT(30)
  <2> HIDE DEF a, b
  <2> QED BY <1>1, <2>2, SMTT(30)
<1> QED BY <1>2, <1>3, SMTT(30)

\* Every packet of a message that is not empty starts within it.
LEMMA StartsInside ==
    ASSUME NEW len \in Nat \ {0}, NEW n \in Nat, n < fragment_count(len)
    PROVE  n * FRAGMENT_BYTES \in 0 .. len - 1
<1> DEFINE F == FRAGMENT_BYTES
           x == len + F - 1
           c == x \div F
           b == n * F
<1>1. F \in Nat \ {0} /\ x \in Nat
  BY PacketsAssumption, SMTT(30)
<1>2. c \in Nat /\ c * F <= x
  <2> HIDE DEF x, F
  <2>1. x = F * c + (x % F) /\ x % F \in Nat /\ c \in Nat
    BY <1>1, SMTT(30)
  <2>2. F * c = c * F /\ c * F \in Nat
    <3> HIDE DEF c
    <3> QED BY <1>1, <2>1, SMTT(30)
  <2> DEFINE y == c * F
             z == x % F
  <2>3. x = y + z /\ z \in Nat /\ y \in Nat
    BY <2>1, <2>2
  <2>4. y <= x
    <3> HIDE DEF y, z
    <3> QED BY <2>3, SMTT(30)
  <2> QED BY <2>1, <2>4
<1>3. n + 1 <= c
  BY <1>2, SMTT(30) DEF fragment_count
<1>4. b + F <= c * F
  <2>1. PICK d \in Nat : c = n + 1 + d
    <3> HIDE DEF c
    <3>1. c - n - 1 \in Nat /\ c = n + 1 + (c - n - 1)
      BY <1>2, <1>3, SMTT(30)
    <3> QED BY <3>1
  <2>2. c * F = b + F + d * F /\ d * F \in Nat /\ b \in Nat
    <3> HIDE DEF c, F
    <3> QED BY <1>1, <2>1, SMTT(30)
  <2> HIDE DEF c, b, F
  <2> QED BY <1>1, <2>2, SMTT(30)
<1>5. b \in Nat /\ c * F \in Nat
  <2> HIDE DEF c, F
  <2> QED BY <1>1, <1>2, SMTT(30)
<1>6. b + F <= x
  <2> DEFINE y == c * F
  <2> HIDE DEF x, b, y, F, c
  <2> QED BY <1>1, <1>2, <1>4, <1>5, SMTT(30) DEF y
<1> HIDE DEF b
<1>7. b \in 0 .. len - 1
  BY <1>1, <1>5, <1>6, SMTT(30)
<1> QED BY <1>7 DEF b

\* The slot that takes a packet of m collects bytes of m afterwards, and a slot
\* that completes holds all of it.
LEMMA FilledPieces ==
    ASSUME NEW r \in ReassemblyType, NEW f \in Fragment, ~Rejects(r, f),
           NEW m \in Message, FragmentOf(f, m), NEW S,
           SlotsOf(r, f) # {} => Pieces(S, r[TargetSlot(r, f)], m),
           NEW T, S \subseteq T, f.type = "data" => KeyOf(f) \in T
    PROVE  /\ Pieces(T, Filled(r, f), m)
           /\ Completes(r, f) => Whole(T, MessageOf(Filled(r, f)), m)
<1> DEFINE old == SlotBefore(r, f)
           new == Filled(r, f)
<1>1. /\ f.type = m.type /\ f.id = m.id /\ f.len = m.len /\ f.body = m.body
      /\ f.offset = f.index * FRAGMENT_BYTES /\ f.size <= FRAGMENT_BYTES
      /\ f.index < fragment_count(m.len)
  BY DEF FragmentOf
<1>2. /\ m.len \in Nat /\ f.offset \in Nat /\ f.size \in Nat /\ f.offset + f.size <= f.len
      /\ f.index \in Nat
  BY DEF Message, Fragment
<1>3. Pieces(S, old, m)
  <2>1. CASE SlotsOf(r, f) # {}
    BY <2>1 DEF SlotBefore
  <2>2. CASE SlotsOf(r, f) = {}
    <3>1. old = start(f)
      BY <2>2 DEF SlotBefore
    <3>2. /\ start(f).type = f.type /\ start(f).id = f.id /\ start(f).expected_len = f.len
          /\ DOMAIN start(f).bytes = {}
      BY DEF start
    <3> QED BY <1>1, <3>1, <3>2 DEF Pieces
  <2> QED BY <2>1, <2>2
<1>4. old \in ReassemblySlot
  BY SlotBeforeType
<1>5. /\ new.type = old.type /\ new.id = old.id /\ new.expected_len = old.expected_len
      /\ new.bytes = Copied(old.bytes, f)
  <2> DEFINE last == old.last_seen \/ f.offset + f.size = old.expected_len
  <2>1. new = [old EXCEPT !.age = 0, !.last_seen = last, !.bytes = Copied(old.bytes, f)]
    BY DEF Filled
  <2> HIDE DEF old, new, last
  <2> QED BY <1>4, <2>1 DEF ReassemblySlot
<1> HIDE DEF old, new
<1>6. /\ DOMAIN new.bytes = DOMAIN old.bytes \cup Covered(f)
      /\ new.bytes = [o \in DOMAIN new.bytes |-> new.bytes[o]]
      /\ \A o \in DOMAIN new.bytes :
             new.bytes[o] = IF o \in Covered(f) THEN f.body ELSE old.bytes[o]
  BY <1>5 DEF Copied
<1>7. \A o \in Covered(f) : o \in 0 .. m.len - 1
  <2>1. f.offset + f.size <= m.len
    BY <1>1, <1>2
  <2> QED BY <1>2, <2>1, SMTT(30) DEF Covered
<1>8. \A o \in DOMAIN new.bytes : o \in 0 .. m.len - 1 /\ new.bytes[o] = m.body
  BY <1>1, <1>3, <1>6, <1>7 DEF Pieces
<1>9. ASSUME m.type = "data", NEW n \in Nat, n * FRAGMENT_BYTES \in DOMAIN new.bytes
      PROVE  <<m.id, n>> \in T
  <2>1. CASE n * FRAGMENT_BYTES \in DOMAIN old.bytes
    BY <1>3, <1>9, <2>1 DEF Pieces
  <2>2. CASE n * FRAGMENT_BYTES \in Covered(f)
    <3>1. n * FRAGMENT_BYTES \in
              f.index * FRAGMENT_BYTES .. f.index * FRAGMENT_BYTES + f.size - 1
      BY <1>1, <2>2 DEF Covered
    <3>2. n = f.index
      BY <1>1, <1>2, <3>1, OwnOffset, PacketsAssumption
    <3> QED BY <1>1, <1>9, <3>2 DEF KeyOf
  <2> QED BY <1>6, <1>9, <2>1, <2>2
<1>10. Pieces(T, new, m)
  BY <1>3, <1>5, <1>8, <1>9 DEF Pieces
<1>11. ASSUME Completes(r, f)
       PROVE  Whole(T, MessageOf(new), m)
  <2>1. \A o \in 0 .. m.len - 1 : o \in DOMAIN new.bytes
    BY <1>10, <1>11 DEF Completes, is_complete, Pieces, new
  <2>2. DOMAIN new.bytes = 0 .. m.len - 1
    BY <1>8, <2>1
  <2>3. new.bytes = [o \in 0 .. m.len - 1 |-> m.body]
    BY <1>6, <1>8, <2>2
  <2>4. MessageOf(new).type = m.type /\ MessageOf(new).id = m.id /\ MessageOf(new).bytes = new.bytes
    BY <1>10 DEF MessageOf, Pieces
  <2>5. ASSUME m.type = "data"
        PROVE  ArrivedIn(T, m)
    <3>1. SUFFICES ASSUME NEW n \in 0 .. fragment_count(m.len) - 1
                   PROVE  <<m.id, n>> \in T
      BY DEF ArrivedIn
    <3>2. n \in Nat /\ n < fragment_count(m.len)
      BY <1>2, FragmentCount, SMTT(30)
    <3>3. CASE m.len = 0
      <4>1. fragment_count(m.len) = 1
        BY <3>3 DEF fragment_count
      <4>2. n = 0 /\ f.index = 0
        BY <1>1, <1>2, <3>2, <4>1, SMTT(30)
      <4> QED BY <1>1, <2>5, <4>2 DEF KeyOf
    <3>4. CASE m.len # 0
      <4>1. n * FRAGMENT_BYTES \in 0 .. m.len - 1
        BY <1>2, <3>2, <3>4, StartsInside
      <4> QED BY <1>9, <2>1, <2>5, <3>2, <4>1
    <3> QED BY <3>3, <3>4
  <2> QED BY <2>3, <2>4, <2>5 DEF Whole
<1> QED BY <1>10, <1>11 DEF new

\* A message that is queued joins the ones before it, less the oldest when the
\* queue is full.
LEMMA EnqueueElements ==
    ASSUME NEW q \in Seq(MessageEvent), NEW e \in MessageEvent
    PROVE  LET u == Enqueue(q, e)
           IN  \E d \in {0, 1} :
                   /\ Len(u) = Len(q) - d + 1 /\ DOMAIN u = 1 .. Len(u) /\ d <= Len(q)
                   /\ \A i \in 1 .. Len(q) - d : u[i] = q[i + d]
                   /\ u[Len(u)] = e
<1> DEFINE u == Enqueue(q, e)
<1>1. CASE Len(q) = MAX_MESSAGES
  <2>1. q # <<>> /\ Len(q) \in Nat /\ Len(q) >= 1
    BY <1>1, EngineAssumption, SMTT(30)
  <2>2. Tail(q) \in Seq(MessageEvent) /\ Len(Tail(q)) = Len(q) - 1
        /\ \A i \in 1 .. Len(q) - 1 : Tail(q)[i] = q[i + 1]
    BY <2>1, SMTT(30)
  <2>3. u = Append(Tail(q), e)
    BY <1>1 DEF Enqueue
  <2> HIDE DEF u
  <2>4. /\ Len(u) = Len(q) - 1 + 1 /\ DOMAIN u = 1 .. Len(u) /\ 1 <= Len(q)
        /\ \A i \in 1 .. Len(q) - 1 : u[i] = q[i + 1]
        /\ u[Len(u)] = e
    BY <2>1, <2>2, <2>3, SMTT(30)
  <2> QED BY <2>4 DEF u
<1>2. CASE Len(q) # MAX_MESSAGES
  <2>1. u = Append(q, e)
    BY <1>2 DEF Enqueue
  <2> HIDE DEF u
  <2>2. /\ Len(u) = Len(q) - 0 + 1 /\ DOMAIN u = 1 .. Len(u) /\ 0 <= Len(q)
        /\ \A i \in 1 .. Len(q) - 0 : u[i] = q[i + 0]
        /\ u[Len(u)] = e
    BY <2>1, SMTT(30)
  <2> QED BY <2>2 DEF u
<1> QED BY <1>1, <1>2

\* expire takes bytes from no slot that it leaves.
LEMMA ExpireKeepsBytes ==
    ASSUME NEW r \in ReassemblyType, NEW delta \in Nat, NEW i \in Active(expire(r, delta))
    PROVE  LET u == expire(r, delta)
           IN  /\ i \in Active(r) /\ u[i].type = r[i].type /\ u[i].id = r[i].id
               /\ u[i].expected_len = r[i].expected_len /\ u[i].bytes = r[i].bytes
<1> DEFINE u == expire(r, delta)
<1>1. i \in ReassemblySlots /\ u[i] # Inactive
  BY DEF Active
<1>2. r[i] # Inactive /\ u[i] = [r[i] EXCEPT !.age = @ + delta]
  BY <1>1 DEF expire
<1>3. r[i] \in ReassemblySlot
  BY <1>1, <1>2 DEF ReassemblyType
<1> HIDE DEF u
<1>4. /\ u[i].type = r[i].type /\ u[i].id = r[i].id
      /\ u[i].expected_len = r[i].expected_len /\ u[i].bytes = r[i].bytes
  BY <1>2, <1>3 DEF ReassemblySlot
<1> QED BY <1>1, <1>2, <1>4 DEF Active, u

-----------------------------------------------------------------------------
(* An id names one message *)

\* The ids p draws, in order.
Ids(p) ==
    CHOOSE ids \in [0 .. MAX_SENDS -> MessageId] :
        /\ ids[0] = Seed[p]
        /\ \A n \in 1 .. MAX_SENDS : ids[n] = alloc_message_id(ids[n - 1])
        /\ \A m, n \in 0 .. MAX_SENDS : ids[m] = ids[n] => m = n

\* p has drawn k ids, and its messages carry some of them.
Drawn(A, id, p, k) ==
    /\ id = Ids(p)[k]
    /\ \A m \in A : m.from = p => \E j \in 1 .. k : m.id = Ids(p)[j]

OneMessagePerId(A) == \A m, n \in A : m.from = n.from /\ m.id = n.id => m = n

Numbered ==
    /\ \A p \in Peers : \E k \in 0 .. calls : Drawn(accepted, next_id[p], p, k)
    /\ OneMessagePerId(accepted)

\* The ids of a session follow the generator and differ.
LEMMA IdsDiffer ==
    ASSUME NEW p \in Peers
    PROVE  /\ Ids(p)[0] = Seed[p]
           /\ \A n \in 1 .. MAX_SENDS : Ids(p)[n] = alloc_message_id(Ids(p)[n - 1])
           /\ \A m, n \in 0 .. MAX_SENDS : Ids(p)[m] = Ids(p)[n] => m = n
BY IdAssumption DEF Ids

\* Only a send call draws an id, whether it accepts its message or refuses it.
LEMMA DrawStep ==
    ASSUME IndInv, HistoryOK, [TransportNext]_allVars
    PROVE  \/ UNCHANGED <<next_id, accepted, calls>>
           \/ \E p \in Peers :
                  /\ calls < MAX_SENDS /\ calls' = calls + 1
                  /\ next_id' = [next_id EXCEPT ![p] = alloc_message_id(@)]
                  /\ \/ accepted' = accepted
                     \/ \E m \in accepted' : /\ m.from = p /\ m.id = next_id'[p]
                                             /\ accepted' = accepted \cup {m}
<1>1. ASSUME NEW p \in Peers, NEW type \in SendTypes, NEW len \in Lengths, AppSend(p, type, len)
      PROVE  /\ calls < MAX_SENDS /\ calls' = calls + 1
             /\ next_id' = [next_id EXCEPT ![p] = alloc_message_id(@)]
             /\ \/ accepted' = accepted
                \/ \E m \in accepted' : /\ m.from = p /\ m.id = next_id'[p]
                                        /\ accepted' = accepted \cup {m}
  <2>1. next_id' = [next_id EXCEPT ![p] = alloc_message_id(@)]
    BY <1>1 DEF AppSend, Send, SendRefused
  <2>2. calls < MAX_SENDS /\ calls' = calls + 1
    BY <1>1 DEF AppSend
  <2> DEFINE a == [from |-> p, type |-> type, id |-> next_id'[p], len |-> len, body |-> calls']
  <2>3. accepted' = accepted \/ accepted' = accepted \cup {a}
    BY <1>1 DEF AppSend
  <2>4. a.from = p /\ a.id = next_id'[p]
    OBVIOUS
  <2> HIDE DEF a
  <2> QED BY <2>1, <2>2, <2>3, <2>4
<1>2. ASSUME NEW p \in Peers, NEW i \in Arrivals(p), Deliver(p, i)
      PROVE  UNCHANGED <<next_id, accepted, calls>>
  <2>1. Other(p) \in Peers
    BY OtherPeer
  <2>2. UNCHANGED next_id
    BY <1>2, <2>1
    DEF Deliver, Receive, ReceiveDuplicate, ReceiveData, ReceiveLog, ReceiveAck,
       ReceivePing, vars, sendVars
  <2> QED BY <1>2, <2>2 DEF Deliver
<1>3. ASSUME NEW p \in Peers,
             AppPing(p) \/ Quiet(p) \/ Outputs(p) \/ (\E delta \in Deltas : AppPoll(p, delta))
      PROVE  UNCHANGED <<next_id, accepted, calls>>
  <2>1. UNCHANGED next_id
    BY <1>3 DEF AppPing, SendPing, Quiet, SendFragment, TickFail, TickRetransmit, PollIdle,
       Outputs, OutputAck, OutputWrite, OutputSendFailed, OutputMessage, PollAck, PollMessage,
       PollUrgent, PollNewData, PollEvent, AppPoll, Poll, sendVars
  <2>2. UNCHANGED <<accepted, calls>>
    BY <1>3 DEF AppPing, Quiet, Outputs, OutputAck, OutputWrite, OutputSendFailed,
       OutputMessage, AppPoll, historyVars
  <2> QED BY <2>1, <2>2
<1>4. ASSUME NEW p \in Peers, NEW i \in Arrivals(p), Lose(p, i)
      PROVE  UNCHANGED <<next_id, accepted, calls>>
  BY <1>4 DEF Lose, vars, sendVars, historyVars
<1>5. CASE UNCHANGED allVars
  BY <1>5 DEF allVars, vars, sendVars, historyVars
<1> QED BY <1>1, <1>2, <1>3, <1>4, <1>5 DEF TransportNext

\* No id is drawn twice, so no two messages of a side share one.
LEMMA NumberedKept ==
    ASSUME IndInv, HistoryOK, HistoryOK', Numbered, [TransportNext]_allVars
    PROVE  Numbered'
<1>0. MAX_SENDS \in Nat /\ calls \in Nat
  BY TransportAssumption, SMTT(30) DEF HistoryOK
<1>1. CASE UNCHANGED <<next_id, accepted, calls>>
  BY <1>1 DEF Numbered
<1>2. ASSUME NEW p \in Peers, calls < MAX_SENDS, calls' = calls + 1,
             next_id' = [next_id EXCEPT ![p] = alloc_message_id(@)],
             \/ accepted' = accepted
             \/ \E m \in accepted' : /\ m.from = p /\ m.id = next_id'[p]
                                     /\ accepted' = accepted \cup {m}
      PROVE  Numbered'
  <2>1. PICK k \in 0 .. calls : Drawn(accepted, next_id[p], p, k)
    BY DEF Numbered
  <2>2. k \in Nat /\ k + 1 \in 1 .. MAX_SENDS /\ k + 1 \in 0 .. calls' /\ (k + 1) - 1 = k
    BY <1>0, <1>2, SMTT(30)
  <2>3. next_id'[p] = Ids(p)[k + 1]
    <3>1. next_id'[p] = alloc_message_id(next_id[p])
      BY <1>2 DEF IndInv, NumbersOK
    <3>2. Ids(p)[k + 1] = alloc_message_id(Ids(p)[(k + 1) - 1])
      BY <2>2, IdsDiffer
    <3>3. next_id[p] = Ids(p)[k]
      BY <2>1 DEF Drawn
    <3> HIDE DEF Ids, alloc_message_id
    <3> QED BY <2>2, <3>1, <3>2, <3>3
  <2>4. \A m \in accepted' : m.from = p => \E j \in 1 .. k + 1 : m.id = Ids(p)[j]
    <3>1. k + 1 \in 1 .. k + 1 /\ \A j \in 1 .. k : j \in 1 .. k + 1
      BY <2>2, SMTT(30)
    <3> QED BY <1>2, <2>1, <2>3, <3>1 DEF Drawn
  <2>5. Drawn(accepted', next_id'[p], p, k + 1)
    BY <2>3, <2>4 DEF Drawn
  <2>6. ASSUME NEW q \in Peers, q # p
        PROVE  \E l \in 0 .. calls' : Drawn(accepted', next_id'[q], q, l)
    <3>1. PICK l \in 0 .. calls : Drawn(accepted, next_id[q], q, l)
      BY DEF Numbered
    <3>2. l \in 0 .. calls'
      BY <1>0, <1>2, SMTT(30)
    <3>3. next_id'[q] = next_id[q] /\ \A m \in accepted' : m.from = q => m \in accepted
      BY <1>2, <2>6 DEF IndInv, NumbersOK
    <3> QED BY <3>1, <3>2, <3>3 DEF Drawn
  <2>7. ASSUME NEW m \in accepted', NEW n \in accepted, m.from = p, m.id = next_id'[p], n.from = p
        PROVE  m.id # n.id
    <3>1. PICK j \in 1 .. k : n.id = Ids(p)[j]
      BY <2>1, <2>7 DEF Drawn
    <3>2. j \in 0 .. MAX_SENDS /\ k + 1 \in 0 .. MAX_SENDS /\ j # k + 1
      BY <1>0, <2>2, SMTT(30)
    <3> QED BY <2>3, <2>7, <3>1, <3>2, IdsDiffer, SMTT(30)
  <2>8. OneMessagePerId(accepted')
    BY <1>2, <2>7, ZenonT(30) DEF OneMessagePerId, Numbered
  <2> QED BY <2>2, <2>5, <2>6, <2>8 DEF Numbered
<1> QED BY <1>1, <1>2, DrawStep

-----------------------------------------------------------------------------
(* Messages are put together from their own packets *)

Intact ==
    \A q \in Peers :
        /\ SlotsIntact(accepted, seen[q], Other(q), reassembly[q])
        /\ EventsIntact(accepted, seen[q], Other(q), messages[q])
        /\ EventsIntact(accepted, seen[q], Other(q), delivered[q])

\* A packet on the link is one of a message its sender accepted, and the slot
\* it goes to collects that message.
LEMMA FragmentArrives ==
    ASSUME Base, Numbered, Intact, NEW q \in Peers, NEW j \in DOMAIN wire[Other(q)],
           wire[Other(q)][j].type \in MessageTypes, ~Rejects(reassembly[q], wire[Other(q)][j])
    PROVE  LET f == wire[Other(q)][j]
               r == reassembly[q]
           IN  /\ f \in Fragment
               /\ \E m \in accepted :
                      /\ m.from = Other(q) /\ m \in Message /\ FragmentOf(f, m)
                      /\ SlotsOf(r, f) # {} => Pieces(seen[q], r[TargetSlot(r, f)], m)
<1> DEFINE f == wire[Other(q)][j]
           r == reassembly[q]
<1>1. Other(q) \in Peers
  BY OtherPeer
<1>2. f \in Packet
  BY <1>1, SMTT(30) DEF Base, HistoryOK
<1>3. f \in Fragment
  BY <1>2, IncomingFragment
<1>4. PICK m \in accepted : m.from = Other(q) /\ FragmentOf(f, m)
  BY <1>1 DEF Base, Origin, WireValid, Valid, Sent
<1>5. m \in Message /\ accepted \subseteq Message
  BY DEF Base, HistoryOK
<1>6. r \in ReassemblyType
  BY DEF Base, IndInv, ReceiverOK
<1> DEFINE i == TargetSlot(r, f)
<1>7. ASSUME SlotsOf(r, f) # {}
      PROVE  Pieces(seen[q], r[i], m)
  <2>1. i \in SlotsOf(r, f)
    BY <1>3, <1>6, <1>7, SlotBeforeType
  <2>2. i \in Active(r) /\ r[i].type = f.type /\ r[i].id = f.id
    BY <2>1 DEF SlotsOf
  <2>3. PICK n \in accepted : n.from = Other(q) /\ Pieces(seen[q], r[i], n)
    BY <2>2 DEF Intact, SlotsIntact
  <2>4. n.id = m.id
    BY <1>4, <2>2, <2>3 DEF Pieces, FragmentOf
  <2>5. n = m
    BY <1>4, <2>3, <2>4 DEF Numbered, OneMessagePerId
  <2> QED BY <2>3, <2>5
<1> QED BY <1>3, <1>4, <1>5, <1>7

\* Every step keeps what a side collected, queued and handed over intact.
LEMMA IntactKept ==
    ASSUME Base, Base', Numbered, Intact, [TransportNext]_allVars
    PROVE  Intact'
<1>1. accepted \subseteq accepted' /\ \A q \in Peers : seen[q] \subseteq seen'[q]
  BY AllGrow DEF Base, Grows
<1> DEFINE Good(q, r, u, d) ==
               /\ SlotsIntact(accepted', seen'[q], Other(q), r)
               /\ EventsIntact(accepted', seen'[q], Other(q), u)
               /\ EventsIntact(accepted', seen'[q], Other(q), d)
<1> SUFFICES ASSUME NEW q \in Peers
             PROVE  Good(q, reassembly'[q], messages'[q], delivered'[q])
  BY DEF Intact
<1> DEFINE r == reassembly[q]
           u == messages[q]
           d == delivered[q]
           Goal == Good(q, reassembly'[q], messages'[q], delivered'[q])
<1>2. Good(q, r, u, d)
  BY <1>1, IntactGrows DEF Intact
<1>3. /\ r \in ReassemblyType /\ u \in Seq(MessageEvent) /\ d \in Seq(MessageEvent)
  BY DEF Base, IndInv, ReceiverOK, HistoryOK
<1>4. ReceiverStep(q)
  BY ReceiverCases DEF Base
<1>s. r = reassembly[q] /\ u = messages[q] /\ d = delivered[q]
  OBVIOUS
<1> SUFFICES Goal
  OBVIOUS
<1>5. CASE KeepsMessages(q)
  BY <1>2, <1>5 DEF KeepsMessages
<1>6. CASE HandsOver(q)
  <2>1. /\ u # <<>> /\ messages'[q] = Tail(u) /\ reassembly'[q] = r
        /\ delivered'[q] = d \/ delivered'[q] = Append(d, Head(u))
    BY <1>6 DEF HandsOver
  <2> HIDE DEF r, u, d
  <2>2. EventsIntact(accepted', seen'[q], Other(q), Tail(u))
    <3>1. \A i \in DOMAIN Tail(u) : i + 1 \in DOMAIN u /\ Tail(u)[i] = u[i + 1]
      BY <1>3, <2>1, SMTT(30)
    <3> QED BY <1>2, <3>1 DEF EventsIntact
  <2>3. EventsIntact(accepted', seen'[q], Other(q), Append(d, Head(u)))
    <3>1. /\ 1 \in DOMAIN u /\ Head(u) = u[1]
          /\ \A i \in DOMAIN Append(d, Head(u)) :
                 \/ i \in DOMAIN d /\ Append(d, Head(u))[i] = d[i]
                 \/ Append(d, Head(u))[i] = Head(u)
      BY <1>3, <2>1, SMTT(30)
    <3> QED BY <1>2, <3>1 DEF EventsIntact
  <2> QED BY <1>2, <2>1, <2>2, <2>3
<1>7. ASSUME NEW delta \in Nat, Expires(q, delta)
      PROVE  Goal
  <2>1. reassembly'[q] = expire(r, delta) /\ messages'[q] = u /\ delivered'[q] = d
    BY <1>7 DEF Expires
  <2> HIDE DEF r, u, d
  <2>2. ASSUME NEW i \in Active(expire(r, delta))
        PROVE  \E m \in accepted' : m.from = Other(q) /\ Pieces(seen'[q], expire(r, delta)[i], m)
    <3> DEFINE x == expire(r, delta)[i]
    <3>1. /\ i \in Active(r) /\ x.type = r[i].type /\ x.id = r[i].id
          /\ x.expected_len = r[i].expected_len /\ x.bytes = r[i].bytes
      BY <1>3, ExpireKeepsBytes
    <3>2. PICK m \in accepted' : m.from = Other(q) /\ Pieces(seen'[q], r[i], m)
      BY <1>2, <3>1 DEF SlotsIntact
    <3> HIDE DEF x
    <3>3. Pieces(seen'[q], x, m)
      BY <3>1, <3>2 DEF Pieces
    <3> QED BY <3>2, <3>3 DEF x
  <2>3. SlotsIntact(accepted', seen'[q], Other(q), expire(r, delta))
    BY <2>2 DEF SlotsIntact
  <2> QED BY <1>2, <2>1, <2>3
<1>8. ASSUME NEW j \in DOMAIN wire[Other(q)], Gathers(q, wire[Other(q)][j])
      PROVE  Goal
  <2> DEFINE f == wire[Other(q)][j]
             new == Filled(r, f)
             e == MessageOf(new)
  <2>1. /\ ~Rejects(r, f) /\ f.type \in MessageTypes /\ reassembly'[q] = observe(r, f)
        /\ messages'[q] = IF Completes(r, f) THEN Enqueue(u, e) ELSE u
        /\ delivered'[q] = d /\ (f.type = "data" => KeyOf(f) \in seen'[q])
    BY <1>8 DEF Gathers, Sees, MessageTypes
  <2>2. f \in Fragment
    BY <2>1, FragmentArrives
  <2>3. PICK m \in accepted :
            /\ m.from = Other(q) /\ m \in Message /\ FragmentOf(f, m)
            /\ SlotsOf(r, f) # {} => Pieces(seen[q], r[TargetSlot(r, f)], m)
    BY <2>1, FragmentArrives
  <2> HIDE DEF r, u, d, f
  <2>4. Pieces(seen'[q], new, m) /\ (Completes(r, f) => Whole(seen'[q], e, m))
    BY <1>1, <1>3, <2>1, <2>2, <2>3, FilledPieces
  <2>5. e \in MessageEvent
    BY <1>3, <2>1, <2>2, FilledType, MessageOfType
  <2>6. m \in accepted'
    BY <1>1
  <2> HIDE DEF new, e
  <2>7. SlotsIntact(accepted', seen'[q], Other(q), observe(r, f))
    <3> SUFFICES ASSUME NEW i \in Active(observe(r, f))
                 PROVE  \E n \in accepted' :
                            n.from = Other(q) /\ Pieces(seen'[q], observe(r, f)[i], n)
      BY DEF SlotsIntact
    <3>1. observe(r, f)[i] = new \/ (i \in Active(r) /\ observe(r, f)[i] = r[i])
      BY <1>3 DEF observe, Active, ReassemblyType, new
    <3> QED BY <1>2, <2>3, <2>4, <2>6, <3>1 DEF SlotsIntact
  <2>8. ASSUME Completes(r, f)
        PROVE  EventsIntact(accepted', seen'[q], Other(q), Enqueue(u, e))
    <3> DEFINE v == Enqueue(u, e)
    <3>1. PICK k \in {0, 1} :
              /\ Len(v) = Len(u) - k + 1 /\ DOMAIN v = 1 .. Len(v) /\ k <= Len(u)
              /\ \A i \in 1 .. Len(u) - k : v[i] = u[i + k]
              /\ v[Len(v)] = e
      BY <1>3, <2>5, EnqueueElements
    <3> HIDE DEF v
    <3>2. Len(u) \in Nat /\ DOMAIN u = 1 .. Len(u)
      BY <1>3, SMTT(30)
    <3>3. \A i \in DOMAIN v : (i + k \in DOMAIN u /\ v[i] = u[i + k]) \/ v[i] = e
      BY <3>1, <3>2, SMTT(30)
    <3>4. EventsIntact(accepted', seen'[q], Other(q), v)
      BY <1>2, <2>3, <2>4, <2>6, <2>8, <3>3 DEF EventsIntact
    <3> QED BY <3>4 DEF v
  <2> QED BY <1>2, <2>1, <2>7, <2>8
<1> QED BY <1>4, <1>5, <1>6, <1>7, <1>8 DEF ReceiverStep, Listens

-----------------------------------------------------------------------------
(* A message is handed over once *)

\* As long as the ring of the duplicate detector has places it forgets nothing
\* (PacketDedup::observe_packet).
LEMMA RingForgetsNothing ==
    ASSUME NEW d \in Seq(PacketKey), Window(d), NEW key, key \notin Range(d),
           Cardinality(Range(d) \cup {key}) <= MAX_IN_FLIGHT
    PROVE  Range(Remember(d, key)) = Range(d) \cup {key}
<1> DEFINE n == Len(d)
<1>1. n \in Nat /\ DOMAIN d = 1 .. n
  BY SMTT(30)
<1>2. d \in [1 .. n -> Range(d)]
  BY <1>1, SMTT(30) DEF Range
<1>3. d \in Bijection(1 .. n, Range(d))
  BY <1>1, <1>2 DEF Bijection, Injection, IsInjective, Surjection, Range, Window
<1>4. IsFiniteSet(1 .. n) /\ Cardinality(1 .. n) = n
  <2> HIDE DEF n
  <2>1. 1 \in Int /\ n \in Int
    BY <1>1, SMTT(30)
  <2>2. IsFiniteSet(1 .. n) /\ Cardinality(1 .. n) = IF 1 > n THEN 0 ELSE n - 1 + 1
    BY <2>1, FS_Interval
  <2>3. (IF 1 > n THEN 0 ELSE n - 1 + 1) = n
    BY <1>1, SMTT(30)
  <2> QED BY <2>2, <2>3, SMTT(30)
<1>5. IsFiniteSet(Range(d)) /\ Cardinality(Range(d)) = n
  BY <1>3, <1>4, FS_Bijection DEF ExistsBijection
<1>6. n + 1 <= MAX_IN_FLIGHT
  <2> HIDE DEF n
  <2>1. Cardinality(Range(d) \cup {key}) = n + 1
    BY <1>5, FS_AddElement
  <2> QED BY <2>1
<1>7. Remember(d, key) = Append(d, key)
  BY <1>1, <1>6, EngineAssumption, SMTT(30) DEF Remember
<1> DEFINE u == Append(d, key)
<1>8. /\ DOMAIN u = 1 .. n + 1 /\ u[n + 1] = key
      /\ \A i \in 1 .. n : u[i] = d[i]
  BY <1>1, SMTT(30)
<1> HIDE DEF u
<1>9. Range(u) = Range(d) \cup {key}
  <2>1. n + 1 \in 1 .. n + 1 /\ \A i \in 1 .. n + 1 : i = n + 1 \/ i \in 1 .. n
    BY <1>1, SMTT(30)
  <2>2. 1 .. n \subseteq 1 .. n + 1
    BY <1>1, SMTT(30)
  <2> HIDE DEF n
  <2> QED BY <1>1, <1>8, <2>1, <2>2 DEF Range
<1> QED BY <1>7, <1>9 DEF u

\* No engine has accepted more Data packets than its duplicate ring has places.
FewPackets == \A q \in Peers : Cardinality(seen[q]) <= MAX_IN_FLIGHT

\* The duplicate ring still knows every Data packet its engine accepted.
AllRemembered == \A q \in Peers : seen[q] = Range(dedup[q])

\* A step makes an engine forget no packet as long as there are few.
LEMMA AllRememberedKept ==
    ASSUME Base, AllRemembered, FewPackets', [TransportNext]_allVars
    PROVE  AllRemembered'
<1>1. CASE UNCHANGED <<dedup, seen>>
  BY <1>1 DEF AllRemembered
<1>2. ASSUME NEW p \in Peers, NEW i \in Arrivals(p), Deliver(p, i)
      PROVE  AllRemembered'
  <2> DEFINE f == wire[p][i]
             r == Other(p)
  <2>1. /\ r \in Peers
        /\ dedup \in [Peers -> Seq(PacketKey)] /\ Window(dedup[r])
        /\ seen \in [Peers -> SUBSET PacketKey]
        /\ seen' = IF f.type = "data" /\ ~Ignored(r, f)
                   THEN [seen EXCEPT ![r] = @ \cup {KeyOf(f)}]
                   ELSE seen
    BY <1>2, OtherPeer DEF Deliver, Base, IndInv, ReceiverOK, HistoryOK
  <2> HIDE DEF f, r
  <2>2. CASE ReceiveDuplicate(r, f)
    <3>1. dedup' = dedup /\ KeyOf(f) \in seen[r]
      BY <2>1, <2>2 DEF ReceiveDuplicate, is_duplicate, AllRemembered
    <3>2. seen' = seen
      BY <2>1, <3>1
    <3> QED BY <1>1, <3>1, <3>2
  <2>3. CASE ReceiveData(r, f)
    <3>1. ~Ignored(r, f) /\ f.type = "data" /\ ~is_duplicate(r, KeyOf(f))
      BY <2>3 DEF ReceiveData, Reassemble, Ignored
    <3>2. /\ dedup' = [dedup EXCEPT ![r] = Remember(dedup[r], KeyOf(f))]
          /\ seen' = [seen EXCEPT ![r] = seen[r] \cup {KeyOf(f)}]
      BY <2>1, <2>3, <3>1 DEF ReceiveData
    <3>3. seen'[r] = seen[r] \cup {KeyOf(f)} /\ dedup'[r] = Remember(dedup[r], KeyOf(f))
      BY <2>1, <3>2
    <3>4. Range(Remember(dedup[r], KeyOf(f))) = Range(dedup[r]) \cup {KeyOf(f)}
      <4>1. dedup[r] \in Seq(PacketKey) /\ seen[r] = Range(dedup[r])
        BY <2>1 DEF AllRemembered
      <4>2. Cardinality(Range(dedup[r]) \cup {KeyOf(f)}) <= MAX_IN_FLIGHT
        BY <2>1, <3>3, <4>1 DEF FewPackets
      <4> QED BY <2>1, <3>1, <4>1, <4>2, RingForgetsNothing DEF is_duplicate
    <3>5. ASSUME NEW q \in Peers
          PROVE  seen'[q] = Range(dedup'[q])
      <4>1. CASE q = r
        BY <3>3, <3>4, <4>1 DEF AllRemembered
      <4>2. CASE q # r
        BY <2>1, <3>2, <4>2 DEF AllRemembered
      <4> QED BY <4>1, <4>2
    <3> QED BY <3>5 DEF AllRemembered
  <2>4. CASE ReceiveLog(r, f)
    BY <1>1, <2>1, <2>4 DEF ReceiveLog
  <2>5. CASE ReceiveAck(r, f) \/ ReceivePing(r, f)
    BY <1>1, <2>1, <2>5 DEF ReceiveAck, ReceivePing, receiveVars
  <2>6. CASE Ignored(r, f) /\ UNCHANGED vars
    BY <1>1, <2>1, <2>6 DEF vars, receiveVars
  <2> QED BY <1>2, <2>2, <2>3, <2>4, <2>5, <2>6 DEF Deliver, Receive, f, r
<1>3. CASE UNCHANGED allVars
  BY <1>1, <1>3 DEF allVars, vars, receiveVars, historyVars
<1>4. ASSUME NEW p \in Peers, NEW type \in SendTypes, NEW len \in Lengths, AppSend(p, type, len)
      PROVE  AllRemembered'
  BY <1>1, <1>4 DEF AppSend, Send, SendRefused, receiveVars
<1>5. ASSUME NEW p \in Peers, AppPing(p) \/ Quiet(p) \/ Outputs(p)
      PROVE  AllRemembered'
  <2>1. UNCHANGED dedup
    BY <1>5 DEF AppPing, SendPing, Quiet, SendFragment, TickFail, TickRetransmit, PollIdle,
                Outputs, OutputAck, OutputMessage, OutputWrite, OutputSendFailed, PollAck,
                PollMessage, PollUrgent, PollNewData, PollEvent, receiveVars
  <2>2. UNCHANGED seen
    BY <1>5 DEF AppPing, Quiet, Outputs, OutputAck, OutputMessage, OutputWrite,
                OutputSendFailed, historyVars
  <2> QED BY <1>1, <2>1, <2>2
<1>6. ASSUME NEW p \in Peers, NEW delta \in Deltas, AppPoll(p, delta)
      PROVE  AllRemembered'
  BY <1>1, <1>6 DEF AppPoll, Poll, historyVars
<1>7. ASSUME NEW p \in Peers, NEW i \in Arrivals(p), Lose(p, i)
      PROVE  AllRemembered'
  BY <1>1, <1>7 DEF Lose, vars, receiveVars, historyVars
<1> QED BY <1>2, <1>3, <1>4, <1>5, <1>6, <1>7 DEF TransportNext

\* Of the Data messages queued in u and handed over in d no two have the same id.
OnceIn(u, d) ==
    /\ \A i, j \in DOMAIN u :
           (u[i].type = "data" /\ u[j].type = "data" /\ u[i].id = u[j].id) => i = j
    /\ \A i, j \in DOMAIN d : d[i].id = d[j].id => i = j
    /\ \A i \in DOMAIN u, j \in DOMAIN d : u[i].type = "data" => u[i].id # d[j].id
    /\ \A j \in DOMAIN d : d[j].type = "data"

Once == \A q \in Peers : OnceIn(messages[q], delivered[q])

\* A packet that is not a duplicate is of no message queued or handed over.
LEMMA NewPacketNewMessage ==
    ASSUME Base, Numbered, Intact, WindowCovers, NEW q \in Peers,
           NEW j \in DOMAIN wire[Other(q)], wire[Other(q)][j].type = "data",
           ~is_duplicate(q, KeyOf(wire[Other(q)][j])),
           NEW u \in {messages[q], delivered[q]}, NEW i \in DOMAIN u, u[i].type = "data"
    PROVE  u[i].id # wire[Other(q)][j].id
<1> DEFINE f == wire[Other(q)][j]
<1>1. Other(q) \in Peers /\ Other(Other(q)) = q
  BY OtherPeer
<1>2. KeyOf(f) \notin seen[q]
  BY <1>1 DEF WindowCovers
<1>3. PICK m \in accepted : m.from = Other(q) /\ FragmentOf(f, m)
  BY <1>1 DEF Base, Origin, WireValid, Valid, Sent, MessageTypes
<1>4. PICK n \in accepted : n.from = Other(q) /\ Whole(seen[q], u[i], n)
  BY DEF Intact, EventsIntact
<1>5. f \in Packet
  BY <1>1, SMTT(30) DEF Base, HistoryOK
<1>6. f \in Fragment
  BY <1>5, IncomingFragment DEF MessageTypes
<1> SUFFICES ASSUME u[i].id = f.id
             PROVE  FALSE
  OBVIOUS
<1>7. n = m
  <2>1. n.id = m.id
    BY <1>3, <1>4 DEF Whole, FragmentOf
  <2> QED BY <1>3, <1>4, <2>1 DEF Numbered, OneMessagePerId
<1>8. ArrivedIn(seen[q], m)
  BY <1>4, <1>7 DEF Whole
<1>9. f.index \in 0 .. fragment_count(m.len) - 1
  <2>1. f.index \in Nat /\ f.index < fragment_count(m.len) /\ m.len \in Nat
    BY <1>3, <1>6 DEF Fragment, FragmentOf, Base, HistoryOK, Message
  <2>2. fragment_count(m.len) \in Nat
    BY <2>1, FragmentCount
  <2> QED BY <2>1, <2>2, SMTT(30)
<1>10. <<m.id, f.index>> \in seen[q]
  BY <1>8, <1>9 DEF ArrivedIn
<1> QED BY <1>2, <1>3, <1>10 DEF KeyOf, FragmentOf

\* No step queues or hands over a message a second time.
LEMMA OnceKept ==
    ASSUME Base, Numbered, Intact, Once, WindowCovers, [TransportNext]_allVars
    PROVE  Once'
<1> SUFFICES ASSUME NEW q \in Peers
             PROVE  OnceIn(messages'[q], delivered'[q])
  BY DEF Once
<1> DEFINE u == messages[q]
           d == delivered[q]
           Goal == OnceIn(messages'[q], delivered'[q])
<1>1. OnceIn(u, d)
  BY DEF Once
<1>2. u \in Seq(MessageEvent) /\ d \in Seq(MessageEvent)
  BY DEF Base, IndInv, ReceiverOK, HistoryOK
<1>3. ReceiverStep(q)
  BY ReceiverCases DEF Base
<1>4. Len(u) \in Nat /\ DOMAIN u = 1 .. Len(u) /\ Len(d) \in Nat /\ DOMAIN d = 1 .. Len(d)
  BY <1>2, SMTT(30)
<1> SUFFICES Goal
  OBVIOUS
<1>5. CASE messages'[q] = u /\ delivered'[q] = d
  BY <1>1, <1>5
<1>6. CASE HandsOver(q)
  <2>1. /\ u # <<>> /\ messages'[q] = Tail(u)
        /\ delivered'[q] = IF Head(u).type = "data" THEN Append(d, Head(u)) ELSE d
    BY <1>6 DEF HandsOver
  <2> HIDE DEF u, d
  <2>2. /\ 1 \in DOMAIN u /\ Head(u) = u[1]
        /\ \A i \in DOMAIN Tail(u) :
               i \in Nat /\ i + 1 \in DOMAIN u /\ Tail(u)[i] = u[i + 1] /\ i + 1 # 1
    BY <1>2, <2>1, SMTT(30)
  <2>3. \A i, j \in DOMAIN Tail(u) : i + 1 = j + 1 => i = j
    BY <2>2, SMTT(30)
  <2>4. CASE Head(u).type # "data"
    <3>1. OnceIn(Tail(u), d)
      BY <1>1, <2>2, <2>3, SMTT(30) DEF OnceIn
    <3> QED BY <2>1, <2>4, <3>1
  <2>5. CASE Head(u).type = "data"
    <3> DEFINE v == Append(d, Head(u))
               t == Tail(u)
    <3>1. DOMAIN v = 1 .. Len(d) + 1 /\ v[Len(d) + 1] = u[1] /\ \A i \in DOMAIN d : v[i] = d[i]
      BY <1>2, <2>2, SMTT(30)
    <3>2. \A i \in DOMAIN v : i \in DOMAIN d \/ i = Len(d) + 1
      BY <1>4, <3>1, SMTT(30)
    <3> HIDE DEF v, t
    <3>3. ASSUME NEW i \in DOMAIN d
          PROVE  d[i].id # u[1].id
      BY <1>1, <2>2, <2>5 DEF OnceIn
    <3>4. ASSUME NEW i \in DOMAIN t, t[i].type = "data"
          PROVE  t[i].id # u[1].id
      BY <1>1, <2>2, <2>5, <3>4 DEF OnceIn, t
    <3>5. \A i, j \in DOMAIN v : v[i].id = v[j].id => i = j
      BY <1>1, <3>1, <3>2, <3>3 DEF OnceIn
    <3>6. \A i, j \in DOMAIN t :
              (t[i].type = "data" /\ t[j].type = "data" /\ t[i].id = t[j].id) => i = j
      BY <1>1, <2>2, <2>3, SMTT(30) DEF OnceIn, t
    <3>7. ASSUME NEW i \in DOMAIN t, NEW j \in DOMAIN v, t[i].type = "data"
          PROVE  t[i].id # v[j].id
      <4>1. CASE j \in DOMAIN d
        BY <1>1, <2>2, <3>1, <3>7, <4>1, SMTT(30) DEF OnceIn, t
      <4> QED BY <3>1, <3>2, <3>4, <3>7, <4>1
    <3>8. \A j \in DOMAIN v : v[j].type = "data"
      BY <1>1, <2>2, <2>5, <3>1, <3>2 DEF OnceIn
    <3>9. OnceIn(t, v)
      BY <3>5, <3>6, <3>7, <3>8 DEF OnceIn
    <3> QED BY <2>1, <2>5, <3>9 DEF t, v
  <2> QED BY <2>4, <2>5
<1>7. ASSUME NEW k \in DOMAIN wire[Other(q)], Gathers(q, wire[Other(q)][k])
      PROVE  Goal
  <2> DEFINE f == wire[Other(q)][k]
             e == MessageOf(Filled(reassembly[q], f))
             v == Enqueue(u, e)
  <2>1. /\ ~Rejects(reassembly[q], f) /\ f.type \in MessageTypes /\ delivered'[q] = d
        /\ messages'[q] = v \/ messages'[q] = u
    BY <1>7 DEF Gathers, Sees, MessageTypes
  <2>2. f \in Fragment /\ reassembly[q] \in ReassemblyType
    BY <2>1, FragmentArrives DEF Base, IndInv, ReceiverOK
  <2>3. e \in MessageEvent /\ e.type = f.type /\ e.id = f.id
    BY <2>1, <2>2, FilledType, MessageOfType DEF MessageOf
  <2>4. PICK c \in {0, 1} :
            /\ Len(v) = Len(u) - c + 1 /\ DOMAIN v = 1 .. Len(v) /\ c <= Len(u)
            /\ \A i \in 1 .. Len(u) - c : v[i] = u[i + c]
            /\ v[Len(v)] = e
    BY <1>2, <2>3, EnqueueElements
  <2>5. ASSUME e.type = "data"
        PROVE  /\ \A i \in DOMAIN u : u[i].type = "data" => u[i].id # e.id
               /\ \A i \in DOMAIN d : d[i].id # e.id
    <3>1. f.type = "data" /\ ~is_duplicate(q, KeyOf(f))
      BY <1>7, <2>3, <2>5 DEF Gathers
    <3>2. \A i \in DOMAIN u : u[i].type = "data" => u[i].id # f.id
      BY <3>1, NewPacketNewMessage
    <3>3. \A i \in DOMAIN d : d[i].type = "data" => d[i].id # f.id
      BY <3>1, NewPacketNewMessage
    <3>4. \A i \in DOMAIN d : d[i].type = "data"
      BY <1>1 DEF OnceIn
    <3> QED BY <2>3, <3>2, <3>3, <3>4
  <2> HIDE DEF u, d, e, v
  <2>6. \A i \in DOMAIN v : \/ i \in Nat /\ i + c \in DOMAIN u /\ v[i] = u[i + c]
                            \/ i = Len(v) /\ v[i] = e
    BY <1>4, <2>4, SMTT(30)
  <2>7. \A i, j \in Nat : i + c = j + c => i = j
    BY <2>4, SMTT(30)
  <2>8. \A i, j \in DOMAIN v :
            (v[i].type = "data" /\ v[j].type = "data" /\ v[i].id = v[j].id) => i = j
    BY <1>1, <2>5, <2>6, <2>7, SMTT(30) DEF OnceIn
  <2>9. \A i \in DOMAIN v, j \in DOMAIN d : v[i].type = "data" => v[i].id # d[j].id
    BY <1>1, <2>5, <2>6, SMTT(30) DEF OnceIn
  <2>10. OnceIn(v, d)
    BY <1>1, <2>8, <2>9 DEF OnceIn
  <2> QED BY <1>1, <2>1, <2>10
<1> QED BY <1>3, <1>5, <1>6, <1>7 DEF ReceiverStep, Listens, KeepsMessages, Expires

-----------------------------------------------------------------------------
(* A step of the transport is a step of one side *)

\* A step of the sending side other than the start of a send call.
LEMMA FateStep ==
    ASSUME IndInv, HistoryOK, Origin, FailuresFit, NEW p \in Peers, SenderStep(p),
           \A m \in accepted' : ~Starts(p, m), Placed(queues[p])
    PROVE  /\ Placed(queues'[p])
           /\ \E id \in MessageId :
                  FateMoves(in_flight[p], sending[p], queues[p], reported[p],
                            in_flight'[p], sending'[p], queues'[p], reported'[p], id)
<1> DEFINE t == in_flight[p]
           c == sending[p]
           s == queues[p]
           R == reported[p]
           Goal == /\ Placed(queues'[p])
                   /\ \E id \in MessageId :
                          FateMoves(t, c, s, R, in_flight'[p], sending'[p], queues'[p],
                                    reported'[p], id)
<1>1. /\ s \in SchedulerType /\ t \in TableType /\ c \in SendCall \cup {NoCall} /\ UniqueKeys(t)
      /\ next_id[p] \in MessageId /\ Placed(s)
  BY DEF IndInv, SenderOK, SenderInv, NumbersOK
<1>2. \A j \in Occupied(t) : t[j].key = KeyOf(t[j].packet)
  BY DEF Origin, TableValid, RecordValid
<1>s. t = in_flight[p] /\ c = sending[p] /\ s = queues[p] /\ R = reported[p]
  OBVIOUS
<1> SUFFICES Goal
  OBVIOUS
<1>3. ASSUME NEW id \in MessageId, Placed(queues'[p]),
             FateMoves(t, c, s, R, in_flight'[p], sending'[p], queues'[p], reported'[p], id)
      PROVE  Goal
  BY <1>3
<1> HIDE DEF t, c, s, R, Goal
<1>4. ASSUME \A z : InHand(in_flight'[p], sending'[p], z) <=> InHand(t, c, z),
             \A z : Known(queues'[p], reported'[p], z) <=> Known(s, R, z), Placed(queues'[p])
      PROVE  Goal
  BY <1>1, <1>3, <1>4 DEF FateMoves
<1>5. CASE Rests(p)
  BY <1>1, <1>4, <1>5, <1>s DEF Rests
<1>6. CASE Splits(p)
  <2>1. /\ c \in SendCall /\ c # NoCall /\ queues'[p] = push(s, NextWrite(c)) /\ reported'[p] = R
        /\ in_flight'[p] = TableAfter(t, c) /\ sending'[p] = CallAfter(c)
    BY <1>1, <1>6, <1>s DEF Splits
  <2>2. NextWrite(c) \in EngineOutput /\ NextWrite(c).kind = "write" /\ c.id \in MessageId
    BY <2>1, RoundType DEF NextWrite, Write, SendCall
  <2>3. c.type = "data" => ~TrackFails(t, NextRecord(c).key)
    <3>1. SenderInv(s, t, in_flight_len[p], c, NoCall)
      BY <1>s, <2>1, SenderAt DEF IndInv
    <3> QED BY <2>1, <3>1, RoomSuffices
  <2>4. /\ \A z : z # c.id => (InHand(TableAfter(t, c), CallAfter(c), z) <=> InHand(t, c, z))
        /\ InHand(t, c, c.id)
    BY <1>1, <1>2, <2>1, <2>3, SplitHand
  <2>5. /\ Placed(queues'[p])
        /\ \A z : Known(queues'[p], reported'[p], z) <=> Known(s, R, z)
    <3> DEFINE w == NextWrite(c)
    <3> HIDE DEF w
    <3>1. Placed(push(s, w)) /\ \A Q, z : Known(push(s, w), Q, z) <=> Known(s, Q, z)
      BY <1>1, <2>2, PushWriteFailures DEF w
    <3> QED BY <2>1, <3>1 DEF w
  <2>6. FateMoves(t, c, s, R, in_flight'[p], sending'[p], queues'[p], reported'[p], c.id)
    BY <2>1, <2>4, <2>5 DEF FateMoves
  <2> QED BY <1>3, <2>2, <2>5, <2>6
<1>7. ASSUME NEW e \in EngineOutput, Greets(p, e)
      PROVE  Goal
  BY <1>1, <1>4, <1>7, <1>s, PushWriteFailures, SMTT(30) DEF Greets
<1>8. ASSUME NEW j \in DOMAIN wire[Other(p)], Hears(p, wire[Other(p)][j])
      PROVE  Goal
  <2> DEFINE a == wire[Other(p)][j]
             u == apply_ack(t, KeyOf(a))
  <2>1. /\ c = NoCall /\ sending'[p] = c /\ in_flight'[p] = u /\ queues'[p] = s /\ reported'[p] = R
        /\ a.type = "ack"
    BY <1>8, <1>s DEF Hears
  <2>2. a.id \in MessageId
    <3>1. a \in Packet
      BY OtherPeer, SMTT(30) DEF HistoryOK
    <3> QED BY <2>1, <3>1, SMTT(30) DEF Packet, Fragment, MessageTypes, AckPacket, Ping, Pong
  <2>3. Occupied(u) \subseteq Occupied(t) /\ \A i \in Occupied(u) : u[i] = t[i]
    BY <1>1, AckShrinks DEF Shrinks
  <2>4. ASSUME NEW z, z # a.id, NEW i \in Occupied(t), t[i].packet.id = z
        PROVE  \E k \in Occupied(u) : u[k].packet.id = z
    <3>1. t[i].key # KeyOf(a)
      <4>1. t[i].key = <<t[i].packet.id, t[i].packet.index>> /\ KeyOf(a) = <<a.id, a.index>>
        BY <1>2, <2>4 DEF KeyOf
      <4> QED BY <2>4, <4>1, SMTT(30)
    <3>2. HoldsKey(t, t[i].key)
      BY <2>4 DEF HoldsKey, Occupied
    <3>3. HoldsKey(u, t[i].key)
      BY <1>1, <3>1, <3>2, AckKeepsOthers
    <3>4. PICK k \in Occupied(u) : u[k].key = t[i].key
      BY <3>3 DEF HoldsKey, Occupied
    <3>5. u[k].key = <<u[k].packet.id, u[k].packet.index>>
          /\ t[i].key = <<t[i].packet.id, t[i].packet.index>>
      BY <1>2, <2>3, <2>4, <3>4 DEF KeyOf
    <3>6. u[k].packet.id = t[i].packet.id
      <4> HIDE DEF u
      <4>1. <<u[k].packet.id, u[k].packet.index>> = <<t[i].packet.id, t[i].packet.index>>
        BY <3>4, <3>5
      <4> QED BY <4>1
    <3> QED BY <2>4, <3>6
  <2> HIDE DEF u, a
  <2>5. FateMoves(t, c, s, R, in_flight'[p], sending'[p], queues'[p], reported'[p], a.id)
    BY <2>1, <2>3, <2>4 DEF FateMoves, InHand
  <2> QED BY <1>1, <1>3, <2>1, <2>2, <2>5
<1>9. ASSUME NEW delta \in Nat, Ages(p, delta)
      PROVE  Goal
  <2>1. \A z : InHand(Aged(t, delta), c, z) <=> InHand(t, c, z)
    <3> DEFINE u == Aged(t, delta)
    <3>1. Occupied(u) = Occupied(t) /\ \A j \in Occupied(t) : u[j].packet = t[j].packet
      BY <1>1, AgedTable
    <3> HIDE DEF u
    <3>2. \A z : InHand(u, c, z) <=> InHand(t, c, z)
      BY <3>1, SameHand
    <3> QED BY <3>2 DEF u
  <2> QED BY <1>1, <1>4, <1>9, <1>s, <2>1 DEF Ages
<1>10. ASSUME NEW i \in Slots, Fails(p, i)
       PROVE  Goal
  <2> DEFINE id == t[i].packet.id
             u == remove_message(t, id)
  <2>1. /\ i \in Occupied(t) /\ t[i] \in InFlightPacket /\ i \in ticking[p].failed
        /\ ticking[p] # NoCall /\ queues'[p] = push(s, SendFailed(id)) /\ c = NoCall
        /\ in_flight'[p] = u /\ sending'[p] = c /\ reported'[p] = R
    BY <1>1, <1>10, <1>s, OccupiedType DEF Fails
  <2>2. id \in MessageId
    BY <2>1 DEF InFlightPacket, Fragment
  <2>3. SchedulerLen(s) # MAX_EVENTS
    <3>1. SchedulerLen(s) < MAX_EVENTS
      BY <1>s, <2>1 DEF FailuresFit
    <3>2. \A x, y \in Nat : x < y => x # y
      BY SMTT(30)
    <3>3. SchedulerLen(s) \in Nat /\ MAX_EVENTS \in Nat
      BY <1>1, SchedulerLenType, SchedulerAssumption
    <3> HIDE DEF SchedulerLen
    <3> QED BY <3>1, <3>2, <3>3
  <2>4. /\ Placed(queues'[p]) /\ Known(queues'[p], R, id)
        /\ \A z : z # id => (Known(queues'[p], R, z) <=> Known(s, R, z))
    <3> DEFINE v == push(s, SendFailed(id))
    <3>1. /\ Placed(v) /\ \A Q : Known(v, Q, id)
          /\ \A Q, z : z # id => (Known(v, Q, z) <=> Known(s, Q, z))
      BY <1>1, <2>2, <2>3, PushFailureFailures
    <3> HIDE DEF v
    <3>2. queues'[p] = v
      BY <2>1 DEF v
    <3> QED BY <3>1, <3>2
  <2>5. /\ Occupied(u) = Occupied(t) \ SlotsOfMessage(t, id)
        /\ \A j \in Occupied(u) : u[j] = t[j]
    BY <1>1, RemoveShrinks DEF Shrinks
  <2> HIDE DEF u, id
  <2>6. \A j \in Occupied(t) : j \in SlotsOfMessage(t, id) <=> t[j].packet.id = id
    BY DEF SlotsOfMessage, Occupied
  <2>7. FateMoves(t, c, s, R, in_flight'[p], sending'[p], queues'[p], reported'[p], id)
    <3>1. InHand(t, c, id)
      BY <2>1 DEF InHand, id
    <3>2. ~InHand(u, c, id) /\ \A z : z # id => (InHand(u, c, z) <=> InHand(t, c, z))
      BY <2>1, <2>5, <2>6, SMTT(30) DEF InHand
    <3> QED BY <2>1, <2>4, <3>1, <3>2 DEF FateMoves
  <2> QED BY <1>3, <2>2, <2>4, <2>7
<1>11. ASSUME NEW i \in Slots, Retries(p, i)
       PROVE  Goal
  <2> DEFINE e == Write(t[i].key, t[i].packet, t[i].attempts + 1, "retransmit")
  <2>1. /\ t[i] \in InFlightPacket /\ queues'[p] = push(s, e) /\ reported'[p] = R
        /\ in_flight'[p] = t /\ sending'[p] = c
    BY <1>1, <1>11, <1>s, OccupiedType DEF Retries
  <2>2. t[i].key \in PacketKey /\ t[i].packet \in Packet /\ t[i].attempts + 1 \in Nat
    BY <2>1, SMTT(30) DEF InFlightPacket, Packet
  <2>3. e \in EngineOutput /\ e.kind = "write"
    BY <2>2, EventType DEF WritePriority, Write
  <2> HIDE DEF e
  <2> QED BY <1>1, <1>4, <2>1, <2>3, PushWriteFailures, SMTT(30)
<1>12. ASSUME NEW k \in QueueKind, Emits(p, k)
       PROVE  Goal
  <2> DEFINE e == Head(s[k])
  <2>1. /\ s[k] # <<>> /\ queues'[p] = pop(s, k) /\ in_flight'[p] = Noted(t, e, TRUE)
        /\ sending'[p] = c
        /\ \/ e.kind = "write" /\ reported'[p] = R
           \/ e.kind = "send_failed" /\ reported'[p] = R \cup {e.id}
    BY <1>12, <1>s DEF Emits
  <2>2. /\ Placed(queues'[p])
        /\ \A z : Known(queues'[p], reported'[p], z) <=> Known(s, R, z)
    <3>1. Placed(pop(s, k)) /\ \A z : Known(pop(s, k), reported'[p], z) <=> Known(s, R, z)
      BY <1>1, <2>1, PopFailures
    <3> QED BY <2>1, <3>1
  <2> HIDE DEF e
  <2>3. \A z : InHand(in_flight'[p], sending'[p], z) <=> InHand(t, c, z)
    <3> DEFINE u == Noted(t, e, TRUE)
    <3>1. Occupied(u) = Occupied(t) /\ \A j \in Occupied(t) : u[j].packet = t[j].packet
      BY <1>1, NotedPackets
    <3> HIDE DEF u
    <3>2. \A z : InHand(u, c, z) <=> InHand(t, c, z)
      BY <3>1, SameHand
    <3> QED BY <2>1, <3>2 DEF u
  <2> QED BY <1>4, <2>2, <2>3
<1> QED BY <1>5, <1>6, <1>7, <1>8, <1>9, <1>10, <1>11, <1>12 DEF SenderStep

\* The id a send call draws is of no message accepted before.
LEMMA FreshId ==
    ASSUME Base, Numbered, NEW p \in Peers, NEW type, NEW len, AppSend(p, type, len),
           NEW n \in accepted, n.from = p
    PROVE  n.id # next_id'[p]
<1>1. MAX_SENDS \in Nat /\ calls \in Nat /\ calls < MAX_SENDS
      /\ next_id' = [next_id EXCEPT ![p] = alloc_message_id(@)]
  BY TransportAssumption, SMTT(30) DEF Base, HistoryOK, AppSend, Send, SendRefused
<1>2. PICK k \in 0 .. calls : Drawn(accepted, next_id[p], p, k)
  BY DEF Numbered
<1>3. k \in Nat /\ k + 1 \in 1 .. MAX_SENDS /\ k + 1 \in 0 .. MAX_SENDS /\ (k + 1) - 1 = k
  BY <1>1, SMTT(30)
<1>4. next_id'[p] = Ids(p)[k + 1]
  <2>1. next_id'[p] = alloc_message_id(next_id[p])
    BY <1>1 DEF Base, IndInv, NumbersOK
  <2>2. Ids(p)[k + 1] = alloc_message_id(Ids(p)[(k + 1) - 1])
    BY <1>3, IdsDiffer
  <2>3. next_id[p] = Ids(p)[k]
    BY <1>2 DEF Drawn
  <2> HIDE DEF Ids, alloc_message_id
  <2> QED BY <1>3, <2>1, <2>2, <2>3
<1>5. PICK j \in 1 .. k : n.id = Ids(p)[j]
  BY <1>2 DEF Drawn
<1>6. j \in 0 .. MAX_SENDS /\ j # k + 1
  BY <1>1, <1>3, SMTT(30)
<1> QED BY <1>3, <1>4, <1>5, <1>6, IdsDiffer, SMTT(30)

\* p's sending side may move, and no send call begins.
SenderMoves(p) ==
    /\ UNCHANGED <<accepted, seen, delivered>>
    /\ SenderStep(p) /\ \A m \in accepted' : ~Starts(p, m)
    /\ \A q \in Peers : q # p => Rests(q)

\* The other side accepts a Data packet of p.
PacketSeen(p) ==
    /\ UNCHANGED <<accepted, delivered>>
    /\ \A q \in Peers : Rests(q)
    /\ \E j \in DOMAIN wire[p] :
           /\ wire[p][j].type = "data"
           /\ seen' = [seen EXCEPT ![Other(p)] = @ \cup {KeyOf(wire[p][j])}]

\* A poll of p returns a Data message.
DataTaken(p) ==
    /\ UNCHANGED <<accepted, seen>>
    /\ \A q \in Peers : Rests(q)
    /\ messages[p] # <<>> /\ Head(messages[p]).type = "data"
    /\ delivered' = [delivered EXCEPT ![p] = Append(@, Head(messages[p]))]

\* A step accepts a message, or is one of these for one of the sides.
LEMMA OneSide ==
    ASSUME Base, Numbered, [TransportNext]_allVars
    PROVE  \/ \E m \in accepted' : m \notin accepted
           \/ \E p \in Peers : SenderMoves(p) \/ PacketSeen(p) \/ DataTaken(p)
<1> DEFINE Goal == \/ \E m \in accepted' : m \notin accepted
                   \/ \E p \in Peers : SenderMoves(p) \/ PacketSeen(p) \/ DataTaken(p)
<1> SUFFICES Goal
  OBVIOUS
<1>0. /\ queues \in [Peers -> SchedulerType] /\ in_flight \in [Peers -> TableType]
      /\ sending \in [Peers -> SendCall \cup {NoCall}] /\ reported \in [Peers -> SUBSET MessageId]
      /\ accepted \subseteq Message
  BY DEF Base, IndInv, SenderOK, HistoryOK
<1>1. ASSUME NEW p \in Peers, UNCHANGED <<accepted, seen, delivered>>,
             sending[p] # NoCall \/ sending'[p] = NoCall,
             \A q \in Peers : q # p => Rests(q)
      PROVE  Goal
  <2>1. SenderStep(p)
    BY SenderCases DEF Base
  <2>2. ASSUME NEW m \in accepted, Starts(p, m)
        PROVE  FALSE
    <3>1. m \in Message
      BY <1>0
    <3>2. sending'[p] \in SendCall
      BY <2>2, <3>1, SMTT(30) DEF Starts, SendCall, Message
    <3> QED BY <1>1, <2>2, <3>2, CallAssumption DEF Starts
  <2> QED BY <1>1, <2>1, <2>2 DEF SenderMoves
<1>2. PICK p \in Peers : TRUE
  BY TransportAssumption
<1>3. CASE UNCHANGED <<accepted, seen, delivered, queues, in_flight, sending, reported>>
  <2>1. SenderMoves(p)
    <3>1. \A q \in Peers : Rests(q)
      BY <1>3 DEF Rests
    <3>2. ASSUME NEW m \in accepted, Starts(p, m)
          PROVE  FALSE
      <4>1. m \in Message
        BY <1>0
      <4>2. sending'[p] \in SendCall
        BY <3>2, <4>1, SMTT(30) DEF Starts, SendCall, Message
      <4> QED BY <1>3, <3>2, <4>2, CallAssumption DEF Starts
    <3> QED BY <1>3, <3>1, <3>2 DEF SenderMoves, SenderStep
  <2> QED BY <2>1
<1>4. ASSUME NEW q \in Peers, NEW type \in SendTypes, NEW len \in Lengths, AppSend(q, type, len)
      PROVE  Goal
  <2>1. CASE SendRefused(q, type, len) /\ UNCHANGED accepted
    BY <1>3, <1>4, <2>1 DEF AppSend, SendRefused, callVars
  <2>2. CASE accepted' = accepted \cup {[from |-> q, type |-> type, id |-> next_id'[q],
                                         len |-> len, body |-> calls']}
    <3> DEFINE m == [from |-> q, type |-> type, id |-> next_id'[q], len |-> len, body |-> calls']
    <3>1. m.from = q /\ m.id = next_id'[q] /\ m \in accepted'
      BY <2>2
    <3> HIDE DEF m
    <3>2. m \notin accepted
      BY <1>4, <3>1, FreshId
    <3> QED BY <3>1, <3>2
  <2> QED BY <1>4, <2>1, <2>2 DEF AppSend
<1>5. ASSUME NEW q \in Peers, AppPing(q) \/ (\E delta \in Deltas : AppPoll(q, delta)) \/ Quiet(q)
                              \/ OutputAck(q) \/ OutputWrite(q) \/ OutputSendFailed(q)
      PROVE  Goal
  <2>1. UNCHANGED <<accepted, seen, delivered>>
    BY <1>5
    DEF AppPing, AppPoll, Quiet, OutputAck, OutputWrite, OutputSendFailed, historyVars
  <2>2. sending[q] # NoCall \/ sending'[q] = NoCall
    BY <1>5
    DEF AppPing, SendPing, AppPoll, Poll, Quiet, SendFragment, TickFail, TickRetransmit,
       PollIdle, OutputAck, PollAck, OutputWrite, OutputSendFailed, PollUrgent, PollNewData,
       PollEvent, callVars
  <2>3. ASSUME NEW r \in Peers, r # q
        PROVE  Rests(r)
    <3>1. reported'[r] = reported[r]
      BY <1>0, <1>5, <2>3
      DEF AppPing, AppPoll, Quiet, OutputAck, OutputWrite, OutputSendFailed,
         historyVars
    <3>2. sending'[r] = sending[r]
      BY <1>0, <1>5, <2>3
      DEF AppPing, SendPing, AppPoll, Poll, Quiet, SendFragment, TickFail,
         TickRetransmit, PollIdle, OutputAck, PollAck, OutputWrite, OutputSendFailed, PollUrgent,
         PollNewData, PollEvent, callVars
    <3>3. queues'[r] = queues[r] /\ in_flight'[r] = in_flight[r]
      BY <1>0, <1>5, <2>3
      DEF AppPing, SendPing, AppPoll, Poll, Quiet, SendFragment, TickFail,
         TickRetransmit, PollIdle, OutputAck, PollAck, OutputWrite, OutputSendFailed, PollUrgent,
         PollNewData, PollEvent, sendVars
    <3> QED BY <3>1, <3>2, <3>3 DEF Rests
  <2> QED BY <1>1, <2>1, <2>2, <2>3
<1>6. ASSUME NEW q \in Peers, OutputMessage(q)
      PROVE  Goal
  <2>1. /\ UNCHANGED <<accepted, seen, reported, queues, in_flight, sending>> /\ messages[q] # <<>>
        /\ delivered' = IF Head(messages[q]).type = "data"
                        THEN [delivered EXCEPT ![q] = Append(@, Head(messages[q]))]
                        ELSE delivered
    BY <1>6 DEF OutputMessage, PollMessage, sendVars
  <2>2. CASE Head(messages[q]).type = "data"
    BY <2>1, <2>2 DEF DataTaken, Rests
  <2>3. CASE Head(messages[q]).type # "data"
    BY <1>3, <2>1, <2>3
  <2> QED BY <2>2, <2>3
<1>7. ASSUME NEW q \in Peers, NEW i \in Arrivals(q), Deliver(q, i)
      PROVE  Goal
  <2> DEFINE f == wire[q][i]
             r == Other(q)
  <2>1. /\ r \in Peers /\ i \in DOMAIN wire[q] /\ UNCHANGED <<accepted, delivered, reported>>
        /\ seen' = IF f.type = "data" /\ ~Ignored(r, f)
                   THEN [seen EXCEPT ![r] = @ \cup {KeyOf(f)}]
                   ELSE seen
        /\ Receive(r, f) \/ (Ignored(r, f) /\ UNCHANGED vars)
    <3>1. r \in Peers
      BY OtherPeer
    <3>2. wire[q] \in Seq(Packet) /\ i \in 1 .. Len(wire[q])
      BY <1>7 DEF Base, HistoryOK, Arrivals
    <3>3. i \in DOMAIN wire[q]
      BY <3>2, SMTT(30)
    <3> QED BY <1>7, <3>1, <3>3 DEF Deliver
  <2> HIDE DEF f, r
  <2>2. CASE UNCHANGED <<queues, in_flight, sending>>
    <3>1. CASE f.type = "data" /\ ~Ignored(r, f)
      BY <2>1, <2>2, <3>1 DEF PacketSeen, Rests, f, r
    <3>2. CASE ~(f.type = "data" /\ ~Ignored(r, f))
      BY <1>3, <2>1, <2>2, <3>2
    <3> QED BY <3>1, <3>2
  <2>3. CASE ReceiveAck(r, f) \/ ReceivePing(r, f)
    <3>1. seen' = seen /\ sending' = sending /\ sending[r] = NoCall
      BY <2>1, <2>3 DEF ReceiveAck, ReceivePing, callVars, Idle
    <3>2. \A l \in Peers : l # r => Rests(l)
      BY <1>0, <2>1, <2>3, <3>1 DEF ReceiveAck, ReceivePing, Rests
    <3> QED BY <1>1, <2>1, <3>1, <3>2
  <2> QED BY <2>1, <2>2, <2>3 DEF Receive, ReceiveDuplicate, ReceiveData, ReceiveLog, vars,
      sendVars, callVars
<1>8. ASSUME NEW q \in Peers, NEW i \in Arrivals(q), Lose(q, i)
      PROVE  Goal
  BY <1>3, <1>8 DEF Lose, vars, sendVars, callVars, historyVars
<1>9. CASE UNCHANGED allVars
  BY <1>3, <1>9 DEF allVars, vars, sendVars, callVars, historyVars
<1> HIDE DEF Goal
<1> QED BY <1>4, <1>5, <1>6, <1>7, <1>8, <1>9, ZenonT(30) DEF TransportNext, Outputs

-----------------------------------------------------------------------------
(* A message is delivered or has failed, never both *)

\* What the sender p has become of the messages A it accepted: one whose failure
\* is known is a message of A, and p has nothing more of it in hand.
FateOf(A, p, t, c, s, R) ==
    /\ Placed(s)
    /\ \A id \in MessageId : Known(s, R, id) =>
           ~InHand(t, c, id) /\ \E m \in A : m.from = p /\ m.id = id

\* Every key of S is of a message of p in A.
KeysOf(A, S, p) == \A k \in S : \E m \in A : m.from = p /\ m.id = k[1]

Fates ==
    \A p \in Peers :
        /\ FateOf(accepted, p, in_flight[p], sending[p], queues[p], reported[p])
        /\ KeysOf(accepted, seen[p], Other(p))

\* A message that send accepts has an id of its own.
LEMMA NewId ==
    ASSUME Base, Numbered, [TransportNext]_allVars, NEW m \in accepted', m \notin accepted,
           NEW n \in accepted, n.from = m.from
    PROVE  n.id # m.id
<1>1. accepted' = accepted \cup {m}
  BY NewMessage DEF Base
<1>2. OneMessagePerId(accepted)'
  BY HistoryKept, NumberedKept DEF Base, Numbered
<1>3. n \in accepted' /\ n # m
  BY <1>1
<1> QED BY <1>2, <1>3 DEF OneMessagePerId

\* What a sender has in hand is of a message it accepted.
LEMMA InHandIsSent ==
    ASSUME Base, NEW p \in Peers, NEW id, InHand(in_flight[p], sending[p], id)
    PROVE  \E m \in accepted : m.from = p /\ m.id = id
<1>1. TableValid(accepted, p, in_flight[p]) /\ CallValid(accepted, p, sending[p])
  BY DEF Base, Origin
<1> QED BY <1>1 DEF InHand, TableValid, CallValid, RecordValid, Sent, FragmentOf, CallOf

\* Every step keeps the fates.
LEMMA FatesKept ==
    ASSUME Base, Numbered, FailuresFit, Fates, [TransportNext]_allVars
    PROVE  Fates'
<1>0. \A q \in Peers : Other(q) \in Peers
  BY OtherPeer
<1>1. ASSUME NEW m \in accepted', m \notin accepted
      PROVE  Fates'
  <2>1. /\ m.from \in Peers /\ Starts(m.from, m) /\ accepted' = accepted \cup {m}
        /\ UNCHANGED <<seen, reported, queues, in_flight>>
        /\ \A p \in Peers : p # m.from => sending'[p] = sending[p]
    BY <1>1, NewMessage DEF Base
  <2>2. ASSUME NEW p \in Peers
        PROVE  FateOf(accepted', p, in_flight[p], sending'[p], queues[p], reported[p])
    <3>1. FateOf(accepted, p, in_flight[p], sending[p], queues[p], reported[p])
      BY DEF Fates
    <3>2. CASE p # m.from
      BY <2>1, <3>1, <3>2 DEF FateOf
    <3>3. CASE p = m.from
      <4>1. sending[p] = NoCall /\ sending'[p].id = m.id
        BY <2>1, <3>3, SMTT(30) DEF Starts
      <4>2. ASSUME NEW id \in MessageId, Known(queues[p], reported[p], id)
            PROVE  ~InHand(in_flight[p], sending'[p], id)
        <5>1. id # m.id
          BY <1>1, <3>1, <3>3, <4>2, NewId DEF FateOf
        <5>2. ~InHand(in_flight[p], sending[p], id)
          BY <3>1, <4>2 DEF FateOf
        <5> QED BY <4>1, <5>1, <5>2 DEF InHand
      <4> QED BY <2>1, <3>1, <4>2 DEF FateOf
    <3> QED BY <3>2, <3>3
  <2>3. ASSUME NEW p \in Peers
        PROVE  KeysOf(accepted', seen[p], Other(p))
    BY <2>1 DEF Fates, KeysOf
  <2> QED BY <2>1, <2>2, <2>3 DEF Fates
<1>2. ASSUME NEW p \in Peers, SenderMoves(p)
      PROVE  Fates'
  <2>1. Placed(queues[p])
    BY DEF Fates, FateOf
  <2>2. Placed(queues'[p])
    BY <1>2, <2>1, FateStep DEF Base, SenderMoves
  <2>3. PICK id \in MessageId : FateMoves(in_flight[p], sending[p], queues[p], reported[p],
                                          in_flight'[p], sending'[p], queues'[p], reported'[p], id)
    BY <1>2, <2>1, FateStep DEF Base, SenderMoves
  <2>4. FateOf(accepted, p, in_flight[p], sending[p], queues[p], reported[p])
    BY DEF Fates
  <2>5. InHand(in_flight[p], sending[p], id) => \E m \in accepted : m.from = p /\ m.id = id
    BY InHandIsSent, ZenonT(30)
  <2>6. FateOf(accepted, p, in_flight'[p], sending'[p], queues'[p], reported'[p])
    <3> HIDE DEF InHand, Known
    <3> QED BY <2>2, <2>3, <2>4, <2>5 DEF FateOf, FateMoves
  <2> QED BY <1>2, <2>6 DEF Fates, SenderMoves, Rests
<1>3. ASSUME NEW p \in Peers, PacketSeen(p)
      PROVE  Fates'
  <2>1. PICK j \in DOMAIN wire[p] :
            /\ wire[p][j].type = "data"
            /\ seen' = [seen EXCEPT ![Other(p)] = @ \cup {KeyOf(wire[p][j])}]
    BY <1>3 DEF PacketSeen
  <2>2. PICK m \in accepted : m.from = p /\ m.id = KeyOf(wire[p][j])[1]
    BY <2>1, ZenonT(30)
    DEF Base, Origin, WireValid, Valid, Sent, FragmentOf, KeyOf, MessageTypes
  <2>3. Other(Other(p)) = p /\ seen \in [Peers -> SUBSET PacketKey]
    BY OtherPeer DEF Base, HistoryOK
  <2>4. ASSUME NEW q \in Peers
        PROVE  KeysOf(accepted, seen'[q], Other(q))
    BY <1>0, <2>1, <2>2, <2>3, ZenonT(30) DEF Fates, KeysOf
  <2> QED BY <1>3, <2>4 DEF Fates, PacketSeen, Rests
<1>4. ASSUME NEW p \in Peers, DataTaken(p)
      PROVE  Fates'
  BY <1>4 DEF Fates, DataTaken, Rests
<1> QED BY <1>1, <1>2, <1>3, <1>4, OneSide
=============================================================================
