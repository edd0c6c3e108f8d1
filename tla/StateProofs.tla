---------------------------- MODULE StateProofs -----------------------------
(***************************************************************************)
(* What the operations on an engine's state do, for all values of the      *)
(* constants: push and pop of the scheduler, the operations of the         *)
(* in-flight table, observe and expire of the reassembly slots, the        *)
(* fragments of a message. Lemmas for EngineProofs and PeerProofs.         *)
(***************************************************************************)
EXTENDS EngineInv, FiniteSetTheorems, TLAPS

\* A leaf is left to Zenon unless it names another prover.
USE Zenon

(* The scheduler *)

\* Every set of natural numbers that is not empty has a least element: the
\* first match of the code's linear searches exists when there is a match.
LEMMA LeastElement ==
    ASSUME NEW S \in SUBSET Nat, S # {}
    PROVE  \E i \in S : \A j \in S : i <= j
<1>1. PICK i \in S : \A j \in S : <<j, i>> \notin OpToRel(<, Nat)
  BY WFMin, NatLessThanWellFounded
<1>2. \A j \in S : ~(j < i)
  BY <1>1 DEF OpToRel
<1> QED BY <1>2, SMTT(30)

\* The length of a scheduler is a natural number, and one queue is no longer
\* than the whole.
LEMMA SchedulerLenType ==
    ASSUME NEW s \in SchedulerType
    PROVE  /\ SchedulerLen(s) \in Nat
           /\ \A k \in QueueKind : Len(s[k]) \in Nat /\ DOMAIN s[k] = 1 .. Len(s[k])
<1>1. \A k \in QueueKind : s[k] \in Seq(EngineOutput)
  BY DEF SchedulerType
<1>2. \A k \in QueueKind : Len(s[k]) \in Nat /\ DOMAIN s[k] = 1 .. Len(s[k])
  BY <1>1, SMTT(30)
<1>3. /\ Len(s["control"]) \in Nat /\ Len(s["retransmit"]) \in Nat
      /\ Len(s["new_data"]) \in Nat /\ Len(s["local"]) \in Nat
  BY <1>2 DEF QueueKind
<1>4. SchedulerLen(s) \in Nat
  <2>1. \A a, b, c, d \in Nat : a + b + c + d \in Nat
    BY SMTT(30)
  <2> QED BY <1>3, <2>1 DEF SchedulerLen
<1> QED BY <1>2, <1>4

\* When push finds a redundant write, the write it replaces exists and has the key.
LEMMA RedundantWrite ==
    ASSUME NEW s \in SchedulerType, NEW e \in EngineOutput, IsRedundant(s, e)
    PROVE  LET k == QueueOf(s, e.key)
               i == FirstWrite(s[k], e.key)
           IN  /\ k \in QueueKind
               /\ i \in DOMAIN s[k]
               /\ IsWriteOf(s[k][i], e.key)
<1> DEFINE k == QueueOf(s, e.key)
<1> DEFINE M == {j \in DOMAIN s[k] : IsWriteOf(s[k][j], e.key)}
<1>1. k \in QueueKind /\ HoldsWrite(s[k], e.key)
  BY DEF IsRedundant, QueueOf, QueueKind
<1>2. M # {} /\ M \in SUBSET Nat
  <2>1. DOMAIN s[k] = 1 .. Len(s[k]) /\ Len(s[k]) \in Nat
    BY <1>1, SchedulerLenType
  <2> QED BY <1>1, <2>1, SMTT(30) DEF HoldsWrite
<1>3. PICK i \in M : \A j \in M : i <= j
  BY <1>2, LeastElement
<1>4. \E j \in DOMAIN s[k] : /\ IsWriteOf(s[k][j], e.key)
                             /\ \A l \in DOMAIN s[k] : l < j => ~IsWriteOf(s[k][l], e.key)
  <2>1. ASSUME NEW l \in DOMAIN s[k], l < i PROVE ~IsWriteOf(s[k][l], e.key)
    <3>1. SUFFICES ASSUME l \in M PROVE FALSE
      OBVIOUS
    <3>2. i <= l /\ i \in Nat /\ l \in Nat
      BY <1>2, <1>3, <3>1
    <3> QED BY <2>1, <3>2, SMTT(30)
  <2> QED BY <1>3, <2>1
<1>5. /\ FirstWrite(s[k], e.key) \in DOMAIN s[k]
      /\ IsWriteOf(s[k][FirstWrite(s[k], e.key)], e.key)
  BY <1>4 DEF FirstWrite
<1> QED BY <1>1, <1>5

\* The length of a scheduler depends on the lengths of its queues only.
LEMMA SameLengths ==
    ASSUME NEW s, NEW u, \A k \in QueueKind : Len(u[k]) = Len(s[k])
    PROVE  SchedulerLen(u) = SchedulerLen(s)
BY DEF SchedulerLen, QueueKind

\* One queue longer or shorter by one makes the scheduler so.
LEMMA OneMore ==
    ASSUME NEW s \in SchedulerType, NEW u \in SchedulerType, NEW k \in QueueKind,
           Len(u[k]) = Len(s[k]) + 1,
           \A l \in QueueKind \ {k} : u[l] = s[l]
    PROVE  SchedulerLen(u) = SchedulerLen(s) + 1
<1>1. /\ Len(s["control"]) \in Nat /\ Len(s["retransmit"]) \in Nat
      /\ Len(s["new_data"]) \in Nat /\ Len(s["local"]) \in Nat
  <2>1. \A l \in QueueKind : Len(s[l]) \in Nat
    BY SchedulerLenType
  <2> QED BY <2>1 DEF QueueKind
<1>2. PICK a \in Nat, b \in Nat, c \in Nat, d \in Nat :
          /\ a = Len(s["control"]) /\ b = Len(s["retransmit"])
          /\ c = Len(s["new_data"]) /\ d = Len(s["local"])
  BY <1>1
<1>3. SchedulerLen(s) = a + b + c + d
  BY <1>2 DEF SchedulerLen
<1>4. CASE k = "control"
  <2>1. /\ Len(u["control"]) = a + 1
        /\ u["retransmit"] = s["retransmit"] /\ u["new_data"] = s["new_data"] /\ u["local"] = s["local"]
    BY <1>2, <1>4 DEF QueueKind
  <2>2. SchedulerLen(u) = (a + 1) + b + c + d
    BY <1>2, <2>1 DEF SchedulerLen
  <2> QED BY <1>3, <2>2, SMTT(30)
<1>5. CASE k = "retransmit"
  <2>1. /\ Len(u["retransmit"]) = b + 1
        /\ u["control"] = s["control"] /\ u["new_data"] = s["new_data"] /\ u["local"] = s["local"]
    BY <1>2, <1>5 DEF QueueKind
  <2>2. SchedulerLen(u) = a + (b + 1) + c + d
    BY <1>2, <2>1 DEF SchedulerLen
  <2> QED BY <1>3, <2>2, SMTT(30)
<1>6. CASE k = "new_data"
  <2>1. /\ Len(u["new_data"]) = c + 1
        /\ u["control"] = s["control"] /\ u["retransmit"] = s["retransmit"] /\ u["local"] = s["local"]
    BY <1>2, <1>6 DEF QueueKind
  <2>2. SchedulerLen(u) = a + b + (c + 1) + d
    BY <1>2, <2>1 DEF SchedulerLen
  <2> QED BY <1>3, <2>2, SMTT(30)
<1>7. CASE k = "local"
  <2>1. /\ Len(u["local"]) = d + 1
        /\ u["control"] = s["control"] /\ u["retransmit"] = s["retransmit"] /\ u["new_data"] = s["new_data"]
    BY <1>2, <1>7 DEF QueueKind
  <2>2. SchedulerLen(u) = a + b + c + (d + 1)
    BY <1>2, <2>1 DEF SchedulerLen
  <2> QED BY <1>3, <2>2, SMTT(30)
<1> QED BY <1>4, <1>5, <1>6, <1>7 DEF QueueKind

\* A redundant write is replaced where it stands: nothing else changes.
LEMMA PushReplaces ==
    ASSUME NEW s \in SchedulerType, NEW e \in EngineOutput, IsRedundant(s, e)
    PROVE  /\ push(s, e) \in SchedulerType
           /\ SchedulerLen(push(s, e)) = SchedulerLen(s)
           /\ \E k \in QueueKind : \E i \in DOMAIN s[k] :
                  /\ IsWriteOf(s[k][i], e.key)
                  /\ \A l \in QueueKind :
                         /\ DOMAIN push(s, e)[l] = DOMAIN s[l]
                         /\ \A j \in DOMAIN s[l] :
                                push(s, e)[l][j] = IF l = k /\ j = i THEN e ELSE s[l][j]
<1> DEFINE k == QueueOf(s, e.key)
           i == FirstWrite(s[k], e.key)
           u == push(s, e)
<1>1. k \in QueueKind /\ i \in DOMAIN s[k] /\ IsWriteOf(s[k][i], e.key)
  BY RedundantWrite
<1>2. u = [s EXCEPT ![k] = [s[k] EXCEPT ![i] = e]]
  BY <1>1 DEF push, replace_redundant_write, SchedulerType
<1> HIDE DEF k, i, u
<1>3. s[k] \in Seq(EngineOutput) /\ i \in 1 .. Len(s[k])
  BY <1>1, SchedulerLenType DEF SchedulerType
<1>4. /\ [s[k] EXCEPT ![i] = e] \in Seq(EngineOutput)
      /\ Len([s[k] EXCEPT ![i] = e]) = Len(s[k])
      /\ DOMAIN [s[k] EXCEPT ![i] = e] = DOMAIN s[k]
  BY <1>3, SMTT(30)
<1>5. u \in SchedulerType
  BY <1>2, <1>4 DEF SchedulerType
<1>6. \A l \in QueueKind : u[l] = IF l = k THEN [s[k] EXCEPT ![i] = e] ELSE s[l]
  BY <1>2 DEF SchedulerType
<1>7. SchedulerLen(u) = SchedulerLen(s)
  <2>1. \A l \in QueueKind : Len(u[l]) = Len(s[l])
    BY <1>4, <1>6
  <2> QED BY <2>1, SameLengths
<1>8. ASSUME NEW l \in QueueKind
      PROVE  /\ DOMAIN u[l] = DOMAIN s[l]
             /\ \A j \in DOMAIN s[l] : u[l][j] = IF l = k /\ j = i THEN e ELSE s[l][j]
  BY <1>1, <1>4, <1>6
<1> QED BY <1>1, <1>5, <1>7, <1>8 DEF u

\* Any other event is appended to one queue, if the scheduler is not full.
LEMMA PushAppends ==
    ASSUME NEW s \in SchedulerType, NEW e \in EngineOutput,
           ~IsRedundant(s, e), SchedulerLen(s) # MAX_EVENTS
    PROVE  /\ push(s, e) \in SchedulerType
           /\ SchedulerLen(push(s, e)) = SchedulerLen(s) + 1
           /\ queue_for_event(e) \in QueueKind
           /\ \A l \in QueueKind :
                  /\ DOMAIN push(s, e)[l] =
                         IF l = queue_for_event(e) THEN 1 .. Len(s[l]) + 1 ELSE DOMAIN s[l]
                  /\ \A j \in DOMAIN s[l] : push(s, e)[l][j] = s[l][j]
                  /\ l = queue_for_event(e) => push(s, e)[l][Len(s[l]) + 1] = e
<1> DEFINE k == queue_for_event(e)
           u == push(s, e)
<1>1. k \in QueueKind
  BY
  DEF queue_for_event, EngineOutput, WriteEvent, SendFailedEvent, WritePriority, QueueKind
<1>2. u = [s EXCEPT ![k] = Append(s[k], e)]
  BY <1>1 DEF push, SchedulerType
<1> HIDE DEF k, u
<1>3. /\ Append(s[k], e) \in Seq(EngineOutput)
      /\ Len(Append(s[k], e)) = Len(s[k]) + 1
      /\ \A j \in 1 .. Len(s[k]) : Append(s[k], e)[j] = s[k][j]
      /\ Append(s[k], e)[Len(s[k]) + 1] = e
  BY <1>1, SMTT(30) DEF SchedulerType
<1>4. u \in SchedulerType /\ u[k] = Append(s[k], e) /\ \A l \in QueueKind \ {k} : u[l] = s[l]
  BY <1>1, <1>2, <1>3 DEF SchedulerType
<1>5. SchedulerLen(u) = SchedulerLen(s) + 1
  BY <1>1, <1>3, <1>4, OneMore
<1>6. DOMAIN s[k] = 1 .. Len(s[k]) /\ DOMAIN u[k] = 1 .. Len(u[k])
  BY <1>1, <1>4, SchedulerLenType
<1>7. ASSUME NEW l \in QueueKind
      PROVE  /\ DOMAIN u[l] = IF l = k THEN 1 .. Len(s[l]) + 1 ELSE DOMAIN s[l]
             /\ \A j \in DOMAIN s[l] : u[l][j] = s[l][j]
             /\ l = k => u[l][Len(s[l]) + 1] = e
  BY <1>3, <1>4, <1>6
<1> QED BY <1>1, <1>4, <1>5, <1>7 DEF u, k

\* What is queued after a push was queued before, or is the event pushed.
LEMMA PushOrigin ==
    ASSUME NEW s \in SchedulerType, NEW e \in EngineOutput,
           NEW l \in QueueKind, NEW j \in DOMAIN push(s, e)[l]
    PROVE  \/ push(s, e)[l][j] = e
           \/ j \in DOMAIN s[l] /\ push(s, e)[l][j] = s[l][j]
<1>1. CASE IsRedundant(s, e)
  BY <1>1, PushReplaces, SMTT(30)
<1>2. CASE ~IsRedundant(s, e) /\ SchedulerLen(s) = MAX_EVENTS
  BY <1>2 DEF push
<1>3. CASE ~IsRedundant(s, e) /\ SchedulerLen(s) # MAX_EVENTS
  BY <1>3, PushAppends, SchedulerLenType, SMTT(30)
<1> QED BY <1>1, <1>2, <1>3

\* push keeps the writes of a scheduler unique.
LEMMA PushUnique ==
    ASSUME NEW s \in SchedulerType, NEW e \in EngineOutput, UniqueWrites(s)
    PROVE  UniqueWrites(push(s, e))
<1> DEFINE u == push(s, e)
<1>1. CASE IsRedundant(s, e)
  <2>0. PICK k \in QueueKind : \E i \in DOMAIN s[k] :
            /\ IsWriteOf(s[k][i], e.key)
            /\ \A l \in QueueKind :
                   /\ DOMAIN push(s, e)[l] = DOMAIN s[l]
                   /\ \A j \in DOMAIN s[l] :
                          push(s, e)[l][j] = IF l = k /\ j = i THEN e ELSE s[l][j]
    BY <1>1, PushReplaces
  <2>1. PICK i \in DOMAIN s[k] :
            /\ IsWriteOf(s[k][i], e.key)
            /\ \A l \in QueueKind :
                   /\ DOMAIN u[l] = DOMAIN s[l]
                   /\ \A j \in DOMAIN s[l] : u[l][j] = IF l = k /\ j = i THEN e ELSE s[l][j]
    BY <2>0
  <2> HIDE DEF u
  <2>2. SUFFICES ASSUME NEW l \in QueueKind, NEW m \in QueueKind,
                        NEW x \in DOMAIN s[l], NEW y \in DOMAIN s[m],
                        SameWrite(u[l][x], u[m][y])
                 PROVE  l = m /\ x = y
    BY <2>1 DEF UniqueWrites, u
  <2>3. SameWrite(s[l][x], s[m][y])
    BY <1>1, <2>1, <2>2 DEF SameWrite, IsWriteOf, IsRedundant
  <2> QED BY <2>3 DEF UniqueWrites
<1>2. CASE ~IsRedundant(s, e) /\ SchedulerLen(s) = MAX_EVENTS
  BY <1>2 DEF push
<1>3. CASE ~IsRedundant(s, e) /\ SchedulerLen(s) # MAX_EVENTS
  <2> DEFINE q == queue_for_event(e)
  <2>1. /\ q \in QueueKind
        /\ \A l \in QueueKind :
               /\ DOMAIN u[l] = IF l = q THEN 1 .. Len(s[l]) + 1 ELSE DOMAIN s[l]
               /\ \A j \in DOMAIN s[l] : u[l][j] = s[l][j]
               /\ l = q => u[l][Len(s[l]) + 1] = e
    BY <1>3, PushAppends
  <2> HIDE DEF u, q
  <2>2. SUFFICES ASSUME NEW l \in QueueKind, NEW m \in QueueKind,
                        NEW x \in DOMAIN u[l], NEW y \in DOMAIN u[m],
                        SameWrite(u[l][x], u[m][y])
                 PROVE  l = m /\ x = y
    BY DEF UniqueWrites, u
  <2>3. \A k \in QueueKind : DOMAIN s[k] = 1 .. Len(s[k]) /\ Len(s[k]) \in Nat
    BY SchedulerLenType
  <2>4. \A k \in QueueKind : \A z \in DOMAIN u[k] :
            z \in DOMAIN s[k] \/ (k = q /\ z = Len(s[k]) + 1)
    BY <2>1, <2>3, SMTT(30)
  <2>5. CASE x \in DOMAIN s[l] /\ y \in DOMAIN s[m]
    BY <2>1, <2>2, <2>5, SMTT(30) DEF UniqueWrites
  <2>6. CASE x \in DOMAIN s[l] /\ y \notin DOMAIN s[m]
    <3>1. u[m][y] = e /\ u[l][x] = s[l][x]
      BY <2>1, <2>4, <2>6
    <3> QED BY <1>3, <2>2, <2>6, <3>1 DEF SameWrite, IsRedundant, HoldsWrite, IsWriteOf
  <2>7. CASE x \notin DOMAIN s[l] /\ y \in DOMAIN s[m]
    <3>1. u[l][x] = e /\ u[m][y] = s[m][y]
      BY <2>1, <2>4, <2>7
    <3> QED BY <1>3, <2>2, <2>7, <3>1 DEF SameWrite, IsRedundant, HoldsWrite, IsWriteOf
  <2>8. CASE x \notin DOMAIN s[l] /\ y \notin DOMAIN s[m]
    BY <2>4, <2>8
  <2> QED BY <2>5, <2>6, <2>7, <2>8
<1> QED BY <1>1, <1>2, <1>3

\* pop takes the head of one queue and leaves the rest in order.
LEMMA PopShifts ==
    ASSUME NEW s \in SchedulerType, NEW k \in QueueKind, s[k] # <<>>
    PROVE  /\ Head(s[k]) \in EngineOutput
           /\ 1 \in DOMAIN s[k] /\ Head(s[k]) = s[k][1]
           /\ pop(s, k) \in SchedulerType
           /\ SchedulerLen(s) = SchedulerLen(pop(s, k)) + 1
           /\ \A l \in QueueKind : \A j \in DOMAIN pop(s, k)[l] :
                  LET i == IF l = k THEN j + 1 ELSE j
                  IN  /\ i \in DOMAIN s[l] /\ j \in Nat
                      /\ pop(s, k)[l][j] = s[l][i]
           /\ \A l \in QueueKind : \A i \in DOMAIN s[l] :
                  (l # k \/ i # 1) =>
                      LET j == IF l = k THEN i - 1 ELSE i
                      IN  j \in DOMAIN pop(s, k)[l] /\ pop(s, k)[l][j] = s[l][i]
<1> DEFINE u == pop(s, k)
<1>1. s[k] \in Seq(EngineOutput)
  BY DEF SchedulerType
<1>2. u = [s EXCEPT ![k] = Tail(s[k])]
  BY DEF pop
<1> HIDE DEF u
<1>3. /\ Head(s[k]) \in EngineOutput
      /\ Tail(s[k]) \in Seq(EngineOutput)
      /\ Len(Tail(s[k])) = Len(s[k]) - 1
      /\ \A i \in 1 .. Len(Tail(s[k])) : Tail(s[k])[i] = s[k][i + 1]
  BY <1>1, SMTT(30)
<1>4. u \in SchedulerType /\ u[k] = Tail(s[k]) /\ \A l \in QueueKind \ {k} : u[l] = s[l]
  BY <1>2, <1>3 DEF SchedulerType
<1>5. \A l \in QueueKind : /\ DOMAIN s[l] = 1 .. Len(s[l]) /\ Len(s[l]) \in Nat
                           /\ DOMAIN u[l] = 1 .. Len(u[l]) /\ Len(u[l]) \in Nat
  BY <1>4, SchedulerLenType
<1>6. Len(s[k]) = Len(u[k]) + 1
  BY <1>3, <1>4, <1>5, SMTT(30)
<1>7. SchedulerLen(s) = SchedulerLen(u) + 1
  BY <1>4, <1>6, OneMore
<1>8. 1 \in DOMAIN s[k] /\ Head(s[k]) = s[k][1]
  <2>1. 1 \in DOMAIN s[k]
    BY <1>5, <1>6, SMTT(30)
  <2> QED BY <1>1, <2>1, SMTT(30)
<1>9. ASSUME NEW l \in QueueKind, NEW j \in DOMAIN u[l]
      PROVE  LET i == IF l = k THEN j + 1 ELSE j
             IN  i \in DOMAIN s[l] /\ j \in Nat /\ u[l][j] = s[l][i]
  <2>1. CASE l = k
    <3>1. j \in 1 .. Len(u[k]) /\ j \in Nat /\ j + 1 \in 1 .. Len(s[k])
      BY <1>5, <1>6, <2>1, SMTT(30)
    <3>2. u[k][j] = s[k][j + 1]
      BY <1>3, <1>4, <3>1
    <3> QED BY <1>5, <2>1, <3>1, <3>2
  <2>2. CASE l # k
    BY <1>4, <1>5, <2>2, SMTT(30)
  <2> QED BY <2>1, <2>2
<1>10. ASSUME NEW l \in QueueKind, NEW i \in DOMAIN s[l], l # k \/ i # 1
       PROVE  LET j == IF l = k THEN i - 1 ELSE i
              IN  j \in DOMAIN u[l] /\ u[l][j] = s[l][i]
  <2>1. CASE l = k
    <3>1. i - 1 \in 1 .. Len(u[k]) /\ (i - 1) + 1 = i
      BY <1>5, <1>6, <1>10, <2>1, SMTT(30)
    <3> QED BY <1>3, <1>4, <1>5, <2>1, <3>1
  <2>2. CASE l # k
    BY <1>4, <2>2
  <2> QED BY <2>1, <2>2
<1> QED BY <1>3, <1>4, <1>7, <1>8, <1>9, <1>10 DEF u

-----------------------------------------------------------------------------
(* The in-flight table *)

\* A linear search that has a match returns one.
LEMMA FirstIn ==
    ASSUME NEW S \in SUBSET Slots, S # {}
    PROVE  First(S) \in S
<1>1. S \in SUBSET Nat
  BY InFlightAssumption, SMTT(30) DEF Slots
<1> QED BY <1>1, LeastElement DEF First

\* The slots in use are finitely many.
LEMMA OccupiedFinite ==
    ASSUME NEW t
    PROVE  /\ Occupied(t) \in SUBSET Slots
           /\ IsFiniteSet(Occupied(t))
           /\ Cardinality(Occupied(t)) \in Nat
           /\ Cardinality(Occupied(t)) <= MAX_IN_FLIGHT
<1>1. IsFiniteSet(Slots) /\ Cardinality(Slots) = MAX_IN_FLIGHT
  BY FS_Interval, InFlightAssumption, SMTT(30) DEF Slots
<1>2. Occupied(t) \in SUBSET Slots
  BY DEF Occupied
<1> QED BY <1>1, <1>2, FS_Subset, FS_CardinalityType

\* A packet that is not None is a record.
LEMMA OccupiedType ==
    ASSUME NEW t \in TableType, NEW i \in Occupied(t)
    PROVE  i \in Slots /\ t[i] \in InFlightPacket /\ t[i] # None
BY DEF Occupied, TableType

\* The slot found for a key holds a packet of that key.
LEMMA SlotOfKeyIn ==
    ASSUME NEW t \in TableType, NEW key, HoldsKey(t, key)
    PROVE  SlotOfKey(t, key) \in Occupied(t) /\ t[SlotOfKey(t, key)].key = key
<1>1. SlotsOfKey(t, key) \in SUBSET Slots /\ SlotsOfKey(t, key) # {}
  BY DEF SlotsOfKey, HoldsKey, Occupied
<1>2. SlotOfKey(t, key) \in SlotsOfKey(t, key)
  BY <1>1, FirstIn DEF SlotOfKey
<1> QED BY <1>2 DEF SlotsOfKey

\* track puts the packet into one slot, which is free or holds its key, and
\* leaves the others alone; the counter follows.
LEMMA TrackSlot ==
    ASSUME NEW t \in TableType, NEW packet \in InFlightPacket, UniqueKeys(t),
           ~TrackFails(t, packet.key)
    PROVE  LET u == track(t, packet)
               n == Cardinality(Occupied(t))
           IN  /\ u \in TableType
               /\ UniqueKeys(u)
               /\ TrackedLen(t, n, packet.key) = Cardinality(Occupied(u))
               /\ Cardinality(Occupied(u)) <= n + 1
               /\ \A j \in Occupied(u) :
                      \/ u[j] = packet
                      \/ j \in Occupied(t) /\ u[j] = t[j] /\ t[j].key # packet.key
<1> DEFINE u == track(t, packet)
           n == Cardinality(Occupied(t))
<1>0. packet # None /\ n \in Nat
  BY InFlightAssumption, OccupiedFinite
<1>1. CASE HoldsKey(t, packet.key)
  <2> DEFINE i == SlotOfKey(t, packet.key)
  <2>1. i \in Occupied(t) /\ t[i].key = packet.key
    BY <1>1, SlotOfKeyIn
  <2>2. u = [t EXCEPT ![i] = packet]
    BY <1>1 DEF track
  <2> HIDE DEF i, u
  <2>3. u \in TableType
    BY <2>2 DEF TableType
  <2>4. \A j \in Slots : u[j] = IF j = i THEN packet ELSE t[j]
    BY <2>1, <2>2 DEF TableType
  <2>5. Occupied(u) = Occupied(t)
    BY <1>0, <2>1, <2>4 DEF Occupied
  <2>6. \A j \in Occupied(t) : u[j].key = t[j].key
    BY <2>1, <2>4 DEF Occupied
  <2>7. UniqueKeys(u)
    BY <2>5, <2>6 DEF UniqueKeys
  <2>8. \A j \in Occupied(u) : \/ u[j] = packet
                               \/ j \in Occupied(t) /\ u[j] = t[j] /\ t[j].key # packet.key
    <3>1. SUFFICES ASSUME NEW j \in Occupied(t), j # i
                   PROVE  u[j] = t[j] /\ t[j].key # packet.key
      BY <2>1, <2>4, <2>5 DEF Occupied
    <3> QED BY <2>1, <2>4, <3>1 DEF UniqueKeys, Occupied
  <2>9. TrackedLen(t, n, packet.key) = n
    BY <1>1 DEF TrackedLen
  <2> QED BY <1>0, <2>3, <2>5, <2>7, <2>8, <2>9, SMTT(30) DEF u
<1>2. CASE ~HoldsKey(t, packet.key)
  <2> DEFINE i == FirstFree(t)
  <2>1. Occupied(t) # Slots
    BY <1>2 DEF TrackFails
  <2>2. i \in Slots /\ i \notin Occupied(t)
    BY <2>1, FirstIn, OccupiedFinite, SMTT(30) DEF FirstFree
  <2>3. u = [t EXCEPT ![i] = packet]
    BY <1>2, <2>1 DEF track
  <2> HIDE DEF i, u
  <2>4. u \in TableType
    BY <2>3 DEF TableType
  <2>5. \A j \in Slots : u[j] = IF j = i THEN packet ELSE t[j]
    BY <2>2, <2>3 DEF TableType
  <2>6. Occupied(u) = Occupied(t) \cup {i}
    BY <1>0, <2>2, <2>5 DEF Occupied
  <2>7. Cardinality(Occupied(u)) = n + 1
    BY <2>2, <2>6, FS_AddElement, OccupiedFinite
  <2>8. TrackedLen(t, n, packet.key) = n + 1
    BY <1>2, <2>1 DEF TrackedLen
  <2>9. \A j \in Occupied(t) : u[j] = t[j] /\ t[j].key # packet.key
    BY <1>2, <2>2, <2>5 DEF Occupied, HoldsKey
  <2>10. u[i] = packet
    BY <2>2, <2>5
  <2>11. UniqueKeys(u)
    BY <2>6, <2>9, <2>10 DEF UniqueKeys
  <2> QED BY <1>0, <2>4, <2>6, <2>7, <2>8, <2>9, <2>10, <2>11, SMTT(30) DEF u
<1> QED BY <1>1, <1>2

\* A table with fewer packets: what is left is as it was.
Shrinks(t, u) ==
    /\ u \in TableType
    /\ Occupied(u) \subseteq Occupied(t)
    /\ \A j \in Occupied(u) : u[j] = t[j]

\* apply_ack removes one packet of the key or nothing; the counter follows.
LEMMA AckShrinks ==
    ASSUME NEW t \in TableType, NEW key
    PROVE  /\ Shrinks(t, apply_ack(t, key))
           /\ AckedLen(t, Cardinality(Occupied(t)), key) = Cardinality(Occupied(apply_ack(t, key)))
<1> DEFINE u == apply_ack(t, key)
           i == SlotOfKey(t, key)
           n == Cardinality(Occupied(t))
<1>1. CASE HoldsKey(t, key)
  <2>1. i \in Occupied(t)
    BY <1>1, SlotOfKeyIn
  <2>2. u = [t EXCEPT ![i] = None]
    BY <1>1 DEF apply_ack
  <2> HIDE DEF i, u
  <2>3. u \in TableType /\ \A j \in Slots : u[j] = IF j = i THEN None ELSE t[j]
    BY <2>2 DEF TableType
  <2>4. Occupied(u) = Occupied(t) \ {i}
    BY <2>3 DEF Occupied
  <2>5. Cardinality(Occupied(u)) = n - 1
    BY <2>1, <2>4, FS_RemoveElement, OccupiedFinite
  <2>6. n \in Nat /\ Cardinality(Occupied(u)) \in Nat
    BY OccupiedFinite
  <2>7. AckedLen(t, n, key) = n - 1
    BY <1>1, <2>5, <2>6, SMTT(30) DEF AckedLen, SaturatingSub
  <2>8. Shrinks(t, u)
    BY <2>3, <2>4 DEF Shrinks, Occupied
  <2> QED BY <2>5, <2>7, <2>8 DEF u
<1>2. CASE ~HoldsKey(t, key)
  BY <1>2 DEF apply_ack, AckedLen, Shrinks
<1> QED BY <1>1, <1>2

\* remove_message removes the packets of the message; the counter follows.
LEMMA RemoveShrinks ==
    ASSUME NEW t \in TableType, NEW id
    PROVE  /\ Shrinks(t, remove_message(t, id))
           /\ Occupied(remove_message(t, id)) = Occupied(t) \ SlotsOfMessage(t, id)
           /\ RemovedLen(t, Cardinality(Occupied(t)), id)
                  = Cardinality(Occupied(remove_message(t, id)))
<1> DEFINE u == remove_message(t, id)
           M == SlotsOfMessage(t, id)
           n == Cardinality(Occupied(t))
<1>1. /\ u \in TableType
      /\ \A j \in Slots : u[j] = IF j \in M THEN None ELSE t[j]
  BY DEF remove_message, TableType
<1>2. M \subseteq Occupied(t)
  BY DEF SlotsOfMessage
<1> HIDE DEF u, M
<1>3. Occupied(u) = Occupied(t) \ M
  BY <1>1, <1>2 DEF Occupied
<1>4. Shrinks(t, u)
  BY <1>1, <1>3 DEF Shrinks, Occupied
<1>5. Occupied(t) \cap M = M
  BY <1>2
<1>6. Cardinality(Occupied(u)) = n - Cardinality(M)
  BY <1>3, <1>5, FS_Difference, OccupiedFinite
<1>7. n \in Nat /\ Cardinality(Occupied(u)) \in Nat /\ Cardinality(M) \in Nat
  BY <1>2, OccupiedFinite, FS_Subset, FS_CardinalityType
<1>8. SaturatingSub(n, Cardinality(M)) = Cardinality(Occupied(u))
  BY <1>6, <1>7, SMTT(30) DEF SaturatingSub
<1> QED BY <1>3, <1>4, <1>8 DEF RemovedLen, u, M

\* What the two note operations make of a packet.
LEMMA RecordSent ==
    ASSUME NEW r \in InFlightPacket, NEW w, w = Transmitted(r) \/ w = Retransmitted(r)
    PROVE  /\ w \in InFlightPacket
           /\ w.key = r.key /\ w.packet = r.packet /\ w.age = 0 /\ w.sent
           /\ \/ w.attempts = r.attempts /\ w = Transmitted(r)
              \/ w.attempts = r.attempts + 1 /\ w = Retransmitted(r)
<1> USE DEF Transmitted, Retransmitted
<1>1. w = [key |-> w.key, packet |-> w.packet, attempts |-> w.attempts,
           age |-> w.age, sent |-> w.sent]
  BY DEF InFlightPacket
<1>2. w.key = r.key /\ w.packet = r.packet /\ w.age = 0
  BY DEF InFlightPacket
<1>3. w.sent = TRUE
  BY DEF InFlightPacket
<1>4. \/ w.attempts = r.attempts /\ w = Transmitted(r)
      \/ w.attempts = r.attempts + 1 /\ w = Retransmitted(r)
  BY DEF InFlightPacket
<1>5. r.key \in PacketKey /\ r.packet \in Fragment /\ r.attempts \in Nat
  BY DEF InFlightPacket
<1>6. w.attempts \in Nat
  BY <1>4, <1>5, SMTT(30)
<1>7. 0 \in 0 .. RTO
  BY InFlightAssumption, SMTT(30)
<1>8. [key |-> w.key, packet |-> w.packet, attempts |-> w.attempts,
       age |-> w.age, sent |-> w.sent] \in InFlightPacket
  BY <1>2, <1>3, <1>5, <1>6, <1>7 DEF InFlightPacket
<1> QED BY <1>1, <1>2, <1>3, <1>4, <1>8

\* The two note operations change the packet of the key only, which is then
\* sent and young; only note_retransmit_sent counts an attempt.
LEMMA NoteSent ==
    ASSUME NEW t \in TableType, NEW key, UniqueKeys(t),
           NEW u, u = note_sent(t, key) \/ u = note_retransmit_sent(t, key)
    PROVE  /\ u \in TableType
           /\ Occupied(u) = Occupied(t)
           /\ \A j \in Occupied(t) :
                  /\ u[j].key = t[j].key
                  /\ u[j].packet = t[j].packet
                  /\ t[j].key # key => u[j] = t[j]
                  /\ t[j].key = key => u[j].sent
                  /\ u[j].attempts = t[j].attempts
                         \/ (/\ t[j].key = key /\ u = note_retransmit_sent(t, key)
                             /\ u[j].attempts = t[j].attempts + 1)
<1> DEFINE i == SlotOfKey(t, key)
<1>1. CASE ~HoldsKey(t, key)
  <2>1. u = t
    BY <1>1 DEF note_sent, note_retransmit_sent
  <2>2. \A j \in Occupied(t) : t[j].key # key
    BY <1>1 DEF HoldsKey, Occupied
  <2> QED BY <2>1, <2>2
<1>2. CASE HoldsKey(t, key)
  <2>1. i \in Occupied(t) /\ t[i].key = key
    BY <1>2, SlotOfKeyIn
  <2>2. t[i] \in InFlightPacket
    BY <2>1, OccupiedType
  <2>3. PICK v \in InFlightPacket :
            /\ u = [t EXCEPT ![i] = v]
            /\ v.key = t[i].key /\ v.packet = t[i].packet /\ v.sent
            /\ \/ v.attempts = t[i].attempts
               \/ v.attempts = t[i].attempts + 1 /\ u = note_retransmit_sent(t, key)
    <3>1. CASE u = note_sent(t, key)
      <4>1. u = [t EXCEPT ![i] = Transmitted(t[i])]
        BY <1>2, <3>1 DEF note_sent
      <4>2. Transmitted(t[i]).attempts = t[i].attempts
        BY <2>2 DEF InFlightPacket, Transmitted
      <4> QED BY <2>2, <4>1, <4>2, RecordSent
    <3>2. CASE u = note_retransmit_sent(t, key)
      <4>1. u = [t EXCEPT ![i] = Retransmitted(t[i])]
        BY <1>2, <3>2 DEF note_retransmit_sent
      <4>2. Retransmitted(t[i]).attempts = t[i].attempts + 1
        BY <2>2 DEF InFlightPacket, Retransmitted
      <4> QED BY <2>2, <3>2, <4>1, <4>2, RecordSent, ZenonT(30)
    <3> QED BY <3>1, <3>2
  <2>4. v # None
    BY InFlightAssumption
  <2> HIDE DEF i
  <2>5. u \in TableType /\ \A j \in Slots : u[j] = IF j = i THEN v ELSE t[j]
    BY <2>3 DEF TableType
  <2>6. Occupied(u) = Occupied(t)
    BY <2>1, <2>4, <2>5 DEF Occupied
  <2>7. \A j \in Occupied(t) : t[j].key = key => j = i
    BY <2>1 DEF UniqueKeys
  <2>8. ASSUME NEW j \in Occupied(t)
        PROVE  /\ u[j].key = t[j].key
               /\ u[j].packet = t[j].packet
               /\ t[j].key # key => u[j] = t[j]
               /\ t[j].key = key => u[j].sent
               /\ u[j].attempts = t[j].attempts
                      \/ (/\ t[j].key = key /\ u = note_retransmit_sent(t, key)
                          /\ u[j].attempts = t[j].attempts + 1)
    <3>1. CASE j = i
      <4>1. u[j] = v
        BY <2>5, <2>8, <3>1 DEF Occupied
      <4> QED BY <2>1, <2>3, <3>1, <4>1
    <3>2. CASE j # i
      <4>1. u[j] = t[j] /\ t[j].key # key
        BY <2>5, <2>7, <2>8, <3>2 DEF Occupied
      <4> QED BY <4>1
    <3> QED BY <3>1, <3>2
  <2> QED BY <2>5, <2>6, <2>8
<1> QED BY <1>1, <1>2

\* The table after the head of a queue went out: e is the event, room tells
\* whether the caller's buffer took it.
Noted(t, e, room) ==
    IF e.kind = "write" /\ room
    THEN IF e.priority = "retransmit" THEN note_retransmit_sent(t, e.key) ELSE note_sent(t, e.key)
    ELSE t

\* Time changes ages only; a packet silent for a whole RTO stays so.
LEMMA AgedTable ==
    ASSUME NEW t \in TableType, NEW delta \in Nat
    PROVE  /\ Aged(t, delta) \in TableType
           /\ Occupied(Aged(t, delta)) = Occupied(t)
           /\ \A j \in Occupied(t) :
                  /\ Aged(t, delta)[j].key = t[j].key
                  /\ Aged(t, delta)[j].packet = t[j].packet
                  /\ Aged(t, delta)[j].attempts = t[j].attempts
                  /\ Aged(t, delta)[j].sent = t[j].sent
                  /\ t[j].age = RTO => Aged(t, delta)[j].age = RTO
<1> DEFINE u == Aged(t, delta)
           v(j) == [t[j] EXCEPT !.age = IF @ + delta > RTO THEN RTO ELSE @ + delta]
<1>1. ASSUME NEW j \in Occupied(t)
      PROVE  /\ v(j) \in InFlightPacket /\ v(j) # None
             /\ v(j).key = t[j].key /\ v(j).packet = t[j].packet
             /\ v(j).attempts = t[j].attempts /\ v(j).sent = t[j].sent
             /\ t[j].age = RTO => v(j).age = RTO
  <2>1. t[j] \in InFlightPacket
    BY OccupiedType
  <2>2. v(j) \in InFlightPacket
    BY <2>1, InFlightAssumption, SMTT(30) DEF InFlightPacket
  <2> QED BY <2>1, <2>2, InFlightAssumption, SMTT(30) DEF InFlightPacket
<1>2. u = [j \in Slots |-> IF t[j] = None THEN None ELSE v(j)]
  BY DEF Aged
<1> HIDE DEF u, v
<1>3. \A j \in Slots : u[j] = IF j \in Occupied(t) THEN v(j) ELSE None
  BY <1>2 DEF Occupied
<1>4. Occupied(u) = Occupied(t)
  BY <1>1, <1>3 DEF Occupied
<1>5. u \in TableType
  BY <1>1, <1>2, <1>3 DEF TableType
<1>6. \A j \in Occupied(t) : u[j] = v(j)
  BY <1>3 DEF Occupied
<1> QED BY <1>1, <1>4, <1>5, <1>6 DEF u

-----------------------------------------------------------------------------
(* The reassembly slots *)

\* A linear search that has a match returns one.
LEMMA LowestIn ==
    ASSUME NEW S \in SUBSET ReassemblySlots, S # {}
    PROVE  Lowest(S) \in S
<1>1. S \in SUBSET Nat
  BY ReassemblyAssumption, SMTT(30) DEF ReassemblySlots
<1> QED BY <1>1, LeastElement DEF Lowest

\* The parts of a fragment that reassembly accepts.
LEMMA AcceptedFragment ==
    ASSUME NEW f \in Fragment, f.len <= MAX_MESSAGE_BYTES
    PROVE  /\ f.type \in MessageTypes /\ f.id \in MessageId /\ f.body \in Bodies
           /\ f.len \in 0 .. MAX_MESSAGE_BYTES
           /\ Covered(f) \subseteq Offsets
<1>1. /\ f.type \in MessageTypes /\ f.id \in MessageId /\ f.body \in Bodies
      /\ f.len \in Nat /\ f.offset \in Nat /\ f.size \in Nat /\ f.offset + f.size <= f.len
  BY DEF Fragment
<1>2. MAX_MESSAGE_BYTES \in Nat
  BY PacketsAssumption
<1> QED BY <1>1, <1>2, SMTT(30) DEF Covered, Offsets

\* Copying a fragment keeps the bytes of a slot within the message buffer.
LEMMA CopiedType ==
    ASSUME NEW f \in Fragment, f.len <= MAX_MESSAGE_BYTES, NEW bytes \in Content
    PROVE  Copied(bytes, f) \in Content
<1>1. PICK S \in SUBSET Offsets : bytes \in [S -> Bodies]
  BY DEF Content
<1>2. f.body \in Bodies /\ Covered(f) \subseteq Offsets
  BY AcceptedFragment
<1>3. DOMAIN bytes = S
  BY <1>1
<1>4. Copied(bytes, f) \in [S \cup Covered(f) -> Bodies]
  BY <1>1, <1>2, <1>3 DEF Copied
<1>5. S \cup Covered(f) \in SUBSET Offsets
  BY <1>2
<1> QED BY <1>4, <1>5 DEF Content

\* The slot that takes a fragment belongs to the fragment's message.
LEMMA SlotBeforeType ==
    ASSUME NEW r \in ReassemblyType, NEW f \in Fragment, ~Rejects(r, f)
    PROVE  /\ f.len <= MAX_MESSAGE_BYTES
           /\ SlotBefore(r, f) \in ReassemblySlot
           /\ SlotBefore(r, f).type = f.type /\ SlotBefore(r, f).id = f.id
           /\ SlotsOf(r, f) # {} => TargetSlot(r, f) \in SlotsOf(r, f)
<1>1. f.len <= MAX_MESSAGE_BYTES
  <2>1. f.len \in Nat /\ MAX_MESSAGE_BYTES \in Nat /\ ~(f.len > MAX_MESSAGE_BYTES)
    BY PacketsAssumption DEF Rejects, Fragment
  <2> QED BY <2>1, SMTT(30)
<1>2. CASE SlotsOf(r, f) # {}
  <2>1. TargetSlot(r, f) \in SlotsOf(r, f)
    <3>1. SlotsOf(r, f) \in SUBSET ReassemblySlots
      BY DEF SlotsOf, Active
    <3> QED BY <1>2, <3>1, LowestIn DEF TargetSlot
  <2>2. /\ r[TargetSlot(r, f)] \in ReassemblySlot
        /\ r[TargetSlot(r, f)].type = f.type /\ r[TargetSlot(r, f)].id = f.id
    BY <2>1 DEF SlotsOf, Active, ReassemblyType
  <2> QED BY <1>1, <1>2, <2>1, <2>2 DEF SlotBefore
<1>3. CASE SlotsOf(r, f) = {}
  <2>1. SlotBefore(r, f) = start(f)
    BY <1>3 DEF SlotBefore
  <2>2. [o \in {} |-> f.body] \in Content
    <3>1. [o \in {} |-> f.body] \in [{} -> Bodies]
      OBVIOUS
    <3> QED BY <3>1 DEF Content
  <2>3. 0 \in 0 .. REASSEMBLY_TIMEOUT - 1
    BY ReassemblyAssumption, SMTT(30)
  <2>4. start(f) \in ReassemblySlot
    BY <1>1, <2>2, <2>3, AcceptedFragment DEF start, ReassemblySlot
  <2>5. start(f).type = f.type /\ start(f).id = f.id
    BY DEF start
  <2> QED BY <1>1, <1>3, <2>1, <2>4, <2>5
<1> QED BY <1>2, <1>3

\* The slot after the fragment was copied in is well formed and belongs to
\* the same message.
LEMMA FilledType ==
    ASSUME NEW r \in ReassemblyType, NEW f \in Fragment, ~Rejects(r, f)
    PROVE  /\ Filled(r, f) \in ReassemblySlot
           /\ Filled(r, f).type = f.type /\ Filled(r, f).id = f.id
<1> DEFINE old == SlotBefore(r, f)
           new == Filled(r, f)
           last == old.last_seen \/ f.offset + f.size = old.expected_len
<1>1. /\ f.len <= MAX_MESSAGE_BYTES /\ old \in ReassemblySlot
      /\ old.type = f.type /\ old.id = f.id
  BY SlotBeforeType
<1>2. new = [old EXCEPT !.age = 0, !.last_seen = last, !.bytes = Copied(old.bytes, f)]
  BY DEF Filled
<1> HIDE DEF old, new
<1>3. old.bytes \in Content /\ old.expected_len \in 0 .. MAX_MESSAGE_BYTES
      /\ old.type \in MessageTypes /\ old.id \in MessageId
  BY <1>1 DEF ReassemblySlot
<1>4. Copied(old.bytes, f) \in Content
  BY <1>1, <1>3, CopiedType
<1>5. 0 \in 0 .. REASSEMBLY_TIMEOUT - 1
  BY ReassemblyAssumption, SMTT(30)
<1>6. last \in BOOLEAN
  OBVIOUS
<1> HIDE DEF last
<1>7. new = [type |-> new.type, id |-> new.id, expected_len |-> new.expected_len,
             age |-> new.age, last_seen |-> new.last_seen, bytes |-> new.bytes]
  BY <1>1, <1>2 DEF ReassemblySlot
<1>8. /\ new.type = old.type /\ new.id = old.id /\ new.expected_len = old.expected_len
      /\ new.age = 0 /\ new.last_seen = last /\ new.bytes = Copied(old.bytes, f)
  BY <1>1, <1>2 DEF ReassemblySlot
<1>9. [type |-> new.type, id |-> new.id, expected_len |-> new.expected_len,
       age |-> new.age, last_seen |-> new.last_seen, bytes |-> new.bytes] \in ReassemblySlot
  BY <1>3, <1>4, <1>5, <1>6, <1>8 DEF ReassemblySlot
<1> QED BY <1>1, <1>7, <1>8, <1>9 DEF new

\* A completed message carries the content that was collected.
LEMMA MessageOfType ==
    ASSUME NEW slot \in ReassemblySlot
    PROVE  MessageOf(slot) \in MessageEvent
BY DEF MessageOf, MessageEvent, ReassemblySlot

-----------------------------------------------------------------------------
(* Packets and events *)

\* The message id generator stays within 32 bits.
LEMMA AllocType == ASSUME NEW s \in MessageId PROVE alloc_message_id(s) \in MessageId
BY PacketsAssumption, SMTT(30) DEF alloc_message_id, MessageId

\* The events the engine pushes are well formed.
LEMMA EventType ==
    /\ \A key \in PacketKey, packet \in Packet, attempts \in Nat, priority \in WritePriority :
           Write(key, packet, attempts, priority) \in EngineOutput
    /\ \A id \in MessageId : SendFailed(id) \in EngineOutput
BY DEF Write, SendFailed, EngineOutput, WriteEvent, SendFailedEvent

\* The key and the packets of send_ping_impl and queue_pong are well formed.
LEMMA LivenessType == LivenessKey \in PacketKey /\ Ping \in Packet /\ Pong \in Packet
BY PacketsAssumption, SMTT(30) DEF LivenessKey, PacketKey, MessageId, Packet

\* A collected packet is in the table, and its message id and key are well formed.
LEMMA CollectedType ==
    ASSUME NEW t \in TableType, NEW k \in TickCall, Collected(t, k),
           NEW i \in k.failed \cup k.retransmits
    PROVE  /\ i \in Occupied(t) /\ i \in Due(t)
           /\ t[i] \in InFlightPacket
           /\ t[i].packet \in Fragment /\ t[i].packet.id \in MessageId
           /\ t[i].key \in PacketKey /\ t[i].attempts \in Nat
<1>1. i \in Due(t)
  BY DEF Collected, Exhausted
<1>2. i \in Occupied(t)
  BY <1>1 DEF Due
<1>3. t[i] \in InFlightPacket
  BY <1>2, OccupiedType
<1>4. t[i].packet \in Fragment /\ t[i].key \in PacketKey /\ t[i].attempts \in Nat
  BY <1>3 DEF InFlightPacket
<1>5. t[i].packet.id \in MessageId
  BY <1>4 DEF Fragment
<1> QED BY <1>1, <1>2, <1>3, <1>4, <1>5

\* The packet that send_message_fragments builds at an offset is well formed.
LEMMA FragmentType ==
    ASSUME NEW type \in MessageTypes, NEW id \in MessageId, NEW body \in Bodies,
           NEW len \in Nat, NEW offset \in Nat, NEW index \in Nat, offset <= len
    PROVE  /\ FragmentEnd(offset, len) \in Nat
           /\ FragmentEnd(offset, len) <= len
           /\ FragmentAt(type, id, body, len, offset, index) \in Fragment
           /\ KeyOf(FragmentAt(type, id, body, len, offset, index)) \in PacketKey
<1>1. FragmentEnd(offset, len) \in Nat /\ FragmentEnd(offset, len) <= len
      /\ FragmentEnd(offset, len) >= offset
  BY PacketsAssumption, SMTT(30) DEF FragmentEnd
<1>2. FragmentEnd(offset, len) - offset \in Nat
  BY <1>1, SMTT(30)
<1>3. FragmentAt(type, id, body, len, offset, index) \in Fragment
  BY <1>1, <1>2, SMTT(30) DEF FragmentAt, Fragment
<1>4. KeyOf(FragmentAt(type, id, body, len, offset, index)) = <<id, index>>
  BY DEF FragmentAt, KeyOf
<1> QED BY <1>1, <1>3, <1>4, SMTT(30) DEF PacketKey

\* Dividing one divisor more gives one more.
LEMMA OneDivisorMore ==
    ASSUME NEW x \in Nat, NEW d \in Nat \ {0}
    PROVE  /\ x \div d \in Nat
           /\ (x + d) \div d = (x \div d) + 1
BY SMTT(30)

\* A message has one fragment at least, and one less once a full one is taken.
LEMMA FragmentCount ==
    ASSUME NEW x \in Nat
    PROVE  /\ fragment_count(x) \in Nat \ {0}
           /\ x > FRAGMENT_BYTES =>
                  fragment_count(x) = fragment_count(x - FRAGMENT_BYTES) + 1
<1> DEFINE d == FRAGMENT_BYTES
<1>1. d \in Nat \ {0}
  BY PacketsAssumption
<1>2. ASSUME NEW y \in Nat, y # 0
      PROVE  fragment_count(y) = ((y - 1) \div d) + 1 /\ (y - 1) \div d \in Nat
  <2>1. y - 1 \in Nat /\ (y - 1) + d = y + d - 1
    BY <1>1, <1>2, SMTT(30)
  <2>2. ((y - 1) + d) \div d = ((y - 1) \div d) + 1 /\ (y - 1) \div d \in Nat
    BY <1>1, <2>1, OneDivisorMore
  <2> QED BY <1>2, <2>1, <2>2 DEF fragment_count
<1>3. fragment_count(0) = 1
  BY DEF fragment_count
<1>4. fragment_count(x) \in Nat \ {0}
  BY <1>2, <1>3, SMTT(30)
<1>5. ASSUME x > d
      PROVE  fragment_count(x) = fragment_count(x - d) + 1
  <2>1. x \in Nat /\ x # 0 /\ x - d \in Nat /\ x - d # 0 /\ x - d - 1 \in Nat
        /\ (x - d - 1) + d = x - 1
    BY <1>1, <1>5, SMTT(30)
  <2>2. fragment_count(x) = ((x - 1) \div d) + 1
    BY <1>2, <2>1
  <2>3. fragment_count(x - d) = ((x - d - 1) \div d) + 1
    BY <1>2, <2>1
  <2>4. (x - 1) \div d = ((x - d - 1) \div d) + 1
    BY <1>1, <2>1, OneDivisorMore
  <2> QED BY <2>2, <2>3, <2>4
<1> QED BY <1>4, <1>5

\* The parts of a send call.
LEMMA SendCallType ==
    ASSUME NEW c \in SendCall
    PROVE  /\ c.type \in MessageTypes /\ c.id \in MessageId /\ c.body \in Bodies
           /\ c.len \in Nat /\ c.offset \in Nat /\ c.index \in Nat /\ c.offset <= c.len
BY DEF SendCall

\* The send call after a round of its loop.
LEMMA SendCallNext ==
    ASSUME NEW c \in SendCall, NEW end \in Nat, end <= c.len,
           NEW d, d = Advanced(c, end)
    PROVE  d \in SendCall /\ d.type = c.type /\ d.len = c.len /\ d.offset = end
<1>1. d.type = c.type /\ d.id = c.id /\ d.body = c.body /\ d.len = c.len
      /\ d.offset = end /\ d.index = c.index + 1
  BY DEF SendCall, Advanced
<1>2. c.index + 1 \in Nat
  BY SendCallType, SMTT(30)
<1>3. d \in [type: MessageTypes, id: MessageId, body: Bodies, len: Nat, offset: Nat, index: Nat]
  BY <1>2 DEF SendCall, Advanced
<1> QED BY <1>1, <1>3 DEF SendCall

\* While the loop of send_message_fragments has fragments left, neither the
\* push nor the track of the next one fails.
LEMMA RoomSuffices ==
    ASSUME NEW s, NEW t, NEW n, NEW c, SenderInv(s, t, n, c, NoCall), c # NoCall, NEW e, NEW key
    PROVE  /\ ~PushFails(s, e)
           /\ c.type = "data" => ~TrackFails(t, key)
<1>1. c \in SendCall /\ s \in SchedulerType /\ t \in TableType
  BY DEF SenderInv
<1>2. c.len - c.offset \in Nat
  <2>1. c.len \in Nat /\ c.offset \in Nat /\ c.offset <= c.len
    BY <1>1, SendCallType
  <2> QED BY <2>1, SMTT(30)
<1>3. PICK left \in Nat \ {0} : left = fragment_count(c.len - c.offset)
  BY <1>2, FragmentCount
<1>4. /\ left <= SchedulerAvailable(s)
      /\ c.type = "data" => left <= MAX_IN_FLIGHT - Cardinality(Occupied(t))
  BY <1>3 DEF SenderInv, Room
<1>5. SchedulerLen(s) \in Nat /\ MAX_EVENTS \in Nat
  BY <1>1, SchedulerLenType, SchedulerAssumption
<1>6. SchedulerLen(s) # MAX_EVENTS
  BY <1>3, <1>4, <1>5, SMTT(30) DEF SchedulerAvailable
<1>7. ASSUME c.type = "data"
      PROVE  Occupied(t) # Slots
  <2>1. Cardinality(Slots) = MAX_IN_FLIGHT
    BY FS_Interval, InFlightAssumption, SMTT(30) DEF Slots
  <2>2. Cardinality(Occupied(t)) \in Nat /\ MAX_IN_FLIGHT \in Nat
    BY OccupiedFinite, InFlightAssumption
  <2>3. Cardinality(Occupied(t)) # MAX_IN_FLIGHT
    BY <1>3, <1>4, <1>7, <2>2, SMTT(30)
  <2> QED BY <2>1, <2>3
<1> QED BY <1>6, <1>7 DEF PushFails, TrackFails

\* What a round of the send loop queues and tracks.
LEMMA RoundType ==
    ASSUME NEW c \in SendCall
    PROVE  LET f == NextFragment(c)
               w == NextWrite(c)
               r == NextRecord(c)
           IN  /\ f \in Fragment /\ f.type = c.type /\ f.type \in MessageTypes /\ f.id = c.id
               /\ w \in EngineOutput /\ w.kind = "write" /\ w.packet = f
               /\ r \in InFlightPacket /\ r.key = KeyOf(f) /\ r.packet = f
<1> DEFINE f == NextFragment(c)
           w == NextWrite(c)
           r == NextRecord(c)
<1>1. /\ f = FragmentAt(c.type, c.id, c.body, c.len, c.offset, c.index)
      /\ w = Write(KeyOf(f), f, 0, "new_data")
      /\ r = [key |-> KeyOf(f), packet |-> f, attempts |-> 0, age |-> 0, sent |-> FALSE]
  BY DEF NextFragment, NextWrite, NextRecord
<1> HIDE DEF f, w, r
<1>2. /\ c.type \in MessageTypes /\ c.id \in MessageId /\ c.body \in Bodies
      /\ c.len \in Nat /\ c.offset \in Nat /\ c.index \in Nat /\ c.offset <= c.len
  BY SendCallType
<1>3. f \in Fragment /\ KeyOf(f) \in PacketKey /\ f.type = c.type /\ f.id = c.id
  <2>1. f \in Fragment /\ KeyOf(f) \in PacketKey
    BY <1>1, <1>2, FragmentType
  <2> QED BY <1>1, <2>1 DEF FragmentAt
<1>4. f \in Packet /\ "new_data" \in WritePriority /\ 0 \in 0 .. RTO
  BY <1>3, InFlightAssumption, SMTT(30) DEF Packet, WritePriority
<1>5. w \in EngineOutput /\ w.kind = "write" /\ w.packet = f
  BY <1>1, <1>3, <1>4, EventType DEF Write
<1>6. r \in InFlightPacket /\ r.key = KeyOf(f) /\ r.packet = f
  BY <1>1, <1>3, <1>4 DEF InFlightPacket
<1> QED BY <1>2, <1>3, <1>5, <1>6 DEF f, w, r

-----------------------------------------------------------------------------
(* The invariant at one engine *)

\* The state of the sending side of one engine, as an argument of SenderInv.
LEMMA SenderAt ==
    ASSUME SenderOK, NEW p \in Peers
    PROVE  /\ SenderInv(queues[p], in_flight[p], in_flight_len[p], sending[p], ticking[p])
           /\ Idle(p) => SenderInv(queues[p], in_flight[p], in_flight_len[p], NoCall, NoCall)
           /\ ticking[p] # NoCall =>
                  /\ sending[p] = NoCall /\ ticking[p] \in TickCall
                  /\ SenderInv(queues[p], in_flight[p], in_flight_len[p], NoCall, ticking[p])
           /\ sending[p] # NoCall =>
                  /\ ticking[p] = NoCall
                  /\ SenderInv(queues[p], in_flight[p], in_flight_len[p], sending[p], NoCall)
<1>1. SenderInv(queues[p], in_flight[p], in_flight_len[p], sending[p], ticking[p])
  BY DEF SenderOK
<1>2. sending[p] = NoCall \/ ticking[p] = NoCall
  BY <1>1 DEF SenderInv
<1>3. ticking[p] \in TickCall \cup {NoCall}
  BY <1>1 DEF SenderInv
<1> QED BY <1>1, <1>2, <1>3 DEF Idle

\* A new message id is well formed.
LEMMA NextId ==
    ASSUME NumbersOK, NEW p \in Peers, UNCHANGED ticked,
           next_id' = [next_id EXCEPT ![p] = alloc_message_id(@)]
    PROVE  NumbersOK' /\ next_id'[p] \in MessageId
<1>1. next_id[p] \in MessageId
  BY DEF NumbersOK
<1>2. alloc_message_id(next_id[p]) \in MessageId
  BY <1>1, AllocType
<1> QED BY <1>2 DEF NumbersOK

\* A fragment the decoder recovered is a Fragment, and its key is well formed.
LEMMA IncomingFragment ==
    ASSUME NEW f \in Packet, f.type \in MessageTypes
    PROVE  f \in Fragment /\ KeyOf(f) \in PacketKey
<1>1. f \notin AckPacket /\ f # Ping /\ f # Pong
  BY SMTT(30) DEF AckPacket, Ping, Pong, MessageTypes
<1>2. f \in Fragment
  BY <1>1 DEF Packet
<1>3. f.id \in MessageId /\ f.index \in Nat
  BY <1>2 DEF Fragment
<1> QED BY <1>2, <1>3 DEF KeyOf, PacketKey
=============================================================================
