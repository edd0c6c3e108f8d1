---------------------------- MODULE EngineProofs ----------------------------
(***************************************************************************)
(* The invariants of the engine for all values of the constants. First     *)
(* what each step does to the sending side of one engine, in terms of the  *)
(* values that make it up; then that every step preserves IndInv, the      *)
(* inductive invariant; then what follows from it.                         *)
(***************************************************************************)
EXTENDS StateProofs

\* A leaf is left to Zenon unless it names another prover.
USE Zenon

(* The scheduler *)

\* push keeps the type and the bound of the scheduler, and adds one event at most.
LEMMA PushType ==
    ASSUME NEW s \in SchedulerType, NEW e \in EngineOutput, SchedulerLen(s) <= MAX_EVENTS
    PROVE  /\ push(s, e) \in SchedulerType
           /\ SchedulerLen(push(s, e)) <= MAX_EVENTS
           /\ SchedulerLen(push(s, e)) <= SchedulerLen(s) + 1
<1>1. SchedulerLen(s) \in Nat /\ MAX_EVENTS \in Nat
  BY SchedulerLenType, SchedulerAssumption
<1>2. CASE IsRedundant(s, e)
  BY <1>1, <1>2, PushReplaces, SMTT(30)
<1>3. CASE ~IsRedundant(s, e) /\ SchedulerLen(s) = MAX_EVENTS
  BY <1>1, <1>3, SMTT(30) DEF push
<1>4. CASE ~IsRedundant(s, e) /\ SchedulerLen(s) # MAX_EVENTS
  BY <1>1, <1>4, PushAppends, SMTT(30)
<1> QED BY <1>2, <1>3, <1>4

\* Every write queued before a push has its key queued after it.
LEMMA PushKeeps ==
    ASSUME NEW s \in SchedulerType, NEW e \in EngineOutput, NEW key,
           \E k \in QueueKind : HoldsWrite(s[k], key)
    PROVE  \E k \in QueueKind : HoldsWrite(push(s, e)[k], key)
<1>0. PICK m \in QueueKind : HoldsWrite(s[m], key)
  OBVIOUS
<1>1. PICK n \in DOMAIN s[m] : IsWriteOf(s[m][n], key)
  BY <1>0 DEF HoldsWrite
<1>2. CASE IsRedundant(s, e)
  <2>0. PICK k \in QueueKind : \E i \in DOMAIN s[k] :
            /\ IsWriteOf(s[k][i], e.key)
            /\ \A l \in QueueKind :
                   /\ DOMAIN push(s, e)[l] = DOMAIN s[l]
                   /\ \A j \in DOMAIN s[l] :
                          push(s, e)[l][j] = IF l = k /\ j = i THEN e ELSE s[l][j]
    BY <1>2, PushReplaces
  <2>1. PICK i \in DOMAIN s[k] :
            /\ IsWriteOf(s[k][i], e.key)
            /\ \A l \in QueueKind :
                   /\ DOMAIN push(s, e)[l] = DOMAIN s[l]
                   /\ \A j \in DOMAIN s[l] :
                          push(s, e)[l][j] = IF l = k /\ j = i THEN e ELSE s[l][j]
    BY <2>0
  <2>2. IsWriteOf(push(s, e)[m][n], key)
    BY <1>1, <1>2, <2>1 DEF IsWriteOf, IsRedundant
  <2> QED BY <1>1, <2>1, <2>2 DEF HoldsWrite
<1>3. CASE ~IsRedundant(s, e) /\ SchedulerLen(s) = MAX_EVENTS
  BY <1>1, <1>3 DEF push, HoldsWrite
<1>4. CASE ~IsRedundant(s, e) /\ SchedulerLen(s) # MAX_EVENTS
  <2>1. n \in DOMAIN push(s, e)[m] /\ push(s, e)[m][n] = s[m][n]
    BY <1>1, <1>4, PushAppends, SchedulerLenType, SMTT(30)
  <2> QED BY <1>1, <2>1 DEF HoldsWrite
<1> QED BY <1>2, <1>3, <1>4

\* After a push that succeeds, the write pushed is queued, and it is the only
\* write of its key.
LEMMA PushWins ==
    ASSUME NEW s \in SchedulerType, NEW e \in EngineOutput, UniqueWrites(s),
           e.kind = "write", ~PushFails(s, e)
    PROVE  /\ \E k \in QueueKind : HoldsWrite(push(s, e)[k], e.key)
           /\ \A l \in QueueKind : \A j \in DOMAIN push(s, e)[l] :
                  IsWriteOf(push(s, e)[l][j], e.key) => push(s, e)[l][j] = e
<1> DEFINE u == push(s, e)
<1>1. \E k \in QueueKind : \E i \in DOMAIN u[k] : u[k][i] = e
  <2>1. CASE IsRedundant(s, e)
    BY <2>1, PushReplaces, SMTT(30)
  <2>2. CASE ~IsRedundant(s, e)
    <3>1. SchedulerLen(s) # MAX_EVENTS
      BY <2>2 DEF PushFails
    <3>2. Len(s[queue_for_event(e)]) \in Nat
      BY <2>2, <3>1, PushAppends, SchedulerLenType
    <3> QED BY <2>2, <3>1, <3>2, PushAppends, SMTT(30)
  <2> QED BY <2>1, <2>2
<1>2. UniqueWrites(u)
  BY PushUnique
<1> HIDE DEF u
<1>3. PICK k \in QueueKind : \E i \in DOMAIN u[k] : u[k][i] = e
  BY <1>1
<1>4. PICK i \in DOMAIN u[k] : u[k][i] = e
  BY <1>3
<1>5. ASSUME NEW l \in QueueKind, NEW j \in DOMAIN u[l], IsWriteOf(u[l][j], e.key)
      PROVE  u[l][j] = e
  <2>1. SameWrite(u[l][j], u[k][i])
    BY <1>4, <1>5 DEF SameWrite, IsWriteOf
  <2>2. l = k /\ j = i
    BY <1>2, <2>1 DEF UniqueWrites
  <2> QED BY <1>4, <2>2
<1>6. HoldsWrite(u[k], e.key)
  BY <1>4 DEF HoldsWrite, IsWriteOf
<1> QED BY <1>5, <1>6 DEF u

\* pop keeps writes unique; no write of the key it took is left, and the writes
\* of other keys stay.
LEMMA PopUnique ==
    ASSUME NEW s \in SchedulerType, NEW k \in QueueKind, s[k] # <<>>, UniqueWrites(s)
    PROVE  /\ UniqueWrites(pop(s, k))
           /\ Head(s[k]).kind = "write" =>
                  \A l \in QueueKind : ~HoldsWrite(pop(s, k)[l], Head(s[k]).key)
           /\ \A key : (/\ ~IsWriteOf(Head(s[k]), key)
                        /\ \E l \in QueueKind : HoldsWrite(s[l], key))
                           => \E l \in QueueKind : HoldsWrite(pop(s, k)[l], key)
<1> DEFINE u == pop(s, k)
           I(l, j) == IF l = k THEN j + 1 ELSE j
<1>1. \A l \in QueueKind : \A j \in DOMAIN u[l] :
          I(l, j) \in DOMAIN s[l] /\ j \in Nat /\ u[l][j] = s[l][I(l, j)]
  BY PopShifts
<1>2. \A l \in QueueKind : \A i \in DOMAIN s[l] :
          (l # k \/ i # 1) => \E j \in DOMAIN u[l] : u[l][j] = s[l][i]
  BY PopShifts, SMTT(30)
<1>3. 1 \in DOMAIN s[k] /\ Head(s[k]) = s[k][1]
  BY PopShifts, ZenonT(30)
<1> HIDE DEF u
<1>4. UniqueWrites(u)
  <2>1. SUFFICES ASSUME NEW l \in QueueKind, NEW m \in QueueKind,
                        NEW x \in DOMAIN u[l], NEW y \in DOMAIN u[m],
                        SameWrite(u[l][x], u[m][y])
                 PROVE  l = m /\ x = y
    BY DEF UniqueWrites
  <2>2. l = m /\ I(l, x) = I(m, y)
    BY <1>1, <2>1, SMTT(30) DEF UniqueWrites
  <2> QED BY <1>1, <2>2, SMTT(30)
<1>5. ASSUME Head(s[k]).kind = "write", NEW l \in QueueKind, HoldsWrite(u[l], Head(s[k]).key)
      PROVE  FALSE
  <2>1. PICK j \in DOMAIN u[l] : IsWriteOf(u[l][j], Head(s[k]).key)
    BY <1>5 DEF HoldsWrite
  <2>2. SameWrite(s[l][I(l, j)], s[k][1])
    BY <1>1, <1>3, <1>5, <2>1 DEF SameWrite, IsWriteOf
  <2>3. l = k /\ I(l, j) = 1
    BY <1>1, <1>3, <2>2, SMTT(30) DEF UniqueWrites
  <2>4. j \in Nat /\ j # 0
    <3>1. u[k] \in Seq(EngineOutput)
      BY PopShifts, SMTT(30) DEF u, SchedulerType
    <3> QED BY <2>3, <3>1, SMTT(30)
  <2> QED BY <2>3, <2>4, SMTT(30)
<1>6. ASSUME NEW key, ~IsWriteOf(Head(s[k]), key), \E l \in QueueKind : HoldsWrite(s[l], key)
      PROVE  \E l \in QueueKind : HoldsWrite(u[l], key)
  <2>1. PICK l \in QueueKind : HoldsWrite(s[l], key)
    BY <1>6
  <2>2. PICK i \in DOMAIN s[l] : IsWriteOf(s[l][i], key)
    BY <2>1 DEF HoldsWrite
  <2>3. l # k \/ i # 1
    BY <1>3, <1>6, <2>2
  <2>4. PICK j \in DOMAIN u[l] : u[l][j] = s[l][i]
    BY <1>2, <2>3
  <2> QED BY <2>2, <2>4 DEF HoldsWrite
<1> QED BY <1>4, <1>5, <1>6 DEF u

-----------------------------------------------------------------------------
(* The in-flight table *)

\* Keys stay unique when packets are removed.
LEMMA ShrinksUnique ==
    ASSUME NEW t, NEW u, Shrinks(t, u), UniqueKeys(t)
    PROVE  UniqueKeys(u)
BY DEF Shrinks, UniqueKeys

-----------------------------------------------------------------------------
(* The reassembly slots *)

\* observe keeps one slot per message and no complete one.
LEMMA ObservePending ==
    ASSUME NEW r \in ReassemblyType, NEW f \in Fragment, ~Rejects(r, f), Pending(r)
    PROVE  /\ observe(r, f) \in ReassemblyType
           /\ Pending(observe(r, f))
<1> DEFINE x == TargetSlot(r, f)
           v == IF Completes(r, f) THEN Inactive ELSE Filled(r, f)
           u == observe(r, f)
<1>1. /\ Filled(r, f) \in ReassemblySlot
      /\ Filled(r, f).type = f.type /\ Filled(r, f).id = f.id
  BY FilledType
<1>2. v \in ReassemblySlot \cup {Inactive}
      /\ (v # Inactive => v.type = f.type /\ v.id = f.id /\ ~is_complete(v))
  BY <1>1 DEF Completes
<1>3. u = [r EXCEPT ![x] = v]
  BY DEF observe
<1>4. SlotsOf(r, f) # {} => x \in SlotsOf(r, f)
  BY SlotBeforeType
<1> HIDE DEF x, v, u
<1>5. u \in ReassemblyType /\ \A i \in ReassemblySlots : u[i] = IF i = x THEN v ELSE r[i]
  BY <1>2, <1>3 DEF ReassemblyType
<1>6. \A i \in Active(u) : (i = x /\ u[i] = v /\ v # Inactive) \/ (i # x /\ i \in Active(r) /\ u[i] = r[i])
  BY <1>5 DEF Active
<1>7. \A i \in Active(r) : (r[i].type = f.type /\ r[i].id = f.id) => i = x
  <2> SUFFICES ASSUME NEW i \in Active(r), r[i].type = f.type, r[i].id = f.id
               PROVE  i = x
    OBVIOUS
  <2>1. i \in SlotsOf(r, f)
    BY DEF SlotsOf
  <2>2. x \in Active(r) /\ r[x].type = f.type /\ r[x].id = f.id
    BY <1>4, <2>1 DEF SlotsOf
  <2> QED BY <2>2 DEF Pending
<1>8. Pending(u)
  <2> SUFFICES ASSUME NEW i \in Active(u), NEW j \in Active(u)
               PROVE  /\ (u[i].type = u[j].type /\ u[i].id = u[j].id) => i = j
                      /\ ~is_complete(u[i])
    BY DEF Pending
  <2>1. ~is_complete(u[i])
    BY <1>2, <1>6 DEF Pending
  <2>2. ASSUME u[i].type = u[j].type, u[i].id = u[j].id
        PROVE  i = j
    <3>1. CASE i = x /\ j # x
      BY <1>2, <1>6, <1>7, <2>2, <3>1
    <3>2. CASE j = x /\ i # x
      BY <1>2, <1>6, <1>7, <2>2, <3>2
    <3>3. CASE i # x /\ j # x
      BY <1>6, <2>2, <3>3 DEF Pending
    <3> QED BY <3>1, <3>2, <3>3
  <2> QED BY <2>1, <2>2
<1> QED BY <1>5, <1>8 DEF u

\* expire only releases slots and makes the others older.
LEMMA ExpirePending ==
    ASSUME NEW r \in ReassemblyType, NEW delta \in Nat, Pending(r)
    PROVE  /\ expire(r, delta) \in ReassemblyType
           /\ Pending(expire(r, delta))
<1> DEFINE u == expire(r, delta)
           v(i) == [r[i] EXCEPT !.age = r[i].age + delta]
<1>1. ASSUME NEW i \in Active(r), ~(r[i].age + delta >= REASSEMBLY_TIMEOUT)
      PROVE  /\ v(i) \in ReassemblySlot
             /\ v(i).type = r[i].type /\ v(i).id = r[i].id
             /\ v(i).expected_len = r[i].expected_len
             /\ v(i).last_seen = r[i].last_seen /\ v(i).bytes = r[i].bytes
  <2>1. r[i] \in ReassemblySlot
    BY DEF Active, ReassemblyType
  <2>2. r[i].age \in Nat /\ r[i].age + delta \in 0 .. REASSEMBLY_TIMEOUT - 1
    <3>1. r[i].age \in 0 .. REASSEMBLY_TIMEOUT - 1
      BY <2>1 DEF ReassemblySlot
    <3> QED BY <1>1, <3>1, ReassemblyAssumption, SMTT(30)
  <2> QED BY <2>1, <2>2 DEF ReassemblySlot
<1>2. u = [i \in ReassemblySlots |->
              IF r[i] = Inactive \/ r[i].age + delta >= REASSEMBLY_TIMEOUT THEN Inactive ELSE v(i)]
  BY DEF expire
<1> HIDE DEF u, v
<1>3. \A i \in ReassemblySlots :
          \/ u[i] = Inactive
          \/ i \in Active(r) /\ ~(r[i].age + delta >= REASSEMBLY_TIMEOUT) /\ u[i] = v(i)
  BY <1>2 DEF Active
<1>4. u \in ReassemblyType
  BY <1>1, <1>2, <1>3 DEF ReassemblyType
<1>5. \A i \in Active(u) :
          /\ i \in Active(r) /\ u[i].type = r[i].type /\ u[i].id = r[i].id
          /\ u[i].expected_len = r[i].expected_len
          /\ u[i].last_seen = r[i].last_seen /\ u[i].bytes = r[i].bytes
  <2> SUFFICES ASSUME NEW i \in Active(u)
               PROVE  /\ i \in Active(r) /\ u[i].type = r[i].type /\ u[i].id = r[i].id
                      /\ u[i].expected_len = r[i].expected_len
                      /\ u[i].last_seen = r[i].last_seen /\ u[i].bytes = r[i].bytes
    OBVIOUS
  <2>1. i \in Active(r) /\ ~(r[i].age + delta >= REASSEMBLY_TIMEOUT) /\ u[i] = v(i)
    BY <1>3 DEF Active
  <2> QED BY <1>1, <2>1
<1>6. \A i \in Active(u) : is_complete(u[i]) => is_complete(r[i])
  BY <1>5 DEF is_complete
<1>7. Pending(u)
  BY <1>5, <1>6, SMTT(30) DEF Pending
<1> QED BY <1>4, <1>7 DEF u

\* The queue of messages keeps its type when its oldest message is overwritten.
LEMMA EnqueueType ==
    ASSUME NEW q \in Seq(MessageEvent), NEW m \in MessageEvent
    PROVE  Enqueue(q, m) \in Seq(MessageEvent)
<1>1. CASE Len(q) = MAX_MESSAGES
  <2>1. q # <<>>
    BY <1>1, EngineAssumption
  <2>2. Tail(q) \in Seq(MessageEvent)
    BY <2>1, SMTT(30)
  <2> QED BY <1>1, <2>2, SMTT(30) DEF Enqueue
<1>2. CASE Len(q) # MAX_MESSAGES
  BY <1>2, SMTT(30) DEF Enqueue
<1> QED BY <1>1, <1>2

-----------------------------------------------------------------------------
(* Pushes *)

\* A step from s and t to v and u loses no write of an unsent packet.
StaysQueued(s, t, v, u) == QueuedIfUnsent(s, t) => QueuedIfUnsent(v, u)

\* Pushing an event that is no retransmission, or is the next attempt of a
\* packet in flight, keeps the retransmissions of the scheduler in order.
LEMMA PushDisciplined ==
    ASSUME NEW s \in SchedulerType, NEW t \in TableType, NEW e \in EngineOutput,
           Disciplined(s, t),
           \A j \in Occupied(t) :
               (IsWriteOf(e, t[j].key) /\ e.priority = "retransmit") => NextAttempt(t[j], e)
    PROVE  Disciplined(push(s, e), t)
<1> SUFFICES ASSUME NEW l \in QueueKind, NEW i \in DOMAIN push(s, e)[l], NEW j \in Occupied(t),
                    IsWriteOf(push(s, e)[l][i], t[j].key),
                    push(s, e)[l][i].priority = "retransmit"
             PROVE  NextAttempt(t[j], push(s, e)[l][i])
  BY DEF Disciplined
<1>1. CASE push(s, e)[l][i] = e
  BY <1>1
<1>2. CASE i \in DOMAIN s[l] /\ push(s, e)[l][i] = s[l][i]
  BY <1>2 DEF Disciplined
<1> QED BY <1>1, <1>2, PushOrigin

\* A push while no send is in progress.
LEMMA PushStep ==
    ASSUME NEW s, NEW t, NEW n, NEW k, NEW e \in EngineOutput,
           SenderInv(s, t, n, NoCall, k),
           \A j \in Occupied(t) :
               (IsWriteOf(e, t[j].key) /\ e.priority = "retransmit") => NextAttempt(t[j], e)
    PROVE  SenderInv(push(s, e), t, n, NoCall, k) /\ StaysQueued(s, t, push(s, e), t)
<1>1. push(s, e) \in SchedulerType /\ SchedulerLen(push(s, e)) <= MAX_EVENTS
  BY PushType DEF SenderInv
<1>2. UniqueWrites(push(s, e))
  BY PushUnique DEF SenderInv
<1>3. Disciplined(push(s, e), t)
  BY PushDisciplined DEF SenderInv
<1>4. Room(push(s, e), t, NoCall)
  BY DEF Room
<1>5. StaysQueued(s, t, push(s, e), t)
  <2>1. s \in SchedulerType
    BY DEF SenderInv
  <2> QED BY <2>1, PushKeeps DEF StaysQueued, QueuedIfUnsent
<1> QED BY <1>1, <1>2, <1>3, <1>4, <1>5 DEF SenderInv

\* A liveness packet may be pushed at any time: it is no retransmission.
LEMMA LivenessStep ==
    ASSUME NEW s, NEW t, NEW n, NEW k, SenderInv(s, t, n, NoCall, k),
           NEW packet \in {Ping, Pong}, NEW priority \in {"control", "new_data"}
    PROVE  /\ SenderInv(push(s, Write(LivenessKey, packet, 0, priority)), t, n, NoCall, k)
           /\ StaysQueued(s, t, push(s, Write(LivenessKey, packet, 0, priority)), t)
<1> DEFINE e == Write(LivenessKey, packet, 0, priority)
<1>1. e \in EngineOutput
  BY EventType, LivenessType DEF WritePriority
<1>2. e.priority # "retransmit"
  BY DEF Write
<1> HIDE DEF e
<1>3. SenderInv(push(s, e), t, n, NoCall, k) /\ StaysQueued(s, t, push(s, e), t)
  BY <1>1, <1>2, PushStep
<1> QED BY <1>3 DEF e

-----------------------------------------------------------------------------
(* ACKs and time *)

\* Removing packets from the table breaks nothing while no tick is running.
LEMMA ShrinkDisciplined ==
    ASSUME NEW s, NEW t \in TableType, NEW u, Shrinks(t, u), Disciplined(s, t), WithinLimit(t)
    PROVE  /\ Disciplined(s, u) /\ WithinLimit(u)
           /\ StaysQueued(s, t, s, u)
<1>1. \A j \in Occupied(u) : j \in Occupied(t) /\ u[j] = t[j]
  BY DEF Shrinks
<1>2. Disciplined(s, u) /\ WithinLimit(u)
  BY <1>1 DEF Disciplined, WithinLimit
<1>3. StaysQueued(s, t, s, u)
  BY <1>1 DEF StaysQueued, QueuedIfUnsent
<1> QED BY <1>2, <1>3

\* Applying an ACK keeps the invariant of the sending side.
LEMMA AckStep ==
    ASSUME NEW s, NEW t, NEW n, NEW key, SenderInv(s, t, n, NoCall, NoCall)
    PROVE  /\ SenderInv(s, apply_ack(t, key), AckedLen(t, n, key), NoCall, NoCall)
           /\ StaysQueued(s, t, s, apply_ack(t, key))
<1> DEFINE u == apply_ack(t, key)
<1>1. t \in TableType /\ n = Cardinality(Occupied(t)) /\ UniqueKeys(t)
  BY DEF SenderInv
<1>2. Shrinks(t, u) /\ AckedLen(t, n, key) = Cardinality(Occupied(u))
  BY <1>1, AckShrinks
<1>3. u \in TableType /\ UniqueKeys(u)
  BY <1>1, <1>2, ShrinksUnique DEF Shrinks
<1>4. /\ Disciplined(s, u) /\ WithinLimit(u)
      /\ StaysQueued(s, t, s, u)
  BY <1>1, <1>2, ShrinkDisciplined DEF SenderInv
<1>5. Room(s, u, NoCall)
  BY DEF Room
<1> QED BY <1>2, <1>3, <1>4, <1>5 DEF SenderInv

\* What tick_retransmit collects from a table is consistent with it.
LEMMA CollectedFresh ==
    ASSUME NEW t, NEW k,
           \/ k = [failed |-> Exhausted(t), retransmits |-> Retransmittable(t)]
           \/ k = [failed |-> {}, retransmits |-> {}]
    PROVE  k \in TickCall /\ Collected(t, k)
<1>1. Exhausted(t) \subseteq Slots /\ Retransmittable(t) \subseteq Slots
  BY DEF Exhausted, Retransmittable, Due, Occupied
<1>2. k \in TickCall
  BY <1>1, SMTT(30) DEF TickCall
<1>3. Retransmittable(t) \subseteq Due(t) \ Exhausted(t)
  BY DEF Retransmittable
<1>4. \A i \in Exhausted(t), j \in Retransmittable(t) : t[i].packet.id # t[j].packet.id
  BY DEF Retransmittable, FailedMessages
<1> QED BY <1>2, <1>3, <1>4, SMTT(30) DEF Collected

\* The clock advance at the start of poll, and the sets its tick collects, keep
\* the invariant of the sending side.
LEMMA PollStep ==
    ASSUME NEW s, NEW t, NEW n, NEW delta \in Nat, SenderInv(s, t, n, NoCall, NoCall), NEW k,
           \/ k = [failed |-> Exhausted(Aged(t, delta)),
                   retransmits |-> Retransmittable(Aged(t, delta))]
           \/ k = [failed |-> {}, retransmits |-> {}]
    PROVE  /\ SenderInv(s, Aged(t, delta), n, NoCall, k)
           /\ StaysQueued(s, t, s, Aged(t, delta))
<1> DEFINE u == Aged(t, delta)
<1>1. t \in TableType /\ n = Cardinality(Occupied(t))
  BY DEF SenderInv
<1>2. u \in TableType /\ Occupied(u) = Occupied(t)
  BY <1>1, AgedTable
<1>3. \A j \in Occupied(t) :
          /\ u[j].key = t[j].key /\ u[j].attempts = t[j].attempts
          /\ u[j].sent = t[j].sent
          /\ t[j].age = RTO => u[j].age = RTO
  BY <1>1, AgedTable
<1>4. k \in TickCall /\ Collected(u, k)
  BY CollectedFresh
<1> HIDE DEF u
<1>5. UniqueKeys(u)
  BY <1>2, <1>3 DEF UniqueKeys, SenderInv
<1>6. WithinLimit(u)
  BY <1>2, <1>3 DEF WithinLimit, SenderInv
<1>7. \A j \in Occupied(t) : \A e : NextAttempt(t[j], e) => NextAttempt(u[j], e)
  BY <1>3 DEF NextAttempt
<1>8. Disciplined(s, t)
  BY DEF SenderInv
<1>9. Disciplined(s, u)
  BY <1>2, <1>3, <1>7, <1>8 DEF Disciplined
<1>10. Room(s, u, NoCall)
  BY DEF Room
<1>11. StaysQueued(s, t, s, u)
  BY <1>2, <1>3 DEF StaysQueued, QueuedIfUnsent
<1>12. SenderInv(s, u, n, NoCall, k)
  BY <1>1, <1>2, <1>4, <1>5, <1>6, <1>9, <1>10 DEF SenderInv
<1> QED BY <1>11, <1>12 DEF u

-----------------------------------------------------------------------------
(* The loops of tick_retransmit *)

\* A failed message leaves the table; what else was collected stays in it.
LEMMA FailStep ==
    ASSUME NEW s, NEW t, NEW n, NEW k, SenderInv(s, t, n, NoCall, k), k # NoCall,
           NEW i \in k.failed
    PROVE  LET id == t[i].packet.id
           IN  /\ SenderInv(push(s, SendFailed(id)), remove_message(t, id), RemovedLen(t, n, id),
                            NoCall, [k EXCEPT !.failed = @ \ SlotsOfMessage(t, id)])
               /\ StaysQueued(s, t, push(s, SendFailed(id)), remove_message(t, id))
<1> DEFINE id == t[i].packet.id
           u == remove_message(t, id)
           of == SlotsOfMessage(t, id)
           j == [k EXCEPT !.failed = @ \ of]
           e == SendFailed(id)
<1>1. t \in TableType /\ n = Cardinality(Occupied(t)) /\ UniqueKeys(t) /\ k \in TickCall
      /\ Collected(t, k)
  BY DEF SenderInv
<1>2. id \in MessageId
  BY <1>1, CollectedType
<1>3. e \in EngineOutput /\ e.kind = "send_failed"
  BY <1>2, EventType DEF SendFailed
<1>4. Shrinks(t, u) /\ Occupied(u) = Occupied(t) \ of
      /\ RemovedLen(t, n, id) = Cardinality(Occupied(u))
  BY <1>1, RemoveShrinks
<1>5. u \in TableType /\ UniqueKeys(u) /\ \A m \in Occupied(u) : u[m] = t[m]
  BY <1>1, <1>4, ShrinksUnique DEF Shrinks
<1>6. /\ Disciplined(s, u) /\ WithinLimit(u)
      /\ StaysQueued(s, t, s, u)
  BY <1>1, <1>4, ShrinkDisciplined DEF SenderInv
<1>7. j \in TickCall /\ j.failed = k.failed \ of /\ j.retransmits = k.retransmits
  BY <1>1 DEF TickCall
<1>8. Collected(u, j)
  <2>1. k.retransmits \cap of = {}
    BY <1>1 DEF Collected, SlotsOfMessage
  <2>2. j.failed \cup j.retransmits \subseteq Occupied(u)
    BY <1>1, <1>4, <1>7, <2>1, CollectedType
  <2> HIDE DEF j, u, of
  <2>3. \A m \in Occupied(u) : /\ m \in Due(t) => m \in Due(u)
                               /\ m \in Exhausted(t) => m \in Exhausted(u)
                               /\ m \in Exhausted(u) => m \in Exhausted(t)
    BY <1>4, <1>5 DEF Due, Exhausted
  <2>4. j.failed \subseteq Exhausted(u)
    BY <1>1, <1>7, <2>2, <2>3 DEF Collected
  <2>5. j.retransmits \subseteq Due(u) \ Exhausted(u)
    BY <1>1, <1>7, <2>2, <2>3 DEF Collected
  <2>6. \A m \in j.failed, l \in j.retransmits : u[m].packet.id # u[l].packet.id
    BY <1>1, <1>5, <1>7, <2>2, SMTT(30) DEF Collected
  <2> QED BY <2>4, <2>5, <2>6 DEF Collected
<1> HIDE DEF j, u, of, e
<1>9. SenderInv(s, u, RemovedLen(t, n, id), NoCall, j)
  <2>1. Room(s, u, NoCall)
    BY DEF Room
  <2> QED BY <1>4, <1>5, <1>6, <1>7, <1>8, <2>1 DEF SenderInv
<1>10. SenderInv(push(s, e), u, RemovedLen(t, n, id), NoCall, j)
       /\ StaysQueued(s, u, push(s, e), u)
  <2>1. \A m \in Occupied(u) : ~IsWriteOf(e, u[m].key)
    BY <1>3 DEF IsWriteOf
  <2> QED BY <1>3, <1>9, <2>1, PushStep
<1>11. StaysQueued(s, t, push(s, e), u)
  BY <1>6, <1>10 DEF StaysQueued
<1> QED BY <1>10, <1>11 DEF j, u, of, e

\* A retransmission that is queued is the next attempt of the packet it repeats.
LEMMA RetransmitStep ==
    ASSUME NEW s, NEW t, NEW n, NEW k, SenderInv(s, t, n, NoCall, k), k # NoCall,
           NEW i \in k.retransmits
    PROVE  LET e == Write(t[i].key, t[i].packet, t[i].attempts + 1, "retransmit")
           IN  /\ SenderInv(push(s, e), t, n, NoCall, [k EXCEPT !.retransmits = @ \ {i}])
               /\ StaysQueued(s, t, push(s, e), t)
<1> DEFINE e == Write(t[i].key, t[i].packet, t[i].attempts + 1, "retransmit")
           j == [k EXCEPT !.retransmits = @ \ {i}]
<1>1. t \in TableType /\ UniqueKeys(t) /\ k \in TickCall /\ Collected(t, k)
  BY DEF SenderInv
<1>2. /\ i \in Occupied(t) /\ i \in Due(t) /\ i \notin Exhausted(t)
      /\ t[i].packet \in Fragment /\ t[i].key \in PacketKey /\ t[i].attempts \in Nat
  BY <1>1, CollectedType DEF Collected
<1>3. t[i].sent /\ t[i].age = RTO /\ t[i].attempts + 1 <= MAX_ATTEMPTS
  <2>1. t[i].age \in 0 .. RTO
    BY <1>1, <1>2, OccupiedType DEF InFlightPacket
  <2>2. t[i].sent /\ t[i].age >= RTO /\ ~(t[i].attempts >= MAX_ATTEMPTS)
    BY <1>2 DEF Due, Exhausted
  <2> QED BY <1>2, <2>1, <2>2, InFlightAssumption, SMTT(30)
<1>4. e \in EngineOutput
  <2>1. t[i].packet \in Packet /\ t[i].attempts + 1 \in Nat /\ "retransmit" \in WritePriority
    BY <1>2, SMTT(30) DEF Packet, WritePriority
  <2> QED BY <1>2, <2>1, EventType
<1>5. e.key = t[i].key /\ e.attempts = t[i].attempts + 1
  BY DEF Write
<1>6. NextAttempt(t[i], e)
  BY <1>3, <1>5 DEF NextAttempt
<1>7. j \in TickCall /\ j.failed = k.failed /\ j.retransmits = k.retransmits \ {i}
  BY <1>1 DEF TickCall
<1>8. Collected(t, j)
  BY <1>1, <1>7 DEF Collected
<1> HIDE DEF e, j
<1>9. SenderInv(s, t, n, NoCall, j)
  BY <1>7, <1>8 DEF SenderInv
<1>10. \A m \in Occupied(t) : IsWriteOf(e, t[m].key) => NextAttempt(t[m], e)
  BY <1>1, <1>2, <1>5, <1>6 DEF IsWriteOf, UniqueKeys
<1>11. SenderInv(push(s, e), t, n, NoCall, j) /\ StaysQueued(s, t, push(s, e), t)
  BY <1>4, <1>9, <1>10, PushStep
<1> QED BY <1>11 DEF e, j

-----------------------------------------------------------------------------
(* Output *)

\* Ending a poll without touching the sending side.
LEMMA EndStep ==
    ASSUME NEW s, NEW t, NEW n, NEW k, SenderInv(s, t, n, NoCall, k)
    PROVE  SenderInv(s, t, n, NoCall, NoCall)
BY DEF SenderInv

\* A retransmission carries the next attempt of its packet.
RightAttempt(t, e) ==
    e.kind = "write" => \A j \in Occupied(t) :
        (e.key = t[j].key /\ e.priority = "retransmit") => NextAttempt(t[j], e)

\* u is t with the packet of e marked as sent, if room let e out.
IsNoted(t, u, e, room) ==
    \A j \in Occupied(t) :
        /\ u[j].key = t[j].key
        /\ ~IsWriteOf(e, t[j].key) => u[j] = t[j]
        /\ (IsWriteOf(e, t[j].key) /\ room) => u[j].sent

\* Transmitting a write changes the packet of its key only; a retransmission
\* that was the next attempt stays within the limit.
LEMMA NotedTable ==
    ASSUME NEW t \in TableType, UniqueKeys(t), WithinLimit(t), NEW e, NEW room \in BOOLEAN,
           RightAttempt(t, e)
    PROVE  /\ Noted(t, e, room) \in TableType
           /\ Occupied(Noted(t, e, room)) = Occupied(t)
           /\ UniqueKeys(Noted(t, e, room))
           /\ WithinLimit(Noted(t, e, room))
           /\ IsNoted(t, Noted(t, e, room), e, room)
<1> DEFINE u == Noted(t, e, room)
<1>1. CASE ~(e.kind = "write" /\ room)
  <2>1. u = t
    BY <1>1 DEF Noted
  <2>2. \A j : ~(IsWriteOf(e, t[j].key) /\ room)
    BY <1>1 DEF IsWriteOf
  <2>3. IsNoted(t, t, e, room)
    BY <2>2 DEF IsNoted
  <2> QED BY <2>1, <2>3
<1>2. CASE e.kind = "write" /\ room
  <2>1. \/ u = note_sent(t, e.key)
        \/ u = note_retransmit_sent(t, e.key) /\ e.priority = "retransmit"
    BY <1>2 DEF Noted
  <2> HIDE DEF u
  <2>2. /\ u \in TableType
        /\ Occupied(u) = Occupied(t)
        /\ \A j \in Occupied(t) :
               /\ u[j].key = t[j].key
               /\ t[j].key # e.key => u[j] = t[j]
               /\ t[j].key = e.key => u[j].sent
    BY <2>1, NoteSent, SMTT(30)
  <2>3. UniqueKeys(u)
    BY <2>2 DEF UniqueKeys
  <2>4. ASSUME NEW j \in Occupied(u)
        PROVE  u[j].attempts <= MAX_ATTEMPTS
    <3>1. j \in Occupied(t) /\ t[j].attempts <= MAX_ATTEMPTS
      BY <2>2, <2>4 DEF WithinLimit
    <3>2. CASE u = note_sent(t, e.key)
      <4>1. u[j].attempts = t[j].attempts \/
            (t[j].key = e.key /\ u = note_retransmit_sent(t, e.key) /\ u[j].attempts = t[j].attempts + 1)
        BY <3>1, <3>2, NoteSent, SMTT(30)
      <4>2. CASE u[j].attempts = t[j].attempts
        BY <3>1, <4>2
      <4>3. CASE t[j].key = e.key /\ u[j].attempts = t[j].attempts + 1
        <5>1. SlotOfKey(t, e.key) = j
          <6>1. HoldsKey(t, e.key)
            BY <3>1, <4>3 DEF HoldsKey, Occupied
          <6>2. SlotOfKey(t, e.key) \in Occupied(t) /\ t[SlotOfKey(t, e.key)].key = e.key
            BY <6>1, SlotOfKeyIn
          <6> QED BY <3>1, <4>3, <6>2 DEF UniqueKeys
        <5>2. HoldsKey(t, e.key) /\ j \in Slots /\ t[j] \in InFlightPacket
          BY <3>1, <4>3, OccupiedType DEF HoldsKey
        <5>3. u[j] = Transmitted(t[j])
          BY <3>2, <5>1, <5>2 DEF note_sent, TableType
        <5>4. u[j].attempts = t[j].attempts
          BY <5>2, <5>3 DEF Transmitted, InFlightPacket
        <5> QED BY <3>1, <5>4
      <4> QED BY <4>1, <4>2, <4>3
    <3>3. CASE u = note_retransmit_sent(t, e.key) /\ e.priority = "retransmit"
      <4>1. u[j].attempts = t[j].attempts \/
            (t[j].key = e.key /\ u[j].attempts = t[j].attempts + 1)
        BY <3>1, <3>3, NoteSent, SMTT(30)
      <4>2. t[j].key = e.key => t[j].attempts + 1 <= MAX_ATTEMPTS
        BY <1>2, <3>1, <3>3 DEF NextAttempt, RightAttempt
      <4> QED BY <3>1, <4>1, <4>2
    <3> QED BY <2>1, <3>2, <3>3
  <2>5. WithinLimit(u)
    BY <2>4 DEF WithinLimit
  <2>6. IsNoted(t, u, e, room)
    BY <1>2, <2>2 DEF IsWriteOf, IsNoted
  <2> QED BY <2>2, <2>3, <2>5, <2>6 DEF u
<1> QED BY <1>1, <1>2

\* One event leaves the scheduler.
LEMMA EventStep ==
    ASSUME NEW s, NEW t, NEW n, NEW k, SenderInv(s, t, n, NoCall, k),
           NEW q \in QueueKind, s[q] # <<>>, NEW room \in BOOLEAN
    PROVE  /\ SenderInv(pop(s, q), Noted(t, Head(s[q]), room), n, NoCall, NoCall)
           /\ room => StaysQueued(s, t, pop(s, q), Noted(t, Head(s[q]), room))
<1> DEFINE e == Head(s[q])
           u == Noted(t, e, room)
           v == pop(s, q)
<1>1. /\ s \in SchedulerType /\ t \in TableType /\ UniqueKeys(t) /\ WithinLimit(t)
      /\ UniqueWrites(s) /\ Disciplined(s, t) /\ SchedulerLen(s) <= MAX_EVENTS
  BY DEF SenderInv
<1>2. e \in EngineOutput /\ 1 \in DOMAIN s[q] /\ e = s[q][1]
      /\ v \in SchedulerType /\ SchedulerLen(s) = SchedulerLen(v) + 1
  BY <1>1, PopShifts
<1>3. UniqueWrites(v)
  BY <1>1, PopUnique
<1>4. e.kind = "write" => \A l \in QueueKind : ~HoldsWrite(v[l], e.key)
  BY <1>1, PopUnique
<1>kept. \A key : (/\ ~IsWriteOf(e, key)
                 /\ \E l \in QueueKind : HoldsWrite(s[l], key))
                    => \E l \in QueueKind : HoldsWrite(v[l], key)
  BY <1>1, PopUnique
<1>5. \A l \in QueueKind : \A i \in DOMAIN v[l] :
          \E m \in DOMAIN s[l] : v[l][i] = s[l][m]
  BY <1>1, PopShifts, SMTT(30)
<1> HIDE DEF v, e
<1>6. RightAttempt(t, e)
  BY <1>1, <1>2 DEF Disciplined, IsWriteOf, RightAttempt
<1>7. /\ u \in TableType /\ Occupied(u) = Occupied(t) /\ UniqueKeys(u) /\ WithinLimit(u)
      /\ IsNoted(t, u, e, room)
  BY <1>1, <1>6, NotedTable
<1> HIDE DEF u
<1>8. Disciplined(v, u)
  <2> SUFFICES ASSUME NEW l \in QueueKind, NEW i \in DOMAIN v[l], NEW j \in Occupied(u),
                      IsWriteOf(v[l][i], u[j].key), v[l][i].priority = "retransmit"
               PROVE  NextAttempt(u[j], v[l][i])
    BY DEF Disciplined
  <2>1. j \in Occupied(t) /\ IsWriteOf(v[l][i], t[j].key)
    BY <1>7 DEF IsNoted
  <2>2. ~IsWriteOf(e, t[j].key)
    BY <1>4, <2>1 DEF IsWriteOf, HoldsWrite
  <2>3. u[j] = t[j]
    BY <1>7, <2>1, <2>2 DEF IsNoted
  <2>4. PICK m \in DOMAIN s[l] : v[l][i] = s[l][m]
    BY <1>5
  <2>5. NextAttempt(t[j], s[l][m])
    BY <1>1, <2>1, <2>4 DEF Disciplined
  <2> QED BY <2>3, <2>4, <2>5
<1>9. SchedulerLen(v) <= MAX_EVENTS
  <2>1. SchedulerLen(v) \in Nat /\ SchedulerLen(s) \in Nat
    BY <1>1, <1>2, SchedulerLenType
  <2>2. SchedulerLen(s) <= MAX_EVENTS /\ MAX_EVENTS \in Nat
    BY <1>1, SchedulerAssumption
  <2> QED BY <1>2, <2>1, <2>2, SMTT(30)
<1>10. Room(v, u, NoCall)
  BY DEF Room
<1>11. ASSUME room, QueuedIfUnsent(s, t)
       PROVE  QueuedIfUnsent(v, u)
  <2> SUFFICES ASSUME NEW j \in Occupied(u), ~u[j].sent
               PROVE  \E l \in QueueKind : HoldsWrite(v[l], u[j].key)
    BY DEF QueuedIfUnsent
  <2>1. j \in Occupied(t) /\ room /\ u[j].key = t[j].key
    BY <1>7, <1>11 DEF IsNoted
  <2>2. ~IsWriteOf(e, t[j].key) /\ u[j] = t[j]
    BY <1>7, <2>1 DEF IsNoted
  <2>3. \E l \in QueueKind : HoldsWrite(s[l], t[j].key)
    BY <1>11, <2>1, <2>2 DEF QueuedIfUnsent
  <2> QED BY <1>kept, <2>1, <2>2, <2>3
<1>12. SenderInv(v, u, n, NoCall, NoCall)
  BY <1>2, <1>3, <1>7, <1>8, <1>9, <1>10 DEF SenderInv
<1>13. room => StaysQueued(s, t, v, u)
  BY <1>11 DEF StaysQueued
<1> QED BY <1>12, <1>13 DEF v, u, e

-----------------------------------------------------------------------------
(* Sending *)

\* A message that passes ensure_can_queue_message has room for all its fragments.
LEMMA SendStep ==
    ASSUME NEW s, NEW t, NEW n, SenderInv(s, t, n, NoCall, NoCall),
           NEW type \in MessageTypes, NEW id \in MessageId, NEW body \in Bodies, NEW len \in Nat,
           fragment_count(len) <= SchedulerAvailable(s),
           type = "data" => fragment_count(len) <= MAX_IN_FLIGHT - n
    PROVE  SenderInv(s, t, n, [type |-> type, id |-> id, body |-> body, len |-> len,
                               offset |-> 0, index |-> 0], NoCall)
<1> DEFINE c == [type |-> type, id |-> id, body |-> body, len |-> len,
                 offset |-> 0, index |-> 0]
<1>1. c \in SendCall
  BY SMTT(30) DEF SendCall
<1>2. c.type = type /\ c.len - c.offset = len
  BY SMTT(30)
<1> HIDE DEF c
<1>3. Room(s, t, c)
  BY <1>2 DEF Room, SenderInv
<1>4. SenderInv(s, t, n, c, NoCall)
  BY <1>1, <1>3 DEF SenderInv
<1> QED BY <1>4 DEF c

\* Pushing a fragment's write and tracking its packet keeps retransmissions in
\* order: the write replaces any older write of the same key.
LEMMA TrackDisciplined ==
    ASSUME NEW s \in SchedulerType, NEW t \in TableType, NEW w \in EngineOutput,
           NEW packet \in InFlightPacket,
           UniqueWrites(s), UniqueKeys(t), Disciplined(s, t), WithinLimit(t),
           ~PushFails(s, w), ~TrackFails(t, packet.key),
           w.kind = "write", w.priority = "new_data", w.key = packet.key,
           packet.attempts = 0
    PROVE  Disciplined(push(s, w), track(t, packet)) /\ WithinLimit(track(t, packet))
<1> DEFINE u == track(t, packet)
           v == push(s, w)
<1>1. \A j \in Occupied(u) : \/ u[j] = packet
                             \/ j \in Occupied(t) /\ u[j] = t[j] /\ t[j].key # packet.key
  BY TrackSlot
<1>2. \A l \in QueueKind : \A i \in DOMAIN v[l] : IsWriteOf(v[l][i], w.key) => v[l][i] = w
  BY PushWins
<1>3. Disciplined(v, t)
  BY PushDisciplined
<1> HIDE DEF u, v
<1>4. Disciplined(v, u)
  <2> SUFFICES ASSUME NEW l \in QueueKind, NEW i \in DOMAIN v[l], NEW j \in Occupied(u),
                      IsWriteOf(v[l][i], u[j].key), v[l][i].priority = "retransmit"
               PROVE  NextAttempt(u[j], v[l][i])
    BY DEF Disciplined
  <2>1. u[j] # packet
    BY <1>2
  <2>2. j \in Occupied(t) /\ u[j] = t[j]
    BY <1>1, <2>1
  <2> QED BY <1>3, <2>2 DEF Disciplined
<1>5. WithinLimit(u)
  <2>1. packet.attempts <= MAX_ATTEMPTS
    BY InFlightAssumption, SMTT(30)
  <2> QED BY <1>1, <2>1 DEF WithinLimit
<1> QED BY <1>4, <1>5 DEF u, v

\* Room is left for the fragments after this one.
LEMMA RoomLeft ==
    ASSUME NEW s \in SchedulerType, NEW t, NEW c \in SendCall, Room(s, t, c),
           NEW v \in SchedulerType, NEW u, NEW d \in SendCall,
           SchedulerLen(v) <= SchedulerLen(s) + 1,
           c.type = "data" => Cardinality(Occupied(u)) <= Cardinality(Occupied(t)) + 1,
           d.type = c.type, d.len = c.len,
           d.offset = FragmentEnd(c.offset, c.len), ~(d.offset >= c.len)
    PROVE  Room(v, u, d)
<1>1. /\ c.len \in Nat /\ c.offset \in Nat /\ c.offset <= c.len
      /\ FRAGMENT_BYTES \in Nat \ {0} /\ c # NoCall
  BY SendCallType, PacketsAssumption, CallAssumption
<1>2. d.offset = c.offset + FRAGMENT_BYTES /\ c.offset + FRAGMENT_BYTES < c.len
  BY <1>1, SMTT(30) DEF FragmentEnd
<1>3. PICK x \in Nat : /\ x = c.len - c.offset /\ x > FRAGMENT_BYTES
                       /\ d.len - d.offset = x - FRAGMENT_BYTES
  BY <1>1, <1>2, SMTT(30)
<1>4. PICK left \in Nat : /\ fragment_count(x - FRAGMENT_BYTES) = left
                          /\ fragment_count(x) = left + 1
  <2>1. x - FRAGMENT_BYTES \in Nat
    BY <1>1, <1>3, SMTT(30)
  <2> QED BY <1>3, <2>1, FragmentCount
<1>5. /\ left + 1 <= SchedulerAvailable(s)
      /\ c.type = "data" => left + 1 <= MAX_IN_FLIGHT - Cardinality(Occupied(t))
  BY <1>1, <1>3, <1>4 DEF Room
<1>6. SchedulerLen(s) \in Nat /\ SchedulerLen(v) \in Nat /\ MAX_EVENTS \in Nat
      /\ MAX_IN_FLIGHT \in Nat
      /\ Cardinality(Occupied(t)) \in Nat /\ Cardinality(Occupied(u)) \in Nat
  BY SchedulerLenType, SchedulerAssumption, OccupiedFinite, InFlightAssumption
<1>7. left <= SchedulerAvailable(v)
  BY <1>5, <1>6, SMTT(30) DEF SchedulerAvailable
<1>8. c.type = "data" => left <= MAX_IN_FLIGHT - Cardinality(Occupied(u))
  BY <1>5, <1>6, SMTT(30)
<1> QED BY <1>3, <1>4, <1>7, <1>8 DEF Room

\* w writes a packet for the first time and r is its record.
FreshWrite(w, r) ==
    /\ w \in EngineOutput /\ w.kind = "write" /\ w.priority = "new_data"
    /\ r \in InFlightPacket /\ r.key = w.key /\ r.attempts = 0

\* Tracking the packet of a write that was queued keeps the table exact, the
\* retransmissions in order, and every unsent packet queued.
LEMMA TrackedFragment ==
    ASSUME NEW s, NEW t, NEW n, NEW c, SenderInv(s, t, n, c, NoCall),
           NEW w, NEW r, FreshWrite(w, r), ~PushFails(s, w), ~TrackFails(t, r.key)
    PROVE  /\ track(t, r) \in TableType
           /\ UniqueKeys(track(t, r))
           /\ TrackedLen(t, n, r.key) = Cardinality(Occupied(track(t, r)))
           /\ Cardinality(Occupied(track(t, r))) <= Cardinality(Occupied(t)) + 1
           /\ Disciplined(push(s, w), track(t, r))
           /\ WithinLimit(track(t, r))
           /\ StaysQueued(s, t, push(s, w), track(t, r))
<1> DEFINE u == track(t, r)
<1>0. /\ s \in SchedulerType /\ t \in TableType /\ n = Cardinality(Occupied(t))
      /\ UniqueWrites(s) /\ UniqueKeys(t) /\ Disciplined(s, t) /\ WithinLimit(t)
      /\ w \in EngineOutput /\ w.kind = "write" /\ w.priority = "new_data"
      /\ r \in InFlightPacket /\ w.key = r.key /\ r.attempts = 0
  BY DEF SenderInv, FreshWrite
<1>1. \A key : (\E q \in QueueKind : HoldsWrite(s[q], key))
               => \E q \in QueueKind : HoldsWrite(push(s, w)[q], key)
  BY <1>0, PushKeeps
<1>2. \E q \in QueueKind : HoldsWrite(push(s, w)[q], w.key)
  BY <1>0, PushWins
<1>3. /\ u \in TableType /\ UniqueKeys(u)
      /\ TrackedLen(t, n, r.key) = Cardinality(Occupied(u))
      /\ Cardinality(Occupied(u)) <= Cardinality(Occupied(t)) + 1
      /\ \A j \in Occupied(u) : u[j] = r \/ (j \in Occupied(t) /\ u[j] = t[j])
  BY <1>0, TrackSlot, ZenonT(30)
<1>4. Disciplined(push(s, w), u) /\ WithinLimit(u)
  BY <1>0, TrackDisciplined
<1> HIDE DEF u
<1>5. StaysQueued(s, t, push(s, w), u)
  <2> SUFFICES ASSUME QueuedIfUnsent(s, t), NEW j \in Occupied(u), ~u[j].sent
               PROVE  \E q \in QueueKind : HoldsWrite(push(s, w)[q], u[j].key)
    BY DEF StaysQueued, QueuedIfUnsent
  <2>1. CASE u[j] = r
    <3>1. u[j].key = w.key
      BY <1>0, <2>1
    <3> QED BY <1>2, <3>1
  <2>2. CASE j \in Occupied(t) /\ u[j] = t[j]
    <3>1. \E q \in QueueKind : HoldsWrite(s[q], u[j].key)
      BY <2>2 DEF QueuedIfUnsent
    <3> QED BY <1>1, <3>1
  <2> QED BY <1>3, <2>1, <2>2
<1> QED BY <1>3, <1>4, <1>5 DEF u

\* One fragment is queued, and tracked if it is reliable.
LEMMA FragmentStep ==
    ASSUME NEW s, NEW t, NEW n, NEW c, SenderInv(s, t, n, c, NoCall), c # NoCall
    PROVE  /\ SenderInv(push(s, NextWrite(c)), TableAfter(t, c), LenAfter(t, n, c),
                        CallAfter(c), NoCall)
           /\ StaysQueued(s, t, push(s, NextWrite(c)), TableAfter(t, c))
<1> DEFINE f == NextFragment(c)
           w == NextWrite(c)
           r == NextRecord(c)
           u == TableAfter(t, c)
           m == LenAfter(t, n, c)
           end == FragmentEnd(c.offset, c.len)
           d == CallAfter(c)
<1>defs. /\ f = FragmentAt(c.type, c.id, c.body, c.len, c.offset, c.index)
         /\ w = Write(KeyOf(f), f, 0, "new_data")
         /\ r = [key |-> KeyOf(f), packet |-> f, attempts |-> 0, age |-> 0, sent |-> FALSE]
         /\ u = IF c.type = "data" THEN track(t, r) ELSE t
         /\ m = IF c.type = "data" THEN TrackedLen(t, n, KeyOf(f)) ELSE n
         /\ end = FragmentEnd(c.offset, c.len)
         /\ d = IF end >= c.len THEN NoCall ELSE Advanced(c, end)
  BY DEF NextFragment, NextWrite, NextRecord, TableAfter, LenAfter, CallAfter
<1> HIDE DEF f, w, r, u, m, end, d
<1>1. /\ s \in SchedulerType /\ t \in TableType /\ c \in SendCall
      /\ UniqueWrites(s) /\ UniqueKeys(t) /\ WithinLimit(t) /\ Disciplined(s, t)
      /\ SchedulerLen(s) <= MAX_EVENTS /\ n = Cardinality(Occupied(t)) /\ Room(s, t, c)
  BY DEF SenderInv
<1>2. /\ c.type \in MessageTypes /\ c.id \in MessageId /\ c.body \in Bodies
      /\ c.len \in Nat /\ c.offset \in Nat /\ c.index \in Nat /\ c.offset <= c.len
  BY <1>1, SendCallType
<1>3. end \in Nat /\ end <= c.len /\ f \in Fragment /\ KeyOf(f) \in PacketKey
  BY <1>2, <1>defs, FragmentType
<1>4. /\ w \in EngineOutput /\ w.kind = "write" /\ w.key = KeyOf(f)
      /\ w.priority = "new_data"
  <2>1. f \in Packet /\ "new_data" \in WritePriority
    BY <1>3 DEF Packet, WritePriority
  <2>2. w \in EngineOutput
    BY <1>3, <1>defs, <2>1, EventType
  <2> QED BY <1>defs, <2>2 DEF Write
<1>5. r \in InFlightPacket /\ r.key = KeyOf(f) /\ r.attempts = 0
  <2>1. 0 \in 0 .. RTO
    BY InFlightAssumption, SMTT(30)
  <2>2. r \in InFlightPacket
    BY <1>3, <1>defs, <2>1 DEF InFlightPacket
  <2> QED BY <1>defs, <2>2
<1>6. ~PushFails(s, w) /\ (c.type = "data" => ~TrackFails(t, KeyOf(f)))
  BY <1>defs, RoomSuffices
<1>7. /\ push(s, w) \in SchedulerType /\ SchedulerLen(push(s, w)) <= MAX_EVENTS
      /\ SchedulerLen(push(s, w)) <= SchedulerLen(s) + 1
  BY <1>1, <1>4, PushType
<1>8. UniqueWrites(push(s, w))
  BY <1>1, <1>4, PushUnique
<1>9. /\ u \in TableType /\ UniqueKeys(u) /\ m = Cardinality(Occupied(u))
      /\ Disciplined(push(s, w), u) /\ WithinLimit(u)
      /\ c.type = "data" => Cardinality(Occupied(u)) <= Cardinality(Occupied(t)) + 1
      /\ StaysQueued(s, t, push(s, w), u)
  <2>kept. \A key : (\E q \in QueueKind : HoldsWrite(s[q], key))
                    => \E q \in QueueKind : HoldsWrite(push(s, w)[q], key)
    BY <1>1, <1>4, PushKeeps
  <2>1. CASE c.type = "data"
    <3>1. u = track(t, r) /\ m = TrackedLen(t, n, r.key) /\ ~TrackFails(t, r.key)
      BY <1>5, <1>6, <1>defs, <2>1
    <3>2. FreshWrite(w, r)
      BY <1>4, <1>5 DEF FreshWrite
    <3>3. ~TrackFails(t, r.key)
      BY <3>1
    <3>4. /\ track(t, r) \in TableType
          /\ UniqueKeys(track(t, r))
          /\ TrackedLen(t, n, r.key) = Cardinality(Occupied(track(t, r)))
          /\ Cardinality(Occupied(track(t, r))) <= Cardinality(Occupied(t)) + 1
          /\ Disciplined(push(s, w), track(t, r))
          /\ WithinLimit(track(t, r))
          /\ StaysQueued(s, t, push(s, w), track(t, r))
      BY <1>6, <3>2, <3>3, TrackedFragment
    <3> QED BY <3>1, <3>4
  <2>2. CASE c.type # "data"
    <3>1. u = t /\ m = n
      BY <1>defs, <2>2
    <3>2. Disciplined(push(s, w), t)
      BY <1>1, <1>4, PushDisciplined
    <3>3. StaysQueued(s, t, push(s, w), t)
      BY <2>kept DEF StaysQueued, QueuedIfUnsent
    <3> QED BY <1>1, <2>2, <3>1, <3>2, <3>3
  <2> QED BY <2>1, <2>2
<1>10. d \in SendCall \cup {NoCall} /\ Room(push(s, w), u, d)
  <2>1. CASE end >= c.len
    BY <1>defs, <2>1 DEF Room
  <2>2. CASE ~(end >= c.len)
    <3>1. d \in SendCall /\ d.type = c.type /\ d.len = c.len /\ d.offset = end
      <4>1. d = Advanced(c, end)
        BY <1>defs, <2>2
      <4> QED BY <1>1, <1>3, <4>1, SendCallNext, SMTT(30)
    <3>2. Room(push(s, w), u, d)
      <4>1. /\ Room(s, t, c) /\ SchedulerLen(push(s, w)) <= SchedulerLen(s) + 1
            /\ c.type = "data" => Cardinality(Occupied(u)) <= Cardinality(Occupied(t)) + 1
            /\ d.offset = FragmentEnd(c.offset, c.len) /\ ~(d.offset >= c.len)
        BY <1>1, <1>7, <1>9, <1>defs, <2>2, <3>1
      <4> QED BY <1>1, <1>7, <3>1, <4>1, RoomLeft
    <3> QED BY <3>1, <3>2
  <2> QED BY <2>1, <2>2
<1>11. SenderInv(push(s, w), u, m, d, NoCall)
  BY <1>7, <1>8, <1>9, <1>10 DEF SenderInv
<1> QED BY <1>9, <1>11 DEF w, u, m, d

-----------------------------------------------------------------------------
(* The invariant of all engines *)

Sets(f, g, p, v) == g = [f EXCEPT ![p] = v] \/ (g = f /\ v = f[p])

\* A step keeps the writes of the unsent packets of p.
UnsentStays(p) == StaysQueued(queues[p], in_flight[p], queues'[p], in_flight'[p])

AllStay == \A p \in Peers : UnsentStays(p)

\* A step of one engine that preserves the invariant of its sending side
\* preserves the invariant of all.
LEMMA LiftSender ==
    ASSUME SenderOK, NEW p \in Peers, NEW s, NEW t, NEW n, NEW c, NEW k,
           SenderInv(s, t, n, c, k),
           Sets(queues, queues', p, s), Sets(in_flight, in_flight', p, t),
           Sets(in_flight_len, in_flight_len', p, n), Sets(sending, sending', p, c),
           Sets(ticking, ticking', p, k)
    PROVE  /\ SenderOK'
           /\ \A q \in Peers :
                  q # p \/ StaysQueued(queues[p], in_flight[p], s, t) => UnsentStays(q)
<1>1. s \in SchedulerType /\ t \in TableType /\ n \in Nat
      /\ c \in SendCall \cup {NoCall} /\ k \in TickCall \cup {NoCall}
  BY OccupiedFinite DEF SenderInv
<1>2. /\ queues' \in [Peers -> SchedulerType] /\ queues'[p] = s
      /\ \A q \in Peers : q # p => queues'[q] = queues[q]
  BY <1>1 DEF SenderOK, Sets
<1>3. /\ in_flight' \in [Peers -> TableType] /\ in_flight'[p] = t
      /\ \A q \in Peers : q # p => in_flight'[q] = in_flight[q]
  BY <1>1 DEF SenderOK, Sets
<1>4. /\ in_flight_len' \in [Peers -> Nat] /\ in_flight_len'[p] = n
      /\ \A q \in Peers : q # p => in_flight_len'[q] = in_flight_len[q]
  BY <1>1 DEF SenderOK, Sets
<1>5. /\ sending' \in [Peers -> SendCall \cup {NoCall}] /\ sending'[p] = c
      /\ \A q \in Peers : q # p => sending'[q] = sending[q]
  BY <1>1 DEF SenderOK, Sets
<1>6. /\ ticking' \in [Peers -> TickCall \cup {NoCall}] /\ ticking'[p] = k
      /\ \A q \in Peers : q # p => ticking'[q] = ticking[q]
  BY <1>1 DEF SenderOK, Sets
<1>7. ASSUME NEW q \in Peers
      PROVE  SenderInv(queues'[q], in_flight'[q], in_flight_len'[q], sending'[q], ticking'[q])
  <2>1. CASE q = p
    BY <1>2, <1>3, <1>4, <1>5, <1>6, <2>1
  <2>2. CASE q # p
    BY <1>2, <1>3, <1>4, <1>5, <1>6, <1>7, <2>2 DEF SenderOK
  <2> QED BY <2>1, <2>2
<1>8. \A q \in Peers :
          q # p \/ StaysQueued(queues[p], in_flight[p], s, t) => UnsentStays(q)
  BY <1>2, <1>3 DEF UnsentStays, StaysQueued
<1> QED BY <1>2, <1>3, <1>4, <1>5, <1>6, <1>7, <1>8 DEF SenderOK

\* The same for the receiving side.
LEMMA LiftReceiver ==
    ASSUME ReceiverOK, NEW p \in Peers, NEW a \in Seq(PacketKey), NEW d \in Seq(PacketKey),
           NEW r \in ReassemblyType, NEW m \in Seq(MessageEvent), Window(d), Pending(r),
           Sets(acks, acks', p, a), Sets(dedup, dedup', p, d),
           Sets(reassembly, reassembly', p, r), Sets(messages, messages', p, m)
    PROVE  ReceiverOK'
<1>1. acks' \in [Peers -> Seq(PacketKey)] /\ messages' \in [Peers -> Seq(MessageEvent)]
  BY DEF ReceiverOK, Sets
<1>2. /\ dedup' \in [Peers -> Seq(PacketKey)] /\ dedup'[p] = d
      /\ \A q \in Peers : q # p => dedup'[q] = dedup[q]
  BY DEF ReceiverOK, Sets
<1>3. /\ reassembly' \in [Peers -> ReassemblyType] /\ reassembly'[p] = r
      /\ \A q \in Peers : q # p => reassembly'[q] = reassembly[q]
  BY DEF ReceiverOK, Sets
<1>4. \A q \in Peers : Window(dedup'[q]) /\ Pending(reassembly'[q])
  BY <1>2, <1>3 DEF ReceiverOK
<1> QED BY <1>1, <1>2, <1>3, <1>4 DEF ReceiverOK

\* What a step leaves alone stays well formed.
LEMMA Unchanged ==
    /\ (SenderOK /\ UNCHANGED <<queues, in_flight, in_flight_len, callVars>>) => SenderOK'
    /\ (ReceiverOK /\ UNCHANGED receiveVars) => ReceiverOK'
    /\ (NumbersOK /\ UNCHANGED <<next_id, ticked>>) => NumbersOK'
    /\ UNCHANGED <<queues, in_flight>> => AllStay
<1>1. (SenderOK /\ UNCHANGED <<queues, in_flight, in_flight_len, callVars>>) => SenderOK'
  BY DEF SenderOK, callVars
<1>2. (ReceiverOK /\ UNCHANGED receiveVars) => ReceiverOK'
  BY DEF ReceiverOK, receiveVars
<1>3. (NumbersOK /\ UNCHANGED <<next_id, ticked>>) => NumbersOK'
  BY DEF NumbersOK
<1>4. UNCHANGED <<queues, in_flight>> => AllStay
  BY DEF AllStay, UnsentStays, StaysQueued
<1> QED BY <1>1, <1>2, <1>3, <1>4

-----------------------------------------------------------------------------
(* The receiving side *)

\* A new key enters the ring; the oldest leaves when the ring is full.
LEMMA RememberWindow ==
    ASSUME NEW d \in Seq(PacketKey), Window(d), NEW key \in PacketKey, key \notin Range(d)
    PROVE  Remember(d, key) \in Seq(PacketKey) /\ Window(Remember(d, key))
<1> DEFINE b == IF Len(d) = MAX_IN_FLIGHT THEN Tail(d) ELSE d
           u == Append(b, key)
<1>1. MAX_IN_FLIGHT \in Nat \ {0} /\ Len(d) \in Nat /\ DOMAIN d = 1 .. Len(d)
  BY InFlightAssumption, SMTT(30)
<1>2. \A i \in DOMAIN d : d[i] # key
  BY DEF Range
<1>3. b \in Seq(PacketKey) /\ Len(b) < MAX_IN_FLIGHT
      /\ (\A i, j \in DOMAIN b : b[i] = b[j] => i = j) /\ (\A i \in DOMAIN b : b[i] # key)
  <2>1. CASE Len(d) = MAX_IN_FLIGHT
    <3>1. d # <<>> /\ b = Tail(d)
      BY <1>1, <2>1
    <3> HIDE DEF b
    <3>2. b \in Seq(PacketKey) /\ Len(b) = Len(d) - 1
          /\ \A i \in 1 .. Len(b) : b[i] = d[i + 1] /\ i + 1 \in DOMAIN d
      BY <1>1, <3>1, SMTT(30)
    <3>3. DOMAIN b = 1 .. Len(b)
      BY <3>2, SMTT(30)
    <3>4. \A i \in DOMAIN b : b[i] = d[i + 1] /\ i + 1 \in DOMAIN d /\ i \in Nat
      BY <3>2, <3>3, SMTT(30)
    <3>5. \A i, j \in DOMAIN b : b[i] = b[j] => i = j
      <4> SUFFICES ASSUME NEW i \in DOMAIN b, NEW j \in DOMAIN b, b[i] = b[j]
                   PROVE  i = j
        OBVIOUS
      <4>1. i + 1 = j + 1
        BY <3>4 DEF Window
      <4> QED BY <3>4, <4>1, SMTT(30)
    <3>6. \A i \in DOMAIN b : b[i] # key
      BY <1>2, <3>4
    <3> QED BY <1>1, <2>1, <3>2, <3>5, <3>6, SMTT(30)
  <2>2. CASE Len(d) # MAX_IN_FLIGHT
    <3>1. b = d
      BY <2>2
    <3> HIDE DEF b
    <3>2. Len(d) < MAX_IN_FLIGHT
      <4>1. Len(d) <= MAX_IN_FLIGHT
        BY DEF Window
      <4>2. PICK x \in Nat : x = Len(d)
        BY <1>1
      <4>3. x <= MAX_IN_FLIGHT /\ x # MAX_IN_FLIGHT
        BY <2>2, <4>1, <4>2
      <4>4. x < MAX_IN_FLIGHT
        BY <1>1, <4>3, SMTT(30)
      <4> QED BY <4>2, <4>4
    <3>3. \A i, j \in DOMAIN d : d[i] = d[j] => i = j
      BY DEF Window
    <3> QED BY <1>2, <3>1, <3>2, <3>3
  <2> QED BY <2>1, <2>2
<1> HIDE DEF b
<1>4. u \in Seq(PacketKey) /\ Len(u) = Len(b) + 1 /\ Len(b) \in Nat
  BY <1>3, SMTT(30)
<1>5. DOMAIN u = 1 .. Len(b) + 1 /\ DOMAIN b = 1 .. Len(b)
  BY <1>3, <1>4, SMTT(30)
<1>6. \A i \in DOMAIN u : \/ i \in DOMAIN b /\ u[i] = b[i]
                          \/ i = Len(b) + 1 /\ u[i] = key
  BY <1>3, <1>4, <1>5, SMTT(30)
<1>7. Window(u)
  <2>1. Len(u) <= MAX_IN_FLIGHT
    BY <1>1, <1>3, <1>4, SMTT(30)
  <2>2. \A i, j \in DOMAIN u : u[i] = u[j] => i = j
    BY <1>3, <1>6
  <2> QED BY <2>1, <2>2 DEF Window
<1> QED BY <1>4, <1>7 DEF b, Remember

\* Queueing an ACK keeps the type of the queue.
LEMMA QueueAckType ==
    ASSUME ReceiverOK, NEW p \in Peers, NEW f, KeyOf(f) \in PacketKey, queue_ack(p, f)
    PROVE  \E a \in Seq(PacketKey) : Sets(acks, acks', p, a)
<1>1. acks[p] \in Seq(PacketKey) /\ Append(acks[p], KeyOf(f)) \in Seq(PacketKey)
  BY SMTT(30) DEF ReceiverOK
<1>2. CASE acks' = [acks EXCEPT ![p] = Append(acks[p], KeyOf(f))]
  BY <1>1, <1>2 DEF Sets
<1>3. CASE acks' = acks
  BY <1>1, <1>3 DEF Sets
<1> QED BY <1>2, <1>3 DEF queue_ack

\* Reassembling a fragment keeps the slots pending and the message queue typed.
LEMMA ReassembleType ==
    ASSUME ReceiverOK, NEW p \in Peers, NEW f \in Fragment, Reassemble(p, f)
    PROVE  /\ \E r \in ReassemblyType : Pending(r) /\ Sets(reassembly, reassembly', p, r)
           /\ \E m \in Seq(MessageEvent) : Sets(messages, messages', p, m)
<1>1. reassembly[p] \in ReassemblyType /\ Pending(reassembly[p]) /\ messages[p] \in Seq(MessageEvent)
  BY DEF ReceiverOK
<1>2. ~Rejects(reassembly[p], f)
  BY DEF Reassemble
<1>3. observe(reassembly[p], f) \in ReassemblyType /\ Pending(observe(reassembly[p], f))
  BY <1>1, <1>2, ObservePending
<1>4. Sets(reassembly, reassembly', p, observe(reassembly[p], f))
  BY DEF Reassemble, Sets
<1>5. Enqueue(messages[p], MessageOf(Filled(reassembly[p], f))) \in Seq(MessageEvent)
  BY <1>1, <1>2, FilledType, MessageOfType, EnqueueType
<1>6. \/ Sets(messages, messages', p, Enqueue(messages[p], MessageOf(Filled(reassembly[p], f))))
      \/ Sets(messages, messages', p, messages[p])
  BY DEF Reassemble, Sets
<1> QED BY <1>1, <1>3, <1>4, <1>5, <1>6

-----------------------------------------------------------------------------
(* The actions *)

\* The next lemmas take the steps of the engine one by one: each keeps IndInv.
\* A send call that is let through has room for all its fragments.
LEMMA SendPreserves ==
    ASSUME IndInv, NEW p \in Peers, NEW type \in MessageTypes, NEW len \in Lengths,
           NEW body \in Bodies, Send(p, type, len, body)
    PROVE  IndInv' /\ AllStay
<1> DEFINE c == [type |-> type, id |-> next_id'[p], body |-> body, len |-> len,
                 offset |-> 0, index |-> 0]
<1>1. SenderInv(queues[p], in_flight[p], in_flight_len[p], NoCall, NoCall) /\ ticking[p] = NoCall
  BY SenderAt DEF IndInv, Send, Idle
<1>2. NumbersOK' /\ next_id'[p] \in MessageId
  BY NextId DEF IndInv, Send
<1>3. len \in Nat
  BY EngineAssumption
<1>4. /\ fragment_count(len) <= SchedulerAvailable(queues[p])
      /\ type = "data" => fragment_count(len) <= MAX_IN_FLIGHT - in_flight_len[p]
  BY DEF Send, CanSend, ensure_can_queue_message
<1>5. SenderInv(queues[p], in_flight[p], in_flight_len[p], c, NoCall)
  BY <1>1, <1>2, <1>3, <1>4, SendStep
<1>6. Sets(sending, sending', p, c)
  BY DEF Send, Sets
<1> HIDE DEF c
<1>7. /\ Sets(queues, queues', p, queues[p]) /\ Sets(in_flight, in_flight', p, in_flight[p])
      /\ Sets(in_flight_len, in_flight_len', p, in_flight_len[p])
      /\ Sets(ticking, ticking', p, NoCall)
  BY <1>1 DEF Send, Sets
<1>8. SenderOK'
  BY <1>5, <1>6, <1>7, LiftSender DEF IndInv
<1>9. ReceiverOK'
  BY Unchanged DEF IndInv, Send
<1>10. AllStay
  BY Unchanged DEF Send
<1> QED BY <1>2, <1>8, <1>9, <1>10 DEF IndInv

\* A refused send uses up a message id and changes nothing else.
LEMMA SendRefusedPreserves ==
    ASSUME IndInv, NEW p \in Peers, NEW type, NEW len, SendRefused(p, type, len)
    PROVE  IndInv' /\ AllStay
<1>1. NumbersOK'
  BY NextId DEF IndInv, SendRefused
<1>2. SenderOK' /\ ReceiverOK' /\ AllStay
  BY Unchanged DEF IndInv, SendRefused
<1> QED BY <1>1, <1>2 DEF IndInv

\* A round of the send loop uses one of the places set aside for it.
LEMMA SendFragmentPreserves ==
    ASSUME IndInv, NEW p \in Peers, SendFragment(p)
    PROVE  IndInv' /\ AllStay
<1> DEFINE s == queues[p]
           t == in_flight[p]
           n == in_flight_len[p]
           c == sending[p]
           w == NextWrite(c)
           u == TableAfter(t, c)
           m == LenAfter(t, n, c)
           d == CallAfter(c)
<1>1. SenderInv(s, t, n, c, NoCall) /\ c # NoCall /\ ticking[p] = NoCall
  BY SenderAt DEF IndInv, SendFragment
<1>2. /\ ~PushFails(s, NextWrite(c))
      /\ c.type = "data" => ~TrackFails(t, KeyOf(NextFragment(c)))
  BY <1>1, RoomSuffices DEF NextWrite, NextFragment
<1>3. SenderInv(push(s, w), u, m, d, NoCall) /\ StaysQueued(s, t, push(s, w), u)
  BY <1>1, FragmentStep
<1>4. /\ queues' = [queues EXCEPT ![p] = push(s, w)]
      /\ in_flight' = [in_flight EXCEPT ![p] = u]
      /\ in_flight_len' = [in_flight_len EXCEPT ![p] = m]
      /\ sending' = [sending EXCEPT ![p] = d]
      /\ ticking' = ticking
  BY <1>2
  DEF SendFragment, NextWrite, NextFragment, NextRecord, TableAfter, LenAfter, CallAfter
<1>s. s = queues[p] /\ t = in_flight[p]
  OBVIOUS
<1> HIDE DEF s, t, n, c, w, u, m, d
<1>5. /\ Sets(queues, queues', p, push(s, w)) /\ Sets(in_flight, in_flight', p, u)
      /\ Sets(in_flight_len, in_flight_len', p, m) /\ Sets(sending, sending', p, d)
      /\ Sets(ticking, ticking', p, NoCall)
  BY <1>1, <1>4 DEF Sets
<1>6. SenderOK' /\ AllStay
  BY <1>3, <1>5, <1>s, LiftSender DEF IndInv, AllStay
<1>7. ReceiverOK' /\ NumbersOK'
  BY Unchanged DEF IndInv, SendFragment
<1> QED BY <1>6, <1>7 DEF IndInv

\* Pushing a liveness packet is all that SendPing and ReceivePing do.
LEMMA LivenessPreserves ==
    ASSUME IndInv, NEW p \in Peers, NEW packet, SendPing(p) \/ ReceivePing(p, packet)
    PROVE  IndInv' /\ AllStay
<1>1. SenderInv(queues[p], in_flight[p], in_flight_len[p], NoCall, NoCall)
      /\ sending[p] = NoCall /\ ticking[p] = NoCall
  BY SenderAt DEF IndInv, SendPing, ReceivePing, Idle
<1>2. PICK q \in {Ping, Pong}, priority \in {"control", "new_data"} :
          queues' = [queues EXCEPT ![p] = push(@, Write(LivenessKey, q, 0, priority))]
  BY DEF SendPing, ReceivePing
<1>3. /\ SenderInv(push(queues[p], Write(LivenessKey, q, 0, priority)),
                   in_flight[p], in_flight_len[p], NoCall, NoCall)
      /\ StaysQueued(queues[p], in_flight[p],
                     push(queues[p], Write(LivenessKey, q, 0, priority)), in_flight[p])
  BY <1>1, LivenessStep
<1>4. UNCHANGED <<next_id, in_flight, in_flight_len, ticked, receiveVars, callVars>>
  BY DEF SendPing, ReceivePing
<1>5. /\ Sets(queues, queues', p, push(queues[p], Write(LivenessKey, q, 0, priority)))
      /\ Sets(in_flight, in_flight', p, in_flight[p])
      /\ Sets(in_flight_len, in_flight_len', p, in_flight_len[p])
      /\ Sets(sending, sending', p, NoCall) /\ Sets(ticking, ticking', p, NoCall)
  BY <1>1, <1>2, <1>4 DEF Sets, callVars
<1>6. SenderOK' /\ AllStay
  BY <1>3, <1>5, LiftSender DEF IndInv, AllStay
<1>7. ReceiverOK' /\ NumbersOK'
  BY <1>4, Unchanged DEF IndInv
<1> QED BY <1>6, <1>7 DEF IndInv

\* Receiving an ACK changes the in-flight table only.
LEMMA ReceiveAckPreserves ==
    ASSUME IndInv, NEW p \in Peers, NEW a, ReceiveAck(p, a)
    PROVE  IndInv' /\ AllStay
<1> DEFINE t == apply_ack(in_flight[p], KeyOf(a))
           n == AckedLen(in_flight[p], in_flight_len[p], KeyOf(a))
<1>1. SenderInv(queues[p], in_flight[p], in_flight_len[p], NoCall, NoCall)
      /\ sending[p] = NoCall /\ ticking[p] = NoCall
  BY SenderAt DEF IndInv, ReceiveAck, Idle
<1>2. SenderInv(queues[p], t, n, NoCall, NoCall)
      /\ StaysQueued(queues[p], in_flight[p], queues[p], t)
  BY <1>1, AckStep
<1>3. in_flight' = [in_flight EXCEPT ![p] = t] /\ in_flight_len' = [in_flight_len EXCEPT ![p] = n]
  BY DEF ReceiveAck
<1> HIDE DEF t, n
<1>4. UNCHANGED <<next_id, queues, ticked, receiveVars, callVars>>
  BY DEF ReceiveAck
<1>5. /\ Sets(queues, queues', p, queues[p]) /\ Sets(in_flight, in_flight', p, t)
      /\ Sets(in_flight_len, in_flight_len', p, n)
      /\ Sets(sending, sending', p, NoCall) /\ Sets(ticking, ticking', p, NoCall)
  BY <1>1, <1>3, <1>4 DEF Sets, callVars
<1>6. SenderOK' /\ AllStay
  BY <1>2, <1>5, LiftSender DEF IndInv, AllStay
<1>7. ReceiverOK' /\ NumbersOK'
  BY <1>4, Unchanged DEF IndInv
<1> QED BY <1>6, <1>7 DEF IndInv

\* Receiving any packet, by the packet's type.
LEMMA ReceivePreserves ==
    ASSUME IndInv, NEW p \in Peers, NEW f \in Packet, Receive(p, f)
    PROVE  IndInv' /\ AllStay
<1>1. CASE ReceiveAck(p, f)
  BY <1>1, ReceiveAckPreserves
<1>2. CASE ReceivePing(p, f)
  BY <1>2, LivenessPreserves
<1>3. CASE ReceiveDuplicate(p, f)
  <2>1. SenderOK' /\ NumbersOK' /\ AllStay
    BY <1>3, Unchanged DEF IndInv, ReceiveDuplicate, sendVars, callVars
  <2>2. f \in Fragment /\ KeyOf(f) \in PacketKey
    BY <1>3, IncomingFragment DEF ReceiveDuplicate, MessageTypes
  <2>3. PICK a \in Seq(PacketKey) : Sets(acks, acks', p, a)
    BY <1>3, <2>2, QueueAckType DEF IndInv, ReceiveDuplicate
  <2>4. /\ dedup[p] \in Seq(PacketKey) /\ reassembly[p] \in ReassemblyType
        /\ messages[p] \in Seq(MessageEvent) /\ Window(dedup[p]) /\ Pending(reassembly[p])
    BY DEF IndInv, ReceiverOK
  <2>5. /\ Sets(dedup, dedup', p, dedup[p]) /\ Sets(reassembly, reassembly', p, reassembly[p])
        /\ Sets(messages, messages', p, messages[p])
    BY <1>3 DEF ReceiveDuplicate, Sets
  <2>6. ReceiverOK'
    BY <2>3, <2>4, <2>5, LiftReceiver DEF IndInv
  <2> QED BY <2>1, <2>6 DEF IndInv
<1>4. CASE ReceiveData(p, f)
  <2>1. SenderOK' /\ NumbersOK' /\ AllStay
    BY <1>4, Unchanged DEF IndInv, ReceiveData, sendVars, callVars
  <2>2. f \in Fragment /\ KeyOf(f) \in PacketKey
    BY <1>4, IncomingFragment DEF ReceiveData, MessageTypes
  <2>3. PICK a \in Seq(PacketKey) : Sets(acks, acks', p, a)
    BY <1>4, <2>2, QueueAckType DEF IndInv, ReceiveData
  <2>4. PICK r \in ReassemblyType : Pending(r) /\ Sets(reassembly, reassembly', p, r)
    BY <1>4, <2>2, ReassembleType DEF IndInv, ReceiveData
  <2>5. PICK m \in Seq(MessageEvent) : Sets(messages, messages', p, m)
    BY <1>4, <2>2, ReassembleType DEF IndInv, ReceiveData
  <2>6. dedup[p] \in Seq(PacketKey) /\ Window(dedup[p]) /\ KeyOf(f) \notin Range(dedup[p])
    BY <1>4 DEF IndInv, ReceiverOK, ReceiveData, is_duplicate
  <2>7. Remember(dedup[p], KeyOf(f)) \in Seq(PacketKey) /\ Window(Remember(dedup[p], KeyOf(f)))
    BY <2>2, <2>6, RememberWindow
  <2>8. Sets(dedup, dedup', p, Remember(dedup[p], KeyOf(f)))
    BY <1>4 DEF ReceiveData, Sets
  <2>9. ReceiverOK'
    BY <2>3, <2>4, <2>5, <2>7, <2>8, LiftReceiver DEF IndInv
  <2> QED BY <2>1, <2>9 DEF IndInv
<1>5. CASE ReceiveLog(p, f)
  <2>1. SenderOK' /\ NumbersOK' /\ AllStay
    BY <1>5, Unchanged DEF IndInv, ReceiveLog, sendVars, callVars
  <2>2. f \in Fragment
    BY <1>5, IncomingFragment DEF ReceiveLog, MessageTypes
  <2>3. PICK r \in ReassemblyType : Pending(r) /\ Sets(reassembly, reassembly', p, r)
    BY <1>5, <2>2, ReassembleType DEF IndInv, ReceiveLog
  <2>4. PICK m \in Seq(MessageEvent) : Sets(messages, messages', p, m)
    BY <1>5, <2>2, ReassembleType DEF IndInv, ReceiveLog
  <2>5. acks[p] \in Seq(PacketKey) /\ dedup[p] \in Seq(PacketKey) /\ Window(dedup[p])
    BY DEF IndInv, ReceiverOK
  <2>6. Sets(acks, acks', p, acks[p]) /\ Sets(dedup, dedup', p, dedup[p])
    BY <1>5 DEF ReceiveLog, Sets
  <2>7. ReceiverOK'
    BY <2>3, <2>4, <2>5, <2>6, LiftReceiver DEF IndInv
  <2> QED BY <2>1, <2>7 DEF IndInv
<1> QED BY <1>1, <1>2, <1>3, <1>4, <1>5 DEF Receive

\* The start of poll: the clock advances and the tick collects its work.
LEMMA PollPreserves ==
    ASSUME IndInv, NEW p \in Peers, NEW delta \in Nat, Poll(p, delta)
    PROVE  IndInv' /\ AllStay
<1> DEFINE t == Aged(in_flight[p], delta)
           runs == ~(ticked[p] /\ delta = 0)
           k == [failed |-> IF runs THEN Exhausted(t) ELSE {},
                 retransmits |-> IF runs THEN Retransmittable(t) ELSE {}]
<1>1. SenderInv(queues[p], in_flight[p], in_flight_len[p], NoCall, NoCall)
      /\ sending[p] = NoCall
  BY SenderAt DEF IndInv, Poll, Idle
<1>2. delta \in Nat
  OBVIOUS
<1>3. \/ k = [failed |-> Exhausted(t), retransmits |-> Retransmittable(t)]
      \/ k = [failed |-> {}, retransmits |-> {}]
  OBVIOUS
<1>4. in_flight' = [in_flight EXCEPT ![p] = t] /\ ticking' = [ticking EXCEPT ![p] = k]
  BY DEF Poll
<1> HIDE DEF k
<1>5. SenderInv(queues[p], t, in_flight_len[p], NoCall, k)
      /\ StaysQueued(queues[p], in_flight[p], queues[p], t)
  BY <1>1, <1>2, <1>3, PollStep
<1> HIDE DEF t
<1>6. /\ Sets(queues, queues', p, queues[p]) /\ Sets(in_flight, in_flight', p, t)
      /\ Sets(in_flight_len, in_flight_len', p, in_flight_len[p])
      /\ Sets(sending, sending', p, NoCall) /\ Sets(ticking, ticking', p, k)
  BY <1>1, <1>4 DEF Sets, Poll
<1>7. SenderOK' /\ AllStay
  BY <1>5, <1>6, LiftSender DEF IndInv, AllStay
<1>8. /\ acks[p] \in Seq(PacketKey) /\ dedup[p] \in Seq(PacketKey) /\ Window(dedup[p])
      /\ messages[p] \in Seq(MessageEvent)
      /\ reassembly[p] \in ReassemblyType /\ Pending(reassembly[p])
  BY DEF IndInv, ReceiverOK
<1>9. expire(reassembly[p], delta) \in ReassemblyType /\ Pending(expire(reassembly[p], delta))
  BY <1>2, <1>8, ExpirePending
<1>10. /\ Sets(acks, acks', p, acks[p]) /\ Sets(dedup, dedup', p, dedup[p])
       /\ Sets(messages, messages', p, messages[p])
       /\ Sets(reassembly, reassembly', p, expire(reassembly[p], delta))
  BY DEF Poll, Sets
<1>11. ReceiverOK'
  BY <1>8, <1>9, <1>10, LiftReceiver DEF IndInv
<1>12. NumbersOK'
  BY DEF IndInv, NumbersOK, Poll
<1> QED BY <1>7, <1>11, <1>12 DEF IndInv

\* Failing a message removes its packets and queues its SendFailed event.
LEMMA TickFailPreserves ==
    ASSUME IndInv, NEW p \in Peers, TickFail(p)
    PROVE  IndInv' /\ AllStay
<1>1. /\ SenderInv(queues[p], in_flight[p], in_flight_len[p], NoCall, ticking[p])
      /\ sending[p] = NoCall /\ ticking[p] # NoCall /\ ticking[p] \in TickCall
  BY SenderAt DEF IndInv, TickFail
<1>2. PICK i \in ticking[p].failed :
          LET id == in_flight[p][i].packet.id
          IN  /\ in_flight' = [in_flight EXCEPT ![p] = remove_message(@, id)]
              /\ in_flight_len' = [in_flight_len EXCEPT ![p] = RemovedLen(in_flight[p], @, id)]
              /\ queues' = [queues EXCEPT ![p] = push(@, SendFailed(id))]
              /\ ticking' = [ticking EXCEPT ![p].failed = @ \ SlotsOfMessage(in_flight[p], id)]
  BY DEF TickFail
<1> DEFINE id == in_flight[p][i].packet.id
           s == push(queues[p], SendFailed(id))
           t == remove_message(in_flight[p], id)
           n == RemovedLen(in_flight[p], in_flight_len[p], id)
           k == [ticking[p] EXCEPT !.failed = @ \ SlotsOfMessage(in_flight[p], id)]
<1>3. SenderInv(s, t, n, NoCall, k) /\ StaysQueued(queues[p], in_flight[p], s, t)
  BY <1>1, FailStep
<1>4. /\ in_flight' = [in_flight EXCEPT ![p] = t] /\ in_flight_len' = [in_flight_len EXCEPT ![p] = n]
      /\ queues' = [queues EXCEPT ![p] = s]
  BY <1>2
<1>5. ticking' = [ticking EXCEPT ![p] = k]
  BY <1>2
<1> HIDE DEF s, t, n, k
<1>6. /\ Sets(queues, queues', p, s) /\ Sets(in_flight, in_flight', p, t)
      /\ Sets(in_flight_len, in_flight_len', p, n)
      /\ Sets(sending, sending', p, NoCall) /\ Sets(ticking, ticking', p, k)
  BY <1>1, <1>4, <1>5 DEF Sets, TickFail
<1>7. SenderOK' /\ AllStay
  BY <1>3, <1>6, LiftSender DEF IndInv, AllStay
<1>8. ReceiverOK' /\ NumbersOK'
  BY Unchanged DEF IndInv, TickFail
<1> QED BY <1>7, <1>8 DEF IndInv

\* Queueing the retransmission of one collected packet.
LEMMA TickRetransmitPreserves ==
    ASSUME IndInv, NEW p \in Peers, TickRetransmit(p)
    PROVE  IndInv' /\ AllStay
<1>1. /\ SenderInv(queues[p], in_flight[p], in_flight_len[p], NoCall, ticking[p])
      /\ sending[p] = NoCall /\ ticking[p] # NoCall /\ ticking[p] \in TickCall
  BY SenderAt DEF IndInv, TickRetransmit
<1>2. PICK i \in ticking[p].retransmits :
          /\ queues' = [queues EXCEPT ![p] =
                 push(@, Write(in_flight[p][i].key, in_flight[p][i].packet,
                               in_flight[p][i].attempts + 1, "retransmit"))]
          /\ ticking' = [ticking EXCEPT ![p].retransmits = @ \ {i}]
  BY DEF TickRetransmit
<1> DEFINE s == push(queues[p], Write(in_flight[p][i].key, in_flight[p][i].packet,
                                      in_flight[p][i].attempts + 1, "retransmit"))
           k == [ticking[p] EXCEPT !.retransmits = @ \ {i}]
<1>3. SenderInv(s, in_flight[p], in_flight_len[p], NoCall, k)
      /\ StaysQueued(queues[p], in_flight[p], s, in_flight[p])
  BY <1>1, RetransmitStep
<1>4. queues' = [queues EXCEPT ![p] = s] /\ ticking' = [ticking EXCEPT ![p] = k]
  BY <1>2
<1> HIDE DEF s, k
<1>5. /\ Sets(queues, queues', p, s) /\ Sets(in_flight, in_flight', p, in_flight[p])
      /\ Sets(in_flight_len, in_flight_len', p, in_flight_len[p])
      /\ Sets(sending, sending', p, NoCall) /\ Sets(ticking, ticking', p, k)
  BY <1>1, <1>4 DEF Sets, TickRetransmit
<1>6. SenderOK' /\ AllStay
  BY <1>3, <1>5, LiftSender DEF IndInv, AllStay
<1>7. ReceiverOK' /\ NumbersOK'
  BY Unchanged DEF IndInv, TickRetransmit
<1> QED BY <1>6, <1>7 DEF IndInv

\* The head of a queue goes out, or is lost when the caller's buffer is too small.
LEMMA PollEventPreserves ==
    ASSUME IndInv, NEW p \in Peers, NEW q \in QueueKind, NEW room \in BOOLEAN,
           queues[p][q] # <<>>, ticking[p] # NoCall, PollEvent(p, q, room)
    PROVE  IndInv' /\ \A l \in Peers : l # p \/ room => UnsentStays(l)
<1> DEFINE s == pop(queues[p], q)
           t == Noted(in_flight[p], Head(queues[p][q]), room)
<1>1. /\ SenderInv(queues[p], in_flight[p], in_flight_len[p], NoCall, ticking[p])
      /\ sending[p] = NoCall
  BY SenderAt DEF IndInv
<1>2. /\ SenderInv(s, t, in_flight_len[p], NoCall, NoCall)
      /\ room => StaysQueued(queues[p], in_flight[p], s, t)
  BY <1>1, EventStep
<1>3. queues' = [queues EXCEPT ![p] = s] /\ in_flight' = [in_flight EXCEPT ![p] = t]
      /\ ticking' = [ticking EXCEPT ![p] = NoCall]
  BY DEF PollEvent, Noted, EndPoll
<1> HIDE DEF s, t
<1>4. /\ Sets(queues, queues', p, s) /\ Sets(in_flight, in_flight', p, t)
      /\ Sets(in_flight_len, in_flight_len', p, in_flight_len[p])
      /\ Sets(sending, sending', p, NoCall) /\ Sets(ticking, ticking', p, NoCall)
  BY <1>1, <1>3 DEF Sets, PollEvent
<1>5. SenderOK' /\ \A l \in Peers : l # p \/ room => UnsentStays(l)
  BY <1>2, <1>4, LiftSender DEF IndInv
<1>6. ReceiverOK' /\ NumbersOK'
  BY Unchanged DEF IndInv, PollEvent
<1> QED BY <1>5, <1>6 DEF IndInv

\* The outputs of a poll that leave the sending side alone.
LEMMA QuietOutputPreserves ==
    ASSUME IndInv, NEW p \in Peers, PollAck(p) \/ PollMessage(p) \/ PollIdle(p)
    PROVE  IndInv' /\ AllStay
<1>1. ASSUME TickDone(p), EndPoll(p), UNCHANGED <<sendVars, sending>>
      PROVE  SenderOK' /\ NumbersOK' /\ AllStay
  <2>1. /\ SenderInv(queues[p], in_flight[p], in_flight_len[p], NoCall, ticking[p])
        /\ sending[p] = NoCall
    BY <1>1, SenderAt DEF IndInv, TickDone
  <2>2. SenderInv(queues[p], in_flight[p], in_flight_len[p], NoCall, NoCall)
    BY <2>1, EndStep
  <2>3. /\ Sets(queues, queues', p, queues[p]) /\ Sets(in_flight, in_flight', p, in_flight[p])
        /\ Sets(in_flight_len, in_flight_len', p, in_flight_len[p])
        /\ Sets(sending, sending', p, NoCall) /\ Sets(ticking, ticking', p, NoCall)
    BY <1>1, <2>1 DEF Sets, EndPoll, sendVars
  <2>4. SenderOK'
    BY <2>2, <2>3, LiftSender DEF IndInv
  <2> QED BY <1>1, <2>4, Unchanged DEF IndInv, sendVars
<1>2. /\ acks[p] \in Seq(PacketKey) /\ dedup[p] \in Seq(PacketKey) /\ Window(dedup[p])
      /\ messages[p] \in Seq(MessageEvent)
      /\ reassembly[p] \in ReassemblyType /\ Pending(reassembly[p])
  BY DEF IndInv, ReceiverOK
<1>3. CASE PollAck(p)
  <2>1. SenderOK' /\ NumbersOK' /\ AllStay
    BY <1>1, <1>3 DEF PollAck
  <2>2. Tail(acks[p]) \in Seq(PacketKey)
    BY <1>2, <1>3, SMTT(30) DEF PollAck
  <2>3. /\ Sets(acks, acks', p, Tail(acks[p])) /\ Sets(dedup, dedup', p, dedup[p])
        /\ Sets(reassembly, reassembly', p, reassembly[p])
        /\ Sets(messages, messages', p, messages[p])
    BY <1>3 DEF PollAck, Sets
  <2>4. ReceiverOK'
    BY <1>2, <2>2, <2>3, LiftReceiver DEF IndInv
  <2> QED BY <2>1, <2>4 DEF IndInv
<1>4. CASE PollMessage(p)
  <2>1. SenderOK' /\ NumbersOK' /\ AllStay
    BY <1>1, <1>4 DEF PollMessage
  <2>2. Tail(messages[p]) \in Seq(MessageEvent)
    BY <1>2, <1>4, SMTT(30) DEF PollMessage
  <2>3. /\ Sets(acks, acks', p, acks[p]) /\ Sets(dedup, dedup', p, dedup[p])
        /\ Sets(reassembly, reassembly', p, reassembly[p])
        /\ Sets(messages, messages', p, Tail(messages[p]))
    BY <1>4 DEF PollMessage, Sets
  <2>4. ReceiverOK'
    BY <1>2, <2>2, <2>3, LiftReceiver DEF IndInv
  <2> QED BY <2>1, <2>4 DEF IndInv
<1>5. CASE PollIdle(p)
  <2>1. SenderOK' /\ NumbersOK' /\ AllStay
    BY <1>1, <1>5 DEF PollIdle
  <2>2. ReceiverOK'
    BY <1>5, Unchanged DEF PollIdle, IndInv
  <2> QED BY <2>1, <2>2 DEF IndInv
<1> QED BY <1>3, <1>4, <1>5

\* The outputs that take an event from the scheduler.  One that does not fit the
\* caller's buffer is lost.
LEMMA EventOutputPreserves ==
    ASSUME IndInv, NEW p \in Peers, NEW room \in BOOLEAN,
           PollUrgent(p, room) \/ PollNewData(p, room)
    PROVE  IndInv' /\ \A l \in Peers : l # p \/ room => UnsentStays(l)
<1>1. CASE PollUrgent(p, room)
  <2>1. UrgentQueue(queues[p]) \in QueueKind /\ queues[p][UrgentQueue(queues[p])] # <<>>
    BY <1>1 DEF PollUrgent, HasUrgent, UrgentQueue, QueueKind
  <2>2. ticking[p] # NoCall /\ PollEvent(p, UrgentQueue(queues[p]), room)
    BY <1>1 DEF PollUrgent, TickDone
  <2> QED BY <2>1, <2>2, PollEventPreserves
<1>2. CASE PollNewData(p, room)
  <2>1. "new_data" \in QueueKind /\ queues[p]["new_data"] # <<>>
    BY <1>2 DEF PollNewData, QueueKind
  <2>2. ticking[p] # NoCall /\ PollEvent(p, "new_data", room)
    BY <1>2 DEF PollNewData, TickDone
  <2> QED BY <2>1, <2>2, PollEventPreserves
<1> QED BY <1>1, <1>2

\* The output of a poll, whichever branch it takes.
LEMMA OutputPreserves ==
    ASSUME IndInv, NEW p \in Peers, Output(p)
    PROVE  IndInv' /\ (FALSE \notin TxRooms => AllStay)
<1>1. CASE PollAck(p) \/ PollMessage(p) \/ PollIdle(p)
  BY <1>1, QuietOutputPreserves
<1>2. ASSUME NEW room \in TxRooms, PollUrgent(p, room) \/ PollNewData(p, room)
      PROVE  IndInv' /\ (FALSE \notin TxRooms => AllStay)
  <2>1. room \in BOOLEAN /\ (FALSE \notin TxRooms => room)
    BY EngineAssumption
  <2> QED BY <1>2, <2>1, EventOutputPreserves DEF AllStay
<1> QED BY <1>1, <1>2 DEF Output

-----------------------------------------------------------------------------
(* The theorems *)

\* The engines Engine::new creates satisfy the inductive invariant.
LEMMA InitInd == Init => IndInv
<1> SUFFICES ASSUME Init
             PROVE  IndInv
  OBVIOUS
<1>1. /\ EmptyScheduler \in SchedulerType /\ SchedulerLen(EmptyScheduler) = 0
      /\ UniqueWrites(EmptyScheduler) /\ \A k \in QueueKind : DOMAIN EmptyScheduler[k] = {}
  <2>1. \A k \in QueueKind : EmptyScheduler[k] = <<>>
    BY DEF EmptyScheduler
  <2>2. \A k \in QueueKind : Len(EmptyScheduler[k]) = 0 /\ DOMAIN EmptyScheduler[k] = {}
    BY <2>1, SMTT(30)
  <2>3. EmptyScheduler \in SchedulerType
    BY SMTT(30) DEF EmptyScheduler, SchedulerType
  <2>4. /\ Len(EmptyScheduler["control"]) = 0 /\ Len(EmptyScheduler["retransmit"]) = 0
        /\ Len(EmptyScheduler["new_data"]) = 0 /\ Len(EmptyScheduler["local"]) = 0
    BY <2>2 DEF QueueKind
  <2>5. SchedulerLen(EmptyScheduler) = 0 + 0 + 0 + 0
    BY <2>4 DEF SchedulerLen
  <2> QED BY <2>2, <2>3, <2>5, SMTT(30) DEF UniqueWrites
<1>2. EmptyInFlight \in TableType /\ Occupied(EmptyInFlight) = {}
  BY DEF EmptyInFlight, TableType, Occupied
<1>3. Cardinality(Occupied(EmptyInFlight)) = 0
  BY <1>2, FS_EmptySet
<1>4. SenderInv(EmptyScheduler, EmptyInFlight, 0, NoCall, NoCall)
  <2>1. SchedulerLen(EmptyScheduler) <= MAX_EVENTS
    BY <1>1, SchedulerAssumption, SMTT(30)
  <2>2. UniqueKeys(EmptyInFlight) /\ WithinLimit(EmptyInFlight)
        /\ Disciplined(EmptyScheduler, EmptyInFlight)
        /\ Room(EmptyScheduler, EmptyInFlight, NoCall)
        /\ QueuedIfUnsent(EmptyScheduler, EmptyInFlight)
    BY <1>2 DEF UniqueKeys, WithinLimit, Disciplined, Room, QueuedIfUnsent
  <2> QED BY <1>1, <1>2, <1>3, <2>1, <2>2 DEF SenderInv
<1>5. SenderOK
  BY <1>1, <1>2, <1>4 DEF Init, SenderOK
<1>6. /\ EmptyReassembly \in ReassemblyType /\ Active(EmptyReassembly) = {}
  BY DEF EmptyReassembly, ReassemblyType, Active
<1>7. Pending(EmptyReassembly)
  BY <1>6 DEF Pending
<1>8. <<>> \in Seq(PacketKey) /\ <<>> \in Seq(MessageEvent) /\ Window(<<>>)
  BY InFlightAssumption, SMTT(30) DEF Window
<1>9. ReceiverOK
  BY <1>6, <1>7, <1>8 DEF Init, ReceiverOK
<1>10. NumbersOK
  BY EngineAssumption DEF Init, NumbersOK
<1> QED BY <1>5, <1>9, <1>10 DEF IndInv

\* Every step of every engine preserves the inductive invariant.
LEMMA NextInd == IndInv /\ [Next]_vars => IndInv' /\ (FALSE \notin TxRooms => AllStay)
<1> SUFFICES ASSUME IndInv, [Next]_vars
             PROVE  IndInv' /\ (FALSE \notin TxRooms => AllStay)
  OBVIOUS
<1>1. CASE UNCHANGED vars
  BY <1>1, Unchanged DEF vars, sendVars, receiveVars, callVars, IndInv
<1>2. ASSUME NEW p \in Peers, Step(p)
      PROVE  IndInv' /\ (FALSE \notin TxRooms => AllStay)
  <2>1. ASSUME NEW type \in MessageTypes, NEW len \in Lengths, NEW body \in Bodies,
               Send(p, type, len, body)
        PROVE  IndInv' /\ (FALSE \notin TxRooms => AllStay)
    BY <2>1, SendPreserves
  <2>2. ASSUME NEW type \in MessageTypes, NEW len \in Lengths, SendRefused(p, type, len)
        PROVE  IndInv' /\ (FALSE \notin TxRooms => AllStay)
    BY <2>2, SendRefusedPreserves
  <2>3. CASE SendFragment(p)
    BY <2>3, SendFragmentPreserves
  <2>4. CASE SendPing(p)
    BY <2>4, LivenessPreserves
  <2>5. ASSUME NEW packet \in Incoming, Receive(p, packet)
        PROVE  IndInv' /\ (FALSE \notin TxRooms => AllStay)
    BY <2>5, ReceivePreserves, EngineAssumption
  <2>6. ASSUME NEW delta \in Deltas, Poll(p, delta)
        PROVE  IndInv' /\ (FALSE \notin TxRooms => AllStay)
    BY <2>6, PollPreserves, EngineAssumption
  <2>7. CASE TickFail(p)
    BY <2>7, TickFailPreserves
  <2>8. CASE TickRetransmit(p)
    BY <2>8, TickRetransmitPreserves
  <2>9. CASE Output(p)
    BY <2>9, OutputPreserves
  <2> QED BY <1>2, <2>1, <2>2, <2>3, <2>4, <2>5, <2>6, <2>7, <2>8, <2>9 DEF Step
<1> QED BY <1>1, <1>2 DEF Next

\* What the inductive invariant says of the properties the runs check.
LEMMA IndImplies ==
    IndInv => /\ TypeOK /\ OneWritePerKey /\ InFlightExact /\ RetryBudget /\ TickCurrent
              /\ SendAllOrNothing /\ ReassemblyPending /\ DedupWindow
<1> SUFFICES ASSUME IndInv
             PROVE  /\ TypeOK /\ OneWritePerKey /\ InFlightExact /\ RetryBudget /\ TickCurrent
                    /\ SendAllOrNothing /\ ReassemblyPending /\ DedupWindow
  OBVIOUS
<1>1. TypeOK
  BY DEF IndInv, SenderOK, ReceiverOK, NumbersOK, TypeOK, SchedulerType, TableType,
     ReassemblyType
<1>2. \A p \in Peers :
          SenderInv(queues[p], in_flight[p], in_flight_len[p], sending[p], ticking[p])
  BY DEF IndInv, SenderOK
<1>3. OneWritePerKey
  BY <1>2 DEF OneWritePerKey, SenderInv
<1>4. InFlightExact
  BY <1>2 DEF InFlightExact, SenderInv
<1>5. RetryBudget
  BY <1>2 DEF RetryBudget, SenderInv, WithinLimit
<1>6. TickCurrent
  BY <1>2 DEF TickCurrent, SenderInv
<1>7. \A p \in Peers : Room(queues[p], in_flight[p], sending[p])
  BY <1>2 DEF SenderInv
<1>8. SendAllOrNothing
  BY <1>7 DEF SendAllOrNothing, Room
<1>9. \A p \in Peers : Window(dedup[p]) /\ Pending(reassembly[p])
  BY DEF IndInv, ReceiverOK
<1>10. ReassemblyPending
  BY <1>9 DEF ReassemblyPending, Pending
<1>11. DedupWindow
  BY <1>9 DEF DedupWindow, Window
<1> QED BY <1>1, <1>3, <1>4, <1>5, <1>6, <1>8, <1>10, <1>11

\* IndInv holds in every state the engines reach.
LEMMA Invariance == Spec => []IndInv
BY InitInd, NextInd, PTL DEF Spec

\* Type correctness: the engine state declared in engine/state.rs keeps its
\* shape, message ids wrap around, and the ages and offsets stay in range.
THEOREM TypeCorrect == Spec => []TypeOK
BY Invariance, IndImplies, PTL

\* SchedulerState::push and pop keep one queued write per packet key and the
\* four queues within their common budget.
THEOREM SchedulerUnique == Spec => []OneWritePerKey
BY Invariance, IndImplies, PTL

\* InFlightPackets::len counts the slots in use, and no key is tracked twice.
THEOREM InFlightCounted == Spec => []InFlightExact
BY Invariance, IndImplies, PTL

\* tick_retransmit and note_retransmit_sent keep every packet within
\* max_retransmit_attempts, and no retransmission is queued for a packet that
\* was not silent for a whole RTO.
THEOREM RetriesBounded == Spec => []RetryBudget
BY Invariance, IndImplies, PTL

\* What tick_retransmit collected stays true of the table while it runs.
THEOREM TickConsistent == Spec => []TickCurrent
BY Invariance, IndImplies, PTL

\* Once ensure_can_queue_message lets a message through, send_message_fragments
\* never fails half way.
THEOREM SendAtomic == Spec => []SendAllOrNothing
BY Invariance, IndImplies, PTL

\* Every slot of the reassembly table collects a message of its own, which is
\* not yet complete.
THEOREM ReassemblyExact == Spec => []ReassemblyPending
BY Invariance, IndImplies, PTL

\* The ring of PacketDedup holds different keys.
THEOREM DedupDistinct == Spec => []DedupWindow
BY Invariance, IndImplies, PTL

\* When the caller's transmit buffer always has room, a reliable packet that
\* was never transmitted keeps its write in the scheduler, so that poll_write
\* will note it as sent and tick_retransmit take care of it from then on.
THEOREM UnsentKept == FALSE \notin TxRooms => (Spec => []UnsentIsQueued)
<1> SUFFICES ASSUME FALSE \notin TxRooms
             PROVE  Spec => []UnsentIsQueued
  OBVIOUS
<1>1. Init => UnsentIsQueued
  BY SMTT(30) DEF Init, UnsentIsQueued, EmptyInFlight, Occupied
<1>2. IndInv /\ UnsentIsQueued /\ [Next]_vars => UnsentIsQueued'
  BY NextInd DEF AllStay, UnsentStays, StaysQueued, QueuedIfUnsent, UnsentIsQueued
<1> QED BY <1>1, <1>2, Invariance, PTL DEF Spec
=============================================================================
