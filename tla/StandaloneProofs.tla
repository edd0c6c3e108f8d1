-------------------------- MODULE StandaloneProofs --------------------------
(***************************************************************************)
(* Proofs about the two components that are modelled apart from an engine: *)
(* the server's table of peers, for every table size and every set of peer *)
(* ids, and the round-trip estimator with the retransmissions it times,    *)
(* for every configuration.                                                *)
(***************************************************************************)
EXTENDS Server, DynamicRecovery, FiniteSetTheorems, TLAPS

\* A leaf is left to Zenon unless it names another prover.
USE Zenon

-----------------------------------------------------------------------------
(* The server's table: finding a place *)

\* position() returns a match when there is one.
LEMMA FirstIn ==
    ASSUME NEW S \in SUBSET Places, S # {}
    PROVE  First(S) \in S
  <1>1. S \subseteq Nat
    BY ServerAssumption, SMTT(30) DEF Places
  <1>2. PICK i \in S : \A j \in S : <<j, i>> \notin OpToRel(<, Nat)
    BY <1>1, WFMin, NatLessThanWellFounded, Zenon
  <1>3. \A j \in S : ~(j < i)
    BY <1>1, <1>2, Zenon DEF OpToRel
  <1>4. \A j \in S : i <= j
    BY <1>1, <1>3, SMTT(30)
  <1> QED
    BY <1>4 DEF First

\* The place found for a known peer is that peer's.
LEMMA FindIndex ==
    ASSUME NEW id, Known(id)
    PROVE  find_index(id) \in Places /\ IsOf(find_index(id), id)
  <1>1. {i \in Places : IsOf(i, id)} \in SUBSET Places /\ {i \in Places : IsOf(i, id)} # {}
    BY DEF Known
  <1>2. find_index(id) \in {i \in Places : IsOf(i, id)}
    BY <1>1, FirstIn DEF find_index
  <1> QED
    BY <1>2

\* A place that vacant_index finds is a vacant one.
LEMMA VacantIndex ==
    ASSUME VacantPlaces # {}
    PROVE  vacant_index \in Places /\ peers[vacant_index] = Vacant
  <1>1. vacant_index \in VacantPlaces
    BY FirstIn DEF vacant_index, VacantPlaces
  <1> QED
    BY <1>1 DEF VacantPlaces

-----------------------------------------------------------------------------
(* Slots stay slots *)

\* The intervals of a slot are numbers.
LEMMA HorizonIsNat == PING_INTERVAL \in Nat /\ HORIZON \in Nat
  BY PeerSlotAssumption

\* An empty slot and a new session are slots.
LEMMA ConstantSlots == EmptySlot \in Slot /\ NewSession \in Slot
  BY HorizonIsNat, SMTT(30) DEF EmptySlot, NewSession, Slot, PeerState

\* What receive makes of a slot is a slot.
LEMMA SlotReceive ==
    ASSUME NEW slot \in Slot, NEW report
    PROVE  receive(slot, report) \in Slot
  <1>1. CASE report = "error"
    BY <1>1, ConstantSlots DEF receive
  <1>2. CASE report # "error"
    <2> DEFINE state == IF report \in PeerTraffic THEN "connected" ELSE slot.state
               quiet == IF report \in PeerTraffic THEN 0 ELSE slot.quiet
               pending == slot.pending_ping /\ report # "pong"
    <2>1. receive(slot, report) = [slot EXCEPT !.state = state, !.quiet = quiet,
                                               !.pending_ping = pending]
      BY <1>2 DEF receive
    <2>2. state \in PeerState /\ quiet \in 0 .. HORIZON
      BY HorizonIsNat, SMTT(30) DEF Slot, PeerState
    <2>3. pending \in BOOLEAN
      OBVIOUS
    <2> HIDE DEF state, quiet, pending
    <2> QED
      BY <2>1, <2>2, <2>3 DEF Slot
  <1> QED
    BY <1>1, <1>2

\* What poll makes of a slot is a slot.
LEMMA SlotPoll ==
    ASSUME NEW slot \in Slot, NEW result
    PROVE  poll(slot, result) \in Slot /\ Pinged(slot) \in Slot
  <1>0. "connected" \in PeerState /\ 0 \in 0 .. HORIZON
    BY HorizonIsNat, SMTT(30) DEF PeerState
  <1>1. Pinged(slot) \in Slot
    <2>1. ASSUME NEW pending \in BOOLEAN
          PROVE  [slot EXCEPT !.since_ping = 0, !.pending_ping = pending] \in Slot
      BY <1>0 DEF Slot
    <2> QED
      BY <2>1 DEF Pinged
  <1>2. [slot EXCEPT !.state = "connected", !.quiet = 0] \in Slot
    BY <1>0 DEF Slot
  <1> QED
    BY <1>1, <1>2, ConstantSlots DEF poll

\* A slot is a slot when time has passed.
LEMMA SlotLater ==
    ASSUME NEW slot \in Slot
    PROVE  Later(slot, 1) \in Slot
  <1>1. slot.quiet \in 0 .. HORIZON /\ slot.since_ping \in 0 .. HORIZON
    BY DEF Slot
  <1>2. Capped(slot.quiet + 1) \in 0 .. HORIZON /\ Capped(slot.since_ping + 1) \in 0 .. HORIZON
    BY <1>1, HorizonIsNat, SMTT(30) DEF Capped
  <1> QED
    BY <1>2 DEF Later, Slot

-----------------------------------------------------------------------------
(* The inductive invariant *)

\* accept answers Full when it found no vacant place.
FullFoundNone == answer = "full" => VacantPlaces = {}

IInv == TypeOK /\ UniquePeers /\ FullFoundNone

\* Writing an entry of id to a place where no other entry of id is elsewhere
\* keeps the invariant.
LEMMA WriteEntry ==
    ASSUME IInv, NEW id \in Ids, NEW i \in Places, NEW slot \in Slot,
           \A j \in Places : IsOf(j, id) => j = i,
           peers' = [peers EXCEPT ![i] = [peer_id |-> id, slot |-> slot]],
           answer' \in Answers, answer' # "full"
    PROVE  IInv'
  <1>1. TypeOK'
    BY DEF IInv, TypeOK, Entry
  <1>2. [peer_id |-> id, slot |-> slot] # Vacant
    BY ServerAssumption, SMTT(30) DEF Entry
  <1>3. peers'[i].peer_id = id /\ \A j \in Places : j # i => peers'[j] = peers[j]
    BY DEF IInv, TypeOK
  <1>4. UniquePeers'
    <2> SUFFICES ASSUME NEW o \in Ids, NEW j \in Places, NEW k \in Places,
                        IsOf(j, o)', IsOf(k, o)'
                 PROVE  j = k
      BY DEF UniquePeers
    <2>1. CASE o = id
      BY <1>3, <2>1 DEF IsOf
    <2>2. CASE o # id
      BY <1>3, <2>2 DEF IsOf, IInv, UniquePeers
    <2> QED
      BY <2>1, <2>2
  <1> QED
    BY <1>1, <1>4 DEF IInv, FullFoundNone

\* A new state of the slot of a known peer keeps the invariant.
LEMMA WriteSlot ==
    ASSUME IInv, NEW id \in Ids, Known(id), NEW slot \in Slot, SetSlot(id, slot)
    PROVE  IInv'
  <1>1. find_index(id) \in Places /\ IsOf(find_index(id), id)
    BY FindIndex
  <1>2. peers[find_index(id)] \in Entry /\ peers[find_index(id)].peer_id = id
    BY <1>1 DEF IInv, TypeOK, IsOf
  <1>3. peers' = [peers EXCEPT ![find_index(id)] = [peer_id |-> id, slot |-> slot]]
    <2>1. [peers[find_index(id)] EXCEPT !.slot = slot] = [peer_id |-> id, slot |-> slot]
      BY <1>2, SMTT(30) DEF Entry
    <2> QED
      BY <1>1, <2>1 DEF SetSlot, IInv, TypeOK
  <1>4. \A j \in Places : IsOf(j, id) => j = find_index(id)
    BY <1>1 DEF IInv, UniquePeers
  <1> QED
    BY <1>1, <1>3, <1>4, WriteEntry DEF SetSlot, Answers

\* Vacating places, or replacing slots where they stand, keeps the invariant.
LEMMA RewriteInPlace ==
    ASSUME IInv, peers' \in [Places -> Entry \cup {Vacant}], answer' = "none",
           \A i \in Places : peers'[i] # Vacant =>
               peers[i] # Vacant /\ peers'[i].peer_id = peers[i].peer_id
    PROVE  IInv'
  BY SMTT(30) DEF IInv, TypeOK, UniquePeers, IsOf, FullFoundNone, Answers

\* accept keeps the invariant, whether or not the peer had a place.
LEMMA AcceptStep ==
    ASSUME IInv, NEW id \in Ids, accept(id)
    PROVE  IInv'
  <1>1. CASE Known(id)
    <2>1. find_index(id) \in Places /\ IsOf(find_index(id), id)
      BY <1>1, FindIndex
    <2>2. \A j \in Places : IsOf(j, id) => j = find_index(id)
      BY <2>1 DEF IInv, UniquePeers
    <2> QED
      BY <1>1, <2>1, <2>2, ConstantSlots, WriteEntry DEF accept, reconnect_at, Answers
  <1>2. CASE ~Known(id) /\ VacantPlaces # {}
    <2>1. \A j \in Places : ~IsOf(j, id)
      BY <1>2 DEF Known
    <2> QED
      BY <1>2, <2>1, VacantIndex, ConstantSlots, WriteEntry DEF accept, reconnect_at, Answers
  <1>3. CASE ~Known(id) /\ VacantPlaces = {}
    BY <1>3
       DEF accept, IInv, TypeOK, UniquePeers, IsOf, FullFoundNone, VacantPlaces, Answers
  <1> QED
    BY <1>1, <1>2, <1>3

\* Every step keeps the invariant.
LEMMA InvariantStep == IInv /\ [Next]_vars => IInv'
  <1> SUFFICES ASSUME IInv, [Next]_vars PROVE IInv'
    OBVIOUS
  <1>1. ASSUME NEW id \in Ids, accept(id) PROVE IInv'
    BY <1>1, AcceptStep
  <1>2. ASSUME NEW id \in Ids, disconnect(id) PROVE IInv'
    <2>1. find_index(id) \in Places
      BY <1>2, FindIndex DEF disconnect
    <2> QED
      BY <1>2, <2>1, RewriteInPlace DEF disconnect, IInv, TypeOK
  <1>3. ASSUME NEW id \in Ids, ServerReceive(id) PROVE IInv'
    <2>1. Known(id) /\ SlotOf(id) \in Slot
      BY <1>3, FindIndex DEF ServerReceive, SlotOf, IInv, TypeOK, IsOf, Entry
    <2> QED
      BY <1>3, <2>1, SlotReceive, WriteSlot DEF ServerReceive
  <1>4. ASSUME NEW id \in Ids, ServerPoll(id) PROVE IInv'
    <2>1. Known(id) /\ SlotOf(id) \in Slot
      BY <1>4, FindIndex DEF ServerPoll, SlotOf, IInv, TypeOK, IsOf, Entry
    <2>2. PICK slot \in {SlotOf(id), Pinged(SlotOf(id))}, result \in PollResults :
              SetSlot(id, poll(slot, result))
      BY <1>4 DEF ServerPoll
    <2>3. slot \in Slot
      BY <2>1, <2>2, SlotPoll
    <2> QED
      BY <2>1, <2>2, <2>3, SlotPoll, WriteSlot
  <1>5. CASE disconnect_idle
    BY <1>5, RewriteInPlace DEF disconnect_idle, IInv, TypeOK
  <1>6. CASE Elapse
    <2>1. ASSUME NEW i \in Places, peers[i] # Vacant
          PROVE  /\ [peers[i] EXCEPT !.slot = Later(@, 1)] \in Entry
                 /\ [peers[i] EXCEPT !.slot = Later(@, 1)].peer_id = peers[i].peer_id
      BY <2>1, SlotLater, SMTT(30) DEF IInv, TypeOK, Entry
    <2> QED
      BY <1>6, <2>1, RewriteInPlace DEF Elapse, IInv, TypeOK
  <1>7. ASSUME NEW id \in Ids, peer_mut(id) PROVE IInv'
    <2>1. PICK slot \in {EmptySlot, NewSession} : SetSlot(id, slot)
      BY <1>7 DEF peer_mut
    <2>2. slot \in Slot /\ Known(id)
      BY <1>7, ConstantSlots DEF peer_mut
    <2> QED
      BY <2>1, <2>2, WriteSlot
  <1>8. CASE UNCHANGED vars
    BY <1>8 DEF vars, IInv, TypeOK, UniquePeers, IsOf, FullFoundNone, VacantPlaces
  <1> QED
    BY <1>1, <1>2, <1>3, <1>4, <1>5, <1>6, <1>7, <1>8 DEF Next

\* An empty table satisfies the invariant.
LEMMA InvariantInit == Init => IInv
  BY DEF Init, IInv, TypeOK, UniquePeers, IsOf, FullFoundNone, Answers

\* No peer ever has two places in the table: find_index finds the only one.
THEOREM PeersUnique == Spec => []UniquePeers
  <1>1. IInv => UniquePeers
    BY DEF IInv
  <1> QED
    BY <1>1, InvariantInit, InvariantStep, PTL DEF Spec

\* When no place is vacant and no peer has two, N peers are known.
LEMMA FullCounts ==
    ASSUME IInv, answer = "full"
    PROVE  Cardinality({id \in Ids : Known(id)}) = N
  <1> DEFINE f == [i \in Places |-> peers[i].peer_id]
             K == {id \in Ids : Known(id)}
  <1>1. \A i \in Places : peers[i] # Vacant /\ peers[i] \in Entry
    BY DEF IInv, TypeOK, FullFoundNone, VacantPlaces
  <1>2. f \in [Places -> K]
    BY <1>1 DEF Known, IsOf, Entry
  <1>3. f \in Injection(Places, K)
    BY <1>1, <1>2, SMTT(30) DEF IInv, UniquePeers, IsOf, Entry, Injection, IsInjective
  <1>4. f \in Surjection(Places, K)
    BY <1>2 DEF Surjection, Known, IsOf
  <1>5. ExistsBijection(Places, K)
    BY <1>3, <1>4, Zenon DEF ExistsBijection, Bijection
  <1>6. IsFiniteSet(Places) /\ Cardinality(Places) = N
    BY FS_Interval, ServerAssumption, SMTT(30) DEF Places
  <1> QED
    BY <1>5, <1>6, FS_Bijection

\* accept reports Full only when N different peers have a place.
THEOREM FullMeansFull == Spec => []FullIsFull
  <1>1. IInv => FullIsFull
    BY FullCounts DEF FullIsFull
  <1> QED
    BY <1>1, InvariantInit, InvariantStep, PTL DEF Spec

-----------------------------------------------------------------------------
(* The server's table: slots stay coherent *)

\* What receive makes of a coherent slot with an engine is coherent.
LEMMA CoherentReceive ==
    ASSUME NEW slot \in Slot, Coherent(slot), slot.engine, NEW report
    PROVE  Coherent(receive(slot, report))
  <1>1. CASE report = "error"
    BY <1>1 DEF receive, Coherent, EmptySlot
  <1>2. CASE report # "error"
    <2>1. /\ receive(slot, report).engine = slot.engine
          /\ receive(slot, report).state = IF report \in PeerTraffic THEN "connected"
                                           ELSE slot.state
          /\ receive(slot, report).pending_ping = (slot.pending_ping /\ report # "pong")
      BY <1>2 DEF receive, Slot
    <2> QED
      BY <2>1 DEF Coherent
  <1> QED
    BY <1>1, <1>2

\* So is what queue_ping_if_idle and poll make of it.
LEMMA CoherentPoll ==
    ASSUME NEW slot \in Slot, Coherent(slot), slot.engine, NEW result
    PROVE  /\ Coherent(poll(slot, result))
           /\ PingDue(slot) => Coherent(Pinged(slot)) /\ Pinged(slot).engine
  <1>1. Coherent(EmptySlot)
    BY DEF Coherent, EmptySlot
  <1>2. Coherent([slot EXCEPT !.state = "connected", !.quiet = 0])
    BY DEF Coherent, Slot
  <1>3. PingDue(slot) => Coherent(Pinged(slot)) /\ Pinged(slot).engine
    BY DEF Coherent, Slot, PingDue, Pinged
  <1> QED
    BY <1>1, <1>2, <1>3 DEF poll

\* A slot stays coherent while time passes.
LEMMA CoherentLater ==
    ASSUME NEW slot \in Slot, Coherent(slot)
    PROVE  Coherent(Later(slot, 1))
  <1>1. CASE slot.engine
    <2>1. /\ Later(slot, 1).engine = slot.engine
          /\ Later(slot, 1).state = slot.state
          /\ Later(slot, 1).pending_ping = slot.pending_ping
      BY <1>1 DEF Later, Slot
    <2> QED
      BY <1>1, <2>1 DEF Coherent
  <1>2. CASE ~slot.engine
    BY <1>2 DEF Later
  <1> QED
    BY <1>1, <1>2

\* Writing a coherent slot to one place keeps all slots coherent.
LEMMA CoherentWrite ==
    ASSUME IInv, SlotsCoherent, NEW i \in Places, NEW e, Coherent(e.slot),
           peers' = [peers EXCEPT ![i] = e]
    PROVE  SlotsCoherent'
  BY DEF IInv, TypeOK, SlotsCoherent

\* A call that changes the slot of a known peer.
LEMMA CoherentSetSlot ==
    ASSUME IInv, SlotsCoherent, NEW id, Known(id), NEW slot, Coherent(slot), SetSlot(id, slot)
    PROVE  SlotsCoherent'
  <1> DEFINE i == find_index(id)
             e == [peers[i] EXCEPT !.slot = slot]
  <1>1. i \in Places /\ IsOf(i, id)
    BY FindIndex
  <1>2. peers[i] \in Entry
    BY <1>1 DEF IInv, TypeOK, IsOf
  <1>3. e.slot = slot /\ peers' = [peers EXCEPT ![i] = e]
    BY <1>1, <1>2 DEF SetSlot, Entry
  <1> HIDE DEF i, e
  <1> QED
    BY <1>1, <1>3, CoherentWrite

\* The slot of a known peer is coherent.
LEMMA CoherentSlotOf ==
    ASSUME IInv, SlotsCoherent, NEW id, Known(id)
    PROVE  SlotOf(id) \in Slot /\ Coherent(SlotOf(id))
  <1>1. find_index(id) \in Places /\ IsOf(find_index(id), id)
    BY FindIndex
  <1>2. peers[find_index(id)] \in Entry /\ peers[find_index(id)] # Vacant
    BY <1>1 DEF IInv, TypeOK, IsOf
  <1> QED
    BY <1>1, <1>2 DEF SlotOf, Entry, SlotsCoherent

\* Every step keeps the slots coherent.
LEMMA CoherentStep ==
    ASSUME IInv, SlotsCoherent, [Next]_vars
    PROVE  SlotsCoherent'
  <1>0. Coherent(EmptySlot) /\ Coherent(NewSession)
    BY DEF Coherent, EmptySlot, NewSession
  <1>1. ASSUME NEW id \in Ids, accept(id) PROVE SlotsCoherent'
    <2>1. ASSUME NEW i \in Places, reconnect_at(i, id) PROVE SlotsCoherent'
      <3> DEFINE e == [peer_id |-> id, slot |-> NewSession]
      <3>1. e.slot = NewSession /\ peers' = [peers EXCEPT ![i] = e]
        BY <2>1 DEF reconnect_at
      <3> HIDE DEF e
      <3> QED
        BY <1>0, <3>1, CoherentWrite
    <2>2. CASE UNCHANGED peers
      BY <2>2 DEF SlotsCoherent
    <2> QED
      BY <1>1, <2>1, <2>2, FindIndex, VacantIndex DEF accept
  <1>2. ASSUME NEW id \in Ids, disconnect(id) PROVE SlotsCoherent'
    BY <1>2 DEF disconnect, SlotsCoherent, IInv, TypeOK
  <1>3. ASSUME NEW id \in Ids, ServerReceive(id) PROVE SlotsCoherent'
    BY <1>3, CoherentSlotOf, CoherentReceive, CoherentSetSlot DEF ServerReceive
  <1>4. ASSUME NEW id \in Ids, ServerPoll(id) PROVE SlotsCoherent'
    <2> DEFINE slot == IF PingDue(SlotOf(id)) THEN Pinged(SlotOf(id)) ELSE SlotOf(id)
    <2>1. Known(id) /\ SlotOf(id).engine
          /\ \E result \in PollResults : SetSlot(id, poll(slot, result))
      BY <1>4 DEF ServerPoll
    <2>2. slot \in Slot /\ Coherent(slot) /\ slot.engine
      BY <2>1, CoherentSlotOf, CoherentPoll, SlotPoll
    <2> HIDE DEF slot
    <2> QED
      BY <2>1, <2>2, CoherentPoll, CoherentSetSlot
  <1>5. CASE disconnect_idle
    BY <1>5 DEF disconnect_idle, SlotsCoherent
  <1>6. CASE Elapse
    <2>1. ASSUME NEW i \in Places, peers[i] # Vacant
          PROVE  Coherent([peers[i] EXCEPT !.slot = Later(@, 1)].slot)
      <3>1. peers[i] \in Entry /\ peers[i].slot \in Slot /\ Coherent(peers[i].slot)
        BY <2>1 DEF IInv, TypeOK, Entry, SlotsCoherent
      <3>2. [peers[i] EXCEPT !.slot = Later(@, 1)].slot = Later(peers[i].slot, 1)
        BY <3>1 DEF Entry
      <3> QED
        BY <3>1, <3>2, CoherentLater
    <2> QED
      BY <1>6, <2>1 DEF Elapse, SlotsCoherent
  <1>7. ASSUME NEW id \in Ids, peer_mut(id) PROVE SlotsCoherent'
    BY <1>0, <1>7, CoherentSetSlot DEF peer_mut
  <1>8. CASE UNCHANGED vars
    BY <1>8 DEF vars, SlotsCoherent
  <1> QED
    BY <1>1, <1>2, <1>3, <1>4, <1>5, <1>6, <1>7, <1>8 DEF Next

\* The fields of every slot fit each other in whatever order accept, disconnect,
\* receive, poll, peer_mut and disconnect_idle are called and however they end,
\* for any number of peers and places.
THEOREM SlotsStayCoherent == Spec => []SlotsCoherent
  <1>1. Init => SlotsCoherent
    BY DEF Init, SlotsCoherent
  <1>2. IInv /\ SlotsCoherent /\ [Next]_vars => SlotsCoherent'
    BY CoherentStep
  <1> QED
    BY <1>1, <1>2, InvariantInit, InvariantStep, PTL DEF Spec

-----------------------------------------------------------------------------
(* The round-trip estimator: arithmetic *)

\* The wrapping u64 arithmetic of the estimator does not wrap below the bound.
LEMMA WrapSmall ==
    ASSUME NEW n \in Nat, n < 2^WIDTH
    PROVE  Wrap(n) = n
<1>1. 2^WIDTH \in Nat \ {0}
    BY RecoveryAssumption, SMTT(30)
<1> QED
    BY <1>1, SMTT(30) DEF Wrap

\* Saturating addition of u64 is monotone.
LEMMA SatAddMonotone ==
    ASSUME NEW a \in Nat, NEW c \in Nat, NEW b \in Nat, a <= c
    PROVE  /\ SatAdd(a, b) \in Nat /\ SatAdd(c, b) \in Nat /\ SatAdd(a, b) <= SatAdd(c, b)
           /\ SatAdd(b, a) \in Nat /\ SatAdd(b, c) \in Nat /\ SatAdd(b, a) <= SatAdd(b, c)
<1>1. 2^WIDTH \in Nat \ {0}
    BY RecoveryAssumption, SMTT(30)
<1> QED
    BY <1>1, SMTT(30) DEF SatAdd, Smaller, MAX_U64

\* Saturating multiplication of u64 is monotone in its first factor.
LEMMA SatMulMonotone ==
    ASSUME NEW a \in Nat, NEW c \in Nat, NEW f \in Nat, a <= c
    PROVE  SatMul(a, f) \in Nat /\ SatMul(c, f) \in Nat /\ SatMul(a, f) <= SatMul(c, f)
<1>1. 2^WIDTH \in Nat \ {0}
    BY RecoveryAssumption, SMTT(30)
<1>2. a * f \in Nat /\ c * f \in Nat /\ a * f <= c * f
    BY SMTT(30)
<1> QED
    BY <1>1, <1>2, SMTT(30) DEF SatMul, Smaller, MAX_U64

\* The shift of checked_shl, and what replaces it when it fails, is a number.
LEMMA BackoffNat ==
    ASSUME NEW attempts \in Nat
    PROVE  Backoff(attempts) \in Nat
<1>1. WIDTH \in Nat /\ MAX_BACKOFF \in Nat /\ 2^WIDTH \in Nat \ {0}
    BY RecoveryAssumption, SMTT(30)
<1>2. \A e \in Nat : e < WIDTH => 2^e \in Nat
    BY <1>1, RecoveryAssumption, SMTT(30)
<1> QED
    BY <1>1, <1>2, SMTT(30) DEF Backoff, Smaller, MAX_U64

\* The granularity of the timer is a number.
LEMMA GranularityNat == Granularity \in Nat
    BY RecoveryAssumption DEF Granularity, Larger

\* LeastTimeout depends on the smallest round trip alone, and grows with it.
LEMMA LeastMonotone ==
    ASSUME NEW r, NEW s, r.min \in Nat, s.min \in Nat, r.min <= s.min,
           NEW attempts \in Nat
    PROVE  /\ LeastTimeout(r, attempts) \in Nat
           /\ LeastTimeout(r, attempts) <= LeastTimeout(s, attempts)
<1>1. Granularity \in Nat /\ MAX_ACK_DELAY \in Nat /\ Backoff(attempts) \in Nat
    BY GranularityNat, BackoffNat, RecoveryAssumption
<1> DEFINE ar == SatAdd(r.min, Granularity)
           as == SatAdd(s.min, Granularity)
<1>2. ar \in Nat /\ as \in Nat /\ ar <= as
    BY <1>1, SatAddMonotone
<1> HIDE DEF ar, as
<1> DEFINE br == SatAdd(ar, MAX_ACK_DELAY)
           bs == SatAdd(as, MAX_ACK_DELAY)
<1>3. br \in Nat /\ bs \in Nat /\ br <= bs
    BY <1>1, <1>2, SatAddMonotone
<1> HIDE DEF br, bs
<1>4. /\ SatMul(br, Backoff(attempts)) \in Nat
      /\ SatMul(br, Backoff(attempts)) <= SatMul(bs, Backoff(attempts))
    BY <1>1, <1>3, SatMulMonotone
<1> QED
    BY <1>4 DEF LeastTimeout, ar, as, br, bs

\* No timeout is shorter than LeastTimeout while the estimate is at least the
\* smallest round trip.
LEMMA LeastIsLeast ==
    ASSUME NEW r, r.min \in Nat, r.var \in Nat, rtt_ms(r) \in Nat,
           r.min <= rtt_ms(r), NEW attempts \in Nat
    PROVE  timeout_ms(r, attempts) \in Nat
           /\ LeastTimeout(r, attempts) <= timeout_ms(r, attempts)
<1>1. Granularity \in Nat /\ MAX_ACK_DELAY \in Nat /\ Backoff(attempts) \in Nat
    BY GranularityNat, BackoffNat, RecoveryAssumption
<1> DEFINE wide == Larger(SatMul(r.var, 4), Granularity)
<1>2. SatMul(r.var, 4) \in Nat
    BY RecoveryAssumption, SMTT(30) DEF SatMul, Smaller, MAX_U64
<1>3. wide \in Nat /\ Granularity <= wide
    BY <1>1, <1>2, SMTT(30) DEF Larger
<1> DEFINE low == SatAdd(r.min, Granularity)
<1> HIDE DEF wide
<1>4. low \in Nat /\ pto_base_ms(r) \in Nat /\ low <= pto_base_ms(r)
  <2>1. low \in Nat /\ SatAdd(rtt_ms(r), Granularity) \in Nat
        /\ low <= SatAdd(rtt_ms(r), Granularity)
      BY <1>1, SatAddMonotone
  <2>2. SatAdd(rtt_ms(r), wide) \in Nat
        /\ SatAdd(rtt_ms(r), Granularity) <= SatAdd(rtt_ms(r), wide)
      BY <1>1, <1>3, SatAddMonotone
  <2>3. pto_base_ms(r) = SatAdd(rtt_ms(r), wide)
      BY DEF pto_base_ms, wide
  <2> HIDE DEF low
  <2> QED
      BY <2>1, <2>2, <2>3, SMTT(30)
<1> HIDE DEF low
<1> DEFINE x == SatAdd(low, MAX_ACK_DELAY)
           y == SatAdd(pto_base_ms(r), MAX_ACK_DELAY)
<1>5. x \in Nat /\ y \in Nat /\ x <= y
    BY <1>1, <1>4, SatAddMonotone
<1> HIDE DEF x, y
<1>6. /\ SatMul(y, Backoff(attempts)) \in Nat
      /\ SatMul(x, Backoff(attempts)) <= SatMul(y, Backoff(attempts))
    BY <1>1, <1>5, SatMulMonotone
<1> QED
    BY <1>6 DEF LeastTimeout, timeout_ms, x, y, low

\* One sample keeps the smoothed round trip between the smallest and the largest
\* sample, and the variance below the largest.
LEMMA SampleBounds ==
    ASSUME NEW s \in Nat, NEW v \in Nat, NEW x \in Nat, NEW m \in Nat, NEW w \in Nat,
           m <= s, s <= w, v <= w, w <= MAX_NOW, x <= MAX_NOW
    PROVE  /\ Smoothed(s, x) \in Nat
           /\ SmoothedVar(v, s, x) \in Nat
           /\ Smaller(m, x) <= Smoothed(s, x)
           /\ Smoothed(s, x) <= Larger(w, x)
           /\ SmoothedVar(v, s, x) <= Larger(w, x)
<1>1. MAX_NOW \in Nat /\ 2^WIDTH \in Nat \ {0} /\ 8 * MAX_NOW < 2^WIDTH
    BY RecoveryAssumption, SMTT(30)
<1>2. Wrap(7 * s) = 7 * s /\ Wrap(7 * s + x) = 7 * s + x
  <2>1. 7 * s \in Nat /\ 7 * s < 2^WIDTH /\ 7 * s + x \in Nat /\ 7 * s + x < 2^WIDTH
      BY <1>1, SMTT(30)
  <2> QED
      BY <2>1, WrapSmall
<1> DEFINE d == AbsDiff(s, x)
<1>3. d \in Nat /\ d <= Larger(w, x) /\ d <= MAX_NOW
    BY <1>1, SMTT(30) DEF AbsDiff, Larger
<1> HIDE DEF d
<1>4. Wrap(3 * v) = 3 * v /\ Wrap(3 * v + d) = 3 * v + d
  <2>1. 3 * v \in Nat /\ 3 * v < 2^WIDTH /\ 3 * v + d \in Nat /\ 3 * v + d < 2^WIDTH
      BY <1>1, <1>3, SMTT(30)
  <2> QED
      BY <2>1, WrapSmall
<1>5. Smoothed(s, x) = (7 * s + x) \div 8
    BY <1>2 DEF Smoothed
<1>6. SmoothedVar(v, s, x) = (3 * v + d) \div 4
    BY <1>4 DEF SmoothedVar, d
<1>7. /\ (7 * s + x) \div 8 \in Nat
      /\ Smaller(m, x) <= (7 * s + x) \div 8
      /\ (7 * s + x) \div 8 <= Larger(w, x)
    BY SMTT(30) DEF Smaller, Larger
<1>8. (3 * v + d) \div 4 \in Nat /\ (3 * v + d) \div 4 <= Larger(w, x)
    BY <1>3, SMTT(30) DEF Larger
<1> QED
    BY <1>5, <1>6, <1>7, <1>8

-----------------------------------------------------------------------------
(* The inductive invariant *)

\* The estimate is at least the smallest round trip, the initial one included.
EstimateLow ==
    /\ rtt.min <= rtt_ms(rtt)
    /\ EstimateWithinSamples

\* A retransmission that waits in the scheduler was due, and still is by the
\* least timeout, which later samples can only lower.
QueuedWasDue ==
    \A k \in Keys : flight[k] # None =>
        /\ flight[k].last_sent <= now
        /\ flight[k].queued = "retransmit" =>
               /\ flight[k].attempts < MAX_ATTEMPTS
               /\ now - flight[k].last_sent >= LeastTimeout(rtt, flight[k].attempts)

RecoveryInv == RecoveryTypeOK /\ EstimateLow /\ QueuedWasDue

\* A new engine satisfies the invariant.
LEMMA RecoveryStart == RecoveryInit => RecoveryInv
<1> SUFFICES ASSUME RecoveryInit PROVE RecoveryInv
    OBVIOUS
<1> USE DEF RecoveryInit
<1>1. INITIAL_RTT \in Nat /\ MAX_NOW \in Nat /\ 0 \in Time /\ None \notin Nat
    BY RecoveryAssumption, NoneAssumption, SMTT(30) DEF Time
<1>2. rtt \in RttState /\ rtt.smoothed = None /\ rtt.min = INITIAL_RTT
      /\ rtt_ms(rtt) = INITIAL_RTT
    BY <1>1, SMTT(30) DEF NewRtt, RttState, rtt_ms
<1>3. RecoveryTypeOK
    BY <1>1, <1>2 DEF RecoveryTypeOK
<1>4. EstimateLow
    BY <1>1, <1>2, SMTT(30) DEF EstimateLow, EstimateWithinSamples
<1>5. QueuedWasDue
    BY DEF QueuedWasDue
<1> QED
    BY <1>3, <1>4, <1>5 DEF RecoveryInv

\* A new packet waits for its first transmission.
LEMMA SendIInv ==
    ASSUME RecoveryInv, NEW k \in Keys, Send(k)
    PROVE  RecoveryInv'
<1> DEFINE p == [attempts |-> 0, last_sent |-> 0, sent |-> FALSE, queued |-> "new_data"]
<1>1. MAX_NOW \in Nat /\ MAX_ATTEMPTS \in Nat
    BY RecoveryAssumption
<1>2. p \in InFlightPacket /\ p # None
  <2>1. p \in InFlightPacket
      BY <1>1, SMTT(30) DEF InFlightPacket, Time
  <2> HIDE DEF p
  <2> QED
      BY <2>1, NoneAssumption
<1>3. flight \in [Keys -> InFlightPacket \cup {None}] /\ flight' = [flight EXCEPT ![k] = p]
    BY DEF RecoveryInv, RecoveryTypeOK, Send
<1>4. p.last_sent = 0 /\ p.queued = "new_data" /\ now \in Nat
    BY <1>1, SMTT(30) DEF RecoveryInv, RecoveryTypeOK, Time
<1>5. rtt' = rtt /\ now' = now /\ ticked' = ticked /\ widest' = widest
    BY DEF Send
<1> HIDE DEF p
<1>6. RecoveryTypeOK'
    BY <1>2, <1>3, <1>5 DEF RecoveryInv, RecoveryTypeOK
<1>7. EstimateLow'
    BY <1>5 DEF RecoveryInv, EstimateLow, EstimateWithinSamples, rtt_ms
<1>8. QueuedWasDue'
  <2> SUFFICES ASSUME NEW j \in Keys, flight'[j] # None
               PROVE  /\ flight'[j].last_sent <= now
                      /\ flight'[j].queued = "retransmit" =>
                             /\ flight'[j].attempts < MAX_ATTEMPTS
                             /\ now - flight'[j].last_sent
                                    >= LeastTimeout(rtt, flight'[j].attempts)
      BY <1>5 DEF QueuedWasDue, LeastTimeout
  <2>1. CASE j = k
      BY <2>1, <1>3, <1>4, SMTT(30)
  <2>2. CASE j # k
      BY <2>2, <1>3 DEF RecoveryInv, QueuedWasDue
  <2> QED
      BY <2>1, <2>2
<1> QED
    BY <1>6, <1>7, <1>8 DEF RecoveryInv

\* A sample is at most the clock, and keeps the estimate in range.
LEMMA ObserveBounds ==
    ASSUME RecoveryInv, NEW x \in Time
    PROVE  LET r == observe_ack(rtt, x)
           IN  /\ r \in RttState
               /\ r.min <= rtt.min
               /\ r.min <= rtt_ms(r)
               /\ r.smoothed # None
               /\ r.min <= r.smoothed
               /\ r.smoothed <= Larger(widest, x)
               /\ r.var <= Larger(widest, x)
<1> DEFINE r == observe_ack(rtt, x)
<1>1. /\ MAX_NOW \in Nat /\ x \in Nat /\ x <= MAX_NOW
      /\ widest \in Nat /\ widest <= MAX_NOW
      /\ rtt.min \in Nat /\ rtt.var \in Nat /\ None \notin Nat
      /\ rtt.smoothed \in Nat \cup {None}
  <2>1. MAX_NOW \in Nat
      BY RecoveryAssumption
  <2>2. rtt.min \in Nat /\ rtt.var \in Nat /\ rtt.smoothed \in Nat \cup {None}
      BY DEF RecoveryInv, RecoveryTypeOK, RttState
  <2> QED
      BY <2>1, <2>2, NoneAssumption, SMTT(30) DEF RecoveryInv, RecoveryTypeOK, Time
<1>2. r.latest = x /\ r.min = Smaller(rtt.min, x)
    BY DEF observe_ack
<1>3. Smaller(rtt.min, x) \in Nat /\ Smaller(rtt.min, x) <= rtt.min
      /\ Smaller(rtt.min, x) <= x /\ x <= Larger(widest, x) /\ Larger(widest, x) \in Nat
    BY <1>1, SMTT(30) DEF Smaller, Larger
<1>4. /\ r.smoothed \in Nat /\ r.var \in Nat
      /\ Smaller(rtt.min, x) <= r.smoothed
      /\ r.smoothed <= Larger(widest, x) /\ r.var <= Larger(widest, x)
  <2>1. CASE rtt.smoothed = None
    <3>1. r.smoothed = x /\ r.var = x \div 2
        BY <2>1 DEF observe_ack
    <3>2. x \div 2 \in Nat /\ x \div 2 <= x
        BY <1>1, SMTT(30)
    <3> HIDE DEF r
    <3> QED
        BY <1>1, <1>3, <3>1, <3>2, SMTT(30)
  <2>2. CASE rtt.smoothed # None
    <3>1. r.smoothed = Smoothed(rtt.smoothed, x)
          /\ r.var = SmoothedVar(rtt.var, rtt.smoothed, x)
        BY <2>2 DEF observe_ack
    <3>2. rtt.min <= rtt.smoothed /\ rtt.smoothed <= widest /\ rtt.var <= widest
        BY <2>2 DEF RecoveryInv, EstimateLow, EstimateWithinSamples
    <3>3. rtt.smoothed \in Nat
        BY <1>1, <2>2
    <3>4. /\ Smoothed(rtt.smoothed, x) \in Nat
          /\ SmoothedVar(rtt.var, rtt.smoothed, x) \in Nat
          /\ Smaller(rtt.min, x) <= Smoothed(rtt.smoothed, x)
          /\ Smoothed(rtt.smoothed, x) <= Larger(widest, x)
          /\ SmoothedVar(rtt.var, rtt.smoothed, x) <= Larger(widest, x)
        BY <1>1, <3>2, <3>3, SampleBounds, Zenon
    <3> HIDE DEF r
    <3> QED
        BY <3>1, <3>4
  <2> QED
      BY <2>1, <2>2
<1>5. r = [latest |-> r.latest, min |-> r.min, smoothed |-> r.smoothed, var |-> r.var]
    BY DEF observe_ack
<1> HIDE DEF r
<1>6. r \in RttState
    BY <1>1, <1>2, <1>3, <1>4, <1>5 DEF RttState
<1>7. r.smoothed # None /\ rtt_ms(r) = r.smoothed
    BY <1>1, <1>4 DEF rtt_ms
<1> QED
    BY <1>2, <1>3, <1>4, <1>6, <1>7 DEF r

\* Larger stays in Time.
LEMMA LargerTime ==
    ASSUME NEW a \in Time, NEW b \in Time
    PROVE  Larger(a, b) \in Time /\ a <= Larger(a, b)
    BY RecoveryAssumption, SMTT(30) DEF Time, Larger

\* An ACK may take a sample; writes that wait stay due by the new least timeout.
LEMMA AckIInv ==
    ASSUME RecoveryInv, NEW k \in Keys, Ack(k)
    PROVE  RecoveryInv'
<1> DEFINE x == SatSub(now, flight[k].last_sent)
<1>1. /\ flight \in [Keys -> InFlightPacket \cup {None}] /\ flight[k] \in InFlightPacket
      /\ now \in Time /\ widest \in Time /\ rtt \in RttState /\ ticked \in BOOLEAN
    BY DEF RecoveryInv, RecoveryTypeOK, Ack
<1>2. x \in Time
  <2>1. flight[k].last_sent \in Time
      BY <1>1 DEF InFlightPacket
  <2> QED
      BY <1>1, <2>1, RecoveryAssumption, SMTT(30) DEF SatSub, Time
<1> HIDE DEF x
<1>3. flight' = [flight EXCEPT ![k] = None] /\ now' = now /\ ticked' = ticked
    BY DEF Ack
<1>4. /\ rtt' \in RttState /\ rtt'.min <= rtt.min /\ widest' \in Time
      /\ EstimateLow'
  <2>1. CASE flight[k].sent
    <3> DEFINE r == observe_ack(rtt, x)
    <3>1. rtt' = r /\ widest' = Larger(widest, x)
        BY <2>1 DEF Ack, x
    <3>2. /\ r \in RttState /\ r.min <= rtt.min /\ r.min <= rtt_ms(r)
          /\ r.smoothed # None /\ r.min <= r.smoothed
          /\ r.smoothed <= Larger(widest, x) /\ r.var <= Larger(widest, x)
        BY <1>2, ObserveBounds
    <3> HIDE DEF r
    <3>3. Larger(widest, x) \in Time
        BY <1>1, <1>2, LargerTime
    <3>4. EstimateLow'
        BY <3>1, <3>2 DEF EstimateLow, EstimateWithinSamples, rtt_ms
    <3> QED
        BY <3>1, <3>2, <3>3, <3>4
  <2>2. CASE ~flight[k].sent
    <3>1. rtt' = rtt /\ widest' = widest
        BY <2>2 DEF Ack
    <3>2. rtt.min <= rtt.min
        BY <1>1, SMTT(30) DEF RttState
    <3> QED
        BY <1>1, <3>1, <3>2 DEF RecoveryInv, EstimateLow, EstimateWithinSamples, rtt_ms
  <2> QED
      BY <2>1, <2>2
<1>5. RecoveryTypeOK'
    BY <1>1, <1>3, <1>4 DEF RecoveryTypeOK
<1>6. QueuedWasDue'
  <2> SUFFICES ASSUME NEW j \in Keys, flight'[j] # None
               PROVE  /\ flight'[j].last_sent <= now
                      /\ flight'[j].queued = "retransmit" =>
                             /\ flight'[j].attempts < MAX_ATTEMPTS
                             /\ now - flight'[j].last_sent
                                    >= LeastTimeout(rtt', flight'[j].attempts)
      BY <1>3 DEF QueuedWasDue, LeastTimeout
  <2>1. flight'[j] = flight[j] /\ flight[j] \in InFlightPacket
      BY <1>1, <1>3
  <2>2. /\ flight[j].last_sent <= now
        /\ flight[j].queued = "retransmit" =>
               /\ flight[j].attempts < MAX_ATTEMPTS
               /\ now - flight[j].last_sent >= LeastTimeout(rtt, flight[j].attempts)
      BY <2>1 DEF RecoveryInv, QueuedWasDue
  <2>3. flight[j].attempts \in Nat /\ flight[j].last_sent \in Nat /\ now \in Nat
      BY <1>1, <2>1, RecoveryAssumption, SMTT(30) DEF InFlightPacket, Time
  <2>4. rtt.min \in Nat /\ rtt'.min \in Nat
      BY <1>1, <1>4 DEF RttState
  <2>5. /\ LeastTimeout(rtt', flight[j].attempts) \in Nat
        /\ LeastTimeout(rtt', flight[j].attempts) <= LeastTimeout(rtt, flight[j].attempts)
      BY <1>4, <2>3, <2>4, LeastMonotone
  <2>6. LeastTimeout(rtt, flight[j].attempts) \in Nat
      BY <2>3, <2>4, LeastMonotone, SMTT(30)
  <2> QED
      BY <2>1, <2>2, <2>3, <2>5, <2>6, SMTT(30)
<1> QED
    BY <1>4, <1>5, <1>6 DEF RecoveryInv

\* tick_retransmit leaves every packet as it was, or gone, or queued because it
\* was due.
LEMMA TickBounds ==
    ASSUME RecoveryInv, NEW n \in Time, n >= now, NEW k \in Keys, Tick(n)[k] # None
    PROVE  /\ flight[k] \in InFlightPacket
           /\ Tick(n)[k] \in InFlightPacket
           /\ Tick(n)[k].attempts = flight[k].attempts
           /\ Tick(n)[k].last_sent = flight[k].last_sent
           /\ Tick(n)[k].last_sent <= n
           /\ Tick(n)[k].queued = "retransmit" =>
                  /\ flight[k].attempts < MAX_ATTEMPTS
                  /\ n - flight[k].last_sent >= LeastTimeout(rtt, flight[k].attempts)
<1> DEFINE p == flight[k]
<1>1. p \in InFlightPacket \cup {None} /\ now \in Time
    BY DEF RecoveryInv, RecoveryTypeOK
<1>2. Tick(n)[k] = p \/ Tick(n)[k] = TickedAt(p, n)
    BY DEF Tick
<1>3. p # None /\ p \in InFlightPacket
    BY <1>1, <1>2 DEF TickedAt, IsDue
<1>4. /\ p.last_sent <= now
      /\ p.queued = "retransmit" =>
             /\ p.attempts < MAX_ATTEMPTS
             /\ now - p.last_sent >= LeastTimeout(rtt, p.attempts)
    BY <1>3 DEF RecoveryInv, QueuedWasDue
<1>5. p.attempts \in Nat /\ p.last_sent \in Nat /\ now \in Nat /\ n \in Nat
    BY <1>1, <1>3, RecoveryAssumption, SMTT(30) DEF InFlightPacket, Time
<1>6. LeastTimeout(rtt, p.attempts) \in Nat /\ timeout_ms(rtt, p.attempts) \in Nat
      /\ LeastTimeout(rtt, p.attempts) <= timeout_ms(rtt, p.attempts)
  <2>1. rtt.min \in Nat /\ rtt.var \in Nat /\ rtt_ms(rtt) \in Nat
      BY DEF RecoveryInv, RecoveryTypeOK, RttState, rtt_ms
  <2>2. rtt.min <= rtt_ms(rtt)
      BY DEF RecoveryInv, EstimateLow
  <2>3. rtt.min <= rtt.min
      BY <2>1, SMTT(30)
  <2>4. LeastTimeout(rtt, p.attempts) \in Nat
      BY <1>5, <2>1, <2>3, LeastMonotone
  <2> QED
      BY <1>5, <2>1, <2>2, <2>4, LeastIsLeast
<1>7. CASE Tick(n)[k] = p
  <2> HIDE DEF p
  <2>1. p.queued = "retransmit" =>
            p.attempts < MAX_ATTEMPTS /\ n - p.last_sent >= LeastTimeout(rtt, p.attempts)
      BY <1>4, <1>5, <1>6, SMTT(30)
  <2>2. p.last_sent <= n
      BY <1>4, <1>5, SMTT(30)
  <2> QED
      BY <1>3, <1>7, <2>1, <2>2 DEF p
<1>8. CASE Tick(n)[k] = TickedAt(p, n) /\ Tick(n)[k] # p
  <2>1. IsDue(p, n) /\ ~(p.attempts >= MAX_ATTEMPTS)
        /\ Tick(n)[k] = [p EXCEPT !.queued = "retransmit"]
      BY <1>8 DEF TickedAt
  <2>2. /\ Tick(n)[k] \in InFlightPacket
        /\ Tick(n)[k].attempts = p.attempts
        /\ Tick(n)[k].last_sent = p.last_sent
      BY <1>3, <2>1 DEF InFlightPacket
  <2>3. SatSub(n, p.last_sent) >= timeout_ms(rtt, p.attempts)
      BY <2>1 DEF IsDue
  <2> HIDE DEF p
  <2>4. n - p.last_sent >= LeastTimeout(rtt, p.attempts)
      BY <1>4, <1>5, <1>6, <2>3, SMTT(30) DEF SatSub
  <2>5. p.attempts < MAX_ATTEMPTS /\ p.last_sent <= n
      BY <1>4, <1>5, <2>1, RecoveryAssumption, SMTT(30)
  <2> QED
      BY <1>3, <2>2, <2>4, <2>5 DEF p
<1> QED
    BY <1>2, <1>7, <1>8

\* What a poll makes of one packet: the tick's packet, or that one transmitted.
LEMMA PollPacket ==
    ASSUME RecoveryInv, NEW n \in Instants, Poll(n), NEW k \in Keys, flight'[k] # None
    PROVE  /\ n \in Time /\ n >= now /\ now' = n
           /\ Tick(n)[k] # None
           /\ \/ flight'[k] = Tick(n)[k]
              \/ flight'[k] = SentAt(Tick(n)[k], n)
<1>1. n \in Time /\ n >= now /\ now' = n
    BY RecoveryAssumption DEF Poll, Time
<1>2. flight \in [Keys -> InFlightPacket \cup {None}]
    BY DEF RecoveryInv, RecoveryTypeOK
<1>3. DOMAIN Tick(n) = Keys
    BY <1>2 DEF Tick
<1>4. CASE flight' = Tick(n)
    BY <1>1, <1>4
<1>5. CASE \E j \in Queued(Tick(n)) : flight' = [Tick(n) EXCEPT ![j] = SentAt(@, n)]
  <2>1. PICK j \in Queued(Tick(n)) : flight' = [Tick(n) EXCEPT ![j] = SentAt(@, n)]
      BY <1>5
  <2>2. j \in Keys /\ Tick(n)[j] # None
      BY <2>1 DEF Queued
  <2> QED
      BY <1>1, <1>3, <2>1, <2>2
<1> QED
    BY <1>4, <1>5 DEF Poll

\* The packets a poll leaves satisfy the invariant at the new time.
LEMMA PolledPacket ==
    ASSUME RecoveryInv, NEW n \in Instants, Poll(n), NEW k \in Keys, flight'[k] # None
    PROVE  /\ flight'[k] \in InFlightPacket
           /\ flight'[k].last_sent <= n
           /\ flight'[k].queued = "retransmit" =>
                  /\ flight'[k].attempts < MAX_ATTEMPTS
                  /\ n - flight'[k].last_sent >= LeastTimeout(rtt, flight'[k].attempts)
<1> DEFINE t == Tick(n)[k]
<1>1. /\ n \in Time /\ n >= now /\ t # None
      /\ flight'[k] = t \/ flight'[k] = SentAt(t, n)
    BY PollPacket
<1>2. /\ t \in InFlightPacket
      /\ t.attempts = flight[k].attempts
      /\ t.last_sent = flight[k].last_sent
      /\ t.last_sent <= n
      /\ t.queued = "retransmit" =>
             /\ flight[k].attempts < MAX_ATTEMPTS
             /\ n - flight[k].last_sent >= LeastTimeout(rtt, flight[k].attempts)
    BY <1>1, TickBounds
<1> HIDE DEF t
<1>3. CASE flight'[k] = t
    BY <1>2, <1>3
<1>4. CASE flight'[k] = SentAt(t, n)
  <2>1. MAX_ATTEMPTS \in Nat /\ t.attempts \in 0 .. MAX_ATTEMPTS
      BY <1>2, RecoveryAssumption DEF InFlightPacket
  <2>2. t.queued = "retransmit" => t.attempts + 1 \in 0 .. MAX_ATTEMPTS
      BY <1>2, <2>1, SMTT(30)
  <2> DEFINE a == IF t.queued = "retransmit" THEN t.attempts + 1 ELSE t.attempts
  <2>3. a \in 0 .. MAX_ATTEMPTS
      BY <2>1, <2>2
  <2>4. SentAt(t, n) = [t EXCEPT !.sent = TRUE, !.last_sent = n, !.queued = "no",
                                 !.attempts = a]
      BY DEF SentAt
  <2> HIDE DEF a
  <2>5. SentAt(t, n) \in InFlightPacket /\ SentAt(t, n).last_sent = n
        /\ SentAt(t, n).queued = "no"
      BY <1>1, <1>2, <2>3, <2>4 DEF InFlightPacket
  <2>6. n <= n
      BY <1>1, RecoveryAssumption, SMTT(30) DEF Time
  <2> QED
      BY <1>4, <2>5, <2>6
<1> QED
    BY <1>1, <1>3, <1>4

\* A poll, with its tick and its output, keeps the invariant.
LEMMA PollIInv ==
    ASSUME RecoveryInv, NEW n \in Instants, Poll(n)
    PROVE  RecoveryInv'
<1>1. n \in Time /\ now' = n /\ ticked' = TRUE /\ rtt' = rtt /\ widest' = widest
    BY RecoveryAssumption DEF Poll, Time
<1>2. RecoveryTypeOK'
  <2>1. flight \in [Keys -> InFlightPacket \cup {None}]
      BY DEF RecoveryInv, RecoveryTypeOK
  <2>2. flight' = [k \in Keys |-> flight'[k]]
    <3>1. Tick(n) = [k \in Keys |-> Tick(n)[k]]
        BY <2>1 DEF Tick
    <3> QED
        BY <3>1 DEF Poll
  <2>3. \A k \in Keys : flight'[k] \in InFlightPacket \cup {None}
      BY PolledPacket
  <2>4. flight' \in [Keys -> InFlightPacket \cup {None}]
      BY <2>2, <2>3
  <2> QED
      BY <1>1, <2>4 DEF RecoveryInv, RecoveryTypeOK
<1>3. EstimateLow'
    BY <1>1 DEF RecoveryInv, EstimateLow, EstimateWithinSamples, rtt_ms
<1>4. QueuedWasDue'
  <2>1. \A k \in Keys : flight'[k] # None =>
            /\ flight'[k].last_sent <= n
            /\ flight'[k].queued = "retransmit" =>
                   /\ flight'[k].attempts < MAX_ATTEMPTS
                   /\ n - flight'[k].last_sent >= LeastTimeout(rtt, flight'[k].attempts)
      BY PolledPacket
  <2> QED
      BY <1>1, <2>1 DEF QueuedWasDue, LeastTimeout
<1> QED
    BY <1>2, <1>3, <1>4 DEF RecoveryInv

\* Every step keeps the invariant.
LEMMA RecoveryStep == RecoveryInv /\ [RecoveryNext]_recoveryVars => RecoveryInv'
<1> SUFFICES ASSUME RecoveryInv, [RecoveryNext]_recoveryVars PROVE RecoveryInv'
    OBVIOUS
<1>1. CASE \E k \in Keys : Send(k) \/ Ack(k)
    BY <1>1, SendIInv, AckIInv
<1>2. CASE \E n \in Instants : Poll(n)
    BY <1>2, PollIInv
<1>3. CASE UNCHANGED recoveryVars
    BY <1>3
       DEF recoveryVars, RecoveryInv, RecoveryTypeOK, EstimateLow, EstimateWithinSamples, rtt_ms,
                QueuedWasDue, LeastTimeout
<1> QED
    BY <1>1, <1>2, <1>3 DEF RecoveryNext

\* The invariant holds in every reachable state.
LEMMA RecoveryInvHolds == RecoverySpec => []RecoveryInv
    BY RecoveryStart, RecoveryStep, PTL DEF RecoverySpec

-----------------------------------------------------------------------------
(* Theorems *)

\* For every configuration and every order of sends, ACKs and polls, as long as
\* the adapter's clock stays below an eighth of the u64 range: no sum of the
\* estimator wraps, and the estimate stays within the samples it was made from.
THEOREM EstimateBounded == RecoverySpec => []EstimateWithinSamples
<1>1. RecoveryInv => EstimateWithinSamples
    BY DEF RecoveryInv, EstimateLow
<1> QED
    BY RecoveryInvHolds, <1>1, PTL

\* For every configuration no packet is retransmitted before the smallest round
\* trip and the ACK delay have passed, doubled for every attempt.
THEOREM RetransmissionsWait == RecoverySpec => RetransmitWaits
<1> DEFINE A == \A k \in Keys :
                   (/\ flight[k] # None /\ flight'[k] # None
                    /\ flight'[k].attempts # flight[k].attempts)
                       => now' - flight[k].last_sent >= LeastTimeout(rtt, flight[k].attempts)
<1>1. RecoveryInv /\ [RecoveryNext]_recoveryVars => [A]_recoveryVars
  <2> SUFFICES ASSUME RecoveryInv, RecoveryNext, NEW k \in Keys, flight[k] # None, flight'[k] # None,
                      flight'[k].attempts # flight[k].attempts
               PROVE  now' - flight[k].last_sent >= LeastTimeout(rtt, flight[k].attempts)
      OBVIOUS
  <2>1. flight \in [Keys -> InFlightPacket \cup {None}]
      BY DEF RecoveryInv, RecoveryTypeOK
  <2>2. ASSUME NEW j \in Keys, Send(j) \/ Ack(j)
        PROVE  FALSE
      BY <2>1, <2>2 DEF Send, Ack
  <2>3. ASSUME NEW n \in Instants, Poll(n)
        PROVE  now' - flight[k].last_sent >= LeastTimeout(rtt, flight[k].attempts)
    <3> DEFINE t == Tick(n)[k]
    <3>1. /\ n \in Time /\ n >= now /\ now' = n /\ t # None
          /\ flight'[k] = t \/ flight'[k] = SentAt(t, n)
        BY <2>3, PollPacket
    <3>2. /\ t \in InFlightPacket
          /\ t.attempts = flight[k].attempts
          /\ t.queued = "retransmit" =>
                 n - flight[k].last_sent >= LeastTimeout(rtt, flight[k].attempts)
        BY <3>1, TickBounds
    <3> HIDE DEF t
    <3>3. t.queued # "retransmit" => SentAt(t, n).attempts = t.attempts
        BY <3>2 DEF SentAt, InFlightPacket
    <3> QED
        BY <3>1, <3>2, <3>3
  <2> QED
      BY <2>2, <2>3 DEF RecoveryNext
<1> QED
    BY RecoveryInvHolds, <1>1, PTL DEF RecoverySpec, RetransmitWaits

\* For every configuration the estimator, the packets in flight and their
\* attempts stay within their types: no time lies past the clock's range and no
\* packet is tried more often than the limit allows.
THEOREM RecoveryTyped == RecoverySpec => []RecoveryTypeOK
<1>1. RecoveryInv => RecoveryTypeOK
    BY DEF RecoveryInv
<1> QED
    BY RecoveryInvHolds, <1>1, PTL
=============================================================================
