------------------------------- MODULE Server -------------------------------
(***************************************************************************)
(* ServerEndpoint (endpoint/server.rs): a table of N places that maps the  *)
(* adapter's peer ids to session slots.  The engines of the peers are left *)
(* open: a call of receive or poll may have any result an engine can give. *)
(***************************************************************************)
EXTENDS PeerSlot, FiniteSets

CONSTANTS
    Ids,              \* peer ids the adapter uses
    N,                \* places in the table
    IDLE_TIMEOUT,     \* the timeout the adapter passes to disconnect_idle
    Vacant            \* an empty place

Places == 1 .. N
Entry == [peer_id: Ids, slot: Slot]

ASSUME ServerAssumption ==
    /\ N \in Nat
    /\ IDLE_TIMEOUT \in 0 .. HORIZON
    /\ Vacant \notin Entry

VARIABLES
    peers,            \* ServerEndpoint::peers
    answer            \* what the last call of accept returned

vars == <<peers, answer>>

Answers == {"none", "ok", "full", "engine"}

TypeOK == peers \in [Places -> Entry \cup {Vacant}] /\ answer \in Answers

Init == peers = [i \in Places |-> Vacant] /\ answer = "none"

-----------------------------------------------------------------------------

IsOf(i, id) == peers[i] # Vacant /\ peers[i].peer_id = id

Known(id) == \E i \in Places : IsOf(i, id)

First(S) == CHOOSE i \in S : \A j \in S : i <= j

find_index(id) == First({i \in Places : IsOf(i, id)})

\* Faulty variant: the last place is never found.
VacantPlacesButLast == {i \in 1 .. N - 1 : peers[i] = Vacant}

VacantPlaces == {i \in Places : peers[i] = Vacant}

vacant_index == First(VacantPlaces)

\* The place whose slot connect is called on.  The engine is new, so its hello
\* message may be refused, but the slot stays with the new engine.
reconnect_at(i, id) ==
    /\ peers' = [peers EXCEPT ![i] = [peer_id |-> id, slot |-> NewSession]]
    /\ answer' \in {"ok", "engine"}

\* Faulty variant: a vacant place is preferred to the peer's own.
accept_vacant_first(id) ==
    IF VacantPlaces # {} THEN reconnect_at(vacant_index, id)
    ELSE IF Known(id) THEN reconnect_at(find_index(id), id)
    ELSE answer' = "full" /\ UNCHANGED peers

accept(id) ==
    IF Known(id) THEN reconnect_at(find_index(id), id)
    ELSE IF VacantPlaces # {} THEN reconnect_at(vacant_index, id)
    ELSE answer' = "full" /\ UNCHANGED peers

disconnect(id) ==
    /\ Known(id)
    /\ peers' = [peers EXCEPT ![find_index(id)] = Vacant]
    /\ answer' = "none"

\* The slot of a known peer changes; its place stays taken.
SetSlot(id, slot) ==
    /\ peers' = [peers EXCEPT ![find_index(id)].slot = slot]
    /\ answer' = "none"

SlotOf(id) == peers[find_index(id)].slot

ServerReceive(id) ==
    /\ Known(id)
    /\ SlotOf(id).engine
    /\ \E report \in Reports : SetSlot(id, receive(SlotOf(id), report))

\* poll queues a probe first if one is due.
ServerPoll(id) ==
    /\ Known(id)
    /\ SlotOf(id).engine
    /\ LET slot == IF PingDue(SlotOf(id)) THEN Pinged(SlotOf(id)) ELSE SlotOf(id)
       IN  \E result \in PollResults : SetSlot(id, poll(slot, result))

\* What the adapter may do to the slot that peer_mut hands out, besides the calls
\* above: connect, accept_passive, disconnect, disconnect_if_idle.
peer_mut(id) ==
    /\ Known(id)
    /\ \E slot \in {EmptySlot, NewSession} : SetSlot(id, slot)

disconnect_idle ==
    /\ peers' = [i \in Places |->
           IF peers[i] # Vacant /\ IdleFor(peers[i].slot, IDLE_TIMEOUT) THEN Vacant
           ELSE peers[i]]
    /\ answer' = "none"

\* A millisecond passes.
Elapse ==
    /\ peers' = [i \in Places |->
           IF peers[i] = Vacant THEN Vacant
           ELSE [peers[i] EXCEPT !.slot = Later(@, 1)]]
    /\ answer' = "none"

Next ==
    \/ \E id \in Ids :
           accept(id) \/ disconnect(id) \/ ServerReceive(id) \/ ServerPoll(id) \/ peer_mut(id)
    \/ disconnect_idle
    \/ Elapse

Spec == Init /\ [][Next]_vars

\* Time passes and the adapter sweeps the table now and then.
FairSpec == Spec /\ WF_vars(disconnect_idle) /\ WF_vars(Elapse)

-----------------------------------------------------------------------------
(* Properties *)

\* A peer has one session: no peer id stands at two places, so a call for a peer
\* always reaches the slot its last accept created.
UniquePeers == \A id \in Ids : \A i, j \in Places : IsOf(i, id) /\ IsOf(j, id) => i = j

\* accept reports Full only when N different peers have a place: accepting,
\* dropping and accepting again never uses up a place without a peer in it.
FullIsFull == answer = "full" => Cardinality({id \in Ids : Known(id)}) = N

\* Errors, failed sends, sweeps, reconnects and probes leave every slot of the
\* table coherent, in whatever order they come.  The answers of is_connected and
\* has_session agree, and a session never starts with the pending_ping of an
\* earlier one, which would keep poll from ever probing its peer.
SlotsCoherent == \A i \in Places : peers[i] # Vacant => Coherent(peers[i].slot)

SilentSince(id) == Known(id) /\ SlotOf(id).engine /\ SlotOf(id).quiet > 0

\* The session of a peer that stays silent is given up and its place becomes
\* free, without a call that names the peer: or else the peer is heard again, or
\* its session ends in another way.
SilentPlaceFreed ==
    \A id \in Ids :
        SilentSince(id) ~> (~Known(id) \/ ~SlotOf(id).engine \/ SlotOf(id).quiet = 0)
=============================================================================
