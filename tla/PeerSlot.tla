------------------------------ MODULE PeerSlot ------------------------------
(***************************************************************************)
(* The session slot of one peer (endpoint/peer.rs): whether there is an    *)
(* engine, the connection state, and the two times the slot keeps.  The    *)
(* code stores last_seen_ms and last_ping_ms and only ever uses their      *)
(* distance to the caller's now_ms; the model stores the distances, for a  *)
(* caller whose clock does not run backwards, and stops counting at        *)
(* HORIZON.  What the engine itself does is module Engine; here it is only *)
(* there or not.                                                           *)
(***************************************************************************)
EXTENDS Naturals

CONSTANTS
    PING_INTERVAL,    \* DEFAULT_PING_INTERVAL_MS
    HORIZON           \* at least every interval a time is compared with

ASSUME PeerSlotAssumption ==
    PING_INTERVAL \in Nat /\ HORIZON \in Nat /\ PING_INTERVAL <= HORIZON

PeerState == {"disconnected", "connecting", "connected"}

Slot == [engine: BOOLEAN, state: PeerState, quiet: 0 .. HORIZON,
         since_ping: 0 .. HORIZON, pending_ping: BOOLEAN]

\* PeerSlot::new, and what disconnect leaves.
EmptySlot == [engine |-> FALSE, state |-> "disconnected", quiet |-> 0,
              since_ping |-> 0, pending_ping |-> FALSE]

\* What connect and accept_passive make of any slot.
NewSession == [engine |-> TRUE, state |-> "connecting", quiet |-> 0,
               since_ping |-> 0, pending_ping |-> FALSE]

accept_passive_if_needed(slot) ==
    [(IF slot.engine THEN slot ELSE NewSession) EXCEPT !.quiet = 0]

Reports == {"incomplete", "noise", "corrupted", "packet", "duplicate", "ack", "ping",
            "pong", "error"}
PeerTraffic == {"packet", "duplicate", "ack", "ping", "pong"}

\* Faulty variant: an ACK does not confirm the session.
receive_unconfirmed(slot, report) ==
    IF report = "error" THEN EmptySlot
    ELSE [slot EXCEPT
             !.state = IF report \in PeerTraffic \ {"ack"} THEN "connected" ELSE @,
             !.quiet = IF report \in PeerTraffic THEN 0 ELSE @,
             !.pending_ping = @ /\ report # "pong"]

\* PeerSlot::receive, once the engine of the slot has reported.
receive(slot, report) ==
    IF report = "error" THEN EmptySlot
    ELSE [slot EXCEPT
             !.state = IF report \in PeerTraffic THEN "connected" ELSE @,
             !.quiet = IF report \in PeerTraffic THEN 0 ELSE @,
             !.pending_ping = @ /\ report # "pong"]

\* queue_ping_if_idle goes on to send_ping.
PingDue(slot) ==
    /\ slot.state = "connected"
    /\ ~slot.pending_ping
    /\ slot.quiet >= PING_INTERVAL
    /\ slot.since_ping >= PING_INTERVAL

Pinged(slot) == [slot EXCEPT !.since_ping = 0, !.pending_ping = TRUE]

PollResults == {"transmit", "message", "send_failed", "idle", "error"}

\* Faulty variant: the engine survives an error.
poll_keeping(slot, result) ==
    IF result = "send_failed" THEN EmptySlot
    ELSE IF result = "message" THEN [slot EXCEPT !.state = "connected", !.quiet = 0]
    ELSE slot

\* Faulty variant: a failed send drops the engine and leaves pending_ping set.
poll_forgetting_ping(slot, result) ==
    IF result = "error" THEN EmptySlot
    ELSE IF result = "send_failed"
    THEN [EmptySlot EXCEPT !.pending_ping = slot.pending_ping]
    ELSE IF result = "message" THEN [slot EXCEPT !.state = "connected", !.quiet = 0]
    ELSE slot

\* PeerSlot::poll, once the engine of the slot has answered.
poll(slot, result) ==
    IF result \in {"send_failed", "error"} THEN EmptySlot
    ELSE IF result = "message" THEN [slot EXCEPT !.state = "connected", !.quiet = 0]
    ELSE slot

\* Faulty variant: only sessions the peer has confirmed are given up.
IdleConnected(slot, timeout) == slot.state = "connected" /\ slot.quiet >= timeout

\* disconnect_if_idle drops the engine.
IdleFor(slot, timeout) == slot.engine /\ slot.quiet >= timeout

\* d milliseconds pass on the caller's clock.
Capped(t) == IF t > HORIZON THEN HORIZON ELSE t

Later(slot, d) ==
    IF slot.engine
    THEN [slot EXCEPT !.quiet = Capped(@ + d), !.since_ping = Capped(@ + d)]
    ELSE slot

-----------------------------------------------------------------------------

\* The fields of a slot, which the code sets one by one in many places, fit each
\* other: there is an engine unless the slot is disconnected, a probe is awaited
\* only in a session the peer has confirmed, and nothing of a session is left
\* when it is gone.
Coherent(slot) ==
    /\ slot.engine <=> slot.state # "disconnected"
    /\ slot.pending_ping => slot.state = "connected"
    /\ ~slot.engine => slot = EmptySlot
=============================================================================
