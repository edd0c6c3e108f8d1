-------------------------- MODULE DynamicRecovery --------------------------
(***************************************************************************)
(* Recovery with the dynamic-recovery feature: the round-trip estimator    *)
(* (reliability/recovery/dynamic.rs) and the retransmissions it times      *)
(* (engine/state/recovery.rs, recovery/retransmit.rs).  The rest of an     *)
(* engine is module Engine; of the scheduler only this is kept: a write    *)
(* that is queued may be what a later poll transmits, or something else    *)
(* goes first.  Every packet is a message of its own.                      *)
(*                                                                         *)
(* Times are u64: additions and products wrap or saturate at WIDTH bits as *)
(* in the code.                                                            *)
(***************************************************************************)
EXTENDS Integers

CONSTANTS
    Keys,             \* packet keys
    WIDTH,            \* 64
    INITIAL_RTT,      \* DynamicRecoveryConfig::initial_rtt_ms
    MAX_ACK_DELAY,    \* DynamicRecoveryConfig::max_ack_delay_ms
    GRANULARITY,      \* DynamicRecoveryConfig::timer_granularity_ms
    MAX_BACKOFF,      \* DynamicRecoveryConfig::max_backoff_exponent
    MAX_ATTEMPTS,     \* EngineConfig::max_retransmit_attempts
    Instants,         \* the times at which an adapter may poll
    MAX_NOW,          \* bound: the adapter's clock
    None              \* no sample yet, no packet

\* The clock stays below an eighth of the range.
ASSUME RecoveryAssumption ==
    /\ WIDTH \in Nat
    /\ \A e \in 0 .. WIDTH : 2^e \in Nat \ {0}
    /\ {INITIAL_RTT, MAX_ACK_DELAY, GRANULARITY, MAX_BACKOFF, MAX_ATTEMPTS,
        MAX_NOW} \subseteq Nat
    /\ 8 * MAX_NOW < 2^WIDTH
    /\ 8 * INITIAL_RTT < 2^WIDTH
    /\ Instants \subseteq 0 .. MAX_NOW

VARIABLES
    rtt,              \* DynamicRecoveryState
    now,              \* ClockState::now_ms
    ticked,           \* RecoveryState::last_tick_ms is now
    flight,           \* flight[k]: the InFlightPacket with key k
    widest            \* the largest sample so far

recoveryVars == <<rtt, now, ticked, flight, widest>>

Time == 0 .. MAX_NOW

RttState == [latest: Nat, smoothed: Nat \cup {None}, var: Nat, min: Nat]

\* queued tells which write of the packet, if any, waits in the scheduler.
InFlightPacket == [attempts: 0 .. MAX_ATTEMPTS, last_sent: Time,
                   sent: BOOLEAN, queued: {"no", "new_data", "retransmit"}]

ASSUME NoneAssumption == None \notin Nat /\ None \notin InFlightPacket

RecoveryTypeOK ==
    /\ rtt \in RttState
    /\ now \in Time
    /\ ticked \in BOOLEAN
    /\ flight \in [Keys -> InFlightPacket \cup {None}]
    /\ widest \in Time

-----------------------------------------------------------------------------
(* u64 arithmetic *)

MAX_U64 == 2^WIDTH - 1

Larger(a, b) == IF a >= b THEN a ELSE b
Smaller(a, b) == IF a <= b THEN a ELSE b

Wrap(n) == n % 2^WIDTH
SatAdd(a, b) == Smaller(a + b, MAX_U64)
SatMul(a, b) == Smaller(a * b, MAX_U64)
SatSub(a, b) == IF a >= b THEN a - b ELSE 0
AbsDiff(a, b) == IF a >= b THEN a - b ELSE b - a

-----------------------------------------------------------------------------
(* DynamicRecoveryState *)

NewRtt == [latest |-> INITIAL_RTT, smoothed |-> None,
           var |-> INITIAL_RTT \div 2, min |-> INITIAL_RTT]

\* Faulty variant: the distance of a short sample wraps around.
SmoothedVarWrapping(var, smoothed, sample) ==
    Wrap(Wrap(3 * var) + Wrap(smoothed - sample)) \div 4

SmoothedVar(var, smoothed, sample) ==
    Wrap(Wrap(3 * var) + AbsDiff(smoothed, sample)) \div 4

Smoothed(smoothed, sample) == Wrap(Wrap(7 * smoothed) + sample) \div 8

observe_ack(r, sample) ==
    [latest |-> sample,
     min |-> Smaller(r.min, sample),
     smoothed |-> IF r.smoothed = None THEN sample ELSE Smoothed(r.smoothed, sample),
     var |-> IF r.smoothed = None THEN sample \div 2
             ELSE SmoothedVar(r.var, r.smoothed, sample)]

rtt_ms(r) == IF r.smoothed = None THEN r.latest ELSE r.smoothed

Granularity == Larger(1, GRANULARITY)

pto_base_ms(r) == SatAdd(rtt_ms(r), Larger(SatMul(r.var, 4), Granularity))

\* 1u64.checked_shl(exponent), for the exponent of a packet's attempts.
Backoff(attempts) ==
    LET exponent == Smaller(attempts, MAX_BACKOFF)
    IN  IF exponent < WIDTH THEN 2^exponent ELSE MAX_U64

\* Faulty variant: no backoff.
timeout_flat(r, attempts) == SatAdd(pto_base_ms(r), MAX_ACK_DELAY)

timeout_ms(r, attempts) ==
    SatMul(SatAdd(pto_base_ms(r), MAX_ACK_DELAY), Backoff(attempts))

-----------------------------------------------------------------------------
(* The engine *)

RecoveryInit ==
    /\ rtt = NewRtt
    /\ now = 0
    /\ ticked = FALSE
    /\ flight = [k \in Keys |-> None]
    /\ widest = 0

\* send: track the packet and queue its write.
Send(k) ==
    /\ flight[k] = None
    /\ flight' = [flight EXCEPT ![k] =
           [attempts |-> 0, last_sent |-> 0, sent |-> FALSE, queued |-> "new_data"]]
    /\ UNCHANGED <<rtt, now, ticked, widest>>

\* apply_ack_at: the sample is taken at the engine's clock, before the packet
\* is removed, whichever of its transmissions the ACK answers.
Ack(k) ==
    /\ flight[k] # None
    /\ LET sample == SatSub(now, flight[k].last_sent)
       IN  IF flight[k].sent
           THEN rtt' = observe_ack(rtt, sample) /\ widest' = Larger(widest, sample)
           ELSE UNCHANGED <<rtt, widest>>
    /\ flight' = [flight EXCEPT ![k] = None]
    /\ UNCHANGED <<now, ticked>>

IsDue(p, n) ==
    p # None /\ p.sent /\ SatSub(n, p.last_sent) >= timeout_ms(rtt, p.attempts)

\* Faulty variant: one attempt too many.
TickedLate(p, n) ==
    IF ~IsDue(p, n) THEN p
    ELSE IF p.attempts > MAX_ATTEMPTS THEN None
    ELSE [p EXCEPT !.queued = "retransmit"]

\* tick_retransmit for one packet: it fails, or its retransmission is queued.
TickedAt(p, n) ==
    IF ~IsDue(p, n) THEN p
    ELSE IF p.attempts >= MAX_ATTEMPTS THEN None
    ELSE [p EXCEPT !.queued = "retransmit"]

\* note_sent and note_retransmit_sent.
SentAt(p, n) ==
    [p EXCEPT !.sent = TRUE, !.last_sent = n, !.queued = "no",
              !.attempts = IF p.queued = "retransmit" THEN @ + 1 ELSE @]

Tick(n) ==
    IF ticked /\ n = now THEN flight ELSE [k \in Keys |-> TickedAt(flight[k], n)]

Queued(f) == {k \in Keys : f[k] # None /\ f[k].queued # "no"}

\* poll at time n: tick_retransmit, then one output, which may be a queued write.
Poll(n) ==
    /\ n >= now
    /\ now' = n
    /\ ticked' = TRUE
    /\ \/ flight' = Tick(n)
       \/ \E k \in Queued(Tick(n)) : flight' = [Tick(n) EXCEPT ![k] = SentAt(@, n)]
    /\ UNCHANGED <<rtt, widest>>

RecoveryNext ==
    \/ \E k \in Keys : Send(k) \/ Ack(k)
    \/ \E n \in Instants : Poll(n)

RecoverySpec == RecoveryInit /\ [][RecoveryNext]_recoveryVars

-----------------------------------------------------------------------------
(* Properties *)

\* The estimator stays inside what was measured, although its sums of u64 could
\* wrap: the smoothed round trip is never below the smallest nor above the
\* largest sample, and the variance never above the largest, so one bad sample
\* cannot throw the timeout out of the range of real round trips.
EstimateWithinSamples ==
    rtt.smoothed # None =>
        /\ rtt.min <= rtt.smoothed /\ rtt.smoothed <= widest
        /\ rtt.var <= widest

\* The least that timeout_ms can be while r.min is the smallest round trip seen.
LeastTimeout(r, attempts) ==
    SatMul(SatAdd(SatAdd(r.min, Granularity), MAX_ACK_DELAY), Backoff(attempts))

\* A packet is never retransmitted before the smallest round trip ever seen and
\* the ACK delay have passed since its last transmission, doubled for every
\* attempt so far, however the ACKs of other packets move the estimate between
\* the tick that queues the write and the poll that transmits it.
RetransmitWaits ==
    [][\A k \in Keys :
           (/\ flight[k] # None /\ flight'[k] # None
            /\ flight'[k].attempts # flight[k].attempts)
               => now' - flight[k].last_sent >= LeastTimeout(rtt, flight[k].attempts)]_recoveryVars
=============================================================================
