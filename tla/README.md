# A TLA+ model of the MSRT transport

MSRT is a message transport for serial-like links: an application hands a
message of at most 256 bytes to an *engine*, which cuts it into packets,
retransmits them until they are acknowledged, and on the other side puts the
message together again. Packets travel in *envelopes* on a byte stream, and
*endpoints* make, watch and drop the engine of a session. This directory models
all three layers, checks them with TLC and proves the central invariants and two
refinements with TLAPS. Unless a module says otherwise it describes the default
feature set (fixed retransmission timeout, no tracing).

## The system and its parts

| Part | Source (below `src/src/`) | Module | Status |
|---|---|---|---|
| engine facade, order of outputs of `poll` | `engine.rs`, `engine/state.rs`, `engine/state/clock.rs` | `Engine` | modelled |
| message ids | `engine/state/numbers.rs` | `Packets` | modelled |
| outgoing codec: admission, fragmentation, ACK, Ping, Pong | `engine/codec/outgoing.rs` | `Packets`, `Engine` | modelled, bytes abstracted |
| packet decoding | `engine/codec/packet.rs` | `Packets` | fields and bounds; byte layout left out |
| output scheduler | `engine/state/scheduler*` | `Scheduler`, `Engine` | modelled |
| in-flight table, retransmission tick | `engine/state/recovery*` | `InFlight`, `Engine` | modelled, fixed timeout |
| dynamic recovery (feature) | `reliability/recovery/dynamic.rs`, `engine/state/recovery*` | `DynamicRecovery` | modelled |
| pending ACKs, duplicate ring, message queue | `engine/state/{ack,message,receive}.rs`, `reliability/packet/dedup.rs` | `Engine` | modelled |
| ingress | `engine/state/ingress.rs` | `Engine`, `StreamDecoder`, `Session` | modelled |
| reassembly | `engine/state/reassembly.rs` | `Reassembly` | modelled |
| envelope | `wire/envelope/header.rs`, `wire/envelope/magic.rs` | `Envelope` | modelled |
| stream decoder | `wire/codec/streaming.rs` | `StreamDecoder`, `Framing` | modelled but for `clear` |
| CRC backends | `integrity/crc.rs` | `Crc` | both routines, run at CRC-16 |
| peer slot, client, passive endpoint | `endpoint/{peer,client,passive}.rs` | `PeerSlot`, `Session` | modelled |
| server endpoint | `endpoint/server.rs` | `Server` | modelled |
| public ACK tracker | `reliability/packet/ack.rs` | | not modelled, unused by the engine |
| the link | outside the repository | `Transport`, `Session` | external |

`send` checks that the scheduler and the in-flight table have room for all
fragments of a message, gives it an id and queues one write per fragment, each
also tracked in flight when the message is `Data`. `poll` first runs the
retransmission tick, then returns one thing: a pending ACK, else a control
packet, a retransmission or a failure report, else a complete message, else new
data. `receive` feeds a chunk of bytes to the stream decoder and takes what
packets come out of it: a `Data` packet that is not in the duplicate ring goes
through reassembly and is remembered and acknowledged, an ACK frees an in-flight
slot, a Ping queues a Pong.

An endpoint wraps an engine in a `PeerSlot`. A client's `connect` makes a new
engine and sends a hello message; a passive endpoint makes its engine when bytes
arrive. `receive` sets the slot connected on valid traffic; `poll` probes a quiet
peer with a Ping and drops the session on an error or a failed send;
`disconnect_if_idle` drops it after a silence. A server is a table of slots.

## Modules

The engine:

- `Packets` - ids, keys, packet kinds, fragmentation arithmetic, the id
  generator with its modulus as a parameter (2^32 in the code).
- `Scheduler` - the four queues as sequences, `push` with replacement of the
  queued write of the same key, the urgent order of `pop_urgent`.
- `InFlight` - the slots and operations of `InFlightPackets`, and the sets the
  retransmission tick collects.
- `Reassembly` - slots, eviction, completion, expiry.
- `Engine` - the state machine. Every variable is a function on `Peers`; each
  engine's calls are actions. `Send` starts the loop of
  `send_message_fragments` and `SendFragment` is one round of it; `Poll` is the
  start of `poll` up to the point where the tick has copied its candidates out
  of the table, `TickFail` and `TickRetransmit` are one round each of its two
  loops, and the `Poll...` actions its one output. A call in progress is held in
  `sending` or `ticking`; the code's `&mut self` means the engine takes no
  other call meanwhile, and so do the guards (`Idle`).
- `Transport` - two engines, the applications' calls, and the link.
- `Channel` - what `Transport` promises, with no packets, tables or clock: a
  message is offered, arrives, is taken at most once, and is confirmed or given
  up by its sender.
- `DynamicRecovery` - the round-trip estimator, and the sends, ACKs, ticks and
  transmissions that feed it and obey it. `Poll` is tick and output in one step;
  a queued write may be the output or not, which stands for the scheduler.

The byte stream:

- `Envelope` - the bytes of an envelope, with CRC-8 and the tag as parameters, so
  that nothing depends on the integrity backend.
- `StreamDecoder` - the fixed buffer with its `pending_consume`, and the loop of
  `receive_bytes`: `Receive` starts a call, each `Feed...` action is one round,
  one per outcome of `feed`. What the engine makes of a packet is left open.
- `Framing` - what the wire layer promises, without a buffer: bytes are taken
  from the front, once, and only those that `wire.md` allows are thrown away.
  Waiting is always allowed; that the decoder does not wait for more than it needs
  is `ChunkingIrrelevant`.
- `Crc` - the register of `crc_msb` and `crc_lsb` bit by bit, with the bits that
  a shift moves above the width until the mask removes them; the tag.

The endpoints:

- `PeerSlot` - the operations of a slot as operators on its record.
- `Server` - the table of slots. The engine behind a slot may give any result.
- `Session` - a client and a passive endpoint, each a slot around a whole
  `Engine`, and a link that keeps order and may lose or withhold packets. A call of
  `receive` takes several packets and perhaps noise (`ReceiveStart`, then
  `ReceiveItem` for each, then `ReceiveEnd`, where the slot sees the last
  report); a call of `poll` is `PollPing` if a probe is due, then the engine's
  `Poll`, tick and output. `DropEngine` is the end of a call that lost its
  session.

`MCEngineSend`, `MCEngineReceive`, `MCTransport`, `MCStreamDecoder`, `MCSession`
and `MCCrc` are instances for TLC. `EngineInv` has the inductive invariant of an
engine, in terms of the values that make up its state; `...Proofs` are the proofs.

### Abstractions

- *Content.* A message is a length and a `body`, the identity of its content; a
  fragment carries a range of offsets. Reassembly keeps, for every offset
  received, the body it came from, so mixed or missing bytes are visible.
- *Time.* The code compares `now_ms - t` with a timeout and nothing else. The
  models keep these differences: at the engine's clock, which as in the code
  moves in `poll` only, and at the adapter's clock for a slot. They stop growing
  at the largest timeout they are compared with (`RTO`, `HORIZON`, `LAG_CAP`).
  `ticked` says whether `last_tick_ms` equals the clock. Time is monotonic, as
  `engine.md:363` asks of callers. `DynamicRecovery` does arithmetic on times, so
  there they are numbers with a width.
- *A new engine's clock* is 0, the adapter's is not: `Session` keeps the
  distance in `lag`, which starts at `FRESH_LAG`.
- *Rings* are sequences, oldest first.
- *Sizes.* `Data` and `Log` fragments have the same maximum size. The saturating
  `u8` attempt counter is an integer: the limit is itself a `u8`, and the
  theorem `RetriesBounded` shows the counter never passes the limit. Packet
  indices do not wrap: a message has at most 256 packets.
- *Packets that change nothing* (a Pong, a malformed packet, a fragment
  reassembly refuses) have no action in `Engine`; `Transport` and `Session`
  consume them (`Ignored`).
- *The transmit buffer* either holds a packet or does not (`TxRooms`); an event
  popped for a buffer that is too small is lost, as in `poll_write`.
- *Link.* `Transport` stands for the line, the stream decoder and the integrity
  check: packets are lost, repeated or reordered, never altered. Its capacity is
  `WIRE_CAP`; a packet that finds it full is lost. That a damaged envelope is a
  lost packet is what `StreamDecoder` and `Crc` are about.
- *Interleaving.* A call works on one engine only and touches the link in its
  last step, so `Transport` and `Session` let a call that was started run to its
  end before the other side moves. All orders of whole calls are explored.
- *A dropped engine* has the state of a new one; no call reaches it.

## Runs

| Run | Instance | Properties | States |
|---|---|---|---|
| `engine_send` | one engine; send, send_log, send_ping, any ACK, Ping, poll; 2 events, 2 slots, 1 retry, ids modulo 3, lengths 0, 2 and 3 (one too long) | `TypeOK`, `OneWritePerKey`, `InFlightExact`, `RetryBudget`, `TickCurrent`, `UnsentIsQueued`, `SendAllOrNothing` | 242,565 |
| `engine_receive` | one engine; any fragment with 2 ids, 2 types, lengths 1 to 3 (one too long, any two in conflict); 2 reassembly slots, queues of one, buffers with and without room | `TypeOK`, `ReassemblyPending`, `DedupWindow` | 280,046 |
| `transport_repeats` | 2 sends; link loses, reorders and once repeats a packet; 1 retry; fairness | `AtMostOnce`, `NothingForgotten`, `WindowCovers`, `ArrivedKept`, `EventuallySettled`, `ImplementsChannel` | 66,967 |
| `transport_fragments` | 2 messages of lengths 0 and 2, 1 ping; 3 slots; 1 reassembly slot; no retry; link loses and reorders | `DeliveredIntact`, `ImplementsChannel` | 482,030 |
| `stream` | bytes 0 to 2, all streams of up to 9, chunks of 0, 1, 2, 3 and 6, buffer of 5, packets of at most 1 byte, fairness | `TypeOK`, `LeftoverShort`, `ChunkingIrrelevant`, `CleanStreamKept`, `ImplementsFraming`, `CallReturns` | 253,520 |
| `packet_crc` | CRC-16, messages of up to 3 bytes that have no, one or all bits set, a preset | `DamageDetected`, `MsbIsRemainder`, `LsbIsRemainder` | 1,111 |
| `server` | 3 peers, 2 places, fairness | `SlotsCoherent`, `UniquePeers`, `FullIsFull`, `SilentPlaceFreed` | 4,903 |
| `session` | client and passive; 1 connect, 1 send of the client, 1 retry, queues of one, buffers with and without room, fairness | `LiveUnsentIsQueued`, `ConnectingHasHello`, `ConnectingResolves` | 219,126 |
| `recovery` | 2 packets, 2 retries, 7-bit times up to the bound of the assumption | `RecoveryTypeOK`, `EstimateWithinSamples`, `RetransmitWaits` | 128,669 |
| `failure_dropped` | full scheduler | `FailureQueued` | violated |
| `pong_replaced` | Ping and `send_ping` | `PongKept` | violated |
| `window_rollover` | 3 sends, window of 2 | `AtMostOnce` | violated |

What they show:

- The sending side keeps one write per key (`OneWritePerKey`), an exact slot
  counter (`InFlightExact`), the retry limit and a whole timeout of silence
  before every retransmission (`RetryBudget`), a tick that never acts on a
  packet that is gone (`TickCurrent`), no packet stuck unsent
  (`UnsentIsQueued`), and sends that are all or nothing (`SendAllOrNothing`).
  Ids modulo 3 make ids repeat and take the value 0, the id of the liveness key,
  within a few sends, a case that takes 2^32 sends in the code.
- The receiving side never has two slots for one message or a complete message
  in a slot, and its duplicate ring never wastes a place.
- End to end, nothing is delivered that was not sent, or in a mixture; the
  sender forgets no packet that was neither accepted nor reported as failed;
  while the duplicate window suffices (`WindowCovers`) nothing is delivered
  twice; while the message queue suffices a message of one packet is not lost once
  its packet was accepted, even if `receive` reported that its ACK found no place
  (`ArrivedKept`); and every accepted `Data` message is acknowledged in full or
  reported as failed (`EventuallySettled`).
- Put together, two engines are a channel (`ImplementsChannel`): a message is
  taken at most once, after all of it arrived; its sender confirms it only when
  it arrived, settles it once, and never both confirms and fails it. An arrival
  may go untaken (a full message queue, an evicted or expired slot after some
  fragments were acknowledged): `reliability.md:37` says that an ACK is no
  promise of delivery.
- The decoder finds the packets of a stream however it is cut, keeps every
  packet of a clean stream, drops what `wire.md` allows and nothing else, and
  never lets garbage use up its buffer; every call of `receive` returns.
- The CRC routines compute the remainder that defines a CRC, and the tag reveals
  bursts no longer than the CRC within the message.
- A server's places are neither duplicated nor lost, and a silent peer's place
  becomes free. The fields of its slots fit each other however sessions end
  (`SlotsCoherent`): no session starts with the pending Ping of an earlier one. On
  a link
  without noise a connecting client always has its hello outstanding
  (`ConnectingHasHello`), so it gets an answer or a failure
  (`ConnectingResolves`). An endpoint leaves no packet stranded when a buffer was
  too small, since it drops the session.
- Dynamic recovery keeps its estimate within the samples up to clocks of an
  eighth of the `u64` range, and its retransmissions apart.

Bounds. Two slots, two events and two fragments are the least at which a send
can fail half way, a table can hold two messages, a queued write can be replaced
from another queue and a tick can fail one message while it retransmits another.
One retry distinguishes the first send, the retransmission and the failure.
`transport_repeats` sends as many packets as the duplicate window has places;
`window_rollover` sends one more. `transport_repeats` has the retries and the
repeated packets, and a message queue with room for all of them;
`transport_fragments` the interleaved fragments, evictions, expiries and messages
that are overwritten; both reorder and lose. In `stream` the buffer holds the longest
envelope of a packet and no more: a length byte of 2 announces too much, a chunk
may not fit behind a leftover or at all, and a packet that the engine refuses
ends a call with an error. With three byte values every byte may be magic,
length, check or payload, so false headers are common. `session` uses timeouts
of one tick, so all of them may fall due together or in any order, and queues of
one place, so they are full whenever they are not empty; its link loses a packet
by keeping it for ever or by being full, and a call of `receive` gets one packet
and no noise. `MAX_SENDS`, `MAX_PINGS`,
`MAX_REPEATS`, `MAX_CONNECTS`, `CHUNK`, `WIRE_CAP`, `MAX_STREAM`, `MAX_NOW` and
`MAX_LEN` bound the runs only; `Engine` and `Server` have no bound but the code's
own.

Fairness. The link is free to lose every packet or to keep it for ever. What is
assumed is what the architecture asks of the adapter's main loop, and that a
call, which is a terminating piece of code, returns:

- `transport_repeats` (`FairTransportSpec`): an application that can poll while
  time advances does so again and again. The number of repeated packets is
  bounded here: `poll` sends ACKs and Pongs first, so a link that repeats packets
  without end keeps new data waiting without end.
- `session` (`FairSessionSpec`): time passes and both adapters keep polling;
  nothing is assumed of `disconnect_if_idle`.
- `server` (`FairSpec`): time passes and the adapter keeps sweeping.
- `stream` (`FairSpec`): the loop of `receive_bytes` goes on.

For polls, sweeps and time in the runs with whole engines this is strong
fairness, because none of them is enabled while another call runs.

### Where the code and its documents differ

- `failure_dropped`: `tick_retransmit` drops the result of pushing `SendFailed`.
  With a full scheduler the message leaves the in-flight table and nobody is
  told (`recovery/retransmit.rs:61`, against `engine.md:211-213`).
- `pong_replaced`: Ping and Pong share the packet key (0, 0), so the
  scheduler's replacement of redundant writes overwrites a queued Pong
  (`codec/outgoing.rs:103`, against `engine.md:399`).
- `window_rollover`: the duplicate ring has `MAX_IN_FLIGHT_PACKETS` places. A
  packet whose ACK was lost stays in flight while the other slots turn over, so
  that many later packets can pass; its retransmission is then new, and the
  message is delivered again (`dedup.rs:56`, against `engine.md:258` and
  `reliability.md:54`).

### Known limits

Reading the code for the models showed more that its documents do not say. None
of this has a run that fails on purpose; the properties above are stated so that
they are true of the code.

- *Noise hides a packet.* `receive_bytes` returns the last report of a chunk, so
  `PeerSlot::receive` does not see a valid packet that noise follows
  (`ingress.rs:77`, `peer.rs:157`; `endpoint.md:147` says the state becomes
  connected). A client whose hello is acknowledged in such a chunk goes on
  connecting until `disconnect_if_idle` or later traffic. With `Noisy = TRUE` in
  `session.cfg` TLC shows it as a violation of `ConnectingHasHello`.
- *Connected one way.* A passive slot is connected by the hello message, before
  anything it sent has arrived (`peer.rs:165`; `endpoint.md:64` and 82-87 speak
  of both paths).
- *Sessions are not kept apart.* A client that connects again starts from the
  same seed and repeats its message ids; the passive side keeps its engine
  (`peer.rs:125`) and may complete an old fragment with a new one
  (`endpoint.md:20` says the old session's state is not used again).
- *Fragments before the first poll* are stamped with time 0 and expire at that
  poll (`ingress.rs:109`).
- *A lost Pong ends the probing.* `pending_ping` is cleared by a Pong or the end of
  the session only (`peer.rs:169`), so a session whose Pong was lost sends no
  further Ping and relies on the caller's idle timeout.
- *A dropped session keeps its place.* After an error or a failed send the entry
  of a server has no engine, and `disconnect_idle` passes it over
  (`server.rs:135`); `disconnect` or another `accept` of that peer frees it.
- *Dynamic recovery outlasts reassembly.* With the default constants the second
  retransmission leaves after 1022 + 2044 = 3066 ms; the peer keeps fragments for
  2000 ms, which `config.rs:37-38` wants to outlive the retries.

## Proofs

For all values of the constants:

| Module | Theorem | States |
|---|---|---|
| `EngineProofs` | `TypeCorrect` | `Spec => []TypeOK` |
| | `SchedulerUnique` | `Spec => []OneWritePerKey` |
| | `InFlightCounted` | `Spec => []InFlightExact` |
| | `RetriesBounded` | `Spec => []RetryBudget` |
| | `TickConsistent` | `Spec => []TickCurrent` |
| | `SendAtomic` | `Spec => []SendAllOrNothing` |
| | `ReassemblyExact` | `Spec => []ReassemblyPending` |
| | `DedupDistinct` | `Spec => []DedupWindow` |
| | `UnsentKept` | `FALSE \notin TxRooms => (Spec => []UnsentIsQueued)` |
| `TransportProofs` | `MessagesIntact` | `TransportSpec => []DeliveredIntact` |
| | `SenderRemembers` | `TransportSpec /\ []FailuresFit => []NothingForgotten` |
| | `HandedOverOnce` | `TransportSpec /\ []WindowCovers => []AtMostOnce` |
| | `WindowSuffices` | `TransportSpec /\ []FewPackets => []WindowCovers` |
| | `FewHandedOverOnce` | `TransportSpec /\ []FewPackets => []AtMostOnce` |
| | `TransportImplementsChannel` | `TransportSpec /\ []FailuresFit /\ []WindowCovers => ImplementsChannel` |
| `SessionProofs` | `SessionsSound` | `SessionSpec => []SessionInv` |
| | `LiveSessionsKeepWrites` | `SessionSpec => []LiveUnsentIsQueued` |
| `StreamDecoderProofs` | `BoundsKept` | `Spec => []TypeOK` |
| | `LeftoverBounded` | `Spec => []LeftoverShort` |
| | `DecoderImplementsFraming` | `Spec => ImplementsFraming` |
| `StandaloneProofs` (server) | `SlotsStayCoherent` | `Spec => []SlotsCoherent` |
| | `PeersUnique` | `Spec => []UniquePeers` |
| | `FullMeansFull` | `Spec => []FullIsFull` |
| `StandaloneProofs` (estimator) | `RecoveryTyped` | `RecoverySpec => []RecoveryTypeOK` |
| | `EstimateBounded` | `RecoverySpec => []EstimateWithinSamples` |
| | `RetransmissionsWait` | `RecoverySpec => RetransmitWaits` |

The assumptions are the named `ASSUME`s of the modules: limits are natural
numbers (positive where the code's are), the model values differ from what they
stand beside, incoming packets are decodable ones. `IdAssumption` of `Transport`
says that the ids an engine draws during a session differ: the code's generator
has the full period of 2^32. `RunningAssumption` of `Session`
says that the value for no call is not that of a call dropping its session. `DynamicRecovery` assumes besides that the clock
and the initial round trip stay below an eighth of the range, because
`7 * smoothed` is not a saturating product, and that powers of two are positive,
which the prover does not know.

### The engine

None of the engine's properties is inductive alone, so they are proved together
as `IndInv` (`EngineInv`). Its core is `SenderInv`, on the five values that make
up the sending side of an engine. How the parts lean on each other:

- `SendAllOrNothing` needs the exact counter (admission looks at `len`, `track`
  at the slots) and that no other call runs while a send is in progress.
- `RetryBudget` needs one write per key: a queued retransmission stays the *next*
  attempt only if no second write of the same key can be sent before it; and it
  needs `TickCurrent`, because what the tick queues is computed from what it
  collected.
- `TickCurrent` needs that failing a message removes the packets of that message
  only, and that collected retransmissions belong to no failed message.
- `UnsentIsQueued` needs one write per key too: popping the write of a key
  that is in flight marks it sent.

`StateProofs` says what `push`, `pop`, `track`, `apply_ack`, `remove_message`,
`note_sent`, `observe` and `expire` do to the structures they work on.
`EngineProofs` shows from these that each step keeps `SenderInv`, has one lemma
per action that lifts this to all engines and adds the receiving side, and ends
with the theorems.

### The transport

`PeerProofs` cuts every step of the transport down to what one side of one engine
sees of it: `SenderCases` gives the nine things that can happen to the sending
side, `ReceiverCases` the five that can happen to the receiving side. The
invariants are proved over these cases, in layers:

- `Base` is `IndInv` of both engines with `HistoryOK`, the types of link and
  histories, and `Origin`: every packet on the link, in a queue or in flight is a
  fragment of a message its engine accepted, and every ACK names a packet the
  acknowledging engine accepted.
- `Remembered` is `NothingForgotten` with the call that is still queueing
  fragments. An ACK takes a packet out of the table only when the peer accepted
  it (`Origin`), and a tick takes one out only when it queues the failure.
- `Numbered`: no two messages of an engine have the same id, and the next id is
  fresh. It follows the generator call by call, by `IdAssumption`.
- `Intact`: whatever a slot has collected is part of one accepted message, whose
  received offsets all have that message's body. `FilledPieces` is its heart: a
  fragment lands on its own offsets, so a complete slot has the whole message.
- `Once`: of the messages queued or handed over no two have the same id. A
  message completes only with a packet that was never accepted before, so one
  that was completed cannot complete again.
- `Fates`: a message whose failure is known is no longer in flight nor being
  sent, so it is never confirmed later.

For the refinement `FateStep` shows that each step leaves the fates of all
messages alone but one, and `OneSide` that only one side of one engine moves. Then
`AcceptOffers`, `SenderSettles`, `PacketArrives` and `PollTakes` match a send, a
step of the sender, an arrival and an output with the action of `Channel` they
implement, or with a stutter. `Promise!Spec` follows with the initial state.

Two hypotheses are about behaviours, not constants, because the code does not
ensure them: `FailuresFit`, that the scheduler has room whenever a tick has a
failure to queue, and `WindowCovers`, that a packet that may arrive again is still
in the duplicate ring. Without the first a failure is dropped (`failure_dropped`),
without the second a message is delivered twice (`window_rollover`).
`WindowSuffices` gives a bound under which the second always holds: as long as no
engine has accepted more Data packets than the ring has places, the ring forgets
none of them. `DeliveredIntact` needs neither.

`PeerProofs` goes up to `Remembered`, `ChannelProofs` has the layers above it and
`FateStep`, `TransportProofs` the initial states, the matching of steps and the
theorems.

### The session

`SessionInv` is `IndInv` with the types of slots, link and calls (`StateOK`),
that only a poll in progress has a tick (`OneTick`), and `Live`: an unsent packet
has its write queued unless its session is being dropped. `UnsentIsQueued` alone
is false here, because `poll` may be given a buffer that is too small; the theorem
rests on `PeerSlot::poll` turning that error into `Dropping` before any other
call can start. The lemmas of `EngineProofs` carry over, since every call of an
endpoint is a call of its engine, a new engine or a dropped one.

### The decoder, the server, the estimator

- `StreamDecoderProofs`: the types are inductive together with the fact that what
  a call still has to append is part of the stream. `WaitingIsShort` is the heart
  of `LeftoverBounded`: a buffer that waits is shorter than the envelope it waits
  for. For the refinement, the bytes not taken yet are what the buffer keeps after
  `pending_consume`, plus the input of a call that has not been appended; every
  round takes a prefix of them that `Framing` allows, or nothing.
- `StandaloneProofs`, the server: `UniquePeers` is inductive with the types
  because `accept` looks for the peer before it looks for a place. `FullIsFull`
  counts peers, so it needs that a full table (`FullFoundNone`) maps its places to
  peers one to one. `SlotsCoherent` is inductive beside that invariant: one lemma
  for each operation on a slot says that it keeps a coherent slot coherent.
- `StandaloneProofs`, the estimator: `EstimateLow` adds to
  `EstimateWithinSamples` that the estimate is never below the smallest round
  trip, before the first sample too; `QueuedWasDue`, that the packet of a queued
  retransmission has waited the least timeout already. The second survives the
  ACKs in between because the least timeout depends on the smallest sample only,
  which never grows.

### Only model-checked

- All liveness (`EventuallySettled`, `ConnectingResolves`, `SilentPlaceFreed`,
  `CallReturns`): under fairness it is outside the prover's reach.
- `ArrivedKept`: it rests on how many messages can be queued at all, a count over
  the whole behaviour.
- `ConnectingHasHello`: it depends on the constants of the instance. With noise on
  the link, or a tick that fails the hello while the scheduler is full, it is
  false.
- `ChunkingIrrelevant`, `CleanStreamKept`, `DamageDetected`, `MsbIsRemainder` and
  `LsbIsRemainder`: they compare with recursive definitions, over which the prover
  has no induction.
- The three disagreements between the code and its documents.

## Not modelled

- *SipHash* (`integrity/sip.rs`): a stateless function; there is no independent
  definition to compare its rounds with. The decoder's theorems hold for any tag
  function.
- *CRC-32's final complement and CRC-64's full-width mask*: the loops are the
  modelled ones, at widths where TLC can enumerate messages.
- *Byte layout of packet headers* (`engine/codec/packet.rs`, `core/packet/`):
  packets are records with the decoded fields. The bounds that decoding checks
  are modelled.
- *`PacketAckTracker`* (`reliability/packet/ack.rs`): offered to other transports;
  the engine has its own in-flight table and never calls it.
- *`StreamingDecoder::clear`*: public, but nothing in the crate calls it.
- *Traits and value types without a caller*: `Encoder`, `EncodeTarget`,
  `Decoder`, `WireEnvelope`, envelope flags and resync types below `wire/`;
  retry, timeout, window, event and fragment types below `reliability/`.
- *A full scheduler under dynamic recovery*: `DynamicRecovery` always finds room
  for a retransmission; `Engine` has the case.
- *Log messages and `send_ping` of an application in `Session`*: `Engine` and
  `Transport` have them.
- *Errors and tracing* (`error.rs`, `scheduler/log.rs`), benchmarks, examples and
  adapters: no protocol state.
