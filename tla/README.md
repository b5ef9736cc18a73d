# Verification of rust-kcp

TLA+ models of the KCP implementation in this repository, TLC configurations
that check them on small instances, and TLAPS proofs.

## The system

| part | source | state | operations |
|---|---|---|---|
| protocol | `kcp-core/src/protocol.rs` | none | wrapping arithmetic, header and segment encoding, millisecond clock |
| engine | `kcp-core/src/engine.rs` | sequence numbers, RTT estimator, windows, probe timer, four segment buffers, ACK list | `send`, `recv`, `input`, `flush`, `update`, `check`, `keep_alive_probe`, `set_conv`, queries |
| actor | `kcp/actor.rs` | owns one engine; closing flag and linger deadline, keep-alive clock | a biased `select!` over timer, commands, incoming packets and outgoing data |
| stream | `kcp/stream.rs` | read buffer, pending write / flush / shutdown futures, closed flag, task handles | `send`, `recv`, `close`, `poll_read/write/flush/shutdown`, `drop`, client receive task |
| listener | `kcp/listener.rs` | pending / accepting / active sets, routing map, accept queue | packet routing, `handle_incoming_packet`, `accept`, the two cleanups, `close` |
| transport | `kcp/transport.rs` | socket | `send_to`, `recv_from` |
| configuration | `kcp-core/src/config.rs`, `kcp/config.rs` | none | builders, presets, `validate` |

A stream and its actor talk over bounded channels (commands, outgoing data,
incoming datagrams, assembled messages). The actor is the only user of its
engine. A client's receive task, or the listener of a server, feeds the incoming
channel. Two engines only ever meet through UDP, which loses, repeats and
reorders datagrams.

What is hard, and what makes each part correct:

- **engine.** Every piece is delivered once and in order whatever the network
  does; a piece is dropped from the send buffer only when the receiver has it;
  the receive window can always be reopened and a sender with data always has a
  timer running; numbers and timestamps wrap; stream mode merges and splits;
  `flush` and `is_dead` agree on when a segment ran out of transmissions.
- **actor.** Acknowledged data is never dropped because a consumer is slow;
  writers are held back; a close drains; a silent peer is noticed; order
  between commands and data.
- **stream.** Bytes are neither lost nor repeated across a `Pending` poll;
  close, shutdown and drop let the tail out.
- **listener.** One stream per peer, no packet routed to a dead stream for
  ever, no leak in the pending set, accept ends after close.

`PROJECT.json` lists the hazards by line.

## Modules

| module | models |
|---|---|
| `KcpProtocol` | machine words, `time_diff`, `seq_before`, `seq_after` |
| `KcpEngine` | the engine as pure operators on an engine record, one per method or loop |
| `ReliableChannel` | abstract: an append-only sequence and a reader that sees a prefix of it |
| `KcpLink` | two engines, a clock and a network; refines `ReliableChannel` in both directions |
| `MCLink` | instances of `KcpLink` for TLC |
| `KcpActor` | the engine actor: the arms of its `select!`, its channels and their ends, over an abstract engine |
| `KcpStream` | a stream and the calls of its application, composed with `KcpActor`, its feeder and its peer; refines `ReliableChannel` in both directions |
| `MCStream` | instances of `KcpStream` for TLC |
| `KcpKeepAlive` | the actor's loop in discrete time: its timer, keep-alive, silence, window probes and retransmission, on a clock that wraps |
| `MCKeepAlive` | instances of `KcpKeepAlive` for TLC |
| `KcpListener` | the listener's background task, one `accept()` at a time, the application and the life of streams, between locks |
| `MCListener` | instances of `KcpListener` for TLC |
| `KcpLinkProofs` | what the operators of `KcpEngine` preserve and return; `TypeCorrect` and `WindowOpen`, theorems on `KcpLink` |
| `KcpSafetyProofs` | `Safety`, `InOrder` and `NothingLost`, theorems on `KcpLink` |
| `KcpStreamProofs` | `TypeCorrect`, `LingersAlways` and `EofIsFinal`, theorems on `KcpStream` |
| `KcpWindowProofs` | `Windows`, `DeathAgrees`, `AlwaysScheduled` and `FullQueueIsReadable`, theorems on `KcpLink` |
| `KcpChannelProofs` | the refinements `AtoBDelivered` and `BtoADelivered`, theorems on `KcpLink` |
| `KcpDeliveryProofs` | `BoundedMemory`, `EndIsGraceful`, `InboundStaysIntact` and the refinements `OutgoingDelivered` and `IncomingDelivered`, theorems on `KcpStream` |
| `KcpListenerProofs` | `BookkeepingHolds`, `LiveStreamsRouted` and `SweepIsSafe`, theorems on `KcpListener` |
| `KcpKeepAliveProofs` | `VanishDetected` and `PeerKept`, theorems on `KcpKeepAlive` |

### KcpEngine

The engine record has the fields of `struct KcpEngine` that protocol logic
reads. Configuration fields and `IKCP_*` constants are CONSTANTS; the ranges
`KcpConfig::validate` and the clamp in `new` guarantee are the named
assumptions. `snd_buf` (a `VecDeque` ordered by number) and `rcv_buf` (a
`BTreeMap`) are functions from sequence numbers. Loops that pop from an ordered
buffer are in closed form: `move_to_recv_queue` moves the longest run that is
present and fits, `move_to_send_buf` moves as many segments as the distance to
the end of the window. `input` is a recursive function over the segments of the
datagram, because each iteration sees what the one before left: `snd_una` stays
stale until `shrink_buf` at the end, exactly as in the code. Packing into
datagrams (`output_segment`, `flush_out_buf`) is modelled, since segments of a
datagram live or die together.

Payload bytes are numbers, distinct in a run, so misplaced, repeated or merged
bytes show. Statistics are left out, except `bytes_sent`. `u32` additions wrap,
as in the release profile. The size of a word is the parameter `2 * Half`
(2^32 in the code).

### KcpLink

`Send`, `Recv`, `Input`, `Flush`, `FlushLost` and `FlushIgnored` are the calls a driver
makes; each is the whole call. A datagram that leaves may be lost (it never enters
`net`), may be delivered in any order, and may be delivered again. `Stray` holds
datagrams of other conversations. Both peers read one clock: timestamps
are only ever compared with the clock of the peer that set them, so an offset
between the two cannot be observed. `Isn` and `Epoch`, 0 in the code, may be any
words, so that the wrap is a few steps away instead of 2^32.

A flush that returns `ConnectionLost` has two outcomes. In `FlushLost`, the timer, input
and write arms, the actor leaves its loop without draining the output, so the peer is
stopped. In `FlushIgnored`, the `Flush` and `Close` commands, it goes on with the
engine: the datagrams that were complete before the error leave, the last one stays
in `out_buf` and goes out with a later flush, the segments after the one that ran out
are marked as transmitted although they were not, and an acknowledgement that comes
after all takes the segment out of the send buffer and revives the engine.

`numbered`, `got`, `taken`, `wrote` and `offered` are history variables.

### KcpActor and KcpStream

`KcpActor` has one action per arm of the `select!` in `run_engine_actor`: `Timer`,
`FlushCmd`, `QueryCmd` (`Stats`, `IsAlive`) and `CloseCmd`, `Input` and
`InputClosed`, `Data` and `DataClosed`. Between two steps of an arm other tasks
can only touch the channels, so an arm is one action, the `drain_recv` and the
check for the end that follow it included. The two loops that take from the send
channel are stepwise (`Data`/`DataFlush`, `AbsorbAll`/`BeginClosing`), because
writers go on while they run. `select!` polls its arms one after another, so a
later arm can win although an earlier one became ready a moment ago: every
ready arm is enabled, and the bias is in the fairness.

The engine in it is what a driver can tell: the segments `send()` took (`out`) and
how many are acknowledged, in the send buffer and on the wire; the messages
assembled and not taken (`rcv_queue`), how many were accepted and how many of them
acknowledged. `KcpLink` shows that two engines and a network implement this
exchange. `flush` may fail when a segment is in flight (`DeadLink`), and a timer may
also find the peer silent.

`KcpStream` adds the stream: `read_buf`, the parked write, the futures of flush and
shutdown with the place where each one waits, `closed` and whether `actor_task` is
still there. `WriteReady`, `WritePending` and `WriteFails` are the three ways out of
`poll_write`, `FlushStart`/`FlushSend`/`FlushDone` and
`ShutdownStart`/`ShutdownSend`/`ShutdownDone` the states of the boxed futures,
`Close`/`CloseSend`/`CloseReturn` the awaits of `close()`. Calls that are pending
interleave, as the halves of a split stream do, while `close()` keeps the stream
to itself. `"cancel"` lets the application drop a write or a close halfway.
The feeder is the client's receive task or the listener's route: it may fail, it
may be dropped, and it ends with the actor (`FeederStops`). The peer receives what
is on the wire, writes messages of its own, opens and closes its window. A message
of the peer has two bytes, so that a read can stop inside one.

`app` records what the application was told; `before_close` is how much had been
accepted when it asked for the end.

### KcpKeepAlive

Time is discrete. `clock` is the engine's millisecond word, which wraps;
`last_probe` and `timer` come from `Instant`s, which do not. `Timer` is the timer
arm: a flush, the end after three silent windows by `idle_ms`, a probe at most once
in a window. `Write` and `Input` reset `last_activity`, as `send` and `input` do.
`Flush` is the engine's: the window probe with its back-off, the segments that leave the
queue when the remote window is open, and the segment in flight, whose timeout grows
at every retransmission as `back_off` says, without a cap, until `DeadLinkMax`. The
oldest segment stands for all in flight, and the estimate `Rto` is constant. Every
datagram received opens or closes the window. A write that is empty, or merged into the
last queued segment, queues nothing; one behind a closed window stays queued; all of them
reset `last_activity`. `FlushCmd` and `Query` are the commands: they are no activity, but
as every iteration of the loop makes a new timer they put it off. The actor may be
`Late`, an answer takes up to `Rtt`, and between two signs of life `MaxLost` probes and
transmissions, or their answers, are lost. `quiet_for` and `asked` record what
the application did: the time since its last write or command, and whether a command
was served in the present silence.

### KcpListener

The background task (`start_listening`) and an `accept()` call each have a
program counter; a step ends wherever the code awaits a lock or a channel, so
what one sees under a read lock may be stale when it acts under a later write
lock. `Packet` is the receive arm of the `select!`; `Check`, `Insert`, `Enqueue`
and `Undo` are the four critical sections of `handle_incoming_packet`;
`Collect`, `Sweep` and `Expire` the two cleanups of the other arm; `Pop`,
`Mark`, `Create`, `Route` and `Unmark` the sections of `accept()` and
`create_stream_for_connection`. `RemoveActive`, which may come while the actor of the
dropped stream still lingers, and `Close` are the calls of the application, `StreamEnds` the end of an actor, which drops the receiver of its
channel, `Age` the passing of the pending timeout. A peer is an address; a
stream is a model value, so that a route to an old stream and one to its
successor differ; it can be used again once nothing refers to it.

## Runs

| run | what it shows |
|---|---|
| `messages` | link, message mode: numbers and clock cross the wrap, a stray datagram is around, messages as large as the window: `TypeOK`, `SafetyInv` (the inductive invariant of the proof), `PiecesInOrder`, `AckedDataHeld`, `FullQueueReadable`, `WithinWindows`, refinement `BtoAReliable` |
| `loss` | link, stream mode, a window of one, timeouts and probes until the driver gives up or ignores the error: `CwndPositive` (a timeout resets the window; with a window of one it does not grow, and fast retransmission and growth are left to theorem `WindowOpen`), `GivingUpAgrees`, `Scheduled`, refinement `AtoBReliable` over bytes |
| `oversize` | violated: a rejected stream-mode write leaves a prefix in the queue |
| `routing` | listener, three peers (interchangeable, by symmetry): `LiveStreamRouted`, `Bookkeeping` |
| `served` | listener under `FairSpec`, with `remove_active_connection`: `EveryPeerServed`, a peer that keeps sending gets a stream |
| `sweep` | violated: the cleanup of dead streams removes the route of a live one |
| `tail` | server stream with failing socket and listener: `GracefulEnd`, `MemoryBounded`, `Lingers`, `EofFinal`, refinement `OutgoingReliable` |
| `delivery` | client stream under `DeliverySpec`: `TypeOK`, `InboundIntact`, refinement `IncomingReliable`, `AllRead`, `AllDelivered` |
| `ends` | client stream under `FairSpec` with cancelled calls, a failing socket and a dying link: `EndsWhenAsked` (actor and receive task), `CallsReturn` |
| `drain` | violated: a closing actor leaves acknowledged messages unread behind |
| `keepalive` | `VanishedPeerDetected` within a bounded time after the application's last write or command, and `LivePeerKept` |
| `clockwrap` | violated: the clock wraps in the silence and the vanished peer is not detected |

The violated runs are the findings of `PROJECT.json`.

**Link.** Model values for the peers, an MTU of one or two payload units, windows of
one or two segments, and `MaxSeg` (segments a peer may number or queue), `MaxTime`
(clock ticks), `MaxNet` (datagrams in flight), `MaxDup` (repeats) and `MaxAck` (ACKs an
engine owes when it takes in a datagram) as bounds. Two segments fill a window; a
third makes it move; a timeout of one tick makes every retransmission
reachable; two datagrams in flight reorder. In `messages` B writes, in `loss` A does,
so both directions of the refinement are checked; with both writing at once only
the proof speaks. `MaxSeg` is below half the word size (`SpaceAssumption`): sequence
comparison is only meaningful while a delayed datagram is less than half the number
space old. In `loss` both peers may stop, so deadlock is not checked. `Scheduled` is
the safety half of progress: after a flush, an engine with data has a deadline, so
the driver's timer is armed. No link run assumes fairness.

**Listener.** A queue of one or two entries fills while attempts expire, and
`Streams` bounds the streams that run or are routed at the same time, with one more
than there are peers so that an old one and its successor meet. `remove_active_connection`
lets a peer have several streams, and the bound can then stop `accept()`, which nothing in the
code does; `EveryPeerServed` sets such behaviours aside (`StreamLeft`). Deadlock is not
checked, because after `close()` or a failed receive nothing is left to do: a later
`accept()` waits for ever, as the listener itself keeps a sender of its queue.

**Stream.** Every channel has one place, the high-water mark and the send window are
one segment, so that a second item always meets a full buffer. A message of `send()`
has up to two segments and passes the high-water mark. `tail` has two writes and a
message of the peer; `delivery` has two of each, with two messages in the engine and
one place in the channel, so that backpressure leaves one behind; `ends` has one
write, which is enough for a tail that is never acknowledged, and a command channel
that one command fills. A cancelled write breaks `OutgoingReliable` (see below), so
`"cancel"` is in `delivery` and `ends` and not in `tail`. A stream that has ended
stops, so deadlock is not checked.

**Keep-alive.** Windows of three ticks, an RTO of two that doubles and three transmissions:
silence, probes, retransmission and a closed window with a full queue overlap in every
order in 20 ticks, and `DetectionTime`, 14, is below that. A word has 22 values: the clock
does not wrap in `keepalive` and does in `clockwrap`.

### Fairness

`FairSpec` of the listener assumes weak fairness of the background task, of
`accept()` and of time: they are tasks of a runtime that polls what is ready. It
assumes strong fairness of `Packet` and `Collect`, because `select!` picks
randomly among its ready arms, and it assumes that peers go on sending and that
the application goes on accepting; without these nobody needs to be served.

`FairSpec` of `KcpStream`:

- The `select!` is biased, so an arm is only sure to be served when the arms before it
  are found with nothing to do: weak fairness of the command arm; strong fairness of
  `Input` when there is no command, and of `Data` when there is also no datagram. The
  timer is armed anew in every iteration, so it is fair only while nothing else is
  ready (`Idle`). Steps inside an arm, the steps before the loop and the passing of the
  linger deadline are weakly fair.
- A call that is awaited is polled, and tokio's channels give out places in the order
  they were asked for: strong fairness of the steps that wait for room.
- The receive task waits for the socket and for the end of the actor at once: weak
  fairness of `FeederStops`.
- Nothing is assumed of the peer, of the network, or of an application that starts
  no call.

`DeliverySpec` adds that the peer and the network do their part: what is on the wire
arrives in the end, and so does a datagram when the peer has news (an
acknowledgement, a message, an open window). When it has nothing to say it is
silent; that is what makes `AllRead` depend on the drain in the timer arm.

### Also seen while modelling

Places where the code does something other than a comment says, or than a user may
expect, that no run of the list is kept for:

- `engine.rs:861`: the transmission count that ends a connection includes the first
  transmission, so `max_retries` of *n* allows *n* - 1 retransmissions; the comment at
  `engine.rs:544` says "retransmitted `dead_link` times".
- `engine.rs:259`: in stream mode `bytes_sent` misses the bytes merged into the last
  queued segment when more segments follow.
- `engine.rs:185`: a local write resets `last_activity`, also one that sends nothing: an
  empty one, or one that waits behind a closed window. An application that goes on
  writing so keeps the connection to a vanished peer alive.
- `actor.rs:132`: every iteration of the loop makes a new timer, so an application that
  asks for `stats()` or `is_connected()` more often than the timer waits puts off
  keep-alive, the detection of silence and retransmission for as long as it does;
  `LivePeerKept` excludes a silence with a command in it, because without probes a
  live peer has nothing to answer.
- `stream.rs:438`: after `close()` a read reports the end with received messages still
  in the channel; the comment at `stream.rs:428` says bytes already received do not
  vanish.
- `actor.rs:238`: a server stream and its listener dropped together close the input
  channel, and the actor stops at once with unacknowledged data. `Lingers` states
  this exception.
- `stream.rs:339`: `close()` after a shutdown that was polled and given up does not
  wait for the drain, because the shutdown future holds the actor's handle.
- `stream.rs:506`: a write that is cancelled leaves its chunk parked; the next write
  hands over the old chunk and reports its length for the new buffer.

## Proofs

All theorems hold for every value of the constants that satisfies the named
assumptions, and the hypotheses a theorem states. On the link these are every
window below half the number space, mtu, timeout, mode, word size, every
number of datagrams and repeats, every set of foreign datagrams. The
assumptions on the engine's constants are what `KcpConfig` guarantees.
`SpaceAssumption` is one on the environment: a connection numbers at most
`MaxSeg` segments, fewer than half the number space less a window. A datagram
of this model may stay in flight for ever, and one that is older than half the
number space is taken for a new one by any implementation of this protocol.

- `TypeCorrect`: `Spec => []TypeOK`. By induction, with a lemma for each
  operation of the engine. The RTT estimator, the back-off of the probe timer and the
  timeouts stay in their ranges; sums of words stay words.
- `Safety`: `Spec => []SafetyInv`. `PiecesInOrder` and `AckedDataHeld` are not
  inductive: whether input keeps them depends on what datagrams in flight say. So
  `SafetyInv` adds that every segment in flight is `Truthful` (its `una` is not
  above what its sender has accepted, an ACK names a piece its sender holds, a
  PUSH carries the piece of its number), that an engine owes ACKs only for what it
  holds (`OwesHeld`), and that the send buffer matches the numbers given out
  (`Numbering`). Truth is stable: a receiver never gives back what it holds. The
  proof follows the two halves of an engine apart, `RcvSide` and `SndSide`:
  `MoveRcv`, `PushRcv` and `RecvRcv` for the receiving half, `ParseUnaSnd`,
  `ParseAckSnd` and `MoveSnd` for the sending one, `InputSafe` by induction over
  the segments of a datagram, `FlushOutBelievable` for what is put out;
  `PeerStep` then carries a step of one peer over to the link. The wrapping
  comparison enters only through `BeforeIsOrder`.
- `InOrder` and `NothingLost`: `PiecesInOrder` and `AckedDataHeld`, from `Safety`.
- `WindowOpen`: `Spec => []CwndPositive`. The cut to the remote window happens
  only below it, and every loss leaves at least one segment.
- `Windows`: `Spec => []WithinWindows`, by `WindowInv`. Besides the bounds themselves it
  says that a send buffer without segments means that all is acknowledged: `shrink_buf`
  takes the next `snd_una` from the first segment left and `snd_nxt` when there is none.
  Distances are taken on the circle of numbers (lemma `Distances`), so nothing of what
  `SafetyInv` says of datagrams is needed: no datagram, however old or foreign, makes an
  engine hold more than its windows.
- `DeathAgrees`: `Spec => GivingUpAgrees`. Only a flush adds to the transmissions of a
  segment, and it compares the ones it has just transmitted; so a segment reaches
  `MaxRetries`, which is what `is_dead()` looks at, only in a flush that reports it.
  The converse holds of every flush that fails, the second of an engine that went on
  after the first included. What takes such a segment away again is a datagram.
- `AlwaysScheduled`: `Spec => Scheduled`, if `DeadlinesShow`: no deadline of a probe is the
  word 0, by which the code marks a timer that is not armed (hazard at `engine.rs:508`).
  `TimedInv` says that an armed probe timer shows its deadline; then, when a flush leaves
  data unsent and nothing in flight, the window of the peer is closed and the timer armed.
- `FullQueueIsReadable`: `Spec => []FullQueueReadable`. `FitInv` says that every piece
  queued or numbered has data and a fragment number below `max_frags`, so that a
  message fits in the receive window; `PiecesInOrder` carries this to the receiver.
- `AtoBDelivered` and `BtoADelivered` (`KcpChannelProofs`): `Spec => AtoBReliable` and
  `Spec => BtoAReliable`, the refinement of `ReliableChannel` in both directions, in message
  and in stream mode. The argument is about `Chain(p)`, the pieces p has numbered followed by those
  in its send queue. Only p's writes change it (a flush moves pieces from one half to the
  other, lemma `Quiet`), and what the peer has read and has ready to read are its next pieces (lemma
  `QueueInChain`, from `PiecesInOrder`). `Flow` says how it carries the writes:
  in message mode each write is a run of pieces whose fragment numbers count down to 0
  (`Carries`), so that `message_span` ends a read where the write ended; in stream mode
  the pieces and the writes are two ways to cut the same bytes (`CutOf`), whatever
  was merged. `FlattenCut` tells what `FlattenSeq` makes of a cut. The hypothesis is
  `Writable`. In stream mode no write is longer than `max_frags * mss + 1`: a longer one
  may fill the last segment of the queue and then be refused, which run `oversize` shows
  and which makes a reader see bytes that no accepted write had. In message mode no write is
  empty: `send()` accepts an empty message and sends nothing.

`TLC` checks `SafetyInv` itself in run `messages`.

On the stream (`KcpStreamProofs`), for every channel capacity, window, set of calls
and way of failing that `KcpActor` and `KcpStream` allow:

- `TypeCorrect`: `Spec => []TypeOK`, one lemma per operation of the engine as its
  driver sees it and one per step of the actor and the stream.
- `LingersAlways`: `Spec => []Lingers`. `Lingers` is inductive together with
  `TypeOK`: only a step of the actor can end it.
- `EofIsFinal`: `Spec => EofFinal` for a program that reads bytes or messages and
  does not mix them. The inductive invariant `EofInv` says why: once it is
  reported, the stream is at its end for good (closed, or the actor gone and its
  channel empty) and a reader of bytes has nothing left in its buffer.
- `BoundedMemory`: `Spec => []MemoryBounded`, for every set of calls, cancelled ones
  included. `Sync` relates the counters of the engine, of the datagrams on their way in
  and of the peer. `Outward` says where the accepted segments are: those in the engine
  are the first of them (`Ahead`), and the messages in the channel continue them, each
  from where the one before ends (`Cuts`).
- `OutgoingDelivered`: `Spec => OutgoingReliable`, if no call is cancelled. From `Sync` and
  `Outward`, whose `Parked` says that the chunk parked in `poll_write` is the one its
  caller waits with; a cancelled write makes the two differ (hazard at `stream.rs:506`).
- `EndIsGraceful`: `Spec => []GracefulEnd`, if no call is cancelled. `Ending` says that a
  close that was asked for, in whatever form it is under way (the command, the flag of
  the future, the dropped handle), has its mark `before_close`, and that a closing actor
  has absorbed everything up to that mark.
- `InboundStaysIntact`: `Spec => []InboundIntact`, and `IncomingDelivered`:
  `Spec => IncomingReliable`, for a program that reads bytes or messages and does not mix
  them. `Inward` names the message up to which the read buffer and the application
  have everything (`ReadUp`); those after it are in the channel and then in the engine
  (`Handed`). `FlattenPairs` tells what `FlattenSeq` makes of the messages of the channel.
  `IncomingDelivered` is about a client: a server's stream may begin with a
  message already in its engine, and the abstract channel begins with nothing written.

On the listener (`KcpListenerProofs`), for every set of peers and streams and every
limit:

- `BookkeepingHolds`: `Spec => []Bookkeeping`. `CountInv` adds that there is still
  room in `pending` between the check under the read lock and the insertion under
  the write lock: nobody else adds to it.
- `LiveStreamsRouted`: `Spec => []LiveStreamRouted` while `remove_active_connection`
  is not called (run `sweep` shows what calling it does). `RouteInv` adds that a route
  belongs to an active peer, that accept() works on a peer without a route
  (`AcceptsUnrouted`) and that what the cleanup collected before it asked for the lock
  is still dead when it has it (`CollectedStayDead`).
- `SweepIsSafe`: `Spec => SweepsOnlyClosed` under the same condition, from `RouteInv`.
  Run `sweep` violates it with the call, so the condition is the exact one.

On keep-alive (`KcpKeepAliveProofs`), for every window, timeout, number of transmissions,
delay and lateness, if `NoWrap`: the clock does not wrap in the life of the
connection (run `clockwrap` shows what a wrap does):

- `VanishDetected`: `Spec => []VanishedPeerDetected`. The wait never exceeds `idle_cap`, and a
  timer that is served finds less than three silent windows or ends the actor. `DetectInv`
  carries this through the steps between: `Armed` bounds the silence at the moment the
  timer is due, unless the application was busy since, and `Vanished` bounds the time since
  the peer vanished by the last answer under way and the silence. Nothing is needed of
  the retransmissions, which back off without a cap, nor of the remote window.
- `PeerKept`: `Spec => LivePeerKept`, if `Timeouts(b, R)` and `Tolerant(R)`. `b` is the sequence
  of timeouts of a segment, from `Rto` by `back_off`, and `R` bounds those of which `MaxLost` in a
  row can pass. `Tolerant` asks that an answer comes before the next transmission, that
  `MaxLost` transmissions in vain do not use up `DeadLinkMax`, and that neither they nor `MaxLost`
  probes take three windows. `KeptInv` adds that of the transmissions (`Transmitted`, `DataInTime`)
  or the probes (`ProbesInTime`) since the last sign of life all but the last are lost
  and the last is under way, and that with nothing in flight every timer sends a probe,
  because the window's is due or the keep-alive's.

The hypotheses are met by the passing runs that check the same properties (`loss`,
`messages`, `tail`, `delivery`, `routing`, `keepalive`; in the last `R` is 2, the
first timeout, as one loss is all that is assumed). In `loss` the larger write is
exactly `max_frags * mss + 1` bytes, so that it is refused in some states and accepted in others.

Only model-checked: all liveness properties, for which the prover has no rule.

## Not modelled

- `set_conv` and the conversation ids of the handshake. A listener's datagram is its
  address.
- `KcpEngine::update` with its interval gate: the first iteration of the actor may or
  may not flush.
- In `KcpStream`: mixing `recv()` with `poll_read` (`recv()` does not look at the read
  buffer; no program or test of the repository mixes them) and empty writes.
- In `KcpKeepAlive`: changes of the RTO estimate, fast retransmission, and the closing
  phase, in which commands and writes are not served and the linger deadline ends the
  actor.
- An `accept()` future that is dropped halfway: at its lock waits it would leave the
  address marked as being accepted.
- Byte encoding and decoding of headers, `KcpStats` other than `bytes_sent`,
  error texts, tracing, presets: no property is about them.
- `RttEstimator` arithmetic in `u32` is exact in the model; its inputs are clamped
  to `RtoMax`, so no intermediate value reaches 2^32 (part of `TypeCorrect`'s lemma
  `UpdateAckType`).
- The UDP socket is the network of `KcpLink`.

## Plan

1. Liveness of delivery in `KcpLink` under fair loss: what was written is read
   unless the connection is given up; the zero-window probe across a lost WINS.
2. Cancellation of `accept()` at each of its awaits.
3. Theorems: a version of `Safety` that bounds the age of datagrams instead of the
   number of segments.
