# A TLA+ verification of UDPix

UDPix moves files over UDP: a reliable protocol of its own (RUDP), an I/O engine
with background `io_uring` threads, NAT traversal, a gRPC control plane and a
command line that puts them together. This directory holds TLA+ modules of the
parts with interesting behaviour, TLC configurations that check them on small
instances, and TLAPS proofs of the most important properties for every instance.
Definitions carry the names of the code they model; `PROJECT.json` maps each one
to its lines.

    tlc -config RudpSession.cfg RudpSession      # one run
    tlapm Rudp_proofs.tla                        # one module of proofs

## 1. The system

| Component | State | Operations | Talks to |
|---|---|---|---|
| SACK bitmap (`protocol/sack.rs`) | base, 16 words, words in use | `mark_received`, `advance_base`, `on_packet_received`, `serialise` | receiver; its copies reach the sender |
| Heartbeat (`sack.rs`, `receiver.rs`) | slot counters, loss EMA, interval, timer | `on_packet_received`, `tick`, timer of `Receiver::run` | receiver |
| Sender (`protocol/sender.rs`) | `in_flight` map, two retransmit queues, shutdown flag | one loop: probe timer, SACK, command; then refill, `send_batch`, exit test | SACK channel, command channel, socket |
| Receiver (`protocol/receiver.rs`) | bitmap, timer | heartbeat, DATA, FIN | SACK channel (`try_send`), data channel (`send`), socket |
| Profiler and pacer (`protocol/congestion.rs`) | phase, rung, results, EMA, best; bucket rate | `on_bytes_sent`, `on_bytes_acked`, `evaluate_probe` | sender |
| Reader (`ioengine/reader.rs`) | two bounded channels, a thread | `stream_directory`, `read_large_file`, `Drop` | command channel |
| Writer (`ioengine/writer.rs`) | parts of split files, window, two bounded channels, a thread | `receive_and_write`, `Drop` | data channel, disk |
| Packer (`ioengine/packer.rs`) | none | `pack_files`, `unpack_entries` | reader, writer |
| Commands (`cli/send.rs`, `cli/receive.rs`) | tasks and channels of a transfer | `run_rudp`, `run_direct`, TCP handshake | everything above |
| Traversal (`traversal/*.rs`) | check list, socket, TURN allocation | `punch`, `run_checks`, `discover_with_socket`, `allocate`, `create_permission` | STUN and TURN servers, the peer |
| Control plane (`controlplane/*.rs`) | id counter, sessions under a lock, users, policies, JWT secret; all in memory | `authenticate`, `heartbeat`, `terminate`, `reap_expired` | nothing in the data plane |

What is hard about it: SACKs that are dropped, outdated or overtaken; datagrams
that are lost, repeated and reordered; a loop that must neither forget an entry
nor end too early; word-wise shifts of a bitmap; two threads that each block on a
bounded channel of the other; early returns that leave something in a channel;
timeouts after which the thing waited for still comes; a FIN that overtakes data;
handlers that read counter, clock and table at different times.
`PROJECT.json` lists each such hazard at its line, with the property that covers
it or the reason why none does.

Properties that make a component correct: for sender, receiver and bitmap, that
nothing is forgotten, acknowledged by mistake or cut off, and that everything
arrives in the end; for the profiler, that pacer and profiler agree and that
throttling and probing end; for reader and writer, that caller and thread do not
block each other, that an `Ok` means what it says, and that threads end; for the
commands, that the receiving side has everything when it reports success; for the
packer, that blocks hold the files, all of them and nothing else; for the
traversal, that it ends and that its verdict is right; for the control plane, that
sessions can be told apart, end once, and last as long as their clients are told.

## 2. Modules

| Module | Models | Extends / instantiates |
|---|---|---|
| `Sack` | `SackPayload`/`SackManager` as a base and a set of offsets | |
| `SackBits` | the bitmap as words: shifts, carries, bytes (operators) | |
| `SackWindow` | state machine over `Sack` | `Sack` |
| `SackManager` | `SackManager` on words: arrivals, loss estimate, interval, and the receiver's timer | `SackBits`; implements `SackWindow` |
| `RudpSender` | operators on the sender's state | `Sack` |
| `RudpReceiver` | DATA and FIN handling | `Sack` |
| `RudpSession` | both loops, SACK channel, network | the two above; implements `ReliableTransfer` |
| `ReliableTransfer` | what a session promises | |
| `Congestion` | profiler, pacer | |
| `ReaderPipeline`, `WriterPipeline` | caller, thread, channels, `Drop` | |
| `RudpCli` | both `run_rudp` functions | `RudpSession` |
| `Packer` | `pack_files`, `serialise`, `unpack_entries`, reassembly (operators) | |
| `DirectTransfer` | TCP handshake and both `run_direct` functions, from files to files | `Packer` |
| `HolePunch` | `punch` with ICE, STUN and TURN, one or two peers | |
| `ControlPlane` | handlers, session table, tokens, reaper, restart | |
| `*_proofs` | lemmas and theorems | the module they are named after |

### RUDP

A step of `RudpSession` is one iteration of `Sender::run` (a branch of the biased
select, then refill, `send_batch` and the exit test) or one event of the receiver
or the network. `sender` is a record of the code's fields; `naked` stands for
`nak_count = 1` and `due` for `last_sent` being more than one RTO ago. The
iteration order of the `HashMap` and the number of tokens are choices, so
`process_sack` and `send_batch` yield sets of states. A datagram stays in `wire`
until it is lost, so it may arrive any number of times and in any order.

The retransmit queues are unbounded in the code, and a SACK is always taken. The
model keeps of a queue the set of the in-flight entries in it and lets a batch pop
any of them; an entry that is sent may have another copy in the queue and stay in
it, and one that finds no tokens is pushed back. Order and length are left out, so
there is nothing that a SACK could have to wait for.

Abstractions. All datagrams cost the same number of tokens. New entries are due at
once, since `enqueue_data` puts `last_sent` one second back and the RTO is 200 ms
as long as there are no RTT samples (nothing sends a PING). A batch of `recvmmsg`
is a series of single datagrams, and what `sendmmsg` does not accept counts as
lost. The SACK that the receiver also puts on the wire is left out: no code of the
sender reads the socket. The `else` branch of the select is unreachable, because the
timer branch is never disabled. The owner of a session sends FIN when it thinks fit
(`run_rudp` does so after one second, whatever is in flight), so in `RudpSession` a
FIN may arrive at any time. The data channel, which may be full and which a failed
writer closes, is in `RudpCli`: a payload that finds it closed is dropped and
acknowledged all the same.

`Sack` keeps the bitmap as a set of offsets below the window. That the words, the
shifts by whole words and by bits, and the count of words in use do the same is
shown in `SackManager`, whose refinement mapping reads the set off the words. The
same module has the loss accounting of `SackManager`, with the EMA as an exact
rational (a whole number of units of 1/`SCALE`), and the timer of `Receiver::run`.
`deserialise` is about what `serialise` produces and its truncations: a count of
words above 16 with enough data behind it, which no peer of this code sends, would
index out of bounds.

`Congestion` keeps of the EMA whether it is zero, at most 30 % or above, with every
transition that an average with weights 0.8 and 0.2 can make; rates are positions on
the probe ladder.

### Reader and writer

A caller and a background thread with two bounded channels. One file is read or
written in one step, with either outcome; a failed write leaves any part of the
file on disk. `read_large_file` is the call with one file. A walk of the directory
that fails returns before it touches a channel and is not a call of the model. In
`WriterPipeline` blocks arrive in any order, any number of times, and the data
channel may close at any moment.

### Commands

`RudpCli` reuses the sender's and receiver's steps. No SACK reaches the sender in
the commands (`_sack_tx` and `_sack_rx` have no other end), so a timeout of one
second replaces the end of the window. `ProbeTicks` ticks of the probe timer fit into
it, and before each tick but the first 500 ms have gone by: commands are taken,
entries are past their RTO and the bucket is full (`HalfSecondLater`), so that
datagrams that were lost are sent again before FIN. On the other side the `Receiver`,
the data channel and `receive_and_write` are three parties: the `Receiver` waits for
room, the writer takes payloads one by one, and `run_rudp` awaits first the writer
and then the `Receiver`. Payloads reach the writer as they arrive; what the piece of a
block unpacks to depends on file contents, so the writer may fail on any payload.
A directory that cannot be read ends the sending command without a FIN, and nothing
is assumed about how long reading takes.

`Packer` counts data in cells: a header, a manifest entry and a byte of a file are
one cell each, and a byte knows its file and position, so that bytes which are lost,
repeated or put in the wrong place are seen. `Packs` is the reference that
`pack_files` is checked against: the blocks unpack to exactly the files. A path is
kept as it is, which `to_string_lossy` does for names in UTF-8; two other names might
become one.

`DirectTransfer` packs the files of a directory of every combination of sizes, puts
a length prefix of one cell before each block, cuts it into datagrams of
`MAX_PAYLOAD` cells and follows them through the network, the `raw_data` channel,
the reassembly task's buffer, the block channel and the writer. A datagram is
labelled with the place its sequence number stands for, a block and the cells before
it, which the receiver never looks at. A cell other than a prefix that is taken for
a length stands for `Content` if it is a byte of a file and for more than ever comes
otherwise (a block's magic number is an enormous length); the arithmetic on such a
length may overflow and end the reassembly task (`ExtractPanics`). A directory that
cannot be read ends the sending command with an error, but it also ends the send
task's loop, which sends its FINs as long as the process lives (`ReadFails`,
`LoopEnds`, `SendFin`). The network may lose, repeat or swap DATA datagrams,
`MaxFaults` of them, and lose FINs as long as one is left; `cut` remembers the first
block it did this to. The properties about data are about the blocks before it:
nothing in this mode notices a gap or a duplicate, and what follows is read at the
wrong place.

### Traversal

`HolePunch` gives each peer one socket with a mailbox. A request in flight is a
pair of ends, an answer likewise; a check takes whatever is first in the mailbox,
as the code does. Network address translation is taken to let everything through,
the best case for the code. The peers in `punching`, chosen at the start, run
`punch`; another peer answers requests, as a STUN server would. A request may fail to
be sent, which fails the check without a look at the socket. Addresses of two
families make no pair, so the host pair may be missing from the list. The network
loses datagrams and delivers `MaxRepeats` of them twice, requests and answers of STUN
and TURN alike; `echoed` remembers the peers to whom this happened on the way to a
server or back. Two requests between the same ends that are under way together are
one element of a set. With `attempts = 0`, which the code does not rule out, `punch`
would turn to the relay before any check; the model has at least one attempt.

The TURN client has a socket of its own and three exchanges: `allocate` without
credentials, which is answered by a 401 with realm and nonce, `allocate` with them,
and `create_permission`. Each request is sent once; the next datagram is its answer,
for the client does not compare transaction ids. The server (`TurnServer`, external)
grants or refuses, and its answers may be lost or, with a repeated request, come twice,
so a repeated answer can meet the next request. `TurnStep` ends the client with
`punch`: its socket, and with it the allocation's only way to the caller, is dropped
when `punch` returns.

### Control plane

The steps of `ControlPlane` are the accesses to shared state, with everything else a
handler does attached to them: `Authenticate` (password), `FetchId` (the atomic
counter), `Insert` (the table, then `issue_token` and the answer), `Verify` (token),
`Heartbeat` and `Terminate` (the table). Between them other handlers, the clock, the
reaper and a restart may come in: a token that was valid in `Verify` may have
expired, and its session be gone, when the table is reached. `reap_expired` reads the
clock before it waits for the lock, hence `ReapBegins` and `ReapSweeps`. `Restart`
forgets the table and the handlers under way and draws a new secret, as the server
command does at its start.

A session is named by the number of its creation in place of its random uuid. Keys,
nonces, `created_at` and `max_bps` are data that the manager stores and never looks
at; the table of policies does not change after start-up. A client presents the pair
of id and token that one answer gave it; `heartbeat` and `terminate` do not compare
the token's `sid` with the id they are given, so another pairing is accepted by the
code and is outside the model. Tokens expire by the wall clock and sessions by a
monotonic one; the model has one clock, which is never set back.

## 3. Runs

| Run | Bounds | Properties |
|---|---|---|
| `session_safety` | 3 datagrams, window 2, batch 2, one token, one SACK | `NoLoss`: nothing forgotten; `CleanShutdown`: `Sender::run` returns only after everything was handed over; `AckedForever`; `ImplementsTransfer`; `IndInv`, the invariant of the proofs |
| `session_liveness` | 2 datagrams, window 2, batch 1, 2 tokens, one SACK | `EventuallyDelivered`, `EventuallyDrained` |
| `sack_manager` | 3 words of 2 bits, numbers to 8, 4 arrivals between heartbeats, 3 heartbeats | `ImplementsWindow`, `BaseIsLowestGap`, `RoundTrip`; `SlotsCountedOnce`; `HurryNeedsHeavyLoss` |
| `congestion` | 3 rungs, 2 units | `PacerAgrees`, `BestOfRound`, `ClimbsByOne`; `NeverStays`: neither throttled nor probing for ever |
| `reader` | 3 files, 2 calls, channels of 2 | `SubmitNeverStuck` within capacity, `OwnResultsInOrder`, `CallReturns`, `ThreadEnds` |
| `writer` | 3 files, one split in 2, 4 blocks, channels of 1 and 2 | `WindowBounded`, `NeverStuck`, `OkMeansWritten`, `CallReturns`, `ThreadEnds` |
| `cli_rudp` | 3 datagrams, blocks of 1 or 2, channels of 1, 2 FINs, 2 probe ticks | `NeverDrains`; `OkMeansAllTaken`: a success means that the writer took and unpacked all that the `Receiver` took; `CommandReturns`, once the directory has been read |
| `direct` | up to 3 files of 0, 1, 2, 3 or 5 bytes in up to 3 blocks of 2 bytes, datagrams of 3 cells, channels of 1, one fault, 2 FINs | `PacksEverything`, `WholeBlocksInOrder`, `FilesArrive`: success without faults means every file, byte for byte, or none of a directory that could not be read; `ReceiverReturns` |
| `punch` | 2 peers, one or both punching, 1 server, 2 attempts, loss, one repeated datagram, TURN at one end | `BestPathWins`, `RelayIsGranted`, `DirectIsGenuine`, `PunchEnds` |
| `control_plane` | 2 handlers, 2 sessions, 2 ids, time to 2, sessions of 2 and tokens of 1, one restart | `UniqueIds`, `EndedOnce`, `ClientKeepsSession`, `RefusalIsFinal` |

The bounds make the interesting cases happen: more datagrams than the window, more
than a batch and more than the tokens (so datagrams arrive beyond the window, a
gap is filled with bits set above it, SACKs are dropped, and entries find no tokens
and go back into their queue); shifts by less than, exactly and more than a word;
requests that exactly fill both channels and the thread; files that are empty, fill a
block, are split with and without a rest, or follow a split one, and blocks that end
anywhere in a datagram (each begins one); a counter that wraps around while a session
is in the table, a session that expires between two heartbeats, a token that expires
before its session, and a restart in the middle of every handler. The handlers of
`control_plane` are interchangeable, and only they are permuted by its symmetry set.

`session_liveness` has no more datagrams than the window. Beyond it an entry that the
window's base waits for can be put back for ever by iterations that happen to come
when the bucket is empty, while iterations with tokens send other entries; which of
them an iteration finds is a matter of rates and timers that the model does not have.
Both properties end with a FIN: it ends the `Receiver` and with it the SACKs.

The type invariants of `RudpSession`, `ReaderPipeline`, `WriterPipeline` and
`Congestion` are proved (section 5). Elsewhere the declarations of the variables say
what they range over and the runs are spent on the properties above.

Every property of a passing run has a faulty variant of some definition
(`..._unguarded`, `..._early` and so on, next to the definition) under which the
same run fails; the variants are used for nothing else.

### Disagreements between code and documentation

Two runs end in a counterexample to a sentence of the repository that
`PROJECT.json` quotes:

- `reader_deadlock`: `stream_directory` submits all its requests before it takes a
  result, so a directory of more files than the channels and the thread hold blocks
  caller and thread on each other for ever (`CallReturns`).
- `cli_fin`: one second after the last command the sender's command sends FIN, and
  the receiving command succeeds although a datagram, put on the network at every
  chance before that, was lost each time (`ReceivesAll`).

The others were met while modelling and are part of the models as the code has them:

- the receiver's timer never follows the interval that `tick` chooses, because the
  interval is read after `tick` and compared with itself (`Tick` in `SackManager`);
- the floor that the profiler announces for a throttle never reaches the pacer,
  whose rate the next probe tick sets to the lowest rung; bytes in flight count as
  lost, and equal ratios leave a clean link on the lowest rung (`Congestion`);
- a call takes results that a failed call left behind, unless nothing is left over
  (the condition `stale = 0` of `OwnResultsInOrder`);
- parts of an incomplete file are dropped with `Ok` (`OkMeansWritten` is about files
  all of whose parts came);
- the pieces of a block of several datagrams reach the writer as blocks, which fails
  the receiving command or not, depending on file contents, and the sender's task
  goes on after the timeout that should abort it (`RudpCli`);
- when the directory cannot be read in direct mode, the receiving command is sent FIN
  and succeeds with nothing written (`FilesArrive` states exactly this);
- after one lost, repeated or overtaken datagram in direct mode, blocks that nobody
  sent reach the writer (`WholeBlocksInOrder` ends at `cut`);
- a STUN server's late or repeated answer passes for the peer's, attempts after the
  first send nothing, and two punching peers meet only through such an answer
  (`DirectIsGenuine` states exactly this);
- the result of the TURN fallback carries the punching socket, not the one that owns
  the allocation (`TurnStep`);
- `reap_expired` has no caller, so sessions whose client is gone, or never got its
  answer, stay in the table until a restart (`ReapBegins` has no fairness).

A single file as the argument of `udpix send`, as in the repository's README, ends
in an error of `read_dir`; a test would find that, and no run is spent on it.

## 4. Fairness

- `RudpSession`: the probe timer (500 ms) makes iterations recur, and tokens that an
  iteration leaves stay in the bucket, whose 3000 bytes take less than 3 ms at the
  lowest rung of 10 Mbps; so iterations with at least one token recur (WF), of any
  branch and with anything in the queues. A SACK that waits is taken (WF), with tokens
  or without. Heartbeat (5 ms) and RTO are timers (WF). A datagram that is in the
  network again and again is received some time (SF per datagram): the usual
  assumption on a lossy link. Nothing is assumed of commands, FINs or losses, and
  nothing of iterations without tokens, which may come between any two others.
- `Congestion`: time passes and the probe timer fires (WF). SACKs may never come.
- Reader and writer: both threads are scheduled (WF), a call that has all its
  results ships them, and the Receiver closes the data channel in the end. `Drop` is
  not assumed to happen.
- `RudpCli`: the tasks of the sending command and its timers run (WF). Nothing is
  assumed of the network, of the receiving command, nor of the read half of
  `send_directory`, which may block for ever (`reader_deadlock`).
- `DirectTransfer`: the tasks of both commands run (WF), those of the sending command
  as long as it has not returned. Nothing is assumed of the
  handshake: either side may be too late.
- `HolePunch`: each peer goes on, by a datagram or by its timeout, and datagrams
  move on (WF).
- `ControlPlane`: none. Clients may stop at any time and nothing calls the reaper;
  its properties are about safety.

Deadlock is checked in all runs but `reader_deadlock`, where the deadlock is the
point and is found as a violation of `CallReturns`. Final states stutter by an
action of their own (`SessionOver`, `Over`, `CliOver`).

## 5. Proofs

| Module | Theorems |
|---|---|
| `SackManager_proofs` | `SackInvariance`, `WordsImplementWindow`, `SurvivesTheWire`, `BaseFollowsGap`, `SlotsAreCountedOnce`, `HurriesOnHeavyLoss` |
| `Rudp_proofs` | lemmas on the bitmap (`mark_received`, `first_gap`, `advance_base`, `on_packet_received`); on `RudpSession`: `Invariance`, `TypeCorrect`, `NothingForgotten`, `SafeEnd`, `AcksAreForever`, `Refinement`; on `RudpCli`: `CliInvariance`, `WindowNeverDrains`, `SuccessTakesAll` |
| `DirectTransfer_proofs` | `DirectInvariance`, `PackingIsExact`, `BlocksArriveWhole`, `FilesAreRestored` |
| `Congestion_proofs` | `CongestionInvariance`, `PacerFollows`, `RoundRemembersBest`, `PacerClimbsByOne` |
| `ReaderPipeline_proofs` | `ReaderTypes`, `NeverStuckWithinCapacity`, `ResultsInOrder` |
| `WriterPipeline_proofs` | `WriterTypes`, `WriterWindow`, `WriterNeverStuck`, `WriterWritesWholeFiles` |
| `HolePunch_proofs` | `PunchInvariance`, `BestPathIsTaken`, `RelayIsReal`, `DirectIsAnswered` |
| `ControlPlane_proofs` | `ControlInvariance`, `IdsAreUnique`, `TerminatedForGood`, `SessionIsKept`, `RefusedForGood` |

They hold for every value of the constants that the named ASSUMEs allow: natural
numbers, positive where the code's are; for hole punching two peers, neither of
which is a server. Every inductive invariant was checked by TLC before its proof.

The type invariants of the session, the reader and the writer are not properties of
a run: `TypeCorrect`, `ReaderTypes` and `WriterTypes` prove them.

**Bitmap in words.** `SackBits` has a word as the set of its bits that are 1, so that
an offset is a word and a bit and the carry is arithmetic with a remainder
(`PlaceOfSum`): moving up by `n` stays in the word or goes on in the next, and
`ShiftMoves` shows that the shift by words, the shift by bits and the carry move each
bit down by `n`. `Mark`, `Advance` and `Arrival` say that the operations on words do
to the set that `AsSet` reads off them what those of `Sack` do. The search for the
first gap ends within the window and has one answer (`GapExists`, by
well-foundedness of the naturals). `SackInv` adds to the sum of slots that the count
of words is trimmed, which is what serialisation needs, that nothing beyond
`next_expected` is received, and that the interval is the one for the current
estimate, without which one sample could not be told from several.

**Session.** `NoLoss` is not inductive: `process_sack` removes what a SACK claims,
so the claim itself must be invariant. `IndInv` adds that every SACK, in the bitmap
or in the channel, claims only what was handed over and nothing at or beyond
`next_seq` (`SackSound`); that nothing unsent is in flight, in the network or handed
over (`OnlySent`); that SACKs in the channel are no newer than the bitmap
(`BaseBounded`); and that the loop ends with an empty window (`EndOrder`). The bound
by `next_seq` is what keeps a SACK true when new numbers are given out. Under it
`CleanShutdown` follows, which is about the sender's end (a FIN promises nothing),
and each step is an `Accept`, `HandOver`, `Close` or `End` of
`ReliableTransfer` or a stutter. A step may take a command and close at once only if
the command enqueues nothing, which the refinement proof has to show.

**Congestion.** `BestOfRound` says that no finished rung of this round is better
than the remembered best, and that the rate held in steady state did no worse than
any rung below it and the next one above. It compares fractions by
cross-multiplication, so the proof rests on the transitivity of that comparison
(`CrossTransitive`), on types, and on the fact that a rung which ends the round by a
drop is never its best (`DropIsNotBest`).

**Reader.** While requests are submitted no result is taken, hence everything
submitted is owed on top of what was left behind (`OwedWhileSubmitting`); were both
sides blocked, more would be owed than was submitted. For the order of results,
`OrderInv` follows the requests of a call through request channel, thread and result
channel (`InLine`: they are, in order, taken, in the result channel, held by the
thread, in the request channel), says that what was taken is in order
(`GotInOrder`), and that a call which ships or has returned well took all its results
(`CompleteIfOk`). All of this is for a call that began with nothing left over.

**Writer.** Until the call has failed, the number in flight is the sum of what is in
the two channels and the thread (`Accounted`); once a call has reaped, at most
`ReqCap + 1` writes are in flight, what the request channel and the thread can hold
(`AfterReaping`). This bounds the window and excludes the mutual block.
`OkMeansWritten` needs to know for each file whether it is still gathering, waiting
in the request channel or on disk, unless a failure is on its way to the caller.

**Commands, RUDP mode.** No SACK comes, so nothing leaves the window: `CliInv` says
that the retransmit queues stay empty, that everything given out is in flight
(`AllInFlight`), that nothing is in the network or handed over that was not enqueued
(`EnqueuedFirst`), and that as long as the writer has not failed, what the `Receiver`
took is in the data channel or was taken from it (`TakenOrQueued`). The writer ends
well only on a closed and empty channel, hence `SuccessTakesAll`.

**Commands, direct mode.** The frame in hand, the network, the `raw_data` channel
and the buffer are one line of datagrams (`Line`). `Chain(n)` says that its first `n`
datagrams hold what their sequence numbers say and follow each other without a gap,
from the cell that the reassembly task needs next to the end of what was framed, or
to a block that the network has touched. Passing a datagram on leaves the line as it
is; `TakeBlock` adds a frame at its end, which takes some arithmetic on chunks
(`FrameIs`, `DivCeil`); a fault cuts the chain at the datagram it befalls, and this
datagram's block is not before the new `cut`. `BufferFits` says that the buffer is the
beginning of the next frame, so its first cell is that frame's length and `Extract`
yields the block and an empty buffer. With `FinIsLast` (a FIN comes after the last
datagram of the last block, or in place of all of them when the directory could not be
read) and `EndInOrder` (the task ends with its channel, unless a fault has spoilt its
buffer), a command that ends well without a fault has nothing left in the line, hence
all blocks.
That the blocks it sent are the files is the next paragraph.

**Packing.** `Gathered` is what the finished blocks and the block in progress would
unpack to. `flush` leaves it as it is: a block unpacks to what it was made of
(`UnpackSerialise`, the round trip of `serialise` and `unpack_entries`), and its items
only move from one half to the other. `add_file` adds one item, and the offsets of the
earlier ones stay good because the payload only grows at its end (`ItemsMore`);
`split_file` adds the chunks of the file, which are exactly the file when they are put
together again (`ChunksJoin`). So after `n` files `Gathered` is the parts of the first
`n` files, each once and with the right number of parts (`Covers`), for files of any
number and size: a file of no bytes, one of exactly `BLOCK_SIZE`, one that does not fit
into what is left of a block. `RestoredIs` shows that the writer makes exactly the
files of such items. The loop over the files and `FlattenSeq` are recursive functions.
That they are what their equations say (`LoopHistory`, `OneHistory`) and the induction
on `n` rest on the well-foundedness of the naturals, used for the set of the numbers
for which the claim holds (`SetInduction`), so no induction theorem with an operator
as its parameter is needed.

**Hole punching.** `PunchInv` relates the states of the two pairs to the step of
`punch` (`PairsFit`), the TURN answers on their way to what the server holds, which
only grows (`GrantsAreTrue`), and each Binding Success, on its way or in a mailbox, to
the one request that can have caused it: as long as a peer has not given up its first
STUN server, nothing on the way to it or back was delivered twice and the other peer
has answered nothing, at most one request or answer of
its own is about, the one to that server, and none is left after discovery
(`OneAnswer`, `SuccessesAreKnown`).

**Control plane.** `ControlInv` says that no clock read earlier is ahead of the clock
and no token was signed by a later run of the server (`NothingAhead`), that a session
about to be inserted is new: nobody has seen it and no other handler inserts it
(`InsertsAreNew`), that numeric ids follow the number
of creation modulo the counter's range (`IdsCountOn`), that within
the session's time to live the table keeps it at least as young as its client's last
answered request, unless it was terminated (`KeptAlive`), and that a refused session
is gone from the table or has a token that stays invalid (`RefusedIsGone`).

**Only model-checked.** Liveness under fairness, for all modules: it is out of the
prover's reach. Every invariant and every action property that a passing run checks
is stated by a theorem.

## 6. Not modelled

- Packet headers, STUN and TURN messages as bytes, HMAC, password hashing and the
  signature of tokens: byte layout and cryptography, without state.
- Zero-copy wrappers (`zerocopy.rs`) and `bind_channel`, `send_channel_data`,
  `refresh`, `HolePuncher::discover` and `set_user_policy`: nothing in the repository
  calls them outside tests, so there is no sequence of calls to model.
- Session statistics: only a PONG updates the RTT estimators, and nothing sends a
  PING, so the RTO keeps its initial value; the counters are read for log lines only.
- The growth of the sender's retransmit queues, which is a matter of rates: their
  length and order are abstracted away. The loop over the reads of one file: a read
  of a file is one step, so a file that shrinks while it is read is not modelled.
- Benchmarks, argument parsing, TLS set-up and shared plain types.

## 7. Plan

Done, in this order: bitmap, session and its proofs; bitmap words; heartbeat;
congestion; reader; writer; commands; traversal with the TURN client; packer and
direct mode from files to files; control plane.

Proofs done after that: commands in both modes, order of the reader's results, hole
punching, control plane, bitmap in words, packing.

The last proof is that of packing, so that the theorems of direct mode hold from the
files on disk to the files on disk without a hypothesis. What is left is liveness.
