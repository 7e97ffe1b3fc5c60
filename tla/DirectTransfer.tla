--------------------------- MODULE DirectTransfer ---------------------------
(***************************************************************************)
(* `udpix send --direct' and `udpix receive --direct': run_direct of       *)
(* crates/cli/src/send.rs and receive.rs with the TCP handshake before it. *)
(* Files are packed into blocks, which are framed with a length prefix,    *)
(* cut into datagrams, sent once, put together again by a reassembly task  *)
(* between the Receiver and the writer, and unpacked.  The network may     *)
(* lose, repeat and reorder datagrams; nothing in this mode notices.       *)
(*                                                                         *)
(* Data is counted in cells as in Packer; a length prefix is one cell.     *)
(***************************************************************************)
EXTENDS Packer

CONSTANTS
    NFiles,        \* bound: files in the directory
    NBlocks,       \* bound: blocks they are packed into
    Sizes,         \* sizes of files
    MaxFaults,     \* bound: DATA datagrams lost, repeated or overtaken
    MAX_PAYLOAD,   \* cells in a datagram
    IoCap,         \* capacity of the command channel (64 in the code)
    RawCap,        \* capacity of the raw_data channel (512 in the code)
    BlockCap,      \* capacity of the block channel (16 in the code)
    FinCopies,     \* FINs sent (5 in the code)
    Content        \* a byte of a file, when it is read as a length

ASSUME DirectAssumption ==
    /\ NFiles \in Nat /\ NBlocks \in Nat /\ Sizes \subseteq Nat /\ MaxFaults \in Nat
    /\ MAX_PAYLOAD \in Nat \ {0}
    /\ IoCap \in Nat \ {0} /\ RawCap \in Nat \ {0} /\ BlockCap \in Nat \ {0}
    /\ FinCopies \in Nat \ {0} /\ Content \in Nat

VARIABLES
    files,         \* the files of the directory
    blocks,        \* the blocks they are packed into
    tx,            \* sending command: "connect", "run", "ok", "failed", or
                   \* "read_failed" while its send task may still be running
    produced,      \* blocks that the I/O engine has put into its channel
    io_q,          \* command channel
    framed,        \* datagrams of the current block that are still to be sent
    fin_left,      \* FINs that are still to be sent
    net,           \* datagrams on their way, in order
    fin_lost,      \* FINs that the network has lost
    faults,        \* what the network has done to DATA datagrams
    cut,           \* history: the first block with such a datagram, or 0
    listening,     \* the receiver has bound its UDP socket and the listener
    rx,            \* receiving command: "start", "run", "ok" or "failed"
    fin_seen,      \* Receiver::run has returned
    raw_q,         \* raw_data channel, of datagrams whose data alone is used
    accum,         \* the reassembly task's buffer
    task,          \* reassembly task: "recv", "extract" or "ended"
    block_q,       \* block channel
    written        \* blocks that the writer has taken

txVars == << tx, produced, io_q, framed, fin_left >>
rxVars == << listening, rx, fin_seen, raw_q, accum, task, block_q, written >>
work == << files, blocks >>
netVars == << net, fin_lost, faults, cut >>
vars == << work, txVars, netVars, rxVars >>

\* A datagram.  The sequence number of its header says which block it is cut
\* from and how many cells of the frame precede it; the receiver never looks.
Datagram(b, at, cells) == [block |-> b, at |-> at, data |-> cells]
FIN == Datagram(0, 0, << >>)

Prefix(n) == [kind |-> "prefix", len |-> n]

\* The length prefix and the block, in chunks of MAX_PAYLOAD.
Frame(b) ==
    LET cells == << Prefix(Len(blocks[b])) >> \o blocks[b]
    IN  [k \in 1 .. (Len(cells) + MAX_PAYLOAD - 1) \div MAX_PAYLOAD |->
            Datagram(b, (k - 1) * MAX_PAYLOAD,
                     SubSeq(cells, (k - 1) * MAX_PAYLOAD + 1, Min({k * MAX_PAYLOAD, Len(cells)})))]

Shutdown == 0          \* SenderCommand::Shutdown

Init ==
    /\ \E sizes \in UNION {[1 .. n -> Sizes] : n \in 0 .. NFiles} :
          files = [p \in 1 .. Len(sizes) |-> File(p, sizes[p])]
    /\ blocks = pack_files(files) /\ Len(blocks) <= NBlocks
    /\ tx = "connect" /\ produced = 0 /\ io_q = << >> /\ framed = << >>
    /\ fin_left = FinCopies
    /\ net = << >> /\ fin_lost = 0 /\ faults = 0 /\ cut = 0
    /\ listening = FALSE /\ rx = "start" /\ fin_seen = FALSE
    /\ raw_q = << >> /\ accum = << >> /\ task = "recv"
    /\ block_q = << >> /\ written = << >>

-----------------------------------------------------------------------------
(* The handshake.                                                          *)

\* The UDP socket is bound first, then tcp_signal_ready listens.
Listen ==
    /\ ~ listening
    /\ listening' = TRUE
    /\ UNCHANGED << work, txVars, netVars, rx, fin_seen, raw_q, accum, task, block_q, written >>

\* Faulty variant: the sender starts whether the receiver is there or not.
Ready_at_once ==
    /\ tx = "connect"
    /\ tx' = "run"
    /\ rx' = IF listening THEN "run" ELSE rx
    /\ UNCHANGED << work, produced, io_q, framed, fin_left, netVars, listening,
                    fin_seen, raw_q, accum, task, block_q, written >>

\* The connection is accepted and READY read; until then the sender retries.
Ready ==
    /\ tx = "connect"
    /\ listening
    /\ rx = "start"
    /\ tx' = "run"
    /\ rx' = "run"
    /\ UNCHANGED << work, produced, io_q, framed, fin_left, netVars, listening,
                    fin_seen, raw_q, accum, task, block_q, written >>

\* The sender waits 60 s and the receiver 300 s for the other side.
GiveUp ==
    /\ \/ tx = "connect" /\ tx' = "failed" /\ UNCHANGED rx
       \/ listening /\ rx = "start" /\ rx' = "failed" /\ UNCHANGED tx
    /\ UNCHANGED << work, produced, io_q, framed, fin_left, netVars, listening,
                    fin_seen, raw_q, accum, task, block_q, written >>

-----------------------------------------------------------------------------
(* The sending command: I/O engine and send task.                          *)

\* send_directory: the blocks, then Shutdown.
Produce ==
    /\ tx = "run"
    /\ produced <= Len(blocks)
    /\ Len(io_q) < IoCap
    /\ io_q' = Append(io_q, IF produced < Len(blocks) THEN produced + 1 ELSE Shutdown)
    /\ produced' = produced + 1
    /\ UNCHANGED << work, tx, framed, fin_left, netVars, rxVars >>

\* The directory is read before the first block is produced.  An error ends the
\* command and drops its end of the channel, not the send task.
ReadFails ==
    /\ tx = "run"
    /\ produced = 0
    /\ tx' = "read_failed"
    /\ UNCHANGED << work, produced, io_q, framed, fin_left, netVars, rxVars >>

TakeBlock ==
    /\ tx = "run"
    /\ framed = << >>
    /\ io_q # << >> /\ Head(io_q) # Shutdown
    /\ framed' = Frame(Head(io_q))
    /\ io_q' = Tail(io_q)
    /\ UNCHANGED << work, tx, produced, fin_left, netVars, rxVars >>

\* A datagram for a receiver that has no socket yet is dropped.
Sent(d) == IF listening THEN Append(net, d) ELSE net

SendDatagram ==
    /\ tx = "run"
    /\ framed # << >>
    /\ net' = Sent(Head(framed))
    /\ framed' = Tail(framed)
    /\ UNCHANGED << work, tx, produced, io_q, fin_left, fin_lost, faults, cut, rxVars >>

\* The send task leaves its loop on Shutdown, or on a channel that is empty and
\* that nobody can send to any more.
LoopEnds ==
    \/ tx = "run" /\ io_q # << >> /\ Head(io_q) = Shutdown
    \/ tx = "read_failed" /\ io_q = << >>

\* Then it sends FIN FinCopies times, or fewer when the process ends before.
SendFin ==
    /\ framed = << >>
    /\ LoopEnds
    /\ fin_left > 0
    /\ net' = Sent(FIN)
    /\ fin_left' = fin_left - 1
    /\ tx' = IF tx = "run" /\ fin_left = 1 THEN "ok" ELSE tx
    /\ UNCHANGED << work, produced, io_q, framed, fin_lost, faults, cut, rxVars >>

-----------------------------------------------------------------------------
(* The network.                                                            *)

\* Something happens to the k-th datagram on its way, which carries data.
Fault(k) ==
    /\ faults < MaxFaults
    /\ net[k] # FIN
    /\ faults' = faults + 1
    /\ cut' = IF cut = 0 THEN net[k].block ELSE Min({cut, net[k].block})
    /\ UNCHANGED << work, txVars, fin_lost, rxVars >>

Lose(k) == Fault(k) /\ net' = RemoveAt(net, k)

Duplicate(k) == Fault(k) /\ net' = InsertAt(net, k + 1, net[k])

\* The next datagram, of data or a FIN, overtakes the k-th.
Overtake(k) ==
    /\ Fault(k)
    /\ k < Len(net)
    /\ net' = [net EXCEPT ![k] = net[k + 1], ![k + 1] = net[k]]

\* Light loss leaves one of the FINs.
LoseFin ==
    /\ fin_lost < FinCopies - 1
    /\ net # << >> /\ Last(net) = FIN
    /\ net' = Front(net)
    /\ fin_lost' = fin_lost + 1
    /\ UNCHANGED << work, txVars, faults, cut, rxVars >>

Network == LoseFin \/ \E k \in 1 .. Len(net) : Lose(k) \/ Duplicate(k) \/ Overtake(k)

-----------------------------------------------------------------------------
(* The receiving command: Receiver, reassembly task and writer.            *)

\* The Receiver awaits room in the channel; a reassembly task that is gone is
\* no obstacle to a Receiver that still runs when the writer has failed.
ReceiveData ==
    /\ rx \in {"run", "failed"} /\ ~ fin_seen
    /\ net # << >> /\ Head(net) # FIN
    /\ \/ task = "ended" /\ UNCHANGED raw_q
       \/ task # "ended" /\ Len(raw_q) < RawCap /\ raw_q' = Append(raw_q, Head(net))
    /\ net' = Tail(net)
    /\ UNCHANGED << work, txVars, fin_lost, faults, cut, listening, rx, fin_seen, accum, task, block_q, written >>

\* Faulty variant: what waits in the channel is dropped with the Receiver.
ReceiveFin_drops ==
    /\ rx = "run" /\ ~ fin_seen
    /\ net # << >> /\ Head(net) = FIN
    /\ fin_seen' = TRUE
    /\ raw_q' = << >>
    /\ net' = Tail(net)
    /\ UNCHANGED << work, txVars, fin_lost, faults, cut, listening, rx, accum, task, block_q, written >>

ReceiveFin ==
    /\ rx = "run" /\ ~ fin_seen
    /\ net # << >> /\ Head(net) = FIN
    /\ fin_seen' = TRUE
    /\ net' = Tail(net)
    /\ UNCHANGED << work, txVars, fin_lost, faults, cut, listening, rx, raw_q, accum, task, block_q, written >>

TakeRaw ==
    /\ task = "recv"
    /\ raw_q # << >>
    /\ accum' = accum \o Head(raw_q).data
    /\ raw_q' = Tail(raw_q)
    /\ task' = "extract"
    /\ UNCHANGED << work, txVars, netVars, listening, rx, fin_seen, block_q, written >>

\* The first cell of the buffer, read as a length.  The magic number or an
\* entry would announce more than there ever is.
HasLength == accum # << >> /\ accum[1].kind \in {"prefix", "byte"}
block_len == IF accum[1].kind = "prefix" THEN accum[1].len ELSE Content

\* The buffer holds a length prefix and as many cells as it announces.
Complete == HasLength /\ Len(accum) >= 1 + block_len

\* Faulty variant: the prefix is not taken off the buffer.
Extract_keeps_prefix ==
    /\ task = "extract"
    /\ Complete
    /\ rx = "run" /\ Len(block_q) < BlockCap
    /\ block_q' = Append(block_q, SubSeq(accum, 1, block_len))
    /\ accum' = SubSeq(accum, block_len + 1, Len(accum))
    /\ UNCHANGED << work, txVars, netVars, listening, rx, fin_seen, raw_q, task, written >>

\* One round of the inner loop: hand over a block, or leave when the writer
\* has dropped its end of the channel.
Extract ==
    /\ task = "extract"
    /\ Complete
    /\ accum' = SubSeq(accum, block_len + 2, Len(accum))
    /\ \/ /\ rx = "run" /\ Len(block_q) < BlockCap
          /\ block_q' = Append(block_q, SubSeq(accum, 2, block_len + 1))
          /\ UNCHANGED task
       \/ /\ rx # "run"
          /\ task' = "ended"
          /\ UNCHANGED block_q
    /\ UNCHANGED << work, txVars, netVars, listening, rx, fin_seen, raw_q, written >>

\* Content that is read as a length may be so large that the end of the block
\* overflows, in the comparison or in the slice: the task panics, and nobody
\* looks at its handle.
ExtractPanics ==
    /\ task = "extract"
    /\ accum # << >> /\ accum[1].kind = "byte"
    /\ task' = "ended"
    /\ UNCHANGED << work, txVars, netVars, listening, rx, fin_seen, raw_q, accum, block_q, written >>

ExtractDone ==
    /\ task = "extract"
    /\ ~ Complete
    /\ task' = "recv"
    /\ UNCHANGED << work, txVars, netVars, listening, rx, fin_seen, raw_q, accum, block_q, written >>

\* The Receiver has returned and its channel is empty.
TaskEnds ==
    /\ task = "recv"
    /\ fin_seen /\ raw_q = << >>
    /\ task' = "ended"
    /\ UNCHANGED << work, txVars, netVars, listening, rx, fin_seen, raw_q, accum, block_q, written >>

\* receive_files takes a block; one that does not unpack or cannot be written
\* ends the command.
Write(disk_ok) ==
    LET ok == disk_ok /\ unpack_entries(Head(block_q)) # {}
    IN  /\ rx = "run"
        /\ block_q # << >>
        /\ block_q' = Tail(block_q)
        /\ written' = IF ok THEN Append(written, Head(block_q)) ELSE written
        /\ rx' = IF ok THEN rx ELSE "failed"
        /\ UNCHANGED << work, txVars, netVars, listening, fin_seen, raw_q, accum, task >>

WriteEnds ==
    /\ rx = "run"
    /\ block_q = << >> /\ task = "ended"
    /\ fin_seen
    /\ rx' = "ok"
    /\ UNCHANGED << work, txVars, netVars, listening, fin_seen, raw_q, accum, task, block_q, written >>

-----------------------------------------------------------------------------
\* Both commands have returned, or the receiving one waits for a FIN of a
\* command that has failed.
Over ==
    /\ tx \in {"failed", "read_failed"} \/ (tx = "ok" /\ rx \in {"ok", "failed"})
    /\ UNCHANGED vars

TxStep == Produce \/ TakeBlock \/ SendDatagram \/ SendFin

RxStep == ReceiveData \/ ReceiveFin \/ WriteEnds \/ \E ok \in BOOLEAN : Write(ok)

TaskStep == TakeRaw \/ Extract \/ ExtractPanics \/ ExtractDone \/ TaskEnds

Next == Listen \/ Ready \/ GiveUp \/ ReadFails \/ TxStep \/ Network \/ RxStep \/ TaskStep \/ Over

Spec == Init /\ [][Next]_vars

\* The tasks of both commands are scheduled as long as their process lives;
\* whoever starts the other command may be too late.
LiveSpec == Spec /\ WF_vars(tx = "run" /\ TxStep) /\ WF_vars(RxStep) /\ WF_vars(TaskStep)

-----------------------------------------------------------------------------
\* What the reassembly task has handed over, in order.
Handed == written \o block_q

\* The reassembly task hands over the blocks that were sent, whole and in
\* order, however they were cut into datagrams, up to the first block of which
\* the network has lost, repeated or delayed a datagram: a repeated one is
\* handed over like any other and shifts all that follows.
WholeBlocksInOrder ==
    \A i \in 1 .. Len(Handed) :
        rx # "failed" /\ (cut = 0 \/ i < cut) => i <= Len(blocks) /\ Handed[i] = blocks[i]

\* Packing loses, repeats and mixes nothing, whatever the sizes of the files:
\* empty, exactly one block, split, or following one that was split.
PacksEverything == Packs(files, blocks)

\* End to end: when the network has done nothing to the data, a receiving
\* command that returns without an error has restored every file, byte for
\* byte, although the Receiver returns at the first FIN.  The one exception is
\* a sending command that could not read its directory, whose send task sends
\* FIN all the same: then nothing at all was written, never a part.
FilesArrive ==
    rx = "ok" /\ cut = 0 =>
        IF tx = "read_failed" THEN written = << >> ELSE Restored(written) = AsWritten(files)

\* Once the sending command has returned, the receiving one does so as well,
\* whatever happened to the data: one FIN of FinCopies is enough.
ReceiverReturns == tx = "ok" ~> rx \in {"ok", "failed"}
=============================================================================
