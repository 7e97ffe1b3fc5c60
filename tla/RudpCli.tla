------------------------------ MODULE RudpCli -------------------------------
(***************************************************************************)
(* `udpix send' and `udpix receive' without --direct: the run_rudp         *)
(* functions of crates/cli/src/send.rs and receive.rs around the Sender    *)
(* and the Receiver.                                                       *)
(*                                                                         *)
(* The two processes share no channel: the SACK channel of the sender has  *)
(* no writer and that of the receiver no reader, and the SACKs that the    *)
(* receiver puts on the wire reach a socket that the sender does not read. *)
(* So the sender never takes a SACK and its window is left to a timeout.   *)
(* Datagram payloads go as they arrive through a channel to the writer;    *)
(* what a payload that is only a piece of a block unpacks to depends on    *)
(* file contents, so that the writer may fail on any.                      *)
(***************************************************************************)
EXTENDS RudpSession, Functions

CONSTANTS
    CmdCap,        \* capacity of the command channel (512 in the code)
    DataCap,       \* capacity of the data channel (512 in the code)
    FinCopies,     \* times the command sends FIN (5 in the code)
    ProbeTicks     \* probe ticks in the timeout of one second (2 in the code)

ASSUME CliAssumption == /\ CmdCap \in Nat \ {0}
                        /\ DataCap \in Nat \ {0}
                        /\ FinCopies \in Nat
                        /\ ProbeTicks \in Nat

VARIABLES
    plan,          \* blocks that send_directory has still to hand over
    cmd_q,         \* command channel: blocks, by their number of datagrams
    cli,           \* run_rudp of send.rs: "read", "io", "wait", "fin" or "returned"
    ticks,         \* probe ticks since run_rudp waits for the sender
    fin_left,      \* FINs that run_rudp has still to send
    fin_wire,      \* a FIN is in the network
    data_q,        \* data channel: payloads, by their sequence number
    taken,         \* payloads that the writer has taken and unpacked
    writer,        \* receive_and_write: "running", "ok" or "failed"
    rx             \* run_rudp of receive.rs: "running", "ok" or "failed"

sendVars == << plan, cmd_q, cli, ticks, fin_left >>
recvVars == << data_q, taken, writer, rx >>
cliVars == << sendVars, fin_wire, recvVars >>
allVars == << vars, cliVars >>

Shutdown == 0          \* SenderCommand::Shutdown in the command channel

\* The directories that are sent: blocks that fill 1 .. MaxChunk datagrams.
Plans == UNION {[1 .. k -> 1 .. MaxChunk] : k \in 0 .. MaxSeq}

Datagrams(blocks) == FoldFunction(+, 0, blocks)

CliInit ==
    /\ Init
    /\ plan \in {p \in Plans : Datagrams(p) <= MaxSeq}
    /\ cmd_q = << >>
    /\ cli = "read"
    /\ ticks = 0
    /\ fin_left = FinCopies
    /\ fin_wire = FALSE
    /\ data_q = << >>
    /\ taken = {}
    /\ writer = "running"
    /\ rx = "running"

-----------------------------------------------------------------------------
(* The sending process.                                                    *)

\* The read half of IoEngine::send_directory, which comes first; an error ends
\* the command, without a FIN.
ReadDirectory(ok) ==
    /\ cli = "read"
    /\ cli' = IF ok THEN "io" ELSE "returned"
    /\ UNCHANGED << vars, plan, cmd_q, ticks, fin_left, fin_wire, recvVars >>

\* Then it hands over the blocks in order, and Shutdown.
SendDirectory ==
    /\ cli = "io"
    /\ Len(cmd_q) < CmdCap
    /\ IF plan = << >>
       THEN cmd_q' = Append(cmd_q, Shutdown) /\ cli' = "wait" /\ UNCHANGED plan
       ELSE cmd_q' = Append(cmd_q, Head(plan)) /\ plan' = Tail(plan) /\ UNCHANGED cli
    /\ UNCHANGED << vars, ticks, fin_left, fin_wire, recvVars >>

\* The sender's task lives until the command has returned.
SenderRuns == ~ sender.done /\ cli # "returned"

\* 500 ms after a probe tick the commands are taken, every entry is past its
\* RTO (200 ms: no PONG ever raises it) and the bucket is full.
HalfSecondLater(tokens) ==
    /\ cmd_q = << >>
    /\ sender.due = sender.in_flight
    /\ tokens = TokenCap

CliProbe(tokens) ==
    /\ SenderRuns
    /\ ticks > 0 => HalfSecondLater(tokens)
    /\ LoopTail(sender, tokens)
    /\ ticks' = IF cli = "wait" /\ ticks < ProbeTicks THEN ticks + 1 ELSE ticks
    /\ UNCHANGED << sack_ch, plan, cmd_q, cli, fin_left, fin_wire, recvVars >>

CliCommand(tokens) ==
    /\ SenderRuns
    /\ cmd_q # << >>
    /\ LET n == Head(cmd_q)
       IN  IF n = Shutdown
           THEN LoopTail([sender EXCEPT !.shutdown = TRUE], tokens)
           ELSE LoopTail(enqueue_data(sender, n), tokens)
    /\ cmd_q' = Tail(cmd_q)
    /\ UNCHANGED << sack_ch, plan, cli, ticks, fin_left, fin_wire, recvVars >>

CliRto(s) == SenderRuns /\ RtoElapse(s) /\ UNCHANGED cliVars

\* Faulty variant: without the timeout the command waits for the sender.
Timeout_never ==
    /\ cli = "wait"
    /\ sender.done
    /\ cli' = "fin"
    /\ UNCHANGED << vars, plan, cmd_q, ticks, fin_left, fin_wire, recvVars >>

\* The sender's task has returned or one second has gone by.  The task itself
\* is not stopped: dropping its handle detaches it.
Timeout ==
    /\ cli = "wait"
    /\ sender.done \/ ticks = ProbeTicks
    /\ cli' = "fin"
    /\ UNCHANGED << vars, plan, cmd_q, ticks, fin_left, fin_wire, recvVars >>

\* FIN, FinCopies times; then the command returns and the process ends.
CliFin ==
    /\ cli = "fin"
    /\ fin_left > 0
    /\ fin_left' = fin_left - 1
    /\ fin_wire' = TRUE
    /\ UNCHANGED << vars, plan, cmd_q, cli, ticks, recvVars >>

CliReturn ==
    /\ cli = "fin"
    /\ fin_left = 0
    /\ cli' = "returned"
    /\ UNCHANGED << vars, plan, cmd_q, ticks, fin_left, fin_wire, recvVars >>

-----------------------------------------------------------------------------
(* The receiving process: the Receiver's task, the data channel, the       *)
(* writer that run_rudp awaits, and run_rudp itself.                       *)

\* The Receiver waits for room in the channel.  Once the writer has failed the
\* channel is closed: the payload is dropped, and acknowledged all the same.
CliReceive(s) ==
    /\ rx = "running"
    /\ writer = "failed" \/ Len(data_q) < DataCap
    /\ ReceiveData(s)
    /\ data_q' = IF writer = "failed" THEN data_q ELSE Append(data_q, s)
    /\ UNCHANGED << sendVars, fin_wire, taken, writer, rx >>

\* The first FIN ends the Receiver, whatever is still in the channel.
CliReceiveFin ==
    /\ rx = "running"
    /\ fin_wire
    /\ process_fin
    /\ UNCHANGED << sender, wire, sack_ch, cliVars >>

\* receive_and_write takes the next payload, which does not unpack or cannot be
\* written, or is submitted.
WriterTakes(ok) ==
    /\ writer = "running"
    /\ data_q # << >>
    /\ IF ok
       THEN data_q' = Tail(data_q) /\ taken' = taken \cup {Head(data_q)} /\ UNCHANGED writer
       ELSE data_q' = << >> /\ writer' = "failed" /\ UNCHANGED taken
    /\ UNCHANGED << vars, sendVars, fin_wire, rx >>

\* Faulty variant: the writer ends with the Receiver, not with the channel.
WriterEnds_with_receiver(ok) ==
    /\ writer = "running"
    /\ fin_seen
    /\ writer' = IF ok THEN "ok" ELSE "failed"
    /\ UNCHANGED << vars, sendVars, fin_wire, data_q, taken, rx >>

\* The channel is closed, since the Receiver has returned, and empty; the last
\* writes are waited for and one may fail.
WriterEnds(ok) ==
    /\ writer = "running"
    /\ fin_seen
    /\ data_q = << >>
    /\ writer' = IF ok THEN "ok" ELSE "failed"
    /\ UNCHANGED << vars, sendVars, fin_wire, data_q, taken, rx >>

\* run_rudp returns the writer's error at once, or waits for the Receiver.
RxReturns ==
    /\ rx = "running"
    /\ writer = "failed" \/ (writer = "ok" /\ fin_seen)
    /\ rx' = writer
    /\ UNCHANGED << vars, sendVars, fin_wire, data_q, taken, writer >>

\* The network loses datagrams, as long as somebody reads the socket.
CliLose ==
    /\ rx = "running" /\ ~ fin_seen
    /\ \/ \E s \in Seqs : LoseData(s) /\ UNCHANGED fin_wire
       \/ fin_wire /\ fin_wire' = FALSE /\ UNCHANGED vars
    /\ UNCHANGED << sendVars, recvVars >>

\* The command that sends has returned; the other one may wait for a FIN.
CliOver == cli = "returned" /\ UNCHANGED allVars

CliNext ==
    \/ \E ok \in BOOLEAN : ReadDirectory(ok) \/ WriterTakes(ok) \/ WriterEnds(ok)
    \/ SendDirectory \/ Timeout \/ CliFin \/ CliReturn
    \/ \E tokens \in Budgets : CliProbe(tokens) \/ CliCommand(tokens)
    \/ \E s \in Seqs : CliRto(s) \/ CliReceive(s)
    \/ CliReceiveFin \/ RxReturns \/ CliLose \/ CliOver

CliSpec == CliInit /\ [][CliNext]_allVars

\* The tasks of the sending process and its timers are scheduled.  Nothing is
\* assumed of the network, of the receiving process, nor of the read half of
\* send_directory, which may block for ever (see ReaderPipeline).
CliLiveSpec ==
    /\ CliSpec
    /\ WF_allVars(SendDirectory) /\ WF_allVars(Timeout)
    /\ WF_allVars(CliFin) /\ WF_allVars(CliReturn)
    /\ WF_allVars(\E tokens \in Budgets : CliCommand(tokens))
    /\ WF_allVars(\E tokens \in Budgets : CliProbe(tokens))
    /\ \A s \in Seqs : WF_allVars(CliRto(s))

-----------------------------------------------------------------------------
\* Without SACKs the window never drains: once something was enqueued the
\* sender's loop does not end by itself, whatever has been delivered.
NeverDrains == sender.next_seq > 0 => ~ sender.done

\* A receiving command that succeeds has written what its Receiver took off the
\* network: the FIN that ends the Receiver overtakes nothing in the channel, and
\* no payload is dropped or fails unnoticed.
OkMeansAllTaken == rx = "ok" => delivered \subseteq taken

\* Once the directory has been read, the command that sends returns, although
\* the sender's loop does not.
CommandReturns == cli = "io" ~> cli = "returned"

\* A receiving command that returns without an error, when the sender has taken
\* all its commands and what it put on the network has arrived or was lost, has
\* been given all that the sender was asked to send.
ReceivesAll == rx = "ok" /\ sender.shutdown /\ wire = {} => Sent \subseteq taken
=============================================================================
