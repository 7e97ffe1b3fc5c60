---------------------------- MODULE RudpSession -----------------------------
(***************************************************************************)
(* One RUDP session: the Sender and the Receiver tasks, the channel that   *)
(* carries SACKs from one to the other (the sack_tx / sack_rx pair of      *)
(* Sender::new and Receiver::new), and a network that loses, duplicates    *)
(* and reorders datagrams.  The owner of the session sends FIN when it     *)
(* thinks fit, after Sender::run has returned or after a timeout, so that  *)
(* a FIN may arrive at any time (RudpCli models the owner).                *)
(***************************************************************************)
EXTENDS RudpSender, RudpReceiver

CONSTANTS
    MaxChunk,      \* bound: datagrams that one SendChunk is split into
    SackCap        \* capacity of the SACK channel (512 in the code)

ASSUME SessionAssumption == /\ MaxChunk \in Nat
                            /\ SackCap \in Nat \ {0}

VARIABLES
    wire,          \* DATA datagrams in the network
    sack_ch        \* SACKs between the receiver and the sender

vars == << sender, payload, delivered, fin_seen, wire, sack_ch >>

Init ==
    /\ SenderInit
    /\ ReceiverInit
    /\ wire = {}
    /\ sack_ch = << >>

-----------------------------------------------------------------------------
(* The sender's loop.                                                      *)

\* The batch goes to the network; what the call leaves unsent counts as lost.
send_batch_sendmmsg(batch) == wire' = wire \cup batch

\* The tail of every iteration: refill, send_batch, exit test.
LoopTail(st, tokens) ==
    \E u \in Urgent(st, tokens) : \E n \in Normal(st, tokens, u) : \E f \in Fresh(st, tokens, u, n) :
        /\ sender' = exit_test(send_batch(st, u, n, f))
        /\ send_batch_sendmmsg(u.sent \cup n.sent \cup f)
        /\ UNCHANGED receiverVars

\* The probe timer only changes the pacer's rate, see Congestion.
ProbeStep(tokens) ==
    /\ ~ sender.done
    /\ LoopTail(sender, tokens)
    /\ UNCHANGED sack_ch

SackStep(tokens) ==
    /\ ~ sender.done
    /\ sack_ch # << >>
    /\ LoopTail(process_sack(sender, Head(sack_ch)), tokens)
    /\ sack_ch' = Tail(sack_ch)

\* The select is biased: a command is taken only when no SACK is waiting.
ChunkStep(tokens) ==
    /\ ~ sender.done
    /\ sack_ch = << >>
    /\ ~ sender.shutdown
    /\ \E n \in 0 .. MaxChunk :
          /\ sender.next_seq + n <= MaxSeq
          /\ LoopTail(enqueue_data(sender, n), tokens)
    /\ UNCHANGED sack_ch

\* Shutdown is the last command that the I/O engine sends.
ShutdownStep(tokens) ==
    /\ ~ sender.done
    /\ sack_ch = << >>
    /\ ~ sender.shutdown
    /\ LoopTail([sender EXCEPT !.shutdown = TRUE], tokens)
    /\ UNCHANGED sack_ch

\* Time passes: one RTO has gone by since the entry was last sent.
RtoElapse(s) ==
    /\ ~ sender.done
    /\ s \in sender.in_flight \ sender.due
    /\ sender' = [sender EXCEPT !.due = @ \cup {s}]
    /\ UNCHANGED << receiverVars, wire, sack_ch >>

-----------------------------------------------------------------------------
(* The receiver's loop.                                                    *)

\* try_send: a SACK that finds the channel full is dropped.
try_send(sack) ==
    IF Len(sack_ch) < SackCap THEN Append(sack_ch, sack) ELSE sack_ch

Heartbeat ==
    /\ ~ fin_seen
    /\ sack_ch' = try_send(payload)
    /\ UNCHANGED << sender, receiverVars, wire >>

\* What a call of recvmmsg may hand over, one datagram at a time, in any order.
recv_batch_recvmmsg == wire

\* The datagram stays in the network: it may arrive again.
ReceiveData(s) ==
    /\ s \in recv_batch_recvmmsg
    /\ process_data(s)
    /\ UNCHANGED << sender, wire, sack_ch >>

\* The first FIN ends the loop; one last SACK is sent.
ReceiveFin ==
    /\ process_fin
    /\ sack_ch' = try_send(payload)
    /\ UNCHANGED << sender, wire >>

-----------------------------------------------------------------------------
(* The network.                                                            *)

LoseData(s) ==
    /\ s \in wire
    /\ wire' = wire \ {s}
    /\ UNCHANGED << sender, receiverVars, sack_ch >>

-----------------------------------------------------------------------------
\* Both tasks have returned: the session is over.
SessionOver == sender.done /\ fin_seen /\ UNCHANGED vars

SenderStep(tokens) ==
    ProbeStep(tokens) \/ SackStep(tokens) \/ ChunkStep(tokens) \/ ShutdownStep(tokens)

Next ==
    \/ \E tokens \in Budgets : SenderStep(tokens)
    \/ \E s \in Seqs : RtoElapse(s) \/ ReceiveData(s) \/ LoseData(s)
    \/ Heartbeat \/ ReceiveFin \/ SessionOver

Spec == Init /\ [][Next]_vars

(***************************************************************************)
(* Fairness.  The probe timer alone makes iterations recur, and what they  *)
(* leave in the bucket stays in it, so iterations with tokens for at least *)
(* one datagram recur, whichever branch they take and whatever they find   *)
(* in the queues; a SACK that waits is taken, with or without tokens; the  *)
(* heartbeat and the RTO are timers; and a datagram that is sent again and *)
(* again gets through some time.                                           *)
(***************************************************************************)
Fairness ==
    /\ WF_vars(\E tokens \in Budgets \ {0} : SenderStep(tokens))
    /\ WF_vars(\E tokens \in Budgets : SackStep(tokens))
    /\ WF_vars(Heartbeat)
    /\ \A s \in Seqs : WF_vars(RtoElapse(s)) /\ SF_vars(ReceiveData(s))

LiveSpec == Spec /\ Fairness

-----------------------------------------------------------------------------
(* Properties.                                                             *)

\* The state of both tasks stays well formed: queues of known sequence
\* numbers, NAK and RTO marks on in-flight entries only, a bitmap inside its
\* window, a SACK channel within its capacity.
TypeOK ==
    /\ sender \in SenderState
    /\ sender.naked \subseteq sender.in_flight
    /\ sender.due \subseteq sender.in_flight
    /\ sender.urgent \cup sender.normal \subseteq sender.in_flight
    /\ payload \in SackPayload
    /\ delivered \in SUBSET Seqs
    /\ fin_seen \in BOOLEAN
    /\ wire \in SUBSET Seqs
    /\ sack_ch \in Seq(SackPayload)
    /\ Len(sack_ch) <= SackCap

\* Sequence numbers that the sender has given out.
Sent == 0 .. (sender.next_seq - 1)

\* A SACK acknowledges only what the application has been given.
Truthful(p) == \A s \in Seqs : is_received(p, s) => s \in delivered

\* No datagram is forgotten: process_sack removes an entry from in_flight only
\* when the receiver has handed that datagram over, whatever was lost,
\* duplicated, reordered or acknowledged by an outdated SACK.
NoLoss == \A s \in Sent : s \in sender.in_flight \/ s \in delivered

\* Sender::run returns only when the application at the other end has been
\* given everything that was enqueued: the exit test looks at in_flight alone,
\* which outdated SACKs must not have emptied.  A FIN gives no such promise.
CleanShutdown == sender.done => Sent \subseteq delivered

\* The base of the bitmap never claims a sequence number that was not sent,
\* and the SACKs in the channel are no newer than the bitmap.
BaseBounded ==
    /\ payload.base_seq <= sender.next_seq
    /\ \A i \in DOMAIN sack_ch : sack_ch[i].base_seq <= payload.base_seq

\* What has been acknowledged stays acknowledged: no step makes the bitmap
\* forget a sequence number or move its base back.
AckedForever ==
    [][/\ payload.base_seq <= payload'.base_seq
       /\ \A s \in Seqs : is_received(payload, s) => is_received(payload', s)]_vars

-----------------------------------------------------------------------------
(* The inductive invariant behind the safety properties.                   *)

\* Nothing in flight, in the network or handed over was not sent.
OnlySent ==
    /\ sender.in_flight \subseteq Sent
    /\ wire \subseteq Sent
    /\ delivered \subseteq Sent

\* What a SACK says is true of the application, and it claims nothing at or
\* beyond next_seq.
SackSound(p) ==
    /\ Truthful(p)
    /\ p.base_seq <= sender.next_seq
    /\ \A k \in p.bits : p.base_seq + k < sender.next_seq

\* run returns after Shutdown and with an empty window only.
EndOrder == sender.done => sender.shutdown /\ sender.in_flight = {}

IndInv ==
    /\ TypeOK
    /\ NoLoss
    /\ OnlySent
    /\ SackSound(payload)
    /\ \A i \in DOMAIN sack_ch : SackSound(sack_ch[i])
    /\ BaseBounded
    /\ EndOrder

-----------------------------------------------------------------------------
(* The session implements a reliable transfer.                             *)

Transfer == INSTANCE ReliableTransfer WITH
                accepted <- sender.next_seq,
                handed   <- delivered,
                closed   <- sender.done,
                ended    <- fin_seen

\* Sender, receiver and SACK loop together behave like the abstract transfer.
ImplementsTransfer == Transfer!ASpec

-----------------------------------------------------------------------------
\* Whatever the network loses short of everything, and however often an entry
\* finds no tokens and goes back into its queue, each enqueued datagram is
\* handed to the application at the other end, unless a FIN ends the receiver
\* before.  Within one SACK window: see the README for what lies beyond.
EventuallyDelivered == \A s \in Seqs : s \in Sent ~> s \in delivered \/ fin_seen

\* After Shutdown the in-flight window drains and Sender::run returns, unless a
\* FIN has ended the receiver and with it the SACKs.
EventuallyDrained == sender.shutdown ~> sender.done \/ fin_seen
=============================================================================
