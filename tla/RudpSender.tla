----------------------------- MODULE RudpSender -----------------------------
(***************************************************************************)
(* The Sender task of crates/protocol/src/sender.rs.                       *)
(*                                                                         *)
(* One iteration of Sender::run is one step: a branch of the select (probe *)
(* timer, SACK, command), then pacer.refill, send_batch and the exit test. *)
(* The operators below take the sender's state as a record and return the  *)
(* state, or the set of states, that the code may leave it in.             *)
(*                                                                         *)
(* A retransmit queue is a SegQueue, which has no limit and may hold an    *)
(* entry many times.  It is modelled by the set of in-flight entries in    *)
(* it: a pop takes any of them and may leave a copy behind.  That allows   *)
(* every order a FIFO can have, the rotation of an entry that finds no     *)
(* tokens included, and needs no bound on the length.  Entries that are no *)
(* longer in flight, which a pop skips, leave the set at once.             *)
(***************************************************************************)
EXTENDS Sack, Sequences, FiniteSets

CONSTANTS
    MaxSeq,        \* bound: datagrams enqueued in one session
    BATCH_SIZE,    \* datagrams per sendmmsg call
    TokenCap       \* datagrams that a full token bucket lets through

ASSUME SenderAssumption == /\ MaxSeq \in Nat
                           /\ BATCH_SIZE \in Nat \ {0}
                           /\ TokenCap \in Nat \ {0}

Seqs == 0 .. (MaxSeq - 1)

VARIABLE sender

(***************************************************************************)
(* in_flight  keys of the HashMap                                          *)
(* naked      the entries whose nak_count is 1 (it is never left at 2)     *)
(* due        the entries whose last_sent is more than one RTO ago         *)
(* urgent, normal   the two retransmit queues                              *)
(* shutdown   the local shutdown_requested; done: run has returned         *)
(***************************************************************************)
SenderState == [next_seq  : 0 .. MaxSeq,
                in_flight : SUBSET Seqs,
                naked     : SUBSET Seqs,
                due       : SUBSET Seqs,
                urgent    : SUBSET Seqs,
                normal    : SUBSET Seqs,
                shutdown  : BOOLEAN,
                done      : BOOLEAN]

SenderInit ==
    sender = [next_seq |-> 0, in_flight |-> {}, naked |-> {}, due |-> {},
              urgent |-> {}, normal |-> {},
              shutdown |-> FALSE, done |-> FALSE]

\* TokenBucket::refill and try_consume: how many datagrams the bucket lets
\* through in one iteration, depending on the rate and the time since the last.
Budgets == 0 .. TokenCap

\* Faulty variant: the base itself, the first missing one, counts as received.
process_sack_base_acked(st, sack) ==
    LET left == {s \in st.in_flight : s # sack.base_seq /\ ~ is_received(sack, s)}
    IN  [st EXCEPT !.in_flight = left, !.naked = left \ @, !.due = @ \cap left,
                   !.urgent = (@ \cup st.naked) \cap left,
                   !.normal = (@ \cap left) \cup (left \ st.naked)]

\* Faulty variant: the second NAK neither queues the entry nor resets its count.
process_sack_first_nak_only(st, sack) ==
    LET left == {s \in st.in_flight : ~ is_received(sack, s)}
    IN  [st EXCEPT !.in_flight = left, !.naked = left, !.due = @ \cap left,
                   !.urgent = @ \cap left,
                   !.normal = (@ \cap left) \cup (left \ st.naked)]

\* Faulty variant: only the bitmap acknowledges, the cumulative base does not.
process_sack_bitmap_only(st, sack) ==
    LET left == {s \in st.in_flight : s < sack.base_seq \/ ~ is_received(sack, s)}
    IN  [st EXCEPT !.in_flight = left, !.naked = left \ @, !.due = @ \cap left,
                   !.urgent = (@ \cup st.naked) \cap left,
                   !.normal = (@ \cap left) \cup (left \ st.naked)]

\* Acknowledged entries leave in_flight.  Every other entry is NAKed, whether
\* it was ever sent or not: the first time it joins the normal queue, the
\* second time the urgent one and its count is reset.
process_sack(st, sack) ==
    LET left == {s \in st.in_flight : ~ is_received(sack, s)}
    IN  [st EXCEPT !.in_flight = left,
                   !.naked     = left \ @,
                   !.due       = @ \cap left,
                   !.urgent    = (@ \cup st.naked) \cap left,
                   !.normal    = (@ \cap left) \cup (left \ st.naked)]

\* A payload becomes n datagrams (n = 0 for an empty one).  last_sent is set
\* one second back, which is past the RTO (200 ms unless PONGs raise it).
enqueue_data(st, n) ==
    LET new == st.next_seq .. (st.next_seq + n - 1)
    IN  [st EXCEPT !.in_flight = @ \cup new,
                   !.due       = @ \cup new,
                   !.next_seq  = @ + n]

\* Pop from a retransmit queue until the batch is full, the queue is empty or
\* the tokens are gone.  An entry may be popped twice, so the number of pops
\* that found tokens may exceed the number of entries sent.
Drain(q, tokens, room) ==
    LET most == IF tokens < room THEN tokens ELSE room
        Popped(x) == [sent : {x},
                      used : IF x = {} THEN {0} ELSE Cardinality(x) .. most,
                      rest : {(q \ x) \cup y : y \in SUBSET x}]
    IN  {d \in UNION {Popped(x) : x \in SUBSET q} : d.used = most \/ d.rest = {}}

\* send_batch in three parts: urgent retransmits, then normal ones, ...
Urgent(st, tokens) == Drain(st.urgent, tokens, BATCH_SIZE)

Normal(st, tokens, u) == Drain(st.normal, tokens - u.used, BATCH_SIZE - u.used)

\* ... then entries past the RTO with no NAK outstanding, in the order of the
\* HashMap, as many as the batch and the tokens allow.
Fresh(st, tokens, u, n) ==
    LET cand == (st.due \ (u.sent \cup n.sent)) \ st.naked
        left == {tokens - u.used - n.used, BATCH_SIZE - u.used - n.used}
    IN  {f \in SUBSET cand : /\ \A k \in left : Cardinality(f) <= k
                             /\ f = cand \/ Cardinality(f) \in left}

\* The queues and the times of sending after the three parts.
send_batch(st, u, n, f) ==
    [st EXCEPT !.urgent = u.rest,
               !.normal = n.rest,
               !.due    = @ \ (u.sent \cup n.sent \cup f)]

\* Faulty variant: the loop ends once both retransmit queues are empty.
exit_test_queues(st) ==
    [st EXCEPT !.done = st.shutdown /\ st.urgent = {} /\ st.normal = {}]

\* The exit test at the bottom of the loop.
exit_test(st) ==
    [st EXCEPT !.done = st.shutdown /\ st.in_flight = {}]
=============================================================================
