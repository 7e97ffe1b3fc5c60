---------------------------- MODULE Rudp_proofs -----------------------------
(***************************************************************************)
(* Proofs about RudpSession, for every window, batch, bucket and channel   *)
(* size and every number of datagrams, and about RudpCli, which extends it *)
(* to the commands without --direct, for every directory: the sender's     *)
(* window never drains, and a receiving command that succeeds has written  *)
(* what its Receiver took.                                                 *)
(***************************************************************************)
EXTENDS RudpCli, FiniteSetTheorems, NaturalsInduction, WellFoundedInduction, TLAPS

-----------------------------------------------------------------------------
(* The bitmap: what the operators of Sack preserve.                        *)

\* mark_received keeps the payload well formed, leaves the base alone and adds
\* at most the marked sequence number to what is received.
LEMMA MarkReceived ==
    ASSUME NEW p \in SackPayload, NEW seq \in Nat
    PROVE  /\ mark_received(p, seq) \in SackPayload
           /\ mark_received(p, seq).base_seq = p.base_seq
           /\ p.bits \subseteq mark_received(p, seq).bits
           /\ \A s \in Nat : is_received(p, s)
                                => is_received(mark_received(p, seq), s)
           /\ \A s \in Nat : is_received(mark_received(p, seq), s)
                                => is_received(p, s) \/ s = seq
<1>. USE SackWindowAssumption
<1>1. CASE seq < p.base_seq \/ seq - p.base_seq >= SACK_WINDOW
  BY <1>1 DEF mark_received
<1>2. CASE ~ (seq < p.base_seq \/ seq - p.base_seq >= SACK_WINDOW)
  <2>1. p.base_seq \in Nat /\ p.bits \subseteq Offsets
    BY DEF SackPayload
  <2>2. mark_received(p, seq) = [base_seq |-> p.base_seq,
                                 bits |-> p.bits \cup {seq - p.base_seq}]
    BY <1>2 DEF mark_received, SackPayload
  <2>3. seq - p.base_seq \in Offsets
    BY <1>2, <2>1 DEF Offsets
  <2>. QED
    BY <2>1, <2>2, <2>3 DEF SackPayload, is_received
<1>. QED
  BY <1>1, <1>2

\* The search of on_packet_received ends: a payload always has a first gap,
\* at the latest one past its window.
LEMMA FirstGap ==
    ASSUME NEW p \in SackPayload
    PROVE  /\ first_gap(p) \in p.base_seq .. (p.base_seq + SACK_WINDOW)
           /\ IsFirstGap(p, first_gap(p))
<1>. USE SackWindowAssumption
<1>0. p.base_seq \in Nat /\ p.bits \subseteq Offsets
  BY DEF SackPayload
<1>. DEFINE G == {n \in Nat : n >= p.base_seq /\ ~ is_received(p, n)}
<1>1. p.base_seq + SACK_WINDOW \in G
  BY <1>0 DEF is_received
<1>2. PICK n \in G : \A k \in G : << k, n >> \notin OpToRel(<, Nat)
  BY <1>1, WFMin, NatLessThanWellFounded, Zenon
<1>3. \A k \in G : ~ (k < n)
  BY <1>2, Zenon DEF OpToRel
<1>4. n \in p.base_seq .. (p.base_seq + SACK_WINDOW)
  BY <1>0, <1>1, <1>3
<1>5. IsFirstGap(p, n)
  BY <1>0, <1>3 DEF IsFirstGap
<1>. QED
  BY <1>4, <1>5 DEF first_gap

\* Sliding the base over received sequence numbers changes nothing about what
\* is received.
LEMMA AdvanceBase ==
    ASSUME NEW p \in SackPayload, NEW n \in Nat,
           \A m \in p.base_seq .. (n - 1) : is_received(p, m)
    PROVE  /\ advance_base(p, n) \in SackPayload
           /\ advance_base(p, n).base_seq >= p.base_seq
           /\ \A s \in Nat : is_received(advance_base(p, n), s) <=> is_received(p, s)
<1>. USE SackWindowAssumption
<1>0. p.base_seq \in Nat /\ p.bits \subseteq Offsets
  BY DEF SackPayload
<1>1. CASE n <= p.base_seq
  BY <1>0, <1>1 DEF advance_base
<1>2. CASE n > p.base_seq
  <2>. DEFINE q == advance_base(p, n)
  <2>1. q = [base_seq |-> n,
             bits |-> {k \in Offsets : k + (n - p.base_seq) \in p.bits}]
    BY <1>0, <1>2 DEF advance_base
  <2>2. q \in SackPayload
    BY <2>1 DEF SackPayload
  <2>3. ASSUME NEW s \in Nat
        PROVE  is_received(q, s) <=> is_received(p, s)
    <3>. HIDE DEF q
    <3>1. CASE s < p.base_seq
      BY <3>1, <2>1, <1>0, <1>2 DEF is_received
    <3>2. CASE s >= p.base_seq /\ s < n
      <4>1. s \in p.base_seq .. (n - 1)
        BY <3>2, <1>0
      <4>. QED
        BY <4>1, <3>2, <2>1 DEF is_received
    <3>3. CASE s >= n
      <4>1. is_received(q, s) <=> (s - n) \in q.bits
        BY <3>3, <2>1 DEF is_received, Offsets
      <4>2. is_received(p, s) <=> (s - p.base_seq) \in p.bits
        BY <3>3, <1>0, <1>2 DEF is_received, Offsets
      <4>3. (s - n) + (n - p.base_seq) = s - p.base_seq
        BY <1>0
      <4>4. (s - p.base_seq) \in p.bits => (s - n) \in Offsets
        BY <1>0, <1>2, <3>3 DEF Offsets
      <4>. QED
        BY <4>1, <4>2, <4>3, <4>4, <2>1
    <3>. QED
      BY <3>1, <3>2, <3>3, <1>0
  <2>. QED
    BY <2>1, <2>2, <2>3, <1>2, <1>0
<1>. QED
  BY <1>0, <1>1, <1>2

\* An arrival keeps everything that was received, adds at most the arrived
\* sequence number, and never moves the base back.
LEMMA OnPacketReceived ==
    ASSUME NEW p \in SackPayload, NEW seq \in Nat
    PROVE  /\ on_packet_received(p, seq) \in SackPayload
           /\ p.base_seq <= on_packet_received(p, seq).base_seq
           /\ \A s \in Nat : is_received(p, s)
                                => is_received(on_packet_received(p, seq), s)
           /\ \A s \in Nat : is_received(on_packet_received(p, seq), s)
                                => is_received(p, s) \/ s = seq
<1>. DEFINE q == mark_received(p, seq)
            n == first_gap(q)
<1>1. /\ q \in SackPayload
      /\ q.base_seq = p.base_seq
      /\ \A s \in Nat : is_received(p, s) => is_received(q, s)
      /\ \A s \in Nat : is_received(q, s) => is_received(p, s) \/ s = seq
  BY MarkReceived
<1>2. q.base_seq \in Nat
  BY <1>1 DEF SackPayload
<1>3. n \in Nat /\ \A m \in q.base_seq .. (n - 1) : is_received(q, m)
  <2>. HIDE DEF q
  <2>. QED
    BY <1>1, <1>2, FirstGap, SackWindowAssumption DEF IsFirstGap
<1>4. /\ advance_base(q, n) \in SackPayload
      /\ advance_base(q, n).base_seq >= q.base_seq
      /\ \A s \in Nat : is_received(advance_base(q, n), s) <=> is_received(q, s)
  <2>. HIDE DEF q, n
  <2>. QED
    BY <1>1, <1>3, AdvanceBase
<1>5. on_packet_received(p, seq) = advance_base(q, n)
  BY DEF on_packet_received
<1>6. advance_base(q, n).base_seq \in Nat
  BY <1>4 DEF SackPayload
<1>. HIDE DEF q, n
<1>. QED
  BY <1>1, <1>2, <1>4, <1>5, <1>6

-----------------------------------------------------------------------------
(* The sender's operators.                                                 *)

\* Draining a retransmit queue sends entries of it and leaves entries of it.
LEMMA DrainType ==
    ASSUME NEW q, NEW tokens, NEW room, NEW d \in Drain(q, tokens, room)
    PROVE  d.sent \subseteq q /\ d.rest \subseteq q
<1>. DEFINE most == IF tokens < room THEN tokens ELSE room
            Popped(x) == [sent : {x},
                          used : IF x = {} THEN {0} ELSE Cardinality(x) .. most,
                          rest : {(q \ x) \cup y : y \in SUBSET x}]
<1>1. d \in UNION {Popped(x) : x \in SUBSET q}
  BY Zenon DEF Drain
<1>2. PICK x \in SUBSET q : d \in Popped(x)
  <2>. HIDE DEF Popped
  <2>. QED BY <1>1
<1>. QED
  BY <1>2

\* The batch sends in-flight entries only, and send_batch changes nothing but
\* the two queues and the times of sending.
LEMMA SendBatchType ==
    ASSUME NEW st \in SenderState, st.due \subseteq st.in_flight,
           st.urgent \cup st.normal \subseteq st.in_flight,
           NEW tokens, NEW u \in Urgent(st, tokens), NEW n \in Normal(st, tokens, u),
           NEW f \in Fresh(st, tokens, u, n)
    PROVE  /\ u.sent \cup n.sent \cup f \subseteq st.in_flight
           /\ send_batch(st, u, n, f) \in SenderState
           /\ send_batch(st, u, n, f).due \subseteq st.due
           /\ send_batch(st, u, n, f).urgent \cup send_batch(st, u, n, f).normal
                \subseteq st.in_flight
           /\ send_batch(st, u, n, f).in_flight = st.in_flight
           /\ send_batch(st, u, n, f).naked = st.naked
           /\ send_batch(st, u, n, f).next_seq = st.next_seq
           /\ send_batch(st, u, n, f).shutdown = st.shutdown
<1>1. u.sent \subseteq st.urgent /\ u.rest \subseteq st.urgent
  BY DrainType DEF Urgent
<1>2. n.sent \subseteq st.normal /\ n.rest \subseteq st.normal
  BY DrainType DEF Normal
<1>3. f \subseteq st.due
  BY DEF Fresh
<1>4. send_batch(st, u, n, f) = [st EXCEPT !.urgent = u.rest, !.normal = n.rest,
                                          !.due = st.due \ (u.sent \cup n.sent \cup f)]
  BY DEF send_batch
<1>5. send_batch(st, u, n, f) \in SenderState
  BY <1>1, <1>2, <1>4 DEF SenderState
<1>. QED
  BY <1>1, <1>2, <1>3, <1>4, <1>5 DEF SenderState

\* process_sack removes exactly the acknowledged entries.
LEMMA ProcessSackType ==
    ASSUME NEW st \in SenderState, NEW sack \in SackPayload
    PROVE  /\ process_sack(st, sack) \in SenderState
           /\ process_sack(st, sack).in_flight
                = {s \in st.in_flight : ~ is_received(sack, s)}
           /\ process_sack(st, sack).naked \subseteq process_sack(st, sack).in_flight
           /\ process_sack(st, sack).due \subseteq process_sack(st, sack).in_flight
           /\ process_sack(st, sack).urgent \cup process_sack(st, sack).normal
                \subseteq process_sack(st, sack).in_flight
           /\ process_sack(st, sack).next_seq = st.next_seq
           /\ process_sack(st, sack).shutdown = st.shutdown
<1>. DEFINE left == {s \in st.in_flight : ~ is_received(sack, s)}
<1>1. left \in SUBSET Seqs
  BY DEF SenderState
<1>2. process_sack(st, sack)
        = [st EXCEPT !.in_flight = left,
                     !.naked     = left \ st.naked,
                     !.due       = st.due \cap left,
                     !.urgent    = (st.urgent \cup st.naked) \cap left,
                     !.normal    = (st.normal \cap left) \cup (left \ st.naked)]
  BY DEF process_sack
<1>. HIDE DEF left
<1>3. process_sack(st, sack) \in SenderState
  BY <1>1, <1>2 DEF SenderState
<1>. QED
  BY <1>2, <1>3 DEF SenderState, left

-----------------------------------------------------------------------------
(* The inductive invariant.                                                *)

\* What the first half of a loop iteration leaves for LoopTail.
Ready(st) ==
    /\ st \in SenderState
    /\ st.naked \subseteq st.in_flight
    /\ st.due \subseteq st.in_flight
    /\ st.urgent \cup st.normal \subseteq st.in_flight
    /\ st.in_flight \subseteq 0 .. (st.next_seq - 1)
    /\ sender.next_seq <= st.next_seq
    /\ \A s \in 0 .. (st.next_seq - 1) : s \in st.in_flight \/ s \in delivered

LEMMA InitInv == Init => IndInv
<1>. SUFFICES ASSUME Init PROVE IndInv
  OBVIOUS
<1>. USE SenderAssumption, SessionAssumption, SackWindowAssumption
<1>1. sender \in SenderState
  BY DEF Init, SenderInit, SenderState
<1>2. payload \in SackPayload
  BY DEF Init, ReceiverInit, new_payload, SackPayload
<1>3. TypeOK
  <2>1. sender.naked = {} /\ sender.due = {} /\ sender.urgent = {} /\ sender.normal = {}
    BY DEF Init, SenderInit
  <2>2. /\ delivered = {} /\ fin_seen = FALSE /\ wire = {}
        /\ sack_ch = << >>
    BY DEF Init, ReceiverInit
  <2>3. fin_seen \in BOOLEAN
    BY <2>2
  <2>4. sack_ch \in Seq(SackPayload) /\ Len(sack_ch) <= SackCap
    BY <2>2
  <2>5. delivered \in SUBSET Seqs /\ wire \in SUBSET Seqs
    BY <2>2
  <2>. QED
    BY <1>1, <1>2, <2>1, <2>3, <2>4, <2>5 DEF TypeOK
<1>4. NoLoss /\ OnlySent /\ EndOrder
  BY DEF Init, SenderInit, ReceiverInit, NoLoss, OnlySent, EndOrder, Sent
<1>5. SackSound(payload) /\ BaseBounded
  BY DEF Init, SenderInit, ReceiverInit, new_payload, SackSound, Truthful,
         is_received, BaseBounded, Seqs
<1>6. \A i \in DOMAIN sack_ch : SackSound(sack_ch[i])
  BY DEF Init
<1>. QED
  BY <1>3, <1>4, <1>5, <1>6 DEF IndInv

\* A SACK that was sound stays sound while next_seq and delivered only grow.
LEMMA SackSoundStable ==
    ASSUME NEW p \in SackPayload, SackSound(p), TypeOK,
           sender'.next_seq \in Nat, sender.next_seq <= sender'.next_seq,
           delivered \subseteq delivered'
    PROVE  SackSound(p)'
<1>1. p.base_seq \in Nat /\ p.bits \subseteq Nat /\ sender.next_seq \in Nat
  BY SackWindowAssumption, SenderAssumption
     DEF SackPayload, Offsets, TypeOK, SenderState
<1>. QED
  BY <1>1 DEF SackSound, Truthful

\* One choice of what LoopTail pops from the queues and finds due.
Sends(st, u, n, f) ==
    /\ sender' = exit_test(send_batch(st, u, n, f))
    /\ send_batch_sendmmsg(u.sent \cup n.sent \cup f)
    /\ UNCHANGED receiverVars

\* The second half of an iteration preserves the invariant.
LEMMA LoopTailInv ==
    ASSUME IndInv, NEW st, Ready(st), NEW tokens, LoopTail(st, tokens),
           \/ sack_ch' = sack_ch
           \/ sack_ch # << >> /\ sack_ch' = Tail(sack_ch)
    PROVE  IndInv'
<1>. USE SenderAssumption
<1>0. TypeOK /\ NoLoss /\ OnlySent /\ BaseBounded /\ EndOrder
  BY DEF IndInv
<1>u. PICK u \in Urgent(st, tokens) :
        \E n \in Normal(st, tokens, u) : \E f \in Fresh(st, tokens, u, n) : Sends(st, u, n, f)
  BY DEF LoopTail, Sends
<1>n. PICK n \in Normal(st, tokens, u) : \E f \in Fresh(st, tokens, u, n) : Sends(st, u, n, f)
  BY <1>u
<1>f. PICK f \in Fresh(st, tokens, u, n) : Sends(st, u, n, f)
  BY <1>n
<1>1. /\ sender' = exit_test(send_batch(st, u, n, f))
      /\ wire' = wire \cup (u.sent \cup n.sent \cup f)
      /\ UNCHANGED receiverVars
  BY <1>f DEF Sends, send_batch_sendmmsg
<1>. DEFINE r == send_batch(st, u, n, f)
            batch == u.sent \cup n.sent \cup f
<1>2. /\ batch \subseteq st.in_flight
      /\ r \in SenderState
      /\ r.due \subseteq st.due
      /\ r.urgent \cup r.normal \subseteq st.in_flight
      /\ r.in_flight = st.in_flight
      /\ r.naked = st.naked
      /\ r.next_seq = st.next_seq
      /\ r.shutdown = st.shutdown
  BY SendBatchType DEF Ready
<1>a. wire' = wire \cup batch /\ sender' = exit_test(r)
  BY <1>1
<1>. HIDE DEF r, batch
<1>3. /\ sender' \in SenderState
      /\ sender'.due \subseteq st.due
      /\ sender'.urgent \cup sender'.normal \subseteq st.in_flight
      /\ sender'.in_flight = st.in_flight
      /\ sender'.naked = st.naked
      /\ sender'.next_seq = st.next_seq
      /\ sender'.shutdown = st.shutdown
      /\ sender'.done = (st.shutdown /\ st.in_flight = {})
  <2>1. sender' = [r EXCEPT !.done = (r.shutdown /\ r.in_flight = {})]
    BY <1>a DEF exit_test
  <2>2. (r.shutdown /\ r.in_flight = {}) \in BOOLEAN
    OBVIOUS
  <2>. QED
    BY <1>2, <2>1, <2>2 DEF SenderState
<1>4. /\ payload' = payload /\ delivered' = delivered /\ fin_seen' = fin_seen
  BY <1>1 DEF receiverVars
<1>5. /\ sack_ch' \in Seq(SackPayload)
      /\ Len(sack_ch') <= SackCap
      /\ \A i \in DOMAIN sack_ch' : \E j \in DOMAIN sack_ch : sack_ch'[i] = sack_ch[j]
  <2>1. CASE sack_ch' = sack_ch
    BY <2>1, <1>0 DEF TypeOK
  <2>2. CASE sack_ch # << >> /\ sack_ch' = Tail(sack_ch)
    <3>1. sack_ch \in Seq(SackPayload) /\ Len(sack_ch) <= SackCap
      BY <1>0 DEF TypeOK
    <3>2. /\ Len(sack_ch') = Len(sack_ch) - 1
          /\ sack_ch' \in Seq(SackPayload)
          /\ \A i \in 1 .. Len(sack_ch') : /\ sack_ch'[i] = sack_ch[i + 1]
                                          /\ i + 1 \in 1 .. Len(sack_ch)
      BY <2>2, <3>1
    <3>. QED
      BY <3>1, <3>2, SessionAssumption
  <2>. QED
    BY <2>1, <2>2
<1>6. TypeOK'
  <2>1. wire' \in SUBSET Seqs
    BY <1>0, <1>a, <1>2 DEF TypeOK, Ready, SenderState
  <2>. QED
    BY <1>0, <1>3, <1>4, <1>5, <2>1 DEF TypeOK, Ready
<1>7. NoLoss'
  BY <1>3, <1>4 DEF NoLoss, Sent, Ready
<1>8. OnlySent'
  <2>1. sender.next_seq \in Nat /\ st.next_seq \in Nat
    BY <1>0 DEF TypeOK, SenderState, Ready
  <2>2. sender.next_seq <= st.next_seq /\ st.in_flight \subseteq 0 .. (st.next_seq - 1)
    BY DEF Ready
  <2>3. 0 .. (sender.next_seq - 1) \subseteq 0 .. (st.next_seq - 1)
    BY <2>1, <2>2
  <2>. QED
    BY <1>0, <1>a, <1>2, <1>3, <1>4, <2>2, <2>3 DEF OnlySent, Sent
<1>9. \A p \in SackPayload : SackSound(p) => SackSound(p)'
  BY <1>0, <1>3, <1>4, SackSoundStable DEF Ready, SenderState
<1>10. SackSound(payload)'
  BY <1>0, <1>4, <1>9 DEF IndInv, TypeOK, SackSound, Truthful
<1>11. (\A i \in DOMAIN sack_ch : SackSound(sack_ch[i]))'
  <2>. SUFFICES ASSUME NEW i \in DOMAIN sack_ch' PROVE SackSound(sack_ch[i])'
    OBVIOUS
  <2>1. PICK j \in DOMAIN sack_ch : sack_ch'[i] = sack_ch[j]
    BY <1>5
  <2>2. SackSound(sack_ch[j]) /\ sack_ch[j] \in SackPayload
    BY <1>0 DEF IndInv, TypeOK
  <2>. QED
    BY <1>9, <2>1, <2>2 DEF SackSound, Truthful
<1>12. BaseBounded'
  <2>1. sender.next_seq \in Nat /\ st.next_seq \in Nat /\ payload.base_seq \in Nat
    BY <1>0 DEF TypeOK, SenderState, Ready, SackPayload
  <2>2. \A i \in DOMAIN sack_ch' : sack_ch'[i].base_seq <= payload.base_seq
    BY <1>0, <1>5 DEF BaseBounded
  <2>. QED
    BY <1>0, <1>3, <1>4, <2>1, <2>2 DEF BaseBounded, Ready
<1>13. EndOrder'
  BY <1>3, <1>4 DEF EndOrder, Ready
<1>. QED
  BY <1>6, <1>7, <1>8, <1>10, <1>11, <1>12, <1>13 DEF IndInv

\* Adding to the channel what try_send may add keeps every SACK in it sound.
LEMMA TrySendInv ==
    ASSUME IndInv
    PROVE  /\ try_send(payload) \in Seq(SackPayload)
           /\ Len(try_send(payload)) <= SackCap
           /\ \A i \in DOMAIN try_send(payload) :
                 \/ try_send(payload)[i] = payload
                 \/ \E j \in DOMAIN sack_ch : try_send(payload)[i] = sack_ch[j]
<1>1. sack_ch \in Seq(SackPayload) /\ Len(sack_ch) <= SackCap /\ payload \in SackPayload
  BY DEF IndInv, TypeOK
<1>2. CASE Len(sack_ch) < SackCap
  <2>1. try_send(payload) = Append(sack_ch, payload)
    BY <1>2 DEF try_send
  <2>. QED
    BY <1>1, <1>2, <2>1, SessionAssumption
<1>3. CASE ~ (Len(sack_ch) < SackCap)
  BY <1>1, <1>3 DEF try_send
<1>. QED
  BY <1>2, <1>3

\* Every step of the session preserves the invariant.
LEMMA StepInv == IndInv /\ [Next]_vars => IndInv'
<1>. SUFFICES ASSUME IndInv, [Next]_vars PROVE IndInv'
  OBVIOUS
<1>. USE SenderAssumption
<1>0. TypeOK /\ NoLoss /\ OnlySent /\ BaseBounded /\ EndOrder
  BY DEF IndInv
<1>a. /\ sender \in SenderState /\ sender.next_seq \in Nat
      /\ payload \in SackPayload /\ payload.base_seq \in Nat
  BY <1>0 DEF TypeOK, SenderState, SackPayload
<1>1. ASSUME NEW tokens \in 0 .. TokenCap, ProbeStep(tokens)
      PROVE  IndInv'
  <2>1. Ready(sender)
    BY <1>0, <1>1, <1>a DEF Ready, ProbeStep, TypeOK, NoLoss, OnlySent, EndOrder, Sent
  <2>. QED
    BY <1>1, <2>1, LoopTailInv DEF ProbeStep
<1>2. ASSUME NEW tokens \in 0 .. TokenCap, SackStep(tokens)
      PROVE  IndInv'
  <2>. DEFINE sack == Head(sack_ch)
              st == process_sack(sender, sack)
  <2>1. LoopTail(st, tokens)
    BY <1>2 DEF SackStep
  <2>2. sack \in SackPayload /\ SackSound(sack)
    <3>1. sack_ch \in Seq(SackPayload) /\ sack_ch # << >>
      BY <1>0, <1>2 DEF TypeOK, SackStep
    <3>2. 1 \in DOMAIN sack_ch /\ sack = sack_ch[1]
      BY <3>1
    <3>. QED
      BY <3>1, <3>2 DEF IndInv
  <2>. HIDE DEF sack
  <2>3. /\ st \in SenderState
        /\ st.in_flight = {s \in sender.in_flight : ~ is_received(sack, s)}
        /\ st.naked \subseteq st.in_flight
        /\ st.due \subseteq st.in_flight
        /\ st.urgent \cup st.normal \subseteq st.in_flight
        /\ st.next_seq = sender.next_seq
    BY <1>0, <2>2, ProcessSackType DEF TypeOK
  <2>. HIDE DEF st
  <2>4. ASSUME NEW s \in 0 .. (st.next_seq - 1)
        PROVE  s \in st.in_flight \/ s \in delivered
    <3>1. s \in Seqs
      BY <1>a, <2>3 DEF Seqs, SenderState
    <3>2. s \in sender.in_flight \/ s \in delivered
      BY <1>0, <2>3 DEF NoLoss, Sent
    <3>3. is_received(sack, s) => s \in delivered
      BY <2>2, <3>1 DEF SackSound, Truthful
    <3>. QED
      BY <2>3, <3>2, <3>3
  <2>5. Ready(st)
    BY <1>0, <1>2, <1>a, <2>3, <2>4 DEF Ready, SackStep, TypeOK, OnlySent, EndOrder, Sent
  <2>. QED
    BY <1>2, <2>1, <2>5, LoopTailInv DEF SackStep
<1>3. ASSUME NEW tokens \in 0 .. TokenCap, ChunkStep(tokens)
      PROVE  IndInv'
  <2>1. PICK n \in 0 .. MaxChunk :
          /\ sender.next_seq + n <= MaxSeq
          /\ LoopTail(enqueue_data(sender, n), tokens)
    BY <1>3 DEF ChunkStep
  <2>. DEFINE st == enqueue_data(sender, n)
              new == sender.next_seq .. (sender.next_seq + n - 1)
  <2>2. n \in Nat
    BY SessionAssumption
  <2>3. new \subseteq Seqs
    BY <1>a, <2>1, <2>2 DEF Seqs
  <2>4. st = [sender EXCEPT !.in_flight = sender.in_flight \cup new,
                            !.due = sender.due \cup new,
                            !.next_seq = sender.next_seq + n]
    BY DEF enqueue_data
  <2>5. sender.next_seq + n \in 0 .. MaxSeq
    BY <1>a, <2>1, <2>2
  <2>. HIDE DEF st, new
  <2>6. /\ st \in SenderState
        /\ st.in_flight = sender.in_flight \cup new
        /\ st.due = sender.due \cup new
        /\ st.naked = sender.naked
        /\ st.urgent = sender.urgent /\ st.normal = sender.normal
        /\ st.next_seq = sender.next_seq + n
    BY <1>a, <2>3, <2>4, <2>5 DEF SenderState
  <2>7. \A s \in 0 .. (st.next_seq - 1) : s \in Sent \/ s \in new
    BY <1>a, <2>2, <2>6 DEF Sent, new
  <2>8. new \subseteq 0 .. (st.next_seq - 1) /\ Sent \subseteq 0 .. (st.next_seq - 1)
    BY <1>a, <2>2, <2>6 DEF Sent, new
  <2>9. Ready(st)
    <3>2. /\ st.naked \subseteq st.in_flight /\ st.due \subseteq st.in_flight
          /\ st.urgent \cup st.normal \subseteq st.in_flight
      BY <1>0, <2>6 DEF TypeOK
    <3>3. st.in_flight \subseteq 0 .. (st.next_seq - 1)
      BY <1>0, <2>6, <2>8 DEF OnlySent
    <3>4. \A s \in 0 .. (st.next_seq - 1) : s \in st.in_flight \/ s \in delivered
      BY <1>0, <2>6, <2>7 DEF NoLoss
    <3>5. sender.next_seq <= st.next_seq
      BY <1>a, <2>2, <2>6
    <3>. QED
      BY <2>6, <3>2, <3>3, <3>4, <3>5 DEF Ready
  <2>10. LoopTail(st, tokens)
    BY <2>1 DEF st
  <2>. QED
    BY <1>3, <2>9, <2>10, LoopTailInv DEF ChunkStep
<1>4. ASSUME NEW tokens \in 0 .. TokenCap, ShutdownStep(tokens)
      PROVE  IndInv'
  <2>. DEFINE st == [sender EXCEPT !.shutdown = TRUE]
  <2>1. /\ st \in SenderState
        /\ st.in_flight = sender.in_flight
        /\ st.due = sender.due
        /\ st.naked = sender.naked
        /\ st.urgent = sender.urgent /\ st.normal = sender.normal
        /\ st.next_seq = sender.next_seq
    BY <1>a DEF SenderState
  <2>2. LoopTail(st, tokens)
    BY <1>4 DEF ShutdownStep
  <2>. HIDE DEF st
  <2>3. Ready(st)
    BY <1>0, <1>4, <1>a, <2>1 DEF Ready, ShutdownStep, TypeOK, NoLoss, OnlySent, EndOrder, Sent
  <2>. QED
    BY <1>4, <2>2, <2>3, LoopTailInv DEF ShutdownStep
<1>5. ASSUME NEW s \in Seqs, RtoElapse(s)
      PROVE  IndInv'
  <2>1. sender' = [sender EXCEPT !.due = sender.due \cup {s}]
    BY <1>5 DEF RtoElapse
  <2>2. UNCHANGED << payload, delivered, fin_seen, wire, sack_ch >>
    BY <1>5 DEF RtoElapse, receiverVars
  <2>3. /\ sender' \in SenderState
        /\ sender'.due = sender.due \cup {s}
        /\ sender'.in_flight = sender.in_flight
        /\ sender'.naked = sender.naked
        /\ sender'.urgent = sender.urgent /\ sender'.normal = sender.normal
        /\ sender'.next_seq = sender.next_seq
        /\ sender'.shutdown = sender.shutdown
        /\ sender'.done = sender.done
    BY <1>a, <2>1 DEF SenderState
  <2>4. TypeOK'
    BY <1>0, <1>5, <2>2, <2>3 DEF TypeOK, RtoElapse
  <2>5. NoLoss' /\ OnlySent' /\ BaseBounded' /\ EndOrder'
    BY <1>0, <2>2, <2>3 DEF NoLoss, OnlySent, BaseBounded, EndOrder, Sent
  <2>6. SackSound(payload)' /\ (\A i \in DOMAIN sack_ch : SackSound(sack_ch[i]))'
    BY <2>2, <2>3 DEF IndInv, SackSound, Truthful
  <2>. QED
    BY <2>4, <2>5, <2>6 DEF IndInv
<1>7. ASSUME UNCHANGED << sender, payload, delivered, wire >>,
             sack_ch' = try_send(payload),
             fin_seen' = fin_seen \/ fin_seen' = TRUE
      PROVE  IndInv'
  <2>1. /\ sack_ch' \in Seq(SackPayload)
        /\ Len(sack_ch') <= SackCap
        /\ \A i \in DOMAIN sack_ch' :
              sack_ch'[i] = payload \/ \E j \in DOMAIN sack_ch : sack_ch'[i] = sack_ch[j]
    BY <1>7, TrySendInv
  <2>2. fin_seen' \in BOOLEAN
    BY <1>0, <1>7 DEF TypeOK
  <2>3. TypeOK'
    BY <1>0, <1>7, <2>1, <2>2 DEF TypeOK
  <2>4. NoLoss' /\ OnlySent'
    BY <1>0, <1>7 DEF NoLoss, OnlySent, Sent
  <2>5. BaseBounded'
    <3>1. \A i \in DOMAIN sack_ch' : sack_ch'[i].base_seq <= payload.base_seq
      BY <1>0, <1>a, <2>1 DEF BaseBounded
    <3>. QED
      BY <1>0, <1>7, <3>1 DEF BaseBounded
  <2>6. EndOrder'
    BY <1>0, <1>7 DEF EndOrder
  <2>7. SackSound(payload)'
    BY <1>7 DEF IndInv, SackSound, Truthful
  <2>8. (\A i \in DOMAIN sack_ch : SackSound(sack_ch[i]))'
    <3>. SUFFICES ASSUME NEW i \in DOMAIN sack_ch' PROVE SackSound(sack_ch[i])'
      OBVIOUS
    <3>1. sack_ch'[i] = payload \/ \E j \in DOMAIN sack_ch : sack_ch'[i] = sack_ch[j]
      BY <2>1
    <3>2. SackSound(sack_ch'[i])
      BY <3>1 DEF IndInv
    <3>. QED
      BY <1>7, <3>2 DEF SackSound, Truthful
  <2>. QED
    BY <2>3, <2>4, <2>5, <2>6, <2>7, <2>8 DEF IndInv
<1>8. CASE Heartbeat
  BY <1>7, <1>8 DEF Heartbeat, receiverVars
<1>9. CASE ReceiveFin
  BY <1>7, <1>9 DEF ReceiveFin, process_fin
<1>10. ASSUME NEW s \in Seqs, ReceiveData(s)
       PROVE  IndInv'
  <2>1. /\ s \in wire
        /\ payload' = on_packet_received(payload, s)
        /\ delivered' = delivered \cup {s}
        /\ UNCHANGED << sender, fin_seen, wire, sack_ch >>
    BY <1>10 DEF ReceiveData, recv_batch_recvmmsg, process_data
  <2>2. s \in Nat /\ s < sender.next_seq /\ s \in Sent
    BY <1>0, <1>a, <2>1 DEF OnlySent, Sent, Seqs
  <2>3. /\ payload' \in SackPayload
        /\ payload.base_seq <= payload'.base_seq
        /\ \A x \in Nat : is_received(payload', x) => is_received(payload, x) \/ x = s
    BY <1>a, <2>1, <2>2, OnPacketReceived
  <2>4. payload'.base_seq \in Nat /\ payload'.bits \subseteq Offsets
    BY <2>3 DEF SackPayload
  <2>5. \A x \in Nat : is_received(payload, x) => x < sender.next_seq
    <3>1. SackSound(payload) /\ payload.bits \subseteq Offsets
      BY <1>a DEF IndInv, SackPayload
    <3>. QED
      BY <1>a, <3>1, SackWindowAssumption DEF SackSound, is_received, Offsets
  <2>6. \A x \in Nat : is_received(payload', x) => x < sender.next_seq
    BY <2>2, <2>3, <2>5
  <2>7. payload'.base_seq <= sender.next_seq
    <3>1. is_received(payload', sender.next_seq) \/ payload'.base_seq <= sender.next_seq
      BY <1>a, <2>4 DEF is_received
    <3>. QED
      BY <1>a, <2>6, <3>1
  <2>8. \A k \in payload'.bits : payload'.base_seq + k < sender.next_seq
    <3>. SUFFICES ASSUME NEW k \in payload'.bits
                  PROVE  payload'.base_seq + k < sender.next_seq
      OBVIOUS
    <3>1. k \in Nat /\ k < SACK_WINDOW
      BY <2>4, SackWindowAssumption DEF Offsets
    <3>2. /\ payload'.base_seq + k \in Nat
          /\ (payload'.base_seq + k) - payload'.base_seq = k
      BY <2>4, <3>1
    <3>3. is_received(payload', payload'.base_seq + k)
      BY <3>1, <3>2 DEF is_received
    <3>. QED
      BY <2>6, <3>2, <3>3
  <2>9. SackSound(payload)'
    <3>1. \A x \in Seqs : is_received(payload', x) => x \in delivered'
      BY <2>1, <2>3 DEF IndInv, SackSound, Truthful, Seqs
    <3>. QED
      BY <2>1, <2>7, <2>8, <3>1 DEF SackSound, Truthful
  <2>10. (\A i \in DOMAIN sack_ch : SackSound(sack_ch[i]))'
    BY <2>1 DEF IndInv, SackSound, Truthful
  <2>11. TypeOK'
    BY <1>0, <2>1, <2>3 DEF TypeOK
  <2>12. NoLoss' /\ OnlySent' /\ EndOrder'
    BY <1>0, <2>1, <2>2 DEF NoLoss, OnlySent, EndOrder, Sent
  <2>13. BaseBounded'
    <3>0. sack_ch \in Seq(SackPayload)
      BY <1>0 DEF TypeOK
    <3>a. \A i \in DOMAIN sack_ch : sack_ch[i] \in SackPayload
      BY <3>0
    <3>1. \A i \in DOMAIN sack_ch : sack_ch[i].base_seq \in Nat
      BY <3>a DEF SackPayload
    <3>. QED
      BY <1>0, <1>a, <2>1, <2>3, <2>4, <2>7, <3>1 DEF BaseBounded
  <2>. QED
    BY <2>9, <2>10, <2>11, <2>12, <2>13 DEF IndInv
<1>11. ASSUME UNCHANGED << sender, payload, delivered, fin_seen, sack_ch >>,
              wire' \subseteq wire
       PROVE  IndInv'
  <2>2. TypeOK'
    BY <1>0, <1>11 DEF TypeOK
  <2>3. NoLoss' /\ OnlySent' /\ BaseBounded' /\ EndOrder'
    BY <1>0, <1>11 DEF NoLoss, OnlySent, BaseBounded, EndOrder, Sent
  <2>4. SackSound(payload)' /\ (\A i \in DOMAIN sack_ch : SackSound(sack_ch[i]))'
    BY <1>11 DEF IndInv, SackSound, Truthful
  <2>. QED
    BY <2>2, <2>3, <2>4 DEF IndInv
<1>12. ASSUME NEW s \in Seqs, LoseData(s)
       PROVE  IndInv'
  BY <1>11, <1>12 DEF LoseData, receiverVars
<1>14. CASE UNCHANGED vars
  BY <1>11, <1>14 DEF vars
<1>15. CASE SessionOver
  BY <1>14, <1>15 DEF SessionOver
<1>. QED
  BY <1>1, <1>2, <1>3, <1>4, <1>5, <1>8, <1>9, <1>10, <1>12, <1>14, <1>15
     DEF Next, Budgets, SenderStep

\* The inductive invariant holds in every reachable state.
THEOREM Invariance == Spec => []IndInv
  BY InitInv, StepInv, PTL DEF Spec

\* Type correctness of the sender, the receiver and the channels.
THEOREM TypeCorrect == Spec => []TypeOK
<1>1. IndInv => TypeOK
  BY DEF IndInv
<1>. QED
  BY Invariance, <1>1, PTL

\* process_sack never forgets a datagram that the application at the other end
\* was not given.
THEOREM NothingForgotten == Spec => []NoLoss
<1>1. IndInv => NoLoss
  BY DEF IndInv
<1>. QED
  BY Invariance, <1>1, PTL

\* When Sender::run has returned, everything enqueued was handed over, whatever
\* SACKs have emptied its window.
THEOREM SafeEnd == Spec => []CleanShutdown
<1>1. IndInv => CleanShutdown
  BY DEF IndInv, NoLoss, EndOrder, CleanShutdown, Sent
<1>. QED
  BY Invariance, <1>1, PTL

\* No step takes an acknowledgement back.
THEOREM AcksAreForever == Spec => AckedForever
<1>. DEFINE A == /\ payload.base_seq <= payload'.base_seq
                /\ \A s \in Seqs : is_received(payload, s) => is_received(payload', s)
<1>1. IndInv /\ [Next]_vars => [A]_vars
  <2>. SUFFICES ASSUME IndInv, Next PROVE A
    BY DEF vars
  <2>1. payload \in SackPayload /\ payload.base_seq \in Nat
    BY DEF IndInv, TypeOK, SackPayload
  <2>2. CASE payload' = payload
    BY <2>1, <2>2
  <2>3. ASSUME NEW s \in Seqs, ReceiveData(s)
        PROVE  A
    <3>1. payload' = on_packet_received(payload, s) /\ s \in Nat
      BY <2>3, SenderAssumption DEF ReceiveData, recv_batch_recvmmsg, process_data, Seqs
    <3>2. \A x \in Seqs : x \in Nat
      BY SenderAssumption DEF Seqs
    <3>. QED
      BY <2>1, <3>1, <3>2, OnPacketReceived
  <2>4. payload' = payload \/ \E s \in Seqs : ReceiveData(s)
    BY DEF Next, Budgets, SenderStep, ProbeStep, SackStep, ChunkStep, ShutdownStep, LoopTail,
           send_batch_sendmmsg, RtoElapse, Heartbeat, ReceiveFin, process_fin, LoseData,
           SessionOver, receiverVars, vars
  <2>. QED
    BY <2>2, <2>3, <2>4
<1>. QED
  BY Invariance, <1>1, PTL DEF Spec, AckedForever

-----------------------------------------------------------------------------
(* The session implements the abstract transfer.                           *)

\* An iteration of the sender's loop looks from outside like accepting
\* datagrams, closing, or nothing.
LEMMA LoopTailRefines ==
    ASSUME IndInv, IndInv', ~ sender.done,
           NEW st \in SenderState, st.due \subseteq st.in_flight,
           st.urgent \cup st.normal \subseteq st.in_flight,
           sender.next_seq <= st.next_seq,
           st.shutdown => st.next_seq = sender.next_seq,
           NEW tokens, LoopTail(st, tokens)
    PROVE  Transfer!ANext \/ UNCHANGED << sender.next_seq, delivered, sender.done, fin_seen >>
<1>u. PICK u \in Urgent(st, tokens) :
        \E n \in Normal(st, tokens, u) : \E f \in Fresh(st, tokens, u, n) : Sends(st, u, n, f)
  BY DEF LoopTail, Sends
<1>n. PICK n \in Normal(st, tokens, u) : \E f \in Fresh(st, tokens, u, n) : Sends(st, u, n, f)
  BY <1>u
<1>f. PICK f \in Fresh(st, tokens, u, n) : Sends(st, u, n, f)
  BY <1>n
<1>1. /\ sender' = exit_test(send_batch(st, u, n, f))
      /\ wire' = wire \cup (u.sent \cup n.sent \cup f)
      /\ UNCHANGED receiverVars
  BY <1>f DEF Sends, send_batch_sendmmsg
<1>. DEFINE r == send_batch(st, u, n, f)
<1>2. /\ r \in SenderState
      /\ r.in_flight = st.in_flight
      /\ r.next_seq = st.next_seq
      /\ r.shutdown = st.shutdown
  BY SendBatchType
<1>a. sender' = exit_test(r)
  BY <1>1
<1>. HIDE DEF r
<1>3. /\ sender'.next_seq = st.next_seq
      /\ sender'.done = (st.shutdown /\ st.in_flight = {})
  <2>1. sender' = [r EXCEPT !.done = (r.shutdown /\ r.in_flight = {})]
    BY <1>a DEF exit_test
  <2>. QED
    BY <1>2, <2>1 DEF SenderState
<1>4. delivered' = delivered /\ fin_seen' = fin_seen
  BY <1>1 DEF receiverVars
<1>5. /\ sender.next_seq \in Nat /\ sender'.next_seq \in 0 .. MaxSeq
      /\ sender.done \in BOOLEAN /\ sender'.done \in BOOLEAN
  BY SenderAssumption DEF IndInv, TypeOK, SenderState
<1>6. CASE sender'.done
  <2>1. sender'.next_seq = sender.next_seq
    BY <1>3, <1>6
  <2>2. Sent \subseteq delivered
    <3>1. sender'.in_flight = {} /\ NoLoss'
      BY <1>6 DEF IndInv, EndOrder
    <3>. QED
      BY <1>4, <2>1, <3>1 DEF NoLoss, Sent
  <2>3. sender'.done = TRUE
    BY <1>5, <1>6
  <2>. QED
    BY <1>4, <2>1, <2>2, <2>3 DEF Transfer!ANext, Transfer!Close, Transfer!Everything, Sent
<1>7. CASE ~ sender'.done
  <2>1. sender'.done = sender.done
    BY <1>5, <1>7
  <2>2. sender'.next_seq \in sender.next_seq .. MaxSeq
    BY <1>3, <1>5
  <2>. QED
    BY <1>4, <2>1, <2>2 DEF Transfer!ANext, Transfer!Accept
<1>. QED
  BY <1>6, <1>7

\* Sender, receiver, SACK channel and lossy network together implement the
\* abstract reliable transfer.
THEOREM Refinement == Spec => ImplementsTransfer
<1>. USE SenderAssumption
<1>1. Init => Transfer!AInit
  BY DEF Init, SenderInit, ReceiverInit, Transfer!AInit
<1>2. IndInv /\ IndInv' /\ [Next]_vars => [Transfer!ANext]_(Transfer!abstractVars)
  <2>. SUFFICES ASSUME IndInv, IndInv', [Next]_vars
                PROVE  \/ Transfer!ANext
                       \/ UNCHANGED << sender.next_seq, delivered, sender.done, fin_seen >>
    BY DEF Transfer!abstractVars
  <2>0. /\ TypeOK /\ sender \in SenderState /\ sender.due \subseteq sender.in_flight
        /\ sender.urgent \cup sender.normal \subseteq sender.in_flight
    BY DEF IndInv, TypeOK
  <2>a. sender.next_seq \in Nat
    BY <2>0 DEF SenderState
  <2>1. ASSUME NEW tokens, ProbeStep(tokens)
        PROVE  Transfer!ANext \/ UNCHANGED << sender.next_seq, delivered, sender.done, fin_seen >>
    BY <2>0, <2>1, <2>a, LoopTailRefines DEF ProbeStep
  <2>2. ASSUME NEW tokens, SackStep(tokens)
        PROVE  Transfer!ANext \/ UNCHANGED << sender.next_seq, delivered, sender.done, fin_seen >>
    <3>. DEFINE st == process_sack(sender, Head(sack_ch))
    <3>1. LoopTail(st, tokens)
      BY <2>2 DEF SackStep
    <3>2. Head(sack_ch) \in SackPayload
      BY <2>0, <2>2 DEF SackStep, TypeOK
    <3>3. /\ st \in SenderState /\ st.due \subseteq st.in_flight
          /\ st.urgent \cup st.normal \subseteq st.in_flight
          /\ st.next_seq = sender.next_seq
      BY <2>0, <3>2, ProcessSackType
    <3>. HIDE DEF st
    <3>. QED
      BY <2>2, <2>a, <3>1, <3>3, LoopTailRefines DEF SackStep
  <2>3. ASSUME NEW tokens, ChunkStep(tokens)
        PROVE  Transfer!ANext \/ UNCHANGED << sender.next_seq, delivered, sender.done, fin_seen >>
    <3>1. PICK n \in 0 .. MaxChunk :
            /\ sender.next_seq + n <= MaxSeq
            /\ LoopTail(enqueue_data(sender, n), tokens)
      BY <2>3 DEF ChunkStep
    <3>. DEFINE st == enqueue_data(sender, n)
                new == sender.next_seq .. (sender.next_seq + n - 1)
    <3>2. n \in Nat
      BY SessionAssumption
    <3>3. new \subseteq Seqs /\ sender.next_seq + n \in 0 .. MaxSeq
      BY <2>a, <3>1, <3>2 DEF Seqs
    <3>4. st = [sender EXCEPT !.in_flight = sender.in_flight \cup new,
                              !.due = sender.due \cup new,
                              !.next_seq = sender.next_seq + n]
      BY DEF enqueue_data
    <3>5. LoopTail(st, tokens)
      BY <3>1
    <3>. HIDE DEF st, new
    <3>6. /\ st \in SenderState
          /\ st.due \subseteq st.in_flight
          /\ st.urgent \cup st.normal \subseteq st.in_flight
          /\ st.next_seq = sender.next_seq + n
          /\ st.shutdown = sender.shutdown
      BY <2>0, <3>3, <3>4 DEF SenderState
    <3>. QED
      BY <2>3, <2>a, <3>2, <3>5, <3>6, LoopTailRefines DEF ChunkStep
  <2>4. ASSUME NEW tokens, ShutdownStep(tokens)
        PROVE  Transfer!ANext \/ UNCHANGED << sender.next_seq, delivered, sender.done, fin_seen >>
    <3>. DEFINE st == [sender EXCEPT !.shutdown = TRUE]
    <3>1. /\ st \in SenderState
          /\ st.due \subseteq st.in_flight
          /\ st.urgent \cup st.normal \subseteq st.in_flight
          /\ st.next_seq = sender.next_seq
      BY <2>0 DEF SenderState
    <3>2. LoopTail(st, tokens)
      BY <2>4 DEF ShutdownStep
    <3>. HIDE DEF st
    <3>. QED
      BY <2>4, <2>a, <3>1, <3>2, LoopTailRefines DEF ShutdownStep
  <2>5. ASSUME NEW s \in Seqs, RtoElapse(s)
        PROVE  UNCHANGED << sender.next_seq, delivered, sender.done, fin_seen >>
    <3>1. sender' = [sender EXCEPT !.due = sender.due \cup {s}]
      BY <2>5 DEF RtoElapse
    <3>. QED
      BY <2>0, <2>5, <3>1 DEF RtoElapse, receiverVars, SenderState
  <2>6. ASSUME NEW s \in Seqs, ReceiveData(s)
        PROVE  Transfer!ANext
    <3>1. /\ s \in wire /\ ~ fin_seen /\ delivered' = delivered \cup {s}
          /\ UNCHANGED << sender, fin_seen >>
      BY <2>6 DEF ReceiveData, recv_batch_recvmmsg, process_data
    <3>2. s \in 0 .. (sender.next_seq - 1)
      BY <3>1 DEF IndInv, OnlySent, Sent
    <3>3. sender'.next_seq = sender.next_seq /\ sender'.done = sender.done
      BY <3>1
    <3>. QED
      BY <3>1, <3>2, <3>3 DEF Transfer!ANext, Transfer!HandOver, Transfer!Everything
  <2>7. CASE ReceiveFin
    <3>1. /\ ~ fin_seen /\ fin_seen' = TRUE
          /\ UNCHANGED << sender, delivered >>
      BY <2>7 DEF ReceiveFin, process_fin
    <3>. QED
      BY <3>1 DEF Transfer!ANext, Transfer!End
  <2>8. CASE Heartbeat \/ SessionOver \/ UNCHANGED vars
    BY <2>8 DEF Heartbeat, SessionOver, receiverVars, vars
  <2>9. ASSUME NEW s \in Seqs, LoseData(s)
        PROVE  UNCHANGED << sender.next_seq, delivered, sender.done, fin_seen >>
    BY <2>9 DEF LoseData, receiverVars
  <2>. QED
    BY <2>1, <2>2, <2>3, <2>4, <2>5, <2>6, <2>7, <2>8, <2>9 DEF Next, Budgets, SenderStep
<1>. QED
  BY Invariance, <1>1, <1>2, PTL DEF Spec, ImplementsTransfer, Transfer!ASpec

-----------------------------------------------------------------------------
(* The commands without --direct.                                          *)

\* Without SACKs nothing is NAKed, so both retransmit queues stay empty.
CliSender == [next_seq  : Nat,
              in_flight : SUBSET Nat,
              naked     : {{}},
              due       : SUBSET Nat,
              urgent    : {{}},
              normal    : {{}},
              shutdown  : BOOLEAN,
              done      : BOOLEAN]

CliTypes ==
    /\ sender \in CliSender
    /\ plan \in Seq(Nat)
    /\ cmd_q \in Seq(Nat)
    /\ data_q \in Seq(Nat)

\* Nothing that was enqueued ever leaves the window.
AllInFlight ==
    /\ sender.in_flight = Sent
    /\ sender.due \subseteq Sent
    /\ sender.done => sender.in_flight = {}

\* What is in the network or was handed over has been enqueued before.
EnqueuedFirst == wire \subseteq Sent /\ delivered \subseteq Sent

\* As long as the writer has not failed, what the Receiver took is in the
\* channel or was taken from it; the writer ends well only after the Receiver
\* and on an empty channel, and the command only after the writer.
TakenOrQueued ==
    /\ writer # "failed" => \A s \in delivered : s \in taken \/ \E i \in DOMAIN data_q : data_q[i] = s
    /\ writer = "ok" => fin_seen /\ data_q = << >>
    /\ rx = "ok" => writer = "ok"

CliInv == CliTypes /\ AllInFlight /\ EnqueuedFirst /\ TakenOrQueued

-----------------------------------------------------------------------------
\* What an iteration's first half leaves for LoopTail: the queues empty and
\* the window full.
CliReady(st) ==
    /\ st \in CliSender
    /\ sender.next_seq <= st.next_seq
    /\ st.in_flight = 0 .. (st.next_seq - 1)
    /\ st.due \subseteq st.in_flight

\* An iteration keeps the window full; what it sends is in the window.
LEMMA CliLoopTail ==
    ASSUME CliInv, NEW st, CliReady(st), NEW tokens, LoopTail(st, tokens)
    PROVE  /\ sender' \in CliSender
           /\ AllInFlight' /\ EnqueuedFirst'
           /\ delivered' = delivered /\ fin_seen' = fin_seen
<1>u. PICK u \in Urgent(st, tokens) :
        \E n \in Normal(st, tokens, u) : \E f \in Fresh(st, tokens, u, n) : Sends(st, u, n, f)
  BY DEF LoopTail, Sends
<1>n. PICK n \in Normal(st, tokens, u) : \E f \in Fresh(st, tokens, u, n) : Sends(st, u, n, f)
  BY <1>u
<1>f. PICK f \in Fresh(st, tokens, u, n) : Sends(st, u, n, f)
  BY <1>n
<1>1. /\ sender' = exit_test(send_batch(st, u, n, f))
      /\ wire' = wire \cup (u.sent \cup n.sent \cup f)
      /\ UNCHANGED receiverVars
  BY <1>f DEF Sends, send_batch_sendmmsg
<1>2. st.urgent = {} /\ st.normal = {}
  BY DEF CliReady, CliSender
<1>3. u.sent = {} /\ u.rest = {} /\ n.sent = {} /\ n.rest = {}
  <2>1. u.sent \subseteq st.urgent /\ u.rest \subseteq st.urgent
    BY DrainType DEF Urgent
  <2>2. n.sent \subseteq st.normal /\ n.rest \subseteq st.normal
    BY DrainType DEF Normal
  <2>. QED
    BY <1>2, <2>1, <2>2
<1>4. f \subseteq st.due /\ wire' = wire \cup f
  BY <1>1, <1>3 DEF Fresh
<1>. DEFINE r == send_batch(st, u, n, f)
            end == r.shutdown /\ r.in_flight = {}
<1>5. r = [st EXCEPT !.urgent = {}, !.normal = {}, !.due = st.due \ f]
  BY <1>3 DEF send_batch
<1>6. sender' = [r EXCEPT !.done = end]
  BY <1>1 DEF exit_test
<1>. HIDE DEF r
<1>7. /\ r \in CliSender /\ r.next_seq = st.next_seq /\ r.in_flight = st.in_flight
      /\ r.due \subseteq st.due
  BY <1>5 DEF CliReady, CliSender
<1>8. end \in BOOLEAN /\ (end => r.in_flight = {})
  OBVIOUS
<1>. HIDE DEF end
<1>9. /\ sender' \in CliSender
      /\ sender'.next_seq = st.next_seq /\ sender'.in_flight = st.in_flight
      /\ sender'.due \subseteq st.due /\ sender'.done = end
  BY <1>6, <1>7, <1>8 DEF CliSender
<1>10. delivered' = delivered /\ fin_seen' = fin_seen
  BY <1>1 DEF receiverVars
<1>11. AllInFlight'
  BY <1>7, <1>8, <1>9 DEF AllInFlight, Sent, CliReady, CliSender
<1>12. EnqueuedFirst'
  <2>1. sender.next_seq \in Nat /\ st.next_seq \in Nat /\ sender.next_seq <= st.next_seq
    BY DEF CliInv, CliTypes, CliReady, CliSender
  <2>2. Sent \subseteq 0 .. (st.next_seq - 1)
    BY <2>1 DEF Sent
  <2>3. wire' \subseteq 0 .. (st.next_seq - 1) /\ delivered' \subseteq 0 .. (st.next_seq - 1)
    BY <2>2, <1>4, <1>10 DEF CliInv, EnqueuedFirst, CliReady, CliSender
  <2>. QED
    BY <2>3, <1>9 DEF EnqueuedFirst, Sent
<1>. QED
  BY <1>9, <1>10, <1>11, <1>12

\* Nothing has been read, enqueued or handed over at the start.
LEMMA CliInitInv == CliInit => CliInv
<1>. SUFFICES ASSUME CliInit PROVE CliInv
  OBVIOUS
<1>1. plan \in Seq(Nat)
  <2>1. PICK k \in 0 .. MaxSeq : plan \in [1 .. k -> 1 .. MaxChunk]
    BY DEF CliInit, Plans
  <2>2. k \in Nat /\ 1 .. MaxChunk \subseteq Nat
    BY <2>1, SenderAssumption, SessionAssumption
  <2>. QED
    BY <2>1, <2>2
<1>2. CliTypes
  BY <1>1 DEF CliInit, Init, SenderInit, CliTypes, CliSender
<1>3. TakenOrQueued
  BY DEF CliInit, Init, ReceiverInit, TakenOrQueued
<1>. QED
  BY <1>2, <1>3 DEF CliInv, CliInit, Init, SenderInit, ReceiverInit, AllInFlight, EnqueuedFirst, Sent

\* Every step of the two commands and of the network keeps the invariant.
LEMMA CliStep == CliInv /\ [CliNext]_allVars => CliInv'
<1>. SUFFICES ASSUME CliInv, [CliNext]_allVars PROVE CliInv'
  OBVIOUS
<1>0. /\ CliTypes /\ AllInFlight /\ EnqueuedFirst /\ TakenOrQueued
      /\ sender.next_seq \in Nat
  BY DEF CliInv, CliTypes, CliSender
<1>1. ASSUME UNCHANGED << sender, wire, delivered >>, TakenOrQueued', data_q' \in Seq(Nat),
             plan' \in Seq(Nat), cmd_q' \in Seq(Nat)
      PROVE  CliInv'
  BY <1>0, <1>1 DEF CliInv, CliTypes, AllInFlight, EnqueuedFirst, Sent
<1>2. ASSUME UNCHANGED << delivered, fin_seen, data_q, taken, writer, rx >>
      PROVE  TakenOrQueued' /\ data_q' \in Seq(Nat)
  BY <1>0, <1>2 DEF TakenOrQueued, CliTypes
<1>3. ASSUME NEW ok \in BOOLEAN, ReadDirectory(ok) PROVE CliInv'
  BY <1>0, <1>1, <1>2, <1>3 DEF ReadDirectory, vars, recvVars, CliTypes
<1>4. CASE SendDirectory
  <2>1. plan \in Seq(Nat) /\ cmd_q \in Seq(Nat)
    BY <1>0 DEF CliTypes
  <2>2. plan' \in Seq(Nat) /\ cmd_q' \in Seq(Nat)
    <3>1. CASE plan = << >>
      BY <3>1, <2>1, <1>4 DEF SendDirectory, Shutdown
    <3>2. CASE plan # << >>
      <4>1. Head(plan) \in Nat /\ Tail(plan) \in Seq(Nat)
        BY <3>2, <2>1
      <4>2. cmd_q' = Append(cmd_q, Head(plan)) /\ plan' = Tail(plan)
        BY <3>2, <1>4 DEF SendDirectory
      <4>. QED
        BY <2>1, <4>1, <4>2
    <3>. QED
      BY <3>1, <3>2
  <2>. QED
    BY <2>2, <1>1, <1>2, <1>4 DEF SendDirectory, vars, recvVars
<1>5. CASE Timeout \/ CliFin \/ CliReturn
  BY <1>0, <1>1, <1>2, <1>5 DEF Timeout, CliFin, CliReturn, vars, recvVars, CliTypes
<1>6. ASSUME NEW st, CliReady(st), NEW tokens, LoopTail(st, tokens), UNCHANGED recvVars,
             plan' \in Seq(Nat), cmd_q' \in Seq(Nat)
      PROVE  CliInv'
  <2>1. /\ sender' \in CliSender /\ AllInFlight' /\ EnqueuedFirst'
        /\ delivered' = delivered /\ fin_seen' = fin_seen
    BY <1>6, CliLoopTail
  <2>. QED
    BY <1>2, <1>6, <2>1 DEF CliInv, CliTypes, recvVars
<1>7. ASSUME NEW tokens \in Budgets, CliProbe(tokens) PROVE CliInv'
  <2>1. CliReady(sender)
    BY <1>0 DEF CliReady, CliTypes, AllInFlight, Sent
  <2>2. LoopTail(sender, tokens) /\ UNCHANGED << plan, cmd_q, recvVars >>
    BY <1>7 DEF CliProbe
  <2>. QED
    BY <1>0, <1>6, <2>1, <2>2 DEF CliTypes
<1>8. ASSUME NEW tokens \in Budgets, CliCommand(tokens) PROVE CliInv'
  <2>1. /\ Head(cmd_q) \in Nat /\ cmd_q' \in Seq(Nat) /\ plan' \in Seq(Nat)
        /\ UNCHANGED recvVars
    BY <1>0, <1>8 DEF CliCommand, CliTypes
  <2>2. CASE Head(cmd_q) = Shutdown
    <3>. DEFINE st == [sender EXCEPT !.shutdown = TRUE]
    <3>1. LoopTail(st, tokens)
      BY <2>2, <1>8 DEF CliCommand
    <3>2. /\ st.next_seq = sender.next_seq /\ st.in_flight = sender.in_flight
          /\ st.due = sender.due /\ st \in CliSender
      BY <1>0 DEF CliTypes, CliSender
    <3>. HIDE DEF st
    <3>3. CliReady(st)
      BY <1>0, <3>2 DEF CliReady, AllInFlight, Sent
    <3>. QED
      BY <1>6, <2>1, <3>1, <3>3
  <2>3. CASE Head(cmd_q) # Shutdown
    <3>. DEFINE n == Head(cmd_q)
                new == sender.next_seq .. (sender.next_seq + n - 1)
                st == enqueue_data(sender, n)
    <3>1. LoopTail(st, tokens)
      BY <2>3, <1>8 DEF CliCommand
    <3>2. st = [sender EXCEPT !.in_flight = sender.in_flight \cup new,
                              !.due = sender.due \cup new,
                              !.next_seq = sender.next_seq + n]
      BY DEF enqueue_data
    <3>3. /\ n \in Nat /\ new \subseteq Nat
          /\ (0 .. (sender.next_seq - 1)) \cup new = 0 .. (sender.next_seq + n - 1)
          /\ sender.next_seq + n \in Nat /\ sender.next_seq <= sender.next_seq + n
      BY <2>1, <1>0
    <3>. HIDE DEF st, new, n
    <3>4. CliReady(st)
      <4>1. /\ sender.in_flight = 0 .. (sender.next_seq - 1) /\ sender.due \subseteq sender.in_flight
            /\ sender.in_flight \cup new \subseteq Nat /\ sender.due \cup new \subseteq Nat
        BY <1>0, <3>3 DEF AllInFlight, Sent, CliTypes, CliSender
      <4>2. /\ st \in CliSender
            /\ st.next_seq = sender.next_seq + n /\ st.in_flight = sender.in_flight \cup new
            /\ st.due = sender.due \cup new
        BY <1>0, <3>2, <3>3, <4>1 DEF CliTypes, CliSender
      <4>3. st.in_flight = 0 .. (st.next_seq - 1)
        <5>1. st.in_flight = 0 .. (sender.next_seq + n - 1)
          BY <4>1, <4>2, <3>3
        <5>. QED
          BY <5>1, <4>2, <3>3, <1>0
      <4>. QED
        BY <4>1, <4>2, <4>3, <3>3 DEF CliReady
    <3>. QED
      BY <1>6, <2>1, <3>1, <3>4
  <2>. QED
    BY <2>2, <2>3
<1>9. ASSUME NEW s \in Seqs, CliRto(s) PROVE CliInv'
  <2>1. /\ s \in sender.in_flight /\ sender' = [sender EXCEPT !.due = sender.due \cup {s}]
        /\ UNCHANGED << delivered, fin_seen, wire, plan, cmd_q, data_q, taken, writer, rx >>
    BY <1>9 DEF CliRto, RtoElapse, receiverVars, cliVars, sendVars, recvVars
  <2>2. /\ CliTypes' /\ sender'.in_flight = sender.in_flight /\ sender'.next_seq = sender.next_seq
        /\ sender'.due = sender.due \cup {s} /\ sender'.done = sender.done
    BY <2>1, <1>0 DEF CliTypes, CliSender
  <2>. QED
    BY <2>1, <2>2, <1>0, <1>2 DEF CliInv, AllInFlight, EnqueuedFirst, Sent
<1>10. ASSUME NEW s \in Seqs, CliReceive(s) PROVE CliInv'
  <2>1. /\ s \in wire /\ ~ fin_seen /\ delivered' = delivered \cup {s}
        /\ data_q' = IF writer = "failed" THEN data_q ELSE Append(data_q, s)
        /\ UNCHANGED << sender, fin_seen, wire, plan, cmd_q, taken, writer, rx >>
    BY <1>10 DEF CliReceive, ReceiveData, recv_batch_recvmmsg, process_data, sendVars
  <2>2. data_q \in Seq(Nat) /\ s \in Nat
    BY <1>0, SenderAssumption DEF CliTypes, Seqs
  <2>3. data_q' \in Seq(Nat) /\ TakenOrQueued'
    <3>1. CASE writer = "failed"
      BY <3>1, <2>1, <2>2, <1>0 DEF TakenOrQueued
    <3>2. CASE writer # "failed"
      <4>1. data_q' = Append(data_q, s)
        BY <2>1, <3>2
      <4>2. /\ data_q' \in Seq(Nat)
            /\ Len(data_q) + 1 \in DOMAIN data_q' /\ data_q'[Len(data_q) + 1] = s
            /\ \A i \in DOMAIN data_q : i \in DOMAIN data_q' /\ data_q'[i] = data_q[i]
        BY <2>2, <4>1
      <4>3. \A x \in delivered' : x \in taken' \/ \E i \in DOMAIN data_q' : data_q'[i] = x
        BY <1>0, <2>1, <3>2, <4>2 DEF TakenOrQueued
      <4>. QED
        BY <1>0, <2>1, <4>2, <4>3 DEF TakenOrQueued
    <3>. QED
      BY <3>1, <3>2
  <2>. QED
    BY <2>1, <2>3, <1>0 DEF CliInv, CliTypes, AllInFlight, EnqueuedFirst, Sent
<1>11. CASE CliReceiveFin
  <2>1. /\ fin_seen' = TRUE
        /\ UNCHANGED << sender, wire, delivered, plan, cmd_q, data_q, taken, writer, rx >>
    BY <1>11 DEF CliReceiveFin, process_fin, cliVars, sendVars, recvVars
  <2>2. TakenOrQueued'
    BY <2>1, <1>0 DEF TakenOrQueued
  <2>. QED
    BY <2>1, <2>2, <1>0, <1>1 DEF CliTypes
<1>12. ASSUME NEW ok \in BOOLEAN, WriterTakes(ok) PROVE CliInv'
  <2>1. /\ writer = "running" /\ data_q # << >> /\ data_q \in Seq(Nat)
        /\ UNCHANGED << sender, wire, delivered, fin_seen, plan, cmd_q, rx >>
    BY <1>0, <1>12 DEF WriterTakes, vars, sendVars, CliTypes
  <2>2. data_q' \in Seq(Nat) /\ TakenOrQueued'
    <3>1. CASE ok
      <4>1. data_q' = Tail(data_q) /\ taken' = taken \cup {Head(data_q)} /\ writer' = writer
        BY <1>12, <3>1 DEF WriterTakes
      <4>2. /\ data_q' \in Seq(Nat)
            /\ \A i \in DOMAIN data_q : \/ data_q[i] = Head(data_q)
                                        \/ i - 1 \in DOMAIN data_q' /\ data_q'[i - 1] = data_q[i]
        BY <2>1, <4>1
      <4>3. \A x \in delivered' : x \in taken' \/ \E i \in DOMAIN data_q' : data_q'[i] = x
        BY <1>0, <2>1, <4>1, <4>2 DEF TakenOrQueued
      <4>. QED
        BY <1>0, <2>1, <4>1, <4>2, <4>3 DEF TakenOrQueued
    <3>2. CASE ~ ok
      <4>1. data_q' = << >> /\ writer' = "failed"
        BY <1>12, <3>2 DEF WriterTakes
      <4>. QED
        BY <1>0, <2>1, <4>1 DEF TakenOrQueued
    <3>. QED
      BY <3>1, <3>2
  <2>. QED
    BY <1>0, <1>1, <2>1, <2>2 DEF CliTypes
<1>13. ASSUME NEW ok \in BOOLEAN, WriterEnds(ok) PROVE CliInv'
  <2>1. /\ writer = "running" /\ data_q = << >> /\ fin_seen
        /\ writer' = IF ok THEN "ok" ELSE "failed"
        /\ UNCHANGED << sender, wire, delivered, fin_seen, plan, cmd_q, data_q, taken, rx >>
    BY <1>13 DEF WriterEnds, vars, sendVars
  <2>2. TakenOrQueued'
    BY <1>0, <2>1 DEF TakenOrQueued
  <2>. QED
    BY <1>0, <1>1, <2>1, <2>2 DEF CliTypes
<1>14. CASE RxReturns
  <2>1. /\ rx' = writer
        /\ UNCHANGED << sender, wire, delivered, fin_seen, plan, cmd_q, data_q, taken, writer >>
    BY <1>14 DEF RxReturns, vars, sendVars
  <2>2. TakenOrQueued'
    BY <1>0, <2>1 DEF TakenOrQueued
  <2>. QED
    BY <1>0, <1>1, <2>1, <2>2 DEF CliTypes
<1>15. CASE CliLose
  <2>1. /\ wire' \subseteq wire
        /\ UNCHANGED << sender, delivered, fin_seen, plan, cmd_q, data_q, taken, writer, rx >>
    BY <1>15 DEF CliLose, LoseData, receiverVars, vars, sendVars, recvVars
  <2>. QED
    BY <2>1, <1>0, <1>2 DEF CliInv, CliTypes, AllInFlight, EnqueuedFirst, Sent
<1>16. CASE CliOver \/ UNCHANGED allVars
  BY <1>0, <1>1, <1>2, <1>16 DEF CliOver, allVars, vars, cliVars, sendVars, recvVars, CliTypes
<1>. QED
  BY <1>3, <1>4, <1>5, <1>7, <1>8, <1>9, <1>10, <1>11, <1>12, <1>13, <1>14, <1>15, <1>16
     DEF CliNext

\* The invariant of the two commands.
THEOREM CliInvariance == CliSpec => []CliInv
  BY CliInitInv, CliStep, PTL DEF CliSpec

\* For every directory: once a block was enqueued the sender's loop of run_rudp
\* ends on the timeout only, since no SACK ever empties its window.
THEOREM WindowNeverDrains == CliSpec => []NeverDrains
<1>1. CliInv => NeverDrains
  <2>1. SUFFICES ASSUME CliInv, sender.next_seq > 0 PROVE ~ sender.done
    BY DEF NeverDrains
  <2>2. sender.next_seq \in Nat /\ sender.in_flight = Sent /\ (sender.done => sender.in_flight = {})
    BY <2>1 DEF CliInv, CliTypes, AllInFlight, CliSender
  <2>3. 0 \in Sent
    BY <2>1, <2>2 DEF Sent
  <2>. QED
    BY <2>2, <2>3
<1>. QED
  BY <1>1, CliInvariance, PTL

\* For every directory, network and channel capacity: `udpix receive' without
\* --direct succeeds only after its writer has taken every payload that its
\* Receiver handed over, whenever the FIN came.
THEOREM SuccessTakesAll == CliSpec => []OkMeansAllTaken
<1>1. CliInv => OkMeansAllTaken
  BY DEF CliInv, TakenOrQueued, OkMeansAllTaken
<1>. QED
  BY <1>1, CliInvariance, PTL
=============================================================================
