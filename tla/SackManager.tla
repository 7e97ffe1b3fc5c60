---------------------------- MODULE SackManager -----------------------------
(***************************************************************************)
(* SackManager of crates/protocol/src/sack.rs: the stored bitmap, the loss *)
(* accounting and the adaptive heartbeat interval, with the timer of       *)
(* Receiver::run (crates/protocol/src/receiver.rs) that is meant to follow *)
(* the interval.  The bitmap implements the set-level SackWindow.          *)
(*                                                                         *)
(* loss_ema is a rational held exactly: it counts units of 1/SCALE, and    *)
(* SCALE is divisible by every denominator that MaxTicks ticks can produce *)
(* from intervals of at most MaxSeq expected packets.                      *)
(***************************************************************************)
EXTENDS SackBits

CONSTANTS
    MaxArrivals,   \* bound: packets between two heartbeats
    MaxTicks,      \* bound: heartbeats
    SCALE          \* units of loss_ema in 1

ASSUME ManagerAssumption ==
    /\ MaxArrivals \in Nat /\ MaxTicks \in Nat
    /\ SCALE \in Nat \ {0}
    /\ \A n \in 1 .. MaxSeq : SCALE % (n * 4 ^ MaxTicks) = 0

VARIABLES
    payload,       \* the stored bitmap, an element of Payload
    packets,       \* packets_since_last_sack
    expected,      \* expected_since_last_sack
    next_expected, \* next_expected_seq
    loss_ema,
    interval,      \* SackManager::heartbeat_interval, in ms
    timer,         \* period of the timer in Receiver::run, in ms
    ticks,         \* heartbeats so far
    accounted      \* history: expected slots of all finished intervals

vars == << payload, packets, expected, next_expected, loss_ema, interval, timer, ticks, accounted >>

Init ==
    /\ payload = default
    /\ packets = 0 /\ expected = 0 /\ next_expected = 0
    /\ loss_ema = 0
    /\ interval = 5 /\ timer = 5
    /\ ticks = 0 /\ accounted = 0

\* Faulty variant: the arrival itself is not counted as expected.
on_packet_received_exclusive(seq) ==
    /\ packets < MaxArrivals
    /\ packets' = packets + 1
    /\ IF seq >= next_expected
       THEN expected' = expected + (seq - next_expected) /\ next_expected' = seq + 1
       ELSE UNCHANGED << expected, next_expected >>
    /\ payload' = record_arrival(payload, seq)
    /\ UNCHANGED << loss_ema, interval, timer, ticks, accounted >>

on_packet_received(seq) ==
    /\ packets < MaxArrivals
    /\ packets' = packets + 1
    /\ IF seq >= next_expected
       THEN /\ expected' = expected + (seq - next_expected + 1)
            /\ next_expected' = seq + 1
       ELSE UNCHANGED << expected, next_expected >>
    /\ payload' = record_arrival(payload, seq)
    /\ UNCHANGED << loss_ema, interval, timer, ticks, accounted >>

\* Loss of the interval that ends, in units of 1/SCALE.
interval_loss == IF packets >= expected
                 THEN 0
                 ELSE ((expected - packets) * SCALE) \div expected

\* Faulty variant: the weights of history and sample are swapped.
smoothed_loss_swapped == IF expected > 0
                         THEN (loss_ema + 3 * interval_loss) \div 4
                         ELSE loss_ema

smoothed_loss == IF expected > 0
                 THEN (3 * loss_ema + interval_loss) \div 4
                 ELSE loss_ema

interval_for(loss) == IF loss * 10 > 2 * SCALE THEN 1
                      ELSE IF loss * 10 > SCALE THEN 3
                      ELSE 5

\* The timer keeps its period unless it is told of another one.
reset_timer(old_interval, new_interval) ==
    timer' = IF new_interval # old_interval THEN new_interval ELSE timer

\* The timer branch of Receiver::run with send_heartbeat_sack and tick.  Both
\* intervals that are compared are read after tick has updated the interval.
Tick ==
    /\ ticks < MaxTicks
    /\ ticks' = ticks + 1
    /\ loss_ema' = smoothed_loss
    /\ interval' = interval_for(smoothed_loss)
    /\ reset_timer(interval', interval')
    /\ accounted' = accounted + expected
    /\ packets' = 0
    /\ expected' = 0
    /\ UNCHANGED << payload, next_expected >>

\* The last heartbeat that the bound allows has been sent.
Horizon == ticks = MaxTicks /\ UNCHANGED vars

Next == \/ Tick
        \/ \E seq \in 0 .. (MaxSeq - 1) : on_packet_received(seq)
        \/ Horizon

Spec == Init /\ [][Next]_vars

-----------------------------------------------------------------------------
Window == INSTANCE SackWindow WITH window <- AsSet(payload)

\* Word shifts, bit shifts and carries do to the array exactly what sliding
\* the window does to the set of received sequence numbers.
ImplementsWindow == Window!WSpec

\* After an arrival the base is the lowest gap: it is itself missing, and all
\* that it moved over had been received before or has just arrived.
BaseIsLowestGap ==
    [][\A seq \in 0 .. (MaxSeq - 1) : on_packet_received(seq)
          => /\ payload'.base_seq \in missing_seqs(payload')
             /\ \A s \in payload.base_seq .. (payload'.base_seq - 1) :
                   s \notin missing_seqs(payload) \/ s = seq]_vars

\* What the peer parses is the payload that was serialised, words beyond
\* word_count included; no proper prefix of the bytes parses, and the count of
\* words is the least that covers every set bit.
RoundTrip ==
    LET data == serialise(payload)
    IN  /\ deserialise(data) = {payload}
        /\ \A n \in 0 .. (Len(data) - 1) : deserialise(SubSeq(data, 1, n)) = {}
        /\ payload.word_count > 0 => payload.words[payload.word_count - 1] # {}

\* Every sequence number up to the highest seen is expected exactly once, over
\* however many heartbeats, duplicates and late arrivals, and the bitmap
\* acknowledges nothing beyond it.
SlotsCountedOnce ==
    /\ accounted + expected = next_expected
    /\ \A seq \in 0 .. (MaxSeq + SACK_WINDOW) : is_received(payload, seq) => seq < next_expected

\* Smoothing: one heartbeat takes the interval from calm (5 ms) to aggressive
\* (1 ms) only when more than half of the interval's packets were missing.
HurryNeedsHeavyLoss ==
    [][interval = 5 /\ interval' = 1 => 2 * packets < expected]_vars
=============================================================================
