----------------------------- MODULE Congestion -----------------------------
(***************************************************************************)
(* The BandwidthProfiler of crates/protocol/src/congestion.rs and the way  *)
(* the sender's loop applies its verdicts to the pacer.                    *)
(*                                                                         *)
(* Rates are rungs of PROBE_STEPS_BPS, 1 .. Steps, and FLOOR below them.   *)
(* Ratios are exact fractions << acked, sent >>.  Of loss_ema it is kept   *)
(* whether it is zero, at most 30 % (low) or above (high).  One sample     *)
(* takes it from zero to 20 % at the most; otherwise an average moves      *)
(* towards the sample, so it can cross 30 % only towards the side that the *)
(* sample is on.                                                           *)
(***************************************************************************)
EXTENDS Integers

CONSTANTS
    Steps,         \* rungs of the probe ladder (7 in the code)
    MaxBytes       \* bound: units sent within one probe step

ASSUME CongestionAssumption == Steps \in Nat \ {0} /\ MaxBytes \in Nat

FLOOR == 0         \* FLOOR_RATE_BPS
Rungs == 1 .. Steps

VARIABLES
    phase,         \* "Probing", "Steady" or "Throttling"
    rung,          \* step_index of Probing, or the rate of Steady
    results,       \* probe_results: a fraction per rung
    step_sent,     \* step_bytes_sent
    step_acked,    \* step_bytes_acked
    step_over,     \* PROBE_STEP_MS have gone by since step_start
    loss_ema,      \* "zero", "low" or "high" (> THROTTLE_LOSS_THRESHOLD)
    best_rate,
    best_goodput,
    pacer_rate,    \* the rate that the token bucket runs at
    outstanding    \* units in the network, neither acked nor lost

profiler == << phase, rung, results, step_sent, step_acked, step_over,
               loss_ema, best_rate, best_goodput >>
vars == << profiler, pacer_rate, outstanding >>

Fraction == {f \in (0 .. MaxBytes) \X (0 .. MaxBytes) : f[1] <= f[2]}

\* goodput_ratio: acked / sent, at most 1, and 0 when nothing was sent.
goodput_ratio(sent, acked) ==
    << IF acked > sent THEN sent ELSE acked, sent >>

\* a < (pct / 100) * b for two fractions; 0/0 stands for zero.
Num(f) == f[1]
Den(f) == IF f[2] = 0 THEN 1 ELSE f[2]
Less(a, b, pct) == 100 * Num(a) * Den(b) < pct * Num(b) * Den(a)

Init ==
    /\ phase = "Probing" /\ rung = 1
    /\ results = [i \in Rungs |-> << 0, 0 >>]
    /\ step_sent = 0 /\ step_acked = 0 /\ step_over = FALSE
    /\ loss_ema = "zero"
    /\ best_rate = 1 /\ best_goodput = << 0, 0 >>
    /\ pacer_rate = 1
    /\ outstanding = 0

reset_step_counters ==
    step_sent' = 0 /\ step_acked' = 0 /\ step_over' = FALSE

\* Loss of the current step: all that was sent in it and is not acked yet.
step_loss(acked) == step_sent - Num(goodput_ratio(step_sent, acked))

\* Where the average may be after a sample of step_loss / step_sent.
ema_after(acked) ==
    CASE step_sent = 0 -> {loss_ema}
      [] step_sent > 0 /\ loss_ema = "zero" ->
            {IF step_loss(acked) = 0 THEN "zero" ELSE "low"}
      [] step_sent > 0 /\ loss_ema # "zero" ->
            {loss_ema, IF 10 * step_loss(acked) > 3 * step_sent THEN "high" ELSE "low"}

\* send_batch hands n units to the network: on_bytes_sent.
SendBatch(n) ==
    /\ step_sent + n <= MaxBytes
    /\ outstanding + n <= MaxBytes
    /\ step_sent' = step_sent + n
    /\ outstanding' = outstanding + n
    /\ UNCHANGED << phase, rung, results, step_acked, step_over, loss_ema,
                    best_rate, best_goodput, pacer_rate >>

enter_throttle == phase' = "Throttling" /\ reset_step_counters

\* process_sack: n units are acknowledged and on_bytes_acked may enter the
\* throttling phase.  The rate it returns is not used: the pacer keeps its own.
ProcessSack(n) ==
    /\ n <= outstanding
    /\ step_acked + n <= MaxBytes
    /\ outstanding' = outstanding - n
    /\ loss_ema' \in ema_after(step_acked + n)
    /\ IF loss_ema' = "high" /\ phase # "Throttling"
       THEN enter_throttle
       ELSE step_acked' = step_acked + n /\ UNCHANGED << phase, step_sent, step_over >>
    /\ UNCHANGED << rung, results, best_rate, best_goodput, pacer_rate >>

\* Time passes.
StepElapses ==
    /\ ~ step_over
    /\ step_over' = TRUE
    /\ UNCHANGED << phase, rung, results, step_sent, step_acked, loss_ema,
                    best_rate, best_goodput, pacer_rate, outstanding >>

\* The network loses a unit.
Lose ==
    /\ outstanding > 0
    /\ outstanding' = outstanding - 1
    /\ UNCHANGED << profiler, pacer_rate >>

-----------------------------------------------------------------------------
(* evaluate_probe, whose result the timer branch sets on the pacer.        *)

\* Faulty variant: the last step always counts as the best.
BestAfter_last(ratio) == << rung, ratio >>

\* The best rate after the current step, kept unless this step was better.
BestAfter(ratio) == IF Less(best_goodput, ratio, 100)
                    THEN << rung, ratio >>
                    ELSE << best_rate, best_goodput >>

\* The last rung, or goodput more than 5 % below that of the rung before.
Peaked(ratio) == \/ rung = Steps
                 \/ rung > 1 /\ Less(ratio, results[rung - 1], 95)

\* Faulty variant: the pacer is set before the step is advanced.
ProbeEnds_old_rate(ratio) ==
    /\ best_rate' = BestAfter(ratio)[1]
    /\ best_goodput' = BestAfter(ratio)[2]
    /\ results' = [results EXCEPT ![rung] = ratio]
    /\ IF Peaked(ratio)
       THEN phase' = "Steady" /\ rung' = best_rate'
       ELSE phase' = "Probing" /\ rung' = rung + 1
    /\ pacer_rate' = rung
    /\ UNCHANGED loss_ema

\* Faulty variant: the step index is advanced twice.
ProbeEnds_skips(ratio) ==
    /\ best_rate' = BestAfter(ratio)[1]
    /\ best_goodput' = BestAfter(ratio)[2]
    /\ results' = [results EXCEPT ![rung] = ratio]
    /\ IF Peaked(ratio)
       THEN phase' = "Steady" /\ rung' = best_rate'
       ELSE phase' = "Probing" /\ rung' = IF rung + 2 > Steps THEN Steps ELSE rung + 2
    /\ pacer_rate' = rung'
    /\ UNCHANGED loss_ema

ProbeEnds(ratio) ==
    /\ best_rate' = BestAfter(ratio)[1]
    /\ best_goodput' = BestAfter(ratio)[2]
    /\ results' = [results EXCEPT ![rung] = ratio]
    /\ IF Peaked(ratio)
       THEN phase' = "Steady" /\ rung' = best_rate'
       ELSE phase' = "Probing" /\ rung' = rung + 1
    /\ pacer_rate' = rung'
    /\ UNCHANGED loss_ema

Probe ==
    /\ phase = "Probing"
    /\ step_over
    /\ ProbeEnds(goodput_ratio(step_sent, step_acked))
    /\ reset_step_counters
    /\ UNCHANGED outstanding

\* Goodput of a steady step; a step in which nothing was sent counts as 1.
steady_goodput == IF step_sent = 0 THEN << 1, 1 >> ELSE goodput_ratio(step_sent, step_acked)

\* Start again at the first rung; results of earlier rounds stay in place.
Reprobe ==
    /\ phase' = "Probing"
    /\ rung' = 1
    /\ best_goodput' = << 0, 0 >>
    /\ best_rate' = 1
    /\ pacer_rate' = 1
    /\ UNCHANGED results

Hold ==
    /\ phase = "Steady"
    /\ step_over
    /\ IF Less(steady_goodput, best_goodput, 80)
       THEN Reprobe
       ELSE pacer_rate' = rung /\ UNCHANGED << phase, rung, best_goodput, best_rate, results >>
    /\ reset_step_counters
    /\ UNCHANGED << loss_ema, outstanding >>

\* Faulty variant: throttling ends only once the loss average has come down.
Recover_when_calm ==
    /\ phase = "Throttling"
    /\ step_over
    /\ loss_ema # "high"
    /\ Reprobe
    /\ loss_ema' = "zero"
    /\ reset_step_counters
    /\ UNCHANGED outstanding

Recover ==
    /\ phase = "Throttling"
    /\ step_over
    /\ Reprobe
    /\ loss_ema' = "zero"
    /\ reset_step_counters
    /\ UNCHANGED outstanding

ProbeTick == Probe \/ Hold \/ Recover

Next == \/ \E n \in 1 .. MaxBytes : SendBatch(n)
        \/ \E n \in 0 .. MaxBytes : ProcessSack(n)
        \/ StepElapses \/ Lose \/ ProbeTick

Spec == Init /\ [][Next]_vars

\* Time passes, and the probe timer of Sender::run fires every 500 ms.
LiveSpec == Spec /\ WF_vars(StepElapses) /\ WF_vars(ProbeTick)

-----------------------------------------------------------------------------
current_rate == IF phase = "Throttling" THEN FLOOR ELSE rung

\* Phases, rungs, fractions and counters stay in range.
TypeOK ==
    /\ phase \in {"Probing", "Steady", "Throttling"}
    /\ rung \in Rungs
    /\ results \in [Rungs -> Fraction]
    /\ step_sent \in 0 .. MaxBytes /\ step_acked \in 0 .. MaxBytes
    /\ step_over \in BOOLEAN
    /\ loss_ema \in {"zero", "low", "high"}
    /\ best_rate \in Rungs /\ best_goodput \in Fraction
    /\ pacer_rate \in Rungs
    /\ outstanding \in 0 .. MaxBytes

\* Outside the throttling phase the bucket runs at the profiler's own rate:
\* every change of phase or rung reaches the pacer in the same iteration.
PacerAgrees == phase # "Throttling" => pacer_rate = current_rate

\* While probing, the remembered best is the best of this round's finished
\* rungs, although results of earlier rounds are still in the table; and the
\* rate that is then held did no worse than the rungs below it and the one above.
BestOfRound ==
    /\ phase = "Probing" =>
        /\ \A i \in 1 .. (rung - 1) : ~ Less(best_goodput, results[i], 100)
        /\ best_rate < rung \/ best_rate = 1
    /\ phase = "Steady" =>
        \A i \in Rungs : i <= rung + 1 => ~ Less(best_goodput, results[i], 100)

\* The pacer climbs one rung at a time, whatever the profiler goes through.
ClimbsByOne == [][pacer_rate' <= pacer_rate + 1]_vars

\* The profiler never stays throttled, and every probing round comes to an end.
NeverStays ==
    /\ phase = "Throttling" ~> phase = "Probing"
    /\ phase = "Probing" ~> phase # "Probing"
=============================================================================
