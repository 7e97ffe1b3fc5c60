-------------------------- MODULE Congestion_proofs --------------------------
(***************************************************************************)
(* For a probe ladder of any height and any volume of traffic: the pacer   *)
(* follows the profiler, climbs one rung at a time, and a probing round    *)
(* remembers the best of its own rungs.                                    *)
(***************************************************************************)
EXTENDS Congestion, TLAPS

\* Multiplying both sides by a positive number keeps the order of two
\* products, and dropping the factor does as well.
LEMMA Scale ==
    ASSUME NEW x \in Nat, NEW y \in Nat, NEW k \in Nat \ {0}
    PROVE  x < y <=> x * k < y * k
<1>1. ASSUME x < y PROVE x * k < y * k
  <2>1. PICK d \in Nat \ {0} : y = x + d
    <3>1. y - x \in Nat \ {0} /\ y = x + (y - x)
      BY <1>1
    <3> QED
      BY <3>1
  <2>2. y * k = x * k + d * k
    BY <2>1
  <2>3. d * k > 0 /\ d * k \in Nat /\ x * k \in Nat
    BY <2>1
  <2> QED
    BY <2>2, <2>3
<1>2. ASSUME y <= x PROVE y * k <= x * k
  <2>1. PICK d \in Nat : x = y + d
    <3>1. x - y \in Nat /\ x = y + (x - y)
      BY <1>2
    <3> QED
      BY <3>1
  <2>2. x * k = y * k + d * k
    BY <2>1
  <2>3. d * k \in Nat /\ y * k \in Nat
    BY <2>1
  <2> QED
    BY <2>2, <2>3
<1>3. x * k \in Nat /\ y * k \in Nat
  OBVIOUS
<1> QED
  BY <1>1, <1>2, <1>3

\* Comparing fractions crosswise is transitive: what does not exceed the old
\* best does not exceed a ratio that does.
LEMMA CrossTransitive ==
    ASSUME NEW a1 \in Nat, NEW a2 \in Nat \ {0},
           NEW b1 \in Nat, NEW b2 \in Nat \ {0},
           NEW c1 \in Nat, NEW c2 \in Nat \ {0},
           ~ (a1 * b2 < b1 * a2),
           a1 * c2 < c1 * a2
    PROVE  ~ (c1 * b2 < b1 * c2)
<1>t. /\ a1 * b2 \in Nat /\ b1 * a2 \in Nat /\ a1 * c2 \in Nat /\ c1 * a2 \in Nat
      /\ c1 * b2 \in Nat /\ b1 * c2 \in Nat
  OBVIOUS
<1>1. ~ ((a1 * b2) * c2 < (b1 * a2) * c2)
  BY <1>t, Scale
<1>2. (a1 * c2) * b2 < (c1 * a2) * b2
  BY <1>t, Scale
<1>3. /\ (a1 * b2) * c2 = (a1 * c2) * b2
      /\ (b1 * a2) * c2 = (b1 * c2) * a2
      /\ (c1 * a2) * b2 = (c1 * b2) * a2
  OBVIOUS
<1>4. /\ (a1 * c2) * b2 \in Nat /\ (b1 * c2) * a2 \in Nat /\ (c1 * b2) * a2 \in Nat
  OBVIOUS
<1>5. (b1 * c2) * a2 < (c1 * b2) * a2
  BY <1>1, <1>2, <1>3, <1>4
<1>6. b1 * c2 < c1 * b2
  BY <1>5, <1>t, Scale
<1> QED
  BY <1>6, <1>t

\* The ratio of a step is a fraction, whatever was sent and acknowledged.
LEMMA RatioType ==
    ASSUME NEW s \in 0 .. MaxBytes, NEW a \in 0 .. MaxBytes
    PROVE  goodput_ratio(s, a) \in Fraction
BY CongestionAssumption DEF goodput_ratio, Fraction

\* Fractions have natural numerators and positive denominators.
LEMMA FractionParts ==
    ASSUME NEW f \in Fraction
    PROVE  Num(f) \in Nat /\ Den(f) \in Nat \ {0}
BY CongestionAssumption DEF Fraction, Num, Den

\* At 100 per cent the comparison of ratios is the plain one.
LEMMA LessPlain ==
    ASSUME NEW f \in Fraction, NEW g \in Fraction
    PROVE  Less(f, g, 100) <=> Num(f) * Den(g) < Num(g) * Den(f)
<1> DEFINE x == Num(f) * Den(g)
           y == Num(g) * Den(f)
<1>1. x \in Nat /\ y \in Nat
  BY FractionParts
<1>2. x < y <=> x * 100 < y * 100
  BY <1>1, Scale
<1>3. x * 100 = 100 * Num(f) * Den(g) /\ y * 100 = 100 * Num(g) * Den(f)
  BY FractionParts
<1> QED
  BY <1>2, <1>3 DEF Less

\* The remembered best is not below the new ratio, nor below anything that
\* the old best was not below.
LEMMA BestAfterIsBest ==
    ASSUME NEW ratio \in Fraction, best_goodput \in Fraction, NEW f \in Fraction,
           ~ Less(best_goodput, f, 100) \/ f = ratio
    PROVE  ~ Less(BestAfter(ratio)[2], f, 100)
<1>0. /\ Num(f) \in Nat /\ Den(f) \in Nat \ {0}
      /\ Num(ratio) \in Nat /\ Den(ratio) \in Nat \ {0}
      /\ Num(best_goodput) \in Nat /\ Den(best_goodput) \in Nat \ {0}
  BY FractionParts
<1>1. CASE Less(best_goodput, ratio, 100) /\ f = ratio
  <2>1. BestAfter(ratio)[2] = ratio
    BY <1>1 DEF BestAfter
  <2> QED
    BY <1>1, <2>1, <1>0, LessPlain
<1>2. CASE Less(best_goodput, ratio, 100) /\ ~ Less(best_goodput, f, 100)
  <2>1. BestAfter(ratio)[2] = ratio
    BY <1>2 DEF BestAfter
  <2>2. ~ (Num(best_goodput) * Den(f) < Num(f) * Den(best_goodput))
    BY <1>2, LessPlain
  <2>3. Num(best_goodput) * Den(ratio) < Num(ratio) * Den(best_goodput)
    BY <1>2, LessPlain
  <2>4. ~ (Num(ratio) * Den(f) < Num(f) * Den(ratio))
    BY <2>2, <2>3, <1>0, CrossTransitive
  <2> QED
    BY <2>1, <2>4, LessPlain
<1>3. CASE ~ Less(best_goodput, ratio, 100)
  <2>1. BestAfter(ratio)[2] = best_goodput
    BY <1>3 DEF BestAfter
  <2> QED
    BY <1>3, <2>1
<1> QED
  BY <1>1, <1>2, <1>3

\* A rung at which the round is stopped by a drop of the goodput is not the
\* best of its round.
LEMMA DropIsNotBest ==
    ASSUME TypeOK, BestOfRound, phase = "Probing", NEW ratio \in Fraction,
           Peaked(ratio), rung # Steps
    PROVE  BestAfter(ratio)[1] # rung
<1> USE CongestionAssumption
<1> DEFINE prev == results[rung - 1]
<1>1. rung \in Nat /\ rung > 1 /\ rung - 1 \in Rungs /\ Less(ratio, prev, 95)
  BY DEF Peaked, TypeOK, Rungs
<1>2. prev \in Fraction /\ best_goodput \in Fraction
  BY <1>1 DEF TypeOK
<1>3. /\ Num(ratio) \in Nat /\ Den(ratio) \in Nat \ {0}
      /\ Num(prev) \in Nat /\ Den(prev) \in Nat \ {0}
  BY <1>2, FractionParts
<1>4. Less(ratio, prev, 100)
  <2> DEFINE y == Num(prev) * Den(ratio)
             x == Num(ratio) * Den(prev)
  <2>1. x \in Nat /\ y \in Nat
    BY <1>3
  <2>2. 100 * Num(ratio) * Den(prev) = 100 * x /\ 95 * Num(prev) * Den(ratio) = 95 * y
    BY <1>3
  <2>3. 100 * x < 95 * y
    BY <1>1, <2>2 DEF Less
  <2> HIDE DEF x, y
  <2>4. x < y
    BY <2>1, <2>3
  <2> QED
    BY <2>4, <1>2, LessPlain DEF x, y
<1>5. ~ Less(best_goodput, prev, 100) /\ (best_rate < rung \/ best_rate = 1)
  BY <1>1 DEF BestOfRound
<1>6. ~ Less(best_goodput, ratio, 100)
  <2> SUFFICES ASSUME Less(best_goodput, ratio, 100) PROVE FALSE
    OBVIOUS
  <2>1. BestAfter(ratio)[2] = ratio
    BY DEF BestAfter
  <2> QED
    BY <2>1, <1>2, <1>4, <1>5, BestAfterIsBest
<1>7. BestAfter(ratio)[1] = best_rate
  BY <1>6 DEF BestAfter
<1>8. best_rate # rung
  BY <1>1, <1>5 DEF TypeOK, Rungs
<1> QED
  BY <1>7, <1>8

CongestionInv == TypeOK /\ PacerAgrees /\ BestOfRound

\* The first round starts at the first rung with nothing measured.
LEMMA CongestionInit == Init => CongestionInv
<1> SUFFICES ASSUME Init PROVE CongestionInv
  OBVIOUS
<1>1. << 0, 0 >> \in Fraction
  BY CongestionAssumption DEF Fraction
<1>f. step_over \in BOOLEAN
  BY DEF Init
<1>2. TypeOK
  BY <1>1, <1>f, CongestionAssumption DEF Init, TypeOK, Rungs
<1>3. PacerAgrees /\ BestOfRound
  BY DEF Init, PacerAgrees, current_rate, BestOfRound
<1> QED
  BY <1>2, <1>3 DEF CongestionInv

\* Going back to the first rung forgets the best of the round before.
LEMMA ReprobeInv ==
    ASSUME TypeOK, Reprobe
    PROVE  /\ phase' = "Probing" /\ rung' \in Rungs /\ best_rate' \in Rungs
           /\ best_goodput' \in Fraction /\ pacer_rate' \in Rungs
           /\ PacerAgrees' /\ BestOfRound'
<1>1. << 0, 0 >> \in Fraction
  BY CongestionAssumption DEF Fraction
<1> QED
  BY <1>1, CongestionAssumption
  DEF Reprobe, Rungs, PacerAgrees, current_rate, BestOfRound

\* The end of a probe step: the pacer is set with the phase and the rung, and
\* the best of the round takes the finished rung into account.
LEMMA ProbeInv ==
    ASSUME CongestionInv, Probe
    PROVE  CongestionInv' /\ pacer_rate' <= pacer_rate + 1
<1> DEFINE ratio == goodput_ratio(step_sent, step_acked)
<1> USE CongestionAssumption
<1>1. TypeOK /\ phase = "Probing" /\ ratio \in Fraction /\ ProbeEnds(ratio)
  BY RatioType DEF CongestionInv, TypeOK, Probe
<1>2. /\ rung \in 1 .. Steps /\ best_rate \in 1 .. Steps /\ best_rate <= rung
      /\ pacer_rate = rung
  BY <1>1 DEF CongestionInv, TypeOK, Rungs, BestOfRound, PacerAgrees, current_rate
<1>3. /\ best_rate' \in {rung, best_rate} /\ best_goodput' \in {ratio, best_goodput}
      /\ best_rate' = BestAfter(ratio)[1] /\ best_goodput' = BestAfter(ratio)[2]
  BY <1>1 DEF ProbeEnds, BestAfter
<1>4. results' = [results EXCEPT ![rung] = ratio] /\ pacer_rate' = rung'
  BY <1>1 DEF ProbeEnds
<1>5. \/ phase' = "Steady" /\ rung' = best_rate'
      \/ phase' = "Probing" /\ rung' = rung + 1 /\ rung # Steps
  BY <1>1 DEF ProbeEnds, Peaked
<1>f. step_over' \in BOOLEAN
  BY <1>1 DEF TypeOK, Probe, reset_step_counters
<1>6. TypeOK'
  BY <1>1, <1>2, <1>3, <1>4, <1>5, <1>f
  DEF TypeOK, Rungs, Probe, ProbeEnds, reset_step_counters
<1>7. PacerAgrees'
  BY <1>4, <1>5 DEF PacerAgrees, current_rate
<1>8. ASSUME NEW i \in 1 .. rung PROVE ~ Less(best_goodput', results'[i], 100)
  <2>1. i \in Rungs /\ results \in [Rungs -> Fraction] /\ best_goodput \in Fraction
    BY <1>1, <1>2 DEF TypeOK, Rungs
  <2>2. CASE i = rung
    <3>1. results'[i] = ratio
      BY <2>1, <2>2, <1>4
    <3> QED
      BY <3>1, <2>1, <1>1, <1>3, BestAfterIsBest
  <2>3. CASE i # rung
    <3>1. results'[i] = results[i] /\ results[i] \in Fraction
      BY <2>1, <2>3, <1>4
    <3>2. ~ Less(best_goodput, results[i], 100)
      BY <2>3, <1>1, <1>2 DEF CongestionInv, BestOfRound
    <3> QED
      BY <3>1, <3>2, <2>1, <1>1, <1>3, BestAfterIsBest
  <2> QED
    BY <2>2, <2>3
<1>9. BestOfRound'
  <2>1. CASE phase' = "Probing"
    <3>1. rung' = rung + 1 /\ best_rate' < rung'
      BY <1>2, <1>3, <1>5, <2>1
    <3>2. 1 .. (rung' - 1) = 1 .. rung
      BY <3>1, <1>2
    <3> QED
      BY <2>1, <3>1, <3>2, <1>8 DEF BestOfRound
  <2>2. CASE phase' = "Steady"
    <3>1. Peaked(ratio) /\ rung' = best_rate'
      BY <1>1, <2>2 DEF ProbeEnds
    <3>2. ASSUME NEW i \in Rungs, i <= rung' + 1 PROVE i \in 1 .. rung
      <4>1. CASE best_rate' < rung \/ rung = Steps
        BY <1>2, <1>3, <3>1, <3>2, <4>1 DEF Rungs
      <4>2. CASE best_rate' = rung /\ rung # Steps
        BY <1>1, <1>2, <1>3, <3>1, <4>2, DropIsNotBest DEF CongestionInv
      <4> QED
        BY <1>2, <1>3, <4>1, <4>2
    <3> QED
      BY <2>2, <3>2, <1>8 DEF BestOfRound
  <2> QED
    BY <1>5, <2>1, <2>2
<1>10. pacer_rate' <= pacer_rate + 1
  BY <1>2, <1>3, <1>4, <1>5
<1> QED
  BY <1>6, <1>7, <1>9, <1>10 DEF CongestionInv

\* Every step keeps the invariant and raises the pacer by one rung at most.
LEMMA CongestionStep ==
    CongestionInv /\ [Next]_vars => CongestionInv' /\ pacer_rate' <= pacer_rate + 1
<1> SUFFICES ASSUME CongestionInv, [Next]_vars
             PROVE  CongestionInv' /\ pacer_rate' <= pacer_rate + 1
  OBVIOUS
<1> USE CongestionAssumption
<1>0. TypeOK /\ PacerAgrees /\ BestOfRound /\ pacer_rate \in 1 .. Steps
  BY DEF CongestionInv, TypeOK, Rungs
<1>f. step_over' \in BOOLEAN
  <2>1. UNCHANGED step_over \/ step_over' \in BOOLEAN => step_over' \in BOOLEAN
    BY <1>0 DEF TypeOK
  <2>2. CASE Lose
    BY <2>1, <2>2 DEF Lose, profiler
  <2>3. ASSUME NEW k, ProcessSack(k) PROVE step_over' \in BOOLEAN
    BY <1>0, <2>3 DEF ProcessSack, enter_throttle, reset_step_counters, TypeOK
  <2>4. ProbeTick => step_over' \in BOOLEAN
    BY DEF ProbeTick, Probe, Hold, Recover, reset_step_counters
  <2>5. StepElapses => step_over' \in BOOLEAN
    BY DEF StepElapses
  <2>6. ASSUME NEW k, SendBatch(k) PROVE step_over' \in BOOLEAN
    BY <2>1, <2>6 DEF SendBatch
  <2>7. UNCHANGED vars => step_over' \in BOOLEAN
    BY <2>1 DEF vars, profiler
  <2> QED
    BY <2>2, <2>3, <2>4, <2>5, <2>6, <2>7 DEF Next
<1>1. ASSUME NEW k \in 1 .. MaxBytes, SendBatch(k)
      PROVE  CongestionInv' /\ pacer_rate' <= pacer_rate + 1
  BY <1>0, <1>f, <1>1
  DEF SendBatch, CongestionInv, TypeOK, PacerAgrees, current_rate, BestOfRound
<1>2. ASSUME NEW k \in 0 .. MaxBytes, ProcessSack(k)
      PROVE  CongestionInv' /\ pacer_rate' <= pacer_rate + 1
  <2>1. loss_ema' \in {"zero", "low", "high"}
    BY <1>0, <1>2 DEF ProcessSack, ema_after, TypeOK
  <2>2. \/ phase' = "Throttling" /\ step_sent' = 0 /\ step_acked' = 0 /\ step_over' = FALSE
        \/ /\ step_acked' = step_acked + k
           /\ phase' = phase /\ step_sent' = step_sent /\ step_over' = step_over
    BY <1>2 DEF ProcessSack, enter_throttle, reset_step_counters
  <2>3. /\ UNCHANGED << rung, results, best_rate, best_goodput, pacer_rate >>
        /\ outstanding' = outstanding - k /\ k <= outstanding /\ step_acked + k <= MaxBytes
    BY <1>2 DEF ProcessSack
  <2>4. TypeOK'
    BY <1>0, <1>f, <2>1, <2>2, <2>3 DEF TypeOK
  <2>5. PacerAgrees' /\ BestOfRound'
    BY <1>0, <2>2, <2>3 DEF PacerAgrees, current_rate, BestOfRound
  <2> QED
    BY <1>0, <2>3, <2>4, <2>5 DEF CongestionInv
<1>3. CASE StepElapses
  BY <1>0, <1>f, <1>3
  DEF StepElapses, CongestionInv, TypeOK, PacerAgrees, current_rate, BestOfRound
<1>4. CASE Lose
  BY <1>0, <1>f, <1>4
  DEF Lose, profiler, CongestionInv, TypeOK, PacerAgrees, current_rate, BestOfRound
<1>5. CASE Probe
  BY <1>5, ProbeInv
<1>6. CASE Hold
  <2>1. CASE Reprobe
    <3>1. TypeOK' /\ pacer_rate' = 1
      BY <1>0, <1>f, <1>6, <2>1, ReprobeInv DEF Hold, Reprobe, TypeOK, reset_step_counters
    <3> QED
      BY <3>1, <1>0, <2>1, ReprobeInv DEF CongestionInv
  <2>2. CASE pacer_rate' = rung /\ UNCHANGED << phase, rung, best_goodput, best_rate, results >>
    <3>1. phase = "Steady" /\ pacer_rate = rung
      BY <1>0, <1>6 DEF Hold, PacerAgrees, current_rate
    <3> QED
      BY <3>1, <1>0, <1>f, <1>6, <2>2
      DEF Hold, CongestionInv, TypeOK, PacerAgrees, current_rate, BestOfRound,
          reset_step_counters
  <2> QED
    BY <1>6, <2>1, <2>2 DEF Hold
<1>7. CASE Recover
  <2>1. TypeOK' /\ pacer_rate' = 1
    BY <1>0, <1>f, <1>7, ReprobeInv DEF Recover, Reprobe, TypeOK, reset_step_counters
  <2> QED
    BY <2>1, <1>0, <1>7, ReprobeInv DEF Recover, CongestionInv
<1>8. CASE UNCHANGED vars
  BY <1>0, <1>f, <1>8
  DEF vars, profiler, CongestionInv, TypeOK, PacerAgrees, current_rate, BestOfRound
<1> QED
  BY <1>1, <1>2, <1>3, <1>4, <1>5, <1>6, <1>7, <1>8 DEF Next, ProbeTick

\* The conjunction of the invariants below is inductive.
THEOREM CongestionInvariance == Spec => []CongestionInv
<1>1. CongestionInv /\ [Next]_vars => CongestionInv'
  BY CongestionStep
<1> QED
  BY <1>1, CongestionInit, PTL DEF Spec

\* Outside the throttling phase the token bucket runs at the profiler's rate.
THEOREM PacerFollows == Spec => []PacerAgrees
<1>1. CongestionInv => PacerAgrees
  BY DEF CongestionInv
<1> QED
  BY <1>1, CongestionInvariance, PTL

\* A probing round remembers the best goodput of its own rungs, for a ladder
\* of any height and traffic of any volume.
THEOREM RoundRemembersBest == Spec => []BestOfRound
<1>1. CongestionInv => BestOfRound
  BY DEF CongestionInv
<1> QED
  BY <1>1, CongestionInvariance, PTL

\* No verdict of the profiler raises the pacer by more than one rung.
THEOREM PacerClimbsByOne == Spec => ClimbsByOne
<1>1. CongestionInv /\ [Next]_vars => [pacer_rate' <= pacer_rate + 1]_vars
  BY CongestionStep
<1> QED
  BY <1>1, CongestionInvariance, PTL DEF Spec, ClimbsByOne
=============================================================================
