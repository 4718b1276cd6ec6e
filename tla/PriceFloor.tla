------------------------------- MODULE PriceFloor -------------------------------
(***************************************************************************)
(* src/src/pfloor.js: prices of a constant-product pool, and the two       *)
(* checks of its health.  Prices and ratios are exact fractions, pairs of  *)
(* a numerator and a positive denominator; the code computes in doubles.   *)
(*                                                                         *)
(*   sample   [t, r, q]: at time t the reserves of tokens and of quote     *)
(*   pool     [r, q, s]: the reserves, and the circulating supply          *)
(*                                                                         *)
(* The tolerance is given in tenths, where the code has basis points.      *)
(***************************************************************************)
EXTENDS Integers, Sequences, Ordering

AtLeast(a, b) == a[1] * b[2] >= b[1] * a[2]

spotPrice(pool) == <<pool.q, pool.r>>
\* All of the supply is sold into the pool: p_floor = (R Q) / (R + S)^2
floorPrice(pool) == <<pool.r * pool.q, (pool.r + pool.s) * (pool.r + pool.s)>>
floorToSpot(pool) == <<pool.r * pool.r, (pool.r + pool.s) * (pool.r + pool.s)>>

dynamicFloorPrice(pool) ==
  [spot |-> spotPrice(pool), floor |-> floorPrice(pool), ratio |-> floorToSpot(pool)]

\* Mutant: the samples are taken as they come.
ordered_asGiven(samples) == samples

\* In order of time, those of one time as they come.
ordered(samples) ==
  LET I == DOMAIN samples
      Earlier(i, j) == samples[i].t < samples[j].t \/ (samples[i].t = samples[j].t /\ i < j)
      places == InOrder(I, {ij \in I \X I : Earlier(ij[1], ij[2])})
  IN [n \in DOMAIN samples |-> samples[places[n]]]

invariantReport(samples, tolerance) ==
  LET k == [i \in DOMAIN samples |-> ordered(samples)[i].r * ordered(samples)[i].q]
      Peak(i) == CHOOSE p \in {k[j] : j \in 1 .. i} : \A j \in 1 .. i : k[j] <= p
      drawdowns == {<<Peak(i) - k[i], Peak(i)>> : i \in DOMAIN k}
  IN [extractions |-> {i \in 2 .. Len(k) : 10 * k[i] < k[i - 1] * (10 - tolerance)},
      drawdown |-> CHOOSE d \in drawdowns : \A e \in drawdowns : AtLeast(d, e)]

healthy(report) == report.extractions = {}

\* Mutant: the ratio is compared with the minimum only.
floorIntact_minimum(before, after, minRatio) == AtLeast(floorToSpot(after), minRatio)

\* The ratio of floor to spot price has not fallen.
floorIntact(before, after, minRatio) ==
  /\ AtLeast(floorToSpot(after), floorToSpot(before))
  /\ AtLeast(floorToSpot(after), minRatio)
===============================================================================
