---------------------------- MODULE Concentration ----------------------------
(***************************************************************************)
(* The voting-power concentration metrics of packages/indexer/src/         *)
(* concentration.ts, over sequences of powers.  Divisions are those of     *)
(* BigInt: they round towards zero.                                        *)
(***************************************************************************)
EXTENDS Integers, Sequences, SequencesExt, FiniteSetsExt

BPS == 10000

Clamp(xs) == [i \in DOMAIN xs |-> IF xs[i] > 0 THEN xs[i] ELSE 0]
Ascending(xs) == SortSeq(Clamp(xs), <)
Descending(xs) == SortSeq(Clamp(xs), >)
Total(xs) == FoldSeq(+, 0, Clamp(xs))

\* Gini coefficient in basis points: 0 is equality, 10000 one holder of all.
giniCoefficientBps(values) ==
  LET xs == Ascending(values)
      n == Len(xs)
      weighted == MapThenSumSet(LAMBDA i : (2 * i - n - 1) * xs[i], DOMAIN xs)
  IN  IF n < 2 \/ Total(xs) = 0 THEN 0
      ELSE Min({Max({(weighted * BPS) \div (n * Total(xs)), 0}), BPS})

\* How many of the largest holders it takes to exceed half of the power.
nakamotoCoefficient(values) ==
  LET xs == Descending(values)
      half == Total(xs) \div 2
  IN  IF Total(xs) = 0 THEN 0
      ELSE Min({k \in DOMAIN xs : Total(SubSeq(xs, 1, k)) > half})

\* Share of the n largest holders, in basis points.
topNShareBps(values, n) ==
  LET xs == Descending(values)
  IN  IF n <= 0 \/ Total(xs) = 0 THEN 0
      ELSE (Total(SubSeq(xs, 1, Min({n, Len(xs)}))) * BPS) \div Total(xs)

computeConcentrationMetrics(holders, delegates) ==
  [total |-> Total(holders), top1 |-> topNShareBps(holders, 1), top5 |-> topNShareBps(holders, 5),
   gini |-> giniCoefficientBps(holders), nakamoto |-> nakamotoCoefficient(holders),
   delegateTop5 |-> topNShareBps(delegates, 5), delegateGini |-> giniCoefficientBps(delegates)]
=============================================================================
