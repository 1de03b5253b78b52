-------------------------------- MODULE Metrics --------------------------------
(***************************************************************************)
(* Scores of the benchmark, evaluation/metrics.py: comparisons of result   *)
(* rows and the statistics over all cases.                                 *)
(*                                                                         *)
(* Scores and ratios are in ten-thousandths, the latency of a case in      *)
(* hundredths of a millisecond and the percentiles in tenths of one, as    *)
(* score_case and compute_metrics round them.  A number of a row is a      *)
(* multiple of half the tolerance of _norm_cell, so that two of them may   *)
(* differ by less than rounding tells apart.                               *)
(***************************************************************************)
EXTENDS Ranking, FiniteSetsExt

CONSTANTS
    IsNumber(_),   \* is the cell a number (and not a bool)?
    Strip(_)       \* str.strip of a text cell

\* round() of n / d to a whole number: the nearest, and the even one halfway.
Round(n, d) ==
    LET down == n \div d
        rest == 2 * (n % d)
    IN  IF rest < d \/ (rest = d /\ down % 2 = 0) THEN down ELSE down + 1

\* _norm_row: numbers are rounded, texts are stripped.  An even number of half
\* tolerances is its own rounding, an odd one is rounded to the even one below.
NormCell(cell) == IF IsNumber(cell) THEN cell - (cell % 2) ELSE Strip(cell)
NormRow(row) == [i \in DOMAIN row |-> NormCell(row[i])]
NormRows(rows) == [i \in DOMAIN rows |-> NormRow(rows[i])]

\* execution_accuracy.
ExecutionAccuracy(expected, actual, ordered) ==
    LET e == NormRows(expected)
        a == NormRows(actual)
        Times(rows, row) == Cardinality({i \in DOMAIN rows : rows[i] = row})
    IN  IF ordered THEN e = a
        ELSE \A row \in ToSet(e) \union ToSet(a) : Times(e, row) = Times(a, row)

\* exact_set_match.
ExactSetMatch(expected, actual) == ToSet(NormRows(expected)) = ToSet(NormRows(actual))

\* Slip: the share of expected rows, duplicates counted.
PartialMatchOfRows(expected, actual) ==
    LET found == ToSet(NormRows(expected)) \intersect ToSet(NormRows(actual))
    IN  IF expected = <<>> THEN IF actual = <<>> THEN 10000 ELSE 0
        ELSE Round(10000 * Cardinality(found), Len(expected))

\* partial_match, rounded as score_case does.
PartialMatch(expected, actual) ==
    LET e == ToSet(NormRows(expected))
        found == e \intersect ToSet(NormRows(actual))
    IN  IF e = {} THEN IF actual = <<>> THEN 10000 ELSE 0
        ELSE Round(10000 * Cardinality(found), Cardinality(e))

-----------------------------------------------------------------------------

\* Slip: the values are not sorted.
PercentileUnsorted(values, pct) ==
    LET rank == pct * (Len(values) - 1)
        low == values[rank \div 100 + 1]
        high == values[(rank + 99) \div 100 + 1]
    IN  IF values = <<>> THEN -1 ELSE 100 * low + (high - low) * (rank % 100)

\* percentile, in hundredths of the values' unit; -1 is None.
Percentile(values, pct) ==
    LET xs == Ordered(values, LAMBDA a, b : a < b)
        rank == pct * (Len(xs) - 1)
        low == xs[rank \div 100 + 1]
        high == xs[(rank + 99) \div 100 + 1]
    IN  IF values = <<>> THEN -1 ELSE 100 * low + (high - low) * (rank % 100)

\* sum(), from the left.
SumOf(values) ==
    LET total[n \in 0..Len(values)] == IF n = 0 THEN 0 ELSE total[n - 1] + values[n]
    IN  total[Len(values)]

Ratio(n, all) == IF all = 0 THEN 0 ELSE Round(10000 * n, all)
CountIn(cases, Test(_)) == Cardinality({i \in DOMAIN cases : Test(cases[i])})
Mean(values) == IF values = <<>> THEN 0 ELSE Round(SumOf(values), Len(values))
Accuracy(cases) == Ratio(CountIn(cases, LAMBDA c : c.executionMatch), Len(cases))

\* A query of the benchmark need not have a tier.
Tiers == {"easy", "medium", "hard"}
Tier(cases, t) == Where(cases, LAMBDA c : c.difficulty = t)

\* round(..., 1) of a percentile.
Tenths(percentile) == Round(percentile, 1000)

\* compute_metrics; a run without a case has its accuracy of 0 only.
ComputeMetrics(cases) ==
    LET latencies == [i \in DOMAIN cases |-> cases[i].latency] IN
    [accuracy |-> Accuracy(cases),
     setMatch |-> Ratio(CountIn(cases, LAMBDA c : c.setMatch), Len(cases)),
     astMatch |-> Ratio(CountIn(cases, LAMBDA c : c.astMatch), Len(cases)),
     partial |-> Mean([i \in DOMAIN cases |-> cases[i].partialMatch]),
     retries |-> Ratio(CountIn(cases, LAMBDA c : c.retries > 0), Len(cases)),
     p50 |-> Tenths(Percentile(latencies, 50)),
     p95 |-> Tenths(Percentile(latencies, 95)),
     tiers |-> [t \in {t \in Tiers : Tier(cases, t) # <<>>} |-> Accuracy(Tier(cases, t))]]
=============================================================================
