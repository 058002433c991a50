------------------------------ MODULE Histogram -----------------------------
(***************************************************************************)
(* Percentiles of recorded latencies (metrics/histogram.cpp).  Results are *)
(* in hundredths, which are exact for whole percentiles.                   *)
(***************************************************************************)
EXTENDS Integers, SequencesExt

Percent == 0 .. 100

\* Mutant: the samples stay in the order in which they were recorded.
Unordered(values) == values

Ordered(values) == SortSeq(values, <)

\* std::ceil of the position, which is in hundredths.
UpperIndex(position) == (position + 99) \div 100

\* compute_percentile: linear interpolation between the two samples around the
\* position.
compute_percentile(values, percentile) ==
  LET sorted == Ordered(values)
      at(index) == sorted[index + 1]
      position == percentile * (Len(values) - 1)
      lower == position \div 100
      weight == position % 100
  IN IF values = <<>> THEN 0
     ELSE at(lower) * (100 - weight) + at(UpperIndex(position)) * weight

median_latency(values) == compute_percentile(values, 50)
p95_latency(values) == compute_percentile(values, 95)
p99_latency(values) == compute_percentile(values, 99)
=============================================================================
