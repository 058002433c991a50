----------------------------- MODULE Observations ---------------------------
(***************************************************************************)
(* The "Key Observations" of a report, which scripts/plot_results.py words *)
(* from the comparison rows, and the object concentration some of them use.*)
(***************************************************************************)
EXTENDS Figures

CONSTANT ContentionRows(_)   \* contention_by_object.csv of an output directory:
                             \* a row per epoch and object, none without a file

-----------------------------------------------------------------------------
(* Object concentration *)

Busier(row, other) == row.remote_accesses > other.remote_accesses

\* The rows with the most remote accesses, how many requesters they have on
\* average, and their share of all accesses.
summarize_object_concentration(contention_rows, top_k) ==
  LET objects == SelectSeq(contention_rows, LAMBDA row :
                   /\ row.remote_accesses # Missing /\ row.remote_accesses > 0
                   /\ row.distinct_requesters # Missing)
      top == SubSeq(SortSeq(objects, Busier), 1,
                    IF Len(objects) < top_k THEN Len(objects) ELSE top_k)
      accesses(rows) == Total([i \in DOMAIN rows |-> Rational(rows[i].remote_accesses)])
  IN IF objects = <<>> THEN Missing
     ELSE [top_distinct_requesters |->
             MeanOf([i \in DOMAIN top |-> Rational(top[i].distinct_requesters)]),
           top_remote_access_share |-> Quotient(accesses(top), accesses(objects))]

\* By experiment name; where rows share a name, the last one with a summary.
object_concentration_by_run(comparison, top_k) ==
  LET summary(i) ==
        summarize_object_concentration(ContentionRows(comparison[i].output_dir), top_k)
      found == {i \in DOMAIN comparison :
                  comparison[i].experiment_name # Missing /\ summary(i) # Missing}
  IN [name \in {comparison[i].experiment_name : i \in found} |->
        summary(CHOOSE i \in found :
                  /\ comparison[i].experiment_name = name
                  /\ \A j \in found : comparison[j].experiment_name = name => j <= i)]

\* The average over the runs of one overlap.
top_requesters(comparison, concentration, overlap) ==
  LET rows == SelectSeq(comparison, LAMBDA row :
                /\ row.cross_node_overlap = overlap
                /\ row.experiment_name \in DOMAIN concentration)
  IN MeanOf([i \in DOMAIN rows |->
               concentration[rows[i].experiment_name].top_distinct_requesters])

-----------------------------------------------------------------------------
(* Observations *)

average_for_dimension_value(rows, dimension, value, column) ==
  average(SelectSeq(rows, LAMBDA row : Cell(row, dimension) = value), column)

\* A comparison of the memory wait at two values of a dimension.
Waits(rows, dimension, low, high) ==
  [value \in {low, high} |->
     average_for_dimension_value(rows, dimension, value, "average_memory_wait")]

node_count_waits(rows) ==
  LET values == distinct_values(rows, "node_count")
  IN Waits(rows, "node_count",
           CHOOSE n \in values : \A m \in values : n <= m,
           CHOOSE n \in values : \A m \in values : m <= n)

\* In Python zero is false: `value or inf` and `value or 1.0` replace it too.
NonZeroOr(value, default) ==
  IF value = Missing \/ value[1] = 0 THEN default ELSE value

Infinity == <<1, 0>>

\* The policies min() may find: those other than the baseline with the least
\* average delta, a delta of zero counting as infinite.
best_average_delta(summary, baseline) ==
  LET candidates == {p \in DOMAIN summary :
                       /\ p # baseline
                       /\ summary[p].avg_mean_latency_delta_pct # Missing}
      key(p) == NonZeroOr(summary[p].avg_mean_latency_delta_pct, Infinity)
  IN {p \in candidates : \A q \in candidates : ~ LessThan(key(q), key(p))}

\* The same for the final table, where the improvement is the negated delta and
\* an improvement of zero counts as the worst.
largest_improvement(table) ==
  LET delta(p) == table[p].mean["mean_latency_delta_pct"]
      candidates == {p \in DOMAIN table : p # "lru" /\ delta(p) # Missing}
      key(p) == NonZeroOr(delta(p), Infinity)
  IN {p \in candidates : \A q \in candidates : ~ LessThan(key(q), key(p))}

\* Rates are taken here in tenths.
low_stale(rows) ==
  SelectSeq(rows, LAMBDA row :
    ~ LessThan(Rational(4), NonZeroOr(row.stale_telemetry_rate, Rational(10))))

high_stale(rows) ==
  SelectSeq(rows, LAMBDA row :
    ~ LessThan(NonZeroOr(row.stale_telemetry_rate, Rational(0)), Rational(7)))

\* <<wins, rows>> of the rows with fresh telemetry, <<losses, rows>> of the others.
stale_telemetry_counts(comparison) ==
  LET rows == RowsOfPolicies(comparison, ContentionAwarePolicies)
  IN [low |-> <<count_class(low_stale(rows), "win"), Len(low_stale(rows))>>,
      high |-> <<count_class(high_stale(rows), "loss"), Len(high_stale(rows))>>]

\* Rows with the hit rate of the baseline, to a fiftieth, and less memory wait.
similar_hit_lower_wait(comparison) ==
  SelectSeq(RowsOfPolicies(comparison, ContentionAwarePolicies), LAMBDA row :
    LET hits == NonZeroOr(row.local_hit_rate_delta, Rational(0))
        wait == NonZeroOr(row.average_memory_wait_delta_pct, Rational(0))
    IN /\ ~ LessThan(hits, <<-1, 5>>) /\ ~ LessThan(<<1, 5>>, hits)
       /\ LessThan(wait, <<-1, 50>>))

\* What the observations say, in the reports that have them.
build_observations(comparison, baseline, report_mode, swept) ==
  IF report_mode = "final_report"
  THEN LET calibration == final_study_rows(comparison, "eval_final_contention_scaling",
                                           "eval_contention_calibration")
       IN [seeds |-> Cardinality(distinct_values(comparison, "seed")),
           node_waits |->
             IF Cardinality(distinct_values(calibration, "node_count")) > 1
             THEN node_count_waits(calibration) ELSE Missing,
           largest_improvement |->
             largest_improvement(build_final_policy_table(comparison))]
  ELSE [best_average_delta |->
          best_average_delta(build_policy_summary(comparison), baseline),
        stale_telemetry_counts |-> stale_telemetry_counts(comparison),
        similar_hit_lower_wait |-> Len(similar_hit_lower_wait(comparison))]
       @@
       IF report_mode # "contention_calibration" THEN <<>>
       ELSE [node_waits |-> IF "node_count" \in swept THEN node_count_waits(comparison)
                            ELSE Missing,
             bandwidth_waits |->
               IF "memory_bandwidth_level" \in swept
               THEN Waits(comparison, "memory_bandwidth_level", "mild", "severe")
               ELSE Missing,
             requesters |->
               LET concentration == object_concentration_by_run(comparison, 5)
               IN [overlap \in {"low", "high"} |->
                     top_requesters(comparison, concentration, overlap)]]
=============================================================================
