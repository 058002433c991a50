----------------------------- MODULE Comparison -----------------------------
(***************************************************************************)
(* How scripts/plot_results.py joins the rows of aggregate files with      *)
(* their baselines and condenses them into tables.  A row is a record with *)
(* the columns its file has; a metric is a number or Missing; a delta or   *)
(* an average is a rational <<numerator, denominator>>.                    *)
(***************************************************************************)
EXTENDS MatrixPresets

-----------------------------------------------------------------------------
(* Cells and numbers *)

\* row.get(column): a column the file lacks reads like a blank cell.
Cell(row, column) == IF column \in DOMAIN row THEN row[column] ELSE Missing

Rational(n) == <<n, 1>>

gcd[m \in Nat, n \in Nat] == IF n = 0 THEN m ELSE gcd[n, m % n]

Lowest(a) ==
  LET d == gcd[IF a[1] < 0 THEN -a[1] ELSE a[1], a[2]]
  IN <<a[1] \div d, a[2] \div d>>

Quotient(a, b) ==
  Lowest(IF b[1] > 0 THEN <<a[1] * b[2], a[2] * b[1]>>
         ELSE <<-(a[1] * b[2]), -(a[2] * b[1])>>)

Plus(a, b) == Lowest(<<a[1] * b[2] + b[1] * a[2], a[2] * b[2]>>)

Minus(a, b) == Plus(a, <<-b[1], b[2]>>)

LessThan(a, b) == a[1] * b[2] < b[1] * a[2]

SameNumber(a, b) ==
  IF Missing \in {a, b} THEN a = b ELSE a[1] * b[2] = b[1] * a[2]

Total(values) == FoldLeft(Plus, Rational(0), values)

MeanOf(values) ==
  IF values = <<>> THEN Missing ELSE Quotient(Total(values), Rational(Len(values)))

metric(row, column) ==
  IF Cell(row, column) = Missing THEN Missing ELSE Rational(Cell(row, column))

ratio_delta(value, baseline) ==
  IF Missing \in {value, baseline} \/ baseline = Rational(0) THEN Missing
  ELSE Quotient(Minus(value, baseline), baseline)

absolute_delta(value, baseline) ==
  IF Missing \in {value, baseline} THEN Missing ELSE Minus(value, baseline)

sum_optional(lhs, rhs) ==
  IF lhs = Missing THEN rhs ELSE IF rhs = Missing THEN lhs ELSE Plus(lhs, rhs)

numeric_values(rows, column) ==
  SelectSeq([i \in DOMAIN rows |-> Cell(rows[i], column)], LAMBDA v : v # Missing)

average(rows, column) == MeanOf(numeric_values(rows, column))

\* The square of sample_standard_deviation, which is rational.
sample_variance(values) ==
  IF Len(values) < 2 THEN Missing
  ELSE LET Square(d) == <<d[1] * d[1], d[2] * d[2]>>
       IN Quotient(Total([i \in DOMAIN values |->
                            Square(Minus(values[i], MeanOf(values)))]),
                   Rational(Len(values) - 1))

distinct_values(rows, column) ==
  {Cell(row, column) : row \in ToSet(rows)} \ {Missing}

-----------------------------------------------------------------------------
(* Rows and their baselines *)

\* The successful rows of the files in the order given; a file without a status
\* column has only successful ones.
read_aggregate_rows(aggregates) ==
  SelectSeq(FlattenSeq(aggregates),
            LAMBDA row : "status" \in DOMAIN row => row.status = "success")

GROUP_COLUMNS ==
  {"preset", "seed", "node_count", "epoch_count", "requests_per_node_per_epoch",
   "workload_issue_mode", "burst_size", "burst_interval", "intra_burst_gap",
   "node_phase_jitter", "hot_set_mode", "hot_set_churn_fraction",
   "cross_node_overlap", "object_count", "hot_set_size",
   "hot_access_probability", "object_size_mode", "object_size_bytes",
   "object_size_small_bytes", "object_size_large_bytes",
   "large_object_probability", "cache_capacity_hotset_multiplier",
   "cache_capacity_bytes", "memory_channel_count", "hot_object_channel_count",
   "memory_bandwidth_level", "memory_bandwidth_bytes_per_time",
   "memory_base_latency_level", "memory_base_latency", "link_latency_level",
   "one_way_link_latency"}

\* Mutant: the hot channels are left out of the key.
group_key_without_hot_channels(row) ==
  [column \in GROUP_COLUMNS \ {"hot_object_channel_count"} |-> Cell(row, column)]

group_key(row) == [column \in GROUP_COLUMNS |-> Cell(row, column)]

\* The baseline of row i: of several in its group, the last one read.
baseline_by_group(rows, baseline_policy, i) ==
  LET matched == {b \in DOMAIN rows : /\ Cell(rows[b], "policy") = baseline_policy
                                      /\ group_key(rows[b]) = group_key(rows[i])}
  IN IF matched = {} THEN Missing ELSE rows[CHOOSE b \in matched : \A c \in matched : c <= b]

\* Lower latency is better.
classify_delta(delta, tie_threshold) ==
  CASE delta = Missing -> "no_baseline"
    [] delta # Missing /\ LessThan(delta, <<-tie_threshold[1], tie_threshold[2]>>) -> "win"
    [] delta # Missing /\ LessThan(tie_threshold, delta) -> "loss"
    [] OTHER -> "tie"

CopiedMetrics ==
  {"mean_latency", "p99_latency", "local_hit_rate", "average_memory_wait",
   "max_memory_wait", "peak_memory_queue_depth", "peak_memory_channel_queue_depth",
   "max_channel_total_queue_wait", "channel_queue_imbalance",
   "total_remote_accesses", "total_queue_wait", "total_remote_service_time",
   "max_observed_queue_depth", "estimated_avoided_remote_accesses",
   "estimated_avoided_queue_wait", "estimated_avoided_remote_service_time",
   "admission_yield", "reuse_after_admit_rate", "stale_telemetry_rate",
   "average_top_object_overlap", "eviction_regret_count",
   "remote_eviction_regret_count", "jain_inverse_latency_fairness",
   "per_node_mean_latency_spread", "per_node_p99_latency_max"}

\* The metrics compared with the baseline's as a ratio, and as a difference.
RatioDeltas ==
  [mean_latency_delta_pct |-> "mean_latency", p99_latency_delta_pct |-> "p99_latency",
   average_memory_wait_delta_pct |-> "average_memory_wait",
   total_remote_accesses_delta_pct |-> "total_remote_accesses"]

AbsoluteDeltas ==
  [mean_latency_delta |-> "mean_latency", p99_latency_delta |-> "p99_latency",
   local_hit_rate_delta |-> "local_hit_rate",
   average_memory_wait_delta |-> "average_memory_wait",
   total_remote_accesses_delta |-> "total_remote_accesses",
   jain_inverse_latency_fairness_delta |-> "jain_inverse_latency_fairness"]

\* One row of policy_comparison.csv.
Compared(row, baseline, tie_threshold) ==
  LET mine(column) == metric(row, column)
      theirs(column) == IF baseline = Missing THEN Missing ELSE metric(baseline, column)
  IN [classification |->
        classify_delta(ratio_delta(mine("mean_latency"), theirs("mean_latency")),
                       tie_threshold),
      baseline_available |-> baseline # Missing,
      estimated_avoided_contention_cost |->
        sum_optional(mine("estimated_avoided_queue_wait"),
                     mine("estimated_avoided_remote_service_time"))]
       @@ [c \in DOMAIN RatioDeltas |->
             ratio_delta(mine(RatioDeltas[c]), theirs(RatioDeltas[c]))]
       @@ [c \in DOMAIN AbsoluteDeltas |->
             absolute_delta(mine(AbsoluteDeltas[c]), theirs(AbsoluteDeltas[c]))]
       @@ [c \in CopiedMetrics |-> mine(c)]
       @@ [c \in GROUP_COLUMNS \cup
                   {"contention_weight_profile", "contention_weight_name",
                    "contention_weight_value", "policy", "experiment_name",
                    "output_dir"} |-> Cell(row, c)]

build_policy_comparison(rows, baseline_policy, tie_threshold) ==
  [i \in DOMAIN rows |->
     Compared(rows[i], baseline_by_group(rows, baseline_policy, i), tie_threshold)]

-----------------------------------------------------------------------------
(* Summaries *)

count_class(rows, name) == Len(SelectSeq(rows, LAMBDA row : row.classification = name))

policies(rows) == distinct_values(rows, "policy")

RowsOf(rows, policy) == SelectSeq(rows, LAMBDA row : row.policy = policy)

comparable(rows) == SelectSeq(rows, LAMBDA row : row.classification # "no_baseline")

\* policy_summary.csv, by policy; of its averages those the report ranks by.
build_policy_summary(comparison) ==
  [policy \in policies(comparison) |->
     LET rows == RowsOf(comparison, policy)
     IN [run_count |-> Len(rows), comparable_run_count |-> Len(comparable(rows)),
         win_count |-> count_class(comparable(rows), "win"),
         tie_count |-> count_class(comparable(rows), "tie"),
         loss_count |-> count_class(comparable(rows), "loss"),
         avg_mean_latency |-> average(rows, "mean_latency"),
         avg_local_hit_rate |-> average(rows, "local_hit_rate"),
         avg_mean_latency_delta_pct |->
           average(comparable(rows), "mean_latency_delta_pct")]]

CONDITION_DIMENSIONS ==
  {"hot_set_churn_fraction", "requests_per_node_per_epoch", "epoch_count",
   "cross_node_overlap", "object_count", "hot_set_size",
   "hot_access_probability", "large_object_probability", "workload_issue_mode",
   "burst_size", "burst_interval", "intra_burst_gap", "node_phase_jitter",
   "cache_capacity_hotset_multiplier", "contention_weight_profile",
   "contention_weight_name", "contention_weight_value", "memory_channel_count",
   "hot_object_channel_count", "memory_bandwidth_level", "node_count"}

\* A blank cell is a value like any other.
groups(comparison, dimension) ==
  {<<Cell(row, dimension), row.policy>> : row \in ToSet(comparison)}

\* condition_summary.csv, by dimension, value and policy.
build_condition_summary(comparison) ==
  [dimension \in CONDITION_DIMENSIONS |->
     [group \in groups(comparison, dimension) |->
        LET rows == SelectSeq(comparison, LAMBDA row :
                                Cell(row, dimension) = group[1] /\ row.policy = group[2])
        IN [run_count |-> Len(rows), win_count |-> count_class(rows, "win"),
            tie_count |-> count_class(rows, "tie"),
            loss_count |-> count_class(rows, "loss"),
            avg_mean_latency_delta_pct |-> average(rows, "mean_latency_delta_pct")]]]

-----------------------------------------------------------------------------
(* The table of the final report *)

\* Mutant: pilot rows are analysed together with the final ones.
rows_for_all_presets(rows, preferred, fallback) ==
  SelectSeq(rows, LAMBDA row : Cell(row, "preset") \in preferred \cup fallback)

rows_for_preferred_presets(rows, preferred, fallback) ==
  LET selected(presets) == SelectSeq(rows, LAMBDA row : Cell(row, "preset") \in presets)
  IN IF selected(preferred) # <<>> THEN selected(preferred) ELSE selected(fallback)

FINAL_REPORT_POLICY_ORDER ==
  {"lru", "hotness_only_windowed", "contention_aware_smoothed",
   "contention_aware_smoothed_reuse_gated",
   "contention_aware_smoothed_reuse_gated_hysteresis", "contention_aware_size_value"}

final_policy_rows(comparison) ==
  rows_for_preferred_presets(comparison, {"eval_final_policy_iteration"},
                             {"eval_policy_iteration"})

SeedMeans(rows, column) ==
  LET seeds == SetToSeq({Cell(row, "seed") : row \in ToSet(rows)})
      means == [i \in DOMAIN seeds |->
                  average(SelectSeq(rows, LAMBDA row : Cell(row, "seed") = seeds[i]),
                          column)]
  IN SelectSeq(means, LAMBDA v : v # Missing)

\* final_policy_table.csv: the improvements as ratios, without the factor -100 of
\* their columns, and the variances of which the table has the roots.
build_final_policy_table(comparison) ==
  LET rows(policy) == RowsOf(final_policy_rows(comparison), policy)
      present == FINAL_REPORT_POLICY_ORDER \cap policies(final_policy_rows(comparison))
  IN [policy \in present |->
        [seed_count |-> Cardinality({Cell(row, "seed") : row \in ToSet(rows(policy))}),
         comparable_run_count |-> Len(comparable(rows(policy))),
         win_rate |-> IF comparable(rows(policy)) = <<>> THEN Missing
                      ELSE <<count_class(comparable(rows(policy)), "win"),
                             Len(comparable(rows(policy)))>>,
         mean |-> [c \in {"mean_latency_delta_pct", "p99_latency_delta_pct",
                          "average_memory_wait_delta_pct", "local_hit_rate"} |->
                     MeanOf(SeedMeans(rows(policy), c))],
         variance |-> [c \in {"mean_latency_delta_pct", "p99_latency_delta_pct",
                              "average_memory_wait_delta_pct", "local_hit_rate"} |->
                         sample_variance(SeedMeans(rows(policy), c))]]]

-----------------------------------------------------------------------------
(* Best runs *)

BEST_RUN_BASELINE_POLICIES == {"always_remote", "lru", "global_hottest_replication"}

is_best_run_policy(row) ==
  /\ row.policy \notin BEST_RUN_BASELINE_POLICIES
  /\ row.mean_latency_delta_pct # Missing

\* best_run_sort_key, but for the names that break the last ties.
best_run_precedes(row, other) ==
  LET SmallerFirst(a, b) == a # Missing /\ (b = Missing \/ LessThan(a, b))
      LargerFirst(a, b) == a # Missing /\ (b = Missing \/ LessThan(b, a))
      Equal(column) == SameNumber(row[column], other[column])
  IN \/ LessThan(row.mean_latency_delta_pct, other.mean_latency_delta_pct)
     \/ /\ Equal("mean_latency_delta_pct")
        /\ \/ SmallerFirst(row.p99_latency_delta_pct, other.p99_latency_delta_pct)
           \/ /\ Equal("p99_latency_delta_pct")
              /\ LargerFirst(row.local_hit_rate, other.local_hit_rate)

\* The rows min() may find first for a policy.
best_rows(comparison, policy) ==
  LET candidates == {row \in ToSet(comparison) :
                       is_best_run_policy(row) /\ row.policy = policy}
  IN {row \in candidates : ~ \E other \in candidates : best_run_precedes(other, row)}

\* Mutant: the first run is taken for the best one.
first_row(comparison, policy) ==
  CHOOSE row \in ToSet(comparison) :
    row = SelectSeq(comparison, LAMBDA r : r.policy = policy /\ is_best_run_policy(r))[1]

\* Names break the remaining ties in the code.
best_row(comparison, policy) == CHOOSE row \in best_rows(comparison, policy) : TRUE

\* The rows of the panel drawn for a best row.
peer_rows(comparison, best) ==
  SelectSeq(comparison, LAMBDA row :
              is_best_run_policy(row) /\ group_key(row) = group_key(best))

\* build_best_run_examples: every policy that is no baseline, at its best run,
\* among its peers.
build_best_run_examples(comparison) ==
  LET targets == SetToSeq({p \in policies(comparison) : best_rows(comparison, p) # {}})
      PanelFor(target) ==
        LET peers == peer_rows(comparison, best_row(comparison, target))
        IN [i \in DOMAIN peers |->
              [target_policy |-> target, comparison_policy |-> peers[i].policy] @@ peers[i]]
  IN FlattenSeq([t \in DOMAIN targets |-> PanelFor(targets[t])])
=============================================================================
