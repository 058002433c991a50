------------------------------ MODULE MatrixPlan ----------------------------
(***************************************************************************)
(* How scripts/run_matrix.py turns an invocation into the list of runs:    *)
(* the options and their parsers, the values that replace those of the     *)
(* preset, the product of the dimensions, and what is refused on the way.  *)
(***************************************************************************)
EXTENDS MatrixPresets

CONSTANT
  Unparsable     \* an item int() or float() fails on, or a float that is not finite

\* The dimensions in the order itertools.product takes them.
DimensionOrder ==
  <<"seed", "policy", "compute_node_count", "object_count", "epoch_count",
    "requests_per_node_per_epoch", "workload_issue_mode", "burst_size",
    "burst_interval", "intra_burst_gap", "node_phase_jitter", "hot_set_size",
    "hot_access_probability", "hot_set_churn_fraction", "cross_node_overlap",
    "object_size_mode", "large_object_probability",
    "cache_capacity_hotset_multiplier", "memory_channel_count",
    "hot_object_channel_count", "memory_bandwidth_level",
    "memory_base_latency_level", "link_latency_level">>

Dimensions == ToSet(DimensionOrder)

\* parse_args: a preset, for some dimensions the items of a comma-separated
\* option (Missing stands for an empty item), and the switches.
Invocation(preset, options, dry_run, keep_going, expect_runs) ==
  [preset |-> preset.name, options |-> options, dry_run |-> dry_run,
   keep_going |-> keep_going, expect_runs |-> expect_runs]

PresetOf(invocation) == CHOOSE p \in PRESETS : p.name = invocation.preset

-----------------------------------------------------------------------------
(* Parsing *)

parse_csv_list(items) == SelectSeq(items, LAMBDA item : item # Missing)

parse_seeds(item) == item # Unparsable

parse_policies(item) == item \in POLICIES

parse_positive_ints(item) == item # Unparsable /\ item > 0

parse_nonnegative_ints(item) == item # Unparsable /\ item >= 0

parse_positive_floats(item) == item # Unparsable /\ item > 0

parse_probabilities(item) == item # Unparsable /\ item >= 0 /\ item <= One

parse_levels(item, allowed_levels) == item \in DOMAIN allowed_levels

parse_overlaps(item) == item \in {"low", "medium", "high"}

parse_object_size_modes(item) == item \in {"fixed", "bimodal"}

parse_workload_issue_modes(item) ==
  item \in {"completion_driven", "scheduled_bursty"}

\* The parser main applies to the option of a dimension, item by item.
Accepts(dimension, item) ==
  CASE dimension = "seed" -> parse_seeds(item)
    [] dimension = "policy" -> parse_policies(item)
    [] dimension \in {"compute_node_count", "object_count", "epoch_count",
                      "requests_per_node_per_epoch", "burst_size",
                      "burst_interval", "hot_set_size", "memory_channel_count"} ->
         parse_positive_ints(item)
    [] dimension \in {"intra_burst_gap", "node_phase_jitter",
                      "hot_object_channel_count"} -> parse_nonnegative_ints(item)
    [] dimension = "cache_capacity_hotset_multiplier" -> parse_positive_floats(item)
    [] dimension \in {"hot_access_probability", "hot_set_churn_fraction",
                      "large_object_probability"} -> parse_probabilities(item)
    [] dimension = "memory_bandwidth_level" ->
         parse_levels(item, MEMORY_BANDWIDTH_BYTES_PER_TIME_BY_LEVEL)
    [] dimension = "memory_base_latency_level" ->
         parse_levels(item, MEMORY_BASE_LATENCY_BY_LEVEL)
    [] dimension = "link_latency_level" -> parse_levels(item, LINK_LATENCY_BY_LEVEL)
    [] dimension = "cross_node_overlap" -> parse_overlaps(item)
    [] dimension = "object_size_mode" -> parse_object_size_modes(item)
    [] dimension = "workload_issue_mode" -> parse_workload_issue_modes(item)

\* Every parser refuses an empty list, and the whole list for one bad item.
Parses(dimension, items) ==
  /\ parse_csv_list(items) # <<>>
  /\ \A item \in ToSet(parse_csv_list(items)) : Accepts(dimension, item)

\* The values of each dimension: the option's where there is one, else the
\* preset's, for seeds and policies the defaults of parse_args and main.
SelectedValues(invocation) ==
  [dimension \in Dimensions |->
     IF dimension \in DOMAIN invocation.options
     THEN parse_csv_list(invocation.options[dimension])
     ELSE CASE dimension = "seed" -> <<8888>>
            [] dimension = "policy" -> default_policies(PresetOf(invocation))
            [] OTHER -> PresetOf(invocation).sweep[dimension]]

oversized_node_counts(invocation) ==
  {n \in ToSet(SelectedValues(invocation).compute_node_count) :
     n > Len(PresetOf(invocation).compute_node_ids)}

-----------------------------------------------------------------------------
(* Feasibility *)

CeilingOf(count, fraction) == (count * fraction + One - 1) \div One

shared_count(run) ==
  CASE run.cross_node_overlap = "low" -> 0
    [] run.cross_node_overlap = "medium" -> run.hot_set_size \div 2
    [] run.cross_node_overlap = "high" -> run.hot_set_size

private_count(run) == run.hot_set_size - shared_count(run)

channel_limit(run) ==
  IF run.hot_object_channel_count = 0 THEN run.memory_channel_count
  ELSE run.hot_object_channel_count

\* Mutant: the objects of the last, incomplete group of channels all count.
eligible_count_all_remainder(run) ==
  (run.object_count \div run.memory_channel_count) * channel_limit(run)
    + (run.object_count % run.memory_channel_count)

eligible_count(run) ==
  LET remainder == run.object_count % run.memory_channel_count
  IN (run.object_count \div run.memory_channel_count) * channel_limit(run)
       + (IF remainder < channel_limit(run) THEN remainder ELSE channel_limit(run))

effective_churn(run, hot_set_mode) ==
  IF hot_set_mode = "static" THEN 0 ELSE run.hot_set_churn_fraction

required_count(run, hot_set_mode) ==
  LET churn == effective_churn(run, hot_set_mode)
      kept == shared_count(run) + private_count(run) * run.compute_node_count
  IN IF churn \in 1 .. One - 1
     THEN kept + CeilingOf(shared_count(run), churn)
            + CeilingOf(private_count(run), churn) * run.compute_node_count
     ELSE kept

validate_hot_object_capacity(run, hot_set_mode) ==
  required_count(run, hot_set_mode) <= eligible_count(run)

\* The bursts of a scheduled_bursty workload do not overlap.
BurstTimingValid(run) ==
  ~ (/\ run.workload_issue_mode = "scheduled_bursty"
     /\ run.burst_size > 1
     /\ run.burst_interval < (run.burst_size - 1) * run.intra_burst_gap)

-----------------------------------------------------------------------------
(* Runs *)

\* The pairs of 1 .. n and 1 .. m, the second element varying fastest.
PairsInOrder(n, m) ==
  [i \in 1 .. n * m |-> <<((i - 1) \div m) + 1, ((i - 1) % m) + 1>>]

\* One more innermost loop of itertools.product.
TimesDimension(partial, dimension, values) ==
  LET pairs == PairsInOrder(Len(partial), Len(values))
  IN [i \in DOMAIN pairs |->
        (dimension :> values[pairs[i][2]]) @@ partial[pairs[i][1]]]

Product(values) ==
  FoldLeft(LAMBDA partial, dimension :
             TimesDimension(partial, dimension, values[dimension]),
           << <<>> >>, DimensionOrder)

\* The combinations of an invocation, without those that have more hot
\* channels than channels.
Combinations(invocation) ==
  SelectSeq(Product(SelectedValues(invocation)),
            LAMBDA c : c.hot_object_channel_count <= c.memory_channel_count)

\* Mutant: the sensitivity study runs only what has a profile.
profiles_without_baseline(preset, policy) ==
  IF preset.name # "eval_contention_weight_sensitivity"
  THEN <<NO_CONTENTION_WEIGHT_PROFILE>>
  ELSE IF policy = "contention_aware_smoothed" THEN CONTENTION_WEIGHT_PROFILES
  ELSE <<>>

contention_weight_profiles_for_policy(preset, policy) ==
  IF /\ preset.name = "eval_contention_weight_sensitivity"
     /\ policy = "contention_aware_smoothed"
  THEN CONTENTION_WEIGHT_PROFILES
  ELSE <<NO_CONTENTION_WEIGHT_PROFILE>>

slug_float(x) == ShortFloat(x)

\* run_slug: the tokens of a run's name.  A name of more than 180 characters is
\* cut and completed with a digest of the whole; names are taken to be equal only
\* if their tokens are.
run_slug(preset, run, profile) ==
  <<run_name_token(preset.name), run_name_token(run.policy), profile.profile,
    run.seed, run.compute_node_count, run.object_count, run.epoch_count,
    run.requests_per_node_per_epoch, run_name_token(run.workload_issue_mode),
    run.burst_size, run.burst_interval, run.intra_burst_gap,
    run.node_phase_jitter, run.hot_set_size,
    slug_float(run.hot_access_probability), preset.hot_set_mode,
    slug_float(run.hot_set_churn_fraction), run.cross_node_overlap,
    run.object_size_mode, slug_float(run.large_object_probability),
    slug_float(run.cache_capacity_hotset_multiplier),
    run.memory_channel_count, run.hot_object_channel_count,
    run.memory_bandwidth_level, run.memory_base_latency_level,
    run.link_latency_level>>

\* MatrixRun: a combination with its preset, weight profile and name, which
\* names the configuration file and the output directory too.
MatrixRun(preset, combination, profile) ==
  [preset |-> preset.name, contention_weight_profile |-> profile,
   run_name |-> run_slug(preset, combination, profile)] @@ combination

build_runs(preset, combinations) ==
  LET profiles(c) ==
        contention_weight_profiles_for_policy(preset, combinations[c].policy)
      pairs == SelectSeq(PairsInOrder(Len(combinations),
                                      Len(CONTENTION_WEIGHT_PROFILES)),
                         LAMBDA pair : pair[2] <= Len(profiles(pair[1])))
  IN [i \in DOMAIN pairs |->
        MatrixRun(preset, combinations[pairs[i][1]],
                  profiles(pairs[i][1])[pairs[i][2]])]

\* build_runs raises for a combination the workload generator could not serve.
Buildable(preset, combination) ==
  /\ validate_hot_object_capacity(combination, preset.hot_set_mode)
  /\ BurstTimingValid(combination)
=============================================================================
