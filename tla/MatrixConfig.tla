----------------------------- MODULE MatrixConfig ---------------------------
(***************************************************************************)
(* The YAML configuration run_matrix.py writes for a run, the columns of   *)
(* its aggregate row that are known beforehand, and what verify_dry_run    *)
(* asks of both.  A configuration is a record with the keys of the YAML.   *)
(***************************************************************************)
EXTENDS MatrixPlan

PresetNamed(run) == CHOOSE p \in PRESETS : p.name = run.preset

node_ids_for_run(run) ==
  SubSeq(PresetNamed(run).compute_node_ids, 1, run.compute_node_count)

memory_bandwidth_bytes_per_time(run) ==
  MEMORY_BANDWIDTH_BYTES_PER_TIME_BY_LEVEL[run.memory_bandwidth_level]

memory_base_latency(run) ==
  MEMORY_BASE_LATENCY_BY_LEVEL[run.memory_base_latency_level]

one_way_link_latency(run) == LINK_LATENCY_BY_LEVEL[run.link_latency_level]

RoundHalfEven(numerator, denominator) ==
  LET whole == numerator \div denominator
      twice == 2 * (numerator % denominator)
  IN IF twice > denominator \/ (twice = denominator /\ whole % 2 = 1)
     THEN whole + 1 ELSE whole

\* round() of the product; the multiplier is taken to a thousandth, which keeps
\* the product of the sizes used here within TLC's integers.
cache_capacity_bytes(run) ==
  LET thousandths == run.cache_capacity_hotset_multiplier \div (One \div 1000)
      bytes == RoundHalfEven(
                 run.hot_set_size * PresetNamed(run).object_size_bytes * thousandths, 1000)
  IN IF bytes < 1 THEN 1 ELSE bytes

-----------------------------------------------------------------------------
(* Policies in the terms of the simulator *)

ContentionLabels ==
  {"contention_aware_v1", "contention_aware_smoothed",
   "contention_aware_reuse_gated", "contention_aware_hysteresis",
   "contention_aware_smoothed_reuse_gated",
   "contention_aware_smoothed_reuse_gated_hysteresis",
   "contention_aware_size_value"}

yaml_policy_name(policy) ==
  CASE policy \in {"hotness_only_cumulative", "hotness_only_windowed"} -> "hotness_only"
    [] policy \in ContentionLabels -> "contention_aware"
    [] OTHER -> policy

contention_variant_for_policy(policy) ==
  CASE policy \in {"contention_aware", "contention_aware_v1"} -> "v1"
    [] policy \in {"contention_aware_smoothed", "contention_aware_size_value"} ->
         "smoothed"
    [] policy = "contention_aware_reuse_gated" -> "reuse_gated"
    [] policy = "contention_aware_hysteresis" -> "hysteresis"
    [] policy \in {"contention_aware_smoothed_reuse_gated",
                   "contention_aware_smoothed_reuse_gated_hysteresis"} ->
         "smoothed_reuse_gated"
    [] OTHER -> Missing

\* Mutant: a windowed history is not told from the default one.
history_mode_without_window(policy) ==
  IF policy = "hotness_only_cumulative" THEN "cumulative" ELSE "epoch"

hotness_history_mode(policy) ==
  CASE policy = "hotness_only_cumulative" -> "cumulative"
    [] policy = "hotness_only_windowed" -> "windowed"
    [] OTHER -> "epoch"

contention_weights_for_profile(profile) ==
  IF profile.weight_name = "" THEN DEFAULT_CONTENTION_WEIGHTS
  ELSE [DEFAULT_CONTENTION_WEIGHTS EXCEPT ![profile.weight_name] = profile.weight_value]

\* The weights of a run: scoring by size turns the cost density on.
contention_weights(run) ==
  LET weights == contention_weights_for_profile(run.contention_weight_profile)
  IN IF run.policy = "contention_aware_size_value"
     THEN [weights EXCEPT !.cost_density_weight = One] ELSE weights

-----------------------------------------------------------------------------
(* write_yaml_config *)

HotnessSection(run) ==
  LET mode == hotness_history_mode(run.policy)
  IN [min_admit_count |-> 2, history_mode |-> mode]
       @@ (IF mode = "windowed" THEN [history_window_epochs |-> 4] ELSE <<>>)

\* Mutant: the margins of the two composite policies are exchanged.
SmoothedReuseGatedSwapped(run) ==
  [telemetry_history_epochs |-> 4, telemetry_decay |-> 50,
   local_reuse_gate_threshold |-> 2, local_confirmation_window_epochs |-> 2,
   local_confirmation_bypass_score_margin |-> 100,
   eviction_score_margin |->
     IF run.policy = "contention_aware_smoothed_reuse_gated_hysteresis" THEN 0 ELSE 10]

SmoothedReuseGated(run) ==
  [telemetry_history_epochs |-> 4, telemetry_decay |-> 50,
   local_reuse_gate_threshold |-> 2, local_confirmation_window_epochs |-> 2,
   local_confirmation_bypass_score_margin |-> 100,
   eviction_score_margin |->
     IF run.policy = "contention_aware_smoothed_reuse_gated_hysteresis" THEN 10 ELSE 0]

\* What each variant adds to the section; literal fractions are in hundredths.
VariantKnobs(run) ==
  LET variant == contention_variant_for_policy(run.policy)
  IN CASE variant = "smoothed" -> [telemetry_history_epochs |-> 4, telemetry_decay |-> 25]
       [] variant = "reuse_gated" -> [local_reuse_gate_threshold |-> 2]
       [] variant = "hysteresis" -> [eviction_score_margin |-> 25]
       [] variant = "smoothed_reuse_gated" -> SmoothedReuseGated(run)
       [] OTHER -> <<>>

ContentionSection(run) ==
  LET weights == contention_weights(run)
  IN [variant |-> contention_variant_for_policy(run.policy), min_admit_score |-> 100,
      local_hotness_threshold |-> 2, reset_on_epoch_change |-> FALSE]
       @@ [w \in DOMAIN weights |-> ShortFloat(weights[w])] @@ VariantKnobs(run)

PolicySections(run) ==
  CASE yaml_policy_name(run.policy) = "hotness_only" -> [hotness |-> HotnessSection(run)]
    [] yaml_policy_name(run.policy) = "contention_aware" ->
         [contention |-> ContentionSection(run)]
    [] OTHER -> <<>>

WorkloadSection(run) ==
  LET preset == PresetNamed(run)
  IN [seed |-> run.seed, compute_node_ids |-> node_ids_for_run(run),
      object_count |-> run.object_count, object_size_bytes |-> preset.object_size_bytes,
      hot_set_churn_fraction |-> ShortFloat(run.hot_set_churn_fraction),
      hot_object_channel_count |-> run.hot_object_channel_count,
      object_size_mode |-> run.object_size_mode,
      object_size_small_bytes |-> preset.object_size_small_bytes,
      object_size_large_bytes |-> preset.object_size_large_bytes,
      large_object_probability |-> ShortFloat(run.large_object_probability),
      requests_per_node_per_epoch |-> run.requests_per_node_per_epoch,
      issue_mode |-> run.workload_issue_mode, burst_size |-> run.burst_size,
      burst_interval |-> run.burst_interval, intra_burst_gap |-> run.intra_burst_gap,
      node_phase_jitter |-> run.node_phase_jitter, epoch_count |-> run.epoch_count,
      hot_set_size |-> run.hot_set_size,
      hot_access_probability |-> ShortFloat(run.hot_access_probability),
      hot_set_mode |-> preset.hot_set_mode, cross_node_overlap |-> run.cross_node_overlap]

yaml_config(run) ==
  [experiment |-> [name |-> run.run_name, output_dir |-> run.run_name],
   memory |-> [node_id |-> PresetNamed(run).memory_node_id,
               base_latency |-> memory_base_latency(run),
               bandwidth_bytes_per_time |-> memory_bandwidth_bytes_per_time(run),
               channel_count |-> run.memory_channel_count],
   link |-> [one_way_latency |-> one_way_link_latency(run)],
   local_cache |-> [capacity_bytes |-> cache_capacity_bytes(run),
                    hit_latency |-> PresetNamed(run).cache_hit_latency,
                    policy |-> yaml_policy_name(run.policy)] @@ PolicySections(run),
   workload |-> WorkloadSection(run)]

-----------------------------------------------------------------------------
(* base_row *)

hot_set_churn_label(hot_set_mode, churn_fraction) ==
  CASE hot_set_mode = "static" \/ churn_fraction = 0 -> "none"
    [] hot_set_mode # "static" /\ churn_fraction = One -> "full"
    [] OTHER -> "partial"

\* The columns that repeat a dimension of the run under its own name.
CopiedColumns ==
  {"policy", "seed", "epoch_count", "requests_per_node_per_epoch",
   "workload_issue_mode", "burst_size", "burst_interval", "intra_burst_gap",
   "node_phase_jitter", "hot_set_churn_fraction", "cross_node_overlap",
   "object_count", "hot_set_size", "hot_access_probability", "object_size_mode",
   "large_object_probability", "cache_capacity_hotset_multiplier",
   "memory_channel_count", "hot_object_channel_count", "memory_bandwidth_level",
   "memory_base_latency_level", "link_latency_level", "compute_node_count"}

base_row(run, status, error) ==
  [status |-> status, error |-> error, preset |-> run.preset, experiment_name |-> run.run_name,
   contention_weight_profile |-> run.contention_weight_profile.profile,
   contention_weight_name |-> run.contention_weight_profile.weight_name,
   contention_weight_value |-> run.contention_weight_profile.weight_value,
   node_count |-> run.compute_node_count,
   hot_set_mode |-> PresetNamed(run).hot_set_mode,
   hot_set_churn_label |->
     hot_set_churn_label(PresetNamed(run).hot_set_mode, run.hot_set_churn_fraction),
   object_size_bytes |-> PresetNamed(run).object_size_bytes,
   object_size_small_bytes |-> PresetNamed(run).object_size_small_bytes,
   object_size_large_bytes |-> PresetNamed(run).object_size_large_bytes,
   cache_capacity_bytes |-> cache_capacity_bytes(run),
   memory_bandwidth_bytes_per_time |-> memory_bandwidth_bytes_per_time(run),
   memory_base_latency |-> memory_base_latency(run),
   one_way_link_latency |-> one_way_link_latency(run)]
    @@ [c \in CopiedColumns |-> run[c]]

-----------------------------------------------------------------------------
(* verify_dry_run *)

\* The script searches the text of the file for "key: value"; what is found as a
\* whole here is found there, where a longer value would do as well.
RequiredFieldsFound(run, config) ==
  /\ config.workload.compute_node_ids = node_ids_for_run(run)
  /\ config.memory.base_latency = memory_base_latency(run)
  /\ config.memory.bandwidth_bytes_per_time = memory_bandwidth_bytes_per_time(run)
  /\ config.memory.channel_count = run.memory_channel_count
  /\ config.link.one_way_latency = one_way_link_latency(run)
  /\ config.local_cache.capacity_bytes = cache_capacity_bytes(run)
  /\ config.workload.issue_mode = run.workload_issue_mode
  /\ \A field \in {"object_count", "epoch_count", "burst_size", "burst_interval",
                   "intra_burst_gap", "node_phase_jitter", "hot_set_size",
                   "hot_object_channel_count"} :
       config.workload[field] = run[field]
  /\ \A field \in {"hot_access_probability", "large_object_probability"} :
       config.workload[field] = ShortFloat(run[field])
  /\ {"hot_set_churn_fraction", "object_size_mode", "object_size_small_bytes",
      "object_size_large_bytes"} \subseteq DOMAIN config.workload

HasFields(section, fields) ==
  \A field \in DOMAIN fields :
    field \in DOMAIN section /\ section[field] = fields[field]

\* The composite fields, spelled out a second time in verify_dry_run.
CompositeFields(run) ==
  [telemetry_history_epochs |-> 4, telemetry_decay |-> 50,
   local_reuse_gate_threshold |-> 2, local_confirmation_window_epochs |-> 2,
   local_confirmation_bypass_score_margin |-> 100,
   eviction_score_margin |->
     IF run.policy = "contention_aware_smoothed_reuse_gated_hysteresis" THEN 10 ELSE 0]

ContentionFieldsFound(run, cache) ==
  LET variant == contention_variant_for_policy(run.policy)
      weights == contention_weights(run)
  IN variant # Missing =>
       /\ cache.policy = "contention_aware"
       /\ HasFields(cache.contention, [variant |-> variant])
       /\ HasFields(cache.contention, [w \in DOMAIN weights |-> ShortFloat(weights[w])])
       /\ variant = "smoothed_reuse_gated" =>
            HasFields(cache.contention, CompositeFields(run))

HotnessFieldsFound(run, cache) ==
  run.policy \in {"hotness_only_cumulative", "hotness_only_windowed"} =>
    /\ cache.policy = "hotness_only"
    /\ HasFields(cache.hotness, [history_mode |-> hotness_history_mode(run.policy)])
    /\ run.policy = "hotness_only_windowed" =>
         HasFields(cache.hotness, [history_window_epochs |-> 4])

ConfigVerified(run, config) ==
  /\ RequiredFieldsFound(run, config)
  /\ config.local_cache.policy = yaml_policy_name(run.policy)
  /\ ContentionFieldsFound(run, config.local_cache)
  /\ HotnessFieldsFound(run, config.local_cache)

\* One unprofiled baseline, and only profiled contention runs.
WeightStudyVerified(runs, selected_policies) ==
  LET lru_runs == {i \in DOMAIN runs : runs[i].policy = "lru"}
      profiled_runs ==
        {i \in DOMAIN runs : runs[i].policy = "contention_aware_smoothed"}
      profile(i) == runs[i].contention_weight_profile.profile
  IN runs # <<>> /\ runs[1].preset = "eval_contention_weight_sensitivity" =>
       /\ \A i \in lru_runs : profile(i) = <<>>
       /\ \A i \in profiled_runs : profile(i) # <<>>
       /\ ToSet(selected_policies) = ToSet(EVAL_CONTENTION_WEIGHT_POLICIES)
            /\ Len(runs) = 25 =>
              /\ Cardinality(lru_runs) = 1
              /\ Cardinality(profiled_runs) = Len(CONTENTION_WEIGHT_PROFILES)

\* files : what each name's configuration file holds; rows: the list in memory
\* and the aggregate on disk, which has the columns it is written with.
verify_dry_run(runs, rows, selected_policies, files, aggregate) ==
  /\ Cardinality({run.run_name : run \in ToSet(runs)}) = Len(runs)
  /\ {row.run.policy : row \in ToSet(rows)} = ToSet(selected_policies)
  /\ \A run \in ToSet(runs) :
       run.run_name \in DOMAIN files /\ ConfigVerified(run, files[run.run_name])
  /\ Len(aggregate) = Len(runs)
  /\ WeightStudyVerified(runs, selected_policies)
=============================================================================
