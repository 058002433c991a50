---------------------------- MODULE MatrixPresets ---------------------------
(***************************************************************************)
(* The tables of scripts/run_matrix.py: policies, named levels, score      *)
(* weights, and the presets with the values each of them sweeps.           *)
(* A float is an integer number of ten-millionths.                         *)
(***************************************************************************)
EXTENDS Integers, SequencesExt, TLC

CONSTANT Missing   \* Python's None, and a blank cell of a CSV file

One == 10000000

\* The `:g` format keeps six significant digits.
SixDigitGrid(x) ==
  CASE x < One \div 10 -> 1 [] x \in One \div 10 .. One - 1 -> 10
    [] x \in One .. 10 * One - 1 -> 100 [] OTHER -> 1000

ShortFloat(x) ==
  ((x + SixDigitGrid(x) \div 2) \div SixDigitGrid(x)) * SixDigitGrid(x)

\* Floats that the source writes with at most two decimals.
Hundredths(values) == [i \in DOMAIN values |-> values[i] * (One \div 100)]

-----------------------------------------------------------------------------
(* Policies *)

BASE_POLICIES ==
  <<"always_remote", "lru", "hotness_only", "global_hottest_replication",
    "contention_aware">>

CONTENTION_VARIANT_POLICIES ==
  <<"contention_aware_v1", "contention_aware_smoothed",
    "contention_aware_reuse_gated", "contention_aware_hysteresis">>

PHASE_E_DEFAULT_POLICIES ==
  <<"lru", "hotness_only", "hotness_only_cumulative", "hotness_only_windowed",
    "global_hottest_replication">> \o CONTENTION_VARIANT_POLICIES

EVAL_CONTENTION_CALIBRATION_POLICIES == <<"always_remote", "lru">>

EVAL_POLICY_VIABILITY_POLICIES ==
  <<"lru", "hotness_only_windowed", "global_hottest_replication">>
    \o CONTENTION_VARIANT_POLICIES

EVAL_FINAL_NODE_BANDWIDTH_POLICIES ==
  <<"lru", "hotness_only_windowed", "contention_aware_smoothed",
    "contention_aware_smoothed_reuse_gated_hysteresis",
    "contention_aware_size_value">>

EVAL_POLICY_ITERATION_POLICIES ==
  <<"lru", "hotness_only_windowed", "contention_aware_smoothed",
    "contention_aware_smoothed_reuse_gated",
    "contention_aware_smoothed_reuse_gated_hysteresis",
    "contention_aware_size_value">>

EVAL_INTERACTION_POLICIES ==
  <<"lru", "hotness_only_windowed", "contention_aware_smoothed",
    "contention_aware_reuse_gated", "contention_aware_hysteresis">>

EVAL_KNOB_POLICIES ==
  <<"lru", "hotness_only_windowed", "contention_aware_smoothed">>

EVAL_CONTENTION_WEIGHT_POLICIES == <<"lru", "contention_aware_smoothed">>

EVAL_CHANNEL_CALIBRATION_POLICIES == <<"always_remote", "lru">>

EVAL_CHANNEL_HOTSPOT_POLICIES ==
  <<"lru", "hotness_only_windowed", "contention_aware_smoothed">>

EVAL_BURSTY_CALIBRATION_POLICIES == <<"always_remote", "lru">>

POLICIES ==
  ToSet(BASE_POLICIES) \cup ToSet(CONTENTION_VARIANT_POLICIES) \cup
  {"hotness_only_cumulative", "hotness_only_windowed",
   "contention_aware_smoothed_reuse_gated",
   "contention_aware_smoothed_reuse_gated_hysteresis",
   "contention_aware_size_value"}

-----------------------------------------------------------------------------
(* Levels, names and weights *)

MEMORY_BANDWIDTH_BYTES_PER_TIME_BY_LEVEL ==
  [mild |-> 64, moderate |-> 16, severe |-> 4]

MEMORY_BASE_LATENCY_BY_LEVEL == [low |-> 10, medium |-> 25, high |-> 75]

LINK_LATENCY_BY_LEVEL == [low |-> 2, medium |-> 6, high |-> 20]

\* Mutant: the gated policy and the gated one with hysteresis share a token.
RUN_NAME_ALIASES_SHARED ==
  [contention_aware_smoothed_reuse_gated |-> "ca_srg",
   contention_aware_smoothed_reuse_gated_hysteresis |-> "ca_srg"]

RUN_NAME_ALIASES ==
  [eval_final_contention_scaling |-> "final_scale",
   eval_final_node_bandwidth |-> "final_node_bw",
   eval_final_policy_iteration |-> "final_policy",
   eval_policy_iteration |-> "policy_iter",
   eval_interactions_churn_epoch |-> "int_churn_epoch",
   eval_interactions_cache_hotset |-> "int_cache_hotset",
   eval_interactions_node_bandwidth |-> "int_node_bw",
   contention_aware_smoothed |-> "ca_smoothed",
   contention_aware_smoothed_reuse_gated |-> "ca_srg",
   contention_aware_smoothed_reuse_gated_hysteresis |-> "ca_srg_hyst",
   contention_aware_size_value |-> "ca_size_value",
   contention_aware_reuse_gated |-> "ca_reuse_gated",
   contention_aware_hysteresis |-> "ca_hysteresis",
   eval_knob_cache_pressure |-> "knob_cache",
   eval_knob_epoch_reuse |-> "knob_epoch",
   eval_knob_object_size_mix |-> "knob_size_mix",
   eval_knob_hot_concentration |-> "knob_hotp",
   eval_contention_weight_sensitivity |-> "weight_sensitivity",
   eval_channel_calibration |-> "chcal",
   eval_channel_hotspots |-> "chhot",
   eval_bursty_calibration |-> "burstcal",
   completion_driven |-> "comp",
   scheduled_bursty |-> "burst"]

run_name_token(value) ==
  IF value \in DOMAIN RUN_NAME_ALIASES THEN RUN_NAME_ALIASES[value] ELSE value

DEFAULT_CONTENTION_WEIGHTS ==
  [local_hotness_weight |-> One, remote_access_weight |-> One,
   distinct_requester_weight |-> 3 * (One \div 2), queue_wait_weight |-> 2 * One,
   remote_service_time_weight |-> One, size_penalty_weight |-> One \div 2,
   cost_density_weight |-> 0]

CONTENTION_WEIGHT_SWEEPS ==
  <<<<"local_hotness_weight", Hundredths(<<0, 50, 100, 200>>)>>,
    <<"remote_access_weight", Hundredths(<<0, 50, 100, 200>>)>>,
    <<"distinct_requester_weight", Hundredths(<<0, 100, 150, 300>>)>>,
    <<"queue_wait_weight", Hundredths(<<0, 100, 200, 400>>)>>,
    <<"remote_service_time_weight", Hundredths(<<0, 50, 100, 200>>)>>,
    <<"size_penalty_weight", Hundredths(<<0, 25, 50, 100>>)>>>>

CONTENTION_WEIGHT_NAME_TOKENS ==
  [local_hotness_weight |-> "lh", remote_access_weight |-> "ra",
   distinct_requester_weight |-> "dr", queue_wait_weight |-> "qw",
   remote_service_time_weight |-> "rs", size_penalty_weight |-> "sp",
   cost_density_weight |-> "cd"]

\* A profile's name is the token of its weight and profile_value_token.
ContentionWeightProfile(weight_name, weight_value) ==
  [profile |-> <<CONTENTION_WEIGHT_NAME_TOKENS[weight_name],
                 ShortFloat(weight_value)>>,
   weight_name |-> weight_name, weight_value |-> weight_value]

NO_CONTENTION_WEIGHT_PROFILE ==
  [profile |-> <<>>, weight_name |-> "", weight_value |-> Missing]

CONTENTION_WEIGHT_PROFILES ==
  FlattenSeq([s \in DOMAIN CONTENTION_WEIGHT_SWEEPS |->
    [v \in DOMAIN CONTENTION_WEIGHT_SWEEPS[s][2] |->
       ContentionWeightProfile(CONTENTION_WEIGHT_SWEEPS[s][1],
                               CONTENTION_WEIGHT_SWEEPS[s][2][v])]])

-----------------------------------------------------------------------------
(* Presets *)

\* What a preset sweeps by the defaults of the class MatrixPreset: requests
\* paced by completions, one memory channel, hot objects anywhere.
DefaultSweeps ==
  [workload_issue_mode |-> <<"completion_driven">>, burst_size |-> <<4>>,
   burst_interval |-> <<100>>, intra_burst_gap |-> <<1>>,
   node_phase_jitter |-> <<0>>, memory_channel_count |-> <<1>>,
   hot_object_channel_count |-> <<0>>]

\* Values that every preset spells out, and that are the same in each.
CommonSweeps ==
  [memory_base_latency_level |-> <<"medium">>, link_latency_level |-> <<"medium">>]

BurstyArrivals ==
  [workload_issue_mode |-> <<"scheduled_bursty">>, burst_size |-> <<4>>,
   burst_interval |-> <<20>>, intra_burst_gap |-> <<1>>,
   node_phase_jitter |-> <<5>>]

TwoHotChannelsOfFour ==
  [memory_channel_count |-> <<4>>, hot_object_channel_count |-> <<2>>]

\* MatrixPreset: its name, the size of its pool of compute nodes 1, 2, ..., and
\* per dimension the sequence of values it sweeps.
MatrixPreset(name, pool, sweep) ==
  [name |-> name, compute_node_ids |-> [n \in 1 .. pool |-> n],
   memory_node_id |-> 99, cache_hit_latency |-> 1, object_size_bytes |-> 64,
   object_size_small_bytes |-> 64, object_size_large_bytes |-> 256,
   hot_set_mode |-> "epoch_shift", sweep |-> sweep @@ CommonSweeps @@ DefaultSweeps]

\* The regime of the first presets: small caches, a hot set replaced as a whole.
PolicyComparison(nodes, requests, epochs) ==
  [compute_node_count |-> <<nodes>>, object_count |-> <<128>>,
   large_object_probability |-> Hundredths(<<10>>),
   cache_capacity_hotset_multiplier |-> Hundredths(<<50>>),
   memory_bandwidth_level |-> <<"moderate">>,
   requests_per_node_per_epoch |-> <<requests>>, epoch_count |-> <<epochs>>,
   hot_set_size |-> <<8>>, hot_access_probability |-> Hundredths(<<80>>),
   hot_set_churn_fraction |-> Hundredths(<<100>>),
   cross_node_overlap |-> <<"medium">>, object_size_mode |-> <<"fixed">>]

quick == MatrixPreset("quick", 4, PolicyComparison(4, 16, 3))

phase8 == MatrixPreset("phase8", 8, PolicyComparison(8, 512, 10))

phase_b ==
  MatrixPreset("phase_b", 8,
    [object_count |-> <<256>>, large_object_probability |-> Hundredths(<<20>>),
     cache_capacity_hotset_multiplier |-> Hundredths(<<100>>),
     requests_per_node_per_epoch |-> <<16, 64, 256, 1024>>,
     hot_set_churn_fraction |-> Hundredths(<<0, 25, 50, 75, 100>>),
     cross_node_overlap |-> <<"low", "medium", "high">>,
     object_size_mode |-> <<"fixed", "bimodal">>]
      @@ PolicyComparison(8, 16, 8))

phase_c ==
  MatrixPreset("phase_c", 16,
    [compute_node_count |-> <<4, 8>>, object_count |-> <<256>>,
     large_object_probability |-> Hundredths(<<20>>),
     cache_capacity_hotset_multiplier |-> Hundredths(<<50, 100, 200>>),
     memory_bandwidth_level |-> <<"moderate", "severe">>,
     hot_set_churn_fraction |-> Hundredths(<<50>>)]
      @@ PolicyComparison(8, 256, 8))

phase_e ==
  MatrixPreset("phase_e", 16,
    [object_count |-> <<256>>, large_object_probability |-> Hundredths(<<20>>),
     memory_bandwidth_level |-> <<"severe">>,
     requests_per_node_per_epoch |-> <<16, 64>>,
     hot_set_churn_fraction |-> Hundredths(<<25, 50>>)]
      @@ PolicyComparison(8, 16, 8))

\* The regime of the evaluation presets: slow memory, hot sets that all nodes
\* share, objects of two sizes, caches of half a hot set.
Contended(nodes, requests, churn) ==
  [compute_node_count |-> <<nodes>>, object_count |-> <<256>>,
   large_object_probability |-> Hundredths(<<10>>),
   cache_capacity_hotset_multiplier |-> Hundredths(<<50>>),
   memory_bandwidth_level |-> <<"severe">>,
   requests_per_node_per_epoch |-> <<requests>>, epoch_count |-> <<32>>,
   hot_set_size |-> <<16>>, hot_access_probability |-> Hundredths(<<80>>),
   hot_set_churn_fraction |-> Hundredths(<<churn>>),
   cross_node_overlap |-> <<"high">>, object_size_mode |-> <<"bimodal">>]

eval_contention_calibration ==
  MatrixPreset("eval_contention_calibration", 16,
    [compute_node_count |-> <<2, 4, 8, 16>>, object_count |-> <<1024>>,
     cache_capacity_hotset_multiplier |-> Hundredths(<<20, 50, 80>>),
     memory_bandwidth_level |-> <<"mild", "moderate", "severe">>,
     hot_access_probability |-> Hundredths(<<60, 80, 95>>),
     cross_node_overlap |-> <<"low", "medium", "high">>]
      @@ BurstyArrivals @@ TwoHotChannelsOfFour @@ Contended(8, 8, 30))

eval_final_contention_scaling ==
  MatrixPreset("eval_final_contention_scaling", 16,
    [compute_node_count |-> <<2, 4, 8, 16>>, object_count |-> <<1024>>,
     memory_bandwidth_level |-> <<"mild", "moderate", "severe">>]
      @@ BurstyArrivals @@ TwoHotChannelsOfFour @@ Contended(8, 8, 30))

eval_policy_viability ==
  MatrixPreset("eval_policy_viability", 16,
    [cache_capacity_hotset_multiplier |-> Hundredths(<<20, 40, 60, 80>>),
     requests_per_node_per_epoch |-> <<4, 8>>,
     hot_set_churn_fraction |-> Hundredths(<<10, 20, 30, 40, 50>>)]
      @@ BurstyArrivals @@ TwoHotChannelsOfFour @@ Contended(16, 8, 30))

PolicyIterationSweeps ==
  [cache_capacity_hotset_multiplier |-> Hundredths(<<20, 40, 60>>),
   requests_per_node_per_epoch |-> <<4, 16>>,
   hot_set_churn_fraction |-> Hundredths(<<10, 30, 50>>)]

eval_policy_iteration ==
  MatrixPreset("eval_policy_iteration", 16,
    PolicyIterationSweeps @@ TwoHotChannelsOfFour @@ Contended(16, 4, 30))

eval_final_policy_iteration ==
  MatrixPreset("eval_final_policy_iteration", 16,
    PolicyIterationSweeps
      @@ BurstyArrivals @@ TwoHotChannelsOfFour @@ Contended(16, 4, 30))

eval_channel_calibration ==
  MatrixPreset("eval_channel_calibration", 16,
    [memory_channel_count |-> <<1, 2, 4, 8>>, epoch_count |-> <<16>>,
     object_size_mode |-> <<"fixed">>]
      @@ Contended(8, 128, 20))

eval_channel_hotspots ==
  MatrixPreset("eval_channel_hotspots", 16,
    [memory_channel_count |-> <<4>>, hot_object_channel_count |-> <<1, 2, 4>>,
     epoch_count |-> <<16>>]
      @@ Contended(8, 128, 20))

eval_bursty_calibration ==
  MatrixPreset("eval_bursty_calibration", 16,
    [workload_issue_mode |-> <<"completion_driven", "scheduled_bursty">>,
     node_phase_jitter |-> <<0>>, epoch_count |-> <<16>>]
      @@ BurstyArrivals @@ TwoHotChannelsOfFour @@ Contended(8, 8, 20))

eval_interactions_churn_epoch ==
  MatrixPreset("eval_interactions_churn_epoch", 16,
    [requests_per_node_per_epoch |-> <<8, 16, 32, 64>>,
     hot_set_churn_fraction |-> Hundredths(<<0, 25, 50, 75, 100>>)]
      @@ Contended(8, 8, 20))

eval_interactions_cache_hotset ==
  MatrixPreset("eval_interactions_cache_hotset", 16,
    [cache_capacity_hotset_multiplier |-> Hundredths(<<20, 40, 60, 80>>),
     hot_set_size |-> <<8, 16, 32>>]
      @@ TwoHotChannelsOfFour @@ Contended(8, 4, 30))

eval_interactions_node_bandwidth ==
  MatrixPreset("eval_interactions_node_bandwidth", 16,
    [compute_node_count |-> <<4, 8, 16>>,
     memory_bandwidth_level |-> <<"mild", "moderate", "severe">>]
      @@ TwoHotChannelsOfFour @@ Contended(8, 4, 30))

eval_final_node_bandwidth ==
  MatrixPreset("eval_final_node_bandwidth", 16,
    [compute_node_count |-> <<4, 8, 16>>,
     memory_bandwidth_level |-> <<"mild", "severe">>]
      @@ BurstyArrivals @@ TwoHotChannelsOfFour @@ Contended(8, 4, 30))

eval_knob_cache_pressure ==
  MatrixPreset("eval_knob_cache_pressure", 16,
    [cache_capacity_hotset_multiplier |->
       Hundredths(<<10, 20, 30, 40, 50, 60, 80, 100>>)]
      @@ TwoHotChannelsOfFour @@ Contended(8, 8, 20))

eval_knob_epoch_reuse ==
  MatrixPreset("eval_knob_epoch_reuse", 16,
    [requests_per_node_per_epoch |-> <<4, 8, 16, 32, 64, 128>>]
      @@ Contended(8, 8, 20))

eval_knob_object_size_mix ==
  MatrixPreset("eval_knob_object_size_mix", 16,
    [large_object_probability |-> Hundredths(<<0, 5, 10, 20, 30>>)]
      @@ Contended(8, 8, 20))

eval_knob_hot_concentration ==
  MatrixPreset("eval_knob_hot_concentration", 16,
    [hot_access_probability |-> Hundredths(<<50, 60, 70, 80, 90, 95>>)]
      @@ Contended(8, 8, 20))

eval_contention_weight_sensitivity ==
  MatrixPreset("eval_contention_weight_sensitivity", 16, Contended(8, 8, 20))

InteractionPresets ==
  {eval_interactions_churn_epoch, eval_interactions_cache_hotset,
   eval_interactions_node_bandwidth}

KnobPresets ==
  {eval_knob_cache_pressure, eval_knob_epoch_reuse, eval_knob_object_size_mix,
   eval_knob_hot_concentration}

PRESETS ==
  InteractionPresets \cup KnobPresets \cup
  {quick, phase8, phase_b, phase_c, phase_e, eval_contention_calibration,
   eval_final_contention_scaling, eval_policy_viability, eval_policy_iteration,
   eval_final_policy_iteration, eval_channel_calibration,
   eval_channel_hotspots, eval_bursty_calibration, eval_final_node_bandwidth,
   eval_contention_weight_sensitivity}

\* The policies main compares when the invocation names none.
default_policies(preset) ==
  CASE preset.name = "phase_e" -> PHASE_E_DEFAULT_POLICIES
    [] preset.name \in {"eval_contention_calibration",
                        "eval_final_contention_scaling"} ->
         EVAL_CONTENTION_CALIBRATION_POLICIES
    [] preset.name = "eval_channel_calibration" -> EVAL_CHANNEL_CALIBRATION_POLICIES
    [] preset.name = "eval_channel_hotspots" -> EVAL_CHANNEL_HOTSPOT_POLICIES
    [] preset.name = "eval_bursty_calibration" -> EVAL_BURSTY_CALIBRATION_POLICIES
    [] preset.name = "eval_policy_viability" -> EVAL_POLICY_VIABILITY_POLICIES
    [] preset.name \in {"eval_policy_iteration", "eval_final_policy_iteration"} ->
         EVAL_POLICY_ITERATION_POLICIES
    [] preset.name = "eval_final_node_bandwidth" -> EVAL_FINAL_NODE_BANDWIDTH_POLICIES
    [] preset \in InteractionPresets -> EVAL_INTERACTION_POLICIES
    [] preset \in KnobPresets -> EVAL_KNOB_POLICIES
    [] preset.name = "eval_contention_weight_sensitivity" ->
         EVAL_CONTENTION_WEIGHT_POLICIES
    [] OTHER -> BASE_POLICIES
=============================================================================
