------------------------------ MODULE MCMatrix ------------------------------
(* Instances of the matrix planning for TLC.                                  *)
EXTENDS MatrixPlanning

DryRun(preset, options) == Invocation(preset, options, TRUE, FALSE, Missing)

\* Every preset as it stands, and with two seeds where that stays small.
PresetInvocations ==
  {DryRun(p, <<>>) : p \in PRESETS}
    \cup {DryRun(p, [seed |-> <<1, 2>>]) :
            p \in {quick, phase_e, eval_contention_weight_sensitivity,
                   eval_final_node_bandwidth, eval_bursty_calibration}}

\* Small object universes around the limits of the capacity check.
TightWorkloads(objects, churn) ==
  {DryRun(quick, [policy |-> <<"lru">>, cross_node_overlap |-> <<"low", "medium", "high">>,
                  object_count |-> <<o>>, compute_node_count |-> <<n>>,
                  hot_set_size |-> <<h>>, hot_set_churn_fraction |-> churn,
                  memory_channel_count |-> <<channels>>,
                  hot_object_channel_count |-> <<hot>>]) :
     o \in objects, n \in 1 .. 3, h \in 1 .. 3, channels \in {1, 3, 4},
     hot \in 0 .. 2}

IntegerOptions ==
  {"seed", "compute_node_count", "object_count", "epoch_count",
   "requests_per_node_per_epoch", "burst_size", "burst_interval",
   "intra_burst_gap", "node_phase_jitter", "hot_set_size",
   "memory_channel_count", "hot_object_channel_count"}

FloatOptions ==
  {"hot_access_probability", "hot_set_churn_fraction",
   "large_object_probability", "cache_capacity_hotset_multiplier"}

\* One option each, with items the parsers accept and items they refuse.
OptionInvocations ==
  {DryRun(quick, d :> <<Missing, item>>) :
     d \in IntegerOptions, item \in {Unparsable, -1, 0, 1, 5}}
    \cup {DryRun(quick, d :> <<item, 0>>) :
            d \in FloatOptions, item \in {Unparsable, -1, 1, One, One + 1}}
    \cup {DryRun(quick, d :> <<item>>) :
            d \in Dimensions \ (IntegerOptions \cup FloatOptions),
            item \in {"lru", "mild", "high", "bimodal", "scheduled_bursty", Unparsable}}
    \cup {DryRun(quick, d :> <<Missing>>) : d \in Dimensions}

MCPlanInvocations ==
  PresetInvocations \cup OptionInvocations
    \cup TightWorkloads({6, 14}, Hundredths(<<0, 30, 50, 100>>))
    \cup {DryRun(quick, [burst_interval |-> <<2, 3>>, burst_size |-> <<1, 4>>,
                         workload_issue_mode |-> <<"scheduled_bursty">>,
                         intra_burst_gap |-> <<gap>>]) : gap \in 0 .. 2}
    \cup {Invocation(quick, <<>>, TRUE, FALSE, n) : n \in {5, 6}}

\* Fractions of seven digits, which ":g" cuts to six in the YAML.
FineChurn ==
  {DryRun(quick, [policy |-> <<"lru">>, compute_node_count |-> <<1>>,
                  object_count |-> <<o>>, hot_set_size |-> <<3>>,
                  cross_node_overlap |-> <<"high">>,
                  hot_set_churn_fraction |-> <<6666666>>]) : o \in 4 .. 7}
=============================================================================
