------------------------------ MODULE MCRunner ------------------------------
(* The runner on matrices planned by the model of build_runs, with the        *)
(* configurations of write_yaml_config.                                       *)
EXTENDS MatrixRunner, MatrixConfig

JobOf(invocation) ==
  [runs |-> build_runs(PresetOf(invocation), Combinations(invocation)),
   policies |-> SelectedValues(invocation).policy,
   dry_run |-> invocation.dry_run, keep_going |-> invocation.keep_going]

\* Two runs of one policy or of two, dry and real, the real ones with and without
\* --keep-going; and a policy given twice.
SmallOptions ==
  {[policy |-> <<"lru">>, compute_node_count |-> <<1, 2>>, hot_set_size |-> <<2>>,
    cross_node_overlap |-> <<"low">>, hot_set_churn_fraction |-> <<0>>,
    cache_capacity_hotset_multiplier |-> <<One>>],
   [policy |-> <<"hotness_only", "lru">>, compute_node_count |-> <<1>>, hot_set_size |-> <<2>>,
    cross_node_overlap |-> <<"low">>, hot_set_churn_fraction |-> <<0>>,
    cache_capacity_hotset_multiplier |-> <<One>>, seed |-> <<1>>]}

RepeatedPolicy ==
  [policy |-> <<"lru", "lru">>, compute_node_count |-> <<1>>, hot_set_size |-> <<2>>,
   cross_node_overlap |-> <<"low">>, hot_set_churn_fraction |-> <<0>>,
   cache_capacity_hotset_multiplier |-> <<One>>]

NoCombination ==
  [memory_channel_count |-> <<2>>, hot_object_channel_count |-> <<4>>]

SmallJobs ==
  {JobOf(Invocation(quick, options, mode[1], mode[2], Missing)) :
     options \in SmallOptions,
     mode \in {<<TRUE, FALSE>>, <<FALSE, FALSE>>, <<FALSE, TRUE>>}}

MCJobs ==
  SmallJobs
    \cup {JobOf(Invocation(quick, RepeatedPolicy, dry_run, FALSE, Missing)) :
            dry_run \in BOOLEAN}
    \cup {JobOf(Invocation(quick, NoCombination, TRUE, FALSE, Missing))}
=============================================================================
