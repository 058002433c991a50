------------------------------ MODULE MCReport ------------------------------
(* Instances of the reports for TLC. *)
EXTENDS MatrixReports

Tie == <<2, 100>>

\* Two objects, one of them in two epochs.
MCContentionRows(output_dir) ==
  << [epoch |-> 0, object |-> "a", remote_accesses |-> 2, distinct_requesters |-> 2],
     [epoch |-> 0, object |-> "b", remote_accesses |-> 1, distinct_requesters |-> 1],
     [epoch |-> 1, object |-> "a", remote_accesses |-> 2, distinct_requesters |-> 2] >>

-----------------------------------------------------------------------------
(* Studies *)

StudyMetrics(run) ==
  [mean_latency |-> CASE run.policy = "lru" -> 4
                      [] run.policy = "contention_aware_smoothed" -> 3
                      [] OTHER -> 5,
   average_memory_wait |-> run.compute_node_count, local_hit_rate |-> 5,
   stale_telemetry_rate |-> 4]

Study(preset, options) ==
  LET invocation == Invocation(preset, options, FALSE, FALSE, Missing)
      planned == build_runs(PresetOf(invocation), Combinations(invocation))
  IN AggregateOf(planned, [i \in DOMAIN planned |-> StudyMetrics(planned[i])])

Auto(aggregates, baseline) == Request(aggregates, baseline, Tie, <<"svg">>, "auto")

\* Every preset but the largest, which is cut down, in its own mode; the focused
\* ones with two seeds.
StudyRequests ==
  {Auto(<<Study(p, <<>>)>>, "lru") : p \in PRESETS \ {eval_contention_calibration}}
    \cup {Auto(<<Study(p, [seed |-> <<1, 2>>])>>, "lru") :
            p \in InteractionPresets \cup KnobPresets \cup
                    {eval_contention_weight_sensitivity}}
    \cup {Auto(<<Study(eval_contention_calibration,
                       [compute_node_count |-> <<2, 4>>])>>, "always_remote"),
          Auto(<<Study(eval_contention_weight_sensitivity, <<>>)>>,
               "contention_aware_smoothed"),
          Auto(<<Study(eval_final_contention_scaling, <<>>),
                 Study(eval_bursty_calibration, <<>>),
                 Study(eval_final_node_bandwidth, <<>>),
                 Study(eval_final_policy_iteration, <<>>)>>, "lru")}

-----------------------------------------------------------------------------
(* Small tables *)

Failed == -1   \* in the place of a latency: the run failed

\* A row of a study of the churn.  Rates are in tenths.
Run(preset, seed, churn, policy, mean_latency) ==
  [status |-> IF mean_latency = Failed THEN "failed" ELSE "success",
   preset |-> preset, seed |-> seed, hot_set_churn_fraction |-> churn, policy |-> policy,
   experiment_name |-> <<preset, seed, churn, policy>>, output_dir |-> policy,
   mean_latency |-> IF mean_latency = Failed THEN Missing ELSE mean_latency,
   p99_latency |-> IF mean_latency = Failed THEN Missing ELSE mean_latency,
   local_hit_rate |-> seed + (IF policy = "lru" THEN 5 ELSE 6), stale_telemetry_rate |-> churn]

Smoothed == "contention_aware_smoothed"

Latencies == {Missing, 0, 2, 3}

\* Two conditions in two files; the hotness policy meets one of them only.
ChurnTables ==
  {<< <<Run("viability", 1, 0, "lru", a), Run("viability", 1, 0, Smoothed, b),
        Run("viability", 1, 5, Smoothed, c)>>,
      <<Run("viability", 1, 5, "lru", d), Run("viability", 1, 0, "hotness_only", 2)>> >> :
     a, b, c, d \in Latencies}

\* A condition that two files have a baseline run for.
RepeatedTables ==
  {<< <<Run("viability", 1, 0, "lru", a), Run("viability", 1, 0, Smoothed, 2)>>,
      <<Run("viability", 1, 0, "lru", b), Run("viability", 1, 0, "hotness_only", 2)>> >> :
     a, b \in Latencies}

\* Final runs under two seeds, and pilot runs that differ from them.
SeedTables(latencies) ==
  {<< <<Run("eval_final_policy_iteration", 1, 0, "lru", a),
        Run("eval_final_policy_iteration", 1, 0, Smoothed, b)>>,
      <<Run("eval_final_policy_iteration", 2, 0, "lru", c),
        Run("eval_final_policy_iteration", 2, 0, Smoothed, d)>>,
      <<Run("eval_policy_iteration", 1, 0, "lru", 2),
        Run("eval_policy_iteration", 1, 0, Smoothed, 8)>> >> :
     a, b, c, d \in latencies}

TableRequests ==
  {Request(table, "lru", tie, <<"svg">>, "policy_viability") :
     table \in ChurnTables \cup RepeatedTables, tie \in {<<0, 1>>, <<1, 2>>}}
    \cup {Request(table, "lru", Tie, <<"svg">>, "final_report") :
            table \in SeedTables(Latencies \cup {Failed})}

\* The modes one after the other in one directory, refused requests among them.
OneTable(preset) ==
  << <<Run(preset, 1, 0, "lru", 2), Run(preset, 1, 0, Smoothed, 3),
       Run(preset, 1, 5, Smoothed, 3)>> >>

RerunRequests ==
  {Request(OneTable("quick"), "lru", Tie, formats, mode) :
     formats \in {<<"svg">>, <<"png", "svg">>},
     mode \in {"policy_viability", "final_report", "generic"}}
    \cup {Request(OneTable("quick"), "lru", Tie, <<"svg">>, mode) :
            mode \in {"contention_calibration", "interaction", "parameter_demo",
                     "weight_sensitivity"}}
    \cup {Auto(<<Missing>>, "lru"), Auto(<< <<Run("quick", 1, 0, "lru", Failed)>> >>, "lru"),
          Request(OneTable("quick"), "lru", Tie, <<"gif">>, "auto"),
          Request(OneTable("quick"), "lru", <<-1, 1>>, <<"svg">>, "auto")}

-----------------------------------------------------------------------------
(* Sessions *)

TableSessions == {<<request>> : request \in TableRequests}

\* A study or a small table by itself, and any two of the reruns.
MCSessions ==
  {<<request>> : request \in StudyRequests} \cup TableSessions
    \cup {<<first, second>> : first \in RerunRequests, second \in RerunRequests}
=============================================================================
