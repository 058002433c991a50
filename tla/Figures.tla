------------------------------- MODULE Figures ------------------------------
(***************************************************************************)
(* Which figures scripts/plot_results.py draws for the presets it finds,   *)
(* and what each panel of them shows: some comparison rows, averaged over  *)
(* all dimensions but the panel's keys.                                    *)
(***************************************************************************)
EXTENDS Comparison

-----------------------------------------------------------------------------
(* Report modes *)

FINAL_REPORT_PRESETS ==
  {"eval_final_contention_scaling", "eval_final_node_bandwidth",
   "eval_final_policy_iteration"}

\* The presets whose names start with eval_channel_, eval_interactions_, eval_knob_.
ChannelPresets == {"eval_channel_calibration", "eval_channel_hotspots"}

InteractionNames == {p.name : p \in InteractionPresets}

KnobNames == {p.name : p \in KnobPresets}

detect_report_mode(rows, requested) ==
  LET presets == distinct_values(rows, "preset")
      only(names) == \E preset \in names : presets = {preset}
  IN CASE requested # "auto" -> requested
       [] /\ requested = "auto"
          /\ presets \cap FINAL_REPORT_PRESETS # {}
          /\ presets \subseteq FINAL_REPORT_PRESETS \cup {"eval_bursty_calibration"} ->
            "final_report"
       [] requested = "auto" /\ only(ChannelPresets \cup
            {"eval_contention_calibration", "eval_bursty_calibration"}) ->
            "contention_calibration"
       [] requested = "auto" /\ only({"eval_policy_viability", "eval_policy_iteration"}) ->
            "policy_viability"
       [] requested = "auto" /\ only(InteractionNames) -> "interaction"
       [] requested = "auto" /\ only(KnobNames) -> "parameter_demo"
       [] requested = "auto" /\ only({"eval_contention_weight_sensitivity"}) ->
            "weight_sensitivity"
       [] OTHER -> "generic"

REPORT_DIMENSIONS ==
  CONDITION_DIMENSIONS \cup
    {"memory_base_latency_level", "link_latency_level", "object_size_mode"}

swept_dimensions(rows) ==
  {d \in REPORT_DIMENSIONS : Cardinality(distinct_values(rows, d)) > 1}

-----------------------------------------------------------------------------
(* Panels *)

\* The rows of a panel and the columns of its axes, lines and facets.
Panel(rows, keys) == [rows |-> rows, keys |-> keys]

Figure(name, panels) == [name |-> name, panels |-> panels]

\* The rows that are averaged into one point or cell of a panel: those that share
\* the values of its keys, none of them blank.
PointsOf(panel) ==
  {{row \in ToSet(panel.rows) : \A k \in panel.keys : Cell(row, k) = Cell(point, k)} :
     point \in {row \in ToSet(panel.rows) : \A k \in panel.keys : Cell(row, k) # Missing}}

PolicyBars(name, rows) == Figure(name, {Panel(rows, {"policy"})})

line_sweep_plot(name, rows, x) == Figure(name, {Panel(rows, {"policy", x})})

faceted_line_sweep_plot(name, rows, facet, x) ==
  Figure(name, {Panel(rows, {"policy", facet, x})})

heatmap_by_policy(name, rows, x, y) == Figure(name, {Panel(rows, {"policy", x, y})})

policy_averaged_panel_heatmap(name, rows, x, y) == Figure(name, {Panel(rows, {x, y})})

\* The policies with contention_aware in their names.
ContentionAwarePolicies ==
  POLICIES \ {"always_remote", "lru", "hotness_only", "hotness_only_cumulative",
              "hotness_only_windowed", "global_hottest_replication"}

\* Every row of a scatter plot is a point of its own.
make_viability_scatter(rows) ==
  Figure("viability_scatter",
         {Panel(SelectSeq(rows, LAMBDA row :
                  /\ row.policy \in ContentionAwarePolicies
                  /\ row.stale_telemetry_rate # Missing
                  /\ row.mean_latency_delta_pct # Missing),
                GROUP_COLUMNS \cup {"policy", "contention_weight_profile"})})

-----------------------------------------------------------------------------
(* Bundles *)

\* save_plot_specs: the figures of a bundle are shown under one heading.
save_plot_specs(group, figures) ==
  [i \in DOMAIN figures |-> [group |-> group] @@ figures[i]]

\* The figures of a table of <<required swept dimensions, figure>>.
Wanted(table, swept) ==
  FlattenSeq([i \in DOMAIN table |-> IF table[i][1] \subseteq swept
                                     THEN <<table[i][2]>> ELSE <<>>])

generate_common_plots(rows) ==
  save_plot_specs("Global Average Views",
    <<PolicyBars("policy_latency_overview", rows),
      PolicyBars("policy_cache_memory_overview", rows),
      PolicyBars("latency_delta_vs_baseline", rows),
      PolicyBars("fairness_overview", rows)>>)

generate_generic_plots(rows, swept) ==
  save_plot_specs("Generic Sweeps", Wanted(
    <<<<{"hot_set_churn_fraction"},
        line_sweep_plot("churn_sweep", rows, "hot_set_churn_fraction")>>,
      <<{"requests_per_node_per_epoch"},
        line_sweep_plot("epoch_length_sweep", rows, "requests_per_node_per_epoch")>>,
      <<{"cache_capacity_hotset_multiplier"},
        line_sweep_plot("cache_pressure_sweep", rows,
                        "cache_capacity_hotset_multiplier")>>,
      <<{"memory_bandwidth_level"},
        line_sweep_plot("memory_bottleneck_sweep", rows, "memory_bandwidth_level")>>,
      <<{}, make_viability_scatter(rows)>>>>, swept))

\* The last figure compares policies: with one policy it asks for a dimension that
\* is never swept.
generate_contention_calibration_plots(rows, swept) ==
  save_plot_specs("Contention Calibration", Wanted(
    <<<<{"node_count"},
        faceted_line_sweep_plot("calibration_node_count_pressure", rows,
                                "memory_bandwidth_level", "node_count")>>,
      <<{"node_count", "memory_bandwidth_level"},
        policy_averaged_panel_heatmap("calibration_memory_pressure_heatmap", rows,
                                      "node_count", "memory_bandwidth_level")>>,
      <<{"hot_access_probability"},
        Figure("calibration_hotness_memory_pressure_heatmap",
               {Panel(rows, {"hot_access_probability", y}) :
                  y \in {"cache_capacity_hotset_multiplier", "memory_bandwidth_level"}})>>,
      <<{"memory_bandwidth_level"},
        line_sweep_plot("calibration_bandwidth_pressure", rows,
                        "memory_bandwidth_level")>>,
      <<{"memory_channel_count"},
        line_sweep_plot("calibration_channel_count_pressure", rows,
                        "memory_channel_count")>>,
      <<{"workload_issue_mode"},
        line_sweep_plot("calibration_issue_mode_pressure", rows,
                        "workload_issue_mode")>>,
      <<{"hot_object_channel_count"},
        line_sweep_plot("calibration_channel_hotspot_pressure", rows,
                        "hot_object_channel_count")>>,
      <<{"memory_channel_count", "hot_object_channel_count"},
        policy_averaged_panel_heatmap("calibration_channel_pressure_heatmap", rows,
                                      "memory_channel_count",
                                      "hot_object_channel_count")>>,
      <<{"cross_node_overlap", "hot_access_probability"},
        heatmap_by_policy("calibration_overlap_hotness_heatmap", rows,
                          "hot_access_probability", "cross_node_overlap")>>,
      <<{"cross_node_overlap", "hot_access_probability"},
        policy_averaged_panel_heatmap("calibration_overlap_hotness_concentration", rows,
                                      "hot_access_probability", "cross_node_overlap")>>,
      <<IF Cardinality({row.policy : row \in ToSet(rows)}) > 1 THEN {} ELSE {"policy"},
        PolicyBars("calibration_policy_pressure_reduction", rows)>>>>, swept))

\* The context rows of the best runs have a target and a comparison policy.
generate_policy_viability_plots(rows, swept, best_run_context) ==
  save_plot_specs("Policy Viability Global Views", Wanted(
    <<<<{"hot_set_churn_fraction", "requests_per_node_per_epoch"},
        heatmap_by_policy("viability_churn_epoch_heatmap",
          SelectSeq(rows, LAMBDA row : row.policy \in ContentionAwarePolicies),
          "requests_per_node_per_epoch", "hot_set_churn_fraction")>>,
      <<{"cache_capacity_hotset_multiplier"},
        line_sweep_plot("viability_cache_pressure", rows,
                        "cache_capacity_hotset_multiplier")>>,
      <<{}, make_viability_scatter(rows)>>,
      <<{}, PolicyBars("viability_admission_quality", rows)>>>>, swept))
  \o
  save_plot_specs("Churn-Conditioned Policy Viability", Wanted(
    <<<<{"cache_capacity_hotset_multiplier"} \cup
          (IF distinct_values(rows, "hot_set_churn_fraction") # {} THEN {}
           ELSE {"hot_set_churn_fraction"}),
        faceted_line_sweep_plot("viability_cache_pressure_by_churn", rows,
                                "hot_set_churn_fraction",
                                "cache_capacity_hotset_multiplier")>>,
      <<{"hot_set_churn_fraction"},
        line_sweep_plot("viability_admission_quality_by_churn", rows,
                        "hot_set_churn_fraction")>>,
      <<{"hot_set_churn_fraction"},
        line_sweep_plot("viability_remote_pressure_by_churn", rows,
                        "hot_set_churn_fraction")>>,
      <<{"hot_set_churn_fraction"},
        line_sweep_plot("viability_fairness_by_churn", rows,
                        "hot_set_churn_fraction")>>>>, swept))
  \o
  save_plot_specs("Best Run Examples",
    [i \in 1 .. 2 |->
       Figure(<<"viability_best_run_latency_examples",
                "viability_best_run_pressure_examples">>[i],
              {Panel(best_run_context, {"target_policy", "comparison_policy"})})])

interaction_axes_for_preset(preset) ==
  CASE preset = "eval_interactions_churn_epoch" ->
         {"requests_per_node_per_epoch", "hot_set_churn_fraction"}
    [] preset = "eval_interactions_cache_hotset" ->
         {"cache_capacity_hotset_multiplier", "hot_set_size"}
    [] preset = "eval_interactions_node_bandwidth" ->
         {"node_count", "memory_bandwidth_level"}
    [] OTHER -> {}

parameter_demo_axis_for_preset(preset) ==
  CASE preset = "eval_knob_cache_pressure" -> {"cache_capacity_hotset_multiplier"}
    [] preset = "eval_knob_epoch_reuse" -> {"requests_per_node_per_epoch"}
    [] preset = "eval_knob_object_size_mix" -> {"large_object_probability"}
    [] preset = "eval_knob_hot_concentration" -> {"hot_access_probability"}
    [] OTHER -> {}

OnlyPreset(rows) ==
  LET presets == distinct_values(rows, "preset")
  IN IF Cardinality(presets) = 1 THEN CHOOSE p \in presets : TRUE ELSE ""

\* No axes unless all are swept: then the generic bundle is drawn instead.
FocusedAxes(axes, swept) == IF axes \subseteq swept THEN axes ELSE {}

\* Figures whose names are given, each with a line or a map per policy.
ByPolicyAnd(axes, rows, names) ==
  [i \in DOMAIN names |-> Figure(names[i], {Panel(rows, {"policy"} \cup axes)})]

generate_interaction_plots(rows, swept) ==
  LET axes == FocusedAxes(interaction_axes_for_preset(OnlyPreset(rows)), swept)
  IN IF axes = {} THEN generate_generic_plots(rows, swept)
     ELSE save_plot_specs("Interaction Studies", ByPolicyAnd(axes, rows,
            <<"interaction_mean_latency_delta_heatmap",
              "interaction_memory_wait_heatmap", "interaction_hit_rate_heatmap">>))

generate_parameter_demo_plots(rows, swept) ==
  LET axes == FocusedAxes(parameter_demo_axis_for_preset(OnlyPreset(rows)), swept)
  IN IF axes = {} THEN generate_generic_plots(rows, swept)
     ELSE save_plot_specs("Isolated Parameter Demonstrations", ByPolicyAnd(axes, rows,
            <<"parameter_demo_latency_hit_rate", "parameter_demo_memory_pressure",
              "parameter_demo_admission_quality", "parameter_demo_tail_latency">>))

generate_weight_sensitivity_plots(rows) ==
  LET weighted == SelectSeq(rows, LAMBDA row : row.contention_weight_name # Missing)
      names == <<"weight_sensitivity_latency", "weight_sensitivity_memory_hit_rate",
                 "weight_sensitivity_admission_regret">>
  IN save_plot_specs("Contention Weight Sensitivity",
       [i \in DOMAIN names |->
          faceted_line_sweep_plot(names[i], weighted, "contention_weight_name",
                                  "contention_weight_value")])

-----------------------------------------------------------------------------
(* The figures of the final report *)

final_study_rows(rows, final_preset, fallback_preset) ==
  rows_for_preferred_presets(rows, {final_preset}, {fallback_preset})

RowsOfPolicies(rows, wanted) == SelectSeq(rows, LAMBDA row : row.policy \in wanted)

MechanismPolicies ==
  {"contention_aware_smoothed", "contention_aware_smoothed_reuse_gated",
   "contention_aware_smoothed_reuse_gated_hysteresis", "contention_aware_size_value"}

final_simulator_contention_plot(rows) ==
  Figure("final_simulator_contention",
    {Panel(RowsOfPolicies(final_study_rows(rows, "eval_final_contention_scaling",
                                           "eval_contention_calibration"),
                          {"always_remote", "lru"}),
           {"policy", "memory_bandwidth_level", "node_count"}),
     Panel(RowsOfPolicies(SelectSeq(rows, LAMBDA row :
                            row.preset = "eval_bursty_calibration"),
                          {"always_remote", "lru"}),
           {"policy", "workload_issue_mode"})})

\* The two ends of the bandwidth scale, where the rows have any of them.
final_pressure_policy_scaling_plot(rows) ==
  LET gains == RowsOfPolicies(final_study_rows(rows, "eval_final_node_bandwidth",
                                               "eval_interactions_node_bandwidth"),
                              FINAL_REPORT_POLICY_ORDER \ {"lru"})
      ends == {"mild", "severe"} \cap distinct_values(gains, "memory_bandwidth_level")
  IN Figure("final_pressure_policy_scaling",
       {Panel(SelectSeq(gains, LAMBDA row :
                ends = {} \/ row.memory_bandwidth_level \in ends),
              {"memory_bandwidth_level", "policy", "node_count"})})

\* Mutant: the panels are laid out by churn alone.
final_operating_region_by_churn(rows) ==
  Figure("final_policy_operating_region",
    {Panel(RowsOfPolicies(final_policy_rows(rows), FINAL_REPORT_POLICY_ORDER \ {"lru"}),
           {"hot_set_churn_fraction", "policy", "cache_capacity_hotset_multiplier"})})

final_policy_operating_region_plot(rows) ==
  Figure("final_policy_operating_region",
    {Panel(RowsOfPolicies(final_policy_rows(rows), FINAL_REPORT_POLICY_ORDER \ {"lru"}),
           {"requests_per_node_per_epoch", "hot_set_churn_fraction", "policy",
            "cache_capacity_hotset_multiplier"})})

final_policy_mechanism_plot(rows) ==
  Figure("final_policy_mechanisms",
    {Panel(RowsOfPolicies(final_policy_rows(rows), MechanismPolicies),
           {"policy", "hot_set_churn_fraction"})})

generate_final_report_plots(rows) ==
  save_plot_specs("Final Report Figures",
    <<final_simulator_contention_plot(rows), final_pressure_policy_scaling_plot(rows),
      final_policy_operating_region_plot(rows), final_policy_mechanism_plot(rows)>>)

generate_plots(rows, report_mode, swept, best_run_context) ==
  IF report_mode = "final_report" THEN generate_final_report_plots(rows)
  ELSE generate_common_plots(rows) \o
       CASE report_mode = "contention_calibration" ->
              generate_contention_calibration_plots(rows, swept)
         [] report_mode = "policy_viability" ->
              generate_policy_viability_plots(rows, swept, best_run_context)
         [] report_mode = "interaction" -> generate_interaction_plots(rows, swept)
         [] report_mode = "parameter_demo" -> generate_parameter_demo_plots(rows, swept)
         [] report_mode = "weight_sensitivity" -> generate_weight_sensitivity_plots(rows)
         [] OTHER -> generate_generic_plots(rows, swept)
=============================================================================
