---------------------------- MODULE MatrixReports ---------------------------
(***************************************************************************)
(* The two scripts together: what scripts/plot_results.py makes of the     *)
(* aggregate rows that scripts/run_matrix.py writes for its presets.  Both *)
(* keep their own lists of presets, dimensions, policies and columns.      *)
(***************************************************************************)
EXTENDS MatrixConfig, Report

\* A successful row as the CSV file holds it, with metrics; the run it belongs to
\* is kept beside it.
RowOf(run, metrics) ==
  LET row == base_row(run, "success", "")
  IN [column \in {"contention_weight_profile", "contention_weight_name"} |->
        IF run.contention_weight_profile.profile = <<>> THEN Missing ELSE row[column]]
       @@ ("run" :> run) @@ ("output_dir" :> run.run_name) @@ row @@ metrics

\* The aggregate file of an invocation of run_matrix.py whose runs all succeed.
AggregateOf(planned, metrics) ==
  [i \in DOMAIN planned |-> RowOf(planned[i], metrics[i])]

BaselineOf(i) == baseline_by_group(aggregate_rows, args.baseline, i)

\* The rows are those of a complete matrix, the baseline among its policies.
MatrixWithBaseline ==
  /\ \A i \in DOMAIN aggregate_rows : "run" \in DOMAIN aggregate_rows[i]
  /\ args.baseline \in distinct_values(aggregate_rows, "policy")

\* In a matrix that runs the baseline every run has one, those with weights of
\* their own included ("They are not baseline-match keys because the baseline run
\* has blank weight metadata by design", CONDITION_DIMENSIONS); and the two were
\* given the same workload, memory and links: the key the one script matches by
\* says enough, and not too much, about the files the other generates ("the
\* policy-independent experiment key for baseline matching", group_key).
BaselinesAreMatched ==
  step = "comparing" /\ MatrixWithBaseline =>
    \A i \in DOMAIN aggregate_rows :
      /\ BaselineOf(i) # Missing
      /\ LET mine == yaml_config(aggregate_rows[i].run)
             theirs == yaml_config(BaselineOf(i).run)
         IN \A section \in {"memory", "link", "workload"} : mine[section] = theirs[section]

FocusedFigures ==
  {f \in ToSet(figures) :
     f.group \in {"Interaction Studies", "Isolated Parameter Demonstrations",
                  "Contention Weight Sensitivity"}
       \/ f.name = "final_policy_operating_region"}

\* Whatever the focused figures average, they average over seeds: two runs that
\* share a point differ in nothing else ("vary one primary knob while holding the
\* rest of the regime fixed", write_report; "without averaging over churn or RPE",
\* final_policy_operating_region_plot).
FocusedFiguresAverageOnlySeeds ==
  step = "writing" =>
    \A f \in FocusedFigures :
      \A panel \in f.panels : \A point \in PointsOf(panel) : \A row, other \in point :
        \A c \in (GROUP_COLUMNS \ {"seed"}) \cup
                   {"policy", "contention_weight_profile"} :
          row[c] = other[c]
=============================================================================
