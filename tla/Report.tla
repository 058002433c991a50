-------------------------------- MODULE Report ------------------------------
(***************************************************************************)
(* scripts/plot_results.py as a process: it is invoked again and again     *)
(* with one output directory, reads aggregate files, joins and summarizes  *)
(* their rows, and writes tables, figures and at last the report, unless   *)
(* it refuses its input or is interrupted.                                 *)
(***************************************************************************)
EXTENDS Observations

CONSTANT
  Sessions       \* the command lines of the invocations, one after the other, with
                 \* what the aggregate files hold

\* An invocation names its formats one after the other.
ASSUME SessionsAssumption ==
  \A s \in Sessions :
    Len(s) \in Nat /\ \A i \in 1 .. Len(s) : s[i].formats \in Seq(STRING)

VARIABLES
  session,       \* the invocations there will be
  analysis,      \* how many invocations there were
  args,          \* the Namespace of parse_args
  step,          \* how far main has got
  aggregate_rows,
  comparison_rows,
  best_run_context,
  pending,       \* the files still to be written, the report last
  files,         \* for every file, the invocation that wrote it, or Torn
  report         \* what report.md says

reportVars == <<session, analysis, args, step, aggregate_rows, comparison_rows,
                best_run_context, pending, files, report>>

Torn == 0   \* a file whose writing was cut short

Overwrite(old, f, content) ==
  [g \in DOMAIN old \cup {f} |-> IF g = f THEN content ELSE old[g]]

\* parse_args: the contents of the aggregate files, Missing for a file that does
\* not exist, and the options.
Request(aggregates, baseline, tie_threshold, formats, report_mode) ==
  [aggregates |-> aggregates, baseline |-> baseline, tie_threshold |-> tie_threshold,
   formats |-> formats, report_mode |-> report_mode]

Ended == {"idle", "refused", "done", "interrupted"}

ReportInit ==
  /\ session \in Sessions
  /\ analysis = 0
  /\ args = Missing
  /\ step = "idle"
  /\ aggregate_rows = <<>> /\ comparison_rows = <<>> /\ best_run_context = <<>>
  /\ pending = <<>>
  /\ files = <<>>
  /\ report = Missing

-----------------------------------------------------------------------------
(* main *)

parse_formats(formats) == formats # <<>> /\ ToSet(formats) \subseteq {"svg", "png", "pdf"}

Invoke ==
  /\ step \in Ended /\ analysis < Len(session)
  /\ analysis' = analysis + 1
  /\ args' = session[analysis']
  /\ step' = IF args'.tie_threshold[1] >= 0 /\ parse_formats(args'.formats)
             THEN "loading" ELSE "refused"
  /\ aggregate_rows' = <<>> /\ comparison_rows' = <<>> /\ best_run_context' = <<>>
  /\ pending' = <<>>
  /\ UNCHANGED <<session, files, report>>

\* Without Matplotlib the script tells how to install it and exits.
LoadMatplotlib ==
  /\ step = "loading"
  /\ step' \in {"reading", "refused"}
  /\ UNCHANGED <<session, analysis, args, aggregate_rows, comparison_rows, best_run_context,
                 pending, files, report>>

ReadAggregates ==
  /\ step = "reading"
  /\ IF Missing \in ToSet(args.aggregates) \/ read_aggregate_rows(args.aggregates) = <<>>
     THEN step' = "refused" /\ UNCHANGED aggregate_rows
     ELSE /\ aggregate_rows' = read_aggregate_rows(args.aggregates)
          /\ step' = "comparing"
  /\ UNCHANGED <<session, analysis, args, comparison_rows, best_run_context, pending, files,
                 report>>

report_mode == detect_report_mode(aggregate_rows, args.report_mode)

swept == swept_dimensions(aggregate_rows)

ReportFile == <<"report", "md">>

Tables ==
  << <<"policy_comparison", "csv">>, <<"policy_summary", "csv">>,
     <<"condition_summary", "csv">> >>
  \o (IF report_mode = "policy_viability"
      THEN << <<"viability_best_runs", "csv">>,
              <<"viability_best_run_policy_context", "csv">> >> ELSE <<>>)
  \o (IF report_mode = "final_report" THEN << <<"final_policy_table", "csv">> >>
      ELSE <<>>)

\* save_figure, for all figures.
FigureFiles(figures) ==
  FlattenSeq([i \in DOMAIN figures |->
    [f \in DOMAIN args.formats |-> <<figures[i].name, args.formats[f]>>]])

\* Mutant: the report is written before what it refers to.
FilesReportFirst(figures) == <<ReportFile>> \o Tables \o FigureFiles(figures)

Files(figures) == Tables \o FigureFiles(figures) \o <<ReportFile>>

Compare ==
  /\ step = "comparing"
  /\ comparison_rows' =
       build_policy_comparison(aggregate_rows, args.baseline, args.tie_threshold)
  /\ best_run_context' = IF report_mode = "policy_viability"
                         THEN build_best_run_examples(comparison_rows') ELSE <<>>
  /\ pending' = Files(generate_plots(comparison_rows', report_mode, swept,
                                     best_run_context'))
  /\ step' = "writing"
  /\ UNCHANGED <<session, analysis, args, aggregate_rows, files, report>>

figures == generate_plots(comparison_rows, report_mode, swept, best_run_context)

\* write_report: it lists the tables and shows the figures saved as SVG.
write_report ==
  [analysis |-> analysis, report_mode |-> report_mode, lists |-> ToSet(Tables),
   shows |-> {f \in ToSet(FigureFiles(figures)) : f[2] = "svg"},
   observations |->
     build_observations(comparison_rows, args.baseline, report_mode, swept)]

\* The next table or figure, or the report.
WriteFile ==
  /\ step = "writing"
  /\ files' = Overwrite(files, Head(pending), analysis)
  /\ pending' = Tail(pending)
  /\ report' = IF Head(pending) = ReportFile THEN write_report ELSE report
  /\ step' = IF pending' = <<>> THEN "done" ELSE step
  /\ UNCHANGED <<session, analysis, args, aggregate_rows, comparison_rows, best_run_context>>

\* An interrupt, or an error of the file system or of Matplotlib.
Interrupt ==
  /\ step \notin Ended
  /\ step' = "interrupted"
  /\ files' \in {files} \cup
       (IF step = "writing" THEN {Overwrite(files, Head(pending), Torn)} ELSE {})
  /\ UNCHANGED <<session, analysis, args, aggregate_rows, comparison_rows, best_run_context,
                 pending, report>>

ReportNext ==
  \/ Invoke \/ LoadMatplotlib \/ ReadAggregates \/ Compare \/ WriteFile \/ Interrupt

ReportSpec == ReportInit /\ [][ReportNext]_reportVars

-----------------------------------------------------------------------------
(* Properties *)

\* The panel of a target shows its most improved run, and all in it, compared
\* under one condition, are measured against one baseline run ("show every
\* practical cache policy at the exact same matched matrix condition",
\* build_best_run_examples).
BestRunsLeadTheirPanels ==
  step = "done" =>
    \A target \in {row.target_policy : row \in ToSet(best_run_context)} :
      LET shown == {row \in ToSet(best_run_context) : row.target_policy = target}
          baseline(row) == Minus(row.mean_latency, row.mean_latency_delta)
      IN /\ \E best \in shown :
              /\ best.comparison_policy = target
              /\ \A row \in ToSet(comparison_rows) :
                   row.policy = target /\ row.mean_latency_delta_pct # Missing =>
                     ~ LessThan(row.mean_latency_delta_pct, best.mean_latency_delta_pct)
         /\ \A row, other \in shown : /\ group_key(row) = group_key(other)
                                     /\ SameNumber(baseline(row), baseline(other))

\* The groups of a dimension divide the runs of a policy among them: none is lost
\* or counted twice, and what has no baseline is no win, tie or loss.
SummariesAddUp ==
  LET summary == build_policy_summary(comparison_rows)
      conditions == build_condition_summary(comparison_rows)
  IN /\ \A p \in DOMAIN summary :
          summary[p].win_count + summary[p].tie_count + summary[p].loss_count
            = summary[p].comparable_run_count
     /\ \A dimension \in CONDITION_DIMENSIONS, p \in DOMAIN summary,
          count \in {"run_count", "win_count", "tie_count", "loss_count"} :
          MapThenSumSet(LAMBDA group : conditions[dimension][group][count],
                        {g \in DOMAIN conditions[dimension] : g[2] = p})
            = summary[p][count]

\* Where every seed has as many comparable runs as the others, the mean over the
\* seeds is the mean over the runs.
FinalTableAgrees ==
  LET table == build_final_policy_table(comparison_rows)
      study == SelectSeq(comparison_rows,
                         LAMBDA row : row.preset = "eval_final_policy_iteration")
      summary == build_policy_summary(study)
      runs(p, seed) == Len(comparable(SelectSeq(study, LAMBDA row :
                                        row.policy = p /\ row.seed = seed)))
  IN \A p \in DOMAIN table \cap DOMAIN summary :
       (\A s, t \in distinct_values(RowsOf(study, p), "seed") : runs(p, s) = runs(p, t))
         => /\ SameNumber(table[p].mean["mean_latency_delta_pct"],
                          summary[p].avg_mean_latency_delta_pct)
            /\ table[p].comparable_run_count = summary[p].comparable_run_count

\* The tables of an analysis tell one story: for every dimension the condition
\* summary adds up to the policy summary, blank values and failed runs included,
\* and the final table gives the improvement of the policy summary of the same
\* runs; pilot runs beside final ones change neither ("Use final-study rows when
\* present", rows_for_preferred_presets).
TablesAgree ==
  step = "done" =>
    /\ SummariesAddUp
    /\ report_mode = "final_report" => FinalTableAgrees

\* The report on disk never runs ahead of its tables and figures: whatever it
\* lists or shows was written by the same analysis, or since by a later one that
\* got no further.
ReportIsWrittenLast ==
  ReportFile \in DOMAIN files /\ files[ReportFile] # Torn =>
    /\ report.analysis = files[ReportFile]
    /\ \A f \in report.lists \cup report.shows :
         f \in DOMAIN files /\ (files[f] = Torn \/ files[f] >= report.analysis)

\* "rows with low hot-set-sized stale telemetry" (the wording of the observation)
\* are those with a rate of at most 0.4, one of zero among them.
RowsWithoutStalenessAreLow ==
  step = "done" /\ report_mode # "final_report" =>
    report.observations.stale_telemetry_counts.low[2] =
      Len(SelectSeq(comparison_rows, LAMBDA row :
            /\ row.policy \in ContentionAwarePolicies
            /\ row.stale_telemetry_rate # Missing
            /\ ~ LessThan(Rational(4), row.stale_telemetry_rate)))
=============================================================================
