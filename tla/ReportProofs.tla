---------------------------- MODULE ReportProofs ----------------------------
(***************************************************************************)
(* Proofs about the process that writes the report, for any sequence of    *)
(* invocations, whatever the aggregate files hold: however often it is     *)
(* refused or interrupted, the report on disk never runs ahead of the      *)
(* tables and figures that it lists and shows.                             *)
(***************************************************************************)
EXTENDS Report, DataProofs

-----------------------------------------------------------------------------
(* The files of an analysis *)

\* A sequence, of whatever values.
IsList(s) == \E V : s \in Seq(V)

\* The tables and figures of the running analysis, in the order of their writing.
Contents == Tables \o FigureFiles(figures)

\* A function on 1 .. n is a sequence.
LEMMA ListIs ==
  ASSUME NEW n \in Nat, NEW s, s = [i \in 1 .. n |-> s[i]]
  PROVE  IsList(s)
<1> DEFINE V == {s[i] : i \in 1 .. n}
<1>1. \A i \in 1 .. n : s[i] \in V
  OBVIOUS
<1>2. s \in [1 .. n -> V]
  BY <1>1
<1>3. s \in Seq(V)
  BY <1>2
<1> QED BY <1>3 DEF IsList

\* The domain of a list is an interval.
LEMMA ListDomain ==
  ASSUME NEW s, IsList(s)
  PROVE  Len(s) \in Nat /\ DOMAIN s = 1 .. Len(s)
BY DEF IsList

\* The concatenation of two lists is one.
LEMMA ListConcat ==
  ASSUME NEW s, IsList(s), NEW t, IsList(t)
  PROVE  IsList(s \o t)
<1>1. PICK V : s \in Seq(V)
  BY DEF IsList
<1>2. PICK W : t \in Seq(W)
  BY DEF IsList
<1>3. PICK U : U = V \cup W
  OBVIOUS
<1>4. s \in Seq(U) /\ t \in Seq(U)
  BY <1>1, <1>2, <1>3
<1>5. s \o t \in Seq(U)
  BY <1>4
<1> QED BY <1>5 DEF IsList

\* The figures of a bundle are a list, whichever its table wants.
LEMMA WantedIsList ==
  ASSUME NEW table, IsList(table), NEW swept_set
  PROVE  IsList(Wanted(table, swept_set))
<1>1. PICK n \in Nat : n = Len(table) /\ DOMAIN table = 1 .. n
  BY ListDomain
<1>2. PICK V : V = {table[i][2] : i \in 1 .. n}
  OBVIOUS
<1>3. PICK held : held = [i \in 1 .. n |-> table[i][2]]
  OBVIOUS
<1>4. PICK kept : kept = {i \in 1 .. n : table[i][1] \subseteq swept_set}
  OBVIOUS
<1>5. PICK s : s = Places(n, held, kept)
  OBVIOUS
<1>6. (\A i \in 1 .. n : held[i] \in V) /\ kept \subseteq 1 .. n
  BY <1>2, <1>3, <1>4
<1>7. FlattenSeq(s) \in Seq(V)
  BY <1>5, <1>6, FlattenFilters
<1>8. PICK t : t = [i \in DOMAIN table |-> IF table[i][1] \subseteq swept_set
                                          THEN <<table[i][2]>> ELSE <<>>]
  OBVIOUS
<1>9. t = s
  <2>1. \A i \in 1 .. n : t[i] = s[i]
    BY <1>1, <1>3, <1>4, <1>5, <1>8 DEF Places
  <2>2. t = [i \in 1 .. n |-> t[i]]
    BY <1>1, <1>8
  <2>3. s = [i \in 1 .. n |-> s[i]]
    BY <1>5 DEF Places
  <2> QED BY <2>1, <2>2, <2>3
<1> QED BY <1>7, <1>8, <1>9 DEF IsList, Wanted

\* So are the figures saved under one heading.
LEMMA SavedIsList ==
  ASSUME NEW group, NEW s, IsList(s)
  PROVE  IsList(save_plot_specs(group, s))
<1>1. PICK n \in Nat : n = Len(s) /\ DOMAIN s = 1 .. n
  BY ListDomain
<1>2. PICK t : t = save_plot_specs(group, s)
  OBVIOUS
<1>3. t = [i \in 1 .. n |-> t[i]]
  BY <1>1, <1>2 DEF save_plot_specs
<1> QED BY <1>2, <1>3, ListIs

\* Every bundle of figures is a list.
LEMMA CommonIsList ==
  ASSUME NEW rows
  PROVE  IsList(generate_common_plots(rows))
<1>1. PICK a, b, c, d :
        generate_common_plots(rows) = save_plot_specs("Global Average Views", <<a, b, c, d>>)
  BY DEF generate_common_plots
<1>2. IsList(<<a, b, c, d>>)
  <2>1. <<a, b, c, d>> \in Seq({a, b, c, d})
    OBVIOUS
  <2> QED BY <2>1 DEF IsList
<1> QED BY <1>1, <1>2, SavedIsList

\* The generic sweeps are a list,
LEMMA GenericIsList ==
  ASSUME NEW rows, NEW swept_set
  PROVE  IsList(generate_generic_plots(rows, swept_set))
<1>1. PICK a, b, c, d, e :
        generate_generic_plots(rows, swept_set)
          = save_plot_specs("Generic Sweeps", Wanted(<<a, b, c, d, e>>, swept_set))
  BY Zenon DEF generate_generic_plots
<1>2. IsList(<<a, b, c, d, e>>)
  <2>1. <<a, b, c, d, e>> \in Seq({a, b, c, d, e})
    OBVIOUS
  <2> QED BY <2>1 DEF IsList
<1> QED BY <1>1, <1>2, SavedIsList, WantedIsList

\* and those of the contention calibration,
LEMMA CalibrationIsList ==
  ASSUME NEW rows, NEW swept_set
  PROVE  IsList(generate_contention_calibration_plots(rows, swept_set))
<1>1. PICK a, b, c, d, e, f, g, h, i, j, k :
        generate_contention_calibration_plots(rows, swept_set)
          = save_plot_specs("Contention Calibration",
                            Wanted(<<a, b, c, d, e, f, g, h, i, j, k>>, swept_set))
  BY Zenon DEF generate_contention_calibration_plots
<1>2. IsList(<<a, b, c, d, e, f, g, h, i, j, k>>)
  <2>1. <<a, b, c, d, e, f, g, h, i, j, k>> \in Seq({a, b, c, d, e, f, g, h, i, j, k})
    OBVIOUS
  <2> QED BY <2>1 DEF IsList
<1> QED BY <1>1, <1>2, SavedIsList, WantedIsList

\* and those of the policy viability study, its panels included.
LEMMA ViabilityIsList ==
  ASSUME NEW rows, NEW swept_set, NEW context
  PROVE  IsList(generate_policy_viability_plots(rows, swept_set, context))
<1> DEFINE examples ==
      [i \in 1 .. 2 |->
         Figure(<<"viability_best_run_latency_examples",
                  "viability_best_run_pressure_examples">>[i],
                {Panel(context, {"target_policy", "comparison_policy"})})]
<1>1. PICK a, b, c, d, e, f, g, h :
        generate_policy_viability_plots(rows, swept_set, context)
          = save_plot_specs("Policy Viability Global Views", Wanted(<<a, b, c, d>>, swept_set))
            \o save_plot_specs("Churn-Conditioned Policy Viability",
                               Wanted(<<e, f, g, h>>, swept_set))
            \o save_plot_specs("Best Run Examples", examples)
  BY Zenon DEF generate_policy_viability_plots
<1>2. IsList(<<a, b, c, d>>) /\ IsList(<<e, f, g, h>>)
  <2>1. <<a, b, c, d>> \in Seq({a, b, c, d}) /\ <<e, f, g, h>> \in Seq({e, f, g, h})
    OBVIOUS
  <2> QED BY <2>1 DEF IsList
<1>3. IsList(examples)
  <2>1. examples = [i \in 1 .. 2 |-> examples[i]]
    OBVIOUS
  <2> HIDE DEF examples
  <2> QED BY <2>1, ListIs
<1> HIDE DEF examples
<1> QED BY <1>1, <1>2, <1>3, SavedIsList, WantedIsList, ListConcat

\* One figure for every name makes a list.
LEMMA NamedIsList ==
  ASSUME NEW axes, NEW rows, NEW names, IsList(names)
  PROVE  IsList(ByPolicyAnd(axes, rows, names))
<1>1. PICK n \in Nat : n = Len(names) /\ DOMAIN names = 1 .. n
  BY ListDomain
<1>2. PICK t : t = ByPolicyAnd(axes, rows, names)
  OBVIOUS
<1>3. t = [i \in 1 .. n |-> t[i]]
  BY <1>1, <1>2 DEF ByPolicyAnd
<1> QED BY <1>2, <1>3, ListIs

\* The figures of the interaction studies are a list, focused or not,
LEMMA InteractionIsList ==
  ASSUME NEW rows, NEW swept_set
  PROVE  IsList(generate_interaction_plots(rows, swept_set))
<1> DEFINE axes == FocusedAxes(interaction_axes_for_preset(OnlyPreset(rows)), swept_set)
           names == <<"interaction_mean_latency_delta_heatmap",
                      "interaction_memory_wait_heatmap", "interaction_hit_rate_heatmap">>
<1>1. CASE axes = {}
  BY <1>1, GenericIsList DEF generate_interaction_plots
<1>2. CASE axes # {}
  <2>1. generate_interaction_plots(rows, swept_set)
          = save_plot_specs("Interaction Studies", ByPolicyAnd(axes, rows, names))
    BY <1>2 DEF generate_interaction_plots
  <2>2. IsList(names)
    <3>1. names = [i \in 1 .. Len(names) |-> names[i]] /\ Len(names) \in Nat
      OBVIOUS
    <3> HIDE DEF names
    <3> QED BY <3>1, ListIs
  <2> HIDE DEF names, axes
  <2>3. IsList(ByPolicyAnd(axes, rows, names))
    BY <2>2, NamedIsList
  <2> QED BY <2>1, <2>3, SavedIsList
<1> QED BY <1>1, <1>2

\* and those of the parameter demonstrations,
LEMMA DemoIsList ==
  ASSUME NEW rows, NEW swept_set
  PROVE  IsList(generate_parameter_demo_plots(rows, swept_set))
<1> DEFINE axes == FocusedAxes(parameter_demo_axis_for_preset(OnlyPreset(rows)), swept_set)
           names == <<"parameter_demo_latency_hit_rate", "parameter_demo_memory_pressure",
                      "parameter_demo_admission_quality", "parameter_demo_tail_latency">>
<1>1. CASE axes = {}
  BY <1>1, GenericIsList DEF generate_parameter_demo_plots
<1>2. CASE axes # {}
  <2>1. generate_parameter_demo_plots(rows, swept_set)
          = save_plot_specs("Isolated Parameter Demonstrations", ByPolicyAnd(axes, rows, names))
    BY <1>2 DEF generate_parameter_demo_plots
  <2>2. IsList(names)
    <3>1. names = [i \in 1 .. Len(names) |-> names[i]] /\ Len(names) \in Nat
      OBVIOUS
    <3> HIDE DEF names
    <3> QED BY <3>1, ListIs
  <2> HIDE DEF names, axes
  <2>3. IsList(ByPolicyAnd(axes, rows, names))
    BY <2>2, NamedIsList
  <2> QED BY <2>1, <2>3, SavedIsList
<1> QED BY <1>1, <1>2

\* and those of the weight sensitivity study,
LEMMA SensitivityIsList ==
  ASSUME NEW rows
  PROVE  IsList(generate_weight_sensitivity_plots(rows))
<1> DEFINE weighted == SelectSeq(rows, LAMBDA row : row.contention_weight_name # Missing)
           names == <<"weight_sensitivity_latency", "weight_sensitivity_memory_hit_rate",
                      "weight_sensitivity_admission_regret">>
           s == [i \in DOMAIN names |->
                   faceted_line_sweep_plot(names[i], weighted, "contention_weight_name",
                                           "contention_weight_value")]
<1>1. generate_weight_sensitivity_plots(rows)
        = save_plot_specs("Contention Weight Sensitivity", s)
  BY Zenon DEF generate_weight_sensitivity_plots
<1>2. DOMAIN names = 1 .. 3
  OBVIOUS
<1> HIDE DEF names, weighted
<1>3. s = [i \in 1 .. 3 |-> s[i]]
  BY <1>2
<1> HIDE DEF s
<1>4. IsList(s)
  BY <1>3, ListIs
<1> QED BY <1>1, <1>4, SavedIsList

\* and those of the final report.
LEMMA FinalIsList ==
  ASSUME NEW rows
  PROVE  IsList(generate_final_report_plots(rows))
<1>1. PICK a, b, c, d :
        generate_final_report_plots(rows)
          = save_plot_specs("Final Report Figures", <<a, b, c, d>>)
  BY Zenon DEF generate_final_report_plots
<1>2. IsList(<<a, b, c, d>>)
  <2>1. <<a, b, c, d>> \in Seq({a, b, c, d})
    OBVIOUS
  <2> QED BY <2>1 DEF IsList
<1> QED BY <1>1, <1>2, SavedIsList

\* The figures of an analysis are a list in every mode.
LEMMA PlotsAreList ==
  ASSUME NEW rows, NEW mode, NEW swept_set, NEW context
  PROVE  IsList(generate_plots(rows, mode, swept_set, context))
<1>1. CASE mode = "final_report"
  BY <1>1, FinalIsList DEF generate_plots
<1>2. CASE mode # "final_report"
  <2>1. PICK bundle :
          /\ IsList(bundle)
          /\ generate_plots(rows, mode, swept_set, context)
               = generate_common_plots(rows) \o bundle
    <3> DEFINE chosen ==
          CASE mode = "contention_calibration" ->
                 generate_contention_calibration_plots(rows, swept_set)
            [] mode = "policy_viability" ->
                 generate_policy_viability_plots(rows, swept_set, context)
            [] mode = "interaction" -> generate_interaction_plots(rows, swept_set)
            [] mode = "parameter_demo" -> generate_parameter_demo_plots(rows, swept_set)
            [] mode = "weight_sensitivity" -> generate_weight_sensitivity_plots(rows)
            [] OTHER -> generate_generic_plots(rows, swept_set)
    <3>1. IsList(chosen)
      BY CalibrationIsList, ViabilityIsList, InteractionIsList, DemoIsList,
         SensitivityIsList, GenericIsList
    <3>2. generate_plots(rows, mode, swept_set, context)
            = generate_common_plots(rows) \o chosen
      BY <1>2 DEF generate_plots
    <3> QED BY <3>1, <3>2
  <2> QED BY <2>1, CommonIsList, ListConcat
<1> QED BY <1>1, <1>2

-----------------------------------------------------------------------------
(* The inductive invariant *)

\* The formats that parse_formats accepts.
Formats == {"svg", "png", "pdf"}

\* The formats of an analysis that goes on are known ones.
FormatsOK ==
  step \in {"loading", "reading", "comparing", "writing"} => args.formats \in Seq(Formats)

\* A file is of an invocation there was, or torn.
FilesOK == \A f \in DOMAIN files : files[f] \in Torn .. analysis

\* All but the first k of the contents c are to be written, and then the report.
Remaining(c, k, p) ==
  /\ IsList(p) /\ Len(p) = Len(c) + 1 - k
  /\ \A i \in 1 .. Len(p) : p[i] = IF k + i <= Len(c) THEN c[k + i] ELSE ReportFile

\* The first k of the contents c were written by the analysis now.
Written(c, k, fs, now) == \A i \in 1 .. k : c[i] \in DOMAIN fs /\ fs[c[i]] = now

\* A prefix of the contents is written, and the rest remains.
WritingOK ==
  step = "writing" =>
    \E k \in 0 .. Len(Contents) : /\ Remaining(Contents, k, pending)
                                  /\ Written(Contents, k, files, analysis)

\* The inductive invariant: it relates what is pending to what is on disk.
ReportInv ==
  /\ session \in Sessions /\ analysis \in Nat
  /\ FormatsOK /\ FilesOK /\ WritingOK /\ ReportIsWrittenLast

-----------------------------------------------------------------------------
(* What is written before the report *)

\* The report is none of the files c, and t and f are among them.
BeforeReport(c, t, f) ==
  /\ \E P : c \in Seq(P) /\ ReportFile \notin P
  /\ t \cup f \subseteq ToSet(c)

\* The tables are CSV files.
LEMMA TablesAreTables ==
  \E P : Tables \in Seq(P) /\ ReportFile \notin P
<1> DEFINE N == {"policy_comparison", "policy_summary", "condition_summary",
                 "viability_best_runs", "viability_best_run_policy_context",
                 "final_policy_table"}
           P == N \X {"csv"}
<1>1. << <<"policy_comparison", "csv">>, <<"policy_summary", "csv">>,
         <<"condition_summary", "csv">> >> \in Seq(P)
  OBVIOUS
<1>2. << <<"viability_best_runs", "csv">>,
         <<"viability_best_run_policy_context", "csv">> >> \in Seq(P)
  OBVIOUS
<1>3. << <<"final_policy_table", "csv">> >> \in Seq(P)
  OBVIOUS
<1>4. <<>> \in Seq(P)
  OBVIOUS
<1>5. ReportFile \notin P
  BY DEF ReportFile
<1> HIDE DEF P
<1>6. PICK a, b, c : /\ Tables = a \o b \o c
                     /\ a \in Seq(P) /\ b \in Seq(P) /\ c \in Seq(P)
  BY <1>1, <1>2, <1>3, <1>4, Zenon DEF Tables
<1>7. a \o b \in Seq(P)
  BY <1>6
<1>8. (a \o b) \o c \in Seq(P)
  BY <1>6, <1>7
<1> QED BY <1>5, <1>6, <1>8

\* The figures are saved in the formats asked for.
LEMMA FiguresAreFigures ==
  ASSUME args.formats \in Seq(Formats), NEW figs, IsList(figs)
  PROVE  \E P : FigureFiles(figs) \in Seq(P) /\ ReportFile \notin P
<1>1. PICK n \in Nat : n = Len(figs) /\ DOMAIN figs = 1 .. n
  BY ListDomain
<1>2. PICK formats \in Seq(Formats) : formats = args.formats
  OBVIOUS
<1>3. PICK m \in Nat : m = Len(formats) /\ DOMAIN formats = 1 .. m
  BY <1>2
<1>4. PICK P : P = {figs[i].name : i \in 1 .. n} \X Formats
  OBVIOUS
<1>5. PICK s : s = [i \in 1 .. n |-> [f \in 1 .. m |-> <<figs[i].name, formats[f]>>]]
  OBVIOUS
<1>6. \A i \in 1 .. n : s[i] \in Seq(P)
  <2> SUFFICES ASSUME NEW i \in 1 .. n PROVE s[i] \in Seq(P)
    OBVIOUS
  <2>1. s[i] = [f \in 1 .. m |-> <<figs[i].name, formats[f]>>]
    BY <1>5
  <2>2. \A f \in 1 .. m : <<figs[i].name, formats[f]>> \in P
    BY <1>2, <1>3, <1>4
  <2>3. s[i] \in [1 .. m -> P]
    BY <2>1, <2>2
  <2> QED BY <2>3
<1>7. s \in Seq(Seq(P))
  <2>1. s \in [1 .. n -> Seq(P)]
    BY <1>5, <1>6
  <2> QED BY <2>1
<1>8. FigureFiles(figs) = FlattenSeq(s)
  BY <1>1, <1>2, <1>3, <1>5 DEF FigureFiles
<1>9. ReportFile \notin P
  BY <1>4 DEF ReportFile, Formats
<1> QED BY <1>7, <1>8, <1>9, FlattenHolds

\* The tables and figures are what the report lists and shows, and not the report.
LEMMA ContentsPrecede ==
  ASSUME args.formats \in Seq(Formats)
  PROVE  BeforeReport(Contents, ToSet(Tables), ToSet(FigureFiles(figures)))
<1>1. PICK P, t : t = Tables /\ t \in Seq(P) /\ ReportFile \notin P
  BY TablesAreTables
<1>2. IsList(figures)
  BY PlotsAreList DEF figures
<1>3. PICK Q, f : f = FigureFiles(figures) /\ f \in Seq(Q) /\ ReportFile \notin Q
  BY <1>2, FiguresAreFigures
<1>4. PICK U : U = P \cup Q
  OBVIOUS
<1>5. t \in Seq(U) /\ f \in Seq(U) /\ ReportFile \notin U
  BY <1>1, <1>3, <1>4
<1>6. t \o f \in Seq(U) /\ ToSet(t \o f) = ToSet(t) \cup ToSet(f)
  BY <1>5, ConcatHolds
<1>7. BeforeReport(t \o f, ToSet(t), ToSet(f))
  BY <1>5, <1>6 DEF BeforeReport
<1> QED BY <1>1, <1>3, <1>7 DEF Contents

-----------------------------------------------------------------------------
(* Writing a file *)

\* The file f, and no other, becomes v.
OneWritten(fs, f, v, gs) ==
  /\ DOMAIN gs = DOMAIN fs \cup {f}
  /\ gs[f] = v
  /\ \A g \in DOMAIN fs : g # f => gs[g] = fs[g]

\* That is what writing a file does.
LEMMA OverwriteIs ==
  ASSUME NEW fs, NEW f, NEW v, NEW gs, gs = Overwrite(fs, f, v)
  PROVE  OneWritten(fs, f, v, gs)
BY DEF Overwrite, OneWritten

\* The claim of a report r about the files fs.
ReportHolds(fs, r) ==
  ReportFile \in DOMAIN fs /\ fs[ReportFile] # Torn =>
    /\ r.analysis = fs[ReportFile]
    /\ \A f \in r.lists \cup r.shows :
         f \in DOMAIN fs /\ (fs[f] = Torn \/ fs[f] >= r.analysis)

\* It survives a file of this analysis, and a torn file.
LEMMA ClaimStands ==
  ASSUME NEW now \in Nat, NEW fs, \A g \in DOMAIN fs : fs[g] \in Torn .. now, NEW r,
         ReportHolds(fs, r), NEW f, NEW v \in {now, Torn}, f = ReportFile => v = Torn,
         NEW gs, gs = Overwrite(fs, f, v)
  PROVE  ReportHolds(gs, r) /\ \A g \in DOMAIN gs : gs[g] \in Torn .. now
<1>1. /\ DOMAIN gs = DOMAIN fs \cup {f}
      /\ gs[f] = v
      /\ \A g \in DOMAIN fs : g # f => gs[g] = fs[g]
  <2>1. OneWritten(fs, f, v, gs)
    BY OverwriteIs
  <2> QED BY <2>1 DEF OneWritten
<1>2. \A g \in DOMAIN gs : gs[g] \in Torn .. now
  BY <1>1 DEF Torn
<1>3. ASSUME ReportFile \in DOMAIN gs, gs[ReportFile] # Torn
      PROVE  /\ r.analysis = gs[ReportFile]
             /\ \A g \in r.lists \cup r.shows :
                  g \in DOMAIN gs /\ (gs[g] = Torn \/ gs[g] >= r.analysis)
  <2>1. f # ReportFile /\ ReportFile \in DOMAIN fs /\ gs[ReportFile] = fs[ReportFile]
    BY <1>1, <1>3
  <2>2. /\ r.analysis = fs[ReportFile]
        /\ \A g \in r.lists \cup r.shows :
             g \in DOMAIN fs /\ (fs[g] = Torn \/ fs[g] >= r.analysis)
    BY <1>3, <2>1 DEF ReportHolds
  <2>3. r.analysis \in Nat /\ now >= r.analysis
    BY <2>1, <2>2 DEF Torn
  <2>4. ASSUME NEW g \in r.lists \cup r.shows
        PROVE  g \in DOMAIN gs /\ (gs[g] = Torn \/ gs[g] >= r.analysis)
    <3>1. CASE g = f
      BY <1>1, <2>3, <3>1
    <3>2. CASE g # f
      BY <1>1, <2>2, <3>2
    <3> QED BY <3>1, <3>2
  <2> QED BY <2>1, <2>2, <2>4
<1> QED BY <1>2, <1>3 DEF ReportHolds

\* One more of the contents is written.
LEMMA NextContent ==
  ASSUME NEW c, NEW P, c \in Seq(P), ReportFile \notin P, NEW k \in 0 .. Len(c) - 1,
         NEW p, Remaining(c, k, p), NEW now, NEW fs, Written(c, k, fs, now),
         NEW gs, gs = Overwrite(fs, Head(p), now)
  PROVE  /\ Head(p) # ReportFile /\ Tail(p) # <<>>
         /\ Remaining(c, k + 1, Tail(p)) /\ Written(c, k + 1, gs, now)
<1>1. PICK n \in Nat : n = Len(c) /\ DOMAIN c = 1 .. n
  OBVIOUS
<1>2. PICK V : p \in Seq(V)
  BY DEF Remaining, IsList
<1>3. Len(p) = n + 1 - k /\ Len(p) >= 2
  BY <1>1 DEF Remaining
<1>4. Head(p) = c[k + 1]
  <2>1. p[1] = c[k + 1]
    BY <1>1, <1>3 DEF Remaining
  <2>2. Head(p) = p[1]
    BY <1>2, <1>3
  <2> QED BY <2>1, <2>2
<1>5. Head(p) # ReportFile
  <2>1. c[k + 1] \in P
    BY <1>1
  <2> QED BY <1>4, <2>1
<1>6. PICK q : q = Tail(p)
  OBVIOUS
<1>7. q \in Seq(V) /\ Len(q) = Len(p) - 1 /\ \A i \in 1 .. Len(q) : q[i] = p[i + 1]
  BY <1>2, <1>3, <1>6
<1>8. Remaining(c, k + 1, q)
  <2>1. \A i \in 1 .. Len(q) :
          q[i] = IF (k + 1) + i <= Len(c) THEN c[(k + 1) + i] ELSE ReportFile
    <3> SUFFICES ASSUME NEW i \in 1 .. Len(q)
                 PROVE  q[i] = IF (k + 1) + i <= Len(c) THEN c[(k + 1) + i] ELSE ReportFile
      OBVIOUS
    <3>1. i + 1 \in 1 .. Len(p) /\ q[i] = p[i + 1]
      BY <1>3, <1>7
    <3>2. p[i + 1] = IF k + (i + 1) <= Len(c) THEN c[k + (i + 1)] ELSE ReportFile
      BY <3>1 DEF Remaining
    <3>3. k + (i + 1) = (k + 1) + i
      BY <1>7
    <3> QED BY <3>1, <3>2, <3>3
  <2>2. Len(q) = Len(c) + 1 - (k + 1)
    BY <1>1, <1>3, <1>7
  <2> QED BY <1>7, <2>1, <2>2 DEF Remaining, IsList
<1>9. Tail(p) # <<>>
  <2>1. Len(q) # 0
    BY <1>3, <1>7
  <2> QED BY <1>6, <2>1
<1>10. Written(c, k + 1, gs, now)
  <2> SUFFICES ASSUME NEW i \in 1 .. k + 1
               PROVE  c[i] \in DOMAIN gs /\ gs[c[i]] = now
    BY DEF Written
  <2>1. /\ DOMAIN gs = DOMAIN fs \cup {Head(p)}
        /\ gs[Head(p)] = now
        /\ \A g \in DOMAIN fs : g # Head(p) => gs[g] = fs[g]
    <3>1. OneWritten(fs, Head(p), now, gs)
      BY OverwriteIs
    <3> QED BY <3>1 DEF OneWritten
  <2>2. CASE i = k + 1
    BY <1>4, <2>1, <2>2
  <2>3. CASE i # k + 1
    <3>1. i \in 1 .. k
      BY <2>3
    <3>2. c[i] \in DOMAIN fs /\ fs[c[i]] = now
      BY <3>1 DEF Written
    <3> QED BY <2>1, <3>2
  <2> QED BY <2>2, <2>3
<1> QED BY <1>5, <1>6, <1>8, <1>9, <1>10

\* The report comes last, and what it lists and shows is of this analysis.
LEMMA LastIsReport ==
  ASSUME NEW c, NEW P, c \in Seq(P), ReportFile \notin P,
         NEW p, Remaining(c, Len(c), p), NEW now \in Nat, NEW fs,
         Written(c, Len(c), fs, now), \A g \in DOMAIN fs : fs[g] \in Torn .. now,
         NEW gs, gs = Overwrite(fs, Head(p), now),
         NEW r, r.analysis = now, r.lists \cup r.shows \subseteq ToSet(c)
  PROVE  /\ Head(p) = ReportFile /\ Tail(p) = <<>>
         /\ ReportHolds(gs, r) /\ \A g \in DOMAIN gs : gs[g] \in Torn .. now
<1>1. PICK n \in Nat : n = Len(c) /\ DOMAIN c = 1 .. n
  OBVIOUS
<1>2. PICK V : p \in Seq(V)
  BY DEF Remaining, IsList
<1>3. Len(p) = 1 /\ p[1] = ReportFile
  <2>1. Len(p) = 1
    BY <1>1 DEF Remaining
  <2>2. p[1] = IF n + 1 <= n THEN c[n + 1] ELSE ReportFile
    BY <1>1, <2>1 DEF Remaining
  <2> QED BY <1>1, <2>1, <2>2
<1>4. Head(p) = ReportFile /\ Tail(p) = <<>>
  <2>1. Head(p) = p[1]
    BY <1>2, <1>3
  <2>2. PICK q : q = Tail(p) /\ q \in Seq(V) /\ Len(q) = 0
    <3>1. Tail(p) \in Seq(V) /\ Len(Tail(p)) = Len(p) - 1
      BY <1>2, <1>3
    <3>2. Len(Tail(p)) = 0
      BY <1>3, <3>1
    <3> QED BY <3>1, <3>2
  <2>3. q = <<>>
    BY <2>2
  <2>4. Tail(p) = <<>>
    BY <2>2, <2>3, Zenon
  <2> QED BY <1>3, <2>1, <2>4, Zenon
<1>5. /\ DOMAIN gs = DOMAIN fs \cup {ReportFile}
      /\ gs[ReportFile] = now
      /\ \A g \in DOMAIN fs : g # ReportFile => gs[g] = fs[g]
  <2>1. OneWritten(fs, Head(p), now, gs)
    BY OverwriteIs
  <2> QED BY <1>4, <2>1 DEF OneWritten
<1>6. ASSUME NEW f \in r.lists \cup r.shows
      PROVE  f \in DOMAIN gs /\ gs[f] >= r.analysis
  <2>1. PICK i \in 1 .. n : f = c[i]
    BY <1>1 DEF ToSet
  <2>2. f # ReportFile
    <3>1. c[i] \in P
      BY <1>1
    <3> QED BY <2>1, <3>1
  <2>3. f \in DOMAIN fs /\ fs[f] = now
    BY <1>1, <2>1 DEF Written
  <2> QED BY <1>5, <2>2, <2>3
<1>7. \A g \in DOMAIN gs : gs[g] \in Torn .. now
  BY <1>5 DEF Torn
<1> QED BY <1>4, <1>5, <1>6, <1>7 DEF ReportHolds

-----------------------------------------------------------------------------
(* Steps *)

\* The contents change with the rows only.
LEMMA ContentsStay ==
  ASSUME UNCHANGED <<args, aggregate_rows, comparison_rows, best_run_context>>
  PROVE  Contents' = Contents
BY DEF Contents, Tables, FigureFiles, figures, report_mode, swept

\* At first all the contents remain.
LEMMA AllRemain ==
  ASSUME NEW c, IsList(c), NEW p, p = c \o <<ReportFile>>
  PROVE  Remaining(c, 0, p)
<1>1. PICK V : c \in Seq(V)
  BY DEF IsList
<1>2. PICK U : U = V \cup {ReportFile}
  OBVIOUS
<1>3. c \in Seq(U) /\ <<ReportFile>> \in Seq(U)
  BY <1>1, <1>2
<1>4. p \in Seq(U)
  BY <1>3
<1>5. Len(p) = Len(c) + 1 - 0
  BY <1>3
<1>6. \A i \in 1 .. Len(p) : p[i] = IF 0 + i <= Len(c) THEN c[0 + i] ELSE ReportFile
  <2>1. PICK n \in Nat : n = Len(c)
    BY <1>1
  <2> SUFFICES ASSUME NEW i \in 1 .. Len(p)
               PROVE  p[i] = IF 0 + i <= Len(c) THEN c[0 + i] ELSE ReportFile
    OBVIOUS
  <2>2. CASE i <= n
    BY <1>3, <2>1, <2>2
  <2>3. CASE ~ i <= n
    <3>1. i = n + 1
      BY <1>5, <2>1, <2>3
    <3>2. p[n + 1] = ReportFile
      BY <1>3, <2>1
    <3> QED BY <2>1, <2>3, <3>1, <3>2
  <2> QED BY <2>2, <2>3
<1> QED BY <1>4, <1>5, <1>6 DEF Remaining, IsList

\* The comparison leaves everything to write, the report last.
LEMMA CompareLeaves ==
  ASSUME Compare, args.formats \in Seq(Formats)
  PROVE  IsList(Contents') /\ Remaining(Contents', 0, pending')
<1>1. PICK figs : figs = generate_plots(comparison_rows', report_mode, swept, best_run_context')
  OBVIOUS
<1>2. IsList(figs)
  BY <1>1, PlotsAreList
<1>3. PICK P, t : t = Tables /\ t \in Seq(P)
  BY TablesAreTables
<1>4. PICK Q, f : f = FigureFiles(figs) /\ f \in Seq(Q)
  BY <1>2, FiguresAreFigures
<1>5. Contents' = t \o f
  BY <1>1, <1>3, <1>4
  DEF Compare, Contents, Tables, FigureFiles, figures, report_mode, swept
<1>6. pending' = t \o f \o <<ReportFile>>
  <2>1. pending' = Files(figs)
    BY <1>1 DEF Compare
  <2> QED BY <1>3, <1>4, <2>1 DEF Files
<1>7. PICK c : c = t \o f
  OBVIOUS
<1>8. IsList(c)
  <2>1. IsList(t) /\ IsList(f)
    BY <1>3, <1>4 DEF IsList
  <2> QED BY <1>7, <2>1, ListConcat
<1>9. PICK p : p = pending'
  OBVIOUS
<1>10. p = c \o <<ReportFile>>
  BY <1>6, <1>7, <1>9
<1>11. Remaining(c, 0, p)
  BY <1>8, <1>10, AllRemain
<1> QED BY <1>5, <1>7, <1>8, <1>9, <1>11

\* The property is the claim of the report about the files.
LEMMA ClaimIs ==
  ReportIsWrittenLast <=> ReportHolds(files, report)
BY DEF ReportIsWrittenLast, ReportHolds

\* What the analysis changes when a file is written.
LEMMA WriteKeeps ==
  ASSUME ReportInv, WriteFile
  PROVE  ReportInv'
<1>1. /\ step = "writing" /\ analysis \in Nat /\ args.formats \in Seq(Formats)
      /\ \A g \in DOMAIN files : files[g] \in Torn .. analysis
      /\ ReportHolds(files, report)
  BY ClaimIs DEF ReportInv, WriteFile, FormatsOK, FilesOK
<1>2. PICK now \in Nat : now = analysis
  BY <1>1
<1>3. PICK fs, gs, p, c : fs = files /\ gs = files' /\ p = pending /\ c = Contents
  OBVIOUS
<1>4. PICK k \in 0 .. Len(c) : Remaining(c, k, p) /\ Written(c, k, fs, now)
  BY <1>1, <1>2, <1>3 DEF ReportInv, WritingOK
<1>5. gs = Overwrite(fs, Head(p), now) /\ pending' = Tail(p)
  BY <1>2, <1>3 DEF WriteFile
<1>6. Contents' = c /\ analysis' = now
  BY <1>2, <1>3, ContentsStay DEF WriteFile
<1>7. BeforeReport(c, ToSet(Tables), ToSet(FigureFiles(figures)))
  BY <1>1, <1>3, ContentsPrecede
<1>8. PICK P : c \in Seq(P) /\ ReportFile \notin P
  BY <1>7 DEF BeforeReport
<1>9. PICK l \in Nat : l = Len(c)
  BY <1>8
<1>10. \A g \in DOMAIN fs : fs[g] \in Torn .. now
  BY <1>1, <1>2, <1>3
<1>11. FormatsOK'
  BY <1>1 DEF FormatsOK, WriteFile
<1>12. session' \in Sessions /\ analysis' \in Nat
  BY <1>2, <1>6 DEF ReportInv, WriteFile
<1>13. CASE k < l
  <2>1. k \in 0 .. Len(c) - 1
    BY <1>9, <1>13
  <2>2. /\ Head(p) # ReportFile /\ Tail(p) # <<>>
        /\ Remaining(c, k + 1, Tail(p)) /\ Written(c, k + 1, gs, now)
    BY <1>4, <1>5, <1>8, <2>1, NextContent
  <2>3. PICK r : r = report /\ r = report'
    BY <1>3, <2>2 DEF WriteFile
  <2>4. ReportHolds(fs, r)
    BY <1>1, <1>3, <2>3
  <2>5. ReportHolds(gs, r) /\ \A g \in DOMAIN gs : gs[g] \in Torn .. now
    BY <1>5, <1>10, <2>2, <2>4, ClaimStands
  <2>6. WritingOK'
    <3>1. k + 1 \in 0 .. Len(c)
      BY <1>9, <1>13
    <3>2. Remaining(c, k + 1, pending') /\ Written(c, k + 1, files', analysis')
      BY <1>3, <1>5, <1>6, <2>2
    <3> QED BY <1>6, <3>1, <3>2 DEF WritingOK
  <2>7. FilesOK'
    BY <1>3, <1>6, <2>5 DEF FilesOK
  <2>8. ReportIsWrittenLast'
    BY <1>3, <2>3, <2>5 DEF ReportIsWrittenLast, ReportHolds
  <2> QED BY <1>11, <1>12, <2>6, <2>7, <2>8 DEF ReportInv
<1>14. CASE ~ k < l
  <2>1. k = Len(c)
    BY <1>9, <1>14
  <2>2. PICK r : r = write_report
    OBVIOUS
  <2>3. r.analysis = now /\ r.lists \cup r.shows \subseteq ToSet(c)
    <3>1. r.analysis = now
      BY <1>2, <2>2 DEF write_report
    <3>2. r.lists \subseteq ToSet(c)
      BY <1>7, <2>2 DEF write_report, BeforeReport
    <3>3. r.shows \subseteq ToSet(c)
      <4>1. r.shows \subseteq ToSet(FigureFiles(figures))
        BY <2>2 DEF write_report
      <4> QED BY <1>7, <4>1 DEF BeforeReport
    <3> QED BY <3>1, <3>2, <3>3
  <2>4. /\ Head(p) = ReportFile /\ Tail(p) = <<>>
        /\ ReportHolds(gs, r) /\ \A g \in DOMAIN gs : gs[g] \in Torn .. now
    <3>1. Remaining(c, Len(c), p) /\ Written(c, Len(c), fs, now)
      BY <1>4, <2>1
    <3> HIDE <1>4, <2>1
    <3> QED BY <1>5, <1>8, <1>10, <2>3, <3>1, LastIsReport
  <2>5. report' = r /\ step' = "done"
    BY <1>3, <1>5, <2>2, <2>4 DEF WriteFile
  <2>6. FilesOK'
    BY <1>3, <1>6, <2>4 DEF FilesOK
  <2>7. ReportIsWrittenLast'
    BY <1>3, <2>4, <2>5 DEF ReportIsWrittenLast, ReportHolds
  <2>8. WritingOK'
    BY <2>5 DEF WritingOK
  <2> QED BY <1>11, <1>12, <2>6, <2>7, <2>8 DEF ReportInv
<1> QED BY <1>4, <1>9, <1>13, <1>14

\* An interrupt leaves at most one torn file.
LEMMA InterruptKeeps ==
  ASSUME ReportInv, Interrupt
  PROVE  ReportInv'
<1>1. PICK now \in Nat : now = analysis
  BY DEF ReportInv
<1>2. PICK fs, gs, r : fs = files /\ gs = files' /\ r = report
  OBVIOUS
<1>3. ReportHolds(fs, r) /\ \A g \in DOMAIN fs : fs[g] \in Torn .. now
  BY <1>1, <1>2, ClaimIs DEF ReportInv, FilesOK
<1>4. analysis' = now /\ report' = r /\ session' = session /\ step' = "interrupted"
  BY <1>1, <1>2 DEF Interrupt
<1>5. gs = fs \/ \E f : gs = Overwrite(fs, f, Torn)
  <2>1. files' = files \/ files' = Overwrite(files, Head(pending), Torn)
    BY DEF Interrupt
  <2> QED BY <1>2, <2>1
<1>6. ReportHolds(gs, r) /\ \A g \in DOMAIN gs : gs[g] \in Torn .. now
  <2>1. CASE gs = fs
    BY <1>3, <2>1
  <2>2. ASSUME NEW f, gs = Overwrite(fs, f, Torn)
        PROVE  ReportHolds(gs, r) /\ \A g \in DOMAIN gs : gs[g] \in Torn .. now
    BY <1>3, <2>2, ClaimStands
  <2> QED BY <1>5, <2>1, <2>2
<1>7. FilesOK'
  BY <1>2, <1>4, <1>6 DEF FilesOK
<1>8. ReportIsWrittenLast'
  BY <1>2, <1>4, <1>6 DEF ReportIsWrittenLast, ReportHolds
<1>9. FormatsOK' /\ WritingOK'
  BY <1>4 DEF FormatsOK, WritingOK
<1> QED BY <1>1, <1>4, <1>7, <1>8, <1>9 DEF ReportInv

\* An invocation goes on with known formats only.
LEMMA InvokeKeeps ==
  ASSUME ReportInv, Invoke
  PROVE  ReportInv'
<1>1. session \in Sessions /\ analysis \in Nat /\ analysis < Len(session)
  BY DEF ReportInv, Invoke
<1>2. analysis + 1 \in 1 .. Len(session) /\ session[analysis + 1].formats \in Seq(STRING)
  <2>1. Len(session) \in Nat /\ \A i \in 1 .. Len(session) : session[i].formats \in Seq(STRING)
    BY <1>1, SessionsAssumption
  <2>2. analysis + 1 \in 1 .. Len(session)
    BY <1>1, <2>1
  <2> QED BY <2>1, <2>2
<1>3. PICK f : f = args'.formats /\ f \in Seq(STRING)
  BY <1>2 DEF Invoke
<1>4. ASSUME step' # "refused"
      PROVE  f \in Seq(Formats)
  <2>1. ToSet(f) \subseteq Formats
    BY <1>3, <1>4 DEF Invoke, parse_formats, Formats
  <2>2. PICK n \in Nat : n = Len(f) /\ DOMAIN f = 1 .. n
    BY <1>3
  <2>3. \A i \in 1 .. n : f[i] \in Formats
    BY <2>1, <2>2 DEF ToSet
  <2>4. f = [i \in 1 .. n |-> f[i]]
    BY <1>3, <2>2
  <2>5. f \in [1 .. n -> Formats]
    BY <2>3, <2>4
  <2> QED BY <2>5
<1>5. FormatsOK'
  BY <1>3, <1>4 DEF FormatsOK
<1>6. FilesOK' /\ analysis' \in Nat /\ session' \in Sessions
  BY <1>1 DEF ReportInv, FilesOK, Invoke, Torn
<1>7. WritingOK'
  BY DEF WritingOK, Invoke
<1>8. ReportIsWrittenLast'
  BY DEF ReportInv, ReportIsWrittenLast, Invoke
<1> QED BY <1>5, <1>6, <1>7, <1>8 DEF ReportInv

\* Before anything is written, the files stay as they are.
LEMMA ReadingKeeps ==
  ASSUME ReportInv, LoadMatplotlib \/ ReadAggregates \/ Compare
  PROVE  ReportInv'
<1>1. /\ UNCHANGED <<session, analysis, args, files, report>>
      /\ step \in {"loading", "reading", "comparing"}
  BY DEF LoadMatplotlib, ReadAggregates, Compare
<1>2. FormatsOK' /\ FilesOK' /\ ReportIsWrittenLast'
  BY <1>1 DEF ReportInv, FormatsOK, FilesOK, ReportIsWrittenLast
<1>3. WritingOK'
  <2>1. CASE Compare
    <3>1. IsList(Contents') /\ Remaining(Contents', 0, pending')
      BY <1>1, <2>1, CompareLeaves DEF ReportInv, FormatsOK
    <3>2. PICK c, n : c = Contents' /\ n = Len(c) /\ n \in Nat
      BY <3>1, ListDomain
    <3>3. 0 \in 0 .. Len(Contents')
      BY <3>2
    <3>4. Written(Contents', 0, files', analysis')
      BY DEF Written
    <3> QED BY <3>1, <3>3, <3>4 DEF WritingOK
  <2>2. CASE LoadMatplotlib \/ ReadAggregates
    BY <2>2 DEF WritingOK, LoadMatplotlib, ReadAggregates
  <2> QED BY <2>1, <2>2
<1> QED BY <1>1, <1>2, <1>3 DEF ReportInv

\* The invariant holds initially.
LEMMA ReportInvInit ==
  ReportInit => ReportInv
BY DEF ReportInit, ReportInv, FormatsOK, FilesOK, WritingOK, ReportIsWrittenLast

\* Every step keeps it.
LEMMA ReportInvStep ==
  ReportInv /\ [ReportNext]_reportVars => ReportInv'
<1> SUFFICES ASSUME ReportInv, [ReportNext]_reportVars
             PROVE  ReportInv'
  OBVIOUS
<1>1. CASE Invoke
  BY <1>1, InvokeKeeps
<1>2. CASE LoadMatplotlib \/ ReadAggregates \/ Compare
  BY <1>2, ReadingKeeps
<1>3. CASE WriteFile
  BY <1>3, WriteKeeps
<1>4. CASE Interrupt
  BY <1>4, InterruptKeeps
<1>5. CASE UNCHANGED reportVars
  <2>1. Contents' = Contents
    BY <1>5, ContentsStay DEF reportVars
  <2>2. WritingOK'
    BY <1>5, <2>1 DEF ReportInv, WritingOK, reportVars
  <2> QED BY <1>5, <2>2 DEF ReportInv, FormatsOK, FilesOK, ReportIsWrittenLast, reportVars
<1> QED BY <1>1, <1>2, <1>3, <1>4, <1>5 DEF ReportNext

\* The report on disk never runs ahead of its tables and figures, through any
\* sequence of invocations, refusals and interrupts (main and write_report).
THEOREM ReportComesLast ==
  ReportSpec => []ReportIsWrittenLast
<1>1. ReportInv => ReportIsWrittenLast
  BY DEF ReportInv
<1> QED BY <1>1, ReportInvInit, ReportInvStep, PTL DEF ReportSpec
=============================================================================
