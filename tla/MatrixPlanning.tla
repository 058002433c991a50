--------------------------- MODULE MatrixPlanning ---------------------------
(***************************************************************************)
(* The first half of main in scripts/run_matrix.py, from the options to    *)
(* the list of runs, beside the configurations written for them and the    *)
(* workload generator that has to serve them.                              *)
(***************************************************************************)
EXTENDS MatrixConfig

CONSTANT Invocations   \* the command lines to plan for

VARIABLES
  args,          \* the Namespace of parse_args, never changed
  phase,         \* how far main has got
  runs           \* the list of MatrixRun

planVars == <<args, phase, runs>>

PlanInit ==
  /\ args \in Invocations
  /\ phase = "parsing"
  /\ runs = <<>>

\* The options are parsed before anything is written.
ParseOptions ==
  /\ phase = "parsing"
  /\ phase' = IF /\ \A d \in DOMAIN args.options : Parses(d, args.options[d])
                 /\ oversized_node_counts(args) = {}
              THEN "planning" ELSE "refused"
  /\ UNCHANGED <<args, runs>>

BuildMatrix ==
  /\ phase = "planning"
  /\ LET combinations == Combinations(args)
         preset == PresetOf(args)
     IN IF \A c \in ToSet(combinations) : Buildable(preset, c)
        THEN /\ runs' = build_runs(preset, combinations)
             /\ phase' = IF args.expect_runs \in {Missing, Len(runs')}
                         THEN "running" ELSE "refused"
        ELSE phase' = "refused" /\ UNCHANGED runs
  /\ UNCHANGED args

PlanNext == ParseOptions \/ BuildMatrix

PlanSpec == PlanInit /\ [][PlanNext]_planVars

-----------------------------------------------------------------------------
(* The workload generator *)

\* The generator's operators, with churn in ten-millionths; nothing is generated.
Generator == INSTANCE HotSets WITH
  WorkloadConfigs <- {}, WholeHotSet <- One, workload <- <<>>, candidates <- <<>>,
  object_cursor <- 0, hot_set_segments <- <<>>, epochs <- <<>>, outcome <- ""

\* The YAML of a run as the generator is given it.
GeneratorConfig(run) ==
  LET config == yaml_config(run)
      workload == config.workload
  IN [node_count |-> Len(workload.compute_node_ids),
      memory_channel_count |-> config.memory.channel_count]
       @@ [field \in {"object_count", "hot_object_channel_count", "hot_set_size",
                      "epoch_count", "hot_set_mode", "hot_set_churn_fraction",
                      "cross_node_overlap"} |-> workload[field]]

\* The run a combination becomes, whether or not it is refused.
Candidate(combination) ==
  MatrixRun(PresetOf(args), combination, NO_CONTENTION_WEIGHT_PROFILE)

-----------------------------------------------------------------------------
(* Properties *)

\* What a policy is compared under: everything about a run but its policy.
Conditions(run) == [d \in Dimensions \ {"policy"} |-> run[d]]

RunsOf(policy) == {run \in ToSet(runs) : run.policy = policy}

\* Whatever is swept and however it is filtered, every selected policy meets
\* every condition that any other policy meets ("so every policy is evaluated
\* against matched workloads and architecture settings", build_runs).
MatchedComparison ==
  phase = "running" =>
    \A p, q \in ToSet(SelectedValues(args).policy) :
      {Conditions(run) : run \in RunsOf(p)} = {Conditions(run) : run \in RunsOf(q)}

ShortFloats(run) ==
  \A d \in {"hot_access_probability", "hot_set_churn_fraction",
            "large_object_probability", "cache_capacity_hotset_multiplier"} :
    ShortFloat(run[d]) = run[d]

\* Runs that differ have different names, hence files and directories of their
\* own, as long as their floats have six significant digits ("a deterministic run
\* name encoding all matrix dimensions", run_slug).
NamesIdentifyRuns ==
  \A run, other \in {r \in ToSet(runs) : ShortFloats(r)} :
    run.run_name = other.run_name => run = other

\* The configurations written for a matrix stand up to the tests that
\* verify_dry_run repeats from its own lists of fields, for every policy and
\* weight profile.
GeneratedConfigsVerify ==
  \A run \in ToSet(runs) : ConfigVerified(run, yaml_config(run))

\* Two policies under the same conditions are given the same simulation but for
\* the policy, and no two labels the same one, bar contention_aware and its alias
\* v1 ("These blocks add policy-specific knobs while keeping the
\* workload/architecture matched", write_yaml_config).
PoliciesDifferOnlyInTheirCache ==
  \A run, other \in {r \in ToSet(runs) : r.contention_weight_profile.profile = <<>>} :
    (run.policy # other.policy /\ Conditions(run) = Conditions(other)) =>
      LET mine == yaml_config(run)
          theirs == yaml_config(other)
      IN /\ \A section \in {"memory", "link", "workload"} :
              mine[section] = theirs[section]
         /\ mine.local_cache.capacity_bytes = theirs.local_cache.capacity_bytes
         /\ {run.policy, other.policy} # {"contention_aware", "contention_aware_v1"} =>
              mine.local_cache # theirs.local_cache

\* The two checks, written in two languages, agree on every combination of a
\* matrix whose floats survive the YAML: nothing the generator would serve is
\* refused, nothing it would refuse gets past ("Mirror workload-generator
\* feasibility checks before launching a long matrix", build_runs).
CapacityCheckMirrorsGenerator ==
  phase = "planning" =>
    \A c \in ToSet(Combinations(args)) :
      ShortFloats(c) =>
        (validate_hot_object_capacity(c, PresetOf(args).hot_set_mode)
           <=> Generator!HasRoom(GeneratorConfig(Candidate(c))))

\* What the comment says without that restriction: no run reaches the generator
\* to be refused there ("so invalid hotspot/overlap combinations fail during
\* dry-run").
PlannedRunsAreServed ==
  phase = "running" =>
    \A run \in ToSet(runs) :
      Generator!validate_synthetic_workload_config(GeneratorConfig(run))
=============================================================================
