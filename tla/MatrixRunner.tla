---------------------------- MODULE MatrixRunner ----------------------------
(***************************************************************************)
(* The second half of main in scripts/run_matrix.py: for every run of the  *)
(* matrix a configuration is written, simulated in a subprocess and        *)
(* summarised, and the rows are written to aggregate_summary.csv at the    *)
(* end.  The script may fail or be interrupted anywhere and be invoked     *)
(* again on the same results directory, where everything written before    *)
(* is still lying about.                                                   *)
(***************************************************************************)
EXTENDS Integers, Sequences, FiniteSets

CONSTANTS
  Jobs,              \* the invocations that got as far as their list of runs
  Config(_),         \* what write_yaml_config writes for a run
  Verifies(_, _, _, _, _),  \* what verify_dry_run accepts
  None,              \* no file, no metrics, no job yet
  MaxInvocations     \* bound: how often the script is invoked

RunsOfJobs == UNION {{job.runs[i] : i \in DOMAIN job.runs} : job \in Jobs}

ASSUME JobsAssumption ==
  /\ \A job \in Jobs : /\ job.runs \in Seq(RunsOfJobs)
                       /\ job.dry_run \in BOOLEAN /\ job.keep_going \in BOOLEAN
  /\ None \notin Jobs
  /\ MaxInvocations \in Nat

Names == {r.run_name : r \in RunsOfJobs}

Configurations == {Config(r) : r \in RunsOfJobs}

VARIABLES
  invocations,   \* how often the script was invoked
  job,           \* the runs, policies and switches of this invocation
  step,          \* where main is, or how it ended
  position,      \* the index of the current run
  rows,          \* the list of aggregate rows, in memory
  configs,       \* the configuration file of each name
  outputs,       \* the simulator's output directory of each name
  aggregate      \* aggregate_summary.csv

runnerVars ==
  <<invocations, job, step, position, rows, configs, outputs, aggregate>>

Active == {"loop", "simulating", "simulated", "failed", "raising", "verifying"}

Ended == {"finished", "stopped", "refused", "aborted"}

current_run == job.runs[position]

\* Mutant: one directory for the runs of a policy.
output_dir_of_policy(r) ==
  (CHOOSE other \in RunsOfJobs : other.policy = r.policy).run_name

\* The directory is a child of results_dir with the name of the run.
output_dir(r) == r.run_name

\* What a simulation leaves: the configuration it was of, the invocation that
\* started it, and whether it wrote all its files.
SimulatorOutput(complete) ==
  [config |-> configs[current_run.run_name], invocation |-> invocations, complete |-> complete]

OutputsWith(output) == [outputs EXCEPT ![output_dir(current_run)] = output]

\* Mutant: the files are read whatever became of the run.
summarize_run_always(r, status) ==
  [run |-> r, status |-> status, metrics |-> outputs[output_dir(r)]]

\* summarize_run: the dimensions, and the metrics of what the output directory
\* holds only if the run succeeded.
summarize_run(r, status) ==
  [run |-> r, status |-> status,
   metrics |-> IF status = "success" THEN outputs[output_dir(r)] ELSE None]

-----------------------------------------------------------------------------

RunnerInit ==
  /\ invocations = 0 /\ job = None
  /\ step = "idle" /\ position = 1
  /\ rows = <<>>
  /\ configs = [name \in Names |-> None]
  /\ outputs = [name \in Names |-> None]
  /\ aggregate = None

Invoke ==
  /\ step \in Ended \cup {"idle"}
  /\ invocations < MaxInvocations
  /\ invocations' = invocations + 1
  /\ job' \in Jobs
  /\ step' = "loop" /\ position' = 1
  /\ rows' = <<>>
  /\ UNCHANGED <<configs, outputs, aggregate>>

WritesConfig == configs' = [configs EXCEPT ![current_run.run_name] = Config(current_run)]

\* An iteration of a dry run.
PlanRun ==
  /\ step = "loop" /\ position <= Len(job.runs)
  /\ job.dry_run
  /\ WritesConfig
  /\ rows' = Append(rows, summarize_run(current_run, "dry_run"))
  /\ position' = position + 1
  /\ UNCHANGED <<invocations, job, step, outputs, aggregate>>

\* The configuration is written and the simulator started.
StartRun ==
  /\ step = "loop" /\ position <= Len(job.runs)
  /\ ~ job.dry_run
  /\ WritesConfig
  /\ step' = "simulating"
  /\ UNCHANGED <<invocations, job, position, rows, outputs, aggregate>>

SimulatorSucceeds ==
  /\ step = "simulating"
  /\ outputs' = OutputsWith(SimulatorOutput(TRUE))
  /\ step' = "simulated"
  /\ UNCHANGED <<invocations, job, position, rows, configs, aggregate>>

\* A simulator that fails has left nothing, or some of its files among older ones.
SimulatorFails ==
  /\ step = "simulating"
  /\ outputs' \in {outputs, OutputsWith(SimulatorOutput(FALSE))}
  /\ step' = "failed"
  /\ UNCHANGED <<invocations, job, position, rows, configs, aggregate>>

SummarizeSuccess ==
  /\ step = "simulated"
  /\ rows' = Append(rows, summarize_run(current_run, "success"))
  /\ position' = position + 1
  /\ step' = "loop"
  /\ UNCHANGED <<invocations, job, configs, outputs, aggregate>>

\* Mutants: a failed run is tried again; its exception leaves main at once; it is
\* passed over whether or not that was asked for.
FailureRetried ==
  /\ step = "failed"
  /\ step' = IF job.keep_going THEN "loop" ELSE "raising"
  /\ UNCHANGED <<invocations, job, position, rows, configs, outputs, aggregate>>

FailureRaisedAtOnce ==
  /\ step = "failed"
  /\ rows' = Append(rows, summarize_run(current_run, "failed"))
  /\ position' = position + 1
  /\ step' = IF job.keep_going THEN "loop" ELSE "stopped"
  /\ UNCHANGED <<invocations, job, configs, outputs, aggregate>>

FailurePassedOver ==
  /\ step = "failed"
  /\ rows' = Append(rows, summarize_run(current_run, "failed"))
  /\ position' = position + 1
  /\ step' = "loop"
  /\ UNCHANGED <<invocations, job, configs, outputs, aggregate>>

\* The handler of CalledProcessError.
SummarizeFailure ==
  /\ step = "failed"
  /\ rows' = Append(rows, summarize_run(current_run, "failed"))
  /\ position' = position + 1
  /\ step' = IF job.keep_going THEN "loop" ELSE "raising"
  /\ UNCHANGED <<invocations, job, configs, outputs, aggregate>>

\* The aggregate is written when all runs are done, or before the exception of a
\* failed one is raised again.
WritesAggregate == step = "raising" \/ (step = "loop" /\ position > Len(job.runs))

write_aggregate_csv ==
  /\ WritesAggregate
  /\ aggregate' = rows
  /\ step' = CASE step = "raising" -> "stopped"
               [] step # "raising" /\ job.dry_run -> "verifying"
               [] OTHER -> "finished"
  /\ UNCHANGED <<invocations, job, position, rows, configs, outputs>>

VerifyDryRun ==
  /\ step = "verifying"
  /\ step' = IF Verifies(job.runs, rows, job.policies, configs, aggregate)
             THEN "finished" ELSE "refused"
  /\ UNCHANGED <<invocations, job, position, rows, configs, outputs, aggregate>>

\* Ctrl-C, a missing binary, a full disk: every other exception ends main where it
\* is, with a simulation or the aggregate half written.
Interrupt ==
  /\ step \in Active
  /\ step' = "aborted"
  /\ \/ UNCHANGED <<outputs, aggregate>>
     \/ /\ step = "simulating"
        /\ outputs' = OutputsWith(SimulatorOutput(FALSE))
        /\ UNCHANGED aggregate
     \/ /\ WritesAggregate
        /\ \E n \in 0 .. Len(rows) : aggregate' = SubSeq(rows, 1, n)
        /\ UNCHANGED outputs
  /\ UNCHANGED <<invocations, job, position, rows, configs>>

\* What main does by itself once it is in the loop.
Script ==
  \/ PlanRun \/ StartRun
  \/ SimulatorSucceeds \/ SimulatorFails
  \/ SummarizeSuccess \/ SummarizeFailure
  \/ write_aggregate_csv \/ VerifyDryRun

RunnerNext == Invoke \/ Script \/ Interrupt

RunnerSpec == RunnerInit /\ [][RunnerNext]_runnerVars

\* The script is sequential and a simulation ends.
FairRunnerSpec == RunnerSpec /\ WF_runnerVars(Script)

-----------------------------------------------------------------------------
(* Properties *)

Outputs == [config : Configurations, invocation : Nat, complete : BOOLEAN]

Rows == [run : RunsOfJobs, status : {"success", "failed", "dry_run"},
         metrics : Outputs \cup {None}]

\* The values the variables of main take.
RunnerTypeOK ==
  /\ invocations \in Nat
  /\ job \in Jobs \cup {None}
  /\ step \in Active \cup Ended \cup {"idle"}
  /\ step # "idle" => job \in Jobs
  /\ position \in Nat
  /\ rows \in Seq(Rows)
  /\ configs \in [Names -> Configurations \cup {None}]
  /\ outputs \in [Names -> Outputs \cup {None}]
  /\ aggregate \in Seq(Rows) \cup {None}

\* The rows are those of the first runs of the matrix, in order and one each, and
\* a failure is the last of them unless --keep-going was given.
RowsFollowRuns ==
  job # None =>
    /\ Len(rows) <= Len(job.runs)
    /\ \A i \in DOMAIN rows :
         /\ rows[i].run = job.runs[i]
         /\ (rows[i].status = "dry_run") = job.dry_run
         /\ rows[i].status = "failed" /\ ~ job.keep_going =>
              i = Len(rows) /\ step \in {"raising", "stopped", "aborted"}

\* A row has metrics only if its run succeeded, and then those of a simulation of
\* its own configuration, complete and started by this invocation, whatever the
\* output directory holds from before.
MetricsAreFresh ==
  \A i \in DOMAIN rows :
    IF rows[i].status = "success"
    THEN rows[i].metrics = [config |-> Config(rows[i].run),
                            invocation |-> invocations, complete |-> TRUE]
    ELSE rows[i].metrics = None

\* However main ends but by an interrupt, the aggregate on disk holds every row of
\* this invocation and no other: one for each run, or all up to the failure.
AggregateIsPublished ==
  /\ step \in {"finished", "refused", "verifying"} =>
       aggregate = rows /\ Len(rows) = Len(job.runs)
  /\ step = "stopped" =>
       /\ aggregate = rows /\ rows # <<>>
       /\ rows[Len(rows)].status = "failed" /\ ~ job.keep_going

NamesDiffer ==
  \A i, j \in DOMAIN job.runs :
    job.runs[i].run_name = job.runs[j].run_name => i = j

\* After an invocation that was not interrupted, every row with metrics describes
\* what is in its output directory, as long as the names differ: a later run of
\* the matrix does not overwrite an earlier one.
AggregateDescribesOutputs ==
  step \in {"finished", "stopped"} /\ NamesDiffer =>
    \A i \in DOMAIN aggregate :
      aggregate[i].status = "success" =>
        outputs[output_dir(aggregate[i].run)] = aggregate[i].metrics

\* Every invocation comes to an end, failures and all.
EveryInvocationEnds == step \in Active ~> step \in Ended

\* main seen as a batch job in the sense of BatchJob.
JobSize == IF job = None THEN 0 ELSE Len(job.runs)

KeepsGoing == IF job = None THEN FALSE ELSE job.keep_going

Statuses == [i \in DOMAIN rows |-> rows[i].status]

JobState ==
  CASE step = "idle" -> "idle"
    [] step \in Active -> "active"
    [] step = "aborted" -> "aborted"
    [] step \in {"finished", "stopped", "refused"} -> "over"

Batch == INSTANCE BatchJob WITH
  size <- JobSize, keep_going <- KeepsGoing, results <- Statuses, state <- JobState

\* The rows appear, and the job ends, as those of a batch job do.
ImplementsBatchJob == Batch!Spec
=============================================================================
