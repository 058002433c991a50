------------------------- MODULE MatrixRunnerProofs -------------------------
(***************************************************************************)
(* What main of run_matrix.py guarantees for every matrix, whatever fails  *)
(* or is interrupted and however often it is invoked again.                *)
(***************************************************************************)
EXTENDS MatrixRunner, SequenceTheorems, TLAPS

\* Where main is in the list of runs.
Progress ==
  /\ step = "idle" => job = None /\ rows = <<>>
  /\ step # "idle" => /\ job \in Jobs
                      /\ Len(rows) = position - 1
                      /\ position <= Len(job.runs) + 1

\* What is on disk while a run is being simulated.
DuringRun ==
  step \in {"simulating", "simulated", "failed"} =>
    /\ position <= Len(job.runs) /\ ~ job.dry_run
    /\ step = "simulating" => configs[current_run.run_name] = Config(current_run)
    /\ step = "simulated" =>
         outputs[output_dir(current_run)]
           = [config |-> Config(current_run), invocation |-> invocations, complete |-> TRUE]

\* Why an exception is about to be raised again.
Raising ==
  step = "raising" =>
    rows # <<>> /\ rows[Len(rows)].status = "failed" /\ ~ job.keep_going

RunnerInv ==
  /\ RunnerTypeOK
  /\ Progress
  /\ DuringRun
  /\ Raising
  /\ RowsFollowRuns
  /\ MetricsAreFresh
  /\ AggregateIsPublished

\* The run at a position of the list has a name and a configuration.
LEMMA RunOfJob ==
  ASSUME NEW j \in Jobs, NEW i \in 1 .. Len(j.runs)
  PROVE  /\ j.runs[i] \in RunsOfJobs
         /\ j.runs[i].run_name \in Names
         /\ output_dir(j.runs[i]) \in Names
         /\ Config(j.runs[i]) \in Configurations
<1>1. j.runs[i] \in RunsOfJobs
  BY JobsAssumption
<1> QED BY <1>1 DEF Names, Configurations, output_dir

\* What an invocation that has begun can rely on.
LEMMA JobFacts ==
  ASSUME RunnerInv, step # "idle"
  PROVE  /\ job \in Jobs /\ job # None
         /\ job.dry_run \in BOOLEAN /\ job.keep_going \in BOOLEAN
         /\ job.runs \in Seq(RunsOfJobs) /\ Len(job.runs) \in Nat
         /\ rows \in Seq(Rows) /\ Len(rows) \in Nat
         /\ position \in Nat \ {0} /\ Len(rows) = position - 1
         /\ position <= Len(job.runs) + 1
<1>1. /\ job \in Jobs /\ rows \in Seq(Rows) /\ position \in Nat
      /\ Len(rows) = position - 1 /\ position <= Len(job.runs) + 1
  BY DEF RunnerInv, RunnerTypeOK, Progress
<1>2. /\ job.runs \in Seq(RunsOfJobs) /\ job # None
      /\ job.dry_run \in BOOLEAN /\ job.keep_going \in BOOLEAN
  BY <1>1, JobsAssumption
<1>3. Len(rows) \in Nat /\ Len(job.runs) \in Nat
  BY <1>1, <1>2
<1> QED BY <1>1, <1>2, <1>3

\* Appending a row leaves the others where they are.
LEMMA AppendRow ==
  ASSUME NEW list \in Seq(Rows), NEW r \in Rows
  PROVE  /\ Append(list, r) \in Seq(Rows)
         /\ Len(Append(list, r)) = Len(list) + 1
         /\ DOMAIN Append(list, r) = 1 .. Len(list) + 1
         /\ \A i \in DOMAIN list : i \in 1 .. Len(list) /\ Append(list, r)[i] = list[i]
         /\ Append(list, r)[Len(list) + 1] = r
         /\ Append(list, r) # <<>>
OBVIOUS

\* Before the first invocation there is nothing to be wrong about.
THEOREM RunnerInvInit == RunnerInit => RunnerInv
<1> SUFFICES ASSUME RunnerInit PROVE RunnerInv
  OBVIOUS
<1> USE DEF RunnerInit
<1>1. RunnerTypeOK
  BY DEF RunnerTypeOK, Ended, Active
<1>2. Progress /\ DuringRun /\ Raising
  BY DEF Progress, DuringRun, Raising
<1>3. RowsFollowRuns /\ MetricsAreFresh /\ AggregateIsPublished
  BY DEF RowsFollowRuns, MetricsAreFresh, AggregateIsPublished
<1> QED BY <1>1, <1>2, <1>3 DEF RunnerInv

\* An invocation starts from an empty list of rows and whatever is on disk.
LEMMA InvokeKeepsInv == RunnerInv /\ Invoke => RunnerInv'
<1> SUFFICES ASSUME RunnerInv, Invoke PROVE RunnerInv'
  OBVIOUS
<1>1. job' \in Jobs /\ job'.runs \in Seq(RunsOfJobs) /\ Len(job'.runs) \in Nat
  BY JobsAssumption DEF Invoke
<1>2. RunnerTypeOK'
  BY <1>1 DEF Invoke, RunnerInv, RunnerTypeOK, Active
<1>3. Progress' /\ DuringRun' /\ Raising'
  BY <1>1 DEF Invoke, RunnerInv, Progress, DuringRun, Raising
<1>4. RowsFollowRuns' /\ MetricsAreFresh' /\ AggregateIsPublished'
  BY <1>1 DEF Invoke, RowsFollowRuns, MetricsAreFresh, AggregateIsPublished
<1> QED BY <1>2, <1>3, <1>4 DEF RunnerInv

\* A row of the run at hand, appended while the position moves on, keeps the list
\* in step with the matrix.
LEMMA RecordKeepsRows ==
  ASSUME RunnerInv, NEW status \in {"success", "failed", "dry_run"},
         step \in {"loop", "simulated", "failed"}, position <= Len(job.runs),
         (status = "dry_run") = job.dry_run,
         status = "success" => step = "simulated",
         rows' = Append(rows, summarize_run(current_run, status)),
         position' = position + 1,
         UNCHANGED <<invocations, job>>,
         step' \in {"loop", "raising"},
         status = "failed" /\ ~ job.keep_going => step' = "raising",
         step' = "raising" => status = "failed" /\ ~ job.keep_going
  PROVE  /\ rows' \in Seq(Rows) /\ position' \in Nat
         /\ Progress' /\ DuringRun' /\ Raising'
         /\ RowsFollowRuns' /\ MetricsAreFresh' /\ AggregateIsPublished'
<1> DEFINE r == summarize_run(current_run, status)
<1>1. /\ job \in Jobs /\ job # None /\ position \in Nat
      /\ Len(job.runs) \in Nat /\ Len(rows) = position - 1
      /\ rows \in Seq(Rows) /\ position \in 1 .. Len(job.runs)
  BY JobsAssumption DEF RunnerInv, RunnerTypeOK, Progress
<1>2. /\ current_run \in RunsOfJobs
      /\ output_dir(current_run) \in Names
  BY <1>1, RunOfJob DEF current_run
<1>3. r.metrics = IF status = "success"
                  THEN [config |-> Config(current_run),
                        invocation |-> invocations, complete |-> TRUE]
                  ELSE None
  BY DEF summarize_run, RunnerInv, DuringRun
<1>4. r \in Rows /\ r.run = current_run /\ r.status = status
  BY <1>2 DEF summarize_run, Rows, RunnerInv, RunnerTypeOK
<1> HIDE DEF r
<1>5. /\ rows' \in Seq(Rows) /\ Len(rows') = position
      /\ DOMAIN rows' = 1 .. position
      /\ \A i \in DOMAIN rows' : i # position => i \in DOMAIN rows /\ rows'[i] = rows[i]
      /\ rows'[position] = r /\ rows' # <<>>
  BY <1>1, <1>4, AppendRow DEF r
<1>6. Progress' /\ DuringRun' /\ Raising'
  BY <1>1, <1>4, <1>5 DEF Progress, DuringRun, Raising
<1>7. RowsFollowRuns'
  <2> SUFFICES ASSUME NEW i \in DOMAIN rows'
               PROVE  /\ rows'[i].run = job.runs[i]
                      /\ (rows'[i].status = "dry_run") = job.dry_run
                      /\ rows'[i].status = "failed" /\ ~ job.keep_going =>
                           i = position /\ step' = "raising"
    BY <1>1, <1>5 DEF RowsFollowRuns
  <2>1. CASE i = position
    BY <2>1, <1>4, <1>5 DEF current_run
  <2>2. CASE i # position
    BY <2>2, <1>1, <1>5 DEF RunnerInv, RowsFollowRuns
  <2> QED BY <2>1, <2>2
<1>8. MetricsAreFresh'
  <2> SUFFICES ASSUME NEW i \in DOMAIN rows'
               PROVE  IF rows'[i].status = "success"
                      THEN rows'[i].metrics = [config |-> Config(rows'[i].run),
                                               invocation |-> invocations, complete |-> TRUE]
                      ELSE rows'[i].metrics = None
    BY DEF MetricsAreFresh
  <2>1. CASE i = position
    <3>1. rows'[i] = r /\ r.run = current_run /\ r.status = status
      BY <2>1, <1>4, <1>5
    <3> QED BY <3>1, <1>3
  <2>2. CASE i # position
    BY <2>2, <1>5 DEF RunnerInv, MetricsAreFresh
  <2> QED BY <2>1, <2>2
<1>9. AggregateIsPublished'
  BY DEF AggregateIsPublished
<1> QED BY <1>1, <1>5, <1>6, <1>7, <1>8, <1>9

\* The iterations that record a row.
LEMMA RecordsKeepInv ==
  RunnerInv /\ (PlanRun \/ SummarizeSuccess \/ SummarizeFailure) => RunnerInv'
<1> SUFFICES ASSUME RunnerInv, PlanRun \/ SummarizeSuccess \/ SummarizeFailure
             PROVE  RunnerInv'
  OBVIOUS
<1>1. CASE PlanRun
  <2>1. position \in 1 .. Len(job.runs) /\ job \in Jobs
    BY <1>1, JobsAssumption DEF PlanRun, RunnerInv, RunnerTypeOK, Progress
  <2>2. current_run.run_name \in Names /\ Config(current_run) \in Configurations
    BY <2>1, RunOfJob DEF current_run
  <2>3. /\ rows' \in Seq(Rows) /\ position' \in Nat
        /\ Progress' /\ DuringRun' /\ Raising'
        /\ RowsFollowRuns' /\ MetricsAreFresh' /\ AggregateIsPublished'
    BY <1>1, RecordKeepsRows DEF PlanRun
  <2>4. RunnerTypeOK'
    BY <1>1, <2>2, <2>3 DEF PlanRun, WritesConfig, RunnerInv, RunnerTypeOK
  <2> QED BY <2>3, <2>4 DEF RunnerInv
<1>2. CASE SummarizeSuccess
  <2>1. position <= Len(job.runs) /\ job.dry_run = FALSE
    BY <1>2, JobsAssumption DEF SummarizeSuccess, RunnerInv, DuringRun, RunnerTypeOK
  <2>2. /\ rows' \in Seq(Rows) /\ position' \in Nat
        /\ Progress' /\ DuringRun' /\ Raising'
        /\ RowsFollowRuns' /\ MetricsAreFresh' /\ AggregateIsPublished'
    BY <1>2, <2>1, RecordKeepsRows DEF SummarizeSuccess
  <2>3. RunnerTypeOK'
    BY <1>2, <2>2 DEF SummarizeSuccess, RunnerInv, RunnerTypeOK, Active
  <2> QED BY <2>2, <2>3 DEF RunnerInv
<1>3. CASE SummarizeFailure
  <2>1. position <= Len(job.runs) /\ job.dry_run = FALSE
    BY <1>3, JobsAssumption DEF SummarizeFailure, RunnerInv, DuringRun, RunnerTypeOK
  <2>2. /\ rows' \in Seq(Rows) /\ position' \in Nat
        /\ Progress' /\ DuringRun' /\ Raising'
        /\ RowsFollowRuns' /\ MetricsAreFresh' /\ AggregateIsPublished'
    BY <1>3, <2>1, RecordKeepsRows DEF SummarizeFailure
  <2>3. RunnerTypeOK'
    BY <1>3, <2>2 DEF SummarizeFailure, RunnerInv, RunnerTypeOK, Active
  <2> QED BY <2>2, <2>3 DEF RunnerInv
<1> QED BY <1>1, <1>2, <1>3

\* The steps around a simulation.
LEMMA SimulationKeepsInv ==
  RunnerInv /\ (StartRun \/ SimulatorSucceeds \/ SimulatorFails) => RunnerInv'
<1> SUFFICES ASSUME RunnerInv, StartRun \/ SimulatorSucceeds \/ SimulatorFails
             PROVE  RunnerInv'
  OBVIOUS
<1>1. position \in 1 .. Len(job.runs) /\ job \in Jobs
  <2>1. step # "idle" /\ position <= Len(job.runs)
    BY DEF StartRun, SimulatorSucceeds, SimulatorFails, RunnerInv, DuringRun
  <2> QED BY <2>1, JobFacts
<1>2. /\ current_run.run_name \in Names /\ output_dir(current_run) \in Names
      /\ Config(current_run) \in Configurations
  BY <1>1, RunOfJob DEF current_run
<1>3. UNCHANGED <<invocations, job, position, rows, aggregate, current_run>>
  BY DEF StartRun, SimulatorSucceeds, SimulatorFails, current_run
<1>4. Progress' /\ Raising' /\ AggregateIsPublished' /\ MetricsAreFresh'
  BY <1>3 DEF StartRun, SimulatorSucceeds, SimulatorFails, RunnerInv, Progress, Raising,
              AggregateIsPublished, MetricsAreFresh
<1>5. RowsFollowRuns'
  BY <1>3 DEF StartRun, SimulatorSucceeds, SimulatorFails, RunnerInv, RowsFollowRuns
<1>6. CASE StartRun
  <2>1. RunnerTypeOK'
    BY <1>2, <1>6 DEF StartRun, WritesConfig, RunnerInv, RunnerTypeOK, Active
  <2>2. DuringRun'
    BY <1>1, <1>2, <1>3, <1>6 DEF StartRun, WritesConfig, RunnerInv, RunnerTypeOK, DuringRun
  <2> QED BY <1>4, <1>5, <2>1, <2>2 DEF RunnerInv
<1>7. ASSUME SimulatorSucceeds \/ SimulatorFails
      PROVE  \A complete \in BOOLEAN :
               /\ SimulatorOutput(complete) \in Outputs
               /\ SimulatorOutput(complete)
                    = [config |-> Config(current_run), invocation |-> invocations,
                       complete |-> complete]
  BY <1>2, <1>7 DEF SimulatorSucceeds, SimulatorFails, SimulatorOutput, Outputs, RunnerInv,
                    RunnerTypeOK, DuringRun
<1>8. CASE SimulatorSucceeds
  <2>1. RunnerTypeOK'
    BY <1>2, <1>7, <1>8 DEF SimulatorSucceeds, OutputsWith, RunnerInv, RunnerTypeOK, Active
  <2>2. DuringRun'
    BY <1>1, <1>2, <1>3, <1>7, <1>8
    DEF SimulatorSucceeds, OutputsWith, output_dir, RunnerInv, RunnerTypeOK, DuringRun
  <2> QED BY <1>4, <1>5, <2>1, <2>2 DEF RunnerInv
<1>9. CASE SimulatorFails
  <2>1. RunnerTypeOK'
    BY <1>2, <1>7, <1>9 DEF SimulatorFails, OutputsWith, RunnerInv, RunnerTypeOK, Active
  <2>2. DuringRun'
    BY <1>1, <1>3, <1>9 DEF SimulatorFails, RunnerInv, DuringRun
  <2> QED BY <1>4, <1>5, <2>1, <2>2 DEF RunnerInv
<1> QED BY <1>6, <1>8, <1>9

\* The end of an invocation, undisturbed or not.
LEMMA EndKeepsInv ==
  RunnerInv /\ (write_aggregate_csv \/ VerifyDryRun \/ Interrupt) => RunnerInv'
<1> SUFFICES ASSUME RunnerInv, write_aggregate_csv \/ VerifyDryRun \/ Interrupt
             PROVE  RunnerInv'
  OBVIOUS
<1>1. /\ job \in Jobs /\ job # None /\ Len(job.runs) \in Nat
      /\ position \in Nat /\ Len(rows) = position - 1 /\ rows \in Seq(Rows)
      /\ position <= Len(job.runs) + 1
  <2>1. step # "idle"
    BY DEF write_aggregate_csv, WritesAggregate, VerifyDryRun, Interrupt, Active
  <2> QED BY <2>1, JobFacts
<1>2. UNCHANGED <<invocations, job, position, rows, configs>>
  BY DEF write_aggregate_csv, VerifyDryRun, Interrupt
<1>3. step' \in {"verifying", "finished", "stopped", "refused", "aborted"}
  BY DEF write_aggregate_csv, VerifyDryRun, Interrupt
<1>4. Progress' /\ DuringRun' /\ Raising' /\ MetricsAreFresh'
  BY <1>1, <1>2, <1>3 DEF RunnerInv, Progress, DuringRun, Raising, MetricsAreFresh
<1>5. /\ step' = "stopped" => step = "raising"
      /\ step = "raising" => step' \in {"stopped", "aborted"}
      /\ step \notin {"stopped", "aborted"}
  BY DEF write_aggregate_csv, WritesAggregate, VerifyDryRun, Interrupt, Active
<1>6. RowsFollowRuns'
  BY <1>1, <1>2, <1>3, <1>5 DEF RunnerInv, RowsFollowRuns
<1>7. CASE write_aggregate_csv
  <2>1. RunnerTypeOK'
    BY <1>1, <1>2, <1>3, <1>7
    DEF write_aggregate_csv, RunnerInv, RunnerTypeOK, Active, Ended
  <2>2. AggregateIsPublished'
    BY <1>1, <1>2, <1>7
    DEF write_aggregate_csv, WritesAggregate, RunnerInv, Raising, AggregateIsPublished
  <2> QED BY <1>4, <1>6, <2>1, <2>2 DEF RunnerInv
<1>8. CASE VerifyDryRun
  <2>1. RunnerTypeOK'
    BY <1>2, <1>8 DEF VerifyDryRun, RunnerInv, RunnerTypeOK, Active, Ended
  <2>2. AggregateIsPublished'
    BY <1>2, <1>8 DEF VerifyDryRun, RunnerInv, AggregateIsPublished
  <2> QED BY <1>4, <1>6, <2>1, <2>2 DEF RunnerInv
<1>9. CASE Interrupt
  <2>1. outputs' \in [Names -> Outputs \cup {None}]
    <3>1. CASE step = "simulating"
      <4>1. position \in 1 .. Len(job.runs)
        BY <1>1, <3>1 DEF RunnerInv, DuringRun
      <4>2. /\ output_dir(current_run) \in Names
            /\ SimulatorOutput(FALSE) \in Outputs
        BY <1>1, <3>1, <4>1, RunOfJob
        DEF current_run, SimulatorOutput, Outputs, RunnerInv, RunnerTypeOK, DuringRun
      <4> QED BY <1>9, <4>2 DEF Interrupt, OutputsWith, RunnerInv, RunnerTypeOK
    <3>2. CASE step # "simulating"
      BY <1>9, <3>2 DEF Interrupt, RunnerInv, RunnerTypeOK
    <3> QED BY <3>1, <3>2
  <2>2. aggregate' \in Seq(Rows) \cup {None}
    <3>1. \A n \in 0 .. Len(rows) : SubSeq(rows, 1, n) \in Seq(Rows)
      BY <1>1
    <3> QED BY <1>9, <3>1 DEF Interrupt, RunnerInv, RunnerTypeOK
  <2>3. RunnerTypeOK'
    BY <1>2, <1>9, <2>1, <2>2 DEF Interrupt, RunnerInv, RunnerTypeOK, Active, Ended
  <2>4. AggregateIsPublished'
    BY <1>9 DEF Interrupt, AggregateIsPublished
  <2> QED BY <1>4, <1>6, <2>3, <2>4 DEF RunnerInv
<1> QED BY <1>7, <1>8, <1>9

\* A step that changes nothing.
LEMMA StutterKeepsInv == RunnerInv /\ UNCHANGED runnerVars => RunnerInv'
BY DEF runnerVars, RunnerInv, RunnerTypeOK, Progress, DuringRun, Raising, RowsFollowRuns,
       MetricsAreFresh, AggregateIsPublished, current_run

\* The invariant is inductive.
THEOREM RunnerInvariant == RunnerSpec => []RunnerInv
<1>1. RunnerInv /\ [RunnerNext]_runnerVars => RunnerInv'
  BY InvokeKeepsInv, RecordsKeepInv, SimulationKeepsInv, EndKeepsInv, StutterKeepsInv
  DEF RunnerNext, Script
<1> QED BY <1>1, RunnerInvInit, PTL DEF RunnerSpec

\* The variables of main keep their types.
THEOREM RunnerTypes == RunnerSpec => []RunnerTypeOK
BY RunnerInvariant, PTL DEF RunnerInv

\* The rows are those of the first runs of the matrix, in order, one each, and
\* without --keep-going nothing follows a failure.
THEOREM RowsInOrder == RunnerSpec => []RowsFollowRuns
BY RunnerInvariant, PTL DEF RunnerInv

\* No row ever shows metrics of a failed run or of an earlier invocation.
THEOREM FreshMetrics == RunnerSpec => []MetricsAreFresh
BY RunnerInvariant, PTL DEF RunnerInv

\* What a completed or stopped invocation leaves as aggregate is the whole of it.
THEOREM PublishedAggregate == RunnerSpec => []AggregateIsPublished
BY RunnerInvariant, PTL DEF RunnerInv

-----------------------------------------------------------------------------
(* The output directories *)

\* The directory of every successful run still holds what its row was made of.
OutputsKept ==
  step # "idle" /\ NamesDiffer =>
    \A i \in DOMAIN rows :
      rows[i].status = "success" => outputs[output_dir(rows[i].run)] = rows[i].metrics

\* Writing into the directory of the current run disturbs no earlier one.
LEMMA OtherDirectories ==
  ASSUME RunnerInv, step = "simulating", NamesDiffer, NEW output, NEW i \in DOMAIN rows
  PROVE  OutputsWith(output)[output_dir(rows[i].run)] = outputs[output_dir(rows[i].run)]
<1>1. /\ i \in DOMAIN job.runs /\ position \in DOMAIN job.runs /\ i # position
      /\ rows[i].run = job.runs[i]
  <2>1. position <= Len(job.runs)
    BY DEF RunnerInv, DuringRun
  <2>2. rows[i].run = job.runs[i]
    BY JobFacts DEF RunnerInv, RowsFollowRuns
  <2> QED BY <2>1, <2>2, JobFacts
<1>2. job.runs[i].run_name # job.runs[position].run_name
  BY <1>1 DEF NamesDiffer
<1>3. output_dir(rows[i].run) \in Names
  BY <1>1, JobFacts, RunOfJob
<1>4. outputs \in [Names -> Outputs \cup {None}]
  BY DEF RunnerInv, RunnerTypeOK
<1> QED BY <1>1, <1>2, <1>3, <1>4 DEF OutputsWith, output_dir, current_run

\* Every step of main keeps the outputs its rows describe.
LEMMA StepsKeepOutputs ==
  RunnerInv /\ OutputsKept /\ [RunnerNext]_runnerVars => OutputsKept'
<1> SUFFICES ASSUME RunnerInv, OutputsKept, [RunnerNext]_runnerVars,
                    NamesDiffer', step' # "idle",
                    NEW i \in DOMAIN rows', rows'[i].status = "success"
             PROVE  outputs'[output_dir(rows'[i].run)] = rows'[i].metrics
  BY DEF OutputsKept, output_dir
<1>1. CASE Invoke
  BY <1>1 DEF Invoke
<1>2. CASE PlanRun \/ SummarizeSuccess \/ SummarizeFailure
  <2>1. PICK status \in {"success", "failed", "dry_run"} :
          rows' = Append(rows, summarize_run(current_run, status))
    BY <1>2 DEF PlanRun, SummarizeSuccess, SummarizeFailure
  <2>2. /\ step # "idle" /\ NamesDiffer /\ UNCHANGED outputs /\ rows \in Seq(Rows)
    BY <1>2 DEF PlanRun, SummarizeSuccess, SummarizeFailure, NamesDiffer, RunnerInv, RunnerTypeOK
  <2>3. CASE i \in DOMAIN rows
    <3>1. rows'[i] = rows[i]
      BY <2>1, <2>2, <2>3
    <3> QED BY <2>2, <2>3, <3>1 DEF OutputsKept, output_dir
  <2>4. CASE i \notin DOMAIN rows
    <3>1. rows'[i] = summarize_run(current_run, status)
      BY <2>1, <2>2, <2>4
    <3> QED BY <2>2, <3>1 DEF summarize_run, output_dir
  <2> QED BY <2>3, <2>4
<1>3. CASE StartRun \/ SimulatorSucceeds \/ SimulatorFails \/ write_aggregate_csv
             \/ VerifyDryRun \/ Interrupt
  <2>1. UNCHANGED <<job, rows>> /\ step # "idle"
    BY <1>3 DEF StartRun, SimulatorSucceeds, SimulatorFails, write_aggregate_csv,
                WritesAggregate, VerifyDryRun, Interrupt, Active
  <2>2. NamesDiffer
    BY <2>1 DEF NamesDiffer
  <2>3. \/ UNCHANGED outputs
        \/ step = "simulating" /\ \E complete \in BOOLEAN :
                                  outputs' = OutputsWith(SimulatorOutput(complete))
    BY <1>3 DEF StartRun, SimulatorSucceeds, SimulatorFails, write_aggregate_csv,
                VerifyDryRun, Interrupt
  <2>4. outputs'[output_dir(rows[i].run)] = outputs[output_dir(rows[i].run)]
    BY <2>1, <2>2, <2>3, OtherDirectories
  <2> QED BY <2>1, <2>2, <2>4 DEF OutputsKept, output_dir
<1>4. CASE UNCHANGED runnerVars
  BY <1>4 DEF runnerVars, OutputsKept, NamesDiffer, output_dir
<1> QED BY <1>1, <1>2, <1>3, <1>4 DEF RunnerNext, Script

\* After an invocation that was not interrupted the rows of the aggregate describe
\* the output directories, provided the names of the runs differ.
THEOREM AggregateIsTrue == RunnerSpec => []AggregateDescribesOutputs
<1>1. RunnerInit => OutputsKept
  BY DEF RunnerInit, OutputsKept
<1>2. RunnerInv /\ OutputsKept => AggregateDescribesOutputs
  BY DEF RunnerInv, AggregateIsPublished, OutputsKept, AggregateDescribesOutputs
<1> QED BY <1>1, <1>2, StepsKeepOutputs, RunnerInvariant, PTL DEF RunnerSpec

-----------------------------------------------------------------------------
(* main implements a batch job *)

\* The results of the batch job grow with the rows.
LEMMA StatusesGrow ==
  ASSUME RunnerInv, NEW status \in {"success", "failed", "dry_run"},
         rows' = Append(rows, summarize_run(current_run, status))
  PROVE  Statuses' = Append(Statuses, status)
<1>1. rows \in Seq(Rows)
  BY DEF RunnerInv, RunnerTypeOK
<1>2. summarize_run(current_run, status).status = status
  BY DEF summarize_run
<1> QED BY <1>1, <1>2 DEF Statuses

\* The state of the batch job for each step of main.
LEMMA JobStates ==
  /\ step = "idle" => JobState = "idle"
  /\ step \in Active => JobState = "active"
  /\ step = "aborted" => JobState = "aborted"
  /\ step \in {"finished", "stopped", "refused"} => JobState = "over"
BY DEF JobState, Active

\* The other variables of the batch job.
LEMMA JobValues ==
  ASSUME RunnerInv, step # "idle"
  PROVE  /\ JobSize = Len(job.runs) /\ JobSize \in Nat
         /\ KeepsGoing = job.keep_going /\ KeepsGoing \in BOOLEAN
         /\ DOMAIN Statuses = DOMAIN rows /\ Len(Statuses) = Len(rows)
         /\ \A i \in DOMAIN rows : Statuses[i] = rows[i].status
<1>1. DOMAIN rows = 1 .. Len(rows) /\ Len(rows) \in Nat
  BY JobFacts
<1>2. DOMAIN Statuses = 1 .. Len(rows)
  BY <1>1 DEF Statuses
<1>3. Len(Statuses) = Len(rows)
  BY <1>1, <1>2
<1> QED BY <1>1, <1>2, <1>3, JobFacts DEF JobSize, KeepsGoing, Statuses

\* An invocation begins a batch job.
LEMMA InvokeBegins == RunnerInv /\ RunnerInv' /\ Invoke => Batch!Begin
<1> SUFFICES ASSUME RunnerInv, RunnerInv', Invoke PROVE Batch!Begin
  OBVIOUS
<1>1. JobState # "active"
  BY JobStates DEF Invoke, Ended
<1>2. JobState' = "active" /\ Statuses' = <<>>
  BY DEF Invoke, JobState, Statuses, Active
<1>3. JobSize' \in Nat /\ KeepsGoing' \in BOOLEAN
  <2>1. job' \in Jobs /\ job' # None
    BY JobsAssumption DEF Invoke
  <2>2. Len(job'.runs) \in Nat /\ job'.keep_going \in BOOLEAN
    BY <2>1, JobsAssumption
  <2> QED BY <2>1, <2>2 DEF JobSize, KeepsGoing
<1> QED BY <1>1, <1>2, <1>3 DEF Batch!Begin

\* A row recorded is a result recorded, and none follows a failure unless that was
\* asked for.
LEMMA RecordsImplement ==
  RunnerInv /\ (PlanRun \/ SummarizeSuccess \/ SummarizeFailure) => Batch!Record
<1> SUFFICES ASSUME RunnerInv, PlanRun \/ SummarizeSuccess \/ SummarizeFailure
             PROVE  Batch!Record
  OBVIOUS
<1>1. PICK status \in {"success", "failed", "dry_run"} :
        rows' = Append(rows, summarize_run(current_run, status))
  BY DEF PlanRun, SummarizeSuccess, SummarizeFailure
<1>2. Statuses' = Append(Statuses, status)
  BY <1>1, StatusesGrow
<1>3. /\ step \in {"loop", "simulated", "failed"} /\ step' \in {"loop", "raising"}
      /\ UNCHANGED job /\ position <= Len(job.runs)
  BY DEF PlanRun, SummarizeSuccess, SummarizeFailure, RunnerInv, DuringRun
<1>4. JobState = "active" /\ JobState' = "active"
  BY <1>3 DEF JobState, Active
<1>5. UNCHANGED <<JobSize, KeepsGoing>>
  BY <1>3 DEF JobSize, KeepsGoing
<1>6. Len(Statuses) < JobSize
  BY <1>3, JobFacts, JobValues
<1>7. ~ Batch!Halted
  BY <1>3, JobFacts, JobValues DEF Batch!Halted, RunnerInv, RowsFollowRuns
<1> QED BY <1>2, <1>4, <1>5, <1>6, <1>7 DEF Batch!Record

\* The end of an invocation ends its batch job, or aborts it.
LEMMA EndsImplement ==
  RunnerInv /\ (write_aggregate_csv \/ VerifyDryRun \/ Interrupt)
    => Batch!End \/ Batch!Abort \/ UNCHANGED Batch!batchVars
<1> SUFFICES ASSUME RunnerInv, write_aggregate_csv \/ VerifyDryRun \/ Interrupt
             PROVE  Batch!End \/ Batch!Abort \/ UNCHANGED Batch!batchVars
  OBVIOUS
<1>1. /\ step # "idle" /\ step \in Active /\ UNCHANGED <<job, rows>>
      /\ step' \in {"verifying", "finished", "stopped", "refused", "aborted"}
  BY DEF write_aggregate_csv, WritesAggregate, VerifyDryRun, Interrupt, Active
<1>2. UNCHANGED <<JobSize, KeepsGoing, Statuses>> /\ JobState = "active"
  BY <1>1, JobStates DEF JobSize, KeepsGoing, Statuses
<1>3. CASE step' = "verifying"
  <2>1. JobState' = "active"
    BY <1>3 DEF JobState, Active
  <2> QED BY <1>2, <2>1 DEF Batch!batchVars
<1>4. CASE step' = "aborted"
  <2>1. JobState' = "aborted"
    BY <1>4 DEF JobState, Active
  <2> QED BY <1>2, <2>1 DEF Batch!Abort
<1>5. CASE step' \in {"finished", "stopped", "refused"}
  <2>1. JobState' = "over"
    BY <1>5 DEF JobState, Active
  <2>2. Batch!Halted \/ Len(Statuses) = JobSize
    <3>1. CASE step = "raising"
      <4>1. /\ rows # <<>> /\ rows[Len(rows)].status = "failed" /\ ~ job.keep_going
            /\ rows \in Seq(Rows)
        BY <1>1, <3>1, JobFacts DEF RunnerInv, Raising
      <4>2. Len(rows) \in DOMAIN rows
        BY <4>1
      <4> QED BY <1>1, <4>1, <4>2, JobValues DEF Batch!Halted
    <3>2. CASE step # "raising"
      <4>1. Len(rows) = Len(job.runs)
        <5>1. CASE write_aggregate_csv
          BY <1>1, <3>2, <5>1, JobFacts DEF write_aggregate_csv, WritesAggregate
        <5>2. CASE VerifyDryRun
          BY <5>2 DEF VerifyDryRun, RunnerInv, AggregateIsPublished
        <5> QED BY <1>5, <5>1, <5>2 DEF Interrupt
      <4> QED BY <1>1, <4>1, JobValues
    <3> QED BY <3>1, <3>2
  <2> QED BY <1>2, <2>1, <2>2 DEF Batch!End
<1> QED BY <1>1, <1>3, <1>4, <1>5

\* Every step of main is one of a batch job, or invisible to it.
LEMMA StepsImplement ==
  RunnerInv /\ RunnerInv' /\ [RunnerNext]_runnerVars => [Batch!Next]_Batch!batchVars
<1> SUFFICES ASSUME RunnerInv, RunnerInv', [RunnerNext]_runnerVars
             PROVE  [Batch!Next]_Batch!batchVars
  OBVIOUS
<1>1. CASE StartRun \/ SimulatorSucceeds \/ SimulatorFails
  <2>1. step \in Active /\ step' \in Active /\ UNCHANGED <<job, rows>>
    BY <1>1 DEF StartRun, SimulatorSucceeds, SimulatorFails, Active
  <2>2. JobState = "active" /\ JobState' = "active"
    BY <2>1 DEF JobState, Active
  <2> QED BY <2>1, <2>2 DEF Batch!batchVars, JobSize, KeepsGoing, Statuses
<1>2. CASE UNCHANGED runnerVars
  BY <1>2 DEF runnerVars, Batch!batchVars, JobSize, KeepsGoing, Statuses, JobState
<1> QED BY <1>1, <1>2, InvokeBegins, RecordsImplement, EndsImplement
    DEF RunnerNext, Script, Batch!Next

\* main is a batch job: results in order, nothing after a failure it was not told
\* to pass over, an end only with nothing left to run, or an abort.
THEOREM RunnerImplementsBatchJob == RunnerSpec => ImplementsBatchJob
<1>1. RunnerInit => Batch!Init
  BY JobStates DEF RunnerInit, Batch!Init, JobSize, KeepsGoing, Statuses
<1> QED BY <1>1, StepsImplement, RunnerInvariant, PTL DEF RunnerSpec, ImplementsBatchJob, Batch!Spec
=============================================================================
