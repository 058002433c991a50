--------------------------- MODULE ExperimentBatch --------------------------
(***************************************************************************)
(* scripts/run_experiments.py: the simulator is run on every configuration *)
(* of the command line in turn, into results_dir/<stem of the file>, until *)
(* one fails.  The script is invoked again and again with one results      *)
(* directory, from which nothing is ever deleted.                          *)
(***************************************************************************)
EXTENDS Naturals, SequencesExt, FiniteSets

CONSTANTS
  Stems,           \* the names of configuration files without their suffix
  Folders,         \* the directories they are in
  MaxConfigs,      \* bound: configurations on a command line
  MaxInvocations,  \* bound: how often the script is invoked
  None             \* no output

Configs == [folder : Folders, stem : Stems]

\* What a simulator leaves in a result folder: the configuration it was of, the
\* invocation that started it, and whether it came to its end.
Outputs == [config : Configs, invocation : Nat, complete : BOOLEAN]

ASSUME BatchAssumption ==
  /\ MaxConfigs \in Nat /\ MaxInvocations \in Nat
  /\ None \notin Outputs

VARIABLES
  invocations,  \* how often the script was invoked
  configs,      \* the command line
  statuses,     \* how the simulators called so far ended
  outputs,      \* for each stem what its result folder holds
  phase

batchVars == <<invocations, configs, statuses, outputs, phase>>

Ended == {"idle", "finished", "failed", "interrupted"}

parse_args == BoundedSeq(Configs, MaxConfigs) \ {<<>>}

\* Mutant: the name is taken from the first configuration.
output_dir_of_first(config) == configs[1].stem

\* The results directory is a child of --results-dir named after the file.
output_dir(config) == config.stem

BatchInit ==
  /\ invocations = 0
  /\ configs = <<>> /\ statuses = <<>>
  /\ outputs = [s \in Stems |-> None]
  /\ phase = "idle"

\* mkdir with exist_ok: the folders of earlier invocations stay.
Invoke ==
  /\ phase \in Ended /\ invocations < MaxInvocations
  /\ invocations' = invocations + 1
  /\ configs' \in parse_args
  /\ statuses' = <<>>
  /\ phase' = "running"
  /\ UNCHANGED outputs

current == configs[Len(statuses) + 1]

Leaves(complete) ==
  outputs' = [outputs EXCEPT ![output_dir(current)] =
                [config |-> current, invocation |-> invocations, complete |-> complete]]

\* The simulator of the current configuration comes to an end.
SimulatorEnds(status) ==
  /\ phase = "running" /\ Len(statuses) < Len(configs)
  /\ statuses' = Append(statuses, status)
  /\ UNCHANGED <<invocations, configs>>

\* Cut short it has left nothing, or some of its files among older ones.
CutShort == UNCHANGED outputs \/ Leaves(FALSE)

RunSucceeds ==
  /\ SimulatorEnds("success")
  /\ Leaves(TRUE)
  /\ UNCHANGED phase

\* check=True: the CalledProcessError of the first failure leaves main.
RunFails ==
  /\ SimulatorEnds("failed")
  /\ CutShort
  /\ phase' = "failed"

\* Ctrl-C or any other exception: subprocess.run kills the simulator, if any.
Interrupt ==
  /\ phase = "running"
  /\ phase' = "interrupted"
  /\ \/ SimulatorEnds("killed") /\ CutShort
     \/ UNCHANGED <<invocations, configs, statuses, outputs>>

Finish ==
  /\ phase = "running" /\ Len(statuses) = Len(configs)
  /\ phase' = "finished"
  /\ UNCHANGED <<invocations, configs, statuses, outputs>>

BatchNext == Invoke \/ RunSucceeds \/ RunFails \/ Interrupt \/ Finish

BatchSpec == BatchInit /\ [][BatchNext]_batchVars

-----------------------------------------------------------------------------
(* Properties *)

\* Types: no simulator is called beyond the command line.
BatchTypeOK ==
  /\ invocations \in Nat
  /\ configs \in Seq(Configs)
  /\ statuses \in Seq({"success", "failed", "killed"}) /\ Len(statuses) <= Len(configs)
  /\ outputs \in [Stems -> Outputs \cup {None}]
  /\ phase \in Ended \cup {"running"}

\* The folder of a stem is of this invocation, not a left-over.
Fresh(s) == outputs[s] # None /\ outputs[s].invocation = invocations

\* The results directory after any number of batches, each of which may have failed
\* or been interrupted (the loop of main): a simulation that succeeded has its
\* complete results in its folder, unless a later configuration of this command line
\* goes by the same name; what this invocation wrote is of a configuration it got
\* to, and complete only if that one succeeded, so that complete results found where
\* nothing succeeded are an earlier batch's; and the script ends well only if every
\* simulation did, and then no folder of the command line is a left-over or
\* incomplete.
ResultsUpToTheFailure ==
  /\ \A i \in DOMAIN statuses :
       statuses[i] = "success"
       /\ (\A j \in DOMAIN statuses : j > i => configs[j].stem # configs[i].stem)
         => outputs[configs[i].stem] =
              [config |-> configs[i], invocation |-> invocations, complete |-> TRUE]
  /\ \A s \in Stems : Fresh(s) =>
       \E i \in DOMAIN statuses :
         /\ outputs[s].config = configs[i] /\ configs[i].stem = s
         /\ outputs[s].complete => statuses[i] = "success"
  /\ phase = "finished" =>
       /\ Len(statuses) = Len(configs) /\ ToSet(statuses) = {"success"}
       /\ \A i \in DOMAIN configs :
            Fresh(configs[i].stem) /\ outputs[configs[i].stem].complete
=============================================================================
