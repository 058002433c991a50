---------------------------- MODULE BatchProofs -----------------------------
(***************************************************************************)
(* Proofs about the batch script, for every sequence of command lines and  *)
(* however the batches before this one ended in the same directory: what   *)
(* is complete and of this invocation is of a simulation that succeeded.   *)
(***************************************************************************)
EXTENDS ExperimentBatch, TLAPS

-----------------------------------------------------------------------------
(* The inductive invariant *)

\* What the script leaves of a configuration whose simulator succeeded.
CompleteOutput(i) ==
  [config |-> configs[i], invocation |-> invocations, complete |-> TRUE]

\* No folder is of an invocation to come.
NothingAhead ==
  \A s \in Stems : outputs[s] # None => outputs[s].invocation <= invocations

\* Only a failure or an interrupt ends the loop before the end of the command line.
StatusesTellThePhase ==
  /\ phase # "idle" => configs # <<>>
  /\ phase \in {"running", "finished"} =>
       \A i \in 1 .. Len(statuses) : statuses[i] = "success"
  /\ phase = "finished" => Len(statuses) = Len(configs)

\* The first conjunct of the property: a success that no later simulator of the same
\* stem has written over is in its folder.
SuccessesAreKept ==
  \A i \in 1 .. Len(statuses) :
    statuses[i] = "success"
    /\ (\A j \in 1 .. Len(statuses) : j > i => configs[j].stem # configs[i].stem)
      => outputs[configs[i].stem] = CompleteOutput(i)

\* Configuration i accounts for what the folder of s holds.
Accounts(i, s) ==
  /\ outputs[s].config = configs[i] /\ configs[i].stem = s
  /\ outputs[s].complete => statuses[i] = "success"

\* The second conjunct: what is fresh has a configuration that accounts for it.
FreshIsExplained ==
  \A s \in Stems : outputs[s] # None /\ outputs[s].invocation = invocations =>
    \E i \in 1 .. Len(statuses) : Accounts(i, s)

\* As long as nothing failed, the folders of all configurations so far are fresh.
NoLeftOvers ==
  phase \in {"running", "finished"} =>
    \A i \in 1 .. Len(statuses) :
      /\ outputs[configs[i].stem] # None
      /\ outputs[configs[i].stem].invocation = invocations
      /\ outputs[configs[i].stem].complete

\* The inductive invariant: every folder is explained, by this invocation or by an
\* earlier one.
BatchInv ==
  /\ BatchTypeOK
  /\ NothingAhead
  /\ StatusesTellThePhase
  /\ SuccessesAreKept
  /\ FreshIsExplained
  /\ NoLeftOvers

\* Nothing ran yet.
LEMMA BatchStarts ==
  ASSUME BatchInit
  PROVE  BatchInv
<1>1. /\ invocations = 0 /\ configs = <<>> /\ statuses = <<>> /\ phase = "idle"
      /\ outputs = [s \in Stems |-> None]
  BY DEF BatchInit
<1>2. Len(statuses) = 0 /\ Len(configs) = 0
  BY <1>1
<1>3. BatchTypeOK
  BY <1>1, <1>2 DEF BatchTypeOK, Ended
<1> QED BY <1>1, <1>2, <1>3
        DEF BatchInv, NothingAhead, StatusesTellThePhase, SuccessesAreKept,
            FreshIsExplained, NoLeftOvers

\* A new invocation finds nothing that it wrote itself.
LEMMA InvokeKeeps ==
  ASSUME BatchInv, Invoke
  PROVE  BatchInv'
<1>1. /\ invocations \in Nat /\ invocations' = invocations + 1
      /\ statuses' = <<>> /\ phase' = "running" /\ outputs' = outputs
      /\ configs' \in parse_args
  BY DEF BatchInv, BatchTypeOK, Invoke
<1>2. PICK m \in 0 .. MaxConfigs : configs' \in [1 .. m -> Configs]
  BY <1>1 DEF parse_args, BoundedSeq, SeqOf
<1>3. m \in Nat /\ configs' \in Seq(Configs) /\ Len(configs') = m
  BY <1>2, BatchAssumption
<1>4. configs' # <<>> /\ Len(statuses') = 0
  BY <1>1 DEF parse_args
<1>5. BatchTypeOK'
  BY <1>1, <1>3, <1>4 DEF BatchInv, BatchTypeOK
<1>6. ASSUME NEW s \in Stems, outputs[s] # None
      PROVE  outputs[s].invocation \in Nat /\ outputs[s].invocation <= invocations
  BY <1>6 DEF BatchInv, BatchTypeOK, NothingAhead, Outputs
<1>7. NothingAhead'
  BY <1>1, <1>6 DEF NothingAhead
<1>8. FreshIsExplained'
  <2>1. \A s \in Stems : ~ (outputs'[s] # None /\ outputs'[s].invocation = invocations')
    BY <1>1, <1>6
  <2> QED BY <2>1 DEF FreshIsExplained
<1>9. StatusesTellThePhase' /\ SuccessesAreKept' /\ NoLeftOvers'
  BY <1>1, <1>4 DEF StatusesTellThePhase, SuccessesAreKept, NoLeftOvers
<1> QED BY <1>5, <1>7, <1>8, <1>9 DEF BatchInv

-----------------------------------------------------------------------------
(* The end of a simulator *)

\* A simulator ends: with success it leaves everything, otherwise nothing or a part.
Ends(status) ==
  /\ SimulatorEnds(status)
  /\ \/ status = "success" /\ Leaves(TRUE)
     \/ status \in {"failed", "killed"} /\ CutShort

\* The folder of stem t, and no other, becomes the output o.
OneChanged(old, t, o, new) ==
  /\ new \in [Stems -> Outputs \cup {None}]
  /\ new[t] = o
  /\ \A s \in Stems : s # t => new[s] = old[s]

\* What a simulator leaves is in the folder of its configuration alone.
LEMMA LeavesOne ==
  ASSUME BatchTypeOK, Len(statuses) < Len(configs), NEW complete \in BOOLEAN,
         Leaves(complete)
  PROVE  OneChanged(outputs, current.stem,
                    [config |-> current, invocation |-> invocations, complete |-> complete],
                    outputs')
<1>1. current \in Configs
  BY DEF BatchTypeOK, current
<1>2. current.stem \in Stems
  BY <1>1 DEF Configs
<1>3. [config |-> current, invocation |-> invocations, complete |-> complete] \in Outputs
  BY <1>1 DEF BatchTypeOK, Outputs
<1> QED BY <1>2, <1>3 DEF BatchTypeOK, Leaves, output_dir, OneChanged

\* The end of a simulator adds its status, and changes the folder of its stem if any.
LEMMA EndsIs ==
  ASSUME BatchTypeOK, NEW status, Ends(status)
  PROVE  \E n \in Nat, t \in Stems :
           /\ n = Len(statuses) + 1 /\ n <= Len(configs) /\ t = configs[n].stem
           /\ Len(statuses') = n /\ statuses'[n] = status
           /\ \A i \in 1 .. n - 1 : statuses'[i] = statuses[i]
           /\ statuses' \in Seq({"success", "failed", "killed"})
           /\ configs' = configs /\ invocations' = invocations
           /\ outputs' \in [Stems -> Outputs \cup {None}]
           /\ \A s \in Stems : s # t => outputs'[s] = outputs[s]
           /\ \/ status # "success" /\ outputs'[t] = outputs[t]
              \/ /\ outputs'[t] = [config |-> configs[n], invocation |-> invocations,
                                   complete |-> status = "success"]
                 /\ outputs'[t] # None
<1>1. PICK n \in Nat : n = Len(statuses) + 1
  BY DEF BatchTypeOK
<1>2. /\ Len(statuses) < Len(configs) /\ n <= Len(configs)
      /\ configs' = configs /\ invocations' = invocations
      /\ statuses' = Append(statuses, status)
      /\ status \in {"success", "failed", "killed"}
  <2>1. SimulatorEnds(status) /\ status \in {"success", "failed", "killed"}
    BY DEF Ends
  <2>2. /\ Len(statuses) < Len(configs) /\ statuses' = Append(statuses, status)
        /\ configs' = configs /\ invocations' = invocations
    BY <2>1 DEF SimulatorEnds
  <2>3. Len(statuses) \in Nat /\ Len(configs) \in Nat
    BY DEF BatchTypeOK
  <2> QED BY <1>1, <2>1, <2>2, <2>3
<1>3. /\ statuses' \in Seq({"success", "failed", "killed"}) /\ Len(statuses') = n
      /\ statuses'[n] = status
      /\ \A i \in 1 .. n - 1 : statuses'[i] = statuses[i]
  BY <1>1, <1>2 DEF BatchTypeOK
<1>4. current = configs[n] /\ configs[n] \in Configs /\ configs[n].stem \in Stems
  <2>1. current = configs[n]
    BY <1>1 DEF current
  <2>2. n \in 1 .. Len(configs) /\ configs \in Seq(Configs)
    BY <1>1, <1>2 DEF BatchTypeOK
  <2>3. configs[n] \in Configs
    BY <2>2
  <2> QED BY <2>1, <2>3 DEF Configs
<1>5. PICK t \in Stems : t = configs[n].stem
  BY <1>4
<1>6. ASSUME NEW complete \in BOOLEAN, Leaves(complete), complete = (status = "success")
      PROVE  /\ outputs' \in [Stems -> Outputs \cup {None}]
             /\ \A s \in Stems : s # t => outputs'[s] = outputs[s]
             /\ outputs'[t] = [config |-> configs[n], invocation |-> invocations,
                               complete |-> status = "success"]
             /\ outputs'[t] # None
  <2>1. OneChanged(outputs, t,
                   [config |-> configs[n], invocation |-> invocations, complete |-> complete],
                   outputs')
    <3>1. OneChanged(outputs, current.stem,
                     [config |-> current, invocation |-> invocations, complete |-> complete],
                     outputs')
      BY <1>2, <1>6, LeavesOne
    <3> QED BY <1>4, <1>5, <3>1
  <2>2. [config |-> configs[n], invocation |-> invocations, complete |-> complete] \in Outputs
    BY <1>4 DEF BatchTypeOK, Outputs
  <2> QED BY <1>6, <2>1, <2>2, BatchAssumption DEF OneChanged
<1>7. \/ status # "success" /\ outputs' = outputs
      \/ \E complete \in BOOLEAN : Leaves(complete) /\ complete = (status = "success")
  BY DEF Ends, CutShort
<1>8. outputs \in [Stems -> Outputs \cup {None}]
  BY DEF BatchTypeOK
<1> QED BY <1>1, <1>2, <1>3, <1>5, <1>6, <1>7, <1>8

\* The invariant but for what the end of a simulator does to the phase.
KeptBySimulators ==
  BatchTypeOK /\ NothingAhead /\ SuccessesAreKept /\ FreshIsExplained

\* However a simulator ends, successes are kept and what is fresh is explained.
LEMMA EndsKeeps ==
  ASSUME BatchInv, NEW status, Ends(status), phase' \in Ended \cup {"running"}
  PROVE  KeptBySimulators'
<1>1. BatchTypeOK /\ NothingAhead /\ SuccessesAreKept /\ FreshIsExplained
  BY DEF BatchInv
<1>2. PICK n \in Nat, t \in Stems :
        /\ n = Len(statuses) + 1 /\ n <= Len(configs) /\ t = configs[n].stem
        /\ Len(statuses') = n /\ statuses'[n] = status
        /\ \A i \in 1 .. n - 1 : statuses'[i] = statuses[i]
        /\ statuses' \in Seq({"success", "failed", "killed"})
        /\ configs' = configs /\ invocations' = invocations
        /\ outputs' \in [Stems -> Outputs \cup {None}]
        /\ \A s \in Stems : s # t => outputs'[s] = outputs[s]
        /\ \/ status # "success" /\ outputs'[t] = outputs[t]
           \/ /\ outputs'[t] = [config |-> configs[n], invocation |-> invocations,
                                complete |-> status = "success"]
              /\ outputs'[t] # None
  BY <1>1, EndsIs
<1>3. BatchTypeOK'
  BY <1>1, <1>2 DEF BatchTypeOK
<1>4. invocations \in Nat /\ Len(statuses) = n - 1 /\ n \in 1 .. n
  BY <1>1, <1>2 DEF BatchTypeOK
<1>5. ASSUME NEW i \in 1 .. n - 1
      PROVE  i \in 1 .. Len(statuses) /\ i \in 1 .. n /\ n > i /\ configs[i].stem \in Stems
  <2>1. i \in 1 .. Len(configs) /\ configs \in Seq(Configs)
    BY <1>1, <1>2 DEF BatchTypeOK
  <2>2. configs[i] \in Configs
    BY <2>1
  <2>3. configs[i].stem \in Stems
    BY <2>2 DEF Configs
  <2> QED BY <1>4, <2>3
<1>6. NothingAhead'
  <2>1. ASSUME NEW s \in Stems, outputs'[s] # None
        PROVE  outputs'[s].invocation <= invocations
    <3>1. CASE outputs'[s] = outputs[s]
      BY <1>1, <2>1, <3>1 DEF NothingAhead
    <3>2. CASE outputs'[s] # outputs[s]
      BY <1>2, <1>4, <3>2
    <3> QED BY <3>1, <3>2
  <2> QED BY <1>2, <2>1 DEF NothingAhead
<1>7. SuccessesAreKept'
  <2> SUFFICES ASSUME NEW i \in 1 .. n, statuses'[i] = "success",
                      \A j \in 1 .. n : j > i => configs[j].stem # configs[i].stem
               PROVE  outputs'[configs[i].stem] =
                        [config |-> configs[i], invocation |-> invocations,
                         complete |-> TRUE]
    BY <1>2 DEF SuccessesAreKept, CompleteOutput
  <2>1. CASE i = n
    BY <1>2, <2>1
  <2>2. CASE i # n
    <3>1. i \in 1 .. n - 1
      BY <2>2
    <3>2. configs[i].stem # t /\ configs[i].stem \in Stems
      BY <1>2, <1>4, <1>5, <3>1
    <3>3. \A j \in 1 .. Len(statuses) : j > i => configs[j].stem # configs[i].stem
      BY <1>4
    <3>4. statuses[i] = "success" /\ i \in 1 .. Len(statuses)
      BY <1>2, <1>5, <3>1
    <3>5. outputs[configs[i].stem] = CompleteOutput(i)
      BY <1>1, <3>3, <3>4 DEF SuccessesAreKept
    <3> QED BY <1>2, <3>2, <3>5 DEF CompleteOutput
  <2> QED BY <2>1, <2>2
<1>8. FreshIsExplained'
  <2>1. ASSUME NEW s \in Stems, outputs'[s] # None, outputs'[s].invocation = invocations
        PROVE  \E i \in 1 .. n :
                 /\ outputs'[s].config = configs[i] /\ configs[i].stem = s
                 /\ outputs'[s].complete => statuses'[i] = "success"
    <3>1. CASE outputs'[s] = outputs[s]
      <4>1. PICK i \in 1 .. Len(statuses) : Accounts(i, s)
        BY <1>1, <2>1, <3>1 DEF FreshIsExplained
      <4>2. i \in 1 .. n - 1 /\ i \in 1 .. n /\ statuses'[i] = statuses[i]
        BY <1>2, <1>4
      <4> QED BY <3>1, <4>1, <4>2 DEF Accounts
    <3>2. CASE outputs'[s] # outputs[s]
      <4>1. /\ s = t
            /\ outputs'[t] = [config |-> configs[n], invocation |-> invocations,
                              complete |-> status = "success"]
        BY <1>2, <3>2
      <4>2. outputs'[s].config = configs[n] /\ configs[n].stem = s
        BY <1>2, <4>1
      <4>3. outputs'[s].complete => status = "success"
        <5>1. CASE status # "success"
          <6>1. (status = "success") = FALSE
            BY <5>1
          <6>2. outputs'[s] = [config |-> configs[n], invocation |-> invocations,
                               complete |-> FALSE]
            BY <4>1, <6>1
          <6> QED BY <6>2
        <5> QED BY <5>1
      <4>4. statuses'[n] = status /\ n \in 1 .. n
        BY <1>2, <1>4
      <4> QED BY <4>2, <4>3, <4>4
    <3> QED BY <3>1, <3>2
  <2>2. \A s \in Stems : outputs'[s] # None /\ outputs'[s].invocation = invocations' =>
          \E i \in 1 .. Len(statuses') :
            /\ outputs'[s].config = configs'[i] /\ configs'[i].stem = s
            /\ outputs'[s].complete => statuses'[i] = "success"
    BY <1>2, <2>1
  <2> QED BY <2>2 DEF FreshIsExplained, Accounts
<1> QED BY <1>3, <1>6, <1>7, <1>8 DEF KeptBySimulators

-----------------------------------------------------------------------------
(* The actions *)

\* While every simulator so far succeeded, a further success keeps it so.
LEMMA RunSucceedsKeeps ==
  ASSUME BatchInv, RunSucceeds
  PROVE  BatchInv'
<1>1. Ends("success") /\ phase = "running" /\ phase' = "running"
  BY DEF RunSucceeds, SimulatorEnds, Ends
<1>2. KeptBySimulators'
  BY <1>1, EndsKeeps
<1>3. /\ BatchTypeOK /\ configs # <<>>
      /\ \A i \in 1 .. Len(statuses) : statuses[i] = "success"
      /\ \A i \in 1 .. Len(statuses) :
           /\ outputs[configs[i].stem] # None
           /\ outputs[configs[i].stem].invocation = invocations
           /\ outputs[configs[i].stem].complete
  BY <1>1 DEF BatchInv, StatusesTellThePhase, NoLeftOvers
<1>4. PICK n \in Nat, t \in Stems :
        /\ n = Len(statuses) + 1 /\ n <= Len(configs) /\ t = configs[n].stem
        /\ Len(statuses') = n /\ statuses'[n] = "success"
        /\ \A i \in 1 .. n - 1 : statuses'[i] = statuses[i]
        /\ configs' = configs /\ invocations' = invocations
        /\ \A s \in Stems : s # t => outputs'[s] = outputs[s]
        /\ outputs'[t] = [config |-> configs[n], invocation |-> invocations,
                          complete |-> TRUE]
        /\ outputs'[t] # None
  BY <1>1, <1>3, EndsIs
<1>5. Len(statuses) = n - 1
  BY <1>3, <1>4 DEF BatchTypeOK
<1>6. StatusesTellThePhase'
  <2>1. \A i \in 1 .. n : statuses'[i] = "success"
    BY <1>3, <1>4, <1>5
  <2> QED BY <1>1, <1>3, <1>4, <2>1 DEF StatusesTellThePhase
<1>7. NoLeftOvers'
  <2>1. ASSUME NEW i \in 1 .. n
        PROVE  /\ outputs'[configs[i].stem] # None
               /\ outputs'[configs[i].stem].invocation = invocations
               /\ outputs'[configs[i].stem].complete
    <3>1. CASE configs[i].stem = t
      BY <1>4, <3>1
    <3>2. CASE configs[i].stem # t
      <4>1. i \in 1 .. Len(statuses) /\ i \in 1 .. Len(configs) /\ configs \in Seq(Configs)
        BY <1>3, <1>4, <1>5, <3>2 DEF BatchTypeOK
      <4>2. configs[i] \in Configs
        BY <4>1
      <4>3. configs[i].stem \in Stems
        BY <4>2 DEF Configs
      <4>4. outputs'[configs[i].stem] = outputs[configs[i].stem]
        BY <1>4, <3>2, <4>3
      <4> QED BY <1>3, <4>1, <4>4
    <3> QED BY <3>1, <3>2
  <2> QED BY <1>4, <2>1 DEF NoLeftOvers
<1> QED BY <1>2, <1>6, <1>7 DEF BatchInv, KeptBySimulators

\* A failure or an interrupt ends the invocation.
LEMMA CutShortKeeps ==
  ASSUME BatchInv, RunFails \/ Interrupt
  PROVE  BatchInv'
<1>1. phase = "running" /\ phase' \in {"failed", "interrupted"} /\ configs' = configs
  BY DEF RunFails, Interrupt, SimulatorEnds
<1>2. KeptBySimulators'
  <2>1. CASE \E status : Ends(status)
    BY <1>1, <2>1, EndsKeeps DEF Ended
  <2>2. CASE UNCHANGED <<invocations, configs, statuses, outputs>>
    BY <1>1, <2>2
    DEF BatchInv, KeptBySimulators, BatchTypeOK, NothingAhead, SuccessesAreKept,
        FreshIsExplained, CompleteOutput, Accounts, Ended
  <2>3. \/ \E status : Ends(status)
        \/ UNCHANGED <<invocations, configs, statuses, outputs>>
    <3>1. CASE RunFails
      <4>1. Ends("failed")
        BY <3>1 DEF RunFails, Ends
      <4> QED BY <4>1
    <3>2. CASE Interrupt /\ ~ UNCHANGED <<invocations, configs, statuses, outputs>>
      <4>1. Ends("killed")
        BY <3>2 DEF Interrupt, Ends
      <4> QED BY <4>1
    <3> QED BY <3>1, <3>2
  <2> QED BY <2>1, <2>2, <2>3
<1>3. StatusesTellThePhase' /\ NoLeftOvers'
  BY <1>1 DEF BatchInv, StatusesTellThePhase, NoLeftOvers
<1> QED BY <1>2, <1>3 DEF BatchInv, KeptBySimulators

\* The end of the command line changes nothing but the phase.
LEMMA FinishKeeps ==
  ASSUME BatchInv, Finish \/ UNCHANGED batchVars
  PROVE  BatchInv'
<1>1. CASE Finish
  BY <1>1
  DEF BatchInv, Finish, BatchTypeOK, NothingAhead, StatusesTellThePhase, SuccessesAreKept,
      FreshIsExplained, NoLeftOvers, CompleteOutput, Accounts, Ended
<1>2. CASE UNCHANGED batchVars
  BY <1>2
  DEF BatchInv, batchVars, BatchTypeOK, NothingAhead, StatusesTellThePhase,
      SuccessesAreKept, FreshIsExplained, NoLeftOvers, CompleteOutput, Accounts, Ended
<1> QED BY <1>1, <1>2

-----------------------------------------------------------------------------
(* The theorem *)

\* The invariant gives the three conjuncts of the property.
LEMMA InvGivesResults ==
  ASSUME BatchInv
  PROVE  ResultsUpToTheFailure
<1>1. BatchTypeOK /\ StatusesTellThePhase /\ SuccessesAreKept /\ FreshIsExplained
      /\ NoLeftOvers
  BY DEF BatchInv
<1>2. DOMAIN statuses = 1 .. Len(statuses) /\ DOMAIN configs = 1 .. Len(configs)
      /\ Len(configs) \in Nat
  BY <1>1 DEF BatchTypeOK
<1>3. ASSUME NEW i \in DOMAIN statuses, statuses[i] = "success",
             \A j \in DOMAIN statuses : j > i => configs[j].stem # configs[i].stem
      PROVE  outputs[configs[i].stem] =
               [config |-> configs[i], invocation |-> invocations, complete |-> TRUE]
  BY <1>1, <1>2, <1>3 DEF SuccessesAreKept, CompleteOutput
<1>4. ASSUME NEW s \in Stems, Fresh(s)
      PROVE  \E i \in DOMAIN statuses :
               /\ outputs[s].config = configs[i] /\ configs[i].stem = s
               /\ outputs[s].complete => statuses[i] = "success"
  BY <1>1, <1>2, <1>4 DEF FreshIsExplained, Fresh, Accounts
<1>5. ASSUME phase = "finished"
      PROVE  /\ Len(statuses) = Len(configs) /\ ToSet(statuses) = {"success"}
             /\ \A i \in DOMAIN configs :
                  Fresh(configs[i].stem) /\ outputs[configs[i].stem].complete
  <2>1. /\ Len(statuses) = Len(configs) /\ configs # <<>>
        /\ \A i \in 1 .. Len(statuses) : statuses[i] = "success"
    BY <1>1, <1>5 DEF StatusesTellThePhase
  <2>2. Len(configs) >= 1
    BY <1>1, <2>1 DEF BatchTypeOK
  <2>3. 1 \in DOMAIN statuses
    BY <1>2, <2>1, <2>2
  <2>4. ToSet(statuses) = {"success"}
    BY <1>2, <2>1, <2>3 DEF ToSet
  <2>5. \A i \in DOMAIN configs :
          Fresh(configs[i].stem) /\ outputs[configs[i].stem].complete
    BY <1>1, <1>2, <1>5, <2>1 DEF NoLeftOvers, Fresh
  <2> QED BY <2>1, <2>4, <2>5
<1> QED BY <1>3, <1>4, <1>5 DEF ResultsUpToTheFailure

\* However often the script was invoked on the results directory, and however those
\* invocations ended: what succeeded has its complete results, complete results of this
\* invocation are of a configuration that succeeded in it, and a batch that ends well
\* leaves no left-over among the folders of its command line.
THEOREM ResultsAreTrue == BatchSpec => []ResultsUpToTheFailure
<1>1. BatchInit => BatchInv
  BY BatchStarts
<1>2. BatchInv /\ [BatchNext]_batchVars => BatchInv'
  <2> SUFFICES ASSUME BatchInv, [BatchNext]_batchVars
               PROVE  BatchInv'
    OBVIOUS
  <2>1. CASE Invoke
    BY <2>1, InvokeKeeps
  <2>2. CASE RunSucceeds
    BY <2>2, RunSucceedsKeeps
  <2>3. CASE RunFails \/ Interrupt
    BY <2>3, CutShortKeeps
  <2>4. CASE Finish \/ UNCHANGED batchVars
    BY <2>4, FinishKeeps
  <2> QED BY <2>1, <2>2, <2>3, <2>4 DEF BatchNext
<1>3. BatchInv => ResultsUpToTheFailure
  BY InvGivesResults
<1> QED BY <1>1, <1>2, <1>3, PTL DEF BatchSpec
=============================================================================
