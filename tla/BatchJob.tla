------------------------------ MODULE BatchJob ------------------------------
(***************************************************************************)
(* What a script that runs experiments one after the other promises: the   *)
(* results come in the order of the points, one each; the first failure is *)
(* the last result unless the job was told to keep going; a job ends when  *)
(* nothing is left to run, and otherwise only by being aborted.            *)
(***************************************************************************)
EXTENDS Naturals, Sequences

VARIABLES
  size,         \* how many points the current job has
  keep_going,   \* whether it goes on after a failure
  results,      \* the results so far
  state         \* "idle", "active", "over" or "aborted"

batchVars == <<size, keep_going, results, state>>

Halted == ~ keep_going /\ \E i \in DOMAIN results : results[i] = "failed"

Init ==
  /\ size = 0 /\ keep_going = FALSE
  /\ results = <<>>
  /\ state = "idle"

Begin ==
  /\ state # "active"
  /\ size' \in Nat /\ keep_going' \in BOOLEAN
  /\ results' = <<>>
  /\ state' = "active"

Record ==
  /\ state = "active" /\ ~ Halted
  /\ Len(results) < size
  /\ \E status \in {"success", "failed", "dry_run"} : results' = Append(results, status)
  /\ UNCHANGED <<size, keep_going, state>>

End ==
  /\ state = "active"
  /\ Halted \/ Len(results) = size
  /\ state' = "over"
  /\ UNCHANGED <<size, keep_going, results>>

Abort ==
  /\ state = "active"
  /\ state' = "aborted"
  /\ UNCHANGED <<size, keep_going, results>>

Next == Begin \/ Record \/ End \/ Abort

Spec == Init /\ [][Next]_batchVars
=============================================================================
