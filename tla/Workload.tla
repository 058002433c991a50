------------------------------ MODULE Workload ------------------------------
(***************************************************************************)
(* The arrival times of synthetic workloads (workloads/generators.cpp):    *)
(* requests of an epoch arrive in bursts, shifted by a jitter per node and *)
(* epoch.  Which object a request names, and the jitter, are the           *)
(* generator's random draws and are left free: a stream is built from any  *)
(* sequence of objects, and any jitter, per epoch.                         *)
(***************************************************************************)
EXTENDS SimTypes, SequencesExt

BurstConfig ==
  [burst_size : Nat, burst_interval : SimTime, intra_burst_gap : SimTime,
   node_phase_jitter : SimTime]

\* The burst part of validate_synthetic_workload_config.
validate_burst_config(mode, w) ==
  /\ w.burst_size > 0
  /\ w.burst_interval > 0
  /\ mode = "scheduled_bursty" /\ w.burst_size > 1 =>
       /\ w.intra_burst_gap <= (SimTimeRange - 1) \div (w.burst_size - 1)
       /\ w.burst_interval >= (w.burst_size - 1) * w.intra_burst_gap

\* scheduled_issue_offset of the i-th request (from 0) of an epoch.
scheduled_issue_offset(mode, w, jitter, i) ==
  IF mode = "completion_driven" THEN 0
  ELSE (jitter + (i \div w.burst_size) * w.burst_interval
               + (i % w.burst_size) * w.intra_burst_gap) % SimTimeRange

\* One node's request stream: the objects of each epoch in turn, each of the
\* size its id was given (object_sizes_by_id), at its arrival offset.
NodeStream(mode, w, jitter, sizes, epochs) ==
  FlattenSeq([k \in DOMAIN epochs |-> [i \in DOMAIN epochs[k] |->
    [object_id |-> epochs[k][i], size_bytes |-> sizes[epochs[k][i]],
     epoch_id |-> k - 1,
     scheduled_issue_offset |->
       scheduled_issue_offset(mode, w, jitter[k], i - 1)]]])
=============================================================================
