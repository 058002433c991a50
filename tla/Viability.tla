----------------------------- MODULE Viability ------------------------------
(***************************************************************************)
(* The viability metrics that experiments/runner.cpp derives from a        *)
(* finished simulation: what admissions brought, and what evictions cost.  *)
(***************************************************************************)
EXTENDS Simulator

\* cache_admission_diagnostics: the lifecycle rows of all nodes.
AdmissionRecords ==
  UNION {{<<n, i>> : i \in DOMAIN local_cache[n].admission_records} : n \in Nodes}

record(k) == local_cache[k[1]].admission_records[k[2]]

Placements == {k \in AdmissionRecords : record(k).admitted}

admission_attempts == Cardinality(AdmissionRecords)
total_future_hits == MapThenSumSet(LAMBDA k : record(k).future_hit_count, Placements)

estimated_avoided_remote_accesses == Cardinality(ServedBy("LocalCache"))

\* Mutant: a request at the time of the eviction does not count.
RequestedLater(k) ==
  {id \in Issued : LET r == request_table[id] IN
     /\ r.source_node_id = k[1] /\ r.object_id = record(k).object_id
     /\ r.issue_time > record(k).eviction_time}

\* The requests held against an eviction: the same node asked for the object again.
RequestedAgain(k) ==
  {id \in Issued : LET r == request_table[id] IN
     /\ r.source_node_id = k[1] /\ r.object_id = record(k).object_id
     /\ r.issue_time >= record(k).eviction_time}

Evictions == {k \in Placements : record(k).evicted}

\* served_tiers_by_request.
served_by_memory(id) == \E i \in ServedBy("Memory") : responses[i].request_id = id

eviction_regret_count ==
  MapThenSumSet(LAMBDA k : Cardinality(RequestedAgain(k)), Evictions)
remote_eviction_regret_count ==
  MapThenSumSet(LAMBDA k : Cardinality({id \in RequestedAgain(k) : served_by_memory(id)}),
                Evictions)

-----------------------------------------------------------------------------
(* Properties *)

\* Where in the log an event of a request stands.
Logged(type, id) ==
  CHOOSE p \in DOMAIN event_log : event_log[p].type = type /\ event_log[p].request_id = id

\* Where a placement was closed: at the answer whose admission named its object.
EvictedAt(k) ==
  LET Evicts(i) == LET by == record(<<k[1], i>>) IN
                     /\ i > k[2] /\ by.admitted
                     /\ by.time = record(k).eviction_time
                     /\ record(k).object_id \in by.evicted_objects
      i == CHOOSE i \in DOMAIN local_cache[k[1]].admission_records : Evicts(i)
  IN Logged("ReturnResponse", record(<<k[1], i>>).request_id)

\* The lookups that found the object of a closed placement gone.
LookedUpAfter(k) ==
  {id \in Issued : /\ request_table[id].source_node_id = k[1]
                   /\ request_table[id].object_id = record(k).object_id
                   /\ Logged("LocalCacheLookup", id) > EvictedAt(k)}

\* The metrics count what happened, events at equal times included: the hits
\* credited to placements are the requests answered by a cache, every miss is one
\* admission attempt unless replicas are installed, and an eviction is regretted as
\* often as the log has lookups of the object after it ("Eviction regret asks whether
\* a removed object was requested again by the same node",
\* summarize_viability_metrics).  In a burst an object admitted twice can push out
\* itself; the lookups counted against that are exact only for misses.
ViabilityCountsWhatHappened ==
  status = "running" /\ sched.events = {} =>
    /\ total_future_hits = estimated_avoided_remote_accesses
    /\ config.policy_type # "global_hottest" =>
         /\ admission_attempts = Cardinality(ServedBy("Memory"))
         /\ remote_eviction_regret_count =
              MapThenSumSet(LAMBDA k :
                Cardinality({id \in LookedUpAfter(k) : served_by_memory(id)}), Evictions)
         /\ config.issue_mode = "completion_driven" =>
              eviction_regret_count =
                MapThenSumSet(LAMBDA k : Cardinality(LookedUpAfter(k)), Evictions)
=============================================================================
