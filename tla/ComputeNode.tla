----------------------------- MODULE ComputeNode ----------------------------
(***************************************************************************)
(* A compute node (nodes/compute_node.cpp): it draws requests from its     *)
(* workload, looks them up in its private cache, forwards misses, and      *)
(* completes requests.                                                     *)
(***************************************************************************)
EXTENDS MemoryNode, LocalCache

VARIABLES
  next_request_id,   \* next_request_id_ : shared by all compute nodes
  responses          \* responses_ : the Response of every completed request

bursty == config.issue_mode = "scheduled_bursty"

\* start_epoch_if_needed: the policy's epoch hook, and the oracle replicas.
EpochStarted(node, epoch) == node.current_epoch # epoch

StartEpochHistory(n, epoch) ==
  IF EpochStarted(compute_nodes[n], epoch)
  THEN on_epoch_start(history[n], stats, epoch) ELSE history[n]

StartEpochCache(n, epoch, time) ==
  IF EpochStarted(compute_nodes[n], epoch) /\ config.policy_type = "global_hottest"
  THEN install_replicas(local_cache[n], epoch, time) ELSE local_cache[n]

\* Mutant: the operands of the subtraction are swapped.
EpochStartTimeSwapped(node, spec, time) ==
  IF ~bursty THEN node.current_epoch_start_time
  ELSE spec.scheduled_issue_offset - time

\* current_epoch_start_time_ as handle_generate_request recovers it.
EpochStartTime(node, spec, time) ==
  IF ~bursty THEN node.current_epoch_start_time
  ELSE IF time >= spec.scheduled_issue_offset
       THEN time - spec.scheduled_issue_offset ELSE 0

\* schedule_next_bursty_request_if_ready: the next arrival of this epoch.
ScheduleNextBursty(s, nodes, n) ==
  IF bursty /\ NextIsOfEpoch(nodes, n, nodes[n].current_epoch)
  THEN schedule(s, MakeEvent(
         Plus(nodes[n].current_epoch_start_time,
              peek_next(nodes, n).scheduled_issue_offset),
         "GenerateRequest", n, kInvalidRequestId))
  ELSE s

\* Mutant: the issued request is not counted.
AdvanceUncounted(node, spec, time) ==
  [next_index |-> node.next_index + 1, current_epoch |-> spec.epoch_id,
   current_epoch_start_time |-> EpochStartTime(node, spec, time),
   outstanding_requests |-> node.outstanding_requests]

\* The node after it drew spec: cursor, epoch and outstanding count.
Advance(node, spec, time) ==
  [next_index |-> node.next_index + 1, current_epoch |-> spec.epoch_id,
   current_epoch_start_time |-> EpochStartTime(node, spec, time),
   outstanding_requests |-> node.outstanding_requests + 1]

IssueRequest(e, n, spec) ==
  LET request == [request_id |-> next_request_id, source_node_id |-> n,
                  object_id |-> spec.object_id, issue_time |-> e.time,
                  size_bytes |-> spec.size_bytes, epoch_id |-> spec.epoch_id,
                  current_stage |-> "Generated", memory_enqueue_time |-> 0]
      looked_up == schedule(Popped(e),
                     MakeEvent(e.time, "LocalCacheLookup", n, next_request_id))
  IN /\ next_request_id' = next_request_id + 1
     /\ request_table' = Assign(request_table, next_request_id, request)
     /\ history' = [history EXCEPT ![n] = StartEpochHistory(n, spec.epoch_id)]
     /\ local_cache' =
          [local_cache EXCEPT ![n] = StartEpochCache(n, spec.epoch_id, e.time)]
     /\ compute_nodes' = [compute_nodes EXCEPT ![n] = Advance(@, spec, e.time)]
     /\ Return(ScheduleNextBursty(looked_up, compute_nodes', n))

handle_generate_request(e) ==
  /\ Dispatch(e, "GenerateRequest", Nodes)
  /\ IF has_next(compute_nodes, e.target_id)
     THEN IssueRequest(e, e.target_id, peek_next(compute_nodes, e.target_id))
     ELSE /\ UNCHANGED <<next_request_id, request_table, history, local_cache,
                         compute_nodes>>
          /\ Return(Popped(e))
  /\ UNCHANGED <<channels, stats, responses>>

handle_local_cache_lookup(e) ==
  LET n == e.target_id
      r == request_table[e.request_id]
      hit == contains(local_cache[n], r.object_id)
  IN /\ Dispatch(e, "LocalCacheLookup", Nodes)
     /\ local_cache' =
          [local_cache EXCEPT ![n] = lookup(@, r.object_id, e.time)]
     /\ history' = [history EXCEPT ![n] = on_lookup(@, stats, r)]
     /\ request_table' = [request_table EXCEPT ![e.request_id].current_stage =
                            IF hit THEN "LocalLookup" ELSE "ForwardedToMemory"]
     /\ stats' = IF hit THEN record_cache_hit(stats, n)
                        ELSE record_cache_miss(stats, n)
     /\ UNCHANGED <<next_request_id, compute_nodes, channels, responses>>
     /\ Return(schedule(Popped(e),
          IF hit THEN MakeEvent(Plus(e.time, config.hit_latency),
                                "LocalCacheHitComplete", n, e.request_id)
                 ELSE ToMemory(Plus(e.time, config.one_way_link_latency),
                               "ForwardToMemory", e.request_id)))

MarkCompleted(id) ==
  request_table' = [request_table EXCEPT ![id].current_stage = "Completed"]

\* What both completions share: respond, account, leave the outstanding set.
Complete(e, tier, bytes) ==
  LET n == e.target_id
      latency == e.time - request_table[e.request_id].issue_time
  IN /\ MarkCompleted(e.request_id)
     /\ responses' = Append(responses,
          [request_id |-> e.request_id, served_from_tier |-> tier,
           completion_time |-> e.time, total_latency |-> latency,
           bytes_transferred |-> bytes])
     /\ stats' = record_latency(stats, n, latency)
     /\ IF compute_nodes[n].outstanding_requests = 0
        THEN Throw(e, "Outstanding request count underflow")
        ELSE /\ compute_nodes' =
                  [compute_nodes EXCEPT ![n].outstanding_requests = @ - 1]
             /\ Return(schedule(Popped(e),
                  MakeEvent(e.time, "RequestComplete", n, e.request_id)))

handle_local_cache_hit_complete(e) ==
  /\ Dispatch(e, "LocalCacheHitComplete", Nodes)
  /\ Complete(e, "LocalCache", 0)
  /\ UNCHANGED <<next_request_id, channels, history, local_cache>>

handle_return_response(e) ==
  LET n == e.target_id
      r == request_table[e.request_id]
  IN /\ Dispatch(e, "ReturnResponse", Nodes)
     /\ Complete(e, "Memory", r.size_bytes)
     /\ local_cache' =
          [local_cache EXCEPT ![n] = admit(@, history[n], r, e.time)]
     /\ LET row == Last(local_cache'[n].admission_records)
        IN history' = [history EXCEPT ![n] = on_admission_result(
                         @, r, row.admitted, row.reason, row.evicted_objects)]
     /\ UNCHANGED <<next_request_id, channels>>

handle_request_complete(e) ==
  LET n == e.target_id
      node == compute_nodes[n]
  IN /\ Dispatch(e, "RequestComplete", Nodes)
     /\ UNCHANGED <<next_request_id, request_table, compute_nodes, channels,
                    stats, history, local_cache, responses>>
     /\ Return(IF ~bursty /\ NextIsOfEpoch(compute_nodes, n, node.current_epoch)
               THEN schedule(Popped(e),
                      MakeEvent(e.time, "GenerateRequest", n, kInvalidRequestId))
               ELSE Popped(e))
=============================================================================
