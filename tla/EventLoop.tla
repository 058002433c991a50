----------------------------- MODULE EventLoop ------------------------------
(***************************************************************************)
(* The run loop around every handler (Scheduler::run_until_empty,          *)
(* Simulator::run, dispatch_event, release_next_epoch_if_ready): pop the   *)
(* least event, log it, hand it to its target, then release the next epoch *)
(* if nothing is pending and every compute node is idle.                   *)
(***************************************************************************)
EXTENDS Scheduler

VARIABLES
  status,          \* "constructed", "running", or the logic_error thrown
  sched,           \* the Scheduler
  event_log,       \* event_log_ : the EventRecord of every dispatched event
  compute_nodes,   \* per node: workload cursor, epoch and outstanding count
  released_epoch   \* released_epoch_

ComputeNodeState ==
  [next_index : Nat, current_epoch : Nat \cup {NoEpoch},
   current_epoch_start_time : SimTime, outstanding_requests : Nat]

NewComputeNode ==
  [next_index |-> 0, current_epoch |-> NoEpoch, current_epoch_start_time |-> 0,
   outstanding_requests |-> 0]

EventRecord ==
  [time : SimTime, type : EventType, target_id : Targets, request_id : Nat]

\* WorkloadCursor::has_next and peek_next.
has_next(nodes, n) == nodes[n].next_index < Len(config.compute_nodes[n])
peek_next(nodes, n) == config.compute_nodes[n][nodes[n].next_index + 1]

\* Mutant: whatever the epoch of the next request.
NextOfAnyEpoch(nodes, n, epoch) == has_next(nodes, n)

\* ComputeNode::next_request_epoch is epoch.
NextIsOfEpoch(nodes, n, epoch) ==
  has_next(nodes, n) /\ peek_next(nodes, n).epoch_id = epoch

all_compute_nodes_idle(nodes) ==
  \A n \in Nodes : nodes[n].outstanding_requests = 0

\* next_unreleased_epoch: the least of the epochs that some node's next request
\* belongs to and that are beyond the released one.
UnreleasedEpochs(nodes) ==
  {peek_next(nodes, n).epoch_id : n \in {m \in Nodes : has_next(nodes, m)}}
    \cap {epoch \in Nat : epoch > released_epoch}

\* Mutant: the greatest of them.
last_unreleased_epoch(nodes) ==
  CHOOSE epoch \in UnreleasedEpochs(nodes) :
    \A other \in UnreleasedEpochs(nodes) : other <= epoch

next_unreleased_epoch(nodes) ==
  CHOOSE epoch \in UnreleasedEpochs(nodes) :
    \A other \in UnreleasedEpochs(nodes) : epoch <= other

\* The loop of release_next_epoch_if_ready: in config order, one GenerateRequest
\* for each node whose next request is of the epoch; sequence numbers follow
\* that order, and an event in the past is refused like any other.
Release(s, nodes, epoch) ==
  LET time(n) == Plus(s.current_time, peek_next(nodes, n).scheduled_issue_offset)
      accepted == {n \in Nodes : /\ NextIsOfEpoch(nodes, n, epoch)
                                 /\ time(n) >= s.current_time}
      rank(n) == Cardinality({m \in accepted : m < n})
  IN [current_time |-> s.current_time,
      next_sequence |-> s.next_sequence + Cardinality(accepted),
      events |-> s.events \cup
        {Stamp(MakeEvent(time(n), "GenerateRequest", n, kInvalidRequestId),
               s.next_sequence + rank(n)) : n \in accepted}]

\* The first test of release_next_epoch_if_ready.
ReadyToRelease(s, nodes) == s.events = {} /\ all_compute_nodes_idle(nodes)

\* release_next_epoch_if_ready, run on the scheduler s that the handler left.
ReleaseNextEpochIfReady(s) ==
  IF /\ ReadyToRelease(s, compute_nodes')
     /\ UnreleasedEpochs(compute_nodes') # {}
  THEN /\ released_epoch' = next_unreleased_epoch(compute_nodes')
       /\ sched' = Release(s, compute_nodes', released_epoch')
  ELSE sched' = s /\ UNCHANGED released_epoch

\* pop_next and dispatch_event: e is the least pending event, of this type and
\* for this target, and it is logged.
Dispatch(e, type, targets) ==
  /\ status = "running"
  /\ IsNext(sched, e)
  /\ e.type = type
  /\ e.target_id \in targets
  /\ event_log' = Append(event_log,
                         [time |-> e.time, type |-> e.type,
                          target_id |-> e.target_id, request_id |-> e.request_id])

\* The scheduler the handler of e starts from.
Popped(e) == pop_next(sched, e)

\* A handler returns, having left the scheduler s.
Return(s) == ReleaseNextEpochIfReady(s) /\ UNCHANGED <<config, status>>

\* A handler throws std::logic_error: run() is abandoned.
Throw(e, error) ==
  /\ status' = error
  /\ sched' = Popped(e)
  /\ UNCHANGED <<config, compute_nodes, released_epoch>>
=============================================================================
