----------------------------- MODULE Simulator ------------------------------
(***************************************************************************)
(* The simulator (sim/simulator.cpp): compute nodes, the memory node, the  *)
(* scheduler and the epoch barrier, composed.  Every step after            *)
(* construction is one iteration of the run loop: one dispatched event,    *)
(* its whole handler, and the release check that follows it.               *)
(***************************************************************************)
EXTENDS ComputeNode

vars == <<config, status, sched, event_log, compute_nodes, released_epoch,
          stats, request_table, channels, history, local_cache,
          next_request_id, responses>>

\* The Simulator constructor, for any configuration it accepts.
Init ==
  /\ config \in Configs
  /\ status = "constructed"
  /\ sched = EmptyScheduler
  /\ event_log = <<>>
  /\ compute_nodes = [n \in Nodes |-> NewComputeNode]
  /\ released_epoch = NoEpoch
  /\ stats = NewStats
  /\ request_table = <<>>
  /\ channels = [c \in ChannelIds |-> NewChannel]
  /\ history = [n \in Nodes |-> NewHistory]
  /\ local_cache = [n \in Nodes |-> EmptyCache]
  /\ next_request_id = 1
  /\ responses = <<>>

\* Simulator::run, up to the loop: the first release.
Run ==
  /\ status = "constructed"
  /\ status' = "running"
  /\ UNCHANGED <<config, event_log, compute_nodes, stats, request_table,
                 channels, history, local_cache, next_request_id, responses>>
  /\ ReleaseNextEpochIfReady(sched)

MemoryStep(e) ==
  /\ \/ handle_forward_to_memory(e)
     \/ handle_memory_service_start(e)
     \/ handle_memory_service_complete(e)
  /\ UNCHANGED <<history, local_cache, next_request_id, responses>>

ComputeStep(e) ==
  \/ handle_generate_request(e)
  \/ handle_local_cache_lookup(e)
  \/ handle_local_cache_hit_complete(e)
  \/ handle_return_response(e)
  \/ handle_request_complete(e)

Issued == 1 .. next_request_id - 1
Unfinished == {id \in Issued : request_table[id].current_stage # "Completed"}

WorkloadDone ==
  /\ \A n \in Nodes : ~has_next(compute_nodes, n)
  /\ Unfinished = {}

\* run() returns: the queue is empty.  (A thrown logic_error leaves no step, and
\* so is a deadlock.)
Finished ==
  /\ status = "running"
  /\ sched.events = {}
  /\ UNCHANGED vars

Next ==
  \/ Run
  \/ \E e \in sched.events : MemoryStep(e) \/ ComputeStep(e)
  \/ Finished

Spec == Init /\ [][Next]_vars

\* The run loop is one thread that keeps popping events while there are any.
FairSpec == Spec /\ WF_vars(Next)

-----------------------------------------------------------------------------
(* Types *)

\* Every component's state has its type.  The cache is typed by its keys and
\* counters; what its numbers satisfy is the business of the cache properties.
TypeOK ==
  /\ AcceptedConfig(config)
  /\ sched \in SchedulerState
  /\ event_log \in Seq(EventRecord)
  /\ compute_nodes \in [Nodes -> ComputeNodeState]
  /\ released_epoch \in Nat \cup {NoEpoch}
  /\ next_request_id \in Nat \ {0}
  /\ request_table \in [Issued -> Request]
  /\ channels \in [ChannelIds -> ChannelState]
  /\ responses \in Seq(Response)

-----------------------------------------------------------------------------
(* The scheduler and the event log *)

\* Events are dispatched in time order and never in the past: the log is
\* sorted by time, the clock stands at its last entry, and nothing pending is
\* earlier (Scheduler::schedule and pop_next; architecture invariant 1).
EventLogInTimeOrder ==
  /\ \A i \in 2 .. Len(event_log) : event_log[i - 1].time <= event_log[i].time
  /\ event_log # <<>> =>
       sched.current_time = event_log[Len(event_log)].time
  /\ \A e \in sched.events : e.time >= sched.current_time

\* The queue breaks every tie: no two pending events compare equal, however many
\* share a time, so the next event is unique and the run deterministic.  And
\* what is pending or queued refers to a request that was issued, and issued
\* no later than now, so that request_table_.at never throws and no latency
\* wraps below zero.
EventQueueIsSound ==
  /\ QueueOK(sched, Issued)
  /\ \A c \in ChannelIds : channels[c].queued_requests \in Seq(Issued)
  /\ \A id \in Issued : /\ request_table[id].issue_time <= sched.current_time
                        /\ request_table[id].memory_enqueue_time <= sched.current_time

-----------------------------------------------------------------------------
(* The request path *)

\* The pending event a request in this stage waits for, if it waits for one.
AwaitedEvents(stage) ==
  CASE stage = "Generated" -> {"LocalCacheLookup"}
    [] stage = "LocalLookup" -> {"LocalCacheHitComplete"}
    [] stage = "ForwardedToMemory" -> {"ForwardToMemory"}
    [] stage = "WaitingForResponse" -> {"MemoryServiceComplete", "ReturnResponse"}
    [] OTHER -> {}

EventsFor(id) == {e \in sched.events :
                    e.request_id = id /\ e.type # "RequestComplete"
                                      /\ e.type # "MemoryServiceStart"}
QueuePlaces(id) == {p \in ChannelIds \X (1 .. Cardinality(Issued)) :
                      /\ p[2] <= Len(channels[p[1]].queued_requests)
                      /\ channels[p[1]].queued_requests[p[2]] = id}

AnswersTo(id) == {i \in DOMAIN responses : responses[i].request_id = id}

\* No request is lost, duplicated or answered twice: each unfinished one is held
\* by exactly one pending event, of the kind its stage calls for, or by exactly
\* one place in a channel queue, and a finished one by neither but by the one
\* response it was given (the handlers of compute_node.cpp and memory_node.cpp).
RequestsAreInExactlyOnePlace ==
  \A id \in Issued :
    LET held == EventsFor(id)
        queued == QueuePlaces(id)
        stage == request_table[id].current_stage
    IN /\ Cardinality(held) + Cardinality(queued) + Cardinality(AnswersTo(id)) = 1
       /\ AnswersTo(id) = {} <=> id \in Unfinished
       /\ \A e \in held : e.type \in AwaitedEvents(stage)
       /\ \A p \in queued : /\ p[1] = channel_for(request_table[id])
                            /\ stage = "ForwardedToMemory"

\* outstanding_requests_, on which the epoch barrier rests, is the number of
\* requests of the node that are issued and not completed.
OutstandingCountsUnfinished ==
  \A n \in Nodes :
    compute_nodes[n].outstanding_requests
      = Cardinality({id \in Unfinished : request_table[id].source_node_id = n})

-----------------------------------------------------------------------------
(* Memory channels *)

EventsOfChannel(c, type) ==
  {e \in sched.events : /\ e.type = type
                        /\ channel_for(request_table[e.request_id]) = c}

\* A channel's two flags tell the truth about the event queue.  A service in
\* progress is one pending completion; a scheduled start is one pending start,
\* for the request at the head of the queue; never both; and a channel with
\* work waiting has one of them (memory_node.cpp:50 and :107).
ChannelFlagsMatchEvents ==
  \A c \in ChannelIds :
    LET ch == channels[c]
        starts == EventsOfChannel(c, "MemoryServiceStart")
        completions == EventsOfChannel(c, "MemoryServiceComplete")
    IN /\ Cardinality(starts) = IF ch.service_start_scheduled THEN 1 ELSE 0
       /\ Cardinality(completions) = IF ch.service_in_progress THEN 1 ELSE 0
       /\ ~(ch.service_start_scheduled /\ ch.service_in_progress)
       /\ ch.queued_requests # <<>> =>
            ch.service_start_scheduled \/ ch.service_in_progress
       /\ \A e \in starts : /\ ch.queued_requests # <<>>
                            /\ e.request_id = Head(ch.queued_requests)

\* The requests of the logged events of this type on channel c, in order.
LoggedOnChannel(c, type) ==
  LET ids[i \in 0 .. Len(event_log)] ==
        IF i = 0 THEN <<>>
        ELSE LET ev == event_log[i]
             IN IF ev.type = type /\ channel_for(request_table[ev.request_id]) = c
                THEN Append(ids[i - 1], ev.request_id)
                ELSE ids[i - 1]
  IN ids[Len(event_log)]

\* A channel serves in arrival order, whatever the interleaving of arrivals,
\* starts and completions at equal times.
ChannelsServeInArrivalOrder ==
  \A c \in ChannelIds :
    IsPrefix(LoggedOnChannel(c, "MemoryServiceStart"),
             LoggedOnChannel(c, "ForwardToMemory"))

-----------------------------------------------------------------------------
(* The epoch barrier *)

\* What the contention-aware policies read at an epoch start is final: the
\* rows of an epoch before the released one never change again
\* (architecture invariant 8).
PriorTelemetryIsFrozen ==
  [][\A k \in DOMAIN stats.contention_by_epoch :
       k[1] < released_epoch =>
         stats.contention_by_epoch'[k] = stats.contention_by_epoch[k]]_vars

-----------------------------------------------------------------------------
(* Time accounting *)

ServedBy(tier) == {i \in DOMAIN responses : responses[i].served_from_tier = tier}

\* Once drained, the time the reports attribute adds up: the total latency is
\* the hit latencies, plus two link crossings and one service per miss, plus
\* the queueing the memory node measured.
LatencyIsAccountedFor ==
  sched.events = {} =>
    total_latency =
        Cardinality(ServedBy("LocalCache")) * config.hit_latency
      + SumOf([i \in ServedBy("Memory") |->
                 2 * config.one_way_link_latency
                   + service_time_for(request_table[responses[i].request_id])])
      + total_memory_wait

-----------------------------------------------------------------------------
(* The local caches *)

ResidentBytes(c) ==
  MapThenSumSet(LAMBDA o : c.entries[o].size_bytes, DOMAIN c.entries)

\* Occupancy never exceeds the configured capacity, and neither do the bytes
\* really resident (architecture invariant 4).
OccupancyWithinCapacity ==
  \A n \in Nodes : /\ local_cache[n].occupancy_bytes <= config.capacity_bytes
                   /\ ResidentBytes(local_cache[n]) <= config.capacity_bytes

\* occupancy_bytes_ is the "current occupancy in bytes" (local_cache.hpp:112):
\* the bytes of the resident entries, and of nothing else.
OccupancyIsResidentBytes ==
  \A n \in Nodes :
    local_cache[n].occupancy_bytes = ResidentBytes(local_cache[n])

\* The residents are exactly the rows that were admitted and not evicted.
RowsOfResidents(c) ==
  LET rows == c.admission_records
      open == {i \in DOMAIN rows : rows[i].admitted /\ ~rows[i].evicted}
  IN /\ DOMAIN c.active_placement_by_object = DOMAIN c.entries
     /\ {c.active_placement_by_object[o] : o \in DOMAIN c.entries} = open
     /\ \A i \in open : c.active_placement_by_object[rows[i].object_id] = i

\* A placement is closed exactly when a later admitted row, of that time, names
\* its object as a victim.
ClosedRowsAreExplained(rows) ==
  LET Explains(i, j) == /\ j < i
                        /\ rows[i].admitted
                        /\ rows[j].evicted
                        /\ rows[j].eviction_time = rows[i].time
                        /\ rows[j].object_id \in rows[i].evicted_objects
  IN /\ \A j \in DOMAIN rows :
          rows[j].evicted => \E i \in DOMAIN rows : Explains(i, j)
     /\ \A i \in DOMAIN rows : rows[i].admitted =>
          \A o \in rows[i].evicted_objects :
            \E j \in DOMAIN rows : rows[j].object_id = o /\ Explains(i, j)

\* The log of placements tells what happened: "Maps each resident object to the
\* admission_records_ row that installed it" (local_cache.hpp:125), one open
\* row per resident, and every closed one explained by the admission that
\* pushed its object out (admit, evict, record_successful_placement).  Stated
\* where a node has one request at a time: in a burst two answers for one
\* object break it, as they break OccupancyIsResidentBytes.
PlacementRowsTrackResidents ==
  config.issue_mode = "completion_driven" /\ config.policy_type # "global_hottest" =>
    \A n \in Nodes : /\ RowsOfResidents(local_cache[n])
                     /\ ClosedRowsAreExplained(local_cache[n].admission_records)

\* Under the oracle a node holds, throughout an epoch, the most demanded objects
\* of that epoch and of no other: whatever is planned and absent either exceeds
\* the cache or is demanded no more than every resident, and if such objects
\* remain one of them did not fit (build_global_replica_plan, install_replicas,
\* start_epoch_if_needed).
OracleHoldsTheHottest ==
  config.policy_type = "global_hottest" =>
    \A n \in Nodes :
      LET epoch == compute_nodes[n].current_epoch
          resident == DOMAIN local_cache[n].entries
          absent == {o \in PlannedObjects(epoch) \ resident :
                       ReplicaSize(epoch, o) <= config.capacity_bytes}
      IN epoch # NoEpoch =>
           /\ resident \subseteq PlannedObjects(epoch)
           /\ \A a \in absent, o \in resident :
                Cardinality(Demand(epoch, a)) <= Cardinality(Demand(epoch, o))
           /\ absent # {} =>
                \E a \in absent : local_cache[n].occupancy_bytes
                     + ReplicaSize(epoch, a) > config.capacity_bytes

\* The lookups of node n for object o since epoch first.
LookupsSince(n, o, first) ==
  {id \in Issued : LET r == request_table[id] IN
     /\ r.source_node_id = n
     /\ r.object_id = o
     /\ r.current_stage # "Generated"
     /\ r.epoch_id >= first}

RequestedObjects == {request_table[id].object_id : id \in Issued}

\* The counts the hotness policy decides by are the lookups its history mode
\* remembers (of the current epoch, of the last history_window_epochs epochs,
\* or all), hits and misses alike, each counted once: what leaves with an old
\* epoch is exactly what came in with it (on_lookup, on_epoch_start,
\* prune_window, subtract_epoch_counts).
HeatIsRememberedLookups ==
  config.policy_type = "hotness_only" =>
    \A n \in Nodes, o \in RequestedObjects :
      LET current == compute_nodes[n].current_epoch
          first == CASE config.history_mode = "epoch" -> current
                     [] config.history_mode = "windowed"
                          -> current - config.history_window_epochs + 1
                     [] OTHER -> 0
      IN count_for(history[n], o) = Cardinality(LookupsSince(n, o, first))

-----------------------------------------------------------------------------
(* The contention-aware policy *)

contention_aware == config.policy_type = "contention_aware"

\* The nodes score an epoch by one and the same telemetry, whenever each of them
\* began it: what a node took at its epoch start is what it would take now.
\* Nothing of the epoch itself leaks in (architecture invariant 8,
\* on_epoch_start).
TelemetrySnapshotsAgree ==
  contention_aware =>
    \A n \in Nodes :
      compute_nodes[n].current_epoch # NoEpoch =>
        /\ history[n].current_epoch = compute_nodes[n].current_epoch
        /\ history[n].previous_epoch_stats
             = TelemetrySnapshot(stats, history[n].current_epoch)

\* Local demand is counted as configured: local hotness is the lookups of the
\* epoch, or of the run without reset_on_epoch_change; and confirmation is the
\* lookups of the last local_confirmation_window_epochs epochs, whatever the
\* reset (on_lookup, prune_local_confirmation).
DemandIsRememberedLookups ==
  contention_aware =>
    \A n \in Nodes, o \in RequestedObjects :
      LET current == compute_nodes[n].current_epoch
          first == IF knobs.reset_on_epoch_change THEN current ELSE 0
          confirmed_since == current - AtLeast(knobs.local_confirmation_window_epochs, 1) + 1
      IN /\ count_for(history[n], o) = Cardinality(LookupsSince(n, o, first))
         /\ uses_local_confirmation =>
              confirmation_count_for(history[n], o)
                = Cardinality(LookupsSince(n, o, confirmed_since))

\* A replacement improves the cache by the policy's own measure, however many
\* victims it takes: each of them scores no more than any resident that stays,
\* and less than the newcomer by the margin (select_victim, admit).
ReplacementsRaiseScores ==
  [][contention_aware =>
       \A n \in Nodes :
         LET before == local_cache[n].entries
             after == local_cache'[n].entries
             score(o, entries) == score_object(history[n], o, entries[o].size_bytes)
         IN \A v \in DOMAIN before \ DOMAIN after :
              /\ \A o \in DOMAIN after \cap DOMAIN before :
                   score(v, before) <= score(o, before)
              /\ \A o \in DOMAIN after \ DOMAIN before :
                   score(v, before) + required_margin < score(o, after)]_vars

-----------------------------------------------------------------------------
(* Progress *)

\* run() returns only when every configured request is issued and completed
\* (architecture invariant 3).
StopsOnlyWhenDone ==
  status = "running" /\ sched.events = {} => WorkloadDone

\* Every configured request is issued and completed, and run() returns.
WorkloadCompletes == <>[](WorkloadDone /\ sched.events = {})

-----------------------------------------------------------------------------
(* The abstract service *)

\* The place of a request in its node's stream: ids are handed out in the
\* order in which the node draws its requests.
PlaceInStream(id) ==
  <<request_table[id].source_node_id,
    Cardinality({j \in 1 .. id : request_table[j].source_node_id
                                   = request_table[id].source_node_id})>>

Service == INSTANCE EpochService WITH
  epochs <- [n \in Nodes |-> [i \in DOMAIN config.compute_nodes[n] |->
                                config.compute_nodes[n][i].epoch_id]],
  epoch <- released_epoch,
  issued <- [n \in Nodes |-> compute_nodes[n].next_index],
  open <- {PlaceInStream(id) : id \in Unfinished}

\* Events, caches, channels and policies together implement the plain epoch
\* service: each request issued once and completed once, epochs in order, and
\* the service never stuck (architecture invariants 3 and 7).
ImplementsEpochService == Service!ServiceSpec
=============================================================================
