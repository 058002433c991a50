--------------------------- MODULE BarrierProofs ----------------------------
(***************************************************************************)
(* Proofs about epochs and time, for every number of nodes, every SimTime  *)
(* range and every configuration.                                          *)
(*                                                                         *)
(* The epoch barrier.  Whatever is pending or unfinished belongs to the    *)
(* released epoch, so what was measured in the epochs before it is final.  *)
(* As long as no event time wraps around (TimesFit) and the arrivals of a  *)
(* bursty epoch are configured in time order (ArrivalsInOrder), nothing is *)
(* lost, the simulator stops only when everything is done, and each step   *)
(* is one of the plain epoch service or none: this is                      *)
(* ImplementsEpochService without its fairness.  Without those two,        *)
(* Scheduler::schedule refuses events and its callers ignore the refusal,  *)
(* so requests are lost.                                                   *)
(*                                                                         *)
(* The time of a request.  A memory channel serves in arrival order, and   *)
(* once everything is done the latencies that were recorded are made up of *)
(* the hit latencies, of two link crossings and one service for each miss, *)
(* and of the waits that the memory node recorded: as long as no time      *)
(* wraps around (TimesFit).  A refused event would leave a wait recorded   *)
(* and no latency.                                                         *)
(***************************************************************************)
EXTENDS SimulatorProofs

-----------------------------------------------------------------------------
(* The inductive invariant *)

\* What lets a node go on: a pending GenerateRequest or RequestComplete.
TokenTypes == {"GenerateRequest", "RequestComplete"}
Tokens(n) == {f \in sched.events : f.type \in TokenTypes /\ f.target_id = n}

\* Every unfinished request is of the released epoch, which its node is in.
OpenInEpoch ==
  \A id \in Unfinished : /\ EpochOf(id) = released_epoch
                         /\ compute_nodes[SourceOf(id)].current_epoch = released_epoch

\* So is the request that a pending GenerateRequest will draw, the only one
\* pending for its node and so far without an id; and so was the last of a
\* pending RequestComplete.
TokensInEpoch ==
  /\ \A f \in PendingOf("GenerateRequest") :
       f.target_id \in Nodes /\ NextIsOfEpoch(compute_nodes, f.target_id, released_epoch)
  /\ \A f, g \in PendingOf("GenerateRequest") : f.target_id = g.target_id => f = g
  /\ \A f \in PendingOf("GenerateRequest") : f.request_id = kInvalidRequestId
  /\ \A f \in PendingOf("RequestComplete") :
       f.target_id \in Nodes /\ compute_nodes[f.target_id].current_epoch = released_epoch

\* A completion-driven node does one thing at a time: it has one token, or one
\* unfinished request, or neither.
OneThingAtATime ==
  ~bursty =>
    \A n \in Nodes : /\ \A f, g \in Tokens(n) : f = g
                     /\ \A i, j \in OpenAt(n) : i = j
                     /\ Tokens(n) = {} \/ OpenAt(n) = {}

\* Before run() there is nothing yet.
NothingBeforeRun ==
  status = "constructed" =>
    /\ released_epoch = NoEpoch /\ Issued = {} /\ sched = EmptyScheduler
    /\ compute_nodes = [n \in Nodes |-> NewComputeNode]

\* The counters are a record of seven fields.
HasStatsShape(st) ==
  \E latencies, hits, misses, waits, depth, objects, by_channel :
    st = [latencies |-> latencies, local_cache_hits |-> hits,
          local_cache_misses |-> misses, memory_waits |-> waits,
          peak_memory_queue_depth |-> depth, contention_by_epoch |-> objects,
          channel_contention_by_epoch |-> by_channel]

BarrierInv ==
  /\ RequestPathInv
  /\ OpenInEpoch
  /\ TokensInEpoch
  /\ OneThingAtATime
  /\ NothingBeforeRun
  /\ HasStatsShape(stats)

-----------------------------------------------------------------------------
(* The two ways a handler can end *)

\* Nothing is released: the queue differs by e and new.
GoesOn(e, new) ==
  /\ UNCHANGED <<config, status>>
  /\ sched'.events = (sched.events \ {e}) \cup new
  /\ sched'.current_time = e.time
  /\ released_epoch' = released_epoch
  /\ (sched'.events = {} /\ all_compute_nodes_idle(compute_nodes'))
       => UnreleasedEpochs(compute_nodes') = {}

\* Every node whose next request is of the released epoch has a GenerateRequest.
EachNextIsAnnounced ==
  \A n \in Nodes : NextIsOfEpoch(compute_nodes', n, released_epoch') =>
    \E f \in sched'.events : f.target_id = n

\* The least waiting epoch is released, and its requests announced.
Releases ==
  /\ UNCHANGED config
  /\ all_compute_nodes_idle(compute_nodes')
  /\ released_epoch' \in UnreleasedEpochs(compute_nodes')
  /\ \A g \in UnreleasedEpochs(compute_nodes') : released_epoch' <= g
  /\ \A f \in sched'.events :
       /\ f.type = "GenerateRequest" /\ f.request_id = kInvalidRequestId
       /\ f.target_id \in Nodes
       /\ NextIsOfEpoch(compute_nodes', f.target_id, released_epoch')
  /\ \A f, g \in sched'.events : f.target_id = g.target_id => f = g
  /\ TimesFit => EachNextIsAnnounced

\* A node's stream is a sequence of requests.
LEMMA StreamType ==
  ASSUME AcceptedConfig(config), NEW n \in Nodes
  PROVE  config.compute_nodes[n] \in Seq(RequestSpec)
BY DEF AcceptedConfig, SimulationConfig

\* A handler ends in one of them.
LEMMA HandlerEnds ==
  ASSUME RequestPathInv, SimulatorInv', NEW e \in sched.events, NEW new, Leaves(e, new)
  PROVE  GoesOn(e, new) \/ (Releases /\ (sched.events \ {e}) \cup new = {})
<1>1. PICK s : /\ QueueOK(s, Issued') /\ s.current_time = e.time
               /\ s.events = (sched.events \ {e}) \cup new
               /\ Return(s) /\ UNCHANGED <<config, status>>
  BY DEF Leaves, Return
<1>2. /\ AcceptedConfig(config) /\ compute_nodes' \in NodeStates
      /\ ReleaseNextEpochIfReady(s)
  BY <1>1, StepFacts DEF RequestPathInv, SimulatorInv, TypeOK, Return
<1>3. CASE /\ sched' = s /\ released_epoch' = released_epoch
           /\ ReadyToRelease(s, compute_nodes') => UnreleasedEpochs(compute_nodes') = {}
  BY <1>1, <1>3 DEF GoesOn, ReadyToRelease
<1>4. CASE /\ ReadyToRelease(s, compute_nodes')
           /\ released_epoch' \in UnreleasedEpochs(compute_nodes')
           /\ \A g \in UnreleasedEpochs(compute_nodes') : released_epoch' <= g
           /\ \A f \in sched'.events :
                /\ f.type = "GenerateRequest" /\ f.request_id = kInvalidRequestId
                /\ f.target_id \in Nodes
                /\ NextIsOfEpoch(compute_nodes', f.target_id, released_epoch')
           /\ \A f, g \in sched'.events : f.target_id = g.target_id => f = g
           /\ \A n \in Nodes :
                /\ NextIsOfEpoch(compute_nodes', n, released_epoch')
                /\ s.current_time + peek_next(compute_nodes', n).scheduled_issue_offset
                     < SimTimeRange
                => \E f \in sched'.events : f.target_id = n
  <2>1. TimesFit => EachNextIsAnnounced
    <3> SUFFICES ASSUME TimesFit, NEW n \in Nodes,
                        NextIsOfEpoch(compute_nodes', n, released_epoch')
                 PROVE  \E f \in sched'.events : f.target_id = n
      BY DEF EachNextIsAnnounced
    <3>1. peek_next(compute_nodes', n).scheduled_issue_offset \in Delays
      <4>1. compute_nodes'[n].next_index + 1 \in DOMAIN config.compute_nodes[n]
        BY <1>2, StreamType DEF NextIsOfEpoch, has_next, NodeStates, ComputeNodeState
      <4> QED BY <4>1 DEF Delays, peek_next
    <3> QED BY <1>1, <1>4, <3>1 DEF TimesFit
  <2> QED BY <1>1, <1>4, <2>1 DEF Releases, ReadyToRelease
<1> QED BY <1>1, <1>2, <1>3, <1>4, ReleaseCases

EveryNodeIdle == all_compute_nodes_idle(compute_nodes)

\* When every node is idle, no request is unfinished.
LEMMA IdleMeansDone == RequestPathInv /\ EveryNodeIdle => Unfinished = {}
<1> SUFFICES ASSUME RequestPathInv, EveryNodeIdle,
                    NEW id \in Unfinished
             PROVE  FALSE
  OBVIOUS
<1>1. id \in Issued /\ SourceOf(id) \in Nodes
  BY Referents DEF Unfinished, RequestPathInv
<1>2. PICK n \in Nodes : n = SourceOf(id)
  BY <1>1
<1>3. id \in OpenAt(n) /\ IsFiniteSet(OpenAt(n))
  BY <1>2, OpenFinite DEF OpenAt, RequestPathInv
<1>4. Cardinality(OpenAt(n)) = 0
  BY DEF EveryNodeIdle, all_compute_nodes_idle, RequestPathInv, OutstandingCountsUnfinished,
     OpenAt, SourceOf
<1> QED BY <1>3, <1>4, FS_EmptySet

\* After a step too.
LEMMA IdleMeansDoneNext == RequestPathInv' /\ EveryNodeIdle' => (Unfinished = {})'
BY IdleMeansDone, PTL

\* A release leaves nothing but GenerateRequests of the epoch it opens.
LEMMA ReleasedInEpoch ==
  ASSUME RequestPathInv', Releases
  PROVE  OpenInEpoch' /\ TokensInEpoch' /\ OneThingAtATime'
<1>1. EveryNodeIdle'
  BY DEF Releases, EveryNodeIdle, all_compute_nodes_idle
<1>2. Unfinished' = {}
  BY <1>1, IdleMeansDoneNext
<1>3. OpenInEpoch'
  BY <1>2 DEF OpenInEpoch
<1>4. TokensInEpoch'
  BY DEF Releases, TokensInEpoch, PendingOf, NextIsOfEpoch, has_next, peek_next
<1>5. OneThingAtATime'
  <2>1. \A n : OpenAt(n)' = {}
    BY <1>2 DEF OpenAt
  <2>2. \A n \in Nodes : \A f, g \in Tokens(n)' : f = g
    BY DEF Releases, Tokens
  <2> QED BY <2>1, <2>2 DEF OneThingAtATime
<1> QED BY <1>3, <1>4, <1>5

-----------------------------------------------------------------------------
(* The barrier through the handlers that release nothing *)

\* No node draws a request: cursors and epochs stand.
KeepsCursors ==
  \A n \in Nodes : /\ compute_nodes'[n].next_index = compute_nodes[n].next_index
                   /\ compute_nodes'[n].current_epoch = compute_nodes[n].current_epoch

\* A handler that passes on no token keeps the barrier.
LEMMA BarrierKept ==
  ASSUME BarrierInv, NEW e \in sched.events, NEW new, GoesOn(e, new),
         KeepsRequests, KeepsCursors, Unfinished' = Unfinished,
         \A p \in new : p.type \notin TokenTypes
  PROVE  OpenInEpoch' /\ TokensInEpoch' /\ OneThingAtATime'
<1>1. /\ released_epoch' = released_epoch /\ config' = config
      /\ \A type \in TokenTypes : \A f \in PendingOf(type)' : f \in PendingOf(type)
      /\ \A n : \A f \in Tokens(n)' : f \in Tokens(n)
  BY DEF GoesOn, PendingOf, Tokens, TokenTypes
<1>2. \A id \in Unfinished : id \in Issued /\ SourceOf(id) \in Nodes
  BY Referents DEF Unfinished, BarrierInv, RequestPathInv
<1>3. OpenInEpoch'
  <2> SUFFICES ASSUME NEW id \in Unfinished
               PROVE  /\ EpochOf(id)' = released_epoch
                      /\ compute_nodes'[SourceOf(id)'].current_epoch = released_epoch
    BY <1>1 DEF OpenInEpoch
  <2>1. EpochOf(id) = released_epoch /\ compute_nodes[SourceOf(id)].current_epoch = released_epoch
    BY DEF BarrierInv, OpenInEpoch
  <2> QED BY <1>2, <2>1 DEF KeepsRequests, KeepsCursors
<1>4. TokensInEpoch'
  <2>1. \A f \in PendingOf("GenerateRequest")' :
          f.target_id \in Nodes /\ NextIsOfEpoch(compute_nodes, f.target_id, released_epoch)
    BY <1>1 DEF TokenTypes, BarrierInv, TokensInEpoch
  <2>2. \A f \in PendingOf("GenerateRequest")' :
          NextIsOfEpoch(compute_nodes, f.target_id, released_epoch)'
    BY <1>1, <2>1 DEF KeepsCursors, NextIsOfEpoch, has_next, peek_next
  <2>3. \A f, g \in PendingOf("GenerateRequest")' : f.target_id = g.target_id => f = g
    BY <1>1 DEF TokenTypes, BarrierInv, TokensInEpoch
  <2>4. \A f \in PendingOf("RequestComplete")' :
          f.target_id \in Nodes /\ compute_nodes'[f.target_id].current_epoch = released_epoch
    BY <1>1 DEF TokenTypes, BarrierInv, TokensInEpoch, KeepsCursors
  <2>5. \A f \in PendingOf("GenerateRequest")' : f.request_id = kInvalidRequestId
    BY <1>1 DEF TokenTypes, BarrierInv, TokensInEpoch
  <2> QED BY <1>1, <2>1, <2>2, <2>3, <2>4, <2>5 DEF TokensInEpoch
<1>5. OneThingAtATime'
  <2>1. \A n : OpenAt(n)' = OpenAt(n)
    BY <1>2 DEF OpenAt, KeepsRequests
  <2> QED BY <1>1, <2>1 DEF BarrierInv, OneThingAtATime, bursty
<1> QED BY <1>3, <1>4, <1>5

\* A completion turns the request that was unfinished into a token of its node.
LEMMA BarrierComplete ==
  ASSUME BarrierInv, NEW e \in sched.events,
         e.type \in {"LocalCacheHitComplete", "ReturnResponse"}, CompleteEffect(e),
         NEW p, p.type = "RequestComplete", p.target_id = e.target_id, GoesOn(e, {p})
  PROVE  OpenInEpoch' /\ TokensInEpoch' /\ OneThingAtATime'
<1> DEFINE id == e.request_id
           n == e.target_id
           new == {p}
<1>1. /\ released_epoch' = released_epoch /\ config' = config
      /\ \A f \in PendingOf("GenerateRequest")' : f \in PendingOf("GenerateRequest")
      /\ \A f \in PendingOf("RequestComplete")' : f \in PendingOf("RequestComplete") \/ f = p
      /\ \A m : \A f \in Tokens(m)' : f \in Tokens(m) \/ (f = p /\ m = n)
  BY DEF GoesOn, PendingOf, Tokens, TokenTypes
<1>2. /\ Issued' = Issued /\ KeepsRequests /\ Reaches(id, "Completed") /\ n \in Nodes
      /\ compute_nodes' = [compute_nodes EXCEPT ![n].outstanding_requests = @ - 1]
  BY DEF CompleteEffect
<1>3. /\ compute_nodes \in NodeStates
      /\ \A i \in Unfinished : i \in Issued /\ SourceOf(i) \in Nodes
  BY Referents DEF Unfinished, BarrierInv, RequestPathInv
<1>4. KeepsCursors
  BY <1>2, <1>3 DEF KeepsCursors, NodeStates, ComputeNodeState
<1>5. id \in Unfinished /\ n = SourceOf(id) /\ id \in OpenAt(n)
  <2>1. e.type \in PathTypes /\ e.type \in ComputeEventTypes
    BY DEF PathTypes, ComputeEventTypes
  <2> QED BY <2>1, HeldByAlone DEF BarrierInv, OpenAt
<1>6. Unfinished' = Unfinished \ {id}
  BY <1>2, <1>5 DEF Unfinished, Reaches, Stage
<1>7. compute_nodes[n].current_epoch = released_epoch
  BY <1>5 DEF BarrierInv, OpenInEpoch
<1> HIDE DEF id, n
<1>8. OpenInEpoch'
  <2> SUFFICES ASSUME NEW i \in Unfinished
               PROVE  /\ EpochOf(i)' = released_epoch
                      /\ compute_nodes'[SourceOf(i)'].current_epoch = released_epoch
    BY <1>1, <1>6 DEF OpenInEpoch
  <2>1. EpochOf(i) = released_epoch /\ compute_nodes[SourceOf(i)].current_epoch = released_epoch
    BY DEF BarrierInv, OpenInEpoch
  <2> QED BY <1>2, <1>3, <1>4, <2>1 DEF KeepsRequests, KeepsCursors
<1>9. TokensInEpoch'
  <2>1. \A f \in PendingOf("GenerateRequest")' :
          f.target_id \in Nodes /\ NextIsOfEpoch(compute_nodes, f.target_id, released_epoch)
    BY <1>1 DEF BarrierInv, TokensInEpoch
  <2>2. \A f \in PendingOf("GenerateRequest")' :
          NextIsOfEpoch(compute_nodes, f.target_id, released_epoch)'
    BY <1>1, <1>4, <2>1 DEF KeepsCursors, NextIsOfEpoch, has_next, peek_next
  <2>3. \A f, g \in PendingOf("GenerateRequest")' : f.target_id = g.target_id => f = g
    BY <1>1 DEF BarrierInv, TokensInEpoch
  <2>4. \A f \in PendingOf("RequestComplete")' :
          f.target_id \in Nodes /\ compute_nodes'[f.target_id].current_epoch = released_epoch
    BY <1>1, <1>2, <1>4, <1>7 DEF BarrierInv, TokensInEpoch, KeepsCursors, n
  <2>5. \A f \in PendingOf("GenerateRequest")' : f.request_id = kInvalidRequestId
    BY <1>1 DEF BarrierInv, TokensInEpoch
  <2> QED BY <1>1, <2>1, <2>2, <2>3, <2>4, <2>5 DEF TokensInEpoch
<1>10. OneThingAtATime'
  <2>1. \A m : OpenAt(m)' = OpenAt(m) \ {id}
    BY <1>2, <1>3, <1>6 DEF OpenAt, KeepsRequests
  <2>2. ~bursty => Tokens(n) = {} /\ \A i \in OpenAt(n) : i = id
    BY <1>2, <1>5 DEF BarrierInv, OneThingAtATime
  <2>3. bursty' = bursty
    BY <1>1 DEF bursty
  <2> SUFFICES ASSUME ~bursty, NEW m \in Nodes
               PROVE  /\ \A f, g \in Tokens(m)' : f = g
                      /\ \A i, j \in OpenAt(m)' : i = j
                      /\ Tokens(m)' = {} \/ OpenAt(m)' = {}
    BY <2>3 DEF OneThingAtATime
  <2>4. CASE m = n
    BY <1>1, <2>1, <2>2, <2>4
  <2>5. CASE m # n
    BY <1>1, <2>1, <2>5 DEF BarrierInv, OneThingAtATime
  <2> QED BY <2>4, <2>5
<1> QED BY <1>8, <1>9, <1>10

\* A RequestComplete hands the token of its node on to a GenerateRequest.
LEMMA BarrierHandsOn ==
  ASSUME BarrierInv, NEW e \in sched.events, e.type = "RequestComplete",
         RequestCompleteEffect(e), NEW more \in BOOLEAN,
         more => /\ ~bursty
                 /\ NextIsOfEpoch(compute_nodes, e.target_id,
                                  compute_nodes[e.target_id].current_epoch),
         NEW g, g.type = "GenerateRequest", g.target_id = e.target_id,
         g.request_id = kInvalidRequestId,
         GoesOn(e, IF more THEN {g} ELSE {})
  PROVE  OpenInEpoch' /\ TokensInEpoch' /\ OneThingAtATime'
<1> DEFINE n == e.target_id
<1>1. /\ released_epoch' = released_epoch
      /\ UNCHANGED <<config, compute_nodes, request_table, next_request_id>>
      /\ Issued' = Issued /\ Unfinished' = Unfinished
  BY TableKept DEF GoesOn, RequestCompleteEffect
<1>2. /\ \A f : f \in PendingOf("GenerateRequest")' <=>
                  f \in PendingOf("GenerateRequest") \/ (f = g /\ more)
      /\ \A f \in PendingOf("RequestComplete")' : f \in PendingOf("RequestComplete")
      /\ \A m : \A f \in Tokens(m)' :
           (f \in Tokens(m) /\ f # e) \/ (f = g /\ more /\ m = n)
  BY DEF GoesOn, PendingOf, Tokens, TokenTypes
<1>3. e \in PendingOf("RequestComplete") /\ e \in Tokens(n)
  BY DEF PendingOf, Tokens, TokenTypes
<1>4. n \in Nodes /\ compute_nodes[n].current_epoch = released_epoch
  BY <1>3 DEF BarrierInv, TokensInEpoch
<1>5. more => ~bursty /\ NextIsOfEpoch(compute_nodes, n, released_epoch)
  BY <1>4
<1>6. ~bursty => OpenAt(n) = {} /\ \A f \in Tokens(n) : f = e
  BY <1>3, <1>4 DEF BarrierInv, OneThingAtATime
<1>7. OpenInEpoch'
  BY <1>1 DEF BarrierInv, OpenInEpoch, EpochOf, SourceOf
<1>8. TokensInEpoch'
  <2>1. \A f \in PendingOf("GenerateRequest")' :
          f.target_id \in Nodes /\ NextIsOfEpoch(compute_nodes, f.target_id, released_epoch)
    BY <1>2, <1>4, <1>5 DEF BarrierInv, TokensInEpoch
  <2>2. \A f \in PendingOf("GenerateRequest")' :
          NextIsOfEpoch(compute_nodes, f.target_id, released_epoch)'
    BY <1>1, <2>1 DEF NextIsOfEpoch, has_next, peek_next
  <2>3. more => \A f \in PendingOf("GenerateRequest") : f.target_id # n
    BY <1>3, <1>5, <1>6 DEF PendingOf, Tokens, TokenTypes
  <2>4. \A f, h \in PendingOf("GenerateRequest")' : f.target_id = h.target_id => f = h
    BY <1>2, <2>3 DEF BarrierInv, TokensInEpoch
  <2>5. \A f \in PendingOf("RequestComplete")' :
          f.target_id \in Nodes /\ compute_nodes'[f.target_id].current_epoch = released_epoch
    BY <1>1, <1>2 DEF BarrierInv, TokensInEpoch
  <2>6. \A f \in PendingOf("GenerateRequest")' : f.request_id = kInvalidRequestId
    BY <1>1, <1>2 DEF BarrierInv, TokensInEpoch
  <2> QED BY <1>1, <2>1, <2>2, <2>4, <2>5, <2>6 DEF TokensInEpoch
<1>9. OneThingAtATime'
  <2>1. \A m : OpenAt(m)' = OpenAt(m)
    BY <1>1 DEF OpenAt, SourceOf
  <2>2. bursty' = bursty
    BY <1>1 DEF bursty
  <2> SUFFICES ASSUME ~bursty, NEW m \in Nodes
               PROVE  /\ \A f, h \in Tokens(m)' : f = h
                      /\ \A i, j \in OpenAt(m)' : i = j
                      /\ Tokens(m)' = {} \/ OpenAt(m)' = {}
    BY <2>2 DEF OneThingAtATime
  <2>3. CASE m = n
    BY <1>2, <1>6, <2>1, <2>3
  <2>4. CASE m # n
    BY <1>2, <2>1, <2>4 DEF BarrierInv, OneThingAtATime
  <2> QED BY <2>3, <2>4
<1> QED BY <1>7, <1>8, <1>9

\* A GenerateRequest turns into the request it draws, which is of the released
\* epoch, and in a bursty epoch announces the next arrival.
LEMMA BarrierIssue ==
  ASSUME BarrierInv, NEW e \in sched.events, e.type = "GenerateRequest",
         NEW n, n = e.target_id, n \in Nodes,
         NEW spec, spec = peek_next(compute_nodes, n),
         compute_nodes' = [compute_nodes EXCEPT ![n] = Advance(@, spec, e.time)],
         KeepsRequests, KeepsStages,
         NEW id, id \notin Issued, Issued' = Issued \cup {id},
         Stage(id)' = "Generated", SourceOf(id)' = n, EpochOf(id)' = spec.epoch_id,
         NEW p, p.type = "LocalCacheLookup",
         NEW g, g.type = "GenerateRequest", g.target_id = n,
         g.request_id = kInvalidRequestId, NEW more \in BOOLEAN,
         more => /\ bursty
                 /\ NextIsOfEpoch(compute_nodes', n, compute_nodes'[n].current_epoch),
         GoesOn(e, {p} \cup (IF more THEN {g} ELSE {}))
  PROVE  OpenInEpoch' /\ TokensInEpoch' /\ OneThingAtATime'
<1>1. /\ released_epoch' = released_epoch /\ config' = config
      /\ \A f : f \in PendingOf("GenerateRequest")' <=>
                  (f \in PendingOf("GenerateRequest") /\ f # e) \/ (f = g /\ more)
      /\ \A f \in PendingOf("RequestComplete")' : f \in PendingOf("RequestComplete")
      /\ \A m : \A f \in Tokens(m)' :
           (f \in Tokens(m) /\ f # e) \/ (f = g /\ more /\ m = n)
  BY DEF GoesOn, PendingOf, Tokens, TokenTypes
<1>2. e \in PendingOf("GenerateRequest") /\ e \in Tokens(n)
  BY DEF PendingOf, Tokens, TokenTypes
<1>3. /\ spec.epoch_id = released_epoch
      /\ \A f \in PendingOf("GenerateRequest") : f.target_id = n => f = e
  BY <1>2 DEF BarrierInv, TokensInEpoch, NextIsOfEpoch
<1>4. /\ compute_nodes \in NodeStates
      /\ \A i \in Unfinished : i \in Issued /\ SourceOf(i) \in Nodes
  BY Referents DEF Unfinished, BarrierInv, RequestPathInv
<1>5. /\ compute_nodes'[n].current_epoch = released_epoch
      /\ \A m \in Nodes : m # n => compute_nodes'[m] = compute_nodes[m]
  BY <1>3, <1>4 DEF NodeStates, Advance
<1>6. Unfinished' = Unfinished \cup {id}
  BY DEF Unfinished, KeepsStages, Stage
<1>7. OpenInEpoch'
  <2>1. EpochOf(id)' = released_epoch
          /\ compute_nodes'[SourceOf(id)'].current_epoch = released_epoch
    BY <1>3, <1>5
  <2>2. ASSUME NEW i \in Unfinished
        PROVE  /\ EpochOf(i)' = released_epoch
               /\ compute_nodes'[SourceOf(i)'].current_epoch = released_epoch
    <3>1. EpochOf(i) = released_epoch /\ compute_nodes[SourceOf(i)].current_epoch = released_epoch
      BY DEF BarrierInv, OpenInEpoch
    <3> QED BY <1>4, <1>5, <3>1 DEF KeepsRequests
  <2> QED BY <1>1, <1>6, <2>1, <2>2 DEF OpenInEpoch
<1>8. TokensInEpoch'
  <2>1. ASSUME NEW f \in PendingOf("GenerateRequest")'
        PROVE  f.target_id \in Nodes /\ NextIsOfEpoch(compute_nodes, f.target_id, released_epoch)'
    <3>1. CASE f \in PendingOf("GenerateRequest") /\ f # e
      <4>1. /\ f.target_id \in Nodes /\ f.target_id # n
            /\ NextIsOfEpoch(compute_nodes, f.target_id, released_epoch)
        BY <1>3, <3>1 DEF BarrierInv, TokensInEpoch
      <4> QED BY <1>1, <1>5, <4>1 DEF NextIsOfEpoch, has_next, peek_next
    <3>2. CASE f = g /\ more
      BY <1>1, <1>5, <3>2 DEF NextIsOfEpoch, has_next, peek_next
    <3> QED BY <1>1, <3>1, <3>2
  <2>2. \A f, h \in PendingOf("GenerateRequest")' : f.target_id = h.target_id => f = h
    BY <1>1, <1>3 DEF BarrierInv, TokensInEpoch
  <2>3. \A f \in PendingOf("RequestComplete")' :
          f.target_id \in Nodes /\ compute_nodes'[f.target_id].current_epoch = released_epoch
    BY <1>1, <1>5 DEF BarrierInv, TokensInEpoch
  <2>4. \A f \in PendingOf("GenerateRequest")' : f.request_id = kInvalidRequestId
    BY <1>1 DEF BarrierInv, TokensInEpoch
  <2> QED BY <1>1, <2>1, <2>2, <2>3, <2>4 DEF TokensInEpoch
<1>9. OneThingAtATime'
  <2>1. \A m : OpenAt(m)' = OpenAt(m) \cup {i \in {id} : m = n}
    BY <1>4, <1>6 DEF OpenAt, KeepsRequests
  <2>2. ~bursty => OpenAt(n) = {} /\ ~more /\ \A f \in Tokens(n) : f = e
    BY <1>2 DEF BarrierInv, OneThingAtATime
  <2>3. bursty' = bursty
    BY <1>1 DEF bursty
  <2> SUFFICES ASSUME ~bursty, NEW m \in Nodes
               PROVE  /\ \A f, h \in Tokens(m)' : f = h
                      /\ \A i, j \in OpenAt(m)' : i = j
                      /\ Tokens(m)' = {} \/ OpenAt(m)' = {}
    BY <2>3 DEF OneThingAtATime
  <2>4. CASE m = n
    BY <1>1, <2>1, <2>2, <2>4
  <2>5. CASE m # n
    BY <1>1, <2>1, <2>2, <2>5 DEF BarrierInv, OneThingAtATime
  <2> QED BY <2>4, <2>5
<1> QED BY <1>7, <1>8, <1>9

-----------------------------------------------------------------------------
(* The barrier through every step *)

\* A handler that draws no request and passes on no token.
QuietEffect(e) ==
  /\ KeepsRequests /\ Unfinished' = Unfinished /\ UNCHANGED compute_nodes
  /\ \E new : Leaves(e, new) /\ \A p \in new : p.type \notin TokenTypes

\* The lookup and the three handlers of the memory node are such.
LEMMA QuietHandlers ==
  ASSUME BarrierInv, NEW e \in sched.events,
         \/ e.type = "LocalCacheLookup" /\ LookupEffect(e)
         \/ e.type = "ForwardToMemory" /\ ForwardEffect(e)
         \/ e.type = "MemoryServiceStart" /\ ServiceStartEffect(e)
         \/ e.type = "MemoryServiceComplete" /\ ServiceCompleteEffect(e)
  PROVE  QuietEffect(e)
<1> DEFINE id == e.request_id
<1>1. RequestPathInv
  BY DEF BarrierInv
<1>2. CASE e.type = "LocalCacheLookup" /\ LookupEffect(e)
  <2>1. PICK stage \in RequestStage, p \in Event, accepted \in BOOLEAN :
          /\ stage # "Completed" /\ p.type \notin TokenTypes
          /\ Reaches(id, stage)
          /\ Leaves(e, IF accepted THEN {p} ELSE {})
    BY <1>2 DEF LookupEffect, TokenTypes
  <2>2. id \in Unfinished
    <3>1. e.type \in PathTypes
      BY <1>2 DEF PathTypes
    <3> QED BY <1>1, <3>1, HeldByAlone
  <2>3. Issued' = Issued /\ KeepsRequests /\ UNCHANGED compute_nodes
    BY <1>2 DEF LookupEffect
  <2>4. Unfinished' = Unfinished
    BY <2>1, <2>2, <2>3, UnfinishedKept
  <2> DEFINE new == IF accepted THEN {p} ELSE {}
  <2>5. Leaves(e, new) /\ \A q \in new : q.type \notin TokenTypes
    BY <2>1
  <2> HIDE DEF new
  <2> QED BY <2>3, <2>4, <2>5 DEF QuietEffect
<1>3. CASE e.type = "ForwardToMemory" /\ ForwardEffect(e)
  <2>1. KeepsRequests /\ Unfinished' = Unfinished /\ UNCHANGED compute_nodes
    BY <1>3 DEF ForwardEffect
  <2>2. PICK c, free : c = ChannelOf(id) /\ free = ChannelFree(channels[c])
    OBVIOUS
  <2>3. \E p : p.type = "MemoryServiceStart" /\ Leaves(e, IF free THEN {p} ELSE {})
    BY <1>3, <2>2 DEF ForwardEffect
  <2>4. PICK p : p.type = "MemoryServiceStart" /\ Leaves(e, IF free THEN {p} ELSE {})
    BY <2>3
  <2> DEFINE new == IF free THEN {p} ELSE {}
  <2>5. Leaves(e, new) /\ \A q \in new : q.type \notin TokenTypes
    BY <2>4 DEF TokenTypes
  <2> HIDE DEF new
  <2> QED BY <2>1, <2>5 DEF QuietEffect
<1>4. CASE e.type = "MemoryServiceStart" /\ ServiceStartEffect(e)
  <2>1. /\ Issued' = Issued /\ KeepsRequests /\ UNCHANGED compute_nodes
        /\ Reaches(id, "WaitingForResponse")
    BY <1>4 DEF ServiceStartEffect
  <2>2. PICK p \in Event, accepted \in BOOLEAN :
          /\ p.type = "MemoryServiceComplete"
          /\ Leaves(e, IF accepted THEN {p} ELSE {})
    BY <1>4 DEF ServiceStartEffect
  <2>3. id \in Unfinished
    BY <1>1, <1>4, StartFindsHead
  <2>4. Unfinished' = Unfinished
    <3>1. "WaitingForResponse" # "Completed"
      OBVIOUS
    <3> QED BY <2>1, <2>3, <3>1, UnfinishedKept
  <2> DEFINE new == IF accepted THEN {p} ELSE {}
  <2>5. Leaves(e, new) /\ \A q \in new : q.type \notin TokenTypes
    BY <2>2 DEF TokenTypes
  <2> HIDE DEF new
  <2> QED BY <2>1, <2>4, <2>5 DEF QuietEffect
<1>5. CASE e.type = "MemoryServiceComplete" /\ ServiceCompleteEffect(e)
  <2>1. KeepsRequests /\ Unfinished' = Unfinished /\ UNCHANGED compute_nodes
    BY <1>5 DEF ServiceCompleteEffect
  <2>2. PICK c, waiting : c = ChannelOf(id) /\ waiting = (QueueOf(c) # <<>>)
    OBVIOUS
  <2>3. PICK p \in Event, q \in Event, accepted \in BOOLEAN :
          /\ p.type = "ReturnResponse" /\ q.type = "MemoryServiceStart"
          /\ Leaves(e, (IF accepted THEN {p} ELSE {}) \cup (IF waiting THEN {q} ELSE {}))
    BY <1>5, <2>2 DEF ServiceCompleteEffect
  <2> DEFINE new == (IF accepted THEN {p} ELSE {}) \cup (IF waiting THEN {q} ELSE {})
  <2>4. Leaves(e, new) /\ \A f \in new : f.type \notin TokenTypes
    BY <2>3 DEF TokenTypes
  <2> HIDE DEF new
  <2> QED BY <2>1, <2>4 DEF QuietEffect
<1> QED BY <1>2, <1>3, <1>4, <1>5

\* So is a GenerateRequest that finds nothing to issue.
LEMMA QuietGenerate ==
  ASSUME NEW e \in sched.events, NothingToIssueEffect(e)
  PROVE  QuietEffect(e)
<1>1. UNCHANGED <<config, compute_nodes, request_table, next_request_id>> /\ Leaves(e, {})
  BY DEF NothingToIssueEffect
<1>2. Unfinished' = Unfinished /\ KeepsRequests
  BY <1>1, TableKept
<1>3. \A p \in {} : p.type \notin TokenTypes
  OBVIOUS
<1> QED BY <1>1, <1>2, <1>3 DEF QuietEffect

\* A step of the run loop keeps the barrier.
LEMMA BarrierStep ==
  ASSUME BarrierInv, RequestPathInv', NEW e \in sched.events, HandlerEffect(e)
  PROVE  OpenInEpoch' /\ TokensInEpoch' /\ OneThingAtATime' /\ status' = status
<1>1. RequestPathInv /\ SimulatorInv'
  BY DEF BarrierInv, RequestPathInv
<1>2. status' = status
  BY DEF HandlerEffect, NothingToIssueEffect, IssueEffect, LookupEffect, CompleteEffect,
     RequestCompleteEffect, ForwardEffect, ServiceStartEffect, ServiceCompleteEffect
<1>3. ASSUME NEW new, Leaves(e, new),
             GoesOn(e, new) => OpenInEpoch' /\ TokensInEpoch' /\ OneThingAtATime'
      PROVE  OpenInEpoch' /\ TokensInEpoch' /\ OneThingAtATime'
  BY <1>1, <1>3, HandlerEnds, ReleasedInEpoch
<1>4. CASE QuietEffect(e)
  <2>1. PICK new : Leaves(e, new) /\ \A p \in new : p.type \notin TokenTypes
    BY <1>4 DEF QuietEffect
  <2>2. KeepsRequests /\ Unfinished' = Unfinished /\ KeepsCursors
    BY <1>4 DEF QuietEffect, KeepsCursors
  <2>3. ASSUME GoesOn(e, new)
        PROVE  OpenInEpoch' /\ TokensInEpoch' /\ OneThingAtATime'
    BY <2>1, <2>2, <2>3, BarrierKept
  <2> QED BY <1>2, <1>3, <2>1, <2>3
<1>5. CASE e.type \in {"LocalCacheHitComplete", "ReturnResponse"} /\ CompleteEffect(e)
  <2>1. PICK p : p.type = "RequestComplete" /\ p.target_id = e.target_id /\ Leaves(e, {p})
    BY <1>5 DEF CompleteEffect
  <2>2. ASSUME GoesOn(e, {p})
        PROVE  OpenInEpoch' /\ TokensInEpoch' /\ OneThingAtATime'
    BY <1>5, <2>1, <2>2, BarrierComplete
  <2> QED BY <1>2, <1>3, <2>1, <2>2
<1>6. CASE e.type = "RequestComplete" /\ RequestCompleteEffect(e)
  <2>1. PICK more \in BOOLEAN :
          more = (~bursty /\ NextIsOfEpoch(compute_nodes, e.target_id,
                                           compute_nodes[e.target_id].current_epoch))
    BY DEF NextIsOfEpoch
  <2>2. PICK g : /\ g.type = "GenerateRequest" /\ g.target_id = e.target_id
                 /\ g.request_id = kInvalidRequestId
                 /\ Leaves(e, IF more THEN {g} ELSE {})
    BY <1>6, <2>1 DEF RequestCompleteEffect
  <2>3. ASSUME GoesOn(e, IF more THEN {g} ELSE {})
        PROVE  OpenInEpoch' /\ TokensInEpoch' /\ OneThingAtATime'
    BY <1>6, <2>1, <2>2, <2>3, BarrierHandsOn
  <2> DEFINE new == IF more THEN {g} ELSE {}
  <2>4. /\ Leaves(e, new)
        /\ GoesOn(e, new) => OpenInEpoch' /\ TokensInEpoch' /\ OneThingAtATime'
    BY <2>2, <2>3
  <2> HIDE DEF new
  <2> QED BY <1>2, <1>3, <2>4
<1>7. CASE e.type = "GenerateRequest" /\ IssueEffect(e)
  <2>1. PICK n, spec : n \in Nodes /\ n = e.target_id /\ spec = peek_next(compute_nodes, n)
    BY <1>7 DEF IssueEffect
  <2>2. /\ compute_nodes' = [compute_nodes EXCEPT ![n] = Advance(@, spec, e.time)]
        /\ KeepsRequests /\ KeepsStages
    BY <1>7, <2>1 DEF IssueEffect
  <2>3. PICK id \in Nat, p \in Event, g \in Event, more \in BOOLEAN :
          /\ id \notin Issued /\ Issued' = Issued \cup {id}
          /\ Stage(id)' = "Generated" /\ SourceOf(id)' = n /\ EpochOf(id)' = spec.epoch_id
          /\ p.type = "LocalCacheLookup"
          /\ g.type = "GenerateRequest" /\ g.target_id = n
          /\ g.request_id = kInvalidRequestId
          /\ more => /\ bursty
                     /\ NextIsOfEpoch(compute_nodes', n, compute_nodes'[n].current_epoch)
          /\ Leaves(e, {p} \cup (IF more THEN {g} ELSE {}))
    <3>1. PICK ready \in BOOLEAN :
            ready = (bursty /\ NextIsOfEpoch(compute_nodes', n, compute_nodes'[n].current_epoch))
      BY Zenon DEF NextIsOfEpoch
    <3>2. PICK id \in Nat \ {0}, p, g \in Event, accepted \in BOOLEAN :
            /\ id \notin Issued /\ Issued' = Issued \cup {id}
            /\ Stage(id)' = "Generated" /\ SourceOf(id)' = n /\ EpochOf(id)' = spec.epoch_id
            /\ p.type = "LocalCacheLookup"
            /\ g.type = "GenerateRequest" /\ g.target_id = n
            /\ g.request_id = kInvalidRequestId
            /\ TimesFit /\ ArrivalsInOrder /\ ready => accepted
            /\ Leaves(e, {p} \cup (IF ready /\ accepted THEN {g} ELSE {}))
      BY <1>7, <2>1, <3>1, ZenonT(30) DEF IssueEffect
    <3>3. PICK both \in BOOLEAN : both = (ready /\ accepted)
      BY Zenon
    <3>4. Leaves(e, {p} \cup (IF both THEN {g} ELSE {}))
      BY <3>2, <3>3
    <3> QED BY <3>1, <3>2, <3>3, <3>4
  <2> DEFINE new == {p} \cup (IF more THEN {g} ELSE {})
  <2>4. ASSUME GoesOn(e, new)
        PROVE  OpenInEpoch' /\ TokensInEpoch' /\ OneThingAtATime'
    BY <1>7, <2>1, <2>2, <2>3, <2>4, BarrierIssue
  <2>5. Leaves(e, new)
    BY <2>3
  <2> HIDE DEF new
  <2> QED BY <1>2, <1>3, <2>4, <2>5
<1> QED BY <1>4, <1>5, <1>6, <1>7, QuietHandlers, QuietGenerate DEF HandlerEffect

-----------------------------------------------------------------------------
(* The telemetry *)

\* From st to t no row of another epoch than this one appears, changes or goes.
RowsKept(st, t, epoch) ==
  \A k : k[1] # epoch =>
    /\ k \in DOMAIN t.contention_by_epoch <=> k \in DOMAIN st.contention_by_epoch
    /\ k \in DOMAIN st.contention_by_epoch =>
         t.contention_by_epoch[k] = st.contention_by_epoch[k]

\* The two rows of a request are of its epoch.
LEMMA BucketsOfEpoch ==
  ASSUME NEW st, HasStatsShape(st), NEW r, NEW channel, NEW object_row, NEW channel_row
  PROVE  LET t == UpdateBuckets(st, r, channel, object_row, channel_row)
         IN HasStatsShape(t) /\ RowsKept(st, t, r.epoch_id)
<1> DEFINE t == UpdateBuckets(st, r, channel, object_row, channel_row)
           key == <<r.epoch_id, r.object_id>>
           rows == Assign(st.contention_by_epoch, key, object_row)
           channel_rows == Assign(st.channel_contention_by_epoch, <<r.epoch_id, channel>>,
                                  channel_row)
<1>1. PICK latencies, hits, misses, waits, depth, objects, by_channel :
        st = [latencies |-> latencies, local_cache_hits |-> hits,
              local_cache_misses |-> misses, memory_waits |-> waits,
              peak_memory_queue_depth |-> depth, contention_by_epoch |-> objects,
              channel_contention_by_epoch |-> by_channel]
  BY DEF HasStatsShape
<1>2. \A k : k[1] # r.epoch_id =>
        /\ k \in DOMAIN rows <=> k \in DOMAIN st.contention_by_epoch
        /\ k \in DOMAIN st.contention_by_epoch => rows[k] = st.contention_by_epoch[k]
  BY DEF Assign
<1>3. t = [st EXCEPT !.contention_by_epoch = rows, !.channel_contention_by_epoch = channel_rows]
  BY DEF UpdateBuckets
<1> HIDE DEF t, rows, channel_rows
<1>4. t = [latencies |-> latencies, local_cache_hits |-> hits,
           local_cache_misses |-> misses, memory_waits |-> waits,
           peak_memory_queue_depth |-> depth, contention_by_epoch |-> rows,
           channel_contention_by_epoch |-> channel_rows]
  BY <1>1, <1>3
<1>5. HasStatsShape(t)
  BY <1>4 DEF HasStatsShape
<1>6. t.contention_by_epoch = rows
  BY <1>4
<1> QED BY <1>2, <1>5, <1>6 DEF RowsKept, t

\* A counter that is not a row leaves the rows alone.
LEMMA CountersKeepRows ==
  ASSUME NEW st, HasStatsShape(st), NEW v,
         NEW t \in {[st EXCEPT !.latencies = v], [st EXCEPT !.local_cache_hits = v],
                    [st EXCEPT !.local_cache_misses = v], [st EXCEPT !.memory_waits = v],
                    [st EXCEPT !.peak_memory_queue_depth = v]}
  PROVE  HasStatsShape(t) /\ t.contention_by_epoch = st.contention_by_epoch
<1>1. PICK latencies, hits, misses, waits, depth, objects, by_channel :
        st = [latencies |-> latencies, local_cache_hits |-> hits,
              local_cache_misses |-> misses, memory_waits |-> waits,
              peak_memory_queue_depth |-> depth, contention_by_epoch |-> objects,
              channel_contention_by_epoch |-> by_channel]
  BY DEF HasStatsShape
<1>2. CASE t = [st EXCEPT !.latencies = v]
  <2>1. t = [latencies |-> v, local_cache_hits |-> hits,
             local_cache_misses |-> misses, memory_waits |-> waits,
             peak_memory_queue_depth |-> depth, contention_by_epoch |-> objects,
             channel_contention_by_epoch |-> by_channel]
    BY <1>1, <1>2
  <2> QED BY <1>1, <2>1 DEF HasStatsShape
<1>3. CASE t = [st EXCEPT !.local_cache_hits = v]
  <2>1. t = [latencies |-> latencies, local_cache_hits |-> v,
             local_cache_misses |-> misses, memory_waits |-> waits,
             peak_memory_queue_depth |-> depth, contention_by_epoch |-> objects,
             channel_contention_by_epoch |-> by_channel]
    BY <1>1, <1>3
  <2> QED BY <1>1, <2>1 DEF HasStatsShape
<1>4. CASE t = [st EXCEPT !.local_cache_misses = v]
  <2>1. t = [latencies |-> latencies, local_cache_hits |-> hits,
             local_cache_misses |-> v, memory_waits |-> waits,
             peak_memory_queue_depth |-> depth, contention_by_epoch |-> objects,
             channel_contention_by_epoch |-> by_channel]
    BY <1>1, <1>4
  <2> QED BY <1>1, <2>1 DEF HasStatsShape
<1>5. CASE t = [st EXCEPT !.memory_waits = v]
  <2>1. t = [latencies |-> latencies, local_cache_hits |-> hits,
             local_cache_misses |-> misses, memory_waits |-> v,
             peak_memory_queue_depth |-> depth, contention_by_epoch |-> objects,
             channel_contention_by_epoch |-> by_channel]
    BY <1>1, <1>5
  <2> QED BY <1>1, <2>1 DEF HasStatsShape
<1>6. CASE t = [st EXCEPT !.peak_memory_queue_depth = v]
  <2>1. t = [latencies |-> latencies, local_cache_hits |-> hits,
             local_cache_misses |-> misses, memory_waits |-> waits,
             peak_memory_queue_depth |-> v, contention_by_epoch |-> objects,
             channel_contention_by_epoch |-> by_channel]
    BY <1>1, <1>6
  <2> QED BY <1>1, <2>1 DEF HasStatsShape
<1> QED BY <1>2, <1>3, <1>4, <1>5, <1>6

\* Only the memory node books on rows, and on those of the epoch of the request
\* it handles (record_remote_access, record_object_queue_wait,
\* record_object_service).
LEMMA HandlerBooks ==
  ASSUME HasStatsShape(stats), NEW e \in sched.events, MemoryStep(e) \/ ComputeStep(e)
  PROVE  /\ HasStatsShape(stats')
         /\ \/ stats'.contention_by_epoch = stats.contention_by_epoch
            \/ /\ RowsKept(stats, stats', EpochOf(e.request_id))
               /\ e.type \in {"ForwardToMemory", "MemoryServiceStart", "MemoryServiceComplete"}
<1> DEFINE r == request_table[e.request_id]
           c == channel_for(r)
           queue == channels[c].queued_requests
<1>1. CASE UNCHANGED stats
  BY <1>1
<1>2. CASE \E n, latency : stats' = record_latency(stats, n, latency)
  <2>1. PICK v : stats' = [stats EXCEPT !.latencies = v]
    BY <1>2 DEF record_latency
  <2> QED BY <2>1, CountersKeepRows
<1>3. CASE \E n : stats' = record_cache_hit(stats, n)
  <2>1. PICK v : stats' = [stats EXCEPT !.local_cache_hits = v]
    BY <1>3 DEF record_cache_hit
  <2> QED BY <2>1, CountersKeepRows
<1>4. CASE \E n : stats' = record_cache_miss(stats, n)
  <2>1. PICK v : stats' = [stats EXCEPT !.local_cache_misses = v]
    BY <1>4 DEF record_cache_miss
  <2> QED BY <2>1, CountersKeepRows
<1>5. CASE handle_forward_to_memory(e)
  <2>1. PICK st, depth :
          /\ st = [stats EXCEPT !.peak_memory_queue_depth = AtLeast(@, depth)]
          /\ stats' = record_remote_access(st, r, c, depth)
    BY <1>5 DEF handle_forward_to_memory, observe_memory_queue_depth
  <2>2. HasStatsShape(st) /\ st.contention_by_epoch = stats.contention_by_epoch
    BY <2>1, CountersKeepRows
  <2>3. PICK object_row, channel_row :
          stats' = UpdateBuckets(st, r, c, object_row, channel_row)
    BY <2>1 DEF record_remote_access
  <2>4. HasStatsShape(stats') /\ RowsKept(st, stats', r.epoch_id)
    BY <2>2, <2>3, BucketsOfEpoch
  <2>5. e.type = "ForwardToMemory"
    BY <1>5 DEF handle_forward_to_memory, Dispatch
  <2> QED BY <2>2, <2>4, <2>5 DEF RowsKept, EpochOf
<1>6. CASE handle_memory_service_start(e)
  <2>1. PICK st, wait :
          /\ st = [stats EXCEPT !.memory_waits = Append(@, wait)]
          /\ stats' = stats \/ stats' = record_object_queue_wait(st, r, c, wait)
    BY <1>6 DEF handle_memory_service_start, record_memory_wait
  <2>2. HasStatsShape(st) /\ st.contention_by_epoch = stats.contention_by_epoch
    BY <2>1, CountersKeepRows
  <2>3. CASE stats' = record_object_queue_wait(st, r, c, wait)
    <3>1. PICK object_row, channel_row :
            stats' = UpdateBuckets(st, r, c, object_row, channel_row)
      BY <2>3 DEF record_object_queue_wait
    <3>2. HasStatsShape(stats') /\ RowsKept(st, stats', r.epoch_id)
      BY <2>2, <3>1, BucketsOfEpoch
    <3>3. e.type = "MemoryServiceStart"
      BY <1>6 DEF handle_memory_service_start, Dispatch
    <3> QED BY <2>2, <3>2, <3>3 DEF RowsKept, EpochOf
  <2> QED BY <1>1, <2>1, <2>3
<1>7. CASE handle_memory_service_complete(e)
  <2>1. stats' = stats \/ stats' = record_object_service(stats, r, c, service_time_for(r))
    BY <1>7 DEF handle_memory_service_complete
  <2>2. CASE stats' = record_object_service(stats, r, c, service_time_for(r))
    <3>1. PICK object_row, channel_row :
            stats' = UpdateBuckets(stats, r, c, object_row, channel_row)
      BY <2>2 DEF record_object_service
    <3>2. HasStatsShape(stats') /\ RowsKept(stats, stats', r.epoch_id)
      BY <3>1, BucketsOfEpoch
    <3>3. e.type = "MemoryServiceComplete"
      BY <1>7 DEF handle_memory_service_complete, Dispatch
    <3> QED BY <3>2, <3>3 DEF EpochOf
  <2> QED BY <1>1, <2>1, <2>2
<1>8. CASE ComputeStep(e)
  <2>1. \/ UNCHANGED stats
        \/ \E n, latency : stats' = record_latency(stats, n, latency)
        \/ \E n : stats' = record_cache_hit(stats, n)
        \/ \E n : stats' = record_cache_miss(stats, n)
    BY <1>8 DEF ComputeStep, handle_generate_request, handle_local_cache_lookup,
       handle_local_cache_hit_complete, handle_return_response, handle_request_complete, Complete
  <2> QED BY <1>1, <1>2, <1>3, <1>4, <2>1
<1> QED BY <1>5, <1>6, <1>7, <1>8 DEF MemoryStep

-----------------------------------------------------------------------------
(* The invariant, and what it says *)

\* The constructor leaves a simulator without requests and without events.
LEMMA BarrierInit == Init => BarrierInv
<1> SUFFICES ASSUME Init PROVE BarrierInv
  OBVIOUS
<1>1. /\ sched = EmptyScheduler /\ sched.events = {}
           /\ Issued = {} /\ released_epoch = NoEpoch /\ stats = NewStats
      /\ compute_nodes = [n \in Nodes |-> NewComputeNode]
  BY DEF Init, EmptyScheduler, Issued
<1>2. Unfinished = {} /\ \A type : PendingOf(type) = {} /\ \A n : Tokens(n) = {}
  BY <1>1 DEF Unfinished, PendingOf, Tokens
<1>3. OpenInEpoch /\ TokensInEpoch /\ OneThingAtATime
  BY <1>2 DEF OpenInEpoch, TokensInEpoch, OneThingAtATime, OpenAt
<1>4. HasStatsShape(stats)
  BY <1>1 DEF NewStats, HasStatsShape
<1> QED BY <1>1, <1>3, <1>4, PathInit DEF BarrierInv, NothingBeforeRun

\* run() starts from nothing, with a release or with an empty workload.
LEMMA BarrierRun ==
  ASSUME BarrierInv, RequestPathInv', Run
  PROVE  /\ OpenInEpoch' /\ TokensInEpoch' /\ OneThingAtATime'
         /\ Unfinished = {} /\ sched.events = {}
         /\ \/ /\ sched' = sched /\ released_epoch' = released_epoch
               /\ UnreleasedEpochs(compute_nodes') = {}
            \/ Releases /\ EachNextIsAnnounced
<1>1. /\ UNCHANGED <<config, compute_nodes, request_table, next_request_id>>
      /\ status = "constructed" /\ ReleaseNextEpochIfReady(sched)
  BY DEF Run
<1>2. Unfinished = {} /\ sched.events = {} /\ sched.current_time = 0
  BY <1>1 DEF BarrierInv, NothingBeforeRun, Unfinished, EmptyScheduler
<1>3. /\ AcceptedConfig(config) /\ compute_nodes' \in NodeStates
      /\ QueueOK(sched, Issued)
  BY Referents, <1>1
     DEF BarrierInv, RequestPathInv, SimulatorInv, TypeOK, EventQueueIsSound
<1>4. CASE /\ sched' = sched /\ released_epoch' = released_epoch
           /\ ReadyToRelease(sched, compute_nodes') => UnreleasedEpochs(compute_nodes') = {}
  <2>1. Unfinished' = {} /\ sched'.events = {}
    BY <1>1, <1>2, <1>4, TableKept
  <2>2. (\A type : PendingOf(type)' = {}) /\ \A n : Tokens(n)' = {} /\ OpenAt(n)' = {}
    BY <2>1 DEF PendingOf, Tokens, OpenAt
  <2>3. OpenInEpoch' /\ TokensInEpoch' /\ OneThingAtATime'
    BY <2>1, <2>2 DEF OpenInEpoch, TokensInEpoch, OneThingAtATime
  <2>4. ReadyToRelease(sched, compute_nodes')
    BY <1>1, <1>2 DEF ReadyToRelease, all_compute_nodes_idle, BarrierInv, NothingBeforeRun,
       NewComputeNode
  <2> QED BY <1>2, <1>4, <2>3, <2>4
<1>5. CASE /\ ReadyToRelease(sched, compute_nodes')
           /\ released_epoch' \in UnreleasedEpochs(compute_nodes')
           /\ \A g \in UnreleasedEpochs(compute_nodes') : released_epoch' <= g
           /\ \A f \in sched'.events :
                /\ f.type = "GenerateRequest" /\ f.request_id = kInvalidRequestId
                /\ f.target_id \in Nodes
                /\ NextIsOfEpoch(compute_nodes', f.target_id, released_epoch')
           /\ \A f, g \in sched'.events : f.target_id = g.target_id => f = g
           /\ \A n \in Nodes :
                /\ NextIsOfEpoch(compute_nodes', n, released_epoch')
                /\ sched.current_time + peek_next(compute_nodes', n).scheduled_issue_offset
                     < SimTimeRange
                => \E f \in sched'.events : f.target_id = n
  <2>1. EachNextIsAnnounced
    <3> SUFFICES ASSUME NEW n \in Nodes, NextIsOfEpoch(compute_nodes', n, released_epoch')
                 PROVE  \E f \in sched'.events : f.target_id = n
      BY DEF EachNextIsAnnounced
    <3> DEFINE offset == peek_next(compute_nodes', n).scheduled_issue_offset
    <3>1. offset \in SimTime
      BY <1>3, PeekType DEF NextIsOfEpoch, RequestSpec
    <3> HIDE DEF offset
    <3>2. sched.current_time + offset < SimTimeRange
      BY <1>2, <3>1, RangeAssumption DEF SimTime
    <3> QED BY <1>5, <3>2 DEF offset
  <2>2. Releases
    BY <1>1, <1>5, <2>1 DEF Releases, ReadyToRelease
  <2> QED BY <1>2, <2>1, <2>2, ReleasedInEpoch
<1> QED BY <1>1, <1>3, <1>4, <1>5, ReleaseCases

\* Every step keeps the invariant.
LEMMA BarrierNext == BarrierInv /\ [Next]_vars => BarrierInv'
<1> SUFFICES ASSUME BarrierInv, [Next]_vars PROVE BarrierInv'
  OBVIOUS
<1>1. RequestPathInv'
  BY PathNext DEF BarrierInv
<1>2. CASE Run
  <2>1. stats' = stats /\ status' = "running"
    BY <1>2 DEF Run
  <2> QED BY <1>1, <1>2, <2>1, BarrierRun DEF BarrierInv, NothingBeforeRun
<1>3. ASSUME NEW e \in sched.events, MemoryStep(e) \/ ComputeStep(e)
      PROVE  BarrierInv'
  <2>1. status = "running" /\ HandlerEffect(e)
    BY <1>3, StepHasEffect DEF BarrierInv
  <2>2. HasStatsShape(stats')
    BY <1>3, HandlerBooks DEF BarrierInv
  <2> QED BY <1>1, <2>1, <2>2, BarrierStep DEF BarrierInv, NothingBeforeRun
<1>4. CASE UNCHANGED vars
  <2>1. UNCHANGED <<config, status, sched, compute_nodes, released_epoch, stats,
                    request_table, next_request_id>>
    BY <1>4 DEF vars
  <2>2. Issued' = Issued /\ Unfinished' = Unfinished
    BY <2>1, TableKept
  <2>3. OpenInEpoch'
    BY <2>1, <2>2 DEF BarrierInv, OpenInEpoch, EpochOf, SourceOf
  <2>4. TokensInEpoch'
    BY <2>1 DEF BarrierInv, TokensInEpoch, PendingOf, NextIsOfEpoch, has_next, peek_next
  <2>5. OneThingAtATime'
    BY <2>1, <2>2 DEF BarrierInv, OneThingAtATime, Tokens, OpenAt, SourceOf, bursty
  <2> QED BY <1>1, <2>1, <2>2, <2>3, <2>4, <2>5 DEF BarrierInv, NothingBeforeRun
<1> QED BY <1>2, <1>3, <1>4 DEF Next, Finished

\* The invariant of the barrier holds in every reachable state.
LEMMA BarrierInvariance == Spec => []BarrierInv
BY BarrierInit, BarrierNext, PTL DEF Spec

\* The barrier holds: whatever is pending or unfinished is of the released
\* epoch, and its node is in that epoch.  No two epochs ever overlap, even if
\* events are refused at the end of the SimTime range.
THEOREM EpochsNeverOverlap == Spec => [](OpenInEpoch /\ TokensInEpoch)
BY BarrierInvariance, PTL DEF BarrierInv

\* A row of an epoch before the released one neither appears nor changes.
LEMMA EarlierRowsStand ==
  ASSUME BarrierInv, NEW e \in sched.events, MemoryStep(e) \/ ComputeStep(e)
  PROVE  \A k : k[1] < released_epoch =>
           /\ k \in DOMAIN stats'.contention_by_epoch
                <=> k \in DOMAIN stats.contention_by_epoch
           /\ k \in DOMAIN stats.contention_by_epoch =>
                stats'.contention_by_epoch[k] = stats.contention_by_epoch[k]
<1>1. CASE /\ RowsKept(stats, stats', EpochOf(e.request_id))
           /\ e.type \in {"ForwardToMemory", "MemoryServiceStart", "MemoryServiceComplete"}
  <2>1. e.request_id \in Unfinished
    BY <1>1, StartFindsHead, HeldByAlone DEF BarrierInv, PathTypes
  <2>2. EpochOf(e.request_id) = released_epoch
    BY <2>1 DEF BarrierInv, OpenInEpoch
  <2>3. released_epoch \in Int
    BY DEF BarrierInv, RequestPathInv, SimulatorInv, TypeOK, NoEpoch
  <2>4. \A k : k[1] < released_epoch => k[1] # released_epoch
    BY <2>3
  <2> QED BY <1>1, <2>2, <2>4 DEF RowsKept
<1>2. CASE stats'.contention_by_epoch = stats.contention_by_epoch
  BY <1>2
<1> QED BY <1>1, <1>2, HandlerBooks DEF BarrierInv

\* The prior telemetry is final: a handler books on the epoch of its request,
\* which is unfinished and so of the released epoch.
THEOREM TelemetryIsFrozen == Spec => PriorTelemetryIsFrozen
<1> DEFINE Frozen ==
      \A k \in DOMAIN stats.contention_by_epoch :
        k[1] < released_epoch =>
          stats.contention_by_epoch'[k] = stats.contention_by_epoch[k]
<1>1. BarrierInv /\ [Next]_vars => [Frozen]_vars
  <2> SUFFICES ASSUME BarrierInv, Next PROVE Frozen
    OBVIOUS
  <2>1. CASE UNCHANGED stats
    BY <2>1
  <2>2. ASSUME NEW e \in sched.events, MemoryStep(e) \/ ComputeStep(e)
        PROVE  Frozen
    BY <2>2, EarlierRowsStand
  <2> QED BY <2>1, <2>2 DEF Next, Run, Finished, vars
<1> QED BY <1>1, BarrierInvariance, PTL DEF Spec, PriorTelemetryIsFrozen

-----------------------------------------------------------------------------
(* What is not lost *)

Held(id) == \E f \in PathEvents : f.request_id = id
Queued(id) == \E c \in ChannelIds : \E i \in 1 .. Len(QueueOf(c)) : QueueOf(c)[i] = id

\* Every unfinished request is somewhere.
NothingLost == \A id \in Unfinished : Held(id) \/ Queued(id)

\* A channel in service has the completion of that service pending.
ServicesArePending ==
  \A c \in ChannelIds : channels[c].service_in_progress =>
    \E f \in PendingOf("MemoryServiceComplete") : ChannelOf(f.request_id) = c

\* What will make node n draw its next request.
HasToken(n) ==
  \/ \E f \in PendingOf("GenerateRequest") : f.target_id = n
  \/ ~bursty /\ \E f \in PendingOf("RequestComplete") : f.target_id = n
  \/ ~bursty /\ OpenAt(n) # {}

\* No node is behind the released epoch, and one that still has requests of it
\* will draw the next.
NextIsDue ==
  status = "running" =>
    \A n \in Nodes : has_next(compute_nodes, n) =>
      /\ released_epoch <= peek_next(compute_nodes, n).epoch_id
      /\ peek_next(compute_nodes, n).epoch_id = released_epoch => HasToken(n)

\* When the run loop finds the queue empty and the nodes idle, no epoch waits.
NothingToRelease ==
  status = "running" /\ sched.events = {} /\ EveryNodeIdle =>
    UnreleasedEpochs(compute_nodes) = {}

NothingLostInv ==
  /\ BarrierInv
  /\ NothingLost
  /\ ServicesArePending
  /\ NextIsDue
  /\ NothingToRelease

-----------------------------------------------------------------------------
(* No request and no service is lost *)

\* A request that a step does not touch is where it was.
LEMMA OthersNotLost ==
  ASSUME NothingLost, NEW e \in sched.events, NEW new, Exchanges(e, new), NEW changed,
         e.type \in PathTypes => e.request_id \in changed,
         \A id \in Unfinished' : id \notin changed =>
           id \in Unfinished /\ (Queued(id) => Queued(id)')
  PROVE  \A id \in Unfinished' : id \notin changed => Held(id)' \/ Queued(id)'
<1> SUFFICES ASSUME NEW id \in Unfinished', id \notin changed, Held(id)
             PROVE  Held(id)'
  BY DEF NothingLost
<1>1. PICK f \in PathEvents : f.request_id = id
  BY DEF Held
<1>2. f # e /\ f.type # "GenerateRequest"
  BY <1>1 DEF PathEvents, PathTypes
<1>3. f \in PathEvents'
  BY <1>1, <1>2 DEF PathEvents, Exchanges
<1> QED BY <1>1, <1>3 DEF Held

\* What a handler schedules for a request holds it.
LEMMA NewHolds ==
  ASSUME NEW e, NEW new, Exchanges(e, new), NEW p \in new, p.type \in PathTypes
  PROVE  Held(p.request_id)'
<1>1. p \in PathEvents'
  BY DEF Exchanges, PathEvents, PathTypes
<1> QED BY <1>1 DEF Held

\* A request stays queued while its queue stays as it is.
LEMMA QueuesStand ==
  ASSUME UNCHANGED <<config, channels>>, NEW id
  PROVE  Queued(id) => Queued(id)'
BY DEF Queued, QueueOf, ChannelIds

\* A service that a step does not touch is pending as before.
LEMMA OtherServicesPending ==
  ASSUME ServicesArePending, RequestPathInv, NEW e \in sched.events, NEW new,
         Exchanges(e, new), KeepsRequests, NEW touched,
         e.type = "MemoryServiceComplete" => ChannelOf(e.request_id) \in touched,
         ChannelIds' = ChannelIds,
         \A c \in ChannelIds : c \notin touched => channels'[c] = channels[c]
  PROVE  \A c \in ChannelIds' :
           c \notin touched /\ channels'[c].service_in_progress =>
             \E f \in PendingOf("MemoryServiceComplete")' : ChannelOf(f.request_id)' = c
<1> SUFFICES ASSUME NEW c \in ChannelIds, c \notin touched, channels[c].service_in_progress
             PROVE  \E f \in PendingOf("MemoryServiceComplete")' : ChannelOf(f.request_id)' = c
  OBVIOUS
<1>1. PICK f \in PendingOf("MemoryServiceComplete") : ChannelOf(f.request_id) = c
  BY DEF ServicesArePending
<1>2. f \in sched.events /\ f.type = "MemoryServiceComplete" /\ f # e
  BY <1>1 DEF PendingOf
<1>3. f.request_id \in Issued
  BY <1>2, Referents DEF RequestPathInv
<1>4. f \in PendingOf("MemoryServiceComplete")'
  BY <1>2 DEF PendingOf, Exchanges
<1>5. ChannelOf(f.request_id)' = c
  BY <1>1, <1>3 DEF KeepsRequests
<1> QED BY <1>4, <1>5

\* No service is touched by a handler of a compute node.
LEMMA ServicesStand ==
  ASSUME ServicesArePending, RequestPathInv, NEW e \in sched.events, NEW new,
         Exchanges(e, new), KeepsRequests, e.type # "MemoryServiceComplete",
         UNCHANGED <<config, channels>>
  PROVE  ServicesArePending'
<1> DEFINE touched == {}
<1>1. /\ e.type = "MemoryServiceComplete" => ChannelOf(e.request_id) \in touched
      /\ \A c : c \notin touched
      /\ ChannelIds' = ChannelIds
  BY DEF ChannelIds
<1> HIDE DEF touched
<1>2. \A c \in ChannelIds' :
        c \notin touched /\ channels'[c].service_in_progress =>
          \E f \in PendingOf("MemoryServiceComplete")' : ChannelOf(f.request_id)' = c
  BY <1>1, OtherServicesPending
<1> QED BY <1>1, <1>2 DEF ServicesArePending

\* A looked-up request waits for the event of its new stage.
LEMMA LookupLosesNothing ==
  ASSUME NothingLostInv, SimulatorInv', TimesFit, NEW e \in sched.events,
         e.type = "LocalCacheLookup", LookupEffect(e)
  PROVE  NothingLost' /\ ServicesArePending'
<1> DEFINE id == e.request_id
<1>1. RequestPathInv /\ NothingLost /\ ServicesArePending
  BY DEF NothingLostInv, BarrierInv
<1>2. PICK stage, p : /\ stage # "Completed" /\ p.request_id = id /\ p.type \in PathTypes
                      /\ Reaches(id, stage) /\ Leaves(e, {p})
  <2>1. PICK stage \in RequestStage, p \in Event, accepted \in BOOLEAN :
          /\ stage # "Completed" /\ p.request_id = id /\ p.type \in PathTypes
          /\ Reaches(id, stage) /\ accepted
          /\ Leaves(e, IF accepted THEN {p} ELSE {})
    BY DEF LookupEffect, PathTypes
  <2>2. (IF accepted THEN {p} ELSE {}) = {p}
    BY <2>1
  <2> QED BY <2>1, <2>2
<1>3. /\ Issued' = Issued /\ KeepsRequests /\ UNCHANGED <<config, channels>>
  BY DEF LookupEffect
<1>4. Exchanges(e, {p})
  BY <1>1, <1>2, StepFacts
<1>5. Unfinished' = Unfinished
  <2>1. id \in Unfinished
    BY <1>1, HeldByAlone DEF PathTypes
  <2> QED BY <1>2, <1>3, <2>1, UnfinishedKept
<1>6. \A i \in Unfinished' : i \notin {id} => Held(i)' \/ Queued(i)'
  BY <1>1, <1>3, <1>4, <1>5, OthersNotLost, QueuesStand
<1>7. Held(id)'
  BY <1>2, <1>4, NewHolds
<1>8. NothingLost'
  BY <1>6, <1>7 DEF NothingLost
<1>9. ServicesArePending'
  BY <1>1, <1>3, <1>4, ServicesStand
<1> QED BY <1>8, <1>9

\* A completed request needs no place; the others keep theirs.
LEMMA CompleteLosesNothing ==
  ASSUME NothingLostInv, SimulatorInv', NEW e \in sched.events,
         e.type \in {"LocalCacheHitComplete", "ReturnResponse"}, CompleteEffect(e)
  PROVE  NothingLost' /\ ServicesArePending'
<1> DEFINE id == e.request_id
<1>1. RequestPathInv /\ NothingLost /\ ServicesArePending
  BY DEF NothingLostInv, BarrierInv
<1>2. PICK p : p.type = "RequestComplete" /\ Leaves(e, {p})
  BY DEF CompleteEffect
<1>3. /\ Issued' = Issued /\ KeepsRequests /\ UNCHANGED <<config, channels>>
      /\ Reaches(id, "Completed")
  BY DEF CompleteEffect
<1>4. Exchanges(e, {p})
  BY <1>1, <1>2, StepFacts
<1>5. id \notin Unfinished' /\ \A i \in Unfinished' : i \in Unfinished
  BY <1>3 DEF Unfinished, Reaches, Stage
<1>6. \A i \in Unfinished' : i \notin {id} => Held(i)' \/ Queued(i)'
  BY <1>1, <1>3, <1>4, <1>5, OthersNotLost, QueuesStand
<1>7. NothingLost'
  BY <1>5, <1>6 DEF NothingLost
<1>8. ServicesArePending'
  BY <1>1, <1>3, <1>4, ServicesStand
<1> QED BY <1>7, <1>8

\* A handler that concerns no request loses none.
LEMMA QuietLosesNothing ==
  ASSUME NothingLostInv, SimulatorInv', NEW e \in sched.events,
         e.type \in {"GenerateRequest", "RequestComplete"}, NEW new, Leaves(e, new),
         UNCHANGED <<config, channels, request_table, next_request_id>>
  PROVE  NothingLost' /\ ServicesArePending'
<1>1. RequestPathInv /\ NothingLost /\ ServicesArePending
  BY DEF NothingLostInv, BarrierInv
<1>2. Unfinished' = Unfinished /\ KeepsRequests
  BY TableKept
<1>3. Exchanges(e, new)
  BY <1>1, StepFacts
<1> DEFINE touched == {}
<1>4. /\ e.type \in PathTypes => e.request_id \in touched
      /\ \A i : i \notin touched
  BY DEF PathTypes
<1> HIDE DEF touched
<1>5. \A i \in Unfinished' : i \notin touched => Held(i)' \/ Queued(i)'
  BY <1>1, <1>2, <1>3, <1>4, OthersNotLost, QueuesStand
<1>6. ServicesArePending'
  BY <1>1, <1>2, <1>3, ServicesStand
<1> QED BY <1>4, <1>5, <1>6 DEF NothingLost

\* A new request waits for its lookup.
LEMMA IssueLosesNothing ==
  ASSUME NothingLostInv, SimulatorInv', NEW e \in sched.events,
         e.type = "GenerateRequest", IssueEffect(e)
  PROVE  NothingLost' /\ ServicesArePending'
<1>1. RequestPathInv /\ NothingLost /\ ServicesArePending
  BY DEF NothingLostInv, BarrierInv
<1>2. PICK id, p, new :
        /\ Issued' = Issued \cup {id}
        /\ p.type = "LocalCacheLookup" /\ p.request_id = id /\ p \in new
        /\ Leaves(e, new)
  <2>1. PICK more : more = (bursty /\ NextIsOfEpoch(compute_nodes', e.target_id,
                                        compute_nodes'[e.target_id].current_epoch))
    OBVIOUS
  <2>2. PICK id \in Nat \ {0}, p \in Event, g \in Event, accepted \in BOOLEAN :
          /\ Issued' = Issued \cup {id}
          /\ p.type = "LocalCacheLookup" /\ p.request_id = id
          /\ Leaves(e, {p} \cup (IF more /\ accepted THEN {g} ELSE {}))
    BY <2>1 DEF IssueEffect
  <2> DEFINE new == {p} \cup (IF more /\ accepted THEN {g} ELSE {})
  <2>3. p \in new /\ Leaves(e, new)
    BY <2>2
  <2> HIDE DEF new
  <2> QED BY <2>2, <2>3
<1>3. KeepsRequests /\ KeepsStages /\ UNCHANGED <<config, channels>>
  BY DEF IssueEffect
<1>4. Exchanges(e, new)
  BY <1>1, <1>2, StepFacts
<1>5. \A i \in Unfinished' : i \notin {id} => i \in Unfinished
  BY <1>2, <1>3 DEF Unfinished, KeepsStages, Stage
<1>6. e.type \notin PathTypes
  BY DEF PathTypes
<1>7. \A i \in Unfinished' : i \notin {id} => Held(i)' \/ Queued(i)'
  BY <1>1, <1>3, <1>4, <1>5, <1>6, OthersNotLost, QueuesStand
<1>8. Held(id)'
  BY <1>2, <1>4, NewHolds DEF PathTypes
<1>9. NothingLost'
  BY <1>7, <1>8 DEF NothingLost
<1>10. ServicesArePending'
  BY <1>1, <1>3, <1>4, ServicesStand
<1> QED BY <1>9, <1>10

\* A forwarded request joins the queue of its channel.
LEMMA ForwardLosesNothing ==
  ASSUME NothingLostInv, SimulatorInv', NEW e \in sched.events,
         e.type = "ForwardToMemory", ForwardEffect(e)
  PROVE  NothingLost' /\ ServicesArePending'
<1>0. PICK id, c, queue, free :
        /\ id = e.request_id /\ c = ChannelOf(id) /\ queue = QueueOf(c)
        /\ free = ChannelFree(channels[c])
  OBVIOUS
<1>1. RequestPathInv /\ NothingLost /\ ServicesArePending
  BY DEF NothingLostInv, BarrierInv
<1>2. PICK new : Leaves(e, new)
  <2>1. \E p : Leaves(e, IF free THEN {p} ELSE {})
    BY <1>0 DEF ForwardEffect
  <2> QED BY <2>1
<1>3. /\ Unfinished' = Unfinished /\ KeepsRequests
      /\ ChannelBecomes(c, [queued_requests |-> Append(queue, id),
                            service_in_progress |-> channels[c].service_in_progress,
                            service_start_scheduled |->
                              channels[c].service_start_scheduled \/ free])
  BY <1>0 DEF ForwardEffect
<1>4. Exchanges(e, new)
  BY <1>1, <1>2, StepFacts
<1>5. /\ c \in ChannelIds /\ ChannelIds' = ChannelIds
      /\ channels'[c].queued_requests = Append(queue, id)
      /\ channels'[c].service_in_progress = channels[c].service_in_progress
      /\ \A d \in ChannelIds : d # c => channels'[d] = channels[d]
  BY <1>3 DEF ChannelBecomes
<1>6. queue \in Seq(Issued)
  BY <1>0, <1>1, <1>5, Referents DEF RequestPathInv
<1>7. /\ Len(Append(queue, id)) = Len(queue) + 1 /\ Len(queue) \in Nat
      /\ Append(queue, id)[Len(queue) + 1] = id
      /\ \A i \in 1 .. Len(queue) : Append(queue, id)[i] = queue[i]
  BY <1>6
<1>8. ASSUME NEW i, Queued(i)
      PROVE  Queued(i)'
  <2>1. PICK d, k : d \in ChannelIds /\ k \in 1 .. Len(QueueOf(d)) /\ QueueOf(d)[k] = i
    BY <1>8 DEF Queued
  <2>2. CASE d = c
    <3>1. k \in 1 .. Len(Append(queue, id)) /\ Append(queue, id)[k] = i
      BY <1>0, <1>7, <2>1, <2>2
    <3> QED BY <1>5, <3>1 DEF Queued, QueueOf
  <2>3. CASE d # c
    BY <1>5, <2>1, <2>3 DEF Queued, QueueOf
  <2> QED BY <2>2, <2>3
<1>9. Queued(id)'
  <2>1. Len(queue) + 1 \in 1 .. Len(Append(queue, id))
    BY <1>7
  <2> QED BY <1>5, <1>7, <2>1 DEF Queued, QueueOf
<1>10. NothingLost'
  <2>1. e.type \in PathTypes => e.request_id \in {id}
    BY <1>0
  <2>2. \A i \in Unfinished' : i \notin {id} => Held(i)' \/ Queued(i)'
    BY <1>1, <1>3, <1>4, <1>8, <2>1, OthersNotLost
  <2> QED BY <1>9, <2>2 DEF NothingLost
<1>11. ServicesArePending'
  <2>1. e.type = "MemoryServiceComplete" => ChannelOf(e.request_id) \in {c}
    OBVIOUS
  <2>2. \A d \in ChannelIds : d \notin {c} => channels'[d] = channels[d]
    BY <1>5
  <2>3. \A d \in ChannelIds' :
          d \notin {c} /\ channels'[d].service_in_progress =>
            \E f \in PendingOf("MemoryServiceComplete")' : ChannelOf(f.request_id)' = d
    BY <1>1, <1>3, <1>4, <1>5, <2>1, <2>2, OtherServicesPending
  <2>4. ASSUME channels[c].service_in_progress
        PROVE  \E f \in PendingOf("MemoryServiceComplete")' : ChannelOf(f.request_id)' = c
    <3>1. PICK f \in PendingOf("MemoryServiceComplete") : ChannelOf(f.request_id) = c
      BY <1>1, <1>5, <2>4 DEF ServicesArePending
    <3>2. f \in sched.events /\ f.type = "MemoryServiceComplete" /\ f # e
      BY <3>1 DEF PendingOf
    <3>3. f \in PendingOf("MemoryServiceComplete")' /\ f.request_id \in Issued
      BY <1>1, <1>4, <3>2, Referents DEF PendingOf, Exchanges, RequestPathInv
    <3> QED BY <1>3, <3>1, <3>3 DEF KeepsRequests
  <2> QED BY <1>5, <2>3, <2>4 DEF ServicesArePending
<1> QED BY <1>10, <1>11

\* The request at the head of the queue goes on to its pending completion.
LEMMA ServiceStartLosesNothing ==
  ASSUME NothingLostInv, SimulatorInv', TimesFit, NEW e \in sched.events,
         e.type = "MemoryServiceStart", ServiceStartEffect(e)
  PROVE  NothingLost' /\ ServicesArePending'
<1>0. PICK id, c, queue :
        id = e.request_id /\ c = ChannelOf(id) /\ queue = QueueOf(c)
  OBVIOUS
<1>1. RequestPathInv /\ NothingLost /\ ServicesArePending
  BY DEF NothingLostInv, BarrierInv
<1>2. PICK p : /\ p.type = "MemoryServiceComplete" /\ p.request_id = id
               /\ Leaves(e, {p})
  <2>1. PICK p \in Event, accepted \in BOOLEAN :
          /\ p.type = "MemoryServiceComplete" /\ p.request_id = id /\ accepted
          /\ Leaves(e, IF accepted THEN {p} ELSE {})
    BY <1>0 DEF ServiceStartEffect
  <2>2. (IF accepted THEN {p} ELSE {}) = {p}
    BY <2>1
  <2> QED BY <2>1, <2>2
<1>3. /\ Issued' = Issued /\ KeepsRequests /\ Reaches(id, "WaitingForResponse")
      /\ ChannelBecomes(c, [queued_requests |-> Tail(queue), service_in_progress |-> TRUE,
                            service_start_scheduled |-> FALSE])
  BY <1>0 DEF ServiceStartEffect
<1>4. Exchanges(e, {p})
  BY <1>1, <1>2, StepFacts
<1>5. /\ c \in ChannelIds /\ ChannelIds' = ChannelIds
      /\ channels'[c].queued_requests = Tail(queue)
      /\ \A d \in ChannelIds : d # c => channels'[d] = channels[d]
  BY <1>3 DEF ChannelBecomes
<1>6. /\ id \in Issued /\ id \in Unfinished
      /\ queue \in Seq(Issued) /\ queue # <<>> /\ id = Head(queue)
  BY <1>0, <1>1, StartFindsHead
<1>7. Unfinished' = Unfinished
  <2>1. "WaitingForResponse" # "Completed"
    OBVIOUS
  <2> QED BY <1>3, <1>6, <2>1, UnfinishedKept
<1>8. ASSUME NEW i, i # id, Queued(i)
      PROVE  Queued(i)'
  <2>1. PICK d, k : d \in ChannelIds /\ k \in 1 .. Len(QueueOf(d)) /\ QueueOf(d)[k] = i
    BY <1>8 DEF Queued
  <2>2. CASE d = c
    <3>1. k \in 1 .. Len(queue) /\ queue[k] = i
      BY <1>0, <2>1, <2>2
    <3>2. k # 1
      BY <1>6, <1>8, <3>1
    <3>3. k - 1 \in 1 .. Len(Tail(queue)) /\ Tail(queue)[k - 1] = i
      BY <1>6, <3>1, <3>2
    <3> QED BY <1>5, <3>3 DEF Queued, QueueOf
  <2>3. CASE d # c
    BY <1>5, <2>1, <2>3 DEF Queued, QueueOf
  <2> QED BY <2>2, <2>3
<1>9. NothingLost'
  <2>1. e.type \in PathTypes => e.request_id \in {id}
    BY <1>0
  <2>2. \A i \in Unfinished' : i \notin {id} => i \in Unfinished /\ (Queued(i) => Queued(i)')
    BY <1>7, <1>8
  <2>3. \A i \in Unfinished' : i \notin {id} => Held(i)' \/ Queued(i)'
    BY <1>1, <1>4, <2>1, <2>2, OthersNotLost
  <2>4. Held(id)'
    BY <1>2, <1>4, NewHolds DEF PathTypes
  <2> QED BY <2>3, <2>4 DEF NothingLost
<1>10. ServicesArePending'
  <2>1. e.type = "MemoryServiceComplete" => ChannelOf(e.request_id) \in {c}
    OBVIOUS
  <2>2. \A d \in ChannelIds : d \notin {c} => channels'[d] = channels[d]
    BY <1>5
  <2>3. \A d \in ChannelIds' :
          d \notin {c} /\ channels'[d].service_in_progress =>
            \E f \in PendingOf("MemoryServiceComplete")' : ChannelOf(f.request_id)' = d
    BY <1>1, <1>3, <1>4, <1>5, <2>1, <2>2, OtherServicesPending
  <2>4. p \in PendingOf("MemoryServiceComplete")' /\ ChannelOf(p.request_id)' = c
    BY <1>0, <1>2, <1>3, <1>4, <1>6 DEF PendingOf, Exchanges, KeepsRequests
  <2> QED BY <1>5, <2>3, <2>4 DEF ServicesArePending
<1> QED BY <1>9, <1>10

\* A served request goes on to its response.
LEMMA ServiceCompleteLosesNothing ==
  ASSUME NothingLostInv, SimulatorInv', TimesFit, NEW e \in sched.events,
         e.type = "MemoryServiceComplete", ServiceCompleteEffect(e)
  PROVE  NothingLost' /\ ServicesArePending'
<1>0. PICK id, c, queue, waiting :
        /\ id = e.request_id /\ c = ChannelOf(id) /\ queue = QueueOf(c)
        /\ waiting = (queue # <<>>)
  OBVIOUS
<1>1. RequestPathInv /\ NothingLost /\ ServicesArePending
  BY DEF NothingLostInv, BarrierInv
<1>2. PICK p, new : /\ p.type = "ReturnResponse" /\ p.request_id = id
                    /\ p \in new /\ Leaves(e, new)
  <2>1. PICK p \in Event, q \in Event, accepted \in BOOLEAN :
          /\ p.type = "ReturnResponse" /\ p.request_id = id /\ accepted
          /\ Leaves(e, (IF accepted THEN {p} ELSE {}) \cup (IF waiting THEN {q} ELSE {}))
    BY <1>0 DEF ServiceCompleteEffect
  <2> DEFINE new == (IF accepted THEN {p} ELSE {}) \cup (IF waiting THEN {q} ELSE {})
  <2>2. p \in new /\ Leaves(e, new)
    BY <2>1
  <2> HIDE DEF new
  <2> QED BY <2>1, <2>2
<1>3. /\ Unfinished' = Unfinished /\ KeepsRequests
      /\ ChannelBecomes(c, [queued_requests |-> queue, service_in_progress |-> FALSE,
                            service_start_scheduled |->
                              channels[c].service_start_scheduled \/ waiting])
  BY <1>0 DEF ServiceCompleteEffect
<1>4. Exchanges(e, new)
  BY <1>1, <1>2, StepFacts
<1>5. /\ c \in ChannelIds /\ ChannelIds' = ChannelIds
      /\ channels'[c].queued_requests = queue /\ ~channels'[c].service_in_progress
      /\ \A d \in ChannelIds : d # c => channels'[d] = channels[d]
  BY <1>3 DEF ChannelBecomes
<1>6. \A d \in ChannelIds : QueueOf(d)' = QueueOf(d)
  BY <1>0, <1>5 DEF QueueOf
<1>7. \A i : Queued(i) => Queued(i)'
  BY <1>5, <1>6 DEF Queued
<1>8. NothingLost'
  <2>1. e.type \in PathTypes => e.request_id \in {id}
    BY <1>0
  <2>2. \A i \in Unfinished' : i \notin {id} => Held(i)' \/ Queued(i)'
    BY <1>1, <1>3, <1>4, <1>7, <2>1, OthersNotLost
  <2>3. Held(id)'
    BY <1>2, <1>4, NewHolds DEF PathTypes
  <2> QED BY <2>2, <2>3 DEF NothingLost
<1>9. ServicesArePending'
  <2>1. e.type = "MemoryServiceComplete" => ChannelOf(e.request_id) \in {c}
    BY <1>0
  <2>2. \A d \in ChannelIds : d \notin {c} => channels'[d] = channels[d]
    BY <1>5
  <2>3. \A d \in ChannelIds' :
          d \notin {c} /\ channels'[d].service_in_progress =>
            \E f \in PendingOf("MemoryServiceComplete")' : ChannelOf(f.request_id)' = d
    BY <1>1, <1>3, <1>4, <1>5, <2>1, <2>2, OtherServicesPending
  <2> QED BY <1>5, <2>3 DEF ServicesArePending
<1> QED BY <1>8, <1>9

-----------------------------------------------------------------------------
(* Every node will draw its next request *)

\* HasToken after a step, with these events in the queue.
TokenAfter(events, n) ==
  \/ \E f \in events : f.type = "GenerateRequest" /\ f.target_id = n
  \/ ~bursty /\ \E f \in events : f.type = "RequestComplete" /\ f.target_id = n
  \/ ~bursty /\ OpenAt(n)' # {}

\* NextIsDue after a handler and before the release check that follows it.
DueAfter(events) ==
  \A n \in Nodes : has_next(compute_nodes', n) =>
    /\ released_epoch <= peek_next(compute_nodes', n).epoch_id
    /\ peek_next(compute_nodes', n).epoch_id = released_epoch => TokenAfter(events, n)

\* When the release check finds nothing pending, every next request waits for a
\* later epoch than the released one.
LEMMA NextIsUnreleased ==
  ASSUME BarrierInv', AcceptedConfig(config), released_epoch \in Int, Releases, DueAfter({})
  PROVE  \A n \in Nodes : has_next(compute_nodes', n) =>
           peek_next(compute_nodes', n).epoch_id \in UnreleasedEpochs(compute_nodes')
<1>1. compute_nodes' \in NodeStates
  BY DEF BarrierInv, RequestPathInv, SimulatorInv, TypeOK, NodeStates
<1>2. \A n : OpenAt(n)' = {}
  <2>1. EveryNodeIdle'
    BY DEF Releases, EveryNodeIdle, all_compute_nodes_idle
  <2>2. Unfinished' = {}
    BY <2>1, IdleMeansDoneNext DEF BarrierInv
  <2> QED BY <2>2 DEF OpenAt
<1> SUFFICES ASSUME NEW n \in Nodes, has_next(compute_nodes', n)
             PROVE  peek_next(compute_nodes', n).epoch_id \in UnreleasedEpochs(compute_nodes')
  OBVIOUS
<1> DEFINE g == peek_next(compute_nodes', n).epoch_id
<1>3. g \in Nat
  BY <1>1, PeekType DEF RequestSpec
<1>4. ~TokenAfter({}, n)
  BY <1>2 DEF TokenAfter
<1>5. released_epoch <= g /\ g # released_epoch
  BY <1>4 DEF DueAfter
<1>6. g > released_epoch
  <2> HIDE DEF g
  <2> QED BY <1>3, <1>5
<1> QED BY <1>3, <1>6 DEF UnreleasedEpochs

\* The release check keeps it: it opens the next epoch when nothing of the
\* released one is left, and then every request of the new one is announced.
LEMMA ReleaseKeepsDue ==
  ASSUME BarrierInv', AcceptedConfig(config), released_epoch \in Int,
         NEW e, NEW new, TimesFit, DueAfter((sched.events \ {e}) \cup new),
         GoesOn(e, new) \/ (Releases /\ (sched.events \ {e}) \cup new = {})
  PROVE  NextIsDue' /\ NothingToRelease'
<1> DEFINE events == (sched.events \ {e}) \cup new
<1>1. CASE GoesOn(e, new)
  <2>1. sched'.events = events /\ released_epoch' = released_epoch /\ config' = config
    BY <1>1 DEF GoesOn
  <2>2. NextIsDue'
    BY <2>1 DEF DueAfter, TokenAfter, NextIsDue, HasToken, PendingOf, has_next, peek_next, bursty
  <2>3. NothingToRelease'
    BY <1>1, <2>1 DEF GoesOn, NothingToRelease, EveryNodeIdle, all_compute_nodes_idle,
       UnreleasedEpochs, has_next, peek_next
  <2> QED BY <2>2, <2>3
<1>2. CASE Releases /\ events = {}
  <2>1. config' = config /\ released_epoch' \in UnreleasedEpochs(compute_nodes')
    BY <1>2 DEF Releases
  <2>2. DueAfter({})
    BY <1>2 DEF DueAfter, TokenAfter
  <2>3. \A n \in Nodes : has_next(compute_nodes', n) =>
          peek_next(compute_nodes', n).epoch_id \in UnreleasedEpochs(compute_nodes')
    BY <1>2, <2>2, NextIsUnreleased
  <2>4. \A n \in Nodes : has_next(compute_nodes', n) =>
          released_epoch' <= peek_next(compute_nodes', n).epoch_id
    BY <1>2, <2>3 DEF Releases
  <2>5. \A n \in Nodes : NextIsOfEpoch(compute_nodes', n, released_epoch') =>
          \E f \in sched'.events : f.type = "GenerateRequest" /\ f.target_id = n
    BY <1>2 DEF Releases, EachNextIsAnnounced
  <2>6. NextIsDue'
    <3> SUFFICES ASSUME NEW n \in Nodes, has_next(compute_nodes, n)'
                 PROVE  /\ released_epoch' <= peek_next(compute_nodes, n)'.epoch_id
                        /\ peek_next(compute_nodes, n)'.epoch_id = released_epoch'
                             => HasToken(n)'
      BY DEF NextIsDue
    <3>1. has_next(compute_nodes', n)
      BY <2>1 DEF has_next
    <3>2. peek_next(compute_nodes, n)' = peek_next(compute_nodes', n)
      BY <2>1 DEF peek_next
    <3> QED BY <2>4, <2>5, <3>1, <3>2 DEF NextIsOfEpoch, HasToken, PendingOf
  <2>7. NothingToRelease'
    <3>1. \E n \in Nodes : NextIsOfEpoch(compute_nodes', n, released_epoch')
      BY <2>1 DEF UnreleasedEpochs, NextIsOfEpoch
    <3> QED BY <2>5, <3>1 DEF NothingToRelease
  <2> QED BY <2>6, <2>7
<1> QED BY <1>1, <1>2

\* A handler that draws nothing, opens and closes nothing, and does not use up
\* the token of a node with a next request, leaves every next request due.
LEMMA QuietKeepsDue ==
  ASSUME NothingLostInv, status = "running", NEW e \in sched.events, NEW new,
         UNCHANGED <<config, compute_nodes>>, KeepsRequests, Unfinished' = Unfinished,
         e.type \in TokenTypes => ~has_next(compute_nodes, e.target_id)
  PROVE  DueAfter((sched.events \ {e}) \cup new)
<1>1. \A n : OpenAt(n)' = OpenAt(n)
  BY Referents DEF OpenAt, KeepsRequests, Unfinished, NothingLostInv, BarrierInv, RequestPathInv
<1> SUFFICES ASSUME NEW n \in Nodes, has_next(compute_nodes, n)
             PROVE  /\ released_epoch <= peek_next(compute_nodes, n).epoch_id
                    /\ peek_next(compute_nodes, n).epoch_id = released_epoch
                         => TokenAfter((sched.events \ {e}) \cup new, n)
  BY DEF DueAfter
<1>2. /\ released_epoch <= peek_next(compute_nodes, n).epoch_id
      /\ peek_next(compute_nodes, n).epoch_id = released_epoch => HasToken(n)
  BY DEF NothingLostInv, NextIsDue
<1>3. \A f \in sched.events : f.type \in TokenTypes /\ f.target_id = n => f # e
  OBVIOUS
<1>4. HasToken(n) => TokenAfter((sched.events \ {e}) \cup new, n)
  BY <1>1, <1>3 DEF HasToken, TokenAfter, PendingOf, TokenTypes
<1> QED BY <1>2, <1>4

\* A completion replaces the unfinished request by a RequestComplete.
LEMMA CompleteKeepsDue ==
  ASSUME NothingLostInv, status = "running", NEW e \in sched.events,
         e.type \in {"LocalCacheHitComplete", "ReturnResponse"}, CompleteEffect(e),
         NEW p, p.type = "RequestComplete", p.target_id = e.target_id
  PROVE  DueAfter((sched.events \ {e}) \cup {p})
<1> DEFINE id == e.request_id
           t == e.target_id
<1>1. /\ Issued' = Issued /\ KeepsRequests /\ Reaches(id, "Completed") /\ t \in Nodes
      /\ compute_nodes' = [compute_nodes EXCEPT ![t].outstanding_requests = @ - 1]
      /\ config' = config
  BY DEF CompleteEffect
<1>2. compute_nodes \in NodeStates /\ RequestPathInv /\ SimulatorInv
  BY Referents DEF NothingLostInv, BarrierInv, RequestPathInv
<1>3. \A n \in Nodes : compute_nodes'[n].next_index = compute_nodes[n].next_index
  BY <1>1, <1>2 DEF NodeStates, ComputeNodeState
<1>4. SourceOf(id) = t
  <2>1. e.type \in PathTypes /\ e.type \in ComputeEventTypes
    BY DEF PathTypes, ComputeEventTypes
  <2> QED BY <1>2, <2>1, HeldByAlone
<1>5. \A n : n # t => OpenAt(n)' = OpenAt(n)
  BY <1>1, <1>2, <1>4, Referents DEF OpenAt, Unfinished, Stage, Reaches, KeepsRequests
<1> HIDE DEF t, id
<1> SUFFICES ASSUME NEW n \in Nodes, has_next(compute_nodes', n)
             PROVE  /\ released_epoch <= peek_next(compute_nodes', n).epoch_id
                    /\ peek_next(compute_nodes', n).epoch_id = released_epoch
                         => TokenAfter((sched.events \ {e}) \cup {p}, n)
  BY DEF DueAfter
<1>6. /\ has_next(compute_nodes, n)
      /\ peek_next(compute_nodes', n) = peek_next(compute_nodes, n)
  BY <1>3 DEF has_next, peek_next
<1>7. /\ released_epoch <= peek_next(compute_nodes, n).epoch_id
      /\ peek_next(compute_nodes, n).epoch_id = released_epoch => HasToken(n)
  BY <1>6 DEF NothingLostInv, NextIsDue
<1>8. HasToken(n) => TokenAfter((sched.events \ {e}) \cup {p}, n)
  BY <1>5 DEF HasToken, TokenAfter, PendingOf, t
<1> QED BY <1>6, <1>7, <1>8

\* A RequestComplete becomes the GenerateRequest for the next request of the
\* epoch, if there is one.
LEMMA HandOnKeepsDue ==
  ASSUME NothingLostInv, status = "running", NEW e \in sched.events,
         e.type = "RequestComplete", RequestCompleteEffect(e),
         NEW more, more = (~bursty /\ NextIsOfEpoch(compute_nodes, e.target_id,
                                        compute_nodes[e.target_id].current_epoch)),
         NEW g, g.type = "GenerateRequest", g.target_id = e.target_id
  PROVE  DueAfter((sched.events \ {e}) \cup (IF more THEN {g} ELSE {}))
<1> DEFINE t == e.target_id
<1>1. UNCHANGED <<config, compute_nodes, request_table, next_request_id>>
  BY DEF RequestCompleteEffect
<1>2. \A n : OpenAt(n)' = OpenAt(n)
  BY <1>1, TableKept DEF OpenAt, SourceOf
<1>3. compute_nodes[t].current_epoch = released_epoch
  BY DEF PendingOf, NothingLostInv, BarrierInv, TokensInEpoch
<1> HIDE DEF t
<1> SUFFICES ASSUME NEW n \in Nodes, has_next(compute_nodes, n)
             PROVE  /\ released_epoch <= peek_next(compute_nodes, n).epoch_id
                    /\ peek_next(compute_nodes, n).epoch_id = released_epoch
                         => TokenAfter((sched.events \ {e}) \cup (IF more THEN {g} ELSE {}), n)
  BY <1>1 DEF DueAfter
<1>4. /\ released_epoch <= peek_next(compute_nodes, n).epoch_id
      /\ peek_next(compute_nodes, n).epoch_id = released_epoch => HasToken(n)
  BY DEF NothingLostInv, NextIsDue
<1>5. peek_next(compute_nodes, n).epoch_id = released_epoch /\ n = t /\ ~bursty => more
  BY <1>3 DEF NextIsOfEpoch, t
<1>6. peek_next(compute_nodes, n).epoch_id = released_epoch /\ HasToken(n)
        => TokenAfter((sched.events \ {e}) \cup (IF more THEN {g} ELSE {}), n)
  BY <1>2, <1>5 DEF HasToken, TokenAfter, PendingOf, t
<1> QED BY <1>4, <1>6

\* A new request is itself what makes a completion-driven node draw the next; a
\* bursty node announces the next arrival of the epoch.  Streams are sorted by
\* epoch, so the next request is of the same epoch or a later one.
LEMMA IssueKeepsDue ==
  ASSUME NothingLostInv, status = "running", NEW e \in sched.events, config' = config,
         e.type = "GenerateRequest", NEW n \in Nodes, n = e.target_id,
         has_next(compute_nodes, n), NEW spec, spec = peek_next(compute_nodes, n),
         compute_nodes' = [compute_nodes EXCEPT ![n] = Advance(@, spec, e.time)],
         KeepsRequests, KeepsStages,
         NEW id, Issued' = Issued \cup {id}, Stage(id)' = "Generated", SourceOf(id)' = n,
         NEW p, NEW g, g.type = "GenerateRequest", g.target_id = n,
         NEW more, bursty /\ NextIsOfEpoch(compute_nodes', n, compute_nodes'[n].current_epoch)
                     => more
  PROVE  DueAfter((sched.events \ {e}) \cup ({p} \cup (IF more THEN {g} ELSE {})))
<1> DEFINE after == (sched.events \ {e}) \cup ({p} \cup (IF more THEN {g} ELSE {}))
           stream == config.compute_nodes[n]
           k == compute_nodes[n].next_index
<1>1. compute_nodes \in NodeStates /\ RequestPathInv /\ AcceptedConfig(config)
  BY Referents DEF NothingLostInv, BarrierInv, RequestPathInv, SimulatorInv, TypeOK
<1>2. spec.epoch_id = released_epoch
  BY DEF PendingOf, NextIsOfEpoch, NothingLostInv, BarrierInv, TokensInEpoch
<1>3. /\ \A m \in Nodes : m # n => compute_nodes'[m] = compute_nodes[m]
      /\ compute_nodes'[n].next_index = k + 1
      /\ compute_nodes'[n].current_epoch = released_epoch
  BY <1>1, <1>2 DEF NodeStates, Advance
<1>4. \A m : OpenAt(m) \subseteq OpenAt(m)'
  BY <1>1, Referents DEF OpenAt, Unfinished, Stage, KeepsStages, KeepsRequests, RequestPathInv
<1>5. id \in OpenAt(n)'
  BY DEF OpenAt, Unfinished, Stage
<1>6. ASSUME NEW m \in Nodes, m # n, has_next(compute_nodes', m)
      PROVE  /\ released_epoch <= peek_next(compute_nodes', m).epoch_id
             /\ peek_next(compute_nodes', m).epoch_id = released_epoch => TokenAfter(after, m)
  <2>1. /\ has_next(compute_nodes, m)
        /\ peek_next(compute_nodes', m) = peek_next(compute_nodes, m)
    BY <1>3, <1>6 DEF has_next, peek_next
  <2>2. /\ released_epoch <= peek_next(compute_nodes, m).epoch_id
        /\ peek_next(compute_nodes, m).epoch_id = released_epoch => HasToken(m)
    BY <2>1 DEF NothingLostInv, NextIsDue
  <2>3. HasToken(m) => TokenAfter(after, m)
    BY <1>4, <1>6 DEF HasToken, TokenAfter, PendingOf
  <2> QED BY <2>1, <2>2, <2>3
<1>7. ASSUME has_next(compute_nodes', n)
      PROVE  /\ released_epoch <= peek_next(compute_nodes', n).epoch_id
             /\ peek_next(compute_nodes', n).epoch_id = released_epoch => TokenAfter(after, n)
  <2>1. /\ stream \in Seq(RequestSpec) /\ SortedByEpoch(stream) /\ k \in Nat
        /\ k + 2 \in 2 .. Len(stream)
    <3>1. stream \in Seq(RequestSpec) /\ SortedByEpoch(stream) /\ k \in Nat
      <4>1. stream \in Seq(RequestSpec)
        BY <1>1, StreamType
      <4>2. SortedByEpoch(stream)
        BY <1>1 DEF AcceptedConfig, validate_config
      <4>3. k \in Nat
        BY <1>1 DEF NodeStates, ComputeNodeState
      <4> QED BY <4>1, <4>2, <4>3
    <3>2. k + 1 < Len(stream)
      BY <1>3, <1>7 DEF has_next
    <3> QED BY <3>1, <3>2
  <2>2. /\ spec = stream[k + 1]
        /\ peek_next(compute_nodes', n) = stream[k + 2]
    <3> HIDE DEF k
    <3>1. peek_next(compute_nodes', n) = stream[(k + 1) + 1]
      BY <1>3 DEF peek_next
    <3>2. (k + 1) + 1 = k + 2
      BY <2>1
    <3> QED BY <3>1, <3>2 DEF peek_next, k
  <2>3. stream[k + 1].epoch_id <= stream[k + 2].epoch_id
    <3> HIDE DEF k
    <3>1. stream[(k + 2) - 1].epoch_id <= stream[k + 2].epoch_id
      BY <2>1 DEF SortedByEpoch
    <3>2. (k + 2) - 1 = k + 1
      BY <2>1
    <3> QED BY <3>1, <3>2
  <2>4. bursty /\ peek_next(compute_nodes', n).epoch_id = released_epoch => more
    BY <1>3, <1>7 DEF NextIsOfEpoch
  <2>5. peek_next(compute_nodes', n).epoch_id = released_epoch => TokenAfter(after, n)
    BY <1>5, <2>4 DEF TokenAfter
  <2> QED BY <1>2, <2>2, <2>3, <2>5
<1> QED BY <1>6, <1>7 DEF DueAfter

-----------------------------------------------------------------------------
(* Every step loses nothing *)

\* The hypothesis of this module: schedule refuses an event whose time wrapped
\* and its callers ignore that (run overflow), so nothing less will do.
Unwrapped == TimesFit /\ ArrivalsInOrder

\* A step of the run loop loses nothing.
LEMMA StepLosesNothing ==
  ASSUME NothingLostInv, BarrierInv', Unwrapped, NEW e \in sched.events, HandlerEffect(e),
         status = "running"
  PROVE  NothingLost' /\ ServicesArePending' /\ NextIsDue' /\ NothingToRelease'
<1>1. /\ RequestPathInv /\ SimulatorInv' /\ BarrierInv /\ TimesFit
      /\ AcceptedConfig(config) /\ released_epoch \in Int
  BY DEF NothingLostInv, BarrierInv, RequestPathInv, SimulatorInv, TypeOK, NoEpoch, Unwrapped
<1>2. ASSUME NEW new, Leaves(e, new), DueAfter((sched.events \ {e}) \cup new)
      PROVE  NextIsDue' /\ NothingToRelease'
  BY <1>1, <1>2, HandlerEnds, ReleaseKeepsDue
<1>3. CASE e.type = "GenerateRequest" /\ NothingToIssueEffect(e)
  <2>1. /\ Leaves(e, {}) /\ UNCHANGED <<config, channels, compute_nodes, request_table,
                                        next_request_id>>
        /\ ~has_next(compute_nodes, e.target_id)
    BY <1>3 DEF NothingToIssueEffect
  <2>2. NothingLost' /\ ServicesArePending'
    BY <1>1, <1>3, <2>1, QuietLosesNothing
  <2>3. Unfinished' = Unfinished /\ KeepsRequests
    BY <2>1, TableKept
  <2>4. DueAfter((sched.events \ {e}) \cup {})
    BY <2>1, <2>3, QuietKeepsDue
  <2> QED BY <1>2, <2>1, <2>2, <2>4
<1>4. CASE /\ \/ e.type = "LocalCacheLookup" /\ LookupEffect(e)
              \/ e.type = "ForwardToMemory" /\ ForwardEffect(e)
              \/ e.type = "MemoryServiceStart" /\ ServiceStartEffect(e)
              \/ e.type = "MemoryServiceComplete" /\ ServiceCompleteEffect(e)
  <2>1. NothingLost' /\ ServicesArePending'
    BY <1>1, <1>4, LookupLosesNothing, ForwardLosesNothing, ServiceStartLosesNothing,
       ServiceCompleteLosesNothing
  <2>2. QuietEffect(e)
    BY <1>1, <1>4, QuietHandlers
  <2>3. PICK new : Leaves(e, new)
    BY <2>2 DEF QuietEffect
  <2>4. config' = config /\ e.type \notin TokenTypes
    BY <1>4 DEF LookupEffect, ForwardEffect, ServiceStartEffect, ServiceCompleteEffect, TokenTypes
  <2>5. DueAfter((sched.events \ {e}) \cup new)
    BY <2>2, <2>4, QuietKeepsDue DEF QuietEffect
  <2> QED BY <1>2, <2>1, <2>3, <2>5
<1>5. CASE e.type \in {"LocalCacheHitComplete", "ReturnResponse"} /\ CompleteEffect(e)
  <2>1. NothingLost' /\ ServicesArePending'
    BY <1>1, <1>5, CompleteLosesNothing
  <2>2. PICK p : p.type = "RequestComplete" /\ p.target_id = e.target_id /\ Leaves(e, {p})
    BY <1>5 DEF CompleteEffect
  <2>3. DueAfter((sched.events \ {e}) \cup {p})
    BY <1>5, <2>2, CompleteKeepsDue
  <2> QED BY <1>2, <2>1, <2>2, <2>3
<1>6. CASE e.type = "RequestComplete" /\ RequestCompleteEffect(e)
  <2>1. PICK more : more = (~bursty /\ NextIsOfEpoch(compute_nodes, e.target_id,
                                         compute_nodes[e.target_id].current_epoch))
    OBVIOUS
  <2>2. PICK g : /\ g.type = "GenerateRequest" /\ g.target_id = e.target_id
                 /\ Leaves(e, IF more THEN {g} ELSE {})
    BY <1>6, <2>1 DEF RequestCompleteEffect
  <2> DEFINE new == IF more THEN {g} ELSE {}
  <2>3. DueAfter((sched.events \ {e}) \cup new) /\ Leaves(e, new)
    BY <1>6, <2>1, <2>2, HandOnKeepsDue
  <2> HIDE DEF new
  <2>4. UNCHANGED <<config, channels, request_table, next_request_id>>
    BY <1>6 DEF RequestCompleteEffect
  <2>5. NothingLost' /\ ServicesArePending'
    BY <1>1, <1>6, <2>3, <2>4, QuietLosesNothing
  <2> QED BY <1>2, <2>3, <2>5
<1>7. CASE e.type = "GenerateRequest" /\ has_next(compute_nodes, e.target_id) /\ IssueEffect(e)
  <2>1. NothingLost' /\ ServicesArePending'
    BY <1>1, <1>7, IssueLosesNothing
  <2>2. PICK n, spec : n \in Nodes /\ n = e.target_id /\ spec = peek_next(compute_nodes, n)
    BY <1>7 DEF IssueEffect
  <2>3. /\ compute_nodes' = [compute_nodes EXCEPT ![n] = Advance(@, spec, e.time)]
        /\ KeepsRequests /\ KeepsStages /\ config' = config
    BY <1>7, <2>2 DEF IssueEffect
  <2>4. PICK id, p, g, more :
          /\ Issued' = Issued \cup {id} /\ Stage(id)' = "Generated" /\ SourceOf(id)' = n
          /\ g.type = "GenerateRequest" /\ g.target_id = n
          /\ bursty /\ NextIsOfEpoch(compute_nodes', n, compute_nodes'[n].current_epoch)
               => more
          /\ Leaves(e, {p} \cup (IF more THEN {g} ELSE {}))
    <3>1. PICK ready \in BOOLEAN :
            ready = (bursty /\ NextIsOfEpoch(compute_nodes', n, compute_nodes'[n].current_epoch))
      BY Zenon DEF NextIsOfEpoch
    <3>2. PICK id \in Nat \ {0}, p, g \in Event, accepted \in BOOLEAN :
            /\ id \notin Issued /\ Issued' = Issued \cup {id}
            /\ Stage(id)' = "Generated" /\ SourceOf(id)' = n /\ EpochOf(id)' = spec.epoch_id
            /\ p.type = "LocalCacheLookup"
            /\ g.type = "GenerateRequest" /\ g.target_id = n
            /\ g.request_id = kInvalidRequestId
            /\ TimesFit /\ ArrivalsInOrder /\ ready => accepted
            /\ Leaves(e, {p} \cup (IF ready /\ accepted THEN {g} ELSE {}))
      BY <1>7, <2>2, <3>1, ZenonT(30) DEF IssueEffect
    <3>3. PICK both \in BOOLEAN : both = (ready /\ accepted)
      BY Zenon
    <3>4. Leaves(e, {p} \cup (IF both THEN {g} ELSE {}))
      BY <3>2, <3>3
    <3> QED BY <3>1, <3>2, <3>3, <3>4 DEF Unwrapped
  <2> DEFINE new == {p} \cup (IF more THEN {g} ELSE {})
  <2>5. DueAfter((sched.events \ {e}) \cup new)
    BY <1>7, <2>2, <2>3, <2>4, IssueKeepsDue
  <2>6. Leaves(e, new)
    BY <2>4
  <2> HIDE DEF new
  <2> QED BY <1>2, <2>1, <2>5, <2>6
<1> QED BY <1>3, <1>4, <1>5, <1>6, <1>7 DEF HandlerEffect

\* The constructor leaves nothing to lose, and run() has not begun.
LEMMA NothingLostInit == Init => NothingLostInv
<1> SUFFICES ASSUME Init PROVE NothingLostInv
  OBVIOUS
<1>1. BarrierInv /\ status = "constructed" /\ Issued = {}
      /\ channels = [c \in ChannelIds |-> NewChannel]
  BY BarrierInit DEF Init, Issued
<1> QED BY <1>1 DEF NothingLostInv, NothingLost, Unfinished, ServicesArePending, NewChannel,
           NextIsDue, NothingToRelease

\* The first release announces every request of the first epoch.
LEMMA RunLosesNothing ==
  ASSUME NothingLostInv, BarrierInv', Run
  PROVE  NothingLost' /\ ServicesArePending' /\ NextIsDue' /\ NothingToRelease'
<1>1. /\ UNCHANGED <<config, compute_nodes, channels, request_table, next_request_id>>
      /\ BarrierInv /\ RequestPathInv' /\ status = "constructed" /\ released_epoch = NoEpoch
  BY DEF Run, NothingLostInv, BarrierInv, NothingBeforeRun
<1>2. /\ Unfinished = {} /\ sched.events = {}
      /\ \/ sched' = sched /\ UnreleasedEpochs(compute_nodes') = {}
         \/ Releases /\ EachNextIsAnnounced
  BY <1>1, BarrierRun
<1>3. NothingLost'
  <2>1. Unfinished' = {}
    BY <1>1, <1>2, TableKept
  <2> QED BY <2>1 DEF NothingLost
<1>4. ServicesArePending'
  <2>1. PendingOf("MemoryServiceComplete") = {}
    BY <1>2 DEF PendingOf
  <2> QED BY <1>1, <2>1 DEF NothingLostInv, ServicesArePending, ChannelIds
<1>5. compute_nodes \in NodeStates /\ AcceptedConfig(config)
  BY Referents, <1>1 DEF BarrierInv, RequestPathInv, SimulatorInv, TypeOK
<1>6. ASSUME NEW n \in Nodes, has_next(compute_nodes, n)
      PROVE  peek_next(compute_nodes, n).epoch_id \in UnreleasedEpochs(compute_nodes)
  <2>1. peek_next(compute_nodes, n).epoch_id \in Nat
    BY <1>5, <1>6, PeekType DEF RequestSpec
  <2>2. \A g \in Nat : g > released_epoch
    BY <1>1 DEF NoEpoch
  <2> QED BY <1>6, <2>1, <2>2 DEF UnreleasedEpochs
<1>7. CASE sched' = sched /\ UnreleasedEpochs(compute_nodes') = {}
  <2>1. \A n \in Nodes : ~has_next(compute_nodes, n)
    BY <1>1, <1>6, <1>7
  <2>2. NextIsDue'
    BY <1>1, <2>1 DEF NextIsDue, has_next
  <2>3. NothingToRelease'
    BY <1>1, <2>1 DEF NothingToRelease, UnreleasedEpochs, has_next
  <2> QED BY <1>3, <1>4, <2>2, <2>3
<1>8. CASE Releases /\ EachNextIsAnnounced
  <2>1. \A n \in Nodes : has_next(compute_nodes, n) =>
          released_epoch' <= peek_next(compute_nodes, n).epoch_id
    BY <1>1, <1>6, <1>8 DEF Releases
  <2>2. \A n \in Nodes : NextIsOfEpoch(compute_nodes, n, released_epoch') =>
          \E f \in sched'.events : f.type = "GenerateRequest" /\ f.target_id = n
    BY <1>1, <1>8 DEF Releases, EachNextIsAnnounced
  <2>3. NextIsDue'
    <3> SUFFICES ASSUME NEW n \in Nodes, has_next(compute_nodes, n)'
                 PROVE  /\ released_epoch' <= peek_next(compute_nodes, n)'.epoch_id
                        /\ peek_next(compute_nodes, n)'.epoch_id = released_epoch'
                             => HasToken(n)'
      BY DEF NextIsDue
    <3>1. has_next(compute_nodes, n)
      BY <1>1 DEF has_next
    <3>2. peek_next(compute_nodes, n)' = peek_next(compute_nodes, n)
      BY <1>1 DEF peek_next
    <3> QED BY <2>1, <2>2, <3>1, <3>2 DEF NextIsOfEpoch, HasToken, PendingOf
  <2>4. NothingToRelease'
    <3>1. released_epoch' \in UnreleasedEpochs(compute_nodes)
      BY <1>1, <1>8 DEF Releases
    <3>2. \E n \in Nodes : NextIsOfEpoch(compute_nodes, n, released_epoch')
      BY <3>1 DEF UnreleasedEpochs, NextIsOfEpoch
    <3> QED BY <2>2, <3>2 DEF NothingToRelease
  <2> QED BY <1>3, <1>4, <2>3, <2>4
<1> QED BY <1>2, <1>7, <1>8

\* Every step keeps the invariant, while no time wraps.
LEMMA NothingLostNext == NothingLostInv /\ Unwrapped /\ [Next]_vars => NothingLostInv'
<1> SUFFICES ASSUME NothingLostInv, Unwrapped, [Next]_vars PROVE NothingLostInv'
  OBVIOUS
<1>1. BarrierInv'
  BY BarrierNext DEF NothingLostInv
<1>2. CASE Run
  BY <1>1, <1>2, RunLosesNothing DEF NothingLostInv
<1>3. ASSUME NEW e \in sched.events, MemoryStep(e) \/ ComputeStep(e)
      PROVE  NothingLostInv'
  <2>1. status = "running" /\ HandlerEffect(e)
    BY <1>3, StepHasEffect DEF NothingLostInv, BarrierInv
  <2> QED BY <1>1, <2>1, StepLosesNothing DEF NothingLostInv
<1>4. CASE UNCHANGED vars
  <2>1. UNCHANGED <<config, status, sched, compute_nodes, released_epoch, channels,
                    request_table, next_request_id>>
    BY <1>4 DEF vars
  <2>2. Issued' = Issued /\ Unfinished' = Unfinished
    BY <2>1, TableKept
  <2>3. NothingLost'
    BY <2>1, <2>2 DEF NothingLostInv, NothingLost, Held, Queued, PathEvents, QueueOf, ChannelIds
  <2>4. ServicesArePending'
    BY <2>1 DEF NothingLostInv, ServicesArePending, PendingOf, ChannelOf, channel_for, ChannelIds
  <2>5. NextIsDue'
    BY <2>1, <2>2 DEF NothingLostInv, NextIsDue, HasToken, PendingOf, OpenAt, SourceOf,
       has_next, peek_next, bursty
  <2>6. NothingToRelease'
    BY <2>1 DEF NothingLostInv, NothingToRelease, EveryNodeIdle, all_compute_nodes_idle,
       UnreleasedEpochs, has_next, peek_next
  <2> QED BY <1>1, <2>3, <2>4, <2>5, <2>6 DEF NothingLostInv
<1> QED BY <1>2, <1>3, <1>4 DEF Next, Finished

\* As long as no time wraps, nothing is lost in any reachable state.
LEMMA NothingLostInvariance == Spec /\ []Unwrapped => []NothingLostInv
BY NothingLostInit, NothingLostNext, PTL DEF Spec

-----------------------------------------------------------------------------
(* The run stops only when everything is done *)

\* A set of at most one element has cardinality 0 or 1.
LEMMA AtMostOne ==
  ASSUME NEW S, \A x, y \in S : x = y
  PROVE  Cardinality(S) = IF S = {} THEN 0 ELSE 1
<1>1. CASE S = {}
  BY <1>1, FS_EmptySet
<1>2. CASE S # {}
  <2>1. PICK x : S = {x}
    BY <1>2
  <2> QED BY <1>2, <2>1, FS_Singleton
<1> QED BY <1>1, <1>2

\* A channel queue is no longer than the requests are many.
LEMMA QueuePositionsFit ==
  ASSUME RequestPathInv, NEW c \in ChannelIds
  PROVE  Len(QueueOf(c)) <= Cardinality(Issued) /\ Len(QueueOf(c)) \in Nat
<1>1. QueueOf(c) \in Seq(Issued)
  BY Referents DEF RequestPathInv
<1>2. IsFiniteSet(Issued)
  BY FS_Interval DEF Issued, RequestPathInv, SimulatorInv, TypeOK
<1>3. PICK queue : queue = QueueOf(c)
  OBVIOUS
<1>4. queue \in Injection(1 .. Len(queue), Issued)
  <2>1. queue \in [1 .. Len(queue) -> Issued]
    BY <1>1, <1>3
  <2>2. \A i, j \in 1 .. Len(queue) : queue[i] = queue[j] => i = j
    BY <1>3 DEF RequestPathInv, QueuedAtMostOnce
  <2> QED BY <2>1, <2>2 DEF Injection, IsInjective
<1>5. Len(queue) \in Nat /\ IsFiniteSet(1 .. Len(queue))
        /\ Cardinality(1 .. Len(queue)) = Len(queue)
  <2>1. PICK k \in Nat : k = Len(queue)
    BY <1>1, <1>3
  <2>2. IsFiniteSet(1 .. k) /\ Cardinality(1 .. k) = k
    BY FS_Interval
  <2> QED BY <2>1, <2>2
<1> QED BY <1>2, <1>3, <1>4, <1>5, FS_Injection

\* Each request is in one place: by HeldAtMostOnce, QueuedAtMostOnce and
\* AnsweredWhenCompleted in no two, by NothingLost in at least one.
LEMMA OnePlace == NothingLostInv => RequestsAreInExactlyOnePlace
<1> SUFFICES ASSUME NothingLostInv, NEW id \in Issued
             PROVE  LET held == EventsFor(id)
                        queued == QueuePlaces(id)
                        stage == request_table[id].current_stage
                    IN /\ Cardinality(held) + Cardinality(queued)
                            + Cardinality(AnswersTo(id)) = 1
                       /\ AnswersTo(id) = {} <=> id \in Unfinished
                       /\ \A e \in held : e.type \in AwaitedEvents(stage)
                       /\ \A p \in queued : /\ p[1] = channel_for(request_table[id])
                                            /\ stage = "ForwardedToMemory"
  BY DEF RequestsAreInExactlyOnePlace
<1> DEFINE held == EventsFor(id)
           queued == QueuePlaces(id)
           answers == AnswersTo(id)
<1>1. /\ RequestPathInv /\ SimulatorInv /\ HeldAtMostOnce /\ QueuedAtMostOnce
      /\ AnsweredWhenCompleted /\ NothingLost /\ TokensInEpoch
  BY DEF NothingLostInv, BarrierInv, RequestPathInv
<1>2. \A f \in held : f \in PathEvents /\ f.request_id = id
  <2> SUFFICES ASSUME NEW f \in held
               PROVE  f.type \in PathTypes
    BY DEF EventsFor, PathEvents
  <2>1. f.type # "GenerateRequest"
    <3>1. f.type = "GenerateRequest" => f.request_id = kInvalidRequestId
      BY <1>1 DEF EventsFor, TokensInEpoch, PendingOf
    <3>2. id # kInvalidRequestId
      BY DEF Issued, kInvalidRequestId
    <3> QED BY <3>1, <3>2 DEF EventsFor
  <2>2. f.type \in EventType
    BY <1>1, Referents DEF EventsFor, Event
  <2> QED BY <2>1, <2>2 DEF EventsFor, EventType, ComputeEventTypes, MemoryEventTypes, PathTypes
<1>3. /\ \A f \in PathEvents : f.request_id = id => f \in held
      /\ \A f, g \in held : f = g
      /\ \A f \in held : f.type \in AwaitedEvents(Stage(id))
  BY <1>1, <1>2 DEF HeldAtMostOnce, EventsFor, PathEvents, PathTypes
<1>4. \A p \in queued : /\ p[1] \in ChannelIds /\ p[2] \in 1 .. Len(QueueOf(p[1]))
                        /\ p = <<p[1], p[2]>> /\ QueueOf(p[1])[p[2]] = id
  BY <1>1, QueuePositionsFit DEF QueuePlaces, QueueOf
<1>5. /\ \A p \in queued : p[1] = ChannelOf(id) /\ Stage(id) = "ForwardedToMemory"
      /\ \A p \in queued : \A f \in PathEvents : f.request_id # id
  BY <1>1, <1>4 DEF QueuedAtMostOnce
<1>6. \A p, q \in queued : p = q
  <2> SUFFICES ASSUME NEW p \in queued, NEW q \in queued
               PROVE  p[2] = q[2]
    BY <1>4, <1>5
  <2>1. p[1] = q[1]
    BY <1>5
  <2> QED BY <1>1, <1>4, <2>1 DEF QueuedAtMostOnce
<1>7. \A i, j \in answers : i = j
  BY <1>1 DEF AnsweredWhenCompleted, AnswersTo
<1>8. answers = {} <=> id \in Unfinished
  BY <1>1 DEF AnsweredWhenCompleted
<1>9. held # {} \/ queued # {} => id \in Unfinished
  <2>1. held # {} => Stage(id) # "Completed"
    BY <1>3 DEF AwaitedEvents
  <2>2. queued # {} => Stage(id) # "Completed"
    BY <1>5
  <2> QED BY <2>1, <2>2 DEF Unfinished, Stage
<1>10. id \in Unfinished => held # {} \/ queued # {}
  <2>1. Held(id) => held # {}
    BY <1>3 DEF Held
  <2>2. Queued(id) => queued # {}
    <3> SUFFICES ASSUME Queued(id) PROVE queued # {}
      OBVIOUS
    <3>1. PICK c, i : c \in ChannelIds /\ i \in 1 .. Len(QueueOf(c)) /\ QueueOf(c)[i] = id
      BY DEF Queued
    <3>2. i \in 1 .. Cardinality(Issued)
      <4>1. /\ Len(QueueOf(c)) <= Cardinality(Issued) /\ Len(QueueOf(c)) \in Nat
            /\ Cardinality(Issued) \in Nat
        <5>1. IsFiniteSet(Issued)
          BY <1>1, FS_Interval DEF Issued, SimulatorInv, TypeOK
        <5> QED BY <1>1, <3>1, <5>1, QueuePositionsFit, FS_CardinalityType
      <4> QED BY <3>1, <4>1
    <3>3. <<c, i>> \in queued
      BY <3>1, <3>2 DEF QueuePlaces, QueueOf
    <3> QED BY <3>3
  <2> QED BY <1>1, <2>1, <2>2 DEF NothingLost
<1>11. held = {} \/ queued = {}
  BY <1>2, <1>5
<1>12. /\ Cardinality(held) = (IF held = {} THEN 0 ELSE 1)
       /\ Cardinality(queued) = (IF queued = {} THEN 0 ELSE 1)
       /\ Cardinality(answers) = (IF answers = {} THEN 0 ELSE 1)
  BY <1>3, <1>6, <1>7, AtMostOne
<1>13. Cardinality(held) + Cardinality(queued) + Cardinality(answers) = 1
  <2> HIDE DEF held, queued, answers
  <2> QED BY <1>8, <1>9, <1>10, <1>11, <1>12
<1> QED BY <1>3, <1>5, <1>8, <1>13 DEF Stage, ChannelOf

\* Each flag is up for exactly one pending event, and a waiting channel has one.
LEMMA FlagsMatch == NothingLostInv => ChannelFlagsMatchEvents
<1> SUFFICES ASSUME NothingLostInv, NEW c \in ChannelIds
             PROVE  LET ch == channels[c]
                        starts == EventsOfChannel(c, "MemoryServiceStart")
                        completions == EventsOfChannel(c, "MemoryServiceComplete")
                    IN /\ Cardinality(starts) = IF ch.service_start_scheduled THEN 1 ELSE 0
                       /\ Cardinality(completions) = IF ch.service_in_progress THEN 1 ELSE 0
                       /\ ~(ch.service_start_scheduled /\ ch.service_in_progress)
                       /\ ch.queued_requests # <<>> =>
                            ch.service_start_scheduled \/ ch.service_in_progress
                       /\ \A e \in starts : /\ ch.queued_requests # <<>>
                                            /\ e.request_id = Head(ch.queued_requests)
  BY DEF ChannelFlagsMatchEvents
<1> DEFINE starts == EventsOfChannel(c, "MemoryServiceStart")
           completions == EventsOfChannel(c, "MemoryServiceComplete")
<1>1. StartsAreAnnounced /\ ServicesAreAnnounced /\ ServicesArePending
  BY DEF NothingLostInv, BarrierInv, RequestPathInv
<1>2. /\ \A f : f \in starts <=> f \in PendingOf("MemoryServiceStart")
                                   /\ ChannelOf(f.request_id) = c
      /\ \A f : f \in completions <=> f \in PendingOf("MemoryServiceComplete")
                                        /\ ChannelOf(f.request_id) = c
  BY DEF EventsOfChannel, PendingOf, ChannelOf
<1>3. /\ \A f, g \in starts : f = g
      /\ \A f, g \in completions : f = g
  BY <1>1, <1>2 DEF StartsAreAnnounced, ServicesAreAnnounced
<1>4. /\ starts # {} <=> channels[c].service_start_scheduled
      /\ completions # {} <=> channels[c].service_in_progress
  BY <1>1, <1>2 DEF StartsAreAnnounced, ServicesAreAnnounced, ServicesArePending
<1>5. /\ Cardinality(starts) = (IF starts = {} THEN 0 ELSE 1)
      /\ Cardinality(completions) = (IF completions = {} THEN 0 ELSE 1)
  BY <1>3, AtMostOne
<1>6. \A e \in starts : /\ channels[c].queued_requests # <<>>
                        /\ e.request_id = Head(channels[c].queued_requests)
  BY <1>1, <1>2 DEF StartsAreAnnounced
<1>7. /\ ~(channels[c].service_start_scheduled /\ channels[c].service_in_progress)
      /\ channels[c].queued_requests # <<>> =>
           channels[c].service_start_scheduled \/ channels[c].service_in_progress
  BY <1>1 DEF ServicesAreAnnounced, QueueOf
<1> HIDE DEF starts, completions
<1>8. /\ Cardinality(starts) = IF channels[c].service_start_scheduled THEN 1 ELSE 0
      /\ Cardinality(completions) = IF channels[c].service_in_progress THEN 1 ELSE 0
  BY <1>4, <1>5
<1> QED BY <1>6, <1>7, <1>8 DEF starts, completions

\* An empty queue means that nothing is left: a request that is not completed
\* would have an event pending, and so would a node with a next request.
LEMMA EmptyMeansDone == NothingLostInv => StopsOnlyWhenDone
<1> SUFFICES ASSUME NothingLostInv, status = "running", sched.events = {}
             PROVE  WorkloadDone
  BY DEF StopsOnlyWhenDone
<1>1. /\ RequestPathInv /\ ServicesAreAnnounced /\ StartsAreAnnounced
      /\ OutstandingCountsUnfinished
  BY DEF NothingLostInv, BarrierInv, RequestPathInv
<1>2. PathEvents = {} /\ \A type : PendingOf(type) = {}
  BY DEF PathEvents, PendingOf
<1>3. Unfinished = {}
  <2> SUFFICES ASSUME NEW id \in Unfinished PROVE FALSE
    OBVIOUS
  <2>1. Queued(id)
    BY <1>2 DEF NothingLostInv, NothingLost, Held
  <2>2. PICK c, i : c \in ChannelIds /\ i \in 1 .. Len(QueueOf(c))
    BY <2>1 DEF Queued
  <2>3. c \in ChannelIds /\ QueueOf(c) # <<>>
    BY <2>2
  <2>4. channels[c].service_start_scheduled \/ channels[c].service_in_progress
    BY <1>1, <2>3 DEF ServicesAreAnnounced
  <2> QED BY <1>1, <1>2, <2>3, <2>4 DEF StartsAreAnnounced, NothingLostInv, ServicesArePending
<1>4. EveryNodeIdle
  <2>1. \A n : {id \in Unfinished : request_table[id].source_node_id = n} = {}
    BY <1>3
  <2> QED BY <1>1, <2>1, FS_EmptySet
      DEF OutstandingCountsUnfinished, EveryNodeIdle, all_compute_nodes_idle
<1>5. UnreleasedEpochs(compute_nodes) = {}
  BY <1>4 DEF NothingLostInv, NothingToRelease
<1>6. \A n \in Nodes : ~HasToken(n)
  BY <1>2, <1>3 DEF HasToken, OpenAt
<1>7. ASSUME NEW n \in Nodes, has_next(compute_nodes, n)
      PROVE  FALSE
  <2> DEFINE g == peek_next(compute_nodes, n).epoch_id
  <2>1. released_epoch <= g /\ g # released_epoch
    BY <1>6, <1>7 DEF NothingLostInv, NextIsDue
  <2>2. g \in Nat /\ released_epoch \in Int
    <3>1. compute_nodes \in NodeStates /\ AcceptedConfig(config) /\ released_epoch \in Int
      BY <1>1, Referents DEF RequestPathInv, SimulatorInv, TypeOK, NoEpoch
    <3> QED BY <1>7, <3>1, PeekType DEF RequestSpec
  <2>3. g > released_epoch
    <3> HIDE DEF g
    <3> QED BY <2>1, <2>2
  <2>4. g \in UnreleasedEpochs(compute_nodes)
    BY <1>7, <2>2, <2>3 DEF UnreleasedEpochs
  <2> QED BY <1>5, <2>4
<1> QED BY <1>3, <1>7 DEF WorkloadDone

\* No request is lost, duplicated or answered twice: architecture invariant 3,
\* as long as no event time wraps.
THEOREM RequestsAreKept == Spec /\ []Unwrapped => []RequestsAreInExactlyOnePlace
BY NothingLostInvariance, OnePlace, PTL

\* The flags of a memory channel tell the truth about the event queue.
THEOREM FlagsAreTrue == Spec /\ []Unwrapped => []ChannelFlagsMatchEvents
BY NothingLostInvariance, FlagsMatch, PTL

\* run() returns only when every configured request is issued and completed.
THEOREM RunEndsDone == Spec /\ []Unwrapped => []StopsOnlyWhenDone
BY NothingLostInvariance, EmptyMeansDone, PTL

-----------------------------------------------------------------------------
(* The state of the service *)

StreamEpochs == [n \in Nodes |-> [i \in DOMAIN config.compute_nodes[n] |->
                                    config.compute_nodes[n][i].epoch_id]]
Drawn == [n \in Nodes |-> compute_nodes[n].next_index]
OpenPlaces == {PlaceInStream(id) : id \in Unfinished}

\* The requests of node n.
IssuedBy(n) == {id \in Issued : SourceOf(id) = n}

\* The cursor of a node stands after the requests it has drawn.
CursorsCountRequests ==
  \A n \in Nodes : compute_nodes[n].next_index = Cardinality(IssuedBy(n))

ServiceInv == NothingLostInv /\ CursorsCountRequests

\* A request of the stream as a sequence, and as the service sees it.
LEMMA EpochsOfStream ==
  ASSUME NEW stream \in Seq(RequestSpec)
  PROVE  /\ Len([i \in DOMAIN stream |-> stream[i].epoch_id]) = Len(stream)
         /\ \A i \in 1 .. Len(stream) :
              [j \in DOMAIN stream |-> stream[j].epoch_id][i] = stream[i].epoch_id
OBVIOUS

\* What waits for the service is the epoch of each next request.
LEMMA NextEpochsAre ==
  ASSUME AcceptedConfig(config), compute_nodes \in NodeStates
  PROVE  Service!NextEpochs = {peek_next(compute_nodes, n).epoch_id :
                                 n \in {m \in Nodes : has_next(compute_nodes, m)}}
<1>1. \A n \in Nodes : /\ config.compute_nodes[n] \in Seq(RequestSpec)
                       /\ compute_nodes[n].next_index \in Nat
  BY StreamType DEF NodeStates, ComputeNodeState
<1>2. \A n \in Nodes : /\ Len(StreamEpochs[n]) = Len(config.compute_nodes[n])
                       /\ \A i \in 1 .. Len(config.compute_nodes[n]) :
                            StreamEpochs[n][i] = config.compute_nodes[n][i].epoch_id
  BY <1>1, EpochsOfStream DEF StreamEpochs
<1>3. \A n \in Nodes :
        /\ has_next(compute_nodes, n) <=> Drawn[n] < Len(StreamEpochs[n])
        /\ has_next(compute_nodes, n) =>
             StreamEpochs[n][Drawn[n] + 1] = peek_next(compute_nodes, n).epoch_id
  <2> SUFFICES ASSUME NEW n \in Nodes
               PROVE  /\ has_next(compute_nodes, n) <=> Drawn[n] < Len(StreamEpochs[n])
                      /\ has_next(compute_nodes, n) =>
                           StreamEpochs[n][Drawn[n] + 1] = peek_next(compute_nodes, n).epoch_id
    OBVIOUS
  <2>1. /\ Drawn[n] = compute_nodes[n].next_index /\ Drawn[n] \in Nat
        /\ Len(StreamEpochs[n]) = Len(config.compute_nodes[n])
    BY <1>1, <1>2 DEF Drawn
  <2>2. has_next(compute_nodes, n) <=> Drawn[n] < Len(StreamEpochs[n])
    BY <2>1 DEF has_next
  <2>3. ASSUME has_next(compute_nodes, n)
        PROVE  StreamEpochs[n][Drawn[n] + 1] = peek_next(compute_nodes, n).epoch_id
    <3>1. Drawn[n] + 1 \in 1 .. Len(config.compute_nodes[n])
      BY <1>1, <2>1, <2>2, <2>3
    <3> QED BY <1>2, <2>1, <3>1 DEF peek_next
  <2> QED BY <2>2, <2>3
<1>4. Service!NextEpochs = {StreamEpochs[n][Drawn[n] + 1] :
                              n \in {m \in Nodes : Drawn[m] < Len(StreamEpochs[m])}}
  BY DEF Service!NextEpochs, Service!Owners, StreamEpochs, Drawn
<1> QED BY <1>3, <1>4

-----------------------------------------------------------------------------
(* The places of the requests *)

\* The requests up to id of the node of id.
UpTo(id) == {j \in 1 .. id : SourceOf(j) = SourceOf(id)}

\* A request counts itself, and no two requests have one place.
LEMMA PlacesDiffer ==
  ASSUME NEW i \in Issued, NEW j \in Issued, PlaceInStream(i) = PlaceInStream(j)
  PROVE  i = j
<1>1. i \in Nat \ {0} /\ j \in Nat \ {0}
  BY DEF Issued
<1>2. /\ PlaceInStream(i) = <<SourceOf(i), Cardinality(UpTo(i))>>
      /\ PlaceInStream(j) = <<SourceOf(j), Cardinality(UpTo(j))>>
  BY DEF PlaceInStream, UpTo, SourceOf
<1>3. SourceOf(i) = SourceOf(j) /\ Cardinality(UpTo(i)) = Cardinality(UpTo(j))
  <2>1. <<SourceOf(i), Cardinality(UpTo(i))>> = <<SourceOf(j), Cardinality(UpTo(j))>>
    BY <1>2
  <2> QED BY <2>1
<1>4. IsFiniteSet(UpTo(i)) /\ IsFiniteSet(UpTo(j))
  BY <1>1, FS_Interval, FS_Subset DEF UpTo
<1>5. i \in UpTo(i) /\ j \in UpTo(j)
  BY <1>1 DEF UpTo
<1>6. CASE i < j
  <2>1. UpTo(i) \subseteq UpTo(j) /\ j \notin UpTo(i)
    BY <1>1, <1>3, <1>6 DEF UpTo
  <2> QED BY <1>3, <1>4, <1>5, <2>1, FS_Subset
<1>7. CASE j < i
  <2>1. UpTo(j) \subseteq UpTo(i) /\ i \notin UpTo(j)
    BY <1>1, <1>3, <1>7 DEF UpTo
  <2> QED BY <1>3, <1>4, <1>5, <2>1, FS_Subset
<1> QED BY <1>1, <1>6, <1>7

\* A request keeps its place.
LEMMA PlacesKept ==
  ASSUME SimulatorInv, KeepsRequests, NEW id \in Issued
  PROVE  PlaceInStream(id)' = PlaceInStream(id)
<1>1. id \in Nat /\ 1 .. id \subseteq Issued
  BY DEF Issued, SimulatorInv, TypeOK
<1>2. \A j \in 1 .. id : SourceOf(j)' = SourceOf(j)
  BY <1>1 DEF KeepsRequests
<1>3. SourceOf(id)' = SourceOf(id)
  BY DEF KeepsRequests
<1>4. UpTo(id)' = UpTo(id)
  BY <1>2, <1>3 DEF UpTo
<1> QED BY <1>3, <1>4 DEF PlaceInStream, UpTo, SourceOf

-----------------------------------------------------------------------------
(* Every step is a step of the service, or none *)

ServiceStep == Service!ServiceNext \/ UNCHANGED Service!serviceVars

\* A step that moves nothing the service sees.
LEMMA ServiceStands ==
  ASSUME UNCHANGED <<config, released_epoch>>, Drawn' = Drawn, OpenPlaces' = OpenPlaces
  PROVE  UNCHANGED Service!serviceVars
BY DEF Service!serviceVars, Drawn, OpenPlaces

\* The open places stand when the unfinished requests do.
LEMMA OpenPlacesKept ==
  ASSUME SimulatorInv, KeepsRequests, Unfinished' = Unfinished
  PROVE  OpenPlaces' = OpenPlaces
<1>1. \A id \in Unfinished : PlaceInStream(id)' = PlaceInStream(id)
  BY PlacesKept DEF Unfinished
<1> QED BY <1>1 DEF OpenPlaces

\* Cursors that stand have drawn as much.
LEMMA DrawnKept == KeepsCursors => Drawn' = Drawn
BY DEF KeepsCursors, Drawn

\* A release opens the least epoch that waits, when nothing is open and all that
\* waits is of later epochs than the present one.
LEMMA ReleaseOpens ==
  ASSUME RequestPathInv, Releases, KeepsCursors, Unfinished = {}, Unfinished' = {},
         \A n \in Nodes : has_next(compute_nodes', n) =>
           peek_next(compute_nodes', n).epoch_id \in UnreleasedEpochs(compute_nodes')
  PROVE  Service!OpenNextEpoch
<1>1. compute_nodes \in NodeStates /\ AcceptedConfig(config) /\ released_epoch \in Int
  BY Referents DEF RequestPathInv, SimulatorInv, TypeOK, NoEpoch
<1>2. \A n \in Nodes : /\ has_next(compute_nodes', n) <=> has_next(compute_nodes, n)
                       /\ peek_next(compute_nodes', n) = peek_next(compute_nodes, n)
  BY DEF KeepsCursors, has_next, peek_next
<1>3. Service!NextEpochs = {peek_next(compute_nodes, n).epoch_id :
                              n \in {m \in Nodes : has_next(compute_nodes, m)}}
  BY <1>1, NextEpochsAre
<1>4. /\ released_epoch' \in UnreleasedEpochs(compute_nodes')
      /\ \A g \in UnreleasedEpochs(compute_nodes') : released_epoch' <= g
      /\ config' = config
  BY DEF Releases
<1>5. released_epoch' \in Service!NextEpochs
  BY <1>2, <1>3, <1>4 DEF UnreleasedEpochs
<1>6. \A f \in Service!NextEpochs : f \in UnreleasedEpochs(compute_nodes')
  BY <1>2, <1>3
<1>7. \A f \in Service!NextEpochs : released_epoch < f /\ released_epoch' <= f
  BY <1>4, <1>6 DEF UnreleasedEpochs
<1>8. OpenPlaces = {} /\ OpenPlaces' = {} /\ Drawn' = Drawn
  BY DrawnKept DEF OpenPlaces
<1> QED BY <1>4, <1>5, <1>7, <1>8 DEF Service!OpenNextEpoch, OpenPlaces, Drawn

\* A handler that draws and completes nothing: if the release check after it
\* opens an epoch, so does the service.
LEMMA HandlerOpensOrStands ==
  ASSUME NothingLostInv, BarrierInv', NEW e \in sched.events, NEW new, Leaves(e, new),
         KeepsRequests, KeepsCursors, Unfinished' = Unfinished,
         DueAfter((sched.events \ {e}) \cup new)
  PROVE  ServiceStep
<1>1. /\ RequestPathInv /\ SimulatorInv /\ SimulatorInv' /\ RequestPathInv'
      /\ AcceptedConfig(config) /\ released_epoch \in Int
  BY DEF NothingLostInv, BarrierInv, RequestPathInv, SimulatorInv, TypeOK, NoEpoch
<1>2. CASE GoesOn(e, new)
  <2>1. UNCHANGED <<config, released_epoch>>
    BY <1>2 DEF GoesOn
  <2> QED BY <1>1, <2>1, ServiceStands, OpenPlacesKept, DrawnKept DEF ServiceStep
<1>3. CASE Releases /\ (sched.events \ {e}) \cup new = {}
  <2>1. DueAfter({})
    BY <1>3 DEF DueAfter, TokenAfter
  <2>2. \A n \in Nodes : has_next(compute_nodes', n) =>
          peek_next(compute_nodes', n).epoch_id \in UnreleasedEpochs(compute_nodes')
    BY <1>1, <1>3, <2>1, NextIsUnreleased
  <2>3. EveryNodeIdle'
    BY <1>3 DEF Releases, EveryNodeIdle, all_compute_nodes_idle
  <2>4. Unfinished' = {}
    BY <1>1, <2>3, IdleMeansDoneNext
  <2> QED BY <1>1, <1>3, <2>2, <2>4, ReleaseOpens DEF ServiceStep, Service!ServiceNext
<1> QED BY <1>1, <1>2, <1>3, HandlerEnds

\* A completion closes one place.
LEMMA CompletionCloses ==
  ASSUME NothingLostInv, SimulatorInv', NEW e \in sched.events,
         e.type \in {"LocalCacheHitComplete", "ReturnResponse"}, CompleteEffect(e)
  PROVE  ServiceStep
<1> DEFINE id == e.request_id
           n == e.target_id
<1>1. RequestPathInv /\ SimulatorInv /\ compute_nodes \in NodeStates
  BY Referents DEF NothingLostInv, BarrierInv, RequestPathInv
<1>2. /\ Issued' = Issued /\ KeepsRequests /\ Reaches(id, "Completed") /\ n \in Nodes
      /\ compute_nodes' = [compute_nodes EXCEPT ![n].outstanding_requests = @ - 1]
  BY DEF CompleteEffect
<1>3. UNCHANGED <<config, released_epoch>>
  <2>1. PICK p : Leaves(e, {p})
    BY DEF CompleteEffect
  <2>2. (sched.events \ {e}) \cup {p} # {}
    OBVIOUS
  <2> QED BY <1>1, <2>1, <2>2, HandlerEnds DEF GoesOn
<1>4. id \in Unfinished
  <2>1. e.type \in PathTypes
    BY DEF PathTypes
  <2> QED BY <1>1, <2>1, HeldByAlone
<1>5. Unfinished' = Unfinished \ {id}
  BY <1>2, <1>4 DEF Unfinished, Reaches, Stage
<1> HIDE DEF id, n
<1>6. OpenPlaces' = OpenPlaces \ {PlaceInStream(id)}
  <2>1. \A i \in Unfinished : /\ PlaceInStream(i)' = PlaceInStream(i)
                              /\ PlaceInStream(i) = PlaceInStream(id) => i = id
    BY <1>1, <1>2, <1>4, PlacesKept, PlacesDiffer DEF Unfinished
  <2> QED BY <1>4, <1>5, <2>1 DEF OpenPlaces
<1>7. Drawn' = Drawn
  <2>1. KeepsCursors
    BY <1>1, <1>2 DEF KeepsCursors, NodeStates, ComputeNodeState
  <2> QED BY <2>1, DrawnKept
<1>8. PlaceInStream(id) \in OpenPlaces
  BY <1>4 DEF OpenPlaces
<1> DEFINE q == PlaceInStream(id)
<1> HIDE DEF q
<1>9. q \in OpenPlaces /\ OpenPlaces' = OpenPlaces \ {q}
  BY <1>6, <1>8 DEF q
<1>10. Service!CompleteOne(q)
  BY <1>3, <1>7, <1>9 DEF Service!CompleteOne, OpenPlaces, Drawn
<1> QED BY <1>9, <1>10 DEF ServiceStep, Service!ServiceNext, OpenPlaces

\* Drawing a request moves the cursor by one, to the place of that request.
LEMMA DrawnIsPlaced ==
  ASSUME RequestPathInv, CursorsCountRequests, NEW n \in Nodes, NEW spec, NEW time,
         compute_nodes' = [compute_nodes EXCEPT ![n] = Advance(@, spec, time)],
         KeepsRequests, NEW id \in Nat, id = next_request_id,
         Issued' = Issued \cup {id}, SourceOf(id)' = n
  PROVE  /\ CursorsCountRequests'
         /\ PlaceInStream(id)' = <<n, compute_nodes[n].next_index + 1>>
         /\ Drawn' = [Drawn EXCEPT ![n] = @ + 1]
<1>1. compute_nodes \in NodeStates
  BY Referents DEF RequestPathInv
<1>2. Issued = 1 .. id - 1 /\ id \notin Issued /\ Issued \cup {id} = 1 .. id
  BY DEF Issued, RequestPathInv, SimulatorInv, TypeOK
<1>3. /\ \A m \in Nodes : m # n => IssuedBy(m)' = IssuedBy(m)
      /\ IssuedBy(n)' = IssuedBy(n) \cup {id}
  BY <1>2 DEF IssuedBy, KeepsRequests
<1>4. IsFiniteSet(IssuedBy(n)) /\ id \notin IssuedBy(n)
  <2>1. IsFiniteSet(1 .. id - 1)
    BY FS_Interval
  <2> QED BY <1>2, <2>1, FS_Subset DEF IssuedBy
<1>5. Cardinality(IssuedBy(n) \cup {id}) = Cardinality(IssuedBy(n)) + 1
  BY <1>4, FS_AddElement
<1>6. /\ \A m \in Nodes : m # n => compute_nodes'[m] = compute_nodes[m]
      /\ compute_nodes'[n].next_index = compute_nodes[n].next_index + 1
  BY <1>1 DEF NodeStates, Advance
<1>7. CursorsCountRequests'
  <2>1. \A m \in Nodes : m # n => Cardinality(IssuedBy(m))' = Cardinality(IssuedBy(m))
    BY <1>3
  <2>2. Cardinality(IssuedBy(n))' = Cardinality(IssuedBy(n)) + 1
    BY <1>3, <1>5
  <2> QED BY <1>6, <2>1, <2>2 DEF CursorsCountRequests
<1>8. UpTo(id)' = IssuedBy(n) \cup {id}
  <2>1. \A j \in Issued : SourceOf(j)' = SourceOf(j)
    BY DEF KeepsRequests
  <2>2. UpTo(id)' = {j \in Issued \cup {id} : SourceOf(j)' = n}
    BY <1>2 DEF UpTo
  <2> QED BY <2>1, <2>2 DEF IssuedBy
<1>9. PlaceInStream(id)' = <<n, Cardinality(UpTo(id))'>>
  BY DEF PlaceInStream, UpTo, SourceOf
<1>10. Cardinality(UpTo(id))' = compute_nodes[n].next_index + 1
  BY <1>5, <1>8 DEF CursorsCountRequests
<1>11. Drawn' = [Drawn EXCEPT ![n] = @ + 1]
  <2>1. \A m \in Nodes : Drawn'[m] = IF m = n THEN Drawn[m] + 1 ELSE Drawn[m]
    BY <1>6 DEF Drawn
  <2> QED BY <2>1 DEF Drawn
<1> QED BY <1>7, <1>9, <1>10, <1>11

\* A GenerateRequest that finds a request issues it, in the open epoch.
LEMMA IssueServes ==
  ASSUME ServiceInv, SimulatorInv', NEW e \in sched.events, e.type = "GenerateRequest",
         has_next(compute_nodes, e.target_id), IssueEffect(e)
  PROVE  ServiceStep /\ CursorsCountRequests'
<1>1. /\ RequestPathInv /\ SimulatorInv /\ TokensInEpoch /\ AcceptedConfig(config)
      /\ compute_nodes \in NodeStates
  BY Referents
     DEF ServiceInv, NothingLostInv, BarrierInv, RequestPathInv, SimulatorInv, TypeOK
<1>2. PICK n, spec : n \in Nodes /\ n = e.target_id /\ spec = peek_next(compute_nodes, n)
  BY DEF IssueEffect
<1>3. /\ compute_nodes' = [compute_nodes EXCEPT ![n] = Advance(@, spec, e.time)]
      /\ KeepsRequests /\ KeepsStages /\ config' = config
  BY <1>2 DEF IssueEffect
<1>4. PICK more : more = (bursty /\ NextIsOfEpoch(compute_nodes', n,
                                                  compute_nodes'[n].current_epoch))
  OBVIOUS
<1>5. PICK id, p, new :
        /\ id \in Nat /\ id = next_request_id
        /\ Issued' = Issued \cup {id} /\ Stage(id)' = "Generated" /\ SourceOf(id)' = n
        /\ p \in new /\ Leaves(e, new)
  <2>1. PICK id \in Nat \ {0}, p \in Event, g \in Event, accepted \in BOOLEAN :
          /\ id = next_request_id
          /\ Issued' = Issued \cup {id} /\ Stage(id)' = "Generated" /\ SourceOf(id)' = n
          /\ Leaves(e, {p} \cup (IF more /\ accepted THEN {g} ELSE {}))
    BY <1>2, <1>4 DEF IssueEffect
  <2> DEFINE new == {p} \cup (IF more /\ accepted THEN {g} ELSE {})
  <2>2. p \in new /\ Leaves(e, new)
    BY <2>1
  <2> HIDE DEF new
  <2> QED BY <2>1, <2>2
<1>6. UNCHANGED <<config, released_epoch>>
  <2>1. (sched.events \ {e}) \cup new # {}
    BY <1>5
  <2> QED BY <1>1, <1>5, <2>1, HandlerEnds DEF GoesOn
<1> DEFINE place == <<n, Drawn[n] + 1>>
<1>7. /\ CursorsCountRequests'
      /\ PlaceInStream(id)' = place
      /\ Drawn' = [Drawn EXCEPT ![n] = @ + 1]
  <2>1. Drawn[n] = compute_nodes[n].next_index
    BY <1>2 DEF Drawn
  <2> QED BY <1>1, <1>2, <1>3, <1>5, <2>1, DrawnIsPlaced DEF ServiceInv
<1> HIDE DEF place
<1>8. OpenPlaces' = OpenPlaces \cup {place}
  <2>1. id \notin Issued
    BY <1>1, <1>5 DEF Issued, SimulatorInv, TypeOK
  <2>2. Unfinished' = Unfinished \cup {id}
    BY <1>3, <1>5, <2>1 DEF Unfinished, KeepsStages, Stage
  <2>3. \A i \in Unfinished : PlaceInStream(i)' = PlaceInStream(i)
    BY <1>1, <1>3, PlacesKept DEF Unfinished
  <2> QED BY <1>7, <2>2, <2>3 DEF OpenPlaces
<1>9. Drawn[n] < Len(StreamEpochs[n]) /\ StreamEpochs[n][Drawn[n] + 1] = released_epoch
  <2>1. spec.epoch_id = released_epoch
    BY <1>1, <1>2 DEF PendingOf, NextIsOfEpoch, TokensInEpoch
  <2>2. PICK k, stream : k = Drawn[n] /\ stream = config.compute_nodes[n]
    OBVIOUS
  <2>3. /\ k = compute_nodes[n].next_index /\ k \in Nat
        /\ stream \in Seq(RequestSpec)
        /\ StreamEpochs[n] = [i \in DOMAIN stream |-> stream[i].epoch_id]
    BY <1>1, <1>2, <2>2, StreamType DEF Drawn, NodeStates, ComputeNodeState, StreamEpochs
  <2>4. k < Len(stream) /\ spec = stream[k + 1]
    BY <1>2, <2>2, <2>3 DEF has_next, peek_next
  <2>5. k + 1 \in 1 .. Len(stream)
    BY <2>3, <2>4
  <2> QED BY <2>1, <2>2, <2>3, <2>4, <2>5, EpochsOfStream
<1>10. Service!Issue(n)
  BY <1>6, <1>7, <1>8, <1>9
     DEF Service!Issue, OpenPlaces, Drawn, StreamEpochs, place
<1>11. n \in Service!Owners
  BY <1>2 DEF Service!Owners
<1> QED BY <1>7, <1>10, <1>11 DEF ServiceStep, Service!ServiceNext

\* Handlers that issue nothing leave the cursors and the requests of each node.
LEMMA CursorsKept ==
  ASSUME CursorsCountRequests, KeepsRequests, KeepsCursors, Issued' = Issued
  PROVE  CursorsCountRequests'
<1>1. \A n : IssuedBy(n)' = IssuedBy(n)
  BY DEF IssuedBy, KeepsRequests
<1> QED BY <1>1 DEF CursorsCountRequests, KeepsCursors

\* One iteration of the run loop is one step of the service, or none.
LEMMA HandlerServes ==
  ASSUME ServiceInv, BarrierInv', NEW e \in sched.events, HandlerEffect(e),
         status = "running"
  PROVE  ServiceStep /\ CursorsCountRequests'
<1>1. /\ NothingLostInv /\ CursorsCountRequests /\ BarrierInv /\ RequestPathInv
      /\ SimulatorInv' /\ compute_nodes \in NodeStates
  BY Referents DEF ServiceInv, NothingLostInv, BarrierInv, RequestPathInv
<1>2. ASSUME KeepsRequests, Issued' = Issued, Unfinished' = Unfinished, KeepsCursors,
             NEW new, Leaves(e, new), DueAfter((sched.events \ {e}) \cup new)
      PROVE  ServiceStep /\ CursorsCountRequests'
  BY <1>1, <1>2, HandlerOpensOrStands, CursorsKept
<1>3. UNCHANGED compute_nodes => KeepsCursors
  BY DEF KeepsCursors
<1>4. CASE e.type = "GenerateRequest" /\ NothingToIssueEffect(e)
  <2>1. /\ Leaves(e, {}) /\ ~has_next(compute_nodes, e.target_id)
        /\ UNCHANGED <<config, compute_nodes, request_table, next_request_id>>
    BY <1>4 DEF NothingToIssueEffect
  <2>2. Issued' = Issued /\ Unfinished' = Unfinished /\ KeepsRequests
    BY <2>1, TableKept
  <2>3. DueAfter((sched.events \ {e}) \cup {})
    BY <1>1, <2>1, <2>2, QuietKeepsDue
  <2> QED BY <1>2, <1>3, <2>1, <2>2, <2>3
<1>5. CASE /\ \/ e.type = "LocalCacheLookup" /\ LookupEffect(e)
              \/ e.type = "ForwardToMemory" /\ ForwardEffect(e)
              \/ e.type = "MemoryServiceStart" /\ ServiceStartEffect(e)
              \/ e.type = "MemoryServiceComplete" /\ ServiceCompleteEffect(e)
  <2>1. QuietEffect(e)
    BY <1>1, <1>5, QuietHandlers
  <2>2. PICK new : Leaves(e, new)
    BY <2>1 DEF QuietEffect
  <2>3. config' = config /\ Issued' = Issued /\ e.type \notin TokenTypes
    BY <1>5 DEF LookupEffect, ForwardEffect, ServiceStartEffect, ServiceCompleteEffect,
       TokenTypes
  <2>4. KeepsRequests /\ Unfinished' = Unfinished /\ UNCHANGED compute_nodes
    BY <2>1 DEF QuietEffect
  <2>5. DueAfter((sched.events \ {e}) \cup new)
    BY <1>1, <2>3, <2>4, QuietKeepsDue
  <2> QED BY <1>2, <1>3, <2>2, <2>3, <2>4, <2>5
<1>6. CASE e.type \in {"LocalCacheHitComplete", "ReturnResponse"} /\ CompleteEffect(e)
  <2>1. Issued' = Issued /\ KeepsRequests /\ KeepsCursors
    <3>1. compute_nodes' = [compute_nodes EXCEPT ![e.target_id].outstanding_requests = @ - 1]
      BY <1>6 DEF CompleteEffect
    <3>2. KeepsCursors
      BY <1>1, <3>1 DEF KeepsCursors, NodeStates, ComputeNodeState
    <3> QED BY <1>6, <3>2 DEF CompleteEffect
  <2> QED BY <1>1, <1>6, <2>1, CompletionCloses, CursorsKept
<1>7. CASE e.type = "RequestComplete" /\ RequestCompleteEffect(e)
  <2>1. PICK more : more = (~bursty /\ NextIsOfEpoch(compute_nodes, e.target_id,
                                         compute_nodes[e.target_id].current_epoch))
    OBVIOUS
  <2>2. PICK g : /\ g.type = "GenerateRequest" /\ g.target_id = e.target_id
                 /\ Leaves(e, IF more THEN {g} ELSE {})
    BY <1>7, <2>1 DEF RequestCompleteEffect
  <2> DEFINE new == IF more THEN {g} ELSE {}
  <2>3. DueAfter((sched.events \ {e}) \cup new) /\ Leaves(e, new)
    BY <1>1, <1>7, <2>1, <2>2, HandOnKeepsDue
  <2> HIDE DEF new
  <2>4. UNCHANGED <<config, compute_nodes, request_table, next_request_id>>
    BY <1>7 DEF RequestCompleteEffect
  <2>5. Issued' = Issued /\ Unfinished' = Unfinished /\ KeepsRequests
    BY <2>4, TableKept
  <2> QED BY <1>2, <1>3, <2>3, <2>4, <2>5
<1>8. CASE e.type = "GenerateRequest" /\ has_next(compute_nodes, e.target_id) /\ IssueEffect(e)
  BY <1>1, <1>8, IssueServes
<1> QED BY <1>4, <1>5, <1>6, <1>7, <1>8 DEF HandlerEffect

\* The first release is the first opening.
LEMMA RunServes ==
  ASSUME ServiceInv, BarrierInv', Run
  PROVE  ServiceStep /\ CursorsCountRequests'
<1>1. /\ UNCHANGED <<config, compute_nodes, request_table, next_request_id>>
      /\ BarrierInv /\ RequestPathInv /\ SimulatorInv /\ RequestPathInv'
      /\ CursorsCountRequests /\ status = "constructed" /\ released_epoch = NoEpoch
  BY DEF Run, ServiceInv, NothingLostInv, BarrierInv, RequestPathInv, NothingBeforeRun
<1>2. /\ Unfinished = {}
      /\ \/ sched' = sched /\ released_epoch' = released_epoch
         \/ Releases
  BY <1>1, BarrierRun
<1>3. Issued' = Issued /\ Unfinished' = Unfinished /\ KeepsRequests /\ KeepsCursors
  BY <1>1, TableKept DEF KeepsCursors
<1>4. CursorsCountRequests'
  BY <1>1, <1>3, CursorsKept
<1>5. CASE released_epoch' = released_epoch
  BY <1>1, <1>3, <1>4, <1>5, ServiceStands, OpenPlacesKept, DrawnKept DEF ServiceStep
<1>6. CASE Releases
  <2>1. ASSUME NEW n \in Nodes, has_next(compute_nodes', n)
        PROVE  peek_next(compute_nodes', n).epoch_id \in UnreleasedEpochs(compute_nodes')
    <3>1. compute_nodes' \in NodeStates /\ AcceptedConfig(config)
      BY <1>1, Referents DEF RequestPathInv, SimulatorInv, TypeOK
    <3>2. peek_next(compute_nodes', n).epoch_id \in Nat
      BY <2>1, <3>1, PeekType DEF RequestSpec
    <3>3. \A g \in Nat : g > released_epoch
      BY <1>1 DEF NoEpoch
    <3> QED BY <2>1, <3>2, <3>3 DEF UnreleasedEpochs
  <2>2. Service!OpenNextEpoch
    BY <1>1, <1>2, <1>3, <1>6, <2>1, ReleaseOpens
  <2> QED BY <1>4, <2>2 DEF ServiceStep, Service!ServiceNext
<1> QED BY <1>2, <1>4, <1>5, <1>6

\* Every step keeps the invariant and is a step of the service or none.
LEMMA StepServes ==
  ServiceInv /\ Unwrapped /\ [Next]_vars => ServiceInv' /\ ServiceStep
<1> SUFFICES ASSUME ServiceInv, Unwrapped, [Next]_vars PROVE ServiceInv' /\ ServiceStep
  OBVIOUS
<1>1. NothingLostInv' /\ BarrierInv'
  BY NothingLostNext DEF ServiceInv, NothingLostInv
<1>2. CASE Run
  BY <1>1, <1>2, RunServes DEF ServiceInv
<1>3. ASSUME NEW e \in sched.events, MemoryStep(e) \/ ComputeStep(e)
      PROVE  ServiceInv' /\ ServiceStep
  <2>1. status = "running" /\ HandlerEffect(e)
    BY <1>3, StepHasEffect DEF ServiceInv, NothingLostInv, BarrierInv
  <2> QED BY <1>1, <2>1, HandlerServes DEF ServiceInv
<1>4. CASE UNCHANGED vars
  <2>1. /\ UNCHANGED <<config, compute_nodes, released_epoch, request_table, next_request_id>>
        /\ SimulatorInv /\ CursorsCountRequests
    BY <1>4 DEF vars, ServiceInv, NothingLostInv, BarrierInv, RequestPathInv
  <2>2. Issued' = Issued /\ Unfinished' = Unfinished /\ KeepsRequests /\ KeepsCursors
    BY <2>1, TableKept DEF KeepsCursors
  <2>3. CursorsCountRequests'
    BY <2>1, <2>2, CursorsKept
  <2>4. UNCHANGED Service!serviceVars
    BY <2>1, <2>2, ServiceStands, OpenPlacesKept, DrawnKept
  <2> QED BY <1>1, <2>3, <2>4 DEF ServiceInv, ServiceStep
<1> QED BY <1>2, <1>3, <1>4 DEF Next, Finished

\* The constructor builds a service of which no epoch is open.
LEMMA ServiceStarts == Init => ServiceInv /\ Service!ServiceInit
<1> SUFFICES ASSUME Init PROVE ServiceInv /\ Service!ServiceInit
  OBVIOUS
<1>1. /\ NothingLostInv /\ Issued = {} /\ released_epoch = NoEpoch
      /\ compute_nodes = [n \in Nodes |-> NewComputeNode]
  BY NothingLostInit DEF Init, Issued
<1>2. \A n \in Nodes : compute_nodes[n].next_index = 0 /\ IssuedBy(n) = {}
  BY <1>1 DEF NewComputeNode, IssuedBy
<1>3. CursorsCountRequests
  BY <1>2, FS_EmptySet DEF CursorsCountRequests
<1>4. Unfinished = {}
  BY <1>1 DEF Unfinished
<1>5. Service!ServiceInit
  BY <1>1, <1>2, <1>4 DEF Service!ServiceInit, Service!Owners, NoEpoch
<1> QED BY <1>1, <1>3, <1>5 DEF ServiceInv

\* Events, caches, channels and policies together implement the plain epoch
\* service: what the simulator does is, step by step, to open the next epoch
\* when nothing of the present one is left, to issue the next request of a node
\* in the open epoch, or to complete an open request, and each of those once.
THEOREM ImplementsServiceSteps ==
  Spec /\ []Unwrapped => Service!ServiceInit /\ [][Service!ServiceNext]_(Service!serviceVars)
<1>1. ServiceInv /\ Unwrapped /\ [Next]_vars
        => ServiceInv' /\ [Service!ServiceNext]_(Service!serviceVars)
  BY StepServes DEF ServiceStep
<1> QED BY <1>1, ServiceStarts, PTL DEF Spec

-----------------------------------------------------------------------------
(* Arrival order *)

\* Where in the log a request of channel c has an event of this type, and the
\* requests of all entries.
LoggedAt(c, type) ==
  {i \in 1 .. Len(event_log) : /\ event_log[i].type = type
                               /\ ChannelOf(event_log[i].request_id) = c}
LoggedIds == [i \in 1 .. Len(event_log) |-> event_log[i].request_id]

LogIsSequence == Len(event_log) \in Nat

\* What is logged on a channel is a selection of the log.
LoggedIsSelected ==
  \A c, type : LoggedOnChannel(c, type)
                 = Selected(Len(event_log), LoggedAt(c, type), LoggedIds)

\* The recursive definition of what is logged on a channel has a solution.
LEMMA LoggedSelection == LogIsSequence => LoggedIsSelected
<1> SUFFICES ASSUME LogIsSequence, NEW c, NEW type
             PROVE  LoggedOnChannel(c, type)
                      = Selected(Len(event_log), LoggedAt(c, type), LoggedIds)
  BY DEF LoggedIsSelected
<1> DEFINE n == Len(event_log)
           V == {event_log[i].request_id : i \in 1 .. n}
           Step(F) ==
             [i \in 0 .. n |->
                IF i = 0 THEN <<>>
                ELSE IF event_log[i].type = type
                          /\ channel_for(request_table[event_log[i].request_id]) = c
                     THEN Append(F[i - 1], event_log[i].request_id)
                     ELSE F[i - 1]]
           ids == CHOOSE F : F = Step(F)
<1>1. n \in Nat
  BY DEF LogIsSequence
<1>2. \A F : Step(F) = SelectStep(n, LoggedAt(c, type), LoggedIds, F)
  <2> SUFFICES ASSUME NEW F
               PROVE  Step(F) = SelectStep(n, LoggedAt(c, type), LoggedIds, F)
    OBVIOUS
  <2>1. \A i \in 0 .. n : i # 0 =>
          /\ i \in LoggedAt(c, type) <=>
               event_log[i].type = type
                 /\ channel_for(request_table[event_log[i].request_id]) = c
          /\ LoggedIds[i] = event_log[i].request_id
    BY <1>1 DEF LoggedAt, LoggedIds, ChannelOf
  <2> HIDE DEF n
  <2> QED BY <2>1 DEF SelectStep
<1>3. \A i \in (1 .. n) \cap LoggedAt(c, type) : LoggedIds[i] \in V
  BY DEF LoggedIds
<1>4. PICK F : F = SelectStep(n, LoggedAt(c, type), LoggedIds, F)
  <2> HIDE DEF n, V
  <2> QED BY <1>1, <1>3, SelectionExists
<1>5. LoggedOnChannel(c, type) = ids[n]
  BY DEF LoggedOnChannel
<1>6. ids = Step(ids)
  <2>1. F = Step(F)
    <3> HIDE DEF Step
    <3> QED BY <1>2, <1>4
  <2> HIDE DEF Step
  <2> QED BY <2>1
<1>7. ids = SelectStep(n, LoggedAt(c, type), LoggedIds, ids)
  <2> HIDE DEF Step
  <2> QED BY <1>2, <1>6
<1> HIDE DEF ids, n
<1>8. Selected(n, LoggedAt(c, type), LoggedIds) = ids[n]
  BY <1>1, <1>7, SelectedIs
<1> QED BY <1>5, <1>8 DEF n

\* After a step too.
LEMMA LoggedSelectionNext == LogIsSequence' => LoggedIsSelected'
BY LoggedSelection, PTL

\* What is logged belongs to issued requests.
LogNamesIssued ==
  \A i \in 1 .. Len(event_log) :
    event_log[i].type # "GenerateRequest" => event_log[i].request_id \in Issued

\* The requests that reached a channel are those whose service started, followed
\* by those that wait.
ArrivedIsStartedAndQueued ==
  \A c \in ChannelIds :
    LoggedOnChannel(c, "ForwardToMemory")
      = LoggedOnChannel(c, "MemoryServiceStart") \o QueueOf(c)

ChannelOrderInv ==
  /\ RequestPathInv
  /\ LogNamesIssued
  /\ ArrivedIsStartedAndQueued

\* A sequence of ids is logged on every channel.
LEMMA LoggedType ==
  ASSUME SimulatorInv, LogNamesIssued, NEW c, NEW type, type # "GenerateRequest"
  PROVE  LoggedOnChannel(c, type) \in Seq(Issued)
<1>1. event_log \in Seq(EventRecord) /\ Len(event_log) \in Nat
  BY DEF SimulatorInv, TypeOK
<1>2. LoggedOnChannel(c, type) = Selected(Len(event_log), LoggedAt(c, type), LoggedIds)
  BY <1>1, LoggedSelection DEF LogIsSequence, LoggedIsSelected
<1>3. ValuesIn(Len(event_log), LoggedAt(c, type), LoggedIds, Issued)
  BY DEF LoggedAt, LoggedIds, LogNamesIssued, ValuesIn
<1> QED BY <1>1, <1>2, <1>3, SelectedFacts

\* Dispatching an event logs it on the channel of its request, and leaves what is
\* logged on other channels or of other types.
LEMMA LogGrows ==
  ASSUME SimulatorInv, LogNamesIssued, KeepsRequests, Issued \subseteq Issued',
         NEW row, row \in EventRecord, event_log' = Append(event_log, row),
         row.type # "GenerateRequest" => row.request_id \in Issued
  PROVE  /\ LogNamesIssued'
         /\ \A c, type : type # "GenerateRequest" =>
              LoggedOnChannel(c, type)' =
                IF row.type = type /\ ChannelOf(row.request_id) = c
                THEN Append(LoggedOnChannel(c, type), row.request_id)
                ELSE LoggedOnChannel(c, type)
<1>1. /\ event_log \in Seq(EventRecord) /\ Len(event_log) \in Nat
      /\ Len(event_log') = Len(event_log) + 1
      /\ event_log'[Len(event_log) + 1] = row
      /\ \A i \in 1 .. Len(event_log) : event_log'[i] = event_log[i]
  BY DEF SimulatorInv, TypeOK
<1>2. LogNamesIssued'
  <2> SUFFICES ASSUME NEW i \in 1 .. Len(event_log) + 1,
                      event_log'[i].type # "GenerateRequest"
               PROVE  event_log'[i].request_id \in Issued'
    BY <1>1 DEF LogNamesIssued
  <2> QED BY <1>1 DEF LogNamesIssued
<1>3. ASSUME NEW c, NEW type, type # "GenerateRequest"
      PROVE  LoggedOnChannel(c, type)' =
                IF row.type = type /\ ChannelOf(row.request_id) = c
                THEN Append(LoggedOnChannel(c, type), row.request_id)
                ELSE LoggedOnChannel(c, type)
  <2>1. PICK n, at, ids, at2, ids2 :
          /\ n = Len(event_log) /\ at = LoggedAt(c, type) /\ ids = LoggedIds
          /\ at2 = LoggedAt(c, type)' /\ ids2 = LoggedIds'
    OBVIOUS
  <2>2. /\ n \in Nat /\ n + 1 = Len(event_log')
        /\ LoggedOnChannel(c, type) = Selected(n, at, ids)
        /\ LoggedOnChannel(c, type)' = Selected(n + 1, at2, ids2)
    <3>1. LogIsSequence /\ LogIsSequence'
      BY <1>1 DEF LogIsSequence
    <3>2. LoggedIsSelected /\ LoggedIsSelected'
      BY <3>1, LoggedSelection, LoggedSelectionNext
    <3> QED BY <1>1, <2>1, <3>2 DEF LoggedIsSelected
  <2>3. /\ \A i \in 1 .. n : /\ i \in at <=> i \in at2
                             /\ ids[i] = ids2[i]
                             /\ i \in at => ids[i] \in Issued
        /\ n + 1 \in at2 <=> row.type = type /\ ChannelOf(row.request_id) = c
        /\ ids2[n + 1] = row.request_id
        /\ n + 1 \in at2 => row.request_id \in Issued
    <3>1. \A i \in 1 .. n : /\ i \in at2 <=> /\ event_log[i].type = type
                                             /\ ChannelOf(event_log[i].request_id)' = c
                            /\ ids2[i] = event_log[i].request_id
      BY <1>1, <2>1, <2>2 DEF LoggedAt, LoggedIds
    <3>2. \A i \in 1 .. n : event_log[i].type = type =>
            /\ event_log[i].request_id \in Issued
            /\ ChannelOf(event_log[i].request_id)' = ChannelOf(event_log[i].request_id)
      BY <1>3, <2>1 DEF LogNamesIssued, KeepsRequests
    <3>3. \A i \in 1 .. n : /\ i \in at <=> /\ event_log[i].type = type
                                            /\ ChannelOf(event_log[i].request_id) = c
                            /\ ids[i] = event_log[i].request_id
      BY <1>1, <2>1, <2>2 DEF LoggedAt, LoggedIds
    <3>4. /\ n + 1 \in at2 <=> row.type = type /\ ChannelOf(row.request_id)' = c
          /\ ids2[n + 1] = row.request_id
      <4>1. n + 1 \in 1 .. Len(event_log') /\ event_log'[n + 1] = row
        BY <1>1, <2>1, <2>2
      <4> QED BY <2>1, <4>1 DEF LoggedAt, LoggedIds
    <3>5. row.type = type => /\ row.request_id \in Issued
                             /\ ChannelOf(row.request_id)' = ChannelOf(row.request_id)
      BY <1>3 DEF KeepsRequests
    <3> QED BY <3>1, <3>2, <3>3, <3>4, <3>5
  <2>4. AgreeUpTo(n, at, ids, at2, ids2)
    BY <2>3 DEF AgreeUpTo
  <2>5. PICK I : I = Issued
    OBVIOUS
  <2>6. ValuesIn(n, at, ids, I) /\ ValuesIn(n + 1, at2, ids2, I)
    <3>1. \A i \in 1 .. n + 1 : i \in 1 .. n \/ i = n + 1
      BY <2>2
    <3>2. \A i \in (1 .. n) \cap at : ids[i] \in I
      BY <2>3, <2>5
    <3>3. \A i \in (1 .. n + 1) \cap at2 : ids2[i] \in I
      BY <2>3, <2>5, <3>1
    <3> QED BY <3>2, <3>3 DEF ValuesIn
  <2>7. Selected(n + 1, at2, ids2) =
          IF n + 1 \in at2 THEN Append(Selected(n, at, ids), ids2[n + 1])
          ELSE Selected(n, at, ids)
    BY <2>2, <2>4, <2>6, SelectedGrows
  <2> QED BY <2>2, <2>3, <2>7
<1> QED BY <1>2, <1>3

\* Every handler starts by logging its event.
LEMMA StepIsLogged ==
  ASSUME SimulatorInv, NEW e \in sched.events, MemoryStep(e) \/ ComputeStep(e)
  PROVE  \E row \in EventRecord :
           /\ row.type = e.type /\ row.request_id = e.request_id
           /\ event_log' = Append(event_log, row)
<1> DEFINE row == [time |-> e.time, type |-> e.type,
                   target_id |-> e.target_id, request_id |-> e.request_id]
<1>1. e \in Event
  BY DEF SimulatorInv, EventQueueIsSound, QueueOK, SchedulerState
<1>2. row \in EventRecord
  BY <1>1 DEF Event, EventRecord
<1>3. event_log' = Append(event_log, row)
  BY DEF MemoryStep, ComputeStep, handle_forward_to_memory, handle_memory_service_start,
     handle_memory_service_complete, handle_generate_request, handle_local_cache_lookup,
     handle_local_cache_hit_complete, handle_return_response, handle_request_complete, Dispatch
<1> QED BY <1>2, <1>3

\* Every handler keeps the requests that were issued.
LEMMA StepKeepsRequests ==
  ASSUME RequestPathInv, NEW e \in sched.events, MemoryStep(e) \/ ComputeStep(e)
  PROVE  KeepsRequests /\ Issued \subseteq Issued' /\ ChannelIds' = ChannelIds
<1>1. HandlerEffect(e)
  BY StepHasEffect
<1>2. config' = config
  BY <1>1 DEF HandlerEffect, NothingToIssueEffect, IssueEffect, LookupEffect, CompleteEffect,
     RequestCompleteEffect, ForwardEffect, ServiceStartEffect, ServiceCompleteEffect
<1>3. ChannelIds' = ChannelIds
  BY <1>2 DEF ChannelIds
<1>4. CASE e.type = "GenerateRequest" /\ NothingToIssueEffect(e)
  BY <1>3, <1>4, TableKept DEF NothingToIssueEffect
<1>5. CASE e.type = "RequestComplete" /\ RequestCompleteEffect(e)
  BY <1>3, <1>5, TableKept DEF RequestCompleteEffect
<1>6. CASE IssueEffect(e)
  BY <1>3, <1>6 DEF IssueEffect
<1> QED BY <1>1, <1>3, <1>4, <1>5, <1>6 DEF HandlerEffect, LookupEffect, CompleteEffect,
       ForwardEffect, ServiceStartEffect, ServiceCompleteEffect

\* Forwarding appends to the log and to the queue; a start moves the head of the
\* queue to the log; nothing else touches either.
LEMMA OrderStep ==
  ASSUME ChannelOrderInv, NEW e \in sched.events, MemoryStep(e) \/ ComputeStep(e)
  PROVE  LogNamesIssued' /\ ArrivedIsStartedAndQueued'
<1> DEFINE id == e.request_id
           k == ChannelOf(id)
<1>1. SimulatorInv /\ RequestPathInv /\ LogNamesIssued
  BY DEF ChannelOrderInv, RequestPathInv
<1>2. PICK row \in EventRecord : /\ row.type = e.type /\ row.request_id = id
                                 /\ event_log' = Append(event_log, row)
  BY <1>1, StepIsLogged
<1>3. KeepsRequests /\ Issued \subseteq Issued' /\ ChannelIds' = ChannelIds
  BY <1>1, StepKeepsRequests
<1>4. e.type # "GenerateRequest" => id \in Issued /\ k \in ChannelIds
  BY <1>1, Referents
<1>5. /\ LogNamesIssued'
      /\ \A c, type : type # "GenerateRequest" =>
           LoggedOnChannel(c, type)' =
             IF e.type = type /\ k = c
             THEN Append(LoggedOnChannel(c, type), id)
             ELSE LoggedOnChannel(c, type)
  BY <1>1, <1>2, <1>3, <1>4, LogGrows
<1>6. HandlerEffect(e)
  BY <1>1, StepHasEffect
<1>7. ASSUME NEW c \in ChannelIds
      PROVE  LoggedOnChannel(c, "ForwardToMemory")'
               = LoggedOnChannel(c, "MemoryServiceStart")' \o QueueOf(c)'
  <2>1. PICK F, S, Q, F2, S2, Q2 :
          /\ F = LoggedOnChannel(c, "ForwardToMemory")
          /\ S = LoggedOnChannel(c, "MemoryServiceStart")
          /\ Q = QueueOf(c)
          /\ F2 = LoggedOnChannel(c, "ForwardToMemory")'
          /\ S2 = LoggedOnChannel(c, "MemoryServiceStart")'
          /\ Q2 = QueueOf(c)'
    OBVIOUS
  <2>2. F \in Seq(Issued) /\ S \in Seq(Issued) /\ Q \in Seq(Issued) /\ F = S \o Q
    BY <1>1, <2>1, LoggedType, Referents DEF ChannelOrderInv, ArrivedIsStartedAndQueued
  <2>3. /\ F2 = IF e.type = "ForwardToMemory" /\ k = c THEN Append(F, id) ELSE F
        /\ S2 = IF e.type = "MemoryServiceStart" /\ k = c THEN Append(S, id) ELSE S
    BY <1>5, <2>1
  <2>4. CASE e.type = "ForwardToMemory" /\ k = c
    <3>1. ForwardEffect(e)
      BY <1>6, <2>4 DEF HandlerEffect
    <3>2. Q2 = Append(Q, id) /\ id \in Issued
      BY <2>1, <2>4, <3>1 DEF ForwardEffect, ChannelBecomes, QueueOf
    <3>3. Append(S \o Q, id) = S \o Append(Q, id)
      <4>1. PICK I : I = Issued /\ S \in Seq(I) /\ Q \in Seq(I) /\ id \in I
        BY <2>2, <3>2
      <4> DEFINE one == <<id>>
      <4>2. one \in Seq(I) /\ S \o Q \in Seq(I)
        BY <4>1, ConcatProperties
      <4> HIDE DEF one
      <4>3. Append(S \o Q, id) = (S \o Q) \o one /\ Append(Q, id) = Q \o one
        BY <4>1, <4>2, AppendIsConcat DEF one
      <4>4. (S \o Q) \o one = S \o (Q \o one)
        BY <4>1, <4>2, ConcatAssociative
      <4> QED BY <4>3, <4>4
    <3> QED BY <2>1, <2>2, <2>3, <2>4, <3>2, <3>3
  <2>5. CASE e.type = "MemoryServiceStart" /\ k = c
    <3>1. ServiceStartEffect(e)
      BY <1>6, <2>5 DEF HandlerEffect
    <3>2. Q2 = Tail(Q)
      BY <2>1, <2>5, <3>1 DEF ServiceStartEffect, ChannelBecomes, QueueOf
    <3>3. Q # <<>> /\ id = Head(Q) /\ id \in Issued
      BY <1>1, <2>1, <2>5, StartFindsHead
    <3>4. Append(S, Head(Q)) \o Tail(Q) = S \o Q
      BY <2>2, <3>3
    <3> QED BY <2>1, <2>2, <2>3, <2>5, <3>2, <3>3, <3>4
  <2>6. CASE ~(e.type \in {"ForwardToMemory", "MemoryServiceStart"} /\ k = c)
    <3>1. channels'[c].queued_requests = channels[c].queued_requests
      <4>1. CASE e.type = "ForwardToMemory" /\ ForwardEffect(e)
        BY <2>6, <4>1 DEF ForwardEffect, ChannelBecomes
      <4>2. CASE e.type = "MemoryServiceStart" /\ ServiceStartEffect(e)
        BY <2>6, <4>2 DEF ServiceStartEffect, ChannelBecomes
      <4>3. CASE e.type = "MemoryServiceComplete" /\ ServiceCompleteEffect(e)
        BY <4>3 DEF ServiceCompleteEffect, ChannelBecomes, QueueOf
      <4>4. CASE UNCHANGED channels
        BY <4>4
      <4> QED BY <1>6, <4>1, <4>2, <4>3, <4>4 DEF HandlerEffect, NothingToIssueEffect,
             IssueEffect, LookupEffect, CompleteEffect, RequestCompleteEffect
    <3>2. Q2 = Q
      BY <2>1, <3>1 DEF QueueOf
    <3>3. F2 = F /\ S2 = S
      BY <2>3, <2>6
    <3> QED BY <2>1, <2>2, <3>2, <3>3
  <2> QED BY <2>4, <2>5, <2>6
<1> QED BY <1>3, <1>5, <1>7 DEF ArrivedIsStartedAndQueued

\* Nothing is logged at first, and no queue holds anything.
LEMMA OrderInit == Init => ChannelOrderInv
<1> SUFFICES ASSUME Init PROVE ChannelOrderInv
  OBVIOUS
<1>1. RequestPathInv /\ event_log = <<>> /\ Len(event_log) = 0
  BY PathInit DEF Init
<1>2. LogNamesIssued
  BY <1>1 DEF LogNamesIssued
<1>3. \A c, type : LoggedOnChannel(c, type) = <<>>
  <2> SUFFICES ASSUME NEW c, NEW type PROVE LoggedOnChannel(c, type) = <<>>
    OBVIOUS
  <2>1. LoggedOnChannel(c, type) = Selected(0, LoggedAt(c, type), LoggedIds)
    BY <1>1, LoggedSelection DEF LogIsSequence, LoggedIsSelected
  <2>2. ValuesIn(0, LoggedAt(c, type), LoggedIds, Nat)
    BY DEF ValuesIn
  <2> QED BY <2>1, <2>2, SelectedFacts
<1>4. \A c \in ChannelIds : QueueOf(c) = <<>>
  BY DEF Init, QueueOf, NewChannel
<1>5. ArrivedIsStartedAndQueued
  <2>1. <<>> \o <<>> = <<>>
    <3>1. <<>> \in Seq(Nat)
      OBVIOUS
    <3> QED BY <3>1, ConcatEmptySeq
  <2> QED BY <1>3, <1>4, <2>1 DEF ArrivedIsStartedAndQueued
<1> QED BY <1>1, <1>2, <1>5 DEF ChannelOrderInv

\* Every step keeps the order of arrival.
LEMMA OrderNext == ChannelOrderInv /\ [Next]_vars => ChannelOrderInv'
<1> SUFFICES ASSUME ChannelOrderInv, [Next]_vars PROVE ChannelOrderInv'
  OBVIOUS
<1>1. RequestPathInv'
  BY PathNext DEF ChannelOrderInv
<1>2. CASE UNCHANGED <<config, event_log, channels, request_table, next_request_id>>
  <2>1. Issued' = Issued /\ ChannelIds' = ChannelIds
    BY <1>2 DEF Issued, ChannelIds
  <2>2. LogNamesIssued'
    BY <1>2, <2>1 DEF ChannelOrderInv, LogNamesIssued
  <2>3. \A c, type : LoggedOnChannel(c, type)' = LoggedOnChannel(c, type)
    BY <1>2 DEF LoggedOnChannel, channel_for
  <2>4. \A c : QueueOf(c)' = QueueOf(c)
    BY <1>2 DEF QueueOf
  <2>5. ArrivedIsStartedAndQueued'
    BY <2>1, <2>3, <2>4 DEF ChannelOrderInv, ArrivedIsStartedAndQueued
  <2> QED BY <1>1, <2>2, <2>5 DEF ChannelOrderInv
<1>3. ASSUME NEW e \in sched.events, MemoryStep(e) \/ ComputeStep(e)
      PROVE  ChannelOrderInv'
  BY <1>1, <1>3, OrderStep DEF ChannelOrderInv
<1> QED BY <1>2, <1>3 DEF Next, Run, Finished, vars

\* The starts are a prefix of the arrivals, because the rest is the queue.
LEMMA StartsArePrefix == ChannelOrderInv => ChannelsServeInArrivalOrder
<1> SUFFICES ASSUME ChannelOrderInv, NEW c \in ChannelIds
             PROVE  IsPrefix(LoggedOnChannel(c, "MemoryServiceStart"),
                             LoggedOnChannel(c, "ForwardToMemory"))
  BY DEF ChannelsServeInArrivalOrder
<1>1. PICK S, Q, F : /\ S = LoggedOnChannel(c, "MemoryServiceStart")
                     /\ Q = QueueOf(c)
                     /\ F = LoggedOnChannel(c, "ForwardToMemory")
  OBVIOUS
<1>2. S \in Seq(Issued) /\ Q \in Seq(Issued) /\ F = S \o Q
  BY <1>1, LoggedType, Referents DEF ChannelOrderInv, RequestPathInv, ArrivedIsStartedAndQueued
<1>3. /\ Len(S) <= Len(F)
      /\ \A i \in 1 .. Len(S) : F[i] = S[i]
  BY <1>2
<1>4. SubSeq(F, 1, Len(S)) = SubSeq(S, 1, Len(S))
  BY <1>2, <1>3
<1> QED BY <1>1, <1>3, <1>4 DEF IsPrefix

\* A channel serves in arrival order, for every number of channels and every
\* interleaving of arrivals, starts and completions (memory_node.cpp): what
\* reached it is what it started to serve, in the same order, and its queue.
THEOREM ServedInArrivalOrder == Spec => []ChannelsServeInArrivalOrder
<1>1. Spec => []ChannelOrderInv
  BY OrderInit, OrderNext, PTL DEF Spec
<1> QED BY <1>1, StartsArePrefix, PTL

-----------------------------------------------------------------------------
(* Where the time of a request goes *)

Link == config.one_way_link_latency
ServiceTime(id) == service_time_for(request_table[id])

\* A request that is being served or on its way back has waited in a queue for
\* what is left of its time once the links and the service are taken off.
ServiceTypes == {"MemoryServiceComplete", "ReturnResponse"}
Serviced == {f \in sched.events : f.type \in ServiceTypes}
Crossed(f) == IF f.type = "ReturnResponse" THEN 2 * Link ELSE Link
WaitOf(f) ==
  f.time - IssuedAt(f.request_id) - Crossed(f) - ServiceTime(f.request_id)
Waits == [f \in Serviced |-> WaitOf(f)]

\* Until a request is queued, its time follows from its issue.
OnTime(f) ==
  /\ f.type = "LocalCacheLookup" => f.time = IssuedAt(f.request_id)
  /\ f.type = "LocalCacheHitComplete" =>
       f.time = IssuedAt(f.request_id) + config.hit_latency
  /\ f.type = "ForwardToMemory" => f.time = IssuedAt(f.request_id) + Link

EventsOnTime == \A f \in PathEvents : OnTime(f)

QueuedOnTime ==
  \A c \in ChannelIds : \A i \in 1 .. Len(QueueOf(c)) :
    EnqueuedAt(QueueOf(c)[i]) = IssuedAt(QueueOf(c)[i]) + Link

SamplesOK ==
  /\ stats.latencies \in [Nodes -> Seq(Int)]
  /\ stats.memory_waits \in Seq(Int)

\* What the misses that were answered cost without their waits.
Remote == [i \in ServedBy("Memory") |->
             2 * config.one_way_link_latency
               + service_time_for(request_table[responses[i].request_id])]
RemoteTime == SumOf(Remote)
HitTime == Cardinality(ServedBy("LocalCache")) * config.hit_latency
WaitingTime == SumOver(Waits, Serviced)

\* The time of what was answered, and the waits of what is served, are made up of
\* the hits, the links and services of the misses, and the waits recorded.
LedgerBalances ==
  total_latency + WaitingTime = HitTime + RemoteTime + total_memory_wait

TimingInv ==
  /\ BarrierInv
  /\ SamplesOK
  /\ EventsOnTime
  /\ QueuedOnTime
  /\ IsFiniteSet(Serviced)
  /\ LedgerBalances

-----------------------------------------------------------------------------
(* Sums of samples *)

\* The sum of a sequence is an integer, and one sample more adds to it.
LEMMA SumOfSamples ==
  ASSUME NEW s \in Seq(Int)
  PROVE  /\ SumOf(s) \in Int
         /\ \A x \in Int : SumOf(Append(s, x)) = SumOf(s) + x
<1>1. /\ DOMAIN s = 1 .. Len(s) /\ IsFiniteSet(DOMAIN s) /\ \A i \in DOMAIN s : s[i] \in Int
      /\ Len(s) \in Nat
  BY FS_Interval
<1>2. SumOf(s) = SumOver(s, DOMAIN s)
  BY DEF SumOf, SumOver
<1>3. SumOver(s, DOMAIN s) \in Int
  BY <1>1, SumRemove
<1>4. ASSUME NEW x \in Int
      PROVE  SumOf(Append(s, x)) = SumOf(s) + x
  <2> DEFINE t == Append(s, x)
             k == Len(s) + 1
  <2>1. /\ DOMAIN t = DOMAIN s \cup {k} /\ k \notin DOMAIN s /\ t[k] = x
        /\ \A i \in DOMAIN s : t[i] = s[i]
    BY <1>1
  <2>2. SumOf(t) = SumOver(t, DOMAIN t)
    BY DEF SumOf, SumOver
  <2> HIDE DEF t, k
  <2>3. \A i \in DOMAIN s : t[i] \in Int
    BY <1>1, <2>1
  <2>4. SumOver(t, DOMAIN t) = t[k] + SumOver(t, DOMAIN s)
    BY <1>1, <2>1, <2>3, SumAdd
  <2>5. SumOver(t, DOMAIN s) = SumOver(s, DOMAIN s)
    BY <1>1, <2>1, SumEqual
  <2> QED BY <1>2, <1>3, <2>1, <2>2, <2>4, <2>5 DEF t
<1> QED BY <1>2, <1>3, <1>4

\* The sum of an empty sequence is zero.
LEMMA SumOfNothing == SumOf(<<>>) = 0
<1>1. PICK s : s = <<>> /\ DOMAIN s = {}
  OBVIOUS
<1>2. SumOf(s) = SumOver(s, {})
  BY <1>1 DEF SumOf, SumOver
<1> QED BY <1>1, <1>2, FS_EmptySet, SumUnfolds

\* The total of the samples of all nodes is an integer.
LEMMA TotalOfSamples ==
  ASSUME NEW lat \in [Nodes -> Seq(Int)], NEW sums, sums = [n \in Nodes |-> SumOf(lat[n])]
  PROVE  /\ IsFiniteSet(Nodes) /\ SumOf(sums) = SumOver(sums, Nodes) /\ SumOf(sums) \in Int
         /\ \A n \in Nodes : sums[n] \in Int
<1>1. IsFiniteSet(Nodes)
  BY FS_Interval, CountAssumption DEF Nodes
<1>2. DOMAIN sums = Nodes /\ \A n \in Nodes : sums[n] \in Int
  BY SumOfSamples
<1>3. SumOf(sums) = SumOver(sums, Nodes)
  BY <1>2 DEF SumOf, SumOver
<1>4. SumOver(sums, Nodes) \in Int
  BY <1>1, <1>2, SumRemove
<1> QED BY <1>1, <1>2, <1>3, <1>4

\* A total of nodes of which one gains x.
LEMMA TotalMoves ==
  ASSUME NEW w, NEW v, NEW m \in Nodes, NEW x \in Int,
         \A n \in Nodes : w[n] \in Int /\ v[n] \in Int,
         \A n \in Nodes : n # m => v[n] = w[n], v[m] = w[m] + x
  PROVE  SumOver(v, Nodes) = SumOver(w, Nodes) + x
<1>1. IsFiniteSet(Nodes)
  BY FS_Interval, CountAssumption DEF Nodes
<1>2. SumOver(v, Nodes) = SumOver(w, Nodes) + (v[m] - w[m])
  BY <1>1, SumChange
<1>3. w[m] \in Int /\ v[m] - w[m] = x
  OBVIOUS
<1> QED BY <1>2, <1>3

\* The total of the samples of every node (total_latency).
TotalOf(lat) == SumOf([n \in Nodes |-> SumOf(lat[n])])
Sampled(lat, n, x) == [lat EXCEPT ![n] = Append(@, x)]

\* The total grows by the new sample.
LEMMA SampleAdds ==
  ASSUME NEW lat, lat \in [Nodes -> Seq(Int)], NEW m \in Nodes, NEW x \in Int
  PROVE  /\ Sampled(lat, m, x) \in [Nodes -> Seq(Int)] /\ TotalOf(lat) \in Int
         /\ TotalOf(Sampled(lat, m, x)) = TotalOf(lat) + x
<1> DEFINE after == Sampled(lat, m, x)
<1>1. /\ after \in [Nodes -> Seq(Int)] /\ after[m] = Append(lat[m], x)
      /\ \A n \in Nodes : n # m => after[n] = lat[n]
  BY DEF Sampled
<1> HIDE DEF after
<1>2. PICK sums, more : /\ sums = [n \in Nodes |-> SumOf(lat[n])]
                        /\ more = [n \in Nodes |-> SumOf(after[n])]
  OBVIOUS
<1>3. TotalOf(lat) = SumOf(sums) /\ TotalOf(after) = SumOf(more)
  BY <1>2 DEF TotalOf
<1>4. /\ SumOf(sums) = SumOver(sums, Nodes) /\ SumOf(sums) \in Int
      /\ \A n \in Nodes : sums[n] \in Int
  BY <1>2, TotalOfSamples
<1>5. SumOf(more) = SumOver(more, Nodes) /\ \A n \in Nodes : more[n] \in Int
  BY <1>1, <1>2, TotalOfSamples
<1>6. \A n \in Nodes : n # m => more[n] = sums[n]
  BY <1>1, <1>2
<1>7. more[m] = sums[m] + x
  <2>1. more[m] = SumOf(Append(lat[m], x)) /\ sums[m] = SumOf(lat[m])
    BY <1>1, <1>2
  <2> QED BY <2>1, SumOfSamples
<1>8. SumOver(more, Nodes) = SumOver(sums, Nodes) + x
  BY <1>4, <1>5, <1>6, <1>7, TotalMoves
<1> QED BY <1>1, <1>3, <1>4, <1>5, <1>8 DEF after

\* Latencies are recorded when a request completes, waits when a service starts,
\* and nowhere else (record_latency, record_memory_wait).
LEMMA SamplesRecorded ==
  ASSUME RequestPathInv, HasStatsShape(stats),
         NEW e \in sched.events, MemoryStep(e) \/ ComputeStep(e)
  PROVE  /\ stats'.latencies =
              IF e.type \in {"LocalCacheHitComplete", "ReturnResponse"}
              THEN [stats.latencies EXCEPT ![e.target_id] =
                      Append(@, e.time - IssuedAt(e.request_id))]
              ELSE stats.latencies
         /\ stats'.memory_waits =
              IF e.type = "MemoryServiceStart"
              THEN Append(stats.memory_waits, e.time - EnqueuedAt(e.request_id))
              ELSE stats.memory_waits
<1> DEFINE id == e.request_id
           n == e.target_id
           r == request_table[id]
           c == channel_for(r)
           lat == [stats.latencies EXCEPT ![n] = Append(@, e.time - IssuedAt(id))]
           waits == Append(stats.memory_waits, e.time - EnqueuedAt(id))
           Completions == {"LocalCacheHitComplete", "ReturnResponse"}
           S(st) == st.latencies = stats.latencies /\ st.memory_waits = stats.memory_waits
<1>1. PICK latencies, hits, misses, memory_waits, depth, objects, by_channel :
        stats = [latencies |-> latencies, local_cache_hits |-> hits,
                 local_cache_misses |-> misses, memory_waits |-> memory_waits,
                 peak_memory_queue_depth |-> depth, contention_by_epoch |-> objects,
                 channel_contention_by_epoch |-> by_channel]
  BY DEF HasStatsShape
<1>2. \A v : /\ [stats EXCEPT !.latencies = v].memory_waits = stats.memory_waits
             /\ [stats EXCEPT !.latencies = v].latencies = v
             /\ [stats EXCEPT !.memory_waits = v].latencies = stats.latencies
             /\ [stats EXCEPT !.memory_waits = v].memory_waits = v
             /\ S([stats EXCEPT !.local_cache_hits = v])
             /\ S([stats EXCEPT !.local_cache_misses = v])
             /\ S([stats EXCEPT !.peak_memory_queue_depth = v])
  BY <1>1
<1>3. \A st, channel, object_row, channel_row :
        HasStatsShape(st) =>
          /\ UpdateBuckets(st, r, channel, object_row, channel_row).latencies = st.latencies
          /\ UpdateBuckets(st, r, channel, object_row, channel_row).memory_waits
               = st.memory_waits
  BY DEF HasStatsShape, UpdateBuckets
<1>4. CASE e.type \in Completions /\ stats' = record_latency(stats, n, e.time - r.issue_time)
  <2>1. stats' = [stats EXCEPT !.latencies = lat]
    BY <1>4 DEF record_latency, IssuedAt
  <2> HIDE DEF lat, S
  <2>2. stats'.latencies = lat /\ stats'.memory_waits = stats.memory_waits
    BY <1>2, <2>1
  <2> QED BY <1>4, <2>2 DEF lat
<1>5. CASE /\ e.type \notin Completions /\ e.type # "MemoryServiceStart"
           /\ \/ UNCHANGED stats
              \/ \E m : stats' = record_cache_hit(stats, m)
              \/ \E m : stats' = record_cache_miss(stats, m)
  <2>1. \/ UNCHANGED stats
        \/ \E v : stats' = [stats EXCEPT !.local_cache_hits = v]
        \/ \E v : stats' = [stats EXCEPT !.local_cache_misses = v]
    BY <1>5 DEF record_cache_hit, record_cache_miss
  <2>2. S(stats)
    OBVIOUS
  <2>3. S(stats')
    <3> HIDE DEF S
    <3>1. ASSUME NEW v, stats' = [stats EXCEPT !.local_cache_hits = v] PROVE S(stats')
      BY <1>2, <3>1
    <3>2. ASSUME NEW v, stats' = [stats EXCEPT !.local_cache_misses = v] PROVE S(stats')
      BY <1>2, <3>2
    <3>3. UNCHANGED stats => S(stats')
      BY <2>2
    <3> QED BY <2>1, <3>1, <3>2, <3>3
  <2> QED BY <1>5, <2>3
<1>6. CASE handle_forward_to_memory(e)
  <2>1. PICK st, len :
          /\ st = [stats EXCEPT !.peak_memory_queue_depth = AtLeast(@, len)]
          /\ stats' = record_remote_access(st, r, c, len)
    BY <1>6 DEF handle_forward_to_memory, observe_memory_queue_depth
  <2>2. HasStatsShape(st) /\ S(st)
    BY <1>2, <2>1, CountersKeepRows
  <2>3. PICK object_row, channel_row :
          stats' = UpdateBuckets(st, r, c, object_row, channel_row)
    BY <2>1 DEF record_remote_access
  <2>4. S(stats')
    BY <1>3, <2>2, <2>3
  <2>5. e.type = "ForwardToMemory"
    BY <1>6 DEF handle_forward_to_memory, Dispatch
  <2> QED BY <2>4, <2>5
<1>7. CASE handle_memory_service_start(e)
  <2>1. e.type = "MemoryServiceStart"
    BY <1>7 DEF handle_memory_service_start, Dispatch
  <2>2. ServiceStartError(channels[c].queued_requests, id) = "none"
    BY <2>1, StartFindsHead DEF ServiceStartError, QueueOf, ChannelOf
  <2>3. PICK st, wait :
          /\ wait = e.time - EnqueuedAt(id)
          /\ st = [stats EXCEPT !.memory_waits = Append(@, wait)]
          /\ stats' = record_object_queue_wait(st, r, c, wait)
    BY <1>7, <2>2 DEF handle_memory_service_start, record_memory_wait, EnqueuedAt
  <2>4. st = [stats EXCEPT !.memory_waits = waits]
    BY <2>3
  <2> HIDE DEF waits
  <2>5. /\ HasStatsShape(st)
        /\ st.latencies = stats.latencies /\ st.memory_waits = waits
    BY <1>2, <2>4, CountersKeepRows
  <2>6. PICK object_row, channel_row :
          stats' = UpdateBuckets(st, r, c, object_row, channel_row)
    BY <2>3 DEF record_object_queue_wait
  <2>7. stats'.latencies = stats.latencies /\ stats'.memory_waits = waits
    BY <1>3, <2>5, <2>6
  <2> QED BY <2>1, <2>7 DEF waits
<1>8. CASE handle_memory_service_complete(e)
  <2>1. stats' = stats \/ \E object_row, channel_row :
          stats' = UpdateBuckets(stats, r, c, object_row, channel_row)
    BY <1>8 DEF handle_memory_service_complete, record_object_service
  <2>2. S(stats')
    BY <1>3, <2>1
  <2>3. e.type = "MemoryServiceComplete"
    BY <1>8 DEF handle_memory_service_complete, Dispatch
  <2> QED BY <2>2, <2>3
<1>9. CASE ComputeStep(e)
  <2> HIDE DEF S, lat, waits
  <2> QED BY <1>4, <1>5, <1>9
     DEF ComputeStep, handle_generate_request, handle_local_cache_lookup,
         handle_local_cache_hit_complete, handle_return_response, handle_request_complete,
         Complete, Dispatch
<1> QED BY <1>6, <1>7, <1>8, <1>9 DEF MemoryStep

-----------------------------------------------------------------------------
(* What a handler does to the ledger *)

\* The completions of a request: of a hit, and of a miss.
Completions == {"LocalCacheHitComplete", "ReturnResponse"}

\* No request issued before changes when it was issued or how long its service is.
KeepsTimes ==
  /\ config' = config
  /\ \A id \in Issued : /\ IssuedAt(id)' = IssuedAt(id)
                        /\ ServiceTime(id)' = ServiceTime(id)

\* Every handler keeps the times of the requests issued before.
LEMMA TimesKept ==
  ASSUME RequestPathInv, NEW e \in sched.events, MemoryStep(e) \/ ComputeStep(e)
  PROVE  KeepsTimes
<1>1. SimulatorInv
  BY DEF RequestPathInv
<1>2. config' = config
  <2>1. HandlerEffect(e)
    BY StepHasEffect
  <2> QED BY <2>1 DEF HandlerEffect, NothingToIssueEffect, IssueEffect, LookupEffect,
     CompleteEffect, RequestCompleteEffect, ForwardEffect, ServiceStartEffect,
     ServiceCompleteEffect
<1>3. \A id \in Issued : IssuedAt(id)' = IssuedAt(id) /\ SizeOf(id)' = SizeOf(id)
  BY <1>1, RequestsStand
<1>4. \A id \in Issued : ServiceTime(id)' = ServiceTime(id)
  BY <1>2, <1>3 DEF ServiceTime, service_time_for, SizeOf
<1> QED BY <1>2, <1>3, <1>4 DEF KeepsTimes

\* Only a completion answers, once, and says where the answer came from.
LEMMA AnswersRecorded ==
  ASSUME NEW e, MemoryStep(e) \/ ComputeStep(e)
  PROVE  IF e.type \in Completions
         THEN \E row :
                /\ responses' = Append(responses, row)
                /\ row.request_id = e.request_id
                /\ row.served_from_tier =
                     IF e.type = "ReturnResponse" THEN "Memory" ELSE "LocalCache"
         ELSE responses' = responses
<1>1. CASE MemoryStep(e)
  BY <1>1 DEF MemoryStep, handle_forward_to_memory, handle_memory_service_start,
     handle_memory_service_complete, Dispatch, Completions
<1>2. CASE handle_local_cache_hit_complete(e)
  <2>1. e.type = "LocalCacheHitComplete"
    BY <1>2 DEF handle_local_cache_hit_complete, Dispatch
  <2>2. PICK row :
          /\ row = [request_id |-> e.request_id, served_from_tier |-> "LocalCache",
                    completion_time |-> e.time,
                    total_latency |-> e.time - request_table[e.request_id].issue_time,
                    bytes_transferred |-> 0]
          /\ responses' = Append(responses, row)
    BY <1>2 DEF handle_local_cache_hit_complete, Complete
  <2>3. row.request_id = e.request_id /\ row.served_from_tier = "LocalCache"
    BY <2>2
  <2> QED BY <2>1, <2>2, <2>3 DEF Completions
<1>3. CASE handle_return_response(e)
  <2>1. e.type = "ReturnResponse"
    BY <1>3 DEF handle_return_response, Dispatch
  <2>2. PICK row :
          /\ row = [request_id |-> e.request_id, served_from_tier |-> "Memory",
                    completion_time |-> e.time,
                    total_latency |-> e.time - request_table[e.request_id].issue_time,
                    bytes_transferred |-> request_table[e.request_id].size_bytes]
          /\ responses' = Append(responses, row)
    BY <1>3 DEF handle_return_response, Complete
  <2>3. row.request_id = e.request_id /\ row.served_from_tier = "Memory"
    BY <2>2
  <2> QED BY <2>1, <2>2, <2>3 DEF Completions
<1>4. CASE \/ handle_generate_request(e) \/ handle_local_cache_lookup(e)
           \/ handle_request_complete(e)
  BY <1>4 DEF handle_generate_request, handle_local_cache_lookup, handle_request_complete,
     Dispatch, Completions
<1> QED BY <1>1, <1>2, <1>3, <1>4 DEF ComputeStep

\* A sum over one key more.
LEMMA SumGrows ==
  ASSUME NEW f, IsFiniteSet(DOMAIN f), \A x \in DOMAIN f : f[x] \in Int,
         NEW g, NEW k, k \notin DOMAIN f, DOMAIN g = DOMAIN f \cup {k}, g[k] \in Int,
         \A x \in DOMAIN f : g[x] = f[x]
  PROVE  SumOf(f) \in Int /\ SumOf(g) = SumOf(f) + g[k]
<1>1. SumOf(f) = SumOver(f, DOMAIN f) /\ SumOf(g) = SumOver(g, DOMAIN g)
  BY DEF SumOf, SumOver
<1>2. SumOver(f, DOMAIN f) \in Int
  BY SumRemove
<1>3. SumOver(g, DOMAIN f) = SumOver(f, DOMAIN f)
  BY SumEqual
<1>4. SumOver(g, DOMAIN g) = g[k] + SumOver(g, DOMAIN f)
  BY SumAdd
<1> QED BY <1>1, <1>2, <1>3, <1>4

\* What is answered so far.
LEMMA AnswerTypes ==
  ASSUME RequestPathInv
  PROVE  /\ responses \in Seq(Response)
         /\ \A i \in DOMAIN responses : responses[i].request_id \in Issued
         /\ \A tier : /\ ServedBy(tier) \subseteq DOMAIN responses
                      /\ IsFiniteSet(ServedBy(tier))
         /\ \A i \in ServedBy("Memory") : Remote[i] =
              2 * Link + ServiceTime(responses[i].request_id)
         /\ DOMAIN Remote = ServedBy("Memory")
         /\ \A id \in Issued : ServiceTime(id) \in Nat
         /\ Link \in Nat /\ config.hit_latency \in Nat /\ Link \in Delays
         /\ \A id \in Issued : IssuedAt(id) \in Nat /\ EnqueuedAt(id) \in Nat
<1>1. /\ responses \in Seq(Response) /\ AcceptedConfig(config)
      /\ \A id \in Issued : request_table[id] \in Request
  BY DEF RequestPathInv, SimulatorInv, TypeOK
<1>2. \A i \in DOMAIN responses : responses[i].request_id \in Issued
  BY DEF RequestPathInv, AnsweredWhenCompleted
<1>3. DOMAIN responses = 1 .. Len(responses) /\ Len(responses) \in Nat
  BY <1>1
<1>4. IsFiniteSet(DOMAIN responses)
  BY <1>3, FS_Interval
<1>5. \A tier : ServedBy(tier) \subseteq DOMAIN responses /\ IsFiniteSet(ServedBy(tier))
  BY <1>4, FS_Subset DEF ServedBy
<1>6. \A id \in Issued : ServiceTime(id) \in Nat
  BY <1>1, ServiceTimeType DEF ServiceTime, SimTime
<1>7. Link \in Nat /\ config.hit_latency \in Nat /\ Link \in Delays
  BY <1>1, ConfigType DEF Link, Delays
<1>8. \A id \in Issued : IssuedAt(id) \in Nat /\ EnqueuedAt(id) \in Nat
  BY <1>1 DEF IssuedAt, EnqueuedAt, Request, SimTime
<1>9. /\ DOMAIN Remote = ServedBy("Memory")
      /\ \A i \in ServedBy("Memory") :
           Remote[i] = 2 * Link + ServiceTime(responses[i].request_id)
  BY DEF Remote, Link, ServiceTime
<1> QED BY <1>1, <1>2, <1>5, <1>6, <1>7, <1>8, <1>9

\* After a step, what is answered costs what it did, and one answer more its own.
LEMMA AnswersAddUp ==
  ASSUME RequestPathInv, NEW e \in sched.events, MemoryStep(e) \/ ComputeStep(e)
  PROVE  /\ HitTime \in Int /\ RemoteTime \in Int
         /\ HitTime' = HitTime + (IF e.type = "LocalCacheHitComplete"
                                  THEN config.hit_latency ELSE 0)
         /\ RemoteTime' = RemoteTime + (IF e.type = "ReturnResponse"
                                        THEN 2 * Link + ServiceTime(e.request_id) ELSE 0)
<1> DEFINE id == e.request_id
           k == Len(responses) + 1
           hits == ServedBy("LocalCache")
           misses == ServedBy("Memory")
<1>1. /\ responses \in Seq(Response)
      /\ \A i \in DOMAIN responses : responses[i].request_id \in Issued
      /\ \A tier : ServedBy(tier) \subseteq DOMAIN responses /\ IsFiniteSet(ServedBy(tier))
      /\ \A i \in misses : Remote[i] = 2 * Link + ServiceTime(responses[i].request_id)
      /\ DOMAIN Remote = misses
      /\ \A i \in Issued : ServiceTime(i) \in Nat
      /\ Link \in Nat /\ config.hit_latency \in Nat
  BY AnswerTypes
<1>2. /\ config' = config /\ Link' = Link
      /\ \A i \in Issued : ServiceTime(i)' = ServiceTime(i)
  BY TimesKept DEF KeepsTimes, Link
<1>3. e.type \in Completions => id \in Issued
  BY HeldByAlone DEF Completions, PathTypes
<1>4. /\ DOMAIN responses = 1 .. Len(responses) /\ Len(responses) \in Nat
      /\ k \notin DOMAIN responses
  BY <1>1
<1>5. PICK f, g : f = Remote /\ g = Remote'
  OBVIOUS
<1>6. /\ DOMAIN g = misses'
      /\ \A i \in misses' : g[i] =
           2 * Link + service_time_for(request_table[responses[i].request_id])'
  BY <1>2, <1>5 DEF Remote, Link
<1>7. /\ IsFiniteSet(DOMAIN f) /\ DOMAIN f = misses
      /\ \A i \in DOMAIN f : f[i] \in Int /\ f[i] = 2 * Link + ServiceTime(responses[i].request_id)
  <2>1. \A i \in misses : ServiceTime(responses[i].request_id) \in Nat
    BY <1>1
  <2> QED BY <1>1, <1>5, <2>1
<1>8. RemoteTime = SumOf(f) /\ RemoteTime' = SumOf(g)
  BY <1>5 DEF RemoteTime
<1>9. SumOf(f) \in Int
  <2>1. SumOf(f) = SumOver(f, DOMAIN f)
    BY DEF SumOf, SumOver
  <2> QED BY <1>7, <2>1, SumRemove
<1>10. Cardinality(hits) \in Nat /\ HitTime \in Int
  <2>1. Cardinality(hits) \in Nat
    BY <1>1, FS_CardinalityType
  <2> QED BY <1>1, <2>1 DEF HitTime
<1>11. CASE e.type \notin Completions
  <2>1. responses' = responses
    BY <1>11, AnswersRecorded
  <2>2. hits' = hits /\ misses' = misses
    BY <2>1 DEF ServedBy
  <2>3. HitTime' = HitTime
    BY <1>2, <2>2 DEF HitTime
  <2>4. \A i \in DOMAIN f : g[i] = f[i]
    BY <1>1, <1>2, <1>6, <1>7, <2>1, <2>2 DEF ServiceTime
  <2>5. SumOf(g) = SumOf(f)
    <3>1. SumOf(f) = SumOver(f, misses) /\ SumOf(g) = SumOver(g, misses)
      BY <1>6, <1>7, <2>2 DEF SumOf, SumOver
    <3> QED BY <1>7, <2>4, <3>1, SumEqual
  <2> QED BY <1>8, <1>9, <1>10, <1>11, <2>3, <2>5 DEF Completions
<1>12. ASSUME NEW row, responses' = Append(responses, row)
       PROVE  /\ \A tier : ServedBy(tier)' = IF row.served_from_tier = tier
                                             THEN ServedBy(tier) \cup {k} ELSE ServedBy(tier)
              /\ responses'[k] = row
              /\ \A i \in DOMAIN responses : responses'[i] = responses[i]
  <2>1. /\ DOMAIN responses' = DOMAIN responses \cup {k} /\ responses'[k] = row
        /\ \A i \in DOMAIN responses : responses'[i] = responses[i]
    BY <1>1, <1>4, <1>12
  <2> HIDE DEF k
  <2> QED BY <1>4, <2>1 DEF ServedBy
<1>13. CASE e.type = "LocalCacheHitComplete"
  <2>1. PICK row : /\ responses' = Append(responses, row)
                   /\ row.served_from_tier = "LocalCache"
    BY <1>13, AnswersRecorded DEF Completions
  <2>2. hits' = hits \cup {k} /\ misses' = misses
    BY <1>12, <2>1
  <2>3. \A i \in DOMAIN f : g[i] = f[i]
    BY <1>1, <1>2, <1>6, <1>7, <1>12, <2>1, <2>2 DEF ServiceTime
  <2>4. SumOf(g) = SumOf(f)
    <3>1. SumOf(f) = SumOver(f, misses) /\ SumOf(g) = SumOver(g, misses)
      BY <1>6, <1>7, <2>2 DEF SumOf, SumOver
    <3> QED BY <1>7, <2>3, <3>1, SumEqual
  <2>5. Cardinality(hits') = Cardinality(hits) + 1
    BY <1>1, <1>4, <2>2, FS_AddElement
  <2>6. HitTime' = HitTime + config.hit_latency
    <3>1. PICK n \in Nat, h \in Nat : n = Cardinality(hits) /\ h = config.hit_latency
      BY <1>1, <1>10
    <3>2. HitTime = n * h /\ HitTime' = (n + 1) * h
      BY <1>2, <2>5, <3>1 DEF HitTime
    <3>3. (n + 1) * h = n * h + h
      OBVIOUS
    <3> QED BY <3>1, <3>2, <3>3
  <2> QED BY <1>8, <1>9, <1>10, <1>13, <2>4, <2>6
<1>14. CASE e.type = "ReturnResponse"
  <2>1. PICK row : /\ responses' = Append(responses, row)
                   /\ row.request_id = id /\ row.served_from_tier = "Memory"
    BY <1>14, AnswersRecorded DEF Completions
  <2>2. hits' = hits /\ misses' = misses \cup {k}
    BY <1>12, <2>1
  <2>3. HitTime' = HitTime
    BY <1>2, <2>2 DEF HitTime
  <2>4. ASSUME NEW i \in DOMAIN f PROVE g[i] = f[i]
    <3>1. i \in misses' /\ i \in DOMAIN responses /\ responses'[i] = responses[i]
      BY <1>1, <1>7, <1>12, <2>1, <2>2
    <3>2. ServiceTime(responses[i].request_id)' = ServiceTime(responses[i].request_id)
      <4>1. PICK j \in Issued : j = responses[i].request_id
        BY <1>1, <3>1
      <4> QED BY <1>2, <3>1, <4>1 DEF ServiceTime
    <3> QED BY <1>6, <1>7, <3>1, <3>2 DEF ServiceTime
  <2>5. g[k] = 2 * Link + ServiceTime(id)
    BY <1>2, <1>3, <1>6, <1>12, <1>14, <2>1, <2>2 DEF ServiceTime, Completions
  <2>6. ServiceTime(id) \in Nat /\ g[k] \in Int
    BY <1>1, <1>3, <1>14, <2>5 DEF Completions
  <2>7. SumOf(g) = SumOf(f) + g[k]
    <3>1. k \notin DOMAIN f /\ DOMAIN g = DOMAIN f \cup {k}
      BY <1>1, <1>4, <1>6, <1>7, <2>2
    <3> HIDE DEF k
    <3> QED BY <1>7, <2>4, <2>6, <3>1, SumGrows
  <2> QED BY <1>8, <1>9, <1>10, <1>14, <2>3, <2>5, <2>7
<1> QED BY <1>11, <1>13, <1>14 DEF Completions

\* After a step, what is recorded adds up to what it did, and the new sample.
LEMMA SamplesAddUp ==
  ASSUME RequestPathInv, HasStatsShape(stats), SamplesOK,
         NEW e \in sched.events, MemoryStep(e) \/ ComputeStep(e)
  PROVE  /\ SamplesOK' /\ total_latency \in Int /\ total_memory_wait \in Int
         /\ total_latency' = total_latency +
              (IF e.type \in Completions THEN e.time - IssuedAt(e.request_id) ELSE 0)
         /\ total_memory_wait' = total_memory_wait +
              (IF e.type = "MemoryServiceStart"
               THEN e.time - EnqueuedAt(e.request_id) ELSE 0)
<1> DEFINE id == e.request_id
           n == e.target_id
           latency == e.time - IssuedAt(id)
           wait == e.time - EnqueuedAt(id)
<1>1. /\ stats'.latencies =
              IF e.type \in Completions
              THEN [stats.latencies EXCEPT ![n] = Append(@, latency)] ELSE stats.latencies
      /\ stats'.memory_waits =
              IF e.type = "MemoryServiceStart"
              THEN Append(stats.memory_waits, wait) ELSE stats.memory_waits
  BY SamplesRecorded DEF Completions
<1>2. e.time \in Int
  BY Referents DEF RequestPathInv, Event, SimTime
<1>3. e.type \in Completions => n \in Nodes /\ latency \in Int
  <2> SUFFICES ASSUME e.type \in Completions PROVE n \in Nodes /\ latency \in Int
    OBVIOUS
  <2>1. id \in Issued /\ n = SourceOf(id)
    BY HeldByAlone DEF Completions, PathTypes, ComputeEventTypes
  <2> QED BY <1>2, <2>1, Referents, AnswerTypes DEF RequestPathInv
<1>4. e.type = "MemoryServiceStart" => wait \in Int
  BY <1>2, StartFindsHead, AnswerTypes
<1> HIDE DEF latency, wait, n
<1>5. PICK lat, new : lat = stats.latencies /\ new = stats'.latencies
  OBVIOUS
<1>6. /\ lat \in [Nodes -> Seq(Int)]
      /\ total_latency = TotalOf(lat) /\ total_latency' = TotalOf(new)
  BY <1>5 DEF SamplesOK, total_latency, TotalOf
<1>7. TotalOf(lat) \in Int
  <2>1. \E m \in Nodes : TRUE
    BY CountAssumption DEF Nodes
  <2> QED BY <1>6, <2>1, SampleAdds
<1>8. /\ new \in [Nodes -> Seq(Int)]
      /\ TotalOf(new) = TotalOf(lat) + (IF e.type \in Completions THEN latency ELSE 0)
  <2>1. CASE e.type \in Completions
    <3>1. new = Sampled(lat, n, latency)
      BY <1>1, <1>5, <2>1 DEF Sampled
    <3>2. /\ new \in [Nodes -> Seq(Int)]
          /\ TotalOf(new) = TotalOf(lat) + latency
      BY <1>3, <1>6, <2>1, <3>1, SampleAdds
    <3> QED BY <2>1, <3>2
  <2>2. CASE e.type \notin Completions
    <3>1. new = lat
      BY <1>1, <1>5, <2>2
    <3> QED BY <1>6, <1>7, <2>2, <3>1
  <2> QED BY <2>1, <2>2
<1>9. PICK waits, after : waits = stats.memory_waits /\ after = stats'.memory_waits
  OBVIOUS
<1>10. /\ waits \in Seq(Int) /\ total_memory_wait = SumOf(waits)
       /\ total_memory_wait' = SumOf(after)
  BY <1>9 DEF SamplesOK, total_memory_wait
<1>11. /\ after \in Seq(Int) /\ SumOf(waits) \in Int
       /\ SumOf(after) = SumOf(waits) + (IF e.type = "MemoryServiceStart" THEN wait ELSE 0)
  <2>1. CASE e.type = "MemoryServiceStart"
    <3>1. after = Append(waits, wait)
      BY <1>1, <1>9, <2>1
    <3> QED BY <1>4, <1>10, <2>1, <3>1, SumOfSamples
  <2>2. CASE e.type # "MemoryServiceStart"
    <3>1. after = waits
      BY <1>1, <1>9, <2>2
    <3>2. SumOf(waits) \in Int
      BY <1>10, SumOfSamples
    <3> QED BY <1>10, <2>2, <3>1, <3>2
  <2> QED BY <2>1, <2>2
<1>12. SamplesOK'
  BY <1>5, <1>8, <1>9, <1>11 DEF SamplesOK
<1> QED BY <1>6, <1>7, <1>8, <1>10, <1>11, <1>12 DEF latency, wait

\* After a step that lets p join what is served, if anything, the waits add up to
\* what they did, without that of e and with that of p.
LEMMA WaitsAddUp ==
  ASSUME RequestPathInv, IsFiniteSet(Serviced),
         NEW e \in sched.events, MemoryStep(e) \/ ComputeStep(e),
         NEW new, Exchanges(e, new), NEW p, NEW joins \in BOOLEAN,
         \A q : q \in new /\ q.type \in ServiceTypes <=> joins /\ q = p,
         joins => p \notin Serviced \ {e} /\ WaitOf(p)' \in Int
  PROVE  /\ IsFiniteSet(Serviced') /\ WaitingTime \in Int
         /\ WaitingTime' = WaitingTime - (IF e.type \in ServiceTypes THEN WaitOf(e) ELSE 0)
                                       + (IF joins THEN WaitOf(p)' ELSE 0)
<1> DEFINE rest == Serviced \ {e}
<1>1. Serviced' = rest \cup (IF joins THEN {p} ELSE {})
  <2>1. \A f : f \in Serviced' <=> (f \in sched'.events /\ f.type \in ServiceTypes)
    BY DEF Serviced
  <2>2. \A f : f.type \in ServiceTypes =>
          (f \in sched'.events <=> (f \in sched.events /\ f # e) \/ f \in new)
    BY DEF Exchanges, ServiceTypes
  <2>3. \A f : f \in Serviced <=> (f \in sched.events /\ f.type \in ServiceTypes)
    BY DEF Serviced
  <2> QED BY <2>1, <2>2, <2>3
<1>2. PICK w, v : w = Waits /\ v = Waits'
  OBVIOUS
<1>3. WaitingTime = SumOver(w, Serviced) /\ WaitingTime' = SumOver(v, Serviced')
  BY <1>2 DEF WaitingTime
<1>4. \A f \in Serviced : w[f] = WaitOf(f)
  BY <1>2 DEF Waits
<1>5. \A f \in Serviced' : v[f] = WaitOf(f)'
  BY <1>2 DEF Waits
<1>6. \A f \in Serviced : WaitOf(f) \in Int /\ WaitOf(f)' = WaitOf(f)
  <2> SUFFICES ASSUME NEW f \in Serviced PROVE WaitOf(f) \in Int /\ WaitOf(f)' = WaitOf(f)
    OBVIOUS
  <2>1. f \in PathEvents /\ f \in sched.events
    BY DEF Serviced, PathEvents, ServiceTypes, PathTypes
  <2>2. f.request_id \in Issued /\ f.time \in Int
    BY <2>1, Referents DEF RequestPathInv, Event, SimTime
  <2>3. PICK id \in Issued : id = f.request_id
    BY <2>2
  <2>4. /\ IssuedAt(id)' = IssuedAt(id) /\ ServiceTime(id)' = ServiceTime(id)
        /\ Link' = Link /\ Crossed(f)' = Crossed(f)
    BY TimesKept DEF KeepsTimes, Link, Crossed
  <2>5. WaitOf(f)' = WaitOf(f)
    BY <2>3, <2>4 DEF WaitOf
  <2>6. IssuedAt(id) \in Nat /\ ServiceTime(id) \in Nat /\ Link \in Nat
    BY AnswerTypes
  <2>7. Crossed(f) \in Int
    BY <2>6 DEF Crossed
  <2>8. WaitOf(f) = f.time - IssuedAt(id) - Crossed(f) - ServiceTime(id)
    BY <2>3 DEF WaitOf
  <2> QED BY <2>2, <2>5, <2>6, <2>7, <2>8
<1>7. \A f \in rest : f \in Serviced' /\ v[f] = w[f]
  BY <1>1, <1>4, <1>5, <1>6
<1>8. IsFiniteSet(rest) /\ SumOver(w, Serviced) \in Int /\ SumOver(w, rest) \in Int
  <2>1. IsFiniteSet(rest) /\ \A f \in Serviced : w[f] \in Int
    BY <1>4, <1>6, FS_Subset
  <2> QED BY <2>1, SumRemove
<1>9. SumOver(w, rest) = SumOver(w, Serviced)
                           - (IF e.type \in ServiceTypes THEN WaitOf(e) ELSE 0)
  <2>1. CASE e.type \in ServiceTypes
    <3>1. e \in Serviced
      BY <2>1 DEF Serviced
    <3>2. w[e] \in Int /\ w[e] = WaitOf(e)
      BY <1>4, <1>6, <3>1
    <3>3. SumOver(w, Serviced) = w[e] + SumOver(w, rest)
      BY <1>4, <1>6, <3>1, SumRemove
    <3> QED BY <1>8, <2>1, <3>2, <3>3
  <2>2. CASE e.type \notin ServiceTypes
    <3>1. rest = Serviced
      BY <2>2 DEF Serviced
    <3> HIDE DEF rest
    <3> QED BY <1>8, <2>2, <3>1
  <2> QED BY <2>1, <2>2
<1>10. SumOver(v, rest) = SumOver(w, rest)
  BY <1>7, <1>8, SumEqual
<1>11. /\ IsFiniteSet(Serviced')
       /\ SumOver(v, Serviced') = SumOver(v, rest) + (IF joins THEN WaitOf(p)' ELSE 0)
  <2>1. CASE joins
    <3>1. Serviced' = rest \cup {p} /\ p \notin rest
      BY <1>1, <2>1
    <3>2. v[p] = WaitOf(p)' /\ v[p] \in Int
      BY <1>5, <2>1, <3>1
    <3>3. \A f \in rest : v[f] \in Int
      BY <1>4, <1>6, <1>7
    <3>4. IsFiniteSet(Serviced')
      BY <1>8, <3>1, FS_AddElement
    <3>5. SumOver(v, rest \cup {p}) = v[p] + SumOver(v, rest)
      <4> HIDE DEF rest
      <4> QED BY <1>8, <3>1, <3>2, <3>3, SumAdd
    <3> QED BY <1>8, <1>10, <2>1, <3>1, <3>2, <3>4, <3>5
  <2>2. CASE ~joins
    <3>1. Serviced' = rest
      BY <1>1, <2>2
    <3> QED BY <1>8, <1>10, <2>2, <3>1
  <2> QED BY <2>1, <2>2
<1> HIDE DEF rest
<1>12. /\ e.type \in ServiceTypes => WaitOf(e) \in Int
       /\ joins => WaitOf(p)' \in Int
  BY <1>6 DEF Serviced
<1> QED BY <1>3, <1>8, <1>9, <1>10, <1>11, <1>12

\* What joins the channels' service, and what the recorded samples and the waits
\* of what is served gain and lose, is what the answers cost.
Balances(e, p, joins) ==
    (IF e.type \in Completions THEN e.time - IssuedAt(e.request_id) ELSE 0)
  - (IF e.type \in ServiceTypes THEN WaitOf(e) ELSE 0)
  + (IF joins THEN WaitOf(p)' ELSE 0)
  =   (IF e.type = "LocalCacheHitComplete" THEN config.hit_latency ELSE 0)
    + (IF e.type = "ReturnResponse" THEN 2 * Link + ServiceTime(e.request_id) ELSE 0)
    + (IF e.type = "MemoryServiceStart" THEN e.time - EnqueuedAt(e.request_id) ELSE 0)

\* The handler of e brings new events, on time, of which p is served if any is,
\* and balances.
BringsOnTime(e, new, p, joins) ==
  /\ Exchanges(e, new)
  /\ \A q : q \in new /\ q.type \in ServiceTypes <=> joins /\ q = p
  /\ \A q \in new : q.type \in PathTypes => OnTime(q)'
  /\ joins => p \notin Serviced \ {e} /\ WaitOf(p)' \in Int
  /\ Balances(e, p, joins)

StaysOnTime(e) ==
  \E new, p : \E joins \in BOOLEAN : BringsOnTime(e, new, p, joins)

\* The request of an event keeps its times, which are numbers.
LEMMA EventTimes ==
  ASSUME RequestPathInv, NEW e \in sched.events, MemoryStep(e) \/ ComputeStep(e),
         e.type # "GenerateRequest"
  PROVE  LET id == e.request_id
         IN /\ id \in Issued /\ e.time \in Int
            /\ IssuedAt(id)' = IssuedAt(id) /\ ServiceTime(id)' = ServiceTime(id)
            /\ Link' = Link /\ config' = config
            /\ IssuedAt(id) \in Nat /\ ServiceTime(id) \in Nat /\ EnqueuedAt(id) \in Nat
            /\ Link \in Nat /\ config.hit_latency \in Nat
<1>1. PICK id \in Issued : id = e.request_id
  BY Referents DEF RequestPathInv
<1>2. e.time \in Int
  BY Referents DEF RequestPathInv, Event, SimTime
<1>3. /\ config' = config
      /\ IssuedAt(id)' = IssuedAt(id) /\ ServiceTime(id)' = ServiceTime(id)
  BY TimesKept DEF KeepsTimes
<1>4. Link' = Link
  BY <1>3 DEF Link
<1> QED BY <1>1, <1>2, <1>3, <1>4, AnswerTypes

\* An event that brings nothing on the path, and is not of a request, balances.
LEMMA QuietOnTime ==
  ASSUME NEW e, NEW new, Exchanges(e, new), e.type \in TokenTypes,
         \A q \in new : q.type \in PathTypes =>
           q.type \notin ServiceTypes /\ OnTime(q)'
  PROVE  StaysOnTime(e)
<1>1. BringsOnTime(e, new, e, FALSE)
  <2>1. /\ e.type \notin Completions /\ e.type \notin ServiceTypes
        /\ e.type # "MemoryServiceStart" /\ e.type # "LocalCacheHitComplete"
        /\ e.type # "ReturnResponse"
    BY DEF Completions, ServiceTypes, TokenTypes
  <2>2. Balances(e, e, FALSE)
    BY <2>1 DEF Balances
  <2>3. \A q \in new : q.type \notin ServiceTypes
    BY DEF ServiceTypes, PathTypes
  <2> QED BY <2>2, <2>3 DEF BringsOnTime
<1> QED BY <1>1 DEF StaysOnTime

\* A lookup brings the end of the hit, or the arrival at the memory node, on time.
LEMMA LookupOnTime ==
  ASSUME TimingInv, RequestPathInv', TimesFit, NEW e \in sched.events,
         MemoryStep(e) \/ ComputeStep(e), e.type = "LocalCacheLookup", LookupEffect(e)
  PROVE  StaysOnTime(e)
<1> USE DEF PathTypes
<1>1. RequestPathInv /\ SimulatorInv'
  BY DEF TimingInv, BarrierInv, RequestPathInv
<1>2. e.time = IssuedAt(e.request_id)
  BY DEF TimingInv, EventsOnTime, OnTime, PathEvents
<1>3. PICK p \in Event :
        /\ p.request_id = e.request_id
        /\ \/ p.type = "LocalCacheHitComplete" /\ p.time = e.time + config.hit_latency
           \/ p.type = "ForwardToMemory" /\ p.time = e.time + config.one_way_link_latency
        /\ Leaves(e, {p})
  BY DEF LookupEffect
<1>4. Exchanges(e, {p})
  BY <1>1, <1>3, StepFacts
<1>5. IssuedAt(e.request_id)' = IssuedAt(e.request_id) /\ Link' = Link /\ config' = config
  BY <1>1, EventTimes
<1>6. IssuedAt(p.request_id)' = e.time
  BY <1>2, <1>3, <1>5
<1>7. OnTime(p)'
  BY <1>3, <1>5, <1>6 DEF OnTime, Link
<1>8. BringsOnTime(e, {p}, p, FALSE)
  <2>1. p.type \notin ServiceTypes
    BY <1>3 DEF ServiceTypes
  <2>2. Balances(e, p, FALSE)
    BY DEF Balances, Completions, ServiceTypes
  <2> QED BY <1>4, <1>7, <2>1, <2>2 DEF BringsOnTime
<1> QED BY <1>8 DEF StaysOnTime

\* A completion brings nothing on the path; what it answers took the hit latency,
\* or the links, the service and the wait that ends with it.
LEMMA CompleteOnTime ==
  ASSUME TimingInv, RequestPathInv', NEW e \in sched.events,
         MemoryStep(e) \/ ComputeStep(e), e.type \in Completions, CompleteEffect(e)
  PROVE  StaysOnTime(e)
<1>1. RequestPathInv /\ SimulatorInv'
  BY DEF TimingInv, BarrierInv, RequestPathInv
<1>2. PICK p \in Event : p.type = "RequestComplete" /\ Leaves(e, {p})
  BY DEF CompleteEffect
<1>3. Exchanges(e, {p})
  BY <1>1, <1>2, StepFacts
<1>4. /\ e.time \in Int /\ IssuedAt(e.request_id) \in Nat
      /\ ServiceTime(e.request_id) \in Nat /\ Link \in Nat /\ config.hit_latency \in Nat
  BY <1>1, EventTimes DEF Completions
<1>5. Balances(e, p, FALSE)
  <2>1. CASE e.type = "LocalCacheHitComplete"
    <3>1. e.time = IssuedAt(e.request_id) + config.hit_latency
      BY <2>1 DEF TimingInv, EventsOnTime, OnTime, PathEvents, PathTypes
    <3> QED BY <1>4, <2>1, <3>1 DEF Balances, Completions, ServiceTypes
  <2>2. CASE e.type = "ReturnResponse"
    <3>1. WaitOf(e) = e.time - IssuedAt(e.request_id) - 2 * Link - ServiceTime(e.request_id)
      BY <2>2 DEF WaitOf, Crossed
    <3> QED BY <1>4, <2>2, <3>1 DEF Balances, Completions, ServiceTypes
  <2> QED BY <2>1, <2>2 DEF Completions
<1>6. BringsOnTime(e, {p}, p, FALSE)
  <2>1. p.type \notin ServiceTypes /\ p.type \notin PathTypes
    BY <1>2 DEF ServiceTypes, PathTypes
  <2> QED BY <1>3, <1>5, <2>1 DEF BringsOnTime
<1> QED BY <1>6 DEF StaysOnTime

\* Forwarding brings at most a start.
LEMMA ForwardOnTime ==
  ASSUME TimingInv, RequestPathInv', NEW e \in sched.events,
         e.type = "ForwardToMemory", ForwardEffect(e)
  PROVE  StaysOnTime(e)
<1>1. RequestPathInv /\ SimulatorInv'
  BY DEF TimingInv, BarrierInv, RequestPathInv
<1>2. PICK p, new : p.type = "MemoryServiceStart" /\ new \subseteq {p} /\ Leaves(e, new)
  BY DEF ForwardEffect
<1>3. Exchanges(e, new)
  BY <1>1, <1>2, StepFacts
<1>4. Balances(e, p, FALSE)
  BY DEF Balances, Completions, ServiceTypes
<1>5. \A q \in new : q.type \notin PathTypes /\ q.type \notin ServiceTypes
  BY <1>2 DEF PathTypes, ServiceTypes
<1>6. BringsOnTime(e, new, p, FALSE)
  BY <1>3, <1>4, <1>5 DEF BringsOnTime
<1> QED BY <1>6 DEF StaysOnTime

\* A start brings the end of the service; the head of the queue has waited since it
\* was enqueued, one link crossing after its issue.
LEMMA ServiceStartOnTime ==
  ASSUME TimingInv, RequestPathInv', TimesFit, NEW e \in sched.events,
         MemoryStep(e) \/ ComputeStep(e), e.type = "MemoryServiceStart",
         ServiceStartEffect(e)
  PROVE  StaysOnTime(e)
<1> DEFINE id == e.request_id
<1>1. RequestPathInv /\ SimulatorInv'
  BY DEF TimingInv, BarrierInv, RequestPathInv
<1>2. PICK p \in Event :
        /\ p.type = "MemoryServiceComplete" /\ p.request_id = id
        /\ p.time = e.time + ServiceTime(id)
        /\ Leaves(e, {p})
  BY DEF ServiceStartEffect, ServiceTime
<1>3. Exchanges(e, {p})
  BY <1>1, <1>2, StepFacts
<1>4. /\ id \in Issued /\ e.time \in Int
      /\ IssuedAt(id)' = IssuedAt(id) /\ ServiceTime(id)' = ServiceTime(id) /\ Link' = Link
      /\ IssuedAt(id) \in Nat /\ ServiceTime(id) \in Nat /\ EnqueuedAt(id) \in Nat
      /\ Link \in Nat
  BY <1>1, EventTimes
<1>5. EnqueuedAt(id) = IssuedAt(id) + Link
  <2>1. PICK c \in ChannelIds :
          QueueOf(c) \in Seq(Issued) /\ QueueOf(c) # <<>> /\ id = Head(QueueOf(c))
    BY <1>1, StartFindsHead
  <2>2. 1 \in 1 .. Len(QueueOf(c)) /\ id = QueueOf(c)[1]
    BY <2>1
  <2> QED BY <2>1, <2>2 DEF TimingInv, QueuedOnTime
<1>6. WaitOf(p)' = e.time - EnqueuedAt(id)
  <2>1. Crossed(p)' = Link
    BY <1>2, <1>4 DEF Crossed
  <2>2. IssuedAt(p.request_id)' = IssuedAt(id) /\ ServiceTime(p.request_id)' = ServiceTime(id)
    BY <1>2, <1>4
  <2>3. WaitOf(p)' = p.time - IssuedAt(id) - Link - ServiceTime(id)
    BY <2>1, <2>2 DEF WaitOf
  <2> HIDE DEF id
  <2> QED BY <1>2, <1>4, <1>5, <2>3
<1>7. p \notin Serviced
  <2>1. \A f \in PathEvents : f.request_id # id
    BY <1>1, StartFindsHead
  <2> QED BY <1>2, <2>1 DEF Serviced, PathEvents, ServiceTypes, PathTypes
<1>8. BringsOnTime(e, {p}, p, TRUE)
  <2>1. p.type \in ServiceTypes /\ OnTime(p)'
    BY <1>2 DEF ServiceTypes, OnTime
  <2>2. Balances(e, p, TRUE)
    BY <1>4, <1>6 DEF Balances, Completions, ServiceTypes
  <2>3. WaitOf(p)' \in Int
    BY <1>4, <1>6
  <2> QED BY <1>3, <1>7, <2>1, <2>2, <2>3 DEF BringsOnTime
<1> QED BY <1>8 DEF StaysOnTime

\* The end of a service brings the response, with the same wait.
LEMMA ServiceCompleteOnTime ==
  ASSUME TimingInv, RequestPathInv', TimesFit, NEW e \in sched.events,
         MemoryStep(e) \/ ComputeStep(e), e.type = "MemoryServiceComplete",
         ServiceCompleteEffect(e)
  PROVE  StaysOnTime(e)
<1> DEFINE id == e.request_id
<1>1. RequestPathInv /\ SimulatorInv'
  BY DEF TimingInv, BarrierInv, RequestPathInv
<1>2. PICK p \in Event, q \in Event, waiting \in BOOLEAN :
        /\ p.type = "ReturnResponse" /\ p.request_id = id
        /\ q.type = "MemoryServiceStart"
        /\ p.time = e.time + Link
        /\ Leaves(e, {p} \cup (IF waiting THEN {q} ELSE {}))
  BY DEF ServiceCompleteEffect, Link
<1>3. PICK new : new = {p} \cup (IF waiting THEN {q} ELSE {})
  OBVIOUS
<1>4. Exchanges(e, new)
  BY <1>1, <1>2, <1>3, StepFacts
<1>5. /\ id \in Issued /\ e.time \in Int
      /\ IssuedAt(id)' = IssuedAt(id) /\ ServiceTime(id)' = ServiceTime(id) /\ Link' = Link
      /\ IssuedAt(id) \in Nat /\ ServiceTime(id) \in Nat /\ Link \in Nat
  BY <1>1, EventTimes
<1>6. WaitOf(p)' = WaitOf(e) /\ WaitOf(e) \in Int
  <2>1. Crossed(p)' = 2 * Link /\ Crossed(e) = Link
    BY <1>2, <1>5 DEF Crossed
  <2>2. IssuedAt(p.request_id)' = IssuedAt(id) /\ ServiceTime(p.request_id)' = ServiceTime(id)
    BY <1>2, <1>5
  <2>3. WaitOf(p)' = p.time - IssuedAt(id) - 2 * Link - ServiceTime(id)
    BY <2>1, <2>2 DEF WaitOf
  <2>4. WaitOf(e) = e.time - IssuedAt(id) - Link - ServiceTime(id)
    BY <2>1 DEF WaitOf
  <2> HIDE DEF id
  <2> QED BY <1>2, <1>5, <2>3, <2>4
<1>7. p \notin Serviced \ {e}
  <2>1. \A f \in PathEvents : f # e => f.request_id # id
    BY <1>1, HeldByAlone DEF PathTypes
  <2> QED BY <1>2, <2>1 DEF Serviced, PathEvents, ServiceTypes, PathTypes
<1>8. BringsOnTime(e, new, p, TRUE)
  <2>1. p.type \in ServiceTypes /\ q.type \notin ServiceTypes /\ q.type \notin PathTypes
    BY <1>2 DEF ServiceTypes, PathTypes
  <2>2. OnTime(p)'
    BY <1>2 DEF OnTime
  <2>3. Balances(e, p, TRUE)
    BY <1>6 DEF Balances, Completions, ServiceTypes
  <2>4. WaitOf(p)' \in Int
    BY <1>6
  <2>5. \A f : f \in new => f = p \/ f = q
    BY <1>3
  <2>6. p \in new
    BY <1>3
  <2> QED BY <1>4, <1>7, <2>1, <2>2, <2>3, <2>4, <2>5, <2>6 DEF BringsOnTime
<1> QED BY <1>8 DEF StaysOnTime

\* The amounts of a step are integers.
LEMMA StepAmounts ==
  ASSUME RequestPathInv, NEW e \in sched.events, MemoryStep(e) \/ ComputeStep(e)
  PROVE  /\ (IF e.type \in Completions THEN e.time - IssuedAt(e.request_id) ELSE 0) \in Int
         /\ (IF e.type \in ServiceTypes THEN WaitOf(e) ELSE 0) \in Int
         /\ (IF e.type = "LocalCacheHitComplete" THEN config.hit_latency ELSE 0) \in Int
         /\ (IF e.type = "ReturnResponse"
             THEN 2 * Link + ServiceTime(e.request_id) ELSE 0) \in Int
         /\ (IF e.type = "MemoryServiceStart"
             THEN e.time - EnqueuedAt(e.request_id) ELSE 0) \in Int
<1>1. CASE e.type = "GenerateRequest"
  BY <1>1 DEF Completions, ServiceTypes
<1>2. CASE e.type # "GenerateRequest"
  <2>1. /\ e.time \in Int
        /\ IssuedAt(e.request_id) \in Nat /\ ServiceTime(e.request_id) \in Nat
        /\ EnqueuedAt(e.request_id) \in Nat
        /\ Link \in Nat /\ config.hit_latency \in Nat
    BY <1>2, EventTimes
  <2>2. Crossed(e) \in Int
    BY <2>1 DEF Crossed
  <2>3. WaitOf(e) \in Int
    BY <2>1, <2>2 DEF WaitOf
  <2> QED BY <2>1, <2>3
<1> QED BY <1>1, <1>2

\* A request is issued at the time of its lookup.
LEMMA IssueOnTime ==
  ASSUME TimingInv, RequestPathInv', NEW e \in sched.events,
         e.type = "GenerateRequest", IssueEffect(e)
  PROVE  StaysOnTime(e)
<1>1. RequestPathInv /\ SimulatorInv'
  BY DEF TimingInv, BarrierInv, RequestPathInv
<1>2. PICK p, g, new :
        /\ p.type = "LocalCacheLookup" /\ p.time = e.time
        /\ request_table'[p.request_id].issue_time = e.time
        /\ g.type = "GenerateRequest"
        /\ new \subseteq {p, g} /\ Leaves(e, new)
  <2>1. PICK id \in Nat \ {0}, p \in Event, g \in Event, more \in BOOLEAN :
          /\ p.type = "LocalCacheLookup" /\ p.request_id = id /\ p.time = e.time
          /\ request_table'[id].issue_time = e.time
          /\ g.type = "GenerateRequest"
          /\ Leaves(e, {p} \cup (IF more THEN {g} ELSE {}))
    BY DEF IssueEffect
  <2>2. PICK new : new = {p} \cup (IF more THEN {g} ELSE {})
    OBVIOUS
  <2> QED BY <2>1, <2>2
<1>3. Exchanges(e, new)
  BY <1>1, <1>2, StepFacts
<1>4. OnTime(p)'
  BY <1>2 DEF OnTime, IssuedAt
<1>5. \A q \in new : q.type \in PathTypes => q.type \notin ServiceTypes /\ OnTime(q)'
  <2> SUFFICES ASSUME NEW q \in new, q.type \in PathTypes
               PROVE  q.type \notin ServiceTypes /\ OnTime(q)'
    OBVIOUS
  <2>1. q = p
    BY <1>2 DEF PathTypes
  <2> QED BY <1>2, <1>4, <2>1 DEF ServiceTypes
<1> QED BY <1>3, <1>5, QuietOnTime DEF TokenTypes

\* Every handler stays on time.
LEMMA HandlerOnTime ==
  ASSUME TimingInv, RequestPathInv', TimesFit, NEW e \in sched.events,
         MemoryStep(e) \/ ComputeStep(e)
  PROVE  StaysOnTime(e)
<1>1. RequestPathInv /\ SimulatorInv'
  BY DEF TimingInv, BarrierInv, RequestPathInv
<1>2. HandlerEffect(e)
  BY <1>1, StepHasEffect
<1>3. CASE e.type = "GenerateRequest" /\ NothingToIssueEffect(e)
  <2>1. Exchanges(e, {})
    BY <1>1, <1>3, StepFacts DEF NothingToIssueEffect
  <2> QED BY <1>3, <2>1, QuietOnTime DEF TokenTypes
<1>4. CASE e.type = "GenerateRequest" /\ IssueEffect(e)
  BY <1>4, IssueOnTime
<1>5. CASE e.type = "LocalCacheLookup" /\ LookupEffect(e)
  BY <1>5, LookupOnTime
<1>6. CASE e.type \in {"LocalCacheHitComplete", "ReturnResponse"} /\ CompleteEffect(e)
  BY <1>6, CompleteOnTime DEF Completions
<1>7. CASE e.type = "RequestComplete" /\ RequestCompleteEffect(e)
  <2>1. PICK g, new : /\ g.type = "GenerateRequest" /\ new \subseteq {g}
                      /\ Leaves(e, new)
    BY <1>7 DEF RequestCompleteEffect
  <2>2. Exchanges(e, new)
    BY <1>1, <2>1, StepFacts
  <2>3. \A q \in new : q.type \notin PathTypes
    BY <2>1 DEF PathTypes
  <2> QED BY <1>7, <2>2, <2>3, QuietOnTime DEF TokenTypes
<1>8. CASE e.type = "ForwardToMemory" /\ ForwardEffect(e)
  BY <1>8, ForwardOnTime
<1>9. CASE e.type = "MemoryServiceStart" /\ ServiceStartEffect(e)
  BY <1>9, ServiceStartOnTime
<1>10. CASE e.type = "MemoryServiceComplete" /\ ServiceCompleteEffect(e)
  BY <1>10, ServiceCompleteOnTime
<1> QED BY <1>2, <1>3, <1>4, <1>5, <1>6, <1>7, <1>8, <1>9, <1>10 DEF HandlerEffect

\* What a queue holds after a handler it held before, or is being forwarded.
LEMMA QueueElements ==
  ASSUME RequestPathInv, NEW e \in sched.events, MemoryStep(e) \/ ComputeStep(e),
         NEW c \in ChannelIds, NEW i \in 1 .. Len(channels'[c].queued_requests)
  PROVE  LET id == channels'[c].queued_requests[i]
         IN \/ \E j \in 1 .. Len(QueueOf(c)) : id = QueueOf(c)[j]
            \/ e.type = "ForwardToMemory" /\ id = e.request_id
<1>1. HandlerEffect(e)
  BY StepHasEffect
<1>2. QueueOf(c) \in Seq(Issued)
  BY Referents DEF RequestPathInv
<1>3. PICK Q, R : Q = QueueOf(c) /\ R = channels'[c].queued_requests
  OBVIOUS
<1>4. Q \in Seq(Issued)
  BY <1>2, <1>3
<1>5. CASE e.type = "ForwardToMemory" /\ ForwardEffect(e)
  <2>1. R = Q \/ R = Append(Q, e.request_id)
    BY <1>3, <1>5 DEF ForwardEffect, ChannelBecomes, QueueOf
  <2>2. i \in 1 .. Len(R)
    BY <1>3
  <2>3. (\E j \in 1 .. Len(Q) : R[i] = Q[j]) \/ R[i] = e.request_id
    BY <1>4, <2>1, <2>2
  <2> QED BY <1>3, <1>5, <2>3
<1>6. CASE e.type = "MemoryServiceStart" /\ ServiceStartEffect(e)
  <2>1. R = Q \/ (R = Tail(Q) /\ Q # <<>>)
    <3>1. PICK d : d = ChannelOf(e.request_id) /\ QueueOf(d) # <<>>
      BY <1>6, StartFindsHead
    <3>2. /\ channels'[d].queued_requests = Tail(QueueOf(d))
          /\ c # d => channels'[c] = channels[c]
      BY <1>6, <3>1 DEF ServiceStartEffect, ChannelBecomes
    <3>3. CASE c = d
      BY <1>3, <3>1, <3>2, <3>3
    <3>4. CASE c # d
      BY <1>3, <3>2, <3>4 DEF QueueOf
    <3> QED BY <3>3, <3>4
  <2>2. i \in 1 .. Len(R)
    BY <1>3
  <2>3. \E j \in 1 .. Len(Q) : R[i] = Q[j]
    <3>1. CASE R = Q
      BY <2>2, <3>1
    <3>2. CASE R = Tail(Q) /\ Q # <<>>
      <4>1. i + 1 \in 1 .. Len(Q) /\ R[i] = Q[i + 1]
        BY <1>4, <2>2, <3>2
      <4> QED BY <4>1
    <3> QED BY <2>1, <3>1, <3>2
  <2> QED BY <1>3, <2>3
<1>7. CASE R = Q
  BY <1>3, <1>7
<1>8. CASE e.type = "MemoryServiceComplete" /\ ServiceCompleteEffect(e)
  <2>1. R = Q
    BY <1>3, <1>8 DEF ServiceCompleteEffect, ChannelBecomes, QueueOf
  <2> QED BY <1>7, <2>1
<1>9. CASE UNCHANGED channels
  <2>1. R = Q
    BY <1>3, <1>9 DEF QueueOf
  <2> QED BY <1>7, <2>1
<1> QED BY <1>1, <1>5, <1>6, <1>8, <1>9 DEF HandlerEffect, NothingToIssueEffect,
       IssueEffect, LookupEffect, CompleteEffect, RequestCompleteEffect

\* Whoever joins a queue was issued one link crossing before, and the others keep
\* when they were enqueued.
LEMMA QueuesStayOnTime ==
  ASSUME TimingInv, NEW e \in sched.events, MemoryStep(e) \/ ComputeStep(e)
  PROVE  QueuedOnTime'
<1>1. RequestPathInv /\ SimulatorInv
  BY DEF TimingInv, BarrierInv, RequestPathInv
<1>2. ChannelIds' = ChannelIds /\ config' = config
  BY <1>1, StepKeepsRequests, TimesKept DEF KeepsTimes
<1>3. ASSUME NEW c \in ChannelIds, NEW i \in 1 .. Len(QueueOf(c)')
      PROVE  (EnqueuedAt(QueueOf(c)[i]) = IssuedAt(QueueOf(c)[i]) + Link)'
  <2>1. PICK id : id = channels'[c].queued_requests[i] /\ QueueOf(c)'[i] = id
    BY DEF QueueOf
  <2>2. \/ \E j \in 1 .. Len(QueueOf(c)) : id = QueueOf(c)[j]
        \/ e.type = "ForwardToMemory" /\ id = e.request_id
    <3>1. i \in 1 .. Len(channels'[c].queued_requests)
      BY DEF QueueOf
    <3> QED BY <1>1, <2>1, <3>1, QueueElements
  <2>3. id \in Issued
    BY <1>1, <2>2, Referents
  <2>4. /\ IssuedAt(id)' = IssuedAt(id)
        /\ EnqueuedAt(id)' = IF e.type = "ForwardToMemory" /\ id = e.request_id
                             THEN e.time ELSE EnqueuedAt(id)
    BY <1>1, <2>3, RequestsStand
  <2>5. (IF e.type = "ForwardToMemory" /\ id = e.request_id
         THEN e.time ELSE EnqueuedAt(id)) = IssuedAt(id) + Link
    <3>1. CASE e.type = "ForwardToMemory" /\ id = e.request_id
      BY <3>1 DEF TimingInv, EventsOnTime, OnTime, PathEvents, PathTypes
    <3>2. CASE ~(e.type = "ForwardToMemory" /\ id = e.request_id)
      BY <2>2, <3>2 DEF TimingInv, QueuedOnTime
    <3> QED BY <3>1, <3>2
  <2>6. EnqueuedAt(id)' = IssuedAt(id)' + Link'
    BY <1>2, <2>4, <2>5 DEF Link
  <2> QED BY <2>1, <2>6 DEF EnqueuedAt, IssuedAt
<1> QED BY <1>2, <1>3 DEF QueuedOnTime

\* A handler keeps the ledger balanced.
LEMMA TimingStep ==
  ASSUME TimingInv, TimesFit, BarrierInv', NEW e \in sched.events,
         MemoryStep(e) \/ ComputeStep(e)
  PROVE  TimingInv'
<1>1. RequestPathInv /\ RequestPathInv' /\ HasStatsShape(stats) /\ SamplesOK
  BY DEF TimingInv, BarrierInv
<1>2. PICK new, p : \E joins \in BOOLEAN : BringsOnTime(e, new, p, joins)
  BY <1>1, HandlerOnTime DEF StaysOnTime
<1>3. PICK joins \in BOOLEAN : BringsOnTime(e, new, p, joins)
  BY <1>2
<1>4. /\ Exchanges(e, new)
      /\ \A q : q \in new /\ q.type \in ServiceTypes <=> joins /\ q = p
      /\ joins => p \notin Serviced \ {e} /\ WaitOf(p)' \in Int
  BY <1>3 DEF BringsOnTime
<1>5. EventsOnTime'
  <2> SUFFICES ASSUME NEW f \in PathEvents' PROVE OnTime(f)'
    BY DEF EventsOnTime
  <2>1. f \in sched'.events /\ f.type \in PathTypes
    BY DEF PathEvents
  <2>2. (f \in sched.events /\ f # e) \/ f \in new
    <3>1. f.type # "GenerateRequest"
      BY <2>1 DEF PathTypes
    <3> QED BY <1>4, <2>1, <3>1 DEF Exchanges
  <2>3. CASE f \in new
    BY <1>3, <2>1, <2>3 DEF BringsOnTime
  <2>4. CASE f \in sched.events
    <3>1. f \in PathEvents
      BY <2>1, <2>4 DEF PathEvents
    <3>2. PICK id \in Issued : id = f.request_id
      BY <1>1, <3>1, Referents DEF RequestPathInv
    <3>3. IssuedAt(id)' = IssuedAt(id) /\ config' = config
      BY <1>1, TimesKept DEF KeepsTimes
    <3>4. OnTime(f)
      BY <3>1 DEF TimingInv, EventsOnTime
    <3> QED BY <3>2, <3>3, <3>4 DEF OnTime, Link
  <2> QED BY <2>2, <2>3, <2>4
<1>6. QueuedOnTime'
  BY QueuesStayOnTime
<1>7. IsFiniteSet(Serviced)
  BY DEF TimingInv
<1>8. /\ IsFiniteSet(Serviced') /\ WaitingTime \in Int
      /\ WaitingTime' = WaitingTime - (IF e.type \in ServiceTypes THEN WaitOf(e) ELSE 0)
                                    + (IF joins THEN WaitOf(p)' ELSE 0)
  BY <1>1, <1>4, <1>7, WaitsAddUp
<1>9. /\ HitTime \in Int /\ RemoteTime \in Int
      /\ HitTime' = HitTime + (IF e.type = "LocalCacheHitComplete"
                               THEN config.hit_latency ELSE 0)
      /\ RemoteTime' = RemoteTime + (IF e.type = "ReturnResponse"
                                     THEN 2 * Link + ServiceTime(e.request_id) ELSE 0)
  BY <1>1, AnswersAddUp
<1>10. /\ SamplesOK' /\ total_latency \in Int /\ total_memory_wait \in Int
       /\ total_latency' = total_latency +
            (IF e.type \in Completions THEN e.time - IssuedAt(e.request_id) ELSE 0)
       /\ total_memory_wait' = total_memory_wait +
            (IF e.type = "MemoryServiceStart"
             THEN e.time - EnqueuedAt(e.request_id) ELSE 0)
  BY <1>1, SamplesAddUp
<1>11. PICK latency, left, joined, hit, remote, wait :
         /\ latency = IF e.type \in Completions THEN e.time - IssuedAt(e.request_id) ELSE 0
         /\ left = IF e.type \in ServiceTypes THEN WaitOf(e) ELSE 0
         /\ joined = IF joins THEN WaitOf(p)' ELSE 0
         /\ hit = IF e.type = "LocalCacheHitComplete" THEN config.hit_latency ELSE 0
         /\ remote = IF e.type = "ReturnResponse"
                     THEN 2 * Link + ServiceTime(e.request_id) ELSE 0
         /\ wait = IF e.type = "MemoryServiceStart"
                   THEN e.time - EnqueuedAt(e.request_id) ELSE 0
  OBVIOUS
<1>12. latency - left + joined = hit + remote + wait
  BY <1>3, <1>11 DEF BringsOnTime, Balances
<1>13. /\ latency \in Int /\ left \in Int /\ joined \in Int
       /\ hit \in Int /\ remote \in Int /\ wait \in Int
  BY <1>4, <1>11, StepAmounts DEF TimingInv, BarrierInv
<1>14. /\ total_latency' = total_latency + latency
       /\ total_memory_wait' = total_memory_wait + wait
       /\ WaitingTime' = WaitingTime - left + joined
       /\ HitTime' = HitTime + hit /\ RemoteTime' = RemoteTime + remote
  BY <1>8, <1>9, <1>10, <1>11
<1>15. LedgerBalances'
  <2>1. PICK T, M, W, H, R : /\ T = total_latency /\ M = total_memory_wait
                             /\ W = WaitingTime /\ H = HitTime /\ R = RemoteTime
    OBVIOUS
  <2>2. /\ T \in Int /\ M \in Int /\ W \in Int /\ H \in Int /\ R \in Int
        /\ T + W = H + R + M
    BY <1>8, <1>9, <1>10, <2>1 DEF TimingInv, LedgerBalances
  <2>3. (T + latency) + (W - left + joined) = (H + hit) + (R + remote) + (M + wait)
    BY <1>12, <1>13, <2>2
  <2>4. /\ total_latency' = T + latency /\ total_memory_wait' = M + wait
        /\ WaitingTime' = W - left + joined
        /\ HitTime' = H + hit /\ RemoteTime' = R + remote
    BY <1>14, <2>1
  <2>5. total_latency' + WaitingTime' = HitTime' + RemoteTime' + total_memory_wait'
    BY <2>3, <2>4
  <2> QED BY <2>5 DEF LedgerBalances
<1> QED BY <1>5, <1>6, <1>8, <1>10, <1>15 DEF TimingInv

\* Nothing is recorded, answered or served at first.
LEMMA TimingInit == Init => TimingInv
<1> SUFFICES ASSUME Init PROVE TimingInv
  OBVIOUS
<1>1. BarrierInv /\ sched.events = {} /\ responses = <<>> /\ stats = NewStats
  BY BarrierInit DEF Init, EmptyScheduler
<1>2. Serviced = {} /\ PathEvents = {} /\ IsFiniteSet(Serviced)
  BY <1>1, FS_EmptySet DEF Serviced, PathEvents
<1>3. /\ stats.latencies = [n \in Nodes |-> <<>>] /\ stats.memory_waits = <<>>
  BY <1>1 DEF NewStats
<1>4. SamplesOK
  BY <1>3 DEF SamplesOK
<1>5. EventsOnTime
  BY <1>2 DEF EventsOnTime
<1>6. QueuedOnTime
  <2>1. \A c \in ChannelIds : QueueOf(c) = <<>>
    BY DEF Init, QueueOf, NewChannel
  <2> QED BY <2>1 DEF QueuedOnTime
<1>7. SumOf(<<>>) = 0
  BY SumOfNothing
<1>8. total_memory_wait = 0
  BY <1>3, <1>7 DEF total_memory_wait
<1>9. total_latency = 0
  <2>1. PICK sums : sums = [n \in Nodes |-> SumOf(stats.latencies[n])]
    OBVIOUS
  <2>2. \A n \in Nodes : sums[n] = 0
    BY <1>3, <1>7, <2>1
  <2>3. SumOf(sums) = SumOver(sums, Nodes) /\ IsFiniteSet(Nodes)
    BY <1>4, <2>1, TotalOfSamples DEF SamplesOK
  <2>4. SumOver(sums, Nodes) = 0
    BY <2>2, <2>3, SumOfZeros
  <2> QED BY <2>1, <2>3, <2>4 DEF total_latency
<1>10. \A tier : ServedBy(tier) = {}
  BY <1>1 DEF ServedBy
<1>11. HitTime = 0
  <2>1. Cardinality(ServedBy("LocalCache")) = 0
    BY <1>10, FS_EmptySet
  <2>2. config.hit_latency \in Nat
    BY <1>1, AnswerTypes DEF BarrierInv
  <2> QED BY <2>1, <2>2 DEF HitTime
<1>12. RemoteTime = 0
  <2>1. DOMAIN Remote = {}
    BY <1>10 DEF Remote
  <2>2. SumOver(Remote, {}) = 0
    BY FS_EmptySet, SumUnfolds
  <2> QED BY <2>1, <2>2 DEF RemoteTime, SumOf, SumOver
<1>13. WaitingTime = 0
  BY <1>2, SumUnfolds DEF WaitingTime
<1>14. LedgerBalances
  BY <1>8, <1>9, <1>11, <1>12, <1>13 DEF LedgerBalances
<1> QED BY <1>1, <1>2, <1>4, <1>5, <1>6, <1>14 DEF TimingInv

\* A step that records and answers nothing, and leaves the requests, the queues and
\* the events on the path, keeps the ledger.
LEMMA TimingKept ==
  ASSUME TimingInv, BarrierInv',
         UNCHANGED <<config, stats, request_table, responses, channels>>,
         Serviced' = Serviced, PathEvents' = PathEvents
  PROVE  TimingInv'
<1>1. \A id : /\ IssuedAt(id)' = IssuedAt(id) /\ EnqueuedAt(id)' = EnqueuedAt(id)
              /\ ServiceTime(id)' = ServiceTime(id)
  BY DEF IssuedAt, EnqueuedAt, ServiceTime, service_time_for
<1>2. Link' = Link /\ ChannelIds' = ChannelIds
  BY DEF Link, ChannelIds
<1>3. EventsOnTime'
  <2>1. \A f : OnTime(f)' <=> OnTime(f)
    BY <1>1, <1>2 DEF OnTime
  <2> QED BY <2>1 DEF TimingInv, EventsOnTime
<1>4. QueuedOnTime'
  <2>1. \A c : QueueOf(c)' = QueueOf(c)
    BY DEF QueueOf
  <2> QED BY <1>1, <1>2, <2>1 DEF TimingInv, QueuedOnTime
<1>5. Waits' = Waits
  <2>1. \A f : WaitOf(f)' = WaitOf(f)
    BY <1>1, <1>2 DEF WaitOf, Crossed
  <2> QED BY <2>1 DEF Waits
<1>6. WaitingTime' = WaitingTime
  BY <1>5 DEF WaitingTime
<1>7. /\ \A tier : ServedBy(tier)' = ServedBy(tier)
      /\ total_latency' = total_latency /\ total_memory_wait' = total_memory_wait
  BY DEF ServedBy, total_latency, total_memory_wait
<1>8. HitTime' = HitTime
  BY <1>7 DEF HitTime
<1>9. RemoteTime' = RemoteTime
  <2>1. Remote' = Remote
    BY <1>7 DEF Remote, service_time_for
  <2> QED BY <2>1 DEF RemoteTime
<1>10. LedgerBalances' /\ SamplesOK' /\ IsFiniteSet(Serviced')
  BY <1>6, <1>7, <1>8, <1>9 DEF TimingInv, LedgerBalances, SamplesOK
<1> QED BY <1>3, <1>4, <1>10 DEF TimingInv

\* Every step keeps the ledger balanced, while no time wraps.
LEMMA TimingNext == TimingInv /\ TimesFit /\ [Next]_vars => TimingInv'
<1> SUFFICES ASSUME TimingInv, TimesFit, [Next]_vars PROVE TimingInv'
  OBVIOUS
<1>1. BarrierInv /\ BarrierInv' /\ RequestPathInv'
  BY BarrierNext DEF TimingInv, BarrierInv
<1>2. CASE Run
  <2>1. /\ sched.events = {}
        /\ \A f \in sched'.events : f.type = "GenerateRequest"
    <3>1. sched.events = {} /\ (sched' = sched \/ Releases)
      BY <1>1, <1>2, BarrierRun
    <3> QED BY <3>1 DEF Releases
  <2>2. Serviced' = Serviced /\ PathEvents' = PathEvents
    BY <2>1 DEF Serviced, PathEvents, ServiceTypes, PathTypes
  <2> QED BY <1>1, <1>2, <2>2, TimingKept DEF Run
<1>3. ASSUME NEW e \in sched.events, MemoryStep(e) \/ ComputeStep(e)
      PROVE  TimingInv'
  BY <1>1, <1>3, TimingStep
<1>4. CASE UNCHANGED vars
  <2>1. Serviced' = Serviced /\ PathEvents' = PathEvents
    BY <1>4 DEF Serviced, PathEvents, vars
  <2> QED BY <1>1, <1>4, <2>1, TimingKept DEF vars
<1> QED BY <1>2, <1>3, <1>4 DEF Next, Finished

\* When nothing is pending, nothing is served, and the ledger is the attribution.
LEMMA DrainedLedgerAttributes == TimingInv => LatencyIsAccountedFor
<1> SUFFICES ASSUME TimingInv, sched.events = {}
             PROVE  total_latency = HitTime + RemoteTime + total_memory_wait
  BY DEF LatencyIsAccountedFor, HitTime, RemoteTime, Remote
<1>1. Serviced = {}
  BY DEF Serviced
<1>2. WaitingTime = 0
  BY <1>1, FS_EmptySet, SumUnfolds DEF WaitingTime
<1>3. PICK T : T = total_latency
  OBVIOUS
<1>4. T \in Int
  <2>1. \E m \in Nodes : TRUE
    BY CountAssumption DEF Nodes
  <2>2. PICK lat : lat = stats.latencies /\ lat \in [Nodes -> Seq(Int)]
    BY DEF TimingInv, SamplesOK
  <2>3. T = TotalOf(lat)
    BY <1>3, <2>2 DEF total_latency, TotalOf
  <2> QED BY <2>1, <2>2, <2>3, SampleAdds
<1>5. T + 0 = HitTime + RemoteTime + total_memory_wait
  BY <1>2, <1>3 DEF TimingInv, LedgerBalances
<1> QED BY <1>3, <1>4, <1>5

\* Once drained, the latencies that the reports add up are the hit latencies, two
\* link crossings and one service for each miss, and the queueing that the memory
\* node measured, for every workload and configuration: as long as no time wraps
\* around (record_latency and record_memory_wait see every moment of a request
\* once, compute_node.cpp and memory_node.cpp).
THEOREM LatencyIsAttributed == Spec /\ []TimesFit => []LatencyIsAccountedFor
<1>1. Spec /\ []TimesFit => []TimingInv
  BY TimingInit, TimingNext, PTL DEF Spec
<1> QED BY <1>1, DrainedLedgerAttributes, PTL
=============================================================================
