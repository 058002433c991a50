-------------------------- MODULE SimulatorProofs ---------------------------
(***************************************************************************)
(* Proofs about the composed simulator, for every number of nodes, every   *)
(* SimTime range and every set of configurations.                          *)
(*                                                                         *)
(* Its state is well typed, its event queue is sound and its event log is  *)
(* in time order.                                                          *)
(*                                                                         *)
(* The path of a request: no request is in two places, the flags of a      *)
(* memory channel agree with the event queue, the outstanding counts are   *)
(* exact, and so no handler ever throws.                                   *)
(***************************************************************************)
EXTENDS Simulator, DataProofs, SequenceTheorems

-----------------------------------------------------------------------------
(* The scheduler and the release *)

\* Unsigned addition stays in SimTime.
LEMMA PlusType ==
  ASSUME NEW a \in Nat, NEW b \in Nat
  PROVE  Plus(a, b) \in SimTime
BY RangeAssumption, SMTT(30) DEF Plus, SimTime

\* Scheduler::schedule keeps the queue sound and the clock where it is.
LEMMA ScheduleQueueOK ==
  ASSUME NEW ids, NEW s, QueueOK(s, ids),
         NEW time \in SimTime, NEW type \in EventType, NEW target \in Targets,
         NEW id \in Nat, type # "GenerateRequest" => id \in ids
  PROVE  LET t == schedule(s, MakeEvent(time, type, target, id))
         IN QueueOK(t, ids) /\ t.current_time = s.current_time
<1> DEFINE ev == MakeEvent(time, type, target, id)
           new == Stamp(ev, s.next_sequence)
           t == schedule(s, ev)
<1> s \in SchedulerState
  BY DEF QueueOK
<1>1. CASE time < s.current_time
  BY <1>1 DEF schedule, MakeEvent
<1>2. CASE ~(time < s.current_time)
  <2>1. /\ new \in Event
        /\ new.time = time /\ new.sequence = s.next_sequence
        /\ new.type = type /\ new.request_id = id
    BY DEF Stamp, MakeEvent, Event, SchedulerState
  <2>2. /\ t.events = s.events \cup {new}
        /\ t.next_sequence = s.next_sequence + 1
        /\ t.current_time = s.current_time
        /\ t \in SchedulerState
    <3>1. ev.time = time
      BY DEF MakeEvent
    <3>2. t = [current_time |-> s.current_time,
               next_sequence |-> s.next_sequence + 1,
               events |-> s.events \cup {new}]
      BY <1>2, <3>1 DEF schedule
    <3> HIDE DEF new, t
    <3> QED BY <2>1, <3>2 DEF SchedulerState
  <2>3. \A e \in s.events : e \in Event
    BY DEF SchedulerState
  <2>4. QueueOK(t, ids)
    <3> HIDE DEF new, t
    <3> QED BY <1>2, <2>1, <2>2, <2>3 DEF QueueOK, SchedulerState, Event, SimTime
  <2> QED BY <2>2, <2>4
<1> QED BY <1>1, <1>2

\* Scheduler::pop_next keeps the queue sound and moves the clock forward, to the
\* event it returns.
LEMMA PopQueueOK ==
  ASSUME NEW ids, NEW s, QueueOK(s, ids), NEW e, IsNext(s, e)
  PROVE  /\ QueueOK(pop_next(s, e), ids)
         /\ pop_next(s, e).current_time = e.time
         /\ e \in Event
         /\ s.current_time <= e.time
<1> DEFINE t == pop_next(s, e)
<1>1. s \in SchedulerState /\ e \in s.events /\ s.events \subseteq Event
  BY DEF QueueOK, SchedulerState, IsNext
<1>2. /\ t.current_time = e.time
      /\ t.next_sequence = s.next_sequence
      /\ t.events = s.events \ {e}
      /\ t \in SchedulerState
  BY <1>1 DEF pop_next, SchedulerState, Event
<1>3. \A f \in t.events : f.time >= e.time
  BY <1>1, <1>2 DEF IsNext, Before, Event, SimTime
<1> HIDE DEF t
<1>4. QueueOK(t, ids)
  BY <1>1, <1>2, <1>3 DEF QueueOK
<1> QED BY <1>1, <1>2, <1>4 DEF t, QueueOK

\* The sequence numbers of a release follow the order of the nodes: the rank of
\* a node among finitely many is below their number, and grows with the node.
LEMMA RankOrder ==
  ASSUME NEW A \in SUBSET Nodes
  PROVE  LET rank(n) == Cardinality({m \in A : m < n})
         IN /\ Cardinality(A) \in Nat
            /\ \A n \in A : rank(n) \in Nat /\ rank(n) < Cardinality(A)
            /\ \A n, k \in A : n < k => rank(n) < rank(k)
<1> DEFINE below(n) == {m \in A : m < n}
<1>0. \A n \in A : n \in Int
  BY CountAssumption DEF Nodes
<1>1. IsFiniteSet(A) /\ Cardinality(A) \in Nat
  <2>1. IsFiniteSet(Nodes)
    BY CountAssumption, FS_Interval DEF Nodes
  <2>2. IsFiniteSet(A)
    BY <2>1, FS_Subset
  <2> QED BY <2>2, FS_CardinalityType
<1>2. ASSUME NEW n \in A
      PROVE  IsFiniteSet(below(n)) /\ Cardinality(below(n)) \in Nat
             /\ Cardinality(below(n)) < Cardinality(A)
  <2>1. below(n) \in SUBSET A /\ below(n) # A
    BY <1>0
  <2> HIDE DEF below
  <2>2. IsFiniteSet(below(n)) /\ Cardinality(below(n)) <= Cardinality(A)
        /\ Cardinality(below(n)) # Cardinality(A)
    BY <1>1, <2>1, FS_Subset
  <2>3. Cardinality(below(n)) \in Nat
    BY <2>2, FS_CardinalityType
  <2> QED BY <1>1, <2>2, <2>3
<1>3. ASSUME NEW n \in A, NEW k \in A, n < k
      PROVE  Cardinality(below(n)) < Cardinality(below(k))
  <2>1. below(n) \in SUBSET below(k) /\ below(n) # below(k)
    <3>1. n \in below(k) /\ n \notin below(n)
      BY <1>0, <1>3
    <3>2. \A m \in A : m < n => m < k
      BY <1>0, <1>3
    <3> QED BY <3>1, <3>2
  <2> HIDE DEF below
  <2>2. /\ Cardinality(below(n)) <= Cardinality(below(k))
        /\ Cardinality(below(n)) # Cardinality(below(k))
    BY <1>2, <2>1, FS_Subset
  <2> QED BY <1>2, <2>2
<1> QED BY <1>1, <1>2, <1>3

NodeStates == [Nodes -> ComputeNodeState]

\* WorkloadCursor::peek_next returns a request of the configured stream.
LEMMA PeekType ==
  ASSUME AcceptedConfig(config), NEW nodes \in NodeStates, NEW n \in Nodes,
         has_next(nodes, n)
  PROVE  peek_next(nodes, n) \in RequestSpec
<1>1. config.compute_nodes \in [Nodes -> Seq(RequestSpec)]
  BY DEF AcceptedConfig, SimulationConfig
<1>2. nodes[n].next_index \in Nat
  BY DEF NodeStates, ComputeNodeState
<1>3. config.compute_nodes[n] \in Seq(RequestSpec)
  BY <1>1
<1>4. nodes[n].next_index + 1 \in 1 .. Len(config.compute_nodes[n])
  BY <1>2, <1>3 DEF has_next
<1> QED BY <1>3, <1>4 DEF peek_next

\* next_unreleased_epoch is one of the epochs that wait beyond the released one.
LEMMA NextEpochType ==
  ASSUME NEW nodes \in NodeStates, UnreleasedEpochs(nodes) # {}
  PROVE  /\ next_unreleased_epoch(nodes) \in UnreleasedEpochs(nodes)
         /\ next_unreleased_epoch(nodes) \in Nat
         /\ \A f \in UnreleasedEpochs(nodes) : next_unreleased_epoch(nodes) <= f
<1>1. UnreleasedEpochs(nodes) \subseteq Nat
  BY DEF UnreleasedEpochs
<1>2. \E x \in UnreleasedEpochs(nodes) : \A y \in UnreleasedEpochs(nodes) : x <= y
  BY <1>1, LeastNatural
<1> QED BY <1>1, <1>2 DEF next_unreleased_epoch

\* The release loop keeps the queue sound and the clock where it is.
LEMMA ReleaseQueueOK ==
  ASSUME NEW ids, NEW s, QueueOK(s, ids), AcceptedConfig(config),
         NEW nodes \in NodeStates, NEW epoch
  PROVE  /\ QueueOK(Release(s, nodes, epoch), ids)
         /\ Release(s, nodes, epoch).current_time = s.current_time
<1> DEFINE
      time(n) == Plus(s.current_time, peek_next(nodes, n).scheduled_issue_offset)
      accepted == {n \in Nodes : /\ NextIsOfEpoch(nodes, n, epoch)
                                 /\ time(n) >= s.current_time}
      rank(n) == Cardinality({m \in accepted : m < n})
      new(n) == Stamp(MakeEvent(time(n), "GenerateRequest", n, kInvalidRequestId),
                      s.next_sequence + rank(n))
      t == Release(s, nodes, epoch)
<1>0. s \in SchedulerState /\ s.events \subseteq Event /\ s.next_sequence \in Nat
      /\ s.current_time \in SimTime
  BY DEF QueueOK, SchedulerState
<1>1. \A n \in accepted : time(n) \in SimTime
  <2> SUFFICES ASSUME NEW n \in accepted PROVE time(n) \in SimTime
    OBVIOUS
  <2>1. peek_next(nodes, n) \in RequestSpec
    BY PeekType DEF NextIsOfEpoch
  <2>2. peek_next(nodes, n).scheduled_issue_offset \in Nat
    BY <2>1 DEF RequestSpec, SimTime
  <2>3. s.current_time \in Nat
    BY <1>0 DEF SimTime
  <2> QED BY <2>2, <2>3, PlusType
<1>2. /\ Cardinality(accepted) \in Nat
      /\ \A n \in accepted : rank(n) \in Nat /\ rank(n) < Cardinality(accepted)
      /\ \A n, k \in accepted : n < k => rank(n) < rank(k)
  <2>1. accepted \in SUBSET Nodes
    OBVIOUS
  <2> HIDE DEF accepted
  <2> QED BY <2>1, RankOrder
<1>3. t = [current_time |-> s.current_time,
           next_sequence |-> s.next_sequence + Cardinality(accepted),
           events |-> s.events \cup {new(n) : n \in accepted}]
  BY DEF Release
<1>4. accepted \subseteq Nodes /\ \A n \in accepted : time(n) >= s.current_time
  OBVIOUS
<1> HIDE DEF time, accepted, rank, t
<1>5. \A n \in accepted :
        /\ new(n) \in Event
        /\ new(n).time = time(n) /\ new(n).type = "GenerateRequest"
        /\ new(n).sequence = s.next_sequence + rank(n)
  BY <1>0, <1>1, <1>2, <1>4 DEF Stamp, MakeEvent, Event, EventType, Targets,
     ComputeEventTypes, kInvalidRequestId
<1> HIDE DEF new
<1>6. \A n, k \in accepted : new(n).sequence = new(k).sequence => n = k
  <2> SUFFICES ASSUME NEW n \in accepted, NEW k \in accepted, n # k
               PROVE  new(n).sequence # new(k).sequence
    OBVIOUS
  <2>1. n < k \/ k < n
    BY <1>4, CountAssumption DEF Nodes
  <2>2. rank(n) # rank(k)
    BY <1>2, <2>1
  <2> QED BY <1>0, <1>2, <1>5, <2>2
<1>7. /\ t.current_time = s.current_time
      /\ t.next_sequence = s.next_sequence + Cardinality(accepted)
      /\ t.events = s.events \cup {new(n) : n \in accepted}
  BY <1>3
<1>8. t \in SchedulerState
  BY <1>0, <1>2, <1>3, <1>5 DEF SchedulerState
<1>9. \A e \in t.events : e.time >= t.current_time
  BY <1>4, <1>5, <1>7 DEF QueueOK
<1>10. \A e \in t.events : e.sequence < t.next_sequence
  BY <1>0, <1>2, <1>5, <1>7 DEF QueueOK, Event
<1>11. \A e, f \in t.events : e.sequence = f.sequence => e = f
  <2>1. \A e \in s.events, n \in accepted : e.sequence # new(n).sequence
    BY <1>0, <1>2, <1>5 DEF QueueOK, Event
  <2> QED BY <1>6, <1>7, <2>1 DEF QueueOK
<1>12. \A e \in t.events : e.type # "GenerateRequest" => e.request_id \in ids
  BY <1>5, <1>7 DEF QueueOK
<1>13. QueueOK(t, ids)
  BY <1>8, <1>9, <1>10, <1>11, <1>12 DEF QueueOK
<1> QED BY <1>7, <1>13 DEF t

\* release_next_epoch_if_ready keeps the queue sound, the clock where it is and
\* released_epoch_ an epoch.
LEMMA ReturnQueueOK ==
  ASSUME NEW ids, NEW s, QueueOK(s, ids), AcceptedConfig(config),
         compute_nodes' \in NodeStates,
         released_epoch \in Nat \cup {NoEpoch},
         ReleaseNextEpochIfReady(s)
  PROVE  /\ QueueOK(sched', ids)
         /\ sched'.current_time = s.current_time
         /\ released_epoch' \in Nat \cup {NoEpoch}
<1>1. CASE ReadyToRelease(s, compute_nodes') /\ UnreleasedEpochs(compute_nodes') # {}
  <2>1. /\ released_epoch' = next_unreleased_epoch(compute_nodes')
        /\ sched' = Release(s, compute_nodes', released_epoch')
    BY <1>1 DEF ReleaseNextEpochIfReady
  <2>2. released_epoch' \in Nat
    BY <1>1, <2>1, NextEpochType
  <2> QED BY <2>1, <2>2, ReleaseQueueOK
<1>2. CASE ~(ReadyToRelease(s, compute_nodes') /\ UnreleasedEpochs(compute_nodes') # {})
  BY <1>2 DEF ReleaseNextEpochIfReady
<1> QED BY <1>1, <1>2

-----------------------------------------------------------------------------
(* The invariant and what every handler leaves behind *)

\* The inductive invariant.
SimulatorInv == TypeOK /\ EventLogInTimeOrder /\ EventQueueIsSound

\* The configuration of a run is one the constructor accepts.
LEMMA ConfigType ==
  ASSUME AcceptedConfig(config)
  PROVE  /\ config.one_way_link_latency \in Nat
         /\ config.hit_latency \in Nat
         /\ config.memory_base_latency \in Nat
         /\ config.memory_bandwidth \in Nat \ {0}
         /\ config.memory_channel_count \in Nat \ {0}
BY DEF AcceptedConfig, SimulationConfig, SimTime

\* service_time_for is a SimTime.
LEMMA ServiceTimeType ==
  ASSUME AcceptedConfig(config), NEW r \in Request
  PROVE  service_time_for(r) \in SimTime
<1> DEFINE sum == Plus(r.size_bytes, config.memory_bandwidth - 1)
<1>1. sum \in Nat
  <2>1. r.size_bytes \in Nat
    BY DEF Request, SimTime
  <2>2. config.memory_bandwidth - 1 \in Nat
    BY ConfigType
  <2>3. sum \in SimTime
    BY <2>1, <2>2, PlusType
  <2> QED BY <2>3 DEF SimTime
<1>2. sum \div config.memory_bandwidth \in Nat
  <2> HIDE DEF sum
  <2> QED BY <1>1, ConfigType
<1> QED BY <1>2, ConfigType, PlusType DEF service_time_for

\* channel_for names a channel of the configuration.
LEMMA ChannelForType ==
  ASSUME AcceptedConfig(config), NEW r \in Request
  PROVE  channel_for(r) \in ChannelIds
BY ConfigType DEF channel_for, memory_channel_for_object, ChannelIds, Request

\* Issuing more requests keeps the queue sound.
LEMMA QueueMonotone ==
  ASSUME NEW s, NEW ids, NEW more, QueueOK(s, ids), ids \subseteq more
  PROVE  QueueOK(s, more)
BY DEF QueueOK

\* What every handler starts from: the event is the least one, and the clock
\* stands at it.
LEMMA DispatchFacts ==
  ASSUME SimulatorInv, NEW e \in sched.events, NEW type, NEW targets,
         Dispatch(e, type, targets)
  PROVE  /\ e \in Event /\ e.time \in SimTime
         /\ e.type = type /\ e.target_id \in targets
         /\ QueueOK(Popped(e), Issued)
         /\ Popped(e).current_time = e.time
         /\ sched.current_time \in SimTime /\ sched.current_time <= e.time
         /\ status = "running"
         /\ type # "GenerateRequest" =>
              /\ e.request_id \in Issued
              /\ e.request_id \in Nat
              /\ request_table[e.request_id] \in Request
              /\ request_table[e.request_id].issue_time <= e.time
<1>1. IsNext(sched, e) /\ e.type = type /\ e.target_id \in targets /\ status = "running"
  BY DEF Dispatch
<1>2. QueueOK(sched, Issued)
  BY DEF SimulatorInv, EventQueueIsSound
<1>3. /\ QueueOK(Popped(e), Issued)
      /\ Popped(e).current_time = e.time
      /\ e \in Event
      /\ sched.current_time <= e.time
  BY <1>1, <1>2, PopQueueOK DEF Popped
<1>4. e.time \in SimTime /\ sched.current_time \in SimTime /\ e.request_id \in Nat
  BY <1>2, <1>3 DEF Event, QueueOK, SchedulerState
<1>5. ASSUME type # "GenerateRequest"
      PROVE  /\ e.request_id \in Issued
             /\ request_table[e.request_id] \in Request
             /\ request_table[e.request_id].issue_time <= e.time
  <2>1. e.request_id \in Issued
    BY <1>1, <1>2, <1>5 DEF QueueOK
  <2>2. request_table[e.request_id] \in Request
    BY <2>1 DEF SimulatorInv, TypeOK
  <2>3. request_table[e.request_id].issue_time <= sched.current_time
    BY <2>1 DEF SimulatorInv, EventQueueIsSound
  <2> QED BY <1>3, <1>4, <2>1, <2>2, <2>3 DEF Request, SimTime
<1> QED BY <1>1, <1>3, <1>4, <1>5

\* dispatch_event keeps the log typed and, when the handler leaves the clock at
\* the event and the queue sound, in time order.
LEMMA LogFacts ==
  ASSUME SimulatorInv, NEW e \in sched.events, NEW type, NEW targets,
         Dispatch(e, type, targets), NEW ids,
         QueueOK(sched', ids), sched'.current_time = e.time
  PROVE  event_log' \in Seq(EventRecord) /\ EventLogInTimeOrder'
<1> DEFINE row == [time |-> e.time, type |-> e.type,
                   target_id |-> e.target_id, request_id |-> e.request_id]
<1>1. /\ event_log \in Seq(EventRecord)
      /\ event_log' = Append(event_log, row)
  BY DEF SimulatorInv, TypeOK, Dispatch
<1>2. row \in EventRecord /\ row.time = e.time
  BY DispatchFacts DEF EventRecord, Event
<1> HIDE DEF row
<1>3. /\ event_log' \in Seq(EventRecord)
      /\ Len(event_log') = Len(event_log) + 1
      /\ event_log'[Len(event_log')] = row
      /\ \A i \in 1 .. Len(event_log) : event_log'[i] = event_log[i]
      /\ Len(event_log) \in Nat
  BY <1>1, <1>2
<1>5. Len(event_log) # 0 => event_log[Len(event_log)].time <= e.time
  BY <1>1, DispatchFacts DEF SimulatorInv, EventLogInTimeOrder
<1>6. \A i \in 2 .. Len(event_log') : event_log'[i - 1].time <= event_log'[i].time
  <2> SUFFICES ASSUME NEW i \in 2 .. Len(event_log')
               PROVE  event_log'[i - 1].time <= event_log'[i].time
    OBVIOUS
  <2>1. CASE i <= Len(event_log)
    BY <1>3, <2>1 DEF SimulatorInv, EventLogInTimeOrder
  <2>2. CASE i = Len(event_log) + 1
    BY <1>2, <1>3, <1>5, <2>2
  <2> QED BY <1>3, <2>1, <2>2
<1>7. \A f \in sched'.events : f.time >= sched'.current_time
  BY DEF QueueOK
<1> QED BY <1>2, <1>3, <1>6, <1>7 DEF EventLogInTimeOrder

\* What every step of the loop leaves behind: the parts of the invariant that do
\* not depend on what the handler did to its own state.
LoopInv ==
  /\ AcceptedConfig(config)
  /\ QueueOK(sched, Issued)
  /\ event_log \in Seq(EventRecord)
  /\ released_epoch \in Nat \cup {NoEpoch}
  /\ EventLogInTimeOrder

\* A handler that returns with a sound queue and its clock at the event leaves
\* the loop's part of the invariant, whether or not an epoch is released.
LEMMA HandlerReturns ==
  ASSUME SimulatorInv, NEW e \in sched.events, NEW type, NEW targets,
         Dispatch(e, type, targets), NEW s, QueueOK(s, Issued'),
         s.current_time = e.time, compute_nodes' \in NodeStates, Return(s)
  PROVE  LoopInv' /\ config' = config /\ sched'.current_time = e.time
<1>1. config' = config /\ AcceptedConfig(config) /\ released_epoch \in Nat \cup {NoEpoch}
  BY DEF Return, SimulatorInv, TypeOK
<1>2. ReleaseNextEpochIfReady(s)
  BY DEF Return
<1>3. /\ QueueOK(sched', Issued')
      /\ sched'.current_time = e.time
      /\ released_epoch' \in Nat \cup {NoEpoch}
  BY <1>1, <1>2, ReturnQueueOK
<1>4. event_log' \in Seq(EventRecord) /\ EventLogInTimeOrder'
  BY <1>3, LogFacts
<1> QED BY <1>1, <1>3, <1>4 DEF LoopInv

\* A handler that throws leaves the loop's part of the invariant as well.
LEMMA HandlerThrows ==
  ASSUME SimulatorInv, NEW e \in sched.events, NEW type, NEW targets,
         Dispatch(e, type, targets), NEW error, Throw(e, error),
         Issued' = Issued
  PROVE  /\ LoopInv' /\ config' = config /\ sched'.current_time = e.time
         /\ compute_nodes' \in NodeStates
<1>1. /\ config' = config /\ AcceptedConfig(config)
      /\ released_epoch' \in Nat \cup {NoEpoch}
      /\ sched' = Popped(e)
      /\ compute_nodes' \in NodeStates
  BY DEF Throw, SimulatorInv, TypeOK, NodeStates
<1>2. QueueOK(sched', Issued') /\ sched'.current_time = e.time
  BY <1>1, DispatchFacts
<1>3. event_log' \in Seq(EventRecord) /\ EventLogInTimeOrder'
  BY <1>2, LogFacts
<1> QED BY <1>1, <1>2, <1>3 DEF LoopInv

\* The request table stays typed, and its times in the past, when the clock
\* moves to the event and one request changes its stage or its enqueue time.
TableInv ==
  /\ request_table \in [Issued -> Request]
  /\ \A id \in Issued : /\ request_table[id].issue_time <= sched.current_time
                        /\ request_table[id].memory_enqueue_time <= sched.current_time

\* A handler that leaves the request table alone keeps it typed and in the past.
LEMMA TableUnchanged ==
  ASSUME SimulatorInv, NEW e \in sched.events, NEW type, NEW targets,
         Dispatch(e, type, targets), sched'.current_time = e.time,
         UNCHANGED <<request_table, next_request_id>>
  PROVE  TableInv'
<1>1. Issued' = Issued /\ request_table' = request_table
  BY DEF Issued
<1>2. \A id \in Issued : /\ request_table[id] \in Request
                         /\ request_table[id].issue_time <= sched.current_time
                         /\ request_table[id].memory_enqueue_time <= sched.current_time
  BY DEF SimulatorInv, TypeOK, EventQueueIsSound
<1>3. sched.current_time \in SimTime /\ sched.current_time <= e.time /\ e.time \in SimTime
  BY DispatchFacts
<1>4. \A id \in Issued : /\ request_table[id].issue_time <= e.time
                         /\ request_table[id].memory_enqueue_time <= e.time
  BY <1>2, <1>3 DEF Request, SimTime
<1> QED BY <1>1, <1>4 DEF TableInv, SimulatorInv, TypeOK

\* So does one that rewrites the stage or the enqueue time of its own request.
LEMMA TableUpdated ==
  ASSUME SimulatorInv, NEW e \in sched.events, NEW type, NEW targets,
         Dispatch(e, type, targets), sched'.current_time = e.time,
         UNCHANGED next_request_id, e.request_id \in Issued,
         NEW r \in Request,
         r.issue_time = request_table[e.request_id].issue_time,
         r.memory_enqueue_time \in {e.time, request_table[e.request_id].memory_enqueue_time},
         request_table' = [request_table EXCEPT ![e.request_id] = r]
  PROVE  TableInv'
<1>1. Issued' = Issued
  BY DEF Issued
<1>2. \A id \in Issued : /\ request_table[id] \in Request
                         /\ request_table[id].issue_time <= sched.current_time
                         /\ request_table[id].memory_enqueue_time <= sched.current_time
  BY DEF SimulatorInv, TypeOK, EventQueueIsSound
<1>3. sched.current_time \in SimTime /\ sched.current_time <= e.time /\ e.time \in SimTime
  BY DispatchFacts
<1>4. \A id \in Issued : /\ request_table[id].issue_time <= e.time
                         /\ request_table[id].memory_enqueue_time <= e.time
  BY <1>2, <1>3 DEF Request, SimTime
<1>5. request_table \in [Issued -> Request]
  BY DEF SimulatorInv, TypeOK
<1>6. request_table' \in [Issued -> Request]
  BY <1>5
<1>7. \A id \in Issued : request_table'[id] = IF id = e.request_id THEN r ELSE request_table[id]
  BY <1>5
<1>8. \A id \in Issued : /\ request_table'[id].issue_time <= e.time
                         /\ request_table'[id].memory_enqueue_time <= e.time
  BY <1>3, <1>4, <1>7 DEF SimTime
<1> QED BY <1>1, <1>6, <1>8 DEF TableInv

\* The channels stay typed, and their queues hold issued requests.
ChannelInv ==
  /\ channels \in [ChannelIds -> ChannelState]
  /\ \A c \in ChannelIds : channels[c].queued_requests \in Seq(Issued)

\* A handler that leaves the channels alone keeps their queues sound.
LEMMA ChannelsUnchanged ==
  ASSUME SimulatorInv, UNCHANGED <<config, channels, next_request_id>>
  PROVE  ChannelInv'
BY DEF SimulatorInv, TypeOK, EventQueueIsSound, ChannelInv, ChannelIds, Issued

\* So does one that rewrites a single channel with issued requests.
LEMMA ChannelUpdated ==
  ASSUME SimulatorInv, UNCHANGED <<config, next_request_id>>,
         NEW c \in ChannelIds, NEW ch \in ChannelState,
         ch.queued_requests \in Seq(Issued),
         channels' = [channels EXCEPT ![c] = ch]
  PROVE  ChannelInv'
BY DEF SimulatorInv, TypeOK, EventQueueIsSound, ChannelInv, ChannelIds, Issued

\* The parts of the loop, the table and the channels make up the invariant.
LEMMA Compose ==
  ASSUME LoopInv', TableInv', ChannelInv',
         compute_nodes' \in NodeStates, next_request_id' \in Nat \ {0},
         responses' \in Seq(Response)
  PROVE  SimulatorInv'
BY DEF SimulatorInv, TypeOK, EventQueueIsSound, LoopInv, TableInv, ChannelInv,
   NodeStates, QueueOK

-----------------------------------------------------------------------------
(* The memory node *)

MemoryFrame == UNCHANGED <<history, local_cache, next_request_id, responses>>

\* handle_forward_to_memory keeps the invariant.
LEMMA ForwardPreserves ==
  ASSUME SimulatorInv, NEW e \in sched.events, handle_forward_to_memory(e), MemoryFrame
  PROVE  SimulatorInv'
<1> DEFINE r == request_table[e.request_id]
           c == channel_for(r)
           queue == Enqueue(channels[c].queued_requests, e.request_id)
           free == ChannelFree(channels[c])
           ch == [channels[c] EXCEPT !.queued_requests = queue,
                                     !.service_start_scheduled = @ \/ free]
           s == IF free
                THEN schedule(Popped(e), ToMemory(e.time, "MemoryServiceStart", Head(queue)))
                ELSE Popped(e)
<1>1. /\ Dispatch(e, "ForwardToMemory", {MemoryNodeId})
      /\ request_table' =
           [request_table EXCEPT ![e.request_id].memory_enqueue_time = e.time]
      /\ channels' = [channels EXCEPT ![c].queued_requests = queue,
                                      ![c].service_start_scheduled = @ \/ free]
      /\ UNCHANGED compute_nodes
      /\ Return(s)
  BY DEF handle_forward_to_memory
<1>2. /\ e.time \in SimTime /\ e.request_id \in Issued /\ e.request_id \in Nat /\ r \in Request
      /\ QueueOK(Popped(e), Issued) /\ Popped(e).current_time = e.time
  BY <1>1, DispatchFacts
<1>3. AcceptedConfig(config) /\ c \in ChannelIds
  BY <1>2, ChannelForType DEF SimulatorInv, TypeOK
<1>4. /\ channels \in [ChannelIds -> ChannelState]
      /\ channels[c] \in ChannelState
      /\ channels[c].queued_requests \in Seq(Issued)
  BY <1>3 DEF SimulatorInv, TypeOK, EventQueueIsSound
<1>5. queue \in Seq(Issued) /\ queue \in Seq(Nat) /\ Head(queue) \in Issued /\ Head(queue) \in Nat
  <2>1. queue \in Seq(Issued) /\ queue # <<>>
    BY <1>2, <1>4 DEF Enqueue
  <2>2. Issued \subseteq Nat
    BY DEF Issued, SimulatorInv, TypeOK
  <2> HIDE DEF queue
  <2>3. Head(queue) \in Issued
    BY <2>1
  <2> QED BY <2>1, <2>2, <2>3, SeqMonotonic
<1>6. Issued' = Issued
  BY DEF MemoryFrame, Issued
<1>7. QueueOK(s, Issued') /\ s.current_time = e.time
  <2>1. "MemoryServiceStart" \in EventType /\ MemoryNodeId \in Targets
    BY DEF EventType, MemoryEventTypes, Targets
  <2> HIDE DEF queue, free
  <2> QED BY <1>2, <1>5, <1>6, <2>1, ScheduleQueueOK DEF ToMemory
<1>8. compute_nodes' \in NodeStates
  BY <1>1 DEF SimulatorInv, TypeOK, NodeStates
<1> HIDE DEF s
<1>9. LoopInv' /\ config' = config /\ sched'.current_time = e.time
  BY <1>1, <1>7, <1>8, HandlerReturns
<1>10. ChannelInv'
  <2> HIDE DEF queue, free, c
  <2>1. ch \in ChannelState /\ ch.queued_requests = queue
    BY <1>4, <1>5 DEF ChannelState
  <2>2. channels' = [channels EXCEPT ![c] = ch]
    BY <1>1, <1>3, <1>4
  <2> HIDE DEF ch
  <2> QED BY <1>3, <1>5, <1>9, <2>1, <2>2, ChannelUpdated DEF MemoryFrame
<1>11. TableInv'
  <2> DEFINE q == [r EXCEPT !.memory_enqueue_time = e.time]
  <2>1. q \in Request /\ q.issue_time = r.issue_time /\ q.memory_enqueue_time = e.time
    BY <1>2 DEF Request
  <2>2. request_table' = [request_table EXCEPT ![e.request_id] = q]
    BY <1>1
  <2> HIDE DEF q
  <2> QED BY <1>1, <1>2, <1>9, <2>1, <2>2, TableUpdated DEF MemoryFrame
<1>12. next_request_id' \in Nat \ {0} /\ responses' \in Seq(Response)
  BY DEF MemoryFrame, SimulatorInv, TypeOK
<1> QED BY <1>8, <1>9, <1>10, <1>11, <1>12, Compose

\* handle_memory_service_start keeps the invariant, throwing or not.
LEMMA ServiceStartPreserves ==
  ASSUME SimulatorInv, NEW e \in sched.events, handle_memory_service_start(e), MemoryFrame
  PROVE  SimulatorInv'
<1> DEFINE r == request_table[e.request_id]
           c == channel_for(r)
           queue == channels[c].queued_requests
           error == ServiceStartError(queue, e.request_id)
           ch == [queued_requests |-> Tail(queue), service_in_progress |-> TRUE,
                  service_start_scheduled |-> FALSE]
           s == schedule(Popped(e), ToMemory(Plus(e.time, service_time_for(r)),
                                             "MemoryServiceComplete", e.request_id))
<1>1. Dispatch(e, "MemoryServiceStart", {MemoryNodeId})
  BY DEF handle_memory_service_start
<1>2. /\ e.time \in SimTime /\ e.request_id \in Issued /\ e.request_id \in Nat /\ r \in Request
      /\ QueueOK(Popped(e), Issued) /\ Popped(e).current_time = e.time
  BY <1>1, DispatchFacts
<1>3. AcceptedConfig(config) /\ c \in ChannelIds
  BY <1>2, ChannelForType DEF SimulatorInv, TypeOK
<1>4. queue \in Seq(Issued)
  BY <1>3 DEF SimulatorInv, EventQueueIsSound
<1>5. Issued' = Issued /\ Issued \subseteq Nat
  BY DEF MemoryFrame, Issued, SimulatorInv, TypeOK
<1>6. next_request_id' \in Nat \ {0} /\ responses' \in Seq(Response)
  BY DEF MemoryFrame, SimulatorInv, TypeOK
<1>7. CASE error # "none"
  <2>1. Throw(e, error) /\ UNCHANGED <<request_table, channels>>
    BY <1>7 DEF handle_memory_service_start
  <2>2. /\ LoopInv' /\ config' = config /\ sched'.current_time = e.time
        /\ compute_nodes' \in NodeStates
    BY <1>1, <1>5, <2>1, HandlerThrows
  <2>3. TableInv'
    BY <1>1, <2>1, <2>2, TableUnchanged DEF MemoryFrame
  <2>4. ChannelInv'
    BY <2>1, <2>2, ChannelsUnchanged DEF MemoryFrame
  <2> QED BY <1>6, <2>2, <2>3, <2>4, Compose
<1>8. CASE error = "none"
  <2>1. /\ channels' = [channels EXCEPT ![c] = ch]
        /\ request_table' = [request_table EXCEPT
             ![e.request_id].current_stage = "WaitingForResponse"]
        /\ UNCHANGED compute_nodes
        /\ Return(s)
    BY <1>8 DEF handle_memory_service_start
  <2>2. queue # <<>>
    BY <1>8 DEF ServiceStartError
  <2>3. QueueOK(s, Issued') /\ s.current_time = e.time
    <3>1. "MemoryServiceComplete" \in EventType /\ MemoryNodeId \in Targets
          /\ "MemoryServiceComplete" # "GenerateRequest"
      BY DEF EventType, MemoryEventTypes, Targets
    <3>2. service_time_for(r) \in Nat /\ e.time \in Nat
      BY <1>2, <1>3, ServiceTimeType DEF SimTime
    <3>3. Plus(e.time, service_time_for(r)) \in SimTime
      BY <3>2, PlusType
    <3> HIDE DEF r
    <3> QED BY <1>2, <1>5, <3>1, <3>3, ScheduleQueueOK DEF ToMemory
  <2>4. compute_nodes' \in NodeStates
    BY <2>1 DEF SimulatorInv, TypeOK, NodeStates
  <2>5. LoopInv' /\ config' = config /\ sched'.current_time = e.time
    <3> HIDE DEF s
    <3> QED BY <1>1, <2>1, <2>3, <2>4, HandlerReturns
  <2>6. ChannelInv'
    <3>1. Tail(queue) \in Seq(Issued)
      BY <1>4, <2>2
    <3>2. Tail(queue) \in Seq(Nat)
      BY <1>5, <3>1, SeqMonotonic
    <3> HIDE DEF queue
    <3>3. ch \in ChannelState /\ ch.queued_requests = Tail(queue)
      BY <3>2 DEF ChannelState
    <3> HIDE DEF ch, c
    <3> QED BY <1>3, <2>1, <2>5, <3>1, <3>3, ChannelUpdated DEF MemoryFrame
  <2>7. TableInv'
    <3> DEFINE q == [r EXCEPT !.current_stage = "WaitingForResponse"]
    <3>1. /\ q \in Request /\ q.issue_time = r.issue_time
          /\ q.memory_enqueue_time = r.memory_enqueue_time
      BY <1>2 DEF Request, RequestStage
    <3>2. request_table' = [request_table EXCEPT ![e.request_id] = q]
      BY <2>1
    <3> HIDE DEF q
    <3> QED BY <1>1, <1>2, <2>5, <3>1, <3>2, TableUpdated DEF MemoryFrame
  <2> QED BY <1>6, <2>4, <2>5, <2>6, <2>7, Compose
<1> QED BY <1>7, <1>8

\* handle_memory_service_complete keeps the invariant, throwing or not.
LEMMA ServiceCompletePreserves ==
  ASSUME SimulatorInv, NEW e \in sched.events, handle_memory_service_complete(e), MemoryFrame
  PROVE  SimulatorInv'
<1> DEFINE r == request_table[e.request_id]
           c == channel_for(r)
           queue == channels[c].queued_requests
           waiting == queue # <<>>
           scheduled == channels[c].service_start_scheduled \/ waiting
           ch == [queued_requests |-> queue, service_in_progress |-> FALSE,
                  service_start_scheduled |-> scheduled]
           returned == schedule(Popped(e),
                         MakeEvent(Plus(e.time, config.one_way_link_latency),
                                   "ReturnResponse", r.source_node_id, e.request_id))
           s == IF waiting
                THEN schedule(returned,
                       ToMemory(e.time, "MemoryServiceStart", Head(queue)))
                ELSE returned
<1>1. Dispatch(e, "MemoryServiceComplete", {MemoryNodeId}) /\ UNCHANGED request_table
  BY DEF handle_memory_service_complete
<1>2. /\ e.time \in SimTime /\ e.request_id \in Issued /\ e.request_id \in Nat /\ r \in Request
      /\ QueueOK(Popped(e), Issued) /\ Popped(e).current_time = e.time
  BY <1>1, DispatchFacts
<1>3. AcceptedConfig(config) /\ c \in ChannelIds
  BY <1>2, ChannelForType DEF SimulatorInv, TypeOK
<1>4. /\ channels \in [ChannelIds -> ChannelState] /\ channels[c] \in ChannelState
      /\ queue \in Seq(Issued)
  BY <1>3 DEF SimulatorInv, TypeOK, EventQueueIsSound
<1>5. Issued' = Issued /\ Issued \subseteq Nat
  BY DEF MemoryFrame, Issued, SimulatorInv, TypeOK
<1>6. next_request_id' \in Nat \ {0} /\ responses' \in Seq(Response)
  BY DEF MemoryFrame, SimulatorInv, TypeOK
<1>7. CASE ~channels[c].service_in_progress
  <2> DEFINE error == "Memory service completed without active request"
  <2>1. Throw(e, error) /\ UNCHANGED channels
    BY <1>7 DEF handle_memory_service_complete
  <2> HIDE DEF error
  <2>2. /\ LoopInv' /\ config' = config /\ sched'.current_time = e.time
        /\ compute_nodes' \in NodeStates
    BY <1>1, <1>5, <2>1, HandlerThrows
  <2>3. TableInv'
    BY <1>1, <2>2, TableUnchanged DEF MemoryFrame
  <2>4. ChannelInv'
    BY <2>1, <2>2, ChannelsUnchanged DEF MemoryFrame
  <2> QED BY <1>6, <2>2, <2>3, <2>4, Compose
<1>8. CASE channels[c].service_in_progress
  <2>1. /\ channels' = [channels EXCEPT ![c] = ch]
        /\ UNCHANGED compute_nodes
        /\ Return(s)
    BY <1>8 DEF handle_memory_service_complete
  <2>2. QueueOK(returned, Issued) /\ returned.current_time = e.time
    <3>1. "ReturnResponse" \in EventType /\ r.source_node_id \in Targets
      BY <1>2 DEF EventType, ComputeEventTypes, Targets, Request
    <3>2. Plus(e.time, config.one_way_link_latency) \in SimTime
      <4>1. e.time \in Nat /\ config.one_way_link_latency \in Nat
        BY <1>2, <1>3, ConfigType DEF SimTime
      <4> QED BY <4>1, PlusType
    <3> HIDE DEF r
    <3> QED BY <1>2, <3>1, <3>2, ScheduleQueueOK
  <2>3. QueueOK(s, Issued') /\ s.current_time = e.time
    <3>1. "MemoryServiceStart" \in EventType /\ MemoryNodeId \in Targets
      BY DEF EventType, MemoryEventTypes, Targets
    <3>2. waiting => Head(queue) \in Issued /\ Head(queue) \in Nat
      <4>1. queue \in Seq(Issued) /\ Issued \subseteq Nat
        BY <1>4, <1>5
      <4> HIDE DEF queue
      <4>2. queue # <<>> => Head(queue) \in Issued
        BY <4>1
      <4> QED BY <4>1, <4>2
    <3> HIDE DEF returned, queue, waiting
    <3> QED BY <1>2, <1>5, <2>2, <3>1, <3>2, ScheduleQueueOK DEF ToMemory
  <2>4. compute_nodes' \in NodeStates
    BY <2>1 DEF SimulatorInv, TypeOK, NodeStates
  <2>5. LoopInv' /\ config' = config /\ sched'.current_time = e.time
    <3> HIDE DEF s
    <3> QED BY <1>1, <2>1, <2>3, <2>4, HandlerReturns
  <2>6. ChannelInv'
    <3> HIDE DEF c, waiting
    <3>1. queue \in Seq(Nat)
      BY <1>4 DEF ChannelState
    <3>. scheduled \in BOOLEAN
      OBVIOUS
    <3> HIDE DEF queue, scheduled
    <3>2. ch \in ChannelState /\ ch.queued_requests = queue
      BY <3>1 DEF ChannelState
    <3> HIDE DEF ch
    <3> QED BY <1>3, <1>4, <2>1, <2>5, <3>2, ChannelUpdated DEF MemoryFrame
  <2>7. TableInv'
    BY <1>1, <2>5, TableUnchanged DEF MemoryFrame
  <2> QED BY <1>6, <2>4, <2>5, <2>6, <2>7, Compose
<1> QED BY <1>7, <1>8

-----------------------------------------------------------------------------
(* The compute nodes *)

\* handle_request_complete keeps the invariant.
LEMMA RequestCompletePreserves ==
  ASSUME SimulatorInv, NEW e \in sched.events, handle_request_complete(e)
  PROVE  SimulatorInv'
<1> DEFINE n == e.target_id
           more == ~bursty /\ NextIsOfEpoch(compute_nodes, n, compute_nodes[n].current_epoch)
           s == IF more
                THEN schedule(Popped(e),
                       MakeEvent(e.time, "GenerateRequest", n, kInvalidRequestId))
                ELSE Popped(e)
<1>1. /\ Dispatch(e, "RequestComplete", Nodes)
      /\ UNCHANGED <<next_request_id, request_table, compute_nodes, channels, responses>>
      /\ Return(s)
  BY DEF handle_request_complete
<1>2. /\ e.time \in SimTime /\ n \in Nodes
      /\ QueueOK(Popped(e), Issued) /\ Popped(e).current_time = e.time
  BY <1>1, DispatchFacts
<1>3. Issued' = Issued
  BY <1>1 DEF Issued
<1>4. QueueOK(s, Issued') /\ s.current_time = e.time
  <2>1. "GenerateRequest" \in EventType /\ n \in Targets /\ kInvalidRequestId \in Nat
    BY <1>2 DEF EventType, ComputeEventTypes, Targets, kInvalidRequestId
  <2> HIDE DEF n, more
  <2> QED BY <1>2, <1>3, <2>1, ScheduleQueueOK
<1>5. compute_nodes' \in NodeStates
  BY <1>1 DEF SimulatorInv, TypeOK, NodeStates
<1> HIDE DEF s
<1>6. LoopInv' /\ config' = config /\ sched'.current_time = e.time
  BY <1>1, <1>4, <1>5, HandlerReturns
<1>7. TableInv'
  BY <1>1, <1>6, TableUnchanged
<1>8. ChannelInv'
  BY <1>1, <1>6, ChannelsUnchanged
<1>9. next_request_id' \in Nat \ {0} /\ responses' \in Seq(Response)
  BY <1>1 DEF SimulatorInv, TypeOK
<1> QED BY <1>5, <1>6, <1>7, <1>8, <1>9, Compose

\* handle_local_cache_lookup keeps the invariant.
LEMMA LookupPreserves ==
  ASSUME SimulatorInv, NEW e \in sched.events, handle_local_cache_lookup(e)
  PROVE  SimulatorInv'
<1> DEFINE n == e.target_id
           r == request_table[e.request_id]
           hit == contains(local_cache[n], r.object_id)
           stage == IF hit THEN "LocalLookup" ELSE "ForwardedToMemory"
           found == MakeEvent(Plus(e.time, config.hit_latency),
                              "LocalCacheHitComplete", n, e.request_id)
           missed == MakeEvent(Plus(e.time, config.one_way_link_latency),
                               "ForwardToMemory", MemoryNodeId, e.request_id)
           s == schedule(Popped(e), IF hit THEN found ELSE missed)
<1>1. /\ Dispatch(e, "LocalCacheLookup", Nodes)
      /\ request_table' = [request_table EXCEPT ![e.request_id].current_stage = stage]
      /\ UNCHANGED <<next_request_id, compute_nodes, channels, responses>>
      /\ Return(s)
  BY DEF handle_local_cache_lookup, ToMemory
<1>2. /\ e.time \in SimTime /\ n \in Nodes
      /\ e.request_id \in Issued /\ e.request_id \in Nat /\ r \in Request
      /\ QueueOK(Popped(e), Issued) /\ Popped(e).current_time = e.time
  BY <1>1, DispatchFacts
<1>3. Issued' = Issued
  BY <1>1 DEF Issued
<1>4. QueueOK(s, Issued') /\ s.current_time = e.time
  <2>1. /\ "LocalCacheHitComplete" \in EventType /\ n \in Targets
        /\ "ForwardToMemory" \in EventType /\ MemoryNodeId \in Targets
    BY <1>2 DEF EventType, ComputeEventTypes, MemoryEventTypes, Targets
  <2>2. e.time \in Nat /\ config.hit_latency \in Nat /\ config.one_way_link_latency \in Nat
    BY <1>2, ConfigType DEF SimulatorInv, TypeOK, SimTime
  <2>3. /\ Plus(e.time, config.hit_latency) \in SimTime
        /\ Plus(e.time, config.one_way_link_latency) \in SimTime
    BY <2>2, PlusType
  <2> HIDE DEF n, hit
  <2>4. /\ QueueOK(schedule(Popped(e), found), Issued)
        /\ schedule(Popped(e), found).current_time = e.time
    BY <1>2, <2>1, <2>3, ScheduleQueueOK
  <2>5. /\ QueueOK(schedule(Popped(e), missed), Issued)
        /\ schedule(Popped(e), missed).current_time = e.time
    BY <1>2, <2>1, <2>3, ScheduleQueueOK
  <2> HIDE DEF found, missed
  <2> QED BY <1>3, <2>4, <2>5
<1>5. compute_nodes' \in NodeStates
  BY <1>1 DEF SimulatorInv, TypeOK, NodeStates
<1> HIDE DEF s
<1>6. LoopInv' /\ config' = config /\ sched'.current_time = e.time
  BY <1>1, <1>4, <1>5, HandlerReturns
<1>7. TableInv'
  <2> DEFINE q == [r EXCEPT !.current_stage = stage]
  <2>1. stage \in RequestStage
    BY DEF RequestStage
  <2> HIDE DEF stage
  <2>2. /\ q \in Request /\ q.issue_time = r.issue_time
        /\ q.memory_enqueue_time = r.memory_enqueue_time
    BY <1>2, <2>1 DEF Request
  <2>3. request_table' = [request_table EXCEPT ![e.request_id] = q]
    BY <1>1
  <2> HIDE DEF q
  <2> QED BY <1>1, <1>2, <1>6, <2>2, <2>3, TableUpdated
<1>8. ChannelInv'
  BY <1>1, <1>6, ChannelsUnchanged
<1>9. next_request_id' \in Nat \ {0} /\ responses' \in Seq(Response)
  BY <1>1 DEF SimulatorInv, TypeOK
<1> QED BY <1>5, <1>6, <1>7, <1>8, <1>9, Compose

\* What both completion handlers share keeps the invariant: the latency is the
\* difference of two times in order, so it does not wrap, and the outstanding
\* count does not go below zero.
LEMMA CompletePreserves ==
  ASSUME SimulatorInv, NEW e \in sched.events,
         NEW type, type # "GenerateRequest", Dispatch(e, type, Nodes),
         NEW tier \in {"LocalCache", "Memory"}, NEW bytes \in SimTime,
         Complete(e, tier, bytes),
         UNCHANGED <<next_request_id, channels>>
  PROVE  SimulatorInv'
<1> DEFINE n == e.target_id
           r == request_table[e.request_id]
           latency == e.time - r.issue_time
           row == [request_id |-> e.request_id, served_from_tier |-> tier,
                   completion_time |-> e.time, total_latency |-> latency,
                   bytes_transferred |-> bytes]
           s == schedule(Popped(e),
                         MakeEvent(e.time, "RequestComplete", n, e.request_id))
<1>1. /\ request_table' = [request_table EXCEPT ![e.request_id].current_stage = "Completed"]
      /\ responses' = Append(responses, row)
      /\ IF compute_nodes[n].outstanding_requests = 0
         THEN Throw(e, "Outstanding request count underflow")
         ELSE /\ compute_nodes' =
                   [compute_nodes EXCEPT ![n].outstanding_requests = @ - 1]
              /\ Return(s)
  BY DEF Complete, MarkCompleted
<1>2. /\ e.time \in SimTime /\ n \in Nodes
      /\ e.request_id \in Issued /\ e.request_id \in Nat
      /\ r \in Request /\ r.issue_time <= e.time
      /\ QueueOK(Popped(e), Issued) /\ Popped(e).current_time = e.time
  BY DispatchFacts
<1>3. Issued' = Issued
  BY DEF Issued
<1>4. next_request_id' \in Nat \ {0} /\ responses' \in Seq(Response)
  <2>1. latency \in SimTime
    BY <1>2, RangeAssumption DEF Request, SimTime
  <2> HIDE DEF latency
  <2>2. row \in Response
    BY <1>2, <2>1 DEF Response
  <2> HIDE DEF row
  <2>3. responses \in Seq(Response) /\ next_request_id \in Nat \ {0}
    BY DEF SimulatorInv, TypeOK
  <2>4. responses' = Append(responses, row)
    BY <1>1
  <2>5. responses' \in Seq(Response)
    BY <2>2, <2>3, <2>4
  <2> QED BY <2>3, <2>5
<1>5. ASSUME sched'.current_time = e.time PROVE TableInv'
  <2> DEFINE q == [r EXCEPT !.current_stage = "Completed"]
  <2>1. /\ q \in Request /\ q.issue_time = r.issue_time
        /\ q.memory_enqueue_time = r.memory_enqueue_time
    BY <1>2 DEF Request, RequestStage
  <2>2. request_table' = [request_table EXCEPT ![e.request_id] = q]
    BY <1>1
  <2> HIDE DEF q
  <2> QED BY <1>2, <1>5, <2>1, <2>2, TableUpdated
<1>6. CASE compute_nodes[n].outstanding_requests = 0
  <2> DEFINE error == "Outstanding request count underflow"
  <2>1. Throw(e, error)
    BY <1>1, <1>6
  <2> HIDE DEF error
  <2>2. /\ LoopInv' /\ config' = config /\ sched'.current_time = e.time
        /\ compute_nodes' \in NodeStates
    BY <1>3, <2>1, HandlerThrows
  <2>3. ChannelInv'
    BY <2>2, ChannelsUnchanged
  <2> QED BY <1>4, <1>5, <2>2, <2>3, Compose
<1>7. CASE compute_nodes[n].outstanding_requests # 0
  <2>1. /\ compute_nodes' = [compute_nodes EXCEPT ![n].outstanding_requests = @ - 1]
        /\ Return(s)
    BY <1>1, <1>7
  <2>2. QueueOK(s, Issued') /\ s.current_time = e.time
    <3>1. "RequestComplete" \in EventType /\ n \in Targets
      BY <1>2 DEF EventType, ComputeEventTypes, Targets
    <3> HIDE DEF n
    <3> QED BY <1>2, <1>3, <3>1, ScheduleQueueOK
  <2>3. compute_nodes' \in NodeStates
    <3>1. /\ compute_nodes \in [Nodes -> ComputeNodeState]
          /\ compute_nodes[n] \in ComputeNodeState
      BY <1>2 DEF SimulatorInv, TypeOK
    <3>2. compute_nodes[n].outstanding_requests - 1 \in Nat
      BY <1>7, <3>1 DEF ComputeNodeState
    <3> HIDE DEF n
    <3>3. [compute_nodes[n] EXCEPT !.outstanding_requests = @ - 1] \in ComputeNodeState
      BY <3>1, <3>2 DEF ComputeNodeState
    <3> QED BY <2>1, <3>1, <3>3 DEF NodeStates
  <2>4. LoopInv' /\ config' = config /\ sched'.current_time = e.time
    <3> HIDE DEF s
    <3> QED BY <2>1, <2>2, <2>3, HandlerReturns
  <2>5. ChannelInv'
    BY <2>4, ChannelsUnchanged
  <2> QED BY <1>4, <1>5, <2>3, <2>4, <2>5, Compose
<1> QED BY <1>6, <1>7

\* handle_generate_request, when the workload has a request, keeps the
\* invariant: the new id extends the request table, and the two events it
\* schedules are for that id or for none.
LEMMA IssuePreserves ==
  ASSUME SimulatorInv, NEW e \in sched.events,
         Dispatch(e, "GenerateRequest", Nodes), has_next(compute_nodes, e.target_id),
         IssueRequest(e, e.target_id, peek_next(compute_nodes, e.target_id)),
         UNCHANGED <<channels, responses>>
  PROVE  SimulatorInv'
<1> DEFINE n == e.target_id
           spec == peek_next(compute_nodes, n)
           request == [request_id |-> next_request_id, source_node_id |-> n,
                       object_id |-> spec.object_id, issue_time |-> e.time,
                       size_bytes |-> spec.size_bytes, epoch_id |-> spec.epoch_id,
                       current_stage |-> "Generated", memory_enqueue_time |-> 0]
           looked_up == schedule(Popped(e),
                          MakeEvent(e.time, "LocalCacheLookup", n, next_request_id))
           s == ScheduleNextBursty(looked_up, compute_nodes', n)
<1>1. /\ next_request_id' = next_request_id + 1
      /\ request_table' = Assign(request_table, next_request_id, request)
      /\ compute_nodes' = [compute_nodes EXCEPT ![n] = Advance(@, spec, e.time)]
      /\ Return(s)
  BY DEF IssueRequest
<1>2. /\ e.time \in SimTime /\ n \in Nodes
      /\ QueueOK(Popped(e), Issued) /\ Popped(e).current_time = e.time
      /\ sched.current_time \in SimTime /\ sched.current_time <= e.time
  BY DispatchFacts
<1>3. /\ AcceptedConfig(config) /\ next_request_id \in Nat \ {0}
      /\ compute_nodes \in NodeStates /\ compute_nodes[n] \in ComputeNodeState
      /\ request_table \in [Issued -> Request]
      /\ channels \in [ChannelIds -> ChannelState]
      /\ responses \in Seq(Response)
  BY <1>2 DEF SimulatorInv, TypeOK, NodeStates
<1>4. spec \in RequestSpec
  BY <1>2, <1>3, PeekType
<1>5. Issued' = Issued \cup {next_request_id} /\ next_request_id' \in Nat \ {0}
  BY <1>1, <1>3 DEF Issued
<1>6. compute_nodes' \in NodeStates
  <2>1. EpochStartTime(compute_nodes[n], spec, e.time) \in SimTime
    BY <1>2, <1>3, <1>4, RangeAssumption
    DEF EpochStartTime, SimTime, RequestSpec, ComputeNodeState
  <2>2. Advance(compute_nodes[n], spec, e.time) \in ComputeNodeState
    <3> HIDE DEF n, spec
    <3> QED BY <1>3, <1>4, <2>1 DEF Advance, ComputeNodeState, RequestSpec
  <2> HIDE DEF n, spec
  <2> QED BY <1>1, <1>2, <1>3, <2>2 DEF NodeStates
<1>7. QueueOK(looked_up, Issued') /\ looked_up.current_time = e.time
  <2>1. "LocalCacheLookup" \in EventType /\ n \in Targets
    BY <1>2 DEF EventType, ComputeEventTypes, Targets
  <2>2. QueueOK(Popped(e), Issued')
    BY <1>2, <1>5, QueueMonotone
  <2>3. next_request_id \in Issued' /\ next_request_id \in Nat
    BY <1>3, <1>5
  <2> HIDE DEF n
  <2> QED BY <1>2, <2>1, <2>2, <2>3, ScheduleQueueOK
<1>8. QueueOK(s, Issued') /\ s.current_time = e.time
  <2> DEFINE nodes == compute_nodes'
             time == Plus(nodes[n].current_epoch_start_time,
                          peek_next(nodes, n).scheduled_issue_offset)
             more == bursty /\ NextIsOfEpoch(nodes, n, nodes[n].current_epoch)
  <2>1. s = IF more
            THEN schedule(looked_up,
                          MakeEvent(time, "GenerateRequest", n, kInvalidRequestId))
            ELSE looked_up
    BY DEF ScheduleNextBursty
  <2>2. ASSUME more PROVE time \in SimTime
    <3>1. has_next(nodes, n)
      BY <2>2 DEF NextIsOfEpoch
    <3> HIDE DEF nodes, n
    <3>2. nodes \in NodeStates
      BY <1>6 DEF nodes
    <3>3. peek_next(nodes, n) \in RequestSpec
      BY <1>2, <1>3, <3>1, <3>2, PeekType
    <3>4. /\ peek_next(nodes, n).scheduled_issue_offset \in Nat
          /\ nodes[n].current_epoch_start_time \in Nat
      BY <1>2, <3>2, <3>3 DEF RequestSpec, SimTime, NodeStates, ComputeNodeState
    <3> QED BY <3>4, PlusType
  <2>3. "GenerateRequest" \in EventType /\ n \in Targets /\ kInvalidRequestId \in Nat
    BY <1>2 DEF EventType, ComputeEventTypes, Targets, kInvalidRequestId
  <2> HIDE DEF looked_up, s, time, more, n
  <2>4. CASE more
    BY <1>7, <2>1, <2>2, <2>3, <2>4, ScheduleQueueOK
  <2>5. CASE ~more
    BY <1>7, <2>1, <2>5
  <2> QED BY <2>4, <2>5
<1> HIDE DEF s
<1>9. LoopInv' /\ config' = config /\ sched'.current_time = e.time
  BY <1>1, <1>6, <1>8, HandlerReturns
<1>10. TableInv'
  <2>1. request \in Request /\ request.issue_time = e.time /\ request.memory_enqueue_time = 0
    BY <1>2, <1>3, <1>4, RangeAssumption DEF Request, RequestSpec, RequestStage, SimTime
  <2> HIDE DEF request
  <2>2. /\ request_table' \in [Issued' -> Request]
        /\ \A id \in Issued' : request_table'[id] =
             IF id = next_request_id THEN request ELSE request_table[id]
    BY <1>1, <1>3, <1>5, <2>1 DEF Assign
  <2>3. \A id \in Issued : /\ request_table[id] \in Request
                           /\ request_table[id].issue_time <= sched.current_time
                           /\ request_table[id].memory_enqueue_time <= sched.current_time
    BY <1>3 DEF SimulatorInv, EventQueueIsSound
  <2>4. \A id \in Issued : /\ request_table[id].issue_time <= e.time
                           /\ request_table[id].memory_enqueue_time <= e.time
    BY <1>2, <2>3 DEF Request, SimTime
  <2>5. \A id \in Issued' : /\ request_table'[id].issue_time <= e.time
                            /\ request_table'[id].memory_enqueue_time <= e.time
    BY <1>2, <1>5, <2>1, <2>2, <2>4 DEF SimTime
  <2> QED BY <1>9, <2>2, <2>5 DEF TableInv
<1>11. ChannelInv'
  <2>1. ChannelIds' = ChannelIds /\ channels' = channels
    BY <1>9 DEF ChannelIds
  <2>2. \A c \in ChannelIds : channels[c].queued_requests \in Seq(Issued')
    BY <1>5, SeqMonotonic DEF SimulatorInv, EventQueueIsSound
  <2> QED BY <1>3, <2>1, <2>2 DEF ChannelInv
<1> QED BY <1>3, <1>5, <1>6, <1>9, <1>10, <1>11, Compose

\* handle_generate_request keeps the invariant, with or without a next request.
LEMMA GeneratePreserves ==
  ASSUME SimulatorInv, NEW e \in sched.events, handle_generate_request(e)
  PROVE  SimulatorInv'
<1>1. Dispatch(e, "GenerateRequest", Nodes) /\ UNCHANGED <<channels, responses>>
  BY DEF handle_generate_request
<1>2. CASE has_next(compute_nodes, e.target_id)
  BY <1>1, <1>2, IssuePreserves DEF handle_generate_request
<1>3. CASE ~has_next(compute_nodes, e.target_id)
  <2>1. /\ UNCHANGED <<next_request_id, request_table, compute_nodes>>
        /\ Return(Popped(e))
    BY <1>3 DEF handle_generate_request
  <2>2. Issued' = Issued
    BY <2>1 DEF Issued
  <2>3. QueueOK(Popped(e), Issued') /\ Popped(e).current_time = e.time
    BY <1>1, <2>2, DispatchFacts
  <2>4. compute_nodes' \in NodeStates
    BY <2>1 DEF SimulatorInv, TypeOK, NodeStates
  <2>5. LoopInv' /\ config' = config /\ sched'.current_time = e.time
    BY <1>1, <2>1, <2>3, <2>4, HandlerReturns
  <2>6. TableInv'
    BY <1>1, <2>1, <2>5, TableUnchanged
  <2>7. ChannelInv'
    BY <1>1, <2>1, <2>5, ChannelsUnchanged
  <2>8. next_request_id' \in Nat \ {0} /\ responses' \in Seq(Response)
    BY <1>1, <2>1 DEF SimulatorInv, TypeOK
  <2> QED BY <2>4, <2>5, <2>6, <2>7, <2>8, Compose
<1> QED BY <1>2, <1>3

-----------------------------------------------------------------------------
(* The run *)

\* The constructor establishes the invariant.
LEMMA InitEstablishes == Init => SimulatorInv
<1> SUFFICES ASSUME Init PROVE SimulatorInv
  OBVIOUS
<1>1. AcceptedConfig(config) /\ Issued = {}
  BY ConfigAssumption DEF Init, Issued
<1>2. sched \in SchedulerState /\ sched.events = {} /\ sched.current_time = 0
  BY RangeAssumption DEF Init, EmptyScheduler, SchedulerState, SimTime
<1>3. compute_nodes \in [Nodes -> ComputeNodeState]
  BY RangeAssumption DEF Init, NewComputeNode, ComputeNodeState, SimTime
<1>4. /\ channels \in [ChannelIds -> ChannelState]
      /\ \A c \in ChannelIds : channels[c].queued_requests = <<>>
  BY DEF Init, NewChannel, ChannelState
<1>5. request_table \in [Issued -> Request]
  BY <1>1 DEF Init
<1>6. TypeOK
  BY <1>1, <1>2, <1>3, <1>4, <1>5 DEF Init, TypeOK
<1>7. EventLogInTimeOrder
  BY <1>2 DEF Init, EventLogInTimeOrder
<1>8. EventQueueIsSound
  <2>1. QueueOK(sched, Issued)
    BY <1>2 DEF QueueOK
  <2>2. \A c \in ChannelIds : channels[c].queued_requests \in Seq(Issued)
    <3>1. <<>> \in Seq(Issued)
      BY EmptySeq
    <3> QED BY <1>4, <3>1
  <2> QED BY <1>1, <2>1, <2>2 DEF EventQueueIsSound
<1> QED BY <1>6, <1>7, <1>8 DEF SimulatorInv

\* Simulator::run up to the loop keeps the invariant: nothing has been logged
\* that the clock could differ from.
LEMMA RunPreserves ==
  ASSUME SimulatorInv, Run
  PROVE  SimulatorInv'
<1>1. /\ UNCHANGED <<config, event_log, compute_nodes, request_table, channels,
                     next_request_id, responses>>
      /\ ReleaseNextEpochIfReady(sched)
  BY DEF Run
<1>2. Issued' = Issued /\ ChannelIds' = ChannelIds
  BY <1>1 DEF Issued, ChannelIds
<1>3. QueueOK(sched, Issued') /\ AcceptedConfig(config) /\ compute_nodes' \in NodeStates
      /\ released_epoch \in Nat \cup {NoEpoch}
  BY <1>1, <1>2 DEF SimulatorInv, TypeOK, EventQueueIsSound, NodeStates
<1>4. /\ QueueOK(sched', Issued') /\ sched'.current_time = sched.current_time
      /\ released_epoch' \in Nat \cup {NoEpoch}
  BY <1>1, <1>3, ReturnQueueOK
<1>5. EventLogInTimeOrder'
  <2>1. \A e \in sched'.events : e.time >= sched'.current_time
    BY <1>4 DEF QueueOK
  <2> QED BY <1>1, <1>4, <2>1 DEF SimulatorInv, EventLogInTimeOrder
<1>6. LoopInv' /\ TableInv' /\ ChannelInv'
  BY <1>1, <1>2, <1>3, <1>4, <1>5
  DEF LoopInv, TableInv, ChannelInv, SimulatorInv, TypeOK, EventQueueIsSound
<1> QED BY <1>1, <1>3, <1>6, Compose DEF SimulatorInv, TypeOK

\* Every step of the simulator keeps the invariant.
LEMMA NextPreserves == SimulatorInv /\ [Next]_vars => SimulatorInv'
<1> SUFFICES ASSUME SimulatorInv, [Next]_vars PROVE SimulatorInv'
  OBVIOUS
<1>1. CASE Run
  BY <1>1, RunPreserves
<1>2. CASE \E e \in sched.events : MemoryStep(e)
  <2>1. PICK e \in sched.events : MemoryStep(e)
    BY <1>2
  <2>2. MemoryFrame
    BY <2>1 DEF MemoryStep, MemoryFrame
  <2> QED BY <2>1, <2>2, ForwardPreserves, ServiceStartPreserves,
             ServiceCompletePreserves DEF MemoryStep
<1>3. CASE \E e \in sched.events : ComputeStep(e)
  <2>1. PICK e \in sched.events : ComputeStep(e)
    BY <1>3
  <2>2. CASE handle_generate_request(e)
    BY <2>2, GeneratePreserves
  <2>3. CASE handle_local_cache_lookup(e)
    BY <2>3, LookupPreserves
  <2>4. CASE handle_local_cache_hit_complete(e)
    <3>1. 0 \in SimTime
      BY RangeAssumption DEF SimTime
    <3> QED BY <2>4, <3>1, CompletePreserves DEF handle_local_cache_hit_complete
  <2>5. CASE handle_return_response(e)
    <3>1. Dispatch(e, "ReturnResponse", Nodes)
      BY <2>5 DEF handle_return_response
    <3>2. request_table[e.request_id] \in Request
      BY <3>1, DispatchFacts
    <3>3. request_table[e.request_id].size_bytes \in SimTime
      BY <3>2 DEF Request
    <3> QED BY <2>5, <3>3, CompletePreserves DEF handle_return_response
  <2>6. CASE handle_request_complete(e)
    BY <2>6, RequestCompletePreserves
  <2> QED BY <2>1, <2>2, <2>3, <2>4, <2>5, <2>6 DEF ComputeStep
<1>4. CASE UNCHANGED vars
  BY <1>4 DEF vars, SimulatorInv, TypeOK, EventLogInTimeOrder, EventQueueIsSound,
     Issued, ChannelIds
<1> QED BY <1>1, <1>2, <1>3, <1>4 DEF Next, Finished

\* The invariant holds in every state of every behaviour.
LEMMA Invariance == Spec => []SimulatorInv
BY InitEstablishes, NextPreserves, PTL DEF Spec

\* The simulator's state is well typed, for every number of nodes, every SimTime
\* range and every configuration the constructor accepts: no latency, wait or
\* epoch start time wraps, no outstanding count goes below zero, and every
\* issued request has its row in request_table_.
THEOREM TypeCorrect == Spec => []TypeOK
BY Invariance, PTL DEF SimulatorInv

\* Events are dispatched in time order and never in the past, even when a time
\* wraps at the end of the SimTime range (Scheduler::schedule refuses it).
THEOREM LogOrdered == Spec => []EventLogInTimeOrder
BY Invariance, PTL DEF SimulatorInv

\* The next event is always unique, and every pending or queued request id was
\* issued, no later than now.
THEOREM QueueSound == Spec => []EventQueueIsSound
BY Invariance, PTL DEF SimulatorInv

-----------------------------------------------------------------------------
(* What the handlers read of a request, of a channel and of the queue *)

Stage(id) == request_table[id].current_stage
ChannelOf(id) == channel_for(request_table[id])
SourceOf(id) == request_table[id].source_node_id
EpochOf(id) == request_table[id].epoch_id
ObjectOf(id) == request_table[id].object_id
SizeOf(id) == request_table[id].size_bytes
IssuedAt(id) == request_table[id].issue_time
EnqueuedAt(id) == request_table[id].memory_enqueue_time
QueueOf(c) == channels[c].queued_requests

PathTypes ==
  {"LocalCacheLookup", "LocalCacheHitComplete", "ForwardToMemory",
   "MemoryServiceComplete", "ReturnResponse"}

PathEvents == {f \in sched.events : f.type \in PathTypes}
PendingOf(type) == {f \in sched.events : f.type = type}

OpenAt(n) == {id \in Unfinished : SourceOf(id) = n}

-----------------------------------------------------------------------------
(* The inductive invariant *)

\* A request has at most one pending event on its path, of a kind that its
\* stage allows and, if a compute node handles it, for its source.
HeldAtMostOnce ==
  /\ \A f, g \in PathEvents : f.request_id = g.request_id => f = g
  /\ \A f \in PathEvents :
       /\ f.type \in AwaitedEvents(Stage(f.request_id))
       /\ f.type \in ComputeEventTypes => f.target_id = SourceOf(f.request_id)

\* A queued request waits in its own channel, once, and for no event.
QueuedAtMostOnce ==
  \A c \in ChannelIds : \A i \in 1 .. Len(QueueOf(c)) :
    /\ Stage(QueueOf(c)[i]) = "ForwardedToMemory"
    /\ ChannelOf(QueueOf(c)[i]) = c
    /\ \A f \in PathEvents : f.request_id # QueueOf(c)[i]
    /\ \A j \in 1 .. Len(QueueOf(c)) : QueueOf(c)[i] = QueueOf(c)[j] => i = j

\* A pending start is the only one of its channel, is announced by the flag and
\* is for the head of the queue; the flag is never raised without one.
StartsAreAnnounced ==
  /\ \A f, g \in PendingOf("MemoryServiceStart") :
       ChannelOf(f.request_id) = ChannelOf(g.request_id) => f = g
  /\ \A f \in PendingOf("MemoryServiceStart") :
       LET ch == channels[ChannelOf(f.request_id)]
       IN /\ ch.service_start_scheduled
          /\ ch.queued_requests # <<>>
          /\ f.request_id = Head(ch.queued_requests)
  /\ \A c \in ChannelIds : channels[c].service_start_scheduled =>
       \E f \in PendingOf("MemoryServiceStart") : ChannelOf(f.request_id) = c

\* A pending completion is the only one of its channel and is announced by the
\* other flag; the flags exclude each other, and one is up while work waits.
ServicesAreAnnounced ==
  /\ \A f, g \in PendingOf("MemoryServiceComplete") :
       ChannelOf(f.request_id) = ChannelOf(g.request_id) => f = g
  /\ \A f \in PendingOf("MemoryServiceComplete") :
       channels[ChannelOf(f.request_id)].service_in_progress
  /\ \A c \in ChannelIds :
       /\ ~(channels[c].service_start_scheduled /\ channels[c].service_in_progress)
       /\ QueueOf(c) # <<>> =>
            channels[c].service_start_scheduled \/ channels[c].service_in_progress

\* A request has one response once it is completed, and none before.
AnsweredWhenCompleted ==
  /\ \A i, j \in DOMAIN responses :
       responses[i].request_id = responses[j].request_id => i = j
  /\ \A i \in DOMAIN responses : responses[i].request_id \in Issued
  /\ \A id \in Issued : AnswersTo(id) = {} <=> id \in Unfinished

\* No handler has thrown a logic_error (memory_node.cpp and compute_node.cpp
\* throw four of them), so that run() goes on.
NoErrorThrown == status \in {"constructed", "running"}

RequestPathInv ==
  /\ SimulatorInv
  /\ HeldAtMostOnce
  /\ QueuedAtMostOnce
  /\ StartsAreAnnounced
  /\ ServicesAreAnnounced
  /\ AnsweredWhenCompleted
  /\ OutstandingCountsUnfinished
  /\ NoErrorThrown

-----------------------------------------------------------------------------
(* The event queue after a handler *)

\* Every delay that a handler may add to the time of an event.
Delays ==
  {config.hit_latency, config.one_way_link_latency}
    \cup {service_time_for(request_table[id]) : id \in Issued}
    \cup UNION {{config.compute_nodes[n][i].scheduled_issue_offset :
                   i \in DOMAIN config.compute_nodes[n]} : n \in Nodes}

\* The run is far from the end of the SimTime range: no delay wraps.
TimesFit == \A f \in sched.events, d \in Delays : f.time + d < SimTimeRange

\* The arrivals of an epoch are configured in time order, as the generator of
\* bursty workloads configures them.
ArrivalsInOrder ==
  bursty => \A n \in Nodes : \A i \in 2 .. Len(config.compute_nodes[n]) :
    LET before == config.compute_nodes[n][i - 1]
        after == config.compute_nodes[n][i]
    IN before.epoch_id = after.epoch_id =>
         before.scheduled_issue_offset <= after.scheduled_issue_offset

\* The handler of e returned with a sound scheduler that differs from the one
\* before it by e and by new.
Leaves(e, new) ==
  \E s : /\ QueueOK(s, Issued') /\ s.current_time = e.time
         /\ s.events = (sched.events \ {e}) \cup new
         /\ Return(s)

\* But for GenerateRequest events, e has left the queue and new has joined it.
Exchanges(e, new) ==
  \A f : f.type # "GenerateRequest" =>
    (f \in sched'.events <=> (f \in sched.events /\ f # e) \/ f \in new)

\* Scheduler::schedule adds one fresh event, unless its time is in the past.
LEMMA ScheduleEvents ==
  ASSUME NEW ids, NEW s, QueueOK(s, ids),
         NEW time \in SimTime, NEW type \in EventType, NEW target \in Targets,
         NEW id \in Nat
  PROVE  LET t == schedule(s, MakeEvent(time, type, target, id))
         IN \E new \in Event :
              /\ new.time = time /\ new.type = type
              /\ new.target_id = target /\ new.request_id = id
              /\ new \notin s.events
              /\ IF time < s.current_time THEN t = s
                 ELSE t.events = s.events \cup {new}
<1> DEFINE ev == MakeEvent(time, type, target, id)
           new == Stamp(ev, s.next_sequence)
<1>1. s \in SchedulerState
  BY DEF QueueOK
<1>2. /\ new \in Event
      /\ new.time = time /\ new.sequence = s.next_sequence
      /\ new.type = type /\ new.request_id = id /\ new.target_id = target
  BY <1>1 DEF Stamp, MakeEvent, Event, SchedulerState
<1>3. new \notin s.events
  BY <1>1, <1>2 DEF QueueOK, SchedulerState
<1>4. ev.time = time
  BY DEF MakeEvent
<1>5. IF time < s.current_time THEN schedule(s, ev) = s
      ELSE schedule(s, ev).events = s.events \cup {new}
  BY <1>4 DEF schedule
<1> QED BY <1>2, <1>3, <1>5

\* What release_next_epoch_if_ready does: nothing, or, when nothing is pending
\* and every node is idle, it opens the least waiting epoch with one
\* GenerateRequest for each node whose next request is of that epoch.
LEMMA ReleaseCases ==
  ASSUME NEW ids, NEW s, QueueOK(s, ids), AcceptedConfig(config),
         compute_nodes' \in NodeStates, ReleaseNextEpochIfReady(s)
  PROVE  \/ /\ sched' = s /\ released_epoch' = released_epoch
            /\ ReadyToRelease(s, compute_nodes') =>
                 UnreleasedEpochs(compute_nodes') = {}
         \/ /\ ReadyToRelease(s, compute_nodes')
            /\ released_epoch' \in UnreleasedEpochs(compute_nodes')
            /\ \A g \in UnreleasedEpochs(compute_nodes') : released_epoch' <= g
            /\ \A f \in sched'.events :
                 /\ f.type = "GenerateRequest" /\ f.request_id = kInvalidRequestId
                 /\ f.target_id \in Nodes
                 /\ NextIsOfEpoch(compute_nodes', f.target_id, released_epoch')
            /\ \A f, g \in sched'.events : f.target_id = g.target_id => f = g
            /\ \A n \in Nodes :
                 /\ NextIsOfEpoch(compute_nodes', n, released_epoch')
                 /\ s.current_time + peek_next(compute_nodes', n).scheduled_issue_offset
                      < SimTimeRange
                 => \E f \in sched'.events : f.target_id = n
<1> DEFINE nodes == compute_nodes'
<1>1. CASE ReadyToRelease(s, nodes) /\ UnreleasedEpochs(nodes) # {}
  <2> DEFINE
        epoch == released_epoch'
        time(n) == Plus(s.current_time, peek_next(nodes, n).scheduled_issue_offset)
        accepted == {n \in Nodes : /\ NextIsOfEpoch(nodes, n, epoch)
                                   /\ time(n) >= s.current_time}
        rank(n) == Cardinality({m \in accepted : m < n})
        new(n) == Stamp(MakeEvent(time(n), "GenerateRequest", n, kInvalidRequestId),
                        s.next_sequence + rank(n))
  <2>1. epoch = next_unreleased_epoch(nodes) /\ sched' = Release(s, nodes, epoch)
    BY <1>1 DEF ReleaseNextEpochIfReady
  <2>2. /\ epoch \in UnreleasedEpochs(nodes)
        /\ \A g \in UnreleasedEpochs(nodes) : epoch <= g
    BY <1>1, <2>1, NextEpochType
  <2>3. sched'.events = {new(n) : n \in accepted}
    <3>1. sched'.events = s.events \cup {new(n) : n \in accepted}
      BY <2>1 DEF Release
    <3> QED BY <1>1, <3>1 DEF ReadyToRelease
  <2>4. \A n \in accepted :
          /\ new(n).type = "GenerateRequest" /\ new(n).target_id = n
          /\ new(n).request_id = kInvalidRequestId
          /\ n \in Nodes /\ NextIsOfEpoch(nodes, n, epoch)
    BY DEF Stamp, MakeEvent
  <2>5. ASSUME NEW n \in Nodes, NextIsOfEpoch(nodes, n, epoch),
               s.current_time + peek_next(nodes, n).scheduled_issue_offset < SimTimeRange
        PROVE  n \in accepted
    <3>1. peek_next(nodes, n) \in RequestSpec
      BY <2>5, PeekType DEF NextIsOfEpoch
    <3>2. /\ peek_next(nodes, n).scheduled_issue_offset \in Nat
          /\ s.current_time \in Nat
      BY <3>1 DEF RequestSpec, SimTime, QueueOK, SchedulerState
    <3>3. time(n) >= s.current_time
      <4> DEFINE offset == peek_next(nodes, n).scheduled_issue_offset
      <4> HIDE DEF offset
      <4>1. Plus(s.current_time, offset) = s.current_time + offset
        BY <2>5, <3>2, RangeAssumption DEF Plus, offset
      <4> QED BY <3>2, <4>1 DEF offset
    <3> QED BY <2>5, <3>3
  <2> HIDE DEF new, accepted, nodes, epoch
  <2>6. \A f \in sched'.events : /\ f.type = "GenerateRequest"
                                 /\ f.request_id = kInvalidRequestId
                                 /\ f.target_id \in Nodes
                                 /\ NextIsOfEpoch(nodes, f.target_id, epoch)
    BY <2>3, <2>4
  <2>7. \A f, g \in sched'.events : f.target_id = g.target_id => f = g
    BY <2>3, <2>4
  <2>8. \A n \in Nodes :
          /\ NextIsOfEpoch(nodes, n, epoch)
          /\ s.current_time + peek_next(nodes, n).scheduled_issue_offset < SimTimeRange
          => \E f \in sched'.events : f.target_id = n
    BY <2>3, <2>4, <2>5
  <2> QED BY <1>1, <2>2, <2>6, <2>7, <2>8 DEF nodes, epoch
<1>2. CASE ~(ReadyToRelease(s, nodes) /\ UnreleasedEpochs(nodes) # {})
  BY <1>2 DEF ReleaseNextEpochIfReady
<1> QED BY <1>1, <1>2

\* The events a scheduler holds after one more was offered to it.
LEMMA AddsEvent ==
  ASSUME NEW ids, NEW t, QueueOK(t, ids),
         NEW time \in SimTime, NEW type \in EventType, NEW target \in Targets,
         NEW id \in Nat, type # "GenerateRequest" => id \in ids
  PROVE  LET s == schedule(t, MakeEvent(time, type, target, id))
         IN \E p \in Event, accepted \in BOOLEAN :
              /\ p.time = time /\ p.type = type
              /\ p.target_id = target /\ p.request_id = id
              /\ time >= t.current_time => accepted
              /\ s.events = t.events \cup (IF accepted THEN {p} ELSE {})
              /\ QueueOK(s, ids) /\ s.current_time = t.current_time
<1> DEFINE s == schedule(t, MakeEvent(time, type, target, id))
<1>1. PICK p \in Event :
        /\ p.time = time /\ p.type = type /\ p.target_id = target /\ p.request_id = id
        /\ IF time < t.current_time THEN s = t ELSE s.events = t.events \cup {p}
  BY ScheduleEvents
<1>2. time \in Nat /\ t.current_time \in Nat
  BY DEF SimTime, QueueOK, SchedulerState
<1>3. QueueOK(s, ids) /\ s.current_time = t.current_time
  BY ScheduleQueueOK
<1> HIDE DEF s
<1>4. CASE time < t.current_time
  <2>1. s.events = t.events \cup {} /\ ~(time >= t.current_time)
    BY <1>1, <1>2, <1>4
  <2> QED BY <1>1, <1>3, <2>1 DEF s
<1>5. CASE ~(time < t.current_time)
  BY <1>1, <1>3, <1>5 DEF s
<1> QED BY <1>4, <1>5

\* A delay that fits is added as it is.
LEMMA DelayFits ==
  ASSUME NEW time \in SimTime, NEW delay \in Nat, time + delay < SimTimeRange
  PROVE  Plus(time, delay) = time + delay /\ Plus(time, delay) >= time
BY RangeAssumption DEF Plus, SimTime

\* What a handler schedules is what the queue gains, but for GenerateRequests.
LEMMA LeavesExchanges ==
  ASSUME SimulatorInv, NEW e \in sched.events, NEW new, Leaves(e, new),
         compute_nodes' \in NodeStates
  PROVE  Exchanges(e, new)
<1>1. PICK s : /\ QueueOK(s, Issued')
               /\ s.events = (sched.events \ {e}) \cup new
               /\ Return(s)
  BY DEF Leaves
<1>2. AcceptedConfig(config) /\ ReleaseNextEpochIfReady(s)
  BY <1>1 DEF SimulatorInv, TypeOK, Return
<1>3. CASE sched' = s
  BY <1>1, <1>3 DEF Exchanges
<1>4. CASE ReadyToRelease(s, compute_nodes')
           /\ \A f \in sched'.events : f.type = "GenerateRequest"
  BY <1>1, <1>4 DEF Exchanges, ReadyToRelease
<1> QED BY <1>1, <1>2, <1>3, <1>4, ReleaseCases

\* The queue once e has left it.
LEMMA PoppedEvents ==
  ASSUME NEW e
  PROVE  Popped(e).events = sched.events \ {e}
BY DEF Popped, pop_next

-----------------------------------------------------------------------------
(* The request table after a handler *)

\* No request issued before changes its channel, its source or its epoch.
KeepsRequests ==
  \A id \in Issued : /\ ChannelOf(id)' = ChannelOf(id)
                     /\ SourceOf(id)' = SourceOf(id)
                     /\ EpochOf(id)' = EpochOf(id)

\* A handler that leaves the table alone keeps every request and its stage.
LEMMA TableKept ==
  ASSUME UNCHANGED <<config, request_table, next_request_id>>
  PROVE  /\ Issued' = Issued /\ Unfinished' = Unfinished /\ KeepsRequests
         /\ \A id \in Issued : Stage(id)' = Stage(id)
<1>1. Issued' = Issued
  BY DEF Issued
<1> QED BY <1>1 DEF Unfinished, KeepsRequests, ChannelOf, channel_for, SourceOf, EpochOf, Stage

\* A handler that rewrites the stage of one request keeps every request.
LEMMA StageRewritten ==
  ASSUME SimulatorInv, UNCHANGED <<config, next_request_id>>,
         NEW i \in Issued, NEW stage,
         request_table' = [request_table EXCEPT ![i].current_stage = stage]
  PROVE  /\ Issued' = Issued /\ KeepsRequests
         /\ \A id \in Issued : Stage(id)' = IF id = i THEN stage ELSE Stage(id)
<1>1. Issued' = Issued
  BY DEF Issued
<1>2. request_table \in [Issued -> Request] /\ request_table[i] \in Request
  BY DEF SimulatorInv, TypeOK
<1>3. \A id \in Issued : request_table'[id] =
        IF id = i THEN [request_table[i] EXCEPT !.current_stage = stage]
        ELSE request_table[id]
  BY <1>2
<1>4. \A id \in Issued :
        /\ request_table'[id].object_id = request_table[id].object_id
        /\ request_table'[id].source_node_id = request_table[id].source_node_id
        /\ request_table'[id].epoch_id = request_table[id].epoch_id
        /\ request_table'[id].current_stage =
             IF id = i THEN stage ELSE request_table[id].current_stage
  BY <1>2, <1>3 DEF Request
<1>5. KeepsRequests
  BY <1>4 DEF KeepsRequests, ChannelOf, channel_for, memory_channel_for_object,
     SourceOf, EpochOf
<1> QED BY <1>1, <1>4, <1>5 DEF Stage

\* A handler that rewrites the enqueue time of one request keeps every request
\* and its stage.
LEMMA EnqueueTimeRewritten ==
  ASSUME SimulatorInv, UNCHANGED <<config, next_request_id>>,
         NEW i \in Issued, NEW time,
         request_table' = [request_table EXCEPT ![i].memory_enqueue_time = time]
  PROVE  /\ Issued' = Issued /\ Unfinished' = Unfinished /\ KeepsRequests
         /\ \A id \in Issued : Stage(id)' = Stage(id)
<1>1. Issued' = Issued
  BY DEF Issued
<1>2. request_table \in [Issued -> Request] /\ request_table[i] \in Request
  BY DEF SimulatorInv, TypeOK
<1>3. \A id \in Issued : request_table'[id] =
        IF id = i THEN [request_table[i] EXCEPT !.memory_enqueue_time = time]
        ELSE request_table[id]
  BY <1>2
<1>4. \A id \in Issued :
        /\ request_table'[id].object_id = request_table[id].object_id
        /\ request_table'[id].source_node_id = request_table[id].source_node_id
        /\ request_table'[id].epoch_id = request_table[id].epoch_id
        /\ request_table'[id].current_stage = request_table[id].current_stage
  BY <1>2, <1>3 DEF Request
<1>5. KeepsRequests
  BY <1>4 DEF KeepsRequests, ChannelOf, channel_for, memory_channel_for_object,
     SourceOf, EpochOf
<1>6. Unfinished' = Unfinished
  BY <1>1, <1>4 DEF Unfinished
<1> QED BY <1>1, <1>4, <1>5, <1>6 DEF Stage

\* A request keeps what it was issued with until it completes, and gets its enqueue
\* time when it is forwarded.
LEMMA RequestsStand ==
  ASSUME SimulatorInv, NEW e \in sched.events, MemoryStep(e) \/ ComputeStep(e)
  PROVE  \A id \in Issued :
           /\ ObjectOf(id)' = ObjectOf(id) /\ SizeOf(id)' = SizeOf(id)
           /\ IssuedAt(id)' = IssuedAt(id)
           /\ EnqueuedAt(id)' = IF e.type = "ForwardToMemory" /\ id = e.request_id
                                THEN e.time ELSE EnqueuedAt(id)
<1> DEFINE new == request_table'
           forwarded(id) == e.type = "ForwardToMemory" /\ id = e.request_id
<1> SUFFICES ASSUME NEW id \in Issued
             PROVE  /\ new[id].object_id = request_table[id].object_id
                    /\ new[id].size_bytes = request_table[id].size_bytes
                    /\ new[id].issue_time = request_table[id].issue_time
                    /\ new[id].memory_enqueue_time =
                         IF forwarded(id) THEN e.time
                         ELSE request_table[id].memory_enqueue_time
  BY DEF ObjectOf, SizeOf, IssuedAt, EnqueuedAt
<1>1. PICK table : table = request_table /\ table \in [Issued -> Request]
  BY DEF SimulatorInv, TypeOK
<1>2. table[id] \in Request
  BY <1>1
<1>3. CASE new = table /\ e.type # "ForwardToMemory"
  BY <1>1, <1>3
<1>4. CASE /\ e.type # "ForwardToMemory"
           /\ \E i, stage : new = [table EXCEPT ![i].current_stage = stage]
  <2>1. PICK i, stage : new = [table EXCEPT ![i].current_stage = stage]
    BY <1>4
  <2>2. \/ new[id] = table[id]
        \/ new[id] = [table[id] EXCEPT !.current_stage = stage]
    BY <1>1, <2>1
  <2> HIDE DEF new
  <2> QED BY <1>1, <1>2, <1>4, <2>2 DEF Request
<1>5. CASE /\ e.type = "ForwardToMemory"
           /\ new = [table EXCEPT ![e.request_id].memory_enqueue_time = e.time]
  <2>1. new[id] = IF id = e.request_id
                  THEN [table[id] EXCEPT !.memory_enqueue_time = e.time] ELSE table[id]
    BY <1>1, <1>5
  <2> HIDE DEF new
  <2> QED BY <1>1, <1>2, <1>5, <2>1 DEF Request
<1>6. CASE e.type # "ForwardToMemory" /\ \E r : new = Assign(table, next_request_id, r)
  <2>1. next_request_id # id
    BY DEF Issued, SimulatorInv, TypeOK
  <2>2. new[id] = table[id]
    BY <1>1, <1>6, <2>1 DEF Assign
  <2> QED BY <1>1, <1>6, <2>2
<1>7. CASE MemoryStep(e)
  BY <1>1, <1>3, <1>4, <1>5, <1>7
     DEF MemoryStep, handle_forward_to_memory, handle_memory_service_start,
         handle_memory_service_complete, Dispatch
<1>8. CASE ComputeStep(e)
  BY <1>1, <1>3, <1>4, <1>6, <1>8
     DEF ComputeStep, handle_generate_request, IssueRequest, handle_local_cache_lookup,
         handle_local_cache_hit_complete, handle_return_response, Complete, MarkCompleted,
         handle_request_complete, Dispatch
<1> QED BY <1>7, <1>8

\* Every request keeps its stage, but for id, which reaches this one.
Reaches(id, stage) ==
  \A i \in Issued : Stage(i)' = IF i = id THEN stage ELSE Stage(i)

KeepsStages == \A id \in Issued : Stage(id)' = Stage(id)

-----------------------------------------------------------------------------
(* What each handler does to the requests, the channels and the queue *)

\* handle_local_cache_lookup: the request goes on as a hit or as a miss, and
\* waits for the event of its new stage.
LookupEffect(e) ==
  /\ e.request_id \in Issued /\ Issued' = Issued /\ KeepsRequests
  /\ UNCHANGED <<status, config, compute_nodes, channels, responses>>
  /\ \E stage \in RequestStage, p \in Event, accepted \in BOOLEAN :
       /\ p.request_id = e.request_id
       /\ \/ /\ stage = "LocalLookup"
             /\ p.type = "LocalCacheHitComplete" /\ p.target_id = e.target_id
             /\ TimesFit => p.time = e.time + config.hit_latency
          \/ /\ stage = "ForwardedToMemory" /\ p.type = "ForwardToMemory"
             /\ TimesFit => p.time = e.time + config.one_way_link_latency
       /\ Reaches(e.request_id, stage)
       /\ TimesFit => accepted
       /\ Leaves(e, IF accepted THEN {p} ELSE {})

\* handle_local_cache_lookup: a hit completes after the lookup latency, a miss is
\* forwarded to the memory node.
LEMMA LookupHasEffect ==
  ASSUME SimulatorInv, NEW e \in sched.events, handle_local_cache_lookup(e)
  PROVE  LookupEffect(e)
<1> DEFINE n == e.target_id
           id == e.request_id
           hit == contains(local_cache[n], request_table[id].object_id)
           stage == IF hit THEN "LocalLookup" ELSE "ForwardedToMemory"
           type == IF hit THEN "LocalCacheHitComplete" ELSE "ForwardToMemory"
           target == IF hit THEN n ELSE MemoryNodeId
           delay == IF hit THEN config.hit_latency ELSE config.one_way_link_latency
           s == schedule(Popped(e), MakeEvent(Plus(e.time, delay), type, target, id))
<1>1. /\ Dispatch(e, "LocalCacheLookup", Nodes)
      /\ request_table' = [request_table EXCEPT ![id].current_stage = stage]
      /\ UNCHANGED <<next_request_id, compute_nodes, channels, responses>>
      /\ Return(s)
  BY DEF handle_local_cache_lookup, ToMemory
<1>2. /\ e.time \in SimTime /\ n \in Nodes
      /\ id \in Issued /\ id \in Nat
      /\ QueueOK(Popped(e), Issued) /\ Popped(e).current_time = e.time
  BY <1>1, DispatchFacts
<1>3. config' = config /\ status' = status
  BY <1>1 DEF Return
<1>4. Issued' = Issued /\ KeepsRequests /\ Reaches(id, stage)
  <2> HIDE DEF stage
  <2> QED BY <1>1, <1>2, <1>3, StageRewritten DEF Reaches
<1>5. delay \in Nat /\ Plus(e.time, delay) \in SimTime
  <2>1. delay \in Nat /\ e.time \in Nat
    BY <1>2, ConfigType DEF SimulatorInv, TypeOK, SimTime
  <2> QED BY <2>1, PlusType
<1>6. type \in EventType /\ target \in Targets
  BY <1>2 DEF EventType, ComputeEventTypes, MemoryEventTypes, Targets
<1>7. TimesFit => Plus(e.time, delay) = e.time + delay /\ Plus(e.time, delay) >= e.time
  <2>1. delay \in Delays
    BY DEF Delays
  <2> HIDE DEF delay
  <2> QED BY <1>2, <1>5, <2>1, DelayFits DEF TimesFit
<1> HIDE DEF stage, delay
<1>8. type # "GenerateRequest"
  OBVIOUS
<1> HIDE DEF type, target
<1>9. PICK p \in Event, accepted \in BOOLEAN :
        /\ p.type = type /\ p.target_id = target /\ p.request_id = id
        /\ p.time = Plus(e.time, delay)
        /\ Plus(e.time, delay) >= e.time => accepted
        /\ s.events = Popped(e).events \cup (IF accepted THEN {p} ELSE {})
        /\ QueueOK(s, Issued) /\ s.current_time = e.time
  BY <1>2, <1>5, <1>6, <1>8, AddsEvent
<1> HIDE DEF s
<1>10. Leaves(e, IF accepted THEN {p} ELSE {})
  BY <1>1, <1>4, <1>9, PoppedEvents DEF Leaves
<1>11. \/ /\ stage = "LocalLookup" /\ p.type = "LocalCacheHitComplete" /\ p.target_id = n
          /\ delay = config.hit_latency
       \/ /\ stage = "ForwardedToMemory" /\ p.type = "ForwardToMemory"
          /\ delay = config.one_way_link_latency
  BY <1>9 DEF stage, type, target, delay
<1>12. TimesFit => accepted /\ p.time = e.time + delay
  BY <1>7, <1>9
<1> QED BY <1>1, <1>2, <1>3, <1>4, <1>9, <1>10, <1>11, <1>12 DEF LookupEffect, RequestStage

\* Only channel c differs, and there it is ch.
ChannelBecomes(c, ch) ==
  /\ c \in ChannelIds /\ ChannelIds' = ChannelIds
  /\ channels'[c] = ch
  /\ \A d \in ChannelIds : d # c => channels'[d] = channels[d]

\* handle_forward_to_memory: the request joins the queue of its channel, and a
\* free channel gets a start, for the head of the queue, at this time.
ForwardEffect(e) ==
  LET id == e.request_id
      c == ChannelOf(id)
      queue == Append(QueueOf(c), id)
      free == ChannelFree(channels[c])
  IN /\ id \in Issued /\ Issued' = Issued /\ Unfinished' = Unfinished
     /\ KeepsRequests /\ KeepsStages
     /\ UNCHANGED <<status, config, compute_nodes, responses>>
     /\ ChannelBecomes(c,
          [queued_requests |-> queue,
           service_in_progress |-> channels[c].service_in_progress,
           service_start_scheduled |-> channels[c].service_start_scheduled \/ free])
     /\ \E p \in Event :
          /\ p.type = "MemoryServiceStart" /\ p.request_id = Head(queue)
          /\ Leaves(e, IF free THEN {p} ELSE {})

\* handle_forward_to_memory: the request joins the queue of its channel, and a
\* free channel announces a start for its head.
LEMMA ForwardHasEffect ==
  ASSUME SimulatorInv, NEW e \in sched.events, handle_forward_to_memory(e), MemoryFrame
  PROVE  ForwardEffect(e)
<1> DEFINE id == e.request_id
           c == ChannelOf(id)
           queue == Append(QueueOf(c), id)
           free == ChannelFree(channels[c])
           start == MakeEvent(e.time, "MemoryServiceStart", MemoryNodeId, Head(queue))
           s == IF free THEN schedule(Popped(e), start) ELSE Popped(e)
<1>1. /\ Dispatch(e, "ForwardToMemory", {MemoryNodeId})
      /\ request_table' = [request_table EXCEPT ![id].memory_enqueue_time = e.time]
      /\ channels' = [channels EXCEPT ![c].queued_requests = queue,
                                      ![c].service_start_scheduled = @ \/ free]
      /\ UNCHANGED compute_nodes
      /\ Return(s)
  BY DEF handle_forward_to_memory, Enqueue, ToMemory, ChannelOf, QueueOf
<1>2. /\ e.time \in SimTime /\ id \in Issued /\ id \in Nat
      /\ request_table[id] \in Request
      /\ QueueOK(Popped(e), Issued) /\ Popped(e).current_time = e.time
  BY <1>1, DispatchFacts
<1>3. UNCHANGED <<status, config, next_request_id, responses>> /\ ChannelIds' = ChannelIds
  BY <1>1 DEF Return, MemoryFrame, ChannelIds
<1>4. /\ Issued' = Issued /\ Unfinished' = Unfinished
      /\ KeepsRequests /\ KeepsStages
  BY <1>1, <1>2, <1>3, EnqueueTimeRewritten DEF KeepsStages
<1>5. c \in ChannelIds
  BY <1>2, ChannelForType DEF SimulatorInv, TypeOK, ChannelOf
<1>6. channels \in [ChannelIds -> ChannelState] /\ QueueOf(c) \in Seq(Issued)
  BY <1>5 DEF SimulatorInv, TypeOK, EventQueueIsSound, QueueOf
<1>7. Head(queue) \in Issued /\ Head(queue) \in Nat
  <2>1. queue \in Seq(Issued) /\ queue # <<>>
    BY <1>2, <1>6
  <2> HIDE DEF queue
  <2>2. Head(queue) \in Issued
    BY <2>1
  <2> QED BY <2>2 DEF Issued, SimulatorInv, TypeOK
<1>8. ChannelBecomes(c,
        [queued_requests |-> queue,
         service_in_progress |-> channels[c].service_in_progress,
         service_start_scheduled |-> channels[c].service_start_scheduled \/ free])
  <2> HIDE DEF queue, free, c
  <2> QED BY <1>1, <1>3, <1>5, <1>6 DEF ChannelBecomes, ChannelState
<1>9. "MemoryServiceStart" \in EventType /\ MemoryNodeId \in Targets
  BY DEF EventType, MemoryEventTypes, Targets
<1> HIDE DEF queue, free
<1>10. PICK p \in Event, accepted \in BOOLEAN :
         LET t == schedule(Popped(e), start)
         IN /\ p.type = "MemoryServiceStart" /\ p.request_id = Head(queue)
            /\ e.time >= Popped(e).current_time => accepted
            /\ t.events = Popped(e).events \cup (IF accepted THEN {p} ELSE {})
            /\ QueueOK(t, Issued) /\ t.current_time = e.time
  BY <1>2, <1>7, <1>9, AddsEvent
<1>11. accepted
  BY <1>2, <1>10 DEF SimTime
<1>12. /\ s.events = (sched.events \ {e}) \cup (IF free THEN {p} ELSE {})
       /\ QueueOK(s, Issued) /\ s.current_time = e.time
  <2> HIDE DEF start
  <2> QED BY <1>2, <1>10, <1>11, PoppedEvents
<1> HIDE DEF s
<1>13. Leaves(e, IF free THEN {p} ELSE {})
  BY <1>1, <1>4, <1>12 DEF Leaves
<1> QED BY <1>1, <1>2, <1>3, <1>4, <1>8, <1>10, <1>13 DEF ForwardEffect, free, queue

\* handle_memory_service_start, when it does not throw: the head of the queue
\* leaves it for service, which ends with one completion.
ServiceStartEffect(e) ==
  LET id == e.request_id
      c == ChannelOf(id)
  IN /\ id \in Issued /\ Issued' = Issued /\ KeepsRequests
     /\ Reaches(id, "WaitingForResponse")
     /\ UNCHANGED <<status, config, compute_nodes, responses>>
     /\ ChannelBecomes(c,
          [queued_requests |-> Tail(QueueOf(c)), service_in_progress |-> TRUE,
           service_start_scheduled |-> FALSE])
     /\ \E p \in Event, accepted \in BOOLEAN :
          /\ p.type = "MemoryServiceComplete" /\ p.request_id = id
          /\ TimesFit => accepted /\ p.time = e.time + service_time_for(request_table[id])
          /\ Leaves(e, IF accepted THEN {p} ELSE {})

\* handle_memory_service_start for the head of a queue throws nothing: the head
\* leaves the queue and its completion is scheduled.
LEMMA ServiceStartHasEffect ==
  ASSUME SimulatorInv, NEW e \in sched.events, handle_memory_service_start(e), MemoryFrame,
         QueueOf(ChannelOf(e.request_id)) # <<>>,
         Head(QueueOf(ChannelOf(e.request_id))) = e.request_id
  PROVE  ServiceStartEffect(e)
<1> DEFINE id == e.request_id
           c == ChannelOf(id)
           ch == [queued_requests |-> Tail(QueueOf(c)), service_in_progress |-> TRUE,
                  service_start_scheduled |-> FALSE]
           delay == service_time_for(request_table[id])
           s == schedule(Popped(e), MakeEvent(Plus(e.time, delay),
                           "MemoryServiceComplete", MemoryNodeId, id))
<1>1. /\ Dispatch(e, "MemoryServiceStart", {MemoryNodeId})
      /\ request_table' = [request_table EXCEPT ![id].current_stage = "WaitingForResponse"]
      /\ channels' = [channels EXCEPT ![c] = ch]
      /\ UNCHANGED compute_nodes
      /\ Return(s)
  BY DEF handle_memory_service_start, ServiceStartError, ToMemory, ChannelOf, QueueOf
<1>2. /\ e.time \in SimTime /\ id \in Issued /\ id \in Nat
      /\ request_table[id] \in Request
      /\ QueueOK(Popped(e), Issued) /\ Popped(e).current_time = e.time
  BY <1>1, DispatchFacts
<1>3. UNCHANGED <<status, config, next_request_id, responses>> /\ ChannelIds' = ChannelIds
  BY <1>1 DEF Return, MemoryFrame, ChannelIds
<1>4. Issued' = Issued /\ KeepsRequests /\ Reaches(id, "WaitingForResponse")
  BY <1>1, <1>2, <1>3, StageRewritten DEF Reaches
<1>5. c \in ChannelIds /\ AcceptedConfig(config)
  BY <1>2, ChannelForType DEF SimulatorInv, TypeOK, ChannelOf
<1>6. channels \in [ChannelIds -> ChannelState]
  BY DEF SimulatorInv, TypeOK
<1>7. ChannelBecomes(c, ch)
  <2> HIDE DEF ch, c
  <2> QED BY <1>1, <1>3, <1>5, <1>6 DEF ChannelBecomes
<1>8. delay \in Nat /\ Plus(e.time, delay) \in SimTime
  <2>1. delay \in Nat /\ e.time \in Nat
    BY <1>2, <1>5, ServiceTimeType DEF SimTime
  <2> QED BY <2>1, PlusType
<1>9. "MemoryServiceComplete" \in EventType /\ MemoryNodeId \in Targets
      /\ "MemoryServiceComplete" # "GenerateRequest"
  BY DEF EventType, MemoryEventTypes, Targets
<1>10. TimesFit => Plus(e.time, delay) = e.time + delay /\ Plus(e.time, delay) >= e.time
  <2>1. delay \in Delays
    BY <1>2 DEF Delays
  <2> HIDE DEF delay
  <2> QED BY <1>2, <1>8, <2>1, DelayFits DEF TimesFit
<1> HIDE DEF delay
<1>11. PICK p \in Event, accepted \in BOOLEAN :
         /\ p.type = "MemoryServiceComplete" /\ p.request_id = id
         /\ p.time = Plus(e.time, delay)
         /\ Plus(e.time, delay) >= e.time => accepted
         /\ s.events = Popped(e).events \cup (IF accepted THEN {p} ELSE {})
         /\ QueueOK(s, Issued) /\ s.current_time = e.time
  BY <1>2, <1>8, <1>9, AddsEvent
<1> HIDE DEF s
<1>12. Leaves(e, IF accepted THEN {p} ELSE {})
  BY <1>1, <1>4, <1>11, PoppedEvents DEF Leaves
<1>13. TimesFit => accepted /\ p.time = e.time + service_time_for(request_table[id])
  BY <1>10, <1>11 DEF delay
<1> QED BY <1>1, <1>2, <1>3, <1>4, <1>7, <1>11, <1>12, <1>13 DEF ServiceStartEffect

\* handle_memory_service_complete, when it does not throw: the answer leaves for
\* the source of the request, and the next one waiting gets a start.
ServiceCompleteEffect(e) ==
  LET id == e.request_id
      c == ChannelOf(id)
      waiting == QueueOf(c) # <<>>
  IN /\ id \in Issued /\ Issued' = Issued /\ Unfinished' = Unfinished
     /\ KeepsRequests /\ KeepsStages
     /\ UNCHANGED <<status, config, compute_nodes, responses>>
     /\ ChannelBecomes(c,
          [queued_requests |-> QueueOf(c), service_in_progress |-> FALSE,
           service_start_scheduled |-> channels[c].service_start_scheduled \/ waiting])
     /\ \E p, q \in Event, accepted \in BOOLEAN :
          /\ p.type = "ReturnResponse" /\ p.request_id = id /\ p.target_id = SourceOf(id)
          /\ q.type = "MemoryServiceStart"
          /\ waiting => q.request_id = Head(QueueOf(c))
          /\ TimesFit => accepted /\ p.time = e.time + config.one_way_link_latency
          /\ Leaves(e, (IF accepted THEN {p} ELSE {}) \cup (IF waiting THEN {q} ELSE {}))

\* handle_memory_service_complete on a busy channel throws nothing: the response
\* goes back, and a start is announced if others wait.
LEMMA ServiceCompleteHasEffect ==
  ASSUME SimulatorInv, NEW e \in sched.events, handle_memory_service_complete(e),
         MemoryFrame, channels[ChannelOf(e.request_id)].service_in_progress
  PROVE  ServiceCompleteEffect(e)
<1> DEFINE id == e.request_id
           c == ChannelOf(id)
           queue == QueueOf(c)
           waiting == queue # <<>>
           source == SourceOf(id)
           ch == [queued_requests |-> queue, service_in_progress |-> FALSE,
                  service_start_scheduled |-> channels[c].service_start_scheduled \/ waiting]
           delay == config.one_way_link_latency
           returned == schedule(Popped(e),
                         MakeEvent(Plus(e.time, delay), "ReturnResponse", source, id))
           start == MakeEvent(e.time, "MemoryServiceStart", MemoryNodeId, Head(queue))
           s == IF waiting THEN schedule(returned, start) ELSE returned
<1>1. /\ Dispatch(e, "MemoryServiceComplete", {MemoryNodeId})
      /\ channels' = [channels EXCEPT ![c] = ch]
      /\ UNCHANGED <<compute_nodes, request_table>>
      /\ Return(s)
  BY DEF handle_memory_service_complete, ToMemory, ChannelOf, QueueOf, SourceOf
<1>2. /\ e.time \in SimTime /\ id \in Issued /\ id \in Nat
      /\ request_table[id] \in Request
      /\ QueueOK(Popped(e), Issued) /\ Popped(e).current_time = e.time
  BY <1>1, DispatchFacts
<1>3. UNCHANGED <<status, config, next_request_id, responses>> /\ ChannelIds' = ChannelIds
  BY <1>1 DEF Return, MemoryFrame, ChannelIds
<1>4. /\ Issued' = Issued /\ Unfinished' = Unfinished
      /\ KeepsRequests /\ KeepsStages
  BY <1>1, <1>3, TableKept DEF KeepsStages
<1>5. c \in ChannelIds /\ AcceptedConfig(config)
  BY <1>2, ChannelForType DEF SimulatorInv, TypeOK, ChannelOf
<1>6. channels \in [ChannelIds -> ChannelState] /\ queue \in Seq(Issued)
  BY <1>5 DEF SimulatorInv, TypeOK, EventQueueIsSound, QueueOf
<1>7. ChannelBecomes(c, ch)
  <2> HIDE DEF ch, c
  <2> QED BY <1>1, <1>3, <1>5, <1>6 DEF ChannelBecomes
<1>8. waiting => Head(queue) \in Issued /\ Head(queue) \in Nat
  <2> HIDE DEF queue
  <2>1. waiting => Head(queue) \in Issued
    BY <1>6
  <2> QED BY <2>1 DEF Issued, SimulatorInv, TypeOK
<1>9. delay \in Nat /\ Plus(e.time, delay) \in SimTime
  <2>1. delay \in Nat /\ e.time \in Nat
    BY <1>2, <1>5, ConfigType DEF SimTime
  <2> QED BY <2>1, PlusType
<1>10. /\ "MemoryServiceStart" \in EventType /\ MemoryNodeId \in Targets
       /\ "ReturnResponse" \in EventType /\ source \in Targets
  BY <1>2 DEF EventType, ComputeEventTypes, MemoryEventTypes, Targets, SourceOf, Request
<1>11. TimesFit => Plus(e.time, delay) = e.time + delay /\ Plus(e.time, delay) >= e.time
  <2>1. delay \in Delays
    BY DEF Delays
  <2> HIDE DEF delay
  <2> QED BY <1>2, <1>9, <2>1, DelayFits DEF TimesFit
<1> HIDE DEF delay, source, queue, waiting
<1>12. PICK p \in Event, accepted \in BOOLEAN :
         /\ p.type = "ReturnResponse" /\ p.request_id = id /\ p.target_id = source
         /\ p.time = Plus(e.time, delay)
         /\ Plus(e.time, delay) >= e.time => accepted
         /\ returned.events = Popped(e).events \cup (IF accepted THEN {p} ELSE {})
         /\ QueueOK(returned, Issued) /\ returned.current_time = e.time
  BY <1>2, <1>9, <1>10, AddsEvent
<1> HIDE DEF returned
<1>13. ASSUME waiting
       PROVE  \E q \in Event :
                /\ q.type = "MemoryServiceStart" /\ q.request_id = Head(queue)
                /\ s.events = returned.events \cup {q}
                /\ QueueOK(s, Issued) /\ s.current_time = e.time
  <2> DEFINE t == schedule(returned, start)
  <2>1. PICK q \in Event, kept \in BOOLEAN :
          /\ q.type = "MemoryServiceStart" /\ q.request_id = Head(queue)
          /\ e.time >= returned.current_time => kept
          /\ t.events = returned.events \cup (IF kept THEN {q} ELSE {})
          /\ QueueOK(t, Issued) /\ t.current_time = e.time
    <3>1. Head(queue) \in Issued /\ Head(queue) \in Nat
      BY <1>8, <1>13
    <3>2. QueueOK(returned, Issued) /\ returned.current_time = e.time /\ e.time \in SimTime
      BY <1>2, <1>12
    <3>3. "MemoryServiceStart" \in EventType /\ MemoryNodeId \in Targets
      BY <1>10
    <3> HIDE DEF t
    <3> QED BY <3>1, <3>2, <3>3, AddsEvent DEF t
  <2>2. kept
    BY <1>2, <1>12, <2>1 DEF SimTime
  <2>3. s = t
    BY <1>13
  <2> HIDE DEF s, t
  <2> QED BY <2>1, <2>2, <2>3
<1>14. \E q \in Event :
         /\ q.type = "MemoryServiceStart"
         /\ waiting => q.request_id = Head(queue)
         /\ s.events = returned.events \cup (IF waiting THEN {q} ELSE {})
         /\ QueueOK(s, Issued) /\ s.current_time = e.time
  <2>1. CASE waiting
    BY <1>13, <2>1
  <2>2. CASE ~waiting
    <3>1. s = returned
      BY <2>2
    <3> DEFINE q == [p EXCEPT !.type = "MemoryServiceStart"]
    <3>2. q \in Event /\ q.type = "MemoryServiceStart"
      BY <1>10, <1>12 DEF Event
    <3> HIDE DEF q, s
    <3> QED BY <1>12, <2>2, <3>1, <3>2
  <2> QED BY <2>1, <2>2
<1>15. PICK q \in Event :
         /\ q.type = "MemoryServiceStart"
         /\ waiting => q.request_id = Head(queue)
         /\ s.events = returned.events \cup (IF waiting THEN {q} ELSE {})
         /\ QueueOK(s, Issued) /\ s.current_time = e.time
  BY <1>14
<1> HIDE DEF s
<1>16. Leaves(e, (IF accepted THEN {p} ELSE {}) \cup (IF waiting THEN {q} ELSE {}))
  BY <1>1, <1>4, <1>12, <1>15, PoppedEvents DEF Leaves
<1>17. TimesFit => accepted /\ p.time = e.time + config.one_way_link_latency
  BY <1>11, <1>12 DEF delay
<1> QED BY <1>1, <1>2, <1>3, <1>4, <1>7, <1>12, <1>15, <1>16, <1>17
        DEF ServiceCompleteEffect, waiting, queue, source

\* What both completion handlers share, when it does not throw: the request is
\* completed and answered, and its source has one less outstanding.
CompleteEffect(e) ==
  LET id == e.request_id
      n == e.target_id
  IN /\ id \in Issued /\ Issued' = Issued /\ KeepsRequests
     /\ Reaches(id, "Completed")
     /\ UNCHANGED <<status, config, channels>>
     /\ \E row : row.request_id = id /\ responses' = Append(responses, row)
     /\ n \in Nodes
     /\ compute_nodes' = [compute_nodes EXCEPT ![n].outstanding_requests = @ - 1]
     /\ \E p \in Event : /\ p.type = "RequestComplete" /\ p.target_id = n
                         /\ Leaves(e, {p})

\* Both completions at a compute node, of a hit and of a response: the request
\* is answered, and the node counts one less outstanding.
LEMMA CompleteHasEffect ==
  ASSUME SimulatorInv, NEW e \in sched.events,
         NEW type, type # "GenerateRequest", Dispatch(e, type, Nodes),
         NEW tier, NEW bytes, Complete(e, tier, bytes),
         UNCHANGED <<next_request_id, channels>>,
         compute_nodes[e.target_id].outstanding_requests # 0
  PROVE  CompleteEffect(e)
<1> DEFINE id == e.request_id
           n == e.target_id
           row == [request_id |-> id, served_from_tier |-> tier,
                   completion_time |-> e.time,
                   total_latency |-> e.time - request_table[id].issue_time,
                   bytes_transferred |-> bytes]
           s == schedule(Popped(e), MakeEvent(e.time, "RequestComplete", n, id))
<1>1. /\ request_table' = [request_table EXCEPT ![id].current_stage = "Completed"]
      /\ responses' = Append(responses, row)
      /\ compute_nodes' = [compute_nodes EXCEPT ![n].outstanding_requests = @ - 1]
      /\ Return(s)
  BY DEF Complete, MarkCompleted
<1>2. /\ e.time \in SimTime /\ n \in Nodes /\ id \in Issued /\ id \in Nat
      /\ QueueOK(Popped(e), Issued) /\ Popped(e).current_time = e.time
  BY DispatchFacts
<1>3. UNCHANGED <<status, config>>
  BY <1>1 DEF Return
<1>4. Issued' = Issued /\ KeepsRequests /\ Reaches(id, "Completed")
  BY <1>1, <1>2, <1>3, StageRewritten DEF Reaches
<1>5. "RequestComplete" \in EventType /\ n \in Targets
  BY <1>2 DEF EventType, ComputeEventTypes, Targets
<1>6. PICK p \in Event, accepted \in BOOLEAN :
        /\ p.type = "RequestComplete" /\ p.target_id = n
        /\ e.time >= Popped(e).current_time => accepted
        /\ s.events = Popped(e).events \cup (IF accepted THEN {p} ELSE {})
        /\ QueueOK(s, Issued) /\ s.current_time = e.time
  BY <1>2, <1>5, AddsEvent
<1> HIDE DEF s
<1>7. accepted
  BY <1>2, <1>6 DEF SimTime
<1>8. Leaves(e, {p})
  BY <1>1, <1>4, <1>6, <1>7, PoppedEvents DEF Leaves
<1> QED BY <1>1, <1>2, <1>3, <1>4, <1>6, <1>8 DEF CompleteEffect

\* handle_request_complete: a completion-driven node goes on with its next
\* request of the epoch; nothing else changes.
RequestCompleteEffect(e) ==
  LET n == e.target_id
      more == ~bursty /\ NextIsOfEpoch(compute_nodes, n, compute_nodes[n].current_epoch)
  IN /\ n \in Nodes
     /\ UNCHANGED <<status, config, next_request_id, request_table, compute_nodes,
                    channels, responses>>
     /\ \E g \in Event :
          /\ g.type = "GenerateRequest" /\ g.target_id = n
          /\ g.request_id = kInvalidRequestId
          /\ Leaves(e, IF more THEN {g} ELSE {})

\* handle_request_complete: a completion-driven node generates its next request
\* if the epoch has one.
LEMMA RequestCompleteHasEffect ==
  ASSUME SimulatorInv, NEW e \in sched.events, handle_request_complete(e)
  PROVE  RequestCompleteEffect(e)
<1> DEFINE n == e.target_id
           more == ~bursty /\ NextIsOfEpoch(compute_nodes, n, compute_nodes[n].current_epoch)
           next == MakeEvent(e.time, "GenerateRequest", n, kInvalidRequestId)
           s == IF more THEN schedule(Popped(e), next) ELSE Popped(e)
<1>1. /\ Dispatch(e, "RequestComplete", Nodes)
      /\ UNCHANGED <<next_request_id, request_table, compute_nodes, channels, responses>>
      /\ Return(s)
  BY DEF handle_request_complete
<1>2. /\ e.time \in SimTime /\ n \in Nodes
      /\ QueueOK(Popped(e), Issued) /\ Popped(e).current_time = e.time
  BY <1>1, DispatchFacts
<1>3. UNCHANGED <<status, config>> /\ Issued' = Issued
  BY <1>1 DEF Return, Issued
<1>4. "GenerateRequest" \in EventType /\ n \in Targets /\ kInvalidRequestId \in Nat
  BY <1>2 DEF EventType, ComputeEventTypes, Targets, kInvalidRequestId
<1>5. PICK g \in Event, accepted \in BOOLEAN :
        LET t == schedule(Popped(e), next)
        IN /\ g.type = "GenerateRequest" /\ g.target_id = n
           /\ g.request_id = kInvalidRequestId
           /\ e.time >= Popped(e).current_time => accepted
           /\ t.events = Popped(e).events \cup (IF accepted THEN {g} ELSE {})
           /\ QueueOK(t, Issued) /\ t.current_time = e.time
  BY <1>2, <1>4, AddsEvent
<1>6. accepted
  BY <1>2, <1>5 DEF SimTime
<1> HIDE DEF more, next
<1>7. /\ s.events = (sched.events \ {e}) \cup (IF more THEN {g} ELSE {})
      /\ QueueOK(s, Issued) /\ s.current_time = e.time
  BY <1>2, <1>5, <1>6, PoppedEvents
<1> HIDE DEF s
<1>8. Leaves(e, IF more THEN {g} ELSE {})
  BY <1>1, <1>3, <1>7 DEF Leaves
<1> QED BY <1>1, <1>2, <1>3, <1>5, <1>8 DEF RequestCompleteEffect, more

\* handle_generate_request, when the workload has a request: it gets the next
\* id and waits for its lookup, and a bursty node announces its next arrival of
\* the epoch.
IssueEffect(e) ==
  LET n == e.target_id
      spec == peek_next(compute_nodes, n)
      more == bursty /\ NextIsOfEpoch(compute_nodes', n, compute_nodes'[n].current_epoch)
  IN /\ n \in Nodes
     /\ UNCHANGED <<status, config, channels, responses>>
     /\ compute_nodes' = [compute_nodes EXCEPT ![n] = Advance(@, spec, e.time)]
     /\ compute_nodes' \in NodeStates
     /\ KeepsRequests /\ KeepsStages
     /\ \E id \in Nat \ {0}, p, g \in Event, accepted \in BOOLEAN :
          /\ id = next_request_id /\ next_request_id' = id + 1
          /\ id \notin Issued /\ Issued' = Issued \cup {id}
          /\ Stage(id)' = "Generated" /\ SourceOf(id)' = n /\ EpochOf(id)' = spec.epoch_id
          /\ p.type = "LocalCacheLookup" /\ p.request_id = id /\ p.target_id = n
          /\ p.time = e.time /\ request_table'[id].issue_time = e.time
          /\ g.type = "GenerateRequest" /\ g.target_id = n
          /\ g.request_id = kInvalidRequestId
          /\ TimesFit /\ ArrivalsInOrder /\ more => accepted
          /\ Leaves(e, {p} \cup (IF more /\ accepted THEN {g} ELSE {}))

\* The next arrival of an epoch is not in the past when arrivals are configured
\* in order and times fit: the start of the epoch is recovered from the arrival
\* at hand.
LEMMA NextArrivalFits ==
  ASSUME AcceptedConfig(config), NEW n \in Nodes, NEW time \in SimTime,
         compute_nodes \in NodeStates, has_next(compute_nodes, n), bursty,
         NEW nodes \in NodeStates,
         nodes[n] = Advance(compute_nodes[n], peek_next(compute_nodes, n), time),
         NextIsOfEpoch(nodes, n, nodes[n].current_epoch),
         ArrivalsInOrder,
         \A d \in Delays : time + d < SimTimeRange
  PROVE  Plus(nodes[n].current_epoch_start_time,
              peek_next(nodes, n).scheduled_issue_offset) >= time
<1> DEFINE i == compute_nodes[n].next_index + 1
           stream == config.compute_nodes[n]
           spec == peek_next(compute_nodes, n)
           next == peek_next(nodes, n)
           start == nodes[n].current_epoch_start_time
<1>1. /\ i \in Nat \ {0} /\ i + 1 <= Len(stream)
      /\ spec = stream[i] /\ next = stream[i + 1]
      /\ spec.epoch_id = next.epoch_id
      /\ stream \in Seq(RequestSpec)
  <2>1. compute_nodes[n].next_index \in Nat
    BY DEF NodeStates, ComputeNodeState
  <2>2. nodes[n].next_index = compute_nodes[n].next_index + 1
        /\ nodes[n].current_epoch = spec.epoch_id
    BY DEF Advance
  <2>3. stream \in Seq(RequestSpec)
    BY DEF AcceptedConfig, SimulationConfig
  <2>4. Len(stream) \in Nat
    BY <2>3
  <2>5. nodes[n].next_index < Len(stream) /\ next.epoch_id = nodes[n].current_epoch
    BY DEF NextIsOfEpoch, has_next
  <2>6. i \in Nat \ {0} /\ i + 1 <= Len(stream)
    BY <2>1, <2>2, <2>4, <2>5
  <2>7. spec = stream[i] /\ next = stream[i + 1]
    BY <2>2 DEF peek_next
  <2> QED BY <2>2, <2>3, <2>5, <2>6, <2>7
<1>2. start = IF time >= spec.scheduled_issue_offset
              THEN time - spec.scheduled_issue_offset ELSE 0
  BY DEF Advance, EpochStartTime
<1>3. /\ i + 1 \in 2 .. Len(stream) /\ (i + 1) - 1 = i /\ i \in 1 .. Len(stream)
      /\ Len(stream) \in Nat
  BY <1>1
<1>4. spec \in RequestSpec /\ next \in RequestSpec
  BY <1>1, <1>3
<1>5. spec.scheduled_issue_offset <= next.scheduled_issue_offset
  BY <1>1, <1>3 DEF ArrivalsInOrder
<1>6. next.scheduled_issue_offset \in Delays
  <2>1. next.scheduled_issue_offset \in
          {stream[j].scheduled_issue_offset : j \in DOMAIN stream}
    <3>1. next = stream[i + 1] /\ i + 1 \in DOMAIN stream
      BY <1>1, <1>3
    <3> HIDE DEF next
    <3> QED BY <3>1
  <2> QED BY <2>1 DEF Delays
<1>7. /\ spec.scheduled_issue_offset \in Nat /\ next.scheduled_issue_offset \in Nat
      /\ time \in Nat /\ time + next.scheduled_issue_offset < SimTimeRange
  BY <1>4, <1>6 DEF RequestSpec, SimTime
<1> DEFINE before == spec.scheduled_issue_offset
           after == next.scheduled_issue_offset
<1> HIDE DEF spec, next, start, before, after
<1>8. /\ before \in Nat /\ after \in Nat /\ before <= after /\ time + after < SimTimeRange
      /\ start = IF time >= before THEN time - before ELSE 0
  BY <1>2, <1>5, <1>7 DEF before, after
<1>9. start \in Nat /\ start + after >= time /\ start + after < SimTimeRange
  BY <1>7, <1>8, RangeAssumption
<1>10. Plus(start, after) = start + after
  BY <1>8, <1>9, RangeAssumption DEF Plus
<1> QED BY <1>9, <1>10 DEF start, after, next

\* handle_generate_request issues the next request: it gets a new id, is counted,
\* and goes to its cache; a bursty node schedules the one that follows.
LEMMA IssueHasEffect ==
  ASSUME SimulatorInv, NEW e \in sched.events,
         Dispatch(e, "GenerateRequest", Nodes), has_next(compute_nodes, e.target_id),
         IssueRequest(e, e.target_id, peek_next(compute_nodes, e.target_id)),
         UNCHANGED <<channels, responses>>
  PROVE  IssueEffect(e)
<1>0. PICK id : id = next_request_id
  OBVIOUS
<1> DEFINE n == e.target_id
           spec == peek_next(compute_nodes, n)
           request == [request_id |-> id, source_node_id |-> n,
                       object_id |-> spec.object_id, issue_time |-> e.time,
                       size_bytes |-> spec.size_bytes, epoch_id |-> spec.epoch_id,
                       current_stage |-> "Generated", memory_enqueue_time |-> 0]
           looked_up == schedule(Popped(e), MakeEvent(e.time, "LocalCacheLookup", n, id))
           nodes == compute_nodes'
           more == bursty /\ NextIsOfEpoch(nodes, n, nodes[n].current_epoch)
           time == Plus(nodes[n].current_epoch_start_time,
                        peek_next(nodes, n).scheduled_issue_offset)
           s == ScheduleNextBursty(looked_up, nodes, n)
<1>1. /\ id = next_request_id /\ next_request_id' = id + 1
      /\ request_table' = Assign(request_table, id, request)
      /\ nodes = [compute_nodes EXCEPT ![n] = Advance(@, spec, e.time)]
      /\ Return(s)
  BY <1>0 DEF IssueRequest
<1>2. /\ e.time \in SimTime /\ n \in Nodes
      /\ QueueOK(Popped(e), Issued) /\ Popped(e).current_time = e.time
  BY DispatchFacts
<1>3. /\ AcceptedConfig(config) /\ id \in Nat \ {0}
      /\ compute_nodes \in NodeStates /\ compute_nodes[n] \in ComputeNodeState
      /\ request_table \in [Issued -> Request]
      /\ UNCHANGED <<status, config>>
  BY <1>0, <1>1, <1>2 DEF SimulatorInv, TypeOK, NodeStates, Return
<1>4. spec \in RequestSpec
  BY <1>2, <1>3, PeekType
<1>5. Issued' = Issued \cup {id} /\ id \notin Issued
  BY <1>1, <1>3 DEF Issued
<1>6. nodes \in NodeStates
  <2>1. EpochStartTime(compute_nodes[n], spec, e.time) \in SimTime
    BY <1>2, <1>3, <1>4, RangeAssumption
    DEF EpochStartTime, SimTime, RequestSpec, ComputeNodeState
  <2>2. Advance(compute_nodes[n], spec, e.time) \in ComputeNodeState
    <3> HIDE DEF n, spec
    <3> QED BY <1>3, <1>4, <2>1 DEF Advance, ComputeNodeState, RequestSpec
  <2> HIDE DEF n, spec
  <2> QED BY <1>1, <1>2, <1>3, <2>2 DEF NodeStates
<1>7. /\ KeepsRequests /\ KeepsStages
      /\ Stage(id)' = "Generated" /\ SourceOf(id)' = n /\ EpochOf(id)' = spec.epoch_id
      /\ request_table'[id].issue_time = e.time
  <2>1. \A i \in Issued' : request_table'[i] = IF i = id THEN request ELSE request_table[i]
    BY <1>1, <1>3, <1>5 DEF Assign
  <2>2. request_table'[id] = request /\ \A i \in Issued : request_table'[i] = request_table[i]
    BY <1>5, <2>1
  <2>3. /\ request.current_stage = "Generated" /\ request.source_node_id = n
        /\ request.epoch_id = spec.epoch_id /\ request.issue_time = e.time
    OBVIOUS
  <2> HIDE DEF n, spec, request
  <2>4. KeepsRequests /\ KeepsStages
    BY <1>3, <2>2 DEF KeepsRequests, KeepsStages, ChannelOf, channel_for,
       SourceOf, EpochOf, Stage
  <2> QED BY <2>2, <2>3, <2>4 DEF SourceOf, EpochOf, Stage
<1>8. /\ "LocalCacheLookup" \in EventType /\ n \in Targets /\ id \in Nat /\ id \in Issued'
      /\ "GenerateRequest" \in EventType /\ kInvalidRequestId \in Nat
  BY <1>2, <1>3, <1>5 DEF EventType, ComputeEventTypes, Targets, kInvalidRequestId
<1>9. QueueOK(Popped(e), Issued')
  BY <1>2, <1>5, QueueMonotone
<1>10. PICK p \in Event, kept \in BOOLEAN :
         /\ p.type = "LocalCacheLookup" /\ p.target_id = n /\ p.request_id = id
         /\ p.time = e.time
         /\ e.time >= Popped(e).current_time => kept
         /\ looked_up.events = Popped(e).events \cup (IF kept THEN {p} ELSE {})
         /\ QueueOK(looked_up, Issued') /\ looked_up.current_time = e.time
  BY <1>2, <1>8, <1>9, AddsEvent
<1>11. kept
  BY <1>2, <1>10 DEF SimTime
<1>12. s = IF more
           THEN schedule(looked_up,
                         MakeEvent(time, "GenerateRequest", n, kInvalidRequestId))
           ELSE looked_up
  BY DEF ScheduleNextBursty
<1>13. more => time \in SimTime
  <2> SUFFICES ASSUME more PROVE time \in SimTime
    OBVIOUS
  <2>1. has_next(nodes, n)
    BY DEF NextIsOfEpoch
  <2> HIDE DEF nodes, n
  <2>2. peek_next(nodes, n) \in RequestSpec
    BY <1>2, <1>3, <1>6, <2>1, PeekType
  <2>3. /\ peek_next(nodes, n).scheduled_issue_offset \in Nat
        /\ nodes[n].current_epoch_start_time \in Nat
    BY <1>2, <1>6, <2>2 DEF RequestSpec, SimTime, NodeStates, ComputeNodeState
  <2> QED BY <2>3, PlusType
<1>14. TimesFit /\ ArrivalsInOrder /\ more => time >= e.time
  <2>1. TimesFit => \A d \in Delays : e.time + d < SimTimeRange
    BY DEF TimesFit
  <2>2. nodes[n] = Advance(compute_nodes[n], spec, e.time)
    BY <1>1, <1>2, <1>3 DEF NodeStates
  <2> HIDE DEF nodes
  <2> QED BY <1>2, <1>3, <1>6, <2>1, <2>2, NextArrivalFits
<1> HIDE DEF looked_up, s, time, more, n, nodes
<1>15. PICK g \in Event, accepted \in BOOLEAN :
         /\ g.type = "GenerateRequest" /\ g.target_id = n
         /\ g.request_id = kInvalidRequestId
         /\ more /\ time >= e.time => accepted
         /\ s.events = looked_up.events \cup (IF more /\ accepted THEN {g} ELSE {})
         /\ QueueOK(s, Issued') /\ s.current_time = e.time
  <2>1. CASE more
    BY <1>8, <1>10, <1>12, <1>13, <2>1, AddsEvent
  <2>2. CASE ~more
    <3> DEFINE g == [p EXCEPT !.type = "GenerateRequest", !.request_id = kInvalidRequestId]
    <3>1. /\ g \in Event /\ g.type = "GenerateRequest" /\ g.target_id = n
          /\ g.request_id = kInvalidRequestId
      BY <1>8, <1>10 DEF Event
    <3> HIDE DEF g
    <3> QED BY <1>10, <1>12, <2>2, <3>1
  <2> QED BY <2>1, <2>2
<1>16. Leaves(e, {p} \cup (IF more /\ accepted THEN {g} ELSE {}))
  <2>1. s.events = (sched.events \ {e}) \cup ({p} \cup (IF more /\ accepted THEN {g} ELSE {}))
    BY <1>10, <1>11, <1>15, PoppedEvents
  <2> QED BY <1>1, <1>15, <2>1 DEF Leaves, nodes
<1>17. TimesFit /\ ArrivalsInOrder /\ more => accepted
  BY <1>14, <1>15
<1> QED BY <1>1, <1>2, <1>3, <1>5, <1>6, <1>7, <1>10, <1>15, <1>16, <1>17
        DEF IssueEffect, more, n, nodes

-----------------------------------------------------------------------------
(* How the parts of the invariant survive a step *)

\* The stage of a request tells which event of its path it can wait for.
LEMMA StageOfEvent ==
  ASSUME NEW stage \in RequestStage, NEW type \in AwaitedEvents(stage)
  PROVE  /\ type = "LocalCacheLookup" => stage = "Generated"
         /\ type = "LocalCacheHitComplete" => stage = "LocalLookup"
         /\ type = "ForwardToMemory" => stage = "ForwardedToMemory"
         /\ type \in {"MemoryServiceComplete", "ReturnResponse"}
              => stage = "WaitingForResponse"
         /\ stage # "Completed"
BY DEF AwaitedEvents, RequestStage

\* Pending events and queues speak of issued requests, which have a stage, a
\* source and a channel.
LEMMA Referents ==
  ASSUME SimulatorInv
  PROVE  /\ \A f \in sched.events : f.type # "GenerateRequest" => f.request_id \in Issued
         /\ sched.events \subseteq Event
         /\ \A f \in PathEvents : f.request_id \in Issued
         /\ \A c \in ChannelIds : QueueOf(c) \in Seq(Issued)
         /\ \A id \in Issued : /\ Stage(id) \in RequestStage /\ SourceOf(id) \in Nodes
                               /\ ChannelOf(id) \in ChannelIds /\ id \in Nat
         /\ channels \in [ChannelIds -> ChannelState]
         /\ compute_nodes \in NodeStates
<1>1. \A f \in sched.events : f.type # "GenerateRequest" => f.request_id \in Issued
  BY DEF SimulatorInv, EventQueueIsSound, QueueOK
<1>2. \A id \in Issued : request_table[id] \in Request
  BY DEF SimulatorInv, TypeOK
<1>3. \A id \in Issued : ChannelOf(id) \in ChannelIds
  BY <1>2, ChannelForType DEF ChannelOf, SimulatorInv, TypeOK
<1>4. \A id \in Issued : Stage(id) \in RequestStage /\ SourceOf(id) \in Nodes
  BY <1>2 DEF Stage, SourceOf, Request
<1>5. \A f \in PathEvents : f.request_id \in Issued
  BY <1>1 DEF PathEvents, PathTypes
<1>6. /\ \A c \in ChannelIds : QueueOf(c) \in Seq(Issued)
      /\ Issued \subseteq Nat
      /\ sched.events \subseteq Event
  BY DEF QueueOf, SimulatorInv, EventQueueIsSound, TypeOK, Issued, SchedulerState
<1>7. channels \in [ChannelIds -> ChannelState] /\ compute_nodes \in NodeStates
  BY DEF SimulatorInv, TypeOK, NodeStates
<1> QED BY <1>1, <1>3, <1>4, <1>5, <1>6, <1>7

\* What new brings on the path is for id, in this stage and of this source.
OnThePathOf(new, id, stage, source) ==
  \A p \in new : p.type \in PathTypes =>
    /\ p.request_id = id
    /\ p.type \in AwaitedEvents(stage)
    /\ p.type \in ComputeEventTypes => p.target_id = source
    /\ \A q \in new : q.type \in PathTypes => q = p

\* After a step that lets e leave and brings at most one event on the path, for
\* a request that waits for no other, no request waits for two events.
LEMMA HeldStep ==
  ASSUME RequestPathInv, NEW e \in sched.events, NEW new, Exchanges(e, new),
         KeepsRequests, NEW id,
         \A i \in Issued : i # id => Stage(i)' = Stage(i),
         \A f \in PathEvents : f # e => f.request_id # id,
         NEW stage, Stage(id)' = stage, NEW source, SourceOf(id)' = source,
         OnThePathOf(new, id, stage, source)
  PROVE  HeldAtMostOnce'
<1>1. \A f : f \in PathEvents' <=>
               (f \in PathEvents /\ f # e) \/ (f \in new /\ f.type \in PathTypes)
  BY DEF Exchanges, PathEvents, PathTypes
<1>2. /\ \A f, g \in PathEvents : f.request_id = g.request_id => f = g
      /\ \A f \in PathEvents :
           /\ f.type \in AwaitedEvents(Stage(f.request_id))
           /\ f.type \in ComputeEventTypes => f.target_id = SourceOf(f.request_id)
           /\ f.request_id \in Issued
  BY Referents DEF RequestPathInv, HeldAtMostOnce
<1>3. ASSUME NEW f \in PathEvents', NEW g \in PathEvents', f.request_id = g.request_id
      PROVE  f = g
  BY <1>1, <1>2, <1>3 DEF OnThePathOf
<1>4. ASSUME NEW f \in PathEvents'
      PROVE  /\ f.type \in AwaitedEvents(Stage(f.request_id)')
             /\ f.type \in ComputeEventTypes => f.target_id = SourceOf(f.request_id)'
  <2>1. CASE f \in PathEvents /\ f # e
    BY <1>2, <2>1 DEF KeepsRequests
  <2>2. CASE f \in new /\ f.type \in PathTypes
    BY <2>2 DEF OnThePathOf
  <2> QED BY <1>1, <2>1, <2>2
<1> QED BY <1>3, <1>4 DEF HeldAtMostOnce, AwaitedEvents

\* A step that lets requests leave the queues from the head, if at all, and that
\* brings no event for a request still queued, keeps the queues sound.
LEMMA QueuedStep ==
  ASSUME RequestPathInv, NEW e \in sched.events, NEW new, Exchanges(e, new),
         KeepsRequests, ChannelIds' = ChannelIds, NEW id,
         \A i \in Issued : i # id => Stage(i)' = Stage(i),
         \A p \in new : p.type \in PathTypes => p.request_id = id,
         \A c \in ChannelIds : \E k \in {0, 1} :
           /\ Len(QueueOf(c)') = Len(QueueOf(c)) - k
           /\ \A i \in 1 .. Len(QueueOf(c)) - k :
                QueueOf(c)'[i] = QueueOf(c)[i + k] /\ QueueOf(c)[i + k] # id
  PROVE  QueuedAtMostOnce'
<1>1. \A f : f \in PathEvents' =>
               (f \in PathEvents) \/ (f \in new /\ f.type \in PathTypes)
  BY DEF Exchanges, PathEvents, PathTypes
<1> SUFFICES ASSUME NEW c \in ChannelIds, NEW i \in 1 .. Len(QueueOf(c)'),
                    NEW x, x = QueueOf(c)'[i]
             PROVE  /\ Stage(x)' = "ForwardedToMemory"
                    /\ ChannelOf(x)' = c
                    /\ \A f \in PathEvents' : f.request_id # x
                    /\ \A j \in 1 .. Len(QueueOf(c)') : x = QueueOf(c)'[j] => i = j
  BY DEF QueuedAtMostOnce, QueueOf, Stage, ChannelOf, channel_for
<1>2. QueueOf(c) \in Seq(Issued) /\ Len(QueueOf(c)) \in Nat
  BY Referents DEF RequestPathInv
<1>3. PICK k \in {0, 1} :
        /\ Len(QueueOf(c)') = Len(QueueOf(c)) - k
        /\ \A j \in 1 .. Len(QueueOf(c)) - k :
             QueueOf(c)'[j] = QueueOf(c)[j + k] /\ QueueOf(c)[j + k] # id
  OBVIOUS
<1>4. \A j \in 1 .. Len(QueueOf(c)') :
        /\ j + k \in 1 .. Len(QueueOf(c))
        /\ QueueOf(c)'[j] = QueueOf(c)[j + k]
        /\ QueueOf(c)[j + k] \in Issued /\ QueueOf(c)[j + k] # id
  BY <1>2, <1>3
<1>5. \A j \in 1 .. Len(QueueOf(c)) :
        /\ Stage(QueueOf(c)[j]) = "ForwardedToMemory"
        /\ ChannelOf(QueueOf(c)[j]) = c
        /\ \A f \in PathEvents : f.request_id # QueueOf(c)[j]
        /\ \A m \in 1 .. Len(QueueOf(c)) : QueueOf(c)[j] = QueueOf(c)[m] => j = m
  BY DEF RequestPathInv, QueuedAtMostOnce
<1>6. x = QueueOf(c)[i + k] /\ x \in Issued /\ x # id /\ i + k \in 1 .. Len(QueueOf(c))
  BY <1>4
<1>7. Stage(x)' = "ForwardedToMemory" /\ ChannelOf(x)' = c
  BY <1>5, <1>6 DEF KeepsRequests
<1>8. \A f \in PathEvents' : f.request_id # x
  BY <1>1, <1>5, <1>6
<1>9. \A j \in 1 .. Len(QueueOf(c)') : x = QueueOf(c)'[j] => i = j
  <2> SUFFICES ASSUME NEW j \in 1 .. Len(QueueOf(c)'), x = QueueOf(c)'[j]
               PROVE  i = j
    OBVIOUS
  <2>1. i + k = j + k
    BY <1>4, <1>5, <1>6
  <2> QED BY <2>1
<1> QED BY <1>6, <1>7, <1>8, <1>9

\* A handler that leaves the queues alone, and whose request is in none, keeps
\* the queues sound.
LEMMA QueuesKept ==
  ASSUME RequestPathInv, NEW e \in sched.events, NEW new, Exchanges(e, new),
         KeepsRequests, UNCHANGED <<config, channels>>, NEW id,
         \A i \in Issued : i # id => Stage(i)' = Stage(i),
         \A p \in new : p.type \in PathTypes => p.request_id = id,
         \A c \in ChannelIds : \A i \in 1 .. Len(QueueOf(c)) : QueueOf(c)[i] # id
  PROVE  QueuedAtMostOnce'
<1>1. ChannelIds' = ChannelIds /\ \A c \in ChannelIds : QueueOf(c)' = QueueOf(c)
  BY DEF ChannelIds, QueueOf
<1>2. ASSUME NEW c \in ChannelIds
      PROVE  \E k \in {0, 1} :
               /\ Len(QueueOf(c)') = Len(QueueOf(c)) - k
               /\ \A i \in 1 .. Len(QueueOf(c)) - k :
                    QueueOf(c)'[i] = QueueOf(c)[i + k] /\ QueueOf(c)[i + k] # id
  <2>1. QueueOf(c) \in Seq(Issued)
    BY Referents DEF RequestPathInv
  <2>2. Len(QueueOf(c)) \in Nat /\ QueueOf(c)' = QueueOf(c)
    BY <1>1, <2>1
  <2>3. /\ Len(QueueOf(c)') = Len(QueueOf(c)) - 0
        /\ \A i \in 1 .. Len(QueueOf(c)) - 0 :
             QueueOf(c)'[i] = QueueOf(c)[i + 0] /\ QueueOf(c)[i + 0] # id
    BY <2>2
  <2> QED BY <2>3
<1> QED BY <1>1, <1>2, QueuedStep

\* A handler that leaves the channels and their events alone keeps the flags
\* announcing them.
LEMMA FlagsKept ==
  ASSUME RequestPathInv, NEW e \in sched.events, NEW new, Exchanges(e, new),
         KeepsRequests, UNCHANGED <<config, channels>>,
         NEW Services, Services = {"MemoryServiceStart", "MemoryServiceComplete"},
         e.type \notin Services, \A p \in new : p.type \notin Services
  PROVE  StartsAreAnnounced' /\ ServicesAreAnnounced'
<1>1. \A type \in Services : PendingOf(type)' = PendingOf(type)
  BY DEF Exchanges, PendingOf
<1>2. ChannelIds' = ChannelIds
  BY DEF ChannelIds
<1>3. \A type \in Services : \A f \in PendingOf(type)
        : ChannelOf(f.request_id)' = ChannelOf(f.request_id)
  BY Referents DEF RequestPathInv, KeepsRequests, PendingOf
<1>4. StartsAreAnnounced'
  BY <1>1, <1>2, <1>3 DEF RequestPathInv, StartsAreAnnounced
<1>5. ServicesAreAnnounced'
  BY <1>1, <1>2, <1>3 DEF RequestPathInv, ServicesAreAnnounced, QueueOf
<1> QED BY <1>4, <1>5

\* A handler that answers and completes nothing keeps the answers.
LEMMA AnswersKept ==
  ASSUME RequestPathInv, Issued' = Issued, Unfinished' = Unfinished,
         responses' = responses
  PROVE  AnsweredWhenCompleted'
BY DEF RequestPathInv, AnsweredWhenCompleted, AnswersTo

\* And the counts, if it issues nothing either.
LEMMA CountsKept ==
  ASSUME RequestPathInv, KeepsRequests, Unfinished' = Unfinished,
         UNCHANGED compute_nodes
  PROVE  OutstandingCountsUnfinished'
<1>1. Unfinished \subseteq Issued
  BY DEF Unfinished
<1>2. ASSUME NEW n \in Nodes
      PROVE  {id \in Unfinished' : request_table'[id].source_node_id = n}
               = {id \in Unfinished : request_table[id].source_node_id = n}
  BY <1>1 DEF KeepsRequests, SourceOf
<1> QED BY <1>2 DEF RequestPathInv, OutstandingCountsUnfinished

\* The request of an event on the path is held by it alone.
LEMMA HeldByAlone ==
  ASSUME RequestPathInv, NEW e \in sched.events, e.type \in PathTypes
  PROVE  LET id == e.request_id
         IN /\ id \in Issued /\ e.type \in AwaitedEvents(Stage(id))
            /\ Stage(id) # "Completed" /\ id \in Unfinished
            /\ e.type \in ComputeEventTypes => e.target_id = SourceOf(id)
            /\ \A f \in PathEvents : f # e => f.request_id # id
            /\ \A c \in ChannelIds : \A i \in 1 .. Len(QueueOf(c)) : QueueOf(c)[i] # id
<1> DEFINE id == e.request_id
<1>1. e \in PathEvents
  BY DEF PathEvents
<1>2. /\ id \in Issued /\ e.type \in AwaitedEvents(Stage(id))
      /\ e.type \in ComputeEventTypes => e.target_id = SourceOf(id)
      /\ \A f \in PathEvents : f # e => f.request_id # id
  BY <1>1, Referents DEF RequestPathInv, HeldAtMostOnce
<1>3. \A c \in ChannelIds : \A i \in 1 .. Len(QueueOf(c)) : QueueOf(c)[i] # id
  BY <1>1 DEF RequestPathInv, QueuedAtMostOnce
<1>4. Stage(id) # "Completed"
  BY <1>2 DEF AwaitedEvents
<1> QED BY <1>2, <1>3, <1>4 DEF Unfinished, Stage

\* A step that completes no request leaves the same ones unfinished.
LEMMA UnfinishedKept ==
  ASSUME Issued' = Issued, NEW id \in Unfinished, NEW stage, stage # "Completed",
         Reaches(id, stage)
  PROVE  Unfinished' = Unfinished
BY DEF Unfinished, Reaches, Stage

\* What a handler leaves in the queue, and that its nodes are well typed.
LEMMA StepFacts ==
  ASSUME RequestPathInv, SimulatorInv', NEW e \in sched.events, NEW new, Leaves(e, new)
  PROVE  Exchanges(e, new) /\ compute_nodes' \in NodeStates
<1>1. compute_nodes' \in NodeStates
  BY DEF SimulatorInv, TypeOK, NodeStates
<1> QED BY <1>1, LeavesExchanges DEF RequestPathInv

\* A lookup moves the request from one pending event to the next.
LEMMA LookupStep ==
  ASSUME RequestPathInv, SimulatorInv', NEW e \in sched.events,
         e.type = "LocalCacheLookup", LookupEffect(e)
  PROVE  RequestPathInv'
<1> DEFINE id == e.request_id
<1>1. PICK stage \in RequestStage, p \in Event, accepted \in BOOLEAN :
        /\ p.request_id = id
        /\ \/ /\ stage = "LocalLookup"
              /\ p.type = "LocalCacheHitComplete" /\ p.target_id = e.target_id
           \/ stage = "ForwardedToMemory" /\ p.type = "ForwardToMemory"
        /\ Reaches(id, stage)
        /\ Leaves(e, IF accepted THEN {p} ELSE {})
  BY DEF LookupEffect
<1> DEFINE new == IF accepted THEN {p} ELSE {}
<1>2. /\ Issued' = Issued /\ KeepsRequests
      /\ UNCHANGED <<status, config, compute_nodes, channels, responses>>
  BY DEF LookupEffect
<1>3. Exchanges(e, new)
  BY <1>1, StepFacts
<1>4. e.type \in PathTypes /\ e.type \in ComputeEventTypes
  BY DEF PathTypes, ComputeEventTypes
<1>5. /\ id \in Issued /\ id \in Unfinished /\ e.target_id = SourceOf(id)
      /\ \A f \in PathEvents : f # e => f.request_id # id
      /\ \A c \in ChannelIds : \A i \in 1 .. Len(QueueOf(c)) : QueueOf(c)[i] # id
  BY <1>4, HeldByAlone
<1>6. \A i \in Issued : i # id => Stage(i)' = Stage(i)
  BY <1>1 DEF Reaches
<1>7. Stage(id)' = stage /\ SourceOf(id)' = SourceOf(id)
  BY <1>1, <1>2, <1>5 DEF Reaches, KeepsRequests
<1>15. \A q \in new : /\ q = p
                      /\ q.request_id = id
                      /\ q.type \in AwaitedEvents(stage)
                      /\ q.type \in ComputeEventTypes => q.target_id = SourceOf(id)
  BY <1>1, <1>5 DEF AwaitedEvents, ComputeEventTypes
<1>16. OnThePathOf(new, id, stage, SourceOf(id))
  BY <1>15 DEF OnThePathOf
<1>8. \A q \in new : q.type \notin {"MemoryServiceStart", "MemoryServiceComplete"}
  BY <1>1
<1>9. e.type \notin {"MemoryServiceStart", "MemoryServiceComplete"}
  OBVIOUS
<1>10. Unfinished' = Unfinished
  BY <1>1, <1>2, <1>5, UnfinishedKept
<1> HIDE DEF new, id
<1>11. HeldAtMostOnce'
  BY <1>2, <1>3, <1>5, <1>6, <1>7, <1>16, HeldStep
<1>12. QueuedAtMostOnce'
  BY <1>2, <1>3, <1>5, <1>6, <1>15, QueuesKept
<1>13. StartsAreAnnounced' /\ ServicesAreAnnounced'
  BY <1>2, <1>3, <1>8, <1>9, FlagsKept
<1>14. AnsweredWhenCompleted' /\ OutstandingCountsUnfinished' /\ NoErrorThrown'
  BY <1>2, <1>10, AnswersKept, CountsKept DEF RequestPathInv, NoErrorThrown
<1> QED BY <1>11, <1>12, <1>13, <1>14 DEF RequestPathInv

\* The unfinished requests of a node are finitely many.
LEMMA OpenFinite ==
  ASSUME SimulatorInv, NEW n
  PROVE  /\ OpenAt(n) \subseteq Issued /\ IsFiniteSet(OpenAt(n))
         /\ Cardinality(OpenAt(n)) \in Nat
<1>1. IsFiniteSet(Issued)
  BY FS_Interval DEF Issued, SimulatorInv, TypeOK
<1>2. OpenAt(n) \subseteq Issued
  BY DEF OpenAt, Unfinished
<1> QED BY <1>1, <1>2, FS_Subset, FS_CardinalityType

\* The answer of a completed request is its first, and its source has one
\* request less.
LEMMA CompleteStep ==
  ASSUME RequestPathInv, SimulatorInv', NEW e \in sched.events,
         e.type \in {"LocalCacheHitComplete", "ReturnResponse"}, CompleteEffect(e)
  PROVE  RequestPathInv'
<1> DEFINE id == e.request_id
           n == e.target_id
<1>1. /\ Issued' = Issued /\ KeepsRequests /\ Reaches(id, "Completed")
      /\ UNCHANGED <<status, config, channels>> /\ n \in Nodes
      /\ compute_nodes' = [compute_nodes EXCEPT ![n].outstanding_requests = @ - 1]
  BY DEF CompleteEffect
<1>2. PICK p, row :
        /\ p \in Event /\ p.type = "RequestComplete" /\ Leaves(e, {p})
        /\ row.request_id = id /\ responses' = Append(responses, row)
  BY DEF CompleteEffect
<1> DEFINE new == {p}
<1>3. Exchanges(e, new)
  BY <1>2, StepFacts
<1>4. e.type \in PathTypes /\ e.type \in ComputeEventTypes
      /\ e.type \notin {"MemoryServiceStart", "MemoryServiceComplete"}
  BY DEF PathTypes, ComputeEventTypes
<1>5. /\ id \in Issued /\ id \in Unfinished /\ n = SourceOf(id)
      /\ \A f \in PathEvents : f # e => f.request_id # id
      /\ \A c \in ChannelIds : \A i \in 1 .. Len(QueueOf(c)) : QueueOf(c)[i] # id
  BY <1>4, HeldByAlone
<1>6. \A i \in Issued : i # id => Stage(i)' = Stage(i)
  BY <1>1 DEF Reaches
<1>7. \A q \in new : /\ q.type \notin PathTypes
                     /\ q.type \notin {"MemoryServiceStart", "MemoryServiceComplete"}
  BY <1>2 DEF PathTypes
<1>8. Unfinished' = Unfinished \ {id}
  BY <1>1, <1>5 DEF Unfinished, Reaches, Stage
<1>15. Stage(id)' = "Completed" /\ SourceOf(id)' = n
  BY <1>1, <1>5 DEF Reaches, KeepsRequests
<1> HIDE DEF id, n, new
<1>9. HeldAtMostOnce'
  BY <1>1, <1>3, <1>5, <1>6, <1>7, <1>15, HeldStep DEF OnThePathOf
<1>10. QueuedAtMostOnce'
  BY <1>1, <1>3, <1>5, <1>6, <1>7, QueuesKept
<1>11. StartsAreAnnounced' /\ ServicesAreAnnounced'
  BY <1>1, <1>3, <1>4, <1>7, FlagsKept
<1>12. AnsweredWhenCompleted'
  <2>1. responses \in Seq(Response) /\ Len(responses) \in Nat
    BY DEF RequestPathInv, SimulatorInv, TypeOK
  <2> DEFINE last == Len(responses) + 1
  <2>2. /\ DOMAIN responses = 1 .. Len(responses)
        /\ DOMAIN responses' = DOMAIN responses \cup {last} /\ last \notin DOMAIN responses
        /\ \A i \in DOMAIN responses : responses'[i] = responses[i]
        /\ responses'[last] = row
    BY <1>2, <2>1
  <2> HIDE DEF last
  <2>3. AnswersTo(id) = {}
    BY <1>5 DEF RequestPathInv, AnsweredWhenCompleted
  <2>4. \A i \in DOMAIN responses : responses[i].request_id # id
    BY <2>3 DEF AnswersTo
  <2>5. \A i \in Issued : AnswersTo(i)' = IF i = id THEN {last} ELSE AnswersTo(i)
    BY <1>2, <2>2, <2>4 DEF AnswersTo
  <2>6. \A i \in Issued' : AnswersTo(i)' = {} <=> i \in Unfinished'
    BY <1>1, <1>8, <2>5 DEF RequestPathInv, AnsweredWhenCompleted
  <2>7. \A i, j \in DOMAIN responses' :
          responses'[i].request_id = responses'[j].request_id => i = j
    BY <1>2, <2>2, <2>4 DEF RequestPathInv, AnsweredWhenCompleted
  <2>8. \A i \in DOMAIN responses' : responses'[i].request_id \in Issued'
    BY <1>1, <1>2, <1>5, <2>2 DEF RequestPathInv, AnsweredWhenCompleted
  <2> QED BY <2>6, <2>7, <2>8 DEF AnsweredWhenCompleted
<1>13. OutstandingCountsUnfinished'
  <2> SUFFICES ASSUME NEW m \in Nodes
               PROVE  compute_nodes'[m].outstanding_requests = Cardinality(OpenAt(m)')
    BY DEF OutstandingCountsUnfinished, OpenAt, SourceOf
  <2>1. compute_nodes[m].outstanding_requests = Cardinality(OpenAt(m))
    BY DEF RequestPathInv, OutstandingCountsUnfinished, OpenAt, SourceOf
  <2>2. compute_nodes \in NodeStates /\ compute_nodes[m] \in ComputeNodeState
    BY Referents DEF RequestPathInv, NodeStates
  <2>3. Unfinished \subseteq Issued
    BY DEF Unfinished
  <2>4. OpenAt(m)' = OpenAt(m) \ {id}
    BY <1>1, <1>8, <2>3 DEF OpenAt, KeepsRequests
  <2>5. id \in OpenAt(m) <=> m = n
    BY <1>5 DEF OpenAt
  <2>6. compute_nodes'[m].outstanding_requests =
          IF m = n THEN compute_nodes[m].outstanding_requests - 1
          ELSE compute_nodes[m].outstanding_requests
    BY <1>1, <2>2 DEF NodeStates, ComputeNodeState
  <2>7. IsFiniteSet(OpenAt(m))
    BY OpenFinite DEF RequestPathInv
  <2>8. CASE m = n
    <3>1. Cardinality(OpenAt(m) \ {id}) = Cardinality(OpenAt(m)) - 1
      BY <2>5, <2>7, <2>8, FS_RemoveElement
    <3> QED BY <2>1, <2>4, <2>6, <2>8, <3>1
  <2>9. CASE m # n
    <3>1. OpenAt(m) \ {id} = OpenAt(m)
      BY <2>5, <2>9
    <3> QED BY <2>1, <2>4, <2>6, <2>9, <3>1
  <2> QED BY <2>8, <2>9
<1>14. NoErrorThrown'
  BY <1>1 DEF RequestPathInv, NoErrorThrown
<1> QED BY <1>9, <1>10, <1>11, <1>12, <1>13, <1>14 DEF RequestPathInv

\* A handler that only draws GenerateRequest events out of the queue, or into
\* it, keeps everything on the path.
LEMMA QuietStep ==
  ASSUME RequestPathInv, SimulatorInv', NEW e \in sched.events,
         e.type \in {"GenerateRequest", "RequestComplete"},
         UNCHANGED <<status, config, compute_nodes, channels, responses,
                     request_table, next_request_id>>,
         NEW new, \A g \in new : g.type = "GenerateRequest", Leaves(e, new)
  PROVE  RequestPathInv'
<1>1. Exchanges(e, new)
  BY StepFacts
<1>2. /\ Issued' = Issued /\ Unfinished' = Unfinished /\ KeepsRequests
      /\ \A id \in Issued : Stage(id)' = Stage(id)
  BY TableKept
<1>3. \A g \in new : /\ g.type \notin PathTypes
                     /\ g.type \notin {"MemoryServiceStart", "MemoryServiceComplete"}
  BY DEF PathTypes
<1>4. e.type \notin {"MemoryServiceStart", "MemoryServiceComplete"}
  OBVIOUS
<1>5. /\ \A f \in PathEvents : f.request_id # 0
      /\ \A c \in ChannelIds : \A i \in 1 .. Len(QueueOf(c)) : QueueOf(c)[i] # 0
  <2>1. 0 \notin Issued
    BY DEF Issued
  <2>2. \A f \in PathEvents : f.request_id \in Issued
    BY Referents DEF RequestPathInv
  <2>3. \A c \in ChannelIds : QueueOf(c) \in Seq(Issued)
    BY Referents DEF RequestPathInv
  <2>4. \A c \in ChannelIds : \A i \in 1 .. Len(QueueOf(c)) : QueueOf(c)[i] \in Issued
    BY <2>3
  <2> QED BY <2>1, <2>2, <2>4
<1>6. PICK stage, source : Stage(0)' = stage /\ SourceOf(0)' = source
  OBVIOUS
<1>7. HeldAtMostOnce'
  BY <1>1, <1>2, <1>3, <1>5, <1>6, HeldStep DEF OnThePathOf
<1>8. QueuedAtMostOnce'
  BY <1>1, <1>2, <1>3, <1>5, QueuesKept
<1>9. StartsAreAnnounced' /\ ServicesAreAnnounced'
  BY <1>1, <1>2, <1>3, <1>4, FlagsKept
<1>10. AnsweredWhenCompleted' /\ OutstandingCountsUnfinished' /\ NoErrorThrown'
  BY <1>2, AnswersKept, CountsKept DEF RequestPathInv, NoErrorThrown
<1> QED BY <1>7, <1>8, <1>9, <1>10 DEF RequestPathInv

\* A request that is issued is open, at its source, which counts it.
LEMMA IssueStep ==
  ASSUME RequestPathInv, SimulatorInv', NEW e \in sched.events,
         e.type = "GenerateRequest", IssueEffect(e)
  PROVE  RequestPathInv'
<1> DEFINE n == e.target_id
           spec == peek_next(compute_nodes, n)
<1>1. /\ UNCHANGED <<status, config, channels, responses>> /\ n \in Nodes
      /\ compute_nodes' = [compute_nodes EXCEPT ![n] = Advance(@, spec, e.time)]
      /\ KeepsRequests /\ KeepsStages
  BY DEF IssueEffect
<1>2. PICK id : \E p, g \in Event, more \in BOOLEAN :
        /\ id \notin Issued /\ Issued' = Issued \cup {id}
        /\ Stage(id)' = "Generated" /\ SourceOf(id)' = n
        /\ p.type = "LocalCacheLookup" /\ p.request_id = id /\ p.target_id = n
        /\ g.type = "GenerateRequest"
        /\ Leaves(e, {p} \cup (IF more THEN {g} ELSE {}))
  <2> DEFINE open == bursty /\ NextIsOfEpoch(compute_nodes', n, compute_nodes'[n].current_epoch)
  <2>1. PICK id \in Nat \ {0}, p, g \in Event, accepted \in BOOLEAN :
          /\ id \notin Issued /\ Issued' = Issued \cup {id}
          /\ Stage(id)' = "Generated" /\ SourceOf(id)' = n
          /\ p.type = "LocalCacheLookup" /\ p.request_id = id /\ p.target_id = n
          /\ g.type = "GenerateRequest"
          /\ Leaves(e, {p} \cup (IF open /\ accepted THEN {g} ELSE {}))
    BY DEF IssueEffect
  <2>2. (open /\ accepted) \in BOOLEAN
    OBVIOUS
  <2> HIDE DEF open
  <2> QED BY <2>1, <2>2
<1>17. PICK p, g \in Event, more \in BOOLEAN :
        /\ p.type = "LocalCacheLookup" /\ p.request_id = id /\ p.target_id = n
        /\ g.type = "GenerateRequest"
        /\ Leaves(e, {p} \cup (IF more THEN {g} ELSE {}))
  BY <1>2
<1> DEFINE new == {p} \cup (IF more THEN {g} ELSE {})
<1>3. Exchanges(e, new)
  BY <1>17, StepFacts
<1>4. \A i \in Issued : i # id /\ Stage(i)' = Stage(i)
  BY <1>1, <1>2 DEF KeepsStages
<1>5. /\ \A f \in PathEvents : f.request_id # id
      /\ \A c \in ChannelIds : \A i \in 1 .. Len(QueueOf(c)) : QueueOf(c)[i] # id
  <2>1. \A c \in ChannelIds : QueueOf(c) \in Seq(Issued)
    BY Referents DEF RequestPathInv
  <2>2. \A c \in ChannelIds : \A i \in 1 .. Len(QueueOf(c)) : QueueOf(c)[i] \in Issued
    BY <2>1
  <2> QED BY <1>2, <2>2, Referents DEF RequestPathInv
<1>6. OnThePathOf(new, id, "Generated", n)
  BY <1>17 DEF PathTypes, AwaitedEvents, OnThePathOf
<1>7. \A q \in new : q.type \notin {"MemoryServiceStart", "MemoryServiceComplete"}
  BY <1>17
<1>8. e.type \notin {"MemoryServiceStart", "MemoryServiceComplete"}
  OBVIOUS
<1>9. Unfinished' = Unfinished \cup {id}
  BY <1>1, <1>2, <1>4 DEF Unfinished, KeepsStages, Stage
<1>16. Stage(id)' = "Generated" /\ SourceOf(id)' = n
  BY <1>2
<1> HIDE DEF new, n, spec
<1>10. HeldAtMostOnce'
  BY <1>1, <1>3, <1>4, <1>5, <1>16, <1>6, HeldStep
<1>11. QueuedAtMostOnce'
  BY <1>1, <1>3, <1>4, <1>5, <1>6, QueuesKept DEF OnThePathOf
<1>12. StartsAreAnnounced' /\ ServicesAreAnnounced'
  BY <1>1, <1>3, <1>7, <1>8, FlagsKept
<1>13. AnsweredWhenCompleted'
  <2>1. \A i : AnswersTo(i)' = AnswersTo(i)
    BY <1>1 DEF AnswersTo
  <2>2. AnswersTo(id) = {}
    BY <1>2 DEF AnswersTo, RequestPathInv, AnsweredWhenCompleted
  <2>3. \A i \in Issued' : AnswersTo(i)' = {} <=> i \in Unfinished'
    BY <1>2, <1>4, <1>9, <2>1, <2>2 DEF RequestPathInv, AnsweredWhenCompleted
  <2> QED BY <1>1, <1>2, <2>3 DEF RequestPathInv, AnsweredWhenCompleted
<1>14. OutstandingCountsUnfinished'
  <2> SUFFICES ASSUME NEW m \in Nodes
               PROVE  compute_nodes'[m].outstanding_requests = Cardinality(OpenAt(m)')
    BY DEF OutstandingCountsUnfinished, OpenAt, SourceOf
  <2>1. compute_nodes[m].outstanding_requests = Cardinality(OpenAt(m))
    BY DEF RequestPathInv, OutstandingCountsUnfinished, OpenAt, SourceOf
  <2>2. compute_nodes \in NodeStates
    BY Referents DEF RequestPathInv
  <2>3. Unfinished \subseteq Issued
    BY DEF Unfinished
  <2>4. OpenAt(m)' = OpenAt(m) \cup {i \in {id} : m = n}
    BY <1>1, <1>2, <1>9, <2>3 DEF OpenAt, KeepsRequests
  <2>5. id \notin OpenAt(m)
    BY <1>2, <2>3 DEF OpenAt
  <2>6. compute_nodes'[m].outstanding_requests =
          IF m = n THEN compute_nodes[m].outstanding_requests + 1
          ELSE compute_nodes[m].outstanding_requests
    BY <1>1, <2>2 DEF NodeStates, Advance
  <2>7. IsFiniteSet(OpenAt(m))
    BY OpenFinite DEF RequestPathInv
  <2>8. CASE m = n
    <3>1. Cardinality(OpenAt(m) \cup {id}) = Cardinality(OpenAt(m)) + 1
      BY <2>5, <2>7, FS_AddElement
    <3>2. OpenAt(m)' = OpenAt(m) \cup {id}
      BY <2>4, <2>8
    <3> QED BY <2>1, <2>6, <2>8, <3>1, <3>2
  <2>9. CASE m # n
    <3>1. OpenAt(m)' = OpenAt(m)
      BY <2>4, <2>9
    <3> QED BY <2>1, <2>6, <2>9, <3>1
  <2> QED BY <2>8, <2>9
<1>15. NoErrorThrown'
  BY <1>1 DEF RequestPathInv, NoErrorThrown
<1> QED BY <1>10, <1>11, <1>12, <1>13, <1>14, <1>15 DEF RequestPathInv

\* The events of the channels after a step.
LEMMA ServiceEvents ==
  ASSUME NEW e, NEW new, Exchanges(e, new),
         NEW type \in {"MemoryServiceStart", "MemoryServiceComplete"}
  PROVE  \A f : f \in PendingOf(type)' <=>
           \/ f \in PendingOf(type) /\ f # e
           \/ f \in new /\ f.type = type
BY DEF Exchanges, PendingOf

\* A request that joins a queue waits there, and a start that was pending in its
\* channel still is for the head.
LEMMA ForwardStep ==
  ASSUME RequestPathInv, SimulatorInv', NEW e \in sched.events,
         e.type = "ForwardToMemory", ForwardEffect(e)
  PROVE  RequestPathInv'
<1> DEFINE id == e.request_id
<1>0. PICK c, queue, head, free :
        /\ free \in BOOLEAN
        /\ c = ChannelOf(id) /\ queue = Append(QueueOf(c), id) /\ head = Head(queue)
        /\ free = ChannelFree(channels[c])
  BY DEF ChannelFree
<1>1. /\ Issued' = Issued /\ Unfinished' = Unfinished /\ KeepsRequests /\ KeepsStages
      /\ UNCHANGED <<status, config, compute_nodes, responses>>
      /\ ChannelBecomes(c,
           [queued_requests |-> queue,
            service_in_progress |-> channels[c].service_in_progress,
            service_start_scheduled |-> channels[c].service_start_scheduled \/ free])
  BY <1>0 DEF ForwardEffect
<1>2. PICK p \in Event :
        /\ p.type = "MemoryServiceStart" /\ p.request_id = head
        /\ Leaves(e, IF free THEN {p} ELSE {})
  BY <1>0 DEF ForwardEffect
<1> DEFINE new == IF free THEN {p} ELSE {}
<1>3. Exchanges(e, new)
  BY <1>2, StepFacts
<1>4. e.type \in PathTypes
      /\ e.type \notin {"MemoryServiceStart", "MemoryServiceComplete"}
  BY DEF PathTypes
<1>5. /\ id \in Issued /\ "ForwardToMemory" \in AwaitedEvents(Stage(id))
      /\ \A f \in PathEvents : f # e => f.request_id # id
      /\ \A d \in ChannelIds : \A i \in 1 .. Len(QueueOf(d)) : QueueOf(d)[i] # id
  BY <1>4, HeldByAlone
<1>6. Stage(id) = "ForwardedToMemory"
  BY <1>5, StageOfEvent, Referents DEF RequestPathInv
<1>7. \A q \in new : q = p /\ q.type \notin PathTypes /\ q.type = "MemoryServiceStart"
  BY <1>2 DEF PathTypes
<1>8. c \in ChannelIds /\ ChannelIds' = ChannelIds
      /\ channels \in [ChannelIds -> ChannelState]
      /\ QueueOf(c) \in Seq(Issued)
  BY <1>1, Referents DEF ChannelBecomes, RequestPathInv
<1>9. /\ QueueOf(c)' = queue
      /\ channels'[c].service_in_progress = channels[c].service_in_progress
      /\ channels'[c].service_start_scheduled =
           (channels[c].service_start_scheduled \/ free)
      /\ \A d \in ChannelIds : d # c =>
           channels'[d] = channels[d] /\ QueueOf(d)' = QueueOf(d)
  BY <1>1 DEF ChannelBecomes, QueueOf
<1>10. Stage(id)' = "ForwardedToMemory" /\ SourceOf(id)' = SourceOf(id) /\ ChannelOf(id)' = c
  BY <1>0, <1>1, <1>5, <1>6 DEF KeepsStages, KeepsRequests
<1>11. /\ queue # <<>> /\ Len(queue) = Len(QueueOf(c)) + 1 /\ Len(QueueOf(c)) \in Nat
       /\ queue[Len(QueueOf(c)) + 1] = id
       /\ \A i \in 1 .. Len(QueueOf(c)) : queue[i] = QueueOf(c)[i]
       /\ QueueOf(c) # <<>> => head = Head(QueueOf(c))
       /\ QueueOf(c) = <<>> => head = id
       /\ head \in Issued
  BY <1>0, <1>5, <1>8
<1>21. PICK source : source = SourceOf(id)
  OBVIOUS
<1> HIDE DEF id, new
<1>12. HeldAtMostOnce'
  BY <1>1, <1>3, <1>5, <1>7, <1>10, <1>21, HeldStep DEF OnThePathOf, KeepsStages
<1>13. QueuedAtMostOnce'
  <2>1. \A f : f \in PathEvents' => f \in PathEvents /\ f # e
    BY <1>3, <1>4, <1>7 DEF Exchanges, PathEvents, PathTypes
  <2> SUFFICES ASSUME NEW d \in ChannelIds, NEW i \in 1 .. Len(QueueOf(d)'),
                      NEW x, x = QueueOf(d)'[i]
               PROVE  /\ Stage(x)' = "ForwardedToMemory"
                      /\ ChannelOf(x)' = d
                      /\ \A f \in PathEvents' : f.request_id # x
                      /\ \A j \in 1 .. Len(QueueOf(d)') : x = QueueOf(d)'[j] => i = j
    BY <1>8 DEF QueuedAtMostOnce, QueueOf, Stage, ChannelOf, channel_for
  <2>2. \A j \in 1 .. Len(QueueOf(d)) :
          /\ QueueOf(d)[j] \in Issued /\ QueueOf(d)[j] # id
          /\ Stage(QueueOf(d)[j]) = "ForwardedToMemory"
          /\ ChannelOf(QueueOf(d)[j]) = d
          /\ \A f \in PathEvents : f.request_id # QueueOf(d)[j]
          /\ \A m \in 1 .. Len(QueueOf(d)) : QueueOf(d)[j] = QueueOf(d)[m] => j = m
    <3>1. QueueOf(d) \in Seq(Issued)
      BY Referents DEF RequestPathInv
    <3>2. \A j \in 1 .. Len(QueueOf(d)) : QueueOf(d)[j] \in Issued
      BY <3>1
    <3> QED BY <1>5, <3>2 DEF RequestPathInv, QueuedAtMostOnce
  <2>3. CASE d = c /\ i = Len(QueueOf(c)) + 1
    <3>1. x = id
      BY <1>9, <1>11, <2>3
    <3>2. \A j \in 1 .. Len(QueueOf(c)) : x # queue[j]
      BY <1>5, <1>8, <1>11, <3>1
    <3>3. \A j \in 1 .. Len(QueueOf(d)') : x = QueueOf(d)'[j] => j \notin 1 .. Len(QueueOf(c))
      BY <1>9, <2>3, <3>2
    <3> QED BY <1>5, <1>9, <1>10, <1>11, <2>1, <2>3, <3>1, <3>3
  <2>4. CASE ~(d = c /\ i = Len(QueueOf(c)) + 1)
    <3>1. i \in 1 .. Len(QueueOf(d)) /\ x = QueueOf(d)[i]
      BY <1>9, <1>11, <2>4
    <3>2. Stage(x)' = "ForwardedToMemory" /\ ChannelOf(x)' = d
      BY <1>1, <2>2, <3>1 DEF KeepsStages, KeepsRequests
    <3>3. \A j \in 1 .. Len(QueueOf(d)') : x = QueueOf(d)'[j] => i = j
      <4>1. CASE d # c
        BY <1>9, <2>2, <3>1, <4>1
      <4>2. CASE d = c
        <5> SUFFICES ASSUME NEW j \in 1 .. Len(queue), x = queue[j] PROVE i = j
          BY <1>9, <4>2
        <5>1. j # Len(QueueOf(c)) + 1
          BY <1>5, <1>11, <2>2, <3>1, <4>2
        <5>2. j \in 1 .. Len(QueueOf(c)) /\ queue[j] = QueueOf(c)[j]
          BY <1>11, <5>1
        <5> QED BY <2>2, <3>1, <4>2, <5>2
      <4> QED BY <4>1, <4>2
    <3> QED BY <2>1, <2>2, <3>1, <3>2, <3>3
  <2> QED BY <2>3, <2>4
<1>14. \A f : f \in PendingOf("MemoryServiceStart")' <=>
         f \in PendingOf("MemoryServiceStart") \/ (f = p /\ free)
  BY <1>2, <1>3, <1>4, ServiceEvents DEF PendingOf, new
<1>15. \A f : f \in PendingOf("MemoryServiceComplete")' <=>
         f \in PendingOf("MemoryServiceComplete")
  BY <1>3, <1>4, <1>7, ServiceEvents DEF PendingOf
<1>16. ChannelOf(head) = c /\ ChannelOf(head)' = c
  <2>1. QueueOf(c) # <<>> => ChannelOf(head) = c
    <3>1. QueueOf(c) # <<>> => 1 \in 1 .. Len(QueueOf(c)) /\ Head(QueueOf(c)) = QueueOf(c)[1]
      BY <1>8
    <3> QED BY <1>8, <1>11, <3>1 DEF RequestPathInv, QueuedAtMostOnce
  <2>2. ChannelOf(head) = c
    BY <1>0, <1>11, <2>1
  <2> QED BY <1>1, <1>11, <2>2 DEF KeepsRequests
<1>17. \A type \in {"MemoryServiceStart", "MemoryServiceComplete"} :
         \A f \in PendingOf(type) : /\ ChannelOf(f.request_id)' = ChannelOf(f.request_id)
                                    /\ ChannelOf(f.request_id) \in ChannelIds
  BY <1>1, Referents DEF RequestPathInv, KeepsRequests, PendingOf
<1>18. StartsAreAnnounced'
  <2>1. free => \A f \in PendingOf("MemoryServiceStart") : ChannelOf(f.request_id) # c
    BY <1>0 DEF ChannelFree, RequestPathInv, StartsAreAnnounced
  <2>2. \A f, g \in PendingOf("MemoryServiceStart")' :
          ChannelOf(f.request_id)' = ChannelOf(g.request_id)' => f = g
    BY <1>2, <1>14, <1>16, <1>17, <2>1 DEF RequestPathInv, StartsAreAnnounced
  <2>3. ASSUME NEW f \in PendingOf("MemoryServiceStart")', NEW d, d = ChannelOf(f.request_id)'
        PROVE  /\ channels'[d].service_start_scheduled
               /\ channels'[d].queued_requests # <<>>
               /\ f.request_id = Head(channels'[d].queued_requests)
    <3>1. CASE f = p /\ free
      <4>1. f.request_id = head /\ d = c
        BY <1>2, <1>16, <2>3, <3>1
      <4>2. channels'[c].queued_requests = queue
        BY <1>9 DEF QueueOf
      <4> QED BY <1>0, <1>9, <1>11, <3>1, <4>1, <4>2
    <3>2. CASE f \in PendingOf("MemoryServiceStart")
      <4>1. /\ channels[d].service_start_scheduled
            /\ channels[d].queued_requests # <<>>
            /\ f.request_id = Head(channels[d].queued_requests)
            /\ d = ChannelOf(f.request_id)
        BY <1>17, <2>3, <3>2 DEF RequestPathInv, StartsAreAnnounced
      <4>2. d \in ChannelIds
        BY <1>17, <3>2, <4>1
      <4>3. CASE d = c
        <5>1. channels'[c].queued_requests = queue
          BY <1>9 DEF QueueOf
        <5>2. QueueOf(c) # <<>> /\ f.request_id = Head(QueueOf(c))
          BY <4>1, <4>3 DEF QueueOf
        <5> QED BY <1>0, <1>9, <1>11, <4>1, <4>3, <5>1, <5>2
      <4>4. CASE d # c
        BY <1>9, <4>1, <4>2, <4>4
      <4> QED BY <4>3, <4>4
    <3> QED BY <1>14, <3>1, <3>2
  <2>4. ASSUME NEW d \in ChannelIds', channels'[d].service_start_scheduled
        PROVE  \E f \in PendingOf("MemoryServiceStart")' : ChannelOf(f.request_id)' = d
    <3>1. CASE d = c /\ free
      BY <1>2, <1>14, <1>16, <1>17, <3>1
    <3>2. CASE ~(d = c /\ free)
      <4>1. channels[d].service_start_scheduled
        BY <1>8, <1>9, <2>4, <3>2
      <4> QED BY <1>8, <1>14, <1>17, <4>1 DEF RequestPathInv, StartsAreAnnounced
    <3> QED BY <3>1, <3>2
  <2> QED BY <2>2, <2>3, <2>4 DEF StartsAreAnnounced
<1>19. ServicesAreAnnounced'
  <2>1. \A f, g \in PendingOf("MemoryServiceComplete")' :
          ChannelOf(f.request_id)' = ChannelOf(g.request_id)' => f = g
    BY <1>15, <1>17 DEF RequestPathInv, ServicesAreAnnounced
  <2>3. \A f \in PendingOf("MemoryServiceComplete")' :
          channels'[ChannelOf(f.request_id)'].service_in_progress
    BY <1>9, <1>15, <1>17 DEF RequestPathInv, ServicesAreAnnounced
  <2>4. \A d \in ChannelIds :
          /\ ~(channels'[d].service_start_scheduled /\ channels'[d].service_in_progress)
          /\ QueueOf(d)' # <<>> =>
               channels'[d].service_start_scheduled \/ channels'[d].service_in_progress
    <3> SUFFICES ASSUME NEW d \in ChannelIds
                 PROVE  /\ ~(channels'[d].service_start_scheduled
                             /\ channels'[d].service_in_progress)
                        /\ QueueOf(d)' # <<>> => channels'[d].service_start_scheduled
                                                   \/ channels'[d].service_in_progress
      OBVIOUS
    <3>1. CASE d = c
      BY <1>0, <1>9, <3>1 DEF RequestPathInv, ServicesAreAnnounced, ChannelFree
    <3>2. CASE d # c
      BY <1>9, <3>2 DEF RequestPathInv, ServicesAreAnnounced, QueueOf
    <3> QED BY <3>1, <3>2
  <2> QED BY <1>8, <2>1, <2>3, <2>4 DEF ServicesAreAnnounced
<1>20. AnsweredWhenCompleted' /\ OutstandingCountsUnfinished' /\ NoErrorThrown'
  BY <1>1, AnswersKept, CountsKept DEF RequestPathInv, NoErrorThrown
<1> QED BY <1>12, <1>13, <1>18, <1>19, <1>20 DEF RequestPathInv

\* A pending start finds its request at the head of the queue.
LEMMA StartFindsHead ==
  ASSUME RequestPathInv, NEW e \in sched.events, e.type = "MemoryServiceStart"
  PROVE  LET id == e.request_id
             c == ChannelOf(id)
         IN /\ id \in Issued /\ c \in ChannelIds
            /\ QueueOf(c) \in Seq(Issued) /\ QueueOf(c) # <<>> /\ id = Head(QueueOf(c))
            /\ channels[c].service_start_scheduled /\ ~channels[c].service_in_progress
            /\ Stage(id) = "ForwardedToMemory" /\ id \in Unfinished
            /\ \A f \in PathEvents : f.request_id # id
            /\ \A d \in ChannelIds : \A i \in 1 .. Len(QueueOf(d)) :
                 QueueOf(d)[i] = id => d = c /\ i = 1
<1> DEFINE id == e.request_id
           c == ChannelOf(id)
<1>1. e \in PendingOf("MemoryServiceStart")
  BY DEF PendingOf
<1>2. id \in Issued /\ c \in ChannelIds /\ QueueOf(c) \in Seq(Issued)
  BY Referents DEF RequestPathInv
<1>3. /\ QueueOf(c) # <<>> /\ id = Head(QueueOf(c))
      /\ channels[c].service_start_scheduled
  BY <1>1 DEF RequestPathInv, StartsAreAnnounced, QueueOf
<1>4. ~channels[c].service_in_progress
  BY <1>2, <1>3 DEF RequestPathInv, ServicesAreAnnounced
<1>5. 1 \in 1 .. Len(QueueOf(c)) /\ id = QueueOf(c)[1]
  BY <1>2, <1>3
<1>6. /\ Stage(id) = "ForwardedToMemory"
      /\ \A f \in PathEvents : f.request_id # id
      /\ \A i \in 1 .. Len(QueueOf(c)) : QueueOf(c)[i] = id => i = 1
  BY <1>2, <1>5 DEF RequestPathInv, QueuedAtMostOnce
<1>7. \A d \in ChannelIds : \A i \in 1 .. Len(QueueOf(d)) : QueueOf(d)[i] = id => d = c
  BY DEF RequestPathInv, QueuedAtMostOnce
<1>8. id \in Unfinished
  BY <1>2, <1>6 DEF Unfinished, Stage
<1> QED BY <1>2, <1>3, <1>4, <1>6, <1>7, <1>8

\* The request at the head of a queue leaves it for the one service of its
\* channel.
LEMMA ServiceStartStep ==
  ASSUME RequestPathInv, SimulatorInv', NEW e \in sched.events,
         e.type = "MemoryServiceStart", ServiceStartEffect(e)
  PROVE  RequestPathInv'
<1> DEFINE id == e.request_id
<1>0. PICK c, queue, source :
        c = ChannelOf(id) /\ queue = QueueOf(c) /\ source = SourceOf(id)
  OBVIOUS
<1>1. /\ Issued' = Issued /\ KeepsRequests /\ Reaches(id, "WaitingForResponse")
      /\ UNCHANGED <<status, config, compute_nodes, responses>>
      /\ ChannelBecomes(c,
           [queued_requests |-> Tail(queue), service_in_progress |-> TRUE,
            service_start_scheduled |-> FALSE])
  BY <1>0 DEF ServiceStartEffect
<1>2. PICK p \in Event, accepted \in BOOLEAN :
        /\ p.type = "MemoryServiceComplete" /\ p.request_id = id
        /\ Leaves(e, IF accepted THEN {p} ELSE {})
  BY DEF ServiceStartEffect
<1> DEFINE new == IF accepted THEN {p} ELSE {}
<1>3. Exchanges(e, new)
  BY <1>2, StepFacts
<1>4. /\ id \in Issued /\ c \in ChannelIds /\ id \in Unfinished
      /\ queue \in Seq(Issued) /\ queue # <<>> /\ id = Head(queue)
      /\ channels[c].service_start_scheduled /\ ~channels[c].service_in_progress
      /\ \A f \in PathEvents : f.request_id # id
      /\ \A d \in ChannelIds : \A i \in 1 .. Len(QueueOf(d)) :
           QueueOf(d)[i] = id => d = c /\ i = 1
  BY <1>0, StartFindsHead
<1>5. \A i \in Issued : i # id => Stage(i)' = Stage(i)
  BY <1>1 DEF Reaches
<1>6. Stage(id)' = "WaitingForResponse" /\ SourceOf(id)' = source
  BY <1>0, <1>1, <1>4 DEF Reaches, KeepsRequests
<1>7. Unfinished' = Unfinished
  BY <1>1, <1>4, UnfinishedKept
<1>8. /\ ChannelIds' = ChannelIds
      /\ QueueOf(c)' = Tail(queue)
      /\ channels'[c].service_in_progress /\ ~channels'[c].service_start_scheduled
      /\ \A d \in ChannelIds : d # c =>
           channels'[d] = channels[d] /\ QueueOf(d)' = QueueOf(d)
  BY <1>1 DEF ChannelBecomes, QueueOf
<1>9. OnThePathOf(new, id, "WaitingForResponse", source)
  BY <1>2 DEF OnThePathOf, AwaitedEvents, PathTypes, ComputeEventTypes
<1> HIDE DEF id
<1>10. HeldAtMostOnce'
  <2> HIDE DEF new
  <2> QED BY <1>1, <1>3, <1>4, <1>5, <1>6, <1>9, HeldStep
<1>11. QueuedAtMostOnce'
  <2>1. ASSUME NEW d \in ChannelIds
        PROVE  \E k \in {0, 1} :
                 /\ Len(QueueOf(d)') = Len(QueueOf(d)) - k
                 /\ \A i \in 1 .. Len(QueueOf(d)) - k :
                      QueueOf(d)'[i] = QueueOf(d)[i + k] /\ QueueOf(d)[i + k] # id
    <3>1. CASE d = c
      <4>1. QueueOf(d) = queue /\ QueueOf(d)' = Tail(queue)
        BY <1>0, <1>8, <3>1
      <4>2. /\ Len(Tail(queue)) = Len(queue) - 1 /\ Len(queue) \in Nat
            /\ \A i \in 1 .. Len(queue) - 1 : Tail(queue)[i] = queue[i + 1]
        BY <1>4
      <4>3. \A i \in 1 .. Len(queue) - 1 : queue[i + 1] # id
        BY <1>0, <1>4, <4>2
      <4> QED BY <4>1, <4>2, <4>3
    <3>2. CASE d # c
      <4>1. QueueOf(d) \in Seq(Issued)
        BY Referents DEF RequestPathInv
      <4>2. Len(QueueOf(d)) \in Nat /\ QueueOf(d)' = QueueOf(d)
        BY <1>8, <3>2, <4>1
      <4>3. /\ Len(QueueOf(d)') = Len(QueueOf(d)) - 0
            /\ \A i \in 1 .. Len(QueueOf(d)) - 0 :
                 QueueOf(d)'[i] = QueueOf(d)[i + 0] /\ QueueOf(d)[i + 0] # id
        BY <1>4, <3>2, <4>2
      <4> QED BY <4>3
    <3> QED BY <3>1, <3>2
  <2>2. \A q \in new : q.type \in PathTypes => q.request_id = id
    BY <1>9 DEF OnThePathOf
  <2>3. KeepsRequests /\ ChannelIds' = ChannelIds
    BY <1>1, <1>8
  <2> HIDE DEF new
  <2> QED BY <1>3, <1>5, <2>1, <2>2, <2>3, QueuedStep
<1>12. \A f : f \in PendingOf("MemoryServiceStart")' <=>
         f \in PendingOf("MemoryServiceStart") /\ f # e
  BY <1>2, <1>3, ServiceEvents DEF PendingOf
<1>13. \A f : f \in PendingOf("MemoryServiceComplete")' <=>
         f \in PendingOf("MemoryServiceComplete") \/ (f = p /\ accepted)
  BY <1>2, <1>3, ServiceEvents DEF PendingOf
<1>14. \A type \in {"MemoryServiceStart", "MemoryServiceComplete"} :
         \A f \in PendingOf(type) : /\ ChannelOf(f.request_id)' = ChannelOf(f.request_id)
                                    /\ ChannelOf(f.request_id) \in ChannelIds
  BY <1>1, Referents DEF RequestPathInv, KeepsRequests, PendingOf
<1>15. ChannelOf(p.request_id)' = c
  BY <1>0, <1>1, <1>2, <1>4 DEF KeepsRequests
<1>16. \A f \in PendingOf("MemoryServiceStart") : f # e => ChannelOf(f.request_id) # c
  BY <1>0 DEF RequestPathInv, StartsAreAnnounced, PendingOf, id
<1>17. StartsAreAnnounced'
  <2>1. \A f, g \in PendingOf("MemoryServiceStart")' :
          ChannelOf(f.request_id)' = ChannelOf(g.request_id)' => f = g
    BY <1>12, <1>14 DEF RequestPathInv, StartsAreAnnounced
  <2>2. ASSUME NEW f \in PendingOf("MemoryServiceStart")', NEW d, d = ChannelOf(f.request_id)'
        PROVE  /\ channels'[d].service_start_scheduled
               /\ channels'[d].queued_requests # <<>>
               /\ f.request_id = Head(channels'[d].queued_requests)
    <3>1. d \in ChannelIds /\ d # c /\ d = ChannelOf(f.request_id)
          /\ f \in PendingOf("MemoryServiceStart")
      BY <1>12, <1>14, <1>16, <2>2
    <3> QED BY <1>8, <3>1 DEF RequestPathInv, StartsAreAnnounced
  <2>3. ASSUME NEW d \in ChannelIds', channels'[d].service_start_scheduled
        PROVE  \E f \in PendingOf("MemoryServiceStart")' : ChannelOf(f.request_id)' = d
    <3>1. d \in ChannelIds /\ d # c /\ channels[d].service_start_scheduled
      BY <1>8, <2>3
    <3>2. PICK f \in PendingOf("MemoryServiceStart") : ChannelOf(f.request_id) = d
      BY <3>1 DEF RequestPathInv, StartsAreAnnounced
    <3>3. f # e
      BY <1>0, <3>1, <3>2 DEF id
    <3> QED BY <1>12, <1>14, <3>2, <3>3
  <2> QED BY <2>1, <2>2, <2>3 DEF StartsAreAnnounced
<1>18. ServicesAreAnnounced'
  <2>1. \A f \in PendingOf("MemoryServiceComplete") : ChannelOf(f.request_id) # c
    BY <1>4 DEF RequestPathInv, ServicesAreAnnounced
  <2>2. \A f, g \in PendingOf("MemoryServiceComplete")' :
          ChannelOf(f.request_id)' = ChannelOf(g.request_id)' => f = g
    BY <1>13, <1>14, <1>15, <2>1 DEF RequestPathInv, ServicesAreAnnounced
  <2>3. ASSUME NEW f \in PendingOf("MemoryServiceComplete")', NEW d, d = ChannelOf(f.request_id)'
        PROVE  channels'[d].service_in_progress
    <3>1. CASE f = p
      BY <1>8, <1>15, <2>3, <3>1
    <3>2. CASE f \in PendingOf("MemoryServiceComplete")
      BY <1>8, <1>14, <2>1, <2>3, <3>2 DEF RequestPathInv, ServicesAreAnnounced
    <3> QED BY <1>13, <3>1, <3>2
  <2>4. ASSUME NEW d \in ChannelIds
        PROVE  /\ ~(channels'[d].service_start_scheduled /\ channels'[d].service_in_progress)
               /\ QueueOf(d)' # <<>> => channels'[d].service_start_scheduled
                                          \/ channels'[d].service_in_progress
    <3>1. CASE d = c
      BY <1>8, <3>1
    <3>2. CASE d # c
      BY <1>8, <3>2 DEF RequestPathInv, ServicesAreAnnounced
    <3> QED BY <3>1, <3>2
  <2> QED BY <1>8, <2>2, <2>3, <2>4 DEF ServicesAreAnnounced
<1>19. AnsweredWhenCompleted' /\ OutstandingCountsUnfinished' /\ NoErrorThrown'
  BY <1>1, <1>7, AnswersKept, CountsKept DEF RequestPathInv, NoErrorThrown
<1> QED BY <1>10, <1>11, <1>17, <1>18, <1>19 DEF RequestPathInv

\* A pending completion finds its channel in service.
LEMMA CompletionFindsService ==
  ASSUME RequestPathInv, NEW e \in sched.events, e.type = "MemoryServiceComplete"
  PROVE  LET c == ChannelOf(e.request_id)
         IN /\ c \in ChannelIds /\ QueueOf(c) \in Seq(Issued)
            /\ channels[c].service_in_progress /\ ~channels[c].service_start_scheduled
            /\ \A f \in PendingOf("MemoryServiceStart") : ChannelOf(f.request_id) # c
            /\ \A f \in PendingOf("MemoryServiceComplete") : f # e => ChannelOf(f.request_id) # c
<1> DEFINE c == ChannelOf(e.request_id)
<1>1. e \in PendingOf("MemoryServiceComplete") /\ e.request_id \in Issued
  BY Referents DEF PendingOf, RequestPathInv
<1>2. c \in ChannelIds /\ QueueOf(c) \in Seq(Issued)
  BY <1>1, Referents DEF RequestPathInv
<1>3. /\ channels[c].service_in_progress
      /\ \A f \in PendingOf("MemoryServiceComplete") : f # e => ChannelOf(f.request_id) # c
  BY <1>1 DEF RequestPathInv, ServicesAreAnnounced
<1>4. ~channels[c].service_start_scheduled
  BY <1>2, <1>3 DEF RequestPathInv, ServicesAreAnnounced
<1>5. \A f \in PendingOf("MemoryServiceStart") : ChannelOf(f.request_id) # c
  BY <1>4 DEF RequestPathInv, StartsAreAnnounced
<1> QED BY <1>2, <1>3, <1>4, <1>5

\* The channel is free again, or its next start is announced.
LEMMA ServiceCompleteStep ==
  ASSUME RequestPathInv, SimulatorInv', NEW e \in sched.events,
         e.type = "MemoryServiceComplete", ServiceCompleteEffect(e)
  PROVE  RequestPathInv'
<1> DEFINE id == e.request_id
<1>0. PICK c, queue, head, source, waiting :
        /\ c = ChannelOf(id) /\ queue = QueueOf(c) /\ head = Head(queue)
        /\ source = SourceOf(id) /\ waiting \in BOOLEAN /\ waiting = (queue # <<>>)
  OBVIOUS
<1>1. /\ Issued' = Issued /\ Unfinished' = Unfinished /\ KeepsRequests /\ KeepsStages
      /\ UNCHANGED <<status, config, compute_nodes, responses>>
      /\ ChannelBecomes(c,
           [queued_requests |-> queue, service_in_progress |-> FALSE,
            service_start_scheduled |-> channels[c].service_start_scheduled \/ waiting])
  BY <1>0 DEF ServiceCompleteEffect
<1>2. PICK p, q \in Event, accepted \in BOOLEAN :
        /\ p.type = "ReturnResponse" /\ p.request_id = id /\ p.target_id = source
        /\ q.type = "MemoryServiceStart" /\ (waiting => q.request_id = head)
        /\ Leaves(e, (IF accepted THEN {p} ELSE {}) \cup (IF waiting THEN {q} ELSE {}))
  BY <1>0 DEF ServiceCompleteEffect
<1> DEFINE new == (IF accepted THEN {p} ELSE {}) \cup (IF waiting THEN {q} ELSE {})
<1>3. Exchanges(e, new)
  BY <1>2, StepFacts
<1>4. /\ c \in ChannelIds /\ queue \in Seq(Issued)
      /\ channels[c].service_in_progress /\ ~channels[c].service_start_scheduled
      /\ \A f \in PendingOf("MemoryServiceStart") : ChannelOf(f.request_id) # c
      /\ \A f \in PendingOf("MemoryServiceComplete") : f # e => ChannelOf(f.request_id) # c
  BY <1>0, CompletionFindsService
<1>5. e.type \in PathTypes
  BY DEF PathTypes
<1>6. /\ id \in Issued /\ "MemoryServiceComplete" \in AwaitedEvents(Stage(id))
      /\ \A f \in PathEvents : f # e => f.request_id # id
      /\ \A d \in ChannelIds : \A i \in 1 .. Len(QueueOf(d)) : QueueOf(d)[i] # id
  BY <1>5, HeldByAlone
<1>7. Stage(id) = "WaitingForResponse"
  BY <1>6, StageOfEvent, Referents DEF RequestPathInv
<1>8. Stage(id)' = "WaitingForResponse" /\ SourceOf(id)' = source
  BY <1>0, <1>1, <1>6, <1>7 DEF KeepsStages, KeepsRequests
<1>9. \A i \in Issued : i # id => Stage(i)' = Stage(i)
  BY <1>1 DEF KeepsStages
<1>10. OnThePathOf(new, id, "WaitingForResponse", source)
  BY <1>2 DEF OnThePathOf, AwaitedEvents, PathTypes
<1>11. /\ ChannelIds' = ChannelIds
       /\ channels'[c].queued_requests = queue
       /\ ~channels'[c].service_in_progress
       /\ channels'[c].service_start_scheduled = waiting
       /\ \A d \in ChannelIds : QueueOf(d)' = QueueOf(d)
       /\ \A d \in ChannelIds : d # c => channels'[d] = channels[d]
  <2>1. /\ ChannelIds' = ChannelIds
        /\ channels'[c].queued_requests = queue
        /\ channels'[c].service_in_progress = FALSE
        /\ channels'[c].service_start_scheduled =
             (channels[c].service_start_scheduled \/ waiting)
        /\ \A d \in ChannelIds : d # c => channels'[d] = channels[d]
    BY <1>1 DEF ChannelBecomes
  <2>2. channels'[c].service_start_scheduled = waiting
    BY <1>0, <1>4, <2>1, Zenon
  <2>3. \A d \in ChannelIds : QueueOf(d)' = QueueOf(d)
    BY <1>0, <2>1 DEF QueueOf
  <2> QED BY <2>1, <2>2, <2>3
<1>12. waiting => head \in Issued /\ ChannelOf(head) = c /\ ChannelOf(head)' = c
  <2> SUFFICES ASSUME waiting PROVE head \in Issued /\ ChannelOf(head) = c /\ ChannelOf(head)' = c
    OBVIOUS
  <2>0. queue # <<>>
    BY <1>0
  <2>1. 1 \in 1 .. Len(queue) /\ head = queue[1] /\ head \in Issued
    BY <1>0, <1>4, <2>0
  <2>2. ChannelOf(head) = c
    BY <1>0, <1>4, <2>1 DEF RequestPathInv, QueuedAtMostOnce
  <2> QED BY <1>1, <2>1, <2>2 DEF KeepsRequests
<1> HIDE DEF id
<1>13. HeldAtMostOnce'
  <2> HIDE DEF new
  <2> QED BY <1>1, <1>3, <1>6, <1>8, <1>9, <1>10, HeldStep
<1>14. QueuedAtMostOnce'
  <2>1. ASSUME NEW d \in ChannelIds
        PROVE  \E k \in {0, 1} :
                 /\ Len(QueueOf(d)') = Len(QueueOf(d)) - k
                 /\ \A i \in 1 .. Len(QueueOf(d)) - k :
                      QueueOf(d)'[i] = QueueOf(d)[i + k] /\ QueueOf(d)[i + k] # id
    <3>1. QueueOf(d) \in Seq(Issued)
      BY Referents DEF RequestPathInv
    <3>2. Len(QueueOf(d)) \in Nat /\ QueueOf(d)' = QueueOf(d)
      BY <1>11, <3>1
    <3>3. /\ Len(QueueOf(d)') = Len(QueueOf(d)) - 0
          /\ \A i \in 1 .. Len(QueueOf(d)) - 0 :
               QueueOf(d)'[i] = QueueOf(d)[i + 0] /\ QueueOf(d)[i + 0] # id
      BY <1>6, <3>2
    <3> QED BY <3>3
  <2>2. \A r \in new : r.type \in PathTypes => r.request_id = id
    BY <1>10 DEF OnThePathOf
  <2>3. KeepsRequests /\ ChannelIds' = ChannelIds
    BY <1>1, <1>11
  <2> HIDE DEF new
  <2> QED BY <1>3, <1>9, <2>1, <2>2, <2>3, QueuedStep
<1>15. \A f : f \in PendingOf("MemoryServiceStart")' <=>
         f \in PendingOf("MemoryServiceStart") \/ (f = q /\ waiting)
  BY <1>2, <1>3, ServiceEvents DEF PendingOf
<1>16. \A f : f \in PendingOf("MemoryServiceComplete")' <=>
         f \in PendingOf("MemoryServiceComplete") /\ f # e
  BY <1>2, <1>3, ServiceEvents DEF PendingOf
<1>17. \A type \in {"MemoryServiceStart", "MemoryServiceComplete"} :
         \A f \in PendingOf(type) : /\ ChannelOf(f.request_id)' = ChannelOf(f.request_id)
                                    /\ ChannelOf(f.request_id) \in ChannelIds
  BY <1>1, Referents DEF RequestPathInv, KeepsRequests, PendingOf
<1>18. waiting => q.request_id = head /\ ChannelOf(q.request_id)' = c
  BY <1>2, <1>12
<1>19. StartsAreAnnounced'
  <2>1. \A f, g \in PendingOf("MemoryServiceStart")' :
          ChannelOf(f.request_id)' = ChannelOf(g.request_id)' => f = g
    BY <1>4, <1>15, <1>17, <1>18 DEF RequestPathInv, StartsAreAnnounced
  <2>2. ASSUME NEW f \in PendingOf("MemoryServiceStart")', NEW d, d = ChannelOf(f.request_id)'
        PROVE  /\ channels'[d].service_start_scheduled
               /\ channels'[d].queued_requests # <<>>
               /\ f.request_id = Head(channels'[d].queued_requests)
    <3>1. CASE f = q /\ waiting
      <4>1. d = c /\ f.request_id = head
        BY <1>18, <2>2, <3>1
      <4> QED BY <1>0, <1>11, <3>1, <4>1
    <3>2. CASE f \in PendingOf("MemoryServiceStart")
      <4>1. d \in ChannelIds /\ d # c /\ d = ChannelOf(f.request_id)
        BY <1>4, <1>17, <2>2, <3>2
      <4> QED BY <1>11, <3>2, <4>1 DEF RequestPathInv, StartsAreAnnounced
    <3> QED BY <1>15, <3>1, <3>2
  <2>3. ASSUME NEW d \in ChannelIds', channels'[d].service_start_scheduled
        PROVE  \E f \in PendingOf("MemoryServiceStart")' : ChannelOf(f.request_id)' = d
    <3>1. CASE d = c
      BY <1>11, <1>15, <1>18, <2>3, <3>1
    <3>2. CASE d # c
      <4>1. PICK f \in PendingOf("MemoryServiceStart") : ChannelOf(f.request_id) = d
        BY <1>11, <2>3, <3>2 DEF RequestPathInv, StartsAreAnnounced
      <4> QED BY <1>15, <1>17, <4>1
    <3> QED BY <3>1, <3>2
  <2> QED BY <2>1, <2>2, <2>3 DEF StartsAreAnnounced
<1>20. ServicesAreAnnounced'
  <2>1. \A f, g \in PendingOf("MemoryServiceComplete")' :
          ChannelOf(f.request_id)' = ChannelOf(g.request_id)' => f = g
    BY <1>16, <1>17 DEF RequestPathInv, ServicesAreAnnounced
  <2>2. ASSUME NEW f \in PendingOf("MemoryServiceComplete")', NEW d, d = ChannelOf(f.request_id)'
        PROVE  channels'[d].service_in_progress
    <3>1. d \in ChannelIds /\ d # c /\ d = ChannelOf(f.request_id)
          /\ f \in PendingOf("MemoryServiceComplete")
      BY <1>4, <1>16, <1>17, <2>2
    <3> QED BY <1>11, <3>1 DEF RequestPathInv, ServicesAreAnnounced
  <2>3. ASSUME NEW d \in ChannelIds
        PROVE  /\ ~(channels'[d].service_start_scheduled /\ channels'[d].service_in_progress)
               /\ QueueOf(d)' # <<>> => channels'[d].service_start_scheduled
                                          \/ channels'[d].service_in_progress
    <3>1. CASE d = c
      BY <1>0, <1>11, <3>1
    <3>2. CASE d # c
      BY <1>11, <3>2 DEF RequestPathInv, ServicesAreAnnounced
    <3> QED BY <3>1, <3>2
  <2> QED BY <1>11, <2>1, <2>2, <2>3 DEF ServicesAreAnnounced
<1>21. AnsweredWhenCompleted' /\ OutstandingCountsUnfinished' /\ NoErrorThrown'
  BY <1>1, AnswersKept, CountsKept DEF RequestPathInv, NoErrorThrown
<1> QED BY <1>13, <1>14, <1>19, <1>20, <1>21 DEF RequestPathInv

-----------------------------------------------------------------------------
(* The invariant, and what it says of every run *)

\* A completion is of a request that its node counts.
LEMMA CompletionIsCounted ==
  ASSUME RequestPathInv, NEW e \in sched.events, e.target_id \in Nodes,
         e.type \in {"LocalCacheHitComplete", "ReturnResponse"}
  PROVE  compute_nodes[e.target_id].outstanding_requests # 0
<1> DEFINE n == e.target_id
<1>1. e.type \in PathTypes /\ e.type \in ComputeEventTypes
  BY DEF PathTypes, ComputeEventTypes
<1>2. e.request_id \in OpenAt(n)
  BY <1>1, HeldByAlone DEF OpenAt
<1>3. IsFiniteSet(OpenAt(n))
  BY OpenFinite DEF RequestPathInv
<1>4. Cardinality(OpenAt(n)) # 0
  BY <1>2, <1>3, FS_EmptySet
<1> QED BY <1>4 DEF RequestPathInv, OutstandingCountsUnfinished, OpenAt, SourceOf

\* A simulator that was just constructed holds no request.
LEMMA PathInit == Init => RequestPathInv
<1> SUFFICES ASSUME Init PROVE RequestPathInv
  OBVIOUS
<1>1. /\ sched.events = {} /\ Issued = {} /\ responses = <<>> /\ status = "constructed"
      /\ channels = [c \in ChannelIds |-> NewChannel]
      /\ compute_nodes = [n \in Nodes |-> NewComputeNode]
  BY DEF Init, EmptyScheduler, Issued
<1>2. PathEvents = {} /\ \A type : PendingOf(type) = {}
  BY <1>1 DEF PathEvents, PendingOf
<1>3. Unfinished = {}
  BY <1>1 DEF Unfinished
<1>4. HeldAtMostOnce
  BY <1>2 DEF HeldAtMostOnce
<1>5. \A c \in ChannelIds : /\ QueueOf(c) = <<>>
                            /\ ~channels[c].service_start_scheduled
                            /\ ~channels[c].service_in_progress
  BY <1>1 DEF QueueOf, NewChannel
<1>6. QueuedAtMostOnce
  BY <1>5 DEF QueuedAtMostOnce
<1>7. StartsAreAnnounced /\ ServicesAreAnnounced
  BY <1>2, <1>5 DEF StartsAreAnnounced, ServicesAreAnnounced
<1>8. AnsweredWhenCompleted /\ NoErrorThrown
  BY <1>1 DEF AnsweredWhenCompleted, NoErrorThrown
<1>9. OutstandingCountsUnfinished
  <2>1. \A n : {id \in Unfinished : request_table[id].source_node_id = n} = {}
    BY <1>3
  <2> QED BY <1>1, <2>1, FS_EmptySet DEF OutstandingCountsUnfinished, NewComputeNode
<1> QED BY <1>4, <1>6, <1>7, <1>8, <1>9, InitEstablishes DEF RequestPathInv

\* The release at the start of run() only adds GenerateRequest events.
LEMMA PathRun ==
  ASSUME RequestPathInv, SimulatorInv', Run
  PROVE  RequestPathInv'
<1>1. UNCHANGED <<config, compute_nodes, channels, responses, request_table, next_request_id>>
      /\ status' = "running" /\ ReleaseNextEpochIfReady(sched)
  BY DEF Run
<1>2. \A f : f.type # "GenerateRequest" => (f \in sched'.events <=> f \in sched.events)
  <2>1. /\ AcceptedConfig(config) /\ compute_nodes' \in NodeStates
        /\ QueueOK(sched, Issued)
    BY Referents, <1>1 DEF RequestPathInv, SimulatorInv, TypeOK, EventQueueIsSound
  <2>2. CASE sched' = sched
    BY <2>2
  <2>3. CASE ReadyToRelease(sched, compute_nodes')
             /\ \A f \in sched'.events : f.type = "GenerateRequest"
    BY <2>3 DEF ReadyToRelease
  <2> QED BY <1>1, <2>1, <2>2, <2>3, ReleaseCases
<1>3. /\ PathEvents' = PathEvents
      /\ \A type \in {"MemoryServiceStart", "MemoryServiceComplete"} :
           PendingOf(type)' = PendingOf(type)
  BY <1>2 DEF PathEvents, PathTypes, PendingOf
<1>4. /\ Issued' = Issued /\ Unfinished' = Unfinished /\ KeepsRequests
      /\ \A id \in Issued : Stage(id)' = Stage(id)
  BY <1>1, TableKept
<1>5. HeldAtMostOnce'
  BY <1>1, <1>3 DEF RequestPathInv, HeldAtMostOnce, Stage, SourceOf
<1>6. QueuedAtMostOnce'
  BY <1>1, <1>3 DEF RequestPathInv, QueuedAtMostOnce, QueueOf, Stage, ChannelOf, channel_for,
     ChannelIds
<1>7. StartsAreAnnounced' /\ ServicesAreAnnounced'
  BY <1>1, <1>3 DEF RequestPathInv, StartsAreAnnounced, ServicesAreAnnounced, QueueOf,
     ChannelOf, channel_for, ChannelIds
<1>8. AnsweredWhenCompleted' /\ OutstandingCountsUnfinished' /\ NoErrorThrown'
  BY <1>1, <1>4, AnswersKept, CountsKept DEF NoErrorThrown
<1> QED BY <1>5, <1>6, <1>7, <1>8 DEF RequestPathInv

\* A GenerateRequest for a node without a next request only leaves the queue.
NothingToIssueEffect(e) ==
  /\ ~has_next(compute_nodes, e.target_id)
  /\ UNCHANGED <<status, config, compute_nodes, channels, responses,
                 request_table, next_request_id>>
  /\ Leaves(e, {})

\* The handler of e had its effect, and did not throw.
HandlerEffect(e) ==
  \/ e.type = "GenerateRequest" /\ NothingToIssueEffect(e)
  \/ e.type = "GenerateRequest" /\ has_next(compute_nodes, e.target_id) /\ IssueEffect(e)
  \/ e.type = "LocalCacheLookup" /\ LookupEffect(e)
  \/ e.type \in {"LocalCacheHitComplete", "ReturnResponse"} /\ CompleteEffect(e)
  \/ e.type = "RequestComplete" /\ RequestCompleteEffect(e)
  \/ e.type = "ForwardToMemory" /\ ForwardEffect(e)
  \/ e.type = "MemoryServiceStart" /\ ServiceStartEffect(e)
  \/ e.type = "MemoryServiceComplete" /\ ServiceCompleteEffect(e)

\* A generate event issues a request or, at the end of the stream, does nothing.
LEMMA GenerateHasEffect ==
  ASSUME SimulatorInv, NEW e \in sched.events, handle_generate_request(e)
  PROVE  HandlerEffect(e)
<1>1. Dispatch(e, "GenerateRequest", Nodes) /\ UNCHANGED <<channels, responses>>
  BY DEF handle_generate_request
<1>2. e.type = "GenerateRequest" /\ QueueOK(Popped(e), Issued) /\ Popped(e).current_time = e.time
  BY <1>1, DispatchFacts
<1>3. CASE has_next(compute_nodes, e.target_id)
  BY <1>1, <1>2, <1>3, IssueHasEffect DEF handle_generate_request, HandlerEffect
<1>4. CASE ~has_next(compute_nodes, e.target_id)
  <2>1. UNCHANGED <<next_request_id, request_table, compute_nodes>> /\ Return(Popped(e))
    BY <1>4 DEF handle_generate_request
  <2>2. Issued' = Issued
    BY <2>1 DEF Issued
  <2>3. Popped(e).events = (sched.events \ {e}) \cup {}
    BY PoppedEvents
  <2>4. Leaves(e, {})
    BY <1>2, <2>1, <2>2, <2>3 DEF Leaves
  <2>5. UNCHANGED <<status, config>>
    BY <2>1 DEF Return
  <2> QED BY <1>1, <1>2, <1>4, <2>1, <2>4, <2>5 DEF NothingToIssueEffect, HandlerEffect
<1> QED BY <1>3, <1>4

\* No handler throws: a step of the loop is a handler and its effect.
LEMMA StepHasEffect ==
  ASSUME RequestPathInv, NEW e \in sched.events, MemoryStep(e) \/ ComputeStep(e)
  PROVE  status = "running" /\ IsNext(sched, e) /\ HandlerEffect(e)
<1>1. SimulatorInv
  BY DEF RequestPathInv
<1>2. CASE handle_generate_request(e)
  BY <1>1, <1>2, GenerateHasEffect DEF handle_generate_request, Dispatch
<1>3. CASE handle_local_cache_lookup(e)
  BY <1>1, <1>3, LookupHasEffect DEF handle_local_cache_lookup, Dispatch, HandlerEffect
<1>4. CASE handle_local_cache_hit_complete(e)
  <2>1. /\ Dispatch(e, "LocalCacheHitComplete", Nodes) /\ Complete(e, "LocalCache", 0)
        /\ UNCHANGED <<next_request_id, channels>>
    BY <1>4 DEF handle_local_cache_hit_complete
  <2>2. /\ e.type = "LocalCacheHitComplete" /\ e.target_id \in Nodes
        /\ status = "running" /\ IsNext(sched, e)
    BY <2>1 DEF Dispatch
  <2>3. compute_nodes[e.target_id].outstanding_requests # 0
    BY <2>2, CompletionIsCounted
  <2> QED BY <1>1, <2>1, <2>2, <2>3, CompleteHasEffect DEF HandlerEffect
<1>5. CASE handle_return_response(e)
  <2> DEFINE bytes == request_table[e.request_id].size_bytes
  <2>1. /\ Dispatch(e, "ReturnResponse", Nodes) /\ Complete(e, "Memory", bytes)
        /\ UNCHANGED <<next_request_id, channels>>
    BY <1>5 DEF handle_return_response
  <2>2. /\ e.type = "ReturnResponse" /\ e.target_id \in Nodes
        /\ status = "running" /\ IsNext(sched, e)
    BY <2>1 DEF Dispatch
  <2>3. compute_nodes[e.target_id].outstanding_requests # 0
    BY <2>2, CompletionIsCounted
  <2> HIDE DEF bytes
  <2> QED BY <1>1, <2>1, <2>2, <2>3, CompleteHasEffect DEF HandlerEffect
<1>6. CASE handle_request_complete(e)
  BY <1>1, <1>6, RequestCompleteHasEffect DEF handle_request_complete, Dispatch, HandlerEffect
<1>7. CASE MemoryStep(e)
  <2>1. MemoryFrame
    BY <1>7 DEF MemoryStep, MemoryFrame
  <2>2. CASE handle_forward_to_memory(e)
    BY <1>1, <2>1, <2>2, ForwardHasEffect DEF handle_forward_to_memory, Dispatch, HandlerEffect
  <2>3. CASE handle_memory_service_start(e)
    <3>1. e.type = "MemoryServiceStart" /\ status = "running" /\ IsNext(sched, e)
      BY <2>3 DEF handle_memory_service_start, Dispatch
    <3>2. /\ QueueOf(ChannelOf(e.request_id)) # <<>>
          /\ Head(QueueOf(ChannelOf(e.request_id))) = e.request_id
      BY <3>1, StartFindsHead
    <3> QED BY <1>1, <2>1, <2>3, <3>1, <3>2, ServiceStartHasEffect DEF HandlerEffect
  <2>4. CASE handle_memory_service_complete(e)
    <3>1. e.type = "MemoryServiceComplete" /\ status = "running" /\ IsNext(sched, e)
      BY <2>4 DEF handle_memory_service_complete, Dispatch
    <3>2. channels[ChannelOf(e.request_id)].service_in_progress
      BY <3>1, CompletionFindsService
    <3> QED BY <1>1, <2>1, <2>4, <3>1, <3>2, ServiceCompleteHasEffect DEF HandlerEffect
  <2> QED BY <1>7, <2>2, <2>3, <2>4 DEF MemoryStep
<1> QED BY <1>2, <1>3, <1>4, <1>5, <1>6, <1>7 DEF ComputeStep

\* Every step keeps the invariant.
LEMMA PathNext == RequestPathInv /\ [Next]_vars => RequestPathInv'
<1> SUFFICES ASSUME RequestPathInv, [Next]_vars PROVE RequestPathInv'
  OBVIOUS
<1>1. SimulatorInv'
  BY NextPreserves DEF RequestPathInv
<1>2. CASE Run
  BY <1>1, <1>2, PathRun
<1>3. ASSUME NEW e \in sched.events, MemoryStep(e) \/ ComputeStep(e)
      PROVE  RequestPathInv'
  <2>1. HandlerEffect(e)
    BY <1>3, StepHasEffect
  <2>2. CASE e.type = "GenerateRequest" /\ NothingToIssueEffect(e)
    <3> DEFINE new == {}
    <3>1. \A g \in new : g.type = "GenerateRequest"
      OBVIOUS
    <3>2. Leaves(e, new)
      BY <2>2 DEF NothingToIssueEffect
    <3> HIDE DEF new
    <3> QED BY <1>1, <2>2, <3>1, <3>2, QuietStep DEF NothingToIssueEffect
  <2>3. CASE e.type = "RequestComplete" /\ RequestCompleteEffect(e)
    <3>1. PICK g \in Event, more \in BOOLEAN :
            g.type = "GenerateRequest" /\ Leaves(e, IF more THEN {g} ELSE {})
      <4> DEFINE more == ~bursty /\ NextIsOfEpoch(compute_nodes, e.target_id,
                           compute_nodes[e.target_id].current_epoch)
      <4>1. more \in BOOLEAN
        OBVIOUS
      <4>2. \E g \in Event :
              g.type = "GenerateRequest" /\ Leaves(e, IF more THEN {g} ELSE {})
        BY <2>3 DEF RequestCompleteEffect
      <4> HIDE DEF more
      <4> QED BY <4>1, <4>2
    <3> DEFINE new == IF more THEN {g} ELSE {}
    <3>2. (\A h \in new : h.type = "GenerateRequest") /\ Leaves(e, new)
      BY <3>1
    <3> HIDE DEF new
    <3> QED BY <1>1, <2>3, <3>2, QuietStep DEF RequestCompleteEffect
  <2> QED BY <1>1, <2>1, <2>2, <2>3, IssueStep, LookupStep, CompleteStep, ForwardStep,
             ServiceStartStep, ServiceCompleteStep DEF HandlerEffect
<1>4. CASE UNCHANGED vars
  <2>1. /\ PathEvents' = PathEvents
        /\ \A type \in {"MemoryServiceStart", "MemoryServiceComplete"} :
             PendingOf(type)' = PendingOf(type)
    BY <1>4 DEF vars, PathEvents, PendingOf
  <2>2. UNCHANGED <<status, config, compute_nodes, channels, responses, request_table,
                    next_request_id>>
    BY <1>4 DEF vars
  <2>3. /\ Issued' = Issued /\ Unfinished' = Unfinished /\ KeepsRequests
    BY <2>2, TableKept
  <2>4. HeldAtMostOnce'
    BY <2>1, <2>2 DEF RequestPathInv, HeldAtMostOnce, Stage, SourceOf
  <2>5. QueuedAtMostOnce'
    BY <2>1, <2>2 DEF RequestPathInv, QueuedAtMostOnce, QueueOf, Stage, ChannelOf,
       channel_for, ChannelIds
  <2>6. StartsAreAnnounced' /\ ServicesAreAnnounced'
    BY <2>1, <2>2 DEF RequestPathInv, StartsAreAnnounced, ServicesAreAnnounced, QueueOf,
       ChannelOf, channel_for, ChannelIds
  <2>7. AnsweredWhenCompleted' /\ OutstandingCountsUnfinished' /\ NoErrorThrown'
    BY <2>2, <2>3, AnswersKept, CountsKept DEF RequestPathInv, NoErrorThrown
  <2> QED BY <1>1, <2>4, <2>5, <2>6, <2>7 DEF RequestPathInv
<1> QED BY <1>2, <1>3, <1>4 DEF Next, Finished

\* The invariant of the request path holds in every reachable state.
LEMMA PathInvariance == Spec => []RequestPathInv
BY PathInit, PathNext, PTL DEF Spec

\* outstanding_requests_ is exact in every reachable state, even when events are
\* refused at the end of the SimTime range: the epoch barrier may rest on it.
THEOREM OutstandingIsExact == Spec => []OutstandingCountsUnfinished
BY PathInvariance, PTL DEF RequestPathInv

\* None of the logic_errors of the handlers is ever thrown: a service starts
\* with its request at the head of the queue, completes in a busy channel, and
\* no outstanding count is decremented at zero.
THEOREM HandlersNeverThrow == Spec => []NoErrorThrown
BY PathInvariance, PTL DEF RequestPathInv

\* No request is held by two pending events, or by an event and a queue, or
\* queued twice; and one is answered at most once, exactly when it completes.
THEOREM NoRequestIsDuplicated ==
  Spec => [](HeldAtMostOnce /\ QueuedAtMostOnce /\ AnsweredWhenCompleted)
BY PathInvariance, PTL DEF RequestPathInv
=============================================================================
