----------------------------- MODULE Scheduler ------------------------------
(***************************************************************************)
(* The event scheduler (sim/scheduler.cpp): a clock and a priority queue   *)
(* of events ordered by (time, sequence).  A scheduler is a record, and    *)
(* each operation maps a scheduler to the scheduler it leaves behind, so   *)
(* that a handler that schedules twice composes two applications.          *)
(***************************************************************************)
EXTENDS SimTypes

ComputeEventTypes ==
  {"GenerateRequest", "LocalCacheLookup", "LocalCacheHitComplete",
   "ReturnResponse", "RequestComplete"}
MemoryEventTypes ==
  {"ForwardToMemory", "MemoryServiceStart", "MemoryServiceComplete"}
EventType == ComputeEventTypes \cup MemoryEventTypes

Targets == Nodes \cup {MemoryNodeId}

Event ==
  [time : SimTime, type : EventType, target_id : Targets,
   request_id : Nat, sequence : Nat]

SchedulerState ==
  [current_time : SimTime, next_sequence : Nat, events : SUBSET Event]

EmptyScheduler == [current_time |-> 0, next_sequence |-> 0, events |-> {}]

\* Event(time, type, target_id, request_id), before schedule stamps it.
MakeEvent(time, type, target, request) ==
  [time |-> time, type |-> type, target_id |-> target, request_id |-> request]

Stamp(ev, sequence) ==
  [time |-> ev.time, type |-> ev.type, target_id |-> ev.target_id,
   request_id |-> ev.request_id, sequence |-> sequence]

\* Mutant: insertion order only.
BeforeBySequence(e, f) == e.sequence < f.sequence

\* Scheduler::EventCompare: e is handled before f.
Before(e, f) == \/ e.time < f.time
                \/ e.time = f.time /\ e.sequence < f.sequence

\* Mutant: an event at the present time is refused too.
scheduleLater(s, ev) ==
  IF ev.time <= s.current_time
  THEN s
  ELSE [current_time |-> s.current_time,
        next_sequence |-> s.next_sequence + 1,
        events |-> s.events \cup {Stamp(ev, s.next_sequence)}]

\* Mutant: the counter behind the sequence numbers stands still.
scheduleUnnumbered(s, ev) ==
  IF ev.time < s.current_time
  THEN s
  ELSE [current_time |-> s.current_time,
        next_sequence |-> s.next_sequence,
        events |-> s.events \cup {Stamp(ev, s.next_sequence)}]

\* Scheduler::schedule: an event in the past is refused, and nothing is
\* stamped; the callers ignore the result.
schedule(s, ev) ==
  IF ev.time < s.current_time
  THEN s
  ELSE [current_time |-> s.current_time,
        next_sequence |-> s.next_sequence + 1,
        events |-> s.events \cup {Stamp(ev, s.next_sequence)}]

\* Scheduler::pop_next: the least event leaves and the clock moves to it.
IsNext(s, e) == e \in s.events /\ \A f \in s.events \ {e} : Before(e, f)

pop_next(s, e) ==
  [current_time |-> e.time, next_sequence |-> s.next_sequence,
   events |-> s.events \ {e}]

\* A sound event queue: nothing pending is in the past, sequence numbers tell
\* events apart and are below the next one, and every event but a
\* GenerateRequest carries the id of a request in ids.
QueueOK(s, ids) ==
  /\ s \in SchedulerState
  /\ \A e \in s.events : e.time >= s.current_time
  /\ \A e \in s.events : e.sequence < s.next_sequence
  /\ \A e, f \in s.events : e.sequence = f.sequence => e = f
  /\ \A e \in s.events : e.type # "GenerateRequest" => e.request_id \in ids
=============================================================================
