----------------------------- MODULE MemoryNode -----------------------------
(***************************************************************************)
(* The memory node (nodes/memory_node.cpp): independent FIFO channels,     *)
(* each serving one request at a time.                                     *)
(***************************************************************************)
EXTENDS EventLoop, Stats

VARIABLES
  request_table,   \* request_table_ : the Request of every issued id
  channels         \* channels_[c] : one ChannelState per memory channel

ChannelState ==
  [queued_requests : Seq(Nat), service_in_progress : BOOLEAN,
   service_start_scheduled : BOOLEAN]

NewChannel ==
  [queued_requests |-> <<>>, service_in_progress |-> FALSE,
   service_start_scheduled |-> FALSE]

ChannelIds == 0 .. config.memory_channel_count - 1

channel_for(r) ==
  memory_channel_for_object(r.object_id, config.memory_channel_count)

\* base latency plus the size divided by the bandwidth, rounded up, in uint64.
service_time_for(r) ==
  Plus(config.memory_base_latency,
       Plus(r.size_bytes, config.memory_bandwidth - 1) \div config.memory_bandwidth)

ToMemory(time, type, request) == MakeEvent(time, type, MemoryNodeId, request)

\* Mutant: the test of the other flag is left out.
FreeUnlessScheduled(ch) == ~ch.service_start_scheduled

\* The channel needs a start: none is pending and nothing is in service.
ChannelFree(ch) == ~ch.service_in_progress /\ ~ch.service_start_scheduled

\* Mutant: behind the head of the queue, last in, first out.
EnqueueBehindHead(queue, id) ==
  IF queue = <<>> THEN <<id>> ELSE <<Head(queue), id>> \o Tail(queue)

Enqueue(queue, id) == Append(queue, id)

handle_forward_to_memory(e) ==
  LET r == request_table[e.request_id]
      c == channel_for(r)
      queue == Enqueue(channels[c].queued_requests, e.request_id)
      free == ChannelFree(channels[c])
  IN /\ Dispatch(e, "ForwardToMemory", {MemoryNodeId})
     /\ request_table' =
          [request_table EXCEPT ![e.request_id].memory_enqueue_time = e.time]
     /\ channels' = [channels EXCEPT ![c].queued_requests = queue,
                                     ![c].service_start_scheduled = @ \/ free]
     /\ stats' = record_remote_access(
                   observe_memory_queue_depth(stats, Len(queue)), r, c, Len(queue))
     /\ UNCHANGED compute_nodes
     /\ Return(IF free
               THEN schedule(Popped(e), ToMemory(e.time, "MemoryServiceStart", Head(queue)))
               ELSE Popped(e))

\* The two logic_errors of handle_memory_service_start.
ServiceStartError(queue, request) ==
  IF queue = <<>> THEN "Memory service started with empty queue"
  ELSE IF Head(queue) # request THEN "Memory service started out of FIFO order"
  ELSE "none"

handle_memory_service_start(e) ==
  LET r == request_table[e.request_id]
      c == channel_for(r)
      queue == channels[c].queued_requests
      error == ServiceStartError(queue, e.request_id)
      wait == e.time - r.memory_enqueue_time
  IN /\ Dispatch(e, "MemoryServiceStart", {MemoryNodeId})
     /\ IF error # "none"
        THEN Throw(e, error) /\ UNCHANGED <<request_table, channels, stats>>
        ELSE /\ channels' = [channels EXCEPT ![c] =
                  [queued_requests |-> Tail(queue), service_in_progress |-> TRUE,
                   service_start_scheduled |-> FALSE]]
             /\ request_table' = [request_table EXCEPT
                  ![e.request_id].current_stage = "WaitingForResponse"]
             /\ stats' = record_object_queue_wait(
                           record_memory_wait(stats, wait), r, c, wait)
             /\ UNCHANGED compute_nodes
             /\ Return(schedule(Popped(e),
                         ToMemory(Plus(e.time, service_time_for(r)),
                                  "MemoryServiceComplete", e.request_id)))

handle_memory_service_complete(e) ==
  LET r == request_table[e.request_id]
      c == channel_for(r)
      queue == channels[c].queued_requests
      scheduled == channels[c].service_start_scheduled
      returned == schedule(Popped(e),
                    MakeEvent(Plus(e.time, config.one_way_link_latency),
                              "ReturnResponse", r.source_node_id, e.request_id))
  IN /\ Dispatch(e, "MemoryServiceComplete", {MemoryNodeId})
     /\ IF ~channels[c].service_in_progress
        THEN /\ Throw(e, "Memory service completed without active request")
             /\ UNCHANGED <<channels, stats>>
        ELSE /\ channels' = [channels EXCEPT ![c] =
                  [queued_requests |-> queue, service_in_progress |-> FALSE,
                   service_start_scheduled |-> scheduled \/ queue # <<>>]]
             /\ stats' = record_object_service(stats, r, c, service_time_for(r))
             /\ UNCHANGED compute_nodes
             /\ Return(IF queue # <<>>
                       THEN schedule(returned,
                              ToMemory(e.time, "MemoryServiceStart", Head(queue)))
                       ELSE returned)
     /\ UNCHANGED request_table
=============================================================================
