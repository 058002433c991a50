------------------------------- MODULE Stats --------------------------------
(***************************************************************************)
(* Measurement state (metrics/stats.cpp).  Counters that the code keeps    *)
(* both globally and per node are kept once, per node; averages and        *)
(* totals are what the getters derive from the samples.                    *)
(***************************************************************************)
EXTENDS SimTypes, FiniteSetsExt

VARIABLE stats

ChannelBucket ==
  [remote_accesses |-> 0, max_queue_depth |-> 0, total_queue_wait |-> 0,
   queue_wait_samples |-> 0, max_queue_wait |-> 0,
   total_remote_service_time |-> 0, bytes_served |-> 0]

\* An object row also keeps its distinct requesters.
ObjectBucket ==
  [remote_accesses |-> 0, requesters |-> {}, max_queue_depth |-> 0,
   total_queue_wait |-> 0, queue_wait_samples |-> 0, max_queue_wait |-> 0,
   total_remote_service_time |-> 0, bytes_served |-> 0]

NewStats ==
  [latencies |-> [n \in Nodes |-> <<>>],
   local_cache_hits |-> [n \in Nodes |-> 0],
   local_cache_misses |-> [n \in Nodes |-> 0],
   memory_waits |-> <<>>, peak_memory_queue_depth |-> 0,
   contention_by_epoch |-> <<>>, channel_contention_by_epoch |-> <<>>]

AtLeast(a, b) == IF a < b THEN b ELSE a

record_latency(st, n, latency) ==
  [st EXCEPT !.latencies[n] = Append(@, latency)]

record_cache_hit(st, n) == [st EXCEPT !.local_cache_hits[n] = @ + 1]
record_cache_miss(st, n) == [st EXCEPT !.local_cache_misses[n] = @ + 1]

\* contention_bucket and channel_bucket: the (epoch, object) and the
\* (epoch, channel) row of a request, created on first use.
contention_bucket(st, r) ==
  FindOr(st.contention_by_epoch, <<r.epoch_id, r.object_id>>, ObjectBucket)
channel_bucket(st, r, channel) ==
  FindOr(st.channel_contention_by_epoch, <<r.epoch_id, channel>>, ChannelBucket)

\* The two rows of a request are updated together.
UpdateBuckets(st, r, channel, object_row, channel_row) ==
  [st EXCEPT
     !.contention_by_epoch = Assign(@, <<r.epoch_id, r.object_id>>, object_row),
     !.channel_contention_by_epoch =
       Assign(@, <<r.epoch_id, channel>>, channel_row)]

observe_memory_queue_depth(st, depth) ==
  [st EXCEPT !.peak_memory_queue_depth = AtLeast(@, depth)]

record_remote_access(st, r, channel, depth) ==
  LET Count(b) == [b EXCEPT !.remote_accesses = @ + 1,
                            !.max_queue_depth = AtLeast(@, depth)]
      Requested(b) == [b EXCEPT !.requesters = @ \cup {r.source_node_id}]
  IN UpdateBuckets(st, r, channel, Requested(Count(contention_bucket(st, r))),
                   Count(channel_bucket(st, r, channel)))

\* Mutant: the last wait replaces the ones before it.
record_last_wait(st, wait) == [st EXCEPT !.memory_waits = <<wait>>]

record_memory_wait(st, wait) == [st EXCEPT !.memory_waits = Append(@, wait)]

record_object_queue_wait(st, r, channel, wait) ==
  LET Wait(b) == [b EXCEPT !.total_queue_wait = @ + wait,
                           !.queue_wait_samples = @ + 1,
                           !.max_queue_wait = AtLeast(@, wait)]
  IN UpdateBuckets(st, r, channel, Wait(contention_bucket(st, r)),
                   Wait(channel_bucket(st, r, channel)))

\* Mutant: every service is booked on epoch 0.
record_service_at_start(st, r, channel, service_time) ==
  LET Serve(b) == [b EXCEPT !.total_remote_service_time = @ + service_time,
                            !.bytes_served = @ + r.size_bytes]
      first == [r EXCEPT !.epoch_id = 0]
  IN UpdateBuckets(st, first, channel, Serve(contention_bucket(st, first)),
                   Serve(channel_bucket(st, first, channel)))

record_object_service(st, r, channel, service_time) ==
  LET Serve(b) == [b EXCEPT !.total_remote_service_time = @ + service_time,
                            !.bytes_served = @ + r.size_bytes]
  IN UpdateBuckets(st, r, channel, Serve(contention_bucket(st, r)),
                   Serve(channel_bucket(st, r, channel)))

\* total_latency and total_memory_wait.
SumOf(f) == MapThenSumSet(LAMBDA x : f[x], DOMAIN f)
total_latency == SumOf([n \in Nodes |-> SumOf(stats.latencies[n])])
total_memory_wait == SumOf(stats.memory_waits)
=============================================================================
