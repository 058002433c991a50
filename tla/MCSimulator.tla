---------------------------- MODULE MCSimulator -----------------------------
(***************************************************************************)
(* Instances of the simulator for TLC.  The simulator is deterministic, so *)
(* what the runs explore is the choice of configuration: every workload    *)
(* over a few objects, on several latencies, channel counts and policies.  *)
(***************************************************************************)
EXTENDS Viability, Workload

Sizes == <<1, 2, 2>>     \* bytes of objects 1, 2 and 3

\* The weights and thresholds of the code's defaults, with a cost density.
Weights == [local_hotness |-> Unit, remote_access |-> Unit,
            distinct_requester |-> 3 * (Unit \div 2), queue_wait |-> 2 * Unit,
            remote_service_time |-> Unit, size_penalty |-> Unit \div 2,
            cost_density |-> Unit]

Contention(variant, reset, window) ==
  [weights |-> Weights, variant |-> variant, min_admit_score |-> Unit,
   local_hotness_threshold |-> 2, reset_on_epoch_change |-> reset,
   telemetry_history_epochs |-> 2, telemetry_decay |-> Unit \div 2,
   local_reuse_gate_threshold |-> 2, local_confirmation_window_epochs |-> window,
   local_confirmation_bypass_score_margin |-> 3 * Unit,
   eviction_score_margin |-> Unit \div 2]

Policy(type, mode, min) ==
  [type |-> type, history |-> mode, min |-> min,
   contention |-> Contention("v1", TRUE, 2)]
Lru == Policy("lru", "cumulative", 1)
AlwaysRemote == Policy("always_remote", "cumulative", 1)
GlobalHottest == Policy("global_hottest", "cumulative", 1)
ContentionAware(variant, reset, window) ==
  [type |-> "contention_aware", history |-> "cumulative", min |-> 1,
   contention |-> Contention(variant, reset, window)]
Hotness(min) == {Policy("hotness_only", mode, min) : mode \in HistoryModes}

Hardware(link, hit, base, count, capacity) ==
  [link |-> link, hit |-> hit, base |-> base, channels |-> count,
   capacity |-> capacity]

Slow == Hardware(1, 1, 1, 2, 3)
Instant == Hardware(0, 0, 0, 1, 3)
Narrow == Hardware(1, 0, 1, 1, 1)    \* objects 2 and 3 are too large to cache

Configure(hw, policy, mode, synthetic, streams) ==
  [one_way_link_latency |-> hw.link, memory_base_latency |-> hw.base,
   memory_bandwidth |-> 2, memory_channel_count |-> hw.channels,
   synthetic |-> synthetic, issue_mode |-> mode, policy_type |-> policy.type,
   capacity_bytes |-> hw.capacity, hit_latency |-> hw.hit,
   history_mode |-> policy.history, history_window_epochs |-> 1,
   min_admit_count |-> policy.min, contention |-> policy.contention,
   compute_nodes |-> streams]

-----------------------------------------------------------------------------
(* Explicit streams: an object and an epoch per request, no offsets. *)

ExplicitStream(objects, epochs) ==
  [i \in DOMAIN objects |->
     [object_id |-> objects[i], size_bytes |-> Sizes[objects[i]],
      epoch_id |-> epochs[i], scheduled_issue_offset |-> 0]]

Explicit(hw, policy, streams) ==
  Configure(hw, policy, "completion_driven", FALSE, streams)

\* Two nodes and two epochs; the second node has less of the first one.
StaggeredStreams(objects) ==
  {<<ExplicitStream(a, <<0, 0, 1>>), ExplicitStream(b, <<0, 1, 1>>)>> :
     a \in [1 .. 3 -> objects], b \in [1 .. 3 -> objects]}

\* Epochs that only one node takes part in, and a node without work.
SparseStreams(objects) ==
  {<<ExplicitStream(a, <<0, 2, 2>>), ExplicitStream(b, <<1, 4>>)>> :
     a \in [1 .. 3 -> objects], b \in [1 .. 2 -> objects]}
  \cup {<<ExplicitStream(a, <<0, 0, 3, 3>>), <<>> >> : a \in [1 .. 4 -> objects]}

\* One node whose cache is too small for its objects, over two epochs.
OneNodeStreams ==
  {<<ExplicitStream(a, <<0, 0, 0, 0, 1, 1>>), <<>> >> : a \in [1 .. 6 -> 1 .. 3]}

-----------------------------------------------------------------------------
(* Generated streams: two epochs of as many requests, in bursts of two. *)

Bursts == [burst_size |-> 2, burst_interval |-> 2, intra_burst_gap |-> 1,
           node_phase_jitter |-> 1]

ASSUME validate_burst_config("scheduled_bursty", Bursts)
         /\ Bursts \in BurstConfig

GeneratedStreams(mode, first, second) ==
  {<<NodeStream(mode, Bursts, <<0, jitter>>, Sizes, <<a, second>>),
     NodeStream(mode, Bursts, <<jitter, 0>>, Sizes, <<b, second>>)>> :
     a \in first, b \in first, jitter \in 0 .. Bursts.node_phase_jitter}

Generated(hw, policies, mode, first, second) ==
  {Configure(hw, p, mode, TRUE, s) :
     p \in policies, s \in GeneratedStreams(mode, first, second)}

-----------------------------------------------------------------------------
(* The configurations of each run. *)

PathConfigs ==
  {Explicit(hw, Lru, s) : hw \in {Slow, Instant}, s \in StaggeredStreams(1 .. 2)}
  \cup Generated(Slow, {Lru}, "scheduled_bursty", [1 .. 3 -> {1, 3}], <<3, 1, 1>>)
  \cup Generated(Instant, {Lru}, "scheduled_bursty", [1 .. 3 -> {1, 3}], <<3, 1, 1>>)

EpochConfigs ==
  {Explicit(hw, Lru, s) : hw \in {Slow, Instant}, s \in SparseStreams(1 .. 2)}
  \cup Generated(Slow, {AlwaysRemote}, "scheduled_bursty",
                 [1 .. 3 -> {1, 3}], <<1, 2, 3>>)

CacheConfigs ==
  {Explicit(Instant, p, s) : p \in {Lru} \cup Hotness(1), s \in OneNodeStreams}
  \cup {Explicit(Slow, p, s) :
          p \in Hotness(2), s \in {t \in OneNodeStreams : t[1][1].object_id = 1}}

\* Windows of two and three epochs, from which at times one epoch expires, at times
\* all, over epochs of which the first node skips one.
WindowConfigs ==
  {[Explicit(Slow, Policy("hotness_only", "windowed", 2), s)
      EXCEPT !.history_window_epochs = width] :
     width \in {2, 3},
     s \in {<<ExplicitStream(a, <<0, 0, 1, 3, 3, 4>>), ExplicitStream(<<1, 2>>, <<1, 2>>)>> :
              a \in [1 .. 6 -> 1 .. 2]}}

PolicyConfigs ==
  Generated(Slow, {Lru} \cup Hotness(1), "scheduled_bursty",
            [1 .. 3 -> {1, 3}], <<2, 1, 3>>)
  \cup Generated(Narrow, {Lru, GlobalHottest}, "scheduled_bursty",
                 [1 .. 3 -> 1 .. 2], <<2, 2, 1>>)
  \cup Generated(Slow, {GlobalHottest}, "completion_driven",
                 [1 .. 3 -> 1 .. 3], <<2, 3, 3>>)

\* Three epochs, so that telemetry of two earlier ones is blended.
ThreeEpochs(epoch, last) ==
  {<<ExplicitStream(a \o last, <<0, 0, 1, 1, 2, 2, 2>>),
     ExplicitStream(b \o last, <<0, 0, 1, 1, 2, 2, 2>>)>> :
     a \in [1 .. 4 -> epoch], b \in {<<1, 3, 3, 2>>, <<3, 3, 1, 1>>}}

ContentionConfigs ==
  {Explicit(Slow, ContentionAware(v, TRUE, 2), s) :
     v \in ContentionVariants, s \in ThreeEpochs({1, 2, 3}, <<2, 3, 2>>)}
  \cup {Explicit(Instant, ContentionAware("smoothed_reuse_gated", FALSE, 1), s) :
          s \in ThreeEpochs({2, 3}, <<1, 3, 3>>)}
  \cup Generated(Slow, {ContentionAware(v, FALSE, 1) : v \in ContentionVariants},
                 "scheduled_bursty", [1 .. 3 -> {1, 3}], <<3, 2, 3>>)

\* Everything the run loop does, and everything the caches do.
CoreConfigs == PathConfigs \cup EpochConfigs
CachingConfigs ==
  CacheConfigs \cup WindowConfigs \cup PolicyConfigs \cup ContentionConfigs

-----------------------------------------------------------------------------
(* Configurations that show a disagreement. *)

\* A burst in which one node asks for an object again before the first answer.
DuplicateConfigs ==
  Generated(Slow, {Lru}, "scheduled_bursty", {<<1, 1>>}, <<2, 3>>)

\* Bursts far apart: the offset of the third request wraps to the first one's.
FarBursts == [burst_size |-> 1, burst_interval |-> SimTimeRange \div 2,
              intra_burst_gap |-> 0, node_phase_jitter |-> 0]

ASSUME validate_burst_config("scheduled_bursty", FarBursts)
         /\ FarBursts \in BurstConfig

OverflowConfigs ==
  {Configure(Slow, Lru, "scheduled_bursty", TRUE,
     [n \in Nodes |-> NodeStream("scheduled_bursty", FarBursts, <<0>>, Sizes,
                                   <<a>>)]) : a \in [1 .. 3 -> 1 .. 2]}
=============================================================================
