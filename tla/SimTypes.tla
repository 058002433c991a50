------------------------------ MODULE SimTypes ------------------------------
(***************************************************************************)
(* Identifiers, request records and the configuration shared by every      *)
(* component of dm_simulator (sim/types.hpp, sim/event.hpp,                *)
(* model/request.hpp, model/response.hpp, sim/simulator.hpp).              *)
(***************************************************************************)
EXTENDS MemoryChannels, Sequences, FiniteSets

CONSTANTS
  NodeCount,     \* number of compute nodes; node n is the n-th of config order
  SimTimeRange,  \* number of values of SimTime (2^64 in the build)
  Configs        \* the SimulationConfig values a behaviour may start from

VARIABLE config   \* the SimulationConfig of this run, never changed

ASSUME CountAssumption == NodeCount \in Nat \ {0}
ASSUME RangeAssumption == SimTimeRange \in Nat \ {0}

Nodes == 1 .. NodeCount
MemoryNodeId == 0
NoEpoch == -1                  \* an empty std::optional<EpochId>
kInvalidRequestId == 0

SimTime == 0 .. SimTimeRange - 1

\* Unsigned addition of two SimTime (or uint64 size) values.
Plus(a, b) == (a + b) % SimTimeRange

RequestSpec == [object_id : Nat, size_bytes : SimTime, epoch_id : Nat,
                scheduled_issue_offset : SimTime]

RequestStage ==
  {"Generated", "LocalLookup", "ForwardedToMemory", "WaitingForResponse",
   "Completed"}

Request ==
  [request_id : Nat, source_node_id : Nodes, object_id : Nat,
   issue_time : SimTime, size_bytes : SimTime, epoch_id : Nat,
   current_stage : RequestStage, memory_enqueue_time : SimTime]

Response ==
  [request_id : Nat, served_from_tier : {"LocalCache", "Memory"},
   completion_time : SimTime, total_latency : SimTime,
   bytes_transferred : SimTime]

IssueModes == {"completion_driven", "scheduled_bursty"}
PolicyTypes ==
  {"always_remote", "lru", "hotness_only", "global_hottest", "contention_aware"}
HistoryModes == {"epoch", "windowed", "cumulative"}
ContentionVariants ==
  {"v1", "smoothed", "reuse_gated", "hysteresis", "smoothed_reuse_gated"}

\* Doubles are fixed-point numbers (see ContentionPolicy).
ContentionPolicyWeights ==
  [local_hotness : Int, remote_access : Int, distinct_requester : Int,
   queue_wait : Int, remote_service_time : Int, size_penalty : Int,
   cost_density : Int]

ContentionPolicyConfig ==
  [weights : ContentionPolicyWeights, variant : ContentionVariants,
   min_admit_score : Int, local_hotness_threshold : Nat,
   reset_on_epoch_change : BOOLEAN, telemetry_history_epochs : Nat,
   telemetry_decay : Nat, local_reuse_gate_threshold : Nat,
   local_confirmation_window_epochs : Nat,
   local_confirmation_bypass_score_margin : Int, eviction_score_margin : Int]

SimulationConfig ==
  [one_way_link_latency : SimTime, memory_base_latency : SimTime,
   memory_bandwidth : SimTime \ {0}, memory_channel_count : Nat \ {0},
   synthetic : BOOLEAN, issue_mode : IssueModes, policy_type : PolicyTypes,
   capacity_bytes : SimTime, hit_latency : SimTime,
   history_mode : HistoryModes, history_window_epochs : SimTime,
   min_admit_count : Nat, contention : ContentionPolicyConfig,
   compute_nodes : [Nodes -> Seq(RequestSpec)]]

\* validate_config: request streams are sorted by epoch_id, and the oracle
\* policy needs a generated workload.  (Node ids are unique and differ from the
\* memory node's by the choice of Nodes; explicit streams are always
\* completion-driven, and a generated one is as its config says.)
SortedByEpoch(stream) ==
  \A i \in 2 .. Len(stream) : stream[i - 1].epoch_id <= stream[i].epoch_id

validate_config(c) ==
  /\ c.policy_type = "global_hottest" => c.synthetic
  /\ c.issue_mode = "scheduled_bursty" => c.synthetic
  /\ \A n \in Nodes : SortedByEpoch(c.compute_nodes[n])

AcceptedConfig(c) == c \in SimulationConfig /\ validate_config(c)

ASSUME ConfigAssumption == \A c \in Configs : AcceptedConfig(c)

\* std::unordered_map operator[] assignment, and find() with a default.
Assign(f, k, v) == [x \in DOMAIN f \cup {k} |-> IF x = k THEN v ELSE f[x]]
FindOr(f, k, default) == IF k \in DOMAIN f THEN f[k] ELSE default
=============================================================================
