------------------------------ MODULE MCSummary -----------------------------
(* Small telemetries for TLC: every sequence of up to five latencies with no  *)
(* contention, and every small table of contention with one sequence of       *)
(* latencies.                                                                 *)
EXTENDS MatrixSummary

ChannelRows(n) ==
  [1 .. n -> [max_queue_depth : {1, 2}, total_queue_wait : {0, 1, 3}]]

ObjectRows(n) ==
  [1 .. n -> {[remote_accesses |-> 1, total_queue_wait |-> 0, max_observed_queue_depth |-> 1],
              [remote_accesses |-> 2, total_queue_wait |-> 3, max_observed_queue_depth |-> 2]}]

ContendedTelemetries(n) ==
  [older : BOOLEAN, latencies : {<<>>, <<5, 0, 2>>}, per_node : {<<4>>, <<0, 5>>},
   objects : ObjectRows(n), channels : ChannelRows(n)]

MCTelemetries ==
  UNION {ContendedTelemetries(n) : n \in 0 .. 2}
    \cup [older : BOOLEAN, latencies : {<<5, 2>>}, per_node : {<<4, 2>>},
          objects : {<<>>}, channels : ChannelRows(3)]
    \cup [older : {FALSE}, latencies : UNION {[1 .. n -> {0, 1, 2, 5}] : n \in 0 .. 5},
          per_node : {<<3>>}, objects : {<<>>}, channels : {<<>>}]
=============================================================================
