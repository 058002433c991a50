----------------------------- MODULE MCHotSets ------------------------------
(* Instances of HotSets for TLC; Init keeps the configurations that           *)
(* validate_synthetic_workload_config accepts.  Churn is counted in quarters,  *)
(* which doubles hold exactly.                                                *)
EXTENDS HotSets

MCWorkload(object_counts, channel_counts, hot_channel_counts) ==
  [node_count : 1 .. 3, object_count : object_counts,
   memory_channel_count : channel_counts,
   hot_object_channel_count : hot_channel_counts,
   hot_set_size : 1 .. 3, epoch_count : {4},
   hot_set_mode : {"static", "epoch_shift"},
   hot_set_churn_fraction : {0, 1, 2, 4},
   cross_node_overlap : {"low", "medium", "high"}]

\* Hot objects anywhere among three or six, and among eight on one or two
\* channels of four.
MCWorkloads ==
  MCWorkload({3, 6}, {1}, {0}) \cup MCWorkload({8}, {4}, {1, 2})
=============================================================================
