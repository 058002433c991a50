------------------------------- MODULE HotSets ------------------------------
(***************************************************************************)
(* The hot sets of synthetic workloads (generate_synthetic_workload in     *)
(* workloads/generators.cpp): epoch by epoch the loop lays out a segment   *)
(* that all nodes share and a private one per node, over the shuffled      *)
(* objects that live on hot channels.  Each step is one epoch.             *)
(* A churn fraction is a whole number of parts of one whole hot set.       *)
(***************************************************************************)
EXTENDS MemoryChannels, SequencesExt

CONSTANTS
  WorkloadConfigs,   \* the SyntheticWorkloadConfig values to generate from
  WholeHotSet        \* the parts of a churn fraction of 1.0

ASSUME WholeHotSetAssumption == WholeHotSet \in Nat \ {0}

VARIABLES
  workload,          \* the SyntheticWorkloadConfig, never changed
  candidates,        \* hot_object_candidates, never changed
  object_cursor,     \* where the next hot objects are taken from
  hot_set_segments,  \* the layout of the latest epoch
  epochs,            \* epochs[k] : hot_sets_by_node of the k-th epoch
  outcome            \* "generating", "generated", or what was thrown

SyntheticWorkloadConfig ==
  [node_count : Nat, object_count : Nat, memory_channel_count : Nat,
   hot_object_channel_count : Nat, hot_set_size : Nat, epoch_count : Nat,
   hot_set_mode : {"static", "epoch_shift"}, hot_set_churn_fraction : Nat,
   cross_node_overlap : {"low", "medium", "high"}]

shared_hot_object_count(w) ==
  CASE w.cross_node_overlap = "low" -> 0
    [] w.cross_node_overlap = "medium" -> w.hot_set_size \div 2
    [] w.cross_node_overlap = "high" -> w.hot_set_size

private_hot_object_count(w) == w.hot_set_size - shared_hot_object_count(w)

required_hot_objects_per_epoch(w) ==
  shared_hot_object_count(w) + private_hot_object_count(w) * w.node_count

effective_hot_set_churn_fraction(w) ==
  IF w.hot_set_mode = "static" THEN 0 ELSE w.hot_set_churn_fraction

PartialChurn(w) == effective_hot_set_churn_fraction(w) \in 1 .. WholeHotSet - 1

\* Mutant: the count is rounded down.
replacement_count_floor(segment_size, fraction) ==
  (segment_size * fraction) \div WholeHotSet

\* The fraction of the segment, rounded up: nonzero churn replaces something.
replacement_count(segment_size, fraction) ==
  (segment_size * fraction + WholeHotSet - 1) \div WholeHotSet

total_replacements_per_epoch(w) ==
  LET replaced(size) ==
        replacement_count(size, effective_hot_set_churn_fraction(w))
  IN replaced(shared_hot_object_count(w))
       + replaced(private_hot_object_count(w)) * w.node_count

\* effective_hot_object_channel_count: 0 restricts nothing.
OnHotChannel(w, o) ==
  \/ w.hot_object_channel_count = 0
  \/ memory_channel_for_object(o, w.memory_channel_count)
       < w.hot_object_channel_count

eligible_hot_object_count(w) ==
  Cardinality({o \in 1 .. w.object_count : OnHotChannel(w, o)})

\* Mutant: there is room for the new objects, and not for those they replace.
RoomWithoutReplaced(w) ==
  required_hot_objects_per_epoch(w) <= eligible_hot_object_count(w)

\* The tests of validate_synthetic_workload_config that relate the hot sets to
\* the objects there are.
HasRoom(w) ==
  required_hot_objects_per_epoch(w)
    + (IF PartialChurn(w) THEN total_replacements_per_epoch(w) ELSE 0)
      <= eligible_hot_object_count(w)

\* The rest of it, for the fields a hot set depends on.
validate_synthetic_workload_config(w) ==
  /\ w \in SyntheticWorkloadConfig
  /\ 0 \notin {w.node_count, w.object_count, w.memory_channel_count,
               w.epoch_count, w.hot_set_size}
  /\ w.hot_object_channel_count <= w.memory_channel_count
  /\ w.hot_set_size <= w.object_count
  /\ w.hot_set_churn_fraction <= WholeHotSet
  /\ HasRoom(w)

-----------------------------------------------------------------------------
(* Layouts *)

WorkloadNodes == 1 .. workload.node_count

object_at(objects, index) == objects[(index % Len(objects)) + 1]

\* next_objects: a run of objects, wrapping around.
next_objects(objects, cursor, count) ==
  [i \in 1 .. count |-> object_at(objects, cursor + i - 1)]

\* Mutant: every node is given the same private objects.
AllocateSamePrivate(w, objects, cursor) ==
  LET shared == shared_hot_object_count(w)
      private == private_hot_object_count(w)
  IN [shared_hot_objects |-> next_objects(objects, cursor, shared),
      private_hot_objects_by_node |->
        [n \in 1 .. w.node_count |-> next_objects(objects, cursor + shared, private)]]

\* allocate_hot_set_segments: the shared segment, then one per node.
allocate_hot_set_segments(w, objects, cursor) ==
  LET shared == shared_hot_object_count(w)
      private == private_hot_object_count(w)
  IN [shared_hot_objects |-> next_objects(objects, cursor, shared),
      private_hot_objects_by_node |->
        [n \in 1 .. w.node_count |->
           next_objects(objects, cursor + shared + (n - 1) * private, private)]]

hot_set_for_node(segments, n) ==
  segments.shared_hot_objects \o segments.private_hot_objects_by_node[n]

all_hot_objects(segments) ==
  UNION {ToSet(hot_set_for_node(segments, n)) :
           n \in DOMAIN segments.private_hot_objects_by_node}

keep_prefix_for_churn(segment, fraction) ==
  SubSeq(segment, 1, Len(segment) - replacement_count(Len(segment), fraction))

\* How far next_unused_object may move from the cursor to an object that is
\* neither avoided nor drawn before: once around at most.
Usable(objects, avoided, d) ==
  {a \in 0 .. Len(objects) - 1 :
     object_at(objects, d.cursor + a) \notin avoided \cup ToSet(d.drawn)}

\* next_unused_object: the cursor moves past each object it looks at.  Without an
\* unused object nothing is drawn, and there is a throw.
next_unused_object(objects, avoided, d) ==
  IF Usable(objects, avoided, d) = {} THEN d
  ELSE LET a == Min(Usable(objects, avoided, d))
       IN [cursor |-> d.cursor + a + 1,
           drawn |-> Append(d.drawn, object_at(objects, d.cursor + a))]

\* All the new objects of an epoch, count in a row.  Avoided are the previous hot
\* objects, the kept ones among them.
NextUnusedObjects(objects, cursor, avoided, count) ==
  LET draw[k \in 0 .. count] ==
        IF k = 0 THEN [cursor |-> cursor, drawn |-> <<>>]
        ELSE next_unused_object(objects, avoided, draw[k - 1])
  IN draw[count]

\* churn_hot_set_segments: the kept prefixes, filled up from the drawn objects,
\* the shared segment first and then node by node.
FillSegments(previous, fraction, drawn) ==
  LET shared == replacement_count(Len(previous.shared_hot_objects), fraction)
      private(n) == replacement_count(
                      Len(previous.private_hot_objects_by_node[n]), fraction)
  IN [shared_hot_objects |->
        keep_prefix_for_churn(previous.shared_hot_objects, fraction)
          \o SubSeq(drawn, 1, shared),
      private_hot_objects_by_node |->
        [n \in DOMAIN previous.private_hot_objects_by_node |->
           keep_prefix_for_churn(previous.private_hot_objects_by_node[n], fraction)
             \o SubSeq(drawn, shared + (n - 1) * private(n) + 1,
                       shared + n * private(n))]]

-----------------------------------------------------------------------------
(* The generation loop *)

hotSetVars == <<workload, candidates, object_cursor, hot_set_segments, epochs, outcome>>

\* Any configuration the validation accepts, and any shuffle of the objects.
Init ==
  /\ workload \in {w \in WorkloadConfigs : validate_synthetic_workload_config(w)}
  /\ candidates \in SetToSeqs({o \in 1 .. workload.object_count :
                                 OnHotChannel(workload, o)})
  /\ object_cursor = 0
  /\ hot_set_segments = [shared_hot_objects |-> <<>>,
                         private_hot_objects_by_node |-> <<>>]
  /\ epochs = <<>>
  /\ outcome = "generating"

\* epoch_id of the iteration about to begin.
epoch_id == Len(epochs)

\* What every iteration ends with: the metadata of the epoch.
EmitEpoch ==
  /\ epochs' = Append(epochs, [n \in WorkloadNodes |->
                                 hot_set_for_node(hot_set_segments', n)])
  /\ UNCHANGED <<workload, candidates, outcome>>

Iterating == outcome = "generating" /\ epoch_id < workload.epoch_count

Churn == effective_hot_set_churn_fraction(workload)

AllocateFrom(start) ==
  /\ hot_set_segments' = allocate_hot_set_segments(workload, candidates, start)
  /\ object_cursor' = start + required_hot_objects_per_epoch(workload)
  /\ EmitEpoch

FirstLayout == Iterating /\ epoch_id = 0 /\ AllocateFrom(object_cursor)

FullShift ==
  /\ Iterating /\ epoch_id > 0 /\ Churn >= WholeHotSet
  /\ AllocateFrom((epoch_id * required_hot_objects_per_epoch(workload))
                     % Len(candidates))

ChurnLayout ==
  /\ Iterating /\ epoch_id > 0 /\ PartialChurn(workload)
  /\ LET count == total_replacements_per_epoch(workload)
         draws == NextUnusedObjects(candidates, object_cursor,
                                    all_hot_objects(hot_set_segments), count)
     IN IF Len(draws.drawn) = count
        THEN /\ object_cursor' = draws.cursor
             /\ hot_set_segments' =
                  FillSegments(hot_set_segments, Churn, draws.drawn)
             /\ EmitEpoch
        ELSE /\ outcome' = "object_count is too small for requested churn"
             /\ UNCHANGED <<workload, candidates, object_cursor,
                            hot_set_segments, epochs>>

KeepLayout ==
  /\ Iterating /\ epoch_id > 0 /\ Churn = 0
  /\ UNCHANGED <<object_cursor, hot_set_segments>>
  /\ EmitEpoch

ReturnWorkload ==
  /\ outcome = "generating" /\ epoch_id = workload.epoch_count
  /\ outcome' = "generated"
  /\ UNCHANGED <<workload, candidates, object_cursor, hot_set_segments, epochs>>

Next == FirstLayout \/ FullShift \/ ChurnLayout \/ KeepLayout \/ ReturnWorkload

Spec == Init /\ [][Next]_hotSetVars

-----------------------------------------------------------------------------
(* Properties *)

\* Through any number of shifts and churns the hot sets keep their shape: every
\* node has hot_set_size distinct objects, any two nodes share exactly as many
\* as the overlap mode says, and those are common to all nodes ("preserves the
\* exact overlap shape across all nodes", generators.cpp:194); and a
\* hot_object_channel_count keeps them, in every epoch, on the first channels
\* (workload.hpp:55-57).
HotSetsKeepTheirShape ==
  \A k \in DOMAIN epochs :
    LET hot(n) == ToSet(epochs[k][n])
        common == {o \in hot(1) : \A n \in WorkloadNodes : o \in hot(n)}
    IN \A n, m \in WorkloadNodes :
         /\ Cardinality(hot(n)) = workload.hot_set_size
         /\ n # m => /\ hot(n) \cap hot(m) = common
                     /\ Cardinality(common) = shared_hot_object_count(workload)
         /\ workload.hot_object_channel_count > 0 =>
              \A o \in hot(n) :
                memory_channel_for_object(o, workload.memory_channel_count)
                  < workload.hot_object_channel_count

\* Below full churn a node trades, from one epoch to the next, at least the
\* fraction asked for and less than one object per segment more; and what becomes
\* hot anywhere was hot nowhere in the epoch before (churn_hot_set_segments:
\* "genuinely new hot objects").
ChurnBringsNewObjects ==
  Churn < WholeHotSet =>
    \A k \in 2 .. Len(epochs), n \in WorkloadNodes :
      LET hot(i, m) == ToSet(epochs[i][m])
          before == UNION {hot(k - 1, m) : m \in WorkloadNodes}
          fresh == hot(k, n) \ hot(k - 1, n)
          asked == workload.hot_set_size * Churn
      IN /\ fresh \cap before = {}
         /\ WholeHotSet * Cardinality(fresh) \in asked .. asked + 2 * (WholeHotSet - 1)

\* Whatever the validation accepts is generated: no churn throws in mid-epoch,
\* however many epochs have moved the cursor (next_unused_object).
AcceptedWorkloadsAreGenerated ==
  /\ outcome \in {"generating", "generated"}
  /\ outcome = "generated" => Len(epochs) = workload.epoch_count
=============================================================================
