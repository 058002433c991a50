--------------------------- MODULE ContentionPolicy -------------------------
(***************************************************************************)
(* The contention-aware policy (cache/contention_policy.cpp): objects are  *)
(* scored by local demand and by the remote cost measured in earlier       *)
(* epochs.  Doubles are fixed-point numbers in units of 1/Unit: quotients  *)
(* of numbers up to ten are exact, others are rounded down.                *)
(***************************************************************************)
EXTENDS HotnessPolicy, Stats

Unit == 2520     \* 1.0

knobs == config.contention

\* current_epoch_, the two kinds of counts, previous_epoch_stats_, diagnostics_.
NewContention ==
  [current_epoch |-> NoEpoch, access_counts |-> <<>>,
   local_confirmation_by_epoch |-> <<>>, local_confirmation_counts |-> <<>>,
   previous_epoch_stats |-> <<>>, diagnostics |-> <<>>]

uses_smoothed_telemetry == knobs.variant \in {"smoothed", "smoothed_reuse_gated"}
uses_local_confirmation == knobs.variant = "smoothed_reuse_gated"
uses_hysteresis ==
  \/ knobs.variant = "hysteresis"
  \/ knobs.variant = "smoothed_reuse_gated" /\ knobs.eviction_score_margin > 0

confirmation_count_for(h, o) == FindOr(h.local_confirmation_counts, o, 0)

-----------------------------------------------------------------------------
(* Telemetry of earlier epochs *)

history_epochs ==
  IF uses_smoothed_telemetry THEN knobs.telemetry_history_epochs ELSE 1

\* telemetry_decay to the power age.
TelemetryWeight(decay, age) ==
  LET power[a \in 0 .. age] == IF a = 0 THEN Unit ELSE (power[a - 1] * decay) \div Unit
  IN power[age]

\* Mutant: the epoch that begins counts among the earlier ones.
SourceSameEpoch(epoch, age) == epoch - age

\* The epoch of this age before epoch.
SourceEpoch(epoch, age) == epoch - age - 1

\* Values of several epochs, each weighted by the age of its epoch.
WeightedSum(values, weight) ==
  MapThenSumSet(LAMBDA age : values[age] * weight[age], DOMAIN values)

\* add_contention_snapshot over the row of an object in every source epoch: each
\* signal, weighted by the age of the epoch.
BlendedStats(row, weight) ==
  LET Blend(Signal(_)) ==
        WeightedSum([age \in DOMAIN row |-> Signal(row[age])], weight)
  IN [remote_accesses |-> Blend(LAMBDA b : b.remote_accesses),
      distinct_requesters |-> Blend(LAMBDA b : Cardinality(b.requesters)),
      bytes_served |-> Blend(LAMBDA b : b.bytes_served),
      total_queue_wait |-> Blend(LAMBDA b : b.total_queue_wait),
      total_remote_service_time |-> Blend(LAMBDA b : b.total_remote_service_time)]

\* previous_epoch_stats_ as on_epoch_start builds it.
TelemetrySnapshot(st, epoch) ==
  LET ages == {age \in 0 .. history_epochs - 1 : age < epoch}
      sources == {SourceEpoch(epoch, age) : age \in ages}
      seen == {k[2] : k \in {k \in DOMAIN st.contention_by_epoch : k[1] \in sources}}
      row(o) == [age \in ages |-> FindOr(st.contention_by_epoch,
                                        <<SourceEpoch(epoch, age), o>>, ObjectBucket)]
      weight == [age \in ages |-> TelemetryWeight(knobs.telemetry_decay, age)]
  IN [o \in seen |-> BlendedStats(row(o), weight)]

\* Mutant: the window keeps one epoch more.
FirstRetainedEarlier(epoch) == epoch - AtLeast(knobs.local_confirmation_window_epochs, 1)

\* The oldest epoch of the confirmation window that ends with epoch.
FirstRetainedEpoch(epoch) ==
  AtLeast(epoch - (AtLeast(knobs.local_confirmation_window_epochs, 1) - 1), 0)

prune_local_confirmation(h, epoch) ==
  LET buckets == h.local_confirmation_by_epoch
      old == {k \in DOMAIN buckets : k[1] < FirstRetainedEpoch(epoch)}
  IN [h EXCEPT
        !.local_confirmation_counts = SubtractCounts(@, buckets, old),
        !.local_confirmation_by_epoch = DropKeys(@, old)]

contention_on_epoch_start(h, st, epoch) ==
  LET pruned == IF uses_local_confirmation
                THEN prune_local_confirmation(h, epoch) ELSE h
  IN IF h.current_epoch = epoch THEN h
     ELSE [pruned EXCEPT
             !.current_epoch = epoch,
             !.access_counts = IF knobs.reset_on_epoch_change THEN <<>> ELSE @,
             !.previous_epoch_stats = TelemetrySnapshot(st, epoch)]

\* Hits and misses alike.
contention_on_lookup(h, st, r) ==
  LET started == contention_on_epoch_start(h, st, r.epoch_id)
      counted == [started EXCEPT !.access_counts = Increment(@, r.object_id)]
  IN IF ~uses_local_confirmation THEN counted
     ELSE [counted EXCEPT
             !.local_confirmation_by_epoch =
               Increment(@, <<r.epoch_id, r.object_id>>),
             !.local_confirmation_counts = Increment(@, r.object_id)]

-----------------------------------------------------------------------------
(* Scores *)

Ratio(a, b) == (a * Unit) \div b

normalized(value, max_value) ==
  IF max_value <= 0 THEN 0 ELSE Min({Ratio(value, max_value), Unit})

\* Queueing and service of an object per byte of its estimated size.
cost_per_cache_byte(s) ==
  IF s.remote_accesses <= 0 \/ s.bytes_served <= 0 THEN 0
  ELSE LET size == Ratio(s.bytes_served, s.remote_accesses)
       IN IF size <= 0 THEN 0
          ELSE Ratio(s.total_queue_wait + s.total_remote_service_time, size)

\* refresh_normalization_maxima: the greatest value of each signal.
NormalizationMaxima(h) ==
  LET all == {h.previous_epoch_stats[o] : o \in DOMAIN h.previous_epoch_stats}
      Greatest(Signal(_)) == Max({0} \cup {Signal(s) : s \in all})
  IN [remote_accesses |-> Greatest(LAMBDA s : s.remote_accesses),
      distinct_requesters |-> Greatest(LAMBDA s : s.distinct_requesters),
      total_queue_wait |-> Greatest(LAMBDA s : s.total_queue_wait),
      total_remote_service_time |-> Greatest(LAMBDA s : s.total_remote_service_time),
      cost_density |-> Greatest(cost_per_cache_byte)]

\* The part of the score that earlier epochs give, in units of 1/Unit squared.
TelemetryScore(s, maxima, w) ==
    w.remote_access * normalized(s.remote_accesses, maxima.remote_accesses)
  + w.distinct_requester * normalized(s.distinct_requesters,
                                      maxima.distinct_requesters)
  + w.queue_wait * normalized(s.total_queue_wait, maxima.total_queue_wait)
  + w.remote_service_time * normalized(s.total_remote_service_time,
                                       maxima.total_remote_service_time)
  + w.cost_density * normalized(cost_per_cache_byte(s), maxima.cost_density)

size_penalty(size) ==
  IF config.capacity_bytes = 0 THEN Unit
  ELSE Min({Ratio(size, config.capacity_bytes), Unit})

\* total_score of score_object.
score_object(h, o, size) ==
  (knobs.weights.local_hotness
     * normalized(count_for(h, o), knobs.local_hotness_threshold)
   + (IF o \notin DOMAIN h.previous_epoch_stats THEN 0
      ELSE TelemetryScore(h.previous_epoch_stats[o], NormalizationMaxima(h),
                          knobs.weights))
   - knobs.weights.size_penalty * size_penalty(size)) \div Unit

-----------------------------------------------------------------------------
(* Decisions *)

Confirmed(h, o) == confirmation_count_for(h, o) >= knobs.local_reuse_gate_threshold

\* The score is high enough to go without confirmation.
Bypasses(score) ==
  score >= knobs.min_admit_score + knobs.local_confirmation_bypass_score_margin

\* ContentionAwarePolicy::admission_decision: the reason given, "admitted" among
\* them.
contention_admission_decision(h, r) ==
  LET score == score_object(h, r.object_id, r.size_bytes)
      gated == /\ knobs.variant = "reuse_gated"
               /\ count_for(h, r.object_id) < knobs.local_reuse_gate_threshold
      low == score < knobs.min_admit_score
  IN IF gated \/ (low /\ ~uses_local_confirmation) THEN "policy_rejected"
     ELSE IF low THEN "below_min_score"
     ELSE IF ~uses_local_confirmation \/ Confirmed(h, r.object_id) \/ Bypasses(score)
          THEN "admitted"
     ELSE "local_confirmation_pending"

\* What a newcomer must exceed its victim by.
required_margin == IF uses_hysteresis THEN knobs.eviction_score_margin ELSE 0

\* ContentionAwarePolicy::on_admission_result: the PolicyDecisionRecord.
contention_on_admission_result(h, r, admitted, reason, victims) ==
  LET score == score_object(h, r.object_id, r.size_bytes)
  IN [h EXCEPT !.diagnostics = Append(@,
       [request_id |-> r.request_id, object_id |-> r.object_id,
        admitted |-> admitted, reason |-> reason, score |-> score,
        confirmations |-> IF uses_local_confirmation
                          THEN confirmation_count_for(h, r.object_id) ELSE 0,
        bypassed |-> /\ uses_local_confirmation
                     /\ ~Confirmed(h, r.object_id)
                     /\ Bypasses(score),
        evicted_objects |-> victims])]
=============================================================================
