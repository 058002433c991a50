---------------------------- MODULE CacheProofs -----------------------------
(***************************************************************************)
(* Proofs about the caching policies and the local caches, for every       *)
(* number of nodes, every history, decay and capacity and every            *)
(* configuration.                                                          *)
(*                                                                         *)
(* What the policies remember and decide by: the telemetry a node took at  *)
(* its epoch start is what any node would take now, and the counts of the  *)
(* hotness policy and of the contention-aware confirmation are those of    *)
(* the lookups they are meant to remember.                                 *)
(*                                                                         *)
(* The caches: the resident bytes never exceed the capacity, whichever     *)
(* victims a policy names, and the oracle's replicas are those of its      *)
(* plan; in configurations in which a node has one request at a time, the  *)
(* open placement rows are those of the residents, every closed one has    *)
(* the admission that pushed its object out, and a resident only makes way *)
(* for an object of a greater score.                                       *)
(***************************************************************************)
EXTENDS BarrierProofs

-----------------------------------------------------------------------------
(* Counts *)

\* A map that counts: finitely many keys, each with a natural number.
CountsOK(f) == IsFiniteSet(DOMAIN f) /\ f \in [DOMAIN f -> Nat]

\* g counts one more of the key k than f.
OneMoreOf(f, k, g) ==
  /\ CountsOK(g) /\ DOMAIN g = DOMAIN f \cup {k}
  /\ g[k] = FindOr(f, k, 0) + 1
  /\ \A j \in DOMAIN f \ {k} : g[j] = f[j]

\* Increment does so.
LEMMA IncrementIs ==
  ASSUME NEW f, CountsOK(f), NEW k, NEW g, g = Increment(f, k)
  PROVE  OneMoreOf(f, k, g)
<1>1. PICK more \in Nat : more = FindOr(f, k, 0) + 1
  BY DEF FindOr, CountsOK
<1>2. g = [x \in DOMAIN f \cup {k} |-> IF x = k THEN more ELSE f[x]]
  BY <1>1 DEF Increment, Assign
<1>3. IsFiniteSet(DOMAIN f \cup {k})
  BY FS_AddElement DEF CountsOK
<1>4. /\ DOMAIN g = DOMAIN f \cup {k} /\ g[k] = more
      /\ \A j \in DOMAIN f \ {k} : g[j] = f[j]
  BY <1>2
<1>5. g \in [DOMAIN g -> Nat]
  BY <1>2 DEF CountsOK
<1> QED BY <1>1, <1>3, <1>4, <1>5 DEF CountsOK, OneMoreOf

\* The count of an object that leaves with these keys.
Leaving(by_epoch, old, o) == SumOver(by_epoch, {k \in old : k[2] = o})

\* g counts what is left of the totals without the old counts.
WithoutOld(totals, by_epoch, old, g) ==
  /\ CountsOK(g)
  /\ \A o : Leaving(by_epoch, old, o) <= FindOr(totals, o, 0)
              => FindOr(g, o, 0) = FindOr(totals, o, 0) - Leaving(by_epoch, old, o)

\* subtract_epoch_counts takes the old counts from the totals.
LEMMA SubtractIs ==
  ASSUME NEW totals, CountsOK(totals), NEW by_epoch, CountsOK(by_epoch),
         NEW old \in SUBSET DOMAIN by_epoch,
         NEW g, g = SubtractCounts(totals, by_epoch, old)
  PROVE  WithoutOld(totals, by_epoch, old, g)
<1> DEFINE leaving(o) == Leaving(by_epoch, old, o)
           kept == {o \in DOMAIN totals : leaving(o) = 0 \/ totals[o] > leaving(o)}
<1>1. g = [o \in kept |-> totals[o] - leaving(o)]
  BY DEF SubtractCounts, Leaving, SumOver
<1>2. \A o : leaving(o) \in Nat
  <2> SUFFICES ASSUME NEW o PROVE Leaving(by_epoch, old, o) \in Nat
    OBVIOUS
  <2>1. PICK S : S = {k \in old : k[2] = o} /\ S \in SUBSET DOMAIN by_epoch
    OBVIOUS
  <2>2. IsFiniteSet(S)
    BY <2>1, FS_Subset DEF CountsOK
  <2>3. \A k \in S : by_epoch[k] \in Nat
    BY <2>1 DEF CountsOK
  <2> QED BY <2>1, <2>2, <2>3, SumNatural DEF Leaving
<1> HIDE DEF leaving
<1>3. CountsOK(g)
  <2>1. IsFiniteSet(kept)
    BY FS_Subset DEF CountsOK
  <2>2. \A o \in kept : totals[o] - leaving(o) \in Nat
    BY <1>2 DEF CountsOK
  <2> QED BY <1>1, <2>1, <2>2 DEF CountsOK
<1>4. ASSUME NEW o, leaving(o) <= FindOr(totals, o, 0)
      PROVE  FindOr(g, o, 0) = FindOr(totals, o, 0) - leaving(o)
  <2>1. FindOr(totals, o, 0) \in Nat
    BY DEF FindOr, CountsOK
  <2>2. CASE o \in kept
    BY <1>1, <2>2 DEF FindOr
  <2>3. CASE o \notin kept
    <3>1. FindOr(g, o, 0) = 0
      BY <1>1, <2>3 DEF FindOr
    <3>2. FindOr(totals, o, 0) = leaving(o)
      BY <1>2, <1>4, <2>1, <2>3 DEF FindOr, CountsOK
    <3> QED BY <1>2, <3>1, <3>2
  <2> QED BY <2>2, <2>3
<1> QED BY <1>3, <1>4 DEF leaving, WithoutOld

\* Keys that are dropped leave the others.
LEMMA DropIs ==
  ASSUME NEW f, CountsOK(f), NEW keys
  PROVE  CountsOK(DropKeys(f, keys))
<1>1. IsFiniteSet(DOMAIN f \ keys)
  BY FS_Subset DEF CountsOK
<1> QED BY <1>1 DEF CountsOK, DropKeys

-----------------------------------------------------------------------------
(* Telemetry snapshots *)

\* What the policy of a node remembers is a record of six fields.
HasContentionShape(h) ==
  \E epoch, counts, by_epoch, confirmed, telemetry, decisions :
    h = [current_epoch |-> epoch, access_counts |-> counts,
         local_confirmation_by_epoch |-> by_epoch,
         local_confirmation_counts |-> confirmed,
         previous_epoch_stats |-> telemetry, diagnostics |-> decisions]

\* The telemetry that a node would take now at the start of the epoch.
SnapshotNow(epoch) == TelemetrySnapshot(stats, epoch)

\* No node runs ahead of the barrier.
NoNodeAhead == \A n \in Nodes : compute_nodes[n].current_epoch <= released_epoch

\* A policy is in the epoch of its node, and in an epoch it holds the telemetry
\* that it would still take.
SnapshotsTaken ==
  contention_aware =>
    /\ history = [n \in Nodes |-> history[n]]
    /\ \A n \in Nodes :
         /\ HasContentionShape(history[n])
         /\ history[n].current_epoch = compute_nodes[n].current_epoch
         /\ \A epoch \in Nat : compute_nodes[n].current_epoch = epoch =>
              history[n].previous_epoch_stats = SnapshotNow(epoch)

TelemetryInv == BarrierInv /\ NoNodeAhead /\ SnapshotsTaken

-----------------------------------------------------------------------------
(* What the operations of a policy do to its snapshot *)

\* on_epoch_start takes the snapshot, unless the policy is in the epoch already.
LEMMA EpochStartTakesSnapshot ==
  ASSUME contention_aware, NEW h, HasContentionShape(h), NEW st, NEW epoch
  PROVE  LET g == on_epoch_start(h, st, epoch)
         IN /\ HasContentionShape(g) /\ g.current_epoch = epoch
            /\ h.current_epoch = epoch => g = h
            /\ h.current_epoch # epoch =>
                 g.previous_epoch_stats = TelemetrySnapshot(st, epoch)
<1> DEFINE g == on_epoch_start(h, st, epoch)
           pruned == IF uses_local_confirmation
                     THEN prune_local_confirmation(h, epoch) ELSE h
           snapshot == TelemetrySnapshot(st, epoch)
<1>1. g = IF h.current_epoch = epoch THEN h
          ELSE [pruned EXCEPT
                  !.current_epoch = epoch,
                  !.access_counts = IF knobs.reset_on_epoch_change THEN <<>> ELSE @,
                  !.previous_epoch_stats = snapshot]
  BY DEF on_epoch_start, contention_aware, contention_on_epoch_start
<1>2. HasContentionShape(pruned)
  <2>1. PICK current, counts, by_epoch, confirmed, telemetry, decisions :
          h = [current_epoch |-> current, access_counts |-> counts,
               local_confirmation_by_epoch |-> by_epoch,
               local_confirmation_counts |-> confirmed,
               previous_epoch_stats |-> telemetry, diagnostics |-> decisions]
    BY DEF HasContentionShape
  <2>2. PICK kept, left :
          prune_local_confirmation(h, epoch)
            = [h EXCEPT !.local_confirmation_counts = left,
                        !.local_confirmation_by_epoch = kept]
    BY DEF prune_local_confirmation
  <2>3. prune_local_confirmation(h, epoch)
          = [current_epoch |-> current, access_counts |-> counts,
             local_confirmation_by_epoch |-> kept, local_confirmation_counts |-> left,
             previous_epoch_stats |-> telemetry, diagnostics |-> decisions]
    BY <2>1, <2>2
  <2>4. HasContentionShape(prune_local_confirmation(h, epoch))
    BY <2>3 DEF HasContentionShape
  <2> QED BY <2>4
<1> HIDE DEF g, pruned, snapshot
<1>3. CASE h.current_epoch = epoch
  BY <1>1, <1>3 DEF g
<1>4. CASE h.current_epoch # epoch
  <2>1. PICK current, counts, by_epoch, confirmed, telemetry, decisions :
          pruned = [current_epoch |-> current, access_counts |-> counts,
                    local_confirmation_by_epoch |-> by_epoch,
                    local_confirmation_counts |-> confirmed,
                    previous_epoch_stats |-> telemetry, diagnostics |-> decisions]
    BY <1>2 DEF HasContentionShape
  <2>2. PICK new : g = [pruned EXCEPT !.current_epoch = epoch, !.access_counts = new,
                                      !.previous_epoch_stats = snapshot]
    BY <1>1, <1>4
  <2>3. g = [current_epoch |-> epoch, access_counts |-> new,
             local_confirmation_by_epoch |-> by_epoch,
             local_confirmation_counts |-> confirmed,
             previous_epoch_stats |-> snapshot, diagnostics |-> decisions]
    BY <2>1, <2>2
  <2>4. HasContentionShape(g)
    BY <2>3 DEF HasContentionShape
  <2> QED BY <1>4, <2>3, <2>4 DEF g, snapshot
<1> QED BY <1>3, <1>4

\* A lookup in the epoch of the policy counts, and leaves the telemetry alone.
LEMMA LookupKeepsTelemetry ==
  ASSUME contention_aware, NEW h, HasContentionShape(h), NEW st, NEW r,
         h.current_epoch = r.epoch_id
  PROVE  LET g == on_lookup(h, st, r)
         IN /\ HasContentionShape(g) /\ g.current_epoch = h.current_epoch
            /\ g.previous_epoch_stats = h.previous_epoch_stats
<1> DEFINE g == on_lookup(h, st, r)
<1>1. PICK current, counts, by_epoch, confirmed, telemetry, decisions :
        h = [current_epoch |-> current, access_counts |-> counts,
             local_confirmation_by_epoch |-> by_epoch,
             local_confirmation_counts |-> confirmed,
             previous_epoch_stats |-> telemetry, diagnostics |-> decisions]
  BY DEF HasContentionShape
<1>2. contention_on_epoch_start(h, st, r.epoch_id) = h
  BY DEF contention_on_epoch_start
<1>3. PICK new, kept, left :
        \/ g = [h EXCEPT !.access_counts = new]
        \/ g = [[h EXCEPT !.access_counts = new]
                  EXCEPT !.local_confirmation_by_epoch = kept,
                         !.local_confirmation_counts = left]
  BY <1>2 DEF on_lookup, contention_aware, contention_on_lookup
<1> HIDE DEF g
<1>4. PICK two, three :
        g = [current_epoch |-> current, access_counts |-> new,
             local_confirmation_by_epoch |-> two, local_confirmation_counts |-> three,
             previous_epoch_stats |-> telemetry, diagnostics |-> decisions]
  <2>1. CASE g = [h EXCEPT !.access_counts = new]
    <3>1. g = [current_epoch |-> current, access_counts |-> new,
               local_confirmation_by_epoch |-> by_epoch,
               local_confirmation_counts |-> confirmed,
               previous_epoch_stats |-> telemetry, diagnostics |-> decisions]
      BY <1>1, <2>1
    <3> QED BY <3>1
  <2>2. CASE g = [[h EXCEPT !.access_counts = new]
                    EXCEPT !.local_confirmation_by_epoch = kept,
                           !.local_confirmation_counts = left]
    <3>1. g = [current_epoch |-> current, access_counts |-> new,
               local_confirmation_by_epoch |-> kept, local_confirmation_counts |-> left,
               previous_epoch_stats |-> telemetry, diagnostics |-> decisions]
      BY <1>1, <2>2
    <3> QED BY <3>1
  <2> QED BY <1>3, <2>1, <2>2
<1>5. HasContentionShape(g)
  BY <1>4 DEF HasContentionShape
<1> QED BY <1>1, <1>4, <1>5 DEF g

\* A decision is recorded, and leaves the telemetry alone.
LEMMA DecisionKeepsTelemetry ==
  ASSUME contention_aware, NEW h, HasContentionShape(h), NEW r, NEW admitted, NEW reason,
         NEW victims
  PROVE  LET g == on_admission_result(h, r, admitted, reason, victims)
         IN /\ HasContentionShape(g) /\ g.current_epoch = h.current_epoch
            /\ g.previous_epoch_stats = h.previous_epoch_stats
<1> DEFINE g == on_admission_result(h, r, admitted, reason, victims)
<1>1. PICK current, counts, by_epoch, confirmed, telemetry, decisions :
        h = [current_epoch |-> current, access_counts |-> counts,
             local_confirmation_by_epoch |-> by_epoch,
             local_confirmation_counts |-> confirmed,
             previous_epoch_stats |-> telemetry, diagnostics |-> decisions]
  BY DEF HasContentionShape
<1>2. PICK more : g = [h EXCEPT !.diagnostics = more]
  BY DEF on_admission_result, contention_aware, contention_on_admission_result
<1> HIDE DEF g
<1>3. g = [current_epoch |-> current, access_counts |-> counts,
           local_confirmation_by_epoch |-> by_epoch,
           local_confirmation_counts |-> confirmed,
           previous_epoch_stats |-> telemetry, diagnostics |-> more]
  BY <1>1, <1>2
<1>4. HasContentionShape(g)
  BY <1>3 DEF HasContentionShape
<1> QED BY <1>1, <1>3, <1>4 DEF g

-----------------------------------------------------------------------------
(* The snapshot of an epoch stands *)

\* A snapshot is made of the rows of earlier epochs: as long as these stand, so
\* does the snapshot.
LEMMA SnapshotKept ==
  ASSUME NEW epoch \in Nat, AcceptedConfig(config), config' = config,
         \A k : k[1] \in Int /\ k[1] < epoch =>
           /\ k \in DOMAIN stats'.contention_by_epoch
                <=> k \in DOMAIN stats.contention_by_epoch
           /\ k \in DOMAIN stats.contention_by_epoch =>
                stats'.contention_by_epoch[k] = stats.contention_by_epoch[k]
  PROVE  SnapshotNow(epoch)' = SnapshotNow(epoch)
<1>1. PICK old, new : old = stats.contention_by_epoch /\ new = stats'.contention_by_epoch
  OBVIOUS
<1>2. PICK length, decay : length = history_epochs /\ decay = knobs.telemetry_decay
  OBVIOUS
<1>3. length \in Nat
  BY <1>2 DEF history_epochs, knobs, AcceptedConfig, SimulationConfig, ContentionPolicyConfig
<1>4. length = history_epochs' /\ decay = (knobs.telemetry_decay)'
  BY <1>2 DEF history_epochs, knobs, uses_smoothed_telemetry
<1> DEFINE ages == {age \in 0 .. length - 1 : age < epoch}
           sources == {SourceEpoch(epoch, age) : age \in ages}
           seen(rows) == {k[2] : k \in {k \in DOMAIN rows : k[1] \in sources}}
           row(rows, o) == [age \in ages |->
                              FindOr(rows, <<SourceEpoch(epoch, age), o>>, ObjectBucket)]
           weight == [age \in ages |-> TelemetryWeight(decay, age)]
           snapshot(rows) == [o \in seen(rows) |-> BlendedStats(row(rows, o), weight)]
<1>5. SnapshotNow(epoch) = snapshot(old)
  BY <1>1, <1>2 DEF SnapshotNow, TelemetrySnapshot
<1>6. SnapshotNow(epoch)' = snapshot(new)
  BY <1>1, <1>4 DEF SnapshotNow, TelemetrySnapshot
<1>7. \A age \in ages : SourceEpoch(epoch, age) \in Int /\ SourceEpoch(epoch, age) < epoch
  BY <1>3 DEF SourceEpoch
<1>8. \A k : k[1] \in sources =>
        /\ k \in DOMAIN new <=> k \in DOMAIN old
        /\ k \in DOMAIN old => new[k] = old[k]
  BY <1>1, <1>7
<1>9. seen(new) = seen(old)
  BY <1>8
<1>10. \A o : row(new, o) = row(old, o)
  <2> SUFFICES ASSUME NEW o, NEW age \in ages
               PROVE  FindOr(new, <<SourceEpoch(epoch, age), o>>, ObjectBucket)
                        = FindOr(old, <<SourceEpoch(epoch, age), o>>, ObjectBucket)
    BY Zenon
  <2>1. SourceEpoch(epoch, age) \in sources
    OBVIOUS
  <2>2. <<SourceEpoch(epoch, age), o>>[1] = SourceEpoch(epoch, age)
    OBVIOUS
  <2> QED BY <1>8, <2>1, <2>2 DEF FindOr
<1> HIDE DEF seen, row, weight
<1>11. snapshot(new) = snapshot(old)
  BY <1>9, <1>10
<1> QED BY <1>5, <1>6, <1>11

-----------------------------------------------------------------------------
(* Every step keeps the snapshots *)

\* The released epoch only rises.
LEMMA EpochsRise ==
  ASSUME RequestPathInv, SimulatorInv', NEW e \in sched.events, HandlerEffect(e)
  PROVE  released_epoch' >= released_epoch
<1>1. released_epoch \in Int
  BY DEF RequestPathInv, SimulatorInv, TypeOK, NoEpoch
<1>2. \E new : Leaves(e, new)
  BY Zenon DEF HandlerEffect, NothingToIssueEffect, IssueEffect, LookupEffect,
     CompleteEffect, RequestCompleteEffect, ForwardEffect, ServiceStartEffect,
     ServiceCompleteEffect
<1>3. GoesOn(e, {}) \/ released_epoch' = released_epoch
      \/ released_epoch' \in UnreleasedEpochs(compute_nodes')
  BY <1>2, HandlerEnds DEF GoesOn, Releases
<1> QED BY <1>1, <1>3 DEF GoesOn, UnreleasedEpochs

\* A node that has telemetry of an epoch of its own or an earlier one keeps it as
\* long as it stays in the epoch.
LEMMA NodeKeepsSnapshot ==
  ASSUME TelemetryInv, contention_aware, AcceptedConfig(config), config' = config,
         NEW e \in sched.events, MemoryStep(e) \/ ComputeStep(e),
         NEW n \in Nodes, NEW h, h = history'[n], HasContentionShape(h),
         h.current_epoch = history[n].current_epoch,
         h.previous_epoch_stats = history[n].previous_epoch_stats,
         compute_nodes'[n].current_epoch = compute_nodes[n].current_epoch
  PROVE  /\ h.current_epoch = compute_nodes'[n].current_epoch
         /\ \A epoch \in Nat : compute_nodes'[n].current_epoch = epoch =>
              h.previous_epoch_stats = SnapshotNow(epoch)'
<1>1. h.current_epoch = compute_nodes'[n].current_epoch
  BY DEF TelemetryInv, SnapshotsTaken
<1>2. ASSUME NEW epoch \in Nat, compute_nodes'[n].current_epoch = epoch
      PROVE  h.previous_epoch_stats = SnapshotNow(epoch)'
  <2>1. h.previous_epoch_stats = SnapshotNow(epoch)
    BY <1>2 DEF TelemetryInv, SnapshotsTaken
  <2>2. released_epoch \in Int
    BY DEF TelemetryInv, BarrierInv, RequestPathInv, SimulatorInv, TypeOK, NoEpoch
  <2>3. epoch <= released_epoch
    BY <1>2 DEF TelemetryInv, NoNodeAhead
  <2>4. \A k : k[1] \in Int /\ k[1] < epoch =>
          /\ k \in DOMAIN stats'.contention_by_epoch
               <=> k \in DOMAIN stats.contention_by_epoch
          /\ k \in DOMAIN stats.contention_by_epoch =>
               stats'.contention_by_epoch[k] = stats.contention_by_epoch[k]
    <3>1. SUFFICES ASSUME NEW k, k[1] \in Int, k[1] < epoch PROVE k[1] < released_epoch
      BY EarlierRowsStand DEF TelemetryInv
    <3> QED BY <2>2, <2>3, <3>1
  <2>5. SnapshotNow(epoch)' = SnapshotNow(epoch)
    BY <2>4, SnapshotKept
  <2> QED BY <2>1, <2>5
<1> QED BY <1>1, <1>2

\* A handler changes the history of the node it runs on and of no other, by one
\* operation of the policy, and moves a node to another epoch only by issuing a
\* request.
LEMMA HandlerTellsPolicy ==
  ASSUME BarrierInv, NEW e \in sched.events, MemoryStep(e) \/ ComputeStep(e)
  PROVE  \/ UNCHANGED history
            /\ \A n \in Nodes : compute_nodes'[n].current_epoch = compute_nodes[n].current_epoch
         \/ /\ e.target_id \in Nodes
            /\ e.type = "LocalCacheLookup"
            /\ \E r : /\ r = request_table[e.request_id]
                      /\ r.epoch_id = compute_nodes[e.target_id].current_epoch
                      /\ history' = [history EXCEPT ![e.target_id] = on_lookup(@, stats, r)]
            /\ UNCHANGED compute_nodes
         \/ /\ e.target_id \in Nodes
            /\ \E r, admitted, reason, victims :
                 history' = [history EXCEPT ![e.target_id] =
                               on_admission_result(@, r, admitted, reason, victims)]
            /\ \A n \in Nodes : compute_nodes'[n].current_epoch = compute_nodes[n].current_epoch
         \/ /\ e.target_id \in Nodes
            /\ NextIsOfEpoch(compute_nodes, e.target_id, released_epoch)
            /\ UNCHANGED stats
            /\ history' = [history EXCEPT ![e.target_id] =
                             StartEpochHistory(e.target_id, released_epoch)]
            /\ \A n \in Nodes : compute_nodes'[n].current_epoch =
                 IF n = e.target_id THEN released_epoch ELSE compute_nodes[n].current_epoch
<1>1. CASE MemoryStep(e)
  <2>1. status = "running" /\ HandlerEffect(e)
    BY StepHasEffect DEF BarrierInv
  <2>2. UNCHANGED history
    BY <1>1 DEF MemoryStep
  <2>3. e.type \in {"ForwardToMemory", "MemoryServiceStart", "MemoryServiceComplete"}
    <3>1. CASE handle_forward_to_memory(e)
      BY <3>1 DEF handle_forward_to_memory, Dispatch
    <3>2. CASE handle_memory_service_start(e)
      BY <3>2 DEF handle_memory_service_start, Dispatch
    <3>3. CASE handle_memory_service_complete(e)
      BY <3>3 DEF handle_memory_service_complete, Dispatch
    <3> QED BY <1>1, <3>1, <3>2, <3>3 DEF MemoryStep
  <2>4. UNCHANGED compute_nodes
    BY <2>1, <2>3 DEF HandlerEffect, ForwardEffect, ServiceStartEffect, ServiceCompleteEffect
  <2> QED BY <2>2, <2>4
<1>2. CASE handle_generate_request(e)
  <2>1. CASE has_next(compute_nodes, e.target_id)
    <3> DEFINE spec == peek_next(compute_nodes, e.target_id)
    <3>1. /\ e.target_id \in Nodes /\ e.type = "GenerateRequest" /\ UNCHANGED stats
          /\ IssueRequest(e, e.target_id, spec)
      BY <1>2, <2>1 DEF handle_generate_request, Dispatch
    <3>2. /\ NextIsOfEpoch(compute_nodes, e.target_id, released_epoch)
          /\ spec.epoch_id = released_epoch
      BY <3>1 DEF BarrierInv, TokensInEpoch, PendingOf, NextIsOfEpoch
    <3> HIDE DEF spec
    <3>3. compute_nodes' = [compute_nodes EXCEPT ![e.target_id] = Advance(@, spec, e.time)]
      BY <3>1 DEF IssueRequest
    <3>4. history' = [history EXCEPT ![e.target_id] =
                        StartEpochHistory(e.target_id, released_epoch)]
      BY <3>1, <3>2 DEF IssueRequest
    <3>5. compute_nodes \in [Nodes -> ComputeNodeState]
      BY DEF BarrierInv, RequestPathInv, SimulatorInv, TypeOK
    <3>6. \A n \in Nodes : compute_nodes'[n].current_epoch =
            IF n = e.target_id THEN released_epoch ELSE compute_nodes[n].current_epoch
      BY <3>2, <3>3, <3>5 DEF Advance
    <3> QED BY <3>1, <3>2, <3>4, <3>6
  <2>2. CASE ~has_next(compute_nodes, e.target_id)
    <3>1. UNCHANGED <<history, compute_nodes>>
      BY <1>2, <2>2 DEF handle_generate_request
    <3> QED BY <3>1
  <2> QED BY <2>1, <2>2
<1>3. CASE handle_local_cache_lookup(e)
  <2> DEFINE r == request_table[e.request_id]
  <2>1. /\ e.target_id \in Nodes /\ e.type = "LocalCacheLookup" /\ UNCHANGED compute_nodes
        /\ history' = [history EXCEPT ![e.target_id] = on_lookup(@, stats, r)]
    BY <1>3 DEF handle_local_cache_lookup, Dispatch
  <2>2. e.request_id \in Unfinished /\ SourceOf(e.request_id) = e.target_id
    BY <2>1, HeldByAlone DEF BarrierInv, RequestPathInv, HeldAtMostOnce, PathEvents, PathTypes,
       ComputeEventTypes
  <2>3. r.epoch_id = compute_nodes[e.target_id].current_epoch
    BY <2>2 DEF BarrierInv, OpenInEpoch, EpochOf
  <2>4. r = request_table[e.request_id]
    OBVIOUS
  <2> HIDE DEF r
  <2> QED BY <2>1, <2>3, <2>4
<1>4. CASE handle_local_cache_hit_complete(e) \/ handle_return_response(e)
  <2>1. e.target_id \in Nodes /\ e.type \in {"LocalCacheHitComplete", "ReturnResponse"}
    BY <1>4 DEF handle_local_cache_hit_complete, handle_return_response, Dispatch
  <2>2. compute_nodes' = [compute_nodes EXCEPT ![e.target_id].outstanding_requests = @ - 1]
    <3>1. HandlerEffect(e)
      BY StepHasEffect DEF BarrierInv
    <3> QED BY <2>1, <3>1 DEF HandlerEffect, CompleteEffect
  <2>3. compute_nodes \in [Nodes -> ComputeNodeState]
    BY DEF BarrierInv, RequestPathInv, SimulatorInv, TypeOK
  <2>4. \A n \in Nodes : compute_nodes'[n].current_epoch = compute_nodes[n].current_epoch
    BY <2>2, <2>3 DEF ComputeNodeState
  <2>5. \/ UNCHANGED history
        \/ \E r, admitted, reason, victims :
             history' = [history EXCEPT ![e.target_id] =
                           on_admission_result(@, r, admitted, reason, victims)]
    BY <1>4 DEF handle_local_cache_hit_complete, handle_return_response
  <2> QED BY <2>1, <2>4, <2>5
<1>5. CASE handle_request_complete(e)
  <2>1. UNCHANGED <<history, compute_nodes>>
    BY <1>5 DEF handle_request_complete
  <2> QED BY <2>1
<1> QED BY <1>1, <1>2, <1>3, <1>4, <1>5 DEF ComputeStep

\* A handler keeps the telemetry of every policy true: the one on the node it runs
\* on may take a new snapshot, all others hold theirs.
LEMMA SnapshotsStep ==
  ASSUME TelemetryInv, RequestPathInv', NEW e \in sched.events, MemoryStep(e) \/ ComputeStep(e)
  PROVE  NoNodeAhead' /\ SnapshotsTaken'
<1>1. BarrierInv /\ RequestPathInv /\ SimulatorInv' /\ AcceptedConfig(config)
  BY DEF TelemetryInv, BarrierInv, RequestPathInv, SimulatorInv, TypeOK
<1>2. HandlerEffect(e) /\ released_epoch' >= released_epoch
  BY <1>1, StepHasEffect, EpochsRise
<1>3. config' = config
  BY <1>2 DEF HandlerEffect, NothingToIssueEffect, IssueEffect, LookupEffect, CompleteEffect,
     RequestCompleteEffect, ForwardEffect, ServiceStartEffect, ServiceCompleteEffect
<1>4. /\ released_epoch \in Int /\ released_epoch' \in Int
      /\ \A n \in Nodes : compute_nodes[n].current_epoch \in Int
  BY <1>1 DEF TypeOK, RequestPathInv, SimulatorInv, NoEpoch, ComputeNodeState
<1>5. NoNodeAhead'
  <2>1. SUFFICES ASSUME NEW n \in Nodes
                 PROVE  compute_nodes'[n].current_epoch <= released_epoch'
    BY DEF NoNodeAhead
  <2>2. compute_nodes'[n].current_epoch \in {released_epoch, compute_nodes[n].current_epoch}
    BY <1>1, HandlerTellsPolicy
  <2>3. compute_nodes[n].current_epoch <= released_epoch
    BY DEF TelemetryInv, NoNodeAhead
  <2> QED BY <1>2, <1>4, <2>2, <2>3
<1>6. ASSUME contention_aware'
      PROVE  /\ history' = [n \in Nodes |-> history'[n]]
             /\ \A n \in Nodes :
                  /\ HasContentionShape(history'[n])
                  /\ history'[n].current_epoch = compute_nodes'[n].current_epoch
                  /\ \A epoch \in Nat : compute_nodes'[n].current_epoch = epoch =>
                       history'[n].previous_epoch_stats = SnapshotNow(epoch)'
  <2>1. contention_aware
    BY <1>3, <1>6 DEF contention_aware
  <2>2. /\ history = [n \in Nodes |-> history[n]]
        /\ \A n \in Nodes : /\ HasContentionShape(history[n])
                            /\ history[n].current_epoch = compute_nodes[n].current_epoch
    BY <2>1 DEF TelemetryInv, SnapshotsTaken
  <2>3. /\ history' = [n \in Nodes |-> history'[n]]
        /\ \A n \in Nodes : history'[n] = history[n] \/ n = e.target_id
    <3>1. PICK new : history' = history \/ history' = [history EXCEPT ![e.target_id] = new]
      BY <1>1, HandlerTellsPolicy
    <3>2. history \in [Nodes -> {history[n] : n \in Nodes}]
      BY <2>2
    <3>3. DOMAIN history' = Nodes /\ history' = [n \in DOMAIN history' |-> history'[n]]
      BY <3>1, <3>2
    <3> QED BY <3>1, <3>2, <3>3
  <2>4. ASSUME NEW n \in Nodes, NEW h, h = history'[n], HasContentionShape(h),
               h.current_epoch = history[n].current_epoch,
               h.previous_epoch_stats = history[n].previous_epoch_stats,
               compute_nodes'[n].current_epoch = compute_nodes[n].current_epoch
        PROVE  /\ HasContentionShape(history'[n])
               /\ history'[n].current_epoch = compute_nodes'[n].current_epoch
               /\ \A epoch \in Nat : compute_nodes'[n].current_epoch = epoch =>
                    history'[n].previous_epoch_stats = SnapshotNow(epoch)'
    BY <1>1, <1>3, <2>1, <2>4, NodeKeepsSnapshot
  <2>5. ASSUME NEW n \in Nodes
        PROVE  /\ HasContentionShape(history'[n])
               /\ history'[n].current_epoch = compute_nodes'[n].current_epoch
               /\ \A epoch \in Nat : compute_nodes'[n].current_epoch = epoch =>
                    history'[n].previous_epoch_stats = SnapshotNow(epoch)'
    <3> DEFINE m == e.target_id
    <3>1. CASE /\ history'[n] = history[n]
               /\ compute_nodes'[n].current_epoch = compute_nodes[n].current_epoch
      BY <2>2, <2>4, <3>1
    <3>2. CASE /\ n = m /\ UNCHANGED compute_nodes
               /\ \E r : /\ r.epoch_id = compute_nodes[m].current_epoch
                         /\ history' = [history EXCEPT ![m] = on_lookup(@, stats, r)]
      <4>1. PICK r : /\ r.epoch_id = history[n].current_epoch
                     /\ history'[n] = on_lookup(history[n], stats, r)
        BY <2>2, <3>2
      <4> QED BY <2>1, <2>2, <2>4, <3>2, <4>1, LookupKeepsTelemetry
    <3>3. CASE /\ n = m
               /\ compute_nodes'[n].current_epoch = compute_nodes[n].current_epoch
               /\ \E r, admitted, reason, victims :
                    history' = [history EXCEPT ![m] =
                                  on_admission_result(@, r, admitted, reason, victims)]
      <4>1. PICK r, admitted, reason, victims :
              history'[n] = on_admission_result(history[n], r, admitted, reason, victims)
        BY <2>2, <3>3
      <4> QED BY <2>1, <2>2, <2>4, <3>3, <4>1, DecisionKeepsTelemetry
    <3>4. CASE /\ n = m /\ UNCHANGED stats
               /\ history' = [history EXCEPT ![m] = StartEpochHistory(m, released_epoch)]
               /\ compute_nodes'[n].current_epoch = released_epoch
      <4>1. history'[n] = StartEpochHistory(n, released_epoch)
        BY <2>2, <3>4
      <4>2. CASE compute_nodes[n].current_epoch = released_epoch
        <5>1. history'[n] = history[n]
          BY <4>1, <4>2 DEF StartEpochHistory, EpochStarted
        <5> QED BY <2>2, <2>4, <3>4, <4>2, <5>1
      <4>3. CASE compute_nodes[n].current_epoch # released_epoch
        <5>1. history'[n] = on_epoch_start(history[n], stats, released_epoch)
          BY <4>1, <4>3 DEF StartEpochHistory, EpochStarted
        <5>2. /\ HasContentionShape(history'[n])
              /\ history'[n].current_epoch = released_epoch
              /\ history'[n].previous_epoch_stats = TelemetrySnapshot(stats, released_epoch)
          BY <2>1, <2>2, <4>3, <5>1, EpochStartTakesSnapshot
        <5>3. ASSUME NEW epoch \in Nat, epoch = released_epoch
              PROVE  history'[n].previous_epoch_stats = SnapshotNow(epoch)'
          <6>1. history'[n].previous_epoch_stats = SnapshotNow(epoch)
            BY <5>2, <5>3 DEF SnapshotNow
          <6>2. SnapshotNow(epoch)' = SnapshotNow(epoch)
            BY <1>1, <1>3, <3>4, SnapshotKept
          <6> QED BY <6>1, <6>2
        <5> QED BY <3>4, <5>2, <5>3
      <4> QED BY <4>2, <4>3
    <3> HIDE DEF m
    <3> QED BY <1>1, <2>3, <3>1, <3>2, <3>3, <3>4, HandlerTellsPolicy DEF m
  <2> QED BY <2>3, <2>5
<1> QED BY <1>5, <1>6 DEF SnapshotsTaken

\* Before the run every policy is new.
LEMMA TelemetryInit == Init => TelemetryInv
<1> SUFFICES ASSUME Init PROVE TelemetryInv
  OBVIOUS
<1>1. /\ compute_nodes = [n \in Nodes |-> NewComputeNode]
      /\ history = [n \in Nodes |-> NewHistory] /\ released_epoch = NoEpoch
  BY DEF Init
<1>2. NoNodeAhead
  BY <1>1 DEF NoNodeAhead, NewComputeNode, NoEpoch
<1>3. ASSUME contention_aware PROVE NewHistory = NewContention
  BY <1>3 DEF NewHistory, contention_aware
<1>4. HasContentionShape(NewContention) /\ NewContention.current_epoch = NoEpoch
  BY DEF HasContentionShape, NewContention
<1>5. NewComputeNode.current_epoch = NoEpoch /\ NoEpoch \notin Nat
  BY DEF NewComputeNode, NoEpoch
<1> HIDE DEF Init
<1>6. SnapshotsTaken
  BY <1>1, <1>3, <1>4, <1>5 DEF SnapshotsTaken
<1> QED BY <1>2, <1>6, BarrierInit DEF TelemetryInv, Init

\* Every step keeps the invariant.
LEMMA TelemetryNext == TelemetryInv /\ [Next]_vars => TelemetryInv'
<1> SUFFICES ASSUME TelemetryInv, [Next]_vars PROVE TelemetryInv'
  OBVIOUS
<1>1. BarrierInv' /\ RequestPathInv'
  BY BarrierNext DEF TelemetryInv, BarrierInv
<1>2. AcceptedConfig(config) /\ released_epoch \in Int
  BY DEF TelemetryInv, BarrierInv, RequestPathInv, SimulatorInv, TypeOK, NoEpoch
<1>3. ASSUME UNCHANGED <<config, stats, history, compute_nodes>> PROVE SnapshotsTaken'
  <2>1. \A epoch \in Nat : SnapshotNow(epoch)' = SnapshotNow(epoch)
    BY <1>2, <1>3, SnapshotKept
  <2> QED BY <1>3, <2>1 DEF TelemetryInv, SnapshotsTaken, contention_aware, HasContentionShape
<1>4. CASE Run
  <2>1. UNCHANGED <<config, stats, history, compute_nodes>> /\ status = "constructed"
    BY <1>4 DEF Run
  <2>2. released_epoch' \in Nat \cup {NoEpoch}
    BY <1>1 DEF BarrierInv, RequestPathInv, SimulatorInv, TypeOK
  <2>3. \A n \in Nodes : compute_nodes'[n].current_epoch = NoEpoch
    BY <2>1 DEF TelemetryInv, BarrierInv, NothingBeforeRun, NewComputeNode
  <2>4. NoNodeAhead'
    BY <2>2, <2>3 DEF NoNodeAhead, NoEpoch
  <2> QED BY <1>1, <1>3, <2>1, <2>4 DEF TelemetryInv
<1>5. ASSUME NEW e \in sched.events, MemoryStep(e) \/ ComputeStep(e)
      PROVE  TelemetryInv'
  BY <1>1, <1>5, SnapshotsStep DEF TelemetryInv
<1>6. CASE UNCHANGED vars
  <2>1. UNCHANGED <<config, stats, history, compute_nodes, released_epoch>>
    BY <1>6 DEF vars
  <2>2. NoNodeAhead'
    BY <2>1 DEF TelemetryInv, NoNodeAhead
  <2> QED BY <1>1, <1>3, <2>1, <2>2 DEF TelemetryInv
<1> QED BY <1>4, <1>5, <1>6 DEF Next, Finished

\* What a policy holds is what it would take now.
LEMMA SnapshotsAgree == TelemetryInv => TelemetrySnapshotsAgree
<1> SUFFICES ASSUME TelemetryInv, contention_aware, NEW n \in Nodes,
                    compute_nodes[n].current_epoch # NoEpoch
             PROVE  /\ history[n].current_epoch = compute_nodes[n].current_epoch
                    /\ history[n].previous_epoch_stats
                         = TelemetrySnapshot(stats, history[n].current_epoch)
  BY DEF TelemetrySnapshotsAgree
<1>1. PICK epoch \in Nat : compute_nodes[n].current_epoch = epoch
  BY DEF TelemetryInv, BarrierInv, RequestPathInv, SimulatorInv, TypeOK, ComputeNodeState
<1>2. /\ history[n].current_epoch = epoch
      /\ history[n].previous_epoch_stats = SnapshotNow(epoch)
  BY <1>1 DEF TelemetryInv, SnapshotsTaken
<1> QED BY <1>1, <1>2 DEF SnapshotNow

\* The nodes of a contention-aware run score an epoch by one and the same
\* telemetry, that of the epochs before it, whenever each of them began it
\* (architecture invariant 8).
THEOREM SnapshotsAreShared == Spec => []TelemetrySnapshotsAgree
<1>1. Spec => []TelemetryInv
  BY TelemetryInit, TelemetryNext, PTL DEF Spec
<1> QED BY <1>1, SnapshotsAgree, PTL

-----------------------------------------------------------------------------
(* Telemetry and scores *)

\* A row of contention statistics, and the signals blended from such rows.
ObjectRow ==
  [remote_accesses : Int, requesters : SUBSET Nodes, max_queue_depth : Int,
   total_queue_wait : Int, queue_wait_samples : Int, max_queue_wait : Int,
   total_remote_service_time : Int, bytes_served : Int]

Signals ==
  [remote_accesses : Int, distinct_requesters : Int, bytes_served : Int,
   total_queue_wait : Int, total_remote_service_time : Int]

RowsOK(rows) == IsFiniteSet(DOMAIN rows) /\ rows \in [DOMAIN rows -> ObjectRow]
TelemetryOK(t) == IsFiniteSet(DOMAIN t) /\ t \in [DOMAIN t -> Signals]

\* Sums of integers, weighted by integers, are integers.
LEMMA WeightedSumIsInt ==
  ASSUME NEW values, NEW weight, IsFiniteSet(DOMAIN values),
         \A age \in DOMAIN values : values[age] \in Int /\ weight[age] \in Int
  PROVE  WeightedSum(values, weight) \in Int
<1> DEFINE S == DOMAIN values
           w == [age \in S |-> values[age] * weight[age]]
           Step(f) == [s \in SUBSET S |->
                         IF s = {} THEN 0
                         ELSE values[Pick(s)] * weight[Pick(s)] + f[s \ {Pick(s)}]]
           f == CHOOSE g : g = Step(g)
<1>1. WeightedSum(values, weight) = f[S]
  BY DEF WeightedSum, MapThenSumSet, MapThenFoldSet, Pick
<1>2. \A g : Step(g) = SumStep(w, S, g)
  <2>1. \A s \in SUBSET S : s # {} => values[Pick(s)] * weight[Pick(s)] = w[Pick(s)]
    BY DEF Pick
  <2> HIDE DEF w
  <2> QED BY <2>1 DEF SumStep
<1>3. f = SumStep(w, S, f)
  <2>1. PICK g : g = SumStep(w, S, g)
    BY SumExists
  <2>2. g = Step(g)
    <3> HIDE DEF Step
    <3> QED BY <1>2, <2>1
  <2>3. f = Step(f)
    <3> HIDE DEF Step
    <3> QED BY <2>2
  <2> HIDE DEF Step, f
  <2> QED BY <1>2, <2>3
<1>4. \A age \in S : w[age] \in Int
  <2> SUFFICES ASSUME NEW age \in S PROVE w[age] \in Int
    OBVIOUS
  <2>1. PICK a \in Int, b \in Int : a = values[age] /\ b = weight[age]
    OBVIOUS
  <2> QED BY <2>1
<1> HIDE DEF f, w
<1>5. SumOver(w, S) \in Int
  BY <1>4, SumRemove
<1> QED BY <1>1, <1>3, <1>5, SumIs

\* The weight of an age is an integer.
LEMMA WeightIsInt ==
  ASSUME NEW decay \in Nat, NEW age \in Nat
  PROVE  TelemetryWeight(decay, age) \in Int
<1> DEFINE step == [x \in Int |-> (x * decay) \div Unit]
           Power(f) == [a \in 0 .. age |->
                          IF a = 0 THEN Unit ELSE (f[a - 1] * decay) \div Unit]
           power == CHOOSE f : f = Power(f)
<1>1. TelemetryWeight(decay, age) = power[age]
  BY DEF TelemetryWeight
<1>2. Unit \in Int /\ Unit > 0
  BY DEF Unit
<1>3. \A x \in Int : (x * decay) \div Unit \in Int
  <2> SUFFICES ASSUME NEW x \in Int PROVE (x * decay) \div Unit \in Int
    OBVIOUS
  <2>1. PICK product \in Int : product = x * decay
    OBVIOUS
  <2> QED BY <2>1 DEF Unit
<1>4. step \in [Int -> Int] /\ \A x \in Int : step[x] = (x * decay) \div Unit
  BY <1>3
<1> HIDE DEF step
<1>5. PICK f : f \in [0 .. age -> Int] /\ f = LoopStep(age, Unit, step, f)
  <2>1. PICK D, start : D = Int /\ start \in D /\ start = Unit /\ step \in [D -> D]
    BY <1>2, <1>4
  <2>2. start \in D
    BY <2>1
  <2>3. step \in [D -> D]
    BY <2>1
  <2>4. \E f : f \in [0 .. age -> D] /\ f = LoopStep(age, start, step, f)
    BY <2>2, <2>3, LoopExists
  <2> QED BY <2>1, <2>4
<1>6. f = Power(f)
  <2>1. \A a \in 0 .. age : a # 0 => step[f[a - 1]] = (f[a - 1] * decay) \div Unit
    <3> SUFFICES ASSUME NEW a \in 0 .. age, a # 0
                 PROVE  step[f[a - 1]] = (f[a - 1] * decay) \div Unit
      OBVIOUS
    <3>1. a - 1 \in 0 .. age
      OBVIOUS
    <3>2. f[a - 1] \in Int
      BY <1>5, <3>1
    <3> QED BY <1>4, <3>2
  <2> QED BY <1>5, <2>1 DEF LoopStep
<1>7. power = Power(power)
  <2> HIDE DEF Power
  <2> QED BY <1>6
<1> HIDE DEF power
<1>8. power[0] \in Int
  BY <1>2, <1>7
<1>9. \A k \in 1 .. age : power[k - 1] \in Int => power[k] \in Int
  <2> SUFFICES ASSUME NEW k \in 1 .. age, power[k - 1] \in Int PROVE power[k] \in Int
    OBVIOUS
  <2>1. power[k] = (power[k - 1] * decay) \div Unit
    BY <1>7
  <2> QED BY <1>3, <2>1
<1>10. \A k \in 0 .. age : power[k] \in Int
  <2> HIDE DEF Power
  <2> QED BY <1>8, <1>9, LoopStays
<1> QED BY <1>1, <1>10

\* The snapshot that a policy takes at an epoch start has its type.
LEMMA SnapshotOK ==
  ASSUME AcceptedConfig(config), NEW st, RowsOK(st.contention_by_epoch), NEW epoch \in Nat
  PROVE  TelemetryOK(TelemetrySnapshot(st, epoch))
<1> DEFINE rows == st.contention_by_epoch
           ages == {age \in 0 .. history_epochs - 1 : age < epoch}
           sources == {SourceEpoch(epoch, age) : age \in ages}
           seen == {k[2] : k \in {k \in DOMAIN rows : k[1] \in sources}}
           row(o) == [age \in ages |-> FindOr(rows, <<SourceEpoch(epoch, age), o>>,
                                              ObjectBucket)]
           weight == [age \in ages |-> TelemetryWeight(knobs.telemetry_decay, age)]
<1>1. TelemetrySnapshot(st, epoch) = [o \in seen |-> BlendedStats(row(o), weight)]
  BY DEF TelemetrySnapshot
<1>2. knobs.telemetry_decay \in Nat /\ history_epochs \in Nat
  BY DEF history_epochs, knobs, AcceptedConfig, SimulationConfig, ContentionPolicyConfig
<1>3. IsFiniteSet(ages) /\ ages \subseteq Nat
  <2>1. PICK last \in Int : last = history_epochs - 1
    BY <1>2
  <2>2. IsFiniteSet(0 .. last)
    BY FS_Interval
  <2>3. ages \in SUBSET (0 .. last)
    BY <2>1
  <2> QED BY <2>2, <2>3, FS_Subset
<1>4. IsFiniteSet(seen)
  <2> DEFINE T == {k \in DOMAIN rows : k[1] \in sources}
             second == [k \in T |-> k[2]]
  <2>1. IsFiniteSet(T)
    BY FS_Subset DEF RowsOK
  <2>2. seen = {second[k] : k \in T}
    OBVIOUS
  <2> HIDE DEF T, second, seen
  <2> QED BY <2>1, <2>2, FiniteImage
<1>5. \A age \in ages : weight[age] \in Int
  BY <1>2, <1>3, WeightIsInt
<1> HIDE DEF weight
<1>6. ASSUME NEW o PROVE BlendedStats(row(o), weight) \in Signals
  <2>1. PICK r : r = row(o)
    OBVIOUS
  <2>2. DOMAIN r = ages /\ \A age \in ages : r[age] \in ObjectRow
    <3>1. ObjectBucket \in ObjectRow
      BY DEF ObjectBucket, ObjectRow
    <3> QED BY <2>1, <3>1 DEF FindOr, RowsOK
  <2> HIDE DEF ages
  <2>3. \A age \in ages :
          /\ r[age].remote_accesses \in Int /\ r[age].bytes_served \in Int
          /\ r[age].total_queue_wait \in Int /\ r[age].total_remote_service_time \in Int
          /\ r[age].requesters \in SUBSET Nodes
    BY <2>2 DEF ObjectRow
  <2>4. \A age \in ages : Cardinality(r[age].requesters) \in Int
    <3>1. IsFiniteSet(Nodes)
      BY CountAssumption, FS_Interval DEF Nodes
    <3>2. \A T \in SUBSET Nodes : IsFiniteSet(T)
      BY <3>1, FS_Subset
    <3>3. \A T \in SUBSET Nodes : Cardinality(T) \in Int
      BY <3>2, FS_CardinalityType
    <3> QED BY <2>3, <3>3
  <2>5. PICK accesses, requesters, bytes, waits, services :
          /\ accesses = [age \in ages |-> r[age].remote_accesses]
          /\ requesters = [age \in ages |-> Cardinality(r[age].requesters)]
          /\ bytes = [age \in ages |-> r[age].bytes_served]
          /\ waits = [age \in ages |-> r[age].total_queue_wait]
          /\ services = [age \in ages |-> r[age].total_remote_service_time]
    OBVIOUS
  <2>6. BlendedStats(r, weight) =
          [remote_accesses |-> WeightedSum(accesses, weight),
           distinct_requesters |-> WeightedSum(requesters, weight),
           bytes_served |-> WeightedSum(bytes, weight),
           total_queue_wait |-> WeightedSum(waits, weight),
           total_remote_service_time |-> WeightedSum(services, weight)]
    BY <2>2, <2>5 DEF BlendedStats
  <2>7. ASSUME NEW values, DOMAIN values = ages, \A age \in ages : values[age] \in Int
        PROVE  WeightedSum(values, weight) \in Int
    BY <1>3, <1>5, <2>7, WeightedSumIsInt
  <2>8. WeightedSum(accesses, weight) \in Int
    <3>1. DOMAIN accesses = ages /\ \A age \in ages : accesses[age] \in Int
      BY <2>3, <2>5
    <3> QED BY <2>7, <3>1
  <2>9. WeightedSum(requesters, weight) \in Int
    <3>1. DOMAIN requesters = ages /\ \A age \in ages : requesters[age] \in Int
      BY <2>4, <2>5
    <3> QED BY <2>7, <3>1
  <2>10. WeightedSum(bytes, weight) \in Int
    <3>1. DOMAIN bytes = ages /\ \A age \in ages : bytes[age] \in Int
      BY <2>3, <2>5
    <3> QED BY <2>7, <3>1
  <2>11. WeightedSum(waits, weight) \in Int
    <3>1. DOMAIN waits = ages /\ \A age \in ages : waits[age] \in Int
      BY <2>3, <2>5
    <3> QED BY <2>7, <3>1
  <2>12. WeightedSum(services, weight) \in Int
    <3>1. DOMAIN services = ages /\ \A age \in ages : services[age] \in Int
      BY <2>3, <2>5
    <3> QED BY <2>7, <3>1
  <2> QED BY <2>1, <2>6, <2>8, <2>9, <2>10, <2>11, <2>12 DEF Signals
<1> HIDE DEF row, seen
<1> QED BY <1>1, <1>4, <1>6 DEF TelemetryOK

\* Quotients of integers by positive integers are integers.
LEMMA QuotientIsInt ==
  ASSUME NEW a \in Int, NEW b \in Int, b > 0
  PROVE  a \div b \in Int
OBVIOUS

\* A ratio, a normalized value and a cost are integers.
LEMMA RatioIsInt ==
  ASSUME NEW a \in Int, NEW b \in Int, b > 0
  PROVE  Ratio(a, b) \in Int
<1>1. PICK product \in Int : product = a * Unit
  BY DEF Unit
<1>2. product \div b \in Int
  BY <1>1, QuotientIsInt
<1> QED BY <1>1, <1>2 DEF Ratio

\* Of two integers the lesser is one.
LEMMA LesserIsInt ==
  ASSUME NEW a \in Int, NEW b \in Int
  PROVE  Min({a, b}) \in Int
<1>1. \E x \in {a, b} : \A y \in {a, b} : x <= y
  OBVIOUS
<1>2. Min({a, b}) \in {a, b}
  BY <1>1 DEF Min
<1> QED BY <1>2

\* normalized gives an integer.
LEMMA NormalizedIsInt ==
  ASSUME NEW value \in Int, NEW max \in Int
  PROVE  normalized(value, max) \in Int
<1>1. CASE max <= 0
  BY <1>1 DEF normalized
<1>2. CASE max > 0
  <2>1. Ratio(value, max) \in Int /\ Unit \in Int
    BY <1>2, RatioIsInt DEF Unit
  <2>2. Min({Ratio(value, max), Unit}) \in Int
    BY <2>1, LesserIsInt
  <2> QED BY <2>2 DEF normalized
<1> QED BY <1>1, <1>2

\* cost_per_cache_byte gives an integer.
LEMMA CostIsInt ==
  ASSUME NEW s \in Signals
  PROVE  cost_per_cache_byte(s) \in Int
<1>1. /\ s.remote_accesses \in Int /\ s.bytes_served \in Int
      /\ s.total_queue_wait + s.total_remote_service_time \in Int
  BY DEF Signals
<1>2. PICK size : size = Ratio(s.bytes_served, s.remote_accesses)
  OBVIOUS
<1>3. CASE s.remote_accesses <= 0 \/ s.bytes_served <= 0
  BY <1>3 DEF cost_per_cache_byte
<1>4. CASE ~(s.remote_accesses <= 0 \/ s.bytes_served <= 0)
  <2>1. size \in Int
    BY <1>1, <1>2, <1>4, RatioIsInt
  <2>2. CASE size <= 0
    BY <1>2, <1>4, <2>2 DEF cost_per_cache_byte
  <2>3. CASE ~(size <= 0)
    <3>1. Ratio(s.total_queue_wait + s.total_remote_service_time, size) \in Int
      BY <1>1, <2>1, <2>3, RatioIsInt
    <3> QED BY <1>2, <1>4, <2>3, <3>1 DEF cost_per_cache_byte
  <2> QED BY <2>2, <2>3
<1> QED BY <1>3, <1>4

\* The greatest of finitely many integers and of zero is an integer.
LEMMA GreatestIsInt ==
  ASSUME NEW S, IsFiniteSet(S), NEW f, \A x \in S : f[x] \in Int
  PROVE  Max({0} \cup {f[x] : x \in S}) \in Int
<1> DEFINE image == {f[x] : x \in S}
           T == image \cup {0}
<1>1. IsFiniteSet(T)
  <2>1. IsFiniteSet(image)
    BY FiniteImage
  <2> HIDE DEF image
  <2> QED BY <2>1, FS_AddElement
<1>2. T # {} /\ T \subseteq Int /\ T = {0} \cup image
  OBVIOUS
<1> HIDE DEF T
<1>3. Max(T) \in T
  BY <1>1, <1>2, MaxOfFinite
<1> QED BY <1>2, <1>3

\* The maxima of the signals.
Maxima == [remote_accesses : Int, distinct_requesters : Int, total_queue_wait : Int,
           total_remote_service_time : Int, cost_density : Int]

\* The greatest value of each signal is an integer.
LEMMA MaximaOK ==
  ASSUME NEW h, TelemetryOK(h.previous_epoch_stats)
  PROVE  NormalizationMaxima(h) \in Maxima
<1> DEFINE S == DOMAIN h.previous_epoch_stats
           all == {h.previous_epoch_stats[o] : o \in S}
           accesses == [s \in all |-> s.remote_accesses]
           requesters == [s \in all |-> s.distinct_requesters]
           waits == [s \in all |-> s.total_queue_wait]
           services == [s \in all |-> s.total_remote_service_time]
           costs == [s \in all |-> cost_per_cache_byte(s)]
<1>1. IsFiniteSet(all)
  <2>1. PICK t : t = h.previous_epoch_stats
    OBVIOUS
  <2>2. IsFiniteSet({t[o] : o \in DOMAIN t})
    BY <2>1, FiniteImage DEF TelemetryOK
  <2> QED BY <2>1, <2>2
<1>2. \A s \in all : s \in Signals
  BY DEF TelemetryOK
<1> HIDE DEF all
<1>3. \A s \in all : accesses[s] \in Int /\ requesters[s] \in Int /\ waits[s] \in Int
                     /\ services[s] \in Int
  BY <1>2 DEF Signals
<1>4. \A s \in all : costs[s] \in Int
  BY <1>2, CostIsInt
<1>5. NormalizationMaxima(h) =
        [remote_accesses |-> Max({0} \cup {accesses[s] : s \in all}),
         distinct_requesters |-> Max({0} \cup {requesters[s] : s \in all}),
         total_queue_wait |-> Max({0} \cup {waits[s] : s \in all}),
         total_remote_service_time |-> Max({0} \cup {services[s] : s \in all}),
         cost_density |-> Max({0} \cup {costs[s] : s \in all})]
  <2>1. /\ {accesses[s] : s \in all} = {s.remote_accesses : s \in all}
        /\ {requesters[s] : s \in all} = {s.distinct_requesters : s \in all}
        /\ {waits[s] : s \in all} = {s.total_queue_wait : s \in all}
        /\ {services[s] : s \in all} = {s.total_remote_service_time : s \in all}
        /\ {costs[s] : s \in all} = {cost_per_cache_byte(s) : s \in all}
    OBVIOUS
  <2> HIDE DEF accesses, requesters, waits, services, costs
  <2> QED BY <2>1 DEF NormalizationMaxima, all
<1> HIDE DEF accesses, requesters, waits, services, costs
<1>6. Max({0} \cup {accesses[s] : s \in all}) \in Int
  BY <1>1, <1>3, GreatestIsInt
<1>7. Max({0} \cup {requesters[s] : s \in all}) \in Int
  BY <1>1, <1>3, GreatestIsInt
<1>8. Max({0} \cup {waits[s] : s \in all}) \in Int
  BY <1>1, <1>3, GreatestIsInt
<1>9. Max({0} \cup {services[s] : s \in all}) \in Int
  BY <1>1, <1>3, GreatestIsInt
<1>10. Max({0} \cup {costs[s] : s \in all}) \in Int
  BY <1>1, <1>4, GreatestIsInt
<1> QED BY <1>5, <1>6, <1>7, <1>8, <1>9, <1>10 DEF Maxima

\* Products of integers are integers.
LEMMA ProductIsInt ==
  ASSUME NEW a \in Int, NEW b \in Int
  PROVE  a * b \in Int
OBVIOUS

\* The telemetry part of a score.
LEMMA TelemetryScoreIsInt ==
  ASSUME NEW s \in Signals, NEW maxima \in Maxima, NEW w \in ContentionPolicyWeights
  PROVE  TelemetryScore(s, maxima, w) \in Int
<1>1. /\ w.remote_access \in Int /\ w.distinct_requester \in Int /\ w.queue_wait \in Int
      /\ w.remote_service_time \in Int /\ w.cost_density \in Int
  BY DEF ContentionPolicyWeights
<1>2. PICK access, requester, queue, service, cost :
        /\ access = normalized(s.remote_accesses, maxima.remote_accesses)
        /\ requester = normalized(s.distinct_requesters, maxima.distinct_requesters)
        /\ queue = normalized(s.total_queue_wait, maxima.total_queue_wait)
        /\ service = normalized(s.total_remote_service_time,
                                maxima.total_remote_service_time)
        /\ cost = normalized(cost_per_cache_byte(s), maxima.cost_density)
  OBVIOUS
<1>3. /\ s.remote_accesses \in Int /\ s.distinct_requesters \in Int
      /\ s.total_queue_wait \in Int /\ s.total_remote_service_time \in Int
      /\ cost_per_cache_byte(s) \in Int
  BY CostIsInt DEF Signals
<1>4. /\ maxima.remote_accesses \in Int /\ maxima.distinct_requesters \in Int
      /\ maxima.total_queue_wait \in Int /\ maxima.total_remote_service_time \in Int
      /\ maxima.cost_density \in Int
  BY DEF Maxima
<1>5. access \in Int /\ requester \in Int
  BY <1>2, <1>3, <1>4, NormalizedIsInt
<1>6. queue \in Int /\ service \in Int
  BY <1>2, <1>3, <1>4, NormalizedIsInt
<1>7. cost \in Int
  BY <1>2, <1>3, <1>4, NormalizedIsInt
<1>8. /\ w.remote_access * access \in Int /\ w.distinct_requester * requester \in Int
      /\ w.queue_wait * queue \in Int /\ w.remote_service_time * service \in Int
      /\ w.cost_density * cost \in Int
  BY <1>1, <1>5, <1>6, <1>7, ProductIsInt
<1>9. PICK a, b, c, d, e : /\ a = w.remote_access * access
                           /\ b = w.distinct_requester * requester
                           /\ c = w.queue_wait * queue
                           /\ d = w.remote_service_time * service
                           /\ e = w.cost_density * cost
  OBVIOUS
<1>10. TelemetryScore(s, maxima, w) = a + b + c + d + e
  BY <1>2, <1>9 DEF TelemetryScore
<1> QED BY <1>8, <1>9, <1>10

\* A score is an integer.
LEMMA ScoreIsInt ==
  ASSUME AcceptedConfig(config), NEW h, CountsOK(h.access_counts),
         TelemetryOK(h.previous_epoch_stats), NEW o, NEW size \in SimTime
  PROVE  score_object(h, o, size) \in Int
<1>1. /\ knobs.weights \in ContentionPolicyWeights /\ knobs.local_hotness_threshold \in Int
      /\ config.capacity_bytes \in SimTime
  BY DEF knobs, AcceptedConfig, SimulationConfig, ContentionPolicyConfig
<1>2. knobs.weights.local_hotness \in Int /\ knobs.weights.size_penalty \in Int
  BY <1>1 DEF ContentionPolicyWeights
<1>3. PICK heat, telemetry, penalty :
        /\ heat = normalized(count_for(h, o), knobs.local_hotness_threshold)
        /\ telemetry = IF o \notin DOMAIN h.previous_epoch_stats THEN 0
                       ELSE TelemetryScore(h.previous_epoch_stats[o],
                                           NormalizationMaxima(h), knobs.weights)
        /\ penalty = size_penalty(size)
  OBVIOUS
<1>4. heat \in Int
  <2>1. count_for(h, o) \in Int
    BY DEF count_for, FindOr, CountsOK
  <2> QED BY <1>1, <1>3, <2>1, NormalizedIsInt
<1>5. telemetry \in Int
  <2>1. CASE o \notin DOMAIN h.previous_epoch_stats
    BY <1>3, <2>1
  <2>2. CASE o \in DOMAIN h.previous_epoch_stats
    <3>1. h.previous_epoch_stats[o] \in Signals
      BY <2>2 DEF TelemetryOK
    <3> QED BY <1>1, <1>3, <2>2, <3>1, MaximaOK, TelemetryScoreIsInt
  <2> QED BY <2>1, <2>2
<1>6. penalty \in Int
  <2>1. CASE config.capacity_bytes = 0
    BY <1>3, <2>1 DEF size_penalty, Unit
  <2>2. CASE config.capacity_bytes # 0
    <3>1. size \in Int /\ config.capacity_bytes \in Int /\ config.capacity_bytes > 0
      BY <1>1, <2>2, RangeAssumption DEF SimTime
    <3>2. Ratio(size, config.capacity_bytes) \in Int /\ Unit \in Int
      BY <3>1, RatioIsInt DEF Unit
    <3>3. Min({Ratio(size, config.capacity_bytes), Unit}) \in Int
      BY <3>2, LesserIsInt
    <3> QED BY <1>3, <2>2, <3>3 DEF size_penalty
  <2> QED BY <2>1, <2>2
<1>7. PICK a, b : /\ a = knobs.weights.local_hotness * heat
                  /\ b = knobs.weights.size_penalty * penalty
  OBVIOUS
<1>8. a \in Int /\ b \in Int
  BY <1>2, <1>4, <1>6, <1>7, ProductIsInt
<1>9. score_object(h, o, size) = (a + telemetry - b) \div Unit
  BY <1>3, <1>7 DEF score_object
<1>10. (a + telemetry - b) \div Unit \in Int
  <2>1. PICK total \in Int : total = a + telemetry - b
    BY <1>5, <1>8
  <2> QED BY <2>1 DEF Unit
<1> QED BY <1>9, <1>10

-----------------------------------------------------------------------------
(* The rows that telemetry is made of *)

\* The object row of a request takes the place of the one before.
BooksRow(before, after) ==
  \/ after = before
  \/ \E k \in DOMAIN after : \E row \in ObjectRow : after = Assign(before, k, row)

\* A row in place of another, or a new one, keeps the type.
LEMMA RowsStayOK ==
  ASSUME NEW before, RowsOK(before), NEW after, BooksRow(before, after)
  PROVE  RowsOK(after)
<1>1. CASE after = before
  BY <1>1
<1>2. CASE \E k \in DOMAIN after : \E row \in ObjectRow : after = Assign(before, k, row)
  <2>1. PICK k, row : row \in ObjectRow /\ after = Assign(before, k, row)
    BY <1>2
  <2>2. DOMAIN after = DOMAIN before \cup {k} /\ IsFiniteSet(DOMAIN before \cup {k})
    BY <2>1, FS_AddElement DEF Assign, RowsOK
  <2>3. after \in [DOMAIN after -> ObjectRow]
    BY <2>1 DEF Assign, RowsOK
  <2> QED BY <2>2, <2>3 DEF RowsOK
<1> QED BY <1>1, <1>2 DEF BooksRow

\* UpdateBuckets books on one row.
LEMMA UpdateBooksRow ==
  ASSUME NEW st, HasStatsShape(st), NEW r, NEW channel, NEW row \in ObjectRow, NEW channel_row
  PROVE  BooksRow(st.contention_by_epoch,
                  UpdateBuckets(st, r, channel, row, channel_row).contention_by_epoch)
<1>1. PICK latencies, hits, misses, waits, depth, objects, by_channel :
        st = [latencies |-> latencies, local_cache_hits |-> hits,
              local_cache_misses |-> misses, memory_waits |-> waits,
              peak_memory_queue_depth |-> depth, contention_by_epoch |-> objects,
              channel_contention_by_epoch |-> by_channel]
  BY DEF HasStatsShape
<1>2. PICK key, rows, channel_rows :
        /\ key = <<r.epoch_id, r.object_id>>
        /\ rows = Assign(objects, key, row)
        /\ channel_rows = Assign(by_channel, <<r.epoch_id, channel>>, channel_row)
  OBVIOUS
<1>3. PICK t : t = UpdateBuckets(st, r, channel, row, channel_row)
  OBVIOUS
<1>4. t = [st EXCEPT !.contention_by_epoch = rows, !.channel_contention_by_epoch = channel_rows]
  BY <1>1, <1>2, <1>3 DEF UpdateBuckets
<1>5. t.contention_by_epoch = rows /\ st.contention_by_epoch = objects
  BY <1>1, <1>4
<1>6. key \in DOMAIN rows
  BY <1>2 DEF Assign
<1> QED BY <1>2, <1>3, <1>5, <1>6 DEF BooksRow

\* The three ways of booking, on a row of this type.
LEMMA RowUpdates ==
  ASSUME NEW b \in ObjectRow, NEW x \in Int, NEW y \in Int, NEW n \in Nodes
  PROVE  /\ [[b EXCEPT !.remote_accesses = @ + 1, !.max_queue_depth = AtLeast(@, x)]
               EXCEPT !.requesters = @ \cup {n}] \in ObjectRow
         /\ [b EXCEPT !.total_queue_wait = @ + x, !.queue_wait_samples = @ + 1,
                      !.max_queue_wait = AtLeast(@, x)] \in ObjectRow
         /\ [b EXCEPT !.total_remote_service_time = @ + x, !.bytes_served = @ + y] \in ObjectRow
<1>1. PICK accesses \in Int, requesters \in SUBSET Nodes, depth \in Int, waits \in Int,
           samples \in Int, longest \in Int, services \in Int, bytes \in Int :
        b = [remote_accesses |-> accesses, requesters |-> requesters,
             max_queue_depth |-> depth, total_queue_wait |-> waits,
             queue_wait_samples |-> samples, max_queue_wait |-> longest,
             total_remote_service_time |-> services, bytes_served |-> bytes]
  <2>1. b = [remote_accesses |-> b.remote_accesses, requesters |-> b.requesters,
             max_queue_depth |-> b.max_queue_depth, total_queue_wait |-> b.total_queue_wait,
             queue_wait_samples |-> b.queue_wait_samples,
             max_queue_wait |-> b.max_queue_wait,
             total_remote_service_time |-> b.total_remote_service_time,
             bytes_served |-> b.bytes_served]
    BY DEF ObjectRow
  <2>2. /\ b.remote_accesses \in Int /\ b.requesters \in SUBSET Nodes
        /\ b.max_queue_depth \in Int /\ b.total_queue_wait \in Int
        /\ b.queue_wait_samples \in Int /\ b.max_queue_wait \in Int
        /\ b.total_remote_service_time \in Int /\ b.bytes_served \in Int
    BY DEF ObjectRow
  <2> QED BY <2>1, <2>2
<1>2. PICK deeper, longer, more, accessed, waited, again, served, sent :
        /\ deeper = AtLeast(depth, x) /\ longer = AtLeast(longest, x)
        /\ more = requesters \cup {n}
        /\ waited = waits + x /\ again = samples + 1
        /\ served = services + x /\ sent = bytes + y /\ accessed = accesses + 1
  OBVIOUS
<1>3. /\ deeper \in Int /\ longer \in Int /\ more \in SUBSET Nodes
      /\ waited \in Int /\ again \in Int /\ served \in Int /\ sent \in Int
      /\ accessed \in Int
  BY <1>2 DEF AtLeast
<1>4. [[b EXCEPT !.remote_accesses = @ + 1, !.max_queue_depth = AtLeast(@, x)]
         EXCEPT !.requesters = @ \cup {n}] \in ObjectRow
  <2>1. b.remote_accesses + 1 = accessed /\ AtLeast(b.max_queue_depth, x) = deeper
    BY <1>1, <1>2
  <2>2. PICK d : d = [b EXCEPT !.remote_accesses = accessed, !.max_queue_depth = deeper]
    OBVIOUS
  <2>3. d = [remote_accesses |-> accessed, requesters |-> requesters,
             max_queue_depth |-> deeper, total_queue_wait |-> waits,
             queue_wait_samples |-> samples, max_queue_wait |-> longest,
             total_remote_service_time |-> services, bytes_served |-> bytes]
    BY <1>1, <2>2
  <2>4. d.requesters \cup {n} = more
    BY <1>2, <2>3
  <2>5. PICK f : f = [d EXCEPT !.requesters = more]
    OBVIOUS
  <2>6. f = [remote_accesses |-> accessed, requesters |-> more,
             max_queue_depth |-> deeper, total_queue_wait |-> waits,
             queue_wait_samples |-> samples, max_queue_wait |-> longest,
             total_remote_service_time |-> services, bytes_served |-> bytes]
    BY <2>3, <2>5
  <2>7. f \in ObjectRow
    BY <1>3, <2>6 DEF ObjectRow
  <2> QED BY <2>1, <2>2, <2>4, <2>5, <2>7
<1>5. [b EXCEPT !.total_queue_wait = @ + x, !.queue_wait_samples = @ + 1,
                !.max_queue_wait = AtLeast(@, x)] \in ObjectRow
  <2>1. /\ b.total_queue_wait + x = waited /\ b.queue_wait_samples + 1 = again
        /\ AtLeast(b.max_queue_wait, x) = longer
    BY <1>1, <1>2
  <2>2. PICK d : d = [b EXCEPT !.total_queue_wait = waited, !.queue_wait_samples = again,
                               !.max_queue_wait = longer]
    OBVIOUS
  <2>3. d = [remote_accesses |-> accesses, requesters |-> requesters,
             max_queue_depth |-> depth, total_queue_wait |-> waited,
             queue_wait_samples |-> again, max_queue_wait |-> longer,
             total_remote_service_time |-> services, bytes_served |-> bytes]
    BY <1>1, <2>2
  <2>4. d \in ObjectRow
    BY <1>3, <2>3 DEF ObjectRow
  <2> QED BY <2>1, <2>2, <2>4
<1>6. [b EXCEPT !.total_remote_service_time = @ + x, !.bytes_served = @ + y] \in ObjectRow
  <2>1. b.total_remote_service_time + x = served /\ b.bytes_served + y = sent
    BY <1>1, <1>2
  <2>2. PICK d : d = [b EXCEPT !.total_remote_service_time = served, !.bytes_served = sent]
    OBVIOUS
  <2>3. d = [remote_accesses |-> accesses, requesters |-> requesters,
             max_queue_depth |-> depth, total_queue_wait |-> waits,
             queue_wait_samples |-> samples, max_queue_wait |-> longest,
             total_remote_service_time |-> served, bytes_served |-> sent]
    BY <1>1, <2>2
  <2>4. d \in ObjectRow
    BY <1>3, <2>3 DEF ObjectRow
  <2> QED BY <2>1, <2>2, <2>4
<1> QED BY <1>4, <1>5, <1>6

\* A handler books on one row at most.
LEMMA HandlerBooksRow ==
  ASSUME SimulatorInv, HasStatsShape(stats), RowsOK(stats.contention_by_epoch),
         NEW e \in sched.events, MemoryStep(e) \/ ComputeStep(e)
  PROVE  BooksRow(stats.contention_by_epoch, stats'.contention_by_epoch)
<1> DEFINE r == request_table[e.request_id]
           c == channel_for(r)
           rows == stats.contention_by_epoch
<1>1. CASE UNCHANGED stats
  BY <1>1 DEF BooksRow
<1>2. CASE \E v : \/ stats' = [stats EXCEPT !.latencies = v]
                    \/ stats' = [stats EXCEPT !.local_cache_hits = v]
                    \/ stats' = [stats EXCEPT !.local_cache_misses = v]
  <2>1. PICK v : \/ stats' = [stats EXCEPT !.latencies = v]
                 \/ stats' = [stats EXCEPT !.local_cache_hits = v]
                 \/ stats' = [stats EXCEPT !.local_cache_misses = v]
    BY <1>2
  <2>2. ASSUME stats' = [stats EXCEPT !.latencies = v]
        PROVE  stats'.contention_by_epoch = rows
    BY <2>2, CountersKeepRows
  <2>3. ASSUME stats' = [stats EXCEPT !.local_cache_hits = v]
        PROVE  stats'.contention_by_epoch = rows
    BY <2>3, CountersKeepRows
  <2>4. ASSUME stats' = [stats EXCEPT !.local_cache_misses = v]
        PROVE  stats'.contention_by_epoch = rows
    BY <2>4, CountersKeepRows
  <2>5. stats'.contention_by_epoch = rows
    BY <2>1, <2>2, <2>3, <2>4
  <2> QED BY <2>5 DEF BooksRow
<1>3. ASSUME NEW type, type # "GenerateRequest", Dispatch(e, type, {MemoryNodeId})
      PROVE  r \in Request /\ AcceptedConfig(config)
  BY <1>3, DispatchFacts DEF SimulatorInv, TypeOK
<1>4. ASSUME NEW st, st.contention_by_epoch = rows
      PROVE  contention_bucket(st, r) \in ObjectRow
  <2>1. ObjectBucket \in ObjectRow
    BY DEF ObjectBucket, ObjectRow
  <2> QED BY <1>4, <2>1 DEF contention_bucket, FindOr, RowsOK
<1>5. CASE handle_forward_to_memory(e)
  <2>1. PICK st, queue :
          /\ queue = Enqueue(channels[c].queued_requests, e.request_id)
          /\ st = [stats EXCEPT !.peak_memory_queue_depth = AtLeast(@, Len(queue))]
          /\ stats' = record_remote_access(st, r, c, Len(queue))
    BY <1>5 DEF handle_forward_to_memory, observe_memory_queue_depth
  <2>2. HasStatsShape(st) /\ st.contention_by_epoch = rows
    <3>1. PICK v : v = AtLeast(stats.peak_memory_queue_depth, Len(queue))
      OBVIOUS
    <3>2. st = [stats EXCEPT !.peak_memory_queue_depth = v]
      BY <2>1, <3>1
    <3> QED BY <3>2, CountersKeepRows
  <2>3. r \in Request /\ e.request_id \in Issued /\ AcceptedConfig(config)
    BY <1>5, DispatchFacts DEF SimulatorInv, TypeOK, handle_forward_to_memory
  <2>4. Len(queue) \in Int
    <3>1. c \in ChannelIds
      BY <2>3, ChannelForType
    <3>2. channels[c].queued_requests \in Seq(Nat)
      BY <3>1 DEF SimulatorInv, TypeOK, ChannelState
    <3>3. e.request_id \in Nat
      BY <2>3 DEF Issued, SimulatorInv, TypeOK
    <3> QED BY <2>1, <3>2, <3>3 DEF Enqueue
  <2>5. r.source_node_id \in Nodes
    BY <2>3 DEF Request
  <2>6. PICK row, channel_row :
          /\ row = [[contention_bucket(st, r) EXCEPT
                       !.remote_accesses = @ + 1,
                       !.max_queue_depth = AtLeast(@, Len(queue))]
                      EXCEPT !.requesters = @ \cup {r.source_node_id}]
          /\ stats' = UpdateBuckets(st, r, c, row, channel_row)
    BY <2>1 DEF record_remote_access
  <2>7. row \in ObjectRow
    BY <1>4, <2>2, <2>4, <2>5, <2>6, RowUpdates
  <2>8. BooksRow(st.contention_by_epoch, stats'.contention_by_epoch)
    BY <2>2, <2>6, <2>7, UpdateBooksRow
  <2> QED BY <2>2, <2>8
<1>6. CASE handle_memory_service_start(e)
  <2>1. PICK st, wait :
          /\ wait = e.time - r.memory_enqueue_time
          /\ st = [stats EXCEPT !.memory_waits = Append(@, wait)]
          /\ stats' = stats \/ stats' = record_object_queue_wait(st, r, c, wait)
    BY <1>6 DEF handle_memory_service_start, record_memory_wait
  <2>2. HasStatsShape(st) /\ st.contention_by_epoch = rows
    <3>1. PICK v : v = Append(stats.memory_waits, wait)
      OBVIOUS
    <3>2. st = [stats EXCEPT !.memory_waits = v]
      BY <2>1, <3>1
    <3> QED BY <3>2, CountersKeepRows
  <2>3. r \in Request
    BY <1>3, <1>6 DEF handle_memory_service_start
  <2>4. wait \in Int /\ r.source_node_id \in Nodes
    <3>1. e.time \in Int
      BY RangeAssumption DEF SimulatorInv, TypeOK, SchedulerState, Event, SimTime
    <3> QED BY <2>1, <2>3, <3>1, RangeAssumption DEF Request, SimTime
  <2>5. CASE stats' = record_object_queue_wait(st, r, c, wait)
    <3>1. PICK row, channel_row :
            /\ row = [contention_bucket(st, r) EXCEPT
                        !.total_queue_wait = @ + wait, !.queue_wait_samples = @ + 1,
                        !.max_queue_wait = AtLeast(@, wait)]
            /\ stats' = UpdateBuckets(st, r, c, row, channel_row)
      BY <2>5 DEF record_object_queue_wait
    <3>2. row \in ObjectRow
      BY <1>4, <2>2, <2>4, <3>1, RowUpdates
    <3>3. BooksRow(st.contention_by_epoch, stats'.contention_by_epoch)
      BY <2>2, <3>1, <3>2, UpdateBooksRow
    <3> QED BY <2>2, <3>3
  <2> QED BY <1>1, <2>1, <2>5
<1>7. CASE handle_memory_service_complete(e)
  <2>1. stats' = stats \/ stats' = record_object_service(stats, r, c, service_time_for(r))
    BY <1>7 DEF handle_memory_service_complete
  <2>2. r \in Request /\ AcceptedConfig(config)
    BY <1>3, <1>7 DEF handle_memory_service_complete
  <2>3. PICK service : service = service_time_for(r)
    OBVIOUS
  <2>4. service \in Int /\ r.size_bytes \in Int /\ r.source_node_id \in Nodes
    BY <2>2, <2>3, ServiceTimeType, RangeAssumption DEF Request, SimTime
  <2>5. CASE stats' = record_object_service(stats, r, c, service)
    <3>1. PICK row, channel_row :
            /\ row = [contention_bucket(stats, r) EXCEPT
                        !.total_remote_service_time = @ + service,
                        !.bytes_served = @ + r.size_bytes]
            /\ stats' = UpdateBuckets(stats, r, c, row, channel_row)
      BY <2>5 DEF record_object_service
    <3>2. row \in ObjectRow
      BY <1>4, <2>4, <3>1, RowUpdates
    <3> QED BY <3>1, <3>2, UpdateBooksRow
  <2> QED BY <1>1, <2>1, <2>3, <2>5
<1>8. CASE ComputeStep(e)
  <2>1. \/ UNCHANGED stats
        \/ \E n, latency : stats' = record_latency(stats, n, latency)
        \/ \E n : stats' = record_cache_hit(stats, n)
        \/ \E n : stats' = record_cache_miss(stats, n)
    BY <1>8 DEF ComputeStep, handle_generate_request, handle_local_cache_lookup,
       handle_local_cache_hit_complete, handle_return_response, handle_request_complete, Complete
  <2> QED BY <1>1, <1>2, <2>1 DEF record_latency, record_cache_hit, record_cache_miss
<1> QED BY <1>5, <1>6, <1>7, <1>8 DEF MemoryStep

-----------------------------------------------------------------------------
(* Counts that remember lookups *)

\* A table of lookups: the object and the epoch of each, none of a later epoch
\* than the current one.
IsLookups(L, current) ==
  /\ IsFiniteSet(DOMAIN L)
  /\ L \in [DOMAIN L -> [object : Nat, epoch : Nat]]
  /\ \A id \in DOMAIN L : L[id].epoch <= current

\* The lookups for an object since an epoch, and those of an epoch and object.
Since(L, o, first) == {id \in DOMAIN L : L[id].object = o /\ L[id].epoch >= first}
InBucket(L, k) == {id \in DOMAIN L : <<L[id].epoch, L[id].object>> = k}

\* The totals count the lookups since an epoch.
Remembers(totals, L, first) ==
  CountsOK(totals) /\ \A o : FindOr(totals, o, 0) = Cardinality(Since(L, o, first))

\* There is a count by epoch and object for each lookup since an epoch.
CountedByEpoch(by_epoch, L, first) ==
  /\ CountsOK(by_epoch)
  /\ \A k \in DOMAIN by_epoch : /\ k \in Nat \X Nat /\ k[1] >= first
                                /\ InBucket(L, k) # {}
                                /\ by_epoch[k] = Cardinality(InBucket(L, k))
  /\ \A id \in DOMAIN L : L[id].epoch >= first =>
       <<L[id].epoch, L[id].object>> \in DOMAIN by_epoch

\* A lookup more in the current epoch, counted once.
LEMMA LookupRemembered ==
  ASSUME NEW current \in Nat, NEW L, IsLookups(L, current), NEW id, id \notin DOMAIN L,
         NEW o \in Nat, NEW M, M = Assign(L, id, [object |-> o, epoch |-> current])
  PROVE  /\ IsLookups(M, current)
         /\ \A totals, first : first \in Int /\ first <= current /\ Remembers(totals, L, first)
              => Remembers(Increment(totals, o), M, first)
         /\ \A by_epoch, first :
              first \in Int /\ first <= current /\ CountedByEpoch(by_epoch, L, first)
                => CountedByEpoch(Increment(by_epoch, <<current, o>>), M, first)
<1> DEFINE row == [object |-> o, epoch |-> current]
<1>1. /\ DOMAIN M = DOMAIN L \cup {id} /\ M[id] = row
      /\ \A i \in DOMAIN L : M[i] = L[i]
      /\ M = [i \in DOMAIN M |-> M[i]]
  BY DEF Assign
<1>2. IsLookups(M, current)
  <2>1. IsFiniteSet(DOMAIN M)
    BY <1>1, FS_AddElement DEF IsLookups
  <2>2. row \in [object : Nat, epoch : Nat] /\ row.epoch <= current
    OBVIOUS
  <2> HIDE DEF row
  <2>3. \A i \in DOMAIN M : M[i] \in [object : Nat, epoch : Nat] /\ M[i].epoch <= current
    BY <1>1, <2>2 DEF IsLookups
  <2> QED BY <1>1, <2>1, <2>3 DEF IsLookups
<1>3. ASSUME NEW totals, NEW first \in Int, first <= current, Remembers(totals, L, first)
      PROVE  Remembers(Increment(totals, o), M, first)
  <2>1. PICK g : g = Increment(totals, o)
    OBVIOUS
  <2>2. /\ CountsOK(g) /\ DOMAIN g = DOMAIN totals \cup {o}
        /\ g[o] = FindOr(totals, o, 0) + 1
        /\ \A p \in DOMAIN totals \ {o} : g[p] = totals[p]
    <3>1. CountsOK(totals)
      BY <1>3 DEF Remembers
    <3>2. OneMoreOf(totals, o, g)
      BY <2>1, <3>1, IncrementIs
    <3> QED BY <3>2 DEF OneMoreOf
  <2>3. ASSUME NEW p PROVE FindOr(g, p, 0) = Cardinality(Since(M, p, first))
    <3>1. IsFiniteSet(Since(L, p, first))
      BY FS_Subset DEF IsLookups, Since
    <3>2. CASE p = o
      <4>1. Since(M, p, first) = Since(L, p, first) \cup {id}
        BY <1>1, <1>3, <3>2 DEF Since
      <4>2. id \notin Since(L, p, first)
        BY DEF Since
      <4>3. Cardinality(Since(M, p, first)) = Cardinality(Since(L, p, first)) + 1
        BY <3>1, <4>1, <4>2, FS_AddElement
      <4>4. FindOr(g, p, 0) = FindOr(totals, p, 0) + 1
        BY <2>2, <3>2 DEF FindOr
      <4> QED BY <1>3, <4>3, <4>4 DEF Remembers
    <3>3. CASE p # o
      <4>1. Since(M, p, first) = Since(L, p, first)
        BY <1>1, <3>3 DEF Since
      <4>2. FindOr(g, p, 0) = FindOr(totals, p, 0)
        BY <2>2, <3>3 DEF FindOr
      <4> QED BY <1>3, <4>1, <4>2 DEF Remembers
    <3> QED BY <3>2, <3>3
  <2> QED BY <2>1, <2>2, <2>3 DEF Remembers
<1>4. ASSUME NEW by_epoch, NEW first \in Int, first <= current,
             CountedByEpoch(by_epoch, L, first)
      PROVE  CountedByEpoch(Increment(by_epoch, <<current, o>>), M, first)
  <2>1. PICK key, g : key = <<current, o>> /\ g = Increment(by_epoch, key)
    OBVIOUS
  <2>2. /\ CountsOK(g) /\ DOMAIN g = DOMAIN by_epoch \cup {key}
        /\ g[key] = FindOr(by_epoch, key, 0) + 1
        /\ \A k \in DOMAIN by_epoch \ {key} : g[k] = by_epoch[k]
    <3>1. CountsOK(by_epoch)
      BY <1>4 DEF CountedByEpoch
    <3>2. OneMoreOf(by_epoch, key, g)
      BY <2>1, <3>1, IncrementIs
    <3> QED BY <3>2 DEF OneMoreOf
  <2>3. key \in Nat \X Nat /\ key[1] >= first
    BY <1>4, <2>1
  <2>4. ASSUME NEW k PROVE IsFiniteSet(InBucket(L, k))
    BY FS_Subset DEF IsLookups, InBucket
  <2>5. InBucket(M, key) = InBucket(L, key) \cup {id} /\ id \notin InBucket(L, key)
    BY <1>1, <2>1 DEF InBucket
  <2>6. \A k : k # key => InBucket(M, k) = InBucket(L, k)
    BY <1>1, <2>1 DEF InBucket
  <2>7. Cardinality(InBucket(M, key)) = Cardinality(InBucket(L, key)) + 1
    BY <2>4, <2>5, FS_AddElement
  <2>8. FindOr(by_epoch, key, 0) = Cardinality(InBucket(L, key))
    <3>1. CASE key \in DOMAIN by_epoch
      BY <1>4, <3>1 DEF FindOr, CountedByEpoch
    <3>2. CASE key \notin DOMAIN by_epoch
      <4>1. InBucket(L, key) = {}
        <5> SUFFICES ASSUME NEW i \in InBucket(L, key) PROVE FALSE
          OBVIOUS
        <5>1. i \in DOMAIN L /\ <<L[i].epoch, L[i].object>> = key
          BY DEF InBucket
        <5>2. L[i].epoch >= first
          BY <1>4, <2>1, <5>1
        <5> QED BY <1>4, <3>2, <5>1, <5>2 DEF CountedByEpoch
      <4> QED BY <3>2, <4>1, FS_EmptySet DEF FindOr
    <3> QED BY <3>1, <3>2
  <2>9. \A k \in DOMAIN g : /\ k \in Nat \X Nat /\ k[1] >= first
                            /\ InBucket(M, k) # {}
                            /\ g[k] = Cardinality(InBucket(M, k))
    BY <1>4, <2>2, <2>3, <2>5, <2>6, <2>7, <2>8 DEF CountedByEpoch
  <2>10. \A i \in DOMAIN M : M[i].epoch >= first =>
           <<M[i].epoch, M[i].object>> \in DOMAIN g
    BY <1>1, <1>4, <2>1, <2>2 DEF CountedByEpoch
  <2> QED BY <2>1, <2>2, <2>9, <2>10 DEF CountedByEpoch
<1> QED BY <1>2, <1>3, <1>4

\* The counts of the epochs that are over leave the totals with their keys, and
\* what is left counts the lookups since a later epoch.
LEMMA OldCountsLeave ==
  ASSUME NEW current \in Int, NEW L, IsLookups(L, current),
         NEW totals, NEW by_epoch, NEW first \in Int, NEW later \in Int, first <= later,
         Remembers(totals, L, first), CountedByEpoch(by_epoch, L, first),
         NEW old, old = {k \in DOMAIN by_epoch : k[1] < later}
  PROVE  /\ Remembers(SubtractCounts(totals, by_epoch, old), L, later)
         /\ CountedByEpoch(DropKeys(by_epoch, old), L, later)
<1>1. CountsOK(totals) /\ CountsOK(by_epoch) /\ old \in SUBSET DOMAIN by_epoch
  BY DEF Remembers, CountedByEpoch
<1>2. \A id \in DOMAIN L : L[id].epoch \in Nat /\ L[id].object \in Nat
  BY DEF IsLookups
<1>3. PICK g : g = SubtractCounts(totals, by_epoch, old)
  OBVIOUS
<1>4. /\ CountsOK(g)
      /\ \A o : Leaving(by_epoch, old, o) <= FindOr(totals, o, 0)
                  => FindOr(g, o, 0) = FindOr(totals, o, 0) - Leaving(by_epoch, old, o)
  BY <1>1, <1>3, SubtractIs DEF WithoutOld
<1>5. ASSUME NEW o PROVE FindOr(g, o, 0) = Cardinality(Since(L, o, later))
  <2> DEFINE K == {k \in old : k[2] = o}
             A == [k \in K |-> InBucket(L, k)]
             U == UnionOf(A, K)
             all == Since(L, o, first)
             kept == Since(L, o, later)
  <2>1. IsFiniteSet(K)
    BY <1>1, FS_Subset DEF CountsOK
  <2>2. \A k \in K : IsFiniteSet(A[k]) /\ by_epoch[k] = Cardinality(A[k])
    <3> SUFFICES ASSUME NEW k \in K
                 PROVE  IsFiniteSet(InBucket(L, k)) /\ by_epoch[k] = Cardinality(InBucket(L, k))
      OBVIOUS
    <3>1. IsFiniteSet(InBucket(L, k))
      BY FS_Subset DEF InBucket, IsLookups
    <3> QED BY <3>1 DEF CountedByEpoch
  <2>3. \A j, k \in K : j # k => A[j] \cap A[k] = {}
    BY DEF InBucket
  <2>4. U = all \ kept
    <3>1. ASSUME NEW id \in U PROVE id \in all \ kept
      <4>1. PICK k \in K : id \in InBucket(L, k)
        BY DEF UnionOf
      <4>2. k \in Nat \X Nat /\ k[1] >= first /\ k[1] < later /\ k[2] = o
        BY DEF CountedByEpoch
      <4>3. id \in DOMAIN L /\ L[id].epoch = k[1] /\ L[id].object = o
        BY <4>1, <4>2 DEF InBucket
      <4> QED BY <4>2, <4>3 DEF Since
    <3>2. ASSUME NEW id \in all \ kept PROVE id \in U
      <4>1. /\ id \in DOMAIN L /\ L[id].object = o /\ L[id].epoch >= first
            /\ ~(L[id].epoch >= later)
        BY DEF Since
      <4>2. PICK k : k = <<L[id].epoch, L[id].object>>
        OBVIOUS
      <4>3. k \in DOMAIN by_epoch /\ k[1] < later /\ k[2] = o
        BY <1>2, <4>1, <4>2 DEF CountedByEpoch
      <4>4. k \in K /\ id \in InBucket(L, k)
        BY <4>1, <4>2, <4>3 DEF InBucket
      <4> QED BY <4>4 DEF UnionOf
    <3> QED BY <3>1, <3>2
  <2>5. SumOver(by_epoch, K) = Cardinality(U)
    <3> HIDE DEF K, A
    <3> QED BY <2>1, <2>2, <2>3, SumOfCardinalities
  <2>6. IsFiniteSet(all) /\ IsFiniteSet(kept) /\ kept \subseteq all
    <3>1. IsFiniteSet(all) /\ IsFiniteSet(kept)
      BY FS_Subset DEF Since, IsLookups
    <3>2. kept \subseteq all
      BY <1>2 DEF Since
    <3> QED BY <3>1, <3>2
  <2>7. Leaving(by_epoch, old, o) = Cardinality(U)
    BY <2>5 DEF Leaving
  <2> HIDE DEF K, A, U, all, kept
  <2>8. Cardinality(U) = Cardinality(all) - Cardinality(kept)
    <3>1. Cardinality(U) = Cardinality(all) - Cardinality(all \cap kept)
      BY <2>4, <2>6, FS_Difference
    <3>2. all \cap kept = kept
      BY <2>6
    <3> QED BY <3>1, <3>2
  <2>9. Cardinality(all) \in Nat /\ Cardinality(kept) \in Nat
    BY <2>6, FS_CardinalityType
  <2>10. FindOr(totals, o, 0) = Cardinality(all)
    BY DEF Remembers, all
  <2>11. FindOr(g, o, 0) = Cardinality(all) - Cardinality(U)
    <3>1. Leaving(by_epoch, old, o) <= FindOr(totals, o, 0)
      BY <2>7, <2>8, <2>9, <2>10
    <3> QED BY <1>4, <2>7, <2>10, <3>1
  <2>12. FindOr(g, o, 0) = Cardinality(kept)
    BY <2>8, <2>9, <2>11
  <2> QED BY <2>12 DEF kept
<1>6. CountedByEpoch(DropKeys(by_epoch, old), L, later)
  <2>1. PICK f : f = DropKeys(by_epoch, old)
    OBVIOUS
  <2>2. /\ CountsOK(f) /\ DOMAIN f = DOMAIN by_epoch \ old
        /\ \A k \in DOMAIN f : f[k] = by_epoch[k]
    <3>1. CountsOK(f)
      BY <1>1, <2>1, DropIs
    <3> QED BY <2>1, <3>1 DEF DropKeys
  <2>3. \A k \in DOMAIN f : /\ k \in Nat \X Nat /\ k[1] >= later
                            /\ InBucket(L, k) # {}
                            /\ f[k] = Cardinality(InBucket(L, k))
    <3> SUFFICES ASSUME NEW k \in DOMAIN f
                 PROVE  /\ k \in Nat \X Nat /\ k[1] >= later
                        /\ InBucket(L, k) # {}
                        /\ f[k] = Cardinality(InBucket(L, k))
      OBVIOUS
    <3>1. k \in DOMAIN by_epoch /\ ~(k[1] < later) /\ f[k] = by_epoch[k]
      BY <2>2
    <3>2. /\ k \in Nat \X Nat /\ InBucket(L, k) # {}
          /\ by_epoch[k] = Cardinality(InBucket(L, k))
      BY <3>1 DEF CountedByEpoch
    <3> QED BY <3>1, <3>2
  <2>4. \A id \in DOMAIN L : L[id].epoch >= later =>
          <<L[id].epoch, L[id].object>> \in DOMAIN f
    BY <1>2, <2>2 DEF CountedByEpoch
  <2> QED BY <2>1, <2>2, <2>3, <2>4 DEF CountedByEpoch
<1> QED BY <1>3, <1>4, <1>5, <1>6 DEF Remembers

\* A new epoch has no lookups, so that counts may start afresh.
LEMMA FreshCounts ==
  ASSUME NEW current \in Int, NEW L, IsLookups(L, current), NEW epoch \in Int,
         current < epoch
  PROVE  /\ Remembers(<<>>, L, epoch)
         /\ IsLookups(L, epoch)
<1>1. CountsOK(<<>>) /\ DOMAIN <<>> = {}
  BY FS_EmptySet DEF CountsOK
<1>2. \A id \in DOMAIN L : L[id].epoch \in Nat /\ L[id].epoch <= current
  BY DEF IsLookups
<1>3. \A o : Since(L, o, epoch) = {}
  BY <1>2 DEF Since
<1>4. \A o : FindOr(<<>>, o, 0) = 0
  BY <1>1 DEF FindOr
<1>5. Remembers(<<>>, L, epoch)
  BY <1>1, <1>3, <1>4, FS_EmptySet DEF Remembers
<1>6. IsLookups(L, epoch)
  BY <1>2 DEF IsLookups
<1> QED BY <1>5, <1>6

-----------------------------------------------------------------------------
(* What the operations of a policy do to its counts *)

\* The epochs whose lookups the local demand of the contention-aware policy counts.
DemandSince(current) == IF knobs.reset_on_epoch_change THEN current ELSE 0

\* Its two kinds of counts are the lookups that they are to remember.
DemandRemembered(h, L, current) ==
  /\ Remembers(h.access_counts, L, DemandSince(current))
  /\ uses_local_confirmation =>
       /\ Remembers(h.local_confirmation_counts, L, FirstRetainedEpoch(current))
       /\ CountedByEpoch(h.local_confirmation_by_epoch, L, FirstRetainedEpoch(current))

\* The window of confirmation ends with the current epoch, and only moves on.
LEMMA WindowMoves ==
  ASSUME AcceptedConfig(config), NEW current \in Int
  PROVE  /\ FirstRetainedEpoch(current) \in Int
         /\ DemandSince(current) \in Int
         /\ current \in Nat => FirstRetainedEpoch(current) <= current
         /\ current \in Nat => DemandSince(current) <= current
         /\ \A epoch \in Nat : current < epoch =>
              FirstRetainedEpoch(current) <= FirstRetainedEpoch(epoch)
<1>1. knobs.local_confirmation_window_epochs \in Nat
  BY DEF AcceptedConfig, SimulationConfig, ContentionPolicyConfig, knobs
<1>2. PICK width \in Nat : /\ width = AtLeast(knobs.local_confirmation_window_epochs, 1)
                           /\ width >= 1
  BY <1>1 DEF AtLeast
<1>3. \A epoch : FirstRetainedEpoch(epoch) = IF epoch - (width - 1) < 0 THEN 0
                                             ELSE epoch - (width - 1)
  BY <1>2 DEF FirstRetainedEpoch, AtLeast
<1> QED BY <1>2, <1>3 DEF DemandSince

\* A lookup adds itself to the counts of its epoch.
LEMMA DemandLookup ==
  ASSUME contention_aware, AcceptedConfig(config),
         NEW current \in Nat, NEW h, HasContentionShape(h), h.current_epoch = current,
         NEW L, IsLookups(L, current), DemandRemembered(h, L, current),
         NEW st, NEW r, r.epoch_id = current, r.object_id \in Nat, NEW id, id \notin DOMAIN L,
         NEW M, M = Assign(L, id, [object |-> r.object_id, epoch |-> current])
  PROVE  DemandRemembered(on_lookup(h, st, r), M, current)
<1>1. PICK epoch, counts, by_epoch, confirmed, telemetry, decisions :
        h = [current_epoch |-> epoch, access_counts |-> counts,
             local_confirmation_by_epoch |-> by_epoch,
             local_confirmation_counts |-> confirmed,
             previous_epoch_stats |-> telemetry, diagnostics |-> decisions]
  BY DEF HasContentionShape
<1>2. PICK o, key : o \in Nat /\ o = r.object_id /\ key = <<current, o>>
  OBVIOUS
<1>3. contention_on_epoch_start(h, st, r.epoch_id) = h
  BY DEF contention_on_epoch_start
<1>4. PICK more, more_by_epoch, more_confirmed :
        /\ more = Increment(counts, o)
        /\ more_by_epoch = Increment(by_epoch, key)
        /\ more_confirmed = Increment(confirmed, o)
  OBVIOUS
<1>5. PICK counted : counted = [h EXCEPT !.access_counts = more]
  OBVIOUS
<1>6. on_lookup(h, st, r) =
        IF ~uses_local_confirmation THEN counted
        ELSE [counted EXCEPT !.local_confirmation_by_epoch = more_by_epoch,
                             !.local_confirmation_counts = more_confirmed]
  <2>1. on_lookup(h, st, r) = contention_on_lookup(h, st, r)
    BY DEF on_lookup, contention_aware
  <2>2. counted = [h EXCEPT !.access_counts = Increment(@, r.object_id)]
    BY <1>1, <1>2, <1>4, <1>5
  <2>3. contention_on_lookup(h, st, r) =
          IF ~uses_local_confirmation THEN counted
          ELSE [counted EXCEPT
                  !.local_confirmation_by_epoch = Increment(@, <<r.epoch_id, r.object_id>>),
                  !.local_confirmation_counts = Increment(@, r.object_id)]
    BY <1>3, <2>2 DEF contention_on_lookup
  <2>4. /\ counted.local_confirmation_by_epoch = by_epoch
        /\ counted.local_confirmation_counts = confirmed
    BY <1>1, <1>5
  <2> QED BY <1>2, <1>4, <2>1, <2>3, <2>4
<1>7. counted = [current_epoch |-> epoch, access_counts |-> more,
                 local_confirmation_by_epoch |-> by_epoch,
                 local_confirmation_counts |-> confirmed,
                 previous_epoch_stats |-> telemetry, diagnostics |-> decisions]
  BY <1>1, <1>5
<1>8. Remembers(more, M, DemandSince(current))
  <2>1. Remembers(counts, L, DemandSince(current))
    BY <1>1 DEF DemandRemembered
  <2>2. DemandSince(current) \in Int /\ DemandSince(current) <= current
    BY WindowMoves
  <2> QED BY <1>2, <1>4, <2>1, <2>2, LookupRemembered
<1>9. CASE ~uses_local_confirmation
  <2>1. on_lookup(h, st, r).access_counts = more
    BY <1>6, <1>7, <1>9
  <2> QED BY <1>8, <1>9, <2>1 DEF DemandRemembered
<1>10. CASE uses_local_confirmation
  <2>1. PICK first \in Int : first = FirstRetainedEpoch(current) /\ first <= current
    BY WindowMoves
  <2>2. Remembers(confirmed, L, first) /\ CountedByEpoch(by_epoch, L, first)
    BY <1>1, <1>10, <2>1 DEF DemandRemembered
  <2>3. Remembers(more_confirmed, M, first)
    BY <1>2, <1>4, <2>1, <2>2, LookupRemembered
  <2>4. CountedByEpoch(more_by_epoch, M, first)
    BY <1>2, <1>4, <2>1, <2>2, LookupRemembered
  <2>5. PICK g : g = on_lookup(h, st, r)
    OBVIOUS
  <2>6. g = [current_epoch |-> epoch, access_counts |-> more,
             local_confirmation_by_epoch |-> more_by_epoch,
             local_confirmation_counts |-> more_confirmed,
             previous_epoch_stats |-> telemetry, diagnostics |-> decisions]
    BY <1>6, <1>7, <1>10, <2>5
  <2>7. /\ g.access_counts = more /\ g.local_confirmation_by_epoch = more_by_epoch
        /\ g.local_confirmation_counts = more_confirmed
    BY <2>6
  <2> QED BY <1>8, <2>1, <2>3, <2>4, <2>5, <2>7 DEF DemandRemembered
<1> QED BY <1>9, <1>10

\* A new epoch drops what its windows leave behind.
LEMMA DemandEpochStart ==
  ASSUME contention_aware, AcceptedConfig(config),
         NEW current \in Int, NEW h, HasContentionShape(h), h.current_epoch = current,
         NEW L, IsLookups(L, current), DemandRemembered(h, L, current),
         NEW st, NEW later \in Nat, current < later
  PROVE  DemandRemembered(on_epoch_start(h, st, later), L, later)
<1>1. PICK epoch, counts, by_epoch, confirmed, telemetry, decisions :
        h = [current_epoch |-> epoch, access_counts |-> counts,
             local_confirmation_by_epoch |-> by_epoch,
             local_confirmation_counts |-> confirmed,
             previous_epoch_stats |-> telemetry, diagnostics |-> decisions]
  BY DEF HasContentionShape
<1>2. PICK old, first, kept, kept_by_epoch :
        /\ first = FirstRetainedEpoch(later)
        /\ old = {k \in DOMAIN by_epoch : k[1] < first}
        /\ kept = SubtractCounts(confirmed, by_epoch, old)
        /\ kept_by_epoch = DropKeys(by_epoch, old)
  OBVIOUS
<1>3. prune_local_confirmation(h, later)
        = [h EXCEPT !.local_confirmation_counts = kept,
                    !.local_confirmation_by_epoch = kept_by_epoch]
  <2>1. h.local_confirmation_by_epoch = by_epoch /\ h.local_confirmation_counts = confirmed
    BY <1>1
  <2> QED BY <1>2, <2>1 DEF prune_local_confirmation
<1>4. PICK pruned : pruned = IF uses_local_confirmation
                             THEN prune_local_confirmation(h, later) ELSE h
  OBVIOUS
<1>5. PICK fresh, snapshot :
        /\ fresh = IF knobs.reset_on_epoch_change THEN <<>> ELSE counts
        /\ snapshot = TelemetrySnapshot(st, later)
  OBVIOUS
<1>6. PICK now, now_by_epoch :
        pruned = [current_epoch |-> epoch, access_counts |-> counts,
                  local_confirmation_by_epoch |-> now_by_epoch,
                  local_confirmation_counts |-> now,
                  previous_epoch_stats |-> telemetry, diagnostics |-> decisions]
  <2>1. CASE uses_local_confirmation
    <3>1. pruned = [current_epoch |-> epoch, access_counts |-> counts,
                    local_confirmation_by_epoch |-> kept_by_epoch,
                    local_confirmation_counts |-> kept,
                    previous_epoch_stats |-> telemetry, diagnostics |-> decisions]
      BY <1>1, <1>3, <1>4, <2>1
    <3> QED BY <3>1
  <2>2. CASE ~uses_local_confirmation
    BY <1>1, <1>4, <2>2
  <2> QED BY <2>1, <2>2
<1>7. uses_local_confirmation => now = kept /\ now_by_epoch = kept_by_epoch
  <2> SUFFICES ASSUME uses_local_confirmation
               PROVE  now = kept /\ now_by_epoch = kept_by_epoch
    OBVIOUS
  <2>1. pruned = [h EXCEPT !.local_confirmation_counts = kept,
                           !.local_confirmation_by_epoch = kept_by_epoch]
    BY <1>3, <1>4
  <2>2. pruned.local_confirmation_counts = kept
        /\ pruned.local_confirmation_by_epoch = kept_by_epoch
    BY <1>1, <2>1
  <2> QED BY <1>6, <2>2
<1>8. PICK g : g = on_epoch_start(h, st, later)
  OBVIOUS
<1>9. g = [pruned EXCEPT !.current_epoch = later, !.access_counts = fresh,
                         !.previous_epoch_stats = snapshot]
  <2>1. g = contention_on_epoch_start(h, st, later)
    BY <1>8 DEF on_epoch_start, contention_aware
  <2>2. g = [pruned EXCEPT
               !.current_epoch = later,
               !.access_counts = IF knobs.reset_on_epoch_change THEN <<>> ELSE @,
               !.previous_epoch_stats = snapshot]
    BY <1>4, <1>5, <2>1 DEF contention_on_epoch_start
  <2>3. pruned.access_counts = counts
    BY <1>6
  <2> QED BY <1>5, <2>2, <2>3
<1>10. /\ g.access_counts = fresh /\ g.local_confirmation_counts = now
       /\ g.local_confirmation_by_epoch = now_by_epoch
  BY <1>6, <1>9
<1>11. Remembers(fresh, L, DemandSince(later))
  <2>1. CASE knobs.reset_on_epoch_change
    BY <1>5, <2>1, FreshCounts DEF DemandSince
  <2>2. CASE ~knobs.reset_on_epoch_change
    <3>1. Remembers(counts, L, DemandSince(current))
      BY <1>1 DEF DemandRemembered
    <3> QED BY <1>5, <2>2, <3>1 DEF DemandSince
  <2> QED BY <2>1, <2>2
<1>12. ASSUME uses_local_confirmation
       PROVE  Remembers(now, L, first) /\ CountedByEpoch(now_by_epoch, L, first)
  <2>1. PICK before \in Int : before = FirstRetainedEpoch(current)
    BY WindowMoves
  <2>2. first \in Int /\ before <= first
    BY <1>2, <2>1, WindowMoves
  <2>3. Remembers(confirmed, L, before) /\ CountedByEpoch(by_epoch, L, before)
    BY <1>1, <1>12, <2>1 DEF DemandRemembered
  <2>4. Remembers(kept, L, first) /\ CountedByEpoch(kept_by_epoch, L, first)
    BY <1>2, <2>2, <2>3, OldCountsLeave
  <2> QED BY <1>7, <1>12, <2>4
<1>13. DemandRemembered(g, L, later)
  BY <1>2, <1>10, <1>11, <1>12 DEF DemandRemembered
<1> QED BY <1>8, <1>13

\* A decision leaves the counts alone.
LEMMA DemandDecision ==
  ASSUME contention_aware, NEW current, NEW h, HasContentionShape(h),
         NEW L, DemandRemembered(h, L, current), NEW r, NEW admitted, NEW reason, NEW victims
  PROVE  DemandRemembered(on_admission_result(h, r, admitted, reason, victims), L, current)
<1>1. PICK epoch, counts, by_epoch, confirmed, telemetry, decisions :
        h = [current_epoch |-> epoch, access_counts |-> counts,
             local_confirmation_by_epoch |-> by_epoch,
             local_confirmation_counts |-> confirmed,
             previous_epoch_stats |-> telemetry, diagnostics |-> decisions]
  BY DEF HasContentionShape
<1>2. PICK g : g = on_admission_result(h, r, admitted, reason, victims)
  OBVIOUS
<1>3. PICK more : g = [h EXCEPT !.diagnostics = more]
  <2>1. PICK row : on_admission_result(h, r, admitted, reason, victims)
                     = [h EXCEPT !.diagnostics = Append(@, row)]
    BY DEF on_admission_result, contention_aware, contention_on_admission_result
  <2> QED BY <1>2, <2>1
<1>4. /\ g.access_counts = counts /\ g.local_confirmation_counts = confirmed
      /\ g.local_confirmation_by_epoch = by_epoch
  BY <1>1, <1>3
<1>5. /\ h.access_counts = counts /\ h.local_confirmation_counts = confirmed
      /\ h.local_confirmation_by_epoch = by_epoch
  BY <1>1
<1>6. DemandRemembered(g, L, current)
  BY <1>4, <1>5 DEF DemandRemembered
<1> QED BY <1>2, <1>6

-----------------------------------------------------------------------------
(* The hotness policy *)

hotness_only == config.policy_type = "hotness_only"
windowed == config.history_mode = "windowed"

\* What it remembers is a record of two counts.
HotnessOK(h) ==
  \E totals, by_epoch :
    /\ h = [access_counts |-> totals, epoch_access_counts |-> by_epoch]
    /\ CountsOK(totals) /\ CountsOK(by_epoch)

\* The epochs whose lookups its totals count.
HeatSince(current) ==
  CASE config.history_mode = "epoch" -> current
    [] windowed -> current - config.history_window_epochs + 1
    [] OTHER -> 0

HeatRemembered(h, L, current) ==
  /\ Remembers(h.access_counts, L, HeatSince(current))
  /\ windowed => CountedByEpoch(h.epoch_access_counts, L, HeatSince(current))

\* The window holds an epoch, and ends before the range of SimTime does.
WindowsFit ==
  windowed =>
    /\ config.history_window_epochs > 0
    /\ \A n \in Nodes : \A i \in DOMAIN config.compute_nodes[n] :
         config.compute_nodes[n][i].epoch_id + config.history_window_epochs < SimTimeRange

\* The totals never start after the current epoch, and only move on.
LEMMA HeatMoves ==
  ASSUME AcceptedConfig(config), NEW current \in Int
  PROVE  /\ HeatSince(current) \in Int
         /\ WindowsFit /\ current \in Nat => HeatSince(current) <= current
         /\ \A epoch \in Int : current < epoch => HeatSince(current) <= HeatSince(epoch)
<1>1. config.history_window_epochs \in Nat
  BY DEF AcceptedConfig, SimulationConfig, SimTime
<1>2. CASE config.history_mode = "epoch"
  BY <1>2 DEF HeatSince, windowed
<1>3. CASE windowed
  <2>1. WindowsFit => config.history_window_epochs > 0
    BY <1>3 DEF WindowsFit
  <2>2. \A epoch : HeatSince(epoch) = epoch - config.history_window_epochs + 1
    BY <1>3 DEF HeatSince, windowed
  <2> QED BY <1>1, <2>1, <2>2
<1>4. CASE config.history_mode # "epoch" /\ ~windowed
  BY <1>4 DEF HeatSince
<1> QED BY <1>2, <1>3, <1>4

\* A lookup adds itself to the totals and, in a window, to the count of its epoch.
LEMMA HeatLookup ==
  ASSUME hotness_only, AcceptedConfig(config),
         NEW current \in Nat, NEW h, HotnessOK(h), NEW L, IsLookups(L, current),
         NEW st, NEW r, r.epoch_id = current, r.object_id \in Nat, NEW id, id \notin DOMAIN L,
         NEW M, M = Assign(L, id, [object |-> r.object_id, epoch |-> current])
  PROVE  LET g == on_lookup(h, st, r)
         IN /\ HotnessOK(g)
            /\ WindowsFit /\ HeatRemembered(h, L, current) => HeatRemembered(g, M, current)
<1>1. PICK totals, by_epoch :
        /\ h = [access_counts |-> totals, epoch_access_counts |-> by_epoch]
        /\ CountsOK(totals) /\ CountsOK(by_epoch)
  BY DEF HotnessOK
<1>2. PICK o, key : o \in Nat /\ o = r.object_id /\ key = <<current, o>>
  OBVIOUS
<1>3. PICK more, more_by_epoch :
        more = Increment(totals, o) /\ more_by_epoch = Increment(by_epoch, key)
  OBVIOUS
<1>4. OneMoreOf(totals, o, more) /\ OneMoreOf(by_epoch, key, more_by_epoch)
  BY <1>1, <1>3, IncrementIs
<1>5. PICK now : now = IF windowed THEN more_by_epoch ELSE by_epoch
  OBVIOUS
<1>6. PICK g : g = on_lookup(h, st, r)
  OBVIOUS
<1>7. g = [access_counts |-> more, epoch_access_counts |-> now]
  <2>1. h.access_counts = totals /\ h.epoch_access_counts = by_epoch
    BY <1>1
  <2>2. g = hotness_on_lookup(h, r)
    BY <1>6 DEF on_lookup, hotness_only
  <2> QED BY <1>2, <1>3, <1>5, <2>1, <2>2 DEF hotness_on_lookup, windowed
<1>8. CountsOK(more) /\ CountsOK(now)
  BY <1>1, <1>4, <1>5 DEF OneMoreOf
<1>9. HotnessOK(g)
  BY <1>7, <1>8 DEF HotnessOK
<1>10. ASSUME WindowsFit, HeatRemembered(h, L, current)
       PROVE  HeatRemembered(g, M, current)
  <2>1. PICK first \in Int : first = HeatSince(current) /\ first <= current
    BY <1>10, HeatMoves
  <2>2. Remembers(totals, L, first)
    BY <1>1, <1>10, <2>1 DEF HeatRemembered
  <2>3. Remembers(more, M, first)
    BY <1>2, <1>3, <2>1, <2>2, LookupRemembered
  <2>4. windowed => CountedByEpoch(more_by_epoch, M, first)
    <3> SUFFICES ASSUME windowed PROVE CountedByEpoch(more_by_epoch, M, first)
      OBVIOUS
    <3>1. CountedByEpoch(by_epoch, L, first)
      BY <1>1, <1>10, <2>1 DEF HeatRemembered
    <3> QED BY <1>2, <1>3, <2>1, <3>1, LookupRemembered
  <2>5. g.access_counts = more /\ g.epoch_access_counts = now
    BY <1>7
  <2> QED BY <1>5, <2>1, <2>3, <2>4, <2>5 DEF HeatRemembered
<1> QED BY <1>6, <1>9, <1>10

\* In a window that fits an epoch is expired when it is before the first one.
LEMMA ExpiredIsBefore ==
  ASSUME AcceptedConfig(config), NEW epoch \in Nat, NEW past \in Nat, past <= epoch,
         epoch + config.history_window_epochs < SimTimeRange
  PROVE  Expired(past, epoch) <=> past < epoch - config.history_window_epochs + 1
<1>1. PICK width \in Nat : width = config.history_window_epochs
  BY DEF AcceptedConfig, SimulationConfig, SimTime
<1>2. past + width < SimTimeRange /\ past \in SimTime
  BY <1>1, RangeAssumption DEF SimTime
<1>3. Plus(past, width) = past + width
  BY <1>2, DelayFits
<1> QED BY <1>1, <1>3 DEF Expired

\* An epoch start keeps the types and, where windows fit, leaves the totals with
\* the lookups that the new epoch remembers.
LEMMA HeatEpochStart ==
  ASSUME hotness_only, AcceptedConfig(config),
         NEW current \in Int, NEW h, HotnessOK(h), NEW L, IsLookups(L, current),
         NEW st, NEW later \in Nat, current < later,
         WindowsFit /\ windowed => later + config.history_window_epochs < SimTimeRange
  PROVE  LET g == on_epoch_start(h, st, later)
         IN /\ HotnessOK(g)
            /\ WindowsFit /\ HeatRemembered(h, L, current) => HeatRemembered(g, L, later)
<1>1. PICK totals, by_epoch :
        /\ h = [access_counts |-> totals, epoch_access_counts |-> by_epoch]
        /\ CountsOK(totals) /\ CountsOK(by_epoch)
  BY DEF HotnessOK
<1>2. PICK g : g = on_epoch_start(h, st, later)
  OBVIOUS
<1>3. g = hotness_on_epoch_start(h, later)
  BY <1>2 DEF on_epoch_start, hotness_only
<1>4. config.history_mode \in HistoryModes
  BY DEF AcceptedConfig, SimulationConfig
<1>5. CASE config.history_mode = "epoch"
  <2>1. g = [access_counts |-> <<>>, epoch_access_counts |-> <<>>]
    BY <1>3, <1>5 DEF hotness_on_epoch_start, NewHotness
  <2>2. CountsOK(<<>>)
    BY FS_EmptySet DEF CountsOK
  <2>3. HotnessOK(g)
    BY <2>1, <2>2 DEF HotnessOK
  <2>4. Remembers(<<>>, L, later)
    BY FreshCounts
  <2>5. g.access_counts = <<>> /\ HeatSince(later) = later /\ ~windowed
    BY <1>5, <2>1 DEF HeatSince, windowed
  <2> QED BY <1>2, <2>3, <2>4, <2>5 DEF HeatRemembered
<1>6. CASE config.history_mode = "cumulative"
  <2>1. g = h /\ ~windowed /\ HeatSince(later) = 0 /\ HeatSince(current) = 0
    BY <1>3, <1>6 DEF hotness_on_epoch_start, HeatSince, windowed
  <2> QED BY <1>2, <2>1 DEF HeatRemembered
<1>7. CASE config.history_mode = "windowed"
  <2>1. PICK old, kept, kept_by_epoch :
          /\ old = {k \in DOMAIN by_epoch : Expired(k[1], later)}
          /\ kept = SubtractCounts(totals, by_epoch, old)
          /\ kept_by_epoch = DropKeys(by_epoch, old)
    OBVIOUS
  <2>2. g = [access_counts |-> kept, epoch_access_counts |-> kept_by_epoch]
    <3>1. g = prune_window(h, later)
      BY <1>3, <1>7 DEF hotness_on_epoch_start
    <3>2. h.access_counts = totals /\ h.epoch_access_counts = by_epoch
      BY <1>1
    <3> QED BY <2>1, <3>1, <3>2 DEF prune_window
  <2>3. CountsOK(kept) /\ CountsOK(kept_by_epoch)
    <3>1. WithoutOld(totals, by_epoch, old, kept)
      BY <1>1, <2>1, SubtractIs
    <3>2. CountsOK(kept_by_epoch)
      BY <1>1, <2>1, DropIs
    <3> QED BY <3>1, <3>2 DEF WithoutOld
  <2>4. HotnessOK(g)
    BY <2>2, <2>3 DEF HotnessOK
  <2>5. ASSUME WindowsFit, HeatRemembered(h, L, current)
        PROVE  HeatRemembered(g, L, later)
    <3>1. PICK first \in Int, next \in Int :
            /\ first = HeatSince(current) /\ next = HeatSince(later) /\ first <= next
      BY HeatMoves
    <3>2. next = later - config.history_window_epochs + 1
      BY <1>7, <3>1 DEF HeatSince, windowed
    <3>3. Remembers(totals, L, first) /\ CountedByEpoch(by_epoch, L, first)
      BY <1>1, <1>7, <2>5, <3>1 DEF HeatRemembered, windowed
    <3>4. ASSUME NEW k \in DOMAIN by_epoch
          PROVE  Expired(k[1], later) <=> k[1] < next
      <4>1. k[1] \in Nat /\ InBucket(L, k) # {}
        BY <3>3 DEF CountedByEpoch
      <4>2. PICK id \in DOMAIN L : <<L[id].epoch, L[id].object>> = k
        BY <4>1 DEF InBucket
      <4>3. k[1] <= current
        BY <4>2 DEF IsLookups
      <4>4. later + config.history_window_epochs < SimTimeRange
        BY <1>7, <2>5 DEF windowed
      <4> QED BY <3>2, <4>1, <4>3, <4>4, ExpiredIsBefore
    <3>5. old = {k \in DOMAIN by_epoch : k[1] < next}
      BY <2>1, <3>4
    <3>6. Remembers(kept, L, next) /\ CountedByEpoch(kept_by_epoch, L, next)
      BY <2>1, <3>1, <3>3, <3>5, OldCountsLeave
    <3>7. g.access_counts = kept /\ g.epoch_access_counts = kept_by_epoch
      BY <2>2
    <3> QED BY <3>1, <3>6, <3>7 DEF HeatRemembered
  <2> QED BY <1>2, <2>4, <2>5
<1> QED BY <1>4, <1>5, <1>6, <1>7 DEF HistoryModes

-----------------------------------------------------------------------------
(* The lookups of a node *)

\* The requests that a node has looked up, each with its object and its epoch.
LookedUp(n) == {id \in Issued : SourceOf(id) = n /\ Stage(id) # "Generated"}
Lookups(n) == [id \in LookedUp(n) |-> [object |-> ObjectOf(id), epoch |-> EpochOf(id)]]

KeepsObjects == \A id \in Issued : ObjectOf(id)' = ObjectOf(id)

\* No request enters or leaves the stage it is issued in, but a new one.
KeepsGenerated ==
  /\ Issued \subseteq Issued'
  /\ \A id \in Issued : Stage(id)' = "Generated" <=> Stage(id) = "Generated"
  /\ \A id \in Issued' : id \notin Issued => Stage(id)' = "Generated"

\* Then no node has looked anything up.
LEMMA LookupsKept ==
  ASSUME KeepsRequests, KeepsObjects, KeepsGenerated, NEW n \in Nodes
  PROVE  Lookups(n)' = Lookups(n)
<1>1. LookedUp(n)' = LookedUp(n)
  BY DEF LookedUp, KeepsRequests, KeepsGenerated
<1>2. \A id \in LookedUp(n) : ObjectOf(id)' = ObjectOf(id) /\ EpochOf(id)' = EpochOf(id)
  BY DEF LookedUp, KeepsRequests, KeepsObjects
<1> QED BY <1>1, <1>2 DEF Lookups

\* Only a lookup takes a request out of that stage.
LEMMA GeneratedKept ==
  ASSUME RequestPathInv, NEW e \in sched.events, HandlerEffect(e),
         e.type # "LocalCacheLookup"
  PROVE  KeepsRequests /\ KeepsGenerated
<1> DEFINE q == e.request_id
<1>1. CASE /\ e.type \in {"GenerateRequest", "RequestComplete"}
           /\ UNCHANGED <<config, request_table, next_request_id>>
  <2>1. Issued' = Issued /\ KeepsRequests /\ \A i \in Issued : Stage(i)' = Stage(i)
    BY <1>1, TableKept
  <2> QED BY <2>1 DEF KeepsGenerated
<1>2. CASE e.type = "GenerateRequest" /\ IssueEffect(e)
  <2>1. PICK new : Issued' = Issued \cup {new} /\ Stage(new)' = "Generated"
    BY <1>2, Zenon DEF IssueEffect
  <2>2. KeepsRequests /\ \A i \in Issued : Stage(i)' = Stage(i)
    BY <1>2 DEF IssueEffect, KeepsStages
  <2> QED BY <2>1, <2>2 DEF KeepsGenerated
<1>3. ASSUME Issued' = Issued, KeepsRequests, NEW stage, stage # "Generated",
             Reaches(q, stage), Stage(q) # "Generated"
      PROVE  KeepsRequests /\ KeepsGenerated
  BY <1>3 DEF Reaches, KeepsGenerated
<1>4. CASE e.type \in {"LocalCacheHitComplete", "ReturnResponse"} /\ CompleteEffect(e)
  <2>1. e.type \in AwaitedEvents(Stage(q)) /\ q \in Issued
    BY <1>4, HeldByAlone DEF PathTypes
  <2>2. Stage(q) # "Generated"
    BY <1>4, <2>1, Referents, StageOfEvent DEF RequestPathInv
  <2>3. Issued' = Issued /\ KeepsRequests /\ Reaches(q, "Completed")
    BY <1>4 DEF CompleteEffect
  <2> QED BY <1>3, <2>2, <2>3
<1>5. CASE \/ e.type = "ForwardToMemory" /\ ForwardEffect(e)
           \/ e.type = "MemoryServiceComplete" /\ ServiceCompleteEffect(e)
  <2>1. Issued' = Issued /\ KeepsRequests /\ KeepsStages
    BY <1>5 DEF ForwardEffect, ServiceCompleteEffect
  <2> QED BY <2>1 DEF KeepsStages, KeepsGenerated
<1>6. CASE e.type = "MemoryServiceStart" /\ ServiceStartEffect(e)
  <2>1. Issued' = Issued /\ KeepsRequests /\ Reaches(q, "WaitingForResponse")
    BY <1>6 DEF ServiceStartEffect
  <2>2. Stage(q) = "ForwardedToMemory"
    BY <1>6, StartFindsHead
  <2> QED BY <1>3, <2>1, <2>2
<1> QED BY <1>1, <1>2, <1>4, <1>5, <1>6
        DEF HandlerEffect, NothingToIssueEffect, RequestCompleteEffect

\* A lookup adds its request to the lookups of its node.
LEMMA LookupsGrow ==
  ASSUME RequestPathInv, KeepsObjects, NEW e \in sched.events, e.type = "LocalCacheLookup",
         LookupEffect(e), NEW n \in Nodes
  PROVE  LET id == e.request_id
         IN /\ n # e.target_id => Lookups(n)' = Lookups(n)
            /\ n = e.target_id =>
                 /\ id \notin DOMAIN Lookups(n)
                 /\ Lookups(n)' = Assign(Lookups(n), id,
                                         [object |-> ObjectOf(id), epoch |-> EpochOf(id)])
<1>1. PICK id : id = e.request_id
  OBVIOUS
<1>2. /\ id \in Issued /\ e.target_id = SourceOf(id)
      /\ e.type \in AwaitedEvents(Stage(id))
  BY <1>1, HeldByAlone DEF PathTypes, ComputeEventTypes
<1>3. Stage(id) = "Generated"
  BY <1>2, Referents, StageOfEvent DEF RequestPathInv
<1>4. PICK stage : stage # "Generated" /\ Reaches(id, stage)
  BY <1>1 DEF LookupEffect
<1>5. Issued' = Issued /\ KeepsRequests
  BY DEF LookupEffect
<1>6. ASSUME n # e.target_id PROVE Lookups(n)' = Lookups(n)
  <2>1. LookedUp(n)' = LookedUp(n)
    BY <1>2, <1>4, <1>5, <1>6 DEF LookedUp, KeepsRequests, Reaches
  <2>2. \A i \in LookedUp(n) : ObjectOf(i)' = ObjectOf(i) /\ EpochOf(i)' = EpochOf(i)
    BY <1>5 DEF LookedUp, KeepsRequests, KeepsObjects
  <2> QED BY <2>1, <2>2 DEF Lookups
<1>7. ASSUME n = e.target_id
      PROVE  /\ id \notin DOMAIN Lookups(n)
             /\ Lookups(n)' = Assign(Lookups(n), id,
                                     [object |-> ObjectOf(id), epoch |-> EpochOf(id)])
  <2>1. LookedUp(n)' = LookedUp(n) \cup {id} /\ id \notin LookedUp(n)
    BY <1>2, <1>3, <1>4, <1>5, <1>7 DEF LookedUp, KeepsRequests, Reaches
  <2>2. \A i \in LookedUp(n)' : ObjectOf(i)' = ObjectOf(i) /\ EpochOf(i)' = EpochOf(i)
    BY <1>5 DEF LookedUp, KeepsRequests, KeepsObjects
  <2>3. Lookups(n)' = [i \in LookedUp(n) \cup {id} |->
                         [object |-> ObjectOf(i), epoch |-> EpochOf(i)]]
    BY <2>1, <2>2 DEF Lookups
  <2>4. DOMAIN Lookups(n) = LookedUp(n)
    BY DEF Lookups
  <2>5. Assign(Lookups(n), id, [object |-> ObjectOf(id), epoch |-> EpochOf(id)])
          = [i \in LookedUp(n) \cup {id} |-> [object |-> ObjectOf(i), epoch |-> EpochOf(i)]]
    BY <2>1, <2>4 DEF Assign, Lookups
  <2> QED BY <2>1, <2>3, <2>4, <2>5
<1> QED BY <1>1, <1>6, <1>7

-----------------------------------------------------------------------------
(* A step, as the policy of a node hears of it *)

\* The epochs of the configured streams.
ConfiguredEpochs ==
  UNION {{config.compute_nodes[n][i].epoch_id : i \in DOMAIN config.compute_nodes[n]} :
           n \in Nodes}

\* A policy with memory h and lookups L in epoch c goes to g, M and d: it is left
\* alone, told of a lookup or of a decision, or starts a later epoch of a stream.
IsToldOf(st, h, L, c, g, M, d) ==
  \/ g = h /\ M = L /\ d = c
  \/ /\ c \in Nat /\ d = c
     /\ \E r, id : /\ r.epoch_id = c /\ r.object_id \in Nat /\ id \notin DOMAIN L
                   /\ g = on_lookup(h, st, r)
                   /\ M = Assign(L, id, [object |-> r.object_id, epoch |-> c])
  \/ /\ M = L /\ d = c
     /\ \E r, admitted, reason, victims :
          g = on_admission_result(h, r, admitted, reason, victims)
  \/ /\ M = L /\ c < d /\ d \in Nat /\ d \in ConfiguredEpochs
     /\ g = on_epoch_start(h, st, d)

\* Each handler tells each policy one of these.
LEMMA EachPolicyIsTold ==
  ASSUME TelemetryInv, history = [m \in Nodes |-> history[m]],
         NEW e \in sched.events, MemoryStep(e) \/ ComputeStep(e), NEW n \in Nodes
  PROVE  IsToldOf(stats, history[n], Lookups(n), compute_nodes[n].current_epoch,
                  history'[n], Lookups(n)', compute_nodes'[n].current_epoch)
<1>1. /\ BarrierInv /\ RequestPathInv /\ SimulatorInv /\ HandlerEffect(e) /\ KeepsObjects
      /\ AcceptedConfig(config)
  BY StepHasEffect, RequestsStand
     DEF TelemetryInv, BarrierInv, RequestPathInv, SimulatorInv, TypeOK, KeepsObjects
<1>2. PICK c, h : c \in Int /\ c = compute_nodes[n].current_epoch /\ h = history[n]
  BY <1>1 DEF SimulatorInv, TypeOK, ComputeNodeState, NoEpoch
<1>3. CASE e.type = "LocalCacheLookup"
  <2>1. LookupEffect(e) /\ handle_local_cache_lookup(e)
    <3>1. handle_local_cache_lookup(e)
      BY <1>3 DEF MemoryStep, ComputeStep, handle_forward_to_memory,
         handle_memory_service_start, handle_memory_service_complete,
         handle_generate_request, handle_local_cache_hit_complete, handle_return_response,
         handle_request_complete, Dispatch
    <3> QED BY <1>1, <1>3, <3>1 DEF HandlerEffect
  <2>2. PICK id, r : id = e.request_id /\ r = request_table[id]
    OBVIOUS
  <2>3. /\ id \in Issued /\ r.object_id \in Nat /\ e.target_id \in Nodes
        /\ history' = [history EXCEPT ![e.target_id] = on_lookup(@, stats, r)]
        /\ compute_nodes' = compute_nodes
    <3>1. /\ e.target_id \in Nodes /\ UNCHANGED compute_nodes
          /\ history' = [history EXCEPT ![e.target_id] = on_lookup(@, stats, r)]
      BY <2>1, <2>2 DEF handle_local_cache_lookup, Dispatch
    <3>2. id \in Issued /\ r \in Request
      BY <1>1, <1>3, <2>1, <2>2, DispatchFacts DEF handle_local_cache_lookup
    <3> QED BY <3>1, <3>2 DEF Request
  <2>4. id \in Unfinished /\ SourceOf(id) = e.target_id
    BY <1>1, <1>3, <2>2, HeldByAlone DEF RequestPathInv, HeldAtMostOnce, PathEvents, PathTypes,
       ComputeEventTypes
  <2>5. CASE n # e.target_id
    <3>1. Lookups(n)' = Lookups(n)
      BY <1>1, <1>3, <2>1, <2>5, LookupsGrow
    <3>2. history'[n] = history[n]
      BY <2>3, <2>5
    <3> QED BY <2>3, <3>1, <3>2 DEF IsToldOf
  <2>6. CASE n = e.target_id
    <3>1. r.epoch_id = c /\ c \in Nat /\ EpochOf(id) = c /\ ObjectOf(id) = r.object_id
      <4>1. EpochOf(id) = released_epoch /\ compute_nodes[n].current_epoch = released_epoch
        BY <1>1, <2>4, <2>6 DEF BarrierInv, OpenInEpoch
      <4>2. r \in Request
        BY <1>1, <1>3, <2>1, <2>2, DispatchFacts DEF handle_local_cache_lookup
      <4> QED BY <1>2, <2>2, <4>1, <4>2 DEF EpochOf, ObjectOf, Request
    <3>2. /\ id \notin DOMAIN Lookups(n)
          /\ Lookups(n)' = Assign(Lookups(n), id,
                                  [object |-> ObjectOf(id), epoch |-> EpochOf(id)])
      BY <1>1, <1>3, <2>1, <2>2, <2>6, LookupsGrow
    <3>3. history'[n] = on_lookup(history[n], stats, r)
      BY <2>3, <2>6
    <3> QED BY <1>2, <2>3, <3>1, <3>2, <3>3 DEF IsToldOf
  <2> QED BY <2>5, <2>6
<1>4. CASE e.type # "LocalCacheLookup"
  <2>1. Lookups(n)' = Lookups(n)
    BY <1>1, <1>4, GeneratedKept, LookupsKept
  <2>2. DOMAIN history = Nodes
    OBVIOUS
  <2>3. CASE /\ UNCHANGED history
             /\ compute_nodes'[n].current_epoch = compute_nodes[n].current_epoch
    BY <2>1, <2>3 DEF IsToldOf
  <2>4. CASE /\ \E r, admitted, reason, victims :
                  history' = [history EXCEPT ![e.target_id] =
                                on_admission_result(@, r, admitted, reason, victims)]
             /\ compute_nodes'[n].current_epoch = compute_nodes[n].current_epoch
    <3>1. \/ history'[n] = h
          \/ \E r, admitted, reason, victims :
               history'[n] = on_admission_result(h, r, admitted, reason, victims)
      BY <1>2, <2>2, <2>4
    <3> QED BY <1>2, <2>1, <2>4, <3>1 DEF IsToldOf
  <2>5. CASE /\ e.target_id \in Nodes
             /\ NextIsOfEpoch(compute_nodes, e.target_id, released_epoch)
             /\ history' = [history EXCEPT ![e.target_id] =
                              StartEpochHistory(e.target_id, released_epoch)]
             /\ \A m \in Nodes : compute_nodes'[m].current_epoch =
                  IF m = e.target_id THEN released_epoch ELSE compute_nodes[m].current_epoch
    <3>1. CASE n # e.target_id \/ c = released_epoch
      <4>1. history'[n] = history[n]
        BY <1>2, <2>2, <2>5, <3>1 DEF StartEpochHistory, EpochStarted
      <4> QED BY <1>2, <2>1, <2>5, <3>1, <4>1 DEF IsToldOf
    <3>2. CASE n = e.target_id /\ c # released_epoch
      <4>1. history'[n] = on_epoch_start(history[n], stats, released_epoch)
        BY <1>2, <2>2, <2>5, <3>2 DEF StartEpochHistory, EpochStarted
      <4>2. released_epoch \in ConfiguredEpochs /\ released_epoch \in Nat
        <5>1. PICK i : /\ i \in DOMAIN config.compute_nodes[n]
                       /\ config.compute_nodes[n][i].epoch_id = released_epoch
          <6>1. compute_nodes[n].next_index \in Nat
            BY <1>1 DEF SimulatorInv, TypeOK, ComputeNodeState
          <6> QED BY <1>1, <2>5, <3>2, <6>1, StreamType DEF NextIsOfEpoch, has_next, peek_next
        <5>2. config.compute_nodes[n][i] \in RequestSpec
          BY <1>1, <5>1, StreamType
        <5> QED BY <5>1, <5>2 DEF ConfiguredEpochs, RequestSpec
      <4>3. c < released_epoch
        BY <1>2, <3>2, <4>2 DEF TelemetryInv, NoNodeAhead
      <4> QED BY <1>2, <2>1, <2>5, <3>2, <4>1, <4>2, <4>3 DEF IsToldOf
    <3> QED BY <3>1, <3>2
  <2> QED BY <1>1, <1>4, <2>3, <2>4, <2>5, HandlerTellsPolicy
<1> QED BY <1>3, <1>4

-----------------------------------------------------------------------------
(* The inductive invariant *)

\* A policy remembers the lookups of its node as its configuration asks.
PolicyRemembers(h, L, c) ==
  /\ IsLookups(L, c)
  /\ contention_aware => DemandRemembered(h, L, c)
  /\ hotness_only => HotnessOK(h) /\ (WindowsFit => HeatRemembered(h, L, c))

HistoryInv ==
  /\ TelemetryInv
  /\ RowsOK(stats.contention_by_epoch)
  /\ history = [n \in Nodes |-> history[n]]
  /\ \A n \in Nodes :
       PolicyRemembers(history[n], Lookups(n), compute_nodes[n].current_epoch)

\* It does so whatever it is told of.
LEMMA PolicyStillRemembers ==
  ASSUME AcceptedConfig(config), NEW st, NEW h, NEW L, NEW c \in Int, NEW g, NEW M, NEW d,
         PolicyRemembers(h, L, c), IsToldOf(st, h, L, c, g, M, d),
         contention_aware => HasContentionShape(h) /\ h.current_epoch = c
  PROVE  PolicyRemembers(g, M, d)
<1>1. CASE g = h /\ M = L /\ d = c
  BY <1>1
<1>2. ASSUME c \in Nat, d = c, NEW r, NEW id, r.epoch_id = c, r.object_id \in Nat,
             id \notin DOMAIN L, g = on_lookup(h, st, r),
             M = Assign(L, id, [object |-> r.object_id, epoch |-> c])
      PROVE  PolicyRemembers(g, M, d)
  <2>1. IsLookups(L, c)
    BY DEF PolicyRemembers
  <2>2. IsLookups(M, c)
    BY <1>2, <2>1, LookupRemembered
  <2>3. ASSUME contention_aware PROVE DemandRemembered(g, M, c)
    <3>1. DemandRemembered(h, L, c)
      BY <2>3 DEF PolicyRemembers
    <3> QED BY <1>2, <2>1, <2>3, <3>1, DemandLookup
  <2>4. ASSUME hotness_only
        PROVE  HotnessOK(g) /\ (WindowsFit => HeatRemembered(g, M, c))
    <3>1. HotnessOK(h) /\ (WindowsFit => HeatRemembered(h, L, c))
      BY <2>4 DEF PolicyRemembers
    <3> QED BY <1>2, <2>1, <2>4, <3>1, HeatLookup
  <2> QED BY <1>2, <2>2, <2>3, <2>4 DEF PolicyRemembers
<1>3. ASSUME M = L, d = c, NEW r, NEW admitted, NEW reason, NEW victims,
             g = on_admission_result(h, r, admitted, reason, victims)
      PROVE  PolicyRemembers(g, M, d)
  <2>1. contention_aware => DemandRemembered(g, L, c)
    BY <1>3, DemandDecision DEF PolicyRemembers
  <2>2. hotness_only => g = h
    BY <1>3 DEF hotness_only, on_admission_result
  <2> QED BY <1>3, <2>1, <2>2 DEF PolicyRemembers
<1>4. ASSUME M = L, c < d, d \in Nat, d \in ConfiguredEpochs, g = on_epoch_start(h, st, d)
      PROVE  PolicyRemembers(g, M, d)
  <2>1. IsLookups(L, c)
    BY DEF PolicyRemembers
  <2>2. IsLookups(L, d)
    BY <1>4, <2>1, FreshCounts
  <2>3. ASSUME contention_aware PROVE DemandRemembered(g, L, d)
    <3>1. DemandRemembered(h, L, c)
      BY <2>3 DEF PolicyRemembers
    <3> QED BY <1>4, <2>1, <2>3, <3>1, DemandEpochStart
  <2>4. ASSUME hotness_only
        PROVE  HotnessOK(g) /\ (WindowsFit => HeatRemembered(g, L, d))
    <3>1. HotnessOK(h) /\ (WindowsFit => HeatRemembered(h, L, c))
      BY <2>4 DEF PolicyRemembers
    <3>2. WindowsFit /\ windowed => d + config.history_window_epochs < SimTimeRange
      BY <1>4 DEF WindowsFit, ConfiguredEpochs
    <3> QED BY <1>4, <2>1, <2>4, <3>1, <3>2, HeatEpochStart
  <2> QED BY <1>4, <2>2, <2>3, <2>4 DEF PolicyRemembers
<1> QED BY <1>1, <1>2, <1>3, <1>4 DEF IsToldOf

\* What a policy remembers does not change with the variables, but the
\* configuration.
LEMMA RemembersByConfig ==
  ASSUME config' = config, NEW h, NEW L, NEW c, PolicyRemembers(h, L, c)
  PROVE  PolicyRemembers(h, L, c)'
BY DEF PolicyRemembers, contention_aware, hotness_only, DemandRemembered, DemandSince,
   FirstRetainedEpoch, uses_local_confirmation, knobs, WindowsFit, windowed, HeatRemembered,
   HeatSince

\* A handler keeps the invariant.
LEMMA HandlerKeepsHistory ==
  ASSUME HistoryInv, TelemetryInv', NEW e \in sched.events, MemoryStep(e) \/ ComputeStep(e)
  PROVE  HistoryInv'
<1>1. /\ TelemetryInv /\ BarrierInv /\ RequestPathInv /\ SimulatorInv /\ HandlerEffect(e)
      /\ AcceptedConfig(config)
  BY StepHasEffect
     DEF HistoryInv, TelemetryInv, BarrierInv, RequestPathInv, SimulatorInv, TypeOK
<1>2. config' = config
  BY <1>1 DEF HandlerEffect, NothingToIssueEffect, IssueEffect, LookupEffect, CompleteEffect,
     RequestCompleteEffect, ForwardEffect, ServiceStartEffect, ServiceCompleteEffect
<1>3. RowsOK(stats'.contention_by_epoch)
  <2>1. RowsOK(stats.contention_by_epoch)
    BY DEF HistoryInv
  <2>2. HasStatsShape(stats)
    BY <1>1 DEF BarrierInv
  <2>3. BooksRow(stats.contention_by_epoch, stats'.contention_by_epoch)
    BY <1>1, <2>1, <2>2, HandlerBooksRow
  <2> QED BY <2>1, <2>3, RowsStayOK
<1>4. history = [n \in Nodes |-> history[n]]
  BY DEF HistoryInv
<1>5. history' = [n \in Nodes |-> history'[n]]
  <2>1. PICK new : history' = history \/ history' = [history EXCEPT ![e.target_id] = new]
    BY <1>1, HandlerTellsPolicy
  <2>2. history \in [Nodes -> {history[n] : n \in Nodes}]
    BY <1>4
  <2>3. DOMAIN history' = Nodes /\ history' = [n \in DOMAIN history' |-> history'[n]]
    BY <2>1, <2>2
  <2> QED BY <2>3
<1>6. ASSUME NEW n \in Nodes
      PROVE  PolicyRemembers(history[n], Lookups(n), compute_nodes[n].current_epoch)'
  <2>1. PICK h, L, c : /\ h = history[n] /\ L = Lookups(n) /\ c \in Int
                       /\ c = compute_nodes[n].current_epoch
    BY <1>1 DEF SimulatorInv, TypeOK, ComputeNodeState, NoEpoch
  <2>2. PICK g, M, d : /\ g = history'[n] /\ M = Lookups(n)'
                       /\ d = compute_nodes'[n].current_epoch
    OBVIOUS
  <2>3. PolicyRemembers(h, L, c)
    BY <2>1 DEF HistoryInv
  <2>4. IsToldOf(stats, h, L, c, g, M, d)
    BY <1>1, <1>4, <2>1, <2>2, EachPolicyIsTold
  <2>5. contention_aware => HasContentionShape(h) /\ h.current_epoch = c
    BY <1>1, <2>1 DEF TelemetryInv, SnapshotsTaken
  <2>6. PolicyRemembers(g, M, d)
    BY <1>1, <2>1, <2>3, <2>4, <2>5, PolicyStillRemembers
  <2>7. PolicyRemembers(g, M, d)'
    BY <1>2, <2>6, RemembersByConfig
  <2> QED BY <2>2, <2>7
<1> QED BY <1>3, <1>5, <1>6 DEF HistoryInv

\* Before the run there are no lookups to remember.
LEMMA HistoryInit == Init => HistoryInv
<1> SUFFICES ASSUME Init PROVE HistoryInv
  OBVIOUS
<1>1. TelemetryInv /\ AcceptedConfig(config)
  BY TelemetryInit DEF TelemetryInv, BarrierInv, RequestPathInv, SimulatorInv, TypeOK
<1>2. /\ compute_nodes = [n \in Nodes |-> NewComputeNode] /\ next_request_id = 1
      /\ history = [n \in Nodes |-> NewHistory] /\ stats = NewStats
  BY DEF Init
<1> HIDE DEF Init
<1>3. RowsOK(stats.contention_by_epoch)
  <2>1. stats.contention_by_epoch = <<>>
    BY <1>2 DEF NewStats
  <2>2. DOMAIN <<>> = {}
    OBVIOUS
  <2>3. IsFiniteSet({})
    BY FS_EmptySet
  <2> QED BY <2>1, <2>2, <2>3 DEF RowsOK
<1>4. CountsOK(<<>>)
  <2>1. DOMAIN <<>> = {}
    OBVIOUS
  <2>2. IsFiniteSet({})
    BY FS_EmptySet
  <2> QED BY <2>1, <2>2 DEF CountsOK
<1>5. ASSUME NEW n \in Nodes
      PROVE  PolicyRemembers(NewHistory, Lookups(n), NoEpoch)
  <2>1. PICK L : L = Lookups(n) /\ DOMAIN L = {}
    <3>1. Issued = {}
      BY <1>2 DEF Issued
    <3>2. DOMAIN Lookups(n) = {}
      BY <3>1 DEF Lookups, LookedUp
    <3> QED BY <3>2
  <2>2. IsLookups(L, NoEpoch)
    <3>1. L = [id \in DOMAIN L |-> L[id]]
      BY <2>1 DEF Lookups
    <3>2. IsFiniteSet(DOMAIN L)
      BY <2>1, FS_EmptySet
    <3> QED BY <2>1, <3>1, <3>2 DEF IsLookups
  <2>3. \A first : Remembers(<<>>, L, first) /\ CountedByEpoch(<<>>, L, first)
    <3> TAKE first
    <3>1. \A o : Since(L, o, first) = {} /\ FindOr(<<>>, o, 0) = 0
      BY <2>1 DEF Since, FindOr
    <3>2. Cardinality({}) = 0
      BY FS_EmptySet
    <3>3. Remembers(<<>>, L, first)
      BY <1>4, <3>1, <3>2 DEF Remembers
    <3>4. CountedByEpoch(<<>>, L, first)
      BY <1>4, <2>1 DEF CountedByEpoch
    <3> QED BY <3>3, <3>4
  <2>4. contention_aware => DemandRemembered(NewHistory, L, NoEpoch)
    <3> SUFFICES ASSUME contention_aware PROVE DemandRemembered(NewHistory, L, NoEpoch)
      OBVIOUS
    <3>1. /\ NewHistory.access_counts = <<>> /\ NewHistory.local_confirmation_counts = <<>>
          /\ NewHistory.local_confirmation_by_epoch = <<>>
      BY DEF NewHistory, NewContention, contention_aware
    <3> QED BY <2>3, <3>1 DEF DemandRemembered
  <2>5. hotness_only => HotnessOK(NewHistory) /\ HeatRemembered(NewHistory, L, NoEpoch)
    <3> SUFFICES ASSUME hotness_only
                 PROVE  HotnessOK(NewHistory) /\ HeatRemembered(NewHistory, L, NoEpoch)
      OBVIOUS
    <3>1. NewHistory = [access_counts |-> <<>>, epoch_access_counts |-> <<>>]
      BY DEF NewHistory, NewHotness, hotness_only
    <3>2. HotnessOK(NewHistory)
      BY <1>4, <3>1 DEF HotnessOK
    <3>3. NewHistory.access_counts = <<>> /\ NewHistory.epoch_access_counts = <<>>
      BY <3>1
    <3> QED BY <2>3, <3>2, <3>3 DEF HeatRemembered
  <2> QED BY <2>1, <2>2, <2>4, <2>5 DEF PolicyRemembers
<1>6. NewComputeNode.current_epoch = NoEpoch
  BY DEF NewComputeNode
<1> QED BY <1>1, <1>2, <1>3, <1>5, <1>6 DEF HistoryInv

\* Every step keeps the invariant.
LEMMA HistoryNext == HistoryInv /\ [Next]_vars => HistoryInv'
<1> SUFFICES ASSUME HistoryInv, [Next]_vars PROVE HistoryInv'
  OBVIOUS
<1>1. TelemetryInv'
  BY TelemetryNext DEF HistoryInv
<1>2. ASSUME UNCHANGED <<config, stats, history, compute_nodes, request_table, next_request_id>>
      PROVE  HistoryInv'
  <2>1. ASSUME NEW n \in Nodes
        PROVE  PolicyRemembers(history[n], Lookups(n), compute_nodes[n].current_epoch)'
    <3>1. PICK h, L, c : h = history[n] /\ L = Lookups(n) /\ c = compute_nodes[n].current_epoch
      OBVIOUS
    <3>2. PolicyRemembers(h, L, c)'
      BY <1>2, <3>1, RemembersByConfig DEF HistoryInv
    <3>3. Lookups(n)' = Lookups(n)
      BY <1>2 DEF Lookups, LookedUp, Issued, SourceOf, Stage, ObjectOf, EpochOf
    <3> QED BY <1>2, <3>1, <3>2, <3>3
  <2> QED BY <1>1, <1>2, <2>1 DEF HistoryInv
<1>3. CASE Run
  BY <1>2, <1>3 DEF Run
<1>4. ASSUME NEW e \in sched.events, MemoryStep(e) \/ ComputeStep(e)
      PROVE  HistoryInv'
  BY <1>1, <1>4, HandlerKeepsHistory
<1>5. CASE UNCHANGED vars
  BY <1>2, <1>5 DEF vars
<1> QED BY <1>3, <1>4, <1>5 DEF Next, Finished

-----------------------------------------------------------------------------
(* What the policies decide by *)

\* The lookups of a node are those that the properties count.
LEMMA LookupsAreCounted ==
  ASSUME HistoryInv, NEW n \in Nodes
  PROVE  \A o, first : LookupsSince(n, o, first) = Since(Lookups(n), o, first)
<1>1. DOMAIN Lookups(n) = LookedUp(n)
  BY DEF Lookups
<1>2. \A id \in LookedUp(n) : /\ Lookups(n)[id].object = request_table[id].object_id
                              /\ Lookups(n)[id].epoch = request_table[id].epoch_id
  BY DEF Lookups, ObjectOf, EpochOf
<1>3. \A id : id \in LookedUp(n) <=> /\ id \in Issued
                                     /\ request_table[id].source_node_id = n
                                     /\ request_table[id].current_stage # "Generated"
  BY DEF LookedUp, SourceOf, Stage
<1> QED BY <1>1, <1>2, <1>3 DEF LookupsSince, Since

\* Epochs are natural numbers, so that a window that would begin before epoch 0
\* begins there.
LEMMA WindowsBeginAtZero ==
  ASSUME NEW c, NEW L, IsLookups(L, c), NEW o, NEW first \in Int
  PROVE  Since(L, o, first) = Since(L, o, AtLeast(first, 0))
<1>1. \A id \in DOMAIN L : L[id].epoch \in Nat
  BY DEF IsLookups
<1>2. AtLeast(first, 0) = IF first >= 0 THEN first ELSE 0
  BY DEF AtLeast
<1> QED BY <1>1, <1>2 DEF Since

\* The contention-aware policy counts the lookups it remembers.
LEMMA DemandCounts == HistoryInv => DemandIsRememberedLookups
<1> SUFFICES ASSUME HistoryInv, contention_aware, NEW n \in Nodes, NEW o
             PROVE  LET current == compute_nodes[n].current_epoch
                        first == IF knobs.reset_on_epoch_change THEN current ELSE 0
                        confirmed_since ==
                          current - AtLeast(knobs.local_confirmation_window_epochs, 1) + 1
                    IN /\ count_for(history[n], o) = Cardinality(LookupsSince(n, o, first))
                       /\ uses_local_confirmation =>
                            confirmation_count_for(history[n], o)
                              = Cardinality(LookupsSince(n, o, confirmed_since))
  BY DEF DemandIsRememberedLookups
<1>1. PICK h, L, c : /\ h = history[n] /\ L = Lookups(n) /\ c \in Int
                     /\ c = compute_nodes[n].current_epoch
  BY DEF HistoryInv, TelemetryInv, BarrierInv, RequestPathInv, SimulatorInv, TypeOK,
     ComputeNodeState, NoEpoch
<1>2. IsLookups(L, c) /\ DemandRemembered(h, L, c)
  BY <1>1 DEF HistoryInv, PolicyRemembers
<1>3. \A p, first : LookupsSince(n, p, first) = Since(L, p, first)
  BY <1>1, LookupsAreCounted
<1>4. count_for(h, o) = Cardinality(Since(L, o, DemandSince(c)))
  BY <1>2 DEF DemandRemembered, Remembers, count_for
<1>5. ASSUME uses_local_confirmation
      PROVE  confirmation_count_for(h, o) = Cardinality(Since(L, o,
               c - AtLeast(knobs.local_confirmation_window_epochs, 1) + 1))
  <2>1. confirmation_count_for(h, o) = Cardinality(Since(L, o, FirstRetainedEpoch(c)))
    BY <1>2, <1>5 DEF DemandRemembered, Remembers, confirmation_count_for
  <2>2. PICK w \in Int : w = AtLeast(knobs.local_confirmation_window_epochs, 1)
    <3>1. knobs.local_confirmation_window_epochs \in Int
      BY DEF HistoryInv, TelemetryInv, BarrierInv, RequestPathInv, SimulatorInv, TypeOK,
         AcceptedConfig, SimulationConfig, ContentionPolicyConfig, knobs
    <3> QED BY <3>1 DEF AtLeast
  <2>3. FirstRetainedEpoch(c) = AtLeast(c - w + 1, 0)
    BY <1>1, <2>2 DEF FirstRetainedEpoch, AtLeast
  <2>4. Since(L, o, c - w + 1) = Since(L, o, FirstRetainedEpoch(c))
    BY <1>1, <1>2, <2>3, WindowsBeginAtZero
  <2> QED BY <2>1, <2>2, <2>4
<1> QED BY <1>1, <1>3, <1>4, <1>5 DEF DemandSince

\* The hotness policy does, where windows fit.
LEMMA HeatCounts == HistoryInv /\ WindowsFit => HeatIsRememberedLookups
<1> SUFFICES ASSUME HistoryInv, WindowsFit, hotness_only, NEW n \in Nodes, NEW o
             PROVE  LET current == compute_nodes[n].current_epoch
                        first == CASE config.history_mode = "epoch" -> current
                                   [] config.history_mode = "windowed"
                                        -> current - config.history_window_epochs + 1
                                   [] OTHER -> 0
                    IN count_for(history[n], o) = Cardinality(LookupsSince(n, o, first))
  BY DEF HeatIsRememberedLookups, hotness_only
<1>1. PICK h, L, c : h = history[n] /\ L = Lookups(n) /\ c = compute_nodes[n].current_epoch
  OBVIOUS
<1>2. HeatRemembered(h, L, c)
  BY <1>1 DEF HistoryInv, PolicyRemembers
<1>3. \A p, first : LookupsSince(n, p, first) = Since(L, p, first)
  BY <1>1, LookupsAreCounted
<1>4. count_for(h, o) = Cardinality(Since(L, o, HeatSince(c)))
  BY <1>2 DEF HeatRemembered, Remembers, count_for
<1> QED BY <1>1, <1>3, <1>4 DEF HeatSince, windowed

\* The counts by which the contention-aware policy weighs local demand are, in
\* every state, the lookups of its node that its configuration remembers, hits
\* and misses alike, each once: those of the epoch or of the run, and, to confirm
\* demand, those of the last epochs (on_lookup, on_epoch_start,
\* prune_local_confirmation).
THEOREM DemandIsCounted == Spec => []DemandIsRememberedLookups
<1>1. Spec => []HistoryInv
  BY HistoryInit, HistoryNext, PTL DEF Spec
<1> QED BY <1>1, DemandCounts, PTL

\* So are the counts of the hotness policy, those of the epoch, of the last epochs
\* or of the run, as long as a window holds an epoch and does not end beyond the
\* range of epoch arithmetic: Expired adds the window to an epoch, and a sum that
\* wraps would forget the epoch at once (prune_window, subtract_epoch_counts).
THEOREM HeatIsCounted == Spec /\ []WindowsFit => []HeatIsRememberedLookups
<1>1. Spec => []HistoryInv
  BY HistoryInit, HistoryNext, PTL DEF Spec
<1> QED BY <1>1, HeatCounts, PTL

-----------------------------------------------------------------------------
(* Placement rows and misses *)

\* A row is a record of eleven fields, and a cache one of eight; its entries are a
\* function and its rows a sequence.
HasRowShape(row) ==
  row = [epoch_id |-> row.epoch_id, request_id |-> row.request_id,
         object_id |-> row.object_id, time |-> row.time, size_bytes |-> row.size_bytes,
         admitted |-> row.admitted, reason |-> row.reason,
         evicted_objects |-> row.evicted_objects,
         future_hit_count |-> row.future_hit_count, evicted |-> row.evicted,
         eviction_time |-> row.eviction_time]

HasCacheShape(c) ==
  /\ c = [entries |-> c.entries, occupancy_bytes |-> c.occupancy_bytes,
          hit_count |-> c.hit_count, miss_count |-> c.miss_count,
          bytes_admitted |-> c.bytes_admitted, bytes_evicted |-> c.bytes_evicted,
          admission_records |-> c.admission_records,
          active_placement_by_object |-> c.active_placement_by_object]
  /\ c.entries = [o \in DOMAIN c.entries |-> c.entries[o]]
  /\ \E len \in Nat : c.admission_records = [i \in 1 .. len |-> c.admission_records[i]]

IsOpen(row) == row.admitted /\ ~row.evicted

\* The active placements are those of the residents, each an open row of its own
\* object, and every open row is active.  That the row is of that object is what
\* RowsOfResidents leaves out: without it an eviction could close another's row.
ActiveRowsAreOpen(residents, active, rows) ==
  /\ DOMAIN active = residents
  /\ \A o \in residents : /\ active[o] \in DOMAIN rows
                          /\ IsOpen(rows[active[o]])
                          /\ rows[active[o]].object_id = o
  /\ \A i \in DOMAIN rows : IsOpen(rows[i]) =>
       rows[i].object_id \in residents /\ active[rows[i].object_id] = i

PlacementsTrue(c) ==
  /\ HasCacheShape(c)
  /\ \A i \in DOMAIN c.admission_records : HasRowShape(c.admission_records[i])
  /\ ActiveRowsAreOpen(DOMAIN c.entries, c.active_placement_by_object, c.admission_records)
  /\ ClosedRowsAreExplained(c.admission_records)

\* The nodes whose rows the property is about.
OneAtATime ==
  config.issue_mode = "completion_driven" /\ config.policy_type # "global_hottest"

\* An object is absent from the cache as long as a miss for it is under way.
MissesAreAbsent ==
  OneAtATime =>
    \A id \in Unfinished :
      Stage(id) \in {"ForwardedToMemory", "WaitingForResponse"} =>
        ~contains(local_cache[SourceOf(id)], request_table[id].object_id)

CachesAreTrue ==
  OneAtATime =>
    /\ local_cache = [n \in Nodes |-> local_cache[n]]
    /\ \A n \in Nodes : PlacementsTrue(local_cache[n])

PlacementInv == BarrierInv /\ MissesAreAbsent /\ CachesAreTrue

-----------------------------------------------------------------------------
(* The rows *)

\* Two rows that differ in nothing but what a hit or a report writes.
SameRow(row, other) ==
  /\ row.object_id = other.object_id /\ row.time = other.time
  /\ row.admitted = other.admitted /\ row.evicted_objects = other.evicted_objects
  /\ row.evicted = other.evicted /\ row.eviction_time = other.eviction_time

\* The explanation of rows[j] by rows[i], as ClosedRowsAreExplained has it.
ExplainsRow(rows, i, j) ==
  /\ j < i /\ rows[i].admitted /\ rows[j].evicted
  /\ rows[j].eviction_time = rows[i].time
  /\ rows[j].object_id \in rows[i].evicted_objects

\* ClosedRowsAreExplained says it of every closed row and of every victim.
LEMMA ExplainedAs ==
  ASSUME NEW rows
  PROVE  ClosedRowsAreExplained(rows) <=>
           /\ \A j \in DOMAIN rows : rows[j].evicted =>
                \E i \in DOMAIN rows : ExplainsRow(rows, i, j)
           /\ \A i \in DOMAIN rows : rows[i].admitted =>
                \A o \in rows[i].evicted_objects :
                  \E j \in DOMAIN rows : rows[j].object_id = o /\ ExplainsRow(rows, i, j)
BY DEF ClosedRowsAreExplained, ExplainsRow

\* What a hit writes to a row changes nothing of this.
LEMMA SameRowsStayTrue ==
  ASSUME NEW residents, NEW active, NEW rows, NEW new, DOMAIN new = DOMAIN rows,
         \A i \in DOMAIN rows : SameRow(new[i], rows[i]),
         ActiveRowsAreOpen(residents, active, rows), ClosedRowsAreExplained(rows)
  PROVE  ActiveRowsAreOpen(residents, active, new) /\ ClosedRowsAreExplained(new)
<1>1. ActiveRowsAreOpen(residents, active, new)
  BY DEF ActiveRowsAreOpen, SameRow, IsOpen
<1>2. \A i, j \in DOMAIN rows : ExplainsRow(rows, i, j) => ExplainsRow(new, i, j)
  BY DEF ExplainsRow, SameRow
<1>3. \A i \in DOMAIN rows : /\ new[i].admitted = rows[i].admitted
                             /\ new[i].evicted = rows[i].evicted
                             /\ new[i].object_id = rows[i].object_id
                             /\ new[i].evicted_objects = rows[i].evicted_objects
  BY DEF SameRow
<1>4. ASSUME NEW j \in DOMAIN rows, new[j].evicted
      PROVE  \E i \in DOMAIN rows : ExplainsRow(new, i, j)
  BY <1>2, <1>3, <1>4, ExplainedAs
<1>5. ASSUME NEW i \in DOMAIN rows, new[i].admitted, NEW o \in new[i].evicted_objects
      PROVE  \E j \in DOMAIN rows : new[j].object_id = o /\ ExplainsRow(new, i, j)
  <2>1. PICK j \in DOMAIN rows : rows[j].object_id = o /\ ExplainsRow(rows, i, j)
    BY <1>3, <1>5, ExplainedAs
  <2> QED BY <1>2, <1>3, <2>1
<1>6. ClosedRowsAreExplained(new)
  BY <1>4, <1>5, ExplainedAs
<1> QED BY <1>1, <1>6

\* A refusal is a row that is neither open nor closed.
LEMMA RefusalStaysTrue ==
  ASSUME NEW residents, NEW active, NEW rows, NEW len \in Nat, DOMAIN rows = 1 .. len,
         NEW new, DOMAIN new = 1 .. len + 1, \A i \in 1 .. len : new[i] = rows[i],
         ~new[len + 1].admitted, ~new[len + 1].evicted,
         ActiveRowsAreOpen(residents, active, rows), ClosedRowsAreExplained(rows)
  PROVE  ActiveRowsAreOpen(residents, active, new) /\ ClosedRowsAreExplained(new)
<1>1. \A i \in 1 .. len + 1 : i \in 1 .. len \/ i = len + 1
  OBVIOUS
<1>2. \A i \in 1 .. len : i \in 1 .. len + 1
  OBVIOUS
<1>3. ActiveRowsAreOpen(residents, active, new)
  BY <1>1, <1>2 DEF ActiveRowsAreOpen, IsOpen
<1>4. \A i, j \in DOMAIN rows : ExplainsRow(rows, i, j) => ExplainsRow(new, i, j)
  BY DEF ExplainsRow
<1>5. ASSUME NEW j \in 1 .. len + 1, new[j].evicted
      PROVE  \E i \in 1 .. len + 1 : ExplainsRow(new, i, j)
  <2>1. j \in 1 .. len /\ rows[j].evicted
    BY <1>1, <1>5
  <2>2. PICK i \in 1 .. len : ExplainsRow(rows, i, j)
    BY <2>1, ExplainedAs
  <2> QED BY <1>2, <1>4, <2>1, <2>2
<1>6. ASSUME NEW i \in 1 .. len + 1, new[i].admitted, NEW o \in new[i].evicted_objects
      PROVE  \E j \in 1 .. len + 1 : new[j].object_id = o /\ ExplainsRow(new, i, j)
  <2>1. i \in 1 .. len /\ new[i] = rows[i]
    BY <1>1, <1>6
  <2>2. PICK j \in 1 .. len : rows[j].object_id = o /\ ExplainsRow(rows, i, j)
    BY <1>6, <2>1, ExplainedAs
  <2> QED BY <1>2, <1>4, <2>1, <2>2
<1>7. ClosedRowsAreExplained(new)
  BY <1>5, <1>6, ExplainedAs
<1> QED BY <1>3, <1>7

\* A row as an eviction at this time leaves it.
Closes(row, old, time) ==
  /\ row.object_id = old.object_id /\ row.time = old.time
  /\ row.admitted = old.admitted /\ row.evicted_objects = old.evicted_objects
  /\ row.evicted /\ row.eviction_time = time

\* At this time the victims go and o comes: after is the active map then, and new
\* the rows, one more than len.
Admits(residents, active, rows, len, victims, o, time, after, new) ==
  LET closed == {active[v] : v \in victims}
  IN /\ len \in Nat /\ DOMAIN rows = 1 .. len /\ DOMAIN new = 1 .. len + 1
     /\ victims \subseteq residents /\ o \notin residents
     /\ \A i \in 1 .. len : i \in closed => Closes(new[i], rows[i], time)
     /\ \A i \in 1 .. len : i \notin closed => new[i] = rows[i]
     /\ new[len + 1].admitted /\ ~new[len + 1].evicted
     /\ new[len + 1].object_id = o /\ new[len + 1].time = time
     /\ new[len + 1].evicted_objects = victims
     /\ DOMAIN after = (residents \ victims) \cup {o} /\ after[o] = len + 1
     /\ \A p \in residents \ victims : after[p] = active[p]

\* An admission closes the rows of its victims, and opens one of its own.
LEMMA AdmissionStaysTrue ==
  ASSUME NEW residents, NEW active, NEW rows, NEW len, NEW victims, NEW o, NEW time,
         NEW after, NEW new,
         Admits(residents, active, rows, len, victims, o, time, after, new),
         ActiveRowsAreOpen(residents, active, rows), ClosedRowsAreExplained(rows)
  PROVE  ActiveRowsAreOpen((residents \ victims) \cup {o}, after, new)
         /\ ClosedRowsAreExplained(new)
<1>1. PICK closed : closed = {active[v] : v \in victims}
  OBVIOUS
<1>2. /\ len \in Nat /\ DOMAIN rows = 1 .. len /\ DOMAIN new = 1 .. len + 1
      /\ victims \subseteq residents /\ o \notin residents
  BY DEF Admits
<1>3. \A i \in 1 .. len : i \in closed => Closes(new[i], rows[i], time)
  BY <1>1 DEF Admits
<1>4. \A i \in 1 .. len : i \notin closed => new[i] = rows[i]
  BY <1>1 DEF Admits
<1>5. /\ new[len + 1].admitted /\ ~new[len + 1].evicted
      /\ new[len + 1].object_id = o /\ new[len + 1].time = time
      /\ new[len + 1].evicted_objects = victims
      /\ DOMAIN after = (residents \ victims) \cup {o} /\ after[o] = len + 1
  BY DEF Admits
<1>6. \A p \in residents \ victims : after[p] = active[p]
  BY DEF Admits
<1> USE <1>1, <1>2, <1>3, <1>4, <1>5, <1>6
<1>7. \A i \in 1 .. len + 1 : i \in 1 .. len \/ i = len + 1
  OBVIOUS
<1>8. \A i \in 1 .. len : i \in 1 .. len + 1 /\ i < len + 1
  OBVIOUS
<1>9. \A v \in victims : /\ active[v] \in 1 .. len /\ rows[active[v]].object_id = v
                         /\ IsOpen(rows[active[v]])
  BY DEF ActiveRowsAreOpen
<1>10. ASSUME NEW p \in (residents \ victims) \cup {o}
       PROVE  /\ after[p] \in DOMAIN new /\ IsOpen(new[after[p]])
              /\ new[after[p]].object_id = p
  <2>1. CASE p = o
    BY <2>1, <1>8 DEF IsOpen
  <2>2. CASE p # o
    <3>1. p \in residents /\ p \notin victims /\ after[p] = active[p]
      BY <2>2
    <3>2. active[p] \in 1 .. len /\ IsOpen(rows[active[p]]) /\ rows[active[p]].object_id = p
      BY <3>1 DEF ActiveRowsAreOpen
    <3>3. new[active[p]] = rows[active[p]]
      BY <1>9, <3>1, <3>2
    <3> QED BY <1>8, <3>1, <3>2, <3>3
  <2> QED BY <2>1, <2>2
<1>11. ASSUME NEW i \in 1 .. len + 1, IsOpen(new[i])
       PROVE  /\ new[i].object_id \in (residents \ victims) \cup {o}
              /\ after[new[i].object_id] = i
  <2>1. CASE i = len + 1
    BY <2>1
  <2>2. CASE i \in 1 .. len
    <3>1. i \notin closed
      BY <1>11, <2>2 DEF IsOpen, Closes
    <3>2. new[i] = rows[i] /\ IsOpen(rows[i])
      BY <1>11, <2>2, <3>1
    <3>3. rows[i].object_id \in residents /\ active[rows[i].object_id] = i
      BY <2>2, <3>2 DEF ActiveRowsAreOpen
    <3> QED BY <3>1, <3>2, <3>3
  <2> QED BY <1>7, <2>1, <2>2
<1>12. ActiveRowsAreOpen((residents \ victims) \cup {o}, after, new)
  BY <1>10, <1>11 DEF ActiveRowsAreOpen
<1>13. ASSUME NEW i \in 1 .. len, NEW j \in 1 .. len, ExplainsRow(rows, i, j)
       PROVE  ExplainsRow(new, i, j)
  <2>1. j \notin closed
    BY <1>9, <1>13 DEF ExplainsRow, IsOpen
  <2>2. new[j] = rows[j]
    BY <2>1
  <2>3. /\ new[i].time = rows[i].time /\ new[i].admitted = rows[i].admitted
        /\ new[i].evicted_objects = rows[i].evicted_objects
    BY DEF Closes
  <2> QED BY <1>13, <2>2, <2>3 DEF ExplainsRow
<1>14. ASSUME NEW v \in victims
       PROVE  /\ active[v] \in 1 .. len /\ new[active[v]].object_id = v
              /\ ExplainsRow(new, len + 1, active[v])
  <2>1. active[v] \in closed
    OBVIOUS
  <2>2. Closes(new[active[v]], rows[active[v]], time)
    BY <1>9, <2>1
  <2> QED BY <1>8, <1>9, <2>2 DEF ExplainsRow, Closes
<1>15. ASSUME NEW j \in 1 .. len + 1, new[j].evicted
       PROVE  \E i \in 1 .. len + 1 : ExplainsRow(new, i, j)
  <2>1. j \in 1 .. len
    BY <1>7, <1>15
  <2>2. CASE j \in closed
    BY <1>14, <2>2
  <2>3. CASE j \notin closed
    <3>1. rows[j].evicted
      BY <1>15, <2>1, <2>3
    <3>2. PICK i \in 1 .. len : ExplainsRow(rows, i, j)
      BY <2>1, <3>1, ExplainedAs
    <3> QED BY <1>8, <1>13, <2>1, <3>2
  <2> QED BY <2>2, <2>3
<1>16. ASSUME NEW i \in 1 .. len + 1, new[i].admitted, NEW q \in new[i].evicted_objects
       PROVE  \E j \in 1 .. len + 1 : new[j].object_id = q /\ ExplainsRow(new, i, j)
  <2>1. CASE i = len + 1
    BY <1>8, <1>14, <1>16, <2>1
  <2>2. CASE i \in 1 .. len
    <3>1. rows[i].admitted /\ q \in rows[i].evicted_objects
      <4>1. CASE i \in closed
        BY <1>16, <2>2, <4>1 DEF Closes
      <4>2. CASE i \notin closed
        BY <1>16, <2>2, <4>2
      <4> QED BY <4>1, <4>2
    <3>2. PICK j \in 1 .. len : rows[j].object_id = q /\ ExplainsRow(rows, i, j)
      BY <2>2, <3>1, ExplainedAs
    <3>3. new[j].object_id = rows[j].object_id
      BY DEF Closes
    <3> QED BY <1>8, <1>13, <2>2, <3>2, <3>3
  <2> QED BY <1>7, <2>1, <2>2
<1>17. ClosedRowsAreExplained(new)
  BY <1>15, <1>16, ExplainedAs
<1> QED BY <1>12, <1>17

-----------------------------------------------------------------------------
(* The operations of the cache *)

\* A lookup counts, touches the entry and credits its row; nobody comes or goes.
LEMMA LookupStaysTrue ==
  ASSUME NEW c, PlacementsTrue(c), NEW o, NEW time
  PROVE  /\ PlacementsTrue(lookup(c, o, time))
         /\ DOMAIN lookup(c, o, time).entries = DOMAIN c.entries
<1>1. PICK entries, occupancy, hits, misses, admitted, evicted, rows, active :
        c = [entries |-> entries, occupancy_bytes |-> occupancy, hit_count |-> hits,
             miss_count |-> misses, bytes_admitted |-> admitted, bytes_evicted |-> evicted,
             admission_records |-> rows, active_placement_by_object |-> active]
  BY DEF PlacementsTrue, HasCacheShape
<1>2. entries = [p \in DOMAIN entries |-> entries[p]]
  BY <1>1 DEF PlacementsTrue, HasCacheShape
<1>3. PICK len \in Nat : rows = [i \in 1 .. len |-> rows[i]]
  BY <1>1 DEF PlacementsTrue, HasCacheShape
<1>4. /\ \A i \in 1 .. len : HasRowShape(rows[i])
      /\ ActiveRowsAreOpen(DOMAIN entries, active, rows) /\ ClosedRowsAreExplained(rows)
  BY <1>1, <1>3 DEF PlacementsTrue
<1>5. CASE ~contains(c, o)
  <2>1. PICK d : d = lookup(c, o, time)
    OBVIOUS
  <2>2. d = [entries |-> entries, occupancy_bytes |-> occupancy, hit_count |-> hits,
             miss_count |-> misses + 1, bytes_admitted |-> admitted,
             bytes_evicted |-> evicted, admission_records |-> rows,
             active_placement_by_object |-> active]
    BY <1>1, <1>5, <2>1 DEF lookup
  <2>3. HasCacheShape(d)
    BY <1>2, <1>3, <2>2 DEF HasCacheShape
  <2>4. /\ d.entries = entries /\ d.admission_records = rows
        /\ d.active_placement_by_object = active /\ DOMAIN rows = 1 .. len
    BY <1>3, <2>2
  <2>5. PlacementsTrue(d)
    BY <1>4, <2>3, <2>4 DEF PlacementsTrue
  <2> QED BY <1>1, <2>1, <2>4, <2>5
<1>6. CASE contains(c, o)
  <2>1. o \in DOMAIN entries /\ o \in DOMAIN active /\ active[o] \in 1 .. len
    BY <1>1, <1>3, <1>4, <1>6 DEF contains, ActiveRowsAreOpen
  <2>2. PICK touched : touched = [entries EXCEPT ![o].last_access_time = time]
    OBVIOUS
  <2>3. DOMAIN touched = DOMAIN entries /\ touched = [p \in DOMAIN touched |-> touched[p]]
    BY <1>2, <2>2
  <2>4. PICK k, more : k = active[o] /\ more = rows[k].future_hit_count + 1
    OBVIOUS
  <2>5. PICK credited : credited = [rows EXCEPT ![k].future_hit_count = @ + 1]
    OBVIOUS
  <2>6. /\ credited = [i \in 1 .. len |-> credited[i]]
        /\ \A i \in 1 .. len : i # k => credited[i] = rows[i]
        /\ credited[k] = [rows[k] EXCEPT !.future_hit_count = more]
    BY <1>3, <2>1, <2>4, <2>5
  <2>7. PICK d : d = lookup(c, o, time)
    OBVIOUS
  <2>8. d = [entries |-> touched, occupancy_bytes |-> occupancy, hit_count |-> hits + 1,
             miss_count |-> misses, bytes_admitted |-> admitted,
             bytes_evicted |-> evicted, admission_records |-> credited,
             active_placement_by_object |-> active]
    <3>1. PICK b : b = [c EXCEPT !.hit_count = @ + 1, !.entries[o].last_access_time = time]
      OBVIOUS
    <3>2. b = [entries |-> touched, occupancy_bytes |-> occupancy, hit_count |-> hits + 1,
               miss_count |-> misses, bytes_admitted |-> admitted,
               bytes_evicted |-> evicted, admission_records |-> rows,
               active_placement_by_object |-> active]
      BY <1>1, <2>2, <3>1
    <3>3. d = record_hit(b, o)
      BY <1>6, <2>7, <3>1 DEF lookup
    <3>4. d = [b EXCEPT !.admission_records[k].future_hit_count = @ + 1]
      BY <2>1, <2>4, <3>2, <3>3 DEF record_hit
    <3> QED BY <2>5, <3>2, <3>4
  <2>9. HasRowShape(credited[k]) /\ SameRow(credited[k], rows[k])
    BY <1>4, <2>1, <2>4, <2>6 DEF HasRowShape, SameRow
  <2>10. \A i \in 1 .. len : HasRowShape(credited[i]) /\ SameRow(credited[i], rows[i])
    BY <1>4, <2>6, <2>9 DEF SameRow
  <2>11. /\ ActiveRowsAreOpen(DOMAIN touched, active, credited)
         /\ ClosedRowsAreExplained(credited)
    <3>1. DOMAIN rows = 1 .. len /\ DOMAIN credited = 1 .. len
      BY <1>3, <2>6
    <3> QED BY <1>4, <2>3, <2>10, <3>1, SameRowsStayTrue
  <2>12. HasCacheShape(d)
    BY <2>3, <2>6, <2>8 DEF HasCacheShape
  <2>13. DOMAIN credited = 1 .. len
    BY <2>6
  <2> QED BY <1>1, <2>3, <2>7, <2>8, <2>10, <2>11, <2>12, <2>13 DEF PlacementsTrue
<1> QED BY <1>5, <1>6

\* Append leaves the rows where they are and adds one.
LEMMA AppendedRow ==
  ASSUME NEW rows, NEW len \in Nat, rows = [i \in 1 .. len |-> rows[i]], NEW row,
         NEW new, new = Append(rows, row)
  PROVE  /\ Len(rows) = len /\ DOMAIN new = 1 .. len + 1
         /\ new = [i \in 1 .. len + 1 |-> new[i]]
         /\ \A i \in 1 .. len : new[i] = rows[i]
         /\ new[len + 1] = row
<1>1. PICK S : S = {rows[i] : i \in 1 .. len} \cup {row}
  OBVIOUS
<1>2. rows \in Seq(S) /\ Len(rows) = len /\ row \in S
  BY <1>1
<1>3. /\ DOMAIN new = 1 .. len + 1
      /\ \A i \in 1 .. len : new[i] = rows[i]
      /\ new[len + 1] = row
  BY <1>2
<1>4. new \in Seq(S)
  BY <1>2
<1> QED BY <1>2, <1>3, <1>4

\* A refused admission leaves a row and nothing else.
LEMMA RefuseStaysTrue ==
  ASSUME NEW c, PlacementsTrue(c), NEW row, HasRowShape(row), ~row.admitted, ~row.evicted
  PROVE  PlacementsTrue([c EXCEPT !.admission_records = Append(@, row)])
<1>1. PICK entries, occupancy, hits, misses, admitted, evicted, rows, active :
        c = [entries |-> entries, occupancy_bytes |-> occupancy, hit_count |-> hits,
             miss_count |-> misses, bytes_admitted |-> admitted, bytes_evicted |-> evicted,
             admission_records |-> rows, active_placement_by_object |-> active]
  BY DEF PlacementsTrue, HasCacheShape
<1>2. entries = [p \in DOMAIN entries |-> entries[p]]
  BY <1>1 DEF PlacementsTrue, HasCacheShape
<1>3. PICK len \in Nat : rows = [i \in 1 .. len |-> rows[i]]
  BY <1>1 DEF PlacementsTrue, HasCacheShape
<1>4. DOMAIN rows = 1 .. len
  BY <1>3
<1>5. /\ \A i \in 1 .. len : HasRowShape(rows[i])
      /\ ActiveRowsAreOpen(DOMAIN entries, active, rows) /\ ClosedRowsAreExplained(rows)
  BY <1>1, <1>4 DEF PlacementsTrue
<1>6. PICK new : new = Append(rows, row)
  OBVIOUS
<1>7. PICK d : d = [c EXCEPT !.admission_records = Append(@, row)]
  OBVIOUS
<1>8. d = [entries |-> entries, occupancy_bytes |-> occupancy, hit_count |-> hits,
           miss_count |-> misses, bytes_admitted |-> admitted, bytes_evicted |-> evicted,
           admission_records |-> new, active_placement_by_object |-> active]
  BY <1>1, <1>6, <1>7
<1>9. /\ DOMAIN new = 1 .. len + 1 /\ new = [i \in 1 .. len + 1 |-> new[i]]
      /\ \A i \in 1 .. len : new[i] = rows[i]
      /\ new[len + 1] = row
  BY <1>3, <1>6, AppendedRow
<1>10. ActiveRowsAreOpen(DOMAIN entries, active, new) /\ ClosedRowsAreExplained(new)
  BY <1>4, <1>5, <1>9, RefusalStaysTrue
<1>11. HasCacheShape(d)
  <2>1. len + 1 \in Nat
    OBVIOUS
  <2> QED BY <1>2, <1>8, <1>9, <2>1 DEF HasCacheShape
<1>12. ASSUME NEW i \in DOMAIN new PROVE HasRowShape(new[i])
  <2>1. i \in 1 .. len \/ i = len + 1
    BY <1>9
  <2> QED BY <1>5, <1>9, <2>1
<1>13. PlacementsTrue(d)
  BY <1>8, <1>10, <1>11, <1>12 DEF PlacementsTrue
<1> QED BY <1>7, <1>13

\* Victims go and the object comes: their rows are closed, and its row is opened.
LEMMA PlaceStaysTrue ==
  ASSUME NEW c, PlacementsTrue(c), NEW victims, victims \subseteq DOMAIN c.entries,
         NEW o, ~contains(c, o), NEW bytes, NEW size, NEW time,
         NEW row, HasRowShape(row), row.admitted, ~row.evicted, row.object_id = o,
         row.evicted_objects = victims, row.time = time
  PROVE  PlacementsTrue(RecordPlacement(
           Insert(EvictAll(c, victims, bytes, time), o, size, time), row))
<1>1. PICK entries, occupancy, hits, misses, admitted, evicted, rows, active :
        c = [entries |-> entries, occupancy_bytes |-> occupancy, hit_count |-> hits,
             miss_count |-> misses, bytes_admitted |-> admitted, bytes_evicted |-> evicted,
             admission_records |-> rows, active_placement_by_object |-> active]
  BY DEF PlacementsTrue, HasCacheShape
<1>2. entries = [p \in DOMAIN entries |-> entries[p]]
  BY <1>1 DEF PlacementsTrue, HasCacheShape
<1>3. PICK len \in Nat : rows = [i \in 1 .. len |-> rows[i]]
  BY <1>1 DEF PlacementsTrue, HasCacheShape
<1>4. DOMAIN rows = 1 .. len
  BY <1>3
<1>5. /\ \A i \in 1 .. len : HasRowShape(rows[i])
      /\ ActiveRowsAreOpen(DOMAIN entries, active, rows) /\ ClosedRowsAreExplained(rows)
      /\ DOMAIN active = DOMAIN entries
  BY <1>1, <1>4 DEF PlacementsTrue, ActiveRowsAreOpen
<1>6. /\ victims \in SUBSET (DOMAIN entries) /\ o \notin DOMAIN entries
  BY <1>1 DEF contains
<1>7. PICK closed, kept, marked, stay, more :
        /\ closed = {c.active_placement_by_object[v] :
                        v \in victims \cap DOMAIN c.active_placement_by_object}
        /\ kept = [p \in DOMAIN c.entries \ victims |-> c.entries[p]]
        /\ marked = [i \in DOMAIN c.admission_records |->
                       IF i \in closed
                       THEN [c.admission_records[i] EXCEPT !.evicted = TRUE,
                                                           !.eviction_time = time]
                       ELSE c.admission_records[i]]
        /\ stay = [p \in DOMAIN c.active_placement_by_object \ victims |->
                     c.active_placement_by_object[p]]
        /\ more = MapThenSumSet(LAMBDA v : c.entries[v].size_bytes, victims)
  OBVIOUS
<1>8. PICK b : b = EvictAll(c, victims, bytes, time)
  OBVIOUS
<1>9. b = [c EXCEPT !.entries = kept, !.occupancy_bytes = bytes, !.bytes_evicted = @ + more,
                    !.active_placement_by_object = stay, !.admission_records = marked]
  BY <1>7, <1>8 DEF EvictAll
<1>10. b = [entries |-> kept, occupancy_bytes |-> bytes, hit_count |-> hits,
            miss_count |-> misses, bytes_admitted |-> admitted,
            bytes_evicted |-> evicted + more, admission_records |-> marked,
            active_placement_by_object |-> stay]
  BY <1>1, <1>9
<1>11. /\ closed = {active[v] : v \in victims}
       /\ kept = [p \in DOMAIN entries \ victims |-> entries[p]]
       /\ marked = [i \in 1 .. len |-> IF i \in closed
                                       THEN [rows[i] EXCEPT !.evicted = TRUE,
                                                            !.eviction_time = time]
                                       ELSE rows[i]]
       /\ stay = [p \in DOMAIN active \ victims |-> active[p]]
  <2>1. /\ c.entries = entries /\ c.active_placement_by_object = active
        /\ c.admission_records = rows /\ victims \cap DOMAIN active = victims
    BY <1>1, <1>5, <1>6
  <2> QED BY <1>4, <1>7, <2>1
<1>12. PICK d, now :
         /\ d = Insert(b, o, size, time)
         /\ now = Assign(kept, o, [size_bytes |-> size, last_access_time |-> time])
  OBVIOUS
<1>13. d = [entries |-> now, occupancy_bytes |-> bytes + size, hit_count |-> hits,
            miss_count |-> misses, bytes_admitted |-> admitted + size,
            bytes_evicted |-> evicted + more, admission_records |-> marked,
            active_placement_by_object |-> stay]
  BY <1>10, <1>12 DEF Insert
<1>14. PICK f, new, after :
         /\ f = RecordPlacement(d, row)
         /\ new = Append(marked, row)
         /\ after = Assign(stay, row.object_id, Len(marked) + 1)
  OBVIOUS
<1>15. f = [entries |-> now, occupancy_bytes |-> bytes + size, hit_count |-> hits,
            miss_count |-> misses, bytes_admitted |-> admitted + size,
            bytes_evicted |-> evicted + more, admission_records |-> new,
            active_placement_by_object |-> after]
  BY <1>13, <1>14 DEF RecordPlacement
<1>16. marked = [i \in 1 .. len |-> marked[i]]
  BY <1>11
<1>17. /\ Len(marked) = len /\ DOMAIN new = 1 .. len + 1
       /\ new = [i \in 1 .. len + 1 |-> new[i]]
       /\ \A i \in 1 .. len : new[i] = marked[i]
       /\ new[len + 1] = row
  BY <1>14, <1>16, AppendedRow
<1>18. ASSUME NEW i \in 1 .. len
       PROVE  /\ HasRowShape(new[i])
              /\ i \in closed => Closes(new[i], rows[i], time)
              /\ i \notin closed => new[i] = rows[i]
  <2>1. PICK old, mark : old = rows[i] /\ mark = new[i] /\ mark = marked[i]
    BY <1>17
  <2>2. HasRowShape(old)
    BY <1>5, <2>1
  <2>3. CASE i \in closed
    <3>1. mark = [old EXCEPT !.evicted = TRUE, !.eviction_time = time]
      BY <1>11, <2>1, <2>3
    <3>2. HasRowShape(mark) /\ Closes(mark, old, time)
      BY <2>2, <3>1 DEF HasRowShape, Closes
    <3> QED BY <2>1, <2>3, <3>2
  <2>4. CASE i \notin closed
    <3>1. mark = old
      BY <1>11, <2>1, <2>4
    <3> QED BY <2>1, <2>2, <2>4, <3>1
  <2> QED BY <2>3, <2>4
<1>19. /\ now = [p \in DOMAIN now |-> now[p]]
       /\ DOMAIN now = (DOMAIN entries \ victims) \cup {o}
  BY <1>11, <1>12 DEF Assign
<1>20. /\ DOMAIN after = (DOMAIN entries \ victims) \cup {o} /\ after[o] = len + 1
       /\ \A p \in DOMAIN entries \ victims : after[p] = active[p]
  BY <1>5, <1>6, <1>17, <1>11, <1>14 DEF Assign
<1>21. ActiveRowsAreOpen(DOMAIN now, after, new) /\ ClosedRowsAreExplained(new)
  <2>1. /\ new[len + 1].admitted /\ ~new[len + 1].evicted /\ new[len + 1].object_id = o
        /\ new[len + 1].evicted_objects = victims /\ new[len + 1].time = time
    BY <1>17
  <2>2. /\ ActiveRowsAreOpen((DOMAIN entries \ victims) \cup {o}, after, new)
        /\ ClosedRowsAreExplained(new)
    <3>1. PICK residents : residents = DOMAIN entries
      OBVIOUS
    <3>2. /\ len \in Nat /\ DOMAIN rows = 1 .. len /\ DOMAIN new = 1 .. len + 1
          /\ victims \subseteq residents /\ o \notin residents
      BY <1>3, <1>4, <1>6, <1>17, <3>1
    <3>3. /\ \A i \in 1 .. len : i \in closed => Closes(new[i], rows[i], time)
          /\ \A i \in 1 .. len : i \notin closed => new[i] = rows[i]
      BY <1>18
    <3>4. closed = {active[v] : v \in victims}
      BY <1>11
    <3>5. Admits(residents, active, rows, len, victims, o, time, after, new)
      BY <1>20, <2>1, <3>1, <3>2, <3>3, <3>4 DEF Admits
    <3> QED BY <1>5, <3>1, <3>5, AdmissionStaysTrue
  <2> QED BY <1>19, <2>2
<1>22. ASSUME NEW i \in DOMAIN new PROVE HasRowShape(new[i])
  <2>1. i \in 1 .. len \/ i = len + 1
    BY <1>17
  <2> QED BY <1>17, <1>18, <2>1
<1>23. HasCacheShape(f)
  <2>1. len + 1 \in Nat
    OBVIOUS
  <2> QED BY <1>17, <1>19, <1>15, <2>1 DEF HasCacheShape
<1>24. PlacementsTrue(f)
  BY <1>21, <1>22, <1>23, <1>15 DEF PlacementsTrue
<1> QED BY <1>8, <1>24, <1>12, <1>14

\* admit, whatever the policy and the plan of victims say.
LEMMA AdmitStaysTrue ==
  ASSUME NEW c, PlacementsTrue(c), NEW h, NEW r, ~contains(c, r.object_id), NEW time
  PROVE  PlacementsTrue(admit(c, h, r, time))
<1>1. PICK decision, plan : admit(c, h, r, time) = Decide(c, r, time, decision, plan)
  BY DEF admit
<1>2. PICK victims : /\ victims = DOMAIN c.entries \ plan.candidates
                     /\ victims \subseteq DOMAIN c.entries
  OBVIOUS
<1>3. ASSUME NEW reason, NEW evicted,
             admit(c, h, r, time) = [c EXCEPT !.admission_records = Append(@,
               NewRecord(r.epoch_id, r.request_id, r.object_id, time, r.size_bytes,
                         FALSE, reason, evicted))]
      PROVE  PlacementsTrue(admit(c, h, r, time))
  <2>1. PICK row : row = NewRecord(r.epoch_id, r.request_id, r.object_id, time,
                                   r.size_bytes, FALSE, reason, evicted)
    OBVIOUS
  <2>2. HasRowShape(row) /\ row.admitted = FALSE /\ row.evicted = FALSE
    BY <2>1 DEF NewRecord, HasRowShape
  <2>3. PlacementsTrue([c EXCEPT !.admission_records = Append(@, row)])
    BY <2>2, RefuseStaysTrue
  <2> QED BY <1>3, <2>1, <2>3
<1>4. ASSUME admit(c, h, r, time) = RecordPlacement(
               Insert(EvictAll(c, victims, plan.projected, time),
                      r.object_id, r.size_bytes, time),
               NewRecord(r.epoch_id, r.request_id, r.object_id, time, r.size_bytes,
                         TRUE, "admitted", victims))
      PROVE  PlacementsTrue(admit(c, h, r, time))
  <2>1. PICK row : row = NewRecord(r.epoch_id, r.request_id, r.object_id, time,
                                   r.size_bytes, TRUE, "admitted", victims)
    OBVIOUS
  <2>2. /\ HasRowShape(row) /\ row.admitted /\ ~row.evicted
        /\ row.object_id = r.object_id /\ row.evicted_objects = victims
        /\ row.time = time
    BY <2>1 DEF NewRecord, HasRowShape
  <2>3. PICK o, size, bytes : o = r.object_id /\ size = r.size_bytes /\ bytes = plan.projected
    OBVIOUS
  <2>4. PlacementsTrue(RecordPlacement(
          Insert(EvictAll(c, victims, bytes, time), o, size, time), row))
    BY <1>2, <2>2, <2>3, PlaceStaysTrue
  <2> QED BY <1>4, <2>1, <2>3, <2>4
<1>5. CASE decision # "admitted"
  BY <1>1, <1>3, <1>5 DEF Decide
<1>6. CASE decision = "admitted" /\ r.size_bytes > config.capacity_bytes
  BY <1>1, <1>3, <1>6 DEF Decide
<1>7. CASE /\ decision = "admitted" /\ ~(r.size_bytes > config.capacity_bytes)
           /\ plan.projected + r.size_bytes > config.capacity_bytes
  BY <1>1, <1>3, <1>7 DEF Decide
<1>8. CASE /\ decision = "admitted" /\ ~(r.size_bytes > config.capacity_bytes)
           /\ ~(plan.projected + r.size_bytes > config.capacity_bytes)
  BY <1>1, <1>2, <1>4, <1>8 DEF Decide
<1> QED BY <1>5, <1>6, <1>7, <1>8

-----------------------------------------------------------------------------
(* What a step does to the caches and to the misses *)

\* Outside the oracle a cache changes by a lookup, which finds its object or not,
\* and by the admission of an answer.
CacheEffect(e) ==
  LET n == e.target_id
      r == request_table[e.request_id]
  IN \/ e.type # "LocalCacheLookup" /\ UNCHANGED local_cache
     \/ /\ e.type = "LocalCacheLookup"
        /\ local_cache' = [local_cache EXCEPT ![n] = lookup(@, r.object_id, e.time)]
        /\ contains(local_cache[n], r.object_id) => Stage(e.request_id)' = "LocalLookup"
     \/ /\ e.type = "ReturnResponse"
        /\ local_cache' = [local_cache EXCEPT ![n] = admit(@, history[n], r, e.time)]

\* Every handler has one of these effects: start_epoch_if_needed installs replicas
\* under the oracle only.
LEMMA StepHasCacheEffect ==
  ASSUME SimulatorInv, OneAtATime, CachesAreTrue,
         NEW e \in sched.events, MemoryStep(e) \/ ComputeStep(e)
  PROVE  CacheEffect(e)
<1>1. CASE MemoryStep(e)
  BY <1>1 DEF MemoryStep, handle_forward_to_memory, handle_memory_service_start,
     handle_memory_service_complete, Dispatch, CacheEffect
<1>2. CASE handle_generate_request(e)
  <2>1. e.type = "GenerateRequest"
    BY <1>2 DEF handle_generate_request, Dispatch
  <2>2. config.policy_type # "global_hottest" /\ local_cache = [n \in Nodes |-> local_cache[n]]
    BY DEF OneAtATime, CachesAreTrue
  <2>3. \/ UNCHANGED local_cache
        \/ \E n : local_cache' = [local_cache EXCEPT ![n] = local_cache[n]]
    BY <1>2, <2>2 DEF handle_generate_request, IssueRequest, StartEpochCache
  <2>4. \A n : [local_cache EXCEPT ![n] = local_cache[n]] = local_cache
    BY <2>2
  <2> QED BY <2>1, <2>3, <2>4 DEF CacheEffect
<1>3. CASE handle_local_cache_lookup(e)
  <2> DEFINE n == e.target_id
             id == e.request_id
             hit == contains(local_cache[n], ObjectOf(id))
  <2>1. /\ Dispatch(e, "LocalCacheLookup", Nodes)
        /\ local_cache' = [local_cache EXCEPT ![n] = lookup(@, ObjectOf(id), e.time)]
        /\ request_table' = [request_table EXCEPT ![id].current_stage =
                               IF hit THEN "LocalLookup" ELSE "ForwardedToMemory"]
    BY <1>3 DEF handle_local_cache_lookup, ObjectOf
  <2>2. e.type = "LocalCacheLookup" /\ id \in Issued /\ request_table[id] \in Request
    BY <2>1, DispatchFacts
  <2>3. request_table \in [Issued -> Request]
    BY DEF SimulatorInv, TypeOK
  <2> HIDE DEF id
  <2>4. hit => request_table'[id].current_stage = "LocalLookup"
    <3>1. ASSUME hit
          PROVE  request_table' = [request_table EXCEPT ![id].current_stage = "LocalLookup"]
      BY <2>1, <3>1
    <3>2. ASSUME hit
          PROVE  request_table'[id] = [request_table[id] EXCEPT !.current_stage = "LocalLookup"]
      BY <2>2, <2>3, <3>1, <3>2
    <3> QED BY <2>2, <3>2 DEF Request
  <2> QED BY <2>1, <2>2, <2>4 DEF CacheEffect, ObjectOf, Stage, id
<1>4. CASE handle_local_cache_hit_complete(e) \/ handle_request_complete(e)
  BY <1>4 DEF handle_local_cache_hit_complete, handle_request_complete, Dispatch, CacheEffect
<1>5. CASE handle_return_response(e)
  BY <1>5 DEF handle_return_response, Dispatch, CacheEffect
<1> QED BY <1>1, <1>2, <1>3, <1>4, <1>5 DEF ComputeStep

MissStages == {"ForwardedToMemory", "WaitingForResponse"}

\* A miss was under way before the step, or comes from its lookup; and the step is
\* not the one that answers it.
LEMMA MissesComeFromLookups ==
  ASSUME RequestPathInv, NEW e \in sched.events, HandlerEffect(e),
         NEW id, (id \in Unfinished)', Stage(id)' \in MissStages
  PROVE  /\ id \in Issued /\ id \in Unfinished /\ SourceOf(id)' = SourceOf(id)
         /\ \/ Stage(id) \in MissStages
            \/ e.type = "LocalCacheLookup" /\ e.request_id = id
         /\ e.type = "ReturnResponse" => e.request_id # id
<1> DEFINE q == e.request_id
<1>1. id \in Issued'
  BY DEF Unfinished
<1>2. \A i \in Issued : Stage(i) # "Completed" => i \in Unfinished
  BY DEF Unfinished, Stage
<1>3. ASSUME Issued' = Issued, KeepsRequests, Stage(id)' = Stage(id),
             e.type # "ReturnResponse"
      PROVE  /\ id \in Issued /\ id \in Unfinished /\ SourceOf(id)' = SourceOf(id)
             /\ Stage(id) \in MissStages /\ e.type # "ReturnResponse"
  BY <1>1, <1>2, <1>3 DEF KeepsRequests, MissStages
<1>4. ASSUME Issued' = Issued, KeepsRequests, NEW stage, Reaches(q, stage), id # q
      PROVE  /\ id \in Issued /\ id \in Unfinished /\ SourceOf(id)' = SourceOf(id)
             /\ Stage(id) \in MissStages /\ q # id
  <2>1. id \in Issued /\ SourceOf(id)' = SourceOf(id) /\ Stage(id)' = Stage(id)
    BY <1>1, <1>4 DEF KeepsRequests, Reaches
  <2> QED BY <1>2, <1>4, <2>1 DEF MissStages
<1>5. CASE /\ e.type \in {"GenerateRequest", "RequestComplete"}
           /\ UNCHANGED <<config, request_table, next_request_id>>
  <2>1. Issued' = Issued /\ KeepsRequests /\ \A i \in Issued : Stage(i)' = Stage(i)
    BY <1>5, TableKept
  <2>2. e.type # "ReturnResponse" /\ Stage(id)' = Stage(id)
    BY <1>1, <1>5, <2>1
  <2> QED BY <1>3, <2>1, <2>2
<1>6. CASE e.type = "GenerateRequest" /\ IssueEffect(e)
  <2>1. PICK new : Issued' = Issued \cup {new} /\ Stage(new)' = "Generated"
    BY <1>6, Zenon DEF IssueEffect
  <2>2. KeepsRequests /\ \A i \in Issued : Stage(i)' = Stage(i)
    BY <1>6 DEF IssueEffect, KeepsStages
  <2>3. id # new
    BY <2>1 DEF MissStages
  <2>4. id \in Issued
    BY <1>1, <2>1, <2>3
  <2>5. SourceOf(id)' = SourceOf(id) /\ Stage(id)' = Stage(id)
    BY <2>2, <2>4 DEF KeepsRequests
  <2> QED BY <1>2, <1>6, <2>4, <2>5 DEF MissStages
<1>7. CASE e.type = "LocalCacheLookup" /\ LookupEffect(e)
  <2>1. PICK stage : Reaches(q, stage)
    BY <1>7 DEF LookupEffect
  <2>2. Issued' = Issued /\ KeepsRequests
    BY <1>7 DEF LookupEffect
  <2>3. CASE id = q
    <3>1. id \in Unfinished /\ id \in Issued
      BY <1>7, <2>3, HeldByAlone DEF PathTypes
    <3> QED BY <1>7, <2>2, <2>3, <3>1 DEF KeepsRequests
  <2>4. CASE id # q
    BY <1>4, <2>1, <2>2, <2>4
  <2> QED BY <2>3, <2>4
<1>8. CASE e.type \in {"LocalCacheHitComplete", "ReturnResponse"} /\ CompleteEffect(e)
  <2>1. Issued' = Issued /\ KeepsRequests /\ Reaches(q, "Completed") /\ q \in Issued
    BY <1>8 DEF CompleteEffect
  <2>2. id # q
    BY <2>1 DEF Reaches, MissStages
  <2> QED BY <1>4, <2>1, <2>2
<1>9. CASE \/ e.type = "ForwardToMemory" /\ ForwardEffect(e)
           \/ e.type = "MemoryServiceComplete" /\ ServiceCompleteEffect(e)
  <2>1. Issued' = Issued /\ KeepsRequests /\ KeepsStages /\ e.type # "ReturnResponse"
    BY <1>9 DEF ForwardEffect, ServiceCompleteEffect
  <2>2. Stage(id)' = Stage(id)
    BY <1>1, <2>1 DEF KeepsStages
  <2> QED BY <1>3, <2>1, <2>2
<1>10. CASE e.type = "MemoryServiceStart" /\ ServiceStartEffect(e)
  <2>1. Issued' = Issued /\ KeepsRequests /\ Reaches(q, "WaitingForResponse")
    BY <1>10 DEF ServiceStartEffect
  <2>2. CASE id = q
    <3>1. id \in Issued /\ id \in Unfinished /\ Stage(id) = "ForwardedToMemory"
      BY <1>10, <2>2, StartFindsHead
    <3> QED BY <1>10, <2>1, <3>1 DEF KeepsRequests, MissStages
  <2>3. CASE id # q
    BY <1>4, <2>1, <2>3
  <2> QED BY <2>2, <2>3
<1> QED BY <1>5, <1>6, <1>7, <1>8, <1>9, <1>10
        DEF HandlerEffect, NothingToIssueEffect, RequestCompleteEffect

\* A step keeps the caches true and the missed objects absent.
LEMMA PlacementStep ==
  ASSUME PlacementInv, OneAtATime, NEW e \in sched.events,
         HandlerEffect(e), CacheEffect(e), \A id \in Issued : ObjectOf(id)' = ObjectOf(id)
  PROVE  MissesAreAbsent' /\ CachesAreTrue'
<1> DEFINE t == e.target_id
           q == e.request_id
<1>1. /\ RequestPathInv /\ OneThingAtATime /\ ~bursty
      /\ local_cache = [n \in Nodes |-> local_cache[n]]
      /\ \A n \in Nodes : PlacementsTrue(local_cache[n])
  BY DEF PlacementInv, BarrierInv, CachesAreTrue, OneAtATime, bursty
<1>2. \A id \in Unfinished : id \in Issued /\ SourceOf(id) \in Nodes
  BY <1>1, Referents DEF Unfinished, RequestPathInv
<1>3. \A id \in Unfinished : Stage(id) \in MissStages =>
        ~contains(local_cache[SourceOf(id)], ObjectOf(id))
  BY DEF PlacementInv, MissesAreAbsent, MissStages, ObjectOf
<1>4. ASSUME NEW id, (id \in Unfinished)', Stage(id)' \in MissStages
      PROVE  /\ id \in Unfinished /\ SourceOf(id)' = SourceOf(id)
             /\ ObjectOf(id)' = ObjectOf(id)
             /\ \/ Stage(id) \in MissStages
                \/ e.type = "LocalCacheLookup" /\ q = id
             /\ e.type = "ReturnResponse" => q # id
  BY <1>1, <1>4, MissesComeFromLookups
<1>5. /\ local_cache' = [n \in Nodes |-> local_cache'[n]]
      /\ \A n \in Nodes : PlacementsTrue(local_cache'[n])
      /\ \A id \in Unfinished : (id \in Unfinished)' /\ Stage(id)' \in MissStages =>
           ~contains(local_cache'[SourceOf(id)], ObjectOf(id))
  <2>1. CASE e.type # "LocalCacheLookup" /\ UNCHANGED local_cache
    BY <1>1, <1>3, <1>4, <2>1
  <2>2. CASE /\ e.type = "LocalCacheLookup"
             /\ local_cache' = [local_cache EXCEPT ![t] = lookup(@, ObjectOf(q), e.time)]
             /\ contains(local_cache[t], ObjectOf(q)) => Stage(q)' = "LocalLookup"
    <3>1. q \in Unfinished /\ t = SourceOf(q) /\ t \in Nodes
      BY <1>1, <1>2, <2>2, HeldByAlone DEF PathTypes, ComputeEventTypes
    <3>2. PICK c, d : c = local_cache[t] /\ d = lookup(c, ObjectOf(q), e.time)
      OBVIOUS
    <3>3. PlacementsTrue(d) /\ DOMAIN d.entries = DOMAIN c.entries
      BY <1>1, <3>1, <3>2, LookupStaysTrue
    <3>4. \A n \in Nodes : local_cache'[n] = IF n = t THEN d ELSE local_cache[n]
      BY <1>1, <2>2, <3>2
    <3>5. local_cache' = [n \in Nodes |-> local_cache'[n]]
      BY <1>1, <2>2
    <3>6. \A n \in Nodes : \A o : contains(local_cache'[n], o) <=> contains(local_cache[n], o)
      BY <3>2, <3>3, <3>4 DEF contains
    <3>7. ASSUME NEW id \in Unfinished, (id \in Unfinished)', Stage(id)' \in MissStages
          PROVE  ~contains(local_cache[SourceOf(id)], ObjectOf(id))
      <4>1. CASE Stage(id) \in MissStages
        BY <1>3, <4>1
      <4>2. CASE id = q
        BY <2>2, <3>1, <3>7, <4>2 DEF MissStages
      <4> QED BY <1>4, <3>7, <4>1, <4>2
    <3> QED BY <1>1, <1>2, <3>3, <3>4, <3>5, <3>6, <3>7
  <2>3. CASE /\ e.type = "ReturnResponse"
             /\ local_cache' = [local_cache EXCEPT ![t] =
                                  admit(@, history[t], request_table[q], e.time)]
    <3>1. /\ q \in Unfinished /\ t = SourceOf(q) /\ t \in Nodes
          /\ e.type \in AwaitedEvents(Stage(q))
      BY <1>1, <1>2, <2>3, HeldByAlone DEF PathTypes, ComputeEventTypes
    <3>2. Stage(q) = "WaitingForResponse"
      BY <1>1, <1>2, <2>3, <3>1, Referents, StageOfEvent DEF RequestPathInv
    <3>3. ~contains(local_cache[t], ObjectOf(q))
      BY <1>3, <3>1, <3>2 DEF MissStages
    <3>4. PICK c, r, d : /\ c = local_cache[t] /\ r = request_table[q]
                         /\ d = admit(c, history[t], r, e.time)
      OBVIOUS
    <3>5. PlacementsTrue(d)
      BY <1>1, <3>1, <3>3, <3>4, AdmitStaysTrue DEF ObjectOf
    <3>6. \A n \in Nodes : local_cache'[n] = IF n = t THEN d ELSE local_cache[n]
      BY <1>1, <2>3, <3>4
    <3>7. local_cache' = [n \in Nodes |-> local_cache'[n]]
      BY <1>1, <2>3
    <3>8. ASSUME NEW id \in Unfinished, (id \in Unfinished)', Stage(id)' \in MissStages
          PROVE  ~contains(local_cache'[SourceOf(id)], ObjectOf(id))
      <4>1. id # q /\ Stage(id) \in MissStages
        BY <1>4, <2>3, <3>8
      <4>2. SourceOf(id) # t
        BY <1>1, <3>1, <4>1 DEF OneThingAtATime, OpenAt
      <4> QED BY <1>2, <1>3, <3>6, <4>1, <4>2
    <3> QED BY <1>1, <3>5, <3>6, <3>7, <3>8
  <2> QED BY <2>1, <2>2, <2>3 DEF CacheEffect, ObjectOf
<1>6. CachesAreTrue'
  BY <1>5 DEF CachesAreTrue
<1>7. MissesAreAbsent'
  BY <1>4, <1>5 DEF MissesAreAbsent, MissStages, ObjectOf
<1> QED BY <1>6, <1>7

-----------------------------------------------------------------------------
(* The rows track the residents *)

\* The caches are empty when run() starts.
LEMMA PlacementInit == Init => PlacementInv
<1> SUFFICES ASSUME Init PROVE PlacementInv
  OBVIOUS
<1>1. local_cache = [n \in Nodes |-> EmptyCache] /\ Unfinished = {}
  BY DEF Init, Unfinished, Issued
<1>2. PlacementsTrue(EmptyCache)
  <2>1. EmptyCache.admission_records = <<>> /\ EmptyCache.entries = <<>>
        /\ EmptyCache.active_placement_by_object = <<>>
    BY DEF EmptyCache
  <2>2. DOMAIN << >> = {}
    OBVIOUS
  <2>3. HasCacheShape(EmptyCache)
    <3>1. << >> = [i \in 1 .. 0 |-> << >>[i]] /\ << >> = [o \in {} |-> << >>[o]]
      OBVIOUS
    <3> QED BY <2>1, <2>2, <3>1 DEF HasCacheShape, EmptyCache
  <2>4. ActiveRowsAreOpen({}, << >>, << >>) /\ ClosedRowsAreExplained(<< >>)
    BY <2>2 DEF ActiveRowsAreOpen, ClosedRowsAreExplained
  <2> QED BY <2>1, <2>2, <2>3, <2>4 DEF PlacementsTrue
<1>3. MissesAreAbsent /\ CachesAreTrue
  BY <1>1, <1>2 DEF MissesAreAbsent, CachesAreTrue
<1> QED BY <1>3, BarrierInit DEF PlacementInv

\* A step that leaves requests and caches alone keeps the invariant.
LEMMA PlacementFrame ==
  ASSUME PlacementInv, UNCHANGED <<config, request_table, next_request_id, local_cache>>
  PROVE  MissesAreAbsent' /\ CachesAreTrue'
<1>1. Unfinished' = Unfinished
  BY TableKept
<1>2. MissesAreAbsent'
  BY <1>1 DEF PlacementInv, MissesAreAbsent, OneAtATime, Stage, SourceOf, contains
<1>3. CachesAreTrue'
  BY DEF PlacementInv, CachesAreTrue, OneAtATime
<1> QED BY <1>2, <1>3

\* Every step keeps the invariant.
LEMMA PlacementNext == PlacementInv /\ [Next]_vars => PlacementInv'
<1> SUFFICES ASSUME PlacementInv, [Next]_vars PROVE PlacementInv'
  OBVIOUS
<1>1. BarrierInv' /\ BarrierInv
  BY BarrierNext DEF PlacementInv
<1>2. CASE Run \/ UNCHANGED vars
  <2>1. UNCHANGED <<config, request_table, next_request_id, local_cache>>
    BY <1>2 DEF Run, vars
  <2> QED BY <1>1, <2>1, PlacementFrame DEF PlacementInv
<1>3. ASSUME NEW e \in sched.events, MemoryStep(e) \/ ComputeStep(e)
      PROVE  PlacementInv'
  <2>1. RequestPathInv /\ SimulatorInv
    BY <1>1 DEF BarrierInv, RequestPathInv
  <2>2. HandlerEffect(e)
    BY <1>3, <2>1, StepHasEffect
  <2>3. config' = config
    BY <2>2 DEF HandlerEffect, NothingToIssueEffect, IssueEffect, LookupEffect, CompleteEffect,
       RequestCompleteEffect, ForwardEffect, ServiceStartEffect, ServiceCompleteEffect
  <2>4. CASE OneAtATime
    <3>1. CacheEffect(e)
      BY <1>3, <2>1, <2>4, StepHasCacheEffect DEF PlacementInv
    <3>2. \A id \in Issued : ObjectOf(id)' = ObjectOf(id)
      BY <1>3, <2>1, RequestsStand
    <3>3. MissesAreAbsent' /\ CachesAreTrue'
      BY <2>2, <2>4, <3>1, <3>2, PlacementStep
    <3> QED BY <1>1, <3>3 DEF PlacementInv
  <2>5. CASE ~OneAtATime
    <3>1. ~OneAtATime'
      BY <2>3, <2>5 DEF OneAtATime
    <3> QED BY <1>1, <3>1 DEF PlacementInv, MissesAreAbsent, CachesAreTrue
  <2> QED BY <2>4, <2>5
<1> QED BY <1>2, <1>3 DEF Next, Finished

\* The open rows are exactly the active ones.
LEMMA ActiveRowsAreTheOpenOnes ==
  ASSUME NEW c, PlacementsTrue(c)
  PROVE  RowsOfResidents(c)
<1>1. PICK residents, active, rows, open :
        /\ residents = DOMAIN c.entries /\ active = c.active_placement_by_object
        /\ rows = c.admission_records
        /\ open = {i \in DOMAIN rows : rows[i].admitted /\ ~rows[i].evicted}
  OBVIOUS
<1>2. ActiveRowsAreOpen(residents, active, rows)
  BY <1>1 DEF PlacementsTrue
<1>3. DOMAIN active = residents /\ \A i \in open : active[rows[i].object_id] = i
  BY <1>1, <1>2 DEF ActiveRowsAreOpen, IsOpen
<1>4. {active[o] : o \in residents} = open
  <2>1. \A o \in residents : active[o] \in open
    BY <1>1, <1>2 DEF ActiveRowsAreOpen, IsOpen
  <2>2. \A i \in open : rows[i].object_id \in residents
    BY <1>1, <1>2 DEF ActiveRowsAreOpen, IsOpen
  <2> QED BY <1>3, <2>1, <2>2
<1> QED BY <1>1, <1>3, <1>4 DEF RowsOfResidents

\* The rows tell what happened, where a node has one request at a time: one open
\* row for each resident, its own, and for each closed row the later admission
\* that pushed its object out, whatever the policy and whichever victims it names.
THEOREM PlacementsAreTold == Spec => []PlacementRowsTrackResidents
<1>1. PlacementInv => PlacementRowsTrackResidents
  <2> SUFFICES ASSUME PlacementInv, OneAtATime, NEW n \in Nodes
               PROVE  /\ RowsOfResidents(local_cache[n])
                      /\ ClosedRowsAreExplained(local_cache[n].admission_records)
    BY DEF PlacementRowsTrackResidents, OneAtATime
  <2>1. PlacementsTrue(local_cache[n])
    BY DEF PlacementInv, CachesAreTrue
  <2> QED BY <2>1, ActiveRowsAreTheOpenOnes DEF PlacementsTrue
<1> QED BY <1>1, PlacementInit, PlacementNext, PTL DEF Spec

-----------------------------------------------------------------------------
(* Bytes of entries *)

\* The size of each entry, and of all.
SizesOf(entries) == [o \in DOMAIN entries |-> entries[o].size_bytes]
BytesOf(entries) == SumOver(SizesOf(entries), DOMAIN entries)

\* Finitely many objects are resident, each with its entry.
EntriesOK(entries) ==
  /\ IsFiniteSet(DOMAIN entries)
  /\ DOMAIN entries \subseteq Nat
  /\ entries \in [DOMAIN entries -> CacheEntry]

\* The sizes of entries are naturals.
LEMMA SizesAreNatural ==
  ASSUME NEW entries, EntriesOK(entries)
  PROVE  \A o \in DOMAIN entries : SizesOf(entries)[o] = entries[o].size_bytes
                                   /\ SizesOf(entries)[o] \in Nat
BY RangeAssumption DEF EntriesOK, SizesOf, CacheEntry, SimTime

\* And so is their sum.
LEMMA BytesAreNatural ==
  ASSUME NEW entries, EntriesOK(entries)
  PROVE  BytesOf(entries) \in Nat
BY SizesAreNatural, SumNatural DEF EntriesOK, BytesOf

\* ResidentBytes is the sum of the sizes.
LEMMA ResidentBytesIs ==
  ASSUME NEW c, IsFiniteSet(DOMAIN c.entries)
  PROVE  ResidentBytes(c) = BytesOf(c.entries)
<1> DEFINE S == DOMAIN c.entries
           w == SizesOf(c.entries)
           Step(f) == [s \in SUBSET S |->
                         IF s = {} THEN 0
                         ELSE c.entries[Pick(s)].size_bytes + f[s \ {Pick(s)}]]
           f == CHOOSE g : g = Step(g)
<1>1. ResidentBytes(c) = f[S]
  BY DEF ResidentBytes, MapThenSumSet, MapThenFoldSet, Pick
<1>2. \A g : Step(g) = SumStep(w, S, g)
  <2>1. \A s \in SUBSET S : s # {} => c.entries[Pick(s)].size_bytes = w[Pick(s)]
    BY DEF Pick, SizesOf
  <2> HIDE DEF w
  <2> QED BY <2>1 DEF SumStep
<1>3. f = SumStep(w, S, f)
  <2>1. PICK g : g = SumStep(w, S, g)
    BY SumExists
  <2>2. g = Step(g)
    <3> HIDE DEF Step
    <3> QED BY <1>2, <2>1
  <2>3. f = Step(f)
    <3> HIDE DEF Step
    <3> QED BY <2>2
  <2> HIDE DEF Step, f
  <2> QED BY <1>2, <2>3
<1> HIDE DEF f, w
<1>4. SumOver(w, S) = f[S]
  BY <1>3, SumIs
<1> QED BY <1>1, <1>4 DEF BytesOf, w

-----------------------------------------------------------------------------
(* Caches within their capacity *)

\* A cache is a record of eight fields.
HasCacheFields(c) ==
  \E entries, occupancy, hits, misses, admitted, evicted, rows, active :
    c = [entries |-> entries, occupancy_bytes |-> occupancy, hit_count |-> hits,
         miss_count |-> misses, bytes_admitted |-> admitted, bytes_evicted |-> evicted,
         admission_records |-> rows, active_placement_by_object |-> active]

\* The counter bounds the resident bytes (in a burst it may exceed them, when two
\* answers for one object are admitted), and the capacity bounds the counter.
CacheFits(c, capacity) ==
  /\ HasCacheFields(c)
  /\ EntriesOK(c.entries)
  /\ c.occupancy_bytes \in Nat
  /\ BytesOf(c.entries) <= c.occupancy_bytes
  /\ c.occupancy_bytes <= capacity

\* A row more changes neither the entries nor the counter.
LEMMA RowKeepsFit ==
  ASSUME NEW c, HasCacheFields(c), NEW row
  PROVE  LET d == [c EXCEPT !.admission_records = Append(@, row)]
             f == RecordPlacement(c, row)
         IN /\ HasCacheFields(d) /\ d.entries = c.entries
            /\ d.occupancy_bytes = c.occupancy_bytes
            /\ HasCacheFields(f) /\ f.entries = c.entries
            /\ f.occupancy_bytes = c.occupancy_bytes
<1>1. PICK entries, occupancy, hits, misses, admitted, evicted, rows, active :
        c = [entries |-> entries, occupancy_bytes |-> occupancy, hit_count |-> hits,
             miss_count |-> misses, bytes_admitted |-> admitted, bytes_evicted |-> evicted,
             admission_records |-> rows, active_placement_by_object |-> active]
  BY DEF HasCacheFields
<1>2. PICK more, after : /\ more = Append(rows, row)
                         /\ after = Assign(active, row.object_id, Len(rows) + 1)
  OBVIOUS
<1>3. PICK d, f : /\ d = [c EXCEPT !.admission_records = Append(@, row)]
                  /\ f = RecordPlacement(c, row)
  OBVIOUS
<1>4. d = [entries |-> entries, occupancy_bytes |-> occupancy, hit_count |-> hits,
           miss_count |-> misses, bytes_admitted |-> admitted, bytes_evicted |-> evicted,
           admission_records |-> more, active_placement_by_object |-> active]
  BY <1>1, <1>2, <1>3
<1>5. f = [entries |-> entries, occupancy_bytes |-> occupancy, hit_count |-> hits,
           miss_count |-> misses, bytes_admitted |-> admitted, bytes_evicted |-> evicted,
           admission_records |-> more, active_placement_by_object |-> after]
  BY <1>1, <1>2, <1>3 DEF RecordPlacement
<1>6. /\ HasCacheFields(d) /\ d.entries = c.entries
      /\ d.occupancy_bytes = c.occupancy_bytes
  BY <1>1, <1>4 DEF HasCacheFields
<1>7. /\ HasCacheFields(f) /\ f.entries = c.entries
      /\ f.occupancy_bytes = c.occupancy_bytes
  BY <1>1, <1>5 DEF HasCacheFields
<1> QED BY <1>3, <1>6, <1>7

\* A lookup touches an entry at most.
LEMMA LookupKeepsFit ==
  ASSUME NEW capacity, NEW c, CacheFits(c, capacity), NEW o, NEW time \in SimTime
  PROVE  LET d == lookup(c, o, time)
         IN /\ CacheFits(d, capacity)
            /\ DOMAIN d.entries = DOMAIN c.entries
            /\ d.occupancy_bytes = c.occupancy_bytes
<1>1. PICK entries, occupancy, hits, misses, admitted, evicted, rows, active :
        c = [entries |-> entries, occupancy_bytes |-> occupancy, hit_count |-> hits,
             miss_count |-> misses, bytes_admitted |-> admitted, bytes_evicted |-> evicted,
             admission_records |-> rows, active_placement_by_object |-> active]
  BY DEF CacheFits, HasCacheFields
<1>2. PICK d : d = lookup(c, o, time)
  OBVIOUS
<1>3. EntriesOK(entries)
  BY <1>1 DEF CacheFits
<1>4. CASE ~contains(c, o)
  <2>1. d = [entries |-> entries, occupancy_bytes |-> occupancy, hit_count |-> hits,
             miss_count |-> misses + 1, bytes_admitted |-> admitted,
             bytes_evicted |-> evicted, admission_records |-> rows,
             active_placement_by_object |-> active]
    BY <1>1, <1>2, <1>4 DEF lookup
  <2>2. HasCacheFields(d)
    BY <2>1 DEF HasCacheFields
  <2>3. d.entries = c.entries /\ d.occupancy_bytes = c.occupancy_bytes
    BY <1>1, <2>1
  <2> QED BY <1>2, <2>2, <2>3 DEF CacheFits
<1>5. CASE contains(c, o)
  <2>1. PICK touched, credited :
          /\ touched = [entries EXCEPT ![o].last_access_time = time]
          /\ credited = [rows EXCEPT ![active[o]].future_hit_count = @ + 1]
    OBVIOUS
  <2>2. PICK b : b = [c EXCEPT !.hit_count = @ + 1, !.entries[o].last_access_time = time]
    OBVIOUS
  <2>3. b = [entries |-> touched, occupancy_bytes |-> occupancy, hit_count |-> hits + 1,
             miss_count |-> misses, bytes_admitted |-> admitted,
             bytes_evicted |-> evicted, admission_records |-> rows,
             active_placement_by_object |-> active]
    BY <1>1, <2>1, <2>2
  <2>4. d = record_hit(b, o)
    BY <1>2, <1>5, <2>2 DEF lookup
  <2>5. PICK told :
          d = [entries |-> touched, occupancy_bytes |-> occupancy, hit_count |-> hits + 1,
               miss_count |-> misses, bytes_admitted |-> admitted,
               bytes_evicted |-> evicted, admission_records |-> told,
               active_placement_by_object |-> active]
    <3>1. CASE o \notin DOMAIN active
      BY <2>3, <2>4, <3>1 DEF record_hit
    <3>2. CASE o \in DOMAIN active
      <4>1. d = [b EXCEPT !.admission_records[active[o]].future_hit_count = @ + 1]
        BY <2>3, <2>4, <3>2 DEF record_hit
      <4> QED BY <2>1, <2>3, <4>1
    <3> QED BY <3>1, <3>2
  <2>6. HasCacheFields(d) /\ d.entries = touched /\ d.occupancy_bytes = c.occupancy_bytes
    BY <1>1, <2>5 DEF HasCacheFields
  <2>7. DOMAIN touched = DOMAIN entries /\ EntriesOK(touched)
    BY <1>3, <2>1 DEF EntriesOK, CacheEntry
  <2>8. \A p \in DOMAIN entries : SizesOf(touched)[p] = SizesOf(entries)[p]
    BY <1>3, <2>1, <2>7 DEF EntriesOK, CacheEntry, SizesOf
  <2>9. BytesOf(touched) = BytesOf(entries)
    BY <1>3, <2>7, <2>8, SumEqual DEF EntriesOK, BytesOf
  <2> QED BY <1>1, <1>2, <2>6, <2>7, <2>9 DEF CacheFits
<1> QED BY <1>4, <1>5

\* The bytes of some of the entries are the sum of their sizes.
LEMMA BytesOfSome ==
  ASSUME NEW entries, EntriesOK(entries), NEW S \in SUBSET DOMAIN entries,
         NEW kept, kept = [o \in S |-> entries[o]]
  PROVE  EntriesOK(kept) /\ BytesOf(kept) = SumOver(SizesOf(entries), S)
<1>1. EntriesOK(kept) /\ DOMAIN kept = S
  <2>1. IsFiniteSet(S)
    BY FS_Subset DEF EntriesOK
  <2> QED BY <2>1 DEF EntriesOK
<1>2. \A o \in S : SizesOf(kept)[o] = SizesOf(entries)[o]
  BY <1>1 DEF SizesOf
<1>3. SumOver(SizesOf(kept), S) = SumOver(SizesOf(entries), S)
  BY <1>1, <1>2, SumEqual DEF EntriesOK
<1> QED BY <1>1, <1>3 DEF BytesOf

\* A new entry adds its bytes at most, for it may replace an older one.
LEMMA BytesOfOneMore ==
  ASSUME NEW entries, EntriesOK(entries), NEW o \in Nat, NEW entry \in CacheEntry,
         NEW now, now = Assign(entries, o, entry)
  PROVE  /\ EntriesOK(now) /\ DOMAIN now = DOMAIN entries \cup {o}
         /\ BytesOf(now) <= BytesOf(entries) + entry.size_bytes
<1>1. DOMAIN now = DOMAIN entries \cup {o}
  BY DEF Assign
<1>2. EntriesOK(now)
  <2>1. IsFiniteSet(DOMAIN entries \cup {o})
    BY FS_AddElement DEF EntriesOK
  <2> QED BY <1>1, <2>1 DEF EntriesOK, Assign
<1> DEFINE rest == DOMAIN entries \ {o}
           v == SizesOf(entries)
           w == SizesOf(now)
<1>3. rest \cup {o} = DOMAIN now /\ o \notin rest /\ rest \in SUBSET DOMAIN entries
  BY <1>1
<1>4. IsFiniteSet(rest) /\ IsFiniteSet(DOMAIN entries)
  BY FS_Subset DEF EntriesOK
<1>5. \A p \in DOMAIN now : w[p] = now[p].size_bytes /\ w[p] \in Nat
  BY <1>2, SizesAreNatural
<1>6. \A p \in DOMAIN entries : v[p] = entries[p].size_bytes /\ v[p] \in Nat
  BY SizesAreNatural
<1>7. now[o] = entry /\ \A p \in rest : now[p] = entries[p]
  BY DEF Assign
<1> HIDE DEF v, w, rest
<1>8. \A p \in rest : w[p] = v[p] /\ w[p] \in Nat
  BY <1>3, <1>5, <1>6, <1>7
<1>9. w[o] = entry.size_bytes /\ w[o] \in Nat
  BY <1>3, <1>5, <1>7
<1>10. SumOver(w, rest \cup {o}) = w[o] + SumOver(w, rest)
  BY <1>3, <1>4, <1>8, <1>9, SumAdd
<1>11. SumOver(w, rest) = SumOver(v, rest)
  BY <1>4, <1>8, SumEqual
<1>12. SumOver(v, rest) <= SumOver(v, DOMAIN entries)
  BY <1>3, <1>4, <1>6, SumNatural
<1>13. SumOver(v, rest) \in Nat /\ SumOver(v, DOMAIN entries) \in Nat
  <2>1. \A p \in rest : v[p] \in Nat
    BY <1>3, <1>6
  <2> QED BY <1>4, <1>6, <2>1, SumNatural
<1>14. BytesOf(now) <= BytesOf(entries) + entry.size_bytes
  BY <1>3, <1>9, <1>10, <1>11, <1>12, <1>13 DEF BytesOf, v, w
<1> QED BY <1>1, <1>2, <1>14

\* The entries that an eviction leaves.
Spared(entries, victims) == [o \in DOMAIN entries \ victims |-> entries[o]]

\* The counter may be set to bytes when the victims are evicted.
CanEvict(capacity, c, victims, bytes) ==
  /\ CacheFits(c, capacity) /\ bytes \in Nat /\ bytes <= capacity
  /\ SumOver(SizesOf(c.entries), DOMAIN c.entries \ victims) <= bytes

\* And then the cache d is left.
Evicted(capacity, c, victims, bytes, d) ==
  /\ CacheFits(d, capacity) /\ d.occupancy_bytes = bytes
  /\ d.entries = Spared(c.entries, victims)

\* What is left after an eviction fits, if the counter accounts for it.
LEMMA EvictFits ==
  ASSUME NEW capacity, NEW c, NEW victims, NEW bytes, NEW time,
         CanEvict(capacity, c, victims, bytes)
  PROVE  Evicted(capacity, c, victims, bytes, EvictAll(c, victims, bytes, time))
<1>1. PICK entries, occupancy, hits, misses, admitted, evicted, rows, active :
        c = [entries |-> entries, occupancy_bytes |-> occupancy, hit_count |-> hits,
             miss_count |-> misses, bytes_admitted |-> admitted, bytes_evicted |-> evicted,
             admission_records |-> rows, active_placement_by_object |-> active]
  BY DEF CanEvict, CacheFits, HasCacheFields
<1>2. PICK closed, kept, marked, stay, more :
        /\ closed = {c.active_placement_by_object[v] :
                        v \in victims \cap DOMAIN c.active_placement_by_object}
        /\ kept = [p \in DOMAIN c.entries \ victims |-> c.entries[p]]
        /\ marked = [i \in DOMAIN c.admission_records |->
                       IF i \in closed
                       THEN [c.admission_records[i] EXCEPT !.evicted = TRUE,
                                                           !.eviction_time = time]
                       ELSE c.admission_records[i]]
        /\ stay = [p \in DOMAIN c.active_placement_by_object \ victims |->
                     c.active_placement_by_object[p]]
        /\ more = MapThenSumSet(LAMBDA v : c.entries[v].size_bytes, victims)
  OBVIOUS
<1>3. PICK d : d = EvictAll(c, victims, bytes, time)
  OBVIOUS
<1>4. d = [c EXCEPT !.entries = kept, !.occupancy_bytes = bytes, !.bytes_evicted = @ + more,
                    !.active_placement_by_object = stay, !.admission_records = marked]
  BY <1>2, <1>3 DEF EvictAll
<1>5. d = [entries |-> kept, occupancy_bytes |-> bytes, hit_count |-> hits,
           miss_count |-> misses, bytes_admitted |-> admitted,
           bytes_evicted |-> evicted + more, admission_records |-> marked,
           active_placement_by_object |-> stay]
  BY <1>1, <1>4
<1>6. HasCacheFields(d) /\ d.entries = kept /\ d.occupancy_bytes = bytes
  BY <1>5 DEF HasCacheFields
<1>7. EntriesOK(entries) /\ c.entries = entries
  BY <1>1 DEF CanEvict, CacheFits
<1>8. kept = [o \in DOMAIN entries \ victims |-> entries[o]]
  BY <1>2, <1>7
<1>9. EntriesOK(kept)
      /\ BytesOf(kept) = SumOver(SizesOf(entries), DOMAIN entries \ victims)
  <2>1. PICK S : S = DOMAIN entries \ victims /\ S \in SUBSET DOMAIN entries
    OBVIOUS
  <2>2. kept = [o \in S |-> entries[o]]
    BY <1>8, <2>1
  <2> QED BY <1>7, <2>1, <2>2, BytesOfSome
<1>10. BytesOf(kept) <= bytes /\ bytes \in Nat /\ bytes <= capacity
  BY <1>7, <1>9 DEF CanEvict
<1>11. CacheFits(d, capacity)
  BY <1>6, <1>9, <1>10 DEF CacheFits
<1>12. kept = Spared(c.entries, victims)
  BY <1>2 DEF Spared
<1> QED BY <1>3, <1>6, <1>11, <1>12 DEF Evicted

\* An insertion fits, if its size does.
LEMMA InsertFits ==
  ASSUME NEW capacity \in Nat, NEW c, CacheFits(c, capacity), NEW o \in Nat,
         NEW size \in SimTime, NEW time \in SimTime, c.occupancy_bytes + size <= capacity
  PROVE  LET d == Insert(c, o, size, time)
         IN /\ CacheFits(d, capacity)
            /\ DOMAIN d.entries = DOMAIN c.entries \cup {o}
            /\ d.occupancy_bytes = c.occupancy_bytes + size
            /\ d.entries[o].size_bytes = size
            /\ \A p \in DOMAIN c.entries : p # o => d.entries[p] = c.entries[p]
<1>1. PICK entries, occupancy, hits, misses, admitted, evicted, rows, active :
        c = [entries |-> entries, occupancy_bytes |-> occupancy, hit_count |-> hits,
             miss_count |-> misses, bytes_admitted |-> admitted, bytes_evicted |-> evicted,
             admission_records |-> rows, active_placement_by_object |-> active]
  BY DEF CacheFits, HasCacheFields
<1>2. PICK entry : entry = [size_bytes |-> size, last_access_time |-> time]
  OBVIOUS
<1>3. entry \in CacheEntry /\ entry.size_bytes = size
  BY <1>2 DEF CacheEntry
<1>4. PICK now : now = Assign(entries, o, entry)
  OBVIOUS
<1>5. PICK d : d = Insert(c, o, size, time)
  OBVIOUS
<1>6. d = [c EXCEPT !.occupancy_bytes = @ + size, !.bytes_admitted = @ + size,
                    !.entries = now]
  BY <1>1, <1>2, <1>4, <1>5 DEF Insert
<1>7. d = [entries |-> now, occupancy_bytes |-> occupancy + size, hit_count |-> hits,
           miss_count |-> misses, bytes_admitted |-> admitted + size,
           bytes_evicted |-> evicted, admission_records |-> rows,
           active_placement_by_object |-> active]
  BY <1>1, <1>6
<1>8. HasCacheFields(d) /\ d.entries = now /\ d.occupancy_bytes = occupancy + size
  BY <1>7 DEF HasCacheFields
<1>9. /\ EntriesOK(entries) /\ c.entries = entries /\ c.occupancy_bytes = occupancy
      /\ occupancy \in Nat /\ BytesOf(entries) <= occupancy
  BY <1>1 DEF CacheFits
<1>10. /\ EntriesOK(now) /\ DOMAIN now = DOMAIN entries \cup {o}
       /\ BytesOf(now) <= BytesOf(entries) + entry.size_bytes
  BY <1>3, <1>4, <1>9, BytesOfOneMore
<1>11. BytesOf(now) \in Nat /\ BytesOf(entries) \in Nat
  BY <1>9, <1>10, BytesAreNatural
<1>12. size \in Nat
  BY RangeAssumption DEF SimTime
<1>13. CacheFits(d, capacity)
  BY <1>3, <1>8, <1>9, <1>10, <1>11, <1>12 DEF CacheFits
<1>14. now[o].size_bytes = size /\ \A p \in DOMAIN entries : p # o => now[p] = entries[p]
  BY <1>3, <1>4 DEF Assign
<1> QED BY <1>5, <1>8, <1>9, <1>10, <1>13, <1>14

-----------------------------------------------------------------------------
(* Plans of victims *)

\* What a plan has come to: the candidates left hold at most the projected bytes,
\* and each victim was outweighed, and worth no more than any candidate left.
PlanIn(entries, worths, incoming) ==
  {p \in [candidates : SUBSET DOMAIN entries, projected : Nat] :
     /\ SumOver(SizesOf(entries), p.candidates) <= p.projected
     /\ \A v \in DOMAIN entries \ p.candidates :
          /\ Outweighs(incoming, worths[v])
          /\ \A o \in p.candidates : worths[v] <= worths[o]}

WorthsOK(entries, worths) == \A o \in DOMAIN entries : worths[o] \in Int

\* The coldest candidate exists, since the order is a lexicographic one.
LEMMA ColdestIsCandidate ==
  ASSUME NEW entries, EntriesOK(entries), NEW worths, WorthsOK(entries, worths),
         NEW candidates \in SUBSET DOMAIN entries, candidates # {}
  PROVE  LET a == ColdestOf(worths, entries, candidates)
         IN a \in candidates /\ \A b \in candidates : worths[a] <= worths[b]
<1> DEFINE last == [o \in candidates |-> entries[o].last_access_time]
<1>1. IsFiniteSet(candidates)
  BY FS_Subset DEF EntriesOK
<1>2. \A o \in candidates : /\ o \in Int /\ worths[o] \in Int
                            /\ last[o] = entries[o].last_access_time /\ last[o] \in Int
  BY RangeAssumption DEF EntriesOK, WorthsOK, CacheEntry, SimTime
<1> HIDE DEF last
<1>3. PICK x \in candidates : \A y \in candidates :
        worths[x] < worths[y] \/ (worths[x] = worths[y] /\ last[x] <= last[y])
  BY <1>1, <1>2, LexicographicLeast
<1> DEFINE tied == {y \in candidates : worths[y] = worths[x] /\ last[y] = last[x]}
           id == [y \in tied |-> y]
<1>4. IsFiniteSet(tied) /\ tied # {} /\ \A y \in tied : id[y] \in Int /\ id[y] = y
  BY <1>1, <1>2, FS_Subset
<1>5. PICK a \in tied : \A y \in tied : a <= y
  <2> HIDE DEF tied, id
  <2>1. \E a \in tied : \A y \in tied : id[a] <= id[y]
    BY <1>4, FiniteLeast
  <2> QED BY <1>4, <2>1
<1>6. \A y \in candidates \ {a} : Colder(worths, entries, a, y)
  <2> SUFFICES ASSUME NEW y \in candidates \ {a} PROVE Colder(worths, entries, a, y)
    OBVIOUS
  <2>1. worths[x] < worths[y] \/ (worths[x] = worths[y] /\ last[x] <= last[y])
    BY <1>3
  <2>2. y \in tied => a < y
    BY <1>2, <1>5
  <2> QED BY <1>2, <1>5, <2>1, <2>2 DEF Colder, Older
<1> DEFINE coldest == ColdestOf(worths, entries, candidates)
<1>7. coldest \in candidates /\ \A y \in candidates \ {coldest}
        : Colder(worths, entries, coldest, y)
  BY <1>5, <1>6 DEF ColdestOf
<1> HIDE DEF coldest
<1>8. \A b \in candidates : worths[coldest] <= worths[b]
  BY <1>2, <1>7 DEF Colder
<1> QED BY <1>7, <1>8 DEF coldest

\* One round of the while loop of admit.
PlanRound(entries, worths, incoming, size, p) ==
  LET victim == select_victim(worths, entries, p.candidates, incoming)
  IN IF \/ p.projected + size <= config.capacity_bytes
        \/ victim = NoVictim
     THEN p
     ELSE [candidates |-> p.candidates \ {victim},
           projected |-> p.projected - entries[victim].size_bytes]

\* A round leaves a plan a plan.
LEMMA RoundKeepsPlan ==
  ASSUME NEW entries, EntriesOK(entries), NEW worths, WorthsOK(entries, worths),
         NEW incoming, NEW size, NEW p \in PlanIn(entries, worths, incoming)
  PROVE  PlanRound(entries, worths, incoming, size, p) \in PlanIn(entries, worths, incoming)
<1>1. PICK victim : victim = select_victim(worths, entries, p.candidates, incoming)
  OBVIOUS
<1>2. CASE p.projected + size <= config.capacity_bytes \/ victim = NoVictim
  BY <1>1, <1>2 DEF PlanRound
<1>3. CASE ~(p.projected + size <= config.capacity_bytes) /\ victim # NoVictim
  <2>1. /\ victim = ColdestOf(worths, entries, p.candidates)
        /\ Outweighs(incoming, worths[victim]) /\ p.candidates # {}
    BY <1>1, <1>3 DEF select_victim
  <2>2. PICK candidates, projected :
          candidates = p.candidates /\ projected = p.projected
    OBVIOUS
  <2>3. /\ candidates \in SUBSET DOMAIN entries /\ projected \in Nat
        /\ SumOver(SizesOf(entries), candidates) <= projected
        /\ \A v \in DOMAIN entries \ candidates :
             /\ Outweighs(incoming, worths[v])
             /\ \A o \in candidates : worths[v] <= worths[o]
    BY <2>2 DEF PlanIn
  <2>4. victim \in candidates /\ \A b \in candidates : worths[victim] <= worths[b]
    BY <2>1, <2>2, <2>3, ColdestIsCandidate
  <2>5. PICK rest, size_bytes : /\ rest = candidates \ {victim}
                                /\ size_bytes = entries[victim].size_bytes
    OBVIOUS
  <2>6. IsFiniteSet(candidates) /\ IsFiniteSet(rest)
    BY <2>3, <2>5, FS_Subset DEF EntriesOK
  <2>7. \A o \in candidates : SizesOf(entries)[o] = entries[o].size_bytes
                              /\ SizesOf(entries)[o] \in Nat
    BY <2>3, SizesAreNatural
  <2>8. PICK w : w = SizesOf(entries)
    OBVIOUS
  <2>9. SumOver(w, candidates) = w[victim] + SumOver(w, candidates \ {victim})
    <3>1. \A o \in candidates : w[o] \in Int
      BY <2>7, <2>8
    <3> QED BY <2>4, <2>6, <3>1, SumRemove
  <2>10. SumOver(w, rest) \in Nat
    <3>1. \A o \in rest : w[o] \in Nat
      BY <2>5, <2>7, <2>8
    <3> QED BY <2>6, <3>1, SumNatural
  <2>11. w[victim] = size_bytes /\ size_bytes \in Nat
    BY <2>4, <2>5, <2>7, <2>8
  <2>12. projected - size_bytes \in Nat /\ SumOver(w, rest) <= projected - size_bytes
    BY <2>3, <2>5, <2>8, <2>9, <2>10, <2>11
  <2>13. \A v \in DOMAIN entries \ rest :
           /\ Outweighs(incoming, worths[v])
           /\ \A o \in rest : worths[v] <= worths[o]
    BY <2>1, <2>3, <2>4, <2>5
  <2>14. PICK q : q = [candidates |-> rest, projected |-> projected - size_bytes]
    OBVIOUS
  <2>15. q \in PlanIn(entries, worths, incoming)
    BY <2>3, <2>5, <2>8, <2>12, <2>13, <2>14 DEF PlanIn
  <2>16. PlanRound(entries, worths, incoming, size, p) = q
    BY <1>1, <1>3, <2>2, <2>5, <2>14 DEF PlanRound
  <2> QED BY <2>15, <2>16
<1> QED BY <1>2, <1>3

\* PlanVictims goes through such rounds.
LEMMA PlanIsSound ==
  ASSUME NEW c, EntriesOK(c.entries), c.occupancy_bytes \in Nat,
         BytesOf(c.entries) <= c.occupancy_bytes,
         NEW worths, WorthsOK(c.entries, worths), NEW incoming, NEW size
  PROVE  PlanVictims(c, worths, incoming, size) \in PlanIn(c.entries, worths, incoming)
<1> DEFINE entries == c.entries
           n == Cardinality(DOMAIN entries)
           D == PlanIn(entries, worths, incoming)
           start == [candidates |-> DOMAIN entries, projected |-> c.occupancy_bytes]
           step == [p \in D |-> PlanRound(entries, worths, incoming, size, p)]
           Loop(f) == [k \in 0 .. n |->
                         IF k = 0 THEN start
                         ELSE PlanRound(entries, worths, incoming, size, f[k - 1])]
           plan == CHOOSE f : f = Loop(f)
<1>1. PlanVictims(c, worths, incoming, size) = plan[n]
  BY DEF PlanVictims, PlanRound
<1>2. n \in Nat
  BY FS_CardinalityType DEF EntriesOK
<1>3. start \in D
  BY DEF PlanIn, BytesOf
<1>4. \A p \in D : /\ step[p] = PlanRound(entries, worths, incoming, size, p)
                   /\ step[p] \in D
  <2> HIDE DEF D, entries
  <2> QED BY RoundKeepsPlan DEF D, entries
<1>5. step \in [D -> D]
  <2> HIDE DEF D
  <2> QED BY <1>4
<1> HIDE DEF n, D, start, step
<1>6. PICK f : f \in [0 .. n -> D] /\ f = LoopStep(n, start, step, f)
  BY <1>2, <1>3, <1>5, LoopExists
<1>7. f = Loop(f)
  <2>1. \A k \in 0 .. n : k # 0 =>
          step[f[k - 1]] = PlanRound(entries, worths, incoming, size, f[k - 1])
    <3> SUFFICES ASSUME NEW k \in 0 .. n, k # 0
                 PROVE  step[f[k - 1]] = PlanRound(entries, worths, incoming, size, f[k - 1])
      OBVIOUS
    <3>1. k - 1 \in 0 .. n
      BY <1>2
    <3>2. f[k - 1] \in D
      BY <1>6, <3>1
    <3> QED BY <1>4, <3>2
  <2> QED BY <1>6, <2>1 DEF LoopStep
<1>8. plan = Loop(plan)
  <2> HIDE DEF Loop
  <2> QED BY <1>7
<1> HIDE DEF plan
<1>9. plan[0] \in D
  BY <1>2, <1>3, <1>8
<1>10. \A k \in 1 .. n : plan[k - 1] \in D => plan[k] \in D
  <2> SUFFICES ASSUME NEW k \in 1 .. n, plan[k - 1] \in D PROVE plan[k] \in D
    OBVIOUS
  <2>1. plan[k] = PlanRound(entries, worths, incoming, size, plan[k - 1])
    BY <1>2, <1>8
  <2> QED BY <1>4, <2>1
<1>11. plan[n] \in D
  <2> HIDE DEF step, Loop
  <2>1. \A k \in 0 .. n : plan[k] \in D
    BY <1>2, <1>9, <1>10, LoopStays
  <2> QED BY <1>2, <2>1
<1> QED BY <1>1, <1>11 DEF D

\* An admission leaves the residents as they are, or replaces the victims of a
\* plan by the newcomer.
Replaced(before, after, worths, incoming, r) ==
  \/ after = before
  \/ \E p \in PlanIn(before, worths, incoming) :
       /\ DOMAIN after = p.candidates \cup {r.object_id}
       /\ after[r.object_id].size_bytes = r.size_bytes
       /\ \A o \in p.candidates : o # r.object_id => after[o] = before[o]

\* admit, for a policy whose worths can be compared.
LEMMA AdmitFits ==
  ASSUME NEW c, config.capacity_bytes \in Nat, CacheFits(c, config.capacity_bytes),
         NEW h, WorthsOK(c.entries, Worths(h, c.entries)), NEW r \in Request,
         NEW time \in SimTime
  PROVE  LET d == admit(c, h, r, time)
         IN /\ CacheFits(d, config.capacity_bytes)
            /\ Replaced(c.entries, d.entries, Worths(h, c.entries),
                        Worth(h, r.object_id, r.size_bytes), r)
<1>1. PICK capacity \in Nat : capacity = config.capacity_bytes
  OBVIOUS
<1>2. PICK decision, worths, incoming, plan, d :
        /\ decision = admission_decision(h, r)
        /\ worths = Worths(h, c.entries)
        /\ incoming = Worth(h, r.object_id, r.size_bytes)
        /\ plan = PlanVictims(c, worths, incoming, r.size_bytes)
        /\ d = admit(c, h, r, time)
  OBVIOUS
<1>3. d = Decide(c, r, time, decision, plan)
  BY <1>2 DEF admit
<1>4. /\ EntriesOK(c.entries) /\ c.occupancy_bytes \in Nat /\ HasCacheFields(c)
      /\ BytesOf(c.entries) <= c.occupancy_bytes /\ CacheFits(c, capacity)
  BY <1>1 DEF CacheFits
<1>5. plan \in PlanIn(c.entries, worths, incoming)
  BY <1>2, <1>4, PlanIsSound
<1>6. r.object_id \in Nat /\ r.size_bytes \in SimTime /\ r.size_bytes \in Nat
  BY RangeAssumption DEF Request, SimTime
<1>7. PICK victims, bytes :
        /\ victims = DOMAIN c.entries \ plan.candidates /\ bytes = plan.projected
  OBVIOUS
<1>8. /\ bytes \in Nat /\ plan.candidates \in SUBSET DOMAIN c.entries
      /\ SumOver(SizesOf(c.entries), plan.candidates) <= bytes
  BY <1>5, <1>7 DEF PlanIn
<1>9. plan.candidates = DOMAIN c.entries \ victims
  BY <1>7, <1>8
<1>10. ASSUME NEW row, d = [c EXCEPT !.admission_records = Append(@, row)]
       PROVE  CacheFits(d, capacity) /\ d.entries = c.entries
  <2>1. HasCacheFields(d) /\ d.entries = c.entries /\ d.occupancy_bytes = c.occupancy_bytes
    BY <1>4, <1>10, RowKeepsFit
  <2> QED BY <1>4, <2>1 DEF CacheFits
<1>11. ASSUME NEW row, bytes + r.size_bytes <= capacity,
              d = RecordPlacement(Insert(EvictAll(c, victims, bytes, time),
                                         r.object_id, r.size_bytes, time), row)
       PROVE  /\ CacheFits(d, capacity)
              /\ DOMAIN d.entries = plan.candidates \cup {r.object_id}
              /\ d.entries[r.object_id].size_bytes = r.size_bytes
              /\ \A o \in plan.candidates : o # r.object_id => d.entries[o] = c.entries[o]
  <2>1. PICK b, f : /\ b = EvictAll(c, victims, bytes, time)
                    /\ f = Insert(b, r.object_id, r.size_bytes, time)
    OBVIOUS
  <2>2. /\ CacheFits(b, capacity) /\ b.occupancy_bytes = bytes
        /\ b.entries = Spared(c.entries, victims)
    <3>1. bytes \in Nat /\ bytes <= capacity /\ CacheFits(c, capacity)
      BY <1>1, <1>4, <1>6, <1>8, <1>11
    <3>2. CanEvict(capacity, c, victims, bytes)
      BY <1>8, <1>9, <3>1 DEF CanEvict
    <3>3. Evicted(capacity, c, victims, bytes, b)
      BY <2>1, <3>2, EvictFits
    <3> QED BY <3>3 DEF Evicted
  <2>3. /\ CacheFits(f, capacity)
        /\ DOMAIN f.entries = DOMAIN b.entries \cup {r.object_id}
        /\ f.entries[r.object_id].size_bytes = r.size_bytes
        /\ \A p \in DOMAIN b.entries : p # r.object_id => f.entries[p] = b.entries[p]
    BY <1>1, <1>6, <1>11, <2>1, <2>2, InsertFits
  <2>4. d = RecordPlacement(f, row)
    BY <1>11, <2>1
  <2>5. HasCacheFields(d) /\ d.entries = f.entries /\ d.occupancy_bytes = f.occupancy_bytes
    BY <2>3, <2>4, RowKeepsFit DEF CacheFits
  <2>6. CacheFits(d, capacity)
    BY <2>3, <2>5 DEF CacheFits
  <2>7. DOMAIN b.entries = plan.candidates /\ \A o \in plan.candidates : b.entries[o] = c.entries[o]
    BY <1>9, <2>2 DEF Spared
  <2> QED BY <2>3, <2>5, <2>6, <2>7
<1>12. \/ \E row : d = [c EXCEPT !.admission_records = Append(@, row)]
       \/ /\ bytes + r.size_bytes <= capacity
          /\ \E row : d = RecordPlacement(Insert(EvictAll(c, victims, bytes, time),
                                                 r.object_id, r.size_bytes, time), row)
  <2>1. CASE decision # "admitted"
    BY <1>3, <2>1 DEF Decide
  <2>2. CASE decision = "admitted" /\ r.size_bytes > config.capacity_bytes
    BY <1>3, <2>2 DEF Decide
  <2>3. CASE /\ decision = "admitted" /\ ~(r.size_bytes > config.capacity_bytes)
             /\ plan.projected + r.size_bytes > config.capacity_bytes
    BY <1>3, <2>3 DEF Decide
  <2>4. CASE /\ decision = "admitted" /\ ~(r.size_bytes > config.capacity_bytes)
             /\ ~(plan.projected + r.size_bytes > config.capacity_bytes)
    <3>1. d = RecordPlacement(
                Insert(EvictAll(c, DOMAIN c.entries \ plan.candidates, plan.projected, time),
                       r.object_id, r.size_bytes, time),
                NewRecord(r.epoch_id, r.request_id, r.object_id, time, r.size_bytes,
                          TRUE, "admitted", DOMAIN c.entries \ plan.candidates))
      BY <1>3, <2>4 DEF Decide
    <3>2. bytes + r.size_bytes <= capacity
      BY <1>1, <1>6, <1>7, <1>8, <2>4
    <3> QED BY <1>7, <3>1, <3>2
  <2> QED BY <2>1, <2>2, <2>3, <2>4
<1>13. CASE \E row : d = [c EXCEPT !.admission_records = Append(@, row)]
  BY <1>1, <1>2, <1>10, <1>13 DEF Replaced
<1>14. CASE /\ bytes + r.size_bytes <= capacity
            /\ \E row : d = RecordPlacement(Insert(EvictAll(c, victims, bytes, time),
                                                   r.object_id, r.size_bytes, time), row)
  <2>1. PICK row : d = RecordPlacement(Insert(EvictAll(c, victims, bytes, time),
                                              r.object_id, r.size_bytes, time), row)
    BY <1>14
  <2>2. /\ CacheFits(d, capacity)
        /\ DOMAIN d.entries = plan.candidates \cup {r.object_id}
        /\ d.entries[r.object_id].size_bytes = r.size_bytes
        /\ \A o \in plan.candidates : o # r.object_id => d.entries[o] = c.entries[o]
    BY <1>11, <1>14, <2>1
  <2>3. Replaced(c.entries, d.entries, worths, incoming, r)
    BY <1>5, <2>2 DEF Replaced
  <2> QED BY <1>1, <1>2, <2>2, <2>3
<1> QED BY <1>12, <1>13, <1>14

-----------------------------------------------------------------------------
(* The oracle's plan of replicas *)

\* The places in the streams, and the request at a place.
StreamPlaces == UNION {{n} \X DOMAIN config.compute_nodes[n] : n \in Nodes}
SpecAt(d) == config.compute_nodes[d[1]][d[2]]

\* There are finitely many of them, each with a request.
LEMMA PlacesAreFinite ==
  ASSUME AcceptedConfig(config)
  PROVE  IsFiniteSet(StreamPlaces) /\ \A d \in StreamPlaces : SpecAt(d) \in RequestSpec
<1>1. config.compute_nodes \in [Nodes -> Seq(RequestSpec)]
  BY DEF AcceptedConfig, SimulationConfig
<1>2. PICK streams : streams = config.compute_nodes /\ streams \in [Nodes -> Seq(RequestSpec)]
  BY <1>1
<1> DEFINE places == [n \in Nodes |-> {n} \X DOMAIN streams[n]]
           S == {places[n] : n \in Nodes}
<1>3. IsFiniteSet(Nodes)
  BY CountAssumption, FS_Interval DEF Nodes
<1>4. IsFiniteSet(S)
  <2> HIDE DEF places
  <2> QED BY <1>3, FiniteImage
<1>5. \A n \in Nodes : IsFiniteSet(places[n])
  <2> SUFFICES ASSUME NEW n \in Nodes PROVE IsFiniteSet(places[n])
    OBVIOUS
  <2>1. PICK len \in Nat : DOMAIN streams[n] = 1 .. len
    BY <1>2
  <2>2. IsFiniteSet({n})
    BY FS_Singleton
  <2>3. IsFiniteSet(1 .. len)
    BY FS_Interval
  <2>4. IsFiniteSet({n} \X (1 .. len))
    BY <2>2, <2>3, FS_Product
  <2> QED BY <2>1, <2>4
<1>6. \A T \in S : IsFiniteSet(T)
  BY <1>5
<1>7. StreamPlaces = UNION S
  <2>1. S = {{n} \X DOMAIN streams[n] : n \in Nodes}
    OBVIOUS
  <2> QED BY <1>2, <2>1 DEF StreamPlaces
<1>8. IsFiniteSet(StreamPlaces)
  <2> HIDE DEF S
  <2> QED BY <1>4, <1>6, <1>7, FS_UNION
<1>9. \A d \in StreamPlaces : SpecAt(d) \in RequestSpec
  <2> SUFFICES ASSUME NEW d \in StreamPlaces PROVE SpecAt(d) \in RequestSpec
    OBVIOUS
  <2>1. PICK n \in Nodes : d \in {n} \X DOMAIN config.compute_nodes[n]
    BY DEF StreamPlaces
  <2>2. d[1] = n /\ d[2] \in DOMAIN streams[n] /\ streams[n] \in Seq(RequestSpec)
    BY <1>2, <2>1
  <2>3. streams[d[1]][d[2]] \in RequestSpec
    BY <2>2
  <2> QED BY <1>2, <2>3 DEF SpecAt
<1> QED BY <1>8, <1>9

\* The demand for an object, over all places.
DemandPlaces(epoch, o) ==
  {d \in StreamPlaces : SpecAt(d).epoch_id = epoch /\ SpecAt(d).object_id = o}

\* What the plan says of the objects of an epoch.
LEMMA PlanFacts ==
  ASSUME AcceptedConfig(config), NEW epoch
  PROVE  /\ IsFiniteSet(PlannedObjects(epoch)) /\ PlannedObjects(epoch) \subseteq Nat
         /\ \A o \in PlannedObjects(epoch) : /\ ReplicaSize(epoch, o) \in SimTime
                                             /\ Cardinality(Demand(epoch, o)) \in Nat
<1>1. IsFiniteSet(StreamPlaces) /\ \A d \in StreamPlaces : SpecAt(d) \in RequestSpec
  BY PlacesAreFinite
<1>2. \A o : Demand(epoch, o) = DemandPlaces(epoch, o)
  BY DEF Demand, DemandPlaces, StreamPlaces, SpecAt
<1>3. \A o : Demand(epoch, o) \subseteq StreamPlaces /\ IsFiniteSet(Demand(epoch, o))
  BY <1>1, <1>2, FS_Subset DEF DemandPlaces
<1>4. \A o \in PlannedObjects(epoch) : o \in Nat /\ Demand(epoch, o) # {}
  <2> SUFFICES ASSUME NEW o \in PlannedObjects(epoch)
               PROVE  \E d \in StreamPlaces : SpecAt(d).epoch_id = epoch
                                              /\ SpecAt(d).object_id = o
    BY <1>1, <1>2 DEF DemandPlaces, RequestSpec
  <2>1. PICK s : /\ s.object_id = o /\ s.epoch_id = epoch
                 /\ s \in UNION {{config.compute_nodes[n][i] :
                                    i \in DOMAIN config.compute_nodes[n]} : n \in Nodes}
    BY DEF PlannedObjects
  <2>2. PICK n \in Nodes : \E i \in DOMAIN config.compute_nodes[n] :
          s = config.compute_nodes[n][i]
    BY <2>1
  <2>3. PICK i \in DOMAIN config.compute_nodes[n] : s = config.compute_nodes[n][i]
    BY <2>2
  <2>4. <<n, i>> \in StreamPlaces /\ SpecAt(<<n, i>>) = s
    BY <2>3 DEF StreamPlaces, SpecAt
  <2> QED BY <2>1, <2>4
<1>5. IsFiniteSet(PlannedObjects(epoch))
  <2> DEFINE g == [d \in StreamPlaces |-> SpecAt(d).object_id]
             image == {g[d] : d \in StreamPlaces}
  <2>1. IsFiniteSet(image)
    <3> HIDE DEF g
    <3> QED BY <1>1, FiniteImage
  <2>2. PlannedObjects(epoch) \subseteq image
    <3> SUFFICES ASSUME NEW o \in PlannedObjects(epoch) PROVE o \in image
      OBVIOUS
    <3>1. PICK d \in StreamPlaces : SpecAt(d).object_id = o
      BY <1>2, <1>4 DEF DemandPlaces
    <3>2. g[d] = o
      BY <3>1
    <3> QED BY <3>2
  <2> HIDE DEF image
  <2> QED BY <2>1, <2>2, FS_Subset
<1>6. ASSUME NEW o \in PlannedObjects(epoch) PROVE ReplicaSize(epoch, o) \in SimTime
  <2> DEFINE size == [d \in Demand(epoch, o) |-> SpecAt(d).size_bytes]
             sizes == {size[d] : d \in Demand(epoch, o)}
  <2>1. IsFiniteSet(sizes)
    <3> HIDE DEF size
    <3> QED BY <1>3, FiniteImage
  <2>2. \A d \in Demand(epoch, o) : size[d] \in SimTime
    BY <1>1, <1>3 DEF RequestSpec
  <2>3. sizes # {} /\ sizes \subseteq SimTime
    BY <1>4, <2>2
  <2>4. sizes \subseteq Int
    BY <2>3 DEF SimTime
  <2>5. ReplicaSize(epoch, o) = Max(sizes)
    <3>1. sizes = {SpecAt(d).size_bytes : d \in Demand(epoch, o)}
      OBVIOUS
    <3> HIDE DEF sizes
    <3> QED BY <3>1 DEF ReplicaSize, SpecAt
  <2> HIDE DEF sizes
  <2>6. Max(sizes) \in sizes
    BY <2>1, <2>3, <2>4, MaxOfFinite
  <2> QED BY <2>3, <2>5, <2>6
<1>7. \A o : Cardinality(Demand(epoch, o)) \in Nat
  BY <1>3, FS_CardinalityType
<1> QED BY <1>4, <1>5, <1>6, <1>7

\* The plan is a linear order, so that there is a next replica.
LEMMA NextIsHottest ==
  ASSUME AcceptedConfig(config), NEW epoch, NEW left \in SUBSET PlannedObjects(epoch),
         left # {}
  PROVE  LET a == NextReplica(epoch, left)
         IN a \in left /\ \A b \in left \ {a} : PlannedBefore(epoch, a, b)
<1> DEFINE cold == [o \in left |-> -Cardinality(Demand(epoch, o))]
           id == [o \in left |-> o]
<1>1. IsFiniteSet(left)
  BY PlanFacts, FS_Subset
<1>2. \A o \in left : /\ Cardinality(Demand(epoch, o)) \in Nat /\ o \in Nat
                      /\ cold[o] = -Cardinality(Demand(epoch, o)) /\ cold[o] \in Int
                      /\ id[o] = o /\ id[o] \in Int
  <2>1. \A o \in left : Cardinality(Demand(epoch, o)) \in Nat /\ o \in Nat
    BY PlanFacts
  <2> QED BY <2>1
<1> HIDE DEF cold, id
<1>3. PICK x \in left : \A y \in left : cold[x] < cold[y] \/ (cold[x] = cold[y] /\ id[x] <= id[y])
  BY <1>1, <1>2, LexicographicLeast
<1>4. \A y \in left \ {x} : PlannedBefore(epoch, x, y)
  BY <1>2, <1>3 DEF PlannedBefore
<1> QED BY <1>4 DEF NextReplica

\* The objects of the plan that are not too large for the cache.
Fitting(epoch) ==
  {o \in PlannedObjects(epoch) : ReplicaSize(epoch, o) <= config.capacity_bytes}

\* The next replica is one too many.
IsFull(epoch, left, cache) ==
  /\ left # {}
  /\ cache.occupancy_bytes + ReplicaSize(epoch, NextReplica(epoch, left))
       > config.capacity_bytes

\* The cache holds what the plan names before what is left.
FilledInOrder(epoch, left, cache) ==
  /\ left \in SUBSET Fitting(epoch)
  /\ CacheFits(cache, config.capacity_bytes)
  /\ DOMAIN cache.entries = Fitting(epoch) \ left
  /\ \A a \in left, o \in Fitting(epoch) \ left : PlannedBefore(epoch, o, a)

\* One round of the loop of install_replicas.
FillRound(epoch, time, p) ==
  LET o == NextReplica(epoch, p.left)
  IN IF \/ p.left = {}
        \/ p.cache.occupancy_bytes + ReplicaSize(epoch, o) > config.capacity_bytes
     THEN p
     ELSE [left |-> p.left \ {o}, cache |-> InstallReplica(p.cache, epoch, o, time)]

\* After k rounds: the cache is full, or holds k replicas.
FillOK(epoch, p, k) ==
  /\ FilledInOrder(epoch, p.left, p.cache)
  /\ \/ IsFull(epoch, p.left, p.cache)
     \/ Cardinality(p.left) + k = Cardinality(Fitting(epoch))

\* A replica that fits is installed as its plan says.
LEMMA InstallFits ==
  ASSUME AcceptedConfig(config), NEW epoch, NEW o \in PlannedObjects(epoch),
         NEW time \in SimTime, NEW c, CacheFits(c, config.capacity_bytes),
         c.occupancy_bytes + ReplicaSize(epoch, o) <= config.capacity_bytes
  PROVE  LET d == InstallReplica(c, epoch, o, time)
         IN /\ CacheFits(d, config.capacity_bytes)
            /\ DOMAIN d.entries = DOMAIN c.entries \cup {o}
<1>1. PICK capacity \in Nat, size \in SimTime :
        capacity = config.capacity_bytes /\ size = ReplicaSize(epoch, o)
  BY PlanFacts, RangeAssumption DEF AcceptedConfig, SimulationConfig, SimTime
<1>2. o \in Nat
  BY PlanFacts
<1>3. PICK b, row, d : /\ b = Insert(c, o, size, time)
                       /\ d = RecordPlacement(b, row)
                       /\ d = InstallReplica(c, epoch, o, time)
  BY <1>1 DEF InstallReplica
<1>4. CacheFits(b, capacity) /\ DOMAIN b.entries = DOMAIN c.entries \cup {o}
  BY <1>1, <1>2, <1>3, InsertFits
<1>5. HasCacheFields(d) /\ d.entries = b.entries /\ d.occupancy_bytes = b.occupancy_bytes
  <2>1. HasCacheFields(b) /\ d = RecordPlacement(b, row)
    BY <1>3, <1>4 DEF CacheFits
  <2> QED BY <2>1, RowKeepsFit
<1>6. CacheFits(d, capacity)
  BY <1>4, <1>5 DEF CacheFits
<1> QED BY <1>1, <1>3, <1>4, <1>5, <1>6

\* A round keeps the plan's order.
LEMMA FillRoundKeeps ==
  ASSUME AcceptedConfig(config), NEW epoch, NEW time \in SimTime,
         NEW k \in Nat, NEW p, FillOK(epoch, p, k), k < Cardinality(Fitting(epoch))
  PROVE  FillOK(epoch, FillRound(epoch, time, p), k + 1)
<1>1. PICK left, cache, o, q : /\ left = p.left /\ cache = p.cache
                               /\ o = NextReplica(epoch, left)
                               /\ q = FillRound(epoch, time, p)
  OBVIOUS
<1>2. FilledInOrder(epoch, left, cache)
      /\ (IsFull(epoch, left, cache) \/ Cardinality(left) + k = Cardinality(Fitting(epoch)))
  BY <1>1 DEF FillOK
<1>3. IsFiniteSet(Fitting(epoch)) /\ IsFiniteSet(left) /\ left \in SUBSET Fitting(epoch)
      /\ left \in SUBSET PlannedObjects(epoch)
  BY <1>2, PlanFacts, FS_Subset DEF Fitting, FilledInOrder
<1>4. Cardinality(left) \in Nat /\ Cardinality(Fitting(epoch)) \in Nat
  BY <1>3, FS_CardinalityType
<1>5. CASE IsFull(epoch, left, cache)
  <2>1. q = p
    BY <1>1, <1>5 DEF FillRound, IsFull
  <2> QED BY <1>1, <1>2, <1>5, <2>1 DEF FillOK
<1>6. CASE ~IsFull(epoch, left, cache)
  <2>1. Cardinality(left) + k = Cardinality(Fitting(epoch))
    BY <1>2, <1>6
  <2>2. left # {}
    <3>1. left = {} => Cardinality(left) = 0
      BY FS_EmptySet
    <3> QED BY <1>4, <2>1, <3>1
  <2>3. o \in left /\ \A b \in left \ {o} : PlannedBefore(epoch, o, b)
    BY <1>1, <1>3, <2>2, NextIsHottest
  <2>4. o \in PlannedObjects(epoch)
    BY <1>3, <2>3
  <2>5. /\ CacheFits(cache, config.capacity_bytes)
        /\ DOMAIN cache.entries = Fitting(epoch) \ left
        /\ \A a \in left, x \in Fitting(epoch) \ left : PlannedBefore(epoch, x, a)
    BY <1>2 DEF FilledInOrder
  <2>6. cache.occupancy_bytes + ReplicaSize(epoch, o) <= config.capacity_bytes
    <3>1. ReplicaSize(epoch, o) \in Int
      BY <2>4, PlanFacts DEF SimTime
    <3>2. cache.occupancy_bytes \in Int /\ config.capacity_bytes \in Int
      BY <2>5 DEF CacheFits, AcceptedConfig, SimulationConfig, SimTime
    <3> QED BY <1>1, <1>6, <2>2, <3>1, <3>2 DEF IsFull
  <2>7. PICK rest, next : /\ rest = left \ {o}
                          /\ next = InstallReplica(cache, epoch, o, time)
    OBVIOUS
  <2>8. CacheFits(next, config.capacity_bytes)
          /\ DOMAIN next.entries = DOMAIN cache.entries \cup {o}
    BY <2>4, <2>5, <2>6, <2>7, InstallFits
  <2>9. FilledInOrder(epoch, rest, next)
    <3>1. rest \in SUBSET Fitting(epoch) /\ DOMAIN next.entries = Fitting(epoch) \ rest
      BY <1>3, <2>3, <2>5, <2>7, <2>8
    <3>2. \A a \in rest, x \in Fitting(epoch) \ rest : PlannedBefore(epoch, x, a)
      BY <2>3, <2>5, <2>7
    <3> QED BY <2>8, <3>1, <3>2 DEF FilledInOrder
  <2>10. Cardinality(rest) + (k + 1) = Cardinality(Fitting(epoch))
    <3>1. Cardinality(rest) = Cardinality(left) - 1
      BY <1>3, <2>3, <2>7, FS_RemoveElement
    <3> QED BY <1>4, <2>1, <3>1
  <2>11. q = [left |-> rest, cache |-> next]
    <3>1. ~(cache.occupancy_bytes + ReplicaSize(epoch, o) > config.capacity_bytes)
      BY <1>1, <1>6, <2>2 DEF IsFull
    <3> QED BY <1>1, <2>2, <2>7, <3>1 DEF FillRound
  <2>12. q.left = rest /\ q.cache = next
    BY <2>11
  <2> QED BY <1>1, <2>9, <2>10, <2>12 DEF FillOK
<1> QED BY <1>5, <1>6

\* The states of the loop of install_replicas.
FillStep(epoch, time, start, n, f) ==
  [k \in 0 .. n |-> IF k = 0 THEN start ELSE FillRound(epoch, time, f[k - 1])]

\* There is such a loop: it is built up round by round.
LEMMA FillExists ==
  ASSUME NEW epoch, NEW time, NEW start, NEW n \in Nat
  PROVE  \E f : f = FillStep(epoch, time, start, n, f)
<1> DEFINE Good == {m \in Nat : \E f : f = FillStep(epoch, time, start, m, f)}
<1>1. ASSUME NEW m \in Nat, \A k \in Nat : k < m => k \in Good
      PROVE  m \in Good
  <2>1. CASE m = 0
    <3> DEFINE f == [k \in 0 .. 0 |-> start]
    <3>1. f = FillStep(epoch, time, start, 0, f)
      BY DEF FillStep
    <3> QED BY <2>1, <3>1
  <2>2. CASE m # 0
    <3>1. m - 1 \in Nat /\ m - 1 < m
      BY <2>2
    <3>2. m - 1 \in Good
      <4> HIDE DEF Good
      <4> QED BY <1>1, <3>1
    <3>3. PICK g : g = FillStep(epoch, time, start, m - 1, g)
      BY <3>2
    <3> DEFINE f == [k \in 0 .. m |-> IF k = 0 THEN start
                                      ELSE FillRound(epoch, time, g[k - 1])]
    <3>4. \A k \in 0 .. m - 1 : f[k] = g[k]
      <4>1. \A k \in 0 .. m - 1 :
              g[k] = IF k = 0 THEN start ELSE FillRound(epoch, time, g[k - 1])
        BY <3>3 DEF FillStep
      <4> QED BY <3>1, <4>1
    <3>5. \A k \in 0 .. m : k # 0 => k - 1 \in 0 .. m - 1
      OBVIOUS
    <3>6. \A k \in 0 .. m :
            (IF k = 0 THEN start ELSE FillRound(epoch, time, g[k - 1]))
              = IF k = 0 THEN start ELSE FillRound(epoch, time, f[k - 1])
      <4> HIDE DEF f
      <4> QED BY <3>4, <3>5
    <3>7. f = [k \in 0 .. m |-> IF k = 0 THEN start
                                ELSE FillRound(epoch, time, f[k - 1])]
      BY <3>6
    <3> HIDE DEF f
    <3>8. f = FillStep(epoch, time, start, m, f)
      BY <3>7 DEF FillStep
    <3> QED BY <3>8
  <2> QED BY <2>1, <2>2
<1>2. Nat \subseteq Good
  <2> HIDE DEF Good
  <2> QED BY <1>1, NoLeastCounterexample
<1> QED BY <1>2

\* After the loop the cache is full, or nothing is left.
Installed(epoch, cache) ==
  \E left : /\ FilledInOrder(epoch, left, cache)
            /\ left = {} \/ IsFull(epoch, left, cache)

\* install_replicas, from any cache.
LEMMA ReplicasFit ==
  ASSUME AcceptedConfig(config), NEW epoch, NEW time \in SimTime,
         NEW c, CacheFits(c, config.capacity_bytes)
  PROVE  Installed(epoch, install_replicas(c, epoch, time))
<1> DEFINE n == Cardinality(Fitting(epoch))
           start == [left |-> Fitting(epoch), cache |-> EvictAll(c, DOMAIN c.entries, 0, time)]
           fill == CHOOSE f : f = FillStep(epoch, time, start, n, f)
<1>1. install_replicas(c, epoch, time) = fill[n].cache
  BY DEF install_replicas, Fitting, FillStep, FillRound
<1>2. IsFiniteSet(Fitting(epoch)) /\ n \in Nat
  BY PlanFacts, FS_Subset, FS_CardinalityType DEF Fitting
<1>3. FillOK(epoch, start, 0)
  <2>1. PICK empty : empty = EvictAll(c, DOMAIN c.entries, 0, time)
    OBVIOUS
  <2>2. SumOver(SizesOf(c.entries), DOMAIN c.entries \ DOMAIN c.entries) = 0
    <3>1. PICK none : none = DOMAIN c.entries \ DOMAIN c.entries /\ none = {}
      OBVIOUS
    <3>2. IsFiniteSet(none)
      BY <3>1, FS_EmptySet
    <3> QED BY <3>1, <3>2, SumUnfolds
  <2>3. PICK capacity \in Nat : capacity = config.capacity_bytes
    BY RangeAssumption DEF AcceptedConfig, SimulationConfig, SimTime
  <2>4. /\ CacheFits(empty, capacity)
        /\ empty.entries = Spared(c.entries, DOMAIN c.entries)
    <3>1. PICK bytes \in Nat : bytes = 0
      OBVIOUS
    <3>2. SumOver(SizesOf(c.entries), DOMAIN c.entries \ DOMAIN c.entries) <= bytes
      BY <2>2, <3>1
    <3>3. bytes <= capacity /\ CacheFits(c, capacity)
      BY <2>3, <3>1
    <3>4. empty = EvictAll(c, DOMAIN c.entries, bytes, time)
      BY <2>1, <3>1
    <3>5. CanEvict(capacity, c, DOMAIN c.entries, bytes)
      BY <3>2, <3>3 DEF CanEvict
    <3>6. Evicted(capacity, c, DOMAIN c.entries, bytes, empty)
      BY <3>4, <3>5, EvictFits
    <3> QED BY <3>6 DEF Evicted
  <2>5. DOMAIN empty.entries = {}
    BY <2>4 DEF Spared
  <2>6. FilledInOrder(epoch, Fitting(epoch), empty)
    BY <2>3, <2>4, <2>5 DEF FilledInOrder
  <2>7. start.left = Fitting(epoch) /\ start.cache = empty
    BY <2>1
  <2> HIDE DEF start
  <2> QED BY <1>2, <2>6, <2>7 DEF FillOK
<1> HIDE DEF start, n
<1>4. fill = FillStep(epoch, time, start, n, fill)
  <2>1. \E f : f = FillStep(epoch, time, start, n, f)
    BY <1>2, FillExists
  <2> QED BY <2>1
<1> HIDE DEF fill
<1>5. fill[0] = start /\ \A k \in 1 .. n : fill[k] = FillRound(epoch, time, fill[k - 1])
  BY <1>2, <1>4 DEF FillStep
<1> DEFINE Good == {m \in Nat : m <= n => FillOK(epoch, fill[m], m)}
<1>6. ASSUME NEW m \in Nat, \A k \in Nat : k < m => k \in Good
      PROVE  m \in Good
  <2>1. CASE m = 0
    BY <1>3, <1>5, <2>1
  <2>2. CASE m # 0 /\ m <= n
    <3>1. PICK k \in Nat : k = m - 1
      BY <2>2
    <3>2. k \in Good
      <4> HIDE DEF Good
      <4> QED BY <1>6, <3>1
    <3>3. FillOK(epoch, fill[k], k) /\ k < Cardinality(Fitting(epoch))
      BY <1>2, <2>2, <3>1, <3>2 DEF n
    <3>4. FillOK(epoch, FillRound(epoch, time, fill[k]), k + 1)
      BY <3>3, FillRoundKeeps
    <3>5. fill[m] = FillRound(epoch, time, fill[k]) /\ k + 1 = m
      BY <1>2, <1>5, <2>2, <3>1
    <3> QED BY <3>4, <3>5
  <2> QED BY <2>1, <2>2
<1>7. Nat \subseteq Good
  <2> HIDE DEF Good
  <2> QED BY <1>6, NoLeastCounterexample
<1>8. FillOK(epoch, fill[n], n)
  BY <1>2, <1>7
<1>9. PICK left, cache : left = fill[n].left /\ cache = fill[n].cache
  OBVIOUS
<1>10. FilledInOrder(epoch, left, cache) /\ (left = {} \/ IsFull(epoch, left, cache))
  <2>1. IsFiniteSet(left)
    BY <1>2, <1>8, <1>9, FS_Subset DEF FillOK, FilledInOrder
  <2>2. Cardinality(left) \in Nat /\ (Cardinality(left) = 0 => left = {})
    BY <2>1, FS_CardinalityType, FS_EmptySet
  <2> QED BY <1>2, <1>8, <1>9, <2>2 DEF FillOK, n
<1> QED BY <1>1, <1>9, <1>10 DEF Installed

-----------------------------------------------------------------------------
(* The invariant of the caches *)

oracle == config.policy_type = "global_hottest"

\* A cache is within its capacity and, in an epoch of the oracle, installed as the
\* plan of the epoch says.
CacheOK(c, epoch) ==
  /\ CacheFits(c, config.capacity_bytes)
  /\ oracle /\ epoch # NoEpoch => Installed(epoch, c)

CapacityInv ==
  /\ HistoryInv
  /\ local_cache = [n \in Nodes |-> local_cache[n]]
  /\ \A n \in Nodes : CacheOK(local_cache[n], compute_nodes[n].current_epoch)

\* The plan of an epoch is of the configuration alone.
LEMMA PlanByConfig ==
  ASSUME config' = config, NEW epoch
  PROVE  /\ PlannedObjects(epoch)' = PlannedObjects(epoch)
         /\ \A o : ReplicaSize(epoch, o)' = ReplicaSize(epoch, o)
         /\ Fitting(epoch)' = Fitting(epoch)
         /\ \A a, b : PlannedBefore(epoch, a, b)' = PlannedBefore(epoch, a, b)
<1>1. \A o : Demand(epoch, o)' = Demand(epoch, o)
  BY DEF Demand
<1>2. PlannedObjects(epoch)' = PlannedObjects(epoch)
  BY DEF PlannedObjects
<1>3. \A o : ReplicaSize(epoch, o)' = ReplicaSize(epoch, o)
  BY <1>1 DEF ReplicaSize
<1>4. Fitting(epoch)' = Fitting(epoch)
  BY <1>2, <1>3 DEF Fitting
<1>5. \A a, b : PlannedBefore(epoch, a, b)' = PlannedBefore(epoch, a, b)
  BY <1>1 DEF PlannedBefore
<1> QED BY <1>2, <1>3, <1>4, <1>5

\* So is whether a cache is installed by it.
LEMMA CacheOKByConfig ==
  ASSUME config' = config, NEW c, NEW epoch, CacheOK(c, epoch)
  PROVE  CacheOK(c, epoch)'
<1>1. CacheFits(c, config'.capacity_bytes)
  BY DEF CacheOK
<1>2. ASSUME oracle, epoch # NoEpoch PROVE Installed(epoch, c)'
  <2>1. PICK left : /\ FilledInOrder(epoch, left, c)
                    /\ left = {} \/ IsFull(epoch, left, c)
    BY <1>2 DEF CacheOK, Installed
  <2>2. FilledInOrder(epoch, left, c)'
    BY <1>1, <2>1, PlanByConfig DEF FilledInOrder
  <2>3. IsFull(epoch, left, c) => IsFull(epoch, left, c)'
    <3>1. NextReplica(epoch, left)' = NextReplica(epoch, left)
      BY PlanByConfig DEF NextReplica
    <3> QED BY <3>1, PlanByConfig DEF IsFull
  <2> QED BY <2>1, <2>2, <2>3 DEF Installed
<1> QED BY <1>1, <1>2 DEF CacheOK, oracle

-----------------------------------------------------------------------------
(* What a handler does to a cache *)

\* A lookup leaves the installed replicas as they are.
LEMMA LookupKeepsCacheOK ==
  ASSUME NEW c, NEW epoch, CacheOK(c, epoch), NEW o, NEW time \in SimTime
  PROVE  CacheOK(lookup(c, o, time), epoch)
<1>1. PICK d : d = lookup(c, o, time)
  OBVIOUS
<1>2. /\ CacheFits(d, config.capacity_bytes) /\ DOMAIN d.entries = DOMAIN c.entries
      /\ d.occupancy_bytes = c.occupancy_bytes
  BY <1>1, LookupKeepsFit DEF CacheOK
<1>3. Installed(epoch, c) => Installed(epoch, d)
  BY <1>2 DEF Installed, FilledInOrder, IsFull
<1> QED BY <1>1, <1>2, <1>3 DEF CacheOK

\* The oracle admits no answer.
LEMMA OracleAdmitsNothing ==
  ASSUME oracle, NEW c, HasCacheFields(c), NEW h, NEW r, NEW time
  PROVE  LET d == admit(c, h, r, time)
         IN d.entries = c.entries /\ d.occupancy_bytes = c.occupancy_bytes
<1>1. admission_decision(h, r) = "policy_rejected"
  BY DEF admission_decision, should_admit, oracle
<1>2. PICK row : admit(c, h, r, time) = [c EXCEPT !.admission_records = Append(@, row)]
  BY <1>1 DEF admit, Decide
<1> QED BY <1>2, RowKeepsFit

\* Neither does an admission, while one whose policy can compare worths keeps the
\* cache within its capacity.
LEMMA AdmitKeepsCacheOK ==
  ASSUME AcceptedConfig(config), NEW c, NEW epoch, CacheOK(c, epoch), NEW h,
         WorthsOK(c.entries, Worths(h, c.entries)), NEW r \in Request, NEW time \in SimTime
  PROVE  CacheOK(admit(c, h, r, time), epoch)
<1>1. PICK d : d = admit(c, h, r, time)
  OBVIOUS
<1>2. config.capacity_bytes \in Nat
  BY DEF AcceptedConfig, SimulationConfig, SimTime
<1>3. CacheFits(c, config.capacity_bytes)
  BY DEF CacheOK
<1>4. CacheFits(d, config.capacity_bytes)
  BY <1>1, <1>2, <1>3, AdmitFits
<1>5. ASSUME oracle, epoch # NoEpoch PROVE Installed(epoch, d)
  <2>1. HasCacheFields(c) /\ Installed(epoch, c)
    BY <1>5 DEF CacheOK, CacheFits
  <2>2. d.entries = c.entries /\ d.occupancy_bytes = c.occupancy_bytes
    BY <1>1, <1>5, <2>1, OracleAdmitsNothing
  <2> QED BY <1>4, <2>1, <2>2 DEF Installed, FilledInOrder, IsFull
<1> QED BY <1>1, <1>4, <1>5 DEF CacheOK

\* Worths are numbers wherever a node may decide: its policy counts, and the
\* telemetry it weighs is that of the rows before its epoch.
LEMMA WorthsComparable ==
  ASSUME HistoryInv, NEW n \in Nodes, compute_nodes[n].current_epoch \in Nat,
         NEW entries, EntriesOK(entries)
  PROVE  WorthsOK(entries, Worths(history[n], entries))
<1>1. PICK h : h = history[n]
  OBVIOUS
<1>2. AcceptedConfig(config)
  BY DEF HistoryInv, TelemetryInv, BarrierInv, RequestPathInv, SimulatorInv, TypeOK
<1>3. SUFFICES ASSUME NEW o \in DOMAIN entries
               PROVE  Worth(h, o, entries[o].size_bytes) \in Int
  BY <1>1 DEF WorthsOK, Worths
<1>4. CASE hotness_only
  <2>1. CountsOK(h.access_counts)
    BY <1>1, <1>4 DEF HistoryInv, PolicyRemembers, HotnessOK
  <2>2. count_for(h, o) \in Int
    BY <2>1 DEF CountsOK, count_for, FindOr
  <2> QED BY <1>4, <2>2 DEF Worth, hotness_only
<1>5. CASE contention_aware
  <2>1. PICK epoch \in Nat : compute_nodes[n].current_epoch = epoch
    OBVIOUS
  <2>2. CountsOK(h.access_counts)
    BY <1>1, <1>5 DEF HistoryInv, PolicyRemembers, DemandRemembered, Remembers
  <2>3. TelemetryOK(h.previous_epoch_stats)
    <3>1. h.previous_epoch_stats = TelemetrySnapshot(stats, epoch)
      BY <1>1, <1>5, <2>1 DEF HistoryInv, TelemetryInv, SnapshotsTaken, SnapshotNow
    <3>2. RowsOK(stats.contention_by_epoch)
      BY DEF HistoryInv
    <3>3. TelemetryOK(TelemetrySnapshot(stats, epoch))
      BY <1>2, <3>2, SnapshotOK
    <3> QED BY <3>1, <3>3
  <2>4. entries[o].size_bytes \in SimTime
    BY DEF EntriesOK, CacheEntry
  <2>5. score_object(h, o, entries[o].size_bytes) \in Int
    BY <1>2, <2>2, <2>3, <2>4, ScoreIsInt
  <2> QED BY <1>5, <2>5 DEF Worth, contention_aware
<1>6. CASE ~hotness_only /\ ~contention_aware
  BY <1>6 DEF Worth, hotness_only, contention_aware
<1> QED BY <1>4, <1>5, <1>6

\* A cache of a node goes from before to after, and the node from epoch c to d: it
\* is left alone, looked up in, offered an answer, or filled for a new epoch.
CacheIsTouched(h, before, after, c, d, time) ==
  \/ after = before /\ (oracle => d = c)
  \/ d = c /\ \E o : after = lookup(before, o, time)
  \/ d = c /\ c \in Nat /\ \E r \in Request : after = admit(before, h, r, time)
  \/ oracle /\ after = install_replicas(before, d, time)

\* Each handler does one of these to each cache.
LEMMA EachCacheIsTouched ==
  ASSUME BarrierInv, local_cache = [m \in Nodes |-> local_cache[m]],
         NEW e \in sched.events, MemoryStep(e) \/ ComputeStep(e), NEW n \in Nodes
  PROVE  CacheIsTouched(history[n], local_cache[n], local_cache'[n],
                        compute_nodes[n].current_epoch, compute_nodes'[n].current_epoch,
                        e.time)
<1>1. RequestPathInv /\ SimulatorInv /\ HandlerEffect(e)
  BY StepHasEffect DEF BarrierInv, RequestPathInv
<1>2. PICK m : m = e.target_id
  OBVIOUS
<1>3. compute_nodes \in [Nodes -> ComputeNodeState]
  BY <1>1 DEF SimulatorInv, TypeOK
<1>4. DOMAIN local_cache = Nodes
  OBVIOUS
<1>5. ASSUME UNCHANGED <<local_cache, compute_nodes>>
      PROVE  CacheIsTouched(history[n], local_cache[n], local_cache'[n],
               compute_nodes[n].current_epoch, compute_nodes'[n].current_epoch, e.time)
  BY <1>5 DEF CacheIsTouched
<1>6. CASE MemoryStep(e)
  <2>1. e.type \in {"ForwardToMemory", "MemoryServiceStart", "MemoryServiceComplete"}
    BY <1>6 DEF MemoryStep, handle_forward_to_memory, handle_memory_service_start,
       handle_memory_service_complete, Dispatch
  <2>2. UNCHANGED compute_nodes
    BY <1>1, <2>1 DEF HandlerEffect, ForwardEffect, ServiceStartEffect, ServiceCompleteEffect
  <2> QED BY <1>5, <1>6, <2>2 DEF MemoryStep
<1>7. CASE handle_generate_request(e)
  <2>1. CASE has_next(compute_nodes, m)
    <3>1. PICK spec : spec = peek_next(compute_nodes, m)
      OBVIOUS
    <3>2. IssueRequest(e, m, spec) /\ m \in Nodes
      BY <1>2, <1>7, <2>1, <3>1 DEF handle_generate_request, Dispatch
    <3>3. /\ local_cache' = [local_cache EXCEPT ![m] =
                               StartEpochCache(m, spec.epoch_id, e.time)]
          /\ compute_nodes' = [compute_nodes EXCEPT ![m] = Advance(@, spec, e.time)]
      BY <3>2 DEF IssueRequest
    <3>4. CASE n # m
      <4>1. local_cache'[n] = local_cache[n] /\ compute_nodes'[n] = compute_nodes[n]
        BY <1>3, <1>4, <3>3, <3>4
      <4> QED BY <4>1 DEF CacheIsTouched
    <3>5. CASE n = m
      <4>1. /\ local_cache'[n] = StartEpochCache(n, spec.epoch_id, e.time)
            /\ compute_nodes'[n].current_epoch = spec.epoch_id
        BY <1>3, <1>4, <3>3, <3>5 DEF Advance
      <4> QED BY <4>1 DEF StartEpochCache, EpochStarted, CacheIsTouched, oracle
    <3> QED BY <3>4, <3>5
  <2>2. CASE ~has_next(compute_nodes, m)
    BY <1>2, <1>5, <1>7, <2>2 DEF handle_generate_request
  <2> QED BY <2>1, <2>2
<1>8. CASE handle_local_cache_lookup(e)
  <2>1. PICK o : local_cache' = [local_cache EXCEPT ![m] = lookup(@, o, e.time)]
    BY <1>2, <1>8 DEF handle_local_cache_lookup
  <2>2. UNCHANGED compute_nodes
    BY <1>8 DEF handle_local_cache_lookup
  <2>3. local_cache'[n] = local_cache[n] \/ local_cache'[n] = lookup(local_cache[n], o, e.time)
    BY <1>4, <2>1
  <2> QED BY <2>2, <2>3 DEF CacheIsTouched
<1>9. CASE handle_local_cache_hit_complete(e) \/ handle_return_response(e)
  <2>1. compute_nodes'[n].current_epoch = compute_nodes[n].current_epoch
    <3>1. e.type \in {"LocalCacheHitComplete", "ReturnResponse"}
      BY <1>9 DEF handle_local_cache_hit_complete, handle_return_response, Dispatch
    <3>2. compute_nodes' = [compute_nodes EXCEPT ![m].outstanding_requests = @ - 1]
      BY <1>1, <1>2, <3>1 DEF HandlerEffect, CompleteEffect
    <3> QED BY <1>3, <3>2 DEF ComputeNodeState
  <2>2. CASE handle_local_cache_hit_complete(e)
    BY <2>1, <2>2 DEF handle_local_cache_hit_complete, CacheIsTouched
  <2>3. CASE handle_return_response(e)
    <3>1. PICK id, r : id = e.request_id /\ r = request_table[id]
      OBVIOUS
    <3>2. /\ Dispatch(e, "ReturnResponse", Nodes)
          /\ local_cache' = [local_cache EXCEPT ![m] = admit(@, history[m], r, e.time)]
      BY <1>2, <2>3, <3>1 DEF handle_return_response
    <3>3. r \in Request /\ e.type = "ReturnResponse"
      BY <1>1, <3>1, <3>2, DispatchFacts DEF Dispatch
    <3>4. CASE n # m
      <4>1. local_cache'[n] = local_cache[n]
        BY <1>4, <3>2, <3>4
      <4> QED BY <2>1, <4>1 DEF CacheIsTouched
    <3>5. CASE n = m
      <4>1. local_cache'[n] = admit(local_cache[n], history[n], r, e.time)
        BY <1>4, <3>2, <3>5
      <4>2. id \in Unfinished /\ SourceOf(id) = m
        BY <1>1, <1>2, <3>1, <3>3, HeldByAlone
           DEF RequestPathInv, HeldAtMostOnce, PathEvents, PathTypes, ComputeEventTypes
      <4>3. compute_nodes[n].current_epoch = r.epoch_id
        BY <3>1, <3>5, <4>2 DEF BarrierInv, OpenInEpoch, EpochOf
      <4>4. compute_nodes[n].current_epoch \in Nat
        BY <3>3, <4>3 DEF Request
      <4> QED BY <2>1, <3>3, <4>1, <4>4 DEF CacheIsTouched
    <3> QED BY <3>4, <3>5
  <2> QED BY <1>9, <2>2, <2>3
<1>10. CASE handle_request_complete(e)
  BY <1>5, <1>10 DEF handle_request_complete
<1> QED BY <1>6, <1>7, <1>8, <1>9, <1>10 DEF ComputeStep

-----------------------------------------------------------------------------
(* The invariant holds *)

\* A cache stays within its capacity and, under the oracle, as installed.
LEMMA TouchedCacheIsOK ==
  ASSUME AcceptedConfig(config), NEW h, NEW before, NEW after, NEW c, NEW d,
         NEW time \in SimTime, CacheOK(before, c),
         c \in Nat => WorthsOK(before.entries, Worths(h, before.entries)),
         CacheIsTouched(h, before, after, c, d, time)
  PROVE  CacheOK(after, d)
<1>1. CASE after = before /\ (oracle => d = c)
  BY <1>1 DEF CacheOK
<1>2. ASSUME d = c, NEW o, after = lookup(before, o, time) PROVE CacheOK(after, d)
  BY <1>2, LookupKeepsCacheOK
<1>3. ASSUME d = c, c \in Nat, NEW r \in Request, after = admit(before, h, r, time)
      PROVE  CacheOK(after, d)
  BY <1>3, AdmitKeepsCacheOK
<1>4. CASE oracle /\ after = install_replicas(before, d, time)
  <2>1. CacheFits(before, config.capacity_bytes)
    BY DEF CacheOK
  <2>2. Installed(d, after)
    BY <1>4, <2>1, ReplicasFit
  <2>3. CacheFits(after, config.capacity_bytes)
    BY <2>2 DEF Installed, FilledInOrder
  <2> QED BY <2>2, <2>3 DEF CacheOK
<1> QED BY <1>1, <1>2, <1>3, <1>4 DEF CacheIsTouched

\* A handler keeps the invariant.
LEMMA HandlerKeepsCapacity ==
  ASSUME CapacityInv, HistoryInv', NEW e \in sched.events, MemoryStep(e) \/ ComputeStep(e)
  PROVE  CapacityInv'
<1>1. /\ HistoryInv /\ BarrierInv /\ RequestPathInv /\ SimulatorInv /\ HandlerEffect(e)
      /\ AcceptedConfig(config)
  BY StepHasEffect
     DEF CapacityInv, HistoryInv, TelemetryInv, BarrierInv, RequestPathInv, SimulatorInv,
         TypeOK
<1>2. config' = config
  BY <1>1 DEF HandlerEffect, NothingToIssueEffect, IssueEffect, LookupEffect, CompleteEffect,
     RequestCompleteEffect, ForwardEffect, ServiceStartEffect, ServiceCompleteEffect
<1>3. e.time \in SimTime
  BY <1>1, Referents DEF Event
<1>4. local_cache = [n \in Nodes |-> local_cache[n]]
  BY DEF CapacityInv
<1>5. local_cache' = [n \in Nodes |-> local_cache'[n]]
  <2>1. \/ UNCHANGED local_cache
        \/ \E new : local_cache' = [local_cache EXCEPT ![e.target_id] = new]
    BY DEF MemoryStep, ComputeStep, handle_generate_request, IssueRequest,
       handle_local_cache_lookup, handle_local_cache_hit_complete, handle_return_response,
       handle_request_complete
  <2>2. PICK new : \/ local_cache' = local_cache
                   \/ local_cache' = [local_cache EXCEPT ![e.target_id] = new]
    BY <2>1
  <2>3. local_cache \in [Nodes -> {local_cache[n] : n \in Nodes}]
    BY <1>4
  <2>4. /\ DOMAIN local_cache' = Nodes
        /\ local_cache' = [n \in DOMAIN local_cache' |-> local_cache'[n]]
    BY <2>2, <2>3
  <2> QED BY <2>4
<1>6. ASSUME NEW n \in Nodes
      PROVE  CacheOK(local_cache[n], compute_nodes[n].current_epoch)'
  <2>1. PICK before, h, c : /\ before = local_cache[n] /\ h = history[n]
                            /\ c = compute_nodes[n].current_epoch
    OBVIOUS
  <2>2. PICK after, d : after = local_cache'[n] /\ d = compute_nodes'[n].current_epoch
    OBVIOUS
  <2>3. CacheOK(before, c)
    BY <2>1 DEF CapacityInv
  <2>4. CacheIsTouched(h, before, after, c, d, e.time)
    BY <1>1, <1>4, <2>1, <2>2, EachCacheIsTouched
  <2>5. c \in Nat => WorthsOK(before.entries, Worths(h, before.entries))
    <3>1. EntriesOK(before.entries)
      BY <2>3 DEF CacheOK, CacheFits
    <3> QED BY <1>1, <2>1, <3>1, WorthsComparable
  <2>6. CacheOK(after, d)
    BY <1>1, <1>3, <2>3, <2>4, <2>5, TouchedCacheIsOK
  <2>7. CacheOK(after, d)'
    BY <1>2, <2>6, CacheOKByConfig
  <2> QED BY <2>2, <2>7
<1> QED BY <1>5, <1>6 DEF CapacityInv

\* Before the run every cache is empty.
LEMMA CapacityInit == Init => CapacityInv
<1> SUFFICES ASSUME Init PROVE CapacityInv
  OBVIOUS
<1>1. HistoryInv /\ AcceptedConfig(config)
  BY HistoryInit
     DEF HistoryInv, TelemetryInv, BarrierInv, RequestPathInv, SimulatorInv, TypeOK
<1>2. /\ compute_nodes = [n \in Nodes |-> NewComputeNode]
      /\ local_cache = [n \in Nodes |-> EmptyCache]
  BY DEF Init
<1> HIDE DEF Init
<1>3. HasCacheFields(EmptyCache) /\ EmptyCache.entries = <<>> /\ EmptyCache.occupancy_bytes = 0
  BY DEF EmptyCache, HasCacheFields
<1>4. EntriesOK(<<>>)
  <2>1. DOMAIN <<>> = {}
    OBVIOUS
  <2>2. IsFiniteSet({})
    BY FS_EmptySet
  <2> QED BY <2>1, <2>2 DEF EntriesOK
<1>5. BytesOf(<<>>) = 0
  <2>1. DOMAIN <<>> = {}
    OBVIOUS
  <2>2. IsFiniteSet({})
    BY FS_EmptySet
  <2> QED BY <2>1, <2>2, SumUnfolds DEF BytesOf
<1>6. config.capacity_bytes \in Nat
  BY <1>1 DEF AcceptedConfig, SimulationConfig, SimTime
<1>7. CacheOK(EmptyCache, NoEpoch)
  BY <1>3, <1>4, <1>5, <1>6 DEF CacheOK, CacheFits
<1> QED BY <1>1, <1>2, <1>7 DEF CapacityInv, NewComputeNode

\* Every step keeps the invariant.
LEMMA CapacityNext == CapacityInv /\ [Next]_vars => CapacityInv'
<1> SUFFICES ASSUME CapacityInv, [Next]_vars PROVE CapacityInv'
  OBVIOUS
<1>1. HistoryInv'
  BY HistoryNext DEF CapacityInv
<1>2. ASSUME UNCHANGED <<config, compute_nodes, local_cache>>
      PROVE  CapacityInv'
  <2>1. ASSUME NEW n \in Nodes
        PROVE  CacheOK(local_cache[n], compute_nodes[n].current_epoch)'
    <3>1. PICK before, c : before = local_cache[n] /\ c = compute_nodes[n].current_epoch
      OBVIOUS
    <3>2. CacheOK(before, c)'
      BY <1>2, <3>1, CacheOKByConfig DEF CapacityInv
    <3> QED BY <1>2, <3>1, <3>2
  <2> QED BY <1>1, <1>2, <2>1 DEF CapacityInv
<1>3. CASE Run
  BY <1>2, <1>3 DEF Run
<1>4. ASSUME NEW e \in sched.events, MemoryStep(e) \/ ComputeStep(e)
      PROVE  CapacityInv'
  BY <1>1, <1>4, HandlerKeepsCapacity
<1>5. CASE UNCHANGED vars
  BY <1>2, <1>5 DEF vars
<1> QED BY <1>3, <1>4, <1>5 DEF Next, Finished

\* A cache that fits is within its capacity by its counter and by its entries.
LEMMA FitIsWithin == CapacityInv => OccupancyWithinCapacity
<1> SUFFICES ASSUME CapacityInv, NEW n \in Nodes
             PROVE  /\ local_cache[n].occupancy_bytes <= config.capacity_bytes
                    /\ ResidentBytes(local_cache[n]) <= config.capacity_bytes
  BY DEF OccupancyWithinCapacity
<1>1. PICK c : c = local_cache[n]
  OBVIOUS
<1>2. CacheFits(c, config.capacity_bytes)
  BY <1>1 DEF CapacityInv, CacheOK
<1>3. ResidentBytes(c) = BytesOf(c.entries)
  BY <1>2, ResidentBytesIs DEF CacheFits, EntriesOK
<1>4. PICK capacity \in Nat : capacity = config.capacity_bytes
  BY DEF CapacityInv, HistoryInv, TelemetryInv, BarrierInv, RequestPathInv, SimulatorInv,
     TypeOK, AcceptedConfig, SimulationConfig, SimTime
<1>5. BytesOf(c.entries) \in Nat
  BY <1>2, BytesAreNatural DEF CacheFits
<1>6. /\ BytesOf(c.entries) <= c.occupancy_bytes /\ c.occupancy_bytes \in Nat
      /\ c.occupancy_bytes <= capacity
  BY <1>2, <1>4 DEF CacheFits
<1> QED BY <1>1, <1>3, <1>4, <1>5, <1>6

\* What is installed in the order of the plan are the most demanded objects.
LEMMA InstalledIsHottest == CapacityInv => OracleHoldsTheHottest
<1> SUFFICES ASSUME CapacityInv, oracle, NEW n \in Nodes, NEW epoch, NEW resident, NEW absent,
                    epoch = compute_nodes[n].current_epoch, epoch # NoEpoch,
                    resident = DOMAIN local_cache[n].entries,
                    absent = {o \in PlannedObjects(epoch) \ resident :
                                ReplicaSize(epoch, o) <= config.capacity_bytes}
             PROVE  /\ resident \subseteq PlannedObjects(epoch)
                    /\ \A a \in absent, o \in resident :
                         Cardinality(Demand(epoch, a)) <= Cardinality(Demand(epoch, o))
                    /\ absent # {} =>
                         \E a \in absent : local_cache[n].occupancy_bytes
                           + ReplicaSize(epoch, a) > config.capacity_bytes
  BY DEF OracleHoldsTheHottest, oracle
<1>1. AcceptedConfig(config)
  BY DEF CapacityInv, HistoryInv, TelemetryInv, BarrierInv, RequestPathInv, SimulatorInv,
     TypeOK
<1>2. PICK c : c = local_cache[n]
  OBVIOUS
<1>3. Installed(epoch, c)
  BY <1>2 DEF CapacityInv, CacheOK
<1>4. PICK left : FilledInOrder(epoch, left, c) /\ (left = {} \/ IsFull(epoch, left, c))
  BY <1>3 DEF Installed
<1>5. resident = Fitting(epoch) \ left /\ left \subseteq Fitting(epoch)
  BY <1>2, <1>4 DEF FilledInOrder
<1>6. absent = left
  BY <1>5 DEF Fitting
<1>7. ASSUME NEW a \in absent, NEW o \in resident
      PROVE  Cardinality(Demand(epoch, a)) <= Cardinality(Demand(epoch, o))
  <2>1. a \in PlannedObjects(epoch) /\ o \in PlannedObjects(epoch)
    BY <1>5 DEF Fitting
  <2>2. PlannedBefore(epoch, o, a)
    BY <1>4, <1>5, <1>6 DEF FilledInOrder
  <2>3. Cardinality(Demand(epoch, a)) \in Nat /\ Cardinality(Demand(epoch, o)) \in Nat
    BY <1>1, <2>1, PlanFacts
  <2> QED BY <2>2, <2>3 DEF PlannedBefore
<1>8. ASSUME absent # {}
      PROVE  \E a \in absent : local_cache[n].occupancy_bytes + ReplicaSize(epoch, a)
                                 > config.capacity_bytes
  <2>1. left \in SUBSET PlannedObjects(epoch) /\ left # {}
    BY <1>5, <1>6, <1>8 DEF Fitting
  <2>2. NextReplica(epoch, left) \in left
    BY <1>1, <2>1, NextIsHottest
  <2> QED BY <1>2, <1>4, <1>6, <2>1, <2>2 DEF IsFull
<1>9. resident \subseteq PlannedObjects(epoch)
  BY <1>5 DEF Fitting
<1> QED BY <1>7, <1>8, <1>9

\* No cache ever exceeds its capacity, by the counter it keeps or by the bytes
\* really resident, whatever answers a burst makes it admit twice, whatever its
\* policy gives up and whatever the oracle installs (architecture invariant 4).
THEOREM CapacityIsKept == Spec => []OccupancyWithinCapacity
<1>1. Spec => []CapacityInv
  BY CapacityInit, CapacityNext, PTL DEF Spec
<1> QED BY <1>1, FitIsWithin, PTL

\* Under the oracle a node holds, from the first to the last event of an epoch, the
\* most demanded objects of that epoch and of no other, as many as fit
\* (build_global_replica_plan, install_replicas).
THEOREM OracleIsTrueToItsPlan == Spec => []OracleHoldsTheHottest
<1>1. Spec => []CapacityInv
  BY CapacityInit, CapacityNext, PTL DEF Spec
<1> QED BY <1>1, InstalledIsHottest, PTL

-----------------------------------------------------------------------------
(* Replacements *)

\* One request at a time, the object of an answer is not resident.
LEMMA AnswersAreNew ==
  ASSUME PlacementInv, OneAtATime, NEW e \in sched.events, handle_return_response(e)
  PROVE  /\ e.target_id \in Nodes
         /\ request_table[e.request_id].object_id \notin DOMAIN local_cache[e.target_id].entries
<1>1. RequestPathInv /\ SimulatorInv
  BY DEF PlacementInv, BarrierInv, RequestPathInv
<1>2. PICK id : id = e.request_id
  OBVIOUS
<1>3. /\ e.type = "ReturnResponse" /\ e.target_id \in Nodes /\ id \in Issued
      /\ e.type \in AwaitedEvents(Stage(id))
  <2>1. e.type = "ReturnResponse" /\ e.target_id \in Nodes
    BY DEF handle_return_response, Dispatch
  <2> QED BY <1>1, <1>2, <2>1, HeldByAlone DEF PathTypes
<1>4. id \in Unfinished /\ SourceOf(id) = e.target_id
  BY <1>1, <1>2, <1>3, HeldByAlone
     DEF RequestPathInv, HeldAtMostOnce, PathEvents, PathTypes, ComputeEventTypes
<1>5. Stage(id) = "WaitingForResponse"
  BY <1>1, <1>3, Referents, StageOfEvent DEF RequestPathInv
<1>6. ~contains(local_cache[SourceOf(id)], request_table[id].object_id)
  BY <1>4, <1>5 DEF PlacementInv, MissesAreAbsent
<1> QED BY <1>2, <1>3, <1>4, <1>6 DEF contains

\* Who is pushed out scores no more than who stays, and less than the newcomer by
\* the margin.
ScoresRise(h, before, after) ==
  \A v \in DOMAIN before \ DOMAIN after :
    /\ \A o \in DOMAIN after \cap DOMAIN before :
         score_object(h, v, before[v].size_bytes) <= score_object(h, o, before[o].size_bytes)
    /\ \A o \in DOMAIN after \ DOMAIN before :
         score_object(h, v, before[v].size_bytes) + required_margin
           < score_object(h, o, after[o].size_bytes)

\* A replacement by a newcomer does this.
LEMMA ReplacedByBetter ==
  ASSUME contention_aware, NEW h, NEW before, NEW after, NEW r, NEW worths,
         worths = Worths(h, before), WorthsOK(before, worths), required_margin \in Int,
         r.object_id \notin DOMAIN before,
         Replaced(before, after, worths, Worth(h, r.object_id, r.size_bytes), r)
  PROVE  ScoresRise(h, before, after)
<1> DEFINE incoming == Worth(h, r.object_id, r.size_bytes)
<1>1. CASE after = before
  BY <1>1 DEF ScoresRise
<1>2. ASSUME NEW p \in PlanIn(before, worths, incoming),
             DOMAIN after = p.candidates \cup {r.object_id},
             after[r.object_id].size_bytes = r.size_bytes
      PROVE  ScoresRise(h, before, after)
  <2>1. \A o \in DOMAIN before : worths[o] = score_object(h, o, before[o].size_bytes)
    BY DEF Worths, Worth, contention_aware
  <2>2. incoming = score_object(h, r.object_id, r.size_bytes)
    BY DEF Worth, contention_aware
  <2> HIDE DEF incoming
  <2>3. /\ p.candidates \subseteq DOMAIN before
        /\ \A v \in DOMAIN before \ p.candidates :
             /\ Outweighs(incoming, worths[v])
             /\ \A o \in p.candidates : worths[v] <= worths[o]
    BY DEF PlanIn
  <2>4. \A v \in DOMAIN before \ p.candidates : worths[v] + required_margin < incoming
    <3> SUFFICES ASSUME NEW v \in DOMAIN before \ p.candidates
                 PROVE  worths[v] + required_margin < incoming
      OBVIOUS
    <3>1. incoming > worths[v] + required_margin
      BY <2>3 DEF Outweighs, contention_aware
    <3> QED BY <3>1
  <2>5. /\ DOMAIN before \ DOMAIN after \subseteq DOMAIN before \ p.candidates
        /\ DOMAIN after \cap DOMAIN before = p.candidates
        /\ DOMAIN after \ DOMAIN before = {r.object_id}
    BY <1>2, <2>3
  <2> QED BY <1>2, <2>1, <2>2, <2>3, <2>4, <2>5 DEF ScoresRise
<1> QED BY <1>1, <1>2 DEF Replaced

\* A cache that is not changed, or only looked up in, replaces nothing.
LEMMA HandlerRaisesScores ==
  ASSUME CapacityInv, PlacementInv, OneAtATime, contention_aware,
         NEW e \in sched.events, MemoryStep(e) \/ ComputeStep(e), NEW n \in Nodes
  PROVE  ScoresRise(history[n], local_cache[n].entries, local_cache'[n].entries)
<1>1. /\ HistoryInv /\ BarrierInv /\ RequestPathInv /\ SimulatorInv /\ AcceptedConfig(config)
      /\ local_cache = [m \in Nodes |-> local_cache[m]]
  BY DEF CapacityInv, HistoryInv, TelemetryInv, BarrierInv, RequestPathInv, SimulatorInv,
     TypeOK
<1>2. e.time \in SimTime
  BY <1>1, Referents DEF Event
<1>3. PICK before, h, after : /\ before = local_cache[n] /\ h = history[n]
                              /\ after = local_cache'[n]
  OBVIOUS
<1>4. CacheFits(before, config.capacity_bytes)
  BY <1>3 DEF CapacityInv, CacheOK
<1>5. ASSUME DOMAIN after.entries = DOMAIN before.entries
      PROVE  ScoresRise(h, before.entries, after.entries)
  BY <1>5 DEF ScoresRise
<1>6. CASE handle_return_response(e)
  <2>1. PICK m, r : m = e.target_id /\ r = request_table[e.request_id]
    OBVIOUS
  <2>2. local_cache' = [local_cache EXCEPT ![m] = admit(@, history[m], r, e.time)]
    BY <1>6, <2>1 DEF handle_return_response
  <2>3. CASE n # m
    <3>1. local_cache'[n] = local_cache[n]
      BY <1>1, <2>2, <2>3
    <3> QED BY <1>3, <1>5, <3>1
  <2>4. CASE n = m
    <3>1. after = admit(before, h, r, e.time)
      BY <1>1, <1>3, <2>2, <2>4
    <3>2. r.object_id \notin DOMAIN before.entries
      BY <1>3, <1>6, <2>1, <2>4, AnswersAreNew
    <3>3. r \in Request /\ e.request_id \in Issued /\ e.type = "ReturnResponse"
      BY <1>1, <1>6, <2>1, DispatchFacts DEF handle_return_response, Dispatch
    <3>4. compute_nodes[n].current_epoch \in Nat
      <4>1. e.request_id \in Unfinished /\ SourceOf(e.request_id) = m
        BY <1>1, <2>1, <3>3, HeldByAlone
           DEF RequestPathInv, HeldAtMostOnce, PathEvents, PathTypes, ComputeEventTypes
      <4>2. compute_nodes[n].current_epoch = r.epoch_id
        BY <1>1, <2>1, <2>4, <4>1 DEF BarrierInv, OpenInEpoch, EpochOf
      <4> QED BY <3>3, <4>2 DEF Request
    <3>5. WorthsOK(before.entries, Worths(h, before.entries))
      BY <1>1, <1>3, <1>4, <3>4, WorthsComparable DEF CacheFits
    <3>6. config.capacity_bytes \in Nat
      BY <1>1 DEF AcceptedConfig, SimulationConfig, SimTime
    <3>7. Replaced(before.entries, after.entries, Worths(h, before.entries),
                   Worth(h, r.object_id, r.size_bytes), r)
      BY <1>2, <1>4, <3>1, <3>3, <3>5, <3>6, AdmitFits
    <3>8. required_margin \in Int
      BY <1>1 DEF required_margin, knobs, AcceptedConfig, SimulationConfig,
         ContentionPolicyConfig
    <3>9. ScoresRise(h, before.entries, after.entries)
      BY <3>2, <3>5, <3>7, <3>8, ReplacedByBetter
    <3> QED BY <1>3, <3>9
  <2> QED BY <1>3, <2>3, <2>4
<1>7. CASE ~handle_return_response(e)
  <2>1. CacheEffect(e)
    BY <1>1, StepHasCacheEffect DEF PlacementInv
  <2>2. e.type # "ReturnResponse" \/ UNCHANGED local_cache
    BY <1>7 DEF MemoryStep, ComputeStep, handle_forward_to_memory,
       handle_memory_service_start, handle_memory_service_complete,
       handle_generate_request, handle_local_cache_lookup, handle_local_cache_hit_complete,
       handle_request_complete, Dispatch
  <2>3. \/ after = before
        \/ \E o : after = lookup(before, o, e.time)
    <3>1. \/ UNCHANGED local_cache
          \/ \E m, o : local_cache' = [local_cache EXCEPT ![m] = lookup(@, o, e.time)]
      BY <2>1, <2>2 DEF CacheEffect
    <3> QED BY <1>1, <1>3, <3>1
  <2>4. DOMAIN after.entries = DOMAIN before.entries
    BY <1>2, <1>4, <2>3, LookupKeepsFit
  <2> QED BY <1>3, <1>5, <2>4
<1> QED BY <1>3, <1>6, <1>7

\* A replacement improves the cache by the measure of the policy, however many
\* victims it takes, where a node has one request at a time: then no answer is for
\* an object that is resident already, whose own entry could be among its victims
\* (select_victim, admit).
THEOREM ReplacementsImprove == Spec /\ []OneAtATime => ReplacementsRaiseScores
<1> DEFINE Raised == contention_aware =>
             \A n \in Nodes : ScoresRise(history[n], local_cache[n].entries,
                                         local_cache'[n].entries)
<1>1. CapacityInv /\ PlacementInv /\ OneAtATime /\ [Next]_vars => [Raised]_vars
  <2> SUFFICES ASSUME CapacityInv, PlacementInv, OneAtATime, Next PROVE Raised
    BY DEF vars
  <2>1. ASSUME UNCHANGED local_cache PROVE Raised
    BY <2>1 DEF ScoresRise
  <2>2. ASSUME NEW e \in sched.events, MemoryStep(e) \/ ComputeStep(e) PROVE Raised
    BY <2>2, HandlerRaisesScores
  <2> QED BY <2>1, <2>2 DEF Next, Run, Finished, vars
<1>2. Spec => [](CapacityInv /\ PlacementInv)
  BY CapacityInit, CapacityNext, PlacementInit, PlacementNext, PTL DEF Spec
<1>3. Spec /\ []OneAtATime => [][Raised]_vars
  BY <1>1, <1>2, PTL DEF Spec
<1>4. [][Raised]_vars => ReplacementsRaiseScores
  BY DEF ReplacementsRaiseScores, ScoresRise
<1> QED BY <1>3, <1>4
=============================================================================
