----------------------------- MODULE LocalCache -----------------------------
(***************************************************************************)
(* The private cache of a compute node (cache/local_cache.cpp): resident   *)
(* entries, the occupancy counter, and the lifecycle rows that the reports *)
(* read.  Operations map a cache record to the one they leave behind.      *)
(***************************************************************************)
EXTENDS CachePolicy, SequencesExt

VARIABLE local_cache   \* local_cache[n] : the cache of node n

CacheEntry == [size_bytes : SimTime, last_access_time : SimTime]

EmptyCache ==
  [entries |-> <<>>, occupancy_bytes |-> 0, hit_count |-> 0, miss_count |-> 0,
   bytes_admitted |-> 0, bytes_evicted |-> 0, admission_records |-> <<>>,
   active_placement_by_object |-> <<>>]

contains(c, o) == o \in DOMAIN c.entries

NewRecord(epoch, request, object, time, size, admitted, reason, victims) ==
  [epoch_id |-> epoch, request_id |-> request, object_id |-> object,
   time |-> time, size_bytes |-> size, admitted |-> admitted, reason |-> reason,
   evicted_objects |-> victims, future_hit_count |-> 0,
   evicted |-> FALSE, eviction_time |-> 0]

\* record_hit: credit the row that installed the object.
record_hit(c, o) ==
  IF o \notin DOMAIN c.active_placement_by_object THEN c
  ELSE [c EXCEPT !.admission_records[c.active_placement_by_object[o]]
                   .future_hit_count = @ + 1]

\* LocalCache::lookup.
lookup(c, o, access_time) ==
  IF ~contains(c, o)
  THEN [c EXCEPT !.miss_count = @ + 1]
  ELSE record_hit([c EXCEPT !.hit_count = @ + 1,
                            !.entries[o].last_access_time = access_time], o)

\* Mutant: the row is appended and not made active.
RecordInactivePlacement(c, row) ==
  [c EXCEPT !.admission_records = Append(@, row)]

\* record_successful_placement, record_successful_replica: append the row and
\* make it the active placement of its object.
RecordPlacement(c, row) ==
  [c EXCEPT !.admission_records = Append(@, row),
            !.active_placement_by_object =
              Assign(@, row.object_id, Len(c.admission_records) + 1)]

\* evict of each victim, and clear_entries: the rows are closed and kept.
EvictAll(c, victims, remaining_bytes, time) ==
  LET active == c.active_placement_by_object
      closed == {active[v] : v \in victims \cap DOMAIN active}
  IN [c EXCEPT
        !.entries = [o \in DOMAIN c.entries \ victims |-> c.entries[o]],
        !.occupancy_bytes = remaining_bytes,
        !.bytes_evicted =
          @ + MapThenSumSet(LAMBDA v : c.entries[v].size_bytes, victims),
        !.active_placement_by_object =
          [o \in DOMAIN active \ victims |-> active[o]],
        !.admission_records =
          [i \in DOMAIN @ |-> IF i \in closed
                              THEN [@[i] EXCEPT !.evicted = TRUE,
                                                !.eviction_time = time]
                              ELSE @[i]]]

\* The new entry's bytes are added whether or not the object is resident.
Insert(c, o, size, time) ==
  [c EXCEPT !.occupancy_bytes = @ + size, !.bytes_admitted = @ + size,
            !.entries = Assign(@, o, [size_bytes |-> size,
                                      last_access_time |-> time])]

\* Mutant: the projection starts from an empty cache.
PlanFromEmpty(c, worths, incoming, size) ==
  [candidates |-> DOMAIN c.entries, projected |-> 0]

\* The while loop of admit, run on a copy of the cache: victims leave one by
\* one until the object fits or the policy names none.
PlanVictims(c, worths, incoming, size) ==
  LET rounds == Cardinality(DOMAIN c.entries)
      plan[k \in 0 .. rounds] ==
        IF k = 0
        THEN [candidates |-> DOMAIN c.entries, projected |-> c.occupancy_bytes]
        ELSE LET p == plan[k - 1]
                 victim == select_victim(worths, c.entries, p.candidates, incoming)
             IN IF \/ p.projected + size <= config.capacity_bytes
                   \/ victim = NoVictim
                THEN p
                ELSE [candidates |-> p.candidates \ {victim},
                      projected |-> p.projected - c.entries[victim].size_bytes]
  IN plan[rounds]

\* The outcome of an admission: refused, with the reason, or carried out.
Decide(c, r, time, decision, plan) ==
  LET victims == DOMAIN c.entries \ plan.candidates
      Row(admitted, reason, evicted) ==
        NewRecord(r.epoch_id, r.request_id, r.object_id, time, r.size_bytes,
                  admitted, reason, evicted)
      Reject(reason, evicted) ==
        [c EXCEPT !.admission_records = Append(@, Row(FALSE, reason, evicted))]
  IN IF decision # "admitted" THEN Reject(decision, {})
     ELSE IF r.size_bytes > config.capacity_bytes
          THEN Reject("object_too_large", {})
     ELSE IF plan.projected + r.size_bytes > config.capacity_bytes
          THEN Reject("no_victim", victims)
     ELSE RecordPlacement(
            Insert(EvictAll(c, victims, plan.projected, time),
                   r.object_id, r.size_bytes, time),
            Row(TRUE, "admitted", victims))

\* LocalCache::admit.
admit(c, h, r, time) ==
  Decide(c, r, time, admission_decision(h, r),
         PlanVictims(c, Worths(h, c.entries),
                     Worth(h, r.object_id, r.size_bytes), r.size_bytes))

\* The next replica of the plan.
NextReplica(epoch, left) ==
  CHOOSE o \in left : \A other \in left \ {o} : PlannedBefore(epoch, o, other)

\* The body of the loop of install_replicas.
InstallReplica(c, epoch, o, time) ==
  LET size == ReplicaSize(epoch, o)
  IN RecordPlacement(Insert(c, o, size, time),
                     NewRecord(epoch, kInvalidRequestId, o, time, size,
                               TRUE, "replica_installed", {}))

\* LocalCache::install_replicas: the cache is emptied, then filled in plan
\* order; an object larger than the cache is skipped, and the first one that
\* does not fit ends the installation.
install_replicas(c, epoch, time) ==
  LET fitting == {o \in PlannedObjects(epoch) :
                    ReplicaSize(epoch, o) <= config.capacity_bytes}
      fill[k \in 0 .. Cardinality(fitting)] ==
        IF k = 0
        THEN [left |-> fitting, cache |-> EvictAll(c, DOMAIN c.entries, 0, time)]
        ELSE LET p == fill[k - 1]
                 o == NextReplica(epoch, p.left)
             IN IF \/ p.left = {}
                   \/ p.cache.occupancy_bytes + ReplicaSize(epoch, o)
                        > config.capacity_bytes
                THEN p
                ELSE [left |-> p.left \ {o},
                      cache |-> InstallReplica(p.cache, epoch, o, time)]
  IN fill[Cardinality(fitting)].cache
=============================================================================
