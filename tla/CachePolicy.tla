---------------------------- MODULE CachePolicy -----------------------------
(***************************************************************************)
(* The replacement policies behind one interface (cache/cache_policy.hpp,  *)
(* cache/lru_policy.cpp), and the oracle replica plan                      *)
(* (build_global_replica_plan in sim/simulator.cpp).  A policy decides;    *)
(* LocalCache acts.                                                        *)
(***************************************************************************)
EXTENDS ContentionPolicy

VARIABLE
  history   \* history[n] : what the policy object of node n remembers

NoVictim == -1    \* an empty std::optional<ObjectId>

\* make_cache_policy: only two of the policies keep state.
NewHistory ==
  IF config.policy_type = "contention_aware" THEN NewContention ELSE NewHotness

on_lookup(h, st, r) ==
  CASE config.policy_type = "hotness_only" -> hotness_on_lookup(h, r)
    [] config.policy_type = "contention_aware" -> contention_on_lookup(h, st, r)
    [] OTHER -> h

on_epoch_start(h, st, epoch) ==
  CASE config.policy_type = "hotness_only" -> hotness_on_epoch_start(h, epoch)
    [] config.policy_type = "contention_aware"
         -> contention_on_epoch_start(h, st, epoch)
    [] OTHER -> h

\* should_admit of the policies that give no reason of their own.
should_admit(h, o) ==
  \/ config.policy_type = "lru"
  \/ config.policy_type = "hotness_only" /\ count_for(h, o) >= config.min_admit_count

\* admission_decision: the reason, "admitted" if the policy admits.
admission_decision(h, r) ==
  CASE config.policy_type = "contention_aware" -> contention_admission_decision(h, r)
    [] OTHER -> IF should_admit(h, r.object_id) THEN "admitted" ELSE "policy_rejected"

on_admission_result(h, r, admitted, reason, victims) ==
  IF config.policy_type = "contention_aware"
  THEN contention_on_admission_result(h, r, admitted, reason, victims)
  ELSE h

\* LruPolicy::select_victim: the order of last access, ties by object id.
Older(entries, a, b) ==
  \/ entries[a].last_access_time < entries[b].last_access_time
  \/ entries[a].last_access_time = entries[b].last_access_time /\ a < b

\* What a policy holds against giving an object up: its access count, its
\* score, or nothing.
Worth(h, o, size) ==
  CASE config.policy_type = "hotness_only" -> count_for(h, o)
    [] config.policy_type = "contention_aware" -> score_object(h, o, size)
    [] OTHER -> 0

\* The worth of every resident object.
Worths(h, entries) ==
  [o \in DOMAIN entries |-> Worth(h, o, entries[o].size_bytes)]

Colder(worths, entries, a, b) ==
  \/ worths[a] < worths[b]
  \/ worths[a] = worths[b] /\ Older(entries, a, b)

\* Mutant: the policy gives up its best entry.
HottestOf(worths, entries, candidates) ==
  CHOOSE a \in candidates :
    \A b \in candidates \ {a} : Colder(worths, entries, b, a)

ColdestOf(worths, entries, candidates) ==
  CHOOSE a \in candidates :
    \A b \in candidates \ {a} : Colder(worths, entries, a, b)

\* Whether an object of this worth may take the place of the weakest one.
Outweighs(incoming, weakest) ==
  CASE config.policy_type = "lru" -> TRUE
    [] config.policy_type = "hotness_only" -> incoming > weakest
    [] config.policy_type = "contention_aware"
         -> incoming > weakest + required_margin
    [] OTHER -> FALSE

\* select_victim among the candidates: the coldest one, unless the policy never
\* evicts, or the incoming object does not outweigh it.
select_victim(worths, entries, candidates, incoming) ==
  IF candidates = {} THEN NoVictim
  ELSE LET coldest == ColdestOf(worths, entries, candidates)
       IN IF Outweighs(incoming, worths[coldest]) THEN coldest ELSE NoVictim

(***************************************************************************)
(* build_global_replica_plan: every object requested in the epoch, with    *)
(* its demand over all nodes and its largest requested size, hottest       *)
(* first, ties by id.                                                      *)
(***************************************************************************)
Demand(epoch, o) ==
  {d \in UNION {{n} \X DOMAIN config.compute_nodes[n] : n \in Nodes} :
     /\ config.compute_nodes[d[1]][d[2]].epoch_id = epoch
     /\ config.compute_nodes[d[1]][d[2]].object_id = o}

PlannedObjects(epoch) ==
  {s.object_id : s \in
     {s \in UNION {{config.compute_nodes[n][i] : i \in DOMAIN config.compute_nodes[n]}
                     : n \in Nodes} : s.epoch_id = epoch}}

ReplicaSize(epoch, o) ==
  Max({config.compute_nodes[d[1]][d[2]].size_bytes : d \in Demand(epoch, o)})

\* Mutant: the coldest first.
PlannedColdestFirst(epoch, a, b) ==
  LET count(o) == Cardinality(Demand(epoch, o))
  IN count(a) < count(b) \/ (count(a) = count(b) /\ a < b)

PlannedBefore(epoch, a, b) ==
  LET count(o) == Cardinality(Demand(epoch, o))
  IN count(a) > count(b) \/ (count(a) = count(b) /\ a < b)
=============================================================================
