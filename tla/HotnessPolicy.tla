---------------------------- MODULE HotnessPolicy ---------------------------
(***************************************************************************)
(* The hotness-only policy (cache/hotness_policy.cpp): access counts of a  *)
(* node, over its current epoch, over a window of epochs, or over all of   *)
(* the run.                                                                *)
(***************************************************************************)
EXTENDS SimTypes, FiniteSetsExt

\* access_counts_ and epoch_access_counts_, the latter by <<epoch, object>>.
NewHotness == [access_counts |-> <<>>, epoch_access_counts |-> <<>>]

count_for(h, o) == FindOr(h.access_counts, o, 0)

\* ++counts[key].
Increment(counts, key) == Assign(counts, key, FindOr(counts, key, 0) + 1)

\* HotnessOnlyPolicy::on_lookup, for hits and misses alike.
hotness_on_lookup(h, r) ==
  [access_counts |-> Increment(h.access_counts, r.object_id),
   epoch_access_counts |->
     IF config.history_mode = "windowed"
     THEN Increment(h.epoch_access_counts, <<r.epoch_id, r.object_id>>)
     ELSE h.epoch_access_counts]

\* subtract_epoch_counts for each of the old <<epoch, object>> keys: their counts
\* leave the totals, and an object whose total is used up leaves them too.
SubtractCounts(totals, by_epoch, old) ==
  LET leaving(o) == MapThenSumSet(LAMBDA k : by_epoch[k], {k \in old : k[2] = o})
      kept == {o \in DOMAIN totals : leaving(o) = 0 \/ totals[o] > leaving(o)}
  IN [o \in kept |-> totals[o] - leaving(o)]

DropKeys(f, keys) == [k \in DOMAIN f \ keys |-> f[k]]

\* Mutant: one epoch too many is kept.
ExpiredLate(past, epoch) == Plus(past, config.history_window_epochs) < epoch

\* The past epoch fell out of the window that ends with epoch.
Expired(past, epoch) == Plus(past, config.history_window_epochs) <= epoch

\* HotnessOnlyPolicy::prune_window.
prune_window(h, epoch) ==
  LET old == {k \in DOMAIN h.epoch_access_counts : Expired(k[1], epoch)}
  IN [access_counts |-> SubtractCounts(h.access_counts, h.epoch_access_counts, old),
      epoch_access_counts |-> DropKeys(h.epoch_access_counts, old)]

\* HotnessOnlyPolicy::on_epoch_start.
hotness_on_epoch_start(h, epoch) ==
  CASE config.history_mode = "epoch" -> NewHotness
    [] config.history_mode = "windowed" -> prune_window(h, epoch)
    [] config.history_mode = "cumulative" -> h
=============================================================================
