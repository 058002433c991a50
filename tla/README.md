# Formal model of dm_simulator

dm_simulator is a discrete-event simulator of compute nodes with private caches
in front of one disaggregated memory node, with scripts that expand, run and
analyse matrices of experiments. This directory holds TLA+ modules that model
the simulator's request path, event scheduler, memory channels, epoch barrier,
caches and policies, and the scripts from the command line to the report; TLC
configurations that check them on small instances; and TLAPS proofs that hold
for every instance. Paths below are relative to the repository root (`src/` is
the C++ source directory, `scripts/` holds the Python scripts).

## 1. Inventory of the system

| Component | Source | State | Operations |
|---|---|---|---|
| Event scheduler | `src/sim/scheduler.*`, `event.*` | clock, event queue ordered by (time, sequence), next sequence number | `schedule` (refuses the past), `pop_next`, `run_until_empty` |
| Run loop and epoch barrier | `src/sim/simulator.*` | event log, released epoch, the components | `run`, `dispatch_event`, `release_next_epoch_if_ready`, `validate_config` |
| Compute node | `src/nodes/compute_node.*` | workload cursor, current epoch and its start, outstanding count, request table, responses | one handler per compute event: generate, lookup, hit complete, return response, request complete |
| Memory node | `src/nodes/memory_node.*` | per channel: FIFO queue, `service_in_progress`, `service_start_scheduled` | arrival, service start, service complete |
| Local cache | `src/cache/local_cache.*` | entries, occupancy, admission rows, active placement per object | `lookup`, `admit`, `evict`, `install_replicas` |
| Policies | `src/cache/*_policy.*` | access histories per node | `on_lookup`, `on_epoch_start`, `should_admit`, `select_victim`, `on_admission_result` |
| Statistics | `src/metrics/stats.*` | latencies, waits, (epoch, object) and (epoch, channel) rows | record operations, report getters |
| Histogram | `src/metrics/histogram.*` | none | percentile of recorded samples |
| Workload generator | `src/workloads/generators.*` | hot sets, random state | streams of request specifications with arrival offsets |
| Configuration loader | `src/sim/config_loader.*` | none | read a YAML document with yaml-cpp, check types and ranges |
| Experiment runner | `src/experiments/runner.*` | none | run, derive viability metrics, write CSV |
| Transport, shared cache | `src/transport/*`, `src/cache/shared_cache.*` | none | none (placeholders) |
| Matrix planning | `scripts/run_matrix.py` | presets and tables of levels; the command line; the list of runs | parse options, take the product of the dimensions, drop pointless combinations, check feasibility, name runs, write YAML, verify a dry run |
| Run summaries | `scripts/run_matrix.py` | the files of one simulation | the metric columns of an aggregate row, with a fallback for files of older simulators |
| Matrix runner | `scripts/run_matrix.py` | rows in memory; configurations, output directories and `aggregate_summary.csv` on disk, which outlive an invocation | the loop over the runs with `--dry-run` and `--keep-going`, a simulator subprocess per run, the aggregate at the end |
| Experiment batch | `scripts/run_experiments.py` | a results directory, which outlives an invocation and may have been used before | the simulator on every configuration of the command line until one fails |
| Comparison and tables | `scripts/plot_results.py` | aggregate rows, baselines, comparison rows | read, match baselines, deltas, classification, summaries, best runs |
| Figures | `scripts/plot_results.py` | swept dimensions, report mode | choose a bundle of figures, select and average the rows of each panel |
| Observations and report | `scripts/plot_results.py` | an output directory | word the observations, write tables, figures and the report |
| Build script | `scripts/configure_build_test.sh` | - | cmake and ctest in order |

**How they interact.** Everything runs on one thread. `Simulator::run` pops the
least event, `dispatch_event` hands it to its target node, and after each event
the barrier is tested. Handlers talk to each other only by scheduling events
(the callers ignore the Boolean that `schedule` returns) and through three shared
tables: the request table, the responses and the statistics. Policies of the
contention-aware kind read the statistics of earlier epochs at an epoch start;
the oracle policy reads the whole configured workload.

The scripts are processes that share files only. `run_matrix.py` writes a YAML
configuration per run, starts the simulator on it, waits, and reads
`summary.json` and the CSV files from the run's output directory; at the end it
writes all rows to `aggregate_summary.csv`. `plot_results.py` reads one or
several such files, and for some observations the runs' `contention_by_object.csv`.
Nothing is deleted: an invocation finds whatever earlier ones left in the same
directories.

**What is hard.** Concurrency is simulated, so the interleavings to worry about
are those of *events at equal times*: an arrival at a channel at the instant its
service completes, two nodes finishing an epoch together, zero latencies that put
a whole request path at one time. Beyond that: the two channel flags against the
events they stand for; the outstanding counter the barrier rests on; a response
applied to a cache that changed since the lookup; unsigned time that wraps; a
refused `schedule` nobody looks at; histories that must lose with an old epoch
exactly what came in with it.

The scripts are sequential; what is hard about them is what they take over from
elsewhere: a results directory used before, with complete, partial or older
files; a failure or an interrupt at any point; a feasibility check written once in
Python and once in C++; names that must tell runs apart; a baseline found by a
list of columns that is kept apart from the list of dimensions; values of zero
where the code tests for truth.

**What makes each part correct.** Scheduler: dispatch in time order, ties broken,
nothing in the past. Request path: every request walks the hit path or the miss
path once. Memory node: flags and events agree, FIFO service, no `logic_error`.
Barrier: an epoch drains before the next, telemetry of past epochs is final, the
run ends and ends only when all work is done. Cache: occupancy, entries, rows and
evictions agree, capacity holds. Policies: counts are what the history mode says;
the oracle holds the hottest objects. Planning: the policies of a matrix are
compared on equal terms, names identify runs, what is planned can be run. Runner:
a row describes a simulation of its own configuration by this invocation, and the
aggregate is complete up to a failure. Analysis: every run is compared with the
right baseline, an average mixes nothing but seeds, tables add up, a report is never
ahead of its files. `PROJECT.json` lists the hazards with their
lines and the property that covers each.

## 2. Modules

| Module | Models |
|---|---|
| `SimTypes` | identifiers, `SimTime` arithmetic modulo its width, requests, responses, configuration and `validate_config` |
| `Scheduler` | `Scheduler` as a record; `schedule` and `pop_next` map a scheduler to the one they leave, so a handler composes them |
| `EventLoop` | the run loop around every handler and `release_next_epoch_if_ready` |
| `Stats` | every recording operation |
| `HotnessPolicy` | access counts with three history modes |
| `ContentionPolicy` | the contention-aware policy: telemetry of earlier epochs, scores, confirmation, hysteresis, decision records |
| `CachePolicy` | the policy interface: which policy answers, LRU order, victim choice, the oracle's replica plan |
| `LocalCache` | `lookup`, `admit` with every refusal, `install_replicas`, lifecycle rows |
| `MemoryNode` | three event handlers, channels, service time, the `logic_error`s |
| `ComputeNode` | five event handlers, epoch start, bursty arrivals |
| `Simulator` | the composition: `Init`, `Next`, the properties, the refinement mapping |
| `Viability` | what the experiment runner counts of a finished simulation: placements, credited hits, eviction regret |
| `EpochService` | abstract specification: requests issued and completed once, epoch by epoch |
| `MemoryChannels` | the static object-to-channel map |
| `HotSets` | the generator's hot sets: shared and private segments, churn, full shift, hot channels, the validation; one step per generated epoch |
| `Histogram` | percentiles over recorded samples, as operators |
| `Workload` | arrival offsets and burst validation of generated workloads |
| `MatrixPresets` | the tables of `run_matrix.py`: policies, levels, weight profiles, every preset |
| `MatrixPlan` | options and their parsers, the product of the dimensions and its filter, feasibility checks, run names |
| `MatrixConfig` | the YAML of a run as a record, `base_row`, `verify_dry_run` |
| `MatrixPlanning` | the first half of `main`, one action per phase, beside the generator's own checks |
| `MatrixSummary` | the files of a simulation and the metric columns read from them |
| `BatchJob` | abstract specification: results in order, one each, up to a failure |
| `MatrixRunner` | the second half of `main`, invoked again and again on one directory |
| `ExperimentBatch` | `run_experiments.py`, invoked again and again on one directory |
| `Comparison`, `Figures`, `Observations` | the tables, figures and observations of `plot_results.py`, as operators |
| `Report` | `main` of `plot_results.py`, invoked again and again on one directory |
| `MatrixReports` | the two scripts joined: reports on the aggregates `run_matrix.py` writes |
| `MCSimulator`, `MCHotSets`, `MCMatrix`, `MCSummary`, `MCRunner`, `MCReport` | instances for TLC |
| `SimulatorProofs`, `BarrierProofs`, `CacheProofs` | theorems about the simulator: types, queue and request path; epochs and time; policies and caches |
| `HotSetProofs`, `MatrixRunnerProofs`, `BatchProofs`, `ReportProofs` | theorems about the generator and the scripts |
| `DataProofs` | lemmas about finite sets, sums, selections and sequences that these proofs share |

Each handler of the simulator is one action. An action is a whole iteration of the
run loop: pop, log, the handler with every call it makes, and the release check
that follows it (`Return`). A thrown `logic_error` sets `status` to its name and
leaves no further step, so TLC reports it as a deadlock. Deadlock is checked in
every run of the simulator, where `run()` returning is the stuttering action
`Finished`. Generator and scripts simply end, and their runs say
`CHECK_DEADLOCK FALSE`.

In the script modules an action is a stretch of `main` up to the next point where
something outside decides: the simulator's outcome, a failure, an interrupt. What
`main` calls in between is pure and modelled as operators named like the
functions.

Choices of abstraction:

* `unordered_map`s are functions on their keys; node state is a function on
  `1 .. NodeCount` in configuration order. Node ids are unique and differ from
  the memory node's, as `validate_config` requires.
* Unsigned 64-bit time and sizes are numbers below `SimTimeRange`, added modulo it
  where the code adds unsigned values.
* Counters that the code keeps globally and per node are kept once, per node. The
  occupancy and byte totals of a cache are natural numbers: a cache of 2^63 bytes
  or more, whose occupancy sum could wrap, is outside the model.
* The simulator is deterministic. What a run explores is the *configuration*:
  `Init` picks any member of `Configs`, and random draws of the generator
  (objects, jitter) are free choices in it.
* The doubles of the contention-aware policy are fixed-point numbers in units of
  1/2520, rounded down. A comparison of two scores closer than that can come out
  otherwise than in the code; no property depends on which way it does.
* In `HotSets` churn fractions are quarters, which doubles hold exactly; percentiles
  are whole numbers and results hundredths. The shuffle of the objects is any
  permutation.
* The `evicted_objects` vector of a row is a set: its order is never read.
* A float of a script is an integer number of ten-millionths. `:g` formatting keeps
  six significant digits of it (`ShortFloat`), in names and in the YAML alike. The
  ceilings of the capacity checks are exact.
* A run name is the sequence of its parts, and two names are equal exactly when all
  parts are; the digest that completes a name cut at 180 characters is taken to tell
  names apart.
* One column stands for all that are copied or averaged in the same way. Averages
  and deltas are rationals; tables keep the columns the report ranks by.
* A file is its content, the invocation that wrote it, or torn; drawing, wording,
  number formats and the order of table rows are left out.

## 3. Runs

| Run | Instance | Checks |
|---|---|---|
| `core` | two nodes, all choices of three requests over two epochs, sparse epochs and an idle node; latencies 1 and 0; one and two channels; completion-driven and bursts | types, event order, queue soundness, every request in exactly one place and answered once, outstanding count, channel flags, FIFO, time accounting, frozen telemetry, termination, refinement of `EpochService` |
| `caches` | one node with a cache of 3 bytes, objects of 1, 2, 2 bytes and every sequence of six requests; generated workloads under every policy, bursts included, one cache too narrow for two objects; the five contention-aware variants over three epochs | capacity, placement rows follow residents and evictions, hotness histories, oracle contents, viability metrics count what the log shows, nodes score by the same frozen telemetry, demand counts are remembered lookups, replacements raise scores by the margin |
| `hot_sets` | one to three nodes, hot sets of one to three among three or six objects, or on one or two of four channels among eight; every overlap, four churn fractions, four epochs, every shuffle | hot sets keep size, overlap and channels, churn brings objects that were hot nowhere, no accepted configuration throws half way |
| `plans` | every preset; every option with good and bad items; object universes at the limit of the capacity check, for one to three nodes | policies meet the same conditions, names identify runs, the Python check is the generator's, configurations differ in nothing but the policy and pass the script's verification |
| `summaries` | every sequence of up to five of four latencies; small contention tables; files of today's simulator and of an older one | percentiles are quantiles and rise without jumps; the fallback gives the same columns, zeros included |
| `runner` | two invocations in one results directory: matrices of two runs, a policy given twice, an empty matrix; dry or real, with and without `--keep-going`; failures and interrupts anywhere | metrics are of this invocation, the aggregate is published whole and describes what is on disk, refinement of `BatchJob`, every invocation ends |
| `batch` | two invocations in one results directory, each with up to three configurations of three stems in two folders; failures and interrupts anywhere | what succeeded has its complete results, what this invocation wrote is of a configuration it got to and complete only if that succeeded, and after a batch that ends well no folder of its command line is a left-over |
| `reports` | aggregates planned by the model of `run_matrix.py` for every preset, in the mode of the preset; all small tables with missing, zero and equal latencies, failed runs, a baseline twice; any two of a set of analyses in one directory, refused ones included, interrupted anywhere | every run has its own baseline, focused figures average only seeds, best runs, tables add up, the report comes last |
| `duplicate`, `overflow`, `served`, `no_staleness` | see *Findings* | expected violations |

**Bounds and why they are enough.** Two nodes are what a barrier and a shared
channel need to be contended; a third adds only more of the same pairs. Two
channels over three objects give a shared channel and a private one. A cache of 3
bytes with objects of 1, 2 and 2 bytes makes hits, a free admission, one eviction,
two evictions and every refusal happen; six requests reach an eviction, the
return of the victim and a second eviction. `SimTimeRange` is 1000 where no sum
reaches it (no run comes near) and 64 in `overflow`, where wrapping is the
point. The telemetry history is two epochs with a decay of 1/2 and
the confirmation window one or two epochs, so that over three epochs a snapshot
blends two of them and a confirmation expires; thresholds of 2 and the margins
are such that every refusal, a bypass and evictions of several victims occur.
`history_window_epochs` is 1 with two epochs, so that one epoch expires, and 2 or 3 over
epochs 0, 1, 3 and 4, so that at times one epoch expires while another is kept, at
times two expire at once, and a skipped epoch is in between.

`MaxInvocations` is 2, for both scripts that run the simulator: all an invocation can find is what one earlier invocation
left, complete or partial. Two runs per matrix give a failure with a run before it
or after it. `MaxConfigs` is 3, one more than two equal stems need. Five latencies
put every percentile between two samples or on one. A table of five rows has two
conditions, two files, and a policy that meets one condition only. A session is one
or two analyses: a later one can only overwrite, and a third would overwrite the same.

Only finitely many requests are configured, so nothing is cut off by a state
constraint. No symmetry is used: object and node ids are ordered by the code.

**Fairness.** `FairSpec` (run `core`) adds `WF_vars(Next)` and nothing else:
`run()` is one thread in a loop that pops while the queue is not empty. It serves
`WorkloadCompletes` and the fairness conjunct of `EpochService!ServiceSpec`.
`FairRunnerSpec` (run `runner`) adds `WF_runnerVars(Script)`: the script is
sequential, waits for nobody but the simulator, and a simulation ends. Nothing
obliges anyone to invoke a script or to interrupt it. No other run assumes fairness.

**Mutants.** Every property of a passing run has a mutated definition
(`PROJECT.json`, `mutants`) that breaks it: a dropped guard, a counter that
stands still, a swapped order. They sit next to the definitions they mutate and
are marked `Mutant:`.

### Findings

* `duplicate`: `LocalCache::admit` does not ask whether the object is already
  resident (`src/cache/local_cache.cpp:104`). In a burst a node can have two
  requests for one object in flight; both are admitted, the bytes are counted
  twice and given back once. Completion-driven nodes cannot do this, which is why
  `PlacementRowsTrackResidents` speaks of those only.
* `overflow`: the offset of a burst is not checked for overflow
  (`src/workloads/generators.cpp:408`). A wrapped offset is an arrival in the
  past, `schedule` refuses it, the result is ignored, and `run()` returns with
  requests never issued.
* `served`: the script's capacity check takes the churn fraction in full, the
  generator the six digits that the YAML has (`scripts/run_matrix.py:1774`). A
  matrix passes the one and its run is refused by the other. Where the floats
  survive the YAML the checks agree (`CapacityCheckMirrorsGenerator`).
* `no_staleness`: `(value or 1.0) <= 0.4` takes a stale rate of zero for one
  (`scripts/plot_results.py:4173`), so the rows with the freshest telemetry are not
  counted among those with little stale telemetry.

Disagreements and surprises noted on the way, without a run of their own:

* In a burst an object that was admitted twice can push out its own copy, and the
  experiment runner counts hits of that instant as regret of the eviction
  (`src/experiments/runner.cpp:801`); the count of misses stays exact.
* A row rejected with `no_victim` lists planned victims that were never evicted
  (`src/cache/local_cache.cpp:80`, against the comment at lines 73-75).
* At churn 1.0 the layout moves on by one stride and wraps around; with few
  candidates objects stay hot (`src/workloads/generators.cpp:599`), where a partial
  churn of the same objects would be refused.
* Aggregate rows keep floats in full, the YAML of the same run six digits
  (`scripts/run_matrix.py:2094`).
* The largest channel wait of a row is the largest of an epoch, not of the run
  (`scripts/run_matrix.py:2232`).
* An option value given twice makes two runs of one name and one directory
  (`scripts/run_matrix.py:1339`). A dry run refuses them, a real one does not: hence
  `NamesDiffer` in `AggregateDescribesOutputs`.
* Configurations with the same stem share an output folder
  (`scripts/run_experiments.py:40`): of those that succeed, the last keeps its results.
* A results directory may have been used before (`scripts/run_experiments.py:37`) and
  nothing is deleted from it: after a failure, the folder of the failed configuration
  and those of the configurations not reached may hold complete results of an earlier
  batch. Hence `ResultsUpToTheFailure` says what a folder holds of the current
  invocation, and that there are no left-overs after a batch that ended well.
* A delta of zero ranks last among the improvements (`scripts/plot_results.py:4157`).
* Object concentration is per row, that is per epoch, not per object
  (`scripts/plot_results.py:1988`).
* Final presets mixed with other presets do not get the generic report
  (`scripts/plot_results.py:495`).
* The baseline can be chosen as a best run (`scripts/plot_results.py:1099`).
* Means in the final table include runs without a baseline
  (`scripts/plot_results.py:914`).

## 4. Proofs

Assumptions, all evaluated by TLC in the runs: `CountAssumption` (at least one
node), `RangeAssumption` (at least one time value) and `ConfigAssumption`
(configurations are well formed and accepted by `validate_config`) in `SimTypes`;
`JobsAssumption` in `MatrixRunner` (a job is a finite list of runs and two
switches); `WholeHotSetAssumption` in `HotSets` (churn is counted in parts of a whole);
`BatchAssumption` in `ExperimentBatch` (bounds on the command line and the invocations,
and no output is the mark of a missing one); `SessionsAssumption` in `Report` (an invocation names its
formats one after the other). Nothing bounds the number of nodes, requests, objects or
channels, the width of time, the number of epochs, of runs or of invocations.

| Theorem | Module | States |
|---|---|---|
| `TypeCorrect` | `SimulatorProofs` | `Spec => []TypeOK` |
| `LogOrdered` | | `Spec => []EventLogInTimeOrder` |
| `QueueSound` | | `Spec => []EventQueueIsSound` |
| `OutstandingIsExact` | | `Spec => []OutstandingCountsUnfinished` |
| `HandlersNeverThrow` | | `Spec => []NoErrorThrown`: none of the `logic_error`s is reachable |
| `NoRequestIsDuplicated` | | `Spec => [](HeldAtMostOnce /\ QueuedAtMostOnce /\ AnsweredWhenCompleted)` |
| `EpochsNeverOverlap` | `BarrierProofs` | `Spec => [](OpenInEpoch /\ TokensInEpoch)`: what is unfinished or pending is of the released epoch |
| `TelemetryIsFrozen` | | `Spec => PriorTelemetryIsFrozen` |
| `RequestsAreKept` | | `Spec /\ []Unwrapped => []RequestsAreInExactlyOnePlace` |
| `FlagsAreTrue` | | `Spec /\ []Unwrapped => []ChannelFlagsMatchEvents` |
| `RunEndsDone` | | `Spec /\ []Unwrapped => []StopsOnlyWhenDone` |
| `ImplementsServiceSteps` | | `Spec /\ []Unwrapped => Service!ServiceInit /\ [][Service!ServiceNext]_...` |
| `ServedInArrivalOrder` | | `Spec => []ChannelsServeInArrivalOrder` |
| `LatencyIsAttributed` | | `Spec /\ []TimesFit => []LatencyIsAccountedFor` |
| `SnapshotsAreShared` | `CacheProofs` | `Spec => []TelemetrySnapshotsAgree` |
| `DemandIsCounted` | | `Spec => []DemandIsRememberedLookups` |
| `HeatIsCounted` | | `Spec /\ []WindowsFit => []HeatIsRememberedLookups` |
| `PlacementsAreTold` | | `Spec => []PlacementRowsTrackResidents` |
| `CapacityIsKept` | | `Spec => []OccupancyWithinCapacity` |
| `OracleIsTrueToItsPlan` | | `Spec => []OracleHoldsTheHottest` |
| `ReplacementsImprove` | | `Spec /\ []OneAtATime => ReplacementsRaiseScores` |
| `ShapeIsKept` | `HotSetProofs` | `Spec => []HotSetsKeepTheirShape` |
| `ChurnIsFresh` | | `Spec => []ChurnBringsNewObjects` |
| `AcceptedIsGenerated` | | `Spec => []AcceptedWorkloadsAreGenerated` |
| `RunnerTypes` | `MatrixRunnerProofs` | `RunnerSpec => []RunnerTypeOK` |
| `RowsInOrder` | | `RunnerSpec => []RowsFollowRuns` |
| `FreshMetrics` | | `RunnerSpec => []MetricsAreFresh` |
| `PublishedAggregate` | | `RunnerSpec => []AggregateIsPublished` |
| `AggregateIsTrue` | | `RunnerSpec => []AggregateDescribesOutputs` |
| `RunnerImplementsBatchJob` | | `RunnerSpec => ImplementsBatchJob` |
| `ResultsAreTrue` | `BatchProofs` | `BatchSpec => []ResultsUpToTheFailure` |
| `ReportComesLast` | `ReportProofs` | `ReportSpec => []ReportIsWrittenLast` |

**The simulator** is proved in layers. Each is an inductive invariant that contains
the one below, so that a proof about requests need not repeat one about types:

    SimulatorInv    types, the order of the log, a sound queue
    RequestPathInv  + where a request may be, exact counts, no exception
    BarrierInv      + everything open is of the released epoch
    NothingLostInv  + what must be somewhere is (only while no time wraps)
    ServiceInv      + the cursors count the requests drawn

Beside this line stand

    ChannelOrderInv on RequestPathInv  the log of a channel, read as a queue
    TimingInv       on BarrierInv      the ledger of recorded times
    PlacementInv    on BarrierInv      rows of a cache, and misses under way
    TelemetryInv    on BarrierInv      snapshots
    HistoryInv      on TelemetryInv    what the policies remember
    CapacityInv     on HistoryInv      bytes and the oracle's plan

*Types and queue.* `SimulatorInv` is the conjunction of three properties, none of
them inductive alone. Types need the order: a latency or a wait is a difference of
times, and it is a `SimTime` only if issue and enqueue times are not later than the
clock. Order needs a sound queue: the clock moves to the popped event, which is the
least only if nothing pending is in the past and ties are broken by distinct sequence
numbers. And the queue needs types and order: a handler looks up the request its
event carries, so pending and queued ids must be issued ones. The first section of
`SimulatorProofs` shows that `schedule`, `pop_next` and the release loop keep a queue sound. The release loop
numbers its events by rank among the accepted nodes, and the lemma that ranks are
distinct and below the count comes from the cardinality theorems.

*The request path.* "In exactly one place" is the conjunction of *at most one* and
*at least one*, and the two have different reasons. At most one, `RequestPathInv`:
every handler consumes the event or queue place that holds a request before it makes
the next (`HeldAtMostOnce`, `QueuedAtMostOnce`). This needs the channel flags: a
pending service start is announced by `service_start_scheduled`, a pending completion
by `service_in_progress`, and each is the only one of its channel
(`StartsAreAnnounced`, `ServicesAreAnnounced`). Otherwise a channel could start a
second service, pop an empty queue or complete an idle channel, which are the
`logic_error`s. From the same invariant the outstanding count is the number of
unfinished requests and never decremented at zero. All of this holds without any
assumption on time: a refused event is a place fewer, never one more.

*The barrier.* `BarrierInv` adds that unfinished requests, and pending generation
events, are of the released epoch, which the release test guarantees through the
exact outstanding counts; that a node without bursts has at most one request or
generation event (`OneThingAtATime`), so that no next epoch can begin under an open
request; and what is empty before `run()` (`NothingBeforeRun`). That telemetry of
earlier epochs is frozen follows for each step: a handler books on the epoch of its
request, which is open and hence of the released epoch.

*Snapshots.* The contention-aware policy takes its snapshot when its node begins an
epoch. `TelemetryInv` says that no node is ahead of the released epoch (`NoNodeAhead`)
and that what each policy holds is what it would take now (`SnapshotsTaken`). The
second is kept by every step because a snapshot reads only epochs below the node's,
whose rows stand (`EarlierRowsStand`, the lemma behind `TelemetryIsFrozen`).

*Placements.* The property is about the rows of one cache, and most of the proof is
about the operations of a cache: a lookup, a refusal and an admission keep
`PlacementsTrue`, whatever the policy decides and whichever victims it names
(`LookupStaysTrue`, `RefuseStaysTrue`, `PlaceStaysTrue`). The strengthening is that
the active row of an object is a row *of that object* (`ActiveRowsAreOpen`); without
it an eviction could close the row of another. An admission keeps this only if the
object is not resident yet: a second admission of a resident object would leave its
first row open and forgotten. That is a fact about the whole simulator
(`MissesAreAbsent`): between the lookup that misses and the answer, nothing else can
bring the object into this cache, because a node without bursts has one request at a
time (`OneThingAtATime`). With bursts it is false, as the finding
`duplicate` shows, and the theorem says nothing of them.

*Arrival order.* The property is that the starts logged on a channel are a prefix of
the arrivals logged there. `ChannelOrderInv` says what the rest is: the arrivals are
the starts followed by the queue (`ArrivedIsStartedAndQueued`). An arrival appends to
both sides, a start moves the head of the queue to the end of the starts, and no other
handler logs either. Since the log is a filtered sequence, the proof needs what one
more entry does to a selection, which `DataProofs` supplies.

*Latency.* The property speaks of a drained run and is not inductive; the ledger
(`LedgerBalances`) holds in every state: what was recorded as latency, and the waits
of the requests that are being served or on their way back, make up the hits, two link
crossings and one service for each miss, and the waits recorded. Each entry follows
from when the event of a request is due (`EventsOnTime`, `QueuedOnTime`). The theorem
assumes `[]TimesFit`: a refused completion would leave a wait recorded and no latency.

*Counts.* A policy hears of lookups one by one and forgets epochs in bulk.
`PolicyRemembers` says of each table that it counts exactly the lookups since the first
epoch its history mode remembers, including for the rows of each epoch that a window
subtracts later. A lookup adds one to each; an epoch start moves the first epoch on
and takes off what the counts of the expired epochs say. For the hotness policy this
needs `WindowsFit`: a window holds at least one epoch, and an epoch plus the window
stays inside the epoch range, since the code tests expiry with that sum.

*Capacity and the oracle.* `CacheOK` joins the counter, the bytes really resident and,
under the oracle, the contents. A plan of victims is a loop over the residents that
ends when enough bytes are free or no victim is left; whatever the policy chooses, the
object fits after the plan is carried out or is refused. The oracle installs a loop
over its candidates, hottest first: after each round what is held is the best of what
was offered, as far as it fits (`FillOK`). That no event of the epoch changes the
contents is the rest of `OracleIsTrueToItsPlan`.

*Replacements.* An object makes way only if the score of the newcomer exceeds its own
by the margin; the score of a decision is that of the log because the snapshot and the
counts are (`HistoryInv`), and the object to admit is not resident by `PlacementInv`.
That last step is where `OneAtATime` is needed: in bursts an answer may bring an
object that an earlier one made resident already, and there the property stays with TLC.

*Nothing is lost.* At least one place needs that every `schedule` is accepted. The
code does not guarantee it: callers ignore a refusal, and the finding `overflow` shows
a run that ends early. These theorems therefore assume `[]Unwrapped`: the clock plus
any latency or service time stays inside the `SimTime` range, and so do the arrivals
of a burst (`TimesFit`, `ArrivalsInOrder`). It says nothing about requests, flags or
epochs; TLC confirmed that it holds in every state of the `core` and `caches`
instances. Under it
`NothingLostInv` has a completion pending for every busy channel
(`ServicesArePending`), keeps the next request of a node due as long as its epoch is open (`NextIsDue`), and shows
that a queue runs dry only when no epoch waits (`NothingToRelease`). The theorems on counts,
exceptions, duplicates, epochs and telemetry have no such hypothesis.

*The refinement.* `ImplementsServiceSteps` is the safety part of `EpochService`: the
initial state maps to the service's, a handler that issues a request maps to
`Issue`, one that completes a request to `CompleteOne`, a release to `OpenNextEpoch`,
and every other step to a stutter. A release happens in the step of the handler before
it, and the service could not follow two changes at once. But an issue leaves a lookup
pending and a completion leaves a `RequestComplete` event, so that neither can be the
step that releases.
`CursorsCountRequests` is needed to tell the service which place in a node's stream
a request id has.

TLC checked the line from `SimulatorInv` to `ServiceInv`, `TelemetryInv` and
`PlacementInv` on the `core` instance (37286 states) and, where policies matter, on
`caches` (373519 states) before they were proved.

**Data.** Induction over data is out of the provers' reach as a rule of the library:
its theorems take a predicate as parameter. `DataProofs` gets the facts that the other
modules need from a *set* instead: if no number is the least one outside a set of good
numbers, all are in it (`NoLeastCounterexample`, from the well-foundedness of `<` on
`Nat`). Each lemma states for a recursive function what one round does, and concludes
for the last: sums over finite sets, selections from sequences, loops that stop early,
minima of finite sets, flattened sequences.

**Hot sets.** `HotSetInv` holds the accepted configuration, the shuffle, that the
latest epoch is the current layout, and that every epoch has its shape and differs
from the one before as churn asks. The heart is drawing: the objects hot in an epoch
are fewer than the eligible ones by at least what one churn needs (from the
validation), so by the pigeonhole principle the cursor, which wraps around, meets an
unused object within one round (`next_unused_object`), and objects drawn one after the
other differ. The segments of the new layout are then disjoint because kept, drawn and
shared objects are.

**The batch script.** `BatchInv` says of every folder where its content comes from. A
success that no later configuration of the same stem ran over is in its folder
(`SuccessesAreKept`); what is of this invocation has a configuration that accounts for
it (`FreshIsExplained`); while nothing failed, no folder of a configuration so far is a
left-over (`NoLeftOvers`). What makes this inductive over invocations is
`NothingAhead`: no folder is of an invocation to come, so that a new invocation starts
with no fresh folder whatever the earlier ones left. Nothing is assumed about stems.

**The report.** `ReportInv` relates what is pending to what is on disk: for some `k`
the first `k` tables and figures were written by this analysis and the rest are pending,
in order, with the report last (`WritingOK`). Its other part is the claim of the report
itself, which a later analysis can only strengthen file by file: it overwrites with a
greater number or tears. That `pending` ends with the report and that it is none of the
files before it needs that every bundle of figures is a list (`PlotsAreList`) and that
each is saved under one of the formats accepted.

**The runner.** `RunnerInv` joins types, where `main` is in its list (`Progress`),
what is on disk while a run is simulated (`DuringRun`: its configuration, and after
a success its complete output), that an exception in flight is the last row's
(`Raising`), and the three properties. Metrics are fresh because a row is written
right after its simulation, which `DuringRun` ties to the configuration on disk; the
aggregate is whole because `Progress` counts the rows. That the output directories
still hold what the rows describe needs one invariant more (`OutputsKept`), which
carries the condition that names differ through later runs. The refinement of
`BatchJob` is the step simulation under `RunnerInv`: a summary appends one result,
everything else stutters, starts a job or ends it.

**Only model-checked.**

* Liveness (`WorkloadCompletes`, `EveryInvocationEnds`) and the fairness conjunct of
  `EpochService!ServiceSpec`: ENABLED is beyond the prover.
* `RequestsAreInExactlyOnePlace`, `ChannelFlagsMatchEvents`, `StopsOnlyWhenDone` where
  time wraps: the first two are not checked there and the third is false (`overflow`).
* `ReplacementsRaiseScores` in bursts, see above.
* `ViabilityCountsWhatHappened`: its counts of regret depend on the order of the
  evictions and lookups in the log, over pairs of entries.
* Planning (`MatchedComparison`, `NamesIdentifyRuns`, `CapacityCheckMirrorsGenerator`,
  `GeneratedConfigsVerify`, `PoliciesDifferOnlyInTheirCache`), summaries
  (`FallbackAgreesWithSummary`, `PercentilesAreQuantiles`) and the tables and figures
  (`BaselinesAreMatched`, `FocusedFiguresAverageOnlySeeds`, `BestRunsLeadTheirPanels`,
  `TablesAgree`): they are statements about concrete tables of options and presets, or
  about rationals averaged over selections. `SelectSeq`, `@@` and `:>`, which they are
  written with, have no definition that the prover unfolds. They are checked on the
  inputs that the runs enumerate.

## 5. Not modelled

* The averages of `src/experiments/runner.cpp` (epoch overlap, relief estimates,
  fairness) and the sorted report getters of the statistics: pure floating-point
  computations over a finished run. What the runner counts is in `Viability`.
* The probabilities of the generator's draws: objects, sizes and jitter are free
  choices.
* The configuration loader: yaml-cpp parses the text, and what is left is a type and
  a range check per key. The workload keys that decide whether the generator serves
  a run are followed in `MatrixPlanning!GeneratorConfig`.
* Drawing: axes, colours, labels, layout; the wording of observations.
* `configure_build_test.sh` calls three commands in order; transport and shared cache
  are empty placeholders.
* A disk that is full while the simulator writes: the writers of `runner.cpp` look at a
  stream when they open it (`src/experiments/runner.cpp:314`), not afterwards, so such a
  run may still return 0. In the models of the scripts a complete output is one whose
  simulator came to its end.
* Unsigned sums of bytes at the end of their range: byte counts are natural numbers.

## 6. Plan

1. *(done)* Scheduler, run loop, barrier, nodes, caches, all policies; hot sets of
   the generator and percentiles; types, order and queue soundness proved.
2. *(done)* The scripts: presets, planning, configurations, summaries, the runner and
   its refinement, proved; the batch script; comparison, figures, observations and
   reports, joined to what the planner writes.
3. *(done)* Hits, admissions and eviction regret of the experiment runner, against the
   event log. *(open)* The overlap of epochs, and the cross-field validation of the
   configuration loader.
4. *(done)* Proofs about the simulator: exact counts and no exceptions; requests neither
   duplicated nor lost; flags; the barrier; frozen and shared telemetry; placement rows;
   the safety part of the refinement of `EpochService`; arrival order, latency, the
   counts of the policies, capacity, the oracle and replacements.
5. *(done)* Proofs about the generator's hot sets, the batch script and the report.
6. *(open)* Planning and summaries: their selections would have to be written as
   recursive functions first.
