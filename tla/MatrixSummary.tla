---------------------------- MODULE MatrixSummary ---------------------------
(***************************************************************************)
(* The metrics run_matrix.py puts in the aggregate row of a run, read from *)
(* the files the simulator left: the sections of summary.json, and the     *)
(* rows of contention_by_object.csv and contention_by_channel.csv, one per *)
(* epoch and object or channel that saw a remote access.  Latencies are in *)
(* hundredths, as Histogram computes them.                                 *)
(***************************************************************************)
EXTENDS Histogram

CONSTANTS
  Missing,       \* a JSON field that is null or absent, a file that is not there
  Blank,         \* an empty column of the aggregate CSV
  Telemetries    \* what the simulations may have counted

VARIABLES
  telemetry,     \* what a simulation counted
  outputs,       \* the files it left in the output directory
  row            \* the metric columns of the aggregate row

number_or_blank(value) == IF value = Missing THEN Blank ELSE value

TotalOf(rows, column) == FoldSeq(LAMBDA r, sum : sum + r[column], 0, rows)

LargestOf(rows, column) ==
  FoldSeq(LAMBDA r, best : IF r[column] > best THEN r[column] ELSE best, 0, rows)

LargestNumber(numbers) == CHOOSE n \in numbers : \A m \in numbers : m <= n

SmallestNumber(numbers) == CHOOSE n \in numbers : \A m \in numbers : n <= m

spread(values) ==
  IF values = {} THEN Blank ELSE LargestNumber(values) - SmallestNumber(values)

\* A ratio of waits, in hundredths.
Ratio(numerator, denominator) == (100 * numerator) \div denominator

-----------------------------------------------------------------------------
(* The simulator's side: runner.cpp *)

max_channel_total_queue_wait(channels) == LargestOf(channels, "total_queue_wait")

channel_queue_imbalance(channels) ==
  LET total == TotalOf(channels, "total_queue_wait")
  IN IF total = 0 THEN 0
     ELSE Ratio(max_channel_total_queue_wait(channels) * Len(channels), total)

mean_latency(latencies) ==
  IF latencies = <<>> THEN 0
  ELSE (100 * FoldSeq(+, 0, latencies)) \div Len(latencies)

\* summary.json; that of an older simulator has no channels section.
SummaryJson(t) ==
  [mean_latency |-> mean_latency(t.latencies),
   median_latency |-> median_latency(t.latencies),
   p95_latency |-> p95_latency(t.latencies),
   p99_latency |-> p99_latency(t.latencies),
   per_node |-> t.per_node,
   channels |->
     IF t.older THEN Missing
     ELSE [peak_queue_depth |-> LargestOf(t.channels, "max_queue_depth"),
           max_total_queue_wait |-> max_channel_total_queue_wait(t.channels),
           queue_imbalance |-> channel_queue_imbalance(t.channels)]]

\* The oldest simulators wrote no channel file either.
WriteOutputs(t) ==
  [summary |-> SummaryJson(t),
   contention_by_object |-> t.objects,
   contention_by_channel |-> IF t.channels = <<>> /\ t.older THEN Missing ELSE t.channels]

-----------------------------------------------------------------------------
(* The script's side *)

aggregate_contention(files) ==
  LET objects == files.contention_by_object
  IN IF objects = Missing
     THEN [total_remote_accesses |-> Blank, total_queue_wait |-> Blank,
           max_observed_queue_depth |-> Blank]
     ELSE [total_remote_accesses |-> TotalOf(objects, "remote_accesses"),
           total_queue_wait |-> TotalOf(objects, "total_queue_wait"),
           max_observed_queue_depth |-> LargestOf(objects, "max_observed_queue_depth")]

\* Mutant: the average is taken over the channels that made requests wait.
aggregate_channel_contention_of_waiting(files) ==
  LET channels == files.contention_by_channel
  IN IF channels = Missing
     THEN [peak_memory_channel_queue_depth |-> Blank,
           max_channel_total_queue_wait |-> Blank, channel_queue_imbalance |-> Blank]
     ELSE [peak_memory_channel_queue_depth |-> LargestOf(channels, "max_queue_depth"),
           max_channel_total_queue_wait |-> LargestOf(channels, "total_queue_wait"),
           channel_queue_imbalance |->
             channel_queue_imbalance(
               SelectSeq(channels, LAMBDA c : c.total_queue_wait > 0))]

aggregate_channel_contention(files) ==
  LET channels == files.contention_by_channel
      total == TotalOf(channels, "total_queue_wait")
  IN IF channels = Missing
     THEN [peak_memory_channel_queue_depth |-> Blank,
           max_channel_total_queue_wait |-> Blank, channel_queue_imbalance |-> Blank]
     ELSE [peak_memory_channel_queue_depth |-> LargestOf(channels, "max_queue_depth"),
           max_channel_total_queue_wait |-> LargestOf(channels, "total_queue_wait"),
           channel_queue_imbalance |->
             IF total = 0 THEN 0
             ELSE Ratio(LargestOf(channels, "total_queue_wait") * Len(channels), total)]

NodeLatencies(files) == ToSet(files.summary.per_node)

\* The channel columns of summary.json, blank where it has none.
ChannelColumns(files) ==
  LET channels == files.summary.channels
      Of(field) == IF channels = Missing THEN Blank ELSE number_or_blank(channels[field])
  IN [peak_memory_channel_queue_depth |-> Of("peak_queue_depth"),
      max_channel_total_queue_wait |-> Of("max_total_queue_wait"),
      channel_queue_imbalance |-> Of("queue_imbalance")]

\* summarize_run, for a run that succeeded: one column stands for those copied
\* from summary.json in the same way.
Metrics(files) ==
  LET latencies == NodeLatencies(files)
      columns == ChannelColumns(files)
      fallback == aggregate_channel_contention(files)
      copied == {"mean_latency", "median_latency", "p95_latency", "p99_latency"}
  IN [c \in copied |-> number_or_blank(files.summary[c])]
       @@ [per_node_mean_latency_min |->
             IF latencies = {} THEN Blank ELSE SmallestNumber(latencies),
           per_node_mean_latency_max |->
             IF latencies = {} THEN Blank ELSE LargestNumber(latencies),
           per_node_mean_latency_spread |-> spread(latencies)]
       @@ aggregate_contention(files)
       @@ [c \in DOMAIN columns |->
             IF columns[c] = Blank THEN fallback[c] ELSE columns[c]]

-----------------------------------------------------------------------------

summaryVars == <<telemetry, outputs, row>>

SummaryInit ==
  /\ telemetry \in Telemetries
  /\ outputs = Missing
  /\ row = <<>>

Simulate ==
  /\ outputs = Missing
  /\ outputs' = WriteOutputs(telemetry)
  /\ UNCHANGED <<telemetry, row>>

Summarize ==
  /\ outputs # Missing /\ row = <<>>
  /\ row' = Metrics(outputs)
  /\ UNCHANGED <<telemetry, outputs>>

SummaryNext == Simulate \/ Summarize

SummarySpec == SummaryInit /\ [][SummaryNext]_summaryVars

-----------------------------------------------------------------------------
(* Properties *)

\* The channel columns computed in Python from the CSV of an older simulator are
\* the ones runner.cpp would have put in summary.json ("so fall back to the CSV
\* when present", summarize_run), idle rows and all; every other column is the
\* same too, and nothing measured, zeros included, becomes a missing value, which
\* the figures would leave out, unless the simulator left no file on channels.
FallbackAgreesWithSummary ==
  row # <<>> =>
    LET today == Metrics(WriteOutputs([telemetry EXCEPT !.older = FALSE]))
        unknown == IF outputs.contention_by_channel = Missing
                   THEN DOMAIN ChannelColumns(outputs) ELSE {}
    IN /\ DOMAIN row = DOMAIN today
       /\ \A c \in DOMAIN row :
            row[c] = IF c \in unknown THEN Blank ELSE today[c]
       /\ \A c \in DOMAIN today : today[c] # Blank

Below(bound) == {i \in DOMAIN telemetry.latencies : 100 * telemetry.latencies[i] < bound}
UpTo(bound) == {i \in DOMAIN telemetry.latencies : 100 * telemetry.latencies[i] <= bound}

\* The share of the requests below this latency does not exceed the percentile,
\* and the share up to it reaches it, one request being the least there is.
IsQuantile(value, p) ==
  LET others == Len(telemetry.latencies) - 1
  IN /\ 100 * Cardinality(Below(value)) < p * others + 100
     /\ 100 * Cardinality(UpTo(value)) > p * others

\* The latency columns of a row are quantiles of the latencies of the requests,
\* whatever their order and however many are equal, and in order; and a
\* percentile more moves the result up, by no more than its share of the range
\* of the samples: interpolation neither jumps nor falls (compute_percentile,
\* median_latency, p95_latency, p99_latency).
PercentilesAreQuantiles ==
  row # <<>> /\ telemetry.latencies # <<>> =>
    LET samples == ToSet(telemetry.latencies)
        range == Max(samples) - Min(samples)
        At(p) == compute_percentile(telemetry.latencies, p)
    IN /\ IsQuantile(row.median_latency, 50)
       /\ IsQuantile(row.p95_latency, 95)
       /\ IsQuantile(row.p99_latency, 99)
       /\ row.median_latency <= row.p95_latency /\ row.p95_latency <= row.p99_latency
       /\ \A p \in Percent \ {100} :
            At(p + 1) - At(p) \in 0 .. (Len(telemetry.latencies) - 1) * range
=============================================================================
