# A TLA+ model of Streamling's checkpointing

Streamling runs SQL pipelines: sources read from Kafka, ClickHouse or files,
operators transform Arrow record batches on a DataFusion plan, sinks write them
to a database, a topic or an endpoint. What makes the program more than a set of
adapters is its checkpoint protocol: *Markers* travel with the rows, sinks *ack*
the ones they have flushed, a coordinator *finalizes* an epoch when all sinks
have, and only then may a source move the position from which the next process
resumes. At-least-once delivery (`docs/checkpointing-deep-dive.md`) rests on no
component of that loop getting an order wrong.

This directory models that loop: the coordinator, the places where streams and
their Markers are merged, split, copied and rebatched, the sink side that acks,
the sources that commit, and the end of the process, in which all of them have
to come to rest in time, each across the failures and the restarts the code
handles. Paths below are relative
to `src/`; `CM` is
`crates/streamling-core/src/checkpoints/checkpoint_management.rs`. Line by line
correspondence is in `PROJECT.json` under `map`.

## 1. Inventory

### Components that carry the protocol

**Checkpoint coordinator and `CheckpointControl`** (`CM`). *State*: the map of
epochs (Started, InProgress with its acks, Finalized), the set of expected
sinks, the next epoch number, the terminal flag and the terminal epoch, all
behind separate locks or atomics. *Operations*: the subscriber task records
Acks and finalizes; the timer producer waits for the previous epoch, mints the
next and broadcasts its Marker; the timeout task removes epochs that took too
long; `begin_terminal_checkpoint`, `await_terminal_finalized`,
`sink_completed` and `stop` are called by sources and by the run loop. *Hard*:
locks are dropped between the parts of one operation, so completions, acks,
mints and sweeps interleave; sinks and sources go away at any time. *Correct
when* an epoch is finalized only if every sink made its rows durable, once, and
not never; when the terminal epoch is the last; and when nothing waits for ever.

**Broadcast channels** (`checkpoints/channels.rs`). An unbounded queue per
subscriber. A message sent before a subscriber exists does not reach it.

**`MarkerAligner`** (`CM`). Counts the copies of a Marker that arrive over
several inputs and tells when to let one through, what an ended input releases
(by the watermark of what it has delivered), and forgets what a Finalizer makes
obsolete. **Merge points** (`operators/mod.rs`, `operators/coalesce.rs`, the
output side of `operators/repartition.rs`): one forwarder task per input, a
shared aligner behind a lock, sends outside it. *Correct when* no Marker
overtakes rows that precede it on some input, goes past once, and is not kept
for an input that cannot deliver it any more.

**Parallel sink and ack gates** (`operators/parallel_sink.rs`, `CM`): several
write tasks of one sink, an aligner as gate, a parent that joins them and aborts
the rest on the first error. *Correct when* it is a barrier, too, and when a
sink that returns Ok owes no ack.

**Postgres aggregate sink** (`table_providers/postgres/`, `utils/pg.rs`,
`operators/pg_aggregation.rs`). *State*: a landing table with the epoch of each
row, aggregates fed by its insert trigger, one label per write stream. *Hard*:
what a Finalizer deletes is decided by numbers that start anew in each process,
while the source may send rows again that were written under old ones. *Correct
when* no row that can be sent again is deleted, and nothing older stays.

**Kafka source** (`table_providers/kafka.rs`). *State*: the consumer's
position, one snapshot of it per epoch, a batch, buffered Markers, the last
commit; outside the process the group's offsets and the state backend. *Hard*:
crash between the two commits, rebalances between snapshot and commit, a stop
that must commit its tail, a start that must find its place. *Correct when* no
committed offset passes a row that is not in the sink.

**ClickHouse source** (`table_providers/clickhouse.rs`,
`clickhouse/range_controller.rs`). *State*: the cursor and width of the next
key range; a split (cursor to save) and a buffer of Markers shared with a
checkpointing task. *Hard*: ranges that overflow, time out or fail are resized
and read again; the task and the scan loop touch the shared state under
different mutexes; the last Markers have no page to ride on. *Correct when* the
emitted ranges tile the key space, each row goes out once per scan, the scan
ends, and the saved cursor is not ahead of what the sink has.

**Hybrid source** (`table_providers/hybrid.rs`). A sequence of bounded sources
(ClickHouse) followed by Kafka, as one stream. *State*: the phase, saved with the
state backend; the offsets at which Kafka has to start, seeded there at the
hand-over; the inner source's own cursor or offsets; Markers that wait for a
batch to ride on. *Hard*: a crash or a failure between seeding, advancing and
saving; recovery from the inner sources' state when the phase is missing; an
inner stream that ends because it is exhausted or because of a shutdown; Markers
that arrive while no inner source is subscribed. *Correct when* Kafka is never
read without its seeds, no phase is skipped or taken back, and every Marker
arrives.

**Run loop, drain stages, shutdown budget** (`crates/streamling/src/lib.rs`,
`shutdown/mod.rs`, `shutdown/controller.rs`). *State*: the process-wide flag, the
watchdog's deadline, the sink and plugin futures, the stage of the teardown.
*Hard*: every stage waits with a timer of its own inside one budget, plugins are
foreign code that may hang, fail, return or ask for the shutdown themselves, and
the exit code must not claim what was not flushed. **Plugin sinks**
(`plugin.rs`, `plugin/table_provider.rs`, `streamling-plugin/src/dispatch.rs`)
are a bounded channel, a dispatcher on the plugin's side and an ack forwarder on
the host's. *Correct when* exit code 0 means that all is stored, nothing that is
not stored is committed, the teardown ends before the watchdog ends it, and a
failure ends the process.

**Batch accumulator and rebatch** (`utils/batch_accumulator.rs`,
`operators/rebatch.rs`). *State*: a queue of batches, the time of the last flush.
*Operations*: push, flush by rows, bytes or time, split of the batch at the
limit, drain when a batch carries Markers, flush at the end. *Correct when*
nothing is lost, doubled or reordered, a Marker does not overtake the rows it
covers and does not wait for others.

**Broadcast and scan sharing** (`operators/broadcast.rs`,
`broadcast/broadcast_stream.rs`, `scan_sharing.rs`): one driver, a bounded channel
per consumer, consumers that lag, fail or stop reading. *Correct when* a consumer
sees a gapless prefix, a clean end is the whole stream, and one stuck consumer
does not keep the others from draining. **Repartition exchange**
(`operators/repartition.rs`): one router per input, one channel per input and
output, Markers copied to all outputs. *Correct when* an epoch that is acked
covers only rows that were written, even if a router returned early.

**Checkpointable wrapper, wrapping sink operator.** Operators that take Markers
off a batch and put them back, or deduplicate rows.

**Sinks and state backends, file sources, source and operator plugins, retry,
dynamic tables.** See section 6; what of them is modelled is their ack path or the
calls a modelled component makes to them.

Configuration, validation, telemetry, the admin API, SQL functions, formats and
decoding carry no state that the protocol depends on.

`PROJECT.json` lists each of them with its status, and under `hazards` the places
that are hard to test with the properties aimed at them.

### How they interact

```
            Marker(e)                         rows, Marker(e)
 producer ------------> source task --------------------------> merge points
    ^   \                  ^  |  snapshot of its position             |
    |    sweep             |  +-- commit on Finalizer(e)              v
 epochs map <-- subscriber <------------- Ack(e) --------------- sink streams
                   |                                           (ack gate)
                   +------ Finalizer(e), broadcast ------> sources, mergers, sinks
 run loop: sink future Ok -> sink_completed;  source end -> terminal epoch
```

## 2. Modules

| Module | Models | Kind |
|---|---|---|
| `CheckpointCoordinator` | the coordinator's three tasks, `CheckpointControl`, the channel, with sources and sinks as their environment | component |
| `MarkerBarrier` | what a merge promises about Markers | abstract specification |
| `MarkerAligner` | `observe`, `input_done`, `required_copies`, pruning | operators on the aligner's state |
| `MergePoint` | forwarder tasks around an aligner | composition, implements `MarkerBarrier` |
| `ParallelSink` | write tasks, gate and join loop | composition, implements `MarkerBarrier` |
| `LandingTable` | the Postgres aggregate sink's table, labels and truncation, with the source and coordinator around it, over several processes | component and environment |
| `KafkaSource` | the source, broker, state backend and sink over several processes | component and environment |
| `RangeController` | the cursor and its resizes | operators and two state variables |
| `ClickHouseSource` | scan loop, checkpointing task, sink and state backend over several processes | composition |
| `BatchAccumulator` | the queue and `process_stream`, one or more in series, with the source and the sink around them | component and environment |
| `Broadcast` | driver, consumers, writer tasks and the plan's output | component |
| `Exchange` | routers, channels, merged outputs and the sink's gate | composition, on what `MergePoint` and `ParallelSink` implement |
| `HybridSource` | the phase loop, recovery, hand-over and forwarder, with the inner sources, the sink and the state backend over several processes | composition |
| `RunLoop` | the run loop and teardown, the watchdog, sources, engine and plugin sinks, dispatchers, in discrete time | composition |
| `*Proofs` | theorems about the modules they extend (`StreamProofs`: `MergePoint`, `Exchange` and `Broadcast`; `SinkProofs`: `ParallelSink` and `LandingTable`) | proofs |
| `MC*` | constants for TLC | instances |

Definitions named as "a wrong variant" next to an operation are plausible
mistakes in it; replacing the operation by the variant violates the property the
variant is listed with in `PROJECT.json`. They are not used by any
specification.

### CheckpointCoordinator

A step ends where the code drops a lock or sends. The subscriber is `AckReceive`
(looks the sink up in `expected_sinks`), `AckRecord` (under the lock of the map)
and the broadcast; the producer sleeps, waits until no epoch is pending, mints
under the lock after a second look at the terminal flag, and broadcasts; the
sweep copies `terminal_epoch` under one lock and removes under another.
`sink_completed` is three steps: drop the sink and copy the expected set;
finalize what the copy lets it; broadcast. `status[e] = "Absent"` is a key that
is not in the map, which is why a cleared and a never minted epoch look alike to
the code as well.

The environment is as free as the code allows: a source subscribes late (so that
a Marker is lost), relays Markers in any order, ends at any time and takes or
gives up the terminal wait; a sink acks a Marker only after its sources have
emitted it, fails, or completes when its sources are through. In the run loop
the calls to `sink_completed` never overlap; the model lets them, which covers
more than the program does.

`Age(e)` lets an epoch exceed the timeout at any time while it is pending, with
one assumption about time: the sweep does not sleep for a whole timeout between
its two locks, so an epoch minted in between is too young to be removed by it.
Without that, the sweep could remove a terminal epoch its copy does not contain;
`TerminalIsYoung` in the inductive invariant is where this is used.

### MarkerAligner, MergePoint, ParallelSink

The aligner's entry is `copies` and `released`, its inputs' watermarks and
`finished` are as in the code, and a Finalizer prunes. Rows are not modelled:
`delivered[i]` is the set of Markers whose preceding rows of input `i` are past
the forwarder (or in the sink's table), which is all the barrier is about.

`MergePoint` has one forwarder per input: read a batch, send its rows, ask the
aligner, send what was released; an end of input asks `input_done`; an error or
a closed receiver ends the forwarder without it. `InputOrdered` says whether the
inputs bring their Markers in epoch order. The properties are checked without
that assumption, because the output of one merge point is the input of the next
and does not satisfy it (finding 1).

`ParallelSink` uses the same aligner as gate. The parent aborts the tasks that
are left when one fails; an abort takes effect at a task's next wait, so a task
may still ack after the parent has returned.

### LandingTable

The sink `postgres_aggregate` upserts rows into a landing table, whose insert
trigger adds them to the aggregates: a row that is sent again is counted once as
long as its first copy is still there. `landing[r]` is the label of row `r` and
the process that wrote it (which only the properties look at), `tally[r]` counts
the trigger. A write stream labels a batch with the last Marker it has seen
(`label`, one per stream), writes it, then works off its Markers and Finalizers;
Finalizer N deletes the labels up to N-1, best effort. A statement that times out
may have been applied, and is made again; one that is applied only after its
retry is not modelled.

Whether the truncation is right is decided elsewhere, so the source (its batch
goes out with the messages of the round before, and it commits before it passes a
Finalizer on) and the coordinator (one open epoch, which may time out, counted
from 1 in every process) are in the module, reduced to that. So is what lies
between source and table. Several write streams exist behind an exchange only
(`Exchanged`), whose outputs send the rows of a batch stripped of their messages and
the messages afterwards, on a batch of their own (`Forward`). A rebatcher in front
of each stream may let such rows through at once or join them with what comes next
(`Rebatch`), and never keeps messages waiting; that decides whether a row is
labelled with the Marker it left the source with, or with the one before. `ahead`
remembers the rows this can happen to and serves only the properties. A batch
that the rebatcher cuts is not modelled: the two parts get labels that
whole batches get as well. The exchange has one input, the source, so its aligner
holds nothing up and Markers keep their order; the label is nevertheless taken
from the last Marker of the messages, as in the code, and not from the largest.
The process may die at any step. Left out are the terminal checkpoint and keys
that several rows share.

### KafkaSource

Offset `n` stands for "`n` rows are behind it". `broker`, `saved` and `written`
outlive the process, everything else is forgotten on a crash. Start-up is the
poll that provokes the assignment (and may take a row, `FirstMessage`), then the
seek; the loop takes rows, drains the receiver, snapshots its position for a
Marker which rides the next batch, and on a Finalizer commits the snapshot of
that epoch to the broker, then to the state backend. A stop runs the terminal
checkpoint, waits for it for a bounded time, and commits.

Assumptions: one instance owns all partitions; `start_at` is earliest and the
consumer group configured; `position()` of a partition is Invalid after a seek
or a rebalance until a row was delivered, as in librdkafka; `put_many` is one
statement; a rebalance happens between batches. The coordinator and the sink
are reduced to what `CheckpointCoordinator` shows of them. `probed` is a history
variable: rows the start-up poll took and no seek gave back.

### RangeController and ClickHouseSource

Widths are computed in `f64` and truncated; the model computes exactly and lets
the truncation fall on either neighbour (`Truncated`). What page time does to a
width is a free choice below the row and byte bounds. `Bytes` is a constant
operator, so nothing is assumed of how a page's size depends on its rows.

The scan loop has one action per exit of an iteration (count-first sizing with
its three outcomes, timeout, retry, failed stream, unsplittable page, overflow,
complete page), then one step each to drain the Marker buffer for a chunk, to
send it, and to move cursor and split. The checkpointing task receives, clones
the split, and puts it, with the scan loop free to move between the last two.

Assumptions: the table does not change during a scan; the version dedup keeps or
drops a row independently of the page it is read in; `GrowCeiling` is a whole
number; the code retries a failing query without limit, the model at most
`MaxFaults` times, so `ScanEnds` is about a database that answers in the end;
epoch numbers go on across restarts, which only makes them
distinguishable. `sent`, `everSent` and `start` are history variables.

### BatchAccumulator

A batch is a sequence of rows and a sequence of Markers; `Bytes` gives a row's
payload in each variable-width column. `Flush` is the code's loop: as many whole
batches as fit both limits (`Fits`, `Whole`), then a slice of the next one
(`Needed`), whose rest goes back to the front of the queue without the Markers.
A stage is the generator of `process_stream`: `Receive`, then `Drain` as often as
the batch's Markers or the size ask for, `Tick` between batches, `FlushRest`
after the end; each yields at most one batch, which its consumer has to take
first. `covers` records what the source had read when a Marker was attached: the
rows *before* the batch it rides on, as in the Kafka source. That is what makes
the split sound for one accumulator.

### Broadcast, Exchange

`Broadcast` has the driver of `run_broadcast` with the concurrent sends to all
consumers of one batch, each of which ends in sent, closed or stalled; the
writers, whose sinks may fail or stop reading (`stuck`); and the plan, which
forwards the output's batches and then joins the writers. `MayStick` bounds which
sinks may stop reading; nothing is assumed about when.

`Exchange` keeps the batches of an input in the order read, and for each output
how many of them were offered and taken: a channel is what lies in between and
concerns the output. A router sends to the outputs in order and blocks on a full
one. It ends with its input, with an error it has sent to all, or when a
receiver is gone, with a batch half sent; to the other outputs all three look
alike. The output's aligner and the sink's gate appear as the barrier the other
modules show them to implement.

### HybridSource

A lane is what has a position of its own: a bounded source or a partition.
`phase`, `offsets`, cursors and the sink's table outlive the process. The loop
loads the phase or recovers one, opens the inner stream, forwards its batches
with the Markers the forwarder has collected, and at the end of a stream flushes
them, advances, seeds each partition, and saves. The inner sources are reduced to
what their own modules show of them: they read their rows in order from where
they start, and save a position on a Finalizer. The last phase ends only with a
shutdown, or with its rows in job mode.

Assumptions: the offset provider answers or does not (`RecoverState(FALSE)`,
`AdvanceFails`), and what it knows does not change; a phase is one bounded source
in the run, since several ClickHouse sources of one hybrid source share the key
of their cursor. The guess among several bounded phases is therefore not exercised.
`UnboundedIsSeeded` is not about job mode, in which nothing is seeded (see the
observations in section 5).

### RunLoop

Time is counted in ticks. Every timer, the watchdog's included, is a number of
ticks; a timer that has run out stops the clock until it is served, and so does
whatever the engine's own tasks can do at once (`Prompt`). `Due` spells out when a
step of `Prompt` is enabled, so that the proofs can use it; that it says the same as
`ENABLED Prompt` was checked on the instance of the run. Sink writes, plugins
and helper tasks take as long as they like (`Lazy`). So a deadline is missed only
if the code let it be missed.

`Configs` has the budget, job mode, drain policy, and whether the sink is
partitioned (`awaits_acks`) or single. `stage` goes through the stages of `run`:
drive loop, wait for the terminal epoch, cancellation of the data-path scopes one
after the other, Terminate to each plugin, join of the plugins, the ack
forwarders, exit. `began` remembers how much of the watchdog's time was left when
the teardown began.

A dispatcher may return before Terminate: by itself, or with an error (an ack that
cannot be sent, `dispatch.rs:675`) or a panic, which fails the run. One that has
returned by itself after a write that ended well is taken at its word, as in the
code. The channel from a plugin to the host has no bound in the model, so a plugin
that is blocked on it is not.

Each Terminate send has a floor of its own (`SendMin`), however little time is left.
`NotKilledInTeardown` has the hypothesis that all floors together fit into the
margin (`FloorsFit`), which with the code's 100 ms and 2 s holds of up to 19
instances. The code does not bound them: `terminate_plugins` walks every registered
instance, those of partitions and of other kinds of plugins included
(`plugin.rs:1075`). `RunLoopFloors.cfg` shows what happens otherwise.

## 3. Runs

| Run | Instance | Shows |
|---|---|---|
| `coordinator_acks` | 2 branches, 2 epochs (3.5M states) | `FinalizedIsDurable`, `SingleFinalizer`, `NoLostFinalization`, `TerminalIsLast` over every interleaving of acks, completions, failures, sweeps and the terminal checkpoint |
| `coordinator_liveness` | 1 branch, 3 epochs (147k) | `EpochsAreFresh`, `ProducerNotWedged`, `StopJoins`, `TerminalCompletes` |
| `merge_point` | 3 inputs, 2 epochs, Markers in any order (56k) | `ImplementsBarrier`, `ReleasedIsAligned`, `DueIsPassed` |
| `sinks` | 3 write tasks, 2 epochs; 2 streams behind an exchange into a landing table, 2 rows, 2 epochs in each of 2 processes (734k) | `ImplementsBarrier`, `OkLeavesNothing`, `FlushedIsAcked`; `CountedTwiceOnlyIfOvertaken`, `NothingBelowPurge` |
| `kafka_one_partition` | 2 rows, 3 failures of any kind but an unreadable position (38k) | `AtLeastOnce`, `CleanStopCommitted`, `RowsArrive` |
| `kafka_partitions` | 2 partitions, 1 failure of any kind (1.0M) | `OnlyFirstMessageSkipped`: nothing but finding 3 ever loses a row |
| `clickhouse_scan` | 3 tables, 2 failures of any kind (167k) | `ScanTiles`, `SavedIsEmitted`, `ScanEnds`, `BufferedMarkerArrives` |
| `clickhouse_cursor` | the same tables, no failure | violated: finding 1 |
| `batch_accumulator` | 4 rows, 2 Markers, batches of 0 to 3 rows, sizes 0 to 3, with and without an interval (136k) | `NothingLost`, `AckedIsWritten`, `MergeNeverOverflows`, `EverythingLeaves` |
| `fan_out` | 2 sinks and an output, 3 batches, channels of 1; 2 inputs, 2 outputs, 2 batches each (335k) | `NoGap`, `PlanJoinsWriters`, `ShutdownDrains`; `RoutedIsWritten`, `ExchangeDrains` |
| `hybrid` | 1 bounded source, 2 partitions, 1 failure at any step (166k) | `UnboundedIsSeeded`, `PhasesAreRun`, `MarkersArrive` |
| `run_loop` | a plugin and an engine sink, 3 configurations, budget of 3 ticks (563k) | `ExitZeroIsFlushed`, `CommittedIsStored`, `NotKilledInTeardown`, `FailureEnds` |

Deadlock is checked in all of them: a state in which nothing more can happen is
one of the explicit ends (`Finished`, `Over`, all tasks exited). `fan_out` checks
two modules that share nothing in one run: a behaviour is one of `Broadcast`
or one of `Exchange`, while the other has come to its end. `sinks` does the same
with `ParallelSink` and `LandingTable`.

Every module states its type invariant. They are left to the proofs (`TypeCorrect`,
`IndInv`, `ScanTypes`, `ExchangeInv`) or were checked when the module was written: as
properties of the program they say little.

### Bounds, and why they are enough

- *Epochs.* Two are the smallest number at which epochs can be confused: one
  being cleared, pruned or timed out while the other is alive. The run with
  three has a timer epoch that was cleared, one that is pending and the terminal
  one.
- *Sinks, inputs, streams.* Two sinks make "the others have acked" differ from
  "I have"; three inputs make "all but one" differ from "one".
- *Rows and keys.* Landing table: two rows over two streams, one on each side of
  a Marker or both on one, while one stream may be behind the other; two
  processes, since only what the last one left behind matters. Kafka: two rows of a partition put one in front of a snapshot
  and one behind it. ClickHouse: four keys with a page of two rows make ranges
  that fit, overflow by rows, overflow by bytes, and cannot be split; one table
  has a key which the dedup drops.
- *Failures.* Two or three of them, of any kind, are a failure during the
  recovery of another. They are not fair, so behaviours without them are included.
  The accumulator's four rows allow a batch that is split twice, and rows that
  are too wide for each other in either column.
- *Queues.* A stream or channel of capacity one already blocks its sender.
- *Time.* Three ticks of budget are the margin of two and one to spend; the
  teardown's stages can use up what there is at any of them. The seconds of the
  code are in the theorem about them (section 4), not in the run.

For the safety properties the bounds do not matter: every invariant the runs check
is proved for all values (section 4). They do matter where a theorem has a
hypothesis, and for liveness.

### Fairness

- Coordinator: each of the three tasks, and a `sink_completed`,
  `begin_terminal_checkpoint` or wait that has begun. Tokio schedules a runnable
  task; a mutex held for a map update is released. Ageing is fair since time passes.
  Nothing forces a source to subscribe, relay or end, a sink to ack or complete, a
  failure, a shutdown or `stop()`: a lost Marker or a silent sink is got over by the
  sweep alone, which is what `ProducerNotWedged` is about. `TerminalCompletes` is
  about a job that ends, and says so in its hypotheses: live sinks ack what reaches
  them and complete after their streams (`SinksKeepUp`; without it the property is
  violated), and every source subscribes and ends (`SourcesEnd`, since the terminal
  epoch needs every sink; with the one branch of the run this is not needed). It
  is also conditional on the pipeline not being asked to shut down, which a
  failing sink does. A lost wake-up is not modelled: the wait polls every 200 ms
  (`CM:565`).
- Merge point and parallel sink: a task that holds something works it off.
  Nothing makes an input deliver or end. The landing table needs no fairness: its
  properties are invariants.
- Kafka: tasks and sink run, a dead process is started again, and strong fairness
  of delivery for a partition with rows, since Markers that keep arriving must not
  starve it; librdkafka delivers in turn. Failures are not fair.
- ClickHouse: both tasks and the sink. Shutdown, Markers and failures are free.
- Batch accumulator: the generator and the sink. `Tick` is strongly fair: batches
  that keep arriving do not starve it, since `select!` polls its branches in random
  order. The source owes nothing, and may keep its stream open for ever.
- Broadcast: the driver, the plan, the writers of sinks that are not stuck, and a
  source that ends after a shutdown request. Exchange: routers and outputs.
- Hybrid: the loop, its forwarder, the inner sources and the sink. Restarts,
  failures and the shutdown are free.
- Run loop: the loop's own steps and the clock. Nothing makes a plugin or a sink
  write come to an end; `FailureEnds` holds because the watchdog's time passes.

## 4. Proofs

Eight modules hold theorems, for every value of the constants, under the named
assumptions in the modules that declare those. A theorem `Spec => []P` rests on
an inductive invariant that implies `P`, since `P` by itself seldom is one.

**`CheckpointCoordinatorProofs`**: `TypeCorrect`, `Durability`, `OneFinalizer`,
`TerminalLast`, `NothingLost`, `FreshEpochs`, for any sets of sinks and sources
in which every source feeds some sink. The invariant is built up in layers, each
inductive with the ones before it:

1. `HandsFull`, `NumbersLeft`: a task that acts has what it acts on. The numbers
   last because the producer leaves one for the terminal epoch.
2. `AcksAreTrue` (an ack on its way or recorded is of a flushed epoch),
   `DroppedIsGone` (a sink missing from the expected set or from a copy in use
   has completed) and `OwedIsDurable` give `Durability`. `FinalizedIsDurable`
   alone is not inductive: it says nothing about the acks an epoch will be
   finalized with, or about a stale `expected_snapshot`.
3. `UnusedIsBlank` gives `OneFinalizer`: a pending epoch owes no Finalizer to
   anybody, so whoever finalizes it is the first.
4. `TerminalIsYoung` gives `TerminalLast` against the sweep's stale copy.
5. `SinksOutlive` (a sink that one of its sources may still send to has not
   completed) gives `NothingLost`: the last sink to leave the expected
   set is the one whose copy finalizes.

**`ClickHouseSourceProofs`**: `ScanTilesHolds`, `EmittedOnceHolds`,
`SavedIsEmittedHolds`, for any finite tables, sizes and bounds. `Cursors` (the
cursor never moves behind the start of the scan, widths are positive),
`PageInProgress` (what is in hand, on the page and sent make up the current
range), `Tiles` and `CursorsAreEmitted` (saved, cloned and shared cursor have
only emitted rows behind them) form `ScanInv`. Its core is `RangesTile`: two
adjacent ranges are one range; every resize keeps the cursor, and `Advance` is
the only step that moves it, to the upper bound the page was read with.

`ScanTypes` is the type invariant, and what it says of the cursors is not a matter
of types: saved, cloned and shared cursor stay at most one range past the largest key.
`Bounded` carries it: a range that is being read, emitted or passed begins at a key
of the table, because `Top` asks `IsDone` before each, and no width exceeds
`max_width`. `Carried` says that the stream holds at most its capacity, and rows of the
table and checkpoint messages only. The Finalizers of an ack are a recursive function
of the messages; that they are messages (`FinalizersType`) rests on `Induct`, induction
over the numbers for a set, which the library's well-foundedness of `<` gives.

**`StreamProofs`**, where streams merge and fan out, for any inputs, outputs, sinks,
batches and channel sizes.

*Merge point*: `AlignerCorrect` and `MergePointRefines`, for any finite set of
inputs. The aligner counts; the barrier is about sets. `CountIsBounded`
(the count does not exceed the inputs that have delivered), `FinishedIsEnded`
and a cardinality argument (`EnoughIsAll`: a count that reaches the inputs that
are not finished means that all of them have delivered) connect the two, and
`NotRevived` says that an entry that was pruned and starts from zero cannot
release its epoch again. The refinement maps `delivered`, the ended forwarders
and `passed` to the barrier's variables.

*Exchange*: `ExchangeTypeCorrect` and `RoutedIsWrittenHolds`. The hard case is a
router that was cut off at output `m` with a batch half sent. `CutAtFailure` says
that such an `m` has failed, so it can only have been counted for an epoch it
flushed before, when its channel was not closed: the Marker had arrived there.
`OneBatchBehind` (all outputs have been offered all but the last batch) carries it
to every other output, closed or not.

*Broadcast*: `BroadcastHasNoGap` and `PlanAnswersForWriters`. `NoGap` speaks of what
a consumer has received; its invariant `BroadcastInv` speaks of what is in its
channel as well. `InOrder` says that the channel continues what was received,
`Awaiting` that a consumer the driver has still to send to lacks exactly the
current batch, `Covered` that every other consumer that is registered, or is a sink
that was not given up, lacks nothing. A clean end of a stream is then the end of the
source, since a sink is taken out of the slots only when it has gone away, or is
given up, and a given-up sink gets an error. `Driving` and `StillRegistered` say
what the driver knows while it decides who is stalled.

**`SinkProofs`**.

*Parallel sink*: `OkSinkAckedAll` and `ParallelSinkRefines`, for any finite set of
write streams. As at the merge point the gate counts and the barrier is about sets:
`CountIsBounded`, `CountIsPositive` and a cardinality argument (`PartsFill`,
`RequiredIsAll`) give `ReleasedIsAligned`. What is new is that the release and the
ack are two steps, and that the ack is made by whichever task, or the parent, got the
release: `ReleasedOnce` says that a released Marker is acked or is in exactly one
hand, and `LastReleasesAll` that the parent's last join leaves nothing at the gate.
An aborted task takes the Marker in its hand with it, which is why the parent's Ok
appears in the theorem. The refinement maps the streams that succeeded to the
barrier's ended inputs and the acks to what has passed.

*Landing table*: `LandingTypes`, `OvertakenOnly`, `OvertakenOnlyUnexchanged`,
`PurgeLeavesNothing`, for any topic, streams, epochs and number of processes. `CountedOnce` depends on where a row
is between the source and the table relative to the Markers, so `LandingInv` follows
both: Markers are sent and taken in order and none is lost (`SentInOrder`,
`InOrder`); a Marker whose position is recorded separates, on each stream, the rows up to
that position from those behind it (`Separated`), in the table too
(`LabelledBefore`), except that rows the exchange sent ahead may be on its wrong side; a Finalizer on its way is of an epoch every stream has flushed
and whose position is committed (`FinalsCommitted`, `Committing`), unless a commit
has failed. So what a Finalizer deletes of this process's rows is committed
(`Tallied`), and no stream can insert below it, since all their labels have reached
it. `Committing` also shows that the mailbox never has two Finalizers, so that
the order in which a batch's Finalizers are committed does not matter. `Sorted` shows
that the last Marker of a batch is its latest. Without an exchange `ahead` stays
empty, and `OvertakenOnlyUnexchanged` follows.

**`KafkaSourceProofs`**: `KafkaTypes`, `NothingElseSkipped`,
`OnePartitionAtLeastOnce`, `CleanStopSaved`, for any partitions, rows, epochs and
failures. `SourceInv`: every row the consumer has passed is written, was dropped by
the start-up wait, or is on its way (`Fetched`); the position recorded for an epoch
is covered by what the sink has written when it acks the epoch's Marker, wherever
on its way that Marker is (`Recorded`); so are the offsets in the broker and in the
state backend (`Resumes`). `Mail` (a Marker is taken off the receiver once, and a
Finalizer is of an acked epoch) keeps a snapshot from being taken again behind the
Marker it was taken for. Two theorems have a hypothesis:

- `OnePartitionAtLeastOnce` has one partition. With more, one that has no saved
  offset while another has is not sought, and the row the start-up wait dropped of it
  is lost, which is finding 3; `NothingElseSkipped` needs no hypothesis and says that
  this is all.
- `CleanStopSaved` presumes that the consumer's position can be read. A terminal
  epoch without a position counts as one with nothing to commit, which is finding 4.

**`HybridSourceProofs`**: `HybridTypes`, `SeededBeforeSaved`, `OnePhaseIsRun`.
`UnboundedIsSeeded`, which leaves job mode out, is inductive together with `HandOver`: while partitions are
being seeded the phase is the unbounded one in memory only, and those not left to
seed have an offset. `PhasesAreRun` needs that everything which says a bounded phase
is over is true (`EndIsReal`: the end of a stream nobody stopped, a later phase in
memory, an offset of the unbounded phase) and that no cursor is ahead of what was
sent (`PositionsAreSent`). It is proved for one bounded source. With more the model
does not satisfy it, because they share the key of their cursor, so that the recovery
takes the cursor of one for the progress of another; the comment at `hybrid.rs:735`
says so.

**`RunLoopProofs`**: `FinalizeTimeoutFits` and `SendsFit`, the arithmetic of the
shutdown budget for every budget and every number of plugins, with the code's
seconds; `TailCommittedIsStored` and `ExitZero`, about the steps, for any branches,
plugins and batches. `RunInv` says where the batches of a branch are: those the
plugin has not taken and the future does not hold fill the front of the plugin's
channel, with nothing but the Marker and Terminate behind them (`Dispatched`). A
Marker at the head of the channel then means that everything was taken, and an ack
that everything is stored (`AckedIsStored`), also when the dispatcher of a failed
plugin goes on reading. `Joined` and `Stopped` say what the loop has learnt of the
futures at each stage of the teardown. None of it depends on a clock: time only
decides which step is taken, so no bound on time is needed. `TeardownIsNotKilled` is
about the clock: a teardown that begins with at least the margin left on the watchdog
is not killed by it, for any budget and number of scopes, under the hypothesis
`FloorsFit` of the property; without that it is false (section 5). `ClockInv` bounds, at each stage, what the stage and
those behind it may still wait for by what the watchdog has left (`InTime`): up to
the ladder of scopes every timer ends before the margin, the current send and a slice
for each plugin behind it use up less than what is left, and so does the join of the
plugins. A wait that has run out is `Due`, so the
clock stands still until the loop has gone on.

**`BatchAccumulatorProofs`**: `OverflowNeverFailsTheStream`,
`AccumulatorLosesNothing` and `OneAccumulatorAcksWritten`, for any batch sizes, rows,
epochs, columns and payloads; the first two for any number of accumulators in series.
What a queue holds is a flattened sequence of sequences and its payload is a recursive
sum. The lemmas about them are inductions over the length, by `Induct`: the subsets of
`Nat` that have 0 and successors, from the library's theorem that `<` is well-founded.

- *flush.* `FlushIs`: what it returns and what it leaves is the queue cut in two
  (`Cut`), between two batches or inside one whose Markers go out with its first
  rows; and it can be merged, since it is one batch or was measured as a whole, and a
  beginning of rows weighs no more than all of them (`PayloadGrows`). So no stage fails
  but by an error of its input.
- *Nothing lost.* `AccInv` says that the rows and Markers behind the source are
  `1..rows` and the epochs, each once and in order. All that is behind the source is
  laid out in `Segments`, the sink's end first. A step of a stage moves rows and Markers
  between two neighbours in this list without reordering them (`WorksSame`), and then
  the whole list holds the same (`MovedAlong`), whatever the number of stages.
- *Acks.* With one stage, `AckInv` says of what the stage has not handed on that every
  Marker is behind the rows it covers, in batches *before* its own (`Behind`), and of
  what it has handed on that they are in batches up to its own (`Acks`). A cut keeps
  the first (`BehindCut`: the first slice, which keeps the Markers, is behind the same
  rows), and merging turns it into the second (`BehindMerged`). That the merge does not
  give back the first is finding 5: with two stages `AckedIsWritten` is false, so the
  hypothesis `Stages = 1` cannot be dropped.

Only model-checked, and why:

- every liveness property: fairness and ENABLED are beyond the proof system;
- that `RunLoop`'s `Due` is what enables `Prompt`, for the same reason. A `Due` that is
  too strong would stop the clock and violate `FailureEnds`;
- the type invariant of `RunLoop` as it is written; the proofs carry the parts of it
  that they need.

## 5. Findings

The first has a run of its own. The others can be reproduced with the
configuration named, which is not part of the runs. `tlc` takes the module after
the configuration: `tlc -config LandingAhead.cfg MCSinks`.

1. *The ClickHouse source saves a cursor ahead of its Marker*
   (`clickhouse_cursor`). On a Finalizer it saves where the scan is now, not
   where it was when the Marker left; pages in between may be unwritten, and are
   skipped if the process dies. `SavedIsEmitted`, which holds, is what is left of
   the guarantee. Inside a hybrid source the same cursor is saved.
2. *The output of a merge point is not in epoch order* (`MergePointOrder.cfg` with
   `MCMergePoint`, `MarkersInOrder`). Released Markers are sent after the lock is
   dropped (`operators/mod.rs:237`), and another forwarder may send a later one
   first. `CM:156` says "Every input delivers markers in epoch order, so a finished
   input delivered every epoch up to its watermark". The run `merge_point` with
   unordered inputs shows that no Marker goes past early for it: an input that the
   watermark wrongly takes to have delivered an epoch only delays that epoch's
   Marker.
3. *The Kafka source can lose the first row of a partition*
   (`KafkaFirstMessage.cfg` with `MCKafkaSource`, `AtLeastOnce`). The row the
   start-up poll returns is dropped (`kafka.rs:1256`); if its partition has no
   saved offset while another one has, it is not sought back to. `kafka.rs:1859`
   says "We'll seek to the correct position afterward based on state backend or
   config". `kafka_partitions` shows this to be the only way to lose a row.
4. *A terminal position that cannot be read counts as a committed tail*
   (`KafkaPosition.cfg` with `MCKafkaSource`, `CleanStopCommitted`). No snapshot is
   kept (`kafka.rs:2211`), the commit returns `Ok(true)` for want of one, and
   "drained tail committed" is logged, of which `kafka.rs:2303` says "its presence
   is the primary pass criterion for drain verification". Rows are replayed, not
   lost.
5. *Two accumulators in series can ack early* (`AccumulatorsInSeries.cfg` with
   `MCBatchAccumulator`, `AckedIsWritten`). A split leaves the Markers on the first
   slice (`batch_accumulator.rs:222`), which is right as they do not cover their own
   batch. Behind an accumulator with a larger `batch_size` they do: its merged batch
   has the rows the Marker covers and the Marker, and a smaller accumulator behind
   it splits that batch. `docs/batch-accumulator-checkpointing.md` says "A
   checkpoint marker on batch N means "all data up to this point has been
   delivered."" Whether a plan has two in series depends on its configuration.
6. *The hybrid source's phase is saved ahead of the sink* (`HybridPhase.cfg` with
   `MCHybridSource`, `PhaseIsWritten`). The last rows of a bounded phase are sent,
   not written, when the next phase is saved (`hybrid.rs:901`); a process that dies
   then resumes in Kafka and never sends them again.
7. *Two copies of a Marker disagree on what they cover* (`HybridPhase.cfg` with
   `OffsetsAreWritten` in its place). The hybrid source's forwarder and the inner
   Kafka source both receive a Marker, and both put it on a batch. The sink acks the
   first copy; if that is the forwarder's, the inner source may take its snapshot
   after it, with rows that are still on their way, and commits that snapshot on the
   Finalizer. The comment at `hybrid.rs:1485` says of the second copy "Duplicate
   Acks are wasted work, never wrong results".

8. *A row can be counted twice after a crash* (`LandingTwice.cfg` with `MCSinks`,
   `CountedOnce`). `README.md:766` says "When checkpoint epoch N is finalized, all
   data from epoch N-1 is deleted"; what is deleted is every label up to N-1
   (`pg.rs:625`), and there are three ways in which that takes a row which will be
   sent again. The source tolerates a failed commit (`kafka.rs:2161`) and still
   passes the Finalizer on to the sink. Labels outlive the process while epochs
   start at 1 in each (`CM:729`): the rows a dead process had written after its
   last commit are deleted by the first Finalizers of the next one, if these
   overtake the rows. And behind an exchange rows are sent on before the Marker of
   their batch (`repartition.rs:497-512`): if the rebatcher lets them through by
   size or by its timer, they are labelled e-1 (`batch_processor.rs:254-281`) although they lie
   beyond the position of epoch e, and Finalizer e deletes them
   (`batch_processor.rs:138`). The last needs neither a failed commit nor an earlier
   process: `LandingAhead.cfg` with `MCSinks` (`CountedOnceUnlessOvertaken`).
   `CountedTwiceOnlyIfOvertaken` shows that, in the model, these are all; with one
   stream and no exchange only the first two are left.

Observations on the code that are not claims of a doc, met while modelling:

- Hybrid: the log line at `hybrid.rs:1429` ("next restart will probe per-phase
  state") does not come true, because the first start has saved phase 0 and a
  restart resumes it. `HybridTableProvider::shutdown()` downcasts the unbounded
  source to the Kafka provider, which it is wrapped around, and does nothing. The
  inner Kafka source has no checkpoint control, so the tail of a clean stop is
  replayed. The offsets are looked up at the hand-over, the bounded source's last
  key at the start of its scan. The comment at `hybrid.rs:877` ("In job_mode the
  unbounded phase never runs") is true of the process that finishes the bounded
  phases: it seeds nothing, saves the unbounded phase and ends. If the job is
  started again it resumes in that phase (`hybrid.rs:605-609`) and opens Kafka
  (`hybrid.rs:1241-1265`), from the configured default.
- Broadcast: a source error leaves the plan's output before the writers are
  joined; a sink that fails while an unbounded source goes on is reported when the
  source's stream ends.
- Run loop: with 20 or more plugin instances whose channels are full, the floors of
  the Terminate sends use up the margin, and the watchdog ends a teardown that began in
  time, before the plugins are joined (`RunLoopFloors.cfg` with `MCRunLoop`,
  `NotKilledWithMargin`). The ladder of scopes may use up all that remains and leave plugins no
  time to flush (the exit code is then 1). The 5 s a send to a full plugin channel
  may take under a shutdown is per message and not capped by the budget. A plugin
  that asks for a shutdown in a job with several sources makes the others stop
  part-way, and the job exits with 0.

Two statements of `docs/checkpointing.allium` do not describe the code either,
and are not turned into runs: "at most 1 pending epoch at any time" (line 332;
the terminal epoch is minted beside a pending timer epoch, `CM:492`), and "If no
sinks exist, the epoch finalizes immediately on creation" (line 188; it stays
pending until the sweep removes it).

## 6. Not modelled, and the plan

Out of reach or without protocol state: SQL text, decoding and type conversion,
configuration, telemetry, the admin API, WASM and remote handlers, vendored and
generated code.

Left out for reasons of their own:

- *Kafka sink, HTTP, print, blackhole and memory providers, ClickHouse sink*: they
  write a batch and ack through the gate, which is `ParallelSink`'s write task; what
  is left is I/O and statement text.
- *Row operators, wrapping sink operator, SQL functions, the aggregates' SQL*: data
  per batch, without protocol state.
- *Locks of the coordinator* (`CM:488`): every critical section is one step, which
  presumes that the lock order is respected; it was read in the code.
- *Several Kafka instances per source* (`kafka.rs:275`): the group protocol is
  librdkafka's and the broker's.

Planned, in this order:

1. An abstract specification of the coordinator, implemented by
   `CheckpointCoordinator` and presumed by the sources and by `RunLoop`, which each
   have a reduced copy of it.
2. File sources (progress of a file against Marker and Finalizer); source and
   operator plugins; retry; the checkpointable wrapper.

## 7. Running it

```
cd tla
tlc -workers 2 -config CoordinatorAcks.cfg MCCheckpointCoordinator
tlapm CheckpointCoordinatorProofs.tla
```

`PROJECT.json` names the module and configuration of each run.
