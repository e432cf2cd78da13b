-------------------------- MODULE BatchAccumulator --------------------------
(***************************************************************************)
(* The batch accumulator (streamling-core/src/utils/batch_accumulator.rs), *)
(* which RebatchExec and the fan-out sink put in front of a transform or a *)
(* sink: small batches are queued and merged, large ones are split at      *)
(* batch_size rows, and the checkpoint messages that ride on a batch stay  *)
(* behind the rows they cover.                                             *)
(*                                                                         *)
(* A pipeline has one accumulator per stage that sets batch_size: stage 1  *)
(* reads the source, stage Stages feeds the sink, and the operators in     *)
(* between hand on each batch with its messages.  A stage is an async      *)
(* generator: it runs only when the next one polls it, so it takes no step *)
(* while a batch it yielded has not been taken.                            *)
(*                                                                         *)
(* A Marker covers the rows read before it reached the source, which are   *)
(* the rows of the batches BEFORE the one it rides on (kafka.rs: messages  *)
(* received after a batch was built ride the next one).                    *)
(*                                                                         *)
(* current_row_count and current_column_payload_sizes are sums over the    *)
(* queue, updated by push and recomputed by flush; here they are Rows and  *)
(* Payload of the queue.                                                   *)
(***************************************************************************)
EXTENDS Naturals, Sequences, FiniteSets, SequencesExt

CONSTANTS Stages,        \* number of accumulators in series
          Sizes,         \* the batch_size values a stage may be configured with
          MaxRow,        \* bound: rows of the source
          MaxBatch,      \* bound: rows of one batch of the source
          MaxEpoch,      \* bound: epochs
          Columns,       \* the columns with i32 offsets
          Bytes,         \* [row -> [column -> payload]]
          MaxColumnBytes \* MAX_MERGED_COLUMN_BYTES, what one concat may hold

ASSUME AccumulatorAssumption ==
    /\ Stages \in Nat \ {0}
    /\ Sizes \subseteq Nat
    /\ {MaxRow, MaxBatch, MaxEpoch, MaxColumnBytes} \subseteq Nat
    /\ Bytes \in [1..MaxRow -> [Columns -> Nat]]

VARIABLES
    size,    \* [stage -> batch_size], fixed by the configuration
    timed,   \* [stage -> batch_flush_interval is set], fixed as well
    queue,   \* [stage -> accumulated_batches]
    pc,      \* [stage -> where process_stream is]
    carries, \* [stage -> the batch being handled carries checkpoint messages]
    wire,    \* [0..Stages -> the batch yielded and not yet taken, as 0 or 1 batches]
    source,  \* "open", "ended" or "failed"
    rows,    \* rows the source has read
    covers,  \* [epoch -> rows read before its Marker], a history variable
    out      \* the batches the sink has written, with their Markers acked

vars == <<size, timed, queue, pc, carries, wire, source, rows, covers, out>>

Stage == 1..Stages
Epochs == DOMAIN covers

-----------------------------------------------------------------------------
(* Batches: a sequence of rows and a sequence of Markers.                  *)

Batch(rs, ms) == [rows |-> rs, marks |-> ms]

\* The rows and the Markers of a sequence of batches.
AllRows(bs) == FlattenSeq([i \in DOMAIN bs |-> bs[i].rows])
AllMarks(bs) == FlattenSeq([i \in DOMAIN bs |-> bs[i].marks])
Rows(bs) == Len(AllRows(bs))

\* What the batches put into the i32-offset buffer of one column.
Payload(bs, c) ==
    LET rs == AllRows(bs)
        sum[i \in 0..Len(rs)] == IF i = 0 THEN 0 ELSE sum[i - 1] + Bytes[rs[i]][c]
    IN  sum[Len(rs)]

Overflows(bs) == \E c \in Columns : Payload(bs, c) > MaxColumnBytes

-----------------------------------------------------------------------------
(* BatchAccumulator: the queue of one stage.                               *)

ShouldFlushBySize(q, n) == Rows(q) >= n \/ Overflows(q)

\* A wrong variant: the byte budget is not looked at.
FitsByRows(q, n, k) == \A i \in 1..k : Rows(SubSeq(q, 1, i)) <= n

\* flush packs the first k batches whole: none crosses batch_size, and none but
\* the first crosses the byte budget.
Fits(q, n, k) ==
    \A i \in 1..k : LET front == SubSeq(q, 1, i)
                    IN  Rows(front) <= n /\ (i > 1 => ~Overflows(front))

Whole(q, n) == CHOOSE k \in 0..Len(q) :
                   Fits(q, n, k) /\ (k < Len(q) => ~Fits(q, n, k + 1))

\* The rows that flush takes of the batch behind the k whole ones.  A batch is
\* never split for the byte budget, and with batch_size 0 it goes out whole.
Needed(q, n, k) ==
    CASE k = Len(q) -> 0
      [] k > 0 /\ Overflows(SubSeq(q, 1, k + 1)) -> 0
      [] k = 0 /\ n = 0 -> Len(q[1].rows)
      [] OTHER -> n - Rows(SubSeq(q, 1, k))

\* A wrong variant: both halves of a split keep the Markers.
RemainderUnstripped(b, i) == <<Batch(SubSeq(b.rows, i + 1, Len(b.rows)), b.marks)>>

\* What a split leaves at the front of the queue: the rest of the rows, after
\* strip_checkpoint_messages.
Remainder(b, i) ==
    IF i = Len(b.rows) THEN <<>> ELSE <<Batch(SubSeq(b.rows, i + 1, Len(b.rows)), <<>>)>>

\* flush: the batches it returns and the queue it leaves.
Flush(q, n) ==
    LET k == Whole(q, n)
        i == Needed(q, n, k)
        b == q[k + 1]
    IN  IF i = 0
        THEN [batches |-> SubSeq(q, 1, k), left |-> SubSeq(q, k + 1, Len(q))]
        ELSE [batches |-> Append(SubSeq(q, 1, k), Batch(SubSeq(b.rows, 1, i), b.marks)),
              left |-> Remainder(b, i) \o SubSeq(q, k + 2, Len(q))]

\* push: an empty batch is kept for its Markers only.
Pushed(q, b) == IF b.rows = <<>> /\ b.marks = <<>> THEN q ELSE Append(q, b)

\* push flushes at once: the size is reached, or a Marker with nothing before it.
PushFlushes(q, n, b) ==
    IF b.rows = <<>> THEN b.marks # <<>> /\ Rows(q) = 0
    ELSE ShouldFlushBySize(Append(q, b), n)

-----------------------------------------------------------------------------
(* process_stream: the generator of one stage.                             *)

\* merge_batches: one batch with all rows and all Markers.
Merge(bs) == Batch(AllRows(bs), AllMarks(bs))

\* concat_batches fails if two or more batches with rows overflow a column.
MergeFails(bs) ==
    /\ Cardinality({i \in DOMAIN bs : bs[i].rows # <<>>}) > 1
    /\ Overflows(bs)

\* flush and yield_merged!: hand on the merged batch and go on at next, or fail
\* and drop the queue.
FlushOne(s, q, taken, next) ==
    \E f \in {Flush(q, size[s])} :
        IF MergeFails(f.batches)
        THEN /\ pc' = [pc EXCEPT ![s] = "failed"]
             /\ queue' = [queue EXCEPT ![s] = <<>>]
             /\ wire' = taken
        ELSE /\ pc' = [pc EXCEPT ![s] = next]
             /\ queue' = [queue EXCEPT ![s] = f.left]
             /\ wire' = [taken EXCEPT ![s] = <<Merge(f.batches)>>]

Idle(s) == pc[s] = "read" /\ wire[s] = <<>>

\* A wrong variant: a batch without rows is handed on at once, past the queue.
ReceiveBypass(s) ==
    /\ Idle(s) /\ wire[s - 1] # <<>>
    /\ LET b == wire[s - 1][1]
           taken == [wire EXCEPT ![s - 1] = <<>>]
       IN  IF b.rows = <<>> THEN wire' = [taken EXCEPT ![s] = <<b>>] /\ UNCHANGED <<queue, pc>>
           ELSE /\ pc' = [pc EXCEPT ![s] = "drain"]
                /\ queue' = [queue EXCEPT ![s] = Append(@, b)]
                /\ wire' = taken
    /\ UNCHANGED <<size, timed, carries, source, rows, covers, out>>

\* handle_batch!: push the batch that was read.
Receive(s) ==
    /\ Idle(s) /\ wire[s - 1] # <<>>
    /\ LET b == wire[s - 1][1]
           q == Pushed(queue[s], b)
           taken == [wire EXCEPT ![s - 1] = <<>>]
       IN  /\ carries' = [carries EXCEPT ![s] = b.marks # <<>>]
           /\ IF PushFlushes(queue[s], size[s], b) THEN FlushOne(s, q, taken, "drain")
              ELSE /\ pc' = [pc EXCEPT ![s] = "drain"]
                   /\ queue' = [queue EXCEPT ![s] = q]
                   /\ wire' = taken
    /\ UNCHANGED <<size, timed, source, rows, covers, out>>

\* A wrong variant: a batch with Markers waits for the size like any other.
MustDrainBySize(s) == queue[s] # <<>> /\ ShouldFlushBySize(queue[s], size[s])

\* The loop of handle_batch! behind the push goes on: a batch that carries
\* Markers drains the queue, any other one while the size is reached.
MustDrain(s) ==
    queue[s] # <<>> /\ (carries[s] \/ ShouldFlushBySize(queue[s], size[s]))

Drain(s) ==
    /\ pc[s] = "drain" /\ wire[s] = <<>>
    /\ IF MustDrain(s) THEN FlushOne(s, queue[s], wire, "drain")
       ELSE pc' = [pc EXCEPT ![s] = "read"] /\ UNCHANGED <<queue, wire>>
    /\ UNCHANGED <<size, timed, carries, source, rows, covers, out>>

\* timer.tick() with the interval elapsed since the last flush.
Tick(s) ==
    /\ timed[s] /\ Idle(s) /\ queue[s] # <<>>
    /\ FlushOne(s, queue[s], wire, "read")
    /\ UNCHANGED <<size, timed, carries, source, rows, covers, out>>

\* What stage s reads when no batch is left for it.
InputState(s) ==
    IF s = 1 THEN source
    ELSE [read |-> "open", drain |-> "open", end |-> "open",
          done |-> "ended", failed |-> "failed"][pc[s - 1]]

ReadEnd(s) ==
    /\ Idle(s) /\ wire[s - 1] = <<>> /\ InputState(s) = "ended"
    /\ pc' = [pc EXCEPT ![s] = "end"]
    /\ UNCHANGED <<size, timed, queue, carries, wire, source, rows, covers, out>>

\* The stream ends with the error at once; what is queued is dropped.
ReadError(s) ==
    /\ Idle(s) /\ wire[s - 1] = <<>> /\ InputState(s) = "failed"
    /\ pc' = [pc EXCEPT ![s] = "failed"]
    /\ queue' = [queue EXCEPT ![s] = <<>>]
    /\ UNCHANGED <<size, timed, carries, wire, source, rows, covers, out>>

\* A wrong variant: the end of the input is the end of the stream.
FlushRestNot(s) ==
    /\ pc[s] = "end" /\ wire[s] = <<>>
    /\ pc' = [pc EXCEPT ![s] = "done"]
    /\ UNCHANGED <<size, timed, queue, carries, wire, source, rows, covers, out>>

\* The input has ended: flush until the queue is empty.
FlushRest(s) ==
    /\ pc[s] = "end" /\ wire[s] = <<>>
    /\ IF queue[s] # <<>> THEN FlushOne(s, queue[s], wire, "end")
       ELSE pc' = [pc EXCEPT ![s] = "done"] /\ UNCHANGED <<queue, wire>>
    /\ UNCHANGED <<size, timed, carries, source, rows, covers, out>>

-----------------------------------------------------------------------------
(* The source and the sink.                                                *)

\* The source builds a batch of k rows; the Markers it received since the last
\* one ride on it.  Each covers the rows read before this batch.
Produce(k, e) ==
    /\ source = "open" /\ wire[0] = <<>>
    /\ rows + k <= MaxRow /\ Cardinality(Epochs) + e <= MaxEpoch
    /\ LET last == Cardinality(Epochs)
       IN  /\ wire' = [wire EXCEPT ![0] =
                          <<Batch([i \in 1..k |-> rows + i], [i \in 1..e |-> last + i])>>]
           /\ covers' = [i \in 1..(last + e) |-> IF i <= last THEN covers[i] ELSE rows]
    /\ rows' = rows + k
    /\ UNCHANGED <<size, timed, queue, pc, carries, source, out>>

SourceStops(how) ==
    /\ source = "open"
    /\ source' = how
    /\ UNCHANGED <<size, timed, queue, pc, carries, wire, rows, covers, out>>

\* The sink writes the batch and then acks its Markers, before it polls again.
Write ==
    /\ wire[Stages] # <<>>
    /\ out' = Append(out, wire[Stages][1])
    /\ wire' = [wire EXCEPT ![Stages] = <<>>]
    /\ UNCHANGED <<size, timed, queue, pc, carries, source, rows, covers>>

Over == \A s \in Stage : pc[s] \in {"done", "failed"} /\ wire[s] = <<>>

Finished == Over /\ UNCHANGED vars

-----------------------------------------------------------------------------
Init ==
    /\ size \in [Stage -> Sizes]
    /\ timed \in [Stage -> BOOLEAN]
    /\ queue = [s \in Stage |-> <<>>]
    /\ pc = [s \in Stage |-> "read"]
    /\ carries = [s \in Stage |-> FALSE]
    /\ wire = [s \in 0..Stages |-> <<>>]
    /\ source = "open"
    /\ rows = 0
    /\ covers = <<>>
    /\ out = <<>>

StageStep(s) ==
    Receive(s) \/ Drain(s) \/ ReadEnd(s) \/ ReadError(s) \/ FlushRest(s)

Next ==
    \/ \E k \in 0..MaxBatch, e \in 0..MaxEpoch : Produce(k, e)
    \/ \E how \in {"ended", "failed"} : SourceStops(how)
    \/ \E s \in Stage : StageStep(s) \/ Tick(s)
    \/ Write
    \/ Finished

Spec == Init /\ [][Next]_vars

\* The tasks are polled for ever; select! polls its branches in random order, so
\* a timer that is due over and over is served.  The source owes nothing.
FairSpec ==
    /\ Spec
    /\ WF_vars(Write)
    /\ \A s \in Stage : WF_vars(StageStep(s)) /\ SF_vars(Tick(s))

-----------------------------------------------------------------------------
(* Properties.                                                             *)

BatchOK(b) == b.rows \in Seq(1..MaxRow) /\ b.marks \in Seq(1..MaxEpoch)

\* Type invariant: queues and wires hold batches, and what a queue holds has
\* rows or Markers (push drops an empty batch without messages).
TypeOK ==
    /\ size \in [Stage -> Sizes] /\ timed \in [Stage -> BOOLEAN]
    /\ pc \in [Stage -> {"read", "drain", "end", "done", "failed"}]
    /\ carries \in [Stage -> BOOLEAN]
    /\ \A s \in Stage : \A i \in DOMAIN queue[s] :
           BatchOK(queue[s][i]) /\ (queue[s][i].rows # <<>> \/ queue[s][i].marks # <<>>)
    /\ \A s \in 0..Stages : \A i \in DOMAIN wire[s] : i = 1 /\ BatchOK(wire[s][i])
    /\ source \in {"open", "ended", "failed"}
    /\ rows \in 0..MaxRow
    /\ covers \in Seq(0..MaxRow)
    /\ \A i \in DOMAIN out : BatchOK(out[i])

\* All that is behind the source, oldest first.
InFlight ==
    LET behind == [i \in 1..Stages |-> wire[Stages + 1 - i] \o queue[Stages + 1 - i]]
    IN  out \o FlattenSeq(behind) \o wire[0]

\* However batches are split, merged and flushed, no row is lost, repeated or
\* reordered unless the stream has failed, and no Marker is lost or doubled
\* ("It must not be lost ... or duplicated", batch-accumulator.allium).
NothingLost ==
    (\A s \in Stage : pc[s] # "failed") =>
        /\ AllRows(InFlight) = [i \in 1..rows |-> i]
        /\ AllMarks(InFlight) = [i \in Epochs |-> i]

\* The row is in one of the first n batches the sink has written.
Written(r, n) == \E i \in 1..n : r \in ToSet(out[i].rows)

Acked(e) == \E i \in DOMAIN out : e \in ToSet(out[i].marks)

\* The sink acks an epoch only with every row written that its Marker covers:
\* the Finalizer of that epoch lets the source commit past those rows.
AckedIsWritten ==
    \A i \in DOMAIN out : \A e \in ToSet(out[i].marks) :
        \A r \in 1..covers[e] : Written(r, i)

\* Merging never overflows an i32 offset buffer: the stream fails only if the
\* source did.
MergeNeverOverflows ==
    (\E s \in Stage : pc[s] = "failed") => source = "failed"

\* With a flush interval every row reaches the sink however slowly rows come in;
\* without one, at the latest when the input ends.  The source of the model comes
\* to a pause after MaxRow rows, so it is caught up with again and again.
RowsLeave ==
    (source = "ended" \/ \A s \in Stage : timed[s]) ~>
        (source = "failed" \/ \A r \in 1..rows : Written(r, Len(out)))

\* A Marker reaches the sink without a flush interval and without the end of the
\* input: the source may hold its stream open until the epoch is finalized, and
\* an accumulator that kept the Marker would wait for it for ever.
MarkersLeave == []<>(source = "failed" \/ \A e \in Epochs : Acked(e))

\* Whatever is pushed leaves: rows with the interval or the end, Markers anyway.
EverythingLeaves == RowsLeave /\ MarkersLeave
=============================================================================
