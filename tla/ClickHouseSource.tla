-------------------------- MODULE ClickHouseSource --------------------------
(***************************************************************************)
(* The ClickHouse source (ClickHouseSourceExec::execute) across crashes    *)
(* and restarts: the scan loop that reads a range, emits it in chunks and  *)
(* moves the cursor, and the checkpointing task that buffers Markers for   *)
(* the scan loop and saves the cursor when a Finalizer arrives.  The two   *)
(* share the buffer and the split, each behind its own mutex, so a step    *)
(* ends wherever one of them is released or a send or a put is awaited.    *)
(*                                                                         *)
(* The table does not change.  The coordinator and the sink are what       *)
(* CheckpointCoordinator promises of them: the sink writes batches in      *)
(* order and a Finalizer is sent only for an epoch whose Marker it has     *)
(* written up to.  State backend and sink table outlive the process.       *)
(***************************************************************************)
EXTENDS RangeController, Sequences, FiniteSets

CONSTANTS
    Tables,           \* the tables to scan: finite sets of rows
    Bytes(_),         \* get_array_memory_size of a page with these rows
    SortKeyRange,     \* sort_key_range, or DEFAULT_SORT_KEY_RANGE
    MinSortKeyRange,  \* MIN_SORT_KEY_RANGE
    ChunkSize,        \* record_batch_size
    Capacity,         \* datafusion_buffer_size
    MaxEpoch,         \* bound: epochs minted, over all processes
    Faults,           \* the kinds of failure that may happen
    MaxFaults         \* bound: how many of them do

FaultKinds == {"probe", "timeout", "query", "page", "put", "sink", "crash"}

\* A row has a first sorting key, and the version dedup keeps it or not.
ASSUME SourceAssumption ==
    /\ \A t \in Tables : /\ IsFiniteSet(t)
                         /\ \A r \in t : r.key \in 0 .. MaxKey /\ r.kept \in BOOLEAN
                         /\ \A rows \in SUBSET t : Bytes(rows) \in Nat
    /\ SortKeyRange \in Nat \ {0} /\ MinSortKeyRange \in Nat \ {0}
    /\ ChunkSize \in Nat \ {0} /\ Capacity \in Nat \ {0}
    /\ MaxEpoch \in Nat /\ Faults \subseteq FaultKinds /\ MaxFaults \in Nat

Epochs == 1 .. MaxEpoch
NoCursor == -1           \* a split without args, or no split
MaxCursor == MaxKey + Larger(MaxKey, SortKeyRange)

VARIABLES
    table,      \* the table that is scanned
    saved,      \* the state backend: the cursor of the saved split
    written,    \* the rows in the sink's table
    pc,         \* the scan loop
    page,       \* the rows of the page that are still to be emitted
    hand,       \* the batch that is being sent
    split,      \* the cursor in the shared split
    task,       \* the checkpointing task
    copy,       \* its clone of the split
    buffer,     \* checkpoint_buffer
    inbox,      \* the checkpoint receiver
    pipe,       \* the stream to the sink
    gone,       \* the sink has dropped the stream
    epoch,      \* the coordinator: the last epoch minted
    acked,      \* the epochs the sink has acked
    shutdown,   \* the process was asked to stop
    faults,     \* failures so far
    start,      \* where the scan of this process began
    sent,       \* the rows it has put on its stream
    everSent    \* the rows any process has

storeVars == <<table, saved, written>>
scanVars  == <<controllerVars, page, hand, split>>
taskVars  == <<task, copy>>
sinkVars  == <<gone, epoch, acked>>
sentVars  == <<start, sent, everSent>>
vars == <<storeVars, scanVars, pc, taskVars, buffer, inbox, pipe, sinkVars,
          shutdown, faults, sentVars>>

Messages == [kind : {"Marker", "Finalizer"}, epoch : Epochs]
Marker(e) == [kind |-> "Marker", epoch |-> e]
Finalizer(e) == [kind |-> "Finalizer", epoch |-> e]

Batch(rows, msgs) == [rows |-> rows, msgs |-> msgs, error |-> FALSE]
ErrorItem == [rows |-> {}, msgs |-> <<>>, error |-> TRUE]
NoBatch == Batch({}, <<>>)
IsBatch(b) == b.rows \subseteq table /\ b.msgs \in Seq(Messages) /\ b.error \in BOOLEAN

TypeOK ==
    /\ table \in Tables /\ saved \in NoCursor .. MaxCursor /\ written \subseteq table
    /\ rangeStart \in 0 .. MaxCursor /\ maxWidth \in 1 .. Larger(MaxKey, SortKeyRange)
    /\ width \in 1 .. maxWidth
    /\ pc \in {"down", "top", "size", "read", "emit", "send", "advance", "fail",
               "drain", "flush", "unsubscribe", "ended"}
    /\ page \subseteq table /\ IsBatch(hand)
    /\ split \in NoCursor .. MaxCursor
    /\ task \in {"recv", "clone", "put", "exited"} /\ copy \in NoCursor .. MaxCursor
    /\ buffer \in Seq(Messages) /\ inbox \in Seq(Messages)
    /\ Len(pipe) <= Capacity /\ \A i \in 1 .. Len(pipe) : IsBatch(pipe[i])
    /\ gone \in BOOLEAN /\ epoch \in 0 .. MaxEpoch /\ acked \subseteq Epochs
    /\ shutdown \in BOOLEAN /\ faults \in 0 .. MaxFaults
    /\ start \in 0 .. MaxCursor /\ sent \subseteq table /\ everSent \subseteq table

Fault(kind) == kind \in Faults /\ faults < MaxFaults /\ faults' = faults + 1

\* What a query for keys in [lo, hi) finds, and what the dedup leaves of it.
Between(lo, hi) == {r \in table : lo <= r.key /\ r.key < hi}
Count(lo, hi) == Cardinality(Between(lo, hi))
Kept(lo, hi) == {r \in Between(lo, hi) : r.kept}

Forget ==
    /\ page' = {} /\ hand' = NoBatch
    /\ task' = "recv" /\ copy' = NoCursor
    /\ buffer' = <<>> /\ inbox' = <<>> /\ pipe' = <<>>
    /\ gone' = FALSE /\ shutdown' = FALSE /\ sent' = {}

Init ==
    /\ table \in Tables
    /\ saved = NoCursor /\ written = {}
    /\ rangeStart = 0 /\ width = 1 /\ maxWidth = 1
    /\ pc = "down" /\ page = {} /\ hand = NoBatch /\ split = NoCursor
    /\ task = "recv" /\ copy = NoCursor
    /\ buffer = <<>> /\ inbox = <<>> /\ pipe = <<>>
    /\ gone = FALSE /\ epoch = 0 /\ acked = {} /\ shutdown = FALSE /\ faults = 0
    /\ start = 0 /\ sent = {} /\ everSent = {}

-----------------------------------------------------------------------------
(* The scan loop.                                                           *)

\* The first width: configured, the minimum after a failed probe, or sized from
\* the density the probe found.
InitialWidths(from) ==
    LET span == Smaller(Larger(MaxKey - from + 1, 1), SortKeyRange)
        count == Count(from, from + span)
    IN  {SortKeyRange, MinSortKeyRange,
         IF count = 0 THEN span
                      ELSE Smaller((PageSize * span) \div count, span * GrowCeiling)}

\* new_source loads the split, execute subscribes and spawns the task.
Start ==
    /\ pc = "down"
    /\ split' = saved
    /\ LET from == Larger(saved, 0) IN
          /\ start' = from
          /\ \E w \in InitialWidths(from) : New(from, w, Larger(MaxKey - from, SortKeyRange))
    /\ pc' = "top"
    /\ UNCHANGED <<storeVars, page, hand, taskVars, buffer, inbox, pipe, sinkVars,
                   shutdown, faults, sent, everSent>>

\* Between pages: the scan is over, or the process is asked to stop.
Top ==
    /\ pc = "top"
    /\ pc' = IF IsDone \/ shutdown THEN "drain" ELSE "size"
    /\ UNCHANGED <<storeVars, scanVars, taskVars, buffer, inbox, pipe, sinkVars,
                   shutdown, faults, sentVars>>

\* Count-first sizing: the range shrinks until its count fits.
SizeShrink ==
    /\ pc = "size" /\ ~ AtMinWidth
    /\ Count(rangeStart, UpperBound) > PageSize
    /\ ShrinkToFitCount(Count(rangeStart, UpperBound))
    /\ UNCHANGED <<storeVars, page, hand, split, pc, taskVars, buffer, inbox, pipe,
                   sinkVars, shutdown, faults, sentVars>>

SizeFits ==
    /\ pc = "size"
    /\ AtMinWidth \/ Count(rangeStart, UpperBound) <= PageSize
    /\ pc' = "read"
    /\ UNCHANGED <<storeVars, scanVars, taskVars, buffer, inbox, pipe, sinkVars,
                   shutdown, faults, sentVars>>

SizeProbeFails ==
    /\ pc = "size" /\ ~ AtMinWidth
    /\ Fault("probe")
    /\ pc' = "read"
    /\ UNCHANGED <<storeVars, scanVars, taskVars, buffer, inbox, pipe, sinkVars,
                   shutdown, sentVars>>

\* The query has LIMIT PageSize + 1; of an overflow it returns any such rows.
Read == Between(rangeStart, UpperBound)
Overflows(bytes) == Cardinality(Read) > PageSize \/ bytes > MaxPageBytes
ReadBytes ==
    IF Cardinality(Read) <= PageSize THEN {Bytes(Read)}
    ELSE {Bytes(rows) : rows \in {s \in SUBSET Read : Cardinality(s) = PageSize + 1}}

ReadTimeout ==
    /\ pc = "read"
    /\ Fault("timeout")
    /\ OnTimeout
    /\ pc' = "top"
    /\ UNCHANGED <<storeVars, page, hand, split, taskVars, buffer, inbox, pipe,
                   sinkVars, shutdown, sentVars>>

ReadRetry ==
    /\ pc = "read"
    /\ Fault("query")
    /\ pc' = "top"
    /\ UNCHANGED <<storeVars, scanVars, taskVars, buffer, inbox, pipe, sinkVars,
                   shutdown, sentVars>>

\* The page does not decode, or its version dedup fails.
ReadFails ==
    /\ pc = "read"
    /\ Fault("page")
    /\ pc' = "fail"
    /\ UNCHANGED <<storeVars, scanVars, taskVars, buffer, inbox, pipe, sinkVars,
                   shutdown, sentVars>>

\* A single key that does not fit a page ends the scan with an error.
ReadUnsplittable ==
    /\ pc = "read" /\ AtMinWidth
    /\ \E b \in ReadBytes : Overflows(b)
    /\ pc' = "fail"
    /\ UNCHANGED <<storeVars, scanVars, taskVars, buffer, inbox, pipe, sinkVars,
                   shutdown, faults, sentVars>>

\* The same range is read again, smaller.
ReadOverflow ==
    /\ pc = "read" /\ ~ AtMinWidth
    /\ \E b \in ReadBytes :
          /\ Overflows(b)
          /\ \/ OnOverflowProbed(Cardinality(Read), b) /\ UNCHANGED faults
             \/ OnOverflowUnprobed(b) /\ Fault("probe")
    /\ pc' = "top"
    /\ UNCHANGED <<storeVars, page, hand, split, taskVars, buffer, inbox, pipe,
                   sinkVars, shutdown, sentVars>>

\* A wrong variant: the split moves when the page has been read.
ReadPageSaves ==
    /\ pc = "read"
    /\ ~ Overflows(Bytes(Read))
    /\ page' = Kept(rangeStart, UpperBound)
    /\ split' = UpperBound
    /\ pc' = "emit"
    /\ UNCHANGED <<storeVars, controllerVars, hand, taskVars, buffer, inbox, pipe,
                   sinkVars, shutdown, faults, sentVars>>

ReadPage ==
    /\ pc = "read"
    /\ ~ Overflows(Bytes(Read))
    /\ page' = Kept(rangeStart, UpperBound)
    /\ pc' = "emit"
    /\ UNCHANGED <<storeVars, controllerVars, hand, split, taskVars, buffer, inbox,
                   pipe, sinkVars, shutdown, faults, sentVars>>

\* The next chunk of the page, one empty batch for an empty page, takes the
\* buffered messages along.
AttachCheckpoints ==
    /\ pc = "emit"
    /\ \E rows \in SUBSET page :
          /\ Cardinality(rows) = Smaller(ChunkSize, Cardinality(page))
          /\ hand' = Batch(rows, buffer)
          /\ page' = page \ rows
    /\ buffer' = <<>>
    /\ pc' = "send"
    /\ UNCHANGED <<storeVars, controllerVars, split, taskVars, inbox, pipe, sinkVars,
                   shutdown, faults, sentVars>>

SendBatch ==
    /\ pc = "send" /\ ~ gone
    /\ Len(pipe) < Capacity
    /\ pipe' = Append(pipe, hand)
    /\ sent' = sent \cup hand.rows
    /\ everSent' = everSent \cup hand.rows
    /\ hand' = NoBatch
    /\ pc' = IF page = {} THEN "advance" ELSE "emit"
    /\ UNCHANGED <<storeVars, controllerVars, page, split, taskVars, buffer, inbox,
                   sinkVars, shutdown, faults, start>>

\* Whatever is sent to a receiver that is gone is dropped and the loop left.
SendDropped ==
    /\ pc \in {"send", "fail", "flush"} /\ gone
    /\ hand' = NoBatch /\ page' = {}
    /\ pc' = IF pc = "flush" THEN "unsubscribe" ELSE "drain"
    /\ UNCHANGED <<storeVars, controllerVars, split, taskVars, buffer, inbox, pipe,
                   sinkVars, shutdown, faults, sentVars>>

\* The cursor and the split pass the page.
Advance ==
    /\ pc = "advance"
    /\ OnComplete(Cardinality(Read), Bytes(Read))
    /\ split' = rangeStart'
    /\ pc' = "top"
    /\ UNCHANGED <<storeVars, page, hand, taskVars, buffer, inbox, pipe, sinkVars,
                   shutdown, faults, sentVars>>

SendError ==
    /\ pc = "fail" /\ ~ gone
    /\ Len(pipe) < Capacity
    /\ pipe' = Append(pipe, ErrorItem)
    /\ pc' = "drain"
    /\ UNCHANGED <<storeVars, scanVars, taskVars, buffer, inbox, sinkVars, shutdown,
                   faults, sentVars>>

\* A wrong variant: the messages that no batch took along are dropped.
JoinTaskDrops ==
    /\ pc = "drain"
    /\ task = "exited"
    /\ buffer' = <<>>
    /\ pc' = "unsubscribe"
    /\ UNCHANGED <<storeVars, scanVars, taskVars, inbox, pipe, sinkVars, shutdown,
                   faults, sentVars>>

\* The task has been told to exit and joined; build_checkpoint_flush_batch.
JoinTask ==
    /\ pc = "drain"
    /\ task = "exited"
    /\ hand' = Batch({}, buffer)
    /\ buffer' = <<>>
    /\ pc' = IF buffer = <<>> THEN "unsubscribe" ELSE "flush"
    /\ UNCHANGED <<storeVars, controllerVars, page, split, taskVars, inbox, pipe,
                   sinkVars, shutdown, faults, sentVars>>

SendFlush ==
    /\ pc = "flush" /\ ~ gone
    /\ Len(pipe) < Capacity
    /\ pipe' = Append(pipe, hand)
    /\ hand' = NoBatch
    /\ pc' = "unsubscribe"
    /\ UNCHANGED <<storeVars, controllerVars, page, split, taskVars, buffer, inbox,
                   sinkVars, shutdown, faults, sentVars>>

Unsubscribe ==
    /\ pc = "unsubscribe"
    /\ inbox' = <<>>
    /\ pc' = "ended"
    /\ UNCHANGED <<storeVars, scanVars, taskVars, buffer, pipe, sinkVars, shutdown,
                   faults, sentVars>>

-----------------------------------------------------------------------------
(* The checkpointing task.                                                  *)

\* Every message is buffered; a Finalizer is also acted on.
TaskRecv ==
    /\ pc # "down" /\ task = "recv"
    /\ inbox # <<>>
    /\ buffer' = Append(buffer, Head(inbox))
    /\ inbox' = Tail(inbox)
    /\ task' = IF Head(inbox).kind = "Finalizer" THEN "clone" ELSE "recv"
    /\ UNCHANGED <<storeVars, scanVars, pc, copy, pipe, sinkVars, shutdown, faults,
                   sentVars>>

TaskClone ==
    /\ task = "clone"
    /\ copy' = split
    /\ task' = "put"
    /\ UNCHANGED <<storeVars, scanVars, pc, buffer, inbox, pipe, sinkVars, shutdown,
                   faults, sentVars>>

\* save_split; the task only traces its result.
TaskPut ==
    /\ task = "put"
    /\ \/ saved' = copy /\ UNCHANGED faults
       \/ Fault("put") /\ UNCHANGED saved
    /\ copy' = NoCursor
    /\ task' = "recv"
    /\ UNCHANGED <<table, written, scanVars, pc, buffer, inbox, pipe, sinkVars,
                   shutdown, sentVars>>

\* The select is biased: the exit signal wins over waiting messages.
TaskExit ==
    /\ pc = "drain" /\ task = "recv"
    /\ task' = "exited"
    /\ UNCHANGED <<storeVars, scanVars, pc, copy, buffer, inbox, pipe, sinkVars,
                   shutdown, faults, sentVars>>

-----------------------------------------------------------------------------
(* The coordinator, the sink and the process.                               *)

Subscribed == pc \notin {"down", "ended"}

Mint ==
    /\ Subscribed
    /\ epoch < MaxEpoch
    /\ epoch' = epoch + 1
    /\ inbox' = Append(inbox, Marker(epoch + 1))
    /\ UNCHANGED <<storeVars, scanVars, pc, taskVars, buffer, pipe, gone, acked,
                   shutdown, faults, sentVars>>

\* The Finalizers of the epochs whose Markers are among msgs, in their order.
Finalizers(msgs) ==
    LET fs[i \in 0 .. Len(msgs)] ==
            IF i = 0 THEN <<>>
            ELSE IF msgs[i].kind = "Marker" THEN Append(fs[i - 1], Finalizer(msgs[i].epoch))
                 ELSE fs[i - 1]
    IN  fs[Len(msgs)]

\* The sink writes a batch and acks its Markers, whose epochs are finalized.
SinkWrite ==
    /\ ~ gone /\ pipe # <<>> /\ ~ Head(pipe).error
    /\ LET msgs == Head(pipe).msgs
           markers == {i \in 1 .. Len(msgs) : msgs[i].kind = "Marker"}
       IN  /\ acked' = acked \cup {msgs[i].epoch : i \in markers}
           /\ inbox' = IF Subscribed THEN inbox \o Finalizers(msgs) ELSE inbox
    /\ written' = written \cup Head(pipe).rows
    /\ pipe' = Tail(pipe)
    /\ UNCHANGED <<table, saved, scanVars, pc, taskVars, buffer, gone, epoch,
                   shutdown, faults, sentVars>>

\* The sink fails, because its stream does or on its own.
SinkDrops ==
    /\ gone' = TRUE
    /\ pipe' = <<>>
    /\ UNCHANGED <<storeVars, scanVars, pc, taskVars, buffer, inbox, epoch, acked,
                   shutdown, sentVars>>

SinkReadsError ==
    /\ ~ gone /\ pipe # <<>> /\ Head(pipe).error
    /\ SinkDrops
    /\ UNCHANGED faults

SinkFails ==
    /\ pc # "down" /\ ~ gone
    /\ Fault("sink")
    /\ SinkDrops

RequestShutdown ==
    /\ pc # "down" /\ ~ shutdown
    /\ shutdown' = TRUE
    /\ UNCHANGED <<storeVars, scanVars, pc, taskVars, buffer, inbox, pipe, sinkVars,
                   faults, sentVars>>

\* The process dies.
Crash ==
    /\ pc # "down"
    /\ Fault("crash")
    /\ Forget
    /\ rangeStart' = 0 /\ width' = 1 /\ maxWidth' = 1
    /\ split' = NoCursor /\ start' = 0
    /\ pc' = "down"
    /\ UNCHANGED <<storeVars, epoch, acked, everSent>>

\* The scan is over and all it sent is written: nothing is left to happen.
Finished ==
    /\ pc = "ended" /\ pipe = <<>>
    /\ UNCHANGED vars

ScanLoop ==
    \/ Start \/ Top \/ SizeShrink \/ SizeFits \/ SizeProbeFails
    \/ ReadTimeout \/ ReadRetry \/ ReadFails \/ ReadUnsplittable \/ ReadOverflow
    \/ ReadPage \/ AttachCheckpoints \/ SendBatch \/ SendDropped \/ Advance
    \/ SendError \/ JoinTask \/ SendFlush \/ Unsubscribe

CheckpointingTask == TaskRecv \/ TaskClone \/ TaskPut \/ TaskExit

Sink == SinkWrite \/ SinkReadsError

Next == ScanLoop \/ CheckpointingTask \/ Sink \/ SinkFails \/ Mint
        \/ RequestShutdown \/ Crash \/ Finished

Spec == Init /\ [][Next]_vars

\* Both tasks are scheduled and the sink reads on.  Failures are not fair, and
\* there are only so many of them.
FairSpec == Spec /\ WF_vars(ScanLoop) /\ WF_vars(CheckpointingTask) /\ WF_vars(Sink)

-----------------------------------------------------------------------------
(* Safety.                                                                  *)

\* "Emitted ranges therefore tile the key space with no gaps": what the scan has
\* put on its stream is all that the dedup keeps of the ranges behind the cursor,
\* and else only rows of the page in progress.
ScanTiles ==
    pc # "down" =>
       /\ Kept(start, rangeStart) \subseteq sent
       /\ sent \subseteq Kept(start, rangeStart) \cup Kept(rangeStart, UpperBound)
       /\ pc \in {"top", "size", "read"} => sent = Kept(start, rangeStart)
       /\ pc \in {"emit", "send", "advance"} =>
             sent \cup hand.rows \cup page = Kept(start, UpperBound)

\* No row is put on the stream twice by one scan, however often its range was
\* read.
EmittedOnce == hand.rows \cap sent = {}

\* "Nothing past the last emitted page is checkpoint-covered": the cursor that is
\* saved has only rows behind it that some scan has put on its stream.
SavedIsEmitted == saved # NoCursor => Kept(0, saved) \subseteq everSent

\* "restarting at range_start re-reads at most the in-progress range
\* (at-least-once ...)": the saved cursor has only rows behind it that the sink
\* has written.
SavedIsWritten == saved # NoCursor => Kept(0, saved) \subseteq written

(* Liveness.                                                                *)

\* The scan makes progress: it ends, with or without an error.
ScanEnds == pc # "down" ~> pc \in {"ended", "down"}

\* A Marker that the task has buffered reaches the sink, also when it was
\* buffered after the last page.
BufferedMarkerArrives ==
    \A e \in Epochs :
       (\E i \in 1 .. Len(buffer) : buffer[i] = Marker(e))
          ~> (e \in acked \/ gone \/ pc = "down")
=============================================================================
