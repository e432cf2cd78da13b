---------------------------- MODULE LandingTable ----------------------------
(***************************************************************************)
(* The postgres_aggregate sink over several processes: rows are upserted   *)
(* into a landing table, whose insert trigger adds them to the aggregates, *)
(* so a row that a restart sends again is counted once as long as it is    *)
(* still in the table.  Rows are labelled with the epoch of the last       *)
(* Marker before them, and Finalizer N deletes the labels up to N-1        *)
(* (streamling-connectors/src/table_providers/postgres/batch_processor.rs, *)
(* streamling-core/src/utils/pg.rs, operators/pg_aggregation.rs).          *)
(*                                                                         *)
(* Whether that is right depends on the parts around it, which are here in *)
(* the detail that matters: the Kafka source, which puts a Marker or       *)
(* Finalizer on the batch after the one it was received with and commits   *)
(* before it passes a Finalizer on; the coordinator, which counts epochs   *)
(* from 1 in every process; and the write streams of the sink, which share *)
(* the table and the ack but each have a label of their own.  Several      *)
(* streams are behind an exchange, which sends the rows of a batch on      *)
(* before its messages (operators/repartition.rs), and each is behind a    *)
(* rebatcher, which joins batches (utils/batch_accumulator.rs).            *)
(***************************************************************************)
EXTENDS Naturals, Sequences

CONSTANTS Writers,      \* the write streams of the sink
          WriterOf,     \* [row -> the stream its key hashes to]
          Exchanged,    \* the streams are behind an exchange or another merge point
          MaxRow,       \* bound: rows of the topic
          MaxBatch,     \* bound: rows of a batch
          MaxQueue,     \* batches a stream may hold
          MaxTag,       \* bound: epochs of a process
          MaxLife       \* bound: processes

Rows == 1..MaxRow
Tags == 1..MaxTag
NoTag == 0
Absent == [label |-> 0, by |-> 0]

ASSUME LandingAssumption ==
    /\ Writers # {} /\ WriterOf \in [Rows -> Writers]
    /\ Exchanged \in BOOLEAN
    /\ Exchanged \/ \A v, w \in Writers : v = w
    /\ MaxRow \in Nat /\ MaxBatch \in Nat /\ MaxTag \in Nat
    /\ MaxQueue \in Nat \ {0} /\ MaxLife \in Nat \ {0}

VARIABLES
    \* What outlives a process.
    saved,      \* the committed offset: rows up to it are not read again
    landing,    \* [row -> its label and the process that wrote it, or Absent]
    tally,      \* [row -> how often the trigger has added it to the aggregates]
    life,       \* the number of the process
    failed,     \* a commit has failed; one does at most
    overtaken,  \* a purge took an uncommitted row that another process had written
    ahead,      \* the rows that the exchange has sent on ahead of a Marker of their batch
    \* The source and the coordinator of the process.
    pos,        \* the rows read
    mail,       \* the coordinator's messages to the source
    riding,     \* checkpoint_messages_buffer: they ride the next batch
    snaps,      \* [epoch -> the position at its Marker]
    minted,     \* the last epoch minted
    open,       \* the epoch that is not finalized or timed out, or NoTag
    \* The write streams.
    queue,      \* [stream -> the batches on their way to it]
    hold,       \* [stream -> what it has left to do of the batch in hand]
    label,      \* [stream -> current_checkpoint_epoch]
    purgedTo,   \* the last Finalizer of this process that was acted on
    reported    \* the streams that have flushed the open epoch

durableVars == <<saved, landing, tally, life, failed, overtaken, ahead>>
sourceVars == <<pos, mail, riding, snaps, minted, open>>
writerVars == <<queue, hold, label, purgedTo, reported>>
landingVars == <<durableVars, sourceVars, writerVars>>

Messages == [kind : {"marker", "finalizer"}, epoch : Tags]
MarkerOf(e) == [kind |-> "marker", epoch |-> e]
FinalizerOf(e) == [kind |-> "finalizer", epoch |-> e]
EpochsIn(msgs, kind) == {e \in Tags : \E n \in 1..Len(msgs) : msgs[n] = [kind |-> kind, epoch |-> e]}
Idle == [rows |-> {}, msgs |-> <<>>]

LandingInit ==
    /\ saved = 0 /\ life = 1 /\ failed = FALSE /\ overtaken = FALSE /\ ahead = {}
    /\ landing = [r \in Rows |-> Absent] /\ tally = [r \in Rows |-> 0]
    /\ pos = 0 /\ mail = <<>> /\ riding = <<>>
    /\ snaps = [e \in Tags |-> 0] /\ minted = 0 /\ open = NoTag
    /\ queue = [w \in Writers |-> <<>>] /\ hold = [w \in Writers |-> Idle]
    /\ label = [w \in Writers |-> 0] /\ purgedTo = 0 /\ reported = {}

-----------------------------------------------------------------------------
(* The coordinator.                                                        *)

MintEpoch ==
    /\ open = NoTag /\ minted < MaxTag
    /\ minted' = minted + 1 /\ open' = minted + 1 /\ reported' = {}
    /\ mail' = Append(mail, MarkerOf(minted + 1))
    /\ UNCHANGED <<durableVars, pos, riding, snaps, queue, hold, label, purgedTo>>

\* The timeout task removes an epoch, whose Finalizer is then never sent.
EpochTimesOut ==
    /\ open # NoTag
    /\ open' = NoTag
    /\ UNCHANGED <<durableVars, pos, mail, riding, snaps, minted, writerVars>>

-----------------------------------------------------------------------------
(* The source.  A batch is built, the messages that have come in are       *)
(* handled, then the batch is sent, with the messages of the round before. *)

Fresh(n) == (pos + 1)..(pos + n)

\* What the source, or the router of the exchange, sends towards a stream.
Batch(w, n) == [rows |-> {r \in Fresh(n) : WriterOf[r] = w}, msgs |-> riding]

\* A batch without rows or messages is not sent.
Deliver(q, batch) == IF batch = Idle THEN q ELSE Append(q, batch)

\* An output of the exchange sends the rows stripped of their messages, and the
\* messages, which are never held up with one input, on a batch of their own.
Forward(q, batch) ==
    IF Exchanged
    THEN Deliver(Deliver(q, [rows |-> batch.rows, msgs |-> <<>>]), [rows |-> {}, msgs |-> batch.msgs])
    ELSE Deliver(q, batch)

\* A Finalizer commits the position of its Marker.
Commit ==
    LET finals == EpochsIn(mail, "finalizer")
    IN  \/ /\ saved' = IF finals = {} THEN saved ELSE snaps[CHOOSE e \in finals : TRUE]
           /\ UNCHANGED failed
        \/ finals # {} /\ ~failed /\ failed' = TRUE /\ UNCHANGED saved

SourceBatch(n) ==
    /\ pos + n <= MaxRow
    /\ n > 0 \/ riding # <<>> \/ mail # <<>>
    /\ \A w \in Writers : Len(queue[w]) < MaxQueue
    /\ queue' = [w \in Writers |-> Forward(queue[w], Batch(w, n))]
    /\ ahead' = IF Exchanged /\ EpochsIn(riding, "marker") # {} THEN ahead \cup Fresh(n) ELSE ahead
    /\ snaps' = [e \in Tags |-> IF e \in EpochsIn(mail, "marker") THEN pos + n ELSE snaps[e]]
    /\ Commit
    /\ pos' = pos + n /\ riding' = mail /\ mail' = <<>>
    /\ UNCHANGED <<landing, tally, life, overtaken, minted, open, hold, label, purgedTo, reported>>

-----------------------------------------------------------------------------
(* The sink: the rebatcher in front of a stream, and process_batch.        *)

\* The first batch, which has no messages, and the second as one.
Joined(q) ==
    [Tail(q) EXCEPT ![1] = [rows |-> q[1].rows \cup q[2].rows, msgs |-> q[2].msgs]]

\* The rebatcher lets nothing wait that has messages.  What has none may be let
\* through as it is, by size or by its timer, or be joined with what comes next.
Rebatch(w) ==
    /\ Len(queue[w]) > 1 /\ queue[w][1].msgs = <<>>
    /\ queue' = [queue EXCEPT ![w] = Joined(@)]
    /\ UNCHANGED <<durableVars, sourceVars, hold, label, purgedTo, reported>>

\* The epoch of the last Marker of the messages; the label stays if there is none.
LastMarker(msgs, current) ==
    LET marks == {i \in 1..Len(msgs) : msgs[i].kind = "marker"}
    IN  IF marks = {} THEN current ELSE msgs[CHOOSE i \in marks : \A j \in marks : j <= i].epoch

\* The Markers of a batch are read before its rows are labelled.
TakeBatch(w) ==
    /\ hold[w] = Idle /\ queue[w] # <<>>
    /\ hold' = [hold EXCEPT ![w] = Head(queue[w])]
    /\ queue' = [queue EXCEPT ![w] = Tail(@)]
    /\ label' = [label EXCEPT ![w] = LastMarker(Head(queue[w]).msgs, @)]
    /\ UNCHANGED <<durableVars, sourceVars, purgedTo, reported>>

\* INSERT .. ON CONFLICT DO UPDATE: a row that is there is labelled anew.
Upsert(w) ==
    landing' = [r \in Rows |->
                   IF r \in hold[w].rows THEN [label |-> label[w], by |-> life] ELSE landing[r]]

\* The trigger is AFTER INSERT and sees the rows that were not there.
Trigger(w) ==
    tally' = [r \in Rows |->
                 IF r \in hold[w].rows /\ landing[r] = Absent THEN tally[r] + 1 ELSE tally[r]]

\* An attempt that has timed out may have been applied; it is made again.
InsertRows(w) ==
    /\ hold[w].rows # {}
    /\ Upsert(w) /\ Trigger(w)
    /\ hold' = [hold EXCEPT ![w].rows = {}] \/ UNCHANGED hold
    /\ UNCHANGED <<saved, life, failed, overtaken, ahead, sourceVars, queue, label, purgedTo, reported>>

NextMessage(w, m) == hold[w].rows = {} /\ hold[w].msgs # <<>> /\ Head(hold[w].msgs) = m
Handled(w) == hold' = [hold EXCEPT ![w].msgs = Tail(@)]

\* The last stream to flush the open epoch acks it, and it is finalized.
FlushMarker(w, e) ==
    /\ NextMessage(w, MarkerOf(e)) /\ Handled(w)
    /\ IF e # open
       THEN UNCHANGED <<reported, open, mail>>
       ELSE /\ reported' = reported \cup {w}
            /\ IF reported' = Writers
               THEN open' = NoTag /\ mail' = Append(mail, FinalizerOf(e))
               ELSE UNCHANGED <<open, mail>>
    /\ UNCHANGED <<durableVars, pos, riding, snaps, minted, queue, label, purgedTo>>

\* Wrong variants: the epoch of the Finalizer is deleted too; only the one before it is.
PurgedToo(e) == {r \in Rows : landing[r] # Absent /\ landing[r].label <= e}
PurgedExactly(e) == {r \in Rows : landing[r] # Absent /\ landing[r].label = e - 1}

\* DELETE .. WHERE _gs_checkpoint_epoch <= N - 1.
Purged(e) == {r \in Rows : landing[r] # Absent /\ landing[r].label <= e - 1}

\* Best effort: a failure is logged.
PurgeFinalized(w, e) ==
    /\ NextMessage(w, FinalizerOf(e)) /\ Handled(w)
    /\ \/ /\ landing' = [r \in Rows |-> IF r \in Purged(e) THEN Absent ELSE landing[r]]
          /\ overtaken' = (overtaken \/ \E r \in Purged(e) : r > saved /\ landing[r].by # life)
          /\ purgedTo' = IF e > purgedTo THEN e ELSE purgedTo
       \/ UNCHANGED <<landing, overtaken, purgedTo>>
    /\ UNCHANGED <<saved, tally, life, failed, ahead, sourceVars, queue, label, reported>>

-----------------------------------------------------------------------------
\* The process dies, and the next one starts at the committed offset, with epoch 1.
Restart ==
    /\ life < MaxLife
    /\ life' = life + 1
    /\ UNCHANGED <<saved, landing, tally, failed, overtaken, ahead>>
    /\ pos' = saved /\ mail' = <<>> /\ riding' = <<>>
    /\ snaps' = [e \in Tags |-> 0] /\ minted' = 0 /\ open' = NoTag
    /\ queue' = [w \in Writers |-> <<>>] /\ hold' = [w \in Writers |-> Idle]
    /\ label' = [w \in Writers |-> 0] /\ purgedTo' = 0 /\ reported' = {}

LandingOver ==
    /\ pos = MaxRow /\ mail = <<>> /\ riding = <<>> /\ minted = MaxTag
    /\ \A w \in Writers : queue[w] = <<>> /\ hold[w] = Idle
    /\ UNCHANGED landingVars

SourceStep == \E n \in 0..MaxBatch : SourceBatch(n)
StreamStep(w) ==
    \/ Rebatch(w) \/ TakeBatch(w) \/ InsertRows(w)
    \/ \E e \in Tags : FlushMarker(w, e) \/ PurgeFinalized(w, e)

LandingNext ==
    \/ MintEpoch \/ EpochTimesOut \/ SourceStep \/ Restart \/ LandingOver
    \/ \E w \in Writers : StreamStep(w)

LandingSpec == LandingInit /\ [][LandingNext]_landingVars

-----------------------------------------------------------------------------
(* Properties.                                                             *)

\* Type invariant.
LandingTypeOK ==
    /\ saved \in 0..MaxRow /\ pos \in saved..MaxRow
    /\ landing \in [Rows -> [label : {0} \cup Tags, by : 0..MaxLife]]
    /\ tally \in [Rows -> Nat]
    /\ life \in 1..MaxLife /\ failed \in BOOLEAN /\ overtaken \in BOOLEAN
    /\ ahead \subseteq Rows
    /\ mail \in Seq(Messages) /\ riding \in Seq(Messages)
    /\ snaps \in [Tags -> 0..MaxRow] /\ minted \in 0..MaxTag /\ open \in {NoTag, minted}
    /\ queue \in [Writers -> Seq([rows : SUBSET Rows, msgs : Seq(Messages)])]
    /\ hold \in [Writers -> [rows : SUBSET Rows, msgs : Seq(Messages)]]
    /\ label \in [Writers -> 0..MaxTag] /\ purgedTo \in 0..MaxTag /\ reported \subseteq Writers

\* No row is counted twice, however often it is sent.
CountedOnce == \A r \in Rows : tally[r] <= 1

\* A row is counted twice only if a purge took it before it was committed, and that
\* has three causes: the commit of a finalized epoch failed and the Finalizer went
\* on to the sink; an earlier process had written the row under a number that this
\* process gives to an epoch of its own; or the exchange sent the row on ahead of
\* the Marker that it left the source with, so that it may have been labelled with
\* the epoch before although the commit does not cover it.  In all other crashes,
\* at any step, with any epochs timed out, a row that is read again is found in the
\* landing table.
CountedTwiceOnlyIfOvertaken ==
    failed \/ overtaken \/ \A r \in Rows : tally[r] <= 1 \/ r \in ahead

\* Without an exchange the third cause is not there.
CountedOnceUnlessOvertaken == failed \/ overtaken \/ CountedOnce

\* Deleting up to N-1 leaves nothing behind: once a Finalizer was acted on, the
\* table has no row of an earlier epoch, whatever epochs were never finalized and
\* however far the other write streams are behind the one that deletes.
NothingBelowPurge == \A r \in Rows : landing[r] # Absent => landing[r].label >= purgedTo
=============================================================================
