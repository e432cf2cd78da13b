----------------------------- MODULE KafkaSource -----------------------------
(***************************************************************************)
(* The Kafka source (table_providers/kafka.rs) across crashes and          *)
(* restarts: how an instance finds its starting offsets, builds batches,   *)
(* snapshots its position for a Marker, commits the snapshot of a          *)
(* finalized epoch to the broker and to the state backend, and commits its *)
(* tail when it is asked to stop.                                          *)
(*                                                                         *)
(* Rows 1..n of a partition stand for the offsets 0..n-1, and an offset n  *)
(* for "the first n rows are behind it".  One instance owns all partitions *)
(* and starts at the earliest row.  The coordinator and the sink are what  *)
(* CheckpointCoordinator promises of them: one timer epoch at a time, and  *)
(* a Finalizer only for an epoch whose Marker the sink has written up to.  *)
(* Broker, state backend and sink tables outlive the process.              *)
(***************************************************************************)
EXTENDS Integers, Sequences

CONSTANTS
    Partitions,   \* of the topic
    MaxRow,       \* bound: rows produced to a partition
    MaxEpoch,     \* bound: epochs of one process, the terminal one included
    Capacity,     \* batches the stream to the sink holds
    Faults,       \* the kinds of failure that may happen
    MaxFaults     \* bound: how many of them do

FaultKinds == {"crash", "rebalance", "broker", "state", "position", "sink"}

ASSUME KafkaAssumption ==
    /\ Partitions # {} /\ MaxRow \in Nat /\ MaxEpoch \in Nat \ {0}
    /\ Capacity \in Nat \ {0} /\ Faults \subseteq FaultKinds /\ MaxFaults \in Nat

Rows == 1 .. MaxRow
Epochs == 1 .. MaxEpoch
NoOffset == -1            \* Offset::Invalid, or no entry
Offsets == 0 .. MaxRow
Position == [Partitions -> Offsets \cup {NoOffset}]
NoPosition == [p \in Partitions |-> NoOffset]
NoEpoch == 0

VARIABLES
    end,        \* the topic: how many rows a partition has
    broker,     \* the consumer group's committed offsets
    saved,      \* the offsets in the state backend
    written,    \* the rows in the sink's table
    pc,         \* the consume task
    fetch,      \* the rows of a partition behind the consumer
    position,   \* consumer.position(): as fetch, once a row was delivered
    batch,      \* record_batch: the rows behind it, and its Markers
    buffer,     \* checkpoint_messages_buffer: the Markers of the next batch
    snapshots,  \* consumer_offsets; NoPosition for an epoch without an entry
    committed,  \* committed_offsets
    inbox,      \* the receiver
    todo,       \* messages_to_process
    pipe,       \* batches on their way to the sink
    gone,       \* the sink has dropped the stream
    epoch,      \* the coordinator: the last epoch minted
    open,       \* it is pending
    acked,      \* the epochs the sink has acked
    terminal,   \* the terminal epoch
    shutdown,   \* the process was asked to stop
    faults,     \* failures so far
    probed      \* the rows the start-up wait consumed and nobody sought back to

storeVars  == <<end, broker, saved, written>>
readVars   == <<fetch, position, probed>>
commitVars == <<snapshots, committed>>
streamVars == <<pipe, gone>>
epochVars  == <<epoch, open, terminal>>
vars == <<storeVars, pc, readVars, batch, buffer, commitVars, inbox, todo,
          streamVars, epochVars, acked, shutdown, faults>>

Marker(e) == [kind |-> "Marker", epoch |-> e]
Finalizer(e) == [kind |-> "Finalizer", epoch |-> e]
Messages == {Marker(e) : e \in Epochs} \cup {Finalizer(e) : e \in Epochs}
Batches == [rows : SUBSET (Partitions \X Rows), markers : SUBSET Epochs]
EmptyBatch == [rows |-> {}, markers |-> {}]

TypeOK ==
    /\ end \in [Partitions -> Offsets]
    /\ broker \in Position /\ saved \in Position
    /\ written \in SUBSET (Partitions \X Rows)
    /\ pc \in {"down", "startup", "seek", "top", "dispatch", "broker", "state",
               "await", "stopped", "clean"}
    /\ fetch \in [Partitions -> Offsets] /\ position \in Position
    /\ batch \in Batches
    /\ buffer \in SUBSET Epochs
    /\ snapshots \in [Epochs -> Position]
    /\ committed \in Position
    /\ inbox \in Seq(Messages) /\ todo \in Seq(Messages) /\ pipe \in Seq(Batches)
    /\ gone \in BOOLEAN
    /\ epoch \in 0 .. MaxEpoch /\ open \in BOOLEAN
    /\ acked \in SUBSET Epochs /\ terminal \in 0 .. MaxEpoch
    /\ shutdown \in BOOLEAN /\ faults \in 0 .. MaxFaults
    /\ probed \in SUBSET (Partitions \X Rows)

Fault(kind) == kind \in Faults /\ faults < MaxFaults /\ faults' = faults + 1

\* Where the group resumes a partition: its committed offset, else the
\* earliest row (auto.offset.reset).
GroupOffset(p) == IF broker[p] = NoOffset THEN 0 ELSE broker[p]

\* What a new process, or one that died, has in memory.
Forget ==
    /\ batch' = EmptyBatch
    /\ buffer' = {}
    /\ snapshots' = [e \in Epochs |-> NoPosition]
    /\ committed' = NoPosition
    /\ inbox' = <<>> /\ todo' = <<>> /\ pipe' = <<>> /\ gone' = FALSE
    /\ epoch' = 0 /\ open' = FALSE /\ terminal' = NoEpoch
    /\ acked' = {}
    /\ shutdown' = FALSE

Init ==
    /\ end = [p \in Partitions |-> 0]
    /\ broker = NoPosition /\ saved = NoPosition
    /\ written = {}
    /\ pc = "down"
    /\ fetch = [p \in Partitions |-> 0] /\ position = NoPosition
    /\ batch = EmptyBatch /\ buffer = {}
    /\ snapshots = [e \in Epochs |-> NoPosition] /\ committed = NoPosition
    /\ inbox = <<>> /\ todo = <<>> /\ pipe = <<>> /\ gone = FALSE
    /\ epoch = 0 /\ open = FALSE /\ terminal = NoEpoch
    /\ acked = {} /\ shutdown = FALSE /\ faults = 0
    /\ probed = {}

-----------------------------------------------------------------------------
(* Start-up.                                                                *)

\* The process starts: the source subscribes to the checkpoint channel and its
\* consumer joins the group.
Start ==
    /\ pc \in {"down", "stopped", "clean"}
    /\ pc' = "startup"
    /\ fetch' = [p \in Partitions |-> GroupOffset(p)]
    /\ position' = NoPosition
    /\ Forget
    /\ UNCHANGED <<storeVars, faults, probed>>

\* wait_for_initial_assignment_or_message saw the assignment.
Assigned ==
    /\ pc = "startup"
    /\ pc' = "seek"
    /\ UNCHANGED <<storeVars, readVars, batch, buffer, commitVars, inbox, todo,
                   streamVars, epochVars, acked, shutdown, faults>>

\* Or the poll that triggers the assignment returned a message, which is
\* dropped: the seek that follows is meant to bring it back.
FirstMessage(p) ==
    /\ pc = "startup"
    /\ fetch[p] < end[p]
    /\ pc' = "seek"
    /\ fetch' = [fetch EXCEPT ![p] = @ + 1]
    /\ position' = [position EXCEPT ![p] = fetch[p] + 1]
    /\ probed' = probed \cup {<<p, fetch[p] + 1>>}
    /\ UNCHANGED <<storeVars, batch, buffer, commitVars, inbox, todo, streamVars,
                   epochVars, acked, shutdown, faults>>

\* A shutdown before the first assignment: the stream ends empty.
StartupShutdown ==
    /\ pc = "startup"
    /\ shutdown
    /\ pc' = "stopped"
    /\ UNCHANGED <<storeVars, readVars, batch, buffer, commitVars, inbox, todo,
                   streamVars, epochVars, acked, shutdown, faults>>

Saved == {p \in Partitions : saved[p] # NoOffset}

\* A wrong variant: with no saved offset, the consumer stays where it is.
SoughtSaved == Saved

\* The partitions the consumer seeks: those with a saved offset or, when no
\* partition has one, all of them, to the beginning.
Sought == IF Saved = {} THEN Partitions ELSE Saved

Seek ==
    /\ pc = "seek"
    /\ fetch' = [p \in Partitions |->
                    IF p \notin Sought THEN fetch[p]
                    ELSE IF p \in Saved THEN saved[p] ELSE 0]
    /\ position' = [p \in Partitions |-> IF p \in Sought THEN NoOffset ELSE position[p]]
    /\ probed' = {r \in probed : r[1] \notin Sought \/ r[2] <= fetch'[r[1]]}
    /\ committed' = IF Saved = {} THEN committed ELSE saved
    /\ pc' = "top"
    /\ UNCHANGED <<storeVars, batch, buffer, snapshots, inbox, todo, streamVars,
                   epochVars, acked, shutdown, faults>>

-----------------------------------------------------------------------------
(* The consume loop.                                                        *)

\* The rows of p the consumer delivers on its way.
Between(p, from, to) == {<<p, r>> : r \in from + 1 .. to}

\* One iteration up to the receiver: rows are read until the batch is full or
\* its time is up, the buffered Markers ride on it, and the receiver is
\* drained.  An iteration that would read nothing at all is left out.
TakeBatch(to) ==
    /\ pc = "top"
    /\ ~ shutdown
    /\ \A p \in Partitions : fetch[p] <= to[p] /\ to[p] <= end[p]
    /\ to # fetch \/ buffer # {} \/ inbox # <<>>
    /\ batch' = [rows |-> UNION {Between(p, fetch[p], to[p]) : p \in Partitions},
                 markers |-> buffer]
    /\ fetch' = to
    /\ position' = [p \in Partitions |-> IF to[p] > fetch[p] THEN to[p] ELSE position[p]]
    /\ buffer' = {}
    /\ todo' = inbox
    /\ inbox' = <<>>
    /\ pc' = "dispatch"
    /\ UNCHANGED <<storeVars, probed, commitVars, streamVars, epochVars, acked,
                   shutdown, faults>>

\* A Marker: it will ride the next batch; the position covers this one.
TakeMarker ==
    /\ pc = "dispatch"
    /\ todo # <<>> /\ Head(todo).kind = "Marker"
    /\ buffer' = buffer \cup {Head(todo).epoch}
    /\ \/ snapshots' = [snapshots EXCEPT ![Head(todo).epoch] = position] /\ UNCHANGED faults
       \/ Fault("position") /\ UNCHANGED snapshots
    /\ todo' = Tail(todo)
    /\ UNCHANGED <<storeVars, pc, readVars, batch, committed, inbox, streamVars,
                   epochVars, acked, shutdown>>

\* The epoch whose offsets are being committed: a Finalizer's or the terminal.
Committing == IF terminal # NoEpoch THEN terminal ELSE Head(todo).epoch

\* A wrong variant: the position at the time of the commit is committed.
ToCommitNow == position

\* The position recorded for that epoch.
ToCommit == snapshots[Committing]

\* commit_offsets_for_finalized_epoch has nothing to do: no recorded position
\* or no valid offset in it, or the position committed last.
NothingToCommit ==
    \/ ToCommit = NoPosition
    \/ ToCommit = committed /\ \A p \in Partitions : ToCommit[p] # NoOffset

\* Where the task goes on after the commit of that epoch, which it forgets.
CommitOver(how) ==
    /\ snapshots' = [snapshots EXCEPT ![Committing] = NoPosition]
    /\ todo' = IF terminal # NoEpoch THEN todo ELSE Tail(todo)
    /\ pc' = IF terminal # NoEpoch THEN how ELSE "dispatch"

\* A Finalizer off the receiver, or the terminal epoch finalized in time.
CommitBegins ==
    \/ pc = "dispatch" /\ todo # <<>> /\ Head(todo).kind = "Finalizer"
    \/ pc = "await" /\ terminal \in acked

CommitSkip ==
    /\ CommitBegins
    /\ NothingToCommit
    /\ CommitOver("clean")
    /\ UNCHANGED <<storeVars, readVars, batch, buffer, committed, inbox, streamVars,
                   epochVars, acked, shutdown, faults>>

\* The offsets of p with the valid ones of the position put over them.
Over(p) == [q \in Partitions |-> IF ToCommit[q] # NoOffset THEN ToCommit[q] ELSE p[q]]

\* consumer.commit(position, Sync)
CommitBroker ==
    /\ CommitBegins
    /\ ~ NothingToCommit
    /\ broker' = Over(broker)
    /\ pc' = "state"
    /\ UNCHANGED <<end, saved, written, readVars, batch, buffer, commitVars,
                   inbox, todo, streamVars, epochVars, acked, shutdown, faults>>

\* A wrong variant: the refusal counts as a commit.
BrokerFailsClean ==
    /\ CommitBegins
    /\ ~ NothingToCommit
    /\ Fault("broker")
    /\ CommitOver("clean")
    /\ UNCHANGED <<storeVars, readVars, batch, buffer, committed, inbox, streamVars,
                   epochVars, acked, shutdown>>

\* The broker refuses: a soft failure, the next epoch covers it.
BrokerFails ==
    /\ CommitBegins
    /\ ~ NothingToCommit
    /\ Fault("broker")
    /\ CommitOver("stopped")
    /\ UNCHANGED <<storeVars, readVars, batch, buffer, committed, inbox, streamVars,
                   epochVars, acked, shutdown>>

\* put_many: one batched write.
CommitState ==
    /\ pc = "state"
    /\ saved' = Over(saved)
    /\ committed' = ToCommit
    /\ CommitOver("clean")
    /\ UNCHANGED <<end, broker, written, readVars, batch, buffer, inbox, streamVars,
                   epochVars, acked, shutdown, faults>>

\* The state backend fails for good: in the loop the stream is torn down and
\* the process with it; the terminal commit is given up.
StateFails ==
    /\ pc = "state"
    /\ Fault("state")
    /\ pc' = IF terminal # NoEpoch THEN "stopped" ELSE "down"
    /\ UNCHANGED <<storeVars, readVars, batch, buffer, commitVars, inbox, todo,
                   streamVars, epochVars, acked, shutdown>>

\* tx.send(batch), which waits while the stream is full.
Send ==
    /\ pc = "dispatch"
    /\ todo = <<>>
    /\ ~ gone /\ Len(pipe) < Capacity
    /\ pipe' = Append(pipe, batch)
    /\ batch' = EmptyBatch
    /\ pc' = "top"
    /\ UNCHANGED <<storeVars, readVars, buffer, commitVars, inbox, todo, gone,
                   epochVars, acked, shutdown, faults>>

\* The receiver was dropped: the task ends without a terminal checkpoint, as no
\* sink could ack it.
SendFails ==
    /\ pc = "dispatch"
    /\ todo = <<>>
    /\ gone
    /\ pc' = "stopped"
    /\ UNCHANGED <<storeVars, readVars, batch, buffer, commitVars, inbox, todo,
                   streamVars, epochVars, acked, shutdown, faults>>

\* A rebalance while the consumer polls: its partitions resume at the offsets
\* committed to the group.
Rebalance ==
    /\ pc = "top"
    /\ Fault("rebalance")
    /\ fetch' = [p \in Partitions |-> GroupOffset(p)]
    /\ position' = NoPosition
    /\ UNCHANGED <<storeVars, pc, probed, batch, buffer, commitVars, inbox, todo,
                   streamVars, epochVars, acked, shutdown>>

-----------------------------------------------------------------------------
(* The end of the stream.                                                   *)

\* begin_terminal_checkpoint, the position it covers, and the flush batch with
\* every Marker still buffered.
Terminal ==
    /\ pc = "top"
    /\ shutdown
    /\ gone \/ Len(pipe) < Capacity
    /\ terminal' = epoch + 1
    /\ epoch' = epoch + 1
    /\ \/ snapshots' = [snapshots EXCEPT ![epoch + 1] = position] /\ UNCHANGED faults
       \/ Fault("position") /\ UNCHANGED snapshots
    /\ pipe' = IF gone THEN pipe
               ELSE Append(pipe, [rows |-> {}, markers |-> buffer \cup {epoch + 1}])
    /\ buffer' = {}
    /\ pc' = "await"
    /\ UNCHANGED <<storeVars, readVars, batch, committed, inbox, todo, gone,
                   open, acked, shutdown>>

\* The terminal epoch did not finalize in time.
AwaitTimeout ==
    /\ pc = "await"
    /\ pc' = "stopped"
    /\ UNCHANGED <<storeVars, readVars, batch, buffer, commitVars, inbox, todo,
                   streamVars, epochVars, acked, shutdown, faults>>

-----------------------------------------------------------------------------
(* The environment: producers, coordinator, sink, the operator.             *)

Up == pc # "down"
Subscribed == pc \notin {"down", "stopped", "clean"}

Produce(p) ==
    /\ end[p] < MaxRow
    /\ end' = [end EXCEPT ![p] = @ + 1]
    /\ UNCHANGED <<broker, saved, written, pc, readVars, batch, buffer,
                   commitVars, inbox, todo, streamVars, epochVars, acked, shutdown, faults>>

\* The timer producer mints an epoch when none is pending.
MintEpoch ==
    /\ Subscribed
    /\ ~ open /\ terminal = NoEpoch /\ epoch < MaxEpoch - 1
    /\ epoch' = epoch + 1
    /\ open' = TRUE
    /\ inbox' = Append(inbox, Marker(epoch + 1))
    /\ UNCHANGED <<storeVars, pc, readVars, batch, buffer, commitVars, todo,
                   streamVars, terminal, acked, shutdown, faults>>

\* The pending timer epoch is finalized, or timed out.
CloseEpoch ==
    /\ Subscribed
    /\ open /\ terminal = NoEpoch
    /\ open' = FALSE
    /\ inbox' = IF epoch \in acked THEN Append(inbox, Finalizer(epoch)) ELSE inbox
    /\ UNCHANGED <<storeVars, pc, readVars, batch, buffer, commitVars, todo,
                   streamVars, epoch, terminal, acked, shutdown, faults>>

\* The sink writes a batch, then acks its Markers.
SinkWrite ==
    /\ Up
    /\ pipe # <<>>
    /\ written' = written \cup Head(pipe).rows
    /\ acked' = acked \cup Head(pipe).markers
    /\ pipe' = Tail(pipe)
    /\ UNCHANGED <<end, broker, saved, pc, readVars, batch, buffer, commitVars,
                   inbox, todo, gone, epochVars, shutdown, faults>>

\* The sink fails: what is on its way is lost and the pipeline drains.
SinkFails ==
    /\ Subscribed
    /\ ~ gone
    /\ Fault("sink")
    /\ gone' = TRUE
    /\ pipe' = <<>>
    /\ shutdown' = TRUE
    /\ UNCHANGED <<storeVars, pc, readVars, batch, buffer, commitVars, inbox,
                   todo, epochVars, acked>>

RequestShutdown ==
    /\ Subscribed
    /\ ~ shutdown
    /\ shutdown' = TRUE
    /\ UNCHANGED <<storeVars, pc, readVars, batch, buffer, commitVars, inbox,
                   todo, streamVars, epochVars, acked, faults>>

\* Whatever ends the process at once: everything in memory is gone.
Crash ==
    /\ Up
    /\ Fault("crash")
    /\ pc' = "down"
    /\ Forget
    /\ UNCHANGED <<storeVars, readVars>>

TakeAny == \E to \in [Partitions -> Offsets] : TakeBatch(to)

StartUp == Assigned \/ (\E p \in Partitions : FirstMessage(p)) \/ StartupShutdown \/ Seek
Commit == CommitSkip \/ CommitBroker \/ BrokerFails \/ CommitState \/ StateFails
Loop == TakeAny \/ TakeMarker \/ Send \/ SendFails \/ Terminal

Next ==
    \/ Start \/ StartUp \/ Loop \/ Commit \/ Rebalance \/ AwaitTimeout
    \/ (\E p \in Partitions : Produce(p)) \/ MintEpoch \/ CloseEpoch \/ SinkWrite
    \/ SinkFails \/ RequestShutdown \/ Crash

Spec == Init /\ [][Next]_vars

\* The task and the sink run, a dead process is started again, and the
\* consumer is not starved of a partition that has rows.
FairSpec ==
    /\ Spec
    /\ WF_vars(pc = "down" /\ Start)
    /\ WF_vars(StartUp) /\ WF_vars(Loop) /\ WF_vars(Commit) /\ WF_vars(SinkWrite)
    /\ \A p \in Partitions :
          SF_vars(\E to \in [Partitions -> Offsets] : to[p] > fetch[p] /\ TakeBatch(to))

-----------------------------------------------------------------------------
\* At-least-once: an offset the source would resume from, in the broker or in
\* the state backend, leaves behind it only rows that are in the sink's table,
\* whatever crashed, failed or was rebalanced between the two commits.
AtLeastOnce ==
    \A p \in Partitions :
        /\ Between(p, 0, broker[p]) \subseteq written
        /\ Between(p, 0, saved[p]) \subseteq written

\* The only rows that are ever skipped are the ones the start-up wait took from
\* a partition that was not sought afterwards.
OnlyFirstMessageSkipped ==
    \A p \in Partitions :
        /\ Between(p, 0, broker[p]) \subseteq written \cup probed
        /\ Between(p, 0, saved[p]) \subseteq written \cup probed

\* "drained tail committed": after a stop that claims this, the saved offsets
\* the next start resumes from are where the consumer stopped, so it replays
\* nothing the consumer has read since its last rebalance.
CleanStopCommitted ==
    pc = "clean" => \A p \in Partitions :
        position[p] # NoOffset => saved[p] = position[p]

\* Every row produced reaches the sink's table, unless the source is asked to
\* stop first.
RowsArrive ==
    \A p \in Partitions : \A r \in Rows :
        end[p] >= r ~> (<<p, r>> \in written \/ shutdown)
=============================================================================
