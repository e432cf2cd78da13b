----------------------------- MODULE ParallelSink ----------------------------
(***************************************************************************)
(* ParallelSinkExec and the ack gate of its sink: one write task per input *)
(* partition, and the parent that joins them.  A task acks a Marker after  *)
(* it wrote the batch, through the gate (report_marker_at_sink); the parent *)
(* releases a stream's share of the gate once its write succeeded          *)
(* (sink_stream_done), and gives up on the first error, which aborts the   *)
(* other tasks wherever they next wait.  The gate's lock is held for its   *)
(* call only; the Ack is broadcast after it.  A sink with one stream has   *)
(* no gate, which is a gate of one.                                        *)
(***************************************************************************)
EXTENDS MarkerAligner

VARIABLES
    task,     \* a write task: "read", then with a batch in hand "write", "report"
              \* and "ack", or over: "ok", "err", "joined", "aborted"
    hand,     \* the Markers of its batch it has still to report
    due,      \* the Markers released to it, to be acked
    parent,   \* the join loop: "join", "ack", or over: "ok", "err"
    parentDue,\* the Markers released to it
    acks      \* how often an epoch was acked

sinkVars == <<task, hand, due, parent, parentDue, acks>>
vars == <<alignerVars, delivered, sinkVars>>

TypeOK ==
    /\ AlignerTypeOK
    /\ task \in [Inputs -> {"read", "write", "report", "ack",
                            "ok", "err", "joined", "aborted"}]
    /\ hand \in [Inputs -> SUBSET Epochs]
    /\ due \in [Inputs -> SUBSET Epochs]
    /\ parent \in {"join", "ack", "ok", "err"}
    /\ parentDue \in SUBSET Epochs
    /\ acks \in [Epochs -> Nat]

\* execute(): the gate is registered before any task runs.
Init ==
    /\ AlignerInit
    /\ task = [i \in Inputs |-> "read"]
    /\ hand = [i \in Inputs |-> {}]
    /\ due = [i \in Inputs |-> {}]
    /\ parent = "join"
    /\ parentDue = {}
    /\ acks = [e \in Epochs |-> 0]

-----------------------------------------------------------------------------
(* A write task: write_all of the sink on one stream.                       *)

ReadBatch(i, ms) ==
    /\ task[i] = "read"
    /\ ms \cap delivered[i] = {}
    /\ hand' = [hand EXCEPT ![i] = ms]
    /\ task' = [task EXCEPT ![i] = "write"]
    /\ UNCHANGED <<alignerVars, delivered, due, parent, parentDue, acks>>

\* The batch, and all before it on this stream, is durable in the sink.
WriteBatch(i) ==
    /\ task[i] = "write"
    /\ delivered' = [delivered EXCEPT ![i] = @ \cup hand[i]]
    /\ task' = [task EXCEPT ![i] = IF hand[i] = {} THEN "read" ELSE "report"]
    /\ UNCHANGED <<alignerVars, hand, due, parent, parentDue, acks>>

\* Where the loop over the Markers of the batch goes on.
AfterReport(rest) == IF rest = {} THEN "read" ELSE "report"

\* report_marker_at_sink for the batch's next Marker.
Report(i) ==
    /\ task[i] = "report"
    /\ \E e \in hand[i] :
          /\ \A f \in hand[i] : e <= f
          /\ ObserveMarkers({e})
          /\ hand' = [hand EXCEPT ![i] = @ \ {e}]
          /\ due' = [due EXCEPT ![i] = Completed({e})]
          /\ task' = [task EXCEPT ![i] =
                         IF Completed({e}) = {} THEN AfterReport(hand[i] \ {e}) ELSE "ack"]
    /\ UNCHANGED <<delivered, parent, parentDue, acks>>

\* send_checkpoint_ack, with no lock held.
SendAck(i) ==
    /\ task[i] = "ack"
    /\ acks' = [e \in Epochs |-> acks[e] + IF e \in due[i] THEN 1 ELSE 0]
    /\ due' = [due EXCEPT ![i] = {}]
    /\ task' = [task EXCEPT ![i] = AfterReport(hand[i])]
    /\ UNCHANGED <<alignerVars, delivered, hand, parent, parentDue>>

\* The stream came to its end and write_all returned Ok.
WriteOk(i) ==
    /\ task[i] = "read"
    /\ task' = [task EXCEPT ![i] = "ok"]
    /\ UNCHANGED <<alignerVars, delivered, hand, due, parent, parentDue, acks>>

\* The stream yielded an error, or the write failed.
WriteErr(i) ==
    /\ task[i] \in {"read", "write"}
    /\ task' = [task EXCEPT ![i] = "err"]
    /\ hand' = [hand EXCEPT ![i] = {}]
    /\ UNCHANGED <<alignerVars, delivered, due, parent, parentDue, acks>>

\* The JoinSet was dropped: a task ends where it waits, for input, for a write,
\* or between two Markers of a batch for the truncation a Finalizer asks for.
Abort(i) ==
    /\ parent = "err"
    /\ task[i] \in {"read", "write", "report"}
    /\ task' = [task EXCEPT ![i] = "aborted"]
    /\ hand' = [hand EXCEPT ![i] = {}]
    /\ UNCHANGED <<alignerVars, delivered, due, parent, parentDue, acks>>

-----------------------------------------------------------------------------
(* The parent's join loop.                                                  *)

\* A task that succeeded: sink_stream_done.
JoinOk(i) ==
    /\ parent = "join"
    /\ task[i] = "ok"
    /\ InputDone(i)
    /\ task' = [task EXCEPT ![i] = "joined"]
    /\ parentDue' = Unblocked(i)
    /\ parent' = IF Unblocked(i) = {} THEN "join" ELSE "ack"
    /\ UNCHANGED <<delivered, hand, due, acks>>

\* One Ack per step, in epoch order.
ParentAck ==
    /\ parent = "ack"
    /\ \E e \in parentDue :
          /\ \A f \in parentDue : e <= f
          /\ acks' = [acks EXCEPT ![e] = @ + 1]
          /\ parentDue' = parentDue \ {e}
          /\ parent' = IF parentDue = {e} THEN "join" ELSE "ack"
    /\ UNCHANGED <<alignerVars, delivered, task, hand, due>>

\* A wrong variant: the failed stream's share of the gate is released too.
JoinErrDone(i) ==
    /\ parent = "join"
    /\ task[i] = "err"
    /\ InputDone(i)
    /\ task' = [task EXCEPT ![i] = "aborted"]
    /\ parentDue' = Unblocked(i)
    /\ parent' = IF Unblocked(i) = {} THEN "err" ELSE "ack"
    /\ UNCHANGED <<delivered, hand, due, acks>>

\* A task that failed: the parent returns its error and drops the JoinSet.
JoinErr(i) ==
    /\ parent = "join"
    /\ task[i] = "err"
    /\ parent' = "err"
    /\ UNCHANGED <<alignerVars, delivered, task, hand, due, parentDue, acks>>

\* join_next returned None: the sink's future is Ok.
JoinAll ==
    /\ parent = "join"
    /\ \A i \in Inputs : task[i] = "joined"
    /\ parent' = "ok"
    /\ UNCHANGED <<alignerVars, delivered, task, hand, due, parentDue, acks>>

Over ==
    /\ parent \in {"ok", "err"}
    /\ \A i \in Inputs : task[i] \in {"ok", "err", "joined", "aborted"}
    /\ UNCHANGED vars

Work(i) == WriteBatch(i) \/ Report(i) \/ SendAck(i)
Join == (\E i \in Inputs : JoinOk(i) \/ JoinErr(i)) \/ ParentAck \/ JoinAll

Next ==
    \/ \E i \in Inputs :
          \/ Work(i) \/ WriteOk(i) \/ WriteErr(i) \/ Abort(i)
          \/ \E ms \in SUBSET Epochs : ReadBatch(i, ms)
    \/ Join
    \/ Over

Spec == Init /\ [][Next]_vars

\* The tasks and the parent run; streams end or deliver when they like.
Fairness ==
    /\ WF_vars(Join)
    /\ \A i \in Inputs : WF_vars(Work(i)) /\ WF_vars(Abort(i))

-----------------------------------------------------------------------------
Succeeded == {i \in Inputs : task[i] \in {"ok", "joined"}}

\* The sink acks an epoch at most once, and only when every stream has written
\* what precedes its Marker or has been written to its end: a stream that
\* failed, or was aborted with it, holds back every epoch it did not flush.
Barrier == INSTANCE MarkerBarrier
    WITH Streams <- Inputs, arrived <- delivered, ended <- Succeeded, passed <- acks
ImplementsBarrier == Barrier!Barrier

\* When the sink's future is Ok, and the coordinator is about to stop waiting
\* for this sink, every epoch that reached one of its streams has been acked.
OkLeavesNothing ==
    parent = "ok" => \A e \in Epochs :
        (\E i \in Inputs : e \in delivered[i]) => acks[e] = 1

\* An epoch that all streams have flushed is acked, though the streams that
\* report it race with each other and with the parent, unless the sink failed.
FlushedIsAcked ==
    \A e \in Epochs :
        (\A i \in Inputs : e \in delivered[i]) ~> (acks[e] = 1 \/ parent = "err")
=============================================================================
