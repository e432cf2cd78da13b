------------------------ MODULE CheckpointCoordinator ------------------------
(***************************************************************************)
(* The checkpoint coordinator of                                           *)
(* crates/streamling-core/src/checkpoints/checkpoint_management.rs: its    *)
(* three tasks (subscriber, timer producer, timeout sweep), the            *)
(* CheckpointControl handle that sources and the run loop call from other  *)
(* threads, and the broadcast channel of checkpoints/channels.rs.          *)
(*                                                                         *)
(* A step ends wherever the code drops a lock or performs a channel send,  *)
(* so every interleaving the locks permit is a behaviour of Spec.  The     *)
(* metrics, the log lines and the diagnostics are left out.  Sources and   *)
(* sinks are the environment, reduced to what the coordinator sees of      *)
(* them: a source relays Markers and begins the terminal checkpoint when   *)
(* its stream ends, a sink acks a Marker after flushing what preceded it.  *)
(***************************************************************************)
EXTENDS Integers, Sequences, FiniteSets

CONSTANTS
    Sinks,      \* the ids in checkpoint_sink_names
    Sources,    \* the source tasks that hold a CheckpointControl
    Feeds,      \* Feeds[s]: the sources whose streams end in sink s
    MaxEpoch    \* bound: the last epoch number minted, kept for the terminal one

ASSUME MaxEpochAssumption == MaxEpoch \in Nat \ {0}
ASSUME FeedsAssumption ==
    /\ Feeds \in [Sinks -> SUBSET Sources]
    /\ \A c \in Sources : \E s \in Sinks : c \in Feeds[s]

Epochs == 1 .. MaxEpoch
NoEpoch == 0

VARIABLES
    running,          \* AtomicBool, cleared by stop()
    status,           \* the epochs map; "Absent" is a key that is not in it
    acked,            \* acked_sinks of an InProgress epoch
    aged,             \* created_at.elapsed() > timeout
    nextEpoch,        \* AtomicU64
    expected,         \* expected_sinks
    terminalStarted,  \* AtomicBool
    terminalEpoch,    \* Option<CheckpointEpoch>
    ackq,             \* the subscriber's receiver: Acks, in arrival order
    finalizersSent,   \* how often Finalizer(e) was broadcast
    subPc,            \* the subscriber task
    prodPc,           \* the timer producer task
    prodEpoch,        \* new_epoch, between its mint and its broadcast
    sweepPc,          \* the timeout task
    sweepTerminal,    \* its copy of terminal_epoch
    sinkPc,           \* a sink, then the sink_completed call made for it
    sinkSnap,         \* expected_snapshot of that call
    sinkSend,         \* newly_finalized of that call, still to be broadcast
    flushed,          \* the epochs a sink has flushed and acked
    sourcePc,         \* a source task and the calls it makes
    inbox,            \* Markers in a source's receiver
    emitted,          \* Markers a source has put on its data stream
    shutdown          \* the process-wide shutdown request

epochVars   == <<status, acked, aged>>
mintVars    == <<nextEpoch, terminalStarted, terminalEpoch>>
subVars     == <<ackq, subPc>>
prodVars    == <<prodPc, prodEpoch>>
sweepVars   == <<sweepPc, sweepTerminal>>
sinkVars    == <<sinkPc, sinkSnap, sinkSend, flushed>>
sourceVars  == <<sourcePc, inbox, emitted, shutdown>>

vars == <<running, epochVars, mintVars, expected, finalizersSent, subVars,
          prodVars, sweepVars, sinkVars, sourceVars>>

Pending(e) == status[e] \in {"Started", "InProgress"}

TypeOK ==
    /\ running \in BOOLEAN
    /\ status \in [Epochs -> {"Absent", "Started", "InProgress", "Finalized"}]
    /\ acked \in [Epochs -> SUBSET Sinks]
    /\ aged \in [Epochs -> BOOLEAN]
    /\ nextEpoch \in 1 .. MaxEpoch + 1
    /\ expected \in SUBSET Sinks
    /\ terminalStarted \in BOOLEAN
    /\ terminalEpoch \in Epochs \cup {NoEpoch}
    /\ ackq \in Seq(Epochs \X Sinks)
    /\ finalizersSent \in [Epochs -> Nat]
    /\ subPc \in {"recv", "lock", "send", "exited"}
    /\ prodPc \in {"sleep", "wait", "mint", "send", "exited"}
    /\ prodEpoch \in Epochs \cup {NoEpoch}
    /\ sweepPc \in {"sleep", "sweep", "exited"}
    /\ sweepTerminal \in Epochs \cup {NoEpoch}
    /\ sinkPc \in [Sinks -> {"live", "failed", "sweep", "send", "done"}]
    /\ sinkSnap \in [Sinks -> SUBSET Sinks]
    /\ sinkSend \in [Sinks -> SUBSET Epochs]
    /\ flushed \in [Sinks -> SUBSET Epochs]
    /\ sourcePc \in [Sources -> {"starting", "running", "lock", "awaiting",
                                 "committed", "gaveUp", "ended"}]
    /\ inbox \in [Sources -> SUBSET Epochs]
    /\ emitted \in [Sources -> SUBSET Epochs]
    /\ shutdown \in BOOLEAN

\* with_timeout, then start(): the three tasks run and wait for their first
\* message, interval and sweep.
Init ==
    /\ running = TRUE
    /\ status = [e \in Epochs |-> "Absent"]
    /\ acked = [e \in Epochs |-> {}]
    /\ aged = [e \in Epochs |-> FALSE]
    /\ nextEpoch = 1
    /\ expected = Sinks
    /\ terminalStarted = FALSE
    /\ terminalEpoch = NoEpoch
    /\ ackq = <<>>
    /\ finalizersSent = [e \in Epochs |-> 0]
    /\ subPc = "recv"
    /\ prodPc = "sleep"
    /\ prodEpoch = NoEpoch
    /\ sweepPc = "sleep"
    /\ sweepTerminal = NoEpoch
    /\ sinkPc = [s \in Sinks |-> "live"]
    /\ sinkSnap = [s \in Sinks |-> {}]
    /\ sinkSend = [s \in Sinks |-> {}]
    /\ flushed = [s \in Sinks |-> {}]
    /\ sourcePc = [c \in Sources |-> "starting"]
    /\ inbox = [c \in Sources |-> {}]
    /\ emitted = [c \in Sources |-> {}]
    /\ shutdown = FALSE

-----------------------------------------------------------------------------
(* The subscriber task.  The message it works on stays at the head of ackq  *)
(* until the task is back in recv_timeout: it is the only consumer.         *)

HeadEpoch == Head(ackq)[1]
HeadSink  == Head(ackq)[2]

\* An Ack is taken off the channel and its sink looked up in expected_sinks,
\* whose lock is dropped again; an Ack of any other sink is skipped.
AckReceive ==
    /\ running
    /\ subPc = "recv"
    /\ ackq # <<>>
    /\ IF HeadSink \in expected
         THEN subPc' = "lock" /\ UNCHANGED ackq
         ELSE ackq' = Tail(ackq) /\ UNCHANGED subPc
    /\ UNCHANGED <<running, epochVars, mintVars, expected, finalizersSent,
                   prodVars, sweepVars, sinkVars, sourceVars>>

\* A wrong variant: an Ack for an epoch that is Finalized already is recorded.
AckRecordReopens ==
    /\ subPc = "lock"
    /\ status[HeadEpoch] # "Absent"
    /\ status' = [status EXCEPT ![HeadEpoch] = "InProgress"]
    /\ acked' = [acked EXCEPT ![HeadEpoch] = @ \cup {HeadSink}]
    /\ subPc' = "recv"
    /\ ackq' = Tail(ackq)
    /\ UNCHANGED <<running, aged, mintVars, expected, finalizersSent,
                   prodVars, sweepVars, sinkVars, sourceVars>>

\* The Ack is recorded under the epochs lock, and the epoch becomes Finalized
\* when every sink expected NOW has acked it.
AckRecord ==
    /\ subPc = "lock"
    /\ Pending(HeadEpoch)
    /\ LET got  == acked[HeadEpoch] \cup {HeadSink}
           done == expected \subseteq got
       IN  /\ status' = [status EXCEPT ![HeadEpoch] =
                            IF done THEN "Finalized" ELSE "InProgress"]
           /\ acked' = [acked EXCEPT ![HeadEpoch] = IF done THEN {} ELSE got]
           /\ subPc' = IF done THEN "send" ELSE "recv"
           /\ ackq' = IF done THEN ackq ELSE Tail(ackq)
    /\ UNCHANGED <<running, aged, mintVars, expected, finalizersSent,
                   prodVars, sweepVars, sinkVars, sourceVars>>

\* An Ack for an epoch that is Finalized already or no longer in the map.
AckIgnore ==
    /\ subPc = "lock"
    /\ ~ Pending(HeadEpoch)
    /\ subPc' = "recv"
    /\ ackq' = Tail(ackq)
    /\ UNCHANGED <<running, epochVars, mintVars, expected, finalizersSent,
                   prodVars, sweepVars, sinkVars, sourceVars>>

\* The Finalizer is broadcast after the epochs lock was released.
AckFinalizer ==
    /\ subPc = "send"
    /\ finalizersSent' = [finalizersSent EXCEPT ![HeadEpoch] = @ + 1]
    /\ subPc' = "recv"
    /\ ackq' = Tail(ackq)
    /\ UNCHANGED <<running, epochVars, mintVars, expected, prodVars,
                   sweepVars, sinkVars, sourceVars>>

SubscriberExit ==
    /\ ~ running
    /\ subPc = "recv"
    /\ subPc' = "exited"
    /\ UNCHANGED <<running, epochVars, mintVars, expected, finalizersSent, ackq,
                   prodVars, sweepVars, sinkVars, sourceVars>>

-----------------------------------------------------------------------------
(* The timer producer task.                                                *)

\* The interval elapsed; a producer that sees the terminal flag stops.  The
\* bound on epochs is a last interval that never elapses.
ProducerWake ==
    /\ running
    /\ prodPc = "sleep"
    /\ terminalStarted \/ nextEpoch < MaxEpoch
    /\ prodPc' = IF terminalStarted THEN "exited" ELSE "wait"
    /\ UNCHANGED <<running, epochVars, mintVars, expected, finalizersSent,
                   subVars, prodEpoch, sweepVars, sinkVars, sourceVars>>

\* The newest epoch of the map, if there is one, is Finalized.
NewestFinalized ==
    \A e \in Epochs :
        (Pending(e) => \E f \in Epochs : f > e /\ status[f] # "Absent")

ProducerReady ==
    /\ prodPc = "wait"
    /\ NewestFinalized
    /\ prodPc' = "mint"
    /\ UNCHANGED <<running, epochVars, mintVars, expected, finalizersSent,
                   subVars, prodEpoch, sweepVars, sinkVars, sourceVars>>

\* A wrong variant: the terminal flag is not read again under the lock.
ProducerMintUnchecked ==
    /\ prodPc = "mint"
    /\ nextEpoch <= MaxEpoch
    /\ status' = [e \in Epochs |-> IF e = nextEpoch THEN "Started" ELSE "Absent"]
    /\ acked' = [e \in Epochs |-> {}]
    /\ aged' = [e \in Epochs |-> FALSE]
    /\ prodEpoch' = nextEpoch
    /\ nextEpoch' = nextEpoch + 1
    /\ prodPc' = "send"
    /\ UNCHANGED <<running, terminalStarted, terminalEpoch, expected,
                   finalizersSent, subVars, sweepVars, sinkVars, sourceVars>>

\* Under the epochs lock the terminal flag is read again, then the map is
\* cleared and a fresh epoch inserted.
ProducerMint ==
    /\ prodPc = "mint"
    /\ ~ terminalStarted
    /\ status' = [e \in Epochs |-> IF e = nextEpoch THEN "Started" ELSE "Absent"]
    /\ acked' = [e \in Epochs |-> {}]
    /\ aged' = [e \in Epochs |-> FALSE]
    /\ prodEpoch' = nextEpoch
    /\ nextEpoch' = nextEpoch + 1
    /\ prodPc' = "send"
    /\ UNCHANGED <<running, terminalStarted, terminalEpoch, expected,
                   finalizersSent, subVars, sweepVars, sinkVars, sourceVars>>

ProducerStopsForTerminal ==
    /\ prodPc = "mint"
    /\ terminalStarted
    /\ prodPc' = "exited"
    /\ UNCHANGED <<running, epochVars, mintVars, expected, finalizersSent,
                   subVars, prodEpoch, sweepVars, sinkVars, sourceVars>>

Subscribed(c) == sourcePc[c] \notin {"starting", "ended", "committed", "gaveUp"}

\* The Marker is broadcast to the sources subscribed at this moment: with none
\* of them it is lost.
ProducerSend ==
    /\ prodPc = "send"
    /\ inbox' = [c \in Sources |->
                    IF Subscribed(c) THEN inbox[c] \cup {prodEpoch} ELSE inbox[c]]
    /\ prodPc' = "sleep"
    /\ prodEpoch' = NoEpoch
    /\ UNCHANGED <<running, epochVars, mintVars, expected, finalizersSent,
                   subVars, sweepVars, sinkVars, sourcePc, emitted, shutdown>>

ProducerExit ==
    /\ ~ running
    /\ prodPc \in {"sleep", "wait"}
    /\ prodPc' = "exited"
    /\ UNCHANGED <<running, epochVars, mintVars, expected, finalizersSent,
                   subVars, prodEpoch, sweepVars, sinkVars, sourceVars>>

-----------------------------------------------------------------------------
(* The timeout task.                                                       *)

\* Time passes for a pending epoch until it is older than the timeout.  The
\* one timing assumption of the model: the sweep does not stall for the whole
\* timeout between its two locks, so an epoch it does not know to be the
\* terminal one is not also too old by then.
Age(e) ==
    /\ Pending(e)
    /\ ~ aged[e]
    /\ ~ (sweepPc = "sweep" /\ e = terminalEpoch /\ sweepTerminal # e)
    /\ aged' = [aged EXCEPT ![e] = TRUE]
    /\ UNCHANGED <<running, status, acked, mintVars, expected, finalizersSent,
                   subVars, prodVars, sweepVars, sinkVars, sourceVars>>

\* A wrong variant: the loop does not look at running.
SweepReadForever ==
    /\ sweepPc = "sleep"
    /\ sweepTerminal' = terminalEpoch
    /\ sweepPc' = "sweep"
    /\ UNCHANGED <<running, epochVars, mintVars, expected, finalizersSent,
                   subVars, prodVars, sinkVars, sourceVars>>

SweepRead ==
    /\ running
    /\ sweepPc = "sleep"
    /\ sweepTerminal' = terminalEpoch
    /\ sweepPc' = "sweep"
    /\ UNCHANGED <<running, epochVars, mintVars, expected, finalizersSent,
                   subVars, prodVars, sinkVars, sourceVars>>

\* Wrong variants: the terminal epoch is not exempt; nothing is removed.
TimedOutAny == {e \in Epochs : Pending(e) /\ aged[e]}
TimedOutNone == {}

TimedOut == {e \in Epochs : Pending(e) /\ aged[e] /\ e # sweepTerminal}

SweepRemove ==
    /\ sweepPc = "sweep"
    /\ status' = [e \in Epochs |-> IF e \in TimedOut THEN "Absent" ELSE status[e]]
    /\ acked' = [e \in Epochs |-> IF e \in TimedOut THEN {} ELSE acked[e]]
    /\ aged' = [e \in Epochs |-> IF e \in TimedOut THEN FALSE ELSE aged[e]]
    /\ sweepPc' = "sleep"
    /\ sweepTerminal' = NoEpoch
    /\ UNCHANGED <<running, mintVars, expected, finalizersSent, subVars,
                   prodVars, sinkVars, sourceVars>>

SweepExit ==
    /\ ~ running
    /\ sweepPc = "sleep"
    /\ sweepPc' = "exited"
    /\ UNCHANGED <<running, epochVars, mintVars, expected, finalizersSent,
                   subVars, prodVars, sweepTerminal, sinkVars, sourceVars>>

-----------------------------------------------------------------------------
(* CheckpointControl::sink_completed, called for a sink whose future ended  *)
(* without an error: all its streams have ended and all is written.  Each   *)
(* sink of the run completes at most once.                                  *)

StreamEnded(c) == sourcePc[c] \in {"ended", "committed", "gaveUp"}

\* A wrong variant: the sink is dropped and the epochs are not looked at.
CompleteRemoveOnly(s) ==
    /\ sinkPc[s] = "live"
    /\ \A c \in Feeds[s] : StreamEnded(c)
    /\ expected' = expected \ {s}
    /\ sinkPc' = [sinkPc EXCEPT ![s] = "done"]
    /\ UNCHANGED <<running, epochVars, mintVars, finalizersSent, subVars,
                   prodVars, sweepVars, sinkSnap, sinkSend, flushed, sourceVars>>

\* collect() returned Ok; under the expected_sinks lock the sink is dropped and
\* what is left copied.
CompleteRemove(s) ==
    /\ sinkPc[s] = "live"
    /\ \A c \in Feeds[s] : StreamEnded(c)
    /\ expected' = expected \ {s}
    /\ sinkSnap' = [sinkSnap EXCEPT ![s] = expected \ {s}]
    /\ sinkPc' = [sinkPc EXCEPT ![s] = "sweep"]
    /\ UNCHANGED <<running, epochVars, mintVars, finalizersSent, subVars,
                   prodVars, sweepVars, sinkSend, flushed, sourceVars>>

\* Wrong variants: acks are counted instead of compared; an epoch that is
\* Finalized already is finalized again.
ReadyByCount(sinks) ==
    {e \in Epochs : \/ status[e] = "Started" /\ sinks = {}
                    \/ /\ status[e] = "InProgress"
                       /\ Cardinality(acked[e]) >= Cardinality(sinks)}

ReadyAgain(sinks) == {e \in Epochs : status[e] # "Absent" /\ sinks \subseteq acked[e]}

\* finalize_ready_epochs: what the given set of sinks has fully acked.
Ready(sinks) ==
    {e \in Epochs : \/ status[e] = "Started" /\ sinks = {}
                    \/ status[e] = "InProgress" /\ sinks \subseteq acked[e]}

\* Under the epochs lock, with the copy taken before.
CompleteSweep(s) ==
    /\ sinkPc[s] = "sweep"
    /\ LET ready == Ready(sinkSnap[s])
       IN  /\ status' = [e \in Epochs |->
                            IF e \in ready THEN "Finalized" ELSE status[e]]
           /\ acked' = [e \in Epochs |-> IF e \in ready THEN {} ELSE acked[e]]
           /\ sinkSend' = [sinkSend EXCEPT ![s] = ready]
           /\ sinkPc' = [sinkPc EXCEPT ![s] = IF ready = {} THEN "done" ELSE "send"]
    /\ sinkSnap' = [sinkSnap EXCEPT ![s] = {}]
    /\ UNCHANGED <<running, aged, mintVars, expected, finalizersSent, subVars,
                   prodVars, sweepVars, flushed, sourceVars>>

\* One Finalizer per step, in epoch order, with no lock held.
CompleteFinalizer(s) ==
    /\ sinkPc[s] = "send"
    /\ \E e \in sinkSend[s] :
          /\ \A f \in sinkSend[s] : e <= f
          /\ finalizersSent' = [finalizersSent EXCEPT ![e] = @ + 1]
          /\ sinkSend' = [sinkSend EXCEPT ![s] = @ \ {e}]
          /\ sinkPc' = [sinkPc EXCEPT ![s] =
                           IF sinkSend[s] = {e} THEN "done" ELSE "send"]
    /\ UNCHANGED <<running, epochVars, mintVars, expected, subVars, prodVars,
                   sweepVars, sinkSnap, flushed, sourceVars>>

-----------------------------------------------------------------------------
(* CheckpointControl::begin_terminal_checkpoint and the wait that follows   *)
(* it, called by a source at the end of its stream.                         *)

BeginFlag(c) ==
    /\ sourcePc[c] = "running"
    /\ terminalStarted' = TRUE
    /\ sourcePc' = [sourcePc EXCEPT ![c] = "lock"]
    /\ UNCHANGED <<running, epochVars, nextEpoch, terminalEpoch, expected,
                   finalizersSent, subVars, prodVars, sweepVars, sinkVars,
                   inbox, emitted, shutdown>>

\* Under the epochs lock: the first caller mints the terminal epoch, the others
\* reuse it; pending timer epochs stay in the map.  The caller then puts the
\* terminal Marker on its stream and drops what is left in its receiver.
BeginMint(c) ==
    /\ sourcePc[c] = "lock"
    /\ LET terminal == IF terminalEpoch = NoEpoch THEN nextEpoch ELSE terminalEpoch
       IN  /\ terminalEpoch' = terminal
           /\ emitted' = [emitted EXCEPT ![c] = @ \cup {terminal}]
           /\ IF terminalEpoch = NoEpoch
                THEN /\ status' = [status EXCEPT ![terminal] = "Started"]
                     /\ nextEpoch' = nextEpoch + 1
                ELSE UNCHANGED <<status, nextEpoch>>
    /\ inbox' = [inbox EXCEPT ![c] = {}]
    /\ sourcePc' = [sourcePc EXCEPT ![c] = "awaiting"]
    /\ UNCHANGED <<running, acked, aged, terminalStarted, expected,
                   finalizersSent, subVars, prodVars, sweepVars, sinkVars, shutdown>>

TerminalFinalized ==
    /\ terminalEpoch # NoEpoch
    /\ status[terminalEpoch] = "Finalized"

\* await_terminal_finalized returned: the source commits its tail and ends.
\* The 200ms poll makes the wait independent of the notification.
AwaitFinalized(c) ==
    /\ sourcePc[c] = "awaiting"
    /\ TerminalFinalized
    /\ sourcePc' = [sourcePc EXCEPT ![c] = "committed"]
    /\ UNCHANGED <<running, epochVars, mintVars, expected, finalizersSent,
                   subVars, prodVars, sweepVars, sinkVars, inbox, emitted, shutdown>>

\* The wait is bounded once a shutdown was requested (SIGTERM, or a sink that
\* failed).  Nothing else here reads the request, so a signal is part of the
\* step in which it first shows.
AwaitTimeout(c) ==
    /\ sourcePc[c] = "awaiting"
    /\ sourcePc' = [sourcePc EXCEPT ![c] = "gaveUp"]
    /\ shutdown' = TRUE
    /\ UNCHANGED <<running, epochVars, mintVars, expected, finalizersSent,
                   subVars, prodVars, sweepVars, sinkVars, inbox, emitted>>

-----------------------------------------------------------------------------
(* Sources, sinks and the run loop as the coordinator's environment.        *)

SourceSubscribe(c) ==
    /\ sourcePc[c] = "starting"
    /\ sourcePc' = [sourcePc EXCEPT ![c] = "running"]
    /\ UNCHANGED <<running, epochVars, mintVars, expected, finalizersSent,
                   subVars, prodVars, sweepVars, sinkVars, inbox, emitted, shutdown>>

\* A source takes a Marker off its receiver and puts it on its stream.
SourceEmit(c) ==
    /\ sourcePc[c] = "running"
    /\ inbox[c] # {}
    /\ emitted' = [emitted EXCEPT ![c] = @ \cup inbox[c]]
    /\ inbox' = [inbox EXCEPT ![c] = {}]
    /\ UNCHANGED <<running, epochVars, mintVars, expected, finalizersSent,
                   subVars, prodVars, sweepVars, sinkVars, sourcePc, shutdown>>

\* A stream that ends without the terminal checkpoint: its receiver is gone,
\* or it is a bounded partition that is not the last one to finish.
SourceEnd(c) ==
    /\ sourcePc[c] = "running"
    /\ sourcePc' = [sourcePc EXCEPT ![c] = "ended"]
    /\ inbox' = [inbox EXCEPT ![c] = {}]
    /\ UNCHANGED <<running, epochVars, mintVars, expected, finalizersSent,
                   subVars, prodVars, sweepVars, sinkVars, emitted, shutdown>>

\* The Marker of e has reached the sink on every stream that still runs (the
\* merge points in front of the sink align its copies).
MarkerAtSink(s, e) ==
    /\ \E c \in Feeds[s] : e \in emitted[c]
    /\ \A c \in Feeds[s] : e \in emitted[c] \/ StreamEnded(c)

\* process_checkpoint_acks: the sink has flushed, then sends its Ack.
SinkAck(s, e) ==
    /\ sinkPc[s] = "live"
    /\ MarkerAtSink(s, e)
    /\ e \notin flushed[s]
    /\ flushed' = [flushed EXCEPT ![s] = @ \cup {e}]
    /\ ackq' = Append(ackq, <<e, s>>)
    /\ UNCHANGED <<running, epochVars, mintVars, expected, finalizersSent, subPc,
                   prodVars, sweepVars, sinkPc, sinkSnap, sinkSend, sourceVars>>

\* collect() returned an error: the sink stays expected, the pipeline drains.
SinkFail(s) ==
    /\ sinkPc[s] = "live"
    /\ sinkPc' = [sinkPc EXCEPT ![s] = "failed"]
    /\ shutdown' = TRUE
    /\ UNCHANGED <<running, epochVars, mintVars, expected, finalizersSent,
                   subVars, prodVars, sweepVars, sinkSnap, sinkSend, flushed,
                   sourcePc, inbox, emitted>>

\* stop(), called by the run loop once every sink future has ended.
Stop ==
    /\ running
    /\ \A s \in Sinks : sinkPc[s] \in {"done", "failed"}
    /\ running' = FALSE
    /\ UNCHANGED <<epochVars, mintVars, expected, finalizersSent, subVars,
                   prodVars, sweepVars, sinkVars, sourceVars>>

TasksExited == subPc = "exited" /\ prodPc = "exited" /\ sweepPc = "exited"

\* stop() has joined the tasks: nothing is left to happen.
Stopped ==
    /\ TasksExited
    /\ UNCHANGED vars

Subscriber == AckReceive \/ AckRecord \/ AckIgnore \/ AckFinalizer \/ SubscriberExit

Producer == \/ ProducerWake \/ ProducerReady \/ ProducerMint
            \/ ProducerStopsForTerminal \/ ProducerSend \/ ProducerExit

Sweeper == SweepRead \/ SweepRemove \/ SweepExit

SinkCompleted(s) == CompleteRemove(s) \/ CompleteSweep(s) \/ CompleteFinalizer(s)

SourceDone(c) == BeginFlag(c) \/ BeginMint(c) \/ AwaitFinalized(c)

Next ==
    \/ Subscriber
    \/ Producer
    \/ Sweeper
    \/ \E e \in Epochs : Age(e)
    \/ \E s \in Sinks : \/ SinkCompleted(s) \/ SinkFail(s)
                        \/ \E e \in Epochs : SinkAck(s, e)
    \/ \E c \in Sources : \/ SourceDone(c) \/ SourceSubscribe(c)
                          \/ SourceEmit(c) \/ SourceEnd(c) \/ AwaitTimeout(c)
    \/ Stop
    \/ Stopped

\* The runtime keeps polling the three tasks and the calls that have begun, and
\* time passes.  Nothing forces a source to end, to subscribe or to relay a
\* Marker, a sink to ack or to complete, a failure, a shutdown request or stop().
Fairness ==
    /\ WF_vars(Subscriber)
    /\ WF_vars(Producer)
    /\ WF_vars(Sweeper)
    /\ \A e \in Epochs : WF_vars(Age(e))
    /\ \A s \in Sinks : WF_vars(CompleteSweep(s) \/ CompleteFinalizer(s))
    /\ \A c \in Sources : WF_vars(BeginMint(c) \/ AwaitFinalized(c))

Spec == Init /\ [][Next]_vars

FairSpec == Spec /\ Fairness

-----------------------------------------------------------------------------
(* Safety.                                                                  *)

\* A sink has made everything it received before the Marker of e durable: it
\* has flushed and acked e, or it has drained its whole input successfully.
Durable(s, e) == e \in flushed[s] \/ sinkPc[s] \in {"sweep", "send", "done"}

\* Finalizing an epoch lets the sources commit: whatever the order in which
\* acks, completions, sweeps and the terminal checkpoint interleave, an epoch
\* that is Finalized, or whose Finalizer went out, is durable in every sink of
\* the pipeline, and a source commits its tail only if the terminal epoch is.
FinalizedIsDurable ==
    /\ \A e \in Epochs : (status[e] = "Finalized" \/ finalizersSent[e] > 0)
                           => \A s \in Sinks : Durable(s, e)
    /\ \A c \in Sources : sourcePc[c] = "committed"
                           => \A s \in Sinks : Durable(s, terminalEpoch)

\* The subscriber has made e Finalized and not yet broadcast its Finalizer.
SubscriberOwes(e) == subPc = "send" /\ HeadEpoch = e

\* The single-sender guarantee of sink_completed: only the path that made the
\* epoch Finalized broadcasts its Finalizer, so no epoch is finalized twice,
\* however the subscriber and the completing sinks interleave.
SingleFinalizer ==
    \A e \in Epochs :
        /\ finalizersSent[e] <= 1
        /\ SubscriberOwes(e) => /\ finalizersSent[e] = 0
                               /\ \A s \in Sinks : e \notin sinkSend[s]
        /\ \A s \in Sinks : e \in sinkSend[s] =>
              /\ finalizersSent[e] = 0
              /\ \A t \in Sinks : e \in sinkSend[t] => t = s

\* begin_terminal_checkpoint against the timer producer and the timeout sweep:
\* once minted, the terminal epoch stays in the map and no epoch follows it.
TerminalIsLast ==
    terminalEpoch # NoEpoch =>
        /\ terminalStarted
        /\ status[terminalEpoch] # "Absent"
        /\ nextEpoch = terminalEpoch + 1

\* No finalization is lost between an ack and a completing sink: an acked or
\* terminal epoch that no expected sink holds back has a sink_completed call
\* on its way that will finalize it.
NoLostFinalization ==
    \A e \in Epochs :
        /\ Pending(e)
        /\ status[e] = "InProgress" \/ e = terminalEpoch
        /\ expected \subseteq acked[e]
        => \E s \in Sinks : sinkPc[s] = "sweep" /\ sinkSnap[s] \subseteq acked[e]

\* An epoch number is used once: an epoch enters the map only as the next
\* number, and one that was Finalized never becomes pending again.
EpochsAreFresh ==
    [][\A e \in Epochs :
          /\ status[e] = "Absent" /\ status'[e] # "Absent" => e = nextEpoch
          /\ status[e] = "Finalized" => status'[e] \in {"Finalized", "Absent"}]_vars

(* Liveness.                                                                *)

\* A lost Marker or a silent sink does not stop periodic checkpoints: whatever
\* the sources and the sinks of a running pipeline leave undone, the timeout
\* sweep lets the timer producer out of its wait.
ProducerNotWedged ==
    (prodPc = "wait" /\ terminalEpoch = NoEpoch)
        ~> (prodPc # "wait" \/ terminalEpoch # NoEpoch)

\* What a job that ends needs of its environment: a live sink acks the Markers
\* that reach it and completes after its streams, and every source ends.
SinksKeepUp ==
    \A s \in Sinks : /\ WF_vars(CompleteRemove(s))
                     /\ \A e \in Epochs : WF_vars(SinkAck(s, e))
SourcesEnd == \A c \in Sources : WF_vars(SourceSubscribe(c)) /\ WF_vars(BeginFlag(c))

\* Unless the pipeline is asked to shut down, the terminal checkpoint of a job
\* whose sinks keep up is finalized, and every source that waits for it commits.
TerminalCompletes ==
    SinksKeepUp /\ SourcesEnd =>
        \A c \in Sources :
            sourcePc[c] = "awaiting" ~> (sourcePc[c] = "committed" \/ shutdown)

\* stop() joins its tasks.
StopJoins == ~ running ~> TasksExited

-----------------------------------------------------------------------------
(* The inductive strengthening the proofs of the safety invariants use.     *)

Gone == {"sweep", "send", "done"}
Holding == {"starting", "running", "lock", "awaiting"}

\* The subscriber has a message in hand, the producer an epoch to announce,
\* and the epoch numbers do not run out before the terminal one.
HandsFull ==
    /\ subPc \in {"lock", "send"} => ackq # <<>>
    /\ prodPc = "send" => prodEpoch \in Epochs

NumbersLeft ==
    /\ terminalEpoch = NoEpoch => nextEpoch <= MaxEpoch
    /\ prodPc \in {"wait", "mint"} /\ ~ terminalStarted => nextEpoch < MaxEpoch
    /\ terminalEpoch # NoEpoch => terminalStarted
    /\ \A c \in Sources : sourcePc[c] = "lock" => terminalStarted
    /\ \A c \in Sources : sourcePc[c] \in {"awaiting", "committed"}
                             => terminalEpoch # NoEpoch

\* An Ack on its way, or recorded, is of an epoch its sink has flushed.
AcksAreTrue ==
    /\ \A i \in 1 .. Len(ackq) : ackq[i][1] \in flushed[ackq[i][2]]
    /\ \A e \in Epochs : \A s \in acked[e] : e \in flushed[s]

\* A sink that is missing from expected_sinks, or from a copy of it that is
\* still in use, has completed.
DroppedIsGone ==
    /\ \A s \in Sinks : s \in expected \/ sinkPc[s] \in Gone
    /\ \A s, t \in Sinks :
          sinkPc[s] = "sweep" => t \in sinkSnap[s] \/ sinkPc[t] \in Gone

\* Whoever is about to broadcast Finalizer(e) knows e to be durable.
OwedIsDurable ==
    \A e \in Epochs :
        SubscriberOwes(e) \/ (\E s \in Sinks : e \in sinkSend[s])
            => \A t \in Sinks : Durable(t, e)

\* Numbers not yet minted are unused, a pending epoch was never finalized, and
\* an epoch with acks is InProgress.
UnusedIsBlank ==
    \A e \in Epochs :
        /\ e >= nextEpoch => status[e] = "Absent" /\ ~ aged[e]
        /\ e >= nextEpoch \/ Pending(e) => /\ finalizersSent[e] = 0
                                          /\ ~ SubscriberOwes(e)
                                          /\ \A s \in Sinks : e \notin sinkSend[s]
        /\ status[e] # "InProgress" => acked[e] = {}

\* A sweep that does not know the terminal epoch finds it too young.
TerminalIsYoung ==
    sweepPc = "sweep" /\ terminalEpoch # NoEpoch /\ sweepTerminal # terminalEpoch
        => ~ aged[terminalEpoch]

\* A sink outlives the sources that feed it.
SinksOutlive ==
    /\ \A s \in Sinks : sinkPc[s] \in {"live", "failed"} => s \in expected
    /\ \A s \in Sinks : \A c \in Feeds[s] :
          sourcePc[c] \in Holding => sinkPc[s] \in {"live", "failed"}

IndInv ==
    /\ TypeOK /\ HandsFull /\ NumbersLeft
    /\ AcksAreTrue /\ DroppedIsGone /\ OwedIsDurable
    /\ UnusedIsBlank /\ TerminalIsYoung /\ SinksOutlive
    /\ FinalizedIsDurable /\ SingleFinalizer /\ TerminalIsLast /\ NoLostFinalization
=============================================================================
