----------------------------- MODULE Broadcast -----------------------------
(***************************************************************************)
(* One source stream handed to several consumers: BroadcastStream          *)
(* (streamling-core/src/operators/broadcast/broadcast_stream.rs), the      *)
(* registration of a shared scan (operators/scan_sharing.rs) and the       *)
(* fan-out sink above it, MultiSinkExec (operators/broadcast.rs), for one  *)
(* input partition.                                                        *)
(*                                                                         *)
(* The driver task sends every batch to each registered consumer through a *)
(* bounded channel.  A consumer that is full holds the driver, and with it *)
(* every other consumer, until it takes a batch; once shutdown was         *)
(* requested it is given up after a window, and its stream must then end   *)
(* in an error, because a sink that ends cleanly no longer owes an ack.    *)
(* Each sink has a writer task; one more consumer is the output of the     *)
(* plan, which joins the writers when the broadcast has ended.             *)
(*                                                                         *)
(* Batches are numbered; each may carry a Marker, which the sink acks when *)
(* it has written the batch, so what a sink has acked is bounded by the    *)
(* last batch it received.                                                 *)
(***************************************************************************)
EXTENDS Naturals, Sequences, FiniteSets

CONSTANTS Sinks,         \* the sinks of the fan-out
          Output,        \* the consumer of the plan's own output stream
          MayStick,      \* the sinks whose writes may hang
          Capacity,      \* internal_buffer_size of a channel
          MaxBatches     \* bound: batches of the source

ASSUME BroadcastAssumption ==
    /\ IsFiniteSet(Sinks) /\ Sinks # {} /\ Output \notin Sinks
    /\ MayStick \subseteq Sinks
    /\ Capacity \in Nat \ {0} /\ MaxBatches \in Nat

Consumers == Sinks \cup {Output}

\* What a channel carries besides the batches: the error of the source.
SourceError == MaxBatches + 1
Item == 1..SourceError

VARIABLES
    driver,    \* where run_broadcast is: "new", "top", "next", "send", "done"
    feed,      \* the source stream: "open", "ended" or "failed"
    produced,  \* batches the source stream has yielded
    slots,     \* the registered consumers
    held,      \* the consumers whose sender the driver has cloned for this batch
    sending,   \* those of them it has still to send the batch to
    closed,    \* those whose receiver was gone
    stalled,   \* those that stayed full for the window
    chan,      \* [consumer -> what its channel holds]
    receiving, \* the consumers whose receiver exists
    abandoned, \* the consumers whose abandoned flag is set
    stopped,   \* the stopped flag
    received,  \* [consumer -> the batches it received]
    ended,     \* [sink -> "no", or the result of its write_all]
    counted,   \* the sinks counted in completed_sinks
    plan,      \* the output stream: "running", "joining", "ok" or "err"
    shutdown,  \* the process-wide shutdown was requested
    stuck      \* the sinks that may stop taking batches, fixed at the start

driverVars == <<driver, slots, held, sending, closed, stalled, abandoned, stopped>>
sinkVars == <<ended, counted>>
broadcastVars == <<driverVars, feed, produced, chan, receiving, received, sinkVars,
                   plan, shutdown, stuck>>

\* A receiver gets no more when every sender is dropped.
HasSender(c) == c \in slots \cup held

BroadcastInit ==
    /\ driver = "new" /\ feed = "open" /\ produced = 0
    /\ slots = {} /\ held = {} /\ sending = {} /\ closed = {} /\ stalled = {}
    /\ chan = [c \in Consumers |-> <<>>]
    /\ receiving = {} /\ abandoned = {} /\ stopped = FALSE
    /\ received = [c \in Consumers |-> <<>>]
    /\ ended = [c \in Sinks |-> "no"] /\ counted = {}
    /\ plan = "running" /\ shutdown = FALSE
    /\ stuck \in SUBSET MayStick

-----------------------------------------------------------------------------
(* The driver task.                                                        *)

\* The broadcast starts when all expected consumers are registered.
Starts(registered) == registered = Consumers

Register(c) ==
    /\ c \notin receiving
    /\ IF c = Output THEN plan = "running" ELSE ended[c] = "no"
    /\ slots' = slots \cup {c}
    /\ receiving' = receiving \cup {c}
    /\ driver' = IF driver = "new" /\ Starts(slots \cup {c}) THEN "top" ELSE driver
    /\ UNCHANGED <<feed, produced, held, sending, closed, stalled, chan, abandoned, stopped,
                   received, sinkVars, plan, shutdown, stuck>>

\* The end of the loop drops all senders.
Finish ==
    /\ driver' = "done" /\ slots' = {}
    /\ UNCHANGED <<held, sending, closed, stalled, abandoned, stopped>>

CheckStopped ==
    /\ driver = "top"
    /\ IF stopped THEN Finish
       ELSE driver' = "next" /\ UNCHANGED <<slots, held, sending, closed, stalled, abandoned, stopped>>
    /\ UNCHANGED <<feed, produced, chan, receiving, received, sinkVars, plan, shutdown, stuck>>

\* What is being sent: the batch yielded last, or the error of the source.
Current == IF feed = "failed" THEN SourceError ELSE produced

\* source_stream.next() yields a batch or the error: clone the registered slots.
Fetch(how) ==
    /\ driver = "next" /\ feed = "open"
    /\ \/ how = "batch" /\ produced < MaxBatches /\ produced' = produced + 1 /\ UNCHANGED feed
       \/ how = "error" /\ feed' = "failed" /\ UNCHANGED produced
    /\ driver' = "send"
    /\ held' = slots /\ sending' = slots
    /\ UNCHANGED <<slots, closed, stalled, abandoned, stopped, chan, receiving, received,
                   sinkVars, plan, shutdown, stuck>>

\* The source stream ends; shutdown forces it to.
SourceEnds ==
    /\ driver = "next"
    /\ feed' = IF feed = "open" THEN "ended" ELSE feed
    /\ Finish
    /\ UNCHANGED <<produced, chan, receiving, received, sinkVars, plan, shutdown, stuck>>

Full(c) == Len(chan[c]) >= Capacity

SendOk(c) ==
    /\ c \in sending /\ c \in receiving /\ ~Full(c)
    /\ chan' = [chan EXCEPT ![c] = Append(@, Current)]
    /\ sending' = sending \ {c}
    /\ UNCHANGED <<driver, feed, produced, slots, held, closed, stalled, receiving, abandoned,
                   stopped, received, sinkVars, plan, shutdown, stuck>>

SendClosed(c) ==
    /\ c \in sending /\ c \notin receiving
    /\ sending' = sending \ {c}
    /\ closed' = closed \cup {c}
    /\ UNCHANGED <<driver, feed, produced, slots, held, stalled, chan, receiving, abandoned,
                   stopped, received, sinkVars, plan, shutdown, stuck>>

\* A wrong variant: a full consumer is retried for ever.
GivesUpNever(c) == FALSE

\* The channel stayed full for the window and shutdown is requested.
GivesUp(c) == shutdown /\ Full(c)

SendStalled(c) ==
    /\ c \in sending /\ c \in receiving /\ GivesUp(c)
    /\ sending' = sending \ {c}
    /\ stalled' = stalled \cup {c}
    /\ UNCHANGED <<driver, feed, produced, slots, held, closed, chan, receiving, abandoned,
                   stopped, received, sinkVars, plan, shutdown, stuck>>

\* Wrong variants: the flag is not set, or the consumer stays registered.
AbandonedUnset == abandoned
FailedKept == closed

\* The flags of the consumers that stalled are set ...
Abandoned == abandoned \cup stalled

\* ... before they are removed with the closed ones.
Failed == closed \cup stalled

SendsJoined ==
    /\ driver = "send" /\ sending = {}
    /\ abandoned' = Abandoned
    /\ slots' = slots \ Failed
    /\ held' = {} /\ closed' = {} /\ stalled' = {}
    /\ driver' = "top"
    /\ UNCHANGED <<feed, produced, sending, chan, receiving, stopped, received, sinkVars, plan,
                   shutdown, stuck>>

-----------------------------------------------------------------------------
(* The writer task of a sink.                                              *)

\* write_all returns and drops the stream.
WriterEnds(c, result) ==
    /\ ended' = [ended EXCEPT ![c] = result]
    /\ receiving' = receiving \ {c}
    /\ UNCHANGED <<driverVars, feed, produced, counted, plan, shutdown, stuck>>

\* The sink reads, and writes and acks, the next batch, or fails on an error.
Receive(c) ==
    /\ c \in receiving /\ chan[c] # <<>>
    /\ chan' = [chan EXCEPT ![c] = Tail(@)]
    /\ IF Head(chan[c]) = SourceError
       THEN WriterEnds(c, "err") /\ UNCHANGED received
       ELSE /\ received' = [received EXCEPT ![c] = Append(@, Head(chan[c]))]
            /\ UNCHANGED <<driverVars, feed, produced, receiving, sinkVars, plan, shutdown, stuck>>

\* BroadcastConsumer::poll_next at the end of the channel.
StreamEnds(c) ==
    /\ c \in receiving /\ chan[c] = <<>> /\ ~HasSender(c) /\ driver # "new"
    /\ WriterEnds(c, IF c \in abandoned THEN "err" ELSE "ok")
    /\ UNCHANGED <<chan, received>>

\* The sink fails for a reason of its own.
SinkFails(c) ==
    /\ c \in receiving /\ driver # "new"
    /\ WriterEnds(c, "err")
    /\ chan' = [chan EXCEPT ![c] = <<>>]
    /\ UNCHANGED received

\* completed_sinks: the last of them stops the broadcast.
CountCompleted(c) ==
    /\ ended[c] # "no" /\ c \notin counted
    /\ counted' = counted \cup {c}
    /\ IF counted' = Sinks THEN stopped' = TRUE /\ slots' = {}
       ELSE UNCHANGED <<stopped, slots>>
    /\ UNCHANGED <<driver, held, sending, closed, stalled, abandoned, feed, produced, chan,
                   receiving, received, ended, plan, shutdown, stuck>>

-----------------------------------------------------------------------------
(* The output stream of the plan, drained by collect().                    *)

PlanEnds(result) ==
    /\ plan' = result
    /\ receiving' = receiving \ {Output}
    /\ UNCHANGED <<driverVars, feed, produced, sinkVars, shutdown, stuck>>

Forward ==
    /\ Output \in receiving /\ chan[Output] # <<>>
    /\ chan' = [chan EXCEPT ![Output] = Tail(@)]
    /\ IF Head(chan[Output]) = SourceError
       THEN PlanEnds("err") /\ UNCHANGED received
       ELSE /\ received' = [received EXCEPT ![Output] = Append(@, Head(chan[Output]))]
            /\ UNCHANGED <<driverVars, feed, produced, receiving, sinkVars, plan, shutdown, stuck>>

OutputEnds ==
    /\ Output \in receiving /\ chan[Output] = <<>> /\ ~HasSender(Output) /\ driver # "new"
    /\ PlanEnds(IF Output \in abandoned THEN "err" ELSE "joining")
    /\ UNCHANGED <<chan, received>>

\* A wrong variant: the first writer that failed ends the plan.
JoinedEarly ==
    \/ \A c \in Sinks : ended[c] # "no" /\ c \in counted
    \/ \E c \in Sinks : ended[c] = "err"

\* Every writer task is joined before the first failure is reported.
Joined == \A c \in Sinks : ended[c] # "no" /\ c \in counted

JoinWriters ==
    /\ plan = "joining" /\ Joined
    /\ plan' = IF \E c \in Sinks : ended[c] = "err" THEN "err" ELSE "ok"
    /\ UNCHANGED <<driverVars, feed, produced, chan, receiving, received, sinkVars, shutdown, stuck>>

RequestShutdown ==
    /\ ~shutdown /\ shutdown' = TRUE
    /\ UNCHANGED <<driverVars, feed, produced, chan, receiving, received, sinkVars, plan, stuck>>

BroadcastOver ==
    /\ driver = "done" /\ plan \in {"ok", "err"} /\ counted = Sinks
    /\ UNCHANGED broadcastVars

-----------------------------------------------------------------------------
DriverStep == CheckStopped \/ (\E c \in Consumers : SendOk(c) \/ SendClosed(c)) \/ SendsJoined
WriterStep(c) == Receive(c) \/ StreamEnds(c)
PlanStep == Forward \/ OutputEnds \/ JoinWriters

BroadcastNext ==
    \/ \E c \in Consumers : Register(c)
    \/ DriverStep
    \/ \E how \in {"batch", "error"} : Fetch(how)
    \/ SourceEnds
    \/ \E c \in Consumers : SendStalled(c)
    \/ \E c \in Sinks : WriterStep(c) \/ SinkFails(c) \/ CountCompleted(c)
    \/ PlanStep
    \/ RequestShutdown
    \/ BroadcastOver

BroadcastSpec == BroadcastInit /\ [][BroadcastNext]_broadcastVars

\* Tasks are polled, a sink that is not stuck goes on reading, the window
\* elapses, and a source whose shutdown was requested ends its stream.
BroadcastFairness ==
    /\ WF_broadcastVars(\E c \in Consumers : Register(c))
    /\ WF_broadcastVars(DriverStep)
    /\ WF_broadcastVars(PlanStep)
    /\ WF_broadcastVars(shutdown /\ SourceEnds)
    /\ WF_broadcastVars(\E c \in Consumers : SendStalled(c))
    /\ \A c \in Sinks : /\ WF_broadcastVars(c \notin stuck /\ WriterStep(c))
                        /\ WF_broadcastVars(CountCompleted(c))

BroadcastFairSpec == BroadcastSpec /\ BroadcastFairness

-----------------------------------------------------------------------------
(* Properties.                                                             *)

\* Type invariant; a channel never holds more than its capacity.
BroadcastTypeOK ==
    /\ driver \in {"new", "top", "next", "send", "done"}
    /\ feed \in {"open", "ended", "failed"}
    /\ produced \in 0..MaxBatches
    /\ slots \subseteq Consumers /\ held \subseteq Consumers /\ sending \subseteq held
    /\ closed \subseteq held /\ stalled \subseteq held
    /\ chan \in [Consumers -> Seq(Item)] /\ \A c \in Consumers : Len(chan[c]) <= Capacity
    /\ receiving \subseteq Consumers /\ abandoned \subseteq Consumers /\ stopped \in BOOLEAN
    /\ received \in [Consumers -> Seq(Item)]
    /\ ended \in [Sinks -> {"no", "ok", "err"}] /\ counted \subseteq Sinks
    /\ plan \in {"running", "joining", "ok", "err"}
    /\ shutdown \in BOOLEAN /\ stuck \subseteq MayStick

\* A consumer receives a prefix of what the source yields, with no gap: a sink
\* that acks the Marker on a batch has received every batch before it ("let
\* offsets commit over the gap it never received" must not happen).  A sink whose
\* stream ends cleanly, and which then owes no ack any more, has received
\* everything: a consumer that missed a batch ends in an error.
NoGap ==
    /\ \A c \in Consumers : received[c] = [i \in 1..Len(received[c]) |-> i]
    /\ \A c \in Sinks :
          ended[c] = "ok" => feed = "ended" /\ Len(received[c]) = produced

\* The plan succeeds only with every writer, and a writer's failure is reported
\* only when no writer is still flushing.
PlanJoinsWriters ==
    /\ plan = "ok" => \A c \in Sinks : ended[c] = "ok"
    /\ plan = "err" /\ feed # "failed" /\ Output \notin abandoned =>
           \A c \in Sinks : ended[c] # "no"

\* After a shutdown request a stuck sink holds up nobody: every other sink ends,
\* and without a stuck sink the plan ends.
ShutdownDrains ==
    shutdown ~> /\ \A c \in Sinks \ stuck : ended[c] # "no"
                /\ stuck = {} => plan \in {"ok", "err"}
=============================================================================
