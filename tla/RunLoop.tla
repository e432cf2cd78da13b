------------------------------ MODULE RunLoop ------------------------------
(***************************************************************************)
(* The end of a process: the run loop of StreamlingApp::run, the shutdown  *)
(* signal and the watchdog, the teardown ladder, and the plugin sinks that *)
(* must flush inside it (lib.rs, shutdown/, plugin.rs,                     *)
(* plugin/table_provider.rs, dispatch.rs).                                 *)
(*                                                                         *)
(* A branch is a source that feeds one sink; the sink of a branch in       *)
(* Plugins hands its batches to a plugin's dispatcher over a bounded       *)
(* channel, the others write for themselves.  The coordinator is reduced   *)
(* to the terminal epoch, which CheckpointCoordinator models in full.      *)
(*                                                                         *)
(* Time runs in ticks.  Every timer counts ticks, a timer that has expired *)
(* stops the clock until it is served, and so does any step the engine's   *)
(* own tasks can take at once; plugins, sink writes and helper tasks take  *)
(* as long as they like.                                                   *)
(***************************************************************************)
EXTENDS Integers, Sequences, FiniteSets

CONSTANTS Branches,      \* a source and its sink
          Plugins,       \* the branches whose sink is a plugin instance
          Order,         \* the plugins in the order Terminate is sent to them
          MaxBatches,    \* bound: batches a source has to emit
          Capacity,      \* of a plugin's input channel
          Scopes,        \* number of data-path scopes, one helper task each
          Configs,       \* what a process may be started with
          DrainBudget,   \* plugin_drain_budget
          FlushCap,      \* FAST_EXIT_PLUGIN_FLUSH_CAP
          SendMin,       \* TERMINATE_SEND_TIMEOUT_MIN
          SendMax,       \* TERMINATE_SEND_TIMEOUT_MAX
          Grace,         \* PLUGIN_SHUTDOWN_SEND_GRACE
          Margin         \* the teardown's deadline lies this far before the hard exit

ASSUME RunLoopAssumption ==
    /\ Plugins \subseteq Branches
    /\ IsFiniteSet(Branches)
    /\ Order \in [1 .. Cardinality(Plugins) -> Plugins]
    /\ Plugins = {Order[i] : i \in DOMAIN Order}
    /\ {MaxBatches, Capacity, Scopes, DrainBudget, FlushCap, SendMin, SendMax, Grace,
        Margin} \subseteq Nat
    /\ Configs \subseteq [budget : Nat \ {0}, job : BOOLEAN, awaits : BOOLEAN,
                          policy : {"auto", "drain", "fast"}, opaque : BOOLEAN]
    /\ Capacity > 0 /\ Margin > 0 /\ SendMin <= SendMax

VARIABLES
    conf,        \* shutdown budget, job_mode, drain policy, whether a plugin source
                 \* is there, whether plugin sinks are partitioned (awaits_acks)
    shutdown,    \* the process-wide flag
    asked,       \* who asked for it: signal (interrupted_by_signal), plugin
    left,        \* ticks until the watchdog ends the process, or Unarmed
    src,         \* run, flush, await, done: the source of a branch
    made,        \* batches it has emitted
    held,        \* what its sink holds and has not passed on: none, rows, mark
    waited,      \* ticks it has waited for the terminal epoch under a shutdown
    committed,   \* it has committed its tail
    fut,         \* run, ok, err: the sink future
    stuck,       \* ticks a send has found the plugin's channel full under a shutdown
    unacked,     \* a Marker was sent to the plugin and its ack has not come back
    failure,     \* the plugin's failure report has reached the sink
    inq, outq,   \* the plugin's channels
    disp,        \* run, discard, ok, err, quit: the dispatcher
    taken,       \* batches the sink (or plugin) has processed
    stored,      \* batches that are durable
    quota,       \* acks the forwarder may still forward, or Uncancelled; it ends at 0
    expected, acked, terminal, finalized,   \* the coordinator's terminal epoch
    stage,       \* of the run loop
    turn,        \* the scope or the plugin the stage is at
    timer,       \* ticks its current wait may still take
    flush,       \* plugin_budget
    joined,      \* sink futures and plugin futures that were polled to their end
    firstError, pluginError, interrupted,
    began        \* left when the teardown began, or Unarmed

clockVars == <<left, timer, waited, stuck>>
srcVars   == <<src, made, committed>>
sinkVars  == <<held, fut, unacked, failure>>
plugVars  == <<inq, disp, taken, stored>>
ackVars   == <<expected, acked, terminal, finalized>>
loopVars  == <<stage, turn, flush, joined, firstError, pluginError, interrupted, began>>
vars == <<conf, shutdown, asked, clockVars, srcVars, sinkVars, plugVars, outq,
          quota, ackVars, loopVars>>

Unarmed == -1
Uncancelled == -1
Ended == {"exit0", "exit1", "killed"}
Up == stage \notin Ended
Least(a, b) == IF a < b THEN a ELSE b
Most(a, b) == IF a > b THEN a ELSE b
Minus(a, b) == Most(a - b, 0)      \* saturating_sub

\* resolve_drain_policy: bounded work (here a job) drains whatever was asked
\* for; left to itself a pipeline with a plugin source drains too.
ResolveDrainPolicy(c) == c.policy = "drain" \/ c.job \/ (c.policy = "auto" /\ c.opaque)

Drains == ResolveDrainPolicy(conf)

\* terminal_checkpoint_finalize_timeout, in seconds.
FinalizeTimeout(budget) ==
    Most(Least(Minus(budget, 10), budget \div 2), Least(5, Minus(budget, 2)))

TypeOK ==
    /\ conf \in Configs
    /\ left \in {Unarmed} \cup 0 .. conf.budget
    /\ left # Unarmed => shutdown \/ stage # "run"
    /\ src \in [Branches -> {"run", "flush", "await", "done"}]
    /\ made \in [Branches -> 0 .. MaxBatches]
    /\ held \in [Branches -> {"none", "rows", "mark"}]
    /\ waited \in [Branches -> 0 .. FinalizeTimeout(conf.budget)]
    /\ stuck \in [Plugins -> 0 .. Grace]
    /\ fut \in [Branches -> {"run", "ok", "err"}]
    /\ disp \in [Plugins -> {"run", "discard", "ok", "err", "quit"}]
    /\ \A b \in Branches : stored[b] <= taken[b] /\ taken[b] <= made[b]
    /\ \A p \in Plugins : Len(inq[p]) <= Capacity
    /\ quota \in [Plugins -> {Uncancelled} \cup 0 .. 2]
    /\ acked \subseteq Branches /\ expected \subseteq Branches
    /\ stage \in {"run", "await", "ladder", "terminate", "plugins", "post"} \cup Ended
    /\ timer <= conf.budget
    /\ joined.sinks \subseteq Branches /\ joined.plugins \subseteq Plugins

Init ==
    /\ conf \in Configs
    /\ shutdown = FALSE /\ asked = {}
    /\ left = Unarmed /\ timer = 0
    /\ src = [b \in Branches |-> "run"] /\ made = [b \in Branches |-> 0]
    /\ held = [b \in Branches |-> "none"] /\ waited = [b \in Branches |-> 0]
    /\ committed = [b \in Branches |-> FALSE]
    /\ fut = [b \in Branches |-> "run"] /\ stuck = [p \in Plugins |-> 0]
    /\ unacked = [p \in Plugins |-> FALSE] /\ failure = [p \in Plugins |-> FALSE]
    /\ inq = [p \in Plugins |-> <<>>] /\ outq = [p \in Plugins |-> <<>>]
    /\ disp = [p \in Plugins |-> "run"]
    /\ taken = [b \in Branches |-> 0] /\ stored = [b \in Branches |-> 0]
    /\ quota = [p \in Plugins |-> Uncancelled]
    /\ expected = Branches /\ acked = {} /\ terminal = FALSE /\ finalized = FALSE
    /\ stage = "run" /\ turn = 1 /\ flush = 0
    /\ joined = [sinks |-> {}, plugins |-> {}]
    /\ firstError = FALSE /\ pluginError = FALSE /\ interrupted = FALSE /\ began = Unarmed

-----------------------------------------------------------------------------
(* The watchdog *)

\* arm_shutdown_watchdog: the first arming wins.
Armed == IF left = Unarmed THEN conf.budget ELSE left

\* Wrong variant: every phase of the teardown counts on the whole budget.
RemainingFresh == conf.budget

\* remaining(): until the teardown's deadline.
Remaining == Minus(left, Margin)

\* The trigger task, on SIGTERM or SIGINT.  Once the teardown has begun it
\* changes nothing: the watchdog is armed, the sources are done and the run
\* loop has taken its copy of interrupted_by_signal.
Signal ==
    /\ stage = "run" /\ "signal" \notin asked
    /\ asked' = asked \cup {"signal"} /\ shutdown' = TRUE /\ left' = Armed
    /\ UNCHANGED <<conf, timer, waited, stuck, srcVars, sinkVars, plugVars, outq, quota,
                   ackVars, loopVars>>

\* A plugin asks for the shutdown, as a bounded source does at the end of its
\* range: the watchdog stays unarmed.
PluginAsks ==
    /\ stage = "run" /\ ~shutdown /\ Plugins # {}
    /\ asked' = asked \cup {"plugin"} /\ shutdown' = TRUE
    /\ UNCHANGED <<conf, clockVars, srcVars, sinkVars, plugVars, outq, quota, ackVars,
                   loopVars>>

Kill ==
    /\ Up /\ left = 0
    /\ stage' = "killed"
    /\ UNCHANGED <<conf, shutdown, asked, clockVars, srcVars, sinkVars, plugVars, outq,
                   quota, ackVars, turn, flush, joined, firstError, pluginError,
                   interrupted, began>>

-----------------------------------------------------------------------------
(* A source *)

\* A batch that was being built when shutdown was requested is still sent.
Emit(b) ==
    /\ Up /\ src[b] = "run"
    /\ fut[b] = "run" /\ held[b] = "none" /\ made[b] < MaxBatches
    /\ made' = [made EXCEPT ![b] = @ + 1]
    /\ held' = [held EXCEPT ![b] = "rows"]
    /\ UNCHANGED <<conf, shutdown, asked, clockVars, src, committed, fut, unacked, failure,
                   plugVars, outq, quota, ackVars, loopVars>>

\* Its stream is over: a job's range is done, or shutdown was requested.  Only
\* under the drain policy does it have the control that begins a terminal
\* epoch.
EndStream(b) ==
    /\ Up /\ src[b] = "run"
    /\ shutdown \/ (conf.job /\ made[b] = MaxBatches)
    /\ src' = [src EXCEPT ![b] = IF Drains THEN "flush" ELSE "done"]
    /\ terminal' = (terminal \/ Drains)
    /\ UNCHANGED <<conf, shutdown, asked, clockVars, made, committed, sinkVars, plugVars,
                   outq, quota, expected, acked, finalized, loopVars>>

\* The receiver is gone when a batch is sent: the loop breaks, and no terminal
\* epoch is begun.
ReceiverGone(b) ==
    /\ Up /\ src[b] = "run" /\ fut[b] = "err"
    /\ src' = [src EXCEPT ![b] = "done"]
    /\ UNCHANGED <<conf, shutdown, asked, clockVars, made, committed, sinkVars, plugVars,
                   outq, quota, ackVars, loopVars>>

\* The terminal Marker on the last batch; with the receiver gone it is lost.
FlushMark(b) ==
    /\ Up /\ src[b] = "flush"
    /\ fut[b] = "run" => held[b] = "none"
    /\ held' = [held EXCEPT ![b] = IF fut[b] = "run" THEN "mark" ELSE @]
    /\ src' = [src EXCEPT ![b] = "await"]
    /\ UNCHANGED <<conf, shutdown, asked, clockVars, made, committed, fut, unacked, failure,
                   plugVars, outq, quota, ackVars, loopVars>>

CommitTail(b) ==
    /\ Up /\ src[b] = "await" /\ finalized
    /\ committed' = [committed EXCEPT ![b] = TRUE]
    /\ src' = [src EXCEPT ![b] = "done"]
    /\ waited' = [waited EXCEPT ![b] = 0]
    /\ UNCHANGED <<conf, shutdown, asked, left, timer, stuck, made, sinkVars, plugVars,
                   outq, quota, ackVars, loopVars>>

GiveUp(b) ==
    /\ Up /\ src[b] = "await" /\ ~finalized
    /\ shutdown /\ waited[b] = FinalizeTimeout(conf.budget)
    /\ src' = [src EXCEPT ![b] = "done"]
    /\ waited' = [waited EXCEPT ![b] = 0]
    /\ UNCHANGED <<conf, shutdown, asked, left, timer, stuck, made, committed, sinkVars,
                   plugVars, outq, quota, ackVars, loopVars>>

-----------------------------------------------------------------------------
(* The coordinator, reduced to the terminal epoch *)

\* An ack or a completion leaves these sinks expected and these acks: nobody
\* else is waited for.
Finalizes(sinks, acks) == finalized \/ (terminal /\ sinks \subseteq acks)

-----------------------------------------------------------------------------
(* A sink future *)

\* An engine sink writes what it holds and acks a Marker.
EngineWrite(b) ==
    /\ Up /\ b \notin Plugins /\ fut[b] = "run" /\ held[b] # "none"
    /\ held' = [held EXCEPT ![b] = "none"]
    /\ IF held[b] = "rows"
       THEN /\ taken' = [taken EXCEPT ![b] = @ + 1]
            /\ stored' = [stored EXCEPT ![b] = @ + 1]
            /\ UNCHANGED ackVars
       ELSE /\ acked' = acked \cup {b}
            /\ finalized' = Finalizes(expected, acked \cup {b})
            /\ UNCHANGED <<taken, stored, expected, terminal>>
    /\ UNCHANGED <<conf, shutdown, asked, clockVars, srcVars, fut, unacked, failure, inq,
                   disp, outq, quota, loopVars>>

Fails(b) ==
    /\ fut' = [fut EXCEPT ![b] = "err"]
    /\ held' = [held EXCEPT ![b] = "none"]
    /\ stuck' = [p \in Plugins |-> IF p = b THEN 0 ELSE stuck[p]]
    /\ UNCHANGED <<conf, shutdown, asked, left, timer, waited, srcVars, unacked, failure,
                   plugVars, outq, quota, ackVars, loopVars>>

EngineFails(b) == Up /\ b \notin Plugins /\ fut[b] = "run" /\ held[b] # "none" /\ Fails(b)

Returned(p) == disp[p] \in {"ok", "err", "quit"}
Full(p) == Len(inq[p]) >= Capacity

\* send_to_plugin_with, into a channel with room.
SendToPlugin(p) ==
    /\ Up /\ fut[p] = "run" /\ held[p] # "none" /\ ~Full(p)
    /\ inq' = [inq EXCEPT ![p] = Append(@, held[p])]
    /\ held' = [held EXCEPT ![p] = "none"]
    /\ unacked' = [unacked EXCEPT ![p] = @ \/ held[p] = "mark"]
    /\ stuck' = [stuck EXCEPT ![p] = 0]
    /\ UNCHANGED <<conf, shutdown, asked, left, timer, waited, srcVars, fut, failure, disp,
                   taken, stored, outq, quota, ackVars, loopVars>>

\* A full channel: the send waits, unless nobody reads it any more or the
\* grace after a shutdown request is over.
Blocked(p) == fut[p] = "run" /\ held[p] # "none" /\ Full(p)
SendFails(p) ==
    /\ Up /\ Blocked(p)
    /\ Returned(p) \/ (shutdown /\ stuck[p] = Grace)
    /\ Fails(p)

\* write_all between two batches: a reported failure, the dispatcher's exit,
\* the end of the input, in this order.
WriteFails(p) ==
    /\ Up /\ fut[p] = "run" /\ held[p] = "none"
    /\ failure[p] \/ Returned(p)
    /\ Fails(p)

\* The end of a write.  A partitioned one waits for its acks only; that its
\* dispatcher may have returned by then is left open.
EndsWell(b) ==
    /\ fut[b] = "run" /\ held[b] = "none" /\ src[b] = "done"
    /\ b \in Plugins => /\ ~failure[b]
                        /\ IF conf.awaits THEN ~unacked[b] ELSE ~Returned(b)

\* sink_completed follows a future that ends well.
Completes(b) ==
    /\ Up /\ EndsWell(b)
    /\ fut' = [fut EXCEPT ![b] = "ok"]
    /\ expected' = expected \ {b}
    /\ finalized' = Finalizes(expected \ {b}, acked)
    /\ UNCHANGED <<conf, shutdown, asked, clockVars, srcVars, held, unacked, failure,
                   plugVars, outq, quota, acked, terminal, loopVars>>

\* The ack forwarder; once its stage is cancelled it forwards only what was
\* queued then.
Forward(p) ==
    /\ Up /\ quota[p] # 0 /\ outq[p] # <<>>
    /\ outq' = [outq EXCEPT ![p] = Tail(@)]
    /\ quota' = [quota EXCEPT ![p] = IF @ = Uncancelled THEN @ ELSE @ - 1]
    /\ IF Head(outq[p]) = "ack"
       THEN /\ unacked' = [unacked EXCEPT ![p] = FALSE]
            /\ acked' = acked \cup {p}
            /\ finalized' = Finalizes(expected, acked \cup {p})
            /\ UNCHANGED failure
       ELSE /\ failure' = [failure EXCEPT ![p] = TRUE]
            /\ UNCHANGED <<unacked, acked, finalized>>
    /\ UNCHANGED <<conf, shutdown, asked, clockVars, srcVars, held, fut, plugVars, expected,
                   terminal, loopVars>>

-----------------------------------------------------------------------------
(* A plugin's dispatcher *)

\* Frames a dispatcher step that takes the head of its input.
Dispatch(p) ==
    /\ Up /\ inq[p] # <<>>
    /\ inq' = [inq EXCEPT ![p] = Tail(@)]
    /\ UNCHANGED <<conf, shutdown, asked, clockVars, srcVars, sinkVars, quota, ackVars,
                   loopVars>>

\* process_batch may buffer.
PluginTakes(p) ==
    /\ Dispatch(p) /\ disp[p] = "run" /\ Head(inq[p]) = "rows"
    /\ taken' = [taken EXCEPT ![p] = @ + 1]
    /\ UNCHANGED <<disp, stored, outq>>

\* process_checkpoint_marker flushes, then the ack goes out.
PluginFlushes(p) ==
    /\ Dispatch(p) /\ disp[p] = "run" /\ Head(inq[p]) = "mark"
    /\ stored' = [stored EXCEPT ![p] = taken[p]]
    /\ outq' = [outq EXCEPT ![p] = Append(@, "ack")]
    /\ UNCHANGED <<disp, taken>>

\* A hook fails: the failure is reported and the input discarded from now on.
PluginFails(p) ==
    /\ Dispatch(p) /\ disp[p] = "run" /\ Head(inq[p]) # "terminate"
    /\ disp' = [disp EXCEPT ![p] = "discard"]
    /\ outq' = [outq EXCEPT ![p] = Append(@, "fail")]
    /\ UNCHANGED <<taken, stored>>

\* Wrong variant: a discarding dispatcher goes on acking Markers.
PluginDiscardsAcks(p) ==
    /\ Dispatch(p) /\ disp[p] = "discard" /\ Head(inq[p]) # "terminate"
    /\ outq' = [outq EXCEPT ![p] = IF Head(inq[p]) = "mark" THEN Append(@, "ack") ELSE @]
    /\ UNCHANGED <<disp, taken, stored>>

\* drain_discard_after_failure: neither stored nor acked.
PluginDiscards(p) ==
    /\ Dispatch(p) /\ disp[p] = "discard" /\ Head(inq[p]) # "terminate"
    /\ UNCHANGED <<disp, taken, stored, outq>>

\* Terminate: the last flush, which may fail; a plugin that failed before
\* returns its first error.
PluginTerminates(p) ==
    /\ Dispatch(p) /\ disp[p] \in {"run", "discard"} /\ Head(inq[p]) = "terminate"
    /\ \/ /\ disp[p] = "run"
          /\ stored' = [stored EXCEPT ![p] = taken[p]]
          /\ disp' = [disp EXCEPT ![p] = "ok"]
       \/ /\ disp' = [disp EXCEPT ![p] = "err"]
          /\ UNCHANGED stored
    /\ UNCHANGED <<taken, outq>>

\* Without a Terminate is_running() goes false, or the dispatcher returns an
\* error (an ack that cannot be sent) or panics.
PluginQuits(p) ==
    /\ Up /\ disp[p] = "run"
    /\ \E how \in {"quit", "err"} : disp' = [disp EXCEPT ![p] = how]
    /\ UNCHANGED <<conf, shutdown, asked, clockVars, srcVars, sinkVars, inq, taken, stored,
                   outq, quota, ackVars, loopVars>>

\* The helper task of the scope the drain ladder waits for ends.
HelperEnds ==
    /\ stage = "ladder" /\ turn <= Scopes /\ timer > 0
    /\ timer' = 0
    /\ UNCHANGED <<conf, shutdown, asked, left, waited, stuck, srcVars, sinkVars, plugVars,
                   outq, quota, ackVars, loopVars>>

-----------------------------------------------------------------------------
(* The run loop *)

envVars == <<conf, asked, waited, stuck, srcVars, sinkVars, plugVars, outq, ackVars>>

\* Wrong variant: the failure requests the drain and leaves the watchdog alone.
FailDrainUnarmed(failed) ==
    /\ firstError' = (firstError \/ failed)
    /\ shutdown' = (shutdown \/ failed)
    /\ UNCHANGED left

\* fail_drain: the first failure starts the same drain as a signal.
FailDrain(failed) ==
    /\ firstError' = (firstError \/ failed)
    /\ shutdown' = (shutdown \/ (failed /\ ~firstError))
    /\ left' = IF failed /\ ~firstError THEN Armed ELSE left

JoinSink(b) ==
    /\ Up /\ stage = "run" /\ b \notin joined.sinks /\ fut[b] # "run"
    /\ joined' = [joined EXCEPT !.sinks = @ \cup {b}]
    /\ FailDrain(fut[b] = "err")
    /\ UNCHANGED <<envVars, timer, quota, stage, turn, flush, pluginError, interrupted, began>>

\* A dispatcher that returned by itself goes on draining, one that erred fails the run.
JoinPlugin(p) ==
    /\ Up /\ stage = "run" /\ p \notin joined.plugins /\ Returned(p)
    /\ joined.sinks # Branches
    /\ joined' = [joined EXCEPT !.plugins = @ \cup {p}]
    /\ FailDrain(disp[p] = "err")
    /\ UNCHANGED <<envVars, timer, quota, stage, turn, flush, pluginError, interrupted, began>>

\* The sinks have drained: the watchdog is armed if it was not, and a clean
\* run waits for the terminal epoch.
Teardown ==
    /\ stage = "run" /\ joined.sinks = Branches
    /\ interrupted' = ("signal" \in asked)
    /\ left' = Armed /\ began' = Armed
    /\ stage' = "await"
    /\ timer' = IF firstError THEN 0 ELSE Minus(Armed, Margin)
    /\ UNCHANGED <<envVars, shutdown, quota, turn, flush, joined, firstError, pluginError>>

\* What the drain ladder gives scope k: its share of what is left.
Slice(k) == Remaining \div Most(Scopes - k + 1, 1)

AwaitOver ==
    /\ stage = "await" /\ (firstError \/ ~terminal \/ finalized \/ timer = 0)
    /\ shutdown' = TRUE
    /\ stage' = "ladder" /\ turn' = 1 /\ timer' = Slice(1)
    /\ UNCHANGED <<envVars, left, quota, flush, joined, firstError, pluginError, interrupted,
                   began>>

\* ShutdownController::drain, DataPath: the scope's task has ended or its slice
\* is over.
LadderStep ==
    /\ stage = "ladder" /\ turn <= Scopes /\ timer = 0
    /\ turn' = turn + 1
    /\ timer' = IF turn < Scopes THEN Slice(turn + 1) ELSE 0
    /\ UNCHANGED <<envVars, shutdown, left, quota, stage, flush, joined, firstError,
                   pluginError, interrupted, began>>

PluginBudget ==
    Least(Remaining, IF Drains THEN DrainBudget ELSE Least(DrainBudget, FlushCap))

\* terminate_plugins: the time for each send.
SendSlice(total) == Least(Most(total \div Most(Len(Order), 1), SendMin), SendMax)

LadderOver ==
    /\ stage = "ladder" /\ turn > Scopes
    /\ flush' = PluginBudget
    /\ stage' = "terminate" /\ turn' = 1 /\ timer' = SendSlice(PluginBudget)
    /\ UNCHANGED <<envVars, shutdown, left, quota, joined, firstError, pluginError,
                   interrupted, began>>

\* Terminate is sent to one plugin after the other; a send that times out is
\* skipped.
SendTerminate ==
    /\ stage = "terminate" /\ turn <= Len(Order)
    /\ LET p == Order[turn]
       IN  \/ ~Full(p) /\ inq' = [inq EXCEPT ![p] = Append(@, "terminate")]
           \/ Full(p) /\ timer = 0 /\ UNCHANGED inq
    /\ turn' = turn + 1
    /\ timer' = SendSlice(flush)
    /\ UNCHANGED <<conf, asked, waited, stuck, srcVars, sinkVars, disp, taken, stored, outq,
                   ackVars, shutdown, left, quota, stage, flush, joined, firstError,
                   pluginError, interrupted, began>>

TerminateOver ==
    /\ stage = "terminate" /\ turn > Len(Order)
    /\ stage' = "plugins" /\ timer' = Least(flush, Remaining)
    /\ UNCHANGED <<envVars, shutdown, left, quota, turn, flush, joined, firstError,
                   pluginError, interrupted, began>>

DrainPlugin(p) ==
    /\ stage = "plugins" /\ p \notin joined.plugins /\ Returned(p)
    /\ joined' = [joined EXCEPT !.plugins = @ \cup {p}]
    /\ pluginError' = (pluginError \/ disp[p] = "err")
    /\ UNCHANGED <<envVars, shutdown, left, timer, quota, stage, turn, flush, firstError,
                   interrupted, began>>

\* Wrong variant: a plugin that did not flush in time is only warned about.
UnflushedTolerated == FALSE

\* A plugin left behind fails the run under the drain policy.
Unflushed == Drains

PluginsOver ==
    /\ stage = "plugins"
    /\ \/ joined.plugins = Plugins /\ UNCHANGED pluginError
       \/ /\ joined.plugins # Plugins /\ timer = 0
          /\ \A p \in Plugins \ joined.plugins : ~Returned(p)
          /\ pluginError' = (pluginError \/ Unflushed)
    /\ stage' = "post" /\ turn' = 1 /\ flush' = 0 /\ timer' = 0
    /\ UNCHANGED <<envVars, shutdown, left, quota, joined, firstError, interrupted, began>>

\* ShutdownController::drain, PostPlugin: a forwarder is told to end and waited
\* for.
CancelForwarder ==
    /\ stage = "post" /\ turn <= Len(Order)
    /\ turn > 1 => quota[Order[turn - 1]] = 0
    /\ quota' = [quota EXCEPT ![Order[turn]] = Len(outq[Order[turn]])]
    /\ turn' = turn + 1
    /\ UNCHANGED <<envVars, shutdown, left, timer, stage, flush, joined, firstError,
                   pluginError, interrupted, began>>

\* The coordinator's stop(), and the result.
Exit ==
    /\ stage = "post" /\ turn > Len(Order)
    /\ \A p \in Plugins : quota[p] = 0
    /\ stage' = IF firstError \/ pluginError \/ (conf.job /\ interrupted)
                THEN "exit1" ELSE "exit0"
    /\ UNCHANGED <<envVars, shutdown, left, timer, quota, turn, flush, joined, firstError,
                   pluginError, interrupted, began>>

Loop == \/ \E b \in Branches : JoinSink(b)
        \/ \E p \in Plugins : JoinPlugin(p) \/ DrainPlugin(p)
        \/ Teardown \/ AwaitOver \/ LadderStep \/ LadderOver \/ SendTerminate
        \/ TerminateOver \/ PluginsOver \/ CancelForwarder \/ Exit

\* What the engine's own tasks do at once.
Prompt ==
    \/ Loop
    \/ \E b \in Branches : \/ EndStream(b) \/ ReceiverGone(b) \/ FlushMark(b)
                           \/ CommitTail(b) \/ GiveUp(b) \/ Completes(b)
    \/ \E p \in Plugins : SendToPlugin(p) \/ SendFails(p) \/ WriteFails(p) \/ Forward(p)

\* Whether one of these steps can be taken now (ENABLED Prompt, spelled out for the
\* proofs): by the run loop, by a source or its future, by a plugin's sink or its
\* forwarder.
LoopDue ==
    \/ stage = "run" /\ \/ joined.sinks = Branches
                         \/ \E b \in Branches \ joined.sinks : fut[b] # "run"
                         \/ \E p \in Plugins \ joined.plugins : Returned(p)
    \/ stage = "await" /\ (firstError \/ ~terminal \/ finalized \/ timer = 0)
    \/ stage = "ladder" /\ (turn > Scopes \/ timer = 0)
    \/ stage = "terminate" /\ (turn > Len(Order) \/ timer = 0 \/ ~Full(Order[turn]))
    \/ stage = "plugins" /\ \/ joined.plugins = Plugins \/ timer = 0
                             \/ \E p \in Plugins \ joined.plugins : Returned(p)
    \/ stage = "post" /\ IF turn <= Len(Order)
                         THEN turn > 1 => quota[Order[turn - 1]] = 0
                         ELSE \A p \in Plugins : quota[p] = 0

BranchDue(b) ==
    \/ src[b] = "run" /\ (shutdown \/ (conf.job /\ made[b] = MaxBatches) \/ fut[b] = "err")
    \/ src[b] = "flush" /\ (fut[b] = "run" => held[b] = "none")
    \/ src[b] = "await" /\ (finalized \/ (shutdown /\ waited[b] = FinalizeTimeout(conf.budget)))
    \/ EndsWell(b)

PluginDue(p) ==
    \/ fut[p] = "run" /\ IF held[p] = "none"
                         THEN failure[p] \/ Returned(p)
                         ELSE ~Full(p) \/ Returned(p) \/ (shutdown /\ stuck[p] = Grace)
    \/ quota[p] # 0 /\ outq[p] # <<>>

Due == LoopDue \/ (\E b \in Branches : BranchDue(b)) \/ (\E p \in Plugins : PluginDue(p))

\* What takes as long as it takes.
Lazy ==
    \/ \E b \in Branches : Emit(b) \/ EngineWrite(b) \/ EngineFails(b)
    \/ \E p \in Plugins : \/ PluginTakes(p) \/ PluginFlushes(p) \/ PluginFails(p)
                          \/ PluginDiscards(p) \/ PluginTerminates(p) \/ PluginQuits(p)
    \/ HelperEnds

\* A second goes by: every clock that runs, and there is one, moves on.
Tick ==
    /\ Up /\ (shutdown \/ left # Unarmed)
    /\ left # 0 /\ ~Due
    /\ left' = IF left = Unarmed THEN left ELSE left - 1
    /\ timer' = Minus(timer, 1)
    /\ waited' = [b \in Branches |->
                     IF src[b] = "await" /\ shutdown THEN waited[b] + 1 ELSE waited[b]]
    /\ stuck' = [p \in Plugins |->
                     IF Blocked(p) /\ shutdown THEN stuck[p] + 1 ELSE stuck[p]]
    /\ UNCHANGED <<conf, shutdown, asked, srcVars, sinkVars, plugVars, outq, quota, ackVars,
                   loopVars>>

\* The process is gone.
Over == ~Up /\ UNCHANGED vars

Next == Prompt \/ Lazy \/ Signal \/ PluginAsks \/ Kill \/ Tick \/ Over

Spec == Init /\ [][Next]_vars

\* The engine's tasks are scheduled and time goes by; plugins, sinks and helper
\* tasks owe nothing.
FairSpec == Spec /\ WF_vars(Prompt \/ Kill \/ Tick)

-----------------------------------------------------------------------------
(* Properties *)

\* Exit 0 is the claim that the run is done: every sink future ended well and,
\* in a job or under the drain policy, every plugin has made durable all it was
\* sent, whoever failed, timed out or was left behind on the way (a plugin that quit
\* by itself after its write had ended is taken at its word).  A job that exits
\* 0 has emitted its whole range, unless a plugin asked for the end.
ExitZeroIsFlushed ==
    stage = "exit0" =>
        \A b \in Branches :
             /\ fut[b] = "ok"
             /\ b \notin Plugins => stored[b] = made[b]
             /\ b \in Plugins /\ (conf.job \/ Drains) /\ disp[b] # "quit"
                  => stored[b] = made[b]
             /\ conf.job /\ "plugin" \notin asked => made[b] = MaxBatches

\* A source that has committed its tail has all it emitted in its sink's table,
\* though other branches fail, finish or time out around the shared terminal
\* epoch, and though a failed plugin goes on reading Markers.
CommittedIsStored == \A b \in Branches : committed[b] => stored[b] = made[b]

\* The margin has room for the floors of all Terminate sends.  Nothing in the code
\* bounds the plugin instances: with 2 s and 100 ms it is true of 19 and not of 20.
FloorsFit == Cardinality(Plugins) * SendMin < Margin

\* A teardown that begins with the margin in hand is not cut short by the watchdog.
NotKilledWithMargin == stage = "killed" /\ began # Unarmed => began < Margin

\* As long as the floors of the Terminate sends fit into the margin, a teardown
\* that begins with the margin in hand is never cut short by the watchdog,
\* whatever hangs: all its waits share the deadline of the first arming.
NotKilledInTeardown == FloorsFit => NotKilledWithMargin

\* After a failure or a signal the process ends, though sinks, plugins and
\* helper tasks hang for ever.
FailureEnds == (firstError \/ "signal" \in asked) ~> ~Up

=============================================================================
