---------------------------- MODULE HybridSource ----------------------------
(***************************************************************************)
(* The hybrid source (table_providers/hybrid.rs) across crashes and        *)
(* restarts: a sequence of bounded phases (ClickHouse scans) and one       *)
(* unbounded phase (Kafka).  Three kinds of state are kept, under separate *)
(* keys and without atomicity: the phase, written at transitions, the      *)
(* cursor of the bounded sources and the offsets of the unbounded one,     *)
(* written when a Finalizer reaches the source that is running.            *)
(*                                                                         *)
(* The inner sources subscribe to the checkpoint channel only while they   *)
(* execute; the hybrid source has a subscription of its own that lives     *)
(* across the transitions, and puts the Markers it receives on the next    *)
(* batch that passes.                                                      *)
(*                                                                         *)
(* The inner sources are those of ClickHouseSource and KafkaSource, here   *)
(* without their internals: a row is read and sent in one step, and only   *)
(* Markers, not Finalizers, ride on batches, since no sink acts on those.  *)
(***************************************************************************)
EXTENDS Integers, Sequences, FiniteSets

CONSTANTS Bounded,      \* the number of bounded phases
          PhaseRows,    \* rows of each bounded phase
          Partitions,   \* the partitions of the topic
          Probed,       \* the partition has_any_persisted_offset looks at
          TopicRows,    \* rows of each partition
          Known,        \* [partition the offset provider knows -> its offset]
          JobModes,     \* the values job_mode may have
          Capacity,     \* buffer size of both streams
          MaxEpoch,     \* bound: epochs minted, over all processes
          MaxFaults     \* bound: failures and crashes

Phases == 0 .. Bounded - 1
Lanes == Phases \cup Partitions
End(lane) == IF lane \in Partitions THEN TopicRows ELSE PhaseRows

ASSUME HybridAssumption ==
    /\ Bounded \in Nat \ {0} /\ PhaseRows \in Nat /\ TopicRows \in Nat
    /\ IsFiniteSet(Partitions) /\ Probed \in Partitions /\ Partitions \cap Phases = {}
    /\ DOMAIN Known \subseteq Partitions
    /\ \A p \in DOMAIN Known : Known[p] \in 0 .. TopicRows
    /\ JobModes \subseteq BOOLEAN /\ Capacity \in Nat \ {0}
    /\ MaxEpoch \in Nat /\ MaxFaults \in Nat

None == -1
Terminal == MaxEpoch + 1
Marks == 1 .. Terminal

VARIABLES
    job,       \* job_mode, fixed
    saved,     \* the state backend: the phase, or None
    cursor,    \* the one key of all bounded sources: rows passed, or None
    offsets,   \* [partition -> the saved offset, or None]
    written,   \* the rows in the sink's table
    pc,        \* the hybrid source's task
    phase,     \* current_phase
    loaded,    \* the cursor the bounded sources were constructed with
    toSeed,    \* the partitions whose offset is still to be seeded
    inner,     \* the stream of the current phase: "off", "run" or "ended"
    pos,       \* [lane -> rows read]
    snaps,     \* [epoch -> the positions the unbounded source recorded]
    riding,    \* the Markers that ride on the next batch of the inner source
    inbox,     \* the inner source's receiver: Markers e and Finalizers -e
    forward,   \* the hybrid source's own receiver
    pending,   \* pending_markers
    pipe,      \* the inner stream
    out,       \* the stream to the sink
    epoch,     \* the coordinator: the last epoch minted
    open,      \* the epoch that waits for its ack, or 0
    shutdown,  \* the process was asked to stop
    faults,    \* failures so far
    sent       \* the rows the inner sources of any process have sent

storeVars == <<job, saved, cursor, offsets>>
loopVars == <<phase, loaded, toSeed>>
innerVars == <<inner, pos, snaps, riding>>
coordVars == <<epoch, open>>
vars == <<storeVars, written, pc, loopVars, innerVars, inbox, forward, pending, pipe, out,
          coordVars, shutdown, faults, sent>>

NoPositions == [l \in Lanes |-> 0]
NoSnaps == [e \in Marks |-> NoPositions]
RowsOf(ph) == {<<ph, n>> : n \in 1 .. PhaseRows}
Batch(rows, marks) == [rows |-> rows, marks |-> marks]

Unbounded(ph) == ph >= Bounded
Fault == faults < MaxFaults /\ faults' = faults + 1

\* The first start ever, or the first of this version over the state that an
\* older one left, which wrote no phase before the first transition.
Init ==
    /\ job \in JobModes
    /\ saved = None
    /\ cursor \in {None, PhaseRows}
    /\ offsets \in [Partitions -> {None, 0}]
    /\ \A p \in Partitions : offsets[p] # None => p \in DOMAIN Known /\ cursor # None
    /\ written = IF cursor = None THEN {} ELSE UNION {RowsOf(ph) : ph \in Phases}
    /\ sent = written
    /\ pc = "down" /\ phase = 0 /\ loaded = None /\ toSeed = {}
    /\ inner = "off" /\ pos = NoPositions /\ snaps = NoSnaps /\ riding = {}
    /\ inbox = <<>> /\ forward = <<>> /\ pending = {} /\ pipe = <<>> /\ out = <<>>
    /\ epoch = 0 /\ open = 0 /\ shutdown = FALSE /\ faults = 0

-----------------------------------------------------------------------------
(* Start: the providers are constructed, scan loads the state.             *)

Boot ==
    /\ pc = "down"
    /\ loaded' = cursor
    /\ pc' = "load"
    /\ UNCHANGED <<storeVars, written, phase, toSeed, innerVars, inbox, forward, pending,
                   pipe, out, coordVars, shutdown, faults, sent>>

LoadState ==
    /\ pc = "load" /\ saved # None
    /\ phase' = saved
    /\ pc' = "open"
    /\ UNCHANGED <<storeVars, written, loaded, toSeed, innerVars, inbox, forward, pending,
                   pipe, out, coordVars, shutdown, faults, sent>>

\* has_any_persisted_offset, then has_all_persisted_offsets.
AllOffsets ==
    /\ offsets[Probed] # None /\ DOMAIN Known # {}
    /\ \A p \in DOMAIN Known : offsets[p] # None

\* try_recover_to_unbounded, else try_recover_to_highest_bounded_state: since the
\* bounded sources share a key, all of them have a cursor or none.
Recovered(providerUp) ==
    IF providerUp /\ AllOffsets THEN Bounded
    ELSE IF loaded # None THEN Bounded - 1 ELSE 0

RecoverState(providerUp) ==
    /\ pc = "load" /\ saved = None
    /\ \/ providerUp /\ UNCHANGED faults
       \/ ~ providerUp /\ offsets[Probed] # None /\ Fault
    /\ phase' = Recovered(providerUp)
    /\ saved' = phase'
    /\ pc' = "open"
    /\ UNCHANGED <<job, cursor, offsets, written, loaded, toSeed, innerVars, inbox, forward,
                   pending, pipe, out, coordVars, shutdown, sent>>

\* save_state fails for good: scan fails, and the process with it.
RecoverFails ==
    /\ pc = "load" /\ saved = None
    /\ Fault
    /\ pc' = "over"
    /\ UNCHANGED <<storeVars, written, loopVars, innerVars, inbox, forward, pending, pipe,
                   out, coordVars, shutdown, sent>>

-----------------------------------------------------------------------------
(* The loop of execute.                                                    *)

\* Where the source of the phase begins: its own saved state.
StartAt(lane) ==
    LET at == IF lane \in Partitions THEN offsets[lane] ELSE loaded
    IN  IF at = None THEN 0 ELSE at

\* get_current_execution_stream: the inner source subscribes.
OpenStream ==
    /\ pc = "open"
    /\ inner' = "run"
    /\ pos' = [l \in Lanes |-> StartAt(l)]
    /\ snaps' = NoSnaps /\ riding' = {} /\ inbox' = <<>>
    /\ pc' = "stream"
    /\ UNCHANGED <<storeVars, written, loopVars, forward, pending, pipe, out, coordVars,
                   shutdown, faults, sent>>

\* The stream cannot be opened, or yields an error, which is passed on.
StreamFails ==
    /\ pc \in {"open", "stream"}
    /\ Fault
    /\ inner' = "ended" /\ inbox' = <<>>
    /\ pc' = "final"
    /\ UNCHANGED <<storeVars, written, loopVars, pos, snaps, riding, forward, pending, pipe,
                   out, coordVars, shutdown, sent>>

\* The forwarder task.
Forwarder ==
    /\ forward # <<>>
    /\ pending' = pending \cup {Head(forward)}
    /\ forward' = Tail(forward)
    /\ UNCHANGED <<storeVars, written, pc, loopVars, innerVars, inbox, pipe, out, coordVars,
                   shutdown, faults, sent>>

\* merge_pending_markers: Markers the batch has already are not added twice.
ForwardBatch ==
    /\ pc = "stream" /\ pipe # <<>> /\ Len(out) < Capacity
    /\ out' = Append(out, Batch(Head(pipe).rows, Head(pipe).marks \cup pending))
    /\ pipe' = Tail(pipe)
    /\ pending' = {}
    /\ UNCHANGED <<storeVars, written, pc, loopVars, innerVars, inbox, forward, coordVars,
                   shutdown, faults, sent>>

\* flush_pending_to_synth_batch with these Markers, if there are any.
Flush(marks) ==
    /\ marks # {} => Len(out) < Capacity
    /\ out' = IF marks = {} THEN out ELSE Append(out, Batch({}, marks))
    /\ pending' = {}

\* A wrong variant: a stream cut short by a shutdown counts as a phase completed.
StreamEndsAdvances ==
    /\ pc = "stream" /\ inner = "ended" /\ pipe = <<>>
    /\ Flush(pending)
    /\ pc' = IF Unbounded(phase) THEN "terminal" ELSE "advance"
    /\ UNCHANGED <<storeVars, written, loopVars, innerVars, inbox, forward, pipe, coordVars,
                   shutdown, faults, sent>>

\* The inner stream has ended: flush, and go on to the next phase or stop.
StreamEnds ==
    /\ pc = "stream" /\ inner = "ended" /\ pipe = <<>>
    /\ Flush(pending)
    /\ pc' = IF Unbounded(phase) \/ shutdown THEN "terminal" ELSE "advance"
    /\ UNCHANGED <<storeVars, written, loopVars, innerVars, inbox, forward, pipe, coordVars,
                   shutdown, faults, sent>>

\* A wrong variant: the phase is saved before the offsets are seeded.
AfterAdvanceSaves(ph) == "save"

\* What follows the increment: the offsets are fetched and seeded on the way
\* into the unbounded phase, unless it will not run.
AfterAdvance(ph) == IF ph = Bounded /\ ~ job THEN "seed" ELSE "save"

AdvanceToNextPhase ==
    /\ pc = "advance"
    /\ phase' = phase + 1
    /\ inner' = "off"
    /\ toSeed' = IF phase + 1 = Bounded THEN DOMAIN Known ELSE {}
    /\ pc' = AfterAdvance(phase + 1)
    /\ UNCHANGED <<storeVars, written, loaded, pos, snaps, riding, inbox, forward, pending,
                   pipe, out, coordVars, shutdown, faults, sent>>

\* seed_offsets: one put after the other.
SeedOffset(p) ==
    /\ pc = "seed" /\ p \in toSeed
    /\ offsets' = [offsets EXCEPT ![p] = Known[p]]
    /\ toSeed' = toSeed \ {p}
    /\ UNCHANGED <<job, saved, cursor, written, pc, phase, loaded, innerVars, inbox, forward,
                   pending, pipe, out, coordVars, shutdown, faults, sent>>

Seeded ==
    /\ pc = "seed" /\ toSeed = {}
    /\ pc' = "save"
    /\ UNCHANGED <<storeVars, written, loopVars, innerVars, inbox, forward, pending, pipe,
                   out, coordVars, shutdown, faults, sent>>

SaveState ==
    /\ pc = "save"
    /\ saved' = phase
    /\ pc' = IF Unbounded(phase) /\ job THEN "terminal" ELSE "open"
    /\ UNCHANGED <<job, cursor, offsets, written, loopVars, innerVars, inbox, forward, pending,
                   pipe, out, coordVars, shutdown, faults, sent>>

\* The offset provider, a put of an offset or, after its retries, the put of
\* the phase fails: the error is passed on.
AdvanceFails ==
    /\ pc \in {"seed", "save"}
    /\ Fault
    /\ pc' = "final"
    /\ UNCHANGED <<storeVars, written, loopVars, innerVars, inbox, forward, pending, pipe,
                   out, coordVars, shutdown, sent>>

\* emit_terminal_checkpoint: no other epoch is minted from now on.
EmitTerminal ==
    /\ pc = "terminal"
    /\ Flush(pending \cup {Terminal})
    /\ open' = Terminal
    /\ pc' = "await"
    /\ UNCHANGED <<storeVars, written, loopVars, innerVars, inbox, forward, pipe, epoch,
                   shutdown, faults, sent>>

\* The terminal epoch was finalized, or the wait timed out.
TerminalOver ==
    /\ pc = "await"
    /\ open = 0 \/ shutdown
    /\ pc' = "final"
    /\ UNCHANGED <<storeVars, written, loopVars, innerVars, inbox, forward, pending, pipe,
                   out, coordVars, shutdown, faults, sent>>

\* The final flush and the end of the subscription.
Teardown ==
    /\ pc = "final"
    /\ Flush(pending)
    /\ forward' = <<>>
    /\ pc' = "over"
    /\ UNCHANGED <<storeVars, written, loopVars, innerVars, inbox, pipe, coordVars, shutdown,
                   faults, sent>>

-----------------------------------------------------------------------------
(* The inner source of the phase.                                          *)

CurrentLanes == IF Unbounded(phase) THEN Partitions ELSE {phase}

\* A batch with the next row of a lane; the Markers received so far ride on it.
InnerBatch(lane) ==
    /\ inner = "run" /\ lane \in CurrentLanes /\ ~ shutdown
    /\ pos[lane] < End(lane) /\ Len(pipe) < Capacity
    /\ pipe' = Append(pipe, Batch({<<lane, pos[lane] + 1>>}, riding))
    /\ pos' = [pos EXCEPT ![lane] = @ + 1]
    /\ riding' = {}
    /\ sent' = sent \cup {<<lane, pos[lane] + 1>>}
    /\ UNCHANGED <<storeVars, written, pc, loopVars, inner, snaps, inbox, forward, pending,
                   out, coordVars, shutdown, faults>>

\* An empty one: Kafka's time for a batch was up, or the last of a scan.  One
\* that no Marker would ride on, the hybrid source's included, is left out.
InnerEmptyBatch ==
    /\ inner = "run" /\ Len(pipe) < Capacity
    /\ riding # {} \/ (Unbounded(phase) /\ pending # {} /\ pipe = <<>>)
    /\ pipe' = Append(pipe, Batch({}, riding))
    /\ riding' = {}
    /\ UNCHANGED <<storeVars, written, pc, loopVars, inner, pos, snaps, inbox, forward,
                   pending, out, coordVars, shutdown, faults, sent>>

InnerMarker ==
    /\ inner = "run" /\ inbox # <<>> /\ Head(inbox) > 0
    /\ riding' = riding \cup {Head(inbox)}
    /\ snaps' = [snaps EXCEPT ![Head(inbox)] = pos]
    /\ inbox' = Tail(inbox)
    /\ UNCHANGED <<storeVars, written, pc, loopVars, inner, pos, forward, pending, pipe, out,
                   coordVars, shutdown, faults, sent>>

\* The scan saves where it is, Kafka the position it recorded for the epoch, of
\* the partitions it has one for.
InnerFinalizer ==
    /\ inner = "run" /\ inbox # <<>> /\ Head(inbox) < 0
    /\ LET snap == snaps[-Head(inbox)] IN
       IF Unbounded(phase)
       THEN /\ offsets' = [p \in Partitions |-> IF snap[p] = 0 THEN offsets[p] ELSE snap[p]]
            /\ UNCHANGED cursor
       ELSE cursor' = pos[phase] /\ UNCHANGED offsets
    /\ inbox' = Tail(inbox)
    /\ UNCHANGED <<job, saved, written, pc, loopVars, innerVars, forward, pending, pipe, out,
                   coordVars, shutdown, faults, sent>>

\* The scan is complete, or the process is asked to stop.  What is left in the
\* receiver is dropped.
InnerEnds ==
    /\ inner = "run" /\ riding = {}
    /\ shutdown \/ (~ Unbounded(phase) /\ pos[phase] = PhaseRows)
    /\ inner' = "ended"
    /\ inbox' = <<>>
    /\ UNCHANGED <<storeVars, written, pc, loopVars, pos, snaps, riding, forward, pending,
                   pipe, out, coordVars, shutdown, faults, sent>>

-----------------------------------------------------------------------------
(* The sink, the coordinator and the process.                              *)

\* The sink writes a batch and acks its Markers; an epoch acked for the first
\* time is finalized.
SinkWrites ==
    /\ out # <<>>
    /\ written' = written \cup Head(out).rows
    /\ out' = Tail(out)
    /\ IF open # 0 /\ open \in Head(out).marks
       THEN /\ open' = 0
            /\ inbox' = IF inner = "run" THEN Append(inbox, -open) ELSE inbox
       ELSE UNCHANGED <<open, inbox>>
    /\ UNCHANGED <<storeVars, pc, loopVars, innerVars, forward, pending, pipe, epoch,
                   shutdown, faults, sent>>

Subscribed == pc \in {"open", "stream", "advance", "seed", "save", "terminal", "final"}

\* A wrong variant: only the inner source subscribes.
ReceivesInner(e) == UNCHANGED forward

\* The hybrid source's subscription.
Receives(e) == forward' = Append(forward, e)

\* The coordinator broadcasts a Marker to whoever has subscribed.
Mint ==
    /\ open = 0 /\ epoch < MaxEpoch /\ Subscribed
    /\ epoch' = epoch + 1 /\ open' = epoch + 1
    /\ Receives(epoch + 1)
    /\ inbox' = IF inner = "run" THEN Append(inbox, epoch + 1) ELSE inbox
    /\ UNCHANGED <<storeVars, written, pc, loopVars, innerVars, pending, pipe, out, shutdown,
                   faults, sent>>

RequestShutdown ==
    /\ ~ shutdown /\ pc # "down"
    /\ shutdown' = TRUE
    /\ UNCHANGED <<storeVars, written, pc, loopVars, innerVars, inbox, forward, pending, pipe,
                   out, coordVars, faults, sent>>

\* Everything in memory is gone.
Forget ==
    /\ pc' = "down" /\ phase' = 0 /\ loaded' = None /\ toSeed' = {}
    /\ inner' = "off" /\ pos' = NoPositions /\ snaps' = NoSnaps /\ riding' = {}
    /\ inbox' = <<>> /\ forward' = <<>> /\ pending' = {} /\ pipe' = <<>> /\ out' = <<>>
    /\ open' = 0 /\ shutdown' = FALSE

Crash ==
    /\ pc \notin {"down", "over"}
    /\ Fault
    /\ Forget
    /\ UNCHANGED <<storeVars, written, epoch, sent>>

\* The next start after the source came to its end; the sink may have been cut off.
Restart ==
    /\ pc = "over"
    /\ Forget
    /\ UNCHANGED <<storeVars, written, epoch, faults, sent>>

-----------------------------------------------------------------------------
HybridStep ==
    \/ Boot \/ LoadState \/ RecoverState(TRUE) \/ OpenStream \/ ForwardBatch \/ StreamEnds
    \/ AdvanceToNextPhase \/ (\E p \in Partitions : SeedOffset(p)) \/ Seeded \/ SaveState
    \/ EmitTerminal \/ TerminalOver \/ Teardown

InnerStep == (\E l \in Lanes : InnerBatch(l)) \/ InnerEmptyBatch \/ InnerEnds
InnerReceives == InnerMarker \/ InnerFinalizer

Failure ==
    RecoverState(FALSE) \/ RecoverFails \/ StreamFails \/ AdvanceFails \/ Crash

Next ==
    \/ HybridStep \/ Forwarder \/ InnerStep \/ InnerReceives \/ SinkWrites
    \/ Mint \/ RequestShutdown \/ Failure \/ Restart

Spec == Init /\ [][Next]_vars

\* Every task runs; nobody has to fail, to shut down or to restart.
FairSpec ==
    /\ Spec
    /\ WF_vars(HybridStep) /\ WF_vars(Forwarder) /\ WF_vars(InnerStep)
    /\ WF_vars(InnerReceives) /\ WF_vars(SinkWrites)

-----------------------------------------------------------------------------
(* Properties.                                                             *)

\* Type invariant.
TypeOK ==
    /\ saved \in None .. Bounded /\ cursor \in None .. PhaseRows
    /\ offsets \in [Partitions -> None .. TopicRows]
    /\ written \subseteq sent
    /\ pc \in {"down", "load", "open", "stream", "advance", "seed", "save", "terminal",
               "await", "final", "over"}
    /\ phase \in 0 .. Bounded /\ loaded \in None .. PhaseRows /\ toSeed \subseteq Partitions
    /\ inner \in {"off", "run", "ended"}
    /\ pos \in [Lanes -> Nat] /\ \A l \in Lanes : pos[l] <= End(l)
    /\ riding \subseteq Marks /\ pending \subseteq Marks
    /\ Len(pipe) <= Capacity /\ Len(out) <= Capacity
    /\ epoch \in 0 .. MaxEpoch /\ open \in 0 .. Terminal
    /\ shutdown \in BOOLEAN /\ faults \in 0 .. MaxFaults

\* Once the saved phase is the unbounded one, every partition the offset provider
\* knows has a saved offset, so Kafka never starts from its configured default.
\* Not so in job mode: there nothing is seeded, since the unbounded phase is not
\* meant to run, but a job that is restarted after the phase was saved does open it.
UnboundedIsSeeded ==
    saved = Bounded /\ ~ job => \A p \in DOMAIN Known : offsets[p] # None

\* No phase is left behind: when a phase is saved, every row of the phases before
\* it has been read and sent, by this process or by an earlier one.
PhasesAreRun ==
    saved # None => \A ph \in Phases : ph < saved => RowsOf(ph) \subseteq sent

\* A Marker the coordinator broadcasts at any point of a transition reaches the
\* sink, which acks it, unless the source is at its end.
MarkersArrive ==
    \A e \in 1 .. MaxEpoch : open = e ~> (open # e \/ pc \in {"final", "over", "down"})

\* The phase is saved only when the sink has the rows of the phases before:
\* "sources only commit after all sinks have confirmed they flushed".
PhaseIsWritten ==
    saved # None => \A ph \in Phases : ph < saved => RowsOf(ph) \subseteq written

\* The same of the offsets of the unbounded phase.
OffsetsAreWritten ==
    \A p \in DOMAIN Known : \A n \in Known[p] + 1 .. offsets[p] : <<p, n>> \in written
=============================================================================
