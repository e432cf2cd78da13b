------------------------- MODULE HybridSourceProofs --------------------------
(***************************************************************************)
(* What the hybrid source keeps across crashes and restarts, for every     *)
(* number of rows, partitions, epochs and failures: the unbounded phase is *)
(* never saved without its offsets, and no bounded phase is left behind.   *)
(***************************************************************************)
EXTENDS HybridSource, TLAPS

\* The types, in the parts that steps change together: what is saved, ...
StoreOK ==
    /\ saved \in None .. Bounded /\ cursor \in None .. PhaseRows
    /\ offsets \in [Partitions -> None .. TopicRows]

\* ... the loop, which advances from a bounded phase only, ...
LoopOK ==
    /\ pc \in {"down", "load", "open", "stream", "advance", "seed", "save", "terminal",
               "await", "final", "over"}
    /\ phase \in 0 .. Bounded /\ loaded \in None .. PhaseRows /\ toSeed \subseteq DOMAIN Known
    /\ pc = "advance" => phase < Bounded

\* ... the inner source with its receiver, ...
Mail == Marks \cup {-e : e \in Marks}
Positions == {q \in [Lanes -> Nat] : \A l \in Lanes : q[l] <= End(l)}
InnerOK ==
    /\ inner \in {"off", "run", "ended"}
    /\ pos \in Positions /\ snaps \in [Marks -> Positions]
    /\ riding \subseteq Marks /\ inbox \in Seq(Mail)

\* ... the streams, whose rows have all been sent, ...
Batches == [rows : SUBSET (Lanes \X Nat), marks : SUBSET Marks]
Carries(stream) ==
    /\ stream \in Seq(Batches) /\ Len(stream) <= Capacity
    /\ \A k \in 1 .. Len(stream) : stream[k].rows \subseteq sent
StreamsOK ==
    /\ forward \in Seq(Marks) /\ pending \subseteq Marks
    /\ Carries(pipe) /\ Carries(out)
    /\ written \subseteq sent

\* ... and the coordinator and the process.
CoordOK ==
    /\ epoch \in 0 .. MaxEpoch /\ open \in 0 .. Terminal
    /\ shutdown \in BOOLEAN /\ faults \in 0 .. MaxFaults

Types == StoreOK /\ LoopOK /\ InnerOK /\ StreamsOK /\ CoordOK

\* The hand-over: the phase becomes the unbounded one in memory when seeding
\* begins, and is saved when no partition is left to seed.
HandOver ==
    /\ pc = "seed" => /\ phase = Bounded
                      /\ \A p \in DOMAIN Known \ toSeed : offsets[p] # None
    /\ pc = "save" /\ phase = Bounded /\ ~ job => \A p \in DOMAIN Known : offsets[p] # None

SeedInv == Types /\ HandOver /\ UnboundedIsSeeded

\* A position of the bounded source, in memory or saved, has only rows behind it
\* that were sent.
Sent(n) == \A k \in 1 .. n : <<0, k>> \in sent
BoundedDone == RowsOf(0) \subseteq sent
PositionsAreSent == Sent(cursor) /\ Sent(loaded) /\ Sent(pos[0])

\* What says that the bounded phase is over is true: the end of a stream nobody
\* stopped, a later phase in memory, an offset of the unbounded phase.
EndIsReal ==
    /\ inner = "run" => pc = "stream"
    /\ pc = "stream" /\ inner = "ended" /\ ~ shutdown /\ phase = 0 => BoundedDone
    /\ pc = "advance" => BoundedDone
    /\ phase > 0 => BoundedDone
    /\ \A p \in Partitions : offsets[p] # None => BoundedDone

RunInv == Types /\ HandOver /\ PositionsAreSent /\ EndIsReal /\ PhasesAreRun

-----------------------------------------------------------------------------
(* The constants and the numbers of epochs.                                 *)
LEMMA Nums ==
    /\ None = -1 /\ Bounded \in Nat \ {0} /\ PhaseRows \in Nat /\ TopicRows \in Nat
    /\ MaxEpoch \in Nat /\ MaxFaults \in Nat /\ Capacity \in Nat \ {0}
    /\ Terminal = MaxEpoch + 1 /\ Marks = 1 .. Terminal
  BY HybridAssumption DEF None, Terminal, Marks

(* A lane is a bounded phase or a partition, and ends where its source does. *)
LEMMA LaneFacts ==
    /\ \A l \in Lanes : End(l) \in Nat
    /\ \A l \in Partitions : l \in Lanes /\ End(l) = TopicRows
    /\ \A l \in Phases : l \in Lanes /\ l \notin Partitions /\ End(l) = PhaseRows
    /\ \A l \in Lanes : l \in Partitions \/ l \in Phases
    /\ \A n \in 0 .. Bounded : n < Bounded => n \in Phases
  BY HybridAssumption DEF End, Lanes, Phases

(* The offset provider knows offsets of the topic's partitions.             *)
LEMMA KnownFacts ==
    /\ DOMAIN Known \subseteq Partitions
    /\ \A q \in DOMAIN Known : Known[q] \in 0 .. TopicRows
  BY HybridAssumption

(* Nothing read, nothing recorded.                                          *)
LEMMA NothingRead == NoPositions \in Positions /\ NoSnaps \in [Marks -> Positions]
  <1>1. NoPositions \in Positions
    BY LaneFacts DEF NoPositions, Positions
  <1> QED
    BY <1>1 DEF NoSnaps

(* A message is a Marker's number or the negative of one.                   *)
LEMMA MailFacts ==
    /\ \A m \in Mail : m \in Int /\ (m > 0 => m \in Marks) /\ (m < 0 => -m \in Marks)
    /\ \A e \in Marks : e \in Mail /\ -e \in Mail
  BY Nums DEF Mail

(* Reading one more row of a lane that is not at its end.                   *)
LEMMA OneFurther ==
    ASSUME NEW q \in Positions, NEW l \in Lanes, q[l] < End(l)
    PROVE  [q EXCEPT ![l] = @ + 1] \in Positions
<1> DEFINE r == [q EXCEPT ![l] = @ + 1]
<1>1. q \in [Lanes -> Nat] /\ \A m \in Lanes : q[m] <= End(m)
  BY DEF Positions
<1>2. r \in [Lanes -> Nat]
  BY <1>1
<1>3. \A m \in Lanes : r[m] <= End(m)
  BY <1>1, LaneFacts
<1> QED
  BY <1>2, <1>3 DEF Positions

(* The first state has the types.                                           *)
LEMMA InitTypes == Init => Types
<1> SUFFICES ASSUME Init PROVE Types
  OBVIOUS
<1>1. StoreOK
  BY Nums DEF Init, StoreOK
<1>2. LoopOK
  BY Nums DEF Init, LoopOK
<1>3. InnerOK
  BY NothingRead DEF Init, InnerOK
<1>4. StreamsOK
  BY Nums DEF Init, StreamsOK, Carries
<1>5. CoordOK
  <2>1. epoch = 0 /\ open = 0 /\ shutdown = FALSE /\ faults = 0
    BY DEF Init
  <2>2. epoch \in 0 .. MaxEpoch /\ open \in 0 .. Terminal /\ faults \in 0 .. MaxFaults
    BY <2>1, Nums
  <2>3. shutdown \in BOOLEAN
    BY <2>1
  <2> QED
    BY <2>2, <2>3 DEF CoordOK
<1> QED
  BY <1>1, <1>2, <1>3, <1>4, <1>5 DEF Types

(* Steps that leave a part of the state alone.                              *)
LEMMA StoreSteps ==
    ASSUME [Next]_vars
    PROVE  \/ \E up \in BOOLEAN : RecoverState(up)
           \/ \E p \in Partitions : SeedOffset(p)
           \/ SaveState \/ InnerFinalizer
           \/ UNCHANGED <<saved, cursor, offsets>>
<1>1. CASE UNCHANGED vars
  BY <1>1 DEF vars, storeVars
<1>2. CASE HybridStep
  BY <1>2 DEF HybridStep, Boot, LoadState, OpenStream, ForwardBatch, StreamEnds,
              AdvanceToNextPhase, Seeded, EmitTerminal, TerminalOver, Teardown, storeVars
<1>3. CASE InnerStep \/ InnerReceives \/ Forwarder \/ SinkWrites
  BY <1>3 DEF InnerStep, InnerReceives, InnerBatch, InnerEmptyBatch, InnerEnds, InnerMarker,
              Forwarder, SinkWrites, storeVars
<1>4. CASE Mint \/ RequestShutdown \/ Failure \/ Restart
  BY <1>4 DEF Failure, Mint, RequestShutdown, RecoverFails, StreamFails, AdvanceFails, Crash,
              Restart, storeVars
<1> QED
  BY <1>1, <1>2, <1>3, <1>4 DEF Next

(* Every step keeps the types of what is saved.                             *)
LEMMA NextStore == Types /\ [Next]_vars => StoreOK'
<1> SUFFICES ASSUME Types, [Next]_vars PROVE StoreOK'
  OBVIOUS
<1> USE DEF Types, StoreOK
<1>1. ASSUME NEW up \in BOOLEAN, RecoverState(up) PROVE StoreOK'
  <2>1. Recovered(up) \in 0 .. Bounded
    BY Nums DEF Recovered
  <2> QED
    BY <1>1, <2>1, Nums DEF RecoverState
<1>2. ASSUME NEW p \in Partitions, SeedOffset(p) PROVE StoreOK'
  <2>1. Known[p] \in None .. TopicRows
    BY <1>2, Nums, KnownFacts DEF SeedOffset, LoopOK
  <2> QED
    BY <1>2, <2>1 DEF SeedOffset
<1>3. CASE SaveState
  BY <1>3, Nums DEF SaveState, LoopOK
<1>4. CASE InnerFinalizer
  <2>1. -Head(inbox) \in Marks
    BY <1>4, MailFacts DEF InnerFinalizer, InnerOK
  <2>2. snaps[-Head(inbox)] \in Positions
    BY <2>1 DEF InnerOK
  <2>3. \A p \in Partitions : snaps[-Head(inbox)][p] \in 0 .. TopicRows
    BY <2>2, Nums, LaneFacts DEF Positions
  <2>4. offsets' \in [Partitions -> None .. TopicRows]
    <3>1. CASE Unbounded(phase)
      <4> DEFINE now(p) == IF snaps[-Head(inbox)][p] = 0 THEN offsets[p] ELSE snaps[-Head(inbox)][p]
      <4>1. offsets' = [p \in Partitions |-> now(p)]
        BY <1>4, <3>1 DEF InnerFinalizer
      <4>2. \A p \in Partitions : now(p) \in None .. TopicRows
        BY <2>3, Nums
      <4> QED
        BY <4>1, <4>2
    <3>2. CASE ~ Unbounded(phase)
      BY <1>4, <3>2 DEF InnerFinalizer
    <3> QED
      BY <3>1, <3>2
  <2>5. ~ Unbounded(phase) => pos[phase] \in 0 .. PhaseRows
    BY Nums, LaneFacts DEF Unbounded, InnerOK, LoopOK, Positions
  <2>6. cursor' \in None .. PhaseRows
    BY <1>4, <2>5, Nums DEF InnerFinalizer
  <2> QED
    BY <1>4, <2>4, <2>6 DEF InnerFinalizer
<1>5. CASE UNCHANGED <<saved, cursor, offsets>>
  BY <1>5
<1> QED
  BY <1>1, <1>2, <1>3, <1>4, <1>5, StoreSteps

(* The loop's own variables.                                                *)
LEMMA NextLoop == Types /\ [Next]_vars => LoopOK'
<1> SUFFICES ASSUME Types, [Next]_vars PROVE LoopOK'
  OBVIOUS
<1> USE Nums DEF Types, LoopOK
<1>1. CASE UNCHANGED <<pc, loopVars>>
  BY <1>1 DEF loopVars
<1>2. CASE Boot \/ LoadState
  BY <1>2 DEF Boot, LoadState, StoreOK
<1>3. ASSUME NEW up \in BOOLEAN, RecoverState(up) PROVE LoopOK'
  BY <1>3 DEF RecoverState, Recovered
<1>4. CASE OpenStream \/ StreamEnds \/ Seeded \/ SaveState \/ EmitTerminal \/ TerminalOver \/ Teardown
  BY <1>4 DEF OpenStream, StreamEnds, Unbounded, Seeded, SaveState, EmitTerminal, TerminalOver, Teardown, loopVars
<1>5. CASE AdvanceToNextPhase
  BY <1>5 DEF AdvanceToNextPhase, AfterAdvance
<1>6. ASSUME NEW p \in Partitions, SeedOffset(p) PROVE LoopOK'
  BY <1>6 DEF SeedOffset
<1>7. CASE RecoverFails \/ StreamFails \/ AdvanceFails
  BY <1>7 DEF RecoverFails, StreamFails, AdvanceFails, loopVars
<1>8. CASE Crash \/ Restart
  BY <1>8 DEF Crash, Restart, Forget
<1>9. CASE ForwardBatch \/ InnerStep \/ InnerReceives \/ Forwarder \/ SinkWrites \/ Mint \/ RequestShutdown
  BY <1>1, <1>9 DEF ForwardBatch, InnerStep, InnerReceives, InnerBatch, InnerEmptyBatch, InnerEnds,
              InnerMarker, InnerFinalizer, Forwarder, SinkWrites, Mint, RequestShutdown
<1> QED
  BY <1>1, <1>2, <1>3, <1>4, <1>5, <1>6, <1>7, <1>8, <1>9 DEF Next, HybridStep, Failure, vars

(* The inner source.                                                        *)
LEMMA NextInner == Types /\ [Next]_vars => InnerOK'
<1> SUFFICES ASSUME Types, [Next]_vars PROVE InnerOK'
  OBVIOUS
<1> USE DEF Types, InnerOK
<1>1. CASE UNCHANGED <<innerVars, inbox>>
  BY <1>1 DEF innerVars
<1>2. CASE OpenStream
  <2>1. \A l \in Lanes : StartAt(l) \in Nat /\ StartAt(l) <= End(l)
    BY Nums, LaneFacts DEF StartAt, StoreOK, LoopOK
  <2> QED
    BY <1>2, <2>1, NothingRead DEF OpenStream, Positions
<1>3. CASE StreamFails \/ InnerEnds
  <2>1. inner' = "ended" /\ inbox' = <<>> /\ UNCHANGED <<pos, snaps, riding>>
    BY <1>3 DEF StreamFails, InnerEnds
  <2> QED
    BY <2>1
<1>13. CASE AdvanceToNextPhase
  BY <1>13 DEF AdvanceToNextPhase
<1>4. ASSUME NEW l \in Lanes, InnerBatch(l) PROVE InnerOK'
  <2>1. /\ pos' = [pos EXCEPT ![l] = @ + 1] /\ pos[l] < End(l) /\ riding' = {}
        /\ UNCHANGED <<inner, snaps, inbox>>
    BY <1>4 DEF InnerBatch
  <2>2. pos' \in Positions
    BY <2>1, OneFurther
  <2> QED
    BY <2>1, <2>2
<1>5. CASE InnerEmptyBatch
  BY <1>5 DEF InnerEmptyBatch
<1>6. CASE InnerMarker
  <2>1. Head(inbox) \in Marks /\ Tail(inbox) \in Seq(Mail)
    BY <1>6, MailFacts DEF InnerMarker
  <2> QED
    BY <1>6, <2>1 DEF InnerMarker
<1>7. CASE InnerFinalizer
  BY <1>7 DEF InnerFinalizer, innerVars
<1>8. CASE SinkWrites
  <2>1. open # 0 => open \in Marks
    BY Nums DEF CoordOK
  <2>2. open # 0 => -open \in Mail
    BY <2>1, MailFacts
  <2>3. UNCHANGED <<inner, pos, snaps, riding>> /\ (inbox' = inbox \/ (open # 0 /\ inbox' = Append(inbox, -open)))
    BY <1>8 DEF SinkWrites, innerVars
  <2>4. inbox' \in Seq(Mail)
    BY <2>2, <2>3
  <2> QED
    BY <2>3, <2>4
<1>9. CASE Mint
  <2>1. epoch + 1 \in Mail
    BY <1>9, MailFacts, Nums DEF Mint, CoordOK
  <2> QED
    BY <1>9, <2>1 DEF Mint, innerVars
<1>10. CASE Crash \/ Restart
  <2>1. /\ inner' = "off" /\ pos' = NoPositions /\ snaps' = NoSnaps /\ riding' = {}
        /\ inbox' = <<>>
    BY <1>10 DEF Crash, Restart, Forget
  <2> QED
    BY <2>1, NothingRead
<1>11. ASSUME \/ Boot \/ LoadState \/ (\E up \in BOOLEAN : RecoverState(up)) \/ ForwardBatch \/ StreamEnds
              \/ (\E p \in Partitions : SeedOffset(p)) \/ Seeded \/ SaveState \/ EmitTerminal
              \/ TerminalOver \/ Teardown
       PROVE  InnerOK'
  BY <1>1, <1>11 DEF Boot, LoadState, RecoverState, ForwardBatch, StreamEnds, SeedOffset, Seeded,
               SaveState, EmitTerminal, TerminalOver, Teardown
<1>12. CASE Forwarder \/ RequestShutdown \/ RecoverFails \/ AdvanceFails
  BY <1>1, <1>12 DEF Forwarder, RequestShutdown, RecoverFails, AdvanceFails
<1> QED
  BY <1>1, <1>2, <1>3, <1>4, <1>5, <1>6, <1>7, <1>8, <1>9, <1>10, <1>11, <1>12, <1>13
     DEF Next, HybridStep, InnerStep, InnerReceives, Failure, vars

(* A stream that carries sent rows does so when a batch of such rows is put *)
(* on it or taken off it, and when more is sent.                            *)
LEMMA CarriesMore ==
    ASSUME NEW s, Carries(s), sent \subseteq sent'
    PROVE  /\ \A b \in Batches : Len(s) < Capacity /\ b.rows \subseteq sent' =>
                  /\ Append(s, b) \in Seq(Batches) /\ Len(Append(s, b)) <= Capacity
                  /\ \A k \in 1 .. Len(Append(s, b)) : Append(s, b)[k].rows \subseteq sent'
           /\ s # <<>> => /\ Tail(s) \in Seq(Batches) /\ Len(Tail(s)) <= Capacity
                          /\ \A k \in 1 .. Len(Tail(s)) : Tail(s)[k].rows \subseteq sent'
                          /\ Head(s) \in Batches /\ Head(s).rows \subseteq sent
           /\ \A k \in 1 .. Len(s) : s[k].rows \subseteq sent'
<1>1. s \in Seq(Batches) /\ Len(s) <= Capacity /\ Capacity \in Nat
  BY Nums DEF Carries
<1>2. \A k \in 1 .. Len(s) : s[k].rows \subseteq sent'
  BY DEF Carries
<1>3. ASSUME NEW b \in Batches, Len(s) < Capacity, b.rows \subseteq sent'
      PROVE  /\ Append(s, b) \in Seq(Batches) /\ Len(Append(s, b)) <= Capacity
             /\ \A k \in 1 .. Len(Append(s, b)) : Append(s, b)[k].rows \subseteq sent'
  BY <1>1, <1>2, <1>3
<1>4. ASSUME s # <<>>
      PROVE  /\ Tail(s) \in Seq(Batches) /\ Len(Tail(s)) <= Capacity
             /\ \A k \in 1 .. Len(Tail(s)) : Tail(s)[k].rows \subseteq sent'
  BY <1>1, <1>2, <1>4
<1>5. ASSUME s # <<>> PROVE Head(s) \in Batches /\ Head(s).rows \subseteq sent
  BY <1>1, <1>5 DEF Carries
<1> QED
  BY <1>2, <1>3, <1>4, <1>5

(* A flush adds at most one batch, without rows.                            *)
LEMMA FlushCarries ==
    ASSUME StreamsOK, NEW marks \in SUBSET Marks, Flush(marks), sent' = sent
    PROVE  Carries(out)' /\ pending' = {}
<1>1. Batch({}, marks) \in Batches /\ Batch({}, marks).rows = {}
  BY DEF Batch, Batches
<1>2. CASE marks = {}
  BY <1>2 DEF Flush, StreamsOK, Carries
<1>3. CASE marks # {}
  <2>1. out' = Append(out, Batch({}, marks)) /\ Len(out) < Capacity
    BY <1>3 DEF Flush
  <2>2. Carries(out)
    BY DEF StreamsOK
  <2> QED
    BY <1>1, <2>1, <2>2, CarriesMore DEF Carries, Flush
<1> QED
  BY <1>2, <1>3 DEF Flush

(* The streams and the sink's table.                                        *)
LEMMA NextStreams == Types /\ [Next]_vars => StreamsOK'
<1> SUFFICES ASSUME Types, [Next]_vars PROVE StreamsOK'
  OBVIOUS
<1>0. Carries(pipe) /\ Carries(out) /\ forward \in Seq(Marks) /\ pending \subseteq Marks
      /\ written \subseteq sent /\ riding \subseteq Marks
  BY DEF Types, StreamsOK, InnerOK
<1>1. CASE UNCHANGED <<forward, pending, pipe, out, written, sent>>
  BY <1>0, <1>1 DEF StreamsOK, Carries
<1>2. CASE ForwardBatch
  <2>1. Head(pipe) \in Batches /\ Head(pipe).rows \subseteq sent
    BY <1>0, <1>2, CarriesMore DEF ForwardBatch
  <2> DEFINE b == Batch(Head(pipe).rows, Head(pipe).marks \cup pending)
  <2>2. b \in Batches /\ b.rows \subseteq sent
    BY <1>0, <2>1 DEF Batch, Batches
  <2>3. /\ out' = Append(out, b) /\ Len(out) < Capacity /\ pipe' = Tail(pipe) /\ pipe # <<>>
        /\ UNCHANGED <<forward, written, sent>> /\ pending' = {}
    BY <1>2 DEF ForwardBatch
  <2> HIDE DEF b
  <2>4. Carries(out)' /\ Carries(pipe)'
    BY <1>0, <2>2, <2>3, CarriesMore DEF Carries
  <2> QED
    BY <1>0, <2>3, <2>4 DEF StreamsOK
<1>3. CASE StreamEnds
  <2>1. Flush(pending) /\ UNCHANGED <<forward, pipe, written, sent>>
    BY <1>3 DEF StreamEnds
  <2> QED
    BY <1>0, <2>1, FlushCarries DEF Types, StreamsOK, Carries
<1>4. CASE EmitTerminal
  <2>1. Flush(pending \cup {Terminal}) /\ UNCHANGED <<forward, pipe, written, sent>>
    BY <1>4 DEF EmitTerminal
  <2>2. pending \cup {Terminal} \in SUBSET Marks
    BY <1>0, Nums
  <2> QED
    BY <1>0, <2>1, <2>2, FlushCarries DEF Types, StreamsOK, Carries
<1>5. CASE Teardown
  <2>1. Flush(pending) /\ UNCHANGED <<pipe, written, sent>> /\ forward' = <<>>
    BY <1>5 DEF Teardown
  <2> QED
    <3>1. Carries(out)' /\ pending' = {}
      BY <1>0, <2>1, FlushCarries DEF Types
    <3>2. Carries(pipe)'
      BY <1>0, <2>1 DEF Carries
    <3> QED
      BY <1>0, <2>1, <3>1, <3>2 DEF StreamsOK
<1>6. CASE Forwarder
  BY <1>0, <1>6 DEF Forwarder, StreamsOK, Carries
<1>7. ASSUME NEW l \in Lanes, InnerBatch(l) PROVE StreamsOK'
  <2> DEFINE b == Batch({<<l, pos[l] + 1>>}, riding)
  <2>1. pos[l] \in Nat
    BY DEF Types, InnerOK, Positions
  <2>2. b \in Batches /\ b.rows = {<<l, pos[l] + 1>>}
    BY <1>0, <2>1 DEF Batch, Batches
  <2>3. /\ pipe' = Append(pipe, b) /\ sent' = sent \cup b.rows /\ Len(pipe) < Capacity
        /\ UNCHANGED <<forward, pending, out, written>>
    BY <1>7, <2>2 DEF InnerBatch
  <2> HIDE DEF b
  <2>4. Carries(out)' /\ Carries(pipe)'
    BY <1>0, <2>2, <2>3, CarriesMore DEF Carries
  <2> QED
    BY <1>0, <2>3, <2>4 DEF StreamsOK
<1>8. CASE InnerEmptyBatch
  <2> DEFINE b == Batch({}, riding)
  <2>1. b \in Batches /\ b.rows = {}
    BY <1>0 DEF Batch, Batches
  <2>2. /\ pipe' = Append(pipe, b) /\ Len(pipe) < Capacity
        /\ UNCHANGED <<forward, pending, out, written, sent>>
    BY <1>8 DEF InnerEmptyBatch
  <2> HIDE DEF b
  <2>3. Carries(out)' /\ Carries(pipe)'
    BY <1>0, <2>1, <2>2, CarriesMore DEF Carries
  <2> QED
    BY <1>0, <2>2, <2>3 DEF StreamsOK
<1>9. CASE SinkWrites
  <2>1. /\ out' = Tail(out) /\ out # <<>> /\ written' = written \cup Head(out).rows
        /\ UNCHANGED <<forward, pending, pipe, sent>>
    BY <1>9 DEF SinkWrites
  <2>2. Head(out).rows \subseteq sent /\ Carries(out)' /\ Carries(pipe)'
    BY <1>0, <2>1, CarriesMore DEF Carries
  <2> QED
    BY <1>0, <2>1, <2>2 DEF StreamsOK
<1>10. CASE Mint
  <2>1. epoch + 1 \in Marks
    BY <1>10, Nums DEF Mint, Types, CoordOK
  <2> QED
    BY <1>0, <1>10, <2>1 DEF Mint, Receives, StreamsOK, Carries
<1>11. CASE Crash \/ Restart
  <2>1. /\ forward' = <<>> /\ pipe' = <<>> /\ out' = <<>> /\ pending' = {}
        /\ UNCHANGED <<written, sent>>
    BY <1>11 DEF Crash, Restart, Forget
  <2> QED
    BY <1>0, <2>1, Nums DEF StreamsOK, Carries
<1>12. ASSUME \/ Boot \/ LoadState \/ (\E up \in BOOLEAN : RecoverState(up)) \/ OpenStream
              \/ AdvanceToNextPhase \/ (\E p \in Partitions : SeedOffset(p)) \/ Seeded \/ SaveState
              \/ TerminalOver
       PROVE  StreamsOK'
  BY <1>1, <1>12 DEF Boot, LoadState, RecoverState, OpenStream, AdvanceToNextPhase, SeedOffset,
               Seeded, SaveState, TerminalOver
<1>13. CASE InnerReceives \/ InnerEnds \/ RequestShutdown \/ RecoverFails \/ StreamFails \/ AdvanceFails
  BY <1>1, <1>13 DEF InnerReceives, InnerMarker, InnerFinalizer, InnerEnds, RequestShutdown,
               RecoverFails, StreamFails, AdvanceFails
<1> QED
  BY <1>1, <1>2, <1>3, <1>4, <1>5, <1>6, <1>7, <1>8, <1>9, <1>10, <1>11, <1>12, <1>13
     DEF Next, HybridStep, InnerStep, Failure, vars

(* The coordinator and the process.                                         *)
LEMMA NextCoord == Types /\ [Next]_vars => CoordOK'
<1> SUFFICES ASSUME CoordOK, [Next]_vars PROVE CoordOK'
  BY DEF Types
<1> USE DEF CoordOK
<1>1. CASE UNCHANGED <<epoch, open, shutdown, faults>>
  BY <1>1
<1>2. CASE EmitTerminal \/ SinkWrites \/ Mint
  BY <1>2, Nums DEF EmitTerminal, SinkWrites, Mint
<1>7. CASE RequestShutdown
  BY <1>7 DEF RequestShutdown, coordVars
<1>8. CASE Crash \/ Restart
  <2>1. /\ epoch' = epoch /\ open' = 0 /\ shutdown' = FALSE
        /\ faults' = faults \/ (faults < MaxFaults /\ faults' = faults + 1)
    BY <1>8 DEF Crash, Restart, Forget, Fault
  <2>2. (epoch \in 0 .. MaxEpoch /\ open \in 0 .. Terminal /\ faults \in 0 .. MaxFaults)'
    BY <2>1, Nums
  <2>3. shutdown' \in BOOLEAN
    BY <2>1
  <2> QED
    BY <2>2, <2>3
<1>3. CASE RecoverFails \/ StreamFails \/ AdvanceFails
  BY <1>3, Nums DEF RecoverFails, StreamFails, AdvanceFails, Fault, coordVars
<1>4. ASSUME NEW up \in BOOLEAN, RecoverState(up) PROVE CoordOK'
  BY <1>4, Nums DEF RecoverState, Fault, coordVars
<1>5. ASSUME \/ Boot \/ LoadState \/ OpenStream \/ ForwardBatch \/ StreamEnds
             \/ AdvanceToNextPhase \/ (\E p \in Partitions : SeedOffset(p)) \/ Seeded \/ SaveState
             \/ TerminalOver \/ Teardown
      PROVE  CoordOK'
  BY <1>1, <1>5 DEF Boot, LoadState, OpenStream, ForwardBatch, StreamEnds, AdvanceToNextPhase,
              SeedOffset, Seeded, SaveState, TerminalOver, Teardown, coordVars
<1>6. CASE InnerStep \/ InnerReceives \/ Forwarder
  BY <1>1, <1>6 DEF InnerStep, InnerReceives, InnerBatch, InnerEmptyBatch, InnerEnds, InnerMarker,
              InnerFinalizer, Forwarder, coordVars
<1> QED
  BY <1>1, <1>2, <1>3, <1>4, <1>5, <1>6, <1>7, <1>8 DEF Next, HybridStep, Failure, vars, coordVars

(* The types are invariant.                                                 *)
LEMMA NextTypes == Types /\ [Next]_vars => Types'
  BY NextStore, NextLoop, NextInner, NextStreams, NextCoord DEF Types

(* The type invariant of the hybrid source.                                 *)
THEOREM HybridTypes == Spec => []TypeOK
<1>1. Init => Types
  BY InitTypes
<1>2. Types /\ [Next]_vars => Types'
  BY NextTypes
<1>3. Types => TypeOK
  <2> SUFFICES ASSUME Types PROVE TypeOK
    OBVIOUS
  <2>1. toSeed \subseteq Partitions
    BY KnownFacts DEF Types, LoopOK
  <2>2. pos \in [Lanes -> Nat] /\ \A l \in Lanes : pos[l] <= End(l)
    BY DEF Types, InnerOK, Positions
  <2> QED
    BY <2>1, <2>2 DEF Types, TypeOK, StoreOK, LoopOK, InnerOK, StreamsOK, Carries, CoordOK
<1> QED
  BY <1>1, <1>2, <1>3, PTL DEF Spec

-----------------------------------------------------------------------------
(* The offsets are seeded before the phase is saved.                        *)

(* No step removes a saved offset, and job_mode is fixed.                   *)
LEMMA OffsetsStay ==
    Types /\ [Next]_vars =>
        \A p \in Partitions : offsets[p] # None => offsets'[p] # None
<1> SUFFICES ASSUME Types, [Next]_vars, NEW p \in Partitions, offsets[p] # None
             PROVE  offsets'[p] # None
  OBVIOUS
<1> USE DEF Types, StoreOK
<1>1. ASSUME NEW up \in BOOLEAN, RecoverState(up) PROVE offsets'[p] # None
  BY <1>1 DEF RecoverState
<1>2. ASSUME NEW q \in Partitions, SeedOffset(q) PROVE offsets'[p] # None
  <2>1. Known[q] # None
    BY <1>2, Nums, KnownFacts DEF SeedOffset, LoopOK
  <2> QED
    BY <1>2, <2>1 DEF SeedOffset
<1>3. CASE SaveState
  BY <1>3 DEF SaveState
<1>4. CASE InnerFinalizer
  <2>1. -Head(inbox) \in Marks
    BY <1>4, MailFacts DEF InnerFinalizer, InnerOK
  <2>2. snaps[-Head(inbox)][p] \in Nat
    BY <2>1, LaneFacts DEF InnerOK, Positions
  <2>3. \/ offsets' = offsets
        \/ offsets' = [q \in Partitions |-> IF snaps[-Head(inbox)][q] = 0 THEN offsets[q]
                                            ELSE snaps[-Head(inbox)][q]]
    BY <1>4 DEF InnerFinalizer
  <2> QED
    BY <2>2, <2>3, Nums
<1> QED
  BY <1>1, <1>2, <1>3, <1>4, StoreSteps

(* job_mode is fixed.                                                       *)
LEMMA JobStays == [Next]_vars => job' = job
<1> SUFFICES ASSUME [Next]_vars PROVE job' = job
  OBVIOUS
<1>1. CASE HybridStep
  BY <1>1 DEF HybridStep, Boot, LoadState, RecoverState, OpenStream, ForwardBatch, StreamEnds,
              AdvanceToNextPhase, SeedOffset, Seeded, SaveState, EmitTerminal, TerminalOver,
              Teardown, storeVars
<1>2. CASE InnerStep \/ InnerReceives \/ Forwarder \/ SinkWrites
  BY <1>2 DEF InnerStep, InnerReceives, InnerBatch, InnerEmptyBatch, InnerEnds, InnerMarker,
              InnerFinalizer, Forwarder, SinkWrites, storeVars
<1>3. CASE Mint \/ RequestShutdown \/ Failure \/ Restart
  BY <1>3 DEF Failure, Mint, RequestShutdown, RecoverState, RecoverFails, StreamFails,
              AdvanceFails, Crash, Restart, storeVars
<1>4. CASE UNCHANGED vars
  BY <1>4 DEF vars, storeVars
<1> QED
  BY <1>1, <1>2, <1>3, <1>4 DEF Next

(* The steps that lead to or stay in the hand-over.                         *)
LEMMA HandOverSteps ==
    ASSUME [Next]_vars
    PROVE  \/ pc' \notin {"seed", "save"} \/ AdvanceToNextPhase \/ Seeded
           \/ \E p \in Partitions : SeedOffset(p)
           \/ UNCHANGED <<pc, phase, toSeed>>
<1>1. CASE HybridStep
  BY <1>1 DEF HybridStep, Boot, LoadState, RecoverState, OpenStream, ForwardBatch, StreamEnds,
              SaveState, EmitTerminal, TerminalOver, Teardown, loopVars
<1>2. CASE InnerStep \/ InnerReceives \/ Forwarder \/ SinkWrites
  BY <1>2 DEF InnerStep, InnerReceives, InnerBatch, InnerEmptyBatch, InnerEnds, InnerMarker,
              InnerFinalizer, Forwarder, SinkWrites, loopVars
<1>3. CASE Mint \/ RequestShutdown \/ Failure \/ Restart
  BY <1>3 DEF Failure, Mint, RequestShutdown, RecoverState, RecoverFails, StreamFails,
              AdvanceFails, Crash, Restart, Forget, loopVars
<1>4. CASE UNCHANGED vars
  BY <1>4 DEF vars, loopVars
<1> QED
  BY <1>1, <1>2, <1>3, <1>4 DEF Next

(* While the offsets are seeded, those no longer in toSeed are saved.        *)
LEMMA NextHandOver == Types /\ HandOver /\ [Next]_vars => HandOver'
<1> SUFFICES ASSUME Types, HandOver, [Next]_vars PROVE HandOver'
  OBVIOUS
<1>1. \A p \in DOMAIN Known : offsets[p] # None => offsets'[p] # None
  BY OffsetsStay, KnownFacts
<1>2. job' = job
  BY JobStays
<1>3. CASE pc' \notin {"seed", "save"}
  BY <1>3 DEF HandOver
<1>4. CASE AdvanceToNextPhase
  <2>1. /\ phase' = phase + 1 /\ toSeed' = IF phase + 1 = Bounded THEN DOMAIN Known ELSE {}
        /\ pc' = IF phase' = Bounded /\ ~ job THEN "seed" ELSE "save"
    BY <1>4 DEF AdvanceToNextPhase, AfterAdvance
  <2> QED
    BY <1>2, <2>1 DEF HandOver
<1>5. CASE Seeded
  BY <1>1, <1>5 DEF HandOver, Seeded, loopVars
<1>6. ASSUME NEW p \in Partitions, SeedOffset(p) PROVE HandOver'
  <2>1. /\ pc = "seed" /\ pc' = "seed" /\ phase' = phase /\ toSeed' = toSeed \ {p} /\ p \in toSeed
        /\ offsets' = [offsets EXCEPT ![p] = Known[p]]
    BY <1>6 DEF SeedOffset
  <2>2. offsets'[p] # None
    BY <2>1, Nums, KnownFacts DEF Types, StoreOK, LoopOK
  <2> QED
    BY <1>1, <2>1, <2>2 DEF HandOver
<1>7. CASE UNCHANGED <<pc, phase, toSeed>>
  BY <1>1, <1>2, <1>7 DEF HandOver
<1> QED
  BY <1>3, <1>4, <1>5, <1>6, <1>7, HandOverSteps

(* The phase that is saved has its offsets.                                 *)
LEMMA NextSeeded == SeedInv /\ [Next]_vars => UnboundedIsSeeded'
<1> SUFFICES ASSUME SeedInv, [Next]_vars PROVE UnboundedIsSeeded'
  OBVIOUS
<1>1. \A p \in DOMAIN Known : offsets[p] # None => offsets'[p] # None
  BY OffsetsStay, KnownFacts DEF SeedInv
<1>2. job' = job
  BY JobStays
<1>3. ASSUME NEW up \in BOOLEAN, RecoverState(up) PROVE UnboundedIsSeeded'
  <2>1. saved' = Recovered(up) /\ offsets' = offsets
    BY <1>3 DEF RecoverState
  <2>2. Recovered(up) = Bounded => AllOffsets
    BY Nums DEF Recovered
  <2> QED
    BY <2>1, <2>2 DEF UnboundedIsSeeded, AllOffsets
<1>4. CASE SaveState
  BY <1>1, <1>2, <1>4 DEF SaveState, SeedInv, HandOver, UnboundedIsSeeded
<1>5. CASE saved' = saved
  BY <1>1, <1>2, <1>5 DEF SeedInv, UnboundedIsSeeded
<1> QED
  BY <1>3, <1>4, <1>5, StoreSteps DEF SeedOffset, InnerFinalizer

(* Once the saved phase is the unbounded one, no partition the offset        *)
(* provider knows is without a saved offset: seed_offsets comes before the   *)
(* put of the phase, whatever crashes in between, and the recovery that      *)
(* finds no phase jumps to the unbounded one only over a complete set.       *)
THEOREM SeededBeforeSaved == Spec => []UnboundedIsSeeded
<1>1. Init => SeedInv
  BY InitTypes, Nums DEF Init, SeedInv, HandOver, UnboundedIsSeeded
<1>2. SeedInv /\ [Next]_vars => SeedInv'
  BY NextTypes, NextHandOver, NextSeeded DEF SeedInv
<1> QED
  BY <1>1, <1>2, PTL DEF Spec, SeedInv

-----------------------------------------------------------------------------
(* One bounded phase before the unbounded one.                              *)

(* The rows sent only grow.                                                 *)
LEMMA SentGrows == [Next]_vars => sent \subseteq sent'
<1> SUFFICES ASSUME [Next]_vars PROVE sent \subseteq sent'
  OBVIOUS
<1>1. CASE HybridStep
  BY <1>1 DEF HybridStep, Boot, LoadState, RecoverState, OpenStream, ForwardBatch, StreamEnds,
              AdvanceToNextPhase, SeedOffset, Seeded, SaveState, EmitTerminal, TerminalOver,
              Teardown
<1>2. CASE InnerStep \/ InnerReceives \/ Forwarder \/ SinkWrites
  BY <1>2 DEF InnerStep, InnerReceives, InnerBatch, InnerEmptyBatch, InnerEnds, InnerMarker,
              InnerFinalizer, Forwarder, SinkWrites
<1>3. CASE Mint \/ RequestShutdown \/ Failure \/ Restart
  BY <1>3 DEF Failure, Mint, RequestShutdown, RecoverState, RecoverFails, StreamFails,
              AdvanceFails, Crash, Restart
<1>4. CASE UNCHANGED vars
  BY <1>4 DEF vars
<1> QED
  BY <1>1, <1>2, <1>3, <1>4 DEF Next

(* The steps that move a position of the bounded source.                     *)
LEMMA PositionSteps ==
    ASSUME [Next]_vars
    PROVE  \/ Boot \/ OpenStream \/ (\E l \in Lanes : InnerBatch(l)) \/ InnerFinalizer
           \/ Crash \/ Restart
           \/ UNCHANGED <<cursor, loaded, pos>>
<1>1. CASE HybridStep
  BY <1>1 DEF HybridStep, LoadState, RecoverState, ForwardBatch, StreamEnds, AdvanceToNextPhase,
              SeedOffset, Seeded, SaveState, EmitTerminal, TerminalOver, Teardown, storeVars,
              loopVars, innerVars
<1>2. CASE InnerStep \/ InnerReceives \/ Forwarder \/ SinkWrites
  BY <1>2 DEF InnerStep, InnerReceives, InnerEmptyBatch, InnerEnds, InnerMarker, Forwarder,
              SinkWrites, storeVars, loopVars, innerVars
<1>3. CASE Mint \/ RequestShutdown \/ Failure \/ Restart
  BY <1>3 DEF Failure, Mint, RequestShutdown, RecoverState, RecoverFails, StreamFails,
              AdvanceFails, storeVars, loopVars, innerVars
<1>4. CASE UNCHANGED vars
  BY <1>4 DEF vars, storeVars, loopVars, innerVars
<1> QED
  BY <1>1, <1>2, <1>3, <1>4 DEF Next

(* The steps that the end of a stream, the phase and the task depend on.     *)
LEMMA PhaseSteps ==
    ASSUME [Next]_vars
    PROVE  \/ LoadState \/ (\E up \in BOOLEAN : RecoverState(up)) \/ AdvanceToNextPhase
           \/ StreamEnds \/ OpenStream \/ InnerEnds \/ StreamFails
           \/ phase' = 0 /\ inner' = "off" /\ pc' = "down"
           \/ /\ UNCHANGED <<phase, inner>> /\ (shutdown' = shutdown \/ shutdown')
              /\ pc' = pc \/ (pc # "stream" /\ pc' \notin {"stream", "advance"})
<1>1. CASE HybridStep
  BY <1>1 DEF HybridStep, Boot, ForwardBatch, SeedOffset, Seeded, SaveState, EmitTerminal,
              TerminalOver, Teardown, loopVars, innerVars
<1>2. CASE InnerStep \/ InnerReceives \/ Forwarder \/ SinkWrites
  BY <1>2 DEF InnerStep, InnerReceives, InnerBatch, InnerEmptyBatch, InnerMarker, InnerFinalizer,
              Forwarder, SinkWrites, loopVars, innerVars
<1>3. CASE Mint \/ RequestShutdown \/ Failure \/ Restart
  BY <1>3 DEF Failure, Mint, RequestShutdown, RecoverFails, AdvanceFails, Crash, Restart, Forget,
              loopVars, innerVars
<1>4. CASE UNCHANGED vars
  BY <1>4 DEF vars, loopVars, innerVars
<1> QED
  BY <1>1, <1>2, <1>3, <1>4 DEF Next

(* With one bounded phase, it is phase 0, and not a partition.               *)
LEMMA OnePhase ==
    ASSUME Bounded = 1
    PROVE  /\ Phases = {0} /\ 0 \in Lanes /\ 0 \notin Partitions /\ End(0) = PhaseRows
           /\ \A ph \in 0 .. Bounded : Unbounded(ph) <=> ph > 0
<1>1. Phases = {0}
  BY DEF Phases
<1> QED
  BY <1>1, LaneFacts DEF Unbounded

(* A position behind which all rows were sent stays one.                     *)
LEMMA SentStays ==
    [Next]_vars => /\ \A n \in Int : Sent(n) => Sent(n)'
                   /\ BoundedDone => BoundedDone'
  BY SentGrows DEF Sent, BoundedDone

(* A scan that is at its end has sent the phase.                            *)
LEMMA SentAll == Sent(PhaseRows) <=> BoundedDone
  BY DEF Sent, BoundedDone, RowsOf

(* The positions of the bounded source stay behind what was sent.            *)
LEMMA NextPositions ==
    ASSUME Bounded = 1, RunInv, [Next]_vars PROVE PositionsAreSent'
<1>0. /\ cursor \in Int /\ loaded \in Int /\ pos \in Positions /\ pos[0] \in Nat
      /\ Sent(cursor) /\ Sent(loaded) /\ Sent(pos[0])
  BY OnePhase, Nums DEF RunInv, Types, StoreOK, LoopOK, InnerOK, Positions, PositionsAreSent
<1>1. Sent(cursor)' \/ cursor' # cursor
  BY <1>0, SentStays DEF Sent
<1>2. Sent(loaded)' \/ loaded' # loaded
  BY <1>0, SentStays DEF Sent
<1>3. Sent(pos[0])' \/ pos' # pos
  BY <1>0, SentStays DEF Sent
<1>4. CASE Boot
  <2>1. loaded' = cursor /\ cursor' = cursor /\ pos' = pos
    BY <1>4 DEF Boot, storeVars, innerVars
  <2>2. Sent(loaded)'
    BY <1>1, <2>1 DEF Sent
  <2> QED
    BY <1>1, <1>3, <2>1, <2>2 DEF PositionsAreSent
<1>5. CASE OpenStream
  <2>1. pos'[0] = StartAt(0) /\ cursor' = cursor /\ loaded' = loaded
    BY <1>5, OnePhase DEF OpenStream, storeVars, loopVars
  <2>2. StartAt(0) \in {0, loaded}
    BY OnePhase DEF StartAt
  <2>3. Sent(pos[0])'
    <3>1. CASE StartAt(0) = 0
      BY <2>1, <3>1 DEF Sent
    <3>2. CASE StartAt(0) = loaded
      BY <1>2, <2>1, <3>2 DEF Sent
    <3> QED
      BY <2>2, <3>1, <3>2
  <2> QED
    BY <1>1, <1>2, <2>1, <2>3 DEF PositionsAreSent
<1>6. ASSUME NEW l \in Lanes, InnerBatch(l) PROVE PositionsAreSent'
  <2>1. /\ pos' = [pos EXCEPT ![l] = @ + 1] /\ sent' = sent \cup {<<l, pos[l] + 1>>}
        /\ cursor' = cursor /\ loaded' = loaded
    BY <1>6 DEF InnerBatch, storeVars, loopVars
  <2>2. pos \in [Lanes -> Nat]
    BY <1>0 DEF Positions
  <2>3. CASE l = 0
    <3>1. pos'[0] = pos[0] + 1 /\ <<0, pos[0] + 1>> \in sent'
      BY <2>1, <2>2, <2>3
    <3>2. \A k \in 1 .. pos[0] + 1 : k = pos[0] + 1 \/ k \in 1 .. pos[0]
      BY <1>0
    <3>3. Sent(pos[0])'
      BY <1>0, <2>1, <3>1, <3>2 DEF Sent
    <3> QED
      BY <1>1, <1>2, <2>1, <3>3 DEF PositionsAreSent
  <2>4. CASE l # 0
    <3>1. pos'[0] = pos[0]
      BY <2>1, <2>2, <2>4, OnePhase
    <3>2. Sent(pos[0])'
      BY <1>0, <2>1, <3>1 DEF Sent
    <3> QED
      BY <1>1, <1>2, <2>1, <3>2 DEF PositionsAreSent
  <2> QED
    BY <2>3, <2>4
<1>7. CASE InnerFinalizer
  <2>1. /\ pos' = pos /\ loaded' = loaded
        /\ cursor' = cursor \/ (~ Unbounded(phase) /\ cursor' = pos[phase])
    BY <1>7 DEF InnerFinalizer, loopVars, innerVars
  <2>2. ~ Unbounded(phase) => phase = 0
    BY Nums DEF RunInv, Types, LoopOK, Unbounded
  <2>3. Sent(cursor)'
    BY <1>1, <1>3, <2>1, <2>2 DEF Sent
  <2> QED
    BY <1>2, <1>3, <2>1, <2>3 DEF PositionsAreSent
<1>8. CASE Crash \/ Restart
  <2>1. cursor' = cursor /\ loaded' = -1 /\ pos' = NoPositions
    BY <1>8 DEF Crash, Restart, Forget, storeVars, None
  <2>2. Sent(loaded)' /\ Sent(pos[0])'
    BY <2>1, OnePhase DEF Sent, NoPositions
  <2> QED
    BY <1>1, <2>1, <2>2 DEF PositionsAreSent
<1>9. CASE UNCHANGED <<cursor, loaded, pos>>
  BY <1>1, <1>2, <1>3, <1>9 DEF PositionsAreSent
<1> QED
  BY <1>4, <1>5, <1>6, <1>7, <1>8, <1>9, PositionSteps

(* The first offset of the unbounded phase is saved after the bounded one.   *)
LEMMA NextOffsets ==
    ASSUME Bounded = 1, RunInv, [Next]_vars
    PROVE  \A p \in Partitions : offsets'[p] # None => BoundedDone'
<1> SUFFICES ASSUME NEW p \in Partitions, offsets'[p] # None PROVE BoundedDone'
  OBVIOUS
<1>1. CASE BoundedDone
  BY <1>1, SentStays
<1>2. CASE ~ BoundedDone
  <2>1. phase = 0 /\ offsets[p] = None
    BY <1>2, Nums DEF RunInv, EndIsReal, Types, LoopOK
  <2>2. ~ \E q \in Partitions : SeedOffset(q)
    BY <2>1 DEF SeedOffset, RunInv, HandOver
  <2>3. offsets' = offsets
    BY <2>1, <2>2, StoreSteps DEF RecoverState, SaveState, InnerFinalizer, Unbounded
  <2> QED
    BY <2>1, <2>3
<1> QED
  BY <1>1, <1>2

(* Whatever says that the bounded phase is over, it is.                      *)
LEMMA NextEndIsReal ==
    ASSUME Bounded = 1, RunInv, [Next]_vars PROVE EndIsReal'
<1>0. /\ phase \in 0 .. 1 /\ (Unbounded(phase) <=> phase > 0)
      /\ saved \in -1 .. 1 /\ loaded \in Int
  BY OnePhase, Nums DEF RunInv, Types, LoopOK, StoreOK
<1>1. BoundedDone => BoundedDone'
  BY SentStays
<1>2. \A p \in Partitions : offsets'[p] # None => BoundedDone'
  BY NextOffsets
<1> DEFINE Rest ==
      /\ inner = "run" => pc = "stream"
      /\ pc = "stream" /\ inner = "ended" /\ ~ shutdown /\ phase = 0 => BoundedDone
      /\ pc = "advance" => BoundedDone
      /\ phase > 0 => BoundedDone
<1>3. Rest
  BY DEF RunInv, EndIsReal
<1>4. CASE LoadState
  <2>1. pc' = "open" /\ phase' = saved /\ inner' = inner /\ pc = "load"
    BY <1>4 DEF LoadState, innerVars
  <2>2. saved > 0 => BoundedDone
    BY <1>0, OnePhase DEF RunInv, PhasesAreRun, BoundedDone, None
  <2> QED
    BY <1>1, <1>2, <1>3, <2>1, <2>2 DEF EndIsReal
<1>5. ASSUME NEW up \in BOOLEAN, RecoverState(up) PROVE EndIsReal'
  <2>1. pc' = "open" /\ phase' = Recovered(up) /\ inner' = inner /\ pc = "load"
    BY <1>5 DEF RecoverState, innerVars
  <2>2. Recovered(up) > 0 => offsets[Probed] # None
    BY DEF Recovered, AllOffsets
  <2>3. Recovered(up) > 0 => BoundedDone
    BY <2>2, HybridAssumption DEF RunInv, EndIsReal
  <2> QED
    BY <1>1, <1>2, <1>3, <2>1, <2>3 DEF EndIsReal
<1>6. CASE AdvanceToNextPhase
  <2>1. pc = "advance" /\ inner' = "off" /\ pc' \in {"seed", "save"}
    BY <1>6 DEF AdvanceToNextPhase, AfterAdvance
  <2> QED
    BY <1>1, <1>2, <1>3, <2>1 DEF EndIsReal
<1>7. CASE StreamEnds
  <2>1. /\ pc = "stream" /\ inner = "ended" /\ inner' = inner /\ phase' = phase
        /\ pc' = IF Unbounded(phase) \/ shutdown THEN "terminal" ELSE "advance"
    BY <1>7 DEF StreamEnds, innerVars, loopVars
  <2> QED
    BY <1>0, <1>1, <1>2, <1>3, <2>1 DEF EndIsReal
<1>8. CASE OpenStream
  <2>1. pc' = "stream" /\ inner' = "run" /\ phase' = phase
    BY <1>8 DEF OpenStream, loopVars
  <2> QED
    BY <1>1, <1>2, <1>3, <2>1 DEF EndIsReal
<1>9. CASE InnerEnds
  <2>1. /\ inner = "run" /\ inner' = "ended" /\ pc' = pc /\ phase' = phase /\ shutdown' = shutdown
        /\ shutdown \/ (~ Unbounded(phase) /\ pos[phase] = PhaseRows)
    BY <1>9 DEF InnerEnds, loopVars
  <2>2. ~ shutdown => BoundedDone
    BY <1>0, <2>1, SentAll DEF RunInv, PositionsAreSent
  <2> QED
    BY <1>1, <1>2, <1>3, <2>1, <2>2 DEF EndIsReal
<1>10. CASE StreamFails
  <2>1. pc' = "final" /\ inner' = "ended" /\ phase' = phase
    BY <1>10 DEF StreamFails, loopVars
  <2> QED
    BY <1>1, <1>2, <1>3, <2>1 DEF EndIsReal
<1>11. CASE phase' = 0 /\ inner' = "off" /\ pc' = "down"
  BY <1>2, <1>11 DEF EndIsReal
<1>12. CASE /\ UNCHANGED <<phase, inner>> /\ (shutdown' = shutdown \/ shutdown')
            /\ pc' = pc \/ (pc # "stream" /\ pc' \notin {"stream", "advance"})
  BY <1>1, <1>2, <1>3, <1>12 DEF EndIsReal
<1> QED
  BY <1>4, <1>5, <1>6, <1>7, <1>8, <1>9, <1>10, <1>11, <1>12, PhaseSteps

(* A later phase is saved only when it is the one in memory.                 *)
LEMMA NextPhasesAreRun ==
    ASSUME Bounded = 1, RunInv, [Next]_vars PROVE PhasesAreRun'
<1>0. /\ phase \in 0 .. 1 /\ phase' \in 0 .. 1 /\ saved \in -1 .. 1 /\ saved' \in -1 .. 1
      /\ None = -1
  BY NextTypes, Nums DEF RunInv, Types, LoopOK, StoreOK
<1>1. SUFFICES saved' > 0 => BoundedDone'
  BY <1>0, OnePhase DEF PhasesAreRun, BoundedDone
<1>2. phase' > 0 => BoundedDone'
  BY NextEndIsReal DEF EndIsReal
<1>3. ASSUME NEW up \in BOOLEAN, RecoverState(up) PROVE saved' > 0 => BoundedDone'
  BY <1>2, <1>3 DEF RecoverState
<1>4. CASE SaveState
  BY <1>2, <1>4 DEF SaveState, loopVars
<1>5. CASE saved' = saved
  <2>1. saved > 0 => BoundedDone
    BY <1>0, OnePhase DEF RunInv, PhasesAreRun, BoundedDone
  <2> QED
    BY <1>5, <2>1, SentStays
<1> QED
  BY <1>3, <1>4, <1>5, StoreSteps DEF SeedOffset, InnerFinalizer

(* With one bounded phase, a saved phase never leaves rows behind: whatever  *)
(* crashes, fails or is shut down, the phase moves on only when the scan has *)
(* sent its last row, in this process or in an earlier one.                  *)
THEOREM OnePhaseIsRun == Bounded = 1 /\ Spec => []PhasesAreRun
<1> SUFFICES ASSUME Bounded = 1 PROVE Spec => []PhasesAreRun
  OBVIOUS
<1>1. Init => RunInv
  <2> SUFFICES ASSUME Init PROVE RunInv
    OBVIOUS
  <2>1. Types
    BY InitTypes
  <2>2. cursor # None => BoundedDone
    BY OnePhase DEF Init, BoundedDone
  <2>3. Sent(cursor) /\ Sent(loaded) /\ Sent(pos[0])
    <3>1. cursor \in {-1, PhaseRows} /\ loaded = -1 /\ pos[0] = 0
      BY OnePhase, Nums DEF Init, NoPositions
    <3>2. Sent(-1) /\ Sent(0)
      BY DEF Sent
    <3>3. cursor # -1 => Sent(PhaseRows)
      BY <2>2, SentAll, Nums
    <3> QED
      BY <3>1, <3>2, <3>3
  <2> QED
    BY <2>1, <2>2, <2>3 DEF Init, RunInv, HandOver, PositionsAreSent, EndIsReal, PhasesAreRun
<1>2. RunInv /\ [Next]_vars => RunInv'
  <2> SUFFICES ASSUME RunInv, [Next]_vars PROVE RunInv'
    OBVIOUS
  <2>1. Types' /\ HandOver'
    BY NextTypes, NextHandOver DEF RunInv
  <2> QED
    BY <2>1, NextPositions, NextEndIsReal, NextPhasesAreRun DEF RunInv
<1> QED
  BY <1>1, <1>2, PTL DEF Spec, RunInv
=============================================================================
