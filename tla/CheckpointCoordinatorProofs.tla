--------------------- MODULE CheckpointCoordinatorProofs ---------------------
(***************************************************************************)
(* The safety of the checkpoint coordinator, for every set of sinks and    *)
(* sources, every way the sources feed the sinks and every bound on the    *)
(* epoch numbers.                                                          *)
(***************************************************************************)
EXTENDS CheckpointCoordinator, TLAPS

TypeInv == TypeOK /\ HandsFull /\ NumbersLeft

USE DEF NoEpoch

(* The head of the ack queue is an ack while the subscriber works on it.   *)
LEMMA HeadIsAck ==
    ASSUME TypeInv, ackq # <<>>
    PROVE  /\ HeadEpoch \in Epochs /\ HeadSink \in Sinks
           /\ Tail(ackq) \in Seq(Epochs \X Sinks)
  BY DEF TypeInv, TypeOK, HeadEpoch, HeadSink

(* An ack sent by a sink is queued behind the others.                      *)
LEMMA AppendAck ==
    ASSUME NEW q \in Seq(Epochs \X Sinks), NEW e \in Epochs, NEW s \in Sinks
    PROVE  /\ Append(q, <<e, s>>) \in Seq(Epochs \X Sinks)
           /\ Append(q, <<e, s>>) # <<>>
<1>1. <<e, s>> \in Epochs \X Sinks
  OBVIOUS
<1>2. ASSUME NEW T, NEW r \in Seq(T), NEW x \in T
      PROVE  Append(r, x) \in Seq(T) /\ Append(r, x) # <<>>
  OBVIOUS
<1> QED
  BY <1>1, <1>2

(* A coordinator that was just started has the types of its variables.      *)
LEMMA InitType == Init => TypeInv
<1>1. Init => TypeOK
  <2> SUFFICES ASSUME Init PROVE TypeOK
    OBVIOUS
  <2>1. /\ nextEpoch \in 1 .. MaxEpoch + 1
        /\ ackq \in Seq(Epochs \X Sinks)
    BY MaxEpochAssumption DEF Init
  <2>2. /\ status \in [Epochs -> {"Absent", "Started", "InProgress", "Finalized"}]
        /\ acked \in [Epochs -> SUBSET Sinks]
        /\ aged \in [Epochs -> BOOLEAN]
        /\ finalizersSent \in [Epochs -> Nat]
    BY DEF Init
  <2>3. /\ sinkSnap \in [Sinks -> SUBSET Sinks]
        /\ sinkSend \in [Sinks -> SUBSET Epochs]
        /\ flushed \in [Sinks -> SUBSET Epochs]
        /\ inbox \in [Sources -> SUBSET Epochs]
        /\ emitted \in [Sources -> SUBSET Epochs]
    BY DEF Init
  <2> QED
    BY <2>1, <2>2, <2>3 DEF Init, TypeOK
<1>2. Init => HandsFull /\ NumbersLeft
  BY MaxEpochAssumption DEF Init, HandsFull, NumbersLeft
<1> QED
  BY <1>1, <1>2 DEF TypeInv

(* The tasks of the coordinator keep the types.                            *)
LEMMA TasksType ==
    ASSUME TypeInv, Subscriber \/ Producer \/ Sweeper
    PROVE  TypeInv'
<1> USE MaxEpochAssumption DEF TypeInv, TypeOK, HandsFull, NumbersLeft, epochVars, mintVars,
        subVars, prodVars, sweepVars, sinkVars, sourceVars
<1>1. CASE AckReceive
  <2>1. /\ ackq' \in Seq(Epochs \X Sinks) /\ subPc' \in {"recv", "lock", "send", "exited"}
        /\ subPc' \in {"lock", "send"} => ackq' # <<>>
    BY <1>1, HeadIsAck DEF AckReceive
  <2>2. UNCHANGED <<running, epochVars, mintVars, expected, finalizersSent,
                    prodVars, sweepVars, sinkVars, sourceVars>>
    BY <1>1 DEF AckReceive
  <2>3. TypeOK' /\ HandsFull'
    BY <2>1, <2>2
  <2>4. NumbersLeft'
    BY <2>2
  <2> QED
    BY <2>3, <2>4
<1>2. CASE AckRecord
  <2>1. HeadEpoch \in Epochs /\ HeadSink \in Sinks /\ Tail(ackq) \in Seq(Epochs \X Sinks)
    BY <1>2, HeadIsAck DEF AckRecord
  <2>2. /\ status' \in [Epochs -> {"Absent", "Started", "InProgress", "Finalized"}]
        /\ acked' \in [Epochs -> SUBSET Sinks]
    BY <1>2, <2>1 DEF AckRecord
  <2> QED
    BY <1>2, <2>1, <2>2 DEF AckRecord
<1>3. CASE AckIgnore
  BY <1>3, HeadIsAck DEF AckIgnore
<1>4. CASE AckFinalizer
  BY <1>4, HeadIsAck DEF AckFinalizer
<1>5. CASE SubscriberExit
  BY <1>5 DEF SubscriberExit
<1>6. CASE ProducerWake
  BY <1>6 DEF ProducerWake
<1>7. CASE ProducerReady
  BY <1>7 DEF ProducerReady
<1>8. CASE ProducerMint
  <2>1. nextEpoch < MaxEpoch /\ nextEpoch \in Epochs
    BY <1>8 DEF ProducerMint, Epochs
  <2>2. /\ status' \in [Epochs -> {"Absent", "Started", "InProgress", "Finalized"}]
        /\ acked' \in [Epochs -> SUBSET Sinks]
        /\ aged' \in [Epochs -> BOOLEAN]
        /\ prodEpoch' \in Epochs
        /\ nextEpoch' \in 1 .. MaxEpoch + 1 /\ nextEpoch' <= MaxEpoch
    BY <1>8, <2>1 DEF ProducerMint
  <2> QED
    BY <1>8, <2>2 DEF ProducerMint
<1>9. CASE ProducerStopsForTerminal
  BY <1>9 DEF ProducerStopsForTerminal
<1>10. CASE ProducerSend
  BY <1>10 DEF ProducerSend
<1>11. CASE ProducerExit
  BY <1>11 DEF ProducerExit
<1>12. CASE SweepRead
  BY <1>12 DEF SweepRead
<1>13. CASE SweepRemove
  <2>1. /\ status' \in [Epochs -> {"Absent", "Started", "InProgress", "Finalized"}]
        /\ acked' \in [Epochs -> SUBSET Sinks]
        /\ aged' \in [Epochs -> BOOLEAN]
    BY <1>13 DEF SweepRemove
  <2>2. /\ sweepPc' \in {"sleep", "sweep", "exited"}
        /\ sweepTerminal' \in Epochs \cup {NoEpoch}
        /\ UNCHANGED <<running, mintVars, expected, finalizersSent, subVars,
                       prodVars, sinkVars, sourceVars>>
    BY <1>13 DEF SweepRemove
  <2>3. TypeOK' /\ HandsFull'
    BY <2>1, <2>2
  <2>4. NumbersLeft'
    BY <2>2
  <2> QED
    BY <2>3, <2>4
<1>14. CASE SweepExit
  BY <1>14 DEF SweepExit
<1> QED
  BY <1>1, <1>2, <1>3, <1>4, <1>5, <1>6, <1>7, <1>8, <1>9, <1>10, <1>11, <1>12,
     <1>13, <1>14 DEF Subscriber, Producer, Sweeper

(* Time, the control calls, the sinks and the sources keep the types.      *)
LEMMA CallsType ==
    ASSUME TypeInv,
           \/ \E e \in Epochs : Age(e)
           \/ \E s \in Sinks : \/ SinkCompleted(s) \/ SinkFail(s)
                               \/ \E e \in Epochs : SinkAck(s, e)
           \/ \E c \in Sources : \/ SourceDone(c) \/ SourceSubscribe(c) \/ SourceEmit(c)
                                 \/ SourceEnd(c) \/ AwaitTimeout(c)
    PROVE  TypeInv'
<1> USE MaxEpochAssumption DEF TypeInv, TypeOK, HandsFull, NumbersLeft, epochVars, mintVars,
        subVars, prodVars, sweepVars, sinkVars, sourceVars
<1>1. ASSUME NEW e \in Epochs, Age(e) PROVE TypeInv'
  BY <1>1 DEF Age
<1>2. ASSUME NEW s \in Sinks, CompleteRemove(s) PROVE TypeInv'
  BY <1>2 DEF CompleteRemove
<1>3. ASSUME NEW s \in Sinks, CompleteSweep(s) PROVE TypeInv'
  <2>1. /\ status' \in [Epochs -> {"Absent", "Started", "InProgress", "Finalized"}]
        /\ acked' \in [Epochs -> SUBSET Sinks]
        /\ sinkSend' \in [Sinks -> SUBSET Epochs]
        /\ sinkSnap' \in [Sinks -> SUBSET Sinks]
    BY <1>3 DEF CompleteSweep, Ready
  <2> QED
    BY <1>3, <2>1 DEF CompleteSweep
<1>4. ASSUME NEW s \in Sinks, CompleteFinalizer(s) PROVE TypeInv'
  BY <1>4 DEF CompleteFinalizer
<1>5. ASSUME NEW s \in Sinks, SinkFail(s) PROVE TypeInv'
  BY <1>5 DEF SinkFail
<1>6. ASSUME NEW s \in Sinks, NEW e \in Epochs, SinkAck(s, e) PROVE TypeInv'
  <2>1. flushed' \in [Sinks -> SUBSET Epochs]
    BY <1>6 DEF SinkAck
  <2>2. ackq' \in Seq(Epochs \X Sinks) /\ ackq' # <<>>
    BY <1>6, AppendAck DEF SinkAck
  <2> QED
    BY <1>6, <2>1, <2>2 DEF SinkAck
<1>7. ASSUME NEW c \in Sources, BeginFlag(c) PROVE TypeInv'
  BY <1>7 DEF BeginFlag
<1>8. ASSUME NEW c \in Sources, BeginMint(c) PROVE TypeInv'
  <2>1. terminalEpoch' \in Epochs /\ terminalStarted
    BY <1>8 DEF BeginMint, Epochs
  <2>2. CASE terminalEpoch = NoEpoch
    <3>1. nextEpoch \in Epochs
      BY <2>2 DEF Epochs
    <3>2. /\ status' = [status EXCEPT ![nextEpoch] = "Started"]
          /\ nextEpoch' = nextEpoch + 1
          /\ terminalEpoch' = nextEpoch
      BY <1>8, <2>2 DEF BeginMint
    <3>3. emitted' \in [Sources -> SUBSET Epochs]
      BY <1>8, <2>2, <3>1 DEF BeginMint
    <3>4. nextEpoch' \in 1 .. MaxEpoch + 1 /\ terminalEpoch' \in Epochs
      BY <3>1, <3>2, <2>2
    <3> QED
      BY <1>8, <2>1, <3>1, <3>2, <3>3, <3>4 DEF BeginMint
  <2>3. CASE terminalEpoch # NoEpoch
    <3>1. /\ UNCHANGED <<status, nextEpoch, terminalEpoch>>
          /\ terminalEpoch \in Epochs
      BY <1>8, <2>3 DEF BeginMint
    <3>2. emitted' \in [Sources -> SUBSET Epochs]
      BY <1>8, <2>3, <3>1 DEF BeginMint
    <3> QED
      BY <1>8, <2>1, <2>3, <3>1, <3>2 DEF BeginMint
  <2> QED
    BY <2>2, <2>3
<1>9. ASSUME NEW c \in Sources, AwaitFinalized(c) PROVE TypeInv'
  BY <1>9 DEF AwaitFinalized, TerminalFinalized
<1>11. ASSUME NEW c \in Sources, AwaitTimeout(c) PROVE TypeInv'
  BY <1>11 DEF AwaitTimeout
<1>10. ASSUME NEW c \in Sources, SourceSubscribe(c) PROVE TypeInv'
  BY <1>10 DEF SourceSubscribe
<1>12. ASSUME NEW c \in Sources, SourceEmit(c) PROVE TypeInv'
  <2>1. /\ emitted' \in [Sources -> SUBSET Epochs]
        /\ inbox' \in [Sources -> SUBSET Epochs]
    BY <1>12 DEF SourceEmit
  <2> QED
    BY <1>12, <2>1 DEF SourceEmit
<1>13. ASSUME NEW c \in Sources, SourceEnd(c) PROVE TypeInv'
  BY <1>13 DEF SourceEnd
<1> QED
  BY <1>1, <1>2, <1>3, <1>4, <1>5, <1>6, <1>7, <1>8, <1>9, <1>10,
     <1>11, <1>12, <1>13 DEF SinkCompleted, SourceDone

(* Every step of the pipeline keeps the types.                              *)
LEMMA NextType == TypeInv /\ [Next]_vars => TypeInv'
<1> SUFFICES ASSUME TypeInv, [Next]_vars PROVE TypeInv'
  OBVIOUS
<1>1. CASE UNCHANGED vars
  BY <1>1 DEF vars, TypeInv, TypeOK, HandsFull, NumbersLeft, epochVars, mintVars,
     subVars, prodVars, sweepVars, sinkVars, sourceVars
<1>2. CASE Stop
  <2>1. /\ running' \in BOOLEAN
        /\ UNCHANGED <<epochVars, mintVars, expected, finalizersSent, subVars,
                       prodVars, sweepVars, sinkVars, sourceVars>>
    BY <1>2, Zenon DEF Stop
  <2> QED
    BY <2>1 DEF TypeInv, TypeOK, HandsFull, NumbersLeft, epochVars, mintVars,
       subVars, prodVars, sweepVars, sinkVars, sourceVars
<1> QED
  BY <1>1, <1>2, TasksType, CallsType DEF Next, Stopped

(* The coordinator's state is always well typed: in particular the terminal *)
(* epoch always has a number left, an epoch is announced only after it was  *)
(* minted, and the subscriber never works without a message in hand.        *)
THEOREM TypeCorrect == Spec => []TypeOK
<1>1. TypeInv => TypeOK
  BY DEF TypeInv
<1> QED
  BY <1>1, InitType, NextType, PTL DEF Spec

-----------------------------------------------------------------------------
(* What the first invariants rest on: acks are true, dropped sinks are gone. *)

(* Taking the first ack off the queue keeps the others.                     *)
LEMMA TailAcks ==
    ASSUME TypeInv, AcksAreTrue, ackq # <<>>
    PROVE  \A i \in 1 .. Len(Tail(ackq)) : Tail(ackq)[i][1] \in flushed[Tail(ackq)[i][2]]
<1>1. \A i \in 1 .. Len(Tail(ackq)) : Tail(ackq)[i] = ackq[i + 1] /\ i + 1 \in 1 .. Len(ackq)
  BY DEF TypeInv, TypeOK
<1> QED
  BY <1>1 DEF AcksAreTrue

(* The ack the subscriber works on is of an epoch its sink has flushed.     *)
LEMMA HeadIsTrue ==
    ASSUME TypeInv, AcksAreTrue, ackq # <<>>
    PROVE  HeadEpoch \in flushed[HeadSink]
<1>1. 1 \in 1 .. Len(ackq) /\ Head(ackq) = ackq[1]
  BY DEF TypeInv, TypeOK
<1> QED
  BY <1>1 DEF AcksAreTrue, HeadEpoch, HeadSink

(* No step queues or records an ack for what its sink has not flushed.      *)
LEMMA NextAcks == TypeInv /\ AcksAreTrue /\ [Next]_vars => AcksAreTrue'
<1> SUFFICES ASSUME TypeInv, AcksAreTrue, [Next]_vars PROVE AcksAreTrue'
  OBVIOUS
<1> USE DEF AcksAreTrue
<1>1. CASE UNCHANGED <<ackq, flushed, acked>>
  BY <1>1
<1>2. CASE AckReceive
  BY <1>2, TailAcks DEF AckReceive, epochVars, sinkVars
<1>3. CASE AckIgnore \/ AckFinalizer
  BY <1>3, TailAcks DEF AckIgnore, AckFinalizer, TypeInv, HandsFull, epochVars, sinkVars
<1>4. CASE AckRecord
  <2>1. ackq # <<>> /\ HeadEpoch \in Epochs
    BY <1>4, HeadIsAck DEF AckRecord, TypeInv, HandsFull
  <2>2. \A e \in Epochs : \A s \in acked'[e] : e \in flushed[s]
    BY <1>4, <2>1, HeadIsTrue DEF AckRecord, TypeInv, TypeOK
  <2>3. flushed' = flushed /\ (ackq' = ackq \/ ackq' = Tail(ackq))
    BY <1>4 DEF AckRecord, sinkVars
  <2> QED
    BY <2>1, <2>2, <2>3, TailAcks
<1>5. CASE ProducerMint
  BY <1>5 DEF ProducerMint, subVars, sinkVars
<1>6. CASE SweepRemove
  BY <1>6 DEF SweepRemove, subVars, sinkVars
<1>7. ASSUME NEW s \in Sinks, CompleteSweep(s) PROVE AcksAreTrue'
  BY <1>7 DEF CompleteSweep, subVars
<1>8. ASSUME NEW s \in Sinks, NEW e \in Epochs, SinkAck(s, e) PROVE AcksAreTrue'
  <2>1. /\ acked' = acked
        /\ flushed' = [flushed EXCEPT ![s] = @ \cup {e}]
        /\ ackq' = Append(ackq, <<e, s>>)
    BY <1>8 DEF SinkAck, epochVars
  <2>2. \A t \in Sinks : flushed[t] \subseteq flushed'[t]
    BY <2>1 DEF TypeInv, TypeOK
  <2>3. ASSUME NEW i \in 1 .. Len(ackq') PROVE ackq'[i][1] \in flushed'[ackq'[i][2]]
    <3>1. CASE i \in 1 .. Len(ackq)
      <4>1. ackq'[i] = ackq[i] /\ ackq[i] \in Epochs \X Sinks
        BY <2>1, <3>1 DEF TypeInv, TypeOK
      <4> QED
        BY <4>1, <3>1, <2>2
    <3>2. CASE i = Len(ackq) + 1
      BY <2>1, <3>2 DEF TypeInv, TypeOK
    <3> QED
      BY <2>1, <3>1, <3>2 DEF TypeInv, TypeOK
  <2>4. \A f \in Epochs : \A t \in acked'[f] : f \in flushed'[t]
    BY <2>1, <2>2 DEF TypeInv, TypeOK
  <2> QED
    BY <2>3, <2>4
<1> QED
  BY <1>1, <1>2, <1>3, <1>4, <1>5, <1>6, <1>7, <1>8
     DEF Next, vars, epochVars, mintVars, subVars, prodVars, sweepVars, sinkVars, sourceVars,
         Subscriber, SubscriberExit, Producer, ProducerWake, ProducerReady,
         ProducerStopsForTerminal, ProducerSend, ProducerExit, Sweeper, SweepRead,
         SweepExit, Age, SinkCompleted, CompleteRemove, CompleteFinalizer, SinkFail,
         SourceDone, BeginFlag, BeginMint, AwaitFinalized, AwaitTimeout, SourceSubscribe,
         SourceEmit, SourceEnd, Stop, Stopped

(* A sink is dropped from expected_sinks only by its own completion.        *)
LEMMA NextDropped == TypeInv /\ DroppedIsGone /\ [Next]_vars => DroppedIsGone'
<1> SUFFICES ASSUME TypeInv, DroppedIsGone, [Next]_vars PROVE DroppedIsGone'
  OBVIOUS
<1> USE DEF DroppedIsGone, Gone, TypeInv, TypeOK
<1>1. CASE UNCHANGED <<expected, sinkPc, sinkSnap>>
  BY <1>1
<1>2. ASSUME NEW s \in Sinks, CompleteRemove(s) PROVE DroppedIsGone'
  BY <1>2 DEF CompleteRemove
<1>3. ASSUME NEW s \in Sinks, CompleteSweep(s) PROVE DroppedIsGone'
  BY <1>3 DEF CompleteSweep
<1>4. ASSUME NEW s \in Sinks, CompleteFinalizer(s) PROVE DroppedIsGone'
  BY <1>4 DEF CompleteFinalizer
<1>5. ASSUME NEW s \in Sinks, SinkFail(s) PROVE DroppedIsGone'
  BY <1>5 DEF SinkFail
<1> QED
  BY <1>1, <1>2, <1>3, <1>4, <1>5
     DEF Next, vars, epochVars, mintVars, subVars, prodVars, sweepVars, sinkVars, sourceVars,
         Subscriber, AckReceive, AckRecord, AckIgnore, AckFinalizer, SubscriberExit,
         Producer, ProducerWake, ProducerReady, ProducerMint, ProducerStopsForTerminal,
         ProducerSend, ProducerExit, Sweeper, SweepRead, SweepRemove, SweepExit, Age,
         SinkCompleted, SinkAck, SourceDone, BeginFlag, BeginMint, AwaitFinalized,
         AwaitTimeout, SourceSubscribe, SourceEmit, SourceEnd, Stop, Stopped

-----------------------------------------------------------------------------
(* Finalized epochs are durable.                                            *)

(* No step makes an epoch less durable in a sink.                           *)
LEMMA DurableStays ==
    ASSUME TypeInv, [Next]_vars, NEW s \in Sinks, NEW e \in Epochs, Durable(s, e)
    PROVE  Durable(s, e)'
<1> USE DEF Durable, TypeInv, TypeOK
<1>1. CASE UNCHANGED <<flushed, sinkPc>>
  BY <1>1
<1>2. ASSUME NEW t \in Sinks, CompleteRemove(t) PROVE Durable(s, e)'
  BY <1>2 DEF CompleteRemove
<1>3. ASSUME NEW t \in Sinks, CompleteSweep(t) PROVE Durable(s, e)'
  BY <1>3 DEF CompleteSweep
<1>4. ASSUME NEW t \in Sinks, CompleteFinalizer(t) PROVE Durable(s, e)'
  BY <1>4 DEF CompleteFinalizer
<1>5. ASSUME NEW t \in Sinks, SinkFail(t) PROVE Durable(s, e)'
  BY <1>5 DEF SinkFail
<1>6. ASSUME NEW t \in Sinks, NEW f \in Epochs, SinkAck(t, f) PROVE Durable(s, e)'
  BY <1>6 DEF SinkAck
<1> QED
  BY <1>1, <1>2, <1>3, <1>4, <1>5, <1>6
     DEF Next, vars, epochVars, mintVars, subVars, prodVars, sweepVars, sinkVars, sourceVars,
         Subscriber, AckReceive, AckRecord, AckIgnore, AckFinalizer, SubscriberExit,
         Producer, ProducerWake, ProducerReady, ProducerMint, ProducerStopsForTerminal,
         ProducerSend, ProducerExit, Sweeper, SweepRead, SweepRemove, SweepExit, Age,
         SinkCompleted, SourceDone, BeginFlag, BeginMint, AwaitFinalized,
         AwaitTimeout, SourceSubscribe, SourceEmit, SourceEnd, Stop, Stopped

(* An epoch every sink of a current or copied expected set has acked is     *)
(* durable everywhere: the sinks missing from the set have completed.       *)
LEMMA AckedIsDurable ==
    ASSUME TypeInv, AcksAreTrue, DroppedIsGone
    PROVE  /\ \A e \in Epochs : expected \subseteq acked[e] =>
                 \A s \in Sinks : Durable(s, e)
           /\ \A e \in Epochs, t \in Sinks :
                 sinkPc[t] = "sweep" /\ sinkSnap[t] \subseteq acked[e] =>
                   \A s \in Sinks : Durable(s, e)
  BY DEF TypeInv, TypeOK, AcksAreTrue, DroppedIsGone, Durable, Gone

(* A step that finalizes an epoch, or owes its Finalizer, finds it durable. *)
LEMMA NextDurable ==
    ASSUME TypeInv, AcksAreTrue, DroppedIsGone, OwedIsDurable, FinalizedIsDurable, [Next]_vars
    PROVE  OwedIsDurable' /\ FinalizedIsDurable'
<1> DEFINE All(e) == \A s \in Sinks : Durable(s, e)
           Claimed(e) == \/ status[e] = "Finalized"
                         \/ finalizersSent[e] > 0
                         \/ SubscriberOwes(e)
                         \/ \E s \in Sinks : e \in sinkSend[s]
<1>1. \A e \in Epochs : All(e) => All(e)'
  BY DurableStays
<1>2. \A e \in Epochs : Claimed(e) => All(e)
  BY DEF OwedIsDurable, FinalizedIsDurable
<1>3. ASSUME NEW e \in Epochs, Claimed(e)' PROVE Claimed(e) \/ All(e)
  <2> USE DEF TypeInv, TypeOK, SubscriberOwes, HeadEpoch, epochVars, mintVars, subVars,
          prodVars, sweepVars, sinkVars, sourceVars
  <2>1. CASE UNCHANGED <<status, finalizersSent, subPc, ackq, sinkSend>>
    BY <1>3, <2>1
  <2>2. CASE AckReceive
    BY <1>3, <2>2 DEF AckReceive
  <2>3. CASE AckRecord
    <3>1. ackq # <<>> /\ HeadEpoch \in Epochs /\ HeadSink \in Sinks
      BY <2>3, HeadIsAck DEF AckRecord, HandsFull
    <3>2. CASE e = HeadEpoch /\ expected \subseteq acked[e] \cup {HeadSink}
      <4>1. e \in flushed[HeadSink]
        BY <3>1, <3>2, HeadIsTrue
      <4> QED
        BY <3>1, <3>2, <4>1 DEF AcksAreTrue, DroppedIsGone, Durable, Gone
    <3>3. CASE ~ (e = HeadEpoch /\ expected \subseteq acked[e] \cup {HeadSink})
      BY <1>3, <2>3, <3>1, <3>3 DEF AckRecord
    <3> QED
      BY <3>2, <3>3
  <2>4. CASE AckIgnore \/ SubscriberExit
    BY <1>3, <2>4 DEF AckIgnore, SubscriberExit
  <2>5. CASE AckFinalizer
    BY <1>3, <2>5 DEF AckFinalizer
  <2>6. CASE ProducerMint
    BY <1>3, <2>6 DEF ProducerMint
  <2>7. CASE SweepRemove
    BY <1>3, <2>7 DEF SweepRemove
  <2>8. ASSUME NEW s \in Sinks, CompleteSweep(s) PROVE Claimed(e) \/ All(e)
    <3>1. CASE e \in Ready(sinkSnap[s])
      <4>1. sinkPc[s] = "sweep" /\ sinkSnap[s] \subseteq acked[e]
        BY <2>8, <3>1 DEF CompleteSweep, Ready
      <4> QED
        BY <4>1, AckedIsDurable
    <3>2. CASE e \notin Ready(sinkSnap[s])
      BY <1>3, <2>8, <3>2 DEF CompleteSweep
    <3> QED
      BY <3>1, <3>2
  <2>9. ASSUME NEW s \in Sinks, CompleteFinalizer(s) PROVE Claimed(e) \/ All(e)
    BY <1>3, <2>9 DEF CompleteFinalizer
  <2>10. ASSUME NEW s \in Sinks, NEW f \in Epochs, SinkAck(s, f) PROVE Claimed(e) \/ All(e)
    <3>1. subPc = "send" => Head(ackq') = Head(ackq)
      BY <2>10 DEF SinkAck, HandsFull
    <3> QED
      BY <1>3, <2>10, <3>1 DEF SinkAck
  <2>11. ASSUME NEW c \in Sources, BeginMint(c) PROVE Claimed(e) \/ All(e)
    BY <1>3, <2>11 DEF BeginMint
  <2> QED
    BY <2>1, <2>2, <2>3, <2>4, <2>5, <2>6, <2>7, <2>8, <2>9, <2>10, <2>11
       DEF Next, vars, Subscriber, Producer, ProducerWake, ProducerReady,
           ProducerStopsForTerminal, ProducerSend, ProducerExit, Sweeper, SweepRead,
           SweepExit, Age, SinkCompleted, CompleteRemove, SinkFail, SourceDone, BeginFlag,
           AwaitFinalized, AwaitTimeout, SourceSubscribe, SourceEmit, SourceEnd, Stop, Stopped
<1>4. \A e \in Epochs : Claimed(e)' => All(e)'
  BY <1>1, <1>2, <1>3
<1>5. ASSUME NEW c \in Sources, sourcePc'[c] = "committed"
      PROVE  \A s \in Sinks : Durable(s, terminalEpoch)'
  <2> USE DEF TypeInv, TypeOK, NumbersLeft, epochVars, mintVars, sourceVars
  <2>1. CASE sourcePc[c] = "committed"
    <3>1. terminalEpoch \in Epochs /\ All(terminalEpoch)
      BY <2>1 DEF FinalizedIsDurable
    <3>2. terminalEpoch' = terminalEpoch
      BY <3>1, <2>1
         DEF Next, vars, Subscriber, AckReceive, AckRecord, AckIgnore, AckFinalizer,
             SubscriberExit, Producer, ProducerWake, ProducerReady, ProducerMint,
             ProducerStopsForTerminal, ProducerSend, ProducerExit, Sweeper, SweepRead,
             SweepRemove, SweepExit, Age, SinkCompleted, CompleteRemove, CompleteSweep,
             CompleteFinalizer, SinkFail, SinkAck, SourceDone, BeginFlag, BeginMint,
             AwaitFinalized, AwaitTimeout, SourceSubscribe, SourceEmit, SourceEnd, Stop, Stopped
    <3> QED
      BY <1>1, <3>1, <3>2
  <2>2. CASE sourcePc[c] # "committed"
    <3>1. \E d \in Sources : AwaitFinalized(d)
      <4>1. sourcePc' # sourcePc
        BY <1>5, <2>2
      <4>2. ~ Subscriber
        BY <4>1 DEF Subscriber, AckReceive, AckRecord, AckIgnore, AckFinalizer, SubscriberExit
      <4>3. ~ Producer
        BY <4>1 DEF Producer, ProducerWake, ProducerReady, ProducerMint,
                    ProducerStopsForTerminal, ProducerSend, ProducerExit
      <4>4. ~ Sweeper /\ ~ Stop /\ ~ Stopped /\ \A e \in Epochs : ~ Age(e)
        BY <4>1 DEF Sweeper, SweepRead, SweepRemove, SweepExit, Age, Stop, Stopped, vars
      <4>5. ASSUME NEW s \in Sinks
            PROVE  ~ SinkCompleted(s) /\ ~ SinkFail(s) /\ \A e \in Epochs : ~ SinkAck(s, e)
        BY <4>1 DEF SinkCompleted, CompleteRemove, CompleteSweep, CompleteFinalizer,
                    SinkFail, SinkAck
      <4>6. ASSUME NEW d \in Sources
            PROVE  /\ ~ BeginFlag(d) /\ ~ BeginMint(d) /\ ~ SourceSubscribe(d)
                   /\ ~ SourceEmit(d) /\ ~ SourceEnd(d) /\ ~ AwaitTimeout(d)
        BY <1>5, <2>2
           DEF BeginFlag, BeginMint, SourceSubscribe, SourceEmit, SourceEnd, AwaitTimeout
      <4>7. Next
        BY <4>1 DEF vars
      <4> QED
        BY <4>2, <4>3, <4>4, <4>5, <4>6, <4>7 DEF Next, SourceDone
    <3>2. /\ terminalEpoch' = terminalEpoch /\ terminalEpoch \in Epochs
          /\ status[terminalEpoch] = "Finalized"
      BY <3>1 DEF AwaitFinalized, TerminalFinalized
    <3> QED
      BY <1>1, <1>2, <3>2
  <2> QED
    BY <2>1, <2>2
<1> QED
  BY <1>4, <1>5 DEF OwedIsDurable, FinalizedIsDurable

DurableInv == /\ TypeInv /\ AcksAreTrue /\ DroppedIsGone
              /\ OwedIsDurable /\ FinalizedIsDurable

(* The coordinator's central promise, for any number of sinks, sources and  *)
(* epochs: what is Finalized, announced by a Finalizer or committed by a    *)
(* source was flushed by every sink that had not drained all its input.     *)
THEOREM Durability == Spec => []FinalizedIsDurable
<1>1. Init => DurableInv
  <2>1. Init => TypeInv
    BY InitType
  <2>2. Init => AcksAreTrue /\ DroppedIsGone /\ OwedIsDurable /\ FinalizedIsDurable
    BY MaxEpochAssumption DEF Init, AcksAreTrue, DroppedIsGone, OwedIsDurable, FinalizedIsDurable,
           SubscriberOwes, Epochs
  <2> QED
    BY <2>1, <2>2 DEF DurableInv
<1>2. DurableInv /\ [Next]_vars => DurableInv'
  BY NextType, NextAcks, NextDropped, NextDurable DEF DurableInv
<1>3. DurableInv => FinalizedIsDurable
  BY DEF DurableInv
<1> QED
  BY <1>1, <1>2, <1>3, PTL DEF Spec

-----------------------------------------------------------------------------
(* One Finalizer per epoch.                                                 *)

(* The step that finalizes an epoch is the only one to take on its          *)
(* broadcast, and an epoch number comes into use with nothing owed for it.  *)
LEMMA NextSingle ==
    ASSUME TypeInv, UnusedIsBlank, SingleFinalizer, [Next]_vars
    PROVE  UnusedIsBlank' /\ SingleFinalizer'
<1> USE DEF TypeInv, TypeOK, UnusedIsBlank, SingleFinalizer, SubscriberOwes, HeadEpoch,
        Pending, epochVars, mintVars, subVars, prodVars, sweepVars, sinkVars, sourceVars
<1>1. CASE UNCHANGED <<status, acked, aged, nextEpoch, finalizersSent, subPc, ackq, sinkSend>>
  BY <1>1
<1>2. CASE AckReceive
  BY <1>2 DEF AckReceive
<1>3. CASE AckRecord
  <2>1. ackq # <<>> /\ HeadEpoch \in Epochs /\ HeadSink \in Sinks
    BY <1>3, HeadIsAck DEF AckRecord, HandsFull
  <2>2. UnusedIsBlank'
    BY <1>3, <2>1 DEF AckRecord
  <2>3. SingleFinalizer'
    BY <1>3, <2>1 DEF AckRecord
  <2> QED
    BY <2>2, <2>3
<1>4. CASE AckIgnore \/ SubscriberExit
  BY <1>4 DEF AckIgnore, SubscriberExit
<1>5. CASE AckFinalizer
  <2>1. ackq # <<>> /\ HeadEpoch \in Epochs /\ HeadSink \in Sinks
    BY <1>5, HeadIsAck DEF AckFinalizer, HandsFull
  <2> QED
    BY <1>5, <2>1 DEF AckFinalizer
<1>6. CASE ProducerMint
  <2>1. nextEpoch \in Epochs
    BY <1>6 DEF ProducerMint, NumbersLeft, Epochs
  <2> QED
    BY <1>6, <2>1 DEF ProducerMint, Epochs
<1>7. ASSUME NEW e \in Epochs, Age(e) PROVE UnusedIsBlank' /\ SingleFinalizer'
  BY <1>7 DEF Age
<1>8. CASE SweepRemove
  BY <1>8 DEF SweepRemove
<1>9. ASSUME NEW s \in Sinks, CompleteSweep(s) PROVE UnusedIsBlank' /\ SingleFinalizer'
  <2>1. UnusedIsBlank'
    BY <1>9 DEF CompleteSweep, Ready
  <2>2. SingleFinalizer'
    BY <1>9 DEF CompleteSweep, Ready
  <2> QED
    BY <2>1, <2>2
<1>10. ASSUME NEW s \in Sinks, CompleteFinalizer(s) PROVE UnusedIsBlank' /\ SingleFinalizer'
  <2>1. UnusedIsBlank'
    BY <1>10 DEF CompleteFinalizer
  <2>2. SingleFinalizer'
    BY <1>10 DEF CompleteFinalizer
  <2> QED
    BY <2>1, <2>2
<1>11. ASSUME NEW s \in Sinks, NEW f \in Epochs, SinkAck(s, f)
       PROVE  UnusedIsBlank' /\ SingleFinalizer'
  <2>1. subPc = "send" => Head(ackq') = Head(ackq)
    BY <1>11 DEF SinkAck, HandsFull
  <2> QED
    BY <1>11, <2>1 DEF SinkAck
<1>12. ASSUME NEW c \in Sources, BeginMint(c) PROVE UnusedIsBlank' /\ SingleFinalizer'
  <2>1. CASE terminalEpoch = NoEpoch
    <3>1. nextEpoch \in Epochs
      BY <1>12, <2>1 DEF BeginMint, NumbersLeft, Epochs
    <3>2. /\ status' = [status EXCEPT ![nextEpoch] = "Started"]
          /\ nextEpoch' = nextEpoch + 1
          /\ UNCHANGED <<acked, aged, finalizersSent, subPc, ackq, sinkSend>>
      BY <1>12, <2>1 DEF BeginMint
    <3>3. \A e \in Epochs : e \in Nat /\ (e >= nextEpoch' => e >= nextEpoch /\ e # nextEpoch)
      BY <3>2 DEF Epochs
    <3> QED
      BY <3>1, <3>2, <3>3
  <2>2. CASE terminalEpoch # NoEpoch
    BY <1>12, <2>2 DEF BeginMint
  <2> QED
    BY <2>1, <2>2
<1> QED
  BY <1>1, <1>2, <1>3, <1>4, <1>5, <1>6, <1>7, <1>8, <1>9, <1>10, <1>11, <1>12
     DEF Next, vars, Subscriber, Producer, ProducerWake, ProducerReady,
         ProducerStopsForTerminal, ProducerSend, ProducerExit, Sweeper, SweepRead,
         SweepExit, SinkCompleted, CompleteRemove, SinkFail, SourceDone, BeginFlag,
         AwaitFinalized, AwaitTimeout, SourceSubscribe, SourceEmit, SourceEnd, Stop, Stopped

SingleInv == TypeInv /\ UnusedIsBlank /\ SingleFinalizer

(* The invariant holds of a coordinator that has minted nothing.            *)
LEMMA InitSingle == Init => SingleInv
<1>1. Init => TypeInv
  BY InitType
<1>2. Init => UnusedIsBlank /\ SingleFinalizer
  BY DEF Init, UnusedIsBlank, SingleFinalizer, SubscriberOwes, Pending
<1> QED
  BY <1>1, <1>2 DEF SingleInv

(* No epoch's Finalizer is broadcast twice, and at most one task ever has   *)
(* it to broadcast.                                                         *)
THEOREM OneFinalizer == Spec => []SingleFinalizer
<1>1. Init => SingleInv
  BY InitSingle
<1>2. SingleInv /\ [Next]_vars => SingleInv'
  BY NextType, NextSingle DEF SingleInv
<1>3. SingleInv => SingleFinalizer
  BY DEF SingleInv
<1> QED
  BY <1>1, <1>2, <1>3, PTL DEF Spec

-----------------------------------------------------------------------------
(* The terminal epoch is the last one and is never dropped.                 *)

(* The timer producer stops minting at the flag, the sweep never finds an   *)
(* aged terminal epoch that it does not know, and later callers reuse it.   *)
LEMMA NextTerminal ==
    ASSUME TypeInv, UnusedIsBlank, TerminalIsYoung, TerminalIsLast, [Next]_vars
    PROVE  TerminalIsYoung' /\ TerminalIsLast'
<1> USE DEF TypeInv, TypeOK, NumbersLeft, TerminalIsYoung, TerminalIsLast, Pending,
        epochVars, mintVars, subVars, prodVars, sweepVars, sinkVars, sourceVars
<1> DEFINE Kept == UNCHANGED <<nextEpoch, terminalStarted, terminalEpoch, sweepPc, sweepTerminal>>
<1>1. CASE Kept /\ UNCHANGED <<status, aged>>
  BY <1>1
<1>2. CASE AckRecord
  BY <1>2, HeadIsAck DEF AckRecord, HandsFull
<1>3. CASE ProducerMint
  BY <1>3 DEF ProducerMint
<1>4. ASSUME NEW e \in Epochs, Age(e) PROVE TerminalIsYoung' /\ TerminalIsLast'
  BY <1>4 DEF Age
<1>5. CASE SweepRead \/ SweepExit
  BY <1>5 DEF SweepRead, SweepExit
<1>6. CASE SweepRemove
  BY <1>6 DEF SweepRemove, TimedOut
<1>7. ASSUME NEW s \in Sinks, CompleteSweep(s) PROVE TerminalIsYoung' /\ TerminalIsLast'
  BY <1>7 DEF CompleteSweep, Ready
<1>8. ASSUME NEW c \in Sources, BeginFlag(c) PROVE TerminalIsYoung' /\ TerminalIsLast'
  BY <1>8 DEF BeginFlag
<1>9. ASSUME NEW c \in Sources, BeginMint(c) PROVE TerminalIsYoung' /\ TerminalIsLast'
  <2>1. CASE terminalEpoch = NoEpoch
    <3>1. nextEpoch \in Epochs /\ ~ aged[nextEpoch]
      BY <1>9, <2>1 DEF BeginMint, UnusedIsBlank, Epochs
    <3>2. /\ status' = [status EXCEPT ![nextEpoch] = "Started"]
          /\ terminalEpoch' = nextEpoch /\ nextEpoch' = nextEpoch + 1
          /\ terminalStarted /\ UNCHANGED <<aged, terminalStarted, sweepPc, sweepTerminal>>
      BY <1>9, <2>1 DEF BeginMint
    <3> QED
      BY <3>1, <3>2
  <2>2. CASE terminalEpoch # NoEpoch
    BY <1>9, <2>2 DEF BeginMint
  <2> QED
    BY <2>1, <2>2
<1> QED
  BY <1>1, <1>2, <1>3, <1>4, <1>5, <1>6, <1>7, <1>8, <1>9
     DEF Next, vars, Subscriber, AckReceive, AckIgnore, AckFinalizer, SubscriberExit,
         Producer, ProducerWake, ProducerReady, ProducerStopsForTerminal, ProducerSend,
         ProducerExit, Sweeper, SinkCompleted, CompleteRemove, CompleteFinalizer, SinkAck,
         SinkFail, SourceDone, AwaitFinalized, AwaitTimeout, SourceSubscribe, SourceEmit,
         SourceEnd, Stop, Stopped

TerminalInv == SingleInv /\ TerminalIsYoung /\ TerminalIsLast

(* Whatever the timer producer, the sweep and the other sources do, the     *)
(* terminal epoch stays in the map and no number is minted after it.        *)
THEOREM TerminalLast == Spec => []TerminalIsLast
<1>1. Init => TerminalInv
  BY InitSingle DEF Init, TerminalInv, TerminalIsYoung, TerminalIsLast
<1>2. TerminalInv /\ [Next]_vars => TerminalInv'
  BY NextType, NextSingle, NextTerminal DEF TerminalInv, SingleInv
<1>3. TerminalInv => TerminalIsLast
  BY DEF TerminalInv
<1> QED
  BY <1>1, <1>2, <1>3, PTL DEF Spec

-----------------------------------------------------------------------------
(* No finalization is lost.                                                 *)

(* A sink leaves expected_sinks only after the streams that feed it ended.  *)
LEMMA NextOutlive == TypeInv /\ SinksOutlive /\ [Next]_vars => SinksOutlive'
<1> SUFFICES ASSUME TypeInv, SinksOutlive, [Next]_vars PROVE SinksOutlive'
  OBVIOUS
<1> USE FeedsAssumption DEF SinksOutlive, TypeInv, TypeOK, Holding
<1>1. CASE UNCHANGED <<expected, sinkPc, sourcePc>>
  BY <1>1
<1>2. ASSUME NEW s \in Sinks, CompleteRemove(s) PROVE SinksOutlive'
  BY <1>2 DEF CompleteRemove, StreamEnded, sourceVars
<1>3. ASSUME NEW s \in Sinks, CompleteSweep(s) \/ CompleteFinalizer(s) \/ SinkFail(s)
      PROVE  SinksOutlive'
  <2>1. /\ UNCHANGED <<expected, sourcePc>>
        /\ \A t \in Sinks : /\ sinkPc'[t] \in {"live", "failed"} => sinkPc[t] \in {"live", "failed"}
                            /\ sinkPc[t] \in {"live", "failed"} => sinkPc'[t] \in {"live", "failed"}
    <3>1. CASE CompleteSweep(s)
      BY <3>1 DEF CompleteSweep, sourceVars
    <3>2. CASE CompleteFinalizer(s)
      BY <3>2 DEF CompleteFinalizer, sourceVars
    <3>3. CASE SinkFail(s)
      BY <3>3 DEF SinkFail
    <3> QED
      BY <1>3, <3>1, <3>2, <3>3
  <2> QED
    BY <2>1
<1>4. ASSUME NEW c \in Sources,
             \/ BeginFlag(c) \/ BeginMint(c) \/ AwaitFinalized(c) \/ AwaitTimeout(c)
             \/ SourceSubscribe(c) \/ SourceEnd(c)
      PROVE  SinksOutlive'
  <2>1. UNCHANGED <<expected, sinkPc>>
    BY <1>4 DEF BeginFlag, BeginMint, AwaitFinalized, AwaitTimeout, SourceSubscribe,
            SourceEnd, sinkVars
  <2>2. \A d \in Sources : sourcePc'[d] \in Holding => sourcePc[d] \in Holding
    BY <1>4 DEF BeginFlag, BeginMint, AwaitFinalized, AwaitTimeout, SourceSubscribe, SourceEnd
  <2> QED
    BY <2>1, <2>2
<1> QED
  BY <1>1, <1>2, <1>3, <1>4
     DEF Next, vars, epochVars, mintVars, subVars, prodVars, sweepVars, sinkVars, sourceVars,
         Subscriber, AckReceive, AckRecord, AckIgnore, AckFinalizer, SubscriberExit,
         Producer, ProducerWake, ProducerReady, ProducerMint, ProducerStopsForTerminal,
         ProducerSend, ProducerExit, Sweeper, SweepRead, SweepRemove, SweepExit, Age,
         SinkCompleted, SinkAck, SourceDone, SourceEmit, Stop, Stopped

(* An epoch that nothing holds back has a completing sink's sweep ahead of  *)
(* it, and that sweep is not used up on anything else.                      *)
LEMMA NextNoLost ==
    ASSUME TypeInv, UnusedIsBlank, SinksOutlive, NoLostFinalization, [Next]_vars
    PROVE  NoLostFinalization'
<1> USE DEF TypeInv, TypeOK, NoLostFinalization, Pending,
        epochVars, mintVars, subVars, prodVars, sweepVars, sinkVars, sourceVars
<1>1. CASE UNCHANGED <<status, acked, expected, terminalEpoch, sinkPc, sinkSnap>>
  BY <1>1
<1>2. CASE AckRecord
  <2>1. HeadEpoch \in Epochs
    BY <1>2, HeadIsAck DEF AckRecord, HandsFull
  <2> QED
    BY <1>2, <2>1 DEF AckRecord
<1>3. CASE ProducerMint
  BY <1>3 DEF ProducerMint, NumbersLeft, Epochs
<1>4. CASE SweepRemove
  BY <1>4 DEF SweepRemove
<1>5. ASSUME NEW s \in Sinks, CompleteRemove(s) PROVE NoLostFinalization'
  BY <1>5 DEF CompleteRemove
<1>6. ASSUME NEW s \in Sinks, CompleteSweep(s) PROVE NoLostFinalization'
  <2> SUFFICES ASSUME NEW e \in Epochs, Pending(e)',
                      status'[e] = "InProgress" \/ e = terminalEpoch',
                      expected' \subseteq acked'[e]
               PROVE  \E t \in Sinks : sinkPc'[t] = "sweep" /\ sinkSnap'[t] \subseteq acked'[e]
    OBVIOUS
  <2>1. e \notin Ready(sinkSnap[s]) /\ status'[e] = status[e] /\ acked'[e] = acked[e]
    BY <1>6 DEF CompleteSweep
  <2>2. PICK t \in Sinks : sinkPc[t] = "sweep" /\ sinkSnap[t] \subseteq acked[e]
    BY <1>6, <2>1 DEF CompleteSweep
  <2>3. t # s
    BY <2>1, <2>2 DEF Ready, UnusedIsBlank
  <2> QED
    BY <1>6, <2>1, <2>2, <2>3 DEF CompleteSweep
<1>7. ASSUME NEW s \in Sinks, CompleteFinalizer(s) PROVE NoLostFinalization'
  <2>1. /\ UNCHANGED <<status, acked, expected, terminalEpoch, sinkSnap>>
        /\ \A t \in Sinks : sinkPc[t] = "sweep" => sinkPc'[t] = "sweep"
    BY <1>7 DEF CompleteFinalizer
  <2> QED
    BY <2>1
<1>8. ASSUME NEW s \in Sinks, SinkFail(s) PROVE NoLostFinalization'
  BY <1>8 DEF SinkFail
<1>9. ASSUME NEW c \in Sources, BeginMint(c) PROVE NoLostFinalization'
  <2>1. CASE terminalEpoch = NoEpoch
    <3>1. nextEpoch \in Epochs /\ acked[nextEpoch] = {}
      BY <1>9, <2>1 DEF BeginMint, NumbersLeft, UnusedIsBlank, Epochs
    <3>2. expected # {}
      BY <1>9, FeedsAssumption DEF BeginMint, SinksOutlive, Holding
    <3>3. /\ status' = [status EXCEPT ![nextEpoch] = "Started"]
          /\ terminalEpoch' = nextEpoch
          /\ UNCHANGED <<acked, expected, sinkPc, sinkSnap>>
      BY <1>9, <2>1 DEF BeginMint
    <3> QED
      BY <3>1, <3>2, <3>3
  <2>2. CASE terminalEpoch # NoEpoch
    BY <1>9, <2>2 DEF BeginMint
  <2> QED
    BY <2>1, <2>2
<1> QED
  BY <1>1, <1>2, <1>3, <1>4, <1>5, <1>6, <1>7, <1>8, <1>9
     DEF Next, vars, Subscriber, AckReceive, AckIgnore, AckFinalizer, SubscriberExit,
         Producer, ProducerWake, ProducerReady, ProducerStopsForTerminal, ProducerSend,
         ProducerExit, Sweeper, SweepRead, SweepExit, Age, SinkCompleted, SinkAck,
         SourceDone, BeginFlag, AwaitFinalized, AwaitTimeout, SourceSubscribe, SourceEmit,
         SourceEnd, Stop, Stopped

NoLostInv == SingleInv /\ SinksOutlive /\ NoLostFinalization

(* However an ack and a completing sink interleave, an epoch that no        *)
(* expected sink holds back is left to a sweep that will finalize it.       *)
THEOREM NothingLost == Spec => []NoLostFinalization
<1>1. Init => NoLostInv
  <2>1. Init => SinksOutlive /\ NoLostFinalization
    BY FeedsAssumption DEF Init, Pending, SinksOutlive, NoLostFinalization
  <2> QED
    BY <2>1, InitSingle DEF NoLostInv
<1>2. NoLostInv /\ [Next]_vars => NoLostInv'
  BY NextType, NextSingle, NextOutlive, NextNoLost DEF NoLostInv, SingleInv
<1>3. NoLostInv => NoLostFinalization
  BY DEF NoLostInv
<1> QED
  BY <1>1, <1>2, <1>3, PTL DEF Spec

-----------------------------------------------------------------------------
(* Epoch numbers are used once.                                             *)

(* No step brings back the number of an epoch that timed out or was         *)
(* cleared, and none takes a Finalized epoch back to pending.               *)
THEOREM FreshEpochs == Spec => EpochsAreFresh
<1> DEFINE Fresh == \A e \in Epochs :
              /\ status[e] = "Absent" /\ status'[e] # "Absent" => e = nextEpoch
              /\ status[e] = "Finalized" => status'[e] \in {"Finalized", "Absent"}
<1>1. Init => SingleInv
  BY InitSingle
<1>2. SingleInv /\ [Next]_vars => SingleInv'
  BY NextType, NextSingle DEF SingleInv
<1>3. SingleInv /\ [Next]_vars => [Fresh]_vars
  <2> SUFFICES ASSUME SingleInv, Next PROVE Fresh
    OBVIOUS
  <2>0. TypeInv /\ UnusedIsBlank
    BY DEF SingleInv
  <2> USE <2>0 DEF TypeInv, TypeOK, Pending, epochVars
  <2>1. CASE UNCHANGED status
    BY <2>1
  <2>2. CASE AckRecord
    BY <2>2, HeadIsAck DEF AckRecord, HandsFull
  <2>3. CASE ProducerMint
    BY <2>3 DEF ProducerMint, UnusedIsBlank, Epochs
  <2>4. CASE SweepRemove
    BY <2>4 DEF SweepRemove, TimedOut
  <2>5. ASSUME NEW s \in Sinks, CompleteSweep(s) PROVE Fresh
    BY <2>5 DEF CompleteSweep, Ready
  <2>6. ASSUME NEW c \in Sources, BeginMint(c) PROVE Fresh
    <3>1. CASE terminalEpoch = NoEpoch
      <4>1. nextEpoch \in Epochs /\ status[nextEpoch] = "Absent"
        BY <2>6, <3>1 DEF BeginMint, NumbersLeft, UnusedIsBlank, Epochs
      <4>2. status' = [status EXCEPT ![nextEpoch] = "Started"]
        BY <2>6, <3>1 DEF BeginMint
      <4> QED
        BY <4>1, <4>2
    <3>2. CASE terminalEpoch # NoEpoch
      BY <2>6, <3>2 DEF BeginMint
    <3> QED
      BY <3>1, <3>2
  <2> QED
    BY <2>1, <2>2, <2>3, <2>4, <2>5, <2>6
       DEF Next, vars, Subscriber, AckReceive, AckIgnore, AckFinalizer, SubscriberExit,
           Producer, ProducerWake, ProducerReady, ProducerStopsForTerminal, ProducerSend,
           ProducerExit, Sweeper, SweepRead, SweepExit, Age, SinkCompleted, CompleteRemove,
           CompleteFinalizer, SinkAck, SinkFail, SourceDone, BeginFlag, AwaitFinalized,
           AwaitTimeout, SourceSubscribe, SourceEmit, SourceEnd, Stop, Stopped
<1> QED
  BY <1>1, <1>2, <1>3, PTL DEF Spec, EpochsAreFresh
=============================================================================
