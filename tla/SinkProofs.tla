------------------------------ MODULE SinkProofs -----------------------------
(***************************************************************************)
(* The sinks.  The parallel sink implements the marker barrier and leaves  *)
(* no epoch unacked when it succeeds, for any finite set of streams and    *)
(* any number of epochs.  The landing table of the aggregating sink counts *)
(* a row twice only in the ways LandingTable names, and a purge leaves     *)
(* nothing behind, for any topic, streams, epochs and number of restarts.  *)
(***************************************************************************)
EXTENDS ParallelSink, LandingTable, FiniteSetTheorems, SequenceTheorems, WellFoundedInduction,
        TLAPS

\* The Markers of a stream that the gate has been asked about.
Observed(i) ==
    IF task[i] \in {"report", "ack"} THEN delivered[i] \ hand[i] ELSE delivered[i]
Counted(e) == {i \in Inputs : e \in Observed(i)}
Aligned(e) == \A i \in Inputs : e \in Observed(i) \/ i \in Succeeded

\* Released Markers that are on their way to the coordinator.
OnTheWay(e) == e \in parentDue \/ \E i \in Inputs : e \in due[i]

(* The inductive invariant.                                                 *)

\* The gate knows the streams the parent joined; a batch in hand holds Markers
\* that are new on its stream; released Markers are held by who will ack them.
Shape ==
    /\ finished = {i \in Inputs : task[i] = "joined"}
    /\ \A i \in Inputs :
          /\ task[i] = "write" => hand[i] \cap delivered[i] = {}
          /\ task[i] \in {"report", "ack"} => hand[i] \subseteq delivered[i]
          /\ task[i] # "ack" => due[i] = {}
    /\ parent # "ack" => parentDue = {}
    /\ parent = "ok" => finished = Inputs

\* The counter never exceeds the streams it stands for, and it is not zero once a
\* stream that was not aborted has been asked about.
CountIsBounded == \A e \in Epochs : copies[e] <= Cardinality(Counted(e))
CountIsPositive ==
    \A e \in Epochs :
        /\ released[e] => copies[e] > 0
        /\ \A i \in Inputs : e \in Observed(i) /\ task[i] # "aborted" => copies[e] > 0

\* A Marker is released only when every stream has flushed it or succeeded.
ReleasedIsAligned == \A e \in Epochs : released[e] => Aligned(e)

\* A released Marker is acked, or on its way there in exactly one hand.
ReleasedOnce ==
    \A e \in Epochs :
        /\ released[e] <=> acks[e] > 0 \/ OnTheWay(e)
        /\ acks[e] <= 1
        /\ OnTheWay(e) => acks[e] = 0
        /\ \A i, j \in Inputs : e \in due[i] /\ e \in due[j] => i = j
        /\ \A i \in Inputs : e \in due[i] => e \notin parentDue

\* The parent that joins the last stream releases all that still waits.
LastReleasesAll ==
    finished = Inputs => \A e \in Epochs : copies[e] > 0 => released[e]

SinkInv == /\ TypeOK /\ Shape /\ CountIsBounded /\ CountIsPositive
           /\ ReleasedIsAligned /\ ReleasedOnce /\ LastReleasesAll

-----------------------------------------------------------------------------
(* The gate's counter stands for a set of streams.                          *)

(* Two disjoint parts of a finite set with as many elements as it fill it.  *)
LEMMA PartsFill ==
    ASSUME NEW S, IsFiniteSet(S), NEW A \in SUBSET S, NEW B \in SUBSET S,
           A \cap B = {}, Cardinality(A) + Cardinality(B) >= Cardinality(S)
    PROVE  A \cup B = S
<1>1. /\ IsFiniteSet(A) /\ IsFiniteSet(B)
      /\ Cardinality(A) \in Nat /\ Cardinality(B) \in Nat /\ Cardinality(S) \in Nat
  BY FS_Subset, FS_CardinalityType
<1>2. Cardinality(A \cup B) = Cardinality(A) + Cardinality(B) - Cardinality(A \cap B)
  BY <1>1, FS_Union
<1>3. Cardinality(A \cap B) = 0
  BY FS_EmptySet
<1>4. A \cup B \in SUBSET S
  OBVIOUS
<1>5. Cardinality(A \cup B) <= Cardinality(S) /\ (Cardinality(S) = Cardinality(A \cup B) => S = A \cup B)
  BY <1>4, FS_Subset
<1> QED
  BY <1>1, <1>2, <1>3, <1>5

(* The cardinalities the gate computes with are natural numbers.            *)
LEMMA StreamCards ==
    ASSUME NEW A \in SUBSET Inputs
    PROVE  /\ IsFiniteSet(A) /\ Cardinality(A) \in Nat
           /\ \A i \in Inputs : i \notin A => Cardinality(A \cup {i}) = Cardinality(A) + 1
  BY InputsAssumption, FS_Subset, FS_CardinalityType, FS_AddElement

(* With as many copies as required_copies asks for, no stream is missing:   *)
(* each has flushed the epoch or is done.                                   *)
LEMMA RequiredIsAll ==
    ASSUME TypeOK, NEW e \in Epochs, NEW A \in SUBSET Inputs, NEW done \in SUBSET Inputs,
           \A i \in A : e \in delivered[i],
           NEW n \in Nat, n <= Cardinality(A), n >= Required(done, e)
    PROVE  \A i \in Inputs : i \in A \/ i \in done
<1> DEFINE B == FinishedBefore(done, e)
<1>1. A \cap B = {} /\ B \subseteq done
  BY DEF FinishedBefore, TypeOK, AlignerTypeOK, Epochs
<1>2. /\ Cardinality(A) \in Nat /\ Cardinality(B) \in Nat /\ Cardinality(Inputs) \in Nat
  BY <1>1, StreamCards
<1>3. Cardinality(A) + Cardinality(B) >= Cardinality(Inputs)
  BY <1>2 DEF Required
<1>4. A \cup B = Inputs
  BY <1>1, <1>3, PartsFill, InputsAssumption
<1> QED
  BY <1>1, <1>4

-----------------------------------------------------------------------------
(* A sink that has read nothing satisfies the invariant.                    *)
LEMMA SinkInit == Init => SinkInv
<1> SUFFICES ASSUME Init PROVE SinkInv
  OBVIOUS
<1> USE DEF Init, AlignerInit
<1>1. TypeOK
  BY DEF TypeOK, AlignerTypeOK
<1>2. Shape /\ CountIsPositive /\ ReleasedIsAligned /\ ReleasedOnce
  BY InputsAssumption DEF Shape, CountIsPositive, ReleasedIsAligned, ReleasedOnce, OnTheWay, Observed
<1>3. CountIsBounded
  <2>1. \A e \in Epochs : Cardinality(Counted(e)) \in Nat
    BY StreamCards DEF Counted
  <2> QED
    BY <2>1 DEF CountIsBounded
<1>4. LastReleasesAll
  BY InputsAssumption DEF LastReleasesAll
<1> QED
  BY <1>1, <1>2, <1>3, <1>4 DEF SinkInv

(* What the gate has been asked about and who has succeeded only grows, so  *)
(* an epoch that is aligned stays aligned.                                  *)
LEMMA SinkAlignedStays ==
    ASSUME SinkInv, [Next]_vars
    PROVE  /\ \A i \in Inputs : Observed(i) \subseteq Observed(i)'
           /\ Succeeded \subseteq Succeeded'
           /\ \A e \in Epochs : Aligned(e) => Aligned(e)'
<1> USE DEF SinkInv, TypeOK, AlignerTypeOK, Shape
<1> DEFINE Goal == (\A i \in Inputs : Observed(i) \subseteq Observed(i)') /\ Succeeded \subseteq Succeeded'
<1>1. Goal
  <2> USE DEF Observed, Succeeded
  <2>1. CASE UNCHANGED <<task, hand, delivered>>
    BY <2>1
  <2>2. ASSUME NEW j \in Inputs, NEW ms \in SUBSET Epochs, ReadBatch(j, ms) PROVE Goal
    BY <2>2 DEF ReadBatch
  <2>3. ASSUME NEW j \in Inputs, WriteBatch(j) PROVE Goal
    BY <2>3 DEF WriteBatch
  <2>4. ASSUME NEW j \in Inputs, Report(j) PROVE Goal
    BY <2>4 DEF Report, AfterReport
  <2>5. ASSUME NEW j \in Inputs, SendAck(j) PROVE Goal
    BY <2>5 DEF SendAck, AfterReport
  <2>6. ASSUME NEW j \in Inputs, WriteOk(j) \/ WriteErr(j) \/ Abort(j) PROVE Goal
    BY <2>6 DEF WriteOk, WriteErr, Abort
  <2>7. ASSUME NEW j \in Inputs, JoinOk(j) PROVE Goal
    BY <2>7 DEF JoinOk
  <2>8. ASSUME JoinAll \/ ParentAck \/ (\E j \in Inputs : JoinErr(j)) \/ Over PROVE Goal
    BY <2>1, <2>8 DEF JoinAll, ParentAck, JoinErr, Over, vars, sinkVars
  <2> QED
    BY <2>1, <2>2, <2>3, <2>4, <2>5, <2>6, <2>7, <2>8 DEF Next, Work, Join, vars, sinkVars
<1> QED
  BY <1>1 DEF Aligned

(* The types, the joined streams and the Markers in hand.                   *)
LEMMA SinkShape == SinkInv /\ [Next]_vars => TypeOK' /\ Shape'
<1> SUFFICES ASSUME SinkInv, [Next]_vars PROVE TypeOK' /\ Shape'
  OBVIOUS
<1> USE DEF SinkInv, TypeOK, AlignerTypeOK, Shape, alignerVars, sinkVars
<1> DEFINE Goal == TypeOK' /\ Shape'
<1>1. CASE UNCHANGED vars
  BY <1>1 DEF vars
<1>2. ASSUME NEW i \in Inputs, NEW ms \in SUBSET Epochs, ReadBatch(i, ms) PROVE Goal
  BY <1>2 DEF ReadBatch
<1>3. ASSUME NEW i \in Inputs, WriteBatch(i) PROVE Goal
  BY <1>3 DEF WriteBatch
<1>4. ASSUME NEW i \in Inputs, Report(i) PROVE Goal
  <2>1. PICK e \in hand[i] : Report(i)!2!(e)
    BY <1>4 DEF Report
  <2>2. Completed({e}) \subseteq Epochs
    BY <2>1 DEF Completed
  <2>3. TypeOK'
    <3>1. copies' \in [Epochs -> Nat] /\ released' \in [Epochs -> BOOLEAN]
      BY <2>1 DEF ObserveMarkers
    <3>2. task'[i] \in {"read", "report", "ack"}
      BY <2>1 DEF AfterReport
    <3>3. task' \in [Inputs -> {"read", "write", "report", "ack", "ok", "err", "joined", "aborted"}]
      BY <2>1, <3>2
    <3> QED
      BY <1>4, <2>1, <2>2, <3>1, <3>3 DEF Report, ObserveMarkers
  <2>4. Shape'
    <3>1. task[i] = "report" /\ UNCHANGED <<delivered, parent, parentDue, finished>>
      BY <1>4 DEF Report, ObserveMarkers
    <3>2. task'[i] \in {"read", "report", "ack"} /\ (task'[i] # "ack" => Completed({e}) = {})
      BY <2>1 DEF AfterReport
    <3>3. /\ hand'[i] = hand[i] \ {e} /\ due'[i] = Completed({e})
          /\ \A j \in Inputs : j # i => task'[j] = task[j] /\ hand'[j] = hand[j] /\ due'[j] = due[j]
      BY <2>1
    <3>4. finished' = {j \in Inputs : task'[j] = "joined"}
      BY <3>1, <3>2, <3>3
    <3>5. \A j \in Inputs :
             /\ task'[j] = "write" => hand'[j] \cap delivered'[j] = {}
             /\ task'[j] \in {"report", "ack"} => hand'[j] \subseteq delivered'[j]
             /\ task'[j] # "ack" => due'[j] = {}
      BY <3>1, <3>2, <3>3
    <3> QED
      BY <3>1, <3>4, <3>5
  <2> QED
    BY <2>3, <2>4
<1>5. ASSUME NEW i \in Inputs, SendAck(i) PROVE Goal
  BY <1>5 DEF SendAck, AfterReport
<1>6. ASSUME NEW i \in Inputs, WriteOk(i) PROVE Goal
  BY <1>6 DEF WriteOk
<1>7. ASSUME NEW i \in Inputs, WriteErr(i) PROVE Goal
  BY <1>7 DEF WriteErr
<1>8. ASSUME NEW i \in Inputs, Abort(i) PROVE Goal
  BY <1>8 DEF Abort
<1>9. ASSUME NEW i \in Inputs, JoinOk(i) PROVE Goal
  <2>1. Unblocked(i) \subseteq Epochs
    BY DEF Unblocked
  <2> QED
    BY <1>9, <2>1 DEF JoinOk, InputDone
<1>10. ASSUME NEW i \in Inputs, JoinErr(i) PROVE Goal
  BY <1>10 DEF JoinErr
<1>11. CASE ParentAck
  BY <1>11 DEF ParentAck
<1>12. CASE JoinAll
  BY <1>12 DEF JoinAll
<1> QED
  BY <1>1, <1>2, <1>3, <1>4, <1>5, <1>6, <1>7, <1>8, <1>9, <1>10, <1>11, <1>12
     DEF Next, Work, Join, Over

-----------------------------------------------------------------------------
(* A task about to report e has not been counted for it and has not         *)
(* succeeded, so e is neither released nor acked.                           *)
LEMMA ReportIsFresh ==
    ASSUME SinkInv, NEW i \in Inputs, task[i] = "report", NEW e \in hand[i]
    PROVE  /\ e \in Epochs /\ e \in delivered[i] /\ i \notin Counted(e)
           /\ ~ released[e] /\ acks[e] = 0 /\ ~ OnTheWay(e)
<1> USE DEF SinkInv
<1>1. e \in Epochs /\ e \in delivered[i] /\ i \notin Counted(e)
  BY DEF TypeOK, Shape, Counted, Observed
<1>2. ~ Aligned(e)
  BY <1>1 DEF Aligned, Counted, Succeeded
<1>3. ~ released[e] /\ acks[e] \in Nat
  BY <1>1, <1>2 DEF ReleasedIsAligned, TypeOK
<1> QED
  BY <1>1, <1>3 DEF ReleasedOnce

(* What a Report does to the gate: one copy more of one Marker.             *)
LEMMA ReportStep ==
    ASSUME SinkInv, NEW i \in Inputs, Report(i)
    PROVE  \E e \in hand[i] :
              /\ e \in Epochs
              /\ copies' = [copies EXCEPT ![e] = @ + 1]
              /\ Completed({e}) \subseteq {e}
              /\ \A f \in Epochs : released'[f] <=> released[f] \/ f \in Completed({e})
              /\ hand' = [hand EXCEPT ![i] = @ \ {e}]
              /\ due' = [due EXCEPT ![i] = Completed({e})]
              /\ task' = [task EXCEPT ![i] =
                             IF Completed({e}) = {} THEN AfterReport(hand[i] \ {e}) ELSE "ack"]
              /\ UNCHANGED <<finished, delivered, parent, parentDue, acks>>
<1>1. PICK e \in hand[i] : Report(i)!2!(e)
  BY DEF Report
<1>2. e \in Epochs /\ ~ released[e]
  BY ReportIsFresh DEF Report
<1>3. copies' = [copies EXCEPT ![e] = @ + 1]
  BY <1>1, <1>2 DEF ObserveMarkers, SinkInv, TypeOK, AlignerTypeOK
<1> QED
  BY <1>1, <1>2, <1>3 DEF Report, ObserveMarkers, Completed

(* A copy is counted once per stream that reports it.                       *)
LEMMA SinkCount == SinkInv /\ [Next]_vars => CountIsBounded'
<1> SUFFICES ASSUME SinkInv, [Next]_vars, NEW e \in Epochs
             PROVE  copies'[e] <= Cardinality(Counted(e)')
  BY DEF CountIsBounded
<1>1. /\ Counted(e) \in SUBSET Inputs /\ Counted(e)' \in SUBSET Inputs
      /\ Counted(e) \subseteq Counted(e)'
  BY SinkAlignedStays DEF Counted
<1>2. /\ Cardinality(Counted(e)) \in Nat /\ Cardinality(Counted(e)') \in Nat
      /\ Cardinality(Counted(e)) <= Cardinality(Counted(e)')
  BY <1>1, StreamCards, FS_Subset
<1>3. copies[e] \in Nat /\ copies[e] <= Cardinality(Counted(e))
  BY DEF SinkInv, TypeOK, AlignerTypeOK, CountIsBounded
<1>4. CASE copies'[e] = copies[e]
  BY <1>2, <1>3, <1>4
<1>5. ASSUME NEW i \in Inputs, Report(i) PROVE copies'[e] <= Cardinality(Counted(e)')
  <2>1. PICK f \in hand[i] :
           /\ f \in Epochs
           /\ copies' = [copies EXCEPT ![f] = @ + 1]
           /\ hand' = [hand EXCEPT ![i] = @ \ {f}]
           /\ delivered' = delivered
    BY <1>5, ReportStep
  <2>2. CASE f # e
    BY <1>4, <2>1, <2>2 DEF SinkInv, TypeOK, AlignerTypeOK
  <2>3. CASE f = e
    <3>1. i \notin Counted(e) /\ e \in delivered[i]
      BY <1>5, <2>3, ReportIsFresh DEF Report
    <3>2. e \in delivered'[i] /\ e \notin hand'[i]
      BY <2>1, <2>3, <3>1 DEF SinkInv, TypeOK, AlignerTypeOK
    <3>3. Counted(e) \cup {i} \in SUBSET Counted(e)'
      BY <1>1, <3>2 DEF Counted, Observed
    <3>4. IsFiniteSet(Counted(e)')
      BY <1>1, StreamCards
    <3>5. Cardinality(Counted(e) \cup {i}) <= Cardinality(Counted(e)')
      BY <3>3, <3>4, FS_Subset
    <3>6. Cardinality(Counted(e) \cup {i}) = Cardinality(Counted(e)) + 1
      BY <1>1, <3>1, StreamCards
    <3>7. copies'[e] = copies[e] + 1
      BY <2>1, <2>3 DEF SinkInv, TypeOK, AlignerTypeOK
    <3> QED
      BY <1>2, <1>3, <3>5, <3>6, <3>7
  <2> QED
    BY <2>2, <2>3
<1>6. CASE UNCHANGED copies
  BY <1>4, <1>6
<1>7. ASSUME ~ UNCHANGED copies PROVE \E i \in Inputs : Report(i)
  BY <1>7 DEF Next, Work, Join, Over, ReadBatch, WriteBatch, SendAck, WriteOk, WriteErr, Abort,
              JoinOk, InputDone, JoinErr, JoinAll, ParentAck, vars, alignerVars
<1> QED
  BY <1>5, <1>6, <1>7

(* What Report and JoinOk release is aligned afterwards.                    *)
LEMMA SinkReleaseIsAligned ==
    ASSUME SinkInv, [Next]_vars, NEW i \in Inputs, NEW e \in Epochs
    PROVE  /\ Report(i) /\ e \in hand[i] /\ e \in Completed({e}) /\ e \notin hand'[i] => Aligned(e)'
           /\ JoinOk(i) /\ e \in Unblocked(i) => Aligned(e)'
<1> USE DEF SinkInv
<1>1. /\ copies[e] \in Nat /\ copies[e] <= Cardinality(Counted(e))
      /\ Counted(e) \in SUBSET Inputs /\ \A j \in Counted(e) : e \in delivered[j]
  BY DEF TypeOK, AlignerTypeOK, CountIsBounded, Counted, Observed
<1>2. finished' \subseteq Succeeded' /\ finished \in SUBSET Inputs
  BY SinkShape DEF Shape, TypeOK, AlignerTypeOK, Succeeded
<1>3. \A j \in Counted(e) : e \in Observed(j)'
  BY SinkAlignedStays DEF Counted
<1>4. ASSUME Report(i), e \in hand[i], e \in Completed({e}), e \notin hand'[i] PROVE Aligned(e)'
  <2>1. copies[e] + 1 >= Required(finished, e)
    BY <1>4 DEF Completed
  <2>2. i \notin Counted(e) /\ e \in delivered[i]
    BY <1>4, ReportIsFresh DEF Report
  <2>3. Cardinality(Counted(e) \cup {i}) = Cardinality(Counted(e)) + 1
    BY <1>1, <2>2, StreamCards
  <2>4. Cardinality(Counted(e)) \in Nat
    BY <1>1, StreamCards
  <2>5. /\ copies[e] + 1 <= Cardinality(Counted(e) \cup {i}) /\ copies[e] + 1 \in Nat
        /\ Counted(e) \cup {i} \in SUBSET Inputs
        /\ \A j \in Counted(e) \cup {i} : e \in delivered[j]
    BY <1>1, <2>2, <2>3, <2>4
  <2>6. \A j \in Inputs : j \in Counted(e) \cup {i} \/ j \in finished
    BY <1>2, <2>1, <2>5, RequiredIsAll
  <2>7. e \in Observed(i)' /\ finished' = finished
    BY <1>4, <2>2 DEF Report, ObserveMarkers, Observed
  <2> QED
    BY <1>2, <1>3, <2>6, <2>7 DEF Aligned
<1>5. ASSUME JoinOk(i), e \in Unblocked(i) PROVE Aligned(e)'
  <2>1. finished' = finished \cup {i}
    BY <1>5 DEF JoinOk, InputDone
  <2>2. CASE finished \cup {i} = Inputs
    BY <1>2, <2>1, <2>2 DEF Aligned
  <2>3. CASE copies[e] >= Required(finished \cup {i}, e)
    <3>1. finished \cup {i} \in SUBSET Inputs
      BY <1>2
    <3>2. \A j \in Inputs : j \in Counted(e) \/ j \in finished \cup {i}
      BY <1>1, <2>3, <3>1, RequiredIsAll
    <3> QED
      BY <1>2, <1>3, <2>1, <3>2 DEF Aligned
  <2> QED
    BY <1>5, <2>2, <2>3 DEF Unblocked
<1> QED
  BY <1>4, <1>5

(* The steps that leave the gate and the released Markers alone.            *)
LEMMA GateSteps ==
    ASSUME SinkInv, [Next]_vars
    PROVE  \/ \E i \in Inputs : Report(i) \/ SendAck(i) \/ JoinOk(i)
           \/ ParentAck
           \/ UNCHANGED <<alignerVars, due, parentDue, acks>>
  BY DEF Next, Work, Join, Over, ReadBatch, WriteBatch, WriteOk, WriteErr, Abort, JoinErr,
         JoinAll, vars, sinkVars

(* A Marker is released when it is aligned.                                 *)
LEMMA SinkReleased == SinkInv /\ [Next]_vars => ReleasedIsAligned'
<1> SUFFICES ASSUME SinkInv, [Next]_vars, NEW e \in Epochs, released'[e] PROVE Aligned(e)'
  BY DEF ReleasedIsAligned
<1>1. CASE released[e]
  BY <1>1, SinkAlignedStays DEF SinkInv, ReleasedIsAligned
<1>2. ASSUME NEW i \in Inputs, Report(i), ~ released[e] PROVE Aligned(e)'
  <2>1. PICK f \in hand[i] :
           /\ f \in Epochs /\ Completed({f}) \subseteq {f}
           /\ released'[e] <=> released[e] \/ e \in Completed({f})
           /\ hand' = [hand EXCEPT ![i] = @ \ {f}]
    BY <1>2, ReportStep
  <2>2. e = f /\ e \in Completed({e}) /\ e \notin hand'[i]
    BY <1>2, <2>1 DEF SinkInv, TypeOK
  <2> QED
    BY <1>2, <2>1, <2>2, SinkReleaseIsAligned
<1>3. ASSUME NEW i \in Inputs, JoinOk(i), ~ released[e] PROVE Aligned(e)'
  <2>1. e \in Unblocked(i)
    BY <1>3 DEF JoinOk, InputDone
  <2> QED
    BY <1>3, <2>1, SinkReleaseIsAligned
<1>4. CASE UNCHANGED released
  BY <1>1, <1>4
<1> QED
  BY <1>1, <1>2, <1>3, <1>4, GateSteps DEF SendAck, ParentAck, alignerVars

(* The counter of a Marker that was reported, or released, is not zero.     *)
LEMMA SinkCountPositive == SinkInv /\ [Next]_vars => CountIsPositive'
<1> SUFFICES ASSUME SinkInv, [Next]_vars PROVE CountIsPositive'
  OBVIOUS
<1> USE DEF SinkInv, TypeOK, AlignerTypeOK, CountIsPositive
<1>1. ASSUME NEW i \in Inputs, Report(i) PROVE CountIsPositive'
  <2>1. PICK e \in hand[i] :
           /\ e \in Epochs /\ Completed({e}) \subseteq {e}
           /\ copies' = [copies EXCEPT ![e] = @ + 1]
           /\ \A f \in Epochs : released'[f] <=> released[f] \/ f \in Completed({e})
           /\ hand' = [hand EXCEPT ![i] = @ \ {e}]
           /\ task' = [task EXCEPT ![i] =
                          IF Completed({e}) = {} THEN AfterReport(hand[i] \ {e}) ELSE "ack"]
           /\ delivered' = delivered
    BY <1>1, ReportStep
  <2>2. task[i] = "report" /\ task'[i] # "aborted"
    BY <1>1, <2>1 DEF Report, AfterReport
  <2>3. \A j \in Inputs, f \in Epochs : f \in Observed(j)' /\ f # e => f \in Observed(j)
    BY <2>1, <2>2 DEF Observed, AfterReport
  <2>4. \A j \in Inputs : task'[j] # "aborted" => task[j] # "aborted"
    BY <2>1, <2>2
  <2>5. copies'[e] > 0 /\ \A f \in Epochs : f # e => copies'[f] = copies[f]
    BY <2>1
  <2> QED
    BY <2>1, <2>3, <2>4, <2>5
<1>2. ASSUME NEW i \in Inputs, WriteBatch(i) PROVE CountIsPositive'
  BY <1>2 DEF WriteBatch, Shape, Observed, alignerVars
<1>3. ASSUME NEW i \in Inputs, SendAck(i) PROVE CountIsPositive'
  BY <1>3 DEF SendAck, AfterReport, Observed, alignerVars
<1>4. ASSUME NEW i \in Inputs, JoinOk(i) PROVE CountIsPositive'
  <2>1. \A e \in Epochs : released'[e] => released[e] \/ e \in Unblocked(i)
    BY <1>4 DEF JoinOk, InputDone
  <2>2. \A e \in Unblocked(i) : copies[e] > 0
    BY DEF Unblocked
  <2>3. \A j \in Inputs : Observed(j)' = Observed(j) /\ (task'[j] # "aborted" => task[j] # "aborted")
    BY <1>4 DEF JoinOk, Observed
  <2>4. copies' = copies
    BY <1>4 DEF JoinOk, InputDone
  <2> QED
    BY <2>1, <2>2, <2>3, <2>4
<1>5. ASSUME NEW i \in Inputs, \/ WriteOk(i) \/ WriteErr(i) \/ Abort(i)
                               \/ \E ms \in SUBSET Epochs : ReadBatch(i, ms)
      PROVE  CountIsPositive'
  BY <1>5 DEF WriteOk, WriteErr, Abort, ReadBatch, Observed, alignerVars
<1>6. ASSUME UNCHANGED <<copies, released, task, hand, delivered>> PROVE CountIsPositive'
  BY <1>6 DEF Observed
<1> QED
  BY <1>1, <1>2, <1>3, <1>4, <1>5, <1>6
     DEF Next, Work, Join, Over, ParentAck, JoinErr, JoinAll, vars, sinkVars, alignerVars

(* A Marker is released once and then is in one place.                      *)
LEMMA SinkReleasedOnce == SinkInv /\ [Next]_vars => ReleasedOnce'
<1> SUFFICES ASSUME SinkInv, [Next]_vars PROVE ReleasedOnce'
  OBVIOUS
<1> USE DEF SinkInv, TypeOK, AlignerTypeOK, ReleasedOnce, OnTheWay
<1>1. ASSUME NEW i \in Inputs, Report(i) PROVE ReleasedOnce'
  <2>1. PICK e \in hand[i] :
           /\ e \in Epochs /\ Completed({e}) \subseteq {e}
           /\ \A f \in Epochs : released'[f] <=> released[f] \/ f \in Completed({e})
           /\ due' = [due EXCEPT ![i] = Completed({e})]
           /\ UNCHANGED <<parentDue, acks>>
    BY <1>1, ReportStep
  <2>2. due[i] = {} /\ ~ released[e] /\ acks[e] = 0 /\ ~ OnTheWay(e)
    BY <1>1, <2>1, ReportIsFresh DEF Report, Shape
  <2>3. \A f \in Epochs, j \in Inputs :
           f \in due'[j] <=> f \in due[j] \/ (j = i /\ f = e /\ e \in Completed({e}))
    BY <2>1, <2>2
  <2> SUFFICES ASSUME NEW f \in Epochs PROVE ReleasedOnce!(f)'
    OBVIOUS
  <2>4. CASE f = e
    <3>1. /\ acks'[f] = 0 /\ f \notin parentDue'
          /\ \A j \in Inputs : f \in due'[j] <=> j = i /\ e \in Completed({e})
      BY <2>1, <2>2, <2>3, <2>4
    <3>2. released'[f] <=> e \in Completed({e})
      BY <2>1, <2>2, <2>4
    <3>3. OnTheWay(f)' <=> e \in Completed({e})
      BY <3>1
    <3> QED
      BY <3>1, <3>2, <3>3
  <2>5. CASE f # e
    <3>1. (released'[f] <=> released[f]) /\ acks'[f] = acks[f] /\ parentDue' = parentDue
      BY <2>1, <2>5
    <3>2. \A j \in Inputs : f \in due'[j] <=> f \in due[j]
      BY <2>3, <2>5
    <3> QED
      BY <3>1, <3>2
  <2> QED
    BY <2>4, <2>5
<1>2. ASSUME NEW i \in Inputs, SendAck(i) PROVE ReleasedOnce'
  <2>1. /\ released' = released /\ parentDue' = parentDue
        /\ \A e \in Epochs : acks'[e] = acks[e] + IF e \in due[i] THEN 1 ELSE 0
        /\ \A e \in Epochs, j \in Inputs : e \in due'[j] <=> e \in due[j] /\ j # i
    BY <1>2 DEF SendAck, alignerVars
  <2> SUFFICES ASSUME NEW e \in Epochs PROVE ReleasedOnce!(e)'
    OBVIOUS
  <2>2. CASE e \in due[i]
    <3>1. acks[e] = 0 /\ released[e] /\ e \notin parentDue /\ \A j \in Inputs : e \in due[j] => j = i
      BY <2>2
    <3>2. acks'[e] = 1 /\ released'[e] /\ ~ OnTheWay(e)'
      BY <2>1, <2>2, <3>1
    <3> QED
      BY <3>2
  <2>3. CASE e \notin due[i]
    <3>1. acks'[e] = acks[e] /\ released'[e] = released[e]
      BY <2>1, <2>3
    <3>2. \A j \in Inputs : e \in due'[j] <=> e \in due[j]
      BY <2>1, <2>3
    <3> QED
      BY <2>1, <3>1, <3>2
  <2> QED
    BY <2>2, <2>3
<1>3. ASSUME NEW i \in Inputs, JoinOk(i) PROVE ReleasedOnce'
  <2>1. /\ due' = due /\ acks' = acks /\ parentDue = {} /\ parentDue' = Unblocked(i)
        /\ \A e \in Epochs : released'[e] <=> released[e] \/ e \in Unblocked(i)
    BY <1>3 DEF JoinOk, InputDone, Shape
  <2>2. \A e \in Unblocked(i) : ~ released[e] /\ e \in Epochs
    BY DEF Unblocked
  <2>3. \A e \in Epochs : acks[e] \in Nat
    OBVIOUS
  <2>4. \A e \in Unblocked(i) : acks[e] = 0 /\ \A j \in Inputs : e \notin due[j]
    BY <2>2, <2>3
  <2> QED
    BY <2>1, <2>4
<1>4. CASE ParentAck
  <2>1. PICK e \in parentDue : /\ acks' = [acks EXCEPT ![e] = @ + 1]
                               /\ parentDue' = parentDue \ {e}
    BY <1>4 DEF ParentAck
  <2>2. due' = due /\ released' = released
    BY <1>4 DEF ParentAck, alignerVars
  <2> QED
    BY <2>1, <2>2
<1>5. CASE UNCHANGED <<alignerVars, due, parentDue, acks>>
  BY <1>5 DEF alignerVars
<1> QED
  BY <1>1, <1>2, <1>3, <1>4, <1>5, GateSteps

(* Once the last stream is joined nothing waits at the gate.                *)
LEMMA SinkLast == SinkInv /\ [Next]_vars => LastReleasesAll'
<1> SUFFICES ASSUME SinkInv, [Next]_vars, finished' = Inputs,
                    NEW e \in Epochs, copies'[e] > 0
             PROVE  released'[e]
  BY DEF LastReleasesAll
<1>1. ASSUME NEW i \in Inputs, JoinOk(i) PROVE released'[e]
  BY <1>1, Zenon DEF SinkInv, TypeOK, AlignerTypeOK, JoinOk, InputDone, Unblocked
<1>2. ASSUME NEW i \in Inputs, Report(i) PROVE FALSE
  <2>1. finished' = finished /\ task[i] = "report"
    BY <1>2, Zenon DEF Report, ObserveMarkers
  <2>2. i \notin finished
    <3>1. finished = {j \in Inputs : task[j] = "joined"}
      BY DEF SinkInv, Shape
    <3> QED
      BY <2>1, <3>1
  <2> QED
    BY <2>1, <2>2
<1>3. CASE UNCHANGED alignerVars
  BY <1>3 DEF SinkInv, alignerVars, LastReleasesAll
<1> QED
  BY <1>1, <1>2, <1>3, GateSteps DEF SinkInv, SendAck, ParentAck

(* Every step keeps the invariant.                                          *)
LEMMA SinkStep == SinkInv /\ [Next]_vars => SinkInv'
  BY SinkShape, SinkCount, SinkCountPositive, SinkReleased, SinkReleasedOnce, SinkLast DEF SinkInv

-----------------------------------------------------------------------------
(* When the sink's future is Ok, every epoch that reached one of its        *)
(* streams has been acked: the acks the parent makes for streams that ended *)
(* and the ones the tasks make for themselves miss nothing, whatever the    *)
(* order they ran in.                                                       *)
THEOREM OkSinkAckedAll == Spec => []OkLeavesNothing
<1>1. SinkInv => OkLeavesNothing
  <2> SUFFICES ASSUME SinkInv, parent = "ok", NEW e \in Epochs, NEW i \in Inputs,
                      e \in delivered[i]
               PROVE  acks[e] = 1
    BY DEF OkLeavesNothing
  <2> USE DEF SinkInv, TypeOK, AlignerTypeOK
  <2>1. \A j \in Inputs : task[j] = "joined" /\ due[j] = {}
    BY DEF Shape
  <2>2. copies[e] > 0
    BY <2>1 DEF CountIsPositive, Observed
  <2>3. released[e]
    BY <2>2 DEF Shape, LastReleasesAll
  <2>4. ~ OnTheWay(e)
    BY <2>1 DEF OnTheWay, Shape
  <2>5. acks[e] \in Nat
    OBVIOUS
  <2> QED
    BY <2>3, <2>4, <2>5 DEF ReleasedOnce
<1> QED
  BY <1>1, SinkInit, SinkStep, PTL DEF Spec

(* The parallel sink is a marker barrier: a sink acks an epoch at most      *)
(* once, and only when each of its streams has written what precedes its    *)
(* Marker or has been written to its end.                                   *)
THEOREM ParallelSinkRefines == Spec => ImplementsBarrier
<1>1. Init => Barrier!BarrierInit
  BY DEF Init, AlignerInit, Barrier!BarrierInit, Succeeded
<1>2. SinkInv /\ [Next]_vars => [Barrier!BarrierNext]_(Barrier!barrierVars)
  <2> SUFFICES ASSUME SinkInv, [Next]_vars, ~ UNCHANGED Barrier!barrierVars
               PROVE  Barrier!BarrierNext
    OBVIOUS
  <2> USE DEF SinkInv, TypeOK, AlignerTypeOK, Barrier!barrierVars
  <2>0. \A e \in Epochs : released[e] => Barrier!AllArrived(e)
    BY DEF ReleasedIsAligned, Aligned, Observed, Barrier!AllArrived
  <2>1. ASSUME NEW i \in Inputs, WriteBatch(i) PROVE Barrier!BarrierNext
    <3>1. Barrier!Arrive(i)
      BY <2>1 DEF WriteBatch, Succeeded, Barrier!Arrive
    <3> QED
      BY <3>1 DEF Barrier!BarrierNext
  <2>2. ASSUME NEW i \in Inputs, WriteOk(i) PROVE Barrier!BarrierNext
    <3>1. Succeeded' = Succeeded \cup {i} /\ UNCHANGED <<delivered, acks>>
      BY <2>2 DEF WriteOk, Succeeded
    <3> QED
      BY <3>1 DEF Barrier!End, Barrier!BarrierNext
  <2>3. ASSUME NEW i \in Inputs, SendAck(i) PROVE Barrier!BarrierNext
    <3>1. \A e \in due[i] : e \in Epochs /\ acks[e] = 0 /\ released[e]
      BY DEF ReleasedOnce, OnTheWay
    <3>2. acks' = [e \in Epochs |-> IF e \in due[i] THEN 1 ELSE acks[e]]
      BY <2>3, <3>1 DEF SendAck
    <3>3. UNCHANGED <<delivered, Succeeded>>
      BY <2>3 DEF SendAck, AfterReport, Succeeded
    <3>4. Barrier!Pass(due[i])
      BY <2>0, <3>1, <3>2, <3>3 DEF Barrier!Pass
    <3> QED
      BY <3>4 DEF Barrier!BarrierNext
  <2>4. CASE ParentAck
    <3>1. PICK e \in parentDue : acks' = [acks EXCEPT ![e] = @ + 1]
      BY <2>4 DEF ParentAck
    <3>2. e \in Epochs /\ acks[e] = 0 /\ released[e]
      BY DEF ReleasedOnce, OnTheWay
    <3>3. acks' = [f \in Epochs |-> IF f \in {e} THEN 1 ELSE acks[f]]
      <4>1. acks \in [Epochs -> Nat]
        OBVIOUS
      <4> HIDE DEF SinkInv, TypeOK, AlignerTypeOK
      <4>2. acks' = [f \in Epochs |-> acks'[f]]
        BY <3>1, <4>1
      <4>3. \A f \in Epochs : acks'[f] = IF f = e THEN 1 ELSE acks[f]
        BY <3>1, <3>2, <4>1
      <4> QED
        BY <4>2, <4>3
    <3>4. UNCHANGED <<delivered, Succeeded>>
      BY <2>4 DEF ParentAck, Succeeded
    <3>5. Barrier!Pass({e})
      BY <2>0, <3>2, <3>3, <3>4 DEF Barrier!Pass
    <3> QED
      BY <3>2, <3>5 DEF Barrier!BarrierNext
  <2>5. ASSUME NEW i \in Inputs,
               \/ Report(i) \/ WriteErr(i) \/ Abort(i) \/ JoinOk(i) \/ JoinErr(i)
               \/ \E ms \in SUBSET Epochs : ReadBatch(i, ms)
        PROVE  FALSE
    <3>1. UNCHANGED <<delivered, acks>>
      BY <2>5 DEF Report, WriteErr, Abort, JoinOk, JoinErr, ReadBatch
    <3>2. CASE Report(i)
      BY <2>5, <3>1, <3>2 DEF Report, AfterReport, Succeeded
    <3>3. CASE WriteErr(i) \/ Abort(i) \/ JoinOk(i)
      BY <2>5, <3>1, <3>3 DEF WriteErr, Abort, JoinOk, Succeeded
    <3> QED
      BY <2>5, <3>1, <3>2, <3>3 DEF JoinErr, ReadBatch, Succeeded
  <2>6. CASE UNCHANGED <<task, delivered, acks>>
    BY <2>6 DEF Succeeded
  <2> QED
    BY <2>1, <2>2, <2>3, <2>4, <2>5, <2>6 DEF Next, Work, Join, Over, JoinAll, vars, sinkVars
<1> QED
  BY <1>1, <1>2, SinkInit, SinkStep, PTL DEF Spec, ImplementsBarrier, Barrier!Barrier

-----------------------------------------------------------------------------
(* The landing table.                                                       *)

\* The epochs of the Markers and of the Finalizers of a list of messages.
Marks(msgs) == EpochsIn(msgs, "marker")
Finals(msgs) == EpochsIn(msgs, "finalizer")

-----------------------------------------------------------------------------
(* Its inductive invariant.                                                 *)

\* The Marker of e has left the mailbox: its position is recorded.
Snapped(e) == e \in 1 .. minted /\ e \notin Marks(mail)

\* The Markers of a list of messages are in the order of their epochs.
Sorted(msgs) ==
    \A i, j \in 1 .. Len(msgs) :
        i < j /\ msgs[i].kind = "marker" /\ msgs[j].kind = "marker" => msgs[i].epoch < msgs[j].epoch

\* Batch n of a stream's queue comes with or behind the Marker of e.
Reaches(w, n, e) == e <= label[w] \/ \E k \in 1 .. n : e \in Marks(queue[w][k].msgs)

\* Markers are minted and sent in order, ...
SentInOrder ==
    /\ \A e \in Marks(mail) : e <= minted
    /\ \A e \in Marks(riding) : e <= minted
    /\ \A e \in Marks(riding), f \in Marks(mail) : e < f
    /\ Sorted(mail) /\ Sorted(riding)

\* ... reach every stream in order, and none is lost.
InOrder(w) ==
    /\ label[w] <= minted
    /\ \A f \in Marks(hold[w].msgs) : f <= label[w]
    /\ \A f \in Marks(riding) : label[w] < f
    /\ \A f \in Marks(mail) : label[w] < f
    /\ \A k \in 1 .. Len(queue[w]) : \A e \in Marks(queue[w][k].msgs) :
          /\ label[w] < e /\ e <= minted
          /\ \A f \in Marks(riding) : e < f
          /\ \A f \in Marks(mail) : e < f
    /\ \A k, l \in 1 .. Len(queue[w]) : k < l =>
          \A e \in Marks(queue[w][k].msgs), f \in Marks(queue[w][l].msgs) : e < f
    /\ \A e \in 1 .. minted :
          Reaches(w, Len(queue[w]), e) \/ e \in Marks(riding) \/ e \in Marks(mail)
    /\ Sorted(hold[w].msgs) /\ \A k \in 1 .. Len(queue[w]) : Sorted(queue[w][k].msgs)

\* The stream has nothing left to do that came before the Marker of e.
Done(w, e) == e <= label[w] /\ e \notin Marks(hold[w].msgs)

\* A Marker separates the rows up to the recorded position from the others: what
\* comes behind it is beyond the position, and what is beyond comes with it or
\* behind it, unless the exchange has sent it ahead.
Separated(w) ==
    \A e \in Tags : Snapped(e) =>
        /\ \A r \in hold[w].rows :
              /\ Done(w, e) => snaps[e] < r
              /\ snaps[e] < r => e <= label[w] \/ r \in ahead
        /\ \A k \in 1 .. Len(queue[w]) : \A r \in queue[w][k].rows :
              /\ Reaches(w, k - 1, e) => snaps[e] < r
              /\ snaps[e] < r => Reaches(w, k, e) \/ r \in ahead

\* What is on its way to a stream is not committed.
Uncommitted(w) ==
    /\ \A r \in hold[w].rows : saved < r /\ r <= pos
    /\ \A k \in 1 .. Len(queue[w]) : \A r \in queue[w][k].rows : saved < r /\ r <= pos

\* Every stream has flushed the Marker of f; its position is committed as well.
Flushed(f) == Snapped(f) /\ \A w \in Writers : Done(w, f)
Committed(f) == Flushed(f) /\ (failed \/ snaps[f] <= saved)

\* A Finalizer that is on its way to a stream is one of a committed epoch.
FinalsCommitted(w) ==
    /\ \A f \in Finals(hold[w].msgs) : Committed(f)
    /\ \A k \in 1 .. Len(queue[w]) : \A f \in Finals(queue[w][k].msgs) : Committed(f)
    /\ purgedTo <= label[w]

StreamInv(w) == InOrder(w) /\ Separated(w) /\ Uncommitted(w) /\ FinalsCommitted(w)

\* The rows this process has labelled below e come before its position, or were sent ahead.
LabelledBefore ==
    /\ \A r \in Rows : landing[r].by <= life /\ (landing[r].by = life => r <= pos)
    /\ \A r \in Rows, e \in Tags :
          Snapped(e) /\ landing[r] # Absent /\ landing[r].by = life /\ landing[r].label < e
            => r <= snaps[e] \/ r \in ahead

\* The Finalizer in the mailbox is that of the last epoch whose Marker has left it,
\* and its position is not behind what is committed.
Committing ==
    /\ \A e \in Tags : Snapped(e) => snaps[e] <= pos
    /\ \A f \in Finals(mail) :
          /\ Flushed(f) /\ open # f /\ saved <= snaps[f]
          /\ \A e \in f + 1 .. minted : e \in Marks(mail)
    /\ \A f \in Finals(riding) : Committed(f)
    /\ open # NoTag =>
          /\ \A w \in reported : Done(w, open)
          /\ Snapped(open) => saved <= snaps[open]

\* A row that was counted and is gone is committed.
Tallied ==
    failed \/ overtaken \/
        \A r \in Rows :
            r \in ahead \/ (tally[r] <= 1 /\ (tally[r] = 1 /\ landing[r] = Absent => r <= saved))

LandingInv ==
    /\ LandingTypeOK /\ SentInOrder /\ (\A w \in Writers : StreamInv(w))
    /\ LabelledBefore /\ Committing /\ Tallied /\ NothingBelowPurge
    /\ Exchanged \/ ahead = {}

-----------------------------------------------------------------------------
(* Messages and the latest of several epochs.                               *)

\* Nonempty sets of epochs or of places have a largest member.
LEMMA Latest ==
    ASSUME NEW N \in Nat, NEW S, S \subseteq 1 .. N, S # {}
    PROVE  LET m == CHOOSE e \in S : \A f \in S : f <= e
           IN  m \in S /\ \A f \in S : f <= m
  <1> DEFINE T == {n \in Nat : N - n \in S}
             R == OpToRel(<, Nat)
  <1>1. T # {}
    <2>1. PICK e : e \in S
      OBVIOUS
    <2>2. N - e \in Nat /\ N - (N - e) = e
      BY <2>1
    <2> QED BY <2>1, <2>2
  <1>2. \E x \in T : \A y \in T : ~(<<y, x>> \in R)
    <2>1. IsWellFoundedOn(R, Nat)
      BY NatLessThanWellFounded
    <2>2. T \subseteq Nat
      OBVIOUS
    <2> HIDE DEF T, R
    <2> QED BY <1>1, <2>1, <2>2, WFMin
  <1>3. PICK x \in T : \A y \in T : ~(<<y, x>> \in R)
    BY <1>2
  <1>4. \A y \in T : x <= y
    <2>1. \A y \in Nat, z \in Nat : y < z => <<y, z>> \in R
      BY DEF OpToRel
    <2>2. x \in Nat
      OBVIOUS
    <2> SUFFICES ASSUME NEW y \in T
                 PROVE  x <= y
      OBVIOUS
    <2>3. y \in Nat /\ ~(<<y, x>> \in R)
      BY <1>3
    <2>4. ~(y < x)
      BY <2>1, <2>2, <2>3
    <2>5. y \in Nat
      OBVIOUS
    <2> QED BY <2>2, <2>4, <2>5
  <1>5. \A f \in S : f <= N - x
    <2> TAKE f \in S
    <2>1. N - f \in Nat /\ N - (N - f) = f /\ f \in Int
      OBVIOUS
    <2>2. N - f \in T
      BY <2>1
    <2>3. x <= N - f /\ x \in Nat
      BY <1>4, <2>2
    <2> QED BY <2>1, <2>3
  <1>6. N - x \in S
    OBVIOUS
  <1>7. \E e \in S : \A f \in S : f <= e
    BY <1>5, <1>6
  <1> QED BY <1>7

\* An empty mailbox has no message, ...
LEMMA NoEpochs == \A kind : EpochsIn(<<>>, kind) = {}
  BY DEF EpochsIn

\* ... one that has been read from has no new one, ...
LEMMA TailEpochs ==
    ASSUME NEW msgs \in Seq(Messages), msgs # <<>>, NEW kind
    PROVE  /\ EpochsIn(Tail(msgs), kind) \subseteq EpochsIn(msgs, kind)
           /\ \A e \in Tags : Head(msgs) = [kind |-> kind, epoch |-> e] => e \in EpochsIn(msgs, kind)
           /\ Tail(msgs) \in Seq(Messages)
  <1>1. /\ Len(msgs) \in Nat \ {0} /\ Head(msgs) = msgs[1] /\ Len(Tail(msgs)) = Len(msgs) - 1
        /\ \A k \in 1 .. Len(msgs) - 1 : Tail(msgs)[k] = msgs[k + 1]
        /\ Tail(msgs) \in Seq(Messages)
    BY SMT
  <1>2. \A k \in 1 .. Len(msgs) - 1 : k + 1 \in 1 .. Len(msgs)
    BY <1>1
  <1>3. 1 \in 1 .. Len(msgs)
    BY <1>1
  <1> QED BY <1>1, <1>2, <1>3 DEF EpochsIn

\* ... and one that a message is put into has that one more.
LEMMA AppendEpochs ==
    ASSUME NEW msgs \in Seq(Messages), NEW e \in Tags
    PROVE  /\ Marks(Append(msgs, MarkerOf(e))) = Marks(msgs) \cup {e}
           /\ Finals(Append(msgs, MarkerOf(e))) = Finals(msgs)
           /\ Marks(Append(msgs, FinalizerOf(e))) = Marks(msgs)
           /\ Finals(Append(msgs, FinalizerOf(e))) = Finals(msgs) \cup {e}
           /\ Append(msgs, MarkerOf(e)) \in Seq(Messages)
           /\ Append(msgs, FinalizerOf(e)) \in Seq(Messages)
  <1>1. ASSUME NEW m \in Messages, NEW kind
        PROVE  /\ EpochsIn(Append(msgs, m), kind)
                     = EpochsIn(msgs, kind) \cup {f \in Tags : m = [kind |-> kind, epoch |-> f]}
               /\ Append(msgs, m) \in Seq(Messages)
    <2>1. /\ Len(msgs) \in Nat /\ Len(Append(msgs, m)) = Len(msgs) + 1
          /\ Append(msgs, m)[Len(msgs) + 1] = m
          /\ \A k \in 1 .. Len(msgs) : Append(msgs, m)[k] = msgs[k]
          /\ Append(msgs, m) \in Seq(Messages)
      BY SMT
    <2>2. \A k \in 1 .. Len(msgs) + 1 : k \in 1 .. Len(msgs) \/ k = Len(msgs) + 1
      BY <2>1
    <2>3. (\A k \in 1 .. Len(msgs) : k \in 1 .. Len(msgs) + 1) /\ Len(msgs) + 1 \in 1 .. Len(msgs) + 1
      BY <2>1
    <2> QED BY <2>1, <2>2, <2>3 DEF EpochsIn
  <1>2. MarkerOf(e) \in Messages /\ FinalizerOf(e) \in Messages
    BY DEF MarkerOf, FinalizerOf, Messages
  <1>3. \A f \in Tags :
           /\ MarkerOf(e) = [kind |-> "marker", epoch |-> f] <=> e = f
           /\ MarkerOf(e) # [kind |-> "finalizer", epoch |-> f]
           /\ FinalizerOf(e) = [kind |-> "finalizer", epoch |-> f] <=> e = f
           /\ FinalizerOf(e) # [kind |-> "marker", epoch |-> f]
    BY DEF MarkerOf, FinalizerOf
  <1>4. \A kind : EpochsIn(msgs, kind) \subseteq Tags
    BY DEF EpochsIn
  <1>5. {f \in Tags : MarkerOf(e) = [kind |-> "marker", epoch |-> f]} = {e}
    BY <1>3
  <1>6. {f \in Tags : FinalizerOf(e) = [kind |-> "finalizer", epoch |-> f]} = {e}
    BY <1>3
  <1>7. /\ {f \in Tags : MarkerOf(e) = [kind |-> "finalizer", epoch |-> f]} = {}
        /\ {f \in Tags : FinalizerOf(e) = [kind |-> "marker", epoch |-> f]} = {}
    BY <1>3
  <1>8. /\ Marks(Append(msgs, MarkerOf(e))) = Marks(msgs) \cup {e}
        /\ Finals(Append(msgs, FinalizerOf(e))) = Finals(msgs) \cup {e}
    BY <1>1, <1>2, <1>5, <1>6 DEF Marks, Finals
  <1>9. /\ Finals(Append(msgs, MarkerOf(e))) = Finals(msgs) \cup {}
        /\ Marks(Append(msgs, FinalizerOf(e))) = Marks(msgs) \cup {}
    BY <1>1, <1>2, <1>7 DEF Marks, Finals
  <1> QED BY <1>1, <1>2, <1>8, <1>9

\* The Markers stay in order when a message is taken, ...
LEMMA SortedTail ==
    ASSUME NEW msgs \in Seq(Messages), msgs # <<>>, Sorted(msgs)
    PROVE  /\ Sorted(Tail(msgs))
           /\ \A e \in Tags : Head(msgs) = MarkerOf(e) => e \notin Marks(Tail(msgs))
  <1>1. /\ Len(msgs) \in Nat \ {0} /\ Head(msgs) = msgs[1] /\ Len(Tail(msgs)) = Len(msgs) - 1
        /\ \A k \in 1 .. Len(msgs) - 1 : Tail(msgs)[k] = msgs[k + 1]
    BY SMT
  <1>2. \A k \in 1 .. Len(msgs) - 1 : k + 1 \in 1 .. Len(msgs) /\ 1 < k + 1
    BY <1>1
  <1>3. \A i, j \in 1 .. Len(msgs) - 1 : i < j => i + 1 < j + 1
    BY <1>1
  <1>4. Sorted(Tail(msgs))
    BY <1>1, <1>2, <1>3 DEF Sorted
  <1>5. ASSUME NEW e \in Tags, Head(msgs) = MarkerOf(e), e \in Marks(Tail(msgs))
        PROVE  FALSE
    <2>1. PICK k \in 1 .. Len(msgs) - 1 : msgs[k + 1] = [kind |-> "marker", epoch |-> e]
      BY <1>1, <1>5 DEF Marks, EpochsIn
    <2>2. 1 \in 1 .. Len(msgs) /\ k + 1 \in 1 .. Len(msgs) /\ 1 < k + 1 /\ msgs[1] = MarkerOf(e)
      BY <1>1, <1>2, <1>5
    <2>3. msgs[1].kind = "marker" /\ msgs[k + 1].kind = "marker" /\ msgs[1].epoch = e /\ msgs[k + 1].epoch = e
      BY <2>1, <2>2 DEF MarkerOf
    <2>4. e < e
      BY <2>2, <2>3 DEF Sorted
    <2> QED BY <2>4, LandingAssumption DEF Tags
  <1> QED BY <1>4, <1>5

\* ... and when a message is put in behind them.
LEMMA SortedAppend ==
    ASSUME NEW msgs \in Seq(Messages), NEW e \in Tags, Sorted(msgs)
    PROVE  /\ Sorted(Append(msgs, FinalizerOf(e)))
           /\ (\A f \in Marks(msgs) : f < e) => Sorted(Append(msgs, MarkerOf(e)))
  <1>1. ASSUME NEW m
        PROVE  /\ Len(msgs) \in Nat /\ Len(Append(msgs, m)) = Len(msgs) + 1
               /\ Append(msgs, m)[Len(msgs) + 1] = m
               /\ \A k \in 1 .. Len(msgs) : Append(msgs, m)[k] = msgs[k]
    BY SMT
  <1>2. \A i, j \in 1 .. Len(msgs) + 1 :
           i < j => i \in 1 .. Len(msgs) /\ (j \in 1 .. Len(msgs) \/ j = Len(msgs) + 1)
    BY <1>1
  <1>3. Sorted(Append(msgs, FinalizerOf(e)))
    <2>1. FinalizerOf(e).kind # "marker"
      BY DEF FinalizerOf
    <2> QED BY <1>1, <1>2, <2>1 DEF Sorted
  <1>4. ASSUME \A f \in Marks(msgs) : f < e
        PROVE  Sorted(Append(msgs, MarkerOf(e)))
    <2>1. MarkerOf(e).epoch = e
      BY DEF MarkerOf
    <2>2. \A i \in 1 .. Len(msgs) : msgs[i].kind = "marker" => msgs[i].epoch \in Marks(msgs)
      <3> TAKE i \in 1 .. Len(msgs)
      <3>1. msgs[i] \in Messages
        OBVIOUS
      <3> QED BY <3>1 DEF Marks, EpochsIn, Messages
    <2> QED BY <1>1, <1>2, <1>4, <2>1, <2>2 DEF Sorted
  <1> QED BY <1>3, <1>4

\* The last Marker of a list in order is the latest.
LEMMA LastIsLatest ==
    ASSUME NEW msgs \in Seq(Messages), NEW current, Sorted(msgs)
    PROVE  \/ Marks(msgs) = {} /\ LastMarker(msgs, current) = current
           \/ /\ LastMarker(msgs, current) \in Marks(msgs)
              /\ \A f \in Marks(msgs) : f <= LastMarker(msgs, current)
  <1> DEFINE P == {i \in 1 .. Len(msgs) : msgs[i].kind = "marker"}
             m == CHOOSE i \in P : \A j \in P : j <= i
  <1>1. LastMarker(msgs, current) = IF P = {} THEN current ELSE msgs[m].epoch
    BY DEF LastMarker
  <1>2. Len(msgs) \in Nat /\ \A i \in 1 .. Len(msgs) : msgs[i] \in Messages
    OBVIOUS
  <1>3. \A i \in P : msgs[i].epoch \in Marks(msgs) /\ msgs[i].epoch \in Nat
    <2> TAKE i \in P
    <2>1. msgs[i] \in Messages /\ msgs[i].kind = "marker"
      BY <1>2
    <2>2. msgs[i].epoch \in Tags /\ msgs[i] = [kind |-> "marker", epoch |-> msgs[i].epoch]
      BY <2>1 DEF Messages
    <2> QED BY <2>2, LandingAssumption DEF Marks, EpochsIn, Tags
  <1>4. \A f \in Marks(msgs) : \E i \in P : msgs[i].epoch = f
    BY DEF Marks, EpochsIn
  <1>5. CASE P = {}
    BY <1>1, <1>4, <1>5
  <1>6. CASE P # {}
    <2>1. m \in P /\ \A j \in P : j <= m
      <3>1. P \subseteq 1 .. Len(msgs)
        OBVIOUS
      <3> HIDE DEF P
      <3> QED BY <1>2, <1>6, <3>1, Latest
    <2>2. \A j \in P : msgs[j].epoch <= msgs[m].epoch
      <3> HIDE DEF m
      <3> TAKE j \in P
      <3>1. j = m \/ j < m
        BY <1>2, <2>1
      <3>2. j < m => msgs[j].epoch < msgs[m].epoch
        BY <2>1 DEF Sorted
      <3> QED BY <1>3, <2>1, <3>1, <3>2
    <2> HIDE DEF m, P
    <2>3. \A f \in Marks(msgs) : f <= msgs[m].epoch
      BY <1>4, <2>2
    <2> QED BY <1>1, <1>3, <1>6, <2>1, <2>3
  <1> QED BY <1>5, <1>6

-----------------------------------------------------------------------------
(* The steps.                                                               *)

BatchType == [rows : SUBSET Rows, msgs : Seq(Messages)]

\* The types the steps need.
LEMMA Types ==
    ASSUME LandingTypeOK
    PROVE  /\ MaxTag \in Nat /\ MaxRow \in Nat /\ MaxLife \in Nat
           /\ minted \in Nat /\ minted <= MaxTag /\ saved \in Nat /\ pos \in Nat /\ life \in Nat
           /\ purgedTo \in Nat /\ open \in Nat
           /\ \A e \in Tags : e \in Nat /\ snaps[e] \in Nat
           /\ \A r \in Rows : r \in Nat
           /\ \A msgs : Marks(msgs) \subseteq Tags /\ Finals(msgs) \subseteq Tags
           /\ \A e : Snapped(e) => e \in Tags
           /\ \A w \in Writers :
                 /\ label[w] \in Nat /\ hold[w] \in BatchType /\ queue[w] \in Seq(BatchType)
                 /\ Len(queue[w]) \in Nat
                 /\ \A k \in 1 .. Len(queue[w]) : queue[w][k] \in BatchType
                 /\ hold[w].rows \subseteq Rows
                 /\ \A k \in 1 .. Len(queue[w]) : queue[w][k].rows \subseteq Rows
  <1>1. MaxTag \in Nat /\ MaxRow \in Nat /\ MaxLife \in Nat
    BY LandingAssumption
  <1>2. /\ minted \in Nat /\ minted <= MaxTag /\ saved \in Nat /\ pos \in Nat /\ life \in Nat
        /\ purgedTo \in Nat /\ open \in Nat
    BY <1>1 DEF LandingTypeOK, NoTag
  <1>3. /\ \A e \in Tags : e \in Nat /\ snaps[e] \in Nat
        /\ \A r \in Rows : r \in Nat
    BY <1>1 DEF LandingTypeOK, Tags, Rows
  <1>4. \A msgs : Marks(msgs) \subseteq Tags /\ Finals(msgs) \subseteq Tags
    BY DEF Marks, Finals, EpochsIn
  <1>5. \A e : Snapped(e) => e \in Tags
    BY <1>1, <1>2 DEF Snapped, Tags
  <1>6. ASSUME NEW w \in Writers
        PROVE  /\ label[w] \in Nat /\ hold[w] \in BatchType /\ queue[w] \in Seq(BatchType)
               /\ Len(queue[w]) \in Nat
               /\ \A k \in 1 .. Len(queue[w]) : queue[w][k] \in BatchType
               /\ hold[w].rows \subseteq Rows
               /\ \A k \in 1 .. Len(queue[w]) : queue[w][k].rows \subseteq Rows
    <2>1. label[w] \in Nat
      BY <1>1 DEF LandingTypeOK
    <2>2. hold[w] \in BatchType /\ queue[w] \in Seq(BatchType)
      BY DEF LandingTypeOK, BatchType
    <2>3. Len(queue[w]) \in Nat /\ \A k \in 1 .. Len(queue[w]) : queue[w][k] \in BatchType
      BY <2>2
    <2> QED BY <2>1, <2>2, <2>3 DEF BatchType
  <1> QED BY <1>1, <1>2, <1>3, <1>4, <1>5, <1>6

\* A stream takes no batch, while what is committed and recorded does not change.
LEMMA StreamKept ==
    ASSUME NEW w \in Writers, StreamInv(w), SentInOrder',
           queue'[w] = queue[w], label'[w] = label[w],
           hold'[w].rows \subseteq hold[w].rows,
           Marks(hold'[w].msgs) \subseteq Marks(hold[w].msgs),
           Finals(hold'[w].msgs) \subseteq Finals(hold[w].msgs),
           Sorted(hold'[w].msgs), hold'[w].rows = {} \/ hold'[w].msgs = hold[w].msgs,
           UNCHANGED <<saved, pos, failed, snaps, riding, ahead>>, purgedTo' <= label[w],
           \A f \in Tags : Committed(f) => Committed(f)',
           minted' \in Nat, minted \in Nat, label[w] \in Nat, minted <= minted',
           \A e \in Tags : Snapped(e)' <=> Snapped(e),
           \A e \in Marks(mail') : e \in Marks(mail) \/ e = minted + 1,
           \A e \in Marks(mail) : e \in Marks(mail'),
           \A e \in 1 .. minted' : e \in 1 .. minted \/ e \in Marks(mail'),
           \A msgs : Marks(msgs) \subseteq Tags /\ Finals(msgs) \subseteq Tags,
           Tags \subseteq Nat
    PROVE  StreamInv(w)'
  <1>1. \A n, e : Reaches(w, n, e)' <=> Reaches(w, n, e)
    BY DEF Reaches
  <1>2. InOrder(w)'
    <2>1. \A k \in 1 .. Len(queue[w]) : \A e \in Marks(queue[w][k].msgs) : e \in Nat
      OBVIOUS
    <2>2. \A e \in Marks(riding) : e \in Nat
      OBVIOUS
    <2>3. InOrder(w) /\ Len(queue'[w]) = Len(queue[w])
      BY DEF StreamInv
    <2>4. /\ label'[w] <= minted'
          /\ \A f \in Marks(hold'[w].msgs) : f <= label'[w]
          /\ \A f \in Marks(riding') : label'[w] < f
          /\ \A f \in Marks(mail') : label'[w] < f
      BY <2>3 DEF InOrder
    <2>5. \A k \in 1 .. Len(queue[w]) : \A e \in Marks(queue[w][k].msgs) :
             /\ label[w] < e /\ e <= minted'
             /\ \A f \in Marks(riding) : e < f
             /\ \A f \in Marks(mail') : e < f
      <3> SUFFICES ASSUME NEW k \in 1 .. Len(queue[w]), NEW e \in Marks(queue[w][k].msgs)
                   PROVE  /\ label[w] < e /\ e <= minted'
                          /\ \A f \in Marks(riding) : e < f
                          /\ \A f \in Marks(mail') : e < f
        OBVIOUS
      <3>1. /\ label[w] < e /\ e <= minted
            /\ \A f \in Marks(riding) : e < f
            /\ \A f \in Marks(mail) : e < f
        BY <2>3 DEF InOrder
      <3>2. e \in Nat
        BY <2>1
      <3> QED BY <3>1, <3>2
    <2>6. \A e \in 1 .. minted' :
             Reaches(w, Len(queue[w]), e)' \/ e \in Marks(riding) \/ e \in Marks(mail')
      BY <1>1, <2>3 DEF InOrder
    <2>7. \A k, l \in 1 .. Len(queue[w]) : k < l =>
             \A e \in Marks(queue[w][k].msgs), f \in Marks(queue[w][l].msgs) : e < f
      BY <2>3 DEF InOrder
    <2>8. Sorted(hold'[w].msgs) /\ \A k \in 1 .. Len(queue[w]) : Sorted(queue[w][k].msgs)
      BY <2>3 DEF InOrder
    <2> QED BY <2>3, <2>4, <2>5, <2>6, <2>7, <2>8 DEF InOrder
  <1>3. Separated(w)'
    <2>1. hold'[w].rows # {} => \A e : Done(w, e)' <=> Done(w, e)
      BY DEF Done
    <2>2. Separated(w) /\ Len(queue'[w]) = Len(queue[w])
      BY DEF StreamInv
    <2> SUFFICES ASSUME NEW e \in Tags, Snapped(e)
                 PROVE  /\ \A r \in hold'[w].rows :
                              /\ Done(w, e)' => snaps[e] < r
                              /\ snaps[e] < r => e <= label[w] \/ r \in ahead
                        /\ \A k \in 1 .. Len(queue[w]) : \A r \in queue[w][k].rows :
                              /\ Reaches(w, k - 1, e)' => snaps[e] < r
                              /\ snaps[e] < r => Reaches(w, k, e)' \/ r \in ahead
      BY <2>2 DEF Separated
    <2>3. \A r \in hold'[w].rows :
             /\ Done(w, e)' => snaps[e] < r
             /\ snaps[e] < r => e <= label[w] \/ r \in ahead
      BY <2>1, <2>2 DEF Separated
    <2> QED BY <1>1, <2>2, <2>3 DEF Separated
  <1>4. Uncommitted(w)'
    BY DEF StreamInv, Uncommitted
  <1>5. FinalsCommitted(w)'
    BY DEF StreamInv, FinalsCommitted
  <1> QED BY <1>2, <1>3, <1>4, <1>5 DEF StreamInv

\* A new epoch: its Marker goes behind every other message in the mailbox.
LEMMA MintEpochInv ==
    ASSUME LandingInv, MintEpoch
    PROVE  LandingInv'
  <1> USE DEF durableVars, writerVars
  <1>0. LandingTypeOK /\ SentInOrder /\ Committing
    BY DEF LandingInv
  <1>1. /\ open = NoTag /\ minted < MaxTag /\ minted' = minted + 1 /\ open' = minted + 1
        /\ reported' = {} /\ mail' = Append(mail, MarkerOf(minted + 1))
        /\ UNCHANGED <<saved, landing, tally, life, failed, overtaken, ahead, pos, riding, snaps,
                       queue, hold, label, purgedTo>>
    BY DEF MintEpoch
  <1>2. minted \in Nat /\ MaxTag \in Nat /\ minted + 1 \in Tags /\ Tags \subseteq Nat
    BY <1>0, <1>1, Types DEF Tags
  <1>3. /\ Marks(mail') = Marks(mail) \cup {minted + 1} /\ Finals(mail') = Finals(mail)
        /\ mail' \in Seq(Messages)
    BY <1>0, <1>1, <1>2, AppendEpochs DEF LandingTypeOK
  <1>4. LandingTypeOK'
    <2>1. minted' \in 0 .. MaxTag /\ open' \in {NoTag, minted'} /\ reported' \subseteq Writers
      BY <1>1, <1>2
    <2> QED BY <1>0, <1>1, <1>3, <2>1 DEF LandingTypeOK
  <1>5. \A e \in Tags : Snapped(e)' <=> Snapped(e)
    BY <1>1, <1>2, <1>3 DEF Snapped
  <1>6. \A msgs : Marks(msgs) \subseteq Tags /\ Finals(msgs) \subseteq Tags
    BY DEF Marks, Finals, EpochsIn
  <1>7. SentInOrder'
    <2>1. /\ \A e \in Marks(mail) : e \in Nat /\ e <= minted
          /\ \A e \in Marks(riding) : e \in Nat /\ e <= minted
          /\ \A e \in Marks(riding), f \in Marks(mail) : e < f
      BY <1>0, <1>2, <1>6 DEF SentInOrder
    <2>2. /\ \A e \in Marks(mail) : e <= minted + 1
          /\ \A e \in Marks(riding) : e < minted + 1 /\ e <= minted + 1
      BY <1>2, <2>1
    <2>3. \A f \in Marks(mail) : f < minted + 1
      BY <1>2, <2>1
    <2>4. Sorted(mail') /\ Sorted(riding)
      <3>1. Sorted(mail) /\ Sorted(riding) /\ mail \in Seq(Messages)
        BY <1>0 DEF SentInOrder, LandingTypeOK
      <3> QED BY <1>1, <1>2, <2>3, <3>1, SortedAppend
    <2> QED BY <1>1, <1>2, <1>3, <2>1, <2>2, <2>4 DEF SentInOrder
  <1>8. ASSUME NEW w \in Writers
        PROVE  StreamInv(w)'
    <2>1. StreamInv(w) /\ label[w] \in Nat
      BY <1>0, Types DEF LandingInv
    <2>2. purgedTo <= label[w]
      BY <2>1 DEF StreamInv, FinalsCommitted
    <2>3. \A e \in 1 .. minted' : e \in 1 .. minted \/ e \in Marks(mail')
      BY <1>1, <1>2, <1>3
    <2>4. \A f \in Tags : Committed(f) => Committed(f)'
      BY <1>1, <1>5 DEF Flushed, Committed, Done
    <2>5. Sorted(hold'[w].msgs)
      BY <1>1, <2>1 DEF StreamInv, InOrder
    <2> QED BY <1>1, <1>2, <1>3, <1>5, <1>6, <1>7, <2>1, <2>2, <2>3, <2>4, <2>5, StreamKept
  <1>9. LabelledBefore'
    BY <1>1, <1>5 DEF LandingInv, LabelledBefore
  <1>10. Committing'
    <2>1. \A f \in Tags : (Flushed(f)' <=> Flushed(f)) /\ (Committed(f)' <=> Committed(f))
      BY <1>1, <1>5 DEF Flushed, Committed, Done
    <2>2. \A f \in Finals(mail) : f # minted + 1
      BY <1>0, <1>2 DEF Committing, Flushed, Snapped
    <2>3. \A f \in Finals(mail) : \A e \in f + 1 .. minted + 1 : e \in Marks(mail')
      <3> TAKE f \in Finals(mail)
      <3> TAKE e \in f + 1 .. minted + 1
      <3>1. f \in Nat
        BY <1>2, <1>6
      <3>2. e = minted + 1 \/ e \in f + 1 .. minted
        BY <1>2, <3>1
      <3> QED BY <1>0, <1>3, <3>2 DEF Committing
    <2>4. ~Snapped(open)'
      BY <1>1, <1>3 DEF Snapped
    <2> QED BY <1>0, <1>1, <1>3, <1>5, <1>6, <2>1, <2>2, <2>3, <2>4 DEF Committing
  <1>11. Tallied' /\ NothingBelowPurge' /\ (Exchanged \/ ahead' = {})
    BY <1>1 DEF LandingInv, Tallied, NothingBelowPurge
  <1> QED BY <1>4, <1>7, <1>8, <1>9, <1>10, <1>11 DEF LandingInv

\* The steps that leave the positions, the queues and the labels alone.
LEMMA QuietInv ==
    ASSUME LandingInv, LandingTypeOK',
           UNCHANGED <<saved, life, failed, ahead, pos, riding, snaps, minted, queue, label>>,
           \A w \in Writers :
              /\ hold'[w].rows \subseteq hold[w].rows
              /\ Marks(hold'[w].msgs) \subseteq Marks(hold[w].msgs)
              /\ Finals(hold'[w].msgs) \subseteq Finals(hold[w].msgs)
              /\ Sorted(hold'[w].msgs)
              /\ hold'[w].rows = {} \/ hold'[w].msgs = hold[w].msgs
              /\ purgedTo' <= label[w],
           Marks(mail') = Marks(mail), Sorted(mail'),
           \A f \in Finals(mail') : f \in Finals(mail) \/ (f = open /\ Flushed(f)'),
           open' = open \/ open' = NoTag,
           \A f \in Finals(mail') : open' # f,
           open' # NoTag => \A w \in reported' : Done(w, open)'
    PROVE  SentInOrder' /\ (\A w \in Writers : StreamInv(w)') /\ Committing'
  <1>0. LandingTypeOK /\ SentInOrder /\ Committing
    BY DEF LandingInv
  <1>1. Tags \subseteq Nat /\ minted \in Nat
    BY <1>0, Types DEF Tags
  <1>2. \A msgs : Marks(msgs) \subseteq Tags /\ Finals(msgs) \subseteq Tags
    BY DEF Marks, Finals, EpochsIn
  <1>3. \A e \in Tags : Snapped(e)' <=> Snapped(e)
    BY DEF Snapped
  <1>4. SentInOrder'
    BY <1>0 DEF SentInOrder
  <1>5. \A f \in Tags : (Flushed(f) => Flushed(f)') /\ (Committed(f) => Committed(f)')
    <2>1. \A w \in Writers, f \in Tags : Done(w, f) => Done(w, f)'
      BY DEF Done
    <2> QED BY <1>3, <2>1 DEF Flushed, Committed
  <1>6. ASSUME NEW w \in Writers
        PROVE  StreamInv(w)'
    <2>1. StreamInv(w) /\ label[w] \in Nat
      BY <1>0, Types DEF LandingInv
    <2> QED BY <1>1, <1>2, <1>3, <1>4, <1>5, <2>1, StreamKept
  <1>7. Committing'
    <2>1. \A f \in Tags : (Flushed(f) => Flushed(f)') /\ (Committed(f) => Committed(f)')
      BY <1>5
    <2>2. ASSUME NEW f \in Finals(mail')
          PROVE  /\ Flushed(f)' /\ open' # f /\ saved' <= snaps'[f]
                 /\ \A e \in f + 1 .. minted' : e \in Marks(mail')
      <3>1. CASE f \in Finals(mail)
        BY <1>0, <1>2, <2>1, <2>2, <3>1 DEF Committing
      <3>2. CASE f = open /\ Flushed(f)'
        <4>1. open # NoTag /\ open = minted
          BY <1>0, <1>1, <1>2, <2>2, <3>2 DEF LandingTypeOK, Tags, NoTag
        <4>2. saved <= snaps[f]
          <5>1. Snapped(f)
            BY <1>2, <1>3, <2>2, <3>2 DEF Flushed
          <5> QED BY <1>0, <3>2, <4>1, <5>1 DEF Committing
        <4> QED BY <1>1, <1>2, <2>1, <2>2, <3>2, <4>1, <4>2
      <3> QED BY <2>2, <3>1, <3>2
    <2>3. open' # NoTag =>
             /\ \A w \in reported' : Done(w, open)'
             /\ Snapped(open)' => saved' <= snaps'[open']
      <3>1. open' # NoTag => open' = open /\ (Snapped(open)' => Snapped(open))
        BY DEF Snapped
      <3> QED BY <1>0, <3>1 DEF Committing
    <2>4. (\A e \in Tags : Snapped(e)' => snaps'[e] <= pos') /\ \A f \in Finals(riding') : Committed(f)'
      BY <1>0, <1>2, <1>3, <2>1 DEF Committing
    <2> QED BY <2>2, <2>3, <2>4 DEF Committing
  <1> QED BY <1>4, <1>6, <1>7

\* An epoch that times out leaves its Marker on its way.
LEMMA EpochTimesOutInv ==
    ASSUME LandingInv, EpochTimesOut
    PROVE  LandingInv'
  <1> USE DEF durableVars, writerVars
  <1>1. /\ open' = NoTag
        /\ UNCHANGED <<saved, landing, tally, life, failed, overtaken, ahead, pos, mail, riding,
                       snaps, minted, queue, hold, label, purgedTo, reported>>
    BY DEF EpochTimesOut
  <1>2. LandingTypeOK'
    BY <1>1 DEF LandingInv, LandingTypeOK
  <1>3. /\ \A w \in Writers : purgedTo' <= label[w] /\ Sorted(hold[w].msgs)
        /\ Sorted(mail) /\ \A f \in Finals(mail') : open' # f
    <2>1. \A f \in Tags : f # NoTag
      BY DEF Tags, NoTag
    <2>2. Finals(mail) \subseteq Tags
      BY DEF Finals, EpochsIn
    <2> QED BY <1>1, <2>1, <2>2 DEF LandingInv, StreamInv, FinalsCommitted, InOrder, SentInOrder
  <1>4. SentInOrder' /\ (\A w \in Writers : StreamInv(w)') /\ Committing'
    BY <1>1, <1>2, <1>3, QuietInv
  <1>5. LabelledBefore'
    BY <1>1 DEF LandingInv, LabelledBefore, Snapped
  <1>6. Tallied' /\ NothingBelowPurge' /\ (Exchanged \/ ahead' = {})
    BY <1>1 DEF LandingInv, Tallied, NothingBelowPurge
  <1> QED BY <1>2, <1>4, <1>5, <1>6 DEF LandingInv

\* Rows are labelled with the last Marker before them, so they come before the
\* positions of later epochs, if they were not sent ahead of a Marker.
LEMMA InsertRowsInv ==
    ASSUME LandingInv, NEW w \in Writers, InsertRows(w)
    PROVE  LandingInv'
  <1> USE DEF sourceVars
  <1>0. LandingTypeOK /\ StreamInv(w)
    BY DEF LandingInv
  <1>1. UNCHANGED <<saved, life, failed, overtaken, ahead, pos, mail, riding, snaps, minted, open,
                    queue, label, purgedTo, reported>>
    BY DEF InsertRows
  <1>2. /\ landing' = [r \in Rows |-> IF r \in hold[w].rows
                                       THEN [label |-> label[w], by |-> life] ELSE landing[r]]
        /\ tally' = [r \in Rows |-> IF r \in hold[w].rows /\ landing[r] = Absent
                                     THEN tally[r] + 1 ELSE tally[r]]
    BY DEF InsertRows, Upsert, Trigger
  <1>3. /\ hold \in [Writers -> BatchType] /\ hold' \in [Writers -> BatchType]
        /\ \A x \in Writers : hold'[x].rows \subseteq hold[x].rows /\ hold'[x].msgs = hold[x].msgs
    <2>1. hold \in [Writers -> BatchType]
      BY <1>0 DEF LandingTypeOK, BatchType
    <2>2. hold' = [hold EXCEPT ![w].rows = {}] \/ hold' = hold
      BY DEF InsertRows
    <2> QED BY <2>1, <2>2 DEF BatchType
  <1>4. /\ label[w] \in {0} \cup Tags /\ label[w] \in Nat /\ life \in 1 .. MaxLife /\ life \in Nat
        /\ life # 0 /\ saved \in Nat /\ hold[w].rows \subseteq Rows
        /\ \A r \in Rows : r \in Nat /\ tally[r] \in Nat
        /\ \A e \in Tags : e \in Nat /\ snaps[e] \in Nat
    <2>1. MaxLife \in Nat /\ MaxTag \in Nat
      BY LandingAssumption
    <2>2. label[w] \in {0} \cup Tags /\ life \in 1 .. MaxLife /\ life # 0
      BY <1>0, <2>1 DEF LandingTypeOK, Tags
    <2> QED BY <1>0, <2>2, Types DEF LandingTypeOK
  <1>5. LandingTypeOK'
    <2>1. landing' \in [Rows -> [label : {0} \cup Tags, by : 0 .. MaxLife]]
      <3>1. [label |-> label[w], by |-> life] \in [label : {0} \cup Tags, by : 0 .. MaxLife]
        BY <1>4
      <3> QED BY <1>0, <1>2, <3>1 DEF LandingTypeOK
    <2>2. tally' \in [Rows -> Nat]
      BY <1>2, <1>4
    <2>3. hold' \in [Writers -> [rows : SUBSET Rows, msgs : Seq(Messages)]]
      BY <1>3 DEF BatchType
    <2> QED BY <1>0, <1>1, <2>1, <2>2, <2>3 DEF LandingTypeOK
  <1>6. \A x \in Writers : purgedTo <= label[x]
    BY DEF LandingInv, StreamInv, FinalsCommitted
  <1>7. SentInOrder' /\ (\A x \in Writers : StreamInv(x)') /\ Committing'
    <2>1. /\ \A f \in Finals(mail) : open # f
          /\ open # NoTag => \A x \in reported : Done(x, open)'
      <3>1. \A x \in reported : Done(x, open)' <=> Done(x, open)
        BY <1>0, <1>1, <1>3 DEF Done, LandingTypeOK
      <3> QED BY <3>1 DEF LandingInv, Committing
    <2>2. Sorted(mail) /\ \A x \in Writers : Sorted(hold'[x].msgs)
      BY <1>3 DEF LandingInv, StreamInv, InOrder, SentInOrder
    <2> QED BY <1>1, <1>3, <1>5, <1>6, <2>1, <2>2, QuietInv
  <1>8. ASSUME NEW r \in hold[w].rows
        PROVE  /\ r \in Rows /\ saved < r /\ r <= pos /\ landing'[r] # Absent
               /\ landing'[r].label = label[w] /\ landing'[r].by = life
               /\ \A e \in Tags : Snapped(e) /\ label[w] < e => r <= snaps[e] \/ r \in ahead
    <2>1. r \in Rows /\ landing'[r] = [label |-> label[w], by |-> life]
      BY <1>2, <1>4
    <2>2. landing'[r] # Absent
      BY <1>4, <2>1 DEF Absent
    <2>3. \A e \in Tags : Snapped(e) => (snaps[e] < r => e <= label[w] \/ r \in ahead)
      BY <1>0 DEF StreamInv, Separated
    <2>4. \A e \in Tags : Snapped(e) /\ label[w] < e => r <= snaps[e] \/ r \in ahead
      BY <1>4, <2>1, <2>3
    <2> QED BY <1>0, <2>1, <2>2, <2>4 DEF StreamInv, Uncommitted
  <1>9. \A r \in Rows : r \notin hold[w].rows => landing'[r] = landing[r] /\ tally'[r] = tally[r]
    BY <1>2
  <1>10. LabelledBefore'
    <2>1. \A e : Snapped(e)' <=> Snapped(e)
      BY <1>1 DEF Snapped
    <2>2. \A r \in Rows : landing'[r].by <= life /\ (landing'[r].by = life => r <= pos)
      BY <1>4, <1>8, <1>9 DEF LandingInv, LabelledBefore
    <2> SUFFICES ASSUME NEW r \in Rows, NEW e \in Tags, Snapped(e), landing'[r] # Absent,
                        landing'[r].by = life, landing'[r].label < e
                 PROVE  r <= snaps[e] \/ r \in ahead
      BY <1>1, <2>1, <2>2 DEF LabelledBefore
    <2> QED BY <1>8, <1>9 DEF LandingInv, LabelledBefore
  <1>11. Tallied'
    <2> SUFFICES ASSUME ~failed, ~overtaken, NEW r \in Rows, r \notin ahead
                 PROVE  tally'[r] <= 1 /\ (tally'[r] = 1 /\ landing'[r] = Absent => r <= saved)
      BY <1>1 DEF Tallied
    <2>1. tally[r] <= 1 /\ (tally[r] = 1 /\ landing[r] = Absent => r <= saved) /\ tally[r] \in Nat
      BY <1>4 DEF LandingInv, Tallied
    <2>2. CASE r \in hold[w].rows
      <3>1. saved < r /\ landing'[r] # Absent
        BY <1>8, <2>2
      <3>2. landing[r] = Absent => tally[r] = 0 /\ tally'[r] = tally[r] + 1
        BY <1>2, <1>4, <2>1, <2>2, <3>1
      <3>3. landing[r] # Absent => tally'[r] = tally[r]
        BY <1>2
      <3> QED BY <2>1, <3>1, <3>2, <3>3
    <2> QED BY <1>9, <2>1, <2>2
  <1>12. NothingBelowPurge'
    BY <1>1, <1>4, <1>6, <1>8, <1>9 DEF LandingInv, NothingBelowPurge
  <1>13. Exchanged \/ ahead' = {}
    BY <1>1 DEF LandingInv
  <1> QED BY <1>5, <1>7, <1>10, <1>11, <1>12, <1>13 DEF LandingInv

\* A message taken out of the batch in hand.
LEMMA HandledFacts ==
    ASSUME LandingInv, NEW w \in Writers, NEW m, NextMessage(w, m), Handled(w)
    PROVE  /\ hold' \in [Writers -> BatchType]
           /\ \A x \in Writers :
                 /\ hold'[x].rows \subseteq hold[x].rows
                 /\ Marks(hold'[x].msgs) \subseteq Marks(hold[x].msgs)
                 /\ Finals(hold'[x].msgs) \subseteq Finals(hold[x].msgs)
                 /\ Sorted(hold'[x].msgs)
                 /\ hold'[x].rows = {} \/ hold'[x].msgs = hold[x].msgs
           /\ \A e \in Tags : m = MarkerOf(e) =>
                 e \in Marks(hold[w].msgs) /\ e \notin Marks(hold'[w].msgs)
           /\ \A e \in Tags : m = FinalizerOf(e) => e \in Finals(hold[w].msgs)
  <1>1. hold \in [Writers -> BatchType]
    BY DEF LandingInv, LandingTypeOK, BatchType
  <1>2. /\ hold[w].rows = {} /\ hold[w].msgs # <<>> /\ Head(hold[w].msgs) = m
        /\ hold' = [hold EXCEPT ![w].msgs = Tail(@)]
    BY DEF NextMessage, Handled
  <1>3. hold[w].msgs \in Seq(Messages)
    BY <1>1 DEF BatchType
  <1>4. /\ Tail(hold[w].msgs) \in Seq(Messages)
        /\ Marks(Tail(hold[w].msgs)) \subseteq Marks(hold[w].msgs)
        /\ Finals(Tail(hold[w].msgs)) \subseteq Finals(hold[w].msgs)
        /\ \A e \in Tags : m = MarkerOf(e) => e \in Marks(hold[w].msgs)
        /\ \A e \in Tags : m = FinalizerOf(e) => e \in Finals(hold[w].msgs)
    BY <1>2, <1>3, TailEpochs DEF Marks, Finals, MarkerOf, FinalizerOf
  <1>5. hold'[w].rows = hold[w].rows /\ hold'[w].msgs = Tail(hold[w].msgs)
    BY <1>1, <1>2 DEF BatchType
  <1>6. \A x \in Writers : x # w => hold'[x] = hold[x]
    BY <1>1, <1>2
  <1>7. hold' \in [Writers -> BatchType]
    BY <1>1, <1>2, <1>4 DEF BatchType
  <1>8. \A x \in Writers : Sorted(hold[x].msgs)
    BY DEF LandingInv, StreamInv, InOrder
  <1>9. /\ Sorted(Tail(hold[w].msgs))
        /\ \A e \in Tags : m = MarkerOf(e) => e \notin Marks(Tail(hold[w].msgs))
    BY <1>2, <1>3, <1>8, SortedTail
  <1> QED BY <1>2, <1>4, <1>5, <1>6, <1>7, <1>8, <1>9

\* The last stream to flush an epoch makes it the one Finalizer in the mailbox.
LEMMA FlushMarkerInv ==
    ASSUME LandingInv, NEW w \in Writers, NEW e \in Tags, FlushMarker(w, e)
    PROVE  LandingInv'
  <1> USE DEF durableVars
  <1>0. LandingTypeOK /\ Committing /\ mail \in Seq(Messages)
    BY DEF LandingInv, LandingTypeOK
  <1>1. /\ NextMessage(w, MarkerOf(e)) /\ Handled(w)
        /\ UNCHANGED <<saved, landing, tally, life, failed, overtaken, ahead, pos, riding, snaps,
                       minted, queue, label, purgedTo>>
    BY DEF FlushMarker
  <1>2. \/ UNCHANGED <<reported, open, mail>>
        \/ /\ e = open /\ reported' = reported \cup {w}
           /\ \/ UNCHANGED <<open, mail>>
              \/ reported' = Writers /\ open' = NoTag /\ mail' = Append(mail, FinalizerOf(e))
    BY DEF FlushMarker
  <1>3. /\ hold' \in [Writers -> BatchType]
        /\ \A x \in Writers :
              /\ hold'[x].rows \subseteq hold[x].rows
              /\ Marks(hold'[x].msgs) \subseteq Marks(hold[x].msgs)
              /\ Finals(hold'[x].msgs) \subseteq Finals(hold[x].msgs)
              /\ Sorted(hold'[x].msgs)
              /\ hold'[x].rows = {} \/ hold'[x].msgs = hold[x].msgs
        /\ e \in Marks(hold[w].msgs) /\ e \notin Marks(hold'[w].msgs)
    BY <1>1, HandledFacts
  <1>4. e \in Nat /\ e # NoTag /\ minted \in Nat /\ label[w] \in Nat /\ Finals(mail) \subseteq Tags
        /\ \A f \in Marks(mail) : f \in Nat
    BY <1>0, Types DEF Tags, NoTag
  <1>5. e <= label[w] /\ \A f \in Marks(mail) : label[w] < f
    BY <1>3 DEF LandingInv, StreamInv, InOrder
  <1>6. e = open => Snapped(e)
    <2>1. e \notin Marks(mail)
      BY <1>4, <1>5
    <2>2. e = open => e = minted
      BY <1>0, <1>4 DEF LandingTypeOK
    <2> QED BY <1>4, <2>1, <2>2 DEF Snapped, Tags
  <1>7. /\ Marks(mail') = Marks(mail) /\ mail' \in Seq(Messages)
        /\ \A f \in Finals(mail') :
              f \in Finals(mail) \/ (f = e /\ e = open /\ reported' = Writers /\ open' = NoTag)
    <2>1. /\ Marks(Append(mail, FinalizerOf(e))) = Marks(mail)
          /\ Finals(Append(mail, FinalizerOf(e))) = Finals(mail) \cup {e}
          /\ Append(mail, FinalizerOf(e)) \in Seq(Messages)
      BY <1>0, AppendEpochs
    <2> QED BY <1>0, <1>2, <2>1
  <1>8. reported' \subseteq Writers /\ (open' = open \/ open' = NoTag)
    BY <1>0, <1>2 DEF LandingTypeOK
  <1>9. LandingTypeOK'
    <2>1. hold' \in [Writers -> [rows : SUBSET Rows, msgs : Seq(Messages)]]
      BY <1>3 DEF BatchType
    <2> QED BY <1>0, <1>1, <1>7, <1>8, <2>1 DEF LandingTypeOK
  <1>10. open # NoTag =>
            \A x \in reported' : open <= label'[x] /\ open \notin Marks(hold'[x].msgs)
    <2>1. \A x \in reported' : x \in Writers /\ (x \in reported \/ (x = w /\ e = open))
      BY <1>0, <1>2 DEF LandingTypeOK
    <2>2. open # NoTag => \A x \in reported : open <= label[x] /\ open \notin Marks(hold[x].msgs)
      BY <1>0 DEF Committing, Done
    <2> QED BY <1>1, <1>3, <1>5, <2>1, <2>2
  <1>11. \A f \in Finals(mail') : f \in Finals(mail) \/ (f = open /\ Flushed(f)')
    <2>1. \A f : Snapped(f) => Snapped(f)'
      BY <1>1, <1>7 DEF Snapped
    <2>2. ASSUME reported' = Writers, e = open
          PROVE  \A x \in Writers : Done(x, e)'
      BY <1>4, <1>10, <2>2 DEF Done
    <2> QED BY <1>6, <1>7, <2>1, <2>2 DEF Flushed
  <1>12. \A f \in Finals(mail') : open' # f
    <2>1. \A f \in Finals(mail) : open # f /\ NoTag # f
      BY <1>0, <1>4 DEF Committing, Tags, NoTag
    <2> QED BY <1>4, <1>7, <1>8, <2>1
  <1>13. \A x \in Writers : purgedTo' <= label[x]
    BY <1>1 DEF LandingInv, StreamInv, FinalsCommitted
  <1>14. SentInOrder' /\ (\A x \in Writers : StreamInv(x)') /\ Committing'
    <2>1. Sorted(mail')
      <3>1. Sorted(mail)
        BY DEF LandingInv, SentInOrder
      <3> QED BY <1>0, <1>2, <3>1, SortedAppend
    <2>2. open' # NoTag => \A x \in reported' : Done(x, open)'
      BY <1>8, <1>10 DEF Done
    <2> QED BY <1>1, <1>3, <1>7, <1>8, <1>9, <1>11, <1>12, <1>13, <2>1, <2>2, QuietInv
  <1>15. LabelledBefore'
    BY <1>1, <1>7 DEF LandingInv, LabelledBefore, Snapped
  <1>16. Tallied' /\ NothingBelowPurge' /\ (Exchanged \/ ahead' = {})
    BY <1>1 DEF LandingInv, Tallied, NothingBelowPurge
  <1> QED BY <1>9, <1>14, <1>15, <1>16 DEF LandingInv

\* A Finalizer on its way is committed, so what it purges of this process is too,
\* and every stream labels later rows with its epoch or a later one.
LEMMA PurgeFinalizedInv ==
    ASSUME LandingInv, NEW w \in Writers, NEW e \in Tags, PurgeFinalized(w, e)
    PROVE  LandingInv'
  <1> USE DEF sourceVars
  <1>0. LandingTypeOK /\ Committing
    BY DEF LandingInv
  <1>1. /\ NextMessage(w, FinalizerOf(e)) /\ Handled(w)
        /\ UNCHANGED <<saved, tally, life, failed, ahead, pos, mail, riding, snaps, minted, open,
                       queue, label, reported>>
    BY DEF PurgeFinalized
  <1>2. \/ /\ landing' = [r \in Rows |-> IF r \in Purged(e) THEN Absent ELSE landing[r]]
           /\ overtaken' = (overtaken \/ \E r \in Purged(e) : r > saved /\ landing[r].by # life)
           /\ purgedTo' = IF e > purgedTo THEN e ELSE purgedTo
        \/ UNCHANGED <<landing, overtaken, purgedTo>>
    BY DEF PurgeFinalized
  <1>3. /\ hold' \in [Writers -> BatchType]
        /\ \A x \in Writers :
              /\ hold'[x].rows \subseteq hold[x].rows
              /\ Marks(hold'[x].msgs) \subseteq Marks(hold[x].msgs)
              /\ Finals(hold'[x].msgs) \subseteq Finals(hold[x].msgs)
              /\ Sorted(hold'[x].msgs)
              /\ hold'[x].rows = {} \/ hold'[x].msgs = hold[x].msgs
        /\ e \in Finals(hold[w].msgs)
    BY <1>1, HandledFacts
  <1>4. Committed(e)
    BY <1>3 DEF LandingInv, StreamInv, FinalsCommitted
  <1>5. /\ e \in Nat /\ e \in 0 .. MaxTag /\ purgedTo \in Nat /\ saved \in Nat /\ snaps[e] \in Nat
        /\ \A r \in Rows : r \in Nat
        /\ \A r \in Rows : landing[r].label \in Nat
    <2>1. \A r \in Rows : landing[r].label \in {0} \cup Tags
      BY <1>0 DEF LandingTypeOK
    <2>2. MaxTag \in Nat
      BY LandingAssumption
    <2>3. \A r \in Rows : landing[r].label \in Nat
      BY <2>1, <2>2 DEF Tags
    <2>4. e \in Nat /\ e \in 0 .. MaxTag
      BY <2>2 DEF Tags
    <2> QED BY <1>0, <2>3, <2>4, Types
  <1>6. purgedTo' \in 0 .. MaxTag /\ \A x \in Writers : purgedTo' <= label[x]
    <2>1. \A x \in Writers : e <= label[x] /\ purgedTo <= label[x]
      BY <1>4 DEF Committed, Flushed, Done, LandingInv, StreamInv, FinalsCommitted
    <2>2. purgedTo' \in {e, purgedTo}
      BY <1>2
    <2> QED BY <1>0, <1>5, <2>1, <2>2 DEF LandingTypeOK
  <1>7. LandingTypeOK'
    <2>1. hold' \in [Writers -> [rows : SUBSET Rows, msgs : Seq(Messages)]]
      BY <1>3 DEF BatchType
    <2>2. landing' \in [Rows -> [label : {0} \cup Tags, by : 0 .. MaxLife]]
      <3>1. Absent \in [label : {0} \cup Tags, by : 0 .. MaxLife]
        BY LandingAssumption DEF Absent
      <3> QED BY <1>0, <1>2, <3>1 DEF LandingTypeOK
    <2>3. overtaken' \in BOOLEAN
      BY <1>0, <1>2 DEF LandingTypeOK
    <2> QED BY <1>0, <1>1, <1>6, <2>1, <2>2, <2>3 DEF LandingTypeOK
  <1>8. SentInOrder' /\ (\A x \in Writers : StreamInv(x)') /\ Committing'
    <2>1. /\ \A f \in Finals(mail) : open # f
          /\ open # NoTag => \A x \in reported : Done(x, open)'
      <3>1. \A x \in reported : Done(x, open) => Done(x, open)'
        BY <1>0, <1>1, <1>3 DEF Done, LandingTypeOK
      <3> QED BY <1>0, <3>1 DEF Committing
    <2>2. Sorted(mail)
      BY DEF LandingInv, SentInOrder
    <2> QED BY <1>1, <1>3, <1>6, <1>7, <2>1, <2>2, QuietInv
  <1>9. Exchanged \/ ahead' = {}
    BY <1>1 DEF LandingInv
  <1>10. CASE UNCHANGED <<landing, overtaken, purgedTo>>
    <2>1. LabelledBefore' /\ Tallied' /\ NothingBelowPurge'
      BY <1>1, <1>10 DEF LandingInv, LabelledBefore, Snapped, Tallied, NothingBelowPurge
    <2> QED BY <1>7, <1>8, <1>9, <2>1 DEF LandingInv
  <1>11. CASE /\ landing' = [r \in Rows |-> IF r \in Purged(e) THEN Absent ELSE landing[r]]
              /\ overtaken' = (overtaken \/ \E r \in Purged(e) : r > saved /\ landing[r].by # life)
              /\ purgedTo' = IF e > purgedTo THEN e ELSE purgedTo
    <2>1. \A r \in Rows : landing'[r] # Absent => landing'[r] = landing[r] /\ r \notin Purged(e)
      BY <1>11
    <2>2. LabelledBefore'
      <3>1. \A f : Snapped(f)' <=> Snapped(f)
        BY <1>1 DEF Snapped
      <3>2. \A r \in Rows : landing'[r].by <= life /\ (landing'[r].by = life => r <= pos)
        <4>1. Absent.by = 0 /\ life \in Nat /\ life # 0
          BY <1>0, LandingAssumption DEF Absent, LandingTypeOK
        <4>2. 0 <= life /\ 0 # life
          BY <4>1
        <4> QED BY <1>11, <4>1, <4>2 DEF LandingInv, LabelledBefore
      <3> QED BY <1>1, <2>1, <3>1, <3>2 DEF LandingInv, LabelledBefore
    <2>3. NothingBelowPurge'
      <3>1. \A r \in Rows : landing'[r] # Absent =>
               landing'[r].label = landing[r].label /\ landing[r].label >= purgedTo
               /\ ~(landing[r].label <= e - 1)
        BY <2>1 DEF LandingInv, NothingBelowPurge, Purged
      <3> QED BY <1>5, <1>11, <3>1 DEF NothingBelowPurge
    <2>4. Tallied'
      <3> SUFFICES ASSUME ~failed, ~overtaken', NEW r \in Rows, r \notin ahead
                   PROVE  tally[r] <= 1 /\ (tally[r] = 1 /\ landing'[r] = Absent => r <= saved)
        BY <1>1 DEF Tallied
      <3>1. ~overtaken /\ \A x \in Purged(e) : ~(x > saved /\ landing[x].by # life)
        BY <1>11
      <3>2. tally[r] <= 1 /\ (tally[r] = 1 /\ landing[r] = Absent => r <= saved)
        BY <3>1 DEF LandingInv, Tallied
      <3>3. CASE r \in Purged(e)
        <4>1. landing[r] # Absent /\ landing[r].label < e
          BY <1>5, <3>3 DEF Purged
        <4>2. landing[r].by = life => r <= snaps[e]
          BY <1>4, <4>1 DEF Committed, Flushed, LandingInv, LabelledBefore
        <4>3. snaps[e] <= saved
          BY <1>4 DEF Committed
        <4> QED BY <1>5, <3>1, <3>2, <3>3, <4>2, <4>3
      <3>4. CASE r \notin Purged(e)
        BY <1>11, <3>2, <3>4
      <3> QED BY <3>3, <3>4
    <2> QED BY <1>7, <1>8, <1>9, <2>2, <2>3, <2>4 DEF LandingInv
  <1> QED BY <1>2, <1>10, <1>11

\* A restart begins at the committed offset with nothing on its way.
LEMMA RestartInv ==
    ASSUME LandingInv, Restart
    PROVE  LandingInv'
  <1>1. /\ life < MaxLife /\ life' = life + 1
        /\ UNCHANGED <<saved, landing, tally, failed, overtaken, ahead>>
        /\ pos' = saved /\ mail' = <<>> /\ riding' = <<>>
        /\ snaps' = [e \in Tags |-> 0] /\ minted' = 0 /\ open' = NoTag
        /\ queue' = [w \in Writers |-> <<>>] /\ hold' = [w \in Writers |-> Idle]
        /\ label' = [w \in Writers |-> 0] /\ purgedTo' = 0 /\ reported' = {}
    BY DEF Restart
  <1>2. LandingTypeOK
    BY DEF LandingInv
  <1>3. MaxRow \in Nat /\ MaxTag \in Nat /\ MaxLife \in Nat
    BY LandingAssumption
  <1>4. LandingTypeOK'
    <2>1. Idle \in [rows : SUBSET Rows, msgs : Seq(Messages)]
      BY DEF Idle
    <2>2. /\ hold' \in [Writers -> [rows : SUBSET Rows, msgs : Seq(Messages)]]
          /\ queue' \in [Writers -> Seq([rows : SUBSET Rows, msgs : Seq(Messages)])]
      BY <1>1, <2>1
    <2>3. /\ life' \in 1 .. MaxLife /\ pos' \in saved' .. MaxRow /\ minted' \in 0 .. MaxTag
          /\ snaps' \in [Tags -> 0 .. MaxRow] /\ label' \in [Writers -> 0 .. MaxTag]
          /\ purgedTo' \in 0 .. MaxTag /\ mail' \in Seq(Messages) /\ riding' \in Seq(Messages)
      BY <1>1, <1>2, <1>3 DEF LandingTypeOK
    <2> QED BY <1>1, <1>2, <2>2, <2>3 DEF LandingTypeOK
  <1>5. Marks(<<>>) = {} /\ Finals(<<>>) = {}
    BY NoEpochs DEF Marks, Finals
  <1>6. (\A e : ~Snapped(e)') /\ Sorted(<<>>)
    BY <1>1 DEF Snapped, Sorted
  <1>7. SentInOrder' /\ Committing' /\ LabelledBefore'
    <2>1. \A r \in Rows : landing[r].by \in Nat /\ landing[r].by <= life
      BY <1>2, <1>3 DEF LandingTypeOK, LandingInv, LabelledBefore
    <2>2. \A r \in Rows : landing[r].by <= life + 1 /\ landing[r].by # life + 1
      BY <1>2, <1>3, <2>1 DEF LandingTypeOK
    <2> QED BY <1>1, <1>5, <1>6, <2>2 DEF SentInOrder, Committing, LabelledBefore
  <1>8. ASSUME NEW w \in Writers
        PROVE  StreamInv(w)'
    <2>1. /\ queue'[w] = <<>> /\ hold'[w].rows = {} /\ hold'[w].msgs = <<>> /\ label'[w] = 0
          /\ Len(queue'[w]) = 0
      BY <1>1 DEF Idle
    <2> QED BY <1>1, <1>5, <1>6, <2>1
            DEF StreamInv, InOrder, Separated, Uncommitted, FinalsCommitted
  <1>9. NothingBelowPurge'
    <2>1. \A r \in Rows : landing[r].label \in {0} \cup Tags
      BY <1>2 DEF LandingTypeOK
    <2>2. \A r \in Rows : landing[r].label >= 0
      BY <1>3, <2>1 DEF Tags
    <2> QED BY <1>1, <2>2 DEF NothingBelowPurge
  <1>10. Tallied' /\ (Exchanged \/ ahead' = {})
    BY <1>1 DEF LandingInv, Tallied
  <1> QED BY <1>4, <1>7, <1>8, <1>9, <1>10 DEF LandingInv

\* A stream takes a batch: its label moves to the last Marker of the batch.
LEMMA TakeBatchInv ==
    ASSUME LandingInv, NEW w \in Writers, TakeBatch(w)
    PROVE  LandingInv'
  <1> USE DEF durableVars, sourceVars
  <1>0. LandingTypeOK /\ SentInOrder /\ Committing /\ StreamInv(w)
    BY DEF LandingInv
  <1>1. /\ queue[w] # <<>>
        /\ hold' = [hold EXCEPT ![w] = Head(queue[w])]
        /\ queue' = [queue EXCEPT ![w] = Tail(@)]
        /\ UNCHANGED <<saved, landing, tally, life, failed, overtaken, ahead, pos, mail, riding,
                       snaps, minted, open, purgedTo, reported>>
    BY DEF TakeBatch
  <1> DEFINE q == queue[w]
             marks == Marks(q[1].msgs)
             L == LastMarker(q[1].msgs, label[w])
             last == Len(q)
  <1>2. /\ q \in Seq(BatchType) /\ last \in Nat \ {0} /\ Head(q) = q[1] /\ q[1] \in BatchType
        /\ Tail(q) \in Seq(BatchType) /\ Len(Tail(q)) = last - 1
        /\ \A k \in 1 .. last - 1 : Tail(q)[k] = q[k + 1]
    <2>1. q \in Seq(BatchType)
      BY <1>0, Types
    <2> HIDE DEF q
    <2> QED BY <1>1, <2>1 DEF q
  <1>3. /\ queue'[w] = Tail(q) /\ hold'[w] = q[1] /\ label' = [label EXCEPT ![w] = L]
        /\ label'[w] = L
        /\ \A x \in Writers : x # w => queue'[x] = queue[x] /\ hold'[x] = hold[x] /\ label'[x] = label[x]
    <2>1. label' = [label EXCEPT ![w] = L]
      BY <1>2 DEF TakeBatch
    <2> HIDE DEF L
    <2> QED BY <1>0, <1>1, <1>2, <2>1 DEF LandingTypeOK
  <1>4. /\ marks \subseteq Tags /\ Tags \subseteq Nat /\ label[w] \in Nat /\ minted \in Nat
        /\ \A msgs : Marks(msgs) \subseteq Tags /\ Finals(msgs) \subseteq Tags
    BY <1>0, Types DEF Tags
  <1>5. InOrder(w)
    BY <1>0 DEF StreamInv
  <1>6. 1 \in 1 .. last
    BY <1>2
  <1>7. \/ marks = {} /\ L = label[w]
        \/ L \in marks /\ \A f \in marks : f <= L
    <2>1. q[1].msgs \in Seq(Messages) /\ Sorted(q[1].msgs)
      BY <1>2, <1>5, <1>6 DEF BatchType, InOrder
    <2> QED BY <2>1, LastIsLatest
  <1>8. /\ \A e \in marks :
              /\ label[w] < e /\ e <= minted
              /\ \A f \in Marks(riding) : e < f
              /\ \A f \in Marks(mail) : e < f
        /\ \A k \in 2 .. last : \A e \in marks, f \in Marks(q[k].msgs) : e < f
    <2>1. \A k \in 2 .. last : k \in 1 .. last /\ 1 < k
      BY <1>2
    <2> QED BY <1>5, <1>6, <2>1 DEF InOrder
  <1>9. /\ L \in Nat /\ label[w] <= L /\ L <= minted /\ (\A f \in marks : f <= L)
        /\ \A f \in Marks(riding) : L < f
        /\ \A f \in Marks(mail) : L < f
        /\ \A k \in 2 .. last : \A f \in Marks(q[k].msgs) : L < f
    <2> HIDE DEF L, marks
    <2>1. CASE marks = {} /\ L = label[w]
      <3>1. \A k \in 2 .. last : k \in 1 .. last
        BY <1>2
      <3> QED BY <1>4, <1>5, <2>1, <3>1 DEF InOrder
    <2>2. CASE L \in marks /\ \A f \in marks : f <= L
      <3>1. L \in Nat /\ label[w] < L
        BY <1>4, <1>8, <2>2
      <3>2. /\ label[w] < L /\ L <= minted
            /\ \A f \in Marks(riding) : L < f
            /\ \A f \in Marks(mail) : L < f
        BY <1>8, <2>2
      <3>3. \A k \in 2 .. last : \A f \in Marks(q[k].msgs) : L < f
        BY <1>8, <2>2
      <3> QED BY <1>4, <2>2, <3>1, <3>2, <3>3
    <2> QED BY <1>7, <2>1, <2>2
  <1> HIDE DEF L, marks, q, last
  <1>10. \A e \in 1 .. minted : e <= L <=> Reaches(w, 1, e)
    <2> TAKE e \in 1 .. minted
    <2>1. Reaches(w, 1, e) <=> e <= label[w] \/ e \in marks
      BY DEF Reaches, marks, q
    <2>2. e <= label[w] => e <= L
      BY <1>4, <1>9
    <2>3. ASSUME e <= L
          PROVE  e <= label[w] \/ e \in marks
      <3>1. e \notin Marks(riding) /\ e \notin Marks(mail)
        BY <1>9, <2>3
      <3>2. Reaches(w, last, e)
        BY <1>5, <3>1 DEF InOrder, last, q
      <3>3. CASE e <= label[w]
        BY <3>3
      <3>4. ASSUME NEW k \in 1 .. last, e \in Marks(q[k].msgs)
            PROVE  e \in marks
        <4>1. k = 1 \/ k \in 2 .. last
          BY <1>2
        <4> QED BY <1>9, <2>3, <3>4, <4>1 DEF marks
      <3> QED BY <3>2, <3>3, <3>4 DEF Reaches, q
    <2> QED BY <1>9, <2>1, <2>2, <2>3
  <1>11. \A k \in 1 .. last - 1 : queue'[w][k] = q[k + 1] /\ k + 1 \in 2 .. last /\ k + 1 \in 1 .. last
    BY <1>2, <1>3
  <1>12. Len(queue'[w]) = last - 1
    BY <1>2, <1>3
  <1>13. \A n \in 0 .. last - 1 : \A e \in 1 .. minted : Reaches(w, n, e)' <=> Reaches(w, n + 1, e)
    <2> TAKE n \in 0 .. last - 1
    <2> TAKE e \in 1 .. minted
    <2>1. Reaches(w, n, e)' <=> e <= L \/ \E k \in 1 .. n : e \in Marks(q[k + 1].msgs)
      <3>1. \A k \in 1 .. n : k \in 1 .. last - 1
        BY <1>2
      <3> QED BY <1>3, <1>11, <3>1 DEF Reaches
    <2>2. Reaches(w, n + 1, e) <=> e <= label[w] \/ \E k \in 1 .. n + 1 : e \in Marks(q[k].msgs)
      BY DEF Reaches, q
    <2>3. e <= L <=> e <= label[w] \/ e \in Marks(q[1].msgs)
      <3>1. Reaches(w, 1, e) <=> e <= label[w] \/ e \in Marks(q[1].msgs)
        BY DEF Reaches, q
      <3> QED BY <1>10, <3>1
    <2>4. \A k \in 1 .. n : k + 1 \in 1 .. n + 1
      BY <1>2
    <2>5. 1 \in 1 .. n + 1 /\ \A k \in 1 .. n + 1 : k = 1 \/ (k - 1 \in 1 .. n /\ (k - 1) + 1 = k)
      BY <1>2
    <2> QED BY <2>1, <2>2, <2>3, <2>4, <2>5
  <1>14. \A e : Snapped(e)' <=> Snapped(e)
    BY <1>1 DEF Snapped
  <1>15. \A e \in Tags : Snapped(e) => e \in 1 .. minted
    BY DEF Snapped
  <1>16. LandingTypeOK'
    <2>1. hold' \in [Writers -> BatchType]
      BY <1>0, <1>1, <1>2 DEF LandingTypeOK, BatchType, q
    <2>2. queue' \in [Writers -> Seq(BatchType)]
      BY <1>0, <1>1, <1>2 DEF LandingTypeOK, BatchType, q
    <2>3. label' \in [Writers -> 0 .. MaxTag]
      <3>1. L \in 0 .. MaxTag
        BY <1>0, <1>9, Types
      <3> QED BY <1>0, <1>3, <3>1 DEF LandingTypeOK
    <2> QED BY <1>0, <1>1, <2>1, <2>2, <2>3 DEF LandingTypeOK, BatchType
  <1>17. SentInOrder'
    BY <1>0, <1>1 DEF SentInOrder
  <1>18. InOrder(w)'
    <2>1. /\ L <= minted
          /\ \A f \in Marks(hold'[w].msgs) : f <= L
          /\ \A f \in Marks(riding) : L < f
          /\ \A f \in Marks(mail) : L < f
      BY <1>3, <1>9 DEF marks
    <2>2. \A k \in 1 .. last - 1 : \A e \in Marks(queue'[w][k].msgs) :
             /\ L < e /\ e <= minted
             /\ \A f \in Marks(riding) : e < f
             /\ \A f \in Marks(mail) : e < f
      BY <1>5, <1>9, <1>11 DEF InOrder, q, last
    <2>3. \A k, l \in 1 .. last - 1 : k < l =>
             \A e \in Marks(queue'[w][k].msgs), f \in Marks(queue'[w][l].msgs) : e < f
      <3> SUFFICES ASSUME NEW k \in 1 .. last - 1, NEW l \in 1 .. last - 1, k < l
                   PROVE  \A e \in Marks(q[k + 1].msgs), f \in Marks(q[l + 1].msgs) : e < f
        BY <1>11
      <3>1. k + 1 \in 1 .. last /\ l + 1 \in 1 .. last /\ k + 1 < l + 1
        BY <1>2
      <3> QED BY <1>5, <3>1 DEF InOrder, q, last
    <2>4. \A e \in 1 .. minted :
             \/ e <= L \/ \E k \in 1 .. last - 1 : e \in Marks(queue'[w][k].msgs)
             \/ e \in Marks(riding) \/ e \in Marks(mail)
      <3> TAKE e \in 1 .. minted
      <3>1. PICK n : n = last - 1 /\ n \in 0 .. last - 1 /\ n + 1 = last
        BY <1>2
      <3>2. Reaches(w, n, e)' <=> Reaches(w, last, e)
        BY <1>13, <3>1
      <3>3. Reaches(w, n, e)' <=> e <= L \/ \E k \in 1 .. n : e \in Marks(queue'[w][k].msgs)
        BY <1>3 DEF Reaches
      <3> QED BY <1>5, <3>1, <3>2, <3>3 DEF InOrder, q, last
    <2>5. /\ UNCHANGED <<riding, mail, minted>> /\ label'[w] = L
          /\ Len(queue'[w]) = last - 1
      BY <1>1, <1>3, <1>12
    <2>6. \A e \in 1 .. minted' : \/ Reaches(w, Len(queue[w]), e)'
                                  \/ e \in Marks(riding') \/ e \in Marks(mail')
      BY <2>4, <2>5 DEF Reaches
    <2>7. Sorted(hold'[w].msgs) /\ \A k \in 1 .. last - 1 : Sorted(queue'[w][k].msgs)
      BY <1>3, <1>5, <1>6, <1>11 DEF InOrder, q, last
    <2> QED BY <2>1, <2>2, <2>3, <2>5, <2>6, <2>7 DEF InOrder
  <1>19. Separated(w)'
    <2> SUFFICES ASSUME NEW e \in Tags, Snapped(e)'
                 PROVE  /\ \A r \in hold'[w].rows :
                              /\ Done(w, e)' => snaps'[e] < r
                              /\ snaps'[e] < r => e <= label'[w] \/ r \in ahead'
                        /\ \A k \in 1 .. Len(queue'[w]) : \A r \in queue'[w][k].rows :
                              /\ Reaches(w, k - 1, e)' => snaps'[e] < r
                              /\ snaps'[e] < r => Reaches(w, k, e)' \/ r \in ahead'
      BY DEF Separated
    <2>1. Snapped(e) /\ e \in 1 .. minted
      BY <1>14, <1>15
    <2>2. \A k \in 1 .. last : \A r \in q[k].rows :
             /\ Reaches(w, k - 1, e) => snaps[e] < r
             /\ snaps[e] < r => Reaches(w, k, e) \/ r \in ahead
      BY <1>0, <2>1 DEF StreamInv, Separated, q, last
    <2>3. ASSUME NEW k \in 1 .. last - 1
          PROVE  /\ Reaches(w, k, e)' <=> Reaches(w, k + 1, e)
                 /\ Reaches(w, k - 1, e)' <=> Reaches(w, (k + 1) - 1, e)
      <3>1. k \in 0 .. last - 1 /\ k - 1 \in 0 .. last - 1 /\ (k - 1) + 1 = (k + 1) - 1
        BY <1>2
      <3> QED BY <1>13, <2>1, <3>1
    <2>4. Done(w, e)' => Reaches(w, 1 - 1, e)
      <3>1. Done(w, e)' => e <= L /\ e \notin marks
        BY <1>3 DEF Done, marks
      <3>2. Reaches(w, 1, e) <=> e <= label[w] \/ e \in marks
        BY DEF Reaches, marks, q
      <3> QED BY <1>10, <2>1, <3>1, <3>2 DEF Reaches
    <2>5. \A r \in hold'[w].rows :
             /\ Done(w, e)' => snaps[e] < r
             /\ snaps[e] < r => e <= label'[w] \/ r \in ahead
      BY <1>3, <1>6, <1>10, <2>1, <2>2, <2>4
    <2>6. \A k \in 1 .. last - 1 : \A r \in queue'[w][k].rows :
             /\ Reaches(w, k - 1, e)' => snaps[e] < r
             /\ snaps[e] < r => Reaches(w, k, e)' \/ r \in ahead
      BY <1>11, <2>2, <2>3
    <2>7. Len(queue'[w]) = last - 1 /\ UNCHANGED <<snaps, ahead>>
      BY <1>1, <1>12
    <2> QED BY <2>5, <2>6, <2>7
  <1>20. Uncommitted(w)'
    <2>1. \A k \in 1 .. last : \A r \in q[k].rows : saved < r /\ r <= pos
      BY <1>0 DEF StreamInv, Uncommitted, q, last
    <2>2. \A k \in 1 .. last - 1 : \A r \in queue'[w][k].rows : saved < r /\ r <= pos
      BY <1>11, <2>1
    <2>3. \A r \in hold'[w].rows : saved < r /\ r <= pos
      BY <1>3, <1>6, <2>1
    <2> QED BY <1>1, <1>12, <2>2, <2>3 DEF Uncommitted
  <1>21. \A x \in Writers : label[x] \in Nat /\ label'[x] \in Nat /\ label[x] <= label'[x]
    BY <1>0, <1>3, <1>9, Types
  <1>22. /\ \A x \in Writers, f \in Tags : Done(x, f) => Done(x, f)'
         /\ \A f \in Tags : (Flushed(f) => Flushed(f)') /\ (Committed(f) => Committed(f)')
    <2>1. \A x \in Writers, f \in Tags : Done(x, f) => Done(x, f)'
      <3> TAKE x \in Writers, f \in Tags
      <3>1. f \in Nat /\ (f <= label[x] => f <= label'[x])
        BY <1>4, <1>21
      <3>2. x = w /\ f <= label[x] => f \notin Marks(hold'[w].msgs)
        BY <1>3, <1>4, <1>8, <3>1 DEF marks
      <3> QED BY <1>3, <3>1, <3>2 DEF Done
    <2> QED BY <1>1, <1>14, <2>1 DEF Flushed, Committed
  <1>23. \A x \in Writers : purgedTo <= label'[x]
    <2>1. \A x \in Writers : purgedTo <= label[x]
      BY DEF LandingInv, StreamInv, FinalsCommitted
    <2>2. purgedTo \in Nat
      BY <1>0, Types
    <2> QED BY <1>21, <2>1, <2>2
  <1>24. FinalsCommitted(w)'
    <2>1. \A k \in 1 .. last : \A f \in Finals(q[k].msgs) : Committed(f)'
      BY <1>0, <1>4, <1>22 DEF StreamInv, FinalsCommitted, q, last
    <2>2. \A k \in 1 .. last - 1 : \A f \in Finals(queue'[w][k].msgs) : Committed(f)'
      BY <1>11, <2>1
    <2>3. \A f \in Finals(hold'[w].msgs) : Committed(f)'
      BY <1>3, <1>6, <2>1
    <2> QED BY <1>1, <1>12, <1>23, <2>2, <2>3 DEF FinalsCommitted
  <1>25. ASSUME NEW x \in Writers
         PROVE  StreamInv(x)'
    <2>1. CASE x = w
      BY <1>18, <1>19, <1>20, <1>24, <2>1 DEF StreamInv
    <2>2. CASE x # w
      <3>1. StreamInv(x) /\ purgedTo <= label[x] /\ Sorted(hold[x].msgs)
        BY DEF LandingInv, StreamInv, InOrder, FinalsCommitted
      <3> QED BY <1>1, <1>3, <1>4, <1>14, <1>17, <1>21, <1>22, <2>2, <3>1, StreamKept
    <2> QED BY <2>1, <2>2
  <1>26. LabelledBefore'
    BY <1>1, <1>14 DEF LandingInv, LabelledBefore
  <1>27. Committing'
    <2>1. open # NoTag => \A x \in reported : Done(x, open)'
      <3>1. (\A x \in reported : x \in Writers) /\ open \in {NoTag, minted} /\ minted \in 0 .. MaxTag
        BY <1>0 DEF LandingTypeOK
      <3>2. open # NoTag => open \in Tags
        BY <3>1, LandingAssumption DEF NoTag, Tags
      <3>3. \A x \in Writers, f \in Tags : Done(x, f) => Done(x, f)'
        BY <1>22
      <3> QED BY <1>0, <1>1, <3>1, <3>2, <3>3 DEF Committing, Done
    <2>2. \A f \in Finals(mail) : Flushed(f)' /\ open # f /\ saved <= snaps[f]
                                  /\ \A e \in f + 1 .. minted : e \in Marks(mail)
      BY <1>0, <1>4, <1>22 DEF Committing
    <2>3. \A f \in Finals(riding) : Committed(f)'
      BY <1>0, <1>4, <1>22 DEF Committing
    <2> QED BY <1>0, <1>1, <1>14, <2>1, <2>2, <2>3 DEF Committing
  <1>28. Tallied' /\ NothingBelowPurge' /\ (Exchanged \/ ahead' = {})
    BY <1>1 DEF LandingInv, Tallied, NothingBelowPurge
  <1> QED BY <1>16, <1>17, <1>25, <1>26, <1>27, <1>28 DEF LandingInv

\* A sequence with one element replaced.
LEMMA ReplacedIn ==
    ASSUME NEW S, NEW t \in Seq(S), NEW b \in S, NEW i \in 1 .. Len(t)
    PROVE  [t EXCEPT ![i] = b] \in Seq(S) /\ Len([t EXCEPT ![i] = b]) = Len(t)
  <1>1. [t EXCEPT ![i] = b] \in Seq(S)
    BY ExceptSeq, Zenon
  <1>2. Len([t EXCEPT ![i] = b]) = Len(t)
    BY ExceptSeq
  <1> QED BY <1>1, <1>2

\* The rebatcher joins a batch without messages and the one behind it.
LEMMA RebatchInv ==
    ASSUME LandingInv, NEW w \in Writers, Rebatch(w)
    PROVE  LandingInv'
  <1> USE DEF durableVars, sourceVars
  <1>0. LandingTypeOK /\ SentInOrder /\ Committing /\ StreamInv(w)
    BY DEF LandingInv
  <1> DEFINE q == queue[w]
             last == Len(q)
             b == [rows |-> q[1].rows \cup q[2].rows, msgs |-> q[2].msgs]
  <1>1. /\ last > 1 /\ q[1].msgs = <<>>
        /\ queue' = [queue EXCEPT ![w] = [Tail(q) EXCEPT ![1] = b]]
        /\ UNCHANGED <<saved, landing, tally, life, failed, overtaken, ahead, pos, mail, riding,
                       snaps, minted, open, hold, label, purgedTo, reported>>
    BY DEF Rebatch, Joined
  <1>2. q \in Seq(BatchType)
    BY <1>0, Types
  <1>3. /\ last \in Nat /\ Tail(q) \in Seq(BatchType) /\ Len(Tail(q)) = last - 1
        /\ \A k \in 1 .. last - 1 : Tail(q)[k] = q[k + 1]
        /\ \A k \in 1 .. last : q[k] \in BatchType
    <2> HIDE DEF q
    <2> QED BY <1>1, <1>2
  <1>4. /\ b \in BatchType /\ b.msgs = q[2].msgs /\ b.rows = q[1].rows \cup q[2].rows
        /\ 1 \in 1 .. last - 1 /\ 1 \in 1 .. last /\ 2 \in 1 .. last
    <2>1. 1 \in 1 .. last - 1 /\ 1 \in 1 .. last /\ 2 \in 1 .. last
      BY <1>1, <1>3
    <2>2. q[1] \in BatchType /\ q[2] \in BatchType
      BY <1>3, <2>1
    <2> QED BY <2>1, <2>2 DEF BatchType
  <1> HIDE DEF q, last, b
  <1>5. /\ queue'[w] \in Seq(BatchType) /\ Len(queue'[w]) = last - 1
        /\ \A k \in 1 .. last - 1 : queue'[w][k] = IF k = 1 THEN b ELSE q[k + 1]
        /\ \A x \in Writers : x # w => queue'[x] = queue[x]
    <2>1. queue'[w] = [Tail(q) EXCEPT ![1] = b] /\ \A x \in Writers : x # w => queue'[x] = queue[x]
      BY <1>0, <1>1 DEF LandingTypeOK
    <2> DEFINE t == Tail(q)
    <2>2. t \in Seq(BatchType) /\ 1 \in 1 .. Len(t) /\ b \in BatchType
      BY <1>3, <1>4
    <2> HIDE DEF t
    <2>3. PICK i \in 1 .. Len(t) : i = 1
      BY <2>2
    <2>4. [t EXCEPT ![i] = b] \in Seq(BatchType) /\ Len([t EXCEPT ![i] = b]) = Len(t)
      BY <2>2, ReplacedIn
    <2>5. \A k \in 1 .. Len(t) : [t EXCEPT ![1] = b][k] = IF k = 1 THEN b ELSE t[k]
      BY <2>2
    <2> QED BY <1>3, <2>1, <2>3, <2>4, <2>5 DEF t
  <1>6. \A k \in 1 .. last - 1 :
           /\ k + 1 \in 1 .. last /\ queue'[w][k].msgs = q[k + 1].msgs
           /\ \A r \in queue'[w][k].rows : r \in q[k + 1].rows \/ (k = 1 /\ r \in q[1].rows)
    <2> TAKE k \in 1 .. last - 1
    <2>1. k + 1 \in 1 .. last /\ (k = 1 => k + 1 = 2)
      BY <1>3
    <2> QED BY <1>4, <1>5, <2>1
  <1>7. Marks(q[1].msgs) = {}
    BY <1>1, NoEpochs DEF Marks
  <1>8. \A n \in 0 .. last - 1 : \A e : Reaches(w, n, e)' <=> Reaches(w, n + 1, e)
    <2> TAKE n \in 0 .. last - 1
    <2> TAKE e
    <2>1. Reaches(w, n, e)' <=> e <= label[w] \/ \E k \in 1 .. n : e \in Marks(q[k + 1].msgs)
      <3>1. \A k \in 1 .. n : k \in 1 .. last - 1
        BY <1>3
      <3> QED BY <1>1, <1>6, <3>1 DEF Reaches
    <2>2. Reaches(w, n + 1, e) <=> e <= label[w] \/ \E k \in 1 .. n + 1 : e \in Marks(q[k].msgs)
      BY DEF Reaches, q
    <2>3. \A k \in 1 .. n : k + 1 \in 1 .. n + 1
      BY <1>3
    <2>4. \A k \in 1 .. n + 1 : k = 1 \/ (k - 1 \in 1 .. n /\ (k - 1) + 1 = k)
      BY <1>3
    <2> QED BY <1>7, <2>1, <2>2, <2>3, <2>4
  <1>9. \A e : (Snapped(e)' <=> Snapped(e)) /\ \A x \in Writers : Done(x, e)' <=> Done(x, e)
    BY <1>1 DEF Snapped, Done
  <1>10. \A f : (Flushed(f)' <=> Flushed(f)) /\ (Committed(f)' <=> Committed(f))
    BY <1>1, <1>9 DEF Flushed, Committed
  <1>11. SentInOrder' /\ Committing'
    <2>1. SentInOrder'
      BY <1>0, <1>1 DEF SentInOrder
    <2>2. open # NoTag => \A x \in reported : Done(x, open)'
      <3>1. \A x \in reported : x \in Writers
        BY <1>0 DEF LandingTypeOK
      <3> QED BY <1>0, <1>1, <3>1 DEF Committing, Done
    <2>3. Snapped(open)' <=> Snapped(open)
      BY <1>1 DEF Snapped
    <2> QED BY <1>0, <1>1, <1>9, <1>10, <2>1, <2>2, <2>3 DEF Committing
  <1>12. LandingTypeOK'
    <2>1. queue' \in [Writers -> Seq(BatchType)]
      <3>1. DOMAIN queue' = Writers /\ queue' = [x \in Writers |-> queue'[x]]
        BY <1>0, <1>1 DEF LandingTypeOK
      <3>2. \A x \in Writers : queue'[x] \in Seq(BatchType)
        BY <1>0, <1>5, Types
      <3> QED BY <3>1, <3>2
    <2> QED BY <1>0, <1>1, <2>1 DEF LandingTypeOK, BatchType
  <1>13. InOrder(w)'
    <2>0. InOrder(w)
      BY <1>0 DEF StreamInv
    <2>1. /\ label[w] <= minted
          /\ \A f \in Marks(hold[w].msgs) : f <= label[w]
          /\ \A f \in Marks(riding) : label[w] < f
          /\ \A f \in Marks(mail) : label[w] < f
          /\ Sorted(hold[w].msgs)
      BY <2>0 DEF InOrder
    <2>2. \A k \in 1 .. last - 1 :
             /\ Sorted(queue'[w][k].msgs)
             /\ \A e \in Marks(queue'[w][k].msgs) :
                   /\ label[w] < e /\ e <= minted
                   /\ \A f \in Marks(riding) : e < f
                   /\ \A f \in Marks(mail) : e < f
      BY <1>6, <2>0 DEF InOrder, q, last
    <2>3. \A k, l \in 1 .. last - 1 : k < l =>
             \A e \in Marks(queue'[w][k].msgs), f \in Marks(queue'[w][l].msgs) : e < f
      <3> SUFFICES ASSUME NEW k \in 1 .. last - 1, NEW l \in 1 .. last - 1, k < l
                   PROVE  \A e \in Marks(q[k + 1].msgs), f \in Marks(q[l + 1].msgs) : e < f
        BY <1>6
      <3>1. k + 1 \in 1 .. last /\ l + 1 \in 1 .. last /\ k + 1 < l + 1
        BY <1>3
      <3> QED BY <2>0, <3>1 DEF InOrder, q, last
    <2>4. \A e \in 1 .. minted' :
             Reaches(w, Len(queue[w]), e)' \/ e \in Marks(riding') \/ e \in Marks(mail')
      <3> TAKE e \in 1 .. minted'
      <3>1. PICK n : n = last - 1 /\ n \in 0 .. last - 1 /\ n + 1 = last
        BY <1>1, <1>3
      <3>2. Reaches(w, n, e)' <=> Reaches(w, last, e)
        BY <1>8, <3>1
      <3>3. Reaches(w, n, e)' => Reaches(w, Len(queue[w]), e)'
        BY <1>5, <3>1 DEF Reaches
      <3> QED BY <1>1, <2>0, <3>2, <3>3 DEF InOrder, q, last
    <2> QED BY <1>1, <1>5, <2>1, <2>2, <2>3, <2>4 DEF InOrder
  <1>14. Separated(w)'
    <2> SUFFICES ASSUME NEW e \in Tags, Snapped(e)'
                 PROVE  /\ \A r \in hold'[w].rows :
                              /\ Done(w, e)' => snaps'[e] < r
                              /\ snaps'[e] < r => e <= label'[w] \/ r \in ahead'
                        /\ \A k \in 1 .. Len(queue'[w]) : \A r \in queue'[w][k].rows :
                              /\ Reaches(w, k - 1, e)' => snaps'[e] < r
                              /\ snaps'[e] < r => Reaches(w, k, e)' \/ r \in ahead'
      BY DEF Separated
    <2>1. Snapped(e)
      BY <1>9
    <2>2. \A k \in 1 .. last : \A r \in q[k].rows :
             /\ Reaches(w, k - 1, e) => snaps[e] < r
             /\ snaps[e] < r => Reaches(w, k, e) \/ r \in ahead
      BY <1>0, <2>1 DEF StreamInv, Separated, q, last
    <2>3. \A r \in hold'[w].rows :
             /\ Done(w, e)' => snaps[e] < r
             /\ snaps[e] < r => e <= label'[w] \/ r \in ahead
      BY <1>0, <1>1, <1>9, <2>1 DEF StreamInv, Separated
    <2>4. ASSUME NEW k \in 1 .. last - 1, NEW r \in queue'[w][k].rows
          PROVE  /\ Reaches(w, k - 1, e)' => snaps[e] < r
                 /\ snaps[e] < r => Reaches(w, k, e)' \/ r \in ahead
      <3>1. /\ k \in 0 .. last - 1 /\ k - 1 \in 0 .. last - 1 /\ (k - 1) + 1 = (k + 1) - 1
            /\ k + 1 \in 1 .. last
        BY <1>3
      <3>2. /\ Reaches(w, k, e)' <=> Reaches(w, k + 1, e)
            /\ Reaches(w, k - 1, e)' <=> Reaches(w, (k + 1) - 1, e)
        BY <1>8, <3>1
      <3>3. CASE r \in q[k + 1].rows
        BY <2>2, <3>1, <3>2, <3>3
      <3>4. CASE k = 1 /\ r \in q[1].rows
        <4>1. Reaches(w, 1, e) <=> Reaches(w, 1 - 1, e)
          <5>1. Reaches(w, 1, e) <=> e <= label[w]
            BY <1>7 DEF Reaches, q
          <5>2. Reaches(w, 1 - 1, e) <=> e <= label[w]
            BY DEF Reaches
          <5> QED BY <5>1, <5>2
        <4>2. Reaches(w, 1, e) => Reaches(w, 2, e)
          BY DEF Reaches
        <4>3. /\ Reaches(w, 1 - 1, e) => snaps[e] < r
              /\ snaps[e] < r => Reaches(w, 1, e) \/ r \in ahead
          BY <1>4, <2>2, <3>4
        <4>4. /\ Reaches(w, k, e)' <=> Reaches(w, 2, e)
              /\ Reaches(w, k - 1, e)' <=> Reaches(w, 1, e)
          BY <3>2, <3>4
        <4> QED BY <4>1, <4>2, <4>3, <4>4
      <3> QED BY <1>6, <2>4, <3>3, <3>4
    <2> QED BY <1>1, <1>5, <2>3, <2>4
  <1>15. Uncommitted(w)'
    <2>1. /\ \A r \in hold[w].rows : saved < r /\ r <= pos
          /\ \A k \in 1 .. last : \A r \in q[k].rows : saved < r /\ r <= pos
      BY <1>0 DEF StreamInv, Uncommitted, q, last
    <2>2. \A k \in 1 .. last - 1 : \A r \in queue'[w][k].rows : saved < r /\ r <= pos
      BY <1>4, <1>6, <2>1
    <2> QED BY <1>1, <1>5, <2>1, <2>2 DEF Uncommitted
  <1>16. FinalsCommitted(w)'
    <2>1. /\ \A f \in Finals(hold[w].msgs) : Committed(f)
          /\ \A k \in 1 .. last : \A f \in Finals(q[k].msgs) : Committed(f)
          /\ purgedTo <= label[w]
      BY <1>0 DEF StreamInv, FinalsCommitted, q, last
    <2>2. \A k \in 1 .. last - 1 : \A f \in Finals(queue'[w][k].msgs) : Committed(f)'
      BY <1>6, <1>10, <2>1
    <2> QED BY <1>1, <1>5, <1>10, <2>1, <2>2 DEF FinalsCommitted
  <1>17. ASSUME NEW x \in Writers
         PROVE  StreamInv(x)'
    <2>1. CASE x = w
      BY <1>13, <1>14, <1>15, <1>16, <2>1 DEF StreamInv
    <2>2. CASE x # w
      <3>1. /\ StreamInv(x) /\ purgedTo <= label[x] /\ Sorted(hold[x].msgs)
            /\ label[x] \in Nat /\ minted \in Nat /\ Tags \subseteq Nat
            /\ \A msgs : Marks(msgs) \subseteq Tags /\ Finals(msgs) \subseteq Tags
        BY <1>0, Types DEF LandingInv, StreamInv, InOrder, FinalsCommitted, Tags
      <3> QED BY <1>1, <1>5, <1>9, <1>10, <1>11, <2>2, <3>1, StreamKept
    <2> QED BY <2>1, <2>2
  <1>18. LabelledBefore' /\ Tallied' /\ NothingBelowPurge' /\ (Exchanged \/ ahead' = {})
    BY <1>1, <1>9 DEF LandingInv, LabelledBefore, Tallied, NothingBelowPurge
  <1> QED BY <1>11, <1>12, <1>17, <1>18 DEF LandingInv

\* What Commit does, and why the CHOOSE in it has one candidate.
LEMMA CommitFacts ==
    ASSUME LandingInv, Commit
    PROVE  /\ saved <= saved' /\ saved' <= pos /\ saved' \in Nat
           /\ saved' = saved \/ \E f \in Finals(mail) : saved' = snaps[f]
           /\ failed' \in BOOLEAN /\ (failed => failed')
           /\ \A f \in Finals(mail) : failed' \/ snaps[f] <= saved'
  <1>0. LandingTypeOK /\ Committing
    BY DEF LandingInv
  <1>1. /\ saved \in Nat /\ pos \in Nat /\ saved <= pos /\ minted \in Nat /\ failed \in BOOLEAN
        /\ Finals(mail) \subseteq Tags /\ \A e \in Tags : e \in Nat /\ snaps[e] \in Nat
    <2>1. /\ saved \in Nat /\ pos \in Nat /\ minted \in Nat
          /\ Finals(mail) \subseteq Tags /\ \A e \in Tags : e \in Nat /\ snaps[e] \in Nat
      BY <1>0, Types
    <2>2. pos \in saved .. MaxRow /\ failed \in BOOLEAN /\ MaxRow \in Nat
      BY <1>0, LandingAssumption DEF LandingTypeOK
    <2> QED BY <2>1, <2>2
  <1>2. \A f \in Finals(mail) : Snapped(f) /\ saved <= snaps[f] /\ snaps[f] <= pos
    BY <1>0, <1>1 DEF Committing, Flushed
  <1>3. ASSUME NEW f \in Finals(mail), NEW g \in Finals(mail), f < g
        PROVE  FALSE
    <2>1. g \in 1 .. minted /\ g \notin Marks(mail)
      BY <1>2 DEF Snapped
    <2>2. g \in f + 1 .. minted
      BY <1>1, <1>3, <2>1
    <2> QED BY <1>0, <2>1, <2>2 DEF Committing
  <1>4. \A f, g \in Finals(mail) : f = g
    <2> SUFFICES ASSUME NEW f \in Finals(mail), NEW g \in Finals(mail), f # g
                 PROVE  FALSE
      OBVIOUS
    <2>1. f < g \/ g < f
      BY <1>1
    <2> QED BY <1>3, <2>1
  <1>5. CASE Finals(mail) = {}
    <2>1. saved' = saved /\ failed' = failed
      BY <1>5 DEF Commit, Finals
    <2> QED BY <1>1, <1>5, <2>1
  <1>6. CASE Finals(mail) # {}
    <2>1. PICK f \in Finals(mail) : TRUE
      BY <1>6
    <2>2. (CHOOSE e \in Finals(mail) : TRUE) = f
      BY <1>4, <2>1
    <2>3. (saved' = snaps[f] /\ failed' = failed) \/ (failed' = TRUE /\ saved' = saved)
      BY <1>6, <2>2 DEF Commit, Finals
    <2>4. saved <= snaps[f] /\ snaps[f] <= pos /\ snaps[f] \in Nat
      BY <1>1, <1>2, <2>1
    <2>5. \A g \in Finals(mail) : g = f
      BY <1>4, <2>1
    <2>6. CASE saved' = snaps[f] /\ failed' = failed
      BY <1>1, <2>1, <2>4, <2>5, <2>6
    <2>7. CASE failed' = TRUE /\ saved' = saved
      BY <1>1, <2>7
    <2> QED BY <2>3, <2>6, <2>7
  <1> QED BY <1>5, <1>6

\* A batch put at the end of a queue.
LEMMA Delivered ==
    ASSUME NEW q \in Seq(BatchType), NEW b \in BatchType
    PROVE  /\ Deliver(q, b) \in Seq(BatchType) /\ Len(Deliver(q, b)) \in Nat /\ Len(q) \in Nat
           /\ \A k \in 1 .. Len(q) : Deliver(q, b)[k] = q[k]
           /\ \/ b = Idle /\ Len(Deliver(q, b)) = Len(q)
              \/ Len(Deliver(q, b)) = Len(q) + 1 /\ Deliver(q, b)[Len(q) + 1] = b
  <1>1. CASE b = Idle
    BY <1>1 DEF Deliver
  <1>2. CASE b # Idle
    BY <1>2 DEF Deliver
  <1> QED BY <1>1, <1>2

\* What SourceBatch puts into a queue: at most one batch with rows and at most one
\* with messages, the last; the rows behind which their Markers are left are ahead.
LEMMA BatchSent ==
    ASSUME LandingInv, NEW n \in 0 .. MaxBatch, SourceBatch(n), NEW w \in Writers
    PROVE  \E last \in Nat, len \in Nat :
              /\ last = Len(queue[w]) /\ len = Len(queue'[w]) /\ last <= len
              /\ queue'[w] \in Seq(BatchType)
              /\ \A k \in 1 .. last : queue'[w][k] = queue[w][k]
              /\ \A k \in last + 1 .. len :
                    /\ queue'[w][k].msgs = <<>> \/ (k = len /\ queue'[w][k].msgs = riding)
                    /\ \A r \in queue'[w][k].rows :
                          /\ r \in Rows /\ pos < r /\ r <= pos + n
                          /\ \/ k = len /\ queue'[w][k].msgs = riding
                             \/ Marks(riding) = {} \/ r \in ahead'
              /\ \/ Marks(riding) = {} /\ Finals(riding) = {}
                 \/ last < len /\ queue'[w][len].msgs = riding
  <1>1. /\ MaxRow \in Nat /\ pos \in Nat /\ n \in Nat /\ pos + n <= MaxRow
        /\ riding \in Seq(Messages) /\ queue[w] \in Seq(BatchType) /\ Len(queue[w]) \in Nat
    <2>1. MaxRow \in Nat /\ MaxBatch \in Nat
      BY LandingAssumption
    <2>2. LandingTypeOK /\ riding \in Seq(Messages) /\ pos + n <= MaxRow
      BY DEF LandingInv, LandingTypeOK, SourceBatch
    <2>3. pos \in Nat /\ queue[w] \in Seq(BatchType) /\ Len(queue[w]) \in Nat
      BY <2>2, Types
    <2> QED BY <2>1, <2>2, <2>3
  <1> DEFINE b == Batch(w, n)
             b1 == [rows |-> b.rows, msgs |-> <<>>]
             b2 == [rows |-> {}, msgs |-> riding]
             q == queue[w]
             q1 == Deliver(q, b1)
  <1>2. /\ b.msgs = riding /\ b = [rows |-> b.rows, msgs |-> riding]
        /\ \A r \in b.rows : r \in Rows /\ r \in Fresh(n) /\ pos < r /\ r <= pos + n
    <2>1. b.msgs = riding /\ b.rows = {r \in Fresh(n) : WriterOf[r] = w}
          /\ b = [rows |-> b.rows, msgs |-> riding]
      BY DEF Batch
    <2>2. \A r \in Fresh(n) : r \in Rows /\ pos < r /\ r <= pos + n
      BY <1>1 DEF Rows, Fresh
    <2> HIDE DEF b
    <2> QED BY <2>1, <2>2
  <1>3. queue'[w] = IF Exchanged THEN Deliver(q1, b2) ELSE Deliver(q, b)
    <2>1. b1 = [rows |-> b.rows, msgs |-> <<>>] /\ b2 = [rows |-> {}, msgs |-> b.msgs]
      BY <1>2
    <2>2. queue'[w] = Forward(q, b)
      BY DEF SourceBatch
    <2> HIDE DEF b, b1, b2
    <2> QED BY <2>1, <2>2 DEF Forward
  <1>4. Exchanged /\ Marks(riding) # {} => \A r \in b.rows : r \in ahead'
    <2>1. Exchanged /\ Marks(riding) # {} => ahead' = ahead \cup Fresh(n)
      BY DEF SourceBatch, Marks
    <2> HIDE DEF b
    <2> QED BY <1>2, <2>1
  <1>5. b \in BatchType /\ b1 \in BatchType /\ b2 \in BatchType
    <2> HIDE DEF b
    <2>1. b.rows \in SUBSET Rows /\ <<>> \in Seq(Messages)
      BY <1>2
    <2> QED BY <1>1, <1>2, <2>1 DEF BatchType
  <1>6. (b = Idle \/ b2 = Idle) => Marks(riding) = {} /\ Finals(riding) = {}
    BY <1>2, NoEpochs DEF Idle, Marks, Finals
  <1>7. b1.msgs = <<>> /\ b1.rows = b.rows /\ b2.msgs = riding /\ b2.rows = {}
    OBVIOUS
  <1> HIDE DEF b, b1, b2, q1
  <1>8. CASE ~Exchanged
    <2>1. /\ queue'[w] \in Seq(BatchType) /\ Len(queue'[w]) \in Nat
          /\ \A k \in 1 .. Len(q) : queue'[w][k] = q[k]
          /\ \/ b = Idle /\ Len(queue'[w]) = Len(q)
             \/ Len(queue'[w]) = Len(q) + 1 /\ queue'[w][Len(q) + 1] = b
      <3>1. queue'[w] = Deliver(q, b)
        BY <1>3, <1>8
      <3> DEFINE d == Deliver(q, b)
      <3>2. /\ d \in Seq(BatchType) /\ Len(d) \in Nat
            /\ \A k \in 1 .. Len(q) : d[k] = q[k]
            /\ \/ b = Idle /\ Len(d) = Len(q)
               \/ Len(d) = Len(q) + 1 /\ d[Len(q) + 1] = b
        BY <1>1, <1>5, Delivered
      <3> HIDE DEF d
      <3>3. queue'[w] = d
        BY <3>1 DEF d
      <3> QED BY <3>2, <3>3
    <2> WITNESS Len(queue[w]) \in Nat, Len(queue'[w]) \in Nat
    <2>2. CASE b = Idle /\ Len(queue'[w]) = Len(q)
      <3>1. Len(q) + 1 .. Len(queue'[w]) = {}
        BY <1>1, <2>2
      <3> QED BY <1>1, <1>6, <2>1, <2>2, <3>1
    <2>3. CASE Len(queue'[w]) = Len(q) + 1 /\ queue'[w][Len(q) + 1] = b
      <3>1. \A k \in Len(q) + 1 .. Len(queue'[w]) : k = Len(queue'[w]) /\ queue'[w][k] = b
        BY <1>1, <2>3
      <3> QED BY <1>1, <1>2, <2>1, <2>3, <3>1
    <2> QED BY <2>1, <2>2, <2>3
  <1>9. CASE Exchanged
    <2>1. /\ q1 \in Seq(BatchType) /\ Len(q1) \in Nat
          /\ \A k \in 1 .. Len(q) : q1[k] = q[k]
          /\ \/ Len(q1) = Len(q)
             \/ Len(q1) = Len(q) + 1 /\ q1[Len(q) + 1] = b1
      BY <1>1, <1>5, Delivered DEF q1
    <2>2. /\ queue'[w] \in Seq(BatchType) /\ Len(queue'[w]) \in Nat
          /\ \A k \in 1 .. Len(q1) : queue'[w][k] = q1[k]
          /\ \/ b2 = Idle /\ Len(queue'[w]) = Len(q1)
             \/ Len(queue'[w]) = Len(q1) + 1 /\ queue'[w][Len(q1) + 1] = b2
      <3>1. queue'[w] = Deliver(q1, b2)
        BY <1>3, <1>9
      <3>2. q1 \in Seq(BatchType) /\ b2 \in BatchType
        BY <1>5, <2>1
      <3> DEFINE d == Deliver(q1, b2)
      <3>3. /\ d \in Seq(BatchType) /\ Len(d) \in Nat
            /\ \A k \in 1 .. Len(q1) : d[k] = q1[k]
            /\ \/ b2 = Idle /\ Len(d) = Len(q1)
               \/ Len(d) = Len(q1) + 1 /\ d[Len(q1) + 1] = b2
        BY <3>2, Delivered
      <3> HIDE DEF d
      <3>4. queue'[w] = d
        BY <3>1 DEF d
      <3> QED BY <3>3, <3>4
    <2> HIDE DEF q
    <2>3. /\ Len(q) \in Nat /\ Len(q) <= Len(q1) /\ Len(q1) <= Len(queue'[w])
          /\ \A k \in 1 .. Len(q) : k \in 1 .. Len(q1)
      BY <1>1, <2>1, <2>2 DEF q
    <2>4. \A k \in 1 .. Len(q) : queue'[w][k] = q[k]
      BY <2>1, <2>2, <2>3
    <2>5. \A k \in Len(q) + 1 .. Len(queue'[w]) :
             queue'[w][k] = b1 \/ (k = Len(queue'[w]) /\ queue'[w][k] = b2)
      <3> TAKE k \in Len(q) + 1 .. Len(queue'[w])
      <3>1. CASE k \in 1 .. Len(q1)
        <4>1. Len(q1) = Len(q) + 1 /\ k = Len(q) + 1
          BY <2>1, <2>3, <3>1
        <4> QED BY <2>1, <2>2, <2>3, <3>1, <4>1
      <3>2. CASE k \notin 1 .. Len(q1)
        <4>1. Len(queue'[w]) = Len(q1) + 1 /\ k = Len(q1) + 1
          BY <2>1, <2>2, <2>3, <3>2
        <4> QED BY <2>1, <2>2, <2>3, <4>1
      <3> QED BY <3>1, <3>2
    <2>6. \A k \in Len(q) + 1 .. Len(queue'[w]) :
             /\ queue'[w][k].msgs = <<>> \/ (k = Len(queue'[w]) /\ queue'[w][k].msgs = riding)
             /\ \A r \in queue'[w][k].rows :
                   /\ r \in Rows /\ pos < r /\ r <= pos + n
                   /\ Marks(riding) = {} \/ r \in ahead'
      BY <1>2, <1>4, <1>7, <1>9, <2>5
    <2>7. \/ Marks(riding) = {} /\ Finals(riding) = {}
          \/ Len(q) < Len(queue'[w]) /\ queue'[w][Len(queue'[w])].msgs = riding
      BY <1>6, <1>7, <2>1, <2>2, <2>3
    <2>8. Len(q) <= Len(queue'[w])
      BY <2>1, <2>2, <2>3
    <2> USE DEF q
    <2> WITNESS Len(queue[w]) \in Nat, Len(queue'[w]) \in Nat
    <2> QED BY <2>2, <2>4, <2>6, <2>7, <2>8
  <1> QED BY <1>8, <1>9

\* The positions after it: a Marker that was in the mailbox is recorded now.
LEMMA SnapsTaken ==
    ASSUME LandingInv, NEW n \in 0 .. MaxBatch, SourceBatch(n)
    PROVE  /\ n \in Nat /\ pos \in Nat /\ pos' = pos + n /\ pos' <= MaxRow
           /\ riding' = mail /\ mail' = <<>> /\ Marks(mail') = {} /\ Finals(mail') = {}
           /\ Commit
           /\ UNCHANGED <<landing, tally, life, overtaken, minted, open, hold, label, purgedTo,
                          reported>>
           /\ snaps' \in [Tags -> 0 .. MaxRow]
           /\ \A e \in Tags :
                 Snapped(e)' <=> Snapped(e) \/ (e \in 1 .. minted /\ e \in Marks(mail))
           /\ \A e \in Tags : Snapped(e) => Snapped(e)' /\ snaps'[e] = snaps[e]
           /\ \A e \in Marks(mail) : e \in Tags /\ snaps'[e] = pos + n
           /\ ahead \subseteq ahead' /\ ahead' \subseteq Rows /\ (Exchanged \/ ahead' = {})
  <1>1. /\ pos + n <= MaxRow /\ pos' = pos + n /\ riding' = mail /\ mail' = <<>> /\ Commit
        /\ UNCHANGED <<landing, tally, life, overtaken, minted, open, hold, label, purgedTo,
                       reported>>
        /\ snaps' = [e \in Tags |-> IF e \in Marks(mail) THEN pos + n ELSE snaps[e]]
    BY DEF SourceBatch, Marks
  <1>2. MaxBatch \in Nat /\ MaxRow \in Nat /\ LandingTypeOK
    BY LandingAssumption DEF LandingInv
  <1>3. n \in Nat /\ pos \in Nat
    BY <1>2, Types
  <1>4. Marks(mail') = {} /\ Finals(mail') = {}
    BY <1>1, NoEpochs DEF Marks, Finals
  <1>5. snaps' \in [Tags -> 0 .. MaxRow]
    <2>1. pos + n \in 0 .. MaxRow
      BY <1>1, <1>2, <1>3
    <2> QED BY <1>1, <1>2, <2>1 DEF LandingTypeOK
  <1>6. Marks(mail) \subseteq Tags
    BY <1>2, Types
  <1>7. \A e \in Tags : Snapped(e)' <=> e \in 1 .. minted
    BY <1>1, <1>4 DEF Snapped
  <1>8. ahead \subseteq ahead' /\ ahead' \subseteq Rows /\ (Exchanged \/ ahead' = {})
    <2>1. Fresh(n) \subseteq Rows
      BY <1>1, <1>2, <1>3 DEF Fresh, Rows
    <2>2. ahead \subseteq Rows /\ (Exchanged \/ ahead = {})
      BY <1>2 DEF LandingTypeOK, LandingInv
    <2>3. ahead' = ahead \/ (Exchanged /\ ahead' = ahead \cup Fresh(n))
      BY DEF SourceBatch
    <2> QED BY <2>1, <2>2, <2>3
  <1> QED BY <1>1, <1>3, <1>4, <1>5, <1>6, <1>7, <1>8 DEF Snapped

\* A batch is sent: each stream's part of the invariant.
LEMMA SourceBatchStream ==
    ASSUME LandingInv, NEW n \in 0 .. MaxBatch, SourceBatch(n), NEW w \in Writers
    PROVE  StreamInv(w)'
  <1>0. LandingTypeOK /\ SentInOrder /\ Committing /\ StreamInv(w)
    BY DEF LandingInv
  <1>1. /\ n \in Nat /\ pos \in Nat /\ pos' = pos + n
        /\ riding' = mail /\ Marks(mail') = {}
        /\ UNCHANGED <<landing, tally, life, overtaken, minted, open, hold, label, purgedTo,
                       reported>>
        /\ \A e \in Tags : Snapped(e)' <=> Snapped(e) \/ (e \in 1 .. minted /\ e \in Marks(mail))
        /\ \A e \in Tags : Snapped(e) => Snapped(e)' /\ snaps'[e] = snaps[e]
        /\ \A e \in Marks(mail) : e \in Tags /\ snaps'[e] = pos + n
        /\ ahead \subseteq ahead'
    BY SnapsTaken
  <1>2. PICK last \in Nat, len \in Nat :
              /\ last = Len(queue[w]) /\ len = Len(queue'[w]) /\ last <= len
              /\ queue'[w] \in Seq(BatchType)
              /\ \A k \in 1 .. last : queue'[w][k] = queue[w][k]
              /\ \A k \in last + 1 .. len :
                    /\ queue'[w][k].msgs = <<>> \/ (k = len /\ queue'[w][k].msgs = riding)
                    /\ \A r \in queue'[w][k].rows :
                          /\ r \in Rows /\ pos < r /\ r <= pos + n
                          /\ \/ k = len /\ queue'[w][k].msgs = riding
                             \/ Marks(riding) = {} \/ r \in ahead'
              /\ \/ Marks(riding) = {} /\ Finals(riding) = {}
                 \/ last < len /\ queue'[w][len].msgs = riding
    BY BatchSent
  <1>3. /\ label[w] \in Nat /\ minted \in Nat /\ Tags \subseteq Nat /\ saved \in Nat
        /\ \A e \in Tags : snaps[e] \in Nat
        /\ \A msgs : Marks(msgs) \subseteq Tags /\ Finals(msgs) \subseteq Tags
        /\ \A r \in hold[w].rows : r \in Nat
        /\ \A k \in 1 .. last : \A r \in queue[w][k].rows : r \in Nat
        /\ \A r \in Rows : r \in Nat
    BY <1>0, <1>2, Types DEF Tags
  <1>4. InOrder(w) /\ Separated(w) /\ Uncommitted(w) /\ FinalsCommitted(w)
    BY <1>0 DEF StreamInv
  <1>5. \A k \in 1 .. last : \A e \in Marks(queue[w][k].msgs) :
           /\ label[w] < e /\ e <= minted
           /\ \A f \in Marks(riding) : e < f
           /\ \A f \in Marks(mail) : e < f
    BY <1>2, <1>4 DEF InOrder
  <1>6. \A k \in 0 .. last : \A e : Reaches(w, k, e)' <=> Reaches(w, k, e)
    <2>1. \A k \in 0 .. last : \A j \in 1 .. k : j \in 1 .. last
      BY <1>2
    <2> QED BY <1>1, <1>2, <2>1 DEF Reaches
  <1>7. /\ Marks(<<>>) = {} /\ Finals(<<>>) = {}
        /\ \A k \in 1 .. len : k \in 1 .. last \/ k \in last + 1 .. len
        /\ \A k \in 1 .. last : k \in 1 .. len
        /\ \A k \in last + 1 .. len : k \in 1 .. len /\ k \notin 1 .. last
    BY <1>2, NoEpochs DEF Marks, Finals
  <1>8. \A k \in last + 1 .. len :
           /\ \A e \in Marks(queue'[w][k].msgs) : e \in Marks(riding) /\ k = len
           /\ \A e \in Finals(queue'[w][k].msgs) : e \in Finals(riding)
    BY <1>2, <1>7
  <1>9. \A e : Reaches(w, len, e)' <=> Reaches(w, last, e) \/ e \in Marks(riding)
    <2> TAKE e
    <2>1. Reaches(w, len, e)' <=> e <= label[w] \/ \E k \in 1 .. len : e \in Marks(queue'[w][k].msgs)
      BY <1>1 DEF Reaches
    <2>2. Reaches(w, last, e) <=> e <= label[w] \/ \E k \in 1 .. last : e \in Marks(queue'[w][k].msgs)
      BY <1>2 DEF Reaches
    <2>3. e \in Marks(riding) => len \in 1 .. len /\ e \in Marks(queue'[w][len].msgs)
      BY <1>2
    <2> QED BY <1>7, <1>8, <2>1, <2>2, <2>3
  <1>10. \A e \in 1 .. minted : Reaches(w, last, e) \/ e \in Marks(riding) \/ e \in Marks(mail)
    BY <1>2, <1>4 DEF InOrder
  <1>11. ASSUME NEW e \in Marks(mail)
         PROVE  label[w] < e /\ \A k \in 0 .. len : ~Reaches(w, k, e)'
    <2>1. e \in Nat /\ label[w] < e
      BY <1>3, <1>4, <1>11 DEF InOrder
    <2>2. ASSUME NEW j \in 1 .. len, e \in Marks(queue'[w][j].msgs)
          PROVE  FALSE
      <3>1. CASE j \in 1 .. last
        <4>1. e < e
          BY <1>2, <1>5, <1>11, <2>2, <3>1
        <4> QED BY <2>1, <4>1
      <3>2. CASE j \in last + 1 .. len
        <4>1. e \in Marks(riding)
          BY <1>8, <2>2, <3>2
        <4>2. e < e
          BY <1>0, <1>11, <4>1 DEF SentInOrder
        <4> QED BY <2>1, <4>2
      <3> QED BY <1>7, <3>1, <3>2
    <2>3. \A k \in 0 .. len : \A j \in 1 .. k : j \in 1 .. len
      BY <1>2
    <2>4. ~(e <= label'[w])
      BY <1>1, <1>3, <2>1
    <2> QED BY <2>1, <2>2, <2>3, <2>4 DEF Reaches

  <1>12. InOrder(w)'
    <2>1. /\ label[w] <= minted
          /\ \A f \in Marks(hold[w].msgs) : f <= label[w]
          /\ \A f \in Marks(mail) : label[w] < f
          /\ Sorted(hold[w].msgs)
      BY <1>4 DEF InOrder
    <2>2. \A k \in 1 .. len : \A e \in Marks(queue'[w][k].msgs) :
             label[w] < e /\ e <= minted /\ \A f \in Marks(mail) : e < f
      <3> TAKE k \in 1 .. len
      <3> TAKE e \in Marks(queue'[w][k].msgs)
      <3>1. CASE k \in 1 .. last
        BY <1>2, <1>5, <3>1
      <3>2. CASE k \in last + 1 .. len
        <4>1. e \in Marks(riding)
          BY <1>8, <3>2
        <4> QED BY <1>0, <1>4, <4>1 DEF InOrder, SentInOrder
      <3> QED BY <1>7, <3>1, <3>2
    <2>3. ASSUME NEW k \in 1 .. len, NEW l \in 1 .. len, k < l,
                 NEW e \in Marks(queue'[w][k].msgs), NEW f \in Marks(queue'[w][l].msgs)
          PROVE  e < f
      <3>1. k \in 1 .. last
        <4>1. k # len
          BY <1>2, <2>3
        <4> QED BY <1>7, <1>8, <2>3, <4>1
      <3>2. e \in Marks(queue[w][k].msgs)
        BY <1>2, <2>3, <3>1
      <3>3. CASE l \in 1 .. last
        <4>1. f \in Marks(queue[w][l].msgs)
          BY <1>2, <2>3, <3>3
        <4> QED BY <1>2, <1>4, <2>3, <3>1, <3>2, <3>3, <4>1 DEF InOrder
      <3>4. CASE l \in last + 1 .. len
        <4>1. f \in Marks(riding)
          BY <1>8, <2>3, <3>4
        <4> QED BY <1>5, <3>1, <3>2, <4>1
      <3> QED BY <1>7, <3>3, <3>4
    <2>4. \A e \in 1 .. minted : Reaches(w, Len(queue[w]), e)' \/ e \in Marks(mail)
      <3>1. \A e : Reaches(w, Len(queue[w]), e)' <=> Reaches(w, len, e)'
        BY <1>2 DEF Reaches
      <3> QED BY <1>9, <1>10, <3>1
    <2>5. /\ label'[w] = label[w] /\ minted' = minted /\ hold'[w] = hold[w] /\ riding' = mail
          /\ Len(queue'[w]) = len
      BY <1>1, <1>2
    <2>6. \A k \in 1 .. len : Sorted(queue'[w][k].msgs)
      <3>1. Sorted(<<>>)
        BY DEF Sorted
      <3>2. \A k \in 1 .. last : Sorted(queue'[w][k].msgs)
        BY <1>2, <1>4 DEF InOrder
      <3>3. \A k \in last + 1 .. len : Sorted(queue'[w][k].msgs)
        BY <1>0, <1>2, <3>1 DEF SentInOrder
      <3> QED BY <1>7, <3>2, <3>3
    <2> QED BY <1>1, <2>1, <2>2, <2>3, <2>4, <2>5, <2>6 DEF InOrder
  <1>13. /\ saved <= saved' /\ saved' <= pos /\ saved' \in Nat
         /\ saved' = saved \/ \E f \in Finals(mail) : saved' = snaps[f]
         /\ failed => failed'
    BY CommitFacts, SnapsTaken
  <1>14. \A e \in Tags : Snapped(e) => snaps[e] <= pos
    BY <1>0 DEF Committing
  <1>15. /\ \A r \in hold[w].rows : saved < r /\ r <= pos
         /\ \A k \in 1 .. last : \A r \in queue[w][k].rows : saved < r /\ r <= pos
    BY <1>2, <1>4 DEF Uncommitted
  <1>16. ASSUME NEW e \in Tags, Snapped(e)
         PROVE  /\ \A r \in hold[w].rows :
                      /\ Done(w, e) => snaps[e] < r
                      /\ snaps[e] < r => e <= label[w] \/ r \in ahead
                /\ \A k \in 1 .. last : \A r \in queue[w][k].rows :
                      /\ Reaches(w, k - 1, e) => snaps[e] < r
                      /\ snaps[e] < r => Reaches(w, k, e) \/ r \in ahead
    BY <1>2, <1>4, <1>16 DEF Separated
  <1>17. \A e : Done(w, e)' <=> Done(w, e)
    BY <1>1 DEF Done
  <1>18. Separated(w)'
    <2> SUFFICES ASSUME NEW e \in Tags, Snapped(e)'
                 PROVE  /\ \A r \in hold'[w].rows :
                              /\ Done(w, e)' => snaps'[e] < r
                              /\ snaps'[e] < r => e <= label'[w] \/ r \in ahead'
                        /\ \A k \in 1 .. Len(queue'[w]) : \A r \in queue'[w][k].rows :
                              /\ Reaches(w, k - 1, e)' => snaps'[e] < r
                              /\ snaps'[e] < r => Reaches(w, k, e)' \/ r \in ahead'
      BY DEF Separated
    <2>1. e \in Nat /\ snaps[e] \in Nat
      BY <1>3
    <2>2. CASE Snapped(e)
      <3>1. snaps'[e] = snaps[e] /\ e \in 1 .. minted /\ e \notin Marks(mail) /\ snaps[e] <= pos
        BY <1>1, <1>14, <2>2 DEF Snapped
      <3>2. \A r \in hold'[w].rows :
               /\ Done(w, e)' => snaps'[e] < r
               /\ snaps'[e] < r => e <= label'[w] \/ r \in ahead'
        BY <1>1, <1>16, <1>17, <2>2, <3>1
      <3>3. ASSUME NEW k \in 1 .. last, NEW r \in queue'[w][k].rows
            PROVE  /\ Reaches(w, k - 1, e)' => snaps'[e] < r
                   /\ snaps'[e] < r => Reaches(w, k, e)' \/ r \in ahead'
        <4>1. k \in 0 .. last /\ k - 1 \in 0 .. last /\ r \in queue[w][k].rows
          BY <1>2, <3>3
        <4>2. (Reaches(w, k, e)' <=> Reaches(w, k, e)) /\ (Reaches(w, k - 1, e)' <=> Reaches(w, k - 1, e))
          BY <1>6, <4>1
        <4> QED BY <1>1, <1>16, <2>2, <3>1, <4>1, <4>2
      <3>4. ASSUME NEW k \in last + 1 .. len, NEW r \in queue'[w][k].rows
            PROVE  snaps'[e] < r /\ (Reaches(w, k, e)' \/ r \in ahead')
        <4>1. r \in Nat /\ pos < r
          BY <1>2, <1>3, <3>4
        <4>2. snaps'[e] < r
          BY <1>1, <2>1, <3>1, <4>1
        <4>3. CASE k = len /\ queue'[w][k].msgs = riding
          BY <1>9, <1>10, <3>1, <4>2, <4>3
        <4>4. CASE Marks(riding) = {}
          <5>1. Reaches(w, last, e)
            BY <1>10, <3>1, <4>4
          <5>2. Reaches(w, last, e)'
            BY <1>2, <1>6, <5>1
          <5>3. \A j \in 1 .. last : j \in 1 .. k
            BY <1>2
          <5>4. Reaches(w, k, e)'
            BY <5>2, <5>3 DEF Reaches
          <5> QED BY <4>2, <5>4
        <4>5. CASE r \in ahead'
          BY <4>2, <4>5
        <4> QED BY <1>2, <3>4, <4>3, <4>4, <4>5
      <3> QED BY <1>2, <1>7, <3>2, <3>3, <3>4
    <2>3. CASE e \in 1 .. minted /\ e \in Marks(mail)
      <3>1. snaps'[e] = pos + n /\ label[w] < e /\ \A k \in 0 .. len : ~Reaches(w, k, e)'
        BY <1>1, <1>11, <2>3
      <3>2. \A r \in hold'[w].rows : ~Done(w, e)' /\ ~(snaps'[e] < r)
        <4>1. ~Done(w, e)'
          BY <1>1, <1>3, <2>1, <3>1 DEF Done
        <4>2. \A r \in hold'[w].rows : ~(snaps'[e] < r)
          BY <1>1, <1>3, <1>15, <3>1
        <4> QED BY <4>1, <4>2
      <3>3. \A k \in 1 .. len : \A r \in queue'[w][k].rows : ~(snaps'[e] < r)
        <4> TAKE k \in 1 .. len
        <4> TAKE r \in queue'[w][k].rows
        <4>1. CASE k \in 1 .. last
          <5>1. r \in queue[w][k].rows
            BY <1>2, <4>1
          <5>2. r \in Nat /\ r <= pos
            BY <1>3, <1>15, <4>1, <5>1
          <5> QED BY <1>1, <3>1, <5>2
        <4>2. CASE k \in last + 1 .. len
          <5>1. r \in Nat /\ r <= pos + n
            BY <1>2, <1>3, <4>2
          <5> QED BY <1>1, <3>1, <5>1
        <4> QED BY <1>7, <4>1, <4>2
      <3>4. \A k \in 1 .. len : k - 1 \in 0 .. len
        BY <1>2
      <3> QED BY <1>2, <3>1, <3>2, <3>3, <3>4
    <2> QED BY <1>1, <2>2, <2>3
  <1>19. Uncommitted(w)'
    <2>1. \A f \in Finals(mail) : f \in Tags /\ Snapped(f) /\ Done(w, f) /\ f <= label[w]
      BY <1>0, <1>3 DEF Committing, Flushed, Done
    <2>2. \A r \in hold[w].rows : saved' < r /\ r <= pos'
      <3> TAKE r \in hold[w].rows
      <3>1. r \in Nat /\ saved < r /\ r <= pos
        BY <1>3, <1>15
      <3>2. \A f \in Finals(mail) : snaps[f] < r
        BY <1>16, <2>1
      <3> QED BY <1>1, <1>13, <3>1, <3>2
    <2>3. \A k \in 1 .. last : \A r \in queue'[w][k].rows : saved' < r /\ r <= pos'
      <3> TAKE k \in 1 .. last
      <3> TAKE r \in queue'[w][k].rows
      <3>0. r \in queue[w][k].rows
        BY <1>2
      <3>1. r \in Nat /\ saved < r /\ r <= pos
        BY <1>3, <1>15, <3>0
      <3>2. \A f \in Finals(mail) : snaps[f] < r
        BY <1>16, <2>1, <3>0 DEF Reaches
      <3> QED BY <1>1, <1>13, <3>1, <3>2
    <2>4. \A k \in last + 1 .. len : \A r \in queue'[w][k].rows : saved' < r /\ r <= pos'
      <3> TAKE k \in last + 1 .. len
      <3> TAKE r \in queue'[w][k].rows
      <3>1. r \in Nat /\ pos < r /\ r <= pos + n
        BY <1>2, <1>3
      <3> QED BY <1>1, <1>13, <3>1
    <2> QED BY <1>1, <1>2, <1>7, <2>2, <2>3, <2>4 DEF Uncommitted
  <1>20. FinalsCommitted(w)'
    <2>1. \A f \in Tags : Committed(f) => Committed(f)'
      <3> TAKE f \in Tags
      <3>1. Flushed(f) => Flushed(f)' /\ snaps'[f] = snaps[f]
        BY <1>1 DEF Flushed, Done
      <3>2. snaps[f] \in Nat
        BY <1>3
      <3> QED BY <1>3, <1>13, <3>1, <3>2 DEF Committed
    <2>2. /\ \A f \in Finals(hold[w].msgs) : Committed(f)'
          /\ \A k \in 1 .. last : \A f \in Finals(queue[w][k].msgs) : Committed(f)'
          /\ \A f \in Finals(riding) : Committed(f)'
          /\ purgedTo <= label[w]
      BY <1>0, <1>2, <1>3, <1>4, <2>1 DEF FinalsCommitted, Committing
    <2>3. ASSUME NEW k \in 1 .. len, NEW f \in Finals(queue'[w][k].msgs)
          PROVE  Committed(f)'
      BY <1>2, <1>7, <1>8, <2>2, <2>3
    <2> QED BY <1>1, <1>2, <2>2, <2>3 DEF FinalsCommitted
  <1> QED BY <1>12, <1>18, <1>19, <1>20 DEF StreamInv

\* A batch is sent, and a Finalizer that was in the mailbox commits.
LEMMA SourceBatchInv ==
    ASSUME LandingInv, NEW n \in 0 .. MaxBatch, SourceBatch(n)
    PROVE  LandingInv'
  <1>0. LandingTypeOK /\ SentInOrder /\ Committing /\ LabelledBefore
    BY DEF LandingInv
  <1>1. /\ n \in Nat /\ pos \in Nat /\ pos' = pos + n /\ pos' <= MaxRow
        /\ riding' = mail /\ mail' = <<>> /\ Marks(mail') = {} /\ Finals(mail') = {}
        /\ UNCHANGED <<landing, tally, life, overtaken, minted, open, hold, label, purgedTo,
                       reported>>
        /\ snaps' \in [Tags -> 0 .. MaxRow]
        /\ \A e \in Tags : Snapped(e)' <=> Snapped(e) \/ (e \in 1 .. minted /\ e \in Marks(mail))
        /\ \A e \in Tags : Snapped(e) => Snapped(e)' /\ snaps'[e] = snaps[e]
        /\ \A e \in Marks(mail) : e \in Tags /\ snaps'[e] = pos + n
        /\ ahead \subseteq ahead' /\ ahead' \subseteq Rows /\ (Exchanged \/ ahead' = {})
    BY SnapsTaken
  <1>2. /\ saved <= saved' /\ saved' <= pos /\ saved' \in Nat
        /\ saved' = saved \/ \E f \in Finals(mail) : saved' = snaps[f]
        /\ failed' \in BOOLEAN /\ (failed => failed')
        /\ \A f \in Finals(mail) : failed' \/ snaps[f] <= saved'
    BY CommitFacts, SnapsTaken
  <1>3. /\ MaxRow \in Nat /\ saved \in Nat /\ minted \in Nat
        /\ \A e \in Tags : e \in Nat /\ snaps[e] \in Nat
        /\ \A r \in Rows : r \in Nat
        /\ \A msgs : Marks(msgs) \subseteq Tags /\ Finals(msgs) \subseteq Tags
    BY <1>0, Types
  <1>4. LandingTypeOK'
    <2>1. queue' \in [Writers -> Seq([rows : SUBSET Rows, msgs : Seq(Messages)])]
      <3>1. DOMAIN queue' = Writers /\ queue' = [w \in Writers |-> queue'[w]]
        BY DEF SourceBatch
      <3>2. \A w \in Writers : queue'[w] \in Seq(BatchType)
        BY BatchSent
      <3> QED BY <3>1, <3>2 DEF BatchType
    <2>2. saved' \in 0 .. MaxRow /\ pos' \in saved' .. MaxRow
      BY <1>1, <1>2, <1>3
    <2>3. mail' \in Seq(Messages) /\ riding' \in Seq(Messages)
      BY <1>0, <1>1 DEF LandingTypeOK
    <2> QED BY <1>0, <1>1, <1>2, <2>1, <2>2, <2>3 DEF LandingTypeOK
  <1>5. SentInOrder'
    <2>1. Sorted(mail')
      BY <1>1 DEF Sorted
    <2> QED BY <1>0, <1>1, <2>1 DEF SentInOrder
  <1>6. \A w \in Writers : StreamInv(w)'
    BY SourceBatchStream
  <1>7. LabelledBefore'
    <2>1. \A r \in Rows : landing[r].by <= life /\ (landing[r].by = life => r <= pos + n)
      BY <1>0, <1>1, <1>3 DEF LabelledBefore
    <2>2. ASSUME NEW r \in Rows, NEW e \in Tags, Snapped(e)', landing[r] # Absent,
                 landing[r].by = life, landing[r].label < e
          PROVE  r <= snaps'[e] \/ r \in ahead'
      <3>1. CASE Snapped(e)
        BY <1>0, <1>1, <2>2, <3>1 DEF LabelledBefore
      <3>2. CASE e \in Marks(mail)
        BY <1>1, <2>1, <2>2, <3>2
      <3> QED BY <1>1, <2>2, <3>1, <3>2
    <2> QED BY <1>1, <2>1, <2>2 DEF LabelledBefore
  <1>8. Committing'
    <2>1. \A e \in Tags : Snapped(e)' => snaps'[e] <= pos'
      <3> SUFFICES ASSUME NEW e \in Tags, Snapped(e)'
                   PROVE  snaps'[e] <= pos'
        OBVIOUS
      <3>1. CASE Snapped(e)
        <4>1. snaps[e] <= pos /\ snaps'[e] = snaps[e] /\ snaps[e] \in Nat
          BY <1>0, <1>1, <1>3, <3>1 DEF Committing
        <4> QED BY <1>1, <4>1
      <3>2. CASE e \in Marks(mail)
        BY <1>1, <3>2
      <3> QED BY <1>1, <3>1, <3>2
    <2>2. ASSUME NEW f \in Finals(mail)
          PROVE  Committed(f)'
      <3>1. f \in Tags /\ Flushed(f)
        BY <1>0, <1>3, <2>2 DEF Committing
      <3>2. Flushed(f)' /\ snaps'[f] = snaps[f]
        BY <1>1, <3>1 DEF Flushed, Done
      <3> QED BY <1>2, <2>2, <3>2 DEF Committed
    <2>3. open # NoTag => \A w \in reported : Done(w, open)'
      BY <1>0, <1>1 DEF Committing, Done
    <2>4. ASSUME open # NoTag, Snapped(open)'
          PROVE  saved' <= snaps'[open]
      <3>1. open = minted /\ open \in Tags
        <4>1. open = minted
          BY <1>0, <2>4 DEF LandingTypeOK
        <4>2. minted \in 0 .. MaxTag /\ minted # 0 /\ MaxTag \in Nat
          BY <1>0, <2>4, <4>1, LandingAssumption DEF LandingTypeOK, NoTag
        <4> QED BY <4>1, <4>2 DEF Tags
      <3>2. CASE open \in Marks(mail)
        BY <1>1, <1>2, <3>2
      <3>3. CASE Snapped(open)
        <4>1. saved <= snaps[open] /\ snaps'[open] = snaps[open]
          BY <1>0, <1>1, <2>4, <3>1, <3>3 DEF Committing
        <4>2. Finals(mail) = {}
          <5> SUFFICES ASSUME NEW f \in Finals(mail)
                       PROVE  FALSE
            OBVIOUS
          <5>1. f \in Nat /\ f # open /\ Snapped(f) /\ \A e \in f + 1 .. minted : e \in Marks(mail)
            BY <1>0, <1>3 DEF Committing, Flushed
          <5>2. f <= minted
            BY <1>3, <5>1 DEF Snapped
          <5>3. open \in f + 1 .. minted
            BY <1>3, <3>1, <5>1, <5>2
          <5> QED BY <3>3, <5>1, <5>3 DEF Snapped
        <4> QED BY <1>2, <4>1, <4>2
      <3> QED BY <1>1, <2>4, <3>1, <3>2, <3>3
    <2> QED BY <1>1, <2>1, <2>2, <2>3, <2>4 DEF Committing
  <1>9. Tallied'
    <2>1. Tallied
      BY DEF LandingInv
    <2>2. CASE failed \/ overtaken
      BY <1>1, <1>2, <2>2 DEF Tallied
    <2>3. CASE ~failed /\ ~overtaken
      <3>1. \A r \in Rows :
               r \in ahead \/ (tally[r] <= 1 /\ (tally[r] = 1 /\ landing[r] = Absent => r <= saved))
        BY <2>1, <2>3 DEF Tallied
      <3>2. \A r \in Rows : r <= saved => r <= saved'
        BY <1>2, <1>3
      <3> QED BY <1>1, <3>1, <3>2 DEF Tallied
    <2> QED BY <2>2, <2>3
  <1>10. NothingBelowPurge'
    BY <1>1 DEF LandingInv, NothingBelowPurge
  <1> QED BY <1>1, <1>4, <1>5, <1>6, <1>7, <1>8, <1>9, <1>10 DEF LandingInv

-----------------------------------------------------------------------------
(* The theorems.                                                            *)

\* The first process starts with an empty table and nothing on its way.
LEMMA LandingInitInv ==
    ASSUME LandingInit
    PROVE  LandingInv
  <1>1. MaxRow \in Nat /\ MaxTag \in Nat /\ MaxLife \in Nat \ {0}
    BY LandingAssumption
  <1>2. LandingTypeOK
    <2>1. Idle \in [rows : SUBSET Rows, msgs : Seq(Messages)]
      BY DEF Idle
    <2>2. Absent \in [label : {0} \cup Tags, by : 0 .. MaxLife]
      BY <1>1 DEF Absent
    <2>3. /\ hold \in [Writers -> [rows : SUBSET Rows, msgs : Seq(Messages)]]
          /\ queue \in [Writers -> Seq([rows : SUBSET Rows, msgs : Seq(Messages)])]
          /\ landing \in [Rows -> [label : {0} \cup Tags, by : 0 .. MaxLife]]
      BY <2>1, <2>2 DEF LandingInit
    <2>4. /\ saved \in 0 .. MaxRow /\ pos \in saved .. MaxRow /\ life \in 1 .. MaxLife
          /\ minted \in 0 .. MaxTag /\ open \in {NoTag, minted} /\ purgedTo \in 0 .. MaxTag
          /\ reported \subseteq Writers
      <3>1. MaxLife \in Nat /\ 1 <= MaxLife
        BY <1>1
      <3>2. saved = 0 /\ pos = 0 /\ life = 1 /\ minted = 0 /\ open = NoTag /\ purgedTo = 0
        BY DEF LandingInit
      <3> QED BY <1>1, <3>1, <3>2 DEF LandingInit
    <2>5. failed \in BOOLEAN /\ overtaken \in BOOLEAN /\ ahead \subseteq Rows
      BY DEF LandingInit
    <2>6. /\ tally \in [Rows -> Nat] /\ snaps \in [Tags -> 0 .. MaxRow]
          /\ label \in [Writers -> 0 .. MaxTag]
          /\ mail \in Seq(Messages) /\ riding \in Seq(Messages)
      BY <1>1 DEF LandingInit
    <2> QED BY <2>3, <2>4, <2>5, <2>6 DEF LandingTypeOK
  <1>3. Marks(<<>>) = {} /\ Finals(<<>>) = {}
    BY NoEpochs DEF Marks, Finals
  <1>4. \A e : ~Snapped(e)
    BY DEF Snapped, LandingInit
  <1>5. \A r \in Rows : landing[r] = Absent /\ landing[r].by = 0 /\ tally[r] = 0
    BY DEF LandingInit, Absent
  <1>6. SentInOrder /\ Committing /\ LabelledBefore /\ Sorted(<<>>)
    <2>1. Sorted(<<>>)
      BY DEF Sorted
    <2> QED BY <1>3, <1>4, <1>5, <2>1 DEF LandingInit, SentInOrder, Committing, LabelledBefore
  <1>7. ASSUME NEW w \in Writers
        PROVE  StreamInv(w)
    <2>1. /\ queue[w] = <<>> /\ hold[w].rows = {} /\ hold[w].msgs = <<>> /\ label[w] = 0
          /\ Len(queue[w]) = 0
      BY DEF LandingInit, Idle
    <2> QED BY <1>3, <1>4, <1>6, <2>1
            DEF LandingInit, StreamInv, InOrder, Separated, Uncommitted, FinalsCommitted
  <1>8. Tallied /\ NothingBelowPurge /\ ahead = {}
    BY <1>5 DEF Tallied, NothingBelowPurge, LandingInit
  <1> QED BY <1>2, <1>6, <1>7, <1>8 DEF LandingInv

\* A step that changes nothing.
LEMMA LandingStutter ==
    ASSUME LandingInv, UNCHANGED landingVars
    PROVE  LandingInv'
  <1>1. UNCHANGED <<saved, landing, tally, life, failed, overtaken, ahead, pos, mail, riding,
                    snaps, minted, open, queue, hold, label, purgedTo, reported>>
    BY DEF landingVars, durableVars, sourceVars, writerVars
  <1>2. \A e : (Snapped(e)' <=> Snapped(e)) /\ \A w : Done(w, e)' <=> Done(w, e)
    BY <1>1 DEF Snapped, Done
  <1>3. \A f : (Flushed(f)' <=> Flushed(f)) /\ (Committed(f)' <=> Committed(f))
    BY <1>1, <1>2 DEF Flushed, Committed
  <1>4. ASSUME NEW w \in Writers
        PROVE  StreamInv(w)'
    <2>1. \A k, e : Reaches(w, k, e)' <=> Reaches(w, k, e)
      BY <1>1 DEF Reaches
    <2>2. StreamInv(w)
      BY DEF LandingInv
    <2>3. InOrder(w)'
      BY <1>1, <2>1, <2>2 DEF StreamInv, InOrder
    <2>4. Separated(w)'
      BY <1>1, <1>2, <2>1, <2>2 DEF StreamInv, Separated
    <2>5. Uncommitted(w)' /\ FinalsCommitted(w)'
      BY <1>1, <1>3, <2>2 DEF StreamInv, Uncommitted, FinalsCommitted
    <2> QED BY <2>3, <2>4, <2>5 DEF StreamInv
  <1>5. LandingTypeOK' /\ SentInOrder'
    BY <1>1 DEF LandingInv, LandingTypeOK, SentInOrder
  <1>6. LabelledBefore' /\ Tallied' /\ NothingBelowPurge' /\ (Exchanged \/ ahead' = {})
    BY <1>1, <1>2 DEF LandingInv, LabelledBefore, Tallied, NothingBelowPurge
  <1>7. Committing'
    BY <1>1, <1>2, <1>3 DEF LandingInv, Committing
  <1> QED BY <1>4, <1>5, <1>6, <1>7 DEF LandingInv

\* Every step of the source, the coordinator, the streams and a restart keeps it.
LEMMA LandingNextInv ==
    ASSUME LandingInv, [LandingNext]_landingVars
    PROVE  LandingInv'
  <1>1. CASE MintEpoch
    BY <1>1, MintEpochInv
  <1>2. CASE EpochTimesOut
    BY <1>2, EpochTimesOutInv
  <1>3. CASE SourceStep
    BY <1>3, SourceBatchInv DEF SourceStep
  <1>4. CASE Restart
    BY <1>4, RestartInv
  <1>5. CASE LandingOver
    BY <1>5, LandingStutter DEF LandingOver
  <1>6. ASSUME NEW w \in Writers, StreamStep(w)
        PROVE  LandingInv'
    <2>0. CASE Rebatch(w)
      BY <2>0, RebatchInv
    <2>1. CASE TakeBatch(w)
      BY <2>1, TakeBatchInv
    <2>2. CASE InsertRows(w)
      BY <2>2, InsertRowsInv
    <2>3. ASSUME NEW e \in Tags, FlushMarker(w, e)
          PROVE  LandingInv'
      BY <2>3, FlushMarkerInv
    <2>4. ASSUME NEW e \in Tags, PurgeFinalized(w, e)
          PROVE  LandingInv'
      BY <2>4, PurgeFinalizedInv
    <2> QED BY <1>6, <2>0, <2>1, <2>2, <2>3, <2>4 DEF StreamStep
  <1>7. CASE UNCHANGED landingVars
    BY <1>7, LandingStutter
  <1> QED BY <1>1, <1>2, <1>3, <1>4, <1>5, <1>6, <1>7 DEF LandingNext

\* The invariant holds in every state of every run.
LEMMA LandingInvHolds == LandingSpec => []LandingInv
  BY LandingInitInv, LandingNextInv, PTL DEF LandingSpec

\* Type correctness: positions, labels, queues and what the streams hold stay in their sets.
THEOREM LandingTypes == LandingSpec => []LandingTypeOK
  <1>1. LandingInv => LandingTypeOK
    BY DEF LandingInv
  <1> QED BY <1>1, LandingInvHolds, PTL

\* A row that a process reads again is found in the landing table, and not added to the
\* aggregates a second time, unless a commit has failed, a purge took a row that was
\* not committed and that another process had labelled, or the exchange had sent the
\* row on ahead of a Marker of its batch.
THEOREM OvertakenOnly == LandingSpec => []CountedTwiceOnlyIfOvertaken
  <1>1. LandingInv => CountedTwiceOnlyIfOvertaken
    BY DEF LandingInv, Tallied, CountedTwiceOnlyIfOvertaken
  <1> QED BY <1>1, LandingInvHolds, PTL

\* A sink without an exchange before it, so with one write stream, counts a row twice
\* for the first two reasons only.
THEOREM OvertakenOnlyUnexchanged ==
    ASSUME ~Exchanged
    PROVE  LandingSpec => []CountedOnceUnlessOvertaken
  <1>1. LandingInv => CountedOnceUnlessOvertaken
    BY DEF LandingInv, Tallied, CountedOnceUnlessOvertaken, CountedOnce
  <1> QED BY <1>1, LandingInvHolds, PTL

\* Deleting the labels up to N-1 leaves no row of an earlier epoch behind, however far
\* the write streams are apart when one of them acts on Finalizer N.
THEOREM PurgeLeavesNothing == LandingSpec => []NothingBelowPurge
  <1>1. LandingInv => NothingBelowPurge
    BY DEF LandingInv
  <1> QED BY <1>1, LandingInvHolds, PTL

==============================================================================
