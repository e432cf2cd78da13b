---------------------------- MODULE StreamProofs ----------------------------
(***************************************************************************)
(* Where streams merge and where a stream fans out, the promises that the  *)
(* acks rest on hold for any inputs, outputs, sinks, batches, epochs and   *)
(* channel sizes.                                                          *)
(*                                                                         *)
(* A merge point implements the marker barrier.  An acked epoch of the     *)
(* exchange covers only written rows, although a router that was cut off   *)
(* by a failed output looks like the clean end of its input to the others. *)
(* A consumer of the broadcast has no gap, although it may be given up     *)
(* under a shutdown, and a write that ends cleanly has received            *)
(* everything.                                                             *)
(***************************************************************************)
EXTENDS MergePoint, Broadcast, Exchange, FiniteSetTheorems, TLAPS

-----------------------------------------------------------------------------
(* The merge point.                                                        *)

(* Two disjoint parts of a finite set that together are as large as the set *)
(* are all of it: how the aligner's counter stands for "every input".       *)
LEMMA TwoPartsFill ==
    ASSUME NEW S, IsFiniteSet(S), NEW A \in SUBSET S, NEW B \in SUBSET S,
           A \cap B = {}, Cardinality(A) + Cardinality(B) >= Cardinality(S)
    PROVE  A \cup B = S
<1>1. /\ IsFiniteSet(A) /\ IsFiniteSet(B) /\ IsFiniteSet(A \cup B)
      /\ Cardinality(A) \in Nat /\ Cardinality(B) \in Nat /\ Cardinality(S) \in Nat
  BY FS_Subset, FS_Union, FS_CardinalityType
<1>2. Cardinality(A \cap B) = 0
  BY FS_EmptySet
<1>3. Cardinality(A \cup B) = Cardinality(A) + Cardinality(B) - Cardinality(A \cap B)
  BY <1>1, FS_Union
<1>4. A \cup B \in SUBSET S
  OBVIOUS
<1>5. Cardinality(A \cup B) <= Cardinality(S) /\ (Cardinality(S) = Cardinality(A \cup B) => S = A \cup B)
  BY <1>4, FS_Subset
<1>6. Cardinality(A \cup B) = Cardinality(S)
  BY <1>1, <1>2, <1>3, <1>5
<1> QED
  BY <1>5, <1>6

(* The cardinalities the aligner computes are natural numbers.              *)
LEMMA Cards ==
    ASSUME NEW A \in SUBSET Inputs
    PROVE  /\ IsFiniteSet(A) /\ Cardinality(A) \in Nat
           /\ \A i \in Inputs : i \notin A => Cardinality(A \cup {i}) = Cardinality(A) + 1
  BY InputsAssumption, FS_Subset, FS_CardinalityType, FS_AddElement

(* Enough copies mean that every input has delivered the epoch or ended     *)
(* before it.                                                               *)
LEMMA EnoughIsAll ==
    ASSUME TypeOK, NEW e \in Epochs, NEW A \in SUBSET Inputs, NEW done \in SUBSET Inputs,
           \A i \in A : e \in delivered[i],
           NEW n \in Nat, n <= Cardinality(A), n >= Required(done, e)
    PROVE  \A i \in Inputs : i \in A \/ i \in done
<1> DEFINE B == FinishedBefore(done, e)
<1>1. A \cap B = {} /\ B \subseteq done
  BY DEF FinishedBefore, TypeOK, AlignerTypeOK, Epochs
<1>2. /\ Cardinality(A) \in Nat /\ Cardinality(B) \in Nat /\ Cardinality(Inputs) \in Nat
  BY <1>1, Cards
<1>3. Cardinality(A) + Cardinality(B) >= Cardinality(Inputs)
  BY <1>2 DEF Required
<1>4. A \cup B = Inputs
  BY <1>1, <1>3, TwoPartsFill, InputsAssumption
<1> QED
  BY <1>1, <1>4

-----------------------------------------------------------------------------
(* What has been delivered stays delivered and what has ended stays ended,  *)
(* so an epoch that is aligned stays aligned.                               *)
LEMMA AlignedStays ==
    ASSUME IndInv, [Next]_vars
    PROVE  /\ \A i \in Inputs : Observed(i) \subseteq Observed(i)'
           /\ Ended \subseteq Ended'
           /\ \A e \in Epochs : Aligned(e) => Aligned(e)'
<1> USE DEF IndInv, TypeOK, AlignerTypeOK, HandIsNew
<1>1. /\ \A i \in Inputs : Observed(i) \subseteq Observed(i)'
      /\ Ended \subseteq Ended'
  <2> USE DEF Observed, Ended, mergeVars
  <2>1. CASE UNCHANGED <<pc, hand, delivered>>
    BY <2>1
  <2>2. ASSUME NEW j \in Inputs, NEW ms \in SUBSET Epochs, ReadInput(j, ms)
        PROVE  <1>1!1 /\ <1>1!2
    BY <2>2 DEF ReadInput
  <2>3. ASSUME NEW j \in Inputs, ForwardRows(j) PROVE <1>1!1 /\ <1>1!2
    BY <2>3 DEF ForwardRows
  <2>4. ASSUME NEW j \in Inputs, Observe(j) PROVE <1>1!1 /\ <1>1!2
    BY <2>4 DEF Observe
  <2>5. ASSUME NEW j \in Inputs, SendReleased(j) \/ Abandon(j) PROVE <1>1!1 /\ <1>1!2
    BY <2>5 DEF SendReleased, Abandon
  <2>6. ASSUME NEW j \in Inputs, EndInput(j) \/ FailInput(j) PROVE <1>1!1 /\ <1>1!2
    BY <2>6 DEF EndInput, FailInput
  <2> QED
    BY <2>1, <2>2, <2>3, <2>4, <2>5, <2>6
       DEF Next, Forwarder, ReadFinalizer, DropReceiver, Done, vars
<1> QED
  BY <1>1 DEF Aligned

(* A merge point that has read nothing satisfies the invariant.             *)
LEMMA InitInv == Init => IndInv
<1> SUFFICES ASSUME Init PROVE IndInv
  OBVIOUS
<1> USE DEF Init, AlignerInit
<1>1. TypeOK
  BY DEF TypeOK, AlignerTypeOK
<1>2. FinishedIsEnded /\ HandIsNew
  BY DEF FinishedIsEnded, HandIsNew, Ended
<1>3. CountIsBounded
  <2>1. \A e \in Epochs : Cardinality(Counted(e)) \in Nat
    BY Cards DEF Counted
  <2> QED
    BY <2>1 DEF CountIsBounded
<1>4. ReleasedIsAligned /\ OneCopy /\ NotRevived
  BY DEF ReleasedIsAligned, OneCopy, NotRevived, Sending
<1> QED
  BY <1>1, <1>2, <1>3, <1>4 DEF IndInv

(* The types, the aligner's set of ended inputs and the Markers in hand.    *)
LEMMA NextShape == IndInv /\ [Next]_vars => TypeOK' /\ FinishedIsEnded' /\ HandIsNew'
<1> SUFFICES ASSUME IndInv, [Next]_vars PROVE TypeOK' /\ FinishedIsEnded' /\ HandIsNew'
  OBVIOUS
<1> USE DEF IndInv, TypeOK, AlignerTypeOK, FinishedIsEnded, HandIsNew, Ended, alignerVars, mergeVars
<1> DEFINE Shape == TypeOK /\ FinishedIsEnded /\ HandIsNew
<1>1. CASE UNCHANGED vars
  BY <1>1 DEF vars
<1>2. ASSUME NEW i \in Inputs, NEW ms \in SUBSET Epochs, ReadInput(i, ms) PROVE Shape'
  BY <1>2 DEF ReadInput
<1>3. ASSUME NEW i \in Inputs, ForwardRows(i) PROVE Shape'
  BY <1>3 DEF ForwardRows
<1>4. ASSUME NEW i \in Inputs, Observe(i) PROVE Shape'
  <2>1. Completed(hand[i]) \subseteq Epochs
    BY DEF Completed
  <2> QED
    BY <1>4, <2>1 DEF Observe, ObserveMarkers
<1>5. ASSUME NEW i \in Inputs, NEW f \in Epochs, ReadFinalizer(i, f) PROVE Shape'
  BY <1>5 DEF ReadFinalizer, ObserveFinalizer
<1>6. ASSUME NEW i \in Inputs, SendReleased(i) PROVE Shape'
  BY <1>6 DEF SendReleased
<1>7. ASSUME NEW i \in Inputs, EndInput(i) PROVE Shape'
  <2>1. Unblocked(i) \subseteq Epochs
    BY DEF Unblocked
  <2> QED
    BY <1>7, <2>1 DEF EndInput, InputDone
<1>8. ASSUME NEW i \in Inputs, FailInput(i) PROVE Shape'
  BY <1>8 DEF FailInput
<1>9. ASSUME NEW i \in Inputs, Abandon(i) PROVE Shape'
  BY <1>9 DEF Abandon
<1>10. CASE DropReceiver
  BY <1>10 DEF DropReceiver
<1> QED
  BY <1>1, <1>2, <1>3, <1>4, <1>5, <1>6, <1>7, <1>8, <1>9, <1>10 DEF Next, Forwarder, Done

-----------------------------------------------------------------------------
(* A forwarder about to ask the aligner about e has not been counted for e  *)
(* and has not ended, so e is neither released nor on its way.              *)
LEMMA FreshCopy ==
    ASSUME IndInv, NEW i \in Inputs, pc[i] = "observe", NEW e \in hand[i]
    PROVE  /\ e \in Epochs /\ e \in delivered[i] /\ i \notin Counted(e)
           /\ ~ released[e] /\ passed[e] = 0 /\ \A j \in Inputs : e \notin Sending(j)
<1> USE DEF IndInv, TypeOK, AlignerTypeOK
<1>1. e \in Epochs /\ e \in delivered[i] /\ i \notin Counted(e)
  BY DEF HandIsNew, Counted, Observed
<1>2. ~ Aligned(e)
  BY <1>1 DEF Aligned, Counted, Ended
<1> QED
  BY <1>1, <1>2 DEF ReleasedIsAligned

(* A copy is counted only when its input delivers it.                       *)
LEMMA NextCount == IndInv /\ [Next]_vars => CountIsBounded'
<1> SUFFICES ASSUME IndInv, [Next]_vars, NEW e \in Epochs
             PROVE  copies'[e] <= Cardinality(Counted(e)')
  BY DEF CountIsBounded
<1>1. /\ Counted(e) \in SUBSET Inputs /\ Counted(e)' \in SUBSET Inputs
      /\ Counted(e) \subseteq Counted(e)'
  BY AlignedStays DEF Counted
<1>2. /\ Cardinality(Counted(e)) \in Nat /\ Cardinality(Counted(e)') \in Nat
      /\ Cardinality(Counted(e)) <= Cardinality(Counted(e)')
  BY <1>1, Cards, FS_Subset
<1>3. copies[e] \in Nat /\ copies[e] <= Cardinality(Counted(e))
  BY DEF IndInv, TypeOK, AlignerTypeOK, CountIsBounded
<1>4. CASE copies'[e] <= copies[e] /\ copies'[e] \in Nat
  BY <1>2, <1>3, <1>4
<1>5. ASSUME NEW i \in Inputs, Observe(i), e \in hand[i]
      PROVE  copies'[e] <= Cardinality(Counted(e)')
  <2>1. i \notin Counted(e) /\ e \in delivered[i]
    BY <1>5, FreshCopy DEF Observe
  <2>2. Counted(e) \cup {i} \subseteq Counted(e)'
    BY <1>1, <1>5, <2>1 DEF Observe, Counted, Observed, IndInv, TypeOK
  <2>3. Cardinality(Counted(e) \cup {i}) = Cardinality(Counted(e)) + 1
    BY <1>1, <2>1, Cards
  <2>4. IsFiniteSet(Counted(e)') /\ Counted(e) \cup {i} \in SUBSET Counted(e)'
    BY <1>1, <2>2, Cards
  <2>5. Cardinality(Counted(e) \cup {i}) <= Cardinality(Counted(e)')
    BY <2>4, FS_Subset
  <2>6. copies'[e] <= copies[e] + 1 /\ copies'[e] \in Nat
    BY <1>3, <1>5 DEF Observe, ObserveMarkers
  <2> QED
    BY <1>2, <1>3, <2>3, <2>5, <2>6
<1>6. ASSUME NEW i \in Inputs, Observe(i), e \notin hand[i]
      PROVE  copies'[e] <= Cardinality(Counted(e)')
  BY <1>3, <1>4, <1>6 DEF Observe, ObserveMarkers
<1>7. ASSUME NEW i \in Inputs, NEW f \in Epochs, ReadFinalizer(i, f)
      PROVE  copies'[e] <= Cardinality(Counted(e)')
  BY <1>3, <1>4, <1>7 DEF ReadFinalizer, ObserveFinalizer
<1>8. CASE UNCHANGED copies
  BY <1>3, <1>4, <1>8
<1> QED
  BY <1>5, <1>6, <1>7, <1>8
     DEF Next, vars, alignerVars, mergeVars, Forwarder, ForwardRows, SendReleased, Abandon,
         EndInput, InputDone, FailInput, ReadInput, DropReceiver, Done

(* What the two aligner calls release is aligned afterwards.                *)
LEMMA ReleaseIsAligned ==
    ASSUME IndInv, [Next]_vars, NEW i \in Inputs, NEW e \in Epochs
    PROVE  /\ Observe(i) /\ e \in Completed(hand[i]) => Aligned(e)'
           /\ EndInput(i) /\ e \in Unblocked(i) => Aligned(e)'
<1> USE DEF IndInv
<1>1. /\ copies[e] \in Nat /\ copies[e] <= Cardinality(Counted(e))
      /\ Counted(e) \in SUBSET Inputs /\ \A j \in Counted(e) : e \in delivered[j]
  BY DEF TypeOK, AlignerTypeOK, CountIsBounded, Counted, Observed
<1>2. Ended' = finished' /\ finished \in SUBSET Inputs
  BY NextShape DEF FinishedIsEnded, TypeOK, AlignerTypeOK
<1>3. \A j \in Counted(e) : e \in Observed(j)'
  BY AlignedStays DEF Counted
<1>4. ASSUME Observe(i), e \in Completed(hand[i]) PROVE Aligned(e)'
  <2>1. e \in hand[i] /\ copies[e] + 1 >= Required(finished, e)
    BY <1>4 DEF Completed
  <2>2. i \notin Counted(e) /\ e \in delivered[i]
    BY <1>4, <2>1, FreshCopy DEF Observe
  <2>3. Cardinality(Counted(e) \cup {i}) = Cardinality(Counted(e)) + 1
    BY <1>1, <2>2, Cards
  <2>4. Cardinality(Counted(e)) \in Nat
    BY <1>1, Cards
  <2>5. /\ copies[e] + 1 <= Cardinality(Counted(e) \cup {i}) /\ copies[e] + 1 \in Nat
        /\ Counted(e) \cup {i} \in SUBSET Inputs
        /\ \A j \in Counted(e) \cup {i} : e \in delivered[j]
    BY <1>1, <2>2, <2>3, <2>4
  <2>6. \A j \in Inputs : j \in Counted(e) \cup {i} \/ j \in finished
    BY <1>2, <2>1, <2>5, EnoughIsAll
  <2>7. e \in Observed(i)' /\ finished' = finished
    BY <1>4, <2>2 DEF Observe, ObserveMarkers, Observed, TypeOK
  <2> QED
    BY <1>2, <1>3, <2>6, <2>7 DEF Aligned
<1>5. ASSUME EndInput(i), e \in Unblocked(i) PROVE Aligned(e)'
  <2>1. finished' = finished \cup {i}
    BY <1>5 DEF EndInput, InputDone
  <2>2. CASE finished \cup {i} = Inputs
    BY <1>2, <2>1, <2>2 DEF Aligned
  <2>3. CASE copies[e] >= Required(finished \cup {i}, e)
    <3>1. finished \cup {i} \in SUBSET Inputs
      BY <1>2
    <3>2. \A j \in Inputs : j \in Counted(e) \/ j \in finished \cup {i}
      BY <1>1, <2>3, <3>1, EnoughIsAll
    <3> QED
      BY <1>2, <1>3, <2>1, <3>2 DEF Aligned
  <2> QED
    BY <1>5, <2>2, <2>3 DEF Unblocked
<1> QED
  BY <1>4, <1>5

(* The released Markers are aligned, and each is released once.             *)
LEMMA NextReleased ==
    ASSUME IndInv, [Next]_vars
    PROVE  ReleasedIsAligned' /\ OneCopy' /\ NotRevived'
<1> DEFINE Taken(e) == released[e] \/ passed[e] > 0 \/ \E i \in Inputs : e \in Sending(i)
<1>0. \A e \in Epochs : Taken(e) => Aligned(e)'
  BY AlignedStays DEF IndInv, ReleasedIsAligned
<1> USE DEF IndInv, TypeOK, AlignerTypeOK, Sending, alignerVars, mergeVars
<1> DEFINE Goal == (\A e \in Epochs : Taken(e)' => Aligned(e)') /\ OneCopy' /\ NotRevived'
<1> SUFFICES Goal
  BY DEF ReleasedIsAligned
<1>1. CASE UNCHANGED <<released, copies, passed, pc, hand>>
  BY <1>0, <1>1 DEF OneCopy, NotRevived
<1>2. ASSUME NEW i \in Inputs, NEW ms \in SUBSET Epochs, ReadInput(i, ms) PROVE Goal
  BY <1>0, <1>2 DEF ReadInput, OneCopy, NotRevived
<1>3. ASSUME NEW i \in Inputs, ForwardRows(i) PROVE Goal
  BY <1>0, <1>3 DEF ForwardRows, OneCopy, NotRevived
<1>4. ASSUME NEW i \in Inputs, Observe(i) PROVE Goal
  <2>1. \A e \in hand[i] : /\ ~ released[e] /\ passed[e] = 0
                           /\ \A j \in Inputs : e \notin Sending(j)
    BY <1>4, FreshCopy DEF Observe
  <2>2. \A e \in Epochs : e \in Completed(hand[i]) => Aligned(e)'
    BY <1>4, ReleaseIsAligned
  <2>3. Completed(hand[i]) \subseteq hand[i]
    BY DEF Completed
  <2>4. /\ passed' = passed
        /\ \A e \in Epochs : released'[e] <=> released[e] \/ e \in Completed(hand[i])
        /\ \A e \in Epochs : e \notin hand[i] => copies'[e] = copies[e]
        /\ \A e \in Epochs, j \in Inputs :
              e \in Sending(j)' <=> \/ e \in Sending(j)
                                    \/ j = i /\ e \in Completed(hand[i])
    BY <1>4 DEF Observe, ObserveMarkers
  <2> HIDE DEF Sending, IndInv
  <2>5. OneCopy /\ NotRevived
    BY DEF IndInv
  <2>6. \A e \in Epochs : Taken(e)' => Aligned(e)'
    BY <1>0, <2>2, <2>4
  <2>7. OneCopy'
    BY <2>1, <2>3, <2>4, <2>5 DEF OneCopy
  <2>8. NotRevived'
    <3> SUFFICES ASSUME NEW e \in Epochs,
                        passed'[e] > 0 \/ \E j \in Inputs : e \in Sending(j)'
                 PROVE  released'[e] \/ copies'[e] = 0
      BY DEF NotRevived
    <3>1. CASE e \in Completed(hand[i])
      BY <2>4, <3>1
    <3>2. CASE e \notin Completed(hand[i])
      <4>1. passed[e] > 0 \/ \E j \in Inputs : e \in Sending(j)
        BY <2>4, <3>2
      <4>2. e \notin hand[i]
        BY <2>1, <4>1
      <4>3. released[e] \/ copies[e] = 0
        BY <2>5, <4>1 DEF NotRevived
      <4> QED
        BY <2>4, <4>2, <4>3
    <3> QED
      BY <3>1, <3>2
  <2> QED
    BY <2>6, <2>7, <2>8
<1>5. ASSUME NEW i \in Inputs, NEW f \in Epochs, ReadFinalizer(i, f) PROVE Goal
  BY <1>0, <1>5 DEF ReadFinalizer, ObserveFinalizer, OneCopy, NotRevived
<1>6. ASSUME NEW i \in Inputs, SendReleased(i) PROVE Goal
  <2>1. /\ released' = released /\ copies' = copies
        /\ \A e \in Epochs : passed'[e] = passed[e] + IF e \in Sending(i) THEN 1 ELSE 0
        /\ \A e \in Epochs, j \in Inputs : e \in Sending(j)' <=> j # i /\ e \in Sending(j)
    BY <1>6 DEF SendReleased
  <2>2. \A e \in Epochs : passed[e] \in Nat
    OBVIOUS
  <2> QED
    BY <1>0, <2>1, <2>2 DEF OneCopy, NotRevived
<1>7. ASSUME NEW i \in Inputs, EndInput(i) PROVE Goal
  <2>1. \A e \in Unblocked(i) : /\ e \in Epochs /\ passed[e] = 0
                                /\ \A j \in Inputs : e \notin Sending(j)
    BY DEF Unblocked, NotRevived
  <2>2. \A e \in Epochs : e \in Unblocked(i) => Aligned(e)'
    BY <1>7, ReleaseIsAligned
  <2>3. /\ passed' = passed /\ copies' = copies
        /\ \A e \in Epochs : released'[e] <=> released[e] \/ e \in Unblocked(i)
        /\ \A e \in Epochs, j \in Inputs :
              e \in Sending(j)' <=> \/ e \in Sending(j)
                                    \/ j = i /\ e \in Unblocked(i)
    BY <1>7 DEF EndInput, InputDone
  <2> HIDE DEF Sending, IndInv
  <2>4. OneCopy /\ NotRevived
    BY DEF IndInv
  <2>5. \A e \in Epochs : Taken(e)' => Aligned(e)'
    BY <1>0, <2>2, <2>3
  <2>6. OneCopy'
    BY <2>1, <2>3, <2>4 DEF OneCopy
  <2>7. NotRevived'
    BY <2>1, <2>3, <2>4, Zenon DEF NotRevived
  <2> QED
    BY <2>5, <2>6, <2>7
<1>8. ASSUME NEW i \in Inputs, FailInput(i) \/ Abandon(i) PROVE Goal
  BY <1>0, <1>8 DEF FailInput, Abandon, OneCopy, NotRevived
<1> QED
  BY <1>1, <1>2, <1>3, <1>4, <1>5, <1>6, <1>7, <1>8
     DEF Next, Forwarder, DropReceiver, Done, vars

(* The counter-based aligner releases a Marker only when every input has    *)
(* delivered it or ended, for any number of inputs.                         *)
THEOREM AlignerCorrect == Spec => [](ReleasedIsAligned /\ OneCopy)
<1>1. IndInv /\ [Next]_vars => IndInv'
  BY NextShape, NextCount, NextReleased DEF IndInv
<1>2. IndInv => ReleasedIsAligned /\ OneCopy
  BY DEF IndInv
<1> QED
  BY <1>1, <1>2, InitInv, PTL DEF Spec

(* The merge point is a marker barrier: the forwarders, their lock and the  *)
(* sends outside it implement MarkerBarrier.                                *)
THEOREM MergePointRefines == Spec => ImplementsBarrier
<1>1. Init => Barrier!BarrierInit
  BY DEF Init, AlignerInit, Barrier!BarrierInit, Ended
<1>2. IndInv /\ [Next]_vars => IndInv'
  BY NextShape, NextCount, NextReleased DEF IndInv
<1>3. IndInv /\ [Next]_vars => [Barrier!BarrierNext]_(Barrier!barrierVars)
  <2> SUFFICES ASSUME IndInv, [Next]_vars, ~ UNCHANGED Barrier!barrierVars
               PROVE  Barrier!BarrierNext
    OBVIOUS
  <2> USE DEF IndInv, TypeOK, AlignerTypeOK, Barrier!barrierVars, Ended, alignerVars, mergeVars
  <2>1. CASE UNCHANGED <<pc, delivered, passed>>
    BY <2>1
  <2>2. ASSUME NEW i \in Inputs, ForwardRows(i) PROVE Barrier!BarrierNext
    <3>1. Barrier!Arrive(i)
      BY <2>2 DEF ForwardRows, Barrier!Arrive
    <3> QED
      BY <3>1 DEF Barrier!BarrierNext
  <2>3. ASSUME NEW i \in Inputs, SendReleased(i) PROVE Barrier!BarrierNext
    <3>1. \A e \in hand[i] : e \in Epochs /\ passed[e] = 0 /\ Barrier!AllArrived(e)
      BY <2>3 DEF SendReleased, Sending, OneCopy, ReleasedIsAligned, Aligned, Observed,
              Barrier!AllArrived
    <3>2. passed' = [e \in Epochs |-> IF e \in hand[i] THEN 1 ELSE passed[e]]
      BY <2>3, <3>1 DEF SendReleased
    <3>3. UNCHANGED <<delivered, Ended>>
      BY <2>3 DEF SendReleased
    <3>4. Barrier!Pass(hand[i])
      BY <3>1, <3>2, <3>3 DEF Barrier!Pass
    <3> QED
      BY <3>4 DEF Barrier!BarrierNext
  <2>4. ASSUME NEW i \in Inputs, EndInput(i) PROVE Barrier!BarrierNext
    <3>1. Ended' = Ended \cup {i} /\ UNCHANGED <<delivered, passed>>
      BY <2>4 DEF EndInput
    <3> QED
      BY <3>1 DEF Barrier!End, Barrier!BarrierNext
  <2>5. ASSUME NEW i \in Inputs,
               \/ Observe(i) \/ FailInput(i) \/ Abandon(i)
               \/ \E ms \in SUBSET Epochs : ReadInput(i, ms)
        PROVE  FALSE
    <3>1. Ended' = Ended /\ UNCHANGED <<delivered, passed>>
      BY <2>5 DEF Observe, FailInput, Abandon, ReadInput
    <3> QED
      BY <3>1
  <2> QED
    BY <2>1, <2>2, <2>3, <2>4, <2>5 DEF Next, vars, Forwarder, ReadFinalizer, DropReceiver, Done
<1> QED
  BY <1>1, <1>2, <1>3, InitInv, PTL DEF Spec, ImplementsBarrier, Barrier!Barrier

-----------------------------------------------------------------------------
(* The exchange.                                                           *)


\* What a router reads: a batch, or the error of its input.
Routed == BatchKinds \cup {ErrorBatch}

-----------------------------------------------------------------------------
(* The inductive invariant.                                                *)

\* Every output was offered all batches but perhaps the last.
OneBatchBehind ==
    \A i \in Partitions, j \in Outputs : Len(read[i]) <= sent[i][j] + 1

\* An epoch rides on one batch of an input at most.
MarkedOnce ==
    \A i \in Partitions : \A m, n \in 1..Len(read[i]) :
        read[i][m].mark = read[i][n].mark /\ read[i][m].mark # NoMark => m = n

\* The error is the last batch of an input that failed.
ErrorIsLast ==
    \A i \in Partitions :
        /\ \A n \in 1..Len(read[i]) :
              read[i][n].error => n = Len(read[i]) /\ input[i] = "failed"
        /\ input[i] = "failed" => Len(read[i]) > 0 /\ Last(i).error

\* The router was cut off at this output, the first that lacks the last batch.
Cut(i, m) ==
    /\ router[i] = "gone" /\ sent[i][m] < Len(read[i])
    /\ \A k \in Outputs : k < m => sent[i][k] = Len(read[i])

\* A router is cut off at an output that has failed.
CutAtFailure ==
    \A i \in Partitions, m \in Outputs : Cut(i, m) => stream[m] = "failed"

\* Why a router is gone: its input ended, it has sent the error, or it was cut.
GoneFor ==
    \A i \in Partitions :
        /\ input[i] = "ended" => router[i] = "gone" /\ AllSent(i)
        /\ router[i] = "gone" /\ input[i] = "open" => \E m \in Outputs : Cut(i, m)
        /\ router[i] = "gone" /\ input[i] = "failed" => AllSent(i)

\* An output that took the error has failed.
ErrorFails ==
    \A i \in Partitions, j \in Outputs :
        input[i] = "failed" /\ taken[i][j] = Len(read[i]) => stream[j] = "failed"

\* A write that ended well has seen the end of all its channels.
OkIsClosed ==
    \A i \in Partitions, j \in Outputs : stream[j] = "ok" => Closed(i, j)

\* What an output flushed was delivered by every input, or the input's channel
\* was closed, and neither by this output's failure nor by an error.
FlushedIsDelivered ==
    \A i \in Partitions, j \in Outputs : \A e \in flushed[j] :
        \/ Delivered(i, j, e)
        \/ Closed(i, j) /\ ~Cut(i, j) /\ input[i] # "failed"

RoutersInv ==
    /\ ExchangeTypeOK /\ OneBatchBehind /\ MarkedOnce /\ ErrorIsLast
    /\ CutAtFailure /\ GoneFor /\ ErrorFails /\ OkIsClosed

ExchangeInv == RoutersInv /\ FlushedIsDelivered /\ RoutedIsWritten

\* What no step undoes: batches that were read, a router that is gone, what an
\* output has taken, and the end of a stream.
Onward ==
    /\ \A i \in Partitions :
          /\ Len(read[i]) <= Len(read'[i])
          /\ \A n \in 1..Len(read[i]) : read'[i][n] = read[i][n]
          /\ router[i] = "gone" => /\ router'[i] = "gone" /\ input'[i] = input[i]
                                   /\ read'[i] = read[i] /\ sent'[i] = sent[i]
          /\ \A j \in Outputs : /\ taken[i][j] <= taken'[i][j]
                                /\ taken[i][j] = sent[i][j] => taken'[i][j] = taken[i][j]
    /\ \A j \in Outputs : stream[j] # "run" => stream'[j] = stream[j]

-----------------------------------------------------------------------------
\* What the fields of a batch are; only the error carries an error.
LEMMA RoutedType ==
    /\ \A b \in BatchKinds : b.error = FALSE /\ b.mark \in Nat
    /\ ErrorBatch.error = TRUE /\ ErrorBatch.mark = NoMark
    /\ \A b \in Routed : b.error \in BOOLEAN /\ b.mark \in Nat
  <1>1. ASSUME NEW b \in BatchKinds PROVE b.error = FALSE /\ b.mark \in Nat
    <2>1. b \in [to : SUBSET Outputs, mark : MarkEpochs \cup {NoMark}, error : {FALSE}]
      BY ExchangeAssumption DEF Batches
    <2>2. b.error \in {FALSE} /\ b.mark \in MarkEpochs \cup {NoMark}
      BY <2>1
    <2>3. b.error = FALSE
      BY <2>2, Zenon
    <2>4. b.mark \in Nat
      BY <2>2, ExchangeAssumption, SMT DEF MarkEpochs, NoMark
    <2> QED
      BY <2>3, <2>4
  <1>2. ErrorBatch.error = TRUE /\ ErrorBatch.mark = NoMark
    BY DEF ErrorBatch
  <1>3. NoMark \in Nat
    BY DEF NoMark
  <1> QED
    BY <1>1, <1>2, <1>3 DEF Routed

\* Appending a batch keeps the ones before it.
LEMMA AppendBatch ==
    ASSUME NEW s \in Seq(Routed), NEW b \in Routed
    PROVE  /\ Append(s, b) \in Seq(Routed)
           /\ Len(Append(s, b)) = Len(s) + 1
           /\ Len(s) \in Nat
           /\ \A n \in 1..Len(s) : Append(s, b)[n] = s[n]
           /\ Append(s, b)[Len(s) + 1] = b
           /\ \A n \in 1..(Len(s) + 1) : n \in 1..Len(s) \/ n = Len(s) + 1
  OBVIOUS

\* The router of an input reads a batch, or the error its stream ends with.
LEMMA ReadKeeps ==
    ASSUME RoutersInv, NEW i \in Partitions, NEW b \in Routed,
           router[i] = "run", input[i] = "open", AllSent(i),
           read' = [read EXCEPT ![i] = Append(@, b)],
           \/ b \in BatchKinds /\ input' = input
              /\ (b.mark # NoMark => \A e \in Marks(i) : e < b.mark)
           \/ b = ErrorBatch /\ input' = [input EXCEPT ![i] = "failed"],
           UNCHANGED <<router, sent, taken, stream, flushed, acked>>
    PROVE  RoutersInv' /\ Onward
  <1> USE DEF RoutersInv
  <1>1. /\ read \in [Partitions -> Seq(Routed)] /\ read[i] \in Seq(Routed)
        /\ sent \in [Partitions -> [Outputs -> Nat]] /\ taken \in [Partitions -> [Outputs -> Nat]]
        /\ input \in [Partitions -> {"open", "ended", "failed"}]
        /\ router \in [Partitions -> {"run", "gone"}]
        /\ \A k \in Partitions : Len(read[k]) \in Nat
    BY DEF ExchangeTypeOK, Routed
  <1>2. /\ read' \in [Partitions -> Seq(Routed)]
        /\ \A k \in Partitions : k # i => read'[k] = read[k] /\ input'[k] = input[k]
        /\ input' \in [Partitions -> {"open", "ended", "failed"}]
        /\ read'[i] = Append(read[i], b)
    BY <1>1, AppendBatch
  <1>3. /\ Len(read'[i]) = Len(read[i]) + 1
        /\ \A n \in 1..Len(read[i]) : read'[i][n] = read[i][n]
        /\ read'[i][Len(read[i]) + 1] = b
        /\ \A n \in 1..Len(read'[i]) : n \in 1..Len(read[i]) \/ n = Len(read[i]) + 1
    BY <1>1, <1>2, AppendBatch
  <1>4. \A k \in Partitions : router[k] = "gone" => k # i
    OBVIOUS
  <1>5. ExchangeTypeOK'
    BY <1>1, <1>2, <1>3 DEF ExchangeTypeOK, Routed
  <1>6. OneBatchBehind'
    BY <1>1, <1>2, <1>3 DEF OneBatchBehind, AllSent
  <1>7. MarkedOnce'
    <2> SUFFICES ASSUME NEW k \in Partitions, NEW m \in 1..Len(read'[k]), NEW n \in 1..Len(read'[k]),
                        read'[k][m].mark = read'[k][n].mark, read'[k][m].mark # NoMark
                 PROVE  m = n
      BY DEF MarkedOnce
    <2>1. CASE k # i
      BY <2>1, <1>2 DEF MarkedOnce
    <2>2. CASE k = i /\ m \in 1..Len(read[i]) /\ n \in 1..Len(read[i])
      BY <2>2, <1>3 DEF MarkedOnce
    <2>3. \A l \in 1..Len(read[i]) : b.mark # NoMark => read[i][l].mark # b.mark
      <3>1. CASE b = ErrorBatch
        BY <3>1, RoutedType
      <3>2. CASE b \in BatchKinds /\ (b.mark # NoMark => \A e \in Marks(i) : e < b.mark)
        <4> SUFFICES ASSUME NEW l \in 1..Len(read[i]), b.mark # NoMark,
                            read[i][l].mark = b.mark
                     PROVE  FALSE
          OBVIOUS
        <4>1. b.mark \in Marks(i)
          BY DEF Marks
        <4> QED
          BY <4>1, <3>2, RoutedType
      <3> QED
        BY <3>1, <3>2
    <2> QED
      BY <2>1, <2>2, <2>3, <1>3
  <1>8. ErrorIsLast'
    <2>1. \A n \in 1..Len(read[i]) : ~read[i][n].error
      BY <1>1 DEF ErrorIsLast
    <2>2. b.error <=> b = ErrorBatch
      BY RoutedType DEF Routed
    <2>3. input'[i] = "failed" <=> b = ErrorBatch
      BY <1>1, RoutedType
    <2>4. ASSUME NEW k \in Partitions, k # i
          PROVE  /\ \A n \in 1..Len(read'[k]) :
                       read'[k][n].error => n = Len(read'[k]) /\ input'[k] = "failed"
                 /\ input'[k] = "failed" => Len(read'[k]) > 0 /\ read'[k][Len(read'[k])].error
      BY <2>4, <1>2 DEF ErrorIsLast, Last
    <2>5. /\ \A n \in 1..Len(read'[i]) :
                read'[i][n].error => n = Len(read'[i]) /\ input'[i] = "failed"
          /\ input'[i] = "failed" => Len(read'[i]) > 0 /\ read'[i][Len(read'[i])].error
      BY <1>1, <1>3, <2>1, <2>2, <2>3
    <2> QED
      BY <2>4, <2>5 DEF ErrorIsLast, Last
  <1>9. CutAtFailure'
    <2>1. \A k \in Partitions, m \in Outputs : k # i => (Cut(k, m) <=> Cut(k, m)')
      BY <1>2 DEF Cut
    <2>2. \A m \in Outputs : ~Cut(i, m)'
      BY DEF Cut
    <2> QED
      BY <2>1, <2>2 DEF CutAtFailure
  <1>10. GoneFor'
    <2>1. input'[i] # "ended" /\ router'[i] = "run"
      BY <1>1
    <2>2. \A k \in Partitions : k # i => (AllSent(k) <=> AllSent(k)')
      BY <1>2 DEF AllSent
    <2>3. \A k \in Partitions, m \in Outputs : k # i => (Cut(k, m) <=> Cut(k, m)')
      BY <1>2 DEF Cut
    <2> QED
      BY <1>2, <2>1, <2>2, <2>3 DEF GoneFor
  <1>11. ErrorFails'
    <2>1. \A j \in Outputs : taken[i][j] <= Len(read[i])
      BY <1>1 DEF ExchangeTypeOK
    <2> QED
      BY <1>1, <1>2, <1>3, <2>1 DEF ErrorFails
  <1>12. OkIsClosed'
    BY DEF OkIsClosed, Closed
  <1>13. Onward
    BY <1>1, <1>2, <1>3, <1>4 DEF Onward
  <1> QED
    BY <1>5, <1>6, <1>7, <1>8, <1>9, <1>10, <1>11, <1>12, <1>13

\* The stream of an input ends and its router drops the senders.
LEMMA InputEndsKeeps ==
    ASSUME RoutersInv, NEW i \in Partitions, InputEnds(i)
    PROVE  RoutersInv' /\ Onward
  <1> USE DEF RoutersInv, InputEnds
  <1>1. /\ sent \in [Partitions -> [Outputs -> Nat]]
        /\ input \in [Partitions -> {"open", "ended", "failed"}]
        /\ router \in [Partitions -> {"run", "gone"}]
        /\ \A k \in Partitions : Len(read[k]) \in Nat
    BY DEF ExchangeTypeOK
  <1>2. /\ input'[i] = "ended" /\ router'[i] = "gone"
        /\ \A k \in Partitions : k # i => input'[k] = input[k] /\ router'[k] = router[k]
    BY <1>1
  <1>3. \A k \in Partitions : AllSent(k)' <=> AllSent(k)
    BY DEF AllSent
  <1>4. \A k \in Partitions, m \in Outputs : Cut(k, m)' <=> Cut(k, m)
    <2>1. \A k \in Partitions, m \in Outputs : k # i => (Cut(k, m)' <=> Cut(k, m))
      BY <1>2 DEF Cut
    <2>2. \A m \in Outputs : ~Cut(i, m)' /\ ~Cut(i, m)
      BY <1>1 DEF Cut, AllSent
    <2> QED
      BY <2>1, <2>2
  <1>5. ExchangeTypeOK'
    BY <1>1 DEF ExchangeTypeOK
  <1>6. OneBatchBehind' /\ MarkedOnce'
    BY DEF OneBatchBehind, MarkedOnce
  <1>7. ErrorIsLast'
    BY <1>2 DEF ErrorIsLast, Last
  <1>8. CutAtFailure'
    BY <1>4 DEF CutAtFailure
  <1>9. GoneFor'
    BY <1>2, <1>3, <1>4 DEF GoneFor
  <1>10. ErrorFails'
    BY <1>2 DEF ErrorFails
  <1>11. OkIsClosed'
    BY <1>2 DEF OkIsClosed, Closed
  <1>12. Onward
    BY <1>1, <1>2 DEF Onward, ExchangeTypeOK
  <1> QED
    BY <1>5, <1>6, <1>7, <1>8, <1>9, <1>10, <1>11, <1>12

\* A router offers its last batch to the next output, and returns when it was
\* the error and this output the last one.
LEMMA OfferKeeps ==
    ASSUME RoutersInv, NEW i \in Partitions, NEW j \in Outputs,
           NextOutput(i, j), Offered(i, j), ReturnsAfterError(i, j),
           UNCHANGED <<input, read, taken, stream, flushed, acked>>
    PROVE  RoutersInv' /\ Onward
  <1> USE DEF RoutersInv
  <1>1. /\ sent \in [Partitions -> [Outputs -> Nat]] /\ taken \in [Partitions -> [Outputs -> Nat]]
        /\ router \in [Partitions -> {"run", "gone"}]
        /\ \A k \in Partitions : Len(read[k]) \in Nat
        /\ \A k \in Partitions, m \in Outputs :
              taken[k][m] <= sent[k][m] /\ sent[k][m] <= Len(read[k])
        /\ Outputs \subseteq Nat
    BY ExchangeAssumption DEF ExchangeTypeOK
  <1>2. /\ sent' \in [Partitions -> [Outputs -> Nat]]
        /\ sent'[i][j] = Len(read[i])
        /\ \A m \in Outputs : m # j => sent'[i][m] = sent[i][m]
        /\ \A k \in Partitions : k # i => sent'[k] = sent[k]
    BY <1>1 DEF Offered
  <1>3. /\ router' \in [Partitions -> {"run", "gone"}]
        /\ \A k \in Partitions : k # i => router'[k] = router[k]
        /\ router'[i] = "gone" => Last(i).error /\ \A k \in Outputs : k <= j
    BY <1>1 DEF ReturnsAfterError, NextOutput
  <1>4. router[i] = "run" /\ sent[i][j] < Len(read[i])
        /\ \A k \in Outputs : k < j => sent[i][k] = Len(read[i])
    BY DEF NextOutput
  <1>5. router'[i] = "gone" => AllSent(i)' /\ input[i] = "failed"
    <2> HAVE router'[i] = "gone"
    <2>1. \A k \in Outputs : k < j \/ k = j
      BY <1>1, <1>3
    <2>2. \A k \in Outputs : sent'[i][k] = Len(read[i])
      BY <2>1, <1>2, <1>4
    <2>3. Len(read[i]) \in 1..Len(read[i])
      BY <1>1, <1>4
    <2>4. input[i] = "failed"
      BY <2>3, <1>3 DEF ErrorIsLast, Last
    <2> QED
      BY <2>2, <2>4 DEF AllSent
  <1>6. \A k \in Partitions : k # i => (AllSent(k)' <=> AllSent(k))
    BY <1>2 DEF AllSent
  <1>7. \A m \in Outputs : ~Cut(i, m) /\ ~Cut(i, m)'
    BY <1>1, <1>3, <1>4, <1>5 DEF Cut, AllSent
  <1>8. \A k \in Partitions, m \in Outputs : k # i => (Cut(k, m)' <=> Cut(k, m))
    BY <1>2, <1>3 DEF Cut
  <1> HIDE DEF RoutersInv
  <1>16. \A k \in Partitions, m \in Outputs :
           sent[k][m] <= sent'[k][m] /\ sent'[k][m] <= Len(read[k])
    <2>1. ASSUME NEW k \in Partitions, NEW m \in Outputs
          PROVE  sent[k][m] <= sent'[k][m] /\ sent'[k][m] <= Len(read[k])
      <3>1. sent[k][m] \in Nat /\ Len(read[k]) \in Nat /\ sent[k][m] <= Len(read[k])
        BY <1>1
      <3>2. sent'[k][m] = sent[k][m] \/ sent'[k][m] = Len(read[k])
        BY <1>2
      <3> QED
        BY <3>1, <3>2
    <2> QED
      BY <2>1
  <1> USE DEF RoutersInv
  <1>9. ExchangeTypeOK'
    <2>1. \A k \in Partitions, m \in Outputs :
             taken[k][m] <= sent'[k][m] /\ sent'[k][m] <= Len(read[k])
      BY <1>1, <1>2, <1>16
    <2> QED
      BY <2>1, <1>2, <1>3 DEF ExchangeTypeOK
  <1>10. OneBatchBehind'
    <2>1. ASSUME NEW k \in Partitions, NEW m \in Outputs
          PROVE  Len(read[k]) <= sent'[k][m] + 1
      <3>1. /\ Len(read[k]) <= sent[k][m] + 1 /\ sent[k][m] <= sent'[k][m]
            /\ sent[k][m] \in Nat /\ sent'[k][m] \in Nat /\ Len(read[k]) \in Nat
        BY <1>1, <1>2, <1>16 DEF OneBatchBehind
      <3> QED
        BY <3>1
    <2> QED
      BY <2>1 DEF OneBatchBehind
  <1>11. MarkedOnce' /\ ErrorIsLast' /\ ErrorFails'
    BY DEF MarkedOnce, ErrorIsLast, ErrorFails, Last
  <1>12. CutAtFailure'
    BY <1>7, <1>8 DEF CutAtFailure
  <1>13. GoneFor'
    <2>1. ASSUME NEW k \in Partitions, k # i
          PROVE  /\ input'[k] = "ended" => router'[k] = "gone" /\ AllSent(k)'
                 /\ router'[k] = "gone" /\ input'[k] = "open" => \E m \in Outputs : Cut(k, m)'
                 /\ router'[k] = "gone" /\ input'[k] = "failed" => AllSent(k)'
      BY <2>1, <1>3, <1>6, <1>8 DEF GoneFor
    <2>2. /\ input'[i] # "ended"
          /\ router'[i] = "gone" => input'[i] = "failed" /\ AllSent(i)'
      BY <1>4, <1>5 DEF GoneFor
    <2> QED
      BY <2>1, <2>2 DEF GoneFor
  <1>14. OkIsClosed'
    BY <1>2, <1>3, <1>4 DEF OkIsClosed, Closed
  <1>15. Onward
    BY <1>1, <1>2, <1>3, <1>4 DEF Onward
  <1> QED
    BY <1>9, <1>10, <1>11, <1>12, <1>13, <1>14, <1>15

\* A router is cut off by an output whose receiver is gone.  That output has
\* failed: a write that ended well saw this router gone.
LEMMA CutKeeps ==
    ASSUME RoutersInv, NEW i \in Partitions, NEW j \in Outputs,
           NextOutput(i, j), stream[j] # "run", ~Last(i).error,
           router' = [router EXCEPT ![i] = "gone"],
           UNCHANGED <<input, read, sent, taken, stream, flushed, acked>>
    PROVE  RoutersInv' /\ Onward
  <1> USE DEF RoutersInv
  <1>1. /\ sent \in [Partitions -> [Outputs -> Nat]]
        /\ router \in [Partitions -> {"run", "gone"}]
        /\ stream \in [Outputs -> {"run", "ok", "failed"}]
        /\ \A k \in Partitions : Len(read[k]) \in Nat
        /\ Outputs \subseteq Nat
    BY ExchangeAssumption DEF ExchangeTypeOK
  <1>2. /\ router'[i] = "gone"
        /\ \A k \in Partitions : k # i => router'[k] = router[k]
    BY <1>1
  <1>3. router[i] = "run" /\ sent[i][j] < Len(read[i])
        /\ \A k \in Outputs : k < j => sent[i][k] = Len(read[i])
    BY DEF NextOutput
  <1>4. stream[j] = "failed"
    BY <1>1, <1>3 DEF OkIsClosed, Closed
  <1>5. input[i] # "failed" /\ input[i] # "ended"
    BY <1>3 DEF ErrorIsLast, GoneFor
  <1>6. Cut(i, j)'
    BY <1>2, <1>3 DEF Cut
  <1>7. \A m \in Outputs : Cut(i, m)' => m = j
    <2> SUFFICES ASSUME NEW m \in Outputs, Cut(i, m)' PROVE m = j
      OBVIOUS
    <2>1. sent[i][m] < Len(read[i]) /\ \A k \in Outputs : k < m => sent[i][k] = Len(read[i])
      BY DEF Cut
    <2>2. ~(m < j) /\ ~(j < m)
      BY <2>1, <1>1, <1>3
    <2> QED
      BY <2>2, <1>1
  <1>8. \A k \in Partitions, m \in Outputs : k # i => (Cut(k, m)' <=> Cut(k, m))
    BY <1>2 DEF Cut
  <1>9. \A k \in Partitions : AllSent(k)' <=> AllSent(k)
    BY DEF AllSent
  <1>10. ExchangeTypeOK'
    BY <1>1 DEF ExchangeTypeOK
  <1>11. OneBatchBehind' /\ MarkedOnce' /\ ErrorIsLast' /\ ErrorFails'
    BY DEF OneBatchBehind, MarkedOnce, ErrorIsLast, ErrorFails, Last
  <1>12. CutAtFailure'
    BY <1>4, <1>7, <1>8 DEF CutAtFailure
  <1>13. GoneFor'
    BY <1>2, <1>5, <1>6, <1>8, <1>9 DEF GoneFor
  <1>14. OkIsClosed'
    BY <1>2 DEF OkIsClosed, Closed
  <1>15. Onward
    BY <1>1, <1>2, <1>3 DEF Onward, ExchangeTypeOK
  <1> QED
    BY <1>10, <1>11, <1>12, <1>13, <1>14, <1>15

\* An output takes the next batch of a channel, and fails if it is the error.
LEMMA TakeKeeps ==
    ASSUME RoutersInv, NEW i \in Partitions, NEW j \in Outputs, Take(i, j)
    PROVE  RoutersInv' /\ Onward
  <1> USE DEF RoutersInv, Take
  <1>1. /\ sent \in [Partitions -> [Outputs -> Nat]] /\ taken \in [Partitions -> [Outputs -> Nat]]
        /\ stream \in [Outputs -> {"run", "ok", "failed"}]
        /\ \A k \in Partitions : Len(read[k]) \in Nat
        /\ \A k \in Partitions, m \in Outputs :
              taken[k][m] <= sent[k][m] /\ sent[k][m] <= Len(read[k])
    BY DEF ExchangeTypeOK
  <1>2. /\ taken' \in [Partitions -> [Outputs -> Nat]]
        /\ taken'[i][j] = taken[i][j] + 1
        /\ \A m \in Outputs : m # j => taken'[i][m] = taken[i][m]
        /\ \A k \in Partitions : k # i => taken'[k] = taken[k]
    <2>1. taken[i] \in [Outputs -> Nat] /\ taken[i][j] + 1 \in Nat
      BY <1>1
    <2>2. taken' = [taken EXCEPT ![i][j] = taken[i][j] + 1]
      OBVIOUS
    <2> HIDE DEF RoutersInv, Take
    <2> QED
      BY <1>1, <2>1, <2>2
  <1>3. /\ stream' \in [Outputs -> {"run", "ok", "failed"}]
        /\ stream'[j] # "ok"
        /\ read[i][taken[i][j] + 1].error => stream'[j] = "failed"
        /\ \A m \in Outputs : m # j => stream'[m] = stream[m]
    BY <1>1
  <1>4. \A k \in Partitions, m \in Outputs : taken'[k][m] = taken[k][m] \/ (k = i /\ m = j)
    BY <1>2
  <1>5. ExchangeTypeOK'
    <2>1. \A k \in Partitions, m \in Outputs : taken'[k][m] <= sent[k][m]
      BY <1>1, <1>2, <1>4
    <2> QED
      BY <2>1, <1>2, <1>3 DEF ExchangeTypeOK
  <1>6. OneBatchBehind' /\ MarkedOnce' /\ ErrorIsLast'
    BY DEF OneBatchBehind, MarkedOnce, ErrorIsLast, Last
  <1>7. \A k \in Partitions, m \in Outputs : Cut(k, m)' <=> Cut(k, m)
    BY DEF Cut
  <1>8. CutAtFailure'
    BY <1>3, <1>7 DEF CutAtFailure
  <1>9. GoneFor'
    BY <1>7 DEF GoneFor, AllSent
  <1>10. ErrorFails'
    <2> SUFFICES ASSUME NEW k \in Partitions, NEW m \in Outputs,
                        input[k] = "failed", taken'[k][m] = Len(read[k])
                 PROVE  stream'[m] = "failed"
      BY DEF ErrorFails
    <2>1. CASE k = i /\ m = j
      BY <2>1, <1>2, <1>3 DEF ErrorIsLast, Last
    <2>2. CASE ~(k = i /\ m = j)
      BY <2>2, <1>3, <1>4 DEF ErrorFails
    <2> QED
      BY <2>1, <2>2
  <1>11. OkIsClosed'
    <2> SUFFICES ASSUME NEW k \in Partitions, NEW m \in Outputs, stream'[m] = "ok"
                 PROVE  Closed(k, m)'
      BY DEF OkIsClosed
    <2>1. m # j /\ stream[m] = "ok"
      BY <1>3
    <2>2. Closed(k, m) /\ taken'[k][m] = taken[k][m]
      BY <2>1, <1>4 DEF OkIsClosed
    <2> QED
      BY <2>2 DEF Closed
  <1>12. Onward
    <2>1. \A k \in Partitions, m \in Outputs :
             /\ taken[k][m] <= taken'[k][m]
             /\ taken[k][m] = sent[k][m] => taken'[k][m] = taken[k][m]
      BY <1>1, <1>2, <1>4
    <2> QED
      BY <2>1, <1>1, <1>3 DEF Onward
  <1> QED
    BY <1>5, <1>6, <1>8, <1>9, <1>10, <1>11, <1>12

\* A write task ends, well if all its channels are closed.
LEMMA EndKeeps ==
    ASSUME RoutersInv, NEW j \in Outputs, WriteEnds(j) \/ WriteFails(j)
    PROVE  RoutersInv' /\ Onward
  <1> USE DEF RoutersInv
  <1>1. UNCHANGED <<input, router, read, sent, taken, flushed, acked>>
    BY DEF WriteEnds, WriteFails
  <1>2. stream \in [Outputs -> {"run", "ok", "failed"}] /\ stream[j] = "run"
    BY DEF ExchangeTypeOK, WriteEnds, WriteFails
  <1>3. /\ stream' \in [Outputs -> {"run", "ok", "failed"}]
        /\ \A m \in Outputs : m # j => stream'[m] = stream[m]
        /\ stream'[j] = "ok" => \A i \in Partitions : Closed(i, j)
    BY <1>2 DEF WriteEnds, WriteFails
  <1>4. \A k \in Partitions, m \in Outputs : (Cut(k, m)' <=> Cut(k, m)) /\ (Closed(k, m)' <=> Closed(k, m))
    BY <1>1 DEF Cut, Closed
  <1>5. ExchangeTypeOK'
    BY <1>1, <1>3 DEF ExchangeTypeOK
  <1>6. OneBatchBehind' /\ MarkedOnce' /\ ErrorIsLast'
    BY <1>1 DEF OneBatchBehind, MarkedOnce, ErrorIsLast, Last
  <1>7. CutAtFailure'
    BY <1>2, <1>3, <1>4 DEF CutAtFailure
  <1>8. GoneFor'
    BY <1>1, <1>4 DEF GoneFor, AllSent
  <1>9. ErrorFails'
    BY <1>1, <1>2, <1>3 DEF ErrorFails
  <1>10. OkIsClosed'
    BY <1>3, <1>4 DEF OkIsClosed
  <1>11. Onward
    BY <1>1, <1>2, <1>3 DEF Onward, ExchangeTypeOK
  <1> QED
    BY <1>5, <1>6, <1>7, <1>8, <1>9, <1>10, <1>11

\* A flush and an ack change nothing but what they record.
LEMMA RecordKeeps ==
    ASSUME RoutersInv, flushed' \in [Outputs -> SUBSET MarkEpochs], acked' \subseteq MarkEpochs,
           UNCHANGED <<input, router, read, sent, taken, stream>>
    PROVE  RoutersInv' /\ Onward
  <1> USE DEF RoutersInv
  <1>1. ExchangeTypeOK'
    BY DEF ExchangeTypeOK
  <1>2. OneBatchBehind' /\ MarkedOnce' /\ ErrorIsLast'
    BY DEF OneBatchBehind, MarkedOnce, ErrorIsLast, Last
  <1>3. CutAtFailure' /\ GoneFor'
    BY DEF CutAtFailure, GoneFor, Cut, AllSent
  <1>4. ErrorFails' /\ OkIsClosed'
    BY DEF ErrorFails, OkIsClosed, Closed
  <1>5. Onward
    BY DEF Onward, ExchangeTypeOK
  <1> QED
    BY <1>1, <1>2, <1>3, <1>4, <1>5

\* What an output is delivered stays delivered, and a closed channel closed,
\* whatever step is taken.
LEMMA OnwardStable ==
    ASSUME RoutersInv, RoutersInv', Onward, NEW i \in Partitions, NEW j \in Outputs
    PROVE  /\ \A e : Delivered(i, j, e) => Delivered(i, j, e)'
           /\ Closed(i, j) => /\ Closed(i, j)' /\ input'[i] = input[i]
                              /\ Cut(i, j)' => Cut(i, j)
  <1>1. /\ taken[i][j] \in Nat /\ taken'[i][j] \in Nat /\ Len(read[i]) \in Nat
        /\ taken[i][j] <= sent[i][j] /\ sent[i][j] <= Len(read[i]) /\ sent[i][j] \in Nat
    BY DEF RoutersInv, ExchangeTypeOK
  <1>2. ASSUME NEW e, Delivered(i, j, e) PROVE Delivered(i, j, e)'
    <2>1. PICK n \in 1..taken[i][j] : read[i][n].mark = e /\ For(read[i][n], j)
      BY <1>2 DEF Delivered
    <2>2. n \in 1..Len(read[i]) /\ n \in 1..taken'[i][j]
      BY <1>1 DEF Onward
    <2>3. read'[i][n] = read[i][n]
      BY <2>2 DEF Onward
    <2> QED
      BY <2>1, <2>2, <2>3 DEF Delivered, For
  <1>3. ASSUME Closed(i, j)
        PROVE  Closed(i, j)' /\ input'[i] = input[i] /\ (Cut(i, j)' => Cut(i, j))
    <2>1. router[i] = "gone" /\ taken[i][j] = sent[i][j]
      BY <1>3 DEF Closed
    <2>2. /\ router'[i] = "gone" /\ input'[i] = input[i] /\ read'[i] = read[i]
          /\ sent'[i] = sent[i] /\ taken'[i][j] = taken[i][j]
      BY <2>1 DEF Onward
    <2> QED
      BY <2>1, <2>2 DEF Closed, Cut
  <1> QED
    BY <1>2, <1>3

\* Every step keeps the routers' part of the invariant and goes onward.
LEMMA RoutersStep ==
    ASSUME RoutersInv, [ExchangeNext]_exchangeVars
    PROVE  RoutersInv' /\ Onward
  <1>1. flushed \in [Outputs -> SUBSET MarkEpochs] /\ acked \subseteq MarkEpochs
    BY DEF RoutersInv, ExchangeTypeOK
  <1>2. ASSUME NEW i \in Partitions, NEW b \in BatchKinds, ReadBatch(i, b)
        PROVE  RoutersInv' /\ Onward
    BY <1>2, ReadKeeps DEF ReadBatch, Routed
  <1>3. ASSUME NEW i \in Partitions, InputFails(i)
        PROVE  RoutersInv' /\ Onward
    BY <1>3, ReadKeeps DEF InputFails, Routed
  <1>4. ASSUME NEW i \in Partitions, InputEnds(i)
        PROVE  RoutersInv' /\ Onward
    BY <1>4, InputEndsKeeps
  <1>5. ASSUME NEW i \in Partitions, NEW j \in Outputs, SendBatch(i, j)
        PROVE  RoutersInv' /\ Onward
    BY <1>5, OfferKeeps DEF SendBatch
  <1>6. ASSUME NEW i \in Partitions, NEW j \in Outputs, SendGone(i, j)
        PROVE  RoutersInv' /\ Onward
    <2>1. CASE Last(i).error
      BY <2>1, <1>6, OfferKeeps DEF SendGone
    <2>2. CASE ~Last(i).error
      BY <2>2, <1>6, CutKeeps DEF SendGone
    <2> QED
      BY <2>1, <2>2
  <1>7. ASSUME NEW i \in Partitions, NEW j \in Outputs, Take(i, j)
        PROVE  RoutersInv' /\ Onward
    BY <1>7, TakeKeeps
  <1>8. ASSUME NEW j \in Outputs, WriteEnds(j) \/ WriteFails(j)
        PROVE  RoutersInv' /\ Onward
    BY <1>8, EndKeeps
  <1>9. ASSUME NEW j \in Outputs, NEW e \in MarkEpochs, FlushEpoch(j, e)
        PROVE  RoutersInv' /\ Onward
    BY <1>1, <1>9, RecordKeeps DEF FlushEpoch
  <1>10. ASSUME NEW e \in MarkEpochs, AckEpoch(e)
         PROVE  RoutersInv' /\ Onward
    BY <1>1, <1>10, RecordKeeps DEF AckEpoch
  <1>11. CASE UNCHANGED exchangeVars
    BY <1>1, <1>11, RecordKeeps DEF exchangeVars
  <1> QED
    BY <1>2, <1>3, <1>4, <1>5, <1>6, <1>7, <1>8, <1>9, <1>10, <1>11
       DEF ExchangeNext, RouterStep, OutputStep, ExchangeOver

\* A channel that an output sees closed while its own write task runs, or ended
\* well, was closed neither by this output's failure nor by an error.
LEMMA ClosedByEnd ==
    ASSUME RoutersInv, NEW i \in Partitions, NEW j \in Outputs, Closed(i, j), stream[j] # "failed"
    PROVE  ~Cut(i, j) /\ input[i] # "failed"
  <1>1. ~Cut(i, j)
    BY DEF RoutersInv, CutAtFailure
  <1>2. ASSUME input[i] = "failed" PROVE FALSE
    <2>1. taken[i][j] = Len(read[i])
      BY <1>2 DEF RoutersInv, GoneFor, Closed, AllSent
    <2> QED
      BY <1>2, <2>1 DEF RoutersInv, ErrorFails
  <1> QED
    BY <1>1, <1>2

\* Every step keeps what a flush says of the inputs.
LEMMA FlushedStep ==
    ASSUME RoutersInv, FlushedIsDelivered, RoutersInv', Onward, [ExchangeNext]_exchangeVars
    PROVE  FlushedIsDelivered'
  <1> SUFFICES ASSUME NEW i \in Partitions, NEW j \in Outputs, NEW e \in flushed'[j]
               PROVE  \/ Delivered(i, j, e)'
                      \/ Closed(i, j)' /\ ~Cut(i, j)' /\ input'[i] # "failed"
    BY DEF FlushedIsDelivered
  <1>1. e \in flushed[j] \/ (stream[j] = "run" /\ Released(j, e))
    <2>1. flushed \in [Outputs -> SUBSET MarkEpochs]
      BY DEF RoutersInv, ExchangeTypeOK
    <2>2. ASSUME NEW k \in Outputs, NEW f \in MarkEpochs, FlushEpoch(k, f), e \notin flushed[j]
          PROVE  stream[j] = "run" /\ Released(j, e)
      BY <2>1, <2>2 DEF FlushEpoch
    <2>3. CASE flushed' = flushed
      BY <2>3
    <2>4. (\E k \in Outputs, f \in MarkEpochs : FlushEpoch(k, f)) \/ flushed' = flushed
      BY DEF ExchangeNext, exchangeVars, RouterStep, OutputStep, ReadBatch, InputFails, InputEnds,
             SendBatch, SendGone, Take, WriteEnds, WriteFails, AckEpoch, ExchangeOver
    <2> QED
      BY <2>2, <2>3, <2>4
  <1>2. Delivered(i, j, e) \/ (Closed(i, j) /\ ~Cut(i, j) /\ input[i] # "failed")
    BY <1>1, ClosedByEnd DEF FlushedIsDelivered, Released
  <1> QED
    BY <1>2, OnwardStable

\* When every stream's share of the gate is open, the input's rows before the
\* Marker are written by all outputs, or the input ended and all of it is.
LEMMA OpenIsWritten ==
    ASSUME RoutersInv, FlushedIsDelivered, NEW e \in MarkEpochs, NEW i \in Partitions,
           \A j \in Outputs : GateOpen(j, e)
    PROVE  WrittenUpTo(i, e) \/ WrittenToEnd(i)
  <1>1. /\ \A j \in Outputs : taken[i][j] \in Nat /\ sent[i][j] \in Nat
                             /\ taken[i][j] <= sent[i][j] /\ sent[i][j] <= Len(read[i])
        /\ Len(read[i]) \in Nat
        /\ input[i] \in {"open", "ended", "failed"}
    BY DEF RoutersInv, ExchangeTypeOK
  <1>2. \A j \in Outputs :
           Delivered(i, j, e) \/ (Closed(i, j) /\ ~Cut(i, j) /\ input[i] # "failed")
    <2> SUFFICES ASSUME NEW j \in Outputs
                 PROVE  Delivered(i, j, e) \/ (Closed(i, j) /\ ~Cut(i, j) /\ input[i] # "failed")
      OBVIOUS
    <2>1. CASE e \in flushed[j]
      BY <2>1 DEF FlushedIsDelivered
    <2>2. CASE stream[j] = "ok"
      BY <2>2, ClosedByEnd DEF RoutersInv, OkIsClosed
    <2> QED
      BY <2>1, <2>2 DEF GateOpen
  <1>3. ASSUME NEW m \in Outputs, Delivered(i, m, e)
        PROVE  \E n \in 1..taken[i][m] :
                  /\ read[i][n].mark = e
                  /\ \A j \in Outputs : Delivered(i, j, e) => taken[i][j] >= n
    <2>1. PICK n \in 1..taken[i][m] : read[i][n].mark = e
      BY <1>3 DEF Delivered
    <2>2. ASSUME NEW j \in Outputs, Delivered(i, j, e) PROVE taken[i][j] >= n
      <3>1. PICK k \in 1..taken[i][j] : read[i][k].mark = e
        BY <2>2 DEF Delivered
      <3>2. k \in 1..Len(read[i]) /\ n \in 1..Len(read[i]) /\ e # NoMark
        <4>1. taken[i][j] <= Len(read[i]) /\ taken[i][m] <= Len(read[i])
          BY <1>1
        <4>2. taken[i][j] \in Nat /\ taken[i][m] \in Nat /\ Len(read[i]) \in Nat
          BY <1>1
        <4>3. e # NoMark
          BY ExchangeAssumption DEF MarkEpochs, NoMark
        <4> QED
          BY <4>1, <4>2, <4>3
      <3>3. k = n
        BY <2>1, <3>1, <3>2 DEF RoutersInv, MarkedOnce
      <3> QED
        BY <1>1, <3>3
    <2> QED
      BY <2>1, <2>2
  <1>4. ASSUME NEW m \in Outputs, NEW n \in 1..taken[i][m], read[i][n].mark = e,
               \A j \in Outputs : taken[i][j] >= n
        PROVE  WrittenUpTo(i, e)
    <2>1. n \in 1..Len(read[i])
      BY <1>1
    <2> QED
      BY <1>4, <2>1 DEF WrittenUpTo
  <1>5. CASE \A j \in Outputs : Delivered(i, j, e)
    <2>1. PICK m \in Outputs : TRUE
      BY ExchangeAssumption
    <2> QED
      BY <1>3, <1>4, <1>5, <2>1
  <1>6. CASE \E j \in Outputs : Closed(i, j) /\ input[i] = "ended"
    <2>1. \A j \in Outputs : sent[i][j] = Len(read[i])
      BY <1>6 DEF RoutersInv, GoneFor, AllSent
    <2>2. \A j \in Outputs : Delivered(i, j, e) \/ taken[i][j] = Len(read[i])
      BY <1>2, <2>1 DEF Closed
    <2>3. CASE \A j \in Outputs : taken[i][j] = Len(read[i])
      BY <2>3, <1>6 DEF WrittenToEnd
    <2>4. ASSUME NEW m \in Outputs, Delivered(i, m, e)
          PROVE  WrittenUpTo(i, e)
      <3>1. PICK n \in 1..taken[i][m] :
                  /\ read[i][n].mark = e
                  /\ \A j \in Outputs : Delivered(i, j, e) => taken[i][j] >= n
        BY <1>3, <2>4
      <3>2. n <= Len(read[i])
        BY <1>1
      <3>3. \A j \in Outputs : taken[i][j] >= n
        BY <1>1, <2>2, <3>1, <3>2
      <3> QED
        BY <1>4, <3>1, <3>3
    <2> QED
      BY <2>2, <2>3, <2>4
  <1>7. CASE \E j \in Outputs : Closed(i, j) /\ input[i] = "open"
    <2>1. PICK m \in Outputs : Cut(i, m)
      BY <1>7 DEF RoutersInv, GoneFor, Closed
    <2>2. Delivered(i, m, e)
      BY <1>2, <2>1
    <2>3. PICK n \in 1..taken[i][m] :
                /\ read[i][n].mark = e
                /\ \A j \in Outputs : Delivered(i, j, e) => taken[i][j] >= n
      BY <1>3, <2>2
    <2>4. n < Len(read[i]) /\ n \in Nat
      BY <1>1, <2>1 DEF Cut
    <2>5. ASSUME NEW j \in Outputs, Closed(i, j) PROVE taken[i][j] >= n
      <3>1. taken[i][j] = sent[i][j] /\ Len(read[i]) <= sent[i][j] + 1
        BY <2>5 DEF Closed, RoutersInv, OneBatchBehind
      <3> QED
        BY <1>1, <2>4, <3>1
    <2> QED
      BY <1>2, <1>4, <2>3, <2>5
  <1> QED
    BY <1>1, <1>2, <1>5, <1>6, <1>7

\* Every step keeps the acked epochs written.
LEMMA AckedStep ==
    ASSUME RoutersInv, FlushedIsDelivered, RoutedIsWritten, RoutersInv', Onward,
           [ExchangeNext]_exchangeVars
    PROVE  RoutedIsWritten'
  <1> SUFFICES ASSUME NEW e \in acked', NEW i \in Partitions
               PROVE  WrittenUpTo(i, e)' \/ WrittenToEnd(i)'
    BY DEF RoutedIsWritten
  <1>1. e \in acked \/ (e \in MarkEpochs /\ \A j \in Outputs : GateOpen(j, e))
    <2>1. (\E f \in MarkEpochs : AckEpoch(f)) \/ acked' = acked
      BY DEF ExchangeNext, exchangeVars, RouterStep, OutputStep, ReadBatch, InputFails, InputEnds,
             SendBatch, SendGone, Take, WriteEnds, WriteFails, FlushEpoch, ExchangeOver
    <2> QED
      BY <2>1 DEF AckEpoch
  <1>2. WrittenUpTo(i, e) \/ WrittenToEnd(i)
    BY <1>1, OpenIsWritten DEF RoutedIsWritten
  <1>3. /\ \A j \in Outputs : /\ taken[i][j] \in Nat /\ taken'[i][j] \in Nat
                              /\ taken[i][j] <= taken'[i][j]
        /\ Len(read[i]) \in Nat /\ Len(read'[i]) \in Nat /\ Len(read[i]) <= Len(read'[i])
        /\ \A n \in 1..Len(read[i]) : read'[i][n] = read[i][n]
    BY DEF RoutersInv, ExchangeTypeOK, Onward
  <1>4. ASSUME WrittenUpTo(i, e) PROVE WrittenUpTo(i, e)'
    <2>1. PICK n \in 1..Len(read[i]) :
                read[i][n].mark = e /\ \A j \in Outputs : taken[i][j] >= n
      BY <1>4 DEF WrittenUpTo
    <2>2. n \in 1..Len(read'[i]) /\ read'[i][n].mark = e
      BY <1>3, <2>1
    <2>3. \A j \in Outputs : taken'[i][j] >= n
      BY <1>3, <2>1
    <2> QED
      BY <2>2, <2>3 DEF WrittenUpTo
  <1>5. ASSUME WrittenToEnd(i) PROVE WrittenToEnd(i)'
    <2>1. router[i] = "gone" /\ AllSent(i)
      BY <1>5 DEF WrittenToEnd, RoutersInv, GoneFor
    <2>2. input'[i] = "ended" /\ read'[i] = read[i]
      BY <1>5, <2>1 DEF WrittenToEnd, Onward
    <2>3. \A j \in Outputs : taken'[i][j] = taken[i][j]
      BY <1>5, <2>1 DEF WrittenToEnd, AllSent, Onward
    <2> QED
      BY <1>5, <2>2, <2>3 DEF WrittenToEnd
  <1> QED
    BY <1>2, <1>4, <1>5

\* The invariant holds before anything is read.
LEMMA InitHolds == ExchangeInit => ExchangeInv
  <1> SUFFICES ASSUME ExchangeInit PROVE ExchangeInv
    OBVIOUS
  <1> USE DEF ExchangeInit
  <1>1. ExchangeTypeOK
    BY DEF ExchangeTypeOK
  <1>2. OneBatchBehind /\ MarkedOnce /\ ErrorIsLast
    BY DEF OneBatchBehind, MarkedOnce, ErrorIsLast
  <1>3. CutAtFailure /\ GoneFor
    BY DEF CutAtFailure, GoneFor, Cut
  <1>4. ErrorFails /\ OkIsClosed
    BY DEF ErrorFails, OkIsClosed
  <1>5. FlushedIsDelivered /\ RoutedIsWritten
    BY DEF FlushedIsDelivered, RoutedIsWritten
  <1> QED
    BY <1>1, <1>2, <1>3, <1>4, <1>5 DEF ExchangeInv, RoutersInv

\* The invariant is inductive.
LEMMA ExchangeInvHolds == ExchangeSpec => []ExchangeInv
  <1>1. ExchangeInv /\ [ExchangeNext]_exchangeVars => ExchangeInv'
    BY RoutersStep, FlushedStep, AckedStep DEF ExchangeInv
  <1> QED
    BY InitHolds, <1>1, PTL DEF ExchangeSpec

-----------------------------------------------------------------------------
\* Type correctness: in every exchange an output takes only what it was offered.
THEOREM ExchangeTypeCorrect == ExchangeSpec => []ExchangeTypeOK
  <1>1. ExchangeInv => ExchangeTypeOK
    BY DEF ExchangeInv, RoutersInv
  <1> QED
    BY ExchangeInvHolds, <1>1, PTL

\* An acked epoch covers only rows that are written, whichever outputs fail and
\* wherever the routers are when they do.
THEOREM RoutedIsWrittenHolds == ExchangeSpec => []RoutedIsWritten
  <1>1. ExchangeInv => RoutedIsWritten
    BY DEF ExchangeInv
  <1> QED
    BY ExchangeInvHolds, <1>1, PTL

-----------------------------------------------------------------------------
(* The broadcast: its inductive invariant.                                 *)


\* A consumer's write, or the plan, has not ended.
Alive(c) == IF c = Output THEN plan = "running" ELSE ended[c] = "no"

\* Who has a receiver: a consumer gets one while they register, once, and keeps
\* it until its write ends.
Registering ==
    /\ \A c \in receiving : Alive(c)
    /\ driver = "new" =>
          /\ slots = receiving /\ produced = 0 /\ feed = "open" /\ ~stopped
          /\ chan = [c \in Consumers |-> <<>>] /\ received = [c \in Consumers |-> <<>>]
          /\ \A c \in Consumers : Alive(c)
    /\ driver # "new" => \A c \in Consumers : Alive(c) => c \in receiving

\* Where the driver is, and what it holds there.
Driving ==
    /\ driver # "send" => held = {}
    /\ driver = "send" => feed # "ended" /\ (feed = "open" => produced > 0)
    /\ (closed \cup stalled) \cap sending = {} /\ closed \cap receiving = {}
    /\ driver = "done" => feed # "open" \/ stopped
    /\ stopped => \A c \in Sinks : ended[c] # "no"
    /\ \A c \in counted : ended[c] # "no"

\* A sink that still receives is registered until the broadcast ends, unless it
\* was given up.
StillRegistered ==
    driver \in {"top", "next", "send"} =>
        \A c \in (Sinks \cap receiving) \ abandoned : c \in slots

\* A channel holds the batches that follow the last one received, and the error
\* behind them.
Seen(c) == Len(received[c])
Queued(c) == Len(chan[c])
Got(c) == Seen(c) + Queued(c)
BatchAt(c, k) == chan[c][k] = Seen(c) + k /\ chan[c][k] <= produced
InOrder ==
    \A c \in receiving : \A k \in 1..Queued(c) :
        BatchAt(c, k) \/ (feed = "failed" /\ k = Queued(c) /\ chan[c][k] = SourceError)

\* A consumer that the current batch was sent to has everything ...
Complete(c) ==
    IF feed = "failed"
    THEN Got(c) = produced + 1 /\ Queued(c) > 0
    ELSE Got(c) = produced
Covered ==
    driver # "new" =>
        \A c \in receiving \ (sending \cup stalled) :
            c \in slots \/ (c \in Sinks /\ c \notin abandoned) => Complete(c)

\* ... and one it has still to be sent to has all but that.
Awaiting ==
    \A c \in sending \cap receiving :
        /\ Got(c) + 1 = (IF feed = "failed" THEN produced + 1 ELSE produced)
        /\ \A k \in 1..Queued(c) : BatchAt(c, k)

BroadcastInv ==
    /\ BroadcastTypeOK /\ Registering /\ Driving /\ StillRegistered
    /\ InOrder /\ Covered /\ Awaiting /\ NoGap /\ PlanJoinsWriters

-----------------------------------------------------------------------------
(* The bounds are numbers; the error is not the number of a batch.           *)
LEMMA BroadcastNums ==
    /\ MaxBatches \in Nat /\ Capacity \in Nat \ {0} /\ SourceError = MaxBatches + 1
    /\ Item = 1..(MaxBatches + 1) /\ Output \in Consumers /\ Sinks \subseteq Consumers
    /\ Output \notin Sinks /\ \A c \in Consumers : c = Output \/ c \in Sinks
  BY BroadcastAssumption DEF SourceError, Item, Consumers

(* A consumer leaves: its write, or the plan, ends, and its receiver is       *)
(* dropped.                                                                   *)
Left(c) ==
    /\ receiving' = receiving \ {c}
    /\ \/ c \in Sinks /\ plan' = plan /\ \E r \in {"ok", "err"} : ended' = [ended EXCEPT ![c] = r]
       \/ c = Output /\ ended' = ended /\ plan' \in {"err", "joining"}

\* The variables that only the driver and the source change.
sideVars == <<driver, feed, produced, slots, held, sending, closed, stalled, abandoned,
              stopped, counted, shutdown, stuck>>

(* A consumer takes a batch, or the error and leaves, ...                     *)
Takes(c) ==
    /\ c \in receiving /\ chan[c] # <<>> /\ chan' = [chan EXCEPT ![c] = Tail(@)]
    /\ UNCHANGED sideVars
    /\ \/ /\ Head(chan[c]) # SourceError
          /\ received' = [received EXCEPT ![c] = Append(@, Head(chan[c]))]
          /\ UNCHANGED <<receiving, ended, plan>>
       \/ /\ Head(chan[c]) = SourceError /\ UNCHANGED received /\ Left(c)
          /\ c = Output => plan' = "err"
          /\ c # Output => ended'[c] = "err"

(* ... or leaves for another reason.                                          *)
Leaves(c) ==
    /\ c \in receiving /\ driver # "new" /\ UNCHANGED <<received, sideVars>> /\ Left(c)
    /\ \/ chan' = [chan EXCEPT ![c] = <<>>] /\ (c # Output => ended'[c] = "err") /\ c # Output
       \/ /\ chan' = chan /\ chan[c] = <<>> /\ ~HasSender(c)
          /\ c = Output => plan' = IF Output \in abandoned THEN "err" ELSE "joining"
          /\ c # Output => ended'[c] = IF c \in abandoned THEN "err" ELSE "ok"

(* Every step is one of the driver's or of the registration, or a consumer    *)
(* takes or leaves, or the plan joins the writers.                            *)
LEMMA ConsumerSteps ==
    ASSUME BroadcastTypeOK, [BroadcastNext]_broadcastVars
    PROVE  \/ \E c \in Consumers : Register(c) \/ SendOk(c) \/ SendClosed(c) \/ SendStalled(c)
           \/ CheckStopped \/ SendsJoined \/ SourceEnds
           \/ \E how \in {"batch", "error"} : Fetch(how)
           \/ \E c \in Consumers : Takes(c) \/ Leaves(c)
           \/ \E c \in Sinks : CountCompleted(c)
           \/ JoinWriters \/ RequestShutdown \/ UNCHANGED broadcastVars
<1>1. ASSUME NEW c \in Sinks, Receive(c) PROVE Takes(c)
  <2>1. c # Output
    BY BroadcastNums
  <2>2. c \in receiving /\ chan[c] # <<>> /\ chan' = [chan EXCEPT ![c] = Tail(@)] /\ UNCHANGED sideVars
    BY <1>1 DEF Receive, WriterEnds, driverVars, sinkVars, sideVars
  <2>3. CASE Head(chan[c]) = SourceError
    <3>1. UNCHANGED <<received, plan>> /\ receiving' = receiving \ {c} /\ ended' = [ended EXCEPT ![c] = "err"]
      BY <1>1, <2>3 DEF Receive, WriterEnds
    <3>2. ended'[c] = "err"
      BY <3>1 DEF BroadcastTypeOK
    <3> QED
      BY <2>1, <2>2, <2>3, <3>1, <3>2, Zenon DEF Takes, Left
  <2>4. CASE Head(chan[c]) # SourceError
    BY <1>1, <2>2, <2>4 DEF Receive, Takes, sinkVars
  <2> QED
    BY <2>3, <2>4
<1>2. ASSUME Forward PROVE Takes(Output)
  <2>2. /\ Output \in receiving /\ chan[Output] # <<>> /\ chan' = [chan EXCEPT ![Output] = Tail(@)]
        /\ UNCHANGED sideVars
    BY <1>2 DEF Forward, PlanEnds, driverVars, sinkVars, sideVars
  <2>3. CASE Head(chan[Output]) = SourceError
    BY <1>2, <2>2, <2>3 DEF Forward, PlanEnds, sinkVars, Takes, Left
  <2>4. CASE Head(chan[Output]) # SourceError
    BY <1>2, <2>2, <2>4 DEF Forward, Takes, sinkVars
  <2> QED
    BY <2>3, <2>4
<1>3. ASSUME NEW c \in Sinks, StreamEnds(c) \/ SinkFails(c) PROVE Leaves(c)
  <2>1. c # Output
    BY BroadcastNums
  <2>2. c \in receiving /\ driver # "new" /\ UNCHANGED <<received, sideVars>>
    BY <1>3 DEF StreamEnds, SinkFails, WriterEnds, driverVars, sinkVars, sideVars
  <2>3. CASE StreamEnds(c)
    <3>1. /\ chan' = chan /\ chan[c] = <<>> /\ ~HasSender(c) /\ plan' = plan
          /\ receiving' = receiving \ {c}
          /\ ended' = [ended EXCEPT ![c] = IF c \in abandoned THEN "err" ELSE "ok"]
      BY <2>3 DEF StreamEnds, WriterEnds
    <3>2. ended'[c] = IF c \in abandoned THEN "err" ELSE "ok"
      BY <3>1 DEF BroadcastTypeOK
    <3>3. (IF c \in abandoned THEN "err" ELSE "ok") \in {"ok", "err"}
      OBVIOUS
    <3> QED
      BY <2>1, <2>2, <3>1, <3>2, <3>3, Zenon DEF Leaves, Left
  <2>4. CASE SinkFails(c)
    <3>1. /\ chan' = [chan EXCEPT ![c] = <<>>] /\ plan' = plan /\ receiving' = receiving \ {c}
          /\ ended' = [ended EXCEPT ![c] = "err"]
      BY <2>4 DEF SinkFails, WriterEnds
    <3>2. ended'[c] = "err"
      BY <3>1 DEF BroadcastTypeOK
    <3> QED
      BY <2>1, <2>2, <3>1, <3>2, Zenon DEF Leaves, Left
  <2> QED
    BY <1>3, <2>3, <2>4
<1>4. ASSUME OutputEnds PROVE Leaves(Output)
  <2>1. /\ Output \in receiving /\ driver # "new" /\ UNCHANGED <<received, sideVars>>
        /\ chan' = chan /\ chan[Output] = <<>> /\ ~HasSender(Output) /\ ended' = ended
        /\ receiving' = receiving \ {Output}
        /\ plan' = IF Output \in abandoned THEN "err" ELSE "joining"
    BY <1>4 DEF OutputEnds, PlanEnds, driverVars, sinkVars, sideVars
  <2>2. (IF Output \in abandoned THEN "err" ELSE "joining") \in {"err", "joining"}
    OBVIOUS
  <2> QED
    BY <2>1, <2>2 DEF Leaves, Left
<1> QED
  BY <1>1, <1>2, <1>3, <1>4, BroadcastNums
  DEF BroadcastNext, DriverStep, WriterStep, PlanStep, BroadcastOver

\* The types, in the parts that steps change together.
SetT ==
    /\ slots \subseteq Consumers /\ held \subseteq Consumers /\ sending \subseteq held
    /\ closed \subseteq held /\ stalled \subseteq held
    /\ receiving \subseteq Consumers /\ abandoned \subseteq Consumers
ChannelT ==
    /\ produced \in 0..MaxBatches
    /\ chan \in [Consumers -> Seq(Item)] /\ \A c \in Consumers : Len(chan[c]) <= Capacity
    /\ received \in [Consumers -> Seq(Item)]
StatusT ==
    /\ driver \in {"new", "top", "next", "send", "done"}
    /\ feed \in {"open", "ended", "failed"}
    /\ ended \in [Sinks -> {"no", "ok", "err"}] /\ counted \subseteq Sinks
    /\ plan \in {"running", "joining", "ok", "err"}
FlagT == stopped \in BOOLEAN /\ shutdown \in BOOLEAN /\ stuck \subseteq MayStick

(* The type invariant is the conjunction of those parts.                      *)
LEMMA BroadcastTypeParts == BroadcastTypeOK <=> SetT /\ ChannelT /\ StatusT /\ FlagT
  BY DEF BroadcastTypeOK, SetT, ChannelT, StatusT, FlagT

(* The types of the sets of consumers are kept, ...                           *)
LEMMA NextSetT ==
    ASSUME BroadcastTypeOK, [BroadcastNext]_broadcastVars, Driving PROVE SetT'
<1>0. SetT
  BY BroadcastTypeParts
<1>1. ASSUME NEW c \in Consumers, Register(c) \/ SendOk(c) \/ SendClosed(c) \/ SendStalled(c) PROVE SetT'
  BY <1>0, <1>1 DEF SetT, Register, SendOk, SendClosed, SendStalled
<1>2. CASE CheckStopped \/ SendsJoined \/ SourceEnds
  BY <1>0, <1>2 DEF SetT, CheckStopped, SendsJoined, SourceEnds, Finish, Abandoned
<1>3. ASSUME NEW how \in {"batch", "error"}, Fetch(how) PROVE SetT'
  <2>1. driver = "next" /\ held = {}
    BY <1>3 DEF Fetch, Driving
  <2> QED
    BY <1>0, <1>3, <2>1 DEF SetT, Fetch
<1>4. ASSUME NEW c \in Consumers, Takes(c) \/ Leaves(c) PROVE SetT'
  BY <1>0, <1>4 DEF SetT, Takes, Leaves, Left, sideVars
<1>5. ASSUME NEW c \in Sinks, CountCompleted(c) PROVE SetT'
  BY <1>0, <1>5 DEF SetT, CountCompleted
<1>6. CASE JoinWriters \/ RequestShutdown \/ UNCHANGED broadcastVars
  BY <1>0, <1>6 DEF SetT, JoinWriters, RequestShutdown, broadcastVars, driverVars
<1> QED
  BY <1>1, <1>2, <1>3, <1>4, <1>5, <1>6, ConsumerSteps

(* ... those of the channels, where the source's number is a batch's, ...     *)
LEMMA NextChannelT ==
    ASSUME BroadcastTypeOK, [BroadcastNext]_broadcastVars, Driving PROVE ChannelT'
<1>0. ChannelT /\ SetT
  BY BroadcastTypeParts
<1>1. ASSUME NEW c \in Consumers, SendOk(c) PROVE ChannelT'
  <2>1. driver = "send" /\ c \in held
    BY <1>0, <1>1 DEF SendOk, SetT, Driving
  <2>2. Current \in Item
    BY <1>0, <2>1, BroadcastNums DEF Driving, Current, ChannelT, BroadcastTypeOK
  <2>3. /\ chan' = [chan EXCEPT ![c] = Append(@, Current)] /\ UNCHANGED <<produced, received>>
        /\ ~ Full(c)
    BY <1>1 DEF SendOk
  <2>4. Append(chan[c], Current) \in Seq(Item) /\ Len(Append(chan[c], Current)) <= Capacity
    BY <1>0, <2>2, <2>3, BroadcastNums DEF ChannelT, Full
  <2> QED
    BY <1>0, <2>3, <2>4 DEF ChannelT
<1>2. ASSUME NEW c \in Consumers, Register(c) \/ SendClosed(c) \/ SendStalled(c) PROVE ChannelT'
  BY <1>0, <1>2 DEF ChannelT, Register, SendClosed, SendStalled
<1>3. CASE CheckStopped \/ SendsJoined \/ SourceEnds
  BY <1>0, <1>3 DEF ChannelT, CheckStopped, SendsJoined, SourceEnds
<1>4. ASSUME NEW how \in {"batch", "error"}, Fetch(how) PROVE ChannelT'
  BY <1>0, <1>4, BroadcastNums DEF ChannelT, Fetch
<1>5. ASSUME NEW c \in Consumers, Takes(c) PROVE ChannelT'
  <2>1. /\ Tail(chan[c]) \in Seq(Item) /\ Len(Tail(chan[c])) <= Capacity /\ Head(chan[c]) \in Item
        /\ Append(received[c], Head(chan[c])) \in Seq(Item)
    BY <1>0, <1>5, BroadcastNums DEF ChannelT, Takes
  <2>2. chan' = [chan EXCEPT ![c] = Tail(@)] /\ produced' = produced
        /\ (received' = received \/ received' = [received EXCEPT ![c] = Append(@, Head(chan[c]))])
    BY <1>5 DEF Takes, sideVars
  <2> QED
    BY <1>0, <2>1, <2>2 DEF ChannelT
<1>6. ASSUME NEW c \in Consumers, Leaves(c) PROVE ChannelT'
  <2>1. <<>> \in Seq(Item) /\ Len(<<>>) <= Capacity
    BY BroadcastNums
  <2>2. (chan' = chan \/ chan' = [chan EXCEPT ![c] = <<>>]) /\ UNCHANGED <<produced, received>>
    BY <1>6 DEF Leaves, sideVars
  <2> QED
    BY <1>0, <2>1, <2>2 DEF ChannelT
<1>7. ASSUME NEW c \in Sinks, CountCompleted(c) PROVE ChannelT'
  BY <1>0, <1>7 DEF ChannelT, CountCompleted
<1>8. CASE JoinWriters \/ RequestShutdown \/ UNCHANGED broadcastVars
  BY <1>0, <1>8 DEF ChannelT, JoinWriters, RequestShutdown, broadcastVars
<1> QED
  BY <1>1, <1>2, <1>3, <1>4, <1>5, <1>6, <1>7, <1>8, ConsumerSteps

(* ... and those of the driver, the writers and the plan.                     *)
LEMMA NextStatusT ==
    ASSUME BroadcastTypeOK, [BroadcastNext]_broadcastVars PROVE StatusT' /\ FlagT'
<1>0. StatusT /\ FlagT
  BY BroadcastTypeParts
<1>1. ASSUME NEW c \in Consumers, Register(c) \/ SendOk(c) \/ SendClosed(c) \/ SendStalled(c)
      PROVE  StatusT' /\ FlagT'
  BY <1>0, <1>1 DEF StatusT, FlagT, Register, SendOk, SendClosed, SendStalled, sinkVars
<1>2. CASE CheckStopped \/ SendsJoined \/ SourceEnds
  BY <1>0, <1>2 DEF StatusT, FlagT, CheckStopped, SendsJoined, SourceEnds, Finish, sinkVars
<1>3. ASSUME NEW how \in {"batch", "error"}, Fetch(how) PROVE StatusT' /\ FlagT'
  BY <1>0, <1>3 DEF StatusT, FlagT, Fetch, sinkVars
<1>4. ASSUME NEW c \in Consumers, Takes(c) \/ Leaves(c) PROVE StatusT' /\ FlagT'
  <2>1. UNCHANGED sideVars /\ (Left(c) \/ UNCHANGED <<ended, plan>>)
    BY <1>4 DEF Takes, Leaves
  <2>2. (ended \in [Sinks -> {"no", "ok", "err"}] /\ plan \in {"running", "joining", "ok", "err"})'
    BY <1>0, <2>1 DEF StatusT, Left
  <2> QED
    BY <1>0, <2>1, <2>2 DEF StatusT, FlagT, sideVars
<1>5. ASSUME NEW c \in Sinks, CountCompleted(c) PROVE StatusT' /\ FlagT'
  BY <1>0, <1>5 DEF StatusT, FlagT, CountCompleted
<1>6. CASE JoinWriters \/ RequestShutdown \/ UNCHANGED broadcastVars
  BY <1>0, <1>6 DEF StatusT, FlagT, JoinWriters, RequestShutdown, broadcastVars, driverVars, sinkVars
<1> QED
  BY <1>1, <1>2, <1>3, <1>4, <1>5, <1>6, ConsumerSteps

-----------------------------------------------------------------------------
(* Who is registered.                                                         *)

(* The write that ends is this consumer's and no other's.                     *)
LEMMA LeftAlone ==
    ASSUME BroadcastTypeOK, NEW c \in Consumers, Left(c)
    PROVE  ~ Alive(c)' /\ \A d \in Consumers \ {c} : Alive(d)' <=> Alive(d)
<1>1. CASE c \in Sinks
  <2>1. c # Output /\ plan' = plan /\ \E r \in {"ok", "err"} : ended' = [ended EXCEPT ![c] = r]
    BY <1>1, BroadcastNums DEF Left
  <2> QED
    BY <1>1, <2>1, BroadcastNums DEF Alive, BroadcastTypeOK
<1>2. CASE c = Output
  <2>1. ended' = ended /\ plan' \in {"err", "joining"}
    BY <1>2, BroadcastNums DEF Left
  <2> QED
    BY <1>2, <2>1 DEF Alive
<1> QED
  BY <1>1, <1>2, BroadcastNums

(* A consumer registers before the broadcast starts, and not again.           *)
LEMMA RegistersEarly ==
    ASSUME Registering, NEW c \in Consumers, Register(c) PROVE driver = "new" /\ Alive(c)
<1>1. c \notin receiving /\ Alive(c)
  BY DEF Register, Alive
<1> QED
  BY <1>1 DEF Registering

(* Registration is over when the broadcast starts.                            *)
LEMMA NextRegistering ==
    ASSUME BroadcastTypeOK, [BroadcastNext]_broadcastVars, Driving, Registering
    PROVE  Registering'
<1>1. ASSUME NEW c \in Consumers, Register(c) PROVE Registering'
  <2>1. driver = "new" /\ Alive(c) /\ \A d \in Consumers : Alive(d)' <=> Alive(d)
    BY <1>1, RegistersEarly DEF Register, sinkVars, Alive
  <2>2. /\ slots' = slots \cup {c} /\ receiving' = receiving \cup {c}
        /\ driver' = IF slots \cup {c} = Consumers THEN "top" ELSE "new"
        /\ UNCHANGED <<feed, produced, chan, received, stopped>>
    BY <1>1, <2>1 DEF Register, Starts
  <2>3. receiving \subseteq Consumers
    BY DEF BroadcastTypeOK
  <2> QED
    BY <2>1, <2>2, <2>3 DEF Registering
<1>2. ASSUME driver # "new", driver' # "new", receiving' = receiving, UNCHANGED <<ended, plan>>
      PROVE  Registering'
  BY <1>2 DEF Registering, Alive
<1>3. ASSUME NEW c \in Consumers, SendOk(c) \/ SendClosed(c) \/ SendStalled(c) PROVE Registering'
  <2>1. driver = "send"
    BY <1>3 DEF SendOk, SendClosed, SendStalled, BroadcastTypeOK, Driving
  <2> QED
    BY <1>2, <1>3, <2>1 DEF SendOk, SendClosed, SendStalled, sinkVars
<1>4. CASE CheckStopped \/ SendsJoined \/ SourceEnds \/ (\E how \in {"batch", "error"} : Fetch(how))
  BY <1>2, <1>4 DEF CheckStopped, SendsJoined, SourceEnds, Fetch, Finish, sinkVars
<1>5. ASSUME NEW c \in Consumers, Takes(c) \/ Leaves(c) PROVE Registering'
  <2>1. driver # "new" /\ driver' = driver
    BY <1>5 DEF Takes, Leaves, sideVars, Registering
  <2>2. CASE UNCHANGED <<receiving, ended, plan>>
    BY <1>2, <2>1, <2>2
  <2>3. CASE Left(c)
    <3>1. receiving' = receiving \ {c} /\ receiving \subseteq Consumers
      BY <2>3 DEF Left, BroadcastTypeOK
    <3>2. ~ Alive(c)' /\ \A d \in Consumers \ {c} : Alive(d)' <=> Alive(d)
      BY <2>3, LeftAlone
    <3> QED
      BY <2>1, <3>1, <3>2 DEF Registering
  <2> QED
    BY <1>5, <2>2, <2>3 DEF Takes, Leaves
<1>6. ASSUME NEW c \in Sinks, CountCompleted(c) PROVE Registering'
  <2>1. driver # "new"
    <3>1. ended[c] # "no" /\ c # Output /\ c \in Consumers
      BY <1>6, BroadcastNums DEF CountCompleted
    <3>3. ~ Alive(c)
      BY <3>1 DEF Alive
    <3> QED
      BY <1>6, <3>1, <3>3 DEF Registering
  <2> QED
    BY <1>2, <1>6, <2>1 DEF CountCompleted
<1>7. CASE JoinWriters
  <2>1. plan = "joining" /\ plan' \in {"ok", "err"} /\ UNCHANGED <<driver, receiving, ended>>
    BY <1>7 DEF JoinWriters, driverVars, sinkVars
  <2>2. driver # "new" /\ Output \notin receiving
    BY <2>1, BroadcastNums DEF Registering, Alive
  <2> QED
    BY <2>1, <2>2 DEF Registering, Alive
<1>8. CASE RequestShutdown \/ UNCHANGED broadcastVars
  BY <1>8 DEF RequestShutdown, broadcastVars, driverVars, sinkVars, Registering, Alive
<1> QED
  BY <1>1, <1>3, <1>4, <1>5, <1>6, <1>7, <1>8, ConsumerSteps

(* An ended write stays ended.                                                *)
LEMMA EndedStays ==
    ASSUME BroadcastTypeOK, [BroadcastNext]_broadcastVars, Registering
    PROVE  \A c \in Sinks : ended[c] # "no" => ended'[c] = ended[c]
<1>1. ended' = ended \/ \E c \in Consumers : c \in receiving /\ Left(c)
  BY ConsumerSteps
  DEF Register, SendOk, SendClosed, SendStalled, CheckStopped, SendsJoined, SourceEnds, Fetch,
      Takes, Leaves, CountCompleted, JoinWriters, RequestShutdown, broadcastVars, sinkVars
<1>2. ASSUME NEW c \in Consumers, c \in receiving, Left(c)
      PROVE  \A d \in Sinks : ended[d] # "no" => ended'[d] = ended[d]
  <2>1. Alive(c)
    BY <1>2 DEF Registering
  <2>2. c \in Sinks => ended[c] = "no"
    BY <2>1, BroadcastNums DEF Alive
  <2> QED
    BY <1>2, <2>2 DEF Left, BroadcastTypeOK
<1> QED
  BY <1>1, <1>2

(* Once every sink is counted none receives.                                  *)
LEMMA NoneReceives ==
    ASSUME Registering, NEW c \in Sinks, ended[c] # "no" PROVE c \notin receiving
  BY BroadcastNums DEF Registering, Alive

(* The driver's sets are its own.                                             *)
LEMMA NextDriving ==
    ASSUME BroadcastTypeOK, [BroadcastNext]_broadcastVars, Driving, Registering
    PROVE  Driving'
<1>0. produced \in Nat /\ (closed \cup stalled \cup sending) \subseteq held
  BY BroadcastNums DEF BroadcastTypeOK
<1>1. ASSUME NEW c \in Sinks, ended[c] # "no" PROVE ended'[c] # "no"
  BY <1>1, EndedStays
<1>2. ASSUME NEW c \in Consumers, Register(c) PROVE Driving'
  <2>1. driver = "new" /\ held = {}
    BY <1>2, RegistersEarly DEF Driving
  <2>2. /\ driver' \in {"new", "top"} /\ UNCHANGED <<held, closed, stalled, sending, stopped, ended, counted>>
    BY <1>2, <2>1 DEF Register, sinkVars
  <2>3. closed = {} /\ stalled = {} /\ sending = {}
    BY <1>0, <2>1
  <2> QED
    BY <2>1, <2>2, <2>3 DEF Driving
<1>3. ASSUME NEW c \in Consumers, SendOk(c) \/ SendClosed(c) \/ SendStalled(c) PROVE Driving'
  <2>1. /\ UNCHANGED <<driver, held, feed, produced, receiving, stopped, ended, counted>>
        /\ sending' = sending \ {c} /\ closed' \subseteq closed \cup {c} /\ stalled' \subseteq stalled \cup {c}
        /\ (c \in receiving /\ closed' = closed) \/ c \notin receiving
    BY <1>3 DEF SendOk, SendClosed, SendStalled, sinkVars
  <2>2. (closed' \cup stalled') \cap sending' = {} /\ closed' \cap receiving' = {}
    BY <2>1 DEF Driving
  <2> QED
    BY <2>1, <2>2 DEF Driving
<1>4. CASE CheckStopped
  <2>1. /\ driver = "top" /\ driver' \in {"next", "done"} /\ (driver' = "done" => stopped)
        /\ UNCHANGED <<held, closed, stalled, sending, receiving, stopped, ended, counted>>
    BY <1>4 DEF CheckStopped, Finish, sinkVars
  <2> QED
    BY <2>1 DEF Driving
<1>5. CASE SendsJoined
  <2>1. /\ driver' = "top" /\ held' = {} /\ closed' = {} /\ stalled' = {}
        /\ UNCHANGED <<stopped, ended, counted>>
    BY <1>5 DEF SendsJoined, sinkVars
  <2> QED
    BY <2>1 DEF Driving
<1>6. CASE SourceEnds
  <2>1. /\ driver = "next" /\ driver' = "done" /\ feed' # "open"
        /\ UNCHANGED <<held, closed, stalled, sending, receiving, stopped, ended, counted>>
    BY <1>6 DEF SourceEnds, Finish, sinkVars
  <2> QED
    BY <2>1 DEF Driving
<1>7. ASSUME NEW how \in {"batch", "error"}, Fetch(how) PROVE Driving'
  <2>1. /\ driver = "next" /\ driver' = "send" /\ feed' # "ended" /\ (feed' = "open" => produced' > 0)
        /\ UNCHANGED <<closed, stalled, receiving, stopped, ended, counted>>
    BY <1>0, <1>7 DEF Fetch, sinkVars
  <2>2. closed = {} /\ stalled = {}
    BY <1>0, <2>1 DEF Driving
  <2> QED
    BY <2>1, <2>2 DEF Driving
<1>8. ASSUME NEW c \in Consumers, Takes(c) \/ Leaves(c) PROVE Driving'
  <2>1. receiving' \subseteq receiving /\ UNCHANGED sideVars
    BY <1>8 DEF Takes, Leaves, Left
  <2>2. counted \subseteq Sinks
    BY DEF BroadcastTypeOK
  <2> QED
    BY <1>1, <2>1, <2>2 DEF Driving, sideVars
<1>9. ASSUME NEW c \in Sinks, CountCompleted(c) PROVE Driving'
  <2>1. /\ UNCHANGED <<driver, held, feed, produced, closed, stalled, sending, receiving, ended>>
        /\ counted' = counted \cup {c} /\ ended[c] # "no"
        /\ counted' = Sinks \/ stopped' = stopped
    BY <1>9 DEF CountCompleted
  <2>2. \A d \in counted' : ended'[d] # "no"
    BY <2>1 DEF Driving
  <2>3. stopped' => \A d \in Sinks : ended'[d] # "no"
    BY <2>1, <2>2 DEF Driving
  <2>4. driver = "done" => feed # "open" \/ stopped'
    BY <1>9 DEF Driving, CountCompleted
  <2> QED
    BY <2>1, <2>2, <2>3, <2>4 DEF Driving
<1>10. CASE JoinWriters \/ RequestShutdown \/ UNCHANGED broadcastVars
  BY <1>10 DEF JoinWriters, RequestShutdown, broadcastVars, driverVars, sinkVars, Driving
<1> QED
  BY <1>2, <1>3, <1>4, <1>5, <1>6, <1>7, <1>8, <1>9, <1>10, ConsumerSteps

(* A sink is taken off the register when it has gone, or when its stream is   *)
(* marked to end in an error.                                                 *)
LEMMA NextStillRegistered ==
    ASSUME BroadcastTypeOK, [BroadcastNext]_broadcastVars, Driving, Registering, StillRegistered
    PROVE  StillRegistered'
<1>1. ASSUME NEW c \in Consumers, Register(c) PROVE StillRegistered'
  <2>1. driver = "new"
    BY <1>1, RegistersEarly
  <2> QED
    BY <1>1, <2>1, BroadcastNums DEF Register, Starts, StillRegistered
<1>2. ASSUME NEW c \in Consumers, SendOk(c) \/ SendClosed(c) \/ SendStalled(c) PROVE StillRegistered'
  BY <1>2 DEF SendOk, SendClosed, SendStalled, StillRegistered
<1>3. CASE CheckStopped \/ SourceEnds \/ (\E how \in {"batch", "error"} : Fetch(how))
  BY <1>3 DEF CheckStopped, SourceEnds, Fetch, Finish, StillRegistered
<1>4. CASE SendsJoined
  BY <1>4 DEF SendsJoined, Abandoned, Failed, StillRegistered, Driving
<1>5. ASSUME NEW c \in Consumers, Takes(c) \/ Leaves(c) PROVE StillRegistered'
  <2>1. receiving' \subseteq receiving /\ UNCHANGED sideVars
    BY <1>5 DEF Takes, Leaves, Left
  <2> QED
    BY <2>1 DEF StillRegistered, sideVars
<1>6. ASSUME NEW c \in Sinks, CountCompleted(c) PROVE StillRegistered'
  <2>1. UNCHANGED <<driver, receiving, abandoned>> /\ (slots' = slots \/ counted \cup {c} = Sinks)
    BY <1>6 DEF CountCompleted
  <2>2. CASE counted \cup {c} = Sinks
    <3>1. \A d \in Sinks : ended[d] # "no"
      BY <1>6, <2>2 DEF CountCompleted, Driving
    <3>2. Sinks \cap receiving = {}
      BY <3>1, NoneReceives
    <3> QED
      BY <2>1, <3>2 DEF StillRegistered
  <2> QED
    BY <2>1, <2>2 DEF StillRegistered
<1>7. CASE JoinWriters \/ RequestShutdown \/ UNCHANGED broadcastVars
  BY <1>7 DEF JoinWriters, RequestShutdown, broadcastVars, driverVars, StillRegistered
<1> QED
  BY <1>1, <1>2, <1>3, <1>4, <1>5, <1>6, <1>7, ConsumerSteps

-----------------------------------------------------------------------------
(* What the channels hold.                                                    *)

\* The channel of d, and what d received, are left alone.
Alone(d) == d \in receiving /\ chan'[d] = chan[d] /\ received'[d] = received[d]

\* d receives the next batch.
Receives(d) ==
    /\ d \in receiving /\ chan[d] # <<>> /\ Head(chan[d]) # SourceError
    /\ chan'[d] = Tail(chan[d]) /\ received'[d] = Append(received[d], Head(chan[d]))
    /\ UNCHANGED sideVars /\ receiving' = receiving

(* A consumer that goes on receiving has registered, is sent to or receives,  *)
(* or nothing happens to it.                                                  *)
LEMMA ConsumerSees ==
    ASSUME BroadcastTypeOK, [BroadcastNext]_broadcastVars, NEW d \in receiving'
    PROVE  Alone(d) \/ Register(d) \/ SendOk(d) \/ Receives(d)
<1>0. receiving \subseteq Consumers /\ chan \in [Consumers -> Seq(Item)] /\ received \in [Consumers -> Seq(Item)]
  BY DEF BroadcastTypeOK
<1>1. ASSUME NEW c \in Consumers, Register(c) PROVE Alone(d) \/ Register(d)
  BY <1>1 DEF Register, Alone
<1>2. ASSUME NEW c \in Consumers, SendOk(c) PROVE Alone(d) \/ SendOk(d)
  <2>1. receiving' = receiving /\ received' = received /\ chan' = [chan EXCEPT ![c] = Append(@, Current)]
    BY <1>2 DEF SendOk
  <2>2. c # d => chan'[d] = chan[d]
    BY <1>0, <2>1
  <2> QED
    BY <1>2, <2>1, <2>2 DEF Alone
<1>3. ASSUME NEW c \in Consumers, SendClosed(c) \/ SendStalled(c) PROVE Alone(d)
  BY <1>3 DEF SendClosed, SendStalled, Alone
<1>4. CASE CheckStopped \/ SendsJoined \/ SourceEnds \/ (\E how \in {"batch", "error"} : Fetch(how))
  BY <1>4 DEF CheckStopped, SendsJoined, SourceEnds, Fetch, Alone
<1>5. ASSUME NEW c \in Consumers, Takes(c) PROVE Alone(d) \/ Receives(d)
  <2>1. d \in receiving /\ d \in Consumers /\ (Left(c) => c # d)
    BY <1>0, <1>5 DEF Takes, Left
  <2>2. c # d => Alone(d)
    BY <1>0, <1>5, <2>1 DEF Takes, Alone
  <2>3. c = d => Receives(d)
    BY <1>0, <1>5, <2>1 DEF Takes, Receives
  <2> QED
    BY <2>2, <2>3
<1>6. ASSUME NEW c \in Consumers, Leaves(c) PROVE Alone(d)
  <2>1. d \in receiving /\ d \in Consumers /\ c # d
    BY <1>0, <1>6 DEF Leaves, Left
  <2> QED
    BY <1>0, <1>6, <2>1 DEF Leaves, Alone
<1>7. ASSUME NEW c \in Sinks, CountCompleted(c) PROVE Alone(d)
  BY <1>7 DEF CountCompleted, Alone
<1>8. CASE JoinWriters \/ RequestShutdown \/ UNCHANGED broadcastVars
  BY <1>8 DEF JoinWriters, RequestShutdown, broadcastVars, Alone
<1> QED
  BY <1>1, <1>2, <1>3, <1>4, <1>5, <1>6, <1>7, <1>8, ConsumerSteps

(* The source only goes on, and its error is its end.                         *)
LEMMA FeedSteps ==
    ASSUME BroadcastTypeOK, [BroadcastNext]_broadcastVars
    PROVE  /\ produced \in Nat /\ produced' \in Nat /\ produced <= produced'
           /\ feed = "failed" => feed' = "failed"
           /\ feed = "ended" => feed' = "ended" /\ produced' = produced
           /\ UNCHANGED <<feed, produced>> \/ SourceEnds \/ \E how \in {"batch", "error"} : Fetch(how)
<1>0. produced \in Nat
  BY BroadcastNums DEF BroadcastTypeOK
<1>1. UNCHANGED <<feed, produced>> \/ SourceEnds \/ \E how \in {"batch", "error"} : Fetch(how)
  BY ConsumerSteps
  DEF Register, SendOk, SendClosed, SendStalled, CheckStopped, SendsJoined, Takes, Leaves,
      CountCompleted, JoinWriters, RequestShutdown, broadcastVars, sideVars
<1>2. CASE SourceEnds
  BY <1>0, <1>1, <1>2 DEF SourceEnds
<1>3. ASSUME NEW how \in {"batch", "error"}, Fetch(how)
      PROVE  /\ feed = "open" /\ produced' \in Nat /\ produced <= produced'
  BY <1>0, <1>3 DEF Fetch
<1> QED
  BY <1>0, <1>1, <1>2, <1>3

(* A batch put at the end of a channel, and one taken from its head.          *)
LEMMA ChannelSeqs ==
    ASSUME NEW s \in Seq(Item), NEW x \in Item
    PROVE  /\ Len(s) \in Nat /\ Len(Append(s, x)) = Len(s) + 1 /\ Append(s, x)[Len(s) + 1] = x
           /\ \A k \in 1..Len(s) : Append(s, x)[k] = s[k]
           /\ s # <<>> => /\ Len(Tail(s)) = Len(s) - 1 /\ Head(s) = s[1] /\ Len(s) > 0
                          /\ \A k \in 1..(Len(s) - 1) : Tail(s)[k] = s[k + 1]
  OBVIOUS

(* Those are counted with.                                                    *)
LEMMA Counts ==
    ASSUME BroadcastTypeOK, NEW c \in Consumers
    PROVE  Seen(c) \in Nat /\ Queued(c) \in Nat /\ produced \in Nat /\ Got(c) \in Nat
<1>1. chan[c] \in Seq(Item) /\ received[c] \in Seq(Item)
  BY DEF BroadcastTypeOK
<1>2. Seen(c) \in Nat /\ Queued(c) \in Nat
  BY <1>1 DEF Seen, Queued
<1>3. produced \in Nat
  BY BroadcastNums DEF BroadcastTypeOK
<1> QED
  BY <1>2, <1>3 DEF Got

(* What the driver sends is the batch that follows the ones the consumer has. *)
LEMMA SentNext ==
    ASSUME BroadcastTypeOK, Driving, Awaiting, NEW c \in Consumers, SendOk(c)
    PROVE  /\ c \in receiving /\ driver = "send" /\ feed \in {"open", "failed"}
           /\ UNCHANGED <<feed, produced, received>> /\ chan'[c] # <<>>
           /\ Queued(c)' = Queued(c) + 1 /\ Seen(c)' = Seen(c)
           /\ \A k \in 1..Queued(c) : BatchAt(c, k) /\ chan'[c][k] = chan[c][k]
           /\ feed = "failed" => Got(c) = produced /\ chan'[c][Queued(c) + 1] = SourceError
           /\ feed = "open" => Got(c) + 1 = produced /\ chan'[c][Queued(c) + 1] = produced
<1>1. /\ c \in sending \cap receiving /\ UNCHANGED <<feed, produced, received>>
      /\ chan' = [chan EXCEPT ![c] = Append(@, Current)]
  BY DEF SendOk
<1>2. driver = "send" /\ feed \in {"open", "failed"}
  BY <1>1 DEF Driving, BroadcastTypeOK
<1>3. chan[c] \in Seq(Item) /\ chan'[c] = Append(chan[c], Current) /\ produced \in 0..MaxBatches
  BY <1>1 DEF BroadcastTypeOK
<1>4. Current \in Item /\ Current = IF feed = "failed" THEN SourceError ELSE produced
  BY <1>2, <1>3, BroadcastNums DEF Driving, Current
<1>5. /\ Queued(c)' = Queued(c) + 1 /\ chan'[c][Queued(c) + 1] = Current
      /\ \A k \in 1..Queued(c) : chan'[c][k] = chan[c][k]
  BY <1>3, <1>4, ChannelSeqs DEF Queued
<1>6. chan'[c] # <<>>
  BY <1>3, <1>4
<1>7. /\ Got(c) + 1 = (IF feed = "failed" THEN produced + 1 ELSE produced)
      /\ \A k \in 1..Queued(c) : BatchAt(c, k)
  BY <1>1 DEF Awaiting
<1>8. feed = "failed" => Got(c) = produced /\ chan'[c][Queued(c) + 1] = SourceError
  BY <1>4, <1>5, <1>7, Counts
<1>9. feed = "open" => Got(c) + 1 = produced /\ chan'[c][Queued(c) + 1] = produced
  BY <1>4, <1>5, <1>7
<1>10. Seen(c)' = Seen(c)
  BY <1>1 DEF Seen
<1> QED
  BY <1>1, <1>2, <1>5, <1>6, <1>7, <1>8, <1>9, <1>10, Zenon

(* What a consumer receives is the batch after the last one.                  *)
LEMMA ReceivedNext ==
    ASSUME BroadcastTypeOK, NEW c \in Consumers, Receives(c)
    PROVE  /\ c \in receiving /\ UNCHANGED <<feed, produced, receiving>>
           /\ Queued(c) > 0 /\ Queued(c)' = Queued(c) - 1 /\ Seen(c)' = Seen(c) + 1
           /\ \A k \in 1..(Queued(c) - 1) : chan'[c][k] = chan[c][k + 1]
           /\ Head(chan[c]) = chan[c][1]
           /\ received'[c] = Append(received[c], chan[c][1]) /\ chan[c][1] # SourceError
<1>1. chan[c] \in Seq(Item) /\ received[c] \in Seq(Item)
  BY DEF BroadcastTypeOK
<1>2. /\ c \in receiving /\ chan[c] # <<>> /\ Head(chan[c]) # SourceError
      /\ chan'[c] = Tail(chan[c]) /\ received'[c] = Append(received[c], Head(chan[c]))
      /\ UNCHANGED <<feed, produced, receiving>>
  BY DEF Receives, sideVars
<1>3. Head(chan[c]) \in Item
  BY <1>1, <1>2
<1>4. /\ Queued(c) > 0 /\ Queued(c)' = Queued(c) - 1 /\ Head(chan[c]) = chan[c][1]
      /\ \A k \in 1..(Queued(c) - 1) : chan'[c][k] = chan[c][k + 1]
  BY <1>1, <1>2, <1>3, ChannelSeqs DEF Queued
<1>5. Seen(c)' = Seen(c) + 1
  BY <1>1, <1>2, <1>3, ChannelSeqs DEF Seen
<1> QED
  BY <1>2, <1>4, <1>5, Zenon

(* A consumer left alone has what it had.                                     *)
LEMMA LeftAsItWas ==
    ASSUME NEW c, Alone(c)
    PROVE  Seen(c)' = Seen(c) /\ Queued(c)' = Queued(c) /\ Got(c)' = Got(c) /\ c \in receiving
           /\ chan'[c] = chan[c]
  BY DEF Alone, Seen, Queued, Got

(* The channels hold the batches in order.                                    *)
LEMMA NextInOrder ==
    ASSUME BroadcastInv, [BroadcastNext]_broadcastVars PROVE InOrder'
<1> USE DEF BroadcastInv
<1> SUFFICES ASSUME NEW d \in receiving', NEW k \in 1..(Queued(d)')
             PROVE  BatchAt(d, k)' \/ (feed' = "failed" /\ k = Queued(d)' /\ chan'[d][k] = SourceError)
  BY DEF InOrder
<1>s. d \in Consumers
  BY NextSetT DEF SetT
<1>0. Seen(d) \in Nat /\ Queued(d) \in Nat
  BY <1>s, Counts
<1>1. produced \in Nat /\ produced' \in Nat /\ produced <= produced' /\ (feed = "failed" => feed' = "failed")
  BY FeedSteps
<1>2. CASE Alone(d)
  <2>1. Seen(d)' = Seen(d) /\ Queued(d)' = Queued(d) /\ chan'[d] = chan[d] /\ d \in receiving
    BY <1>2, LeftAsItWas
  <2>2. BatchAt(d, k) \/ (feed = "failed" /\ k = Queued(d) /\ chan[d][k] = SourceError)
    BY <2>1 DEF InOrder
  <2> QED
    BY <1>0, <1>1, <2>1, <2>2 DEF BatchAt
<1>3. CASE Register(d)
  <2>1. chan'[d] = <<>>
    BY <1>s, <1>3, RegistersEarly DEF Register, Registering
  <2>2. Queued(d)' = 0
    BY <2>1 DEF Queued
  <2> QED
    BY <2>2
<1>4. CASE SendOk(d)
  <2>0. /\ Queued(d)' = Queued(d) + 1 /\ Seen(d)' = Seen(d) /\ UNCHANGED <<feed, produced>>
        /\ \A j \in 1..Queued(d) : BatchAt(d, j) /\ chan'[d][j] = chan[d][j]
        /\ feed = "failed" => chan'[d][Queued(d) + 1] = SourceError
        /\ feed = "open" => Got(d) + 1 = produced /\ chan'[d][Queued(d) + 1] = produced
        /\ feed \in {"open", "failed"}
    BY <1>s, <1>4, SentNext
  <2>1. k \in 1..Queued(d) \/ k = Queued(d) + 1
    BY <1>0, <2>0
  <2>2. CASE k \in 1..Queued(d)
    BY <2>0, <2>2 DEF BatchAt
  <2>3. CASE k = Queued(d) + 1
    BY <1>0, <1>1, <2>0, <2>3 DEF BatchAt, Got
  <2> QED
    BY <2>1, <2>2, <2>3
<1>5. CASE Receives(d)
  <2>1. /\ d \in receiving /\ UNCHANGED <<feed, produced>> /\ Queued(d)' = Queued(d) - 1
        /\ Seen(d)' = Seen(d) + 1 /\ \A j \in 1..(Queued(d) - 1) : chan'[d][j] = chan[d][j + 1]
    BY <1>s, <1>5, ReceivedNext
  <2>2. k + 1 \in 1..Queued(d) /\ k \in 1..(Queued(d) - 1)
    BY <1>0, <2>1
  <2>3. BatchAt(d, k + 1) \/ (feed = "failed" /\ k + 1 = Queued(d) /\ chan[d][k + 1] = SourceError)
    BY <2>1, <2>2 DEF InOrder
  <2>4. chan'[d][k] = chan[d][k + 1]
    BY <2>1, <2>2
  <2> QED
    BY <1>0, <2>1, <2>2, <2>3, <2>4 DEF BatchAt
<1> QED
  BY <1>2, <1>3, <1>4, <1>5, ConsumerSees

(* Who has still to be sent to changes with a batch, or when one is sent.     *)
LEMMA SendingSteps ==
    ASSUME BroadcastTypeOK, [BroadcastNext]_broadcastVars
    PROVE  /\ sending' \subseteq sending \/ \E how \in {"batch", "error"} : Fetch(how)
           /\ \A c \in Consumers : SendOk(c) => sending' = sending \ {c}
<1>1. \/ sending' \subseteq sending
      \/ \E how \in {"batch", "error"} : Fetch(how)
  BY ConsumerSteps
  DEF Register, SendOk, SendClosed, SendStalled, CheckStopped, SendsJoined, SourceEnds, Finish,
      Takes, Leaves, CountCompleted, JoinWriters, RequestShutdown, broadcastVars, driverVars, sideVars
<1>2. \A c \in Consumers : SendOk(c) => sending' = sending \ {c}
  BY DEF SendOk
<1> QED
  BY <1>1, <1>2

(* Nobody is sent to between two batches.                                     *)
LEMMA IdleSets ==
    ASSUME BroadcastTypeOK, Driving, driver # "send"
    PROVE  sending = {} /\ stalled = {} /\ closed = {}
  BY DEF BroadcastTypeOK, Driving

(* A consumer that is to be sent the batch has all the others.                *)
LEMMA NextAwaiting ==
    ASSUME BroadcastInv, [BroadcastNext]_broadcastVars PROVE Awaiting'
<1> USE DEF BroadcastInv
<1> DEFINE Wait(f, n) == IF f = "failed" THEN n + 1 ELSE n
<1> SUFFICES ASSUME NEW d \in sending' \cap receiving'
             PROVE  /\ Got(d)' + 1 = Wait(feed', produced')
                    /\ \A k \in 1..(Queued(d)') : BatchAt(d, k)'
  BY DEF Awaiting
<1>s. d \in Consumers
  BY NextSetT DEF SetT
<1>0. Seen(d) \in Nat /\ Queued(d) \in Nat /\ produced \in Nat /\ Got(d) = Seen(d) + Queued(d)
  BY <1>s, Counts DEF Got
<1>1. ASSUME NEW how \in {"batch", "error"}, Fetch(how)
      PROVE  /\ Got(d)' + 1 = Wait(feed', produced')
             /\ \A k \in 1..(Queued(d)') : BatchAt(d, k)'
  <2>1. /\ driver = "next" /\ feed = "open" /\ sending' = slots /\ receiving' = receiving
        /\ UNCHANGED <<chan, received>>
        /\ \/ produced' = produced + 1 /\ feed' = "open"
           \/ produced' = produced /\ feed' = "failed"
    BY <1>1 DEF Fetch
  <2>2. sending = {} /\ stalled = {}
    BY <2>1, IdleSets
  <2>3. Got(d) = produced
    BY <2>1, <2>2 DEF Covered, Complete
  <2>4. \A k \in 1..Queued(d) : BatchAt(d, k)
    BY <2>1 DEF InOrder
  <2>5. Seen(d)' = Seen(d) /\ Queued(d)' = Queued(d) /\ Got(d)' = Got(d)
    BY <2>1 DEF Seen, Queued, Got
  <2>6. Got(d)' + 1 = Wait(feed', produced')
    BY <1>0, <2>1, <2>3, <2>5
  <2>7. \A k \in 1..(Queued(d)') : BatchAt(d, k)'
    BY <1>0, <2>1, <2>4, <2>5 DEF BatchAt
  <2> QED
    BY <2>6, <2>7
<1>2. CASE ~ \E how \in {"batch", "error"} : Fetch(how)
  <2>1. d \in sending /\ driver = "send"
    BY <1>2, SendingSteps, IdleSets
  <2>2. UNCHANGED <<feed, produced>>
    BY <1>2, <2>1, FeedSteps DEF SourceEnds
  <2>3. ~ SendOk(d) /\ ~ Register(d)
    BY <1>s, <2>1, SendingSteps, RegistersEarly
  <2>4. d \in receiving => Got(d) + 1 = Wait(feed, produced) /\ \A k \in 1..Queued(d) : BatchAt(d, k)
    BY <2>1 DEF Awaiting
  <2>5. CASE Alone(d)
    <3>1. Seen(d)' = Seen(d) /\ Queued(d)' = Queued(d) /\ chan'[d] = chan[d] /\ d \in receiving
          /\ Got(d)' = Got(d)
      BY <2>5, LeftAsItWas
    <3>2. \A k \in 1..(Queued(d)') : BatchAt(d, k)'
      BY <2>2, <2>4, <3>1 DEF BatchAt
    <3> QED
      BY <2>2, <2>4, <3>1, <3>2
  <2>6. CASE Receives(d)
    <3>1. /\ d \in receiving /\ Queued(d)' = Queued(d) - 1 /\ Queued(d) > 0
          /\ Seen(d)' = Seen(d) + 1 /\ \A j \in 1..(Queued(d) - 1) : chan'[d][j] = chan[d][j + 1]
      BY <1>s, <2>6, ReceivedNext
    <3>2. Got(d)' = Got(d)
      BY <1>0, <3>1 DEF Got
    <3>3. ASSUME NEW k \in 1..(Queued(d)') PROVE BatchAt(d, k)'
      <4>1. k + 1 \in 1..Queued(d) /\ k \in 1..(Queued(d) - 1)
        BY <1>0, <3>1, <3>3
      <4>2. BatchAt(d, k + 1) /\ chan'[d][k] = chan[d][k + 1]
        BY <2>4, <3>1, <4>1
      <4> QED
        BY <1>0, <2>2, <3>1, <4>1, <4>2 DEF BatchAt
    <3> QED
      BY <2>2, <2>4, <3>1, <3>2, <3>3
  <2> QED
    BY <2>3, <2>5, <2>6, ConsumerSees
<1> QED
  BY <1>1, <1>2

(* A consumer that is not given up has everything that was sent.              *)
LEMMA NextCovered ==
    ASSUME BroadcastInv, [BroadcastNext]_broadcastVars PROVE Covered'
<1> USE DEF BroadcastInv
<1> SUFFICES ASSUME driver' # "new", NEW d \in receiving' \ (sending' \cup stalled'),
                    d \in slots' \/ (d \in Sinks /\ d \notin abandoned')
             PROVE  Complete(d)'
  BY DEF Covered
<1>s. d \in Consumers
  BY NextSetT DEF SetT
<1>0. Seen(d) \in Nat /\ Queued(d) \in Nat /\ produced \in Nat /\ Got(d) = Seen(d) + Queued(d)
  BY <1>s, Counts DEF Got
\* What was complete stays so, when nothing was fetched.
<1>1. ASSUME Alone(d), produced' = produced, (feed' = "failed") <=> (feed = "failed"), Complete(d)
      PROVE  Complete(d)'
  <2>1. Queued(d)' = Queued(d) /\ Got(d)' = Got(d)
    BY <1>1, LeftAsItWas
  <2> QED
    BY <1>1, <2>1 DEF Complete
<1>2. ASSUME d \in receiving, driver # "new", d \notin sending \cup stalled,
             d \in slots \/ (d \in Sinks /\ d \notin abandoned)
      PROVE  Complete(d)
  BY <1>2 DEF Covered
<1>3. ASSUME NEW c \in Consumers, Register(c) PROVE Complete(d)'
  <2>1. driver = "new"
    BY <1>3, RegistersEarly
  <2>2. UNCHANGED <<chan, received, produced, feed>> /\ feed = "open" /\ produced = 0
        /\ chan[d] = <<>> /\ received[d] = <<>>
    BY <1>s, <1>3, <2>1 DEF Register, Registering
  <2>3. Seen(d)' = 0 /\ Queued(d)' = 0
    BY <2>2 DEF Seen, Queued
  <2> QED
    BY <2>2, <2>3 DEF Complete, Got
<1>4. ASSUME NEW c \in Consumers, SendOk(c) PROVE Complete(d)'
  <2>1. UNCHANGED <<receiving, slots, abandoned, stalled, driver, feed, produced>>
        /\ sending' = sending \ {c}
    BY <1>4 DEF SendOk
  <2>2. driver = "send"
    BY <1>4, SentNext
  <2>3. CASE c = d
    <3>1. /\ Queued(d)' = Queued(d) + 1 /\ Seen(d)' = Seen(d) /\ feed \in {"open", "failed"}
          /\ feed = "failed" => Got(d) = produced
          /\ feed = "open" => Got(d) + 1 = produced
      BY <1>4, <2>3, SentNext
    <3>2. Got(d)' = Got(d) + 1 /\ Queued(d)' > 0
      BY <1>0, <3>1 DEF Got
    <3> QED
      BY <2>1, <3>1, <3>2 DEF Complete
  <2>4. CASE c # d
    <3>1. Complete(d)
      BY <1>2, <2>1, <2>2, <2>4
    <3>2. Alone(d)
      BY <1>4, <1>s, <2>4 DEF SendOk, Alone, BroadcastTypeOK
    <3> QED
      BY <1>1, <2>1, <3>1, <3>2
  <2> QED
    BY <2>3, <2>4
<1>5. ASSUME NEW c \in Consumers, SendClosed(c) \/ SendStalled(c) PROVE Complete(d)'
  <2>1. /\ UNCHANGED <<receiving, slots, abandoned, driver, feed, produced, chan, received>>
        /\ sending' = sending \ {c} /\ stalled \subseteq stalled' /\ (c \notin receiving \/ c \in stalled')
    BY <1>5 DEF SendClosed, SendStalled
  <2>2. Complete(d)
    BY <1>2, <2>1
  <2> QED
    BY <1>1, <2>1, <2>2 DEF Alone
<1>6. ASSUME NEW how \in {"batch", "error"}, Fetch(how) PROVE Complete(d)'
  <2>1. driver = "next" /\ sending' = slots /\ UNCHANGED <<slots, receiving, abandoned>>
    BY <1>6 DEF Fetch
  <2>2. d \in slots
    BY <2>1 DEF StillRegistered
  <2> QED
    BY <2>1, <2>2
<1>7. CASE SourceEnds
  <2>1. /\ driver = "next" /\ slots' = {} /\ UNCHANGED <<receiving, abandoned, produced, chan, received>>
        /\ feed' = IF feed = "open" THEN "ended" ELSE feed
    BY <1>7 DEF SourceEnds, Finish
  <2>2. sending = {} /\ stalled = {}
    BY <2>1, IdleSets
  <2>3. Complete(d)
    BY <1>2, <2>1, <2>2
  <2> QED
    BY <1>1, <2>1, <2>3 DEF Alone
<1>8. CASE CheckStopped
  <2>1. /\ driver = "top" /\ slots' \subseteq slots
        /\ UNCHANGED <<receiving, abandoned, sending, stalled, feed, produced, chan, received>>
    BY <1>8 DEF CheckStopped, Finish
  <2>2. Complete(d)
    BY <1>2, <2>1
  <2> QED
    BY <1>1, <2>1, <2>2 DEF Alone
<1>9. CASE SendsJoined
  <2>1. /\ driver = "send" /\ sending = {} /\ slots' = slots \ (closed \cup stalled)
        /\ abandoned' = abandoned \cup stalled
        /\ UNCHANGED <<receiving, feed, produced, chan, received>>
    BY <1>9 DEF SendsJoined, Failed, Abandoned
  <2>2. Complete(d)
    BY <1>2, <2>1
  <2> QED
    BY <1>1, <2>1, <2>2 DEF Alone
<1>10. ASSUME NEW c \in Consumers, Takes(c) \/ Leaves(c) PROVE Complete(d)'
  <2>1. UNCHANGED <<driver, slots, sending, stalled, abandoned, feed, produced>> /\ receiving' \subseteq receiving
    BY <1>10 DEF Takes, Leaves, Left, sideVars
  <2>2. Complete(d)
    BY <1>2, <2>1
  <2>3. CASE Alone(d)
    BY <1>1, <2>1, <2>2, <2>3
  <2>4. CASE Receives(d)
    <3>1. /\ d \in receiving /\ Queued(d)' = Queued(d) - 1 /\ Queued(d) > 0 /\ Seen(d)' = Seen(d) + 1
          /\ chan[d][1] # SourceError
      BY <1>s, <2>4, ReceivedNext
    <3>2. Got(d)' = Got(d)
      BY <1>0, <3>1 DEF Got
    <3>3. 1 \in 1..Queued(d)
      BY <1>0, <3>1
    <3>4. Seen(d) + 1 <= produced
      BY <3>1, <3>3 DEF InOrder, BatchAt
    <3>5. feed = "failed" => Queued(d) > 1
      BY <1>0, <2>2, <3>4 DEF Complete
    <3> QED
      BY <1>0, <2>1, <2>2, <3>1, <3>2, <3>5 DEF Complete
  <2>5. d \in receiving /\ d \in receiving'
    BY <2>1
  <2>6. ~ Register(d) /\ ~ SendOk(d)
    <3>1. d \notin sending
      BY <2>1
    <3> QED
      BY <2>5, <3>1 DEF Register, SendOk
  <2> QED
    BY <2>3, <2>4, <2>6, ConsumerSees
<1>11. ASSUME NEW c \in Sinks, CountCompleted(c) PROVE Complete(d)'
  <2>1. /\ slots' \subseteq slots
        /\ UNCHANGED <<driver, receiving, abandoned, sending, stalled, feed, produced, chan, received>>
    BY <1>11 DEF CountCompleted
  <2>2. Complete(d)
    BY <1>2, <2>1
  <2> QED
    BY <1>1, <2>1, <2>2 DEF Alone
<1>12. CASE JoinWriters \/ RequestShutdown \/ UNCHANGED broadcastVars
  <2>1. UNCHANGED <<driver, slots, receiving, abandoned, sending, stalled, feed, produced, chan, received>>
    BY <1>12 DEF JoinWriters, RequestShutdown, broadcastVars, driverVars
  <2>2. Complete(d)
    BY <1>2, <2>1
  <2> QED
    BY <1>1, <2>1, <2>2 DEF Alone
<1> QED
  BY <1>3, <1>4, <1>5, <1>6, <1>7, <1>8, <1>9, <1>10, <1>11, <1>12, ConsumerSteps

-----------------------------------------------------------------------------
(* The theorems.                                                              *)

(* The numbers from 1 on, one more.                                           *)
LEMMA UpToGrows ==
    ASSUME NEW s \in Seq(Item), s = [i \in 1..Len(s) |-> i], Len(s) + 1 \in Item
    PROVE  Append(s, Len(s) + 1) = [i \in 1..Len(Append(s, Len(s) + 1)) |-> i]
<1> DEFINE t == Append(s, Len(s) + 1)
<1>1. /\ Len(s) \in Nat /\ Len(t) = Len(s) + 1 /\ t[Len(s) + 1] = Len(s) + 1
      /\ \A k \in 1..Len(s) : t[k] = s[k]
  BY ChannelSeqs
<1>2. t = [i \in 1..Len(t) |-> t[i]]
  <2>1. t \in Seq(Item)
    OBVIOUS
  <2> HIDE DEF t
  <2> QED
    BY <2>1
<1> HIDE DEF t
<1>3. \A k \in 1..Len(t) : t[k] = k
  <2>1. \A k \in 1..Len(t) : k \in 1..Len(s) \/ k = Len(s) + 1
    BY <1>1
  <2>2. \A k \in 1..Len(s) : s[k] = k
    OBVIOUS
  <2> QED
    BY <1>1, <2>1, <2>2
<1>4. t = [i \in 1..Len(t) |-> i]
  BY <1>2, <1>3, Zenon
<1> QED
  BY <1>4 DEF t

(* What a consumer has received changes when it receives.                     *)
LEMMA ReceivedSteps ==
    ASSUME BroadcastTypeOK, [BroadcastNext]_broadcastVars, NEW d \in Consumers
    PROVE  received'[d] = received[d] \/ Receives(d)
<1>1. received' = received \/ \E c \in Consumers : Takes(c)
  BY ConsumerSteps
  DEF Register, SendOk, SendClosed, SendStalled, CheckStopped, SendsJoined, SourceEnds, Fetch,
      Leaves, CountCompleted, JoinWriters, RequestShutdown, broadcastVars
<1>2. ASSUME NEW c \in Consumers, Takes(c) PROVE received'[d] = received[d] \/ Receives(d)
  BY <1>2 DEF Takes, Receives, BroadcastTypeOK
<1> QED
  BY <1>1, <1>2

(* A write ends well when its stream does, and it was not given up.           *)
LEMMA OkSteps ==
    ASSUME BroadcastTypeOK, [BroadcastNext]_broadcastVars, NEW d \in Sinks, ended'[d] = "ok"
    PROVE  \/ ended[d] = "ok"
           \/ /\ d \in receiving /\ driver # "new" /\ chan[d] = <<>> /\ d \notin slots \cup held
              /\ d \notin abandoned /\ UNCHANGED <<feed, produced, received>>
<1>1. ended' = ended \/ \E c \in Consumers : Takes(c) \/ Leaves(c)
  BY ConsumerSteps
  DEF Register, SendOk, SendClosed, SendStalled, CheckStopped, SendsJoined, SourceEnds, Fetch,
      CountCompleted, JoinWriters, RequestShutdown, broadcastVars, sinkVars
<1>2. ASSUME NEW c \in Consumers, Takes(c), ended[d] # "ok" PROVE FALSE
  BY <1>2, BroadcastNums DEF Takes, Left, BroadcastTypeOK
<1>3. ASSUME NEW c \in Consumers, Leaves(c), ended[d] # "ok"
      PROVE  /\ d \in receiving /\ driver # "new" /\ chan[d] = <<>> /\ d \notin slots \cup held
             /\ d \notin abandoned /\ UNCHANGED <<feed, produced, received>>
  <2>1. c = d /\ c # Output
    BY <1>3, BroadcastNums DEF Leaves, Left, BroadcastTypeOK
  <2> QED
    BY <1>3, <2>1 DEF Leaves, HasSender, sideVars
<1> QED
  BY <1>1, <1>2, <1>3

(* No consumer has a gap, ...                                                 *)
LEMMA NextNoGap ==
    ASSUME BroadcastInv, [BroadcastNext]_broadcastVars PROVE NoGap'
<1> USE DEF BroadcastInv
<1>1. ASSUME NEW d \in Consumers PROVE received'[d] = [i \in 1..Len(received'[d]) |-> i]
  <2>0. received[d] = [i \in 1..Len(received[d]) |-> i]
    BY DEF NoGap
  <2>1. CASE received'[d] = received[d]
    BY <2>0, <2>1
  <2>2. CASE Receives(d)
    <3>1. /\ d \in receiving /\ chan[d][1] # SourceError /\ Queued(d) > 0
          /\ received'[d] = Append(received[d], chan[d][1])
      BY <2>2, ReceivedNext
    <3>2. 1 \in 1..Queued(d) /\ Seen(d) \in Nat /\ produced \in Nat
      BY <3>1, Counts
    <3>3. chan[d][1] = Seen(d) + 1 /\ Seen(d) + 1 <= produced
      BY <3>1, <3>2 DEF InOrder, BatchAt
    <3>4. Seen(d) + 1 \in Item
      BY <3>2, <3>3, BroadcastNums DEF BroadcastTypeOK
    <3>5. received[d] \in Seq(Item)
      BY DEF BroadcastTypeOK
    <3> QED
      BY <2>0, <3>1, <3>3, <3>4, <3>5, UpToGrows DEF Seen
  <2> QED
    BY <2>1, <2>2, ReceivedSteps
<1>2. ASSUME NEW d \in Sinks, ended'[d] = "ok" PROVE feed' = "ended" /\ Len(received'[d]) = produced'
  <2>1. CASE ended[d] = "ok"
    <3>1. feed = "ended" /\ Len(received[d]) = produced
      BY <2>1 DEF NoGap
    <3>2. d \notin receiving
      BY <2>1, NoneReceives
    <3>3. received'[d] = received[d]
      BY <3>2, BroadcastNums, ReceivedSteps DEF Receives
    <3> QED
      BY <3>1, <3>3, FeedSteps
  <2>2. CASE /\ d \in receiving /\ driver # "new" /\ chan[d] = <<>> /\ d \notin slots \cup held
             /\ d \notin abandoned /\ UNCHANGED <<feed, produced, received>>
    <3>1. d \notin sending \cup stalled
      BY <2>2 DEF BroadcastTypeOK
    <3>2. Complete(d) /\ Queued(d) = 0 /\ Seen(d) \in Nat
      BY <2>2, <3>1, BroadcastNums, Counts DEF Covered, Queued
    <3>3. feed # "failed" /\ Seen(d) = produced
      BY <3>2 DEF Complete, Got
    <3>4. driver = "done"
      BY <2>2 DEF StillRegistered, BroadcastTypeOK
    <3>5. ended[d] = "no"
      BY <2>2, BroadcastNums DEF Registering, Alive
    <3>6. feed = "ended"
      BY <3>3, <3>4, <3>5 DEF Driving, BroadcastTypeOK
    <3> QED
      BY <2>2, <3>3, <3>6 DEF Seen
  <2> QED
    BY <1>2, <2>1, <2>2, OkSteps
<1> QED
  BY <1>1, <1>2 DEF NoGap

(* How the plan ends.                                                         *)
LEMMA PlanSteps ==
    ASSUME BroadcastTypeOK, [BroadcastNext]_broadcastVars
    PROVE  /\ abandoned \subseteq abandoned'
           /\ \/ plan' = plan \/ JoinWriters \/ plan' = "joining"
              \/ /\ plan' = "err" /\ UNCHANGED <<abandoned, feed>>
                 /\ \/ Output \in abandoned
                    \/ Output \in receiving /\ chan[Output] # <<>> /\ Head(chan[Output]) = SourceError
<1>1. abandoned \subseteq abandoned'
  BY ConsumerSteps
  DEF Register, SendOk, SendClosed, SendStalled, CheckStopped, SendsJoined, SourceEnds, Finish,
      Fetch, Takes, Leaves, CountCompleted, JoinWriters, RequestShutdown, broadcastVars,
      driverVars, sideVars, Abandoned
<1>2. plan' = plan \/ JoinWriters \/ \E c \in Consumers : Takes(c) \/ Leaves(c)
  BY ConsumerSteps
  DEF Register, SendOk, SendClosed, SendStalled, CheckStopped, SendsJoined, SourceEnds, Fetch,
      CountCompleted, RequestShutdown, broadcastVars
<1>3. ASSUME NEW c \in Consumers, Takes(c), plan' # plan
      PROVE  /\ plan' = "err" /\ UNCHANGED <<abandoned, feed>>
             /\ Output \in receiving /\ chan[Output] # <<>> /\ Head(chan[Output]) = SourceError
  BY <1>3 DEF Takes, Left, sideVars
<1>4. ASSUME NEW c \in Consumers, Leaves(c), plan' # plan
      PROVE  plan' = "joining" \/ (plan' = "err" /\ UNCHANGED <<abandoned, feed>> /\ Output \in abandoned)
  BY <1>4 DEF Leaves, Left, sideVars
<1> QED
  BY <1>1, <1>2, <1>3, <1>4

(* ... and the plan answers for its writers.                                  *)
LEMMA NextPlanJoins ==
    ASSUME BroadcastInv, [BroadcastNext]_broadcastVars PROVE PlanJoinsWriters'
<1> USE DEF BroadcastInv
<1>1. abandoned \subseteq abandoned' /\ (feed = "failed" => feed' = "failed")
  BY PlanSteps, FeedSteps
<1>2. \A c \in Sinks : ended[c] # "no" => ended'[c] = ended[c]
  BY EndedStays
<1>3. CASE plan' = plan
  BY <1>1, <1>2, <1>3 DEF PlanJoinsWriters
<1>4. CASE plan' = "joining"
  BY <1>4 DEF PlanJoinsWriters
<1>5. CASE JoinWriters
  <2>1. /\ plan' = IF \E c \in Sinks : ended[c] = "err" THEN "err" ELSE "ok"
        /\ \A c \in Sinks : ended[c] # "no" /\ ended' = ended
    BY <1>5 DEF JoinWriters, Joined, sinkVars
  <2>2. \A c \in Sinks : ended[c] \in {"no", "ok", "err"}
    BY DEF BroadcastTypeOK
  <2> QED
    BY <2>1, <2>2 DEF PlanJoinsWriters
<1>6. CASE plan' = "err" /\ UNCHANGED <<abandoned, feed>> /\ Output \in abandoned
  BY <1>6 DEF PlanJoinsWriters
<1>7. CASE /\ plan' = "err" /\ UNCHANGED <<abandoned, feed>>
           /\ Output \in receiving /\ chan[Output] # <<>> /\ Head(chan[Output]) = SourceError
  <2>1. chan[Output] \in Seq(Item)
    BY BroadcastNums DEF BroadcastTypeOK
  <2>2. 1 \in 1..Queued(Output) /\ chan[Output][1] = SourceError
    BY <1>7, <2>1 DEF Queued
  <2>3. BatchAt(Output, 1) \/ feed = "failed"
    BY <1>7, <2>2 DEF InOrder
  <2>4. ~ BatchAt(Output, 1)
    BY <2>2, BroadcastNums DEF BatchAt, BroadcastTypeOK
  <2> QED
    BY <1>7, <2>3, <2>4 DEF PlanJoinsWriters
<1> QED
  BY <1>3, <1>4, <1>5, <1>6, <1>7, PlanSteps

(* The invariant of the broadcast holds in every run.                         *)
LEMMA BroadcastInvariant == BroadcastSpec => []BroadcastInv
<1>1. BroadcastInit => BroadcastInv
  <2> SUFFICES ASSUME BroadcastInit PROVE BroadcastInv
    OBVIOUS
  <2>1. /\ driver = "new" /\ feed = "open" /\ produced = 0 /\ slots = {} /\ held = {} /\ sending = {}
        /\ closed = {} /\ stalled = {} /\ receiving = {} /\ abandoned = {} /\ counted = {}
        /\ chan = [c \in Consumers |-> <<>>] /\ received = [c \in Consumers |-> <<>>]
        /\ ended = [c \in Sinks |-> "no"] /\ plan = "running"
    BY DEF BroadcastInit
  <2>2. stopped = FALSE /\ shutdown = FALSE /\ stuck \subseteq MayStick
    BY DEF BroadcastInit
  <2>3. SetT /\ StatusT /\ FlagT
    BY <2>1, <2>2 DEF SetT, StatusT, FlagT
  <2>4. ChannelT
    BY <2>1, BroadcastNums DEF ChannelT
  <2>5. Registering
    BY <2>1, <2>2 DEF Registering, Alive, Consumers
  <2>6. Driving
    BY <2>1, <2>2 DEF Driving
  <2>7. StillRegistered /\ InOrder /\ Covered /\ Awaiting
    BY <2>1 DEF StillRegistered, InOrder, Covered, Awaiting
  <2>8. NoGap
    <3>1. \A c \in Consumers : received[c] = <<>> /\ Len(received[c]) = 0
      BY <2>1
    <3>2. [i \in 1..0 |-> i] = <<>>
      OBVIOUS
    <3> QED
      BY <2>1, <3>1, <3>2 DEF NoGap
  <2>9. PlanJoinsWriters
    BY <2>1 DEF PlanJoinsWriters
  <2> QED
    BY <2>3, <2>4, <2>5, <2>6, <2>7, <2>8, <2>9, BroadcastTypeParts DEF BroadcastInv
<1>2. BroadcastInv /\ [BroadcastNext]_broadcastVars => BroadcastInv'
  <2> SUFFICES ASSUME BroadcastInv, [BroadcastNext]_broadcastVars PROVE BroadcastInv'
    OBVIOUS
  <2>1. BroadcastTypeOK /\ Driving /\ Registering /\ StillRegistered
    BY DEF BroadcastInv
  <2>2. (SetT /\ ChannelT /\ StatusT /\ FlagT)'
    BY <2>1, NextSetT, NextChannelT, NextStatusT
  <2>3. BroadcastTypeOK'
    BY <2>2 DEF BroadcastTypeOK, SetT, ChannelT, StatusT, FlagT
  <2>4. Registering' /\ Driving' /\ StillRegistered'
    BY <2>1, NextRegistering, NextDriving, NextStillRegistered
  <2> QED
    BY <2>3, <2>4, NextInOrder, NextCovered, NextAwaiting, NextNoGap, NextPlanJoins DEF BroadcastInv
<1> QED
  BY <1>1, <1>2, PTL DEF BroadcastSpec

(***************************************************************************)
(* For any number of sinks, batches and channel sizes, and whichever sinks *)
(* hang, fail or are given up under a shutdown: a consumer receives a      *)
(* prefix of the source's batches, and a write that ends cleanly, after    *)
(* which its sink owes no ack, has received all of them and no error       *)
(* (run_broadcast sets the abandoned flag before it drops the sender of a  *)
(* consumer that stayed full).                                             *)
(***************************************************************************)
THEOREM BroadcastHasNoGap == BroadcastSpec => []NoGap
<1>1. BroadcastInv => NoGap
  BY DEF BroadcastInv
<1> QED
  BY <1>1, BroadcastInvariant, PTL

(***************************************************************************)
(* MultiSinkExec succeeds only if every writer did, and it reports a       *)
(* writer's failure when no writer is still flushing, unless its own       *)
(* stream ended in the source's error or was given up.                     *)
(***************************************************************************)
THEOREM PlanAnswersForWriters == BroadcastSpec => []PlanJoinsWriters
<1>1. BroadcastInv => PlanJoinsWriters
  BY DEF BroadcastInv
<1> QED
  BY <1>1, BroadcastInvariant, PTL
=============================================================================
