------------------------------ MODULE MergePoint -----------------------------
(***************************************************************************)
(* A place where streams merge into one: StreamingCoalesceExec and each    *)
(* output of StreamingRepartitionExec.  One forwarder task per input sends *)
(* the rows of a batch on, asks the shared aligner about the batch's       *)
(* Markers, and sends the ones released on a batch of their own.  The lock *)
(* is held for the aligner call only: between it and the send, any other   *)
(* forwarder may run.                                                      *)
(***************************************************************************)
EXTENDS MarkerAligner

CONSTANT InputOrdered   \* whether every input carries its Markers in epoch order

ASSUME InputOrderedAssumption == InputOrdered \in BOOLEAN

VARIABLES
    pc,       \* a forwarder: "recv", with a batch or released Markers in hand
              \* ("rows", "observe", "send", "sendLast"), or over ("ended" when
              \* its input came to its end, "gone" when it returned before)
    hand,     \* those Markers
    passed,   \* how often a Marker was sent downstream
    dropped   \* the downstream receiver was dropped

mergeVars == <<pc, hand, passed, dropped>>
vars == <<alignerVars, delivered, mergeVars>>

TypeOK ==
    /\ AlignerTypeOK
    /\ pc \in [Inputs -> {"recv", "rows", "observe", "send", "sendLast", "ended", "gone"}]
    /\ hand \in [Inputs -> SUBSET Epochs]
    /\ passed \in [Epochs -> Nat]
    /\ dropped \in BOOLEAN

Init ==
    /\ AlignerInit
    /\ pc = [i \in Inputs |-> "recv"]
    /\ hand = [i \in Inputs |-> {}]
    /\ passed = [e \in Epochs |-> 0]
    /\ dropped = FALSE

-----------------------------------------------------------------------------
\* The input's next batch, with the Markers ms.  A stream carries at most one
\* copy of a Marker; it may miss some.
ReadInput(i, ms) ==
    /\ pc[i] = "recv"
    /\ ms \cap delivered[i] = {}
    /\ InputOrdered => \A e \in ms : \A d \in delivered[i] : d < e
    /\ hand' = [hand EXCEPT ![i] = ms]
    /\ pc' = [pc EXCEPT ![i] = "rows"]
    /\ UNCHANGED <<alignerVars, delivered, passed, dropped>>

\* A wrong variant: the aligner is asked before the rows are sent.
ForwardRowsLate(i) ==
    /\ pc[i] = "rows"
    /\ ~ dropped
    /\ LET completed == Completed(hand[i])
       IN  /\ ObserveMarkers(hand[i])
           /\ passed' = [e \in Epochs |-> passed[e] + IF e \in completed THEN 1 ELSE 0]
    /\ pc' = [pc EXCEPT ![i] = "recv"]
    /\ hand' = [hand EXCEPT ![i] = {}]
    /\ UNCHANGED <<delivered, dropped>>

\* The rows go downstream without the Markers; a batch without any is done.
ForwardRows(i) ==
    /\ pc[i] = "rows"
    /\ ~ dropped
    /\ delivered' = [delivered EXCEPT ![i] = @ \cup hand[i]]
    /\ pc' = [pc EXCEPT ![i] = IF hand[i] = {} THEN "recv" ELSE "observe"]
    /\ UNCHANGED <<alignerVars, hand, passed, dropped>>

\* aligner.lock().observe(messages)
Observe(i) ==
    /\ pc[i] = "observe"
    /\ ObserveMarkers(hand[i])
    /\ hand' = [hand EXCEPT ![i] = Completed(hand[i])]
    /\ pc' = [pc EXCEPT ![i] = IF Completed(hand[i]) = {} THEN "recv" ELSE "send"]
    /\ UNCHANGED <<delivered, passed, dropped>>

\* A batch that carries Finalizer(f), which a source relays once every sink,
\* the one downstream of here included, has acked f.
ReadFinalizer(i, f) ==
    /\ pc[i] = "recv"
    /\ ~ dropped
    /\ passed[f] > 0
    /\ ObserveFinalizer(f)
    /\ UNCHANGED <<delivered, mergeVars>>

\* marker_only_batch with the released Markers.
SendReleased(i) ==
    /\ pc[i] \in {"send", "sendLast"}
    /\ ~ dropped
    /\ passed' = [e \in Epochs |-> passed[e] + IF e \in hand[i] THEN 1 ELSE 0]
    /\ hand' = [hand EXCEPT ![i] = {}]
    /\ pc' = [pc EXCEPT ![i] = IF pc[i] = "send" THEN "recv" ELSE "ended"]
    /\ UNCHANGED <<alignerVars, delivered, dropped>>

\* The input came to its end.
EndInput(i) ==
    /\ pc[i] = "recv"
    /\ InputDone(i)
    /\ hand' = [hand EXCEPT ![i] = Unblocked(i)]
    /\ pc' = [pc EXCEPT ![i] = IF Unblocked(i) = {} THEN "ended" ELSE "sendLast"]
    /\ UNCHANGED <<delivered, passed, dropped>>

\* The input yields an error: it is sent downstream, and the forwarder returns
\* without telling the aligner.
FailInput(i) ==
    /\ pc[i] = "recv"
    /\ pc' = [pc EXCEPT ![i] = "gone"]
    /\ UNCHANGED <<alignerVars, delivered, hand, passed, dropped>>

\* The receiver was dropped: the send fails and the forwarder returns.
Abandon(i) ==
    /\ dropped
    /\ pc[i] \in {"rows", "send", "sendLast"}
    /\ pc' = [pc EXCEPT ![i] = IF pc[i] = "sendLast" THEN "ended" ELSE "gone"]
    /\ hand' = [hand EXCEPT ![i] = {}]
    /\ UNCHANGED <<alignerVars, delivered, passed, dropped>>

DropReceiver ==
    /\ ~ dropped
    /\ dropped' = TRUE
    /\ UNCHANGED <<alignerVars, delivered, pc, hand, passed>>

\* Every forwarder has returned.
Done ==
    /\ \A i \in Inputs : pc[i] \in {"ended", "gone"}
    /\ UNCHANGED vars

Forwarder(i) == ForwardRows(i) \/ Observe(i) \/ SendReleased(i) \/ Abandon(i)

Next ==
    \/ \E i \in Inputs :
          \/ Forwarder(i) \/ EndInput(i) \/ FailInput(i)
          \/ \E ms \in SUBSET Epochs : ReadInput(i, ms)
          \/ \E f \in Epochs : ReadFinalizer(i, f)
    \/ DropReceiver
    \/ Done

Spec == Init /\ [][Next]_vars

\* A forwarder works off what it has in hand; nothing makes an input end, and
\* nothing makes it deliver.
FairSpec == Spec /\ \A i \in Inputs : WF_vars(Forwarder(i))

-----------------------------------------------------------------------------
Ended == {i \in Inputs : pc[i] \in {"sendLast", "ended"}}

\* No Marker goes downstream before the rows that precede it on an input that
\* has not ended, nor twice: the forwarders implement the barrier, and a failed
\* input holds back every epoch it did not deliver.
Barrier == INSTANCE MarkerBarrier
    WITH Streams <- Inputs, arrived <- delivered, ended <- Ended
ImplementsBarrier == Barrier!Barrier

Observed(i) == IF pc[i] = "observe" THEN delivered[i] \ hand[i] ELSE delivered[i]
Aligned(e) == \A i \in Inputs : e \in Observed(i) \/ i \in Ended

Sending(i) == IF pc[i] \in {"send", "sendLast"} THEN hand[i] ELSE {}

\* The counter stands for a set: a Marker is marked released only when every
\* input has delivered it or ended, whatever Finalizers pruned in between.
ReleasedIsAligned ==
    \A e \in Epochs :
        released[e] \/ passed[e] > 0 \/ (\E i \in Inputs : e \in Sending(i)) => Aligned(e)

\* At most one copy per epoch is on its way downstream or there, so a sink
\* never sees the epoch a second time after its entry was pruned.
OneCopy ==
    \A e \in Epochs :
        /\ passed[e] <= 1
        /\ \A i \in Inputs : e \in Sending(i) =>
              passed[e] = 0 /\ \A j \in Inputs : e \in Sending(j) => i = j

(* The rest of the inductive invariant the proofs use.                      *)

\* The aligner knows exactly the inputs that ended, and a batch in hand holds
\* Markers that are new on its input.
FinishedIsEnded == finished = Ended
HandIsNew ==
    \A i \in Inputs : /\ pc[i] = "rows" => hand[i] \cap delivered[i] = {}
                      /\ pc[i] = "observe" => hand[i] \subseteq delivered[i]

\* The counter never exceeds the inputs it stands for (a prune may lower it).
Counted(e) == {i \in Inputs : e \in Observed(i)}
CountIsBounded == \A e \in Epochs : copies[e] <= Cardinality(Counted(e))

\* A Marker that was released has no entry that could release it again.
NotRevived ==
    \A e \in Epochs : passed[e] > 0 \/ (\E i \in Inputs : e \in Sending(i))
                        => released[e] \/ copies[e] = 0

IndInv == /\ TypeOK /\ FinishedIsEnded /\ HandIsNew /\ CountIsBounded
          /\ ReleasedIsAligned /\ OneCopy /\ NotRevived

-----------------------------------------------------------------------------
\* Nothing holds e back: each input has delivered it or ended before it.
Due(e) ==
    /\ \E i \in Inputs : e \in delivered[i]
    /\ \/ Ended = Inputs
       \/ \A i \in Inputs : \/ e \in delivered[i]
                            \/ i \in Ended /\ \A d \in delivered[i] : d < e

\* A Marker that nothing holds back goes downstream, unless a later epoch was
\* finalized meanwhile or the receiver is gone.
DueIsPassed ==
    \A e \in Epochs :
        Due(e) ~> (passed[e] > 0 \/ dropped \/ \E f \in seenFinalizers : f >= e)

\* "Every input delivers markers in epoch order": what the aligner assumes of
\* its inputs, of the stream a merge point is for the next one.
MarkersInOrder ==
    [][\A e, f \in Epochs : passed'[e] > passed[e] /\ passed[f] > 0 => f < e]_vars
=============================================================================
