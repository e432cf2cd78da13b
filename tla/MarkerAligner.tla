---------------------------- MODULE MarkerAligner ----------------------------
(***************************************************************************)
(* MarkerAligner of checkpoints/checkpoint_management.rs: the counter that *)
(* collapses the copies of a checkpoint Marker on several streams to one.  *)
(* Its calls run under one lock; the tasks that make them, and what they   *)
(* do between two calls, are in MergePoint and ParallelSink.               *)
(*                                                                         *)
(* An entry of the epochs map exists as soon as one copy was counted, so   *)
(* copies[e] = 0 is an entry that is not there.  The watermark an input    *)
(* leaves in `finished' is the largest epoch it delivered.  SourceComplete *)
(* and Ack messages pass through without touching any of this.             *)
(***************************************************************************)
EXTENDS Integers, FiniteSets

CONSTANTS
    Inputs,     \* the streams that merge
    MaxEpoch    \* bound: the largest epoch number

ASSUME InputsAssumption == IsFiniteSet(Inputs) /\ Inputs # {}
ASSUME MaxEpochAssumption == MaxEpoch \in Nat \ {0}

Epochs == 1 .. MaxEpoch

VARIABLES
    copies,         \* MarkerState.copies
    released,       \* MarkerState.released
    finished,       \* the inputs input_done was called for
    seenFinalizers, \* seen_finalizers
    delivered       \* the epochs whose Marker an input has delivered

alignerVars == <<copies, released, finished, seenFinalizers>>

AlignerTypeOK ==
    /\ copies \in [Epochs -> Nat]
    /\ released \in [Epochs -> BOOLEAN]
    /\ finished \in SUBSET Inputs
    /\ seenFinalizers \in SUBSET Epochs
    /\ delivered \in [Inputs -> SUBSET Epochs]

AlignerInit ==
    /\ copies = [e \in Epochs |-> 0]
    /\ released = [e \in Epochs |-> FALSE]
    /\ finished = {}
    /\ seenFinalizers = {}
    /\ delivered = [i \in Inputs |-> {}]

\* A wrong variant: an input that ended with epoch e itself counts as well.
FinishedUpTo(done, e) == {i \in done : \A d \in delivered[i] : d <= e}

\* The inputs of done whose watermark is None or lies before e.
FinishedBefore(done, e) == {i \in done : \A d \in delivered[i] : d < e}

\* required_copies: one per input that has not finished before e, at least one.
Required(done, e) ==
    LET rest == Cardinality(Inputs) - Cardinality(FinishedBefore(done, e))
    IN  IF rest > 1 THEN rest ELSE 1

\* A wrong variant: one copy more than required is waited for.
CompletedLate(ms) == {e \in ms : ~ released[e] /\ copies[e] + 1 > Required(finished, e)}

\* The Markers among ms that this copy completes.
Completed(ms) == {e \in ms : ~ released[e] /\ copies[e] + 1 >= Required(finished, e)}

\* observe() of a batch that carries the Markers ms.
ObserveMarkers(ms) ==
    /\ copies' = [e \in Epochs |->
                     IF e \in ms /\ ~ released[e] THEN copies[e] + 1 ELSE copies[e]]
    /\ released' = [e \in Epochs |-> released[e] \/ e \in Completed(ms)]
    /\ UNCHANGED <<finished, seenFinalizers>>

\* observe() of Finalizer(f): the entries up to f are pruned.
ObserveFinalizer(f) ==
    /\ copies' = [e \in Epochs |-> IF e > f THEN copies[e] ELSE 0]
    /\ released' = [e \in Epochs |-> e > f /\ released[e]]
    /\ seenFinalizers' = seenFinalizers \cup {f}
    /\ UNCHANGED finished

\* Wrong variants: released entries are released again; nothing is released.
UnblockedAgain(i) ==
    LET done == finished \cup {i}
    IN  {e \in Epochs : copies[e] > 0 /\ (done = Inputs \/ copies[e] >= Required(done, e))}
UnblockedNone(i) == {}

\* The pending Markers that no longer wait once i has ended.
Unblocked(i) ==
    LET done == finished \cup {i}
    IN  {e \in Epochs : /\ copies[e] > 0 /\ ~ released[e]
                        /\ done = Inputs \/ copies[e] >= Required(done, e)}

\* input_done of input i.
InputDone(i) ==
    /\ finished' = finished \cup {i}
    /\ released' = [e \in Epochs |-> released[e] \/ e \in Unblocked(i)]
    /\ UNCHANGED <<copies, seenFinalizers>>
=============================================================================
