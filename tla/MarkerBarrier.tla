---------------------------- MODULE MarkerBarrier ----------------------------
(***************************************************************************)
(* What a place where streams merge promises about checkpoint Markers      *)
(* (the doc comment of MarkerAligner): a Marker goes past it at most once, *)
(* and only when every stream has delivered everything in front of its own *)
(* copy or has come to its end.  MergePoint and ParallelSink implement it. *)
(***************************************************************************)
EXTENDS Integers

CONSTANTS Streams, Epochs

VARIABLES
    arrived,   \* the epochs whose Marker a stream has delivered
    ended,     \* the streams that came to their end without an error
    passed     \* how often the Marker of an epoch went past the barrier

barrierVars == <<arrived, ended, passed>>

BarrierInit ==
    /\ arrived = [i \in Streams |-> {}]
    /\ ended = {}
    /\ passed = [e \in Epochs |-> 0]

Arrive(i) ==
    /\ i \notin ended
    /\ \E ms \in SUBSET Epochs : arrived' = [arrived EXCEPT ![i] = @ \cup ms]
    /\ UNCHANGED <<ended, passed>>

End(i) ==
    /\ ended' = ended \cup {i}
    /\ UNCHANGED <<arrived, passed>>

AllArrived(e) == \A i \in Streams : e \in arrived[i] \/ i \in ended

\* Several Markers may go past together, each of them for the first time.
Pass(ms) ==
    /\ \A e \in ms : passed[e] = 0 /\ AllArrived(e)
    /\ passed' = [e \in Epochs |-> IF e \in ms THEN 1 ELSE passed[e]]
    /\ UNCHANGED <<arrived, ended>>

BarrierNext ==
    \/ \E i \in Streams : Arrive(i) \/ End(i)
    \/ \E ms \in SUBSET Epochs : Pass(ms)

Barrier == BarrierInit /\ [][BarrierNext]_barrierVars
=============================================================================
