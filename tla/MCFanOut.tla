------------------------------ MODULE MCFanOut ------------------------------
(***************************************************************************)
(* Model checking of the two ways a stream fans out: Broadcast (every      *)
(* consumer gets every batch) and Exchange (a batch goes to the outputs    *)
(* its rows belong to).  They share no state, so it is enough that one of  *)
(* them runs while the other has run to its end on an empty input.         *)
(***************************************************************************)
EXTENDS Broadcast, Exchange

fanOutVars == <<broadcastVars, exchangeVars>>

\* Rows for both outputs, and a Marker on a batch with rows for the second only.
Kinds == {[to |-> {1, 2}, mark |-> NoMark, error |-> FALSE],
          [to |-> {2}, mark |-> 1, error |-> FALSE]}

BroadcastEnded ==
    /\ driver = "done" /\ feed = "ended" /\ produced = 0
    /\ slots = {} /\ held = {} /\ sending = {} /\ closed = {} /\ stalled = {}
    /\ chan = [c \in Consumers |-> <<>>] /\ received = chan
    /\ receiving = {} /\ abandoned = {} /\ stopped = TRUE
    /\ ended = [c \in Sinks |-> "ok"] /\ counted = Sinks
    /\ plan = "ok" /\ shutdown = TRUE /\ stuck = {}

ExchangeEnded ==
    /\ input = [i \in Partitions |-> "ended"]
    /\ router = [i \in Partitions |-> "gone"]
    /\ read = [i \in Partitions |-> <<>>]
    /\ sent = [i \in Partitions |-> [j \in Outputs |-> 0]] /\ taken = sent
    /\ stream = [j \in Outputs |-> "ok"]
    /\ flushed = [j \in Outputs |-> {}] /\ acked = {}

Init == (BroadcastInit /\ ExchangeEnded) \/ (BroadcastEnded /\ ExchangeInit)

Next ==
    \/ BroadcastNext /\ UNCHANGED exchangeVars
    \/ ExchangeNext /\ UNCHANGED broadcastVars

FairSpec == Init /\ [][Next]_fanOutVars /\ BroadcastFairness /\ ExchangeFairness
=============================================================================
