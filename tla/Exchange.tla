------------------------------ MODULE Exchange ------------------------------
(***************************************************************************)
(* A repartition exchange under a parallel sink                            *)
(* (streamling-core/src/operators/repartition.rs): one router task per     *)
(* input partition reads its stream and sends each batch to the outputs,   *)
(* in order, through one bounded FIFO channel per (input, output).  Rows   *)
(* go to the outputs their keys hash to, or to one of them in turn;        *)
(* Markers are copied to all.  Each output merges its channels behind a    *)
(* MarkerAligner and feeds one stream of the sink, and the sink's gate     *)
(* acks an epoch when every stream has flushed it.  The merge and the gate *)
(* are represented by what MergePoint and ParallelSink are shown to        *)
(* implement: a Marker passes when every input has delivered it or ended.  *)
(*                                                                         *)
(* The hard part is a sink stream that fails: a router that sends to it    *)
(* returns and drops ALL its senders, with a batch half sent, and to the   *)
(* other outputs that looks like a clean end of the input.                 *)
(*                                                                         *)
(* The batches of an input are kept in the order read; sent and taken say  *)
(* how many of them the router has offered to an output and how many the   *)
(* output has taken, so a channel holds those in between.                  *)
(***************************************************************************)
EXTENDS Naturals, Sequences, FiniteSets

CONSTANTS Partitions,    \* the input partitions
          Outputs,       \* the output partitions, numbered: 1..n
          ChannelSize,   \* channel_buffer_size
          BatchKinds,    \* bound: the batches the inputs are made of
          MaxEpochs,     \* bound: epochs
          MaxReads       \* bound: batches of an input

MarkEpochs == 1..MaxEpochs
NoMark == 0

\* A batch: the outputs its rows go to and its Marker, or the error that
\* broadcast_error sends in the place of one.  A batch without rows and Markers
\* is sent to all outputs, like rows for all of them.
Batches == {b \in [to : SUBSET Outputs, mark : MarkEpochs \cup {NoMark}, error : {FALSE}] :
                b.to # {} \/ b.mark # NoMark}
ErrorBatch == [to |-> Outputs, mark |-> NoMark, error |-> TRUE]

ASSUME ExchangeAssumption ==
    /\ Outputs \subseteq Nat /\ Outputs # {}
    /\ ChannelSize \in Nat \ {0} /\ MaxEpochs \in Nat
    /\ BatchKinds \subseteq Batches

VARIABLES
    input,     \* [input -> its stream: "open", "ended" or "failed"]
    router,    \* [input -> its router: "run" or "gone", with all senders dropped]
    read,      \* [input -> the batches the router has read]
    sent,      \* [input -> [output -> how many of them it has offered]]
    taken,     \* [input -> [output -> how many of those the output has taken]]
    stream,    \* [output -> its write task: "run", "ok" or "failed"]
    flushed,   \* [output -> the epochs its write task has flushed]
    acked      \* the epochs the gate has acked

exchangeVars == <<input, router, read, sent, taken, stream, flushed, acked>>

Marks(i) == {read[i][n].mark : n \in 1..Len(read[i])} \ {NoMark}

ExchangeInit ==
    /\ input = [i \in Partitions |-> "open"]
    /\ router = [i \in Partitions |-> "run"]
    /\ read = [i \in Partitions |-> <<>>]
    /\ sent = [i \in Partitions |-> [j \in Outputs |-> 0]]
    /\ taken = [i \in Partitions |-> [j \in Outputs |-> 0]]
    /\ stream = [j \in Outputs |-> "run"]
    /\ flushed = [j \in Outputs |-> {}]
    /\ acked = {}

-----------------------------------------------------------------------------
(* The routers.                                                            *)

\* The router has offered all it has read to every output.
AllSent(i) == \A j \in Outputs : sent[i][j] = Len(read[i])

\* stream.next() yields a batch.  Markers come in the order of their epochs.
ReadBatch(i, b) ==
    /\ router[i] = "run" /\ input[i] = "open" /\ AllSent(i)
    /\ Len(read[i]) < MaxReads
    /\ b.mark # NoMark => \A e \in Marks(i) : e < b.mark
    /\ read' = [read EXCEPT ![i] = Append(@, b)]
    /\ UNCHANGED <<input, router, sent, taken, stream, flushed, acked>>

\* stream.next() yields an error: broadcast_error.
InputFails(i) ==
    /\ router[i] = "run" /\ input[i] = "open" /\ AllSent(i)
    /\ input' = [input EXCEPT ![i] = "failed"]
    /\ read' = [read EXCEPT ![i] = Append(@, ErrorBatch)]
    /\ UNCHANGED <<router, sent, taken, stream, flushed, acked>>

\* stream.next() yields None, and the router drops its senders.
InputEnds(i) ==
    /\ router[i] = "run" /\ input[i] = "open" /\ AllSent(i)
    /\ input' = [input EXCEPT ![i] = "ended"]
    /\ router' = [router EXCEPT ![i] = "gone"]
    /\ UNCHANGED <<read, sent, taken, stream, flushed, acked>>

\* A wrong variant: an output without rows of the batch gets no Marker either.
ForRowsOnly(b, j) == j \in b.to

\* The batch has something for the output: rows, or the Markers every output gets.
For(b, j) == j \in b.to \/ b.mark # NoMark

\* The output whose turn it is to be sent the batch read last.
NextOutput(i, j) ==
    /\ router[i] = "run" /\ sent[i][j] < Len(read[i])
    /\ \A k \in Outputs : k < j => sent[i][k] = Len(read[i])

Last(i) == read[i][Len(read[i])]

\* The batches of input i in the channel to output j.
InChannel(i, j) == {n \in (taken[i][j] + 1)..sent[i][j] : For(read[i][n], j)}

ChannelFull(i, j) == Cardinality(InChannel(i, j)) >= ChannelSize

Offered(i, j) == sent' = [sent EXCEPT ![i] = [@ EXCEPT ![j] = Len(read[i])]]

\* A router that has sent the error to the last output returns.
ReturnsAfterError(i, j) ==
    router' = [router EXCEPT ![i] =
                  IF Last(i).error /\ \A k \in Outputs : k <= j THEN "gone" ELSE @]

\* There is nothing for the output, or its channel has room.
SendBatch(i, j) ==
    /\ NextOutput(i, j)
    /\ ~For(Last(i), j) \/ (stream[j] = "run" /\ ~ChannelFull(i, j))
    /\ Offered(i, j)
    /\ ReturnsAfterError(i, j)
    /\ UNCHANGED <<input, read, taken, stream, flushed, acked>>

\* A wrong variant: the router keeps trying.
SendGoneRetried(i, j) ==
    /\ NextOutput(i, j) /\ For(Last(i), j) /\ stream[j] # "run"
    /\ UNCHANGED exchangeVars

\* The receiver is gone: the router returns; only broadcast_error goes on.
SendGone(i, j) ==
    /\ NextOutput(i, j) /\ For(Last(i), j) /\ stream[j] # "run"
    /\ IF Last(i).error
       THEN Offered(i, j) /\ ReturnsAfterError(i, j)
       ELSE router' = [router EXCEPT ![i] = "gone"] /\ UNCHANGED sent
    /\ UNCHANGED <<input, read, taken, stream, flushed, acked>>

-----------------------------------------------------------------------------
(* The outputs.  Rows are written and Markers counted in channel order.    *)

\* A batch that has nothing for the output was never in its channel.
Take(i, j) ==
    /\ stream[j] = "run" /\ taken[i][j] < sent[i][j]
    /\ taken' = [taken EXCEPT ![i][j] = @ + 1]
    /\ stream' = [stream EXCEPT ![j] =
                     IF read[i][taken[i][j] + 1].error THEN "failed" ELSE @]
    /\ UNCHANGED <<input, router, read, sent, flushed, acked>>

Delivered(i, j, e) ==
    \E n \in 1..taken[i][j] : read[i][n].mark = e /\ For(read[i][n], j)

\* The channel is empty and its sender dropped: input_done at the aligner.
Closed(i, j) == router[i] = "gone" /\ taken[i][j] = sent[i][j]

\* The aligner of the output has released the Marker to its write task.
Released(j, e) ==
    /\ \E i \in Partitions : Delivered(i, j, e)
    /\ \A i \in Partitions : Delivered(i, j, e) \/ Closed(i, j)

\* The write task has written what precedes the Marker and reports it.
FlushEpoch(j, e) ==
    /\ stream[j] = "run" /\ e \notin flushed[j] /\ Released(j, e)
    /\ flushed' = [flushed EXCEPT ![j] = @ \cup {e}]
    /\ UNCHANGED <<input, router, read, sent, taken, stream, acked>>

\* Every input is closed and every Marker released was reported.
WriteEnds(j) ==
    /\ stream[j] = "run"
    /\ \A i \in Partitions : Closed(i, j)
    /\ \A e \in MarkEpochs : Released(j, e) => e \in flushed[j]
    /\ stream' = [stream EXCEPT ![j] = "ok"]
    /\ UNCHANGED <<input, router, read, sent, taken, flushed, acked>>

\* The write fails, or is aborted because another one did; the receiver is dropped.
WriteFails(j) ==
    /\ stream[j] = "run"
    /\ stream' = [stream EXCEPT ![j] = "failed"]
    /\ UNCHANGED <<input, router, read, sent, taken, flushed, acked>>

\* A wrong variant: a stream that failed gives up its share of the gate too.
GateOpenAfterFailure(j, e) == e \in flushed[j] \/ stream[j] # "run"

\* A stream's share of the gate: flushed, or ended without an error.
GateOpen(j, e) == e \in flushed[j] \/ stream[j] = "ok"

AckEpoch(e) ==
    /\ e \notin acked
    /\ \E j \in Outputs : e \in flushed[j]
    /\ \A j \in Outputs : GateOpen(j, e)
    /\ acked' = acked \cup {e}
    /\ UNCHANGED <<input, router, read, sent, taken, stream, flushed>>

ExchangeOver ==
    /\ \A i \in Partitions : router[i] = "gone"
    /\ \A j \in Outputs : stream[j] # "run"
    /\ UNCHANGED exchangeVars

-----------------------------------------------------------------------------
RouterStep(i) == \E j \in Outputs : SendBatch(i, j) \/ SendGone(i, j)
OutputStep(j) ==
    (\E i \in Partitions : Take(i, j)) \/ (\E e \in MarkEpochs : FlushEpoch(j, e)) \/ WriteEnds(j)

ExchangeNext ==
    \/ \E i \in Partitions : \/ \E b \in BatchKinds : ReadBatch(i, b)
                             \/ InputFails(i) \/ InputEnds(i) \/ RouterStep(i)
    \/ \E j \in Outputs : OutputStep(j) \/ WriteFails(j)
    \/ \E e \in MarkEpochs : AckEpoch(e)
    \/ ExchangeOver

ExchangeSpec == ExchangeInit /\ [][ExchangeNext]_exchangeVars

\* Routers and write tasks run; inputs yield when they like.
ExchangeFairness ==
    /\ \A i \in Partitions : WF_exchangeVars(RouterStep(i))
    /\ \A j \in Outputs : WF_exchangeVars(OutputStep(j))
    /\ WF_exchangeVars(\E e \in MarkEpochs : AckEpoch(e))

ExchangeFairSpec == ExchangeSpec /\ ExchangeFairness

-----------------------------------------------------------------------------
(* Properties.                                                             *)

\* Type invariant; an output takes only what it was offered.
ExchangeTypeOK ==
    /\ input \in [Partitions -> {"open", "ended", "failed"}]
    /\ router \in [Partitions -> {"run", "gone"}]
    /\ read \in [Partitions -> Seq(BatchKinds \cup {ErrorBatch})]
    /\ sent \in [Partitions -> [Outputs -> Nat]]
    /\ taken \in [Partitions -> [Outputs -> Nat]]
    /\ \A i \in Partitions, j \in Outputs :
          taken[i][j] <= sent[i][j] /\ sent[i][j] <= Len(read[i])
    /\ stream \in [Outputs -> {"run", "ok", "failed"}]
    /\ flushed \in [Outputs -> SUBSET MarkEpochs]
    /\ acked \subseteq MarkEpochs

\* Every row the input delivered before the Marker is written, by whatever output.
WrittenUpTo(i, e) ==
    \E n \in 1..Len(read[i]) :
        read[i][n].mark = e /\ \A j \in Outputs : taken[i][j] >= n

\* The input came to its end by itself, and all its rows are written.
WrittenToEnd(i) ==
    input[i] = "ended" /\ \A j \in Outputs : taken[i][j] = Len(read[i])

\* An acked epoch covers only rows that are written: for every input, all that
\* precedes its Marker, or all of it if it ended without one.  A router that
\* returned because one output failed, and looks like a clean end to the others,
\* never lets an epoch through that its input had not yet delivered.
RoutedIsWritten ==
    \A e \in acked : \A i \in Partitions : WrittenUpTo(i, e) \/ WrittenToEnd(i)

\* An epoch that every input has delivered is acked unless a write fails, even
\* if some outputs have no row of the batches it rides on.
EveryOutputFlushes ==
    \A e \in MarkEpochs :
        (\A i \in Partitions : e \in Marks(i)) ~>
            (e \in acked \/ \E j \in Outputs : stream[j] = "failed")

\* When the inputs are over, so is the exchange: neither a full channel nor a
\* receiver that went away holds a router for ever.
RoutersEnd ==
    (\A i \in Partitions : input[i] # "open") ~>
        (\A i \in Partitions : router[i] = "gone") /\ (\A j \in Outputs : stream[j] # "run")

\* The exchange makes progress: every epoch its inputs delivered is flushed by
\* every output and acked, and its routers and outputs come to their end.
ExchangeDrains == EveryOutputFlushes /\ RoutersEnd
=============================================================================
