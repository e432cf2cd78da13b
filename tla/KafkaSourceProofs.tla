-------------------------- MODULE KafkaSourceProofs --------------------------
(***************************************************************************)
(* What the Kafka source promises across crashes, failed commits,          *)
(* rebalances and restarts, for every number of partitions, rows, epochs   *)
(* and failures: the offsets it would resume from leave no row behind but  *)
(* those the start-up wait dropped, with one partition none at all, and a  *)
(* clean stop has saved what was read.                                     *)
(***************************************************************************)
EXTENDS KafkaSource, TLAPS

\* Where a task of this process can be.
Starting == pc \in {"startup", "seek"}
Running == pc \in {"top", "dispatch", "state", "await"}

\* The task's steps: what is empty when, and which epoch is being committed.
Shape ==
    /\ pc \in {"startup", "seek", "top", "dispatch"} => terminal = NoEpoch
    /\ pc = "await" => terminal # NoEpoch
    /\ terminal = NoEpoch => epoch < MaxEpoch
    /\ pc = "top" => batch = EmptyBatch
    /\ Starting => /\ batch = EmptyBatch /\ buffer = {} /\ pipe = <<>> /\ acked = {}
                   /\ snapshots = [e \in Epochs |-> NoPosition] /\ committed = NoPosition
    /\ pc = "state" /\ terminal = NoEpoch => todo # <<>> /\ Head(todo).kind = "Finalizer"
    /\ pc = "state" /\ terminal # NoEpoch => terminal \in acked
    /\ gone => pipe = <<>>

\* The epochs whose Marker was taken off the receiver.
MarkersOf(s) == UNION {s[k].markers : k \in 1 .. Len(s)}
Taken == buffer \cup batch.markers \cup MarkersOf(pipe) \cup acked

\* A Marker is received once, and only a finalized epoch is committed.
FreshIn(s, last, done, taken) ==
    \A k \in 1 .. Len(s) :
        /\ s[k].epoch <= last
        /\ s[k].kind = "Finalizer" => s[k].epoch \in done
        /\ s[k].kind = "Marker" =>
              /\ s[k].epoch \notin taken
              /\ \A j \in 1 .. k - 1 : s[j].kind = "Marker" => s[j].epoch # s[k].epoch
Apart(s, t) ==
    \A k \in 1 .. Len(s), j \in 1 .. Len(t) :
        s[k].kind = "Marker" /\ t[j].kind = "Marker" => s[k].epoch # t[j].epoch
Mail ==
    /\ Taken \subseteq 1 .. epoch
    /\ terminal = NoEpoch =>
          /\ FreshIn(todo, epoch, acked, Taken) /\ FreshIn(inbox, epoch, acked, Taken)
          /\ Apart(todo, inbox)
    /\ ~ gone => \A e \in Epochs \ Taken : snapshots[e] = NoPosition

\* The rows behind a position are all in S.
Behind(pos, S) == \A p \in Partitions : \A r \in 1 .. pos[p] : <<p, r>> \in S

\* The rows that are written, or were dropped by the start-up wait, and those on
\* their way, in the order the sink gets them.
Settled == written \cup probed
RowsUpTo(s, k) == UNION {s[j].rows : j \in 1 .. k}
OnTheWay == RowsUpTo(pipe, Len(pipe)) \cup batch.rows

\* Every row the consumer has passed is settled or on its way, ...
Fetched == ~ gone /\ pc # "down" => Behind(fetch, Settled \cup OnTheWay)

\* ... a position recorded for an epoch is covered by what the sink has written
\* when it acks the epoch's Marker, ...
Recorded ==
    /\ ~ gone => \A e \in buffer \cup batch.markers : Behind(snapshots[e], Settled \cup OnTheWay)
    /\ \A k \in 1 .. Len(pipe) : \A e \in pipe[k].markers :
          Behind(snapshots[e], Settled \cup RowsUpTo(pipe, k))
    /\ \A e \in acked : Behind(snapshots[e], Settled)

\* ... and so are the offsets that were committed.
Resumes == Behind(broker, Settled) /\ Behind(saved, Settled)

\* The consumer's position is where it fetches, once it has delivered a row.
Following ==
    /\ \A p \in Partitions : position[p] \in {NoOffset, fetch[p]}
    /\ pc = "startup" => \A p \in Partitions : fetch[p] = GroupOffset(p) /\ position[p] = NoOffset
    /\ pc = "seek" => \A p \in Partitions :
                         /\ fetch[p] >= GroupOffset(p)
                         /\ position[p] # NoOffset => position[p] > GroupOffset(p)

\* A dropped row that is remembered is not one a seek brings back: it is behind
\* the offset sought, or not yet behind the group's offset either.
Dropped ==
    \A p \in Partitions, r \in Rows : <<p, r>> \in probed =>
        /\ r <= GroupOffset(p) + 1
        /\ p \in Sought => r <= saved[p] \/ r > broker[p]
        /\ Running => /\ p \in Sought => r <= saved[p]
                      /\ r <= fetch[p] + 1
                      /\ position[p] # NoOffset => r <= position[p]
                      /\ \A e \in Epochs : snapshots[e][p] # NoOffset => r <= snapshots[e][p]

SourceInv == TypeOK /\ Shape /\ Mail /\ Fetched /\ Recorded /\ Resumes /\ Following /\ Dropped

\* One partition: every partition is sought, so no dropped row stays dropped.
NoneDropped == AtLeastOnce /\ (Running => probed \subseteq written)

\* The terminal epoch's position is the consumer's, and what was committed last
\* is what is saved.
TailInv ==
    /\ pc = "await" \/ (pc = "state" /\ terminal # NoEpoch) => snapshots[terminal] = position
    /\ \A p \in Partitions : committed[p] # NoOffset => saved[p] = committed[p]
    /\ CleanStopCommitted

-----------------------------------------------------------------------------
(* The sets the state is made of.                                           *)

(* The bounds are numbers, and what stands for nothing is none of them.    *)
LEMMA Nums ==
    /\ MaxRow \in Nat /\ MaxEpoch \in Nat \ {0} /\ Capacity \in Nat \ {0} /\ MaxFaults \in Nat
    /\ NoOffset = -1 /\ NoEpoch = 0
    /\ Rows = 1 .. MaxRow /\ Epochs = 1 .. MaxEpoch /\ Offsets = 0 .. MaxRow
  BY KafkaAssumption DEF NoOffset, NoEpoch, Rows, Epochs, Offsets

(* A message is a Marker or a Finalizer of an epoch.                        *)
LEMMA MessageFacts ==
    /\ \A m \in Messages : m.kind \in {"Marker", "Finalizer"} /\ m.epoch \in Epochs
    /\ \A e \in Epochs : /\ Marker(e) \in Messages /\ Marker(e).kind = "Marker" /\ Marker(e).epoch = e
                         /\ Finalizer(e) \in Messages /\ Finalizer(e).kind = "Finalizer"
                         /\ Finalizer(e).epoch = e
<1>1. ASSUME NEW m \in Messages PROVE m.kind \in {"Marker", "Finalizer"} /\ m.epoch \in Epochs
  <2>1. PICK e \in Epochs : m = Marker(e) \/ m = Finalizer(e)
    BY DEF Messages
  <2> QED
    BY <2>1 DEF Marker, Finalizer
<1>2. ASSUME NEW e \in Epochs
      PROVE  /\ Marker(e) \in Messages /\ Marker(e).kind = "Marker" /\ Marker(e).epoch = e
             /\ Finalizer(e) \in Messages /\ Finalizer(e).kind = "Finalizer"
             /\ Finalizer(e).epoch = e
  <2>1. Marker(e) \in Messages /\ Finalizer(e) \in Messages
    BY DEF Messages
  <2> QED
    BY <2>1 DEF Marker, Finalizer
<1> QED
  BY <1>1, <1>2

(* An empty position, and the offsets a position holds.                    *)
LEMMA PositionFacts ==
    /\ NoPosition \in Position /\ \A p \in Partitions : NoPosition[p] = -1
    /\ \A q \in Position : \A p \in Partitions : q[p] \in -1 .. MaxRow
  BY Nums DEF Position, NoPosition

(* A batch without rows, and one of the rows between two offsets.            *)
LEMMA BatchFacts ==
    /\ EmptyBatch \in Batches /\ EmptyBatch.rows = {} /\ EmptyBatch.markers = {}
    /\ \A b \in Batches : b.rows \in SUBSET (Partitions \X Rows) /\ b.markers \in SUBSET Epochs
    /\ \A rows \in SUBSET (Partitions \X Rows), ms \in SUBSET Epochs :
          [rows |-> rows, markers |-> ms] \in Batches
  BY DEF EmptyBatch, Batches

(* The rows a poll delivers are rows of the topic.                         *)
LEMMA BetweenFacts ==
    ASSUME NEW from \in [Partitions -> Offsets], NEW to \in [Partitions -> Offsets]
    PROVE  UNION {Between(p, from[p], to[p]) : p \in Partitions} \in SUBSET (Partitions \X Rows)
<1>1. \A p \in Partitions : Between(p, from[p], to[p]) \subseteq Partitions \X Rows
  BY Nums DEF Between
<1> QED
  BY <1>1

\* The types, in the parts that steps change together.
StoreT ==
    /\ end \in [Partitions -> Offsets] /\ broker \in Position /\ saved \in Position
    /\ written \in SUBSET (Partitions \X Rows)
ReadT ==
    /\ fetch \in [Partitions -> Offsets] /\ position \in Position
    /\ probed \in SUBSET (Partitions \X Rows)
StreamT == batch \in Batches /\ buffer \in SUBSET Epochs /\ pipe \in Seq(Batches)
CommitT == snapshots \in [Epochs -> Position] /\ committed \in Position
MailT == inbox \in Seq(Messages) /\ todo \in Seq(Messages)
CountT ==
    /\ epoch \in 0 .. MaxEpoch /\ acked \in SUBSET Epochs /\ terminal \in 0 .. MaxEpoch
    /\ faults \in 0 .. MaxFaults
FlagT ==
    /\ pc \in {"down", "startup", "seek", "top", "dispatch", "broker", "state",
               "await", "stopped", "clean"}
    /\ gone \in BOOLEAN /\ open \in BOOLEAN /\ shutdown \in BOOLEAN

(* The type invariant is the conjunction of those parts.                   *)
LEMMA TypeParts ==
    TypeOK <=> StoreT /\ ReadT /\ StreamT /\ CommitT /\ MailT /\ CountT /\ FlagT
  BY DEF TypeOK, StoreT, ReadT, StreamT, CommitT, MailT, CountT, FlagT

(* The first state has the types.                                           *)
LEMMA InitTypes == Init => TypeOK
<1> SUFFICES ASSUME Init PROVE TypeOK
  OBVIOUS
<1>1. StoreT /\ ReadT
  BY Nums, PositionFacts DEF Init, StoreT, ReadT
<1>2. StreamT
  BY BatchFacts DEF Init, StreamT
<1>3. CommitT /\ MailT
  BY PositionFacts DEF Init, CommitT, MailT
<1>4. CountT
  BY Nums DEF Init, CountT
<1>5. FlagT
  BY DEF Init, FlagT
<1> QED
  BY <1>1, <1>2, <1>3, <1>4, <1>5, TypeParts

(* The epoch that is being committed is one.                                *)
LEMMA CommittingIsEpoch ==
    TypeOK /\ Shape /\ (CommitBegins \/ pc = "state") => Committing \in Epochs
<1> SUFFICES ASSUME TypeOK, Shape, CommitBegins \/ pc = "state" PROVE Committing \in Epochs
  OBVIOUS
<1>1. CASE terminal # NoEpoch
  BY <1>1, Nums DEF TypeOK, Committing
<1>2. CASE terminal = NoEpoch
  <2>1. todo # <<>>
    BY <1>2 DEF Shape, CommitBegins
  <2>2. Head(todo) \in Messages
    BY <2>1 DEF TypeOK
  <2> QED
    BY <1>2, <2>2, MessageFacts DEF Committing
<1> QED
  BY <1>1, <1>2

(* Putting a recorded position over another is a position.                  *)
LEMMA OverIsPosition ==
    ASSUME TypeOK, Committing \in Epochs, NEW q \in Position PROVE Over(q) \in Position
  BY DEF TypeOK, Over, ToCommit, Position

(* What a new process finds in memory.                                      *)
LEMMA Forgets ==
    ASSUME Start \/ Crash
    PROVE  /\ batch' = EmptyBatch /\ buffer' = {} /\ pipe' = <<>> /\ acked' = {}
           /\ snapshots' = [e \in Epochs |-> NoPosition] /\ committed' = NoPosition
           /\ inbox' = <<>> /\ todo' = <<>>
           /\ epoch' = 0 /\ terminal' = NoEpoch
  BY Zenon DEF Start, Crash, Forget

(* And the flags it finds there.                                           *)
LEMMA ForgetsFlags ==
    ASSUME Start \/ Crash
    PROVE  /\ gone' = FALSE /\ open' = FALSE /\ shutdown' = FALSE
           /\ pc' \in {"startup", "down"}
  BY Zenon DEF Start, Crash, Forget

(* Which steps change what the process leaves behind, ...                    *)
LEMMA StoreSteps ==
    ASSUME [Next]_vars
    PROVE  /\ end' = end \/ \E p \in Partitions : Produce(p)
           /\ broker' = broker \/ CommitBroker
           /\ saved' = saved \/ CommitState
           /\ written' = written \/ SinkWrite
<1>1. CASE UNCHANGED vars
  BY <1>1 DEF vars, storeVars
<1>2. CASE Start \/ StartUp \/ Loop
  BY <1>2 DEF StartUp, Loop, Start, Assigned, FirstMessage, StartupShutdown, Seek, TakeAny,
              TakeBatch, TakeMarker, Send, SendFails, Terminal, storeVars
<1>3. CASE Commit \/ Rebalance \/ AwaitTimeout
  BY <1>3 DEF Commit, CommitSkip, CommitBroker, BrokerFails, CommitState, StateFails,
              Rebalance, AwaitTimeout, storeVars
<1>4. CASE (\E p \in Partitions : Produce(p)) \/ MintEpoch \/ CloseEpoch \/ SinkWrite
  BY <1>4 DEF Produce, MintEpoch, CloseEpoch, SinkWrite, storeVars
<1>5. CASE SinkFails \/ RequestShutdown \/ Crash
  BY <1>5 DEF SinkFails, RequestShutdown, Crash, storeVars
<1> QED
  BY <1>1, <1>2, <1>3, <1>4, <1>5 DEF Next

(* ... where the consumer is, ...                                            *)
LEMMA ReadSteps ==
    ASSUME [Next]_vars
    PROVE  Start \/ (\E p \in Partitions : FirstMessage(p)) \/ Seek \/ TakeAny \/ Rebalance
           \/ UNCHANGED readVars
<1>1. CASE UNCHANGED vars
  BY <1>1 DEF vars
<1>2. CASE Start \/ StartUp \/ Loop
  BY <1>2 DEF StartUp, Loop, Assigned, StartupShutdown, TakeMarker, Send, SendFails, Terminal
<1>3. CASE Commit \/ Rebalance \/ AwaitTimeout
  BY <1>3 DEF Commit, CommitSkip, CommitBroker, BrokerFails, CommitState, StateFails,
              AwaitTimeout
<1>4. CASE (\E p \in Partitions : Produce(p)) \/ MintEpoch \/ CloseEpoch \/ SinkWrite
  BY <1>4 DEF Produce, MintEpoch, CloseEpoch, SinkWrite
<1>5. CASE SinkFails \/ RequestShutdown \/ Crash
  BY <1>5 DEF SinkFails, RequestShutdown, Crash
<1> QED
  BY <1>1, <1>2, <1>3, <1>4, <1>5 DEF Next

(* ... what is on its way to the sink, ...                                   *)
LEMMA StreamSteps ==
    ASSUME [Next]_vars
    PROVE  \/ Start \/ Crash \/ TakeAny \/ TakeMarker \/ Send \/ Terminal \/ SinkWrite \/ SinkFails
           \/ UNCHANGED <<batch, buffer, pipe, gone, acked>>
<1>1. CASE UNCHANGED vars
  BY <1>1 DEF vars, streamVars
<1>2. CASE Start \/ StartUp \/ Loop
  BY <1>2 DEF StartUp, Loop, Assigned, FirstMessage, StartupShutdown, Seek, SendFails, streamVars
<1>3. CASE Commit \/ Rebalance \/ AwaitTimeout
  BY <1>3 DEF Commit, CommitSkip, CommitBroker, BrokerFails, CommitState, StateFails,
              Rebalance, AwaitTimeout, streamVars
<1>4. CASE (\E p \in Partitions : Produce(p)) \/ MintEpoch \/ CloseEpoch \/ SinkWrite
  BY <1>4 DEF Produce, MintEpoch, CloseEpoch, streamVars
<1>5. CASE SinkFails \/ RequestShutdown \/ Crash
  BY <1>5 DEF RequestShutdown, streamVars
<1> QED
  BY <1>1, <1>2, <1>3, <1>4, <1>5 DEF Next

(* ... what is recorded and committed, ...                                   *)
LEMMA CommitSteps ==
    ASSUME [Next]_vars
    PROVE  \/ Start \/ Crash \/ Seek \/ TakeMarker \/ Terminal
           \/ CommitSkip \/ BrokerFails \/ CommitState
           \/ UNCHANGED commitVars
<1>1. CASE UNCHANGED vars
  BY <1>1 DEF vars
<1>2. CASE Start \/ StartUp \/ Loop
  BY <1>2 DEF StartUp, Loop, Assigned, FirstMessage, StartupShutdown, TakeAny, TakeBatch, Send,
              SendFails
<1>3. CASE Commit \/ Rebalance \/ AwaitTimeout
  BY <1>3 DEF Commit, CommitBroker, StateFails, Rebalance, AwaitTimeout
<1>4. CASE (\E p \in Partitions : Produce(p)) \/ MintEpoch \/ CloseEpoch \/ SinkWrite
  BY <1>4 DEF Produce, MintEpoch, CloseEpoch, SinkWrite
<1>5. CASE SinkFails \/ RequestShutdown \/ Crash
  BY <1>5 DEF SinkFails, RequestShutdown
<1> QED
  BY <1>1, <1>2, <1>3, <1>4, <1>5 DEF Next

(* ... and the receiver.                                                     *)
LEMMA MailSteps ==
    ASSUME [Next]_vars
    PROVE  \/ Start \/ Crash \/ TakeAny \/ TakeMarker \/ CommitSkip \/ BrokerFails \/ CommitState
           \/ MintEpoch \/ CloseEpoch
           \/ UNCHANGED <<inbox, todo>>
<1>1. CASE UNCHANGED vars
  BY <1>1 DEF vars
<1>2. CASE Start \/ StartUp \/ Loop
  BY <1>2 DEF StartUp, Loop, Assigned, FirstMessage, StartupShutdown, Seek, Send, SendFails,
              Terminal
<1>3. CASE Commit \/ Rebalance \/ AwaitTimeout
  BY <1>3 DEF Commit, CommitBroker, StateFails, Rebalance, AwaitTimeout
<1>4. CASE (\E p \in Partitions : Produce(p)) \/ MintEpoch \/ CloseEpoch \/ SinkWrite
  BY <1>4 DEF Produce, SinkWrite
<1>5. CASE SinkFails \/ RequestShutdown \/ Crash
  BY <1>5 DEF SinkFails, RequestShutdown
<1> QED
  BY <1>1, <1>2, <1>3, <1>4, <1>5 DEF Next

-----------------------------------------------------------------------------
(* Every step keeps the types.                                              *)

(* The types of what outlives the process are kept, ...                    *)
LEMMA NextStoreT == TypeOK /\ Shape /\ [Next]_vars => StoreT'
<1> SUFFICES ASSUME TypeOK, Shape, [Next]_vars PROVE StoreT'
  OBVIOUS
<1>0. StoreT
  BY TypeParts
<1>1. end' \in [Partitions -> Offsets]
  BY <1>0, StoreSteps, Nums DEF StoreT, Produce
<1>2. broker' \in Position
  <2>1. CASE CommitBroker
    BY <1>0, <2>1, CommittingIsEpoch, OverIsPosition DEF StoreT, CommitBroker
  <2> QED
    BY <1>0, <2>1, StoreSteps DEF StoreT
<1>3. saved' \in Position
  <2>1. CASE CommitState
    BY <1>0, <2>1, CommittingIsEpoch, OverIsPosition DEF StoreT, CommitState
  <2> QED
    BY <1>0, <2>1, StoreSteps DEF StoreT
<1>4. written' \in SUBSET (Partitions \X Rows)
  <2>1. CASE SinkWrite
    <3>1. Head(pipe) \in Batches
      BY <2>1 DEF SinkWrite, TypeOK
    <3>2. Head(pipe).rows \in SUBSET (Partitions \X Rows)
      BY <3>1, BatchFacts
    <3> QED
      BY <1>0, <2>1, <3>2 DEF StoreT, SinkWrite
  <2> QED
    BY <1>0, <2>1, StoreSteps DEF StoreT
<1> QED
  BY <1>1, <1>2, <1>3, <1>4 DEF StoreT

(* ... those of where the consumer is, ...                                 *)
LEMMA NextReadT == TypeOK /\ Shape /\ [Next]_vars => ReadT'
<1> SUFFICES ASSUME TypeOK, Shape, [Next]_vars PROVE ReadT'
  OBVIOUS
<1>0. StoreT /\ ReadT
  BY TypeParts
<1>g. \A p \in Partitions : GroupOffset(p) \in Offsets
  BY <1>0, Nums DEF StoreT, Position, GroupOffset
<1>1. CASE Start \/ Rebalance
  <2>1. /\ fetch' = [p \in Partitions |-> GroupOffset(p)] /\ position' = NoPosition
        /\ probed' = probed
    BY <1>1 DEF Start, Rebalance
  <2> QED
    BY <1>0, <1>g, <2>1, PositionFacts DEF ReadT
<1>2. ASSUME NEW p \in Partitions, FirstMessage(p) PROVE ReadT'
  <2>1. /\ fetch[p] < end[p] /\ fetch' = [fetch EXCEPT ![p] = @ + 1]
        /\ position' = [position EXCEPT ![p] = fetch[p] + 1]
        /\ probed' = probed \cup {<<p, fetch[p] + 1>>}
    BY <1>2 DEF FirstMessage
  <2>2. fetch[p] + 1 \in Offsets /\ fetch[p] + 1 \in Rows
    BY <1>0, <2>1, Nums DEF StoreT, ReadT
  <2> QED
    BY <1>0, <2>1, <2>2 DEF ReadT, Position
<1>3. CASE Seek
  <2>1. \A p \in Saved : saved[p] \in Offsets
    BY <1>0, Nums DEF StoreT, Saved, Position
  <2>2. fetch' \in [Partitions -> Offsets]
    BY <1>0, <1>3, <2>1, Nums DEF ReadT, Seek
  <2>3. position' \in Position
    BY <1>0, <1>3 DEF ReadT, Seek, Position
  <2>4. probed' \in SUBSET (Partitions \X Rows)
    BY <1>0, <1>3 DEF ReadT, Seek
  <2> QED
    BY <2>2, <2>3, <2>4 DEF ReadT
<1>4. CASE TakeAny
  <2>1. PICK to \in [Partitions -> Offsets] : TakeBatch(to)
    BY <1>4 DEF TakeAny
  <2>2. /\ fetch' = to /\ probed' = probed
        /\ position' = [p \in Partitions |-> IF to[p] > fetch[p] THEN to[p] ELSE position[p]]
    BY <2>1 DEF TakeBatch
  <2> QED
    BY <1>0, <2>2 DEF ReadT, Position
<1>5. CASE UNCHANGED readVars
  BY <1>0, <1>5 DEF ReadT, readVars
<1> QED
  BY <1>1, <1>2, <1>3, <1>4, <1>5, ReadSteps

(* ... of what is on its way to the sink and what it acked, ...            *)
LEMMA NextStreamT == TypeOK /\ Shape /\ [Next]_vars => StreamT' /\ acked' \in SUBSET Epochs
<1> SUFFICES ASSUME TypeOK, Shape, [Next]_vars PROVE StreamT' /\ acked' \in SUBSET Epochs
  OBVIOUS
<1>0. StreamT /\ acked \in SUBSET Epochs
  BY TypeParts DEF TypeOK
<1>1. CASE Start \/ Crash
  <2>1. batch' = EmptyBatch /\ buffer' = {} /\ pipe' = <<>> /\ acked' = {}
    BY <1>1, Forgets
  <2> QED
    BY <2>1, BatchFacts DEF StreamT
<1>2. CASE TakeAny
  <2>1. PICK to \in [Partitions -> Offsets] : TakeBatch(to)
    BY <1>2 DEF TakeAny
  <2>2. UNION {Between(p, fetch[p], to[p]) : p \in Partitions} \in SUBSET (Partitions \X Rows)
    BY BetweenFacts DEF TypeOK
  <2>3. batch' \in Batches
    BY <1>0, <2>1, <2>2, BatchFacts DEF StreamT, TakeBatch
  <2> QED
    BY <1>0, <2>1, <2>3 DEF StreamT, TakeBatch, streamVars
<1>3. CASE TakeMarker
  <2>1. Head(todo) \in Messages
    BY <1>3 DEF TakeMarker, TypeOK
  <2> QED
    BY <1>0, <1>3, <2>1, MessageFacts DEF StreamT, TakeMarker, streamVars
<1>4. CASE Send
  BY <1>0, <1>4, BatchFacts DEF StreamT, Send
<1>5. CASE Terminal
  <2>1. epoch + 1 \in Epochs
    BY <1>5, Nums DEF Terminal, Shape, TypeOK
  <2>2. [rows |-> {}, markers |-> buffer \cup {epoch + 1}] \in Batches
    BY <1>0, <2>1, BatchFacts DEF StreamT
  <2>3. pipe' = pipe \/ pipe' = Append(pipe, [rows |-> {}, markers |-> buffer \cup {epoch + 1}])
    BY <1>5 DEF Terminal
  <2> QED
    BY <1>0, <1>5, <2>2, <2>3 DEF StreamT, Terminal
<1>6. CASE SinkWrite
  <2>1. Head(pipe) \in Batches /\ Tail(pipe) \in Seq(Batches)
    BY <1>0, <1>6 DEF SinkWrite, StreamT
  <2>2. Head(pipe).markers \in SUBSET Epochs
    BY <2>1, BatchFacts
  <2> QED
    BY <1>0, <1>6, <2>1, <2>2 DEF StreamT, SinkWrite
<1>7. CASE SinkFails
  BY <1>0, <1>7 DEF StreamT, SinkFails
<1>8. CASE UNCHANGED <<batch, buffer, pipe, gone, acked>>
  BY <1>0, <1>8 DEF StreamT
<1> QED
  BY <1>1, <1>2, <1>3, <1>4, <1>5, <1>6, <1>7, <1>8, StreamSteps

(* ... of what is recorded and committed, ...                              *)
LEMMA NextCommitT == TypeOK /\ Shape /\ [Next]_vars => CommitT'
<1> SUFFICES ASSUME TypeOK, Shape, [Next]_vars PROVE CommitT'
  OBVIOUS
<1>0. CommitT /\ saved \in Position /\ position \in Position
  BY TypeParts DEF TypeOK
<1>1. CASE Start \/ Crash
  BY <1>1, Forgets, PositionFacts DEF CommitT
<1>2. CASE Seek
  BY <1>0, <1>2 DEF Seek, CommitT
<1>3. CASE TakeMarker
  BY <1>0, <1>3 DEF TakeMarker, CommitT
<1>4. CASE Terminal
  BY <1>0, <1>4 DEF Terminal, CommitT
<1>5. CASE CommitSkip \/ BrokerFails
  BY <1>0, <1>5, PositionFacts DEF CommitSkip, BrokerFails, CommitOver, CommitT
<1>6. CASE CommitState
  BY <1>0, <1>6, PositionFacts, CommittingIsEpoch DEF CommitState, CommitOver, CommitT, ToCommit
<1>7. CASE UNCHANGED commitVars
  BY <1>0, <1>7 DEF commitVars, CommitT
<1> QED
  BY <1>1, <1>2, <1>3, <1>4, <1>5, <1>6, <1>7, CommitSteps

(* ... of the receiver, ...                                                *)
LEMMA NextMailT == TypeOK /\ Shape /\ [Next]_vars => MailT'
<1> SUFFICES ASSUME TypeOK, Shape, [Next]_vars PROVE MailT'
  OBVIOUS
<1>0. MailT
  BY TypeParts
<1>1. CASE Start \/ Crash
  <2>1. inbox' = <<>> /\ todo' = <<>>
    BY <1>1, Forgets
  <2> QED
    BY <2>1 DEF MailT
<1>2. CASE TakeAny
  BY <1>0, <1>2 DEF TakeAny, TakeBatch, MailT
<1>3. CASE TakeMarker
  BY <1>0, <1>3 DEF TakeMarker, MailT
<1>4. CASE CommitSkip \/ BrokerFails \/ CommitState
  <2>1. inbox' = inbox /\ (todo' = todo \/ (terminal = NoEpoch /\ todo' = Tail(todo)))
    BY <1>4 DEF CommitSkip, BrokerFails, CommitState, CommitOver
  <2>2. terminal = NoEpoch => todo # <<>>
    BY <1>4 DEF CommitSkip, BrokerFails, CommitState, CommitBegins, Shape
  <2>3. todo # <<>> => Tail(todo) \in Seq(Messages)
    BY <1>0 DEF MailT
  <2> QED
    BY <1>0, <2>1, <2>2, <2>3 DEF MailT
<1>5. CASE MintEpoch
  <2>1. epoch + 1 \in Epochs
    BY <1>5, Nums DEF MintEpoch, TypeOK
  <2> QED
    BY <1>0, <1>5, <2>1, MessageFacts DEF MintEpoch, MailT
<1>6. CASE CloseEpoch
  <2>1. epoch \in acked => Finalizer(epoch) \in Messages
    BY MessageFacts DEF TypeOK
  <2> QED
    BY <1>0, <1>6, <2>1 DEF CloseEpoch, MailT
<1>7. CASE UNCHANGED <<inbox, todo>>
  BY <1>0, <1>7 DEF MailT
<1> QED
  BY <1>1, <1>2, <1>3, <1>4, <1>5, <1>6, <1>7, MailSteps

(* ... of the epochs and the failures counted, ...                         *)
LEMMA NextCountT == TypeOK /\ Shape /\ [Next]_vars => CountT'
<1> SUFFICES ASSUME TypeOK, Shape, [Next]_vars PROVE CountT'
  OBVIOUS
<1>0. /\ epoch \in 0 .. MaxEpoch /\ terminal \in 0 .. MaxEpoch /\ faults \in 0 .. MaxFaults
      /\ terminal = NoEpoch => epoch < MaxEpoch
  BY DEF TypeOK, Shape
<1>1. acked' \in SUBSET Epochs
  BY NextStreamT
<1> SUFFICES (epoch \in 0 .. MaxEpoch /\ terminal \in 0 .. MaxEpoch /\ faults \in 0 .. MaxFaults)'
  BY <1>1 DEF CountT
<1>2. CASE UNCHANGED vars
  BY <1>0, <1>2 DEF vars, epochVars
<1>3. CASE Start \/ Crash
  <2>1. epoch' = 0 /\ terminal' = 0
    BY <1>3, Forgets, Nums
  <2>2. faults' = faults \/ (faults < MaxFaults /\ faults' = faults + 1)
    BY <1>3 DEF Start, Crash, Fault
  <2> QED
    BY <1>0, <2>1, <2>2, Nums
<1>4. CASE StartUp
  BY <1>0, <1>4 DEF StartUp, Assigned, FirstMessage, StartupShutdown, Seek, epochVars
<1>5. CASE TakeAny \/ Send \/ SendFails \/ AwaitTimeout
  BY <1>0, <1>5 DEF TakeAny, TakeBatch, Send, SendFails, AwaitTimeout, epochVars
<1>6. CASE TakeMarker \/ Rebalance
  <2>1. /\ epoch' = epoch /\ terminal' = terminal
        /\ faults' = faults \/ (faults < MaxFaults /\ faults' = faults + 1)
    BY <1>6 DEF TakeMarker, Rebalance, Fault, epochVars
  <2> QED
    BY <1>0, <2>1, Nums
<1>7. CASE Commit
  <2>1. /\ epoch' = epoch /\ terminal' = terminal
        /\ faults' = faults \/ (faults < MaxFaults /\ faults' = faults + 1)
    BY <1>7 DEF Commit, CommitSkip, CommitBroker, BrokerFails, CommitState, StateFails, Fault,
                epochVars
  <2> QED
    BY <1>0, <2>1, Nums
<1>8. CASE Terminal
  <2>1. /\ epoch' = epoch + 1 /\ terminal' = epoch + 1 /\ terminal = NoEpoch
        /\ faults' = faults \/ (faults < MaxFaults /\ faults' = faults + 1)
    BY <1>8 DEF Terminal, Fault, Shape
  <2> QED
    BY <1>0, <2>1, Nums
<1>9. CASE (\E p \in Partitions : Produce(p)) \/ CloseEpoch \/ SinkWrite \/ RequestShutdown
  BY <1>0, <1>9 DEF Produce, CloseEpoch, SinkWrite, RequestShutdown, epochVars
<1>10. CASE MintEpoch
  <2>1. epoch' = epoch + 1 /\ terminal' = terminal /\ faults' = faults /\ epoch < MaxEpoch - 1
    BY <1>10 DEF MintEpoch
  <2> QED
    BY <1>0, <2>1, Nums
<1>11. CASE SinkFails
  <2>1. epoch' = epoch /\ terminal' = terminal /\ faults < MaxFaults /\ faults' = faults + 1
    BY <1>11 DEF SinkFails, Fault, epochVars
  <2> QED
    BY <1>0, <2>1, Nums
<1> QED
  BY <1>2, <1>3, <1>4, <1>5, <1>6, <1>7, <1>8, <1>9, <1>10, <1>11 DEF Next, Loop

(* ... and of the flags.                                                   *)
LEMMA NextFlagT == TypeOK /\ [Next]_vars => FlagT'
<1> SUFFICES ASSUME FlagT, [Next]_vars PROVE FlagT'
  BY TypeParts
<1> USE DEF FlagT
<1>1. CASE UNCHANGED vars
  BY <1>1 DEF vars, streamVars, epochVars
<1>2. CASE Start \/ Crash
  <2>1. pc' \in {"startup", "down"} /\ gone' = FALSE /\ open' = FALSE /\ shutdown' = FALSE
    BY <1>2, ForgetsFlags
  <2> QED
    BY <2>1
<1>3. CASE StartUp
  BY <1>3, Zenon DEF StartUp, Assigned, FirstMessage, StartupShutdown, Seek, streamVars, epochVars
<1>4. CASE Loop \/ Rebalance \/ AwaitTimeout
  <2>1. /\ UNCHANGED <<gone, open, shutdown>>
        /\ pc' \in {"dispatch", "top", "stopped", "await", pc}
    BY <1>4 DEF Loop, TakeAny, TakeBatch, TakeMarker, Send, SendFails, Terminal, Rebalance,
                AwaitTimeout, streamVars, epochVars
  <2> QED
    BY <2>1
<1>5. CASE Commit
  <2>1. /\ UNCHANGED <<gone, open, shutdown>>
        /\ pc' \in {"dispatch", "state", "stopped", "clean", "down"}
    BY <1>5 DEF Commit, CommitSkip, CommitBroker, BrokerFails, CommitState, StateFails, CommitOver,
                streamVars, epochVars
  <2> QED
    BY <2>1
<1>6. CASE (\E p \in Partitions : Produce(p)) \/ MintEpoch \/ CloseEpoch \/ SinkWrite
           \/ SinkFails \/ RequestShutdown
  <2>1. /\ pc' = pc /\ gone' \in {gone, TRUE} /\ open' \in {open, TRUE, FALSE}
        /\ shutdown' \in {shutdown, TRUE}
    BY <1>6, Zenon DEF Produce, MintEpoch, CloseEpoch, SinkWrite, SinkFails, RequestShutdown,
                streamVars, epochVars
  <2> QED
    BY <2>1
<1> QED
  BY <1>1, <1>2, <1>3, <1>4, <1>5, <1>6 DEF Next

(* So every step keeps the types.                                          *)
LEMMA NextTypes == TypeOK /\ Shape /\ [Next]_vars => TypeOK'
<1> SUFFICES ASSUME TypeOK, Shape, [Next]_vars PROVE TypeOK'
  OBVIOUS
<1>1. StoreT' /\ ReadT' /\ StreamT'
  BY NextStoreT, NextReadT, NextStreamT
<1>2. CommitT' /\ MailT' /\ CountT' /\ FlagT'
  BY NextCommitT, NextMailT, NextCountT, NextFlagT
<1> QED
  BY <1>1, <1>2 DEF TypeOK, StoreT, ReadT, StreamT, CommitT, MailT, CountT, FlagT

-----------------------------------------------------------------------------
(* What is empty when, and which epoch is being committed.                  *)
LEMMA NextShape == TypeOK /\ Shape /\ [Next]_vars => Shape'
<1> SUFFICES ASSUME TypeOK, Shape, [Next]_vars PROVE Shape'
  OBVIOUS
<1>0. epoch \in 0 .. MaxEpoch /\ terminal \in 0 .. MaxEpoch
  BY DEF TypeOK
<1>1. CASE UNCHANGED vars
  BY <1>1 DEF Shape, Starting, vars, epochVars, streamVars, commitVars
<1>2. CASE Start \/ Crash
  <2>1. /\ batch' = EmptyBatch /\ buffer' = {} /\ pipe' = <<>> /\ acked' = {}
        /\ snapshots' = [e \in Epochs |-> NoPosition] /\ committed' = NoPosition
        /\ epoch' = 0 /\ terminal' = NoEpoch
    BY <1>2, Forgets
  <2>2. pc' \in {"startup", "down"}
    BY <1>2, ForgetsFlags
  <2> QED
    BY <2>1, <2>2, Nums DEF Shape, Starting
<1>3. CASE Assigned \/ (\E p \in Partitions : FirstMessage(p)) \/ StartupShutdown
  <2>1. /\ pc = "startup" /\ pc' \in {"seek", "stopped"}
        /\ UNCHANGED <<batch, buffer, snapshots, committed, todo, pipe, gone, epoch, terminal, acked>>
    BY <1>3 DEF Assigned, FirstMessage, StartupShutdown, epochVars, streamVars, commitVars
  <2> QED
    BY <2>1 DEF Shape, Starting
<1>4. CASE Seek
  <2>1. /\ pc = "seek" /\ pc' = "top"
        /\ UNCHANGED <<batch, buffer, snapshots, todo, pipe, gone, epoch, terminal, acked>>
    BY <1>4 DEF Seek, epochVars, streamVars
  <2> QED
    BY <2>1 DEF Shape, Starting
<1>5. CASE TakeAny \/ TakeMarker \/ SendFails
  <2>1. /\ pc \in {"top", "dispatch"} /\ pc' \in {"dispatch", "stopped"}
        /\ UNCHANGED <<pipe, gone, epoch, terminal, acked>>
    BY <1>5 DEF TakeAny, TakeBatch, TakeMarker, SendFails, epochVars, streamVars
  <2> QED
    BY <2>1 DEF Shape, Starting
<1>6. CASE Send
  <2>1. /\ pc = "dispatch" /\ pc' = "top" /\ ~ gone /\ batch' = EmptyBatch
        /\ UNCHANGED <<gone, epoch, terminal, acked>>
    BY <1>6 DEF Send, epochVars
  <2> QED
    BY <2>1 DEF Shape, Starting
<1>7. CASE Terminal
  <2>1. /\ pc = "top" /\ pc' = "await" /\ terminal' = epoch + 1 /\ gone' = gone
        /\ gone => pipe' = pipe
    BY <1>7 DEF Terminal
  <2> QED
    BY <1>0, <2>1, Nums DEF Shape, Starting
<1>8. CASE CommitSkip \/ BrokerFails \/ CommitState
  <2>1. /\ UNCHANGED <<pipe, gone, epoch, terminal, acked>>
        /\ pc' \in {"clean", "stopped"} \/ (pc' = "dispatch" /\ terminal = NoEpoch)
    BY <1>8 DEF CommitSkip, BrokerFails, CommitState, CommitOver, epochVars, streamVars
  <2> QED
    BY <2>1 DEF Shape, Starting
<1>9. CASE CommitBroker
  <2>1. /\ CommitBegins /\ pc' = "state"
        /\ UNCHANGED <<batch, buffer, snapshots, committed, todo, pipe, gone, epoch, terminal, acked>>
    BY <1>9 DEF CommitBroker, epochVars, streamVars, commitVars
  <2> QED
    BY <2>1 DEF Shape, Starting, CommitBegins
<1>10. CASE StateFails \/ AwaitTimeout
  <2>1. /\ pc' \in {"stopped", "down"}
        /\ UNCHANGED <<batch, buffer, snapshots, committed, todo, pipe, gone, epoch, terminal, acked>>
    BY <1>10 DEF StateFails, AwaitTimeout, epochVars, streamVars, commitVars
  <2> QED
    BY <2>1 DEF Shape, Starting
<1>11. CASE Rebalance \/ (\E p \in Partitions : Produce(p)) \/ CloseEpoch \/ RequestShutdown
  <2>1. UNCHANGED <<pc, batch, buffer, snapshots, committed, todo, pipe, gone, epoch, terminal, acked>>
    BY <1>11 DEF Rebalance, Produce, CloseEpoch, RequestShutdown, epochVars, streamVars, commitVars
  <2> QED
    BY <2>1 DEF Shape, Starting
<1>12. CASE MintEpoch
  <2>1. /\ UNCHANGED <<pc, batch, buffer, snapshots, committed, todo, pipe, gone, terminal, acked>>
        /\ epoch' = epoch + 1 /\ epoch < MaxEpoch - 1
    BY <1>12 DEF MintEpoch, streamVars, commitVars
  <2> QED
    BY <1>0, <2>1, Nums DEF Shape, Starting
<1>13. CASE SinkWrite
  <2>1. /\ UNCHANGED <<pc, batch, buffer, snapshots, committed, todo, gone, epoch, terminal>>
        /\ pipe # <<>> /\ acked \subseteq acked'
    BY <1>13 DEF SinkWrite, epochVars, commitVars
  <2> QED
    BY <2>1 DEF Shape, Starting
<1>14. CASE SinkFails
  <2>1. /\ UNCHANGED <<pc, batch, buffer, snapshots, committed, todo, acked, epoch, terminal>>
        /\ pipe' = <<>>
    BY <1>14 DEF SinkFails, epochVars, commitVars
  <2> QED
    BY <2>1 DEF Shape, Starting
<1> QED
  BY <1>1, <1>2, <1>3, <1>4, <1>5, <1>6, <1>7, <1>8, <1>9, <1>10, <1>11, <1>12, <1>13, <1>14
     DEF Next, StartUp, Loop, Commit

-----------------------------------------------------------------------------
(* Batches put on the stream and taken off it.                              *)
LEMMA OfAppend ==
    ASSUME NEW s \in Seq(Batches), NEW b \in Batches
    PROVE  /\ MarkersOf(Append(s, b)) = MarkersOf(s) \cup b.markers
           /\ Len(Append(s, b)) = Len(s) + 1 /\ Append(s, b)[Len(s) + 1] = b
           /\ \A k \in 1 .. Len(s) : Append(s, b)[k] = s[k]
           /\ \A k \in 1 .. Len(s) : RowsUpTo(Append(s, b), k) = RowsUpTo(s, k)
           /\ RowsUpTo(Append(s, b), Len(s) + 1) = RowsUpTo(s, Len(s)) \cup b.rows
<1> DEFINE t == Append(s, b)
<1>1. Len(t) = Len(s) + 1 /\ t[Len(s) + 1] = b /\ (\A k \in 1 .. Len(s) : t[k] = s[k]) /\ Len(s) \in Nat
  OBVIOUS
<1> HIDE DEF t
<1>2. \A k \in 1 .. Len(s) + 1 : k \in 1 .. Len(s) \/ k = Len(s) + 1
  BY <1>1
<1>3. 1 .. Len(s) \subseteq 1 .. Len(s) + 1 /\ Len(s) + 1 \in 1 .. Len(s) + 1
  BY <1>1
<1>4. MarkersOf(t) = MarkersOf(s) \cup b.markers
  BY <1>1, <1>2, <1>3, Zenon DEF MarkersOf
<1>5. RowsUpTo(t, Len(s) + 1) = RowsUpTo(s, Len(s)) \cup b.rows
  BY <1>1, <1>2, <1>3, Zenon DEF RowsUpTo
<1>6. ASSUME NEW k \in 1 .. Len(s) PROVE RowsUpTo(t, k) = RowsUpTo(s, k)
  <2>1. \A j \in 1 .. k : t[j] = s[j]
    BY <1>1
  <2> QED
    BY <2>1, Zenon DEF RowsUpTo
<1> QED
  BY <1>1, <1>4, <1>5, <1>6 DEF t

(* What is left on the stream when the sink takes its first batch.         *)
LEMMA OfTail ==
    ASSUME NEW s \in Seq(Batches), s # <<>>
    PROVE  /\ Head(s) \in Batches /\ Tail(s) \in Seq(Batches) /\ Len(Tail(s)) = Len(s) - 1
           /\ MarkersOf(s) = Head(s).markers \cup MarkersOf(Tail(s))
           /\ \A k \in 1 .. Len(s) - 1 : Tail(s)[k] = s[k + 1]
           /\ \A k \in 0 .. Len(s) - 1 : RowsUpTo(s, k + 1) = Head(s).rows \cup RowsUpTo(Tail(s), k)
           /\ Head(s) = s[1] /\ Len(s) \in Nat \ {0}
<1> DEFINE t == Tail(s)
<1>1. /\ t \in Seq(Batches) /\ Len(t) = Len(s) - 1 /\ Len(s) \in Nat \ {0}
      /\ \A k \in 1 .. Len(s) - 1 : t[k] = s[k + 1]
  OBVIOUS
<1>2. Head(s) = s[1] /\ Head(s) \in Batches
  OBVIOUS
<1> HIDE DEF t
<1>3. ASSUME NEW n \in 0 .. Len(s) - 1
      PROVE  /\ \A k \in 1 .. n + 1 : k = 1 \/ \E j \in 1 .. n : k = j + 1 /\ t[j] = s[k]
             /\ 1 \in 1 .. n + 1
             /\ \A j \in 1 .. n : j + 1 \in 1 .. n + 1 /\ t[j] = s[j + 1]
  <2>1. ASSUME NEW k \in 1 .. n + 1, k # 1 PROVE \E j \in 1 .. n : k = j + 1 /\ t[j] = s[k]
    <3>1. k - 1 \in 1 .. n /\ k = (k - 1) + 1
      BY <1>1, <2>1
    <3>2. t[k - 1] = s[k]
      BY <1>1, <3>1
    <3> QED
      BY <3>1, <3>2
  <2> QED
    BY <1>1, <2>1
<1>4. ASSUME NEW n \in 0 .. Len(s) - 1
      PROVE  RowsUpTo(s, n + 1) = Head(s).rows \cup RowsUpTo(t, n)
  <2>1. ASSUME NEW x PROVE x \in RowsUpTo(s, n + 1) <=> x \in Head(s).rows \cup RowsUpTo(t, n)
    <3>1. x \in RowsUpTo(s, n + 1) <=> \E k \in 1 .. n + 1 : x \in s[k].rows
      BY DEF RowsUpTo
    <3>2. x \in RowsUpTo(t, n) <=> \E j \in 1 .. n : x \in t[j].rows
      BY DEF RowsUpTo
    <3> QED
      BY <1>2, <1>3, <3>1, <3>2, Zenon
  <2> QED
    BY <2>1
<1>5. MarkersOf(s) = Head(s).markers \cup MarkersOf(t)
  <2>1. Len(s) - 1 \in 0 .. Len(s) - 1 /\ (Len(s) - 1) + 1 = Len(s)
    BY <1>1
  <2>2. /\ \A k \in 1 .. Len(s) : k = 1 \/ \E j \in 1 .. Len(t) : k = j + 1 /\ t[j] = s[k]
        /\ 1 \in 1 .. Len(s)
        /\ \A j \in 1 .. Len(t) : j + 1 \in 1 .. Len(s) /\ t[j] = s[j + 1]
    BY <1>1, <1>3, <2>1
  <2> QED
    <3>1. ASSUME NEW x PROVE x \in MarkersOf(s) <=> x \in Head(s).markers \cup MarkersOf(t)
      <4>1. x \in MarkersOf(s) <=> \E k \in 1 .. Len(s) : x \in s[k].markers
        BY DEF MarkersOf
      <4>2. x \in MarkersOf(t) <=> \E j \in 1 .. Len(t) : x \in t[j].markers
        BY DEF MarkersOf
      <4> QED
        BY <1>2, <2>2, <4>1, <4>2, Zenon
    <3> QED
      BY <3>1
<1> QED
  BY <1>1, <1>2, <1>4, <1>5 DEF t

(* An empty stream carries nothing.                                        *)
LEMMA OfEmpty == MarkersOf(<<>>) = {} /\ RowsUpTo(<<>>, Len(<<>>)) = {}
  BY DEF MarkersOf, RowsUpTo

(* What has been taken off the receiver is on its way to the sink or acked.  *)
LEMMA TakenSteps ==
    ASSUME TypeOK, Shape, Mail, [Next]_vars
    PROVE  \/ Start \/ Crash \/ TakeMarker \/ Terminal \/ SinkFails
           \/ Taken' = Taken /\ acked \subseteq acked' /\ gone' = gone
<1>0. pipe \in Seq(Batches) /\ batch \in Batches
  BY DEF TypeOK
<1>1. CASE TakeAny
  <2>1. batch.markers = {}
    BY <1>1, BatchFacts DEF TakeAny, TakeBatch, Shape
  <2>2. buffer' = {} /\ batch'.markers = buffer /\ UNCHANGED <<pipe, gone, acked>>
    BY <1>1 DEF TakeAny, TakeBatch, streamVars
  <2> QED
    BY <2>1, <2>2 DEF Taken
<1>2. CASE Send
  <2>1. /\ pipe' = Append(pipe, batch) /\ batch'.markers = {} /\ UNCHANGED <<buffer, gone, acked>>
    BY <1>2, BatchFacts DEF Send
  <2>2. MarkersOf(pipe') = MarkersOf(pipe) \cup batch.markers
    BY <1>0, <2>1, OfAppend
  <2> QED
    BY <2>1, <2>2 DEF Taken
<1>3. CASE SinkWrite
  <2>1. /\ pipe' = Tail(pipe) /\ pipe # <<>> /\ acked' = acked \cup Head(pipe).markers
        /\ UNCHANGED <<batch, buffer, gone>>
    BY <1>3 DEF SinkWrite
  <2>2. MarkersOf(pipe) = Head(pipe).markers \cup MarkersOf(pipe')
    BY <1>0, <2>1, OfTail
  <2> QED
    BY <2>1, <2>2 DEF Taken
<1>4. CASE UNCHANGED <<batch, buffer, pipe, gone, acked>>
  BY <1>4 DEF Taken
<1> QED
  BY <1>1, <1>2, <1>3, <1>4, StreamSteps

(* A Marker is taken off the receiver, the terminal one is not from there,   *)
(* and a sink that is gone drops those on their way.                         *)
LEMMA TakenChanges ==
    ASSUME TypeOK, Shape, Mail
    PROVE  /\ TakeMarker => /\ Taken' = Taken \cup {Head(todo).epoch} /\ acked' = acked
                            /\ gone' = gone /\ Head(todo).epoch <= epoch
                            /\ Head(todo).epoch \in Epochs
           /\ Terminal => /\ Taken' \subseteq Taken \cup {epoch + 1} /\ acked' = acked
                          /\ gone' = gone /\ (~ gone => Taken' = Taken \cup {epoch + 1})
           /\ SinkFails => Taken' \subseteq Taken /\ acked' = acked /\ gone'
           /\ Start \/ Crash => Taken' = {}
<1>0. pipe \in Seq(Batches) /\ batch \in Batches
  BY DEF TypeOK
<1>1. ASSUME TakeMarker
      PROVE  /\ Taken' = Taken \cup {Head(todo).epoch} /\ acked' = acked
             /\ gone' = gone /\ Head(todo).epoch <= epoch
             /\ Head(todo).epoch \in Epochs
  <2>1. /\ pc = "dispatch" /\ todo # <<>> /\ buffer' = buffer \cup {Head(todo).epoch}
        /\ UNCHANGED <<batch, pipe, gone, acked>>
    BY <1>1 DEF TakeMarker, streamVars
  <2>2. Head(todo) = todo[1] /\ 1 \in 1 .. Len(todo) /\ Head(todo) \in Messages
    BY <2>1 DEF TypeOK
  <2>3. Head(todo).epoch <= epoch
    BY <2>1, <2>2 DEF Mail, FreshIn, Shape
  <2> QED
    BY <2>1, <2>2, <2>3, MessageFacts DEF Taken
<1>2. ASSUME Terminal
      PROVE  /\ Taken' \subseteq Taken \cup {epoch + 1} /\ acked' = acked
             /\ gone' = gone /\ (~ gone => Taken' = Taken \cup {epoch + 1})
  <2> DEFINE b == [rows |-> {}, markers |-> buffer \cup {epoch + 1}]
  <2>1. /\ buffer' = {} /\ UNCHANGED <<batch, gone, acked>>
        /\ pipe' = IF gone THEN pipe ELSE Append(pipe, b)
    BY <1>2 DEF Terminal
  <2>2. epoch + 1 \in Epochs
    BY <1>2, Nums DEF Terminal, Shape, TypeOK
  <2>3. b \in Batches /\ b.markers = buffer \cup {epoch + 1}
    BY <2>2, BatchFacts DEF TypeOK
  <2> HIDE DEF b
  <2>4. ~ gone => MarkersOf(pipe') = MarkersOf(pipe) \cup b.markers
    BY <1>0, <2>1, <2>3, OfAppend
  <2> QED
    BY <2>1, <2>3, <2>4 DEF Taken
<1>3. ASSUME SinkFails PROVE Taken' \subseteq Taken /\ acked' = acked /\ gone'
  <2>1. pipe' = <<>> /\ UNCHANGED <<batch, buffer, acked>> /\ gone' = TRUE
    BY <1>3 DEF SinkFails
  <2> QED
    BY <2>1, OfEmpty DEF Taken
<1>4. ASSUME Start \/ Crash PROVE Taken' = {}
  <2>1. batch' = EmptyBatch /\ buffer' = {} /\ pipe' = <<>> /\ acked' = {}
    BY <1>4, Forgets
  <2> QED
    BY <2>1, OfEmpty, BatchFacts DEF Taken
<1> QED
  BY <1>1, <1>2, <1>3, <1>4

(* The epochs.                                                               *)
LEMMA EpochSteps ==
    ASSUME [Next]_vars
    PROVE  Start \/ Crash \/ Terminal \/ MintEpoch \/ UNCHANGED <<epoch, terminal>>
<1>1. CASE UNCHANGED vars
  BY <1>1 DEF vars, epochVars
<1>2. CASE Start \/ StartUp \/ Loop
  BY <1>2 DEF StartUp, Loop, Assigned, FirstMessage, StartupShutdown, Seek, TakeAny, TakeBatch,
              TakeMarker, Send, SendFails, epochVars
<1>3. CASE Commit \/ Rebalance \/ AwaitTimeout
  BY <1>3 DEF Commit, CommitSkip, CommitBroker, BrokerFails, CommitState, StateFails, Rebalance,
              AwaitTimeout, epochVars
<1>4. CASE (\E p \in Partitions : Produce(p)) \/ MintEpoch \/ CloseEpoch \/ SinkWrite
  BY <1>4 DEF Produce, CloseEpoch, SinkWrite, epochVars
<1>5. CASE SinkFails \/ RequestShutdown \/ Crash
  BY <1>5 DEF SinkFails, RequestShutdown, epochVars
<1> QED
  BY <1>1, <1>2, <1>3, <1>4, <1>5 DEF Next

(* Only epochs that were minted have been taken.                             *)
LEMMA NextTaken == TypeOK /\ Shape /\ Mail /\ [Next]_vars => Taken' \subseteq 1 .. epoch'
<1> SUFFICES ASSUME TypeOK, Shape, Mail, [Next]_vars PROVE Taken' \subseteq 1 .. epoch'
  OBVIOUS
<1>0. Taken \subseteq 1 .. epoch /\ epoch \in Nat /\ \A e \in Epochs : e \in Nat \ {0}
  BY Nums DEF Mail, TypeOK
<1>1. CASE Start \/ Crash
  BY <1>1, TakenChanges
<1>2. CASE Terminal
  <2>1. epoch' = epoch + 1
    BY <1>2 DEF Terminal
  <2>2. Taken' \subseteq Taken \cup {epoch + 1}
    BY <1>2, TakenChanges
  <2>3. 1 .. epoch \subseteq 1 .. epoch' /\ epoch + 1 \in 1 .. epoch'
    BY <1>0, <2>1
  <2> QED
    BY <1>0, <2>2, <2>3
<1>3. CASE ~ (Start \/ Crash \/ Terminal)
  <2>1. epoch' = epoch \/ epoch' = epoch + 1
    BY <1>3, EpochSteps DEF MintEpoch
  <2>2. 1 .. epoch \subseteq 1 .. epoch'
    BY <1>0, <2>1
  <2>3. Taken' \subseteq 1 .. epoch
    <3>1. CASE TakeMarker
      <4>1. Taken' = Taken \cup {Head(todo).epoch} /\ Head(todo).epoch <= epoch /\ Head(todo).epoch \in Epochs
        BY <3>1, TakenChanges
      <4>2. Head(todo).epoch \in 1 .. epoch
        BY <1>0, <4>1
      <4> QED
        BY <1>0, <4>1, <4>2
    <3>2. CASE SinkFails
      <4>1. Taken' \subseteq Taken
        BY <3>2, TakenChanges
      <4> QED
        BY <1>0, <4>1
    <3>3. CASE Taken' = Taken
      BY <1>0, <3>3
    <3> QED
      BY <1>3, <3>1, <3>2, <3>3, TakenSteps
  <2> QED
    BY <2>2, <2>3
<1> QED
  BY <1>1, <1>2, <1>3

(* An epoch whose Marker was not taken has no recorded position.             *)
LEMMA NextUnrecorded ==
    TypeOK /\ Shape /\ Mail /\ [Next]_vars =>
        (~ gone' => \A e \in Epochs \ Taken' : snapshots'[e] = NoPosition)
<1> SUFFICES ASSUME TypeOK, Shape, Mail, [Next]_vars, ~ gone', NEW e \in Epochs, e \notin Taken'
             PROVE  snapshots'[e] = NoPosition
  OBVIOUS
<1>0. ~ gone => \A f \in Epochs \ Taken : snapshots[f] = NoPosition
  BY DEF Mail
<1>t. snapshots \in [Epochs -> Position]
  BY DEF TypeOK
<1>1. CASE Start \/ Crash
  BY <1>1, Forgets
<1>2. CASE TakeMarker
  <2>1. e \notin Taken /\ e # Head(todo).epoch /\ ~ gone
    BY <1>2, TakenChanges
  <2>2. snapshots'[e] = snapshots[e]
    BY <1>2, <1>t, <2>1 DEF TakeMarker
  <2> QED
    BY <1>0, <2>1, <2>2
<1>3. CASE Terminal
  <2>1. e \notin Taken /\ e # epoch + 1 /\ ~ gone
    BY <1>3, TakenChanges
  <2>2. snapshots'[e] = snapshots[e]
    BY <1>3, <1>t, <2>1 DEF Terminal
  <2> QED
    BY <1>0, <2>1, <2>2
<1>4. CASE SinkFails
  BY <1>4, TakenChanges
<1>5. CASE Taken' = Taken /\ gone' = gone /\ ~ (Start \/ Crash \/ TakeMarker \/ Terminal)
  <2>1. snapshots[e] = NoPosition
    BY <1>0, <1>5
  <2>2. CASE CommitSkip \/ BrokerFails \/ CommitState
    BY <1>t, <2>1, <2>2 DEF CommitSkip, BrokerFails, CommitState, CommitOver
  <2>3. CASE snapshots' = snapshots
    BY <2>1, <2>3
  <2> QED
    BY <1>5, <2>2, <2>3, CommitSteps DEF Seek, commitVars
<1> QED
  BY <1>1, <1>2, <1>3, <1>4, <1>5, TakenSteps

(* What is fresh stays fresh when more is minted and acked, and when a       *)
(* message is put at the end or taken off the front.                        *)
LEMMA FreshGrows ==
    ASSUME NEW s \in Seq(Messages), NEW e \in Nat, NEW f \in Nat, e <= f, NEW a, NEW b, a \subseteq b,
           NEW t, NEW u, u \subseteq t, FreshIn(s, e, a, t)
    PROVE  FreshIn(s, f, b, u)
<1>1. \A k \in 1 .. Len(s) : s[k].epoch \in Nat
  BY MessageFacts, Nums
<1> QED
  BY <1>1 DEF FreshIn

(* Taking a Marker off a receiver makes it the one epoch taken.            *)
LEMMA FreshTail ==
    ASSUME NEW s \in Seq(Messages), s # <<>>, NEW e, NEW a, NEW t, FreshIn(s, e, a, t)
    PROVE  /\ FreshIn(Tail(s), e, a, t)
           /\ Head(s).kind = "Marker" => FreshIn(Tail(s), e, a, t \cup {Head(s).epoch})
<1> DEFINE r == Tail(s)
<1>1. Len(r) = Len(s) - 1 /\ Len(s) \in Nat \ {0} /\ \A k \in 1 .. Len(s) - 1 : r[k] = s[k + 1]
  OBVIOUS
<1>2. Head(s) = s[1]
  OBVIOUS
<1> HIDE DEF r
<1>3. ASSUME NEW k \in 1 .. Len(r)
      PROVE  /\ k + 1 \in 1 .. Len(s) /\ r[k] = s[k + 1] /\ 1 \in 1 .. (k + 1) - 1
             /\ \A j \in 1 .. k - 1 : j + 1 \in 1 .. (k + 1) - 1 /\ r[j] = s[j + 1]
  BY <1>1
<1>4. ASSUME NEW k \in 1 .. Len(r)
      PROVE  /\ r[k].epoch <= e
             /\ r[k].kind = "Finalizer" => r[k].epoch \in a
             /\ r[k].kind = "Marker" =>
                   /\ r[k].epoch \notin t
                   /\ s[1].kind = "Marker" => s[1].epoch # r[k].epoch
                   /\ \A j \in 1 .. k - 1 : r[j].kind = "Marker" => r[j].epoch # r[k].epoch
  <2>1. k + 1 \in 1 .. Len(s) /\ r[k] = s[k + 1]
    BY <1>3
  <2>2. r[k].epoch <= e /\ (r[k].kind = "Finalizer" => r[k].epoch \in a)
    BY <2>1, Zenon DEF FreshIn
  <2>3. ASSUME r[k].kind = "Marker"
        PROVE  /\ r[k].epoch \notin t
               /\ \A j \in 1 .. (k + 1) - 1 : s[j].kind = "Marker" => s[j].epoch # r[k].epoch
    BY <2>1, <2>3, Zenon DEF FreshIn
  <2>4. \A j \in 1 .. k - 1 : j + 1 \in 1 .. (k + 1) - 1 /\ r[j] = s[j + 1]
    BY <1>3
  <2>5. 1 \in 1 .. (k + 1) - 1
    BY <1>3
  <2> QED
    BY <2>2, <2>3, <2>4, <2>5, Zenon
<1>5. FreshIn(r, e, a, t)
  BY <1>4 DEF FreshIn
<1>6. s[1].kind = "Marker" => FreshIn(r, e, a, t \cup {s[1].epoch})
  BY <1>4 DEF FreshIn
<1> QED
  BY <1>2, <1>5, <1>6 DEF r

(* A new epoch's Marker, or the Finalizer of one acked, is put at the end. *)
LEMMA FreshAppend ==
    ASSUME NEW s \in Seq(Messages), NEW e, NEW a, NEW t, FreshIn(s, e, a, t), NEW m \in Messages,
           m.epoch <= e, m.kind = "Finalizer" => m.epoch \in a,
           m.kind = "Marker" => m.epoch \notin t /\ \A j \in 1 .. Len(s) : s[j].epoch # m.epoch
    PROVE  FreshIn(Append(s, m), e, a, t)
<1> DEFINE r == Append(s, m)
<1>1. /\ Len(r) = Len(s) + 1 /\ Len(s) \in Nat /\ r[Len(s) + 1] = m
      /\ \A k \in 1 .. Len(s) : r[k] = s[k]
  OBVIOUS
<1> HIDE DEF r
<1>2. \A k \in 1 .. Len(r) : k \in 1 .. Len(s) \/ k = Len(s) + 1
  BY <1>1
<1>3. \A k \in 1 .. Len(s) : \A j \in 1 .. k - 1 : j \in 1 .. Len(s)
  BY <1>1
<1>4. \A j \in 1 .. (Len(s) + 1) - 1 : j \in 1 .. Len(s)
  BY <1>1
<1>5. FreshIn(r, e, a, t)
  BY <1>1, <1>2, <1>3, <1>4 DEF FreshIn
<1> QED
  BY <1>5 DEF r

(* Two receivers that share no Marker still share none after a Tail or an Append. *)
LEMMA ApartMoves ==
    ASSUME NEW s \in Seq(Messages), NEW t \in Seq(Messages), Apart(s, t)
    PROVE  /\ s # <<>> => Apart(Tail(s), t)
           /\ \A m \in Messages :
                 (m.kind = "Marker" => \A k \in 1 .. Len(s) : s[k].epoch # m.epoch) =>
                     Apart(s, Append(t, m))
<1>1. ASSUME s # <<>> PROVE Apart(Tail(s), t)
  <2>1. \A k \in 1 .. Len(Tail(s)) : k + 1 \in 1 .. Len(s) /\ Tail(s)[k] = s[k + 1]
    BY <1>1
  <2> QED
    BY <2>1 DEF Apart
<1>2. ASSUME NEW m \in Messages, m.kind = "Marker" => \A k \in 1 .. Len(s) : s[k].epoch # m.epoch
      PROVE  Apart(s, Append(t, m))
  <2>1. \A j \in 1 .. Len(Append(t, m)) : (j \in 1 .. Len(t) /\ Append(t, m)[j] = t[j]) \/ Append(t, m)[j] = m
    OBVIOUS
  <2> QED
    BY <1>2, <2>1 DEF Apart
<1> QED
  BY <1>1, <1>2

(* Nothing was received from an empty receiver.                            *)
LEMMA NothingFresh ==
    \A e, a, t : FreshIn(<<>>, e, a, t) /\ \A s \in Seq(Messages) : Apart(s, <<>>)
  BY DEF FreshIn, Apart

(* The receiver's messages stay fresh.                                       *)
LEMMA NextFresh ==
    ASSUME TypeOK, Shape, Mail, [Next]_vars, terminal' = NoEpoch
    PROVE  /\ FreshIn(todo', epoch', acked', Taken') /\ FreshIn(inbox', epoch', acked', Taken')
           /\ Apart(todo', inbox')
<1>0. todo \in Seq(Messages) /\ inbox \in Seq(Messages) /\ epoch \in Nat
  BY Nums DEF TypeOK
<1>1. CASE Start \/ Crash
  <2>1. todo' = <<>> /\ inbox' = <<>>
    BY <1>1, Forgets
  <2>2. \A e, a, t : FreshIn(<<>>, e, a, t)
    BY NothingFresh
  <2>3. Apart(<<>>, <<>>)
    BY DEF Apart
  <2> QED
    BY <2>1, <2>2, <2>3
<1>2. CASE Terminal
  <2>1. terminal' = epoch + 1
    BY <1>2 DEF Terminal
  <2>2. epoch + 1 # 0 /\ NoEpoch = 0
    BY <1>0, Nums
  <2> QED
    BY <2>1, <2>2
<1>3. CASE ~ (Start \/ Crash \/ Terminal)
  <2>1. terminal = NoEpoch /\ (epoch' = epoch \/ MintEpoch)
    BY <1>3, EpochSteps DEF MintEpoch
  <2>2. /\ FreshIn(todo, epoch, acked, Taken) /\ FreshIn(inbox, epoch, acked, Taken)
        /\ Apart(todo, inbox)
    BY <2>1 DEF Mail
  <2>3. CASE TakeMarker
    <3>1. /\ todo # <<>> /\ Head(todo).kind = "Marker" /\ todo' = Tail(todo) /\ inbox' = inbox
          /\ epoch' = epoch
      BY <2>3 DEF TakeMarker, epochVars
    <3>2. Taken' = Taken \cup {Head(todo).epoch} /\ acked' = acked
      BY <2>3, TakenChanges
    <3>3. FreshIn(Tail(todo), epoch, acked, Taken \cup {Head(todo).epoch}) /\ Apart(Tail(todo), inbox)
      BY <1>0, <2>2, <3>1, FreshTail, ApartMoves
    <3>4. Head(todo) = todo[1] /\ 1 \in 1 .. Len(todo)
      BY <1>0, <3>1
    <3>5. FreshIn(inbox, epoch, acked, Taken \cup {Head(todo).epoch})
      BY <2>2, <3>1, <3>4 DEF FreshIn, Apart
    <3> QED
      BY <3>1, <3>2, <3>3, <3>5
  <2>4. CASE ~ TakeMarker
    <3>1. Taken' \subseteq Taken /\ acked \subseteq acked'
      BY <1>3, <2>4, TakenSteps, TakenChanges
    <3>2. epoch' \in Nat /\ epoch <= epoch'
      BY <1>0, <2>1 DEF MintEpoch
    <3>3. FreshIn(todo, epoch', acked', Taken') /\ FreshIn(inbox, epoch', acked', Taken')
      BY <1>0, <2>2, <3>1, <3>2, FreshGrows
    <3>4. CASE TakeAny
      <4>1. todo' = inbox /\ inbox' = <<>>
        BY <3>4 DEF TakeAny, TakeBatch
      <4> QED
        BY <1>0, <3>3, <4>1, NothingFresh
    <3>5. CASE CommitSkip \/ BrokerFails \/ CommitState
      <4>1. todo # <<>> /\ todo' = Tail(todo) /\ inbox' = inbox
        BY <2>1, <3>5 DEF CommitSkip, BrokerFails, CommitState, CommitBegins, CommitOver, Shape
      <4>2. FreshIn(Tail(todo), epoch', acked', Taken') /\ Apart(Tail(todo), inbox)
        BY <1>0, <2>2, <3>3, <4>1, FreshTail, ApartMoves
      <4> QED
        BY <3>3, <4>1, <4>2
    <3>6. CASE MintEpoch
      <4> DEFINE m == Marker(epoch + 1)
      <4>1. epoch' = epoch + 1 /\ inbox' = Append(inbox, m) /\ todo' = todo /\ UNCHANGED <<buffer, batch, pipe, acked>>
        BY <3>6 DEF MintEpoch, streamVars
      <4>2. epoch + 1 \in Epochs
        BY <1>0, <3>6, Nums DEF MintEpoch
      <4>3. m \in Messages /\ m.kind = "Marker" /\ m.epoch = epoch + 1
        BY <4>2, MessageFacts
      <4> HIDE DEF m
      <4>4. Taken' \subseteq 1 .. epoch
        BY <3>1 DEF Mail
      <4>5. \A k \in 1 .. Len(todo) : todo[k].epoch # m.epoch
        BY <1>0, <2>2, <4>3, MessageFacts, Nums DEF FreshIn
      <4>6. \A k \in 1 .. Len(inbox) : inbox[k].epoch # m.epoch
        BY <1>0, <2>2, <4>3, MessageFacts, Nums DEF FreshIn
      <4>7. m.epoch <= epoch' /\ m.epoch \notin Taken'
        BY <1>0, <4>1, <4>3, <4>4
      <4>8. FreshIn(Append(inbox, m), epoch', acked', Taken')
        BY <1>0, <3>3, <4>3, <4>6, <4>7, FreshAppend
      <4>9. Apart(todo, Append(inbox, m))
        BY <1>0, <2>2, <4>3, <4>5, ApartMoves
      <4> QED
        BY <3>3, <4>1, <4>8, <4>9
    <3>7. CASE CloseEpoch
      <4> DEFINE m == Finalizer(epoch)
      <4>1. /\ epoch' = epoch /\ inbox' = IF epoch \in acked THEN Append(inbox, m) ELSE inbox
            /\ todo' = todo /\ acked' = acked
        BY <3>7 DEF CloseEpoch
      <4>2. CASE epoch \in acked
        <5>1. m \in Messages /\ m.kind = "Finalizer" /\ m.epoch = epoch
          BY <4>2, MessageFacts DEF TypeOK
        <5> HIDE DEF m
        <5>2. FreshIn(Append(inbox, m), epoch', acked', Taken')
          BY <1>0, <3>3, <4>1, <4>2, <5>1, FreshAppend
        <5>3. Apart(todo, Append(inbox, m))
          BY <1>0, <2>2, <5>1, ApartMoves
        <5> QED
          BY <3>3, <4>1, <4>2, <5>2, <5>3
      <4>3. CASE epoch \notin acked
        BY <2>2, <3>3, <4>1, <4>3
      <4> QED
        BY <4>2, <4>3
    <3>8. CASE UNCHANGED <<inbox, todo>>
      BY <2>2, <3>3, <3>8
    <3> QED
      BY <1>3, <2>4, <3>4, <3>5, <3>6, <3>7, <3>8, MailSteps
  <2> QED
    BY <2>3, <2>4
<1> QED
  BY <1>1, <1>2, <1>3

(* So a Marker is received once, and only an acked epoch is finalized.     *)
LEMMA NextMail == TypeOK /\ Shape /\ Mail /\ [Next]_vars => Mail'
<1> SUFFICES ASSUME TypeOK, Shape, Mail, [Next]_vars PROVE Mail'
  OBVIOUS
<1>1. Taken' \subseteq 1 .. epoch'
  BY NextTaken
<1>2. ~ gone' => \A e \in Epochs \ Taken' : snapshots'[e] = NoPosition
  BY NextUnrecorded
<1>3. terminal' = NoEpoch =>
           /\ FreshIn(todo', epoch', acked', Taken') /\ FreshIn(inbox', epoch', acked', Taken')
           /\ Apart(todo', inbox')
  BY NextFresh
<1> QED
  BY <1>1, <1>2, <1>3 DEF Mail

-----------------------------------------------------------------------------
(* Where the consumer is.                                                   *)

(* During the start the consumer joins the group and may drop a message.     *)
LEMMA StartingSteps ==
    ASSUME [Next]_vars, pc' \in {"startup", "seek"}
    PROVE  \/ Start \/ \E p \in Partitions : FirstMessage(p)
           \/ /\ UNCHANGED readVars /\ UNCHANGED broker
              /\ pc' = pc \/ (pc = "startup" /\ pc' = "seek")
<1>1. CASE UNCHANGED vars
  BY <1>1 DEF vars, storeVars
<1>2. CASE Start \/ StartUp \/ Loop
  BY <1>2 DEF StartUp, Loop, Assigned, StartupShutdown, Seek, TakeAny, TakeBatch, TakeMarker,
              Send, SendFails, Terminal, storeVars
<1>3. CASE Commit \/ Rebalance \/ AwaitTimeout
  BY <1>3 DEF Commit, CommitSkip, CommitBroker, BrokerFails, CommitState, StateFails, CommitOver,
              Rebalance, AwaitTimeout, storeVars
<1>4. CASE (\E p \in Partitions : Produce(p)) \/ MintEpoch \/ CloseEpoch \/ SinkWrite
  BY <1>4 DEF Produce, MintEpoch, CloseEpoch, SinkWrite, storeVars
<1>5. CASE SinkFails \/ RequestShutdown \/ Crash
  BY <1>5 DEF SinkFails, RequestShutdown, Crash, storeVars
<1> QED
  BY <1>1, <1>2, <1>3, <1>4, <1>5 DEF Next

(* A task runs once it has sought.                                           *)
LEMMA RunningSteps == [Next]_vars /\ Running' => Seek \/ Running
<1> SUFFICES ASSUME [Next]_vars, Running' PROVE Seek \/ Running
  OBVIOUS
<1> USE DEF Running
<1>1. CASE UNCHANGED vars
  BY <1>1 DEF vars
<1>2. CASE Start \/ StartUp \/ Loop
  BY <1>2 DEF Start, StartUp, Loop, Assigned, FirstMessage, StartupShutdown, TakeAny, TakeBatch,
              TakeMarker, Send, SendFails, Terminal
<1>3. CASE Commit \/ Rebalance \/ AwaitTimeout
  BY <1>3 DEF Commit, CommitSkip, CommitBroker, BrokerFails, CommitState, StateFails, CommitBegins,
              Rebalance, AwaitTimeout
<1>4. CASE (\E p \in Partitions : Produce(p)) \/ MintEpoch \/ CloseEpoch \/ SinkWrite
  BY <1>4 DEF Produce, MintEpoch, CloseEpoch, SinkWrite
<1>5. CASE SinkFails \/ RequestShutdown \/ Crash
  BY <1>5 DEF SinkFails, RequestShutdown, Crash
<1> QED
  BY <1>1, <1>2, <1>3, <1>4, <1>5 DEF Next

(* The offsets are numbers, and the group resumes at or after the broker's. *)
LEMMA GroupOffsets ==
    TypeOK => \A p \in Partitions : /\ GroupOffset(p) \in Nat /\ GroupOffset(p) >= broker[p]
                                    /\ broker[p] \in -1 .. MaxRow /\ saved[p] \in -1 .. MaxRow
                                    /\ fetch[p] \in 0 .. MaxRow /\ position[p] \in -1 .. MaxRow
<1> SUFFICES ASSUME TypeOK, NEW p \in Partitions
             PROVE  /\ GroupOffset(p) \in Nat /\ GroupOffset(p) >= broker[p]
                    /\ broker[p] \in -1 .. MaxRow /\ saved[p] \in -1 .. MaxRow
                    /\ fetch[p] \in 0 .. MaxRow /\ position[p] \in -1 .. MaxRow
  OBVIOUS
<1>1. broker \in Position /\ saved \in Position /\ position \in Position
  BY DEF TypeOK
<1>2. broker[p] \in -1 .. MaxRow /\ saved[p] \in -1 .. MaxRow /\ position[p] \in -1 .. MaxRow
  BY <1>1, PositionFacts
<1>3. fetch[p] \in 0 .. MaxRow
  BY Nums DEF TypeOK
<1>4. GroupOffset(p) \in Nat /\ GroupOffset(p) >= broker[p]
  BY <1>2, Nums DEF GroupOffset
<1> QED
  BY <1>2, <1>3, <1>4

(* The position follows the consumer.                                        *)
LEMMA NextFollowing == TypeOK /\ Following /\ [Next]_vars => Following'
<1> SUFFICES ASSUME TypeOK, Following, [Next]_vars PROVE Following'
  OBVIOUS
<1>t. /\ fetch \in [Partitions -> Offsets] /\ position \in [Partitions -> Offsets \cup {NoOffset}]
  BY DEF TypeOK, Position
<1>1. CASE Start
  <2>1. /\ fetch' = [p \in Partitions |-> GroupOffset(p)] /\ position' = NoPosition
        /\ broker' = broker /\ pc' = "startup"
    BY <1>1 DEF Start, storeVars
  <2> QED
    BY <2>1 DEF Following, NoPosition, GroupOffset
<1>2. ASSUME NEW q \in Partitions, FirstMessage(q) PROVE Following'
  <2>1. /\ fetch' = [fetch EXCEPT ![q] = @ + 1] /\ position' = [position EXCEPT ![q] = fetch[q] + 1]
        /\ broker' = broker /\ pc = "startup" /\ pc' = "seek"
    BY <1>2 DEF FirstMessage, storeVars
  <2>2. \A p \in Partitions : GroupOffset(p)' = GroupOffset(p)
    BY <2>1 DEF GroupOffset
  <2>3. \A p \in Partitions : fetch[p] = GroupOffset(p) /\ position[p] = NoOffset
    BY <2>1 DEF Following
  <2>4. ASSUME NEW p \in Partitions
        PROVE  /\ position'[p] \in {NoOffset, fetch'[p]}
               /\ fetch'[p] >= GroupOffset(p)
               /\ position'[p] # NoOffset => position'[p] > GroupOffset(p)
    BY <1>t, <2>1, <2>3, GroupOffsets
  <2> QED
    BY <2>1, <2>2, <2>4 DEF Following
<1>3. CASE Seek
  <2>1. /\ fetch' = [p \in Partitions |->
                       IF p \notin Sought THEN fetch[p]
                       ELSE IF p \in Saved THEN saved[p] ELSE 0]
        /\ position' = [p \in Partitions |-> IF p \in Sought THEN NoOffset ELSE position[p]]
        /\ pc' = "top"
    BY <1>3 DEF Seek
  <2> QED
    BY <2>1 DEF Following
<1>4. CASE TakeAny
  <2>1. PICK to \in [Partitions -> Offsets] : TakeBatch(to)
    BY <1>4 DEF TakeAny
  <2>2. /\ fetch' = to /\ pc' = "dispatch" /\ \A p \in Partitions : fetch[p] <= to[p]
        /\ position' = [p \in Partitions |-> IF to[p] > fetch[p] THEN to[p] ELSE position[p]]
    BY <2>1 DEF TakeBatch
  <2>3. \A p \in Partitions : to[p] > fetch[p] \/ to[p] = fetch[p]
    BY <1>t, <2>2, Nums
  <2> QED
    BY <2>2, <2>3 DEF Following
<1>5. CASE Rebalance
  BY <1>5 DEF Rebalance, Following, NoPosition
<1>6. CASE UNCHANGED readVars
  <2>1. fetch' = fetch /\ position' = position
    BY <1>6 DEF readVars
  <2>2. pc' \in {"startup", "seek"} => Start \/ (\E p \in Partitions : FirstMessage(p))
           \/ (broker' = broker /\ (pc' = pc \/ (pc = "startup" /\ pc' = "seek")))
    BY StartingSteps
  <2>3. CASE pc' \in {"startup", "seek"} /\ broker' = broker /\ (pc' = pc \/ (pc = "startup" /\ pc' = "seek"))
    <3>1. \A p \in Partitions : GroupOffset(p)' = GroupOffset(p)
      BY <2>3 DEF GroupOffset
    <3>2. \A p \in Partitions : GroupOffset(p) \in Nat
      BY GroupOffsets
    <3>3. \A p \in Partitions : fetch[p] = GroupOffset(p) => fetch[p] >= GroupOffset(p)
      BY <3>2
    <3> QED
      BY <2>1, <2>3, <3>1, <3>3 DEF Following
  <2>4. CASE pc' \notin {"startup", "seek"}
    BY <2>1, <2>4 DEF Following
  <2> QED
    BY <1>1, <1>2, <2>2, <2>3, <2>4
<1> QED
  BY <1>1, <1>2, <1>3, <1>4, <1>5, <1>6, ReadSteps

-----------------------------------------------------------------------------
(* The rows the start-up wait dropped.                                      *)

(* A commit puts the recorded offsets over the old ones.                     *)
LEMMA OverAt ==
    ASSUME NEW q, NEW p \in Partitions
    PROVE  Over(q)[p] = IF ToCommit[p] # NoOffset THEN ToCommit[p] ELSE q[p]
  BY DEF Over

(* A dropped row is remembered when the start-up wait takes it.              *)
LEMMA FirstMessageDropped ==
    ASSUME TypeOK, Following, Dropped, NEW q \in Partitions, FirstMessage(q) PROVE Dropped'
<1>1. /\ pc = "startup" /\ pc' = "seek" /\ probed' = probed \cup {<<q, fetch[q] + 1>>}
      /\ UNCHANGED <<broker, saved>>
  BY DEF FirstMessage, storeVars
<1>2. fetch[q] = GroupOffset(q)
  BY <1>1 DEF Following
<1>3. \A p \in Partitions : GroupOffset(p)' = GroupOffset(p)
  BY <1>1 DEF GroupOffset
<1>4. Sought' = Sought
  BY <1>1 DEF Sought, Saved
<1>5. ~ Running'
  BY <1>1 DEF Running
<1>6. ASSUME NEW p \in Partitions, NEW r \in Rows, <<p, r>> \in probed'
      PROVE  r <= GroupOffset(p) + 1 /\ (p \in Sought => r <= saved[p] \/ r > broker[p])
  <2>1. CASE <<p, r>> \in probed
    BY <2>1 DEF Dropped
  <2>2. CASE p = q /\ r = fetch[q] + 1
    BY <1>2, <2>2, GroupOffsets
  <2> QED
    BY <1>1, <1>6, <2>1, <2>2
<1> QED
  BY <1>1, <1>3, <1>4, <1>5, <1>6 DEF Dropped

(* The seek brings back the rows ahead of it, and none behind.               *)
LEMMA SeekDropped ==
    ASSUME TypeOK, Shape, Following, Dropped, Seek PROVE Dropped'
<1>1. /\ pc = "seek" /\ pc' = "top" /\ UNCHANGED <<broker, saved, snapshots>>
      /\ fetch' = [p \in Partitions |->
                       IF p \notin Sought THEN fetch[p]
                       ELSE IF p \in Saved THEN saved[p] ELSE 0]
      /\ position' = [p \in Partitions |-> IF p \in Sought THEN NoOffset ELSE position[p]]
      /\ probed' = {x \in probed : x[1] \notin Sought \/ x[2] <= fetch'[x[1]]}
  BY DEF Seek, storeVars
<1>2. \A p \in Partitions : GroupOffset(p)' = GroupOffset(p)
  BY <1>1 DEF GroupOffset
<1>3. Sought' = Sought
  BY <1>1 DEF Sought, Saved
<1>4. snapshots = [e \in Epochs |-> NoPosition]
  BY <1>1 DEF Shape, Starting
<1> SUFFICES ASSUME NEW p \in Partitions, NEW r \in Rows, <<p, r>> \in probed'
             PROVE  /\ r <= GroupOffset(p) + 1
                    /\ p \in Sought => r <= saved[p]
                    /\ r <= fetch'[p] + 1
                    /\ position'[p] # NoOffset => r <= position'[p]
                    /\ \A e \in Epochs : snapshots[e][p] = NoOffset
  BY <1>1, <1>2, <1>3 DEF Dropped
<1>5. <<p, r>> \in probed /\ (p \notin Sought \/ r <= fetch'[p])
  BY <1>1
<1>6. r <= GroupOffset(p) + 1 /\ r \in Nat \ {0} /\ GroupOffset(p) \in Nat
  BY <1>5, GroupOffsets, Nums DEF Dropped
<1>7. \A e \in Epochs : snapshots[e][p] = NoOffset
  BY <1>4 DEF NoPosition
<1>8. CASE p \in Sought
  <2>1. position'[p] = NoOffset /\ r <= fetch'[p] /\ fetch'[p] = IF p \in Saved THEN saved[p] ELSE 0
    BY <1>1, <1>5, <1>8
  <2>2. saved[p] \in -1 .. MaxRow
    BY GroupOffsets
  <2> QED
    BY <1>6, <1>7, <2>1, <2>2, Nums
<1>9. CASE p \notin Sought
  <2>1. fetch'[p] = fetch[p] /\ position'[p] = position[p]
    BY <1>1, <1>9
  <2>2. fetch[p] >= GroupOffset(p) /\ (position[p] # NoOffset => position[p] > GroupOffset(p))
    BY <1>1 DEF Following
  <2>3. fetch[p] \in 0 .. MaxRow /\ position[p] \in -1 .. MaxRow
    BY GroupOffsets
  <2> QED
    BY <1>6, <1>7, <1>9, <2>1, <2>2, <2>3, Nums
<1> QED
  BY <1>8, <1>9

(* Commits and rebalances go no further back than a dropped row.             *)
LEMMA NextDropped ==
    TypeOK /\ Shape /\ Following /\ Dropped /\ [Next]_vars => Dropped'
<1> SUFFICES ASSUME TypeOK, Shape, Following, Dropped, [Next]_vars PROVE Dropped'
  OBVIOUS
<1>1. ASSUME NEW q \in Partitions, FirstMessage(q) PROVE Dropped'
  BY <1>1, FirstMessageDropped
<1>2. CASE Seek
  BY <1>2, SeekDropped
<1>3. CASE ~ Seek /\ ~ \E q \in Partitions : FirstMessage(q)
  <2>1. probed' = probed
    BY <1>3, ReadSteps DEF Start, TakeAny, TakeBatch, Rebalance, readVars
  <2> SUFFICES ASSUME NEW p \in Partitions, NEW r \in Rows, <<p, r>> \in probed
               PROVE  /\ r <= GroupOffset(p)' + 1
                      /\ p \in Sought' => r <= saved'[p] \/ r > broker'[p]
                      /\ Running' => /\ p \in Sought' => r <= saved'[p]
                                     /\ r <= fetch'[p] + 1
                                     /\ position'[p] # NoOffset => r <= position'[p]
                                     /\ \A e \in Epochs : snapshots'[e][p] # NoOffset =>
                                                              r <= snapshots'[e][p]
    BY <2>1 DEF Dropped
  <2>2. /\ r <= GroupOffset(p) + 1 /\ (p \in Sought => r <= saved[p] \/ r > broker[p])
        /\ r \in Nat \ {0}
    BY Nums DEF Dropped
  <2>3. Running => /\ p \in Sought => r <= saved[p]
                   /\ r <= fetch[p] + 1
                   /\ position[p] # NoOffset => r <= position[p]
                   /\ \A e \in Epochs : snapshots[e][p] # NoOffset => r <= snapshots[e][p]
    BY DEF Dropped
  <2>4. Running' => Running
    BY <1>3, RunningSteps
  <2>5. CommitBroker \/ CommitState => Running /\ (ToCommit[p] # NoOffset => r <= ToCommit[p])
    <3> SUFFICES ASSUME CommitBroker \/ CommitState
                 PROVE  Running /\ (ToCommit[p] # NoOffset => r <= ToCommit[p])
      OBVIOUS
    <3>1. Running /\ Committing \in Epochs
      BY CommittingIsEpoch DEF CommitBroker, CommitState, CommitBegins, Running
    <3> QED
      BY <2>3, <3>1 DEF ToCommit
  <2>6. r <= GroupOffset(p)' + 1
    <3>1. CASE broker' = broker
      BY <2>2, <3>1 DEF GroupOffset
    <3>2. CASE CommitBroker
      <4>1. broker'[p] = IF ToCommit[p] # NoOffset THEN ToCommit[p] ELSE broker[p]
        BY <3>2, OverAt DEF CommitBroker
      <4>2. CASE ToCommit[p] # NoOffset
        <5>1. ToCommit[p] \in -1 .. MaxRow
          BY <3>2, CommittingIsEpoch, PositionFacts DEF CommitBroker, ToCommit, TypeOK
        <5> QED
          BY <2>2, <2>5, <3>2, <4>1, <4>2, <5>1, Nums DEF GroupOffset
      <4>3. CASE ToCommit[p] = NoOffset
        BY <2>2, <4>1, <4>3 DEF GroupOffset
      <4> QED
        BY <4>2, <4>3
    <3> QED
      BY <3>1, <3>2, StoreSteps
  <2>7. Running => (p \in Sought' => r <= saved'[p])
    <3>1. CASE saved' = saved
      BY <2>3, <3>1 DEF Sought, Saved
    <3>2. CASE CommitState
      <4>1. \A x \in Partitions : saved'[x] = IF ToCommit[x] # NoOffset THEN ToCommit[x] ELSE saved[x]
        BY <3>2, OverAt DEF CommitState
      <4>2. CASE ToCommit[p] # NoOffset
        BY <2>5, <3>2, <4>1, <4>2
      <4>3. CASE ToCommit[p] = NoOffset
        <5>1. saved'[p] = saved[p] /\ Saved \subseteq Saved'
          BY <4>1, <4>3 DEF Saved
        <5>2. p \in Sought' => p \in Sought
          BY <5>1 DEF Sought, Saved
        <5> QED
          BY <2>3, <5>1, <5>2
      <4> QED
        BY <4>2, <4>3
    <3> QED
      BY <3>1, <3>2, StoreSteps
  <2>8. p \in Sought' => r <= saved'[p] \/ r > broker'[p]
    <3>1. CASE Running
      BY <2>7, <3>1
    <3>2. CASE ~ Running
      <4>1. saved' = saved /\ broker' = broker
        BY <2>5, <3>2, StoreSteps
      <4> QED
        BY <2>2, <4>1 DEF Sought, Saved
    <3> QED
      BY <3>1, <3>2
  <2>9. Running => r <= fetch'[p] + 1 /\ (position'[p] # NoOffset => r <= position'[p])
    <3> SUFFICES ASSUME Running
                 PROVE  r <= fetch'[p] + 1 /\ (position'[p] # NoOffset => r <= position'[p])
      OBVIOUS
    <3>1. CASE Start \/ Rebalance
      BY <2>2, <3>1 DEF Start, Rebalance, NoPosition
    <3>2. CASE TakeAny
      <4>1. PICK to \in [Partitions -> Offsets] : TakeBatch(to)
        BY <3>2 DEF TakeAny
      <4>2. /\ fetch'[p] = to[p] /\ fetch[p] <= to[p]
            /\ position'[p] = IF to[p] > fetch[p] THEN to[p] ELSE position[p]
        BY <4>1 DEF TakeBatch
      <4>3. to[p] \in Nat /\ fetch[p] \in Nat
        BY GroupOffsets, Nums
      <4> QED
        BY <2>2, <2>3, <4>2, <4>3
    <3>3. CASE UNCHANGED readVars
      BY <2>3, <3>3 DEF readVars
    <3> QED
      BY <1>3, <3>1, <3>2, <3>3, ReadSteps
  <2>10. ASSUME Running, NEW e \in Epochs, snapshots'[e][p] # NoOffset
         PROVE  r <= snapshots'[e][p]
    <3>1. snapshots \in [Epochs -> Position] /\ NoPosition[p] = NoOffset
      BY DEF TypeOK, NoPosition
    <3>2. snapshots'[e] = snapshots[e] \/ snapshots'[e] = NoPosition \/ snapshots'[e] = position
      <4>1. CASE Start \/ Crash
        BY <4>1, Forgets
      <4>2. CASE TakeMarker \/ Terminal
        BY <3>1, <4>2 DEF TakeMarker, Terminal
      <4>3. CASE CommitSkip \/ BrokerFails \/ CommitState
        BY <3>1, <4>3 DEF CommitSkip, BrokerFails, CommitState, CommitOver
      <4>4. CASE UNCHANGED commitVars
        BY <4>4 DEF commitVars
      <4> QED
        BY <1>3, <4>1, <4>2, <4>3, <4>4, CommitSteps
    <3> QED
      BY <2>3, <2>10, <3>1, <3>2
  <2> QED
    BY <2>4, <2>6, <2>7, <2>8, <2>9, <2>10
<1> QED
  BY <1>1, <1>2, <1>3

-----------------------------------------------------------------------------
(* What is settled and what is on its way.                                  *)

(* Nothing is behind no position, and a larger set still covers one.       *)
LEMMA BehindFacts ==
    /\ \A q, S, T : S \subseteq T /\ Behind(q, S) => Behind(q, T)
    /\ \A S : Behind(NoPosition, S)
  BY PositionFacts DEF Behind

(* Only the seek takes a row back from the dropped ones, one that it reads   *)
(* again.                                                                    *)
LEMMA SettledGrows == [Next]_vars => Seek \/ Settled \subseteq Settled'
<1> SUFFICES ASSUME [Next]_vars, ~ Seek PROVE Settled \subseteq Settled'
  OBVIOUS
<1>1. written \subseteq written'
  BY StoreSteps DEF SinkWrite
<1>2. probed \subseteq probed'
  BY ReadSteps DEF Start, FirstMessage, TakeAny, TakeBatch, Rebalance, readVars
<1> QED
  BY <1>1, <1>2 DEF Settled

(* The rows on their way move towards the sink, and are lost only with it.   *)
LEMMA OnTheWayMoves ==
    ASSUME TypeOK, Shape
    PROVE  /\ Send => OnTheWay' = OnTheWay
           /\ Terminal /\ ~ gone => OnTheWay' = OnTheWay
           /\ SinkWrite => Settled' = Settled \cup Head(pipe).rows /\ OnTheWay \subseteq Head(pipe).rows \cup OnTheWay'
           /\ UNCHANGED <<batch, pipe>> => OnTheWay' = OnTheWay
<1>0. pipe \in Seq(Batches) /\ batch \in Batches
  BY DEF TypeOK
<1>1. ASSUME Send PROVE OnTheWay' = OnTheWay
  <2>1. pipe' = Append(pipe, batch) /\ batch'.rows = {}
    BY <1>1, BatchFacts DEF Send
  <2>2. RowsUpTo(pipe', Len(pipe')) = RowsUpTo(pipe, Len(pipe)) \cup batch.rows
    BY <1>0, <2>1, OfAppend
  <2> QED
    BY <2>1, <2>2 DEF OnTheWay
<1>2. ASSUME Terminal, ~ gone PROVE OnTheWay' = OnTheWay
  <2> DEFINE b == [rows |-> {}, markers |-> buffer \cup {epoch + 1}]
  <2>1. pipe' = Append(pipe, b) /\ batch' = batch
    BY <1>2 DEF Terminal
  <2>2. epoch + 1 \in Epochs
    BY <1>2, Nums DEF Terminal, Shape, TypeOK
  <2>3. b \in Batches /\ b.rows = {}
    BY <2>2, BatchFacts DEF TypeOK
  <2> HIDE DEF b
  <2>4. RowsUpTo(pipe', Len(pipe')) = RowsUpTo(pipe, Len(pipe)) \cup b.rows
    <3>1. /\ Len(Append(pipe, b)) = Len(pipe) + 1
          /\ RowsUpTo(Append(pipe, b), Len(pipe) + 1) = RowsUpTo(pipe, Len(pipe)) \cup b.rows
      BY <1>0, <2>3, OfAppend
    <3> QED
      BY <2>1, <3>1
  <2> QED
    BY <2>1, <2>3, <2>4 DEF OnTheWay
<1>3. ASSUME SinkWrite
      PROVE  Settled' = Settled \cup Head(pipe).rows /\ OnTheWay \subseteq Head(pipe).rows \cup OnTheWay'
  <2>1. /\ pipe # <<>> /\ pipe' = Tail(pipe) /\ batch' = batch /\ probed' = probed
        /\ written' = written \cup Head(pipe).rows
    BY <1>3 DEF SinkWrite, readVars
  <2>2. Len(pipe) \in Nat \ {0} /\ Len(pipe') = Len(pipe) - 1
    BY <1>0, <2>1, OfTail
  <2>3. Len(pipe) - 1 \in 0 .. Len(pipe) - 1 /\ (Len(pipe) - 1) + 1 = Len(pipe)
    BY <2>2
  <2>4. RowsUpTo(pipe, (Len(pipe) - 1) + 1) = Head(pipe).rows \cup RowsUpTo(Tail(pipe), Len(pipe) - 1)
    BY <1>0, <2>1, <2>3, OfTail
  <2>5. RowsUpTo(pipe, Len(pipe)) = Head(pipe).rows \cup RowsUpTo(pipe', Len(pipe'))
    BY <2>1, <2>2, <2>3, <2>4
  <2> QED
    BY <2>1, <2>5 DEF OnTheWay, Settled
<1>4. ASSUME UNCHANGED <<batch, pipe>> PROVE OnTheWay' = OnTheWay
  BY <1>4 DEF OnTheWay
<1> QED
  BY <1>1, <1>2, <1>3, <1>4

(* The offsets the source would resume from.                                 *)
LEMMA NextResumes == SourceInv /\ [Next]_vars => Resumes'
<1> SUFFICES ASSUME SourceInv, [Next]_vars PROVE Resumes'
  OBVIOUS
<1> USE DEF SourceInv
<1>1. CASE Seek
  <2>1. /\ UNCHANGED <<broker, saved, written>>
        /\ fetch' = [p \in Partitions |->
                       IF p \notin Sought THEN fetch[p]
                       ELSE IF p \in Saved THEN saved[p] ELSE 0]
        /\ probed' = {x \in probed : x[1] \notin Sought \/ x[2] <= fetch'[x[1]]}
    BY <1>1 DEF Seek, storeVars
  <2>2. ASSUME NEW p \in Partitions, NEW r \in Nat \ {0}, <<p, r>> \in Settled, r <= saved[p]
        PROVE  <<p, r>> \in Settled'
    <3>1. saved[p] # NoOffset /\ p \in Saved /\ saved[p] \in Int
      BY <2>2, GroupOffsets, Nums DEF Saved
    <3>2. p \in Sought /\ fetch'[p] = saved[p]
      BY <2>1, <3>1 DEF Sought
    <3> QED
      BY <2>1, <2>2, <3>2 DEF Settled
  <2>3. ASSUME NEW p \in Partitions, NEW r \in Nat \ {0}, <<p, r>> \in Settled, r <= broker[p]
        PROVE  <<p, r>> \in Settled'
    <3>1. CASE <<p, r>> \in written
      BY <2>1, <3>1 DEF Settled
    <3>2. CASE <<p, r>> \in probed /\ p \notin Sought
      BY <2>1, <3>2 DEF Settled
    <3>3. CASE <<p, r>> \in probed /\ p \in Sought
      <4>1. r \in Rows
        BY <3>3 DEF TypeOK
      <4>2. r <= saved[p] \/ r > broker[p]
        BY <3>3, <4>1 DEF Dropped
      <4>3. broker[p] \in Int
        BY GroupOffsets
      <4> QED
        BY <2>2, <2>3, <4>2, <4>3
    <3> QED
      BY <2>3, <3>1, <3>2, <3>3 DEF Settled
  <2>4. \A p \in Partitions : broker[p] \in Int /\ saved[p] \in Int
    BY GroupOffsets
  <2> QED
    BY <2>1, <2>2, <2>3, <2>4 DEF Resumes, Behind
<1>2. CASE ~ Seek
  <2>1. Settled \subseteq Settled'
    BY <1>2, SettledGrows
  <2>2. Behind(broker, Settled') /\ Behind(saved, Settled')
    BY <2>1, BehindFacts DEF Resumes
  <2>3. CommitBroker \/ CommitState => Behind(ToCommit, Settled')
    <3> SUFFICES ASSUME CommitBroker \/ CommitState PROVE Behind(ToCommit, Settled')
      OBVIOUS
    <3>1. Committing \in acked
      <4>1. CASE terminal # NoEpoch
        BY <4>1 DEF CommitBroker, CommitState, CommitBegins, Shape, Committing
      <4>2. CASE terminal = NoEpoch
        <5>1. todo # <<>> /\ Head(todo).kind = "Finalizer"
          BY <4>2 DEF CommitBroker, CommitState, CommitBegins, Shape
        <5>2. Head(todo) = todo[1] /\ 1 \in 1 .. Len(todo)
          BY <5>1 DEF TypeOK
        <5> QED
          BY <4>2, <5>1, <5>2 DEF Mail, FreshIn, Committing
      <4> QED
        BY <4>1, <4>2
    <3>2. Behind(ToCommit, Settled)
      BY <3>1 DEF Recorded, ToCommit
    <3> QED
      BY <2>1, <3>2, BehindFacts
  <2>4. Behind(broker', Settled')
    <3>1. CASE CommitBroker
      <4>1. \A p \in Partitions : broker'[p] = ToCommit[p] \/ broker'[p] = broker[p]
        BY <3>1, OverAt DEF CommitBroker
      <4> QED
        BY <2>2, <2>3, <3>1, <4>1 DEF Behind
    <3> QED
      BY <2>2, <3>1, StoreSteps
  <2>5. Behind(saved', Settled')
    <3>1. CASE CommitState
      <4>1. \A p \in Partitions : saved'[p] = ToCommit[p] \/ saved'[p] = saved[p]
        BY <3>1, OverAt DEF CommitState
      <4> QED
        BY <2>2, <2>3, <3>1, <4>1 DEF Behind
    <3> QED
      BY <2>2, <3>1, StoreSteps
  <2> QED
    BY <2>4, <2>5 DEF Resumes
<1> QED
  BY <1>1, <1>2

(* While the sink is there and the process lives, no row on its way is lost. *)
LEMMA WayKept ==
    ASSUME SourceInv, [Next]_vars, ~ Seek, ~ Start, ~ Crash, ~ gone'
    PROVE  ~ gone /\ Settled \cup OnTheWay \subseteq Settled' \cup OnTheWay'
<1> USE DEF SourceInv
<1>1. Settled \subseteq Settled'
  BY SettledGrows
<1>2. CASE TakeAny
  <2>1. gone' = gone /\ pipe' = pipe /\ batch = EmptyBatch
    BY <1>2 DEF TakeAny, TakeBatch, Shape, streamVars
  <2> QED
    BY <1>1, <2>1, BatchFacts DEF OnTheWay
<1>3. CASE TakeMarker
  <2>1. gone' = gone /\ UNCHANGED <<batch, pipe>>
    BY <1>3 DEF TakeMarker, streamVars
  <2> QED
    BY <1>1, <2>1, OnTheWayMoves
<1>4. CASE Send \/ Terminal
  <2>1. gone' = gone
    BY <1>4 DEF Send, Terminal
  <2> QED
    BY <1>1, <1>4, <2>1, OnTheWayMoves
<1>5. CASE SinkWrite
  <2>1. gone' = gone
    BY <1>5 DEF SinkWrite
  <2> QED
    BY <1>5, <2>1, OnTheWayMoves
<1>6. CASE SinkFails
  BY <1>6 DEF SinkFails
<1>7. CASE UNCHANGED <<batch, buffer, pipe, gone, acked>>
  BY <1>1, <1>7, OnTheWayMoves
<1> QED
  BY <1>2, <1>3, <1>4, <1>5, <1>6, <1>7, StreamSteps

(* Nothing but a start brings a process up.                                  *)
LEMMA UpSteps == [Next]_vars /\ pc' # "down" => Start \/ pc # "down"
<1> SUFFICES ASSUME [Next]_vars, pc' # "down", ~ Start PROVE pc # "down"
  OBVIOUS
<1>1. CASE UNCHANGED vars
  BY <1>1 DEF vars
<1>2. CASE StartUp \/ Loop
  BY <1>2 DEF StartUp, Loop, Assigned, FirstMessage, StartupShutdown, Seek, TakeAny, TakeBatch,
              TakeMarker, Send, SendFails, Terminal
<1>3. CASE Commit \/ Rebalance \/ AwaitTimeout
  BY <1>3 DEF Commit, CommitSkip, CommitBroker, BrokerFails, CommitState, StateFails, CommitBegins,
              Rebalance, AwaitTimeout
<1>4. CASE (\E p \in Partitions : Produce(p)) \/ MintEpoch \/ CloseEpoch \/ SinkWrite
  BY <1>4 DEF Produce, MintEpoch, CloseEpoch, SinkWrite, Subscribed, Up
<1>5. CASE SinkFails \/ RequestShutdown \/ Crash
  BY <1>5 DEF SinkFails, RequestShutdown, Crash, Subscribed
<1> QED
  BY <1>1, <1>2, <1>3, <1>4, <1>5 DEF Next

(* The rows the consumer has passed.                                         *)
LEMMA NextFetched == SourceInv /\ [Next]_vars => Fetched'
<1> SUFFICES ASSUME SourceInv, [Next]_vars, ~ gone', pc' # "down"
             PROVE  Behind(fetch', Settled' \cup OnTheWay')
  BY DEF Fetched
<1> USE DEF SourceInv
<1>r. Behind(broker', Settled') /\ Behind(saved', Settled')
  BY NextResumes DEF Resumes
<1>1. CASE Start \/ Rebalance
  <2>1. \A p \in Partitions : fetch'[p] = GroupOffset(p)
    BY <1>1 DEF Start, Rebalance
  <2>2. broker' = broker
    BY <1>1 DEF Start, Rebalance, storeVars
  <2>3. \A p \in Partitions : \A r \in 1 .. GroupOffset(p) : r \in 1 .. broker[p]
    BY GroupOffsets, Nums DEF GroupOffset
  <2> QED
    BY <1>r, <2>1, <2>2, <2>3 DEF Behind
<1>2. CASE ~ (Start \/ Rebalance)
  <2>1. pc # "down" /\ ~ Crash
    BY <1>2, UpSteps DEF Crash
  <2>2. CASE Seek
    <3>1. /\ UNCHANGED <<written, saved, gone>> /\ pc = "seek"
          /\ fetch' = [p \in Partitions |->
                         IF p \notin Sought THEN fetch[p]
                         ELSE IF p \in Saved THEN saved[p] ELSE 0]
          /\ probed' = {x \in probed : x[1] \notin Sought \/ x[2] <= fetch'[x[1]]}
      BY <2>2 DEF Seek, storeVars, streamVars
    <3>2. OnTheWay = {}
      <4>1. pipe = <<>> /\ batch = EmptyBatch
        BY <3>1 DEF Shape, Starting
      <4> QED
        BY <4>1, OfEmpty, BatchFacts DEF OnTheWay
    <3>3. Behind(fetch, Settled)
      BY <3>1, <3>2, BehindFacts DEF Fetched
    <3>4. ASSUME NEW p \in Partitions, NEW r \in 1 .. fetch'[p] PROVE <<p, r>> \in Settled'
      <4>1. CASE p \notin Sought
        <5>1. <<p, r>> \in Settled
          BY <3>1, <3>3, <4>1 DEF Behind
        <5> QED
          BY <3>1, <4>1, <5>1 DEF Settled
      <4>2. CASE p \in Sought /\ p \in Saved
        BY <1>r, <3>1, <4>2 DEF Behind
      <4>3. CASE p \in Sought /\ p \notin Saved
        BY <3>1, <4>3
      <4> QED
        BY <4>1, <4>2, <4>3
    <3> QED
      BY <3>4 DEF Behind
  <2>3. CASE ~ Seek
    <3>1. ~ gone /\ Settled \cup OnTheWay \subseteq Settled' \cup OnTheWay'
      BY <1>2, <2>1, <2>3, WayKept
    <3>2. Behind(fetch, Settled' \cup OnTheWay')
      BY <2>1, <3>1, BehindFacts DEF Fetched
    <3>3. ASSUME NEW q \in Partitions, FirstMessage(q) PROVE Behind(fetch', Settled' \cup OnTheWay')
      <4>1. /\ fetch' = [fetch EXCEPT ![q] = @ + 1] /\ <<q, fetch[q] + 1>> \in probed'
        BY <3>3 DEF FirstMessage
      <4>2. \A p \in Partitions : fetch[p] \in Nat /\ fetch'[p] = IF p = q THEN fetch[p] + 1 ELSE fetch[p]
        BY <4>1, GroupOffsets DEF TypeOK
      <4>3. \A p \in Partitions : \A r \in 1 .. fetch'[p] : r \in 1 .. fetch[p] \/ (p = q /\ r = fetch[q] + 1)
        BY <4>2
      <4> QED
        BY <3>2, <4>1, <4>3 DEF Behind, Settled
    <3>4. CASE TakeAny
      <4>1. PICK to \in [Partitions -> Offsets] : TakeBatch(to)
        BY <3>4 DEF TakeAny
      <4>2. fetch' = to /\ batch'.rows = UNION {Between(p, fetch[p], to[p]) : p \in Partitions}
        BY <4>1 DEF TakeBatch
      <4>3. ASSUME NEW p \in Partitions, NEW r \in 1 .. to[p]
            PROVE  r \in 1 .. fetch[p] \/ <<p, r>> \in batch'.rows
        <5>1. fetch[p] \in Nat /\ to[p] \in Nat
          BY GroupOffsets, Nums
        <5>2. r \in 1 .. fetch[p] \/ r \in fetch[p] + 1 .. to[p]
          BY <5>1
        <5>3. r \in fetch[p] + 1 .. to[p] => <<p, r>> \in Between(p, fetch[p], to[p])
          BY DEF Between
        <5> QED
          BY <4>2, <5>2, <5>3
      <4> QED
        BY <3>2, <4>2, <4>3 DEF Behind, OnTheWay
    <3>5. CASE UNCHANGED readVars
      BY <3>2, <3>5 DEF readVars
    <3> QED
      BY <1>2, <2>3, <3>3, <3>4, <3>5, ReadSteps
  <2> QED
    BY <2>2, <2>3
<1> QED
  BY <1>1, <1>2

(* What was recorded for an epoch whose Marker was taken is not overwritten. *)
LEMMA SnapshotsKept ==
    ASSUME SourceInv, [Next]_vars, NEW e \in Taken
    PROVE  snapshots'[e] = snapshots[e] \/ snapshots'[e] = NoPosition
<1> USE DEF SourceInv
<1>0. snapshots \in [Epochs -> Position] /\ Taken \subseteq 1 .. epoch /\ epoch \in Nat
  BY Nums DEF TypeOK, Mail
<1>e. e \in Epochs
  BY <1>0, Nums DEF TypeOK
<1>1. CASE Start \/ Crash
  BY <1>1, <1>e, Forgets
<1>2. CASE Seek
  BY <1>2 DEF Seek
<1>3. CASE TakeMarker
  <2>1. pc = "dispatch" /\ todo # <<>> /\ Head(todo).kind = "Marker"
    BY <1>3 DEF TakeMarker
  <2>2. Head(todo) = todo[1] /\ 1 \in 1 .. Len(todo) /\ terminal = NoEpoch
    BY <2>1 DEF TypeOK, Shape
  <2>3. Head(todo).epoch \notin Taken
    BY <2>1, <2>2 DEF Mail, FreshIn
  <2> QED
    BY <1>0, <1>3, <1>e, <2>3 DEF TakeMarker
<1>4. CASE Terminal
  <2>1. e # epoch + 1
    BY <1>0
  <2> QED
    BY <1>0, <1>4, <1>e, <2>1 DEF Terminal
<1>5. CASE CommitSkip \/ BrokerFails \/ CommitState
  BY <1>0, <1>5, <1>e DEF CommitSkip, BrokerFails, CommitState, CommitOver
<1>6. CASE UNCHANGED commitVars
  BY <1>6 DEF commitVars
<1> QED
  BY <1>1, <1>2, <1>3, <1>4, <1>5, <1>6, CommitSteps

(* The positions recorded for the epochs.                                    *)
LEMMA NextRecorded == SourceInv /\ [Next]_vars => Recorded'
<1> SUFFICES ASSUME SourceInv, [Next]_vars PROVE Recorded'
  OBVIOUS
<1> USE DEF SourceInv
<1>0. pipe \in Seq(Batches) /\ batch \in Batches /\ Len(pipe) \in Nat
  BY DEF TypeOK
<1>1. CASE Start \/ Crash
  <2>1. batch' = EmptyBatch /\ buffer' = {} /\ pipe' = <<>> /\ acked' = {}
    BY <1>1, Forgets
  <2> QED
    BY <2>1, BatchFacts DEF Recorded
<1>2. CASE Seek
  <2>1. /\ pc = "seek" /\ UNCHANGED <<batch, buffer, pipe, acked>>
    BY <1>2 DEF Seek, streamVars
  <2>2. batch = EmptyBatch /\ buffer = {} /\ pipe = <<>> /\ acked = {}
    BY <2>1 DEF Shape, Starting
  <2> QED
    BY <2>1, <2>2, BatchFacts DEF Recorded
<1>3. CASE ~ Start /\ ~ Crash /\ ~ Seek
  <2>1. Settled \subseteq Settled'
    BY <1>3, SettledGrows
  <2>2. ~ gone' => ~ gone /\ Settled \cup OnTheWay \subseteq Settled' \cup OnTheWay'
    BY <1>3, WayKept
  <2>3. \A e \in Taken : \A S : Behind(snapshots[e], S) => Behind(snapshots'[e], S)
    BY SnapshotsKept, BehindFacts
  <2>4. ~ gone' => \A e \in buffer \cup batch.markers :
                       Behind(snapshots'[e], Settled' \cup OnTheWay')
    <3> SUFFICES ASSUME ~ gone', NEW e \in buffer \cup batch.markers
                 PROVE  Behind(snapshots'[e], Settled' \cup OnTheWay')
      OBVIOUS
    <3>1. e \in Taken /\ Behind(snapshots[e], Settled \cup OnTheWay)
      BY <2>2 DEF Recorded, Taken
    <3> QED
      BY <2>2, <2>3, <3>1, BehindFacts
  <2>5. \A k \in 1 .. Len(pipe) : \A e \in pipe[k].markers :
            Behind(snapshots'[e], Settled' \cup RowsUpTo(pipe, k))
    <3> SUFFICES ASSUME NEW k \in 1 .. Len(pipe), NEW e \in pipe[k].markers
                 PROVE  Behind(snapshots'[e], Settled' \cup RowsUpTo(pipe, k))
      OBVIOUS
    <3>1. e \in Taken
      BY DEF Taken, MarkersOf
    <3>2. Behind(snapshots[e], Settled \cup RowsUpTo(pipe, k))
      BY DEF Recorded
    <3>3. Settled \cup RowsUpTo(pipe, k) \subseteq Settled' \cup RowsUpTo(pipe, k)
      BY <2>1
    <3> QED
      BY <2>3, <3>1, <3>2, <3>3, BehindFacts
  <2>6. \A e \in acked : Behind(snapshots'[e], Settled')
    <3> SUFFICES ASSUME NEW e \in acked PROVE Behind(snapshots'[e], Settled')
      OBVIOUS
    <3>1. e \in Taken /\ Behind(snapshots[e], Settled)
      BY DEF Recorded, Taken
    <3> QED
      BY <2>1, <2>3, <3>1, BehindFacts
  <2>7. CASE TakeAny
    <3>1. buffer' = {} /\ batch'.markers = buffer /\ UNCHANGED <<pipe, acked>>
      BY <2>7 DEF TakeAny, TakeBatch, streamVars
    <3> QED
      BY <2>4, <2>5, <2>6, <3>1 DEF Recorded
  <2>8. CASE TakeMarker
    <3> DEFINE m == Head(todo).epoch
    <3>1. /\ pc = "dispatch" /\ buffer' = buffer \cup {m} /\ UNCHANGED <<pc, pipe, batch, gone, acked>>
          /\ todo # <<>> /\ Head(todo).kind = "Marker"
          /\ snapshots' = [snapshots EXCEPT ![m] = position] \/ snapshots' = snapshots
      BY <2>8 DEF TakeMarker, streamVars
    <3>2. Head(todo) = todo[1] /\ 1 \in 1 .. Len(todo) /\ Head(todo) \in Messages /\ terminal = NoEpoch
      BY <3>1 DEF TypeOK, Shape
    <3>3. m \notin Taken /\ m \in Epochs
      BY <3>1, <3>2, MessageFacts DEF Mail, FreshIn
    <3> HIDE DEF m
    <3>4. ~ gone' => Behind(snapshots'[m], Settled' \cup OnTheWay')
      <4> SUFFICES ASSUME ~ gone' PROVE Behind(snapshots'[m], Settled' \cup OnTheWay')
        OBVIOUS
      <4>1. snapshots'[m] = position \/ snapshots'[m] = NoPosition
        BY <2>2, <3>1, <3>3 DEF TypeOK, Mail
      <4>2. Behind(fetch, Settled' \cup OnTheWay')
        BY <2>2, <3>1, BehindFacts DEF Fetched
      <4>3. Behind(position, Settled' \cup OnTheWay')
        <5>1. \A p \in Partitions : position[p] = -1 \/ position[p] = fetch[p]
          BY Nums DEF Following
        <5>2. \A p \in Partitions : \A r \in 1 .. position[p] : r \in 1 .. fetch[p]
          BY <5>1
        <5> QED
          BY <4>2, <5>2 DEF Behind
      <4> QED
        BY <4>1, <4>3, BehindFacts
    <3> QED
      BY <2>4, <2>5, <2>6, <3>1, <3>4 DEF Recorded
  <2>9. CASE Send
    <3>1. /\ pipe' = Append(pipe, batch) /\ batch' = EmptyBatch /\ ~ gone' /\ UNCHANGED <<buffer, acked>>
          /\ OnTheWay' = OnTheWay
      BY <2>9, OnTheWayMoves DEF Send
    <3>2. /\ Len(pipe') = Len(pipe) + 1 /\ pipe'[Len(pipe) + 1] = batch
          /\ \A k \in 1 .. Len(pipe) : pipe'[k] = pipe[k] /\ RowsUpTo(pipe', k) = RowsUpTo(pipe, k)
          /\ RowsUpTo(pipe', Len(pipe) + 1) = RowsUpTo(pipe, Len(pipe)) \cup batch.rows
      BY <1>0, <3>1, OfAppend
    <3>3. ASSUME NEW k \in 1 .. Len(pipe'), NEW e \in pipe'[k].markers
          PROVE  Behind(snapshots'[e], Settled' \cup RowsUpTo(pipe', k))
      <4>1. CASE k \in 1 .. Len(pipe)
        BY <2>5, <3>2, <3>3, <4>1
      <4>2. CASE k = Len(pipe) + 1
        <5>1. e \in batch.markers /\ RowsUpTo(pipe', k) = OnTheWay
          BY <3>2, <3>3, <4>2 DEF OnTheWay
        <5> QED
          BY <2>4, <3>1, <5>1
      <4>3. k \in 1 .. Len(pipe) \/ k = Len(pipe) + 1
        BY <1>0, <3>2
      <4> QED
        BY <4>1, <4>2, <4>3
    <3> QED
      BY <2>4, <2>6, <3>1, <3>3, BatchFacts DEF Recorded
  <2>10. CASE Terminal
    <3> DEFINE b == [rows |-> {}, markers |-> buffer \cup {epoch + 1}]
    <3>1. /\ pipe' = IF gone THEN pipe ELSE Append(pipe, b)
          /\ buffer' = {} /\ pc = "top" /\ UNCHANGED <<batch, gone, acked>>
          /\ snapshots' = [snapshots EXCEPT ![epoch + 1] = position] \/ snapshots' = snapshots
      BY <2>10 DEF Terminal
    <3>2. epoch + 1 \in Epochs /\ epoch + 1 \notin Taken
      BY <2>10, Nums DEF Terminal, Shape, TypeOK, Mail
    <3>3. b \in Batches /\ b.rows = {} /\ b.markers = buffer \cup {epoch + 1}
      BY <3>2, BatchFacts DEF TypeOK
    <3> HIDE DEF b
    <3>b. batch.markers = {} /\ batch.rows = {}
      BY <3>1, BatchFacts DEF Shape
    <3>4. CASE gone
      BY <2>5, <2>6, <3>1, <3>4 DEF Recorded
    <3>5. CASE ~ gone
      <4>2. pipe' = Append(pipe, b)
        BY <3>1, <3>5
      <4>1. /\ Len(pipe') = Len(pipe) + 1 /\ pipe'[Len(pipe) + 1] = b
            /\ \A k \in 1 .. Len(pipe) : pipe'[k] = pipe[k] /\ RowsUpTo(pipe', k) = RowsUpTo(pipe, k)
            /\ RowsUpTo(pipe', Len(pipe) + 1) = RowsUpTo(pipe, Len(pipe)) \cup b.rows
        <5>1. b \in Batches /\ pipe \in Seq(Batches)
          BY <1>0, <3>3
        <5>2. Len(pipe') = Len(pipe) + 1 /\ pipe'[Len(pipe) + 1] = b
          BY <4>2, <5>1, OfAppend, Zenon
        <5>3. ASSUME NEW k \in 1 .. Len(pipe)
              PROVE  pipe'[k] = pipe[k] /\ RowsUpTo(pipe', k) = RowsUpTo(pipe, k)
          BY <4>2, <5>1, <5>3, OfAppend, ZenonT(30)
        <5>4. RowsUpTo(pipe', Len(pipe) + 1) = RowsUpTo(pipe, Len(pipe)) \cup b.rows
          BY <4>2, <5>1, OfAppend, Zenon
        <5> QED
          BY <5>2, <5>3, <5>4, Zenon
      <4>3. OnTheWay' = OnTheWay /\ OnTheWay = RowsUpTo(pipe, Len(pipe))
        BY <2>10, <3>5, <3>b, OnTheWayMoves DEF OnTheWay
      <4>4. Behind(snapshots'[epoch + 1], Settled' \cup OnTheWay')
        <5>1. snapshots'[epoch + 1] = position \/ snapshots'[epoch + 1] = NoPosition
          BY <3>1, <3>2, <3>5 DEF TypeOK, Mail
        <5>2. Behind(fetch, Settled' \cup OnTheWay')
          BY <2>2, <3>1, <3>5, BehindFacts DEF Fetched
        <5>3. \A p \in Partitions : position[p] = -1 \/ position[p] = fetch[p]
          BY Nums DEF Following
        <5>4. \A p \in Partitions : \A r \in 1 .. position[p] : r \in 1 .. fetch[p]
          BY <5>3
        <5>5. Behind(position, Settled' \cup OnTheWay')
          BY <5>2, <5>4 DEF Behind
        <5> QED
          BY <5>1, <5>5, BehindFacts
      <4>5. ASSUME NEW k \in 1 .. Len(pipe'), NEW e \in pipe'[k].markers
            PROVE  Behind(snapshots'[e], Settled' \cup RowsUpTo(pipe', k))
        <5>1. CASE k \in 1 .. Len(pipe)
          BY <2>5, <4>1, <4>2, <4>5, <5>1
        <5>2. CASE k = Len(pipe) + 1
          <6>1. e \in buffer \cup {epoch + 1} /\ RowsUpTo(pipe', k) = OnTheWay'
            BY <3>3, <4>1, <4>2, <4>3, <4>5, <5>2
          <6> QED
            BY <2>4, <3>1, <3>5, <4>4, <6>1
        <5>3. k \in 1 .. Len(pipe) \/ k = Len(pipe) + 1
          BY <1>0, <4>1, <4>2
        <5> QED
          BY <5>1, <5>2, <5>3
      <4> QED
        BY <2>6, <3>1, <3>b, <4>5 DEF Recorded
    <3> QED
      BY <3>4, <3>5
  <2>11. CASE SinkWrite
    <3>1. /\ pipe # <<>> /\ pipe' = Tail(pipe) /\ acked' = acked \cup Head(pipe).markers
          /\ UNCHANGED <<batch, buffer, gone>> /\ Settled' = Settled \cup Head(pipe).rows
      BY <2>11, OnTheWayMoves DEF SinkWrite
    <3>2. /\ Len(Tail(pipe)) = Len(pipe) - 1 /\ Head(pipe) = pipe[1] /\ Len(pipe) \in Nat \ {0}
          /\ \A k \in 1 .. Len(pipe) - 1 : Tail(pipe)[k] = pipe[k + 1]
          /\ \A k \in 0 .. Len(pipe) - 1 :
                RowsUpTo(pipe, k + 1) = Head(pipe).rows \cup RowsUpTo(Tail(pipe), k)
      BY <1>0, <3>1, OfTail
    <3>3. ASSUME NEW k \in 1 .. Len(pipe'), NEW e \in pipe'[k].markers
          PROVE  Behind(snapshots'[e], Settled' \cup RowsUpTo(pipe', k))
      <4>1. k + 1 \in 1 .. Len(pipe) /\ k \in 1 .. Len(pipe) - 1 /\ k \in 0 .. Len(pipe) - 1
        BY <3>1, <3>2
      <4>2. e \in pipe[k + 1].markers /\ RowsUpTo(pipe, k + 1) = Head(pipe).rows \cup RowsUpTo(pipe', k)
        BY <3>1, <3>2, <3>3, <4>1
      <4>3. Settled' \cup RowsUpTo(pipe, k + 1) = Settled' \cup RowsUpTo(pipe', k)
        BY <3>1, <4>2
      <4>4. Behind(snapshots'[e], Settled' \cup RowsUpTo(pipe, k + 1))
        BY <2>5, <4>1, <4>2
      <4> QED
        BY <4>3, <4>4
    <3>4. ASSUME NEW e \in Head(pipe).markers PROVE Behind(snapshots'[e], Settled')
      <4>1. 1 \in 1 .. Len(pipe) /\ 0 \in 0 .. Len(pipe) - 1 /\ 0 + 1 = 1
        BY <3>2
      <4>2. RowsUpTo(pipe, 1) = Head(pipe).rows \cup RowsUpTo(Tail(pipe), 0)
        BY <3>2, <4>1
      <4>3. RowsUpTo(Tail(pipe), 0) = {}
        BY DEF RowsUpTo
      <4>4. Settled' \cup RowsUpTo(pipe, 1) = Settled'
        BY <3>1, <4>2, <4>3
      <4>5. Behind(snapshots'[e], Settled' \cup RowsUpTo(pipe, 1))
        BY <2>5, <3>2, <3>4, <4>1
      <4> QED
        BY <4>4, <4>5
    <3> QED
      BY <2>4, <2>6, <3>1, <3>3, <3>4 DEF Recorded
  <2>12. CASE SinkFails
    <3>1. pipe' = <<>> /\ gone' /\ acked' = acked
      BY <2>12, Zenon DEF SinkFails
    <3> QED
      BY <2>6, <3>1 DEF Recorded
  <2>13. CASE UNCHANGED <<batch, buffer, pipe, gone, acked>>
    BY <2>4, <2>5, <2>6, <2>13 DEF Recorded
  <2> QED
    BY <1>3, <2>7, <2>8, <2>9, <2>10, <2>11, <2>12, <2>13, StreamSteps
<1> QED
  BY <1>1, <1>2, <1>3

-----------------------------------------------------------------------------
(* The invariant, and the theorems.                                         *)

(* A source that never ran has committed nothing.                           *)
LEMMA InitInv == Init => SourceInv
<1> SUFFICES ASSUME Init PROVE SourceInv
  OBVIOUS
<1>1. TypeOK
  BY InitTypes
<1>2. /\ pc = "down" /\ terminal = 0 /\ epoch = 0 /\ pipe = <<>> /\ buffer = {} /\ acked = {}
      /\ batch = EmptyBatch /\ inbox = <<>> /\ todo = <<>> /\ probed = {}
      /\ snapshots = [e \in Epochs |-> NoPosition] /\ broker = NoPosition /\ saved = NoPosition
      /\ position = NoPosition /\ fetch = [p \in Partitions |-> 0]
  BY Nums DEF Init
<1>3. gone = FALSE
  BY DEF Init
<1>4. Shape
  BY <1>2, <1>3, Nums DEF Shape, Starting
<1>5. Taken = {}
  BY <1>2, BatchFacts, OfEmpty DEF Taken
<1>6. FreshIn(<<>>, 0, {}, {}) /\ Apart(<<>>, <<>>)
  BY NothingFresh DEF FreshIn, Apart
<1>7. Mail
  BY <1>2, <1>5, <1>6 DEF Mail
<1>8. Fetched /\ Recorded
  BY <1>2, BatchFacts DEF Fetched, Recorded
<1>9. Resumes
  BY <1>2, BehindFacts DEF Resumes
<1>10. Following
  BY <1>2, Nums, PositionFacts DEF Following
<1>11. Dropped
  BY <1>2 DEF Dropped
<1> QED
  BY <1>1, <1>4, <1>7, <1>8, <1>9, <1>10, <1>11 DEF SourceInv

(* Every step keeps the invariant.                                           *)
LEMMA NextInv == SourceInv /\ [Next]_vars => SourceInv'
<1> SUFFICES ASSUME SourceInv, [Next]_vars PROVE SourceInv'
  OBVIOUS
<1>1. TypeOK /\ Shape /\ Mail /\ Following /\ Dropped
  BY DEF SourceInv
<1>2. TypeOK' /\ Shape' /\ Mail' /\ Following'
  BY <1>1, NextTypes, NextShape, NextMail, NextFollowing
<1>3. Dropped'
  BY <1>1, NextDropped DEF SourceInv
<1>4. Fetched' /\ Recorded' /\ Resumes'
  BY NextFetched, NextRecorded, NextResumes
<1> QED
  BY <1>2, <1>3, <1>4 DEF SourceInv

(* The invariant holds in every run.                                         *)
LEMMA SourceInvariant == Spec => []SourceInv
  BY InitInv, NextInv, PTL DEF Spec

(***************************************************************************)
(* Type correctness of the source across restarts: among it that an epoch  *)
(* recorded, buffered or acked is one that was minted, so the              *)
(* consumer_offsets map is never read at an epoch it cannot have.          *)
(***************************************************************************)
THEOREM KafkaTypes == Spec => []TypeOK
<1>1. SourceInv => TypeOK
  BY DEF SourceInv
<1> QED
  BY <1>1, SourceInvariant, PTL

(* The offsets of the theorems below in terms of the rows behind them.       *)
LEMMA BetweenIsBehind ==
    ASSUME NEW pos \in Position, NEW S
    PROVE  Behind(pos, S) <=> \A p \in Partitions : Between(p, 0, pos[p]) \subseteq S
<1>1. ASSUME NEW p \in Partitions
      PROVE  Between(p, 0, pos[p]) \subseteq S <=> \A r \in 1 .. pos[p] : <<p, r>> \in S
  <2>1. 0 + 1 = 1
    OBVIOUS
  <2> QED
    BY <2>1, Zenon DEF Between
<1> QED
  BY <1>1, Zenon DEF Behind

(***************************************************************************)
(* Whatever crashes, fails to commit or is rebalanced, in whatever order,  *)
(* an offset in the broker or in the state backend is only ever ahead of   *)
(* rows that are in the sink's table, or that the start-up wait consumed   *)
(* from a partition that was not sought afterwards                         *)
(* (wait_for_initial_assignment_or_message, then the seek).                *)
(***************************************************************************)
THEOREM NothingElseSkipped == Spec => []OnlyFirstMessageSkipped
<1>1. SourceInv => OnlyFirstMessageSkipped
  <2> SUFFICES ASSUME SourceInv PROVE OnlyFirstMessageSkipped
    OBVIOUS
  <2>1. broker \in Position /\ saved \in Position
    BY DEF SourceInv, TypeOK
  <2>2. Behind(broker, written \cup probed) /\ Behind(saved, written \cup probed)
    BY DEF SourceInv, Resumes, Settled
  <2> QED
    BY <2>1, <2>2, BetweenIsBehind DEF OnlyFirstMessageSkipped
<1> QED
  BY <1>1, SourceInvariant, PTL

(* A dropped row is dropped before the task runs, and a written one stays.   *)
LEMMA ProbedKept ==
    [Next]_vars /\ Running /\ ~ Seek => probed' = probed /\ written \subseteq written'
<1> SUFFICES ASSUME [Next]_vars, Running, ~ Seek PROVE probed' = probed /\ written \subseteq written'
  OBVIOUS
<1>1. probed' = probed
  BY ReadSteps DEF Running, Start, FirstMessage, TakeAny, TakeBatch, Rebalance, readVars
<1>2. written \subseteq written'
  BY StoreSteps DEF SinkWrite
<1> QED
  BY <1>1, <1>2

(* With one partition the seek brings every dropped row back.                *)
LEMMA NextNoneDropped ==
    ASSUME \A p, q \in Partitions : p = q, SourceInv, SourceInv', NoneDropped, [Next]_vars
    PROVE  NoneDropped'
<1>0. /\ broker \in Position /\ saved \in Position /\ broker' \in Position /\ saved' \in Position
      /\ probed \in SUBSET (Partitions \X Rows)
  BY DEF SourceInv, TypeOK
<1>1. Behind(broker, written) /\ Behind(saved, written)
  BY <1>0, BetweenIsBehind DEF NoneDropped, AtLeastOnce
<1>2. Behind(broker', written' \cup probed') /\ Behind(saved', written' \cup probed')
  BY DEF SourceInv, Resumes, Settled
<1>3. CASE Seek
  <2>1. /\ UNCHANGED <<broker, saved, written>>
        /\ probed' = {r \in probed : r[1] \notin Sought \/ r[2] <= fetch'[r[1]]}
        /\ fetch' = [p \in Partitions |->
                        IF p \notin Sought THEN fetch[p]
                        ELSE IF p \in Saved THEN saved[p] ELSE 0]
    BY <1>3 DEF Seek, storeVars
  <2>2. Sought = Partitions
    BY DEF Sought, Saved
  <2>3. ASSUME NEW x \in probed' PROVE x \in written
    <3>1. PICK p \in Partitions, r \in Rows : x = <<p, r>>
      BY <1>0, <2>1, <2>3
    <3>2. r <= fetch'[p]
      BY <2>1, <2>2, <2>3, <3>1
    <3>3. r \in 1 .. saved[p]
      BY <1>0, <2>1, <2>2, <3>2, Nums, PositionFacts
    <3> QED
      BY <1>1, <3>1, <3>3 DEF Behind
  <2>4. AtLeastOnce'
    BY <2>1 DEF NoneDropped, AtLeastOnce
  <2> QED
    BY <2>1, <2>3, <2>4 DEF NoneDropped
<1>4. CASE ~ Seek
  <2>1. CASE Running
    <3>1. probed' \subseteq written' /\ written \subseteq written'
      BY <1>4, <2>1, ProbedKept DEF NoneDropped
    <3>2. written' \cup probed' = written'
      BY <3>1
    <3>3. AtLeastOnce'
      BY <1>0, <1>2, <3>2, BetweenIsBehind DEF AtLeastOnce
    <3> QED
      BY <3>1, <3>3 DEF NoneDropped
  <2>2. CASE ~ Running
    <3>1. ~ Running'
      BY <1>4, <2>2, RunningSteps
    <3>2. broker' = broker /\ saved' = saved /\ written \subseteq written'
      BY <2>2, StoreSteps DEF Running, CommitBroker, CommitBegins, CommitState, SinkWrite
    <3>3. AtLeastOnce'
      BY <3>2 DEF NoneDropped, AtLeastOnce
    <3> QED
      BY <3>1, <3>3 DEF NoneDropped
  <2> QED
    BY <2>1, <2>2
<1> QED
  BY <1>3, <1>4

(***************************************************************************)
(* A topic of one partition is delivered at least once: whatever crashed,  *)
(* failed or was rebalanced between the commit to the broker and the write *)
(* to the state backend, an offset the source resumes from leaves only     *)
(* written rows behind it.  With several partitions this does not hold     *)
(* (NothingElseSkipped says what is lost): the seek leaves out a partition *)
(* without a saved offset once another has one.                            *)
(***************************************************************************)
THEOREM OnePartitionAtLeastOnce ==
    (\A p, q \in Partitions : p = q) /\ Spec => []AtLeastOnce
<1> SUFFICES ASSUME \A p, q \in Partitions : p = q PROVE Spec => []AtLeastOnce
  OBVIOUS
<1>1. Init => NoneDropped
  <2> SUFFICES ASSUME Init PROVE NoneDropped
    OBVIOUS
  <2>1. broker = NoPosition /\ saved = NoPosition /\ pc = "down"
    BY DEF Init
  <2>2. Behind(NoPosition, written)
    BY BehindFacts
  <2>3. NoPosition \in Position
    BY PositionFacts
  <2>4. AtLeastOnce
    BY <2>1, <2>2, <2>3, BetweenIsBehind DEF AtLeastOnce
  <2> QED
    BY <2>1, <2>4 DEF NoneDropped, Running
<1>2. SourceInv /\ SourceInv' /\ NoneDropped /\ [Next]_vars => NoneDropped'
  BY NextNoneDropped
<1>3. NoneDropped => AtLeastOnce
  BY DEF NoneDropped
<1> QED
  BY <1>1, <1>2, <1>3, SourceInvariant, PTL DEF Spec

-----------------------------------------------------------------------------
(* The clean stop.                                                          *)

(* How the task gets to the end of the stream, and what stands still there.  *)
LEMMA EndSteps ==
    [Next]_vars /\ pc' \in {"await", "state", "clean"} =>
        \/ Terminal \/ CommitBroker \/ CommitSkip \/ CommitState
        \/ UNCHANGED <<pc, position, terminal, snapshots, committed, saved>>
<1> SUFFICES ASSUME [Next]_vars, pc' \in {"await", "state", "clean"}
             PROVE  \/ Terminal \/ CommitBroker \/ CommitSkip \/ CommitState
                    \/ UNCHANGED <<pc, position, terminal, snapshots, committed, saved>>
  OBVIOUS
<1>1. CASE UNCHANGED vars
  BY <1>1 DEF vars, storeVars, readVars, commitVars, epochVars
<1>2. CASE Start \/ StartUp \/ Loop
  BY <1>2 DEF StartUp, Loop, Start, Assigned, FirstMessage, StartupShutdown, Seek, TakeAny,
              TakeBatch, TakeMarker, Send, SendFails
<1>3. CASE Commit \/ Rebalance \/ AwaitTimeout
  BY <1>3 DEF Commit, BrokerFails, CommitOver, StateFails, Rebalance, AwaitTimeout
<1>4. CASE (\E p \in Partitions : Produce(p)) \/ MintEpoch \/ CloseEpoch \/ SinkWrite
  BY <1>4 DEF Produce, MintEpoch, CloseEpoch, SinkWrite, storeVars, readVars, commitVars, epochVars
<1>5. CASE SinkFails \/ RequestShutdown \/ Crash
  BY <1>5 DEF SinkFails, RequestShutdown, Crash, storeVars, readVars, commitVars, epochVars
<1> QED
  BY <1>1, <1>2, <1>3, <1>4, <1>5 DEF Next

(* The tail that is committed is the one the consumer has read.              *)
LEMMA NextTail ==
    ASSUME "position" \notin Faults, SourceInv, SourceInv', TailInv, [Next]_vars
    PROVE  TailInv'
<1>0. TypeOK /\ Shape /\ TypeOK' /\ Shape'
  BY DEF SourceInv
<1>2. ASSUME NEW p \in Partitions, committed'[p] # NoOffset PROVE saved'[p] = committed'[p]
  <2>1. CASE Start \/ Crash
    BY <1>2, <2>1, Forgets, PositionFacts, Nums
  <2>2. CASE Seek
    BY <1>2, <2>2 DEF Seek, storeVars, TailInv
  <2>3. CASE CommitState
    <3>1. saved' = Over(saved) /\ committed' = ToCommit
      BY <2>3 DEF CommitState
    <3> QED
      BY <1>2, <3>1 DEF Over
  <2>4. CASE committed' = committed /\ saved' = saved
    BY <1>2, <2>4 DEF TailInv
  <2>5. Start \/ Crash \/ Seek \/ CommitState \/ committed' = committed
    BY CommitSteps DEF TakeMarker, Terminal, CommitSkip, BrokerFails, commitVars
  <2>6. saved' = saved \/ CommitState
    BY StoreSteps
  <2> QED
    BY <2>1, <2>2, <2>3, <2>4, <2>5, <2>6
<1>3. CASE pc' \notin {"await", "state", "clean"}
  BY <1>2, <1>3 DEF TailInv, CleanStopCommitted
<1>4. CASE Terminal
  <2>1. /\ snapshots' = [snapshots EXCEPT ![epoch + 1] = position] /\ terminal' = epoch + 1
        /\ pc = "top" /\ pc' = "await" /\ position' = position
    BY <1>4 DEF Terminal, Fault, readVars
  <2>2. epoch + 1 \in Epochs
    BY <1>0, <2>1, Nums DEF Shape, TypeOK
  <2>3. snapshots'[terminal'] = position'
    BY <1>0, <2>1, <2>2 DEF TypeOK
  <2> QED
    BY <1>2, <2>1, <2>3 DEF TailInv, CleanStopCommitted
<1>5. CASE CommitBroker
  <2>1. /\ pc' = "state" /\ UNCHANGED <<snapshots, terminal, position>>
        /\ terminal # NoEpoch => pc = "await"
    BY <1>0, <1>5 DEF CommitBroker, CommitBegins, commitVars, epochVars, readVars, Shape
  <2>2. terminal' # NoEpoch => snapshots'[terminal'] = position'
    BY <2>1 DEF TailInv
  <2> QED
    BY <1>2, <2>1, <2>2 DEF TailInv, CleanStopCommitted
<1>6. CASE CommitSkip
  <2>1. /\ pc' = IF terminal # NoEpoch THEN "clean" ELSE "dispatch"
        /\ UNCHANGED <<saved, position, terminal, committed>>
        /\ terminal # NoEpoch => pc = "await"
        /\ NothingToCommit
    BY <1>0, <1>6 DEF CommitSkip, CommitOver, CommitBegins, storeVars, epochVars, readVars, Shape
  <2>2. terminal # NoEpoch => ToCommit = position
    BY <2>1 DEF TailInv, ToCommit, Committing
  <2>3. ASSUME terminal # NoEpoch, NEW p \in Partitions, position[p] # NoOffset
        PROVE  saved[p] = position[p]
    <3>1. ToCommit # NoPosition
      BY <2>2, <2>3, PositionFacts, Nums
    <3> QED
      BY <2>1, <2>2, <2>3, <3>1 DEF NothingToCommit, TailInv
  <2>4. CleanStopCommitted'
    BY <2>1, <2>3 DEF CleanStopCommitted
  <2> QED
    BY <1>2, <2>1, <2>4 DEF TailInv
<1>7. CASE CommitState
  <2>1. /\ pc = "state"
        /\ pc' = IF terminal # NoEpoch THEN "clean" ELSE "dispatch"
        /\ UNCHANGED <<position, terminal>> /\ saved' = Over(saved)
    BY <1>7 DEF CommitState, CommitOver, epochVars, readVars
  <2>2. terminal # NoEpoch => ToCommit = position
    BY <2>1 DEF TailInv, ToCommit, Committing
  <2>3. CleanStopCommitted'
    BY <2>1, <2>2 DEF CleanStopCommitted, Over
  <2> QED
    BY <1>2, <2>1, <2>3 DEF TailInv
<1>8. CASE UNCHANGED <<pc, position, terminal, snapshots, committed, saved>>
  BY <1>8 DEF TailInv, CleanStopCommitted
<1> QED
  BY <1>3, <1>4, <1>5, <1>6, <1>7, <1>8, EndSteps

(***************************************************************************)
(* "drained tail committed" is true whenever consumer.position() can be    *)
(* read: a source that stops clean has saved, for every partition it has   *)
(* read from since its last rebalance, the offset it stopped at, after any *)
(* crashes, refused commits and failed writes before.  The hypothesis is   *)
(* needed: get_current_offsets that fails leaves the terminal epoch        *)
(* without a position, and commit_offsets_for_finalized_epoch takes that   *)
(* for nothing to commit.                                                  *)
(***************************************************************************)
THEOREM CleanStopSaved ==
    "position" \notin Faults /\ Spec => []CleanStopCommitted
<1> SUFFICES ASSUME "position" \notin Faults PROVE Spec => []CleanStopCommitted
  OBVIOUS
<1>1. Init => TailInv
  BY PositionFacts, Nums DEF Init, TailInv, CleanStopCommitted
<1>2. SourceInv /\ SourceInv' /\ TailInv /\ [Next]_vars => TailInv'
  BY NextTail
<1>3. TailInv => CleanStopCommitted
  BY DEF TailInv
<1> QED
  BY <1>1, <1>2, <1>3, SourceInvariant, PTL DEF Spec
=============================================================================
