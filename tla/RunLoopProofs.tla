--------------------------- MODULE RunLoopProofs ---------------------------
(***************************************************************************)
(* What the arithmetic of the shutdown budget guarantees for every budget, *)
(* and what exit 0 and a committed tail mean for any number of branches,   *)
(* plugins and batches.                                                    *)
(*                                                                         *)
(* The steps need one inductive invariant, RunInv.  Its core says where    *)
(* the batches of a branch are: those the plugin has not taken and the     *)
(* future does not hold fill the front of the channel, with nothing but    *)
(* the Marker and Terminate behind them.  A Marker at the head then means  *)
(* that everything was taken, and its ack that everything is durable.      *)
(* None of it depends on a clock: time only decides which of these steps   *)
(* is taken.  What the clock does is in a second one, ClockInv: whatever   *)
(* the stage of the teardown may still wait for fits into what the         *)
(* watchdog has left.                                                      *)
(***************************************************************************)
EXTENDS RunLoop, FiniteSetTheorems, TLAPS

-----------------------------------------------------------------------------
(* The budget.                                                                *)

\* terminal_checkpoint_finalize_timeout: whatever the budget, a source that
\* begins to wait for the terminal epoch when the watchdog is armed gives up at
\* least two seconds before the hard exit (at once if there are none); from ten
\* seconds on it leaves half the budget to the rest of the drain; and it does
\* wait if there is time at all.
THEOREM FinalizeTimeoutFits ==
    ASSUME NEW b \in Nat
    PROVE  /\ FinalizeTimeout(b) \in Nat
           /\ b >= 2 => FinalizeTimeout(b) + 2 <= b
           /\ b < 2 => FinalizeTimeout(b) = 0
           /\ b >= 10 => 2 * FinalizeTimeout(b) <= b
           /\ b > 2 => FinalizeTimeout(b) > 0
  BY DEF FinalizeTimeout, Least, Most, Minus

\* terminate_plugins: the sends together take no longer than the time they were
\* given, or than their floors add up to.
THEOREM SendsFit ==
    ASSUME NEW total \in Nat, NEW n \in Nat \ {0}, Len(Order) = n,
           SendMin \in Nat, SendMax \in Nat, SendMin <= SendMax
    PROVE  \/ n * SendSlice(total) <= total
           \/ SendSlice(total) = SendMin
  <1>1. /\ total \div n \in Nat
        /\ n * (total \div n) <= total
    BY SMT
  <1>2. SendSlice(total) <= total \div n \/ SendSlice(total) = SendMin
    BY <1>1 DEF SendSlice, Least, Most
  <1>3. SendSlice(total) \in Nat
    BY <1>1 DEF SendSlice, Least, Most
  <1>4. SendSlice(total) <= total \div n => n * SendSlice(total) <= n * (total \div n)
    BY <1>1, <1>3, SMT
  <1> QED
    BY <1>1, <1>2, <1>3, <1>4, SMT

-----------------------------------------------------------------------------
(* The inductive invariant of the steps.                                      *)

Letters == {"rows", "mark", "terminate"}

\* The types of everything but the clocks.
RunTypes ==
    /\ conf \in Configs
    /\ src \in [Branches -> {"run", "flush", "await", "done"}]
    /\ fut \in [Branches -> {"run", "ok", "err"}]
    /\ held \in [Branches -> {"none", "rows", "mark"}]
    /\ made \in [Branches -> Nat] /\ taken \in [Branches -> Nat] /\ stored \in [Branches -> Nat]
    /\ committed \in [Branches -> BOOLEAN]
    /\ disp \in [Plugins -> {"run", "discard", "ok", "err", "quit"}]
    /\ inq \in [Plugins -> Seq(Letters)] /\ outq \in [Plugins -> Seq({"ack", "fail"})]
    /\ acked \subseteq Branches /\ expected \subseteq Branches
    /\ joined \in [sinks : SUBSET Branches, plugins : SUBSET Plugins]
    /\ {shutdown, terminal, finalized, firstError, pluginError, interrupted} \subseteq BOOLEAN

\* A future holds nothing when it has ended, and ends well only after its source;
\* until then its sink is expected to ack.
Future(b) ==
    /\ held[b] # "none" => fut[b] = "run"
    /\ fut[b] = "ok" => src[b] = "done"
    /\ fut[b] # "ok" => b \in expected

\* Whether a letter is in a channel.
Has(q, x) == \E k \in 1 .. Len(q) : q[k] = x

\* The terminal Marker of a branch has got into the channel, or was acked.
Passed(b) ==
    \/ b \in acked
    \/ b \in Plugins /\ (Has(inq[b], "mark") \/ Has(outq[b], "ack"))

\* Nothing is emitted behind the Marker.
Marked(b) ==
    held[b] = "mark" \/ Passed(b) => src[b] \in {"await", "done"} /\ held[b] # "rows"

\* The batches that are neither taken nor held.
HeldRows(b) == IF held[b] = "rows" THEN 1 ELSE 0
Waiting(b) == made[b] - taken[b] - HeldRows(b)

\* An engine sink takes what it is given, as long as it has not failed.
Written(b) ==
    b \notin Plugins => stored[b] = taken[b] /\ (fut[b] # "err" => Waiting(b) = 0)

\* A channel holds n batches, and what is behind them is no batch.
Rows(q, n) == n \in 0 .. Len(q) /\ \A k \in 1 .. Len(q) : q[k] = "rows" <=> k <= n

\* A plugin that still runs finds the batches it has not taken in its channel.
Dispatched(b) ==
    b \in Plugins /\ disp[b] = "run" /\ (fut[b] # "err" \/ Passed(b)) =>
        /\ Rows(inq[b], Waiting(b))
        /\ held[b] = "rows" => Waiting(b) = Len(inq[b])

\* An acked Marker covers all that was emitted.
AckedIsStored(b) ==
    b \in acked \/ (b \in Plugins /\ Has(outq[b], "ack")) =>
        stored[b] = made[b] /\ taken[b] = made[b]

\* A plugin that ended well has flushed all it was sent.
Terminated(b) ==
    b \in Plugins =>
        /\ Has(inq[b], "terminate") \/ disp[b] = "ok" => joined.sinks = Branches
        /\ disp[b] = "ok" /\ fut[b] # "err" => stored[b] = made[b]

BranchInv(b) ==
    /\ Future(b) /\ Marked(b) /\ Written(b) /\ Dispatched(b) /\ AckedIsStored(b)
    /\ Terminated(b)

\* A source that waits for the terminal epoch when it is finalized was acked.
Finalized ==
    /\ finalized => \A b \in Branches : src[b] # "done" => b \in acked
    /\ \A b \in Branches : committed[b] => b \in acked

\* What the run loop knows of the futures it has joined, ...
Joined ==
    /\ \A b \in joined.sinks : fut[b] # "run" /\ (fut[b] = "err" => firstError)
    /\ \A p \in joined.plugins : Returned(p) /\ (disp[p] = "err" => firstError \/ pluginError)
    /\ stage \notin {"run", "killed"} =>
          joined.sinks = Branches /\ ("signal" \in asked => interrupted)
    /\ stage \in {"post", "exit0"} => joined.plugins = Plugins \/ pluginError \/ ~Drains
    /\ stage = "exit0" => ~firstError /\ ~pluginError /\ ~(conf.job /\ interrupted)

\* ... and why sources have stopped.
Stopped ==
    /\ asked \subseteq {"signal", "plugin"}
    /\ shutdown => asked # {} \/ firstError \/ joined.sinks = Branches
    /\ \A b \in Branches : src[b] # "run" =>
          \/ conf.job /\ made[b] = MaxBatches
          \/ asked # {} \/ firstError \/ fut[b] = "err"

RunInv ==
    /\ RunTypes /\ (\A b \in Branches : BranchInv(b)) /\ Finalized /\ Joined /\ Stopped

-----------------------------------------------------------------------------
\* A channel has what its head is or the rest of it has.
LEMMA HasTail ==
    ASSUME NEW S, NEW q \in Seq(S), q # <<>>, NEW x
    PROVE  Has(q, x) <=> (Head(q) = x \/ Has(Tail(q), x))
  <1>1. /\ Len(q) \in Nat \ {0} /\ Head(q) = q[1] /\ Len(Tail(q)) = Len(q) - 1
        /\ \A k \in 1 .. Len(q) - 1 : Tail(q)[k] = q[k + 1]
    BY SMT
  <1>2. \A k \in 1 .. Len(q) : k = 1 \/ (k - 1 \in 1 .. Len(q) - 1 /\ Tail(q)[k - 1] = q[k])
    <2> TAKE k \in 1 .. Len(q)
    <2>1. k = 1 \/ (k - 1 \in 1 .. Len(q) - 1 /\ (k - 1) + 1 = k)
      BY <1>1
    <2> QED BY <2>1, <1>1
  <1>3. \A k \in 1 .. Len(q) - 1 : k + 1 \in 1 .. Len(q)
    BY <1>1
  <1> QED BY <1>1, <1>2, <1>3 DEF Has

\* A send adds one letter.
LEMMA HasAppend ==
    ASSUME NEW S, NEW q \in Seq(S), NEW y \in S, NEW x
    PROVE  Has(Append(q, y), x) <=> (Has(q, x) \/ y = x)
  <1>1. /\ Len(q) \in Nat /\ Len(Append(q, y)) = Len(q) + 1 /\ Append(q, y)[Len(q) + 1] = y
        /\ \A k \in 1 .. Len(q) : Append(q, y)[k] = q[k]
    BY SMT
  <1>2. \A k \in 1 .. Len(q) + 1 : k \in 1 .. Len(q) \/ k = Len(q) + 1
    BY <1>1
  <1>3. \A k \in 1 .. Len(q) : k \in 1 .. Len(q) + 1
    BY <1>1
  <1>4. Len(q) + 1 \in 1 .. Len(q) + 1
    BY <1>1
  <1> QED BY <1>1, <1>2, <1>3, <1>4 DEF Has

\* A batch sent behind batches only is counted; anything else does not count.
LEMMA RowsAppend ==
    ASSUME NEW q \in Seq(Letters), NEW n \in Int, Rows(q, n)
    PROVE  /\ n = Len(q) =>
                 Rows(Append(q, "rows"), n + 1) /\ n + 1 = Len(Append(q, "rows"))
           /\ \A x \in Letters : x # "rows" => Rows(Append(q, x), n)
  <1>1. Len(q) \in Nat /\ n \in 0 .. Len(q)
    BY DEF Rows
  <1>2. \A x \in Letters :
           /\ Len(Append(q, x)) = Len(q) + 1 /\ Append(q, x)[Len(q) + 1] = x
           /\ \A k \in 1 .. Len(q) : Append(q, x)[k] = q[k]
    BY SMT
  <1>3. \A k \in 1 .. Len(q) + 1 : k \in 1 .. Len(q) \/ k = Len(q) + 1
    BY <1>1
  <1>4. \A k \in 1 .. Len(q) : q[k] = "rows" <=> k <= n
    BY DEF Rows
  <1>5. ASSUME n = Len(q)
        PROVE  Rows(Append(q, "rows"), n + 1) /\ n + 1 = Len(Append(q, "rows"))
    BY <1>1, <1>2, <1>3, <1>4, <1>5 DEF Rows, Letters
  <1>6. ASSUME NEW x \in Letters, x # "rows"
        PROVE  Rows(Append(q, x), n)
    BY <1>1, <1>2, <1>3, <1>4, <1>6 DEF Rows
  <1> QED BY <1>5, <1>6

\* A batch received is no longer counted; another head means there is none.
LEMMA RowsTail ==
    ASSUME NEW q \in Seq(Letters), NEW n \in Int, Rows(q, n), q # <<>>
    PROVE  /\ Head(q) = "rows" => Rows(Tail(q), n - 1)
           /\ Head(q) # "rows" => n = 0 /\ Rows(Tail(q), n)
           /\ Len(Tail(q)) = Len(q) - 1
  <1>1. /\ Len(q) \in Nat \ {0} /\ Head(q) = q[1] /\ Len(Tail(q)) = Len(q) - 1
        /\ \A k \in 1 .. Len(q) - 1 : Tail(q)[k] = q[k + 1]
    BY SMT
  <1>2. n \in 0 .. Len(q) /\ \A k \in 1 .. Len(q) : q[k] = "rows" <=> k <= n
    BY DEF Rows
  <1>3. \A k \in 1 .. Len(q) - 1 : Tail(q)[k] = "rows" <=> k + 1 <= n
    BY <1>1, <1>2
  <1>4. Head(q) = "rows" <=> 1 <= n
    BY <1>1, <1>2
  <1> QED BY <1>1, <1>2, <1>3, <1>4 DEF Rows

\* A channel without a Marker and without a Terminate holds batches only.
LEMMA OnlyRows ==
    ASSUME NEW q \in Seq(Letters), NEW n \in Int, Rows(q, n),
           ~Has(q, "mark"), ~Has(q, "terminate")
    PROVE  n = Len(q)
  <1>1. Len(q) \in Nat /\ n \in 0 .. Len(q) /\ (\A k \in 1 .. Len(q) : q[k] \in Letters)
    BY DEF Rows
  <1>2. Len(q) > 0 => q[Len(q)] = "rows"
    BY <1>1 DEF Has, Letters
  <1> QED BY <1>1, <1>2 DEF Rows

-----------------------------------------------------------------------------
(* What leaves a part of the invariant alone.                                 *)

\* A step that does not touch branch x.
Untouched(x) ==
    /\ src'[x] = src[x] /\ fut'[x] = fut[x] /\ held'[x] = held[x]
    /\ made'[x] = made[x] /\ taken'[x] = taken[x] /\ stored'[x] = stored[x]
    /\ x \in Plugins => disp'[x] = disp[x] /\ inq'[x] = inq[x] /\ outq'[x] = outq[x]
    /\ x \in acked' <=> x \in acked
    /\ x \in expected' <=> x \in expected
    /\ joined.sinks = Branches => joined'.sinks = Branches

\* The invariant of a branch that is not touched.
LEMMA Elsewhere ==
    ASSUME NEW x \in Branches, BranchInv(x), Untouched(x)
    PROVE  BranchInv(x)'
  <1> USE DEF BranchInv, Untouched
  <1>1. Passed(x)' <=> Passed(x)
    BY DEF Passed
  <1>2. Waiting(x)' = Waiting(x)
    BY DEF Waiting, HeldRows
  <1>3. Future(x)' /\ Marked(x)'
    BY <1>1 DEF Future, Marked
  <1>4. Written(x)'
    BY <1>2 DEF Written
  <1>5. Dispatched(x)'
    BY <1>1, <1>2 DEF Dispatched
  <1>6. AckedIsStored(x)' /\ Terminated(x)'
    BY DEF AckedIsStored, Terminated
  <1> QED BY <1>3, <1>4, <1>5, <1>6

\* Futures that have ended stay as they are.
LEMMA JoinedKept ==
    ASSUME RunTypes, Joined, UNCHANGED <<loopVars, conf, asked>>,
           \A b \in Branches : fut[b] # "run" => fut'[b] = fut[b],
           \A p \in Plugins : Returned(p) => disp'[p] = disp[p]
    PROVE  Joined'
  <1>1. UNCHANGED <<joined, firstError, pluginError, interrupted, stage, conf, asked>>
    BY DEF loopVars
  <1>2. joined.sinks \subseteq Branches /\ joined.plugins \subseteq Plugins
    BY DEF RunTypes
  <1>3. \A b \in joined'.sinks : fut'[b] # "run" /\ (fut'[b] = "err" => firstError')
    BY <1>1, <1>2 DEF Joined
  <1>4. \A p \in joined'.plugins :
           Returned(p)' /\ (disp'[p] = "err" => firstError' \/ pluginError')
    BY <1>1, <1>2 DEF Joined, Returned
  <1> QED BY <1>1, <1>3, <1>4 DEF Joined, Drains

\* A source that had stopped for a reason keeps it.
LEMMA StoppedKept ==
    ASSUME Stopped, UNCHANGED <<shutdown, asked, loopVars, conf>>,
           \A b \in Branches : fut[b] # "run" => fut'[b] = fut[b],
           \A b \in Branches : src[b] # "run" => made'[b] = made[b],
           \A b \in Branches : src[b] = "run" /\ src'[b] # "run" =>
              (conf.job /\ made'[b] = MaxBatches) \/ asked # {} \/ firstError \/ fut[b] = "err"
    PROVE  Stopped'
  BY DEF Stopped, loopVars

-----------------------------------------------------------------------------
(* The types are kept.                                                        *)

\* The steps of a branch or of a plugin that need no look into the channels.
LEMMA BranchTypes ==
    ASSUME RunTypes, NEW b \in Branches,
           \/ Emit(b) \/ EndStream(b) \/ ReceiverGone(b) \/ FlushMark(b) \/ CommitTail(b)
           \/ GiveUp(b) \/ EngineWrite(b) \/ Fails(b) \/ Completes(b)
    PROVE  RunTypes'
  <1> USE DEF RunTypes, clockVars, srcVars, sinkVars, plugVars, ackVars, loopVars
  <1>1. CASE Emit(b)
    BY <1>1 DEF Emit
  <1>2. CASE EndStream(b) \/ ReceiverGone(b) \/ GiveUp(b)
    BY <1>2 DEF EndStream, ReceiverGone, GiveUp
  <1>3. CASE FlushMark(b)
    BY <1>3 DEF FlushMark
  <1>4. CASE CommitTail(b)
    BY <1>4 DEF CommitTail
  <1>5. CASE EngineWrite(b)
    <2>1. CASE held[b] = "rows"
      <3>1. /\ taken' = [taken EXCEPT ![b] = @ + 1] /\ stored' = [stored EXCEPT ![b] = @ + 1]
            /\ held' = [held EXCEPT ![b] = "none"]
            /\ UNCHANGED <<conf, shutdown, src, made, committed, fut, inq, disp, outq, expected,
                           acked, terminal, finalized, joined, firstError, pluginError,
                           interrupted>>
        BY <1>5, <2>1 DEF EngineWrite
      <3>2. taken' \in [Branches -> Nat] /\ stored' \in [Branches -> Nat]
        BY <3>1
      <3>3. held' \in [Branches -> {"none", "rows", "mark"}]
        BY <3>1
      <3> QED BY <3>1, <3>2, <3>3
    <2>2. CASE held[b] # "rows"
      BY <1>5, <2>2 DEF EngineWrite, Finalizes
    <2> QED BY <2>1, <2>2
  <1>6. CASE Fails(b)
    BY <1>6 DEF Fails
  <1>7. CASE Completes(b)
    BY <1>7 DEF Completes, Finalizes
  <1> QED BY <1>1, <1>2, <1>3, <1>4, <1>5, <1>6, <1>7

\* The steps around a plugin's channels.
LEMMA PluginTypes ==
    ASSUME RunTypes, NEW p \in Plugins, p \in Branches,
           \/ SendToPlugin(p) \/ Forward(p) \/ PluginTakes(p) \/ PluginFlushes(p)
           \/ PluginFails(p) \/ PluginDiscards(p) \/ PluginTerminates(p) \/ PluginQuits(p)
    PROVE  RunTypes'
  <1> USE DEF RunTypes, clockVars, srcVars, sinkVars, plugVars, ackVars, loopVars
  <1>0. inq[p] \in Seq(Letters) /\ outq[p] \in Seq({"ack", "fail"})
    OBVIOUS
  <1>a. inq[p] # <<>> => Tail(inq[p]) \in Seq(Letters)
    BY <1>0
  <1>b. \A x \in {"ack", "fail"} : Append(outq[p], x) \in Seq({"ack", "fail"})
    BY <1>0
  <1>1. CASE SendToPlugin(p)
    <2>1. held[p] \in Letters
      BY <1>1 DEF SendToPlugin, Letters
    <2>2. Append(inq[p], held[p]) \in Seq(Letters)
      BY <2>1, <1>0
    <2> QED BY <1>1, <2>2 DEF SendToPlugin
  <1>2. CASE Forward(p)
    <2>1. Tail(outq[p]) \in Seq({"ack", "fail"})
      BY <1>0, <1>2 DEF Forward
    <2> QED BY <1>2, <2>1 DEF Forward, Finalizes
  <1>3. CASE PluginTakes(p)
    BY <1>3, <1>a DEF PluginTakes, Dispatch
  <1>4. CASE PluginFlushes(p)
    BY <1>4, <1>a, <1>b DEF PluginFlushes, Dispatch
  <1>5. CASE PluginFails(p)
    BY <1>5, <1>a, <1>b DEF PluginFails, Dispatch
  <1>6. CASE PluginDiscards(p)
    BY <1>6, <1>a DEF PluginDiscards, Dispatch
  <1>7. CASE PluginTerminates(p)
    <2>1. CASE stored' = [stored EXCEPT ![p] = taken[p]] /\ disp' = [disp EXCEPT ![p] = "ok"]
      BY <1>7, <2>1, <1>a DEF PluginTerminates, Dispatch
    <2>2. CASE disp' = [disp EXCEPT ![p] = "err"] /\ UNCHANGED stored
      BY <1>7, <2>2, <1>a DEF PluginTerminates, Dispatch
    <2> QED BY <1>7, <2>1, <2>2 DEF PluginTerminates
  <1>8. CASE PluginQuits(p)
    BY <1>8 DEF PluginQuits
  <1> QED BY <1>1, <1>2, <1>3, <1>4, <1>5, <1>6, <1>7, <1>8

-----------------------------------------------------------------------------
(* The steps of a source.                                                     *)

\* Emit: the channel holds batches only, for the Marker comes from a source that
\* has stopped and Terminate is sent when no future runs.
LEMMA EmitInv ==
    ASSUME RunInv, NEW b \in Branches, Emit(b)
    PROVE  RunInv'
  <1> USE DEF srcVars, sinkVars, plugVars, ackVars
  <1>1. RunTypes'
    BY BranchTypes DEF RunInv
  <1>2. /\ src[b] = "run" /\ fut[b] = "run" /\ held[b] = "none"
        /\ made' = [made EXCEPT ![b] = @ + 1] /\ held' = [held EXCEPT ![b] = "rows"]
        /\ UNCHANGED <<conf, shutdown, asked, loopVars, src, fut, taken, stored, disp, inq, outq,
                       committed, acked, expected, finalized, joined>>
    BY DEF Emit, loopVars
  <1>3. /\ made[b] \in Nat /\ made'[b] = made[b] + 1 /\ held'[b] = "rows"
        /\ taken[b] \in Nat /\ taken'[b] = taken[b] /\ Waiting(b) \in Int
        /\ b \in Plugins => inq[b] \in Seq(Letters)
    BY <1>2 DEF RunInv, RunTypes, Waiting, HeldRows
  <1>4. BranchInv(b)
    BY DEF RunInv
  <1>5. ~Passed(b) /\ ~Passed(b)'
    BY <1>2, <1>4 DEF BranchInv, Marked, Passed
  <1>6. Waiting(b)' = Waiting(b)
    BY <1>2, <1>3 DEF Waiting, HeldRows
  <1>7. joined.sinks # Branches
    BY <1>2 DEF RunInv, Joined
  <1>8. Dispatched(b)'
    <2> SUFFICES ASSUME b \in Plugins, disp[b] = "run"
                 PROVE  Rows(inq[b], Waiting(b)) /\ Waiting(b) = Len(inq[b])
      BY <1>2, <1>6 DEF Dispatched
    <2>1. Rows(inq[b], Waiting(b))
      BY <1>2, <1>4 DEF BranchInv, Dispatched
    <2>2. ~Has(inq[b], "mark") /\ ~Has(inq[b], "terminate")
      BY <1>4, <1>5, <1>7 DEF BranchInv, Passed, Terminated
    <2> QED BY <2>1, <2>2, <1>3, OnlyRows
  <1>9. BranchInv(b)'
    <2>1. Future(b)' /\ Marked(b)' /\ AckedIsStored(b)'
      BY <1>2, <1>3, <1>4, <1>5 DEF BranchInv, Future, Marked, AckedIsStored, Passed
    <2>2. Written(b)' /\ Terminated(b)'
      BY <1>2, <1>4, <1>6, <1>7 DEF BranchInv, Written, Terminated
    <2> QED BY <2>1, <2>2, <1>8 DEF BranchInv
  <1>10. ASSUME NEW x \in Branches, x # b
         PROVE  BranchInv(x)'
    BY <1>2, <1>10, Elsewhere DEF Untouched, RunInv, RunTypes
  <1>11. Finalized'
    BY <1>2 DEF RunInv, Finalized
  <1>12. Joined'
    BY <1>2, JoinedKept DEF RunInv
  <1>13. \A x \in Branches : src[x] # "run" => made'[x] = made[x]
    BY <1>2 DEF RunInv, RunTypes
  <1>14. Stopped'
    BY <1>2, <1>13, StoppedKept DEF RunInv
  <1> QED BY <1>1, <1>9, <1>10, <1>11, <1>12, <1>14 DEF RunInv

\* EndStream, ReceiverGone, FlushMark, CommitTail and GiveUp.
LEMMA SourceInv ==
    ASSUME RunInv, NEW b \in Branches,
           EndStream(b) \/ ReceiverGone(b) \/ FlushMark(b) \/ CommitTail(b) \/ GiveUp(b)
    PROVE  RunInv'
  <1> USE DEF srcVars, sinkVars, plugVars, ackVars
  <1>1. RunTypes'
    BY BranchTypes DEF RunInv
  <1>2. /\ UNCHANGED <<conf, shutdown, asked, loopVars, fut, made, taken, stored, disp, inq, outq,
                       acked, expected, finalized, joined>>
        /\ Up
    BY DEF EndStream, ReceiverGone, FlushMark, CommitTail, GiveUp, loopVars
  <1>3. BranchInv(b)
    BY DEF RunInv
  <1>4. /\ \A x \in Branches : x # b => src'[x] = src[x] /\ held'[x] = held[x]
        /\ src'[b] \in {"flush", "await", "done"} /\ src[b] # "done"
        /\ src[b] # "run" => src'[b] \in {"await", "done"}
    BY DEF EndStream, ReceiverGone, FlushMark, CommitTail, GiveUp, RunInv, RunTypes
  <1>5. \/ held'[b] = held[b]
        \/ fut[b] = "run" /\ held[b] = "none" /\ held'[b] = "mark" /\ src'[b] = "await"
    BY DEF EndStream, ReceiverGone, FlushMark, CommitTail, GiveUp, RunInv, RunTypes
  <1>6. (Passed(b)' <=> Passed(b)) /\ Waiting(b)' = Waiting(b)
    BY <1>2, <1>5 DEF Passed, Waiting, HeldRows
  <1>7. held'[b] = "mark" \/ Passed(b) => src'[b] \in {"await", "done"} /\ held'[b] # "rows"
    <2>1. held[b] = "mark" \/ Passed(b) => src[b] \in {"await", "done"} /\ held[b] # "rows"
      BY <1>3 DEF BranchInv, Marked
    <2> QED BY <2>1, <1>4, <1>5
  <1>8. BranchInv(b)'
    <2>1. Future(b)' /\ Marked(b)' /\ AckedIsStored(b)'
      BY <1>2, <1>3, <1>4, <1>5, <1>6, <1>7 DEF BranchInv, Future, Marked, AckedIsStored
    <2>2. Written(b)' /\ Terminated(b)' /\ Dispatched(b)'
      BY <1>2, <1>3, <1>5, <1>6 DEF BranchInv, Written, Terminated, Dispatched
    <2> QED BY <2>1, <2>2 DEF BranchInv
  <1>9. ASSUME NEW x \in Branches, x # b
        PROVE  BranchInv(x)'
    BY <1>2, <1>4, <1>9, Elsewhere DEF Untouched, RunInv
  <1>10. Finalized'
    <2>1. \A x \in Branches : src'[x] # "done" => src[x] # "done"
      BY <1>4
    <2>2. CASE CommitTail(b)
      <3>1. b \in acked
        BY <2>2 DEF CommitTail, RunInv, Finalized
      <3>2. \A x \in Branches : committed'[x] => committed[x] \/ x = b
        BY <2>2 DEF CommitTail, RunInv, RunTypes
      <3> QED BY <1>2, <2>1, <3>1, <3>2 DEF RunInv, Finalized
    <2>3. CASE UNCHANGED committed
      BY <1>2, <2>1, <2>3 DEF RunInv, Finalized
    <2> QED BY <2>2, <2>3 DEF EndStream, ReceiverGone, FlushMark, GiveUp
  <1>11. Joined'
    BY <1>2, JoinedKept DEF RunInv
  <1>12. src[b] = "run" =>
            (conf.job /\ made'[b] = MaxBatches) \/ asked # {} \/ firstError \/ fut[b] = "err"
    <2>1. CASE EndStream(b) /\ shutdown /\ joined.sinks = Branches
      <3>1. fut[b] # "run"
        BY <2>1 DEF RunInv, Joined
      <3>2. fut[b] # "ok"
        BY <2>1, <1>3 DEF EndStream, BranchInv, Future
      <3> QED BY <3>1, <3>2 DEF RunInv, RunTypes
    <2>2. CASE EndStream(b) /\ ~(shutdown /\ joined.sinks = Branches)
      BY <2>2 DEF EndStream, RunInv, Stopped
    <2>3. CASE ReceiverGone(b)
      BY <2>3 DEF ReceiverGone
    <2> QED BY <2>1, <2>2, <2>3 DEF FlushMark, CommitTail, GiveUp
  <1>13. Stopped'
    BY <1>2, <1>4, <1>12, StoppedKept DEF RunInv
  <1> QED BY <1>1, <1>8, <1>9, <1>10, <1>11, <1>13 DEF RunInv

-----------------------------------------------------------------------------
(* The steps of a sink future and of the ack forwarder.                       *)

\* EngineWrite: the Marker comes behind everything the source has emitted.
LEMMA EngineWriteInv ==
    ASSUME RunInv, NEW b \in Branches, EngineWrite(b)
    PROVE  RunInv'
  <1> USE DEF srcVars, sinkVars, plugVars, ackVars
  <1>1. RunTypes'
    BY BranchTypes DEF RunInv
  <1>2. /\ b \notin Plugins /\ fut[b] = "run" /\ held[b] # "none"
        /\ held' = [held EXCEPT ![b] = "none"]
        /\ UNCHANGED <<conf, shutdown, asked, loopVars, src, made, committed, fut, disp, inq,
                       outq, expected, joined>>
    BY DEF EngineWrite, loopVars
  <1>3. BranchInv(b)
    BY DEF RunInv
  <1>4. /\ held'[b] = "none" /\ held[b] \in {"rows", "mark"}
        /\ made[b] \in Nat /\ taken[b] \in Nat /\ stored[b] \in Nat
        /\ \A x \in Branches : x # b => held'[x] = held[x]
    BY <1>2 DEF RunInv, RunTypes
  <1>5. stored[b] = taken[b] /\ made[b] - taken[b] - HeldRows(b) = 0
    BY <1>2, <1>3 DEF BranchInv, Written, Waiting
  <1>6. Joined'
    BY <1>2, JoinedKept DEF RunInv
  <1>7. Stopped'
    BY <1>2, StoppedKept DEF RunInv
  <1>8. CASE held[b] = "rows"
    <2>1. /\ taken' = [taken EXCEPT ![b] = @ + 1] /\ stored' = [stored EXCEPT ![b] = @ + 1]
          /\ UNCHANGED <<acked, finalized>>
      BY <1>8 DEF EngineWrite
    <2>2. /\ taken'[b] = taken[b] + 1 /\ stored'[b] = stored[b] + 1
          /\ \A x \in Branches : x # b => taken'[x] = taken[x] /\ stored'[x] = stored[x]
      BY <2>1, <1>4 DEF RunInv, RunTypes
    <2>3. ~Passed(b) /\ ~Passed(b)'
      BY <1>2, <1>3, <1>8, <2>1 DEF BranchInv, Marked, Passed
    <2>4. Written(b)'
      BY <1>2, <1>4, <1>5, <1>8, <2>2 DEF Written, Waiting, HeldRows
    <2>5. BranchInv(b)'
      BY <1>2, <1>3, <1>4, <2>1, <2>3, <2>4
      DEF BranchInv, Future, Marked, Dispatched, AckedIsStored, Terminated, Passed
    <2>6. ASSUME NEW x \in Branches, x # b
          PROVE  BranchInv(x)'
      BY <1>2, <1>4, <2>1, <2>2, <2>6, Elsewhere DEF Untouched, RunInv
    <2>7. Finalized'
      BY <1>2, <2>1 DEF RunInv, Finalized
    <2> QED BY <1>1, <1>6, <1>7, <2>5, <2>6, <2>7 DEF RunInv
  <1>9. CASE held[b] = "mark"
    <2>1. /\ acked' = acked \cup {b} /\ finalized' = Finalizes(expected, acked \cup {b})
          /\ UNCHANGED <<taken, stored>>
      BY <1>9 DEF EngineWrite
    <2>2. stored[b] = made[b] /\ taken[b] = made[b]
      BY <1>4, <1>5, <1>9 DEF HeldRows
    <2>3. src[b] \in {"await", "done"}
      BY <1>3, <1>9 DEF BranchInv, Marked
    <2>4. Written(b)'
      BY <1>2, <1>4, <1>5, <1>9, <2>1 DEF Written, Waiting, HeldRows
    <2>5. BranchInv(b)'
      BY <1>2, <1>3, <1>4, <2>1, <2>2, <2>3, <2>4
      DEF BranchInv, Future, Marked, Dispatched, AckedIsStored, Terminated
    <2>6. ASSUME NEW x \in Branches, x # b
          PROVE  BranchInv(x)'
      BY <1>2, <1>4, <2>1, <2>6, Elsewhere DEF Untouched, RunInv
    <2>7. Finalized'
      <3>1. \A x \in Branches : src[x] # "done" => x \in expected
        BY DEF RunInv, BranchInv, Future
      <3> QED BY <1>2, <2>1, <3>1 DEF RunInv, Finalized, Finalizes
    <2> QED BY <1>1, <1>6, <1>7, <2>5, <2>6, <2>7 DEF RunInv
  <1> QED BY <1>4, <1>8, <1>9

\* EngineFails, SendFails and WriteFails.
LEMMA FailsInv ==
    ASSUME RunInv, NEW b \in Branches, fut[b] = "run", Fails(b)
    PROVE  RunInv'
  <1> USE DEF srcVars, sinkVars, plugVars, ackVars
  <1>1. RunTypes'
    BY BranchTypes DEF RunInv
  <1>2. /\ fut' = [fut EXCEPT ![b] = "err"] /\ held' = [held EXCEPT ![b] = "none"]
        /\ UNCHANGED <<conf, shutdown, asked, loopVars, src, made, committed, taken, stored, disp,
                       inq, outq, acked, expected, finalized, joined>>
    BY DEF Fails, loopVars
  <1>3. BranchInv(b)
    BY DEF RunInv
  <1>4. /\ fut'[b] = "err" /\ held'[b] = "none"
        /\ \A x \in Branches : x # b => fut'[x] = fut[x] /\ held'[x] = held[x]
    BY <1>2 DEF RunInv, RunTypes
  <1>5. Passed(b)' <=> Passed(b)
    BY <1>2 DEF Passed
  <1>6. Passed(b) => Waiting(b)' = Waiting(b)
    BY <1>2, <1>3, <1>4 DEF BranchInv, Marked, Waiting, HeldRows
  <1>7. BranchInv(b)'
    <2>1. Future(b)' /\ Written(b)' /\ AckedIsStored(b)' /\ Terminated(b)'
      BY <1>2, <1>3, <1>4 DEF BranchInv, Future, Written, AckedIsStored, Terminated
    <2>2. Marked(b)' /\ Dispatched(b)'
      BY <1>2, <1>3, <1>4, <1>5, <1>6 DEF BranchInv, Marked, Dispatched
    <2> QED BY <2>1, <2>2 DEF BranchInv
  <1>8. ASSUME NEW x \in Branches, x # b
        PROVE  BranchInv(x)'
    BY <1>2, <1>4, <1>8, Elsewhere DEF Untouched, RunInv
  <1>9. Finalized'
    BY <1>2 DEF RunInv, Finalized
  <1>10. \A x \in Branches : fut[x] # "run" => fut'[x] = fut[x]
    BY <1>4
  <1>11. Joined'
    BY <1>2, <1>10, JoinedKept DEF RunInv
  <1>12. Stopped'
    BY <1>2, <1>10, StoppedKept DEF RunInv
  <1> QED BY <1>1, <1>7, <1>8, <1>9, <1>11, <1>12 DEF RunInv

\* Completes: the sink leaves the expected ones when its source is done, so that a
\* source that waits is still among them.
LEMMA CompletesInv ==
    ASSUME RunInv, NEW b \in Branches, Completes(b)
    PROVE  RunInv'
  <1> USE DEF srcVars, sinkVars, plugVars, ackVars
  <1>1. RunTypes'
    BY BranchTypes DEF RunInv
  <1>2. /\ fut[b] = "run" /\ held[b] = "none" /\ src[b] = "done"
        /\ fut' = [fut EXCEPT ![b] = "ok"] /\ expected' = expected \ {b}
        /\ finalized' = Finalizes(expected \ {b}, acked)
        /\ UNCHANGED <<conf, shutdown, asked, loopVars, src, made, committed, held, taken, stored,
                       disp, inq, outq, acked, joined>>
    BY DEF Completes, EndsWell, loopVars
  <1>3. BranchInv(b)
    BY DEF RunInv
  <1>4. fut'[b] = "ok" /\ \A x \in Branches : x # b => fut'[x] = fut[x]
    BY <1>2 DEF RunInv, RunTypes
  <1>5. (Passed(b)' <=> Passed(b)) /\ Waiting(b)' = Waiting(b)
    BY <1>2 DEF Passed, Waiting, HeldRows
  <1>6. joined.sinks # Branches
    BY <1>2 DEF RunInv, Joined
  <1>7. BranchInv(b)'
    <2>1. Future(b)' /\ Written(b)' /\ AckedIsStored(b)' /\ Terminated(b)'
      BY <1>2, <1>3, <1>4, <1>5, <1>6 DEF BranchInv, Future, Written, AckedIsStored, Terminated
    <2>2. Marked(b)' /\ Dispatched(b)'
      BY <1>2, <1>3, <1>4, <1>5 DEF BranchInv, Marked, Dispatched
    <2> QED BY <2>1, <2>2 DEF BranchInv
  <1>8. ASSUME NEW x \in Branches, x # b
        PROVE  BranchInv(x)'
    BY <1>2, <1>4, <1>8, Elsewhere DEF Untouched, RunInv
  <1>9. Finalized'
    <2>1. \A x \in Branches : src[x] # "done" => x \in expected \ {b}
      BY <1>2 DEF RunInv, BranchInv, Future
    <2> QED BY <1>2, <2>1 DEF RunInv, Finalized, Finalizes
  <1>10. \A x \in Branches : fut[x] # "run" => fut'[x] = fut[x]
    BY <1>2, <1>4
  <1>11. Joined'
    BY <1>2, <1>10, JoinedKept DEF RunInv
  <1>12. Stopped'
    BY <1>2, <1>10, StoppedKept DEF RunInv
  <1> QED BY <1>1, <1>7, <1>8, <1>9, <1>11, <1>12 DEF RunInv

\* send_to_plugin_with: what the future held is now the last in the channel.
LEMMA SendToPluginInv ==
    ASSUME RunInv, NEW p \in Plugins, SendToPlugin(p)
    PROVE  RunInv'
  <1> USE DEF srcVars, sinkVars, plugVars, ackVars
  <1>0. p \in Branches
    BY RunLoopAssumption
  <1>1. RunTypes'
    BY <1>0, PluginTypes DEF RunInv
  <1>2. /\ fut[p] = "run" /\ held[p] # "none"
        /\ inq' = [inq EXCEPT ![p] = Append(@, held[p])]
        /\ held' = [held EXCEPT ![p] = "none"]
        /\ UNCHANGED <<conf, shutdown, asked, loopVars, src, made, committed, fut, taken, stored,
                       disp, outq, acked, expected, finalized, joined>>
    BY DEF SendToPlugin, loopVars
  <1>3. BranchInv(p)
    BY <1>0 DEF RunInv
  <1>4. /\ inq[p] \in Seq(Letters) /\ inq'[p] = Append(inq[p], held[p])
        /\ held[p] \in {"rows", "mark"} /\ held[p] \in Letters /\ held'[p] = "none"
        /\ made[p] \in Nat /\ taken[p] \in Nat
        /\ \A x \in Branches : x # p => held'[x] = held[x] /\ (x \in Plugins => inq'[x] = inq[x])
    BY <1>0, <1>2 DEF RunInv, RunTypes, Letters
  <1>5. \A x : Has(inq'[p], x) <=> (Has(inq[p], x) \/ held[p] = x)
    BY <1>4, HasAppend
  <1>6. Passed(p)' <=> (Passed(p) \/ held[p] = "mark")
    BY <1>2, <1>5 DEF Passed
  <1>7. Waiting(p) \in Int /\ Waiting(p)' = IF held[p] = "rows" THEN Waiting(p) + 1 ELSE Waiting(p)
    BY <1>2, <1>4 DEF Waiting, HeldRows
  <1>8. Dispatched(p)'
    <2> SUFFICES ASSUME disp[p] = "run"
                 PROVE  Rows(inq'[p], Waiting(p)')
      BY <1>2, <1>4 DEF Dispatched
    <2>1. Rows(inq[p], Waiting(p)) /\ (held[p] = "rows" => Waiting(p) = Len(inq[p]))
      BY <1>2, <1>3 DEF BranchInv, Dispatched
    <2> QED BY <1>4, <1>7, <2>1, RowsAppend
  <1>9. BranchInv(p)'
    <2>1. Future(p)' /\ Written(p)' /\ AckedIsStored(p)' /\ Terminated(p)'
      BY <1>2, <1>3, <1>4, <1>5 DEF BranchInv, Future, Written, AckedIsStored, Terminated
    <2>2. Marked(p)'
      BY <1>2, <1>3, <1>4, <1>6 DEF BranchInv, Marked
    <2> QED BY <2>1, <2>2, <1>8 DEF BranchInv
  <1>10. ASSUME NEW x \in Branches, x # p
         PROVE  BranchInv(x)'
    BY <1>2, <1>4, <1>10, Elsewhere DEF Untouched, RunInv
  <1>11. Finalized'
    BY <1>2 DEF RunInv, Finalized
  <1>12. Joined'
    BY <1>2, JoinedKept DEF RunInv
  <1>13. Stopped'
    BY <1>2, StoppedKept DEF RunInv
  <1> QED BY <1>1, <1>9, <1>10, <1>11, <1>12, <1>13 DEF RunInv

\* Forward: the ack that was in the channel counts for the coordinator now.
LEMMA ForwardInv ==
    ASSUME RunInv, NEW p \in Plugins, Forward(p)
    PROVE  RunInv'
  <1> USE DEF srcVars, sinkVars, plugVars, ackVars
  <1>0. p \in Branches
    BY RunLoopAssumption
  <1>1. RunTypes'
    BY <1>0, PluginTypes DEF RunInv
  <1>2. /\ outq[p] # <<>> /\ outq' = [outq EXCEPT ![p] = Tail(@)]
        /\ UNCHANGED <<conf, shutdown, asked, loopVars, src, made, committed, held, fut, taken,
                       stored, disp, inq, expected, joined>>
    BY DEF Forward, loopVars
  <1>3. \/ /\ Head(outq[p]) = "ack" /\ acked' = acked \cup {p}
           /\ finalized' = Finalizes(expected, acked \cup {p})
        \/ Head(outq[p]) # "ack" /\ UNCHANGED <<acked, finalized>>
    BY DEF Forward
  <1>4. BranchInv(p)
    BY <1>0 DEF RunInv
  <1>5. /\ outq[p] \in Seq({"ack", "fail"}) /\ outq'[p] = Tail(outq[p])
        /\ \A x \in Branches : x # p => (x \in Plugins => outq'[x] = outq[x])
    BY <1>0, <1>2 DEF RunInv, RunTypes
  <1>6. \A x : Has(outq[p], x) <=> (Head(outq[p]) = x \/ Has(outq'[p], x))
    BY <1>2, <1>5, HasTail
  <1>7. p \in acked' \/ Has(outq'[p], "ack") => p \in acked \/ Has(outq[p], "ack")
    BY <1>3, <1>6
  <1>8. (Passed(p)' => Passed(p)) /\ Waiting(p)' = Waiting(p)
    BY <1>2, <1>7 DEF Passed, Waiting, HeldRows
  <1>9. BranchInv(p)'
    <2>1. Future(p)' /\ Written(p)' /\ AckedIsStored(p)' /\ Terminated(p)'
      BY <1>2, <1>4, <1>7, <1>8 DEF BranchInv, Future, Written, AckedIsStored, Terminated
    <2>2. Marked(p)' /\ Dispatched(p)'
      BY <1>2, <1>4, <1>8 DEF BranchInv, Marked, Dispatched
    <2> QED BY <2>1, <2>2 DEF BranchInv
  <1>10. ASSUME NEW x \in Branches, x # p
         PROVE  BranchInv(x)'
    BY <1>2, <1>3, <1>5, <1>10, Elsewhere DEF Untouched, RunInv
  <1>11. Finalized'
    <2>1. \A x \in Branches : src[x] # "done" => x \in expected
      BY DEF RunInv, BranchInv, Future
    <2>2. CASE acked' = acked \cup {p} /\ finalized' = Finalizes(expected, acked \cup {p})
      BY <1>2, <2>1, <2>2 DEF RunInv, Finalized, Finalizes
    <2>3. CASE UNCHANGED <<acked, finalized>>
      BY <1>2, <2>3 DEF RunInv, Finalized
    <2> QED BY <1>3, <2>2, <2>3
  <1>12. Joined'
    BY <1>2, JoinedKept DEF RunInv
  <1>13. Stopped'
    BY <1>2, StoppedKept DEF RunInv
  <1> QED BY <1>1, <1>9, <1>10, <1>11, <1>12, <1>13 DEF RunInv

-----------------------------------------------------------------------------
(* The steps of a plugin's dispatcher.                                        *)

\* What those that take the head of the input have in common.
LEMMA DispatchFacts ==
    ASSUME RunInv, NEW p \in Plugins, Dispatch(p)
    PROVE  /\ p \in Branches /\ BranchInv(p)
           /\ UNCHANGED <<conf, shutdown, asked, loopVars, src, made, committed, held, fut, acked,
                          expected, finalized, joined>>
           /\ inq[p] # <<>> /\ inq[p] \in Seq(Letters) /\ inq'[p] = Tail(inq[p])
           /\ \A x \in Plugins : x # p => inq'[x] = inq[x]
           /\ \A x : Has(inq[p], x) <=> (Head(inq[p]) = x \/ Has(inq'[p], x))
           /\ Waiting(p) \in Int /\ made[p] \in Nat /\ taken[p] \in Nat
  <1>1. p \in Branches
    BY RunLoopAssumption
  <1>2. /\ UNCHANGED <<conf, shutdown, asked, loopVars, src, made, committed, held, fut, acked,
                       expected, finalized, joined>>
        /\ inq[p] # <<>> /\ inq' = [inq EXCEPT ![p] = Tail(@)]
    BY DEF Dispatch, srcVars, sinkVars, ackVars, loopVars
  <1>3. /\ inq[p] \in Seq(Letters) /\ inq'[p] = Tail(inq[p])
        /\ \A x \in Plugins : x # p => inq'[x] = inq[x]
    BY <1>2 DEF RunInv, RunTypes
  <1>4. \A x : Has(inq[p], x) <=> (Head(inq[p]) = x \/ Has(inq'[p], x))
    BY <1>2, <1>3, HasTail
  <1>5. Waiting(p) \in Int /\ made[p] \in Nat /\ taken[p] \in Nat
    BY <1>1 DEF Waiting, HeldRows, RunInv, RunTypes
  <1> QED BY <1>1, <1>2, <1>3, <1>4, <1>5 DEF RunInv

\* It suffices to look at the plugin's own branch.
LEMMA DispatchInv ==
    ASSUME RunInv, NEW p \in Plugins, Dispatch(p), RunTypes', BranchInv(p)',
           \A x \in Branches : x # p => taken'[x] = taken[x] /\ stored'[x] = stored[x],
           \A x \in Plugins : x # p => disp'[x] = disp[x] /\ outq'[x] = outq[x],
           Returned(p) => disp'[p] = disp[p]
    PROVE  RunInv'
  <1>1. /\ UNCHANGED <<conf, shutdown, asked, loopVars, src, made, committed, held, fut, acked,
                       expected, finalized, joined>>
        /\ \A x \in Plugins : x # p => inq'[x] = inq[x]
    BY DispatchFacts
  <1>2. ASSUME NEW x \in Branches, x # p
        PROVE  BranchInv(x)'
    BY <1>1, <1>2, Elsewhere DEF Untouched, RunInv
  <1>3. Finalized'
    BY <1>1 DEF RunInv, Finalized
  <1>4. \A x \in Plugins : Returned(x) => disp'[x] = disp[x]
    OBVIOUS
  <1>5. Joined'
    BY <1>1, <1>4, JoinedKept DEF RunInv
  <1>6. Stopped'
    BY <1>1, StoppedKept DEF RunInv
  <1> QED BY <1>2, <1>3, <1>5, <1>6 DEF RunInv

\* PluginTakes: a batch at the head means that no Marker was acked.
LEMMA PluginTakesInv ==
    ASSUME RunInv, NEW p \in Plugins, PluginTakes(p)
    PROVE  RunInv'
  <1> USE DispatchFacts
  <1>1. /\ Dispatch(p) /\ disp[p] = "run" /\ Head(inq[p]) = "rows"
        /\ taken' = [taken EXCEPT ![p] = @ + 1]
        /\ UNCHANGED <<disp, stored, outq>>
    BY DEF PluginTakes
  <1>2. RunTypes'
    BY <1>1, PluginTypes DEF RunInv
  <1>3. taken'[p] = taken[p] + 1 /\ \A x \in Branches : x # p => taken'[x] = taken[x]
    BY <1>1 DEF RunInv, RunTypes
  <1>4. Waiting(p)' = Waiting(p) - 1
    <2>1. made'[p] = made[p] /\ held'[p] = held[p] /\ made[p] \in Nat /\ taken[p] \in Nat
      BY <1>1
    <2>2. HeldRows(p)' = HeldRows(p) /\ HeldRows(p) \in Nat
      BY <2>1 DEF HeldRows
    <2> QED BY <1>3, <2>1, <2>2, SMTT(30) DEF Waiting
  <1>5. Has(inq'[p], "mark") => Has(inq[p], "mark")
    BY <1>1
  <1>6. Passed(p)' => Passed(p)
    BY <1>1, <1>5 DEF Passed
  <1>7. Dispatched(p)'
    <2> SUFFICES ASSUME fut[p] # "err" \/ Passed(p)
                 PROVE  /\ Rows(inq'[p], Waiting(p)')
                        /\ held[p] = "rows" => Waiting(p)' = Len(inq'[p])
      BY <1>1, <1>6 DEF Dispatched
    <2>1. Rows(inq[p], Waiting(p)) /\ (held[p] = "rows" => Waiting(p) = Len(inq[p]))
      BY <1>1 DEF BranchInv, Dispatched
    <2> QED BY <1>1, <1>4, <2>1, RowsTail
  <1>8. ~(p \in acked \/ Has(outq[p], "ack"))
    <2> SUFFICES ASSUME Passed(p), taken[p] = made[p]
                 PROVE  FALSE
      BY <1>1 DEF BranchInv, AckedIsStored, Passed
    <2>1. Rows(inq[p], Waiting(p)) /\ held[p] # "rows"
      BY <1>1 DEF BranchInv, Dispatched, Marked
    <2>2. Waiting(p) = 0
      BY <1>1, <2>1 DEF Waiting, HeldRows
    <2> QED BY <1>1, <2>1, <2>2, RowsTail DEF Rows
  <1>9. BranchInv(p)'
    <2>1. Future(p)' /\ Written(p)' /\ AckedIsStored(p)' /\ Terminated(p)'
      BY <1>1, <1>8 DEF BranchInv, Future, Written, AckedIsStored, Terminated
    <2>2. Marked(p)'
      BY <1>1, <1>6 DEF BranchInv, Marked
    <2> QED BY <2>1, <2>2, <1>7 DEF BranchInv
  <1> QED BY <1>1, <1>2, <1>3, <1>9, DispatchInv

\* PluginFlushes: a Marker at the head means that all batches were taken.
LEMMA PluginFlushesInv ==
    ASSUME RunInv, NEW p \in Plugins, PluginFlushes(p)
    PROVE  RunInv'
  <1> USE DispatchFacts
  <1>1. /\ Dispatch(p) /\ disp[p] = "run" /\ Head(inq[p]) = "mark"
        /\ stored' = [stored EXCEPT ![p] = taken[p]]
        /\ outq' = [outq EXCEPT ![p] = Append(@, "ack")]
        /\ UNCHANGED <<disp, taken>>
    BY DEF PluginFlushes
  <1>2. RunTypes'
    BY <1>1, PluginTypes DEF RunInv
  <1>3. /\ stored'[p] = taken[p] /\ \A x \in Branches : x # p => stored'[x] = stored[x]
        /\ \A x \in Plugins : x # p => outq'[x] = outq[x]
    BY <1>1 DEF RunInv, RunTypes
  <1>4. Has(inq[p], "mark") /\ (Has(inq'[p], "terminate") => Has(inq[p], "terminate"))
    BY <1>1
  <1>5. Passed(p) /\ src[p] \in {"await", "done"} /\ held[p] # "rows"
    BY <1>1, <1>4 DEF Passed, BranchInv, Marked
  <1>6. Rows(inq[p], Waiting(p))
    BY <1>1, <1>5 DEF BranchInv, Dispatched
  <1>7. Waiting(p) = 0 /\ Rows(inq'[p], Waiting(p))
    BY <1>1, <1>6, RowsTail
  <1>8. taken[p] = made[p] /\ Waiting(p)' = Waiting(p)
    BY <1>1, <1>5, <1>7 DEF Waiting, HeldRows
  <1>9. BranchInv(p)'
    <2>1. Future(p)' /\ Marked(p)' /\ Written(p)' /\ AckedIsStored(p)'
      BY <1>1, <1>3, <1>5, <1>8 DEF BranchInv, Future, Marked, Written, AckedIsStored
    <2>2. Dispatched(p)'
      BY <1>1, <1>5, <1>7, <1>8 DEF Dispatched
    <2>3. Terminated(p)'
      BY <1>1, <1>4 DEF BranchInv, Terminated
    <2> QED BY <2>1, <2>2, <2>3 DEF BranchInv
  <1> QED BY <1>1, <1>2, <1>3, <1>9, DispatchInv

\* A plugin that no longer runs neither takes nor acks.
LEMMA PluginFailsInv ==
    ASSUME RunInv, NEW p \in Plugins, PluginFails(p) \/ PluginDiscards(p)
    PROVE  RunInv'
  <1> USE DispatchFacts
  <1>1. /\ Dispatch(p) /\ disp[p] \in {"run", "discard"} /\ disp'[p] = "discard"
        /\ \/ outq' = [outq EXCEPT ![p] = Append(@, "fail")]
           \/ UNCHANGED outq
        /\ \A x \in Plugins : x # p => disp'[x] = disp[x]
        /\ UNCHANGED <<taken, stored>>
    BY DEF PluginFails, PluginDiscards, RunInv, RunTypes
  <1>2. RunTypes'
    BY <1>1, PluginTypes DEF RunInv
  <1>3. /\ outq'[p] = Append(outq[p], "fail") \/ outq'[p] = outq[p]
        /\ \A x \in Plugins : x # p => outq'[x] = outq[x]
        /\ outq[p] \in Seq({"ack", "fail"})
    BY <1>1 DEF RunInv, RunTypes
  <1>4. Has(outq'[p], "ack") <=> Has(outq[p], "ack")
    <2>1. Has(Append(outq[p], "fail"), "ack") <=> Has(outq[p], "ack")
      BY <1>3, HasAppend
    <2> QED BY <1>3, <2>1
  <1>5. /\ Has(inq'[p], "mark") => Has(inq[p], "mark")
        /\ Has(inq'[p], "terminate") => Has(inq[p], "terminate")
    BY <1>1
  <1>6. Passed(p)' => Passed(p)
    BY <1>1, <1>4, <1>5 DEF Passed
  <1>7. BranchInv(p)'
    <2>1. Future(p)' /\ Written(p)' /\ AckedIsStored(p)'
      BY <1>1, <1>4 DEF BranchInv, Future, Written, AckedIsStored
    <2>2. Marked(p)' /\ Dispatched(p)' /\ Terminated(p)'
      BY <1>1, <1>5, <1>6 DEF BranchInv, Marked, Dispatched, Terminated
    <2> QED BY <2>1, <2>2 DEF BranchInv
  <1> QED BY <1>1, <1>2, <1>3, <1>7, DispatchInv DEF Returned

\* PluginTerminates: the sinks have drained, so nothing is held and nothing is
\* behind the Terminate.
LEMMA PluginTerminatesInv ==
    ASSUME RunInv, NEW p \in Plugins, PluginTerminates(p)
    PROVE  RunInv'
  <1> USE DispatchFacts
  <1>1. /\ Dispatch(p) /\ disp[p] \in {"run", "discard"} /\ Head(inq[p]) = "terminate"
        /\ \/ /\ disp[p] = "run" /\ disp' = [disp EXCEPT ![p] = "ok"]
              /\ stored' = [stored EXCEPT ![p] = taken[p]]
           \/ disp' = [disp EXCEPT ![p] = "err"] /\ UNCHANGED stored
        /\ UNCHANGED <<taken, outq>>
    BY DEF PluginTerminates
  <1>2. RunTypes'
    BY <1>1, PluginTypes DEF RunInv
  <1>3. /\ \/ disp[p] = "run" /\ disp'[p] = "ok" /\ stored'[p] = taken[p]
           \/ disp'[p] = "err" /\ stored'[p] = stored[p]
        /\ \A x \in Branches : x # p => stored'[x] = stored[x]
        /\ \A x \in Plugins : x # p => disp'[x] = disp[x]
    BY <1>1 DEF RunInv, RunTypes
  <1>4. Has(inq[p], "terminate") /\ (Has(inq'[p], "mark") => Has(inq[p], "mark"))
    BY <1>1
  <1>5. joined.sinks = Branches
    BY <1>4 , <1>1 DEF BranchInv, Terminated
  <1>6. fut[p] # "run" /\ held[p] = "none"
    BY <1>1, <1>5 DEF RunInv, Joined, BranchInv, Future
  <1>7. ASSUME disp[p] = "run", fut[p] # "err"
        PROVE  taken[p] = made[p]
    <2>1. Rows(inq[p], Waiting(p))
      BY <1>1, <1>7 DEF BranchInv, Dispatched
    <2>2. Waiting(p) = 0
      BY <1>1, <2>1, RowsTail
    <2> QED BY <1>1, <1>6, <2>2 DEF Waiting, HeldRows
  <1>8. Passed(p)' => Passed(p)
    BY <1>1, <1>4 DEF Passed
  <1>9. BranchInv(p)'
    <2>1. Future(p)' /\ Marked(p)' /\ Written(p)' /\ Dispatched(p)'
      BY <1>1, <1>3, <1>8 DEF BranchInv, Future, Marked, Written, Dispatched
    <2>2. AckedIsStored(p)'
      BY <1>1, <1>3 DEF BranchInv, AckedIsStored
    <2>3. Terminated(p)'
      BY <1>1, <1>3, <1>5, <1>7 DEF Terminated
    <2> QED BY <2>1, <2>2, <2>3 DEF BranchInv
  <1> QED BY <1>1, <1>2, <1>3, <1>9, DispatchInv DEF Returned

\* PluginQuits: nothing is claimed of a plugin that has gone.
LEMMA PluginQuitsInv ==
    ASSUME RunInv, NEW p \in Plugins, PluginQuits(p)
    PROVE  RunInv'
  <1> USE DEF srcVars, sinkVars, plugVars, ackVars
  <1>0. p \in Branches
    BY RunLoopAssumption
  <1>1. RunTypes'
    BY <1>0, PluginTypes DEF RunInv
  <1>2. /\ disp[p] = "run" /\ disp' \in {[disp EXCEPT ![p] = "quit"], [disp EXCEPT ![p] = "err"]}
        /\ UNCHANGED <<conf, shutdown, asked, loopVars, src, made, committed, held, fut, taken,
                       stored, inq, outq, acked, expected, finalized, joined>>
    BY DEF PluginQuits, loopVars
  <1>3. disp'[p] \in {"quit", "err"} /\ \A x \in Plugins : x # p => disp'[x] = disp[x]
    BY <1>2 DEF RunInv, RunTypes
  <1>4. Passed(p)' <=> Passed(p)
    BY <1>2 DEF Passed
  <1>5. BranchInv(p)'
    <2>1. BranchInv(p)
      BY <1>0 DEF RunInv
    <2>2. Future(p)' /\ Marked(p)' /\ Written(p)' /\ Dispatched(p)'
      BY <1>2, <1>3, <1>4, <2>1 DEF BranchInv, Future, Marked, Written, Dispatched
    <2>3. AckedIsStored(p)' /\ Terminated(p)'
      BY <1>2, <1>3, <2>1 DEF BranchInv, AckedIsStored, Terminated
    <2> QED BY <2>2, <2>3 DEF BranchInv
  <1>6. ASSUME NEW x \in Branches, x # p
        PROVE  BranchInv(x)'
    BY <1>2, <1>3, <1>6, Elsewhere DEF Untouched, RunInv
  <1>7. Finalized'
    BY <1>2 DEF RunInv, Finalized
  <1>8. Joined'
    BY <1>2, <1>3, JoinedKept DEF RunInv, Returned
  <1>9. Stopped'
    BY <1>2, StoppedKept DEF RunInv
  <1> QED BY <1>1, <1>5, <1>6, <1>7, <1>8, <1>9 DEF RunInv

-----------------------------------------------------------------------------
(* The steps of the run loop.                                                 *)

\* What the loop does to the branches: nothing.
LEMMA LoopBranches ==
    ASSUME RunInv, UNCHANGED envVars, joined.sinks \subseteq joined'.sinks,
           joined'.sinks \subseteq Branches
    PROVE  /\ \A b \in Branches : BranchInv(b)'
           /\ Finalized'
  <1>1. UNCHANGED <<conf, asked, src, made, committed, held, fut, taken, stored, disp, inq, outq,
                    acked, expected, finalized>>
    BY DEF envVars, srcVars, sinkVars, plugVars, ackVars
  <1>2. \A b \in Branches : BranchInv(b)'
    BY <1>1, Elsewhere DEF Untouched, RunInv
  <1> QED BY <1>1, <1>2 DEF RunInv, Finalized

\* The sources keep their reasons to stop when the loop learns of more errors.
LEMMA LoopStopped ==
    ASSUME RunInv, UNCHANGED envVars, joined.sinks \subseteq joined'.sinks,
           joined'.sinks \subseteq Branches, firstError => firstError',
           shutdown' => shutdown \/ firstError' \/ joined'.sinks = Branches
    PROVE  Stopped'
  <1>1. UNCHANGED <<conf, asked, src, made, fut>>
    BY DEF envVars, srcVars, sinkVars
  <1>2. joined.sinks = Branches => joined'.sinks = Branches
    OBVIOUS
  <1> QED BY <1>1, <1>2 DEF RunInv, Stopped

\* JoinSink, JoinPlugin and DrainPlugin: a failure is remembered.
LEMMA JoinInv ==
    ASSUME RunInv,
           \/ \E b \in Branches : JoinSink(b)
           \/ \E p \in Plugins : JoinPlugin(p) \/ DrainPlugin(p)
    PROVE  RunInv'
  <1> USE DEF srcVars, sinkVars, plugVars, ackVars
  <1>1. /\ UNCHANGED envVars
        /\ UNCHANGED <<conf, asked, src, made, committed, held, fut, taken, stored, disp, inq, outq,
                       acked, expected, finalized, terminal, stage, interrupted>>
    BY DEF JoinSink, JoinPlugin, DrainPlugin, envVars
  <1>2. joined \in [sinks : SUBSET Branches, plugins : SUBSET Plugins]
    BY DEF RunInv, RunTypes
  <1>3. ASSUME NEW b \in Branches, JoinSink(b)
        PROVE  RunTypes' /\ Joined' /\ Stopped' /\ joined.sinks \subseteq joined'.sinks
    <2>1. /\ joined' = [joined EXCEPT !.sinks = @ \cup {b}] /\ fut[b] # "run" /\ stage = "run"
          /\ firstError' = (firstError \/ fut[b] = "err") /\ UNCHANGED pluginError
          /\ shutdown' = (shutdown \/ (fut[b] = "err" /\ ~firstError))
      BY <1>3 DEF JoinSink, FailDrain
    <2>2. /\ joined'.sinks = joined.sinks \cup {b} /\ joined'.plugins = joined.plugins
          /\ joined' \in [sinks : SUBSET Branches, plugins : SUBSET Plugins]
      BY <1>2, <2>1
    <2>3. RunTypes'
      BY <1>1, <2>1, <2>2 DEF RunInv, RunTypes
    <2>4. Joined'
      BY <1>1, <2>1, <2>2 DEF RunInv, Joined, Returned
    <2>5. Stopped'
      BY <1>1, <1>2, <2>1, <2>2, LoopStopped
    <2> QED BY <2>2, <2>3, <2>4, <2>5
  <1>4. ASSUME NEW p \in Plugins, JoinPlugin(p) \/ DrainPlugin(p)
        PROVE  RunTypes' /\ Joined' /\ Stopped' /\ joined.sinks \subseteq joined'.sinks
    <2>1. /\ joined' = [joined EXCEPT !.plugins = @ \cup {p}] /\ Returned(p)
          /\ stage \in {"run", "plugins"}
      BY <1>4 DEF JoinPlugin, DrainPlugin
    <2>2. /\ joined'.sinks = joined.sinks /\ joined'.plugins = joined.plugins \cup {p}
          /\ joined' \in [sinks : SUBSET Branches, plugins : SUBSET Plugins]
      BY <1>2, <2>1
    <2>0. {firstError, pluginError, shutdown} \subseteq BOOLEAN
      BY DEF RunInv, RunTypes
    <2>3. /\ {firstError', pluginError', shutdown'} \subseteq BOOLEAN
          /\ (firstError => firstError') /\ (pluginError => pluginError')
          /\ disp[p] = "err" => firstError' \/ pluginError'
          /\ shutdown' => shutdown \/ firstError'
      <3>1. CASE JoinPlugin(p)
        BY <2>0, <3>1 DEF JoinPlugin, FailDrain
      <3>2. CASE DrainPlugin(p)
        BY <2>0, <3>2 DEF DrainPlugin
      <3> QED BY <1>4, <3>1, <3>2
    <2>4. RunTypes'
      BY <1>1, <2>2, <2>3 DEF RunInv, RunTypes
    <2>5. Joined'
      BY <1>1, <2>1, <2>2, <2>3 DEF RunInv, Joined, Returned
    <2>6. Stopped'
      BY <1>1, <1>2, <2>2, <2>3, LoopStopped
    <2> QED BY <2>2, <2>4, <2>5, <2>6
  <1>5. RunTypes' /\ Joined' /\ Stopped' /\ joined.sinks \subseteq joined'.sinks
    BY <1>3, <1>4
  <1>6. joined'.sinks \subseteq Branches
    BY <1>5 DEF RunTypes
  <1> QED BY <1>1, <1>5, <1>6, LoopBranches DEF RunInv

\* From the teardown to the exit the loop only moves on.
LEMMA StageInv ==
    ASSUME RunInv,
           \/ Teardown \/ AwaitOver \/ LadderStep \/ LadderOver \/ TerminateOver \/ PluginsOver
           \/ CancelForwarder \/ Exit
    PROVE  RunInv'
  <1> USE DEF srcVars, sinkVars, plugVars, ackVars
  <1>1. UNCHANGED envVars /\ UNCHANGED <<joined, firstError>>
    BY DEF Teardown, AwaitOver, LadderStep, LadderOver, TerminateOver, PluginsOver,
           CancelForwarder, Exit
  <1>2. UNCHANGED <<conf, asked, src, made, committed, held, fut, taken, stored, disp, inq, outq,
                    acked, expected, finalized, terminal>>
    BY <1>1 DEF envVars
  <1>3. joined.sinks = Branches
    BY DEF Teardown, AwaitOver, LadderStep, LadderOver, TerminateOver, PluginsOver,
           CancelForwarder, Exit, RunInv, Joined
  <1>4. shutdown' \in BOOLEAN /\ pluginError' \in BOOLEAN /\ interrupted' \in BOOLEAN
    <2>1. shutdown \in BOOLEAN /\ pluginError \in BOOLEAN /\ interrupted \in BOOLEAN
      BY DEF RunInv, RunTypes
    <2>2. CASE UNCHANGED <<shutdown, pluginError, interrupted>>
      BY <2>1, <2>2
    <2>3. CASE Teardown
      BY <2>1, <2>3 DEF Teardown
    <2>4. CASE AwaitOver
      BY <2>1, <2>4 DEF AwaitOver
    <2>5. CASE PluginsOver
      <3>1. pluginError' = pluginError \/ pluginError' \in BOOLEAN
        BY <2>5, Zenon DEF PluginsOver
      <3>2. shutdown' = shutdown /\ interrupted' = interrupted
        BY <2>5 DEF PluginsOver
      <3> QED BY <2>1, <3>1, <3>2
    <2> QED BY <2>2, <2>3, <2>4, <2>5
            DEF LadderStep, LadderOver, TerminateOver, CancelForwarder, Exit
  <1>5. RunTypes'
    BY <1>1, <1>2, <1>4 DEF RunInv, RunTypes
  <1>6. (\A b \in Branches : BranchInv(b)') /\ Finalized'
    BY <1>1, <1>3, LoopBranches
  <1>7. Stopped'
    BY <1>1, <1>3, LoopStopped
  <1>8. Joined'
    <2>1. /\ \A b \in Branches : fut[b] # "run" /\ (fut[b] = "err" => firstError)
          /\ \A p \in joined.plugins :
                Returned(p) /\ (disp[p] = "err" => firstError \/ pluginError)
      BY <1>3 DEF RunInv, Joined
    <2>2. pluginError => pluginError'
      BY DEF Teardown, AwaitOver, LadderStep, LadderOver, TerminateOver, PluginsOver,
             CancelForwarder, Exit
    <2>3. /\ \A b \in joined'.sinks : fut'[b] # "run" /\ (fut'[b] = "err" => firstError')
          /\ \A p \in joined'.plugins :
                Returned(p)' /\ (disp'[p] = "err" => firstError' \/ pluginError')
      BY <1>1, <1>2, <1>3, <2>1, <2>2 DEF Returned
    <2>4. "signal" \in asked' => interrupted'
      BY <1>2 DEF Teardown, AwaitOver, LadderStep, LadderOver, TerminateOver, PluginsOver,
                  CancelForwarder, Exit, RunInv, Joined
    <2>5. stage' \in {"post", "exit0"} => joined'.plugins = Plugins \/ pluginError' \/ ~Drains'
      BY <1>1, <1>2 DEF Teardown, AwaitOver, LadderStep, LadderOver, TerminateOver, PluginsOver,
                        CancelForwarder, Exit, RunInv, Joined, Drains, Unflushed
    <2>6. stage' = "exit0" => ~firstError' /\ ~pluginError' /\ ~(conf'.job /\ interrupted')
      BY <1>1, <1>2 DEF Teardown, AwaitOver, LadderStep, LadderOver, TerminateOver, PluginsOver,
                        CancelForwarder, Exit, RunInv, Joined
    <2> QED BY <1>1, <1>3, <2>3, <2>4, <2>5, <2>6 DEF Joined
  <1> QED BY <1>5, <1>6, <1>7, <1>8 DEF RunInv

\* SendTerminate: no future can send behind it.
LEMMA SendTerminateInv ==
    ASSUME RunInv, SendTerminate
    PROVE  RunInv'
  <1> USE DEF srcVars, sinkVars, plugVars, ackVars
  <1>1. /\ stage = "terminate"
        /\ UNCHANGED <<conf, shutdown, asked, src, made, committed, held, fut, taken, stored, disp,
                       outq, acked, expected, finalized, terminal, joined, firstError,
                       pluginError, interrupted, stage>>
    BY DEF SendTerminate
  <1>2. joined.sinks = Branches
    BY <1>1 DEF RunInv, Joined
  <1>3. PICK p : inq' = [inq EXCEPT ![p] = Append(@, "terminate")] \/ inq' = inq
    BY DEF SendTerminate
  <1>4. inq \in [Plugins -> Seq(Letters)]
    BY DEF RunInv, RunTypes
  <1>5. ASSUME NEW x \in Plugins
        PROVE  /\ inq'[x] \in Seq(Letters)
               /\ inq'[x] = Append(inq[x], "terminate") \/ inq'[x] = inq[x]
    <2>1. inq'[x] = Append(inq[x], "terminate") \/ inq'[x] = inq[x]
      BY <1>3, <1>4
    <2>2. inq[x] \in Seq(Letters) /\ "terminate" \in Letters
      BY <1>4 DEF Letters
    <2>3. Append(inq[x], "terminate") \in Seq(Letters)
      BY <2>2
    <2> QED BY <2>1, <2>2, <2>3
  <1>6. RunTypes'
    <2>1. inq' \in [Plugins -> Seq(Letters)]
      BY <1>3, <1>4, <1>5
    <2> QED BY <1>1, <2>1 DEF RunInv, RunTypes
  <1>7. ASSUME NEW x \in Branches
        PROVE  BranchInv(x)'
    <2>1. BranchInv(x)
      BY DEF RunInv
    <2>2. fut[x] # "run" /\ held[x] = "none"
      BY <1>2, <2>1 DEF RunInv, Joined, BranchInv, Future
    <2>3. x \in Plugins => (Has(inq'[x], "mark") <=> Has(inq[x], "mark"))
      <3> SUFFICES ASSUME x \in Plugins
                   PROVE  Has(inq'[x], "mark") <=> Has(inq[x], "mark")
        OBVIOUS
      <3>1. inq[x] \in Seq(Letters) /\ "terminate" \in Letters
        BY <1>4 DEF Letters
      <3>2. Has(Append(inq[x], "terminate"), "mark") <=> Has(inq[x], "mark")
        BY <3>1, HasAppend
      <3> QED BY <1>5, <3>2
    <2>4. (Passed(x)' <=> Passed(x)) /\ Waiting(x)' = Waiting(x)
      BY <1>1, <2>3 DEF Passed, Waiting, HeldRows
    <2>5. Waiting(x) \in Int
      BY DEF Waiting, HeldRows, RunInv, RunTypes
    <2>6. Dispatched(x)'
      <3> SUFFICES ASSUME x \in Plugins, Rows(inq[x], Waiting(x))
                   PROVE  Rows(inq'[x], Waiting(x))
        BY <1>1, <2>1, <2>2, <2>4 DEF BranchInv, Dispatched
      <3>1. inq[x] \in Seq(Letters) /\ "terminate" \in Letters
        BY <1>4 DEF Letters
      <3>2. Rows(Append(inq[x], "terminate"), Waiting(x))
        BY <2>5, <3>1, RowsAppend
      <3> QED BY <1>5, <3>2
    <2>7. Future(x)' /\ Marked(x)' /\ Written(x)' /\ AckedIsStored(x)' /\ Terminated(x)'
      BY <1>1, <1>2, <2>1, <2>4
      DEF BranchInv, Future, Marked, Written, AckedIsStored, Terminated
    <2> QED BY <2>6, <2>7 DEF BranchInv
  <1>8. Finalized'
    BY <1>1 DEF RunInv, Finalized
  <1>9. Joined' /\ Stopped'
    BY <1>1 DEF RunInv, Joined, Stopped, Returned, Drains
  <1> QED BY <1>6, <1>7, <1>8, <1>9 DEF RunInv

-----------------------------------------------------------------------------
(* The signal, the watchdog and the clock.                                    *)

\* A shutdown request is remembered in asked, and a request that comes once the
\* teardown has begun is none.
LEMMA OutsideInv ==
    ASSUME RunInv, Signal \/ PluginAsks \/ Kill \/ Tick \/ HelperEnds \/ UNCHANGED vars
    PROVE  RunInv'
  <1>1. UNCHANGED <<conf, src, made, committed, held, fut, taken, stored, disp, inq, outq, acked,
                    expected, finalized, terminal, joined, firstError, pluginError, interrupted>>
    BY DEF Signal, PluginAsks, Kill, Tick, HelperEnds, vars, srcVars, sinkVars, plugVars, ackVars,
           loopVars
  <1>2. /\ asked \subseteq asked' /\ asked' \subseteq {"signal", "plugin"}
        /\ shutdown' = shutdown \/ (shutdown' = TRUE /\ asked' # {})
        /\ stage' = stage \/ stage' = "killed"
        /\ stage = "run" \/ asked' = asked
    BY DEF Signal, PluginAsks, Kill, Tick, HelperEnds, vars, loopVars, RunInv, Stopped
  <1>3. RunTypes'
    BY <1>1, <1>2 DEF RunInv, RunTypes
  <1>4. \A b \in Branches : BranchInv(b)'
    BY <1>1, Elsewhere DEF Untouched, RunInv
  <1>5. Finalized'
    BY <1>1 DEF RunInv, Finalized
  <1>6. Joined'
    BY <1>1, <1>2 DEF RunInv, Joined, Returned, Drains
  <1>7. Stopped'
    <2>1. asked # {} => asked' # {}
      BY <1>2
    <2>2. shutdown' => asked' # {} \/ firstError \/ joined.sinks = Branches
      <3>1. CASE shutdown' = shutdown
        BY <2>1, <3>1 DEF RunInv, Stopped
      <3> QED BY <1>2, <3>1
    <2> QED BY <1>1, <1>2, <2>1, <2>2 DEF RunInv, Stopped
  <1> QED BY <1>3, <1>4, <1>5, <1>6, <1>7 DEF RunInv

\* It holds at the start, ...
LEMMA InitRunInv == Init => RunInv
  <1> SUFFICES ASSUME Init
               PROVE  RunInv
    OBVIOUS
  <1> USE DEF Init
  <1>1. RunTypes
    <2>1. <<>> \in Seq(Letters) /\ <<>> \in Seq({"ack", "fail"})
      OBVIOUS
    <2> QED BY <2>1 DEF RunTypes
  <1>2. ASSUME NEW b \in Branches
        PROVE  BranchInv(b)
    <2>1. b \in Plugins => inq[b] = <<>> /\ outq[b] = <<>>
      OBVIOUS
    <2>2. \A x : ~Has(<<>>, x)
      BY DEF Has
    <2>3. Rows(<<>>, 0) /\ Waiting(b) = 0
      BY DEF Rows, Waiting, HeldRows
    <2> QED BY <2>1, <2>2, <2>3
            DEF BranchInv, Future, Marked, Written, Dispatched, AckedIsStored, Terminated, Passed
  <1>3. Finalized /\ Joined /\ Stopped
    BY DEF Finalized, Joined, Stopped
  <1> QED BY <1>1, <1>2, <1>3 DEF RunInv

\* ... every step keeps it, ...
LEMMA NextRunInv == RunInv /\ [Next]_vars => RunInv'
  <1> SUFFICES ASSUME RunInv, [Next]_vars
               PROVE  RunInv'
    OBVIOUS
  <1>1. Plugins \subseteq Branches
    BY RunLoopAssumption
  <1>2. ASSUME NEW b \in Branches, Emit(b) \/ EngineWrite(b) \/ EngineFails(b)
        PROVE  RunInv'
    BY <1>2, EmitInv, EngineWriteInv, FailsInv DEF EngineFails
  <1>3. ASSUME NEW b \in Branches,
               \/ EndStream(b) \/ ReceiverGone(b) \/ FlushMark(b) \/ CommitTail(b) \/ GiveUp(b)
               \/ Completes(b)
        PROVE  RunInv'
    BY <1>3, SourceInv, CompletesInv
  <1>4. ASSUME NEW p \in Plugins,
               SendToPlugin(p) \/ SendFails(p) \/ WriteFails(p) \/ Forward(p)
        PROVE  RunInv'
    BY <1>1, <1>4, SendToPluginInv, FailsInv, ForwardInv DEF SendFails, WriteFails, Blocked
  <1>5. ASSUME NEW p \in Plugins,
               \/ PluginTakes(p) \/ PluginFlushes(p) \/ PluginFails(p) \/ PluginDiscards(p)
               \/ PluginTerminates(p) \/ PluginQuits(p)
        PROVE  RunInv'
    BY <1>5, PluginTakesInv, PluginFlushesInv, PluginFailsInv, PluginTerminatesInv,
       PluginQuitsInv
  <1>6. CASE Loop
    BY <1>6, JoinInv, StageInv, SendTerminateInv DEF Loop
  <1>7. CASE Signal \/ PluginAsks \/ Kill \/ Tick \/ HelperEnds \/ Over \/ UNCHANGED vars
    BY <1>7, OutsideInv DEF Over
  <1> QED BY <1>2, <1>3, <1>4, <1>5, <1>6, <1>7 DEF Next, Prompt, Lazy

\* ... so it holds always.
LEMMA RunInvariant == Spec => []RunInv
  BY InitRunInv, NextRunInv, PTL DEF Spec

\* A source that has committed its tail (its offsets, its cursor) has all it emitted
\* in its sink's table: on every process with any branches, plugins, budgets and
\* policies, whichever branch fails, finishes early, times out or is killed around
\* the terminal epoch they share.
THEOREM TailCommittedIsStored == Spec => []CommittedIsStored
  <1>1. RunInv => CommittedIsStored
    BY DEF RunInv, Finalized, BranchInv, AckedIsStored, CommittedIsStored
  <1> QED BY <1>1, RunInvariant, PTL

\* The result of StreamlingApp::run: a process that exits 0 has all its sink futures
\* ended well, all batches durable in every engine sink and, for a job or under the
\* drain policy, in every plugin that did not quit by itself; and a job that no
\* plugin has cut short has emitted its whole range.
THEOREM ExitZero == Spec => []ExitZeroIsFlushed
  <1>1. ASSUME RunInv, stage = "exit0", NEW b \in Branches
        PROVE  /\ fut[b] = "ok"
               /\ b \notin Plugins => stored[b] = made[b]
               /\ b \in Plugins /\ (conf.job \/ Drains) /\ disp[b] # "quit"
                    => stored[b] = made[b]
               /\ conf.job /\ "plugin" \notin asked => made[b] = MaxBatches
    <2>1. BranchInv(b)
      BY <1>1 DEF RunInv
    <2>2. /\ joined.sinks = Branches /\ ("signal" \in asked => interrupted)
          /\ joined.plugins = Plugins \/ ~Drains
          /\ ~firstError /\ ~pluginError /\ ~(conf.job /\ interrupted)
      BY <1>1 DEF RunInv, Joined
    <2>3. fut[b] = "ok"
      BY <1>1, <2>2 DEF RunInv, Joined, RunTypes
    <2>4. held[b] = "none" /\ src[b] = "done"
      BY <2>1, <2>3 DEF BranchInv, Future
    <2>5. b \notin Plugins => stored[b] = made[b]
      BY <1>1, <2>1, <2>3, <2>4 DEF BranchInv, Written, Waiting, HeldRows, RunInv, RunTypes
    <2>6. ASSUME b \in Plugins, conf.job \/ Drains, disp[b] # "quit"
          PROVE  stored[b] = made[b]
      <3>1. joined.plugins = Plugins
        BY <2>2, <2>6 DEF Drains, ResolveDrainPolicy
      <3>2. disp[b] = "ok"
        BY <1>1, <2>2, <2>6, <3>1 DEF RunInv, Joined, Returned
      <3> QED BY <2>1, <2>3, <2>6, <3>2 DEF BranchInv, Terminated
    <2>7. conf.job /\ "plugin" \notin asked => made[b] = MaxBatches
      BY <1>1, <2>2, <2>3, <2>4 DEF RunInv, Stopped
    <2> QED BY <2>3, <2>5, <2>6, <2>7
  <1>2. RunInv => ExitZeroIsFlushed
    BY <1>1 DEF ExitZeroIsFlushed
  <1> QED BY <1>2, RunInvariant, PTL

-----------------------------------------------------------------------------
(* The clock.                                                                 *)

\* The stages of the teardown.
TeardownStages == {"await", "ladder", "terminate", "plugins", "post"}

ClockTypes ==
    /\ conf.budget \in Nat
    /\ left \in {Unarmed} \cup Nat /\ began \in {Unarmed} \cup Nat
    /\ timer \in Nat /\ flush \in Nat /\ turn \in Nat \ {0}
    /\ stage \in {"run"} \cup TeardownStages \cup Ended

\* A forwarder that was told to end has queued what it may still forward, and the
\* loop has told those it has passed.
Forwarders ==
    /\ quota \in [Plugins -> Int]
    /\ \A p \in Plugins : quota[p] # Uncancelled => quota[p] \in 0 .. Len(outq[p])
    /\ stage = "post" =>
          \A i \in 1 .. Len(Order) : i < turn => quota[Order[i]] # Uncancelled

\* What the stage may still wait for fits into what is left: up to the ladder all of
\* it lies before the margin; the sends may use the margin up, but not all of it;
\* and the last stage waits for nothing.
InTime ==
    /\ stage \in {"await", "ladder"} => left >= timer + Margin
    /\ stage = "terminate" =>
          /\ left > 0
          /\ turn <= Len(Order) => left > timer + (Len(Order) - turn) * SendSlice(flush)
    /\ stage = "plugins" => left > timer
    /\ stage = "post" => left > 0

ClockInv ==
    /\ ClockTypes /\ Forwarders
    /\ stage = "run" => began = Unarmed
    /\ stage \in TeardownStages =>
          began # Unarmed /\ left # Unarmed /\ (began >= Margin => InTime)
    /\ NotKilledWithMargin

\* The constants of the budget.
LEMMA BudgetConstants ==
    /\ Margin \in Nat \ {0} /\ SendMin \in Nat /\ SendMax \in Nat /\ SendMin <= SendMax
    /\ DrainBudget \in Nat /\ FlushCap \in Nat /\ Scopes \in Nat /\ Grace \in Nat
    /\ Len(Order) \in Nat /\ Order \in Seq(Plugins) /\ Len(Order) = Cardinality(Plugins)
    /\ \A p \in Plugins : \E i \in 1 .. Len(Order) : Order[i] = p
  <1>1. IsFiniteSet(Plugins)
    BY RunLoopAssumption, FS_Subset
  <1>2. Cardinality(Plugins) \in Nat
    BY <1>1, FS_CardinalityType
  <1>3. Order \in Seq(Plugins) /\ Len(Order) = Cardinality(Plugins)
    <2>1. Order \in [1 .. Cardinality(Plugins) -> Plugins]
      BY RunLoopAssumption
    <2> QED BY <1>2, <2>1
  <1>4. /\ {DrainBudget, FlushCap, SendMin, SendMax, Scopes, Grace, Margin} \subseteq Nat
        /\ SendMin <= SendMax /\ Margin > 0
    BY RunLoopAssumption
  <1>6. \A p \in Plugins : \E i \in 1 .. Len(Order) : Order[i] = p
    BY <1>3, RunLoopAssumption
  <1> QED BY <1>2, <1>3, <1>4, <1>6

\* The time for a send.
LEMMA SendSliceNat ==
    ASSUME NEW total \in Nat
    PROVE  SendSlice(total) \in Nat
  <1>1. Most(Len(Order), 1) \in Nat \ {0}
    BY BudgetConstants DEF Most
  <1>2. total \div Most(Len(Order), 1) \in Nat
    BY <1>1
  <1> QED BY <1>2, BudgetConstants DEF SendSlice, Least, Most

\* The share of a scope is no more than what is left before the margin.
LEMMA SliceFits ==
    ASSUME left \in Nat, NEW k \in Nat
    PROVE  /\ Slice(k) \in Nat /\ Remaining \in Nat
           /\ left >= Margin => Slice(k) <= left - Margin /\ Remaining = left - Margin
  <1>1. Remaining \in Nat /\ (left >= Margin => Remaining = left - Margin)
    BY BudgetConstants DEF Remaining, Minus, Most
  <1>2. Most(Scopes - k + 1, 1) \in Nat \ {0}
    BY BudgetConstants DEF Most
  <1>3. \A r \in Nat, d \in Nat \ {0} : r \div d \in Nat /\ r \div d <= r
    OBVIOUS
  <1>4. Slice(k) \in Nat /\ Slice(k) <= Remaining
    BY <1>1, <1>2, <1>3 DEF Slice
  <1> QED BY <1>1, <1>4, BudgetConstants

\* The steps that leave the loop, its timers and the forwarders alone.
LEMMA ClockKept ==
    ASSUME ClockInv, UNCHANGED <<conf, left, timer, quota, stage, turn, flush, began>>,
           \A p \in Plugins : Len(outq[p]) \in Nat /\ Len(outq'[p]) \in Nat
                                /\ Len(outq[p]) <= Len(outq'[p])
    PROVE  ClockInv'
  <1>1. ClockTypes' /\ (InTime' <=> InTime) /\ NotKilledWithMargin'
    BY DEF ClockInv, ClockTypes, InTime, NotKilledWithMargin, SendSlice
  <1>2. Forwarders'
    BY DEF ClockInv, Forwarders
  <1> QED BY <1>1, <1>2 DEF ClockInv

\* Sources, futures and dispatchers do not touch the loop's timers; a dispatcher
\* only adds to what its forwarder has queued.
LEMMA BranchClock ==
    ASSUME RunInv, ClockInv, NEW b \in Branches,
           \/ Emit(b) \/ EngineWrite(b) \/ EndStream(b) \/ ReceiverGone(b) \/ FlushMark(b)
           \/ CommitTail(b) \/ GiveUp(b) \/ Completes(b) \/ Fails(b)
    PROVE  ClockInv'
  <1>1. UNCHANGED <<conf, left, timer, quota, stage, turn, flush, began, outq>>
    BY DEF Emit, EngineWrite, EndStream, ReceiverGone, FlushMark, CommitTail, GiveUp, Completes,
           Fails, clockVars, loopVars
  <1>2. \A p \in Plugins : Len(outq[p]) \in Nat
    BY DEF RunInv, RunTypes
  <1> QED BY <1>1, <1>2, ClockKept

\* The same for the steps of a plugin's sink and dispatcher.
LEMMA PluginClock ==
    ASSUME RunInv, ClockInv, NEW p \in Plugins,
           \/ SendToPlugin(p) \/ PluginTakes(p) \/ PluginFlushes(p) \/ PluginFails(p)
           \/ PluginDiscards(p) \/ PluginTerminates(p) \/ PluginQuits(p)
    PROVE  ClockInv'
  <1>1. /\ UNCHANGED <<conf, left, timer, quota, stage, turn, flush, began>>
        /\ \/ UNCHANGED outq
           \/ outq' = [outq EXCEPT ![p] = Append(@, "ack")]
           \/ outq' = [outq EXCEPT ![p] = Append(@, "fail")]
    BY DEF SendToPlugin, PluginTakes, PluginFlushes, PluginFails, PluginDiscards,
           PluginTerminates, PluginQuits, Dispatch, clockVars, loopVars
  <1>2. outq \in [Plugins -> Seq({"ack", "fail"})]
    BY DEF RunInv, RunTypes
  <1>3. \A q \in Plugins : Len(outq[q]) \in Nat /\ Len(outq'[q]) \in Nat
                             /\ Len(outq[q]) <= Len(outq'[q])
    BY <1>1, <1>2
  <1> QED BY <1>1, <1>3, ClockKept

\* Forward uses up one of what was queued.
LEMMA ForwardClock ==
    ASSUME RunInv, ClockInv, NEW p \in Plugins, Forward(p)
    PROVE  ClockInv'
  <1>1. /\ UNCHANGED <<conf, left, timer, stage, turn, flush, began>>
        /\ quota[p] # 0 /\ outq[p] # <<>> /\ outq' = [outq EXCEPT ![p] = Tail(@)]
        /\ quota' = [quota EXCEPT ![p] = IF @ = Uncancelled THEN @ ELSE @ - 1]
    BY DEF Forward, clockVars, loopVars
  <1>2. outq \in [Plugins -> Seq({"ack", "fail"})]
    BY DEF RunInv, RunTypes
  <1>3. Len(outq[p]) \in Nat /\ Len(outq'[p]) = Len(outq[p]) - 1
    BY <1>1, <1>2
  <1>4. Forwarders'
    <2>1. quota' \in [Plugins -> Int]
      BY <1>1 DEF ClockInv, Forwarders
    <2>2. quota'[p] # Uncancelled => quota[p] # Uncancelled /\ quota'[p] \in 0 .. Len(outq'[p])
      BY <1>1, <1>3 DEF ClockInv, Forwarders, Uncancelled
    <2>3. \A q \in Plugins : q # p => quota'[q] = quota[q] /\ outq'[q] = outq[q]
      BY <1>1, <1>2 DEF ClockInv, Forwarders
    <2>4. quota[p] # Uncancelled => quota'[p] # Uncancelled
      BY <1>1 DEF ClockInv, Forwarders, Uncancelled
    <2>5. \A i \in 1 .. Len(Order) : Order[i] \in Plugins
      BY BudgetConstants
    <2> QED BY <1>1, <2>1, <2>2, <2>3, <2>4, <2>5 DEF ClockInv, Forwarders
  <1>5. ClockTypes' /\ (InTime' <=> InTime) /\ NotKilledWithMargin'
    BY <1>1 DEF ClockInv, ClockTypes, InTime, NotKilledWithMargin, SendSlice
  <1> QED BY <1>1, <1>4, <1>5 DEF ClockInv

\* A step that leaves the forwarders alone, and does not enter the last stage.
LEMMA ForwardersKept ==
    ASSUME Forwarders, UNCHANGED <<quota, outq>>,
           stage' = "post" => stage = "post" /\ turn' = turn
    PROVE  Forwarders'
  BY DEF Forwarders

\* Signal, JoinSink and JoinPlugin arm the watchdog, before the teardown begins.
LEMMA RunStageClock ==
    ASSUME RunInv, ClockInv, stage = "run",
           left' \in {left, Armed}, UNCHANGED <<conf, timer, quota, outq, stage, turn, flush, began>>
    PROVE  ClockInv'
  <1>1. ClockTypes'
    BY DEF ClockInv, ClockTypes, Armed
  <1>2. Forwarders'
    BY ForwardersKept DEF ClockInv
  <1>3. stage' \notin TeardownStages /\ stage' # "killed"
    BY DEF TeardownStages
  <1> QED BY <1>1, <1>2, <1>3 DEF ClockInv, NotKilledWithMargin

\* Teardown: what is left now is what the teardown begins with.
LEMMA TeardownClock ==
    ASSUME RunInv, ClockInv, Teardown
    PROVE  ClockInv'
  <1>1. /\ stage' = "await" /\ left' = Armed /\ began' = Armed
        /\ (timer' = 0 \/ timer' = Minus(Armed, Margin))
        /\ UNCHANGED <<conf, quota, turn, flush, outq>>
    BY DEF Teardown, envVars
  <1>2. Armed \in Nat
    BY DEF ClockInv, ClockTypes, Armed
  <1>0. Margin \in Nat \ {0}
    BY BudgetConstants
  <1>3. timer' \in Nat /\ (Armed >= Margin => Armed >= timer' + Margin)
    BY <1>0, <1>1, <1>2 DEF Minus, Most
  <1>4. ClockTypes' /\ (began' >= Margin => InTime')
    BY <1>1, <1>2, <1>3 DEF ClockInv, ClockTypes, InTime, TeardownStages
  <1>5. Forwarders'
    BY <1>1, ForwardersKept DEF ClockInv
  <1> QED BY <1>1, <1>2, <1>4, <1>5 DEF ClockInv, NotKilledWithMargin, Unarmed

\* The ladder: every scope gets a share of what is left before the margin.
LEMMA LadderClock ==
    ASSUME RunInv, ClockInv, AwaitOver \/ LadderStep \/ HelperEnds
    PROVE  ClockInv'
  <1>1. /\ stage \in {"await", "ladder"} /\ stage' = "ladder"
        /\ (turn' = 1 \/ turn' = turn \/ turn' = turn + 1)
        /\ (timer' = 0 \/ timer' = Slice(1) \/ timer' = Slice(turn + 1))
        /\ UNCHANGED <<conf, left, quota, outq, flush, began>>
    BY DEF AwaitOver, LadderStep, HelperEnds, envVars, loopVars
  <1>2. left \in Nat /\ (began >= Margin => left >= timer + Margin) /\ timer \in Nat
        /\ turn \in Nat \ {0}
    BY <1>1 DEF ClockInv, ClockTypes, InTime, TeardownStages, Unarmed
  <1>0. Margin \in Nat \ {0}
    BY BudgetConstants
  <1>3. timer' \in Nat /\ (left >= Margin => left >= timer' + Margin)
    <2>1. Slice(1) \in Nat /\ (left >= Margin => Slice(1) <= left - Margin)
      BY <1>2, SliceFits
    <2>2. Slice(turn + 1) \in Nat /\ (left >= Margin => Slice(turn + 1) <= left - Margin)
      BY <1>2, SliceFits
    <2> QED BY <1>0, <1>1, <1>2, <2>1, <2>2
  <1>4. ClockTypes'
    BY <1>1, <1>2, <1>3 DEF ClockInv, ClockTypes, TeardownStages
  <1>6. began' >= Margin => InTime'
    <2>1. began >= Margin => left >= Margin
      BY <1>0, <1>2
    <2> QED BY <1>1, <1>3, <2>1 DEF InTime
  <1>5. Forwarders'
    BY <1>1, ForwardersKept DEF ClockInv
  <1> QED BY <1>1, <1>4, <1>5, <1>6 DEF ClockInv, NotKilledWithMargin, TeardownStages

\* All sends of Terminate together end before the watchdog does: either they share
\* a budget that lies before the margin, or they are at their floor and the margin
\* has room for that.
LEMMA SendsEndInTime ==
    ASSUME FloorsFit, left \in Nat, left >= Margin, Len(Order) > 0,
           NEW total \in Nat, total <= left - Margin
    PROVE  left > SendSlice(total) + (Len(Order) - 1) * SendSlice(total)
  <1>1. Len(Order) * SendSlice(total) <= total \/ SendSlice(total) = SendMin
    BY SendsFit, BudgetConstants
  <1>2. SendSlice(total) \in Nat
    BY SendSliceNat
  <1>5. Margin \in Nat \ {0} /\ Len(Order) * SendMin < Margin /\ Len(Order) \in Nat
    BY BudgetConstants DEF FloorsFit
  <1>3. left > Len(Order) * SendSlice(total)
    <2>1. CASE Len(Order) * SendSlice(total) <= total
      <3>1. Len(Order) * SendSlice(total) \in Int
        BY <1>2, <1>5
      <3> QED BY <1>5, <2>1, <3>1
    <2>2. CASE SendSlice(total) = SendMin
      <3>1. Len(Order) * SendSlice(total) < Margin /\ Len(Order) * SendSlice(total) \in Int
        BY <1>2, <1>5, <2>2
      <3> QED BY <1>5, <3>1
    <2> QED BY <1>1, <2>1, <2>2
  <1>4. \A n, s \in Nat : n > 0 => n * s = s + (n - 1) * s
    BY SMT
  <1> QED BY <1>2, <1>3, <1>4, BudgetConstants

\* LadderOver: the flush of the plugins gets what is left before the margin at most.
LEMMA LadderOverClock ==
    ASSUME FloorsFit, RunInv, ClockInv, LadderOver
    PROVE  ClockInv'
  <1>1. /\ stage = "ladder" /\ stage' = "terminate" /\ turn' = 1
        /\ flush' = PluginBudget /\ timer' = SendSlice(PluginBudget)
        /\ UNCHANGED <<conf, left, quota, outq, began>>
    BY DEF LadderOver, envVars
  <1>2. left \in Nat /\ (began >= Margin => left >= timer + Margin) /\ timer \in Nat
    BY <1>1 DEF ClockInv, ClockTypes, InTime, TeardownStages, Unarmed
  <1>3. Remaining \in Nat /\ (left >= Margin => Remaining = left - Margin)
    BY <1>2, SliceFits
  <1>4. PluginBudget \in Nat /\ PluginBudget <= Remaining
    BY <1>3, BudgetConstants DEF PluginBudget, Least
  <1>5. timer' \in Nat
    BY <1>1, <1>4, SendSliceNat
  <1>6. ClockTypes'
    BY <1>1, <1>4, <1>5 DEF ClockInv, ClockTypes, TeardownStages
  <1>7. ASSUME began' >= Margin
        PROVE  InTime'
    <2>1. left >= Margin /\ left > 0
      BY <1>1, <1>2, <1>7, BudgetConstants
    <2>2. Len(Order) > 0 =>
             left > SendSlice(PluginBudget) + (Len(Order) - 1) * SendSlice(PluginBudget)
      BY <1>2, <1>3, <1>4, <2>1, SendsEndInTime
    <2>3. SendSlice(flush)' = SendSlice(PluginBudget)
      BY <1>1 DEF SendSlice
    <2>4. turn' <= Len(Order) => Len(Order) > 0
      BY <1>1, BudgetConstants
    <2>5. turn' <= Len(Order) => left' > timer' + (Len(Order) - turn') * SendSlice(flush)'
      BY <1>1, <2>2, <2>3, <2>4
    <2> QED BY <1>1, <2>1, <2>5 DEF InTime
  <1>8. Forwarders'
    BY <1>1, ForwardersKept DEF ClockInv
  <1> QED BY <1>1, <1>6, <1>7, <1>8 DEF ClockInv, NotKilledWithMargin, TeardownStages

\* SendTerminate: one send less to wait for.
LEMMA SendTerminateClock ==
    ASSUME RunInv, ClockInv, SendTerminate
    PROVE  ClockInv'
  <1>1. /\ stage = "terminate" /\ stage' = "terminate" /\ turn' = turn + 1 /\ turn <= Len(Order)
        /\ timer' = SendSlice(flush)
        /\ UNCHANGED <<conf, left, quota, outq, flush, began>>
    BY DEF SendTerminate
  <1>2. left \in Nat /\ timer \in Nat /\ flush \in Nat /\ turn \in Nat \ {0}
    BY <1>1 DEF ClockInv, ClockTypes, TeardownStages, Unarmed
  <1>3. SendSlice(flush) \in Nat
    BY <1>2, SendSliceNat
  <1>4. ClockTypes'
    BY <1>1, <1>2, <1>3 DEF ClockInv, ClockTypes
  <1>5. ASSUME began' >= Margin
        PROVE  InTime'
    <2>1. left > 0 /\ left > timer + (Len(Order) - turn) * SendSlice(flush)
      BY <1>1, <1>5 DEF ClockInv, InTime, TeardownStages
    <2>2. \A n \in Int, s \in Nat : n * s = s + (n - 1) * s /\ n * s \in Int
      BY SMT
    <2>3. /\ (Len(Order) - turn) * SendSlice(flush) \in Int
          /\ (Len(Order) - turn) * SendSlice(flush)
               = SendSlice(flush) + ((Len(Order) - turn) - 1) * SendSlice(flush)
      BY <1>2, <1>3, <2>2, BudgetConstants
    <2>4. left > SendSlice(flush) + ((Len(Order) - turn) - 1) * SendSlice(flush)
      BY <1>2, <2>1, <2>3
    <2>5. (Len(Order) - turn) - 1 = Len(Order) - turn' /\ SendSlice(flush)' = SendSlice(flush)
      BY <1>1, <1>2, BudgetConstants DEF SendSlice
    <2> QED BY <1>1, <2>1, <2>4, <2>5 DEF InTime
  <1>6. Forwarders'
    BY <1>1, ForwardersKept DEF ClockInv
  <1> QED BY <1>1, <1>4, <1>5, <1>6 DEF ClockInv, NotKilledWithMargin, TeardownStages

\* TerminateOver: the wait for the plugins ends before the margin, or is none.
LEMMA TerminateOverClock ==
    ASSUME RunInv, ClockInv, TerminateOver
    PROVE  ClockInv'
  <1>1. /\ stage = "terminate" /\ stage' = "plugins" /\ timer' = Least(flush, Remaining)
        /\ UNCHANGED <<conf, left, quota, outq, turn, flush, began>>
    BY DEF TerminateOver, envVars
  <1>2. left \in Nat /\ flush \in Nat /\ (began >= Margin => left > 0)
    BY <1>1 DEF ClockInv, ClockTypes, InTime, TeardownStages, Unarmed
  <1>3. Margin \in Nat \ {0}
    BY BudgetConstants
  <1>4. Remaining \in Nat /\ (left > 0 => Remaining < left)
    BY <1>2, <1>3 DEF Remaining, Minus, Most
  <1>5. timer' \in Nat /\ (left > 0 => timer' < left)
    BY <1>1, <1>2, <1>4 DEF Least
  <1>6. ClockTypes'
    BY <1>1, <1>5 DEF ClockInv, ClockTypes, TeardownStages
  <1>7. began' >= Margin => InTime'
    BY <1>1, <1>2, <1>5 DEF InTime
  <1>8. Forwarders'
    BY <1>1, ForwardersKept DEF ClockInv
  <1> QED BY <1>1, <1>6, <1>7, <1>8 DEF ClockInv, NotKilledWithMargin, TeardownStages

\* PluginsOver and CancelForwarder: the last stage, with time left.
LEMMA PostClock ==
    ASSUME RunInv, ClockInv, PluginsOver \/ CancelForwarder
    PROVE  ClockInv'
  <1>1. /\ stage \in {"plugins", "post"} /\ stage' = "post"
        /\ UNCHANGED <<conf, left, outq, began>>
    BY DEF PluginsOver, CancelForwarder, envVars
  <1>2. left \in Nat /\ timer \in Nat /\ turn \in Nat \ {0} /\ (began >= Margin => left > 0)
    BY <1>1 DEF ClockInv, ClockTypes, InTime, TeardownStages, Unarmed
  <1>3. began' >= Margin => InTime'
    BY <1>1, <1>2 DEF InTime
  <1>4. CASE PluginsOver
    <2>1. turn' = 1 /\ flush' = 0 /\ timer' = 0 /\ UNCHANGED quota
      BY <1>4 DEF PluginsOver
    <2>2. ClockTypes'
      BY <1>1, <2>1 DEF ClockInv, ClockTypes, TeardownStages
    <2>3. Forwarders'
      BY <1>1, <2>1 DEF ClockInv, Forwarders
    <2> QED BY <1>1, <1>3, <2>2, <2>3 DEF ClockInv, NotKilledWithMargin, TeardownStages
  <1>5. CASE CancelForwarder
    <2>1. /\ turn' = turn + 1 /\ turn <= Len(Order) /\ UNCHANGED <<flush, timer>>
          /\ quota' = [quota EXCEPT ![Order[turn]] = Len(outq[Order[turn]])] /\ stage = "post"
      BY <1>5 DEF CancelForwarder
    <2>2. ClockTypes'
      BY <1>1, <1>2, <2>1 DEF ClockInv, ClockTypes, TeardownStages
    <2>9. \A i \in 1 .. Len(Order) : Order[i] \in Plugins
      BY BudgetConstants
    <2>3. Order[turn] \in Plugins
      BY <1>2, <2>1, <2>9, BudgetConstants
    <2>4. Len(outq[Order[turn]]) \in Nat
      BY <2>3 DEF RunInv, RunTypes
    <2>5. /\ quota' \in [Plugins -> Int] /\ quota'[Order[turn]] = Len(outq[Order[turn]])
          /\ \A p \in Plugins : p # Order[turn] => quota'[p] = quota[p]
      BY <2>1, <2>3, <2>4 DEF ClockInv, Forwarders
    <2>6. \A p \in Plugins : quota'[p] # Uncancelled => quota'[p] \in 0 .. Len(outq'[p])
      BY <1>1, <2>4, <2>5 DEF ClockInv, Forwarders
    <2>7. ASSUME NEW i \in 1 .. Len(Order), i < turn'
          PROVE  quota'[Order[i]] # Uncancelled
      <3>1. CASE Order[i] = Order[turn]
        BY <2>4, <2>5, <3>1 DEF Uncancelled
      <3>2. CASE Order[i] # Order[turn]
        <4>1. i # turn /\ i \in Nat
          BY <3>2
        <4>3. i < turn
          BY <1>2, <2>1, <2>7, <4>1
        <4>2. quota[Order[i]] # Uncancelled
          BY <2>1, <4>3 DEF ClockInv, Forwarders
        <4> QED BY <2>5, <2>9, <3>2, <4>2
      <3> QED BY <3>1, <3>2
    <2>8. Forwarders'
      BY <2>5, <2>6, <2>7 DEF Forwarders
    <2> QED BY <1>1, <1>3, <2>2, <2>8 DEF ClockInv, NotKilledWithMargin, TeardownStages
  <1> QED BY <1>4, <1>5

\* Exit, and Kill: while a teardown that began with the margin in hand is under way
\* there is time left.
LEMMA EndClock ==
    ASSUME RunInv, ClockInv, Exit \/ Kill
    PROVE  ClockInv'
  <1>1. /\ UNCHANGED <<conf, left, timer, quota, outq, turn, flush, began>>
        /\ stage' \in Ended /\ stage \in {"run"} \cup TeardownStages
        /\ stage' = "killed" => left = 0
    BY DEF Exit, Kill, envVars, clockVars, Ended, Up, ClockInv, ClockTypes, TeardownStages
  <1>2. ClockTypes'
    BY <1>1 DEF ClockInv, ClockTypes
  <1>3. Forwarders'
    BY <1>1, ForwardersKept DEF ClockInv, Ended
  <1>4. stage \in TeardownStages => began \in Nat /\ (began >= Margin => left > 0)
    <2>1. Margin \in Nat \ {0}
      BY BudgetConstants
    <2>2. stage \in TeardownStages =>
             left \in Nat /\ began \in Nat /\ timer \in Nat /\ (began >= Margin => InTime)
      BY DEF ClockInv, ClockTypes, Unarmed
    <2> QED BY <2>1, <2>2 DEF InTime, TeardownStages
  <1>5. NotKilledWithMargin'
    <2>1. Margin \in Nat
      BY BudgetConstants
    <2> QED BY <1>1, <1>4, <2>1 DEF NotKilledWithMargin, ClockInv
  <1>6. stage' # "run" /\ stage' \notin TeardownStages
    BY <1>1 DEF Ended, TeardownStages
  <1> QED BY <1>2, <1>3, <1>5, <1>6 DEF ClockInv

\* In the last stage there is always something to do at once: tell the next forwarder,
\* forward what an earlier one has queued, or exit.
LEMMA PostIsDue ==
    ASSUME RunInv, ClockInv, stage = "post"
    PROVE  Due
  <1>1. turn \in Nat \ {0} /\ Len(Order) \in Nat
    BY BudgetConstants DEF ClockInv, ClockTypes
  <1>2. ASSUME NEW i \in 1 .. Len(Order), i < turn, quota[Order[i]] # 0
        PROVE  Due
    <2>0. quota[Order[i]] # Uncancelled
      BY <1>2 DEF ClockInv, Forwarders
    <2>1. Order[i] \in Plugins /\ quota[Order[i]] # Uncancelled
      BY <2>0, BudgetConstants
    <2>2. outq[Order[i]] \in Seq({"ack", "fail"})
      BY <2>1 DEF RunInv, RunTypes
    <2>3. quota[Order[i]] \in 0 .. Len(outq[Order[i]])
      BY <2>1 DEF ClockInv, Forwarders
    <2>4. outq[Order[i]] # <<>>
      BY <1>2, <2>2, <2>3
    <2> QED BY <1>2, <2>1, <2>4 DEF Due, PluginDue
  <1>3. CASE turn <= Len(Order)
    <2>1. CASE turn > 1 /\ quota[Order[turn - 1]] # 0
      <3>1. turn - 1 \in 1 .. Len(Order) /\ turn - 1 < turn
        BY <1>1, <1>3, <2>1
      <3> QED BY <1>2, <2>1, <3>1
    <2>2. CASE ~(turn > 1 /\ quota[Order[turn - 1]] # 0)
      BY <1>3, <2>2 DEF Due, LoopDue
    <2> QED BY <2>1, <2>2
  <1>4. CASE ~(turn <= Len(Order))
    <2>1. CASE \E p \in Plugins : quota[p] # 0
      <3>1. PICK p \in Plugins : quota[p] # 0
        BY <2>1
      <3>2. PICK i \in 1 .. Len(Order) : Order[i] = p
        BY BudgetConstants
      <3>3. i < turn
        BY <1>1, <1>4
      <3> QED BY <1>2, <3>1, <3>2, <3>3
    <2>2. CASE \A p \in Plugins : quota[p] = 0
      BY <1>4, <2>2 DEF Due, LoopDue
    <2> QED BY <2>1, <2>2
  <1> QED BY <1>3, <1>4

\* Tick: time goes by only while the stage's own timer runs too.
LEMMA TickClock ==
    ASSUME RunInv, ClockInv, Tick
    PROVE  ClockInv'
  <1>1. /\ UNCHANGED <<conf, quota, outq, stage, turn, flush, began>>
        /\ stage \notin Ended /\ left # 0 /\ ~Due
        /\ left' = IF left = Unarmed THEN left ELSE left - 1
        /\ timer' = Minus(timer, 1)
    BY DEF Tick, Up, loopVars
  <1>2. timer \in Nat /\ left \in {Unarmed} \cup Nat
    BY DEF ClockInv, ClockTypes
  <1>3. /\ timer' \in Nat /\ (timer # 0 => timer' = timer - 1)
        /\ left' \in {Unarmed} \cup Nat /\ (left # Unarmed => left' = left - 1 /\ left' # Unarmed)
    BY <1>1, <1>2 DEF Minus, Most, Unarmed
  <1>4. ClockTypes'
    BY <1>1, <1>3 DEF ClockInv, ClockTypes
  <1>5. Forwarders'
    BY <1>1, ForwardersKept DEF ClockInv
  <1>6. ASSUME stage \in TeardownStages, began >= Margin
        PROVE  InTime'
    <2>1. InTime /\ left \in Nat /\ left' = left - 1
      BY <1>1, <1>2, <1>3, <1>6 DEF ClockInv, Unarmed
    <2>2. stage # "post"
      BY <1>1, PostIsDue
    <2>3. timer # 0 /\ timer' = timer - 1
      BY <1>1, <1>3, <1>6, <2>2 DEF Due, LoopDue, TeardownStages
    <2>4. Margin \in Nat
      BY BudgetConstants
    <2>5. CASE stage \in {"await", "ladder"}
      BY <1>1, <1>2, <2>1, <2>3, <2>4, <2>5 DEF InTime
    <2>6. CASE stage = "terminate"
      <3>1. turn \in Nat \ {0} /\ flush \in Nat /\ Len(Order) \in Nat
        BY BudgetConstants DEF ClockInv, ClockTypes
      <3>2. turn <= Len(Order)
        BY <1>1, <2>6, <3>1 DEF Due, LoopDue
      <3>3. SendSlice(flush) \in Nat
        BY <3>1, SendSliceNat
      <3>4. (Len(Order) - turn) * SendSlice(flush) \in Nat
        BY <3>1, <3>2, <3>3
      <3>5. left > timer + (Len(Order) - turn) * SendSlice(flush)
        BY <2>1, <2>6, <3>2 DEF InTime
      <3>6. SendSlice(flush)' = SendSlice(flush)
        BY <1>1 DEF SendSlice
      <3>7. left' > 0 /\ left' > timer' + (Len(Order) - turn) * SendSlice(flush)
        BY <1>2, <2>1, <2>3, <3>4, <3>5
      <3> QED BY <1>1, <2>6, <3>6, <3>7 DEF InTime
    <2>7. CASE stage = "plugins"
      BY <1>1, <1>2, <2>1, <2>3, <2>7 DEF InTime
    <2> QED BY <1>6, <2>2, <2>5, <2>6, <2>7 DEF TeardownStages
  <1>7. stage' = "run" => began' = Unarmed
    BY <1>1 DEF ClockInv
  <1>8. stage' \in TeardownStages =>
           began' # Unarmed /\ left' # Unarmed /\ (began' >= Margin => InTime')
    BY <1>1, <1>3, <1>6 DEF ClockInv
  <1>9. NotKilledWithMargin'
    BY <1>1 DEF NotKilledWithMargin, Ended
  <1> QED BY <1>4, <1>5, <1>7, <1>8, <1>9 DEF ClockInv

\* It holds at the start, ...
LEMMA InitClockInv == Init => ClockInv
  <1> SUFFICES ASSUME Init
               PROVE  ClockInv
    OBVIOUS
  <1> USE DEF Init
  <1>1. conf.budget \in Nat
    BY RunLoopAssumption
  <1>2. ClockTypes
    BY <1>1 DEF ClockTypes
  <1>3. Forwarders
    BY DEF Forwarders, Uncancelled
  <1> QED BY <1>2, <1>3 DEF ClockInv, NotKilledWithMargin, TeardownStages

\* ... every step keeps it, ...
LEMMA NextClockInv == FloorsFit /\ RunInv /\ ClockInv /\ [Next]_vars => ClockInv'
  <1> SUFFICES ASSUME FloorsFit, RunInv, ClockInv, [Next]_vars
               PROVE  ClockInv'
    OBVIOUS
  <1>1. Plugins \subseteq Branches
    BY RunLoopAssumption
  <1>2. ASSUME NEW b \in Branches,
               \/ Emit(b) \/ EngineWrite(b) \/ EngineFails(b) \/ EndStream(b) \/ ReceiverGone(b)
               \/ FlushMark(b) \/ CommitTail(b) \/ GiveUp(b) \/ Completes(b)
        PROVE  ClockInv'
    BY <1>2, BranchClock DEF EngineFails
  <1>3. ASSUME NEW p \in Plugins,
               \/ SendToPlugin(p) \/ SendFails(p) \/ WriteFails(p) \/ Forward(p)
               \/ PluginTakes(p) \/ PluginFlushes(p) \/ PluginFails(p) \/ PluginDiscards(p)
               \/ PluginTerminates(p) \/ PluginQuits(p)
        PROVE  ClockInv'
    BY <1>1, <1>3, PluginClock, BranchClock, ForwardClock DEF SendFails, WriteFails
  <1>4. CASE \/ \E b \in Branches : JoinSink(b)
             \/ \E p \in Plugins : JoinPlugin(p)
             \/ Signal
    <2>1. /\ stage = "run" /\ left' \in {left, Armed}
          /\ UNCHANGED <<conf, timer, quota, outq, stage, turn, flush, began>>
      BY <1>4 DEF JoinSink, JoinPlugin, Signal, FailDrain, envVars, loopVars
    <2> QED BY <2>1, RunStageClock
  <1>5. CASE \/ \E p \in Plugins : DrainPlugin(p)
             \/ PluginAsks \/ Over \/ UNCHANGED vars
    <2>1. UNCHANGED <<conf, left, timer, quota, outq, stage, turn, flush, began>>
      BY <1>5 DEF DrainPlugin, PluginAsks, Over, vars, envVars, clockVars, loopVars
    <2>2. \A p \in Plugins : Len(outq[p]) \in Nat
      BY DEF RunInv, RunTypes
    <2> QED BY <2>1, <2>2, ClockKept
  <1>6. CASE Teardown \/ AwaitOver \/ LadderStep \/ LadderOver \/ SendTerminate \/ TerminateOver
             \/ PluginsOver \/ CancelForwarder \/ Exit
    BY <1>6, TeardownClock, LadderClock, LadderOverClock, SendTerminateClock, TerminateOverClock,
       PostClock, EndClock
  <1>7. CASE HelperEnds \/ Kill \/ Tick
    BY <1>7, LadderClock, EndClock, TickClock
  <1> QED BY <1>2, <1>3, <1>4, <1>5, <1>6, <1>7 DEF Next, Prompt, Lazy, Loop

\* ... so it holds always, and with it:

\* A teardown that begins with the margin in hand is never cut short by the watchdog,
\* with any scopes, budgets and policies and whatever hangs, provided the margin has
\* room for the floors of the Terminate sends (which limits the plugin instances; the
\* code does not): the waits of every stage are cut to what is left before the margin.
THEOREM TeardownIsNotKilled == Spec => []NotKilledInTeardown
  <1>1. CASE FloorsFit
    <2>1. RunInv /\ ClockInv /\ [Next]_vars => ClockInv'
      BY <1>1, NextClockInv
    <2>2. Spec => []ClockInv
      BY <2>1, InitClockInv, RunInvariant, PTL DEF Spec
    <2>3. ClockInv => NotKilledInTeardown
      BY DEF ClockInv, NotKilledInTeardown
    <2> QED BY <2>2, <2>3, PTL
  <1>2. CASE ~FloorsFit
    <2>1. NotKilledInTeardown
      BY <1>2 DEF NotKilledInTeardown
    <2> QED BY <2>1, PTL
  <1> QED BY <1>1, <1>2

=============================================================================
