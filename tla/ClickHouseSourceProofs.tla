----------------------- MODULE ClickHouseSourceProofs -----------------------
(***************************************************************************)
(* The safety of ClickHouseSource for every table, page size, width bound, *)
(* chunk size and channel capacity, and for any number of failures.        *)
(***************************************************************************)
EXTENDS ClickHouseSource, FiniteSetTheorems, SequenceTheorems, WellFoundedInduction,
        TLAPS

\* Kept of a given table: an operator without state, so that it can be reasoned
\* about before and after a step alike.
KeptOf(t, lo, hi) == {r \in t : lo <= r.key /\ r.key < hi /\ r.kept}

Cursors ==
    /\ table \in Tables
    /\ rangeStart \in Int /\ width \in Int /\ width >= 1
    /\ maxWidth \in Int
    /\ start \in Int /\ 0 <= start /\ start <= rangeStart
    /\ saved \in Int /\ split \in Int /\ copy \in Int

\* Outside the emission of a page nothing of it is left, and what is left of it
\* has not been sent.
PageInProgress ==
    /\ pc \notin {"emit", "send"} => page = {} /\ hand.rows = {}
    /\ pc = "emit" => hand.rows = {}
    /\ page \cap hand.rows = {}
    /\ page \cap sent = {}
    /\ hand.rows \cap sent = {}

NothingSentDown == pc = "down" => sent = {}

\* A cursor in the state backend, in the split, in the task's clone or at the
\* start of the scan has only emitted rows behind it.
CursorsAreEmitted ==
    /\ sent \subseteq everSent
    /\ KeptOf(table, 0, start) \subseteq everSent
    /\ KeptOf(table, 0, saved) \subseteq everSent
    /\ KeptOf(table, 0, split) \subseteq everSent
    /\ KeptOf(table, 0, copy) \subseteq everSent

Tiles ==
    pc # "down" =>
       LET behind == KeptOf(table, start, rangeStart)
           ahead == KeptOf(table, rangeStart, rangeStart + width)
       IN  /\ behind \subseteq sent
           /\ sent \subseteq behind \cup ahead
           /\ pc \in {"top", "size", "read"} => sent = behind
           /\ pc \in {"emit", "send", "advance"} =>
                 sent \cup hand.rows \cup page = behind \cup ahead

ScanInv ==
    Cursors /\ PageInProgress /\ NothingSentDown /\ CursorsAreEmitted /\ Tiles

-----------------------------------------------------------------------------
\* The keys of a table are integers.
LEMMA KeysAreNat ==
    ASSUME NEW t \in Tables, NEW r \in t
    PROVE  r.key \in Int /\ r.key >= 0
  BY SourceAssumption, ControllerAssumption

\* Two adjacent ranges make up the range that spans them and share no row.
LEMMA RangesTile ==
    ASSUME NEW t \in Tables, NEW a \in Int, NEW b \in Int, NEW c \in Int,
           a <= b, b <= c
    PROVE  /\ KeptOf(t, a, c) = KeptOf(t, a, b) \cup KeptOf(t, b, c)
           /\ KeptOf(t, a, b) \cap KeptOf(t, b, c) = {}
  BY KeysAreNat DEF KeptOf

\* A range that ends where it begins, or before, is empty.
LEMMA EmptyRange ==
    ASSUME NEW t \in Tables, NEW a \in Int, NEW b \in Int, b <= a
    PROVE  KeptOf(t, a, b) = {}
  BY KeysAreNat DEF KeptOf

\* A width is never below one key (RangeController::MIN_WIDTH).
LEMMA ClampIsWidth ==
    ASSUME NEW w \in Int, NEW max \in Int
    PROVE  Clamp(w, max) \in Int /\ Clamp(w, max) >= 1
  BY DEF Clamp, Larger, Smaller, MinWidth

\* A count is a natural number.
LEMMA CountIsNat ==
    ASSUME table \in Tables, NEW lo, NEW hi
    PROVE  /\ Count(lo, hi) \in Nat
           /\ Cardinality(Between(lo, hi)) \in Nat
  BY SourceAssumption, FS_Subset, FS_CardinalityType DEF Count, Between

\* A quotient of integers truncates to integers.
LEMMA TruncatedIsInt ==
    ASSUME NEW num \in Int, NEW den \in Nat \ {0}
    PROVE  Truncated(num, den) \subseteq Int
  BY DEF Truncated

\* Kept and KeptOf are the same.
LEMMA KeptIsKeptOf ==
    ASSUME NEW lo, NEW hi
    PROVE  Kept(lo, hi) = KeptOf(table, lo, hi)
  BY DEF Kept, Between, KeptOf

\* The first width is an integer.
LEMMA FirstWidthIsInt ==
    ASSUME table \in Tables, NEW from \in Int, NEW w \in InitialWidths(from)
    PROVE  w \in Int
  <1> DEFINE span == Smaller(Larger(MaxKey - from + 1, 1), SortKeyRange)
             count == Count(from, from + span)
  <1>1. span \in Int
      BY SourceAssumption, ControllerAssumption DEF Larger, Smaller
  <1>2. count \in Nat
      BY CountIsNat
  <1>3. count # 0 => (PageSize * span) \div count \in Int
      BY <1>1, <1>2, ControllerAssumption
  <1>4. w \in {SortKeyRange, MinSortKeyRange,
               IF count = 0 THEN span
                 ELSE Smaller((PageSize * span) \div count, span * GrowCeiling)}
      BY DEF InitialWidths
  <1> HIDE DEF span, count
  <1>5. span * GrowCeiling \in Int
      BY <1>1, ControllerAssumption
  <1> QED BY <1>1, <1>3, <1>4, <1>5, SourceAssumption DEF Smaller

\* Where a page overflows or times out, or its count does not fit, the range is
\* resized to integers.
LEMMA ShrinkIsResize ==
    ASSUME table \in Tables, width \in Int, width >= 1,
           SizeShrink \/ ReadTimeout \/ ReadOverflow
    PROVE  \E candidates \in SUBSET Int : Resize(candidates)
  <1>2. PageSize \in Nat \ {0} /\ MaxPageBytes \in Nat \ {0}
      BY ControllerAssumption
  <1>3. width \div 2 \in Int
      OBVIOUS
  <1>4. width * 9 * PageSize \in Int /\ width * 9 * MaxPageBytes \in Int
      BY <1>2
  <1>5. CASE SizeShrink
    <2> DEFINE count == Count(rangeStart, UpperBound)
    <2>1. count \in Nat /\ count > PageSize
        BY <1>5, CountIsNat DEF SizeShrink
    <2> HIDE DEF count
    <2>2. 10 * count \in Nat \ {0}
        BY <1>2, <2>1
    <2>3. Truncated(width * 9 * PageSize, 10 * count) \subseteq Int
        BY <1>4, <2>2, TruncatedIsInt
    <2> QED BY <1>5, <2>3 DEF SizeShrink, ShrinkToFitCount, count
  <1>6. CASE ReadTimeout
      BY <1>3, <1>6 DEF ReadTimeout, OnTimeout
  <1>7. CASE ReadOverflow
    <2> DEFINE count == Cardinality(Read)
    <2>1. PICK b \in ReadBytes :
             /\ Overflows(b)
             /\ OnOverflowProbed(count, b) \/ OnOverflowUnprobed(b)
        BY <1>7 DEF ReadOverflow
    <2>2. b \in Nat
        BY <2>1, SourceAssumption DEF ReadBytes, Read, Between
    <2>3. count \in Nat
        BY CountIsNat DEF Read
    <2>5. CASE OnOverflowUnprobed(b)
      <3>1. CASE b > MaxPageBytes
        <4>1. 10 * b \in Nat \ {0}
            BY <1>2, <2>2, <3>1
        <4>2. Truncated(width * 9 * MaxPageBytes, 10 * b) \subseteq Int
            BY <1>4, <4>1, TruncatedIsInt
        <4> QED BY <2>5, <3>1, <4>2 DEF OnOverflowUnprobed
      <3>2. CASE ~ (b > MaxPageBytes)
          BY <1>3, <2>5, <3>2 DEF OnOverflowUnprobed
      <3> QED BY <3>1, <3>2
    <2>6. CASE OnOverflowProbed(count, b) /\ count # 0
      <3> DEFINE sampled == Smaller(count, PageSize + 1)
                 rowSafe == Truncated(width * 9 * PageSize, 10 * count)
                 byBytes == Truncated(width * 9 * MaxPageBytes * sampled, 10 * count * b)
                 byteSafe == IF b > 0 THEN byBytes ELSE rowSafe
                 candidates == {Smaller(r, q) : r \in rowSafe, q \in byteSafe}
      <3>1. rowSafe \subseteq Int
        <4>1. 10 * count \in Nat \ {0}
            BY <2>3, <2>6
        <4> QED BY <1>4, <4>1, TruncatedIsInt
      <3>2. b > 0 => byBytes \subseteq Int
        <4>1. sampled \in Int
            BY <1>2, <2>3 DEF Smaller
        <4>2. width * 9 * MaxPageBytes * sampled \in Int
            BY <1>4, <4>1
        <4>3. b > 0 => 10 * count * b \in Nat \ {0}
            BY <2>2, <2>3, <2>6
        <4> QED BY <4>2, <4>3, TruncatedIsInt
      <3>3. candidates \subseteq Int
          BY <3>1, <3>2 DEF Smaller
      <3>4. Resize(candidates)
          BY <2>6 DEF OnOverflowProbed
      <3> QED BY <3>3, <3>4
    <2>7. OnOverflowProbed(count, b) => OnOverflowUnprobed(b) \/ count # 0
        BY DEF OnOverflowProbed
    <2> QED BY <2>1, <2>5, <2>6, <2>7
  <1> QED BY <1>5, <1>6, <1>7

\* The initial state satisfies the invariant.
LEMMA InitScanInv == Init => ScanInv
  <1> SUFFICES ASSUME Init PROVE ScanInv
      OBVIOUS
  <1>1. Cursors
      BY DEF Init, Cursors, NoCursor
  <1>2. KeptOf(table, 0, 0) = {} /\ KeptOf(table, 0, -1) = {}
      BY <1>1, EmptyRange DEF Cursors
  <1>3. PageInProgress /\ NothingSentDown /\ CursorsAreEmitted /\ Tiles
      BY <1>2 DEF Init, PageInProgress, NothingSentDown, CursorsAreEmitted, Tiles,
                  NoBatch, Batch, NoCursor
  <1> QED BY <1>1, <1>3 DEF ScanInv

\* A new width does not disturb a scan that is not emitting a page: everything
\* it has sent is behind the cursor, which stays.
LEMMA ResizeKeeps ==
    ASSUME ScanInv, NEW candidates, candidates \subseteq Int, Resize(candidates),
           pc \in {"size", "read"}, pc' \in {"size", "top"},
           UNCHANGED <<storeVars, page, hand, split, copy, sentVars>>
    PROVE  ScanInv'
  <1> USE DEF ScanInv
  <1>1. width' \in Int /\ width' >= 1 /\ rangeStart' = rangeStart /\ maxWidth' = maxWidth
      BY ClampIsWidth DEF Resize, Cursors
  <1>2. Cursors'
      BY <1>1 DEF Cursors, storeVars, sentVars
  <1>3. PageInProgress' /\ NothingSentDown' /\ CursorsAreEmitted'
      BY <1>1 DEF PageInProgress, NothingSentDown, CursorsAreEmitted, storeVars, sentVars
  <1>4. Tiles'
      BY <1>1 DEF Tiles, storeVars, sentVars
  <1> QED BY <1>2, <1>3, <1>4

\* A step that leaves the scan's own state alone and neither emits nor advances.
LEMMA ElsewhereKeeps ==
    ASSUME ScanInv, UNCHANGED <<table, scanVars, pc, sentVars>>,
           saved' \in {saved, copy}, copy' \in {copy, split, NoCursor}
    PROVE  ScanInv'
  <1> USE DEF ScanInv
  <1> UNCHANGED <<table, rangeStart, width, maxWidth, page, hand, split, pc,
                  start, sent, everSent>>
      BY DEF scanVars, sentVars, controllerVars
  <1>1. Cursors'
      BY DEF Cursors, NoCursor
  <1>2. KeptOf(table, 0, NoCursor) = {}
      BY EmptyRange DEF Cursors, NoCursor
  <1>3. CursorsAreEmitted'
      BY <1>2 DEF CursorsAreEmitted
  <1>4. PageInProgress' /\ NothingSentDown' /\ Tiles'
      BY DEF PageInProgress, NothingSentDown, Tiles
  <1> QED BY <1>1, <1>3, <1>4

\* A step that only moves the scan loop's control, to where it is asked no more
\* than where it was.
LEMMA ControlKeeps ==
    ASSUME ScanInv, UNCHANGED <<storeVars, scanVars, copy, sentVars>>,
           pc \notin {"down", "emit", "send"}, pc' \notin {"down", "emit", "send", "advance"},
           pc' \in {"top", "size", "read"} => pc \in {"top", "size", "read"}
    PROVE  ScanInv'
  <1> USE DEF ScanInv
  <1> UNCHANGED <<table, saved, rangeStart, width, maxWidth, page, hand, split, copy,
                  start, sent, everSent>>
      BY DEF storeVars, scanVars, sentVars, controllerVars
  <1>1. Cursors' /\ CursorsAreEmitted'
      BY DEF Cursors, CursorsAreEmitted
  <1>2. PageInProgress' /\ NothingSentDown' /\ Tiles'
      BY DEF PageInProgress, NothingSentDown, Tiles
  <1> QED BY <1>1, <1>2

\* A scan starts at the saved cursor and has sent nothing.
LEMMA StartKeeps == ASSUME ScanInv, Start PROVE ScanInv'
  <1> USE DEF ScanInv
  <1> DEFINE from == Larger(saved, 0)
  <1>1. /\ UNCHANGED <<table, saved, page, hand, copy, sent, everSent>>
        /\ split' = saved /\ start' = from /\ pc = "down" /\ pc' = "top"
      BY DEF Start, storeVars, taskVars
  <1>2. from \in Int /\ 0 <= from
      BY DEF Cursors, Larger
  <1>3. PICK w \in InitialWidths(from) : New(from, w, Larger(MaxKey - from, SortKeyRange))
      BY DEF Start
  <1>4. rangeStart' = from /\ maxWidth' \in Int /\ width' \in Int /\ width' >= 1
    <2>1. Larger(MaxKey - from, SortKeyRange) \in Int
        BY <1>2, SourceAssumption, ControllerAssumption DEF Larger
    <2>2. w \in Int
        BY <1>2, FirstWidthIsInt DEF Cursors
    <2>3. width' \in Int /\ width' >= 1
        BY <1>3, <2>1, <2>2, ClampIsWidth DEF New
    <2> QED BY <1>3, <2>1, <2>3 DEF New
  <1>5. Cursors'
      BY <1>1, <1>2, <1>4 DEF Cursors
  <1>6. KeptOf(table, 0, from) \subseteq everSent
    <2>1. CASE saved <= 0
        BY <2>1, <1>2, EmptyRange DEF Larger, Cursors
    <2>2. CASE ~ (saved <= 0)
        BY <2>2 DEF Larger, Cursors, CursorsAreEmitted
    <2> QED BY <2>1, <2>2
  <1>7. KeptOf(table, from, from) = {}
      BY <1>2, EmptyRange DEF Cursors
  <1>8. PageInProgress' /\ NothingSentDown' /\ CursorsAreEmitted'
      BY <1>1, <1>6 DEF PageInProgress, NothingSentDown, CursorsAreEmitted
  <1>9. Tiles'
    <2>1. sent = {} /\ KeptOf(table, start', rangeStart') = {}
        BY <1>1, <1>4, <1>7 DEF NothingSentDown
    <2> QED BY <1>1, <2>1 DEF Tiles
  <1> QED BY <1>5, <1>8, <1>9

\* The page that is read holds the rows of the range ahead, none of them sent.
LEMMA ReadPageKeeps == ASSUME ScanInv, ReadPage PROVE ScanInv'
  <1> USE DEF ScanInv
  <1> DEFINE behind == KeptOf(table, start, rangeStart)
             ahead == KeptOf(table, rangeStart, rangeStart + width)
  <1>1. /\ UNCHANGED <<table, saved, rangeStart, width, maxWidth, hand, split, copy,
                       start, sent, everSent>>
        /\ pc = "read" /\ pc' = "emit" /\ page' = ahead
      BY KeptIsKeptOf DEF ReadPage, storeVars, taskVars, sentVars, controllerVars, UpperBound
  <1>2. behind \cap ahead = {}
      BY RangesTile DEF Cursors
  <1>3. sent = behind /\ hand.rows = {}
      BY <1>1 DEF Tiles, PageInProgress
  <1>4. Cursors' /\ CursorsAreEmitted' /\ NothingSentDown'
      BY <1>1 DEF Cursors, CursorsAreEmitted, NothingSentDown
  <1>5. PageInProgress'
      BY <1>1, <1>2, <1>3 DEF PageInProgress
  <1>6. Tiles'
      BY <1>1, <1>3 DEF Tiles
  <1> QED BY <1>4, <1>5, <1>6

\* A chunk moves from the page to the batch in hand.
LEMMA AttachKeeps == ASSUME ScanInv, AttachCheckpoints PROVE ScanInv'
  <1> USE DEF ScanInv
  <1>1. /\ UNCHANGED <<table, saved, rangeStart, width, maxWidth, split, copy,
                       start, sent, everSent>>
        /\ pc = "emit" /\ pc' = "send"
      BY DEF AttachCheckpoints, storeVars, taskVars, sentVars, controllerVars
  <1>2. PICK rows \in SUBSET page : hand' = Batch(rows, buffer) /\ page' = page \ rows
      BY DEF AttachCheckpoints
  <1>3. hand'.rows = rows /\ hand.rows = {}
      BY <1>1, <1>2 DEF Batch, PageInProgress
  <1>4. Cursors' /\ CursorsAreEmitted' /\ NothingSentDown'
      BY <1>1 DEF Cursors, CursorsAreEmitted, NothingSentDown
  <1>5. PageInProgress'
      BY <1>1, <1>2, <1>3 DEF PageInProgress
  <1>6. Tiles'
      BY <1>1, <1>2, <1>3 DEF Tiles
  <1> QED BY <1>4, <1>5, <1>6

\* The batch in hand joins what has been sent.
LEMMA SendKeeps == ASSUME ScanInv, SendBatch PROVE ScanInv'
  <1> USE DEF ScanInv
  <1>1. /\ UNCHANGED <<table, saved, rangeStart, width, maxWidth, page, split, copy, start>>
        /\ sent' = sent \cup hand.rows /\ everSent' = everSent \cup hand.rows
        /\ pc = "send" /\ pc' = IF page = {} THEN "advance" ELSE "emit"
        /\ hand'.rows = {}
      BY DEF SendBatch, storeVars, taskVars, controllerVars, NoBatch, Batch
  <1>2. Cursors' /\ CursorsAreEmitted' /\ NothingSentDown'
      BY <1>1 DEF Cursors, CursorsAreEmitted, NothingSentDown
  <1>3. PageInProgress'
      BY <1>1 DEF PageInProgress
  <1>4. Tiles'
      BY <1>1 DEF Tiles
  <1> QED BY <1>2, <1>3, <1>4

\* The receiver is gone: what is left of the page is dropped with it.
LEMMA DroppedKeeps == ASSUME ScanInv, SendDropped PROVE ScanInv'
  <1> USE DEF ScanInv
  <1>1. /\ UNCHANGED <<table, saved, rangeStart, width, maxWidth, split, copy,
                       start, sent, everSent>>
        /\ pc \in {"send", "fail", "flush"} /\ pc' \in {"unsubscribe", "drain"}
        /\ hand'.rows = {} /\ page' = {}
      BY DEF SendDropped, storeVars, taskVars, sentVars, controllerVars, NoBatch, Batch
  <1>2. Cursors' /\ CursorsAreEmitted' /\ NothingSentDown'
      BY <1>1 DEF Cursors, CursorsAreEmitted, NothingSentDown
  <1>3. PageInProgress' /\ Tiles'
      BY <1>1 DEF PageInProgress, Tiles
  <1> QED BY <1>2, <1>3

\* The cursor passes a page that has been sent completely, and the split with it.
LEMMA AdvanceKeeps == ASSUME ScanInv, Advance PROVE ScanInv'
  <1> USE DEF ScanInv
  <1> DEFINE upper == rangeStart + width
  <1>1. /\ UNCHANGED <<table, saved, maxWidth, page, hand, copy, start, sent, everSent>>
        /\ pc = "advance" /\ pc' = "top" /\ rangeStart' = upper /\ split' = upper
      BY DEF Advance, OnComplete, storeVars, taskVars, sentVars
  <1>2. width' \in Int /\ width' >= 1
    <2>1. PICK w \in Int : width' = Clamp(w, maxWidth)
        BY DEF Advance, OnComplete
    <2> QED BY <2>1, ClampIsWidth DEF Cursors
  <1>3. upper \in Int /\ start <= rangeStart /\ rangeStart <= upper /\ 0 <= start
      BY DEF Cursors
  <1>4. sent = KeptOf(table, start, upper)
    <2>1. KeptOf(table, start, upper)
             = KeptOf(table, start, rangeStart) \cup KeptOf(table, rangeStart, upper)
        BY <1>3, RangesTile DEF Cursors
    <2>2. page = {} /\ hand.rows = {}
        BY <1>1 DEF PageInProgress
    <2> QED BY <1>1, <2>1, <2>2 DEF Tiles
  <1>5. KeptOf(table, 0, upper) \subseteq everSent
    <2>1. KeptOf(table, 0, upper) = KeptOf(table, 0, start) \cup KeptOf(table, start, upper)
        BY <1>3, RangesTile DEF Cursors
    <2> QED BY <1>4, <2>1 DEF CursorsAreEmitted
  <1>6. Cursors'
      BY <1>1, <1>2, <1>3 DEF Cursors
  <1>7. CursorsAreEmitted' /\ NothingSentDown' /\ PageInProgress'
      BY <1>1, <1>5 DEF CursorsAreEmitted, NothingSentDown, PageInProgress
  <1>8. Tiles'
      BY <1>1, <1>4 DEF Tiles
  <1> QED BY <1>6, <1>7, <1>8

\* A process that dies leaves the state backend and the sink's table.
LEMMA CrashKeeps == ASSUME ScanInv, Crash PROVE ScanInv'
  <1> USE DEF ScanInv
  <1>1. /\ UNCHANGED <<table, saved, everSent>>
        /\ rangeStart' = 0 /\ width' = 1 /\ maxWidth' = 1 /\ start' = 0
        /\ split' = NoCursor /\ copy' = NoCursor /\ sent' = {} /\ page' = {}
        /\ hand'.rows = {} /\ pc' = "down"
      BY DEF Crash, Forget, storeVars, NoBatch, Batch
  <1>2. KeptOf(table, 0, 0) = {} /\ KeptOf(table, 0, NoCursor) = {}
      BY EmptyRange DEF Cursors, NoCursor
  <1>3. Cursors'
      BY <1>1 DEF Cursors, NoCursor
  <1>4. CursorsAreEmitted' /\ NothingSentDown' /\ PageInProgress' /\ Tiles'
      BY <1>1, <1>2 DEF CursorsAreEmitted, NothingSentDown, PageInProgress, Tiles
  <1> QED BY <1>3, <1>4

\* A range that overflows, times out or does not fit is resized, and read again.
LEMMA OverflowKeeps == ASSUME ScanInv, SizeShrink \/ ReadTimeout \/ ReadOverflow PROVE ScanInv'
  <1>1. table \in Tables /\ width \in Int /\ width >= 1
      BY DEF ScanInv, Cursors
  <1>2. PICK candidates \in SUBSET Int : Resize(candidates)
      BY <1>1, ShrinkIsResize
  <1>3. /\ pc \in {"size", "read"} /\ pc' \in {"size", "top"}
        /\ UNCHANGED <<storeVars, page, hand, split, copy, sentVars>>
      BY DEF SizeShrink, ReadTimeout, ReadOverflow, taskVars
  <1> QED BY <1>2, <1>3, ResizeKeeps

\* Every step preserves the invariant.
LEMMA NextScanInv == ScanInv /\ [Next]_vars => ScanInv'
  <1> SUFFICES ASSUME ScanInv, [Next]_vars PROVE ScanInv'
      OBVIOUS
  <1>1. CASE Start BY <1>1, StartKeeps
  <1>2. CASE SizeShrink \/ ReadTimeout \/ ReadOverflow BY <1>2, OverflowKeeps
  <1>3. CASE ReadPage BY <1>3, ReadPageKeeps
  <1>4. CASE AttachCheckpoints BY <1>4, AttachKeeps
  <1>5. CASE SendBatch BY <1>5, SendKeeps
  <1>6. CASE SendDropped BY <1>6, DroppedKeeps
  <1>7. CASE Advance BY <1>7, AdvanceKeeps
  <1>8. CASE Crash BY <1>8, CrashKeeps
  <1>9. CASE Top \/ SizeFits \/ SizeProbeFails \/ ReadRetry \/ ReadFails \/ ReadUnsplittable
             \/ SendError \/ Unsubscribe
      BY <1>9, ControlKeeps
         DEF Top, SizeFits, SizeProbeFails, ReadRetry, ReadFails, ReadUnsplittable,
             SendError, Unsubscribe, taskVars
  <1>10. CASE JoinTask \/ SendFlush
    <2>1. /\ UNCHANGED <<table, saved, rangeStart, width, maxWidth, page, split, copy,
                         start, sent, everSent>>
          /\ pc \in {"drain", "flush"} /\ pc' \in {"flush", "unsubscribe"}
          /\ hand'.rows = {}
        BY <1>10 DEF JoinTask, SendFlush, storeVars, taskVars, sentVars, controllerVars,
                     NoBatch, Batch
    <2>2. Cursors' /\ CursorsAreEmitted' /\ NothingSentDown'
        BY <2>1 DEF ScanInv, Cursors, CursorsAreEmitted, NothingSentDown
    <2>3. PageInProgress' /\ Tiles'
        BY <2>1 DEF ScanInv, PageInProgress, Tiles
    <2> QED BY <2>2, <2>3 DEF ScanInv
  <1>11. CASE CheckpointingTask
      BY <1>11, ElsewhereKeeps
         DEF CheckpointingTask, TaskRecv, TaskClone, TaskPut, TaskExit, storeVars
  <1>12. CASE Sink \/ SinkFails
      BY <1>12, ElsewhereKeeps
         DEF Sink, SinkWrite, SinkReadsError, SinkFails, SinkDrops, storeVars, taskVars
  <1>13. CASE Mint \/ RequestShutdown
      BY <1>13, ElsewhereKeeps DEF Mint, RequestShutdown, storeVars, taskVars
  <1>14. CASE Finished \/ UNCHANGED vars
      BY <1>14, ElsewhereKeeps DEF Finished, vars, storeVars, taskVars
  <1> QED BY <1>1, <1>2, <1>3, <1>4, <1>5, <1>6, <1>7, <1>8, <1>9, <1>10, <1>11,
             <1>12, <1>13, <1>14 DEF Next, ScanLoop

\* The invariant holds throughout.
LEMMA ScanInvHolds == Spec => []ScanInv
  BY InitScanInv, NextScanInv, PTL DEF Spec

-----------------------------------------------------------------------------
\* The ranges a scan emits tile the keys behind its cursor, whatever overflows,
\* timeouts, retries and resizes happen on the way (RangeController).
THEOREM ScanTilesHolds == Spec => []ScanTiles
  <1>1. ScanInv => ScanTiles
    <2> SUFFICES ASSUME ScanInv, pc # "down" PROVE ScanTiles
        BY DEF ScanTiles
    <2> USE DEF ScanInv
    <2> DEFINE behind == Kept(start, rangeStart)
               ahead == Kept(rangeStart, UpperBound)
    <2>1. /\ behind = KeptOf(table, start, rangeStart)
          /\ ahead = KeptOf(table, rangeStart, rangeStart + width)
          /\ Kept(start, UpperBound) = KeptOf(table, start, rangeStart + width)
        BY KeptIsKeptOf DEF UpperBound
    <2>2. Kept(start, UpperBound) = behind \cup ahead
        BY <2>1, RangesTile DEF Cursors
    <2> QED BY <2>1, <2>2 DEF ScanTiles, Tiles
  <1> QED BY <1>1, ScanInvHolds, PTL

\* A scan puts no row on its stream twice.
THEOREM EmittedOnceHolds == Spec => []EmittedOnce
  <1>1. ScanInv => EmittedOnce
      BY DEF ScanInv, PageInProgress, EmittedOnce
  <1> QED BY <1>1, ScanInvHolds, PTL

\* The cursor in the state backend never has a row behind it that no process has
\* put on its stream.
THEOREM SavedIsEmittedHolds == Spec => []SavedIsEmitted
  <1>1. ScanInv => SavedIsEmitted
      BY KeptIsKeptOf DEF ScanInv, CursorsAreEmitted, SavedIsEmitted
  <1> QED BY <1>1, ScanInvHolds, PTL

-----------------------------------------------------------------------------
(* Types: the finalizers of an ack, the bounds of the cursors, the items.   *)

\* Induction over the numbers, for a set.
LEMMA Induct ==
    ASSUME NEW T, 0 \in T, \A n \in Nat : n \in T => n + 1 \in T
    PROVE  Nat \subseteq T
  <1> DEFINE R == OpToRel(<, Nat)
             B == Nat \ T
  <1> SUFFICES ASSUME B # {}
               PROVE  FALSE
    OBVIOUS
  <1>1. \E x \in B : \A y \in B : ~(<<y, x>> \in R)
    <2>1. IsWellFoundedOn(R, Nat)
      BY NatLessThanWellFounded, Zenon
    <2>2. B \subseteq Nat
      OBVIOUS
    <2> HIDE DEF B, R
    <2> QED BY <2>1, <2>2, WFMin, Zenon
  <1>2. PICK x \in B : \A y \in B : ~(<<y, x>> \in R)
    BY <1>1, Zenon
  <1>3. x \in Nat /\ x \notin T /\ x # 0
    OBVIOUS
  <1>4. x - 1 \in Nat /\ x - 1 < x /\ (x - 1) + 1 = x
    BY <1>3
  <1>5. x - 1 \notin T
    BY <1>3, <1>4
  <1>6. <<x - 1, x>> \in R
    BY <1>3, <1>4 DEF OpToRel
  <1> QED BY <1>2, <1>3, <1>4, <1>5, <1>6, Zenon

\* What Finalizers builds up over the first messages.
Answer(m, fs) == IF m.kind = "Marker" THEN Append(fs, Finalizer(m.epoch)) ELSE fs
Answers(f, msgs, n) ==
    /\ f \in [0 .. n -> Seq(Messages)]
    /\ f[0] = <<>> /\ \A i \in 1 .. n : f[i] = Answer(msgs[i], f[i - 1])

\* A Finalizer is a message.
LEMMA AnswerType ==
    ASSUME NEW m \in Messages, NEW fs \in Seq(Messages)
    PROVE  Answer(m, fs) \in Seq(Messages)
  <1>1. Finalizer(m.epoch) \in Messages
    BY DEF Messages, Finalizer
  <1> QED BY <1>1, AppendProperties DEF Answer

\* There is such a function.
LEMMA AnswersExist ==
    ASSUME NEW msgs \in Seq(Messages), NEW n \in 0 .. Len(msgs)
    PROVE  \E f : Answers(f, msgs, n)
  <1> DEFINE T == {m \in Nat : m <= Len(msgs) => \E f : Answers(f, msgs, m)}
  <1>0. Len(msgs) \in Nat /\ \A i \in 1 .. Len(msgs) : msgs[i] \in Messages
    OBVIOUS
  <1>1. 0 \in T
    <2> DEFINE f == [i \in 0 .. 0 |-> <<>>]
    <2>1. Answers(f, msgs, 0)
      BY DEF Answers
    <2> QED BY <2>1
  <1>2. ASSUME NEW m \in Nat, m \in T
        PROVE  m + 1 \in T
    <2> SUFFICES ASSUME m + 1 <= Len(msgs)
                 PROVE  \E f : Answers(f, msgs, m + 1)
      OBVIOUS
    <2>1. PICK g : Answers(g, msgs, m)
      BY <1>0, <1>2
    <2> HIDE DEF T
    <2>2. m \in 0 .. m /\ m + 1 \in 1 .. Len(msgs) /\ (m + 1) - 1 = m
      BY <1>0, <1>2
    <2>3. PICK v \in Seq(Messages) : v = Answer(msgs[m + 1], g[m])
      BY <1>0, <2>1, <2>2, AnswerType DEF Answers
    <2> DEFINE f == [i \in 0 .. m + 1 |-> IF i = m + 1 THEN v ELSE g[i]]
    <2>4. f \in [0 .. m + 1 -> Seq(Messages)]
      <3>1. \A i \in 0 .. m + 1 : i = m + 1 \/ i \in 0 .. m
        OBVIOUS
      <3> QED BY <2>1, <2>3, <3>1 DEF Answers
    <2>5. f[m + 1] = v /\ \A i \in 0 .. m : f[i] = g[i]
      <3>1. m + 1 \in 0 .. m + 1 /\ \A i \in 0 .. m : i \in 0 .. m + 1 /\ i # m + 1
        OBVIOUS
      <3> QED BY <3>1, Zenon
    <2> HIDE DEF f
    <2>6. f[0] = <<>>
      BY <2>1, <2>5 DEF Answers
    <2>7. ASSUME NEW i \in 1 .. m + 1
          PROVE  f[i] = Answer(msgs[i], f[i - 1])
      <3>1. i - 1 \in 0 .. m
        BY <2>7
      <3>2. CASE i = m + 1
        BY <2>2, <2>3, <2>5, <3>1, <3>2
      <3>3. CASE i # m + 1
        <4>1. i \in 1 .. m /\ i \in 0 .. m
          BY <2>7, <3>3
        <4> QED BY <2>1, <2>5, <3>1, <4>1 DEF Answers
      <3> QED BY <3>2, <3>3
    <2>8. Answers(f, msgs, m + 1)
      BY <2>4, <2>6, <2>7, Zenon DEF Answers
    <2> QED BY <2>8
  <1> HIDE DEF T
  <1>3. Nat \subseteq T
    BY <1>1, <1>2, Induct
  <1>4. n \in T /\ n <= Len(msgs)
    BY <1>0, <1>3
  <1> QED BY <1>4 DEF T

\* What the sink's acks put into the receiver are messages.
LEMMA FinalizersType ==
    ASSUME NEW msgs \in Seq(Messages)
    PROVE  Finalizers(msgs) \in Seq(Messages)
  <1>0. PICK n \in Nat : n = Len(msgs)
    OBVIOUS
  <1>1. PICK f : Answers(f, msgs, n)
    <2>1. n \in 0 .. Len(msgs)
      BY <1>0
    <2> QED BY <2>1, AnswersExist
  <1> DEFINE Step(g, i) == IF i = 0 THEN <<>>
                           ELSE IF msgs[i].kind = "Marker" THEN Append(g[i - 1], Finalizer(msgs[i].epoch))
                                ELSE g[i - 1]
  <1>2. f = [i \in 0 .. n |-> Step(f, i)]
    <2>1. f = [i \in 0 .. n |-> f[i]]
      BY <1>1 DEF Answers
    <2>2. ASSUME NEW i \in 0 .. n
          PROVE  f[i] = Step(f, i)
      <3>1. i = 0 \/ (i # 0 /\ i \in 1 .. n)
        BY <2>2
      <3> QED BY <1>1, <3>1, Zenon DEF Answers, Answer
    <2> QED BY <2>1, <2>2, Zenon
  <1>3. PICK g : g = [i \in 0 .. n |-> Step(g, i)] /\ Finalizers(msgs) = g[n]
    BY <1>0, <1>2 DEF Finalizers
  <1>4. g[0] = <<>> /\ \A i \in 1 .. n : g[i] = Answer(msgs[i], g[i - 1])
    <2>1. \A i \in 0 .. n : g[i] = Step(g, i)
      BY <1>3, Zenon
    <2>2. 0 \in 0 .. n /\ \A i \in 1 .. n : i \in 0 .. n /\ i # 0
      OBVIOUS
    <2> QED BY <2>1, <2>2, Zenon DEF Answer
  <1>5. \A i \in 1 .. n : msgs[i] \in Messages
    BY <1>0
  <1> HIDE DEF Step
  <1> DEFINE T == {m \in Nat : m <= n => g[m] \in Seq(Messages)}
  <1>6. 0 \in T
    <2>1. g[0] \in Seq(Messages)
      <3>1. <<>> \in Seq(Messages)
        OBVIOUS
      <3> QED BY <1>4, <3>1, Zenon
    <2> QED BY <2>1
  <1>7. ASSUME NEW m \in Nat, m \in T
        PROVE  m + 1 \in T
    <2> SUFFICES ASSUME m + 1 <= n
                 PROVE  g[m + 1] \in Seq(Messages)
      OBVIOUS
    <2>1. m + 1 \in 1 .. n /\ (m + 1) - 1 = m /\ m <= n
      BY <1>7
    <2>2. g[m] \in Seq(Messages)
      BY <1>7, <2>1
    <2> QED BY <1>4, <1>5, <2>1, <2>2, AnswerType
  <1> HIDE DEF T
  <1>8. Nat \subseteq T
    BY <1>6, <1>7, Induct
  <1>9. n \in T /\ n <= n
    BY <1>8
  <1> QED BY <1>3, <1>9 DEF T

\* What the stream to the sink carries of the table t.
Items(t) == [rows : SUBSET t, msgs : Seq(Messages), error : BOOLEAN]

\* The cursors stay in the key space and one range beyond it: a range that is being
\* read, emitted or passed begins at a key of the table, and no width exceeds the
\* largest.
Bounded ==
    /\ table \in Tables
    /\ saved \in NoCursor .. MaxCursor /\ split \in NoCursor .. MaxCursor
    /\ copy \in NoCursor .. MaxCursor
    /\ rangeStart \in 0 .. MaxCursor /\ start \in 0 .. MaxCursor
    /\ maxWidth \in 1 .. Larger(MaxKey, SortKeyRange) /\ width \in 1 .. maxWidth
    /\ pc \in {"down", "top", "size", "read", "emit", "send", "advance", "fail",
               "drain", "flush", "unsubscribe", "ended"}
    /\ pc \in {"size", "read", "emit", "send", "advance"} => rangeStart <= MaxKey

\* Rows and messages, wherever they are.
Carried ==
    /\ written \subseteq table /\ page \subseteq table
    /\ sent \subseteq table /\ everSent \subseteq table
    /\ hand \in Items(table) /\ pipe \in Seq(Items(table)) /\ Len(pipe) <= Capacity
    /\ buffer \in Seq(Messages) /\ inbox \in Seq(Messages)

\* The rest.
Flags ==
    /\ task \in {"recv", "clone", "put", "exited"}
    /\ gone \in BOOLEAN /\ epoch \in 0 .. MaxEpoch /\ acked \subseteq Epochs
    /\ shutdown \in BOOLEAN /\ faults \in 0 .. MaxFaults

\* The largest cursor and the largest width are numbers.
LEMMA Limits ==
    /\ MaxKey \in Nat /\ SortKeyRange \in Nat \ {0}
    /\ Larger(MaxKey, SortKeyRange) \in Nat \ {0}
    /\ MaxCursor = MaxKey + Larger(MaxKey, SortKeyRange) /\ MaxCursor \in Nat
    /\ NoCursor = -1
  BY SourceAssumption, ControllerAssumption DEF Larger, MaxCursor, NoCursor

\* A width is between one key and the largest.
LEMMA ClampIn ==
    ASSUME NEW w \in Int, NEW max \in Nat \ {0}
    PROVE  Clamp(w, max) \in 1 .. max
  BY DEF Clamp, Larger, Smaller, MinWidth

\* A new width is allowed.
LEMMA ResizeBounded ==
    ASSUME Bounded, NEW candidates, candidates \subseteq Int, Resize(candidates),
           pc \in {"size", "read"}, pc' \in {"size", "top"},
           UNCHANGED <<table, saved, split, copy, start>>
    PROVE  Bounded'
  <1>1. rangeStart' = rangeStart /\ maxWidth' = maxWidth /\ maxWidth \in Nat \ {0}
    BY Limits DEF Resize, Bounded
  <1>2. width' \in 1 .. maxWidth
    BY <1>1, ClampIn DEF Resize
  <1> QED BY <1>1, <1>2 DEF Bounded

\* A scan starts at the saved cursor, with a width of at least one key.
LEMMA StartBounded == ASSUME Bounded, Start PROVE Bounded'
  <1> DEFINE from == Larger(saved, 0)
             most == Larger(MaxKey - from, SortKeyRange)
  <1>1. /\ UNCHANGED <<table, saved, copy>>
        /\ split' = saved /\ start' = from /\ pc' = "top"
    BY DEF Start, storeVars, taskVars
  <1>2. from \in 0 .. MaxCursor
    BY Limits DEF Bounded, Larger
  <1>3. PICK w \in InitialWidths(from) : New(from, w, most)
    BY DEF Start
  <1>4. w \in Int
    BY <1>2, FirstWidthIsInt, Limits DEF Bounded
  <1>5. most \in 1 .. Larger(MaxKey, SortKeyRange)
    BY <1>2, Limits DEF Larger
  <1> HIDE DEF from, most
  <1>6. rangeStart' = from /\ maxWidth' = most /\ width' \in 1 .. most
    <2>1. most \in Nat \ {0}
      BY <1>5, Limits
    <2> QED BY <1>3, <1>4, <2>1, ClampIn DEF New
  <1> QED BY <1>1, <1>2, <1>5, <1>6 DEF Bounded

\* The cursor passes a range that began at a key of the table.
LEMMA AdvanceBounded == ASSUME Bounded, Advance PROVE Bounded'
  <1>1. /\ UNCHANGED <<table, saved, copy, start, maxWidth>>
        /\ pc = "advance" /\ pc' = "top"
        /\ rangeStart' = rangeStart + width /\ split' = rangeStart + width
    BY DEF Advance, OnComplete, storeVars, taskVars, sentVars
  <1>2. PICK w \in Int : width' = Clamp(w, maxWidth)
    BY DEF Advance, OnComplete
  <1>3. maxWidth \in Nat \ {0} /\ maxWidth <= Larger(MaxKey, SortKeyRange)
    BY Limits DEF Bounded
  <1>4. width' \in 1 .. maxWidth
    BY <1>2, <1>3, ClampIn
  <1>5. rangeStart + width \in 0 .. MaxCursor
    BY <1>1, <1>3, Limits DEF Bounded
  <1>6. rangeStart + width \in NoCursor .. MaxCursor
    BY <1>5, Limits
  <1> QED BY <1>1, <1>4, <1>5, <1>6 DEF Bounded

\* Every step keeps the cursors within their bounds.
LEMMA NextBounded == ASSUME Bounded, [Next]_vars PROVE Bounded'
  <1>1. CASE Start BY <1>1, StartBounded
  <1>2. CASE SizeShrink \/ ReadTimeout \/ ReadOverflow
    <2>1. table \in Tables /\ width \in Int /\ width >= 1
      BY Limits DEF Bounded
    <2>2. PICK candidates \in SUBSET Int : Resize(candidates)
      BY <1>2, <2>1, ShrinkIsResize
    <2>3. /\ pc \in {"size", "read"} /\ pc' \in {"size", "top"}
          /\ UNCHANGED <<table, saved, split, copy, start>>
      BY <1>2 DEF SizeShrink, ReadTimeout, ReadOverflow, storeVars, taskVars, sentVars
    <2> QED BY <2>2, <2>3, ResizeBounded
  <1>3. CASE Advance BY <1>3, AdvanceBounded
  <1>4. CASE Crash
    <2>1. /\ UNCHANGED <<table, saved>>
          /\ rangeStart' = 0 /\ width' = 1 /\ maxWidth' = 1 /\ start' = 0
          /\ split' = NoCursor /\ copy' = NoCursor /\ pc' = "down"
      BY <1>4 DEF Crash, Forget, storeVars
    <2> QED BY <2>1, Limits DEF Bounded
  <1>5. CASE Top
    <2>1. /\ UNCHANGED <<table, saved, rangeStart, width, maxWidth, split, copy, start>>
          /\ pc' = IF rangeStart > MaxKey \/ shutdown THEN "drain" ELSE "size"
      BY <1>5 DEF Top, IsDone, storeVars, scanVars, controllerVars, taskVars, sentVars
    <2>2. pc' = "drain" \/ (pc' = "size" /\ rangeStart <= MaxKey)
      BY <2>1, Limits DEF Bounded
    <2> QED BY <2>1, <2>2 DEF Bounded
  <1>6. CASE SizeFits \/ SizeProbeFails \/ ReadRetry \/ ReadFails \/ ReadUnsplittable
             \/ ReadPage \/ AttachCheckpoints \/ SendBatch \/ SendDropped
             \/ SendError \/ JoinTask \/ SendFlush \/ Unsubscribe
    <2>1. UNCHANGED <<table, saved, rangeStart, width, maxWidth, split, copy, start>>
      BY <1>6 DEF SizeFits, SizeProbeFails, ReadRetry, ReadFails, ReadUnsplittable,
           ReadPage, AttachCheckpoints, SendBatch, SendDropped, SendError, JoinTask,
           SendFlush, Unsubscribe, storeVars, scanVars, controllerVars, taskVars, sentVars
    <2>2. /\ pc' \in {"top", "read", "emit", "send", "advance", "fail", "drain", "flush",
                      "unsubscribe", "ended"}
          /\ pc' \in {"read", "emit", "send", "advance"} => pc \in {"size", "read", "emit", "send"}
      BY <1>6 DEF SizeFits, SizeProbeFails, ReadRetry, ReadFails, ReadUnsplittable,
           ReadPage, AttachCheckpoints, SendBatch, SendDropped, SendError, JoinTask,
           SendFlush, Unsubscribe
    <2> QED BY <2>1, <2>2 DEF Bounded
  <1>7. CASE CheckpointingTask \/ Sink \/ SinkFails \/ Mint \/ RequestShutdown
             \/ Finished \/ UNCHANGED vars
    <2>1. /\ UNCHANGED <<table, rangeStart, width, maxWidth, split, start, pc>>
          /\ saved' \in {saved, copy} /\ copy' \in {copy, split, NoCursor}
      BY <1>7 DEF CheckpointingTask, TaskRecv, TaskClone, TaskPut, TaskExit, Sink,
           SinkWrite, SinkReadsError, SinkFails, SinkDrops, Mint, RequestShutdown,
           Finished, vars, storeVars, scanVars, controllerVars, taskVars, sentVars
    <2> QED BY <2>1, Limits DEF Bounded
  <1> QED BY <1>1, <1>2, <1>3, <1>4, <1>5, <1>6, <1>7 DEF Next, ScanLoop

\* A batch of rows of the table, the error and the empty batch are items.
LEMMA ItemTypes ==
    ASSUME NEW t
    PROVE  /\ \A rows \in SUBSET t, msgs \in Seq(Messages) : Batch(rows, msgs) \in Items(t)
           /\ NoBatch \in Items(t) /\ ErrorItem \in Items(t)
  <1>1. <<>> \in Seq(Messages) /\ {} \in SUBSET t
    OBVIOUS
  <1> QED BY <1>1 DEF Batch, NoBatch, ErrorItem, Items

\* A send waits for room in the channel.
LEMMA SendFits ==
    ASSUME NEW t, NEW q \in Seq(Items(t)), NEW x \in Items(t), Len(q) < Capacity
    PROVE  Append(q, x) \in Seq(Items(t)) /\ Len(Append(q, x)) <= Capacity
  <1>1. /\ Append(q, x) \in Seq(Items(t)) /\ Len(Append(q, x)) = Len(q) + 1
        /\ Len(q) \in Nat
    BY AppendProperties
  <1> QED BY <1>1, SourceAssumption

\* A receive makes room.
LEMMA ReceiveFits ==
    ASSUME NEW t, NEW q \in Seq(Items(t)), q # <<>>, Len(q) <= Capacity
    PROVE  /\ Head(q) \in Items(t)
           /\ Tail(q) \in Seq(Items(t)) /\ Len(Tail(q)) <= Capacity
  <1>1. /\ Head(q) \in Items(t) /\ Tail(q) \in Seq(Items(t)) /\ Len(Tail(q)) = Len(q) - 1
        /\ Len(q) \in Nat
    BY HeadTailProperties
  <1> QED BY <1>1, SourceAssumption

\* The page and the batch in hand are rows of the table.
LEMMA EmitCarried ==
    ASSUME Carried, ReadPage \/ AttachCheckpoints \/ SendDropped \/ JoinTask
    PROVE  Carried'
  <1>1. /\ UNCHANGED <<table, written, sent, everSent, pipe, inbox>>
        /\ buffer' \in {buffer, <<>>}
    BY DEF ReadPage, AttachCheckpoints, SendDropped, JoinTask, storeVars, sentVars
  <1>2. page' \subseteq table
    BY DEF Carried, ReadPage, AttachCheckpoints, SendDropped, JoinTask, Kept, Between
  <1>3. hand' \in Items(table)
    <2>1. ReadPage => hand' = hand
      BY DEF ReadPage
    <2>2. SendDropped => hand' = NoBatch
      BY DEF SendDropped
    <2>3. AttachCheckpoints \/ JoinTask => \E rows \in SUBSET table : hand' = Batch(rows, buffer)
      BY DEF AttachCheckpoints, JoinTask, Carried
    <2> QED BY <2>1, <2>2, <2>3, ItemTypes DEF Carried
  <1>4. buffer' \in Seq(Messages)
    <2>1. <<>> \in Seq(Messages)
      OBVIOUS
    <2> QED BY <1>1, <2>1, Zenon DEF Carried
  <1> QED BY <1>1, <1>2, <1>3, <1>4 DEF Carried

\* What is put on the stream is an item.
LEMMA SendCarried ==
    ASSUME Carried, SendBatch \/ SendError \/ SendFlush
    PROVE  Carried'
  <1>1. /\ UNCHANGED <<table, written, page, buffer, inbox>>
        /\ Len(pipe) < Capacity
        /\ \E x \in {hand, ErrorItem} : pipe' = Append(pipe, x)
        /\ hand' \in {hand, NoBatch}
        /\ sent' \in {sent, sent \cup hand.rows}
        /\ everSent' \in {everSent, everSent \cup hand.rows}
    BY DEF SendBatch, SendError, SendFlush, storeVars, scanVars, sentVars
  <1>2. hand \in Items(table) /\ ErrorItem \in Items(table) /\ NoBatch \in Items(table)
    BY ItemTypes DEF Carried
  <1>3. hand.rows \subseteq table
    BY <1>2 DEF Items
  <1>4. pipe' \in Seq(Items(table)) /\ Len(pipe') <= Capacity
    <2>1. PICK x \in Items(table) : pipe' = Append(pipe, x)
      BY <1>1, <1>2
    <2>2. pipe \in Seq(Items(table)) /\ Len(pipe) < Capacity
      BY <1>1 DEF Carried
    <2> QED BY <2>1, <2>2, SendFits
  <1>5. sent' \subseteq table /\ everSent' \subseteq table
    BY <1>1, <1>3 DEF Carried
  <1>6. hand' \in Items(table)
    BY <1>1, <1>2
  <1> QED BY <1>1, <1>4, <1>5, <1>6 DEF Carried

\* Messages go from the receiver to the buffer and come from the coordinator.
LEMMA MessageCarried ==
    ASSUME Carried, Flags, TaskRecv \/ Mint \/ Unsubscribe
    PROVE  Carried'
  <1>1. UNCHANGED <<table, written, page, sent, everSent, hand, pipe>>
    BY DEF TaskRecv, Mint, Unsubscribe, storeVars, scanVars, sentVars
  <1>2. CASE TaskRecv
    <2>1. buffer' = Append(buffer, Head(inbox)) /\ inbox' = Tail(inbox) /\ inbox # <<>>
      BY <1>2 DEF TaskRecv
    <2>2. buffer' \in Seq(Messages) /\ inbox' \in Seq(Messages)
      BY <2>1, AppendProperties, HeadTailProperties DEF Carried
    <2> QED BY <1>1, <2>2 DEF Carried
  <1>3. CASE Mint
    <2>1. buffer' = buffer /\ inbox' = Append(inbox, Marker(epoch + 1)) /\ epoch < MaxEpoch
      BY <1>3 DEF Mint
    <2>2. epoch + 1 \in Epochs
      BY <2>1, SourceAssumption DEF Flags, Epochs
    <2>3. Marker(epoch + 1) \in Messages
      BY <2>2 DEF Marker, Messages
    <2>4. inbox' \in Seq(Messages)
      BY <2>1, <2>3, AppendProperties DEF Carried
    <2> QED BY <1>1, <2>1, <2>4 DEF Carried
  <1>4. CASE Unsubscribe
    BY <1>1, <1>4 DEF Carried, Unsubscribe
  <1> QED BY <1>2, <1>3, <1>4

\* The sink writes rows of the table and acks epochs that were minted.
LEMMA SinkWriteTypes ==
    ASSUME Carried, Flags, SinkWrite
    PROVE  Carried' /\ Flags'
  <1> DEFINE msgs == Head(pipe).msgs
             markers == {i \in 1 .. Len(msgs) : msgs[i].kind = "Marker"}
  <1>1. /\ UNCHANGED <<table, page, sent, everSent, hand, buffer, task, gone, epoch,
                       shutdown, faults>>
        /\ pipe # <<>> /\ pipe' = Tail(pipe) /\ written' = written \cup Head(pipe).rows
        /\ acked' = acked \cup {msgs[i].epoch : i \in markers}
        /\ inbox' = IF Subscribed THEN inbox \o Finalizers(msgs) ELSE inbox
    BY DEF SinkWrite, scanVars, sentVars, taskVars
  <1>2. /\ Head(pipe) \in Items(table)
        /\ pipe' \in Seq(Items(table)) /\ Len(pipe') <= Capacity
    BY <1>1, ReceiveFits DEF Carried
  <1>3. msgs \in Seq(Messages) /\ Head(pipe).rows \subseteq table
    BY <1>2 DEF Items
  <1>4. \A i \in 1 .. Len(msgs) : msgs[i].epoch \in Epochs
    <2>1. \A i \in 1 .. Len(msgs) : msgs[i] \in Messages
      BY <1>3
    <2> QED BY <2>1 DEF Messages
  <1> HIDE DEF msgs
  <1>5. acked' \subseteq Epochs
    BY <1>1, <1>4 DEF Flags
  <1>6. inbox' \in Seq(Messages)
    <2>1. inbox \o Finalizers(msgs) \in Seq(Messages)
      BY <1>3, FinalizersType, ConcatProperties DEF Carried
    <2> QED BY <1>1, <2>1 DEF Carried
  <1>7. Carried'
    BY <1>1, <1>2, <1>3, <1>6 DEF Carried
  <1>8. Flags'
    BY <1>1, <1>5 DEF Flags
  <1> QED BY <1>7, <1>8

\* Every step keeps rows and messages what they are.
LEMMA NextCarried == ASSUME Carried, Flags, [Next]_vars PROVE Carried'
  <1>1. CASE ReadPage \/ AttachCheckpoints \/ SendDropped \/ JoinTask BY <1>1, EmitCarried
  <1>2. CASE SendBatch \/ SendError \/ SendFlush BY <1>2, SendCarried
  <1>3. CASE TaskRecv \/ Mint \/ Unsubscribe BY <1>3, MessageCarried
  <1>4. CASE SinkWrite BY <1>4, SinkWriteTypes
  <1>5. CASE Crash
    <2>1. /\ UNCHANGED <<table, written, everSent>>
          /\ page' = {} /\ sent' = {} /\ hand' = NoBatch
          /\ pipe' = <<>> /\ buffer' = <<>> /\ inbox' = <<>>
      BY <1>5 DEF Crash, Forget, storeVars
    <2>2. pipe' \in Seq(Items(table)) /\ Len(pipe') <= Capacity
      BY <2>1, SourceAssumption
    <2> QED BY <2>1, <2>2, ItemTypes DEF Carried
  <1>6. CASE SinkReadsError \/ SinkFails
    <2>1. /\ UNCHANGED <<table, written, page, sent, everSent, hand, buffer, inbox>>
          /\ pipe' = <<>>
      BY <1>6 DEF SinkReadsError, SinkFails, SinkDrops, storeVars, scanVars, sentVars
    <2>2. pipe' \in Seq(Items(table)) /\ Len(pipe') <= Capacity
      BY <2>1, SourceAssumption
    <2> QED BY <2>1, <2>2 DEF Carried
  <1>7. CASE Start \/ Top \/ SizeShrink \/ SizeFits \/ SizeProbeFails
             \/ ReadTimeout \/ ReadRetry \/ ReadFails \/ ReadUnsplittable \/ ReadOverflow
             \/ Advance \/ TaskClone \/ TaskPut \/ TaskExit \/ RequestShutdown
             \/ Finished \/ UNCHANGED vars
    <2>1. UNCHANGED <<table, written, page, sent, everSent, hand, pipe, buffer, inbox>>
      BY <1>7 DEF Start, Top, SizeShrink, SizeFits, SizeProbeFails, ReadTimeout, ReadRetry,
           ReadFails, ReadUnsplittable, ReadOverflow, Advance, TaskClone, TaskPut, TaskExit,
           RequestShutdown, Finished, vars, storeVars, scanVars, sentVars
    <2> QED BY <2>1 DEF Carried
  <1> QED BY <1>1, <1>2, <1>3, <1>4, <1>5, <1>6, <1>7
          DEF Next, ScanLoop, CheckpointingTask, Sink

\* Every step keeps the flags and counters in their ranges.
LEMMA NextFlags == ASSUME Carried, Flags, [Next]_vars PROVE Flags'
  <1>1. CASE SinkWrite BY <1>1, SinkWriteTypes
  <1>2. CASE Mint
    <2>1. UNCHANGED <<task, gone, acked, shutdown, faults>> /\ epoch < MaxEpoch /\ epoch' = epoch + 1
      BY <1>2 DEF Mint, taskVars
    <2>2. epoch' \in 0 .. MaxEpoch
      BY <2>1, SourceAssumption DEF Flags
    <2> QED BY <2>1, <2>2 DEF Flags
  <1>3. CASE ~ SinkWrite /\ ~ Mint
    <2>1. faults' \in 0 .. MaxFaults
      <3>1. faults' = faults \/ (faults < MaxFaults /\ faults' = faults + 1)
        BY <1>3 DEF Next, ScanLoop, CheckpointingTask, Sink, Start, Top, SizeShrink,
           SizeFits, SizeProbeFails, ReadTimeout, ReadRetry, ReadFails, ReadUnsplittable,
           ReadOverflow, ReadPage, AttachCheckpoints, SendBatch, SendDropped, Advance,
           SendError, JoinTask, SendFlush, Unsubscribe, TaskRecv, TaskClone, TaskPut,
           TaskExit, SinkReadsError, SinkFails, RequestShutdown, Crash, Fault, Finished, vars
      <3> QED BY <3>1, SourceAssumption DEF Flags
    <2>2. /\ task' \in {task, "recv", "clone", "put", "exited"}
          /\ gone' \in {gone, TRUE, FALSE} /\ shutdown' \in {shutdown, TRUE, FALSE}
          /\ epoch' = epoch /\ acked' = acked
      BY <1>3 DEF Next, ScanLoop, CheckpointingTask, Sink, Start, Top, SizeShrink,
           SizeFits, SizeProbeFails, ReadTimeout, ReadRetry, ReadFails, ReadUnsplittable,
           ReadOverflow, ReadPage, AttachCheckpoints, SendBatch, SendDropped, Advance,
           SendError, JoinTask, SendFlush, Unsubscribe, TaskRecv, TaskClone, TaskPut,
           TaskExit, SinkReadsError, SinkFails, SinkDrops, RequestShutdown, Crash, Forget,
           Finished, vars, taskVars, sinkVars
    <2>3. gone' \in BOOLEAN /\ shutdown' \in BOOLEAN
      BY <2>2, Zenon DEF Flags
    <2>4. task' \in {"recv", "clone", "put", "exited"}
      BY <2>2 DEF Flags
    <2> QED BY <2>1, <2>2, <2>3, <2>4 DEF Flags
  <1> QED BY <1>1, <1>2, <1>3

\* The type invariant, for every table and every bound: the cursors stay within the
\* keys of the table and one range beyond them (RangeController::is_done is asked
\* before every range), the stream holds at most its capacity, and what it carries
\* are rows of the table and checkpoint messages.
THEOREM ScanTypes == Spec => []TypeOK
  <1> DEFINE Inv == Bounded /\ Carried /\ Flags
  <1>1. Init => Inv
    <2> SUFFICES ASSUME Init PROVE Inv
      OBVIOUS
    <2>1. Bounded
      BY Limits DEF Init, Bounded
    <2>2. Carried
      <3>1. hand = NoBatch /\ pipe = <<>> /\ buffer = <<>> /\ inbox = <<>>
        BY DEF Init
      <3>2. hand \in Items(table)
        BY <3>1, ItemTypes
      <3>3. pipe \in Seq(Items(table)) /\ Len(pipe) <= Capacity
        BY <3>1, SourceAssumption
      <3> QED BY <3>1, <3>2, <3>3 DEF Init, Carried
    <2>3. Flags
      <3>1. gone \in BOOLEAN /\ shutdown \in BOOLEAN
        BY Zenon DEF Init
      <3>2. epoch \in 0 .. MaxEpoch /\ faults \in 0 .. MaxFaults
        BY SourceAssumption DEF Init
      <3>3. task \in {"recv", "clone", "put", "exited"} /\ acked \subseteq Epochs
        BY DEF Init
      <3> QED BY <3>1, <3>2, <3>3, Zenon DEF Flags
    <2> QED BY <2>1, <2>2, <2>3
  <1>2. Inv /\ [Next]_vars => Inv'
    BY NextBounded, NextCarried, NextFlags
  <1>3. Inv => TypeOK
    <2> SUFFICES ASSUME Inv PROVE TypeOK
      OBVIOUS
    <2>1. \A x \in Items(table) : IsBatch(x)
      BY DEF Items, IsBatch
    <2>2. IsBatch(hand) /\ \A i \in 1 .. Len(pipe) : IsBatch(pipe[i])
      <3>1. hand \in Items(table) /\ pipe \in Seq(Items(table))
        BY DEF Carried
      <3>2. \A i \in 1 .. Len(pipe) : pipe[i] \in Items(table)
        BY <3>1
      <3> QED BY <2>1, <3>1, <3>2
    <2> QED BY <2>2 DEF Bounded, Carried, Flags, TypeOK
  <1> QED BY <1>1, <1>2, <1>3, PTL DEF Spec
=============================================================================
