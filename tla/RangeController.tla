--------------------------- MODULE RangeController ---------------------------
(***************************************************************************)
(* The RangeController of table_providers/clickhouse/range_controller.rs:  *)
(* the cursor of a scan over the first sorting key and the adaptive width  *)
(* of the next range [rangeStart, rangeStart + width).                     *)
(*                                                                         *)
(* Rows, bytes and widths are integers.  The code computes a new width in  *)
(* f64 and truncates it; the rounding can only leave a quotient that is    *)
(* exact just below its value, so such a quotient may come out one less.   *)
(***************************************************************************)
EXTENDS Integers

CONSTANTS
    MaxKey,         \* max_key: the largest first sorting key of the table
    PageSize,       \* page_size: rows of a page
    MaxPageBytes,   \* max_page_bytes
    GrowCeiling     \* grow_ceiling(), a whole number here

ASSUME ControllerAssumption ==
    /\ MaxKey \in Nat
    /\ PageSize \in Nat \ {0} /\ MaxPageBytes \in Nat \ {0}
    /\ GrowCeiling \in Nat \ {0}

VARIABLES
    rangeStart,     \* the cursor
    width,
    maxWidth        \* max_width, fixed when the scan starts

controllerVars == <<rangeStart, width, maxWidth>>

Smaller(a, b) == IF a <= b THEN a ELSE b
Larger(a, b) == IF a <= b THEN b ELSE a

MinWidth == 1

\* A wrong variant: a width may come down to nothing.
ClampUnfloored(w, max) == Smaller(w, max)

Clamp(w, max) == Larger(MinWidth, Smaller(w, max))

\* num / den in f64, as i128
Truncated(num, den) ==
    {num \div den} \cup (IF num % den = 0 THEN {(num \div den) - 1} ELSE {})

New(start, initial, max) ==
    /\ rangeStart' = start
    /\ maxWidth' = max
    /\ width' = Clamp(initial, max)

UpperBound == rangeStart + width
IsDone == rangeStart > MaxKey
AtMinWidth == width <= MinWidth

Resize(candidates) ==
    /\ \E w \in candidates : width' = Clamp(w, maxWidth)
    /\ UNCHANGED <<rangeStart, maxWidth>>

\* The widths that the rows and the bytes of a complete page allow.
Ceiling(rows, bytes) ==
    LET byRows == Smaller((width * PageSize) \div Larger(rows, 1), width * GrowCeiling)
    IN  IF bytes > 0
          THEN Smaller(byRows, (9 * MaxPageBytes * width) \div (10 * bytes))
          ELSE byRows

\* A wrong variant: the next width is chosen first and the cursor moved by it.
OnCompleteResizedFirst(rows, bytes) ==
    /\ \E w \in 0 .. Ceiling(rows, bytes) : width' = Clamp(w, maxWidth)
    /\ rangeStart' = rangeStart + width'
    /\ UNCHANGED maxWidth

\* The page was emitted: the cursor passes it.  The time the page took caps the
\* next width by any amount.
OnComplete(rows, bytes) ==
    /\ rangeStart' = rangeStart + width
    /\ \E w \in 0 .. Ceiling(rows, bytes) : width' = Clamp(w, maxWidth)
    /\ UNCHANGED maxWidth

OnTimeout == Resize({width \div 2})

\* The count of the range was probed before the read and is above PageSize.
ShrinkToFitCount(count) == Resize(Truncated(width * 9 * PageSize, 10 * count))

\* on_overflow_probed without a count.
OnOverflowUnprobed(bytes) ==
    IF bytes > MaxPageBytes
      THEN Resize(Truncated(width * 9 * MaxPageBytes, 10 * bytes))
      ELSE Resize({width \div 2})

\* on_overflow_probed with a count: the width that the rows and the bytes of the
\* whole range allow, the bytes projected from the rows that were read.
OnOverflowProbed(count, bytes) ==
    LET sampled == Smaller(count, PageSize + 1)
        rowSafe == Truncated(width * 9 * PageSize, 10 * count)
        byteSafe == IF bytes > 0
                      THEN Truncated(width * 9 * MaxPageBytes * sampled, 10 * count * bytes)
                      ELSE rowSafe
    IN  IF count = 0
          THEN OnOverflowUnprobed(bytes)
          ELSE Resize({Smaller(r, b) : r \in rowSafe, b \in byteSafe})
=============================================================================
