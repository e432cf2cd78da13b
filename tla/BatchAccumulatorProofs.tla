----------------------- MODULE BatchAccumulatorProofs -----------------------
(***************************************************************************)
(* The batch accumulators, for any number of stages, batch sizes, rows,    *)
(* epochs, columns and payloads.  Merging what flush returns never         *)
(* overflows a column; no row and no Marker is lost, doubled or reordered; *)
(* and with one accumulator an acked Marker covers only written rows.      *)
(*                                                                         *)
(* What a queue holds is a flattened sequence of sequences, and what it    *)
(* puts into a column a recursive sum, so the proofs begin with an         *)
(* induction over the numbers: Induct, for a set instead of an operator.   *)
(***************************************************************************)
EXTENDS BatchAccumulator, SequenceTheorems, FiniteSetTheorems, WellFoundedInduction, TLAPS

-----------------------------------------------------------------------------
(* Sequences of sequences: FlattenSeq, by which the model lists what batches hold.*)

\* Induction over the numbers, for a set.
LEMMA Induct ==
    ASSUME NEW T, 0 \in T, \A n \in Nat : n \in T => n + 1 \in T
    PROVE  Nat \subseteq T
  <1> DEFINE R == OpToRel(<, Nat)
             B == Nat \ T
  <1> SUFFICES ASSUME B # {}
               PROVE  FALSE
    OBVIOUS
  <1>1. \E x \in B : \A y \in B : ~(<<y, x>> \in R)
    <2>1. IsWellFoundedOn(R, Nat)
      BY NatLessThanWellFounded, Zenon
    <2>2. B \subseteq Nat
      OBVIOUS
    <2> HIDE DEF B, R
    <2> QED BY <2>1, <2>2, WFMin, Zenon
  <1>2. PICK x \in B : \A y \in B : ~(<<y, x>> \in R)
    BY <1>1, Zenon
  <1>3. x \in Nat /\ x \notin T /\ x # 0
    OBVIOUS
  <1>4. x - 1 \in Nat /\ x - 1 < x /\ (x - 1) + 1 = x
    BY <1>3
  <1>5. x - 1 \notin T
    BY <1>3, <1>4
  <1>6. <<x - 1, x>> \in R
    BY <1>3, <1>4 DEF OpToRel
  <1> QED BY <1>2, <1>3, <1>4, <1>5, <1>6, Zenon

\* What a recursive definition of the concatenation is on the first n sequences.
Flattens(f, ss, n) ==
    /\ n > 0 => f[1] = ss[1]
    /\ \A i \in 1 .. n : i > 1 => f[i] = f[i - 1] \o ss[i]

\* There is such a function, ...
LEMMA FlattensExists ==
    ASSUME NEW S, NEW ss \in Seq(Seq(S)), NEW n \in 1 .. Len(ss)
    PROVE  \E f \in [1 .. n -> Seq(S)] : Flattens(f, ss, n)
  <1> DEFINE T == {m \in Nat : m + 1 <= Len(ss) =>
                      \E f \in [1 .. m + 1 -> Seq(S)] : Flattens(f, ss, m + 1)}
  <1>0. Len(ss) \in Nat /\ \A i \in 1 .. Len(ss) : ss[i] \in Seq(S)
    OBVIOUS
  <1>1. 0 \in T
    <2> SUFFICES ASSUME 1 <= Len(ss)
                 PROVE  \E f \in [1 .. 1 -> Seq(S)] : Flattens(f, ss, 1)
      OBVIOUS
    <2> DEFINE f == [i \in 1 .. 1 |-> ss[1]]
    <2>1. f \in [1 .. 1 -> Seq(S)]
      BY <1>0
    <2>2. Flattens(f, ss, 1)
      BY DEF Flattens
    <2> QED BY <2>1, <2>2
  <1>2. ASSUME NEW m \in Nat, m \in T
        PROVE  m + 1 \in T
    <2> SUFFICES ASSUME m + 2 <= Len(ss)
                 PROVE  \E f \in [1 .. m + 2 -> Seq(S)] : Flattens(f, ss, m + 2)
      OBVIOUS
    <2>1. PICK g \in [1 .. m + 1 -> Seq(S)] : Flattens(g, ss, m + 1)
      BY <1>0, <1>2
    <2> HIDE DEF T
    <2>0. PICK v : v = g[m + 1] \o ss[m + 2]
      OBVIOUS
    <2> DEFINE f == [i \in 1 .. m + 2 |-> IF i = m + 2 THEN v ELSE g[i]]
    <2>2. \A i \in 1 .. m + 2 : i = m + 2 \/ i \in 1 .. m + 1
      BY <1>2
    <2>3. g[m + 1] \in Seq(S) /\ ss[m + 2] \in Seq(S)
      BY <1>0, <1>2
    <2>4. v \in Seq(S)
      BY <2>0, <2>3, ConcatProperties
    <2>5. f \in [1 .. m + 2 -> Seq(S)]
      BY <2>2, <2>4
    <2>6. f[m + 2] = v /\ \A i \in 1 .. m + 1 : f[i] = g[i]
      <3>1. m + 2 \in 1 .. m + 2 /\ \A i \in 1 .. m + 1 : i \in 1 .. m + 2 /\ i # m + 2
        BY <1>2
      <3> QED BY <3>1, Zenon
    <2>7. f[m + 2] = f[(m + 2) - 1] \o ss[m + 2] /\ f[1] = ss[1]
      <3>1. (m + 2) - 1 = m + 1 /\ m + 1 \in 1 .. m + 1 /\ 1 \in 1 .. m + 1 /\ m + 1 > 0
        BY <1>2
      <3> QED BY <2>0, <2>1, <2>6, <3>1, Zenon DEF Flattens
    <2>8. \A i \in 1 .. m + 1 : i > 1 => f[i] = f[i - 1] \o ss[i]
      <3> TAKE i \in 1 .. m + 1
      <3> SUFFICES ASSUME i > 1
                   PROVE  f[i] = f[i - 1] \o ss[i]
        OBVIOUS
      <3>1. i - 1 \in 1 .. m + 1
        OBVIOUS
      <3>2. f[i] = g[i] /\ f[i - 1] = g[i - 1]
        BY <2>6, <3>1
      <3>3. g[i] = g[i - 1] \o ss[i]
        BY <2>1 DEF Flattens
      <3> QED BY <3>2, <3>3
    <2> HIDE DEF f
    <2>9. Flattens(f, ss, m + 2)
      BY <2>2, <2>7, <2>8 DEF Flattens
    <2> QED BY <2>5, <2>9
  <1> HIDE DEF T
  <1>3. Nat \subseteq T
    BY <1>1, <1>2, Induct
  <1>4. n - 1 \in T /\ (n - 1) + 1 = n
    BY <1>3
  <1> QED BY <1>0, <1>4 DEF T

\* ... only one, ...
LEMMA FlattensUnique ==
    ASSUME NEW ss, NEW tt, NEW n \in Nat, \A i \in 1 .. n : ss[i] = tt[i],
           NEW f, NEW g, Flattens(f, ss, n), Flattens(g, tt, n), n > 0
    PROVE  f[n] = g[n]
  <1> DEFINE T == {m \in Nat : m + 1 <= n => f[m + 1] = g[m + 1]}
  <1>1. 0 \in T
    BY DEF Flattens
  <1>2. ASSUME NEW m \in Nat, m \in T
        PROVE  m + 1 \in T
    <2> SUFFICES ASSUME m + 2 <= n
                 PROVE  f[m + 2] = g[m + 2]
      OBVIOUS
    <2>1. f[m + 1] = g[m + 1]
      BY <1>2
    <2>2. m + 2 \in 1 .. n /\ (m + 2) - 1 = m + 1 /\ m + 2 > 1
      OBVIOUS
    <2>3. f[m + 2] = f[m + 1] \o ss[m + 2] /\ g[m + 2] = g[m + 1] \o tt[m + 2]
      BY <2>2 DEF Flattens
    <2> QED BY <2>1, <2>2, <2>3
  <1> HIDE DEF T
  <1>3. Nat \subseteq T
    BY <1>1, <1>2, Induct
  <1>4. n - 1 \in T /\ (n - 1) + 1 = n
    BY <1>3
  <1> QED BY <1>4 DEF T

\* ... and FlattenSeq returns its last value.
LEMMA FlattenIs ==
    ASSUME NEW S, NEW ss \in Seq(Seq(S)), ss # <<>>
    PROVE  \E f : /\ FlattenSeq(ss) = f[Len(ss)] /\ f[Len(ss)] \in Seq(S)
                  /\ Flattens(f, ss, Len(ss))
  <1>1. Len(ss) \in Nat \ {0} /\ Len(ss) \in 1 .. Len(ss) /\ Len(ss) > 0
    BY EmptySeq
  <1>2. PICK f \in [1 .. Len(ss) -> Seq(S)] : Flattens(f, ss, Len(ss))
    BY <1>1, FlattensExists
  <1>3. f = [i \in 1 .. Len(ss) |-> IF i = 1 THEN ss[i] ELSE f[i - 1] \o ss[i]]
    <2>1. f = [i \in 1 .. Len(ss) |-> f[i]]
      BY <1>2
    <2>2. \A i \in 1 .. Len(ss) : f[i] = IF i = 1 THEN ss[i] ELSE f[i - 1] \o ss[i]
      <3> TAKE i \in 1 .. Len(ss)
      <3>1. CASE i = 1
        BY <1>1, <1>2, <3>1, Zenon DEF Flattens
      <3>2. CASE i # 1
        <4>1. i > 1
          BY <1>1, <3>2
        <4> QED BY <1>2, <3>2, <4>1, Zenon DEF Flattens
      <3> QED BY <3>1, <3>2
    <2> QED BY <2>1, <2>2
  <1>4. PICK g : /\ g = [i \in 1 .. Len(ss) |-> IF i = 1 THEN ss[i] ELSE g[i - 1] \o ss[i]]
                 /\ FlattenSeq(ss) = g[Len(ss)]
    BY <1>1, <1>3 DEF FlattenSeq
  <1>5. Flattens(g, ss, Len(ss))
    <2>1. g[1] = ss[1]
      BY <1>1, <1>4
    <2>2. \A i \in 1 .. Len(ss) : i > 1 => g[i] = g[i - 1] \o ss[i]
      <3> TAKE i \in 1 .. Len(ss)
      <3>1. g[i] = IF i = 1 THEN ss[i] ELSE g[i - 1] \o ss[i]
        BY <1>4, Zenon
      <3>2. i > 1 => i # 1
        OBVIOUS
      <3> QED BY <3>1, <3>2, Zenon
    <2> QED BY <2>1, <2>2 DEF Flattens
  <1>6. f[Len(ss)] = g[Len(ss)]
    BY <1>1, <1>2, <1>5, FlattensUnique
  <1>7. f[Len(ss)] \in Seq(S)
    BY <1>1, <1>2
  <1> QED BY <1>4, <1>5, <1>6, <1>7

\* Flattening one more sequence.
LEMMA FlattenAppend ==
    ASSUME NEW S, NEW ss \in Seq(Seq(S)), NEW x \in Seq(S)
    PROVE  /\ FlattenSeq(<<>>) = <<>>
           /\ FlattenSeq(ss) \in Seq(S)
           /\ FlattenSeq(Append(ss, x)) = FlattenSeq(ss) \o x
  <1>0. FlattenSeq(<<>>) = <<>>
    BY DEF FlattenSeq
  <1> DEFINE tt == Append(ss, x)
  <1>1. /\ tt \in Seq(Seq(S)) /\ tt # <<>> /\ Len(tt) = Len(ss) + 1 /\ Len(ss) \in Nat
        /\ \A i \in 1 .. Len(ss) : tt[i] = ss[i]
        /\ tt[Len(ss) + 1] = x
    BY AppendProperties
  <1> HIDE DEF tt
  <1>2. PICK g : /\ FlattenSeq(tt) = g[Len(tt)] /\ g[Len(tt)] \in Seq(S)
                 /\ Flattens(g, tt, Len(tt))
    BY <1>1, FlattenIs
  <1>3. CASE ss = <<>>
    <2>1. Len(tt) = 1 /\ Len(ss) + 1 = 1
      BY <1>1, <1>3
    <2>2. g[Len(tt)] = x
      BY <1>1, <1>2, <2>1 DEF Flattens
    <2>3. <<>> \o x = x /\ <<>> \in Seq(S)
      BY ConcatEmptySeq
    <2> QED BY <1>0, <1>2, <1>3, <2>2, <2>3 DEF tt
  <1>4. CASE ss # <<>>
    <2>1. PICK f : /\ FlattenSeq(ss) = f[Len(ss)] /\ f[Len(ss)] \in Seq(S)
                   /\ Flattens(f, ss, Len(ss))
      BY <1>4, FlattenIs
    <2>2. Len(ss) \in Nat /\ Len(ss) > 0 /\ Len(ss) + 1 > 1 /\ Len(ss) + 1 \in 1 .. Len(ss) + 1
          /\ (Len(ss) + 1) - 1 = Len(ss) /\ Len(ss) + 1 > 0
          /\ \A i \in 1 .. Len(ss) : i \in 1 .. Len(ss) + 1
      BY <1>4, EmptySeq
    <2>3. Flattens(g, tt, Len(ss))
      BY <1>1, <1>2, <2>2, Zenon DEF Flattens
    <2>4. \A i \in 1 .. Len(ss) : ss[i] = tt[i]
      BY <1>1
    <2>5. f[Len(ss)] = g[Len(ss)]
      <3>1. Len(ss) \in Nat /\ Len(ss) > 0
        BY <2>2
      <3>2. Flattens(f, ss, Len(ss))
        BY <2>1
      <3>3. \A n \in Nat : /\ n > 0 /\ (\A i \in 1 .. n : ss[i] = tt[i])
                          /\ Flattens(f, ss, n) /\ Flattens(g, tt, n) => f[n] = g[n]
        BY FlattensUnique, SMT
      <3> QED BY <3>1, <3>2, <3>3, <2>3, <2>4
    <2>6. g[Len(ss) + 1] = g[Len(ss)] \o x
      BY <1>1, <1>2, <2>2, Zenon DEF Flattens
    <2> QED BY <1>0, <1>1, <1>2, <2>1, <2>5, <2>6 DEF tt
  <1> QED BY <1>3, <1>4

\* The flattened sequence is typed.
LEMMA FlattenType ==
    ASSUME NEW S, NEW ss \in Seq(Seq(S))
    PROVE  FlattenSeq(ss) \in Seq(S)
  <1>1. <<>> \in Seq(S)
    OBVIOUS
  <1> QED BY <1>1, FlattenAppend

\* One sequence is its own flattening.
LEMMA FlattenOne ==
    ASSUME NEW S, NEW x \in Seq(S)
    PROVE  <<x>> \in Seq(Seq(S)) /\ FlattenSeq(<<x>>) = x
  <1>1. <<>> \in Seq(Seq(S)) /\ Append(<<>>, x) = <<x>> /\ <<x>> \in Seq(Seq(S))
    OBVIOUS
  <1>2. FlattenSeq(<<>>) = <<>> /\ FlattenSeq(Append(<<>>, x)) = FlattenSeq(<<>>) \o x
    BY <1>1, FlattenAppend, Zenon
  <1>3. <<>> \o x = x
    BY ConcatEmptySeq
  <1> QED BY <1>1, <1>2, <1>3

\* Concatenation is associative.
Assoc(a, b, c) == (a \o b) \o c = a \o (b \o c)

\* Concatenation is associative, as a fact to cite for given sequences.
LEMMA Associative ==
    ASSUME NEW S, NEW a \in Seq(S), NEW b \in Seq(S), NEW c \in Seq(S)
    PROVE  Assoc(a, b, c)
  BY ConcatAssociative DEF Assoc

\* Appending to the second of two sequences.
LEMMA ConcatAppend ==
    ASSUME NEW S, NEW s \in Seq(S), NEW t \in Seq(S), NEW x \in S
    PROVE  s \o Append(t, x) = Append(s \o t, x)
  BY SMT

\* Flattening distributes over the concatenation.
Distributes(ss, tt) == FlattenSeq(ss \o tt) = FlattenSeq(ss) \o FlattenSeq(tt)

\* Flattening distributes over the concatenation.
LEMMA FlattenConcat ==
    ASSUME NEW S, NEW ss \in Seq(Seq(S)), NEW tt \in Seq(Seq(S))
    PROVE  Distributes(ss, tt)
  <1> DEFINE T == {n \in Nat : \A uu \in Seq(Seq(S)) : Len(uu) = n =>
                      FlattenSeq(ss \o uu) = FlattenSeq(ss) \o FlattenSeq(uu)}
  <1>0. FlattenSeq(ss) \in Seq(S)
    BY FlattenType
  <1>1. 0 \in T
    <2> SUFFICES ASSUME NEW uu \in Seq(Seq(S)), Len(uu) = 0
                 PROVE  FlattenSeq(ss \o uu) = FlattenSeq(ss) \o FlattenSeq(uu)
      OBVIOUS
    <2>1. uu = <<>>
      BY EmptySeq
    <2>2. ss \o <<>> = ss /\ FlattenSeq(ss) \o <<>> = FlattenSeq(ss)
      BY <1>0, ConcatEmptySeq
    <2>3. FlattenSeq(<<>>) = <<>>
      BY DEF FlattenSeq
    <2> QED BY <2>1, <2>2, <2>3
  <1>2. ASSUME NEW n \in Nat, n \in T
        PROVE  n + 1 \in T
    <2> SUFFICES ASSUME NEW uu \in Seq(Seq(S)), Len(uu) = n + 1
                 PROVE  FlattenSeq(ss \o uu) = FlattenSeq(ss) \o FlattenSeq(uu)
      OBVIOUS
    <2>1. uu # <<>>
      BY <1>2, EmptySeq
    <2>2. PICK vv \in Seq(Seq(S)), x \in Seq(S) : uu = Append(vv, x)
      BY <2>1, SequenceEmptyOrAppend
    <2>3. Len(vv) = n
      BY <1>2, <2>2, AppendProperties
    <2>4. FlattenSeq(ss \o vv) = FlattenSeq(ss) \o FlattenSeq(vv)
      BY <1>2, <2>3
    <2>5. FlattenSeq(uu) = FlattenSeq(vv) \o x /\ FlattenSeq(vv) \in Seq(S)
      BY <2>2, FlattenAppend
    <2>6. ss \o uu = Append(ss \o vv, x) /\ ss \o vv \in Seq(Seq(S))
      BY <2>2, ConcatAppend, ConcatProperties
    <2>7. FlattenSeq(ss \o uu) = FlattenSeq(ss \o vv) \o x
      BY <2>6, FlattenAppend
    <2>8. Assoc(FlattenSeq(ss), FlattenSeq(vv), x)
      BY <1>0, <2>2, <2>5, Associative
    <2> QED BY <2>4, <2>5, <2>7, <2>8 DEF Assoc
  <1> HIDE DEF T
  <1>3. Nat \subseteq T
    BY <1>1, <1>2, Induct
  <1>4. Len(tt) \in T
    BY <1>3
  <1> QED BY <1>4 DEF T, Distributes

\* What is in the flattened sequence is in one of its parts.
LEMMA FlattenMember ==
    ASSUME NEW S, NEW ss \in Seq(Seq(S)), NEW j \in 1 .. Len(FlattenSeq(ss))
    PROVE  \E p \in 1 .. Len(ss) : \E i \in 1 .. Len(ss[p]) : ss[p][i] = FlattenSeq(ss)[j]
  <1> DEFINE In(tt, y) == \E p \in 1 .. Len(tt) : \E i \in 1 .. Len(tt[p]) : tt[p][i] = y
             T == {n \in Nat : \A tt \in Seq(Seq(S)) : Len(tt) = n =>
                      \A i \in 1 .. Len(FlattenSeq(tt)) : In(tt, FlattenSeq(tt)[i])}
  <1>1. 0 \in T
    <2> SUFFICES ASSUME NEW tt \in Seq(Seq(S)), Len(tt) = 0, NEW i \in 1 .. Len(FlattenSeq(tt))
                 PROVE  In(tt, FlattenSeq(tt)[i])
      OBVIOUS
    <2>1. tt = <<>>
      BY EmptySeq
    <2>2. FlattenSeq(tt) = <<>>
      BY <2>1 DEF FlattenSeq
    <2> QED BY <2>2
  <1>2. ASSUME NEW n \in Nat, n \in T
        PROVE  n + 1 \in T
    <2> SUFFICES ASSUME NEW tt \in Seq(Seq(S)), Len(tt) = n + 1,
                        NEW i \in 1 .. Len(FlattenSeq(tt))
                 PROVE  In(tt, FlattenSeq(tt)[i])
      OBVIOUS
    <2>1. tt # <<>>
      BY <1>2, EmptySeq
    <2>2. PICK vv \in Seq(Seq(S)), x \in Seq(S) : tt = Append(vv, x)
      BY <2>1, SequenceEmptyOrAppend
    <2>3. /\ Len(vv) = n /\ Len(tt) = Len(vv) + 1 /\ tt[Len(vv) + 1] = x
          /\ \A p \in 1 .. Len(vv) : tt[p] = vv[p]
      BY <1>2, <2>2, AppendProperties
    <2>4. FlattenSeq(tt) = FlattenSeq(vv) \o x /\ FlattenSeq(vv) \in Seq(S)
      BY <2>2, FlattenAppend
    <2>5. /\ Len(FlattenSeq(tt)) = Len(FlattenSeq(vv)) + Len(x)
          /\ FlattenSeq(tt)[i] = IF i <= Len(FlattenSeq(vv)) THEN FlattenSeq(vv)[i]
                                 ELSE x[i - Len(FlattenSeq(vv))]
          /\ Len(FlattenSeq(vv)) \in Nat /\ Len(x) \in Nat
      BY <2>2, <2>4, ConcatProperties
    <2>6. CASE i <= Len(FlattenSeq(vv))
      <3>1. i \in 1 .. Len(FlattenSeq(vv))
        BY <2>5, <2>6
      <3>2. In(vv, FlattenSeq(vv)[i])
        BY <1>2, <2>3, <3>1
      <3>3. PICK p \in 1 .. Len(vv) : \E h \in 1 .. Len(vv[p]) : vv[p][h] = FlattenSeq(vv)[i]
        BY <3>2
      <3>4. p \in 1 .. Len(tt) /\ tt[p] = vv[p]
        BY <1>2, <2>3
      <3> QED BY <2>5, <2>6, <3>3, <3>4
    <2>7. CASE ~(i <= Len(FlattenSeq(vv)))
      <3>1. i - Len(FlattenSeq(vv)) \in 1 .. Len(x)
        BY <2>5, <2>7
      <3>2. Len(vv) + 1 \in 1 .. Len(tt)
        BY <1>2, <2>3
      <3> QED BY <2>3, <2>5, <2>7, <3>1, <3>2
    <2> QED BY <2>6, <2>7
  <1> HIDE DEF T
  <1>3. Nat \subseteq T
    BY <1>1, <1>2, Induct
  <1>4. Len(ss) \in T
    BY <1>3
  <1> QED BY <1>4 DEF T

-----------------------------------------------------------------------------
(* The rows and the Markers of batches.                                    *)

\* The rows or the Markers, F, of a sequence of batches.
Map(F, x) == [i \in DOMAIN x |-> F[x[i]]]
All(F, x) == FlattenSeq(Map(F, x))

\* A sequence of batches has as many lists.
MapIs(F, x, W, fx) ==
    /\ fx \in Seq(W) /\ Len(fx) = Len(x)
    /\ \A i \in 1 .. Len(x) : fx[i] = F[x[i]]

\* A sequence of batches has as many lists of rows, or of Markers.
LEMMA MapType ==
    ASSUME NEW B, NEW W, NEW F \in [B -> W], NEW x \in Seq(B)
    PROVE  MapIs(F, x, W, Map(F, x))
  <1>1. Len(x) \in Nat /\ DOMAIN x = 1 .. Len(x) /\ \A i \in 1 .. Len(x) : x[i] \in B
    OBVIOUS
  <1>2. Map(F, x) \in [1 .. Len(x) -> W]
    BY <1>1 DEF Map
  <1>3. \A i \in 1 .. Len(x) : Map(F, x)[i] = F[x[i]]
    BY <1>1 DEF Map
  <1> QED BY <1>1, <1>2, <1>3 DEF MapIs

\* Those of two sequences in a row.
Maps(F, x, y) == Map(F, x \o y) = Map(F, x) \o Map(F, y)

\* The lists of two sequences of batches in a row.
LEMMA MapConcat ==
    ASSUME NEW B, NEW W, NEW F \in [B -> W], NEW x \in Seq(B), NEW y \in Seq(B)
    PROVE  Maps(F, x, y)
  <1>1. /\ x \o y \in Seq(B) /\ Len(x \o y) = Len(x) + Len(y) /\ Len(x) \in Nat /\ Len(y) \in Nat
        /\ \A i \in 1 .. Len(x) + Len(y) :
              (x \o y)[i] = IF i <= Len(x) THEN x[i] ELSE y[i - Len(x)]
    BY ConcatProperties
  <1>2. PICK z \in Seq(B) : z = x \o y
    BY <1>1
  <1>0. MapIs(F, x, W, Map(F, x)) /\ MapIs(F, y, W, Map(F, y)) /\ MapIs(F, z, W, Map(F, z))
    BY <1>2, MapType
  <1>3. PICK xs \in Seq(W) : /\ xs = Map(F, x) /\ Len(xs) = Len(x)
                             /\ \A i \in 1 .. Len(x) : xs[i] = F[x[i]]
    BY <1>0 DEF MapIs
  <1>4. PICK ys \in Seq(W) : /\ ys = Map(F, y) /\ Len(ys) = Len(y)
                             /\ \A i \in 1 .. Len(y) : ys[i] = F[y[i]]
    BY <1>0 DEF MapIs
  <1>5. PICK zs \in Seq(W) : /\ zs = Map(F, z) /\ Len(zs) = Len(z)
                             /\ \A i \in 1 .. Len(z) : zs[i] = F[z[i]]
    BY <1>0 DEF MapIs
  <1>6. ASSUME NEW i \in 1 .. Len(x) + Len(y)
        PROVE  zs[i] = IF i <= Len(x) THEN xs[i] ELSE ys[i - Len(x)]
    <2>1. zs[i] = F[z[i]] /\ z[i] = IF i <= Len(x) THEN x[i] ELSE y[i - Len(x)]
      BY <1>1, <1>2, <1>5, <1>6
    <2>2. CASE i <= Len(x)
      <3>1. i \in 1 .. Len(x)
        BY <1>1, <1>6, <2>2
      <3> QED BY <1>3, <2>1, <2>2, <3>1
    <2>3. CASE ~(i <= Len(x))
      <3>1. i - Len(x) \in 1 .. Len(y)
        BY <1>1, <1>6, <2>3
      <3> QED BY <1>4, <2>1, <2>3, <3>1
    <2> QED BY <2>2, <2>3
  <1>7. /\ xs \o ys \in Seq(W) /\ Len(xs \o ys) = Len(xs) + Len(ys)
        /\ \A i \in 1 .. Len(xs) + Len(ys) :
              (xs \o ys)[i] = IF i <= Len(xs) THEN xs[i] ELSE ys[i - Len(xs)]
    BY ConcatProperties
  <1>8. Len(zs) = Len(xs \o ys) /\ \A i \in 1 .. Len(zs) : zs[i] = (xs \o ys)[i]
    BY <1>1, <1>2, <1>3, <1>4, <1>5, <1>6, <1>7
  <1>9. zs = xs \o ys
    BY <1>7, <1>8, SeqEqual
  <1> QED BY <1>2, <1>3, <1>4, <1>5, <1>9 DEF Maps

\* What is in batches in a row.
InARow(F, x, y) == All(F, x \o y) = All(F, x) \o All(F, y)

\* The rows or Markers of two sequences of batches in a row, flattened.
LEMMA AllConcat ==
    ASSUME NEW B, NEW S, NEW F \in [B -> Seq(S)], NEW x \in Seq(B), NEW y \in Seq(B)
    PROVE  InARow(F, x, y)
  <1>0. MapIs(F, x, Seq(S), Map(F, x)) /\ MapIs(F, y, Seq(S), Map(F, y))
    BY MapType
  <1>1. Map(F, x) \in Seq(Seq(S)) /\ Map(F, y) \in Seq(Seq(S))
    BY <1>0 DEF MapIs
  <1>2. Maps(F, x, y)
    BY MapConcat
  <1>3. PICK xs \in Seq(Seq(S)), ys \in Seq(Seq(S)) : xs = Map(F, x) /\ ys = Map(F, y)
    BY <1>1
  <1>4. Distributes(xs, ys)
    BY ONLY <1>3, FlattenConcat
  <1> QED BY <1>2, <1>3, <1>4 DEF Distributes, All, InARow, Maps

\* The parts of one batch are its own.
LEMMA AllOne ==
    ASSUME NEW B, NEW S, NEW F \in [B -> Seq(S)], NEW b \in B
    PROVE  All(F, <<b>>) = F[b]
  <1>1. Map(F, <<b>>) = <<F[b]>> /\ F[b] \in Seq(S)
    BY DEF Map
  <1>2. FlattenSeq(<<F[b]>>) = F[b]
    BY <1>1, FlattenOne
  <1> QED BY <1>1, <1>2 DEF All

\* The parts of batches form a sequence.
LEMMA AllType ==
    ASSUME NEW B, NEW S, NEW F \in [B -> Seq(S)], NEW x \in Seq(B)
    PROVE  All(F, x) \in Seq(S)
  <1>1. MapIs(F, x, Seq(S), Map(F, x))
    BY MapType
  <1>2. Map(F, x) \in Seq(Seq(S))
    BY <1>1 DEF MapIs
  <1> QED BY <1>2, FlattenType DEF All

-----------------------------------------------------------------------------
(* The payload of a column, and what fits into it.                         *)

\* The running sums of the payload of a column over rows.
Adds(f, rs, c, n) ==
    f[0] = 0 /\ \A i \in 1 .. n : f[i] = f[i - 1] + Bytes[rs[i]][c]

Sums(f, rs, c, n) == f \in [0 .. n -> Nat] /\ Adds(f, rs, c, n)

\* There is such a function, ...
LEMMA SumsExist ==
    ASSUME NEW rs \in Seq(1 .. MaxRow), NEW c \in Columns, NEW n \in 0 .. Len(rs)
    PROVE  \E f : Sums(f, rs, c, n)
  <1> DEFINE T == {m \in Nat : m <= Len(rs) => \E f : Sums(f, rs, c, m)}
  <1>0. Len(rs) \in Nat /\ \A i \in 1 .. Len(rs) : Bytes[rs[i]][c] \in Nat
    BY AccumulatorAssumption
  <1>1. 0 \in T
    <2>1. Sums([i \in 0 .. 0 |-> 0], rs, c, 0)
      BY DEF Sums, Adds
    <2> QED BY <2>1
  <1>2. ASSUME NEW m \in Nat, m \in T
        PROVE  m + 1 \in T
    <2> SUFFICES ASSUME m + 1 <= Len(rs)
                 PROVE  \E f : Sums(f, rs, c, m + 1)
      OBVIOUS
    <2>1. PICK g : Sums(g, rs, c, m)
      BY <1>0, <1>2
    <2> HIDE DEF T
    <2>2. PICK v \in Nat : v = g[m] + Bytes[rs[m + 1]][c]
      BY <1>0, <1>2, <2>1 DEF Sums, Adds
    <2> DEFINE f == [i \in 0 .. m + 1 |-> IF i = m + 1 THEN v ELSE g[i]]
    <2>3. f \in [0 .. m + 1 -> Nat] /\ f[0] = 0
      BY <1>2, <2>1, <2>2 DEF Sums, Adds
    <2>4. ASSUME NEW i \in 1 .. m + 1
          PROVE  f[i] = f[i - 1] + Bytes[rs[i]][c]
      <3>1. i \in 0 .. m + 1 /\ i - 1 \in 0 .. m + 1 /\ i - 1 # m + 1
        BY <1>2, <2>4
      <3>2. f[i - 1] = g[i - 1]
        BY <3>1
      <3>3. CASE i = m + 1
        BY <1>2, <2>2, <3>1, <3>2, <3>3
      <3>4. CASE i # m + 1
        <4>1. i \in 1 .. m /\ f[i] = g[i]
          BY <1>2, <3>1, <3>4
        <4> QED BY <2>1, <3>2, <4>1 DEF Sums, Adds
      <3> QED BY <3>3, <3>4
    <2>5. Sums(f, rs, c, m + 1)
      BY <2>3, <2>4 DEF Sums, Adds
    <2> QED BY <2>5
  <1> HIDE DEF T
  <1>3. Nat \subseteq T
    BY <1>1, <1>2, Induct
  <1>4. n \in T
    BY <1>0, <1>3
  <1> QED BY <1>0, <1>4 DEF T

\* ... only one, ...
LEMMA SumsUnique ==
    ASSUME NEW rs, NEW ts, NEW c, NEW n \in Nat, \A i \in 1 .. n : rs[i] = ts[i],
           NEW f, NEW g, Adds(f, rs, c, n), Adds(g, ts, c, n)
    PROVE  f[n] = g[n]
  <1> DEFINE T == {m \in Nat : m <= n => f[m] = g[m]}
  <1>1. 0 \in T
    BY DEF Adds
  <1>2. ASSUME NEW m \in Nat, m \in T
        PROVE  m + 1 \in T
    <2> SUFFICES ASSUME m + 1 <= n
                 PROVE  f[m + 1] = g[m + 1]
      OBVIOUS
    <2>1. f[m] = g[m]
      BY <1>2
    <2>2. m + 1 \in 1 .. n /\ (m + 1) - 1 = m
      OBVIOUS
    <2> HIDE DEF T
    <2>3. f[m + 1] = f[m] + Bytes[rs[m + 1]][c] /\ g[m + 1] = g[m] + Bytes[ts[m + 1]][c]
      BY <2>2 DEF Adds
    <2>4. rs[m + 1] = ts[m + 1]
      BY <2>2
    <2> QED BY <2>1, <2>3, <2>4
  <1> HIDE DEF T
  <1>3. Nat \subseteq T
    BY <1>1, <1>2, Induct
  <1> QED BY <1>3 DEF T

\* ... that never decreases.
LEMMA SumsGrow ==
    ASSUME NEW rs \in Seq(1 .. MaxRow), NEW c \in Columns, NEW n \in Nat, n <= Len(rs),
           NEW f, Sums(f, rs, c, n), NEW m \in 0 .. n
    PROVE  f[m] <= f[n]
  <1> DEFINE T == {k \in Nat : m + k <= n => f[m] <= f[m + k]}
  <1>0. /\ Len(rs) \in Nat /\ \A i \in 1 .. Len(rs) : Bytes[rs[i]][c] \in Nat
        /\ \A i \in 0 .. n : f[i] \in Nat
    BY AccumulatorAssumption DEF Sums, Adds
  <1>1. 0 \in T
    BY <1>0
  <1>2. ASSUME NEW k \in Nat, k \in T
        PROVE  k + 1 \in T
    <2> SUFFICES ASSUME m + (k + 1) <= n
                 PROVE  f[m] <= f[m + (k + 1)]
      OBVIOUS
    <2>1. f[m] <= f[m + k]
      BY <1>2
    <2>2. m + (k + 1) \in 1 .. n /\ (m + (k + 1)) - 1 = m + k /\ m + k \in 0 .. n
      OBVIOUS
    <2> HIDE DEF T
    <2>3. f[m + (k + 1)] = f[m + k] + Bytes[rs[m + (k + 1)]][c]
      BY <2>2 DEF Sums, Adds
    <2>4. Bytes[rs[m + (k + 1)]][c] \in Nat /\ f[m] \in Nat /\ f[m + k] \in Nat
      BY <1>0, <2>2
    <2> QED BY <2>1, <2>3, <2>4
  <1> HIDE DEF T
  <1>3. Nat \subseteq T
    BY <1>1, <1>2, Induct
  <1>4. n - m \in T /\ m + (n - m) = n
    BY <1>3
  <1> QED BY <1>4 DEF T

\* Payload is the last of the running sums.
LEMMA PayloadIs ==
    ASSUME NEW bs, AllRows(bs) \in Seq(1 .. MaxRow), NEW c \in Columns,
           NEW f, Sums(f, AllRows(bs), c, Len(AllRows(bs)))
    PROVE  Payload(bs, c) = f[Len(AllRows(bs))]
  <1>0. PICK rs \in Seq(1 .. MaxRow) : rs = AllRows(bs)
    OBVIOUS
  <1>00. Len(rs) \in Nat /\ 0 \in 0 .. Len(rs) /\ Len(rs) \in 0 .. Len(rs) /\ \A i \in 1 .. Len(rs) : i # 0 /\ i \in 0 .. Len(rs)
    OBVIOUS
  <1>1. f = [i \in 0 .. Len(rs) |-> IF i = 0 THEN 0 ELSE f[i - 1] + Bytes[rs[i]][c]]
    <2>1. f = [i \in 0 .. Len(rs) |-> f[i]]
      BY <1>0 DEF Sums, Adds
    <2>2. \A i \in 0 .. Len(rs) : f[i] = IF i = 0 THEN 0 ELSE f[i - 1] + Bytes[rs[i]][c]
      <3> TAKE i \in 0 .. Len(rs)
      <3>1. i = 0 \/ i \in 1 .. Len(rs)
        OBVIOUS
      <3>2. \A h \in 1 .. Len(rs) : f[h] = f[h - 1] + Bytes[rs[h]][c]
        BY <1>0, Zenon DEF Sums, Adds
      <3>3. f[0] = 0
        BY <1>0, Zenon DEF Sums, Adds
      <3> QED BY <1>00, <3>1, <3>2, <3>3, Zenon
    <2> QED BY <2>1, <2>2
  <1>2. PICK g : /\ g = [i \in 0 .. Len(rs) |-> IF i = 0 THEN 0 ELSE g[i - 1] + Bytes[rs[i]][c]]
                 /\ Payload(bs, c) = g[Len(rs)]
    BY <1>0, <1>1 DEF Payload
  <1>3. Adds(g, rs, c, Len(rs))
    BY <1>00, <1>2, Zenon DEF Adds
  <1>4. Adds(f, rs, c, Len(rs))
    BY <1>0 DEF Sums
  <1>5. f[Len(rs)] = g[Len(rs)]
    BY <1>00, <1>3, <1>4, SumsUnique
  <1> QED BY <1>0, <1>2, <1>5

\* r is the beginning of t.
Begins(r, t) == Len(r) <= Len(t) /\ \A i \in 1 .. Len(r) : r[i] = t[i]

\* What the beginning of the rows puts into a column is no more.
LEMMA PayloadGrows ==
    ASSUME NEW x, NEW y, AllRows(x) \in Seq(1 .. MaxRow), AllRows(y) \in Seq(1 .. MaxRow),
           Begins(AllRows(x), AllRows(y)), NEW c \in Columns
    PROVE  Payload(x, c) <= Payload(y, c) /\ Payload(x, c) \in Nat /\ Payload(y, c) \in Nat
  <1>0. PICK rx \in Seq(1 .. MaxRow), ry \in Seq(1 .. MaxRow) : rx = AllRows(x) /\ ry = AllRows(y)
    OBVIOUS
  <1>1. Len(rx) \in Nat /\ Len(ry) \in Nat /\ Len(rx) <= Len(ry) /\ Len(rx) \in 0 .. Len(rx)
        /\ Len(rx) \in 0 .. Len(ry) /\ Len(ry) \in 0 .. Len(ry)
    BY <1>0 DEF Begins
  <1>2. PICK f : Sums(f, rx, c, Len(rx))
    BY <1>1, SumsExist
  <1>3. PICK g : Sums(g, ry, c, Len(ry))
    BY <1>1, SumsExist
  <1>4. Payload(x, c) = f[Len(rx)] /\ Payload(y, c) = g[Len(ry)]
    BY <1>0, <1>2, <1>3, PayloadIs
  <1>5. g[Len(rx)] <= g[Len(ry)]
    BY <1>1, <1>3, SumsGrow
  <1>6. f[Len(rx)] \in Nat /\ g[Len(rx)] \in Nat /\ g[Len(ry)] \in Nat
    BY <1>1, <1>2, <1>3 DEF Sums
  <1>7. Adds(f, rx, c, Len(rx)) /\ Adds(g, ry, c, Len(rx))
    BY <1>1, <1>2, <1>3 DEF Sums, Adds
  <1>8. \A i \in 1 .. Len(rx) : rx[i] = ry[i]
    BY <1>0 DEF Begins
  <1>9. f[Len(rx)] = g[Len(rx)]
    BY <1>1, <1>7, <1>8, SumsUnique
  <1> QED BY <1>4, <1>5, <1>6, <1>9

\* What fits into the columns does with fewer rows.
LEMMA FewerRowsFit ==
    ASSUME NEW x, NEW y, AllRows(x) \in Seq(1 .. MaxRow), AllRows(y) \in Seq(1 .. MaxRow),
           Begins(AllRows(x), AllRows(y)), ~Overflows(y)
    PROVE  ~Overflows(x)
  <1> SUFFICES ASSUME NEW c \in Columns, Payload(x, c) > MaxColumnBytes
               PROVE  FALSE
    BY DEF Overflows
  <1>1. Payload(x, c) <= Payload(y, c) /\ Payload(x, c) \in Nat /\ Payload(y, c) \in Nat
    BY PayloadGrows
  <1>2. ~(Payload(y, c) > MaxColumnBytes)
    BY DEF Overflows
  <1>3. MaxColumnBytes \in Nat
    BY AccumulatorAssumption
  <1> QED BY <1>1, <1>2, <1>3

-----------------------------------------------------------------------------
(* Batches.                                                                *)

\* The batches that a pipeline may carry, and the two lists of each.
Batches == [rows : Seq(1 .. MaxRow), marks : Seq(1 .. MaxEpoch)]

RowsOf == [b \in Batches |-> b.rows]
MarksOf == [b \in Batches |-> b.marks]

\* AllRows and AllMarks flatten the lists of rows and of Markers.
LEMMA Lists ==
    ASSUME NEW x \in Seq(Batches)
    PROVE  /\ RowsOf \in [Batches -> Seq(1 .. MaxRow)] /\ MarksOf \in [Batches -> Seq(1 .. MaxEpoch)]
           /\ AllRows(x) = All(RowsOf, x) /\ AllMarks(x) = All(MarksOf, x)
  <1>1. RowsOf \in [Batches -> Seq(1 .. MaxRow)]
    BY DEF RowsOf, Batches
  <1>2. MarksOf \in [Batches -> Seq(1 .. MaxEpoch)]
    BY DEF MarksOf, Batches
  <1>3. \A i \in DOMAIN x : x[i] \in Batches
    OBVIOUS
  <1>4. \A i \in DOMAIN x : RowsOf[x[i]] = x[i].rows /\ MarksOf[x[i]] = x[i].marks
    BY <1>3 DEF RowsOf, MarksOf
  <1>5. [i \in DOMAIN x |-> x[i].rows] = Map(RowsOf, x)
    BY <1>4 DEF Map
  <1>6. [i \in DOMAIN x |-> x[i].marks] = Map(MarksOf, x)
    BY <1>4 DEF Map
  <1> QED BY <1>1, <1>2, <1>5, <1>6 DEF All, AllRows, AllMarks

\* The rows and the Markers of a sequence of batches are sequences of them.
Listed(x) ==
    /\ AllRows(x) \in Seq(1 .. MaxRow) /\ AllMarks(x) \in Seq(1 .. MaxEpoch)
    /\ Rows(x) = Len(AllRows(x)) /\ Rows(x) \in Nat

\* What the batches of a queue hold is typed and counted.
LEMMA BatchesListed ==
    ASSUME NEW x \in Seq(Batches)
    PROVE  Listed(x)
  <1>1. /\ RowsOf \in [Batches -> Seq(1 .. MaxRow)] /\ MarksOf \in [Batches -> Seq(1 .. MaxEpoch)]
        /\ AllRows(x) = All(RowsOf, x) /\ AllMarks(x) = All(MarksOf, x)
    BY Lists
  <1>2. All(RowsOf, x) \in Seq(1 .. MaxRow)
    BY <1>1, AllType
  <1>3. All(MarksOf, x) \in Seq(1 .. MaxEpoch)
    BY <1>1, AllType
  <1> QED BY <1>1, <1>2, <1>3 DEF Listed, Rows

\* Those of two sequences in a row.
Joined(x, y) ==
    /\ AllRows(x \o y) = AllRows(x) \o AllRows(y)
    /\ AllMarks(x \o y) = AllMarks(x) \o AllMarks(y)
    /\ Rows(x \o y) = Rows(x) + Rows(y)

\* The rows and Markers of two queues in a row are those of the first, then those
\* of the second.
LEMMA BatchesJoined ==
    ASSUME NEW x \in Seq(Batches), NEW y \in Seq(Batches)
    PROVE  Joined(x, y)
  <1>0. PICK z \in Seq(Batches) : z = x \o y
    BY ConcatProperties
  <1>1. /\ RowsOf \in [Batches -> Seq(1 .. MaxRow)] /\ MarksOf \in [Batches -> Seq(1 .. MaxEpoch)]
        /\ AllRows(x) = All(RowsOf, x) /\ AllMarks(x) = All(MarksOf, x)
        /\ AllRows(y) = All(RowsOf, y) /\ AllMarks(y) = All(MarksOf, y)
        /\ AllRows(z) = All(RowsOf, z) /\ AllMarks(z) = All(MarksOf, z)
    BY <1>0, Lists
  <1>2. InARow(RowsOf, x, y) /\ InARow(MarksOf, x, y)
    BY <1>1, AllConcat
  <1>3. AllRows(z) = AllRows(x) \o AllRows(y) /\ AllMarks(z) = AllMarks(x) \o AllMarks(y)
    BY <1>0, <1>1, <1>2 DEF InARow
  <1>4. AllRows(x) \in Seq(1 .. MaxRow) /\ AllRows(y) \in Seq(1 .. MaxRow)
    BY BatchesListed DEF Listed
  <1>5. Len(AllRows(x) \o AllRows(y)) = Len(AllRows(x)) + Len(AllRows(y))
    BY <1>4, ConcatProperties
  <1> QED BY <1>0, <1>3, <1>5 DEF Joined, Rows

\* Those of one batch, and of none.
Single(b) == AllRows(<<b>>) = b.rows /\ AllMarks(<<b>>) = b.marks /\ Rows(<<b>>) = Len(b.rows)

\* A queue of one batch holds the rows and Markers of that batch.
LEMMA BatchSingle ==
    ASSUME NEW b \in Batches
    PROVE  Single(b)
  <1>00. <<b>> \in Seq(Batches)
    OBVIOUS
  <1>0. PICK x \in Seq(Batches) : x = <<b>>
    BY <1>00
  <1>1. /\ RowsOf \in [Batches -> Seq(1 .. MaxRow)] /\ MarksOf \in [Batches -> Seq(1 .. MaxEpoch)]
        /\ AllRows(x) = All(RowsOf, x) /\ AllMarks(x) = All(MarksOf, x)
    BY <1>0, Lists
  <1>2. All(RowsOf, <<b>>) = RowsOf[b]
    BY <1>1, AllOne
  <1>3. All(MarksOf, <<b>>) = MarksOf[b]
    BY <1>1, AllOne
  <1>4. RowsOf[b] = b.rows /\ MarksOf[b] = b.marks
    BY DEF RowsOf, MarksOf
  <1> QED BY <1>0, <1>1, <1>2, <1>3, <1>4 DEF Single, Rows

\* An empty queue holds nothing.
LEMMA NoBatches == AllRows(<<>>) = <<>> /\ AllMarks(<<>>) = <<>> /\ Rows(<<>>) = 0
  <1>1. AllRows(<<>>) = <<>> /\ AllMarks(<<>>) = <<>>
    BY DEF AllRows, AllMarks, FlattenSeq
  <1> QED BY <1>1 DEF Rows

-----------------------------------------------------------------------------
(* flush.                                                                  *)

\* flush finds how many batches it packs whole.
LEMMA WholeExists ==
    ASSUME NEW q \in Seq(Batches), NEW n
    PROVE  /\ Whole(q, n) \in 0 .. Len(q) /\ Fits(q, n, Whole(q, n))
           /\ Whole(q, n) < Len(q) => ~Fits(q, n, Whole(q, n) + 1)
  <1>0. Len(q) \in Nat /\ Len(q) \in 0 .. Len(q) /\ ~(Len(q) < Len(q))
    OBVIOUS
  <1>1. \E k \in 0 .. Len(q) : Fits(q, n, k) /\ (k < Len(q) => ~Fits(q, n, k + 1))
    <2> SUFFICES ASSUME \A k \in 0 .. Len(q) : Fits(q, n, k) => k < Len(q) /\ Fits(q, n, k + 1)
                 PROVE  FALSE
      BY Zenon
    <2> DEFINE T == {m \in Nat : m <= Len(q) => Fits(q, n, m)}
    <2>1. 0 \in T
      BY DEF Fits
    <2>2. ASSUME NEW m \in Nat, m \in T
          PROVE  m + 1 \in T
      BY <1>0, <2>2
    <2> HIDE DEF T
    <2>3. Nat \subseteq T
      BY <2>1, <2>2, Induct, Zenon
    <2>4. Fits(q, n, Len(q))
      <3>1. PICK l \in Nat : l = Len(q)
        BY <1>0
      <3>2. l \in T
        BY <2>3, Zenon
      <3>3. l <= Len(q) => Fits(q, n, l)
        BY <3>2 DEF T
      <3>4. l <= l
        BY ONLY l \in Nat
      <3> QED BY <3>1, <3>3, <3>4, Zenon
    <2> QED BY <1>0, <2>4
  <1> QED BY <1>1, Zenon DEF Whole

\* A sequence is its first k elements, and the rest.
LEMMA SplitAt ==
    ASSUME NEW S, NEW q \in Seq(S), NEW k \in 0 .. Len(q)
    PROVE  /\ SubSeq(q, 1, k) \in Seq(S) /\ SubSeq(q, k + 1, Len(q)) \in Seq(S)
           /\ q = SubSeq(q, 1, k) \o SubSeq(q, k + 1, Len(q))
           /\ Len(SubSeq(q, 1, k)) = k
  <1>1. Len(q) \in Nat /\ \A i \in 1 .. Len(q) : q[i] \in S
    OBVIOUS
  <1>2. SubSeq(q, 1, k) \in Seq(S) /\ Len(SubSeq(q, 1, k)) = k
    BY <1>1, SubSeqProperties
  <1>3. SubSeq(q, k + 1, Len(q)) \in Seq(S)
    BY <1>1, SubSeqProperties
  <1>4. SubSeq(q, 1, k) \o SubSeq(q, k + 1, Len(q)) = SubSeq(q, 1, Len(q))
    <2>1. 1 \in 1 .. Len(q) + 1 /\ k \in 1 - 1 .. Len(q) /\ Len(q) \in k .. Len(q)
      BY <1>1
    <2> QED BY <2>1, ConcatAdjacentSubSeq, Zenon
  <1>5. SubSeq(q, 1, Len(q)) = q
    BY SubSeqFull, Zenon
  <1> QED BY <1>2, <1>3, <1>4, <1>5, Zenon

\* What is behind the first k elements begins with the next one.
LEMMA SplitNext ==
    ASSUME NEW S, NEW q \in Seq(S), NEW k \in 0 .. Len(q), k < Len(q)
    PROVE  /\ q[k + 1] \in S /\ SubSeq(q, k + 2, Len(q)) \in Seq(S)
           /\ SubSeq(q, k + 1, Len(q)) = <<q[k + 1]>> \o SubSeq(q, k + 2, Len(q))
           /\ SubSeq(q, 1, k + 1) = SubSeq(q, 1, k) \o <<q[k + 1]>>
  <1>1. Len(q) \in Nat /\ \A i \in 1 .. Len(q) : q[i] \in S
    OBVIOUS
  <1>2. k + 1 \in 1 .. Len(q) /\ Len(q) \in k + 1 .. Len(q) /\ (k + 1) + 1 = k + 2 /\ (k + 1) - 1 = k
        /\ 1 \in 1 .. Len(q) /\ k + 1 \in 1 .. Len(q)
    BY <1>1
  <1>3. SubSeq(q, k + 2, Len(q)) \in Seq(S)
    BY <1>1, SubSeqProperties
  <1>4. SubSeq(q, k + 1, Len(q)) = <<q[k + 1]>> \o SubSeq(q, (k + 1) + 1, Len(q))
    BY <1>2, SubSeqRecursiveFirst
  <1>5. SubSeq(q, 1, k + 1) = SubSeq(q, 1, (k + 1) - 1) \o <<q[k + 1]>>
    BY <1>2, SubSeqRecursiveSecond
  <1> QED BY <1>1, <1>2, <1>3, <1>4, <1>5

\* The rows that flush takes of a batch are rows of it.
LEMMA NeededIs ==
    ASSUME NEW q \in Seq(Batches), q # <<>>, NEW n \in Nat, NEW k \in 0 .. Len(q),
           Fits(q, n, k), k < Len(q) => ~Fits(q, n, k + 1), Needed(q, n, k) # 0
    PROVE  /\ k < Len(q) /\ Needed(q, n, k) \in 1 .. Len(q[k + 1].rows)
           /\ k > 0 => ~Overflows(SubSeq(q, 1, k + 1))
  <1>0. Len(q) \in Nat /\ Len(q) > 0
    BY EmptySeq
  <1>1. k # Len(q) /\ k < Len(q) /\ ~(k > 0 /\ Overflows(SubSeq(q, 1, k + 1)))
    BY <1>0 DEF Needed
  <1>2. PICK b \in Batches : b = q[k + 1]
    BY <1>0, <1>1
  <1>3. Len(b.rows) \in Nat
    BY <1>2 DEF Batches
  <1>4. CASE k = 0 /\ n = 0
    <2>1. Needed(q, n, k) = Len(q[1].rows)
      BY <1>1, <1>4 DEF Needed
    <2> QED BY <1>1, <1>2, <1>3, <1>4, <2>1
  <1>5. CASE ~(k = 0 /\ n = 0)
    <2>1. Needed(q, n, k) = n - Rows(SubSeq(q, 1, k))
      BY <1>1, <1>5 DEF Needed
    <2>2. PICK i \in 1 .. k + 1 : /\ ~(/\ Rows(SubSeq(q, 1, i)) <= n
                                       /\ i > 1 => ~Overflows(SubSeq(q, 1, i)))
      BY <1>1 DEF Fits
    <2>3. i = k + 1
      <3>1. i \in 1 .. k \/ i = k + 1
        OBVIOUS
      <3>2. \A h \in 1 .. k : Rows(SubSeq(q, 1, h)) <= n /\ (h > 1 => ~Overflows(SubSeq(q, 1, h)))
        BY DEF Fits
      <3> QED BY <2>2, <3>1, <3>2
    <2>4. ~(Rows(SubSeq(q, 1, k + 1)) <= n)
      BY <1>0, <1>1, <2>2, <2>3
    <2>5. PICK p \in Seq(Batches) : p = SubSeq(q, 1, k) /\ Len(p) = k
      BY SplitAt
    <2>6. SubSeq(q, 1, k + 1) = p \o <<b>>
      BY <1>1, <1>2, <2>5, SplitNext
    <2>7. PICK s \in Seq(Batches) : s = <<b>>
      <3>1. <<b>> \in Seq(Batches)
        BY <1>2
      <3> QED BY <3>1
    <2>8. Single(b) /\ Joined(p, s) /\ Listed(p)
      BY <1>2, <2>5, <2>7, BatchSingle, BatchesJoined, BatchesListed
    <2>9. Rows(SubSeq(q, 1, k + 1)) = Rows(p) + Len(b.rows) /\ Rows(p) \in Nat
      BY <2>6, <2>7, <2>8 DEF Single, Joined, Listed
    <2>10. Rows(p) <= n
      <3>1. CASE k = 0
        <4>1. p = <<>>
          BY <2>5, <3>1, EmptySeq
        <4> QED BY <4>1, NoBatches
      <3>2. CASE k > 0
        <4>1. k \in 1 .. k
          BY <3>2
        <4> QED BY <2>5, <4>1 DEF Fits
      <3> QED BY <3>1, <3>2
    <2> QED BY <1>1, <1>2, <1>3, <2>1, <2>4, <2>5, <2>9, <2>10
  <1> QED BY <1>4, <1>5

\* A split of the queue q into the batches bs that go out and those that are left:
\* between two batches, or inside one, whose Markers go out with its first rows.
Parts(q, bs, left, pre, b, c, rest, post) ==
    /\ q = pre \o (<<b>> \o post) /\ bs = pre \o <<c>> /\ left = rest \o post
    /\ c.marks = b.marks /\ b.rows = c.rows \o AllRows(rest)
    /\ AllMarks(rest) = <<>> /\ \A i \in DOMAIN rest : rest[i].marks = <<>> /\ rest[i].rows # <<>>

Cut(q, bs, left) ==
    \/ q = bs \o left
    \/ \E pre \in Seq(Batches), b \in Batches, c \in Batches, rest \in Seq(Batches),
          post \in Seq(Batches) : Parts(q, bs, left, pre, b, c, rest, post)

\* What a split leaves at the front of the queue.
LEMMA RemainderIs ==
    ASSUME NEW b \in Batches, NEW i \in 1 .. Len(b.rows)
    PROVE  /\ Remainder(b, i) \in Seq(Batches)
           /\ Batch(SubSeq(b.rows, 1, i), b.marks) \in Batches
           /\ b.rows = SubSeq(b.rows, 1, i) \o AllRows(Remainder(b, i))
           /\ AllMarks(Remainder(b, i)) = <<>>
           /\ \A h \in DOMAIN Remainder(b, i) :
                 Remainder(b, i)[h].marks = <<>> /\ Remainder(b, i)[h].rows # <<>>
  <1>0. b.rows \in Seq(1 .. MaxRow) /\ b.marks \in Seq(1 .. MaxEpoch) /\ Len(b.rows) \in Nat
    BY DEF Batches
  <1>1. PICK r \in Seq(1 .. MaxRow) : r = b.rows
    BY <1>0
  <1>2. /\ SubSeq(r, 1, i) \in Seq(1 .. MaxRow) /\ SubSeq(r, i + 1, Len(r)) \in Seq(1 .. MaxRow)
        /\ r = SubSeq(r, 1, i) \o SubSeq(r, i + 1, Len(r))
    <2>1. i \in 0 .. Len(r)
      BY <1>1
    <2> QED BY <2>1, SplitAt
  <1>3. Batch(SubSeq(b.rows, 1, i), b.marks) \in Batches
    BY <1>0, <1>1, <1>2 DEF Batch, Batches
  <1>4. CASE i = Len(b.rows)
    <2>1. Remainder(b, i) = <<>> /\ <<>> \in Seq(Batches)
      BY <1>4 DEF Remainder
    <2>2. SubSeq(r, 1, i) = r /\ r \o <<>> = r
      BY <1>1, <1>4, SubSeqFull, ConcatEmptySeq
    <2>3. AllRows(<<>>) = <<>> /\ AllMarks(<<>>) = <<>>
      BY NoBatches
    <2> QED BY <1>1, <1>3, <2>1, <2>2, <2>3
  <1>5. CASE i # Len(b.rows)
    <2>1. PICK d \in Batches : d = Batch(SubSeq(r, i + 1, Len(r)), <<>>)
      <3>1. <<>> \in Seq(1 .. MaxEpoch)
        OBVIOUS
      <3>2. Batch(SubSeq(r, i + 1, Len(r)), <<>>) \in Batches
        BY <1>2, <3>1 DEF Batch, Batches
      <3> QED BY <3>2
    <2>2. d.rows = SubSeq(r, i + 1, Len(r)) /\ d.marks = <<>>
      BY <2>1 DEF Batch
    <2>3. Remainder(b, i) = <<d>>
      BY <1>1, <1>5, <2>1 DEF Remainder
    <2>4. <<d>> \in Seq(Batches)
      BY <2>1
    <2>5. Single(d)
      BY <2>1, BatchSingle
    <2>6. d.rows # <<>>
      <3>1. Len(SubSeq(r, i + 1, Len(r))) = (Len(r) - (i + 1)) + 1
        <4>1. i + 1 <= Len(r) /\ i + 1 \in Int /\ Len(r) \in Int /\ i \in Nat
          BY <1>0, <1>1, <1>5
        <4>2. \A h \in i + 1 .. Len(r) : h \in 1 .. Len(r)
          BY <4>1
        <4>3. \A h \in 1 .. Len(r) : r[h] \in 1 .. MaxRow
          BY <1>1, ElementOfSeq
        <4>4. \A h \in i + 1 .. Len(r) : r[h] \in 1 .. MaxRow
          BY <4>2, <4>3
        <4> QED BY <4>1, <4>4, SubSeqProperties
      <3>2. Len(d.rows) > 0
        BY <1>0, <1>1, <1>5, <2>2, <3>1
      <3> QED BY <3>2
    <2>7. \A h \in DOMAIN <<d>> : <<d>>[h] = d
      OBVIOUS
    <2> QED BY <1>1, <1>2, <1>3, <2>2, <2>3, <2>4, <2>5, <2>6, <2>7 DEF Single
  <1> QED BY <1>4, <1>5

\* Of at most one batch with rows nothing is merged.
LEMMA OneBatchMerges ==
    ASSUME NEW bs \in Seq(Batches), Len(bs) <= 1
    PROVE  ~MergeFails(bs)
  <1> DEFINE I == {i \in DOMAIN bs : bs[i].rows # <<>>}
  <1>1. DOMAIN bs = 1 .. Len(bs) /\ Len(bs) \in Nat
    OBVIOUS
  <1>2. I \subseteq {1}
    BY <1>1
  <1>3. Cardinality(I) <= 1 /\ Cardinality(I) \in Nat
    <2> HIDE DEF I
    <2>1. IsFiniteSet({1}) /\ Cardinality({1}) = 1
      BY FS_Singleton
    <2>2. IsFiniteSet(I) /\ Cardinality(I) <= Cardinality({1})
      BY <1>2, <2>1, FS_Subset
    <2>3. Cardinality(I) \in Nat
      BY <2>2, FS_CardinalityType
    <2> QED BY <2>1, <2>2, <2>3
  <1> QED BY <1>3 DEF MergeFails

\* A beginning of the batches has a beginning of the rows.
LEMMA RowsBegin ==
    ASSUME NEW x \in Seq(1 .. MaxRow), NEW y \in Seq(1 .. MaxRow)
    PROVE  Begins(x, x \o y)
  <1>1. /\ Len(x \o y) = Len(x) + Len(y) /\ Len(x) \in Nat /\ Len(y) \in Nat
        /\ \A i \in 1 .. Len(x) + Len(y) : (x \o y)[i] = IF i <= Len(x) THEN x[i] ELSE y[i - Len(x)]
    BY ConcatProperties
  <1> QED BY <1>1 DEF Begins

\* What flush returns and leaves is the queue, cut in two, and merging does not
\* overflow a column.
Flushed(q, f) ==
    /\ f.batches \in Seq(Batches) /\ f.left \in Seq(Batches)
    /\ Cut(q, f.batches, f.left) /\ ~MergeFails(f.batches)

\* flush: neither the row count nor the byte budget makes it drop a batch, and
\* what it returns can be merged into one.
LEMMA FlushIs ==
    ASSUME NEW q \in Seq(Batches), q # <<>>, NEW n \in Nat
    PROVE  Flushed(q, Flush(q, n))
  <1> DEFINE k == Whole(q, n)
             i == Needed(q, n, k)
  <1>1. k \in 0 .. Len(q) /\ Fits(q, n, k) /\ (k < Len(q) => ~Fits(q, n, k + 1))
    BY WholeExists
  <1>2. i # 0 => /\ k < Len(q) /\ i \in 1 .. Len(q[k + 1].rows)
                 /\ k > 0 => ~Overflows(SubSeq(q, 1, k + 1))
    BY <1>1, NeededIs
  <1>3. PICK f : f = Flush(q, n)
    OBVIOUS
  <1>4. /\ i = 0 => f = [batches |-> SubSeq(q, 1, k), left |-> SubSeq(q, k + 1, Len(q))]
        /\ i # 0 => f = [batches |-> Append(SubSeq(q, 1, k), Batch(SubSeq(q[k + 1].rows, 1, i), q[k + 1].marks)),
                          left |-> Remainder(q[k + 1], i) \o SubSeq(q, k + 2, Len(q))]
    BY <1>3 DEF Flush
  <1> HIDE DEF k, i
  <1>5. PICK pre \in Seq(Batches), post \in Seq(Batches) :
           /\ pre = SubSeq(q, 1, k) /\ post = SubSeq(q, k + 1, Len(q))
           /\ q = pre \o post /\ Len(pre) = k
    <2>1. /\ SubSeq(q, 1, k) \in Seq(Batches) /\ SubSeq(q, k + 1, Len(q)) \in Seq(Batches)
          /\ q = SubSeq(q, 1, k) \o SubSeq(q, k + 1, Len(q))
          /\ Len(SubSeq(q, 1, k)) = k
      BY <1>1, SplitAt
    <2> QED BY <2>1, Zenon
  <1>6. CASE i = 0
    <2>1. f.batches = pre /\ f.left = post
      <3>1. f = [batches |-> pre, left |-> post]
        BY <1>4, <1>5, <1>6, Zenon
      <3> QED BY <3>1, Zenon
    <2>2. ~MergeFails(pre)
      <3>1. CASE k <= 1
        BY <1>5, <3>1, OneBatchMerges
      <3>2. CASE ~(k <= 1)
        <4>1. k \in 1 .. k /\ k > 1
          BY <1>1, <3>2
        <4>2. ~Overflows(SubSeq(q, 1, k))
          BY <1>1, <4>1 DEF Fits
        <4> QED BY <1>5, <4>2 DEF MergeFails
      <3> QED BY <3>1, <3>2
    <2> QED BY <1>3, <1>5, <2>1, <2>2 DEF Flushed, Cut
  <1>7. CASE i # 0
    <2>1. PICK b \in Batches, after \in Seq(Batches) :
             /\ b = q[k + 1] /\ after = SubSeq(q, k + 2, Len(q))
             /\ post = <<b>> \o after /\ SubSeq(q, 1, k + 1) = pre \o <<b>>
      BY <1>1, <1>2, <1>5, <1>7, SplitNext
    <2>2. i \in 1 .. Len(b.rows)
      BY <1>2, <1>7, <2>1
    <2>3. PICK rest \in Seq(Batches), c \in Batches :
             /\ rest = Remainder(b, i) /\ c = Batch(SubSeq(b.rows, 1, i), b.marks)
             /\ b.rows = SubSeq(b.rows, 1, i) \o AllRows(rest)
             /\ AllMarks(rest) = <<>>
             /\ \A h \in DOMAIN rest : rest[h].marks = <<>> /\ rest[h].rows # <<>>
      BY <2>1, <2>2, RemainderIs
    <2>4. c.rows = SubSeq(b.rows, 1, i) /\ c.marks = b.marks
      BY <2>3 DEF Batch
    <2>5. f.batches = Append(pre, c) /\ f.left = rest \o after
      <3>1. f = [batches |-> Append(pre, c), left |-> rest \o after]
        BY <1>4, <1>5, <1>7, <2>1, <2>3, Zenon
      <3> QED BY <3>1, Zenon
    <2>6. Append(pre, c) = pre \o <<c>>
      BY <1>5, <2>3, AppendIsConcat
    <2>7. <<b>> \in Seq(Batches) /\ <<c>> \in Seq(Batches)
      BY <2>1, <2>3
    <2>8. f.batches \in Seq(Batches) /\ f.left \in Seq(Batches)
      <3>1. pre \o <<c>> \in Seq(Batches) /\ rest \o after \in Seq(Batches)
        BY <1>5, <2>1, <2>3, <2>7, ConcatProperties, Zenon
      <3> QED BY <2>5, <2>6, <3>1
    <2>9. Cut(q, f.batches, f.left)
      <3>1. Parts(q, f.batches, f.left, pre, b, c, rest, after)
        BY <1>5, <2>1, <2>3, <2>4, <2>5, <2>6, Zenon DEF Parts
      <3> QED BY <1>5, <2>1, <2>3, <3>1, Zenon DEF Cut
    <2>10. ~MergeFails(f.batches)
      <3>1. CASE k = 0
        <4>1. Len(f.batches) <= 1
          BY <1>5, <2>3, <2>5, <3>1, AppendProperties
        <4> QED BY <2>8, <4>1, OneBatchMerges
      <3>2. CASE k > 0
        <4>1. PICK sb \in Seq(Batches), sc \in Seq(Batches) : sb = <<b>> /\ sc = <<c>>
          BY <2>7
        <4>2. PICK xb \in Seq(Batches), xc \in Seq(Batches) : xb = pre \o sb /\ xc = pre \o sc
          BY <1>5, <4>1, ConcatProperties, Zenon
        <4>3. Joined(pre, sb) /\ Joined(pre, sc) /\ Single(b) /\ Single(c) /\ Listed(xb)
              /\ Listed(xc) /\ Listed(pre) /\ Listed(rest)
          BY <1>5, <2>1, <2>3, <4>1, <4>2, BatchesJoined, BatchSingle, BatchesListed, Zenon
        <4>4. AllRows(xb) = AllRows(pre) \o b.rows /\ AllRows(xc) = AllRows(pre) \o c.rows
          BY <4>1, <4>2, <4>3 DEF Joined, Single
        <4>5. AllRows(xb) = AllRows(xc) \o AllRows(rest)
          <5>1. AllRows(pre) \in Seq(1 .. MaxRow) /\ AllRows(rest) \in Seq(1 .. MaxRow) /\ c.rows \in Seq(1 .. MaxRow)
            BY <2>3, <4>3 DEF Listed, Batches
          <5>2. Assoc(AllRows(pre), c.rows, AllRows(rest))
            BY <5>1, Associative
          <5> QED BY <2>3, <2>4, <4>4, <5>2 DEF Assoc
        <4>6. AllRows(xc) \in Seq(1 .. MaxRow) /\ AllRows(xb) \in Seq(1 .. MaxRow) /\ AllRows(rest) \in Seq(1 .. MaxRow)
          BY <4>3 DEF Listed
        <4>7. Begins(AllRows(xc), AllRows(xb))
          BY <4>5, <4>6, RowsBegin
        <4>8. ~Overflows(xb)
          BY <1>2, <1>7, <2>1, <3>2, <4>1, <4>2
        <4>9. ~Overflows(xc)
          BY <4>6, <4>7, <4>8, FewerRowsFit
        <4> QED BY <2>5, <2>6, <4>1, <4>2, <4>9 DEF MergeFails
      <3> QED BY <1>1, <3>1, <3>2
    <2> QED BY <1>3, <2>8, <2>9, <2>10 DEF Flushed
  <1> QED BY <1>6, <1>7

-----------------------------------------------------------------------------
(* What a step of a stage does with the batches.                           *)

\* The types of the state.
AccTypes ==
    /\ size \in [Stage -> Nat]
    /\ queue \in [Stage -> Seq(Batches)]
    /\ pc \in [Stage -> {"read", "drain", "end", "done", "failed"}]
    /\ wire \in [0 .. Stages -> Seq(Batches)] /\ \A s \in 0 .. Stages : Len(wire[s]) <= 1
    /\ rows \in 0 .. MaxRow
    /\ covers \in Seq(0 .. MaxRow) /\ Len(covers) <= MaxEpoch
    /\ out \in Seq(Batches)

\* A flush of the queue q that hands on the merged batch.
Sent(s, q, taken, next, bs, left) ==
    /\ Cut(q, bs, left)
    /\ pc' = [pc EXCEPT ![s] = next]
    /\ queue' = [queue EXCEPT ![s] = left]
    /\ wire' = [taken EXCEPT ![s] = <<Merge(bs)>>]

\* The flush never fails.
LEMMA FlushOneSends ==
    ASSUME NEW s, size[s] \in Nat, NEW q \in Seq(Batches), q # <<>>, NEW taken, NEW next,
           FlushOne(s, q, taken, next)
    PROVE  \E bs \in Seq(Batches), left \in Seq(Batches) : Sent(s, q, taken, next, bs, left)
  <1>1. PICK f : f = Flush(q, size[s])
    OBVIOUS
  <1>2. Flushed(q, f)
    BY <1>1, FlushIs
  <1>3. /\ f.batches \in Seq(Batches) /\ f.left \in Seq(Batches)
        /\ Cut(q, f.batches, f.left) /\ ~MergeFails(f.batches)
    BY <1>2 DEF Flushed
  <1>4. /\ pc' = [pc EXCEPT ![s] = next]
        /\ queue' = [queue EXCEPT ![s] = f.left]
        /\ wire' = [taken EXCEPT ![s] = <<Merge(f.batches)>>]
    BY <1>1, <1>3, Zenon DEF FlushOne
  <1>5. Sent(s, q, taken, next, f.batches, f.left)
    BY <1>3, <1>4 DEF Sent
  <1> QED BY <1>3, <1>5, Zenon

\* The batch that a stage yields is a batch.
LEMMA MergeType ==
    ASSUME NEW bs \in Seq(Batches)
    PROVE  Merge(bs) \in Batches /\ Merge(bs).rows = AllRows(bs) /\ Merge(bs).marks = AllMarks(bs)
           /\ <<Merge(bs)>> \in Seq(Batches) /\ Len(<<Merge(bs)>>) = 1
  <1>1. Listed(bs)
    BY BatchesListed
  <1>2. Merge(bs) \in Batches
    BY <1>1 DEF Listed, Merge, Batch, Batches
  <1>3. <<Merge(bs)>> \in Seq(Batches) /\ Len(<<Merge(bs)>>) = 1
    BY <1>2
  <1> QED BY <1>2, <1>3 DEF Merge, Batch

\* What a step of the stage s does with the batches: it takes the batch that is
\* waiting for it or none, and yields a part of the queue or nothing.
Taken(s, x, taken) ==
    \/ x = queue[s] /\ taken = wire
    \/ /\ wire[s - 1] # <<>>
       /\ x = Pushed(queue[s], wire[s - 1][1])
       /\ taken = [wire EXCEPT ![s - 1] = <<>>]

\* The step yields nothing.
Keeps(s, x, taken) == queue' = [queue EXCEPT ![s] = x] /\ wire' = taken

\* A step of the stage s.
Works(s) ==
    \E x \in Seq(Batches), taken \in [0 .. Stages -> Seq(Batches)] :
        /\ Taken(s, x, taken)
        /\ \/ Keeps(s, x, taken)
           \/ /\ wire[s] = <<>> /\ x # <<>>
              /\ \E bs \in Seq(Batches), left \in Seq(Batches), next \in {"read", "drain", "end"} :
                    Sent(s, x, taken, next, bs, left)

\* push keeps a queue of batches.
LEMMA PushedType ==
    ASSUME NEW q \in Seq(Batches), NEW b \in Batches
    PROVE  Pushed(q, b) \in Seq(Batches)
  BY AppendProperties DEF Pushed

\* A batch that was yielded and not yet taken is one batch.
LEMMA WireBatch ==
    ASSUME AccTypes, NEW s \in 0 .. Stages, wire[s] # <<>>
    PROVE  wire[s][1] \in Batches /\ wire[s] = <<wire[s][1]>> /\ Len(wire[s]) = 1
  <1>1. PICK w \in Seq(Batches) : w = wire[s] /\ Len(w) <= 1
    BY DEF AccTypes
  <1>2. Len(w) = 1
    <2>1. PICK n \in Nat : n = Len(w)
      BY LenProperties
    <2>2. n # 0
      BY <1>1, <2>1, EmptySeq
    <2>3. n <= 1
      BY <1>1, <2>1, Zenon
    <2>4. n = 1
      BY ONLY n \in Nat, <2>2, <2>3
    <2> QED BY <2>1, <2>4, Zenon
  <1>3. w[1] \in Batches
    BY <1>1, <1>2
  <1>4. w = <<w[1]>>
    BY <1>1, <1>2, <1>3
  <1> QED BY <1>1, <1>2, <1>3, <1>4

\* Every step of a stage either hands on batches and does not fail, or passes on
\* the failure of its input.
Steps(s) == Receive(s) \/ Drain(s) \/ ReadEnd(s) \/ FlushRest(s) \/ Tick(s)

\* process_stream: no step of a stage but the error of its input fails the stream.
LEMMA StepWorks ==
    ASSUME AccTypes, NEW s \in Stage, Steps(s)
    PROVE  /\ Works(s) /\ pc[s] # "failed"
           /\ \E next \in {"read", "drain", "end", "done"} : pc' = [pc EXCEPT ![s] = next]
           /\ UNCHANGED <<size, timed, source, rows, covers, out>>
  <1>0. /\ size[s] \in Nat /\ queue[s] \in Seq(Batches) /\ s \in 0 .. Stages /\ s - 1 \in 0 .. Stages
        /\ wire \in [0 .. Stages -> Seq(Batches)]
    BY AccumulatorAssumption DEF AccTypes, Stage
  <1>1. Taken(s, queue[s], wire)
    BY DEF Taken
  <1>2. UNCHANGED <<queue, wire>> => Works(s)
    <2> SUFFICES ASSUME UNCHANGED <<queue, wire>>
                 PROVE  Works(s)
      OBVIOUS
    <2>1. queue' = [queue EXCEPT ![s] = queue[s]]
      BY DEF AccTypes
    <2>2. Keeps(s, queue[s], wire)
      BY <2>1 DEF Keeps
    <2> QED BY <1>0, <1>1, <2>2, Zenon DEF Works
  <1>3. ASSUME wire[s] = <<>>, queue[s] # <<>>, NEW next \in {"read", "drain", "end"},
               FlushOne(s, queue[s], wire, next)
        PROVE  Works(s) /\ pc' = [pc EXCEPT ![s] = next]
    <2>1. PICK bs \in Seq(Batches), left \in Seq(Batches) : Sent(s, queue[s], wire, next, bs, left)
      BY <1>0, <1>3, FlushOneSends
    <2>2. pc' = [pc EXCEPT ![s] = next]
      BY <2>1 DEF Sent
    <2> QED BY <1>0, <1>1, <1>3, <2>1, <2>2, Zenon DEF Works
  <1>4. CASE Receive(s)
    <2>1. /\ wire[s] = <<>> /\ wire[s - 1] # <<>> /\ pc[s] = "read"
          /\ UNCHANGED <<size, timed, source, rows, covers, out>>
      BY <1>4 DEF Receive, Idle
    <2>2. PICK b \in Batches : b = wire[s - 1][1]
      BY <1>0, <2>1, WireBatch
    <2>3. PICK x \in Seq(Batches) : x = Pushed(queue[s], b)
      BY <1>0, <2>2, PushedType
    <2>4. PICK taken \in [0 .. Stages -> Seq(Batches)] : taken = [wire EXCEPT ![s - 1] = <<>>]
      <3>1. <<>> \in Seq(Batches)
        OBVIOUS
      <3>2. [wire EXCEPT ![s - 1] = <<>>] \in [0 .. Stages -> Seq(Batches)]
        BY <1>0, <3>1
      <3> QED BY <3>2
    <2>5. Taken(s, x, taken)
      BY <2>1, <2>2, <2>3, <2>4 DEF Taken
    <2>6. CASE PushFlushes(queue[s], size[s], b)
      <3>1. FlushOne(s, x, taken, "drain")
        BY <1>4, <2>2, <2>3, <2>4, <2>6, Zenon DEF Receive
      <3>2. x # <<>>
        <4>1. x = Append(queue[s], b)
          BY <2>3, <2>6 DEF Pushed, PushFlushes
        <4> QED BY <1>0, <2>2, <4>1, AppendProperties
      <3>3. PICK bs \in Seq(Batches), left \in Seq(Batches) : Sent(s, x, taken, "drain", bs, left)
        BY <1>0, <2>3, <3>1, <3>2, FlushOneSends
      <3>4. pc' = [pc EXCEPT ![s] = "drain"]
        BY <3>3 DEF Sent
      <3> QED BY <2>1, <2>3, <2>4, <2>5, <3>2, <3>3, <3>4, Zenon DEF Works
    <2>7. CASE ~PushFlushes(queue[s], size[s], b)
      <3>1. Keeps(s, x, taken) /\ pc' = [pc EXCEPT ![s] = "drain"]
        BY <1>4, <2>2, <2>3, <2>4, <2>7, Zenon DEF Receive, Keeps
      <3> QED BY <2>1, <2>3, <2>4, <2>5, <3>1, Zenon DEF Works
    <2> QED BY <2>6, <2>7
  <1>5. CASE Drain(s)
    <2>1. wire[s] = <<>> /\ pc[s] = "drain" /\ UNCHANGED <<size, timed, source, rows, covers, out>>
      BY <1>5 DEF Drain
    <2>2. CASE MustDrain(s)
      <3>1. queue[s] # <<>> /\ FlushOne(s, queue[s], wire, "drain")
        BY <1>5, <2>2 DEF Drain, MustDrain
      <3>2. Works(s) /\ pc' = [pc EXCEPT ![s] = "drain"]
        BY <1>3, <2>1, <3>1
      <3> QED BY <2>1, <3>2
    <2>3. CASE ~MustDrain(s)
      <3>1. pc' = [pc EXCEPT ![s] = "read"] /\ UNCHANGED <<queue, wire>>
        BY <1>5, <2>3 DEF Drain
      <3> QED BY <1>2, <2>1, <3>1
    <2> QED BY <2>2, <2>3
  <1>6. CASE ReadEnd(s)
    BY <1>2, <1>6 DEF ReadEnd, Idle
  <1>7. CASE FlushRest(s)
    <2>1. wire[s] = <<>> /\ pc[s] = "end" /\ UNCHANGED <<size, timed, source, rows, covers, out>>
      BY <1>7 DEF FlushRest
    <2>2. CASE queue[s] # <<>>
      <3>1. FlushOne(s, queue[s], wire, "end")
        BY <1>7, <2>2 DEF FlushRest
      <3>2. Works(s) /\ pc' = [pc EXCEPT ![s] = "end"]
        BY <1>3, <2>1, <2>2, <3>1
      <3> QED BY <2>1, <3>2
    <2>3. CASE queue[s] = <<>>
      <3>1. pc' = [pc EXCEPT ![s] = "done"] /\ UNCHANGED <<queue, wire>>
        BY <1>7, <2>3 DEF FlushRest
      <3> QED BY <1>2, <2>1, <3>1
    <2> QED BY <2>2, <2>3
  <1>8. CASE Tick(s)
    <2>1. /\ wire[s] = <<>> /\ pc[s] = "read" /\ UNCHANGED <<size, timed, source, rows, covers, out>>
          /\ queue[s] # <<>> /\ FlushOne(s, queue[s], wire, "read")
      BY <1>8 DEF Tick, Idle
    <2>2. Works(s) /\ pc' = [pc EXCEPT ![s] = "read"]
      BY <1>3, <2>1
    <2> QED BY <2>1, <2>2
  <1> QED BY <1>4, <1>5, <1>6, <1>7, <1>8 DEF Steps

\* The batch that Produce builds.
LEMMA Produced ==
    ASSUME AccTypes, NEW k \in 0 .. MaxBatch, NEW e \in 0 .. MaxEpoch, Produce(k, e)
    PROVE  LET n == Len(covers)
               b == Batch([i \in 1 .. k |-> rows + i], [i \in 1 .. e |-> n + i])
           IN  /\ b \in Batches
               /\ wire[0] = <<>> /\ wire' = [wire EXCEPT ![0] = <<b>>]
               /\ rows' = rows + k /\ rows' \in 0 .. MaxRow
               /\ covers' \in Seq(0 .. MaxRow) /\ Len(covers') = n + e /\ n + e <= MaxEpoch
               /\ \A i \in 1 .. n + e : covers'[i] = IF i <= n THEN covers[i] ELSE rows
               /\ UNCHANGED <<size, timed, queue, pc, carries, source, out>>
  <1> DEFINE n == Len(covers)
             b == Batch([i \in 1 .. k |-> rows + i], [i \in 1 .. e |-> n + i])
  <1>0. MaxRow \in Nat /\ MaxEpoch \in Nat /\ MaxBatch \in Nat
    BY AccumulatorAssumption
  <1>1. n \in Nat /\ DOMAIN covers = 1 .. n /\ \A i \in 1 .. n : covers[i] \in 0 .. MaxRow
    BY <1>0 DEF AccTypes
  <1>2. Cardinality(Epochs) = n
    <2>1. \A m \in Nat : Cardinality(1 .. m) = m
      <3> TAKE m \in Nat
      <3>1. Cardinality(1 .. m) = IF 1 > m THEN 0 ELSE m - 1 + 1
        BY FS_Interval
      <3> QED BY <3>1
    <2> QED BY <1>1, <2>1 DEF Epochs
  <1>3. rows \in Nat /\ k \in Nat /\ e \in Nat /\ rows + k <= MaxRow /\ n + e <= MaxEpoch
    BY <1>0, <1>2 DEF Produce, AccTypes
  <1>4. b \in Batches
    <2>1. [i \in 1 .. k |-> rows + i] \in Seq(1 .. MaxRow)
      <3>1. \A i \in 1 .. k : rows + i \in 1 .. MaxRow
        BY <1>0, <1>3
      <3> QED BY <1>3, <3>1
    <2>2. [i \in 1 .. e |-> n + i] \in Seq(1 .. MaxEpoch)
      <3>1. \A i \in 1 .. e : n + i \in 1 .. MaxEpoch
        BY <1>0, <1>1, <1>3
      <3> QED BY <1>3, <3>1
    <2> QED BY <2>1, <2>2 DEF Batch, Batches
  <1>5. /\ wire[0] = <<>> /\ wire' = [wire EXCEPT ![0] = <<b>>] /\ rows' = rows + k
        /\ covers' = [i \in 1 .. (n + e) |-> IF i <= n THEN covers[i] ELSE rows]
        /\ UNCHANGED <<size, timed, queue, pc, carries, source, out>>
    BY <1>2 DEF Produce
  <1>6. covers' \in Seq(0 .. MaxRow) /\ Len(covers') = n + e
    <2>1. \A i \in 1 .. (n + e) : (IF i <= n THEN covers[i] ELSE rows) \in 0 .. MaxRow
      BY <1>0, <1>1, <1>3
    <2> QED BY <1>1, <1>3, <1>5, <2>1
  <1>7. \A i \in 1 .. n + e : covers'[i] = IF i <= n THEN covers[i] ELSE rows
    BY <1>5
  <1>8. rows' \in 0 .. MaxRow
    BY <1>0, <1>3, <1>5
  <1> HIDE DEF n
  <1> QED BY <1>3, <1>4, <1>5, <1>6, <1>7, <1>8 DEF n

\* A step of a stage keeps the types of the queues and wires.
LEMMA WorksTypes ==
    ASSUME AccTypes, NEW s \in Stage, Works(s)
    PROVE  /\ queue' \in [Stage -> Seq(Batches)]
           /\ wire' \in [0 .. Stages -> Seq(Batches)] /\ \A h \in 0 .. Stages : Len(wire'[h]) <= 1
  <1>00. s \in 0 .. Stages /\ s - 1 \in 0 .. Stages
    BY AccumulatorAssumption DEF Stage
  <1>0. /\ s \in 0 .. Stages /\ s - 1 \in 0 .. Stages /\ queue \in [Stage -> Seq(Batches)]
        /\ wire \in [0 .. Stages -> Seq(Batches)] /\ \A h \in 0 .. Stages : Len(wire[h]) <= 1
    BY <1>00 DEF AccTypes
  <1>1. PICK x \in Seq(Batches), taken \in [0 .. Stages -> Seq(Batches)] :
           /\ Taken(s, x, taken)
           /\ \/ Keeps(s, x, taken)
              \/ \E bs \in Seq(Batches), left \in Seq(Batches), next \in {"read", "drain", "end"} :
                    Sent(s, x, taken, next, bs, left)
    BY DEF Works
  <1>2. \A h \in 0 .. Stages : Len(taken[h]) <= 1
    <2>1. \A h \in 0 .. Stages : taken[h] = wire[h] \/ taken[h] = <<>>
      BY <1>0, <1>1 DEF Taken
    <2>2. Len(<<>>) <= 1
      OBVIOUS
    <2> QED BY <1>0, <2>1, <2>2, Zenon
  <1>3. CASE Keeps(s, x, taken)
    BY <1>0, <1>1, <1>2, <1>3 DEF Keeps
  <1>4. ASSUME NEW bs \in Seq(Batches), NEW left \in Seq(Batches), NEW next,
               Sent(s, x, taken, next, bs, left)
        PROVE  /\ queue' \in [Stage -> Seq(Batches)]
               /\ wire' \in [0 .. Stages -> Seq(Batches)] /\ \A h \in 0 .. Stages : Len(wire'[h]) <= 1
    <2>1. PICK m \in Seq(Batches) : m = <<Merge(bs)>> /\ Len(m) = 1
      BY <1>4, MergeType
    <2>2. wire' = [taken EXCEPT ![s] = m] /\ queue' = [queue EXCEPT ![s] = left]
      BY <1>4, <2>1 DEF Sent
    <2>3. wire' \in [0 .. Stages -> Seq(Batches)] /\ queue' \in [Stage -> Seq(Batches)]
      BY <1>0, <1>1, <1>4, <2>1, <2>2
    <2>4. \A h \in 0 .. Stages : wire'[h] = taken[h] \/ wire'[h] = m
      BY <1>1, <2>2
    <2>5. \A h \in 0 .. Stages : Len(wire'[h]) <= 1
      <3>1. Len(m) <= 1
        BY <2>1
      <3> QED BY <1>2, <2>4, <3>1, Zenon
    <2> QED BY <2>3, <2>5
  <1> QED BY <1>1, <1>3, <1>4

\* The types are kept.
LEMMA AccTypesInit == Init => AccTypes
  <1> SUFFICES ASSUME Init
               PROVE  AccTypes
    OBVIOUS
  <1>0. MaxRow \in Nat /\ MaxEpoch \in Nat /\ Sizes \subseteq Nat
    BY AccumulatorAssumption
  <1>1. <<>> \in Seq(Batches) /\ <<>> \in Seq(0 .. MaxRow) /\ Len(<<>>) <= 1 /\ Len(<<>>) = 0
    OBVIOUS
  <1>2. size \in [Stage -> Nat]
    BY <1>0 DEF Init
  <1>3. queue \in [Stage -> Seq(Batches)] /\ wire \in [0 .. Stages -> Seq(Batches)]
    BY <1>1 DEF Init
  <1>4. \A s \in 0 .. Stages : Len(wire[s]) <= 1
    BY <1>1 DEF Init
  <1>5. pc \in [Stage -> {"read", "drain", "end", "done", "failed"}]
    BY DEF Init
  <1> QED BY <1>0, <1>1, <1>2, <1>3, <1>4, <1>5 DEF Init, AccTypes

\* Every step of the source, a stage or the sink keeps the types.
LEMMA AccTypesStep == AccTypes /\ [Next]_vars => AccTypes'
  <1> SUFFICES ASSUME AccTypes, [Next]_vars
               PROVE  AccTypes'
    OBVIOUS
  <1>0. <<>> \in Seq(Batches) /\ Len(<<>>) <= 1 /\ 0 \in 0 .. Stages /\ Stages \in 0 .. Stages
    BY AccumulatorAssumption
  <1>1. ASSUME NEW k \in 0 .. MaxBatch, NEW e \in 0 .. MaxEpoch, Produce(k, e)
        PROVE  AccTypes'
    <2>1. PICK w : w \in Seq(Batches) /\ Len(w) = 1 /\ wire' = [wire EXCEPT ![0] = w]
      <3>1. PICK b \in Batches : wire' = [wire EXCEPT ![0] = <<b>>]
        BY <1>1, Produced, Zenon
      <3>2. <<b>> \in Seq(Batches) /\ Len(<<b>>) = 1
        BY <3>1
      <3> QED BY <3>1, <3>2
    <2>2. /\ rows' \in 0 .. MaxRow /\ covers' \in Seq(0 .. MaxRow) /\ Len(covers') <= MaxEpoch
          /\ UNCHANGED <<size, timed, queue, pc, carries, source, out>>
      BY <1>1, Produced
    <2>3. wire' \in [0 .. Stages -> Seq(Batches)] /\ \A h \in 0 .. Stages : wire'[h] = wire[h] \/ wire'[h] = w
      BY <1>0, <2>1 DEF AccTypes
    <2>4. \A h \in 0 .. Stages : Len(wire'[h]) <= 1
      <3>1. Len(w) <= 1 /\ \A h \in 0 .. Stages : Len(wire[h]) <= 1
        BY <2>1 DEF AccTypes
      <3> QED BY <2>3, <3>1, Zenon
    <2> QED BY <2>2, <2>3, <2>4 DEF AccTypes
  <1>2. ASSUME NEW how, SourceStops(how)
        PROVE  AccTypes'
    BY <1>2 DEF SourceStops, AccTypes
  <1>3. ASSUME NEW s \in Stage, Steps(s)
        PROVE  AccTypes'
    <2>1. /\ Works(s)
          /\ \E next \in {"read", "drain", "end", "done"} : pc' = [pc EXCEPT ![s] = next]
          /\ UNCHANGED <<size, timed, source, rows, covers, out>>
      BY <1>3, StepWorks
    <2>2. /\ queue' \in [Stage -> Seq(Batches)]
          /\ wire' \in [0 .. Stages -> Seq(Batches)] /\ \A h \in 0 .. Stages : Len(wire'[h]) <= 1
      BY <2>1, WorksTypes
    <2>3. pc' \in [Stage -> {"read", "drain", "end", "done", "failed"}]
      BY <2>1 DEF AccTypes
    <2> QED BY <2>1, <2>2, <2>3 DEF AccTypes
  <1>4. ASSUME NEW s \in Stage, ReadError(s)
        PROVE  AccTypes'
    <2>1. queue' \in [Stage -> Seq(Batches)]
      BY <1>0, <1>4 DEF ReadError, AccTypes
    <2>2. pc' \in [Stage -> {"read", "drain", "end", "done", "failed"}]
      BY <1>4 DEF ReadError, AccTypes
    <2> QED BY <1>4, <2>1, <2>2 DEF ReadError, AccTypes
  <1>5. CASE Write
    <2>1. wire[Stages][1] \in Batches
      BY <1>0, <1>5, WireBatch DEF Write
    <2>2. out' \in Seq(Batches)
      BY <1>5, <2>1, AppendProperties DEF Write, AccTypes
    <2>3. wire' \in [0 .. Stages -> Seq(Batches)] /\ \A h \in 0 .. Stages : wire'[h] = wire[h] \/ wire'[h] = <<>>
      BY <1>0, <1>5 DEF Write, AccTypes
    <2>4. \A h \in 0 .. Stages : Len(wire'[h]) <= 1
      <3>1. \A h \in 0 .. Stages : Len(wire[h]) <= 1
        BY DEF AccTypes
      <3> QED BY <1>0, <2>3, <3>1, Zenon
    <2> QED BY <1>5, <2>2, <2>3, <2>4 DEF Write, AccTypes
  <1>6. CASE UNCHANGED vars
    BY <1>6 DEF vars, AccTypes
  <1> QED BY <1>1, <1>2, <1>3, <1>4, <1>5, <1>6, Zenon DEF Next, StageStep, Steps, Finished

-----------------------------------------------------------------------------
(* Rows and Markers stay in order, however they are cut into batches.      *)

\* With the same rows and the same Markers, however they are cut into batches.
Same(x, y) == AllRows(x) = AllRows(y) /\ AllMarks(x) = AllMarks(y)

\* Batches in a row may be cut anew in each part.
LEMMA SameConcat ==
    ASSUME NEW x \in Seq(Batches), NEW y \in Seq(Batches),
           NEW v \in Seq(Batches), NEW w \in Seq(Batches), Same(x, v), Same(y, w)
    PROVE  Same(x \o y, v \o w)
  <1>1. Joined(x, y) /\ Joined(v, w)
    BY BatchesJoined
  <1> QED BY <1>1 DEF Joined, Same

\* Concatenating four in a row.
Groups(a, b, c, d) ==
    /\ (a \o b) \o (c \o d) = a \o ((b \o c) \o d)
    /\ a \o (b \o (c \o d)) = (a \o b) \o (c \o d)

\* The two ways of bracketing four sequences that the queue's cuts need.
LEMMA Grouped ==
    ASSUME NEW S, NEW a \in Seq(S), NEW b \in Seq(S), NEW c \in Seq(S), NEW d \in Seq(S)
    PROVE  Groups(a, b, c, d)
  <1>1. PICK cd \in Seq(S), bc \in Seq(S) : cd = c \o d /\ bc = b \o c
    BY ConcatProperties
  <1>2. Assoc(a, b, cd) /\ Assoc(b, c, d)
    BY <1>1, Associative
  <1> QED BY <1>1, <1>2 DEF Assoc, Groups

\* A flush and the merge keep every row and every Marker, in their order.
LEMMA CutSame ==
    ASSUME NEW q \in Seq(Batches), NEW bs \in Seq(Batches), NEW left \in Seq(Batches),
           Cut(q, bs, left)
    PROVE  Same(q, <<Merge(bs)>> \o left)
  <1>1. PICK m \in Batches : m = Merge(bs) /\ m.rows = AllRows(bs) /\ m.marks = AllMarks(bs)
    BY MergeType
  <1>2. PICK sm \in Seq(Batches) : sm = <<m>>
    <2>1. <<m>> \in Seq(Batches)
      BY <1>1
    <2> QED BY <2>1
  <1>3. Same(bs, sm)
    <2>1. Single(m)
      BY <1>1, BatchSingle
    <2> QED BY <1>1, <1>2, <2>1 DEF Single, Same
  <1>4. Same(left, left)
    BY DEF Same
  <1>5. Same(bs \o left, sm \o left)
    BY <1>2, <1>3, <1>4, SameConcat
  <1>6. Same(q, bs \o left)
    <2>1. CASE q = bs \o left
      BY <2>1 DEF Same
    <2>2. ASSUME NEW pre \in Seq(Batches), NEW b \in Batches, NEW c \in Batches,
                 NEW rest \in Seq(Batches), NEW post \in Seq(Batches),
                 Parts(q, bs, left, pre, b, c, rest, post)
          PROVE  Same(q, bs \o left)
      <3>1. PICK sb \in Seq(Batches), sc \in Seq(Batches) : sb = <<b>> /\ sc = <<c>>
        <4>1. <<b>> \in Seq(Batches) /\ <<c>> \in Seq(Batches)
          BY <2>2
        <4> QED BY <4>1
      <3>2. /\ q = pre \o (sb \o post) /\ bs = pre \o sc /\ left = rest \o post
            /\ c.marks = b.marks /\ b.rows = c.rows \o AllRows(rest) /\ AllMarks(rest) = <<>>
        BY <2>2, <3>1 DEF Parts
      <3>3. Single(b) /\ Single(c) /\ Joined(sc, rest)
        BY <2>2, <3>1, BatchSingle, BatchesJoined
      <3>4. PICK cr \in Seq(Batches) : cr = sc \o rest
        BY <2>2, <3>1, ConcatProperties
      <3>5. Same(sb, cr)
        <4>1. c.marks \o <<>> = c.marks
          BY <2>2, ConcatEmptySeq DEF Batches
        <4> QED BY <3>1, <3>2, <3>3, <3>4, <4>1 DEF Single, Joined, Same
      <3>6. Same(post, post) /\ Same(pre, pre)
        BY DEF Same
      <3>7. Same(sb \o post, cr \o post)
        BY <2>2, <3>1, <3>4, <3>5, <3>6, SameConcat
      <3>8. PICK bp \in Seq(Batches), cp \in Seq(Batches) : bp = sb \o post /\ cp = cr \o post
        BY <2>2, <3>1, <3>4, ConcatProperties
      <3>9. Same(pre \o bp, pre \o cp)
        BY <2>2, <3>6, <3>7, <3>8, SameConcat
      <3>10. Groups(pre, sc, rest, post)
        BY <2>2, <3>1, Grouped
      <3>11. bs \o left = pre \o cp
        BY <3>2, <3>4, <3>8, <3>10 DEF Groups
      <3> QED BY <3>2, <3>8, <3>9, <3>11
    <2> QED BY <2>1, <2>2 DEF Cut
  <1> QED BY <1>1, <1>2, <1>5, <1>6 DEF Same

\* push drops a batch only if it has neither rows nor Markers.
LEMMA PushedSame ==
    ASSUME NEW q \in Seq(Batches), NEW b \in Batches
    PROVE  Same(q \o <<b>>, Pushed(q, b))
  <1>1. PICK sb \in Seq(Batches) : sb = <<b>>
    <2>1. <<b>> \in Seq(Batches)
      OBVIOUS
    <2> QED BY <2>1
  <1>2. CASE b.rows = <<>> /\ b.marks = <<>>
    <2>1. Single(b)
      BY BatchSingle
    <2>2. AllRows(<<>>) = <<>> /\ AllMarks(<<>>) = <<>>
      BY NoBatches
    <2>3. Same(sb, <<>>)
      BY <1>1, <1>2, <2>1, <2>2 DEF Single, Same
    <2>4. Same(q, q) /\ <<>> \in Seq(Batches)
      BY DEF Same
    <2>5. Same(q \o sb, q \o <<>>)
      BY <1>1, <2>3, <2>4, SameConcat, Zenon
    <2>6. q \o <<>> = q
      BY ConcatEmptySeq
    <2> QED BY <1>1, <1>2, <2>5, <2>6 DEF Pushed
  <1>3. CASE ~(b.rows = <<>> /\ b.marks = <<>>)
    <2>1. Append(q, b) = q \o <<b>>
      BY AppendIsConcat
    <2> QED BY <1>3, <2>1 DEF Pushed, Same
  <1> QED BY <1>2, <1>3

\* The elements before and behind two neighbours.
Around(ss, j, fa, fc) == FlattenSeq(ss) = fa \o ((ss[j] \o ss[j + 1]) \o fc)

\* A flattened sequence, with two neighbours taken out of the middle.
LEMMA FlattenAround ==
    ASSUME NEW S, NEW ss \in Seq(Seq(S)), NEW j \in 1 .. Len(ss) - 1
    PROVE  Around(ss, j, FlattenSeq(SubSeq(ss, 1, j - 1)), FlattenSeq(SubSeq(ss, j + 2, Len(ss))))
  <1>0. Len(ss) \in Nat /\ j - 1 \in 0 .. Len(ss) /\ j \in 0 .. Len(ss) /\ j - 1 < Len(ss) /\ j < Len(ss)
        /\ (j - 1) + 1 = j /\ (j - 1) + 2 = j + 1
    OBVIOUS
  <1>1. PICK a \in Seq(Seq(S)), b \in Seq(Seq(S)) :
           a = SubSeq(ss, 1, j - 1) /\ b = SubSeq(ss, j, Len(ss)) /\ ss = a \o b
    <2>1. /\ SubSeq(ss, 1, j - 1) \in Seq(Seq(S)) /\ SubSeq(ss, (j - 1) + 1, Len(ss)) \in Seq(Seq(S))
          /\ ss = SubSeq(ss, 1, j - 1) \o SubSeq(ss, (j - 1) + 1, Len(ss))
      BY <1>0, SplitAt
    <2> QED BY <1>0, <2>1, Zenon
  <1>2. PICK x \in Seq(S), c \in Seq(Seq(S)) :
           x = ss[j] /\ c = SubSeq(ss, j + 1, Len(ss)) /\ b = <<x>> \o c
    <2>1. /\ ss[(j - 1) + 1] \in Seq(S) /\ SubSeq(ss, (j - 1) + 2, Len(ss)) \in Seq(Seq(S))
          /\ SubSeq(ss, (j - 1) + 1, Len(ss)) = <<ss[(j - 1) + 1]>> \o SubSeq(ss, (j - 1) + 2, Len(ss))
      BY <1>0, SplitNext
    <2> QED BY <1>0, <1>1, <2>1, Zenon
  <1>3. PICK y \in Seq(S), d \in Seq(Seq(S)) :
           y = ss[j + 1] /\ d = SubSeq(ss, j + 2, Len(ss)) /\ c = <<y>> \o d
    <2>1. /\ ss[j + 1] \in Seq(S) /\ SubSeq(ss, j + 2, Len(ss)) \in Seq(Seq(S))
          /\ SubSeq(ss, j + 1, Len(ss)) = <<ss[j + 1]>> \o SubSeq(ss, j + 2, Len(ss))
      BY <1>0, SplitNext
    <2> QED BY <1>2, <2>1, Zenon
  <1>4. PICK xs \in Seq(Seq(S)), ys \in Seq(Seq(S)) :
           xs = <<x>> /\ ys = <<y>> /\ FlattenSeq(xs) = x /\ FlattenSeq(ys) = y
    <2>1. /\ <<x>> \in Seq(Seq(S)) /\ FlattenSeq(<<x>>) = x
          /\ <<y>> \in Seq(Seq(S)) /\ FlattenSeq(<<y>>) = y
      BY <1>2, <1>3, FlattenOne
    <2> QED BY <2>1, Zenon
  <1>5. Distributes(a, b) /\ Distributes(xs, c) /\ Distributes(ys, d)
    BY <1>1, <1>2, <1>3, <1>4, FlattenConcat, Zenon
  <1>6. FlattenSeq(ss) = FlattenSeq(a) \o (x \o (y \o FlattenSeq(d)))
    BY <1>1, <1>2, <1>3, <1>4, <1>5, Zenon DEF Distributes
  <1>7. FlattenSeq(d) \in Seq(S)
    BY <1>3, FlattenType
  <1>8. Assoc(x, y, FlattenSeq(d))
    BY <1>2, <1>3, <1>7, Associative
  <1>9. FlattenSeq(ss) = FlattenSeq(a) \o ((ss[j] \o ss[j + 1]) \o FlattenSeq(d))
    BY <1>2, <1>3, <1>6, <1>8 DEF Assoc
  <1> QED BY <1>1, <1>3, <1>9, Zenon DEF Around

\* Rows and Markers that move between neighbours stay in their order.
LEMMA MovedAlong ==
    ASSUME NEW ss \in Seq(Seq(Batches)), NEW tt \in Seq(Seq(Batches)), Len(ss) = Len(tt),
           NEW j \in 1 .. Len(ss) - 1,
           \A i \in 1 .. Len(ss) : i # j /\ i # j + 1 => ss[i] = tt[i],
           Same(ss[j] \o ss[j + 1], tt[j] \o tt[j + 1])
    PROVE  Same(FlattenSeq(ss), FlattenSeq(tt))
  <1>0. Len(ss) \in Nat /\ j \in Nat /\ \A i \in 1 .. Len(ss) : ss[i] \in Seq(Batches) /\ tt[i] \in Seq(Batches)
    BY ElementOfSeq
  <1>1. SubSeq(ss, 1, j - 1) = SubSeq(tt, 1, j - 1) /\ SubSeq(ss, 1, j - 1) \in Seq(Seq(Batches))
    <2>1. \A i \in 1 .. j - 1 : i \in 1 .. Len(ss) /\ i # j /\ i # j + 1
      BY <1>0
    <2> QED BY <1>0, <2>1, SubSeqProperties
  <1>2. SubSeq(ss, j + 2, Len(ss)) = SubSeq(tt, j + 2, Len(ss)) /\ SubSeq(ss, j + 2, Len(ss)) \in Seq(Seq(Batches))
    <2>1. \A i \in j + 2 .. Len(ss) : i \in 1 .. Len(ss) /\ i # j /\ i # j + 1
      BY <1>0
    <2> QED BY <1>0, <2>1, SubSeqProperties
  <1>3. PICK fa \in Seq(Batches), fc \in Seq(Batches) :
           Around(ss, j, fa, fc) /\ Around(tt, j, fa, fc)
    <2>1. /\ Around(ss, j, FlattenSeq(SubSeq(ss, 1, j - 1)), FlattenSeq(SubSeq(ss, j + 2, Len(ss))))
          /\ Around(tt, j, FlattenSeq(SubSeq(tt, 1, j - 1)), FlattenSeq(SubSeq(tt, j + 2, Len(tt))))
      BY FlattenAround
    <2>2. FlattenSeq(SubSeq(ss, 1, j - 1)) \in Seq(Batches) /\ FlattenSeq(SubSeq(ss, j + 2, Len(ss))) \in Seq(Batches)
      BY <1>1, <1>2, FlattenType
    <2> QED BY <1>1, <1>2, <2>1, <2>2
  <1>4. PICK x \in Seq(Batches), y \in Seq(Batches) :
           x = ss[j] \o ss[j + 1] /\ y = tt[j] \o tt[j + 1] /\ Same(x, y)
    <2>1. j \in 1 .. Len(ss) /\ j + 1 \in 1 .. Len(ss)
      BY <1>0
    <2> QED BY <1>0, <2>1, ConcatProperties
  <1>5. Same(fa, fa) /\ Same(fc, fc)
    BY DEF Same
  <1>6. Same(x \o fc, y \o fc)
    BY <1>3, <1>4, <1>5, SameConcat
  <1>7. PICK xc \in Seq(Batches), yc \in Seq(Batches) : xc = x \o fc /\ yc = y \o fc
    BY <1>3, <1>4, ConcatProperties
  <1>8. Same(fa \o xc, fa \o yc)
    BY <1>3, <1>5, <1>6, <1>7, SameConcat
  <1>9. FlattenSeq(ss) = fa \o xc /\ FlattenSeq(tt) = fa \o yc
    BY <1>3, <1>4, <1>7 DEF Around
  <1> QED BY <1>8, <1>9

-----------------------------------------------------------------------------
(* All batches behind the source.                                          *)

\* What is behind the source, in as many parts: what is written, what each stage
\* has yielded or queued, the sink's end first, and what the source has yielded.
Segment(i) ==
    CASE i = 1 -> out
      [] i = Stages + 2 -> wire[0]
      [] OTHER -> wire[Stages + 2 - i] \o queue[Stages + 2 - i]
Segments == [i \in 1 .. Stages + 2 |-> Segment(i)]

\* What is queued between the wire behind the stage s and its source.
Before(s) == IF s = 1 THEN <<>> ELSE queue[s - 1]

\* Where a stage's wire and queue are among the parts.
LEMMA SegmentsAre ==
    ASSUME AccTypes
    PROVE  /\ Segments \in Seq(Seq(Batches)) /\ Len(Segments) = Stages + 2
           /\ Segments[1] = out
           /\ \A s \in Stage : /\ Segments[Stages + 2 - s] = wire[s] \o queue[s]
                               /\ Segments[Stages + 3 - s] = wire[s - 1] \o Before(s)
  <1>0. Stages \in Nat /\ Stages >= 1
    BY AccumulatorAssumption
  <1>1. /\ out \in Seq(Batches) /\ \A s \in 0 .. Stages : wire[s] \in Seq(Batches)
        /\ \A s \in 1 .. Stages : queue[s] \in Seq(Batches)
    BY DEF AccTypes, Stage
  <1>2. \A i \in 1 .. Stages + 2 : i # 1 /\ i # Stages + 2 => Stages + 2 - i \in 1 .. Stages /\ Stages + 2 - i \in 0 .. Stages
    BY <1>0
  <1>3. \A s \in 1 .. Stages : wire[s] \o queue[s] \in Seq(Batches)
    <2> TAKE s \in 1 .. Stages
    <2>1. s \in 0 .. Stages
      BY <1>0
    <2> QED BY <1>1, <2>1, ConcatProperties
  <1>4. \A i \in 1 .. Stages + 2 : Segment(i) \in Seq(Batches)
    <2> TAKE i \in 1 .. Stages + 2
    <2>1. 0 \in 0 .. Stages
      BY <1>0
    <2> QED BY <1>0, <1>1, <1>2, <1>3, <2>1 DEF Segment
  <1>5. Segments \in Seq(Seq(Batches)) /\ Len(Segments) = Stages + 2
    BY <1>0, <1>4 DEF Segments
  <1>6. \A i \in 1 .. Stages + 2 : Segments[i] = Segment(i)
    BY DEF Segments
  <1>7. Segments[1] = out
    BY <1>0, <1>6 DEF Segment
  <1>8. ASSUME NEW s \in 1 .. Stages
        PROVE  Segments[Stages + 2 - s] = wire[s] \o queue[s]
    <2>1. PICK i \in 1 .. Stages + 2 : i = Stages + 2 - s /\ i # 1 /\ i # Stages + 2 /\ Stages + 2 - i = s
      BY <1>0
    <2>2. Segment(i) = wire[s] \o queue[s]
      BY <2>1 DEF Segment
    <2> QED BY <1>6, <2>1, <2>2
  <1>9. ASSUME NEW s \in 1 .. Stages
        PROVE  Segments[Stages + 3 - s] = wire[s - 1] \o Before(s)
    <2>1. CASE s = 1
      <3>1. PICK i \in 1 .. Stages + 2 : i = Stages + 3 - s /\ i = Stages + 2 /\ i # 1
        BY <1>0, <2>1
      <3>2. Segment(i) = wire[0]
        BY <3>1 DEF Segment
      <3>3. wire[0] \o <<>> = wire[0]
        <4>1. wire[0] \in Seq(Batches)
          BY <1>0, <1>1
        <4> QED BY <4>1, ConcatEmptySeq
      <3> QED BY <1>6, <2>1, <3>1, <3>2, <3>3 DEF Before
    <2>2. CASE s # 1
      <3>1. PICK t \in 1 .. Stages : t = s - 1 /\ Stages + 2 - t = Stages + 3 - s
        BY <1>0, <2>2
      <3>2. Segments[Stages + 2 - t] = wire[t] \o queue[t]
        BY <1>8
      <3> QED BY <2>2, <3>1, <3>2 DEF Before
    <2> QED BY <2>1, <2>2
  <1> QED BY <1>5, <1>7, <1>8, <1>9 DEF Stage

\* The parts together are all batches behind the source.
LEMMA InFlightIs ==
    ASSUME AccTypes
    PROVE  InFlight = FlattenSeq(Segments) /\ InFlight \in Seq(Batches)
  <1> DEFINE behind == [i \in 1 .. Stages |-> wire[Stages + 1 - i] \o queue[Stages + 1 - i]]
  <1>0. Stages \in Nat /\ Stages >= 1 /\ out \in Seq(Batches) /\ wire[0] \in Seq(Batches)
    BY AccumulatorAssumption DEF AccTypes
  <1>1. \A i \in 1 .. Stages : wire[Stages + 1 - i] \o queue[Stages + 1 - i] \in Seq(Batches)
    <2> TAKE i \in 1 .. Stages
    <2>1. Stages + 1 - i \in 0 .. Stages /\ Stages + 1 - i \in Stage
      BY <1>0 DEF Stage
    <2>2. wire[Stages + 1 - i] \in Seq(Batches) /\ queue[Stages + 1 - i] \in Seq(Batches)
      BY <2>1 DEF AccTypes
    <2> QED BY <2>2, ConcatProperties
  <1>2. behind \in Seq(Seq(Batches)) /\ Len(behind) = Stages
        /\ \A i \in 1 .. Stages : behind[i] = wire[Stages + 1 - i] \o queue[Stages + 1 - i]
    <2>1. behind \in [1 .. Stages -> Seq(Batches)]
      BY <1>1, Zenon
    <2>2. \A i \in 1 .. Stages : behind[i] = wire[Stages + 1 - i] \o queue[Stages + 1 - i]
      BY Zenon
    <2> HIDE DEF behind
    <2>3. behind \in Seq(Seq(Batches)) /\ Len(behind) = Stages
      BY <1>0, <2>1
    <2> QED BY <2>2, <2>3
  <1>3. InFlight = (out \o FlattenSeq(behind)) \o wire[0]
    BY DEF InFlight
  <1> HIDE DEF behind
  <1>4. PICK o \in Seq(Seq(Batches)) : o = <<out>> /\ Len(o) = 1 /\ o[1] = out
    <2>1. <<out>> \in Seq(Seq(Batches))
      BY <1>0
    <2> QED BY <2>1
  <1>5. PICK ob \in Seq(Seq(Batches)) :
           /\ ob = o \o behind /\ Len(ob) = 1 + Stages
           /\ \A i \in 1 .. 1 + Stages : ob[i] = IF i <= 1 THEN o[i] ELSE behind[i - 1]
    <2>1. /\ o \o behind \in Seq(Seq(Batches)) /\ Len(o \o behind) = Len(o) + Len(behind)
          /\ \A i \in 1 .. Len(o) + Len(behind) : (o \o behind)[i] = IF i <= Len(o) THEN o[i] ELSE behind[i - Len(o)]
      BY <1>2, <1>4, ConcatProperties
    <2> QED BY <1>2, <1>4, <2>1
  <1>6. PICK all \in Seq(Seq(Batches)) :
           /\ all = Append(ob, wire[0]) /\ Len(all) = Stages + 2 /\ all[Stages + 2] = wire[0]
           /\ \A i \in 1 .. 1 + Stages : all[i] = ob[i]
    <2>1. /\ Append(ob, wire[0]) \in Seq(Seq(Batches)) /\ Len(Append(ob, wire[0])) = Len(ob) + 1
          /\ \A i \in 1 .. Len(ob) : Append(ob, wire[0])[i] = ob[i]
          /\ Append(ob, wire[0])[Len(ob) + 1] = wire[0]
      BY <1>0, <1>5, AppendProperties
    <2>2. (1 + Stages) + 1 = Stages + 2
      BY <1>0
    <2> QED BY <1>5, <2>1, <2>2
  <1>7. Segments \in Seq(Seq(Batches)) /\ Len(Segments) = Stages + 2
        /\ Segments[1] = out /\ Segments[Stages + 2] = wire[0]
        /\ \A i \in 2 .. Stages + 1 : Segments[i] = behind[i - 1]
    <2>1. Segments \in Seq(Seq(Batches)) /\ Len(Segments) = Stages + 2 /\ Segments[1] = out
      BY SegmentsAre
    <2>2. Segments[Stages + 2] = wire[0]
      BY <1>0 DEF Segments, Segment
    <2>3. ASSUME NEW i \in 2 .. Stages + 1
          PROVE  Segments[i] = behind[i - 1]
      <3>1. i \in 1 .. Stages + 2 /\ i # 1 /\ i # Stages + 2 /\ i - 1 \in 1 .. Stages /\ Stages + 1 - (i - 1) = Stages + 2 - i
        BY <1>0, <2>3
      <3>2. Segments[i] = wire[Stages + 2 - i] \o queue[Stages + 2 - i]
        BY <3>1 DEF Segments, Segment
      <3> QED BY <1>2, <3>1, <3>2
    <2> QED BY <2>1, <2>2, <2>3
  <1>8. \A i \in 1 .. Stages + 2 : Segments[i] = all[i]
    <2> TAKE i \in 1 .. Stages + 2
    <2>1. i = 1 \/ i = Stages + 2 \/ i \in 2 .. Stages + 1
      BY <1>0
    <2> QED BY <1>0, <1>4, <1>5, <1>6, <1>7, <2>1
  <1>9. Segments = all
    BY <1>6, <1>7, <1>8, SeqEqual
  <1>10. FlattenSeq(all) = FlattenSeq(ob) \o wire[0]
    BY <1>0, <1>5, <1>6, FlattenAppend
  <1>11. Distributes(o, behind)
    BY <1>2, <1>4, FlattenConcat
  <1>12. FlattenSeq(o) = out
    BY <1>0, <1>4, FlattenOne
  <1>13. FlattenSeq(all) \in Seq(Batches)
    BY <1>6, FlattenType
  <1> QED BY <1>3, <1>5, <1>9, <1>10, <1>11, <1>12, <1>13 DEF Distributes

\* Both facts about the parts in one, for citing it of the next state.
Laid ==
    /\ Segments \in Seq(Seq(Batches)) /\ Len(Segments) = Stages + 2
    /\ Segments[1] = out
    /\ \A s \in Stage : /\ Segments[Stages + 2 - s] = wire[s] \o queue[s]
                        /\ Segments[Stages + 3 - s] = wire[s - 1] \o Before(s)
    /\ InFlight = FlattenSeq(Segments) /\ InFlight \in Seq(Batches)

\* The two facts about the parts, in this state ...
LEMMA LaidOut == AccTypes => Laid
  BY SegmentsAre, InFlightIs, Zenon DEF Laid

\* ... and after a step.
LEMMA LaidOutNext == AccTypes' => Laid'
  BY LaidOut, PTL

\* A step of the stage s moves rows and Markers only between its wires and its
\* queue, and keeps them in their order.
LEMMA WorksSame ==
    ASSUME AccTypes, NEW s \in Stage, Works(s)
    PROVE  /\ \A t \in Stage : t # s => queue'[t] = queue[t]
           /\ \A t \in 0 .. Stages : t # s /\ t # s - 1 => wire'[t] = wire[t]
           /\ Same((wire[s] \o queue[s]) \o wire[s - 1], (wire'[s] \o queue'[s]) \o wire'[s - 1])
  <1>00. s \in 0 .. Stages /\ s - 1 \in 0 .. Stages /\ s - 1 # s
    BY AccumulatorAssumption DEF Stage
  <1>0. /\ queue \in [Stage -> Seq(Batches)] /\ wire \in [0 .. Stages -> Seq(Batches)]
        /\ queue[s] \in Seq(Batches) /\ wire[s] \in Seq(Batches) /\ wire[s - 1] \in Seq(Batches)
    BY <1>00 DEF AccTypes
  <1>1. PICK x \in Seq(Batches), taken \in [0 .. Stages -> Seq(Batches)] :
           /\ Taken(s, x, taken)
           /\ \/ Keeps(s, x, taken)
              \/ /\ wire[s] = <<>> /\ x # <<>>
                 /\ \E bs \in Seq(Batches), left \in Seq(Batches), next \in {"read", "drain", "end"} :
                       Sent(s, x, taken, next, bs, left)
    BY DEF Works
  <1>2. taken[s] = wire[s] /\ \A t \in 0 .. Stages : t # s /\ t # s - 1 => taken[t] = wire[t]
    BY <1>0, <1>00, <1>1 DEF Taken
  <1>3. PICK q \in Seq(Batches), w \in Seq(Batches), v \in Seq(Batches), y \in Seq(Batches) :
           q = queue[s] /\ w = wire[s] /\ v = wire[s - 1] /\ y = taken[s - 1]
    BY <1>0, <1>00, <1>1
  <1>4. Same(q \o v, x \o y)
    <2>1. CASE x = queue[s] /\ taken = wire
      BY <1>3, <2>1 DEF Same
    <2>2. CASE /\ wire[s - 1] # <<>>
               /\ x = Pushed(queue[s], wire[s - 1][1])
               /\ taken = [wire EXCEPT ![s - 1] = <<>>]
      <3>1. PICK b \in Batches : b = wire[s - 1][1] /\ v = <<b>>
        BY <1>00, <1>3, <2>2, WireBatch
      <3>2. Same(q \o <<b>>, Pushed(q, b))
        BY <1>3, <3>1, PushedSame
      <3>3. y = <<>>
        BY <1>0, <1>00, <1>3, <2>2
      <3>4. x \o <<>> = x
        BY <1>1, ConcatEmptySeq
      <3> QED BY <1>3, <2>2, <3>1, <3>2, <3>3, <3>4
    <2> QED BY <1>1, <2>1, <2>2 DEF Taken
  <1>5. PICK qv \in Seq(Batches), xy \in Seq(Batches) : qv = q \o v /\ xy = x \o y
    BY <1>1, <1>3, ConcatProperties, Zenon
  <1>6. Same(w \o qv, w \o xy)
    <2>1. Same(w, w) /\ Same(qv, xy)
      BY <1>4, <1>5 DEF Same
    <2> QED BY <1>3, <1>5, <2>1, SameConcat
  <1>7. Assoc(w, q, v) /\ Assoc(w, x, y)
    BY <1>1, <1>3, Associative, Zenon
  <1>8. Same((w \o q) \o v, (w \o x) \o y)
    BY <1>5, <1>6, <1>7 DEF Assoc
  <1>9. CASE Keeps(s, x, taken)
    <2>1. wire' = taken /\ queue' = [queue EXCEPT ![s] = x]
      BY <1>9 DEF Keeps
    <2>2. queue'[s] = x /\ \A t \in Stage : t # s => queue'[t] = queue[t]
      BY <1>0, <2>1
    <2>3. wire'[s] = w /\ wire'[s - 1] = y
      BY <1>2, <1>3, <2>1
    <2> QED BY <1>2, <1>3, <1>8, <2>1, <2>2, <2>3
  <1>10. ASSUME wire[s] = <<>>, NEW bs \in Seq(Batches), NEW left \in Seq(Batches), NEW next,
                Sent(s, x, taken, next, bs, left)
         PROVE  /\ \A t \in Stage : t # s => queue'[t] = queue[t]
                /\ \A t \in 0 .. Stages : t # s /\ t # s - 1 => wire'[t] = wire[t]
                /\ Same((wire[s] \o queue[s]) \o wire[s - 1], (wire'[s] \o queue'[s]) \o wire'[s - 1])
    <2>1. Cut(x, bs, left) /\ queue' = [queue EXCEPT ![s] = left] /\ wire' = [taken EXCEPT ![s] = <<Merge(bs)>>]
      BY <1>10 DEF Sent
    <2>2. PICK m \in Seq(Batches) : m = <<Merge(bs)>>
      BY <1>10, MergeType
    <2>3. Same(x, m \o left)
      BY <1>1, <1>10, <2>1, <2>2, CutSame
    <2>4. PICK ml \in Seq(Batches), wx \in Seq(Batches) : ml = m \o left /\ wx = w \o x
      BY <1>1, <1>3, <1>10, <2>2, ConcatProperties, Zenon
    <2>5. wx = x
      <3>1. <<>> \o x = x
        BY <1>1, ConcatEmptySeq
      <3> QED BY <1>3, <1>10, <2>4, <3>1
    <2>6. Same(wx \o y, ml \o y)
      <3>1. Same(y, y) /\ Same(wx, ml)
        BY <2>3, <2>4, <2>5 DEF Same
      <3> QED BY <1>3, <2>4, <3>1, SameConcat
    <2>7. queue'[s] = left /\ \A t \in Stage : t # s => queue'[t] = queue[t]
      BY <1>0, <2>1
    <2>8. /\ wire'[s] = m /\ wire'[s - 1] = y
          /\ \A t \in 0 .. Stages : t # s /\ t # s - 1 => wire'[t] = wire[t]
      BY <1>00, <1>1, <1>2, <1>3, <2>1, <2>2
    <2>9. Same((w \o q) \o v, (m \o left) \o y)
      BY <1>8, <2>4, <2>6 DEF Same
    <2> QED BY <1>3, <2>7, <2>8, <2>9
  <1> QED BY <1>1, <1>9, <1>10

\* Behind two neighbours.
LEMMA NeighboursSame ==
    ASSUME NEW a \in Seq(Batches), NEW b \in Seq(Batches), NEW c \in Seq(Batches),
           NEW d \in Seq(Batches), NEW e \in Seq(Batches), Same(a \o b, c \o d)
    PROVE  Same(a \o (b \o e), c \o (d \o e))
  <1>1. PICK ab \in Seq(Batches), cd \in Seq(Batches) : ab = a \o b /\ cd = c \o d
    BY ConcatProperties, Zenon
  <1>2. Same(e, e)
    BY DEF Same
  <1>3. Same(ab \o e, cd \o e)
    BY <1>1, <1>2, SameConcat
  <1>4. Assoc(a, b, e) /\ Assoc(c, d, e)
    BY Associative, Zenon
  <1> QED BY <1>1, <1>3, <1>4 DEF Assoc

\* However a stage works, what is behind the source is the same.
LEMMA WorksKeepsFlight ==
    ASSUME AccTypes, AccTypes', NEW s \in Stage, Works(s), out' = out
    PROVE  Same(InFlight, InFlight')
  <1>0. Stages \in Nat /\ Stages >= 1 /\ s \in 1 .. Stages
    BY AccumulatorAssumption DEF Stage
  <1>1. /\ \A t \in Stage : t # s => queue'[t] = queue[t]
        /\ \A t \in 0 .. Stages : t # s /\ t # s - 1 => wire'[t] = wire[t]
        /\ Same((wire[s] \o queue[s]) \o wire[s - 1], (wire'[s] \o queue'[s]) \o wire'[s - 1])
    BY WorksSame
  <1>2. PICK j \in 1 .. (Stages + 2) - 1 : j = Stages + 2 - s /\ j + 1 = Stages + 3 - s
    BY <1>0
  <1>3. PICK ss \in Seq(Seq(Batches)) :
           /\ ss = Segments /\ Len(ss) = Stages + 2
           /\ ss[j] = wire[s] \o queue[s] /\ ss[j + 1] = wire[s - 1] \o Before(s)
           /\ InFlight = FlattenSeq(ss)
    BY <1>2, SegmentsAre, InFlightIs, Zenon
  <1>4. PICK tt \in Seq(Seq(Batches)) :
           /\ tt = Segments' /\ Len(tt) = Stages + 2
           /\ tt[j] = wire'[s] \o queue'[s] /\ tt[j + 1] = wire'[s - 1] \o Before(s)'
           /\ InFlight' = FlattenSeq(tt)
    <2>1. /\ Segments' \in Seq(Seq(Batches)) /\ Len(Segments') = Stages + 2
          /\ \A t \in Stage : /\ Segments'[Stages + 2 - t] = wire'[t] \o queue'[t]
                              /\ Segments'[Stages + 3 - t] = wire'[t - 1] \o Before(t)'
      BY LaidOutNext, Zenon DEF Laid
    <2>2. InFlight' = FlattenSeq(Segments')
      BY LaidOutNext, Zenon DEF Laid
    <2> QED BY <1>2, <2>1, <2>2, Zenon
  <1>5. ASSUME NEW i \in 1 .. Len(ss), i # j, i # j + 1
        PROVE  ss[i] = tt[i]
    <2>1. ss[i] = Segment(i) /\ tt[i] = Segment(i)'
      BY <1>3, <1>4, <1>5 DEF Segments
    <2>2. CASE i = 1
      BY <1>0, <2>1, <2>2 DEF Segment
    <2>3. CASE i = Stages + 2
      <3>1. 0 \in 0 .. Stages /\ s # 0 /\ s - 1 # 0 /\ i # 1
        BY <1>0, <1>2, <1>5, <2>3
      <3> QED BY <1>1, <2>1, <2>3, <3>1 DEF Segment
    <2>4. CASE i # 1 /\ i # Stages + 2
      <3>1. PICK t \in Stage : t = Stages + 2 - i /\ t # s /\ t # s - 1 /\ t \in 0 .. Stages
        BY <1>0, <1>2, <1>3, <1>5, <2>4 DEF Stage
      <3>2. wire'[t] = wire[t] /\ queue'[t] = queue[t]
        BY <1>1, <3>1
      <3> QED BY <2>1, <2>4, <3>1, <3>2 DEF Segment
    <2> QED BY <2>2, <2>3, <2>4
  <1>6. Same(ss[j] \o ss[j + 1], tt[j] \o tt[j + 1])
    <2>1. Before(s)' = Before(s) /\ Before(s) \in Seq(Batches)
      <3>1. CASE s = 1
        BY <3>1 DEF Before
      <3>2. CASE s # 1
        <4>1. s - 1 \in Stage /\ s - 1 # s
          BY <1>0, <3>2 DEF Stage
        <4> QED BY <1>1, <3>2, <4>1 DEF Before, AccTypes
      <3> QED BY <3>1, <3>2
    <2>2. s \in Stage /\ s \in 0 .. Stages /\ s - 1 \in 0 .. Stages /\ j \in 1 .. Stages + 2
      BY <1>0, <1>2
    <2>3. PICK a \in Seq(Batches), b \in Seq(Batches), c \in Seq(Batches), d \in Seq(Batches) :
             a = ss[j] /\ b = wire[s - 1] /\ c = tt[j] /\ d = wire'[s - 1]
      <3>1. wire[s - 1] \in Seq(Batches) /\ wire'[s - 1] \in Seq(Batches)
        BY <2>2 DEF AccTypes
      <3>2. ss[j] \in Seq(Batches) /\ tt[j] \in Seq(Batches)
        BY <1>3, <1>4, <2>2, ElementOfSeq
      <3> QED BY <3>1, <3>2
    <2>4. Same(a \o b, c \o d)
      BY <1>1, <1>3, <1>4, <2>3
    <2>5. Same(a \o (b \o Before(s)), c \o (d \o Before(s)))
      BY <2>1, <2>3, <2>4, NeighboursSame
    <2> QED BY <1>3, <1>4, <2>1, <2>3, <2>5
  <1>7. Len(ss) = Len(tt) /\ j \in 1 .. Len(ss) - 1
    BY <1>2, <1>3, <1>4
  <1>8. Same(FlattenSeq(ss), FlattenSeq(tt))
    BY <1>3, <1>4, <1>5, <1>6, <1>7, MovedAlong
  <1> QED BY <1>3, <1>4, <1>8

-----------------------------------------------------------------------------
(* Nothing is lost.                                                        *)

\* What the sink has written and the stages hold, without what the source yielded last.
Older ==
    LET behind == [i \in 1..Stages |-> wire[Stages + 1 - i] \o queue[Stages + 1 - i]]
    IN  out \o FlattenSeq(behind)

\* What the source yielded last is at the end of what is behind it.
LEMMA OlderType ==
    ASSUME AccTypes
    PROVE  Older \in Seq(Batches) /\ InFlight = Older \o wire[0]
  <1> DEFINE behind == [i \in 1 .. Stages |-> wire[Stages + 1 - i] \o queue[Stages + 1 - i]]
  <1>0. Stages \in Nat /\ out \in Seq(Batches)
    BY AccumulatorAssumption DEF AccTypes
  <1>1. \A i \in 1 .. Stages : wire[Stages + 1 - i] \o queue[Stages + 1 - i] \in Seq(Batches)
    <2> TAKE i \in 1 .. Stages
    <2>1. Stages + 1 - i \in 0 .. Stages /\ Stages + 1 - i \in Stage
      BY <1>0 DEF Stage
    <2>2. wire[Stages + 1 - i] \in Seq(Batches) /\ queue[Stages + 1 - i] \in Seq(Batches)
      BY <2>1 DEF AccTypes
    <2> QED BY <2>2, ConcatProperties
  <1>2. behind \in [1 .. Stages -> Seq(Batches)]
    BY <1>1, Zenon
  <1>3. Older = out \o FlattenSeq(behind) /\ InFlight = Older \o wire[0]
    BY DEF Older, InFlight
  <1> HIDE DEF behind
  <1>4. behind \in Seq(Seq(Batches))
    BY <1>0, <1>2
  <1>5. FlattenSeq(behind) \in Seq(Batches)
    BY <1>4, FlattenType
  <1>6. out \o FlattenSeq(behind) \in Seq(Batches)
    BY <1>0, <1>5, ConcatProperties
  <1> QED BY <1>3, <1>6

\* The numbers from 1 to n, and on to n + k.
CountOn(n, k) == [i \in 1 .. n |-> i] \o [i \in 1 .. k |-> n + i] = [i \in 1 .. n + k |-> i]

\* The rows that the source adds to n rows in order are in order.
LEMMA CountsOn ==
    ASSUME NEW n \in Nat, NEW k \in Nat
    PROVE  CountOn(n, k)
  <1>1. PICK x \in Seq(Nat) : x = [i \in 1 .. n |-> i] /\ Len(x) = n /\ \A i \in 1 .. n : x[i] = i
    <2>1. [i \in 1 .. n |-> i] \in Seq(Nat) /\ Len([i \in 1 .. n |-> i]) = n
      OBVIOUS
    <2> QED BY <2>1
  <1>2. PICK y \in Seq(Nat) : y = [i \in 1 .. k |-> n + i] /\ Len(y) = k /\ \A i \in 1 .. k : y[i] = n + i
    <2>1. [i \in 1 .. k |-> n + i] \in Seq(Nat) /\ Len([i \in 1 .. k |-> n + i]) = k
      OBVIOUS
    <2> QED BY <2>1
  <1>3. PICK z \in Seq(Nat) : z = [i \in 1 .. n + k |-> i] /\ Len(z) = n + k /\ \A i \in 1 .. n + k : z[i] = i
    <2>1. [i \in 1 .. n + k |-> i] \in Seq(Nat) /\ Len([i \in 1 .. n + k |-> i]) = n + k
      OBVIOUS
    <2> QED BY <2>1
  <1>4. /\ x \o y \in Seq(Nat) /\ Len(x \o y) = n + k
        /\ \A i \in 1 .. n + k : (x \o y)[i] = IF i <= n THEN x[i] ELSE y[i - n]
    BY <1>1, <1>2, ConcatProperties
  <1>5. \A i \in 1 .. n + k : (x \o y)[i] = z[i]
    <2> TAKE i \in 1 .. n + k
    <2>1. CASE i <= n
      <3>1. i \in 1 .. n
        BY <2>1
      <3> QED BY <1>1, <1>3, <1>4, <2>1, <3>1
    <2>2. CASE ~(i <= n)
      <3>1. i - n \in 1 .. k /\ n + (i - n) = i
        BY <2>2
      <3> QED BY <1>2, <1>3, <1>4, <2>2, <3>1
    <2> QED BY <2>1, <2>2
  <1>6. x \o y = z
    BY <1>3, <1>4, <1>5, SeqEqual
  <1> QED BY <1>1, <1>2, <1>3, <1>6 DEF CountOn

\* Every row and every Marker of the source, each once and in order.
Complete ==
    /\ AllRows(InFlight) = [i \in 1 .. rows |-> i]
    /\ AllMarks(InFlight) = [i \in Epochs |-> i]

\* The inductive invariant: a stage that has not failed has lost nothing.
AccInv ==
    /\ AccTypes
    /\ MergeNeverOverflows
    /\ (\A s \in Stage : pc[s] # "failed") => Complete

\* A pipeline that starts has read nothing and lost nothing.
LEMMA AccInit == Init => AccInv
  <1> SUFFICES ASSUME Init
               PROVE  AccInv
    OBVIOUS
  <1>1. AccTypes
    BY AccTypesInit
  <1>2. MergeNeverOverflows
    BY DEF Init, MergeNeverOverflows
  <1>3. Complete
    <2>1. InFlight = FlattenSeq(Segments) /\ InFlight \in Seq(Batches)
      BY <1>1, InFlightIs
    <2>2. Segments \in Seq(Seq(Batches)) /\ Len(Segments) = Stages + 2
      BY <1>1, SegmentsAre
    <2>3. \A i \in 1 .. Stages + 2 : Segments[i] = <<>>
      <3> TAKE i \in 1 .. Stages + 2
      <3>0. Stages \in Nat /\ 0 \in 0 .. Stages
        BY AccumulatorAssumption
      <3>1. Segments[i] = Segment(i) /\ out = <<>> /\ wire[0] = <<>>
        BY <3>0 DEF Segments, Init
      <3>2. CASE i # 1 /\ i # Stages + 2
        <4>1. Stages + 2 - i \in Stage /\ Stages + 2 - i \in 0 .. Stages
          BY <3>0, <3>2 DEF Stage
        <4>2. wire[Stages + 2 - i] = <<>> /\ queue[Stages + 2 - i] = <<>>
          BY <4>1 DEF Init
        <4>3. <<>> \o <<>> = <<>>
          OBVIOUS
        <4> QED BY <3>1, <3>2, <4>2, <4>3 DEF Segment
      <3> QED BY <3>0, <3>1, <3>2 DEF Segment
    <2>4. Len(FlattenSeq(Segments)) = 0
      <3>1. Len(FlattenSeq(Segments)) \in Nat
        BY <2>1
      <3> SUFFICES ASSUME Len(FlattenSeq(Segments)) # 0
                   PROVE  FALSE
        OBVIOUS
      <3>2. 1 \in 1 .. Len(FlattenSeq(Segments))
        BY <3>1
      <3>3. PICK p \in 1 .. Len(Segments) : \E i \in 1 .. Len(Segments[p]) :
                Segments[p][i] = FlattenSeq(Segments)[1]
        BY <2>2, <3>2, FlattenMember
      <3>4. Segments[p] = <<>>
        BY <2>2, <2>3, <3>3
      <3> QED BY <3>3, <3>4
    <2>5. InFlight = <<>>
      BY <2>1, <2>4, EmptySeq
    <2>6. AllRows(InFlight) = <<>> /\ AllMarks(InFlight) = <<>>
      BY <2>5, NoBatches
    <2>7. rows = 0 /\ Epochs = {}
      BY DEF Init, Epochs
    <2>8. [i \in 1 .. 0 |-> i] = <<>> /\ [i \in {} |-> i] = <<>>
      OBVIOUS
    <2> QED BY <2>6, <2>7, <2>8 DEF Complete
  <1> QED BY <1>1, <1>2, <1>3 DEF AccInv

\* What the source reads is put behind all the rest.
LEMMA ProduceCounts ==
    ASSUME AccTypes, AccTypes', Complete,
           NEW k \in 0 .. MaxBatch, NEW e \in 0 .. MaxEpoch, Produce(k, e)
    PROVE  Complete'
  <1>0. PICK n \in Nat : n = Len(covers) /\ DOMAIN covers = 1 .. n
    BY DEF AccTypes
  <1>1. PICK b \in Batches :
           /\ b.rows = [i \in 1 .. k |-> rows + i] /\ b.marks = [i \in 1 .. e |-> n + i]
           /\ wire[0] = <<>> /\ wire' = [wire EXCEPT ![0] = <<b>>]
           /\ rows' = rows + k /\ DOMAIN covers' = 1 .. n + e
           /\ queue' = queue /\ out' = out
    <2> DEFINE b == Batch([i \in 1 .. k |-> rows + i], [i \in 1 .. e |-> n + i])
    <2>1. /\ b \in Batches
          /\ wire[0] = <<>> /\ wire' = [wire EXCEPT ![0] = <<b>>]
          /\ rows' = rows + k
          /\ covers' \in Seq(0 .. MaxRow) /\ Len(covers') = n + e
          /\ queue' = queue /\ out' = out
      BY <1>0, Produced, Zenon
    <2>2. b.rows = [i \in 1 .. k |-> rows + i] /\ b.marks = [i \in 1 .. e |-> n + i]
      BY DEF Batch
    <2>3. DOMAIN covers' = 1 .. n + e
      BY <2>1
    <2> QED BY <2>1, <2>2, <2>3
  <1>2. rows \in Nat /\ k \in Nat /\ e \in Nat /\ Stages \in Nat /\ 0 \in 0 .. Stages
    BY AccumulatorAssumption DEF AccTypes
  <1>3. Older' = Older /\ wire'[0] = <<b>>
    <2>1. \A i \in 1 .. Stages : wire'[Stages + 1 - i] = wire[Stages + 1 - i]
      <3> TAKE i \in 1 .. Stages
      <3>1. Stages + 1 - i # 0 /\ Stages + 1 - i \in 0 .. Stages
        BY <1>2
      <3> QED BY <1>1, <3>1 DEF AccTypes
    <2>2. wire'[0] = <<b>>
      BY <1>1, <1>2 DEF AccTypes
    <2>3. [i \in 1 .. Stages |-> wire[Stages + 1 - i] \o queue[Stages + 1 - i]]
          = [i \in 1 .. Stages |-> wire'[Stages + 1 - i] \o queue[Stages + 1 - i]]
      BY <2>1, Zenon
    <2> QED BY <1>1, <2>2, <2>3, Zenon DEF Older
  <1>4. PICK o \in Seq(Batches) : o = Older /\ InFlight = o \o wire[0]
    BY OlderType
  <1>5. InFlight' = o \o <<b>>
    <2>1. InFlight' = Older' \o wire'[0]
      BY DEF InFlight, Older
    <2> QED BY <1>3, <1>4, <2>1
  <1>6. InFlight = o
    <2>1. o \o <<>> = o
      BY <1>4, ConcatEmptySeq
    <2> QED BY <1>1, <1>4, <2>1
  <1>7. PICK sb \in Seq(Batches) : sb = <<b>>
    <2>1. <<b>> \in Seq(Batches)
      BY <1>1
    <2> QED BY <2>1
  <1>8. Joined(o, sb) /\ Single(b)
    BY <1>1, <1>4, <1>7, BatchesJoined, BatchSingle
  <1>9. AllRows(InFlight)' = AllRows(o) \o b.rows /\ AllMarks(InFlight)' = AllMarks(o) \o b.marks
    BY <1>5, <1>7, <1>8 DEF Joined, Single
  <1>10. AllRows(o) = [i \in 1 .. rows |-> i] /\ AllMarks(o) = [i \in 1 .. n |-> i]
    BY <1>0, <1>6 DEF Complete, Epochs
  <1>11. CountOn(rows, k) /\ CountOn(n, e)
    BY <1>0, <1>2, CountsOn
  <1>12. /\ AllRows(InFlight)' = [i \in 1 .. rows + k |-> i]
         /\ AllMarks(InFlight)' = [i \in 1 .. n + e |-> i]
    BY <1>1, <1>9, <1>10, <1>11, Zenon DEF CountOn
  <1> QED BY <1>1, <1>12, Zenon DEF Complete, Epochs

\* The sink takes the batch from the last wire.
LEMMA WriteKeepsFlight ==
    ASSUME AccTypes, AccTypes', Write
    PROVE  Same(InFlight, InFlight')
  <1>0. Stages \in Nat /\ Stages >= 1 /\ Stages \in Stage /\ Stages \in 0 .. Stages
    BY AccumulatorAssumption DEF Stage
  <1>1. PICK b \in Batches : wire[Stages] = <<b>> /\ b = wire[Stages][1]
    BY <1>0, WireBatch DEF Write
  <1>2. /\ out' = Append(out, b) /\ wire' = [wire EXCEPT ![Stages] = <<>>] /\ queue' = queue
        /\ out \in Seq(Batches) /\ queue[Stages] \in Seq(Batches)
    BY <1>0, <1>1 DEF Write, AccTypes
  <1>3. /\ wire'[Stages] = <<>>
        /\ \A t \in 0 .. Stages : t # Stages => wire'[t] = wire[t]
    BY <1>0, <1>2 DEF AccTypes
  <1>4. PICK ss \in Seq(Seq(Batches)) :
           /\ ss = Segments /\ Len(ss) = Stages + 2
           /\ ss[1] = out /\ ss[2] = <<b>> \o queue[Stages]
           /\ InFlight = FlattenSeq(ss)
    <2>1. Laid
      BY LaidOut
    <2>2. Stages + 2 - Stages = 2
      BY <1>0
    <2> QED BY <1>0, <1>1, <2>1, <2>2, Zenon DEF Laid
  <1>5. PICK tt \in Seq(Seq(Batches)) :
           /\ tt = Segments' /\ Len(tt) = Stages + 2
           /\ tt[1] = Append(out, b) /\ tt[2] = <<>> \o queue[Stages]
           /\ InFlight' = FlattenSeq(tt)
    <2>1. Laid'
      BY LaidOutNext
    <2>2. Stages + 2 - Stages = 2
      BY <1>0
    <2> QED BY <1>0, <1>2, <1>3, <2>1, <2>2, Zenon DEF Laid
  <1>6. ASSUME NEW i \in 1 .. Len(ss), i # 1, i # 1 + 1
        PROVE  ss[i] = tt[i]
    <2>1. ss[i] = Segment(i) /\ tt[i] = Segment(i)'
      BY <1>4, <1>5, <1>6 DEF Segments
    <2>2. CASE i = Stages + 2
      <3>1. 0 \in 0 .. Stages /\ 0 # Stages
        BY <1>0
      <3> QED BY <1>3, <1>6, <2>1, <2>2, <3>1 DEF Segment
    <2>3. CASE i # Stages + 2
      <3>1. PICK t \in Stage : t = Stages + 2 - i /\ t # Stages /\ t \in 0 .. Stages
        BY <1>0, <1>4, <1>6, <2>3 DEF Stage
      <3>2. wire'[t] = wire[t] /\ queue'[t] = queue[t]
        BY <1>2, <1>3, <3>1
      <3> QED BY <1>6, <2>1, <2>3, <3>1, <3>2 DEF Segment
    <2> QED BY <2>2, <2>3
  <1>7. Same(ss[1] \o ss[1 + 1], tt[1] \o tt[1 + 1])
    <2>1. PICK o \in Seq(Batches), q \in Seq(Batches), sb \in Seq(Batches) :
             o = out /\ q = queue[Stages] /\ sb = <<b>>
      <3>1. <<b>> \in Seq(Batches)
        BY <1>1
      <3> QED BY <1>2, <3>1
    <2>2. Append(o, b) = o \o sb
      BY <1>1, <2>1, AppendIsConcat
    <2>3. Assoc(o, sb, q) /\ <<>> \o q = q
      BY <2>1, Associative, ConcatEmptySeq
    <2>4. 1 + 1 = 2
      OBVIOUS
    <2>5. ss[1] \o ss[1 + 1] = tt[1] \o tt[1 + 1]
      BY <1>4, <1>5, <2>1, <2>2, <2>3, <2>4, Zenon DEF Assoc
    <2> QED BY <2>5 DEF Same
  <1>8. Len(ss) = Len(tt) /\ 1 \in 1 .. Len(ss) - 1
    BY <1>0, <1>4, <1>5
  <1>9. Same(FlattenSeq(ss), FlattenSeq(tt))
    BY <1>4, <1>5, <1>6, <1>7, <1>8, MovedAlong
  <1> QED BY <1>4, <1>5, <1>9

\* A stage reads an error only from a source or a stage that has failed.
LEMMA ErrorComesFromSource ==
    ASSUME AccTypes, MergeNeverOverflows, NEW s \in Stage, ReadError(s)
    PROVE  source = "failed"
  <1>0. InputState(s) = "failed"
    BY DEF ReadError
  <1>1. CASE s = 1
    BY <1>0, <1>1 DEF InputState
  <1>2. CASE s # 1
    <2>1. s - 1 \in Stage
      BY <1>2, AccumulatorAssumption DEF Stage
    <2>2. pc[s - 1] \in {"read", "drain", "end", "done", "failed"}
      BY <2>1 DEF AccTypes
    <2>3. pc[s - 1] = "failed"
      BY <1>0, <1>2, <2>2 DEF InputState
    <2> QED BY <2>1, <2>3 DEF MergeNeverOverflows
  <1> QED BY <1>1, <1>2

\* Every step keeps all rows and Markers behind the source, each once and in
\* order: push, flush at the size, at a tick or at the end, and the sink's write.
LEMMA AccStep == AccInv /\ [Next]_vars => AccInv'
  <1> SUFFICES ASSUME AccInv, [Next]_vars
               PROVE  AccInv'
    OBVIOUS
  <1>1. AccTypes /\ MergeNeverOverflows
    BY DEF AccInv
  <1>2. AccTypes'
    BY <1>1, AccTypesStep
  <1>3. ASSUME Same(InFlight, InFlight'), UNCHANGED <<rows, covers>>, Complete
        PROVE  Complete'
    BY <1>3 DEF Same, Complete, Epochs
  <1>4. ASSUME NEW k \in 0 .. MaxBatch, NEW e \in 0 .. MaxEpoch, Produce(k, e)
        PROVE  AccInv'
    <2>1. UNCHANGED <<pc, source>>
      BY <1>4 DEF Produce
    <2>2. Complete => Complete'
      BY <1>1, <1>2, <1>4, ProduceCounts
    <2> QED BY <1>1, <1>2, <2>1, <2>2 DEF AccInv, MergeNeverOverflows
  <1>5. ASSUME NEW how \in {"ended", "failed"}, SourceStops(how)
        PROVE  AccInv'
    <2>1. UNCHANGED <<pc, rows, covers, out, queue, wire>> /\ source = "open"
      BY <1>5 DEF SourceStops
    <2>2. InFlight' = InFlight
      BY <2>1 DEF InFlight
    <2>3. Complete => Complete'
      BY <1>3, <2>1, <2>2 DEF Same
    <2>4. MergeNeverOverflows'
      BY <1>1, <2>1 DEF MergeNeverOverflows
    <2> QED BY <1>2, <2>1, <2>3, <2>4 DEF AccInv
  <1>6. ASSUME NEW s \in Stage, Steps(s)
        PROVE  AccInv'
    <2>1. /\ Works(s) /\ pc[s] # "failed"
          /\ \E next \in {"read", "drain", "end", "done"} : pc' = [pc EXCEPT ![s] = next]
          /\ UNCHANGED <<size, timed, source, rows, covers, out>>
      BY <1>1, <1>6, StepWorks
    <2>2. \A t \in Stage : pc'[t] = "failed" <=> pc[t] = "failed"
      BY <1>1, <2>1 DEF AccTypes
    <2>3. Same(InFlight, InFlight')
      BY <1>1, <1>2, <2>1, WorksKeepsFlight
    <2>4. Complete => Complete'
      BY <1>3, <2>1, <2>3
    <2>5. MergeNeverOverflows'
      BY <1>1, <2>1, <2>2 DEF MergeNeverOverflows
    <2> QED BY <1>2, <2>2, <2>4, <2>5 DEF AccInv
  <1>7. ASSUME NEW s \in Stage, ReadError(s)
        PROVE  AccInv'
    <2>1. pc'[s] = "failed" /\ source' = source
      BY <1>1, <1>7 DEF ReadError, AccTypes
    <2>2. source = "failed"
      BY <1>1, <1>7, ErrorComesFromSource
    <2> QED BY <1>2, <2>1, <2>2 DEF AccInv, MergeNeverOverflows
  <1>8. CASE Write
    <2>1. UNCHANGED <<pc, source, rows, covers>>
      BY <1>8 DEF Write
    <2>2. Same(InFlight, InFlight')
      BY <1>1, <1>2, <1>8, WriteKeepsFlight
    <2>3. Complete => Complete'
      BY <1>3, <2>1, <2>2
    <2> QED BY <1>1, <1>2, <2>1, <2>3 DEF AccInv, MergeNeverOverflows
  <1>9. CASE UNCHANGED vars
    <2>1. UNCHANGED <<pc, source, rows, covers, out, queue, wire>>
      BY <1>9 DEF vars
    <2>2. InFlight' = InFlight
      BY <2>1 DEF InFlight
    <2>3. Complete => Complete'
      BY <1>3, <2>1, <2>2 DEF Same
    <2> QED BY <1>1, <1>2, <2>1, <2>3 DEF AccInv, MergeNeverOverflows
  <1> QED BY <1>4, <1>5, <1>6, <1>7, <1>8, <1>9, Zenon DEF Next, StageStep, Steps, Finished

\* The inductive invariant of the accumulators.
LEMMA AccInvariant == Spec => []AccInv
  BY AccInit, AccStep, PTL DEF Spec

\* For any number of accumulators, batch sizes and payloads: merging flushed
\* batches never overflows an i32-offset column, so a stage fails only when its
\* source did (flush packs no batch beyond the byte budget).
THEOREM OverflowNeverFailsTheStream == Spec => []MergeNeverOverflows
  <1>1. AccInv => MergeNeverOverflows
    BY DEF AccInv
  <1> QED BY <1>1, AccInvariant, PTL

\* For any number of accumulators, batch sizes and payloads: unless a stage failed,
\* each row and each Marker that the source yielded is behind it exactly once and
\* in order, however push, flush and the split at batch_size cut the batches.
THEOREM AccumulatorLosesNothing == Spec => []NothingLost
  <1>1. AccInv => NothingLost
    BY DEF AccInv, Complete, NothingLost
  <1> QED BY <1>1, AccInvariant, PTL

-----------------------------------------------------------------------------
(* Markers stay behind the rows that they cover.                           *)

\* A row or a Marker of a sequence of batches is one of a batch.
LEMMA RowOfBatch ==
    ASSUME NEW x \in Seq(Batches), NEW j \in 1 .. Rows(x)
    PROVE  \E p \in 1 .. Len(x) : AllRows(x)[j] \in ToSet(x[p].rows)
  <1>1. /\ RowsOf \in [Batches -> Seq(1 .. MaxRow)] /\ AllRows(x) = All(RowsOf, x)
    BY Lists
  <1>2. MapIs(RowsOf, x, Seq(1 .. MaxRow), Map(RowsOf, x))
    BY <1>1, MapType
  <1>3. PICK ss \in Seq(Seq(1 .. MaxRow)) :
           /\ Len(ss) = Len(x) /\ AllRows(x) = FlattenSeq(ss)
           /\ \A i \in 1 .. Len(x) : ss[i] = RowsOf[x[i]]
    BY <1>1, <1>2 DEF MapIs, All
  <1>4. j \in 1 .. Len(FlattenSeq(ss))
    BY <1>3 DEF Rows
  <1>5. PICK p \in 1 .. Len(ss) : \E i \in 1 .. Len(ss[p]) : ss[p][i] = FlattenSeq(ss)[j]
    BY <1>3, <1>4, FlattenMember
  <1>6. x[p] \in Batches /\ p \in 1 .. Len(x)
    BY <1>3, <1>5, ElementOfSeq
  <1>7. ss[p] = x[p].rows /\ x[p].rows \in Seq(1 .. MaxRow)
    BY <1>3, <1>6 DEF RowsOf, Batches
  <1>8. DOMAIN x[p].rows = 1 .. Len(x[p].rows)
    BY <1>7
  <1>9. AllRows(x)[j] \in ToSet(x[p].rows)
    BY <1>3, <1>5, <1>7, <1>8 DEF ToSet
  <1> QED BY <1>6, <1>9

\* A Marker of a sequence of batches is one of a batch.
LEMMA MarkOfBatch ==
    ASSUME NEW x \in Seq(Batches), NEW e \in ToSet(AllMarks(x))
    PROVE  \E p \in 1 .. Len(x) : e \in ToSet(x[p].marks)
  <1>1. /\ MarksOf \in [Batches -> Seq(1 .. MaxEpoch)] /\ AllMarks(x) = All(MarksOf, x)
    BY Lists
  <1>2. MapIs(MarksOf, x, Seq(1 .. MaxEpoch), Map(MarksOf, x))
    BY <1>1, MapType
  <1>3. PICK ss \in Seq(Seq(1 .. MaxEpoch)) :
           /\ Len(ss) = Len(x) /\ AllMarks(x) = FlattenSeq(ss)
           /\ \A i \in 1 .. Len(x) : ss[i] = MarksOf[x[i]]
    BY <1>1, <1>2 DEF MapIs, All
  <1>4. PICK j \in 1 .. Len(FlattenSeq(ss)) : e = FlattenSeq(ss)[j]
    <2>1. FlattenSeq(ss) \in Seq(1 .. MaxEpoch)
      BY <1>3, FlattenType
    <2>2. DOMAIN FlattenSeq(ss) = 1 .. Len(FlattenSeq(ss))
      BY <2>1
    <2> QED BY <1>3, <2>2 DEF ToSet
  <1>5. PICK p \in 1 .. Len(ss) : \E i \in 1 .. Len(ss[p]) : ss[p][i] = FlattenSeq(ss)[j]
    BY <1>3, <1>4, FlattenMember
  <1>6. x[p] \in Batches /\ p \in 1 .. Len(x)
    BY <1>3, <1>5, ElementOfSeq
  <1>7. ss[p] = x[p].marks /\ x[p].marks \in Seq(1 .. MaxEpoch)
    BY <1>3, <1>6 DEF MarksOf, Batches
  <1>8. DOMAIN x[p].marks = 1 .. Len(x[p].marks)
    BY <1>7
  <1>9. e \in ToSet(x[p].marks)
    BY <1>4, <1>5, <1>7, <1>8 DEF ToSet
  <1> QED BY <1>6, <1>9

-----------------------------------------------------------------------------
\* The Markers ms cover at most the first n rows.
Covered(cov, ms, n) == \A e \in ToSet(ms) : e \in DOMAIN cov /\ cov[e] <= n

\* With base rows before x, every Marker of x is behind the rows that it covers:
\* they are in the batches before its own.
BehindAt(cov, x, base, p) == Covered(cov, x[p].marks, base + Rows(SubSeq(x, 1, p - 1)))
Behind(cov, x, base) == \A p \in 1 .. Len(x) : BehindAt(cov, x, base, p)

\* The first batches hold no more rows than all of them.
LEMMA FrontIs ==
    ASSUME NEW x \in Seq(Batches), NEW p \in 0 .. Len(x)
    PROVE  SubSeq(x, 1, p) \in Seq(Batches) /\ Rows(SubSeq(x, 1, p)) \in Nat /\ Rows(SubSeq(x, 1, p)) <= Rows(x)
           /\ Rows(x) \in Nat
  <1>1. PICK y \in Seq(Batches), z \in Seq(Batches) :
           y = SubSeq(x, 1, p) /\ z = SubSeq(x, p + 1, Len(x)) /\ x = y \o z
    <2>1. /\ SubSeq(x, 1, p) \in Seq(Batches) /\ SubSeq(x, p + 1, Len(x)) \in Seq(Batches)
          /\ x = SubSeq(x, 1, p) \o SubSeq(x, p + 1, Len(x))
      BY SplitAt
    <2> QED BY <2>1, Zenon
  <1>2. Listed(y) /\ Listed(z) /\ Joined(y, z)
    BY <1>1, BatchesListed, BatchesJoined
  <1>3. Rows(y) \in Nat /\ Rows(z) \in Nat /\ Rows(x) = Rows(y) + Rows(z)
    BY <1>1, <1>2 DEF Listed, Joined
  <1>4. Rows(y) <= Rows(x) /\ Rows(x) \in Nat
    BY <1>3
  <1> QED BY <1>1, <1>3, <1>4, Zenon

\* A Marker of the merged batch covers no more than the rows before it.
LEMMA BehindMerged ==
    ASSUME NEW N \in Nat, NEW cov \in Seq(0 .. N), NEW x \in Seq(Batches), NEW base \in Nat,
           Behind(cov, x, base)
    PROVE  Covered(cov, AllMarks(x), base + Rows(x))
  <1> SUFFICES ASSUME NEW e \in ToSet(AllMarks(x))
               PROVE  e \in DOMAIN cov /\ cov[e] <= base + Rows(x)
    BY DEF Covered
  <1>1. PICK p \in 1 .. Len(x) : e \in ToSet(x[p].marks)
    BY MarkOfBatch
  <1>2. BehindAt(cov, x, base, p)
    BY <1>1 DEF Behind
  <1>3. e \in DOMAIN cov /\ cov[e] <= base + Rows(SubSeq(x, 1, p - 1))
    BY <1>1, <1>2 DEF BehindAt, Covered
  <1>4. p - 1 \in 0 .. Len(x)
    BY <1>1
  <1>5. Rows(SubSeq(x, 1, p - 1)) \in Nat /\ Rows(SubSeq(x, 1, p - 1)) <= Rows(x) /\ Rows(x) \in Nat
    BY <1>4, FrontIs
  <1>6. cov[e] \in Nat
    BY <1>3
  <1> QED BY <1>3, <1>5, <1>6

\* Two sequences in a row.
LEMMA BehindConcat ==
    ASSUME NEW cov, NEW x \in Seq(Batches), NEW y \in Seq(Batches), NEW base \in Nat
    PROVE  Behind(cov, x \o y, base) <=> Behind(cov, x, base) /\ Behind(cov, y, base + Rows(x))
  <1>1. PICK z \in Seq(Batches) :
           /\ z = x \o y /\ Len(z) = Len(x) + Len(y) /\ Len(x) \in Nat /\ Len(y) \in Nat
           /\ \A i \in 1 .. Len(x) + Len(y) : z[i] = IF i <= Len(x) THEN x[i] ELSE y[i - Len(x)]
    <2>1. /\ x \o y \in Seq(Batches) /\ Len(x \o y) = Len(x) + Len(y) /\ Len(x) \in Nat /\ Len(y) \in Nat
          /\ \A i \in 1 .. Len(x) + Len(y) : (x \o y)[i] = IF i <= Len(x) THEN x[i] ELSE y[i - Len(x)]
      BY ConcatProperties
    <2> QED BY <2>1, Zenon
  <1>6. SubSeq(z, 1, Len(x)) = x
    <2>1. CASE Len(x) = 0
      <3>1. x = <<>>
        BY <2>1, EmptySeq
      <3> QED BY <2>1, <3>1, SubSeqEmpty
    <2>2. CASE Len(x) # 0
      <3>1. 1 \in 1 .. Len(x) /\ Len(x) \in 1 .. Len(x)
        BY <1>1, <2>2
      <3>2. SubSeq(z, 1, Len(x)) = SubSeq(x, 1, Len(x))
        BY <1>1, <3>1, SubSeqOfConcat1
      <3> QED BY <3>2, SubSeqFull
    <2> QED BY <2>1, <2>2
  <1>2. ASSUME NEW p \in 1 .. Len(x)
        PROVE  BehindAt(cov, z, base, p) <=> BehindAt(cov, x, base, p)
    <2>1. z[p] = x[p]
      BY <1>1, <1>2
    <2>2. SubSeq(z, 1, p - 1) = SubSeq(x, 1, p - 1)
      <3>1. CASE p = 1
        BY <3>1, SubSeqEmpty
      <3>2. CASE p # 1
        <4>1. 1 \in 1 .. Len(x) /\ p - 1 \in 1 .. Len(x)
          BY <1>2, <3>2
        <4> QED BY <1>1, <4>1, SubSeqOfConcat1
      <3> QED BY <3>1, <3>2
    <2> QED BY <2>1, <2>2 DEF BehindAt
  <1>3. ASSUME NEW p \in 1 .. Len(y)
        PROVE  BehindAt(cov, z, base, Len(x) + p) <=> BehindAt(cov, y, base + Rows(x), p)
    <2>0. PICK m \in 1 .. Len(z) : m = Len(x) + p /\ ~(m <= Len(x)) /\ m - Len(x) = p
      BY <1>1, <1>3
    <2>1. z[m] = y[p]
      BY <1>1, <2>0
    <2>2. PICK u \in Seq(Batches) : u = SubSeq(y, 1, p - 1) /\ Rows(u) \in Nat
      <3>1. p - 1 \in 0 .. Len(y)
        BY <1>1, <1>3
      <3> QED BY <3>1, FrontIs
    <2>3. SubSeq(z, 1, m - 1) = x \o u
      <3>1. CASE p = 1
        <4>1. u = <<>> /\ m - 1 = Len(x)
          BY <1>1, <2>0, <2>2, <3>1, SubSeqEmpty
        <4>2. x \o <<>> = x
          BY ConcatEmptySeq
        <4> QED BY <1>6, <4>1, <4>2
      <3>2. CASE p # 1
        <4>1. /\ Len(x) + 1 \in Len(x) + 1 .. Len(x) + Len(y) /\ m - 1 \in Len(x) + 1 .. Len(x) + Len(y)
              /\ (Len(x) + 1) - Len(x) = 1 /\ (m - 1) - Len(x) = p - 1
          BY <1>1, <1>3, <2>0, <3>2
        <4>2. SubSeq(z, Len(x) + 1, m - 1) = SubSeq(y, (Len(x) + 1) - Len(x), (m - 1) - Len(x))
          BY <1>1, <4>1, SubSeqOfConcat2
        <4>3. SubSeq(z, Len(x) + 1, m - 1) = u
          BY <2>2, <4>1, <4>2
        <4>5. 1 \in 1 .. Len(z) + 1 /\ Len(x) \in 1 - 1 .. Len(z) /\ m - 1 \in Len(x) .. Len(z)
          BY <1>1, <2>0, <4>1
        <4>6. SubSeq(z, 1, Len(x)) \o SubSeq(z, Len(x) + 1, m - 1) = SubSeq(z, 1, m - 1)
          BY <1>1, <4>5, ConcatAdjacentSubSeq
        <4> QED BY <1>6, <4>3, <4>6
      <3> QED BY <3>1, <3>2
    <2>4. Joined(x, u) /\ Listed(x)
      BY <2>2, BatchesJoined, BatchesListed
    <2>5. base + Rows(SubSeq(z, 1, m - 1)) = (base + Rows(x)) + Rows(u)
      <3>1. Rows(SubSeq(z, 1, m - 1)) = Rows(x) + Rows(u) /\ Rows(x) \in Nat
        BY <2>3, <2>4 DEF Joined, Listed
      <3> QED BY <2>2, <3>1
    <2> QED BY <2>0, <2>1, <2>2, <2>5 DEF BehindAt
  <1>4. ASSUME Behind(cov, z, base)
        PROVE  Behind(cov, x, base) /\ Behind(cov, y, base + Rows(x))
    <2>1. \A p \in 1 .. Len(x) : p \in 1 .. Len(z)
      BY <1>1
    <2>2. \A p \in 1 .. Len(y) : Len(x) + p \in 1 .. Len(z)
      BY <1>1
    <2> QED BY <1>2, <1>3, <1>4, <2>1, <2>2, Zenon DEF Behind
  <1>5. ASSUME Behind(cov, x, base), Behind(cov, y, base + Rows(x))
        PROVE  Behind(cov, z, base)
    <2> SUFFICES ASSUME NEW m \in 1 .. Len(z)
                 PROVE  BehindAt(cov, z, base, m)
      BY DEF Behind
    <2>1. CASE m \in 1 .. Len(x)
      BY <1>2, <1>5, <2>1 DEF Behind
    <2>2. CASE m \notin 1 .. Len(x)
      <3>1. PICK p \in 1 .. Len(y) : m = Len(x) + p
        <4>1. m - Len(x) \in 1 .. Len(y) /\ m = Len(x) + (m - Len(x))
          BY <1>1, <2>2
        <4> QED BY <4>1
      <3> QED BY <1>3, <1>5, <3>1 DEF Behind
    <2> QED BY <2>1, <2>2
  <1> QED BY <1>1, <1>4, <1>5

\* One batch, and none.
LEMMA BehindOne ==
    ASSUME NEW cov, NEW b \in Batches, NEW base \in Nat
    PROVE  Behind(cov, <<b>>, base) <=> Covered(cov, b.marks, base)
  <1>1. Len(<<b>>) = 1 /\ <<b>>[1] = b
    OBVIOUS
  <1>2. SubSeq(<<b>>, 1, 1 - 1) = <<>>
    BY SubSeqEmpty
  <1>3. BehindAt(cov, <<b>>, base, 1) <=> Covered(cov, b.marks, base)
    <2>0. Rows(SubSeq(<<b>>, 1, 1 - 1)) = 0
      BY <1>2, NoBatches, Zenon
    <2>1. base + Rows(SubSeq(<<b>>, 1, 1 - 1)) = base
      BY <2>0
    <2> QED BY <1>1, <2>1 DEF BehindAt
  <1>4. \A p : p \in 1 .. 1 <=> p = 1
    OBVIOUS
  <1> QED BY <1>1, <1>3, <1>4 DEF Behind

\* No batch, no Marker.
LEMMA BehindNone ==
    ASSUME NEW cov, NEW base
    PROVE  Behind(cov, <<>>, base)
  BY DEF Behind

\* Without Markers.
LEMMA BehindBare ==
    ASSUME NEW cov, NEW x \in Seq(Batches), NEW base, \A i \in DOMAIN x : x[i].marks = <<>>
    PROVE  Behind(cov, x, base)
  <1> SUFFICES ASSUME NEW p \in 1 .. Len(x)
               PROVE  BehindAt(cov, x, base, p)
    BY DEF Behind
  <1>1. x[p].marks = <<>>
    OBVIOUS
  <1>2. ToSet(<<>>) = {}
    BY DEF ToSet
  <1> QED BY <1>1, <1>2 DEF BehindAt, Covered

\* More epochs.
Extends(cov, dov) ==
    \A e \in DOMAIN cov : e \in DOMAIN dov /\ dov[e] = cov[e]

\* The Markers of new epochs change nothing for those already under way.
LEMMA BehindExtends ==
    ASSUME NEW cov, NEW dov, Extends(cov, dov), NEW x, NEW base, Behind(cov, x, base)
    PROVE  Behind(dov, x, base)
  BY DEF Extends, Behind, BehindAt, Covered

\* A flush keeps the Markers behind the rows that they cover, both those that go
\* out and those that stay.
LEMMA BehindCut ==
    ASSUME NEW cov, NEW q \in Seq(Batches), NEW bs \in Seq(Batches), NEW left \in Seq(Batches),
           NEW base \in Nat, Cut(q, bs, left), Behind(cov, q, base)
    PROVE  Behind(cov, bs, base) /\ Behind(cov, left, base + Rows(bs))
  <1>1. CASE q = bs \o left
    BY <1>1, BehindConcat
  <1>2. ASSUME NEW pre \in Seq(Batches), NEW b \in Batches, NEW c \in Batches,
               NEW rest \in Seq(Batches), NEW post \in Seq(Batches),
               Parts(q, bs, left, pre, b, c, rest, post)
        PROVE  Behind(cov, bs, base) /\ Behind(cov, left, base + Rows(bs))
    <2>1. PICK sb \in Seq(Batches), sc \in Seq(Batches) : sb = <<b>> /\ sc = <<c>>
      <3>1. <<b>> \in Seq(Batches) /\ <<c>> \in Seq(Batches)
        BY <1>2
      <3> QED BY <3>1
    <2>2. PICK bp \in Seq(Batches) : bp = sb \o post
      BY <1>2, <2>1, ConcatProperties, Zenon
    <2>3. /\ q = pre \o bp /\ bs = pre \o sc /\ left = rest \o post
          /\ c.marks = b.marks /\ b.rows = c.rows \o AllRows(rest)
          /\ \A i \in DOMAIN rest : rest[i].marks = <<>>
      BY <1>2, <2>1, <2>2 DEF Parts
    <2>4. Listed(pre) /\ Listed(rest) /\ Single(b) /\ Single(c) /\ Joined(pre, sc)
      BY <1>2, <2>1, BatchesListed, BatchSingle, BatchesJoined
    <2>5. /\ Rows(pre) \in Nat /\ Rows(rest) \in Nat /\ Rows(sb) = Len(b.rows) /\ Rows(sc) = Len(c.rows)
          /\ Rows(bs) = Rows(pre) + Len(c.rows) /\ Len(c.rows) \in Nat
      <3>1. Len(c.rows) \in Nat
        BY <1>2 DEF Batches
      <3>2. Rows(sb) = Len(b.rows) /\ Rows(sc) = Len(c.rows)
        BY <2>1, <2>4 DEF Single
      <3>3. Rows(pre) \in Nat /\ Rows(rest) \in Nat
        BY <2>4 DEF Listed
      <3>4. Rows(bs) = Rows(pre) + Rows(sc)
        BY <2>3, <2>4 DEF Joined
      <3> QED BY <3>1, <3>2, <3>3, <3>4
    <2>6. Len(b.rows) = Len(c.rows) + Rows(rest)
      <3>1. c.rows \in Seq(1 .. MaxRow) /\ AllRows(rest) \in Seq(1 .. MaxRow) /\ Rows(rest) = Len(AllRows(rest))
        BY <1>2, <2>4 DEF Listed, Batches
      <3>2. Len(c.rows \o AllRows(rest)) = Len(c.rows) + Len(AllRows(rest))
        BY <3>1, ConcatProperties
      <3> QED BY <2>3, <3>1, <3>2
    <2>7. PICK n1 \in Nat, n2 \in Nat, n3 \in Nat :
             n1 = base + Rows(pre) /\ n2 = n1 + Rows(sb) /\ n3 = base + Rows(bs) /\ n3 + Rows(rest) = n2
      <3>1. PICK u \in Nat, v \in Nat, w \in Nat : u = Rows(pre) /\ v = Rows(rest) /\ w = Len(c.rows)
        BY <2>5, Zenon
      <3>2. Rows(sb) = w + v /\ Rows(bs) = u + w
        BY <2>5, <2>6, <3>1, Zenon
      <3>3. /\ base + u \in Nat /\ (base + u) + (w + v) \in Nat /\ base + (u + w) \in Nat
            /\ (base + (u + w)) + v = (base + u) + (w + v)
        BY ONLY base \in Nat, u \in Nat, v \in Nat, w \in Nat
      <3> QED BY <3>1, <3>2, <3>3, Zenon
    <2>8. Behind(cov, pre, base) /\ Behind(cov, bp, n1)
      BY <1>2, <2>2, <2>3, <2>7, BehindConcat
    <2>9. Behind(cov, sb, n1) /\ Behind(cov, post, n2)
      <3>1. Behind(cov, sb \o post, n1) <=> Behind(cov, sb, n1) /\ Behind(cov, post, n1 + Rows(sb))
        BY <1>2, <2>1, <2>7, BehindConcat
      <3> QED BY <2>2, <2>7, <2>8, <3>1, Zenon
    <2>10. Behind(cov, sc, n1)
      <3>1. Behind(cov, sb, n1) <=> Covered(cov, b.marks, n1)
        BY <1>2, <2>1, <2>7, BehindOne
      <3>2. Behind(cov, sc, n1) <=> Covered(cov, c.marks, n1)
        BY <1>2, <2>1, <2>7, BehindOne
      <3> QED BY <2>3, <2>9, <3>1, <3>2
    <2>11. Behind(cov, bs, base)
      BY <1>2, <2>1, <2>3, <2>7, <2>8, <2>10, BehindConcat
    <2>12. Behind(cov, rest, n3)
      BY <1>2, <2>3, BehindBare
    <2>13. Behind(cov, left, n3)
      BY <1>2, <2>3, <2>7, <2>9, <2>12, BehindConcat
    <2> QED BY <2>7, <2>11, <2>13
  <1> QED BY <1>1, <1>2 DEF Cut

\* push keeps them there.
LEMMA BehindPushed ==
    ASSUME NEW cov, NEW q \in Seq(Batches), NEW b \in Batches, NEW base \in Nat,
           Behind(cov, q \o <<b>>, base)
    PROVE  Behind(cov, Pushed(q, b), base)
  <1>1. PICK sb \in Seq(Batches) : sb = <<b>>
    <2>1. <<b>> \in Seq(Batches)
      OBVIOUS
    <2> QED BY <2>1
  <1>2. Behind(cov, q, base)
    BY <1>1, BehindConcat
  <1>3. Append(q, b) = q \o <<b>>
    BY AppendIsConcat
  <1> QED BY <1>2, <1>3 DEF Pushed

-----------------------------------------------------------------------------
\* Each batch of x acks Markers of which the rows are in x up to that batch.
AcksAt(cov, x, p) == Covered(cov, x[p].marks, Rows(SubSeq(x, 1, p)))
Acks(cov, x) == \A p \in 1 .. Len(x) : AcksAt(cov, x, p)

\* The same for the batches that were handed on.
LEMMA AcksExtends ==
    ASSUME NEW cov, NEW dov, Extends(cov, dov), NEW x, Acks(cov, x)
    PROVE  Acks(dov, x)
  BY DEF Extends, Acks, AcksAt, Covered

\* The stage hands on a batch whose Markers cover rows up to its own.
LEMMA AcksAppend ==
    ASSUME NEW cov, NEW x \in Seq(Batches), NEW b \in Batches, Acks(cov, x),
           Covered(cov, b.marks, Rows(x) + Len(b.rows))
    PROVE  Acks(cov, Append(x, b))
  <1>1. PICK z \in Seq(Batches) :
           /\ z = Append(x, b) /\ Len(z) = Len(x) + 1 /\ Len(x) \in Nat
           /\ z[Len(x) + 1] = b /\ \A i \in 1 .. Len(x) : z[i] = x[i]
    <2>1. /\ Append(x, b) \in Seq(Batches) /\ Len(Append(x, b)) = Len(x) + 1 /\ Len(x) \in Nat
          /\ Append(x, b)[Len(x) + 1] = b /\ \A i \in 1 .. Len(x) : Append(x, b)[i] = x[i]
      BY AppendProperties
    <2> QED BY <2>1, Zenon
  <1>2. PICK sb \in Seq(Batches) : sb = <<b>>
    <2>1. <<b>> \in Seq(Batches)
      OBVIOUS
    <2> QED BY <2>1
  <1>3. z = x \o sb
    BY <1>1, <1>2, AppendIsConcat
  <1>4. ASSUME NEW p \in 1 .. Len(x)
        PROVE  AcksAt(cov, z, p)
    <2>1. 1 \in 1 .. Len(x)
      BY <1>1, <1>4
    <2>2. SubSeq(z, 1, p) = SubSeq(x, 1, p)
      BY <1>2, <1>3, <1>4, <2>1, SubSeqOfConcat1
    <2>3. AcksAt(cov, x, p)
      BY <1>4 DEF Acks
    <2>4. z[p] = x[p]
      BY <1>1, <1>4
    <2> QED BY <2>2, <2>3, <2>4 DEF AcksAt
  <1>5. AcksAt(cov, z, Len(x) + 1)
    <2>1. SubSeq(z, 1, Len(x) + 1) = z
      BY <1>1, SubSeqFull
    <2>2. Joined(x, sb) /\ Single(b)
      BY <1>2, BatchesJoined, BatchSingle
    <2>3. Rows(z) = Rows(x) + Len(b.rows)
      BY <1>2, <1>3, <2>2 DEF Joined, Single
    <2> QED BY <1>1, <2>1, <2>3 DEF AcksAt
  <1>6. \A p \in 1 .. Len(z) : p \in 1 .. Len(x) \/ p = Len(x) + 1
    BY <1>1
  <1> QED BY <1>1, <1>4, <1>5, <1>6, Zenon DEF Acks

-----------------------------------------------------------------------------
(* One accumulator.                                                        *)

\* With one stage: what it has handed on, and what it has not.
Delivered == out \o wire[1]
Pending == queue[1] \o wire[0]

\* What was handed on is in order.
Ordered == AllRows(Delivered) = [i \in 1 .. Rows(Delivered) |-> i]

\* The inductive invariant with one stage: what was handed on acks only what it
\* has written, and what was not has its Markers behind the rows that they cover.
AckInv ==
    /\ Ordered
    /\ Acks(covers, Delivered)
    /\ pc[1] # "failed" => Behind(covers, Pending, Rows(Delivered))

\* The types with one stage.
LEMMA OneStageTypes ==
    ASSUME Stages = 1, AccTypes
    PROVE  /\ out \in Seq(Batches) /\ wire[0] \in Seq(Batches) /\ wire[1] \in Seq(Batches)
           /\ queue[1] \in Seq(Batches) /\ Delivered \in Seq(Batches) /\ Pending \in Seq(Batches)
           /\ 1 \in Stage /\ Rows(Delivered) \in Nat /\ Stage = {1}
  <1>1. 1 \in Stage /\ 0 \in 0 .. Stages /\ 1 \in 0 .. Stages /\ Stage = {1}
    BY DEF Stage
  <1>2. /\ out \in Seq(Batches) /\ wire[0] \in Seq(Batches) /\ wire[1] \in Seq(Batches)
        /\ queue[1] \in Seq(Batches)
    BY <1>1 DEF AccTypes
  <1>3. Delivered \in Seq(Batches) /\ Pending \in Seq(Batches)
    BY <1>2, ConcatProperties DEF Delivered, Pending
  <1>4. Listed(Delivered)
    BY <1>3, BatchesListed
  <1> QED BY <1>1, <1>2, <1>3, <1>4 DEF Listed

\* With one stage, what is behind the source is what the stage has handed on, and
\* then what it has not.
LEMMA OneStageFlight ==
    ASSUME Stages = 1, AccTypes
    PROVE  InFlight = Delivered \o Pending
  <1>1. PICK o \in Seq(Batches), w \in Seq(Batches), q \in Seq(Batches), v \in Seq(Batches) :
           o = out /\ w = wire[1] /\ q = queue[1] /\ v = wire[0]
    BY OneStageTypes
  <1>2. PICK wq \in Seq(Batches) : wq = w \o q
    BY <1>1, ConcatProperties
  <1>3. [i \in 1 .. Stages |-> wire[Stages + 1 - i] \o queue[Stages + 1 - i]] = <<wq>>
    <2>1. \A i \in 1 .. 1 : i = 1 /\ 1 + 1 - i = 1
      OBVIOUS
    <2>2. [i \in 1 .. 1 |-> wire[1 + 1 - i] \o queue[1 + 1 - i]] = [i \in 1 .. 1 |-> wq]
      BY <1>1, <1>2, <2>1
    <2>3. [i \in 1 .. 1 |-> wq] = <<wq>>
      OBVIOUS
    <2> QED BY <2>2, <2>3
  <1>4. FlattenSeq(<<wq>>) = wq
    BY <1>2, FlattenOne
  <1>5. InFlight = (o \o wq) \o v
    BY <1>1, <1>3, <1>4 DEF InFlight
  <1>6. Assoc(o, wq, v) /\ Groups(o, w, q, v)
    BY <1>1, <1>2, Associative, Grouped
  <1> QED BY <1>1, <1>2, <1>5, <1>6 DEF Assoc, Groups, Delivered, Pending

\* A beginning of the numbers is a beginning.
LEMMA CountBegins ==
    ASSUME NEW x \in Seq(1 .. MaxRow), NEW y \in Seq(1 .. MaxRow), NEW n \in Nat,
           x \o y = [i \in 1 .. n |-> i]
    PROVE  x = [i \in 1 .. Len(x) |-> i] /\ Len(x) + Len(y) = n
  <1>1. /\ Len(x \o y) = Len(x) + Len(y) /\ Len(x) \in Nat /\ Len(y) \in Nat
        /\ \A i \in 1 .. Len(x) + Len(y) : (x \o y)[i] = IF i <= Len(x) THEN x[i] ELSE y[i - Len(x)]
    BY ONLY x \in Seq(1 .. MaxRow), y \in Seq(1 .. MaxRow), ConcatProperties
  <1>2. Len([i \in 1 .. n |-> i]) = n
    OBVIOUS
  <1>3. Len(x) + Len(y) = n
    BY <1>1, <1>2
  <1>4. \A i \in 1 .. Len(x) : x[i] = i
    <2> TAKE i \in 1 .. Len(x)
    <2>1. i \in 1 .. Len(x) + Len(y) /\ i <= Len(x) /\ i \in 1 .. n
      BY <1>1, <1>3
    <2>2. (x \o y)[i] = i
      BY <2>1
    <2> QED BY <1>1, <2>1, <2>2
  <1>5. x = [i \in 1 .. Len(x) |-> x[i]]
    OBVIOUS
  <1> QED BY <1>3, <1>4, <1>5

\* What is handed on is in order.
LEMMA DeliveredInOrder ==
    Stages = 1 /\ AccInv /\ pc[1] # "failed" =>
        Ordered /\ rows = Rows(Delivered) + Rows(queue[1]) + Rows(wire[0])
  <1> SUFFICES ASSUME Stages = 1, AccInv, pc[1] # "failed"
               PROVE  Ordered /\ rows = Rows(Delivered) + Rows(queue[1]) + Rows(wire[0])
    OBVIOUS
  <1>1. AccTypes /\ Complete /\ rows \in Nat
    <2>1. AccTypes
      BY DEF AccInv
    <2>2. \A s \in Stage : pc[s] # "failed"
      BY <2>1, OneStageTypes
    <2> QED BY <2>1, <2>2 DEF AccInv, AccTypes
  <1>2. PICK d \in Seq(Batches), p \in Seq(Batches), q \in Seq(Batches), v \in Seq(Batches) :
           d = Delivered /\ p = Pending /\ q = queue[1] /\ v = wire[0]
    BY <1>1, OneStageTypes
  <1>3. Joined(d, p) /\ Listed(d) /\ Listed(p) /\ Joined(q, v) /\ Listed(q) /\ Listed(v)
    BY <1>2, BatchesJoined, BatchesListed
  <1>4. AllRows(d) \o AllRows(p) = [i \in 1 .. rows |-> i]
    BY <1>1, <1>2, <1>3, OneStageFlight DEF Complete, Joined
  <1>5. AllRows(d) = [i \in 1 .. Len(AllRows(d)) |-> i] /\ Len(AllRows(d)) + Len(AllRows(p)) = rows
    <2>1. AllRows(d) \in Seq(1 .. MaxRow) /\ AllRows(p) \in Seq(1 .. MaxRow)
      BY <1>3 DEF Listed
    <2> QED BY <1>1, <1>4, <2>1, CountBegins
  <1>6. Ordered
    BY <1>2, <1>5 DEF Ordered, Rows
  <1>7. rows = Rows(d) + Rows(p)
    BY <1>5 DEF Rows
  <1>8. Rows(p) = Rows(q) + Rows(v) /\ Rows(d) \in Nat /\ Rows(q) \in Nat /\ Rows(v) \in Nat
    BY <1>2, <1>3 DEF Joined, Listed, Pending
  <1>9. rows = Rows(d) + Rows(q) + Rows(v)
    BY <1>7, <1>8
  <1> QED BY <1>2, <1>6, <1>9, Zenon

\* The same after a step.
LEMMA DeliveredInOrderNext ==
    (Stages = 1 /\ AccInv /\ pc[1] # "failed")' => Ordered'
  BY DeliveredInOrder, PTL

\* A step of the stage keeps every Marker behind the rows that it covers.
LEMMA WorksAcks ==
    ASSUME Stages = 1, AccTypes, AckInv, Works(1), pc[1] # "failed", UNCHANGED <<covers, out>>
    PROVE  Acks(covers, Delivered)' /\ Behind(covers, Pending, Rows(Delivered))'
  <1>0. /\ out \in Seq(Batches) /\ wire[0] \in Seq(Batches) /\ wire[1] \in Seq(Batches)
        /\ queue[1] \in Seq(Batches) /\ Delivered \in Seq(Batches) /\ Pending \in Seq(Batches)
        /\ 1 \in Stage /\ Rows(Delivered) \in Nat
    BY OneStageTypes
  <1>00. /\ 0 \in 0 .. Stages /\ 1 \in 0 .. Stages /\ 1 - 1 = 0 /\ MaxRow \in Nat
         /\ queue \in [Stage -> Seq(Batches)] /\ wire \in [0 .. Stages -> Seq(Batches)]
         /\ covers \in Seq(0 .. MaxRow)
    BY AccumulatorAssumption DEF AccTypes
  <1>1. PICK x \in Seq(Batches), taken \in [0 .. Stages -> Seq(Batches)] :
           /\ Taken(1, x, taken)
           /\ \/ Keeps(1, x, taken)
              \/ /\ wire[1] = <<>> /\ x # <<>>
                 /\ \E bs \in Seq(Batches), left \in Seq(Batches), next \in {"read", "drain", "end"} :
                       Sent(1, x, taken, next, bs, left)
    BY DEF Works
  <1>2. PICK base \in Nat, y \in Seq(Batches) : base = Rows(Delivered) /\ y = taken[0]
    BY <1>0, <1>00, <1>1
  <1>3. taken[1] = wire[1]
    BY <1>00, <1>1 DEF Taken
  <1>4. Behind(covers, x \o y, base)
    <2>1. Behind(covers, queue[1] \o wire[0], base)
      BY <1>2 DEF AckInv, Pending
    <2>2. CASE x = queue[1] /\ taken = wire
      BY <1>2, <2>1, <2>2
    <2>3. CASE /\ wire[1 - 1] # <<>>
               /\ x = Pushed(queue[1], wire[1 - 1][1])
               /\ taken = [wire EXCEPT ![1 - 1] = <<>>]
      <3>1. PICK b \in Batches : b = wire[0][1] /\ wire[0] = <<b>>
        BY <1>00, <2>3, WireBatch
      <3>2. y = <<>> /\ x = Pushed(queue[1], b)
        BY <1>00, <1>2, <2>3, <3>1
      <3>3. Behind(covers, Pushed(queue[1], b), base)
        BY <1>0, <1>2, <2>1, <3>1, BehindPushed
      <3>4. x \o <<>> = x
        BY <1>1, ConcatEmptySeq
      <3> QED BY <3>2, <3>3, <3>4
    <2> QED BY <1>1, <2>2, <2>3 DEF Taken
  <1>5. CASE Keeps(1, x, taken)
    <2>1. queue'[1] = x /\ wire'[1] = wire[1] /\ wire'[0] = y
      BY <1>0, <1>00, <1>2, <1>3, <1>5 DEF Keeps
    <2>2. Delivered' = Delivered /\ Pending' = x \o y
      BY <2>1 DEF Delivered, Pending
    <2> QED BY <1>2, <1>4, <2>2, Zenon DEF AckInv
  <1>6. ASSUME wire[1] = <<>>, NEW bs \in Seq(Batches), NEW left \in Seq(Batches), NEW next,
               Sent(1, x, taken, next, bs, left)
        PROVE  Acks(covers, Delivered)' /\ Behind(covers, Pending, Rows(Delivered))'
    <2>1. Cut(x, bs, left) /\ queue' = [queue EXCEPT ![1] = left] /\ wire' = [taken EXCEPT ![1] = <<Merge(bs)>>]
      BY <1>6 DEF Sent
    <2>2. PICK m \in Batches : m = Merge(bs) /\ m.rows = AllRows(bs) /\ m.marks = AllMarks(bs)
      BY <1>6, MergeType
    <2>3. queue'[1] = left /\ wire'[1] = <<m>> /\ wire'[0] = y
      BY <1>0, <1>00, <1>1, <1>2, <2>1, <2>2
    <2>4. Delivered = out
      <3>1. out \o <<>> = out
        BY <1>0, ConcatEmptySeq
      <3> QED BY <1>6, <3>1 DEF Delivered
    <2>5. Delivered' = Append(out, m)
      <3>1. Append(out, m) = out \o <<m>>
        BY <1>0, <2>2, AppendIsConcat
      <3> QED BY <2>3, <3>1 DEF Delivered
    <2>6. Behind(covers, x, base) /\ Behind(covers, y, base + Rows(x))
      BY <1>1, <1>2, <1>4, BehindConcat
    <2>7. Behind(covers, bs, base) /\ Behind(covers, left, base + Rows(bs))
      BY <1>1, <1>2, <1>6, <2>1, <2>6, BehindCut
    <2>8. Listed(bs) /\ Listed(left) /\ Rows(x) = Rows(bs) + Rows(left)
      <3>1. PICK sm \in Seq(Batches) : sm = <<Merge(bs)>>
        BY <1>6, MergeType
      <3>2. Same(x, sm \o left) /\ Joined(sm, left) /\ Single(m)
        BY <1>1, <1>6, <2>1, <2>2, <3>1, CutSame, BatchesJoined, BatchSingle
      <3>3. Rows(x) = Rows(sm \o left) /\ Rows(sm) = Len(m.rows) /\ Len(m.rows) = Rows(bs)
        BY <2>2, <3>1, <3>2 DEF Same, Rows, Single
      <3>4. Rows(sm \o left) = Rows(sm) + Rows(left)
        BY <3>2 DEF Joined
      <3>5. Listed(bs) /\ Listed(left)
        BY <1>6, BatchesListed
      <3> QED BY <3>3, <3>4, <3>5, Zenon
    <2>9. PICK k \in Nat, l \in Nat : k = Rows(bs) /\ l = Rows(left) /\ Rows(x) = k + l
      BY <2>8, Zenon DEF Listed
    <2>10. base + k \in Nat /\ base + (k + l) = (base + k) + l
      BY ONLY base \in Nat, k \in Nat, l \in Nat
    <2>11. Behind(covers, left \o y, base + k)
      <3>1. PICK h \in Nat : h = base + k
        BY <2>10
      <3>2. Behind(covers, left, h) /\ Behind(covers, y, h + Rows(left))
        BY <2>6, <2>7, <2>9, <2>10, <3>1, Zenon
      <3>3. Behind(covers, left \o y, h) <=> Behind(covers, left, h) /\ Behind(covers, y, h + Rows(left))
        BY <1>2, <1>6, <3>1, BehindConcat
      <3> QED BY <3>1, <3>2, <3>3
    <2>12. Covered(covers, m.marks, base + k)
      <3>1. Covered(covers, AllMarks(bs), base + Rows(bs))
        BY <1>00, <1>2, <1>6, <2>7, BehindMerged
      <3> QED BY <2>2, <2>9, <3>1, Zenon
    <2>13. Len(m.rows) = k /\ Rows(out) = base
      BY <1>2, <2>2, <2>4, <2>9 DEF Rows
    <2>14. Acks(covers, Append(out, m))
      <3>1. Acks(covers, out)
        BY <2>4 DEF AckInv
      <3>2. Covered(covers, m.marks, Rows(out) + Len(m.rows))
        BY <2>12, <2>13, Zenon
      <3> QED BY <1>0, <2>2, <3>1, <3>2, AcksAppend
    <2>15. Rows(Append(out, m)) = base + k
      <3>1. PICK sm \in Seq(Batches) : sm = <<m>>
        <4>1. <<m>> \in Seq(Batches)
          BY <2>2
        <4> QED BY <4>1
      <3>2. Joined(out, sm) /\ Single(m)
        BY <1>0, <2>2, <3>1, BatchesJoined, BatchSingle
      <3>3. Append(out, m) = out \o sm
        BY <1>0, <2>2, <3>1, AppendIsConcat
      <3>4. Rows(out \o sm) = Rows(out) + Rows(sm) /\ Rows(sm) = Len(m.rows)
        BY <3>1, <3>2 DEF Joined, Single
      <3> QED BY <2>13, <3>3, <3>4, Zenon
    <2>16. Pending' = left \o y /\ covers' = covers
      BY <2>3 DEF Pending
    <2> QED BY <2>5, <2>11, <2>14, <2>15, <2>16, Zenon
  <1> QED BY <1>1, <1>5, <1>6

\* The Markers of a new batch cover the rows read before it, which are all in
\* batches before it.
LEMMA ProduceAcks ==
    ASSUME Stages = 1, AccInv, AckInv,
           NEW k \in 0 .. MaxBatch, NEW e \in 0 .. MaxEpoch, Produce(k, e)
    PROVE  /\ Delivered' = Delivered /\ Acks(covers', Delivered)
           /\ pc[1] # "failed" => Behind(covers', Pending', Rows(Delivered))
  <1>1. AccTypes
    BY DEF AccInv
  <1>2. /\ out \in Seq(Batches) /\ wire[0] \in Seq(Batches) /\ wire[1] \in Seq(Batches)
        /\ queue[1] \in Seq(Batches) /\ Rows(Delivered) \in Nat
    BY <1>1, OneStageTypes
  <1>3. PICK n \in Nat : n = Len(covers) /\ DOMAIN covers = 1 .. n
    BY <1>1 DEF AccTypes
  <1>4. PICK b \in Batches :
           /\ b.marks = [i \in 1 .. e |-> n + i]
           /\ wire[0] = <<>> /\ wire' = [wire EXCEPT ![0] = <<b>>]
           /\ DOMAIN covers' = 1 .. n + e
           /\ \A i \in 1 .. n + e : covers'[i] = IF i <= n THEN covers[i] ELSE rows
           /\ queue' = queue /\ out' = out
    <2> DEFINE b == Batch([i \in 1 .. k |-> rows + i], [i \in 1 .. e |-> n + i])
    <2>1. /\ b \in Batches
          /\ wire[0] = <<>> /\ wire' = [wire EXCEPT ![0] = <<b>>]
          /\ covers' \in Seq(0 .. MaxRow) /\ Len(covers') = n + e
          /\ \A i \in 1 .. n + e : covers'[i] = IF i <= n THEN covers[i] ELSE rows
          /\ queue' = queue /\ out' = out
      BY <1>1, <1>3, Produced, Zenon
    <2>2. b.marks = [i \in 1 .. e |-> n + i]
      BY DEF Batch
    <2>3. DOMAIN covers' = 1 .. n + e
      BY <2>1
    <2> QED BY <2>1, <2>2, <2>3
  <1>5. e \in Nat /\ rows \in Nat /\ MaxEpoch \in Nat
    BY <1>1, AccumulatorAssumption DEF AccTypes
  <1>6. wire'[0] = <<b>> /\ wire'[1] = wire[1]
    <2>1. 0 \in 0 .. Stages /\ 1 \in 0 .. Stages
      OBVIOUS
    <2> QED BY <1>1, <1>4, <2>1 DEF AccTypes
  <1>7. Delivered' = Delivered /\ Pending' = queue[1] \o <<b>>
    BY <1>4, <1>6 DEF Delivered, Pending
  <1>8. Extends(covers, covers')
    <2>1. \A i \in 1 .. n : i \in 1 .. n + e /\ i <= n
      BY <1>3, <1>5
    <2> QED BY <1>3, <1>4, <2>1 DEF Extends
  <1>9. Acks(covers', Delivered)
    BY <1>8, AcksExtends DEF AckInv
  <1>10. ASSUME pc[1] # "failed"
         PROVE  Behind(covers', Pending', Rows(Delivered))
    <2>1. PICK base \in Nat : base = Rows(Delivered)
      BY <1>2
    <2>2. Behind(covers, queue[1], base)
      <3>1. queue[1] \o <<>> = queue[1]
        BY <1>2, ConcatEmptySeq
      <3> QED BY <1>4, <1>10, <2>1, <3>1 DEF AckInv, Pending
    <2>3. Behind(covers', queue[1], base)
      BY <1>8, <2>2, BehindExtends
    <2>4. PICK q \in Nat : q = Rows(queue[1])
      <3>1. Listed(queue[1])
        BY <1>2, BatchesListed
      <3> QED BY <3>1 DEF Listed
    <2>5. rows = base + q
      <3>1. rows = Rows(Delivered) + Rows(queue[1]) + Rows(wire[0])
        BY <1>10, DeliveredInOrder
      <3>2. Rows(wire[0]) = 0
        BY <1>4, NoBatches
      <3> QED BY <2>1, <2>4, <3>1, <3>2
    <2>6. Covered(covers', b.marks, base + q)
      <3> SUFFICES ASSUME NEW f \in ToSet(b.marks)
                   PROVE  f \in DOMAIN covers' /\ covers'[f] <= base + q
        BY DEF Covered
      <3>1. PICK i \in 1 .. e : f = n + i
        BY <1>4 DEF ToSet
      <3>2. f \in 1 .. n + e /\ ~(f <= n)
        BY <1>3, <1>5, <3>1
      <3>3. covers'[f] = rows
        BY <1>4, <3>2
      <3> QED BY <1>4, <1>5, <2>5, <3>2, <3>3
    <2>7. PICK h \in Nat : h = base + q
      BY <2>1, <2>4
    <2>8. PICK sb \in Seq(Batches) : sb = <<b>>
      <3>1. <<b>> \in Seq(Batches)
        BY <1>4
      <3> QED BY <3>1
    <2>9. Behind(covers', sb, h)
      <3>1. Behind(covers', <<b>>, h) <=> Covered(covers', b.marks, h)
        BY <1>4, <2>7, BehindOne
      <3> QED BY <2>6, <2>7, <2>8, <3>1
    <2>10. Behind(covers', queue[1] \o sb, base)
      <3>1. Behind(covers', queue[1] \o sb, base) <=> Behind(covers', queue[1], base) /\ Behind(covers', sb, base + Rows(queue[1]))
        BY <1>2, <2>1, <2>8, BehindConcat
      <3> QED BY <2>3, <2>4, <2>7, <2>9, <3>1, Zenon
    <2> QED BY <1>7, <2>1, <2>8, <2>10
  <1> QED BY <1>7, <1>9, <1>10

\* The sink's write moves a batch that was handed on already.
LEMMA WriteAcks ==
    ASSUME Stages = 1, AccTypes, Write
    PROVE  Delivered' = Delivered /\ Pending' = Pending /\ covers' = covers /\ pc' = pc
  <1>0. 0 \in 0 .. Stages /\ 1 \in 0 .. Stages
    OBVIOUS
  <1>1. PICK b \in Batches : wire[1] = <<b>> /\ b = wire[1][1]
    BY <1>0, WireBatch DEF Write
  <1>2. /\ out' = Append(out, b) /\ wire'[1] = <<>> /\ wire'[0] = wire[0] /\ queue' = queue
        /\ out \in Seq(Batches) /\ covers' = covers /\ pc' = pc
    BY <1>0, <1>1 DEF Write, AccTypes
  <1>3. Append(out, b) = out \o <<b>> /\ Append(out, b) \o <<>> = Append(out, b)
    <2>1. Append(out, b) \in Seq(Batches)
      BY <1>1, <1>2, AppendProperties
    <2> QED BY <1>1, <1>2, <2>1, AppendIsConcat, ConcatEmptySeq
  <1> QED BY <1>1, <1>2, <1>3, Zenon DEF Delivered, Pending

\* All of it.
SingleStage == Stages = 1 /\ AccInv /\ AckInv

\* A pipeline with one accumulator starts with no Marker under way.
LEMMA SingleStageInit == Init /\ Stages = 1 => SingleStage
  <1> SUFFICES ASSUME Init, Stages = 1
               PROVE  SingleStage
    OBVIOUS
  <1>1. AccInv
    BY AccInit
  <1>2. 1 \in Stage /\ 0 \in 0 .. Stages /\ 1 \in 0 .. Stages
    BY DEF Stage
  <1>3. Delivered = <<>> /\ Pending = <<>> /\ pc[1] # "failed"
    <2>1. out = <<>> /\ wire[1] = <<>> /\ wire[0] = <<>> /\ queue[1] = <<>> /\ pc[1] = "read"
      BY <1>2 DEF Init
    <2>2. <<>> \o <<>> = <<>>
      OBVIOUS
    <2> QED BY <2>1, <2>2 DEF Delivered, Pending
  <1>4. Ordered
    BY <1>1, <1>3, DeliveredInOrder
  <1>5. Acks(covers, Delivered) /\ Behind(covers, Pending, Rows(Delivered))
    BY <1>3 DEF Acks, Behind
  <1> QED BY <1>1, <1>4, <1>5 DEF SingleStage, AckInv

\* Every step keeps the Markers behind the rows that they cover.
LEMMA SingleStageStep == SingleStage /\ [Next]_vars => SingleStage'
  <1> SUFFICES ASSUME SingleStage, [Next]_vars
               PROVE  SingleStage'
    OBVIOUS
  <1>1. Stages = 1 /\ AccInv /\ AckInv /\ AccTypes
    BY DEF SingleStage, AccInv
  <1>2. AccInv'
    BY <1>1, AccStep
  <1>3. Stage = {1}
    BY <1>1, OneStageTypes
  <1>4. pc'[1] # "failed" => Ordered'
    BY <1>1, <1>2, DeliveredInOrderNext
  <1>5. ASSUME Delivered' = Delivered, Acks(covers', Delivered),
               pc'[1] # "failed" => Behind(covers', Pending', Rows(Delivered))
        PROVE  SingleStage'
    BY <1>1, <1>2, <1>5 DEF SingleStage, AckInv, Ordered
  <1>6. ASSUME UNCHANGED <<out, queue, wire, covers>>, pc' = pc
        PROVE  SingleStage'
    <2>1. Delivered' = Delivered /\ Pending' = Pending
      BY <1>6 DEF Delivered, Pending
    <2> QED BY <1>1, <1>5, <1>6, <2>1 DEF AckInv
  <1>7. ASSUME NEW k \in 0 .. MaxBatch, NEW e \in 0 .. MaxEpoch, Produce(k, e)
        PROVE  SingleStage'
    <2>1. pc' = pc
      BY <1>7 DEF Produce
    <2> QED BY <1>1, <1>5, <1>7, <2>1, ProduceAcks
  <1>8. ASSUME NEW how, SourceStops(how)
        PROVE  SingleStage'
    BY <1>6, <1>8 DEF SourceStops
  <1>9. CASE Steps(1)
    <2>1. /\ Works(1) /\ pc[1] # "failed"
          /\ \E next \in {"read", "drain", "end", "done"} : pc' = [pc EXCEPT ![1] = next]
          /\ UNCHANGED <<size, timed, source, rows, covers, out>>
      BY <1>1, <1>3, <1>9, StepWorks
    <2>2. Acks(covers, Delivered)' /\ Behind(covers, Pending, Rows(Delivered))'
      BY <1>1, <2>1, WorksAcks
    <2>3. pc'[1] # "failed"
      BY <1>1, <1>3, <2>1 DEF AccTypes
    <2> QED BY <1>1, <1>2, <1>4, <2>2, <2>3 DEF SingleStage, AckInv
  <1>10. CASE ReadError(1)
    <2>1. UNCHANGED <<out, wire, covers>> /\ pc'[1] = "failed"
      BY <1>1, <1>3, <1>10 DEF ReadError, AccTypes
    <2>2. Delivered' = Delivered
      BY <2>1 DEF Delivered
    <2> QED BY <1>1, <1>5, <2>1, <2>2 DEF AckInv
  <1>11. CASE Write
    <2>1. Delivered' = Delivered /\ Pending' = Pending /\ covers' = covers /\ pc' = pc
      BY <1>1, <1>11, WriteAcks
    <2> QED BY <1>1, <1>5, <2>1 DEF AckInv
  <1>12. CASE UNCHANGED vars
    BY <1>6, <1>12 DEF vars
  <1>13. ASSUME NEW s \in Stage, Steps(s) \/ ReadError(s)
         PROVE  Steps(1) \/ ReadError(1)
    BY <1>3, <1>13
  <1> QED BY <1>7, <1>8, <1>9, <1>10, <1>11, <1>12, <1>13, Zenon DEF Next, StageStep, Steps, Finished

\* An element of a sequence of counts.
LEMMA CountAt ==
    ASSUME NEW n \in Nat, NEW c \in Seq(0 .. n), NEW h \in DOMAIN c
    PROVE  c[h] \in Nat
  <1>1. h \in 1 .. Len(c)
    OBVIOUS
  <1>2. PICK S : S = 0 .. n
    OBVIOUS
  <1>3. c \in Seq(S)
    BY <1>2
  <1>4. c[h] \in S
    BY <1>1, <1>3, ElementOfSeq, Zenon
  <1> QED BY <1>2, <1>4

\* A Marker that the sink has acked is in a batch of out; the rows it covers are
\* the first covers[e] of what was handed on, and those of out come first.
LEMMA SingleStageAcks == SingleStage => AckedIsWritten
  <1> SUFFICES ASSUME SingleStage, NEW i \in DOMAIN out, NEW e \in ToSet(out[i].marks),
                      NEW r \in 1 .. covers[e]
               PROVE  Written(r, i)
    BY DEF AckedIsWritten
  <1>1. Stages = 1 /\ AccTypes /\ AckInv
    BY DEF SingleStage, AccInv
  <1>2. PICK o \in Seq(Batches), w \in Seq(Batches), d \in Seq(Batches) :
           o = out /\ w = wire[1] /\ d = Delivered /\ d = o \o w /\ i \in 1 .. Len(o)
    <2>1. out \in Seq(Batches) /\ wire[1] \in Seq(Batches) /\ Delivered \in Seq(Batches)
      BY <1>1, OneStageTypes
    <2>2. DOMAIN out = 1 .. Len(out)
      BY <2>1
    <2> QED BY <2>1, <2>2, Zenon DEF Delivered
  <1>3. Len(o) \in Nat /\ Len(d) = Len(o) + Len(w) /\ Len(w) \in Nat /\ d[i] = o[i] /\ i \in 1 .. Len(d)
    <2>1. /\ Len(o \o w) = Len(o) + Len(w) /\ Len(o) \in Nat /\ Len(w) \in Nat
          /\ \A h \in 1 .. Len(o) + Len(w) : (o \o w)[h] = IF h <= Len(o) THEN o[h] ELSE w[h - Len(o)]
      BY ONLY o \in Seq(Batches), w \in Seq(Batches), ConcatProperties
    <2>2. i \in 1 .. Len(o) + Len(w) /\ i <= Len(o)
      BY <1>2, <2>1
    <2> QED BY <1>2, <2>1, <2>2
  <1>4. PICK z \in Seq(Batches) :
           z = SubSeq(o, 1, i) /\ Len(z) = i /\ z = SubSeq(d, 1, i) /\ \A p \in 1 .. i : z[p] = o[p]
    <2>1. i \in 0 .. Len(o) /\ 1 \in 1 .. Len(o)
      BY <1>2, <1>3
    <2>2. SubSeq(o, 1, i) \in Seq(Batches) /\ Len(SubSeq(o, 1, i)) = i
      BY <1>2, <2>1, SplitAt
    <2>3. SubSeq(d, 1, i) = SubSeq(o, 1, i)
      BY <1>2, <2>1, SubSeqOfConcat1
    <2>4. \A p \in 1 .. i : SubSeq(o, 1, i)[p] = o[p]
      BY <1>2, <1>3
    <2> QED BY <2>2, <2>3, <2>4
  <1>5. PICK t \in Seq(Batches) : d = z \o t
    <2>1. i \in 0 .. Len(d)
      BY <1>3
    <2>2. SubSeq(d, i + 1, Len(d)) \in Seq(Batches) /\ d = SubSeq(d, 1, i) \o SubSeq(d, i + 1, Len(d))
      BY <1>2, <2>1, SplitAt
    <2> QED BY <1>4, <2>2
  <1>6. covers[e] <= Rows(z) /\ Rows(z) \in Nat /\ covers[e] \in Nat
    <2>1. AcksAt(covers, d, i)
      BY <1>1, <1>2, <1>3 DEF AckInv, Acks
    <2>2. e \in DOMAIN covers /\ covers[e] <= Rows(z)
      BY <1>2, <1>3, <1>4, <2>1 DEF AcksAt, Covered
    <2>3. Listed(z)
      BY <1>4, BatchesListed
    <2>4. covers[e] \in Nat
      <3>1. covers \in Seq(0 .. MaxRow)
        BY <1>1 DEF AccTypes
      <3>2. MaxRow \in Nat
        BY AccumulatorAssumption DEF AccumulatorAssumption
      <3> QED BY <2>2, <3>1, <3>2, CountAt
    <2> QED BY <2>2, <2>3, <2>4 DEF Listed
  <1>7. r \in 1 .. Rows(z)
    BY <1>6
  <1>8. AllRows(z)[r] = r
    <2>1. Joined(z, t) /\ Listed(z) /\ Listed(t) /\ Listed(d)
      BY <1>2, <1>4, <1>5, BatchesJoined, BatchesListed
    <2>2. AllRows(z) \o AllRows(t) = [h \in 1 .. Rows(d) |-> h]
      BY <1>1, <1>2, <1>5, <2>1 DEF Joined, AckInv, Ordered
    <2>3. AllRows(z) \in Seq(1 .. MaxRow) /\ AllRows(t) \in Seq(1 .. MaxRow) /\ Rows(d) \in Nat
          /\ Rows(z) = Len(AllRows(z))
      BY <2>1 DEF Listed
    <2>4. AllRows(z) = [h \in 1 .. Len(AllRows(z)) |-> h]
      BY <2>2, <2>3, CountBegins
    <2> QED BY <1>7, <2>3, <2>4
  <1>9. PICK p \in 1 .. Len(z) : r \in ToSet(z[p].rows)
    BY <1>4, <1>7, <1>8, RowOfBatch
  <1> QED BY <1>2, <1>4, <1>9 DEF Written

\* With one accumulator, for any batch size and payloads: the sink acks a Marker
\* only when the rows read before it are written (the split keeps the Markers with
\* the first half, the merge with all of its rows, and an empty batch with Markers
\* is flushed or queued).  With two in series it does not hold:
\* AccumulatorsInSeries.cfg shows how.
THEOREM OneAccumulatorAcksWritten == Spec /\ Stages = 1 => []AckedIsWritten
  <1>1. Spec /\ Stages = 1 => []SingleStage
    BY SingleStageInit, SingleStageStep, PTL DEF Spec
  <1> QED BY <1>1, SingleStageAcks, PTL
=============================================================================
