--------------------------- MODULE AwsMergeProofs ---------------------------
(***************************************************************************)
(* What merging a profile into a file does, for every file, every profile  *)
(* and every number of lines.                                              *)
(***************************************************************************)
EXTENDS AwsMerge, SequenceTheorems, WellFoundedInduction, TLAPS

-----------------------------------------------------------------------------
(* Induction and recursion *)

LEMMA Least ==
    ASSUME NEW S \in SUBSET Nat, S # {}
    PROVE  \E m \in S : \A k \in S : m <= k
<1> DEFINE R == OpToRel(<, Nat)
<1>1. IsWellFoundedOn(R, Nat)
  BY NatLessThanWellFounded
<1>2. \A x, y \in Nat : <<x, y>> \in R <=> x < y
  BY DEF OpToRel
<1> HIDE DEF R
<1>3. PICK m \in S : \A k \in S : ~ (<<k, m>> \in R)
  BY <1>1, WFMin
<1>4. \A k \in S : ~ (k < m) /\ k \in Nat /\ m \in Nat
  BY <1>2, <1>3
<1>5. \A k \in S : m <= k
  BY <1>4
<1> QED BY <1>3, <1>5

LEMMA Induction ==
    ASSUME NEW S \in SUBSET Nat, 0 \in S, \A n \in S : n + 1 \in S
    PROVE  S = Nat
<1>1. ASSUME S # Nat PROVE FALSE
  <2>1. PICK m \in Nat \ S : \A k \in Nat \ S : m <= k
    BY <1>1, Least
  <2>2. m - 1 \in Nat /\ m - 1 \in S
    BY <2>1
  <2> QED BY <2>1, <2>2
<1> QED BY <1>1

\* A sequence is empty or one with an element appended, and that is all.
LEMMA SeqInduction ==
    ASSUME NEW D, NEW S, <<>> \in S,
           \A s \in Seq(D), d \in D : s \in S => Append(s, d) \in S
    PROVE  Seq(D) \subseteq S
<1> DEFINE T == {n \in Nat : \A s \in Seq(D) : Len(s) = n => s \in S}
<1>1. 0 \in T
  BY EmptySeq
<1>2. ASSUME NEW n \in T PROVE n + 1 \in T
  <2> SUFFICES ASSUME NEW s \in Seq(D), Len(s) = n + 1 PROVE s \in S
    OBVIOUS
  <2>1. PICK front \in Seq(D), last \in D : s = Append(front, last)
    BY SequenceEmptyOrAppend
  <2>2. Len(front) = n
    BY <2>1
  <2> QED BY <1>2, <2>1, <2>2
<1>3. T = Nat
  <2> HIDE DEF T
  <2>1. T \in SUBSET Nat
    BY DEF T
  <2> QED BY <1>1, <1>2, <2>1, Induction
<1> QED BY <1>3

\* What a recursion over 0..N with values in D computes.
IsRun(g, D, N, b, step) ==
    /\ g \in [0..N -> D]
    /\ g[0] = b
    /\ \A n \in 1..N : g[n] = step[n][g[n - 1]]

LEMMA RunExists ==
    ASSUME NEW D, NEW N \in Nat, NEW b \in D, NEW step \in [1..N -> [D -> D]]
    PROVE  \E g : IsRun(g, D, N, b, step)
<1> DEFINE S == {m \in Nat : m <= N => \E g : IsRun(g, D, m, b, step)}
<1>1. 0 \in S
  <2>1. IsRun([n \in 0..0 |-> b], D, 0, b, step)
    BY DEF IsRun
  <2> QED BY <2>1
<1>2. ASSUME NEW m \in S PROVE m + 1 \in S
  <2> SUFFICES ASSUME m + 1 <= N PROVE \E g : IsRun(g, D, m + 1, b, step)
    OBVIOUS
  <2>1. PICK g : IsRun(g, D, m, b, step)
    BY <1>2
  <2> DEFINE h == [n \in 0..(m + 1) |-> IF n = m + 1 THEN step[m + 1][g[m]] ELSE g[n]]
  <2>2. step[m + 1][g[m]] \in D
    BY <2>1 DEF IsRun
  <2>3. h \in [0..(m + 1) -> D] /\ h[0] = b
    BY <2>1, <2>2 DEF IsRun
  <2>4. ASSUME NEW n \in 1..(m + 1) PROVE h[n] = step[n][h[n - 1]]
    <3>1. CASE n = m + 1
      BY <3>1
    <3>2. CASE n \in 1..m
      <4>1. n # m + 1 /\ n - 1 # m + 1 /\ n - 1 \in 0..(m + 1) /\ n \in 0..(m + 1)
        BY <3>2
      <4>2. h[n] = g[n] /\ h[n - 1] = g[n - 1]
        BY <4>1
      <4> QED BY <2>1, <3>2, <4>2 DEF IsRun
    <3> QED BY <3>1, <3>2
  <2>5. IsRun(h, D, m + 1, b, step)
    BY <2>3, <2>4 DEF IsRun
  <2> QED BY <2>5
<1>3. S = Nat
  <2> HIDE DEF S
  <2>1. S \in SUBSET Nat
    BY DEF S
  <2> QED BY <1>1, <1>2, <2>1, Induction
<1>4. N \in S
  <2> HIDE DEF S
  <2> QED BY <1>3
<1>5. N <= N
  OBVIOUS
<1> QED BY <1>4, <1>5

\* A function that follows the recursion is the run of it.
Follows(f, D, N, b, step) ==
    /\ f[0] = b
    /\ \A n \in 1..N : f[n - 1] \in D => f[n] = step[n][f[n - 1]]

LEMMA RunUnique ==
    ASSUME NEW D, NEW N \in Nat, NEW b, NEW step, NEW g, IsRun(g, D, N, b, step),
           NEW f, Follows(f, D, N, b, step)
    PROVE  \A n \in 0..N : f[n] = g[n]
<1> DEFINE S == {m \in Nat : m <= N => f[m] = g[m]}
<1>1. 0 \in S
  BY DEF IsRun, Follows
<1>2. ASSUME NEW m \in S PROVE m + 1 \in S
  <2> SUFFICES ASSUME m + 1 <= N PROVE f[m + 1] = g[m + 1]
    OBVIOUS
  <2>1. f[m] = g[m] /\ g[m] \in D
    BY <1>2 DEF IsRun
  <2>2. m + 1 \in 1..N /\ (m + 1) - 1 = m
    OBVIOUS
  <2>3. f[m + 1] = step[m + 1][f[m]]
    BY <2>1, <2>2 DEF Follows
  <2>4. g[m + 1] = step[m + 1][g[m]]
    BY <2>2 DEF IsRun
  <2> QED BY <2>1, <2>3, <2>4
<1>3. S = Nat
  <2> HIDE DEF S
  <2>1. S \in SUBSET Nat
    BY DEF S
  <2> QED BY <1>1, <1>2, <2>1, Induction
<1> QED BY <1>3

-----------------------------------------------------------------------------
(* Joining sequences *)

\* FlattenSeq joins from the left.
LEMMA FlattenRun ==
    ASSUME NEW D, NEW ss \in Seq(Seq(D)), NEW g, g[0] = <<>>,
           \A n \in 1..Len(ss) : g[n] = g[n - 1] \o ss[n],
           \A n \in 0..Len(ss) : g[n] \in Seq(D)
    PROVE  FlattenSeq(ss) = g[Len(ss)]
<1> DEFINE N == Len(ss)
           IsFlatten(f) == f = [i \in 1..N |-> IF i = 1 THEN ss[i] ELSE f[i - 1] \o ss[i]]
<1>0. N \in Nat /\ \A n \in 1..N : ss[n] \in Seq(D)
  OBVIOUS
<1>1. CASE N = 0
  <2>1. ss = <<>>
    BY <1>1, EmptySeq
  <2> QED BY <1>1, <2>1 DEF FlattenSeq
<1>2. CASE N # 0
  <2> DEFINE h == [i \in 1..N |-> g[i]]
  <2>0. g[1] = ss[1]
    <3>1. 1 \in 1..N /\ 1 - 1 = 0
      BY <1>0, <1>2
    <3>2. g[1] = <<>> \o ss[1] /\ ss[1] \in Seq(D)
      BY <1>0, <3>1
    <3> QED BY <3>2, ConcatEmptySeq
  <2>1. IsFlatten(h)
    <3>1. ASSUME NEW i \in 1..N PROVE h[i] = (IF i = 1 THEN ss[i] ELSE h[i - 1] \o ss[i])
      <4>1. CASE i = 1
        BY <2>0, <4>1
      <4>2. CASE i # 1
        <5>1. i - 1 \in 1..N
          BY <1>0, <4>2
        <5> QED BY <4>2, <5>1
      <4> QED BY <4>1, <4>2
    <3> QED BY <3>1
  <2> DEFINE F == CHOOSE f : IsFlatten(f)
  <2>2. IsFlatten(F)
    BY <2>1, Zenon
  <2>3. \A i \in 1..N : F[i] = g[i]
    <3> HIDE DEF F
    <3> DEFINE S == {m \in Nat : m + 1 <= N => F[m + 1] = g[m + 1]}
    <3>1. 0 \in S
      <4>1. F[1] = ss[1]
        BY <1>2, <2>2
      <4> QED BY <2>0, <4>1
    <3>2. ASSUME NEW m \in S PROVE m + 1 \in S
      <4> SUFFICES ASSUME (m + 1) + 1 <= N PROVE F[(m + 1) + 1] = g[(m + 1) + 1]
        OBVIOUS
      <4> DEFINE n == (m + 1) + 1
      <4>1. n \in 1..N /\ n # 1 /\ n - 1 = m + 1 /\ m + 1 <= N
        OBVIOUS
      <4>2. F[n] = F[n - 1] \o ss[n]
        BY <2>2, <4>1
      <4>3. F[m + 1] = g[m + 1]
        BY <3>2, <4>1
      <4>4. g[n] = g[n - 1] \o ss[n]
        BY <4>1
      <4> QED BY <4>1, <4>2, <4>3, <4>4
    <3>3. S = Nat
      <4> HIDE DEF S
      <4>1. S \in SUBSET Nat
        BY DEF S
      <4> QED BY <3>1, <3>2, <4>1, Induction
    <3> QED
      <4> SUFFICES ASSUME NEW i \in 1..N PROVE F[i] = g[i]
        OBVIOUS
      <4>1. i - 1 \in Nat /\ (i - 1) + 1 = i
        BY <1>0
      <4>2. i - 1 \in S
        <5> HIDE DEF S
        <5> QED BY <3>3, <4>1
      <4> QED BY <1>0, <4>1, <4>2
  <2>4. FlattenSeq(ss) = F[N]
    BY <1>2 DEF FlattenSeq
  <2>5. N \in 1..N
    BY <1>2
  <2> QED BY <2>3, <2>4, <2>5
<1> QED BY <1>1, <1>2

FlattenStep(D, ss) == [n \in 1..Len(ss) |-> [s \in Seq(D) |-> s \o ss[n]]]

LEMMA FlattenEmpty == FlattenSeq(<<>>) = <<>>
BY DEF FlattenSeq

LEMMA FlattenAppend ==
    ASSUME NEW D, NEW ss \in Seq(Seq(D)), NEW s \in Seq(D)
    PROVE  /\ FlattenSeq(ss) \in Seq(D)
           /\ FlattenSeq(Append(ss, s)) = FlattenSeq(ss) \o s
<1> DEFINE tt == Append(ss, s)
           N == Len(ss)
<1>1. tt \in Seq(Seq(D)) /\ Len(tt) = N + 1 /\ tt[N + 1] = s /\ N \in Nat
      /\ \A n \in 1..N : tt[n] = ss[n]
  OBVIOUS
<1>2. PICK g : IsRun(g, Seq(D), N + 1, <<>>, FlattenStep(D, tt))
  <2>1. FlattenStep(D, tt) \in [1..(N + 1) -> [Seq(D) -> Seq(D)]]
    BY <1>1 DEF FlattenStep
  <2>2. <<>> \in Seq(D) /\ N + 1 \in Nat
    BY <1>1
  <2> HIDE DEF tt
  <2> QED BY <2>1, <2>2, RunExists
<1> HIDE DEF tt, N
<1>3. \A n \in 1..(N + 1) : g[n] = g[n - 1] \o tt[n]
  <2> SUFFICES ASSUME NEW n \in 1..(N + 1) PROVE g[n] = g[n - 1] \o tt[n]
    OBVIOUS
  <2>1. g[n - 1] \in Seq(D)
    BY <1>1, <1>2 DEF IsRun
  <2>2. g[n] = FlattenStep(D, tt)[n][g[n - 1]]
    BY <1>2 DEF IsRun
  <2> QED BY <1>1, <2>1, <2>2 DEF FlattenStep
<1>4. \A n \in 0..(N + 1) : g[n] \in Seq(D)
  BY <1>2 DEF IsRun
<1>5. g[0] = <<>>
  BY <1>2 DEF IsRun
<1>6. FlattenSeq(tt) = g[N + 1]
  BY <1>1, <1>3, <1>4, <1>5, FlattenRun
<1>7. FlattenSeq(ss) = g[N]
  <2>1. ASSUME NEW n \in 1..N PROVE g[n] = g[n - 1] \o ss[n]
    <3>1. n \in 1..(N + 1)
      BY <1>1
    <3> QED BY <1>1, <1>3, <3>1
  <2>2. \A n \in 0..N : g[n] \in Seq(D)
    BY <1>1, <1>4
  <2> QED BY <1>5, <2>1, <2>2, FlattenRun DEF N
<1>8. N + 1 \in 1..(N + 1) /\ (N + 1) - 1 = N /\ N \in 0..(N + 1)
  BY <1>1
<1> QED BY <1>1, <1>3, <1>4, <1>6, <1>7, <1>8 DEF tt

-----------------------------------------------------------------------------
(* The blocks of a text *)

BlockLists == Seq(Seq(Lines)) \ {<<>>}

LEMMA AddLineType ==
    ASSUME NEW bs \in BlockLists, NEW l \in Lines
    PROVE  AddLine(bs, l) \in BlockLists
<1>1. <<l>> \in Seq(Lines)
  OBVIOUS
<1>2. Append(bs, <<l>>) \in BlockLists
  BY <1>1 DEF BlockLists
<1>3. Len(bs) \in 1..Len(bs) /\ bs[Len(bs)] \in Seq(Lines)
  BY DEF BlockLists
<1>4. [bs EXCEPT ![Len(bs)] = Append(@, l)] \in BlockLists
  <2>1. Append(bs[Len(bs)], l) \in Seq(Lines)
    BY <1>3
  <2> DEFINE b == Append(bs[Len(bs)], l)
  <2> HIDE DEF b
  <2>2. b \in Seq(Lines)
    BY <2>1 DEF b
  <2>3. [bs EXCEPT ![Len(bs)] = b] \in Seq(Seq(Lines)) /\ Len([bs EXCEPT ![Len(bs)] = b]) = Len(bs)
    BY <1>3, <2>2, ExceptSeq DEF BlockLists
  <2> QED BY <1>3, <2>3 DEF BlockLists, b
<1> QED BY <1>2, <1>4 DEF AddLine

BlockStep(t) == [n \in 1..Len(t) |-> [bs \in BlockLists |-> AddLine(bs, t[n])]]

LEMMA BlockStepType ==
    ASSUME NEW t \in Seq(Lines)
    PROVE  BlockStep(t) \in [1..Len(t) -> [BlockLists -> BlockLists]]
<1>1. \A n \in 1..Len(t), bs \in BlockLists : AddLine(bs, t[n]) \in BlockLists
  BY AddLineType
<1> QED BY <1>1 DEF BlockStep

LEMMA BlocksRun ==
    ASSUME NEW t \in Seq(Lines), NEW g,
           IsRun(g, BlockLists, Len(t), << <<>> >>, BlockStep(t))
    PROVE  Blocks(t) = g[Len(t)]
<1> DEFINE N == Len(t)
           IsBlocks(f) == f = [n \in 0..N |-> IF n = 0 THEN << <<>> >> ELSE AddLine(f[n - 1], t[n])]
           F == CHOOSE f : IsBlocks(f)
<1>1. N \in Nat /\ N \in 0..N
  OBVIOUS
<1>2. IsBlocks(g)
  <2>1. ASSUME NEW n \in 1..N PROVE g[n] = AddLine(g[n - 1], t[n])
    <3>1. g[n - 1] \in BlockLists /\ g[n] = BlockStep(t)[n][g[n - 1]]
      BY <1>1 DEF IsRun
    <3> QED BY <3>1 DEF BlockStep
  <2>2. g = [n \in 0..N |-> g[n]]
    BY DEF IsRun
  <2>3. \A n \in 0..N : g[n] = IF n = 0 THEN << <<>> >> ELSE AddLine(g[n - 1], t[n])
    <3>1. g[0] = << <<>> >>
      BY DEF IsRun
    <3>2. \A n \in 0..N : n # 0 => n \in 1..N
      BY <1>1
    <3> QED BY <2>1, <3>1, <3>2
  <2> QED BY <2>2, <2>3
<1>3. IsBlocks(F)
  BY <1>2
<1> HIDE DEF F
<1>4. \A n \in 0..N : F[n] = g[n]
  <2>1. F[0] = << <<>> >>
    BY <1>1, <1>3
  <2>2. ASSUME NEW n \in 1..N, F[n - 1] \in BlockLists
        PROVE  F[n] = BlockStep(t)[n][F[n - 1]]
    <3>1. F[n] = AddLine(F[n - 1], t[n])
      BY <1>1, <1>3
    <3> QED BY <2>2, <3>1 DEF BlockStep
  <2>3. \A n \in 1..N : F[n - 1] \in BlockLists => F[n] = BlockStep(t)[n][F[n - 1]]
    BY <2>2
  <2> DEFINE b == << <<>> >>
             step == BlockStep(t)
  <2>4. N \in Nat /\ IsRun(g, BlockLists, N, b, step) /\ Follows(F, BlockLists, N, b, step)
    BY <1>1, <2>1, <2>3 DEF Follows
  <2> HIDE DEF N, b, step
  <2> QED BY <2>4, RunUnique
<1>5. Blocks(t) = F[N]
  BY DEF Blocks, F
<1> QED BY <1>1, <1>4, <1>5

LEMMA BlocksEmpty == Blocks(<<>>) = << <<>> >>
<1>1. <<>> \in Seq(Lines) /\ Len(<<>>) = 0 /\ << <<>> >> \in BlockLists
  BY DEF BlockLists
<1>2. PICK g : IsRun(g, BlockLists, Len(<<>>), << <<>> >>, BlockStep(<<>>))
  BY <1>1, BlockStepType, RunExists
<1> QED BY <1>1, <1>2, BlocksRun DEF IsRun

LEMMA BlocksAppend ==
    ASSUME NEW t \in Seq(Lines), NEW l \in Lines
    PROVE  /\ Blocks(t) \in BlockLists
           /\ Blocks(Append(t, l)) = AddLine(Blocks(t), l)
<1> DEFINE u == Append(t, l)
           N == Len(t)
<1>1. u \in Seq(Lines) /\ Len(u) = N + 1 /\ u[N + 1] = l /\ N \in Nat
      /\ \A n \in 1..N : u[n] = t[n]
  OBVIOUS
<1> HIDE DEF u
<1>2. PICK g : IsRun(g, BlockLists, Len(u), << <<>> >>, BlockStep(u))
  <2>1. << <<>> >> \in BlockLists
    BY DEF BlockLists
  <2>2. BlockStep(u) \in [1..Len(u) -> [BlockLists -> BlockLists]]
    BY <1>1, BlockStepType
  <2>3. Len(u) \in Nat
    BY <1>1
  <2> QED BY <2>1, <2>2, <2>3, RunExists
<1>3. Blocks(u) = g[N + 1]
  BY <1>1, <1>2, BlocksRun
<1>4. g \in [0..(N + 1) -> BlockLists]
  BY <1>1, <1>2 DEF IsRun
<1>5. ASSUME NEW n \in 1..(N + 1) PROVE g[n] = AddLine(g[n - 1], u[n])
  <2>1. g[n - 1] \in BlockLists /\ g[n] = BlockStep(u)[n][g[n - 1]]
    BY <1>1, <1>2, <1>4 DEF IsRun
  <2> QED BY <1>1, <2>1 DEF BlockStep
<1>6. Blocks(t) = g[N]
  <2> DEFINE h == [n \in 0..N |-> g[n]]
  <2>1. h \in [0..N -> BlockLists] /\ h[0] = << <<>> >>
    BY <1>1, <1>2, <1>4 DEF IsRun
  <2>2. ASSUME NEW n \in 1..N PROVE h[n] = BlockStep(t)[n][h[n - 1]]
    <3>1. n \in 1..(N + 1) /\ n - 1 \in 0..N /\ n \in 0..N
      BY <1>1
    <3>2. h[n] = g[n] /\ h[n - 1] = g[n - 1]
      BY <3>1
    <3>3. u[n] = t[n]
      BY <1>1
    <3>5. g[n - 1] \in BlockLists
      BY <1>4, <3>1
    <3>6. g[n] = AddLine(g[n - 1], u[n])
      BY <1>5, <3>1
    <3> HIDE DEF h
    <3>4. h[n] = AddLine(h[n - 1], t[n]) /\ h[n - 1] \in BlockLists
      BY <3>2, <3>3, <3>5, <3>6
    <3> QED BY <3>4 DEF BlockStep
  <2>3. IsRun(h, BlockLists, Len(t), << <<>> >>, BlockStep(t))
    BY <2>1, <2>2 DEF IsRun
  <2> HIDE DEF h
  <2>4. Blocks(t) = h[N]
    BY <2>3, BlocksRun
  <2> QED BY <1>1, <2>4 DEF h
<1>7. N + 1 \in 1..(N + 1) /\ (N + 1) - 1 = N /\ N \in 0..(N + 1)
  BY <1>1
<1> QED BY <1>1, <1>3, <1>4, <1>5, <1>6, <1>7 DEF u

NoHeader(b) == \A i \in DOMAIN b : ~IsHeader(b[i])
IsSection(b) == b # <<>> /\ IsHeader(b[1]) /\ \A i \in 2..Len(b) : ~IsHeader(b[i])

\* Lines before any header, and sections.
AreBlocks(bs) ==
    /\ bs \in BlockLists
    /\ NoHeader(bs[1])
    /\ \A j \in 2..Len(bs) : IsSection(bs[j])

LEMMA AddLineCases ==
    ASSUME NEW front \in Seq(Seq(Lines)), NEW last \in Seq(Lines), NEW l \in Lines
    PROVE  AddLine(Append(front, last), l) =
             IF IsHeader(l) THEN Append(Append(front, last), <<l>>)
             ELSE Append(front, Append(last, l))
<1> DEFINE bs == Append(front, last)
           b == Append(last, l)
           ext == [bs EXCEPT ![Len(bs)] = Append(@, l)]
<1>1. b \in Seq(Lines)
  OBVIOUS
<1>2. bs \in Seq(Seq(Lines)) /\ Len(bs) = Len(front) + 1 /\ bs[Len(bs)] = last /\ Len(front) \in Nat
  OBVIOUS
<1> HIDE DEF b
<1>3. ext = [bs EXCEPT ![Len(bs)] = b]
  BY <1>2 DEF b
<1>4. ext = Append(front, b)
  <2>1. [bs EXCEPT ![Len(bs)] = b] \in Seq(Seq(Lines)) /\ Len([bs EXCEPT ![Len(bs)] = b]) = Len(bs)
    <3> HIDE DEF bs
    <3>1. Len(bs) \in 1..Len(bs)
      BY <1>2
    <3> QED BY <1>1, <1>2, <3>1, ExceptSeq
  <2>2. Append(front, b) \in Seq(Seq(Lines)) /\ Len(Append(front, b)) = Len(bs)
    BY <1>1
  <2>3. ASSUME NEW i \in 1..Len(bs) PROVE [bs EXCEPT ![Len(bs)] = b][i] = Append(front, b)[i]
    <3>1. Append(front, b)[Len(front) + 1] = b
          /\ \A k \in 1..Len(front) : Append(front, b)[k] = front[k] /\ bs[k] = front[k]
      BY <1>1
    <3> HIDE DEF bs
    <3>2. [bs EXCEPT ![Len(bs)] = b][i] = IF i = Len(bs) THEN b ELSE bs[i]
      BY <1>2
    <3>3. i = Len(front) + 1 \/ i \in 1..Len(front)
      BY <1>2
    <3>4. CASE i = Len(front) + 1
      BY <1>2, <3>1, <3>2, <3>4
    <3>5. CASE i \in 1..Len(front)
      <4>1. i # Len(bs)
        BY <1>2, <3>5
      <4> QED BY <3>1, <3>2, <3>5, <4>1
    <3> QED BY <3>3, <3>4, <3>5
  <2> DEFINE x == [bs EXCEPT ![Len(bs)] = b]
             y == Append(front, b)
  <2>4. x \in Seq(Seq(Lines)) /\ y \in Seq(Seq(Lines)) /\ Len(x) = Len(y)
        /\ \A i \in 1..Len(x) : x[i] = y[i]
    <3> HIDE DEF bs
    <3> QED BY <2>1, <2>2, <2>3
  <2>5. x = y
    <3> HIDE DEF x, y
    <3> QED BY <2>4, SeqEqual
  <2> HIDE DEF ext, bs
  <2> QED BY <1>3, <2>5
<1> QED BY <1>4 DEF AddLine, b

LEMMA AddLineBlocks ==
    ASSUME NEW bs, AreBlocks(bs), NEW l \in Lines
    PROVE  /\ AreBlocks(AddLine(bs, l))
           /\ FlattenSeq(AddLine(bs, l)) = Append(FlattenSeq(bs), l)
<1>1. PICK front \in Seq(Seq(Lines)), last \in Seq(Lines) : bs = Append(front, last)
  BY SequenceEmptyOrAppend DEF AreBlocks, BlockLists
<1>2. Len(bs) = Len(front) + 1 /\ Len(front) \in Nat /\ bs[Len(bs)] = last
      /\ \A i \in 1..Len(front) : bs[i] = front[i]
  BY <1>1
<1>3. AddLine(bs, l) \in BlockLists
  BY AddLineType DEF AreBlocks
<1>4. FlattenSeq(bs) = FlattenSeq(front) \o last /\ FlattenSeq(front) \in Seq(Lines)
      /\ FlattenSeq(bs) \in Seq(Lines)
  <2>1. FlattenSeq(bs) = FlattenSeq(front) \o last /\ FlattenSeq(front) \in Seq(Lines)
    BY <1>1, FlattenAppend
  <2> QED BY <2>1
<1>5. CASE IsHeader(l)
  <2> DEFINE c == <<l>>
  <2>1. c \in Seq(Lines) /\ IsSection(c)
    BY <1>5 DEF IsSection
  <2> HIDE DEF c
  <2>2. AddLine(bs, l) = Append(bs, c)
    BY <1>5 DEF AddLine, c
  <2>3. AreBlocks(Append(bs, c))
    <3> DEFINE e == Append(bs, c)
    <3>1. bs \in Seq(Seq(Lines)) /\ Len(bs) \in Nat /\ Len(bs) >= 1 /\ NoHeader(bs[1])
          /\ \A j \in 2..Len(bs) : IsSection(bs[j])
      BY <1>2 DEF AreBlocks, BlockLists
    <3>2. Len(e) = Len(bs) + 1 /\ e[Len(bs) + 1] = c /\ \A j \in 1..Len(bs) : e[j] = bs[j]
      BY <2>1, <3>1
    <3>3. e \in BlockLists
      BY <1>3, <2>2
    <3> HIDE DEF e
    <3>4. ASSUME NEW j \in 2..Len(e) PROVE IsSection(e[j])
      <4>1. CASE j = Len(bs) + 1
        BY <2>1, <3>2, <4>1
      <4>2. CASE j # Len(bs) + 1
        <5>1. j \in 2..Len(bs) /\ j \in 1..Len(bs)
          BY <3>1, <3>2, <4>2
        <5> QED BY <3>1, <3>2, <5>1
      <4> QED BY <4>1, <4>2
    <3>5. e[1] = bs[1]
      BY <3>1, <3>2
    <3> QED BY <3>1, <3>3, <3>4, <3>5 DEF AreBlocks, e
  <2>4. FlattenSeq(Append(bs, c)) = FlattenSeq(bs) \o c
    BY <2>1, FlattenAppend DEF AreBlocks, BlockLists
  <2>5. FlattenSeq(bs) \o <<l>> = Append(FlattenSeq(bs), l)
    BY <1>4
  <2> QED BY <2>2, <2>3, <2>4, <2>5 DEF c
<1>6. CASE ~IsHeader(l)
  <2> DEFINE b == Append(last, l)
  <2>1. b \in Seq(Lines) /\ Len(b) = Len(last) + 1 /\ b[Len(b)] = l
        /\ \A i \in 1..Len(last) : b[i] = last[i]
    OBVIOUS
  <2>2. AddLine(bs, l) = Append(front, b)
    BY <1>1, <1>6, AddLineCases
  <2>3. FlattenSeq(Append(front, b)) = FlattenSeq(front) \o b
    <3> HIDE DEF b
    <3> QED BY <2>1, FlattenAppend
  <2>4. FlattenSeq(front) \o b = Append(FlattenSeq(front) \o last, l)
    BY <1>4
  <2> HIDE DEF b
  <2> DEFINE ext == Append(front, b)
  <2>5. Len(ext) = Len(bs) /\ ext[Len(bs)] = b /\ \A i \in 1..Len(front) : ext[i] = bs[i]
    BY <1>2, <2>1
  <2> HIDE DEF ext
  <2>6. NoHeader(last) => NoHeader(b)
    BY <1>6, <2>1 DEF NoHeader
  <2>7. IsSection(last) => IsSection(b)
    <3> SUFFICES ASSUME IsSection(last) PROVE IsSection(b)
      OBVIOUS
    <3>1. Len(last) \in Nat /\ Len(last) >= 1
      BY EmptySeq DEF IsSection
    <3>2. b # <<>> /\ b[1] = last[1]
      BY <2>1, <3>1, EmptySeq
    <3>3. \A i \in 2..Len(b) : i \in 2..Len(last) \/ i = Len(b)
      BY <2>1, <3>1
    <3>4. \A i \in 2..Len(last) : b[i] = last[i]
      BY <2>1, <3>1
    <3> QED BY <1>6, <2>1, <3>2, <3>3, <3>4 DEF IsSection
  <2>8. NoHeader(ext[1])
    BY <1>2, <2>5, <2>6 DEF AreBlocks
  <2>9. \A j \in 2..Len(ext) : IsSection(ext[j])
    <3> SUFFICES ASSUME NEW j \in 2..Len(ext) PROVE IsSection(ext[j])
      OBVIOUS
    <3>1. CASE j = Len(bs)
      BY <1>2, <2>5, <2>7, <3>1 DEF AreBlocks
    <3>2. CASE j # Len(bs)
      <4>1. j \in 1..Len(front) /\ j \in 2..Len(bs)
        BY <1>2, <2>5, <3>2
      <4> QED BY <1>2, <2>5, <4>1 DEF AreBlocks
    <3> QED BY <3>1, <3>2
  <2> QED BY <1>3, <1>4, <2>2, <2>3, <2>4, <2>8, <2>9 DEF AreBlocks, ext
<1> QED BY <1>5, <1>6

\* The blocks of a text are its lines, in their order.
LEMMA BlocksCorrect ==
    ASSUME NEW t \in Seq(Lines)
    PROVE  AreBlocks(Blocks(t)) /\ FlattenSeq(Blocks(t)) = t
<1> DEFINE S == {u \in Seq(Lines) : AreBlocks(Blocks(u)) /\ FlattenSeq(Blocks(u)) = u}
<1>1. <<>> \in S
  <2> DEFINE e == <<>>
  <2>1. e \in Seq(Lines) /\ <<e>> \in BlockLists /\ <<e>>[1] = e /\ Len(<<e>>) = 1
    BY DEF BlockLists
  <2>2. AreBlocks(<<e>>)
    BY <2>1 DEF AreBlocks, NoHeader
  <2>3. FlattenSeq(<<e>>) = e
    <3>1. <<e>> = Append(<<>>, e) /\ <<>> \in Seq(Seq(Lines)) /\ <<>> \o <<>> = <<>>
      OBVIOUS
    <3> QED BY <2>1, <3>1, FlattenAppend, FlattenEmpty
  <2> QED BY <2>1, <2>2, <2>3, BlocksEmpty
<1>2. ASSUME NEW u \in Seq(Lines), NEW l \in Lines, u \in S PROVE Append(u, l) \in S
  <2>1. Blocks(Append(u, l)) = AddLine(Blocks(u), l) /\ Append(u, l) \in Seq(Lines)
    BY BlocksAppend
  <2>2. AreBlocks(Blocks(u)) /\ FlattenSeq(Blocks(u)) = u
    BY <1>2
  <2>3. AreBlocks(AddLine(Blocks(u), l)) /\ FlattenSeq(AddLine(Blocks(u), l)) = Append(u, l)
    BY <2>2, AddLineBlocks
  <2> QED BY <2>1, <2>3
<1>3. Seq(Lines) \subseteq S
  <2> HIDE DEF S
  <2> QED BY <1>1, <1>2, SeqInduction
<1> QED BY <1>3

LEMMA ConcatAppend ==
    ASSUME NEW D, NEW a \in Seq(D), NEW c \in Seq(D), NEW d \in D
    PROVE  /\ a \o c \in Seq(D)
           /\ a \o Append(c, d) = Append(a \o c, d)
OBVIOUS

LEMMA ExtendBlocks ==
    ASSUME NEW t \in Seq(Lines), NEW front \in Seq(Seq(Lines)), NEW last \in Seq(Lines),
           Blocks(t) = Append(front, last),
           NEW b \in Seq(Lines), NoHeader(b)
    PROVE  Blocks(t \o b) = Append(front, last \o b)
<1> DEFINE S == {c \in Seq(Lines) : NoHeader(c) => Blocks(t \o c) = Append(front, last \o c)}
<1>1. <<>> \in S
  BY ConcatEmptySeq
<1>2. ASSUME NEW c \in Seq(Lines), NEW l \in Lines, c \in S PROVE Append(c, l) \in S
  <2> SUFFICES ASSUME NoHeader(Append(c, l))
               PROVE  Blocks(t \o Append(c, l)) = Append(front, last \o Append(c, l))
    <3>1. Append(c, l) \in Seq(Lines)
      OBVIOUS
    <3> QED BY <3>1
  <2>1. NoHeader(c) /\ ~IsHeader(l)
    <3> DEFINE e == Append(c, l)
    <3>1. Len(e) = Len(c) + 1 /\ e[Len(c) + 1] = l /\ \A i \in 1..Len(c) : e[i] = c[i]
          /\ DOMAIN e = 1..Len(e) /\ DOMAIN c = 1..Len(c) /\ Len(c) \in Nat
      OBVIOUS
    <3> HIDE DEF e
    <3>2. NoHeader(e)
      BY DEF e
    <3>3. \A i \in 1..Len(c) : i \in DOMAIN e
      BY <3>1
    <3>4. Len(c) + 1 \in DOMAIN e
      BY <3>1
    <3>5. ~IsHeader(l)
      BY <3>1, <3>2, <3>4 DEF NoHeader
    <3>6. ASSUME NEW i \in DOMAIN c PROVE ~IsHeader(c[i])
      <4>1. i \in 1..Len(c)
        BY <3>1
      <4>2. i \in DOMAIN e /\ e[i] = c[i]
        BY <3>1, <3>3, <4>1
      <4> QED BY <3>2, <4>2 DEF NoHeader
    <3>7. NoHeader(c)
      BY <3>6, Zenon DEF NoHeader
    <3> QED BY <3>5, <3>7
  <2>2. t \o Append(c, l) = Append(t \o c, l) /\ last \o Append(c, l) = Append(last \o c, l)
        /\ t \o c \in Seq(Lines) /\ last \o c \in Seq(Lines)
    <3>1. t \o c \in Seq(Lines) /\ t \o Append(c, l) = Append(t \o c, l)
      BY ConcatAppend
    <3>2. last \o c \in Seq(Lines) /\ last \o Append(c, l) = Append(last \o c, l)
      BY ConcatAppend, SMTT(30)
    <3> QED BY <3>1, <3>2
  <2>3. Blocks(t \o c) = Append(front, last \o c)
    BY <1>2, <2>1
  <2>4. Blocks(Append(t \o c, l)) = AddLine(Append(front, last \o c), l)
    BY <2>2, <2>3, BlocksAppend
  <2>5. AddLine(Append(front, last \o c), l) = Append(front, Append(last \o c, l))
    BY <2>1, <2>2, AddLineCases
  <2> QED BY <2>2, <2>4, <2>5
<1>3. Seq(Lines) \subseteq S
  <2> HIDE DEF S
  <2> QED BY <1>1, <1>2, SeqInduction
<1> QED BY <1>3

\* The last block of t, and those before it.
EndsWith(t, front, last) ==
    /\ t \in Seq(Lines) /\ front \in Seq(Seq(Lines)) /\ last \in Seq(Lines)
    /\ Blocks(t) = Append(front, last)

LEMMA ExtendLast ==
    ASSUME NEW t, NEW front, NEW last, EndsWith(t, front, last),
           NEW b \in Seq(Lines), NoHeader(b)
    PROVE  Blocks(t \o b) = Append(front, last \o b)
<1>1. /\ t \in Seq(Lines) /\ front \in Seq(Seq(Lines)) /\ last \in Seq(Lines)
      /\ Blocks(t) = Append(front, last)
  BY DEF EndsWith
<1> QED BY <1>1, ExtendBlocks, Zenon

LEMMA AddSection ==
    ASSUME NEW t \in Seq(Lines), NEW b \in Seq(Lines), IsSection(b)
    PROVE  Blocks(t \o b) = Append(Blocks(t), b)
<1> DEFINE h == b[1]
           rest == Tail(b)
<1>1. h \in Lines /\ rest \in Seq(Lines) /\ IsHeader(h)
  BY EmptySeq DEF IsSection
<1>2. NoHeader(rest)
  <2>1. Len(b) >= 1 /\ \A i \in 1..Len(rest) : rest[i] = b[i + 1] /\ i + 1 \in 2..Len(b)
    BY EmptySeq DEF IsSection
  <2>2. DOMAIN rest = 1..Len(rest)
    BY <1>1
  <2> QED BY <2>1, <2>2 DEF NoHeader, IsSection
<1>3. b = <<h>> \o rest /\ t \o b = Append(t, h) \o rest
  <2>1. b # <<>>
    BY DEF IsSection
  <2> QED BY <2>1
<1>4. Blocks(t) \in Seq(Seq(Lines))
  BY BlocksAppend, <1>1 DEF BlockLists
<1>5. Blocks(Append(t, h)) = Append(Blocks(t), <<h>>)
  BY <1>1, BlocksAppend DEF AddLine
<1>6. Append(t, h) \in Seq(Lines) /\ <<h>> \in Seq(Lines)
  BY <1>1
<1> HIDE DEF h, rest
<1>7. Blocks(Append(t, h) \o rest) = Append(Blocks(t), <<h>> \o rest)
  <2> DEFINE u == Append(t, h)
             header == <<h>>
             front == Blocks(t)
  <2>1. u \in Seq(Lines) /\ header \in Seq(Lines) /\ front \in Seq(Seq(Lines))
        /\ Blocks(u) = Append(front, header)
    BY <1>4, <1>5, <1>6
  <2> HIDE DEF u, header, front
  <2>2. rest \in Seq(Lines) /\ NoHeader(rest)
    BY <1>1, <1>2
  <2>3. EndsWith(u, front, header)
    BY <2>1 DEF EndsWith
  <2>4. Blocks(u \o rest) = Append(front, header \o rest)
    BY <2>2, <2>3, ExtendLast
  <2> QED BY <2>4 DEF u, header, front
<1> QED BY <1>3, <1>7

\* Joined blocks are parsed into the same blocks again.
LEMMA BlocksOfFlatten ==
    ASSUME NEW bs, AreBlocks(bs)
    PROVE  Blocks(FlattenSeq(bs)) = bs
<1> DEFINE S == {cs \in Seq(Seq(Lines)) : AreBlocks(cs) => Blocks(FlattenSeq(cs)) = cs}
<1>1. <<>> \in S
  BY DEF AreBlocks, BlockLists
<1>2. ASSUME NEW cs \in Seq(Seq(Lines)), NEW b \in Seq(Lines), cs \in S PROVE Append(cs, b) \in S
  <2> DEFINE ds == Append(cs, b)
  <2> SUFFICES ASSUME AreBlocks(ds) PROVE Blocks(FlattenSeq(ds)) = ds
    OBVIOUS
  <2>1. ds \in Seq(Seq(Lines)) /\ Len(ds) = Len(cs) + 1 /\ ds[Len(ds)] = b
        /\ Len(cs) \in Nat /\ \A i \in 1..Len(cs) : ds[i] = cs[i]
    OBVIOUS
  <2>2. FlattenSeq(ds) = FlattenSeq(cs) \o b /\ FlattenSeq(cs) \in Seq(Lines)
    BY FlattenAppend
  <2>3. CASE cs = <<>>
    <3>1. ds = <<b>> /\ NoHeader(b)
      BY <2>1, <2>3 DEF AreBlocks
    <3> DEFINE e == <<>>
    <3>2. e \in Seq(Lines) /\ e \in Seq(Seq(Lines)) /\ Blocks(e) = Append(e, e)
      BY BlocksEmpty
    <3>3. Blocks(e \o b) = Append(e, e \o b)
      BY <3>1, <3>2, ExtendBlocks
    <3>4. e \o b = b /\ Append(e, b) = <<b>> /\ FlattenSeq(ds) = e \o b
      BY <2>2, <2>3, FlattenEmpty
    <3> HIDE DEF e, ds
    <3> QED BY <3>1, <3>3, <3>4
  <2>4. CASE cs # <<>>
    <3> HIDE DEF ds
    <3>0. Len(cs) >= 1
      BY <2>4, EmptySeq, <2>1
    <3>1. AreBlocks(cs)
      BY <2>1, <2>4, <3>0 DEF AreBlocks, BlockLists
    <3>2. IsSection(b)
      BY <2>1, <3>0 DEF AreBlocks
    <3> QED BY <1>2, <2>2, <3>1, <3>2, AddSection DEF ds
  <2> QED BY <2>3, <2>4
<1>3. Seq(Seq(Lines)) \subseteq S
  <2> HIDE DEF S
  <2> QED BY <1>1, <1>2, SeqInduction
<1> QED BY <1>3 DEF AreBlocks, BlockLists

-----------------------------------------------------------------------------
(* Numbers in their order *)

InOrderStep(n, S) ==
    [k \in 1..n |-> [p \in Seq(Nat) |-> IF k \in S THEN Append(p, k) ELSE p]]

LEMMA InOrderRun ==
    ASSUME NEW n \in Nat, NEW S, NEW N \in Nat, n <= N, NEW g,
           IsRun(g, Seq(Nat), N, <<>>, InOrderStep(N, S))
    PROVE  InOrder(n, S) = g[n]
<1> DEFINE IsUpTo(f) == f = [k \in 0..n |-> IF k = 0 THEN <<>>
                                 ELSE IF k \in S THEN Append(f[k - 1], k) ELSE f[k - 1]]
           F == CHOOSE f : IsUpTo(f)
           h == [k \in 0..n |-> g[k]]
<1>1. ASSUME NEW k \in 1..n
      PROVE  g[k] = IF k \in S THEN Append(g[k - 1], k) ELSE g[k - 1]
  <2>1. k \in 1..N /\ g[k - 1] \in Seq(Nat) /\ g[k] = InOrderStep(N, S)[k][g[k - 1]]
    BY DEF IsRun
  <2> QED BY <2>1 DEF InOrderStep
<1>2. h \in [0..n -> Seq(Nat)] /\ h[0] = <<>>
  <2>1. g[0] = <<>> /\ \A k \in 0..N : g[k] \in Seq(Nat)
    BY DEF IsRun
  <2>2. 0 \in 0..n /\ \A k \in 0..n : k \in 0..N
    OBVIOUS
  <2>3. \A k \in 0..n : g[k] \in Seq(Nat)
    BY <2>1, <2>2
  <2> QED BY <2>1, <2>2, <2>3
<1>3. ASSUME NEW k \in 1..n
      PROVE  h[k] = IF k \in S THEN Append(h[k - 1], k) ELSE h[k - 1]
  <2>1. h[k] = g[k] /\ h[k - 1] = g[k - 1]
    OBVIOUS
  <2> QED BY <1>1, <2>1
<1> HIDE DEF h
<1>4. IsUpTo(h)
  <2>1. h = [k \in 0..n |-> h[k]]
    BY <1>2
  <2>2. \A k \in 0..n : k # 0 => k \in 1..n
    OBVIOUS
  <2>3. \A k \in 0..n : h[k] = IF k = 0 THEN <<>>
                                ELSE IF k \in S THEN Append(h[k - 1], k) ELSE h[k - 1]
    BY <1>2, <1>3, <2>2
  <2> QED BY <2>1, <2>3
<1>5. IsUpTo(F)
  BY <1>4, Zenon
<1>6. InOrder(n, S) = F[n]
  BY DEF InOrder
<1> HIDE DEF F
<1>7. F[n] = h[n]
  <2> DEFINE T == {k \in Nat : k <= n => F[k] = h[k]}
  <2>1. 0 \in T
    BY <1>2, <1>5
  <2>2. ASSUME NEW k \in T PROVE k + 1 \in T
    <3> SUFFICES ASSUME k + 1 <= n PROVE F[k + 1] = h[k + 1]
      OBVIOUS
    <3>1. k + 1 \in 1..n /\ (k + 1) - 1 = k /\ F[k] = h[k] /\ k + 1 \in 0..n /\ k + 1 # 0
      BY <2>2
    <3>2. F[k + 1] = IF k + 1 \in S THEN Append(F[k], k + 1) ELSE F[k]
      BY <1>5, <3>1
    <3>3. h[k + 1] = IF k + 1 \in S THEN Append(h[k], k + 1) ELSE h[k]
      BY <1>3, <3>1
    <3> QED BY <3>1, <3>2, <3>3
  <2>3. T = Nat
    <3> HIDE DEF T
    <3>1. T \in SUBSET Nat
      BY DEF T
    <3> QED BY <2>1, <2>2, <3>1, Induction
  <2>4. n \in T
    <3> HIDE DEF T
    <3> QED BY <2>3
  <2> QED BY <2>4
<1> QED BY <1>6, <1>7 DEF h

LEMMA InOrderRecursion ==
    ASSUME NEW n \in Nat, NEW S
    PROVE  /\ InOrder(n, S) \in Seq(Nat)
           /\ InOrder(0, S) = <<>>
           /\ InOrder(n + 1, S) =
                IF n + 1 \in S THEN Append(InOrder(n, S), n + 1) ELSE InOrder(n, S)
<1> DEFINE N == n + 1
           step == InOrderStep(N, S)
<1>1. step \in [1..N -> [Seq(Nat) -> Seq(Nat)]]
  BY DEF InOrderStep
<1>2. N \in Nat /\ <<>> \in Seq(Nat)
  OBVIOUS
<1> HIDE DEF N, step
<1>3. PICK g : IsRun(g, Seq(Nat), N, <<>>, step)
  BY <1>1, <1>2, RunExists
<1>4. IsRun(g, Seq(Nat), n + 1, <<>>, InOrderStep(n + 1, S))
  BY <1>3 DEF N, step
<1>5. InOrder(n, S) = g[n] /\ InOrder(0, S) = g[0] /\ InOrder(n + 1, S) = g[n + 1]
  <2>1. n <= n + 1 /\ 0 <= n + 1 /\ n + 1 <= n + 1 /\ n + 1 \in Nat /\ 0 \in Nat
    OBVIOUS
  <2> QED BY <1>4, <2>1, InOrderRun
<1>6. n + 1 \in 1..(n + 1) /\ (n + 1) - 1 = n /\ n \in 0..(n + 1)
  OBVIOUS
<1>7. g[n] \in Seq(Nat) /\ g[0] = <<>> /\ g[n + 1] = InOrderStep(n + 1, S)[n + 1][g[n]]
  BY <1>4, <1>6 DEF IsRun
<1> QED BY <1>5, <1>6, <1>7 DEF InOrderStep

\* p lists the numbers of T, each once, from the least up.
Lists(p, T) ==
    /\ p \in Seq(Nat)
    /\ \A i, j \in DOMAIN p : i < j => p[i] < p[j]
    /\ \A i \in DOMAIN p : p[i] \in T
    /\ \A k \in T : \E i \in DOMAIN p : p[i] = k

LEMMA InOrderLists ==
    ASSUME NEW n \in Nat, NEW S
    PROVE  Lists(InOrder(n, S), S \cap 1..n)
<1> DEFINE T == {m \in Nat : Lists(InOrder(m, S), S \cap 1..m)}
<1>1. 0 \in T
  <2>1. InOrder(0, S) = <<>> /\ S \cap 1..0 = {}
    BY InOrderRecursion
  <2>2. Lists(<<>>, {})
    BY DEF Lists
  <2> QED BY <2>1, <2>2
<1>2. ASSUME NEW m \in T PROVE m + 1 \in T
  <2> DEFINE p == InOrder(m, S)
             q == InOrder(m + 1, S)
  <2>1. q = (IF m + 1 \in S THEN Append(p, m + 1) ELSE p) /\ p \in Seq(Nat)
    BY InOrderRecursion
  <2>2. Lists(p, S \cap 1..m)
    BY <1>2
  <2> HIDE DEF p, q
  <2>3. CASE m + 1 \notin S
    <3>1. S \cap 1..(m + 1) = S \cap 1..m
      BY <2>3
    <3>2. InOrder(m + 1, S) = p
      BY <2>1, <2>3 DEF q
    <3> QED BY <2>2, <3>1, <3>2
  <2>4. CASE m + 1 \in S
    <3>1. q \in Seq(Nat) /\ Len(q) = Len(p) + 1 /\ q[Len(p) + 1] = m + 1 /\ Len(p) \in Nat
          /\ (\A i \in 1..Len(p) : q[i] = p[i]) /\ DOMAIN p = 1..Len(p) /\ DOMAIN q = 1..Len(q)
      BY <2>1, <2>4
    <3>2. \A i \in DOMAIN q : i \in DOMAIN p \/ i = Len(p) + 1
      BY <3>1
    <3>3. \A i \in DOMAIN p : q[i] = p[i] /\ p[i] \in S \cap 1..m
      BY <2>2, <3>1 DEF Lists
    <3>4. ASSUME NEW i \in DOMAIN q, NEW j \in DOMAIN q, i < j PROVE q[i] < q[j]
      <4>1. i \in DOMAIN p
        BY <3>1, <3>4
      <4>2. CASE j \in DOMAIN p
        BY <2>2, <3>3, <3>4, <4>1, <4>2 DEF Lists
      <4>3. CASE j = Len(p) + 1
        BY <3>1, <3>3, <4>1, <4>3
      <4> QED BY <3>2, <4>2, <4>3
    <3>5. \A i \in DOMAIN q : q[i] \in S \cap 1..(m + 1)
      BY <2>4, <3>1, <3>2, <3>3
    <3>6. ASSUME NEW k \in S \cap 1..(m + 1) PROVE \E i \in DOMAIN q : q[i] = k
      <4>1. CASE k = m + 1
        BY <3>1, <4>1
      <4>2. CASE k \in S \cap 1..m
        <5>1. PICK i \in DOMAIN p : p[i] = k
          BY <2>2, <4>2 DEF Lists
        <5>2. i \in DOMAIN q /\ q[i] = k
          BY <3>1, <5>1
        <5> QED BY <5>2
      <4> QED BY <4>1, <4>2
    <3>7. Lists(q, S \cap 1..(m + 1))
      BY <3>1, <3>4, <3>5, <3>6 DEF Lists
    <3> QED BY <3>7 DEF q
  <2> QED BY <2>3, <2>4
<1>3. T = Nat
  <2> HIDE DEF T
  <2>1. T \in SUBSET Nat
    BY DEF T
  <2> QED BY <1>1, <1>2, <2>1, Induction
<1>4. n \in T
  <2> HIDE DEF T
  <2> QED BY <1>3
<1> QED BY <1>4

\* A list begins like any other of the same numbers, ...
LEMMA ListsBegin ==
    ASSUME NEW T, NEW p, Lists(p, T), NEW q, Lists(q, T), NEW n \in DOMAIN p
    PROVE  n \in DOMAIN q /\ p[n] = q[n]
<1> DEFINE Same(k) == k \in DOMAIN p => k \in DOMAIN q /\ p[k] = q[k]
           S == {m \in Nat : \A k \in 1..m : Same(k)}
<1>0. /\ DOMAIN p = 1..Len(p) /\ Len(p) \in Nat /\ DOMAIN q = 1..Len(q) /\ Len(q) \in Nat
      /\ \A i \in DOMAIN p : p[i] \in Nat
      /\ \A i \in DOMAIN q : q[i] \in Nat
  <2>1. p \in Seq(Nat) /\ q \in Seq(Nat)
    BY DEF Lists
  <2> QED BY <2>1
<1>1. 0 \in S
  OBVIOUS
<1>2. ASSUME NEW m \in S PROVE m + 1 \in S
  <2> DEFINE k == m + 1
  <2> SUFFICES ASSUME k \in DOMAIN p PROVE k \in DOMAIN q /\ p[k] = q[k]
    <3>1. \A i \in 1..(m + 1) : i \in 1..m \/ i = m + 1
      OBVIOUS
    <3>2. \A i \in 1..m : Same(i)
      BY <1>2
    <3> QED BY <3>1, <3>2
  <2>0. \A i \in 1..m : i \in DOMAIN p /\ i \in DOMAIN q /\ p[i] = q[i]
    BY <1>0, <1>2
  <2>1. PICK i \in DOMAIN q : q[i] = p[k]
    BY DEF Lists
  <2>2. i >= k
    <3> SUFFICES ASSUME i < k PROVE FALSE
      BY <1>0
    <3>1. i \in 1..m
      BY <1>0
    <3>2. p[i] = p[k] /\ p[i] < p[k]
      BY <1>0, <2>0, <2>1, <3>1 DEF Lists
    <3> QED BY <1>0, <3>2
  <2>3. k \in DOMAIN q
    BY <1>0, <2>1, <2>2
  <2>4. q[k] <= p[k]
    <3>1. CASE i = k
      BY <1>0, <2>1, <3>1
    <3>2. CASE k < i
      <4>1. q[k] < q[i]
        BY <2>1, <2>3, <3>2 DEF Lists
      <4> QED BY <1>0, <2>1, <2>3, <4>1
    <3> QED BY <1>0, <2>2, <3>1, <3>2
  <2>5. PICK j \in DOMAIN p : p[j] = q[k]
    BY <2>3 DEF Lists
  <2>6. j >= k
    <3> SUFFICES ASSUME j < k PROVE FALSE
      BY <1>0
    <3>1. j \in 1..m
      BY <1>0
    <3>2. q[j] = q[k] /\ q[j] < q[k]
      BY <1>0, <2>0, <2>3, <2>5, <3>1 DEF Lists
    <3> QED BY <1>0, <2>3, <3>2
  <2>7. p[k] <= q[k]
    <3>1. CASE j = k
      BY <1>0, <2>5, <3>1
    <3>2. CASE k < j
      <4>1. p[k] < p[j]
        BY <2>5, <3>2 DEF Lists
      <4> QED BY <1>0, <2>5, <2>3, <4>1
    <3> QED BY <1>0, <2>6, <3>1, <3>2
  <2> QED BY <1>0, <2>3, <2>4, <2>7
<1>3. S = Nat
  <2> HIDE DEF S
  <2>1. S \in SUBSET Nat
    BY DEF S
  <2> QED BY <1>1, <1>2, <2>1, Induction
<1>4. n \in S
  <2> HIDE DEF S
  <2> QED BY <1>0, <1>3
<1>5. n \in 1..n
  BY <1>0
<1> QED BY <1>4, <1>5

\* ... so there is only one.
LEMMA ListsUnique ==
    ASSUME NEW T, NEW p, Lists(p, T), NEW q, Lists(q, T)
    PROVE  p = q
<1>1. p \in Seq(Nat) /\ q \in Seq(Nat)
  BY DEF Lists
<1>2. \A n \in DOMAIN p : n \in DOMAIN q /\ p[n] = q[n]
  BY ListsBegin
<1>3. \A n \in DOMAIN q : n \in DOMAIN p
  BY ListsBegin
<1>4. Len(p) = Len(q)
  <2>1. Len(p) \in Nat /\ Len(q) \in Nat /\ DOMAIN p = 1..Len(p) /\ DOMAIN q = 1..Len(q)
    BY <1>1
  <2> DEFINE m == Len(p)
             n == Len(q)
  <2>2. \A k \in 1..m : k \in 1..n
    BY <1>2, <2>1
  <2>3. \A k \in 1..n : k \in 1..m
    BY <1>3, <2>1
  <2>4. m \in Nat /\ n \in Nat
    BY <2>1
  <2> HIDE DEF m, n
  <2>5. m <= n
    <3>1. m > 0 => m \in 1..m
      BY <2>4
    <3> QED BY <2>2, <2>4, <3>1
  <2>6. n <= m
    <3>1. n > 0 => n \in 1..n
      BY <2>4
    <3> QED BY <2>3, <2>4, <3>1
  <2>7. m = n
    BY <2>4, <2>5, <2>6
  <2> QED BY <2>7 DEF m, n
<1>5. \A n \in 1..Len(p) : p[n] = q[n]
  BY <1>1, <1>2
<1> QED BY <1>1, <1>4, <1>5, SeqEqual

LEMMA InOrderAll ==
    ASSUME NEW n \in Nat, NEW S, 1..n \subseteq S
    PROVE  InOrder(n, S) = [k \in 1..n |-> k]
<1> DEFINE p == [k \in 1..n |-> k]
<1>1. S \cap 1..n = 1..n
  OBVIOUS
<1>2. Lists(p, 1..n)
  <2>1. p \in Seq(Nat) /\ DOMAIN p = 1..n
    OBVIOUS
  <2> QED BY <2>1 DEF Lists
<1>3. Lists(InOrder(n, S), 1..n)
  BY <1>1, InOrderLists
<1> HIDE DEF p
<1> QED BY <1>2, <1>3, ListsUnique DEF p

LEMMA InOrderNone ==
    ASSUME NEW n \in Nat, NEW S, S \cap 1..n = {}
    PROVE  InOrder(n, S) = <<>>
<1>1. Lists(InOrder(n, S), {})
  BY InOrderLists
<1>2. Lists(<<>>, {})
  BY DEF Lists
<1> QED BY <1>1, <1>2, ListsUnique

-----------------------------------------------------------------------------
(* Lines *)

LEMMA LineFacts ==
    /\ EmptyLine \in Lines /\ EmptyLine.nl /\ Blank(EmptyLine) /\ ~IsHeader(EmptyLine)
    /\ \A l \in Lines :
           /\ l.nl \in BOOLEAN
           /\ IsHeader(l) => ~Blank(l)
           /\ [l EXCEPT !.nl = TRUE] \in Lines
           /\ [l EXCEPT !.nl = TRUE].nl
           /\ [l EXCEPT !.nl = TRUE].body = l.body
<1>1. EmptyLine \in Lines /\ EmptyLine.nl /\ EmptyLine.body = Empty
  BY DEF EmptyLine, Lines
<1>2. Blank(EmptyLine) /\ ~IsHeader(EmptyLine)
  BY <1>1, FilesAssumption DEF Blank, IsHeader
<1>3. ASSUME NEW l \in Lines
      PROVE  /\ l.nl \in BOOLEAN
             /\ [l EXCEPT !.nl = TRUE] \in Lines
             /\ [l EXCEPT !.nl = TRUE].nl
             /\ [l EXCEPT !.nl = TRUE].body = l.body
  <2>1. CASE l \in [body : Headers \cup Words \cup {Spaces}, nl : BOOLEAN]
    <3>1. [l EXCEPT !.nl = TRUE] \in [body : Headers \cup Words \cup {Spaces}, nl : BOOLEAN]
      BY <2>1
    <3> QED BY <2>1, <3>1 DEF Lines
  <2>2. CASE l = [body |-> Empty, nl |-> TRUE]
    <3>1. \A x : [[body |-> Empty, nl |-> x] EXCEPT !.nl = x] = [body |-> Empty, nl |-> x]
      OBVIOUS
    <3>2. [l EXCEPT !.nl = TRUE] = l
      BY <2>2, <3>1
    <3> QED BY <2>2, <3>2 DEF Lines
  <2> QED BY <2>1, <2>2 DEF Lines
<1>4. \A l \in Lines : IsHeader(l) => ~Blank(l)
  BY FilesAssumption DEF Blank, IsHeader
<1> QED BY <1>1, <1>2, <1>3, <1>4

\* u is t with other line ends and, at most, blank lines after it.
Extends(u, t) ==
    /\ u \in Seq(Lines)
    /\ Len(t) <= Len(u)
    /\ \A i \in 1..Len(t) : u[i].body = t[i].body
    /\ \A i \in 1..Len(t) : i < Len(t) \/ EndsLine(t) => u[i] = t[i]
    /\ \A i \in (Len(t) + 1)..Len(u) : u[i] = EmptyLine

LEMMA NewlineExtends ==
    ASSUME NEW t \in Seq(Lines)
    PROVE  /\ Extends(Newline(t), t)
           /\ EndsLine(Newline(t))
           /\ Newline(t) # <<>>
           /\ Len(Newline(t)) = IF EndsLine(t) THEN Len(t) + 1 ELSE Len(t)
           /\ EndsLine(t) => Newline(t) = Append(t, EmptyLine)
<1>1. CASE EndsLine(t)
  <2> DEFINE u == Append(t, EmptyLine)
  <2>1. u \in Seq(Lines) /\ Len(u) = Len(t) + 1 /\ u[Len(t) + 1] = EmptyLine /\ Len(t) \in Nat
        /\ \A i \in 1..Len(t) : u[i] = t[i]
    BY LineFacts
  <2>2. Newline(t) = u
    BY <1>1 DEF Newline
  <2> HIDE DEF u
  <2>3. \A i \in (Len(t) + 1)..Len(u) : i = Len(t) + 1
    BY <2>1
  <2>4. Extends(u, t)
    BY <2>1, <2>3 DEF Extends
  <2>5. EndsLine(u) /\ u # <<>>
    BY <2>1, LineFacts, EmptySeq DEF EndsLine, Last
  <2> QED BY <1>1, <2>1, <2>2, <2>4, <2>5 DEF u
<1>2. CASE ~EndsLine(t)
  <2> DEFINE n == Len(t)
             l == [t[n] EXCEPT !.nl = TRUE]
             u == [t EXCEPT ![n] = l]
  <2>1. n \in Nat /\ n \in 1..n /\ t[n] \in Lines
    BY <1>2, EmptySeq DEF EndsLine
  <2>2. l \in Lines /\ l.nl /\ l.body = t[n].body
    BY <2>1, LineFacts
  <2>3. Newline(t) = u
    BY <1>2 DEF Newline
  <2> HIDE DEF l
  <2>4. u \in Seq(Lines) /\ Len(u) = n
    BY <2>1, <2>2, ExceptSeq
  <2>5. \A i \in 1..n : u[i] = IF i = n THEN l ELSE t[i]
    BY <2>1
  <2> HIDE DEF u
  <2>6. Extends(u, t)
    <3>1. \A i \in 1..n : u[i].body = t[i].body
      BY <2>2, <2>5
    <3>2. \A i \in 1..n : i < n => u[i] = t[i]
      BY <2>1, <2>5
    <3>3. \A i \in (n + 1)..Len(u) : FALSE
      BY <2>1, <2>4
    <3> QED BY <1>2, <2>1, <2>4, <3>1, <3>2, <3>3 DEF Extends
  <2>7. EndsLine(u) /\ u # <<>>
    BY <2>1, <2>2, <2>4, <2>5, EmptySeq DEF EndsLine, Last
  <2> QED BY <1>2, <2>3, <2>4, <2>6, <2>7
<1> QED BY <1>1, <1>2

LEMMA EndedFacts ==
    ASSUME NEW t \in Seq(Lines)
    PROVE  /\ Extends(Ended(t), t)
           /\ EndsLine(Ended(t))
           /\ Len(Ended(t)) = Len(t)
           /\ EndsLine(t) => Ended(t) = t
<1>1. CASE EndsLine(t)
  <2>1. Extends(t, t)
    <3>1. \A i \in (Len(t) + 1)..Len(t) : FALSE
      OBVIOUS
    <3> QED BY <3>1 DEF Extends
  <2> QED BY <1>1, <2>1 DEF Ended
<1>2. CASE ~EndsLine(t)
  BY <1>2, NewlineExtends DEF Ended
<1> QED BY <1>1, <1>2

\* Blank lines at the end make no other section, preamble or key.
LEMMA ExtendsBlock ==
    ASSUME NEW t \in Seq(Lines), NEW u, Extends(u, t)
    PROVE  /\ NoHeader(t) => NoHeader(u)
           /\ IsSection(t) => IsSection(u) /\ SectionKey(u) = SectionKey(t)
<1>0. Len(t) \in Nat /\ Len(u) \in Nat /\ Len(t) <= Len(u) /\ u \in Seq(Lines)
      /\ DOMAIN u = 1..Len(u) /\ DOMAIN t = 1..Len(t)
  BY DEF Extends
<1>1. ASSUME NEW i \in 1..Len(u), IsHeader(u[i]) PROVE i \in 1..Len(t) /\ IsHeader(t[i])
  <2>1. i \in 1..Len(t)
    <3>1. i \in (Len(t) + 1)..Len(u) => FALSE
      BY <1>1, LineFacts DEF Extends
    <3> QED BY <1>0, <3>1
  <2> QED BY <1>1, <2>1 DEF Extends, IsHeader
<1>2. NoHeader(t) => NoHeader(u)
  BY <1>0, <1>1 DEF NoHeader
<1>3. ASSUME IsSection(t) PROVE IsSection(u) /\ SectionKey(u) = SectionKey(t)
  <2>1. 1 \in 1..Len(t) /\ 1 \in 1..Len(u) /\ u # <<>>
    BY <1>0, <1>3, EmptySeq DEF IsSection
  <2>2. u[1].body = t[1].body
    BY <2>1 DEF Extends
  <2>3. \A i \in 2..Len(u) : ~IsHeader(u[i])
    <3> SUFFICES ASSUME NEW i \in 2..Len(u), IsHeader(u[i]) PROVE FALSE
      OBVIOUS
    <3>1. i \in 1..Len(u)
      BY <1>0
    <3>2. i \in 2..Len(t) /\ IsHeader(t[i])
      BY <1>1, <3>1
    <3> QED BY <1>3, <3>2 DEF IsSection
  <2>4. IsHeader(u[1])
    BY <1>3, <2>2 DEF IsHeader, IsSection
  <2>5. Head(u) = u[1] /\ Head(t) = t[1]
    BY <1>0, <2>1
  <2>6. IsSection(u)
    BY <2>1, <2>3, <2>4 DEF IsSection
  <2>7. SectionKey(u) = SectionKey(t)
    BY <2>2, <2>5 DEF SectionKey
  <2> QED BY <2>6, <2>7
<1> QED BY <1>2, <1>3

LEMMA ExtendsText ==
    ASSUME NEW t \in Seq(Lines), IsText(t), NEW u, Extends(u, t),
           EndsLine(t) \/ Len(u) = Len(t)
    PROVE  IsText(u)
<1> DEFINE m == Len(t)
           n == Len(u)
<1>1. m \in Nat /\ n \in Nat /\ m <= n /\ u \in Seq(Lines)
      /\ DOMAIN u = 1..n /\ DOMAIN t = 1..m
  BY DEF Extends
<1>2. (\A i \in 1..m : i < m => t[i].nl) /\ (t # <<>> => m # 0)
  BY EmptySeq DEF IsText
<1>3. /\ \A i \in 1..m : i < m \/ EndsLine(t) => u[i] = t[i]
      /\ \A i \in (m + 1)..n : u[i] = EmptyLine
  BY DEF Extends
<1>4. EndsLine(t) /\ m # 0 => t[m].nl
  BY EmptySeq DEF EndsLine, Last
<1>5. EndsLine(t) \/ n = m
  OBVIOUS
<1> HIDE DEF m, n
<1>6. ASSUME NEW i \in 1..n, i < n PROVE u[i].nl
  <2>1. CASE i < m
    <3>1. i \in 1..m
      BY <1>1, <2>1
    <3> QED BY <1>2, <1>3, <2>1, <3>1
  <2>2. CASE i = m
    <3>1. EndsLine(t) /\ i \in 1..m /\ m # 0
      BY <1>1, <1>5, <1>6, <2>2
    <3> QED BY <1>3, <1>4, <2>2, <3>1
  <2>3. CASE i > m
    <3>1. i \in (m + 1)..n
      BY <1>1, <2>3
    <3> QED BY <1>3, <3>1, LineFacts
  <2> QED BY <1>1, <2>1, <2>2, <2>3
<1> QED BY <1>1, <1>6 DEF IsText, n

-----------------------------------------------------------------------------
(* Normalised sections *)

\* The last line of r that is not blank is its n-th; it has none if n is 0.
IsLastWord(n, r) ==
    /\ n \in 0..Len(r)
    /\ n > 0 => ~Blank(r[n])
    /\ \A i \in (n + 1)..Len(r) : Blank(r[i])

LEMMA LastWordExists ==
    ASSUME NEW r \in Seq(Lines)
    PROVE  \E n : IsLastWord(n, r)
<1> DEFINE S == {k \in 0..Len(r) : \A i \in (k + 1)..Len(r) : Blank(r[i])}
<1>1. Len(r) \in Nat
  OBVIOUS
<1>2. Len(r) \in S /\ S \in SUBSET Nat
  BY <1>1
<1>3. PICK n \in S : \A k \in S : n <= k
  <2> HIDE DEF S
  <2> QED BY <1>2, Least
<1>4. n > 0 => ~Blank(r[n])
  <2> SUFFICES ASSUME n > 0, Blank(r[n]) PROVE FALSE
    OBVIOUS
  <2>1. n - 1 \in 0..Len(r) /\ ~(n <= n - 1)
    BY <1>1, <1>3
  <2>2. \A i \in ((n - 1) + 1)..Len(r) : i = n \/ i \in (n + 1)..Len(r)
    BY <1>1, <1>3
  <2>3. n - 1 \in S
    BY <1>3, <2>1, <2>2
  <2> QED BY <1>3, <2>1, <2>3
<1> QED BY <1>3, <1>4 DEF IsLastWord

LEMMA NormalizeIs ==
    ASSUME NEW r \in Seq(Lines), NEW n, IsLastWord(n, r)
    PROVE  /\ NormalizeSection(r) = Ended(SubSeq(r, 1, n))
           /\ NormalizeSection(r) \in Seq(Lines)
           /\ EndsLine(NormalizeSection(r))
           /\ Len(NormalizeSection(r)) = n
           /\ \A i \in 1..n : NormalizeSection(r)[i].body = r[i].body
<1> DEFINE S == {0} \cup {i \in DOMAIN r : ~Blank(r[i])}
           m == CHOOSE x \in S : \A y \in S : x >= y
           u == SubSeq(r, 1, n)
<1>0. Len(r) \in Nat /\ DOMAIN r = 1..Len(r) /\ n \in 0..Len(r) /\ n \in Nat
  BY DEF IsLastWord
<1>1. n \in S
  BY <1>0 DEF IsLastWord
<1>2. \A y \in S : y \in Nat /\ n >= y
  <2> SUFFICES ASSUME NEW y \in DOMAIN r, ~Blank(r[y]) PROVE n >= y
    BY <1>0
  <2>1. y \notin (n + 1)..Len(r)
    BY <1>0 DEF IsLastWord
  <2> QED BY <1>0, <2>1
<1>3. m \in S /\ \A y \in S : m >= y
  BY <1>1, <1>2
<1>4. Max(S) = m
  BY DEF Max
<1> HIDE DEF S, m
<1>5. m = n
  BY <1>0, <1>1, <1>2, <1>3
<1>6. NormalizeSection(r) = Ended(u)
  BY <1>4, <1>5 DEF NormalizeSection, S
<1>7. u \in Seq(Lines) /\ Len(u) = n /\ \A i \in 1..n : u[i] = r[i]
  BY <1>0
<1> HIDE DEF u
<1>8. Extends(Ended(u), u) /\ EndsLine(Ended(u)) /\ Len(Ended(u)) = n
  BY <1>7, EndedFacts
<1> QED BY <1>6, <1>7, <1>8 DEF Extends, u

LEMMA NormalizeAgain ==
    ASSUME NEW r \in Seq(Lines)
    PROVE  NormalizeSection(NormalizeSection(r)) = NormalizeSection(r)
<1> DEFINE m == NormalizeSection(r)
<1>1. PICK n : IsLastWord(n, r)
  BY LastWordExists
<1>2. m \in Seq(Lines) /\ EndsLine(m) /\ Len(m) = n /\ \A i \in 1..n : m[i].body = r[i].body
  BY <1>1, NormalizeIs
<1>3. n \in Nat
  BY <1>1 DEF IsLastWord
<1> HIDE DEF m
<1>4. IsLastWord(n, m)
  <2>1. n > 0 => ~Blank(m[n])
    BY <1>1, <1>2, <1>3 DEF IsLastWord, Blank
  <2>2. \A i \in (n + 1)..Len(m) : FALSE
    BY <1>2, <1>3
  <2> QED BY <1>2, <1>3, <2>1, <2>2 DEF IsLastWord
<1>5. NormalizeSection(m) = Ended(SubSeq(m, 1, n))
  BY <1>2, <1>4, NormalizeIs
<1>6. SubSeq(m, 1, n) = m
  BY <1>2, SubSeqFull
<1>7. Ended(m) = m
  BY <1>2, EndedFacts
<1> QED BY <1>5, <1>6, <1>7 DEF m

LEMMA NormalizeNewline ==
    ASSUME NEW r \in Seq(Lines)
    PROVE  NormalizeSection(Newline(r)) = NormalizeSection(r)
<1> DEFINE u == Newline(r)
           m == Len(r)
<1>1. PICK n : IsLastWord(n, r)
  BY LastWordExists
<1>2. m \in Nat /\ n \in 0..m
  BY <1>1 DEF IsLastWord
<1>3. u \in Seq(Lines) /\ Len(u) >= m /\ Len(u) \in Nat
      /\ EndsLine(u) /\ Len(u) = (IF EndsLine(r) THEN m + 1 ELSE m)
      /\ (\A i \in 1..m : u[i].body = r[i].body)
      /\ (\A i \in 1..m : i < m \/ EndsLine(r) => u[i] = r[i])
      /\ (\A i \in (m + 1)..Len(u) : u[i] = EmptyLine)
  BY NewlineExtends DEF Extends
<1> HIDE DEF u
<1>4. IsLastWord(n, u)
  <2>1. n > 0 => ~Blank(u[n])
    BY <1>1, <1>2, <1>3 DEF IsLastWord, Blank
  <2>2. ASSUME NEW i \in (n + 1)..Len(u) PROVE Blank(u[i])
    <3>1. CASE i \in (n + 1)..m
      <4>1. Blank(r[i]) /\ i \in 1..m
        BY <1>1, <1>2, <3>1 DEF IsLastWord
      <4> QED BY <1>3, <4>1 DEF Blank
    <3>2. CASE i \in (m + 1)..Len(u)
      BY <1>3, <3>2, LineFacts
    <3> QED BY <1>2, <1>3, <3>1, <3>2
  <2> QED BY <1>2, <1>3, <2>1, <2>2 DEF IsLastWord
<1>5. NormalizeSection(u) = Ended(SubSeq(u, 1, n)) /\ NormalizeSection(r) = Ended(SubSeq(r, 1, n))
  BY <1>1, <1>3, <1>4, NormalizeIs
<1>6. CASE n < m \/ EndsLine(r)
  <2>1. SubSeq(u, 1, n) \in Seq(Lines) /\ SubSeq(r, 1, n) \in Seq(Lines)
        /\ Len(SubSeq(u, 1, n)) = n /\ Len(SubSeq(r, 1, n)) = n
        /\ \A i \in 1..n : SubSeq(u, 1, n)[i] = u[i] /\ SubSeq(r, 1, n)[i] = r[i]
    BY <1>2, <1>3
  <2>2. \A i \in 1..n : u[i] = r[i]
    BY <1>2, <1>3, <1>6
  <2>3. SubSeq(u, 1, n) = SubSeq(r, 1, n)
    BY <2>1, <2>2, SeqEqual
  <2> QED BY <1>5, <2>3 DEF u
<1>7. CASE n = m /\ ~EndsLine(r)
  <2>1. SubSeq(r, 1, n) = r /\ SubSeq(u, 1, n) = u
    BY <1>3, <1>7, SubSeqFull
  <2>2. Ended(r) = u /\ Ended(u) = u
    BY <1>3, <1>7 DEF Ended, u
  <2> QED BY <1>5, <2>1, <2>2 DEF u
<1> QED BY <1>2, <1>6, <1>7

LEMMA NormalizeEnded ==
    ASSUME NEW r \in Seq(Lines)
    PROVE  NormalizeSection(Ended(r)) = NormalizeSection(r)
BY NormalizeNewline DEF Ended

\* A section stays one, with its key, when it is normalised.
LEMMA NormalizeKeeps ==
    ASSUME NEW r \in Seq(Lines), IsSection(r)
    PROVE  /\ IsSection(NormalizeSection(r))
           /\ SectionKey(NormalizeSection(r)) = SectionKey(r)
           /\ IsText(r) => IsText(NormalizeSection(r))
<1>1. PICK n : IsLastWord(n, r)
  BY LastWordExists
<1>2. Len(r) \in Nat /\ n \in 0..Len(r) /\ r # <<>> /\ IsHeader(r[1])
      /\ (\A i \in 2..Len(r) : ~IsHeader(r[i])) /\ Len(r) >= 1 /\ r[1] \in Lines
  BY <1>1, EmptySeq DEF IsLastWord, IsSection
<1>3. n >= 1
  <2> SUFFICES ASSUME n = 0 PROVE FALSE
    BY <1>2
  <2>1. 1 \in (n + 1)..Len(r)
    BY <1>2
  <2>2. Blank(r[1])
    BY <1>1, <2>1 DEF IsLastWord
  <2> QED BY <1>2, <2>2, LineFacts
<1> DEFINE u == SubSeq(r, 1, n)
<1>4. u \in Seq(Lines) /\ Len(u) = n /\ \A i \in 1..n : u[i] = r[i]
  BY <1>2
<1> HIDE DEF u
<1>5. u # <<>> /\ Head(u) = u[1] /\ Head(r) = r[1] /\ u[1] = r[1]
  BY <1>2, <1>3, <1>4, EmptySeq
<1>6. IsSection(u) /\ SectionKey(u) = SectionKey(r)
  <2>1. \A i \in 2..n : ~IsHeader(u[i])
    BY <1>2, <1>4
  <2> QED BY <1>2, <1>4, <1>5, <2>1 DEF IsSection, SectionKey
<1>7. IsText(r) => IsText(u)
  BY <1>2, <1>4 DEF IsText
<1>8. NormalizeSection(r) = Ended(u) /\ Extends(Ended(u), u) /\ Len(Ended(u)) = Len(u)
  BY <1>1, <1>4, NormalizeIs, EndedFacts DEF u
<1> QED BY <1>4, <1>6, <1>7, <1>8, ExtendsBlock, ExtendsText

-----------------------------------------------------------------------------
(* Texts *)

LEMMA ConcatText ==
    ASSUME NEW a \in Seq(Lines), NEW b \in Seq(Lines)
    PROVE  /\ a \o b \in Seq(Lines)
           /\ IsText(a) /\ IsText(b) /\ EndsLine(a) => IsText(a \o b)
           /\ EndsLine(a) /\ EndsLine(b) => EndsLine(a \o b)
           /\ IsText(a \o b) =>
                /\ IsText(a) /\ IsText(b)
                /\ b # <<>> => EndsLine(a)
                /\ EndsLine(a \o b) => EndsLine(b)
<1> DEFINE c == a \o b
           m == Len(a)
           n == Len(b)
<1>1. c \in Seq(Lines) /\ Len(c) = m + n /\ m \in Nat /\ n \in Nat
      /\ (\A i \in 1..m : c[i] = a[i]) /\ (\A i \in 1..n : c[m + i] = b[i])
      /\ DOMAIN a = 1..m /\ DOMAIN b = 1..n /\ DOMAIN c = 1..(m + n)
  OBVIOUS
<1>2. /\ EndsLine(a) <=> (m > 0 => a[m].nl)
      /\ EndsLine(b) <=> (n > 0 => b[n].nl)
      /\ b # <<>> => n > 0
  <2>1. (a = <<>> <=> m = 0) /\ (b = <<>> <=> n = 0) /\ m \in Nat /\ n \in Nat
    BY EmptySeq
  <2>2. (m > 0 <=> m # 0) /\ (n > 0 <=> n # 0)
    BY <1>1
  <2> HIDE DEF m, n
  <2> QED BY <2>1, <2>2 DEF EndsLine, Last, m, n
<1>3. EndsLine(c) <=> (m + n > 0 => c[m + n].nl)
  <2>1. c = <<>> <=> Len(c) = 0
    BY <1>1, EmptySeq
  <2> HIDE DEF c, m, n
  <2>2. c = <<>> <=> ~(m + n > 0)
    BY <1>1, <2>1
  <2> QED BY <1>1, <2>2 DEF EndsLine, Last
<1>4. /\ IsText(a) <=> \A i \in 1..m : i < m => a[i].nl
      /\ IsText(b) <=> \A i \in 1..n : i < n => b[i].nl
      /\ IsText(c) <=> \A i \in 1..(m + n) : i < m + n => c[i].nl
  BY <1>1 DEF IsText
<1> HIDE DEF c, m, n
<1>5. ASSUME IsText(a), IsText(b), EndsLine(a) PROVE IsText(c)
  <2> SUFFICES ASSUME NEW i \in 1..(m + n), i < m + n PROVE c[i].nl
    BY <1>4
  <2>1. CASE i < m
    BY <1>1, <1>4, <1>5, <2>1
  <2>2. CASE i = m
    BY <1>1, <1>2, <1>5, <2>2
  <2>3. CASE i > m
    <3>1. i - m \in 1..n /\ i - m < n /\ m + (i - m) = i
      BY <1>1, <2>3
    <3>2. b[i - m].nl /\ c[m + (i - m)] = b[i - m]
      BY <1>1, <1>4, <1>5, <3>1
    <3> QED BY <3>1, <3>2
  <2> QED BY <1>1, <2>1, <2>2, <2>3
<1>6. ASSUME EndsLine(a), EndsLine(b) PROVE EndsLine(c)
  <2> SUFFICES ASSUME m + n > 0 PROVE c[m + n].nl
    BY <1>3
  <2>1. CASE n = 0
    BY <1>1, <1>2, <1>6, <2>1
  <2>2. CASE n > 0
    <3>1. n \in 1..n
      BY <1>1, <2>2
    <3> QED BY <1>1, <1>2, <1>6, <2>2, <3>1
  <2> QED BY <1>1, <2>1, <2>2
<1>7. ASSUME IsText(c)
      PROVE  IsText(a) /\ IsText(b) /\ (b # <<>> => EndsLine(a)) /\ (EndsLine(c) => EndsLine(b))
  <2>1. IsText(a)
    <3>1. ASSUME NEW i \in 1..m, i < m PROVE a[i].nl
      <4>1. i \in 1..(m + n) /\ i < m + n
        BY <1>1, <3>1
      <4> QED BY <1>1, <1>4, <1>7, <4>1
    <3> QED BY <1>4, <3>1
  <2>2. IsText(b)
    <3>1. ASSUME NEW i \in 1..n, i < n PROVE b[i].nl
      <4>1. m + i \in 1..(m + n) /\ m + i < m + n
        BY <1>1, <3>1
      <4>2. c[m + i].nl /\ c[m + i] = b[i]
        BY <1>1, <1>4, <1>7, <4>1
      <4> QED BY <4>2
    <3> QED BY <1>4, <3>1
  <2>3. ASSUME b # <<>>, m > 0 PROVE a[m].nl
    <3>1. m \in 1..(m + n) /\ m < m + n /\ m \in 1..m
      BY <1>1, <1>2, <2>3
    <3> QED BY <1>1, <1>4, <1>7, <3>1
  <2>4. ASSUME EndsLine(c), n > 0 PROVE b[n].nl
    <3>1. m + n > 0 /\ n \in 1..n
      BY <1>1, <2>4
    <3>2. c[m + n].nl /\ c[m + n] = b[n]
      BY <1>1, <1>3, <2>4, <3>1
    <3> QED BY <3>2
  <2> QED BY <1>2, <2>1, <2>2, <2>3, <2>4
<1> QED BY <1>1, <1>5, <1>6, <1>7 DEF c

\* Every part is a text, and all but the last end their last lines.
AreParts(bs) ==
    /\ bs \in Seq(Seq(Lines))
    /\ \A j \in 1..Len(bs) : IsText(bs[j])
    /\ \A j \in 1..Len(bs) : j < Len(bs) => EndsLine(bs[j])

LEMMA FlattenText ==
    ASSUME NEW bs, AreParts(bs)
    PROVE  IsText(FlattenSeq(bs))
<1> DEFINE Good(cs) == AreParts(cs) =>
               /\ FlattenSeq(cs) \in Seq(Lines)
               /\ IsText(FlattenSeq(cs))
               /\ (\A j \in 1..Len(cs) : EndsLine(cs[j])) => EndsLine(FlattenSeq(cs))
           S == {cs \in Seq(Seq(Lines)) : Good(cs)}
<1>1. <<>> \in S
  <2>1. IsText(<<>>) /\ EndsLine(<<>>)
    BY DEF IsText, EndsLine
  <2> DEFINE e == <<>>
  <2>2. e \in Seq(Lines) /\ e \in Seq(Seq(Lines)) /\ FlattenSeq(e) = e /\ IsText(e) /\ EndsLine(e)
    BY <2>1, FlattenEmpty
  <2> HIDE DEF e
  <2> QED BY <2>2 DEF e
<1>2. ASSUME NEW cs \in Seq(Seq(Lines)), NEW b \in Seq(Lines), cs \in S PROVE Append(cs, b) \in S
  <2> DEFINE ds == Append(cs, b)
             n == Len(cs)
  <2>1. ds \in Seq(Seq(Lines)) /\ Len(ds) = n + 1 /\ ds[n + 1] = b
        /\ n \in Nat /\ \A i \in 1..n : ds[i] = cs[i]
    OBVIOUS
  <2>2. FlattenSeq(ds) = FlattenSeq(cs) \o b /\ FlattenSeq(cs) \in Seq(Lines)
    BY FlattenAppend
  <2> HIDE DEF ds
  <2> SUFFICES ASSUME AreParts(ds) PROVE Good(ds)
    BY <2>1 DEF ds
  <2>3. ASSUME NEW j \in 1..n PROVE IsText(cs[j]) /\ EndsLine(cs[j])
    <3>1. j \in 1..Len(ds) /\ j < Len(ds) /\ ds[j] = cs[j]
      BY <2>1
    <3>2. IsText(ds[j]) /\ EndsLine(ds[j])
      BY <3>1 DEF AreParts
    <3> QED BY <3>1, <3>2
  <2>4. AreParts(cs)
    BY <2>3 DEF AreParts
  <2>5. IsText(FlattenSeq(cs)) /\ EndsLine(FlattenSeq(cs))
    BY <1>2, <2>3, <2>4
  <2>6. IsText(b)
    <3>1. n + 1 \in 1..Len(ds)
      BY <2>1
    <3> QED BY <2>1, <3>1 DEF AreParts
  <2>7. IsText(FlattenSeq(cs) \o b) /\ FlattenSeq(cs) \o b \in Seq(Lines)
        /\ (EndsLine(b) => EndsLine(FlattenSeq(cs) \o b))
    BY <2>2, <2>5, <2>6, ConcatText
  <2>8. (\A j \in 1..Len(ds) : EndsLine(ds[j])) => EndsLine(b)
    <3>1. n + 1 \in 1..Len(ds)
      BY <2>1
    <3> QED BY <2>1, <3>1
  <2> QED BY <2>2, <2>7, <2>8
<1>3. Seq(Seq(Lines)) \subseteq S
  <2> HIDE DEF S
  <2> QED BY <1>1, <1>2, SeqInduction
<1> QED BY <1>3 DEF AreParts

LEMMA BlocksText ==
    ASSUME NEW t, IsText(t)
    PROVE  AreBlocks(Blocks(t)) /\ AreParts(Blocks(t))
<1> DEFINE Good(cs) == AreBlocks(cs) /\ IsText(FlattenSeq(cs)) =>
               /\ AreParts(cs)
               /\ EndsLine(FlattenSeq(cs)) => EndsLine(cs[Len(cs)])
           S == {cs \in Seq(Seq(Lines)) : Good(cs)}
<1>1. <<>> \in S
  BY DEF AreBlocks, BlockLists
<1>2. ASSUME NEW cs \in Seq(Seq(Lines)), NEW b \in Seq(Lines), cs \in S PROVE Append(cs, b) \in S
  <2> DEFINE ds == Append(cs, b)
             n == Len(cs)
  <2>1. ds \in Seq(Seq(Lines)) /\ Len(ds) = n + 1 /\ ds[n + 1] = b
        /\ n \in Nat /\ \A i \in 1..n : ds[i] = cs[i]
    OBVIOUS
  <2>2. FlattenSeq(ds) = FlattenSeq(cs) \o b /\ FlattenSeq(cs) \in Seq(Lines)
    BY FlattenAppend
  <2> HIDE DEF ds
  <2> SUFFICES ASSUME AreBlocks(ds), IsText(FlattenSeq(ds))
               PROVE  AreParts(ds) /\ (EndsLine(FlattenSeq(ds)) => EndsLine(ds[Len(ds)]))
    BY <2>1 DEF ds
  <2>3. /\ IsText(FlattenSeq(cs)) /\ IsText(b)
        /\ b # <<>> => EndsLine(FlattenSeq(cs))
        /\ EndsLine(FlattenSeq(ds)) => EndsLine(b)
    BY <2>2, ConcatText
  <2>4. ASSUME NEW j \in 1..n PROVE IsText(cs[j]) /\ EndsLine(cs[j])
    <3>1. n >= 1 /\ n + 1 \in 2..Len(ds) /\ \A i \in 1..n : i \in 1..Len(ds)
      BY <2>1
    <3>2. AreBlocks(cs)
      <4>1. cs # <<>>
        BY <3>1, EmptySeq
      <4>2. ds[1] = cs[1] /\ \A i \in 2..n : i \in 2..Len(ds) /\ ds[i] = cs[i]
        BY <2>1, <3>1
      <4> QED BY <4>1, <4>2 DEF AreBlocks, BlockLists
    <3>3. b # <<>>
      <4>1. IsSection(ds[n + 1])
        BY <3>1 DEF AreBlocks
      <4> QED BY <2>1, <4>1 DEF IsSection
    <3>4. AreParts(cs) /\ EndsLine(cs[n])
      BY <1>2, <2>3, <3>2, <3>3
    <3>5. j < n \/ j = n
      BY <2>1
    <3> QED BY <3>4, <3>5 DEF AreParts
  <2>5. AreParts(ds)
    <3>1. ASSUME NEW j \in 1..Len(ds) PROVE IsText(ds[j]) /\ (j < Len(ds) => EndsLine(ds[j]))
      <4>1. CASE j = n + 1
        BY <2>1, <2>3, <4>1
      <4>2. CASE j # n + 1
        <5>1. j \in 1..n /\ ds[j] = cs[j]
          BY <2>1, <4>2
        <5> QED BY <2>4, <5>1
      <4> QED BY <4>1, <4>2
    <3> QED BY <2>1, <3>1 DEF AreParts
  <2> QED BY <2>1, <2>3, <2>5
<1>3. Seq(Seq(Lines)) \subseteq S
  <2> HIDE DEF S
  <2> QED BY <1>1, <1>2, SeqInduction
<1>4. t \in Seq(Lines)
  BY DEF IsText
<1>5. AreBlocks(Blocks(t)) /\ FlattenSeq(Blocks(t)) = t
  BY <1>4, BlocksCorrect
<1>6. Blocks(t) \in S
  BY <1>3, <1>5 DEF AreBlocks, BlockLists
<1> QED BY <1>5, <1>6

-----------------------------------------------------------------------------
(* Sections *)

LEMMA ParseFacts ==
    ASSUME NEW t \in Seq(Lines)
    PROVE  /\ Blocks(t) \in Seq(Seq(Lines)) /\ Len(Blocks(t)) = Len(Parse(t)) + 1
           /\ Parse(t) \in Seq(Seq(Lines))
           /\ \A j \in 1..Len(Parse(t)) : Parse(t)[j] = Blocks(t)[j + 1] /\ IsSection(Parse(t)[j])
           /\ Preamble(t) = Blocks(t)[1] /\ Preamble(t) \in Seq(Lines) /\ NoHeader(Preamble(t))
<1> DEFINE bs == Blocks(t)
<1>1. AreBlocks(bs)
  BY BlocksCorrect
<1> HIDE DEF bs
<1>2. bs \in Seq(Seq(Lines)) /\ bs # <<>> /\ Len(bs) >= 1 /\ Len(bs) \in Nat
  BY <1>1, EmptySeq DEF AreBlocks, BlockLists
<1>3. Tail(bs) \in Seq(Seq(Lines)) /\ Len(Tail(bs)) = Len(bs) - 1 /\ Head(bs) = bs[1]
      /\ bs[1] \in Seq(Lines)
      /\ \A j \in 1..Len(Tail(bs)) : Tail(bs)[j] = bs[j + 1]
  BY <1>2
<1>4. Parse(t) = Tail(bs) /\ Preamble(t) = Head(bs)
  BY DEF Parse, Preamble, bs
<1>5. \A j \in 1..Len(Tail(bs)) : j + 1 \in 2..Len(bs)
  BY <1>2, <1>3
<1> QED BY <1>1, <1>2, <1>3, <1>4, <1>5 DEF AreBlocks, bs

\* Render writes the preamble and the sections one after the other.
Render(preamble, sections) == FlattenSeq(<<preamble>> \o sections)

\* Parsing loses nothing: a text is rendered from its preamble and its sections,
\* and what is rendered from others is parsed into those (file.go:23-55), so that
\* a merge may speak of the sections of the file it writes.
THEOREM ParseAndRender ==
    /\ \A t \in Seq(Lines) : Render(Preamble(t), Parse(t)) = t
    /\ \A p \in Seq(Lines), ss \in Seq(Seq(Lines)) :
          NoHeader(p) /\ (\A j \in 1..Len(ss) : IsSection(ss[j])) =>
              LET t == Render(p, ss) IN Preamble(t) = p /\ Parse(t) = ss
<1>1. ASSUME NEW t \in Seq(Lines) PROVE Render(Preamble(t), Parse(t)) = t
  <2>1. Blocks(t) \in Seq(Seq(Lines)) /\ Len(Blocks(t)) = Len(Parse(t)) + 1
    BY ParseFacts
  <2>2. FlattenSeq(Blocks(t)) = t
    BY BlocksCorrect
  <2> DEFINE bs == Blocks(t)
  <2>3. bs # <<>>
    BY <2>1
  <2> HIDE DEF bs
  <2>4. <<Head(bs)>> \o Tail(bs) = bs
    BY <2>1, <2>3 DEF bs
  <2> QED BY <2>2, <2>4 DEF Render, Preamble, Parse, bs
<1>2. ASSUME NEW p \in Seq(Lines), NEW ss \in Seq(Seq(Lines)),
             NoHeader(p), \A j \in 1..Len(ss) : IsSection(ss[j])
      PROVE  Preamble(Render(p, ss)) = p /\ Parse(Render(p, ss)) = ss
  <2> DEFINE bs == <<p>> \o ss
  <2>1. bs \in Seq(Seq(Lines)) /\ Len(bs) = Len(ss) + 1 /\ bs[1] = p /\ Len(ss) \in Nat
        /\ \A j \in 1..Len(ss) : bs[j + 1] = ss[j]
    OBVIOUS
  <2>2. Head(bs) = p /\ Tail(bs) = ss
    OBVIOUS
  <2> HIDE DEF bs
  <2>3. AreBlocks(bs)
    <3>1. ASSUME NEW j \in 2..Len(bs) PROVE IsSection(bs[j])
      <4>1. j - 1 \in 1..Len(ss) /\ j = (j - 1) + 1
        BY <2>1
      <4>2. bs[j] = ss[j - 1]
        BY <2>1, <4>1
      <4> QED BY <1>2, <4>1, <4>2
    <3>2. bs # <<>>
      BY <2>1
    <3> QED BY <1>2, <2>1, <3>1, <3>2 DEF AreBlocks, BlockLists
  <2>4. Blocks(FlattenSeq(bs)) = bs
    BY <2>3, BlocksOfFlatten
  <2> QED BY <2>2, <2>4 DEF Render, Preamble, Parse, bs
<1> QED BY <1>1, <1>2

LEMMA ParseItems ==
    ASSUME NEW t \in Seq(Lines), NEW j \in 1..Len(Parse(t))
    PROVE  /\ Parse(t)[j] \in Seq(Lines) /\ IsSection(Parse(t)[j])
           /\ Parse(t)[j] = Blocks(t)[j + 1] /\ j + 1 \in 1..Len(Blocks(t))
<1> DEFINE ss == Parse(t)
           bs == Blocks(t)
<1>1. /\ bs \in Seq(Seq(Lines)) /\ Len(bs) = Len(ss) + 1 /\ ss \in Seq(Seq(Lines))
      /\ ss[j] = bs[j + 1] /\ IsSection(ss[j])
  BY ParseFacts
<1> HIDE DEF ss, bs
<1>2. j \in 1..Len(ss)
  BY DEF ss
<1>3. Len(ss) \in Nat
  BY <1>1
<1>4. j + 1 \in 1..Len(bs)
  BY <1>1, <1>2, <1>3
<1>5. ss[j] \in Seq(Lines)
  BY <1>1, <1>2
<1> QED BY <1>1, <1>4, <1>5 DEF ss, bs

\* Where sections are, the first of each key is.
LEMMA FirstExists ==
    ASSUME NEW ss \in Seq(Seq(Lines)), NEW k \in KeysOf(ss)
    PROVE  \E m \in 1..Len(ss) : SectionKey(ss[m]) = k /\ IsFirst(ss, m)
<1> DEFINE S == {j \in 1..Len(ss) : SectionKey(ss[j]) = k}
<1>0. DOMAIN ss = 1..Len(ss) /\ Len(ss) \in Nat
  OBVIOUS
<1>1. S # {} /\ S \in SUBSET Nat
  <2>1. PICK j \in DOMAIN ss : SectionKey(ss[j]) = k
    BY DEF KeysOf
  <2>2. j \in S
    BY <1>0, <2>1
  <2>3. S \in SUBSET Nat
    BY <1>0
  <2> HIDE DEF S
  <2> QED BY <2>2, <2>3
<1>2. PICK m \in S : \A j \in S : m <= j
  <2> HIDE DEF S
  <2> QED BY <1>1, Least
<1>3. ASSUME NEW i \in 1..(m - 1) PROVE SectionKey(ss[i]) # k
  <2>1. i \in 1..Len(ss) /\ ~(m <= i)
    OBVIOUS
  <2> QED BY <1>2, <2>1
<1> QED BY <1>2, <1>3 DEF IsFirst

LEMMA FindIs ==
    ASSUME NEW t \in Seq(Lines), NEW m \in 1..Len(Parse(t)), IsFirst(Parse(t), m)
    PROVE  FindSection(t, SectionKey(Parse(t)[m])) = Parse(t)[m]
<1> DEFINE ss == Parse(t)
           k == SectionKey(ss[m])
           S == PositionsOf(ss, k)
<1>1. ss \in Seq(Seq(Lines)) /\ DOMAIN ss = 1..Len(ss) /\ Len(ss) \in Nat
  BY ParseFacts
<1>2. m \in S /\ \A j \in S : j \in Nat /\ m <= j
  <2>1. m \in S
    BY <1>1 DEF PositionsOf
  <2>2. ASSUME NEW j \in S PROVE j \in Nat /\ m <= j
    <3>1. j \in 1..Len(ss) /\ SectionKey(ss[j]) = k
      BY <1>1 DEF PositionsOf
    <3>2. j \notin 1..(m - 1)
      BY <3>1 DEF IsFirst
    <3> QED BY <1>1, <3>1, <3>2
  <2> QED BY <2>1, <2>2
<1> HIDE DEF S
<1>3. Min(S) \in S /\ \A j \in S : Min(S) <= j
  BY <1>2 DEF Min
<1>4. Min(S) = m
  <2>1. Min(S) \in Nat /\ m \in Nat /\ m <= Min(S) /\ Min(S) <= m
    BY <1>2, <1>3
  <2> QED BY <2>1
<1> QED BY <1>2, <1>4 DEF FindSection, S

LEMMA FindFacts ==
    ASSUME NEW t \in Seq(Lines), NEW k
    PROVE  /\ k \notin KeysOf(Parse(t)) => FindSection(t, k) = <<>>
           /\ k \in KeysOf(Parse(t)) =>
                \E m \in 1..Len(Parse(t)) :
                    /\ SectionKey(Parse(t)[m]) = k
                    /\ IsFirst(Parse(t), m)
                    /\ FindSection(t, k) = Parse(t)[m]
<1>1. CASE k \notin KeysOf(Parse(t))
  <2>1. PositionsOf(Parse(t), k) = {}
    BY <1>1 DEF PositionsOf, KeysOf
  <2> QED BY <1>1, <2>1 DEF FindSection
<1>2. CASE k \in KeysOf(Parse(t))
  <2>1. PICK m \in 1..Len(Parse(t)) : SectionKey(Parse(t)[m]) = k /\ IsFirst(Parse(t), m)
    BY <1>2, ParseFacts, FirstExists
  <2>2. FindSection(t, k) = Parse(t)[m]
    BY <2>1, FindIs
  <2> QED BY <1>2, <2>1, <2>2
<1> QED BY <1>1, <1>2

\* What a key of an incoming text is replaced by.
LEMMA IncomingFacts ==
    ASSUME NEW text \in Seq(Lines)
    PROVE  /\ DOMAIN Incoming(text) = KeysOf(Parse(text))
           /\ \A k \in KeysOf(Parse(text)) :
                /\ Incoming(text)[k] \in Seq(Lines)
                /\ IsSection(Incoming(text)[k])
                /\ SectionKey(Incoming(text)[k]) = k
                /\ EndsLine(Incoming(text)[k])
                /\ NormalizeSection(Incoming(text)[k]) = Incoming(text)[k]
                /\ IsText(text) => IsText(Incoming(text)[k])
<1>1. DOMAIN Incoming(text) = KeysOf(Parse(text))
  BY DEF Incoming
<1>2. ASSUME NEW k \in KeysOf(Parse(text))
      PROVE  /\ Incoming(text)[k] \in Seq(Lines)
             /\ IsSection(Incoming(text)[k])
             /\ SectionKey(Incoming(text)[k]) = k
             /\ EndsLine(Incoming(text)[k])
             /\ NormalizeSection(Incoming(text)[k]) = Incoming(text)[k]
             /\ IsText(text) => IsText(Incoming(text)[k])
  <2>1. PICK m \in 1..Len(Parse(text)) :
            SectionKey(Parse(text)[m]) = k /\ FindSection(text, k) = Parse(text)[m]
    BY FindFacts
  <2> DEFINE r == Parse(text)[m]
             u == NormalizeSection(r)
  <2>2. r \in Seq(Lines) /\ IsSection(r) /\ r = Blocks(text)[m + 1]
        /\ m + 1 \in 1..Len(Blocks(text))
    BY ParseItems
  <2>3. IsText(text) => IsText(r)
    BY <2>2, BlocksText DEF AreParts
  <2>4. Incoming(text)[k] = u
    BY <2>1 DEF Incoming
  <2> HIDE DEF r
  <2>5. PICK n : IsLastWord(n, r)
    BY <2>2, LastWordExists
  <2>6. u \in Seq(Lines) /\ EndsLine(u)
    BY <2>2, <2>5, NormalizeIs
  <2>7. NormalizeSection(u) = u
    BY <2>2, NormalizeAgain
  <2>8. IsSection(u) /\ SectionKey(u) = k /\ (IsText(r) => IsText(u))
    BY <2>1, <2>2, NormalizeKeeps DEF r
  <2> QED BY <2>3, <2>4, <2>6, <2>7, <2>8
<1> QED BY <1>1, <1>2

LEMMA KeptFacts ==
    ASSUME NEW ss \in Seq(Seq(Lines)), NEW keys
    PROVE  /\ Lists(Kept(ss, keys), {j \in 1..Len(ss) : SectionKey(ss[j]) \in keys => IsFirst(ss, j)})
           /\ Lists(Others(ss, keys), {j \in 1..Len(ss) : SectionKey(ss[j]) \notin keys})
<1> DEFINE K == {j \in DOMAIN ss : SectionKey(ss[j]) \in keys => IsFirst(ss, j)}
           O == {j \in DOMAIN ss : SectionKey(ss[j]) \notin keys}
<1>1. Len(ss) \in Nat /\ DOMAIN ss = 1..Len(ss)
  OBVIOUS
<1>2. /\ K \cap 1..Len(ss) = {j \in 1..Len(ss) : SectionKey(ss[j]) \in keys => IsFirst(ss, j)}
      /\ O \cap 1..Len(ss) = {j \in 1..Len(ss) : SectionKey(ss[j]) \notin keys}
  BY <1>1
<1>3. Lists(InOrder(Len(ss), K), K \cap 1..Len(ss)) /\ Lists(InOrder(Len(ss), O), O \cap 1..Len(ss))
  <2> HIDE DEF K, O
  <2> QED BY <1>1, InOrderLists
<1> QED BY <1>2, <1>3 DEF Kept, Others

-----------------------------------------------------------------------------
(* The parts of the merged file *)

LEMMA ConcatItems ==
    ASSUME NEW S, NEW a \in Seq(S), NEW b \in Seq(S)
    PROVE  /\ a \o b \in Seq(S) /\ Len(a \o b) = Len(a) + Len(b)
           /\ \A i \in 1..Len(a) : (a \o b)[i] = a[i]
           /\ \A i \in 1..Len(b) : (a \o b)[Len(a) + i] = b[i]
OBVIOUS

Parts == [text : Seq(Lines), written : BOOLEAN, appended : BOOLEAN]
KeptOf(t, text) == Kept(Parse(t), KeysOf(Parse(text)))
AddedOf(t, text) == Others(Parse(text), KeysOf(Parse(t)))

LEMMA PartTypes ==
    ASSUME NEW b \in Seq(Lines)
    PROVE  /\ Old(b) \in Parts /\ Old(b).text = b /\ ~Old(b).written /\ ~Old(b).appended
           /\ Written(b, FALSE) \in Parts /\ Written(b, FALSE).text = b
           /\ Written(b, FALSE).written /\ ~Written(b, FALSE).appended
           /\ Written(b, TRUE) \in Parts /\ Written(b, TRUE).text = b
           /\ Written(b, TRUE).written /\ Written(b, TRUE).appended
BY DEF Parts, Old, Written

\* The part of a section that is kept.
ChunkOf(s, text) ==
    IF SectionKey(s) \in KeysOf(Parse(text))
      THEN Written(Incoming(text)[SectionKey(s)], FALSE)
      ELSE Old(s)

LEMMA ChunksAre ==
    ASSUME NEW t \in Seq(Lines), NEW text \in Seq(Lines)
    PROVE  /\ Chunks(t, text) \in Seq(Parts)
           /\ Len(KeptOf(t, text)) \in Nat /\ Len(AddedOf(t, text)) \in Nat
           /\ Len(Chunks(t, text)) = 1 + Len(KeptOf(t, text)) + Len(AddedOf(t, text))
           /\ Chunks(t, text)[1] = Old(Preamble(t))
           /\ \A k \in 1..Len(KeptOf(t, text)) :
                 /\ KeptOf(t, text)[k] \in 1..Len(Parse(t))
                 /\ Chunks(t, text)[1 + k] = ChunkOf(Parse(t)[KeptOf(t, text)[k]], text)
           /\ \A k \in 1..Len(AddedOf(t, text)) :
                 /\ AddedOf(t, text)[k] \in 1..Len(Parse(text))
                 /\ Chunks(t, text)[1 + Len(KeptOf(t, text)) + k] =
                      Written(Incoming(text)[SectionKey(Parse(text)[AddedOf(t, text)[k]])], TRUE)
<1> DEFINE old == Parse(t)
           new == Parse(text)
           incoming == Incoming(text)
           keys == KeysOf(new)
           kept == KeptOf(t, text)
           added == AddedOf(t, text)
           chunk(s) == IF SectionKey(s) \in keys THEN Written(incoming[SectionKey(s)], FALSE) ELSE Old(s)
           A == <<Old(Preamble(t))>>
           B == [k \in DOMAIN kept |-> chunk(old[kept[k]])]
           C == [k \in DOMAIN added |-> Written(incoming[SectionKey(new[added[k]])], TRUE)]
<1>1. old \in Seq(Seq(Lines)) /\ new \in Seq(Seq(Lines)) /\ Preamble(t) \in Seq(Lines)
      /\ DOMAIN old = 1..Len(old) /\ DOMAIN new = 1..Len(new)
  BY ParseFacts
<1>2. DOMAIN incoming = keys /\ \A k \in keys : incoming[k] \in Seq(Lines)
  BY IncomingFacts
<1>3. kept \in Seq(Nat) /\ \A k \in DOMAIN kept : kept[k] \in 1..Len(old)
  <2>1. Lists(Kept(old, keys), {j \in 1..Len(old) : SectionKey(old[j]) \in keys => IsFirst(old, j)})
    BY <1>1, KeptFacts
  <2> QED BY <2>1 DEF Lists, KeptOf
<1>4. added \in Seq(Nat) /\ \A k \in DOMAIN added : added[k] \in 1..Len(new)
  <2>1. Lists(Others(new, KeysOf(old)), {j \in 1..Len(new) : SectionKey(new[j]) \notin KeysOf(old)})
    BY <1>1, KeptFacts
  <2> QED BY <2>1 DEF Lists, AddedOf
<1>5. Chunks(t, text) = A \o B \o C
  BY <1>2 DEF Chunks, KeptOf, AddedOf
<1> DEFINE m == Len(kept)
           n == Len(added)
<1>6. m \in Nat /\ n \in Nat /\ DOMAIN kept = 1..m /\ DOMAIN added = 1..n
  BY <1>3, <1>4
<1>7. \A s \in Seq(Lines) : chunk(s) \in Parts
  BY <1>2, PartTypes
<1>8. \A j \in 1..Len(new) : SectionKey(new[j]) \in keys
  BY <1>1 DEF KeysOf
<1> HIDE DEF old, new, incoming, keys, kept, added, chunk, m, n
<1>9. A \in Seq(Parts) /\ Len(A) = 1 /\ A[1] = Old(Preamble(t))
  <2>1. Old(Preamble(t)) \in Parts
    BY <1>1, PartTypes
  <2> QED BY <2>1
<1>10. B \in Seq(Parts) /\ Len(B) = m /\ \A k \in 1..m : B[k] = chunk(old[kept[k]])
  <2>1. ASSUME NEW k \in 1..m PROVE chunk(old[kept[k]]) \in Parts
    <3>1. kept[k] \in 1..Len(old)
      BY <1>3, <1>6
    <3>2. old[kept[k]] \in Seq(Lines)
      BY <1>1, <3>1
    <3> QED BY <1>7, <3>2
  <2> QED BY <1>6, <2>1
<1>11. C \in Seq(Parts) /\ Len(C) = n
       /\ \A k \in 1..n : C[k] = Written(incoming[SectionKey(new[added[k]])], TRUE)
  <2>1. \A k \in 1..n : incoming[SectionKey(new[added[k]])] \in Seq(Lines)
    BY <1>2, <1>4, <1>6, <1>8
  <2> DEFINE w(k) == Written(incoming[SectionKey(new[added[k]])], TRUE)
  <2>2. \A k \in 1..n : w(k) \in Parts
    BY <2>1, PartTypes
  <2>3. C = [k \in 1..n |-> w(k)]
    BY <1>6
  <2> HIDE DEF w, C
  <2>4. C \in Seq(Parts) /\ Len(C) = n /\ \A k \in 1..n : C[k] = w(k)
    BY <1>6, <2>2, <2>3
  <2> QED BY <2>4 DEF w
<1> HIDE DEF A, B, C
<1>12. A \o B \in Seq(Parts) /\ Len(A \o B) = 1 + m /\ (A \o B)[1] = A[1]
       /\ \A k \in 1..m : (A \o B)[1 + k] = B[k]
  <2>0. A \in Seq(Parts) /\ B \in Seq(Parts)
    BY <1>9, <1>10
  <2>1. /\ A \o B \in Seq(Parts) /\ Len(A \o B) = Len(A) + Len(B)
        /\ \A i \in 1..Len(A) : (A \o B)[i] = A[i]
        /\ \A i \in 1..Len(B) : (A \o B)[Len(A) + i] = B[i]
    BY <2>0
  <2>2. 1 \in 1..Len(A)
    BY <1>9
  <2> QED BY <1>6, <1>9, <1>10, <2>1, <2>2
<1> DEFINE AB == A \o B
<1> HIDE DEF AB
<1>13. AB \in Seq(Parts) /\ Len(AB) = 1 + m /\ AB[1] = Old(Preamble(t))
       /\ \A k \in 1..m : AB[1 + k] = chunk(old[kept[k]])
  BY <1>9, <1>10, <1>12 DEF AB
<1>14. AB \o C \in Seq(Parts) /\ Len(AB \o C) = 1 + m + n
       /\ (\A k \in 1..(1 + m) : (AB \o C)[k] = AB[k])
       /\ (\A k \in 1..n : (AB \o C)[1 + m + k] = C[k])
  <2>0. AB \in Seq(Parts) /\ C \in Seq(Parts)
    BY <1>11, <1>13
  <2>1. /\ AB \o C \in Seq(Parts) /\ Len(AB \o C) = Len(AB) + Len(C)
        /\ \A i \in 1..Len(AB) : (AB \o C)[i] = AB[i]
        /\ \A i \in 1..Len(C) : (AB \o C)[Len(AB) + i] = C[i]
    BY <2>0
  <2> QED BY <1>6, <1>11, <1>13, <2>1
<1>15. 1 \in 1..(1 + m) /\ \A k \in 1..m : 1 + k \in 1..(1 + m)
  BY <1>6
<1>16. Chunks(t, text) = AB \o C
  BY <1>5 DEF AB
<1>17. Chunks(t, text)[1] = Old(Preamble(t))
       /\ \A k \in 1..m : Chunks(t, text)[1 + k] = chunk(old[kept[k]])
  BY <1>13, <1>14, <1>15, <1>16
<1>18. \A k \in 1..n : Chunks(t, text)[1 + m + k] = Written(incoming[SectionKey(new[added[k]])], TRUE)
  BY <1>11, <1>14, <1>16
<1>19. Chunks(t, text) \in Seq(Parts) /\ Len(Chunks(t, text)) = 1 + m + n
  BY <1>14, <1>16
<1>20. \A k \in 1..m : Chunks(t, text)[1 + k] = ChunkOf(old[kept[k]], text)
  BY <1>17 DEF chunk, ChunkOf, incoming, keys, new
<1> QED BY <1>3, <1>4, <1>6, <1>17, <1>18, <1>19, <1>20 DEF old, new, incoming, kept, added, m, n

KeyOf(chunks, i) == SectionKey(chunks[i].text)

\* What is known of the part of a section that is kept, and of one that is added.
IsKeptPart(c, s, text) ==
    /\ c \in Parts /\ IsSection(c.text) /\ SectionKey(c.text) = SectionKey(s)
    /\ ~c.appended
    /\ SectionKey(s) \in KeysOf(Parse(text)) =>
         c.written /\ c.text = Incoming(text)[SectionKey(s)] /\ EndsLine(c.text)
    /\ SectionKey(s) \notin KeysOf(Parse(text)) => ~c.written /\ c.text = s

IsAddedPart(c, s, text) ==
    /\ c \in Parts /\ IsSection(c.text) /\ SectionKey(c.text) = SectionKey(s)
    /\ SectionKey(s) \in KeysOf(Parse(text))
    /\ c.written /\ c.appended /\ c.text = Incoming(text)[SectionKey(s)] /\ EndsLine(c.text)

LEMMA ChunkKinds ==
    ASSUME NEW t \in Seq(Lines), NEW text \in Seq(Lines)
    PROVE  /\ \A k \in 1..Len(KeptOf(t, text)) :
                IsKeptPart(Chunks(t, text)[1 + k], Parse(t)[KeptOf(t, text)[k]], text)
           /\ \A k \in 1..Len(AddedOf(t, text)) :
                IsAddedPart(Chunks(t, text)[1 + Len(KeptOf(t, text)) + k],
                            Parse(text)[AddedOf(t, text)[k]], text)
           /\ \A i \in 2..Len(Chunks(t, text)) :
                \/ i - 1 \in 1..Len(KeptOf(t, text)) /\ i = 1 + (i - 1)
                \/ /\ i - (1 + Len(KeptOf(t, text))) \in 1..Len(AddedOf(t, text))
                   /\ i = 1 + Len(KeptOf(t, text)) + (i - (1 + Len(KeptOf(t, text))))
<1> DEFINE C == Chunks(t, text)
           kept == KeptOf(t, text)
           added == AddedOf(t, text)
           m == Len(kept)
           n == Len(added)
           D == KeysOf(Parse(text))
<1>1. \A k \in D : LET r == Incoming(text)[k] IN
                     r \in Seq(Lines) /\ IsSection(r) /\ SectionKey(r) = k /\ EndsLine(r)
  BY IncomingFacts
<1>0. \A k \in 1..m :
          /\ kept[k] \in 1..Len(Parse(t))
          /\ C[1 + k] = ChunkOf(Parse(t)[kept[k]], text)
  BY ChunksAre
<1>6. \A k \in 1..n :
          /\ added[k] \in 1..Len(Parse(text))
          /\ C[1 + m + k] = Written(Incoming(text)[SectionKey(Parse(text)[added[k]])], TRUE)
  BY ChunksAre
<1>2. ASSUME NEW k \in 1..m PROVE IsKeptPart(C[1 + k], Parse(t)[kept[k]], text)
  <2> DEFINE s == Parse(t)[kept[k]]
             key == SectionKey(s)
             r == Incoming(text)[key]
  <2>1. s \in Seq(Lines) /\ IsSection(s)
        /\ C[1 + k] = IF key \in D THEN Written(r, FALSE) ELSE Old(s)
    <3>1. kept[k] \in 1..Len(Parse(t)) /\ C[1 + k] = IF key \in D THEN Written(r, FALSE) ELSE Old(s)
      <4> HIDE DEF kept, m, C
      <4> QED BY <1>0 DEF ChunkOf
    <3>2. Parse(t) \in Seq(Seq(Lines)) /\ \A j \in 1..Len(Parse(t)) : IsSection(Parse(t)[j])
      BY ParseFacts
    <3> HIDE DEF kept, C
    <3> QED BY <3>1, <3>2
  <2> HIDE DEF s, C
  <2> HIDE DEF D
  <2>2. ASSUME key \in D PROVE IsKeptPart(C[1 + k], s, text)
    <3>1. r \in Seq(Lines) /\ IsSection(r) /\ SectionKey(r) = key /\ EndsLine(r)
      BY <1>1, <2>2, Zenon
    <3>2. C[1 + k] = Written(r, FALSE)
      BY <2>1, <2>2
    <3>3. C[1 + k] \in Parts /\ C[1 + k].text = r /\ C[1 + k].written /\ ~C[1 + k].appended
      <4> HIDE DEF r
      <4> QED BY <3>1, <3>2, PartTypes, Zenon
    <3> HIDE DEF key
    <3>4. key = SectionKey(s)
      BY DEF key
    <3> QED BY <2>2, <3>1, <3>3, <3>4 DEF IsKeptPart, D
  <2>3. ASSUME key \notin D PROVE IsKeptPart(C[1 + k], s, text)
    <3>1. C[1 + k] = Old(s)
      BY <2>1, <2>3
    <3>2. C[1 + k] \in Parts /\ C[1 + k].text = s /\ ~C[1 + k].written /\ ~C[1 + k].appended
      BY <2>1, <3>1, PartTypes
    <3> QED BY <2>1, <2>3, <3>2 DEF IsKeptPart, D
  <2>4. IsKeptPart(C[1 + k], s, text)
    BY <2>2, <2>3
  <2> QED BY <2>4 DEF s
<1>3. ASSUME NEW k \in 1..n PROVE IsAddedPart(C[1 + m + k], Parse(text)[added[k]], text)
  <2> DEFINE s == Parse(text)[added[k]]
             key == SectionKey(s)
             r == Incoming(text)[key]
  <2>1. added[k] \in DOMAIN Parse(text) /\ C[1 + m + k] = Written(r, TRUE)
    <3>1. Parse(text) \in Seq(Seq(Lines))
      BY ParseFacts
    <3>2. DOMAIN Parse(text) = 1..Len(Parse(text))
      BY <3>1
    <3> HIDE DEF added, C, m, n
    <3>3. added[k] \in 1..Len(Parse(text)) /\ C[1 + m + k] = Written(r, TRUE)
      BY <1>6, Zenon
    <3> QED BY <3>2, <3>3
  <2>2. key \in D
    BY <2>1 DEF KeysOf
  <2> HIDE DEF s, C, D
  <2>3. r \in Seq(Lines) /\ IsSection(r) /\ SectionKey(r) = key /\ EndsLine(r)
    BY <1>1, <2>2
  <2>4. C[1 + m + k] \in Parts /\ C[1 + m + k].text = r /\ C[1 + m + k].written
        /\ C[1 + m + k].appended
    <3> HIDE DEF r
    <3> QED BY <2>1, <2>3, PartTypes, Zenon
  <2>5. IsAddedPart(C[1 + m + k], s, text)
    <3> HIDE DEF key
    <3>1. key = SectionKey(s)
      BY DEF key
    <3> QED BY <2>2, <2>3, <2>4, <3>1 DEF IsAddedPart, D
  <2> QED BY <2>5 DEF s
<1>4. m \in Nat /\ n \in Nat /\ Len(C) = 1 + m + n
  BY ChunksAre
<1> HIDE DEF m, n, C
<1>5. \A i \in 2..Len(C) : \/ i - 1 \in 1..m /\ i = 1 + (i - 1)
                           \/ i - (1 + m) \in 1..n /\ i = 1 + m + (i - (1 + m))
  BY <1>4
<1> QED BY <1>2, <1>3, <1>5 DEF m, n, C

Distinct(text) ==
    \A i, j \in 1..Len(Parse(text)) :
        SectionKey(Parse(text)[i]) = SectionKey(Parse(text)[j]) => i = j

LEMMA ChunkKeys ==
    ASSUME NEW t \in Seq(Lines), NEW text \in Seq(Lines)
    PROVE  LET C == Chunks(t, text)
               D == KeysOf(Parse(text))
           IN /\ \A i \in 2..Len(C) :
                   /\ C[i] \in Parts /\ IsSection(C[i].text)
                   /\ C[i].written <=> KeyOf(C, i) \in D
                   /\ C[i].written => C[i].text = Incoming(text)[KeyOf(C, i)] /\ EndsLine(C[i].text)
                   /\ C[i].appended => C[i].written
              /\ \A k \in D : \E i \in 2..Len(C) : KeyOf(C, i) = k
              /\ Distinct(text) =>
                   \A i, j \in 2..Len(C) : KeyOf(C, i) = KeyOf(C, j) /\ KeyOf(C, i) \in D => i = j
<1> DEFINE C == Chunks(t, text)
           kept == KeptOf(t, text)
           added == AddedOf(t, text)
           m == Len(kept)
           n == Len(added)
           old == Parse(t)
           new == Parse(text)
           D == KeysOf(new)
<1>1. /\ \A k \in 1..m : IsKeptPart(C[1 + k], old[kept[k]], text) /\ kept[k] \in 1..Len(old)
      /\ \A k \in 1..n : IsAddedPart(C[1 + m + k], new[added[k]], text) /\ added[k] \in 1..Len(new)
  BY ChunkKinds, ChunksAre
<1>2. \A i \in 2..Len(C) : \/ i - 1 \in 1..m /\ i = 1 + (i - 1)
                           \/ i - (1 + m) \in 1..n /\ i = 1 + m + (i - (1 + m))
  BY ChunkKinds
<1>3. m \in Nat /\ n \in Nat /\ Len(C) = 1 + m + n
  BY ChunksAre
<1>4. old \in Seq(Seq(Lines)) /\ new \in Seq(Seq(Lines))
  BY ParseFacts
<1>5. /\ Lists(kept, {j \in 1..Len(old) : SectionKey(old[j]) \in D => IsFirst(old, j)})
      /\ Lists(added, {j \in 1..Len(new) : SectionKey(new[j]) \notin KeysOf(old)})
  BY <1>4, KeptFacts DEF KeptOf, AddedOf
<1> HIDE DEF C, kept, added, old, new
<1>6. DOMAIN kept = 1..m /\ DOMAIN added = 1..n
  BY <1>5 DEF Lists
<1> HIDE DEF m, n
<1>7. ASSUME NEW i \in 2..Len(C)
      PROVE  /\ C[i] \in Parts /\ IsSection(C[i].text)
             /\ C[i].written <=> KeyOf(C, i) \in D
             /\ C[i].written => C[i].text = Incoming(text)[KeyOf(C, i)] /\ EndsLine(C[i].text)
             /\ C[i].appended => C[i].written
  <2>1. CASE i - 1 \in 1..m /\ i = 1 + (i - 1)
    <3>1. IsKeptPart(C[i], old[kept[i - 1]], text)
      BY <1>1, <2>1
    <3> QED BY <3>1 DEF IsKeptPart, KeyOf, new
  <2>2. CASE i - (1 + m) \in 1..n /\ i = 1 + m + (i - (1 + m))
    <3>1. IsAddedPart(C[i], new[added[i - (1 + m)]], text)
      BY <1>1, <2>2
    <3> QED BY <3>1 DEF IsAddedPart, KeyOf, new
  <2> QED BY <1>2, <2>1, <2>2
<1>8. ASSUME NEW k \in D PROVE \E i \in 2..Len(C) : KeyOf(C, i) = k
  <2>1. CASE k \in KeysOf(old)
    <3>1. PICK p \in 1..Len(old) : SectionKey(old[p]) = k /\ IsFirst(old, p)
      BY <1>4, <2>1, FirstExists
    <3>2. PICK x \in 1..m : kept[x] = p
      BY <1>5, <1>6, <3>1 DEF Lists
    <3>3. 1 + x \in 2..Len(C)
      BY <1>3
    <3>4. KeyOf(C, 1 + x) = k
      BY <1>1, <3>1, <3>2 DEF IsKeptPart, KeyOf
    <3> QED BY <3>3, <3>4
  <2>2. CASE k \notin KeysOf(old)
    <3>1. PICK q \in 1..Len(new) : SectionKey(new[q]) = k
      <4>1. DOMAIN new = 1..Len(new)
        BY <1>4
      <4> QED BY <4>1 DEF KeysOf
    <3>2. PICK x \in 1..n : added[x] = q
      BY <1>5, <1>6, <2>2, <3>1 DEF Lists
    <3>3. 1 + m + x \in 2..Len(C)
      BY <1>3
    <3>4. KeyOf(C, 1 + m + x) = k
      BY <1>1, <3>1, <3>2 DEF IsAddedPart, KeyOf
    <3> QED BY <3>3, <3>4
  <2> QED BY <2>1, <2>2
<1>9. ASSUME Distinct(text), NEW i \in 2..Len(C), NEW j \in 2..Len(C),
             KeyOf(C, i) = KeyOf(C, j), KeyOf(C, i) \in D
      PROVE  i = j
  <2>1. \A x \in 1..m : /\ KeyOf(C, 1 + x) = SectionKey(old[kept[x]])
                        /\ kept[x] \in 1..Len(old)
                        /\ SectionKey(old[kept[x]]) \in D => IsFirst(old, kept[x])
    BY <1>1, <1>5, <1>6 DEF IsKeptPart, KeyOf, Lists
  <2>2. \A x \in 1..n : /\ KeyOf(C, 1 + m + x) = SectionKey(new[added[x]])
                        /\ added[x] \in 1..Len(new)
                        /\ SectionKey(new[added[x]]) \notin KeysOf(old)
    BY <1>1, <1>5, <1>6 DEF IsAddedPart, KeyOf, Lists
  <2>9. /\ kept \in Seq(Nat) /\ \A x, y \in DOMAIN kept : x < y => kept[x] < kept[y]
        /\ added \in Seq(Nat) /\ \A x, y \in DOMAIN added : x < y => added[x] < added[y]
    BY <1>5 DEF Lists
  <2>10. /\ \A x \in 1..m : kept[x] \in Nat
         /\ \A x \in 1..n : added[x] \in Nat
    BY <1>1
  <2>11. /\ \A x, y \in 1..m : x < y => kept[x] < kept[y]
         /\ \A x, y \in 1..n : x < y => added[x] < added[y]
    BY <1>6, <2>9, Zenon
  <2>3. \A x, y \in 1..m : x # y => kept[x] # kept[y]
    <3> SUFFICES ASSUME NEW x \in 1..m, NEW y \in 1..m, x < y PROVE kept[x] # kept[y]
      BY <1>3
    <3>1. kept[x] < kept[y] /\ kept[x] \in Nat
      BY <2>10, <2>11
    <3> QED BY <3>1
  <2>4. \A x, y \in 1..n : x # y => added[x] # added[y]
    <3> SUFFICES ASSUME NEW x \in 1..n, NEW y \in 1..n, x < y PROVE added[x] # added[y]
      BY <1>3
    <3>1. added[x] < added[y] /\ added[x] \in Nat
      BY <2>10, <2>11
    <3> QED BY <3>1
  <2>5. ASSUME NEW x \in 1..m PROVE KeyOf(C, 1 + x) \in KeysOf(old)
    <3>1. kept[x] \in DOMAIN old
      BY <1>4, <2>1
    <3> QED BY <2>1, <3>1 DEF KeysOf
  <2>6. CASE i - 1 \in 1..m /\ j - 1 \in 1..m
    <3> DEFINE x == kept[i - 1]
               y == kept[j - 1]
    <3>1. i = 1 + (i - 1) /\ j = 1 + (j - 1)
      OBVIOUS
    <3>2. SectionKey(old[x]) = SectionKey(old[y]) /\ SectionKey(old[x]) \in D
      BY <1>9, <2>1, <2>6, <3>1
    <3>3. x \in 1..Len(old) /\ y \in 1..Len(old) /\ IsFirst(old, x) /\ IsFirst(old, y)
      BY <2>1, <2>6, <3>2
    <3> HIDE DEF x, y
    <3>4. ~(x < y) /\ ~(y < x)
      BY <3>2, <3>3 DEF IsFirst
    <3>5. x = y
      BY <3>3, <3>4
    <3>6. i - 1 = j - 1
      BY <2>3, <2>6, <3>5 DEF x, y
    <3> QED BY <3>6
  <2>7. CASE i - (1 + m) \in 1..n /\ j - (1 + m) \in 1..n
    <3> DEFINE x == added[i - (1 + m)]
               y == added[j - (1 + m)]
    <3>1. i = 1 + m + (i - (1 + m)) /\ j = 1 + m + (j - (1 + m))
      BY <1>3
    <3>2. SectionKey(new[x]) = SectionKey(new[y]) /\ x \in 1..Len(new) /\ y \in 1..Len(new)
      BY <1>9, <2>2, <2>7, <3>1
    <3>3. x = y
      BY <1>9, <3>2 DEF Distinct, new
    <3>4. i - (1 + m) = j - (1 + m)
      BY <2>4, <2>7, <3>3
    <3> QED BY <1>3, <3>4
  <2>8. \A x \in 1..m, y \in 1..n : KeyOf(C, 1 + x) # KeyOf(C, 1 + m + y)
    BY <2>2, <2>5
  <2> QED BY <1>2, <1>9, <2>6, <2>7, <2>8
<1> QED BY <1>7, <1>8, <1>9 DEF C, new

-----------------------------------------------------------------------------
(* The merged file *)

\* A part is written as it is, or with line ends after it.
LEMMA SeparatedIs ==
    ASSUME NEW C \in Seq(Parts), NEW i \in 1..Len(C)
    PROVE  LET b == C[i].text
               u == Separated(C, i)
           IN /\ u \in {b, Newline(b), Ended(b), Newline(Ended(b))}
              /\ i = Len(C) \/ b = <<>> => u = b
              /\ i < Len(C) /\ b # <<>> /\ C[i].written => u = Newline(b)
              /\ i < Len(C) /\ ~C[i].written /\ ~C[i + 1].appended => u = b
              /\ i < Len(C) /\ b # <<>> /\ ~C[i].written /\ C[i + 1].appended =>
                   u \in {Ended(b), Newline(Ended(b))}
<1> DEFINE b == C[i].text
           u == Separated(C, i)
           ends == Len(Ended(b)) > 1 /\ Last(Ended(b)) = EmptyLine
<1>1. u = IF i = Len(C) \/ b = <<>> THEN b
          ELSE IF C[i].written THEN Newline(b)
          ELSE IF ~C[i + 1].appended THEN b
          ELSE IF ends THEN Ended(b)
          ELSE Newline(Ended(b))
  BY DEF Separated
<1>2. Len(C) \in Nat /\ i \in Nat
  OBVIOUS
<1> HIDE DEF b, u, ends
<1>3. /\ u \in {b, Newline(b), Ended(b), Newline(Ended(b))}
      /\ i = Len(C) \/ b = <<>> => u = b
  BY <1>1
<1>4. i < Len(C) => i # Len(C)
  BY <1>2
<1>5. /\ i < Len(C) /\ b # <<>> /\ C[i].written => u = Newline(b)
      /\ i < Len(C) /\ ~C[i].written /\ ~C[i + 1].appended => u = b
      /\ i < Len(C) /\ b # <<>> /\ ~C[i].written /\ C[i + 1].appended =>
           u \in {Ended(b), Newline(Ended(b))}
  BY <1>1, <1>4
<1> QED BY <1>3, <1>5 DEF b, u

LEMMA SeparatedFacts ==
    ASSUME NEW C \in Seq(Parts), NEW i \in 1..Len(C)
    PROVE  LET b == C[i].text
               u == Separated(C, i)
           IN /\ u \in Seq(Lines)
              /\ NoHeader(b) => NoHeader(u)
              /\ IsSection(b) => IsSection(u) /\ SectionKey(u) = SectionKey(b)
              /\ NormalizeSection(u) = NormalizeSection(b)
              /\ IsText(b) => IsText(u)
              /\ i < Len(C) /\ (EndsLine(b) \/ C[i].written \/ C[i + 1].appended) => EndsLine(u)
<1> DEFINE b == C[i].text
           u == Separated(C, i)
<1>0. C[i] \in Parts
  OBVIOUS
<1>1. b \in Seq(Lines)
  BY <1>0 DEF Parts
<1>2. /\ u \in {b, Newline(b), Ended(b), Newline(Ended(b))}
      /\ i = Len(C) \/ b = <<>> => u = b
      /\ i < Len(C) /\ b # <<>> /\ C[i].written => u = Newline(b)
      /\ i < Len(C) /\ ~C[i].written /\ ~C[i + 1].appended => u = b
      /\ i < Len(C) /\ b # <<>> /\ ~C[i].written /\ C[i + 1].appended =>
           u \in {Ended(b), Newline(Ended(b))}
  BY SeparatedIs
<1> HIDE DEF b, u
<1> DEFINE Like(v) == /\ v \in Seq(Lines)
                      /\ NoHeader(b) => NoHeader(v)
                      /\ IsSection(b) => IsSection(v) /\ SectionKey(v) = SectionKey(b)
                      /\ NormalizeSection(v) = NormalizeSection(b)
                      /\ IsText(b) => IsText(v)
<1>3. Like(b)
  BY <1>1
<1>4. ASSUME NEW v, Like(v) PROVE Like(Newline(v)) /\ EndsLine(Newline(v))
  <2>1. /\ Extends(Newline(v), v) /\ EndsLine(Newline(v))
        /\ EndsLine(v) \/ Len(Newline(v)) = Len(v)
    BY <1>4, NewlineExtends
  <2>2. Newline(v) \in Seq(Lines)
    BY <2>1 DEF Extends
  <2>3. NormalizeSection(Newline(v)) = NormalizeSection(v)
    BY <1>4, NormalizeNewline
  <2>4. IsText(v) => IsText(Newline(v))
    BY <1>4, <2>1, ExtendsText
  <2>5. /\ NoHeader(v) => NoHeader(Newline(v))
        /\ IsSection(v) => IsSection(Newline(v)) /\ SectionKey(Newline(v)) = SectionKey(v)
    BY <1>4, <2>1, ExtendsBlock
  <2> QED BY <1>4, <2>1, <2>2, <2>3, <2>4, <2>5
<1>5. Like(Newline(b)) /\ EndsLine(Newline(b))
  BY <1>3, <1>4
<1>6. Like(Ended(b)) /\ EndsLine(Ended(b))
  BY <1>3, <1>5 DEF Ended
<1>7. Like(Newline(Ended(b))) /\ EndsLine(Newline(Ended(b)))
  BY <1>4, <1>6
<1>8. Like(u)
  BY <1>2, <1>3, <1>5, <1>6, <1>7
<1>9. ASSUME i < Len(C), EndsLine(b) \/ C[i].written \/ C[i + 1].appended PROVE EndsLine(u)
  <2>1. CASE b = <<>>
    BY <1>2, <2>1 DEF EndsLine
  <2>2. CASE b # <<>> /\ C[i].written
    BY <1>2, <1>5, <1>9, <2>2
  <2>3. CASE b # <<>> /\ ~C[i].written /\ C[i + 1].appended
    BY <1>2, <1>6, <1>7, <1>9, <2>3
  <2>4. CASE ~C[i].written /\ ~C[i + 1].appended
    BY <1>2, <1>9, <2>4
  <2> QED BY <2>1, <2>2, <2>3, <2>4
<1> QED BY <1>8, <1>9 DEF b, u

Final(t, text) ==
    [i \in DOMAIN Chunks(t, text) |-> Separated(Chunks(t, text), i)]

\* The blocks of the merged file are its parts, separated.
LEMMA MergeBlocks ==
    ASSUME NEW t \in Seq(Lines), NEW text \in Seq(Lines)
    PROVE  /\ AreBlocks(Final(t, text))
           /\ Len(Final(t, text)) = Len(Chunks(t, text))
           /\ \A i \in 1..Len(Chunks(t, text)) : Final(t, text)[i] = Separated(Chunks(t, text), i)
           /\ Merge(t, text) = FlattenSeq(Final(t, text))
           /\ Merge(t, text) \in Seq(Lines)
           /\ Blocks(Merge(t, text)) = Final(t, text)
<1> DEFINE C == Chunks(t, text)
           bs == Final(t, text)
<1>1. C \in Seq(Parts) /\ Len(C) >= 1 /\ Len(C) \in Nat /\ DOMAIN C = 1..Len(C)
      /\ C[1] = Old(Preamble(t))
  <2>1. /\ C \in Seq(Parts) /\ C[1] = Old(Preamble(t))
        /\ Len(C) = 1 + Len(KeptOf(t, text)) + Len(AddedOf(t, text))
        /\ Len(KeptOf(t, text)) \in Nat /\ Len(AddedOf(t, text)) \in Nat
    BY ChunksAre
  <2> HIDE DEF C
  <2> QED BY <2>1
<1>2. \A i \in 2..Len(C) : IsSection(C[i].text)
  BY ChunkKeys
<1>3. C[1].text = Preamble(t) /\ NoHeader(C[1].text)
  <2>1. Preamble(t) \in Seq(Lines) /\ NoHeader(Preamble(t))
    BY ParseFacts
  <2>2. Old(Preamble(t)).text = Preamble(t)
    BY <2>1, PartTypes
  <2> HIDE DEF C
  <2> QED BY <1>1, <2>1, <2>2
<1> HIDE DEF C
<1>4. bs = [i \in 1..Len(C) |-> Separated(C, i)]
  BY <1>1 DEF Final, C
<1>5. \A i \in 1..Len(C) :
         /\ Separated(C, i) \in Seq(Lines)
         /\ NoHeader(C[i].text) => NoHeader(Separated(C, i))
         /\ IsSection(C[i].text) => IsSection(Separated(C, i))
  BY <1>1, SeparatedFacts
<1>6. bs \in Seq(Seq(Lines)) /\ Len(bs) = Len(C) /\ \A i \in 1..Len(C) : bs[i] = Separated(C, i)
  <2> HIDE DEF bs
  <2> QED BY <1>1, <1>4, <1>5
<1> HIDE DEF bs
<1>7. AreBlocks(bs)
  <2>1. bs # <<>>
    BY <1>1, <1>6, EmptySeq
  <2>2. NoHeader(bs[1])
    BY <1>1, <1>3, <1>5, <1>6
  <2>3. \A j \in 2..Len(bs) : IsSection(bs[j])
    BY <1>1, <1>2, <1>5, <1>6
  <2> QED BY <1>6, <2>1, <2>2, <2>3 DEF AreBlocks, BlockLists
<1>8. Merge(t, text) = FlattenSeq(bs)
  BY DEF Merge, Final, bs
<1>9. FlattenSeq(bs) \in Seq(Lines)
  <2>1. <<>> \in Seq(Lines)
    OBVIOUS
  <2> QED BY <1>6, <2>1, FlattenAppend
<1>10. Blocks(FlattenSeq(bs)) = bs
  BY <1>7, BlocksOfFlatten
<1> QED BY <1>6, <1>7, <1>8, <1>9, <1>10 DEF bs, C

\* The parts are texts, and none but the last, or one before an appended part,
\* lacks its newline unless it is written anew.
LEMMA ChunkTexts ==
    ASSUME NEW t, IsText(t), NEW text, IsText(text)
    PROVE  LET C == Chunks(t, text)
           IN \A i \in 1..Len(C) :
                 /\ IsText(C[i].text)
                 /\ i < Len(C) => EndsLine(C[i].text) \/ C[i].written \/ C[i + 1].appended
<1> DEFINE C == Chunks(t, text)
           kept == KeptOf(t, text)
           added == AddedOf(t, text)
           m == Len(kept)
           n == Len(added)
           old == Parse(t)
           new == Parse(text)
           bs == Blocks(t)
<1>0. t \in Seq(Lines) /\ text \in Seq(Lines)
  BY DEF IsText
<1>1. /\ m \in Nat /\ n \in Nat /\ Len(C) = 1 + m + n
      /\ C[1].text = Preamble(t)
      /\ \A k \in 1..m : kept[k] \in 1..Len(old)
      /\ \A k \in 1..n : added[k] \in 1..Len(new)
  <2>1. Preamble(t) \in Seq(Lines)
    BY <1>0, ParseFacts
  <2>2. Old(Preamble(t)).text = Preamble(t)
    BY <2>1, PartTypes
  <2> QED BY <1>0, <2>2, ChunksAre
<1>2. /\ \A k \in 1..m : IsKeptPart(C[1 + k], old[kept[k]], text)
      /\ \A k \in 1..n : IsAddedPart(C[1 + m + k], new[added[k]], text)
      /\ \A i \in 2..Len(C) : \/ i - 1 \in 1..m /\ i = 1 + (i - 1)
                              \/ i - (1 + m) \in 1..n /\ i = 1 + m + (i - (1 + m))
  BY <1>0, ChunkKinds
<1>3. \A x, y \in 1..m : x < y => kept[x] < kept[y]
  <2>1. old \in Seq(Seq(Lines))
    BY <1>0, ParseFacts
  <2>2. Lists(kept, {j \in 1..Len(old) : SectionKey(old[j]) \in KeysOf(new) => IsFirst(old, j)})
    BY <2>1, KeptFacts DEF KeptOf
  <2> HIDE DEF kept
  <2>3. DOMAIN kept = 1..m
    BY <2>2 DEF Lists
  <2> QED BY <2>2, <2>3 DEF Lists
<1>4. \A k \in KeysOf(new) : IsText(Incoming(text)[k])
  BY <1>0, IncomingFacts
<1>5. /\ Len(bs) = Len(old) + 1 /\ Len(old) \in Nat
      /\ \A j \in 1..Len(bs) : IsText(bs[j]) /\ (j < Len(bs) => EndsLine(bs[j]))
      /\ \A j \in 1..Len(old) : old[j] = bs[j + 1]
      /\ Preamble(t) = bs[1]
  <2>1. /\ Len(bs) = Len(old) + 1 /\ old \in Seq(Seq(Lines)) /\ Preamble(t) = bs[1]
        /\ \A j \in 1..Len(old) : old[j] = bs[j + 1]
    BY <1>0, ParseFacts
  <2>2. AreParts(bs)
    BY BlocksText
  <2> HIDE DEF bs, old
  <2>3. Len(old) \in Nat
    BY <2>1
  <2> QED BY <2>1, <2>2, <2>3 DEF AreParts
<1> HIDE DEF C, kept, added, m, n, old, new, bs
<1>6. \A j \in 1..Len(old) : IsText(old[j]) /\ (j < Len(old) => EndsLine(old[j]))
  <2>1. \A j \in 1..Len(old) : j + 1 \in 1..Len(bs) /\ (j < Len(old) => j + 1 < Len(bs))
    BY <1>5
  <2> QED BY <1>5, <2>1
<1>7. IsText(Preamble(t)) /\ (old # <<>> => EndsLine(Preamble(t)))
  <2>1. old \in Seq(Seq(Lines))
    BY <1>0, ParseFacts DEF old
  <2>2. 1 \in 1..Len(bs) /\ (old # <<>> => 1 < Len(bs))
    BY <1>5, <2>1, EmptySeq
  <2> QED BY <1>5, <2>2
<1>8. ASSUME NEW i \in 1..Len(C) PROVE IsText(C[i].text)
  <2>1. CASE i = 1
    BY <1>1, <1>7, <2>1
  <2>2. CASE i - 1 \in 1..m /\ i = 1 + (i - 1)
    <3> DEFINE s == old[kept[i - 1]]
    <3>1. IsKeptPart(C[i], s, text) /\ IsText(s)
      BY <1>1, <1>2, <1>6, <2>2
    <3> HIDE DEF s
    <3> QED BY <1>4, <3>1 DEF IsKeptPart, new
  <2>3. CASE i - (1 + m) \in 1..n /\ i = 1 + m + (i - (1 + m))
    <3> DEFINE s == new[added[i - (1 + m)]]
    <3>1. IsAddedPart(C[i], s, text)
      BY <1>2, <2>3
    <3> HIDE DEF s
    <3> QED BY <1>4, <3>1 DEF IsAddedPart, new
  <2>4. i = 1 \/ i \in 2..Len(C)
    BY <1>1
  <2> QED BY <1>2, <2>1, <2>2, <2>3, <2>4
<1>9. ASSUME NEW i \in 1..Len(C), i < Len(C)
      PROVE  EndsLine(C[i].text) \/ C[i].written \/ C[i + 1].appended
  <2>0. \A k \in 1..n : C[1 + m + k].written /\ C[1 + m + k].appended
    BY <1>2 DEF IsAddedPart
  <2>1. CASE i = 1 + m
    <3>1. 1 \in 1..n /\ i + 1 = 1 + m + 1
      BY <1>1, <1>9, <2>1
    <3> QED BY <2>0, <3>1
  <2>2. CASE i = 1 /\ m > 0
    <3>1. kept[1] \in 1..Len(old)
      BY <1>1, <2>2
    <3>2. old # <<>>
      BY <3>1
    <3> QED BY <1>1, <1>7, <2>2, <3>2
  <2>3. CASE i - 1 \in 1..(m - 1)
    <3>1. i - 1 \in 1..m /\ i \in 1..m /\ i - 1 < i /\ i = 1 + (i - 1)
      BY <1>1, <2>3
    <3> DEFINE x == kept[i - 1]
               y == kept[i]
    <3>2. x < y /\ x \in 1..Len(old) /\ y \in 1..Len(old)
      BY <1>1, <1>3, <3>1
    <3>3. IsKeptPart(C[i], old[x], text)
      BY <1>2, <3>1
    <3> HIDE DEF x, y
    <3>4. EndsLine(old[x])
      <4>1. x < Len(old)
        BY <1>5, <3>2
      <4> QED BY <1>6, <3>2, <4>1
    <3> QED BY <3>3, <3>4 DEF IsKeptPart
  <2>4. CASE i - (1 + m) \in 1..n
    <3>1. i = 1 + m + (i - (1 + m))
      BY <1>1
    <3> QED BY <2>0, <2>4, <3>1
  <2>5. i = 1 + m \/ (i = 1 /\ m > 0) \/ i - 1 \in 1..(m - 1) \/ i - (1 + m) \in 1..n
    BY <1>1
  <2> QED BY <2>1, <2>2, <2>3, <2>4, <2>5
<1> QED BY <1>8, <1>9 DEF C

\* Merging two texts, no two lines run into each other.
LEMMA MergeText ==
    ASSUME NEW t, IsText(t), NEW text, IsText(text)
    PROVE  IsText(Merge(t, text))
<1> DEFINE C == Chunks(t, text)
           bs == Final(t, text)
<1>0. t \in Seq(Lines) /\ text \in Seq(Lines)
  BY DEF IsText
<1>1. C \in Seq(Parts)
  BY <1>0, ChunksAre
<1>2. \A i \in 1..Len(C) :
         /\ IsText(C[i].text)
         /\ i < Len(C) => EndsLine(C[i].text) \/ C[i].written \/ C[i + 1].appended
  BY ChunkTexts
<1>3. /\ AreBlocks(bs) /\ Len(bs) = Len(C)
      /\ \A i \in 1..Len(C) : bs[i] = Separated(C, i)
      /\ Merge(t, text) = FlattenSeq(bs)
  BY <1>0, MergeBlocks
<1> HIDE DEF C, bs
<1>4. ASSUME NEW i \in 1..Len(C) PROVE IsText(bs[i]) /\ (i < Len(C) => EndsLine(bs[i]))
  <2>1. /\ IsText(C[i].text) => IsText(Separated(C, i))
        /\ i < Len(C) /\ (EndsLine(C[i].text) \/ C[i].written \/ C[i + 1].appended)
             => EndsLine(Separated(C, i))
    BY <1>1, SeparatedFacts
  <2> QED BY <1>2, <1>3, <2>1
<1>5. AreParts(bs)
  BY <1>3, <1>4 DEF AreParts, AreBlocks, BlockLists
<1> QED BY <1>3, <1>5, FlattenText

-----------------------------------------------------------------------------
(* What is captured *)

\* The session a section names depends on its words alone.
LEMMA SameSession ==
    ASSUME NEW r \in Seq(Lines), NEW u \in Seq(Lines), NEW n \in Nat,
           n <= Len(r), n <= Len(u),
           \A i \in 1..n : u[i].body = r[i].body,
           \A i \in (n + 1)..Len(r) : Blank(r[i]),
           \A i \in (n + 1)..Len(u) : Blank(u[i])
    PROVE  SessionOf(u) = SessionOf(r)
<1> DEFINE Named(s) == {i \in DOMAIN s : s[i].body \in Words /\ Session[s[i].body] # None}
           names(i) == r[i].body \in Words /\ Session[r[i].body] # None
           S == {i \in 1..n : names(i)}
<1>1. \A l : Blank(l) => l.body \notin Words
  BY FilesAssumption DEF Blank
<1>2. ASSUME NEW s \in Seq(Lines), n <= Len(s),
             \A i \in 1..n : s[i].body = r[i].body,
             \A i \in (n + 1)..Len(s) : Blank(s[i])
      PROVE  Named(s) = S /\ \A i \in S : s[i].body = r[i].body
  <2>1. DOMAIN s = 1..Len(s) /\ Len(s) \in Nat
    OBVIOUS
  <2>2. \A i \in 1..Len(s) : i \in 1..n \/ i \in (n + 1)..Len(s)
    BY <2>1
  <2>3. \A i \in 1..n : i \in 1..Len(s)
    BY <1>2, <2>1
  <2> QED BY <1>1, <1>2, <2>1, <2>2, <2>3
<1>3. Named(r) = S /\ Named(u) = S /\ \A i \in S : u[i].body = r[i].body
  <2>1. Named(r) = S
    BY <1>2
  <2> HIDE DEF S, Named
  <2> QED BY <1>2, <2>1
<1>4. S # {} => Min(S) \in S
  <2> SUFFICES ASSUME S # {} PROVE Min(S) \in S
    OBVIOUS
  <2>1. S \in SUBSET Nat
    OBVIOUS
  <2> HIDE DEF S
  <2>2. PICK m \in S : \A k \in S : m <= k
    BY <2>1, Least
  <2> QED BY <2>2 DEF Min
<1>5. /\ SessionOf(r) = IF Named(r) = {} THEN None ELSE Session[r[Min(Named(r))].body]
      /\ SessionOf(u) = IF Named(u) = {} THEN None ELSE Session[u[Min(Named(u))].body]
  BY DEF SessionOf
<1> HIDE DEF S, Named
<1> QED BY <1>3, <1>4, <1>5

LEMMA SessionFacts ==
    ASSUME NEW r \in Seq(Lines)
    PROVE  /\ SessionOf(r) \in (Keys \ Profiles) \cup {None}
           /\ SessionOf(NormalizeSection(r)) = SessionOf(r)
           /\ SessionOf(Newline(r)) = SessionOf(r)
<1> DEFINE S == {i \in DOMAIN r : r[i].body \in Words /\ Session[r[i].body] # None}
<1>1. SessionOf(r) \in (Keys \ Profiles) \cup {None}
  <2>1. CASE S = {}
    BY <2>1 DEF SessionOf
  <2>2. CASE S # {}
    <3>1. S \in SUBSET Nat
      OBVIOUS
    <3>2. \E m \in S : \A k \in S : m <= k
      <4> HIDE DEF S
      <4> QED BY <2>2, <3>1, Least
    <3>3. Min(S) \in S
      <4> HIDE DEF S
      <4> QED BY <3>2 DEF Min
    <3> DEFINE m == Min(S)
    <3>4. SessionOf(r) = Session[r[m].body]
      BY <2>2 DEF SessionOf
    <3>5. m \in S
      BY <3>3
    <3> HIDE DEF m
    <3>6. r[m].body \in Words
      BY <3>5
    <3> QED BY <3>4, <3>6, FilesAssumption
  <2> QED BY <2>1, <2>2
<1>2. SessionOf(NormalizeSection(r)) = SessionOf(r)
  <2>1. PICK n : IsLastWord(n, r)
    BY LastWordExists
  <2> DEFINE u == NormalizeSection(r)
  <2>2. u \in Seq(Lines) /\ Len(u) = n /\ \A i \in 1..n : u[i].body = r[i].body
    BY <2>1, NormalizeIs
  <2>3. n \in Nat /\ n <= Len(r) /\ \A i \in (n + 1)..Len(r) : Blank(r[i])
    BY <2>1 DEF IsLastWord
  <2> HIDE DEF u
  <2>4. \A i \in (n + 1)..Len(u) : Blank(u[i])
    BY <2>2, <2>3
  <2>5. SessionOf(u) = SessionOf(r)
    BY <2>2, <2>3, <2>4, SameSession
  <2> QED BY <2>5 DEF u
<1>3. SessionOf(Newline(r)) = SessionOf(r)
  <2> DEFINE u == Newline(r)
             n == Len(r)
  <2>1. Extends(u, r)
    BY NewlineExtends
  <2>2. n \in Nat
    OBVIOUS
  <2>3. u \in Seq(Lines) /\ n <= Len(u) /\ (\A i \in 1..n : u[i].body = r[i].body)
        /\ \A i \in (n + 1)..Len(u) : u[i] = EmptyLine
    BY <2>1 DEF Extends
  <2> HIDE DEF u
  <2>4. \A i \in (n + 1)..Len(u) : Blank(u[i])
    BY <2>3, LineFacts
  <2>5. \A i \in (n + 1)..Len(r) : Blank(r[i])
    BY <2>2
  <2>6. n <= Len(r)
    BY <2>2
  <2> HIDE DEF n
  <2>7. SessionOf(u) = SessionOf(r)
    BY <2>2, <2>3, <2>4, <2>5, <2>6, SameSession
  <2> QED BY <2>7 DEF u
<1> QED BY <1>1, <1>2, <1>3

LEMMA FindText ==
    ASSUME NEW t, IsText(t), NEW k, FindSection(t, k) # <<>>
    PROVE  LET r == FindSection(t, k)
           IN /\ k \in KeysOf(Parse(t))
              /\ r \in Seq(Lines) /\ IsText(r) /\ IsSection(r) /\ SectionKey(r) = k
<1>0. t \in Seq(Lines)
  BY DEF IsText
<1>1. PICK m \in 1..Len(Parse(t)) :
          SectionKey(Parse(t)[m]) = k /\ FindSection(t, k) = Parse(t)[m]
  BY <1>0, FindFacts
<1> DEFINE r == Parse(t)[m]
<1>2. r \in Seq(Lines) /\ IsSection(r) /\ r = Blocks(t)[m + 1] /\ m + 1 \in 1..Len(Blocks(t))
  BY <1>0, ParseItems
<1>3. IsText(r)
  BY <1>2, BlocksText DEF AreParts
<1>4. k \in KeysOf(Parse(t))
  BY <1>0, FindFacts
<1> QED BY <1>1, <1>2, <1>3, <1>4

\* A section as it is captured.
IsCaptured(s, key) ==
    /\ s \in Seq(Lines) /\ IsText(s) /\ IsSection(s) /\ SectionKey(s) = key
    /\ EndsLine(s) /\ NormalizeSection(s) = s

LEMMA CapturedSection ==
    ASSUME NEW t, IsText(t), NEW k, FindSection(t, k) # <<>>
    PROVE  /\ IsCaptured(NormalizeSection(FindSection(t, k)), k)
           /\ SessionOf(NormalizeSection(FindSection(t, k))) = SessionOf(FindSection(t, k))
<1> DEFINE r == FindSection(t, k)
           u == NormalizeSection(r)
<1>1. r \in Seq(Lines) /\ IsText(r) /\ IsSection(r) /\ SectionKey(r) = k
  BY FindText
<1> HIDE DEF r
<1>2. PICK n : IsLastWord(n, r)
  BY <1>1, LastWordExists
<1>3. u \in Seq(Lines) /\ EndsLine(u)
  BY <1>1, <1>2, NormalizeIs
<1>4. NormalizeSection(u) = u
  BY <1>1, NormalizeAgain
<1>5. IsSection(u) /\ SectionKey(u) = k /\ IsText(u)
  BY <1>1, NormalizeKeeps
<1>6. SessionOf(u) = SessionOf(r)
  BY <1>1, SessionFacts
<1> QED BY <1>3, <1>4, <1>5, <1>6 DEF IsCaptured, r

\* Two or three blocks, one after the other.
LEMMA FewBlocks ==
    ASSUME NEW a \in Seq(Lines), IsSection(a)
    PROVE  /\ Blocks(a) = << <<>>, a >>
           /\ \A b \in Seq(Lines) : IsSection(b) => Blocks(a \o b) = << <<>>, a, b >>
<1> DEFINE e == <<>>
           two == << <<>>, a >>
<1>1. e \in Seq(Lines) /\ << e >> \in Seq(Seq(Lines)) /\ NoHeader(e)
  BY DEF NoHeader
<1>2. FlattenSeq(<<e>>) = <<>>
  <2>1. <<e>> = Append(<<>>, e) /\ <<>> \in Seq(Seq(Lines))
    OBVIOUS
  <2>2. FlattenSeq(Append(<<>>, e)) = FlattenSeq(<<>>) \o e
    BY <1>1, <2>1, FlattenAppend
  <2> QED BY <2>1, <2>2, FlattenEmpty
<1>3. /\ two \in Seq(Seq(Lines)) /\ FlattenSeq(two) = a
      /\ two # <<>> /\ Len(two) = 2 /\ two[1] = e /\ two[2] = a
  <2>1. two = Append(<<e>>, a)
    OBVIOUS
  <2>2. FlattenSeq(Append(<<e>>, a)) = FlattenSeq(<<e>>) \o a
    BY <1>1, FlattenAppend
  <2>3. <<>> \o a = a
    BY ConcatEmptySeq
  <2>4. two \in Seq(Seq(Lines)) /\ two # <<>> /\ Len(two) = 2 /\ two[1] = e /\ two[2] = a
    BY <1>1
  <2> QED BY <1>2, <2>1, <2>2, <2>3, <2>4
<1>4. Blocks(a) = two
  <2>1. \A j \in 2..2 : j = 2
    OBVIOUS
  <2> HIDE DEF two
  <2>2. AreBlocks(two)
    BY <1>1, <1>3, <2>1 DEF AreBlocks, BlockLists
  <2> QED BY <1>3, <2>2, BlocksOfFlatten
<1>5. ASSUME NEW b \in Seq(Lines), IsSection(b) PROVE Blocks(a \o b) = << <<>>, a, b >>
  <2> DEFINE three == << <<>>, a, b >>
  <2>1. three = Append(two, b)
    OBVIOUS
  <2>2. FlattenSeq(three) = a \o b
    <3> HIDE DEF two, three
    <3> QED BY <1>3, <2>1, FlattenAppend
  <2>3. /\ three \in Seq(Seq(Lines)) /\ three # <<>> /\ Len(three) = 3
        /\ three[1] = e /\ three[2] = a /\ three[3] = b
    BY <1>1
  <2>4. \A j \in 2..3 : j = 2 \/ j = 3
    OBVIOUS
  <2> HIDE DEF three
  <2>5. AreBlocks(three)
    BY <1>1, <1>5, <2>3, <2>4 DEF AreBlocks, BlockLists
  <2>6. Blocks(FlattenSeq(three)) = three
    BY <2>5, BlocksOfFlatten
  <2> QED BY <2>2, <2>6 DEF three
<1> QED BY <1>4, <1>5

\* The profile's section alone, or with that of its session after it.
Alone(text, own) ==
    text = own /\ Blocks(text) = << <<>>, own >>
WithSession(text, own, session) ==
    /\ SessionOf(own) \in Keys \ Profiles
    /\ IsCaptured(session, SessionOf(own))
    /\ text = Newline(own) \o session
    /\ Blocks(text) = << <<>>, Newline(own), session >>

IsSecret(text, profile) ==
    \E own : /\ IsCaptured(own, profile)
             /\ Alone(text, own) \/ \E session : WithSession(text, own, session)

LEMMA NewlineCaptured ==
    ASSUME NEW s, NEW key, IsCaptured(s, key)
    PROVE  /\ Newline(s) = Append(s, EmptyLine) /\ Newline(s) = s \o <<EmptyLine>>
           /\ Newline(s) \in Seq(Lines) /\ IsText(Newline(s)) /\ EndsLine(Newline(s))
           /\ IsSection(Newline(s)) /\ SectionKey(Newline(s)) = key
           /\ NormalizeSection(Newline(s)) = s
<1>0. s \in Seq(Lines) /\ IsText(s) /\ IsSection(s) /\ SectionKey(s) = key
      /\ EndsLine(s) /\ NormalizeSection(s) = s
  BY DEF IsCaptured
<1>1. Newline(s) = Append(s, EmptyLine) /\ Extends(Newline(s), s) /\ EndsLine(Newline(s))
  BY <1>0, NewlineExtends
<1>2. Newline(s) \in Seq(Lines)
  BY <1>1 DEF Extends
<1>3. IsText(Newline(s))
  BY <1>0, <1>1, ExtendsText
<1>4. IsSection(Newline(s)) /\ SectionKey(Newline(s)) = key
  BY <1>0, <1>1, ExtendsBlock
<1>5. NormalizeSection(Newline(s)) = s
  BY <1>0, NormalizeNewline
<1>6. Append(s, EmptyLine) = s \o <<EmptyLine>>
  <2>1. EmptyLine \in Lines
    BY LineFacts
  <2> QED BY <1>0, <2>1
<1> QED BY <1>1, <1>2, <1>3, <1>4, <1>5, <1>6

LEMMA CaptureIs ==
    ASSUME NEW t, IsText(t), NEW profile \in Profiles, FindSection(t, profile) # <<>>
    PROVE  LET raw == FindSection(t, profile)
               own == NormalizeSection(raw)
               text == CaptureProfile(t, profile)
           IN /\ IsCaptured(own, profile)
              /\ SessionOf(own) = SessionOf(raw)
              /\ IF SessionOf(raw) = None \/ FindSection(t, SessionOf(raw)) = <<>>
                   THEN Alone(text, own)
                   ELSE WithSession(text, own, NormalizeSection(FindSection(t, SessionOf(raw))))
<1> DEFINE raw == FindSection(t, profile)
           own == NormalizeSection(raw)
           key == SessionOf(raw)
           ses == NormalizeSection(FindSection(t, key))
           text == CaptureProfile(t, profile)
<1>1. IsCaptured(own, profile) /\ SessionOf(own) = key
  BY CapturedSection
<1>2. raw \in Seq(Lines)
  BY FindText
<1>3. key \in (Keys \ Profiles) \cup {None}
  BY <1>2, SessionFacts
<1>4. own \in Seq(Lines) /\ IsSection(own)
  BY <1>1 DEF IsCaptured
<1>5. CASE key = None \/ FindSection(t, key) = <<>>
  <2>1. text = own \o <<>>
    BY <1>5 DEF CaptureProfile
  <2> HIDE DEF own, text
  <2>2. text = own
    BY <1>4, <2>1, ConcatEmptySeq
  <2>3. Blocks(own) = << <<>>, own >>
    BY <1>4, FewBlocks
  <2>4. Alone(text, own)
    BY <2>2, <2>3 DEF Alone
  <2> QED BY <1>1, <1>5, <2>4 DEF own, text
<1>6. CASE ~(key = None \/ FindSection(t, key) = <<>>)
  <2>1. text = own \o (<<EmptyLine>> \o ses)
    BY <1>6 DEF CaptureProfile
  <2>2. key \in Keys \ Profiles
    BY <1>3, <1>6
  <2>3. IsCaptured(ses, key)
    BY <1>6, CapturedSection
  <2>4. ses \in Seq(Lines) /\ IsSection(ses)
    BY <2>3 DEF IsCaptured
  <2> HIDE DEF own, text, ses, key, raw
  <2>5. Newline(own) = own \o <<EmptyLine>> /\ Newline(own) \in Seq(Lines) /\ IsSection(Newline(own))
    BY <1>1, NewlineCaptured
  <2>6. own \o (<<EmptyLine>> \o ses) = (own \o <<EmptyLine>>) \o ses
    <3>1. <<EmptyLine>> \in Seq(Lines)
      BY LineFacts
    <3> QED BY <1>4, <2>4, <3>1, ConcatAssociative
  <2>7. text = Newline(own) \o ses
    BY <2>1, <2>5, <2>6
  <2>8. Blocks(text) = << <<>>, Newline(own), ses >>
    BY <2>4, <2>5, <2>7, FewBlocks
  <2>9. WithSession(text, own, ses)
    BY <1>1, <2>2, <2>3, <2>7, <2>8 DEF WithSession
  <2> QED BY <1>1, <1>6, <2>9 DEF own, text, ses, key, raw
<1> QED BY <1>5, <1>6

\* What every proof about a secret uses: it is a text, and has each key once.
LEMMA SecretFacts ==
    ASSUME NEW profile \in Profiles, NEW text, IsSecret(text, profile)
    PROVE  /\ text \in Seq(Lines) /\ IsText(text) /\ EndsLine(text)
           /\ Distinct(text)
           /\ profile \in KeysOf(Parse(text))
<1>1. PICK own : /\ IsCaptured(own, profile)
                 /\ Alone(text, own) \/ \E session : WithSession(text, own, session)
  BY DEF IsSecret
<1>2. own \in Seq(Lines) /\ IsText(own) /\ EndsLine(own) /\ SectionKey(own) = profile
  BY <1>1 DEF IsCaptured
<1>3. CASE Alone(text, own)
  <2>1. text = own /\ Parse(text) = <<own>>
    BY <1>2, <1>3 DEF Alone, Parse
  <2>2. Distinct(text)
    BY <2>1 DEF Distinct
  <2>3. profile \in KeysOf(Parse(text))
    BY <1>2, <2>1 DEF KeysOf
  <2> QED BY <1>2, <2>1, <2>2, <2>3
<1>4. ASSUME NEW session, WithSession(text, own, session)
      PROVE  /\ text \in Seq(Lines) /\ IsText(text) /\ EndsLine(text)
             /\ Distinct(text)
             /\ profile \in KeysOf(Parse(text))
  <2> DEFINE a == Newline(own)
  <2>1. /\ session \in Seq(Lines) /\ IsText(session) /\ EndsLine(session)
        /\ SectionKey(session) = SessionOf(own) /\ SessionOf(own) \in Keys \ Profiles
    BY <1>4 DEF WithSession, IsCaptured
  <2>2. a \in Seq(Lines) /\ IsText(a) /\ EndsLine(a) /\ SectionKey(a) = profile
    BY <1>1, NewlineCaptured
  <2>3. text = a \o session /\ Blocks(text) = << <<>>, a, session >>
    BY <1>4 DEF WithSession
  <2> HIDE DEF a
  <2>4. text \in Seq(Lines) /\ IsText(text) /\ EndsLine(text)
    BY <2>1, <2>2, <2>3, ConcatText
  <2> DEFINE ss == Parse(text)
  <2>5. Len(ss) = 2 /\ DOMAIN ss = 1..2 /\ ss[1] = a /\ ss[2] = session
    BY <2>1, <2>2, <2>3 DEF Parse
  <2> HIDE DEF ss
  <2>6. \A i \in 1..2 : i = 1 \/ i = 2
    OBVIOUS
  <2>7. SectionKey(ss[1]) # SectionKey(ss[2])
    BY <2>1, <2>2, <2>5
  <2>8. \A i, j \in 1..Len(ss) : SectionKey(ss[i]) = SectionKey(ss[j]) => i = j
    BY <2>5, <2>6, <2>7
  <2>9. profile \in KeysOf(ss)
    BY <2>2, <2>5 DEF KeysOf
  <2> QED BY <2>4, <2>8, <2>9 DEF Distinct, ss
<1> QED BY <1>1, <1>3, <1>4

LEMMA SecretsAre ==
    ASSUME NEW secret \in Secrets
    PROVE  secret.profile \in Profiles /\ IsSecret(secret.text, secret.profile)
<1>1. PICK x \in Sources \X Profiles :
          /\ FindSection(x[1], x[2]) # <<>>
          /\ secret = [profile |-> x[2], text |-> CaptureProfile(x[1], x[2])]
  BY DEF Secrets
<1> DEFINE t == x[1]
           profile == x[2]
<1>2. t \in Sources /\ profile \in Profiles
  OBVIOUS
<1>3. FindSection(t, profile) # <<>>
      /\ secret.profile = profile /\ secret.text = CaptureProfile(t, profile)
  BY <1>1
<1> HIDE DEF t, profile
<1>4. IsText(t)
  BY <1>2, TextsAssumption
<1>5. /\ IsCaptured(NormalizeSection(FindSection(t, profile)), profile)
      /\ \/ Alone(CaptureProfile(t, profile), NormalizeSection(FindSection(t, profile)))
         \/ WithSession(CaptureProfile(t, profile), NormalizeSection(FindSection(t, profile)),
                NormalizeSection(FindSection(t, SessionOf(FindSection(t, profile)))))
  BY <1>2, <1>3, <1>4, CaptureIs
<1> QED BY <1>2, <1>3, <1>5 DEF IsSecret

\* Merging never lets two lines of the client's file run into each other, though
\* the user's last line may lack its newline (merge.go:84-95).
THEOREM TypeCorrect == Spec => []TypeOK
<1>1. Init => TypeOK
  BY TextsAssumption DEF Init, TypeOK
<1>2. TypeOK /\ [Next]_file => TypeOK'
  <2> SUFFICES ASSUME TypeOK, [Next]_file PROVE TypeOK'
    OBVIOUS
  <2>1. ASSUME NEW secret \in Secrets, Get(secret) PROVE TypeOK'
    <3>1. IsText(secret.text)
      BY SecretsAre, SecretFacts
    <3>2. file' = Merge(file, secret.text)
      BY <2>1 DEF Get
    <3>3. IsText(Merge(file, secret.text))
      BY <3>1, MergeText DEF TypeOK
    <3> QED BY <3>2, <3>3 DEF TypeOK
  <2>2. CASE UNCHANGED file
    BY <2>2 DEF TypeOK
  <2> QED BY <2>1, <2>2 DEF Next
<1> QED BY <1>1, <1>2, PTL DEF Spec

-----------------------------------------------------------------------------
(* Merging again *)

\* The sections of the merged file are its parts but the first.
LEMMA MergedSections ==
    ASSUME NEW t \in Seq(Lines), NEW text \in Seq(Lines)
    PROVE  LET C == Chunks(t, text)
               once == Merge(t, text)
           IN /\ once \in Seq(Lines) /\ Len(C) >= 1
              /\ Parse(once) \in Seq(Seq(Lines)) /\ Len(Parse(once)) = Len(C) - 1
              /\ Preamble(once) = Separated(C, 1)
              /\ \A j \in 1..Len(Parse(once)) :
                    /\ j + 1 \in 2..Len(C)
                    /\ Parse(once)[j] = Separated(C, j + 1)
                    /\ IsSection(Parse(once)[j])
                    /\ SectionKey(Parse(once)[j]) = KeyOf(C, j + 1)
<1> DEFINE C == Chunks(t, text)
           once == Merge(t, text)
           ss == Parse(once)
           bs == Final(t, text)
<1>1. /\ once \in Seq(Lines) /\ Len(bs) = Len(C) /\ Blocks(once) = bs
      /\ \A i \in 1..Len(C) : bs[i] = Separated(C, i)
  BY MergeBlocks
<1>2. C \in Seq(Parts) /\ \A i \in 2..Len(C) : C[i] \in Parts /\ IsSection(C[i].text)
  BY ChunksAre, ChunkKeys
<1> HIDE DEF C, bs, once
<1>3. /\ Len(bs) = Len(ss) + 1 /\ ss \in Seq(Seq(Lines))
      /\ \A j \in 1..Len(ss) : ss[j] = bs[j + 1] /\ IsSection(ss[j])
      /\ Preamble(once) = bs[1]
  BY <1>1, ParseFacts
<1> HIDE DEF ss
<1>4. Len(ss) \in Nat
  BY <1>3
<1>5. Len(C) >= 1 /\ Len(ss) = Len(C) - 1 /\ 1 \in 1..Len(C)
      /\ \A j \in 1..Len(ss) : j + 1 \in 2..Len(C) /\ j + 1 \in 1..Len(C)
  BY <1>1, <1>3, <1>4
<1>6. ASSUME NEW j \in 1..Len(ss)
      PROVE  ss[j] = Separated(C, j + 1) /\ SectionKey(ss[j]) = KeyOf(C, j + 1)
  <2>1. ss[j] = Separated(C, j + 1)
    BY <1>1, <1>3, <1>5
  <2>2. j + 1 \in 1..Len(C) /\ IsSection(C[j + 1].text)
    BY <1>2, <1>5
  <2>3. SectionKey(Separated(C, j + 1)) = SectionKey(C[j + 1].text)
    BY <1>2, <2>2, SeparatedFacts
  <2> QED BY <2>1, <2>3 DEF KeyOf
<1> QED BY <1>1, <1>3, <1>5, <1>6 DEF C, ss, once

\* All sections of the merged file are kept, and none is added to it.
LEMMA AgainKept ==
    ASSUME NEW t \in Seq(Lines), NEW text \in Seq(Lines), Distinct(text)
    PROVE  LET once == Merge(t, text)
           IN /\ KeptOf(once, text) = [k \in 1..Len(Parse(once)) |-> k]
              /\ AddedOf(once, text) = <<>>
<1> DEFINE C == Chunks(t, text)
           once == Merge(t, text)
           ss == Parse(once)
           new == Parse(text)
           D == KeysOf(new)
           K == {j \in DOMAIN ss : SectionKey(ss[j]) \in D => IsFirst(ss, j)}
           A == {j \in DOMAIN new : SectionKey(new[j]) \notin KeysOf(ss)}
<1>1. /\ ss \in Seq(Seq(Lines)) /\ Len(ss) = Len(C) - 1
      /\ \A j \in 1..Len(ss) : j + 1 \in 2..Len(C) /\ SectionKey(ss[j]) = KeyOf(C, j + 1)
  BY MergedSections
<1>2. /\ \A k \in D : \E i \in 2..Len(C) : KeyOf(C, i) = k
      /\ \A i, j \in 2..Len(C) : KeyOf(C, i) = KeyOf(C, j) /\ KeyOf(C, i) \in D => i = j
  BY ChunkKeys
<1>3. new \in Seq(Seq(Lines)) /\ Len(new) \in Nat /\ DOMAIN new = 1..Len(new)
  BY ParseFacts
<1>4. KeptOf(once, text) = InOrder(Len(ss), K) /\ AddedOf(once, text) = InOrder(Len(new), A)
  BY DEF KeptOf, AddedOf, Kept, Others
<1> HIDE DEF C, ss, new, once
<1>5. DOMAIN ss = 1..Len(ss) /\ Len(ss) \in Nat
  BY <1>1
<1>6. 1..Len(ss) \subseteq K
  <2> SUFFICES ASSUME NEW j \in 1..Len(ss), SectionKey(ss[j]) \in D PROVE IsFirst(ss, j)
    BY <1>5
  <2>1. ASSUME NEW i \in 1..(j - 1), SectionKey(ss[i]) = SectionKey(ss[j]) PROVE FALSE
    <3>1. i \in 1..Len(ss) /\ i # j /\ i + 1 # j + 1
      BY <1>5
    <3>2. i + 1 \in 2..Len(C) /\ j + 1 \in 2..Len(C)
      BY <1>1, <3>1
    <3>3. KeyOf(C, i + 1) = SectionKey(ss[i]) /\ KeyOf(C, j + 1) = SectionKey(ss[j])
      BY <1>1, <3>1
    <3> QED BY <1>2, <2>1, <3>1, <3>2, <3>3
  <2> QED BY <2>1 DEF IsFirst
<1>7. A \cap 1..Len(new) = {}
  <2> SUFFICES ASSUME NEW j \in 1..Len(new) PROVE SectionKey(new[j]) \in KeysOf(ss)
    BY <1>3
  <2>1. SectionKey(new[j]) \in D
    BY <1>3 DEF KeysOf
  <2>2. PICK i \in 2..Len(C) : KeyOf(C, i) = SectionKey(new[j])
    BY <1>2, <2>1
  <2>3. Len(C) \in Int
    BY <2>2
  <2>4. i - 1 \in 1..Len(ss) /\ (i - 1) + 1 = i
    BY <1>1, <1>5, <2>2
  <2>5. SectionKey(ss[i - 1]) = SectionKey(new[j])
    BY <1>1, <2>2, <2>4
  <2> QED BY <1>5, <2>4, <2>5 DEF KeysOf
<1> HIDE DEF K, A
<1>8. InOrder(Len(ss), K) = [k \in 1..Len(ss) |-> k]
  BY <1>5, <1>6, InOrderAll
<1>9. InOrder(Len(new), A) = <<>>
  BY <1>3, <1>7, InOrderNone
<1> QED BY <1>4, <1>8, <1>9 DEF ss, once

\* The parts of the file merged again are those it was merged of, with the blank
\* lines after them that are now theirs.
LEMMA AgainChunks ==
    ASSUME NEW t \in Seq(Lines), NEW text \in Seq(Lines), Distinct(text)
    PROVE  LET C == Chunks(t, text)
               B == Chunks(Merge(t, text), text)
           IN /\ Len(B) = Len(C) /\ Len(C) >= 1 /\ C \in Seq(Parts) /\ B \in Seq(Parts)
              /\ B[1] = Old(Separated(C, 1)) /\ ~C[1].written
              /\ \A i \in 2..Len(C) :
                    B[i] = IF C[i].written THEN Written(C[i].text, FALSE) ELSE Old(Separated(C, i))
<1> DEFINE C == Chunks(t, text)
           once == Merge(t, text)
           B == Chunks(once, text)
           ss == Parse(once)
           D == KeysOf(Parse(text))
           kept == KeptOf(once, text)
<1>1. /\ once \in Seq(Lines) /\ Len(C) >= 1
      /\ ss \in Seq(Seq(Lines)) /\ Len(ss) = Len(C) - 1
      /\ Preamble(once) = Separated(C, 1)
      /\ \A j \in 1..Len(ss) : ss[j] = Separated(C, j + 1) /\ SectionKey(ss[j]) = KeyOf(C, j + 1)
  BY MergedSections
<1>2. kept = [k \in 1..Len(ss) |-> k] /\ AddedOf(once, text) = <<>>
  BY AgainKept
<1>3. C \in Seq(Parts) /\ C[1] = Old(Preamble(t))
  BY ChunksAre
<1>4. ~C[1].written
  <2>1. Preamble(t) \in Seq(Lines)
    BY ParseFacts
  <2>2. ~Old(Preamble(t)).written
    BY <2>1, PartTypes
  <2> QED BY <1>3, <2>2
<1>5. \A i \in 2..Len(C) : /\ C[i].written <=> KeyOf(C, i) \in D
                           /\ C[i].written => C[i].text = Incoming(text)[KeyOf(C, i)]
  BY ChunkKeys
<1>6. /\ B \in Seq(Parts) /\ Len(B) = 1 + Len(kept) + Len(AddedOf(once, text))
      /\ B[1] = Old(Preamble(once))
      /\ \A k \in 1..Len(kept) : B[1 + k] = ChunkOf(ss[kept[k]], text)
  <2>1. once \in Seq(Lines)
    BY <1>1
  <2> HIDE DEF once
  <2>2. B \in Seq(Parts) /\ Len(B) = 1 + Len(kept) + Len(AddedOf(once, text))
    BY <2>1, ChunksAre
  <2>3. B[1] = Old(Preamble(once))
    BY <2>1, ChunksAre
  <2>4. \A k \in 1..Len(kept) : B[1 + k] = ChunkOf(ss[kept[k]], text)
    BY <2>1, ChunksAre
  <2> QED BY <2>2, <2>3, <2>4
<1> HIDE DEF C, once, B, ss, D, kept
<1>7. Len(ss) \in Nat /\ Len(kept) = Len(ss) /\ \A k \in 1..Len(ss) : kept[k] = k
  BY <1>1, <1>2
<1>8. Len(AddedOf(once, text)) = 0
  BY <1>2
<1>9. Len(B) = Len(C)
  BY <1>1, <1>6, <1>7, <1>8
<1>10. ASSUME NEW i \in 2..Len(C)
       PROVE  B[i] = IF C[i].written THEN Written(C[i].text, FALSE) ELSE Old(Separated(C, i))
  <2> DEFINE k == i - 1
             s == ss[k]
  <2>1. k \in 1..Len(ss) /\ 1 + k = i /\ k + 1 = i
    BY <1>1, <1>7
  <2> HIDE DEF k
  <2>2. B[i] = IF SectionKey(s) \in D THEN Written(Incoming(text)[SectionKey(s)], FALSE) ELSE Old(s)
    BY <1>6, <1>7, <2>1 DEF ChunkOf, D
  <2>3. s = Separated(C, i) /\ SectionKey(s) = KeyOf(C, i)
    BY <1>1, <2>1
  <2> HIDE DEF s
  <2>4. CASE C[i].written
    <3>1. KeyOf(C, i) \in D /\ C[i].text = Incoming(text)[KeyOf(C, i)]
      BY <1>5, <2>4, Zenon
    <3> QED BY <2>2, <2>3, <2>4, <3>1
  <2>5. CASE ~C[i].written
    <3>1. KeyOf(C, i) \notin D
      BY <1>5, <2>5, Zenon
    <3> QED BY <2>2, <2>3, <2>5, <3>1
  <2> QED BY <2>4, <2>5
<1> QED BY <1>1, <1>3, <1>4, <1>6, <1>9, <1>10 DEF C, B, once

LEMMA MergeAgain ==
    ASSUME NEW t \in Seq(Lines), NEW text \in Seq(Lines), Distinct(text)
    PROVE  Merge(Merge(t, text), text) = Merge(t, text)
<1> DEFINE C == Chunks(t, text)
           once == Merge(t, text)
           B == Chunks(once, text)
<1>1. /\ Len(B) = Len(C) /\ Len(C) >= 1 /\ C \in Seq(Parts) /\ B \in Seq(Parts)
      /\ B[1] = Old(Separated(C, 1)) /\ ~C[1].written
      /\ \A i \in 2..Len(C) :
            B[i] = IF C[i].written THEN Written(C[i].text, FALSE) ELSE Old(Separated(C, i))
  BY AgainChunks
<1>2. /\ once \in Seq(Lines) /\ once = FlattenSeq(Final(t, text))
      /\ Final(t, text) \in Seq(Seq(Lines))
      /\ Len(Final(t, text)) = Len(C)
      /\ \A i \in 1..Len(C) : Final(t, text)[i] = Separated(C, i)
  BY MergeBlocks DEF AreBlocks, BlockLists
<1> HIDE DEF C, once
<1>3. /\ Merge(once, text) = FlattenSeq(Final(once, text))
      /\ Final(once, text) \in Seq(Seq(Lines))
      /\ Len(Final(once, text)) = Len(B)
      /\ \A i \in 1..Len(B) : Final(once, text)[i] = Separated(B, i)
  BY <1>2, MergeBlocks DEF AreBlocks, BlockLists
<1> HIDE DEF B
<1>4. \A i \in 1..Len(C) : C[i] \in Parts /\ C[i].text \in Seq(Lines)
  <2>1. \A i \in 1..Len(C) : C[i] \in Parts
    BY <1>1
  <2> QED BY <2>1 DEF Parts
<1>5. \A i \in 1..Len(C) : Separated(C, i) \in Seq(Lines)
  BY <1>1, SeparatedFacts
<1>6. /\ \A i \in 1..Len(C) : C[i].written /\ i # 1 => B[i] = Written(C[i].text, FALSE)
      /\ \A i \in 1..Len(C) : ~C[i].written => B[i] = Old(Separated(C, i))
  <2>1. \A i \in 1..Len(C) : i = 1 \/ i \in 2..Len(C)
    BY <1>1
  <2> QED BY <1>1, <2>1
<1>7. ASSUME NEW i \in 1..Len(C) PROVE ~B[i].appended
  <2>1. CASE C[i].written
    <3>1. B[i] = Written(C[i].text, FALSE) /\ C[i].text \in Seq(Lines)
      BY <1>1, <1>4, <1>6, <2>1
    <3> QED BY <3>1, PartTypes
  <2>2. CASE ~C[i].written
    <3>1. B[i] = Old(Separated(C, i)) /\ Separated(C, i) \in Seq(Lines)
      BY <1>5, <1>6, <2>2
    <3> QED BY <3>1, PartTypes
  <2> QED BY <2>1, <2>2
<1>8. ASSUME NEW i \in 1..Len(C) PROVE Separated(B, i) = Separated(C, i)
  <2>2. CASE C[i].written
    <3>1. B[i] = Written(C[i].text, FALSE)
      BY <1>1, <1>6, <2>2
    <3>2. B[i].text = C[i].text /\ B[i].written
      BY <1>4, <3>1, PartTypes
    <3>3. /\ i = Len(C) \/ C[i].text = <<>> => Separated(C, i) = C[i].text
          /\ i < Len(C) /\ C[i].text # <<>> => Separated(C, i) = Newline(C[i].text)
      BY <1>1, <2>2, SeparatedIs
    <3>4. i \in 1..Len(B)
      BY <1>1
    <3>5. /\ i = Len(B) \/ B[i].text = <<>> => Separated(B, i) = B[i].text
          /\ i < Len(B) /\ B[i].text # <<>> => Separated(B, i) = Newline(B[i].text)
      BY <1>1, <3>2, <3>4, SeparatedIs
    <3>6. i = Len(C) \/ i < Len(C)
      BY <1>1
    <3> QED BY <1>1, <3>2, <3>3, <3>5, <3>6
  <2>3. CASE ~C[i].written
    <3>1. B[i] = Old(Separated(C, i))
      BY <1>6, <2>3
    <3>2. B[i].text = Separated(C, i) /\ ~B[i].written
      BY <1>5, <3>1, PartTypes
    <3>3. i \in 1..Len(B)
      BY <1>1
    <3>4. /\ i = Len(B) => Separated(B, i) = B[i].text
          /\ i < Len(B) /\ ~B[i + 1].appended => Separated(B, i) = B[i].text
      BY <1>1, <3>2, <3>3, SeparatedIs
    <3>5. i = Len(B) \/ (i < Len(B) /\ i + 1 \in 1..Len(C))
      BY <1>1
    <3> QED BY <1>7, <3>2, <3>4, <3>5
  <2> QED BY <2>2, <2>3
<1>9. Final(once, text) = Final(t, text)
  <2> DEFINE x == Final(once, text)
             y == Final(t, text)
  <2>1. x \in Seq(Seq(Lines)) /\ y \in Seq(Seq(Lines)) /\ Len(x) = Len(y)
    BY <1>1, <1>2, <1>3
  <2>2. \A i \in 1..Len(x) : x[i] = y[i]
    BY <1>1, <1>2, <1>3, <1>8
  <2> HIDE DEF x, y
  <2>3. x = y
    BY <2>1, <2>2, SeqEqual
  <2> QED BY <2>3 DEF x, y
<1> QED BY <1>2, <1>3, <1>9 DEF once

\* A get repeated finds the file it would write, whatever the file was and
\* whichever profile is got (awsprofile.go:197-202).
THEOREM RepeatedGet == Spec => []MergedTwice
<1>1. TypeOK => MergedTwice
  <2> SUFFICES ASSUME TypeOK, NEW secret \in Secrets
               PROVE  LET once == Merge(file, secret.text) IN Merge(once, secret.text) = once
    BY DEF MergedTwice
  <2>1. secret.text \in Seq(Lines) /\ Distinct(secret.text)
    BY SecretsAre, SecretFacts
  <2>2. file \in Seq(Lines)
    BY DEF TypeOK, IsText
  <2> QED BY <2>1, <2>2, MergeAgain
<1> QED BY <1>1, TypeCorrect, PTL

-----------------------------------------------------------------------------
(* The sections of the merged file *)

\* The first section of an incoming key is, up to blanks at its end, the new one.
LEMMA FindIncoming ==
    ASSUME NEW t \in Seq(Lines), NEW text \in Seq(Lines), NEW k \in KeysOf(Parse(text))
    PROVE  LET r == FindSection(Merge(t, text), k)
           IN /\ r \in Seq(Lines) /\ r # <<>>
              /\ NormalizeSection(r) = Incoming(text)[k]
<1> DEFINE C == Chunks(t, text)
           once == Merge(t, text)
           ss == Parse(once)
<1>1. /\ once \in Seq(Lines) /\ ss \in Seq(Seq(Lines)) /\ Len(ss) = Len(C) - 1
      /\ \A j \in 1..Len(ss) : /\ j + 1 \in 2..Len(C)
                               /\ ss[j] = Separated(C, j + 1) /\ IsSection(ss[j])
                               /\ SectionKey(ss[j]) = KeyOf(C, j + 1)
  BY MergedSections
<1>2. /\ \A i \in 2..Len(C) : /\ C[i] \in Parts
                              /\ C[i].written <=> KeyOf(C, i) \in KeysOf(Parse(text))
                              /\ C[i].written => C[i].text = Incoming(text)[KeyOf(C, i)]
      /\ \E i \in 2..Len(C) : KeyOf(C, i) = k
  BY ChunkKeys
<1>3. C \in Seq(Parts)
  BY ChunksAre
<1> HIDE DEF C, once, ss
<1>4. k \in KeysOf(ss)
  <2>1. PICK i \in 2..Len(C) : KeyOf(C, i) = k
    BY <1>2
  <2>2. Len(ss) \in Nat /\ DOMAIN ss = 1..Len(ss)
    BY <1>1
  <2>3. Len(C) = Len(ss) + 1
    BY <1>1, <2>1
  <2>4. i - 1 \in 1..Len(ss) /\ (i - 1) + 1 = i
    BY <2>1, <2>2, <2>3
  <2>5. SectionKey(ss[i - 1]) = k
    BY <1>1, <2>1, <2>4
  <2> QED BY <2>2, <2>4, <2>5 DEF KeysOf
<1>5. PICK m \in 1..Len(ss) : SectionKey(ss[m]) = k /\ FindSection(once, k) = ss[m]
  BY <1>1, <1>4, FindFacts DEF ss
<1> DEFINE i == m + 1
<1>6. i \in 2..Len(C) /\ ss[m] = Separated(C, i) /\ IsSection(ss[m]) /\ KeyOf(C, i) = k
  BY <1>1, <1>5
<1>7. i \in 1..Len(C)
  BY <1>6
<1> HIDE DEF i
<1>8. C[i].text = Incoming(text)[k]
  BY <1>2, <1>6
<1>9. ss[m] \in Seq(Lines) /\ NormalizeSection(ss[m]) = NormalizeSection(Incoming(text)[k])
  BY <1>3, <1>6, <1>7, <1>8, SeparatedFacts
<1>10. NormalizeSection(Incoming(text)[k]) = Incoming(text)[k]
  BY IncomingFacts
<1> QED BY <1>5, <1>6, <1>9, <1>10 DEF once, IsSection

\* The first section of another key is, up to blanks at its end, the old one.
LEMMA FindOther ==
    ASSUME NEW t \in Seq(Lines), NEW text \in Seq(Lines), NEW k, k \notin KeysOf(Parse(text))
    PROVE  NormalizeSection(FindSection(Merge(t, text), k)) = NormalizeSection(FindSection(t, k))
<1> DEFINE C == Chunks(t, text)
           once == Merge(t, text)
           ss == Parse(once)
           old == Parse(t)
           new == Parse(text)
           D == KeysOf(new)
           kept == KeptOf(t, text)
           added == AddedOf(t, text)
           m == Len(kept)
           n == Len(added)
<1>1. /\ once \in Seq(Lines) /\ ss \in Seq(Seq(Lines)) /\ Len(ss) = Len(C) - 1
      /\ \A j \in 1..Len(ss) : /\ j + 1 \in 2..Len(C)
                               /\ ss[j] = Separated(C, j + 1) /\ IsSection(ss[j])
                               /\ SectionKey(ss[j]) = KeyOf(C, j + 1)
  BY MergedSections
<1>2. /\ C \in Seq(Parts) /\ m \in Nat /\ n \in Nat /\ Len(C) = 1 + m + n
      /\ \A x \in 1..m : kept[x] \in 1..Len(old)
  BY ChunksAre
<1>3. /\ \A x \in 1..m : IsKeptPart(C[1 + x], old[kept[x]], text)
      /\ \A x \in 1..n : IsAddedPart(C[1 + m + x], new[added[x]], text)
  BY ChunkKinds
<1>4. old \in Seq(Seq(Lines))
  BY ParseFacts
<1>5. Lists(kept, {j \in 1..Len(old) : SectionKey(old[j]) \in D => IsFirst(old, j)})
  BY <1>4, KeptFacts DEF KeptOf
<1> HIDE DEF C, once, ss, old, kept, added
<1>6. DOMAIN kept = 1..m /\ \A x, y \in 1..m : x < y => kept[x] < kept[y]
  BY <1>5 DEF Lists
<1> HIDE DEF m, n
<1>7. /\ \A x \in 1..m : /\ x \in 1..Len(ss)
                         /\ SectionKey(ss[x]) = SectionKey(old[kept[x]])
      /\ \A x \in 1..n : /\ m + x \in 1..Len(ss)
                         /\ SectionKey(ss[m + x]) \in D
      /\ Len(ss) = m + n /\ DOMAIN ss = 1..Len(ss) /\ DOMAIN old = 1..Len(old)
  <2>1. Len(ss) = m + n /\ DOMAIN ss = 1..Len(ss) /\ DOMAIN old = 1..Len(old)
    BY <1>1, <1>2, <1>4
  <2>2. ASSUME NEW x \in 1..m PROVE x \in 1..Len(ss) /\ SectionKey(ss[x]) = SectionKey(old[kept[x]])
    <3>1. x \in 1..Len(ss) /\ 1 + x = x + 1
      BY <1>2, <2>1
    <3>2. SectionKey(ss[x]) = KeyOf(C, 1 + x)
      BY <1>1, <3>1
    <3> QED BY <1>3, <3>1, <3>2 DEF IsKeptPart, KeyOf
  <2>3. ASSUME NEW x \in 1..n PROVE m + x \in 1..Len(ss) /\ SectionKey(ss[m + x]) \in D
    <3>1. m + x \in 1..Len(ss) /\ 1 + m + x = (m + x) + 1
      BY <1>2, <2>1
    <3>2. SectionKey(ss[m + x]) = KeyOf(C, 1 + m + x)
      BY <1>1, <3>1
    <3> QED BY <1>3, <3>1, <3>2 DEF IsAddedPart, KeyOf, new
  <2> QED BY <2>1, <2>2, <2>3
<1>8. CASE k \notin KeysOf(old)
  <2>1. k \notin KeysOf(ss)
    <3> SUFFICES ASSUME NEW j \in 1..Len(ss), SectionKey(ss[j]) = k PROVE FALSE
      BY <1>7 DEF KeysOf
    <3>1. j \in 1..m \/ (j - m \in 1..n /\ m + (j - m) = j)
      BY <1>2, <1>7
    <3>2. CASE j \in 1..m
      <4>1. kept[j] \in DOMAIN old /\ SectionKey(old[kept[j]]) = k
        BY <1>2, <1>7, <3>2
      <4> QED BY <1>8, <4>1 DEF KeysOf
    <3>3. CASE j - m \in 1..n /\ m + (j - m) = j
      <4>1. SectionKey(ss[m + (j - m)]) \in D
        BY <1>7, <3>3
      <4> QED BY <3>3, <4>1 DEF new
    <3> QED BY <3>1, <3>2, <3>3
  <2>2. FindSection(t, k) = <<>> /\ FindSection(once, k) = <<>>
    BY <1>1, <1>8, <2>1, FindFacts DEF old, ss
  <2> QED BY <2>2 DEF once
<1>9. CASE k \in KeysOf(old)
  <2>1. PICK p \in 1..Len(old) :
            SectionKey(old[p]) = k /\ IsFirst(old, p) /\ FindSection(t, k) = old[p]
    BY <1>9, FindFacts DEF old
  <2>2. PICK x \in 1..m : kept[x] = p
    BY <1>5, <1>6, <2>1 DEF Lists
  <2>3. x \in 1..Len(ss) /\ SectionKey(ss[x]) = k
    BY <1>7, <2>1, <2>2
  <2>4. IsFirst(ss, x)
    <3>1. ASSUME NEW i \in 1..(x - 1) PROVE SectionKey(ss[i]) # k
      <4>1. i \in 1..m /\ i < x
        BY <1>2
      <4>2. kept[i] < p /\ kept[i] \in 1..Len(old)
        BY <1>2, <1>6, <2>2, <4>1
      <4>3. kept[i] \in 1..(p - 1)
        BY <4>2
      <4>4. SectionKey(old[kept[i]]) # k
        BY <2>1, <4>3 DEF IsFirst
      <4> QED BY <1>7, <4>1, <4>4
    <3> QED BY <2>3, <3>1 DEF IsFirst
  <2>5. FindSection(once, k) = ss[x]
    BY <1>1, <2>3, <2>4, FindIs DEF ss
  <2> DEFINE i == 1 + x
  <2>6. i \in 1..Len(C) /\ ss[x] = Separated(C, i)
    BY <1>1, <1>2, <2>3
  <2>7. IsKeptPart(C[i], old[p], text)
    BY <1>3, <2>2
  <2> HIDE DEF i
  <2>8. C[i].text = old[p]
    BY <2>1, <2>7 DEF IsKeptPart, new
  <2>9. NormalizeSection(ss[x]) = NormalizeSection(old[p])
    BY <1>2, <2>6, <2>8, SeparatedFacts
  <2> QED BY <2>1, <2>5, <2>9 DEF once
<1> QED BY <1>8, <1>9

LEMMA KeysAreKeys ==
    ASSUME NEW t \in Seq(Lines)
    PROVE  KeysOf(Parse(t)) \subseteq Keys
<1> DEFINE ss == Parse(t)
<1>1. ss \in Seq(Seq(Lines)) /\ \A j \in 1..Len(ss) : IsSection(ss[j])
  BY ParseFacts
<1> HIDE DEF ss
<1>2. ASSUME NEW j \in DOMAIN ss PROVE SectionKey(ss[j]) \in Keys
  <2>1. j \in 1..Len(ss)
    BY <1>1
  <2>2. ss[j] \in Seq(Lines) /\ IsSection(ss[j])
    BY <1>1, <2>1
  <2>3. Head(ss[j]) = ss[j][1]
    BY <2>2 DEF IsSection
  <2>4. Head(ss[j]).body \in Headers
    BY <2>2, <2>3 DEF IsSection, IsHeader
  <2> QED BY <2>4, FilesAssumption DEF SectionKey
<1> QED BY <1>2 DEF KeysOf, ss

\* Whatever the file and the profile, what Install takes of a merge holds: the keys
\* of the secret have the new contents, all others those they had (merge.go:51-77).
THEOREM MergedSectionwise == Spec => MergesSections
<1>1. TypeOK /\ [Next]_file =>
        [\A secret \in Secrets :
            Get(secret) =>
               LET incoming == Incoming(secret.text) IN
               SectionsOf(file') =
                   [k \in Keys |-> IF k \in DOMAIN incoming THEN incoming[k]
                                                          ELSE SectionsOf(file)[k]]]_file
  <2> SUFFICES ASSUME TypeOK, NEW secret \in Secrets, Get(secret)
               PROVE  LET incoming == Incoming(secret.text) IN
                      SectionsOf(file') =
                          [k \in Keys |-> IF k \in DOMAIN incoming THEN incoming[k]
                                                                 ELSE SectionsOf(file)[k]]
    OBVIOUS
  <2> DEFINE text == secret.text
             incoming == Incoming(text)
             new == SectionsOf(Merge(file, text))
  <2>1. text \in Seq(Lines) /\ file \in Seq(Lines) /\ file' = Merge(file, text)
    BY SecretsAre, SecretFacts DEF TypeOK, IsText, Get
  <2>2. DOMAIN incoming = KeysOf(Parse(text))
    BY <2>1, IncomingFacts
  <2>3. ASSUME NEW k \in Keys
        PROVE  new[k] = IF k \in DOMAIN incoming THEN incoming[k] ELSE SectionsOf(file)[k]
    <3>1. /\ new[k] = NormalizeSection(FindSection(Merge(file, text), k))
          /\ SectionsOf(file)[k] = NormalizeSection(FindSection(file, k))
      BY DEF SectionsOf
    <3>2. k \in DOMAIN incoming => NormalizeSection(FindSection(Merge(file, text), k)) = incoming[k]
      BY <2>1, <2>2, FindIncoming
    <3>3. k \notin DOMAIN incoming =>
            NormalizeSection(FindSection(Merge(file, text), k)) = NormalizeSection(FindSection(file, k))
      BY <2>1, <2>2, FindOther
    <3> QED BY <3>1, <3>2, <3>3
  <2>4. new = [k \in Keys |-> new[k]]
    BY DEF SectionsOf
  <2>5. SectionsOf(file') = new
    BY <2>1
  <2> HIDE DEF new, incoming
  <2>6. new = [k \in Keys |-> IF k \in DOMAIN incoming THEN incoming[k] ELSE SectionsOf(file)[k]]
    BY <2>3, <2>4
  <2> QED BY <2>5, <2>6 DEF incoming
<1> QED BY <1>1, TypeCorrect, PTL DEF Spec, MergesSections

-----------------------------------------------------------------------------
(* Capturing what was merged *)

\* What the section of a captured one is in the secret: up to a blank line, itself.
LEMMA SecretSections ==
    ASSUME NEW profile \in Profiles, NEW text, NEW own, IsCaptured(own, profile)
    PROVE  /\ Alone(text, own) =>
                 /\ profile \in KeysOf(Parse(text)) /\ Incoming(text)[profile] = own
                 /\ Len(Parse(text)) = 1
           /\ \A session : WithSession(text, own, session) =>
                 /\ profile \in KeysOf(Parse(text)) /\ Incoming(text)[profile] = own
                 /\ SessionOf(own) \in KeysOf(Parse(text))
                 /\ Incoming(text)[SessionOf(own)] = session
<1>0. own \in Seq(Lines) /\ SectionKey(own) = profile /\ NormalizeSection(own) = own
  BY DEF IsCaptured
<1>1. ASSUME Alone(text, own)
      PROVE  /\ profile \in KeysOf(Parse(text)) /\ Incoming(text)[profile] = own
             /\ Len(Parse(text)) = 1
  <2> DEFINE ss == Parse(text)
  <2>1. text \in Seq(Lines) /\ Len(ss) = 1 /\ DOMAIN ss = 1..1 /\ ss[1] = own
    BY <1>0, <1>1 DEF Alone, Parse
  <2> HIDE DEF ss
  <2>2. profile \in KeysOf(ss) /\ IsFirst(ss, 1)
    BY <1>0, <2>1 DEF KeysOf, IsFirst
  <2>3. FindSection(text, profile) = own
    BY <1>0, <2>1, <2>2, FindIs DEF ss
  <2>4. Incoming(text)[profile] = NormalizeSection(own)
    BY <2>2, <2>3 DEF Incoming, ss
  <2> QED BY <1>0, <2>1, <2>2, <2>4 DEF ss
<1>2. ASSUME NEW session, WithSession(text, own, session)
      PROVE  /\ profile \in KeysOf(Parse(text)) /\ Incoming(text)[profile] = own
             /\ SessionOf(own) \in KeysOf(Parse(text))
             /\ Incoming(text)[SessionOf(own)] = session
  <2> DEFINE ss == Parse(text)
             a == Newline(own)
             key == SessionOf(own)
  <2>1. /\ session \in Seq(Lines) /\ SectionKey(session) = key
        /\ NormalizeSection(session) = session /\ key # profile
    BY <1>2 DEF WithSession, IsCaptured
  <2>2. a \in Seq(Lines) /\ SectionKey(a) = profile /\ NormalizeSection(a) = own
    BY NewlineCaptured
  <2>3. text = a \o session /\ Blocks(text) = << <<>>, a, session >>
    BY <1>2 DEF WithSession
  <2> HIDE DEF a, key
  <2>4. text \in Seq(Lines) /\ Len(ss) = 2 /\ DOMAIN ss = 1..2 /\ ss[1] = a /\ ss[2] = session
    BY <2>1, <2>2, <2>3 DEF Parse
  <2> HIDE DEF ss
  <2>5. profile \in KeysOf(ss) /\ key \in KeysOf(ss) /\ IsFirst(ss, 1) /\ IsFirst(ss, 2)
    <3>1. \A i \in 1..(2 - 1) : i = 1
      OBVIOUS
    <3>2. (1..(1 - 1)) = {}
      OBVIOUS
    <3> QED BY <2>1, <2>2, <2>4, <3>1, <3>2 DEF KeysOf, IsFirst
  <2>6. 1 \in 1..Len(ss) /\ 2 \in 1..Len(ss)
    BY <2>4
  <2>7. FindSection(text, profile) = a
    BY <2>2, <2>4, <2>5, <2>6, FindIs DEF ss
  <2>8. FindSection(text, key) = session
    BY <2>1, <2>4, <2>5, <2>6, FindIs DEF ss
  <2>9. Incoming(text)[profile] = own /\ Incoming(text)[key] = session
    BY <2>1, <2>2, <2>5, <2>7, <2>8 DEF Incoming, ss
  <2> QED BY <2>5, <2>9 DEF ss, key
<1> QED BY <1>1, <1>2

LEMMA CaptureMerged ==
    ASSUME NEW t, IsText(t), NEW profile \in Profiles, NEW text, IsSecret(text, profile)
    PROVE  LET again == CaptureProfile(Merge(t, text), profile)
           IN \/ again = text
              \/ Len(Parse(text)) = 1 /\ IsPrefix(text, again)
<1> DEFINE once == Merge(t, text)
           again == CaptureProfile(once, profile)
           raw == FindSection(once, profile)
           key == SessionOf(raw)
           ses == NormalizeSection(FindSection(once, key))
<1>0. /\ t \in Seq(Lines) /\ text \in Seq(Lines) /\ IsText(text)
      /\ profile \in KeysOf(Parse(text))
  BY SecretFacts DEF IsText
<1>1. IsText(once)
  BY <1>0, MergeText
<1>2. PICK own : /\ IsCaptured(own, profile)
                 /\ Alone(text, own) \/ \E session : WithSession(text, own, session)
  BY DEF IsSecret
<1>3. raw \in Seq(Lines) /\ raw # <<>> /\ NormalizeSection(raw) = own
  <2>1. Incoming(text)[profile] = own
    BY <1>2, SecretSections
  <2> QED BY <1>0, <2>1, FindIncoming
<1> HIDE DEF once
<1>4. /\ SessionOf(own) = key
      /\ IF key = None \/ FindSection(once, key) = <<>>
           THEN Alone(again, own)
           ELSE WithSession(again, own, ses)
  BY <1>1, <1>3, CaptureIs
<1> HIDE DEF raw, again, key, ses
<1>5. ASSUME Alone(text, own)
      PROVE  again = text \/ (Len(Parse(text)) = 1 /\ IsPrefix(text, again))
  <2>1. text = own /\ Len(Parse(text)) = 1
    BY <1>2, <1>5, SecretSections DEF Alone
  <2>2. CASE Alone(again, own)
    BY <2>1, <2>2 DEF Alone
  <2>3. CASE WithSession(again, own, ses)
    <3>1. again = Newline(own) \o ses /\ ses \in Seq(Lines)
      BY <2>3 DEF WithSession, IsCaptured
    <3>2. Newline(own) = own \o <<EmptyLine>> /\ own \in Seq(Lines) /\ <<EmptyLine>> \in Seq(Lines)
      BY <1>2, NewlineCaptured, LineFacts DEF IsCaptured
    <3> DEFINE rest == <<EmptyLine>> \o ses
    <3>3. again = own \o rest
      BY <3>1, <3>2, ConcatAssociative
    <3>4. rest \in Seq(Lines)
      BY <3>1, <3>2
    <3> HIDE DEF rest
    <3>5. IsPrefix(own, own \o rest)
      <4>1. /\ own \o rest \in Seq(Lines) /\ Len(own \o rest) = Len(own) + Len(rest)
            /\ \A i \in 1..Len(own) : (own \o rest)[i] = own[i]
        BY <3>2, <3>4
      <4> DEFINE c == own \o rest
      <4>2. /\ c \in Seq(Lines) /\ Len(own) <= Len(c) /\ Len(own) \in Nat
            /\ \A i \in 1..Len(own) : c[i] = own[i]
        BY <3>2, <3>4, <4>1
      <4> HIDE DEF c
      <4>3. SubSeq(own, 1, Len(own)) = SubSeq(c, 1, Len(own))
        BY <3>2, <4>2
      <4> QED BY <4>2, <4>3 DEF IsPrefix, c
    <3> QED BY <2>1, <3>3, <3>5
  <2> QED BY <1>4, <2>2, <2>3
<1>6. ASSUME NEW session, WithSession(text, own, session) PROVE again = text
  <2>1. key \in Keys \ Profiles /\ text = Newline(own) \o session
    BY <1>4, <1>6 DEF WithSession
  <2>2. key # None
    BY <2>1, FilesAssumption
  <2>3. key \in KeysOf(Parse(text)) /\ Incoming(text)[key] = session
    BY <1>2, <1>4, <1>6, SecretSections
  <2>4. FindSection(once, key) # <<>> /\ ses = session
    BY <1>0, <2>3, FindIncoming DEF once, ses
  <2>5. WithSession(again, own, session)
    BY <1>4, <2>2, <2>4
  <2> QED BY <2>1, <2>5 DEF WithSession
<1> QED BY <1>2, <1>5, <1>6 DEF again, once

\* What was installed is what a second machine captures, for every file and every
\* profile (capture.go:70-104 after merge.go:33-108).
THEOREM CaptureOfMerge == Spec => CapturedAgain
<1>1. TypeOK /\ [Next]_file =>
        [\A secret \in Secrets :
           Get(secret) =>
               LET again == CaptureProfile(file', secret.profile) IN
               \/ again = secret.text
               \/ /\ Len(Parse(secret.text)) = 1
                  /\ IsPrefix(secret.text, again)]_file
  <2> SUFFICES ASSUME TypeOK, NEW secret \in Secrets, Get(secret)
               PROVE  LET again == CaptureProfile(file', secret.profile) IN
                      \/ again = secret.text
                      \/ /\ Len(Parse(secret.text)) = 1
                         /\ IsPrefix(secret.text, again)
    OBVIOUS
  <2>1. secret.profile \in Profiles /\ IsSecret(secret.text, secret.profile)
    BY SecretsAre
  <2>2. IsText(file) /\ file' = Merge(file, secret.text)
    BY DEF TypeOK, Get
  <2> QED BY <2>1, <2>2, CaptureMerged
<1> QED BY <1>1, TypeCorrect, PTL DEF Spec, CapturedAgain

-----------------------------------------------------------------------------
(* What is not of the profile *)

LEMMA ExtendsSame ==
    ASSUME NEW b \in Seq(Lines), NEW u, Extends(u, b)
    PROVE  SameButEnd(b, u)
<1> DEFINE n == Len(b)
<1>1. /\ n \in Nat /\ u \in Seq(Lines) /\ Len(u) \in Nat /\ n <= Len(u)
      /\ \A i \in 1..n : u[i].body = b[i].body
      /\ \A i \in 1..n : i < n => u[i] = b[i]
      /\ \A i \in (n + 1)..Len(u) : u[i] = EmptyLine
  BY DEF Extends
<1>2. (IF Len(b) < Len(u) THEN Len(b) ELSE Len(u)) = n
  BY <1>1
<1> HIDE DEF n
<1>3. \A i \in 1..n : b[i] = u[i] \/ (i = n /\ b[i].body = u[i].body)
  BY <1>1
<1>4. \A i \in (n + 1)..n : Blank(b[i])
  BY <1>1
<1>5. \A i \in (n + 1)..Len(u) : Blank(u[i])
  BY <1>1, LineFacts
<1> QED BY <1>2, <1>3, <1>4, <1>5 DEF SameButEnd, n

\* A part that is not written is as it was, but before one that is appended.
LEMMA SeparatedSame ==
    ASSUME NEW C \in Seq(Parts), NEW i \in 1..Len(C), ~C[i].written
    PROVE  \/ Separated(C, i) = C[i].text
           \/ i < Len(C) /\ C[i + 1].appended /\ SameButEnd(C[i].text, Separated(C, i))
<1> DEFINE b == C[i].text
           u == Separated(C, i)
<1>0. C[i] \in Parts
  OBVIOUS
<1>1. b \in Seq(Lines)
  BY <1>0 DEF Parts
<1>2. /\ i = Len(C) \/ b = <<>> => u = b
      /\ i < Len(C) /\ ~C[i + 1].appended => u = b
      /\ i < Len(C) /\ b # <<>> /\ C[i + 1].appended => u \in {Ended(b), Newline(Ended(b))}
  BY SeparatedIs
<1>3. i = Len(C) \/ i < Len(C)
  OBVIOUS
<1> HIDE DEF b, u
<1> DEFINE e == Ended(b)
           v == Newline(e)
           n == Len(b)
<1>4. Extends(e, b) /\ EndsLine(e) /\ Len(e) = n
  BY <1>1, EndedFacts
<1>5. e \in Seq(Lines) /\ n \in Nat
  BY <1>1, <1>4 DEF Extends
<1>6. Extends(v, e)
  BY <1>5, NewlineExtends
<1> HIDE DEF e, v
<1>7. Extends(v, b)
  <2>1. /\ v \in Seq(Lines) /\ n <= Len(v)
        /\ \A j \in 1..n : v[j] = e[j]
        /\ \A j \in (n + 1)..Len(v) : v[j] = EmptyLine
    BY <1>4, <1>6 DEF Extends
  <2>2. /\ \A j \in 1..n : e[j].body = b[j].body
        /\ \A j \in 1..n : j < n \/ EndsLine(b) => e[j] = b[j]
    BY <1>4 DEF Extends
  <2> QED BY <2>1, <2>2 DEF Extends
<1>8. SameButEnd(b, e) /\ SameButEnd(b, v)
  BY <1>1, <1>4, <1>7, ExtendsSame
<1> QED BY <1>2, <1>3, <1>8 DEF b, u, e, v

\* The parts that are kept precede those that are appended.
LEMMA KeptFirst ==
    ASSUME NEW t \in Seq(Lines), NEW text \in Seq(Lines)
    PROVE  LET C == Chunks(t, text)
               ss == Parse(Merge(t, text))
               kept == KeptOf(t, text)
               m == Len(kept)
           IN /\ m \in Nat /\ m <= Len(ss) /\ Len(ss) = Len(C) - 1 /\ Len(ss) \in Nat
              /\ C \in Seq(Parts)
              /\ \A x \in 1..m :
                   /\ kept[x] \in 1..Len(Parse(t))
                   /\ 1 + x \in 1..Len(C)
                   /\ ss[x] = Separated(C, 1 + x)
                   /\ SectionKey(ss[x]) = SectionKey(Parse(t)[kept[x]])
                   /\ ~C[1 + x].appended
                   /\ SectionKey(ss[x]) \notin KeysOf(Parse(text)) =>
                        ~C[1 + x].written /\ C[1 + x].text = Parse(t)[kept[x]]
              /\ \A x \in 1..Len(ss) : x > m => SectionKey(ss[x]) \in KeysOf(Parse(text))
<1> DEFINE C == Chunks(t, text)
           once == Merge(t, text)
           ss == Parse(once)
           old == Parse(t)
           new == Parse(text)
           kept == KeptOf(t, text)
           added == AddedOf(t, text)
           m == Len(kept)
           n == Len(added)
<1>1. /\ Len(ss) = Len(C) - 1
      /\ \A j \in 1..Len(ss) : /\ ss[j] = Separated(C, j + 1)
                               /\ SectionKey(ss[j]) = KeyOf(C, j + 1)
  BY MergedSections
<1>2. /\ C \in Seq(Parts) /\ m \in Nat /\ n \in Nat /\ Len(C) = 1 + m + n
      /\ \A x \in 1..m : kept[x] \in 1..Len(old)
  BY ChunksAre
<1>3. /\ \A x \in 1..m : IsKeptPart(C[1 + x], old[kept[x]], text)
      /\ \A x \in 1..n : IsAddedPart(C[1 + m + x], new[added[x]], text)
  BY ChunkKinds
<1> HIDE DEF C, once, ss, old, new, kept, added, m, n
<1>4. ASSUME NEW x \in 1..m
      PROVE  /\ 1 + x \in 1..Len(C)
             /\ ss[x] = Separated(C, 1 + x)
             /\ SectionKey(ss[x]) = SectionKey(old[kept[x]])
             /\ ~C[1 + x].appended
             /\ SectionKey(ss[x]) \notin KeysOf(new) => ~C[1 + x].written /\ C[1 + x].text = old[kept[x]]
  <2>1. 1 + x \in 1..Len(C) /\ x \in 1..Len(ss) /\ 1 + x = x + 1
    BY <1>1, <1>2
  <2>2. ss[x] = Separated(C, 1 + x) /\ SectionKey(ss[x]) = KeyOf(C, 1 + x)
    BY <1>1, <2>1
  <2> QED BY <1>3, <2>1, <2>2 DEF IsKeptPart, KeyOf, new
<1>5. ASSUME NEW x \in 1..Len(ss), x > m PROVE SectionKey(ss[x]) \in KeysOf(new)
  <2>1. x - m \in 1..n /\ x + 1 = 1 + m + (x - m)
    BY <1>1, <1>2, <1>5
  <2>2. SectionKey(ss[x]) = KeyOf(C, x + 1)
    BY <1>1
  <2> QED BY <1>3, <2>1, <2>2 DEF IsAddedPart, KeyOf, new
<1>6. m <= Len(ss) /\ Len(ss) \in Nat
  BY <1>1, <1>2
<1> QED BY <1>1, <1>2, <1>4, <1>5, <1>6 DEF C, once, ss, old, new, kept, m

\* The sections of others are the same ones, in the same order.
LEMMA OthersKept ==
    ASSUME NEW t \in Seq(Lines), NEW text \in Seq(Lines)
    PROVE  LET D == KeysOf(Parse(text))
               before == Others(Parse(t), D)
               after == Others(Parse(Merge(t, text)), D)
               kept == KeptOf(t, text)
           IN /\ Len(before) \in Nat /\ Len(after) = Len(before)
              /\ DOMAIN after = 1..Len(before) /\ DOMAIN before = 1..Len(before)
              /\ \A j \in 1..Len(before) :
                    /\ after[j] \in 1..Len(kept)
                    /\ kept[after[j]] = before[j]
                    /\ SectionKey(Parse(Merge(t, text))[after[j]]) \notin D
              /\ \A i, j \in 1..Len(before) : i < j => after[i] < after[j]
<1> DEFINE ss == Parse(Merge(t, text))
           old == Parse(t)
           D == KeysOf(Parse(text))
           before == Others(old, D)
           after == Others(ss, D)
           kept == KeptOf(t, text)
           m == Len(kept)
           T == {j \in 1..Len(old) : SectionKey(old[j]) \notin D}
           q == [k \in DOMAIN after |-> kept[after[k]]]
<1>1. old \in Seq(Seq(Lines)) /\ ss \in Seq(Seq(Lines))
  BY ParseFacts, MergedSections
<1>2. /\ Lists(before, T)
      /\ Lists(after, {j \in 1..Len(ss) : SectionKey(ss[j]) \notin D})
      /\ Lists(kept, {j \in 1..Len(old) : SectionKey(old[j]) \in D => IsFirst(old, j)})
  BY <1>1, KeptFacts DEF KeptOf
<1>3. /\ m \in Nat /\ m <= Len(ss) /\ Len(ss) \in Nat
      /\ \A x \in 1..m : kept[x] \in 1..Len(old) /\ SectionKey(ss[x]) = SectionKey(old[kept[x]])
      /\ \A x \in 1..Len(ss) : x > m => SectionKey(ss[x]) \in D
  BY KeptFirst
<1> HIDE DEF ss, old, D, before, after, kept
<1>4. /\ after \in Seq(Nat) /\ before \in Seq(Nat) /\ kept \in Seq(Nat)
      /\ DOMAIN after = 1..Len(after) /\ Len(after) \in Nat
      /\ DOMAIN before = 1..Len(before) /\ Len(before) \in Nat
      /\ DOMAIN kept = 1..m
  BY <1>2 DEF Lists
<1> HIDE DEF m
<1>5. \A k \in DOMAIN after : /\ after[k] \in 1..m
                              /\ SectionKey(ss[after[k]]) \notin D
  <2> SUFFICES ASSUME NEW k \in DOMAIN after
               PROVE  after[k] \in 1..m /\ SectionKey(ss[after[k]]) \notin D
    OBVIOUS
  <2> DEFINE x == after[k]
  <2>1. x \in 1..Len(ss) /\ SectionKey(ss[x]) \notin D
    BY <1>2 DEF Lists
  <2> HIDE DEF x
  <2>2. ~(x > m)
    BY <1>3, <2>1
  <2>3. x \in 1..m
    BY <1>3, <2>1, <2>2
  <2> QED BY <2>1, <2>3 DEF x
<1>6. q \in Seq(Nat) /\ Len(q) = Len(after) /\ DOMAIN q = DOMAIN after
      /\ \A k \in DOMAIN after : q[k] = kept[after[k]]
  <2>1. ASSUME NEW k \in 1..Len(after) PROVE kept[after[k]] \in Nat
    <3>1. after[k] \in 1..m
      BY <1>4, <1>5
    <3>2. \A x \in 1..m : kept[x] \in Nat
      BY <1>3
    <3> QED BY <3>1, <3>2
  <2> QED BY <1>4, <2>1
<1>7. /\ \A i, j \in DOMAIN after : i < j => after[i] < after[j]
      /\ \A i, j \in 1..m : i < j => kept[i] < kept[j]
  <2>1. \A i, j \in DOMAIN kept : i < j => kept[i] < kept[j]
    BY <1>2 DEF Lists
  <2>2. \A i, j \in DOMAIN after : i < j => after[i] < after[j]
    BY <1>2 DEF Lists
  <2> QED BY <1>4, <2>1, <2>2
<1> HIDE DEF q
<1>8. Lists(q, T)
  <2>1. ASSUME NEW i \in DOMAIN q, NEW j \in DOMAIN q, i < j PROVE q[i] < q[j]
    <3>1. after[i] \in 1..m /\ after[j] \in 1..m /\ after[i] < after[j]
      BY <1>5, <1>6, <1>7, <2>1
    <3>2. kept[after[i]] < kept[after[j]]
      BY <1>7, <3>1
    <3> QED BY <1>6, <3>2
  <2>2. ASSUME NEW i \in DOMAIN q PROVE q[i] \in T
    <3>1. after[i] \in 1..m /\ SectionKey(ss[after[i]]) \notin D /\ q[i] = kept[after[i]]
      BY <1>5, <1>6
    <3> DEFINE x == after[i]
    <3>2. x \in 1..m /\ SectionKey(ss[x]) \notin D /\ q[i] = kept[x]
      BY <3>1
    <3> HIDE DEF x
    <3> QED BY <1>3, <3>2
  <2>3. ASSUME NEW k \in T PROVE \E i \in DOMAIN q : q[i] = k
    <3>1. k \in {j \in 1..Len(old) : SectionKey(old[j]) \in D => IsFirst(old, j)}
      OBVIOUS
    <3>2. PICK x \in 1..m : kept[x] = k
      BY <1>2, <1>4, <3>1 DEF Lists
    <3>3. x \in {j \in 1..Len(ss) : SectionKey(ss[j]) \notin D}
      BY <1>3, <3>2
    <3>4. PICK i \in DOMAIN after : after[i] = x
      BY <1>2, <3>3 DEF Lists
    <3> QED BY <1>6, <3>2, <3>4
  <2> HIDE DEF T
  <2> QED BY <1>6, <2>1, <2>2, <2>3, Zenon DEF Lists
<1>9. q = before
  <2> HIDE DEF T
  <2> QED BY <1>2, <1>8, ListsUnique
<1> QED BY <1>4, <1>5, <1>6, <1>7, <1>9 DEF ss, D, before, after, kept, m, old

\* The preamble changes only where the file has no section, and the first one is
\* appended to it.
LEMMA PreambleStays ==
    ASSUME NEW t \in Seq(Lines), NEW text \in Seq(Lines)
    PROVE  LET once == Merge(t, text)
           IN \/ Preamble(once) = Preamble(t)
              \/ Parse(t) = <<>> /\ SameButEnd(Preamble(t), Preamble(once))
<1> DEFINE C == Chunks(t, text)
           once == Merge(t, text)
           old == Parse(t)
           kept == KeptOf(t, text)
           m == Len(kept)
<1>1. C \in Seq(Parts) /\ Len(C) >= 1 /\ Preamble(once) = Separated(C, 1)
  BY ChunksAre, MergedSections
<1>2. C[1].text = Preamble(t) /\ ~C[1].written
  <2>1. C[1] = Old(Preamble(t))
    BY ChunksAre
  <2>2. Preamble(t) \in Seq(Lines)
    BY ParseFacts
  <2> HIDE DEF C
  <2> QED BY <2>1, <2>2, PartTypes
<1>3. m \in Nat /\ (1 <= m => ~C[1 + 1].appended)
  <2>1. m \in Nat /\ \A x \in 1..m : ~C[1 + x].appended
    BY KeptFirst
  <2> HIDE DEF m, C
  <2>2. 1 <= m => 1 \in 1..m
    BY <2>1
  <2> QED BY <2>1, <2>2
<1>4. m = 0 => old = <<>>
  <2> SUFFICES ASSUME old # <<>> PROVE m # 0
    OBVIOUS
  <2>1. old \in Seq(Seq(Lines))
    BY ParseFacts
  <2>2. Lists(kept, {j \in 1..Len(old) : SectionKey(old[j]) \in KeysOf(Parse(text)) => IsFirst(old, j)})
    BY <2>1, KeptFacts DEF KeptOf
  <2> HIDE DEF old, kept
  <2>3. 1 \in 1..Len(old)
    BY <2>1, EmptySeq
  <2>4. IsFirst(old, 1)
    <3>1. (1..(1 - 1)) = {}
      OBVIOUS
    <3> QED BY <3>1 DEF IsFirst
  <2>5. \E i \in DOMAIN kept : kept[i] = 1
    BY <2>2, <2>3, <2>4 DEF Lists
  <2>6. DOMAIN kept = 1..Len(kept)
    BY <2>2 DEF Lists
  <2> QED BY <2>5, <2>6
<1> HIDE DEF C, once, old, m
<1>5. 1 \in 1..Len(C)
  BY <1>1
<1>6. \/ Separated(C, 1) = C[1].text
      \/ C[1 + 1].appended /\ SameButEnd(C[1].text, Separated(C, 1))
  BY <1>1, <1>2, <1>5, SeparatedSame
<1>7. m = 0 \/ 1 <= m
  BY <1>3
<1> QED BY <1>1, <1>2, <1>3, <1>4, <1>6, <1>7 DEF once, old

TheirsOf(sections, keys) ==
    LET others == Others(sections, keys)
    IN [k \in DOMAIN others |-> sections[others[k]]]

OrderOf(sections, keys) ==
    LET kept == Kept(sections, keys)
    IN [k \in DOMAIN kept |-> SectionKey(sections[kept[k]])]

LEMMA TheirsStay ==
    ASSUME NEW t \in Seq(Lines), NEW text \in Seq(Lines)
    PROVE  LET D == KeysOf(Parse(text))
               before == TheirsOf(Parse(t), D)
               after == TheirsOf(Parse(Merge(t, text)), D)
           IN /\ Len(after) = Len(before)
              /\ \A j \in DOMAIN before :
                    \/ after[j] = before[j]
                    \/ j = Len(before) /\ SameButEnd(before[j], after[j])
<1> DEFINE C == Chunks(t, text)
           ss == Parse(Merge(t, text))
           old == Parse(t)
           D == KeysOf(Parse(text))
           kept == KeptOf(t, text)
           m == Len(kept)
           a == Others(ss, D)
           b == Others(old, D)
           N == Len(b)
           before == TheirsOf(old, D)
           after == TheirsOf(ss, D)
<1>1. /\ N \in Nat /\ DOMAIN a = 1..N /\ DOMAIN b = 1..N
      /\ \A j \in 1..N : a[j] \in 1..m /\ kept[a[j]] = b[j] /\ SectionKey(ss[a[j]]) \notin D
      /\ \A i, j \in 1..N : i < j => a[i] < a[j]
  BY OthersKept
<1>2. /\ m \in Nat /\ C \in Seq(Parts)
      /\ \A x \in 1..m :
            /\ 1 + x \in 1..Len(C)
            /\ ss[x] = Separated(C, 1 + x)
            /\ ~C[1 + x].appended
            /\ SectionKey(ss[x]) \notin D => ~C[1 + x].written /\ C[1 + x].text = old[kept[x]]
  BY KeptFirst
<1>3. before = [k \in DOMAIN b |-> old[b[k]]] /\ after = [k \in DOMAIN a |-> ss[a[k]]]
  BY DEF TheirsOf
<1> HIDE DEF C, ss, old, D, kept, m, a, b, N, before, after
<1>4. /\ DOMAIN before = 1..N /\ Len(before) = N /\ Len(after) = N
      /\ \A j \in 1..N : before[j] = old[b[j]] /\ after[j] = ss[a[j]]
  BY <1>1, <1>3
<1>5. ASSUME NEW j \in 1..N
      PROVE  \/ after[j] = before[j]
             \/ j = N /\ SameButEnd(before[j], after[j])
  <2> DEFINE x == a[j]
             i == 1 + x
  <2>1. x \in 1..m /\ kept[x] = b[j] /\ SectionKey(ss[x]) \notin D
    BY <1>1
  <2> HIDE DEF x
  <2>2. i \in 1..Len(C) /\ ss[x] = Separated(C, i) /\ ~C[i].written /\ C[i].text = old[b[j]]
    BY <1>2, <2>1
  <2>3. \/ Separated(C, i) = C[i].text
        \/ C[i + 1].appended /\ SameButEnd(C[i].text, Separated(C, i))
    <3> HIDE DEF i
    <3> QED BY <1>2, <2>2, SeparatedSame
  <2>4. C[i + 1].appended => j = N
    <3> SUFFICES ASSUME j # N PROVE ~C[i + 1].appended
      OBVIOUS
    <3>1. j + 1 \in 1..N /\ j < j + 1
      BY <1>1
    <3> DEFINE y == a[j + 1]
    <3>2. y \in 1..m /\ x < y
      BY <1>1, <3>1 DEF x
    <3> HIDE DEF y
    <3>3. x + 1 \in 1..m /\ 1 + (x + 1) = i + 1
      BY <1>2, <2>1, <3>2
    <3> QED BY <1>2, <3>3
  <2>5. before[j] = C[i].text /\ after[j] = Separated(C, i)
    BY <1>4, <2>2 DEF x
  <2> HIDE DEF i
  <2> QED BY <2>3, <2>4, <2>5
<1> QED BY <1>4, <1>5 DEF D, before, after, ss, old

LEMMA OrderStays ==
    ASSUME NEW t \in Seq(Lines), NEW text \in Seq(Lines), Distinct(text)
    PROVE  LET D == KeysOf(Parse(text))
           IN IsPrefix(OrderOf(Parse(t), D), OrderOf(Parse(Merge(t, text)), D))
<1> DEFINE ss == Parse(Merge(t, text))
           old == Parse(t)
           D == KeysOf(Parse(text))
           kept == KeptOf(t, text)
           m == Len(kept)
           n == Len(ss)
           before == OrderOf(old, D)
           after == OrderOf(ss, D)
<1>1. /\ m \in Nat /\ n \in Nat /\ m <= n
      /\ \A x \in 1..m : SectionKey(ss[x]) = SectionKey(old[kept[x]])
  BY KeptFirst
<1>2. Kept(ss, D) = [k \in 1..n |-> k]
  BY AgainKept DEF KeptOf
<1>3. DOMAIN kept = 1..m
  <2>1. old \in Seq(Seq(Lines))
    BY ParseFacts
  <2>2. Lists(kept, {j \in 1..Len(old) : SectionKey(old[j]) \in D => IsFirst(old, j)})
    BY <2>1, KeptFacts DEF KeptOf
  <2> QED BY <2>2 DEF Lists
<1>4. before = [k \in DOMAIN kept |-> SectionKey(old[kept[k]])]
  BY DEF OrderOf, KeptOf
<1>5. after = [k \in 1..n |-> SectionKey(ss[k])]
  <2> DEFINE p == Kept(ss, D)
  <2>1. after = [k \in DOMAIN p |-> SectionKey(ss[p[k]])]
    BY DEF OrderOf
  <2>2. DOMAIN p = 1..n /\ \A k \in 1..n : p[k] = k
    BY <1>2
  <2> HIDE DEF p, ss, n, after
  <2> QED BY <2>1, <2>2
<1> HIDE DEF ss, old, D, kept, m, n, before, after
<1>6. /\ Len(before) = m /\ Len(after) = n
      /\ \A k \in 1..m : k \in 1..n /\ before[k] = after[k]
  BY <1>1, <1>3, <1>4, <1>5
<1>7. SubSeq(before, 1, m) = SubSeq(after, 1, m)
  <2>1. SubSeq(before, 1, m) = [k \in 1..m |-> before[k]] /\ SubSeq(after, 1, m) = [k \in 1..m |-> after[k]]
    BY <1>1
  <2> QED BY <1>6, <2>1
<1> QED BY <1>1, <1>6, <1>7 DEF IsPrefix, ss, old, D, before, after

\* Whatever the file and the profile, the lines before the first section and the
\* sections of others stay as they are and in their order, but for blanks at the
\* end of the one that something is appended to (ADR 0003:13, merge.go:51-96).
THEOREM OthersUntouched == Spec => OthersInOrder
<1> DEFINE Stay(secret) ==
               LET incoming == DOMAIN Incoming(secret.text)
                   before == Parse(file)
                   after == Parse(file')
                   theirs(sections) ==
                       LET others == Others(sections, incoming)
                       IN [k \in DOMAIN others |-> sections[others[k]]]
                   order(sections) ==
                       LET kept == Kept(sections, incoming)
                       IN [k \in DOMAIN kept |-> SectionKey(sections[kept[k]])]
               IN
               /\ \/ Preamble(file') = Preamble(file)
                  \/ before = <<>> /\ SameButEnd(Preamble(file), Preamble(file'))
               /\ Len(theirs(after)) = Len(theirs(before))
               /\ \A j \in DOMAIN theirs(before) :
                      \/ theirs(after)[j] = theirs(before)[j]
                      \/ /\ j = Len(theirs(before))
                         /\ SameButEnd(theirs(before)[j], theirs(after)[j])
               /\ IsPrefix(order(before), order(after))
<1>1. TypeOK /\ [Next]_file => [\A secret \in Secrets : Get(secret) => Stay(secret)]_file
  <2> SUFFICES ASSUME TypeOK, NEW secret \in Secrets, Get(secret) PROVE Stay(secret)
    OBVIOUS
  <2> DEFINE text == secret.text
             D == KeysOf(Parse(text))
             before == Parse(file)
             after == Parse(file')
  <2>1. /\ text \in Seq(Lines) /\ Distinct(text) /\ file \in Seq(Lines)
        /\ file' = Merge(file, text)
    BY SecretsAre, SecretFacts DEF TypeOK, IsText, Get
  <2>2. DOMAIN Incoming(text) = D
    BY <2>1, IncomingFacts
  <2>3. \/ Preamble(file') = Preamble(file)
        \/ before = <<>> /\ SameButEnd(Preamble(file), Preamble(file'))
    BY <2>1, PreambleStays
  <2>4. /\ Len(TheirsOf(after, D)) = Len(TheirsOf(before, D))
        /\ \A j \in DOMAIN TheirsOf(before, D) :
              \/ TheirsOf(after, D)[j] = TheirsOf(before, D)[j]
              \/ /\ j = Len(TheirsOf(before, D))
                 /\ SameButEnd(TheirsOf(before, D)[j], TheirsOf(after, D)[j])
    BY <2>1, TheirsStay
  <2>5. IsPrefix(OrderOf(before, D), OrderOf(after, D))
    BY <2>1, OrderStays
  <2> HIDE DEF D, before, after, text
  <2> QED BY <2>2, <2>3, <2>4, <2>5 DEF TheirsOf, OrderOf, text, before, after
<1> QED BY <1>1, TypeCorrect, PTL DEF Spec, OthersInOrder
=============================================================================
