-------------------------- MODULE TextMonitor_proofs --------------------------
(* Theorems about the line splitter and the text monitor, for any buffer limit *)
(* and any size of chunk and input, with proofs checked by TLAPS.              *)

EXTENDS TextMonitor, Numbers_proofs, SequenceTheorems, FiniteSetTheorems

-----------------------------------------------------------------------------
(* Sequences.                                                                  *)

\* A part of a sequence, and two parts put together.
LEMMA Part ==
  ASSUME NEW A, NEW b \in Seq(A), NEW i \in 0..Len(b), NEW j \in i..Len(b)
  PROVE  /\ SubSeq(b, i + 1, j) \in Seq(A)
         /\ Len(SubSeq(b, i + 1, j)) = j - i
         /\ \A k \in 1..j - i : SubSeq(b, i + 1, j)[k] = b[i + k]
BY SubSeqProperties

LEMMA PartsJoined ==
  ASSUME NEW A, NEW b \in Seq(A), NEW i \in 0..Len(b), NEW j \in i..Len(b),
         NEW k \in j..Len(b)
  PROVE  SubSeq(b, i + 1, j) \o SubSeq(b, j + 1, k) = SubSeq(b, i + 1, k)
<1>1. /\ i + 1 \in 1..Len(b) + 1 /\ j \in (i + 1) - 1 .. Len(b)
      /\ k \in j..Len(b)
  OBVIOUS
<1> QED
  BY <1>1, ConcatAdjacentSubSeq

\* Induction over sequences.
LEMMA InductiveSequences ==
  ASSUME NEW A, NEW S, <<>> \in S,
         \A s \in Seq(A), e \in A : s \in S => Append(s, e) \in S
  PROVE  Seq(A) \subseteq S
<1> DEFINE T == {n \in Nat : \A s \in Seq(A) : Len(s) = n => s \in S}
<1>1. 0 \in T
  <2>1. \A s \in Seq(A) : Len(s) = 0 => s = <<>>
    BY EmptySeq
  <2> QED
    BY <2>1
<1>2. ASSUME NEW n \in Nat, n \in T
      PROVE  n + 1 \in T
  <2>1. ASSUME NEW s \in Seq(A), Len(s) = n + 1
        PROVE  s \in S
    <3>1. s # <<>>
      BY <2>1, EmptySeq
    <3>2. PICK r \in Seq(A), e \in A : s = Append(r, e)
      BY <3>1, SequenceEmptyOrAppend
    <3>3. Len(r) = n
      BY <2>1, <3>2, AppendProperties, LenProperties
    <3> QED
      BY <1>2, <3>2, <3>3
  <2> QED
    BY <2>1
<1> HIDE DEF T
<1>3. Nat \subseteq T
  BY <1>1, <1>2, InductiveSet
<1>4. ASSUME NEW s \in Seq(A)
      PROVE  s \in S
  <2>1. Len(s) \in Nat
    BY LenProperties
  <2> QED
    BY <1>3, <2>1 DEF T
<1> QED
  BY <1>4

\* sums[i] is the concatenation of the first i of these sequences.
Accumulates(sums, parts) ==
  \A i \in DOMAIN parts :
    sums[i] = IF i = 1 THEN parts[i] ELSE sums[i - 1] \o parts[i]

LEMMA AccumulationStep ==
  ASSUME NEW sums, NEW parts, Accumulates(sums, parts),
         NEW n \in Nat, DOMAIN parts = 1..n + 1
  PROVE  /\ n = 0 => sums[n + 1] = parts[n + 1]
         /\ n # 0 => sums[n + 1] = sums[n] \o parts[n + 1]
<1>1. n + 1 \in DOMAIN parts
  OBVIOUS
<1>2. sums[n + 1] = IF n + 1 = 1 THEN parts[n + 1]
                    ELSE sums[(n + 1) - 1] \o parts[n + 1]
  BY <1>1, Zenon DEF Accumulates
<1>3. CASE n = 0
  <2>1. n + 1 = 1
    BY <1>3
  <2> QED
    BY <1>2, <1>3, <2>1, Zenon
<1>4. CASE n # 0
  <2>1. n + 1 # 1
    BY <1>4
  <2>2. sums[(n + 1) - 1] = sums[n]
    OBVIOUS
  <2> QED
    BY <1>2, <1>4, <2>1, <2>2, Zenon
<1> QED
  BY <1>3, <1>4

\* Concatenating one sequence after the other is well defined.
LEMMA RunningConcatenation ==
  ASSUME NEW A, NEW N \in Nat, NEW q \in [1..N -> Seq(A)]
  PROVE  \E f \in [1..N -> Seq(A)] : Accumulates(f, q)
<1> DEFINE Runs(g, n) ==
             \A i \in 1..n : g[i] = IF i = 1 THEN q[i] ELSE g[i - 1] \o q[i]
           S == {n \in Nat : n <= N => \E g \in [1..n -> Seq(A)] : Runs(g, n)}
<1>1. 0 \in S
  <2>1. <<>> \in [1..0 -> Seq(A)] /\ 1..0 = {}
    OBVIOUS
  <2>2. Runs(<<>>, 0)
    BY <2>1
  <2> HIDE DEF Runs
  <2> QED
    BY <2>1, <2>2
<1>2. ASSUME NEW n \in Nat, n \in S
      PROVE  n + 1 \in S
  <2> HIDE DEF Runs
  <2>1. SUFFICES ASSUME n + 1 <= N
                 PROVE  \E g \in [1..n + 1 -> Seq(A)] : Runs(g, n + 1)
    OBVIOUS
  <2>2. PICK g \in [1..n -> Seq(A)] : Runs(g, n)
    BY <1>2, <2>1
  <2> DEFINE new == IF n = 0 THEN q[1] ELSE g[n] \o q[n + 1]
             h == [i \in 1..n + 1 |-> IF i <= n THEN g[i] ELSE new]
  <2>3. new \in Seq(A)
    <3>1. q[n + 1] \in Seq(A) /\ (n # 0 => g[n] \in Seq(A))
      BY <2>1
    <3> QED
      BY <3>1, ConcatProperties
  <2>4. h \in [1..n + 1 -> Seq(A)]
    <3> HIDE DEF new
    <3> QED
      BY <2>3
  <2>5. ASSUME NEW i \in 1..n + 1
        PROVE  h[i] = IF i = 1 THEN q[i] ELSE h[i - 1] \o q[i]
    <3>1. CASE i = n + 1
      BY <3>1
    <3>2. CASE i # n + 1
      <4>1. i \in 1..n /\ (i # 1 => i - 1 \in 1..n)
        BY <3>2
      <4>2. g[i] = IF i = 1 THEN q[i] ELSE g[i - 1] \o q[i]
        BY <2>2, <4>1 DEF Runs
      <4>3. h[i] = g[i] /\ (i # 1 => h[i - 1] = g[i - 1])
        BY <4>1
      <4> QED
        BY <4>2, <4>3
    <3> QED
      BY <3>1, <3>2
  <2>6. Runs(h, n + 1)
    BY <2>5 DEF Runs
  <2> HIDE DEF h
  <2> QED
    BY <2>4, <2>6
<1>3. N \in S
  <2> HIDE DEF S
  <2> QED
    BY <1>1, <1>2, InductiveSet
<1>4. \E g \in [1..N -> Seq(A)] : Runs(g, N)
  <2> HIDE DEF Runs
  <2> QED
    BY <1>3
<1> QED
  BY <1>4 DEF Accumulates

\* and determined by the sequences.
LEMMA AccumulationIsDetermined ==
  ASSUME NEW f, NEW q, Accumulates(f, q), NEW g, NEW p, Accumulates(g, p),
         NEW N \in Nat, N # 0,
         \A i \in 1..N : i \in DOMAIN q /\ i \in DOMAIN p /\ q[i] = p[i]
  PROVE  f[N] = g[N]
<1>1. ASSUME NEW k \in 1..N, k = 1 \/ f[k - 1] = g[k - 1]
      PROVE  f[k] = g[k]
  BY <1>1 DEF Accumulates
<1> DEFINE T == {n \in Nat : n + 1 \in 1..N => f[n + 1] = g[n + 1]}
<1>2. 0 \in T
  BY <1>1
<1>3. ASSUME NEW n \in Nat, n \in T
      PROVE  n + 1 \in T
  <2> SUFFICES ASSUME n + 1 + 1 \in 1..N
               PROVE  f[n + 1 + 1] = g[n + 1 + 1]
    OBVIOUS
  <2>1. f[n + 1] = g[n + 1] /\ (n + 1 + 1) - 1 = n + 1
    BY <1>3
  <2> QED
    BY <1>1, <2>1
<1> HIDE DEF T
<1>4. Nat \subseteq T
  BY <1>2, <1>3, InductiveSet
<1>5. N - 1 \in T /\ (N - 1) + 1 = N
  BY <1>4
<1> QED
  BY <1>5 DEF T

\* FlattenSeq is computed by such an accumulation.
LEMMA FlattenFunction ==
  ASSUME NEW A, NEW seqs \in Seq(Seq(A)), seqs # <<>>
  PROVE  \E f \in [1..Len(seqs) -> Seq(A)] :
           Accumulates(f, seqs) /\ FlattenSeq(seqs) = f[Len(seqs)]
<1> DEFINE N == Len(seqs)
           Value(g, i) == IF i = 1 THEN seqs[i] ELSE g[i - 1] \o seqs[i]
           Flat(g) == g = [i \in 1..N |-> Value(g, i)]
           f == CHOOSE g : Flat(g)
<1>1. N \in Nat /\ N # 0 /\ seqs \in [1..N -> Seq(A)]
  BY EmptySeq, LenProperties
<1>2. FlattenSeq(seqs) = f[N]
  BY <1>1 DEF FlattenSeq
<1> HIDE DEF N
<1>3. PICK g \in [1..N -> Seq(A)] : Accumulates(g, seqs)
  BY <1>1, RunningConcatenation
<1>4. \A i \in 1..N : g[i] = Value(g, i)
  BY <1>1, <1>3 DEF Accumulates
<1> HIDE DEF Value
<1>5. Flat(g)
  BY <1>4
<1>6. Flat(f)
  <2> HIDE DEF Flat
  <2> QED
    BY <1>5
<1> HIDE DEF f
<1>7. f = [i \in 1..N |-> Value(f, i)]
  BY <1>6
<1>8. \A i \in 1..N : f[i] = Value(f, i)
  BY <1>7
<1>9. Accumulates(f, seqs)
  BY <1>1, <1>8 DEF Accumulates, Value
<1>10. f[N] = g[N]
  BY <1>1, <1>3, <1>9, AccumulationIsDetermined
<1> QED
  BY <1>2, <1>3, <1>10 DEF N

LEMMA FlattenEmpty == FlattenSeq(<<>>) = <<>>
BY DEF FlattenSeq

LEMMA FlattenType ==
  ASSUME NEW A, NEW seqs \in Seq(Seq(A))
  PROVE  FlattenSeq(seqs) \in Seq(A)
<1>1. CASE seqs = <<>>
  <2>1. <<>> \in Seq(A)
    OBVIOUS
  <2> QED
    BY <1>1, <2>1, FlattenEmpty, Zenon
<1>2. CASE seqs # <<>>
  <2>1. Len(seqs) \in Nat \ {0}
    BY <1>2, EmptySeq, Zenon
  <2>2. Len(seqs) \in 1..Len(seqs)
    BY <2>1
  <2> QED
    <3>1. PICK f \in [1..Len(seqs) -> Seq(A)] :
                 FlattenSeq(seqs) = f[Len(seqs)]
      BY <1>2, FlattenFunction
    <3> QED
      BY <2>2, <3>1
<1> QED
  BY <1>1, <1>2

LEMMA FlattenAppend ==
  ASSUME NEW A, NEW seqs \in Seq(Seq(A)), NEW e \in Seq(A)
  PROVE  FlattenSeq(Append(seqs, e)) = FlattenSeq(seqs) \o e
<1>0. SUFFICES ASSUME NEW q, q = Append(seqs, e), NEW N, N = Len(seqs)
               PROVE  FlattenSeq(q) = FlattenSeq(seqs) \o e
  OBVIOUS
<1>1. q \in Seq(Seq(A)) /\ Len(q) = N + 1
  BY <1>0
<1>2. \A i \in 1..N : i \in DOMAIN seqs /\ i \in DOMAIN q /\ seqs[i] = q[i]
  BY <1>0
<1>3. q[N + 1] = e
  BY <1>0
<1>4. q # <<>>
  BY <1>0, AppendProperties
<1>5. N \in Nat /\ DOMAIN seqs = 1..N /\ DOMAIN q = 1..N + 1
  BY <1>0, <1>1, LenProperties
<1>6. seqs # <<>> => N # 0
  BY <1>0, EmptySeq
<1>7. PICK g : Accumulates(g, q) /\ FlattenSeq(q) = g[Len(q)]
  BY <1>1, <1>4, FlattenFunction
<1>8. /\ N = 0 => g[N + 1] = e
      /\ N # 0 => g[N + 1] = g[N] \o e
  BY <1>3, <1>5, <1>7, AccumulationStep, Zenon
<1>9. CASE seqs = <<>>
  <2>1. N = 0 /\ <<>> \o e = e
    BY <1>0, <1>9
  <2>2. FlattenSeq(seqs) = <<>>
    BY <1>9, FlattenEmpty, Zenon
  <2> QED
    BY <1>1, <1>7, <1>8, <2>1, <2>2
<1>10. CASE seqs # <<>>
  <2>1. PICK f : Accumulates(f, seqs) /\ FlattenSeq(seqs) = f[N]
    BY <1>0, <1>10, FlattenFunction
  <2>2. N \in Nat /\ N # 0 /\ Accumulates(f, seqs) /\ Accumulates(g, q)
    BY <1>5, <1>6, <1>7, <1>10, <2>1
  <2>3. f[N] = g[N]
    BY <1>2, <2>2, AccumulationIsDetermined
  <2> QED
    BY <1>1, <1>7, <1>8, <2>1, <2>2, <2>3, Zenon
<1> QED
  BY <1>9, <1>10

LEMMA FlattenConcat ==
  ASSUME NEW A, NEW s \in Seq(Seq(A)), NEW t \in Seq(Seq(A))
  PROVE  FlattenSeq(s \o t) = FlattenSeq(s) \o FlattenSeq(t)
<1> DEFINE S == {u \in Seq(Seq(A)) :
                   FlattenSeq(s \o u) = FlattenSeq(s) \o FlattenSeq(u)}
<1>1. <<>> \in S
  <2>1. FlattenSeq(s) \in Seq(A) /\ <<>> \in Seq(Seq(A))
    BY FlattenType
  <2>2. s \o <<>> = s /\ FlattenSeq(s) \o <<>> = FlattenSeq(s)
    BY <2>1, ConcatEmptySeq
  <2> QED
    BY <2>1, <2>2, FlattenEmpty, Zenon
<1>2. ASSUME NEW u \in Seq(Seq(A)), NEW e \in Seq(A), u \in S
      PROVE  Append(u, e) \in S
  <2>1. Append(u, e) \in Seq(Seq(A)) /\ s \o u \in Seq(Seq(A))
    OBVIOUS
  <2>2. s \o Append(u, e) = Append(s \o u, e)
    OBVIOUS
  <2>3. /\ FlattenSeq(Append(s \o u, e)) = FlattenSeq(s \o u) \o e
        /\ FlattenSeq(Append(u, e)) = FlattenSeq(u) \o e
    BY <2>1, FlattenAppend
  <2>4. FlattenSeq(s) \in Seq(A) /\ FlattenSeq(u) \in Seq(A)
    BY FlattenType
  <2>5. (FlattenSeq(s) \o FlattenSeq(u)) \o e
          = FlattenSeq(s) \o (FlattenSeq(u) \o e)
    <3> DEFINE p == FlattenSeq(s)
               q == FlattenSeq(u)
    <3>1. p \in Seq(A) /\ q \in Seq(A)
      BY <2>4
    <3> HIDE DEF p, q
    <3>2. (p \o q) \o e = p \o (q \o e)
      BY <3>1, ConcatAssociative
    <3> QED
      BY <3>2 DEF p, q
  <2>6. FlattenSeq(s \o u) = FlattenSeq(s) \o FlattenSeq(u)
    BY <1>2
  <2>7. FlattenSeq(s \o Append(u, e)) = FlattenSeq(s) \o FlattenSeq(Append(u, e))
    BY <2>2, <2>3, <2>5, <2>6, Zenon
  <2> QED
    BY <2>1, <2>7
<1> HIDE DEF S
<1>3. t \in S
  BY <1>1, <1>2, InductiveSequences
<1> QED
  BY <1>3 DEF S

LEMMA FlattenSingle ==
  ASSUME NEW A, NEW e \in Seq(A)
  PROVE  FlattenSeq(<<e>>) = e
<1>1. <<>> \in Seq(Seq(A)) /\ Append(<<>>, e) = <<e>> /\ <<>> \o e = e
  OBVIOUS
<1> QED
  BY <1>1, FlattenAppend, FlattenEmpty

-----------------------------------------------------------------------------
(* The loop over find().                                                       *)

\* f[i] is what i steps make of v.
Repeats(f, v, step, n) == f[0] = v /\ \A i \in 1..n : f[i] = step[f[i - 1]]

\* Repeating a step is well defined.
LEMMA Repetition ==
  ASSUME NEW V, NEW v \in V, NEW step \in [V -> V], NEW N \in Nat
  PROVE  \E f \in [0..N -> V] : Repeats(f, v, step, N)
<1> DEFINE S == {n \in Nat : \E f \in [0..n -> V] : Repeats(f, v, step, n)}
<1>1. 0 \in S
  <2> DEFINE f == [i \in 0..0 |-> v]
  <2>1. f \in [0..0 -> V] /\ f[0] = v /\ 1..0 = {}
    OBVIOUS
  <2>2. Repeats(f, v, step, 0)
    BY <2>1 DEF Repeats
  <2> HIDE DEF f
  <2> QED
    BY <2>1, <2>2
<1>2. ASSUME NEW n \in Nat, n \in S
      PROVE  n + 1 \in S
  <2>1. PICK f \in [0..n -> V] : Repeats(f, v, step, n)
    BY <1>2
  <2> DEFINE g == [i \in 0..n + 1 |-> IF i <= n THEN f[i] ELSE step[f[n]]]
  <2>2. g \in [0..n + 1 -> V] /\ g[0] = v
    BY <2>1 DEF Repeats
  <2>3. ASSUME NEW i \in 1..n + 1
        PROVE  g[i] = step[g[i - 1]]
    BY <2>1 DEF Repeats
  <2>4. Repeats(g, v, step, n + 1)
    BY <2>2, <2>3 DEF Repeats
  <2> HIDE DEF g
  <2> QED
    BY <2>2, <2>4
<1> HIDE DEF S
<1>3. N \in S
  BY <1>1, <1>2, InductiveSet
<1> QED
  BY <1>3 DEF S

LEMMA LineEndsAreFinite ==
  ASSUME NEW A, NEW b \in Seq(A), NEW from \in 0..Len(b)
  PROVE  /\ LineEnds(b, from) \subseteq from + 1 .. Len(b)
         /\ LineEnds(b, from) \subseteq Nat
         /\ IsFiniteSet(LineEnds(b, from))
         /\ Cardinality(LineEnds(b, from)) \in Nat
<1>1. /\ LineEnds(b, from) \subseteq from + 1 .. Len(b)
      /\ LineEnds(b, from) \subseteq Nat
      /\ from + 1 \in Int /\ Len(b) \in Int
  BY DEF LineEnds
<1>2. IsFiniteSet(from + 1 .. Len(b))
  BY <1>1, FS_Interval
<1>3. IsFiniteSet(LineEnds(b, from))
  BY <1>1, <1>2, FS_Subset
<1> QED
  BY <1>1, <1>3, FS_CardinalityType

\* What find() returns: the first newline, after which there is one less.
LEMMA FirstLineEnd ==
  ASSUME NEW A, NEW b \in Seq(A), NEW from \in 0..Len(b),
         LineEnds(b, from) # {},
         NEW e, e = Min(LineEnds(b, from))
  PROVE  /\ e \in from + 1 .. Len(b)
         /\ b[e] = "n"
         /\ \A k \in from + 1 .. e - 1 : b[k] # "n"
         /\ Cardinality(LineEnds(b, e)) = Cardinality(LineEnds(b, from)) - 1
<1>1. e \in LineEnds(b, from) /\ \A k \in LineEnds(b, from) : e <= k
  BY LineEndsAreFinite, MinOfSet
<1>2. e \in from + 1 .. Len(b) /\ b[e] = "n"
  BY <1>1 DEF LineEnds
<1>3. ASSUME NEW k \in from + 1 .. e - 1
      PROVE  b[k] # "n"
  <2>1. k \in from + 1 .. Len(b) /\ ~(e <= k)
    BY <1>2
  <2> QED
    BY <1>1, <2>1 DEF LineEnds
<1>4. LineEnds(b, e) = LineEnds(b, from) \ {e}
  <2>1. ASSUME NEW i \in LineEnds(b, e)
        PROVE  i \in LineEnds(b, from) \ {e}
    BY <1>2 DEF LineEnds
  <2>2. ASSUME NEW i \in LineEnds(b, from) \ {e}
        PROVE  i \in LineEnds(b, e)
    <3>1. i \in from + 1 .. Len(b) /\ b[i] = "n" /\ e <= i /\ e # i
      BY <1>1 DEF LineEnds
    <3> QED
      BY <1>2, <3>1 DEF LineEnds
  <2> QED
    BY <2>1, <2>2
<1>5. Cardinality(LineEnds(b, from) \ {e}) = Cardinality(LineEnds(b, from)) - 1
  BY <1>1, LineEndsAreFinite, FS_RemoveElement
<1> QED
  BY <1>2, <1>3, <1>4, <1>5

\* end[i] is where the i-th line of b after position `from` ends.
EndsOfLines(end, b, from) ==
  LET n == Cardinality(LineEnds(b, from))
  IN /\ end \in [0..n -> 0..Len(b)]
     /\ end[0] = from /\ end[n] = AfterLines(b, from)
     /\ \A i \in 1..n : /\ end[i] \in end[i - 1] + 1 .. Len(b)
                        /\ b[end[i]] = "n"
                        /\ \A k \in end[i - 1] + 1 .. end[i] - 1 : b[k] # "n"
     /\ Lines(b, from) = [i \in 1..n |-> SubSeq(b, end[i - 1] + 1, end[i])]

\* The loop finds all the line ends, and leaves _start on the last.
LEMMA LoopFindsLineEnds ==
  ASSUME NEW A, NEW b \in Seq(A), NEW from \in 0..Len(b)
  PROVE  \E end : EndsOfLines(end, b, from)
<1> DEFINE n == Cardinality(LineEnds(b, from))
           V == 0..Len(b)
           step == [e \in V |-> IF LineEnds(b, e) = {} THEN e
                                ELSE Min(LineEnds(b, e))]
<1>1. /\ n \in Nat /\ Len(b) \in Nat /\ from \in V
      /\ \A e \in V : /\ IsFiniteSet(LineEnds(b, e))
                      /\ Cardinality(LineEnds(b, e)) \in Nat
                      /\ Cardinality(LineEnds(b, e)) = 0 <=> LineEnds(b, e) = {}
  BY LineEndsAreFinite, FS_EmptySet
<1>2. step \in [V -> V]
  <2>1. ASSUME NEW e \in V, LineEnds(b, e) # {}
        PROVE  Min(LineEnds(b, e)) \in V
    BY <2>1, FirstLineEnd
  <2> QED
    BY <2>1
<1> HIDE DEF step, n, V
<1>3. /\ n \in Nat /\ from \in V
      /\ \E f \in [0..n -> V] : Repeats(f, from, step, n)
  BY <1>1, <1>2, Repetition
<1>4. PICK f \in [0..n -> V] :
             f[0] = from /\ \A i \in 1..n : f[i] = step[f[i - 1]]
  BY <1>3 DEF Repeats
<1> DEFINE Left(i) == /\ f[i] \in V /\ f[i] >= from
                      /\ Cardinality(LineEnds(b, f[i])) = n - i
           S == {i \in Nat : i <= n => Left(i)}
<1>5. ASSUME NEW i \in 1..n, Left(i - 1)
      PROVE  /\ LineEnds(b, f[i - 1]) # {}
             /\ f[i] = Min(LineEnds(b, f[i - 1]))
             /\ f[i] \in f[i - 1] + 1 .. Len(b)
             /\ b[f[i]] = "n"
             /\ \A k \in f[i - 1] + 1 .. f[i] - 1 : b[k] # "n"
             /\ Left(i)
  <2>1. f[i - 1] \in V /\ f[i - 1] >= from
    BY <1>5
  <2>2. Cardinality(LineEnds(b, f[i - 1])) = n - (i - 1) /\ n - (i - 1) # 0
    BY <1>1, <1>5
  <2>3. LineEnds(b, f[i - 1]) # {}
    BY <1>1, <2>1, <2>2
  <2>4. f[i] = Min(LineEnds(b, f[i - 1]))
    BY <1>4, <2>1, <2>3 DEF step
  <2>5. /\ f[i] \in f[i - 1] + 1 .. Len(b)
        /\ b[f[i]] = "n"
        /\ \A k \in f[i - 1] + 1 .. f[i] - 1 : b[k] # "n"
        /\ Cardinality(LineEnds(b, f[i]))
             = Cardinality(LineEnds(b, f[i - 1])) - 1
    BY <2>1, <2>3, <2>4, FirstLineEnd DEF V
  <2>6. Left(i)
    BY <1>1, <2>1, <2>2, <2>5 DEF V
  <2> QED
    BY <2>3, <2>4, <2>5, <2>6
<1>6. Left(0)
  BY <1>1, <1>4 DEF n, V
<1> HIDE DEF Left
<1>7. \A i \in 0..n : Left(i)
  <2>1. 0 \in S
    BY <1>6
  <2>2. ASSUME NEW i \in Nat, i \in S
        PROVE  i + 1 \in S
    <3>1. SUFFICES ASSUME i + 1 <= n
                   PROVE  Left(i + 1)
      OBVIOUS
    <3>2. i + 1 \in 1..n /\ (i + 1) - 1 = i /\ Left(i)
      BY <1>1, <2>2, <3>1
    <3> QED
      BY <1>5, <3>2
  <2>3. Nat \subseteq S
    <3> HIDE DEF S
    <3> QED
      BY <2>1, <2>2, InductiveSet
  <2> QED
    BY <1>1, <2>3
<1>8. f[n] = AfterLines(b, from)
  <2>1. f[n] \in V /\ f[n] >= from /\ LineEnds(b, f[n]) = {}
    BY <1>1, <1>7 DEF Left
  <2>2. CASE n = 0
    <3>1. LineEnds(b, from) = {}
      BY <1>1, <2>2 DEF n
    <3> QED
      BY <1>4, <2>2, <3>1 DEF AfterLines
  <2>3. CASE n # 0
    <3>1. n \in 1..n /\ n - 1 \in 0..n
      BY <1>1, <2>3
    <3>2. f[n] \in f[n - 1] + 1 .. Len(b) /\ b[f[n]] = "n"
      BY <1>5, <1>7, <3>1
    <3>3. f[n - 1] \in V /\ f[n - 1] >= from
      BY <1>7, <3>1 DEF Left
    <3>4. f[n] \in LineEnds(b, from)
      BY <3>2, <3>3 DEF LineEnds, V
    <3>5. ASSUME NEW y \in LineEnds(b, from)
          PROVE  y <= f[n]
      <4>1. y \in from + 1 .. Len(b) /\ b[y] = "n"
        BY DEF LineEnds
      <4>2. y \notin f[n] + 1 .. Len(b)
        BY <2>1, <4>1 DEF LineEnds
      <4> QED
        BY <2>1, <4>1, <4>2 DEF V
    <3>6. Max(LineEnds(b, from)) = f[n]
      <4>1. /\ LineEnds(b, from) \subseteq Nat /\ LineEnds(b, from) # {}
            /\ f[n] \in Nat
        BY <2>1, <3>4, LineEndsAreFinite DEF V
      <4>2. /\ Max(LineEnds(b, from)) \in LineEnds(b, from)
            /\ \A y \in LineEnds(b, from) : Max(LineEnds(b, from)) >= y
        BY <3>5, <4>1, MaxOfSet
      <4> QED
        BY <3>4, <3>5, <4>1, <4>2
    <3> QED
      BY <3>4, <3>6 DEF AfterLines
  <2> QED
    BY <2>2, <2>3
<1>9. Lines(b, from) = [i \in 1..n |-> SubSeq(b, f[i - 1] + 1, f[i])]
  <2> DEFINE Value(g, i) == IF i = 0 THEN from ELSE Min(LineEnds(b, g[i - 1]))
             Ends(g) == g = [i \in 0..n |-> Value(g, i)]
             end == CHOOSE g : Ends(g)
  <2>1. Lines(b, from) = [i \in 1..n |-> SubSeq(b, end[i - 1] + 1, end[i])]
    BY DEF Lines, n
  <2> HIDE DEF Value
  <2>2. ASSUME NEW i \in 0..n
        PROVE  f[i] = Value(f, i)
    <3>1. i = 0 \/ (i \in 1..n /\ i - 1 \in 0..n)
      BY <1>1
    <3> QED
      BY <1>4, <1>5, <1>7, <3>1 DEF Value
  <2>3. Ends(f)
    BY <2>2
  <2>4. Ends(end)
    <3> HIDE DEF Ends
    <3> QED
      BY <2>3
  <2> HIDE DEF end
  <2>5. \A i \in 0..n : end[i] = Value(end, i)
    BY <2>4
  <2> DEFINE T == {i \in Nat : i <= n => end[i] = f[i]}
  <2>6. 0 \in T
    BY <1>1, <2>2, <2>5 DEF Value
  <2>7. ASSUME NEW i \in Nat, i \in T
        PROVE  i + 1 \in T
    <3>1. SUFFICES ASSUME i + 1 <= n
                   PROVE  end[i + 1] = f[i + 1]
      OBVIOUS
    <3>2. i + 1 \in 0..n /\ i + 1 # 0 /\ (i + 1) - 1 = i /\ end[i] = f[i]
      BY <1>1, <2>7, <3>1
    <3> QED
      BY <2>2, <2>5, <3>2 DEF Value
  <2>8. Nat \subseteq T
    <3> HIDE DEF T
    <3> QED
      BY <2>6, <2>7, InductiveSet
  <2>9. \A i \in 1..n : end[i] = f[i] /\ end[i - 1] = f[i - 1]
    BY <1>1, <2>8
  <2> QED
    BY <2>1, <2>9
<1>10. EndsOfLines(f, b, from)
  <2>1. \A i \in 1..n : /\ f[i] \in f[i - 1] + 1 .. Len(b)
                        /\ b[f[i]] = "n"
                        /\ \A k \in f[i - 1] + 1 .. f[i] - 1 : b[k] # "n"
    <3>1. ASSUME NEW i \in 1..n
          PROVE  Left(i - 1)
      BY <1>1, <1>7
    <3> QED
      BY <1>5, <3>1
  <2> QED
    BY <1>4, <1>8, <1>9, <2>1 DEF EndsOfLines, n, V
<1> QED
  BY <1>10

\* What follows _start has no newline.
LEMMA NothingAfterLines ==
  ASSUME NEW A, NEW b \in Seq(A), NEW from \in 0..Len(b)
  PROVE  /\ AfterLines(b, from) \in from..Len(b)
         /\ \A k \in AfterLines(b, from) + 1 .. Len(b) : b[k] # "n"
<1>1. CASE LineEnds(b, from) = {}
  BY <1>1 DEF AfterLines, LineEnds
<1>2. CASE LineEnds(b, from) # {}
  <2>1. /\ LineEnds(b, from) \subseteq from + 1 .. Len(b)
        /\ LineEnds(b, from) \subseteq Nat
        /\ Len(b) \in Nat /\ \A y \in LineEnds(b, from) : y <= Len(b)
    BY LineEndsAreFinite
  <2>2. /\ Max(LineEnds(b, from)) \in LineEnds(b, from)
        /\ \A y \in LineEnds(b, from) : Max(LineEnds(b, from)) >= y
    BY <1>2, <2>1, MaxOfSet
  <2>3. AfterLines(b, from) = Max(LineEnds(b, from))
    BY <1>2 DEF AfterLines
  <2>4. AfterLines(b, from) \in from + 1 .. Len(b)
    BY <2>1, <2>2, <2>3
  <2>5. ASSUME NEW k \in AfterLines(b, from) + 1 .. Len(b)
        PROVE  b[k] # "n"
    <3>1. k \notin LineEnds(b, from) /\ k \in from + 1 .. Len(b)
      BY <2>2, <2>3, <2>4
    <3> QED
      BY <3>1 DEF LineEnds
  <2> QED
    BY <2>4, <2>5
<1> QED
  BY <1>1, <1>2

\* A line has its newline last and no other in it.
IsLine(r) ==
  /\ r # <<>>
  /\ \A k \in 1..Len(r) - 1 : r[k] # "n"
  /\ r[Len(r)] = "n"

\* The loop over find() returns lines, which together are the bytes it has
\* gone past.
LEMMA LinesAreTheInput ==
  ASSUME NEW A, NEW b \in Seq(A), NEW from \in 0..Len(b)
  PROVE  /\ Lines(b, from) \in Seq(Seq(A))
         /\ \A i \in 1..Len(Lines(b, from)) : IsLine(Lines(b, from)[i])
         /\ FlattenSeq(Lines(b, from)) = SubSeq(b, from + 1, AfterLines(b, from))
<1> DEFINE n == Cardinality(LineEnds(b, from))
<1>1. n \in Nat
  BY LineEndsAreFinite
<1>2. PICK end : EndsOfLines(end, b, from)
  BY LoopFindsLineEnds
<1> DEFINE line(i) == SubSeq(b, end[i - 1] + 1, end[i])
           first(k) == [i \in 1..k |-> line(i)]
<1>3. /\ end \in [0..n -> 0..Len(b)]
      /\ end[0] = from /\ end[n] = AfterLines(b, from)
      /\ Lines(b, from) = first(n)
  BY <1>2 DEF EndsOfLines
<1>4. \A i \in 1..n : /\ end[i] \in end[i - 1] + 1 .. Len(b)
                      /\ b[end[i]] = "n"
                      /\ \A k \in end[i - 1] + 1 .. end[i] - 1 : b[k] # "n"
  BY <1>2 DEF EndsOfLines
<1> HIDE DEF n
<1>5. ASSUME NEW i \in 1..n
      PROVE  line(i) \in Seq(A) /\ IsLine(line(i))
  <2>1. end[i - 1] \in 0..Len(b) /\ end[i] \in 0..Len(b)
    BY <1>1, <1>3
  <2>2. /\ line(i) \in Seq(A) /\ Len(line(i)) = end[i] - end[i - 1]
        /\ \A k \in 1..Len(line(i)) : line(i)[k] = b[end[i - 1] + k]
    <3>1. end[i] \in end[i - 1] .. Len(b)
      BY <1>4, <2>1
    <3> QED
      BY <2>1, <3>1, Part
  <2>3. Len(line(i)) \in 1..Len(b)
    BY <1>4, <2>1, <2>2
  <2> HIDE DEF line
  <2>4. line(i)[Len(line(i))] = "n"
    <3>1. end[i - 1] + Len(line(i)) = end[i]
      BY <2>1, <2>2
    <3> QED
      BY <1>4, <2>2, <2>3, <3>1
  <2>5. ASSUME NEW k \in 1..Len(line(i)) - 1
        PROVE  line(i)[k] # "n"
    <3> DEFINE lo == end[i - 1]
               hi == end[i]
               len == Len(line(i))
    <3>1. lo + k \in lo + 1 .. hi - 1 /\ k \in 1..len
      <4>1. lo \in Nat /\ hi \in Nat /\ len \in Nat /\ len = hi - lo
        BY <2>1, <2>2, <2>3
      <4>2. k \in 1..len - 1
        OBVIOUS
      <4> HIDE DEF lo, hi, len
      <4> QED
        BY <4>1, <4>2
    <3>2. line(i)[k] = b[end[i - 1] + k]
      BY <2>2, <3>1, Zenon
    <3>3. b[end[i - 1] + k] # "n"
      BY <1>4, <3>1, Zenon
    <3> QED
      BY <3>2, <3>3, Zenon
  <2> QED
    BY <2>2, <2>3, <2>4, <2>5 DEF IsLine
<1> HIDE DEF line
<1>6. \A k \in 0..n : first(k) \in Seq(Seq(A)) /\ Len(first(k)) = k
  BY <1>1, <1>5
<1>7. ASSUME NEW k \in Nat, k + 1 <= n
      PROVE  first(k + 1) = Append(first(k), line(k + 1))
  <2>1. k \in 0..n /\ k + 1 \in 0..n /\ line(k + 1) \in Seq(A)
    BY <1>1, <1>5, <1>7
  <2> QED
    BY <1>6, <2>1
<1> DEFINE S == {k \in Nat : k <= n =>
                   /\ end[k] >= from
                   /\ FlattenSeq(first(k)) = SubSeq(b, from + 1, end[k])}
<1>8. 0 \in S
  <2>1. first(0) = <<>>
    OBVIOUS
  <2>2. SubSeq(b, from + 1, end[0]) = <<>>
    BY <1>3, SubSeqEmpty
  <2> HIDE DEF first
  <2>3. FlattenSeq(first(0)) = SubSeq(b, from + 1, end[0])
    BY <2>1, <2>2, FlattenEmpty, Zenon
  <2> QED
    BY <1>3, <2>3
<1>9. ASSUME NEW k \in Nat, k \in S
      PROVE  k + 1 \in S
  <2>1. SUFFICES ASSUME k + 1 <= n
                 PROVE  /\ end[k + 1] >= from
                        /\ FlattenSeq(first(k + 1))
                             = SubSeq(b, from + 1, end[k + 1])
    OBVIOUS
  <2>2. k \in 0..n /\ k + 1 \in 1..n /\ (k + 1) - 1 = k
    BY <1>1, <2>1
  <2>3. /\ end[k] >= from
        /\ FlattenSeq(first(k)) = SubSeq(b, from + 1, end[k])
    BY <1>1, <1>9, <2>2
  <2>4. line(k + 1) \in Seq(A) /\ first(k) \in Seq(Seq(A))
    BY <1>5, <1>6, <2>2
  <2>5. first(k + 1) = Append(first(k), line(k + 1))
    BY <1>7, <2>1
  <2> HIDE DEF first
  <2>6. FlattenSeq(first(k + 1)) = FlattenSeq(first(k)) \o line(k + 1)
    BY <2>4, <2>5, FlattenAppend
  <2>7. line(k + 1) = SubSeq(b, end[k] + 1, end[k + 1])
    BY <2>2 DEF line
  <2>8. /\ end[k] \in from..Len(b)
        /\ end[k + 1] \in end[k]..Len(b) /\ end[k + 1] >= from
    <3>1. end[k] \in 0..Len(b) /\ end[k + 1] \in end[k] + 1 .. Len(b)
      BY <1>3, <1>4, <2>2
    <3> QED
      BY <2>3, <3>1
  <2>9. SubSeq(b, from + 1, end[k]) \o SubSeq(b, end[k] + 1, end[k + 1])
          = SubSeq(b, from + 1, end[k + 1])
    BY <2>8, PartsJoined
  <2> QED
    BY <2>3, <2>6, <2>7, <2>8, <2>9
<1>10. n \in S
  <2> HIDE DEF S
  <2> QED
    BY <1>1, <1>8, <1>9, InductiveSet
<1>11. FlattenSeq(Lines(b, from)) = SubSeq(b, from + 1, AfterLines(b, from))
  <2> HIDE DEF first
  <2> QED
    BY <1>1, <1>3, <1>10
<1>12. \A i \in 1..n : first(n)[i] = line(i)
  OBVIOUS
<1> HIDE DEF first
<1>13. first(n) \in Seq(Seq(A)) /\ Len(first(n)) = n
  BY <1>1, <1>6
<1>14. \A i \in 1..n : IsLine(first(n)[i])
  BY <1>5, <1>12
<1> QED
  BY <1>3, <1>11, <1>13, <1>14

-----------------------------------------------------------------------------
(* The splitter: what holds of its state between any two calls of feed().      *)

SplitterIInv == SplitterTypeOK /\ Lossless /\ CarryOverBounded

LEMMA BothParts ==
  ASSUME NEW A, NEW s \in Seq(A), NEW t \in Seq(A)
  PROVE  /\ s \o t \in Seq(A) /\ Len(s \o t) = Len(s) + Len(t)
         /\ Len(s) \in Nat /\ Len(t) \in Nat
         /\ \A i \in 1..Len(s) : (s \o t)[i] = s[i]
         /\ \A i \in 1..Len(t) : (s \o t)[Len(s) + i] = t[i]
OBVIOUS

\* What is left of two sequences after a prefix of the first.
LEMMA PartOfBoth ==
  ASSUME NEW A, NEW s \in Seq(A), NEW t \in Seq(A), NEW i \in 0..Len(s)
  PROVE  SubSeq(s \o t, i + 1, Len(s \o t)) = SubSeq(s, i + 1, Len(s)) \o t
<1> DEFINE z == s \o t
           p == SubSeq(s, i + 1, Len(s))
           x == SubSeq(z, i + 1, Len(z))
           y == p \o t
<1>1. /\ z \in Seq(A) /\ Len(z) = Len(s) + Len(t)
      /\ Len(s) \in Nat /\ Len(t) \in Nat
      /\ \A k \in 1..Len(s) : z[k] = s[k]
      /\ \A k \in 1..Len(t) : z[Len(s) + k] = t[k]
  BY BothParts
<1>2. /\ p \in Seq(A) /\ Len(p) = Len(s) - i
      /\ \A k \in 1..Len(s) - i : p[k] = s[i + k]
  <2>1. Len(s) \in i..Len(s)
    BY <1>1
  <2> QED
    BY <2>1, Part
<1> HIDE DEF z, p
<1>3. /\ x \in Seq(A) /\ Len(x) = Len(z) - i
      /\ \A k \in 1..Len(z) - i : x[k] = z[i + k]
  <2>1. i \in 0..Len(z) /\ Len(z) \in i..Len(z)
    BY <1>1
  <2> QED
    BY <1>1, <2>1, Part
<1>4. /\ y \in Seq(A) /\ Len(y) = Len(p) + Len(t)
      /\ \A k \in 1..Len(p) : y[k] = p[k]
      /\ \A k \in 1..Len(t) : y[Len(p) + k] = t[k]
  <2>1. p \in Seq(A)
    BY <1>2
  <2> QED
    BY <2>1, BothParts
<1> HIDE DEF x, y
<1>5. ASSUME NEW k \in 1..Len(x)
      PROVE  x[k] = y[k]
  <2>1. k \in 1..Len(z) - i /\ x[k] = z[i + k]
    BY <1>3
  <2>2. CASE k <= Len(s) - i
    <3>1. k \in 1..Len(s) - i /\ i + k \in 1..Len(s) /\ k \in 1..Len(p)
      BY <1>1, <1>2, <2>1, <2>2
    <3> QED
      BY <1>1, <1>2, <1>4, <2>1, <3>1, Zenon
  <2>3. CASE ~(k <= Len(s) - i)
    <3> DEFINE j == k - (Len(s) - i)
    <3>1. j \in 1..Len(t) /\ i + k = Len(s) + j /\ k = Len(p) + j
      BY <1>1, <1>2, <2>1, <2>3
    <3> HIDE DEF j
    <3>2. x[k] = t[j]
      BY <1>1, <2>1, <3>1, Zenon
    <3>3. y[k] = t[j]
      BY <1>4, <3>1, Zenon
    <3> QED
      BY <3>2, <3>3, Zenon
  <2> QED
    BY <2>2, <2>3
<1>6. Len(x) = Len(y)
  BY <1>1, <1>2, <1>3, <1>4
<1>7. x = y
  BY <1>3, <1>4, <1>5, <1>6, SeqEqual
<1> QED
  BY <1>7 DEF x, y, z, p

LEMMA AfterNothing ==
  ASSUME NEW A, NEW b \in Seq(A)
  PROVE  After(b, 0) = b
<1>1. 0 + 1 = 1
  OBVIOUS
<1>2. After(b, 0) = SubSeq(b, 1, Len(b))
  BY <1>1, Zenon DEF After
<1> QED
  BY <1>2, SubSeqFull

\* What feed(chunk) makes of the bytes after _start.
LEMMA FeedSplits ==
  ASSUME SplitterTypeOK, NEW chunk \in Seq(Bytes), Feed(chunk)
  PROVE  \E new \in Seq(Seq(Bytes)) :
           /\ emitted' = emitted \o new
           /\ FlattenSeq(new) \o Retained' = Retained \o chunk
           /\ \A i \in 1..Len(new) :
                IsLine(new[i]) \/ /\ Len(new[i]) > Limit
                                  /\ \A k \in 1..Len(new[i]) : new[i][k] # "n"
           /\ buf' \in Seq(Bytes) /\ start' \in 0..Len(buf')
           /\ fed' = fed \o chunk
           /\ CarryOverBounded'
<1> DEFINE b == buf \o chunk
           after == AfterLines(b, start)
           at == IF Overflows(b, after) THEN Len(b) ELSE after
           lines == Lines(b, start)
           tail == After(b, after)
           new == lines \o (IF at = after THEN <<>> ELSE <<tail>>)
<1>1. b \in Seq(Bytes) /\ start \in 0..Len(b) /\ Len(b) \in Nat
  BY DEF SplitterTypeOK
<1>2. /\ after \in start..Len(b)
      /\ \A k \in after + 1 .. Len(b) : b[k] # "n"
  BY <1>1, NothingAfterLines
<1>3. /\ lines \in Seq(Seq(Bytes))
      /\ \A i \in 1..Len(lines) : IsLine(lines[i])
      /\ FlattenSeq(lines) = SubSeq(b, start + 1, after)
  BY <1>1, LinesAreTheInput
<1>4. /\ emitted' = emitted \o lines \o (IF at = after THEN <<>> ELSE <<tail>>)
      /\ fed' = fed \o chunk
      /\ IF Compacts(b, at) THEN buf' = After(b, at) /\ start' = 0
         ELSE buf' = b /\ start' = at
  BY DEF Feed
<1> HIDE DEF b, after, lines
<1>5. /\ at \in after..Len(b) /\ Len(b) - at <= Limit
      /\ at # after => at = Len(b) /\ Len(b) - after > Limit
  BY <1>1, <1>2, LineSplitterAssumption DEF Overflows
<1> HIDE DEF at
<1>6. /\ tail \in Seq(Bytes) /\ Len(tail) = Len(b) - after
      /\ \A k \in 1..Len(tail) : tail[k] # "n"
  <2>1. /\ tail \in Seq(Bytes) /\ Len(tail) = Len(b) - after
        /\ \A k \in 1..Len(b) - after : tail[k] = b[after + k]
    BY <1>1, <1>2, Part DEF After
  <2>2. ASSUME NEW k \in 1..Len(b) - after
        PROVE  tail[k] # "n"
    <3>1. after + k \in after + 1 .. Len(b)
      BY <1>1, <1>2
    <3> QED
      BY <1>2, <2>1, <3>1
  <2> QED
    BY <2>1, <2>2
<1>7. /\ Retained' = After(b, at)
      /\ buf' \in Seq(Bytes) /\ start' \in 0..Len(buf')
      /\ start' <= Len(buf') - start'
  <2>1. CASE Compacts(b, at)
    <3>1. After(b, at) \in Seq(Bytes) /\ Len(After(b, at)) \in Nat
      BY <1>1, <1>2, <1>5, Part DEF After
    <3>2. After(After(b, at), 0) = After(b, at)
      BY <3>1, AfterNothing
    <3>3. buf' = After(b, at) /\ start' = 0
      BY <1>4, <2>1
    <3>4. Retained' = After(b, at)
      BY <3>2, <3>3, Zenon DEF Retained
    <3> QED
      BY <3>1, <3>3, <3>4
  <2>2. CASE ~Compacts(b, at)
    <3>1. buf' = b /\ start' = at /\ ~(at > 0 /\ at > Len(b) \div 2)
      BY <1>4, <2>2 DEF Compacts
    <3>2. at <= Len(b) - at
      BY <1>1, <1>2, <1>5, <3>1
    <3> QED
      BY <1>1, <1>2, <1>5, <3>1, <3>2 DEF Retained
  <2> QED
    BY <2>1, <2>2
<1>8. /\ Len(After(b, at)) = Len(b) - at
      /\ \A k \in 1..Len(After(b, at)) : After(b, at)[k] # "n"
  <2>1. /\ Len(After(b, at)) = Len(b) - at
        /\ \A k \in 1..Len(b) - at : After(b, at)[k] = b[at + k]
    BY <1>1, <1>2, <1>5, Part DEF After
  <2>2. ASSUME NEW k \in 1..Len(b) - at
        PROVE  After(b, at)[k] # "n"
    <3>1. at + k \in after + 1 .. Len(b)
      BY <1>1, <1>2, <1>5
    <3> QED
      BY <1>2, <2>1, <3>1
  <2> QED
    BY <2>1, <2>2
<1>9. CarryOverBounded'
  <2>1. Len(Retained') <= Limit /\ \A k \in 1..Len(Retained') : Retained'[k] # "n"
    BY <1>5, <1>7, <1>8
  <2>2. start' <= Len(buf') - start'
    BY <1>7
  <2> QED
    BY <2>1, <2>2 DEF CarryOverBounded
<1>10. Retained \o chunk = After(b, start)
  BY PartOfBoth DEF Retained, After, b, SplitterTypeOK
<1>11. SubSeq(b, start + 1, after) \o tail = After(b, start)
  <2>1. Len(b) \in after..Len(b)
    BY <1>1, <1>2
  <2>2. SubSeq(b, start + 1, after) \o SubSeq(b, after + 1, Len(b))
          = SubSeq(b, start + 1, Len(b))
    BY <1>1, <1>2, <2>1, PartsJoined
  <2> QED
    BY <2>2, Zenon DEF tail, After
<1>12. CASE at = after
  <2>1. new = lines /\ emitted' = emitted \o new
    BY <1>3, <1>4, <1>12 DEF SplitterTypeOK
  <2>2. FlattenSeq(new) \o Retained' = Retained \o chunk
    BY <1>3, <1>7, <1>10, <1>11, <1>12, <2>1
  <2> QED
    BY <1>3, <1>4, <1>7, <1>9, <2>1, <2>2
<1>13. CASE at # after
  <2>1. new = lines \o <<tail>> /\ new \in Seq(Seq(Bytes))
    <3>1. new = lines \o <<tail>>
      BY <1>13, Zenon DEF new
    <3> HIDE DEF tail, new
    <3> QED
      BY <1>3, <1>6, <3>1
  <2>2. emitted' = emitted \o new
    <3>1. emitted' = (emitted \o lines) \o <<tail>>
      BY <1>4, <1>13, Zenon
    <3> HIDE DEF tail
    <3>2. emitted \in Seq(Seq(Bytes)) /\ <<tail>> \in Seq(Seq(Bytes))
      BY <1>6 DEF SplitterTypeOK
    <3>3. (emitted \o lines) \o <<tail>> = emitted \o (lines \o <<tail>>)
      BY <1>3, <3>2, ConcatAssociative
    <3> QED
      BY <2>1, <3>1, <3>3, Zenon
  <2>3. FlattenSeq(new) = FlattenSeq(lines) \o tail
    <3>1. <<tail>> \in Seq(Seq(Bytes))
      BY <1>6
    <3>2. FlattenSeq(lines \o <<tail>>) = FlattenSeq(lines) \o FlattenSeq(<<tail>>)
      BY <1>3, <3>1, FlattenConcat
    <3>3. FlattenSeq(<<tail>>) = tail
      BY <1>6, FlattenSingle
    <3> QED
      BY <2>1, <3>2, <3>3, Zenon
  <2>4. Retained' = <<>>
    <3>1. at = Len(b) /\ After(b, at) = SubSeq(b, Len(b) + 1, Len(b))
      BY <1>5, <1>13 DEF After
    <3>2. SubSeq(b, Len(b) + 1, Len(b)) = <<>>
      BY <1>1, SubSeqEmpty
    <3> QED
      BY <1>7, <3>1, <3>2, Zenon
  <2>5. FlattenSeq(new) \o Retained' = Retained \o chunk
    <3>1. FlattenSeq(lines) \o tail = Retained \o chunk
      BY <1>3, <1>10, <1>11, Zenon
    <3>2. FlattenSeq(lines) \o tail \in Seq(Bytes)
      <4>1. FlattenSeq(lines) \in Seq(Bytes)
        BY <1>3, FlattenType
      <4> HIDE DEF tail
      <4> QED
        BY <1>6, <4>1
    <3> HIDE DEF tail
    <3>3. (FlattenSeq(lines) \o tail) \o <<>> = FlattenSeq(lines) \o tail
      BY <3>2
    <3> QED
      BY <2>3, <2>4, <3>1, <3>3, Zenon
  <2>6. ASSUME NEW i \in 1..Len(new)
        PROVE  IsLine(new[i]) \/ /\ Len(new[i]) > Limit
                                 /\ \A k \in 1..Len(new[i]) : new[i][k] # "n"
    BY <1>3, <1>5, <1>6, <1>13, <2>1
  <2> QED
    BY <1>4, <1>7, <1>9, <2>1, <2>2, <2>5, <2>6
<1> QED
  BY <1>12, <1>13

\* What feed(b"") makes of them.
LEMMA FlushSplits ==
  ASSUME SplitterTypeOK, CarryOverBounded, Flush
  PROVE  /\ Retained \in Seq(Bytes) /\ Retained # <<>>
         /\ \A k \in 1..Len(Retained) : Retained[k] # "n"
         /\ emitted' = emitted \o <<Retained>>
         /\ Retained' = <<>> /\ buf' = <<>> /\ start' = 0 /\ fed' = fed
         /\ CarryOverBounded'
<1>1. start < Len(buf) /\ start \in 0..Len(buf) /\ buf \in Seq(Bytes)
  BY DEF Flush, SplitterTypeOK
<1>2. Retained \in Seq(Bytes) /\ Len(Retained) = Len(buf) - start
  BY <1>1, Part DEF Retained, After
<1>3. Len(Retained) # 0
  BY <1>1, <1>2
<1>4. Retained # <<>>
  BY <1>3
<1>5. emitted' = emitted \o <<Retained>>
  <2>1. emitted' = Append(emitted, Retained)
    BY DEF Flush, Retained
  <2> HIDE DEF Retained
  <2> QED
    BY <1>2, <2>1, AppendIsConcat DEF SplitterTypeOK
<1>6. buf' = <<>> /\ start' = 0 /\ fed' = fed
  BY DEF Flush
<1>7. Retained' = <<>>
  <2>1. Retained' = After(<<>>, 0)
    BY <1>6, Zenon DEF Retained
  <2>2. <<>> \in Seq(Bytes)
    OBVIOUS
  <2> QED
    BY <2>1, <2>2, AfterNothing
<1>8. CarryOverBounded'
  <2>1. Len(Retained') = 0 /\ start' <= Len(buf') - start'
    BY <1>6, <1>7
  <2> HIDE DEF Retained
  <2>2. /\ Len(Retained') <= Limit
        /\ \A k \in 1..Len(Retained') : Retained'[k] # "n"
    BY <2>1, LineSplitterAssumption
  <2> QED
    BY <2>1, <2>2 DEF CarryOverBounded
<1> QED
  BY <1>2, <1>4, <1>5, <1>6, <1>7, <1>8 DEF CarryOverBounded

\* A record of feed(): a line, or a fragment, which the limit or a flush made.
IsRecord(r) ==
  \/ IsLine(r)
  \/ /\ r # <<>>
     /\ \A k \in 1..Len(r) : r[k] # "n"
     /\ fed' # fed => Len(r) > Limit

\* One call of feed(), with a chunk or with b"".
Splits(new) ==
  /\ new \in Seq(Seq(Bytes))
  /\ emitted' = emitted \o new
  /\ NewRecords = new
  /\ \A i \in 1..Len(new) : IsRecord(new[i])

Fed == (\E chunk \in Chunks : Feed(chunk)) \/ FeedNothing
         \/ UNCHANGED splitterVars

LEMMA ChunksAreSequences == Chunks \subseteq Seq(Bytes)
<1> SUFFICES ASSUME NEW c \in Chunks
             PROVE  c \in Seq(Bytes)
  OBVIOUS
<1>1. PICK n \in 1..MaxChunk : c \in [1..n -> Bytes]
  BY DEF Chunks
<1>2. n \in Nat
  BY LineSplitterAssumption
<1> QED
  BY <1>1, <1>2

LEMMA RecordsAddedLast ==
  ASSUME SplitterTypeOK, NEW new \in Seq(Seq(Bytes)), emitted' = emitted \o new
  PROVE  NewRecords = new
<1>1. emitted \in Seq(Seq(Bytes)) /\ Len(emitted) \in 0..Len(emitted)
  BY DEF SplitterTypeOK
<1>2. SubSeq(emitted \o new, Len(emitted) + 1, Len(emitted \o new))
        = SubSeq(emitted, Len(emitted) + 1, Len(emitted)) \o new
  BY <1>1, PartOfBoth
<1>3. SubSeq(emitted, Len(emitted) + 1, Len(emitted)) = <<>>
  BY <1>1, SubSeqEmpty
<1>4. <<>> \o new = new
  OBVIOUS
<1> QED
  BY <1>2, <1>3, <1>4, Zenon DEF NewRecords

\* The splitter's invariant is preserved by every call, and the records added
\* are lines or fragments.
LEMMA SplitterStep ==
  ASSUME SplitterIInv, Fed
  PROVE  SplitterIInv' /\ \E new : Splits(new)
<1>1. /\ SplitterTypeOK /\ Lossless /\ CarryOverBounded
      /\ fed \in Seq(Bytes) /\ emitted \in Seq(Seq(Bytes))
      /\ Retained \in Seq(Bytes)
  BY Part DEF SplitterIInv, SplitterTypeOK, Retained, After
<1>2. FlattenSeq(emitted) \in Seq(Bytes)
  BY <1>1, FlattenType
<1>3. CASE \E chunk \in Chunks : Feed(chunk)
  <2>1. PICK chunk \in Seq(Bytes) : Feed(chunk)
    BY <1>3, ChunksAreSequences
  <2>2. PICK new \in Seq(Seq(Bytes)) :
           /\ emitted' = emitted \o new
           /\ FlattenSeq(new) \o Retained' = Retained \o chunk
           /\ \A i \in 1..Len(new) :
                IsLine(new[i]) \/ /\ Len(new[i]) > Limit
                                  /\ \A k \in 1..Len(new[i]) : new[i][k] # "n"
           /\ buf' \in Seq(Bytes) /\ start' \in 0..Len(buf')
           /\ fed' = fed \o chunk
           /\ CarryOverBounded'
    BY <1>1, <2>1, FeedSplits
  <2>3. SplitterTypeOK'
    BY <1>1, <2>2 DEF SplitterTypeOK
  <2>4. Retained' \in Seq(Bytes)
    <3>1. Len(buf') \in start'..Len(buf')
      BY <2>2
    <3> QED
      BY <2>2, <3>1, Part DEF Retained, After
  <2>5. Lossless'
    <3>1. FlattenSeq(emitted') = FlattenSeq(emitted) \o FlattenSeq(new)
      BY <1>1, <2>2, FlattenConcat
    <3>2. FlattenSeq(new) \in Seq(Bytes)
      BY FlattenType
    <3>3. (FlattenSeq(emitted) \o FlattenSeq(new)) \o Retained'
            = FlattenSeq(emitted) \o (FlattenSeq(new) \o Retained')
      BY <1>2, <2>4, <3>2, ConcatAssociative
    <3>4. (FlattenSeq(emitted) \o Retained) \o chunk
            = FlattenSeq(emitted) \o (Retained \o chunk)
      BY <1>1, <1>2, ConcatAssociative
    <3>5. FlattenSeq(emitted) \o Retained = fed
      BY <1>1 DEF Lossless
    <3>6. FlattenSeq(emitted') \o Retained' = fed'
      BY <2>2, <3>1, <3>3, <3>4, <3>5, Zenon
    <3> QED
      BY <3>6 DEF Lossless
  <2>6. ASSUME NEW i \in 1..Len(new)
        PROVE  IsRecord(new[i])
    <3>1. new[i] \in Seq(Bytes)
      OBVIOUS
    <3>2. CASE IsLine(new[i])
      BY <3>2 DEF IsRecord
    <3>3. CASE /\ Len(new[i]) > Limit
               /\ \A k \in 1..Len(new[i]) : new[i][k] # "n"
      <4>1. new[i] # <<>>
        BY <3>3, LineSplitterAssumption
      <4> QED
        BY <3>3, <4>1 DEF IsRecord
    <3> QED
      BY <2>2, <3>2, <3>3
  <2>7. Splits(new)
    BY <1>1, <2>2, <2>6, RecordsAddedLast DEF Splits
  <2> QED
    BY <2>2, <2>3, <2>5, <2>7 DEF SplitterIInv
<1>4. CASE Flush
  <2>1. /\ Retained # <<>>
        /\ \A k \in 1..Len(Retained) : Retained[k] # "n"
        /\ emitted' = emitted \o <<Retained>>
        /\ Retained' = <<>> /\ buf' = <<>> /\ start' = 0 /\ fed' = fed
        /\ CarryOverBounded'
    BY <1>1, <1>4, FlushSplits
  <2> DEFINE new == <<Retained>>
  <2>2. new \in Seq(Seq(Bytes)) /\ Len(new) = 1 /\ new[1] = Retained
    <3> HIDE DEF Retained
    <3> QED
      BY <1>1
  <2>3. SplitterTypeOK'
    <3>1. emitted' \in Seq(Seq(Bytes))
      <4> HIDE DEF new
      <4> QED
        BY <1>1, <2>1, <2>2
    <3> QED
      BY <1>1, <2>1, <3>1 DEF SplitterTypeOK
  <2>4. Lossless'
    <3>1. FlattenSeq(emitted') = FlattenSeq(emitted) \o FlattenSeq(new)
      BY <1>1, <2>1, <2>2, FlattenConcat
    <3>2. FlattenSeq(new) = Retained
      BY <1>1, FlattenSingle
    <3>3. FlattenSeq(emitted) \o Retained = fed
      BY <1>1 DEF Lossless
    <3>4. fed \o <<>> = fed
      BY <1>1
    <3>5. FlattenSeq(emitted') \o Retained' = fed'
      BY <2>1, <3>1, <3>2, <3>3, <3>4, Zenon
    <3> QED
      BY <3>5 DEF Lossless
  <2>5. IsRecord(new[1])
    BY <2>1, <2>2 DEF IsRecord
  <2> HIDE DEF new
  <2>6. Splits(new)
    <3>1. emitted' = emitted \o new
      BY <2>1 DEF new
    <3>2. \A i \in 1..Len(new) : IsRecord(new[i])
      BY <2>2, <2>5
    <3> QED
      BY <1>1, <2>2, <3>1, <3>2, RecordsAddedLast DEF Splits
  <2> QED
    BY <2>1, <2>3, <2>4, <2>6 DEF SplitterIInv
<1>5. CASE UNCHANGED splitterVars
  <2>1. buf' = buf /\ start' = start /\ fed' = fed /\ emitted' = emitted
    BY <1>5 DEF splitterVars
  <2>2. SplitterIInv'
    BY <1>1, <2>1 DEF SplitterIInv, SplitterTypeOK, Lossless, CarryOverBounded, Retained
  <2>3. emitted \o <<>> = emitted /\ <<>> \in Seq(Seq(Bytes))
    BY <1>1
  <2>4. emitted' = emitted \o <<>>
    BY <2>1, <2>3, Zenon
  <2>5. Splits(<<>>)
    <3>1. NewRecords = <<>>
      BY <1>1, <2>3, <2>4, RecordsAddedLast
    <3>2. \A i \in 1..Len(<<>>) : IsRecord(<<>>[i])
      OBVIOUS
    <3> QED
      BY <2>3, <2>4, <3>1, <3>2, Zenon DEF Splits
  <2> QED
    BY <2>2, <2>5
<1> QED
  BY <1>3, <1>4, <1>5 DEF Fed, FeedNothing

-----------------------------------------------------------------------------
(* The splitter's theorems, of the specification that drives it.               *)

LEMMA EveryStepFeeds ==
  ASSUME [Next]_vars
  PROVE  Fed
BY DEF Next, Process, OnDisable, Fed, vars

LEMMA SplitterStarts == Init => SplitterIInv
<1> SUFFICES ASSUME Init
             PROVE  SplitterIInv
  OBVIOUS
<1>1. buf = <<>> /\ start = 0 /\ fed = <<>> /\ emitted = <<>>
  BY DEF Init, SplitterInit
<1>2. SplitterTypeOK
  BY <1>1 DEF SplitterTypeOK
<1>3. Retained = <<>>
  <2>1. Retained = After(<<>>, 0)
    BY <1>1, Zenon DEF Retained
  <2>2. <<>> \in Seq(Bytes)
    OBVIOUS
  <2> QED
    BY <2>1, <2>2, AfterNothing
<1>4. Lossless
  <2>1. FlattenSeq(emitted) \o Retained = <<>> \o <<>>
    BY <1>1, <1>3, FlattenEmpty, Zenon
  <2> QED
    BY <1>1, <2>1 DEF Lossless
<1>5. CarryOverBounded
  <2>1. Len(Retained) = 0 /\ start <= Len(buf) - start
    BY <1>1, <1>3
  <2> QED
    BY <2>1, LineSplitterAssumption DEF CarryOverBounded
<1> QED
  BY <1>2, <1>4, <1>5 DEF SplitterIInv

LEMMA SplitterInvariant == Spec => []SplitterIInv
<1>1. SplitterIInv /\ [Next]_vars => SplitterIInv'
  BY EveryStepFeeds, SplitterStep
<1> QED
  BY <1>1, SplitterStarts, PTL DEF Spec

\* No byte of the input is lost, repeated or moved by the splitter, however the
\* input is cut into chunks and whenever it is flushed or compacted.
THEOREM SplitterIsLossless == Spec => []Lossless
<1>1. SplitterIInv => Lossless
  BY DEF SplitterIInv
<1> QED
  BY <1>1, SplitterInvariant, PTL

\* The splitter's memory is bounded, whatever the input: what waits for a
\* newline by the limit, what was emitted but not deleted yet by what waits.
THEOREM CarryOverIsBounded == Spec => []CarryOverBounded
<1>1. SplitterIInv => CarryOverBounded
  BY DEF SplitterIInv
<1> QED
  BY <1>1, SplitterInvariant, PTL

\* Every record of feed() is one line or a fragment of one that the limit or a
\* flush cut.
THEOREM RecordsAreLines == Spec => EveryRecordIsALine
<1> DEFINE Added ==
      \A i \in Len(emitted) + 1 .. Len(emitted') :
        LET r == emitted'[i] IN
          /\ r # <<>>
          /\ \A k \in 1..Len(r) - 1 : r[k] # "n"
          /\ Last(r) # "n" /\ fed' # fed => Len(r) > Limit
<1>1. SplitterIInv /\ [Next]_vars => [Added]_splitterVars
  <2> SUFFICES ASSUME SplitterIInv, [Next]_vars
               PROVE  Added
    BY Zenon
  <2>1. PICK new : Splits(new)
    BY EveryStepFeeds, SplitterStep
  <2>2. /\ new \in Seq(Seq(Bytes)) /\ emitted' = emitted \o new
        /\ emitted \in Seq(Seq(Bytes))
        /\ \A i \in 1..Len(new) : IsRecord(new[i])
    BY <2>1 DEF Splits, SplitterIInv, SplitterTypeOK
  <2>3. ASSUME NEW i \in Len(emitted) + 1 .. Len(emitted')
        PROVE  LET r == emitted'[i] IN
                 /\ r # <<>>
                 /\ \A k \in 1..Len(r) - 1 : r[k] # "n"
                 /\ Last(r) # "n" /\ fed' # fed => Len(r) > Limit
    <3> DEFINE j == i - Len(emitted)
               r == new[j]
    <3>1. j \in 1..Len(new) /\ emitted'[i] = new[j]
      BY <2>2
    <3>2. r \in Seq(Bytes) /\ IsRecord(r)
      BY <2>2, <3>1
    <3> HIDE DEF r
    <3>3. /\ r # <<>>
          /\ \A k \in 1..Len(r) - 1 : r[k] # "n"
          /\ Last(r) # "n" /\ fed' # fed => Len(r) > Limit
      BY <3>2 DEF IsRecord, IsLine, Last
    <3> QED
      BY <3>1, <3>3 DEF r
  <2> QED
    BY <2>3
<1> QED
  BY <1>1, SplitterInvariant, PTL DEF Spec, EveryRecordIsALine

-----------------------------------------------------------------------------
(* More about FlattenSeq.                                                      *)

LEMMA Start ==
  ASSUME NEW A, NEW b \in Seq(A), NEW j \in 0..Len(b)
  PROVE  /\ SubSeq(b, 1, j) \in Seq(A)
         /\ Len(SubSeq(b, 1, j)) = j
         /\ \A k \in 1..j : SubSeq(b, 1, j)[k] = b[k]
<1>1. 0 \in 0..Len(b) /\ j \in 0..Len(b) /\ 0 + 1 = 1
  OBVIOUS
<1>2. /\ SubSeq(b, 0 + 1, j) \in Seq(A)
      /\ Len(SubSeq(b, 0 + 1, j)) = j - 0
      /\ \A k \in 1..j - 0 : SubSeq(b, 0 + 1, j)[k] = b[0 + k]
  BY <1>1, Part
<1> QED
  BY <1>1, <1>2

\* Two sequences of parts put together.
LEMMA FlattenJoined ==
  ASSUME NEW A, NEW f \in Seq(Seq(A)), NEW g \in Seq(Seq(A)),
         NEW h \in Seq(Seq(A)), Len(h) = Len(f) + Len(g),
         \A i \in 1..Len(f) : h[i] = f[i],
         \A i \in 1..Len(g) : h[Len(f) + i] = g[i]
  PROVE  FlattenSeq(h) = FlattenSeq(f) \o FlattenSeq(g)
<1>1. /\ f \o g \in Seq(Seq(A)) /\ Len(f \o g) = Len(f) + Len(g)
      /\ Len(f) \in Nat /\ Len(g) \in Nat
      /\ \A i \in 1..Len(f) + Len(g) :
           (f \o g)[i] = IF i <= Len(f) THEN f[i] ELSE g[i - Len(f)]
  OBVIOUS
<1>2. ASSUME NEW i \in 1..Len(h)
      PROVE  h[i] = (f \o g)[i]
  <2>1. CASE i <= Len(f)
    BY <1>1, <2>1
  <2>2. CASE ~(i <= Len(f))
    <3> DEFINE j == i - Len(f)
    <3>1. j \in 1..Len(g) /\ i = Len(f) + j
      BY <1>1, <2>2
    <3> QED
      BY <1>1, <2>2, <3>1
  <2> QED
    BY <2>1, <2>2
<1>3. h = f \o g
  BY <1>1, <1>2, SeqEqual
<1> QED
  BY <1>3, FlattenConcat

\* The first part and the rest, the last part and those before it.
LEMMA FunctionIsSequence ==
  ASSUME NEW A, NEW n \in Nat, NEW f \in [1..n -> A]
  PROVE  f \in Seq(A) /\ Len(f) = n
OBVIOUS

LEMMA SingleType ==
  ASSUME NEW A, NEW e \in A
  PROVE  <<e>> \in Seq(A)
OBVIOUS

LEMMA FlattenFirst ==
  ASSUME NEW A, NEW h \in Seq(Seq(A)), h # <<>>
  PROVE  FlattenSeq(h) = h[1] \o FlattenSeq(SubSeq(h, 2, Len(h)))
<1>1. /\ Len(h) \in Nat /\ Len(h) >= 1 /\ h[1] \in Seq(A)
      /\ 1 \in 0..Len(h) /\ Len(h) \in 1..Len(h)
  OBVIOUS
<1>2. /\ SubSeq(h, 1 + 1, Len(h)) \in Seq(Seq(A))
      /\ Len(SubSeq(h, 1 + 1, Len(h))) = Len(h) - 1
      /\ \A k \in 1..Len(h) - 1 : SubSeq(h, 1 + 1, Len(h))[k] = h[1 + k]
  BY <1>1, Part
<1>3. 1 + 1 = 2
  OBVIOUS
<1> DEFINE rest == SubSeq(h, 2, Len(h))
           one == <<h[1]>>
<1>4. /\ rest \in Seq(Seq(A)) /\ Len(rest) = Len(h) - 1
      /\ \A k \in 1..Len(h) - 1 : rest[k] = h[1 + k]
  BY <1>2, <1>3
<1>5. one \in Seq(Seq(A)) /\ Len(one) = 1 /\ one[1] = h[1]
  BY <1>1
<1>6. FlattenSeq(one) = h[1]
  BY <1>1, FlattenSingle
<1> HIDE DEF rest, one
<1>7. FlattenSeq(h) = FlattenSeq(one) \o FlattenSeq(rest)
  <2>1. \A i \in 1..Len(one) : h[i] = one[i]
    BY <1>5
  <2>2. \A i \in 1..Len(rest) : h[Len(one) + i] = rest[i]
    BY <1>4, <1>5
  <2>3. Len(h) = Len(one) + Len(rest)
    BY <1>1, <1>4, <1>5
  <2> QED
    BY <1>4, <1>5, <2>1, <2>2, <2>3, FlattenJoined
<1> QED
  BY <1>6, <1>7 DEF rest

LEMMA FlattenLast ==
  ASSUME NEW A, NEW h \in Seq(Seq(A)), h # <<>>
  PROVE  FlattenSeq(h) = FlattenSeq(SubSeq(h, 1, Len(h) - 1)) \o h[Len(h)]
<1>1. /\ Len(h) \in Nat /\ Len(h) >= 1 /\ h[Len(h)] \in Seq(A)
      /\ Len(h) - 1 \in 0..Len(h)
  OBVIOUS
<1> DEFINE front == SubSeq(h, 1, Len(h) - 1)
<1>2. /\ front \in Seq(Seq(A)) /\ Len(front) = Len(h) - 1
      /\ \A k \in 1..Len(h) - 1 : front[k] = h[k]
  BY <1>1, Start
<1> HIDE DEF front
<1>3. /\ Append(front, h[Len(h)]) \in Seq(Seq(A))
      /\ Len(Append(front, h[Len(h)])) = Len(h)
      /\ \A k \in 1..Len(h) : Append(front, h[Len(h)])[k] = h[k]
  BY <1>1, <1>2
<1>4. Append(front, h[Len(h)]) = h
  BY <1>3, SeqEqual
<1>5. FlattenSeq(Append(front, h[Len(h)])) = FlattenSeq(front) \o h[Len(h)]
  BY <1>1, <1>2, FlattenAppend
<1> QED
  BY <1>4, <1>5 DEF front

\* The first n parts are the start of the whole.
StartsWith(s, t, A) == \E rest \in Seq(A) : s = t \o rest

LEMMA FlattenStart ==
  ASSUME NEW A, NEW h \in Seq(Seq(A)), NEW n \in 0..Len(h)
  PROVE  /\ SubSeq(h, 1, n) \in Seq(Seq(A)) /\ Len(SubSeq(h, 1, n)) = n
         /\ FlattenSeq(SubSeq(h, 1, n)) \in Seq(A)
         /\ StartsWith(FlattenSeq(h), FlattenSeq(SubSeq(h, 1, n)), A)
<1> DEFINE front == SubSeq(h, 1, n)
           back == SubSeq(h, n + 1, Len(h))
<1>1. /\ front \in Seq(Seq(A)) /\ Len(front) = n
      /\ \A k \in 1..n : front[k] = h[k]
  BY Start
<1>2. /\ back \in Seq(Seq(A)) /\ Len(back) = Len(h) - n
      /\ \A k \in 1..Len(h) - n : back[k] = h[n + k]
  BY Part
<1> HIDE DEF back
<1>3. FlattenSeq(front) \in Seq(A) /\ FlattenSeq(back) \in Seq(A)
  BY <1>1, <1>2, FlattenType
<1> HIDE DEF front
<1>4. FlattenSeq(h) = FlattenSeq(front) \o FlattenSeq(back)
  <2>1. /\ Len(h) = Len(front) + Len(back)
        /\ \A i \in 1..Len(front) : h[i] = front[i]
        /\ \A i \in 1..Len(back) : h[Len(front) + i] = back[i]
    BY <1>1, <1>2
  <2> QED
    BY <1>1, <1>2, <2>1, FlattenJoined
<1>5. StartsWith(FlattenSeq(h), FlattenSeq(front), A)
  BY <1>3, <1>4 DEF StartsWith
<1> QED
  BY <1>1, <1>3, <1>5 DEF front

-----------------------------------------------------------------------------
(* Text: what one record becomes, and what the calls on the sink write.        *)

Plain == (Bytes \ {"h", "t"}) \cup {"c", "?"}
TextChars == Plain \cup {"[ts]"}

LEMMA CharsOfText ==
  /\ Plain \subseteq TextChars
  /\ Chars = TextChars \cup {"[footer]"}
  /\ "[footer]" \notin TextChars
BY TextMonitorAssumption DEF Plain, TextChars, Chars

DecodedPieces(s) ==
  [i \in 1..Len(s) |->
    CASE s[i] = "h" -> IF i < Len(s) /\ s[i + 1] = "t" THEN <<"c">> ELSE <<"?">>
      [] s[i] = "t" -> IF i > 1 /\ s[i - 1] = "h" THEN <<>> ELSE <<"?">>
      [] OTHER -> <<s[i]>>]

LEMMA DecodedInPieces ==
  ASSUME NEW s \in Seq(Bytes)
  PROVE  /\ DecodedPieces(s) \in Seq(Seq(Plain))
         /\ Len(DecodedPieces(s)) = Len(s)
         /\ Decoded(s) = FlattenSeq(DecodedPieces(s))
         /\ Decoded(s) \in Seq(Plain)
<1>1. ASSUME NEW i \in 1..Len(s)
      PROVE  DecodedPieces(s)[i] \in Seq(Plain)
  <2>1. s[i] \in Bytes /\ "c" \in Plain /\ "?" \in Plain
    BY DEF Plain
  <2>2. s[i] # "h" /\ s[i] # "t" => s[i] \in Plain
    BY <2>1 DEF Plain
  <2> QED
    BY <2>1, <2>2 DEF DecodedPieces
<1>2. DecodedPieces(s) \in [1..Len(s) -> Seq(Plain)]
  BY <1>1 DEF DecodedPieces
<1>3. DecodedPieces(s) \in Seq(Seq(Plain)) /\ Len(DecodedPieces(s)) = Len(s)
  BY <1>2
<1>4. Decoded(s) = FlattenSeq(DecodedPieces(s))
  BY DEF Decoded, DecodedPieces
<1> QED
  BY <1>3, <1>4, FlattenType

LEMMA NormalizedType ==
  ASSUME NEW r \in Seq(Bytes)
  PROVE  Normalized(r) \in Seq(Bytes)
<1>1. CASE Len(r) < 2
  <2>1. SubSeq(r, 1, Len(r) - 2) = <<>>
    BY <1>1, SubSeqEmpty
  <2> QED
    BY <2>1, LineSplitterAssumption DEF Normalized
<1>2. CASE Len(r) >= 2
  <2>1. SubSeq(r, 1, Len(r) - 2) \in Seq(Bytes)
    BY <1>2, SubSeqProperties
  <2> QED
    BY <2>1, LineSplitterAssumption DEF Normalized
<1> QED
  BY <1>1, <1>2

\* Flattening twice, from the outside or from the inside.
Flattened(c) == [i \in 1..Len(c) |-> FlattenSeq(c[i])]

LEMMA FlattenedType ==
  ASSUME NEW A, NEW c \in Seq(Seq(Seq(A)))
  PROVE  /\ Flattened(c) \in Seq(Seq(A)) /\ Len(Flattened(c)) = Len(c)
         /\ \A i \in 1..Len(c) : Flattened(c)[i] = FlattenSeq(c[i])
<1>1. \A i \in 1..Len(c) : FlattenSeq(c[i]) \in Seq(A)
  BY FlattenType
<1> QED
  BY <1>1 DEF Flattened

LEMMA FlattenedAppend ==
  ASSUME NEW A, NEW c \in Seq(Seq(Seq(A))), NEW e \in Seq(Seq(A))
  PROVE  /\ Flattened(c) \in Seq(Seq(A))
         /\ Flattened(Append(c, e)) = Append(Flattened(c), FlattenSeq(e))
<1>2. Flattened(c) \in Seq(Seq(A)) /\ Len(Flattened(c)) = Len(c)
  BY FlattenedType
<1>3. FlattenSeq(e) \in Seq(A)
  BY FlattenType
<1>4. /\ Append(c, e) \in Seq(Seq(Seq(A)))
      /\ Len(Append(c, e)) = Len(c) + 1 /\ Len(c) \in Nat
      /\ \A i \in 1..Len(c) + 1 :
           Append(c, e)[i] = IF i <= Len(c) THEN c[i] ELSE e
  OBVIOUS
<1> DEFINE x == Flattened(Append(c, e))
           y == Append(Flattened(c), FlattenSeq(e))
<1>5. /\ x \in Seq(Seq(A)) /\ Len(x) = Len(c) + 1
      /\ \A i \in 1..Len(c) + 1 : x[i] = FlattenSeq(Append(c, e)[i])
  BY <1>4, FlattenedType
<1>6. /\ y \in Seq(Seq(A)) /\ Len(y) = Len(c) + 1
      /\ \A i \in 1..Len(c) + 1 :
           y[i] = IF i <= Len(c) THEN Flattened(c)[i] ELSE FlattenSeq(e)
  BY <1>2, <1>3
<1> HIDE DEF x, y
<1>7. ASSUME NEW i \in 1..Len(x)
      PROVE  x[i] = y[i]
  <2>1. i \in 1..Len(c) + 1
    BY <1>5
  <2>2. CASE i <= Len(c)
    <3>1. Append(c, e)[i] = c[i] /\ y[i] = Flattened(c)[i]
      BY <1>4, <1>6, <2>1, <2>2
    <3>2. Flattened(c)[i] = FlattenSeq(c[i])
      BY <1>4, <2>1, <2>2 DEF Flattened
    <3> QED
      BY <1>5, <2>1, <3>1, <3>2
  <2>3. CASE ~(i <= Len(c))
    <3>1. Append(c, e)[i] = e /\ y[i] = FlattenSeq(e)
      BY <1>4, <1>6, <2>1, <2>3
    <3> QED
      BY <1>5, <2>1, <3>1
  <2> QED
    BY <2>2, <2>3
<1>8. x = y
  BY <1>5, <1>6, <1>7, SeqEqual
<1> QED
  BY <1>2, <1>8 DEF x, y

LEMMA FlattenTwice ==
  ASSUME NEW A, NEW c \in Seq(Seq(Seq(A)))
  PROVE  FlattenSeq(FlattenSeq(c)) = FlattenSeq(Flattened(c))
<1> DEFINE S == {d \in Seq(Seq(Seq(A))) :
                   FlattenSeq(FlattenSeq(d)) = FlattenSeq(Flattened(d))}
<1>1. <<>> \in S
  <2>1. Flattened(<<>>) = <<>>
    BY DEF Flattened
  <2>2. FlattenSeq(FlattenSeq(<<>>)) = FlattenSeq(Flattened(<<>>))
    BY <2>1, FlattenEmpty, Zenon
  <2> QED
    BY <2>2
<1>2. ASSUME NEW d \in Seq(Seq(Seq(A))), NEW e \in Seq(Seq(A)), d \in S
      PROVE  Append(d, e) \in S
  <2>1. FlattenSeq(Append(d, e)) = FlattenSeq(d) \o e
    BY FlattenAppend
  <2>2. FlattenSeq(d) \in Seq(Seq(A))
    BY FlattenType
  <2>3. FlattenSeq(FlattenSeq(d) \o e) = FlattenSeq(FlattenSeq(d)) \o FlattenSeq(e)
    BY <2>2, FlattenConcat
  <2>4. /\ Flattened(d) \in Seq(Seq(A)) /\ FlattenSeq(e) \in Seq(A)
        /\ Flattened(Append(d, e)) = Append(Flattened(d), FlattenSeq(e))
    BY FlattenedAppend, FlattenType
  <2>5. FlattenSeq(Append(Flattened(d), FlattenSeq(e)))
          = FlattenSeq(Flattened(d)) \o FlattenSeq(e)
    BY <2>4, FlattenAppend
  <2>6. FlattenSeq(FlattenSeq(d)) = FlattenSeq(Flattened(d))
    BY <1>2
  <2>7. FlattenSeq(FlattenSeq(Append(d, e))) = FlattenSeq(Flattened(Append(d, e)))
    BY <2>1, <2>3, <2>4, <2>5, <2>6, Zenon
  <2>8. Append(d, e) \in Seq(Seq(Seq(A)))
    OBVIOUS
  <2> QED
    BY <2>7, <2>8
<1> HIDE DEF S
<1>3. Seq(Seq(Seq(A))) \subseteq S
  BY <1>1, <1>2, InductiveSequences
<1> QED
  BY <1>3 DEF S

\* What one record becomes in the sink, and the calls that write it there.
Stamp == IF options.precision # "None" THEN <<"[ts]">> ELSE <<>>
RecordText(r) == Stamp \o Decoded(Normalized(r))
Texts(records) == [i \in 1..Len(records) |-> RecordText(records[i])]

RecordCalls(records) ==
  [i \in 1..Len(records) |->
    (IF options.precision # "None" THEN << <<"[ts]">> >> ELSE <<>>)
      \o <<Decoded(Normalized(records[i]))>>
      \o (IF options.auto_flush THEN <<flush>> ELSE <<>>)]

LEMMA RecordTextType ==
  ASSUME NEW r \in Seq(Bytes)
  PROVE  /\ Decoded(Normalized(r)) \in Seq(TextChars)
         /\ Stamp \in Seq(TextChars)
         /\ RecordText(r) \in Seq(TextChars)
<1>1. Decoded(Normalized(r)) \in Seq(Plain)
  BY NormalizedType, DecodedInPieces
<1>2. Seq(Plain) \subseteq Seq(TextChars)
  BY CharsOfText
<1>3. Stamp \in Seq(TextChars)
  <2>1. "[ts]" \in TextChars
    BY DEF TextChars
  <2> QED
    BY <2>1 DEF Stamp
<1>4. Decoded(Normalized(r)) \in Seq(TextChars)
  BY <1>1, <1>2
<1> HIDE DEF Stamp
<1> QED
  BY <1>3, <1>4 DEF RecordText

LEMMA TextsType ==
  ASSUME NEW records \in Seq(Seq(Bytes))
  PROVE  /\ Texts(records) \in Seq(Seq(TextChars))
         /\ Len(Texts(records)) = Len(records)
         /\ FlattenSeq(Texts(records)) \in Seq(TextChars)
<1>1. \A i \in 1..Len(records) : RecordText(records[i]) \in Seq(TextChars)
  BY RecordTextType
<1>2. /\ Texts(records) \in Seq(Seq(TextChars))
      /\ Len(Texts(records)) = Len(records)
  BY <1>1 DEF Texts
<1> QED
  BY <1>2, FlattenType

\* The calls for one record write its text; with auto_flush the last flushes.
LEMMA CallsOfARecord ==
  ASSUME NEW records \in Seq(Seq(Bytes)), NEW i \in 1..Len(records)
  PROVE  LET c == RecordCalls(records)[i]
         IN /\ c \in Seq(Seq(TextChars)) /\ c # <<>>
            /\ FlattenSeq(c) = RecordText(records[i])
            /\ options.auto_flush => c[Len(c)] = flush
<1> DEFINE text == Decoded(Normalized(records[i]))
           a == IF options.precision # "None" THEN << <<"[ts]">> >> ELSE <<>>
           z == IF options.auto_flush THEN <<flush>> ELSE <<>>
           c == RecordCalls(records)[i]
<1>1. records[i] \in Seq(Bytes)
  OBVIOUS
<1>2. text \in Seq(TextChars) /\ Stamp \in Seq(TextChars)
  BY <1>1, RecordTextType
<1>3. c = a \o <<text>> \o z
  BY DEF RecordCalls
<1>4. RecordText(records[i]) = Stamp \o text
  BY DEF RecordText
<1>5. a \in Seq(Seq(TextChars)) /\ FlattenSeq(a) = Stamp
  <2>1. CASE options.precision # "None"
    <3>1. a = <<Stamp>>
      BY <2>1 DEF Stamp
    <3>2. <<Stamp>> \in Seq(Seq(TextChars)) /\ FlattenSeq(<<Stamp>>) = Stamp
      <4> HIDE DEF Stamp
      <4> QED
        BY <1>2, FlattenSingle
    <3> QED
      BY <3>1, <3>2, Zenon
  <2>2. CASE ~(options.precision # "None")
    <3>1. a = <<>> /\ Stamp = <<>>
      BY <2>2 DEF Stamp
    <3>2. <<>> \in Seq(Seq(TextChars))
      OBVIOUS
    <3> QED
      BY <3>1, <3>2, FlattenEmpty, Zenon
  <2> QED
    BY <2>1, <2>2
<1>6. z \in Seq(Seq(TextChars)) /\ FlattenSeq(z) = <<>>
  <2>1. <<>> \in Seq(TextChars) /\ <<>> \in Seq(Seq(TextChars))
    OBVIOUS
  <2>2. << <<>> >> \in Seq(Seq(TextChars)) /\ FlattenSeq(<< <<>> >>) = <<>>
    BY <2>1, FlattenSingle, SingleType, Zenon
  <2>3. CASE options.auto_flush
    <3>1. z = << <<>> >>
      BY <2>3 DEF flush
    <3> QED
      BY <2>2, <3>1, Zenon
  <2>4. CASE ~options.auto_flush
    <3>1. z = <<>>
      BY <2>4
    <3> QED
      BY <2>1, <3>1, FlattenEmpty, Zenon
  <2> QED
    BY <2>3, <2>4
<1>7. <<text>> \in Seq(Seq(TextChars)) /\ FlattenSeq(<<text>>) = text
  <2> HIDE DEF text
  <2> QED
    BY <1>2, FlattenSingle
<1>8. options.auto_flush => z = <<flush>>
  OBVIOUS
<1> HIDE DEF text, a, z, c, Stamp
<1>9. /\ a \o <<text>> \in Seq(Seq(TextChars))
      /\ FlattenSeq(a \o <<text>>) = Stamp \o text
  <2>1. FlattenSeq(a \o <<text>>) = FlattenSeq(a) \o FlattenSeq(<<text>>)
    BY <1>5, <1>7, FlattenConcat
  <2>2. a \o <<text>> \in Seq(Seq(TextChars))
    BY <1>5, <1>7
  <2> QED
    BY <1>5, <1>7, <2>1, <2>2, Zenon
<1>10. /\ c \in Seq(Seq(TextChars))
       /\ FlattenSeq(c) = (Stamp \o text) \o <<>>
  <2>1. FlattenSeq((a \o <<text>>) \o z) = FlattenSeq(a \o <<text>>) \o FlattenSeq(z)
    BY <1>6, <1>9, FlattenConcat
  <2>2. (a \o <<text>>) \o z \in Seq(Seq(TextChars))
    BY <1>6, <1>9
  <2> QED
    BY <1>3, <1>6, <1>9, <2>1, <2>2, Zenon
<1>11. Stamp \o text \in Seq(TextChars)
  BY <1>2
<1>12. (Stamp \o text) \o <<>> = Stamp \o text
  BY <1>11
<1>13. c # <<>>
  <2>1. Len(c) = Len(a) + 1 + Len(z) /\ Len(a) \in Nat /\ Len(z) \in Nat
    BY <1>3, <1>5, <1>6, <1>7, <1>9
  <2> QED
    BY <1>10, <2>1
<1>14. options.auto_flush => c[Len(c)] = flush
  <2> SUFFICES ASSUME options.auto_flush
               PROVE  c[Len(c)] = flush
    OBVIOUS
  <2>1. c = (a \o <<text>>) \o <<flush>>
    BY <1>3, <1>8
  <2>2. Len(c) = Len(a \o <<text>>) + 1
    BY <1>9, <2>1
  <2> QED
    BY <1>9, <2>1, <2>2
<1>15. FlattenSeq(c) = RecordText(records[i])
  BY <1>4, <1>10, <1>12, Zenon
<1> QED
  BY <1>10, <1>13, <1>14, <1>15 DEF c

\* The calls of process() write the texts of the records, in order; with
\* auto_flush the last of them is a flush.
LEMMA CallsWriteTheRecords ==
  ASSUME NEW records \in Seq(Seq(Bytes))
  PROVE  /\ Calls(records) \in Seq(Seq(TextChars))
         /\ FlattenSeq(Calls(records)) = FlattenSeq(Texts(records))
         /\ options.auto_flush /\ Calls(records) # <<>> =>
              Calls(records)[Len(Calls(records))] = flush
<1> DEFINE c == RecordCalls(records)
<1>1. Calls(records) = FlattenSeq(c)
  BY DEF Calls, RecordCalls
<1>2. c \in Seq(Seq(Seq(TextChars))) /\ Len(c) = Len(records)
  <2>1. \A i \in 1..Len(records) : c[i] \in Seq(Seq(TextChars))
    BY CallsOfARecord
  <2>2. c \in [1..Len(records) -> Seq(Seq(TextChars))]
    <3>1. c = [i \in 1..Len(records) |-> c[i]]
      BY DEF RecordCalls
    <3> HIDE DEF c
    <3> QED
      BY <2>1, <3>1
  <2> HIDE DEF c
  <2>3. Len(records) \in Nat
    OBVIOUS
  <2> QED
    BY <2>2, <2>3, FunctionIsSequence
<1>3. Flattened(c) = Texts(records)
  <2>1. \A i \in 1..Len(records) : FlattenSeq(c[i]) = RecordText(records[i])
    BY CallsOfARecord
  <2> HIDE DEF c
  <2> QED
    BY <1>2, <2>1 DEF Flattened, Texts
<1>4. ASSUME options.auto_flush, Calls(records) # <<>>
      PROVE  Calls(records)[Len(Calls(records))] = flush
  <2>1. c # <<>>
    BY <1>1, <1>4, FlattenEmpty, Zenon
  <2>2. Len(c) \in 1..Len(records)
    <3> HIDE DEF c
    <3> QED
      BY <1>2, <2>1
  <2> DEFINE f == FlattenSeq(SubSeq(c, 1, Len(c) - 1))
             e == c[Len(c)]
  <2>3. e \in Seq(Seq(TextChars)) /\ e # <<>> /\ e[Len(e)] = flush
    BY <1>4, <2>2, CallsOfARecord
  <2> HIDE DEF c
  <2>4. FlattenSeq(c) = f \o e
    BY <1>2, <2>1, FlattenLast
  <2>5. f \in Seq(Seq(TextChars))
    <3>1. Len(c) - 1 \in 0..Len(c)
      BY <1>2, <2>2
    <3>2. SubSeq(c, 1, Len(c) - 1) \in Seq(Seq(Seq(TextChars)))
      BY <1>2, <3>1, Start
    <3> QED
      BY <3>2, FlattenType
  <2> HIDE DEF e, f
  <2>6. (f \o e)[Len(f \o e)] = e[Len(e)]
    BY <2>3, <2>5
  <2> QED
    BY <1>1, <2>3, <2>4, <2>6
<1> HIDE DEF c
<1>5. FlattenSeq(c) \in Seq(Seq(TextChars))
  BY <1>2, FlattenType
<1>6. FlattenSeq(FlattenSeq(c)) = FlattenSeq(Flattened(c))
  BY <1>2, FlattenTwice
<1> QED
  BY <1>1, <1>3, <1>4, <1>5, <1>6, Zenon

-----------------------------------------------------------------------------
(* Calls on a sink that may fail.                                              *)

\* What is written is a first part of the text of the calls: all of it unless
\* one of them raised, and then all of it is flushed if the last of them was.
LEMMA MakeEffect ==
  ASSUME NEW A, A \subseteq Chars, NEW calls \in Seq(Seq(A)), NEW next,
         sink \in Seq(Chars), flushed \in 0..Len(sink), lost \in BOOLEAN,
         Make(calls, next)
  PROVE  \E written \in Seq(A), rest \in Seq(A) :
           /\ sink' = sink \o written
           /\ FlattenSeq(calls) = written \o rest
           /\ flushed' \in 0..Len(sink')
           /\ phase' = next \/ (phase' = "failed" /\ lost' /\ next # "disabled")
           /\ lost' \in BOOLEAN
           /\ lost => lost'
           /\ lost' => lost \/ phase' # "active"
           /\ ~lost' => /\ phase' = next
                        /\ rest = <<>>
                        /\ calls = <<>> => flushed' = flushed
                        /\ calls # <<>> /\ calls[Len(calls)] = flush
                             => flushed' = Len(sink')
<1>1. PICK n \in IF SinkMayFail THEN 0..Len(calls) ELSE {Len(calls)} :
        LET made == SubSeq(calls, 1, n)
            flushes == {i \in 1..n : made[i] = flush}
        IN /\ sink' = sink \o FlattenSeq(made)
           /\ flushed' = IF flushes = {} THEN flushed
                         ELSE Len(sink) + Len(FlattenSeq(SubSeq(made, 1, Max(flushes))))
           /\ phase' = IF n = Len(calls) \/ next = "disabled" THEN next ELSE "failed"
           /\ lost' = (lost \/ n < Len(calls))
  BY DEF Make
<1>2. n \in 0..Len(calls) /\ Len(calls) \in Nat
  OBVIOUS
<1> DEFINE made == SubSeq(calls, 1, n)
           flushes == {i \in 1..n : made[i] = flush}
           written == FlattenSeq(made)
<1>3. /\ sink' = sink \o written
      /\ flushed' = IF flushes = {} THEN flushed
                    ELSE Len(sink) + Len(FlattenSeq(SubSeq(made, 1, Max(flushes))))
      /\ phase' = IF n = Len(calls) \/ next = "disabled" THEN next ELSE "failed"
      /\ lost' = (lost \/ n < Len(calls))
  BY <1>1
<1>4. /\ made \in Seq(Seq(A)) /\ Len(made) = n
      /\ \A k \in 1..n : made[k] = calls[k]
  BY <1>2, Start
<1>5. /\ written \in Seq(A)
      /\ StartsWith(FlattenSeq(calls), written, A)
  BY <1>2, FlattenStart, Zenon
<1>6. PICK rest \in Seq(A) : FlattenSeq(calls) = written \o rest
  BY <1>5, Zenon DEF StartsWith
<1>7. n = Len(calls) => made = calls
  BY SubSeqFull
<1> HIDE DEF made
<1>8. flushes # {} => /\ Max(flushes) \in flushes
                      /\ \A y \in flushes : Max(flushes) >= y
  <2>1. flushes \subseteq Nat /\ n \in Nat /\ \A y \in flushes : y <= n
    BY <1>2
  <2> HIDE DEF flushes
  <2> QED
    BY <1>2, <2>1, MaxOfSet, Zenon
<1>9. \A m \in 0..n : /\ Len(FlattenSeq(SubSeq(made, 1, m))) \in 0..Len(written)
                      /\ m = n => Len(FlattenSeq(SubSeq(made, 1, m))) = Len(written)
  <2> SUFFICES ASSUME NEW m \in 0..n
               PROVE  /\ Len(FlattenSeq(SubSeq(made, 1, m))) \in 0..Len(written)
                      /\ m = n => Len(FlattenSeq(SubSeq(made, 1, m))) = Len(written)
    OBVIOUS
  <2>1. /\ FlattenSeq(SubSeq(made, 1, m)) \in Seq(A)
        /\ StartsWith(written, FlattenSeq(SubSeq(made, 1, m)), A)
    <3>1. m \in 0..Len(made)
      BY <1>2, <1>4
    <3> QED
      BY <1>4, <3>1, FlattenStart, Zenon
  <2>2. m = n => SubSeq(made, 1, m) = made
    BY <1>4, SubSeqFull
  <2> DEFINE p == FlattenSeq(SubSeq(made, 1, m))
  <2>3. m = n => p = written
    BY <2>2
  <2> HIDE DEF p, written
  <2>4. Len(p) \in 0..Len(written)
    <3>1. p \in Seq(A) /\ StartsWith(written, p, A)
      BY <2>1 DEF p
    <3> QED
      BY <3>1 DEF StartsWith
  <2> QED
    BY <2>3, <2>4 DEF p
<1> HIDE DEF written
<1>10. /\ Len(sink') = Len(sink) + Len(written)
       /\ Len(sink) \in Nat /\ Len(written) \in Nat
  BY <1>3, <1>5
<1>11. flushed' \in 0..Len(sink')
  <2>1. CASE flushes = {}
    <3> HIDE DEF flushes
    <3> QED
      BY <1>3, <1>10, <2>1
  <2>2. CASE flushes # {}
    <3>1. Max(flushes) \in 0..n
      BY <1>2, <1>8, <2>2
    <3> HIDE DEF flushes
    <3>2. flushed' = Len(sink) + Len(FlattenSeq(SubSeq(made, 1, Max(flushes))))
      BY <1>3, <2>2
    <3>3. Len(FlattenSeq(SubSeq(made, 1, Max(flushes)))) \in 0..Len(written)
      BY <1>9, <3>1
    <3> QED
      BY <1>10, <3>2, <3>3
  <2> QED
    BY <2>1, <2>2
<1>12. ASSUME ~lost'
       PROVE  /\ n = Len(calls) /\ phase' = next /\ rest = <<>>
              /\ calls = <<>> => flushed' = flushed
              /\ calls # <<>> /\ calls[Len(calls)] = flush
                   => flushed' = Len(sink')
  <2>1. n = Len(calls)
    <3>1. ~(n < Len(calls))
      BY <1>3, <1>12, Zenon
    <3> QED
      BY <1>2, <3>1
  <2>2. phase' = next
    BY <1>3, <2>1
  <2>3. rest = <<>>
    <3>1. written = written \o rest
      BY <1>6, <1>7, <2>1, Zenon DEF written
    <3> QED
      BY <1>5, <3>1, ConcatSimplifications
  <2>4. ASSUME calls = <<>>
        PROVE  flushed' = flushed
    <3>1. n = 0
      BY <2>1, <2>4
    <3>2. flushes = {}
      BY <3>1
    <3> HIDE DEF flushes
    <3> QED
      BY <1>3, <3>2
  <2>5. ASSUME calls # <<>>, calls[Len(calls)] = flush
        PROVE  flushed' = Len(sink')
    <3>1. n # 0 /\ n \in 1..n
      BY <1>2, <2>1, <2>5
    <3>2. made[n] = flush
      BY <1>4, <2>1, <2>5, <3>1
    <3>3. n \in flushes
      BY <3>1, <3>2
    <3>4. Max(flushes) = n
      <4>1. Max(flushes) \in flushes /\ Max(flushes) >= n
        BY <1>8, <3>3, Zenon
      <4>2. Max(flushes) \in 1..n
        BY <4>1
      <4> QED
        BY <1>2, <4>1, <4>2
    <3>5. flushes # {}
      BY <3>3
    <3> HIDE DEF flushes
    <3>6. flushed' = Len(sink) + Len(FlattenSeq(SubSeq(made, 1, n)))
      BY <1>3, <3>4, <3>5, Zenon
    <3>7. Len(FlattenSeq(SubSeq(made, 1, n))) = Len(written)
      BY <1>2, <1>9
    <3> QED
      BY <1>10, <3>6, <3>7
  <2> QED
    BY <2>1, <2>2, <2>3, <2>4, <2>5
<1>13. /\ phase' = next \/ (phase' = "failed" /\ lost' /\ next # "disabled")
       /\ lost' \in BOOLEAN
       /\ lost => lost'
       /\ lost' => lost \/ n < Len(calls)
  <2> HIDE DEF flushes
  <2>1. n # Len(calls) => n < Len(calls)
    BY <1>2
  <2> QED
    BY <1>3, <2>1, Zenon
<1>14. n < Len(calls) => phase' # "active"
  <2> HIDE DEF flushes
  <2> QED
    BY <1>2, <1>3
<1> QED
  BY <1>3, <1>5, <1>6, <1>11, <1>12, <1>13, <1>14

-----------------------------------------------------------------------------
(* The monitor: what its sink holds between two calls.                         *)

\* A record is not empty and only its last byte may be a newline.
WellFormed(r) == r # <<>> /\ \A k \in 1..Len(r) - 1 : r[k] # "n"

\* The sink holds the texts of the records in order, all of them while nothing
\* has raised, a first part of them after a failed call, and the footer only at
\* the end.
MonitorIInv ==
  /\ SplitterIInv /\ TypeOK
  /\ \A i \in 1..Len(emitted) : WellFormed(emitted[i])
  /\ phase = "active" => ~lost
  /\ phase = "failed" => lost
  /\ phase # "disabled" => /\ sink \in Seq(TextChars)
                           /\ StartsWith(FlattenSeq(Texts(emitted)), sink, TextChars)
  /\ phase = "disabled" => Retained = <<>>
  /\ ~lost => /\ sink = FlattenSeq(Texts(emitted)) \o Footer
              /\ options.auto_flush \/ phase = "disabled" => flushed = Len(sink)

LEMMA RecordsStayWellFormed ==
  ASSUME SplitterIInv, \A i \in 1..Len(emitted) : WellFormed(emitted[i]),
         NEW new, Splits(new)
  PROVE  \A i \in 1..Len(emitted') : WellFormed(emitted'[i])
<1>1. /\ emitted \in Seq(Seq(Bytes)) /\ new \in Seq(Seq(Bytes))
      /\ emitted' = emitted \o new
      /\ \A i \in 1..Len(new) : IsRecord(new[i])
  BY DEF Splits, SplitterIInv, SplitterTypeOK
<1>2. ASSUME NEW j \in 1..Len(new)
      PROVE  WellFormed(new[j])
  <2>1. new[j] \in Seq(Bytes) /\ IsRecord(new[j])
    BY <1>1
  <2> QED
    BY <2>1 DEF IsRecord, IsLine, WellFormed
<1>3. ASSUME NEW i \in 1..Len(emitted')
      PROVE  WellFormed(emitted'[i])
  <2>1. CASE i <= Len(emitted)
    <3>1. i \in 1..Len(emitted) /\ emitted'[i] = emitted[i]
      BY <1>1, <2>1
    <3> QED
      BY <3>1
  <2>2. CASE ~(i <= Len(emitted))
    <3>1. /\ i - Len(emitted) \in 1..Len(new)
          /\ emitted'[i] = new[i - Len(emitted)]
      BY <1>1, <2>2
    <3> QED
      BY <1>2, <3>1
  <2> QED
    BY <2>1, <2>2
<1> QED
  BY <1>3

\* The texts of the records after a call.
LEMMA TextsStep ==
  ASSUME SplitterIInv, NEW new, Splits(new), options' = options
  PROVE  /\ FlattenSeq(Texts(emitted))'
              = FlattenSeq(Texts(emitted)) \o FlattenSeq(Texts(new))
         /\ FlattenSeq(Texts(emitted)) \in Seq(TextChars)
         /\ FlattenSeq(Texts(new)) \in Seq(TextChars)
         /\ new \in Seq(Seq(Bytes))
<1>1. /\ emitted \in Seq(Seq(Bytes)) /\ new \in Seq(Seq(Bytes))
      /\ emitted' = emitted \o new /\ emitted' \in Seq(Seq(Bytes))
      /\ Len(emitted') = Len(emitted) + Len(new)
      /\ \A i \in 1..Len(emitted) : emitted'[i] = emitted[i]
      /\ \A i \in 1..Len(new) : emitted'[Len(emitted) + i] = new[i]
      /\ Len(emitted) \in Nat /\ Len(new) \in Nat
  BY DEF Splits, SplitterIInv, SplitterTypeOK
<1>2. Texts(emitted)' = Texts(emitted')
  BY Zenon DEF Texts, RecordText, Stamp
<1> DEFINE f == Texts(emitted)
           g == Texts(new)
           h == Texts(emitted')
<1>3. /\ f \in Seq(Seq(TextChars)) /\ Len(f) = Len(emitted)
      /\ g \in Seq(Seq(TextChars)) /\ Len(g) = Len(new)
      /\ h \in Seq(Seq(TextChars)) /\ Len(h) = Len(emitted')
      /\ FlattenSeq(f) \in Seq(TextChars) /\ FlattenSeq(g) \in Seq(TextChars)
  BY <1>1, TextsType
<1>4. \A i \in 1..Len(f) : h[i] = f[i]
  BY <1>1, <1>3 DEF Texts
<1>5. \A i \in 1..Len(g) : h[Len(f) + i] = g[i]
  BY <1>1, <1>3 DEF Texts
<1>6. Len(h) = Len(f) + Len(g)
  BY <1>1, <1>3
<1> HIDE DEF f, g, h
<1>7. FlattenSeq(h) = FlattenSeq(f) \o FlattenSeq(g)
  BY <1>3, <1>4, <1>5, <1>6, FlattenJoined
<1>8. FlattenSeq(Texts(emitted))' = FlattenSeq(h)
  BY <1>2, Zenon DEF h
<1> QED
  BY <1>1, <1>3, <1>7, <1>8, Zenon DEF f, g

LEMMA MonitorProcess ==
  ASSUME MonitorIInv, Process
  PROVE  MonitorIInv'
<1> DEFINE text == FlattenSeq(Texts(emitted))
<1>1. /\ SplitterIInv /\ TypeOK /\ phase = "active" /\ ~lost
      /\ sink \in Seq(TextChars) /\ sink \in Seq(Chars)
      /\ flushed \in 0..Len(sink) /\ lost \in BOOLEAN
      /\ \A i \in 1..Len(emitted) : WellFormed(emitted[i])
      /\ sink = text \o Footer
      /\ options.auto_flush => flushed = Len(sink)
      /\ Fed /\ Make(Calls(NewRecords), "active") /\ options' = options
  BY DEF MonitorIInv, TypeOK, Process, Fed
<1>2. SplitterIInv' /\ \E new : Splits(new)
  BY <1>1, SplitterStep
<1>3. PICK new : Splits(new)
  BY <1>2
<1>4. \A i \in 1..Len(emitted') : WellFormed(emitted'[i])
  BY <1>1, <1>3, RecordsStayWellFormed
<1> DEFINE more == FlattenSeq(Texts(new))
<1>5. /\ text' = text \o more
      /\ text \in Seq(TextChars) /\ more \in Seq(TextChars)
      /\ new \in Seq(Seq(Bytes))
  BY <1>1, <1>3, TextsStep
<1> DEFINE calls == Calls(new)
<1>6. /\ calls \in Seq(Seq(TextChars)) /\ FlattenSeq(calls) = more
      /\ options.auto_flush /\ calls # <<>> => calls[Len(calls)] = flush
  BY <1>5, CallsWriteTheRecords
<1>7. Make(calls, "active")
  BY <1>1, <1>3, Zenon DEF Splits
<1> HIDE DEF calls
<1>8. PICK written \in Seq(TextChars), rest \in Seq(TextChars) :
           /\ sink' = sink \o written
           /\ FlattenSeq(calls) = written \o rest
           /\ flushed' \in 0..Len(sink')
           /\ phase' = "active" \/ (phase' = "failed" /\ lost' /\ "active" # "disabled")
           /\ lost' \in BOOLEAN
           /\ lost => lost'
           /\ lost' => lost \/ phase' # "active"
           /\ ~lost' => /\ phase' = "active"
                        /\ rest = <<>>
                        /\ calls = <<>> => flushed' = flushed
                        /\ calls # <<>> /\ calls[Len(calls)] = flush
                             => flushed' = Len(sink')
  <2>1. TextChars \subseteq Chars
    BY CharsOfText
  <2> QED
    BY <1>1, <1>6, <1>7, <2>1, MakeEffect
<1> HIDE DEF text, more
<1>9. sink = text
  <2>1. Footer = <<>>
    BY <1>1 DEF Footer
  <2>2. text \o <<>> = text
    BY <1>5
  <2> QED
    BY <1>1, <2>1, <2>2, Zenon
<1>10. sink' \in Seq(TextChars) /\ sink' \in Seq(Chars)
  <2>1. sink' \in Seq(TextChars)
    BY <1>1, <1>8
  <2> QED
    BY <2>1, CharsOfText
<1>11. text' = sink' \o rest
  <2>1. text' = sink \o (written \o rest)
    BY <1>5, <1>6, <1>8, <1>9, Zenon
  <2>2. (sink \o written) \o rest = sink \o (written \o rest)
    <3>1. /\ sink \in Seq(TextChars) /\ written \in Seq(TextChars)
          /\ rest \in Seq(TextChars)
      BY <1>1, <1>8
    <3> QED
      BY <3>1, ConcatAssociative
  <2> QED
    BY <1>8, <2>1, <2>2, Zenon
<1>12. StartsWith(text', sink', TextChars)
  BY <1>8, <1>11, Zenon DEF StartsWith
<1>13. phase' \in {"active", "failed"}
  BY <1>8
<1>14. TypeOK'
  BY <1>1, <1>2, <1>8, <1>10, <1>13 DEF TypeOK, SplitterIInv
<1>15. ASSUME ~lost'
       PROVE  /\ sink' = text' \o Footer'
              /\ options'.auto_flush \/ phase' = "disabled" => flushed' = Len(sink')
  <2>1. phase' = "active" /\ rest = <<>>
    BY <1>8, <1>15
  <2>2. sink' \o <<>> = sink'
    BY <1>10
  <2>3. text' = sink'
    BY <1>11, <2>1, <2>2, Zenon
  <2>4. Footer' = <<>>
    BY <2>1 DEF Footer
  <2>5. sink' = text' \o Footer'
    BY <2>2, <2>3, <2>4, Zenon
  <2>6. ASSUME options.auto_flush
        PROVE  flushed' = Len(sink')
    <3>1. CASE calls = <<>>
      <4>1. written \o rest = <<>>
        BY <1>8, <3>1, FlattenEmpty, Zenon
      <4>2. written = <<>>
        BY <1>8, <4>1, ConcatEmptySeq
      <4>3. sink' = sink
        BY <1>1, <1>8, <4>2
      <4> QED
        BY <1>1, <1>8, <1>15, <2>6, <3>1, <4>3
    <3>2. CASE calls # <<>>
      BY <1>6, <1>8, <1>15, <2>6, <3>2
    <3> QED
      BY <3>1, <3>2
  <2> QED
    BY <1>1, <2>1, <2>5, <2>6
<1>16. /\ phase' = "active" => ~lost'
       /\ phase' = "failed" => lost'
  BY <1>1, <1>8
<1> QED
  BY <1>2, <1>4, <1>10, <1>12, <1>13, <1>14, <1>15, <1>16 DEF MonitorIInv, text

\* Nothing is retained after feed(b"").
LEMMA NothingRetained ==
  ASSUME SplitterIInv, FeedNothing
  PROVE  Retained' = <<>>
<1>1. CASE Flush
  BY <1>1, FlushSplits DEF SplitterIInv
<1>2. CASE start = Len(buf) /\ UNCHANGED splitterVars
  <2>1. buf' = buf /\ start' = Len(buf)
    BY <1>2 DEF splitterVars
  <2>2. Retained' = SubSeq(buf, Len(buf) + 1, Len(buf))
    BY <2>1, Zenon DEF Retained, After
  <2>3. Len(buf) \in Int
    BY DEF SplitterIInv, SplitterTypeOK
  <2> QED
    BY <2>2, <2>3, SubSeqEmpty
<1> QED
  BY <1>1, <1>2 DEF FeedNothing

\* The calls of on_disable() after those for the tail.
Ending == <<flush>> \o (IF options.append_disable_marker
                          THEN << <<"[footer]">>, flush >> ELSE <<>>)
Marker == IF options.append_disable_marker THEN <<"[footer]">> ELSE <<>>

LEMMA EndingWritesTheMarker ==
  /\ Ending \in Seq(Seq(Chars)) /\ FlattenSeq(Ending) = Marker
  /\ Ending # <<>> /\ Ending[Len(Ending)] = flush
<1>1. "[footer]" \in Chars
  BY DEF Chars
<1> DEFINE m == <<"[footer]">>
           e == <<>>
<1>2. m \in Seq(Chars) /\ e \in Seq(Chars) /\ m \o e = m /\ e \o m = m /\ e = flush
  BY <1>1 DEF flush
<1> HIDE DEF m, e
<1>3. <<e>> \in Seq(Seq(Chars)) /\ FlattenSeq(<<e>>) = e
  BY <1>2, SingleType, FlattenSingle, Zenon
<1>4. <<m>> \in Seq(Seq(Chars)) /\ FlattenSeq(<<m>>) = m
  BY <1>2, SingleType, FlattenSingle, Zenon
<1>5. CASE options.append_disable_marker
  <2>1. Ending = Append(Append(<<e>>, m), e)
    <3>1. Ending = <<e>> \o <<m, e>>
      BY <1>2, <1>5, Zenon DEF Ending, m
    <3> QED
      BY <3>1
  <2>2. Append(<<e>>, m) \in Seq(Seq(Chars))
    BY <1>2, <1>3
  <2>3. FlattenSeq(Append(<<e>>, m)) = FlattenSeq(<<e>>) \o m
    BY <1>2, <1>3, FlattenAppend
  <2>4. FlattenSeq(Ending) = FlattenSeq(Append(<<e>>, m)) \o e
    BY <1>2, <2>1, <2>2, FlattenAppend, Zenon
  <2>5. FlattenSeq(Ending) = m
    BY <1>2, <1>3, <2>3, <2>4, Zenon
  <2>6. Marker = m
    BY <1>5 DEF Marker, m
  <2>7. Len(Ending) = 3 /\ Ending[3] = e /\ Ending \in Seq(Seq(Chars))
    BY <1>2, <2>1, <2>2
  <2>8. Ending # <<>>
    BY <2>7
  <2> QED
    BY <1>2, <2>5, <2>6, <2>7, <2>8
<1>6. CASE ~options.append_disable_marker
  <2>1. Ending = <<e>>
    <3>1. Ending = <<e>> \o <<>>
      BY <1>2, <1>6, Zenon DEF Ending
    <3> QED
      BY <3>1
  <2>2. Marker = e
    BY <1>6 DEF Marker, e
  <2>3. Len(<<e>>) = 1 /\ <<e>>[1] = e
    OBVIOUS
  <2>4. <<e>> # <<>>
    BY <2>3
  <2> QED
    BY <1>2, <1>3, <2>1, <2>2, <2>3, <2>4
<1> QED
  BY <1>5, <1>6

LEMMA MonitorOnDisable ==
  ASSUME MonitorIInv, OnDisable
  PROVE  MonitorIInv'
<1> DEFINE text == FlattenSeq(Texts(emitted))
<1>1. /\ SplitterIInv /\ TypeOK /\ phase \in {"active", "failed"}
      /\ sink \in Seq(Chars)
      /\ flushed \in 0..Len(sink) /\ lost \in BOOLEAN
      /\ \A i \in 1..Len(emitted) : WellFormed(emitted[i])
      /\ phase = "failed" => lost
      /\ ~lost => sink = text \o Footer
      /\ FeedNothing /\ Fed /\ options' = options
  BY DEF MonitorIInv, TypeOK, OnDisable, Fed
<1>2. SplitterIInv' /\ \E new : Splits(new)
  BY <1>1, SplitterStep
<1>3. PICK new : Splits(new)
  BY <1>2
<1>4. \A i \in 1..Len(emitted') : WellFormed(emitted'[i])
  BY <1>1, <1>3, RecordsStayWellFormed
<1> DEFINE more == FlattenSeq(Texts(new))
<1>5. /\ text' = text \o more
      /\ text \in Seq(TextChars) /\ more \in Seq(TextChars)
      /\ new \in Seq(Seq(Bytes))
  BY <1>1, <1>3, TextsStep
<1>6. /\ Calls(new) \in Seq(Seq(TextChars)) /\ FlattenSeq(Calls(new)) = more
  BY <1>5, CallsWriteTheRecords
<1> HIDE DEF text, more
<1>7. /\ text \in Seq(Chars) /\ more \in Seq(Chars) /\ Calls(new) \in Seq(Seq(Chars))
  <2>1. /\ Seq(TextChars) \subseteq Seq(Chars)
        /\ Seq(Seq(TextChars)) \subseteq Seq(Seq(Chars))
    BY CharsOfText
  <2> QED
    BY <1>5, <1>6, <2>1
<1> DEFINE calls == Calls(new) \o Ending
<1>8. /\ calls \in Seq(Seq(Chars)) /\ FlattenSeq(calls) = more \o Marker
      /\ calls # <<>> /\ calls[Len(calls)] = flush
  <2>1. calls \in Seq(Seq(Chars))
    BY <1>7, EndingWritesTheMarker
  <2>2. FlattenSeq(calls) = FlattenSeq(Calls(new)) \o FlattenSeq(Ending)
    BY <1>7, EndingWritesTheMarker, FlattenConcat
  <2>3. Len(calls) = Len(Calls(new)) + Len(Ending)
    BY <1>7, EndingWritesTheMarker
  <2>4. Len(Ending) >= 1 /\ Len(Ending) \in Nat /\ Len(Calls(new)) \in Nat
    BY <1>7, EndingWritesTheMarker
  <2>5. calls # <<>>
    BY <2>1, <2>3, <2>4
  <2>6. calls[Len(calls)] = Ending[Len(Ending)]
    BY <1>7, <2>3, <2>4, EndingWritesTheMarker
  <2> QED
    BY <1>6, <2>1, <2>2, <2>5, <2>6, EndingWritesTheMarker, Zenon
<1>9. Make(calls, "disabled")
  <2>1. Make(Calls(new) \o <<flush>>
               \o (IF options.append_disable_marker
                     THEN << <<"[footer]">>, flush >> ELSE <<>>), "disabled")
    BY <1>3, Zenon DEF OnDisable, Splits
  <2> DEFINE z == IF options.append_disable_marker
                    THEN << <<"[footer]">>, flush >> ELSE <<>>
  <2>2. z \in Seq(Seq(Chars)) /\ <<flush>> \in Seq(Seq(Chars))
    <3>1. <<"[footer]">> \in Seq(Chars) /\ flush \in Seq(Chars)
      BY DEF Chars, flush
    <3> DEFINE m == <<"[footer]">>
    <3> HIDE DEF m
    <3>2. << m, flush >> \in Seq(Seq(Chars)) /\ <<flush>> \in Seq(Seq(Chars))
      BY <3>1 DEF m
    <3>3. <<>> \in Seq(Seq(Chars))
      OBVIOUS
    <3> QED
      BY <3>2, <3>3, Zenon DEF m
  <2> HIDE DEF z
  <2>3. (Calls(new) \o <<flush>>) \o z = Calls(new) \o (<<flush>> \o z)
    BY <1>7, <2>2, ConcatAssociative
  <2>4. Ending = <<flush>> \o z
    BY DEF Ending, z
  <2>5. Make((Calls(new) \o <<flush>>) \o z, "disabled")
    BY <2>1, Zenon DEF z
  <2> QED
    BY <2>3, <2>4, <2>5, Zenon
<1> HIDE DEF calls
<1>10. PICK written \in Seq(Chars), rest \in Seq(Chars) :
           /\ sink' = sink \o written
           /\ FlattenSeq(calls) = written \o rest
           /\ flushed' \in 0..Len(sink')
           /\ phase' = "disabled"
                \/ (phase' = "failed" /\ lost' /\ "disabled" # "disabled")
           /\ lost' \in BOOLEAN
           /\ lost => lost'
           /\ lost' => lost \/ phase' # "active"
           /\ ~lost' => /\ phase' = "disabled"
                        /\ rest = <<>>
                        /\ calls = <<>> => flushed' = flushed
                        /\ calls # <<>> /\ calls[Len(calls)] = flush
                             => flushed' = Len(sink')
  BY <1>1, <1>8, <1>9, MakeEffect
<1>11. phase' = "disabled"
  BY <1>10
<1>12. sink' \in Seq(Chars)
  BY <1>1, <1>10
<1>13. TypeOK'
  BY <1>1, <1>2, <1>10, <1>11, <1>12 DEF TypeOK, SplitterIInv
<1>14. Retained' = <<>>
  BY <1>1, NothingRetained
<1>15. ASSUME ~lost'
       PROVE  sink' = text' \o Footer' /\ flushed' = Len(sink')
  <2>1. ~lost /\ phase = "active" /\ rest = <<>>
    BY <1>1, <1>10, <1>15
  <2>2. flushed' = Len(sink')
    BY <1>8, <1>10, <1>15
  <2>3. Footer = <<>> /\ Footer' = Marker
    BY <1>1, <1>11, <2>1 DEF Footer, Marker
  <2>4. sink = text
    <3>1. text \o <<>> = text
      BY <1>7
    <3> QED
      BY <1>1, <2>1, <2>3, <3>1, Zenon
  <2>5. written = more \o Marker
    <3>1. written \o <<>> = written
      BY <1>10
    <3> QED
      BY <1>8, <1>10, <2>1, <3>1, Zenon
  <2>6. Marker \in Seq(Chars)
    <3>1. FlattenSeq(Ending) \in Seq(Chars)
      BY EndingWritesTheMarker, FlattenType
    <3> QED
      BY <3>1, EndingWritesTheMarker
  <2>7. text \o (more \o Marker) = (text \o more) \o Marker
    <3>1. text \in Seq(Chars) /\ more \in Seq(Chars)
      BY <1>7
    <3>2. (text \o more) \o Marker = text \o (more \o Marker)
      BY <2>6, <3>1, ConcatAssociative
    <3> QED
      BY <3>2, Zenon
  <2>8. sink' = text' \o Footer'
    BY <1>5, <1>10, <2>3, <2>4, <2>5, <2>7, Zenon
  <2> QED
    BY <2>2, <2>8
<1> QED
  BY <1>2, <1>4, <1>11, <1>13, <1>14, <1>15 DEF MonitorIInv, text

LEMMA MonitorInit == Init => MonitorIInv
<1> SUFFICES ASSUME Init
             PROVE  MonitorIInv
  OBVIOUS
<1>1. /\ emitted = <<>> /\ phase = "active" /\ sink = <<>> /\ flushed = 0
      /\ lost = FALSE /\ options \in {a \in Arguments : Accepted(a)}
  BY DEF Init, SplitterInit
<1>2. SplitterIInv
  BY SplitterStarts
<1>3. TypeOK
  <2>1. sink \in Seq(Chars) /\ flushed \in 0..Len(sink) /\ lost \in BOOLEAN
    <3>1. <<>> \in Seq(Chars) /\ 0 \in 0..Len(<<>>)
      OBVIOUS
    <3> QED
      BY <1>1, <3>1, Zenon
  <2> QED
    BY <1>1, <1>2, <2>1 DEF TypeOK, SplitterIInv
<1>4. FlattenSeq(Texts(emitted)) = <<>> /\ Footer = <<>>
  <2>1. Texts(emitted) = <<>>
    BY <1>1 DEF Texts
  <2> QED
    BY <1>1, <2>1, FlattenEmpty, Zenon DEF Footer
<1>5. <<>> \in Seq(TextChars) /\ <<>> \o <<>> = <<>>
  OBVIOUS
<1>6. StartsWith(FlattenSeq(Texts(emitted)), sink, TextChars)
  BY <1>1, <1>4, <1>5, Zenon DEF StartsWith
<1>7. sink = FlattenSeq(Texts(emitted)) \o Footer
  BY <1>1, <1>4, <1>5, Zenon
<1>8. \A i \in 1..Len(emitted) : WellFormed(emitted[i])
  BY <1>1
<1> QED
  BY <1>1, <1>2, <1>3, <1>5, <1>6, <1>7, <1>8 DEF MonitorIInv

\* What the sink holds and what is flushed follows from the records, whatever
\* the chunks, the limit and the failures: the invariant of the module, with
\* that of the splitter in it, holds of every behaviour.
THEOREM Inductive == Spec => []MonitorIInv
<1>1. MonitorIInv /\ UNCHANGED vars => MonitorIInv'
  <2> SUFFICES ASSUME MonitorIInv, UNCHANGED vars
               PROVE  MonitorIInv'
    OBVIOUS
  <2>1. /\ UNCHANGED splitterVars /\ UNCHANGED textVars
        /\ buf' = buf /\ start' = start /\ fed' = fed /\ emitted' = emitted
        /\ options' = options /\ phase' = phase /\ sink' = sink
        /\ flushed' = flushed /\ lost' = lost
    BY DEF vars, splitterVars, textVars
  <2>2. SplitterIInv' /\ SplitterIInv
    BY <2>1, SplitterStep DEF MonitorIInv, Fed
  <2>3. TypeOK'
    BY <2>1, <2>2 DEF MonitorIInv, TypeOK, SplitterIInv
  <2>4. /\ FlattenSeq(Texts(emitted))' = FlattenSeq(Texts(emitted))
        /\ Footer' = Footer /\ Retained' = Retained
    BY <2>1, Zenon DEF Texts, RecordText, Stamp, Footer, Retained
  <2> QED
    BY <2>1, <2>2, <2>3, <2>4, Zenon DEF MonitorIInv
<1>2. MonitorIInv /\ [Next]_vars => MonitorIInv'
  BY <1>1, MonitorProcess, MonitorOnDisable DEF Next
<1> QED
  BY <1>2, MonitorInit, PTL DEF Spec

-----------------------------------------------------------------------------
(* The monitor's theorems.                                                     *)

\* Every variable of the splitter and the monitor has its type: in particular
\* _start is a position in _buf, and no more is flushed than was written.
THEOREM TypeCorrect == Spec => []TypeOK
<1>1. MonitorIInv => TypeOK
  BY DEF MonitorIInv
<1> QED
  BY <1>1, Inductive, PTL

\* What the monitor owes its sink is flushed: after every call with
\* auto_flush, at the end without, and the footer is written once, last.
THEOREM NothingIsLeftUnflushed == Spec => []NothingLeftUnflushed
<1>1. MonitorIInv => NothingLeftUnflushed
  <2> SUFFICES ASSUME MonitorIInv
               PROVE  NothingLeftUnflushed
    OBVIOUS
  <2> DEFINE text == FlattenSeq(Texts(emitted))
  <2>1. /\ options.auto_flush /\ ~lost => flushed = Len(sink)
        /\ phase = "disabled" => Retained = <<>>
        /\ phase = "disabled" /\ ~lost => flushed = Len(sink)
    BY DEF MonitorIInv
  <2>2. ASSUME phase = "disabled", ~lost, options.append_disable_marker
        PROVE  /\ Last(sink) = "[footer]"
               /\ Cardinality({i \in DOMAIN sink : sink[i] = "[footer]"}) = 1
    <3>1. sink = text \o <<"[footer]">>
      BY <2>2 DEF MonitorIInv, Footer
    <3>2. text \in Seq(TextChars)
      BY TextsType DEF MonitorIInv, SplitterIInv, SplitterTypeOK
    <3> HIDE DEF text
    <3>3. /\ Len(sink) = Len(text) + 1 /\ Len(text) \in Nat
          /\ DOMAIN sink = 1..Len(text) + 1
          /\ sink[Len(text) + 1] = "[footer]"
          /\ \A i \in 1..Len(text) : sink[i] = text[i] /\ text[i] \in TextChars
      BY <3>1, <3>2
    <3>4. {i \in DOMAIN sink : sink[i] = "[footer]"} = {Len(text) + 1}
      BY <3>3, CharsOfText
    <3>5. Cardinality({Len(text) + 1}) = 1
      BY FS_Singleton
    <3> QED
      BY <3>3, <3>4, <3>5 DEF Last
  <2> QED
    BY <2>1, <2>2 DEF NothingLeftUnflushed
<1> QED
  BY <1>1, Inductive, PTL

-----------------------------------------------------------------------------
(* The text of an input is that of its records: what is done to one record at  *)
(* a time is what would be done to the whole input.                            *)

\* What comes next starts a line.
EndsLine(s) == s = <<>> \/ s[Len(s)] = "n"

LEMMA LastOf ==
  ASSUME NEW A, NEW h \in Seq(A), h # <<>>
  PROVE  /\ Len(h) \in 1..Len(h) /\ Len(h) - 1 \in 0..Len(h)
         /\ h[Len(h)] \in A
OBVIOUS

LEMMA LongerThanEmpty ==
  ASSUME NEW s, Len(s) # 0
  PROVE  s # <<>>
<1>1. Len(<<>>) = 0
  OBVIOUS
<1> QED
  BY <1>1, Zenon

LEMMA LastPieceEndsLine ==
  ASSUME NEW A, NEW h \in Seq(Seq(A)), h # <<>>, h[Len(h)] = <<"n">>
  PROVE  FlattenSeq(h) # <<>> /\ EndsLine(FlattenSeq(h))
<1> DEFINE f == FlattenSeq(SubSeq(h, 1, Len(h) - 1))
<1>1. FlattenSeq(h) = f \o <<"n">>
  BY FlattenLast
<1>2. f \in Seq(A) /\ "n" \in A
  <2>1. Len(h) - 1 \in 0..Len(h) /\ <<"n">> \in Seq(A)
    <3>1. Len(h) - 1 \in 0..Len(h) /\ h[Len(h)] \in Seq(A)
      BY LastOf, Zenon
    <3> QED
      BY <3>1, Zenon
  <2>2. SubSeq(h, 1, Len(h) - 1) \in Seq(Seq(A))
    BY <2>1, Start
  <2>3. <<"n">>[1] \in A
    BY <2>1
  <2> QED
    BY <2>2, <2>3, FlattenType
<1> HIDE DEF f
<1>3. /\ Len(f \o <<"n">>) = Len(f) + 1 /\ Len(f) \in Nat
      /\ (f \o <<"n">>)[Len(f) + 1] = "n"
  BY <1>2
<1>4. f \o <<"n">> # <<>>
  BY <1>2, <1>3
<1> QED
  BY <1>1, <1>3, <1>4 DEF EndsLine

Singles(s) == [i \in 1..Len(s) |-> <<s[i]>>]

LEMMA FlattenSingles ==
  ASSUME NEW A, NEW s \in Seq(A)
  PROVE  /\ Singles(s) \in Seq(Seq(A)) /\ Len(Singles(s)) = Len(s)
         /\ FlattenSeq(Singles(s)) = s
<1>1. ASSUME NEW t \in Seq(A)
      PROVE  Singles(t) \in Seq(Seq(A)) /\ Len(Singles(t)) = Len(t)
  <2>1. \A i \in 1..Len(t) : <<t[i]>> \in Seq(A)
    OBVIOUS
  <2> QED
    BY <2>1 DEF Singles
<1> DEFINE S == {t \in Seq(A) : FlattenSeq(Singles(t)) = t}
<1>2. <<>> \in S
  <2>1. Singles(<<>>) = <<>>
    BY DEF Singles
  <2>2. FlattenSeq(Singles(<<>>)) = <<>>
    BY <2>1, FlattenEmpty, Zenon
  <2> QED
    BY <2>2
<1>3. ASSUME NEW t \in Seq(A), NEW e \in A, t \in S
      PROVE  Append(t, e) \in S
  <2> DEFINE x == Singles(Append(t, e))
             y == Append(Singles(t), <<e>>)
  <2>1. /\ Append(t, e) \in Seq(A) /\ Len(Append(t, e)) = Len(t) + 1
        /\ Len(t) \in Nat
        /\ \A i \in 1..Len(t) + 1 :
             Append(t, e)[i] = IF i <= Len(t) THEN t[i] ELSE e
    OBVIOUS
  <2>2. <<e>> \in Seq(A)
    OBVIOUS
  <2>3. /\ x \in Seq(Seq(A)) /\ Len(x) = Len(t) + 1
        /\ \A i \in 1..Len(t) + 1 : x[i] = <<Append(t, e)[i]>>
    BY <1>1, <2>1 DEF Singles
  <2>4. /\ y \in Seq(Seq(A)) /\ Len(y) = Len(t) + 1
        /\ \A i \in 1..Len(t) + 1 :
             y[i] = IF i <= Len(t) THEN Singles(t)[i] ELSE <<e>>
    <3> DEFINE w == <<e>>
    <3> HIDE DEF w
    <3>1. w \in Seq(A)
      BY <2>2 DEF w
    <3>2. /\ Append(Singles(t), w) \in Seq(Seq(A))
          /\ Len(Append(Singles(t), w)) = Len(t) + 1
          /\ \A i \in 1..Len(t) + 1 :
               Append(Singles(t), w)[i] = IF i <= Len(t) THEN Singles(t)[i] ELSE w
      BY <1>1, <2>1, <3>1
    <3> QED
      BY <3>2 DEF w
  <2> HIDE DEF x, y
  <2>5. ASSUME NEW i \in 1..Len(x)
        PROVE  x[i] = y[i]
    <3>1. i \in 1..Len(t) + 1
      BY <2>3
    <3>2. CASE i <= Len(t)
      <4>1. Singles(t)[i] = <<t[i]>>
        BY <2>1, <3>1, <3>2 DEF Singles
      <4> QED
        BY <2>1, <2>3, <2>4, <3>1, <3>2, <4>1
    <3>3. CASE ~(i <= Len(t))
      BY <2>1, <2>3, <2>4, <3>1, <3>3
    <3> QED
      BY <3>2, <3>3
  <2>6. x = y
    BY <2>3, <2>4, <2>5, SeqEqual
  <2>7. FlattenSeq(y) = FlattenSeq(Singles(t)) \o <<e>>
    BY <1>1, <2>2, FlattenAppend DEF y
  <2>8. FlattenSeq(Singles(t)) = t
    BY <1>3
  <2>9. t \o <<e>> = Append(t, e)
    OBVIOUS
  <2>10. FlattenSeq(Singles(Append(t, e))) = Append(t, e)
    BY <2>6, <2>7, <2>8, <2>9, Zenon DEF x
  <2> QED
    BY <2>1, <2>10
<1> HIDE DEF S
<1>4. Seq(A) \subseteq S
  BY <1>2, <1>3, InductiveSequences
<1> QED
  BY <1>1, <1>4 DEF S

-----------------------------------------------------------------------------
(* Decoding.                                                                   *)

LEMMA DecodedOfBoth ==
  ASSUME NEW a \in Seq(Bytes), EndsLine(a), NEW r \in Seq(Bytes)
  PROVE  Decoded(a \o r) = Decoded(a) \o Decoded(r)
<1> DEFINE x == a \o r
           f == DecodedPieces(a)
           g == DecodedPieces(r)
           h == DecodedPieces(x)
<1>1. /\ x \in Seq(Bytes) /\ Len(x) = Len(a) + Len(r)
      /\ Len(a) \in Nat /\ Len(r) \in Nat
      /\ \A i \in 1..Len(a) : x[i] = a[i]
      /\ \A i \in 1..Len(r) : x[Len(a) + i] = r[i]
  BY BothParts
<1>2. Len(a) # 0 => a[Len(a)] = "n"
  BY DEF EndsLine
<1> HIDE DEF x
<1>3. /\ f \in Seq(Seq(Plain)) /\ Len(f) = Len(a) /\ Decoded(a) = FlattenSeq(f)
      /\ g \in Seq(Seq(Plain)) /\ Len(g) = Len(r) /\ Decoded(r) = FlattenSeq(g)
      /\ h \in Seq(Seq(Plain)) /\ Len(h) = Len(x) /\ Decoded(x) = FlattenSeq(h)
  BY <1>1, DecodedInPieces
<1>4. ASSUME NEW i \in 1..Len(f)
      PROVE  h[i] = f[i]
  <2>1. i \in 1..Len(a) /\ i \in 1..Len(x) /\ x[i] = a[i]
    BY <1>1, <1>3
  <2>2. a[i] = "h" => i < Len(a) /\ i < Len(x) /\ x[i + 1] = a[i + 1]
    BY <1>1, <1>2, <2>1
  <2>3. i > 1 => x[i - 1] = a[i - 1]
    BY <1>1, <2>1
  <2> QED
    BY <2>1, <2>2, <2>3 DEF DecodedPieces
<1>5. ASSUME NEW i \in 1..Len(g)
      PROVE  h[Len(f) + i] = g[i]
  <2> DEFINE j == Len(a) + i
  <2>1. i \in 1..Len(r) /\ j \in 1..Len(x) /\ x[j] = r[i]
    BY <1>1, <1>3
  <2>2. /\ i < Len(r) <=> j < Len(x)
        /\ i < Len(r) => x[j + 1] = r[i + 1]
    <3>1. i < Len(r) => i + 1 \in 1..Len(r) /\ Len(a) + (i + 1) = j + 1
      BY <1>1, <2>1
    <3> QED
      BY <1>1, <2>1, <3>1
  <2>3. /\ i > 1 => j > 1 /\ x[j - 1] = r[i - 1]
        /\ i = 1 /\ j > 1 => x[j - 1] # "h"
    <3>1. i > 1 => i - 1 \in 1..Len(r) /\ Len(a) + (i - 1) = j - 1
      BY <1>1, <2>1
    <3>2. i = 1 /\ j > 1 => Len(a) # 0 /\ j - 1 = Len(a) /\ Len(a) \in 1..Len(a)
      BY <1>1, <2>1
    <3> HIDE DEF j
    <3>3. ASSUME i > 1
          PROVE  j > 1 /\ x[j - 1] = r[i - 1]
      <4>1. x[Len(a) + (i - 1)] = r[i - 1]
        BY <1>1, <3>1, <3>3
      <4> QED
        BY <1>1, <2>1, <3>1, <3>3, <4>1 DEF j
    <3>4. ASSUME i = 1, j > 1
          PROVE  x[j - 1] # "h"
      <4>1. x[Len(a)] = a[Len(a)] /\ a[Len(a)] = "n"
        BY <1>1, <1>2, <3>2, <3>4
      <4> QED
        BY <3>2, <3>4, <4>1
    <3> QED
      BY <3>3, <3>4
  <2>4. h[j] = g[i]
    <3> HIDE DEF j
    <3>1. CASE i > 1
      BY <2>1, <2>2, <2>3, <3>1 DEF DecodedPieces
    <3>2. CASE ~(i > 1)
      <4>1. i = 1
        BY <2>1, <3>2
      <4> QED
        BY <2>1, <2>2, <2>3, <3>2, <4>1 DEF DecodedPieces
    <3> QED
      BY <3>1, <3>2
  <2> QED
    BY <1>3, <2>4
<1>6. Len(h) = Len(f) + Len(g)
  BY <1>1, <1>3
<1> HIDE DEF f, g, h
<1>7. FlattenSeq(h) = FlattenSeq(f) \o FlattenSeq(g)
  BY <1>3, <1>4, <1>5, <1>6, FlattenJoined
<1> QED
  BY <1>3, <1>7, Zenon DEF x

LEMMA DecodedEndsLine ==
  ASSUME NEW s \in Seq(Bytes), EndsLine(s)
  PROVE  EndsLine(Decoded(s))
<1>1. /\ DecodedPieces(s) \in Seq(Seq(Plain))
      /\ Len(DecodedPieces(s)) = Len(s)
      /\ Decoded(s) = FlattenSeq(DecodedPieces(s))
  BY DecodedInPieces
<1>2. CASE s = <<>>
  <2>1. DecodedPieces(s) = <<>>
    BY <1>1, <1>2
  <2>2. Decoded(s) = <<>>
    BY <1>1, <2>1, FlattenEmpty, Zenon
  <2> QED
    BY <2>2 DEF EndsLine
<1>3. CASE s # <<>>
  <2>1. Len(s) \in 1..Len(s) /\ s[Len(s)] = "n"
    BY <1>3 DEF EndsLine
  <2>2. DecodedPieces(s)[Len(s)] = <<"n">>
    BY <2>1 DEF DecodedPieces
  <2>3. DecodedPieces(s) # <<>>
    BY <1>1, <2>1
  <2>4. EndsLine(FlattenSeq(DecodedPieces(s)))
    BY <1>1, <2>2, <2>3, LastPieceEndsLine
  <2> QED
    BY <1>1, <2>4
<1> QED
  BY <1>2, <1>3

LEMMA DecodedWellFormed ==
  ASSUME NEW s \in Seq(Bytes), WellFormed(s)
  PROVE  WellFormed(Decoded(s))
<1> DEFINE p == DecodedPieces(s)
           front == SubSeq(p, 1, Len(p) - 1)
           start1 == FlattenSeq(front)
           last == p[Len(p)]
           rest == FlattenSeq(SubSeq(p, 2, Len(p)))
<1>1. /\ p \in Seq(Seq(Plain)) /\ Len(p) = Len(s) /\ Decoded(s) = FlattenSeq(p)
      /\ Len(s) \in Nat /\ Len(s) >= 1
      /\ \A k \in 1..Len(s) - 1 : s[k] # "n"
  BY DecodedInPieces DEF WellFormed
<1>2. \A k \in 1..Len(s) - 1 : p[k] \in Seq(Plain \ {"n"})
  <2> SUFFICES ASSUME NEW k \in 1..Len(s) - 1
               PROVE  p[k] \in Seq(Plain \ {"n"})
    OBVIOUS
  <2>1. k \in 1..Len(s) /\ s[k] \in Bytes /\ s[k] # "n"
    BY <1>1
  <2> DEFINE Q == Plain \ {"n"}
  <2>2. /\ "c" \in Q /\ "?" \in Q
        /\ s[k] # "h" /\ s[k] # "t" => s[k] \in Q
    BY <2>1 DEF Plain
  <2> HIDE DEF Q
  <2>3. DecodedPieces(s)[k] \in Seq(Q)
    BY <2>1, <2>2 DEF DecodedPieces
  <2> QED
    BY <2>3 DEF Q
<1>3. last \in Seq(Plain) /\ Len(last) <= 1
  <2>1. Len(s) \in 1..Len(s) /\ Len(p) = Len(s)
    BY <1>1
  <2>2. Len(DecodedPieces(s)[Len(s)]) <= 1
    BY <2>1 DEF DecodedPieces
  <2> HIDE DEF p
  <2> QED
    BY <1>1, <2>1, <2>2 DEF p
<1>4. p[1] # <<>> /\ p[1] \in Seq(Plain)
  <2>1. 1 \in 1..Len(s)
    BY <1>1
  <2>2. Len(DecodedPieces(s)[1]) = 1
    BY <2>1 DEF DecodedPieces
  <2>3. p[1] \in Seq(Plain) /\ Len(p[1]) = 1
    <3> HIDE DEF p
    <3> QED
      BY <1>1, <2>1, <2>2 DEF p
  <2>4. Len(p[1]) # 0
    <3> HIDE DEF p
    <3> QED
      BY <2>3
  <2> HIDE DEF p
  <2> QED
    BY <2>3, <2>4, LongerThanEmpty, Zenon
<1> HIDE DEF p
<1>5. p # <<>>
  BY <1>1
<1>6. Decoded(s) = start1 \o last
  BY <1>1, <1>5, FlattenLast
<1>7. start1 \in Seq(Plain \ {"n"})
  <2>1. /\ front \in Seq(Seq(Plain)) /\ Len(front) = Len(s) - 1
        /\ \A k \in 1..Len(s) - 1 : front[k] = p[k]
    <3>1. Len(p) - 1 \in 0..Len(p)
      BY <1>1
    <3> QED
      BY <1>1, <3>1, Start
  <2> HIDE DEF front
  <2>2. front \in Seq(Seq(Plain \ {"n"}))
    <3> DEFINE Q == Seq(Plain \ {"n"})
    <3>1. Len(s) - 1 \in Nat /\ \A k \in 1..Len(s) - 1 : front[k] \in Q
      <4>1. Len(s) - 1 \in Nat
        BY <1>1
      <4> QED
        BY <1>2, <2>1, <4>1, Zenon
    <3> HIDE DEF Q
    <3>2. front \in [1..Len(s) - 1 -> Q]
      BY <1>1, <2>1, <3>1
    <3>3. front \in Seq(Q)
      BY <3>1, <3>2, FunctionIsSequence
    <3> QED
      BY <3>3 DEF Q
  <2> QED
    BY <2>2, FlattenType
<1>8. Decoded(s) # <<>>
  <2>1. Decoded(s) = p[1] \o rest
    BY <1>1, <1>5, FlattenFirst
  <2>2. rest \in Seq(Plain)
    <3>1. 1 \in 0..Len(p) /\ Len(p) \in 1..Len(p) /\ 1 + 1 = 2
      BY <1>1
    <3>2. SubSeq(p, 1 + 1, Len(p)) \in Seq(Seq(Plain))
      BY <1>1, <3>1, Part
    <3> QED
      BY <3>1, <3>2, FlattenType
  <2> HIDE DEF rest
  <2>3. p[1] \o rest # <<>>
    BY <1>4, <2>2
  <2> QED
    BY <2>1, <2>3
<1> HIDE DEF start1, last
<1>9. start1 \in Seq(Plain)
  BY <1>7
<1>10. ASSUME NEW k \in 1..Len(Decoded(s)) - 1
       PROVE  Decoded(s)[k] # "n"
  <2>1. Len(Decoded(s)) = Len(start1) + Len(last)
    BY <1>3, <1>6, <1>9
  <2>2. k \in 1..Len(start1)
    BY <1>3, <1>9, <2>1
  <2>3. Decoded(s)[k] = start1[k]
    BY <1>3, <1>6, <1>9, <2>2
  <2> QED
    BY <1>7, <2>2, <2>3
<1> QED
  BY <1>8, <1>10 DEF WellFormed

-----------------------------------------------------------------------------
(* Normalising CR LF.                                                          *)

LfPieces(input) ==
  [i \in 1..Len(input) |->
    IF input[i] = "r" /\ i < Len(input) /\ input[i + 1] = "n"
      THEN <<>> ELSE <<input[i]>>]
Lf(input) == FlattenSeq(LfPieces(input))

LEMMA LfInPieces ==
  ASSUME NEW s \in Seq(Bytes)
  PROVE  /\ LfPieces(s) \in Seq(Seq(Bytes)) /\ Len(LfPieces(s)) = Len(s)
         /\ Lf(s) \in Seq(Bytes)
<1>1. ASSUME NEW i \in 1..Len(s)
      PROVE  LfPieces(s)[i] \in Seq(Bytes)
  <2>1. s[i] \in Bytes
    OBVIOUS
  <2> QED
    BY <2>1 DEF LfPieces
<1>2. LfPieces(s) \in [1..Len(s) -> Seq(Bytes)]
  BY <1>1 DEF LfPieces
<1>3. LfPieces(s) \in Seq(Seq(Bytes)) /\ Len(LfPieces(s)) = Len(s)
  BY <1>2
<1> QED
  BY <1>3, FlattenType DEF Lf

LEMMA LfOfBoth ==
  ASSUME NEW a \in Seq(Bytes), EndsLine(a), NEW r \in Seq(Bytes)
  PROVE  Lf(a \o r) = Lf(a) \o Lf(r)
<1> DEFINE x == a \o r
           f == LfPieces(a)
           g == LfPieces(r)
           h == LfPieces(x)
<1>1. /\ x \in Seq(Bytes) /\ Len(x) = Len(a) + Len(r)
      /\ Len(a) \in Nat /\ Len(r) \in Nat
      /\ \A i \in 1..Len(a) : x[i] = a[i]
      /\ \A i \in 1..Len(r) : x[Len(a) + i] = r[i]
  BY BothParts
<1>2. Len(a) # 0 => a[Len(a)] = "n"
  BY DEF EndsLine
<1> HIDE DEF x
<1>3. /\ f \in Seq(Seq(Bytes)) /\ Len(f) = Len(a)
      /\ g \in Seq(Seq(Bytes)) /\ Len(g) = Len(r)
      /\ h \in Seq(Seq(Bytes)) /\ Len(h) = Len(x)
  BY <1>1, LfInPieces
<1>4. ASSUME NEW i \in 1..Len(f)
      PROVE  h[i] = f[i]
  <2>1. i \in 1..Len(a) /\ i \in 1..Len(x) /\ x[i] = a[i]
    BY <1>1, <1>3
  <2>2. a[i] = "r" => i < Len(a) /\ i < Len(x) /\ x[i + 1] = a[i + 1]
    BY <1>1, <1>2, <2>1
  <2> QED
    BY <2>1, <2>2 DEF LfPieces
<1>5. ASSUME NEW i \in 1..Len(g)
      PROVE  h[Len(f) + i] = g[i]
  <2> DEFINE j == Len(a) + i
  <2>1. i \in 1..Len(r) /\ j \in 1..Len(x) /\ x[j] = r[i]
    BY <1>1, <1>3
  <2>2. /\ i < Len(r) <=> j < Len(x)
        /\ i < Len(r) => x[j + 1] = r[i + 1]
    <3>1. i < Len(r) => i + 1 \in 1..Len(r) /\ Len(a) + (i + 1) = j + 1
      BY <1>1, <2>1
    <3> QED
      BY <1>1, <2>1, <3>1
  <2>3. h[j] = g[i]
    <3> HIDE DEF j
    <3> QED
      BY <2>1, <2>2 DEF LfPieces
  <2> QED
    BY <1>3, <2>3
<1>6. Len(h) = Len(f) + Len(g)
  BY <1>1, <1>3
<1> HIDE DEF f, g, h
<1>7. FlattenSeq(h) = FlattenSeq(f) \o FlattenSeq(g)
  BY <1>3, <1>4, <1>5, <1>6, FlattenJoined
<1> QED
  BY <1>7, Zenon DEF x, Lf, f, g, h

LEMMA LfEndsLine ==
  ASSUME NEW s \in Seq(Bytes), EndsLine(s)
  PROVE  EndsLine(Lf(s))
<1>1. LfPieces(s) \in Seq(Seq(Bytes)) /\ Len(LfPieces(s)) = Len(s)
  BY LfInPieces
<1>2. CASE s = <<>>
  <2>1. LfPieces(s) = <<>>
    BY <1>1, <1>2
  <2>2. Lf(s) = <<>>
    BY <2>1, FlattenEmpty, Zenon DEF Lf
  <2> QED
    BY <2>2 DEF EndsLine
<1>3. CASE s # <<>>
  <2>1. Len(s) \in 1..Len(s) /\ s[Len(s)] = "n"
    BY <1>3 DEF EndsLine
  <2>2. LfPieces(s)[Len(s)] = <<"n">>
    BY <2>1 DEF LfPieces
  <2>3. LfPieces(s) # <<>>
    BY <1>1, <2>1
  <2>4. EndsLine(FlattenSeq(LfPieces(s)))
    BY <1>1, <2>2, <2>3, LastPieceEndsLine
  <2> QED
    BY <2>4 DEF Lf
<1> QED
  BY <1>2, <1>3

EndsInCrLf(r) == Len(r) >= 2 /\ r[Len(r) - 1] = "r" /\ r[Len(r)] = "n"

LEMMA CrLfSuffix ==
  ASSUME NEW r \in Seq(Bytes)
  PROVE  IsSuffix(<<"r", "n">>, r) <=> EndsInCrLf(r)
<1> DEFINE u == Reverse(<<"r", "n">>)
           v == Reverse(r)
           p == SubSeq(u, 1, Len(u))
           q == SubSeq(v, 1, Len(u))
<1>1. Len(r) \in Nat
  OBVIOUS
<1>2. Len(u) = 2 /\ u[1] = "n" /\ u[2] = "r"
  BY DEF Reverse
<1>3. /\ Len(v) = Len(r)
      /\ \A i \in 1..Len(r) : v[i] = r[Len(r) - i + 1]
  BY <1>1 DEF Reverse
<1>4. IsSuffix(<<"r", "n">>, r) <=> Len(u) <= Len(v) /\ p = q
  BY DEF IsSuffix, IsPrefix
<1> HIDE DEF u, v
<1>5. CASE Len(r) < 2
  BY <1>1, <1>2, <1>3, <1>4, <1>5 DEF EndsInCrLf
<1>6. CASE Len(r) >= 2
  <2>1. /\ v[1] = r[Len(r)] /\ v[2] = r[Len(r) - 1]
        /\ r[Len(r)] \in Bytes /\ r[Len(r) - 1] \in Bytes
    BY <1>1, <1>3, <1>6
  <2> DEFINE B == Bytes \cup {"r", "n"}
  <2>2. \A i \in 1..2 : u[i] \in B /\ v[i] \in B
    BY <1>2, <2>1
  <2> HIDE DEF B
  <2>3. /\ p \in Seq(B) /\ Len(p) = 2 /\ \A i \in 1..2 : p[i] = u[i]
        /\ q \in Seq(B) /\ Len(q) = 2 /\ \A i \in 1..2 : q[i] = v[i]
    BY <1>2, <2>2, SubSeqProperties
  <2> HIDE DEF p, q
  <2>4. p = q <=> p[1] = q[1] /\ p[2] = q[2]
    <3>1. ASSUME p[1] = q[1], p[2] = q[2]
          PROVE  p = q
      <4>1. \A i \in 1..Len(p) : p[i] = q[i]
        BY <2>3, <3>1
      <4> QED
        BY <2>3, <4>1, SeqEqual
    <3> QED
      BY <3>1
  <2>5. p = q <=> r[Len(r)] = "n" /\ r[Len(r) - 1] = "r"
    BY <1>2, <2>1, <2>3, <2>4
  <2> QED
    BY <1>1, <1>2, <1>3, <1>4, <1>6, <2>5 DEF EndsInCrLf
<1> QED
  BY <1>1, <1>5, <1>6

\* Of a record, the CR LF that the whole-input definition removes is the one
\* that process() removes.
LEMMA NormalizedIsLf ==
  ASSUME NEW r \in Seq(Bytes), WellFormed(r)
  PROVE  Normalized(r) = Lf(r) /\ WellFormed(Normalized(r))
<1> DEFINE p == LfPieces(r)
           n == Len(r)
<1>1. /\ p \in Seq(Seq(Bytes)) /\ Len(p) = n /\ n \in Nat /\ n >= 1
      /\ \A k \in 1..n - 1 : r[k] # "n"
  BY LfInPieces DEF WellFormed
<1>2. CASE ~EndsInCrLf(r)
  <2>1. Normalized(r) = r
    BY <1>2, CrLfSuffix DEF Normalized
  <2>2. ASSUME NEW i \in 1..n
        PROVE  LfPieces(r)[i] = Singles(r)[i]
    <3>1. ~(r[i] = "r" /\ i < n /\ r[i + 1] = "n")
      <4> SUFFICES ASSUME r[i] = "r", i < n, r[i + 1] = "n"
                   PROVE  FALSE
        OBVIOUS
      <4>1. i + 1 = n
        BY <1>1
      <4>2. n >= 2 /\ i = n - 1
        BY <4>1
      <4> QED
        BY <1>2, <4>1, <4>2 DEF EndsInCrLf
    <3> QED
      BY <3>1 DEF LfPieces, Singles
  <2>3. /\ Singles(r) \in Seq(Seq(Bytes)) /\ Len(Singles(r)) = n
        /\ FlattenSeq(Singles(r)) = r
    BY FlattenSingles
  <2>4. LfPieces(r) = Singles(r)
    BY <1>1, <2>2, <2>3, SeqEqual
  <2>5. Lf(r) = r
    BY <2>3, <2>4, Zenon DEF Lf
  <2> QED
    BY <2>1, <2>5
<1>3. CASE EndsInCrLf(r)
  <2> DEFINE front == SubSeq(r, 1, n - 2)
             cut == Append(Singles(front), <<>>)
             y == Append(cut, <<"n">>)
  <2>1. /\ n >= 2 /\ r[n - 1] = "r" /\ r[n] = "n" /\ "n" \in Bytes
    BY <1>3, LineSplitterAssumption DEF EndsInCrLf
  <2>2. Normalized(r) = front \o <<"n">>
    BY <1>3, CrLfSuffix DEF Normalized
  <2>3. /\ front \in Seq(Bytes) /\ Len(front) = n - 2
        /\ \A k \in 1..n - 2 : front[k] = r[k]
    <3>1. n - 2 \in 0..Len(r)
      BY <2>1
    <3> QED
      BY <3>1, Start
  <2> HIDE DEF front
  <2>4. /\ Singles(front) \in Seq(Seq(Bytes)) /\ Len(Singles(front)) = n - 2
        /\ FlattenSeq(Singles(front)) = front
        /\ \A k \in 1..n - 2 : Singles(front)[k] = <<r[k]>>
    <3>1. \A k \in 1..n - 2 : Singles(front)[k] = <<r[k]>>
      BY <2>3 DEF Singles
    <3> QED
      BY <2>3, <3>1, FlattenSingles
  <2>5. <<>> \in Seq(Bytes) /\ <<"n">> \in Seq(Bytes)
    BY <2>1
  <2>6. /\ cut \in Seq(Seq(Bytes)) /\ Len(cut) = n - 1 /\ cut[n - 1] = <<>>
        /\ \A k \in 1..n - 2 : cut[k] = <<r[k]>>
    <3>1. /\ cut \in Seq(Seq(Bytes)) /\ Len(cut) = Len(Singles(front)) + 1
          /\ cut[Len(Singles(front)) + 1] = <<>>
          /\ \A k \in 1..Len(Singles(front)) : cut[k] = Singles(front)[k]
      BY <2>4, <2>5, AppendProperties
    <3> HIDE DEF cut
    <3>2. Len(Singles(front)) + 1 = n - 1
      BY <1>1, <2>1, <2>4
    <3> QED
      BY <2>4, <3>1, <3>2
  <2>7. /\ y \in Seq(Seq(Bytes)) /\ Len(y) = n /\ y[n] = <<"n">>
        /\ \A k \in 1..n - 1 : y[k] = cut[k]
    <3> HIDE DEF cut
    <3>1. /\ y \in Seq(Seq(Bytes)) /\ Len(y) = Len(cut) + 1
          /\ y[Len(cut) + 1] = <<"n">>
          /\ \A k \in 1..Len(cut) : y[k] = cut[k]
      BY <2>5, <2>6, AppendProperties
    <3> HIDE DEF y
    <3>2. Len(cut) + 1 = n
      BY <1>1, <2>1, <2>6
    <3> QED
      BY <2>6, <3>1, <3>2
  <2> HIDE DEF cut, y
  <2>8. ASSUME NEW i \in 1..n
        PROVE  LfPieces(r)[i] = y[i]
    <3>1. CASE i = n
      <4>1. LfPieces(r)[n] = <<"n">>
        BY <1>1, <2>1 DEF LfPieces
      <4> QED
        BY <2>7, <3>1, <4>1, Zenon
    <3>2. CASE i = n - 1
      <4>1. n - 1 \in 1..n /\ n - 1 < n /\ (n - 1) + 1 = n
        BY <1>1, <2>1
      <4>2. LfPieces(r)[n - 1] = <<>>
        BY <2>1, <4>1 DEF LfPieces
      <4>3. y[n - 1] = cut[n - 1]
        BY <1>1, <2>1, <2>7
      <4> QED
        BY <2>6, <3>2, <4>2, <4>3, Zenon
    <3>3. CASE i # n /\ i # n - 1
      <4>1. i \in 1..n - 2 /\ i \in 1..n - 1 /\ i + 1 \in 1..n - 1
        BY <1>1, <3>3
      <4>2. r[i + 1] # "n"
        BY <1>1, <4>1
      <4>3. LfPieces(r)[i] = <<r[i]>>
        BY <4>2 DEF LfPieces
      <4>4. y[i] = <<r[i]>>
        BY <2>6, <2>7, <4>1, Zenon
      <4> QED
        BY <4>3, <4>4, Zenon
    <3> QED
      BY <3>1, <3>2, <3>3
  <2>9. LfPieces(r) = y
    BY <1>1, <2>7, <2>8, SeqEqual
  <2>10. FlattenSeq(y) = FlattenSeq(cut) \o <<"n">>
    BY <2>5, <2>6, FlattenAppend DEF y
  <2>11. FlattenSeq(cut) = FlattenSeq(Singles(front)) \o <<>>
    BY <2>4, <2>5, FlattenAppend DEF cut
  <2>12. front \o <<>> = front
    BY <2>3
  <2>13. Lf(r) = front \o <<"n">>
    BY <2>4, <2>9, <2>10, <2>11, <2>12, Zenon DEF Lf
  <2>14. WellFormed(front \o <<"n">>)
    <3>1. /\ Len(front \o <<"n">>) = n - 1
          /\ \A k \in 1..n - 2 : (front \o <<"n">>)[k] = front[k]
      BY <1>1, <2>1, <2>3
    <3>2. front \o <<"n">> # <<>>
      <4>1. Len(front \o <<"n">>) # 0
        BY <1>1, <2>1, <3>1
      <4> QED
        BY <4>1, LongerThanEmpty, Zenon
    <3>3. ASSUME NEW k \in 1..Len(front \o <<"n">>) - 1
          PROVE  (front \o <<"n">>)[k] # "n"
      <4>1. k \in 1..n - 2 /\ k \in 1..n - 1
        BY <1>1, <3>1
      <4> QED
        BY <1>1, <2>3, <3>1, <4>1
    <3> QED
      BY <3>2, <3>3 DEF WellFormed
  <2> QED
    BY <2>2, <2>13, <2>14, Zenon
<1> QED
  BY <1>2, <1>3

-----------------------------------------------------------------------------
(* Stamping lines.                                                             *)

StampPieces(text) ==
  [i \in 1..Len(text) |->
    IF i = 1 \/ text[i - 1] = "n" THEN <<"[ts]", text[i]>> ELSE <<text[i]>>]
Stamped(text) == FlattenSeq(StampPieces(text))

LEMMA StampInPieces ==
  ASSUME NEW s \in Seq(Plain)
  PROVE  /\ StampPieces(s) \in Seq(Seq(TextChars))
         /\ Len(StampPieces(s)) = Len(s)
         /\ Stamped(s) \in Seq(TextChars)
<1>1. ASSUME NEW i \in 1..Len(s)
      PROVE  StampPieces(s)[i] \in Seq(TextChars)
  <2>1. s[i] \in TextChars /\ "[ts]" \in TextChars
    BY DEF TextChars
  <2> QED
    BY <2>1 DEF StampPieces
<1>2. StampPieces(s) \in [1..Len(s) -> Seq(TextChars)]
  BY <1>1 DEF StampPieces
<1>3. StampPieces(s) \in Seq(Seq(TextChars)) /\ Len(StampPieces(s)) = Len(s)
  BY <1>2
<1> QED
  BY <1>3, FlattenType DEF Stamped

LEMMA StampOfBoth ==
  ASSUME NEW a \in Seq(Plain), EndsLine(a), NEW r \in Seq(Plain)
  PROVE  Stamped(a \o r) = Stamped(a) \o Stamped(r)
<1> DEFINE x == a \o r
           f == StampPieces(a)
           g == StampPieces(r)
           h == StampPieces(x)
<1>1. /\ x \in Seq(Plain) /\ Len(x) = Len(a) + Len(r)
      /\ Len(a) \in Nat /\ Len(r) \in Nat
      /\ \A i \in 1..Len(a) : x[i] = a[i]
      /\ \A i \in 1..Len(r) : x[Len(a) + i] = r[i]
  BY BothParts
<1>2. Len(a) # 0 => a[Len(a)] = "n"
  BY DEF EndsLine
<1> HIDE DEF x
<1>3. /\ f \in Seq(Seq(TextChars)) /\ Len(f) = Len(a)
      /\ g \in Seq(Seq(TextChars)) /\ Len(g) = Len(r)
      /\ h \in Seq(Seq(TextChars)) /\ Len(h) = Len(x)
  BY <1>1, StampInPieces
<1>4. ASSUME NEW i \in 1..Len(f)
      PROVE  h[i] = f[i]
  <2>1. i \in 1..Len(a) /\ i \in 1..Len(x) /\ x[i] = a[i]
    BY <1>1, <1>3
  <2>2. i # 1 => x[i - 1] = a[i - 1]
    BY <1>1, <2>1
  <2> QED
    BY <2>1, <2>2 DEF StampPieces
<1>5. ASSUME NEW i \in 1..Len(g)
      PROVE  h[Len(f) + i] = g[i]
  <2> DEFINE j == Len(a) + i
  <2>1. i \in 1..Len(r) /\ j \in 1..Len(x) /\ x[j] = r[i]
    BY <1>1, <1>3
  <2>2. i # 1 => j # 1 /\ x[j - 1] = r[i - 1]
    <3>1. i # 1 => i - 1 \in 1..Len(r) /\ Len(a) + (i - 1) = j - 1 /\ j # 1
      BY <1>1, <2>1
    <3> HIDE DEF j
    <3> QED
      BY <1>1, <3>1
  <2>3. i = 1 => j = 1 \/ x[j - 1] = "n"
    <3>1. i = 1 /\ j # 1 => Len(a) # 0 /\ j - 1 = Len(a) /\ Len(a) \in 1..Len(a)
      BY <1>1, <2>1
    <3> HIDE DEF j
    <3> QED
      BY <1>1, <1>2, <3>1
  <2>4. h[j] = g[i]
    <3> HIDE DEF j
    <3>1. (j = 1 \/ x[j - 1] = "n") <=> (i = 1 \/ r[i - 1] = "n")
      BY <2>2, <2>3
    <3> QED
      BY <2>1, <3>1 DEF StampPieces
  <2> QED
    BY <1>3, <2>4
<1>6. Len(h) = Len(f) + Len(g)
  BY <1>1, <1>3
<1> HIDE DEF f, g, h
<1>7. FlattenSeq(h) = FlattenSeq(f) \o FlattenSeq(g)
  BY <1>3, <1>4, <1>5, <1>6, FlattenJoined
<1> QED
  BY <1>7, Zenon DEF x, Stamped, f, g, h

\* A record gets one stamp, in front.
LEMMA StampOfRecord ==
  ASSUME NEW v \in Seq(Plain), WellFormed(v)
  PROVE  Stamped(v) = <<"[ts]">> \o v
<1> DEFINE p == StampPieces(v)
           rest == SubSeq(v, 2, Len(v))
           after == SubSeq(p, 2, Len(p))
<1>1. /\ p \in Seq(Seq(TextChars)) /\ Len(p) = Len(v)
      /\ Len(v) \in Nat /\ Len(v) >= 1
      /\ \A k \in 1..Len(v) - 1 : v[k] # "n"
  BY StampInPieces DEF WellFormed
<1>2. p[1] = <<"[ts]", v[1]>>
  BY <1>1 DEF StampPieces
<1>3. ASSUME NEW k \in 1..Len(v) - 1
      PROVE  p[1 + k] = <<v[1 + k]>>
  <2>1. 1 + k \in 1..Len(v) /\ 1 + k # 1 /\ (1 + k) - 1 = k /\ v[k] # "n"
    BY <1>1
  <2> QED
    BY <2>1 DEF StampPieces
<1> HIDE DEF p
<1>4. /\ rest \in Seq(Plain) /\ Len(rest) = Len(v) - 1
      /\ \A k \in 1..Len(v) - 1 : rest[k] = v[1 + k]
  <2>1. 1 \in 0..Len(v) /\ Len(v) \in 1..Len(v) /\ 1 + 1 = 2
    BY <1>1
  <2>2. /\ SubSeq(v, 1 + 1, Len(v)) \in Seq(Plain)
        /\ Len(SubSeq(v, 1 + 1, Len(v))) = Len(v) - 1
        /\ \A k \in 1..Len(v) - 1 : SubSeq(v, 1 + 1, Len(v))[k] = v[1 + k]
    BY <2>1, Part
  <2> QED
    BY <2>1, <2>2
<1>5. /\ after \in Seq(Seq(TextChars)) /\ Len(after) = Len(v) - 1
      /\ \A k \in 1..Len(v) - 1 : after[k] = p[1 + k]
  <2>1. 1 \in 0..Len(p) /\ Len(p) \in 1..Len(p) /\ 1 + 1 = 2
    BY <1>1
  <2>2. /\ SubSeq(p, 1 + 1, Len(p)) \in Seq(Seq(TextChars))
        /\ Len(SubSeq(p, 1 + 1, Len(p))) = Len(p) - 1
        /\ \A k \in 1..Len(p) - 1 : SubSeq(p, 1 + 1, Len(p))[k] = p[1 + k]
    BY <1>1, <2>1, Part
  <2> QED
    BY <1>1, <2>1, <2>2
<1> HIDE DEF rest, after
<1>6. after = Singles(rest)
  <2>1. rest \in Seq(TextChars)
    BY <1>4, CharsOfText
  <2>2. Singles(rest) \in Seq(Seq(TextChars)) /\ Len(Singles(rest)) = Len(rest)
    BY <2>1, FlattenSingles
  <2>3. ASSUME NEW k \in 1..Len(after)
        PROVE  after[k] = Singles(rest)[k]
    <3>1. k \in 1..Len(v) - 1 /\ k \in 1..Len(rest)
      BY <1>1, <1>4, <1>5
    <3>2. after[k] = <<v[1 + k]>>
      BY <1>3, <1>5, <3>1, Zenon
    <3>3. Singles(rest)[k] = <<rest[k]>>
      BY <3>1 DEF Singles
    <3> QED
      BY <1>4, <3>1, <3>2, <3>3, Zenon
  <2> QED
    BY <1>4, <1>5, <2>2, <2>3, SeqEqual
<1>7. FlattenSeq(p) = p[1] \o FlattenSeq(after)
  <2>1. p # <<>>
    BY <1>1
  <2> QED
    BY <1>1, <2>1, FlattenFirst DEF after
<1>8. FlattenSeq(after) = rest
  BY <1>4, <1>6, FlattenSingles, Zenon
<1>9. <<"[ts]", v[1]>> \o rest = <<"[ts]">> \o v
  <2> DEFINE x == <<"[ts]", v[1]>> \o rest
             y == <<"[ts]">> \o v
  <2>1. "[ts]" \in TextChars /\ v \in Seq(TextChars) /\ rest \in Seq(TextChars)
        /\ v[1] \in TextChars
    BY <1>1, <1>4 DEF TextChars
  <2>2. /\ x \in Seq(TextChars) /\ Len(x) = Len(v) + 1
        /\ x[1] = "[ts]" /\ x[2] = v[1]
        /\ \A k \in 3..Len(v) + 1 : x[k] = rest[k - 2]
    BY <1>1, <1>4, <2>1
  <2>3. /\ y \in Seq(TextChars) /\ Len(y) = Len(v) + 1
        /\ y[1] = "[ts]"
        /\ \A k \in 2..Len(v) + 1 : y[k] = v[k - 1]
    BY <1>1, <2>1
  <2> HIDE DEF x, y
  <2>4. ASSUME NEW k \in 1..Len(x)
        PROVE  x[k] = y[k]
    <3>1. CASE k = 1
      BY <2>2, <2>3, <3>1
    <3>2. CASE k = 2
      BY <1>1, <2>2, <2>3, <3>2
    <3>3. CASE k > 2
      <4>1. k \in 3..Len(v) + 1 /\ k - 2 \in 1..Len(v) - 1 /\ 1 + (k - 2) = k - 1
        BY <1>1, <2>2, <3>3
      <4> QED
        BY <1>4, <2>2, <2>3, <4>1
    <3> QED
      BY <3>1, <3>2, <3>3
  <2>5. x = y
    BY <2>2, <2>3, <2>4, SeqEqual
  <2> QED
    BY <2>5 DEF x, y
<1> QED
  BY <1>2, <1>7, <1>8, <1>9, Zenon DEF Stamped, p

-----------------------------------------------------------------------------
(* The whole input.                                                            *)

LEMMA TextInParts ==
  ASSUME NEW input
  PROVE  TextOf(input) = IF options.precision = "None" THEN Decoded(Lf(input))
                         ELSE Stamped(Decoded(Lf(input)))
BY DEF TextOf, Lf, LfPieces, Stamped, StampPieces

\* One record more.
LEMMA TextOfOneMore ==
  ASSUME NEW a \in Seq(Bytes), EndsLine(a), NEW r \in Seq(Bytes), WellFormed(r)
  PROVE  TextOf(a \o r) = TextOf(a) \o RecordText(r)
<1> DEFINE m == Normalized(r)
           d == Decoded(m)
           b == Lf(a)
           e == Decoded(b)
<1>1. /\ m = Lf(r) /\ WellFormed(m) /\ m \in Seq(Bytes)
      /\ b \in Seq(Bytes) /\ EndsLine(b)
  BY NormalizedIsLf, NormalizedType, LfInPieces, LfEndsLine
<1>2. Lf(a \o r) = b \o m
  BY <1>1, LfOfBoth, Zenon
<1> HIDE DEF m, b
<1>3. Decoded(b \o m) = e \o d
  BY <1>1, DecodedOfBoth
<1>4. /\ e \in Seq(Plain) /\ EndsLine(e)
      /\ d \in Seq(Plain) /\ WellFormed(d)
  BY <1>1, DecodedInPieces, DecodedEndsLine, DecodedWellFormed
<1> HIDE DEF e, d
<1>5. CASE options.precision = "None"
  <2>1. TextOf(a \o r) = e \o d /\ TextOf(a) = e
    BY <1>2, <1>3, <1>5, TextInParts DEF b, e
  <2>2. RecordText(r) = <<>> \o d
    BY <1>5 DEF RecordText, Stamp, d, m
  <2>3. <<>> \o d = d
    BY <1>4
  <2> QED
    BY <2>1, <2>2, <2>3, Zenon
<1>6. CASE options.precision # "None"
  <2>1. TextOf(a \o r) = Stamped(e \o d) /\ TextOf(a) = Stamped(e)
    BY <1>2, <1>3, <1>6, TextInParts DEF b, e
  <2>2. Stamped(e \o d) = Stamped(e) \o Stamped(d)
    BY <1>4, StampOfBoth
  <2>3. Stamped(d) = <<"[ts]">> \o d
    BY <1>4, StampOfRecord
  <2>4. RecordText(r) = <<"[ts]">> \o d
    BY <1>6 DEF RecordText, Stamp, d, m
  <2> QED
    BY <2>1, <2>2, <2>3, <2>4, Zenon
<1> QED
  BY <1>5, <1>6

\* Every record but the last ends a line.
Uncut(records) ==
  /\ \A i \in 1..Len(records) : WellFormed(records[i])
  /\ \A i \in 1..Len(records) - 1 : Last(records[i]) = "n"

LEMMA TextOfRecords ==
  ASSUME NEW records \in Seq(Seq(Bytes)), Uncut(records)
  PROVE  TextOf(FlattenSeq(records)) = FlattenSeq(Texts(records))
<1> DEFINE Whole(s) ==
             /\ TextOf(FlattenSeq(s)) = FlattenSeq(Texts(s))
             /\ (\A i \in 1..Len(s) : Last(s[i]) = "n") => EndsLine(FlattenSeq(s))
           S == {s \in Seq(Seq(Bytes)) : Uncut(s) => Whole(s)}
<1>1. <<>> \in S
  <2>1. FlattenSeq(<<>>) = <<>> /\ Texts(<<>>) = <<>>
    BY FlattenEmpty DEF Texts
  <2>2. LfPieces(<<>>) = <<>> /\ DecodedPieces(<<>>) = <<>> /\ StampPieces(<<>>) = <<>>
    BY DEF LfPieces, DecodedPieces, StampPieces
  <2>3. Lf(<<>>) = <<>> /\ Stamped(<<>>) = <<>>
    BY <2>1, <2>2, Zenon DEF Lf, Stamped
  <2>4. Decoded(<<>>) = <<>>
    <3>1. <<>> \in Seq(Bytes)
      OBVIOUS
    <3> QED
      BY <2>1, <2>2, <3>1, DecodedInPieces, Zenon
  <2>5. TextOf(<<>>) = <<>>
    BY <2>3, <2>4, TextInParts, Zenon
  <2>6. TextOf(FlattenSeq(<<>>)) = FlattenSeq(Texts(<<>>))
    BY <2>1, <2>5, Zenon
  <2>7. EndsLine(FlattenSeq(<<>>))
    BY <2>1, Zenon DEF EndsLine
  <2>8. <<>> \in Seq(Seq(Bytes))
    OBVIOUS
  <2> QED
    BY <2>6, <2>7, <2>8, Zenon
<1>2. ASSUME NEW s \in Seq(Seq(Bytes)), NEW r \in Seq(Bytes), s \in S
      PROVE  Append(s, r) \in S
  <2> DEFINE t == Append(s, r)
  <2>1. /\ t \in Seq(Seq(Bytes)) /\ Len(t) = Len(s) + 1 /\ Len(s) \in Nat
        /\ \A i \in 1..Len(s) : t[i] = s[i]
        /\ t[Len(s) + 1] = r
    BY AppendProperties
  <2> HIDE DEF t
  <2> SUFFICES ASSUME Uncut(t)
               PROVE  Whole(t)
    BY <2>1 DEF t
  <2>2. \A i \in 1..Len(s) : Last(s[i]) = "n" /\ WellFormed(s[i])
    <3> SUFFICES ASSUME NEW i \in 1..Len(s)
                 PROVE  Last(s[i]) = "n" /\ WellFormed(s[i])
      OBVIOUS
    <3>1. i \in 1..Len(t) - 1 /\ i \in 1..Len(t) /\ t[i] = s[i]
      BY <2>1
    <3>2. Last(t[i]) = "n" /\ WellFormed(t[i])
      BY <3>1, Zenon DEF Uncut
    <3> QED
      BY <3>1, <3>2, Zenon
  <2>3. WellFormed(r)
    <3>1. Len(s) + 1 \in 1..Len(t)
      BY <2>1
    <3> QED
      BY <2>1, <3>1, Zenon DEF Uncut
  <2>4. Uncut(s)
    <3>1. \A i \in 1..Len(s) - 1 : i \in 1..Len(s)
      BY <2>1
    <3> QED
      BY <2>2, <3>1, Zenon DEF Uncut
  <2>5. /\ TextOf(FlattenSeq(s)) = FlattenSeq(Texts(s))
        /\ EndsLine(FlattenSeq(s))
    BY <1>2, <2>2, <2>4, Zenon
  <2>6. FlattenSeq(s) \in Seq(Bytes) /\ FlattenSeq(t) = FlattenSeq(s) \o r
    BY FlattenType, FlattenAppend DEF t
  <2>7. TextOf(FlattenSeq(t)) = FlattenSeq(Texts(s)) \o RecordText(r)
    BY <2>3, <2>5, <2>6, TextOfOneMore, Zenon
  <2>8. FlattenSeq(Texts(t)) = FlattenSeq(Texts(s)) \o RecordText(r)
    <3> DEFINE x == Texts(t)
               y == Append(Texts(s), RecordText(r))
    <3>1. /\ Texts(s) \in Seq(Seq(TextChars)) /\ Len(Texts(s)) = Len(s)
          /\ x \in Seq(Seq(TextChars)) /\ Len(x) = Len(t)
          /\ RecordText(r) \in Seq(TextChars)
      BY <2>1, TextsType, RecordTextType
    <3>2. /\ y \in Seq(Seq(TextChars)) /\ Len(y) = Len(s) + 1
          /\ \A i \in 1..Len(s) : y[i] = Texts(s)[i]
          /\ y[Len(s) + 1] = RecordText(r)
      <4> DEFINE v == Texts(s)
                 w == RecordText(r)
      <4> HIDE DEF v, w
      <4>1. /\ v \in Seq(Seq(TextChars)) /\ Len(v) = Len(s)
            /\ w \in Seq(TextChars)
        BY <3>1 DEF v, w
      <4>2. /\ Append(v, w) \in Seq(Seq(TextChars))
            /\ Len(Append(v, w)) = Len(s) + 1
            /\ \A i \in 1..Len(s) : Append(v, w)[i] = v[i]
            /\ Append(v, w)[Len(s) + 1] = w
        BY <2>1, <4>1, AppendProperties
      <4> QED
        BY <4>2 DEF v, w
    <3> HIDE DEF x, y
    <3>3. ASSUME NEW i \in 1..Len(x)
          PROVE  x[i] = y[i]
      <4>1. i \in 1..Len(t) /\ Texts(t)[i] = RecordText(t[i])
        BY <2>1, <3>1 DEF Texts
      <4>2. CASE i \in 1..Len(s)
        <5>1. Texts(s)[i] = RecordText(s[i])
          BY <4>2 DEF Texts
        <5> QED
          BY <2>1, <3>2, <4>1, <4>2, <5>1, Zenon DEF x
      <4>3. CASE i \notin 1..Len(s)
        <5>1. i = Len(s) + 1
          BY <2>1, <4>1, <4>3
        <5> QED
          BY <2>1, <3>2, <4>1, <5>1, Zenon DEF x
      <4> QED
        BY <4>2, <4>3
    <3>4. x = y
      BY <2>1, <3>1, <3>2, <3>3, SeqEqual
    <3>5. FlattenSeq(y) = FlattenSeq(Texts(s)) \o RecordText(r)
      BY <3>1, FlattenAppend DEF y
    <3> QED
      BY <3>4, <3>5, Zenon DEF x
  <2>9. ASSUME \A i \in 1..Len(t) : Last(t[i]) = "n"
        PROVE  EndsLine(FlattenSeq(t))
    <3>1. Last(r) = "n"
      <4>1. Len(s) + 1 \in 1..Len(t)
        BY <2>1
      <4> QED
        BY <2>1, <2>9, <4>1, Zenon
    <3>2. r # <<>> /\ Len(r) \in 1..Len(r) /\ r[Len(r)] = "n"
      BY <2>3, <3>1, LastOf DEF WellFormed, Last
    <3> DEFINE w == FlattenSeq(s)
    <3> HIDE DEF w
    <3>3. w \in Seq(Bytes)
      BY <2>6 DEF w
    <3>4. (w \o r)[Len(w \o r)] = "n"
      BY <3>2, <3>3
    <3>5. FlattenSeq(t) = w \o r
      BY <2>6, Zenon DEF w
    <3> QED
      BY <3>4, <3>5, Zenon DEF EndsLine
  <2> QED
    BY <2>7, <2>8, <2>9, Zenon
<1>3. Seq(Seq(Bytes)) \subseteq S
  <2> HIDE DEF S
  <2> QED
    BY <1>1, <1>2, InductiveSequences
<1> QED
  BY <1>3

\* Whatever the chunks, the flushes, the limit and the failures of the sink,
\* what is in the sink is the text of the input that was made into records, or
\* a first part of it after a failed call; the footer comes after it.
THEOREM SinkHoldsTheText == Spec => []TextIsInput
<1>1. MonitorIInv => TextIsInput
  <2> SUFFICES ASSUME MonitorIInv, ~LineWasCut
               PROVE  LET consumed == FlattenSeq(emitted)
                      IN /\ ~lost => sink = TextOf(consumed) \o Footer
                         /\ phase = "failed" => IsPrefix(sink, TextOf(consumed))
    BY DEF TextIsInput
  <2> DEFINE text == FlattenSeq(Texts(emitted))
  <2>1. emitted \in Seq(Seq(Bytes))
    BY DEF MonitorIInv, SplitterIInv, SplitterTypeOK
  <2>2. Uncut(emitted)
    BY DEF MonitorIInv, Uncut, LineWasCut
  <2>3. TextOf(FlattenSeq(emitted)) = text
    BY <2>1, <2>2, TextOfRecords
  <2>4. ~lost => sink = text \o Footer
    BY DEF MonitorIInv
  <2>5. ASSUME phase = "failed"
        PROVE  IsPrefix(sink, text)
    <3>1. sink \in Seq(TextChars) /\ StartsWith(text, sink, TextChars)
      BY <2>5 DEF MonitorIInv
    <3> HIDE DEF text
    <3>2. PICK rest \in Seq(TextChars) : text = sink \o rest
      BY <3>1 DEF StartsWith
    <3>3. /\ text \in Seq(TextChars) /\ Len(text) = Len(sink) + Len(rest)
          /\ Len(sink) \in Nat /\ Len(rest) \in Nat
          /\ \A i \in 1..Len(sink) : text[i] = sink[i]
      BY <3>1, <3>2, BothParts
    <3>4. Len(sink) \in 0..Len(text)
      BY <3>3
    <3>5. /\ SubSeq(text, 1, Len(sink)) \in Seq(TextChars)
          /\ Len(SubSeq(text, 1, Len(sink))) = Len(sink)
          /\ \A i \in 1..Len(sink) : SubSeq(text, 1, Len(sink))[i] = text[i]
      BY <3>3, <3>4, Start
    <3>6. SubSeq(text, 1, Len(sink)) = sink
      BY <3>1, <3>3, <3>5, SeqEqual
    <3>7. SubSeq(sink, 1, Len(sink)) = sink
      BY <3>1, SubSeqFull
    <3> QED
      BY <3>4, <3>6, <3>7 DEF IsPrefix
  <2> HIDE DEF text
  <2> QED
    BY <2>3, <2>4, <2>5, Zenon
<1> QED
  BY <1>1, Inductive, PTL
=============================================================================
