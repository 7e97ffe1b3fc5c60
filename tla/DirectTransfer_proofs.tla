----------------------- MODULE DirectTransfer_proofs -----------------------
(***************************************************************************)
(* Direct mode, for files, blocks, datagrams and channels of every number  *)
(* and size and any number of faults.                                      *)
(*                                                                         *)
(* Packing: the blocks of pack_files unpack to exactly the files.  The     *)
(* loop over the files keeps Covers: what the finished blocks and the      *)
(* block in progress would unpack to is the parts of the files so far,     *)
(* each part once.                                                         *)
(*                                                                         *)
(* The line: the reassembly task hands over the blocks that were sent up   *)
(* to the first block whose datagrams the network touched, and without a   *)
(* fault a receiving command that succeeds has restored the files.         *)
(***************************************************************************)
EXTENDS DirectTransfer, SequenceTheorems, NaturalsInduction, WellFoundedInduction, TLAPS

-----------------------------------------------------------------------------
(* Numbers and sequences.                                                  *)

LEMMA MinOfTwo ==
    ASSUME NEW a \in Int, NEW b \in Int
    PROVE  Min({a, b}) = IF a <= b THEN a ELSE b
BY DEF Min

LEMMA PartIs ==
    ASSUME NEW S, NEW s \in Seq(S), NEW a \in Nat, NEW b \in Nat, a <= b, b <= Len(s)
    PROVE  /\ SubSeq(s, a + 1, b) \in Seq(S) /\ Len(SubSeq(s, a + 1, b)) = b - a
           /\ \A i \in 1 .. Len(SubSeq(s, a + 1, b)) : SubSeq(s, a + 1, b)[i] = s[a + i]
<1>1. \A i \in a + 1 .. b : s[i] \in S
  OBVIOUS
<1> DEFINE m == a + 1
           t == SubSeq(s, m, b)
<1>2. m \in Int /\ b - m + 1 = b - a /\ (m <= b \/ b - a = 0)
  OBVIOUS
<1>3. \A i \in 1 .. b - a : m + i - 1 = a + i
  OBVIOUS
<1> HIDE DEF m
<1>4. \A i \in m .. b : s[i] \in S
  BY <1>1 DEF m
<1>5. /\ t \in Seq(S) /\ Len(t) = IF m <= b THEN b - m + 1 ELSE 0
      /\ \A i \in 1 .. b - m + 1 : t[i] = s[m + i - 1]
  BY <1>2, <1>4, SubSeqProperties
<1> HIDE DEF t
<1>6. Len(t) = b - a
  BY <1>2, <1>5
<1>7. \A i \in 1 .. b - a : t[i] = s[a + i]
  BY <1>2, <1>3, <1>5
<1> QED
  BY <1>5, <1>6, <1>7 DEF t, m

LEMMA TimesGrows ==
    ASSUME NEW j \in Nat, NEW k \in Nat, j <= k, NEW m \in Nat
    PROVE  j * m <= k * m /\ j * m \in Nat
BY Z3

LEMMA OneMore ==
    ASSUME NEW k \in Int, NEW m \in Nat
    PROVE  (k - 1) * m + m = k * m /\ (k - 1) * m \in Int /\ k * m \in Int
BY Z3

LEMMA DivCeil ==
    ASSUME NEW n \in Nat, NEW m \in Nat \ {0}
    PROVE  LET q == (n + m - 1) \div m
           IN  q \in Nat /\ q * m <= n + m - 1 /\ n <= q * m
BY Z3

\* All chunks but the last are followed by another; the last ends the frame.
LEMMA ChunksCover ==
    ASSUME NEW n \in Nat \ {0}, NEW m \in Nat \ {0}, NEW q, q = (n + m - 1) \div m
    PROVE  /\ q \in Nat \ {0}
           /\ \A k \in 1 .. q : (k - 1) * m \in Nat /\ (k - 1) * m < n
           /\ \A k \in 1 .. q : k < q => k * m < n
           /\ n <= q * m
<1>1. q \in Nat /\ q * m <= n + m - 1 /\ n <= q * m
  BY DivCeil
<1>2. q # 0
  BY <1>1
<1>3. ASSUME NEW k \in 1 .. q
      PROVE  (k - 1) * m \in Nat /\ (k - 1) * m < n
  <2>1. (k - 1) * m <= (q - 1) * m /\ (k - 1) * m \in Nat
    BY <1>1, <1>2, TimesGrows
  <2>2. (q - 1) * m + m = q * m /\ (q - 1) * m \in Int
    BY <1>1, OneMore
  <2> QED
    BY <1>1, <2>1, <2>2
<1>4. ASSUME NEW k \in 1 .. q, k < q
      PROVE  k * m < n
  <2>0. k \in Nat /\ k >= 1
    BY <1>1
  <2>1. k + 1 \in 1 .. q /\ (k + 1) - 1 = k
    BY <2>0, <1>1, <1>4
  <2> QED
    BY <2>1, <1>3
<1> QED
  BY <1>1, <1>2, <1>3, <1>4

-----------------------------------------------------------------------------
(* Induction and recursion.                                                *)

\* Induction for a set, from the least number that is not in it.
LEMMA SetInduction ==
    ASSUME NEW S, 0 \in S, \A n \in Nat : n \in S => n + 1 \in S
    PROVE  Nat \subseteq S
<1>. DEFINE G == Nat \ S
<1>. SUFFICES ASSUME NEW x \in G PROVE FALSE
  OBVIOUS
<1>1. PICK n \in G : \A k \in G : << k, n >> \notin OpToRel(<, Nat)
  BY WFMin, NatLessThanWellFounded, Zenon
<1>2. \A k \in G : ~ (k < n)
  BY <1>1, Zenon DEF OpToRel
<1>3. n # 0 /\ n - 1 \in Nat /\ n - 1 < n
  OBVIOUS
<1>4. n - 1 \in S
  BY <1>2, <1>3
<1>5. (n - 1) + 1 = n
  OBVIOUS
<1>. QED
  BY <1>3, <1>4, <1>5

\* f[n] is the value of A after n of the N rounds of a loop.
History(f, A, start, N, step) ==
    /\ f \in [0 .. N -> A]
    /\ f[0] = start
    /\ \A n \in 1 .. N : f[n] = step[n][f[n - 1]]

\* A loop has a history.
LEMMA LoopHistory ==
    ASSUME NEW A, NEW start \in A, NEW N \in Nat, NEW step \in [1 .. N -> [A -> A]]
    PROVE  \E f : History(f, A, start, N, step)
<1>. DEFINE Upto(m) == \E f \in [0 .. m -> A] :
                           f[0] = start /\ \A n \in 1 .. m : f[n] = step[n][f[n - 1]]
            S == {m \in Nat : m <= N => Upto(m)}
<1>1. 0 \in S
  <2>. DEFINE g == [i \in 0 .. 0 |-> start]
  <2>1. g \in [0 .. 0 -> A] /\ g[0] = start /\ \A n \in 1 .. 0 : FALSE
    OBVIOUS
  <2>2. Upto(0)
    BY <2>1
  <2>. QED
    BY <2>2
<1>2. ASSUME NEW m \in Nat, m \in S
      PROVE  m + 1 \in S
  <2>. SUFFICES ASSUME m + 1 <= N PROVE Upto(m + 1)
    OBVIOUS
  <2>1. Upto(m)
    BY <1>2
  <2>2. PICK f \in [0 .. m -> A] : f[0] = start /\ \A n \in 1 .. m : f[n] = step[n][f[n - 1]]
    BY <2>1
  <2>. DEFINE g == [i \in 0 .. (m + 1) |-> IF i = m + 1 THEN step[m + 1][f[m]] ELSE f[i]]
  <2>3. m + 1 \in 1 .. N /\ m \in 0 .. m
    OBVIOUS
  <2>4. step[m + 1][f[m]] \in A
    BY <2>2, <2>3
  <2>5. g \in [0 .. (m + 1) -> A]
    BY <2>2, <2>4
  <2>6. g[0] = start
    BY <2>2
  <2>7. ASSUME NEW n \in 1 .. (m + 1)
        PROVE  g[n] = step[n][g[n - 1]]
    <3>1. n - 1 \in 0 .. m /\ g[n - 1] = f[n - 1]
      OBVIOUS
    <3>2. CASE n = m + 1
      BY <3>1, <3>2
    <3>3. CASE n # m + 1
      BY <3>1, <3>3, <2>2
    <3>. QED
      BY <3>2, <3>3
  <2>. HIDE DEF g
  <2>. QED
    BY <2>5, <2>6, <2>7
<1>. HIDE DEF S
<1>3. Nat \subseteq S
  BY <1>1, <1>2, SetInduction
<1>4. N \in S
  BY <1>3
<1>. QED
  BY <1>4 DEF S, History

\* There is only one.
LEMMA OneHistory ==
    ASSUME NEW N \in Nat, NEW f, NEW g, f[0] = g[0],
           \A n \in 1 .. N : f[n - 1] = g[n - 1] => f[n] = g[n]
    PROVE  \A n \in 0 .. N : f[n] = g[n]
<1>. DEFINE S == {m \in Nat : m <= N => f[m] = g[m]}
<1>1. 0 \in S
  OBVIOUS
<1>2. ASSUME NEW m \in Nat, m \in S
      PROVE  m + 1 \in S
  <2>. SUFFICES ASSUME m + 1 <= N PROVE f[m + 1] = g[m + 1]
    OBVIOUS
  <2>1. m + 1 \in 1 .. N /\ (m + 1) - 1 = m /\ f[m] = g[m]
    BY <1>2
  <2>. QED
    BY <2>1
<1>. HIDE DEF S
<1>3. Nat \subseteq S
  BY <1>1, <1>2, SetInduction
<1>. QED
  BY <1>3 DEF S

-----------------------------------------------------------------------------
(* FlattenSeq.                                                             *)

\* f[n] is the first n of the sequences, put together.
Joins(f, seqs, T) ==
    /\ f \in [0 .. Len(seqs) -> Seq(T)]
    /\ f[0] = << >>
    /\ \A n \in 1 .. Len(seqs) : f[n] = f[n - 1] \o seqs[n]

\* FlattenSeq is the last of the joins.
LEMMA FlattenIs ==
    ASSUME NEW T, NEW seqs \in Seq(Seq(T))
    PROVE  \E f : Joins(f, seqs, T) /\ FlattenSeq(seqs) = f[Len(seqs)]
<1>. DEFINE N == Len(seqs)
            A == Seq(T)
            step == [n \in 1 .. N |-> [x \in A |-> x \o seqs[n]]]
<1>0. N \in Nat /\ << >> \in A /\ \A n \in 1 .. N : seqs[n] \in A
  OBVIOUS
<1>1. step \in [1 .. N -> [A -> A]]
  <2>1. \A n \in 1 .. N : \A x \in A : x \o seqs[n] \in A
    BY <1>0
  <2>. HIDE DEF A
  <2>. QED
    BY <2>1
<1>7. \A s \in A : << >> \o s = s
  BY ConcatEmptySeq
<1>. HIDE DEF A
<1>2. PICK f \in [0 .. N -> A] : f[0] = << >> /\ \A n \in 1 .. N : f[n] = step[n][f[n - 1]]
  <2>. HIDE DEF step, N
  <2>. QED
    <3>1. \E f : History(f, A, << >>, N, step)
      BY <1>0, <1>1, LoopHistory
    <3>. QED
      BY <3>1 DEF History
<1>3. ASSUME NEW n \in 1 .. N
      PROVE  f[n] = f[n - 1] \o seqs[n] /\ f[n - 1] \in A /\ f[n] \in A
  <2>1. n - 1 \in 0 .. N /\ n \in 0 .. N
    BY <1>0
  <2>. QED
    BY <1>2, <2>1
<1>4. Joins(f, seqs, T)
  BY <1>2, <1>3 DEF Joins, A
<1>5. CASE N = 0
  <2>1. seqs = << >>
    BY <1>5
  <2>. QED
    BY <1>4, <1>5, <2>1, <1>2 DEF FlattenSeq
<1>6. CASE N # 0
  <2>. DEFINE F(h) == h = [i \in 1 .. N |-> IF i = 1 THEN seqs[i] ELSE h[i - 1] \o seqs[i]]
              flat == CHOOSE h : F(h)
              g == [i \in 1 .. N |-> f[i]]
  <2>1. FlattenSeq(seqs) = flat[N]
    BY <1>6, Zenon DEF FlattenSeq
  <2>2. F(g)
    <3>1. ASSUME NEW i \in 1 .. N
          PROVE  f[i] = IF i = 1 THEN seqs[i] ELSE g[i - 1] \o seqs[i]
      <4>1. CASE i = 1
        <5>0. i - 1 = 0
          BY <4>1
        <5>1. f[i] = f[0] \o seqs[i]
          BY <5>0, <1>3, Zenon
        <5>. QED
          BY <5>1, <4>1, <1>2, <1>0, <1>7
      <4>2. CASE i # 1
        <5>1. i - 1 \in 1 .. N
          BY <4>2, <1>0
        <5>. QED
          BY <4>2, <5>1, <1>3
      <4>. QED
        BY <4>1, <4>2
    <3>. QED
      BY <3>1
  <2>3. F(flat)
    <3>. HIDE DEF F
    <3>. QED
      BY <2>2, Zenon
  <2>. DEFINE h == [i \in 0 .. N |-> IF i = 0 THEN << >> ELSE flat[i]]
  <2>4. ASSUME NEW n \in 1 .. N, f[n - 1] = h[n - 1]
        PROVE  f[n] = h[n]
    <3>. HIDE DEF flat
    <3>1. flat[n] = IF n = 1 THEN seqs[n] ELSE flat[n - 1] \o seqs[n]
      BY <2>3, Zenon
    <3>2. n \in 0 .. N /\ n - 1 \in 0 .. N /\ n # 0
      BY <1>0
    <3>3. h[n] = flat[n] /\ h[n - 1] = IF n = 1 THEN << >> ELSE flat[n - 1]
      BY <3>2
    <3>4. CASE n = 1
      <4>0. n - 1 = 0
        BY <3>4
      <4>1. f[n] = f[0] \o seqs[n]
        BY <4>0, <1>3, Zenon
      <4>. QED
        BY <4>1, <3>1, <3>3, <3>4, <1>2, <1>0, <1>7
    <3>5. CASE n # 1
      BY <3>1, <3>3, <3>5, <2>4, <1>3
    <3>. QED
      BY <3>4, <3>5
  <2>5. f[0] = h[0]
    BY <1>2, <1>0
  <2>6. \A n \in 0 .. N : f[n] = h[n]
    <3>. HIDE DEF h
    <3>. QED
      BY <2>4, <2>5, <1>0, OneHistory
  <2>7. f[N] = flat[N]
    <3>. HIDE DEF flat
    <3>. QED
      BY <2>6, <1>6, <1>0
  <2>. QED
    BY <1>4, <2>1, <2>7
<1>. QED
  BY <1>5, <1>6

\* Whatever joins the sequences ends with FlattenSeq of them.
LEMMA FlattenEnds ==
    ASSUME NEW T, NEW seqs \in Seq(Seq(T)), NEW f, Joins(f, seqs, T)
    PROVE  FlattenSeq(seqs) = f[Len(seqs)]
<1>1. PICK g : Joins(g, seqs, T) /\ FlattenSeq(seqs) = g[Len(seqs)]
  BY FlattenIs
<1>2. \A n \in 1 .. Len(seqs) : f[n - 1] = g[n - 1] => f[n] = g[n]
  BY <1>1 DEF Joins
<1>3. Len(seqs) \in Nat /\ f[0] = g[0]
  BY <1>1 DEF Joins
<1>4. \A n \in 0 .. Len(seqs) : f[n] = g[n]
  BY <1>2, <1>3, OneHistory
<1>. QED
  BY <1>1, <1>3, <1>4

LEMMA FlattenType ==
    ASSUME NEW T, NEW seqs \in Seq(Seq(T))
    PROVE  FlattenSeq(seqs) \in Seq(T)
<1>1. PICK f : Joins(f, seqs, T) /\ FlattenSeq(seqs) = f[Len(seqs)]
  BY FlattenIs
<1>2. Len(seqs) \in 0 .. Len(seqs)
  OBVIOUS
<1>. QED
  BY <1>1, <1>2 DEF Joins

LEMMA FlattenEmpty == FlattenSeq(<< >>) = << >>
  BY DEF FlattenSeq

\* More sequences at the end, whose own joins are g.
LEMMA FlattenMore ==
    ASSUME NEW T, NEW s \in Seq(Seq(T)), NEW t \in Seq(Seq(T)), NEW g, Joins(g, t, T)
    PROVE  FlattenSeq(s \o t) = FlattenSeq(s) \o g[Len(t)]
<1>0. \A a, b, c \in Seq(T) : (a \o b) \o c = a \o (b \o c)
  BY ConcatAssociative
<1>. DEFINE m == Len(s)
            n == Len(t)
<1>1. PICK f : Joins(f, s, T) /\ FlattenSeq(s) = f[m]
  BY FlattenIs
<1>2. /\ m \in Nat /\ n \in Nat /\ s \o t \in Seq(Seq(T)) /\ Len(s \o t) = m + n
      /\ \A i \in 1 .. m : s[i] \in Seq(T) /\ (s \o t)[i] = s[i]
      /\ \A i \in 1 .. n : t[i] \in Seq(T)
      /\ \A i \in (m + 1) .. (m + n) : (s \o t)[i] = t[i - m]
  OBVIOUS
<1>3. /\ f \in [0 .. m -> Seq(T)] /\ f[0] = << >>
      /\ \A i \in 1 .. m : f[i] = f[i - 1] \o s[i]
  BY <1>1 DEF Joins
<1>4. /\ g \in [0 .. n -> Seq(T)] /\ g[0] = << >>
      /\ \A i \in 1 .. n : g[i] = g[i - 1] \o t[i]
  BY DEF Joins
<1>. HIDE DEF m, n
<1>. DEFINE h == [i \in 0 .. (m + n) |-> IF i <= m THEN f[i] ELSE f[m] \o g[i - m]]
<1>5. f[m] \in Seq(T) /\ \A i \in 0 .. n : g[i] \in Seq(T)
  BY <1>2, <1>3, <1>4
<1>6. h \in [0 .. (m + n) -> Seq(T)]
  <2>1. ASSUME NEW i \in 0 .. (m + n), ~ (i <= m)
        PROVE  f[m] \o g[i - m] \in Seq(T)
    <3>1. i - m \in 0 .. n
      BY <1>2, <2>1
    <3>. QED
      BY <3>1, <1>5
  <2>2. \A i \in 0 .. (m + n) : i <= m => f[i] \in Seq(T)
    BY <1>2, <1>3
  <2>. QED
    BY <2>1, <2>2
<1>7. h[0] = << >>
  BY <1>2, <1>3
<1>8. ASSUME NEW i \in 1 .. (m + n)
      PROVE  h[i] = h[i - 1] \o (s \o t)[i]
  <2>0. i \in 0 .. (m + n) /\ i - 1 \in 0 .. (m + n) /\ i \in Nat
    BY <1>2
  <2>1. CASE i <= m
    <3>1. i \in 1 .. m /\ i - 1 <= m
      BY <2>1, <1>2
    <3>. QED
      BY <2>0, <2>1, <3>1, <1>2, <1>3
  <2>2. CASE i = m + 1
    <3>1. 1 \in 1 .. n /\ i - m = 1 /\ i - 1 = m /\ ~ (i <= m) /\ i \in (m + 1) .. (m + n)
      BY <2>2, <2>0, <1>2
    <3>2. h[i] = f[m] \o g[i - m] /\ h[i - 1] = f[i - 1] /\ (s \o t)[i] = t[i - m]
      <4>1. i - 1 <= m
        BY <3>1, <1>2
      <4>2. h[i] = f[m] \o g[i - m]
        BY <3>1, <2>0
      <4>3. h[i - 1] = f[i - 1]
        BY <4>1, <2>0
      <4>4. (s \o t)[i] = t[i - m]
        BY <3>1, <1>2
      <4>. QED
        BY <4>2, <4>3, <4>4
    <3>4. h[i] = f[m] \o g[1] /\ h[i - 1] = f[m] /\ (s \o t)[i] = t[1]
      <4>. HIDE DEF h
      <4>. QED
        BY <3>1, <3>2, Zenon
    <3>3. g[1] = t[1]
      <4>1. 1 - 1 = 0
        OBVIOUS
      <4>2. g[1] = g[0] \o t[1]
        BY <4>1, <3>1, <1>4, Zenon
      <4>. QED
        BY <4>2, <3>1, <1>2, <1>4, ConcatEmptySeq
    <3>. QED
      BY <3>4, <3>3, Zenon
  <2>3. CASE ~ (i <= m) /\ i # m + 1
    <3>1. /\ i - m \in 1 .. n /\ (i - 1) - m = (i - m) - 1 /\ ~ (i - 1 <= m)
          /\ i \in (m + 1) .. (m + n) /\ (i - m) - 1 \in 0 .. n
      BY <2>3, <2>0, <1>2
    <3>2. h[i] = f[m] \o g[i - m] /\ h[i - 1] = f[m] \o g[(i - m) - 1] /\ (s \o t)[i] = t[i - m]
      BY <3>1, <2>3, <2>0, <1>2
    <3>. DEFINE k == i - m
    <3>. HIDE DEF k
    <3>3. k \in 1 .. n /\ k - 1 \in 0 .. n
      BY <3>1 DEF k
    <3>4. g[k] = g[k - 1] \o t[k] /\ g[k - 1] \in Seq(T) /\ t[k] \in Seq(T)
      BY <3>3, <1>2, <1>4, <1>5
    <3>5. (f[m] \o g[k - 1]) \o t[k] = f[m] \o (g[k - 1] \o t[k])
      BY <1>0, <3>4, <1>5, Zenon
    <3>. QED
      BY <3>2, <3>4, <3>5 DEF k
  <2>. QED
    BY <2>1, <2>2, <2>3
<1>. HIDE DEF h
<1>9. Joins(h, s \o t, T)
  BY <1>2, <1>6, <1>7, <1>8 DEF Joins
<1>10. FlattenSeq(s \o t) = h[m + n]
  BY <1>2, <1>9, FlattenEnds
<1>11. h[m + n] = f[m] \o g[n]
  <2>1. m + n \in 0 .. (m + n) /\ (m + n) - m = n /\ (m + n <= m => n = 0 /\ m + n = m)
    BY <1>2
  <2>2. h[m + n] = IF m + n <= m THEN f[m + n] ELSE f[m] \o g[n]
    BY <2>1 DEF h
  <2>3. m + n <= m => f[m] \o g[n] = f[m]
    BY <2>1, <1>4, <1>5, ConcatEmptySeq
  <2>. QED
    BY <2>1, <2>2, <2>3
<1>. QED
  BY <1>1, <1>10, <1>11 DEF m, n

LEMMA FlattenAppend ==
    ASSUME NEW T, NEW s \in Seq(Seq(T)), NEW e \in Seq(T)
    PROVE  FlattenSeq(Append(s, e)) = FlattenSeq(s) \o e
<1>. DEFINE t == << e >>
            g == [i \in 0 .. 1 |-> IF i = 0 THEN << >> ELSE e]
<1>1. t \in Seq(Seq(T)) /\ Len(t) = 1 /\ t[1] = e
  OBVIOUS
<1>2. Joins(g, t, T)
  <2>1. g \in [0 .. 1 -> Seq(T)] /\ g[0] = << >> /\ g[1] = e
    OBVIOUS
  <2>2. ASSUME NEW n \in 1 .. 1 PROVE g[n] = g[n - 1] \o t[n]
    <3>1. n = 1 /\ n - 1 = 0
      OBVIOUS
    <3>2. << >> \o e = e
      BY ConcatEmptySeq
    <3>. HIDE DEF g, t
    <3>. QED
      BY <3>1, <3>2, <2>1, <1>1
  <2>. HIDE DEF g, t
  <2>. QED
    BY <2>1, <2>2, <1>1 DEF Joins
<1>3. g[1] = e /\ Append(s, e) = s \o t
  BY AppendIsConcat
<1>. HIDE DEF g, t
<1>4. FlattenSeq(s \o t) = FlattenSeq(s) \o g[1]
  BY <1>1, <1>2, FlattenMore
<1>. QED
  BY <1>3, <1>4

\* Sequences of one element each add just these elements.
LEMMA FlattenSingles ==
    ASSUME NEW T, NEW s \in Seq(Seq(T)), NEW x \in Seq(T), NEW t \in Seq(Seq(T)),
           Len(t) = Len(x), \A k \in 1 .. Len(x) : t[k] = << x[k] >>
    PROVE  FlattenSeq(s \o t) = FlattenSeq(s) \o x
<1>. DEFINE n == Len(x)
            g == [i \in 0 .. n |-> SubSeq(x, 1, i)]
<1>1. n \in Nat /\ \A k \in 1 .. n : x[k] \in T
  OBVIOUS
<1>2. t \in Seq(Seq(T)) /\ Len(t) = n /\ \A k \in 1 .. n : t[k] = << x[k] >>
  BY <1>1
<1>3. g \in [0 .. n -> Seq(T)] /\ g[0] = << >>
  <2>1. \A i \in 0 .. n : SubSeq(x, 1, i) \in Seq(T)
    BY <1>1
  <2>2. SubSeq(x, 1, 0) = << >> /\ 0 \in 0 .. n
    BY <1>1, SubSeqEmpty
  <2>. QED
    BY <2>1, <2>2
<1>4. ASSUME NEW i \in 1 .. n PROVE g[i] = g[i - 1] \o t[i]
  <2>1. i \in 0 .. n /\ i - 1 \in 0 .. n /\ 1 \in 1 .. n /\ i \in 1 .. n
    BY <1>1
  <2>2. SubSeq(x, 1, i) = SubSeq(x, 1, i - 1) \o << x[i] >>
    BY <2>1, SubSeqRecursiveSecond
  <2>. QED
    BY <2>1, <2>2, <1>2
<1>5. g[n] = x
  BY <1>1, SubSeqFull
<1>. HIDE DEF g, n
<1>6. Joins(g, t, T)
  BY <1>2, <1>3, <1>4 DEF Joins
<1>7. FlattenSeq(s \o t) = FlattenSeq(s) \o g[Len(t)]
  BY <1>2, <1>6, FlattenMore
<1>. QED
  BY <1>2, <1>5, <1>7

-----------------------------------------------------------------------------
(* Blocks, and what they unpack to.                                        *)

Entry == [kind : {"entry"}, path : Nat, offset : Nat, size : Nat,
          part_index : Nat, total_parts : Nat]
ByteCell == [kind : {"byte"}, path : Nat, at : Nat]

\* What unpacking yields for an entry.
Item == [entry : Entry, data : Seq(ByteCell)]

\* Entries that lie within their payload.
Fit(entries, payload) ==
    /\ entries \in Seq(Entry) /\ payload \in Seq(ByteCell)
    /\ \A i \in 1 .. Len(entries) : entries[i].offset + entries[i].size <= Len(payload)

ItemOf(entry, payload) ==
    [entry |-> entry, data |-> SubSeq(payload, entry.offset + 1, entry.offset + entry.size)]

\* What a block of these entries and this payload unpacks to.
ItemsOf(entries, payload) == [i \in 1 .. Len(entries) |-> ItemOf(entries[i], payload)]

\* What Unpacked takes from a block.
Yield(block) ==
    LET r == unpack_entries(block) IN IF r = {} THEN << >> ELSE CHOOSE x \in r : TRUE

LEMMA EntryIs ==
    ASSUME NEW e \in Entry
    PROVE  /\ e.kind = "entry" /\ e.path \in Nat /\ e.offset \in Nat /\ e.size \in Nat
           /\ e.part_index \in Nat /\ e.total_parts \in Nat
BY DEF Entry

\* Entries within the payload yield items.
LEMMA ItemTypes ==
    ASSUME NEW e, NEW p, Fit(e, p)
    PROVE  /\ ItemsOf(e, p) \in Seq(Item) /\ Len(ItemsOf(e, p)) = Len(e)
           /\ \A i \in 1 .. Len(e) : ItemsOf(e, p)[i] = ItemOf(e[i], p)
<1>1. e \in Seq(Entry) /\ p \in Seq(ByteCell) /\ Len(e) \in Nat
  BY DEF Fit
<1>2. ASSUME NEW i \in 1 .. Len(e)
      PROVE  ItemOf(e[i], p) \in Item
  <2>1. e[i] \in Entry /\ e[i].offset + e[i].size <= Len(p)
    BY <1>1 DEF Fit
  <2>2. e[i].offset \in Nat /\ e[i].size \in Nat
    BY <2>1, EntryIs
  <2>. DEFINE a == e[i].offset
              b == e[i].offset + e[i].size
  <2>3. a \in Nat /\ b \in Nat /\ a <= b /\ b <= Len(p)
    BY <2>1, <2>2
  <2>. HIDE DEF a, b
  <2>4. SubSeq(p, a + 1, b) \in Seq(ByteCell)
    BY <2>3, <1>1, PartIs
  <2>. QED
    BY <2>1, <2>4 DEF Item, ItemOf, a, b
<1>. QED
  BY <1>1, <1>2 DEF ItemsOf

LEMMA ConcatIs ==
    ASSUME NEW S, NEW s \in Seq(S), NEW t \in Seq(S), NEW r, r = s \o t
    PROVE  /\ r \in Seq(S) /\ Len(r) = Len(s) + Len(t)
           /\ \A i \in 1 .. Len(s) : r[i] = s[i]
           /\ \A i \in 1 .. Len(t) : r[Len(s) + i] = t[i]
<1>1. ASSUME NEW i \in 1 .. Len(t)
      PROVE  (s \o t)[Len(s) + i] = t[i]
  <2>1. Len(s) + i \in 1 .. Len(s) + Len(t) /\ ~ (Len(s) + i <= Len(s)) /\ (Len(s) + i) - Len(s) = i
    OBVIOUS
  <2>. QED
    BY <2>1, ConcatProperties
<1>. QED
  BY <1>1

LEMMA ThreeIn ==
    ASSUME NEW S, NEW x \in S, NEW s \in Seq(S), NEW t \in Seq(S), NEW b, b = << x >> \o s \o t
    PROVE  /\ b \in Seq(S) /\ Len(b) = 1 + Len(s) + Len(t) /\ b[1] = x
           /\ \A i \in 1 .. Len(s) : b[i + 1] = s[i]
           /\ \A i \in 1 .. Len(t) : b[(1 + Len(s)) + i] = t[i]
<1>. DEFINE h == << x >>
            hs == h \o s
<1>0. h \in Seq(S)
  OBVIOUS
<1>1. Len(h) = 1 /\ h[1] = x
  OBVIOUS
<1>. HIDE DEF h
<1>2. /\ hs \in Seq(S) /\ Len(hs) = Len(h) + Len(s) /\ \A i \in 1 .. Len(h) : hs[i] = h[i]
      /\ \A i \in 1 .. Len(s) : hs[Len(h) + i] = s[i]
  BY <1>0, ConcatIs
<1>3. b = hs \o t
  BY DEF h
<1>. HIDE DEF hs
<1>7. hs \in Seq(S)
  BY <1>2
<1>4. /\ b \in Seq(S) /\ Len(b) = Len(hs) + Len(t) /\ \A i \in 1 .. Len(hs) : b[i] = hs[i]
      /\ \A i \in 1 .. Len(t) : b[Len(hs) + i] = t[i]
  <2>. DEFINE c == hs \o t
  <2>1. /\ c \in Seq(S) /\ Len(c) = Len(hs) + Len(t) /\ \A i \in 1 .. Len(hs) : c[i] = hs[i]
        /\ \A i \in 1 .. Len(t) : c[Len(hs) + i] = t[i]
    BY <1>7, ConcatIs
  <2>2. b = c
    BY <1>3
  <2>. HIDE DEF c
  <2>. QED
    BY <2>1, <2>2, Zenon
<1>5. \A i \in 1 .. Len(s) : 1 + i \in 1 .. Len(hs) /\ i + 1 = 1 + i
  BY <1>1, <1>2
<1>6. ASSUME NEW i \in 1 .. Len(s) PROVE b[i + 1] = s[i]
  BY <1>1, <1>2, <1>4, <1>5
<1>. QED
  BY <1>1, <1>2, <1>4, <1>6

\* Header, manifest and payload of a block, by position.
LEMMA SerialiseIs ==
    ASSUME NEW id \in Nat, NEW e, NEW p, Fit(e, p), NEW b, b = serialise(id, e, p)
    PROVE  /\ b \in Seq(Cell) /\ Len(b) = 1 + Len(e) + Len(p)
           /\ b[1] = HeadCell(id, Len(e))
           /\ \A i \in 1 .. Len(e) : b[i + 1] = e[i]
           /\ \A i \in 1 .. Len(p) : b[(1 + Len(e)) + i] = p[i]
<1>1. e \in Seq(Cell) /\ p \in Seq(Cell)
  <2>1. Entry \subseteq Cell /\ ByteCell \subseteq Cell
    BY DEF Entry, ByteCell, Cell
  <2>. QED
    BY <2>1, SeqMonotonic DEF Fit
<1>. DEFINE x == HeadCell(id, Len(e))
<1>2. x \in Cell
  BY <1>1 DEF HeadCell, Cell
<1>3. b = << x >> \o e \o p
  BY DEF serialise
<1>. HIDE DEF x
<1>. QED
  BY <1>1, <1>2, <1>3, ThreeIn DEF x

\* What a block was made of comes out of it.
LEMMA UnpackSerialise ==
    ASSUME NEW id \in Nat, NEW e, NEW p, Fit(e, p), NEW b, b = serialise(id, e, p)
    PROVE  unpack_entries(b) = {ItemsOf(e, p)} /\ Yield(b) = ItemsOf(e, p)
<1>1. /\ b \in Seq(Cell) /\ Len(b) = 1 + Len(e) + Len(p) /\ b[1] = HeadCell(id, Len(e))
      /\ \A i \in 1 .. Len(e) : b[i + 1] = e[i]
      /\ \A i \in 1 .. Len(p) : b[(1 + Len(e)) + i] = p[i]
  BY SerialiseIs
<1>2. e \in Seq(Entry) /\ p \in Seq(ByteCell) /\ Len(e) \in Nat /\ Len(p) \in Nat
  BY DEF Fit
<1>3. b # << >> /\ b[1].kind = "head" /\ b[1].entry_count = Len(e)
  BY <1>1, <1>2 DEF HeadCell
<1>. DEFINE n == b[1].entry_count
            manifest == SubSeq(b, 2, n + 1)
            start(x) == 1 + n + x.offset
            data(x) == SubSeq(b, start(x) + 1, start(x) + x.size)
            all == [i \in 1 .. n |-> [entry |-> manifest[i], data |-> data(manifest[i])]]
            Sound == /\ Len(b) >= n + 1
                     /\ \A i \in 1 .. n : manifest[i].kind = "entry"
                     /\ \A i \in 1 .. n : start(manifest[i]) + manifest[i].size <= Len(b)
<1>4. unpack_entries(b) = IF b = << >> \/ b[1].kind # "head" THEN {} ELSE IF Sound THEN {all} ELSE {}
  BY Zenon DEF unpack_entries
<1>0. n = Len(e)
  BY <1>3
<1>. HIDE DEF n
<1>5. Len(manifest) = n /\ \A i \in 1 .. n : manifest[i] = e[i]
  <2>1. 1 \in Nat /\ n + 1 \in Nat /\ 1 <= n + 1 /\ n + 1 <= Len(b) /\ 1 + 1 = 2 /\ (n + 1) - 1 = n
    BY <1>0, <1>1, <1>2
  <2>. DEFINE m == SubSeq(b, 1 + 1, n + 1)
  <2>2. Len(m) = (n + 1) - 1 /\ \A i \in 1 .. Len(m) : m[i] = b[1 + i]
    BY <2>1, <1>1, PartIs
  <2>3. \A i \in 1 .. n : 1 + i = i + 1
    BY <1>0, <1>2
  <2>4. m = manifest
    BY <2>1
  <2>. HIDE DEF m, manifest
  <2>5. Len(m) = n /\ \A i \in 1 .. n : m[i] = b[i + 1]
    BY <2>1, <2>2, <2>3
  <2>. QED
    BY <2>4, <2>5, <1>0, <1>1
<1>6. ASSUME NEW i \in 1 .. n
      PROVE  /\ e[i] \in Entry /\ start(e[i]) + e[i].size <= Len(b)
             /\ data(e[i]) = SubSeq(p, e[i].offset + 1, e[i].offset + e[i].size)
  <2>1. e[i] \in Entry /\ e[i].offset + e[i].size <= Len(p)
    BY <1>0, <1>2 DEF Fit
  <2>. DEFINE a == e[i].offset
              z == e[i].size
              c == a + z
              a1 == 1 + n + a
              c1 == 1 + n + a + z
              u == SubSeq(b, a1 + 1, c1)
              v == SubSeq(p, a + 1, c)
  <2>2. a \in Nat /\ z \in Nat /\ a + z <= Len(p) /\ n \in Nat /\ Len(b) = 1 + n + Len(p)
    BY <2>1, <1>0, <1>1, <1>2, EntryIs
  <2>. HIDE DEF a, z
  <2>3. /\ a \in Nat /\ c \in Nat /\ a <= c /\ c <= Len(p)
        /\ a1 \in Nat /\ c1 \in Nat /\ a1 <= c1 /\ c1 <= Len(b)
    BY <2>2, <1>2
  <2>9. c1 - a1 = c - a /\ a1 = (1 + n) + a
    BY <2>2
  <2>. HIDE DEF c, a1, c1
  <2>4. u \in Seq(Cell) /\ Len(u) = c1 - a1 /\ \A j \in 1 .. Len(u) : u[j] = b[a1 + j]
    <3>1. b \in Seq(Cell)
      BY <1>1
    <3>2. a1 \in Nat /\ c1 \in Nat /\ a1 <= c1 /\ c1 <= Len(b)
      BY <2>3
    <3>. HIDE DEF Sound, all, data, start, manifest, v
    <3>. QED
      BY <3>1, <3>2, PartIs
  <2>5. v \in Seq(ByteCell) /\ Len(v) = c - a /\ \A j \in 1 .. Len(v) : v[j] = p[a + j]
    BY <2>3, <1>2, PartIs
  <2>. HIDE DEF u, v
  <2>6. ASSUME NEW j \in 1 .. Len(u)
        PROVE  u[j] = v[j]
    <3>0. j \in Nat /\ 1 <= j /\ j <= c - a /\ Len(v) = c - a
      BY <2>9, <2>3, <2>4, <2>5
    <3>1. j \in 1 .. Len(v) /\ a + j \in 1 .. Len(p) /\ a1 + j = (1 + n) + (a + j)
      BY <3>0, <2>2, <2>3, <2>9, <1>2
    <3>2. b[a1 + j] = p[a + j]
      BY <3>1, <1>0, <1>1
    <3>. QED
      BY <3>1, <3>2, <2>4, <2>5
  <2>7. v \in Seq(Cell)
    <3>1. ByteCell \subseteq Cell
      BY DEF ByteCell, Cell
    <3>. QED
      BY <3>1, <2>5, SeqMonotonic
  <2>8. u = v
    BY <2>4, <2>5, <2>6, <2>7, <2>9, SeqEqual
  <2>. QED
    BY <2>1, <2>3, <2>8 DEF a, z, c, a1, c1, u, v
<1>. HIDE DEF manifest
<1>7. Sound
  <2>1. Len(b) >= n + 1
    BY <1>0, <1>1, <1>2
  <2>2. \A i \in 1 .. n : manifest[i].kind = "entry"
    BY <1>5, <1>6, EntryIs
  <2>. QED
    BY <1>5, <1>6, <2>1, <2>2
<1>8. all = ItemsOf(e, p)
  <2>1. ASSUME NEW i \in 1 .. n
        PROVE  [entry |-> manifest[i], data |-> data(manifest[i])] = ItemOf(e[i], p)
    <3>1. manifest[i] = e[i]
      BY <1>5
    <3>. QED
      BY <3>1, <1>6 DEF ItemOf
  <2>. HIDE DEF data
  <2>. QED
    BY <2>1, <1>0 DEF ItemsOf
<1>. HIDE DEF all, Sound
<1>9. unpack_entries(b) = {ItemsOf(e, p)}
  BY <1>3, <1>4, <1>7, <1>8
<1>. QED
  BY <1>9 DEF Yield

-----------------------------------------------------------------------------
(* The accumulator.                                                        *)

Acc == [blocks : Seq(Seq(Cell)), entries : Seq(Entry), payload : Seq(ByteCell)]

\* A block as pack_files makes them.
Made(block, id) ==
    \E e, p : /\ Fit(e, p) /\ e # << >> /\ Len(p) <= BLOCK_SIZE
              /\ block = serialise(id, e, p)

AllMade(bs) ==
    bs \in Seq(Seq(Cell)) /\ \A b \in 1 .. Len(bs) : Made(bs[b], b - 1)

AccOK(acc) ==
    /\ acc \in Acc /\ AllMade(acc.blocks) /\ Fit(acc.entries, acc.payload)
    /\ acc.entries = << >> => acc.payload = << >>
    /\ Len(acc.payload) <= BLOCK_SIZE

\* Every item so far, those of the block in progress included.
Gathered(acc) == Unpacked(acc.blocks) \o ItemsOf(acc.entries, acc.payload)

Yields(bs) == [b \in 1 .. Len(bs) |-> Yield(bs[b])]

LEMMA UnpackedIs ==
    ASSUME NEW bs
    PROVE  Unpacked(bs) = FlattenSeq(Yields(bs))
BY Zenon DEF Unpacked, Yields, Yield

\* A block that pack_files makes is sound, numbered and within its bound.
LEMMA MadeIs ==
    ASSUME NEW id \in Nat, NEW block, Made(block, id)
    PROVE  /\ block \in Seq(Cell) /\ Yield(block) \in Seq(Item)
           /\ unpack_entries(block) # {}
           /\ block[1].block_id = id /\ block[1].entry_count > 0
           /\ Len(block) - 1 - block[1].entry_count <= BLOCK_SIZE
<1>1. PICK e, p : Fit(e, p) /\ e # << >> /\ Len(p) <= BLOCK_SIZE /\ block = serialise(id, e, p)
  BY DEF Made
<1>2. block \in Seq(Cell) /\ Len(block) = 1 + Len(e) + Len(p) /\ block[1] = HeadCell(id, Len(e))
  BY <1>1, SerialiseIs
<1>3. unpack_entries(block) = {ItemsOf(e, p)} /\ Yield(block) = ItemsOf(e, p)
  BY <1>1, UnpackSerialise
<1>4. ItemsOf(e, p) \in Seq(Item)
  BY <1>1, ItemTypes
<1>5. Len(e) \in Nat /\ Len(p) \in Nat /\ Len(e) > 0
  BY <1>1 DEF Fit
<1>6. block[1].block_id = id /\ block[1].entry_count = Len(e)
  BY <1>2 DEF HeadCell
<1>. QED
  BY <1>1, <1>2, <1>3, <1>4, <1>5, <1>6, PackerAssumption

LEMMA YieldsType ==
    ASSUME NEW bs, AllMade(bs)
    PROVE  Yields(bs) \in Seq(Seq(Item)) /\ Len(Yields(bs)) = Len(bs)
<1>1. bs \in Seq(Seq(Cell)) /\ Len(bs) \in Nat
  BY DEF AllMade
<1>2. ASSUME NEW b \in 1 .. Len(bs)
      PROVE  Yield(bs[b]) \in Seq(Item)
  <2>1. b - 1 \in Nat /\ Made(bs[b], b - 1)
    BY <1>1 DEF AllMade
  <2>. QED
    BY <2>1, MadeIs
<1>. QED
  BY <1>1, <1>2 DEF Yields

LEMMA UnpackedType ==
    ASSUME NEW bs, AllMade(bs)
    PROVE  Unpacked(bs) \in Seq(Item)
<1>1. Yields(bs) \in Seq(Seq(Item))
  BY YieldsType
<1>. QED
  BY <1>1, UnpackedIs, FlattenType

\* One more block adds its items at the end.
LEMMA UnpackedAppend ==
    ASSUME NEW bs, AllMade(bs), NEW c, Made(c, Len(bs))
    PROVE  /\ AllMade(Append(bs, c))
           /\ Unpacked(Append(bs, c)) = Unpacked(bs) \o Yield(c)
<1>1. bs \in Seq(Seq(Cell)) /\ Len(bs) \in Nat
  BY DEF AllMade
<1>2. c \in Seq(Cell) /\ Yield(c) \in Seq(Item)
  BY <1>1, MadeIs
<1>. DEFINE more == Append(bs, c)
<1>3. /\ more \in Seq(Seq(Cell)) /\ Len(more) = Len(bs) + 1
      /\ \A b \in 1 .. Len(bs) : more[b] = bs[b]
      /\ more[Len(bs) + 1] = c
  BY <1>1, <1>2
<1>. HIDE DEF more
<1>4. AllMade(more)
  <2>1. ASSUME NEW b \in 1 .. Len(more)
        PROVE  Made(more[b], b - 1)
    <3>1. CASE b = Len(bs) + 1
      <4>1. b - 1 = Len(bs)
        BY <3>1, <1>1
      <4>. QED
        BY <4>1, <3>1, <1>3
    <3>2. CASE b # Len(bs) + 1
      <4>1. b \in 1 .. Len(bs)
        BY <3>2, <1>1, <1>3
      <4>. QED
        BY <4>1, <1>3 DEF AllMade
    <3>. QED
      BY <3>1, <3>2
  <2>. QED
    BY <2>1, <1>3 DEF AllMade
<1>5. Yields(more) = Append(Yields(bs), Yield(c))
  <2>1. Yields(bs) \in Seq(Seq(Item)) /\ Len(Yields(bs)) = Len(bs)
    BY YieldsType
  <2>2. Yields(more) \in Seq(Seq(Item)) /\ Len(Yields(more)) = Len(bs) + 1
    BY <1>3, <1>4, YieldsType
  <2>. DEFINE y == Yields(bs)
              z == Append(y, Yield(c))
  <2>5. \A b \in 1 .. Len(bs) : y[b] = Yield(bs[b])
    BY DEF Yields
  <2>. HIDE DEF y
  <2>6. y \in Seq(Seq(Item)) /\ Len(y) = Len(bs)
    BY <2>1 DEF y
  <2>3. /\ z \in Seq(Seq(Item)) /\ Len(z) = Len(bs) + 1
        /\ \A b \in 1 .. Len(bs) : z[b] = y[b]
        /\ z[Len(bs) + 1] = Yield(c)
    BY <2>6, <1>1, <1>2
  <2>. HIDE DEF z
  <2>4. ASSUME NEW b \in 1 .. (Len(bs) + 1)
        PROVE  Yields(more)[b] = z[b]
    <3>0. Yields(more)[b] = Yield(more[b])
      BY <1>3 DEF Yields
    <3>1. CASE b = Len(bs) + 1
      BY <3>0, <3>1, <2>3, <1>3
    <3>2. CASE b # Len(bs) + 1
      <4>1. b \in 1 .. Len(bs)
        BY <3>2, <1>1
      <4>. QED
        BY <4>1, <3>0, <1>3, <2>3, <2>5
    <3>. QED
      BY <3>1, <3>2
  <2>. DEFINE w == Yields(more)
  <2>. HIDE DEF w
  <2>7. w \in Seq(Seq(Item)) /\ Len(w) = Len(z) /\ \A b \in 1 .. Len(w) : w[b] = z[b]
    BY <2>2, <2>3, <2>4 DEF w
  <2>8. w = z
    BY <2>7, <2>3, SeqEqual
  <2>. QED
    BY <2>8 DEF w, y, z
<1>6. FlattenSeq(Append(Yields(bs), Yield(c))) = FlattenSeq(Yields(bs)) \o Yield(c)
  BY <1>2, YieldsType, FlattenAppend
<1>. QED
  BY <1>4, <1>5, <1>6, UnpackedIs DEF more

\* Finishing a block moves its items, and loses none.
LEMMA FlushKeeps ==
    ASSUME NEW acc, AccOK(acc)
    PROVE  /\ AccOK(flush(acc)) /\ Gathered(flush(acc)) = Gathered(acc)
           /\ flush(acc).entries = << >> /\ flush(acc).payload = << >>
<1>. DEFINE e == acc.entries
            p == acc.payload
            c == serialise(Len(acc.blocks), e, p)
<1>0. /\ acc \in Acc /\ AllMade(acc.blocks) /\ Fit(e, p) /\ Len(p) <= BLOCK_SIZE
      /\ Len(acc.blocks) \in Nat
  BY DEF AccOK, AllMade
<1>1. CASE e = << >>
  BY <1>1 DEF flush, AccOK
<1>2. CASE e # << >>
  <2>. DEFINE more == Append(acc.blocks, c)
  <2>1. flush(acc) = [blocks |-> more, entries |-> << >>, payload |-> << >>]
    BY <1>2 DEF flush
  <2>. HIDE DEF more
  <2>2. flush(acc).blocks = more /\ flush(acc).entries = << >> /\ flush(acc).payload = << >>
    BY <2>1
  <2>3. Made(c, Len(acc.blocks))
    BY <1>0, <1>2 DEF Made
  <2>4. AllMade(more) /\ Unpacked(more) = Unpacked(acc.blocks) \o Yield(c)
    BY <1>0, <2>3, UnpackedAppend DEF more
  <2>5. Yield(c) = ItemsOf(e, p)
    BY <1>0, UnpackSerialise
  <2>6. flush(acc) \in Acc
    BY <2>1, <2>4 DEF Acc, AllMade
  <2>7. Fit(<< >>, << >>) /\ Len(<< >>) <= BLOCK_SIZE
    BY PackerAssumption DEF Fit
  <2>8. AccOK(flush(acc))
    BY <2>2, <2>4, <2>6, <2>7 DEF AccOK
  <2>9. ItemsOf(<< >>, << >>) = << >>
    BY DEF ItemsOf
  <2>10. Unpacked(more) \in Seq(Item)
    BY <2>4, UnpackedType
  <2>11. Gathered(flush(acc)) = Unpacked(more)
    BY <2>2, <2>9, <2>10, ConcatEmptySeq DEF Gathered
  <2>. QED
    BY <2>2, <2>4, <2>5, <2>8, <2>11 DEF Gathered
<1>. QED
  BY <1>1, <1>2

-----------------------------------------------------------------------------
(* One file.                                                               *)

AFile == [path : Nat, bytes : Seq(ByteCell)]

Total(f) == IF Len(f.bytes) > BLOCK_SIZE THEN div_ceil(Len(f.bytes)) ELSE 1
PartOf(f, k) == IF Len(f.bytes) > BLOCK_SIZE THEN chunk(f.bytes, k) ELSE f.bytes

\* x is the parts of f, in order.
PartsOf(f, x) ==
    /\ x \in Seq(Item) /\ Len(x) = Total(f)
    /\ \A k \in 1 .. Len(x) :
          /\ x[k].entry.path = f.path /\ x[k].entry.part_index = k - 1
          /\ x[k].entry.total_parts = Total(f) /\ x[k].data = PartOf(f, k)

LEMMA WithinFirst ==
    ASSUME NEW S, NEW s \in Seq(S), NEW t \in Seq(S), NEW a \in Nat, NEW b \in Nat,
           a <= b, b <= Len(s)
    PROVE  SubSeq(s \o t, a + 1, b) = SubSeq(s, a + 1, b)
<1>. DEFINE st == s \o t
            u == SubSeq(st, a + 1, b)
            v == SubSeq(s, a + 1, b)
<1>1. st \in Seq(S) /\ Len(st) = Len(s) + Len(t) /\ \A i \in 1 .. Len(s) : st[i] = s[i]
  OBVIOUS
<1>. HIDE DEF st
<1>2. b <= Len(st)
  BY <1>1
<1>3. u \in Seq(S) /\ Len(u) = b - a /\ \A i \in 1 .. Len(u) : u[i] = st[a + i]
  BY <1>1, <1>2, PartIs
<1>4. v \in Seq(S) /\ Len(v) = b - a /\ \A i \in 1 .. Len(v) : v[i] = s[a + i]
  BY PartIs
<1>. HIDE DEF u, v
<1>5. ASSUME NEW i \in 1 .. Len(u) PROVE u[i] = v[i]
  <2>1. i \in 1 .. Len(v) /\ a + i \in 1 .. Len(s)
    BY <1>3, <1>4
  <2>. QED
    BY <2>1, <1>1, <1>3, <1>4
<1>6. u = v
  BY <1>3, <1>4, <1>5, SeqEqual
<1>. QED
  BY <1>6 DEF u, v, st

LEMMA WithinSecond ==
    ASSUME NEW S, NEW s \in Seq(S), NEW t \in Seq(S)
    PROVE  SubSeq(s \o t, Len(s) + 1, Len(s) + Len(t)) = t
<1>. DEFINE st == s \o t
            a == Len(s)
            b == Len(s) + Len(t)
            u == SubSeq(st, a + 1, b)
<1>1. st \in Seq(S) /\ Len(st) = b /\ \A i \in 1 .. Len(t) : st[a + i] = t[i]
  BY ConcatIs
<1>2. a \in Nat /\ b \in Nat /\ a <= b
  OBVIOUS
<1>7. b - a = Len(t)
  OBVIOUS
<1>. HIDE DEF st, a, b
<1>8. b <= Len(st)
  BY <1>1, <1>2
<1>3. u \in Seq(S) /\ Len(u) = b - a /\ \A i \in 1 .. Len(u) : u[i] = st[a + i]
  BY <1>1, <1>2, <1>8, PartIs
<1>. HIDE DEF u
<1>5. ASSUME NEW i \in 1 .. Len(u) PROVE u[i] = t[i]
  BY <1>1, <1>3, <1>7
<1>6. u = t
  BY <1>3, <1>5, <1>7, SeqEqual
<1>. QED
  BY <1>6 DEF u, a, b, st

\* A file at the end of the payload leaves what was there where it was.
LEMMA ItemsMore ==
    ASSUME NEW e, NEW p, Fit(e, p), NEW data \in Seq(ByteCell), NEW en \in Entry,
           en.offset = Len(p), en.size = Len(data)
    PROVE  /\ Fit(Append(e, en), p \o data)
           /\ ItemsOf(Append(e, en), p \o data)
                = Append(ItemsOf(e, p), [entry |-> en, data |-> data])
<1>. DEFINE e2 == Append(e, en)
            p2 == p \o data
            it == [entry |-> en, data |-> data]
            old == ItemsOf(e, p)
            new == ItemsOf(e2, p2)
            app == Append(old, it)
<1>1. e \in Seq(Entry) /\ p \in Seq(ByteCell) /\ Len(e) \in Nat /\ Len(p) \in Nat /\ Len(data) \in Nat
  BY DEF Fit
<1>2. /\ e2 \in Seq(Entry) /\ Len(e2) = Len(e) + 1 /\ e2[Len(e) + 1] = en
      /\ \A i \in 1 .. Len(e) : e2[i] = e[i]
  BY <1>1
<1>3. p2 \in Seq(ByteCell) /\ Len(p2) = Len(p) + Len(data)
  BY <1>1
<1>. HIDE DEF e2
<1>4. ASSUME NEW i \in 1 .. Len(e)
      PROVE  /\ e[i] \in Entry /\ e[i].offset \in Nat /\ e[i].size \in Nat
             /\ e[i].offset + e[i].size <= Len(p)
  <2>1. e[i] \in Entry /\ e[i].offset + e[i].size <= Len(p)
    BY <1>1 DEF Fit
  <2>. QED
    BY <2>1, EntryIs
<1>5. Fit(e2, p2)
  <2>. HIDE DEF p2
  <2>1. ASSUME NEW i \in 1 .. Len(e2)
        PROVE  e2[i].offset + e2[i].size <= Len(p2)
    <3>1. CASE i = Len(e) + 1
      BY <3>1, <1>1, <1>2, <1>3
    <3>2. CASE i # Len(e) + 1
      <4>1. i \in 1 .. Len(e)
        BY <3>2, <1>1, <1>2
      <4>2. e2[i] = e[i]
        BY <4>1, <1>2
      <4>. QED
        BY <4>1, <4>2, <1>1, <1>3, <1>4
    <3>. QED
      BY <3>1, <3>2
  <2>. QED
    BY <2>1, <1>2, <1>3 DEF Fit
<1>6. ASSUME NEW i \in 1 .. Len(e)
      PROVE  ItemOf(e[i], p2) = ItemOf(e[i], p)
  <2>. DEFINE a == e[i].offset
              b == e[i].offset + e[i].size
  <2>1. a \in Nat /\ b \in Nat /\ a <= b /\ b <= Len(p)
    BY <1>1, <1>4
  <2>. HIDE DEF a, b
  <2>2. SubSeq(p \o data, a + 1, b) = SubSeq(p, a + 1, b)
    BY <1>1, <2>1, WithinFirst
  <2>. QED
    BY <2>2 DEF ItemOf, a, b
<1>7. ItemOf(en, p2) = it
  <2>1. SubSeq(p \o data, Len(p) + 1, Len(p) + Len(data)) = data
    BY <1>1, WithinSecond
  <2>. QED
    BY <2>1 DEF ItemOf
<1>. HIDE DEF p2
<1>8. /\ old \in Seq(Item) /\ Len(old) = Len(e) /\ \A i \in 1 .. Len(e) : old[i] = ItemOf(e[i], p)
  BY ItemTypes
<1>9. /\ new \in Seq(Item) /\ Len(new) = Len(e2) /\ \A i \in 1 .. Len(e2) : new[i] = ItemOf(e2[i], p2)
  BY <1>5, ItemTypes
<1>10. it \in Item
  BY DEF Item
<1>. HIDE DEF it, old, new
<1>11. /\ app \in Seq(Item) /\ Len(app) = Len(e) + 1 /\ app[Len(e) + 1] = it
       /\ \A i \in 1 .. Len(e) : app[i] = old[i]
  BY <1>1, <1>8, <1>10
<1>. HIDE DEF app
<1>12. ASSUME NEW i \in 1 .. Len(new)
       PROVE  new[i] = app[i]
  <2>1. CASE i = Len(e) + 1
    BY <2>1, <1>2, <1>7, <1>9, <1>11
  <2>2. CASE i # Len(e) + 1
    <3>1. i \in 1 .. Len(e) /\ i \in 1 .. Len(e2)
      BY <2>2, <1>1, <1>2, <1>9
    <3>. QED
      BY <3>1, <1>2, <1>6, <1>8, <1>9, <1>11
  <2>. QED
    BY <2>1, <2>2
<1>13. new = app
  BY <1>2, <1>9, <1>11, <1>12, SeqEqual
<1>. QED
  BY <1>5, <1>13 DEF new, app, old, it, e2, p2

\* A small file adds one item, in this block or the next.
LEMMA AddFileGathers ==
    ASSUME NEW acc, AccOK(acc), NEW f \in AFile, Len(f.bytes) <= BLOCK_SIZE
    PROVE  /\ AccOK(add_file(acc, f))
           /\ \E x : PartsOf(f, x) /\ Gathered(add_file(acc, f)) = Gathered(acc) \o x
<1>. DEFINE full == Len(acc.payload) + Len(f.bytes) > BLOCK_SIZE
            room == IF full THEN flush(acc) ELSE acc
            en == FileEntry(f.path, Len(room.payload), Len(f.bytes), 0, 1)
            new == add_file(acc, f)
<1>1. /\ f.path \in Nat /\ f.bytes \in Seq(ByteCell) /\ Len(f.bytes) \in Nat
      /\ BLOCK_SIZE \in Nat
  BY PackerAssumption DEF AFile
<1>2. new = [room EXCEPT !.entries = Append(@, en), !.payload = @ \o f.bytes]
  BY Zenon DEF add_file
<1>3. AccOK(room) /\ Gathered(room) = Gathered(acc)
  BY FlushKeeps
<1>12. (full => room.payload = << >>) /\ (~ full => room = acc)
  BY FlushKeeps
<1>. HIDE DEF room, new
<1>4. Len(room.payload) + Len(f.bytes) <= BLOCK_SIZE
  <2>1. Len(acc.payload) \in Nat /\ Len(<< >>) = 0
    BY DEF AccOK, Fit
  <2>2. CASE full
    <3>1. Len(room.payload) = 0
      BY <2>1, <2>2, <1>12
    <3>. QED
      BY <3>1, <1>1
  <2>3. CASE ~ full
    <3>1. Len(room.payload) = Len(acc.payload)
      BY <2>3, <1>12
    <3>. DEFINE u == Len(acc.payload)
                v == Len(room.payload)
                d == Len(f.bytes)
    <3>2. u \in Nat /\ v = u /\ d \in Nat /\ ~ (u + d > BLOCK_SIZE)
      BY <2>1, <2>3, <3>1, <1>1
    <3>. HIDE DEF u, v, d
    <3>3. v + d <= BLOCK_SIZE
      BY <3>2, <1>1
    <3>. QED
      BY <3>3 DEF v, d
  <2>. QED
    BY <2>2, <2>3
<1>5. /\ room \in Acc /\ AllMade(room.blocks) /\ Fit(room.entries, room.payload)
      /\ room.entries \in Seq(Entry) /\ room.payload \in Seq(ByteCell) /\ Len(room.payload) \in Nat
  BY <1>3 DEF AccOK, Fit
<1>6. /\ en \in Entry /\ en.offset = Len(room.payload) /\ en.size = Len(f.bytes)
      /\ en.path = f.path /\ en.part_index = 0 /\ en.total_parts = 1
  BY <1>1, <1>5 DEF FileEntry, Entry
<1>. HIDE DEF en
<1>7. /\ new.blocks = room.blocks /\ new.entries = Append(room.entries, en)
      /\ new.payload = room.payload \o f.bytes
  BY <1>2, <1>5 DEF Acc
<1>. DEFINE it == [entry |-> en, data |-> f.bytes]
            old == ItemsOf(room.entries, room.payload)
<1>8. Fit(new.entries, new.payload) /\ ItemsOf(new.entries, new.payload) = Append(old, it)
  <2>. DEFINE e == room.entries
              p == room.payload
              d == f.bytes
  <2>1. /\ Fit(e, p) /\ d \in Seq(ByteCell) /\ en \in Entry
        /\ en.offset = Len(p) /\ en.size = Len(d)
    BY <1>1, <1>5, <1>6
  <2>. HIDE DEF e, p, d
  <2>2. /\ Fit(Append(e, en), p \o d)
        /\ ItemsOf(Append(e, en), p \o d) = Append(ItemsOf(e, p), [entry |-> en, data |-> d])
    BY <2>1, ItemsMore
  <2>. QED
    BY <2>2, <1>7 DEF e, p, d
<1>9. AccOK(new)
  <2>1. new.entries \in Seq(Entry) /\ new.payload \in Seq(ByteCell) /\ new.entries # << >>
    BY <1>1, <1>5, <1>6, <1>7
  <2>2. new \in Acc
    <3>1. room.blocks \in Seq(Seq(Cell))
      BY <1>5 DEF Acc
    <3>2. new = [blocks |-> room.blocks, entries |-> new.entries, payload |-> new.payload]
      BY <1>2, <1>5, <1>7 DEF Acc
    <3>. QED
      BY <2>1, <3>1, <3>2 DEF Acc
  <2>3. Len(new.payload) <= BLOCK_SIZE
    <3>1. Len(room.payload \o f.bytes) = Len(room.payload) + Len(f.bytes)
      BY <1>1, <1>5, ConcatProperties
    <3>. QED
      BY <3>1, <1>4, <1>7
  <2>. QED
    BY <2>1, <2>2, <2>3, <1>5, <1>7, <1>8 DEF AccOK
<1>. DEFINE x == << it >>
<1>10. PartsOf(f, x)
  <2>1. it \in Item
    BY <1>1, <1>6 DEF Item
  <2>2. Total(f) = 1 /\ PartOf(f, 1) = f.bytes
    BY <1>1 DEF Total, PartOf
  <2>3. it.entry = en /\ it.data = f.bytes
    OBVIOUS
  <2>. HIDE DEF it
  <2>4. x \in Seq(Item) /\ Len(x) = 1 /\ x[1] = it
    BY <2>1
  <2>. HIDE DEF x
  <2>5. \A k \in 1 .. Len(x) : k = 1 /\ k - 1 = 0
    BY <2>4
  <2>. QED
    BY <2>2, <2>3, <2>4, <2>5, <1>6 DEF PartsOf
<1>11. Gathered(new) = Gathered(acc) \o x
  <2>1. old \in Seq(Item) /\ Unpacked(room.blocks) \in Seq(Item) /\ x \in Seq(Item) /\ it \in Item
    BY <1>5, <1>10, <1>1, <1>6, ItemTypes, UnpackedType DEF PartsOf, Item
  <2>2. Gathered(room) = Unpacked(room.blocks) \o old
    BY DEF Gathered
  <2>3. Gathered(new) = Unpacked(room.blocks) \o Append(old, it)
    BY <1>7, <1>8 DEF Gathered
  <2>. DEFINE u == Unpacked(room.blocks)
  <2>. HIDE DEF old, it, u
  <2>4. Append(old, it) = old \o x
    BY <2>1, AppendIsConcat
  <2>. HIDE DEF x
  <2>5. (u \o old) \o x = u \o (old \o x)
    BY <2>1, ConcatAssociative DEF u
  <2>. QED
    BY <2>2, <2>3, <2>4, <2>5, <1>3 DEF u
<1>. QED
  BY <1>9, <1>10, <1>11 DEF new

\* Blocks with one item each.
LEMMA UnpackedSplit ==
    ASSUME NEW bs, AllMade(bs), NEW x \in Seq(Item), NEW t \in Seq(Seq(Cell)), Len(t) = Len(x),
           \A k \in 1 .. Len(x) : Made(t[k], Len(bs) + k - 1) /\ Yield(t[k]) = << x[k] >>
    PROVE  AllMade(bs \o t) /\ Unpacked(bs \o t) = Unpacked(bs) \o x
<1>. DEFINE m == Len(bs)
            n == Len(x)
            more == bs \o t
            y == Yields(bs)
            z == [k \in 1 .. n |-> << x[k] >>]
            w == Yields(more)
            yz == y \o z
<1>1. bs \in Seq(Seq(Cell)) /\ m \in Nat /\ n \in Nat
  BY DEF AllMade
<1>2. /\ more \in Seq(Seq(Cell)) /\ Len(more) = m + n
      /\ \A i \in 1 .. (m + n) : more[i] = IF i <= m THEN bs[i] ELSE t[i - m]
  <2>1. /\ more \in Seq(Seq(Cell)) /\ Len(more) = Len(bs) + Len(t)
        /\ \A i \in 1 .. (Len(bs) + Len(t)) :
              more[i] = IF i <= Len(bs) THEN bs[i] ELSE t[i - Len(bs)]
    BY <1>1, ConcatProperties
  <2>. QED
    BY <2>1
<1>3. y \in Seq(Seq(Item)) /\ Len(y) = m /\ \A i \in 1 .. m : y[i] = Yield(bs[i])
  <2>1. \A i \in 1 .. m : y[i] = Yield(bs[i])
    BY DEF Yields
  <2>. QED
    BY <2>1, YieldsType
<1>. HIDE DEF m, n, more, y
<1>5. z \in Seq(Seq(Item)) /\ Len(z) = n /\ \A k \in 1 .. n : z[k] = << x[k] >>
  <2>1. \A k \in 1 .. n : << x[k] >> \in Seq(Item)
    BY <1>1 DEF n
  <2>. QED
    BY <2>1, <1>1
<1>. HIDE DEF z
<1>4. FlattenSeq(y \o z) = FlattenSeq(y) \o x
  BY <1>3, <1>5, FlattenSingles DEF n
<1>6. ASSUME NEW i \in 1 .. (m + n), ~ (i <= m)
      PROVE  i - m \in 1 .. n /\ m + (i - m) - 1 = i - 1
  BY <1>1, <1>6
<1>7. AllMade(more)
  <2>1. ASSUME NEW i \in 1 .. Len(more)
        PROVE  Made(more[i], i - 1)
    <3>0. i \in 1 .. (m + n) /\ more[i] = IF i <= m THEN bs[i] ELSE t[i - m]
      BY <1>2
    <3>1. CASE i <= m
      <4>1. i \in 1 .. Len(bs)
        BY <3>0, <3>1, <1>1 DEF m
      <4>. QED
        BY <3>0, <3>1, <4>1 DEF AllMade
    <3>2. CASE ~ (i <= m)
      <4>1. i - m \in 1 .. n /\ m + (i - m) - 1 = i - 1
        BY <3>0, <3>2, <1>6
      <4>2. Made(t[i - m], m + (i - m) - 1)
        BY <4>1, Zenon DEF m, n
      <4>. QED
        BY <3>0, <3>2, <4>1, <4>2
    <3>. QED
      BY <3>1, <3>2
  <2>. QED
    BY <2>1, <1>2 DEF AllMade
<1>8. w \in Seq(Seq(Item)) /\ Len(w) = m + n /\ \A i \in 1 .. (m + n) : w[i] = Yield(more[i])
  <2>1. \A i \in 1 .. (m + n) : w[i] = Yield(more[i])
    BY <1>2 DEF Yields
  <2>. QED
    BY <2>1, <1>2, <1>7, YieldsType
<1>. HIDE DEF w
<1>9. /\ yz \in Seq(Seq(Item)) /\ Len(yz) = m + n
      /\ \A i \in 1 .. (m + n) : yz[i] = IF i <= m THEN y[i] ELSE z[i - m]
  <2>0. y \in Seq(Seq(Item)) /\ z \in Seq(Seq(Item))
    BY <1>3, <1>5
  <2>1. /\ yz \in Seq(Seq(Item)) /\ Len(yz) = Len(y) + Len(z)
        /\ \A i \in 1 .. (Len(y) + Len(z)) :
              yz[i] = IF i <= Len(y) THEN y[i] ELSE z[i - Len(y)]
    BY <2>0, ConcatProperties
  <2>. HIDE DEF yz
  <2>. QED
    BY <2>1, <1>3, <1>5
<1>. HIDE DEF yz
<1>10. ASSUME NEW i \in 1 .. (m + n)
       PROVE  w[i] = yz[i]
  <2>1. CASE i <= m
    <3>1. i \in 1 .. m
      BY <2>1, <1>1
    <3>. QED
      BY <2>1, <3>1, <1>2, <1>3, <1>8, <1>9
  <2>2. CASE ~ (i <= m)
    <3>. DEFINE k == i - m
    <3>1. k \in 1 .. n
      BY <2>2, <1>6
    <3>2. w[i] = Yield(t[k]) /\ yz[i] = z[k]
      BY <2>2, <1>2, <1>8, <1>9
    <3>. HIDE DEF k
    <3>. QED
      BY <3>1, <3>2, <1>5 DEF n
  <2>. QED
    BY <2>1, <2>2
<1>11. w = yz
  BY <1>8, <1>9, <1>10, SeqEqual
<1>. QED
  BY <1>4, <1>7, <1>11, UnpackedIs DEF w, y, yz, more

\* The k-th chunk lies within the file and fits into a block.
LEMMA ChunkIs ==
    ASSUME NEW bytes \in Seq(ByteCell), Len(bytes) # 0, NEW k \in 1 .. div_ceil(Len(bytes)),
           NEW a, NEW b, a = (k - 1) * BLOCK_SIZE, b = Min({k * BLOCK_SIZE, Len(bytes)})
    PROVE  /\ a \in Nat /\ b \in Nat /\ a <= b /\ b <= Len(bytes) /\ b - a <= BLOCK_SIZE
           /\ chunk(bytes, k) = SubSeq(bytes, a + 1, b)
           /\ chunk(bytes, k) \in Seq(ByteCell) /\ Len(chunk(bytes, k)) = b - a
<1>. DEFINE n == Len(bytes)
            q == div_ceil(n)
<1>1. n \in Nat \ {0} /\ BLOCK_SIZE \in Nat \ {0} /\ q = (n + BLOCK_SIZE - 1) \div BLOCK_SIZE
  BY PackerAssumption DEF div_ceil
<1>. HIDE DEF n, q
<1>2. /\ q \in Nat \ {0} /\ n <= q * BLOCK_SIZE
      /\ \A i \in 1 .. q : (i - 1) * BLOCK_SIZE \in Nat /\ (i - 1) * BLOCK_SIZE < n
  BY <1>1, ChunksCover
<1>3. k \in Int /\ k \in 1 .. q
  BY <1>2 DEF q, n
<1>4. (k - 1) * BLOCK_SIZE + BLOCK_SIZE = k * BLOCK_SIZE /\ k * BLOCK_SIZE \in Int
  BY <1>1, <1>3, OneMore
<1>5. a \in Nat /\ a < n
  BY <1>2, <1>3
<1>. DEFINE kb == k * BLOCK_SIZE
<1>6. a + BLOCK_SIZE = kb /\ kb \in Int
  BY <1>4
<1>7. b = IF kb <= n THEN kb ELSE n
  BY <1>1, <1>6, MinOfTwo DEF n
<1>. HIDE DEF kb
<1>8. b \in Nat /\ a <= b /\ b <= n /\ b - a <= BLOCK_SIZE
  BY <1>1, <1>5, <1>6, <1>7
<1>9. chunk(bytes, k) = SubSeq(bytes, a + 1, b)
  BY DEF chunk
<1>10. SubSeq(bytes, a + 1, b) \in Seq(ByteCell) /\ Len(SubSeq(bytes, a + 1, b)) = b - a
  <2>1. a \in Nat /\ b \in Nat /\ a <= b /\ b <= Len(bytes)
    BY <1>5, <1>8 DEF n
  <2>. QED
    BY <2>1, PartIs
<1>. QED
  BY <1>5, <1>8, <1>9, <1>10 DEF n

\* A block of one part.
LEMMA PartBlock ==
    ASSUME NEW id \in Nat, NEW data \in Seq(ByteCell), Len(data) <= BLOCK_SIZE,
           NEW en \in Entry, en.offset = 0, en.size = Len(data)
    PROVE  /\ Made(serialise(id, << en >>, data), id)
           /\ Yield(serialise(id, << en >>, data)) = << [entry |-> en, data |-> data] >>
<1>. DEFINE e == << en >>
<1>1. e \in Seq(Entry) /\ Len(e) = 1 /\ e[1] = en /\ e # << >>
  OBVIOUS
<1>. HIDE DEF e
<1>2. \A i \in 1 .. Len(e) : e[i] = en
  BY <1>1
<1>3. Fit(e, data)
  BY <1>1, <1>2 DEF Fit
<1>4. Made(serialise(id, e, data), id)
  BY <1>1, <1>3 DEF Made
<1>5. Yield(serialise(id, e, data)) = ItemsOf(e, data)
  BY <1>3, UnpackSerialise
<1>6. ItemOf(en, data) = [entry |-> en, data |-> data]
  <2>1. 0 + 1 = 1 /\ 0 + Len(data) = Len(data) /\ SubSeq(data, 1, Len(data)) = data
    BY SubSeqFull
  <2>. QED
    BY <2>1, Zenon DEF ItemOf
<1>7. ItemsOf(e, data) = << ItemOf(en, data) >>
  BY <1>1, <1>2 DEF ItemsOf
<1>. QED
  BY <1>4, <1>5, <1>6, <1>7 DEF e

\* A large file adds its chunks, in order.
LEMMA SplitFileGathers ==
    ASSUME NEW acc, AccOK(acc), NEW f \in AFile, Len(f.bytes) > BLOCK_SIZE
    PROVE  /\ AccOK(split_file(acc, f))
           /\ \E x : PartsOf(f, x) /\ Gathered(split_file(acc, f)) = Gathered(acc) \o x
<1>. DEFINE flushed == flush(acc)
            first == Len(flushed.blocks)
            d == f.bytes
            total == div_ceil(Len(d))
            en(k) == FileEntry(f.path, 0, Len(chunk(d, k)), k - 1, total)
            part(k) == serialise(first + k - 1, << en(k) >>, chunk(d, k))
            t == [k \in 1 .. total |-> part(k)]
            x == [k \in 1 .. total |-> [entry |-> en(k), data |-> chunk(d, k)]]
            new == split_file(acc, f)
<1>1. f.path \in Nat /\ d \in Seq(ByteCell) /\ Len(d) \in Nat /\ BLOCK_SIZE \in Nat \ {0}
  BY PackerAssumption DEF AFile
<1>2. new = [flushed EXCEPT !.blocks = @ \o t]
  BY Zenon DEF split_file
<1>3. /\ AccOK(flushed) /\ Gathered(flushed) = Gathered(acc)
      /\ flushed.entries = << >> /\ flushed.payload = << >>
  BY FlushKeeps
<1>. HIDE DEF flushed
<1>4. flushed \in Acc /\ AllMade(flushed.blocks) /\ first \in Nat
  BY <1>3 DEF AccOK, AllMade
<1>5. total \in Nat
  <2>1. Len(d) \in Nat \ {0}
    BY <1>1
  <2>. QED
    BY <2>1, <1>1, DivCeil DEF div_ceil
<1>6. /\ new.blocks = flushed.blocks \o t /\ new.entries = << >> /\ new.payload = << >>
      /\ new = [blocks |-> new.blocks, entries |-> << >>, payload |-> << >>]
  <2>. HIDE DEF new, t
  <2>. QED
    BY <1>2, <1>3, <1>4 DEF Acc
<1>. HIDE DEF new, d, total, first
<1>7. ASSUME NEW k \in 1 .. total
      PROVE  /\ chunk(d, k) \in Seq(ByteCell) /\ Len(chunk(d, k)) <= BLOCK_SIZE
             /\ en(k) \in Entry /\ en(k).offset = 0 /\ en(k).size = Len(chunk(d, k))
             /\ en(k).path = f.path /\ en(k).part_index = k - 1 /\ en(k).total_parts = total
             /\ Made(part(k), first + k - 1)
             /\ Yield(part(k)) = << [entry |-> en(k), data |-> chunk(d, k)] >>
  <2>. DEFINE a == (k - 1) * BLOCK_SIZE
              b == Min({k * BLOCK_SIZE, Len(d)})
              c == chunk(d, k)
  <2>0. Len(d) # 0 /\ k \in 1 .. div_ceil(Len(d))
    BY <1>1 DEF d, total
  <2>. HIDE DEF a, b
  <2>1. b - a <= BLOCK_SIZE /\ c \in Seq(ByteCell) /\ Len(c) = b - a
    BY <1>1, <2>0, ChunkIs DEF a, b
  <2>. HIDE DEF c
  <2>2. c \in Seq(ByteCell) /\ Len(c) <= BLOCK_SIZE /\ Len(c) \in Nat
    BY <2>1
  <2>3. k - 1 \in Nat /\ first + k - 1 \in Nat
    BY <1>4, <1>5
  <2>. DEFINE ek == FileEntry(f.path, 0, Len(c), k - 1, total)
  <2>4. /\ ek \in Entry /\ ek.offset = 0 /\ ek.size = Len(c) /\ ek.path = f.path
        /\ ek.part_index = k - 1 /\ ek.total_parts = total
    BY <1>1, <1>5, <2>2, <2>3 DEF FileEntry, Entry
  <2>5. ek = en(k)
    BY DEF c
  <2>. HIDE DEF ek
  <2>. DEFINE id == first + k - 1
  <2>6. id \in Nat
    BY <2>3
  <2>. HIDE DEF id
  <2>7. /\ Made(serialise(id, << ek >>, c), id)
        /\ Yield(serialise(id, << ek >>, c)) = << [entry |-> ek, data |-> c] >>
    BY <2>2, <2>4, <2>6, PartBlock
  <2>. QED
    BY <2>2, <2>4, <2>5, <2>7 DEF id, c
<1>. HIDE DEF en, part
<1>8. ASSUME NEW k \in 1 .. total
      PROVE  [entry |-> en(k), data |-> chunk(d, k)] \in Item /\ part(k) \in Seq(Cell)
  <2>1. first + k - 1 \in Nat
    BY <1>4, <1>5
  <2>. QED
    BY <2>1, <1>7, MadeIs DEF Item
<1>9. /\ x \in Seq(Item) /\ Len(x) = total
      /\ \A k \in 1 .. total : x[k] = [entry |-> en(k), data |-> chunk(d, k)]
  BY <1>5, <1>8
<1>10. t \in Seq(Seq(Cell)) /\ Len(t) = total /\ \A k \in 1 .. total : t[k] = part(k)
  <2>1. \A k \in 1 .. total : part(k) \in Seq(Cell)
    BY <1>8
  <2>. QED
    BY <2>1, <1>5
<1>. HIDE DEF x, t
<1>11. \A k \in 1 .. Len(x) : Made(t[k], Len(flushed.blocks) + k - 1) /\ Yield(t[k]) = << x[k] >>
  BY <1>7, <1>9, <1>10 DEF first
<1>12. /\ AllMade(flushed.blocks \o t)
       /\ Unpacked(flushed.blocks \o t) = Unpacked(flushed.blocks) \o x
  BY <1>4, <1>9, <1>10, <1>11, UnpackedSplit
<1>13. AccOK(new)
  <2>1. new \in Acc
    <3>1. new.blocks \in Seq(Seq(Cell))
      BY <1>6, <1>12 DEF AllMade
    <3>. DEFINE bs == new.blocks
    <3>2. bs \in Seq(Seq(Cell)) /\ new = [blocks |-> bs, entries |-> << >>, payload |-> << >>]
      BY <3>1, <1>6
    <3>. HIDE DEF bs
    <3>. QED
      BY <3>2 DEF Acc
  <2>2. Fit(<< >>, << >>) /\ Len(<< >>) <= BLOCK_SIZE
    BY <1>1 DEF Fit
  <2>. QED
    BY <2>1, <2>2, <1>6, <1>12 DEF AccOK
<1>14. PartsOf(f, x)
  <2>1. Total(f) = total
    BY DEF Total, total, d
  <2>2. \A k \in 1 .. total : PartOf(f, k) = chunk(d, k)
    BY DEF PartOf, d
  <2>3. ASSUME NEW k \in 1 .. total
        PROVE  x[k].entry = en(k) /\ x[k].data = chunk(d, k)
    BY <1>9
  <2>. QED
    BY <2>1, <2>2, <2>3, <1>7, <1>9 DEF PartsOf
<1>15. Gathered(new) = Gathered(acc) \o x
  <2>1. ItemsOf(<< >>, << >>) = << >>
    BY DEF ItemsOf
  <2>2. Unpacked(new.blocks) \in Seq(Item) /\ Unpacked(flushed.blocks) \in Seq(Item)
    BY <1>4, <1>6, <1>12, UnpackedType
  <2>3. Gathered(new) = Unpacked(new.blocks)
    BY <2>1, <2>2, <1>6, ConcatEmptySeq DEF Gathered
  <2>4. Gathered(flushed) = Unpacked(flushed.blocks)
    BY <2>1, <2>2, <1>3, ConcatEmptySeq DEF Gathered
  <2>. QED
    BY <2>3, <2>4, <1>3, <1>6, <1>12
<1>. QED
  BY <1>13, <1>14, <1>15 DEF new

\* Either way the items gain the parts of the file.
LEMMA PackFileGathers ==
    ASSUME NEW acc, AccOK(acc), NEW f \in AFile
    PROVE  /\ AccOK(pack_file(acc, f))
           /\ \E x : PartsOf(f, x) /\ Gathered(pack_file(acc, f)) = Gathered(acc) \o x
<1>1. Len(f.bytes) > BLOCK_SIZE \/ Len(f.bytes) <= BLOCK_SIZE
  BY PackerAssumption DEF AFile
<1>2. CASE Len(f.bytes) > BLOCK_SIZE
  BY <1>2, SplitFileGathers DEF pack_file
<1>3. CASE Len(f.bytes) <= BLOCK_SIZE
  <2>1. ~ (Len(f.bytes) > BLOCK_SIZE)
    BY <1>3, PackerAssumption DEF AFile
  <2>. QED
    BY <2>1, <1>3, AddFileGathers DEF pack_file
<1>. QED
  BY <1>1, <1>2, <1>3

\* The parts of a file make up the file.
LEMMA ChunksJoin ==
    ASSUME NEW bytes \in Seq(ByteCell), Len(bytes) # 0, NEW q, q = div_ceil(Len(bytes)),
           NEW seqs \in Seq(Seq(ByteCell)), Len(seqs) = q,
           \A k \in 1 .. q : seqs[k] = chunk(bytes, k)
    PROVE  FlattenSeq(seqs) = bytes
<1>. DEFINE n == Len(bytes)
            upto(k) == Min({k * BLOCK_SIZE, n})
            f == [k \in 0 .. q |-> SubSeq(bytes, 1, upto(k))]
<1>1. n \in Nat \ {0} /\ BLOCK_SIZE \in Nat \ {0} /\ q = (n + BLOCK_SIZE - 1) \div BLOCK_SIZE
  BY PackerAssumption DEF div_ceil
<1>2. /\ q \in Nat \ {0} /\ n <= q * BLOCK_SIZE
      /\ \A i \in 1 .. q : (i - 1) * BLOCK_SIZE \in Nat /\ (i - 1) * BLOCK_SIZE < n
  <2>. HIDE DEF n
  <2>. QED
    BY <1>1, ChunksCover
<1>3. ASSUME NEW k \in 0 .. q
      PROVE  /\ k * BLOCK_SIZE \in Nat /\ upto(k) \in Nat /\ upto(k) <= n
             /\ upto(k) = IF k * BLOCK_SIZE <= n THEN k * BLOCK_SIZE ELSE n
  <2>. DEFINE m == k * BLOCK_SIZE
  <2>1. m \in Nat
    <3>1. k \in Nat /\ BLOCK_SIZE \in Nat
      BY <1>1, <1>2
    <3>. QED
      BY <3>1, TimesGrows
  <2>. HIDE DEF m
  <2>2. Min({m, n}) = IF m <= n THEN m ELSE n
    <3>1. m \in Int /\ n \in Int
      BY <1>1, <2>1
    <3>. HIDE DEF n
    <3>. QED
      BY <3>1, MinOfTwo
  <2>. QED
    BY <1>1, <2>1, <2>2 DEF m
<1>. HIDE DEF upto
<1>4. f \in [0 .. q -> Seq(ByteCell)]
  <2>1. ASSUME NEW k \in 0 .. q PROVE SubSeq(bytes, 1, upto(k)) \in Seq(ByteCell)
    <3>1. 0 \in Nat /\ upto(k) \in Nat /\ 0 <= upto(k) /\ upto(k) <= Len(bytes) /\ 0 + 1 = 1
      BY <1>3
    <3>2. SubSeq(bytes, 0 + 1, upto(k)) \in Seq(ByteCell)
      BY <3>1, PartIs
    <3>. QED
      BY <3>1, <3>2
  <2>. QED
    BY <2>1
<1>5. f[0] = << >>
  <2>1. 0 \in 0 .. q /\ 0 * BLOCK_SIZE = 0
    BY <1>1, <1>2
  <2>2. upto(0) = 0
    BY <1>1, <1>3, <2>1
  <2>. QED
    BY <2>1, <2>2, SubSeqEmpty
<1>6. ASSUME NEW k \in 1 .. q
      PROVE  f[k] = f[k - 1] \o seqs[k]
  <2>. DEFINE a == (k - 1) * BLOCK_SIZE
              b == upto(k)
  <2>0. k \in 0 .. q /\ k - 1 \in 0 .. q
    BY <1>2
  <2>1. a \in Nat /\ a < n
    BY <1>2
  <2>2. upto(k - 1) = a
    BY <2>0, <2>1, <1>1, <1>3
  <2>3. b = Min({k * BLOCK_SIZE, Len(bytes)})
    BY DEF upto
  <2>. HIDE DEF a, b
  <2>4. a <= b /\ b <= Len(bytes) /\ b \in Nat /\ chunk(bytes, k) = SubSeq(bytes, a + 1, b)
    <3>. DEFINE c == Min({k * BLOCK_SIZE, Len(bytes)})
    <3>1. k \in 1 .. div_ceil(Len(bytes))
      OBVIOUS
    <3>2. a <= c /\ c <= Len(bytes) /\ c \in Nat /\ chunk(bytes, k) = SubSeq(bytes, a + 1, c)
      BY <3>1, ChunkIs DEF a
    <3>. HIDE DEF c
    <3>3. b = c
      BY <2>3 DEF c
    <3>. QED
      BY <3>2, <3>3
  <2>5. 1 \in 1 .. Len(bytes) + 1 /\ a \in 1 - 1 .. Len(bytes) /\ b \in a .. Len(bytes)
    BY <2>1, <2>4
  <2>6. SubSeq(bytes, 1, a) \o SubSeq(bytes, a + 1, b) = SubSeq(bytes, 1, b)
    BY <2>5, ConcatAdjacentSubSeq
  <2>7. f[k] = SubSeq(bytes, 1, b) /\ f[k - 1] = SubSeq(bytes, 1, a)
    BY <2>0, <2>2 DEF b
  <2>. QED
    BY <2>4, <2>6, <2>7
<1>7. f[q] = bytes
  <2>1. q \in 0 .. q
    BY <1>2
  <2>. DEFINE m == q * BLOCK_SIZE
  <2>3. m \in Nat /\ n <= m /\ upto(q) = IF m <= n THEN m ELSE n
    BY <2>1, <1>2, <1>3
  <2>. HIDE DEF m
  <2>2. upto(q) = Len(bytes)
    BY <2>3, <1>1
  <2>. QED
    BY <2>1, <2>2, SubSeqFull
<1>. HIDE DEF f
<1>8. Joins(f, seqs, ByteCell)
  BY <1>4, <1>5, <1>6 DEF Joins
<1>. QED
  BY <1>7, <1>8, FlattenEnds

LEMMA TotalIs ==
    ASSUME NEW f \in AFile
    PROVE  Total(f) \in Nat \ {0}
<1>1. f.bytes \in Seq(ByteCell) /\ Len(f.bytes) \in Nat /\ BLOCK_SIZE \in Nat \ {0}
  BY PackerAssumption DEF AFile
<1>2. CASE Len(f.bytes) > BLOCK_SIZE
  <2>. DEFINE n == Len(f.bytes)
              q == (n + BLOCK_SIZE - 1) \div BLOCK_SIZE
  <2>1. n \in Nat \ {0}
    BY <1>1, <1>2
  <2>. HIDE DEF n
  <2>2. q \in Nat \ {0}
    BY <1>1, <2>1, ChunksCover
  <2>. QED
    BY <1>2, <2>2 DEF Total, div_ceil, n
<1>3. CASE ~ (Len(f.bytes) > BLOCK_SIZE)
  BY <1>3 DEF Total
<1>. QED
  BY <1>2, <1>3

LEMMA PartsJoin ==
    ASSUME NEW f \in AFile, NEW seqs, seqs = [k \in 1 .. Total(f) |-> PartOf(f, k)]
    PROVE  FlattenSeq(seqs) = f.bytes
<1>. DEFINE d == f.bytes
            q == Total(f)
<1>1. d \in Seq(ByteCell) /\ Len(d) \in Nat /\ BLOCK_SIZE \in Nat \ {0} /\ q \in Nat \ {0}
  BY PackerAssumption, TotalIs DEF AFile
<1>. HIDE DEF d, q
<1>2. CASE Len(d) > BLOCK_SIZE
  <2>1. Len(d) # 0 /\ q = div_ceil(Len(d)) /\ \A k \in 1 .. q : PartOf(f, k) = chunk(d, k)
    BY <1>1, <1>2 DEF d, q, Total, PartOf
  <2>2. ASSUME NEW k \in 1 .. q PROVE chunk(d, k) \in Seq(ByteCell)
    BY <1>1, <2>1, ChunkIs
  <2>. DEFINE z == [k \in 1 .. q |-> chunk(d, k)]
  <2>3. seqs = z
    BY <2>1 DEF q
  <2>4. z \in Seq(Seq(ByteCell)) /\ Len(z) = q /\ \A k \in 1 .. q : z[k] = chunk(d, k)
    <3>1. \A k \in 1 .. q : chunk(d, k) \in Seq(ByteCell)
      BY <2>2
    <3>. QED
      BY <1>1, <3>1
  <2>. HIDE DEF z
  <2>5. FlattenSeq(z) = d
    BY <1>1, <2>1, <2>4, ChunksJoin
  <2>. QED
    BY <2>3, <2>5 DEF d
<1>3. CASE ~ (Len(d) > BLOCK_SIZE)
  <2>1. q = 1 /\ \A k \in 1 .. q : PartOf(f, k) = d
    BY <1>3 DEF d, q, Total, PartOf
  <2>. DEFINE z == [k \in 1 .. 1 |-> d]
              y == Append(<< >>, d)
  <2>2. seqs = z
    BY <2>1 DEF q
  <2>6. z \in Seq(Seq(ByteCell)) /\ Len(z) = 1 /\ z[1] = d
    BY <1>1
  <2>7. y \in Seq(Seq(ByteCell)) /\ Len(y) = 1 /\ y[1] = d
    BY <1>1
  <2>. HIDE DEF z, y
  <2>8. \A i \in 1 .. Len(z) : z[i] = y[i]
    BY <2>6, <2>7
  <2>9. z = y
    BY <2>6, <2>7, <2>8, SeqEqual
  <2>3. seqs = Append(<< >>, d)
    BY <2>2, <2>9 DEF y
  <2>4. << >> \in Seq(Seq(ByteCell)) /\ << >> \o d = d
    BY <1>1, ConcatEmptySeq
  <2>5. FlattenSeq(Append(<< >>, d)) = FlattenSeq(<< >>) \o d
    BY <1>1, <2>4, FlattenAppend
  <2>. QED
    BY <2>3, <2>4, <2>5, FlattenEmpty DEF d
<1>. QED
  BY <1>2, <1>3

-----------------------------------------------------------------------------
(* All files.                                                              *)

FilesOK(fs) == fs \in Seq(AFile) /\ \A p \in 1 .. Len(fs) : fs[p].path = p

RightItem(fs, n, it) ==
    /\ it.entry.path \in 1 .. n
    /\ it.entry.part_index + 1 \in 1 .. Total(fs[it.entry.path])
    /\ it.entry.total_parts = Total(fs[it.entry.path])
    /\ it.data = PartOf(fs[it.entry.path], it.entry.part_index + 1)

Is(it, p, k) == it.entry.path = p /\ it.entry.part_index = k - 1

\* The items are the parts of the first n files, each part once.
Covers(fs, n, items) ==
    /\ items \in Seq(Item)
    /\ \A i \in 1 .. Len(items) : RightItem(fs, n, items[i])
    /\ \A p \in 1 .. n : \A k \in 1 .. Total(fs[p]) : \E i \in 1 .. Len(items) : Is(items[i], p, k)
    /\ \A i, j \in 1 .. Len(items) :
          /\ items[i].entry.path = items[j].entry.path
          /\ items[i].entry.part_index = items[j].entry.part_index
          => i = j

\* The parts of the next file keep every part of every file there once.
LEMMA CoversMore ==
    ASSUME NEW fs, FilesOK(fs), NEW n \in 1 .. Len(fs), NEW items, Covers(fs, n - 1, items),
           NEW x, PartsOf(fs[n], x)
    PROVE  Covers(fs, n, items \o x)
<1>. DEFINE m == Len(items)
            r == Len(x)
            all == items \o x
<1>1. /\ fs \in Seq(AFile) /\ fs[n] \in AFile /\ fs[n].path = n /\ n \in Nat
      /\ items \in Seq(Item) /\ x \in Seq(Item) /\ m \in Nat /\ r \in Nat
  BY DEF FilesOK, Covers, PartsOf
<1>2. /\ all \in Seq(Item) /\ Len(all) = m + r
      /\ \A i \in 1 .. (m + r) : all[i] = IF i <= m THEN items[i] ELSE x[i - m]
  BY <1>1, ConcatProperties
<1>. HIDE DEF all
<1>3. ASSUME NEW i \in 1 .. (m + r), ~ (i <= m)
      PROVE  i - m \in 1 .. r /\ all[i] = x[i - m]
  BY <1>1, <1>2, <1>3
<1>4. r = Total(fs[n]) /\ r \in Nat \ {0}
  BY <1>1, TotalIs DEF PartsOf
<1>. HIDE DEF m, r
<1>5. ASSUME NEW k \in 1 .. r
      PROVE  /\ x[k].entry.path = n /\ x[k].entry.part_index = k - 1
             /\ x[k].entry.total_parts = r /\ x[k].data = PartOf(fs[n], k)
             /\ (k - 1) + 1 = k
  BY <1>1, <1>4 DEF PartsOf, r
<1>6. ASSUME NEW i \in 1 .. m
      PROVE  all[i] = items[i] /\ RightItem(fs, n - 1, items[i]) /\ i \in 1 .. (m + r)
  <2>1. i \in 1 .. (m + r) /\ i <= m
    BY <1>1
  <2>. QED
    BY <2>1, <1>2 DEF Covers, m
<1>7. ASSUME NEW i \in 1 .. m
      PROVE  all[i].entry.path \in 1 .. (n - 1) /\ RightItem(fs, n, all[i])
  BY <1>1, <1>6 DEF RightItem
<1>8. ASSUME NEW i \in 1 .. (m + r), ~ (i <= m)
      PROVE  /\ all[i].entry.path = n /\ all[i].entry.part_index = (i - m) - 1
             /\ RightItem(fs, n, all[i])
  <2>. DEFINE k == i - m
  <2>1. k \in 1 .. r /\ all[i] = x[k]
    BY <1>3, <1>8
  <2>. HIDE DEF k
  <2>2. /\ all[i].entry.path = n /\ all[i].entry.part_index = k - 1
        /\ all[i].entry.total_parts = r /\ all[i].data = PartOf(fs[n], k) /\ (k - 1) + 1 = k
    BY <2>1, <1>5
  <2>3. n \in 1 .. n
    BY <1>1
  <2>4. RightItem(fs, n, all[i])
    BY <2>1, <2>2, <2>3, <1>4 DEF RightItem
  <2>. QED
    BY <2>2, <2>4 DEF k
<1>9. ASSUME NEW i \in 1 .. (m + r)
      PROVE  RightItem(fs, n, all[i]) /\ (i <= m => i \in 1 .. m)
  BY <1>1, <1>7, <1>8
<1>10. ASSUME NEW p \in 1 .. n, NEW k \in 1 .. Total(fs[p])
       PROVE  \E i \in 1 .. (m + r) : Is(all[i], p, k)
  <2>1. CASE p = n
    <3>. DEFINE i == m + k
    <3>1. k \in 1 .. r
      BY <2>1, <1>4
    <3>2. i \in 1 .. (m + r) /\ ~ (i <= m) /\ (i - m) - 1 = k - 1
      BY <3>1, <1>1, <1>4
    <3>. HIDE DEF i
    <3>3. Is(all[i], p, k)
      BY <2>1, <3>2, <1>8 DEF Is
    <3>. QED
      BY <3>2, <3>3
  <2>2. CASE p # n
    <3>1. p \in 1 .. (n - 1)
      BY <2>2, <1>1
    <3>2. PICK i \in 1 .. m : Is(items[i], p, k)
      BY <3>1 DEF Covers, m
    <3>. QED
      BY <3>2, <1>6
  <2>. QED
    BY <2>1, <2>2
<1>11. ASSUME NEW i \in 1 .. (m + r), NEW j \in 1 .. (m + r),
              all[i].entry.path = all[j].entry.path,
              all[i].entry.part_index = all[j].entry.part_index
       PROVE  i = j
  <2>1. CASE i <= m /\ j <= m
    <3>1. i \in 1 .. m /\ j \in 1 .. m
      BY <2>1, <1>9
    <3>2. all[i] = items[i] /\ all[j] = items[j]
      BY <3>1, <1>6
    <3>. QED
      BY <3>1, <3>2, <1>11 DEF Covers, m
  <2>2. CASE ~ (i <= m) /\ ~ (j <= m)
    <3>1. (i - m) - 1 = (j - m) - 1
      BY <2>2, <1>8, <1>11
    <3>. QED
      BY <3>1, <1>1
  <2>3. ASSUME NEW a \in 1 .. (m + r), NEW b \in 1 .. (m + r), a <= m, ~ (b <= m)
        PROVE  all[a].entry.path # all[b].entry.path
    <3>1. all[a].entry.path \in 1 .. (n - 1)
      BY <2>3, <1>7, <1>9
    <3>2. all[b].entry.path = n
      BY <2>3, <1>8
    <3>. QED
      BY <3>1, <3>2, <1>1
  <2>. QED
    BY <2>1, <2>2, <2>3, <1>11
<1>. QED
  BY <1>2, <1>9, <1>10, <1>11 DEF Covers, all

\* Whatever is packed is the files.
LEMMA PackFilesCovers ==
    ASSUME NEW fs, FilesOK(fs)
    PROVE  /\ AllMade(pack_files(fs))
           /\ Covers(fs, Len(fs), Unpacked(pack_files(fs)))
<1>. DEFINE N == Len(fs)
            A == {a \in Acc : AccOK(a)}
            F(h) == h = [n \in 0 .. N |-> IF n = 0 THEN new_acc ELSE pack_file(h[n - 1], fs[n])]
            packed == CHOOSE h : F(h)
            step == [n \in 1 .. N |-> [a \in A |-> pack_file(a, fs[n])]]
<1>1. N \in Nat /\ \A n \in 1 .. N : fs[n] \in AFile
  BY DEF FilesOK
<1>2. pack_files(fs) = flush(packed[N]).blocks
  BY Zenon DEF pack_files
<1>3. new_acc \in A /\ Gathered(new_acc) = << >>
  <2>1. /\ new_acc \in Acc /\ new_acc.blocks = << >> /\ new_acc.entries = << >>
        /\ new_acc.payload = << >>
    BY DEF new_acc, Acc
  <2>2. AllMade(<< >>) /\ Fit(<< >>, << >>) /\ Len(<< >>) <= BLOCK_SIZE
    BY PackerAssumption DEF AllMade, Fit
  <2>3. AccOK(new_acc)
    BY <2>1, <2>2 DEF AccOK
  <2>4. Yields(<< >>) = << >> /\ ItemsOf(<< >>, << >>) = << >>
    BY DEF Yields, ItemsOf
  <2>5. Unpacked(<< >>) = << >>
    BY <2>4, UnpackedIs, FlattenEmpty
  <2>6. << >> \o << >> = << >>
    OBVIOUS
  <2>. QED
    BY <2>1, <2>3, <2>4, <2>5, <2>6 DEF Gathered
<1>4. ASSUME NEW n \in 1 .. N, NEW a \in A
      PROVE  /\ pack_file(a, fs[n]) \in A
             /\ \E x : PartsOf(fs[n], x) /\ Gathered(pack_file(a, fs[n])) = Gathered(a) \o x
  <2>1. AccOK(a) /\ fs[n] \in AFile
    BY <1>1
  <2>2. AccOK(pack_file(a, fs[n]))
    BY <2>1, PackFileGathers
  <2>3. pack_file(a, fs[n]) \in Acc
    BY <2>2 DEF AccOK
  <2>. QED
    BY <2>1, <2>2, <2>3, PackFileGathers
<1>. HIDE DEF A
<1>5. step \in [1 .. N -> [A -> A]]
  BY <1>4
<1>6. \E f : History(f, A, new_acc, N, step)
  <2>. HIDE DEF step, N
  <2>. QED
    BY <1>1, <1>3, <1>5, LoopHistory
<1>7. PICK f : History(f, A, new_acc, N, step)
  BY <1>6
<1>8. /\ f \in [0 .. N -> A] /\ f[0] = new_acc
      /\ \A n \in 1 .. N : f[n] = pack_file(f[n - 1], fs[n])
  <2>1. /\ f \in [0 .. N -> A] /\ f[0] = new_acc
        /\ \A n \in 1 .. N : f[n] = step[n][f[n - 1]]
    <3>. HIDE DEF step
    <3>. QED
      BY <1>7 DEF History
  <2>2. ASSUME NEW n \in 1 .. N PROVE f[n] = pack_file(f[n - 1], fs[n])
    <3>1. n - 1 \in 0 .. N
      BY <1>1
    <3>. QED
      BY <2>1, <3>1
  <2>. QED
    BY <2>1, <2>2
<1>9. F(f)
  <2>1. ASSUME NEW n \in 0 .. N
        PROVE  f[n] = IF n = 0 THEN new_acc ELSE pack_file(f[n - 1], fs[n])
    <3>1. n = 0 \/ n \in 1 .. N
      BY <1>1
    <3>. QED
      BY <3>1, <1>8
  <2>. QED
    BY <2>1, <1>8
<1>10. F(packed)
  <2>. HIDE DEF F
  <2>. QED
    BY <1>9, Zenon
<1>. HIDE DEF packed
<1>11. packed[0] = new_acc /\ \A n \in 1 .. N : packed[n] = pack_file(packed[n - 1], fs[n])
  <2>1. \A n \in 0 .. N :
           packed[n] = IF n = 0 THEN new_acc ELSE pack_file(packed[n - 1], fs[n])
    BY <1>10, Zenon
  <2>2. 0 \in 0 .. N /\ \A n \in 1 .. N : n \in 0 .. N /\ n # 0
    BY <1>1
  <2>. QED
    BY <2>1, <2>2
<1>. DEFINE Right(n) == packed[n] \in A /\ Covers(fs, n, Gathered(packed[n]))
            S == {n \in Nat : n <= N => Right(n)}
<1>12. 0 \in S
  <2>1. Covers(fs, 0, << >>)
    BY DEF Covers
  <2>2. Right(0)
    BY <2>1, <1>3, <1>11
  <2>. QED
    BY <2>2
<1>13. ASSUME NEW n \in Nat, n \in S
       PROVE  n + 1 \in S
  <2>. SUFFICES ASSUME n + 1 <= N PROVE Right(n + 1)
    OBVIOUS
  <2>. DEFINE i == n + 1
  <2>1. Right(n) /\ i \in 1 .. N /\ i - 1 = n
    BY <1>1, <1>13
  <2>. HIDE DEF i
  <2>2. packed[i] = pack_file(packed[n], fs[i])
    <3>1. packed[i] = pack_file(packed[i - 1], fs[i])
      BY <2>1, <1>11
    <3>. QED
      BY <3>1, <2>1, Zenon
  <2>3. PICK x : PartsOf(fs[i], x) /\ Gathered(packed[i]) = Gathered(packed[n]) \o x
    <3>1. \E x : /\ PartsOf(fs[i], x)
                 /\ Gathered(pack_file(packed[n], fs[i])) = Gathered(packed[n]) \o x
      BY <2>1, <1>4, Zenon
    <3>. QED
      BY <3>1, <2>2, Zenon
  <2>4. packed[i] \in A
    BY <2>1, <2>2, <1>4
  <2>5. Covers(fs, i - 1, Gathered(packed[n]))
    BY <2>1, Zenon
  <2>6. Covers(fs, i, Gathered(packed[n]) \o x)
    BY <2>1, <2>3, <2>5, CoversMore
  <2>7. Right(i)
    BY <2>3, <2>4, <2>6
  <2>. QED
    BY <2>7 DEF i
<1>. HIDE DEF S
<1>14. Nat \subseteq S
  BY <1>12, <1>13, SetInduction
<1>15. Right(N)
  BY <1>1, <1>14 DEF S
<1>16. AccOK(packed[N]) /\ Covers(fs, N, Gathered(packed[N]))
  BY <1>15 DEF A
<1>. DEFINE last == flush(packed[N])
<1>17. /\ AccOK(last) /\ Gathered(last) = Gathered(packed[N])
       /\ last.entries = << >> /\ last.payload = << >>
  BY <1>16, FlushKeeps
<1>. HIDE DEF last
<1>18. AllMade(last.blocks) /\ Unpacked(last.blocks) \in Seq(Item)
  BY <1>17, UnpackedType DEF AccOK
<1>19. Gathered(last) = Unpacked(last.blocks)
  <2>1. ItemsOf(<< >>, << >>) = << >>
    BY DEF ItemsOf
  <2>. QED
    BY <2>1, <1>17, <1>18, ConcatEmptySeq DEF Gathered
<1>. QED
  BY <1>2, <1>16, <1>17, <1>18, <1>19 DEF last

-----------------------------------------------------------------------------
(* Unpacking the whole.                                                    *)

\* The writer makes the files of their parts.
LEMMA RestoredIs ==
    ASSUME NEW fs, FilesOK(fs), NEW bs, Covers(fs, Len(fs), Unpacked(bs))
    PROVE  Restored(bs) = [p \in 1 .. Len(fs) |-> fs[p].bytes]
<1>. DEFINE N == Len(fs)
            all == Unpacked(bs)
            parts(p) == {i \in 1 .. Len(all) : all[i].entry.path = p}
            total(p) == all[CHOOSE i \in parts(p) : TRUE].entry.total_parts
            last(p, k) == {i \in parts(p) : /\ all[i].entry.part_index = k
                                            /\ \A j \in parts(p) : all[j].entry.part_index = k => j <= i}
            paths == {all[i].entry.path : i \in 1 .. Len(all)}
            whole == {p \in paths : \A k \in 0 .. (total(p) - 1) : last(p, k) # {}}
            seqs(p) == [k \in 1 .. total(p) |-> all[CHOOSE i \in last(p, k - 1) : TRUE].data]
<1>1. Restored(bs) = [p \in whole |-> FlattenSeq(seqs(p))]
  BY Zenon DEF Restored
<1>. HIDE DEF all
<1>2. /\ N \in Nat /\ Covers(fs, N, all) /\ all \in Seq(Item) /\ Len(all) \in Nat
      /\ \A p \in 1 .. N : fs[p] \in AFile
  BY DEF FilesOK, Covers, all
<1>3. ASSUME NEW p \in 1 .. N, NEW k \in 1 .. Total(fs[p])
      PROVE  \E i \in parts(p) : last(p, k - 1) = {i} /\ all[i].data = PartOf(fs[p], k)
  <2>1. PICK i \in 1 .. Len(all) : Is(all[i], p, k)
    BY <1>2 DEF Covers
  <2>2. i \in parts(p) /\ all[i].entry.path = p /\ all[i].entry.part_index = k - 1
    BY <2>1 DEF Is
  <2>3. ASSUME NEW j \in parts(p), all[j].entry.part_index = k - 1
        PROVE  j = i
    <3>1. j \in 1 .. Len(all) /\ all[j].entry.path = p
      OBVIOUS
    <3>. QED
      BY <3>1, <2>1, <2>2, <2>3, <1>2 DEF Covers
  <2>4. i <= i
    BY <1>2
  <2>5. last(p, k - 1) = {i}
    <3>. HIDE DEF parts
    <3>. QED
      BY <2>2, <2>3, <2>4
  <2>6. all[i].data = PartOf(fs[p], k)
    <3>1. RightItem(fs, N, all[i])
      BY <2>1, <1>2 DEF Covers
    <3>2. Total(fs[p]) \in Nat
      BY <1>2, TotalIs
    <3>3. (k - 1) + 1 = k
      BY <3>2
    <3>4. all[i].data = PartOf(fs[all[i].entry.path], all[i].entry.part_index + 1)
      BY <3>1 DEF RightItem
    <3>. QED
      BY <3>3, <3>4, <2>2, Zenon
  <2>. QED
    BY <2>2, <2>5, <2>6
<1>4. ASSUME NEW p \in 1 .. N
      PROVE  p \in paths /\ total(p) = Total(fs[p]) /\ Total(fs[p]) \in Nat \ {0}
  <2>1. Total(fs[p]) \in Nat \ {0}
    BY <1>2, TotalIs
  <2>2. 1 \in 1 .. Total(fs[p])
    BY <2>1
  <2>3. PICK i \in 1 .. Len(all) : Is(all[i], p, 1)
    BY <2>2, <1>2 DEF Covers
  <2>4. i \in parts(p) /\ p \in paths
    BY <2>3 DEF Is
  <2>. DEFINE c == CHOOSE j \in parts(p) : TRUE
  <2>5. c \in parts(p)
    BY <2>4, Zenon
  <2>. HIDE DEF c
  <2>6. c \in 1 .. Len(all) /\ all[c].entry.path = p
    BY <2>5
  <2>7. RightItem(fs, N, all[c])
    BY <2>6, <1>2 DEF Covers
  <2>8. all[c].entry.total_parts = Total(fs[p])
    BY <2>6, <2>7 DEF RightItem
  <2>. QED
    BY <2>1, <2>4, <2>8 DEF c
<1>5. paths \subseteq 1 .. N
  BY <1>2 DEF Covers, RightItem
<1>. HIDE DEF last, total, parts
<1>6. whole = 1 .. N
  <2>1. ASSUME NEW p \in 1 .. N, NEW k \in 0 .. (total(p) - 1)
        PROVE  last(p, k) # {}
    <3>1. k + 1 \in 1 .. Total(fs[p]) /\ (k + 1) - 1 = k
      BY <1>4
    <3>2. \E i : last(p, (k + 1) - 1) = {i}
      BY <3>1, <1>3
    <3>. QED
      BY <3>1, <3>2
  <2>2. \A p \in 1 .. N : p \in paths
    BY <1>4
  <2>. HIDE DEF paths
  <2>. QED
    BY <2>1, <2>2, <1>5
<1>7. ASSUME NEW p \in 1 .. N
      PROVE  FlattenSeq(seqs(p)) = fs[p].bytes
  <2>1. ASSUME NEW k \in 1 .. Total(fs[p])
        PROVE  all[CHOOSE i \in last(p, k - 1) : TRUE].data = PartOf(fs[p], k)
    <3>1. PICK i \in parts(p) : last(p, k - 1) = {i} /\ all[i].data = PartOf(fs[p], k)
      BY <1>3
    <3>2. (CHOOSE j \in {i} : TRUE) = i
      OBVIOUS
    <3>. QED
      BY <3>1, <3>2, Zenon
  <2>2. seqs(p) = [k \in 1 .. Total(fs[p]) |-> PartOf(fs[p], k)]
    BY <2>1, <1>4
  <2>. HIDE DEF seqs
  <2>. QED
    BY <2>2, <1>2, PartsJoin
<1>. HIDE DEF whole, seqs
<1>. QED
  BY <1>1, <1>6, <1>7

\* The reference, by number of the file.
LEMMA AsWrittenIs ==
    ASSUME NEW fs, FilesOK(fs)
    PROVE  AsWritten(fs) = [p \in 1 .. Len(fs) |-> fs[p].bytes]
<1>. DEFINE N == Len(fs)
<1>1. fs \in Seq(AFile) /\ N \in Nat /\ DOMAIN fs = 1 .. N /\ \A p \in 1 .. N : fs[p].path = p
  BY DEF FilesOK
<1>. HIDE DEF N
<1>2. {fs[i].path : i \in 1 .. N} = 1 .. N
  BY <1>1
<1>3. ASSUME NEW p \in 1 .. N
      PROVE  (CHOOSE f \in Range(fs) : f.path = p) = fs[p]
  <2>1. fs[p] \in Range(fs) /\ fs[p].path = p
    BY <1>1 DEF Range
  <2>2. ASSUME NEW f \in Range(fs), f.path = p PROVE f = fs[p]
    <3>1. PICK i \in 1 .. N : f = fs[i]
      BY <1>1 DEF Range
    <3>. QED
      BY <3>1, <2>2, <1>1
  <2>. QED
    BY <2>1, <2>2
<1>. DEFINE val(p) == (CHOOSE f \in Range(fs) : f.path = p).bytes
            dom == {fs[i].path : i \in 1 .. N}
<1>4. AsWritten(fs) = [p \in dom |-> val(p)]
  BY Zenon DEF AsWritten, N
<1>5. \A p \in 1 .. N : val(p) = fs[p].bytes
  BY <1>3, Zenon
<1>. HIDE DEF val, dom
<1>6. AsWritten(fs) = [p \in 1 .. N |-> fs[p].bytes]
  <2>1. dom = 1 .. N
    BY <1>2 DEF dom
  <2>. QED
    BY <2>1, <1>4, <1>5
<1>. QED
  BY <1>6 DEF N

\* Packing keeps its promise, for every number and every size of files.
LEMMA PackFilesPacks ==
    ASSUME NEW fs, FilesOK(fs)
    PROVE  Packs(fs, pack_files(fs))
<1>. DEFINE bs == pack_files(fs)
            all == Unpacked(bs)
<1>1. AllMade(bs) /\ Covers(fs, Len(fs), all)
  BY PackFilesCovers
<1>. HIDE DEF bs
<1>2. bs \in Seq(Seq(Cell)) /\ Restored(bs) = AsWritten(fs)
  <2>1. Restored(bs) = [p \in 1 .. Len(fs) |-> fs[p].bytes]
    BY <1>1, RestoredIs
  <2>2. AsWritten(fs) = [p \in 1 .. Len(fs) |-> fs[p].bytes]
    BY AsWrittenIs
  <2>. QED
    BY <2>1, <2>2, <1>1, Zenon DEF AllMade
<1>3. ASSUME NEW b \in 1 .. Len(bs)
      PROVE  /\ unpack_entries(bs[b]) # {} /\ bs[b][1].block_id = b - 1
             /\ bs[b][1].entry_count > 0
             /\ Len(bs[b]) - 1 - bs[b][1].entry_count <= BLOCK_SIZE
  <2>1. b - 1 \in Nat /\ Made(bs[b], b - 1)
    BY <1>1 DEF AllMade
  <2>. QED
    BY <2>1, MadeIs
<1>. HIDE DEF all
<1>4. ASSUME NEW i \in 1 .. Len(all), NEW j \in 1 .. Len(all),
             all[i].entry.path = all[j].entry.path
      PROVE  /\ all[i].entry.total_parts = all[j].entry.total_parts
             /\ i # j => all[i].entry.part_index # all[j].entry.part_index
  <2>1. RightItem(fs, Len(fs), all[i]) /\ RightItem(fs, Len(fs), all[j])
    BY <1>1 DEF Covers
  <2>. QED
    BY <2>1, <1>1, <1>4 DEF Covers, RightItem
<1>. QED
  BY <1>2, <1>3, <1>4, Zenon DEF Packs, all, bs

-----------------------------------------------------------------------------
(* Direct mode: the types.                                                 *)

AnyCell == Cell \cup [kind : {"prefix"}, len : Nat]

DataDatagram == [block : Nat \ {0}, at : Nat, data : Seq(AnyCell)]

DirectTypes ==
    /\ blocks \in Seq(Seq(Cell))
    /\ tx \in {"connect", "run", "ok", "failed", "read_failed"}
    /\ produced \in Nat /\ io_q \in Seq(Nat) /\ framed \in Seq(DataDatagram)
    /\ fin_left \in Nat
    /\ net \in Seq(DataDatagram \cup {FIN})
    /\ cut \in Nat
    /\ listening \in BOOLEAN /\ rx \in {"start", "run", "ok", "failed"}
    /\ fin_seen \in BOOLEAN
    /\ raw_q \in Seq(DataDatagram) /\ accum \in Seq(AnyCell)
    /\ task \in {"recv", "extract", "ended"}
    /\ block_q \in Seq(Seq(AnyCell)) /\ written \in Seq(Seq(AnyCell))

-----------------------------------------------------------------------------
(* The sending side.                                                       *)

\* Blocks that the send task has framed.
Taken == produced - Len(io_q)

\* Blocks leave the command channel in order, then Shutdown.
InTurn ==
    /\ produced <= Len(blocks) + 1 /\ Len(io_q) <= produced /\ Taken <= Len(blocks)
    /\ \A i \in 1 .. Len(io_q) :
          io_q[i] = IF Taken + i <= Len(blocks) THEN Taken + i ELSE Shutdown
    /\ produced = 0 => framed = << >>

\* Nobody sends before the receiver listens, so that nothing is dropped.
HeardFromStart == tx \in {"run", "ok", "read_failed"} => listening

\* FIN is sent after the last datagram of the last block, or instead of the
\* first when the directory could not be read.
FinIsLast ==
    /\ fin_left < FinCopies =>
          framed = << >> /\ (tx = "read_failed" \/ (Taken = Len(blocks) /\ Len(io_q) = 1))
    /\ tx = "read_failed" => produced = 0
    /\ fin_left = FinCopies => ~ fin_seen /\ \A i \in 1 .. Len(net) : net[i] # FIN
    /\ fin_left <= FinCopies

-----------------------------------------------------------------------------
(* The line: the datagrams between the send task's frame and the buffer of *)
(* the reassembly task.                                                    *)

LineLen == Len(raw_q) + Len(net) + Len(framed)

Line(i) ==
    IF i <= Len(raw_q) THEN raw_q[i]
    ELSE IF i <= Len(raw_q) + Len(net) THEN net[i - Len(raw_q)]
    ELSE framed[i - Len(raw_q) - Len(net)]

\* The frame of a block.
Cells(b) == << Prefix(Len(blocks[b])) >> \o blocks[b]

\* A place in the stream: a block and the cells of its frame before it.
Place(d) == << d.block, d.at >>

Beyond(b, n) == IF n = Len(blocks[b]) + 1 THEN << b + 1, 0 >> ELSE << b, n >>

After(d) == Beyond(d.block, d.at + Len(d.data))

\* A datagram that holds what its sequence number says.
Good(d) ==
    /\ d.block \in 1 .. Taken
    /\ d.at + Len(d.data) <= Len(blocks[d.block]) + 1
    /\ \A i \in 1 .. Len(d.data) : d.data[i] = Cells(d.block)[d.at + i]

HandedLen == Len(written) + Len(block_q)

\* The place of what the reassembly task needs next.
Need == IF accum = << >> THEN << HandedLen + 1, 0 >> ELSE Beyond(HandedLen + 1, Len(accum))

\* The place that the datagrams of the line before the i-th lead to.
Reached(i) == IF i = 1 THEN Need ELSE After(Line(i - 1))

\* The first n datagrams of the line follow each other without a gap, from
\* what is needed next to the end of what was sent or to a block that the
\* network has touched.
Chain(n) ==
    /\ n <= LineLen
    /\ \A i \in 1 .. n : Good(Line(i)) /\ Place(Line(i)) = Reached(i)
    /\ \/ cut # 0 /\ cut <= Reached(n + 1)[1]
       \/ /\ Reached(n + 1) = << Taken + 1, 0 >>
          /\ \A i \in n + 1 .. LineLen : Line(i) = FIN

\* The buffer is the beginning of a frame; it is whole at most until the
\* reassembly task has looked at it.
BufferFits ==
    accum # << >> =>
        /\ HandedLen + 1 <= Taken
        /\ Len(accum) <= Len(blocks[HandedLen + 1]) + 1
        /\ task # "extract" => Len(accum) <= Len(blocks[HandedLen + 1])
        /\ \A i \in 1 .. Len(accum) : accum[i] = Cells(HandedLen + 1)[i]

\* A block that the network has touched is the next to be handed over, or was.
Spoilt == cut # 0 /\ cut <= HandedLen + 1

InStep == Spoilt \/ (BufferFits /\ \E n \in Nat : Chain(n))

\* The order of the end of the receiving command.
EndInOrder ==
    /\ rx = "start" => task = "recv" /\ ~ fin_seen /\ raw_q = << >>
    /\ rx = "ok" => task = "ended" /\ block_q = << >>
    /\ task = "ended" => Spoilt \/ (fin_seen /\ raw_q = << >>)
    /\ fin_seen /\ cut = 0 => \A i \in 1 .. Len(net) : net[i] = FIN

DirectInv ==
    /\ DirectTypes /\ PacksEverything
    /\ InTurn /\ HeardFromStart /\ FinIsLast
    /\ rx # "failed" => InStep /\ EndInOrder /\ WholeBlocksInOrder

-----------------------------------------------------------------------------
(* Sequences.                                                              *)

LEMMA RemoveAtIs ==
    ASSUME NEW S, NEW s \in Seq(S), NEW k \in 1 .. Len(s)
    PROVE  /\ RemoveAt(s, k) \in Seq(S)
           /\ Len(RemoveAt(s, k)) = Len(s) - 1
           /\ \A i \in 1 .. k - 1 : RemoveAt(s, k)[i] = s[i]
           /\ \A i \in k .. Len(s) - 1 : RemoveAt(s, k)[i] = s[i + 1]
<1> DEFINE a == SubSeq(s, 1, k - 1)
           b == SubSeq(s, k + 1, Len(s))
<1>1. a \in Seq(S) /\ Len(a) = k - 1 /\ \A i \in 1 .. k - 1 : a[i] = s[i]
  OBVIOUS
<1>2. b \in Seq(S) /\ Len(b) = Len(s) - k /\ \A i \in 1 .. Len(s) - k : b[i] = s[k + i]
  OBVIOUS
<1>3. RemoveAt(s, k) = a \o b
  BY DEF RemoveAt
<1> HIDE DEF a, b
<1>4. /\ a \o b \in Seq(S) /\ Len(a \o b) = Len(a) + Len(b)
      /\ \A i \in 1 .. Len(a) + Len(b) : (a \o b)[i] = IF i <= Len(a) THEN a[i] ELSE b[i - Len(a)]
  BY <1>1, <1>2, ConcatProperties
<1>5. ASSUME NEW i \in k .. Len(s) - 1
      PROVE  (a \o b)[i] = s[i + 1]
  <2>1. i \in 1 .. Len(a) + Len(b) /\ ~ (i <= Len(a)) /\ i - Len(a) \in 1 .. Len(s) - k
    BY <1>1, <1>2
  <2>2. b[i - Len(a)] = s[k + (i - Len(a))] /\ k + (i - Len(a)) = i + 1
    BY <2>1, <1>1, <1>2
  <2> QED
    BY <2>1, <2>2, <1>4
<1>6. ASSUME NEW i \in 1 .. k - 1
      PROVE  (a \o b)[i] = s[i]
  BY <1>1, <1>2, <1>4
<1>7. Len(a \o b) = Len(s) - 1
  BY <1>1, <1>2, <1>4
<1> QED
  BY <1>3, <1>4, <1>5, <1>6, <1>7

LEMMA InsertAfterIs ==
    ASSUME NEW S, NEW s \in Seq(S), NEW k \in 1 .. Len(s), NEW e \in S
    PROVE  /\ InsertAt(s, k + 1, e) \in Seq(S)
           /\ Len(InsertAt(s, k + 1, e)) = Len(s) + 1
           /\ \A i \in 1 .. k : InsertAt(s, k + 1, e)[i] = s[i]
<1> DEFINE a == SubSeq(s, 1, k)
           b == SubSeq(s, k + 1, Len(s))
<1>1. a \in Seq(S) /\ Len(a) = k /\ \A i \in 1 .. k : a[i] = s[i]
  OBVIOUS
<1>2. b \in Seq(S) /\ Len(b) = Len(s) - k
  OBVIOUS
<1>3. InsertAt(s, k + 1, e) = a \o << e >> \o b
  <2>1. (k + 1) - 1 = k
    OBVIOUS
  <2> QED
    BY <2>1 DEF InsertAt
<1> HIDE DEF a, b
<1>4. /\ a \o << e >> \in Seq(S) /\ Len(a \o << e >>) = k + 1
      /\ \A i \in 1 .. k : (a \o << e >>)[i] = a[i]
  BY <1>1
<1> HIDE DEF a
<1> DEFINE c == a \o << e >>
<1>6. c \in Seq(S) /\ Len(c) = k + 1 /\ \A i \in 1 .. k : c[i] = a[i]
  BY <1>4
<1> HIDE DEF c
<1>5. /\ c \o b \in Seq(S) /\ Len(c \o b) = Len(c) + Len(b)
      /\ \A i \in 1 .. Len(c) + Len(b) : (c \o b)[i] = IF i <= Len(c) THEN c[i] ELSE b[i - Len(c)]
  BY <1>2, <1>6, ConcatProperties
<1>7. InsertAt(s, k + 1, e) = c \o b
  BY <1>3 DEF c
<1> QED
  <2>1. Len(c \o b) = Len(s) + 1
    BY <1>2, <1>5, <1>6
  <2>2. \A i \in 1 .. k : i \in 1 .. Len(c) + Len(b) /\ i <= Len(c)
    BY <1>2, <1>6
  <2>3. \A i \in 1 .. k : (c \o b)[i] = s[i]
    BY <2>2, <1>1, <1>5, <1>6
  <2> QED
    BY <2>1, <2>3, <1>5, <1>7

LEMMA SwapIs ==
    ASSUME NEW S, NEW s \in Seq(S), NEW k \in 1 .. Len(s), k < Len(s)
    PROVE  LET t == [s EXCEPT ![k] = s[k + 1], ![k + 1] = s[k]]
           IN  /\ t \in Seq(S) /\ Len(t) = Len(s)
               /\ \A i \in 1 .. k - 1 : t[i] = s[i]
<1>1. s[k] \in S /\ s[k + 1] \in S /\ k + 1 \in 1 .. Len(s)
  OBVIOUS
<1> DEFINE u == [s EXCEPT ![k] = s[k + 1]]
<1>2. u \in Seq(S) /\ Len(u) = Len(s) /\ \A i \in 1 .. Len(s) : u[i] = IF i = k THEN s[k + 1] ELSE s[i]
  BY <1>1, ExceptSeq
<1> HIDE DEF u
<1>3. /\ [u EXCEPT ![k + 1] = s[k]] \in Seq(S)
      /\ Len([u EXCEPT ![k + 1] = s[k]]) = Len(u)
      /\ \A i \in 1 .. Len(u) : [u EXCEPT ![k + 1] = s[k]][i] = IF i = k + 1 THEN s[k] ELSE u[i]
  BY <1>1, <1>2, ExceptSeq
<1> QED
  BY <1>2, <1>3 DEF u

LEMMA FrontIs ==
    ASSUME NEW S, NEW s \in Seq(S), s # << >>
    PROVE  /\ Front(s) \in Seq(S) /\ Len(Front(s)) = Len(s) - 1
           /\ \A i \in 1 .. Len(s) - 1 : Front(s)[i] = s[i]
<1> DEFINE n == Len(s) - 1
<1>1. n \in 0 .. Len(s)
  OBVIOUS
<1> HIDE DEF n
<1>2. /\ SubSeq(s, 1, n) \in Seq(S) /\ Len(SubSeq(s, 1, n)) = n
      /\ \A i \in 1 .. n : SubSeq(s, 1, n)[i] = s[i]
  BY <1>1
<1> QED
  BY <1>2 DEF Front, n

\* The channel between task and writer gives its first block to the writer.
LEMMA HeadToEnd ==
    ASSUME NEW S, NEW w \in Seq(S), NEW q \in Seq(S), q # << >>
    PROVE  Append(w, Head(q)) \o Tail(q) = w \o q
<1>1. /\ Append(w, Head(q)) \in Seq(S) /\ Tail(q) \in Seq(S)
      /\ Len(Append(w, Head(q))) = Len(w) + 1 /\ Len(Tail(q)) = Len(q) - 1
  OBVIOUS
<1>2. \A i \in 1 .. Len(w) + Len(q) : (Append(w, Head(q)) \o Tail(q))[i] = (w \o q)[i]
  BY <1>1
<1> QED
  BY <1>1, <1>2, SeqEqual, ConcatProperties

-----------------------------------------------------------------------------
(* Frames.                                                                 *)

LEMMA CellsAre ==
    ASSUME blocks \in Seq(Seq(Cell)), NEW b \in 1 .. Len(blocks)
    PROVE  /\ Len(blocks[b]) \in Nat /\ blocks[b] \in Seq(Cell)
           /\ Cells(b) \in Seq(AnyCell) /\ Len(Cells(b)) = Len(blocks[b]) + 1
           /\ Cells(b)[1] = Prefix(Len(blocks[b]))
           /\ \A i \in 1 .. Len(blocks[b]) : Cells(b)[i + 1] = blocks[b][i]
<1>1. Len(blocks[b]) \in Nat /\ blocks[b] \in Seq(Cell)
  OBVIOUS
<1>2. Prefix(Len(blocks[b])) \in AnyCell
  BY <1>1 DEF Prefix, AnyCell
<1>3. blocks[b] \in Seq(AnyCell)
  <2>1. Cell \subseteq AnyCell
    BY DEF AnyCell
  <2> QED
    BY <2>1, <1>1, SeqMonotonic
<1> DEFINE p == Prefix(Len(blocks[b]))
           s == blocks[b]
           c == << p >> \o s
<1> HIDE DEF p, s
<1>4. p \in AnyCell /\ s \in Seq(AnyCell)
  BY <1>2, <1>3 DEF p, s
<1>5. << p >> \in Seq(AnyCell) /\ Len(<< p >>) = 1 /\ << p >>[1] = p
  BY <1>4
<1>6. /\ c \in Seq(AnyCell) /\ Len(c) = 1 + Len(s)
      /\ c[1] = p /\ \A i \in 1 .. Len(s) : c[i + 1] = s[i]
  BY <1>4, <1>5
<1> QED
  BY <1>1, <1>6 DEF p, s, Cells

LEMMA FrameIs ==
    ASSUME blocks \in Seq(Seq(Cell)), NEW b \in 1 .. Len(blocks)
    PROVE  /\ Frame(b) \in Seq(DataDatagram) /\ Len(Frame(b)) > 0
           /\ Frame(b)[1].at = 0
           /\ \A k \in 1 .. Len(Frame(b)) :
                 LET d == Frame(b)[k]
                 IN  /\ d.block = b
                     /\ d.at + Len(d.data) <= Len(blocks[b]) + 1
                     /\ \A i \in 1 .. Len(d.data) : d.data[i] = Cells(b)[d.at + i]
                     /\ k < Len(Frame(b)) =>
                           /\ d.at + Len(d.data) = Frame(b)[k + 1].at
                           /\ d.at + Len(d.data) < Len(blocks[b]) + 1
                     /\ k = Len(Frame(b)) => d.at + Len(d.data) = Len(blocks[b]) + 1
<1> DEFINE c == Cells(b)
           m == MAX_PAYLOAD
           n == Len(c)
           q == (n + m - 1) \div m
           from(k) == (k - 1) * m
           end(k) == Min({k * m, n})
           data(k) == SubSeq(c, from(k) + 1, end(k))
           d(k) == [block |-> b, at |-> from(k), data |-> data(k)]
<1>1. c \in Seq(AnyCell) /\ n \in Nat \ {0} /\ n = Len(blocks[b]) + 1
  BY CellsAre
<1>2. m \in Nat \ {0}
  BY DirectAssumption
<1>3. Frame(b) = [k \in 1 .. q |-> d(k)]
  BY DEF Frame, Cells, Datagram
<1> HIDE DEF c, m, q
<1>4. /\ q \in Nat \ {0}
      /\ \A k \in 1 .. q : from(k) \in Nat /\ from(k) < n
      /\ \A k \in 1 .. q : k < q => k * m < n
      /\ n <= q * m
  BY <1>1, <1>2, ChunksCover DEF q
<1>5. ASSUME NEW k \in 1 .. q
      PROVE  /\ end(k) \in Nat /\ end(k) <= n /\ from(k) < end(k)
             /\ k < q => end(k) = from(k + 1) /\ end(k) < n
             /\ k = q => end(k) = n
  <2>1. k \in Int
    BY <1>4
  <2>2. from(k) + m = k * m /\ k * m \in Int
    BY <1>2, <2>1, OneMore
  <2>3. from(k) \in Nat /\ from(k) < n
    BY <1>4
  <2>4. end(k) = IF k * m <= n THEN k * m ELSE n
    BY <1>1, <2>2, MinOfTwo
  <2>5. (k + 1) - 1 = k
    BY <2>1
  <2>6. k < q => k * m < n
    BY <1>4
  <2>7. from(k + 1) = k * m
    BY <2>5
  <2> HIDE DEF from, end, n
  <2>8. k = q => n <= k * m
    BY <1>4
  <2> QED
    BY <1>1, <1>2, <2>2, <2>3, <2>4, <2>6, <2>7, <2>8
<1> HIDE DEF from, end
<1>6. ASSUME NEW k \in 1 .. q
      PROVE  /\ data(k) \in Seq(AnyCell) /\ Len(data(k)) = end(k) - from(k)
             /\ \A i \in 1 .. Len(data(k)) : data(k)[i] = c[from(k) + i]
  <2>1. from(k) \in Nat /\ end(k) \in Nat /\ end(k) <= n /\ from(k) < end(k)
    BY <1>4, <1>5
  <2>2. ASSUME NEW f \in Nat, NEW g \in Nat, f < g, g <= Len(c)
        PROVE  /\ SubSeq(c, f + 1, g) \in Seq(AnyCell) /\ Len(SubSeq(c, f + 1, g)) = g - f
               /\ \A i \in 1 .. Len(SubSeq(c, f + 1, g)) : SubSeq(c, f + 1, g)[i] = c[f + i]
    <3>1. f <= g
      BY <2>2
    <3> QED
      BY <1>1, <2>2, <3>1, PartIs
  <2> QED
    BY <2>1, <2>2
<1> HIDE DEF data, n
<1>7. ASSUME NEW k \in 1 .. q
      PROVE  d(k) \in DataDatagram
  BY <1>4, <1>6 DEF DataDatagram
<1>8. Frame(b) \in Seq(DataDatagram) /\ Len(Frame(b)) = q
  BY <1>3, <1>4, <1>7
<1>9. \A k \in 1 .. q : Frame(b)[k] = d(k)
  BY <1>3
<1>10. \A k \in 1 .. q : d(k).block = b /\ d(k).at = from(k) /\ d(k).data = data(k)
  OBVIOUS
<1> HIDE DEF d
<1>11. Frame(b)[1].at = 0
  <2>1. from(1) = 0
    BY <1>2 DEF from
  <2> QED
    BY <2>1, <1>4, <1>9, <1>10
<1>12. ASSUME NEW k \in 1 .. q
       PROVE  /\ d(k).at + Len(d(k).data) = end(k)
              /\ \A i \in 1 .. Len(d(k).data) : d(k).data[i] = c[d(k).at + i]
  <2>1. from(k) + (end(k) - from(k)) = end(k)
    BY <1>4, <1>5
  <2> QED
    BY <2>1, <1>6, <1>10
<1>13. \A k \in 1 .. q : k < q => k + 1 \in 1 .. q
  BY <1>4
<1>14. ASSUME NEW k \in 1 .. q, k < q
       PROVE  d(k).at + Len(d(k).data) = d(k + 1).at
  BY <1>5, <1>10, <1>12, <1>13, <1>14
<1>15. ASSUME NEW k \in 1 .. q
       PROVE  LET e == Frame(b)[k]
              IN  /\ e.block = b
                  /\ e.at + Len(e.data) <= Len(blocks[b]) + 1
                  /\ \A i \in 1 .. Len(e.data) : e.data[i] = Cells(b)[e.at + i]
                  /\ k < q =>
                        /\ e.at + Len(e.data) = Frame(b)[k + 1].at
                        /\ e.at + Len(e.data) < Len(blocks[b]) + 1
                  /\ k = q => e.at + Len(e.data) = Len(blocks[b]) + 1
  <2>1. Frame(b)[k] = d(k) /\ (k < q => Frame(b)[k + 1] = d(k + 1))
    BY <1>9, <1>13
  <2>2. d(k).at + Len(d(k).data) <= n
    BY <1>5, <1>12
  <2>3. k < q => d(k).at + Len(d(k).data) < n
    BY <1>5, <1>12
  <2>4. k = q => d(k).at + Len(d(k).data) = n
    BY <1>5, <1>12
  <2>5. \A i \in 1 .. Len(d(k).data) : d(k).data[i] = Cells(b)[d(k).at + i]
    BY <1>12 DEF c
  <2> QED
    BY <2>1, <2>2, <2>3, <2>4, <2>5, <1>1, <1>10, <1>14
<1> QED
  BY <1>4, <1>8, <1>11, <1>15

-----------------------------------------------------------------------------
(* Types and the sending side.                                             *)

SendInv == DirectTypes /\ InTurn /\ HeardFromStart /\ FinIsLast

LEMMA LengthIsNat ==
    ASSUME accum \in Seq(AnyCell), HasLength
    PROVE  block_len \in Nat
<1>1. accum[1] \in AnyCell
  BY DEF HasLength
<1>2. Content \in Nat
  BY DirectAssumption
<1>3. CASE accum[1].kind = "prefix"
  <2>1. accum[1] \notin Cell
    BY <1>3 DEF Cell
  <2> QED
    BY <1>1, <1>3, <2>1 DEF AnyCell, block_len
<1>4. CASE accum[1].kind # "prefix"
  BY <1>2, <1>4 DEF block_len
<1> QED
  BY <1>3, <1>4

LEMMA FinIsNoData == FIN \notin DataDatagram /\ FIN.block = 0
BY DEF FIN, Datagram, DataDatagram

LEMMA ConnectSends ==
    ASSUME SendInv, Listen \/ Ready \/ GiveUp \/ ReadFails
    PROVE  SendInv'
<1>1. CASE Listen
  BY <1>1 DEF SendInv, DirectTypes, InTurn, Taken, HeardFromStart, FinIsLast, Listen, work, txVars, netVars
<1>2. CASE Ready
  BY <1>2 DEF SendInv, DirectTypes, InTurn, Taken, HeardFromStart, FinIsLast, Ready, work, netVars
<1>3. CASE GiveUp
  BY <1>3 DEF SendInv, DirectTypes, InTurn, Taken, HeardFromStart, FinIsLast, GiveUp, work, netVars
<1>4. CASE ReadFails
  <2>1. tx = "run" /\ produced = 0 /\ tx' = "read_failed"
    BY <1>4 DEF ReadFails
  <2>2. UNCHANGED << work, produced, io_q, framed, fin_left, netVars, rxVars >>
    BY <1>4 DEF ReadFails
  <2>3. DirectTypes' /\ InTurn' /\ HeardFromStart'
    BY <2>1, <2>2 DEF SendInv, DirectTypes, InTurn, Taken, HeardFromStart, work, netVars, rxVars
  <2>4. FinIsLast'
    BY <2>1, <2>2 DEF SendInv, FinIsLast, netVars, rxVars
  <2> QED
    BY <2>3, <2>4 DEF SendInv
<1> QED
  BY <1>1, <1>2, <1>3, <1>4

LEMMA ProduceSends ==
    ASSUME SendInv, Produce
    PROVE  SendInv' /\ Taken' = Taken
<1> USE DEF SendInv
<1>1. /\ Len(io_q) \in Nat /\ produced \in Nat /\ Len(blocks) \in Nat
      /\ Len(io_q') = Len(io_q) + 1 /\ produced' = produced + 1 /\ blocks' = blocks
      /\ \A i \in 1 .. Len(io_q) : io_q'[i] = io_q[i]
      /\ io_q'[Len(io_q) + 1] = IF produced < Len(blocks) THEN produced + 1 ELSE Shutdown
  BY DEF DirectTypes, Produce, work, Shutdown
<1>2. DirectTypes'
  BY DEF DirectTypes, Produce, work, netVars, rxVars, Shutdown
<1>3. Taken' = Taken
  BY <1>1 DEF Taken
<1>4. InTurn'
  <2>1. produced' <= Len(blocks') + 1 /\ Len(io_q') <= produced'
    BY <1>1 DEF InTurn, Produce
  <2>2. ASSUME NEW i \in 1 .. Len(io_q')
        PROVE  io_q'[i] = IF Taken' + i <= Len(blocks') THEN Taken' + i ELSE Shutdown
    <3>1. CASE i <= Len(io_q)
      BY <1>1, <1>3, <3>1 DEF InTurn
    <3>2. CASE i = Len(io_q) + 1
      <4>1. Taken + i = produced + 1
        BY <1>1, <3>2 DEF Taken
      <4> QED
        BY <1>1, <1>3, <3>2, <4>1
    <3> QED
      BY <1>1, <3>1, <3>2
  <2> QED
    BY <1>1, <1>3, <2>1, <2>2 DEF InTurn, Shutdown
<1>5. fin_left = FinCopies
  <2>1. fin_left < FinCopies => FALSE
    BY <1>1 DEF FinIsLast, Taken, Produce
  <2> QED
    BY <2>1, DirectAssumption DEF FinIsLast, DirectTypes
<1>6. HeardFromStart' /\ FinIsLast'
  BY <1>5, DirectAssumption DEF HeardFromStart, FinIsLast, Produce, netVars, rxVars
<1> QED
  BY <1>2, <1>3, <1>4, <1>6

LEMMA TakeBlockSends ==
    ASSUME SendInv, TakeBlock
    PROVE  /\ SendInv' /\ Taken' = Taken + 1 /\ Taken + 1 \in 1 .. Len(blocks)
           /\ framed' = Frame(Taken + 1) /\ fin_left = FinCopies
<1> USE DEF SendInv
<1>1. /\ Len(io_q) \in Nat \ {0} /\ produced \in Nat /\ Len(blocks) \in Nat
      /\ Len(io_q') = Len(io_q) - 1 /\ produced' = produced /\ blocks' = blocks
      /\ \A i \in 1 .. Len(io_q) - 1 : io_q'[i] = io_q[i + 1]
      /\ Head(io_q) = io_q[1]
  BY DEF DirectTypes, TakeBlock, work
<1>2. Taken \in Nat /\ Taken' = Taken + 1
  BY <1>1 DEF Taken, InTurn
<1>3. Head(io_q) = Taken + 1 /\ Taken + 1 \in 1 .. Len(blocks)
  BY <1>1, <1>2 DEF InTurn, TakeBlock
<1>4. framed' = Frame(Taken + 1) /\ Frame(Taken + 1) \in Seq(DataDatagram)
  BY <1>3, FrameIs DEF TakeBlock, DirectTypes
<1>5. DirectTypes'
  BY <1>4 DEF DirectTypes, TakeBlock, work, netVars, rxVars
<1>6. InTurn'
  <2>1. produced' <= Len(blocks') + 1 /\ Len(io_q') <= produced'
    BY <1>1 DEF InTurn
  <2>2. ASSUME NEW i \in 1 .. Len(io_q')
        PROVE  io_q'[i] = IF Taken' + i <= Len(blocks') THEN Taken' + i ELSE Shutdown
    <3>1. i \in Int /\ i + 1 \in 1 .. Len(io_q) /\ io_q'[i] = io_q[i + 1] /\ Taken' + i = Taken + (i + 1)
      BY <1>1, <1>2
    <3> QED
      BY <1>1, <3>1 DEF InTurn
  <2> QED
    BY <1>1, <1>2, <1>3, <2>1, <2>2 DEF InTurn, Shutdown
<1>7. fin_left = FinCopies
  <2>1. fin_left < FinCopies => FALSE
    BY <1>2, <1>3 DEF FinIsLast, TakeBlock
  <2> QED
    BY <2>1, DirectAssumption DEF FinIsLast, DirectTypes
<1>8. HeardFromStart' /\ FinIsLast'
  BY <1>7, DirectAssumption DEF HeardFromStart, FinIsLast, TakeBlock, netVars, rxVars
<1> QED
  BY <1>2, <1>3, <1>4, <1>5, <1>6, <1>7, <1>8

LEMMA DatagramSends ==
    ASSUME SendInv, SendDatagram
    PROVE  /\ SendInv' /\ fin_left = FinCopies
           /\ net' = Append(net, Head(framed)) /\ framed' = Tail(framed)
<1> USE DEF SendInv
<1>1. net' = Append(net, Head(framed)) /\ framed' = Tail(framed) /\ framed # << >>
  BY DEF SendDatagram, Sent, HeardFromStart
<1>2. /\ Head(framed) \in DataDatagram /\ Tail(framed) \in Seq(DataDatagram)
      /\ Append(net, Head(framed)) \in Seq(DataDatagram \cup {FIN})
  BY <1>1 DEF DirectTypes
<1>3. DirectTypes'
  BY <1>1, <1>2 DEF DirectTypes, SendDatagram, work, rxVars
<1>4. InTurn' /\ HeardFromStart'
  BY DEF InTurn, Taken, HeardFromStart, SendDatagram, work, rxVars
<1>5. fin_left = FinCopies
  BY <1>1, DirectAssumption DEF FinIsLast, DirectTypes
<1>6. \A i \in 1 .. Len(net') : net'[i] # FIN
  BY <1>1, <1>2, <1>5, FinIsNoData DEF FinIsLast, DirectTypes
<1>7. FinIsLast'
  BY <1>5, <1>6, DirectAssumption DEF FinIsLast, SendDatagram, rxVars
<1> QED
  BY <1>1, <1>3, <1>4, <1>5, <1>7

LEMMA FinSends ==
    ASSUME SendInv, SendFin
    PROVE  SendInv' /\ net' = Append(net, FIN) /\ framed = << >>
<1> USE DEF SendInv
<1>1. net' = Append(net, FIN) /\ framed = << >> /\ framed' = framed /\ io_q' = io_q
  BY DEF SendFin, Sent, LoopEnds, HeardFromStart
<1>2. DirectTypes'
  BY <1>1 DEF DirectTypes, SendFin, work, rxVars
<1>3. InTurn' /\ HeardFromStart'
  BY DEF InTurn, Taken, HeardFromStart, SendFin, work, rxVars
<1>4. ASSUME tx = "read_failed" PROVE FinIsLast'
  BY <1>1, <1>4, DirectAssumption DEF FinIsLast, SendFin, DirectTypes, work, rxVars
<1>5. ASSUME tx # "read_failed" PROVE FinIsLast'
  <2>1. /\ Len(io_q) \in Nat \ {0} /\ produced \in Nat /\ Len(blocks) \in Nat
        /\ io_q[1] = Shutdown /\ Taken = produced - Len(io_q) /\ Taken \in Nat
    BY <1>5 DEF SendFin, LoopEnds, DirectTypes, Taken, InTurn
  <2>2. Taken + 1 > Len(blocks)
    BY <2>1 DEF InTurn, Shutdown
  <2>3. Taken <= Len(blocks) /\ produced <= Len(blocks) + 1
    BY DEF InTurn
  <2>4. Taken = Len(blocks)
    BY <2>1, <2>2, <2>3
  <2>5. Len(io_q) = 1
    <3>1. Len(io_q) = produced - Taken
      BY <2>1
    <3> QED
      BY <2>1, <2>3, <2>4, <3>1
  <2> QED
    BY <1>1, <1>5, <2>4, <2>5, DirectAssumption DEF FinIsLast, SendFin, DirectTypes, Taken, work, rxVars
<1>6. FinIsLast'
  BY <1>4, <1>5
<1> QED
  BY <1>1, <1>2, <1>3, <1>6

LEMMA FaultSends ==
    ASSUME SendInv, NEW k \in 1 .. Len(net), Lose(k) \/ Duplicate(k) \/ Overtake(k)
    PROVE  /\ SendInv' /\ net[k] \in DataDatagram
           /\ cut' \in Nat \ {0} /\ cut' <= net[k].block /\ (cut # 0 => cut' <= cut)
           /\ Len(net') >= k - 1 /\ \A i \in 1 .. k - 1 : net'[i] = net[i]
           /\ UNCHANGED << work, txVars, rxVars >>
<1> USE DEF SendInv
<1>1. /\ net[k] # FIN /\ UNCHANGED << work, txVars, rxVars >>
      /\ cut' = IF cut = 0 THEN net[k].block ELSE Min({cut, net[k].block})
  BY DEF Lose, Duplicate, Overtake, Fault
<1>2. net[k] \in DataDatagram /\ net[k].block \in Nat \ {0}
  BY <1>1 DEF DirectTypes, DataDatagram
<1>3. cut' \in Nat \ {0} /\ cut' <= net[k].block /\ (cut # 0 => cut' <= cut)
  <2>1. cut # 0 => Min({cut, net[k].block}) = IF cut <= net[k].block THEN cut ELSE net[k].block
    <3>1. cut \in Int /\ net[k].block \in Int
      BY <1>2 DEF DirectTypes
    <3> QED
      BY <3>1, MinOfTwo
  <2> QED
    BY <1>1, <1>2, <2>1 DEF DirectTypes
<1>4. ASSUME NEW S, net \in Seq(S)
      PROVE  /\ net' \in Seq(S) /\ Len(net') >= k - 1
             /\ \A i \in 1 .. k - 1 : net'[i] = net[i]
  <2>1. CASE Lose(k)
    <3>1. net' = RemoveAt(net, k)
      BY <2>1 DEF Lose
    <3> QED
      BY <1>4, <3>1, RemoveAtIs
  <2>2. CASE Duplicate(k)
    <3>1. net' = InsertAt(net, k + 1, net[k]) /\ net[k] \in S
      BY <1>4, <2>2 DEF Duplicate
    <3> QED
      BY <1>4, <3>1, InsertAfterIs
  <2>3. CASE Overtake(k)
    <3>1. net' = [net EXCEPT ![k] = net[k + 1], ![k + 1] = net[k]] /\ k < Len(net)
      BY <2>3 DEF Overtake
    <3> QED
      BY <1>4, <3>1, SwapIs
  <2> QED
    BY <2>1, <2>2, <2>3
<1>5. net' \in Seq(DataDatagram \cup {FIN}) /\ Len(net') >= k - 1 /\ \A i \in 1 .. k - 1 : net'[i] = net[i]
  BY <1>4 DEF DirectTypes
<1>6. fin_left = FinCopies => \A i \in 1 .. Len(net') : net'[i] # FIN
  <2>1. SUFFICES ASSUME fin_left = FinCopies
                 PROVE  net' \in Seq(DataDatagram)
    BY FinIsNoData
  <2>2. \A i \in 1 .. Len(net) : net[i] \in DataDatagram
    BY <2>1 DEF FinIsLast, DirectTypes
  <2>3. net \in Seq(DataDatagram)
    <3>1. Len(net) \in Nat /\ net \in [1 .. Len(net) -> DataDatagram \cup {FIN}]
      BY LenProperties DEF DirectTypes
    <3>2. net \in [1 .. Len(net) -> DataDatagram]
      BY <2>2, <3>1
    <3> QED
      BY <3>1, <3>2, SeqDef
  <2> QED
    BY <1>4, <2>3
<1>7. SendInv'
  <2>1. DirectTypes'
    BY <1>1, <1>3, <1>5 DEF DirectTypes, work, txVars, rxVars
  <2>2. InTurn' /\ HeardFromStart'
    BY <1>1 DEF InTurn, Taken, HeardFromStart, work, txVars, rxVars
  <2>3. FinIsLast'
    BY <1>1, <1>6 DEF FinIsLast, Taken, work, txVars, rxVars
  <2> QED
    BY <2>1, <2>2, <2>3
<1> QED
  BY <1>1, <1>2, <1>3, <1>5, <1>7

LEMMA LoseFinSends ==
    ASSUME SendInv, LoseFin
    PROVE  /\ SendInv' /\ framed = << >> /\ net # << >> /\ net[Len(net)] = FIN
           /\ Len(net') = Len(net) - 1 /\ \A i \in 1 .. Len(net) - 1 : net'[i] = net[i]
<1> USE DEF SendInv
<1>1. net # << >> /\ net[Len(net)] = FIN /\ net' = Front(net) /\ net \in Seq(DataDatagram \cup {FIN})
  BY DEF LoseFin, Last, DirectTypes
<1>2. /\ net' \in Seq(DataDatagram \cup {FIN}) /\ Len(net') = Len(net) - 1
      /\ \A i \in 1 .. Len(net) - 1 : net'[i] = net[i]
  BY <1>1, FrontIs
<1>3. fin_left # FinCopies /\ framed = << >>
  <2>1. Len(net) \in 1 .. Len(net)
    BY <1>1
  <2> QED
    BY <1>1, <2>1, DirectAssumption DEF FinIsLast, DirectTypes
<1>4. DirectTypes'
  BY <1>2 DEF DirectTypes, LoseFin, work, txVars, rxVars
<1>5. InTurn' /\ HeardFromStart' /\ FinIsLast'
  BY <1>3 DEF InTurn, Taken, HeardFromStart, FinIsLast, LoseFin, work, txVars, rxVars
<1> QED
  BY <1>1, <1>2, <1>3, <1>4, <1>5

\* The receiving command leaves the sending one alone.
LEMMA ReceiveSends ==
    ASSUME SendInv, RxStep \/ TaskStep
    PROVE  SendInv' /\ Taken' = Taken
<1> USE DEF SendInv
<1>1. UNCHANGED << work, txVars, cut, listening >>
  BY DEF RxStep, TaskStep, ReceiveData, ReceiveFin, WriteEnds, Write, TakeRaw, Extract,
         ExtractPanics, ExtractDone, TaskEnds, netVars
<1>2. InTurn' /\ HeardFromStart' /\ Taken' = Taken
  BY <1>1 DEF InTurn, Taken, HeardFromStart, work, txVars
<1>3. ASSUME net' \in Seq(DataDatagram \cup {FIN}), rx' \in {"start", "run", "ok", "failed"},
             fin_seen' \in BOOLEAN, raw_q' \in Seq(DataDatagram), accum' \in Seq(AnyCell),
             task' \in {"recv", "extract", "ended"},
             block_q' \in Seq(Seq(AnyCell)), written' \in Seq(Seq(AnyCell))
      PROVE  DirectTypes'
  BY <1>1, <1>3 DEF DirectTypes, work, txVars
<1>4. ASSUME net' = net, fin_seen' = fin_seen
      PROVE  FinIsLast'
  BY <1>1, <1>4 DEF FinIsLast, Taken, work, txVars
<1>5. CASE ReceiveData
  <2>1. /\ net # << >> /\ Head(net) # FIN /\ net' = Tail(net)
        /\ raw_q' = raw_q \/ raw_q' = Append(raw_q, Head(net))
    BY <1>5 DEF ReceiveData
  <2>2. Head(net) \in DataDatagram /\ net' \in Seq(DataDatagram \cup {FIN})
    BY <2>1 DEF DirectTypes
  <2>3. raw_q' \in Seq(DataDatagram)
    <3>1. raw_q \in Seq(DataDatagram) /\ Append(raw_q, Head(net)) \in Seq(DataDatagram)
      BY <2>2, AppendProperties DEF DirectTypes
    <3> QED
      BY <2>1, <3>1
  <2>4. DirectTypes'
    BY <1>3, <1>5, <2>2, <2>3 DEF ReceiveData, DirectTypes
  <2>5. fin_left = FinCopies => \A i \in 1 .. Len(net') : net'[i] # FIN
    BY <2>1 DEF FinIsLast, DirectTypes
  <2>6. FinIsLast'
    BY <1>1, <1>5, <2>5 DEF FinIsLast, Taken, work, txVars, ReceiveData
  <2> QED
    BY <1>2, <2>4, <2>6
<1>6. CASE ReceiveFin
  <2>1. net # << >> /\ net[1] = FIN /\ net' = Tail(net)
    BY <1>6 DEF ReceiveFin, DirectTypes
  <2>2. net' \in Seq(DataDatagram \cup {FIN}) /\ Len(net) > 0
    BY <2>1 DEF DirectTypes
  <2>3. DirectTypes'
    BY <1>3, <1>6, <2>2 DEF ReceiveFin, DirectTypes
  <2>4. fin_left # FinCopies
    BY <2>1, <2>2 DEF FinIsLast, DirectTypes
  <2>5. FinIsLast'
    BY <1>1, <2>4 DEF FinIsLast, Taken, work, txVars
  <2> QED
    BY <1>2, <2>3, <2>5
<1>7. CASE WriteEnds
  BY <1>2, <1>3, <1>4, <1>7 DEF WriteEnds, DirectTypes, netVars
<1>8. ASSUME NEW ok \in BOOLEAN, Write(ok)
      PROVE  SendInv' /\ Taken' = Taken
  <2>1. /\ block_q # << >> /\ block_q' = Tail(block_q)
        /\ written' = written \/ written' = Append(written, Head(block_q))
        /\ rx' = rx \/ rx' = "failed"
        /\ UNCHANGED << net, fin_seen, raw_q, accum, task >>
    BY <1>8 DEF Write, netVars
  <2>2. block_q' \in Seq(Seq(AnyCell)) /\ Head(block_q) \in Seq(AnyCell)
    BY <2>1 DEF DirectTypes
  <2>3. written' \in Seq(Seq(AnyCell))
    <3>1. written \in Seq(Seq(AnyCell)) /\ Append(written, Head(block_q)) \in Seq(Seq(AnyCell))
      BY <2>2, AppendProperties DEF DirectTypes
    <3> QED
      BY <2>1, <3>1
  <2> QED
    BY <1>2, <1>3, <1>4, <2>1, <2>2, <2>3 DEF DirectTypes
<1>9. CASE TakeRaw
  <2>1. /\ raw_q # << >> /\ raw_q' = Tail(raw_q) /\ accum' = accum \o Head(raw_q).data
        /\ task' = "extract" /\ UNCHANGED << net, rx, fin_seen, block_q, written >>
    BY <1>9 DEF TakeRaw, netVars
  <2>2. raw_q' \in Seq(DataDatagram) /\ Head(raw_q) \in DataDatagram
    BY <2>1 DEF DirectTypes
  <2>3. accum' \in Seq(AnyCell)
    BY <2>1, <2>2 DEF DirectTypes, DataDatagram
  <2> QED
    BY <1>2, <1>3, <1>4, <2>1, <2>2, <2>3 DEF DirectTypes
<1>10. CASE Extract
  <2>1. /\ HasLength /\ block_len \in Nat /\ accum \in Seq(AnyCell)
        /\ Len(accum) \in Nat /\ Len(accum) >= 1 + block_len
    BY <1>10, LengthIsNat DEF Extract, Complete, DirectTypes
  <2>2. /\ task' = task \/ task' = "ended"
        /\ accum' = SubSeq(accum, block_len + 2, Len(accum))
        /\ block_q' = block_q \/ block_q' = Append(block_q, SubSeq(accum, 2, block_len + 1))
        /\ UNCHANGED << net, rx, fin_seen, raw_q, written >>
    BY <1>10 DEF Extract, netVars
  <2> HIDE DEF block_len
  <2>3. ASSUME NEW n \in Nat, Len(accum) >= 1 + n
        PROVE  SubSeq(accum, n + 2, Len(accum)) \in Seq(AnyCell) /\ SubSeq(accum, 2, n + 1) \in Seq(AnyCell)
    BY <2>1, <2>3
  <2>4. accum' \in Seq(AnyCell) /\ SubSeq(accum, 2, block_len + 1) \in Seq(AnyCell)
    BY <2>1, <2>2, <2>3
  <2>5. block_q' \in Seq(Seq(AnyCell))
    <3> DEFINE b == SubSeq(accum, 2, block_len + 1)
    <3> HIDE DEF b
    <3>1. block_q \in Seq(Seq(AnyCell)) /\ b \in Seq(AnyCell)
      BY <2>4 DEF DirectTypes, b
    <3>2. Append(block_q, b) \in Seq(Seq(AnyCell))
      BY <3>1, AppendProperties
    <3> QED
      BY <2>2, <3>1, <3>2 DEF b
  <2> QED
    BY <1>2, <1>3, <1>4, <2>2, <2>4, <2>5 DEF DirectTypes
<1>11. CASE ExtractPanics \/ ExtractDone \/ TaskEnds
  BY <1>2, <1>3, <1>4, <1>11 DEF ExtractPanics, ExtractDone, TaskEnds, DirectTypes, netVars
<1> QED
  BY <1>5, <1>6, <1>7, <1>8, <1>9, <1>10, <1>11 DEF RxStep, TaskStep

-----------------------------------------------------------------------------
(* The line.                                                               *)

\* Datagrams at the front of the line that stay where they are keep what
\* makes them a part of the chain.
LEMMA FrontKept ==
    ASSUME NEW n \in Nat, Chain(n), NEW m \in 0 .. n,
           blocks' = blocks, Need' = Need, Taken \in Int, Taken' \in Int, Taken <= Taken',
           \A i \in 1 .. m : Line(i)' = Line(i)
    PROVE  /\ \A i \in 1 .. m : Good(Line(i))' /\ Place(Line(i))' = Reached(i)'
           /\ Reached(m + 1)' = Reached(m + 1)
<1>1. ASSUME NEW i \in 1 .. m + 1
      PROVE  Reached(i)' = Reached(i)
  <2>1. CASE i = 1
    BY <2>1 DEF Reached
  <2>2. CASE i # 1
    <3>1. i - 1 \in 1 .. m
      BY <2>2
    <3>2. Line(i - 1)' = Line(i - 1)
      BY <3>1
    <3>3. After(Line(i - 1))' = After(Line(i - 1))
      BY <3>2 DEF After, Beyond
    <3> QED
      BY <2>2, <3>3 DEF Reached
  <2> QED
    BY <2>1, <2>2
<1>2. ASSUME NEW i \in 1 .. m
      PROVE  Good(Line(i))' /\ Place(Line(i))' = Reached(i)'
  <2>1. i \in 1 .. n /\ i \in 1 .. m + 1
    OBVIOUS
  <2>2. Good(Line(i)) /\ Place(Line(i)) = Reached(i)
    BY <2>1 DEF Chain
  <2>3. Line(i)' = Line(i) /\ Reached(i)' = Reached(i)
    BY <2>1, <1>1
  <2>4. Place(Line(i))' = Reached(i)'
    BY <2>2, <2>3 DEF Place
  <2>5. Good(Line(i))'
    <3>1. Line(i).block \in 1 .. Taken'
      BY <2>2 DEF Good
    <3>2. /\ Line(i).at + Len(Line(i).data) <= Len(blocks[Line(i).block]) + 1
          /\ \A j \in 1 .. Len(Line(i).data) : Line(i).data[j] = Cells(Line(i).block)[Line(i).at + j]
      BY <2>2 DEF Good
    <3>3. \A b : Cells(b)' = Cells(b)
      BY DEF Cells
    <3>4. Good(Line(i))' = (/\ Line(i).block \in 1 .. Taken'
                            /\ Line(i).at + Len(Line(i).data) <= Len(blocks[Line(i).block]) + 1
                            /\ \A j \in 1 .. Len(Line(i).data) :
                                  Line(i).data[j] = Cells(Line(i).block)[Line(i).at + j])
      BY <2>3, <3>3 DEF Good, Cells
    <3> QED
      BY <3>1, <3>2, <3>4
  <2> QED
    BY <2>4, <2>5
<1>3. m + 1 \in 1 .. m + 1
  OBVIOUS
<1> QED
  BY <1>1, <1>2, <1>3

\* So the chain stays when the line does, and nothing but FINs is added.
LEMMA ChainKept ==
    ASSUME NEW n \in Nat, Chain(n),
           blocks' = blocks, Need' = Need, Taken \in Int, Taken' = Taken, cut' = cut,
           n <= LineLen',
           \A i \in 1 .. n : Line(i)' = Line(i),
           (\A i \in n + 1 .. LineLen : Line(i) = FIN) => (\A i \in n + 1 .. LineLen' : Line(i)' = FIN)
    PROVE  Chain(n)'
<1>1. /\ \A i \in 1 .. n : Good(Line(i))' /\ Place(Line(i))' = Reached(i)'
      /\ Reached(n + 1)' = Reached(n + 1)
  <2>1. n \in 0 .. n /\ Taken' \in Int /\ Taken <= Taken'
    OBVIOUS
  <2> QED
    BY <2>1, FrontKept
<1> QED
  BY <1>1 DEF Chain

\* The line has a type.
LEMMA LineTypes ==
    ASSUME SendInv
    PROVE  /\ LineLen \in Nat /\ Len(raw_q) \in Nat /\ Len(net) \in Nat /\ Len(framed) \in Nat
           /\ Taken \in Nat /\ HandedLen \in Nat /\ Len(blocks) \in Nat /\ Len(accum) \in Nat
           /\ cut \in Nat
           /\ \A i \in 1 .. LineLen : Line(i) \in DataDatagram \cup {FIN}
           /\ \A i \in 1 .. Len(raw_q) : Line(i) \in DataDatagram
<1>1. /\ LineLen \in Nat /\ Len(raw_q) \in Nat /\ Len(net) \in Nat /\ Len(framed) \in Nat
      /\ Taken \in Nat /\ HandedLen \in Nat /\ Len(blocks) \in Nat /\ Len(accum) \in Nat /\ cut \in Nat
  BY DEF SendInv, DirectTypes, LineLen, HandedLen, InTurn, Taken
<1>2. ASSUME NEW i \in 1 .. LineLen
      PROVE  Line(i) \in DataDatagram \cup {FIN}
  <2>1. CASE i <= Len(raw_q)
    BY <1>1, <2>1 DEF Line, SendInv, DirectTypes
  <2>2. CASE i > Len(raw_q) /\ i <= Len(raw_q) + Len(net)
    <3>1. i - Len(raw_q) \in 1 .. Len(net)
      BY <1>1, <2>2
    <3>2. net[i - Len(raw_q)] \in DataDatagram \cup {FIN}
      BY <3>1 DEF SendInv, DirectTypes
    <3> QED
      BY <1>1, <2>2, <3>2 DEF Line
  <2>3. CASE i > Len(raw_q) + Len(net)
    <3>1. i - Len(raw_q) - Len(net) \in 1 .. Len(framed)
      BY <1>1, <2>3 DEF LineLen
    <3>2. framed[i - Len(raw_q) - Len(net)] \in DataDatagram
      BY <3>1 DEF SendInv, DirectTypes
    <3> QED
      BY <1>1, <2>3, <3>2 DEF Line
  <2> QED
    BY <1>1, <2>1, <2>2, <2>3
<1>3. \A i \in 1 .. Len(raw_q) : Line(i) \in DataDatagram
  BY <1>1 DEF Line, SendInv, DirectTypes
<1> QED
  BY <1>1, <1>2, <1>3

\* A FIN is no part of the chain.
LEMMA FinIsNotGood == ~ Good(FIN)
<1>1. FIN.block = 0
  BY FinIsNoData
<1> QED
  BY <1>1 DEF Good

-----------------------------------------------------------------------------
(* The steps, while the receiving command has not failed.                  *)

CoreInv == InStep /\ EndInOrder /\ WholeBlocksInOrder

\* What was handed over stays right; a fault may only take from the promise.
LEMMA WholeKept ==
    ASSUME SendInv, WholeBlocksInOrder, rx # "failed", Handed' = Handed, blocks' = blocks, cut' \in Nat,
           cut' = cut \/ (cut' # 0 /\ (cut # 0 => cut' <= cut))
    PROVE  WholeBlocksInOrder'
<1>1. SUFFICES ASSUME NEW i \in 1 .. Len(Handed), cut' = 0 \/ i < cut'
               PROVE  i <= Len(blocks) /\ Handed[i] = blocks[i]
  BY DEF WholeBlocksInOrder
<1>2. cut \in Nat /\ Len(Handed) \in Nat
  BY DEF SendInv, DirectTypes, Handed
<1>3. cut = 0 \/ i < cut
  BY <1>1, <1>2
<1> QED
  BY <1>3 DEF WholeBlocksInOrder

LEMMA SpoiltKept ==
    ASSUME HandedLen' = HandedLen, cut' = cut
    PROVE  Spoilt' = Spoilt
BY DEF Spoilt

LEMMA NeedKept ==
    ASSUME accum' = accum, HandedLen' = HandedLen, blocks' = blocks
    PROVE  Need' = Need
BY DEF Need, Beyond

LEMMA BufferKept ==
    ASSUME SendInv, BufferFits, accum' = accum, HandedLen' = HandedLen, blocks' = blocks,
           Taken' \in Int, Taken <= Taken',
           task' # "extract" /\ accum # << >> => Len(accum) <= Len(blocks[HandedLen + 1])
    PROVE  BufferFits'
<1>1. Taken \in Int /\ HandedLen \in Int
  BY LineTypes
<1>2. Cells(HandedLen + 1)' = Cells(HandedLen + 1)
  BY DEF Cells
<1> QED
  BY <1>1, <1>2 DEF BufferFits

LEMMA InStepKept ==
    ASSUME SendInv, InStep, accum' = accum, HandedLen' = HandedLen, blocks' = blocks,
           cut' = cut, Taken' = Taken, task' # "extract" => task # "extract",
           LineLen' = LineLen, \A i \in 1 .. LineLen : Line(i)' = Line(i)
    PROVE  InStep'
<1>1. Taken \in Int /\ LineLen \in Nat
  BY LineTypes
<1>2. CASE Spoilt
  BY <1>2 DEF InStep, Spoilt
<1>3. CASE BufferFits /\ \E n \in Nat : Chain(n)
  <2>1. BufferFits'
    <3>1. task' # "extract" /\ accum # << >> => Len(accum) <= Len(blocks[HandedLen + 1])
      BY <1>3 DEF BufferFits
    <3> QED
      BY <1>1, <1>3, <3>1, BufferKept
  <2>2. PICK n \in Nat : Chain(n)
    BY <1>3
  <2>3. n <= LineLen
    BY <2>2 DEF Chain
  <2>4. /\ \A i \in 1 .. n : Line(i)' = Line(i)
        /\ \A i \in n + 1 .. LineLen : Line(i)' = Line(i)
    BY <1>1, <2>3
  <2>5. Chain(n)'
    BY <1>1, <2>2, <2>3, <2>4, NeedKept, ChainKept
  <2> QED
    BY <2>1, <2>5 DEF InStep
<1> QED
  BY <1>2, <1>3 DEF InStep

\* Steps that leave the line where it is.
LEMMA QuietSteps ==
    ASSUME DirectInv, rx # "failed", rx' # "failed",
           Listen \/ Ready \/ GiveUp \/ ReadFails \/ Produce \/ WriteEnds \/ TaskEnds \/ UNCHANGED vars
    PROVE  CoreInv'
<1>1. SendInv /\ CoreInv
  BY DEF DirectInv, SendInv, CoreInv
<1>2. /\ UNCHANGED << blocks, framed, net, cut, raw_q, accum, fin_seen, block_q, written >>
      /\ task' # "extract" => task # "extract"
      /\ task' = task \/ TaskEnds
      /\ rx' = rx \/ (rx = "start" /\ rx' = "run") \/ WriteEnds
  BY DEF Listen, Ready, GiveUp, ReadFails, Produce, WriteEnds, TaskEnds, vars, work, txVars, netVars, rxVars
<1>3. Taken' = Taken
  <2>1. CASE Produce
    BY <1>1, <2>1, ProduceSends
  <2>2. CASE ~ Produce
    <3>1. UNCHANGED << produced, io_q >>
      BY <2>2 DEF Listen, Ready, GiveUp, ReadFails, WriteEnds, TaskEnds, vars, work, txVars
    <3> QED
      BY <3>1 DEF Taken
  <2> QED
    BY <2>1, <2>2
<1>4. InStep'
  <2>1. HandedLen' = HandedLen /\ LineLen' = LineLen
    BY <1>2 DEF HandedLen, LineLen
  <2>2. \A i \in 1 .. LineLen : Line(i)' = Line(i)
    BY <1>2 DEF Line
  <2> QED
    BY <1>1, <1>2, <1>3, <2>1, <2>2, InStepKept DEF CoreInv
<1>5. EndInOrder'
  <2>1. TaskEnds => fin_seen /\ raw_q = << >> /\ task' = "ended"
    BY DEF TaskEnds
  <2>2. WriteEnds => task = "ended" /\ block_q = << >> /\ fin_seen /\ rx' = "ok" /\ rx = "run"
    BY DEF WriteEnds
  <2>3. TaskEnds => rx' = rx /\ task = "recv"
    BY DEF TaskEnds
  <2>4. Spoilt' = Spoilt
    BY <1>2, SpoiltKept DEF HandedLen
  <2> QED
    BY <1>1, <1>2, <2>1, <2>2, <2>3, <2>4 DEF EndInOrder, CoreInv
<1>6. WholeBlocksInOrder'
  <2>1. Handed' = Handed
    BY <1>2 DEF Handed
  <2> QED
    BY <1>1, <1>2, <2>1, WholeKept DEF CoreInv, SendInv, DirectTypes
<1> QED
  BY <1>4, <1>5, <1>6 DEF CoreInv

LEMMA WriteStep ==
    ASSUME DirectInv, rx # "failed", rx' # "failed", NEW ok \in BOOLEAN, Write(ok)
    PROVE  CoreInv'
<1>1. SendInv /\ CoreInv
  BY DEF DirectInv, SendInv, CoreInv
<1>2. /\ UNCHANGED << blocks, produced, io_q, framed, net, cut, raw_q, accum, fin_seen, task, rx >>
      /\ rx = "run" /\ block_q # << >> /\ block_q' = Tail(block_q)
      /\ written' = Append(written, Head(block_q))
  BY DEF Write, work, txVars, netVars
<1>3. block_q \in Seq(Seq(AnyCell)) /\ written \in Seq(Seq(AnyCell))
  BY <1>1 DEF SendInv, DirectTypes
<1>4. Handed' = Handed
  BY <1>2, <1>3, HeadToEnd DEF Handed
<1>5. HandedLen' = HandedLen
  BY <1>2, <1>3 DEF HandedLen
<1>6. InStep'
  <2>1. Taken' = Taken /\ LineLen' = LineLen
    BY <1>2 DEF Taken, LineLen
  <2>2. \A i \in 1 .. LineLen : Line(i)' = Line(i)
    BY <1>2 DEF Line
  <2> QED
    BY <1>1, <1>2, <1>5, <2>1, <2>2, InStepKept DEF CoreInv
<1>7. EndInOrder'
  <2>1. Spoilt' = Spoilt
    BY <1>2, <1>5, SpoiltKept
  <2> QED
    BY <1>1, <1>2, <2>1 DEF EndInOrder, CoreInv
<1>8. WholeBlocksInOrder'
  BY <1>1, <1>2, <1>4, WholeKept DEF CoreInv, SendInv, DirectTypes
<1> QED
  BY <1>6, <1>7, <1>8 DEF CoreInv

\* A datagram that passes from the frame to the network, or from there to the
\* channel, keeps its place in the line.
LEMMA PassesOn ==
    ASSUME DirectInv, rx # "failed", SendDatagram \/ ReceiveData
    PROVE  CoreInv'
<1>1. SendInv /\ CoreInv
  BY DEF DirectInv, SendInv, CoreInv
<1>2. /\ Len(raw_q) \in Nat /\ Len(net) \in Nat /\ Len(framed) \in Nat
      /\ raw_q \in Seq(DataDatagram) /\ net \in Seq(DataDatagram \cup {FIN}) /\ framed \in Seq(DataDatagram)
  BY <1>1 DEF SendInv, DirectTypes
<1>3. UNCHANGED << blocks, produced, io_q, cut, accum, task, rx, fin_seen, block_q, written >>
  BY DEF SendDatagram, ReceiveData, work, txVars, rxVars
<1>4. Spoilt \/ (LineLen' = LineLen /\ \A i \in 1 .. LineLen : Line(i)' = Line(i))
  <2>1. CASE SendDatagram
    <3>1. net' = Append(net, Head(framed)) /\ framed' = Tail(framed) /\ raw_q' = raw_q /\ framed # << >>
      BY <1>1, <2>1, DatagramSends DEF SendDatagram, rxVars
    <3>2. /\ Len(net') = Len(net) + 1 /\ Len(framed') = Len(framed) - 1
          /\ \A i \in 1 .. Len(net) : net'[i] = net[i]
          /\ net'[Len(net) + 1] = framed[1]
          /\ \A i \in 1 .. Len(framed) - 1 : framed'[i] = framed[i + 1]
      <4>1. Head(framed) \in DataDatagram \cup {FIN} /\ Head(framed) = framed[1]
        BY <1>2, <3>1
      <4> QED
        BY <1>2, <3>1, <4>1
    <3>3. ASSUME NEW i \in 1 .. LineLen
          PROVE  Line(i)' = Line(i)
      <4>1. CASE i <= Len(raw_q) + Len(net)
        <5>1. i > Len(raw_q) => i - Len(raw_q) \in 1 .. Len(net)
          BY <1>2, <4>1
        <5> QED
          BY <1>2, <3>1, <3>2, <4>1, <5>1 DEF Line
      <4>2. CASE i = Len(raw_q) + Len(net) + 1
        <5>1. i - Len(raw_q) = Len(net) + 1 /\ i - Len(raw_q) - Len(net) = 1
          BY <1>2, <4>2
        <5> QED
          BY <1>2, <3>1, <3>2, <4>2, <5>1 DEF Line
      <4>3. CASE i > Len(raw_q) + Len(net) + 1
        <5>1. /\ i - Len(raw_q) - (Len(net) + 1) \in 1 .. Len(framed) - 1
              /\ i - Len(raw_q) - (Len(net) + 1) + 1 = i - Len(raw_q) - Len(net)
          BY <1>2, <4>3 DEF LineLen
        <5>2. framed'[i - Len(raw_q) - (Len(net) + 1)] = framed[i - Len(raw_q) - Len(net)]
          BY <3>2, <5>1
        <5>3. i \in Int /\ ~ (i <= Len(raw_q)) /\ ~ (i <= Len(raw_q) + Len(net)) /\ ~ (i <= Len(raw_q) + (Len(net) + 1))
          BY <1>2, <4>3 DEF LineLen
        <5> QED
          BY <3>1, <3>2, <5>2, <5>3 DEF Line
      <4> QED
        BY <1>2, <4>1, <4>2, <4>3 DEF LineLen
    <3> QED
      BY <1>2, <3>1, <3>2, <3>3 DEF LineLen
  <2>2. CASE ReceiveData /\ ~ Spoilt
    <3>1. /\ net # << >> /\ Head(net) # FIN /\ net' = Tail(net) /\ framed' = framed
          /\ raw_q' = Append(raw_q, Head(net))
      BY <1>1, <2>2 DEF ReceiveData, txVars, CoreInv, EndInOrder
    <3>2. Head(net) \in DataDatagram /\ Head(net) = net[1] /\ Len(net) \in Nat \ {0}
      BY <1>2, <3>1
    <3>3. /\ Len(raw_q') = Len(raw_q) + 1 /\ Len(net') = Len(net) - 1
          /\ \A i \in 1 .. Len(raw_q) : raw_q'[i] = raw_q[i]
          /\ raw_q'[Len(raw_q) + 1] = net[1]
          /\ \A i \in 1 .. Len(net) - 1 : net'[i] = net[i + 1]
      BY <1>2, <3>1, <3>2
    <3>4. Len(raw_q') + Len(net') = Len(raw_q) + Len(net)
      BY <1>2, <3>2, <3>3
    <3>5. ASSUME NEW i \in 1 .. LineLen
          PROVE  Line(i)' = Line(i)
      <4>1. CASE i <= Len(raw_q) + 1
        <5>1. ~ (i <= Len(raw_q)) => i - Len(raw_q) = 1 /\ i <= Len(raw_q) + Len(net) /\ i = Len(raw_q) + 1
          BY <1>2, <3>2, <4>1 DEF LineLen
        <5> QED
          BY <1>2, <3>3, <4>1, <5>1 DEF Line
      <4>2. CASE i > Len(raw_q) + 1 /\ i <= Len(raw_q) + Len(net)
        <5>1. i - (Len(raw_q) + 1) \in 1 .. Len(net) - 1 /\ i - (Len(raw_q) + 1) + 1 = i - Len(raw_q)
          BY <1>2, <4>2 DEF LineLen
        <5>2. net'[i - (Len(raw_q) + 1)] = net[i - Len(raw_q)]
          BY <3>3, <5>1
        <5>3. i \in Int /\ ~ (i <= Len(raw_q)) /\ ~ (i <= Len(raw_q) + 1)
          BY <1>2, <4>2 DEF LineLen
        <5> QED
          BY <3>3, <3>4, <4>2, <5>2, <5>3 DEF Line
      <4>3. CASE i > Len(raw_q) + Len(net)
        <5>1. i - (Len(raw_q) + 1) - (Len(net) - 1) = i - Len(raw_q) - Len(net)
          BY <1>2, <4>3 DEF LineLen
        <5>2. ~ (i <= Len(raw_q)) /\ ~ (i <= Len(raw_q) + 1) /\ ~ (i <= Len(raw_q) + Len(net))
          BY <1>2, <3>2, <4>3 DEF LineLen
        <5> QED
          BY <3>1, <3>3, <3>4, <5>1, <5>2 DEF Line
      <4> QED
        BY <1>2, <4>1, <4>2, <4>3 DEF LineLen
    <3> QED
      BY <1>2, <3>1, <3>2, <3>3, <3>5 DEF LineLen
  <2> QED
    BY <2>1, <2>2
<1>5. InStep' /\ Spoilt' = Spoilt
  <2>1. Taken' = Taken /\ HandedLen' = HandedLen
    BY <1>3 DEF Taken, HandedLen
  <2>2. Spoilt' = Spoilt
    BY <1>3, <2>1, SpoiltKept
  <2> QED
    BY <1>1, <1>3, <1>4, <2>1, <2>2, InStepKept DEF CoreInv, InStep
<1>6. EndInOrder'
  <2>1. ~ fin_seen
    BY <1>1, DatagramSends DEF SendInv, FinIsLast, ReceiveData
  <2>2. rx = "start" => raw_q' = raw_q
    BY DEF SendDatagram, ReceiveData, rxVars
  <2>3. task = "ended" => Spoilt
    BY <1>1, <2>1 DEF EndInOrder, CoreInv
  <2> QED
    BY <1>1, <1>3, <1>5, <2>1, <2>2, <2>3 DEF EndInOrder, CoreInv
<1>7. WholeBlocksInOrder'
  <2>1. Handed' = Handed
    BY <1>3 DEF Handed
  <2> QED
    BY <1>1, <1>3, <2>1, WholeKept DEF CoreInv, SendInv, DirectTypes
<1> QED
  BY <1>5, <1>6, <1>7 DEF CoreInv

\* The next frame continues the line where it ends.
LEMMA TakeBlockStep ==
    ASSUME DirectInv, rx # "failed", TakeBlock
    PROVE  CoreInv'
<1>1. SendInv /\ CoreInv
  BY DEF DirectInv, SendInv, CoreInv
<1>2. /\ UNCHANGED << blocks, net, cut, raw_q, accum, task, rx, fin_seen, block_q, written >>
      /\ framed = << >>
  BY DEF TakeBlock, work, netVars, rxVars
<1> DEFINE b == Taken + 1
           K == Len(Frame(b))
<1>3. Taken' = b /\ b \in 1 .. Len(blocks) /\ framed' = Frame(b) /\ fin_left = FinCopies
  BY <1>1, TakeBlockSends
<1>4. Taken \in Nat /\ LineLen \in Nat /\ Len(raw_q) \in Nat /\ Len(net) \in Nat /\ HandedLen \in Nat
  BY <1>1, LineTypes
<1>5. blocks \in Seq(Seq(Cell)) /\ K \in Nat /\ K > 0
  <2>1. blocks \in Seq(Seq(Cell))
    BY <1>1 DEF SendInv, DirectTypes
  <2>2. Frame(b) \in Seq(DataDatagram) /\ Len(Frame(b)) > 0
    BY <1>3, <2>1, FrameIs
  <2> QED
    BY <2>1, <2>2
<1>6. LineLen = Len(raw_q) + Len(net) /\ LineLen' = LineLen + K
  BY <1>2, <1>3, <1>4, <1>5 DEF LineLen
<1>7. \A i \in 1 .. LineLen : Line(i)' = Line(i)
  BY <1>2, <1>4, <1>6 DEF Line
<1>8. ASSUME NEW k \in 1 .. K, NEW i \in Nat, i = LineLen + k
      PROVE  Line(i)' = Frame(b)[k]
  <2>1. ~ (i <= Len(raw_q)) /\ ~ (i <= Len(raw_q) + Len(net))
    BY <1>4, <1>5, <1>6, <1>8
  <2>2. i - Len(raw_q) - Len(net) = k
    BY <1>4, <1>5, <1>6, <1>8
  <2> QED
    BY <1>2, <1>3, <2>1, <2>2 DEF Line
<1>9. \A i \in 1 .. LineLen : Line(i) # FIN
  <2>1. ASSUME NEW i \in 1 .. LineLen
        PROVE  Line(i) # FIN
    <3>1. CASE i <= Len(raw_q)
      BY <1>1, <1>4, <3>1, LineTypes, FinIsNoData
    <3>2. CASE i > Len(raw_q)
      <4>1. i - Len(raw_q) \in 1 .. Len(net) /\ i <= Len(raw_q) + Len(net) /\ ~ (i <= Len(raw_q))
        BY <1>4, <1>6, <3>2
      <4>2. net[i - Len(raw_q)] # FIN
        BY <1>1, <1>3, <4>1 DEF SendInv, FinIsLast
      <4> QED
        BY <4>1, <4>2 DEF Line
    <3> QED
      BY <1>4, <3>1, <3>2
  <2> QED
    BY <2>1
<1>10. Need' = Need /\ HandedLen' = HandedLen
  BY <1>2, NeedKept DEF HandedLen
<1>11. InStep'
  <2>1. CASE Spoilt
    BY <1>2, <1>10, <2>1 DEF InStep, Spoilt
  <2>2. CASE BufferFits /\ \E n \in Nat : Chain(n)
    <3>1. PICK n \in Nat : Chain(n)
      BY <2>2
    <3>2. n <= LineLen
      BY <3>1 DEF Chain
    <3>3. /\ \A i \in 1 .. n : Good(Line(i))' /\ Place(Line(i))' = Reached(i)'
          /\ Reached(n + 1)' = Reached(n + 1)
      <4>1. n \in 0 .. n /\ Taken \in Int /\ Taken' \in Int /\ Taken <= Taken'
        BY <1>3, <1>4
      <4>2. \A i \in 1 .. n : Line(i)' = Line(i)
        BY <1>4, <1>7, <3>2
      <4> QED
        BY <1>2, <1>10, <3>1, <4>1, <4>2, FrontKept
    <3>4. BufferFits'
      <4>1. task' # "extract" /\ accum # << >> => Len(accum) <= Len(blocks[HandedLen + 1])
        BY <1>2, <2>2 DEF BufferFits
      <4>2. Taken' \in Int /\ Taken <= Taken'
        BY <1>3, <1>4
      <4> QED
        BY <1>1, <1>2, <1>10, <2>2, <4>1, <4>2, BufferKept
    <3>5. CASE cut # 0 /\ cut <= Reached(n + 1)[1]
      <4>1. n <= LineLen'
        BY <1>4, <1>5, <1>6, <3>2
      <4>2. Chain(n)'
        BY <1>2, <3>3, <3>5, <4>1 DEF Chain
      <4> QED
        BY <3>4, <4>2 DEF InStep
    <3>6. CASE Reached(n + 1) = << Taken + 1, 0 >> /\ \A i \in n + 1 .. LineLen : Line(i) = FIN
      <4>1. n = LineLen
        <5>1. CASE n < LineLen
          <6>1. n + 1 \in n + 1 .. LineLen /\ n + 1 \in 1 .. LineLen
            BY <1>4, <5>1
          <6> QED
            BY <1>9, <3>6, <6>1
        <5> QED
          BY <1>4, <3>2, <5>1
      <4>2. ASSUME NEW k \in 1 .. K
            PROVE  /\ Good(Line(n + k))'
                   /\ Place(Line(n + k))' = Reached(n + k)'
                   /\ k = K => Reached(n + k + 1)' = << b + 1, 0 >>
        <5> DEFINE d == Frame(b)[k]
        <5>1. Line(n + k)' = d
          <6>1. n + k \in Nat /\ n + k = LineLen + k
            BY <1>5, <4>1
          <6> QED
            BY <1>8, <6>1
        <5>2. /\ d.block = b /\ d.at + Len(d.data) <= Len(blocks[b]) + 1
              /\ \A i \in 1 .. Len(d.data) : d.data[i] = Cells(b)[d.at + i]
              /\ k = K => d.at + Len(d.data) = Len(blocks[b]) + 1
          BY <1>3, <1>5, FrameIs
        <5>3. Good(Line(n + k))'
          <6>1. \A c : Cells(c)' = Cells(c)
            BY <1>2 DEF Cells
          <6>2. Good(Line(n + k))' = (/\ d.block \in 1 .. Taken'
                                      /\ d.at + Len(d.data) <= Len(blocks[d.block]) + 1
                                      /\ \A i \in 1 .. Len(d.data) : d.data[i] = Cells(d.block)[d.at + i])
            BY <1>2, <5>1, <6>1 DEF Good, Cells
          <6> HIDE DEF d
          <6>3. d.block \in 1 .. Taken'
            BY <1>3, <5>2
          <6> QED
            BY <5>2, <6>2, <6>3
        <5>4. Place(Line(n + k))' = << b, d.at >>
          BY <5>1, <5>2 DEF Place
        <5>5. Reached(n + k)' = << b, d.at >>
          <6>1. CASE k = 1
            <7>1. d.at = 0
              BY <1>3, <1>5, <6>1, FrameIs
            <7> QED
              BY <3>3, <3>6, <6>1, <7>1
          <6>2. CASE k # 1
            <7> DEFINE j == k - 1
                       e == Frame(b)[j]
            <7>1. j \in 1 .. K /\ j < K /\ j + 1 = k
              BY <1>5, <6>2
            <7>2. Line(n + j)' = e
              <8>1. n + j \in Nat /\ n + j = LineLen + j
                BY <1>5, <4>1, <7>1
              <8> QED
                BY <1>8, <7>1, <8>1
            <7>3. e.block = b /\ e.at + Len(e.data) = Frame(b)[j + 1].at /\ e.at + Len(e.data) < Len(blocks[b]) + 1
              BY <1>3, <1>5, <7>1, FrameIs
            <7>4. e.at + Len(e.data) = d.at
              BY <7>1, <7>3
            <7>5. n + k # 1 /\ n + k - 1 = n + j
              BY <1>5, <6>2
            <7>6. Reached(n + k)' = After(Line(n + j))'
              BY <7>5 DEF Reached
            <7>7. After(Line(n + j))' = << b, e.at + Len(e.data) >>
              <8>1. e.at + Len(e.data) # Len(blocks[b]) + 1
                BY <7>3
              <8> QED
                BY <1>2, <7>2, <7>3, <8>1 DEF After, Beyond
            <7> QED
              BY <7>4, <7>6, <7>7
          <6> QED
            BY <6>1, <6>2
        <5>6. k = K => Reached(n + k + 1)' = << b + 1, 0 >>
          <6>1. n + k + 1 # 1 /\ n + k + 1 - 1 = n + k
            BY <1>5
          <6>2. Reached(n + k + 1)' = After(Line(n + k))'
            BY <6>1 DEF Reached
          <6>3. k = K => After(Line(n + k))' = << b + 1, 0 >>
            BY <1>2, <5>1, <5>2 DEF After, Beyond
          <6> QED
            BY <6>2, <6>3
        <5> QED
          BY <5>3, <5>4, <5>5, <5>6
      <4>3. PICK m \in Nat : m = n + K /\ m = LineLen'
        BY <1>5, <1>6, <4>1
      <4>4. ASSUME NEW i \in 1 .. m
            PROVE  Good(Line(i))' /\ Place(Line(i))' = Reached(i)'
        <5>1. CASE i <= n
          BY <3>3, <4>3, <5>1
        <5>2. CASE i > n
          <6>1. i - n \in 1 .. K /\ n + (i - n) = i
            BY <1>5, <4>3, <5>2
          <6> QED
            BY <4>2, <6>1
        <5> QED
          BY <1>5, <4>3, <5>1, <5>2
      <4>5. Reached(m + 1)' = << Taken' + 1, 0 >>
        <5>1. PICK k \in 1 .. K : k = K
          BY <1>5
        <5>2. Reached(n + k + 1)' = << b + 1, 0 >> /\ n + k + 1 = m + 1
          BY <1>5, <4>2, <4>3, <5>1
        <5> QED
          BY <1>3, <5>2
      <4>6. \A i \in m + 1 .. LineLen' : Line(i)' = FIN
        BY <4>3
      <4>7. Chain(m)'
        BY <4>3, <4>4, <4>5, <4>6 DEF Chain
      <4> QED
        BY <3>4, <4>3, <4>7 DEF InStep
    <3> QED
      BY <3>1, <3>5, <3>6 DEF Chain
  <2> QED
    BY <1>1, <2>1, <2>2 DEF CoreInv, InStep
<1>12. EndInOrder'
  <2>1. Spoilt' = Spoilt
    BY <1>2, SpoiltKept DEF HandedLen
  <2> QED
    BY <1>1, <1>2, <2>1 DEF EndInOrder, CoreInv
<1>13. WholeBlocksInOrder'
  <2>1. Handed' = Handed
    BY <1>2 DEF Handed
  <2> QED
    BY <1>1, <1>2, <2>1, WholeKept DEF CoreInv, SendInv, DirectTypes
<1> QED
  BY <1>11, <1>12, <1>13 DEF CoreInv

\* FINs come after every datagram of the chain.
LEMMA ChainBeforeFin ==
    ASSUME SendInv, NEW n \in Nat, Chain(n), NEW q \in 1 .. LineLen, Line(q) = FIN
    PROVE  n < q
<1>1. LineLen \in Nat /\ q \in Nat
  BY LineTypes
<1>2. CASE q <= n
  <2>1. Good(Line(q))
    BY <1>1, <1>2 DEF Chain
  <2> QED
    BY <2>1, FinIsNotGood
<1> QED
  BY <1>1, <1>2

LEMMA FinSteps ==
    ASSUME DirectInv, rx # "failed", SendFin \/ LoseFin \/ ReceiveFin
    PROVE  CoreInv'
<1>1. SendInv /\ CoreInv
  BY DEF DirectInv, SendInv, CoreInv
<1>2. /\ UNCHANGED << blocks, produced, io_q, framed, cut, raw_q, accum, task, rx, block_q, written >>
      /\ fin_seen' = fin_seen \/ (ReceiveFin /\ rx = "run")
  BY DEF SendFin, LoseFin, ReceiveFin, work, txVars, rxVars
<1>3. /\ LineLen \in Nat /\ Len(raw_q) \in Nat /\ Len(net) \in Nat /\ Len(framed) \in Nat /\ Taken \in Int
      /\ net \in Seq(DataDatagram \cup {FIN})
  BY <1>1, LineTypes DEF SendInv, DirectTypes
<1>4. Taken' = Taken /\ HandedLen' = HandedLen /\ Need' = Need
  BY <1>2, NeedKept DEF Taken, HandedLen
<1>5. ASSUME NEW n \in Nat, Chain(n)
      PROVE  /\ Chain(n)'
             /\ ReceiveFin /\ cut = 0 => \A i \in 1 .. Len(net) : net[i] = FIN
  <2>1. n <= LineLen
    BY <1>5 DEF Chain
  <2>2. CASE SendFin
    <3>1. net' = Append(net, FIN) /\ framed = << >>
      BY <1>1, <2>2, FinSends
    <3>2. /\ Len(net') = Len(net) + 1 /\ net'[Len(net) + 1] = FIN
          /\ \A i \in 1 .. Len(net) : net'[i] = net[i]
      BY <1>3, <3>1
    <3>3. LineLen = Len(raw_q) + Len(net) /\ LineLen' = LineLen + 1
      BY <1>2, <1>3, <3>1, <3>2 DEF LineLen
    <3>4. ASSUME NEW i \in 1 .. LineLen
          PROVE  Line(i)' = Line(i)
      <4>1. ~ (i <= Len(raw_q)) => i - Len(raw_q) \in 1 .. Len(net)
        BY <1>3, <3>3
      <4> QED
        BY <1>2, <1>3, <3>2, <3>3, <4>1 DEF Line
    <3>5. ASSUME NEW i \in Nat, i = LineLen + 1
          PROVE  Line(i)' = FIN
      <4>1. ~ (i <= Len(raw_q)) /\ i - Len(raw_q) = Len(net) + 1 /\ i <= Len(raw_q) + (Len(net) + 1)
        BY <1>3, <3>3, <3>5
      <4> QED
        BY <1>2, <3>2, <4>1 DEF Line
    <3>6. (\A i \in n + 1 .. LineLen : Line(i) = FIN) => (\A i \in n + 1 .. LineLen' : Line(i)' = FIN)
      <4>1. SUFFICES ASSUME \A i \in n + 1 .. LineLen : Line(i) = FIN, NEW i \in n + 1 .. LineLen'
                     PROVE  Line(i)' = FIN
        OBVIOUS
      <4>2. CASE i <= LineLen
        <5>1. i \in 1 .. LineLen /\ i \in n + 1 .. LineLen
          BY <1>3, <3>3, <4>2
        <5> QED
          BY <3>4, <4>1, <5>1
      <4>3. CASE i = LineLen + 1
        BY <1>3, <3>5, <4>3
      <4> QED
        BY <1>3, <3>3, <4>2, <4>3
    <3>7. n <= LineLen' /\ \A i \in 1 .. n : Line(i)' = Line(i)
      BY <1>3, <2>1, <3>3, <3>4
    <3>8. Chain(n)'
      BY <1>2, <1>3, <1>4, <1>5, <3>6, <3>7, ChainKept
    <3>9. ~ ReceiveFin
      BY <1>3, <3>2, <2>2 DEF ReceiveFin
    <3> QED
      BY <3>8, <3>9
  <2>3. CASE LoseFin
    <3>1. /\ framed = << >> /\ net # << >> /\ net[Len(net)] = FIN
          /\ Len(net') = Len(net) - 1 /\ \A i \in 1 .. Len(net) - 1 : net'[i] = net[i]
      BY <1>1, <2>3, LoseFinSends
    <3>2. LineLen = Len(raw_q) + Len(net) /\ LineLen' = LineLen - 1 /\ LineLen > 0 /\ Len(net) > 0
      BY <1>2, <1>3, <3>1 DEF LineLen
    <3>3. ASSUME NEW i \in 1 .. LineLen - 1
          PROVE  Line(i)' = Line(i)
      <4>1. ~ (i <= Len(raw_q)) => i - Len(raw_q) \in 1 .. Len(net) - 1 /\ i <= Len(raw_q) + Len(net) - 1
        BY <1>3, <3>2
      <4>2. i <= Len(raw_q) + Len(net)
        BY <1>3, <3>2
      <4> QED
        BY <1>2, <1>3, <3>1, <3>2, <4>1, <4>2 DEF Line
    <3>4. LineLen \in 1 .. LineLen /\ Line(LineLen) = FIN
      <4>1. ~ (LineLen <= Len(raw_q)) /\ LineLen - Len(raw_q) = Len(net)
        BY <1>3, <3>2
      <4> QED
        BY <1>3, <3>1, <3>2, <4>1 DEF Line
    <3>5. n < LineLen
      BY <1>1, <1>5, <3>4, ChainBeforeFin
    <3>6. n <= LineLen' /\ \A i \in 1 .. n : Line(i)' = Line(i)
      BY <1>3, <3>2, <3>3, <3>5
    <3>7. (\A i \in n + 1 .. LineLen : Line(i) = FIN) => (\A i \in n + 1 .. LineLen' : Line(i)' = FIN)
      BY <1>3, <3>2, <3>3
    <3>8. Chain(n)'
      BY <1>2, <1>3, <1>4, <1>5, <3>6, <3>7, ChainKept
    <3>9. ~ ReceiveFin
      BY <2>3, DirectAssumption DEF ReceiveFin, LoseFin
    <3> QED
      BY <3>8, <3>9
  <2>4. CASE ReceiveFin
    <3>1. net # << >> /\ net[1] = FIN /\ net' = Tail(net)
      BY <1>3, <2>4 DEF ReceiveFin
    <3>2. Len(net) > 0 /\ Len(net') = Len(net) - 1 /\ \A i \in 1 .. Len(net) - 1 : net'[i] = net[i + 1]
      BY <1>3, <3>1
    <3>3. LineLen' = LineLen - 1 /\ Len(raw_q) < LineLen
      BY <1>2, <1>3, <3>2 DEF LineLen
    <3>4. \A i \in 1 .. Len(raw_q) : Line(i)' = Line(i)
      BY <1>2, <1>3 DEF Line
    <3>5. ASSUME NEW i \in Len(raw_q) + 1 .. LineLen - 1
          PROVE  Line(i)' = Line(i + 1)
      <4>1. ~ (i <= Len(raw_q)) /\ ~ (i + 1 <= Len(raw_q)) /\ i \in Int
        BY <1>3
      <4>2. CASE i <= Len(raw_q) + Len(net) - 1
        <5>1. i - Len(raw_q) \in 1 .. Len(net) - 1 /\ i - Len(raw_q) + 1 = i + 1 - Len(raw_q)
          BY <1>3, <4>1, <4>2
        <5>2. net'[i - Len(raw_q)] = net[i + 1 - Len(raw_q)]
          BY <3>2, <5>1
        <5>3. i + 1 <= Len(raw_q) + Len(net) /\ i <= Len(raw_q) + (Len(net) - 1)
          BY <1>3, <4>1, <4>2
        <5> QED
          BY <1>2, <3>2, <4>1, <5>2, <5>3 DEF Line
      <4>3. CASE i > Len(raw_q) + Len(net) - 1
        <5>1. i - Len(raw_q) - (Len(net) - 1) = i + 1 - Len(raw_q) - Len(net)
          BY <1>3, <4>1
        <5>2. ~ (i + 1 <= Len(raw_q) + Len(net)) /\ ~ (i <= Len(raw_q) + (Len(net) - 1))
          BY <1>3, <4>1, <4>3
        <5> QED
          BY <1>2, <3>2, <4>1, <5>1, <5>2 DEF Line
      <4> QED
        BY <1>3, <4>1, <4>2, <4>3
    <3>6. Len(raw_q) + 1 \in 1 .. LineLen /\ Line(Len(raw_q) + 1) = FIN
      <4>1. ~ (Len(raw_q) + 1 <= Len(raw_q)) /\ Len(raw_q) + 1 - Len(raw_q) = 1 /\ Len(raw_q) + 1 <= Len(raw_q) + Len(net)
        BY <1>3, <3>2
      <4> QED
        BY <1>3, <3>1, <3>3, <4>1 DEF Line
    <3>7. n < Len(raw_q) + 1
      BY <1>1, <1>5, <3>6, ChainBeforeFin
    <3>8. n <= LineLen' /\ \A i \in 1 .. n : Line(i)' = Line(i)
      BY <1>3, <3>3, <3>4, <3>7
    <3>9. (\A i \in n + 1 .. LineLen : Line(i) = FIN) => (\A i \in n + 1 .. LineLen' : Line(i)' = FIN)
      <4>1. SUFFICES ASSUME \A i \in n + 1 .. LineLen : Line(i) = FIN, NEW i \in n + 1 .. LineLen'
                     PROVE  Line(i)' = FIN
        OBVIOUS
      <4>2. CASE i <= Len(raw_q)
        <5>1. i \in 1 .. Len(raw_q) /\ i \in n + 1 .. LineLen
          BY <1>3, <3>3, <4>2
        <5> QED
          BY <3>4, <4>1, <5>1
      <4>3. CASE i > Len(raw_q)
        <5>1. i \in Len(raw_q) + 1 .. LineLen - 1 /\ i + 1 \in n + 1 .. LineLen
          BY <1>3, <3>3, <4>3
        <5> QED
          BY <3>5, <4>1, <5>1
      <4> QED
        BY <1>3, <3>3, <4>2, <4>3
    <3>10. Chain(n)'
      BY <1>2, <1>3, <1>4, <1>5, <3>8, <3>9, ChainKept
    <3>11. ASSUME cut = 0, NEW i \in 1 .. Len(net)
           PROVE  net[i] = FIN
      <4>1. \A j \in n + 1 .. LineLen : Line(j) = FIN
        BY <1>5, <3>11 DEF Chain
      <4>2. Len(raw_q) + i \in n + 1 .. LineLen
        BY <1>3, <3>7 DEF LineLen
      <4>3. ~ (Len(raw_q) + i <= Len(raw_q)) /\ Len(raw_q) + i <= Len(raw_q) + Len(net) /\ Len(raw_q) + i - Len(raw_q) = i
        BY <1>3
      <4>4. Line(Len(raw_q) + i) = net[i]
        BY <4>3 DEF Line
      <4> QED
        BY <4>1, <4>2, <4>4
    <3> QED
      BY <3>10, <3>11
  <2> QED
    BY <2>2, <2>3, <2>4
<1>6. InStep'
  <2>1. CASE Spoilt
    BY <1>2, <1>4, <2>1 DEF InStep, Spoilt
  <2>2. CASE BufferFits /\ \E n \in Nat : Chain(n)
    <3>1. BufferFits'
      <4>1. task' # "extract" /\ accum # << >> => Len(accum) <= Len(blocks[HandedLen + 1])
        BY <1>2, <2>2 DEF BufferFits
      <4> QED
        BY <1>1, <1>2, <1>3, <1>4, <2>2, <4>1, BufferKept
    <3> QED
      BY <1>5, <2>2, <3>1 DEF InStep
  <2> QED
    BY <1>1, <2>1, <2>2 DEF CoreInv, InStep
<1>7. fin_seen' /\ cut' = 0 => \A i \in 1 .. Len(net') : net'[i] = FIN
  <2>1. SUFFICES ASSUME fin_seen', cut = 0
                 PROVE  \A i \in 1 .. Len(net') : net'[i] = FIN
    BY <1>2
  <2>2. \A i \in 1 .. Len(net) : net[i] = FIN
    <3>1. CASE ReceiveFin
      <4>1. \E n \in Nat : Chain(n)
        BY <1>1, <2>1 DEF CoreInv, InStep, Spoilt
      <4> QED
        BY <1>5, <2>1, <3>1, <4>1
    <3>2. CASE ~ ReceiveFin
      BY <1>1, <1>2, <2>1, <3>2 DEF CoreInv, EndInOrder
    <3> QED
      BY <3>1, <3>2
  <2>3. CASE SendFin
    BY <1>1, <1>3, <2>2, <2>3, FinSends
  <2>4. CASE LoseFin
    BY <1>1, <1>3, <2>2, <2>4, LoseFinSends
  <2>5. CASE ReceiveFin
    BY <1>3, <2>2, <2>5 DEF ReceiveFin
  <2> QED
    BY <2>3, <2>4, <2>5
<1>8. EndInOrder'
  <2>1. rx = "start" => fin_seen' = fin_seen
    BY <1>2
  <2>2. fin_seen => fin_seen'
    BY <1>2 DEF ReceiveFin
  <2>3. Spoilt' = Spoilt
    BY <1>2, <1>4, SpoiltKept
  <2> QED
    BY <1>1, <1>2, <1>7, <2>1, <2>2, <2>3 DEF EndInOrder, CoreInv
<1>9. WholeBlocksInOrder'
  <2>1. Handed' = Handed
    BY <1>2 DEF Handed
  <2> QED
    BY <1>1, <1>2, <2>1, WholeKept DEF CoreInv, SendInv, DirectTypes
<1> QED
  BY <1>6, <1>8, <1>9 DEF CoreInv

\* A fault cuts the chain at the datagram it befalls, which belongs to the
\* first touched block or a later one.
LEMMA FaultStep ==
    ASSUME DirectInv, rx # "failed", NEW k \in 1 .. Len(net), Lose(k) \/ Duplicate(k) \/ Overtake(k)
    PROVE  CoreInv'
<1>1. SendInv /\ CoreInv
  BY DEF DirectInv, SendInv, CoreInv
<1>2. /\ SendInv' /\ net[k] \in DataDatagram
      /\ cut' \in Nat \ {0} /\ cut' <= net[k].block /\ (cut # 0 => cut' <= cut)
      /\ Len(net') >= k - 1 /\ \A i \in 1 .. k - 1 : net'[i] = net[i]
      /\ UNCHANGED << work, txVars, rxVars >>
  BY <1>1, FaultSends
<1>3. UNCHANGED << blocks, produced, io_q, framed, raw_q, accum, task, rx, fin_seen, block_q, written >>
  BY <1>2 DEF work, txVars, rxVars
<1>4. /\ LineLen \in Nat /\ Len(raw_q) \in Nat /\ Len(net) \in Nat /\ Len(framed) \in Nat /\ Taken \in Int
      /\ cut \in Nat /\ HandedLen \in Nat
  BY <1>1, LineTypes
<1>5. Taken' = Taken /\ HandedLen' = HandedLen /\ Need' = Need /\ LineLen' \in Nat /\ Len(net') \in Nat
  BY <1>2, <1>3, NeedKept, LineTypes DEF Taken, HandedLen, SendInv, DirectTypes, LineLen
<1>6. PICK q \in Nat : q = Len(raw_q) + k
  BY <1>4
<1>7. q \in 1 .. LineLen /\ Line(q) = net[k] /\ q - 1 <= LineLen'
  <2>1. q \in 1 .. LineLen /\ ~ (q <= Len(raw_q)) /\ q <= Len(raw_q) + Len(net) /\ q - Len(raw_q) = k
    BY <1>4, <1>6 DEF LineLen
  <2>2. q - 1 <= Len(raw_q) + Len(net') + Len(framed)
    BY <1>2, <1>4, <1>5, <1>6
  <2> QED
    BY <1>3, <2>1, <2>2 DEF Line, LineLen
<1>8. ASSUME NEW i \in 1 .. q - 1
      PROVE  Line(i)' = Line(i)
  <2>1. CASE i <= Len(raw_q)
    BY <1>3, <2>1 DEF Line
  <2>2. CASE i > Len(raw_q)
    <3>1. /\ ~ (i <= Len(raw_q)) /\ i - Len(raw_q) \in 1 .. k - 1
          /\ i <= Len(raw_q) + Len(net) /\ i <= Len(raw_q) + Len(net')
      BY <1>2, <1>4, <1>5, <1>6, <2>2
    <3> QED
      BY <1>2, <1>3, <3>1 DEF Line
  <2> QED
    BY <1>4, <2>1, <2>2
<1>9. ASSUME NEW n \in Nat, Chain(n)
      PROVE  \E m \in Nat : Chain(m)'
  <2>1. n <= LineLen
    BY <1>9 DEF Chain
  <2>2. CASE q <= n
    <3>1. PICK m \in Nat : m + 1 = q
      BY <1>7
    <3>2. m \in 0 .. n /\ \A i \in 1 .. m : Line(i)' = Line(i)
      BY <1>8, <2>2, <3>1
    <3>3. /\ \A i \in 1 .. m : Good(Line(i))' /\ Place(Line(i))' = Reached(i)'
          /\ Reached(m + 1)' = Reached(m + 1)
      <4>1. Taken' \in Int /\ Taken <= Taken'
        BY <1>4, <1>5
      <4> QED
        BY <1>3, <1>4, <1>5, <1>9, <3>2, <4>1, FrontKept
    <3>4. Reached(q) = << Line(q).block, Line(q).at >>
      BY <1>7, <1>9, <2>2 DEF Chain, Place
    <3>5. Reached(m + 1)[1] = net[k].block
      BY <1>7, <3>1, <3>4
    <3>6. m <= LineLen'
      BY <1>5, <1>7, <3>1
    <3>7. Chain(m)'
      BY <1>2, <3>3, <3>5, <3>6 DEF Chain
    <3> QED
      BY <3>7
  <2>3. CASE n < q
    <3>1. cut # 0 /\ cut <= Reached(n + 1)[1]
      <4>1. ASSUME \A i \in n + 1 .. LineLen : Line(i) = FIN
            PROVE  FALSE
        <5>1. q \in n + 1 .. LineLen
          BY <1>7, <2>3
        <5> QED
          BY <1>2, <1>7, <4>1, <5>1, FinIsNoData
      <4> QED
        BY <1>9, <4>1 DEF Chain
    <3>2. n \in 0 .. n /\ \A i \in 1 .. n : Line(i)' = Line(i)
      BY <1>8, <2>3
    <3>3. /\ \A i \in 1 .. n : Good(Line(i))' /\ Place(Line(i))' = Reached(i)'
          /\ Reached(n + 1)' = Reached(n + 1)
      <4>1. Taken' \in Int /\ Taken <= Taken'
        BY <1>4, <1>5
      <4> QED
        BY <1>3, <1>4, <1>5, <1>9, <3>2, <4>1, FrontKept
    <3>4. n <= LineLen'
      BY <1>5, <1>7, <2>3
    <3>5. cut' # 0 /\ cut' <= Reached(n + 1)[1]
      <4>1. Reached(n + 1)[1] \in Int
        <5>1. CASE n = 0
          BY <1>4, <5>1 DEF Reached, Need, Beyond
        <5>2. CASE n # 0
          <6>1. n \in 1 .. n /\ n + 1 # 1 /\ n + 1 - 1 = n
            BY <5>2
          <6>2. Good(Line(n))
            BY <1>9, <6>1 DEF Chain
          <6>3. Line(n).block \in Int
            BY <1>4, <6>2 DEF Good
          <6>4. Reached(n + 1) = After(Line(n))
            BY <6>1 DEF Reached
          <6> QED
            BY <6>3, <6>4 DEF After, Beyond
        <5> QED
          BY <5>1, <5>2
      <4> QED
        BY <1>2, <1>4, <3>1, <4>1
    <3>6. Chain(n)'
      BY <3>3, <3>4, <3>5 DEF Chain
    <3> QED
      BY <3>6
  <2> QED
    BY <2>2, <2>3
<1>10. InStep'
  <2>1. CASE Spoilt
    BY <1>2, <1>4, <1>5, <2>1 DEF InStep, Spoilt
  <2>2. CASE BufferFits /\ \E n \in Nat : Chain(n)
    <3>1. BufferFits'
      <4>1. task' # "extract" /\ accum # << >> => Len(accum) <= Len(blocks[HandedLen + 1])
        BY <1>3, <2>2 DEF BufferFits
      <4> QED
        BY <1>1, <1>3, <1>4, <1>5, <2>2, <4>1, BufferKept
    <3> QED
      BY <1>9, <2>2, <3>1 DEF InStep
  <2> QED
    BY <1>1, <2>1, <2>2 DEF CoreInv, InStep
<1>11. EndInOrder'
  <2>1. Spoilt => Spoilt'
    BY <1>2, <1>4, <1>5 DEF Spoilt
  <2> QED
    BY <1>1, <1>2, <1>3, <2>1 DEF EndInOrder, CoreInv
<1>12. WholeBlocksInOrder'
  <2>1. Handed' = Handed
    BY <1>3 DEF Handed
  <2> QED
    BY <1>1, <1>2, <1>3, <2>1, WholeKept DEF CoreInv
<1> QED
  BY <1>10, <1>11, <1>12 DEF CoreInv

\* Outside of the inner loop the task needs the cell after those it has.
LEMMA NeedPlain ==
    ASSUME SendInv, BufferFits, task # "extract"
    PROVE  Need = << HandedLen + 1, Len(accum) >>
<1>1. CASE accum = << >>
  BY <1>1 DEF Need
<1>2. CASE accum # << >>
  <2>1. HandedLen + 1 \in 1 .. Len(blocks) /\ Len(accum) <= Len(blocks[HandedLen + 1])
    BY <1>2, LineTypes DEF BufferFits, SendInv, InTurn
  <2>2. Len(blocks[HandedLen + 1]) \in Nat /\ Len(accum) \in Nat
    BY <2>1, CellsAre, LineTypes DEF SendInv, DirectTypes
  <2> QED
    BY <1>2, <2>1, <2>2 DEF Need, Beyond
<1> QED
  BY <1>1, <1>2

\* A buffer with the beginning of a frame starts with the right length.
LEMMA LengthIsRight ==
    ASSUME SendInv, BufferFits, accum # << >>
    PROVE  /\ HandedLen + 1 \in 1 .. Len(blocks) /\ Len(blocks[HandedLen + 1]) \in Nat
           /\ HasLength /\ block_len = Len(blocks[HandedLen + 1])
<1>1. HandedLen + 1 \in 1 .. Len(blocks)
  BY LineTypes DEF BufferFits, SendInv, InTurn
<1>2. 1 \in 1 .. Len(accum)
  BY DEF SendInv, DirectTypes
<1>3. accum[1] = Cells(HandedLen + 1)[1]
  BY <1>2 DEF BufferFits
<1>4. Cells(HandedLen + 1)[1] = Prefix(Len(blocks[HandedLen + 1])) /\ Len(blocks[HandedLen + 1]) \in Nat
  BY <1>1, CellsAre DEF SendInv, DirectTypes
<1> QED
  BY <1>1, <1>3, <1>4 DEF HasLength, block_len, Prefix

\* The head of the line continues the buffer.
LEMMA TakeRawStep ==
    ASSUME DirectInv, rx # "failed", TakeRaw
    PROVE  CoreInv'
<1>1. SendInv /\ CoreInv
  BY DEF DirectInv, SendInv, CoreInv
<1>2. /\ UNCHANGED << blocks, produced, io_q, framed, net, cut, rx, fin_seen, block_q, written >>
      /\ task = "recv" /\ task' = "extract" /\ raw_q # << >>
      /\ raw_q' = Tail(raw_q) /\ accum' = accum \o Head(raw_q).data
  BY DEF TakeRaw, work, txVars, netVars
<1>3. /\ LineLen \in Nat /\ Len(raw_q) \in Nat \ {0} /\ Len(net) \in Nat /\ Len(framed) \in Nat
      /\ Taken \in Nat /\ cut \in Nat /\ HandedLen \in Nat /\ Len(accum) \in Nat
      /\ accum \in Seq(AnyCell) /\ raw_q \in Seq(DataDatagram)
  BY <1>1, <1>2, LineTypes DEF SendInv, DirectTypes
<1>4. Taken' = Taken /\ HandedLen' = HandedLen
  BY <1>2 DEF Taken, HandedLen
<1>5. Head(raw_q) = Line(1) /\ Line(1) \in DataDatagram /\ LineLen' = LineLen - 1 /\ LineLen > 0
  BY <1>2, <1>3 DEF Line, LineLen
<1>6. ASSUME NEW i \in 1 .. LineLen - 1
      PROVE  Line(i)' = Line(i + 1)
  <2>1. Len(raw_q') = Len(raw_q) - 1 /\ \A j \in 1 .. Len(raw_q) - 1 : raw_q'[j] = raw_q[j + 1]
    BY <1>2, <1>3
  <2>2. /\ i <= Len(raw_q) - 1 <=> i + 1 <= Len(raw_q)
        /\ i <= (Len(raw_q) - 1) + Len(net) <=> i + 1 <= Len(raw_q) + Len(net)
        /\ i - (Len(raw_q) - 1) = i + 1 - Len(raw_q)
        /\ i - (Len(raw_q) - 1) - Len(net) = i + 1 - Len(raw_q) - Len(net)
        /\ i <= Len(raw_q) - 1 => i \in 1 .. Len(raw_q) - 1
    BY <1>3
  <2> QED
    BY <1>2, <2>1, <2>2 DEF Line
<1>7. InStep'
  <2>1. CASE Spoilt
    BY <1>2, <1>4, <2>1 DEF InStep, Spoilt
  <2>2. CASE BufferFits /\ \E n \in Nat : Chain(n)
    <3>1. PICK n \in Nat : Chain(n)
      BY <2>2
    <3>2. Need = << HandedLen + 1, Len(accum) >>
      BY <1>1, <1>2, <2>2, NeedPlain
    <3>3. CASE n = 0
      <4>1. Line(1) # FIN /\ 1 \in n + 1 .. LineLen
        BY <1>3, <1>5, <3>3, FinIsNoData
      <4>2. cut # 0 /\ cut <= Reached(n + 1)[1]
        BY <3>1, <4>1 DEF Chain
      <4>3. Reached(n + 1) = << HandedLen + 1, Len(accum) >>
        BY <3>2, <3>3 DEF Reached
      <4>4. Spoilt
        BY <4>2, <4>3 DEF Spoilt
      <4> QED
        BY <2>1, <4>4
    <3>4. CASE n # 0
      <4> DEFINE d == Line(1)
      <4>1. Good(d) /\ Place(d) = Need /\ 1 \in 1 .. n /\ n <= LineLen
        <5>1. 1 \in 1 .. n
          BY <3>4
        <5> QED
          BY <3>1, <5>1 DEF Chain, Reached
      <4>2. d.block = HandedLen + 1 /\ d.at = Len(accum)
        BY <3>2, <4>1 DEF Place
      <4>3. d.data \in Seq(AnyCell) /\ Len(d.data) \in Nat
        BY <1>5 DEF DataDatagram
      <4>4. /\ HandedLen + 1 <= Taken
            /\ Len(accum) + Len(d.data) <= Len(blocks[HandedLen + 1]) + 1
            /\ \A i \in 1 .. Len(d.data) : d.data[i] = Cells(HandedLen + 1)[Len(accum) + i]
        <5>1. d.block <= Taken
          BY <1>3, <4>1 DEF Good
        <5> QED
          BY <4>1, <4>2, <5>1 DEF Good
      <4>5. accum' = accum \o d.data
        BY <1>2, <1>5
      <4> HIDE DEF d
      <4>6. /\ Len(accum') = Len(accum) + Len(d.data)
            /\ \A i \in 1 .. Len(accum) : accum'[i] = accum[i]
            /\ \A i \in 1 .. Len(d.data) : accum'[Len(accum) + i] = d.data[i]
            /\ accum' = << >> <=> Len(accum') = 0
        BY <1>3, <4>3, <4>5
      <4>7. \A i \in 1 .. Len(accum') : accum'[i] = Cells(HandedLen + 1)[i]
        <5>1. SUFFICES ASSUME NEW i \in 1 .. Len(accum')
                       PROVE  accum'[i] = Cells(HandedLen + 1)[i]
          OBVIOUS
        <5>2. CASE i <= Len(accum)
          <6>1. i \in 1 .. Len(accum) /\ accum # << >>
            BY <1>3, <4>3, <4>6, <5>2
          <6> QED
            BY <2>2, <4>6, <6>1 DEF BufferFits
        <5>3. CASE i > Len(accum)
          <6>1. i - Len(accum) \in 1 .. Len(d.data) /\ Len(accum) + (i - Len(accum)) = i
            BY <1>3, <4>3, <4>6, <5>3
          <6> QED
            BY <4>4, <4>6, <6>1
        <5> QED
          BY <1>3, <4>3, <4>6, <5>2, <5>3
      <4>8. BufferFits'
        <5>1. Cells(HandedLen + 1)' = Cells(HandedLen + 1)
          BY <1>2, <1>4 DEF Cells
        <5> QED
          BY <1>2, <1>4, <4>4, <4>6, <4>7, <5>1 DEF BufferFits
      <4>9. Need' = After(d)
        <5>1. After(d) = Beyond(HandedLen + 1, Len(accum'))
          BY <4>2, <4>6 DEF After
        <5>2. CASE accum' = << >>
          <6>1. HandedLen + 1 \in 1 .. Len(blocks)
            BY <1>1, <1>3, <4>4, LineTypes DEF SendInv, InTurn
          <6>2. Len(blocks[HandedLen + 1]) \in Nat
            BY <1>1, <6>1, CellsAre DEF SendInv, DirectTypes
          <6>3. Len(accum') = 0 /\ 0 # Len(blocks[HandedLen + 1]) + 1
            BY <4>6, <5>2, <6>2
          <6> QED
            BY <1>4, <5>1, <5>2, <6>3 DEF Need, Beyond
        <5>3. CASE accum' # << >>
          BY <1>2, <1>4, <5>1, <5>3 DEF Need, Beyond
        <5> QED
          BY <5>2, <5>3
      <4>10. PICK m \in Nat : m + 1 = n
        BY <3>4
      <4>11. \A i \in 1 .. m : Line(i)' = Line(i + 1)
        BY <1>3, <1>6, <4>1, <4>10
      <4>12. ASSUME NEW i \in 1 .. m + 1
             PROVE  Reached(i)' = Reached(i + 1)
        <5>1. i + 1 # 1 /\ i + 1 - 1 = i
          OBVIOUS
        <5>2. Reached(i + 1) = After(Line(i))
          BY <5>1 DEF Reached
        <5>3. CASE i = 1
          BY <4>9, <5>2, <5>3 DEF Reached, d
        <5>4. CASE i # 1
          <6>1. i - 1 \in 1 .. m /\ i - 1 + 1 = i
            BY <5>4
          <6>2. Line(i - 1)' = Line(i)
            BY <4>11, <6>1
          <6>3. After(Line(i - 1))' = After(Line(i))
            BY <1>2, <6>2 DEF After, Beyond
          <6> QED
            BY <5>2, <5>4, <6>3 DEF Reached
        <5> QED
          BY <5>3, <5>4
      <4>13. ASSUME NEW i \in 1 .. m
             PROVE  Good(Line(i))' /\ Place(Line(i))' = Reached(i)'
        <5>1. i + 1 \in 1 .. n /\ i \in 1 .. m + 1
          BY <4>10
        <5>2. Good(Line(i + 1)) /\ Place(Line(i + 1)) = Reached(i + 1)
          BY <3>1, <5>1 DEF Chain
        <5>3. Line(i)' = Line(i + 1) /\ Reached(i)' = Reached(i + 1)
          BY <4>11, <4>12, <5>1
        <5>4. \A b : Cells(b)' = Cells(b)
          BY <1>2 DEF Cells
        <5> QED
          BY <1>2, <1>4, <5>2, <5>3, <5>4 DEF Good, Place, Cells
      <4>14. Chain(m)'
        <5>1. m <= LineLen'
          BY <1>3, <1>5, <4>1, <4>10
        <5>2. Reached(m + 1)' = Reached(n + 1)
          BY <4>10, <4>12
        <5>3. (\A i \in n + 1 .. LineLen : Line(i) = FIN) => (\A i \in m + 1 .. LineLen' : Line(i)' = FIN)
          <6>1. SUFFICES ASSUME \A i \in n + 1 .. LineLen : Line(i) = FIN, NEW i \in m + 1 .. LineLen'
                         PROVE  Line(i)' = FIN
            OBVIOUS
          <6>2. i \in 1 .. LineLen - 1 /\ i + 1 \in n + 1 .. LineLen
            BY <1>3, <1>5, <4>10
          <6> QED
            BY <1>6, <6>1, <6>2
        <5> QED
          BY <1>2, <1>4, <3>1, <4>13, <5>1, <5>2, <5>3 DEF Chain
      <4> QED
        BY <4>8, <4>14 DEF InStep
    <3> QED
      BY <3>3, <3>4
  <2> QED
    BY <1>1, <2>1, <2>2 DEF CoreInv, InStep
<1>8. EndInOrder'
  BY <1>1, <1>2 DEF EndInOrder, CoreInv
<1>9. WholeBlocksInOrder'
  <2>1. Handed' = Handed
    BY <1>2 DEF Handed
  <2> QED
    BY <1>1, <1>2, <2>1, WholeKept DEF CoreInv, SendInv, DirectTypes
<1> QED
  BY <1>7, <1>8, <1>9 DEF CoreInv

LEMMA ExtractDoneStep ==
    ASSUME DirectInv, rx # "failed", ExtractDone
    PROVE  CoreInv'
<1>1. SendInv /\ CoreInv
  BY DEF DirectInv, SendInv, CoreInv
<1>2. /\ UNCHANGED << blocks, produced, io_q, framed, net, cut, rx, fin_seen, raw_q, accum, block_q, written >>
      /\ task = "extract" /\ task' = "recv" /\ ~ Complete
  BY DEF ExtractDone, work, txVars, netVars
<1>3. Taken' = Taken /\ HandedLen' = HandedLen /\ LineLen' = LineLen /\ Need' = Need
  BY <1>2, NeedKept DEF Taken, HandedLen, LineLen
<1>4. InStep'
  <2>1. CASE Spoilt
    BY <1>2, <1>3, <2>1 DEF InStep, Spoilt
  <2>2. CASE BufferFits /\ \E n \in Nat : Chain(n)
    <3>1. accum # << >> => Len(accum) <= Len(blocks[HandedLen + 1])
      BY <1>1, <1>2, <2>2, LengthIsRight, LineTypes DEF Complete
    <3>2. BufferFits'
      BY <1>1, <1>2, <1>3, <2>2, <3>1, BufferKept, LineTypes
    <3>3. PICK n \in Nat : Chain(n)
      BY <2>2
    <3>4. n <= LineLen /\ \A i \in Nat : Line(i)' = Line(i)
      BY <1>2, <3>3 DEF Chain, Line
    <3>5. Taken \in Int /\ LineLen \in Nat
      BY <1>1, LineTypes
    <3>6. Chain(n)'
      <4>1. \A i \in 1 .. n : Line(i)' = Line(i)
        BY <3>4
      <4>2. \A i \in n + 1 .. LineLen : Line(i)' = Line(i)
        BY <3>4, <3>5
      <4> QED
        BY <1>2, <1>3, <3>3, <3>4, <3>5, <4>1, <4>2, ChainKept
    <3> QED
      BY <3>2, <3>6 DEF InStep
  <2> QED
    BY <1>1, <2>1, <2>2 DEF CoreInv, InStep
<1>5. EndInOrder'
  BY <1>1, <1>2 DEF EndInOrder, CoreInv
<1>6. WholeBlocksInOrder'
  <2>1. Handed' = Handed
    BY <1>2 DEF Handed
  <2> QED
    BY <1>1, <1>2, <2>1, WholeKept DEF CoreInv, SendInv, DirectTypes
<1> QED
  BY <1>4, <1>5, <1>6 DEF CoreInv

\* A buffer that starts with content belongs to a block that was touched.
LEMMA ExtractPanicsStep ==
    ASSUME DirectInv, rx # "failed", ExtractPanics
    PROVE  CoreInv'
<1>1. SendInv /\ CoreInv
  BY DEF DirectInv, SendInv, CoreInv
<1>2. /\ UNCHANGED << blocks, produced, io_q, framed, net, cut, rx, fin_seen, raw_q, accum, block_q, written >>
      /\ accum # << >> /\ accum[1].kind = "byte" /\ task = "extract" /\ task' = "ended"
  BY DEF ExtractPanics, work, txVars, netVars
<1>3. Spoilt
  <2>1. ASSUME BufferFits PROVE FALSE
    <3>1. HandedLen + 1 \in 1 .. Len(blocks) /\ 1 \in 1 .. Len(accum)
      BY <1>1, <1>2, <2>1, LengthIsRight DEF SendInv, DirectTypes
    <3>2. accum[1] = Cells(HandedLen + 1)[1]
      BY <1>2, <2>1, <3>1 DEF BufferFits
    <3>3. Cells(HandedLen + 1)[1] = Prefix(Len(blocks[HandedLen + 1]))
      BY <1>1, <3>1, CellsAre DEF SendInv, DirectTypes
    <3> QED
      BY <1>2, <3>2, <3>3 DEF Prefix
  <2> QED
    BY <1>1, <2>1 DEF CoreInv, InStep
<1>4. Spoilt'
  BY <1>2, <1>3, SpoiltKept DEF HandedLen
<1>5. WholeBlocksInOrder'
  <2>1. Handed' = Handed
    BY <1>2 DEF Handed
  <2> QED
    BY <1>1, <1>2, <2>1, WholeKept DEF CoreInv, SendInv, DirectTypes
<1> QED
  BY <1>1, <1>2, <1>4, <1>5 DEF CoreInv, InStep, EndInOrder

\* A whole frame becomes the next block, and leaves nothing in the buffer.
LEMMA ExtractStep ==
    ASSUME DirectInv, rx # "failed", Extract
    PROVE  CoreInv'
<1>1. SendInv /\ CoreInv
  BY DEF DirectInv, SendInv, CoreInv
<1> DEFINE b == HandedLen + 1
           new == SubSeq(accum, 2, block_len + 1)
<1>2. /\ UNCHANGED << blocks, produced, io_q, framed, net, cut, rx, fin_seen, raw_q, written, task >>
      /\ task = "extract" /\ Complete /\ rx = "run"
      /\ accum' = SubSeq(accum, block_len + 2, Len(accum))
      /\ block_q' = Append(block_q, new)
  BY <1>1 DEF Extract, work, txVars, netVars, CoreInv, EndInOrder, SendInv, DirectTypes
<1>3. /\ Taken \in Nat /\ LineLen \in Nat /\ HandedLen \in Nat /\ cut \in Nat /\ Len(accum) \in Nat
      /\ Taken' = Taken /\ LineLen' = LineLen
  BY <1>1, <1>2, LineTypes DEF Taken, LineLen
<1>4. /\ accum \in Seq(AnyCell) /\ accum # << >> /\ block_len \in Nat /\ Len(accum) >= 1 + block_len
  BY <1>1, <1>2, LengthIsNat DEF Complete, HasLength, SendInv, DirectTypes
<1>5. ASSUME NEW n \in Nat, Len(accum) >= 1 + n
      PROVE  /\ SubSeq(accum, 2, n + 1) \in Seq(AnyCell) /\ Len(SubSeq(accum, 2, n + 1)) = n
             /\ \A i \in 1 .. n : SubSeq(accum, 2, n + 1)[i] = accum[i + 1]
             /\ Len(accum) = 1 + n => SubSeq(accum, n + 2, Len(accum)) = << >>
  <2>1. n + 1 \in Nat /\ 1 <= n + 1 /\ n + 1 <= Len(accum)
    BY <1>3, <1>5
  <2>2. /\ SubSeq(accum, 1 + 1, n + 1) \in Seq(AnyCell) /\ Len(SubSeq(accum, 1 + 1, n + 1)) = (n + 1) - 1
        /\ \A i \in 1 .. Len(SubSeq(accum, 1 + 1, n + 1)) : SubSeq(accum, 1 + 1, n + 1)[i] = accum[1 + i]
    BY <1>4, <2>1, PartIs
  <2>3. 1 + 1 = 2 /\ (n + 1) - 1 = n /\ \A i \in 1 .. n : 1 + i = i + 1
    OBVIOUS
  <2>4. Len(accum) = 1 + n => n + 2 \in Int /\ Len(accum) \in Int /\ Len(accum) < n + 2
    BY <1>3
  <2> QED
    BY <2>2, <2>3, <2>4, SubSeqEmpty
<1>6. new \in Seq(AnyCell) /\ Len(new) = block_len /\ \A i \in 1 .. block_len : new[i] = accum[i + 1]
  BY <1>4, <1>5
<1> HIDE DEF new
<1>7. block_q \in Seq(Seq(AnyCell)) /\ written \in Seq(Seq(AnyCell)) /\ block_q' \in Seq(Seq(AnyCell))
  BY <1>1, <1>2, <1>6, AppendProperties DEF SendInv, DirectTypes
<1>8. HandedLen' = HandedLen + 1
  BY <1>2, <1>6, <1>7 DEF HandedLen
<1>9. /\ Len(Handed) = HandedLen /\ Len(Handed') = HandedLen + 1
      /\ \A i \in 1 .. HandedLen : Handed'[i] = Handed[i]
      /\ Handed'[HandedLen + 1] = new
  <2>1. /\ Len(block_q') = Len(block_q) + 1 /\ block_q'[Len(block_q) + 1] = new
        /\ \A i \in 1 .. Len(block_q) : block_q'[i] = block_q[i]
    BY <1>2, <1>6, <1>7
  <2>2. /\ Len(written \o block_q) = Len(written) + Len(block_q)
        /\ \A i \in 1 .. Len(written) + Len(block_q) : (written \o block_q)[i] =
              IF i <= Len(written) THEN written[i] ELSE block_q[i - Len(written)]
    BY <1>7, ConcatProperties
  <2>3. /\ Len(written \o block_q') = Len(written) + Len(block_q')
        /\ \A i \in 1 .. Len(written) + Len(block_q') : (written \o block_q')[i] =
              IF i <= Len(written) THEN written[i] ELSE block_q'[i - Len(written)]
    BY <1>7, ConcatProperties
  <2>4. Handed = written \o block_q /\ Handed' = written \o block_q'
    BY <1>2 DEF Handed
  <2>5. Len(written) \in Nat /\ Len(block_q) \in Nat /\ HandedLen = Len(written) + Len(block_q)
    BY <1>7 DEF HandedLen
  <2>6. ASSUME NEW i \in 1 .. HandedLen
        PROVE  Handed'[i] = Handed[i]
    <3>1. ~ (i <= Len(written)) => i - Len(written) \in 1 .. Len(block_q)
      BY <2>5
    <3>2. i \in 1 .. Len(written) + Len(block_q) /\ i \in 1 .. Len(written) + Len(block_q')
      BY <2>1, <2>5
    <3> QED
      BY <2>1, <2>2, <2>3, <2>4, <3>1, <3>2
  <2>7. Handed'[HandedLen + 1] = new
    <3>1. PICK j \in Nat : j = HandedLen + 1
      BY <2>5
    <3>2. /\ j \in 1 .. Len(written) + Len(block_q')
          /\ ~ (j <= Len(written)) /\ j - Len(written) = Len(block_q) + 1
      BY <2>1, <2>5, <3>1
    <3>3. (written \o block_q')[j] = block_q'[j - Len(written)]
      BY <2>3, <3>2
    <3> QED
      BY <2>1, <2>4, <3>1, <3>2, <3>3
  <2>8. Len(Handed) = HandedLen /\ Len(Handed') = HandedLen + 1
    BY <2>1, <2>2, <2>3, <2>4, <2>5
  <2> QED
    BY <2>6, <2>7, <2>8
<1>10. CASE Spoilt
  <2>1. Spoilt'
    BY <1>2, <1>3, <1>8, <1>10 DEF Spoilt
  <2>2. WholeBlocksInOrder'
    <3>1. SUFFICES ASSUME NEW i \in 1 .. HandedLen + 1, cut = 0 \/ i < cut
                   PROVE  i <= Len(blocks) /\ Handed'[i] = blocks[i]
      BY <1>2, <1>9 DEF WholeBlocksInOrder
    <3>2. i \in 1 .. HandedLen
      BY <1>3, <1>10, <3>1 DEF Spoilt
    <3>3. i \in 1 .. Len(Handed) /\ Handed'[i] = Handed[i]
      BY <1>9, <3>2
    <3> QED
      BY <1>1, <1>2, <3>1, <3>3 DEF CoreInv, WholeBlocksInOrder
  <2> QED
    BY <1>1, <1>2, <2>1, <2>2 DEF CoreInv, InStep, EndInOrder
<1>11. CASE BufferFits /\ \E n \in Nat : Chain(n)
  <2>1. b \in 1 .. Len(blocks) /\ Len(blocks[b]) \in Nat /\ block_len = Len(blocks[b])
    BY <1>1, <1>4, <1>11, LengthIsRight
  <2>2. Len(accum) = 1 + block_len
    BY <1>3, <1>4, <1>11, <2>1 DEF BufferFits
  <2>3. accum' = << >>
    BY <1>2, <1>4, <1>5, <2>2
  <2>4. new = blocks[b]
    <3>1. ASSUME NEW i \in 1 .. block_len
          PROVE  new[i] = blocks[b][i]
      <4>1. i + 1 \in 1 .. Len(accum)
        BY <1>4, <2>2
      <4>2. accum[i + 1] = Cells(b)[i + 1]
        BY <1>4, <1>11, <4>1 DEF BufferFits
      <4>3. Cells(b)[i + 1] = blocks[b][i]
        BY <1>1, <2>1, CellsAre DEF SendInv, DirectTypes
      <4> QED
        BY <1>6, <4>2, <4>3
    <3>2. blocks[b] \in Seq(AnyCell)
      <4>1. Cell \subseteq AnyCell
        BY DEF AnyCell
      <4>2. blocks[b] \in Seq(Cell)
        BY <1>1, <2>1 DEF SendInv, DirectTypes
      <4> QED
        BY <4>1, <4>2, SeqMonotonic
    <3> QED
      BY <1>6, <2>1, <3>1, <3>2, SeqEqual
  <2>5. Need' = Need
    <3>1. Need' = << HandedLen + 2, 0 >>
      BY <1>3, <1>8, <2>3 DEF Need
    <3>2. Need = << HandedLen + 2, 0 >>
      BY <1>3, <1>4, <2>1, <2>2 DEF Need, Beyond
    <3> QED
      BY <3>1, <3>2
  <2>6. PICK n \in Nat : Chain(n)
    BY <1>11
  <2>7. n <= LineLen /\ \A i \in Nat : Line(i)' = Line(i)
    BY <1>2, <2>6 DEF Chain, Line
  <2>8. Chain(n)'
    <3>1. \A i \in 1 .. n : Line(i)' = Line(i)
      BY <2>7
    <3>2. \A i \in n + 1 .. LineLen : Line(i)' = Line(i)
      BY <1>3, <2>7
    <3> QED
      BY <1>2, <1>3, <2>5, <2>6, <2>7, <3>1, <3>2, ChainKept
  <2>9. BufferFits'
    BY <2>3 DEF BufferFits
  <2>10. WholeBlocksInOrder'
    <3>1. SUFFICES ASSUME NEW i \in 1 .. HandedLen + 1, cut = 0 \/ i < cut
                   PROVE  i <= Len(blocks) /\ Handed'[i] = blocks[i]
      BY <1>2, <1>9 DEF WholeBlocksInOrder
    <3>2. CASE i = HandedLen + 1
      BY <1>9, <2>1, <2>4, <3>2
    <3>3. CASE i \in 1 .. HandedLen
      <4>1. i \in 1 .. Len(Handed) /\ Handed'[i] = Handed[i]
        BY <1>9, <3>3
      <4> QED
        BY <1>1, <1>2, <3>1, <4>1 DEF CoreInv, WholeBlocksInOrder
    <3> QED
      BY <1>3, <3>2, <3>3
  <2> QED
    BY <1>1, <1>2, <2>8, <2>9, <2>10 DEF CoreInv, InStep, EndInOrder
<1> QED
  BY <1>1, <1>10, <1>11 DEF CoreInv, InStep

-----------------------------------------------------------------------------
(* The theorems.                                                           *)

\* The files of the directory, as the initial states have them.
LEMMA InitPacks == Init => PacksEverything
<1>. SUFFICES ASSUME Init PROVE PacksEverything
  OBVIOUS
<1>1. PICK sizes \in UNION {[1 .. n -> Sizes] : n \in 0 .. NFiles} :
         files = [p \in 1 .. Len(sizes) |-> File(p, sizes[p])]
  BY DEF Init
<1>2. PICK n \in 0 .. NFiles : sizes \in [1 .. n -> Sizes]
  BY <1>1
<1>3. n \in Nat /\ Sizes \subseteq Nat
  BY DirectAssumption
<1>4. Len(sizes) = n
  BY <1>2, <1>3
<1>5. ASSUME NEW p \in 1 .. n
      PROVE  File(p, sizes[p]) \in AFile /\ File(p, sizes[p]).path = p
  <2>. DEFINE len == sizes[p]
              bytes == [i \in 1 .. len |-> Byte(p, i)]
  <2>1. len \in Nat /\ p \in Nat
    <3>1. sizes[p] \in Sizes
      BY <1>2
    <3>2. sizes[p] \in Nat
      BY <3>1, <1>3, Zenon
    <3>3. p \in Nat
      BY <1>3
    <3>. QED
      BY <3>2, <3>3
  <2>. HIDE DEF len
  <2>2. \A i \in 1 .. len : Byte(p, i) \in ByteCell
    BY <2>1 DEF Byte, ByteCell
  <2>3. bytes \in Seq(ByteCell)
    BY <2>1, <2>2
  <2>4. File(p, len) = [path |-> p, bytes |-> bytes]
    BY DEF File
  <2>. HIDE DEF bytes
  <2>. QED
    BY <2>1, <2>3, <2>4 DEF AFile, len
<1>6. files = [p \in 1 .. n |-> File(p, sizes[p])]
  BY <1>1, <1>4
<1>7. files \in Seq(AFile) /\ Len(files) = n /\ \A p \in 1 .. n : files[p].path = p
  BY <1>3, <1>5, <1>6
<1>8. FilesOK(files)
  BY <1>7 DEF FilesOK
<1>9. Packs(files, pack_files(files))
  BY <1>8, PackFilesPacks
<1>10. blocks = pack_files(files)
  BY DEF Init
<1>. QED
  BY <1>9, <1>10 DEF PacksEverything

LEMMA DirectInit == Init => DirectInv
<1>1. SUFFICES ASSUME Init
               PROVE  DirectInv
  OBVIOUS
<1>0. PacksEverything
  BY <1>1, InitPacks
<1>2. blocks \in Seq(Seq(Cell)) /\ Len(blocks) \in Nat
  BY <1>0 DEF PacksEverything, Packs
<1>3. /\ tx = "connect" /\ produced = 0 /\ io_q = << >> /\ framed = << >> /\ fin_left = FinCopies
      /\ net = << >> /\ cut = 0 /\ listening = FALSE /\ rx = "start" /\ fin_seen = FALSE
      /\ raw_q = << >> /\ accum = << >> /\ task = "recv" /\ block_q = << >> /\ written = << >>
  BY <1>1 DEF Init
<1>4. DirectTypes
  <2>1. \A S : << >> \in Seq(S)
    OBVIOUS
  <2>2. /\ io_q \in Seq(Nat) /\ framed \in Seq(DataDatagram) /\ net \in Seq(DataDatagram \cup {FIN})
        /\ raw_q \in Seq(DataDatagram) /\ accum \in Seq(AnyCell)
        /\ block_q \in Seq(Seq(AnyCell)) /\ written \in Seq(Seq(AnyCell))
    BY <1>3, <2>1
  <2>3. produced \in Nat /\ fin_left \in Nat /\ cut \in Nat
    BY <1>3, DirectAssumption
  <2> QED
    BY <1>2, <1>3, <2>2, <2>3 DEF DirectTypes
<1>5. Taken = 0 /\ LineLen = 0 /\ HandedLen = 0 /\ Need = << 1, 0 >>
  <2>1. produced = 0 /\ Len(io_q) = 0 /\ Len(raw_q) = 0 /\ Len(net) = 0 /\ Len(framed) = 0
    BY <1>3
  <2>2. Len(written) = 0 /\ Len(block_q) = 0
    BY <1>3
  <2>3. Taken = 0 /\ LineLen = 0 /\ HandedLen = 0
    BY <2>1, <2>2 DEF Taken, LineLen, HandedLen
  <2> QED
    BY <1>3, <2>3 DEF Need
<1>6. InTurn /\ HeardFromStart
  BY <1>2, <1>3, <1>5 DEF InTurn, HeardFromStart
<1>7. FinIsLast
  BY <1>3, DirectAssumption DEF FinIsLast
<1>8. Chain(0)
  BY <1>5 DEF Chain, Reached
<1>9. InStep
  BY <1>3, <1>8 DEF InStep, BufferFits
<1>10. EndInOrder
  BY <1>3 DEF EndInOrder
<1>11. WholeBlocksInOrder
  <2>1. Handed = << >> /\ Len(Handed) = 0
    BY <1>3 DEF Handed
  <2> QED
    BY <2>1 DEF WholeBlocksInOrder
<1> QED
  BY <1>0, <1>4, <1>6, <1>7, <1>9, <1>10, <1>11 DEF DirectInv

LEMMA DirectNext == DirectInv /\ [Next]_vars => DirectInv'
<1>1. SUFFICES ASSUME DirectInv, [Next]_vars
               PROVE  DirectInv'
  OBVIOUS
<1>2. SendInv
  BY <1>1 DEF DirectInv, SendInv
<1>3. SendInv'
  <2>1. CASE UNCHANGED vars
    BY <1>2, <2>1 DEF SendInv, DirectTypes, InTurn, Taken, HeardFromStart, FinIsLast,
                      vars, work, txVars, netVars, rxVars
  <2>2. CASE Listen \/ Ready \/ GiveUp \/ ReadFails
    BY <1>2, <2>2, ConnectSends
  <2>3. CASE TxStep
    BY <1>2, <2>3, ProduceSends, TakeBlockSends, DatagramSends, FinSends DEF TxStep
  <2>4. CASE Network
    BY <1>2, <2>4, FaultSends, LoseFinSends DEF Network
  <2>5. CASE RxStep \/ TaskStep
    BY <1>2, <2>5, ReceiveSends
  <2>6. CASE Over
    BY <2>1, <2>6 DEF Over
  <2> QED
    BY <1>1, <2>1, <2>2, <2>3, <2>4, <2>5, <2>6 DEF Next
<1>4. PacksEverything'
  <2>1. files' = files /\ blocks' = blocks
    BY <1>1 DEF Next, Listen, Ready, GiveUp, ReadFails, TxStep, Produce, TakeBlock, SendDatagram,
                SendFin, Network, LoseFin, Lose, Duplicate, Overtake, Fault, RxStep, ReceiveData,
                ReceiveFin, WriteEnds, Write, TaskStep, TakeRaw, Extract, ExtractPanics, ExtractDone, TaskEnds,
                Over, vars, work
  <2>2. PacksEverything
    BY <1>1 DEF DirectInv
  <2> QED
    BY <2>1, <2>2 DEF PacksEverything
<1>5. rx' # "failed" => rx # "failed"
  BY <1>1 DEF Next, Listen, Ready, GiveUp, ReadFails, TxStep, Produce, TakeBlock, SendDatagram,
              SendFin, Network, LoseFin, Lose, Duplicate, Overtake, Fault, RxStep, ReceiveData,
              ReceiveFin, WriteEnds, Write, TaskStep, TakeRaw, Extract, ExtractPanics, ExtractDone, TaskEnds,
              Over, vars, rxVars
<1>6. ASSUME rx' # "failed"
      PROVE  CoreInv'
  <2>1. rx # "failed"
    BY <1>5, <1>6
  <2>2. CASE UNCHANGED vars \/ Listen \/ Ready \/ GiveUp \/ ReadFails
    BY <1>1, <1>6, <2>1, <2>2, QuietSteps
  <2>3. CASE TxStep
    BY <1>1, <1>6, <2>1, <2>3, QuietSteps, TakeBlockStep, PassesOn, FinSteps DEF TxStep
  <2>4. CASE Network
    BY <1>1, <2>1, <2>4, FaultStep, FinSteps DEF Network
  <2>5. CASE RxStep
    BY <1>1, <1>6, <2>1, <2>5, PassesOn, FinSteps, QuietSteps, WriteStep DEF RxStep
  <2>6. CASE TaskStep
    BY <1>1, <1>6, <2>1, <2>6, TakeRawStep, ExtractStep, ExtractPanicsStep, ExtractDoneStep, QuietSteps DEF TaskStep
  <2>7. CASE Over
    BY <2>2, <2>7 DEF Over
  <2> QED
    BY <1>1, <2>2, <2>3, <2>4, <2>5, <2>6, <2>7 DEF Next
<1> QED
  BY <1>3, <1>4, <1>6 DEF DirectInv, SendInv, CoreInv

\* The line between the two commands, from the send task's frame to the
\* reassembly task's buffer, is the stream of frames up to the first block that
\* the network has touched.
THEOREM DirectInvariance == Spec => []DirectInv
<1>1. Init => DirectInv
  BY DirectInit
<1>2. DirectInv /\ [Next]_vars => DirectInv'
  BY DirectNext
<1> QED
  BY <1>1, <1>2, PTL DEF Spec

\* pack_files loses, repeats and mixes nothing, for any number of files of any
\* size: its blocks unpack to exactly the files, each part of a file is in one
\* block and bears the file's number of parts, and no block is empty or holds
\* more than BLOCK_SIZE of payload.
THEOREM PackingIsExact == Spec => []PacksEverything
<1>1. DirectInv => PacksEverything
  BY DEF DirectInv
<1> QED
  BY <1>1, DirectInvariance, PTL

\* The reassembly task of run_direct hands over the blocks that were sent, whole
\* and in order, up to the first one of which the network has lost, repeated or
\* delayed a datagram: for blocks, datagrams and channels of any size.
THEOREM BlocksArriveWhole == Spec => []WholeBlocksInOrder
<1>1. DirectInv => WholeBlocksInOrder
  BY DEF DirectInv, WholeBlocksInOrder
<1> QED
  BY <1>1, DirectInvariance, PTL

\* Without such a datagram a receiving command that returns without an error
\* has restored every file, although its Receiver returns at the first FIN; and
\* nothing at all when the sending command could not read its directory, whose
\* send task sends FIN nevertheless.
THEOREM FilesAreRestored == Spec => []FilesArrive
<1>1. DirectInv => FilesArrive
  <2>1. SUFFICES ASSUME DirectInv, rx = "ok", cut = 0
                 PROVE  IF tx = "read_failed" THEN written = << >> ELSE Restored(written) = AsWritten(files)
    BY DEF FilesArrive
  <2>2. SendInv /\ InStep /\ EndInOrder /\ WholeBlocksInOrder
    BY <2>1 DEF DirectInv, SendInv
  <2>3. /\ Len(raw_q) \in Nat /\ Len(net) \in Nat /\ Taken \in Nat /\ HandedLen \in Nat /\ Len(blocks) \in Nat
    BY <2>2, LineTypes
  <2>4. task = "ended" /\ block_q = << >> /\ raw_q = << >> /\ fin_seen /\ \A i \in 1 .. Len(net) : net[i] = FIN
    BY <2>1, <2>2 DEF EndInOrder, Spoilt
  <2>5. /\ framed = << >>
        /\ tx # "read_failed" => Taken = Len(blocks)
        /\ tx = "read_failed" => produced = 0
    BY <2>2, <2>4, DirectAssumption DEF SendInv, FinIsLast, DirectTypes
  <2>6. LineLen = Len(net) /\ \A i \in 1 .. LineLen : Line(i) = FIN
    <3>1. Len(raw_q) = 0 /\ LineLen = Len(net)
      BY <2>3, <2>4, <2>5 DEF LineLen
    <3>2. ASSUME NEW i \in 1 .. Len(net)
          PROVE  Line(i) = FIN
      <4>1. ~ (i <= 0) /\ i <= 0 + Len(net) /\ i - 0 = i
        BY <2>3
      <4> QED
        BY <2>4, <3>1, <4>1 DEF Line
    <3> QED
      BY <3>1, <3>2
  <2>7. BufferFits /\ \E n \in Nat : Chain(n)
    BY <2>1, <2>2 DEF InStep, Spoilt
  <2>8. PICK n \in Nat : Chain(n)
    BY <2>7
  <2>9. n = 0
    <3>1. CASE n # 0
      <4>1. 1 \in 1 .. n /\ 1 \in 1 .. LineLen
        BY <2>3, <2>6, <2>8, <3>1 DEF Chain
      <4>2. Good(Line(1)) /\ Line(1) = FIN
        BY <2>6, <2>8, <4>1 DEF Chain
      <4> QED
        BY <4>2, FinIsNotGood
    <3> QED
      BY <3>1
  <2>10. Need = << Taken + 1, 0 >>
    BY <2>1, <2>8, <2>9 DEF Chain, Reached
  <2>11. Need = << HandedLen + 1, Len(accum) >>
    BY <2>2, <2>4, <2>7, NeedPlain
  <2>12. HandedLen = Taken
    BY <2>3, <2>10, <2>11
  <2>13. written \in Seq(Seq(AnyCell)) /\ blocks \in Seq(Seq(Cell)) /\ Len(written) = Taken
    BY <2>2, <2>4, <2>12 DEF SendInv, DirectTypes, HandedLen
  <2>14. CASE tx = "read_failed"
    <3>1. Taken = 0
      <4>1. Len(io_q) \in Nat /\ Taken = 0 - Len(io_q)
        BY <2>2, <2>5, <2>14 DEF SendInv, DirectTypes, Taken
      <4> QED
        BY <2>3, <4>1
    <3> QED
      BY <2>13, <2>14, <3>1, EmptySeq
  <2>15. CASE tx # "read_failed"
    <3>1. Handed = written
      BY <2>4, <2>13, ConcatEmptySeq DEF Handed
    <3>2. \A i \in 1 .. Len(written) : written[i] = blocks[i]
      BY <2>1, <2>2, <3>1 DEF WholeBlocksInOrder
    <3>3. Len(written) = Len(blocks)
      BY <2>5, <2>13, <2>15
    <3>4. written = blocks
      <4>1. \A i \in 1 .. Len(blocks) : blocks[i] \in Seq(AnyCell)
        BY <2>13, <3>2, <3>3
      <4>2. blocks \in [1 .. Len(blocks) -> Seq(AnyCell)] /\ Len(blocks) \in Nat
        BY <2>13, <4>1, LenProperties
      <4>3. blocks \in Seq(Seq(AnyCell))
        BY <4>2, SeqDef
      <4> QED
        BY <2>13, <3>2, <3>3, <4>3, SeqEqual
    <3>5. Restored(blocks) = AsWritten(files)
      BY <2>1 DEF DirectInv, PacksEverything, Packs
    <3> QED
      BY <2>15, <3>4, <3>5
  <2> QED
    BY <2>14, <2>15
<1> QED
  BY <1>1, DirectInvariance, PTL
=============================================================================
