------------------------- MODULE LogBatching_proofs -------------------------
(***************************************************************************)
(* Proofs about the log accumulator, for every limit, every size of entry  *)
(* and any number of inserts and batches.  Bytes, Concat and GetAllBatches *)
(* are recursive functions: what they compute is proved by induction, as   *)
(* ProofLibrary provides it.                                               *)
(***************************************************************************)
EXTENDS LogBatching, ProofLibrary, FiniteSetTheorems, SequenceTheorems

-----------------------------------------------------------------------------
(* Bytes.                                                                  *)

\* g[n] is the length of the first n entries of s.
Sums(s, g) == g[0] = 0 /\ \A n \in 1..Len(s) : g[n] = g[n-1] + Size(s[n])

\* The equation Bytes solves.
SumEquation(s, N, g) == g = [n \in 0..N |-> IF n = 0 THEN 0 ELSE g[n-1] + Size(s[n])]

\* It has a solution.
LEMMA SumExists ==
  ASSUME NEW s, NEW N \in Nat
  PROVE  \E g : SumEquation(s, N, g)
<1> DEFINE T == {n \in Nat : \E g : SumEquation(s, n, g)}
<1>1. 0 \in T
  <2> DEFINE g == [n \in 0..0 |-> 0]
  <2>1. SumEquation(s, 0, g)
    BY DEF SumEquation
  <2> QED
    BY <2>1
<1>2. ASSUME NEW n \in 0..(N - 1), n \in T PROVE n + 1 \in T
  <2>1. PICK g : SumEquation(s, n, g)
    BY <1>2
  <2> DEFINE h == [m \in 0..(n + 1) |-> IF m = n + 1 THEN g[n] + Size(s[n + 1]) ELSE g[m]]
  <2>2. \A m \in 0..n : g[m] = IF m = 0 THEN 0 ELSE g[m-1] + Size(s[m])
    BY <2>1 DEF SumEquation
  <2>3. \A m \in 0..(n + 1) : h[m] = IF m = 0 THEN 0 ELSE h[m-1] + Size(s[m])
    <3> TAKE m \in 0..(n + 1)
    <3>1. CASE m = 0
      BY <2>2, <3>1
    <3>2. CASE m = n + 1
      <4>1. m # 0 /\ m - 1 = n /\ m - 1 \in 0..(n + 1) /\ m - 1 # n + 1
        BY <3>2
      <4>2. h[m] = g[n] + Size(s[n + 1]) /\ h[m-1] = g[n]
        BY <3>2, <4>1
      <4> QED
        BY <3>2, <4>1, <4>2
    <3>3. CASE m # 0 /\ m # n + 1
      <4>1. m \in 0..n /\ m - 1 \in 0..(n + 1) /\ m - 1 # n + 1
        BY <3>3
      <4>2. h[m] = g[m] /\ h[m-1] = g[m-1]
        BY <3>3, <4>1
      <4> QED
        BY <2>2, <3>3, <4>1, <4>2
    <3> QED
      BY <3>1, <3>2, <3>3
  <2> DEFINE k == [m \in 0..(n + 1) |-> IF m = 0 THEN 0 ELSE h[m-1] + Size(s[m])]
  <2>4. h = k
    BY <2>3
  <2>5. SumEquation(s, n + 1, h)
    BY <2>4 DEF SumEquation
  <2> QED
    BY <2>5
<1> HIDE DEF T
<1>3. \A n \in 0..N : n \in T
  BY <1>1, <1>2, CountUp
<1> QED
  BY <1>3 DEF T

\* Two solutions agree, so that any of them gives Bytes.
LEMMA BytesBy ==
  ASSUME NEW s, Len(s) \in Nat, NEW g, Sums(s, g)
  PROVE  Bytes(s) = g[Len(s)]
<1> DEFINE f == CHOOSE h : SumEquation(s, Len(s), h)
<1>1. Bytes(s) = f[Len(s)]
  BY DEF Bytes, SumEquation
<1>2. SumEquation(s, Len(s), f)
  BY SumExists
<1> HIDE DEF f
<1>3. \A n \in 0..Len(s) : f[n] = IF n = 0 THEN 0 ELSE f[n-1] + Size(s[n])
  BY <1>2 DEF SumEquation
<1> DEFINE T == {n \in 0..Len(s) : f[n] = g[n]}
<1>4. 0 \in T
  BY <1>3 DEF Sums
<1>5. ASSUME NEW n \in 0..(Len(s) - 1), n \in T PROVE n + 1 \in T
  <2>1. n + 1 \in 1..Len(s) /\ n + 1 \in 0..Len(s) /\ n + 1 # 0 /\ (n + 1) - 1 = n
    BY <1>5
  <2>2. f[n + 1] = f[n] + Size(s[n + 1])
    BY <1>3, <2>1
  <2>3. g[n + 1] = g[n] + Size(s[n + 1])
    BY <2>1 DEF Sums
  <2> QED
    BY <1>5, <2>1, <2>2, <2>3
<1> HIDE DEF T
<1>6. \A n \in 0..Len(s) : n \in T
  BY <1>4, <1>5, CountUp
<1> QED
  BY <1>1, <1>6 DEF T

\* The sums of the prefixes of any sequence.
LEMMA HasSums ==
  ASSUME NEW s, Len(s) \in Nat
  PROVE  \E g : Sums(s, g)
<1>1. PICK g : SumEquation(s, Len(s), g)
  BY SumExists
<1>2. \A n \in 0..Len(s) : g[n] = IF n = 0 THEN 0 ELSE g[n-1] + Size(s[n])
  BY <1>1 DEF SumEquation
<1>3. Sums(s, g)
  BY <1>2 DEF Sums
<1> QED
  BY <1>3

\* With natural sizes the sums are natural and grow.
LEMMA SumsGrow ==
  ASSUME NEW s, Len(s) \in Nat, \A i \in 1..Len(s) : Size(s[i]) \in Nat, NEW g, Sums(s, g)
  PROVE  /\ \A n \in 0..Len(s) : g[n] \in Nat
         /\ \A m, n \in 0..Len(s) : m <= n => g[m] <= g[n]
<1> DEFINE T == {n \in 0..Len(s) : \A m \in 0..n : g[m] \in Nat /\ g[m] <= g[n]}
<1>1. 0 \in T
  BY DEF Sums
<1>2. ASSUME NEW n \in 0..(Len(s) - 1), n \in T PROVE n + 1 \in T
  <2>1. n + 1 \in 1..Len(s) /\ n + 1 \in 0..Len(s) /\ (n + 1) - 1 = n /\ n \in 0..n
    BY <1>2
  <2>2. \A m \in 0..n : g[m] \in Nat /\ g[m] <= g[n]
    BY <1>2
  <2>3. g[n + 1] = g[n] + Size(s[n + 1]) /\ Size(s[n + 1]) \in Nat /\ g[n] \in Nat
    BY <2>1, <2>2 DEF Sums
  <2>4. g[n + 1] \in Nat /\ g[n] <= g[n + 1]
    BY <2>3
  <2>5. ASSUME NEW m \in 0..(n + 1) PROVE g[m] \in Nat /\ g[m] <= g[n + 1]
    <3>1. CASE m = n + 1
      BY <2>4, <3>1
    <3>2. CASE m \in 0..n
      BY <2>2, <2>3, <2>4, <3>2
    <3> QED
      BY <3>1, <3>2
  <2> QED
    BY <2>1, <2>5
<1> HIDE DEF T
<1>3. \A n \in 0..Len(s) : n \in T
  BY <1>1, <1>2, CountUp
<1> QED
  BY <1>3 DEF T

\* Bytes of the first k entries, of the rest, and of one entry more.
LEMMA BytesParts ==
  ASSUME NEW S, \A x \in S : Size(x) \in Nat, NEW s \in Seq(S)
  PROVE  /\ Bytes(<<>>) = 0
         /\ Bytes(s) \in Nat
         /\ \A e \in S : Bytes(Append(s, e)) = Bytes(s) + Size(e)
         /\ \A k \in 0..Len(s) :
              /\ Bytes(SubSeq(s, 1, k)) \in Nat /\ Bytes(SubSeq(s, k + 1, Len(s))) \in Nat
              /\ Bytes(s) = Bytes(SubSeq(s, 1, k)) + Bytes(SubSeq(s, k + 1, Len(s)))
         /\ \A j, k \in 0..Len(s) : j <= k => Bytes(SubSeq(s, 1, j)) <= Bytes(SubSeq(s, 1, k))
<1>0. Len(s) \in Nat /\ \A i \in 1..Len(s) : s[i] \in S /\ Size(s[i]) \in Nat
  OBVIOUS
<1>1. Bytes(<<>>) = 0
  <2> DEFINE g == [n \in {0} |-> 0]
  <2>1. Sums(<<>>, g)
    BY DEF Sums
  <2>2. Len(<<>>) = 0
    OBVIOUS
  <2> QED
    BY <2>1, <2>2, BytesBy
<1>2. PICK g : Sums(s, g)
  BY <1>0, HasSums
<1>3. Bytes(s) = g[Len(s)]
  BY <1>0, <1>2, BytesBy
<1>4. /\ \A n \in 0..Len(s) : g[n] \in Nat
      /\ \A m, n \in 0..Len(s) : m <= n => g[m] <= g[n]
  BY <1>0, <1>2, SumsGrow
<1>5. ASSUME NEW k \in 0..Len(s) PROVE Bytes(SubSeq(s, 1, k)) = g[k]
  <2>1. Len(SubSeq(s, 1, k)) = k /\ k \in Nat /\ \A i \in 1..k : SubSeq(s, 1, k)[i] = s[i]
    BY <1>0
  <2>2. Sums(SubSeq(s, 1, k), g)
    BY <1>0, <1>2, <2>1 DEF Sums
  <2> QED
    BY <2>1, <2>2, BytesBy
<1>6. ASSUME NEW k \in 0..Len(s) PROVE Bytes(SubSeq(s, k + 1, Len(s))) = g[Len(s)] - g[k]
  <2> DEFINE t == SubSeq(s, k + 1, Len(s))
             h == [n \in 0..(Len(s) - k) |-> g[k + n] - g[k]]
  <2>1. Len(t) = Len(s) - k /\ Len(s) - k \in Nat /\ \A i \in 1..(Len(s) - k) : t[i] = s[k + i]
    BY <1>0
  <2>2. \A n \in 0..(Len(s) - k) : k + n \in 0..Len(s) /\ h[n] = g[k + n] - g[k] /\ g[k + n] \in Nat
    BY <1>0, <1>4
  <2>3. h[0] = 0 /\ g[k] \in Nat
    BY <1>0, <1>4, <2>2
  <2>4. ASSUME NEW n \in 1..Len(t) PROVE h[n] = h[n-1] + Size(t[n])
    <3>1. n \in 0..(Len(s) - k) /\ n - 1 \in 0..(Len(s) - k) /\ k + n \in 1..Len(s) /\ (k + n) - 1 = k + (n - 1)
      BY <1>0, <2>1
    <3>2. g[k + n] = g[(k + n) - 1] + Size(s[k + n])
      BY <1>2, <3>1 DEF Sums
    <3>3. h[n] = g[k + n] - g[k] /\ h[n-1] = g[k + (n - 1)] - g[k] /\ t[n] = s[k + n] /\ Size(s[k + n]) \in Nat
      BY <1>0, <2>1, <2>2, <3>1
    <3>4. g[k + (n - 1)] \in Nat /\ g[k + n] = g[k + (n - 1)] + Size(s[k + n])
      BY <2>2, <3>1, <3>2
    <3> HIDE DEF h, t
    <3> QED
      BY <2>3, <3>3, <3>4
  <2> HIDE DEF h, t
  <2>5. Sums(t, h)
    BY <2>3, <2>4 DEF Sums
  <2>6. Bytes(t) = h[Len(t)]
    BY <2>1, <2>5, BytesBy
  <2>7. h[Len(t)] = g[Len(s)] - g[k]
    BY <1>0, <2>1, <2>2
  <2> QED
    BY <2>6, <2>7 DEF t
<1>7. ASSUME NEW e \in S PROVE Bytes(Append(s, e)) = Bytes(s) + Size(e)
  <2> DEFINE t == Append(s, e)
  <2>1. Len(t) = Len(s) + 1 /\ Len(t) \in Nat /\ t[Len(s) + 1] = e /\ \A i \in 1..Len(s) : t[i] = s[i]
    BY <1>0
  <2> HIDE DEF t
  <2>2. PICK h : Sums(t, h)
    BY <2>1, HasSums
  <2>3. Sums(s, h)
    BY <1>0, <2>1, <2>2 DEF Sums
  <2>4. Bytes(t) = h[Len(s) + 1] /\ Bytes(s) = h[Len(s)]
    BY <1>0, <2>1, <2>2, <2>3, BytesBy
  <2>5. Len(s) + 1 \in 1..Len(t) /\ (Len(s) + 1) - 1 = Len(s)
    BY <1>0, <2>1
  <2>6. h[Len(s) + 1] = h[Len(s)] + Size(e)
    BY <2>1, <2>2, <2>5 DEF Sums
  <2> QED
    BY <2>4, <2>6 DEF t
<1>8. Bytes(s) \in Nat
  BY <1>0, <1>3, <1>4
<1>9. ASSUME NEW k \in 0..Len(s)
      PROVE  /\ Bytes(SubSeq(s, 1, k)) \in Nat /\ Bytes(SubSeq(s, k + 1, Len(s))) \in Nat
             /\ Bytes(s) = Bytes(SubSeq(s, 1, k)) + Bytes(SubSeq(s, k + 1, Len(s)))
  <2>1. g[k] \in Nat /\ g[Len(s)] \in Nat /\ g[k] <= g[Len(s)]
    BY <1>0, <1>4
  <2> QED
    BY <1>3, <1>5, <1>6, <2>1
<1>10. \A j, k \in 0..Len(s) : j <= k => Bytes(SubSeq(s, 1, j)) <= Bytes(SubSeq(s, 1, k))
  BY <1>4, <1>5
<1> QED
  BY <1>1, <1>7, <1>8, <1>9, <1>10

-----------------------------------------------------------------------------
(* get_batch.                                                              *)

Small(S) == {x \in S : ~TooLarge(x)}

\* get_batch takes as many entries as fit, and at least one of a queue that
\* has any.
LEMMA BatchLengthIs ==
  ASSUME LimitsOK, NEW S, \A x \in S : Size(x) \in Nat, NEW s \in Seq(Small(S))
  PROVE  /\ BatchLength(s) \in 0..Len(s)
         /\ \A k \in 1..BatchLength(s) : Fits(s, k)
         /\ BatchLength(s) = Len(s) \/ ~Fits(s, BatchLength(s) + 1)
         /\ s # <<>> => BatchLength(s) >= 1
<1> DEFINE Full(n) == (\A k \in 1..n : Fits(s, k)) /\ (n = Len(s) \/ ~Fits(s, n + 1))
           T == {n \in 0..Len(s) : n = Len(s) \/ ~Fits(s, n + 1)}
<1>0. Len(s) \in Nat
  OBVIOUS
<1>1. PICK m \in T : \A n \in T : m <= n
  <2>1. T \in SUBSET Nat /\ Len(s) \in T
    BY <1>0
  <2> QED
    BY <2>1, LeastNumber
<1>2. m \in 0..Len(s) /\ Full(m)
  <2>1. m \in 0..Len(s) /\ (m = Len(s) \/ ~Fits(s, m + 1))
    OBVIOUS
  <2>2. ASSUME NEW k \in 1..m PROVE Fits(s, k)
    <3>1. k - 1 \in 0..Len(s) /\ ~(m <= k - 1) /\ (k - 1) + 1 = k
      BY <1>0, <2>1
    <3>2. k - 1 \notin T
      BY <1>1, <3>1
    <3> QED
      BY <3>1, <3>2
  <2> QED
    BY <2>1, <2>2
<1>3. BatchLength(s) = CHOOSE n \in 0..Len(s) : Full(n)
  BY DEF BatchLength
<1> HIDE DEF T
<1>4. BatchLength(s) \in 0..Len(s) /\ Full(BatchLength(s))
  <2> HIDE DEF Full
  <2> QED
    BY <1>2, <1>3
<1>5. ASSUME s # <<>> PROVE BatchLength(s) >= 1
  <2>1. Len(s) >= 1 /\ s[1] \in S /\ Size(s[1]) <= MaxLog /\ Size(s[1]) \in Nat
    <3>1. Len(s) >= 1 /\ s[1] \in Small(S)
      BY <1>5
    <3> QED
      BY <3>1 DEF Small, TooLarge, LimitsOK
  <2>t. PICK t \in Seq(S) : t = SubSeq(s, 1, 1) /\ Len(t) = 1 /\ t[1] = s[1]
    <3>1. s \in Seq(S)
      BY DEF Small
    <3>2. SubSeq(s, 1, 1) \in Seq(S) /\ Len(SubSeq(s, 1, 1)) = 1 /\ SubSeq(s, 1, 1)[1] = s[1]
      BY <1>0, <2>1, <3>1
    <3> QED
      BY <3>2
  <2>2. Len(t) = 1 /\ t[1] = s[1] /\ Len(t) \in Nat
    BY <2>t
  <2>3. PICK g : Sums(t, g)
    BY <2>2, HasSums
  <2>4. WireSize(t) = Size(s[1]) + 2
    <3>1. Bytes(t) = g[1]
      <4>1. Bytes(t) = g[Len(t)]
        BY <2>2, <2>3, BytesBy
      <4> QED
        BY <2>2, <4>1
    <3>2. 1 \in 1..Len(t) /\ 1 - 1 = 0
      BY <2>2
    <3>3. g[1] = g[0] + Size(s[1]) /\ g[0] = 0
      BY <2>2, <2>3, <3>2 DEF Sums
    <3>4. Len(<<>>) = 0
      OBVIOUS
    <3>5. t # <<>>
      BY <2>2, <3>4
    <3>6. WireSize(t) = Bytes(t) + 1 + 1
      BY <2>2, <3>5 DEF WireSize
    <3> QED
      BY <2>1, <3>1, <3>3, <3>6
  <2>5. Fits(s, 1)
    BY <2>1, <2>4, <2>t DEF Fits, LimitsOK
  <2>6. BatchLength(s) # 0
    BY <1>0, <1>4, <2>1, <2>5
  <2> QED
    BY <1>0, <1>4, <2>6
<1> QED
  BY <1>4, <1>5

\* The batch and what stays are the queue, cut in two.
LEMMA CutInTwo ==
  ASSUME LimitsOK, NEW S, \A x \in S : Size(x) \in Nat, NEW s \in Seq(Small(S))
  PROVE  /\ FirstBatch(s) \in Seq(Small(S)) /\ AfterFirstBatch(s) \in Seq(Small(S))
         /\ FirstBatch(s) \o AfterFirstBatch(s) = s
         /\ Len(FirstBatch(s)) = BatchLength(s)
         /\ Len(AfterFirstBatch(s)) = Len(s) - BatchLength(s)
         /\ \A i \in 1..BatchLength(s) : FirstBatch(s)[i] = s[i]
         /\ \A i \in 1..(Len(s) - BatchLength(s)) : AfterFirstBatch(s)[i] = s[BatchLength(s) + i]
         /\ Bytes(s) = Bytes(FirstBatch(s)) + Bytes(AfterFirstBatch(s))
         /\ Bytes(FirstBatch(s)) \in Nat /\ Bytes(AfterFirstBatch(s)) \in Nat
<1>1. PICK n \in 0..Len(s) : n = BatchLength(s)
  BY BatchLengthIs
<1>2. Len(s) \in Nat /\ s \in Seq(S)
  BY DEF Small
<1>3. FirstBatch(s) = SubSeq(s, 1, n) /\ AfterFirstBatch(s) = SubSeq(s, n + 1, Len(s))
  BY <1>1 DEF FirstBatch, AfterFirstBatch
<1>4. /\ SubSeq(s, 1, n) \in Seq(Small(S)) /\ Len(SubSeq(s, 1, n)) = n
      /\ \A i \in 1..n : SubSeq(s, 1, n)[i] = s[i]
  BY <1>2
<1>5. /\ SubSeq(s, n + 1, Len(s)) \in Seq(Small(S)) /\ Len(SubSeq(s, n + 1, Len(s))) = Len(s) - n
      /\ \A i \in 1..(Len(s) - n) : SubSeq(s, n + 1, Len(s))[i] = s[n + i]
  BY <1>2
<1>6. FirstBatch(s) \o AfterFirstBatch(s) = s
  <2>0. 1 \in 1..(Len(s) + 1) /\ n \in (1 - 1)..Len(s) /\ Len(s) \in n..Len(s)
    BY <1>2
  <2>1. SubSeq(s, 1, n) \o SubSeq(s, n + 1, Len(s)) = SubSeq(s, 1, Len(s))
    BY <1>2, <2>0, ConcatAdjacentSubSeq
  <2> QED
    BY <1>2, <1>3, <2>1, SubSeqFull
<1>7. /\ Bytes(s) = Bytes(FirstBatch(s)) + Bytes(AfterFirstBatch(s))
      /\ Bytes(FirstBatch(s)) \in Nat /\ Bytes(AfterFirstBatch(s)) \in Nat
  BY <1>2, <1>3, BytesParts
<1> QED
  BY <1>1, <1>3, <1>4, <1>5, <1>6, <1>7

\* A queue that is_full does not call full fits.
LEMMA NotFullFits ==
  ASSUME LimitsOK, NEW S, \A x \in S : Size(x) \in Nat, NEW s \in Seq(Small(S)),
         ~IsFull(Len(s), Bytes(s))
  PROVE  BatchLength(s) = Len(s)
<1>1. PICK n \in 0..Len(s) : n = BatchLength(s)
  BY BatchLengthIs
<1>2. Len(s) \in Nat /\ s \in Seq(S) /\ Bytes(s) \in Nat
  <2>1. Len(s) \in Nat /\ s \in Seq(S)
    BY DEF Small
  <2> QED
    BY <2>1, BytesParts
<1> SUFFICES ASSUME n < Len(s), ~Fits(s, n + 1) PROVE FALSE
  BY <1>1, BatchLengthIs
<1> DEFINE t == SubSeq(s, 1, n + 1)
<1>3. n + 1 \in 0..Len(s) /\ Len(s) \in 0..Len(s) /\ n + 1 <= Len(s) /\ Len(s) # 0
  BY <1>2
<1>4. SubSeq(s, 1, Len(s)) = s
  BY <1>2
<1>5. Bytes(t) \in Nat /\ Bytes(t) <= Bytes(s)
  BY <1>2, <1>3, <1>4, BytesParts
<1>6. Len(t) = n + 1
  BY <1>2, <1>3
<1> HIDE DEF t
<1>7. WireSize(t) = Bytes(t) + Len(t) + 1
  <2>1. t # <<>>
    BY <1>6
  <2> QED
    BY <2>1 DEF WireSize
<1>8. Len(s) < MaxEntries /\ Bytes(s) + (Len(s) + 1) < MaxContent
  BY <1>2, <1>3 DEF IsFull, LimitsOK
<1>9. n + 1 <= MaxEntries /\ WireSize(t) <= MaxContent
  BY <1>2, <1>3, <1>5, <1>6, <1>7, <1>8 DEF LimitsOK
<1> QED
  BY <1>9 DEF Fits, t

-----------------------------------------------------------------------------
(* The accumulator.                                                        *)

Accepted == Small(Sizes)

\* What was accepted is small enough for a batch of its own.
TypeOK ==
  /\ messages \in Seq(Accepted) /\ inserted \in Seq(Accepted)
  /\ batches \in Seq(Seq(Accepted))

IndInv == TypeOK /\ SizeAccurate /\ BatchesInOrder /\ BatchesFit

\* An empty accumulator.
LEMMA InitIndInv == ASSUME ConstantsOK, Init PROVE IndInv
<1>0. messages = <<>> /\ currentSize = 0 /\ inserted = <<>> /\ batches = <<>>
  BY DEF Init
<1>1. TypeOK
  BY <1>0 DEF TypeOK
<1>2. \A x \in Sizes : Size(x) \in Nat
  BY DEF ConstantsOK
<1>3. SizeAccurate
  <2>1. <<>> \in Seq(Sizes)
    OBVIOUS
  <2>2. Bytes(<<>>) = 0
    BY <1>2, <2>1, BytesParts
  <2> QED
    BY <1>0, <2>2 DEF SizeAccurate
<1>4. BatchesInOrder
  <2>1. <<>> \in Seq(Seq(Sizes)) /\ <<>> \in Seq(Sizes)
    OBVIOUS
  <2>2. Concat(<<>>) = <<>>
    BY <2>1, ConcatGrows
  <2>3. <<>> \o <<>> = <<>>
    OBVIOUS
  <2> QED
    BY <1>0, <2>2, <2>3 DEF BatchesInOrder
<1>5. BatchesFit
  BY <1>0 DEF BatchesFit
<1> QED
  BY <1>1, <1>3, <1>4, <1>5 DEF IndInv

\* insert.
LEMMA InsertIndInv ==
  ASSUME ConstantsOK, IndInv, NEW n \in Sizes, Insert(n)
  PROVE  IndInv'
<1> USE DEF IndInv
<1>0. /\ messages' = Append(messages, n) /\ currentSize' = currentSize + n
      /\ inserted' = Append(inserted, n) /\ batches' = batches /\ n \in Accepted
  BY DEF Insert, Accepted, Small
<1>1. \A x \in Sizes : Size(x) \in Nat /\ Size(x) = x
  BY DEF ConstantsOK
<1>2. messages' \in Seq(Accepted) /\ inserted' \in Seq(Accepted)
  BY <1>0 DEF TypeOK
<1>3. TypeOK'
  BY <1>0, <1>2 DEF TypeOK
<1>4. SizeAccurate'
  <2>1. messages \in Seq(Sizes)
    BY DEF TypeOK, Accepted, Small
  <2>2. Bytes(messages') = Bytes(messages) + n
    BY <1>0, <1>1, <2>1, BytesParts
  <2> QED
    BY <1>0, <2>2 DEF SizeAccurate
<1>5. BatchesInOrder'
  <2>1. messages \in Seq(Accepted) /\ batches \in Seq(Seq(Accepted)) /\ Concat(batches) \o messages = inserted
    BY DEF TypeOK, BatchesInOrder
  <2>2. PICK c \in Seq(Accepted) : c = Concat(batches)
    BY <2>1, ConcatGrows
  <2>3. inserted \in Seq(Accepted) /\ c \o messages = inserted
    BY <2>1, <2>2 DEF TypeOK
  <2>4. Append(messages, n) = messages \o <<n>> /\ Append(inserted, n) = inserted \o <<n>>
    BY <1>0, <2>1, <2>3, AppendIsConcat
  <2>5. <<n>> \in Seq(Accepted)
    BY <1>0
  <2>6. (c \o messages) \o <<n>> = c \o (messages \o <<n>>)
    BY <2>1, <2>5, ConcatAssociative
  <2> QED
    BY <1>0, <2>2, <2>3, <2>4, <2>6 DEF BatchesInOrder
<1>6. BatchesFit'
  BY <1>0 DEF BatchesFit
<1> QED
  BY <1>3, <1>4, <1>5, <1>6

\* get_batch.
LEMMA GetBatchIndInv ==
  ASSUME ConstantsOK, IndInv, GetBatch
  PROVE  IndInv'
<1> USE DEF IndInv
<1>0. /\ messages # <<>> /\ batches' = Append(batches, FirstBatch(messages))
      /\ messages' = AfterFirstBatch(messages) /\ inserted' = inserted
      /\ currentSize' = SaturatingSub(currentSize, Bytes(FirstBatch(messages)))
  BY DEF GetBatch
<1>1. LimitsOK /\ \A x \in Sizes : Size(x) \in Nat
  BY DEF ConstantsOK
<1>2. messages \in Seq(Accepted) /\ batches \in Seq(Seq(Accepted)) /\ inserted \in Seq(Accepted)
  BY DEF TypeOK
<1>3. PICK f \in Seq(Accepted) : f = FirstBatch(messages)
  BY <1>1, <1>2, CutInTwo DEF Accepted
<1>4. PICK r \in Seq(Accepted) : r = AfterFirstBatch(messages)
  BY <1>1, <1>2, CutInTwo DEF Accepted
<1>5. /\ f \o r = messages /\ Len(f) = BatchLength(messages)
      /\ Bytes(messages) = Bytes(f) + Bytes(r) /\ Bytes(f) \in Nat /\ Bytes(r) \in Nat
  BY <1>1, <1>2, <1>3, <1>4, CutInTwo DEF Accepted
<1>6. TypeOK'
  <2>1. batches' \in Seq(Seq(Accepted))
    BY <1>0, <1>2, <1>3
  <2> QED
    BY <1>0, <1>2, <1>4, <2>1 DEF TypeOK
<1>7. SizeAccurate'
  <2>1. currentSize = Bytes(f) + Bytes(r)
    BY <1>5 DEF SizeAccurate
  <2>2. SaturatingSub(currentSize, Bytes(f)) = Bytes(r)
    BY <1>5, <2>1 DEF SaturatingSub
  <2> QED
    BY <1>0, <1>3, <1>4, <2>2 DEF SizeAccurate
<1>8. BatchesInOrder'
  <2>1. PICK c \in Seq(Accepted) : c = Concat(batches)
    BY <1>2, ConcatGrows
  <2>2. Concat(batches') = c \o f
    BY <1>0, <1>2, <1>3, <2>1, ConcatGrows
  <2>3. (c \o f) \o r = c \o (f \o r)
    BY ConcatAssociative
  <2> QED
    BY <1>0, <1>4, <1>5, <2>1, <2>2, <2>3 DEF BatchesInOrder
<1>9. BatchesFit'
  <2>1. PICK n \in Nat : n = Len(f) /\ n = BatchLength(messages)
    BY <1>5
  <2>2. n >= 1 /\ \A k \in 1..n : Fits(messages, k)
    BY <1>0, <1>1, <1>2, <2>1, BatchLengthIs DEF Accepted
  <2>3. n \in 1..n
    BY <2>2
  <2>4. Fits(messages, n)
    BY <2>2, <2>3
  <2>5. f = SubSeq(messages, 1, n)
    BY <1>3, <2>1 DEF FirstBatch
  <2>6. Len(f) \in 1..MaxEntries /\ WireSize(f) <= MaxContent
    BY <1>1, <2>1, <2>2, <2>4, <2>5 DEF Fits, LimitsOK
  <2>7. /\ DOMAIN batches' = 1..(Len(batches) + 1) /\ DOMAIN batches = 1..Len(batches) /\ Len(batches) \in Nat
        /\ batches'[Len(batches) + 1] = f
        /\ \A i \in DOMAIN batches : batches'[i] = batches[i]
    BY <1>0, <1>2, <1>3
  <2>8. ASSUME NEW i \in DOMAIN batches'
        PROVE  Len(batches'[i]) \in 1..MaxEntries /\ WireSize(batches'[i]) <= MaxContent
    <3>1. CASE i = Len(batches) + 1
      BY <2>6, <2>7, <3>1
    <3>2. CASE i \in DOMAIN batches
      BY <2>7, <3>2 DEF BatchesFit
    <3> QED
      BY <2>7, <3>1, <3>2
  <2> QED
    BY <2>8 DEF BatchesFit
<1> QED
  BY <1>6, <1>7, <1>8, <1>9

\* The strengthening is an invariant.
THEOREM Invariance == Spec => []IndInv
<1>1. Init => IndInv
  BY InitIndInv, LogBatchingAssumption
<1>2. IndInv /\ [Next]_vars => IndInv'
  <2> SUFFICES ASSUME IndInv, [Next]_vars PROVE IndInv'
    OBVIOUS
  <2>1. CASE GetBatch
    BY <2>1, GetBatchIndInv, LogBatchingAssumption
  <2>2. ASSUME NEW n \in Sizes, Insert(n) PROVE IndInv'
    BY <2>2, InsertIndInv, LogBatchingAssumption
  <2>3. CASE UNCHANGED vars
    BY <2>3 DEF vars, IndInv, TypeOK, SizeAccurate, BatchesInOrder, BatchesFit
  <2> QED
    BY <2>1, <2>2, <2>3 DEF Next
<1> QED
  BY <1>1, <1>2, PTL DEF Spec

\* However inserts and batches alternate and whatever the limits and the sizes
\* are: the recorded size is exact, entries come out once and in order, no batch
\* is empty or over a limit on the wire, and a queue is_full does not call full
\* goes out in one batch (aggregator/core.rs: insert, get_batch, is_full).
THEOREM AccumulatorExact == Spec => []LogBatchesExact
<1>1. IndInv => LogBatchesExact
  <2> SUFFICES ASSUME IndInv PROVE NotFullIsOneBatch
    BY DEF IndInv, LogBatchesExact
  <2>1. LimitsOK /\ \A x \in Sizes : Size(x) \in Nat
    BY LogBatchingAssumption DEF ConstantsOK
  <2>2. messages \in Seq(Small(Sizes)) /\ currentSize = Bytes(messages)
    BY DEF IndInv, TypeOK, SizeAccurate, Accepted
  <2> QED
    BY <2>1, <2>2, NotFullFits DEF NotFullIsOneBatch
<1> QED
  BY <1>1, Invariance, PTL

-----------------------------------------------------------------------------
(* get_all_batches, which the service of the log pipeline calls.           *)

\* The equation of the queues that stay behind, round by round.
RestEquation(s, g) == g = [n \in 0..Len(s) |-> IF n = 0 THEN s ELSE AfterFirstBatch(g[n-1])]
Rest(s) == CHOOSE g : RestEquation(s, g)

\* The recorded definition, in these terms.
LEMMA GetAllBatchesIs ==
  ASSUME NEW s
  PROVE  GetAllBatches(s)
           = [n \in 1..Cardinality({m \in 0..Len(s) : Rest(s)[m] # <<>>}) |-> FirstBatch(Rest(s)[n-1])]
  BY DEF GetAllBatches, Rest, RestEquation

\* Each round leaves the end of the queue, and less of it while there is any.
LEMMA RestIs ==
  ASSUME LimitsOK, NEW S, \A x \in S : Size(x) \in Nat, NEW s \in Seq(Small(S))
  PROVE  /\ Rest(s)[0] = s
         /\ \A n \in 1..Len(s) : Rest(s)[n] = AfterFirstBatch(Rest(s)[n-1])
         /\ \A n \in 0..Len(s) :
              /\ Rest(s)[n] \in Seq(Small(S))
              /\ Len(Rest(s)[n]) <= Len(s) - n \/ Len(Rest(s)[n]) = 0
              /\ Len(Rest(s)[n]) <= Len(s)
              /\ \A j \in 1..Len(Rest(s)[n]) : Rest(s)[n][j] = s[Len(s) - Len(Rest(s)[n]) + j]
              /\ \A m \in 0..n : Len(Rest(s)[n]) <= Len(Rest(s)[m])
<1> DEFINE X == Seq(Small(S))
           F == [n \in 1..Len(s) |-> [x \in X |-> AfterFirstBatch(x)]]
<1>0. Len(s) \in Nat /\ s \in X
  OBVIOUS
<1>1. \A x \in X : AfterFirstBatch(x) \in X
  BY CutInTwo
<1> HIDE DEF X
<1>2. F \in [1..Len(s) -> [X -> X]] /\ \A n \in 1..Len(s) : \A x \in X : F[n][x] = AfterFirstBatch(x)
  BY <1>1
<1> HIDE DEF F
<1>3. \E g : RestEquation(s, g)
  <2>1. Solvable(Len(s), X, s, F)
    BY <1>0, <1>2, Recursion
  <2>2. PICK g \in [0..Len(s) -> X] : g[0] = s /\ \A n \in 1..Len(s) : g[n] = F[n][g[n-1]]
    BY <2>1 DEF Solvable
  <2>3. ASSUME NEW n \in 0..Len(s) PROVE g[n] = IF n = 0 THEN s ELSE AfterFirstBatch(g[n-1])
    <3>1. CASE n = 0
      BY <2>2, <3>1
    <3>2. CASE n # 0
      <4>1. n \in 1..Len(s) /\ n - 1 \in 0..Len(s)
        BY <1>0, <3>2
      <4>2. g[n-1] \in X
        BY <2>2, <4>1
      <4> QED
        BY <1>2, <2>2, <3>2, <4>1, <4>2
    <3> QED
      BY <3>1, <3>2
  <2> DEFINE k == [n \in 0..Len(s) |-> IF n = 0 THEN s ELSE AfterFirstBatch(g[n-1])]
  <2>4. g = k
    BY <2>2, <2>3
  <2>5. RestEquation(s, g)
    BY <2>4 DEF RestEquation
  <2> QED
    BY <2>5
<1>4. PICK r : r = Rest(s)
  OBVIOUS
<1>5. RestEquation(s, r)
  BY <1>3, <1>4 DEF Rest
<1>6. \A n \in 0..Len(s) : r[n] = IF n = 0 THEN s ELSE AfterFirstBatch(r[n-1])
  BY <1>5 DEF RestEquation
<1>7. r[0] = s
  BY <1>0, <1>6
<1>8. ASSUME NEW n \in 1..Len(s) PROVE r[n] = AfterFirstBatch(r[n-1])
  <2>1. n \in 0..Len(s) /\ n # 0
    BY <1>0
  <2> QED
    BY <1>6, <2>1
<1> DEFINE Ok(n) == /\ r[n] \in X
                    /\ Len(r[n]) <= Len(s) - n \/ Len(r[n]) = 0
                    /\ Len(r[n]) <= Len(s)
                    /\ \A j \in 1..Len(r[n]) : r[n][j] = s[Len(s) - Len(r[n]) + j]
                    /\ \A m \in 0..n : Len(r[m]) \in Nat /\ Len(r[n]) <= Len(r[m])
           T == {n \in 0..Len(s) : Ok(n)}
<1>9. 0 \in T
  <2>1. 0 \in 0..Len(s)
    BY <1>0
  <2>2. Len(s) <= Len(s) - 0 /\ Len(s) <= Len(s)
    BY <1>0
  <2>3. \A j \in 1..Len(s) : Len(s) - Len(s) + j = j
    BY <1>0
  <2>4. \A m \in 0..0 : m = 0
    OBVIOUS
  <2>5. Ok(0)
    BY <1>0, <1>7, <2>2, <2>3, <2>4
  <2> QED
    BY <2>1, <2>5
<1>10. ASSUME NEW n \in 0..(Len(s) - 1), n \in T PROVE n + 1 \in T
  <2>1. n + 1 \in 1..Len(s) /\ n + 1 \in 0..Len(s) /\ (n + 1) - 1 = n /\ n \in Nat /\ n \in 0..n
    BY <1>0
  <2>2. PICK q \in X : q = r[n]
    BY <1>10
  <2>3. /\ Len(q) \in Nat /\ (Len(q) <= Len(s) - n \/ Len(q) = 0) /\ Len(q) <= Len(s)
        /\ \A j \in 1..Len(q) : q[j] = s[Len(s) - Len(q) + j]
        /\ \A m \in 0..n : Len(r[m]) \in Nat /\ Len(q) <= Len(r[m])
    BY <1>10, <2>1, <2>2
  <2>4. PICK b \in 0..Len(q) : b = BatchLength(q) /\ (q # <<>> => b >= 1)
    BY <2>2, BatchLengthIs DEF X
  <2>5. PICK t \in X : t = r[n + 1]
    BY <1>1, <1>8, <2>1, <2>2
  <2>6. t = AfterFirstBatch(q)
    BY <1>8, <2>1, <2>2, <2>5
  <2>7. Len(t) = Len(q) - b /\ Len(t) \in Nat /\ \A i \in 1..Len(t) : t[i] = q[b + i]
    <3>1. /\ Len(t) = Len(q) - BatchLength(q)
          /\ \A i \in 1..(Len(q) - BatchLength(q)) : t[i] = q[BatchLength(q) + i]
      BY <2>6, CutInTwo DEF X
    <3>2. Len(t) = Len(q) - b /\ \A i \in 1..(Len(q) - b) : t[i] = q[b + i]
      BY <2>4, <3>1
    <3> QED
      BY <2>3, <3>2
  <2>8. Len(t) <= Len(s) - (n + 1) \/ Len(t) = 0
    <3>1. CASE q = <<>>
      <4>1. Len(q) = 0
        BY <3>1
      <4> QED
        BY <2>4, <2>7, <4>1
    <3>2. CASE q # <<>>
      BY <1>0, <2>1, <2>3, <2>4, <2>7, <3>2
    <3> QED
      BY <3>1, <3>2
  <2>9. ASSUME NEW j \in 1..Len(t) PROVE t[j] = s[Len(s) - Len(t) + j]
    <3>1. b + j \in 1..Len(q) /\ Len(s) - Len(q) + (b + j) = Len(s) - Len(t) + j
      BY <1>0, <2>3, <2>4, <2>7, SMTT(60)
    <3>2. q[b + j] = s[Len(s) - Len(q) + (b + j)]
      BY <2>3, <3>1
    <3> QED
      BY <2>7, <3>1, <3>2
  <2>10. ASSUME NEW m \in 0..(n + 1) PROVE Len(r[m]) \in Nat /\ Len(t) <= Len(r[m])
    <3>1. CASE m = n + 1
      BY <2>5, <2>7, <3>1
    <3>2. CASE m \in 0..n
      BY <2>3, <2>4, <2>7, <3>2
    <3> QED
      BY <2>1, <3>1, <3>2
  <2>11. Len(t) <= Len(s)
    BY <1>0, <2>3, <2>4, <2>7
  <2>12. Ok(n + 1)
    BY <2>5, <2>8, <2>9, <2>10, <2>11
  <2> QED
    BY <2>1, <2>12
<1> HIDE DEF T
<1>11. \A n \in 0..Len(s) : n \in T
  BY <1>0, <1>9, <1>10, CountUp
<1>12. \A n \in 0..Len(s) : Ok(n)
  BY <1>11 DEF T
<1> QED
  BY <1>4, <1>7, <1>8, <1>12 DEF X

\* get_all_batches cuts the queue at places off[0] <= off[1] <= ... <= off[c].
LEMMA AllBatchesCut ==
  ASSUME LimitsOK, NEW S, \A x \in S : Size(x) \in Nat, NEW s \in Seq(Small(S))
  PROVE  \E c \in Nat : \E off \in [0..c -> 0..Len(s)] :
           /\ DOMAIN GetAllBatches(s) = 1..c
           /\ off[0] = 0 /\ off[c] = Len(s)
           /\ \A m, n \in 0..c : m <= n => off[m] <= off[n]
           /\ \A n \in 1..c :
                /\ GetAllBatches(s)[n] \in Seq(Small(S)) /\ GetAllBatches(s)[n] # <<>>
                /\ Len(GetAllBatches(s)[n]) = off[n] - off[n-1]
                /\ \A j \in 1..(off[n] - off[n-1]) : GetAllBatches(s)[n][j] = s[off[n-1] + j]
<1> DEFINE X == Seq(Small(S))
<1>0. Len(s) \in Nat /\ s \in X
  OBVIOUS
<1>r. PICK r : r = Rest(s)
  OBVIOUS
<1>1. /\ r[0] = s
      /\ \A n \in 1..Len(s) : r[n] = AfterFirstBatch(r[n-1])
  BY <1>r, RestIs
<1>2. ASSUME NEW n \in 0..Len(s)
      PROVE  /\ r[n] \in X /\ (Len(r[n]) <= Len(s) - n \/ Len(r[n]) = 0) /\ Len(r[n]) <= Len(s)
             /\ \A j \in 1..Len(r[n]) : r[n][j] = s[Len(s) - Len(r[n]) + j]
             /\ \A m \in 0..n : Len(r[n]) <= Len(r[m])
  <2>1. r[n] \in X
    BY <1>r, RestIs
  <2>2. Len(r[n]) <= Len(s) - n \/ Len(r[n]) = 0
    <3>1. Len(Rest(s)[n]) <= Len(s) - n \/ Len(Rest(s)[n]) = 0
      BY RestIs, Zenon
    <3> QED
      BY <1>r, <3>1
  <2>3. Len(r[n]) <= Len(s)
    BY <1>r, RestIs
  <2>4. \A j \in 1..Len(r[n]) : r[n][j] = s[Len(s) - Len(r[n]) + j]
    <3>1. \A j \in 1..Len(Rest(s)[n]) : Rest(s)[n][j] = s[Len(s) - Len(Rest(s)[n]) + j]
      BY RestIs, Zenon
    <3> QED
      BY <1>r, <3>1
  <2>5. \A m \in 0..n : Len(r[n]) <= Len(r[m])
    BY <1>r, RestIs
  <2> QED
    BY <2>1, <2>2, <2>3, <2>4, <2>5
<1>3. \A x \in X : Len(x) \in Nat /\ (x = <<>> <=> Len(x) = 0)
  OBVIOUS
<1> HIDE DEF X
<1>4. \A n \in 0..Len(s) : Len(r[n]) \in Nat /\ (r[n] = <<>> <=> Len(r[n]) = 0)
  BY <1>2, <1>3
<1> DEFINE T == {n \in 0..Len(s) : Len(r[n]) = 0}
<1>5. PICK c \in T : \A n \in T : c <= n
  <2>1. Len(s) \in T
    <3>1. Len(s) \in 0..Len(s) /\ Len(s) - Len(s) = 0
      BY <1>0
    <3>2. Len(r[Len(s)]) \in Nat /\ (Len(r[Len(s)]) <= Len(s) - Len(s) \/ Len(r[Len(s)]) = 0)
      BY <1>2, <1>4, <3>1
    <3>3. Len(r[Len(s)]) = 0
      BY <3>1, <3>2
    <3> QED
      BY <3>1, <3>3
  <2>2. T \in SUBSET Nat
    BY <1>0
  <2> QED
    BY <2>1, <2>2, LeastNumber
<1>6. c \in 0..Len(s) /\ Len(r[c]) = 0 /\ \A n \in 0..(c - 1) : Len(r[n]) # 0
  <2>1. c \in 0..Len(s) /\ Len(r[c]) = 0
    OBVIOUS
  <2>2. \A n \in 0..(c - 1) : n \in 0..Len(s) /\ ~(c <= n)
    BY <1>0, <2>1
  <2> QED
    BY <1>5, <2>1, <2>2
<1> HIDE DEF T
<1>7. {m \in 0..Len(s) : r[m] # <<>>} = 0..(c - 1)
  <2>1. ASSUME NEW m \in 0..(c - 1) PROVE m \in 0..Len(s) /\ r[m] # <<>>
    BY <1>0, <1>4, <1>6
  <2>2. ASSUME NEW m \in 0..Len(s), r[m] # <<>> PROVE m \in 0..(c - 1)
    <3> SUFFICES ASSUME c <= m PROVE FALSE
      BY <1>0, <1>6
    <3>1. c \in 0..m
      BY <1>0, <1>6
    <3>2. Len(r[m]) <= Len(r[c])
      BY <1>2, <3>1
    <3> QED
      BY <1>4, <1>6, <2>2, <3>2
  <2> QED
    BY <2>1, <2>2
<1>8. Cardinality(0..(c - 1)) = c
  BY <1>6, FS_Interval
<1>9. GetAllBatches(s) = [n \in 1..c |-> FirstBatch(r[n-1])]
  BY <1>r, <1>7, <1>8, GetAllBatchesIs
<1> DEFINE off == [n \in 0..c |-> Len(s) - Len(r[n])]
<1>10. ASSUME NEW n \in 0..c
       PROVE  n \in 0..Len(s) /\ off[n] = Len(s) - Len(r[n]) /\ off[n] \in 0..Len(s)
  <2>1. n \in 0..Len(s)
    BY <1>0, <1>6
  <2>2. off[n] = Len(s) - Len(r[n])
    OBVIOUS
  <2>3. Len(r[n]) \in Nat /\ Len(r[n]) <= Len(s)
    BY <1>2, <1>4, <2>1
  <2>4. Len(s) - Len(r[n]) \in 0..Len(s)
    BY <1>0, <2>3
  <2> QED
    BY <2>1, <2>2, <2>4
<1>11. off \in [0..c -> 0..Len(s)]
  BY <1>10
<1> HIDE DEF off
<1>12. off[0] = 0 /\ off[c] = Len(s)
  BY <1>0, <1>1, <1>6, <1>10
<1>13. ASSUME NEW m \in 0..c, NEW n \in 0..c, m <= n PROVE off[m] <= off[n]
  <2>1. m \in 0..n /\ n \in 0..Len(s) /\ m \in 0..Len(s)
    BY <1>10, <1>13
  <2>2. Len(r[n]) <= Len(r[m]) /\ Len(r[n]) \in Nat /\ Len(r[m]) \in Nat
    BY <1>2, <1>4, <2>1
  <2> QED
    BY <1>0, <1>10, <2>2
<1>14. ASSUME NEW n \in 1..c
       PROVE  /\ GetAllBatches(s)[n] \in X /\ GetAllBatches(s)[n] # <<>>
              /\ Len(GetAllBatches(s)[n]) = off[n] - off[n-1]
              /\ \A j \in 1..(off[n] - off[n-1]) : GetAllBatches(s)[n][j] = s[off[n-1] + j]
  <2>1. n - 1 \in 0..(c - 1) /\ n - 1 \in 0..c /\ n \in 0..c /\ n \in 1..Len(s) /\ n - 1 \in 0..Len(s)
    BY <1>0, <1>6
  <2>2. PICK q \in X : q = r[n-1]
    BY <1>2, <2>1
  <2>3. /\ Len(q) \in Nat /\ Len(q) # 0 /\ q # <<>> /\ Len(q) <= Len(s)
        /\ \A j \in 1..Len(q) : q[j] = s[Len(s) - Len(q) + j]
    BY <1>2, <1>4, <1>6, <2>1, <2>2, ZenonT(60)
  <2>4. PICK b \in 0..Len(q) : b = BatchLength(q) /\ b >= 1
    BY <2>3, BatchLengthIs DEF X
  <2>5. PICK f \in X : f = FirstBatch(q)
    BY CutInTwo DEF X
  <2>6. Len(f) = b /\ \A i \in 1..b : f[i] = q[i]
    BY <2>4, <2>5, CutInTwo DEF X
  <2>7. Len(r[n]) = Len(q) - b
    BY <1>1, <2>1, <2>2, <2>4, CutInTwo DEF X
  <2>8. off[n-1] = Len(s) - Len(q) /\ off[n] - off[n-1] = b
    <3>1. off[n-1] = Len(s) - Len(q) /\ off[n] = Len(s) - (Len(q) - b)
      BY <1>10, <2>1, <2>2, <2>7
    <3> QED
      BY <1>0, <2>3, <2>4, <3>1
  <2>9. GetAllBatches(s)[n] = f
    BY <1>9, <2>2, <2>5
  <2>10. f # <<>>
    BY <1>3, <2>4, <2>6
  <2>11. ASSUME NEW j \in 1..b PROVE f[j] = s[off[n-1] + j]
    <3>1. j \in 1..Len(q)
      BY <2>3, <2>4
    <3> QED
      BY <2>3, <2>6, <2>8, <3>1
  <2> QED
    BY <2>6, <2>8, <2>9, <2>10, <2>11
<1>15. DOMAIN GetAllBatches(s) = 1..c /\ c \in Nat
  BY <1>0, <1>6, <1>9
<1> QED
  BY <1>11, <1>12, <1>13, <1>14, <1>15 DEF X

\* get_all_batches hands out the entries of the queue and no others; if those
\* differ, two batches have none in common.
LEMMA AllBatchesSplit ==
  ASSUME LimitsOK, NEW S, \A x \in S : Size(x) \in Nat, NEW s \in Seq(Small(S))
  PROVE  /\ \A n \in DOMAIN GetAllBatches(s) :
              GetAllBatches(s)[n] \in Seq(Small(S)) /\ GetAllBatches(s)[n] # <<>>
         /\ \A n \in DOMAIN GetAllBatches(s) : \A j \in DOMAIN GetAllBatches(s)[n] :
              \E i \in DOMAIN s : s[i] = GetAllBatches(s)[n][j]
         /\ \A i \in DOMAIN s : \E n \in DOMAIN GetAllBatches(s) :
              \E j \in DOMAIN GetAllBatches(s)[n] : s[i] = GetAllBatches(s)[n][j]
         /\ (\A i, j \in DOMAIN s : s[i] = s[j] => i = j) =>
              \A m, n \in DOMAIN GetAllBatches(s) :
                \A j \in DOMAIN GetAllBatches(s)[m], k \in DOMAIN GetAllBatches(s)[n] :
                  GetAllBatches(s)[m][j] = GetAllBatches(s)[n][k] => m = n
<1>0. Len(s) \in Nat /\ DOMAIN s = 1..Len(s)
  OBVIOUS
<1>b. PICK bs : bs = GetAllBatches(s)
  OBVIOUS
<1>1. PICK c \in Nat : \E off \in [0..c -> 0..Len(s)] :
           /\ DOMAIN bs = 1..c
           /\ off[0] = 0 /\ off[c] = Len(s)
           /\ \A m, n \in 0..c : m <= n => off[m] <= off[n]
           /\ \A n \in 1..c :
                /\ bs[n] \in Seq(Small(S)) /\ bs[n] # <<>>
                /\ Len(bs[n]) = off[n] - off[n-1]
                /\ \A j \in 1..(off[n] - off[n-1]) : bs[n][j] = s[off[n-1] + j]
  BY <1>b, AllBatchesCut, SMTT(60)
<1>2. PICK off \in [0..c -> 0..Len(s)] :
           /\ DOMAIN bs = 1..c
           /\ off[0] = 0 /\ off[c] = Len(s)
           /\ \A m, n \in 0..c : m <= n => off[m] <= off[n]
           /\ \A n \in 1..c :
                /\ bs[n] \in Seq(Small(S)) /\ bs[n] # <<>>
                /\ Len(bs[n]) = off[n] - off[n-1]
                /\ \A j \in 1..(off[n] - off[n-1]) : bs[n][j] = s[off[n-1] + j]
  BY <1>1
<1>3. \A n \in 0..c : off[n] \in Nat /\ off[n] <= Len(s)
  BY <1>0, <1>2
<1>4. \A n \in 1..c : n \in 0..c /\ n - 1 \in 0..c /\ n - 1 <= n
  OBVIOUS
<1>5. ASSUME NEW n \in 1..c, NEW j \in DOMAIN bs[n]
      PROVE  /\ j \in 1..(off[n] - off[n-1]) /\ bs[n][j] = s[off[n-1] + j]
             /\ off[n-1] + j \in 1..Len(s) /\ off[n-1] + j <= off[n] /\ off[n-1] < off[n-1] + j
  <2>1. bs[n] \in Seq(Small(S)) /\ Len(bs[n]) = off[n] - off[n-1]
    BY <1>2
  <2>2. j \in 1..(off[n] - off[n-1])
    BY <2>1
  <2>3. bs[n][j] = s[off[n-1] + j]
    BY <1>2, <2>2
  <2>4. off[n-1] \in Nat /\ off[n] \in Nat /\ off[n] <= Len(s)
    BY <1>3, <1>4
  <2> QED
    BY <1>0, <2>2, <2>3, <2>4
<1>6. ASSUME NEW i \in DOMAIN s PROVE \E n \in 1..c : \E j \in DOMAIN bs[n] : s[i] = bs[n][j]
  <2> DEFINE T == {n \in 0..c : i <= off[n]}
  <2>1. T \in SUBSET Nat /\ c \in T
    BY <1>0, <1>2
  <2>2. PICK n \in T : \A m \in T : n <= m
    BY <2>1, LeastNumber
  <2>3. n \in 0..c /\ i <= off[n] /\ i \in 1..Len(s)
    BY <1>0
  <2>4. n \in 1..c
    BY <1>2, <2>3
  <2>5. ~(i <= off[n-1])
    <3>1. n - 1 \in 0..c /\ ~(n <= n - 1)
      BY <2>4
    <3> QED
      BY <2>2, <3>1
  <2> HIDE DEF T
  <2>6. off[n-1] \in Nat /\ off[n] \in Nat
    BY <1>3, <1>4, <2>4
  <2>7. i - off[n-1] \in 1..(off[n] - off[n-1]) /\ off[n-1] + (i - off[n-1]) = i
    BY <2>3, <2>5, <2>6
  <2>8. bs[n][i - off[n-1]] = s[i]
    BY <1>2, <2>4, <2>7
  <2>9. i - off[n-1] \in DOMAIN bs[n]
    <3>1. bs[n] \in Seq(Small(S)) /\ Len(bs[n]) = off[n] - off[n-1]
      BY <1>2, <2>4
    <3>2. DOMAIN bs[n] = 1..(off[n] - off[n-1])
      BY <3>1
    <3> QED
      BY <2>7, <3>2
  <2> QED
    BY <2>4, <2>8, <2>9
<1>7. ASSUME \A i, j \in DOMAIN s : s[i] = s[j] => i = j,
             NEW m \in 1..c, NEW n \in 1..c, NEW j \in DOMAIN bs[m], NEW k \in DOMAIN bs[n],
             bs[m][j] = bs[n][k]
      PROVE  m = n
  <2>1. off[m-1] + j = off[n-1] + k
    BY <1>0, <1>5, <1>7, SMTT(60)
  <2>2. PICK p \in 1..Len(s) : p = off[m-1] + j
    BY <1>5
  <2>3. /\ off[m-1] < p /\ p <= off[m] /\ off[n-1] < p /\ p <= off[n]
        /\ off[m-1] \in Nat /\ off[m] \in Nat /\ off[n-1] \in Nat /\ off[n] \in Nat
    BY <1>3, <1>4, <1>5, <2>1, <2>2
  <2>4. ~(m <= n - 1)
    <3> SUFFICES ASSUME m <= n - 1 PROVE FALSE
      OBVIOUS
    <3>1. off[m] <= off[n-1]
      BY <1>2, <1>4
    <3> QED
      BY <2>2, <2>3, <3>1
  <2>5. ~(n <= m - 1)
    <3> SUFFICES ASSUME n <= m - 1 PROVE FALSE
      OBVIOUS
    <3>1. off[n] <= off[m-1]
      BY <1>2, <1>4
    <3> QED
      BY <2>2, <2>3, <3>1
  <2> QED
    BY <2>4, <2>5
<1>8. \A n \in DOMAIN bs : bs[n] \in Seq(Small(S)) /\ bs[n] # <<>>
  BY <1>2
<1>9. \A n \in DOMAIN bs : \A j \in DOMAIN bs[n] : \E i \in DOMAIN s : s[i] = bs[n][j]
  <2> TAKE n \in DOMAIN bs
  <2> TAKE j \in DOMAIN bs[n]
  <2>1. n \in 1..c
    BY <1>2
  <2>2. off[n-1] + j \in DOMAIN s /\ s[off[n-1] + j] = bs[n][j]
    BY <1>0, <1>5, <2>1
  <2> QED
    BY <2>2
<1> QED
  BY <1>b, <1>2, <1>6, <1>7, <1>8, <1>9

-----------------------------------------------------------------------------
(* insert_batch of the service.                                            *)

\* What a sequence holds, and that it holds nothing twice.
Elements(s) == {s[i] : i \in DOMAIN s}
Differ(s) == \A i, j \in DOMAIN s : s[i] = s[j] => i = j

\* One more entry.
LEMMA OneMore ==
  ASSUME NEW S, NEW t \in Seq(S), NEW e \in S
  PROVE  /\ Append(t, e) \in Seq(S) /\ Elements(Append(t, e)) = Elements(t) \cup {e}
         /\ Differ(t) /\ e \notin Elements(t) => Differ(Append(t, e))
<1> DEFINE u == Append(t, e)
<1>1. /\ u \in Seq(S) /\ DOMAIN t = 1..Len(t) /\ Len(t) \in Nat /\ Len(u) = Len(t) + 1
      /\ u[Len(t) + 1] = e /\ \A i \in 1..Len(t) : u[i] = t[i]
  OBVIOUS
<1>2. DOMAIN u = 1..(Len(t) + 1)
  BY <1>1
<1> HIDE DEF u
<1>3. Elements(u) = Elements(t) \cup {e}
  <2>1. ASSUME NEW x \in Elements(u) PROVE x \in Elements(t) \cup {e}
    <3>1. PICK i \in 1..(Len(t) + 1) : x = u[i]
      BY <1>2 DEF Elements
    <3>2. i \in 1..Len(t) \/ i = Len(t) + 1
      BY <1>1
    <3> QED
      BY <1>1, <3>1, <3>2 DEF Elements
  <2>2. ASSUME NEW x \in Elements(t) PROVE x \in Elements(u)
    <3>1. PICK i \in 1..Len(t) : x = t[i]
      BY <1>1 DEF Elements
    <3>2. i \in 1..(Len(t) + 1) /\ u[i] = x
      BY <1>1, <3>1
    <3> QED
      BY <1>2, <3>2 DEF Elements
  <2>3. Len(t) + 1 \in 1..(Len(t) + 1)
    BY <1>1
  <2>4. e \in Elements(u)
    BY <1>1, <1>2, <2>3 DEF Elements
  <2> QED
    BY <2>1, <2>2, <2>4
<1>4. ASSUME Differ(t), e \notin Elements(t) PROVE Differ(u)
  <2> SUFFICES ASSUME NEW i \in 1..(Len(t) + 1), NEW j \in 1..(Len(t) + 1), u[i] = u[j] PROVE i = j
    BY <1>2 DEF Differ
  <2>1. (i \in 1..Len(t) \/ i = Len(t) + 1) /\ (j \in 1..Len(t) \/ j = Len(t) + 1)
    BY <1>1
  <2>2. \A k \in 1..Len(t) : t[k] # e
    BY <1>1, <1>4 DEF Elements
  <2>3. CASE i \in 1..Len(t) /\ j \in 1..Len(t)
    BY <1>1, <1>4, <2>3 DEF Differ
  <2>4. CASE i = Len(t) + 1 /\ j \in 1..Len(t)
    BY <1>1, <2>2, <2>4
  <2>5. CASE i \in 1..Len(t) /\ j = Len(t) + 1
    BY <1>1, <2>2, <2>5
  <2> QED
    BY <2>1, <2>3, <2>4, <2>5
<1> QED
  BY <1>1, <1>3, <1>4 DEF u

\* The equation InsertAll solves.
InsertEquation(q, s, g) ==
  g = [n \in 0..Len(s) |-> IF n = 0 THEN q
                           ELSE IF TooLarge(s[n]) THEN g[n-1] ELSE Append(g[n-1], s[n])]

\* The queue gets the entries that are not too large, each once if all differ.
LEMMA InsertAllIs ==
  ASSUME NEW S, NEW q \in Seq(Small(S)), NEW s \in Seq(S)
  PROVE  /\ InsertAll(q, s) \in Seq(Small(S))
         /\ Elements(InsertAll(q, s)) = Elements(q) \cup {e \in Elements(s) : ~TooLarge(e)}
         /\ Differ(q) /\ Differ(s) /\ Elements(q) \cap Elements(s) = {} => Differ(InsertAll(q, s))
<1> DEFINE X == Seq(Small(S))
           Step(n, x) == IF TooLarge(s[n]) THEN x ELSE Append(x, s[n])
           F == [n \in 1..Len(s) |-> [x \in X |-> Step(n, x)]]
<1>0. Len(s) \in Nat /\ q \in X /\ DOMAIN s = 1..Len(s) /\ \A n \in 1..Len(s) : s[n] \in S
  OBVIOUS
<1>1. \A n \in 1..Len(s) : ~TooLarge(s[n]) => s[n] \in Small(S)
  BY <1>0 DEF Small
<1>2. ASSUME NEW n \in 1..Len(s), NEW x \in X PROVE Step(n, x) \in X
  BY <1>1, OneMore
<1> HIDE DEF X
<1>3. F \in [1..Len(s) -> [X -> X]] /\ \A n \in 1..Len(s) : \A x \in X : F[n][x] = Step(n, x)
  BY <1>2
<1> HIDE DEF F
<1>4. \E g : InsertEquation(q, s, g)
  <2>1. Solvable(Len(s), X, q, F)
    BY <1>0, <1>3, Recursion
  <2>2. PICK g \in [0..Len(s) -> X] : g[0] = q /\ \A n \in 1..Len(s) : g[n] = F[n][g[n-1]]
    BY <2>1 DEF Solvable
  <2>3. ASSUME NEW n \in 0..Len(s)
        PROVE  g[n] = IF n = 0 THEN q ELSE IF TooLarge(s[n]) THEN g[n-1] ELSE Append(g[n-1], s[n])
    <3>1. CASE n = 0
      BY <2>2, <3>1
    <3>2. CASE n # 0
      <4>1. n \in 1..Len(s) /\ n - 1 \in 0..Len(s)
        BY <1>0, <3>2
      <4>2. g[n-1] \in X
        BY <2>2, <4>1
      <4>3. g[n] = Step(n, g[n-1])
        BY <1>3, <2>2, <4>1, <4>2
      <4> QED
        BY <3>2, <4>3
    <3> QED
      BY <3>1, <3>2
  <2> DEFINE k == [n \in 0..Len(s) |-> IF n = 0 THEN q ELSE IF TooLarge(s[n]) THEN g[n-1] ELSE Append(g[n-1], s[n])]
  <2>4. g = k
    BY <2>2, <2>3
  <2>5. InsertEquation(q, s, g)
    BY <2>4 DEF InsertEquation
  <2> QED
    BY <2>5
<1>5. PICK r : r = CHOOSE g : InsertEquation(q, s, g)
  OBVIOUS
<1>6. InsertEquation(q, s, r)
  BY <1>4, <1>5
<1>7. InsertAll(q, s) = r[Len(s)]
  BY <1>5 DEF InsertAll, InsertEquation
<1>8. \A n \in 0..Len(s) :
        r[n] = IF n = 0 THEN q ELSE IF TooLarge(s[n]) THEN r[n-1] ELSE Append(r[n-1], s[n])
  BY <1>6 DEF InsertEquation
<1> DEFINE Fine(n) == {e \in {s[i] : i \in 1..n} : ~TooLarge(e)}
           Apart == Differ(q) /\ Differ(s) /\ Elements(q) \cap Elements(s) = {}
           T == {n \in 0..Len(s) : /\ r[n] \in X /\ Elements(r[n]) = Elements(q) \cup Fine(n)
                                   /\ Apart => Differ(r[n])}
<1>9. 0 \in T
  <2>1. 0 \in 0..Len(s) /\ r[0] = q
    BY <1>0, <1>8
  <2>2. Fine(0) = {}
    OBVIOUS
  <2> QED
    BY <1>0, <2>1, <2>2
<1>10. ASSUME NEW n \in 0..(Len(s) - 1), n \in T PROVE n + 1 \in T
  <2>1. n + 1 \in 1..Len(s) /\ n + 1 \in 0..Len(s) /\ n + 1 # 0 /\ (n + 1) - 1 = n /\ n \in Nat
    BY <1>0
  <2>2. PICK t \in X : t = r[n]
    BY <1>10
  <2>3. Elements(t) = Elements(q) \cup Fine(n) /\ (Apart => Differ(t))
    BY <1>10, <2>2
  <2>4. PICK e \in S : e = s[n + 1]
    BY <1>0, <2>1
  <2>5. r[n + 1] = IF TooLarge(e) THEN t ELSE Append(t, e)
    BY <1>8, <2>1, <2>2, <2>4
  <2>6. {s[i] : i \in 1..(n + 1)} = {s[i] : i \in 1..n} \cup {e}
    <3>1. 1..(n + 1) = (1..n) \cup {n + 1}
      BY <2>1
    <3> QED
      BY <2>4, <3>1
  <2>7. CASE TooLarge(e)
    <3>1. Fine(n + 1) = Fine(n) /\ r[n + 1] = t
      BY <2>5, <2>6, <2>7
    <3> QED
      BY <2>1, <2>2, <2>3, <3>1
  <2>8. CASE ~TooLarge(e)
    <3>1. Fine(n + 1) = Fine(n) \cup {e} /\ r[n + 1] = Append(t, e)
      BY <2>5, <2>6, <2>8
    <3>2. e \in Small(S)
      BY <2>8 DEF Small
    <3>3. /\ Append(t, e) \in X /\ Elements(Append(t, e)) = Elements(t) \cup {e}
          /\ Differ(t) /\ e \notin Elements(t) => Differ(Append(t, e))
      BY <3>2, OneMore DEF X
    <3>4. ASSUME Apart PROVE e \notin Elements(t)
      <4>1. e \in Elements(s)
        BY <1>0, <2>1, <2>4 DEF Elements
      <4>2. \A i \in 1..n : s[i] # e
        <5>1. \A i \in 1..n : i \in 1..Len(s) /\ i # n + 1
          BY <1>0, <2>1
        <5> QED
          BY <1>0, <2>1, <2>4, <3>4, <5>1 DEF Differ
      <4> QED
        BY <2>3, <3>4, <4>1, <4>2
    <3> QED
      BY <2>1, <2>3, <3>1, <3>3, <3>4
  <2> QED
    BY <2>7, <2>8
<1> HIDE DEF T
<1>11. \A n \in 0..Len(s) : n \in T
  BY <1>0, <1>9, <1>10, CountUp
<1>12. Len(s) \in T
  BY <1>0, <1>11
<1>13. Elements(s) = {s[i] : i \in 1..Len(s)}
  BY <1>0 DEF Elements
<1> QED
  BY <1>7, <1>12, <1>13 DEF T, X

=============================================================================
