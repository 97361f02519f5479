------------------------ MODULE TracePipeline_proofs ------------------------
(***************************************************************************)
(* Proofs about the traces' way to the intake, for any number of requests  *)
(* and permits and any payloads: type correctness, the permits, how        *)
(* payloads are split and batched (TraceBatching), and the order of the    *)
(* pieces.                                                                 *)
(***************************************************************************)
EXTENDS TracePipeline, TraceBatching, ProofLibrary, FiniteSetTheorems, SequenceTheorems, TLAPS

\* The invariant: the enqueue task of a request runs only after its handler
\* has answered, so a request never stands for two permits.
IInv ==
  /\ phase \in [Requests -> {"new", "waiting", "decoding", "done", "gone"}]
  /\ response \in [Requests -> {"none", "error", "dropped", "buffered"}]
  /\ free \in Nat
  /\ tasks \subseteq Requests
  /\ open \in BOOLEAN
  /\ flusher \in {"starting", "sleeping", "flushing", "sending", "aborted"}
  /\ \A r \in tasks : phase[r] = "done"
  /\ PermitsAccounted

USE TracePipelineAssumption

LEMMA HoldersFinite ==
  ASSUME IInv
  PROVE  IsFiniteSet(Holders) /\ Cardinality(Holders) \in Nat
BY FS_Subset, FS_CardinalityType DEF Holders, IInv

\* Taking a permit: one holder more.
LEMMA OneMore ==
  ASSUME IInv, NEW r \in Requests, r \notin Holders,
         Holders' = Holders \cup {r}, free' = free - 1
  PROVE  PermitsAccounted'
<1>1. Cardinality(Holders') = Cardinality(Holders) + 1
  BY HoldersFinite, FS_AddElement
<1> QED
  BY <1>1, HoldersFinite DEF IInv, PermitsAccounted

\* Giving it back: one holder less.
LEMMA OneLess ==
  ASSUME IInv, NEW r \in Holders, Holders' = Holders \ {r}, free' = free + 1
  PROVE  PermitsAccounted'
<1>1. Cardinality(Holders') = Cardinality(Holders) - 1
  BY HoldersFinite, FS_RemoveElement
<1> QED
  BY <1>1, HoldersFinite DEF IInv, PermitsAccounted

LEMMA SameHolders ==
  ASSUME IInv, Holders' = Holders, free' = free
  PROVE  PermitsAccounted'
BY DEF IInv, PermitsAccounted

\* Steps that leave the handlers and their tasks alone.
LEMMA FlusherSteps ==
  ASSUME IInv,
         StartFlusher \/ Receive \/ Add \/ BeginFlush \/ CreateClient \/ NoClient \/ NextBatch
           \/ Abort \/ (\E n \in 1..Len(batch) : SendGroup(n)) \/ UNCHANGED vars
  PROVE  IInv'
<1>1. /\ UNCHANGED <<phase, response, free, tasks>>
      /\ open' \in BOOLEAN
      /\ flusher' \in {"starting", "sleeping", "flushing", "sending", "aborted"}
  BY DEF IInv, StartFlusher, Receive, Add, BeginFlush, CreateClient, NoClient, NextBatch, Abort,
         SendGroup, vars, handlers, enqueue, flush
<1>2. PermitsAccounted'
  BY <1>1, SameHolders DEF Holders
<1> QED
  BY <1>1, <1>2 DEF IInv

LEMMA HandlerSteps ==
  ASSUME IInv, NEW r \in Requests,
         Arrive(r) \/ Handler(r) \/ Disconnect(r) \/ EnqueueTask(r)
  PROVE  IInv'
<1> USE DEF IInv
<1>1. CASE Arrive(r)
  <2>1. Holders' = Holders /\ free' = free
    BY <1>1 DEF Arrive, Answer, Holders, enqueue
  <2> QED
    BY <1>1, <2>1, SameHolders DEF Arrive, Answer, enqueue, flush
<1>2. CASE AcquirePermit(r)
  <2>1. r \notin Holders /\ Holders' = Holders \cup {r} /\ free' = free - 1
    BY <1>2 DEF AcquirePermit, Holders, enqueue
  <2> QED
    BY <1>2, <2>1, OneMore DEF AcquirePermit, enqueue, flush
<1>3. CASE PermitTimeout(r)
  <2>1. Holders' = Holders /\ free' = free
    BY <1>3 DEF PermitTimeout, Answer, Holders, enqueue
  <2> QED
    BY <1>3, <2>1, SameHolders DEF PermitTimeout, Answer, enqueue, flush
<1>4. CASE Decode(r)
  <2>1. CASE Verdict[r] = "bad"
    <3>1. r \in Holders /\ Holders' = Holders \ {r} /\ free' = free + 1
      BY <1>4, <2>1 DEF Decode, Answer, Holders
    <3>2. PermitsAccounted'
      BY <3>1, OneLess
    <3>3. tasks' = tasks /\ open' = open /\ flusher' = flusher
      BY <1>4, <2>1 DEF Decode, flush
    <3>4. phase' = [phase EXCEPT ![r] = "done"] /\ response' = [response EXCEPT ![r] = "error"]
      BY <1>4, <2>1 DEF Decode, Answer
    <3> QED
      BY <3>1, <3>2, <3>3, <3>4
  <2>2. CASE Verdict[r] = "good"
    <3>1. Holders' = Holders /\ free' = free
      BY <1>4, <2>2 DEF Decode, Answer, Holders
    <3>2. PermitsAccounted'
      BY <3>1, SameHolders
    <3>3. tasks' = tasks \cup {r} /\ open' = open /\ flusher' = flusher
      BY <1>4, <2>2 DEF Decode, flush
    <3>4. phase' = [phase EXCEPT ![r] = "done"] /\ response' = [response EXCEPT ![r] = "buffered"]
      BY <1>4, <2>2 DEF Decode, Answer
    <3> QED
      BY <3>1, <3>2, <3>3, <3>4
  <2> QED
    BY <1>4, <2>1, <2>2 DEF Decode
<1>5. CASE Disconnect(r)
  <2>1. CASE phase[r] = "waiting"
    <3>1. Holders' = Holders /\ free' = free
      BY <1>5, <2>1 DEF Disconnect, Holders, enqueue
    <3> QED
      BY <1>5, <2>1, <3>1, SameHolders DEF Disconnect, enqueue, flush
  <2>2. CASE phase[r] = "decoding"
    <3>1. r \in Holders /\ Holders' = Holders \ {r} /\ free' = free + 1
      BY <1>5, <2>2 DEF Disconnect, Holders, enqueue
    <3> QED
      BY <1>5, <2>2, <3>1, OneLess DEF Disconnect, enqueue, flush
  <2> QED
    BY <1>5, <2>1, <2>2 DEF Disconnect
<1>6. CASE EnqueuePiece(r)
  <2>1. Holders' = Holders /\ free' = free
    BY <1>6 DEF EnqueuePiece, Holders, handlers
  <2> QED
    BY <1>6, <2>1, SameHolders DEF EnqueuePiece, handlers, flush
<1>7. CASE EndEnqueue(r)
  <2>1. r \in Holders /\ Holders' = Holders \ {r} /\ free' = free + 1
    BY <1>7 DEF EndEnqueue, Holders
  <2> QED
    BY <1>7, <2>1, OneLess DEF EndEnqueue, flush
<1> QED
  BY <1>1, <1>2, <1>3, <1>4, <1>5, <1>6, <1>7 DEF Handler, EnqueueTask

\* What IInv says holds in every state.
THEOREM Invariance == Spec => []IInv
<1>1. Init => IInv
  <2> SUFFICES ASSUME Init PROVE IInv
    OBVIOUS
  <2>1. Holders = {}
    BY DEF Init, Holders
  <2>2. Cardinality(Holders) = 0
    BY <2>1, FS_EmptySet
  <2> QED
    BY <2>2 DEF Init, IInv, PermitsAccounted
<1>2. IInv /\ [Next]_vars => IInv'
  BY FlusherSteps, HandlerSteps DEF Next, Flusher
<1> QED
  BY <1>1, <1>2, PTL DEF Spec

\* The semaphore of process_traces: no return path of the handler and no end
\* of the enqueue task leaks a permit or gives one back twice.
THEOREM PermitsConserved == Spec => []PermitsAccounted
<1>1. IInv => PermitsAccounted
  BY DEF IInv
<1> QED
  BY <1>1, Invariance, PTL

\* Type correctness; in particular no more than MAX_IN_FLIGHT_ENQUEUES
\* requests are in the pipeline at once.
THEOREM TypeCorrect == Spec => []TypeOK
<1>1. IInv => TypeOK
  <2> SUFFICES ASSUME IInv PROVE TypeOK
    OBVIOUS
  <2>1. free <= MaxPermits
    BY HoldersFinite DEF IInv, PermitsAccounted
  <2> QED
    BY <2>1 DEF IInv, TypeOK
<1> QED
  BY <1>1, Invariance, PTL

-----------------------------------------------------------------------------
(* The pieces of one request in a sequence of pieces.                      *)

\* One step of the loop of Of.
OneOf(r, x, p) == IF p.of = r THEN Append(x, p) ELSE x

OfLoop(r, s, g) ==
  g = [n \in 0..Len(s) |-> IF n = 0 THEN <<>> ELSE OneOf(r, g[n-1], s[n])]

\* g is how Of(r, s) is computed.
Computes(S, r, s, g) ==
  /\ g \in [0..Len(s) -> Seq(S)] /\ g[0] = <<>>
  /\ \A n \in 1..Len(s) : g[n] = OneOf(r, g[n-1], s[n])
  /\ Of(r, s) = g[Len(s)]

LEMMA OfComputed ==
  ASSUME NEW S, NEW r, NEW s \in Seq(S)
  PROVE  \E g : Computes(S, r, s, g)
<1> DEFINE N == Len(s)
           X == Seq(S)
           F == [n \in 1..N |-> [x \in X |-> OneOf(r, x, s[n])]]
<1>0. N \in Nat /\ <<>> \in X /\ \A n \in 1..N : s[n] \in S
  OBVIOUS
<1>1. \A n \in 1..N : \A x \in X : OneOf(r, x, s[n]) \in X
  BY <1>0 DEF OneOf
<1> HIDE DEF N, X
<1>2. F \in [1..N -> [X -> X]] /\ \A n \in 1..N : \A x \in X : F[n][x] = OneOf(r, x, s[n])
  BY <1>1
<1> HIDE DEF F
<1>3. PICK g \in [0..N -> X] : g[0] = <<>> /\ \A n \in 1..N : g[n] = F[n][g[n-1]]
  <2>1. Solvable(N, X, <<>>, F)
    BY <1>0, <1>2, Recursion
  <2> QED
    BY <2>1 DEF Solvable
<1>4. \A n \in 1..N : g[n] = OneOf(r, g[n-1], s[n])
  <2> TAKE n \in 1..N
  <2>1. n - 1 \in 0..N
    BY <1>0
  <2> QED
    BY <1>2, <1>3, <2>1
<1>5. ASSUME NEW n \in 0..N PROVE g[n] = IF n = 0 THEN <<>> ELSE OneOf(r, g[n-1], s[n])
  <2>1. CASE n = 0
    BY <1>3, <2>1
  <2>2. CASE n # 0
    <3>1. n \in 1..N
      BY <1>0, <2>2
    <3> QED
      BY <1>4, <2>2, <3>1
  <2> QED
    BY <2>1, <2>2
<1> DEFINE k == [n \in 0..N |-> IF n = 0 THEN <<>> ELSE OneOf(r, g[n-1], s[n])]
<1>6. g = k
  BY <1>3, <1>5
<1>7. OfLoop(r, s, g)
  BY <1>6 DEF OfLoop, N
<1>8. PICK h : h = CHOOSE l : OfLoop(r, s, l)
  OBVIOUS
<1>9. OfLoop(r, s, h)
  BY <1>7, <1>8
<1>10. Of(r, s) = h[N]
  BY <1>8 DEF Of, OfLoop, OneOf, N
<1>11. \A n \in 0..N : h[n] = IF n = 0 THEN <<>> ELSE OneOf(r, h[n-1], s[n])
  BY <1>9 DEF OfLoop, N
<1> DEFINE T == {n \in 0..N : h[n] = g[n]}
<1>12. 0 \in T
  BY <1>0, <1>3, <1>11
<1>13. ASSUME NEW n \in 0..(N - 1), n \in T PROVE n + 1 \in T
  <2>1. n + 1 \in 0..N /\ n + 1 \in 1..N /\ n + 1 # 0 /\ (n + 1) - 1 = n
    BY <1>0
  <2>2. h[n + 1] = OneOf(r, h[n], s[n + 1]) /\ g[n + 1] = OneOf(r, g[n], s[n + 1])
    BY <1>4, <1>11, <2>1
  <2> QED
    BY <1>13, <2>1, <2>2
<1> HIDE DEF T
<1>14. N \in T
  <2>1. \A n \in 0..N : n \in T
    BY <1>0, <1>12, <1>13, CountUp
  <2> QED
    BY <1>0, <2>1
<1>15. Of(r, s) = g[N]
  BY <1>10, <1>14 DEF T
<1>16. Computes(S, r, s, g)
  BY <1>3, <1>4, <1>15 DEF Computes, N, X
<1> QED
  BY <1>16

LEMMA OfEmpty == \A r : Of(r, <<>>) = <<>>
<1> TAKE r
<1>1. <<>> \in Seq({})
  OBVIOUS
<1>2. PICK g : Computes({}, r, <<>>, g)
  BY <1>1, OfComputed
<1> QED
  BY <1>2 DEF Computes

\* A piece at the end belongs to r or not.
LEMMA OfAppend ==
  ASSUME NEW S, NEW r, NEW s \in Seq(S), NEW p \in S
  PROVE  Of(r, s) \in Seq(S) /\ Of(r, Append(s, p)) = OneOf(r, Of(r, s), p)
<1>1. PICK u : u = Append(s, p)
  OBVIOUS
<1>2. /\ u \in Seq(S) /\ Len(s) \in Nat /\ Len(u) = Len(s) + 1 /\ u[Len(s) + 1] = p
      /\ \A n \in 1..Len(s) : u[n] = s[n]
  BY <1>1
<1>3. PICK g : Computes(S, r, s, g)
  BY OfComputed
<1>4. PICK h : Computes(S, r, u, h)
  BY <1>2, OfComputed
<1> DEFINE T == {n \in 0..Len(s) : h[n] = g[n]}
<1>5. 0 \in T
  BY <1>2, <1>3, <1>4 DEF Computes
<1>6. ASSUME NEW n \in 0..(Len(s) - 1), n \in T PROVE n + 1 \in T
  <2>1. n + 1 \in 0..Len(s) /\ n + 1 \in 1..Len(s) /\ n + 1 \in 1..Len(u) /\ (n + 1) - 1 = n
    BY <1>2
  <2>2. h[n + 1] = OneOf(r, h[n], u[n + 1]) /\ g[n + 1] = OneOf(r, g[n], s[n + 1])
    BY <1>3, <1>4, <2>1 DEF Computes
  <2>3. u[n + 1] = s[n + 1]
    BY <1>2, <2>1
  <2> QED
    BY <1>6, <2>1, <2>2, <2>3
<1> HIDE DEF T
<1>7. Len(s) \in T
  <2>1. \A n \in 0..Len(s) : n \in T
    BY <1>2, <1>5, <1>6, CountUp
  <2> QED
    BY <1>2, <2>1
<1>8. h[Len(s)] = Of(r, s) /\ Of(r, s) \in Seq(S)
  <2>1. Len(s) \in 0..Len(s) /\ h[Len(s)] = g[Len(s)]
    BY <1>2, <1>7 DEF T
  <2> QED
    BY <1>3, <2>1 DEF Computes
<1>9. Of(r, u) = h[Len(s) + 1] /\ h[Len(s) + 1] = OneOf(r, h[Len(s)], p)
  <2>1. Len(s) + 1 \in 1..Len(u) /\ (Len(s) + 1) - 1 = Len(s)
    BY <1>2
  <2> QED
    BY <1>2, <1>4, <2>1 DEF Computes
<1> QED
  BY <1>1, <1>8, <1>9

\* s and the first n elements of t.
With(s, t, n) == s \o SubSeq(t, 1, n)

\* b is a with p at its end.
Longer(S, a, p, b) == a \in Seq(S) /\ p \in S /\ b = Append(a, p)

LEMMA WithOneMore ==
  ASSUME NEW S, NEW s \in Seq(S), NEW t \in Seq(S), NEW n \in 0..(Len(t) - 1)
  PROVE  Longer(S, With(s, t, n), t[n + 1], With(s, t, n + 1))
<1>1. Len(t) \in Nat /\ n \in Nat /\ n + 1 \in 1..Len(t) /\ Len(s) \in Nat
  OBVIOUS
<1>2. PICK a : a = SubSeq(t, 1, n)
  OBVIOUS
<1>3. PICK b : b = SubSeq(t, 1, n + 1)
  OBVIOUS
<1>4. /\ a \in Seq(S) /\ Len(a) = n /\ \A i \in 1..n : a[i] = t[i]
      /\ b \in Seq(S) /\ Len(b) = n + 1 /\ \A i \in 1..(n + 1) : b[i] = t[i]
  BY <1>1, <1>2, <1>3
<1>5. t[n + 1] \in S
  BY <1>1
<1>6. b = Append(a, t[n + 1])
  BY <1>1, <1>4, <1>5
<1>7. s \o b = Append(s \o a, t[n + 1]) /\ s \o a \in Seq(S)
  BY <1>4, <1>5, <1>6
<1> QED
  BY <1>2, <1>3, <1>5, <1>7 DEF Longer, With

LEMMA WithNoneOrAll ==
  ASSUME NEW S, NEW s \in Seq(S), NEW t \in Seq(S)
  PROVE  With(s, t, 0) = s /\ With(s, t, Len(t)) = s \o t
<1>1. SubSeq(t, 1, 0) = <<>> /\ s \o <<>> = s /\ SubSeq(t, 1, Len(t)) = t
  OBVIOUS
<1> QED
  BY <1>1 DEF With

LEMMA OfLonger ==
  ASSUME NEW S, NEW r, NEW a, NEW p, NEW b, Longer(S, a, p, b)
  PROVE  Of(r, b) = OneOf(r, Of(r, a), p)
<1>1. a \in Seq(S) /\ p \in S /\ b = Append(a, p)
  BY DEF Longer
<1> QED
  BY <1>1, OfAppend

\* Pieces of r at the end.
LEMMA OfOwn ==
  ASSUME NEW S, NEW r, NEW s \in Seq(S), NEW t \in Seq(S), \A i \in DOMAIN t : t[i].of = r
  PROVE  Of(r, s \o t) = Of(r, s) \o t
<1> DEFINE T == {n \in 0..Len(t) : Of(r, With(s, t, n)) = With(Of(r, s), t, n)}
<1>0. Len(t) \in Nat /\ DOMAIN t = 1..Len(t)
  OBVIOUS
<1>1. Of(r, s) \in Seq(S)
  <2>1. PICK g : Computes(S, r, s, g)
    BY OfComputed
  <2>2. Len(s) \in 0..Len(s)
    OBVIOUS
  <2> QED
    BY ZenonT(60), <2>1, <2>2 DEF Computes
<1>2. 0 \in T
  BY <1>0, <1>1, WithNoneOrAll
<1>3. ASSUME NEW n \in 0..(Len(t) - 1), n \in T PROVE n + 1 \in T
  <2>1. Longer(S, With(s, t, n), t[n + 1], With(s, t, n + 1))
    BY WithOneMore
  <2>2. Longer(S, With(Of(r, s), t, n), t[n + 1], With(Of(r, s), t, n + 1))
    BY <1>1, WithOneMore
  <2>3. t[n + 1].of = r /\ n + 1 \in 0..Len(t)
    BY <1>0
  <2>4. Of(r, With(s, t, n + 1)) = OneOf(r, Of(r, With(s, t, n)), t[n + 1])
    BY <2>1, OfLonger
  <2>5. Of(r, With(s, t, n + 1)) = Append(With(Of(r, s), t, n), t[n + 1])
    BY <1>3, <2>3, <2>4 DEF OneOf
  <2>6. With(Of(r, s), t, n + 1) = Append(With(Of(r, s), t, n), t[n + 1])
    BY <2>2 DEF Longer
  <2> QED
    BY <2>3, <2>5, <2>6
<1> HIDE DEF T
<1>4. Len(t) \in T
  <2>1. \A n \in 0..Len(t) : n \in T
    BY <1>0, <1>2, <1>3, CountUp
  <2> QED
    BY <1>0, <2>1
<1>5. Of(r, With(s, t, Len(t))) = With(Of(r, s), t, Len(t))
  BY <1>4 DEF T
<1> QED
  BY <1>1, <1>5, WithNoneOrAll

\* Pieces of others at the end.
LEMMA OfOthers ==
  ASSUME NEW S, NEW r, NEW s \in Seq(S), NEW t \in Seq(S), \A i \in DOMAIN t : t[i].of # r
  PROVE  Of(r, s \o t) = Of(r, s)
<1> DEFINE T == {n \in 0..Len(t) : Of(r, With(s, t, n)) = Of(r, s)}
<1>0. Len(t) \in Nat /\ DOMAIN t = 1..Len(t)
  OBVIOUS
<1>1. 0 \in T
  BY <1>0, WithNoneOrAll
<1>2. ASSUME NEW n \in 0..(Len(t) - 1), n \in T PROVE n + 1 \in T
  <2>1. Longer(S, With(s, t, n), t[n + 1], With(s, t, n + 1))
    BY WithOneMore
  <2>2. t[n + 1].of # r /\ n + 1 \in 0..Len(t)
    BY <1>0
  <2>3. Of(r, With(s, t, n + 1)) = OneOf(r, Of(r, With(s, t, n)), t[n + 1])
    BY <2>1, OfLonger
  <2> QED
    BY <1>2, <2>2, <2>3 DEF OneOf
<1> HIDE DEF T
<1>3. Len(t) \in T
  <2>1. \A n \in 0..Len(t) : n \in T
    BY <1>0, <1>1, <1>2, CountUp
  <2> QED
    BY <1>0, <2>1
<1> QED
  BY <1>3, WithNoneOrAll DEF T

-----------------------------------------------------------------------------
(* get_batch and split_tracer_payload.                                     *)

\* get_batch takes a prefix of the queue, of one payload at least if there is
\* any, and of more only if they fit.
LEMMA BatchLengthOK ==
  ASSUME NEW S, NEW sizes \in Seq(S)
  PROVE  /\ GetBatchLength(sizes) \in 0..Len(sizes)
         /\ sizes # <<>> =>
              \/ GetBatchLength(sizes) = 1
              \/ /\ GetBatchLength(sizes) \in 1..Len(sizes)
                 /\ Total(SubSeq(sizes, 1, GetBatchLength(sizes))) <= MaxContentSize
<1> DEFINE Fits(k) == Total(SubSeq(sizes, 1, k)) <= MaxContentSize
           Full(k) == Total(SubSeq(sizes, 1, k)) >= MaxContentSize
           Ends(n) == n = Len(sizes) \/ ~Fits(n + 1) \/ Full(n)
           Length(n) == (\A k \in 1..n : Fits(k) /\ ~Full(k - 1)) /\ (n = Len(sizes) \/ ~Fits(n + 1) \/ Full(n))
           n0 == CHOOSE n \in 0..Len(sizes) : Length(n)
           T == {n \in 0..Len(sizes) : Ends(n)}
<1>1. Len(sizes) \in Nat /\ (sizes # <<>> => 1 \in 0..Len(sizes))
  OBVIOUS
<1>2. GetBatchLength(sizes) = IF n0 = 0 /\ sizes # <<>> THEN 1 ELSE n0
  BY DEF GetBatchLength
<1> HIDE DEF Fits, Full
<1>3. T \in SUBSET Nat /\ Len(sizes) \in T
  BY <1>1
<1>4. PICK m \in T : \A n \in T : m <= n
  BY <1>3, LeastNumber
<1>5. ASSUME NEW k \in 1..m PROVE Fits(k) /\ ~Full(k - 1)
  <2>1. k - 1 \in 0..Len(sizes) /\ ~(m <= k - 1) /\ (k - 1) + 1 = k
    BY <1>1, <1>4
  <2>2. ~Ends(k - 1)
    BY <1>4, <2>1
  <2>3. ~(k - 1 = Len(sizes) \/ ~Fits((k - 1) + 1) \/ Full(k - 1))
    BY <2>2
  <2> QED
    BY <2>1, <2>3
<1>6. m \in 0..Len(sizes) /\ Length(m)
  BY <1>4, <1>5
<1> HIDE DEF Length
<1>7. n0 \in 0..Len(sizes) /\ Length(n0)
  BY <1>6
<1>8. PICK n \in 0..Len(sizes) : n = n0
  BY <1>7
<1>9. GetBatchLength(sizes) = IF n = 0 /\ sizes # <<>> THEN 1 ELSE n
  BY <1>2, <1>8
<1>10. ASSUME n # 0 PROVE n \in 1..Len(sizes) /\ Fits(n)
  <2>1. n \in 1..Len(sizes) /\ n \in 1..n
    BY <1>1, <1>10
  <2>2. \A k \in 1..n : Fits(k)
    BY <1>7, <1>8 DEF Length
  <2> QED
    BY <2>1, <2>2
<1> HIDE DEF n0
<1> QED
  BY <1>1, <1>9, <1>10 DEF Fits

\* A prefix of the first of two sequences.
LEMMA PrefixOfJoined ==
  ASSUME NEW S, NEW q \in Seq(S), NEW y \in Seq(S), NEW n \in 0..Len(q)
  PROVE  SubSeq(q \o y, 1, n) = SubSeq(q, 1, n)
<1>1. PICK a : a = SubSeq(q \o y, 1, n)
  OBVIOUS
<1>2. PICK c : c = SubSeq(q, 1, n)
  OBVIOUS
<1>3. a \in Seq(S) /\ Len(a) = n /\ \A i \in 1..n : a[i] = q[i]
  BY <1>1
<1>4. c \in Seq(S) /\ Len(c) = n /\ \A i \in 1..n : c[i] = q[i]
  BY <1>2
<1> QED
  BY <1>1, <1>2, <1>3, <1>4, SeqEqual

\* A prefix of what is left after the first k.
LEMMA RunOfRest ==
  ASSUME NEW S, NEW q \in Seq(S), NEW k \in 0..Len(q), NEW n \in 0..(Len(q) - k)
  PROVE  SubSeq(SubSeq(q, k + 1, Len(q)), 1, n) = SubSeq(q, k + 1, k + n)
<1>0. Len(q) \in Nat
  OBVIOUS
<1>1. PICK w : w = SubSeq(q, k + 1, Len(q))
  OBVIOUS
<1>2. w \in Seq(S) /\ Len(w) = Len(q) - k /\ \A i \in 1..(Len(q) - k) : w[i] = q[k + i]
  BY <1>0, <1>1
<1>3. PICK a : a = SubSeq(w, 1, n)
  OBVIOUS
<1>4. a \in Seq(S) /\ Len(a) = n /\ \A i \in 1..n : a[i] = q[k + i]
  BY <1>0, <1>2, <1>3
<1>5. PICK c : c = SubSeq(q, k + 1, k + n)
  OBVIOUS
<1>6. c \in Seq(S) /\ Len(c) = n /\ \A i \in 1..n : c[i] = q[k + i]
  BY <1>0, <1>5
<1> QED
  BY <1>1, <1>3, <1>4, <1>5, <1>6, SeqEqual

\* A piece that need not be split any more.
Final(p) == Len(p) >= 1 /\ ~MustSplit(p)

\* What holds of all elements of two sequences holds of those of both.
LEMMA JoinedAll ==
  ASSUME NEW S, NEW y \in Seq(Seq(S)), NEW z \in Seq(Seq(S)),
         \A i \in DOMAIN y : Final(y[i]), \A i \in DOMAIN z : Final(z[i])
  PROVE  y \o z \in Seq(Seq(S)) /\ \A i \in DOMAIN (y \o z) : Final((y \o z)[i])
<1>1. Len(y) \in Nat /\ Len(z) \in Nat /\ DOMAIN y = 1..Len(y) /\ DOMAIN z = 1..Len(z)
  OBVIOUS
<1>2. PICK w : w = y \o z
  OBVIOUS
<1>3. /\ w \in Seq(Seq(S)) /\ DOMAIN w = 1..(Len(y) + Len(z))
      /\ \A i \in 1..Len(y) : w[i] = y[i]
      /\ \A i \in 1..Len(z) : w[Len(y) + i] = z[i]
  BY <1>1, <1>2
<1>4. ASSUME NEW i \in DOMAIN w PROVE Final(w[i])
  <2>1. CASE i \in 1..Len(y)
    BY <1>1, <1>3, <2>1
  <2>2. CASE i \notin 1..Len(y)
    <3>1. i - Len(y) \in 1..Len(z) /\ Len(y) + (i - Len(y)) = i
      BY <1>1, <1>3, <2>2
    <3>2. w[i] = z[i - Len(y)]
      BY <1>3, <3>1
    <3> QED
      BY <1>1, <3>1, <3>2
  <2> QED
    BY <2>1, <2>2
<1> QED
  BY <1>2, <1>3, <1>4

\* The two halves of a part of a payload, and how long a part is.
Mid(r) == r[1] + (r[2] - r[1] + 1) \div 2
Lower(r) == <<r[1], Mid(r) - 1>>
Upper(r) == <<Mid(r), r[2]>>
Span(r) == IF r[1] <= r[2] THEN r[2] - r[1] ELSE 0

Part(chunks, r) == SubSeq(chunks, r[1], r[2])

\* The body of split_tracer_payload, with x for the recursive calls.
SplitBody(chunks, x, r) ==
  IF MustSplit(Part(chunks, r)) THEN x[Lower(r)] \o x[Upper(r)] ELSE <<Part(chunks, r)>>

SplitLoop(chunks, g) ==
  g = [r \in (DOMAIN chunks) \X (DOMAIN chunks) |-> SplitBody(chunks, g, r)]

\* A part that is split has two halves that are shorter.
LEMMA Halves ==
  ASSUME NEW S, NEW chunks \in Seq(S), NEW r \in (DOMAIN chunks) \X (DOMAIN chunks)
  PROVE  /\ Part(chunks, r) \in Seq(S) /\ Span(r) \in Nat /\ Span(r) < Len(chunks)
         /\ MustSplit(Part(chunks, r)) =>
              /\ Lower(r) \in (DOMAIN chunks) \X (DOMAIN chunks) /\ Span(Lower(r)) < Span(r)
              /\ Upper(r) \in (DOMAIN chunks) \X (DOMAIN chunks) /\ Span(Upper(r)) < Span(r)
<1>1. PICK lo \in DOMAIN chunks, hi \in DOMAIN chunks : r = <<lo, hi>>
  OBVIOUS
<1>2. r[1] = lo /\ r[2] = hi
  BY <1>1
<1>3. Len(chunks) \in Nat /\ lo \in 1..Len(chunks) /\ hi \in 1..Len(chunks) /\ DOMAIN chunks = 1..Len(chunks)
  OBVIOUS
<1>4. Span(r) \in Nat /\ Span(r) < Len(chunks)
  BY <1>2, <1>3 DEF Span
<1>5. Part(chunks, r) \in Seq(S) /\ Len(Part(chunks, r)) = IF lo <= hi THEN hi - lo + 1 ELSE 0
  BY <1>2, <1>3 DEF Part
<1>6. ASSUME MustSplit(Part(chunks, r))
      PROVE  /\ Lower(r) \in (DOMAIN chunks) \X (DOMAIN chunks) /\ Span(Lower(r)) < Span(r)
             /\ Upper(r) \in (DOMAIN chunks) \X (DOMAIN chunks) /\ Span(Upper(r)) < Span(r)
  <2>1. Len(Part(chunks, r)) > 1
    BY <1>6 DEF MustSplit
  <2>2. lo < hi
    BY <1>3, <1>5, <2>1
  <2>3. PICK mid : mid = lo + (hi - lo + 1) \div 2
    OBVIOUS
  <2>4. mid \in Int /\ lo < mid /\ mid <= hi
    BY <1>3, <2>2, <2>3
  <2>5. Lower(r) = <<lo, mid - 1>> /\ Upper(r) = <<mid, hi>>
    BY <1>2, <2>3 DEF Lower, Upper, Mid
  <2>6. mid - 1 \in DOMAIN chunks /\ mid \in DOMAIN chunks
    BY <1>3, <2>4
  <2>7. Span(r) = hi - lo /\ Span(<<lo, mid - 1>>) = mid - 1 - lo /\ Span(<<mid, hi>>) = hi - mid
    BY <1>2, <1>3, <2>2, <2>4 DEF Span
  <2>8. mid - 1 - lo < hi - lo /\ hi - mid < hi - lo
    BY <1>3, <2>4
  <2>9. Span(Lower(r)) = mid - 1 - lo /\ Span(Upper(r)) = hi - mid
    BY <2>5, <2>7
  <2>10. Lower(r) \in (DOMAIN chunks) \X (DOMAIN chunks) /\ Upper(r) \in (DOMAIN chunks) \X (DOMAIN chunks)
    BY <2>5, <2>6
  <2>11. Span(Lower(r)) < Span(r) /\ Span(Upper(r)) < Span(r)
    BY <2>7, <2>8, <2>9
  <2> QED
    BY <2>10, <2>11
<1> QED
  BY <1>4, <1>5, <1>6

\* One more level of calls, x being the results of those below.
Level(chunks, x) == [r \in (DOMAIN chunks) \X (DOMAIN chunks) |-> SplitBody(chunks, x, r)]

\* x and y agree on the parts of a span less than n.
Agree(chunks, x, y, n) ==
  \A r \in (DOMAIN chunks) \X (DOMAIN chunks) : Span(r) < n => x[r] = y[r]

\* The results depend on those of shorter parts only.
LEMMA LevelDepends ==
  ASSUME NEW S, NEW chunks \in Seq(S), NEW x, NEW y, NEW n \in Nat, Agree(chunks, x, y, n),
         NEW r \in (DOMAIN chunks) \X (DOMAIN chunks), Span(r) < n + 1
  PROVE  SplitBody(chunks, x, r) = SplitBody(chunks, y, r)
<1>1. CASE MustSplit(Part(chunks, r))
  <2>1. Span(r) \in Nat
    BY Halves
  <2>2. Lower(r) \in (DOMAIN chunks) \X (DOMAIN chunks) /\ Span(Lower(r)) < Span(r)
    BY <1>1, Halves
  <2>3. Upper(r) \in (DOMAIN chunks) \X (DOMAIN chunks) /\ Span(Upper(r)) < Span(r)
    BY <1>1, Halves
  <2>4. Span(Lower(r)) \in Nat /\ Span(Upper(r)) \in Nat
    BY <2>2, <2>3, Halves
  <2>5. Span(Lower(r)) < n /\ Span(Upper(r)) < n
    BY <2>1, <2>2, <2>3, <2>4
  <2>6. x[Lower(r)] = y[Lower(r)] /\ x[Upper(r)] = y[Upper(r)]
    BY <2>2, <2>3, <2>5 DEF Agree
  <2> QED
    BY <1>1, <2>6 DEF SplitBody
<1>2. CASE ~MustSplit(Part(chunks, r))
  BY <1>2 DEF SplitBody
<1> QED
  BY <1>1, <1>2

\* The recursion of split_tracer_payload ends.
LEMMA SplitSolvable ==
  ASSUME NEW S, NEW chunks \in Seq(S)
  PROVE  \E g : SplitLoop(chunks, g)
<1> DEFINE D == (DOMAIN chunks) \X (DOMAIN chunks)
           N == Len(chunks)
           Y == Seq(Seq(S))
           X == [D -> Y]
           x0 == [r \in D |-> <<>>]
           F == [n \in 1..(N + 1) |-> [x \in X |-> Level(chunks, x)]]
<1>0. N \in Nat /\ N + 1 \in Nat
  OBVIOUS
<1>1. ASSUME NEW x \in X, NEW r \in D PROVE SplitBody(chunks, x, r) \in Y
  <2>1. CASE MustSplit(Part(chunks, r))
    <3>1. Lower(r) \in D /\ Upper(r) \in D
      BY <2>1, Halves
    <3>2. x[Lower(r)] \in Y /\ x[Upper(r)] \in Y
      BY <3>1
    <3> QED
      BY <2>1, <3>2 DEF SplitBody
  <2>2. CASE ~MustSplit(Part(chunks, r))
    <3>1. Part(chunks, r) \in Seq(S)
      BY Halves
    <3>2. <<Part(chunks, r)>> \in Y
      BY <3>1
    <3> QED
      BY <2>2, <3>2 DEF SplitBody
  <2> QED
    BY <2>1, <2>2
<1>2. x0 \in X
  OBVIOUS
<1>3. ASSUME NEW x \in X PROVE Level(chunks, x) \in X /\ \A r \in D : Level(chunks, x)[r] = SplitBody(chunks, x, r)
  BY <1>1 DEF Level
<1> HIDE DEF N, D, X, x0
<1>4. F \in [1..(N + 1) -> [X -> X]] /\ \A n \in 1..(N + 1) : \A x \in X : F[n][x] = Level(chunks, x)
  BY <1>3
<1> HIDE DEF F
<1>5. PICK g \in [0..(N + 1) -> X] : g[0] = x0 /\ \A n \in 1..(N + 1) : g[n] = F[n][g[n-1]]
  <2>1. Solvable(N + 1, X, x0, F)
    BY <1>0, <1>2, <1>4, Recursion
  <2> QED
    BY <2>1 DEF Solvable
<1>6. ASSUME NEW n \in 0..N PROVE g[n] \in X /\ g[n + 1] = Level(chunks, g[n])
  <2>1. n + 1 \in 1..(N + 1) /\ (n + 1) - 1 = n /\ n \in 0..(N + 1)
    BY <1>0
  <2>2. g[n + 1] = F[n + 1][g[n]] /\ g[n] \in X
    BY <1>5, <2>1
  <2> QED
    BY <1>4, <2>1, <2>2
<1> DEFINE T == {n \in 0..N : \A r \in D : Span(r) < n => g[n][r] = g[n + 1][r]}
<1>7. 0 \in T
  <2>1. \A r \in D : ~(Span(r) < 0)
    <3> TAKE r \in D
    <3>1. Span(r) \in Nat
      BY Halves DEF D
    <3> QED
      BY <3>1
  <2> QED
    BY <1>0, <2>1
<1>8. ASSUME NEW n \in 0..(N - 1), n \in T PROVE n + 1 \in T
  <2>1. n \in 0..N /\ n + 1 \in 0..N /\ n \in Nat
    BY <1>0
  <2>2. g[n + 1] = Level(chunks, g[n]) /\ g[n + 1 + 1] = Level(chunks, g[n + 1]) /\ g[n] \in X /\ g[n + 1] \in X
    BY <1>6, <2>1
  <2>3. ASSUME NEW r \in D, Span(r) < n + 1 PROVE g[n + 1][r] = g[n + 1 + 1][r]
    <3>1. PICK x : x = g[n]
      OBVIOUS
    <3>2. PICK y : y = g[n + 1]
      OBVIOUS
    <3>3. Agree(chunks, x, y, n)
      BY <1>8, <3>1, <3>2 DEF Agree, D
    <3>4. SplitBody(chunks, x, r) = SplitBody(chunks, y, r)
      BY <2>1, <2>3, <3>3, LevelDepends DEF D
    <3>5. g[n + 1][r] = SplitBody(chunks, x, r) /\ g[n + 1 + 1][r] = SplitBody(chunks, y, r)
      BY <1>3, <2>2, <3>1, <3>2
    <3> QED
      BY <3>4, <3>5
  <2> QED
    BY <2>1, <2>3
<1> HIDE DEF T
<1>9. N \in T
  <2>1. \A n \in 0..N : n \in T
    BY <1>0, <1>7, <1>8, CountUp
  <2> QED
    BY <1>0, <2>1
<1>10. PICK h : h = g[N]
  OBVIOUS
<1>11. h \in X /\ g[N + 1] = Level(chunks, h)
  BY <1>0, <1>6, <1>10
<1>12. \A r \in D : h[r] = SplitBody(chunks, h, r)
  <2> TAKE r \in D
  <2>1. Span(r) < N
    BY Halves DEF D, N
  <2>2. h[r] = g[N + 1][r]
    BY <1>9, <1>10, <2>1 DEF T
  <2> QED
    BY <1>3, <1>11, <2>2
<1>13. h = [r \in D |-> SplitBody(chunks, h, r)]
  BY <1>11, <1>12 DEF X
<1>14. SplitLoop(chunks, h)
  BY <1>13 DEF SplitLoop, D
<1> QED
  BY <1>14

\* y is the part r of a payload, cut into final pieces.
CutInto(S, chunks, r, y) ==
  /\ y \in Seq(Seq(S))
  /\ r[1] <= r[2] => Concat(y) = Part(chunks, r) /\ \A i \in DOMAIN y : Final(y[i])

\* A part that is not split is its own piece.
LEMMA NotSplit ==
  ASSUME NEW S, NEW chunks \in Seq(S), NEW r \in (DOMAIN chunks) \X (DOMAIN chunks),
         ~MustSplit(Part(chunks, r))
  PROVE  CutInto(S, chunks, r, <<Part(chunks, r)>>)
<1>1. PICK p \in Seq(S) : p = Part(chunks, r)
  BY Halves
<1>2. <<>> \in Seq(Seq(S)) /\ <<p>> = Append(<<>>, p) /\ <<p>> \in Seq(Seq(S)) /\ <<>> \o p = p
  OBVIOUS
<1>3. Concat(<<p>>) = Concat(<<>>) \o p /\ Concat(<<>>) = <<>>
  BY <1>2, ConcatGrows
<1>4. DOMAIN <<p>> = {1} /\ <<p>>[1] = p
  OBVIOUS
<1>5. ASSUME r[1] <= r[2] PROVE Len(p) >= 1
  <2>1. r[1] \in 1..Len(chunks) /\ r[2] \in 1..Len(chunks) /\ Len(chunks) \in Nat
    OBVIOUS
  <2> QED
    BY <1>1, <1>5, <2>1 DEF Part
<1> QED
  BY <1>1, <1>2, <1>3, <1>4, <1>5 DEF CutInto, Final

\* The middle of a part of two chunks or more.
LEMMA Middle ==
  ASSUME NEW lo \in Nat, NEW hi \in Nat, lo < hi, NEW mid, mid = lo + (hi - lo + 1) \div 2
  PROVE  mid \in Int /\ lo < mid /\ mid <= hi
  OBVIOUS

\* The pieces of the two halves are those of the whole.
LEMMA HalvesJoin ==
  ASSUME NEW S, NEW chunks \in Seq(S), NEW r \in (DOMAIN chunks) \X (DOMAIN chunks),
         MustSplit(Part(chunks, r)),
         NEW y, CutInto(S, chunks, Lower(r), y), NEW z, CutInto(S, chunks, Upper(r), z)
  PROVE  CutInto(S, chunks, r, y \o z)
<1>1. PICK lo \in DOMAIN chunks, hi \in DOMAIN chunks : r = <<lo, hi>>
  OBVIOUS
<1>2. r[1] = lo /\ r[2] = hi
  BY <1>1
<1>3. Len(chunks) \in Nat /\ lo \in 1..Len(chunks) /\ hi \in 1..Len(chunks)
  OBVIOUS
<1>4. Len(Part(chunks, r)) = IF lo <= hi THEN hi - lo + 1 ELSE 0
  BY <1>2, <1>3 DEF Part
<1>5. lo < hi
  <2>1. Len(Part(chunks, r)) > 1
    BY DEF MustSplit
  <2> QED
    BY <1>3, <1>4, <2>1
<1>6. PICK mid : mid = lo + (hi - lo + 1) \div 2
  OBVIOUS
<1>7. mid \in Int /\ lo < mid /\ mid <= hi
  <2>1. lo \in Nat /\ hi \in Nat
    BY <1>3
  <2> QED
    BY <1>5, <1>6, <2>1, Middle
<1>8. Lower(r) = <<lo, mid - 1>> /\ Upper(r) = <<mid, hi>>
  BY <1>2, <1>6 DEF Lower, Upper, Mid
<1>9. /\ Lower(r)[1] = lo /\ Lower(r)[2] = mid - 1 /\ Upper(r)[1] = mid /\ Upper(r)[2] = hi
      /\ Lower(r)[1] <= Lower(r)[2] /\ Upper(r)[1] <= Upper(r)[2]
  BY <1>3, <1>7, <1>8
<1>10. /\ y \in Seq(Seq(S)) /\ Concat(y) = SubSeq(chunks, lo, mid - 1)
       /\ \A i \in DOMAIN y : Final(y[i])
  BY <1>9 DEF CutInto, Part
<1>11. /\ z \in Seq(Seq(S)) /\ Concat(z) = SubSeq(chunks, mid, hi)
       /\ \A i \in DOMAIN z : Final(z[i])
  BY <1>9 DEF CutInto, Part
<1>12. Concat(y \o z) = SubSeq(chunks, lo, mid - 1) \o SubSeq(chunks, mid, hi)
  BY <1>10, <1>11, ConcatJoins
<1>13. SubSeq(chunks, lo, mid - 1) \o SubSeq(chunks, mid, hi) = SubSeq(chunks, lo, hi)
  <2>1. PICK m : m = mid - 1
    OBVIOUS
  <2>2. lo \in 1..(Len(chunks) + 1) /\ m \in (lo - 1)..Len(chunks) /\ hi \in m..Len(chunks) /\ m + 1 = mid
    BY <1>3, <1>7, <2>1
  <2>3. SubSeq(chunks, lo, m) \o SubSeq(chunks, m + 1, hi) = SubSeq(chunks, lo, hi)
    BY <2>2, ConcatAdjacentSubSeq
  <2> QED
    BY <2>1, <2>2, <2>3
<1>14. y \o z \in Seq(Seq(S)) /\ \A i \in DOMAIN (y \o z) : Final((y \o z)[i])
  BY <1>10, <1>11, JoinedAll
<1> QED
  BY <1>2, <1>12, <1>13, <1>14 DEF CutInto, Part

\* split_tracer_payload cuts a payload into final pieces.
LEMMA SplitIsExact ==
  ASSUME NEW S, NEW chunks \in Seq(S)
  PROVE  /\ SplitTracerPayload(chunks) \in Seq(Seq(S))
         /\ chunks # <<>> =>
              /\ Concat(SplitTracerPayload(chunks)) = chunks
              /\ \A i \in DOMAIN SplitTracerPayload(chunks) : Final(SplitTracerPayload(chunks)[i])
<1> DEFINE D == (DOMAIN chunks) \X (DOMAIN chunks)
           N == Len(chunks)
<1>0. N \in Nat /\ DOMAIN chunks = 1..N
  OBVIOUS
<1>1. PICK h : h = CHOOSE g : SplitLoop(chunks, g)
  OBVIOUS
<1>2. SplitLoop(chunks, h)
  BY <1>1, SplitSolvable
<1>3. SplitTracerPayload(chunks) = IF chunks = <<>> THEN <<chunks>> ELSE h[<<1, N>>]
  BY <1>1 DEF SplitTracerPayload, SplitLoop, SplitBody, Part, Lower, Upper, Mid
<1>4. \A r \in D : h[r] = SplitBody(chunks, h, r)
  BY <1>2 DEF SplitLoop
<1> HIDE DEF D, N
<1> DEFINE T == {n \in 0..N : \A r \in D : Span(r) < n => CutInto(S, chunks, r, h[r])}
<1>5. 0 \in T
  <2>1. \A r \in D : ~(Span(r) < 0)
    <3> TAKE r \in D
    <3>1. Span(r) \in Nat
      BY Halves DEF D
    <3> QED
      BY <3>1
  <2> QED
    BY <1>0, <2>1
<1>6. ASSUME NEW n \in 0..(N - 1), n \in T PROVE n + 1 \in T
  <2>1. n + 1 \in 0..N /\ n \in Nat
    BY <1>0
  <2>2. ASSUME NEW r \in D, Span(r) < n + 1 PROVE CutInto(S, chunks, r, h[r])
    <3>1. CASE MustSplit(Part(chunks, r))
      <4>1. Span(r) \in Nat
        BY Halves DEF D
      <4>2. Lower(r) \in D /\ Span(Lower(r)) < Span(r) /\ Upper(r) \in D /\ Span(Upper(r)) < Span(r)
        BY <3>1, Halves DEF D
      <4>3. Span(Lower(r)) \in Nat /\ Span(Upper(r)) \in Nat
        BY <4>2, Halves DEF D
      <4>4. Span(Lower(r)) < n /\ Span(Upper(r)) < n
        BY <2>1, <2>2, <4>1, <4>2, <4>3
      <4>5. CutInto(S, chunks, Lower(r), h[Lower(r)]) /\ CutInto(S, chunks, Upper(r), h[Upper(r)])
        BY <1>6, <4>2, <4>4
      <4>6. CutInto(S, chunks, r, h[Lower(r)] \o h[Upper(r)])
        BY <3>1, <4>5, HalvesJoin DEF D
      <4> QED
        BY <1>4, <3>1, <4>6 DEF SplitBody
    <3>2. CASE ~MustSplit(Part(chunks, r))
      <4>1. CutInto(S, chunks, r, <<Part(chunks, r)>>)
        BY <3>2, NotSplit DEF D
      <4> QED
        BY <1>4, <3>2, <4>1 DEF SplitBody
    <3> QED
      BY <3>1, <3>2
  <2> QED
    BY <2>1, <2>2
<1> HIDE DEF T
<1>7. N \in T
  <2>1. \A n \in 0..N : n \in T
    BY <1>0, <1>5, <1>6, CountUp
  <2> QED
    BY <1>0, <2>1
<1>8. CASE chunks = <<>>
  <2>1. <<chunks>> \in Seq(Seq(S))
    OBVIOUS
  <2> QED
    BY <1>3, <1>8, <2>1
<1>9. CASE chunks # <<>>
  <2>1. <<1, N>> \in D
    BY <1>9 DEF D, N
  <2>2. Span(<<1, N>>) < N
    BY <2>1, Halves DEF D, N
  <2>3. CutInto(S, chunks, <<1, N>>, h[<<1, N>>])
    BY <1>7, <2>1, <2>2 DEF T
  <2>4. PICK y : y = h[<<1, N>>] /\ y = SplitTracerPayload(chunks)
    BY <1>3, <1>9
  <2>5. 1 <= N /\ <<1, N>>[1] = 1 /\ <<1, N>>[2] = N
    BY <1>0, <1>9 DEF N
  <2>6. y \in Seq(Seq(S)) /\ Concat(y) = SubSeq(chunks, 1, N) /\ \A i \in DOMAIN y : Final(y[i])
    BY <2>3, <2>4, <2>5 DEF CutInto, Part
  <2>7. SubSeq(chunks, 1, N) = chunks
    BY SubSeqFull DEF N
  <2> QED
    BY <2>4, <2>6, <2>7
<1> QED
  BY <1>8, <1>9

-----------------------------------------------------------------------------
(* From payloads to batches.                                               *)

Chunks == Seq(ChunkSizes)

TraceTyped ==
  /\ arriving \in Chunks /\ received \in Seq(Chunks) /\ queued \in Seq(Chunks)
  /\ taken \in 0..Len(queued) /\ traceBatches \in Seq(Seq(Chunks))

AllFinal == \A i \in DOMAIN queued : Final(queued[i])

TraceInv ==
  TraceTyped /\ SplitKeepsChunks /\ AllFinal /\ BatchesTakePieces /\ TraceBatchesFit

LEMMA PieceSizeNat ==
  ASSUME NEW p \in Chunks
  PROVE  Total(p) \in Nat /\ PieceSize(p) \in Nat
<1>1. \A x \in ChunkSizes : x \in Nat
  BY TraceBatchingAssumption
<1>2. Total(p) \in Nat
  BY <1>1, TotalParts DEF Chunks
<1> QED
  BY <1>2, TraceBatchingAssumption DEF PieceSize, EncodedLen

\* The budget of a split leaves room for the envelope.
LEMMA WithinBudget ==
  ASSUME NEW o \in Nat, NEW t \in Nat, NEW e \in Nat, NEW m \in Nat, NEW l \in Nat,
         l >= 1, ~(o + t > m - e /\ l > 1)
  PROVE  o + t + e <= m \/ l = 1
  OBVIOUS

\* A final piece is within the limit unless it is one chunk.
LEMMA FinalFits ==
  ASSUME NEW p \in Chunks, Final(p)
  PROVE  PieceSize(p) <= MaxContentSize \/ Len(p) = 1
<1>1. Total(p) \in Nat /\ Len(p) \in Nat
  BY PieceSizeNat DEF Chunks
<1>2. SplitBudget = MaxContentSize - Envelope
  BY TraceBatchingAssumption DEF SplitBudget
<1>3. Len(p) >= 1 /\ ~(Overhead + Total(p) > MaxContentSize - Envelope /\ Len(p) > 1)
  BY <1>2 DEF Final, MustSplit, EncodedLen
<1>4. Overhead + Total(p) + Envelope <= MaxContentSize \/ Len(p) = 1
  BY <1>1, <1>3, TraceBatchingAssumption, WithinBudget
<1> QED
  BY <1>4 DEF PieceSize, EncodedLen

\* The recorded sizes of a run of pieces.
LEMMA SizesOfRun ==
  ASSUME NEW w \in Seq(Chunks), NEW n \in 0..Len(w)
  PROVE  /\ PieceSizes(w) \in Seq(Nat) /\ Len(PieceSizes(w)) = Len(w)
         /\ PieceSizes(SubSeq(w, 1, n)) = SubSeq(PieceSizes(w), 1, n)
<1>1. Len(w) \in Nat /\ \A i \in 1..Len(w) : w[i] \in Chunks
  OBVIOUS
<1>2. \A i \in 1..Len(w) : PieceSize(w[i]) \in Nat
  BY <1>1, PieceSizeNat
<1>3. PICK z : z = PieceSizes(w)
  OBVIOUS
<1>4. z \in Seq(Nat) /\ Len(z) = Len(w) /\ \A i \in 1..Len(w) : z[i] = PieceSize(w[i])
  BY <1>1, <1>2, <1>3 DEF PieceSizes
<1>5. PICK b : b = SubSeq(w, 1, n)
  OBVIOUS
<1>6. Len(b) = n /\ \A i \in 1..n : b[i] = w[i]
  BY <1>1, <1>5
<1>7. PieceSizes(b) = [i \in 1..n |-> PieceSize(w[i])]
  BY <1>6 DEF PieceSizes
<1>8. SubSeq(z, 1, n) = [i \in 1..n |-> PieceSize(w[i])]
  <2>1. PICK s : s = SubSeq(z, 1, n)
    OBVIOUS
  <2>2. s \in Seq(Nat) /\ Len(s) = n /\ \A i \in 1..n : s[i] = z[i]
    BY <1>1, <1>4, <2>1
  <2>3. s = [i \in 1..n |-> s[i]]
    BY <2>2
  <2>4. \A i \in 1..n : s[i] = PieceSize(w[i])
    BY <1>1, <1>4, <2>2
  <2> QED
    BY <2>1, <2>3, <2>4
<1> QED
  BY <1>3, <1>4, <1>5, <1>7, <1>8

\* split and add.
LEMMA AddPiecesInv == ASSUME TraceInv, AddPieces PROVE TraceInv'
<1>0. /\ arriving # <<>> /\ received' = Append(received, arriving)
      /\ queued' = queued \o SplitTracerPayload(arriving) /\ arriving' = <<>>
      /\ taken' = taken /\ traceBatches' = traceBatches
  BY DEF AddPieces
<1>1. /\ arriving \in Chunks /\ received \in Seq(Chunks) /\ queued \in Seq(Chunks)
      /\ taken \in 0..Len(queued) /\ traceBatches \in Seq(Seq(Chunks))
  BY DEF TraceInv, TraceTyped
<1>2. PICK y : y = SplitTracerPayload(arriving)
  OBVIOUS
<1>3. y \in Seq(Chunks) /\ Concat(y) = arriving /\ \A i \in DOMAIN y : Final(y[i])
  BY <1>0, <1>1, <1>2, SplitIsExact DEF Chunks
<1>4. queued' \in Seq(Chunks) /\ AllFinal'
  <2>1. \A i \in DOMAIN queued : Final(queued[i])
    BY DEF TraceInv, AllFinal
  <2>2. PICK q : q = queued \o y
    OBVIOUS
  <2>3. q \in Seq(Chunks) /\ \A i \in DOMAIN q : Final(q[i])
    BY <1>1, <1>3, <2>1, <2>2, JoinedAll DEF Chunks
  <2>4. queued' = q
    BY <1>0, <1>2, <2>2
  <2> QED
    BY <2>3, <2>4 DEF AllFinal
<1>5. Len(queued') = Len(queued) + Len(y) /\ Len(queued) \in Nat /\ Len(y) \in Nat
  BY <1>0, <1>1, <1>2, <1>3
<1>6. TraceTyped'
  <2>1. taken' \in 0..Len(queued')
    BY <1>0, <1>1, <1>5
  <2>2. <<>> \in Chunks /\ received' \in Seq(Chunks)
    BY <1>0, <1>1 DEF Chunks
  <2> QED
    BY <1>0, <1>1, <1>4, <2>1, <2>2 DEF TraceTyped
<1>7. SplitKeepsChunks'
  <2>1. Concat(queued) = Concat(received)
    BY DEF TraceInv, SplitKeepsChunks
  <2>2. Concat(queued \o y) = Concat(queued) \o Concat(y)
    BY <1>1, <1>3, ConcatJoins DEF Chunks
  <2>3. Concat(Append(received, arriving)) = Concat(received) \o arriving
    BY <1>1, ConcatGrows DEF Chunks
  <2> QED
    BY <1>0, <1>2, <1>3, <2>1, <2>2, <2>3 DEF SplitKeepsChunks
<1>8. BatchesTakePieces'
  <2>1. SubSeq(queued \o y, 1, taken) = SubSeq(queued, 1, taken)
    BY <1>1, <1>3, PrefixOfJoined
  <2> QED
    BY <1>0, <1>2, <2>1 DEF TraceInv, BatchesTakePieces
<1>9. TraceBatchesFit'
  BY <1>0 DEF TraceInv, TraceBatchesFit
<1> QED
  BY <1>4, <1>6, <1>7, <1>8, <1>9 DEF TraceInv

\* A round of the flush.
LEMMA GetTraceBatchInv == ASSUME TraceInv, GetTraceBatch PROVE TraceInv'
<1>1. /\ arriving \in Chunks /\ received \in Seq(Chunks) /\ queued \in Seq(Chunks)
      /\ taken \in 0..Len(queued) /\ traceBatches \in Seq(Seq(Chunks)) /\ Len(queued) \in Nat
  BY DEF TraceInv, TraceTyped
<1>2. PICK w : w = SubSeq(queued, taken + 1, Len(queued))
  OBVIOUS
<1>3. PICK z : z = PieceSizes(w)
  OBVIOUS
<1>4. PICK n : n = GetBatchLength(z)
  OBVIOUS
<1>5. PICK b : b = SubSeq(w, 1, n)
  OBVIOUS
<1>6. /\ w # <<>> /\ traceBatches' = Append(traceBatches, b) /\ taken' = taken + n
      /\ arriving' = arriving /\ queued' = queued /\ received' = received
  BY <1>2, <1>3, <1>4, <1>5 DEF GetTraceBatch, Waiting
<1>7. w \in Seq(Chunks) /\ Len(w) = Len(queued) - taken /\ Len(w) \in Nat
  BY <1>1, <1>2
<1>8. z \in Seq(Nat) /\ Len(z) = Len(w) /\ z # <<>>
  <2>1. 0 \in 0..Len(w)
    BY <1>7
  <2>2. z \in Seq(Nat) /\ Len(z) = Len(w)
    BY <1>3, <1>7, <2>1, SizesOfRun
  <2> QED
    BY <1>6, <1>7, <2>2
<1>9. n \in 1..Len(w) /\ (n = 1 \/ Total(SubSeq(z, 1, n)) <= MaxContentSize)
  <2>1. Len(z) >= 1
    BY <1>8
  <2> QED
    BY <1>4, <1>7, <1>8, <2>1, BatchLengthOK
<1>10. b \in Seq(Chunks) /\ Len(b) = n
  BY <1>5, <1>7, <1>9
<1>11. Total(PieceSizes(b)) <= MaxContentSize \/ Len(b) = 1
  <2>1. n \in 0..Len(w)
    BY <1>7, <1>9
  <2>2. PieceSizes(b) = SubSeq(z, 1, n)
    BY <1>3, <1>5, <1>7, <2>1, SizesOfRun
  <2> QED
    BY <1>9, <1>10, <2>2
<1>12. TraceTyped'
  <2>1. taken' \in 0..Len(queued')
    BY <1>1, <1>6, <1>7, <1>9
  <2>2. traceBatches' \in Seq(Seq(Chunks))
    BY <1>1, <1>6, <1>10
  <2> QED
    BY <1>1, <1>6, <2>1, <2>2 DEF TraceTyped
<1>13. BatchesTakePieces'
  <2>1. Concat(traceBatches) = SubSeq(queued, 1, taken)
    BY DEF TraceInv, BatchesTakePieces
  <2>2. Concat(Append(traceBatches, b)) = Concat(traceBatches) \o b
    BY <1>1, <1>10, ConcatGrows
  <2>3. b = SubSeq(queued, taken + 1, taken + n)
    BY <1>1, <1>2, <1>5, <1>7, <1>9, RunOfRest
  <2>4. 1 \in 1..(Len(queued) + 1) /\ taken \in (1 - 1)..Len(queued) /\ taken + n \in taken..Len(queued)
    BY <1>1, <1>7, <1>9
  <2>5. SubSeq(queued, 1, taken) \o SubSeq(queued, taken + 1, taken + n) = SubSeq(queued, 1, taken + n)
    BY <1>1, <2>4, ConcatAdjacentSubSeq
  <2> QED
    BY <1>6, <2>1, <2>2, <2>3, <2>5 DEF BatchesTakePieces
<1>14. TraceBatchesFit'
  <2>1. PICK t : t = Append(traceBatches, b)
    OBVIOUS
  <2>2. /\ Len(traceBatches) \in Nat /\ DOMAIN traceBatches = 1..Len(traceBatches)
        /\ DOMAIN t = 1..(Len(traceBatches) + 1) /\ t[Len(traceBatches) + 1] = b
        /\ \A i \in 1..Len(traceBatches) : t[i] = traceBatches[i]
    BY <1>1, <1>10, <2>1
  <2>3. Len(b) >= 1
    BY <1>7, <1>9, <1>10
  <2>4. ASSUME NEW i \in DOMAIN t
        PROVE  Len(t[i]) >= 1 /\ (Total(PieceSizes(t[i])) <= MaxContentSize \/ Len(t[i]) = 1)
    <3>1. CASE i = Len(traceBatches) + 1
      BY <1>11, <2>2, <2>3, <3>1
    <3>2. CASE i \in 1..Len(traceBatches)
      <4>1. t[i] = traceBatches[i] /\ i \in DOMAIN traceBatches
        BY <2>2, <3>2
      <4> QED
        BY <4>1 DEF TraceInv, TraceBatchesFit
    <3> QED
      BY <2>2, <3>1, <3>2
  <2> QED
    BY <1>6, <2>1, <2>4 DEF TraceBatchesFit
<1>15. SplitKeepsChunks' /\ AllFinal'
  BY <1>6 DEF TraceInv, SplitKeepsChunks, AllFinal
<1> QED
  BY <1>12, <1>13, <1>14, <1>15 DEF TraceInv

\* The invariant holds whatever payloads arrive.
LEMMA TraceInvariance == TraceSpec => []TraceInv
<1>1. TraceInit => TraceInv
  <2> SUFFICES ASSUME TraceInit PROVE TraceInv
    OBVIOUS
  <2>1. arriving = <<>> /\ queued = <<>> /\ taken = 0 /\ traceBatches = <<>> /\ received = <<>>
    BY DEF TraceInit
  <2>2. <<>> \in Seq(Seq(ChunkSizes)) /\ <<>> \in Seq(Seq(Seq(ChunkSizes))) /\ <<>> \in Seq(ChunkSizes) /\ Len(<<>>) = 0
    OBVIOUS
  <2>3. Concat(<<>>) = <<>>
    BY <2>2, ConcatGrows
  <2>4. SubSeq(<<>>, 1, 0) = <<>>
    OBVIOUS
  <2>5. TraceTyped
    BY <2>1, <2>2 DEF TraceTyped, Chunks
  <2>6. SplitKeepsChunks /\ BatchesTakePieces
    BY <2>1, <2>3, <2>4 DEF SplitKeepsChunks, BatchesTakePieces
  <2>7. DOMAIN queued = {} /\ DOMAIN traceBatches = {}
    BY <2>1
  <2>8. AllFinal /\ TraceBatchesFit
    BY <2>7 DEF AllFinal, TraceBatchesFit
  <2> QED
    BY <2>5, <2>6, <2>8 DEF TraceInv
<1>2. TraceInv /\ [TraceNext]_traceVars => TraceInv'
  <2> SUFFICES ASSUME TraceInv, [TraceNext]_traceVars PROVE TraceInv'
    OBVIOUS
  <2>1. CASE AddPieces
    BY <2>1, AddPiecesInv
  <2>2. CASE GetTraceBatch
    BY <2>2, GetTraceBatchInv
  <2>3. ASSUME NEW n \in ChunkSizes, Grow(n) PROVE TraceInv'
    <3>1. /\ arriving' = Append(arriving, n) /\ queued' = queued /\ taken' = taken
          /\ traceBatches' = traceBatches /\ received' = received
      BY <2>3 DEF Grow
    <3>2. arriving' \in Chunks
      BY <3>1 DEF TraceInv, TraceTyped, Chunks
    <3> QED
      BY <3>1, <3>2
      DEF TraceInv, TraceTyped, SplitKeepsChunks, AllFinal, BatchesTakePieces, TraceBatchesFit
  <2>4. CASE UNCHANGED traceVars
    BY <2>4
    DEF traceVars, TraceInv, TraceTyped, SplitKeepsChunks, AllFinal, BatchesTakePieces, TraceBatchesFit
  <2> QED
    BY <2>1, <2>2, <2>3, <2>4 DEF TraceNext
<1> QED
  BY <1>1, <1>2, PTL DEF TraceSpec

\* Whatever chunks arrive and whatever the limit is: splitting and batching
\* lose, duplicate and reorder no chunk, a piece is over the limit only when it
\* is a single chunk, and a batch is never empty and over the limit only when
\* it is a single payload (trace_processor.rs, split_tracer_payload;
\* aggregator.rs, get_batch).
THEOREM TracesCutExactly == TraceSpec => []TraceBatchesExact
<1>1. TraceInv => TraceBatchesExact
  <2> SUFFICES ASSUME TraceInv PROVE TraceBatchesExact
    OBVIOUS
  <2>1. PiecesFit
    <3>1. \A i \in DOMAIN queued : queued[i] \in Chunks /\ Final(queued[i])
      BY DEF TraceInv, TraceTyped, AllFinal
    <3> QED
      BY <3>1, FinalFits DEF PiecesFit
  <2> QED
    BY <2>1 DEF TraceInv, TraceBatchesExact
<1> QED
  BY <1>1, TraceInvariance, PTL

-----------------------------------------------------------------------------
(* The way of the pieces.                                                  *)

Piece == UNION {{Pieces(r)[i] : i \in DOMAIN Pieces(r)} : r \in Requests}

LEMMA PiecesOK ==
  ASSUME NEW r \in Requests
  PROVE  Pieces(r) \in Seq(Piece) /\ \A i \in DOMAIN Pieces(r) : Pieces(r)[i].of = r
<1>1. PICK s : s = SplitTracerPayload(Payload[r])
  OBVIOUS
<1>2. Payload[r] \in Seq(Nat)
  OBVIOUS
<1>3. s \in Seq(Seq(Nat))
  BY <1>1, <1>2, SplitIsExact
<1>4. Len(s) \in Nat
  BY <1>3
<1>5. Pieces(r) = [i \in 1..Len(s) |-> [of |-> r, no |-> i, size |-> PieceSize(s[i])]]
  BY <1>1 DEF Pieces
<1>6. DOMAIN Pieces(r) = 1..Len(s) /\ \A i \in DOMAIN Pieces(r) : Pieces(r)[i].of = r
  BY <1>5
<1>7. \A i \in 1..Len(s) : Pieces(r)[i] \in Piece
  BY <1>6 DEF Piece
<1>8. Pieces(r) = [i \in 1..Len(s) |-> Pieces(r)[i]]
  BY <1>5, <1>6
<1>9. Pieces(r) \in [1..Len(s) -> Piece]
  BY <1>7, <1>8
<1>10. PICK n \in Nat : n = Len(s)
  BY <1>4
<1>11. PICK f : f = Pieces(r)
  OBVIOUS
<1>12. f \in [1..n -> Piece]
  BY <1>9, <1>10, <1>11
<1>13. f \in Seq(Piece)
  BY <1>12
<1> QED
  BY <1>6, <1>11, <1>13

\* Everything between the enqueue tasks and the outside, oldest first.
Pipe(l, b, q, h, c) == l \o b \o q \o h \o c

LEMMA PipeOK ==
  ASSUME NEW S, NEW l \in Seq(S), NEW b \in Seq(S), NEW q \in Seq(S), NEW h \in Seq(S), NEW c \in Seq(S)
  PROVE  Pipe(l, b, q, h, c) \in Seq(S)
  BY DEF Pipe

LEMMA Regroup ==
  ASSUME NEW S, NEW a \in Seq(S), NEW b \in Seq(S), NEW c \in Seq(S)
  PROVE  (a \o b) \o c = a \o (b \o c) /\ a \o <<>> = a /\ <<>> \o a = a /\ a \o b \in Seq(S)
  OBVIOUS

\* z is x and then y.
Joins(S, x, y, z) == x \in Seq(S) /\ y \in Seq(S) /\ x \o y = z

LEMMA JoinAfter ==
  ASSUME NEW S, NEW a \in Seq(S), NEW x, NEW y, NEW z, Joins(S, x, y, z)
  PROVE  (a \o x) \o y = a \o z
<1>1. x \in Seq(S) /\ y \in Seq(S)
  BY DEF Joins
<1>2. (a \o x) \o y = a \o (x \o y)
  BY <1>1, ConcatAssociative
<1> QED
  BY <1>2 DEF Joins

LEMMA CutJoins ==
  ASSUME NEW S, NEW q \in Seq(S), NEW n \in 0..Len(q)
  PROVE  Joins(S, SubSeq(q, 1, n), SubSeq(q, n + 1, Len(q)), q)
<1>1. Len(q) \in Nat /\ 1 \in 1..(Len(q) + 1) /\ n \in (1 - 1)..Len(q) /\ Len(q) \in n..Len(q)
  OBVIOUS
<1>2. SubSeq(q, 1, n) \o SubSeq(q, n + 1, Len(q)) = SubSeq(q, 1, Len(q))
  BY <1>1, ConcatAdjacentSubSeq
<1>3. SubSeq(q, 1, Len(q)) = q
  BY SubSeqFull
<1>4. SubSeq(q, 1, n) \in Seq(S) /\ SubSeq(q, n + 1, Len(q)) \in Seq(S)
  BY <1>1
<1> QED
  BY <1>2, <1>3, <1>4 DEF Joins

LEMMA HeadJoins ==
  ASSUME NEW S, NEW c \in Seq(S), c # <<>>
  PROVE  Joins(S, <<Head(c)>>, Tail(c), c)
<1>1. <<Head(c)>> \in Seq(S) /\ Tail(c) \in Seq(S) /\ <<Head(c)>> \o Tail(c) = c
  OBVIOUS
<1> QED
  BY <1>1 DEF Joins

\* Receive.
LEMMA PipeReceive ==
  ASSUME NEW S, NEW l \in Seq(S), NEW b \in Seq(S), NEW q \in Seq(S), NEW c \in Seq(S), c # <<>>
  PROVE  Pipe(l, b, q, <<Head(c)>>, Tail(c)) = Pipe(l, b, q, <<>>, c)
<1>1. PICK h : h = <<Head(c)>>
  OBVIOUS
<1>2. PICK t : t = Tail(c)
  OBVIOUS
<1>3. Joins(S, h, t, c)
  BY <1>1, <1>2, HeadJoins
<1>4. PICK a : a = l \o b \o q
  OBVIOUS
<1>5. a \in Seq(S)
  BY <1>4
<1>6. (a \o h) \o t = a \o c /\ a \o <<>> = a
  <2>1. (a \o h) \o t = a \o c
    BY <1>3, <1>5, JoinAfter
  <2>2. a \o <<>> = a
    BY <1>5
  <2> QED
    BY <2>1, <2>2
<1> QED
  BY <1>1, <1>2, <1>4, <1>6 DEF Pipe

\* Add.
LEMMA PipeAdd ==
  ASSUME NEW S, NEW l \in Seq(S), NEW b \in Seq(S), NEW q \in Seq(S), NEW h \in Seq(S), NEW c \in Seq(S)
  PROVE  Pipe(l, b, q \o h, <<>>, c) = Pipe(l, b, q, h, c)
<1>1. PICK a : a = l \o b
  OBVIOUS
<1>2. a \in Seq(S) /\ q \o h \in Seq(S)
  BY <1>1
<1>3. a \o (q \o h) = (a \o q) \o h /\ a \o (q \o h) \in Seq(S)
  <2>1. (a \o q) \o h = a \o (q \o h)
    BY SMTT(60), <1>2, ConcatAssociative
  <2>2. a \o (q \o h) \in Seq(S)
    BY <1>2
  <2> QED
    BY <2>1, <2>2
<1>4. (a \o (q \o h)) \o <<>> = a \o (q \o h)
  BY <1>3, Regroup
<1> QED
  BY <1>1, <1>3, <1>4 DEF Pipe

\* TakeBatch.
LEMMA PipeTake ==
  ASSUME NEW S, NEW l \in Seq(S), NEW q \in Seq(S), NEW h \in Seq(S), NEW c \in Seq(S), NEW n \in 0..Len(q)
  PROVE  Pipe(l, SubSeq(q, 1, n), SubSeq(q, n + 1, Len(q)), h, c) = Pipe(l, <<>>, q, h, c)
<1>1. PICK x : x = SubSeq(q, 1, n)
  OBVIOUS
<1>2. PICK y : y = SubSeq(q, n + 1, Len(q))
  OBVIOUS
<1>3. Joins(S, x, y, q)
  BY <1>1, <1>2, CutJoins
<1>4. (l \o x) \o y = l \o q
  BY SMTT(60), <1>3, JoinAfter
<1>5. l \o <<>> = l
  OBVIOUS
<1> QED
  BY <1>1, <1>2, <1>4, <1>5 DEF Pipe

\* SendGroup.
LEMMA PipeSend ==
  ASSUME NEW S, NEW l \in Seq(S), NEW b \in Seq(S), NEW q \in Seq(S), NEW h \in Seq(S), NEW c \in Seq(S), NEW n \in 0..Len(b)
  PROVE  Pipe(l \o SubSeq(b, 1, n), SubSeq(b, n + 1, Len(b)), q, h, c) = Pipe(l, b, q, h, c)
<1>1. PICK x : x = SubSeq(b, 1, n)
  OBVIOUS
<1>2. PICK y : y = SubSeq(b, n + 1, Len(b))
  OBVIOUS
<1>3. Joins(S, x, y, b)
  BY <1>1, <1>2, CutJoins
<1>4. (l \o x) \o y = l \o b
  BY SMTT(60), <1>3, JoinAfter
<1> QED
  BY <1>1, <1>2, <1>4 DEF Pipe

\* NoClient, and Abort while a batch is sent.
LEMMA PipeDrop ==
  ASSUME NEW S, NEW l \in Seq(S), NEW b \in Seq(S), NEW q \in Seq(S), NEW h \in Seq(S), NEW c \in Seq(S)
  PROVE  Pipe(l \o b, <<>>, q, h, c) = Pipe(l, b, q, h, c)
<1>1. (l \o b) \o <<>> = l \o b
  BY Regroup
<1> QED
  BY <1>1 DEF Pipe

\* Abort of a flusher that had not started.
LEMMA PipeAbandon ==
  ASSUME NEW S, NEW l \in Seq(S), NEW c \in Seq(S)
  PROVE  Pipe(l \o <<>> \o c, <<>>, <<>>, <<>>, <<>>) = Pipe(l, <<>>, <<>>, <<>>, c)
<1>1. l \o <<>> = l /\ l \o c \in Seq(S)
  BY Regroup
<1>2. (l \o c) \o <<>> = l \o c
  BY <1>1, Regroup
<1> QED
  BY <1>1, <1>2 DEF Pipe

\* EnqueuePiece.
Piped(S, l, b, q, h, c) == l \in Seq(S) /\ b \in Seq(S) /\ q \in Seq(S) /\ h \in Seq(S) /\ c \in Seq(S)

LEMMA PipeEnqueue ==
  ASSUME NEW S, NEW l, NEW b, NEW q, NEW h, NEW c, NEW p, Piped(S, l, b, q, h, c), p \in S
  PROVE  Pipe(l, b, q, h, Append(c, p)) = Append(Pipe(l, b, q, h, c), p)
<1>1. PICK a : a = l \o b \o q \o h
  OBVIOUS
<1>2. a \in Seq(S) /\ c \in Seq(S)
  BY <1>1 DEF Piped
<1>3. a \o Append(c, p) = Append(a \o c, p)
  BY <1>2
<1> QED
  BY <1>1, <1>3 DEF Pipe

\* EndEnqueue with the receiver gone.
LEMMA PipeGiveUp ==
  ASSUME NEW S, NEW l \in Seq(S), NEW t \in Seq(S)
  PROVE  Pipe(l \o t, <<>>, <<>>, <<>>, <<>>) = Pipe(l, <<>>, <<>>, <<>>, <<>>) \o t
<1>1. l \o t \in Seq(S) /\ l \o <<>> = l
  BY Regroup
<1>2. (l \o t) \o <<>> = l \o t
  BY <1>1, Regroup
<1> QED
  BY <1>1, <1>2 DEF Pipe

-----------------------------------------------------------------------------
(* The pieces of a buffered payload: the inductive invariant.              *)

InPipe == Pipe(left, batch, queue, hand, channel)

PiecesTyped ==
  /\ left \in Seq(Piece) /\ batch \in Seq(Piece) /\ queue \in Seq(Piece)
  /\ hand \in Seq(Piece) /\ channel \in Seq(Piece) /\ todo \in [Requests -> Seq(Piece)]

\* A task has pieces of its own request to send.
TodoOwn == \A r \in Requests : \A i \in DOMAIN todo[r] : todo[r][i].of = r

\* A handler that has not finished has not answered.
Unanswered == \A r \in Requests : phase[r] \in {"new", "waiting", "decoding"} => response[r] = "none"

\* Where nothing can be: behind a closed channel, before the flusher starts,
\* and in the batch of a flusher that sleeps.
Quiet ==
  /\ ~open => flusher = "aborted" /\ batch = <<>> /\ queue = <<>> /\ hand = <<>> /\ channel = <<>>
  /\ flusher = "starting" => batch = <<>> /\ queue = <<>> /\ hand = <<>>
  /\ flusher = "sleeping" => batch = <<>>

PieceInv == PiecesTyped /\ TodoOwn /\ Unanswered /\ Quiet /\ PiecesInOrder

\* What the answer of r promises.
Promised(r, a) == IF a = "buffered" THEN Pieces(r) ELSE <<>>

LEMMA InOrderNow ==
  PiecesInOrder <=> \A r \in Requests : Of(r, InPipe) \o todo[r] = Promised(r, response[r])
  BY DEF PiecesInOrder, InPipe, Pipe, Promised

LEMMA InOrderNext ==
  PiecesInOrder' <=> \A r \in Requests : Of(r, InPipe') \o todo'[r] = Promised(r, response'[r])
  BY DEF PiecesInOrder, InPipe, Pipe, Promised, Of

\* The flusher and the adder pass pieces on.
LEMMA PassedOn ==
  ASSUME PieceInv, InPipe' = InPipe, UNCHANGED <<todo, phase, response>>,
         left' \in Seq(Piece), batch' \in Seq(Piece), queue' \in Seq(Piece),
         hand' \in Seq(Piece), channel' \in Seq(Piece), Quiet'
  PROVE  PieceInv'
<1>1. PiecesTyped' /\ TodoOwn' /\ Unanswered'
  BY DEF PieceInv, PiecesTyped, TodoOwn, Unanswered
<1>2. \A r \in Requests : Of(r, InPipe) \o todo[r] = Promised(r, response[r])
  BY InOrderNow DEF PieceInv
<1>3. \A r \in Requests : Of(r, InPipe') \o todo'[r] = Promised(r, response'[r])
  BY <1>2
<1>4. PiecesInOrder'
  BY <1>3, InOrderNext
<1> QED
  BY <1>1, <1>4 DEF PieceInv

LEMMA TakeBatchOK ==
  ASSUME PieceInv, TakeBatch
  PROVE  /\ batch' \in Seq(Piece) /\ queue' \in Seq(Piece)
         /\ Pipe(left, batch', queue', hand, channel) = Pipe(left, <<>>, queue, hand, channel)
<1>1. queue \in Seq(Piece) /\ left \in Seq(Piece) /\ hand \in Seq(Piece) /\ channel \in Seq(Piece)
  BY DEF PieceInv, PiecesTyped
<1>2. PICK sizes : sizes = Size(queue)
  OBVIOUS
<1>3. sizes = [i \in 1..Len(queue) |-> queue[i].size] /\ Len(queue) \in Nat
  BY <1>1, <1>2 DEF Size
<1>4. PICK V : V = {queue[i].size : i \in 1..Len(queue)}
  OBVIOUS
<1>5. sizes \in Seq(V) /\ Len(sizes) = Len(queue)
  BY <1>3, <1>4
<1>6. PICK n : n = GetBatchLength(sizes)
  OBVIOUS
<1>7. n \in 0..Len(sizes)
  BY <1>5, <1>6, BatchLengthOK
<1>8. n \in 0..Len(queue)
  BY <1>5, <1>7
<1>9. batch' = SubSeq(queue, 1, n) /\ queue' = SubSeq(queue, n + 1, Len(queue))
  BY <1>2, <1>6 DEF TakeBatch
<1>10. Joins(Piece, SubSeq(queue, 1, n), SubSeq(queue, n + 1, Len(queue)), queue)
  BY <1>1, <1>8, CutJoins
<1>11. batch' \in Seq(Piece) /\ queue' \in Seq(Piece)
  BY <1>9, <1>10 DEF Joins
<1>12. Pipe(left, SubSeq(queue, 1, n), SubSeq(queue, n + 1, Len(queue)), hand, channel) = Pipe(left, <<>>, queue, hand, channel)
  BY <1>1, <1>8, PipeTake
<1> QED
  BY <1>9, <1>11, <1>12

LEMMA FlusherPieces ==
  ASSUME IInv, PieceInv,
         StartFlusher \/ Receive \/ Add \/ BeginFlush \/ CreateClient \/ NoClient \/ NextBatch
           \/ Abort \/ (\E n \in 1..Len(batch) : SendGroup(n)) \/ UNCHANGED vars
  PROVE  PieceInv'
<1>0. /\ left \in Seq(Piece) /\ batch \in Seq(Piece) /\ queue \in Seq(Piece)
      /\ hand \in Seq(Piece) /\ channel \in Seq(Piece)
  BY DEF PieceInv, PiecesTyped
<1>1. CASE StartFlusher \/ CreateClient \/ UNCHANGED vars
  <2>1. UNCHANGED <<left, batch, queue, hand, channel, todo, phase, response, open>>
    BY <1>1 DEF StartFlusher, CreateClient, vars, handlers, enqueue, flush
  <2>2. InPipe' = InPipe
    BY <2>1 DEF InPipe, Pipe
  <2>3. Quiet'
    BY <1>1, <2>1 DEF PieceInv, Quiet, StartFlusher, CreateClient, vars, flush
  <2> QED
    BY <1>0, <2>1, <2>2, <2>3, PassedOn
<1>2. CASE Receive
  <2>1. /\ flusher # "starting" /\ open /\ channel # <<>> /\ hand = <<>>
        /\ hand' = <<Head(channel)>> /\ channel' = Tail(channel)
        /\ UNCHANGED <<left, batch, queue, todo, phase, response, open, flusher>>
    BY <1>2 DEF Receive, handlers
  <2>2. Joins(Piece, <<Head(channel)>>, Tail(channel), channel)
    BY <1>0, <2>1, HeadJoins
  <2>3. hand' \in Seq(Piece) /\ channel' \in Seq(Piece)
    BY <2>1, <2>2 DEF Joins
  <2>4. Pipe(left, batch, queue, <<Head(channel)>>, Tail(channel)) = Pipe(left, batch, queue, <<>>, channel)
    BY <1>0, <2>1, PipeReceive
  <2>5. InPipe' = InPipe
    BY <2>1, <2>4 DEF InPipe, Pipe
  <2>6. Quiet'
    BY <2>1 DEF PieceInv, Quiet
  <2> QED
    BY <1>0, <2>1, <2>3, <2>5, <2>6, PassedOn
<1>3. CASE Add
  <2>1. /\ hand # <<>> /\ queue' = queue \o hand /\ hand' = <<>>
        /\ UNCHANGED <<left, batch, channel, todo, phase, response, open, flusher>>
    BY <1>3 DEF Add, handlers, enqueue
  <2>2. queue' \in Seq(Piece) /\ hand' \in Seq(Piece)
    BY <1>0, <2>1
  <2>3. Pipe(left, batch, queue \o hand, <<>>, channel) = Pipe(left, batch, queue, hand, channel)
    BY <1>0, PipeAdd
  <2>4. InPipe' = InPipe
    BY <2>1, <2>3 DEF InPipe, Pipe
  <2>5. Quiet'
    BY <2>1 DEF PieceInv, Quiet
  <2> QED
    BY <1>0, <2>1, <2>2, <2>4, <2>5, PassedOn
<1>4. CASE BeginFlush
  <2>1. flusher = "sleeping" /\ flusher' = "flushing" /\ TakeBatch /\ UNCHANGED <<left, hand, channel, todo, phase, response, open>>
    BY <1>4 DEF BeginFlush, handlers, enqueue
  <2>2. batch = <<>>
    BY <2>1 DEF PieceInv, Quiet
  <2>3. InPipe' = InPipe
    BY <2>1, <2>2, TakeBatchOK DEF InPipe, Pipe
  <2>4. Quiet'
    BY <2>1 DEF PieceInv, Quiet
  <2> QED
    BY <1>0, <2>1, <2>3, <2>4, TakeBatchOK, PassedOn
<1>5. CASE NoClient
  <2>1. flusher = "flushing" /\ left' = left \o batch /\ batch' = <<>>
        /\ UNCHANGED <<queue, hand, channel, todo, phase, response, open, flusher>>
    BY <1>5 DEF NoClient, handlers, enqueue
  <2>2. left' \in Seq(Piece) /\ batch' \in Seq(Piece)
    BY <1>0, <2>1
  <2>3. Pipe(left \o batch, <<>>, queue, hand, channel) = Pipe(left, batch, queue, hand, channel)
    BY <1>0, PipeDrop
  <2>4. InPipe' = InPipe
    BY <2>1, <2>3 DEF InPipe, Pipe
  <2>5. Quiet'
    BY <2>1 DEF PieceInv, Quiet
  <2> QED
    BY <1>0, <2>1, <2>2, <2>4, <2>5, PassedOn
<1>6. CASE NextBatch
  <2>1. flusher = "flushing" /\ batch = <<>> /\ UNCHANGED <<left, hand, channel, todo, phase, response, open>>
    BY <1>6 DEF NextBatch, handlers, enqueue
  <2>2. CASE TakeBatch /\ flusher' = flusher
    <3>1. InPipe' = InPipe
      BY <2>1, <2>2, TakeBatchOK DEF InPipe, Pipe
    <3>2. Quiet'
      BY <2>1, <2>2 DEF PieceInv, Quiet
    <3> QED
      BY <1>0, <2>1, <2>2, <3>1, <3>2, TakeBatchOK, PassedOn
  <2>3. CASE flusher' = "sleeping" /\ UNCHANGED <<queue, batch>>
    <3>1. InPipe' = InPipe
      BY <2>1, <2>3 DEF InPipe, Pipe
    <3>2. Quiet'
      BY <2>1, <2>3 DEF PieceInv, Quiet
    <3> QED
      BY <1>0, <2>1, <2>3, <3>1, <3>2, PassedOn
  <2> QED
    BY <1>6, <2>2, <2>3 DEF NextBatch
<1>7. CASE Abort
  <2>1. CASE flusher = "starting"
    <3>1. batch = <<>> /\ queue = <<>> /\ hand = <<>>
      BY <2>1 DEF PieceInv, Quiet
    <3>2. left' = left \o <<>> \o channel /\ batch' = <<>> /\ channel' = <<>> /\ flusher' = "aborted"
          /\ UNCHANGED <<queue, hand, todo, phase, response>>
      BY <1>7, <2>1, <3>1 DEF Abort, handlers
    <3>3. left' \in Seq(Piece) /\ batch' \in Seq(Piece) /\ channel' \in Seq(Piece)
      BY <1>0, <3>2
    <3>4. Pipe(left \o <<>> \o channel, <<>>, <<>>, <<>>, <<>>) = Pipe(left, <<>>, <<>>, <<>>, channel)
      BY <1>0, PipeAbandon
    <3>5. InPipe' = InPipe
      BY <3>1, <3>2, <3>4 DEF InPipe, Pipe
    <3>6. Quiet'
      BY <3>1, <3>2 DEF Quiet
    <3> QED
      BY <1>0, <3>2, <3>3, <3>5, <3>6, PassedOn
  <2>2. CASE flusher # "starting"
    <3>1. left' = left \o batch \o <<>> /\ batch' = <<>> /\ channel' = channel /\ flusher' = "aborted" /\ open' = TRUE
          /\ UNCHANGED <<queue, hand, todo, phase, response>>
      BY <1>7, <2>2 DEF Abort, handlers
    <3>2. left' = left \o batch /\ left' \in Seq(Piece) /\ batch' \in Seq(Piece)
      BY <1>0, <3>1
    <3>3. Pipe(left \o batch, <<>>, queue, hand, channel) = Pipe(left, batch, queue, hand, channel)
      BY <1>0, PipeDrop
    <3>4. InPipe' = InPipe
      BY <3>1, <3>2, <3>3 DEF InPipe, Pipe
    <3>5. Quiet'
      BY <3>1 DEF Quiet
    <3> QED
      BY <1>0, <3>1, <3>2, <3>4, <3>5, PassedOn
  <2> QED
    BY <2>1, <2>2
<1>8. ASSUME NEW n \in 1..Len(batch), SendGroup(n) PROVE PieceInv'
  <2>1. /\ flusher = "sending" /\ left' = left \o SubSeq(batch, 1, n) /\ batch' = SubSeq(batch, n + 1, Len(batch))
        /\ flusher' \in {"flushing", "sending"} /\ UNCHANGED <<queue, hand, channel, todo, phase, response, open>>
    BY <1>8 DEF SendGroup, handlers, enqueue
  <2>2. n \in 0..Len(batch)
    BY <1>0
  <2>3. Joins(Piece, SubSeq(batch, 1, n), SubSeq(batch, n + 1, Len(batch)), batch)
    BY <1>0, <2>2, CutJoins
  <2>4. SubSeq(batch, 1, n) \in Seq(Piece) /\ SubSeq(batch, n + 1, Len(batch)) \in Seq(Piece)
    BY <2>3 DEF Joins
  <2>5. left' \in Seq(Piece) /\ batch' \in Seq(Piece)
    BY <1>0, <2>1, <2>4
  <2>6. Pipe(left \o SubSeq(batch, 1, n), SubSeq(batch, n + 1, Len(batch)), queue, hand, channel) = Pipe(left, batch, queue, hand, channel)
    BY <1>0, <2>2, PipeSend
  <2>7. InPipe' = InPipe
    BY <2>1, <2>6 DEF InPipe, Pipe
  <2>8. Quiet'
    BY <2>1 DEF PieceInv, Quiet
  <2> QED
    BY <1>0, <2>1, <2>5, <2>7, <2>8, PassedOn
<1> QED
  BY <1>1, <1>2, <1>3, <1>4, <1>5, <1>6, <1>7, <1>8

\* A handler goes on, or answers that its payload is not buffered.
LEMMA NothingBuffered ==
  ASSUME IInv, PieceInv, NEW r \in Requests,
         UNCHANGED <<left, batch, queue, hand, channel, todo, open, flusher>>,
         phase[r] \in {"new", "waiting", "decoding"},
         NEW p \in {"waiting", "decoding", "done", "gone"}, phase' = [phase EXCEPT ![r] = p],
         \/ response' = response
         \/ p = "done" /\ \E a \in {"error", "dropped"} : response' = [response EXCEPT ![r] = a]
  PROVE  PieceInv'
<1>1. PiecesTyped' /\ TodoOwn' /\ Quiet'
  BY DEF PieceInv, PiecesTyped, TodoOwn, Quiet
<1>2. /\ phase'[r] = p /\ \A q \in Requests : q # r => phase'[q] = phase[q]
      /\ \A q \in Requests : q # r => response'[q] = response[q]
      /\ response[r] = "none"
      /\ response'[r] = "none" \/ (p = "done" /\ response'[r] \in {"error", "dropped"})
  BY DEF IInv, PieceInv, Unanswered
<1>3. Unanswered'
  BY <1>2 DEF PieceInv, Unanswered
<1>4. InPipe' = InPipe
  BY DEF InPipe, Pipe
<1>5. \A q \in Requests : Promised(q, response'[q]) = Promised(q, response[q])
  BY <1>2 DEF Promised
<1>6. \A q \in Requests : Of(q, InPipe) \o todo[q] = Promised(q, response[q])
  BY InOrderNow DEF PieceInv
<1>7. \A q \in Requests : Of(q, InPipe') \o todo'[q] = Promised(q, response'[q])
  BY <1>4, <1>5, <1>6
<1>8. PiecesInOrder'
  BY <1>7, InOrderNext
<1> QED
  BY <1>1, <1>3, <1>8 DEF PieceInv

\* A payload is split and given to its enqueue task.
LEMMA DecodedPieces ==
  ASSUME IInv, PieceInv, NEW r \in Requests, Decode(r), Verdict[r] = "good"
  PROVE  PieceInv'
<1>1. /\ phase[r] = "decoding" /\ phase' = [phase EXCEPT ![r] = "done"]
      /\ response' = [response EXCEPT ![r] = "buffered"] /\ todo' = [todo EXCEPT ![r] = Pieces(r)]
      /\ UNCHANGED <<left, batch, queue, hand, channel, open, flusher>>
  BY DEF Decode, Answer, flush
<1>2. Pieces(r) \in Seq(Piece) /\ \A i \in DOMAIN Pieces(r) : Pieces(r)[i].of = r
  BY PiecesOK
<1>3. todo \in [Requests -> Seq(Piece)]
  BY DEF PieceInv, PiecesTyped
<1>4. todo'[r] = Pieces(r) /\ (\A q \in Requests : q # r => todo'[q] = todo[q]) /\ todo' \in [Requests -> Seq(Piece)]
  BY <1>1, <1>2, <1>3
<1>5. /\ response[r] = "none" /\ response'[r] = "buffered" /\ phase'[r] = "done"
      /\ \A q \in Requests : q # r => response'[q] = response[q] /\ phase'[q] = phase[q]
  BY <1>1 DEF IInv, PieceInv, Unanswered
<1>6. PiecesTyped' /\ Quiet' /\ Unanswered'
  BY <1>1, <1>4, <1>5 DEF PieceInv, PiecesTyped, Quiet, Unanswered
<1>7. TodoOwn'
  BY <1>2, <1>4 DEF PieceInv, TodoOwn
<1>8. InPipe' = InPipe /\ InPipe \in Seq(Piece)
  <2>1. InPipe' = InPipe
    BY <1>1 DEF InPipe, Pipe
  <2>2. InPipe \in Seq(Piece)
    BY PipeOK DEF InPipe, PieceInv, PiecesTyped
  <2> QED
    BY <2>1, <2>2
<1>9. \A q \in Requests : Of(q, InPipe) \o todo[q] = Promised(q, response[q])
  BY InOrderNow DEF PieceInv
<1>10. Of(r, InPipe) = <<>>
  <2>1. PICK g : Computes(Piece, r, InPipe, g)
    BY <1>8, OfComputed
  <2>2. Len(InPipe) \in 0..Len(InPipe)
    BY <1>8
  <2>3. Of(r, InPipe) \in Seq(Piece) /\ todo[r] \in Seq(Piece)
    BY <1>3, <2>1, <2>2 DEF Computes
  <2>4. Of(r, InPipe) \o todo[r] = <<>>
    BY <1>5, <1>9 DEF Promised
  <2> QED
    BY <2>3, <2>4, ConcatEqualIffEmpty
<1>11. ASSUME NEW q \in Requests PROVE Of(q, InPipe') \o todo'[q] = Promised(q, response'[q])
  <2>1. CASE q = r
    <3>1. <<>> \o Pieces(r) = Pieces(r)
      BY <1>2
    <3> QED
      BY <1>4, <1>5, <1>8, <1>10, <2>1, <3>1 DEF Promised
  <2>2. CASE q # r
    BY <1>4, <1>5, <1>8, <1>9, <2>2
  <2> QED
    BY <2>1, <2>2
<1>12. PiecesInOrder'
  BY <1>11, InOrderNext
<1> QED
  BY <1>6, <1>7, <1>12 DEF PieceInv

\* OfOwn for the pieces themselves.
LEMMA OwnPieces ==
  \A r : \A s, t \in Seq(Piece) : (\A i \in DOMAIN t : t[i].of = r) => Of(r, s \o t) = Of(r, s) \o t
<1> TAKE r
<1> TAKE s, t \in Seq(Piece)
<1> HAVE \A i \in DOMAIN t : t[i].of = r
<1>1. PICK S : S = Piece
  OBVIOUS
<1>2. s \in Seq(S) /\ t \in Seq(S)
  BY <1>1
<1> QED
  BY SMTT(60), <1>2, OfOwn

\* The enqueue task sends a piece.
LEMMA EnqueuedPiece ==
  ASSUME IInv, PieceInv, NEW r \in Requests, EnqueuePiece(r)
  PROVE  PieceInv'
<1>1. /\ todo[r] # <<>> /\ open /\ channel' = Append(channel, Head(todo[r])) /\ todo' = [todo EXCEPT ![r] = Tail(todo[r])]
      /\ UNCHANGED <<phase, response, left, batch, queue, hand, open, flusher>>
  BY DEF EnqueuePiece, handlers, flush
<1>2. /\ left \in Seq(Piece) /\ batch \in Seq(Piece) /\ queue \in Seq(Piece)
      /\ hand \in Seq(Piece) /\ channel \in Seq(Piece) /\ todo \in [Requests -> Seq(Piece)]
  BY DEF PieceInv, PiecesTyped
<1>3. PICK t \in Seq(Piece) : t = todo[r]
  BY <1>2
<1>4. t # <<>> /\ \A i \in DOMAIN t : t[i].of = r
  BY <1>1, <1>3 DEF PieceInv, TodoOwn
<1>5. PICK p : p = Head(t)
  OBVIOUS
<1>6. PICK u : u = Tail(t)
  OBVIOUS
<1>7. p \in Piece /\ p.of = r /\ u \in Seq(Piece) /\ \A i \in DOMAIN u : u[i].of = r
  BY <1>4, <1>5, <1>6
<1>8. todo'[r] = u /\ (\A q \in Requests : q # r => todo'[q] = todo[q]) /\ todo' \in [Requests -> Seq(Piece)]
  BY <1>1, <1>2, <1>3, <1>6, <1>7
<1>9. channel' = Append(channel, p) /\ channel' \in Seq(Piece)
  BY <1>1, <1>2, <1>3, <1>5, <1>7
<1>10. PiecesTyped' /\ TodoOwn' /\ Unanswered' /\ Quiet'
  <2>1. PiecesTyped' /\ Unanswered'
    BY <1>1, <1>2, <1>8, <1>9 DEF PieceInv, PiecesTyped, Unanswered
  <2>2. TodoOwn'
    BY <1>7, <1>8 DEF PieceInv, TodoOwn
  <2>3. Quiet'
    BY <1>1 DEF PieceInv, Quiet
  <2> QED
    BY <2>1, <2>2, <2>3
<1>11. InPipe \in Seq(Piece) /\ InPipe' = Append(InPipe, p)
  <2>1. InPipe \in Seq(Piece)
    BY <1>2, PipeOK DEF InPipe
  <2>2. Pipe(left, batch, queue, hand, Append(channel, p)) = Append(Pipe(left, batch, queue, hand, channel), p)
    <3>1. p \in Piece
      BY <1>7
    <3>2. Piped(Piece, left, batch, queue, hand, channel)
      BY <1>2 DEF Piped
    <3> QED
      BY <3>1, <3>2, PipeEnqueue
  <2> QED
    BY <1>1, <1>9, <2>1, <2>2 DEF InPipe, Pipe
<1>12. \A q \in Requests : Of(q, InPipe) \o todo[q] = Promised(q, response[q])
  BY InOrderNow DEF PieceInv
<1>13. \A q \in Requests : Of(q, InPipe) \in Seq(Piece) /\ Of(q, InPipe') = OneOf(q, Of(q, InPipe), p)
  BY <1>7, <1>11, OfAppend
<1>14. ASSUME NEW q \in Requests PROVE Of(q, InPipe') \o todo'[q] = Promised(q, response'[q])
  <2>1. CASE q = r
    <3>1. PICK x \in Seq(Piece) : x = Of(r, InPipe)
      BY <1>13
    <3>2. Of(r, InPipe') = Append(x, p)
      BY <1>7, <1>13, <3>1 DEF OneOf
    <3>3. Append(x, p) \o u = x \o t
      BY <1>4, <1>5, <1>6, <1>7
    <3>4. x \o t = Promised(r, response[r])
      BY <1>3, <1>12, <3>1
    <3> QED
      BY <1>1, <1>8, <2>1, <3>2, <3>3, <3>4
  <2>2. CASE q # r
    <3>1. Of(q, InPipe') = Of(q, InPipe)
      BY <1>7, <1>13, <2>2 DEF OneOf
    <3> QED
      BY <1>1, <1>8, <1>12, <2>2, <3>1
  <2> QED
    BY <2>1, <2>2
<1>15. PiecesInOrder'
  BY <1>14, InOrderNext
<1> QED
  BY <1>10, <1>15 DEF PieceInv

\* The enqueue task ends; what it could not send is given up.
LEMMA EnqueueEnded ==
  ASSUME IInv, PieceInv, NEW r \in Requests, EndEnqueue(r)
  PROVE  PieceInv'
<1>1. /\ todo[r] = <<>> \/ ~open
      /\ left' = left \o todo[r] /\ todo' = [todo EXCEPT ![r] = <<>>]
      /\ UNCHANGED <<phase, response, batch, queue, hand, channel, open, flusher>>
  BY DEF EndEnqueue, flush
<1>2. /\ left \in Seq(Piece) /\ batch \in Seq(Piece) /\ queue \in Seq(Piece)
      /\ hand \in Seq(Piece) /\ channel \in Seq(Piece) /\ todo \in [Requests -> Seq(Piece)]
  BY DEF PieceInv, PiecesTyped
<1>3. PICK t \in Seq(Piece) : t = todo[r]
  BY <1>2
<1>4. \A i \in DOMAIN t : t[i].of = r
  BY <1>3 DEF PieceInv, TodoOwn
<1>5. todo'[r] = <<>> /\ (\A q \in Requests : q # r => todo'[q] = todo[q]) /\ todo' \in [Requests -> Seq(Piece)]
  BY <1>1, <1>2
<1>6. left' \in Seq(Piece)
  BY <1>1, <1>2, <1>3
<1>7. PiecesTyped' /\ TodoOwn' /\ Unanswered' /\ Quiet'
  <2>1. PiecesTyped' /\ Unanswered'
    BY <1>1, <1>2, <1>5, <1>6 DEF PieceInv, PiecesTyped, Unanswered
  <2>2. TodoOwn'
    <3>1. DOMAIN <<>> = {}
      OBVIOUS
    <3>2. ASSUME NEW q \in Requests, NEW i \in DOMAIN todo'[q] PROVE todo'[q][i].of = q
      <4>1. q # r
        BY <1>5, <3>1, <3>2
      <4>2. todo'[q] = todo[q]
        BY <1>5, <4>1
      <4> QED
        BY <3>2, <4>2 DEF PieceInv, TodoOwn
    <3> QED
      BY <3>2 DEF TodoOwn
  <2>3. Quiet'
    BY <1>1 DEF PieceInv, Quiet
  <2> QED
    BY <2>1, <2>2, <2>3
<1>8. InPipe \in Seq(Piece)
  BY <1>2, PipeOK DEF InPipe
<1>9. InPipe' = InPipe \o t
  <2>1. CASE todo[r] = <<>>
    <3>1. left \o <<>> = left /\ InPipe \o <<>> = InPipe
      BY <1>2, <1>8
    <3>2. left' = left
      BY <1>1, <2>1, <3>1
    <3>3. InPipe' = InPipe
      BY <1>1, <3>2 DEF InPipe, Pipe
    <3> QED
      BY <1>3, <2>1, <3>1, <3>3
  <2>2. CASE ~open
    <3>1. batch = <<>> /\ queue = <<>> /\ hand = <<>> /\ channel = <<>>
      BY <2>2 DEF PieceInv, Quiet
    <3>2. Pipe(left \o t, <<>>, <<>>, <<>>, <<>>) = Pipe(left, <<>>, <<>>, <<>>, <<>>) \o t
      BY <1>2, PipeGiveUp
    <3>3. InPipe' = Pipe(left \o t, <<>>, <<>>, <<>>, <<>>)
      BY <1>1, <1>3, <3>1 DEF InPipe, Pipe
    <3>4. InPipe = Pipe(left, <<>>, <<>>, <<>>, <<>>)
      BY <3>1 DEF InPipe
    <3> QED
      BY <3>2, <3>3, <3>4
  <2> QED
    BY <1>1, <2>1, <2>2
<1>10. \A q \in Requests : Of(q, InPipe) \o todo[q] = Promised(q, response[q])
  BY InOrderNow DEF PieceInv
<1>11. PICK x : x = InPipe
  OBVIOUS
<1>12. x \in Seq(Piece) /\ InPipe' = x \o t
  BY <1>8, <1>9, <1>11
<1>13. ASSUME NEW q \in Requests PROVE Of(q, InPipe') \o todo'[q] = Promised(q, response'[q])
  <2>1. CASE q = r
    <3>1. Of(r, x \o t) = Of(r, x) \o t
      <4>1. x \in Seq(Piece)
        BY <1>12
      <4> QED
        BY <1>4, <4>1, OwnPieces
    <3>2. Of(r, x) \o t = Promised(r, response[r])
      BY <1>3, <1>10, <1>11
    <3>3. Of(r, x) \in Seq(Piece)
      <4>1. PICK g : Computes(Piece, r, x, g)
        BY <1>12, OfComputed
      <4>2. Len(x) \in 0..Len(x)
        BY <1>12
      <4> QED
        BY ZenonT(60), <4>1, <4>2 DEF Computes
    <3>4. (Of(r, x) \o t) \o <<>> = Of(r, x) \o t
      BY <3>3
    <3> QED
      BY <1>1, <1>5, <1>12, <2>1, <3>1, <3>2, <3>4
  <2>2. CASE q # r
    <3>1. \A i \in DOMAIN t : t[i].of # q
      BY <1>4, <2>2
    <3>2. Of(q, x \o t) = Of(q, x)
      BY <1>12, <3>1, OfOthers
    <3> QED
      BY <1>1, <1>5, <1>10, <1>11, <1>12, <2>2, <3>2
  <2> QED
    BY <2>1, <2>2
<1>14. PiecesInOrder'
  BY <1>13, InOrderNext
<1> QED
  BY <1>7, <1>14 DEF PieceInv

LEMMA HandlerPieces ==
  ASSUME IInv, PieceInv, NEW r \in Requests, Arrive(r) \/ Handler(r) \/ Disconnect(r) \/ EnqueueTask(r)
  PROVE  PieceInv'
<1>1. CASE Arrive(r)
  BY <1>1, NothingBuffered DEF Arrive, Answer, enqueue, flush
<1>2. CASE AcquirePermit(r)
  BY <1>2, NothingBuffered DEF AcquirePermit, enqueue, flush
<1>3. CASE PermitTimeout(r)
  BY <1>3, NothingBuffered DEF PermitTimeout, Answer, enqueue, flush
<1>4. CASE Decode(r) /\ Verdict[r] = "bad"
  BY <1>4, NothingBuffered DEF Decode, Answer, flush
<1>5. CASE Decode(r) /\ Verdict[r] = "good"
  BY <1>5, DecodedPieces
<1>6. CASE Disconnect(r)
  BY <1>6, NothingBuffered DEF Disconnect, enqueue, flush
<1>7. CASE EnqueueTask(r)
  BY <1>7, EnqueuedPiece, EnqueueEnded DEF EnqueueTask
<1> QED
  BY <1>1, <1>2, <1>3, <1>4, <1>5, <1>6, <1>7 DEF Handler, Decode

LEMMA InitPieces == ASSUME Init PROVE PieceInv
<1>1. /\ phase = [r \in Requests |-> "new"] /\ response = [r \in Requests |-> "none"]
      /\ todo = [r \in Requests |-> <<>>] /\ channel = <<>> /\ open = TRUE
      /\ hand = <<>> /\ queue = <<>> /\ flusher = "starting" /\ batch = <<>> /\ left = <<>>
  BY DEF Init
<1>2. PiecesTyped /\ TodoOwn /\ Unanswered /\ Quiet
  BY <1>1 DEF PiecesTyped, TodoOwn, Unanswered, Quiet
<1>3. InPipe = <<>>
  BY <1>1 DEF InPipe, Pipe
<1>4. \A r \in Requests : Of(r, InPipe) \o todo[r] = Promised(r, response[r])
  BY <1>1, <1>3, OfEmpty DEF Promised
<1>5. PiecesInOrder
  BY <1>4, InOrderNow
<1> QED
  BY <1>2, <1>5 DEF PieceInv

\* Across enqueue task, channel, adder, aggregator and flusher no piece of a
\* payload that was answered with "buffered" is lost, duplicated or overtaken
\* (trace_processor.rs, trace_flusher.rs).
THEOREM PiecesKeepOrder == Spec => []PiecesInOrder
<1>1. Init => PieceInv
  BY InitPieces
<1>2. IInv /\ PieceInv /\ [Next]_vars => PieceInv'
  BY FlusherPieces, HandlerPieces DEF Next, Flusher
<1>3. PieceInv => PiecesInOrder
  BY DEF PieceInv
<1> QED
  BY <1>1, <1>2, <1>3, Invariance, PTL DEF Spec

=============================================================================
