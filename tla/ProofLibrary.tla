---------------------------- MODULE ProofLibrary ----------------------------
(***************************************************************************)
(* What several of the proofs need: induction over numbers, with a set     *)
(* that has no least element as the contradiction; the existence of what a *)
(* recursive function definition describes; sets that are divided among    *)
(* places; and sums over finite sets.                                      *)
(***************************************************************************)
EXTENDS
  BatchContents, Integers, FiniteSets, FiniteSetTheorems, SequenceTheorems,
  WellFoundedInduction, TLAPS

-----------------------------------------------------------------------------
(* Induction.                                                              *)

\* A set of numbers has a least one.
LEMMA LeastNumber ==
  ASSUME NEW T \in SUBSET Nat, T # {}
  PROVE  \E m \in T : \A n \in T : m <= n
<1> DEFINE R == OpToRel(<, Nat)
<1>1. IsWellFoundedOn(R, Nat)
  BY NatLessThanWellFounded
<1>2. \A x, y \in Nat : y < x => <<y, x>> \in R
  BY DEF OpToRel
<1> HIDE DEF R
<1>3. PICK m \in T : \A y \in T : ~(<<y, m>> \in R)
  BY <1>1, WFMin
<1>4. ASSUME NEW n \in T PROVE m <= n
  <2>1. m \in Nat /\ n \in Nat
    OBVIOUS
  <2>2. ~(n < m)
    BY <1>2, <1>3, <2>1
  <2> QED
    BY <2>1, <2>2
<1> QED
  BY <1>4

\* A set with 0 and the successor of each of its members up to N has all of
\* them.
LEMMA CountUp ==
  ASSUME NEW N \in Nat, NEW T, 0 \in T, \A n \in 0..(N - 1) : n \in T => n + 1 \in T
  PROVE  \A n \in 0..N : n \in T
<1> DEFINE Miss == {n \in 0..N : n \notin T}
<1> SUFFICES ASSUME Miss # {} PROVE FALSE
  OBVIOUS
<1>1. Miss \in SUBSET Nat
  OBVIOUS
<1>2. PICK m \in Miss : \A n \in Miss : m <= n
  BY <1>1, LeastNumber
<1>3. m # 0 /\ m \in Nat /\ m <= N
  OBVIOUS
<1>4. m - 1 \in 0..(N - 1) /\ ~(m <= m - 1)
  BY <1>3
<1>5. m - 1 \in T
  BY <1>2, <1>4
<1> QED
  BY <1>3, <1>4, <1>5

-----------------------------------------------------------------------------
(* Recursive functions.                                                    *)

\* The recursion that starts with x0 and goes on with F[n].
Solvable(N, X, x0, F) ==
  \E g \in [0..N -> X] : g[0] = x0 /\ \A n \in 1..N : g[n] = F[n][g[n-1]]

\* It has a solution.
LEMMA Recursion ==
  ASSUME NEW N \in Nat, NEW X, NEW x0 \in X, NEW F \in [1..N -> [X -> X]]
  PROVE  Solvable(N, X, x0, F)
<1> DEFINE Solves(g, n) == g[0] = x0 /\ \A m \in 1..n : g[m] = F[m][g[m-1]]
           T == {n \in 0..N : \E g \in [0..n -> X] : Solves(g, n)}
<1>1. 0 \in T
  <2> DEFINE g == [n \in 0..0 |-> x0]
  <2>1. g \in [0..0 -> X] /\ Solves(g, 0)
    OBVIOUS
  <2> HIDE DEF g
  <2>2. 0 \in 0..N
    OBVIOUS
  <2> QED
    BY <2>1, <2>2
<1>2. ASSUME NEW n \in 0..(N - 1), n \in T PROVE n + 1 \in T
  <2>1. PICK g \in [0..n -> X] : Solves(g, n)
    BY <1>2
  <2> DEFINE h == [m \in 0..(n + 1) |-> IF m = n + 1 THEN F[n + 1][g[n]] ELSE g[m]]
  <2>2. n + 1 \in 1..N /\ n + 1 \in 0..N /\ n \in 0..n /\ n \in Nat
    BY <1>2
  <2>3. F[n + 1][g[n]] \in X
    BY <2>1, <2>2
  <2>4. h \in [0..(n + 1) -> X]
    BY <2>1, <2>2, <2>3
  <2>5. h[n + 1] = F[n + 1][g[n]] /\ \A m \in 0..n : h[m] = g[m]
    BY <2>2
  <2> HIDE DEF h
  <2>6. ASSUME NEW m \in 1..(n + 1) PROVE h[m] = F[m][h[m-1]]
    <3>1. CASE m = n + 1
      <4>1. m - 1 = n
        BY <2>2, <3>1
      <4> QED
        BY <2>2, <2>5, <3>1, <4>1
    <3>2. CASE m \in 1..n
      <4>1. m \in 0..n /\ m - 1 \in 0..n
        BY <2>2, <3>2
      <4>2. g[m] = F[m][g[m-1]]
        BY <2>1, <3>2
      <4> QED
        BY <2>5, <4>1, <4>2
    <3> QED
      BY <2>2, <3>1, <3>2
  <2>7. h[0] = x0
    BY <2>1, <2>2, <2>5
  <2> QED
    BY <2>2, <2>4, <2>6, <2>7
<1> HIDE DEF T
<1>3. \A n \in 0..N : n \in T
  BY <1>1, <1>2, CountUp
<1>4. N \in T
  BY <1>3
<1> QED
  BY <1>4 DEF T, Solvable

-----------------------------------------------------------------------------
(* The concatenation and the sum of BatchContents.                         *)

\* g[n] is the concatenation of the first n of bs.
Cats(bs, g) == g[0] = <<>> /\ \A n \in 1..Len(bs) : g[n] = g[n-1] \o bs[n]

\* There is one.
LEMMA HasCats ==
  ASSUME NEW S, NEW bs \in Seq(Seq(S))
  PROVE  \E g \in [0..Len(bs) -> Seq(S)] : Cats(bs, g)
<1> DEFINE F == [n \in 1..Len(bs) |-> [x \in Seq(S) |-> x \o bs[n]]]
<1>1. Len(bs) \in Nat /\ <<>> \in Seq(S) /\ \A n \in 1..Len(bs) : bs[n] \in Seq(S)
  OBVIOUS
<1>2. ASSUME NEW n \in 1..Len(bs), NEW x \in Seq(S) PROVE x \o bs[n] \in Seq(S)
  BY <1>1
<1>3. F \in [1..Len(bs) -> [Seq(S) -> Seq(S)]]
  BY <1>2
<1>4. \A n \in 1..Len(bs) : \A x \in Seq(S) : F[n][x] = x \o bs[n]
  OBVIOUS
<1> HIDE DEF F
<1>5. PICK g \in [0..Len(bs) -> Seq(S)] : g[0] = <<>> /\ \A n \in 1..Len(bs) : g[n] = F[n][g[n-1]]
  <2>1. Solvable(Len(bs), Seq(S), <<>>, F)
    BY <1>1, <1>3, Recursion
  <2> QED
    BY <2>1 DEF Solvable
<1>6. ASSUME NEW n \in 1..Len(bs) PROVE g[n] = g[n-1] \o bs[n]
  <2>1. n - 1 \in 0..Len(bs)
    BY <1>1
  <2>2. g[n-1] \in Seq(S)
    BY <2>1
  <2> QED
    BY <1>4, <1>5, <2>2
<1> QED
  BY <1>5, <1>6 DEF Cats

\* Any one gives Concat.
LEMMA ConcatBy ==
  ASSUME NEW S, NEW bs \in Seq(Seq(S)), NEW g, Cats(bs, g)
  PROVE  Concat(bs) = g[Len(bs)]
<1> DEFINE Equation(h) == h = [n \in 0..Len(bs) |-> IF n = 0 THEN <<>> ELSE h[n-1] \o bs[n]]
           f == CHOOSE h : Equation(h)
<1>0. Len(bs) \in Nat
  OBVIOUS
<1>1. Concat(bs) = f[Len(bs)]
  BY DEF Concat
<1>2. \E h : Equation(h)
  <2>1. PICK h \in [0..Len(bs) -> Seq(S)] : Cats(bs, h)
    BY HasCats
  <2>2. \A n \in 0..Len(bs) : h[n] = IF n = 0 THEN <<>> ELSE h[n-1] \o bs[n]
    <3> TAKE n \in 0..Len(bs)
    <3>0. n = 0 \/ n \in 1..Len(bs)
      BY <1>0
    <3>1. CASE n = 0
      BY <2>1, <3>1 DEF Cats
    <3>2. CASE n \in 1..Len(bs)
      <4>1. n # 0
        BY <3>2
      <4> QED
        BY <2>1, <3>2, <4>1 DEF Cats
    <3> QED
      BY <3>0, <3>1, <3>2
  <2> DEFINE k == [n \in 0..Len(bs) |-> IF n = 0 THEN <<>> ELSE h[n-1] \o bs[n]]
  <2>3. h = k
    BY <2>2
  <2> QED
    BY <2>3
<1>3. Equation(f)
  <2> HIDE DEF Equation
  <2> QED
    BY <1>2
<1>4. \A n \in 0..Len(bs) : f[n] = IF n = 0 THEN <<>> ELSE f[n-1] \o bs[n]
  <2> HIDE DEF f
  <2> QED
    BY <1>3
<1> HIDE DEF f
<1> DEFINE T == {n \in 0..Len(bs) : f[n] = g[n]}
<1>5. 0 \in T
  BY <1>0, <1>4 DEF Cats
<1>6. ASSUME NEW n \in 0..(Len(bs) - 1), n \in T PROVE n + 1 \in T
  <2>1. n + 1 \in 1..Len(bs) /\ n + 1 \in 0..Len(bs) /\ n + 1 # 0 /\ (n + 1) - 1 = n
    BY <1>0
  <2>2. f[n + 1] = f[n] \o bs[n + 1]
    BY <1>4, <2>1
  <2>3. g[n + 1] = g[n] \o bs[n + 1]
    BY <2>1 DEF Cats
  <2> QED
    BY <1>6, <2>1, <2>2, <2>3
<1> HIDE DEF T
<1>7. \A n \in 0..Len(bs) : n \in T
  BY <1>0, <1>5, <1>6, CountUp
<1>8. Len(bs) \in T
  BY <1>0, <1>7
<1> QED
  BY <1>1, <1>8 DEF T

\* One batch more goes to the end of the concatenation.
LEMMA ConcatGrows ==
  ASSUME NEW S, NEW bs \in Seq(Seq(S)), NEW b \in Seq(S)
  PROVE  /\ Concat(<<>>) = <<>> /\ Concat(bs) \in Seq(S)
         /\ Concat(Append(bs, b)) = Concat(bs) \o b
<1>0. Len(bs) \in Nat
  OBVIOUS
<1>1. Concat(<<>>) = <<>>
  <2> DEFINE g == [n \in {0} |-> <<>>]
  <2>1. Cats(<<>>, g)
    BY DEF Cats
  <2>2. Len(<<>>) = 0 /\ <<>> \in Seq(Seq(S)) /\ g[0] = <<>>
    OBVIOUS
  <2> HIDE DEF g
  <2>3. Concat(<<>>) = g[Len(<<>>)]
    BY <2>1, <2>2, ConcatBy
  <2> QED
    BY <2>2, <2>3
<1> DEFINE t == Append(bs, b)
<1>2. /\ t \in Seq(Seq(S)) /\ Len(t) = Len(bs) + 1 /\ t[Len(bs) + 1] = b
      /\ \A i \in 1..Len(bs) : t[i] = bs[i]
  BY <1>0
<1> HIDE DEF t
<1>3. PICK h \in [0..Len(t) -> Seq(S)] : Cats(t, h)
  BY <1>2, HasCats
<1>4. Cats(bs, h)
  <2>1. ASSUME NEW n \in 1..Len(bs) PROVE h[n] = h[n-1] \o bs[n]
    <3>1. n \in 1..Len(t)
      BY <1>0, <1>2
    <3> QED
      BY <1>2, <1>3, <3>1 DEF Cats
  <2> QED
    BY <1>3, <2>1 DEF Cats
<1>5. Concat(t) = h[Len(bs) + 1] /\ Concat(bs) = h[Len(bs)]
  <2>1. Concat(t) = h[Len(t)] /\ Concat(bs) = h[Len(bs)]
    BY <1>2, <1>3, <1>4, ConcatBy
  <2> QED
    BY <1>2, <2>1
<1>6. Len(bs) + 1 \in 1..Len(t) /\ (Len(bs) + 1) - 1 = Len(bs) /\ Len(bs) \in 0..Len(t)
  BY <1>0, <1>2
<1>7. h[Len(bs) + 1] = h[Len(bs)] \o b /\ h[Len(bs)] \in Seq(S)
  BY <1>2, <1>3, <1>6 DEF Cats
<1> QED
  BY <1>1, <1>5, <1>7 DEF t


\* Three sequences joined, in either order.
LEMMA JoinedThrice ==
  ASSUME NEW S, NEW x \in Seq(S), NEW y \in Seq(S), NEW z \in Seq(S)
  PROVE  (x \o y) \o z = x \o (y \o z)
  BY ConcatAssociative

\* The concatenation of two sequences of batches.
LEMMA ConcatJoins ==
  ASSUME NEW S, NEW a \in Seq(Seq(S)), NEW b \in Seq(Seq(S))
  PROVE  Concat(a \o b) = Concat(a) \o Concat(b)
<1>0. Len(a) \in Nat /\ Len(b) \in Nat
  OBVIOUS
<1>j. \A x, y, z \in Seq(S) : (x \o y) \o z = x \o (y \o z)
  BY JoinedThrice
<1>1. PICK c \in Seq(Seq(S)) : c = a \o b
  <2>1. a \o b \in Seq(Seq(S))
    OBVIOUS
  <2> QED
    BY <2>1
<1>2. /\ Len(c) = Len(a) + Len(b)
      /\ \A i \in 1..Len(a) : c[i] = a[i]
      /\ \A i \in 1..Len(b) : c[Len(a) + i] = b[i]
  BY <1>0, <1>1
<1>3. PICK h \in [0..Len(c) -> Seq(S)] : Cats(c, h)
  BY HasCats
<1>4. PICK k \in [0..Len(b) -> Seq(S)] : Cats(b, k)
  BY HasCats
<1>5. Cats(a, h)
  <2>1. ASSUME NEW n \in 1..Len(a) PROVE h[n] = h[n-1] \o a[n]
    <3>1. n \in 1..Len(c)
      BY <1>0, <1>2
    <3> QED
      BY <1>2, <1>3, <3>1 DEF Cats
  <2> QED
    BY <1>3, <2>1 DEF Cats
<1>6. Concat(c) = h[Len(c)] /\ Concat(a) = h[Len(a)] /\ Concat(b) = k[Len(b)]
  BY <1>3, <1>4, <1>5, ConcatBy
<1>7. PICK x \in Seq(S) : x = h[Len(a)]
  BY <1>0, <1>2
<1> DEFINE T == {n \in 0..Len(b) : h[Len(a) + n] = x \o k[n]}
<1>8. 0 \in T
  <2>1. k[0] = <<>> /\ x \o <<>> = x /\ Len(a) + 0 = Len(a)
    BY <1>0, <1>4 DEF Cats
  <2> QED
    BY <1>0, <1>7, <2>1
<1>9. ASSUME NEW n \in 0..(Len(b) - 1), n \in T PROVE n + 1 \in T
  <2>1. /\ n + 1 \in 1..Len(b) /\ n + 1 \in 0..Len(b) /\ n \in 0..Len(b) /\ (n + 1) - 1 = n
        /\ Len(a) + (n + 1) \in 1..Len(c) /\ (Len(a) + (n + 1)) - 1 = Len(a) + n
    BY <1>0, <1>2
  <2>2. h[Len(a) + (n + 1)] = h[Len(a) + n] \o b[n + 1]
    BY <1>2, <1>3, <2>1 DEF Cats
  <2>3. k[n + 1] = k[n] \o b[n + 1]
    BY <1>4, <2>1 DEF Cats
  <2>4. PICK y \in Seq(S) : y = k[n]
    BY <2>1
  <2>5. PICK z \in Seq(S) : z = b[n + 1]
    BY <2>1
  <2>6. (x \o y) \o z = x \o (y \o z)
    BY <1>j
  <2> QED
    BY <1>9, <2>1, <2>2, <2>3, <2>4, <2>5, <2>6
<1> HIDE DEF T
<1>10. Len(b) \in T
  <2>1. \A n \in 0..Len(b) : n \in T
    BY <1>0, <1>8, <1>9, CountUp
  <2> QED
    BY <1>0, <2>1
<1> QED
  BY <1>1, <1>2, <1>6, <1>7, <1>10 DEF T

\* g[n] is the sum of the first n sizes of s.
Totals(s, g) == g[0] = 0 /\ \A n \in 1..Len(s) : g[n] = g[n-1] + s[n]

\* The equation Total solves.
TotalEquation(s, N, g) == g = [n \in 0..N |-> IF n = 0 THEN 0 ELSE g[n-1] + s[n]]

\* It has a solution.
LEMMA TotalExists ==
  ASSUME NEW s, NEW N \in Nat
  PROVE  \E g : TotalEquation(s, N, g)
<1> DEFINE T == {n \in Nat : \E g : TotalEquation(s, n, g)}
<1>1. 0 \in T
  <2> DEFINE g == [n \in 0..0 |-> 0]
  <2>1. TotalEquation(s, 0, g)
    BY DEF TotalEquation
  <2> QED
    BY <2>1
<1>2. ASSUME NEW n \in 0..(N - 1), n \in T PROVE n + 1 \in T
  <2>1. PICK g : TotalEquation(s, n, g)
    BY <1>2
  <2> DEFINE h == [m \in 0..(n + 1) |-> IF m = n + 1 THEN g[n] + s[n + 1] ELSE g[m]]
  <2>2. \A m \in 0..n : g[m] = IF m = 0 THEN 0 ELSE g[m-1] + s[m]
    BY <2>1 DEF TotalEquation
  <2>3. \A m \in 0..(n + 1) : h[m] = IF m = 0 THEN 0 ELSE h[m-1] + s[m]
    <3> TAKE m \in 0..(n + 1)
    <3>1. CASE m = 0
      BY <2>2, <3>1
    <3>2. CASE m = n + 1
      <4>1. m # 0 /\ m - 1 = n /\ m - 1 \in 0..(n + 1) /\ m - 1 # n + 1
        BY <3>2
      <4>2. h[m] = g[n] + s[n + 1] /\ h[m-1] = g[n]
        BY <3>2, <4>1
      <4> QED
        BY <3>2, <4>1, <4>2
    <3>3. CASE m # 0 /\ m # n + 1
      <4>1. m \in 0..n /\ m - 1 \in 0..(n + 1) /\ m - 1 # n + 1
        BY <3>3
      <4>2. h[m] = g[m] /\ h[m-1] = g[m-1]
        BY <3>3, <4>1
      <4> QED
        BY <2>2, <3>3, <4>1, <4>2
    <3> QED
      BY <3>1, <3>2, <3>3
  <2> DEFINE k == [m \in 0..(n + 1) |-> IF m = 0 THEN 0 ELSE h[m-1] + s[m]]
  <2>4. h = k
    BY <2>3
  <2>5. TotalEquation(s, n + 1, h)
    BY <2>4 DEF TotalEquation
  <2> QED
    BY <2>5
<1> HIDE DEF T
<1>3. \A n \in 0..N : n \in T
  BY <1>1, <1>2, CountUp
<1> QED
  BY <1>3 DEF T

\* Two solutions agree, so that any of them gives Total.
LEMMA TotalBy ==
  ASSUME NEW s, Len(s) \in Nat, NEW g, Totals(s, g)
  PROVE  Total(s) = g[Len(s)]
<1> DEFINE f == CHOOSE h : TotalEquation(s, Len(s), h)
<1>1. Total(s) = f[Len(s)]
  BY DEF Total, TotalEquation
<1>2. TotalEquation(s, Len(s), f)
  BY TotalExists
<1> HIDE DEF f
<1>3. \A n \in 0..Len(s) : f[n] = IF n = 0 THEN 0 ELSE f[n-1] + s[n]
  BY <1>2 DEF TotalEquation
<1> DEFINE T == {n \in 0..Len(s) : f[n] = g[n]}
<1>4. 0 \in T
  BY <1>3 DEF Totals
<1>5. ASSUME NEW n \in 0..(Len(s) - 1), n \in T PROVE n + 1 \in T
  <2>1. n + 1 \in 1..Len(s) /\ n + 1 \in 0..Len(s) /\ n + 1 # 0 /\ (n + 1) - 1 = n
    BY <1>5
  <2>2. f[n + 1] = f[n] + s[n + 1]
    BY <1>3, <2>1
  <2>3. g[n + 1] = g[n] + s[n + 1]
    BY <2>1 DEF Totals
  <2> QED
    BY <1>5, <2>1, <2>2, <2>3
<1> HIDE DEF T
<1>6. \A n \in 0..Len(s) : n \in T
  BY <1>4, <1>5, CountUp
<1> QED
  BY <1>1, <1>6 DEF T

\* The sums of the prefixes of any sequence.
LEMMA HasTotals ==
  ASSUME NEW s, Len(s) \in Nat
  PROVE  \E g : Totals(s, g)
<1>1. PICK g : TotalEquation(s, Len(s), g)
  BY TotalExists
<1>2. \A n \in 0..Len(s) : g[n] = IF n = 0 THEN 0 ELSE g[n-1] + s[n]
  BY <1>1 DEF TotalEquation
<1>3. Totals(s, g)
  BY <1>2 DEF Totals
<1> QED
  BY <1>3

\* With natural sizes the sums are natural and grow.
LEMMA TotalsGrow ==
  ASSUME NEW s, Len(s) \in Nat, \A i \in 1..Len(s) : s[i] \in Nat, NEW g, Totals(s, g)
  PROVE  /\ \A n \in 0..Len(s) : g[n] \in Nat
         /\ \A m, n \in 0..Len(s) : m <= n => g[m] <= g[n]
<1> DEFINE T == {n \in 0..Len(s) : \A m \in 0..n : g[m] \in Nat /\ g[m] <= g[n]}
<1>1. 0 \in T
  BY DEF Totals
<1>2. ASSUME NEW n \in 0..(Len(s) - 1), n \in T PROVE n + 1 \in T
  <2>1. n + 1 \in 1..Len(s) /\ n + 1 \in 0..Len(s) /\ (n + 1) - 1 = n /\ n \in 0..n
    BY <1>2
  <2>2. \A m \in 0..n : g[m] \in Nat /\ g[m] <= g[n]
    BY <1>2
  <2>3. g[n + 1] = g[n] + s[n + 1] /\ s[n + 1] \in Nat /\ g[n] \in Nat
    BY <2>1, <2>2 DEF Totals
  <2>4. g[n + 1] \in Nat /\ g[n] <= g[n + 1]
    BY <2>3
  <2>5. ASSUME NEW m \in 0..(n + 1) PROVE g[m] \in Nat /\ g[m] <= g[n + 1]
    <3>1. CASE m = n + 1
      BY <2>4, <3>1
    <3>2. CASE m \in 0..n
      BY <2>2, <2>3, <2>4, <3>2
    <3> QED
      BY <3>1, <3>2
  <2> QED
    BY <2>1, <2>5
<1> HIDE DEF T
<1>3. \A n \in 0..Len(s) : n \in T
  BY <1>1, <1>2, CountUp
<1> QED
  BY <1>3 DEF T

\* Total of the first k entries, of the rest, and of one entry more.
LEMMA TotalParts ==
  ASSUME NEW S, \A x \in S : x \in Nat, NEW s \in Seq(S)
  PROVE  /\ Total(<<>>) = 0
         /\ Total(s) \in Nat
         /\ \A e \in S : Total(Append(s, e)) = Total(s) + e
         /\ \A k \in 0..Len(s) :
              /\ Total(SubSeq(s, 1, k)) \in Nat /\ Total(SubSeq(s, k + 1, Len(s))) \in Nat
              /\ Total(s) = Total(SubSeq(s, 1, k)) + Total(SubSeq(s, k + 1, Len(s)))
         /\ \A j, k \in 0..Len(s) : j <= k => Total(SubSeq(s, 1, j)) <= Total(SubSeq(s, 1, k))
<1>0. Len(s) \in Nat /\ \A i \in 1..Len(s) : s[i] \in S /\ s[i] \in Nat
  OBVIOUS
<1>1. Total(<<>>) = 0
  <2> DEFINE g == [n \in {0} |-> 0]
  <2>1. Totals(<<>>, g)
    BY DEF Totals
  <2>2. Len(<<>>) = 0
    OBVIOUS
  <2> QED
    BY <2>1, <2>2, TotalBy
<1>2. PICK g : Totals(s, g)
  BY <1>0, HasTotals
<1>3. Total(s) = g[Len(s)]
  BY <1>0, <1>2, TotalBy
<1>4. /\ \A n \in 0..Len(s) : g[n] \in Nat
      /\ \A m, n \in 0..Len(s) : m <= n => g[m] <= g[n]
  BY <1>0, <1>2, TotalsGrow
<1>5. ASSUME NEW k \in 0..Len(s) PROVE Total(SubSeq(s, 1, k)) = g[k]
  <2>1. Len(SubSeq(s, 1, k)) = k /\ k \in Nat /\ \A i \in 1..k : SubSeq(s, 1, k)[i] = s[i]
    BY <1>0
  <2>2. Totals(SubSeq(s, 1, k), g)
    BY <1>0, <1>2, <2>1 DEF Totals
  <2> QED
    BY <2>1, <2>2, TotalBy
<1>6. ASSUME NEW k \in 0..Len(s) PROVE Total(SubSeq(s, k + 1, Len(s))) = g[Len(s)] - g[k]
  <2> DEFINE t == SubSeq(s, k + 1, Len(s))
             h == [n \in 0..(Len(s) - k) |-> g[k + n] - g[k]]
  <2>1. Len(t) = Len(s) - k /\ Len(s) - k \in Nat /\ \A i \in 1..(Len(s) - k) : t[i] = s[k + i]
    BY <1>0
  <2>2. \A n \in 0..(Len(s) - k) : k + n \in 0..Len(s) /\ h[n] = g[k + n] - g[k] /\ g[k + n] \in Nat
    BY <1>0, <1>4
  <2>3. h[0] = 0 /\ g[k] \in Nat
    BY <1>0, <1>4, <2>2
  <2>4. ASSUME NEW n \in 1..Len(t) PROVE h[n] = h[n-1] + t[n]
    <3>1. n \in 0..(Len(s) - k) /\ n - 1 \in 0..(Len(s) - k) /\ k + n \in 1..Len(s) /\ (k + n) - 1 = k + (n - 1)
      BY <1>0, <2>1
    <3>2. g[k + n] = g[(k + n) - 1] + s[k + n]
      BY <1>2, <3>1 DEF Totals
    <3>3. h[n] = g[k + n] - g[k] /\ h[n-1] = g[k + (n - 1)] - g[k] /\ t[n] = s[k + n] /\ s[k + n] \in Nat
      BY <1>0, <2>1, <2>2, <3>1
    <3>4. g[k + (n - 1)] \in Nat /\ g[k + n] = g[k + (n - 1)] + s[k + n]
      BY <2>2, <3>1, <3>2
    <3> HIDE DEF h, t
    <3> QED
      BY <2>3, <3>3, <3>4
  <2> HIDE DEF h, t
  <2>5. Totals(t, h)
    BY <2>3, <2>4 DEF Totals
  <2>6. Total(t) = h[Len(t)]
    BY <2>1, <2>5, TotalBy
  <2>7. h[Len(t)] = g[Len(s)] - g[k]
    BY <1>0, <2>1, <2>2
  <2> QED
    BY <2>6, <2>7 DEF t
<1>7. ASSUME NEW e \in S PROVE Total(Append(s, e)) = Total(s) + e
  <2> DEFINE t == Append(s, e)
  <2>1. Len(t) = Len(s) + 1 /\ Len(t) \in Nat /\ t[Len(s) + 1] = e /\ \A i \in 1..Len(s) : t[i] = s[i]
    BY <1>0
  <2> HIDE DEF t
  <2>2. PICK h : Totals(t, h)
    BY <2>1, HasTotals
  <2>3. Totals(s, h)
    BY <1>0, <2>1, <2>2 DEF Totals
  <2>4. Total(t) = h[Len(s) + 1] /\ Total(s) = h[Len(s)]
    BY <1>0, <2>1, <2>2, <2>3, TotalBy
  <2>5. Len(s) + 1 \in 1..Len(t) /\ (Len(s) + 1) - 1 = Len(s)
    BY <1>0, <2>1
  <2>6. h[Len(s) + 1] = h[Len(s)] + e
    BY <2>1, <2>2, <2>5 DEF Totals
  <2> QED
    BY <2>4, <2>6 DEF t
<1>8. Total(s) \in Nat
  BY <1>0, <1>3, <1>4
<1>9. ASSUME NEW k \in 0..Len(s)
      PROVE  /\ Total(SubSeq(s, 1, k)) \in Nat /\ Total(SubSeq(s, k + 1, Len(s))) \in Nat
             /\ Total(s) = Total(SubSeq(s, 1, k)) + Total(SubSeq(s, k + 1, Len(s)))
  <2>1. g[k] \in Nat /\ g[Len(s)] \in Nat /\ g[k] <= g[Len(s)]
    BY <1>0, <1>4
  <2> QED
    BY <1>3, <1>5, <1>6, <2>1
<1>10. \A j, k \in 0..Len(s) : j <= k => Total(SubSeq(s, 1, j)) <= Total(SubSeq(s, 1, k))
  BY <1>4, <1>5
<1> QED
  BY <1>1, <1>7, <1>8, <1>9, <1>10

-----------------------------------------------------------------------------
(* Places: eight sets, as many as the models that need this have.          *)

\* The sets f[1], ..., f[8] have no member in common, and A is their union.
Partition(f, A) ==
  /\ \A p, q \in 1..8 : p # q => f[p] \cap f[q] = {}
  /\ \A e : e \in A <=> \E p \in 1..8 : e \in f[p]

\* From f to g the entries M go from place p to place q.
Moved(f, g, p, q, M) ==
  /\ g[p] = f[p] \ M /\ g[q] = f[q] \cup M
  /\ \A k \in 1..8 : k # p /\ k # q => g[k] = f[k]

\* What is moved is still in one place.
LEMMA MoveKeepsPartition ==
  ASSUME NEW f, NEW g, NEW A, NEW p \in 1..8, NEW q \in 1..8, p # q, NEW M, M \subseteq f[p],
         Moved(f, g, p, q, M), Partition(f, A)
  PROVE  Partition(g, A)
<1>1. ASSUME NEW e, NEW k \in 1..8
      PROVE  e \in g[k] <=> IF k = p THEN e \in f[p] /\ e \notin M
                            ELSE IF k = q THEN e \in f[q] \/ e \in M ELSE e \in f[k]
  BY DEF Moved
<1>2. ASSUME NEW e, NEW k \in 1..8, NEW l \in 1..8, e \in f[k], e \in f[l] PROVE k = l
  BY <1>2 DEF Partition
<1>3. ASSUME NEW e, NEW k \in 1..8, NEW l \in 1..8, e \in g[k], e \in g[l] PROVE k = l
  <2>1. CASE e \in M
    <3>1. e \in f[p]
      BY <2>1
    <3>2. \A n \in 1..8 : e \in g[n] => n = q
      BY <1>1, <1>2, <2>1, <3>1
    <3> QED
      BY <1>3, <3>2
  <2>2. CASE e \notin M
    BY <1>1, <1>2, <1>3, <2>2
  <2> QED
    BY <2>1, <2>2
<1>4. ASSUME NEW e, e \in A PROVE \E k \in 1..8 : e \in g[k]
  <2>1. PICK k \in 1..8 : e \in f[k]
    BY <1>4 DEF Partition
  <2>2. CASE e \in M
    BY <1>1, <2>2
  <2>3. CASE e \notin M
    BY <1>1, <2>1, <2>3
  <2> QED
    BY <2>2, <2>3
<1>5. ASSUME NEW e, NEW k \in 1..8, e \in g[k] PROVE e \in A
  <2>1. \E l \in 1..8 : e \in f[l]
    BY <1>1, <1>5
  <2> QED
    BY <2>1 DEF Partition
<1> QED
  BY <1>3, <1>4, <1>5 DEF Partition

\* New entries come into place p.
LEMMA NewKeepsPartition ==
  ASSUME NEW f, NEW g, NEW A, NEW p \in 1..8, NEW M, M \cap A = {}, Partition(f, A),
         g[p] = f[p] \cup M, \A k \in 1..8 : k # p => g[k] = f[k]
  PROVE  Partition(g, A \cup M)
<1>1. ASSUME NEW e, NEW k \in 1..8 PROVE e \in g[k] <=> e \in f[k] \/ (k = p /\ e \in M)
  OBVIOUS
<1>2. ASSUME NEW e, NEW k \in 1..8, e \in f[k] PROVE e \in A
  BY <1>2 DEF Partition
<1>3. ASSUME NEW e, NEW k \in 1..8, NEW l \in 1..8, e \in g[k], e \in g[l] PROVE k = l
  <2>1. CASE e \in M
    BY <1>1, <1>2, <1>3, <2>1
  <2>2. CASE e \notin M
    BY <1>1, <1>3, <2>2 DEF Partition
  <2> QED
    BY <2>1, <2>2
<1>4. ASSUME NEW e PROVE e \in A \cup M <=> \E k \in 1..8 : e \in g[k]
  <2>1. e \in A <=> \E k \in 1..8 : e \in f[k]
    BY DEF Partition
  <2> QED
    BY <1>1, <2>1
<1> QED
  BY <1>3, <1>4 DEF Partition

\* Nothing moves.
LEMMA SamePartition ==
  ASSUME NEW f, NEW g, NEW A, Partition(f, A), \A k \in 1..8 : g[k] = f[k]
  PROVE  Partition(g, A)
  BY DEF Partition

LEMMA OneToEight == \A k \in 1..8 : k = 1 \/ k = 2 \/ k = 3 \/ k = 4 \/ k = 5 \/ k = 6 \/ k = 7 \/ k = 8
  OBVIOUS

\* The number of places something is in.
LEMMA OnePlaceEach ==
  ASSUME NEW f, NEW A, Partition(f, A), NEW e
  PROVE  Cardinality({p \in 1..8 : e \in f[p]}) = IF e \in A THEN 1 ELSE 0
<1> DEFINE P == {p \in 1..8 : e \in f[p]}
<1>1. CASE e \in A
  <2>1. PICK p \in 1..8 : e \in f[p]
    BY <1>1 DEF Partition
  <2>2. \A q \in 1..8 : e \in f[q] => q = p
    BY <2>1 DEF Partition
  <2>3. P = {p}
    BY <2>1, <2>2
  <2>4. Cardinality(P) = 1
    BY <2>3, FS_Singleton
  <2> QED
    BY <1>1, <2>4
<1>2. CASE e \notin A
  <2>1. \A p \in 1..8 : e \notin f[p]
    BY <1>2 DEF Partition
  <2>2. P = {}
    BY <2>1
  <2>3. Cardinality(P) = 0
    BY <2>2, FS_EmptySet
  <2> QED
    BY <1>2, <2>3
<1> QED
  BY <1>1, <1>2

-----------------------------------------------------------------------------
(* Sums over finite sets.                                                  *)

Picked(s) == CHOOSE x \in s : TRUE

\* What the recursion of SumFunctionOnSet asks of its solution.
SumStep(f, g, s) == IF s = {} THEN 0 ELSE f[Picked(s)] + g[s \ {Picked(s)}]
SumSolves(f, S, g) == g = [s \in SUBSET S |-> SumStep(f, g, s)]

LEMMA SumIsChosen ==
  ASSUME NEW f, NEW S
  PROVE  SumFunctionOnSet(f, S) = (CHOOSE g : SumSolves(f, S, g))[S]
  BY Zenon DEF SumFunctionOnSet, FoldFunctionOnSet, MapThenFoldSet, Picked, SumSolves, SumStep

\* A sum as it unfolds.
SumUnfolds(f, S) ==
  SumFunctionOnSet(f, S) =
    IF S = {} THEN 0 ELSE f[Picked(S)] + SumFunctionOnSet(f, S \ {Picked(S)})

LEMMA PickedIn ==
  ASSUME NEW s, s # {}
  PROVE  Picked(s) \in s
  BY DEF Picked

LEMMA PickedAway ==
  ASSUME NEW s, s # {}, IsFiniteSet(s)
  PROVE  /\ IsFiniteSet(s \ {Picked(s)})
         /\ Cardinality(s) \in Nat /\ Cardinality(s \ {Picked(s)}) \in Nat
         /\ Cardinality(s \ {Picked(s)}) = Cardinality(s) - 1
         /\ Cardinality(s) > 0
<1>1. Picked(s) \in s
  BY PickedIn
<1>2. Cardinality(s) \in Nat
  BY FS_CardinalityType
<1>3. IsFiniteSet(s \ {Picked(s)}) /\ Cardinality(s \ {Picked(s)}) = Cardinality(s) - 1
  BY <1>1, FS_RemoveElement
<1>4. Cardinality(s \ {Picked(s)}) \in Nat
  BY <1>3, FS_CardinalityType
<1> QED
  BY <1>2, <1>3, <1>4

\* Two solutions are one.
LEMMA SumSolvedOnce ==
  ASSUME NEW f, NEW S, IsFiniteSet(S), NEW g, NEW h, SumSolves(f, S, g), SumSolves(f, S, h)
  PROVE  \A s \in SUBSET S : g[s] = h[s]
<1> DEFINE N == Cardinality(S)
           T == {n \in Nat : \A s \in SUBSET S : Cardinality(s) <= n => g[s] = h[s]}
<1>1. N \in Nat
  BY FS_CardinalityType
<1>2. \A s \in SUBSET S : IsFiniteSet(s) /\ Cardinality(s) <= N /\ Cardinality(s) \in Nat
  BY FS_Subset, FS_CardinalityType
<1>3. \A s \in SUBSET S : g[s] = SumStep(f, g, s) /\ h[s] = SumStep(f, h, s)
  BY Zenon DEF SumSolves
<1>4. \A s \in SUBSET S : s # {} => s \ {Picked(s)} \in SUBSET S
  OBVIOUS
<1>5. 0 \in T
  <2>1. \A s \in SUBSET S : Cardinality(s) <= 0 => s = {}
    BY <1>2, FS_EmptySet
  <2> QED
    BY <1>3, <2>1 DEF SumStep
<1>6. ASSUME NEW n \in 0..(N - 1), n \in T
      PROVE  n + 1 \in T
  <2>1. ASSUME NEW s \in SUBSET S, Cardinality(s) <= n + 1
        PROVE  g[s] = h[s]
    <3>1. CASE s = {}
      BY <1>3, <3>1 DEF SumStep
    <3>2. CASE s # {}
      <4>1. Cardinality(s \ {Picked(s)}) <= n
        BY <1>2, <2>1, <3>2, PickedAway
      <4>2. g[s \ {Picked(s)}] = h[s \ {Picked(s)}]
        BY <1>4, <1>6, <3>2, <4>1
      <4> QED
        BY <1>3, <3>2, <4>2 DEF SumStep
    <3> QED
      BY <3>1, <3>2
  <2> QED
    BY <1>6, <2>1
<1> HIDE DEF T
<1>7. N \in T
  BY <1>1, <1>5, <1>6, CountUp
<1> QED
  BY <1>2, <1>7 DEF T

\* If the smaller sums unfold then so does this one.
LEMMA SumStepUp ==
  ASSUME NEW f, NEW S, IsFiniteSet(S),
         \A s \in SUBSET S : s # S => SumUnfolds(f, s)
  PROVE  SumUnfolds(f, S)
<1> DEFINE rest(s) == s \ {Picked(s)}
           h == [s \in SUBSET S |-> IF s = {} THEN 0 ELSE f[Picked(s)] + SumFunctionOnSet(f, rest(s))]
           g == CHOOSE k : SumSolves(f, S, k)
<1>1. \A s \in SUBSET S : s # {} => rest(s) \in SUBSET S /\ rest(s) # S
  BY PickedIn
<1>2. \A s \in SUBSET S : s # S => h[s] = SumFunctionOnSet(f, s)
  BY DEF SumUnfolds
<1>3. \A s \in SUBSET S : h[s] = SumStep(f, h, s)
  BY <1>1, <1>2 DEF SumStep
<1>4. SumSolves(f, S, h)
  <2>1. h = [s \in SUBSET S |-> h[s]]
    OBVIOUS
  <2> HIDE DEF h
  <2> QED
    BY <1>3, <2>1 DEF SumSolves
<1>5. SumSolves(f, S, g)
  <2> HIDE DEF h
  <2> QED
    BY <1>4
<1> HIDE DEF g
<1>6. \A s \in SUBSET S : g[s] = h[s]
  <2> HIDE DEF h
  <2> QED
    BY <1>4, <1>5, SumSolvedOnce
<1>7. SumFunctionOnSet(f, S) = g[S]
  BY SumIsChosen DEF g
<1>8. h[S] = IF S = {} THEN 0 ELSE f[Picked(S)] + SumFunctionOnSet(f, rest(S))
  OBVIOUS
<1> QED
  BY <1>6, <1>7, <1>8 DEF SumUnfolds

LEMMA SumsUnfold ==
  ASSUME NEW f, NEW S, IsFiniteSet(S)
  PROVE  SumUnfolds(f, S)
<1> DEFINE N == Cardinality(S)
           T == {n \in Nat : \A s \in SUBSET S : Cardinality(s) <= n => SumUnfolds(f, s)}
<1>1. N \in Nat
  BY FS_CardinalityType
<1>2. \A s \in SUBSET S : IsFiniteSet(s) /\ Cardinality(s) <= N /\ Cardinality(s) \in Nat
  BY FS_Subset, FS_CardinalityType
<1>3. ASSUME NEW s \in SUBSET S, NEW t \in SUBSET s, t # s
      PROVE  Cardinality(t) < Cardinality(s) /\ t \in SUBSET S
  <2>1. Cardinality(t) <= Cardinality(s) /\ Cardinality(t) # Cardinality(s)
    BY <1>2, <1>3, FS_Subset
  <2> QED
    BY <1>2, <2>1
<1>4. 0 \in T
  <2>1. \A s \in SUBSET S : Cardinality(s) <= 0 => \A t \in SUBSET s : t = s
    BY <1>2, FS_EmptySet
  <2> QED
    BY <1>2, <2>1, SumStepUp
<1>5. ASSUME NEW n \in 0..(N - 1), n \in T
      PROVE  n + 1 \in T
  <2>1. ASSUME NEW s \in SUBSET S, Cardinality(s) <= n + 1
        PROVE  SumUnfolds(f, s)
    <3>1. ASSUME NEW t \in SUBSET s, t # s
          PROVE  SumUnfolds(f, t)
      <4>1. Cardinality(t) <= n /\ t \in SUBSET S
        BY <1>2, <1>3, <2>1, <3>1
      <4> QED
        BY <1>5, <4>1
    <3> QED
      BY <1>2, <3>1, SumStepUp
  <2> QED
    BY <1>5, <2>1
<1> HIDE DEF T
<1>6. N \in T
  BY <1>1, <1>4, <1>5, CountUp
<1> QED
  BY <1>2, <1>6 DEF T

\* Induction over a finite set: T has the empty set and, with a part of S, that
\* part and one more.
LEMMA SetInduction ==
  ASSUME NEW S, IsFiniteSet(S), NEW T, {} \in T,
         \A s \in SUBSET S : s \in T => \A x \in S \ s : s \cup {x} \in T
  PROVE  S \in T
<1> DEFINE N == Cardinality(S)
           M == {n \in Nat : \A s \in SUBSET S : Cardinality(s) = n => s \in T}
<1>1. N \in Nat
  BY FS_CardinalityType
<1>2. \A s \in SUBSET S : IsFiniteSet(s)
  BY FS_Subset
<1>3. 0 \in M
  <2>1. \A s \in SUBSET S : Cardinality(s) = 0 => s = {}
    BY <1>2, FS_EmptySet
  <2> QED
    BY <2>1
<1>4. ASSUME NEW n \in 0..(N - 1), n \in M
      PROVE  n + 1 \in M
  <2>1. ASSUME NEW s \in SUBSET S, Cardinality(s) = n + 1
        PROVE  s \in T
    <3>0. n \in Nat
      BY <1>1
    <3>1. s # {}
      <4>1. Cardinality({}) = 0 /\ n + 1 # 0
        BY <3>0, FS_EmptySet
      <4> QED
        BY <2>1, <4>1
    <3>2. PICK x \in s : TRUE
      BY <3>1
    <3>3. Cardinality(s \ {x}) = n
      <4>1. IsFiniteSet(s)
        BY <1>2
      <4>2. Cardinality(s \ {x}) = Cardinality(s) - 1
        BY <4>1, FS_RemoveElement
      <4> QED
        BY <2>1, <3>0, <4>2
    <3>4. s \ {x} \in T
      BY <1>4, <3>3
    <3>5. x \in S \ (s \ {x}) /\ (s \ {x}) \cup {x} = s /\ s \ {x} \in SUBSET S
      OBVIOUS
    <3> QED
      BY <3>4, <3>5
  <2> QED
    BY <1>4, <2>1
<1> HIDE DEF M
<1>5. N \in M
  BY <1>1, <1>3, <1>4, CountUp
<1> QED
  BY <1>5 DEF M

LEMMA SumEmpty ==
  ASSUME NEW f
  PROVE  SumFunctionOnSet(f, {}) = 0
  BY FS_EmptySet, SumsUnfold DEF SumUnfolds

\* One more in the set.
LEMMA SumAdds ==
  ASSUME NEW f, NEW S, IsFiniteSet(S), \A x \in S : f[x] \in Int,
         NEW y, y \notin S, f[y] \in Int
  PROVE  /\ SumFunctionOnSet(f, S) \in Int
         /\ SumFunctionOnSet(f, S \cup {y}) = f[y] + SumFunctionOnSet(f, S)
<1> DEFINE U == S \cup {y}
           sum(s) == SumFunctionOnSet(f, s)
           OK(s) == sum(s) \in Int /\ \A x \in U \ s : sum(s \cup {x}) = f[x] + sum(s)
           N == Cardinality(U)
           T == {n \in Nat : \A s \in SUBSET U : Cardinality(s) <= n => OK(s)}
<1>0. IsFiniteSet(U)
  BY FS_AddElement
<1>1. N \in Nat
  BY <1>0, FS_CardinalityType
<1>2. \A s \in SUBSET U : IsFiniteSet(s) /\ Cardinality(s) <= N /\ Cardinality(s) \in Nat
  BY <1>0, FS_Subset, FS_CardinalityType
<1>3. \A x \in U : f[x] \in Int
  OBVIOUS
<1> HIDE DEF U
<1>4. \A s \in SUBSET U : sum(s) = IF s = {} THEN 0 ELSE f[Picked(s)] + sum(s \ {Picked(s)})
  BY <1>2, SumsUnfold DEF SumUnfolds
<1>5. ASSUME NEW x \in U
      PROVE  sum({x}) = f[x]
  <2>1. Picked({x}) = x /\ {x} # {} /\ {x} \ {x} = {} /\ {x} \in SUBSET U
    BY DEF Picked
  <2>2. sum({}) = 0 /\ f[x] \in Int
    BY <1>3, SumEmpty
  <2>3. sum({x}) = f[x] + sum({})
    BY <1>4, <2>1
  <2> QED
    BY <2>2, <2>3
<1> HIDE DEF sum
<1>6. 0 \in T
  <2>1. \A s \in SUBSET U : Cardinality(s) <= 0 => s = {}
    BY <1>2, FS_EmptySet
  <2>2. sum({}) = 0
    BY SumEmpty DEF sum
  <2>3. \A x \in U : {} \cup {x} = {x} /\ sum({x}) = f[x] + 0
    BY <1>3, <1>5
  <2>4. OK({})
    BY <2>2, <2>3
  <2> QED
    BY <2>1, <2>4
<1>7. ASSUME NEW n \in 0..(N - 1), n \in T
      PROVE  n + 1 \in T
  <2>0. \A s \in SUBSET U : Cardinality(s) <= n => OK(s)
    BY <1>7
  <2>1. ASSUME NEW s \in SUBSET U, Cardinality(s) <= n + 1, s # {}
        PROVE  OK(s)
    <3> DEFINE p == Picked(s)
               r == s \ {p}
    <3>1. p \in s /\ p \in U
      BY <2>1, PickedIn
    <3>2. Cardinality(r) <= n /\ r \in SUBSET U
      BY <1>2, <2>1, PickedAway
    <3>3. OK(r)
      BY <2>0, <3>2
    <3>4. sum(s) = f[p] + sum(r)
      BY <1>4, <2>1
    <3>5. sum(s) \in Int
      BY <1>3, <3>1, <3>3, <3>4
    <3>6. ASSUME NEW x \in U \ s
          PROVE  sum(s \cup {x}) = f[x] + sum(s)
      <4> DEFINE t == s \cup {x}
                 q == Picked(t)
      <4>1. t # {} /\ t \in SUBSET U
        BY <3>6
      <4>2. q \in t
        BY <4>1, PickedIn
      <4>3. sum(t) = f[q] + sum(t \ {q})
        BY <1>4, <4>1
      <4>4. CASE q = x
        <5>1. t \ {q} = s
          BY <3>6, <4>4
        <5> QED
          BY <4>3, <4>4, <5>1
      <4>5. CASE q # x
        <5>1. q \in s
          BY <4>2, <4>5
        <5> DEFINE w == s \ {q}
        <5>2. t \ {q} = w \cup {x} /\ x \in U \ w /\ q \in U \ w /\ w \cup {q} = s /\ w \in SUBSET U
          BY <3>6, <4>5, <5>1
        <5>3. Cardinality(w) = Cardinality(s) - 1
          BY <1>2, <5>1, FS_RemoveElement
        <5>4. Cardinality(w) <= n
          BY <1>2, <2>1, <5>3
        <5>5. OK(w)
          BY <2>0, <5>2, <5>4
        <5>6. sum(w) \in Int /\ sum(w \cup {x}) = f[x] + sum(w) /\ sum(w \cup {q}) = f[q] + sum(w)
          BY <5>2, <5>5
        <5>7. f[x] \in Int /\ f[q] \in Int
          BY <1>3, <5>2
        <5>8. sum(s) = f[q] + sum(w) /\ sum(t) = f[q] + (f[x] + sum(w))
          BY <4>3, <5>2, <5>6
        <5> QED
          BY <5>6, <5>7, <5>8
      <4> QED
        BY <4>4, <4>5
    <3> QED
      BY <3>5, <3>6
  <2>2. OK({})
    <3>1. \A s \in SUBSET U : Cardinality(s) <= 0 => OK(s)
      BY <1>6
    <3>2. Cardinality({}) = 0
      BY FS_EmptySet
    <3> QED
      BY <3>1, <3>2
  <2>3. \A s \in SUBSET U : Cardinality(s) <= n + 1 => OK(s)
    <3> HIDE DEF OK
    <3> QED
      BY <2>1, <2>2
  <2>4. n + 1 \in Nat
    BY <1>1
  <2> QED
    BY <2>3, <2>4
<1> HIDE DEF T
<1>8. N \in T
  BY <1>1, <1>6, <1>7, CountUp
<1>9. OK(S)
  BY <1>2, <1>8 DEF T, U
<1> QED
  BY <1>9 DEF U, sum

\* A sum of numbers is a number.
LEMMA SumNatural ==
  ASSUME NEW f, NEW S, IsFiniteSet(S), \A x \in S : f[x] \in Nat
  PROVE  SumFunctionOnSet(f, S) \in Nat
<1> DEFINE T == {s \in SUBSET S : SumFunctionOnSet(f, s) \in Nat}
<1>1. {} \in T
  BY SumEmpty
<1>2. ASSUME NEW s \in SUBSET S, s \in T, NEW x \in S \ s
      PROVE  s \cup {x} \in T
  <2>1. IsFiniteSet(s)
    BY FS_Subset
  <2>2. SumFunctionOnSet(f, s \cup {x}) = f[x] + SumFunctionOnSet(f, s)
    BY <2>1, SumAdds
  <2> QED
    BY <1>2, <2>2
<1> HIDE DEF T
<1>3. S \in T
  BY <1>1, <1>2, SetInduction
<1> QED
  BY <1>3 DEF T

LEMMA SumIsInt ==
  ASSUME NEW f, NEW S, IsFiniteSet(S), \A x \in S : f[x] \in Int
  PROVE  SumFunctionOnSet(f, S) \in Int
<1>1. CASE S = {}
  BY <1>1, SumEmpty
<1>2. CASE S # {}
  <2>1. PICK y \in S : TRUE
    BY <1>2
  <2>2. IsFiniteSet(S \ {y}) /\ (S \ {y}) \cup {y} = S /\ y \notin S \ {y}
    BY FS_RemoveElement
  <2>3. /\ SumFunctionOnSet(f, S \ {y}) \in Int
        /\ SumFunctionOnSet(f, (S \ {y}) \cup {y}) = f[y] + SumFunctionOnSet(f, S \ {y})
    BY <2>2, SumAdds
  <2>4. SumFunctionOnSet(f, S) = f[y] + SumFunctionOnSet(f, S \ {y})
    BY <2>2, <2>3, Zenon
  <2> QED
    BY <2>3, <2>4
<1> QED
  BY <1>1, <1>2

\* A sum depends on the members only.
LEMMA SumSame ==
  ASSUME NEW f, NEW g, NEW S, IsFiniteSet(S), \A x \in S : f[x] \in Int /\ f[x] = g[x]
  PROVE  SumFunctionOnSet(f, S) = SumFunctionOnSet(g, S)
<1> DEFINE T == {s \in SUBSET S : SumFunctionOnSet(f, s) = SumFunctionOnSet(g, s)}
<1>1. {} \in T
  BY SumEmpty
<1>2. ASSUME NEW s \in SUBSET S, s \in T, NEW x \in S \ s
      PROVE  s \cup {x} \in T
  <2>1. IsFiniteSet(s)
    BY FS_Subset
  <2>2. SumFunctionOnSet(f, s \cup {x}) = f[x] + SumFunctionOnSet(f, s)
    BY <2>1, SumAdds
  <2>3. SumFunctionOnSet(g, s \cup {x}) = g[x] + SumFunctionOnSet(g, s)
    BY <2>1, SumAdds
  <2> QED
    BY <1>2, <2>2, <2>3
<1> HIDE DEF T
<1>3. S \in T
  BY <1>1, <1>2, SetInduction
<1> QED
  BY <1>3 DEF T

\* A member that changes changes the sum by as much.
LEMMA SumChanges ==
  ASSUME NEW f, NEW g, NEW S, IsFiniteSet(S), NEW y \in S,
         \A x \in S : f[x] \in Int /\ g[x] \in Int,
         \A x \in S : x # y => f[x] = g[x]
  PROVE  /\ SumFunctionOnSet(f, S) \in Int
         /\ SumFunctionOnSet(g, S) = SumFunctionOnSet(f, S) + (g[y] - f[y])
<1> DEFINE r == S \ {y}
<1>1. IsFiniteSet(r) /\ y \notin r /\ r \cup {y} = S
  BY FS_RemoveElement
<1>2. SumFunctionOnSet(f, r) \in Int /\ SumFunctionOnSet(f, S) = f[y] + SumFunctionOnSet(f, r)
  BY <1>1, SumAdds
<1>3. SumFunctionOnSet(g, S) = g[y] + SumFunctionOnSet(g, r)
  BY <1>1, SumAdds
<1>4. SumFunctionOnSet(f, r) = SumFunctionOnSet(g, r)
  BY <1>1, SumSame
<1>5. f[y] \in Int /\ g[y] \in Int
  OBVIOUS
<1> HIDE DEF r
<1> QED
  BY <1>2, <1>3, <1>4, <1>5

\* Zeroes do not count.
LEMMA SumWithoutZeroes ==
  ASSUME NEW f, NEW S, IsFiniteSet(S), \A x \in S : f[x] \in Int,
         NEW R \in SUBSET S, \A x \in S \ R : f[x] = 0
  PROVE  SumFunctionOnSet(f, S) = SumFunctionOnSet(f, R)
<1> DEFINE T == {s \in SUBSET S : SumFunctionOnSet(f, s) = SumFunctionOnSet(f, s \cap R)}
<1>1. {} \in T
  <2>1. {} \cap R = {}
    OBVIOUS
  <2> QED
    BY <2>1
<1>2. ASSUME NEW s \in SUBSET S, s \in T, NEW x \in S \ s
      PROVE  s \cup {x} \in T
  <2>1. IsFiniteSet(s) /\ IsFiniteSet(s \cap R)
    BY FS_Subset
  <2>2. SumFunctionOnSet(f, s) \in Int
        /\ SumFunctionOnSet(f, s \cup {x}) = f[x] + SumFunctionOnSet(f, s)
    BY <2>1, SumAdds
  <2>3. CASE x \in R
    <3>1. (s \cup {x}) \cap R = (s \cap R) \cup {x} /\ x \notin s \cap R
      BY <2>3
    <3>2. SumFunctionOnSet(f, (s \cap R) \cup {x}) = f[x] + SumFunctionOnSet(f, s \cap R)
      BY <2>1, <3>1, SumAdds
    <3> QED
      BY <1>2, <2>2, <3>1, <3>2
  <2>4. CASE x \notin R
    <3>1. (s \cup {x}) \cap R = s \cap R /\ f[x] = 0
      BY <2>4
    <3>2. SumFunctionOnSet(f, s) = SumFunctionOnSet(f, s \cap R)
      BY <1>2
    <3>3. SumFunctionOnSet(f, s \cup {x}) = SumFunctionOnSet(f, s)
      BY <2>2, <3>1
    <3>4. SumFunctionOnSet(f, s \cup {x}) = SumFunctionOnSet(f, (s \cup {x}) \cap R)
      BY <3>1, <3>2, <3>3, Zenon
    <3> QED
      BY <3>4
  <2> QED
    BY <2>3, <2>4
<1> HIDE DEF T
<1>3. S \in T
  BY <1>1, <1>2, SetInduction
<1>4. S \cap R = R
  OBVIOUS
<1> QED
  BY <1>3, <1>4 DEF T

\* Summed by groups: each member is in the group of its key.
LEMMA SumByGroups ==
  ASSUME NEW f, NEW S, IsFiniteSet(S), \A x \in S : f[x] \in Int,
         NEW key, NEW K, IsFiniteSet(K), \A x \in S : key[x] \in K
  PROVE  SumFunctionOnSet([k \in K |-> SumFunctionOnSet(f, {x \in S : key[x] = k})], K)
           = SumFunctionOnSet(f, S)
<1> DEFINE of(s, k) == {x \in s : key[x] = k}
           groups(s) == [k \in K |-> SumFunctionOnSet(f, of(s, k))]
           T == {s \in SUBSET S : SumFunctionOnSet(groups(s), K) = SumFunctionOnSet(f, s)}
<1>1. {} \in T
  <2>1. \A k \in K : of({}, k) = {} /\ groups({})[k] = 0
    BY SumEmpty
  <2>2. SumFunctionOnSet(groups({}), K) = SumFunctionOnSet(groups({}), {})
    <3> HIDE DEF groups
    <3>1. \A k \in K \ {} : groups({})[k] = 0
      BY <2>1
    <3> QED
      BY <2>1, <3>1, SumWithoutZeroes
  <2>3. SumFunctionOnSet(groups({}), {}) = 0 /\ SumFunctionOnSet(f, {}) = 0
    BY SumEmpty
  <2>4. {} \in SUBSET S
    OBVIOUS
  <2> HIDE DEF groups
  <2>5. SumFunctionOnSet(groups({}), K) = SumFunctionOnSet(f, {})
    BY <2>2, <2>3
  <2> QED
    BY <2>4, <2>5
<1>2. ASSUME NEW s \in SUBSET S, s \in T, NEW y \in S \ s
      PROVE  s \cup {y} \in T
  <2> DEFINE g == groups(s)
             h == groups(s \cup {y})
             c == key[y]
  <2>1. IsFiniteSet(s) /\ c \in K /\ f[y] \in Int /\ y \notin s
    BY FS_Subset
  <2>2. \A k \in K : IsFiniteSet(of(s, k))
    BY <2>1, FS_Subset
  <2>3. \A k \in K : k # c => of(s \cup {y}, k) = of(s, k)
    OBVIOUS
  <2>4. of(s \cup {y}, c) = of(s, c) \cup {y} /\ y \notin of(s, c)
    BY <2>1
  <2>5. \A k \in K : \A x \in of(s, k) : f[x] \in Int
    OBVIOUS
  <2>6. \A k \in K : g[k] = SumFunctionOnSet(f, of(s, k)) /\ h[k] = SumFunctionOnSet(f, of(s \cup {y}, k))
    OBVIOUS
  <2> HIDE DEF g, h, c, of
  <2>7. \A k \in K : SumFunctionOnSet(f, of(s, k)) \in Int
    BY <2>1, <2>2, <2>4, <2>5, SumIsInt
  <2>8. h[c] = f[y] + g[c] /\ g[c] \in Int
    <3>1. SumFunctionOnSet(f, of(s, c) \cup {y}) = f[y] + SumFunctionOnSet(f, of(s, c))
      BY <2>1, <2>2, <2>4, <2>5, SumAdds
    <3>2. h[c] = SumFunctionOnSet(f, of(s, c) \cup {y})
      BY <2>1, <2>4, <2>6, Zenon
    <3>3. g[c] = SumFunctionOnSet(f, of(s, c)) /\ g[c] \in Int
      BY <2>1, <2>6, <2>7, Zenon
    <3> QED
      BY <3>1, <3>2, <3>3
  <2>9. \A k \in K : k # c => g[k] = h[k]
    BY <2>3, <2>6, Zenon
  <2>10. \A k \in K : g[k] \in Int /\ h[k] \in Int
    BY <2>1, <2>6, <2>7, <2>8, <2>9
  <2>11. SumFunctionOnSet(g, K) \in Int
         /\ SumFunctionOnSet(h, K) = SumFunctionOnSet(g, K) + (h[c] - g[c])
    BY <2>1, <2>9, <2>10, SumChanges
  <2>12. SumFunctionOnSet(h, K) = f[y] + SumFunctionOnSet(g, K)
    BY <2>1, <2>8, <2>11
  <2>13. SumFunctionOnSet(f, s \cup {y}) = f[y] + SumFunctionOnSet(f, s)
    BY <2>1, SumAdds
  <2>14. SumFunctionOnSet(g, K) = SumFunctionOnSet(f, s)
    BY <1>2 DEF g
  <2>15. SumFunctionOnSet(h, K) = SumFunctionOnSet(f, s \cup {y}) /\ s \cup {y} \in SUBSET S
    BY <2>12, <2>13, <2>14
  <2> HIDE DEF groups
  <2> QED
    BY <2>15 DEF h
<1> HIDE DEF T
<1>3. S \in T
  BY <1>1, <1>2, SetInduction
<1> QED
  BY <1>3 DEF T

=============================================================================
