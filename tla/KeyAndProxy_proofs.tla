------------------------- MODULE KeyAndProxy_proofs -------------------------
(***************************************************************************)
(* Proofs about two protocols that share nothing.                          *)
(*                                                                         *)
(* ApiKeyFactory, for any number of tasks, any interval and with or        *)
(* without dropped calls: the inductive invariant says who may hold the    *)
(* flag and how the number of loads relates to the load time that is, or   *)
(* is about to be, recorded.                                               *)
(*                                                                         *)
(* ProxyForwarding, for every set of requests, every size of the channel   *)
(* and every positive number of attempts: what Datadog gets is in the      *)
(* order the channel took it, no request leaves more copies than attempts, *)
(* and each accepted request is in exactly one place.                      *)
(***************************************************************************)
EXTENDS ApiKeyFactory, ProxyForwarding, Integers, FiniteSetTheorems, SequenceTheorems, TLAPS

-----------------------------------------------------------------------------
(* The API key factory: the inductive invariant.                           *)

Holder(p) == pc[p] \in {"check", "resolve", "store", "release"}

\* At most one task is between the swap of the flag and its release.
OneHolder ==
  /\ \A p \in Procs : Holder(p) => loading
  /\ \A p, q \in Procs : Holder(p) /\ Holder(q) => p = q

\* The loads that may have happened when one completed at time t.
WithinRate(t) == IF Reload THEN (loads - 1) * (Interval + 1) <= t - 1 ELSE loads = 1

\* No load is under way, nor was one given up: lastLoad tells of all loads.
Settled == IF lastLoad = 0 THEN loads = 0 ELSE loads >= 1 /\ WithinRate(lastLoad)

LoadsRecorded ==
  /\ ~loading => Settled
  /\ \A p \in Procs :
       /\ pc[p] = "check" => Settled
       /\ pc[p] = "resolve" => loads >= 1
       /\ pc[p] = "store" => loads >= 1 /\ foundAt[p] >= 1 /\ WithinRate(foundAt[p])
       /\ pc[p] = "release" => Settled /\ lastLoad # 0

IInv == TypeOK /\ OneHolder /\ RateLimited /\ LoadsRecorded /\ NoReadBeforeLoad

\* One more load, at least Interval + 1 ticks after the last one, is still
\* within the rate.
LEMMA OneMoreLoad ==
  ASSUME NEW n \in Nat, n >= 1, NEW i \in Nat, NEW t \in Nat, NEW u \in Nat,
         (n - 1) * (i + 1) <= t - 1, u > t + i
  PROVE  n * (i + 1) <= u - 1
<1>1. n * (i + 1) = (n - 1) * (i + 1) + (i + 1)
  BY SMT
<1>2. (n - 1) * (i + 1) \in Int
  OBVIOUS
<1>3. QED
  BY <1>1, <1>2

LEMMA InitIInv == Init => IInv
<1> SUFFICES ASSUME Init PROVE IInv
  OBVIOUS
<1>1. TypeOK
  <2>1. loading \in BOOLEAN /\ pc \in [Procs -> Labels]
    BY Zenon DEF Init, Labels
  <2>2. QED
    BY <2>1, SMT DEF Init, TypeOK
<1>2. OneHolder /\ LoadsRecorded /\ NoReadBeforeLoad
  BY DEF Init, OneHolder, Holder, LoadsRecorded, Settled, NoReadBeforeLoad
<1>3. RateLimited
  BY DEF Init, RateLimited
<1>4. QED
  BY <1>1, <1>2, <1>3 DEF IInv

\* Every step keeps the types.
LEMMA NextTypeOK == TypeOK /\ [Next]_vars => TypeOK'
<1> SUFFICES ASSUME TypeOK, [Next]_vars PROVE TypeOK'
  OBVIOUS
<1> USE ApiKeyFactoryAssumption DEF TypeOK, Labels, Goto
<1>1. CASE Tick
  BY <1>1 DEF Tick
<1>2. ASSUME NEW p \in Procs, Call(p) \/ Lock(p) \/ Check(p) \/ Release(p) \/ Wait(p)
                               \/ Read(p) \/ Drop(p)
      PROVE  TypeOK'
  <2>1. UNCHANGED <<now, apiKey, lastLoad, found, foundAt>>
    BY <1>2 DEF Call, Lock, Check, Release, Wait, Read, Drop
  <2>2. \E l \in Labels : pc' = [pc EXCEPT ![p] = l]
    BY <1>2 DEF Call, Lock, Check, Release, Wait, Read, Drop
  <2>3. loading' \in BOOLEAN
    BY <1>2 DEF Call, Lock, Check, Release, Wait, Read, Drop
  <2>4. loads' \in Nat
    BY <1>2 DEF Call, Lock, Check, Release, Wait, Read, Drop
  <2>5. QED
    BY <2>1, <2>2, <2>3, <2>4
<1>3. ASSUME NEW p \in Procs, Store(p) PROVE TypeOK'
  BY <1>3 DEF Store
<1>4. ASSUME NEW p \in Procs, NEW k \in Keys, Resolve(p, k) PROVE TypeOK'
  BY <1>4 DEF Resolve
<1>5. CASE UNCHANGED vars
  BY <1>5 DEF vars
<1>6. QED
  BY <1>1, <1>2, <1>3, <1>4, <1>5 DEF Next, Step

LEMMA NextIInv == IInv /\ [Next]_vars => IInv'
<1> SUFFICES ASSUME IInv, [Next]_vars PROVE IInv'
  OBVIOUS
<1>0. TypeOK'
  BY NextTypeOK DEF IInv
<1> USE ApiKeyFactoryAssumption DEF IInv, TypeOK, Goto
<1>1. CASE Tick
  <2>1. (OneHolder /\ LoadsRecorded /\ NoReadBeforeLoad)'
    BY <1>1 DEF Tick, OneHolder, Holder, LoadsRecorded, Settled, WithinRate, NoReadBeforeLoad
  <2>2. RateLimited'
    <3>1. now' = now + 1 /\ loads' = loads
      BY <1>1 DEF Tick
    <3>2. QED
      BY <3>1 DEF RateLimited
  <2>3. QED
    BY <1>0, <2>1, <2>2
<1>2. ASSUME NEW p \in Procs, Call(p) \/ Wait(p) \/ Read(p) \/ Drop(p) PROVE IInv'
  <2>1. UNCHANGED <<now, lastLoad, loading, foundAt, loads>>
    BY <1>2 DEF Call, Wait, Read, Drop
  <2>2. \E l \in {"lock", "read", "idle"} : pc' = [pc EXCEPT ![p] = l]
                                          /\ (l = "read" => lastLoad # 0)
    BY <1>2 DEF Call, Wait, Read, Drop, ShouldLoad
  <2>3. (OneHolder /\ NoReadBeforeLoad)'
    BY <2>1, <2>2 DEF OneHolder, Holder, NoReadBeforeLoad
  <2>4. (RateLimited /\ LoadsRecorded)'
    BY <2>1, <2>2 DEF RateLimited, LoadsRecorded, Settled, WithinRate
  <2>5. QED
    BY <1>0, <2>3, <2>4
<1>3. ASSUME NEW p \in Procs, Lock(p) PROVE IInv'
  <2>1. UNCHANGED <<now, lastLoad, foundAt, loads>>
        /\ loading' = TRUE /\ pc' = [pc EXCEPT ![p] = IF loading THEN "wait" ELSE "check"]
    BY <1>3 DEF Lock
  <2>2. (OneHolder /\ NoReadBeforeLoad)'
    BY <2>1 DEF OneHolder, Holder, NoReadBeforeLoad
  <2>3. (RateLimited /\ LoadsRecorded)'
    BY <2>1 DEF RateLimited, LoadsRecorded, Settled, WithinRate
  <2>4. QED
    BY <1>0, <2>2, <2>3
<1>4. ASSUME NEW p \in Procs, Check(p) PROVE IInv'
  <2>1. pc[p] = "check" /\ Settled /\ loading
        /\ \A q \in Procs : q # p => ~Holder(q)
    BY <1>4 DEF Check, OneHolder, Holder, LoadsRecorded
  <2>2. CASE ShouldLoad
    <3>1. UNCHANGED <<now, lastLoad, loading, foundAt>>
          /\ loads' = loads + 1 /\ pc' = [pc EXCEPT ![p] = "resolve"]
      BY <1>4, <2>2 DEF Check
    <3>2. RateLimited'
      <4>1. CASE lastLoad = 0
        BY <4>1, <3>1, <2>1 DEF Settled, RateLimited
      <4>2. CASE lastLoad # 0
        <5>1. loads \in Nat /\ loads >= 1 /\ Interval \in Nat /\ lastLoad \in Nat /\ now \in Nat
          BY <2>1, <4>2 DEF Settled
        <5>2. Reload /\ now > lastLoad + Interval /\ (loads - 1) * (Interval + 1) <= lastLoad - 1
          BY <2>1, <2>2, <4>2 DEF Settled, ShouldLoad, WithinRate
        <5>3. loads * (Interval + 1) <= now - 1
          BY <5>1, <5>2, OneMoreLoad
        <5>4. loads' - 1 = loads /\ now' = now
          BY <3>1, <5>1
        <5>5. QED
          BY <5>2, <5>3, <5>4 DEF RateLimited
      <4>3. QED
        BY <4>1, <4>2
    <3>3. (OneHolder /\ NoReadBeforeLoad)'
      BY <2>1, <3>1 DEF OneHolder, Holder, NoReadBeforeLoad
    <3>4. LoadsRecorded'
      BY <2>1, <3>1 DEF LoadsRecorded, Holder
    <3>5. QED
      BY <1>0, <3>2, <3>3, <3>4
  <2>3. CASE ~ShouldLoad
    <3>1. UNCHANGED <<now, lastLoad, loading, foundAt, loads>>
          /\ pc' = [pc EXCEPT ![p] = "release"] /\ lastLoad # 0
      BY <1>4, <2>3 DEF Check, ShouldLoad
    <3>2. (OneHolder /\ NoReadBeforeLoad)'
      BY <2>1, <3>1 DEF OneHolder, Holder, NoReadBeforeLoad
    <3>3. (RateLimited /\ LoadsRecorded)'
      BY <2>1, <3>1 DEF RateLimited, LoadsRecorded, Settled, WithinRate
    <3>4. QED
      BY <1>0, <3>2, <3>3
  <2>4. QED
    BY <2>2, <2>3
<1>5. ASSUME NEW p \in Procs, NEW k \in Keys, Resolve(p, k) PROVE IInv'
  <2>1. pc[p] = "resolve" /\ loading /\ UNCHANGED <<now, lastLoad, loading, loads>>
        /\ foundAt' = [foundAt EXCEPT ![p] = now]
        /\ pc' = [pc EXCEPT ![p] = "store"] /\ \A q \in Procs : q # p => ~Holder(q)
    BY <1>5 DEF Resolve, OneHolder, Holder
  <2>2. foundAt'[p] = now /\ loads >= 1 /\ WithinRate(now)
    BY <2>1 DEF LoadsRecorded, RateLimited, WithinRate
  <2>3. (OneHolder /\ NoReadBeforeLoad /\ RateLimited)'
    BY <2>1 DEF OneHolder, Holder, NoReadBeforeLoad, RateLimited
  <2>4. LoadsRecorded'
    BY <2>1, <2>2 DEF LoadsRecorded, Holder, WithinRate
  <2>5. QED
    BY <1>0, <2>3, <2>4
<1>6. ASSUME NEW p \in Procs, Store(p) PROVE IInv'
  <2>1. pc[p] = "store" /\ loading /\ UNCHANGED <<now, loading, foundAt, loads>>
        /\ lastLoad' = foundAt[p] /\ pc' = [pc EXCEPT ![p] = "release"]
        /\ \A q \in Procs : q # p => ~Holder(q)
    BY <1>6 DEF Store, OneHolder, Holder
  <2>2. lastLoad' # 0 /\ Settled'
    BY <2>1 DEF LoadsRecorded, Settled, WithinRate
  <2>3. (OneHolder /\ NoReadBeforeLoad /\ RateLimited)'
    BY <2>1, <2>2 DEF OneHolder, Holder, NoReadBeforeLoad, RateLimited
  <2>4. LoadsRecorded'
    BY <2>1, <2>2 DEF LoadsRecorded, Holder
  <2>5. QED
    BY <1>0, <2>3, <2>4
<1>7. ASSUME NEW p \in Procs, Release(p) PROVE IInv'
  <2>1. pc[p] = "release" /\ UNCHANGED <<now, lastLoad, foundAt, loads>>
        /\ loading' = FALSE /\ pc' = [pc EXCEPT ![p] = "read"]
        /\ \A q \in Procs : q # p => ~Holder(q)
    BY <1>7 DEF Release, OneHolder, Holder
  <2>2. (OneHolder /\ NoReadBeforeLoad)'
    BY <2>1 DEF OneHolder, Holder, NoReadBeforeLoad, LoadsRecorded
  <2>3. (RateLimited /\ LoadsRecorded)'
    BY <2>1 DEF RateLimited, LoadsRecorded, Settled, WithinRate, Holder
  <2>4. QED
    BY <1>0, <2>2, <2>3
<1>8. CASE UNCHANGED vars
  BY <1>0, <1>8 DEF vars, OneHolder, Holder, RateLimited, LoadsRecorded, Settled, WithinRate,
     NoReadBeforeLoad
<1>9. QED
  BY <1>1, <1>2, <1>3, <1>4, <1>5, <1>6, <1>7, <1>8 DEF Next, Step

THEOREM Invariance == Spec => []IInv
BY InitIInv, NextIInv, PTL DEF Spec

\* Two tasks are never inside the resolver at the same time: the compare and
\* exchange of loading_api_key in get_api_key makes the load single-flight,
\* for any number of tasks and even when calls are dropped half-way.
THEOREM LoadIsSingleFlight == Spec => []SingleFlight
<1>1. IInv => SingleFlight
  BY DEF IInv, OneHolder, Holder, SingleFlight
<1>2. QED
  BY <1>1, Invariance, PTL

\* The double check in get_api_key keeps the resolver within one call per
\* reload interval (one call at all if there is none), for every interval.
THEOREM LoadIsRateLimited == Spec => []RateLimited
<1>1. IInv => RateLimited
  BY DEF IInv
<1>2. QED
  BY <1>1, Invariance, PTL

\* Nobody reads the key before the first load has been stored.
THEOREM FirstLoadIsAwaited == Spec => []NoReadBeforeLoad
<1>1. IInv => NoReadBeforeLoad
  BY DEF IInv
<1>2. QED
  BY <1>1, Invariance, PTL

\* Type correctness of ApiKeyState, the flag and the calls.
THEOREM TypeCorrect == Spec => []TypeOK
<1>1. IInv => TypeOK
  BY DEF IInv
<1>2. QED
  BY <1>1, Invariance, PTL

-----------------------------------------------------------------------------
(* The proxy: the inductive invariant.                                     *)

HandlerPC == {"none", "reading", "sending", "done", "gone"}
Texts == BOOLEAN \cup {h.text : h \in Headers}
Handlers == [pc : HandlerPC, kind : Kinds \cup {"none"}, text : Texts]
Senders == [pc : {"recv", "sending", "sleeping", "ended"},
            req : Requests \cup {"none"}, attempts : Nat]
Fates == {"none", "unbuildable", "accepted", "rejected", "exhausted"}

ProxyTypeOK ==
  /\ handler \in [Requests -> Handlers]
  /\ answer = [r \in Requests |-> answer[r]]
  /\ waiting \in Seq(Requests)
  /\ queue \in Seq(Requests)
  /\ sender \in Senders
  /\ intake \in Seq(Requests)
  /\ fate \in [Requests -> Fates]
  /\ sent \in Seq(Requests)

-----------------------------------------------------------------------------

\* Handlers wait once each, and only while they are sending.
WaitersOK ==
  /\ \A i \in DOMAIN waiting : handler[waiting[i]].pc = "sending"
  /\ \A i, j \in DOMAIN waiting : waiting[i] = waiting[j] => i = j

\* The channel takes each request once, and its handler then answers 200.
SentOnce ==
  /\ \A i, j \in DOMAIN sent : sent[i] = sent[j] => i = j
  /\ \A i \in DOMAIN sent : handler[sent[i]].pc = "done" /\ answer[sent[i]] = 200

Busy == sender.pc \in {"sending", "sleeping"}

\* How many requests the flusher has taken off the channel, and how many of
\* those it has let go of.
Taken == Len(sent) - Len(queue)
Released == IF Busy THEN Taken - 1 ELSE Taken

\* The channel is the end of what was sent; before it comes what the flusher
\* has in hand, and before that what it let go of.
QueueIsRest ==
  /\ Taken >= 0 /\ Released >= 0
  /\ \A i \in DOMAIN queue : queue[i] = sent[Taken + i]
  /\ Busy => sender.req = sent[Taken]
  /\ ~Busy => sender.req = "none"
  /\ \A k \in DOMAIN sent : fate[sent[k]] # "none" <=> k <= Released
  /\ \A r \in Requests : (\A k \in DOMAIN sent : sent[k] # r) => fate[r] = "none"

\* What Datadog got was taken off the channel, and came in that order.
IntakeInOrder ==
  /\ \A i \in DOMAIN intake : \E k \in 1..Taken : intake[i] = sent[k]
  /\ \A i, j \in DOMAIN intake : \A k, l \in DOMAIN sent :
       i < j /\ intake[i] = sent[k] /\ intake[j] = sent[l] => k <= l

Copies(r) == {i \in DOMAIN intake : intake[i] = r}

\* Every attempt so far may have left a copy.
CopiesBounded ==
  /\ Busy => sender.attempts \in 1..MaxRetries
  /\ sender.pc = "sleeping" => sender.attempts < MaxRetries
  /\ sender.pc = "sending" => Cardinality(Copies(sender.req)) <= sender.attempts - 1
  /\ sender.pc = "sleeping" => Cardinality(Copies(sender.req)) <= sender.attempts
  /\ \A r \in Requests : Cardinality(Copies(r)) <= MaxRetries

IndInv == ProxyTypeOK /\ WaitersOK /\ SentOnce /\ QueueIsRest /\ IntakeInOrder /\ CopiesBounded

-----------------------------------------------------------------------------
(* Sequences and counts.                                                   *)

\* One more at the end of a channel, or of what Datadog got.
LEMMA AppendIs ==
  ASSUME NEW S, NEW s \in Seq(S), NEW x \in S
  PROVE  /\ Append(s, x) \in Seq(S) /\ Len(Append(s, x)) = Len(s) + 1
         /\ DOMAIN Append(s, x) = 1..(Len(s) + 1) /\ DOMAIN s = 1..Len(s) /\ Len(s) \in Nat
         /\ Append(s, x)[Len(s) + 1] = x
         /\ \A i \in DOMAIN s : Append(s, x)[i] = s[i] /\ s[i] \in S
  OBVIOUS

\* The first of a channel is taken off.
LEMMA TailIs ==
  ASSUME NEW S, NEW s \in Seq(S), s # <<>>
  PROVE  /\ Tail(s) \in Seq(S) /\ Head(s) \in S /\ Len(Tail(s)) = Len(s) - 1 /\ Head(s) = s[1]
         /\ DOMAIN Tail(s) = 1..(Len(s) - 1) /\ DOMAIN s = 1..Len(s) /\ Len(s) \in Nat /\ Len(s) >= 1
         /\ \A i \in DOMAIN Tail(s) : Tail(s)[i] = s[i + 1]
  OBVIOUS

\* A handler leaves the line: the others keep their order.
LEMMA RemoveAtIs ==
  ASSUME NEW S, NEW s \in Seq(S), NEW n \in DOMAIN s
  PROVE  /\ RemoveAt(s, n) \in Seq(S) /\ Len(RemoveAt(s, n)) = Len(s) - 1
         /\ DOMAIN RemoveAt(s, n) = 1..(Len(s) - 1) /\ DOMAIN s = 1..Len(s) /\ Len(s) \in Nat
         /\ \A i \in 1..(Len(s) - 1) : RemoveAt(s, n)[i] = IF i < n THEN s[i] ELSE s[i + 1]
<1> DEFINE a == SubSeq(s, 1, n - 1)
           b == SubSeq(s, n + 1, Len(s))
<1>0. DOMAIN s = 1..Len(s) /\ Len(s) \in Nat /\ n \in 1..Len(s)
  OBVIOUS
<1>1. /\ a \in Seq(S) /\ Len(a) = n - 1
      /\ \A i \in 1..(n - 1) : a[i] = s[i]
  BY <1>0
<1>2. /\ b \in Seq(S) /\ Len(b) = Len(s) - n
      /\ \A i \in 1..(Len(s) - n) : b[i] = s[n + i]
  BY <1>0
<1>3. RemoveAt(s, n) = a \o b
  BY DEF RemoveAt
<1> HIDE DEF a, b
<1>4. /\ a \o b \in Seq(S) /\ Len(a \o b) = Len(a) + Len(b)
      /\ \A i \in 1..(Len(a) + Len(b)) : (a \o b)[i] = IF i <= Len(a) THEN a[i] ELSE b[i - Len(a)]
  BY <1>1, <1>2, ConcatProperties, Zenon
<1>5. ASSUME NEW i \in 1..(Len(s) - 1) PROVE (a \o b)[i] = IF i < n THEN s[i] ELSE s[i + 1]
  <2>1. CASE i < n
    BY <1>0, <1>1, <1>2, <1>4, <2>1
  <2>2. CASE ~(i < n)
    <3>1. (a \o b)[i] = b[i - (n - 1)]
      BY <1>0, <1>1, <1>2, <1>4, <2>2, SMTT(60)
    <3>2. i - (n - 1) \in 1..(Len(s) - n) /\ n + (i - (n - 1)) = i + 1
      BY <1>0, <2>2
    <3> QED
      BY <1>2, <2>2, <3>1, <3>2
  <2> QED
    BY <2>1, <2>2
<1>6. Len(a \o b) = Len(s) - 1
  BY <1>0, <1>1, <1>2, <1>4
<1>7. DOMAIN (a \o b) = 1..Len(a \o b)
  <2> DEFINE c == a \o b
  <2>1. c \in Seq(S)
    BY <1>4
  <2> HIDE DEF c
  <2>2. DOMAIN c = 1..Len(c)
    BY <2>1
  <2> QED
    BY <2>2 DEF c
<1> QED
  BY <1>0, <1>3, <1>4, <1>5, <1>6, <1>7

\* The copies of a request in what Datadog got can be counted.
LEMMA CopiesCounted ==
  ASSUME intake \in Seq(Requests), NEW r
  PROVE  IsFiniteSet(Copies(r)) /\ Cardinality(Copies(r)) \in Nat
<1>0. DOMAIN intake = 1..Len(intake) /\ Len(intake) \in Nat
  OBVIOUS
<1>1. IsFiniteSet(1..Len(intake))
  BY <1>0, FS_Interval
<1>2. Copies(r) \in SUBSET (1..Len(intake))
  BY <1>0 DEF Copies
<1>3. IsFiniteSet(Copies(r))
  BY <1>1, <1>2, FS_Subset
<1> QED
  BY <1>3, FS_CardinalityType

\* The copies of a request in what Datadog got, one more or none.
LEMMA CopiesGrow ==
  ASSUME intake \in Seq(Requests), NEW x \in Requests, intake' = Append(intake, x),
         NEW r \in Requests
  PROVE  /\ Cardinality(Copies(r)) \in Nat
         /\ r = x => Cardinality(Copies(r)') = Cardinality(Copies(r)) + 1
         /\ r # x => Copies(r)' = Copies(r)
<1>0. /\ DOMAIN intake' = 1..(Len(intake) + 1) /\ DOMAIN intake = 1..Len(intake) /\ Len(intake) \in Nat
      /\ intake'[Len(intake) + 1] = x
      /\ \A i \in DOMAIN intake : intake'[i] = intake[i]
  BY AppendIs
<1>1. IsFiniteSet(Copies(r)) /\ Cardinality(Copies(r)) \in Nat
  BY CopiesCounted
<1>2. CASE r = x
  <2>1. Copies(r)' = Copies(r) \cup {Len(intake) + 1} /\ Len(intake) + 1 \notin Copies(r)
    BY <1>0, <1>2 DEF Copies
  <2> QED
    BY <1>1, <1>2, <2>1, FS_AddElement
<1>3. CASE r # x
  <2>1. Copies(r)' = Copies(r)
    BY <1>0, <1>3 DEF Copies
  <2> QED
    BY <1>1, <1>3, <2>1
<1> QED
  BY <1>2, <1>3

-----------------------------------------------------------------------------
(* The steps.                                                              *)

\* Nothing has arrived at the start.
LEMMA InitIndInv == ConstantsOK /\ ProxyInit => IndInv
<1> SUFFICES ASSUME ConstantsOK, ProxyInit PROVE IndInv
  OBVIOUS
<1>1. ProxyTypeOK
  BY DEF ProxyInit, ProxyTypeOK, Handlers, HandlerPC, Texts, Senders, Fates, Idle
<1>2. waiting = <<>> /\ queue = <<>> /\ intake = <<>> /\ sent = <<>> /\ sender.pc = "recv"
      /\ sender.req = "none" /\ \A r \in Requests : fate[r] = "none"
  BY DEF ProxyInit, Idle
<1>3. WaitersOK /\ SentOnce
  BY <1>2 DEF WaitersOK, SentOnce
<1>4. ~Busy /\ Taken = 0 /\ Released = 0
  BY <1>2 DEF Busy, Taken, Released
<1>5. QueueIsRest
  BY <1>2, <1>4 DEF QueueIsRest
<1>6. IntakeInOrder
  BY <1>2, <1>4 DEF IntakeInOrder
<1>7. \A r \in Requests : Copies(r) = {}
  BY <1>2 DEF Copies
<1>8. CopiesBounded
  <2>1. \A r \in Requests : Cardinality(Copies(r)) <= MaxRetries
    BY <1>7, FS_EmptySet DEF ConstantsOK
  <2> QED
    BY <1>2, <1>4, <2>1 DEF CopiesBounded
<1> QED
  BY <1>1, <1>3, <1>5, <1>6, <1>8 DEF IndInv

\* Handlers do not touch what the flusher works on.
LEMMA FlusherFrame ==
  ASSUME QueueIsRest, IntakeInOrder, CopiesBounded, UNCHANGED <<queue, sender, intake, fate, sent>>
  PROVE  QueueIsRest' /\ IntakeInOrder' /\ CopiesBounded'
<1>1. Taken' = Taken /\ Released' = Released /\ Busy' = Busy
  BY DEF Taken, Released, Busy
<1>2. QueueIsRest'
  BY <1>1 DEF QueueIsRest
<1>3. IntakeInOrder'
  BY <1>1 DEF IntakeInOrder
<1>4. \A r : Copies(r)' = Copies(r)
  BY DEF Copies
<1>5. CopiesBounded'
  BY <1>1, <1>4 DEF CopiesBounded
<1> QED
  BY <1>2, <1>3, <1>5

\* A handler that has not sent yet moves on, is refused or leaves.
LEMMA HandlerIndInv ==
  ASSUME IndInv, NEW r \in Requests,
         \/ \E t \in Targets, h \in Headers : Arrive(r, t, h)
         \/ BodyUnreadable(r) \/ BodyRead(r) \/ Disconnect(r)
  PROVE  IndInv'
<1> USE DEF IndInv
<1>0. UNCHANGED <<queue, sender, intake, fate, sent>>
  BY DEF Arrive, BodyUnreadable, BodyRead, Disconnect
<1>1. handler[r].pc \in {"none", "reading", "sending"}
  BY DEF Arrive, BodyUnreadable, BodyRead, Disconnect
<1> DEFINE Moved ==
      /\ handler' \in [Requests -> Handlers]
      /\ \A q \in Requests : q # r => handler'[q] = handler[q] /\ answer'[q] = answer[q]
      /\ answer' = [q \in Requests |-> answer'[q]]
<1>2. Moved
  <2>0. \A p \in HandlerPC : [handler EXCEPT ![r].pc = p] \in [Requests -> Handlers]
    BY DEF ProxyTypeOK, Handlers
  <2>1. ASSUME NEW status, Answered(r, status) PROVE Moved
    <3>1. handler' \in [Requests -> Handlers]
      BY <2>0, <2>1 DEF Answered, HandlerPC
    <3>2. \A q \in Requests : q # r => handler'[q] = handler[q] /\ answer'[q] = answer[q]
      BY <2>1 DEF Answered, ProxyTypeOK
    <3>3. answer' = [q \in Requests |-> answer'[q]]
      BY <2>1 DEF Answered, ProxyTypeOK
    <3> QED
      BY <3>1, <3>2, <3>3
  <2>2. ASSUME NEW t \in Targets, NEW h \in Headers, Arrive(r, t, h) PROVE Moved
    <3>1. CASE Route(t) \in Kinds /\ VerifyRequestContentLength(h) = 0
      <4>1. [pc |-> "reading", kind |-> Route(t), text |-> h.text] \in Handlers
        BY <3>1 DEF Handlers, HandlerPC, Texts
      <4> QED
        BY <2>2, <3>1, <4>1 DEF Arrive, ProxyTypeOK
    <3>2. CASE ~(Route(t) \in Kinds /\ VerifyRequestContentLength(h) = 0)
      BY <2>1, <2>2, <3>2 DEF Arrive
    <3> QED
      BY <3>1, <3>2
  <2>3. CASE BodyUnreadable(r)
    BY <2>1, <2>3 DEF BodyUnreadable
  <2>4. CASE BodyRead(r) \/ Disconnect(r)
    <3>1. PICK p \in HandlerPC : handler' = [handler EXCEPT ![r].pc = p]
      BY <2>4 DEF BodyRead, Disconnect, HandlerPC
    <3>2. answer' = answer
      BY <2>4 DEF BodyRead, Disconnect
    <3> QED
      BY <2>0, <3>1, <3>2 DEF ProxyTypeOK
  <2> QED
    BY <2>2, <2>3, <2>4
<1>3. waiting' \in Seq(Requests) /\ WaitersOK'
  <2>1. CASE waiting' = waiting /\ handler[r].pc # "sending"
    <3>1. \A i \in DOMAIN waiting : waiting[i] # r /\ waiting[i] \in Requests
      BY <2>1 DEF WaitersOK, ProxyTypeOK
    <3> QED
      BY <1>2, <2>1, <3>1 DEF WaitersOK, ProxyTypeOK
  <2>2. CASE BodyRead(r)
    <3>1. handler'[r].pc = "sending" /\ waiting' = Append(waiting, r) /\ handler[r].pc # "sending"
      BY <2>2 DEF BodyRead, ProxyTypeOK, Handlers
    <3>2. \A i \in DOMAIN waiting : waiting[i] # r /\ waiting[i] \in Requests
      BY <3>1 DEF WaitersOK, ProxyTypeOK
    <3>3. /\ waiting' \in Seq(Requests)
          /\ DOMAIN waiting' = 1..(Len(waiting) + 1) /\ DOMAIN waiting = 1..Len(waiting)
          /\ Len(waiting) \in Nat /\ waiting'[Len(waiting) + 1] = r
          /\ \A i \in DOMAIN waiting : waiting'[i] = waiting[i]
      BY <3>1, AppendIs DEF ProxyTypeOK
    <3> QED
      BY <1>2, <3>1, <3>2, <3>3 DEF WaitersOK
  <2>3. ASSUME NEW n \in DOMAIN waiting, waiting[n] = r, waiting' = RemoveAt(waiting, n)
        PROVE  waiting' \in Seq(Requests) /\ WaitersOK'
    <3>1. /\ waiting' \in Seq(Requests) /\ DOMAIN waiting' = 1..(Len(waiting) - 1)
          /\ DOMAIN waiting = 1..Len(waiting) /\ Len(waiting) \in Nat
          /\ \A i \in DOMAIN waiting' : waiting'[i] = IF i < n THEN waiting[i] ELSE waiting[i + 1]
      BY <2>3, RemoveAtIs DEF ProxyTypeOK
    <3>2. \A i, j \in DOMAIN waiting : waiting[i] = waiting[j] => i = j
      BY DEF WaitersOK
    <3>3. \A i, j \in DOMAIN waiting' : waiting'[i] = waiting'[j] => i = j
      BY <3>1, <3>2
    <3>4. \A i \in DOMAIN waiting' : \E k \in DOMAIN waiting : k # n /\ waiting'[i] = waiting[k]
      <4> TAKE i \in DOMAIN waiting'
      <4>1. CASE i < n
        BY <3>1, <4>1
      <4>2. CASE ~(i < n)
        BY <3>1, <4>2
      <4> QED
        BY <4>1, <4>2
    <3>5. \A i \in DOMAIN waiting' : handler'[waiting'[i]].pc = "sending"
      <4> TAKE i \in DOMAIN waiting'
      <4>1. PICK k \in DOMAIN waiting : k # n /\ waiting'[i] = waiting[k]
        BY <3>4
      <4>2. waiting[k] # r /\ waiting[k] \in Requests /\ handler[waiting[k]].pc = "sending"
        BY <2>3, <3>2, <4>1 DEF ProxyTypeOK, WaitersOK
      <4> QED
        BY <1>2, <4>1, <4>2
    <3> QED
      BY <3>1, <3>3, <3>5 DEF WaitersOK
  <2> QED
    BY <2>1, <2>2, <2>3 DEF Arrive, BodyUnreadable, Disconnect
<1>4. SentOnce'
  <2>1. \A i \in DOMAIN sent : sent[i] # r
    BY <1>1 DEF SentOnce
  <2>2. \A i \in DOMAIN sent : sent[i] \in Requests
    BY DEF ProxyTypeOK
  <2> QED
    BY <1>0, <1>2, <2>1, <2>2 DEF SentOnce
<1>5. ProxyTypeOK'
  BY <1>0, <1>2, <1>3 DEF ProxyTypeOK
<1>6. QueueIsRest' /\ IntakeInOrder' /\ CopiesBounded'
  BY <1>0, FlusherFrame
<1> QED
  BY <1>3, <1>4, <1>5, <1>6

\* The channel takes the request at the head of the line: it becomes the last
\* of the channel and of all that were sent.
LEMMA SendAcceptedIndInv ==
  ASSUME IndInv, NEW r \in Requests, SendAccepted(r)
  PROVE  IndInv'
<1> USE DEF IndInv
<1>0. /\ waiting # <<>> /\ Head(waiting) = r /\ waiting' = Tail(waiting)
      /\ queue' = Append(queue, r) /\ sent' = Append(sent, r)
      /\ handler' = [handler EXCEPT ![r].pc = "done"] /\ answer' = [answer EXCEPT ![r] = 200]
      /\ UNCHANGED <<sender, intake, fate>>
  BY DEF SendAccepted, Answered
<1>1. /\ waiting' \in Seq(Requests) /\ Len(waiting) \in Nat /\ Len(waiting) >= 1 /\ waiting[1] = r
      /\ DOMAIN waiting' = 1..(Len(waiting) - 1) /\ DOMAIN waiting = 1..Len(waiting)
      /\ \A i \in DOMAIN waiting' : waiting'[i] = waiting[i + 1]
  BY <1>0, TailIs DEF ProxyTypeOK
<1>2. /\ queue' \in Seq(Requests) /\ Len(queue') = Len(queue) + 1 /\ Len(queue) \in Nat
      /\ DOMAIN queue' = 1..(Len(queue) + 1) /\ DOMAIN queue = 1..Len(queue)
      /\ queue'[Len(queue) + 1] = r /\ \A i \in DOMAIN queue : queue'[i] = queue[i]
  BY <1>0, AppendIs DEF ProxyTypeOK
<1>3. /\ sent' \in Seq(Requests) /\ Len(sent') = Len(sent) + 1 /\ Len(sent) \in Nat
      /\ DOMAIN sent' = 1..(Len(sent) + 1) /\ DOMAIN sent = 1..Len(sent)
      /\ sent'[Len(sent) + 1] = r
      /\ \A i \in DOMAIN sent : sent'[i] = sent[i] /\ sent[i] \in Requests
  BY <1>0, AppendIs DEF ProxyTypeOK
<1>4. handler[r].pc = "sending"
  BY <1>1 DEF WaitersOK
<1>5. \A i \in DOMAIN sent : sent[i] # r
  BY <1>4 DEF SentOnce
<1>6. /\ handler' \in [Requests -> Handlers] /\ handler'[r].pc = "done" /\ answer'[r] = 200
      /\ \A q \in Requests : q # r => handler'[q] = handler[q] /\ answer'[q] = answer[q]
      /\ answer' = [q \in Requests |-> answer'[q]]
  <2>1. handler' \in [Requests -> Handlers] /\ handler'[r].pc = "done"
    BY <1>0 DEF ProxyTypeOK, Handlers, HandlerPC
  <2>2. \A q \in Requests : q # r => handler'[q] = handler[q]
    BY <1>0 DEF ProxyTypeOK
  <2>3. /\ answer'[r] = 200 /\ answer' = [q \in Requests |-> answer'[q]]
        /\ \A q \in Requests : q # r => answer'[q] = answer[q]
    BY <1>0 DEF ProxyTypeOK
  <2> QED
    BY <2>1, <2>2, <2>3
<1>7. ProxyTypeOK'
  BY <1>0, <1>1, <1>2, <1>3, <1>6 DEF ProxyTypeOK
<1>8. WaitersOK'
  <2>1. \A i, j \in DOMAIN waiting' : waiting'[i] = waiting'[j] => i = j
    BY <1>1 DEF WaitersOK
  <2>2. \A i \in DOMAIN waiting' : handler'[waiting'[i]].pc = "sending"
    <3> TAKE i \in DOMAIN waiting'
    <3>1. i + 1 \in DOMAIN waiting /\ 1 \in DOMAIN waiting /\ i + 1 # 1 /\ waiting'[i] = waiting[i + 1]
      BY <1>1
    <3>2. waiting[i + 1] # r /\ handler[waiting[i + 1]].pc = "sending"
      BY <1>1, <3>1 DEF WaitersOK
    <3>3. waiting[i + 1] \in Requests
      BY <3>1 DEF ProxyTypeOK
    <3> QED
      BY <1>6, <3>1, <3>2, <3>3
  <2> QED
    BY <2>1, <2>2 DEF WaitersOK
<1>9. SentOnce'
  <2>1. \A i, j \in DOMAIN sent' : sent'[i] = sent'[j] => i = j
    BY <1>3, <1>5 DEF SentOnce
  <2>2. \A i \in DOMAIN sent' : handler'[sent'[i]].pc = "done" /\ answer'[sent'[i]] = 200
    BY <1>3, <1>5, <1>6 DEF SentOnce
  <2> QED
    BY <2>1, <2>2 DEF SentOnce
<1>10. Taken' = Taken /\ Busy' = Busy /\ Released' = Released /\ Taken \in Int /\ Released \in Int
       /\ Released <= Taken /\ Taken <= Len(sent)
  BY <1>0, <1>2, <1>3 DEF Taken, Busy, Released
<1>11. QueueIsRest'
  <2>1. Taken' >= 0 /\ Released' >= 0
    BY <1>10 DEF QueueIsRest
  <2>2. \A i \in DOMAIN queue' : queue'[i] = sent'[Taken' + i]
    <3> TAKE i \in DOMAIN queue'
    <3>1. CASE i = Len(queue) + 1
      <4>1. Taken + i = Len(sent) + 1
        BY <1>2, <1>3, <3>1 DEF Taken
      <4> QED
        BY <1>2, <1>3, <1>10, <3>1, <4>1
    <3>2. CASE i \in DOMAIN queue
      <4>1. Taken + i \in DOMAIN sent /\ queue[i] = sent[Taken + i]
        BY <1>2, <1>3, <1>10, <3>2 DEF QueueIsRest, Taken
      <4> QED
        BY <1>2, <1>3, <1>10, <3>2, <4>1
    <3> QED
      BY <1>2, <3>1, <3>2
  <2>3. Busy' => sender'.req = sent'[Taken']
    BY <1>0, <1>3, <1>10 DEF QueueIsRest, Released
  <2>4. ~Busy' => sender'.req = "none"
    BY <1>0, <1>10 DEF QueueIsRest
  <2>5. fate[r] = "none"
    BY <1>5 DEF QueueIsRest
  <2>6. \A k \in DOMAIN sent' : fate'[sent'[k]] # "none" <=> k <= Released'
    BY <1>0, <1>3, <1>10, <2>5 DEF QueueIsRest
  <2>7. \A q \in Requests : (\A k \in DOMAIN sent' : sent'[k] # q) => fate'[q] = "none"
    BY <1>0, <1>3 DEF QueueIsRest
  <2> QED
    BY <2>1, <2>2, <2>3, <2>4, <2>6, <2>7 DEF QueueIsRest
<1>12. IntakeInOrder'
  <2>1. \A i \in DOMAIN intake' : \E k \in 1..Taken' : intake'[i] = sent'[k]
    BY <1>0, <1>3, <1>10 DEF IntakeInOrder
  <2>2. \A i \in DOMAIN intake : intake[i] # r
    BY <1>3, <1>5, <1>10 DEF IntakeInOrder
  <2>3. \A i, j \in DOMAIN intake' : \A k, l \in DOMAIN sent' :
          i < j /\ intake'[i] = sent'[k] /\ intake'[j] = sent'[l] => k <= l
    BY <1>0, <1>3, <2>2 DEF IntakeInOrder
  <2> QED
    BY <2>1, <2>3 DEF IntakeInOrder
<1>13. CopiesBounded'
  <2>1. \A q : Copies(q)' = Copies(q)
    BY <1>0 DEF Copies
  <2> QED
    BY <1>0, <1>10, <2>1 DEF CopiesBounded
<1> QED
  BY <1>7, <1>8, <1>9, <1>11, <1>12, <1>13

\* The flusher does not touch what the handlers work on.
LEMMA HandlerFrame ==
  ASSUME WaitersOK, SentOnce, UNCHANGED <<handler, answer, waiting, sent>>
  PROVE  WaitersOK' /\ SentOnce'
  BY DEF WaitersOK, SentOnce

\* The first request of the channel is the next of those that were sent.
LEMMA HeadIsNext ==
  ASSUME IndInv, queue # <<>>
  PROVE  /\ Taken \in Nat /\ Len(sent) \in Nat /\ Taken + 1 <= Len(sent)
         /\ DOMAIN sent = 1..Len(sent)
         /\ Head(queue) = sent[Taken + 1] /\ Head(queue) \in Requests
<1> USE DEF IndInv
<1>1. /\ Len(queue) \in Nat /\ Len(queue) >= 1 /\ DOMAIN queue = 1..Len(queue)
      /\ Head(queue) = queue[1] /\ Head(queue) \in Requests
  BY TailIs DEF ProxyTypeOK
<1>2. Len(sent) \in Nat /\ DOMAIN sent = 1..Len(sent)
  BY DEF ProxyTypeOK
<1>3. Taken \in Nat /\ Taken + 1 <= Len(sent)
  BY <1>1, <1>2 DEF QueueIsRest, Taken
<1>4. queue[1] = sent[Taken + 1]
  BY <1>1 DEF QueueIsRest
<1> QED
  BY <1>1, <1>2, <1>3, <1>4

\* The flusher takes the next request: it sends it or lets it go at once.
LEMMA ReceiveIndInv ==
  ASSUME ConstantsOK, IndInv, Receive
  PROVE  IndInv'
<1> USE DEF IndInv
<1>r. PICK r : r = Head(queue)
  OBVIOUS
<1>0. /\ sender.pc = "recv" /\ queue # <<>> /\ queue' = Tail(queue)
      /\ UNCHANGED <<handler, answer, waiting, intake, sent>>
      /\ \/ fate' = [fate EXCEPT ![r] = "unbuildable"] /\ sender' = sender
         \/ sender' = [pc |-> "sending", req |-> r, attempts |-> 1] /\ fate' = fate
  BY <1>r DEF Receive
<1>1. /\ Taken \in Nat /\ Len(sent) \in Nat /\ Taken + 1 <= Len(sent) /\ DOMAIN sent = 1..Len(sent)
      /\ r = sent[Taken + 1] /\ r \in Requests
  BY <1>0, <1>r, HeadIsNext
<1>2. /\ queue' \in Seq(Requests) /\ Len(queue') = Len(queue) - 1 /\ Len(queue) \in Nat
      /\ DOMAIN queue' = 1..(Len(queue) - 1) /\ DOMAIN queue = 1..Len(queue)
      /\ \A i \in DOMAIN queue' : queue'[i] = queue[i + 1]
  BY <1>0, TailIs DEF ProxyTypeOK
<1>3. ~Busy /\ Released = Taken /\ sender.req = "none"
  BY <1>0 DEF Busy, Released, QueueIsRest
<1>4. Taken' = Taken + 1
  BY <1>0, <1>1, <1>2 DEF Taken
<1>5. \A i \in DOMAIN queue' : queue'[i] = sent[Taken' + i]
  <2> TAKE i \in DOMAIN queue'
  <2>1. i \in Nat /\ i + 1 \in DOMAIN queue /\ queue'[i] = queue[i + 1]
    BY <1>2
  <2>2. queue[i + 1] = sent[Taken + (i + 1)]
    BY <2>1 DEF QueueIsRest
  <2>3. Taken + (i + 1) = Taken' + i
    BY <1>1, <1>4, <2>1
  <2> QED
    BY <2>1, <2>2, <2>3
<1>6. \A i, j \in DOMAIN sent : sent[i] = sent[j] => i = j
  BY DEF SentOnce
<1>7. \A k \in DOMAIN sent : fate[sent[k]] # "none" <=> k <= Taken
  BY <1>3 DEF QueueIsRest
<1>8. \A q \in Requests : (\A k \in DOMAIN sent : sent[k] # q) => fate[q] = "none"
  BY DEF QueueIsRest
<1>9. \A k \in DOMAIN sent : sent[k] \in Requests
  BY DEF ProxyTypeOK
<1>10. IntakeInOrder'
  <2>1. \A i \in DOMAIN intake' : \E k \in 1..Taken' : intake'[i] = sent'[k]
    BY <1>0, <1>1, <1>4 DEF IntakeInOrder
  <2> QED
    BY <1>0, <2>1 DEF IntakeInOrder
<1>11. WaitersOK' /\ SentOnce'
  BY <1>0, HandlerFrame
<1>12. \A q : Copies(q)' = Copies(q)
  BY <1>0 DEF Copies
<1>13. \A q \in Requests : Cardinality(Copies(q)) <= MaxRetries
  BY DEF CopiesBounded
<1>14. CASE fate' = [fate EXCEPT ![r] = "unbuildable"] /\ sender' = sender
  <2>1. ~Busy' /\ Released' = Taken'
    BY <1>0, <1>14 DEF Busy, Released
  <2>2. fate' \in [Requests -> Fates] /\ fate'[r] # "none" /\ \A q \in Requests : q # r => fate'[q] = fate[q]
    BY <1>1, <1>14 DEF ProxyTypeOK, Fates
  <2>3. ProxyTypeOK'
    BY <1>0, <1>2, <1>14, <2>2 DEF ProxyTypeOK
  <2>4. \A k \in DOMAIN sent : fate'[sent[k]] # "none" <=> k <= Taken'
    <3> TAKE k \in DOMAIN sent
    <3>1. CASE k = Taken + 1
      BY <1>1, <1>4, <2>2, <3>1
    <3>2. CASE k # Taken + 1
      <4>1. sent[k] # r
        BY <1>1, <1>6, <3>2
      <4> QED
        BY <1>1, <1>4, <1>7, <1>9, <2>2, <3>2, <4>1
    <3> QED
      BY <3>1, <3>2
  <2>5. \A q \in Requests : (\A k \in DOMAIN sent : sent[k] # q) => fate'[q] = "none"
    BY <1>1, <1>8, <2>2
  <2>6. QueueIsRest'
    BY <1>0, <1>1, <1>3, <1>4, <1>5, <1>14, <2>1, <2>4, <2>5 DEF QueueIsRest
  <2>7. CopiesBounded'
    BY <1>0, <1>12, <1>13, <1>14, <2>1 DEF CopiesBounded
  <2> QED
    BY <1>10, <1>11, <2>3, <2>6, <2>7
<1>15. CASE sender' = [pc |-> "sending", req |-> r, attempts |-> 1] /\ fate' = fate
  <2>1. Busy' /\ Released' = Taken /\ sender'.req = r
    BY <1>1, <1>4, <1>15 DEF Busy, Released
  <2>2. sender' \in Senders
    BY <1>1, <1>15 DEF Senders
  <2>3. ProxyTypeOK'
    BY <1>0, <1>2, <1>15, <2>2 DEF ProxyTypeOK
  <2>4. QueueIsRest'
    BY <1>0, <1>1, <1>4, <1>5, <1>7, <1>8, <1>15, <2>1 DEF QueueIsRest
  <2>5. Copies(r) = {}
    <3>1. \A i \in DOMAIN intake : intake[i] # r
      <4> TAKE i \in DOMAIN intake
      <4>1. PICK k \in 1..Taken : intake[i] = sent[k]
        BY DEF IntakeInOrder
      <4> QED
        BY <1>1, <1>6, <4>1
    <3> QED
      BY <3>1 DEF Copies
  <2>6. Cardinality(Copies(r)') = 0
    BY <1>12, <2>5, FS_EmptySet
  <2>7. CopiesBounded'
    <3>1. /\ sender'.attempts \in 1..MaxRetries /\ sender'.attempts - 1 = 0
          /\ sender'.pc = "sending" /\ sender'.req = r
      BY <1>15 DEF ConstantsOK
    <3>2. \A q \in Requests : Cardinality(Copies(q)') <= MaxRetries
      BY <1>12, <1>13
    <3>3. Copies(sender.req)' = Copies(r)'
      BY <3>1 DEF Copies
    <3>4. Cardinality(Copies(sender.req)') <= sender'.attempts - 1
      BY <2>6, <3>1, <3>3
    <3> QED
      BY <3>1, <3>2, <3>4 DEF CopiesBounded
  <2> QED
    BY <1>10, <1>11, <2>3, <2>4, <2>7
<1> QED
  BY <1>0, <1>14, <1>15

\* A copy of the request in hand reaches Datadog, or does not: the order holds.
LEMMA IntakeGrows ==
  ASSUME IndInv, sender.pc = "sending", UNCHANGED <<queue, sent>>,
         intake' = intake \/ intake' = Append(intake, sender.req)
  PROVE  /\ sender.req \in Requests /\ intake' \in Seq(Requests) /\ IntakeInOrder'
         /\ \A r \in Requests : r # sender.req => Copies(r)' = Copies(r)
         /\ \E n \in Nat : n = Cardinality({i \in DOMAIN intake' : intake'[i] = sender.req})
                           /\ n <= sender.attempts
<1> USE DEF IndInv
<1>x. PICK x : x = sender.req
  OBVIOUS
<1>1. Busy /\ x = sent[Taken] /\ Taken' = Taken
  BY <1>x DEF Busy, QueueIsRest, Taken
<1>2. /\ Len(sent) \in Nat /\ DOMAIN sent = 1..Len(sent) /\ Len(queue) \in Nat
      /\ Taken \in 1..Len(sent) /\ x \in Requests
  <2>1. Len(sent) \in Nat /\ DOMAIN sent = 1..Len(sent) /\ Len(queue) \in Nat
    BY DEF ProxyTypeOK
  <2>2. Taken \in 1..Len(sent)
    BY <1>1, <2>1 DEF QueueIsRest, Taken, Released
  <2> QED
    BY <1>1, <2>1, <2>2 DEF ProxyTypeOK
<1>3. sender.attempts \in Nat /\ sender.attempts >= 1
  BY <1>1 DEF CopiesBounded, ProxyTypeOK, Senders
<1>4. Copies(x) = {i \in DOMAIN intake : intake[i] = x}
      /\ Copies(x)' = {i \in DOMAIN intake' : intake'[i] = x}
  BY DEF Copies
<1>5. Cardinality(Copies(x)) <= sender.attempts - 1
  BY <1>x DEF CopiesBounded
<1>6. Cardinality(Copies(x)) \in Nat
  BY <1>2, CopiesCounted DEF ProxyTypeOK
<1>7. CASE intake' = intake
  <2>1. IntakeInOrder' /\ intake' \in Seq(Requests)
    BY <1>1, <1>7 DEF IntakeInOrder, ProxyTypeOK
  <2>2. \A r : Copies(r)' = Copies(r)
    BY <1>7 DEF Copies
  <2>3. Cardinality(Copies(x)') \in Nat /\ Cardinality(Copies(x)') <= sender.attempts
    BY <1>3, <1>5, <1>6, <2>2
  <2> QED
    BY <1>x, <1>2, <1>4, <2>1, <2>2, <2>3
<1>8. CASE intake' = Append(intake, x)
  <2>1. /\ intake' \in Seq(Requests) /\ DOMAIN intake' = 1..(Len(intake) + 1)
        /\ DOMAIN intake = 1..Len(intake) /\ Len(intake) \in Nat
        /\ intake'[Len(intake) + 1] = x
        /\ \A i \in DOMAIN intake : intake'[i] = intake[i]
    BY <1>2, <1>8, AppendIs DEF ProxyTypeOK
  <2>2. \A i \in DOMAIN intake' : \E k \in 1..Taken' : intake'[i] = sent'[k]
    <3>1. \A i \in DOMAIN intake : \E k \in 1..Taken' : intake'[i] = sent'[k]
      BY <1>1, <2>1 DEF IntakeInOrder
    <3>2. \E k \in 1..Taken' : x = sent'[k]
      BY <1>1, <1>2
    <3> QED
      BY <2>1, <3>1, <3>2
  <2>3. ASSUME NEW i \in DOMAIN intake', NEW j \in DOMAIN intake', NEW k \in DOMAIN sent,
               NEW l \in DOMAIN sent, i < j, intake'[i] = sent[k], intake'[j] = sent[l]
        PROVE  k <= l
    <3>1. i \in DOMAIN intake /\ intake'[i] = intake[i]
      BY <2>1, <2>3
    <3>2. CASE j \in DOMAIN intake
      BY <2>1, <2>3, <3>1, <3>2 DEF IntakeInOrder
    <3>3. CASE j = Len(intake) + 1
      <4>1. l = Taken
        BY <1>1, <1>2, <2>1, <2>3, <3>3 DEF SentOnce
      <4>2. PICK m \in 1..Taken : intake[i] = sent[m]
        BY <3>1 DEF IntakeInOrder
      <4>3. m \in DOMAIN sent /\ sent[m] = sent[k]
        BY <1>2, <2>3, <3>1, <4>2
      <4>4. m = k
        BY <4>3 DEF SentOnce
      <4> QED
        BY <1>2, <4>1, <4>2, <4>4
    <3> QED
      BY <2>1, <3>2, <3>3
  <2>4. IntakeInOrder'
    BY <2>2, <2>3 DEF IntakeInOrder
  <2>5. \A r \in Requests : r # x => Copies(r)' = Copies(r)
    BY <1>2, <1>8, CopiesGrow DEF ProxyTypeOK
  <2>6. Cardinality(Copies(x)') = Cardinality(Copies(x)) + 1
    BY <1>2, <1>8, CopiesGrow DEF ProxyTypeOK
  <2>7. Cardinality(Copies(x)') \in Nat /\ Cardinality(Copies(x)') <= sender.attempts
    BY <1>3, <1>5, <1>6, <2>6
  <2> QED
    BY <1>x, <1>2, <1>4, <2>1, <2>4, <2>5, <2>7
<1> QED
  BY <1>x, <1>7, <1>8

\* The flusher lets go of the request in hand.
LEMMA LetGo ==
  ASSUME ConstantsOK, IndInv, sender.pc = "sending", sender' = Idle,
         UNCHANGED <<handler, answer, waiting, queue, sent>>,
         intake' = intake \/ intake' = Append(intake, sender.req),
         NEW f \in Fates \ {"none"}, fate' = [fate EXCEPT ![sender.req] = f]
  PROVE  IndInv'
<1> USE DEF IndInv
<1>x. PICK x : x = sender.req
  OBVIOUS
<1>1. /\ x \in Requests /\ intake' \in Seq(Requests) /\ IntakeInOrder'
      /\ \A r \in Requests : r # x => Copies(r)' = Copies(r)
      /\ \E n \in Nat : n = Cardinality({i \in DOMAIN intake' : intake'[i] = x}) /\ n <= sender.attempts
  BY <1>x, IntakeGrows
<1>2. fate' \in [Requests -> Fates] /\ fate'[x] # "none" /\ \A q \in Requests : q # x => fate'[q] = fate[q]
  BY <1>x, <1>1 DEF ProxyTypeOK
<1>3. sender' \in Senders /\ sender'.pc = "recv" /\ sender'.req = "none"
  BY DEF Senders, Idle
<1>4. ProxyTypeOK'
  BY <1>1, <1>2, <1>3 DEF ProxyTypeOK
<1>5. Busy /\ ~Busy' /\ Taken' = Taken /\ Released' = Taken /\ Released = Taken - 1
  BY <1>3 DEF Busy, Taken, Released
<1>6. /\ Len(sent) \in Nat /\ DOMAIN sent = 1..Len(sent) /\ Taken \in 1..Len(sent) /\ x = sent[Taken]
  <2>1. Len(sent) \in Nat /\ DOMAIN sent = 1..Len(sent) /\ Len(queue) \in Nat
    BY DEF ProxyTypeOK
  <2>2. Taken \in 1..Len(sent)
    BY <1>5, <2>1 DEF QueueIsRest, Taken
  <2> QED
    BY <1>x, <1>5, <2>1, <2>2 DEF QueueIsRest
<1>7. \A k \in DOMAIN sent : fate'[sent[k]] # "none" <=> k <= Taken
  <2> TAKE k \in DOMAIN sent
  <2>0. sent[k] \in Requests
    BY DEF ProxyTypeOK
  <2>1. CASE k = Taken
    BY <1>2, <1>6, <2>1
  <2>2. CASE k # Taken
    <3>1. sent[k] # x
      BY <1>6, <2>2 DEF SentOnce
    <3>2. fate[sent[k]] # "none" <=> k <= Taken - 1
      BY <1>5 DEF QueueIsRest
    <3> QED
      BY <1>2, <1>6, <2>0, <2>2, <3>1, <3>2
  <2> QED
    BY <2>1, <2>2
<1>8. \A q \in Requests : (\A k \in DOMAIN sent : sent[k] # q) => fate'[q] = "none"
  BY <1>2, <1>6 DEF QueueIsRest
<1>9. QueueIsRest'
  BY <1>3, <1>5, <1>6, <1>7, <1>8 DEF QueueIsRest
<1>10. WaitersOK' /\ SentOnce'
  BY HandlerFrame
<1>11. CopiesBounded'
  <2>1. sender.attempts <= MaxRetries /\ sender.attempts \in Nat
    BY <1>5 DEF CopiesBounded, ProxyTypeOK, Senders
  <2>2. Cardinality(Copies(x)') <= MaxRetries
    BY <1>1, <2>1 DEF Copies, ConstantsOK
  <2>3. \A r \in Requests : Cardinality(Copies(r)') <= MaxRetries
    BY <1>1, <2>2 DEF CopiesBounded
  <2> QED
    BY <1>3, <1>5, <2>3 DEF CopiesBounded
<1> QED
  BY <1>1, <1>4, <1>9, <1>10, <1>11

\* Any answer ends the request; a network error ends it when it was the last
\* attempt, and otherwise the flusher sleeps with the request in hand.
LEMMA SendingIndInv ==
  ASSUME ConstantsOK, IndInv,
         \/ \E status \in {"accepted", "rejected"} : Response(status)
         \/ \E arrived \in BOOLEAN : NetworkError(arrived)
  PROVE  IndInv'
<1> USE DEF IndInv
<1>1. ASSUME NEW status \in {"accepted", "rejected"}, Response(status) PROVE IndInv'
  <2>1. status \in Fates \ {"none"}
    BY DEF Fates
  <2> QED
    BY <1>1, <2>1, LetGo DEF Response, Delivered
<1>2. ASSUME NEW arrived \in BOOLEAN, NetworkError(arrived) PROVE IndInv'
  <2>0. /\ sender.pc = "sending" /\ UNCHANGED <<handler, answer, waiting, queue, sent>>
        /\ (intake' = intake \/ intake' = Append(intake, sender.req))
    BY <1>2 DEF NetworkError, Delivered
  <2>1. CASE sender.attempts >= MaxRetries
    <3>1. "exhausted" \in Fates \ {"none"} /\ fate' = [fate EXCEPT ![sender.req] = "exhausted"] /\ sender' = Idle
      BY <1>2, <2>1 DEF Fates, NetworkError
    <3> QED
      BY <2>0, <3>1, LetGo
  <2>2. CASE ~(sender.attempts >= MaxRetries)
    <3>x. PICK x : x = sender.req
      OBVIOUS
    <3>1. sender' = [sender EXCEPT !.pc = "sleeping"] /\ fate' = fate
      BY <1>2, <2>2 DEF NetworkError
    <3>2. /\ x \in Requests /\ intake' \in Seq(Requests) /\ IntakeInOrder'
          /\ \A r \in Requests : r # x => Copies(r)' = Copies(r)
          /\ \E n \in Nat : n = Cardinality({i \in DOMAIN intake' : intake'[i] = x}) /\ n <= sender.attempts
      BY <2>0, <3>x, IntakeGrows
    <3>3. /\ sender' \in Senders /\ sender'.pc = "sleeping" /\ sender'.req = x
          /\ sender'.attempts = sender.attempts /\ sender.attempts \in Nat
      BY <3>x, <3>1 DEF ProxyTypeOK, Senders
    <3>4. ProxyTypeOK'
      BY <2>0, <3>1, <3>2, <3>3 DEF ProxyTypeOK
    <3>5. Busy /\ Busy' /\ Taken' = Taken /\ Released' = Released
      BY <2>0, <3>3 DEF Busy, Taken, Released
    <3>6. QueueIsRest'
      BY <2>0, <3>x, <3>1, <3>3, <3>5 DEF QueueIsRest
    <3>7. WaitersOK' /\ SentOnce'
      BY <2>0, HandlerFrame
    <3>8. CopiesBounded'
      <4>1. sender.attempts \in 1..MaxRetries /\ sender.attempts < MaxRetries
        BY <2>2, <3>3, <3>5 DEF CopiesBounded, ConstantsOK
      <4>2. Cardinality(Copies(x)') <= sender.attempts /\ Cardinality(Copies(x)') <= MaxRetries
        BY <3>2, <3>3, <4>1 DEF Copies, ConstantsOK
      <4>3. \A r \in Requests : Cardinality(Copies(r)') <= MaxRetries
        BY <3>2, <4>2 DEF CopiesBounded
      <4>4. Copies(sender.req)' = Copies(x)'
        BY <3>3 DEF Copies
      <4> QED
        BY <3>3, <4>1, <4>2, <4>3, <4>4 DEF CopiesBounded
    <3> QED
      BY <3>2, <3>4, <3>6, <3>7, <3>8
  <2> QED
    BY <2>1, <2>2
<1> QED
  BY <1>1, <1>2

\* The back-off is over.
LEMMA RetryIndInv ==
  ASSUME ConstantsOK, IndInv, Retry
  PROVE  IndInv'
<1> USE DEF IndInv
<1>x. PICK x : x = sender.req
  OBVIOUS
<1>1. /\ sender.pc = "sleeping" /\ sender' = [sender EXCEPT !.pc = "sending", !.attempts = @ + 1]
      /\ UNCHANGED <<handler, answer, waiting, queue, intake, fate, sent>>
  BY DEF Retry
<1>2. /\ sender' \in Senders /\ sender'.pc = "sending" /\ sender'.req = x
      /\ sender'.attempts = sender.attempts + 1 /\ sender.attempts \in Nat
  <2>1. sender \in Senders
    BY DEF ProxyTypeOK
  <2>2. /\ sender.attempts \in Nat /\ sender.attempts + 1 \in Nat
        /\ sender'.pc = "sending" /\ sender'.req = x /\ sender'.attempts = sender.attempts + 1
    BY <1>x, <1>1, <2>1 DEF Senders
  <2>3. sender' = [pc |-> "sending", req |-> x, attempts |-> sender.attempts + 1] /\ x \in Requests \cup {"none"}
    BY <1>x, <1>1, <2>1 DEF Senders
  <2> QED
    BY <2>2, <2>3 DEF Senders
<1>3. ProxyTypeOK'
  BY <1>1, <1>2 DEF ProxyTypeOK
<1>4. Busy /\ Busy' /\ Taken' = Taken /\ Released' = Released
  BY <1>1, <1>2 DEF Busy, Taken, Released
<1>5. QueueIsRest'
  BY <1>x, <1>1, <1>2, <1>4 DEF QueueIsRest
<1>6. IntakeInOrder'
  BY <1>1, <1>4 DEF IntakeInOrder
<1>7. WaitersOK' /\ SentOnce'
  BY <1>1, HandlerFrame
<1>8. CopiesBounded'
  <2>1. \A q : Copies(q)' = {i \in DOMAIN intake : intake[i] = q} /\ Copies(q) = Copies(q)'
    BY <1>1 DEF Copies
  <2>2. sender'.attempts \in 1..MaxRetries /\ sender'.attempts - 1 = sender.attempts
    BY <1>1, <1>2, <1>4 DEF CopiesBounded, ConstantsOK
  <2>3. Cardinality(Copies(x)) <= sender.attempts
    BY <1>x, <1>1 DEF CopiesBounded
  <2>4. Copies(sender.req)' = Copies(x)
    BY <1>1, <1>2 DEF Copies
  <2>5. \A r \in Requests : Cardinality(Copies(r)') <= MaxRetries
    BY <2>1 DEF CopiesBounded
  <2> QED
    BY <1>2, <2>2, <2>3, <2>4, <2>5 DEF CopiesBounded
<1> QED
  BY <1>3, <1>5, <1>6, <1>7, <1>8

\* Every step preserves the invariant.
LEMMA NextIndInv == ConstantsOK /\ IndInv /\ [ProxyNext]_proxyVars => IndInv'
<1> SUFFICES ASSUME ConstantsOK, IndInv, [ProxyNext]_proxyVars PROVE IndInv'
  OBVIOUS
<1> USE DEF IndInv
<1>1. ASSUME UNCHANGED <<handler, answer, waiting, queue, intake, fate, sent>>,
             sender' \in Senders, ~Busy, ~Busy', sender'.req = sender.req
      PROVE  IndInv'
  <2>1. Taken' = Taken /\ Released' = Released
    BY <1>1 DEF Taken, Released
  <2>2. ProxyTypeOK' /\ WaitersOK' /\ SentOnce'
    BY <1>1, HandlerFrame DEF ProxyTypeOK
  <2>3. QueueIsRest' /\ IntakeInOrder'
    BY <1>1, <2>1 DEF QueueIsRest, IntakeInOrder
  <2>4. \A r : Copies(r)' = Copies(r)
    BY <1>1 DEF Copies
  <2>5. CopiesBounded'
    BY <1>1, <2>4 DEF CopiesBounded, Busy
  <2> QED
    BY <2>2, <2>3, <2>5
<1>2. ASSUME UNCHANGED <<handler, answer, waiting, queue, sender, intake, fate, sent>>
      PROVE  IndInv'
  <2>1. ProxyTypeOK' /\ WaitersOK' /\ SentOnce'
    BY <1>2, HandlerFrame DEF ProxyTypeOK
  <2> QED
    BY <1>2, <2>1, FlusherFrame
<1>3. CASE StopServing
  BY <1>2, <1>3 DEF StopServing
<1>4. CASE Receive
  BY <1>4, ReceiveIndInv
<1>5. CASE \/ \E status \in {"accepted", "rejected"} : Response(status)
           \/ \E arrived \in BOOLEAN : NetworkError(arrived)
  BY <1>5, SendingIndInv
<1>6. CASE Retry
  BY <1>6, RetryIndInv
<1>7. CASE FlusherEnds
  <2>1. sender.pc = "recv" /\ sender' = [sender EXCEPT !.pc = "ended"] /\ sender \in Senders
    BY <1>7 DEF FlusherEnds, ProxyTypeOK
  <2>2. sender' \in Senders /\ sender'.pc = "ended" /\ sender'.req = sender.req
    BY <2>1 DEF Senders
  <2> QED
    BY <1>1, <1>7, <2>1, <2>2 DEF FlusherEnds, Busy
<1>8. ASSUME NEW r \in Requests, HandlerStep(r) PROVE IndInv'
  BY <1>8, HandlerIndInv, SendAcceptedIndInv DEF HandlerStep
<1>9. CASE UNCHANGED proxyVars
  BY <1>2, <1>9 DEF proxyVars
<1> QED
  BY <1>3, <1>4, <1>5, <1>6, <1>7, <1>8, <1>9 DEF ProxyNext, SenderStep

\* The strengthening of the two properties is an invariant.
THEOREM ProxyInvariance == ProxySpec => []IndInv
<1>1. ProxyInit => IndInv
  BY InitIndInv, ProxyForwardingAssumption
<1>2. IndInv /\ [ProxyNext]_proxyVars => IndInv'
  BY NextIndInv, ProxyForwardingAssumption
<1> QED
  BY <1>1, <1>2, PTL DEF ProxySpec

\* Every variable of the proxy keeps its type.
THEOREM ProxyTypeCorrect == ProxySpec => []ProxyTypeOK
<1>1. IndInv => ProxyTypeOK
  BY DEF IndInv
<1> QED
  BY <1>1, ProxyInvariance, PTL

-----------------------------------------------------------------------------
(* The properties.                                                         *)

\* The order of what Datadog got is the order of what was sent.
LEMMA OrderFollows == IndInv => ForwardedInOrder
<1> SUFFICES ASSUME IndInv PROVE ForwardedInOrder
  OBVIOUS
<1> USE DEF IndInv
<1> DEFINE place(r) == CHOOSE k \in DOMAIN sent : sent[k] = r
<1>1. ASSUME NEW i \in DOMAIN intake
      PROVE  place(intake[i]) \in DOMAIN sent /\ sent[place(intake[i])] = intake[i]
  <2>1. Len(sent) \in Nat /\ DOMAIN sent = 1..Len(sent) /\ Len(queue) \in Nat
    BY DEF ProxyTypeOK
  <2>2. PICK k \in 1..Taken : intake[i] = sent[k]
    BY DEF IntakeInOrder
  <2>3. k \in DOMAIN sent
    BY <2>1, <2>2 DEF Taken
  <2> QED
    BY <2>2, <2>3
<1> HIDE DEF place
<1>2. \A i, j \in DOMAIN intake : i < j => place(intake[i]) <= place(intake[j])
  BY <1>1 DEF IntakeInOrder
<1>3. \A r \in Requests : Cardinality({i \in DOMAIN intake : intake[i] = r}) <= MaxRetries
  BY DEF CopiesBounded, Copies
<1> QED
  BY <1>2, <1>3 DEF ForwardedInOrder, place

\* Each request that was sent is in one place, and no other is anywhere.
LEMMA HeldFollows == ConstantsOK /\ IndInv => AcceptedIsHeld
<1> SUFFICES ASSUME ConstantsOK, IndInv, NEW r \in Requests
             PROVE  LET places == {p \in {"queue", "sender", "over"} :
                                     CASE p = "queue" -> r \in ToSet(queue)
                                       [] p = "sender" -> sender.req = r
                                       [] p = "over" -> fate[r] # "none"}
                    IN IF r \in ToSet(sent)
                       THEN answer[r] = 200 /\ Cardinality(places) = 1
                       ELSE places = {} /\ r \notin ToSet(intake)
  BY DEF AcceptedIsHeld
<1> USE DEF IndInv
<1> DEFINE places == {p \in {"queue", "sender", "over"} :
                        CASE p = "queue" -> r \in ToSet(queue)
                          [] p = "sender" -> sender.req = r
                          [] p = "over" -> fate[r] # "none"}
<1>1. /\ "queue" \in places <=> r \in ToSet(queue)
      /\ "sender" \in places <=> sender.req = r
      /\ "over" \in places <=> fate[r] # "none"
      /\ places \subseteq {"queue", "sender", "over"}
  OBVIOUS
<1> HIDE DEF places
<1>2. /\ Len(sent) \in Nat /\ DOMAIN sent = 1..Len(sent)
      /\ Len(queue) \in Nat /\ DOMAIN queue = 1..Len(queue)
      /\ Taken = Len(sent) - Len(queue) /\ Taken \in Nat
  <2>1. /\ Len(sent) \in Nat /\ DOMAIN sent = 1..Len(sent)
        /\ Len(queue) \in Nat /\ DOMAIN queue = 1..Len(queue)
    BY DEF ProxyTypeOK
  <2>2. Taken >= 0
    BY DEF QueueIsRest
  <2> QED
    BY <2>1, <2>2 DEF Taken
<1>b. Busy => Released = Taken - 1
  BY DEF Released
<1>n. ~Busy => Released = Taken
  BY DEF Released
<1>s. Released >= 0
  BY DEF QueueIsRest
<1>3. /\ r \in ToSet(queue) <=> \E i \in DOMAIN queue : queue[i] = r
      /\ r \in ToSet(sent) <=> \E i \in DOMAIN sent : sent[i] = r
      /\ r \in ToSet(intake) <=> \E i \in DOMAIN intake : intake[i] = r
  BY DEF ToSet
<1>4. CASE r \in ToSet(sent)
  <2>1. PICK k \in DOMAIN sent : sent[k] = r
    BY <1>3, <1>4
  <2>2. answer[r] = 200
    BY <2>1 DEF SentOnce
  <2>3. \A m \in DOMAIN sent : sent[m] = r => m = k
    BY <2>1 DEF SentOnce
  <2>4. fate[r] # "none" <=> k <= Released
    BY <2>1 DEF QueueIsRest
  <2>5. sender.req = r <=> Busy /\ k = Taken
    <3>1. Busy => sender.req = sent[Taken] /\ Taken \in DOMAIN sent
      <4> SUFFICES ASSUME Busy PROVE sender.req = sent[Taken] /\ Taken \in DOMAIN sent
        OBVIOUS
      <4>1. Taken - 1 >= 0
        BY <1>b, <1>s
      <4>2. Taken \in DOMAIN sent
        BY <1>2, <4>1
      <4> QED
        BY <4>2 DEF QueueIsRest
    <3>2. ~Busy => sender.req # r
      BY DEF QueueIsRest, ConstantsOK
    <3> QED
      BY <2>1, <2>3, <3>1, <3>2
  <2>6. r \in ToSet(queue) <=> k > Taken
    <3>1. ASSUME NEW i \in DOMAIN queue, queue[i] = r PROVE k > Taken
      <4>1. Taken + i \in DOMAIN sent /\ sent[Taken + i] = r
        BY <1>2, <3>1 DEF QueueIsRest
      <4>2. Taken + i = k
        BY <2>3, <4>1
      <4> QED
        BY <1>2, <4>2
    <3>2. ASSUME k > Taken PROVE \E i \in DOMAIN queue : queue[i] = r
      <4>1. k - Taken \in DOMAIN queue /\ Taken + (k - Taken) = k
        BY <1>2, <3>2
      <4>2. queue[k - Taken] = sent[Taken + (k - Taken)]
        BY <4>1 DEF QueueIsRest
      <4> QED
        BY <2>1, <4>1, <4>2
    <3> QED
      BY <1>3, <3>1, <3>2
  <2>7. places = {"over"} \/ places = {"sender"} \/ places = {"queue"}
    <3>0. k \in Nat
      BY <1>2
    <3>1. CASE ~Busy
      <4>1. k <= Released <=> ~(k > Taken)
        BY <1>2, <1>n, <3>0, <3>1
      <4>2. "sender" \notin places
        BY <1>1, <2>5, <3>1
      <4> QED
        BY <1>1, <2>4, <2>6, <4>1, <4>2
    <3>2. CASE Busy
      <4>1. Released = Taken - 1
        BY <1>b, <3>2
      <4>2. sender.req = r <=> k = Taken
        BY <2>5, <3>2
      <4>3. \/ k <= Released /\ ~(k > Taken) /\ k # Taken
            \/ ~(k <= Released) /\ k > Taken /\ k # Taken
            \/ ~(k <= Released) /\ ~(k > Taken) /\ k = Taken
        BY <1>2, <3>0, <4>1
      <4> QED
        BY <1>1, <2>4, <2>6, <4>2, <4>3
    <3> QED
      BY <3>1, <3>2
  <2>8. Cardinality(places) = 1
    BY <2>7, FS_Singleton
  <2> QED
    BY <1>4, <2>2, <2>8 DEF places
<1>5. CASE r \notin ToSet(sent)
  <2>1. \A k \in DOMAIN sent : sent[k] # r
    BY <1>3, <1>5
  <2>2. fate[r] = "none"
    BY <2>1 DEF QueueIsRest
  <2>3. r \notin ToSet(queue)
    <3>1. ASSUME NEW i \in DOMAIN queue PROVE queue[i] # r
      <4>1. Taken + i \in DOMAIN sent /\ queue[i] = sent[Taken + i]
        BY <1>2 DEF QueueIsRest
      <4> QED
        BY <2>1, <4>1
    <3> QED
      BY <1>3, <3>1
  <2>4. sender.req # r
    <3>1. Busy => sender.req = sent[Taken] /\ Taken \in DOMAIN sent
      <4> SUFFICES ASSUME Busy PROVE sender.req = sent[Taken] /\ Taken \in DOMAIN sent
        OBVIOUS
      <4>1. Taken - 1 >= 0
        BY <1>b, <1>s
      <4>2. Taken \in DOMAIN sent
        BY <1>2, <4>1
      <4> QED
        BY <4>2 DEF QueueIsRest
    <3>2. ~Busy => sender.req # r
      BY DEF QueueIsRest, ConstantsOK
    <3> QED
      BY <2>1, <3>1, <3>2
  <2>5. r \notin ToSet(intake)
    <3>1. ASSUME NEW i \in DOMAIN intake PROVE intake[i] # r
      <4>1. PICK k \in 1..Taken : intake[i] = sent[k]
        BY DEF IntakeInOrder
      <4>2. k \in DOMAIN sent
        BY <1>2, <4>1
      <4> QED
        BY <2>1, <4>1, <4>2
    <3> QED
      BY <1>3, <3>1
  <2>6. places = {}
    BY <1>1, <2>2, <2>3, <2>4
  <2> QED
    BY <1>5, <2>5, <2>6 DEF places
<1> QED
  BY <1>4, <1>5

\* Requests reach Datadog in the order the channel took them, each at most
\* MaxRetries times, and each is queued, in the flusher's hands or let go of,
\* however handlers, clients, the network and the end of serving interleave
\* (proxy_handler, start_proxy_flusher and send_request).
THEOREM ProxyKeepsOrder == ProxySpec => []ProxyOrdered
<1>1. IndInv => ProxyOrdered
  BY OrderFollows, HeldFollows, ProxyForwardingAssumption DEF ProxyOrdered
<1> QED
  BY <1>1, ProxyInvariance, PTL

=============================================================================
