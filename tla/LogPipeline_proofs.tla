------------------------- MODULE LogPipeline_proofs -------------------------
(***************************************************************************)
(* Proofs about the log agent, for any requests, any limits and any number *)
(* of attempts and endpoints: what was acknowledged is in exactly one      *)
(* place, and an additional endpoint is offered a batch once.  What        *)
(* get_all_batches and the inserts of the service do is taken from         *)
(* LogBatching_proofs.                                                     *)
(***************************************************************************)
EXTENDS LogPipeline, ProofLibrary, FiniteSetTheorems, SequenceTheorems

-----------------------------------------------------------------------------
(* The inductive invariant.                                                *)

\* No entry twice.
Differ(s) == \A i, j \in DOMAIN s : s[i] = s[j] => i = j

Fine == {e \in Entries : ~B!TooLarge(e)}
Commands == [op : {"insert"}, entries : {s \in Seq(Entries) : Differ(s)}]
              \cup [op : {"get", "shutdown"}]
Batches == Seq(Entries) \ {<<>>}
Jobs == [batch : Batches, to : Extras \cup {"primary"}, attempts : Nat]

TypeOK ==
  /\ reply \in [Posts -> Nat] /\ mailbox \in Seq(Commands)
  /\ running \in BOOLEAN /\ messages \in Seq(Fine)
  /\ stage \in {"idle", "redriving", "draining", "shipping"} /\ jobs \in SUBSET Jobs
  /\ failed \in SUBSET Batches /\ pending \in SUBSET Batches /\ confirmed \in SUBSET Batches
  /\ dropped \in SUBSET Entries /\ lost \in SUBSET Entries
  /\ mirrored \in SUBSET (Batches \X Extras)

\* The flush is alone: it holds deliveries only while it ships or redrives,
\* main keeps batches only between flushes, and there is one request for
\* batches, of the flush that waits for it.
FlushAlone ==
  /\ stage \in {"idle", "draining"} => jobs = {}
  /\ stage # "idle" => pending = {}
  /\ \A i \in DOMAIN mailbox : mailbox[i].op = "get" =>
       stage = "draining" /\ \A k \in DOMAIN mailbox : mailbox[k].op = "get" => k = i

\* Two batches of a set have no entry in common.
Apart(bs) == \A b, c \in bs : b # c => Values(b) \cap Values(c) = {}

\* Within a place no entry is twice.
NoneTwice ==
  /\ \A i, k \in DOMAIN mailbox :
       mailbox[i].op = "insert" /\ mailbox[k].op = "insert" /\ i # k
         => Values(mailbox[i].entries) \cap Values(mailbox[k].entries) = {}
  /\ Differ(messages)
  /\ \A j, k \in jobs : j.to = "primary" /\ k.to = "primary" /\ j # k
       => Values(j.batch) \cap Values(k.batch) = {}
  /\ Apart(failed) /\ Apart(pending)

\* What additional endpoints were offered is no longer with the service, nor
\* under way for the first time.
MirroredBefore ==
  \A m \in mirrored :
    /\ Values(m[1]) \subseteq Acknowledged
    /\ Values(m[1]) \cap (Queued(mailbox) \cup Values(messages)) = {}
    /\ stage = "shipping" => \A j \in jobs : j.to = "primary" => j.batch # m[1]

IndInv == TypeOK /\ FlushAlone /\ NoneTwice /\ Partition(Places, Acknowledged) /\ MirroredBefore

-----------------------------------------------------------------------------
(* The operators of the model.                                             *)

BP == INSTANCE LogBatching_proofs
        WITH Size <- SizeOf, Sizes <- {}, MaxInput <- 0, currentSize <- 0, inserted <- <<>>, batches <- <<>>

\* The accumulator of the model is the one of LogBatching_proofs.
LEMMA SameAccumulator ==
  /\ BP!ConstantsOK /\ BP!LimitsOK /\ BP!Small(Entries) = Fine /\ \A e \in Entries : SizeOf(e) \in Nat
  /\ \A s : B!GetAllBatches(s) = BP!GetAllBatches(s)
  /\ \A q, s : B!InsertAll(q, s) = BP!InsertAll(q, s)
<1>1. BP!LimitsOK
  BY LogPipelineAssumption DEF BP!LimitsOK
<1>2. BP!Small(Entries) = Fine
  BY DEF BP!Small, BP!TooLarge, Fine, B!TooLarge
<1>3. \A e \in Entries : SizeOf(e) \in Nat
  BY LogPipelineAssumption DEF SizeOf
<1>4. \A s : B!GetAllBatches(s) = BP!GetAllBatches(s)
  BY Zenon DEF B!Cardinality, BP!Cardinality, B!GetAllBatches, B!FirstBatch, B!AfterFirstBatch, B!BatchLength, B!Fits, B!WireSize, B!Bytes,
        BP!GetAllBatches, BP!FirstBatch, BP!AfterFirstBatch, BP!BatchLength, BP!Fits, BP!WireSize, BP!Bytes
<1>5. \A q, s : B!InsertAll(q, s) = BP!InsertAll(q, s)
  BY Zenon DEF B!InsertAll, BP!InsertAll, B!TooLarge, BP!TooLarge
<1>6. BP!ConstantsOK
  BY <1>1 DEF BP!ConstantsOK
<1> QED
  BY <1>1, <1>2, <1>3, <1>4, <1>5, <1>6

\* get_all_batches hands out what the queue holds, each entry in one batch.
LEMMA AllBatches ==
  ASSUME NEW s \in Seq(Fine), NEW bs, bs = Values(B!GetAllBatches(s))
  PROVE  bs \in SUBSET Batches /\ InBatches(bs) = Values(s) /\ (Differ(s) => Apart(bs))
<1>1. PICK g : g = B!GetAllBatches(s)
  OBVIOUS
<1>2. g = BP!GetAllBatches(s) /\ BP!ConstantsOK /\ BP!LimitsOK /\ s \in Seq(BP!Small(Entries)) /\ \A e \in Entries : SizeOf(e) \in Nat
  BY <1>1, SameAccumulator
<1>3. \A n \in DOMAIN g : g[n] \in Seq(Fine) /\ g[n] # <<>>
  BY <1>2, SameAccumulator, BP!AllBatchesSplit
<1>4. \A n \in DOMAIN g : \A j \in DOMAIN g[n] : \E i \in DOMAIN s : s[i] = g[n][j]
  BY <1>2, BP!AllBatchesSplit
<1>5. \A i \in DOMAIN s : \E n \in DOMAIN g : \E j \in DOMAIN g[n] : s[i] = g[n][j]
  BY <1>2, BP!AllBatchesSplit
<1>6. (\A i, j \in DOMAIN s : s[i] = s[j] => i = j) =>
        \A m, n \in DOMAIN g : \A j \in DOMAIN g[m], k \in DOMAIN g[n] : g[m][j] = g[n][k] => m = n
  <2>1. (\A i, j \in DOMAIN s : s[i] = s[j] => i = j) =>
          \A m, n \in DOMAIN BP!GetAllBatches(s) :
            \A j \in DOMAIN BP!GetAllBatches(s)[m], k \in DOMAIN BP!GetAllBatches(s)[n] :
              BP!GetAllBatches(s)[m][j] = BP!GetAllBatches(s)[n][k] => m = n
    BY <1>2, BP!AllBatchesSplit
  <2>2. g = BP!GetAllBatches(s)
    BY <1>2
  <2> QED
    BY <2>1, <2>2
<1>7. Seq(Fine) \subseteq Seq(Entries)
  BY DEF Fine
<1>8. bs \in SUBSET Batches
  BY <1>1, <1>3, <1>7 DEF Values, Batches
<1>9. InBatches(bs) = Values(s)
  BY <1>1, <1>4, <1>5 DEF InBatches, Values
<1>10. ASSUME Differ(s) PROVE Apart(bs)
  <2> SUFFICES ASSUME NEW b \in bs, NEW c \in bs, NEW e \in Values(b), e \in Values(c) PROVE b = c
    BY DEF Apart
  <2>1. PICK m \in DOMAIN g : b = g[m]
    BY <1>1 DEF Values
  <2>2. PICK n \in DOMAIN g : c = g[n]
    BY <1>1 DEF Values
  <2>3. PICK j \in DOMAIN g[m] : e = g[m][j]
    BY <2>1 DEF Values
  <2>4. PICK k \in DOMAIN g[n] : e = g[n][k]
    BY <2>2 DEF Values
  <2> QED
    BY <1>6, <1>10, <2>1, <2>2, <2>3, <2>4 DEF Differ
<1> QED
  BY <1>8, <1>9, <1>10

\* The service inserts what is not too large.
LEMMA AllInserted ==
  ASSUME NEW q \in Seq(Fine), NEW s \in Seq(Entries), NEW t, t = B!InsertAll(q, s)
  PROVE  /\ t \in Seq(Fine) /\ Values(t) = Values(q) \cup {e \in Values(s) : ~B!TooLarge(e)}
         /\ Differ(q) /\ Differ(s) /\ Values(q) \cap Values(s) = {} => Differ(t)
<1>1. t = BP!InsertAll(q, s) /\ BP!ConstantsOK /\ q \in Seq(BP!Small(Entries))
  BY SameAccumulator
<1>2. /\ t \in Seq(BP!Small(Entries))
      /\ BP!Elements(t) = BP!Elements(q) \cup {e \in BP!Elements(s) : ~BP!TooLarge(e)}
      /\ BP!Differ(q) /\ BP!Differ(s) /\ BP!Elements(q) \cap BP!Elements(s) = {} => BP!Differ(t)
  BY <1>1, BP!InsertAllIs
<1>3. \A e : BP!TooLarge(e) <=> B!TooLarge(e)
  BY DEF BP!TooLarge, B!TooLarge
<1>4. /\ BP!Elements(t) = Values(t) /\ BP!Elements(q) = Values(q) /\ BP!Elements(s) = Values(s)
      /\ BP!Differ(t) = Differ(t) /\ BP!Differ(q) = Differ(q) /\ BP!Differ(s) = Differ(s)
  BY Zenon DEF BP!Elements, Values, BP!Differ, Differ
<1>5. t \in Seq(Fine)
  BY <1>2, SameAccumulator
<1> QED
  BY <1>2, <1>3, <1>4, <1>5

\* One more command in the mailbox.
LEMMA QueuedAppend ==
  ASSUME NEW m \in Seq(Commands), NEW c \in Commands
  PROVE  Queued(Append(m, c)) = Queued(m) \cup (IF c.op = "insert" THEN Values(c.entries) ELSE {})
<1>1. PICK u : u = Append(m, c)
  OBVIOUS
<1>2. /\ Len(m) \in Nat /\ DOMAIN m = 1..Len(m) /\ DOMAIN u = 1..(Len(m) + 1)
      /\ u[Len(m) + 1] = c /\ \A i \in 1..Len(m) : u[i] = m[i]
  BY <1>1
<1>3. /\ \A i \in DOMAIN u : i \in DOMAIN m \/ i = Len(m) + 1
      /\ \A i \in DOMAIN m : i \in DOMAIN u /\ u[i] = m[i]
      /\ Len(m) + 1 \in DOMAIN u
  BY <1>2
<1>4. ASSUME NEW e PROVE e \in Queued(u) <=> \E i \in DOMAIN u : u[i].op = "insert" /\ e \in Values(u[i].entries)
  BY DEF Queued
<1>5. ASSUME NEW e PROVE e \in Queued(m) <=> \E i \in DOMAIN m : m[i].op = "insert" /\ e \in Values(m[i].entries)
  BY DEF Queued
<1>6. ASSUME NEW e PROVE e \in Queued(u) <=> e \in Queued(m) \/ (c.op = "insert" /\ e \in Values(c.entries))
  BY <1>2, <1>3, <1>4, <1>5
<1> QED
  BY <1>1, <1>6

\* The first command leaves the mailbox.
LEMMA QueuedTail ==
  ASSUME NEW m \in Seq(Commands), m # <<>>
  PROVE  /\ Head(m) \in Commands /\ Head(m) = m[1] /\ 1 \in DOMAIN m /\ Tail(m) \in Seq(Commands)
         /\ Queued(m) = Queued(Tail(m)) \cup (IF Head(m).op = "insert" THEN Values(Head(m).entries) ELSE {})
         /\ \A i \in DOMAIN Tail(m) : i + 1 \in DOMAIN m /\ i + 1 # 1 /\ Tail(m)[i] = m[i + 1]
         /\ \A i, k \in DOMAIN Tail(m) : i + 1 = k + 1 => i = k
<1>1. PICK u : u = Tail(m)
  OBVIOUS
<1>2. PICK c : c = Head(m)
  OBVIOUS
<1>3. /\ Len(m) \in Nat /\ Len(m) # 0 /\ DOMAIN m = 1..Len(m) /\ c = m[1] /\ u \in Seq(Commands)
      /\ DOMAIN u = 1..(Len(m) - 1) /\ \A i \in 1..(Len(m) - 1) : u[i] = m[i + 1]
  BY <1>1, <1>2
<1>4. /\ 1 \in DOMAIN m /\ c \in Commands
      /\ \A i \in DOMAIN u : i + 1 \in DOMAIN m /\ i + 1 # 1 /\ u[i] = m[i + 1]
      /\ \A i, k \in DOMAIN u : i + 1 = k + 1 => i = k
  BY <1>3
<1>5. \A i \in DOMAIN m : i = 1 \/ \E k \in DOMAIN u : i = k + 1
  <2> TAKE i \in DOMAIN m
  <2>1. i = 1 \/ (i - 1 \in 1..(Len(m) - 1) /\ i = (i - 1) + 1)
    BY <1>3
  <2> QED
    BY <1>3, <2>1
<1>6. ASSUME NEW e PROVE e \in Queued(u) <=> \E i \in DOMAIN u : u[i].op = "insert" /\ e \in Values(u[i].entries)
  BY DEF Queued
<1>7. ASSUME NEW e PROVE e \in Queued(m) <=> \E i \in DOMAIN m : m[i].op = "insert" /\ e \in Values(m[i].entries)
  BY DEF Queued
<1>8. ASSUME NEW e PROVE e \in Queued(m) <=> e \in Queued(u) \/ (c.op = "insert" /\ e \in Values(c.entries))
  <2>1. ASSUME e \in Queued(m) PROVE e \in Queued(u) \/ (c.op = "insert" /\ e \in Values(c.entries))
    <3>1. PICK i \in DOMAIN m : m[i].op = "insert" /\ e \in Values(m[i].entries)
      BY <1>7, <2>1
    <3>2. CASE i = 1
      BY <1>3, <3>1, <3>2
    <3>3. CASE \E k \in DOMAIN u : i = k + 1
      BY <1>4, <1>6, <3>1, <3>3
    <3> QED
      BY <1>5, <3>2, <3>3
  <2>2. ASSUME e \in Queued(u) PROVE e \in Queued(m)
    BY <1>4, <1>6, <1>7, <2>2
  <2>3. ASSUME c.op = "insert", e \in Values(c.entries) PROVE e \in Queued(m)
    BY <1>3, <1>4, <1>7, <2>3
  <2> QED
    BY <2>1, <2>2, <2>3
<1> QED
  BY <1>1, <1>2, <1>3, <1>4, <1>8

-----------------------------------------------------------------------------
(* The places of an entry.                                                 *)

\* The eight places, one by one.
LEMMA EightPlaces ==
  /\ Places[1] = Queued(mailbox) /\ Places[2] = Values(messages)
  /\ Places[3] = InBatches(ToPrimary) /\ Places[4] = InBatches(failed)
  /\ Places[5] = InBatches(pending) /\ Places[6] = InBatches(confirmed)
  /\ Places[7] = dropped /\ Places[8] = lost
  BY DEF Places

LEMMA EightPlacesNext ==
  /\ Places'[1] = Queued(mailbox') /\ Places'[2] = Values(messages')
  /\ Places'[3] = InBatches(ToPrimary') /\ Places'[4] = InBatches(failed')
  /\ Places'[5] = InBatches(pending') /\ Places'[6] = InBatches(confirmed')
  /\ Places'[7] = dropped' /\ Places'[8] = lost'
  BY DEF Places

\* The invariant says that what is acknowledged is in exactly one place.
LEMMA InOnePlace ==
  ASSUME Partition(Places, Acknowledged)
  PROVE  AcknowledgedAccounted
  BY OnePlaceEach DEF AcknowledgedAccounted

\* The batches of the deliveries to the primary.
PrimaryOf(js) == {j.batch : j \in {k \in js : k.to = "primary"}}

LEMMA NewPrimary ==
  ASSUME NEW bs
  PROVE  /\ PrimaryOf(NewJobs(bs, {"primary"})) = bs
         /\ \A j \in NewJobs(bs, {"primary"}) : j.batch \in bs /\ j.to = "primary" /\ j.attempts = 0
         /\ \A j, k \in NewJobs(bs, {"primary"}) : j # k => j.batch # k.batch
         /\ bs \in SUBSET Batches => NewJobs(bs, {"primary"}) \in SUBSET Jobs
<1>1. NewJobs(bs, {"primary"}) = {[batch |-> b, to |-> "primary", attempts |-> 0] : b \in bs}
  BY DEF NewJobs
<1>2. PICK js : js = NewJobs(bs, {"primary"})
  OBVIOUS
<1>3. ASSUME NEW b \in bs PROVE \E j \in js : j.batch = b /\ j.to = "primary"
  <2>1. PICK j \in js : j = [batch |-> b, to |-> "primary", attempts |-> 0]
    BY <1>1, <1>2
  <2> QED
    BY <2>1
<1>4. \A j \in js : \E b \in bs : j = [batch |-> b, to |-> "primary", attempts |-> 0]
  BY <1>1, <1>2
<1>5. \A j \in js : j.batch \in bs /\ j.to = "primary" /\ j.attempts = 0
  BY <1>4
<1>6. PrimaryOf(js) = bs
  BY <1>3, <1>5 DEF PrimaryOf
<1>7. ASSUME NEW j \in js, NEW k \in js, j.batch = k.batch PROVE j = k
  BY <1>4, <1>7
<1>8. ASSUME bs \in SUBSET Batches PROVE js \in SUBSET Jobs
  BY <1>4, <1>8 DEF Jobs
<1> QED
  BY <1>2, <1>5, <1>6, <1>7, <1>8

\* A batch is not empty.
LEMMA BatchHasEntries ==
  ASSUME NEW b \in Batches
  PROVE  Values(b) # {} /\ Values(b) \subseteq Entries
<1>1. b \in Seq(Entries) /\ Len(b) \in Nat /\ Len(b) # 0 /\ DOMAIN b = 1..Len(b)
  BY DEF Batches
<1>2. 1 \in DOMAIN b
  BY <1>1
<1> QED
  BY <1>1, <1>2 DEF Values

-----------------------------------------------------------------------------
(* What the actions do.  First those of the server and of the service.     *)

LEMMA InitIndInv == ASSUME LogInit PROVE IndInv
<1> USE DEF LogInit
<1>1. TypeOK
  <2>1. <<>> \in Seq(Commands) /\ <<>> \in Seq(Fine)
    OBVIOUS
  <2> QED
    BY <2>1 DEF TypeOK
<1>2. DOMAIN mailbox = {} /\ DOMAIN messages = {}
  OBVIOUS
<1>3. FlushAlone /\ NoneTwice /\ MirroredBefore
  BY <1>2 DEF FlushAlone, NoneTwice, Differ, Apart, MirroredBefore
<1>4. Queued(mailbox) = {} /\ Values(messages) = {} /\ InBatches({}) = {} /\ ToPrimary = {}
  BY <1>2 DEF Queued, Values, InBatches, ToPrimary
<1>5. \A k \in 1..8 : Places[k] = {}
  BY <1>4, EightPlaces, OneToEight
<1>6. Acknowledged = {}
  BY DEF Acknowledged
<1> QED
  BY <1>1, <1>3, <1>5, <1>6 DEF IndInv, Partition

\* What is acknowledged is what was, or that and the entries of the request
\* that is answered with 200.
LEMMA AnswerAcknowledges ==
  ASSUME TypeOK, NEW r \in Posts, reply[r] = 0, NEW status \in Nat,
         reply' = [reply EXCEPT ![r] = status]
  PROVE  /\ reply' \in [Posts -> Nat]
         /\ Acknowledged' = Acknowledged \cup (IF status = 200 THEN Values(Body[r]) ELSE {})
         /\ Values(Body[r]) \cap Acknowledged = {}
<1>1. reply \in [Posts -> Nat]
  BY DEF TypeOK
<1>2. reply' \in [Posts -> Nat] /\ reply'[r] = status /\ \A q \in Posts : q # r => reply'[q] = reply[q]
  BY <1>1
<1>3. ASSUME NEW e PROVE e \in Acknowledged <=> \E q \in Posts : reply[q] = 200 /\ e \in Values(Body[q])
  BY DEF Acknowledged
<1>4. ASSUME NEW e PROVE e \in Acknowledged' <=> \E q \in Posts : reply'[q] = 200 /\ e \in Values(Body[q])
  BY DEF Acknowledged
<1>5. ASSUME NEW e
      PROVE  e \in Acknowledged' <=> e \in Acknowledged \/ (status = 200 /\ e \in Values(Body[r]))
  BY <1>2, <1>3, <1>4
<1>6. ASSUME NEW e \in Values(Body[r]), e \in Acknowledged PROVE FALSE
  <2>1. PICK q \in Posts : reply[q] = 200 /\ e \in Values(Body[q])
    BY <1>3, <1>6
  <2>2. q = r
    BY <1>6, <2>1, LogPipelineAssumption DEF Values
  <2> QED
    BY <2>1, <2>2
<1> QED
  BY <1>2, <1>5, <1>6

\* Only the answers change.
LEMMA AnswerIndInv ==
  ASSUME IndInv, NEW r \in Posts, AnswerAtOnce(r)
  PROVE  IndInv'
<1>1. /\ UNCHANGED <<mailbox, running, messages, logFlusher, up, dropped, lost>>
      /\ reply[r] = 0 /\ reply' = [reply EXCEPT ![r] = Status[r]]
  BY DEF AnswerAtOnce
<1>s. PICK status \in Nat : status = Status[r]
  <2>1. Status \in [Posts -> {0, 200, 400, 404, 405, 413}]
    BY LogPipelineAssumption
  <2>2. Status[r] \in Nat
    BY <2>1
  <2> QED
    BY <2>2
<1>2. reply' \in [Posts -> Nat] /\ Acknowledged' = Acknowledged
  <2>1. status = 200 => Values(Body[r]) = {}
    <3>1. Status[r] = 200 => Body[r] = <<>>
      BY LogPipelineAssumption
    <3>2. Values(<<>>) = {}
      BY DEF Values
    <3> QED
      BY <1>s, <3>1, <3>2
  <2>2. TypeOK /\ reply' = [reply EXCEPT ![r] = status]
    BY <1>1, <1>s DEF IndInv
  <2>3. /\ reply' \in [Posts -> Nat]
        /\ Acknowledged' = Acknowledged \cup (IF status = 200 THEN Values(Body[r]) ELSE {})
    BY <1>1, <2>2, AnswerAcknowledges
  <2> QED
    BY <2>1, <2>3
<1>3. TypeOK' /\ FlushAlone' /\ NoneTwice' /\ MirroredBefore'
  BY <1>1, <1>2 DEF IndInv, TypeOK, FlushAlone, NoneTwice, MirroredBefore, logFlusher
<1>4. Places' = Places
  BY <1>1 DEF Places, logFlusher, ToPrimary
<1> QED
  BY <1>2, <1>3, <1>4 DEF IndInv

\* The flusher keeps its part of the invariant.
LEMMA FlusherFrame ==
  ASSUME IndInv, UNCHANGED logFlusher
  PROVE  /\ ToPrimary' = ToPrimary /\ Apart(failed)' /\ Apart(pending)'
         /\ \A j, k \in jobs' : j.to = "primary" /\ k.to = "primary" /\ j # k
              => Values(j.batch) \cap Values(k.batch) = {}
  BY DEF IndInv, NoneTwice, logFlusher, ToPrimary, Apart

\* A command is put into the mailbox, with new entries or with none.
LEMMA SendIndInv ==
  ASSUME IndInv, NEW c \in Commands, mailbox' = Append(mailbox, c), c.op # "get",
         c.op = "insert" => Values(c.entries) \cap Acknowledged = {},
         Acknowledged' = Acknowledged \cup (IF c.op = "insert" THEN Values(c.entries) ELSE {}),
         reply' \in [Posts -> Nat],
         UNCHANGED <<running, messages, logFlusher, up, dropped, lost>>
  PROVE  IndInv'
<1>0. mailbox \in Seq(Commands) /\ Len(mailbox) \in Nat /\ DOMAIN mailbox = 1..Len(mailbox)
  BY DEF IndInv, TypeOK
<1>1. mailbox' \in Seq(Commands)
  BY <1>0
<1>2. /\ \A i \in DOMAIN mailbox' : (i \in DOMAIN mailbox /\ mailbox'[i] = mailbox[i]) \/ (i = Len(mailbox) + 1 /\ mailbox'[i] = c)
  BY <1>0
<1> DEFINE M == IF c.op = "insert" THEN Values(c.entries) ELSE {}
<1>3. Queued(mailbox') = Queued(mailbox) \cup M
  BY <1>0, QueuedAppend
<1>4. M \cap Acknowledged = {} /\ Acknowledged' = Acknowledged \cup M
  OBVIOUS
<1>5. TypeOK'
  BY <1>1 DEF IndInv, TypeOK, logFlusher
<1>6. FlushAlone'
  BY <1>2 DEF IndInv, FlushAlone, logFlusher
<1>7. Queued(mailbox) \subseteq Acknowledged
  BY EightPlaces DEF IndInv, Partition
<1>8. \A i \in DOMAIN mailbox : mailbox[i].op = "insert" => Values(mailbox[i].entries) \subseteq Queued(mailbox)
  BY DEF Queued
<1>9. NoneTwice'
  <2>1. ASSUME NEW i \in DOMAIN mailbox', NEW k \in DOMAIN mailbox',
               mailbox'[i].op = "insert", mailbox'[k].op = "insert", i # k
        PROVE  Values(mailbox'[i].entries) \cap Values(mailbox'[k].entries) = {}
    <3>1. CASE i \in DOMAIN mailbox /\ mailbox'[i] = mailbox[i] /\ k \in DOMAIN mailbox /\ mailbox'[k] = mailbox[k]
      BY <2>1, <3>1 DEF IndInv, NoneTwice
    <3>2. CASE i \in DOMAIN mailbox /\ mailbox'[i] = mailbox[i] /\ mailbox'[k] = c
      BY <1>4, <1>7, <1>8, <2>1, <3>2
    <3>3. CASE k \in DOMAIN mailbox /\ mailbox'[k] = mailbox[k] /\ mailbox'[i] = c
      BY <1>4, <1>7, <1>8, <2>1, <3>3
    <3> QED
      BY <1>2, <2>1, <3>1, <3>2, <3>3
  <2>2. Differ(messages)'
    BY DEF IndInv, NoneTwice, Differ
  <2> QED
    BY <2>1, <2>2, FlusherFrame DEF NoneTwice
<1>10. Partition(Places', Acknowledged')
  <2>1. Places'[1] = Places[1] \cup M /\ \A k \in 1..8 : k # 1 => Places'[k] = Places[k]
    BY <1>3, EightPlaces, EightPlacesNext, OneToEight, FlusherFrame DEF logFlusher
  <2>2. Partition(Places, Acknowledged)
    BY DEF IndInv
  <2>3. 1 \in 1..8
    OBVIOUS
  <2> HIDE DEF M
  <2>4. Partition(Places', Acknowledged \cup M)
    BY <1>4, <2>1, <2>2, <2>3, NewKeepsPartition
  <2> QED
    BY <1>4, <2>4
<1>11. MirroredBefore'
  <2> SUFFICES ASSUME NEW m \in mirrored
               PROVE  /\ Values(m[1]) \subseteq Acknowledged'
                      /\ Values(m[1]) \cap (Queued(mailbox') \cup Values(messages')) = {}
                      /\ stage' = "shipping" => \A j \in jobs' : j.to = "primary" => j.batch # m[1]
    BY DEF MirroredBefore, logFlusher
  <2>1. /\ Values(m[1]) \subseteq Acknowledged /\ Values(m[1]) \cap (Queued(mailbox) \cup Values(messages)) = {}
        /\ stage = "shipping" => \A j \in jobs : j.to = "primary" => j.batch # m[1]
    BY DEF IndInv, MirroredBefore
  <2> QED
    BY <1>3, <1>4, <2>1 DEF logFlusher
<1> QED
  BY <1>5, <1>6, <1>9, <1>10, <1>11 DEF IndInv

LEMMA HandleRequestIndInv ==
  ASSUME IndInv, NEW r \in Posts, HandleRequest(r)
  PROVE  IndInv'
<1>0. TypeOK /\ reply[r] = 0 /\ 200 \in Nat /\ 500 \in Nat
  BY DEF IndInv, HandleRequest
<1>1. CASE running
  <2> DEFINE c == [op |-> "insert", entries |-> Body[r]]
  <2>1. /\ mailbox' = Append(mailbox, c) /\ reply' = [reply EXCEPT ![r] = 200]
        /\ UNCHANGED <<running, messages, logFlusher, up, dropped, lost>>
    BY <1>1 DEF HandleRequest
  <2>2. c \in Commands /\ c.op = "insert" /\ c.entries = Body[r] /\ c.op # "get"
    BY LogPipelineAssumption DEF Commands, Differ
  <2>3. /\ reply' \in [Posts -> Nat] /\ Acknowledged' = Acknowledged \cup Values(Body[r])
        /\ Values(Body[r]) \cap Acknowledged = {}
    BY <1>0, <2>1, AnswerAcknowledges, ZenonT(60)
  <2> HIDE DEF c
  <2> QED
    BY <2>1, <2>2, <2>3, SendIndInv
<1>2. CASE ~running
  <2>1. reply' = [reply EXCEPT ![r] = 500] /\ UNCHANGED <<mailbox, running, messages, logFlusher, up, dropped, lost>>
    BY <1>2 DEF HandleRequest
  <2>2. reply' \in [Posts -> Nat] /\ Acknowledged' = Acknowledged
    <3>1. PICK status \in Nat : status = 500
      OBVIOUS
    <3>2. reply' = [reply EXCEPT ![r] = status]
      BY <2>1, <3>1
    <3>3. /\ reply' \in [Posts -> Nat]
          /\ Acknowledged' = Acknowledged \cup (IF status = 200 THEN Values(Body[r]) ELSE {})
      BY <1>0, <3>2, AnswerAcknowledges, ZenonT(60)
    <3> QED
      BY <3>1, <3>3
  <2>3. TypeOK' /\ FlushAlone' /\ NoneTwice' /\ MirroredBefore'
    BY <2>1, <2>2, ZenonT(60) DEF IndInv, TypeOK, FlushAlone, NoneTwice, MirroredBefore, logFlusher
  <2>4. Places' = Places
    BY <2>1 DEF Places, logFlusher, ToPrimary
  <2> QED
    BY <2>2, <2>3, <2>4 DEF IndInv
<1> QED
  BY <1>1, <1>2

LEMMA ShutdownIndInv == ASSUME IndInv, Shutdown PROVE IndInv'
<1> DEFINE c == [op |-> "shutdown"]
<1>1. mailbox' = Append(mailbox, c) /\ UNCHANGED <<reply, running, messages, logFlusher, up, dropped, lost>>
  BY DEF Shutdown
<1>2. c \in Commands /\ c.op # "get" /\ c.op # "insert"
  BY DEF Commands
<1>3. Acknowledged' = Acknowledged \cup {} /\ reply' \in [Posts -> Nat]
  BY <1>1 DEF Acknowledged, IndInv, TypeOK
<1> HIDE DEF c
<1> QED
  BY <1>1, <1>2, <1>3, SendIndInv

\* The service takes the first command.
LEMMA TakeFirst ==
  ASSUME IndInv, mailbox # <<>>, mailbox' = Tail(mailbox)
  PROVE  /\ mailbox' \in Seq(Commands)
         /\ Head(mailbox) \in Commands
         /\ \A i, k \in DOMAIN mailbox' :
              mailbox'[i].op = "insert" /\ mailbox'[k].op = "insert" /\ i # k
                => Values(mailbox'[i].entries) \cap Values(mailbox'[k].entries) = {}
         /\ Head(mailbox).op # "insert" => Queued(mailbox') = Queued(mailbox)
         /\ Head(mailbox).op = "insert" =>
              /\ Head(mailbox).entries \in Seq(Entries) /\ Differ(Head(mailbox).entries)
              /\ Values(Head(mailbox).entries) \subseteq Queued(mailbox)
              /\ Queued(mailbox') = Queued(mailbox) \ Values(Head(mailbox).entries)
         /\ \A i \in DOMAIN mailbox' : mailbox'[i].op = "get" =>
              /\ stage = "draining" /\ Head(mailbox).op # "get"
              /\ \A k \in DOMAIN mailbox' : mailbox'[k].op = "get" => k = i
         /\ Head(mailbox).op = "get" => stage = "draining"
<1>1. mailbox \in Seq(Commands)
  BY DEF IndInv, TypeOK
<1>2. PICK c : c = Head(mailbox)
  OBVIOUS
<1>3. PICK t : t = mailbox'
  OBVIOUS
<1>4. /\ c \in Commands /\ c = mailbox[1] /\ 1 \in DOMAIN mailbox /\ t \in Seq(Commands)
      /\ Queued(mailbox) = Queued(t) \cup (IF c.op = "insert" THEN Values(c.entries) ELSE {})
      /\ \A i \in DOMAIN t : i + 1 \in DOMAIN mailbox /\ i + 1 # 1 /\ t[i] = mailbox[i + 1]
      /\ \A i, k \in DOMAIN t : i + 1 = k + 1 => i = k
  BY <1>1, <1>2, <1>3, QueuedTail
<1>5. \A i, k \in DOMAIN mailbox :
        mailbox[i].op = "insert" /\ mailbox[k].op = "insert" /\ i # k
          => Values(mailbox[i].entries) \cap Values(mailbox[k].entries) = {}
  BY DEF IndInv, NoneTwice
<1>6. \A i \in DOMAIN mailbox : mailbox[i].op = "get" =>
        stage = "draining" /\ \A k \in DOMAIN mailbox : mailbox[k].op = "get" => k = i
  BY DEF IndInv, FlushAlone
<1>7. ASSUME NEW i \in DOMAIN t, NEW k \in DOMAIN t, t[i].op = "insert", t[k].op = "insert", i # k
      PROVE  Values(t[i].entries) \cap Values(t[k].entries) = {}
  <2>1. i + 1 \in DOMAIN mailbox /\ k + 1 \in DOMAIN mailbox /\ i + 1 # k + 1
    BY <1>4, <1>7
  <2>2. t[i] = mailbox[i + 1] /\ t[k] = mailbox[k + 1]
    BY <1>4
  <2> QED
    BY <1>5, <1>7, <2>1, <2>2
<1>8. ASSUME c.op = "insert"
      PROVE  /\ c.entries \in Seq(Entries) /\ Differ(c.entries) /\ Values(c.entries) \subseteq Queued(mailbox)
             /\ Queued(t) = Queued(mailbox) \ Values(c.entries)
  <2>1. c.entries \in Seq(Entries) /\ Differ(c.entries)
    BY <1>4, <1>8 DEF Commands
  <2>2. ASSUME NEW e \in Queued(t), e \in Values(c.entries) PROVE FALSE
    <3>1. PICK i \in DOMAIN t : t[i].op = "insert" /\ e \in Values(t[i].entries)
      BY DEF Queued
    <3>2. i + 1 \in DOMAIN mailbox /\ i + 1 # 1 /\ t[i] = mailbox[i + 1]
      BY <1>4
    <3> QED
      BY <1>4, <1>5, <1>8, <2>2, <3>1, <3>2
  <2> QED
    BY <1>4, <1>8, <2>1, <2>2
<1>9. ASSUME NEW i \in DOMAIN t, t[i].op = "get"
      PROVE  stage = "draining" /\ c.op # "get" /\ \A k \in DOMAIN t : t[k].op = "get" => k = i
  <2>1. i + 1 \in DOMAIN mailbox /\ i + 1 # 1 /\ t[i] = mailbox[i + 1]
    BY <1>4
  <2>2. stage = "draining" /\ \A k \in DOMAIN mailbox : mailbox[k].op = "get" => k = i + 1
    BY <1>6, <1>9, <2>1
  <2>3. c.op # "get"
    BY <1>4, <2>1, <2>2
  <2>4. ASSUME NEW k \in DOMAIN t, t[k].op = "get" PROVE k = i
    BY <1>4, <2>2, <2>4
  <2> QED
    BY <2>2, <2>3, <2>4
<1>10. c.op = "get" => stage = "draining"
  BY <1>4, <1>6
<1>11. c.op # "insert" => Queued(t) = Queued(mailbox)
  BY <1>4
<1> QED
  BY <1>2, <1>3, <1>4, <1>7, <1>8, <1>9, <1>10, <1>11, ZenonT(60)

LEMMA InsertBatchIndInv == ASSUME IndInv, InsertBatch PROVE IndInv'
<1>1. /\ mailbox # <<>> /\ Head(mailbox).op = "insert" /\ mailbox' = Tail(mailbox)
      /\ messages' = B!InsertAll(messages, Head(mailbox).entries)
      /\ dropped' = dropped \cup {e \in Values(Head(mailbox).entries) : B!TooLarge(e)}
      /\ UNCHANGED <<reply, running, logFlusher, up, lost>>
  BY DEF InsertBatch, Command
<1>2. PICK s : s = Head(mailbox).entries
  OBVIOUS
<1>3. /\ s \in Seq(Entries) /\ Differ(s) /\ Values(s) \subseteq Queued(mailbox)
      /\ Queued(mailbox') = Queued(mailbox) \ Values(s)
  BY <1>1, <1>2, TakeFirst
<1>4. messages \in Seq(Fine) /\ Differ(messages)
  BY DEF IndInv, TypeOK, NoneTwice
<1>5. Partition(Places, Acknowledged)
  BY DEF IndInv
<1>6. Values(messages) \cap Values(s) = {}
  <2>1. 1 \in 1..8 /\ 2 \in 1..8 /\ 1 # 2
    OBVIOUS
  <2>2. Places[1] \cap Places[2] = {}
    BY <1>5, <2>1 DEF Partition
  <2> QED
    BY <1>3, <2>2, EightPlaces
<1> DEFINE M == {e \in Values(s) : ~B!TooLarge(e)}
           D == {e \in Values(s) : B!TooLarge(e)}
<1>7. messages' \in Seq(Fine) /\ Differ(messages') /\ Values(messages') = Values(messages) \cup M
  BY <1>1, <1>2, <1>3, <1>4, <1>6, AllInserted
<1>8. dropped' = dropped \cup D
  BY <1>1, <1>2
<1>9. Values(s) = M \cup D /\ Values(s) \subseteq Entries
  BY <1>3 DEF Values
<1> HIDE DEF M, D
<1>10. TypeOK'
  BY <1>1, <1>7, <1>8, <1>9, TakeFirst DEF IndInv, TypeOK, logFlusher
<1>11. FlushAlone'
  BY <1>1, TakeFirst DEF IndInv, FlushAlone, logFlusher
<1>12. NoneTwice'
  BY <1>1, <1>7, TakeFirst, FlusherFrame DEF NoneTwice
<1>13. Acknowledged' = Acknowledged
  BY <1>1 DEF Acknowledged
<1>14. Partition(Places', Acknowledged')
  <2> DEFINE g == [k \in 1..8 |-> IF k = 1 THEN Places[1] \ M ELSE IF k = 2 THEN Places[2] \cup M ELSE Places[k]]
  <2>1. Moved(Places, g, 1, 2, M)
    BY DEF Moved
  <2>2. M \cap D = {}
    BY DEF M, D
  <2>3. M \subseteq Places[1] /\ D \subseteq g[1]
    BY <1>3, <1>9, <2>2, EightPlaces
  <2>4. Moved(g, Places', 1, 7, D)
    <3>1. Places'[1] = g[1] \ D
      BY <1>3, <1>9, EightPlaces, EightPlacesNext
    <3>2. Places'[7] = g[7] \cup D
      BY <1>8, EightPlaces, EightPlacesNext
    <3>3. Places'[2] = g[2]
      BY <1>7, EightPlaces, EightPlacesNext
    <3>4. /\ Places'[3] = Places[3] /\ Places'[4] = Places[4] /\ Places'[5] = Places[5]
          /\ Places'[6] = Places[6] /\ Places'[8] = Places[8]
      BY <1>1, EightPlaces, EightPlacesNext, FlusherFrame DEF logFlusher
    <3>5. g[3] = Places[3] /\ g[4] = Places[4] /\ g[5] = Places[5] /\ g[6] = Places[6] /\ g[8] = Places[8]
      OBVIOUS
    <3> HIDE DEF g
    <3>6. \A k \in 1..8 : k # 1 /\ k # 7 => Places'[k] = g[k]
      BY <3>3, <3>4, <3>5, OneToEight
    <3> QED
      BY <3>1, <3>2, <3>6 DEF Moved
  <2> HIDE DEF g
  <2>5. 1 \in 1..8 /\ 2 \in 1..8 /\ 7 \in 1..8 /\ 1 # 2 /\ 1 # 7
    OBVIOUS
  <2>6. Partition(g, Acknowledged)
    BY <1>5, <2>1, <2>3, <2>5, MoveKeepsPartition
  <2>7. Partition(Places', Acknowledged)
    BY <2>3, <2>4, <2>5, <2>6, MoveKeepsPartition
  <2> QED
    BY <1>13, <2>7
<1>15. MirroredBefore'
  <2>1. Queued(mailbox') \cup Values(messages') \subseteq Queued(mailbox) \cup Values(messages)
    BY <1>3, <1>7, <1>9
  <2> QED
    BY <1>1, <1>13, <2>1 DEF IndInv, MirroredBefore, logFlusher
<1> QED
  BY <1>10, <1>11, <1>12, <1>14, <1>15 DEF IndInv

\* New deliveries to the primary hold the entries of the batches, once.
LEMMA NewPrimaryOnce ==
  ASSUME NEW bs, Apart(bs)
  PROVE  \A j, k \in NewJobs(bs, {"primary"}) : j # k => Values(j.batch) \cap Values(k.batch) = {}
<1> TAKE j, k \in NewJobs(bs, {"primary"})
<1> HAVE j # k
<1>1. j.batch \in bs /\ k.batch \in bs /\ j.batch # k.batch
  BY NewPrimary
<1> QED
  BY <1>1 DEF Apart

LEMMA ServeBatchesIndInv == ASSUME IndInv, ServeBatches PROVE IndInv'
<1> DEFINE bs == Values(B!GetAllBatches(messages))
<1>1. /\ mailbox # <<>> /\ Head(mailbox).op = "get" /\ mailbox' = Tail(mailbox)
      /\ jobs' = NewJobs(bs, {"primary"}) /\ messages' = <<>> /\ stage' = "shipping"
      /\ UNCHANGED <<reply, running, failed, pending, confirmed, mirrored, up, dropped, lost>>
  BY DEF ServeBatches, Command
<1>2. messages \in Seq(Fine) /\ Differ(messages)
  BY DEF IndInv, TypeOK, NoneTwice
<1>3. bs \in SUBSET Batches /\ InBatches(bs) = Values(messages) /\ Apart(bs)
  BY <1>2, AllBatches
<1> HIDE DEF bs
<1>4. stage = "draining" /\ jobs = {} /\ pending = {} /\ Queued(mailbox') = Queued(mailbox)
  BY <1>1, TakeFirst DEF IndInv, FlushAlone
<1>5. \A i \in DOMAIN mailbox' : mailbox'[i].op # "get"
  BY <1>1, TakeFirst
<1>6. TypeOK'
  <2>1. jobs' \in SUBSET Jobs
    BY <1>1, <1>3, NewPrimary
  <2>2. <<>> \in Seq(Fine)
    OBVIOUS
  <2> QED
    BY <1>1, <2>1, <2>2, TakeFirst DEF IndInv, TypeOK
<1>7. FlushAlone'
  BY <1>1, <1>4, <1>5 DEF FlushAlone
<1>8. NoneTwice'
  <2>1. Differ(messages')
    BY <1>1 DEF Differ
  <2>2. Apart(failed') /\ Apart(pending')
    BY <1>1 DEF IndInv, NoneTwice
  <2>3. \A j, k \in jobs' : j # k => Values(j.batch) \cap Values(k.batch) = {}
    BY <1>1, <1>3, NewPrimaryOnce
  <2> QED
    BY <1>1, <2>1, <2>2, <2>3, TakeFirst DEF NoneTwice
<1>9. Acknowledged' = Acknowledged
  BY <1>1 DEF Acknowledged
<1>10. Values(messages') = {}
  BY <1>1 DEF Values
<1>11. Partition(Places', Acknowledged')
  <2>1. InBatches(ToPrimary) = {} /\ InBatches(ToPrimary') = Values(messages)
    <3>1. ToPrimary = {} /\ InBatches({}) = {}
      BY <1>4 DEF ToPrimary, InBatches
    <3>2. ToPrimary' = bs
      BY <1>1, NewPrimary DEF ToPrimary, PrimaryOf
    <3> QED
      BY <1>3, <3>1, <3>2
  <2>2. Moved(Places, Places', 2, 3, Places[2])
    <3>1. Places'[2] = Places[2] \ Places[2] /\ Places'[3] = Places[3] \cup Places[2]
      BY <1>10, <2>1, EightPlaces, EightPlacesNext
    <3>2. /\ Places'[1] = Places[1] /\ Places'[4] = Places[4] /\ Places'[5] = Places[5]
          /\ Places'[6] = Places[6] /\ Places'[7] = Places[7] /\ Places'[8] = Places[8]
      BY <1>1, <1>4, EightPlaces, EightPlacesNext
    <3> QED
      BY <3>1, <3>2, OneToEight DEF Moved
  <2>3. 2 \in 1..8 /\ 3 \in 1..8 /\ 2 # 3 /\ Places[2] \subseteq Places[2] /\ Partition(Places, Acknowledged)
    BY DEF IndInv
  <2>4. Partition(Places', Acknowledged)
    BY <2>2, <2>3, MoveKeepsPartition
  <2> QED
    BY <1>9, <2>4
<1>12. MirroredBefore'
  <2> SUFFICES ASSUME NEW m \in mirrored
               PROVE  /\ Values(m[1]) \subseteq Acknowledged'
                      /\ Values(m[1]) \cap (Queued(mailbox') \cup Values(messages')) = {}
                      /\ \A j \in jobs' : j.batch # m[1]
    BY <1>1 DEF MirroredBefore
  <2>1. Values(m[1]) \subseteq Acknowledged /\ Values(m[1]) \cap (Queued(mailbox) \cup Values(messages)) = {}
    BY DEF IndInv, MirroredBefore
  <2>2. ASSUME NEW j \in jobs' PROVE j.batch # m[1]
    <3>1. j.batch \in bs
      BY <1>1, NewPrimary
    <3>2. Values(j.batch) # {} /\ Values(j.batch) \subseteq Values(messages)
      BY <1>3, <3>1, BatchHasEntries DEF InBatches
    <3> QED
      BY <2>1, <3>2
  <2> QED
    BY <1>4, <1>9, <1>10, <2>1, <2>2
<1> QED
  BY <1>6, <1>7, <1>8, <1>11, <1>12 DEF IndInv

LEMMA StopIndInv == ASSUME IndInv, Stop PROVE IndInv'
<1>1. /\ mailbox' = <<>> /\ messages' = <<>> /\ running' = FALSE
      /\ lost' = lost \cup Values(messages) \cup Queued(mailbox)
      /\ UNCHANGED <<reply, jobs, confirmed, mirrored, up, dropped>>
  BY DEF Stop
<1>2. \/ stage = "draining" /\ stage' = "idle" /\ pending' = failed /\ failed' = {}
      \/ UNCHANGED <<stage, pending, failed>>
  BY DEF Stop
<1>3. DOMAIN mailbox' = {} /\ DOMAIN messages' = {}
  BY <1>1
<1>4. Queued(mailbox') = {} /\ Values(messages') = {}
  BY <1>3 DEF Queued, Values
<1>5. Acknowledged' = Acknowledged
  BY <1>1 DEF Acknowledged
<1>6. ToPrimary' = ToPrimary
  BY <1>1 DEF ToPrimary
<1>7. TypeOK'
  <2>1. <<>> \in Seq(Commands) /\ <<>> \in Seq(Fine)
    OBVIOUS
  <2>2. messages \in Seq(Fine) /\ Values(messages) \subseteq Entries
    BY DEF IndInv, TypeOK, Values, Fine
  <2>3. Queued(mailbox) \subseteq Entries
    <3>1. ASSUME NEW i \in DOMAIN mailbox, mailbox[i].op = "insert" PROVE Values(mailbox[i].entries) \subseteq Entries
      <4>1. mailbox[i] \in Commands
        BY DEF IndInv, TypeOK
      <4>2. mailbox[i].entries \in Seq(Entries)
        BY <3>1, <4>1 DEF Commands
      <4> QED
        BY <4>2 DEF Values
    <3> QED
      BY <3>1 DEF Queued
  <2>4. lost' \in SUBSET Entries
    BY <1>1, <2>2, <2>3 DEF IndInv, TypeOK
  <2> QED
    BY <1>1, <1>2, <2>1, <2>4 DEF IndInv, TypeOK
<1>8. FlushAlone'
  <2>1. \A i \in DOMAIN mailbox' : FALSE
    BY <1>3
  <2> QED
    BY <1>1, <1>2, <2>1 DEF IndInv, FlushAlone
<1>9. NoneTwice'
  <2>1. Apart({})
    BY DEF Apart
  <2> QED
    BY <1>1, <1>2, <1>3, <2>1 DEF IndInv, NoneTwice, Differ
<1>10. MirroredBefore'
  BY <1>1, <1>2, <1>4, <1>5 DEF IndInv, MirroredBefore
<1>11. Partition(Places', Acknowledged')
  <2> DEFINE f == [k \in 1..8 |-> IF k = 1 THEN {} ELSE IF k = 8 THEN Places[8] \cup Places[1] ELSE Places[k]]
             g == [k \in 1..8 |-> IF k = 2 THEN {} ELSE IF k = 8 THEN f[8] \cup Places[2] ELSE f[k]]
  <2>0. /\ Partition(Places, Acknowledged)
        /\ 1 \in 1..8 /\ 2 \in 1..8 /\ 4 \in 1..8 /\ 5 \in 1..8 /\ 8 \in 1..8 /\ 1 # 8 /\ 2 # 8 /\ 4 # 5
    BY DEF IndInv
  <2>1. Moved(Places, f, 1, 8, Places[1])
    BY DEF Moved
  <2>2. Partition(f, Acknowledged)
    BY <2>0, <2>1, MoveKeepsPartition
  <2>3. Moved(f, g, 2, 8, Places[2]) /\ Places[2] \subseteq f[2]
    BY DEF Moved
  <2>4. /\ g[1] = {} /\ g[2] = {} /\ g[8] = Places[8] \cup Places[1] \cup Places[2]
        /\ g[3] = Places[3] /\ g[4] = Places[4] /\ g[5] = Places[5] /\ g[6] = Places[6] /\ g[7] = Places[7]
    OBVIOUS
  <2> HIDE DEF f, g
  <2>5. Partition(g, Acknowledged)
    BY <2>0, <2>2, <2>3, MoveKeepsPartition
  <2>6. /\ Places'[1] = g[1] /\ Places'[2] = g[2] /\ Places'[3] = g[3]
        /\ Places'[6] = g[6] /\ Places'[7] = g[7] /\ Places'[8] = g[8]
    BY <1>1, <1>4, <1>6, <2>4, EightPlaces, EightPlacesNext
  <2>7. CASE UNCHANGED <<stage, pending, failed>>
    <3>1. Places'[4] = g[4] /\ Places'[5] = g[5]
      BY <2>4, <2>7, EightPlaces, EightPlacesNext
    <3>2. \A k \in 1..8 : Places'[k] = g[k]
      BY <2>6, <3>1, OneToEight
    <3> QED
      BY <1>5, <2>5, <3>2, SamePartition
  <2>8. CASE stage = "draining" /\ stage' = "idle" /\ pending' = failed /\ failed' = {}
    <3>1. pending = {} /\ InBatches({}) = {}
      BY <2>8 DEF IndInv, FlushAlone, InBatches
    <3>2. Places'[4] = g[4] \ g[4] /\ Places'[5] = g[5] \cup g[4]
      BY <2>4, <2>8, <3>1, EightPlaces, EightPlacesNext
    <3>3. Moved(g, Places', 4, 5, g[4]) /\ g[4] \subseteq g[4]
      BY <2>6, <3>2, OneToEight DEF Moved
    <3> QED
      BY <1>5, <2>0, <2>5, <3>3, MoveKeepsPartition
  <2> QED
    BY <1>2, <2>7, <2>8
<1> QED
  BY <1>7, <1>8, <1>9, <1>10, <1>11 DEF IndInv

-----------------------------------------------------------------------------
(* The flush.                                                              *)

LEMMA TickIndInv == ASSUME IndInv, FlushTick PROVE IndInv'
<1>1. /\ stage = "idle" /\ stage' = "redriving" /\ jobs' = NewJobs(pending, {"primary"}) /\ pending' = {}
      /\ UNCHANGED <<reply, mailbox, running, messages, failed, confirmed, mirrored, up, dropped, lost>>
  BY DEF FlushTick, pipeline
<1>2. pending \in SUBSET Batches /\ Apart(pending) /\ jobs = {} /\ Apart({})
  BY <1>1 DEF IndInv, TypeOK, NoneTwice, FlushAlone, Apart
<1>3. TypeOK'
  <2>1. jobs' \in SUBSET Jobs
    BY <1>1, <1>2, NewPrimary
  <2> QED
    BY <1>1, <2>1 DEF IndInv, TypeOK
<1>4. FlushAlone'
  <2>1. \A i \in DOMAIN mailbox : mailbox[i].op # "get"
    BY <1>1 DEF IndInv, FlushAlone
  <2> QED
    BY <1>1, <2>1 DEF FlushAlone
<1>5. NoneTwice'
  <2>1. \A j, k \in jobs' : j # k => Values(j.batch) \cap Values(k.batch) = {}
    BY <1>1, <1>2, NewPrimaryOnce
  <2> QED
    BY <1>1, <1>2, <2>1 DEF IndInv, NoneTwice
<1>6. Acknowledged' = Acknowledged
  BY <1>1 DEF Acknowledged
<1>7. MirroredBefore'
  BY <1>1, <1>6 DEF IndInv, MirroredBefore
<1>8. Partition(Places', Acknowledged')
  <2>1. ToPrimary = {} /\ ToPrimary' = pending /\ InBatches({}) = {}
    BY <1>1, <1>2, NewPrimary DEF ToPrimary, PrimaryOf, InBatches
  <2>2. Moved(Places, Places', 5, 3, Places[5])
    <3>1. Places'[5] = Places[5] \ Places[5] /\ Places'[3] = Places[3] \cup Places[5]
      BY <1>1, <2>1, EightPlaces, EightPlacesNext
    <3>2. /\ Places'[1] = Places[1] /\ Places'[2] = Places[2] /\ Places'[4] = Places[4]
          /\ Places'[6] = Places[6] /\ Places'[7] = Places[7] /\ Places'[8] = Places[8]
      BY <1>1, EightPlaces, EightPlacesNext
    <3> QED
      BY <3>1, <3>2, OneToEight DEF Moved
  <2>3. 5 \in 1..8 /\ 3 \in 1..8 /\ 5 # 3 /\ Places[5] \subseteq Places[5] /\ Partition(Places, Acknowledged)
    BY DEF IndInv
  <2> QED
    BY <1>6, <2>2, <2>3, MoveKeepsPartition
<1> QED
  BY <1>3, <1>4, <1>5, <1>7, <1>8 DEF IndInv

\* The flush is over and main keeps what failed.
LEMMA GiveBackIndInv ==
  ASSUME IndInv, stage \in {"redriving", "shipping"}, jobs = {},
         stage' = "idle", pending' = failed, failed' = {},
         UNCHANGED <<pipeline, jobs, confirmed, mirrored, up, dropped, lost>>
  PROVE  IndInv'
<1>1. UNCHANGED <<reply, mailbox, running, messages>>
  BY DEF pipeline
<1>2. pending = {} /\ (\A i \in DOMAIN mailbox : mailbox[i].op # "get") /\ Apart({}) /\ InBatches({}) = {}
  BY DEF IndInv, FlushAlone, Apart, InBatches
<1>3. TypeOK' /\ FlushAlone' /\ NoneTwice'
  BY <1>1, <1>2 DEF IndInv, TypeOK, FlushAlone, NoneTwice
<1>4. Acknowledged' = Acknowledged /\ ToPrimary' = ToPrimary
  BY <1>1 DEF Acknowledged, ToPrimary
<1>5. MirroredBefore'
  BY <1>1, <1>4 DEF IndInv, MirroredBefore
<1>6. Partition(Places', Acknowledged')
  <2>1. Moved(Places, Places', 4, 5, Places[4])
    <3>1. Places'[4] = Places[4] \ Places[4] /\ Places'[5] = Places[5] \cup Places[4]
      BY <1>2, EightPlaces, EightPlacesNext
    <3>2. /\ Places'[1] = Places[1] /\ Places'[2] = Places[2] /\ Places'[3] = Places[3]
          /\ Places'[6] = Places[6] /\ Places'[7] = Places[7] /\ Places'[8] = Places[8]
      BY <1>1, <1>4, EightPlaces, EightPlacesNext
    <3> QED
      BY <3>1, <3>2, OneToEight DEF Moved
  <2>2. 4 \in 1..8 /\ 5 \in 1..8 /\ 4 # 5 /\ Places[4] \subseteq Places[4] /\ Partition(Places, Acknowledged)
    BY DEF IndInv
  <2> QED
    BY <1>4, <2>1, <2>2, MoveKeepsPartition
<1> QED
  BY <1>3, <1>5, <1>6 DEF IndInv

LEMMA EndFlushIndInv == ASSUME IndInv, EndFlush PROVE IndInv'
  BY GiveBackIndInv DEF EndFlush

LEMMA DrainIndInv == ASSUME IndInv, Drain PROVE IndInv'
<1>1. CASE ~running
  <2>1. /\ stage \in {"redriving", "shipping"} /\ jobs = {} /\ stage' = "idle" /\ pending' = failed /\ failed' = {}
        /\ UNCHANGED <<pipeline, jobs, confirmed, mirrored, up, dropped, lost>>
    BY <1>1 DEF Drain, pipeline
  <2> QED
    BY <2>1, GiveBackIndInv
<1>2. CASE running
  <2> DEFINE c == [op |-> "get"]
  <2>1. /\ stage = "redriving" /\ jobs = {} /\ mailbox' = Append(mailbox, c) /\ stage' = "draining"
        /\ UNCHANGED <<reply, running, messages, jobs, failed, pending, confirmed, mirrored, up, dropped, lost>>
    BY <1>2 DEF Drain
  <2>2. c \in Commands /\ c.op = "get" /\ c.op # "insert"
    BY DEF Commands
  <2> HIDE DEF c
  <2>3. mailbox \in Seq(Commands) /\ Len(mailbox) \in Nat /\ DOMAIN mailbox = 1..Len(mailbox)
    BY DEF IndInv, TypeOK
  <2>4. mailbox' \in Seq(Commands) /\ Queued(mailbox') = Queued(mailbox)
    <3>1. Append(mailbox, c) \in Seq(Commands)
      BY <2>2, <2>3
    <3>2. Queued(Append(mailbox, c)) = Queued(mailbox) \cup (IF c.op = "insert" THEN Values(c.entries) ELSE {})
      BY <2>2, <2>3, QueuedAppend
    <3> QED
      BY <2>1, <2>2, <3>1, <3>2
  <2>5. \A i \in DOMAIN mailbox' : (i \in DOMAIN mailbox /\ mailbox'[i] = mailbox[i])
                                     \/ (i = Len(mailbox) + 1 /\ mailbox'[i] = c)
    BY <2>1, <2>3
  <2>6. pending = {} /\ \A i \in DOMAIN mailbox : mailbox[i].op # "get"
    BY <2>1 DEF IndInv, FlushAlone
  <2>7. \A i, k \in DOMAIN mailbox' : mailbox'[i].op = "get" /\ mailbox'[k].op = "get" => k = i
    BY <2>5, <2>6
  <2>8. TypeOK' /\ FlushAlone'
    BY <2>1, <2>4, <2>6, <2>7 DEF IndInv, TypeOK, FlushAlone
  <2>9. \A i \in DOMAIN mailbox' : mailbox'[i].op = "insert" => i \in DOMAIN mailbox /\ mailbox'[i] = mailbox[i]
    BY <2>2, <2>5
  <2>10. NoneTwice'
    BY <2>1, <2>9, ZenonT(60) DEF IndInv, NoneTwice, Differ
  <2>11. Acknowledged' = Acknowledged /\ ToPrimary' = ToPrimary
    BY <2>1 DEF Acknowledged, ToPrimary
  <2>12. \A k \in 1..8 : Places'[k] = Places[k]
    BY <2>1, <2>4, <2>11, EightPlaces, EightPlacesNext, OneToEight
  <2>13. Partition(Places', Acknowledged')
    BY <2>11, <2>12, SamePartition DEF IndInv
  <2>14. MirroredBefore'
    BY <2>1, <2>4, <2>11 DEF IndInv, MirroredBefore
  <2> QED
    BY <2>8, <2>10, <2>13, <2>14 DEF IndInv
<1> QED
  BY <1>1, <1>2

\* The deliveries to the additional endpoints that follow the one to the primary.
LEMMA AfterPrimaryIs ==
  ASSUME NEW j, j.batch \in Batches
  PROVE  /\ stage # "shipping" => AfterPrimary(j) = {}
         /\ \A k \in AfterPrimary(j) :
              k \in Jobs /\ k.to \in Extras /\ k.to # "primary" /\ k.batch = j.batch /\ k.attempts = 0
<1>1. stage # "shipping" => AfterPrimary(j) = {}
  BY DEF AfterPrimary
<1>2. ASSUME NEW k \in AfterPrimary(j) PROVE \E e \in Extras : k = [batch |-> j.batch, to |-> e, attempts |-> 0]
  BY DEF AfterPrimary, NewJobs
<1>3. ASSUME NEW k \in AfterPrimary(j)
      PROVE  k \in Jobs /\ k.to \in Extras /\ k.to # "primary" /\ k.batch = j.batch /\ k.attempts = 0
  <2>1. PICK e \in Extras : k = [batch |-> j.batch, to |-> e, attempts |-> 0]
    BY <1>2
  <2>2. e # "primary"
    BY LogPipelineAssumption
  <2> QED
    BY <2>1, <2>2 DEF Jobs
<1> QED
  BY <1>1, <1>3

\* A delivery to the primary that is under way.
LEMMA UnderWay ==
  ASSUME IndInv, NEW j \in jobs, j.to = "primary"
  PROVE  /\ j.batch \in Batches /\ Values(j.batch) \subseteq InBatches(ToPrimary)
         /\ Values(j.batch) \subseteq Acknowledged
         /\ Values(j.batch) \cap (Queued(mailbox) \cup Values(messages)) = {}
         /\ Values(j.batch) \cap InBatches(failed) = {}
         /\ \A k \in jobs : k.to = "primary" /\ k # j => k.batch # j.batch
<1>1. j.batch \in Batches
  BY DEF IndInv, TypeOK, Jobs
<1>2. Values(j.batch) \subseteq Places[3]
  BY EightPlaces DEF ToPrimary, InBatches
<1>3. Partition(Places, Acknowledged) /\ 1 \in 1..8 /\ 2 \in 1..8 /\ 3 \in 1..8 /\ 4 \in 1..8
  BY DEF IndInv
<1>4. Places[3] \subseteq Acknowledged /\ Places[3] \cap Places[1] = {} /\ Places[3] \cap Places[2] = {} /\ Places[3] \cap Places[4] = {}
  BY <1>3 DEF Partition
<1>5. ASSUME NEW k \in jobs, k.to = "primary", k # j PROVE k.batch # j.batch
  <2>1. Values(k.batch) \cap Values(j.batch) = {}
    BY <1>5 DEF IndInv, NoneTwice
  <2> QED
    BY <1>1, <2>1, BatchHasEntries
<1> QED
  BY <1>1, <1>2, <1>4, <1>5, EightPlaces

\* The primary's part of the deliveries once j is over.
LEMMA PrimaryOver ==
  ASSUME IndInv, NEW j \in jobs, j.to = "primary",
         jobs' = (jobs \ {j}) \cup AfterPrimary(j)
  PROVE  /\ jobs' \in SUBSET Jobs
         /\ InBatches(ToPrimary') = InBatches(ToPrimary) \ Values(j.batch)
         /\ \A k \in jobs' : k.to = "primary" => k \in jobs /\ k # j
<1>1. jobs \in SUBSET Jobs /\ j.batch \in Batches
  BY UnderWay DEF IndInv, TypeOK
<1>2. \A k \in jobs' : k.to = "primary" => k \in jobs /\ k # j
  BY <1>1, AfterPrimaryIs
<1>3. jobs' \in SUBSET Jobs
  BY <1>1, AfterPrimaryIs
<1>4. ASSUME NEW e PROVE e \in InBatches(ToPrimary) <=> \E k \in jobs : k.to = "primary" /\ e \in Values(k.batch)
  BY DEF InBatches, ToPrimary
<1>5. ASSUME NEW e PROVE e \in InBatches(ToPrimary') <=> \E k \in jobs' : k.to = "primary" /\ e \in Values(k.batch)
  BY DEF InBatches, ToPrimary
<1>6. ASSUME NEW e, e \in InBatches(ToPrimary') PROVE e \in InBatches(ToPrimary) /\ e \notin Values(j.batch)
  <2>1. PICK k \in jobs' : k.to = "primary" /\ e \in Values(k.batch)
    BY <1>5, <1>6
  <2>2. k \in jobs /\ k # j
    BY <1>2, <2>1
  <2>3. Values(k.batch) \cap Values(j.batch) = {}
    BY <2>1, <2>2 DEF IndInv, NoneTwice
  <2> QED
    BY <1>4, <2>1, <2>2, <2>3
<1>7. ASSUME NEW e, e \in InBatches(ToPrimary), e \notin Values(j.batch) PROVE e \in InBatches(ToPrimary')
  <2>1. PICK k \in jobs : k.to = "primary" /\ e \in Values(k.batch)
    BY <1>4, <1>7
  <2>2. k \in jobs'
    BY <1>7, <2>1
  <2> QED
    BY <1>5, <2>1, <2>2
<1> QED
  BY <1>2, <1>3, <1>6, <1>7

\* The primary has the batch or will not have it in this flush.
LEMMA PrimaryOverIndInv ==
  ASSUME IndInv, NEW j \in jobs, j.to = "primary",
         NEW answer \in {"success", "permanent", "transient", "lost"},
         GivesUp(j, answer), Attempt(j, answer)
  PROVE  IndInv'
<1>1. /\ jobs' = (jobs \ {j}) \cup AfterPrimary(j)
      /\ mirrored' = mirrored \cup {<<k.batch, k.to>> : k \in AfterPrimary(j)}
      /\ failed' = IF answer \in {"transient", "lost"} THEN failed \cup {j.batch} ELSE failed
      /\ confirmed' = IF answer = "success" THEN confirmed \cup {j.batch} ELSE confirmed
      /\ dropped' = IF answer = "permanent" THEN dropped \cup Values(j.batch) ELSE dropped
      /\ UNCHANGED <<reply, mailbox, running, messages, stage, pending, up, lost>>
  BY DEF Attempt, pipeline
<1>2. /\ j.batch \in Batches /\ Values(j.batch) \subseteq InBatches(ToPrimary)
      /\ Values(j.batch) \subseteq Acknowledged
      /\ Values(j.batch) \cap (Queued(mailbox) \cup Values(messages)) = {}
      /\ Values(j.batch) \cap InBatches(failed) = {}
      /\ \A k \in jobs : k.to = "primary" /\ k # j => k.batch # j.batch
  BY UnderWay
<1>3. /\ jobs' \in SUBSET Jobs /\ InBatches(ToPrimary') = InBatches(ToPrimary) \ Values(j.batch)
      /\ \A k \in jobs' : k.to = "primary" => k \in jobs /\ k # j
  BY <1>1, PrimaryOver
<1>4. Values(j.batch) \subseteq Entries
  BY <1>2, BatchHasEntries
<1>5. mirrored' \in SUBSET (Batches \X Extras)
  <2>1. \A k \in AfterPrimary(j) : k.batch \in Batches /\ k.to \in Extras
    BY <1>2, AfterPrimaryIs
  <2>2. mirrored \in SUBSET (Batches \X Extras)
    BY DEF IndInv, TypeOK
  <2> QED
    BY <1>1, <2>1, <2>2
<1>6. TypeOK'
  <2>1. failed' \in SUBSET Batches /\ confirmed' \in SUBSET Batches /\ dropped' \in SUBSET Entries
    BY <1>1, <1>2, <1>4 DEF IndInv, TypeOK
  <2> QED
    BY <1>1, <1>3, <1>5, <2>1 DEF IndInv, TypeOK
<1>7. FlushAlone'
  BY <1>1 DEF IndInv, FlushAlone
<1>8. NoneTwice'
  <2>1. \A k, l \in jobs' : k.to = "primary" /\ l.to = "primary" /\ k # l
          => Values(k.batch) \cap Values(l.batch) = {}
    BY <1>3 DEF IndInv, NoneTwice
  <2>2. Apart(failed) /\ Apart(pending)
    BY DEF IndInv, NoneTwice
  <2>3. \A b \in failed : Values(b) \cap Values(j.batch) = {}
    BY <1>2 DEF InBatches
  <2>4. Apart(failed \cup {j.batch})
    BY <2>2, <2>3 DEF Apart
  <2>5. Apart(failed')
    BY <1>1, <2>2, <2>4
  <2> QED
    BY <1>1, <2>1, <2>2, <2>5 DEF IndInv, NoneTwice
<1>9. Acknowledged' = Acknowledged
  BY <1>1 DEF Acknowledged
<1>10. MirroredBefore'
  <2> SUFFICES ASSUME NEW m \in mirrored'
               PROVE  /\ Values(m[1]) \subseteq Acknowledged
                      /\ Values(m[1]) \cap (Queued(mailbox) \cup Values(messages)) = {}
                      /\ stage = "shipping" => \A k \in jobs' : k.to = "primary" => k.batch # m[1]
    BY <1>1, <1>9 DEF MirroredBefore
  <2>1. CASE m \in mirrored
    BY <1>3, <2>1 DEF IndInv, MirroredBefore
  <2>2. CASE m \notin mirrored
    <3>1. PICK k \in AfterPrimary(j) : m = <<k.batch, k.to>>
      BY <1>1, <2>2
    <3>2. m[1] = j.batch
      BY <1>2, <3>1, AfterPrimaryIs
    <3> QED
      BY <1>2, <1>3, <3>2
  <2> QED
    BY <2>1, <2>2
<1>11. Partition(Places', Acknowledged')
  <2>1. \A bs : InBatches(bs \cup {j.batch}) = InBatches(bs) \cup Values(j.batch)
    BY DEF InBatches
  <2>2. /\ 3 \in 1..8 /\ 4 \in 1..8 /\ 6 \in 1..8 /\ 7 \in 1..8 /\ 3 # 4 /\ 3 # 6 /\ 3 # 7
        /\ Partition(Places, Acknowledged)
    BY DEF IndInv
  <2>3. Values(j.batch) \subseteq Places[3] /\ Places'[3] = Places[3] \ Values(j.batch)
    BY <1>2, <1>3, EightPlaces, EightPlacesNext
  <2>4. Places'[1] = Places[1] /\ Places'[2] = Places[2] /\ Places'[5] = Places[5] /\ Places'[8] = Places[8]
    BY <1>1, EightPlaces, EightPlacesNext
  <2>5. CASE answer = "success"
    <3>1. Places'[4] = Places[4] /\ Places'[6] = Places[6] \cup Values(j.batch) /\ Places'[7] = Places[7]
      BY <1>1, <2>1, <2>5, EightPlaces, EightPlacesNext
    <3>2. Moved(Places, Places', 3, 6, Values(j.batch))
      BY <2>3, <2>4, <3>1, OneToEight DEF Moved
    <3> QED
      BY <1>9, <2>2, <2>3, <3>2, MoveKeepsPartition
  <2>6. CASE answer = "permanent"
    <3>1. Places'[4] = Places[4] /\ Places'[6] = Places[6] /\ Places'[7] = Places[7] \cup Values(j.batch)
      BY <1>1, <2>6, EightPlaces, EightPlacesNext
    <3>2. Moved(Places, Places', 3, 7, Values(j.batch))
      BY <2>3, <2>4, <3>1, OneToEight DEF Moved
    <3> QED
      BY <1>9, <2>2, <2>3, <3>2, MoveKeepsPartition
  <2>7. CASE answer \in {"transient", "lost"}
    <3>1. Places'[4] = Places[4] \cup Values(j.batch) /\ Places'[6] = Places[6] /\ Places'[7] = Places[7]
      BY <1>1, <2>1, <2>7, EightPlaces, EightPlacesNext
    <3>2. Moved(Places, Places', 3, 4, Values(j.batch))
      BY <2>3, <2>4, <3>1, OneToEight DEF Moved
    <3> QED
      BY <1>9, <2>2, <2>3, <3>2, MoveKeepsPartition
  <2> QED
    BY <2>5, <2>6, <2>7
<1> QED
  BY <1>6, <1>7, <1>8, <1>10, <1>11 DEF IndInv

\* The delivery is tried again, or an additional endpoint is done with it:
\* what the primary is to have does not change.
LEMMA SamePrimaryIndInv ==
  ASSUME IndInv, NEW j \in jobs, NEW N, jobs' = (jobs \ {j}) \cup N,
         \/ j.to # "primary" /\ N = {}
         \/ \E i \in Jobs : N = {i} /\ i.batch = j.batch /\ i.to = j.to,
         UNCHANGED <<pipeline, stage, failed, pending, confirmed, mirrored, up, dropped, lost>>
  PROVE  IndInv'
<1>1. UNCHANGED <<reply, mailbox, running, messages>>
  BY DEF pipeline
<1>2. jobs' \in SUBSET Jobs
  BY DEF IndInv, TypeOK
<1>3. \A k \in jobs' : \/ k \in jobs /\ k # j
                       \/ k \in N /\ k.batch = j.batch /\ k.to = j.to /\ \A l \in N : l = k
  OBVIOUS
<1>4. \A k \in jobs : k.to = "primary" => \E l \in jobs' : l.to = "primary" /\ l.batch = k.batch
  OBVIOUS
<1>5. \A k \in jobs' : k.to = "primary" => \E l \in jobs : l.to = "primary" /\ l.batch = k.batch
  BY <1>3
<1>6. ToPrimary' = ToPrimary
  BY <1>4, <1>5 DEF ToPrimary
<1>7. TypeOK' /\ FlushAlone'
  BY <1>1, <1>2 DEF IndInv, TypeOK, FlushAlone
<1>8. NoneTwice'
  <2>1. ASSUME NEW k \in jobs', NEW l \in jobs', k.to = "primary", l.to = "primary", k # l
        PROVE  Values(k.batch) \cap Values(l.batch) = {}
    <3>1. CASE k \in jobs /\ k # j /\ l \in jobs /\ l # j
      BY <2>1, <3>1 DEF IndInv, NoneTwice
    <3>2. CASE k \in jobs /\ k # j /\ l.batch = j.batch /\ l.to = j.to
      BY <2>1, <3>2 DEF IndInv, NoneTwice
    <3>3. CASE l \in jobs /\ l # j /\ k.batch = j.batch /\ k.to = j.to
      BY <2>1, <3>3 DEF IndInv, NoneTwice
    <3> QED
      BY <1>3, <2>1, <3>1, <3>2, <3>3
  <2> QED
    BY <1>1, <2>1 DEF IndInv, NoneTwice
<1>9. Acknowledged' = Acknowledged
  BY <1>1 DEF Acknowledged
<1>10. MirroredBefore'
  BY <1>1, <1>5, <1>9 DEF IndInv, MirroredBefore
<1>11. \A k \in 1..8 : Places'[k] = Places[k]
  BY <1>1, <1>6, EightPlaces, EightPlacesNext, OneToEight
<1>12. Partition(Places', Acknowledged')
  BY <1>9, <1>11, SamePartition DEF IndInv
<1> QED
  BY <1>7, <1>8, <1>10, <1>12 DEF IndInv

LEMMA AttemptIndInv ==
  ASSUME IndInv, NEW j \in jobs, NEW answer \in AnswersNow, Attempt(j, answer)
  PROVE  IndInv'
<1>0. answer \in {"success", "permanent", "transient", "lost"}
  BY DEF AnswersNow
<1>1. CASE GivesUp(j, answer) /\ j.to = "primary"
  BY <1>0, <1>1, PrimaryOverIndInv
<1>2. CASE GivesUp(j, answer) /\ j.to # "primary"
  <2>1. jobs' = (jobs \ {j}) \cup {} /\ UNCHANGED <<pipeline, stage, failed, pending, confirmed, mirrored, up, dropped, lost>>
    BY <1>2 DEF Attempt
  <2> QED
    BY <1>2, <2>1, SamePrimaryIndInv
<1>3. CASE ~GivesUp(j, answer)
  <2>1. PICK i : i = [j EXCEPT !.attempts = @ + 1]
    OBVIOUS
  <2>2. j \in Jobs
    BY DEF IndInv, TypeOK
  <2>3. i \in Jobs /\ i.batch = j.batch /\ i.to = j.to
    BY <2>1, <2>2 DEF Jobs
  <2>4. jobs' = (jobs \ {j}) \cup {i} /\ UNCHANGED <<pipeline, stage, failed, pending, confirmed, mirrored, up, dropped, lost>>
    BY <1>3, <2>1 DEF Attempt
  <2> QED
    BY <2>3, <2>4, SamePrimaryIndInv
<1> QED
  BY <1>1, <1>2, <1>3

-----------------------------------------------------------------------------
(* The theorems.                                                           *)

LEMMA NextIndInv == ASSUME IndInv, [LogNext]_logVars PROVE IndInv'
<1>1. ASSUME NEW r \in Posts, AnswerAtOnce(r) PROVE IndInv'
  BY <1>1, AnswerIndInv
<1>2. ASSUME NEW r \in Posts, HandleRequest(r) PROVE IndInv'
  BY <1>2, HandleRequestIndInv
<1>3. CASE Shutdown
  BY <1>3, ShutdownIndInv
<1>4. CASE Service
  BY <1>4, InsertBatchIndInv, ServeBatchesIndInv, StopIndInv DEF Service
<1>5. CASE Flush
  BY <1>5, TickIndInv, DrainIndInv, EndFlushIndInv, AttemptIndInv DEF Flush
<1>6. CASE Outage \/ UNCHANGED logVars
  <2>1. UNCHANGED <<reply, mailbox, running, messages, stage, jobs, failed, pending, confirmed, mirrored, dropped, lost>>
    BY <1>6 DEF Outage, logVars, pipeline, logFlusher
  <2>2. Acknowledged' = Acknowledged /\ Places' = Places
    BY <2>1 DEF Acknowledged, Places, ToPrimary
  <2> QED
    BY <2>1, <2>2 DEF IndInv, TypeOK, FlushAlone, NoneTwice, MirroredBefore
<1> QED
  BY <1>1, <1>2, <1>3, <1>4, <1>5, <1>6 DEF LogNext

\* The strengthening is an invariant of the log agent.
THEOREM Invariance == LogSpec => []IndInv
<1>1. IndInv /\ [LogNext]_logVars => IndInv'
  BY NextIndInv
<1> QED
  BY <1>1, InitIndInv, PTL DEF LogSpec

\* Whatever requests come, endpoints fail and answers are lost, and wherever the
\* service is shut down: an entry answered with 200 is in exactly one place, so
\* that the flush neither forgets a failed batch nor keeps one twice (server.rs,
\* service.rs, flusher.rs and the tick of main.rs).
THEOREM AcknowledgedIsAccounted == LogSpec => []AcknowledgedAccounted
<1>1. IndInv => AcknowledgedAccounted
  BY InOnePlace DEF IndInv
<1> QED
  BY <1>1, Invariance, PTL

\* A delivery to an additional endpoint starts for a batch it was not offered.
LEMMA NewExtra ==
  ASSUME IndInv, [LogNext]_logVars, NEW j \in jobs' \ jobs, j.to \in Extras, j.attempts = 0
  PROVE  <<j.batch, j.to>> \notin mirrored
<1>0. j.to # "primary"
  BY LogPipelineAssumption
<1>1. CASE ServeBatches \/ FlushTick
  <2>1. PICK bs : jobs' = NewJobs(bs, {"primary"})
    BY <1>1 DEF ServeBatches, FlushTick
  <2> QED
    BY <1>0, <2>1, NewPrimary
<1>2. ASSUME NEW i \in jobs, NEW answer, Attempt(i, answer) PROVE <<j.batch, j.to>> \notin mirrored
  <2>0. i \in Jobs
    BY DEF IndInv, TypeOK
  <2>1. CASE GivesUp(i, answer) /\ i.to = "primary"
    <3>1. j \in AfterPrimary(i)
      BY <1>2, <2>1 DEF Attempt
    <3>2. i.batch \in Batches
      BY <2>0 DEF Jobs
    <3>3. stage = "shipping" /\ j.batch = i.batch
      BY <3>1, <3>2, AfterPrimaryIs
    <3>4. \A m \in mirrored : i.batch # m[1]
      BY <2>1, <3>3 DEF IndInv, MirroredBefore
    <3> QED
      BY <3>3, <3>4
  <2>2. CASE GivesUp(i, answer) /\ i.to # "primary"
    BY <1>2, <2>2 DEF Attempt
  <2>3. CASE ~GivesUp(i, answer)
    <3>1. j = [i EXCEPT !.attempts = @ + 1]
      BY <1>2, <2>3 DEF Attempt
    <3>2. i.attempts \in Nat /\ j.attempts = i.attempts + 1
      BY <2>0, <3>1 DEF Jobs
    <3> QED
      BY <3>2
  <2> QED
    BY <2>1, <2>2, <2>3
<1>3. ASSUME jobs' = jobs PROVE FALSE
  BY <1>3
<1> QED
  BY <1>1, <1>2, <1>3
  DEF LogNext, logVars, logFlusher, AnswerAtOnce, HandleRequest, Shutdown, Service, InsertBatch, Stop, Flush, Drain, EndFlush, Outage

\* Whatever the additional endpoints and the primary answer, and however often a
\* batch is redriven: an additional endpoint is offered it in one flush only
\* (flusher.rs: flush ships to the additional endpoints, a redrive does not).
THEOREM ExtrasAreTriedOnce == LogSpec => ExtrasTriedOnce
<1>1. IndInv /\ [LogNext]_logVars
        => [\A j \in jobs' \ jobs :
              j.to \in Extras /\ j.attempts = 0 => <<j.batch, j.to>> \notin mirrored]_logVars
  BY NewExtra
<1> QED
  BY <1>1, Invariance, PTL DEF LogSpec, ExtrasTriedOnce

=============================================================================
