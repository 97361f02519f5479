---------------------------- MODULE ErrorSampler ----------------------------
(***************************************************************************)
(* Error rescue: the second look the trace processor takes at chunks the   *)
(* tracer sampled out.                                                     *)
(*                                                                         *)
(* The sampler (crates/datadog-agent-trace-sampler/src/score_sampler.rs)   *)
(* counts traces per signature in a circular buffer of buckets and, when   *)
(* the bucket changes, spreads a target of traces per second over the      *)
(* signatures.  The trace processor (crates/datadog-trace-agent/src/       *)
(* trace_processor.rs) picks the chunks, reads the clock under the lock it *)
(* shares with the other requests and stamps the roots that are kept.  The *)
(* lock covers a whole payload, so a payload is one step.                  *)
(*                                                                         *)
(* Rates are exact fractions <<numerator, denominator>>, not floats.       *)
(***************************************************************************)
EXTENDS Naturals, Integers, Sequences, FiniteSets, FiniteSetsExt, SequencesExt,
        Functions, BatchContents

CONSTANTS
  BucketDuration,   \* BUCKET_DURATION_SECS
  NumBuckets,       \* NUM_BUCKETS
  MaxRateIncrease,  \* MAX_RATE_INCREASE, a fraction
  FoldTo,           \* SHRINK_CARDINALITY / 2
  Configs,          \* the configurations to start from
  RescuePayloads,   \* the payloads that may arrive
  ClockReadings,    \* what the clock may show, in seconds
  MaxRescues,       \* bound: number of payloads
  SignatureOf(_, _),  \* compute_signature_with_root_and_env
  SampledAt(_, _)     \* sample_by_rate

\* A payload arrives without stamps, with rates that may be anything.
ASSUME ErrorSamplerAssumption ==
  /\ BucketDuration \in Nat \ {0} /\ NumBuckets \in Nat \ {0} /\ FoldTo \in Nat \ {0}
  /\ MaxRateIncrease \in (Nat \ {0}) \X (Nat \ {0})
  /\ ClockReadings \subseteq Nat
  /\ \A c \in Configs : c.target \in Int \X (Nat \ {0})
  /\ \A p \in RescuePayloads :
       /\ DOMAIN p = 1 .. Len(p)
       /\ \A i \in DOMAIN p :
            /\ DOMAIN p[i] = {"priority", "dm", "spans", "root", "id", "rate", "sr"}
            /\ p[i].sr = <<0, 1>> /\ p[i].rate \in Int \X Int
            /\ DOMAIN p[i].spans = 1 .. Len(p[i].spans)
            /\ SignatureOf(p[i].spans, p[i].root) \in Nat

VARIABLES
  settings,  \* mode, target and flags the processor was built with
  sampler,   \* the counters, the rates and the allow-list
  floor,     \* last_sampler_timestamp, -1 before the first
  out,       \* the last payload as it left, with the stamps
  counted,   \* history: weight counted per signature and bucket
  peaks,     \* history: the rates' input at the last rotation
  steps      \* history: payloads processed

samplerVars == <<settings, sampler, floor, out, counted, peaks, steps>>

-----------------------------------------------------------------------------
(* Fractions.                                                              *)

CommonDivisors(n, d) == {j \in 1 .. (IF n < d THEN n ELSE d) : n % j = 0 /\ d % j = 0}
DividedBy(n, d, k) == <<n \div k, d \div k>>
Frac(n, d) == DividedBy(n, d, IF n = 0 THEN d ELSE Max(CommonDivisors(n, d)))
One == <<1, 1>>
Zero == <<0, 1>>
Less(a, b) == a[1] * b[2] < b[1] * a[2]
Times2(a, b) == Frac(a[1] * b[1], a[2] * b[2])
Over(a, b) == Frac(a[1] * b[2], a[2] * b[1])
Minus(a, b) == Frac(a[1] * b[2] - b[1] * a[2], a[2] * b[2])
Plus(a, b) == Frac(a[1] * b[2] + b[1] * a[2], a[2] * b[2])
Lower(a, b) == IF Less(b, a) THEN b ELSE a

-----------------------------------------------------------------------------
(* The counters.                                                           *)

BucketIds == 0 .. NumBuckets - 1
NoCounts == [i \in BucketIds |-> 0]
MaxCount(buckets) == Max({buckets[i] : i \in BucketIds})

NewSampler ==
  [seen |-> <<>>, all |-> NoCounts, last |-> 0, rates |-> <<>>,
   lowest |-> Zero, listed |-> FALSE, allow |-> {}]

\* Buckets up to the new one are expired; the one the new bucket overwrites
\* still counts in the maximum.
ZeroAndGetMax(buckets, previous, new) ==
  LET window == previous + 1 .. previous + NumBuckets
      live == {buckets[i % NumBuckets] : i \in {j \in window : j >= new}}
      expired == {i % NumBuckets : i \in {j \in window : j <= new}}
  IN [max |-> Max(live \cup {0}),
      buckets |-> [i \in BucketIds |-> IF i \in expired THEN 0 ELSE buckets[i]]]

\* The share of each signature: what the quiet ones leave is spread over the
\* others.
AfterQuiet(acc, n, i, quiet) ==
  IF acc.done \/ i = n \/ ~Less(quiet, acc.share)
  THEN [acc EXCEPT !.done = TRUE]
  ELSE [done |-> FALSE, target |-> Minus(acc.target, quiet),
        share |-> Over(Minus(acc.target, quiet), <<n - i, 1>>)]

AllForAll(target, n) == [target |-> target, share |-> Over(target, <<n, 1>>), done |-> FALSE]

ShareOf(target, sorted) ==
  LET n == Len(sorted)
      upTo[i \in 0 .. n] ==
        IF i = 0 THEN AllForAll(target, n) ELSE AfterQuiet(upTo[i - 1], n, i, sorted[i])
  IN upTo[n].share

\* The signatures by their traces per second, the quiet ones first.
InsertByTps(tps, sorted, g) ==
  InsertAt(sorted, Cardinality({k \in DOMAIN sorted : ~Less(tps[g], tps[sorted[k]])}) + 1, g)

SortByTps(tps, names) ==
  LET upTo[i \in 0 .. Len(names)] ==
        IF i = 0 THEN <<>> ELSE InsertByTps(tps, upTo[i - 1], names[i])
  IN upTo[Len(names)]

Listed(f, names) == [i \in DOMAIN names |-> f[names[i]]]
ComputeTpsPerSig(target, tps) ==
  ShareOf(target, Listed(tps, SortByTps(tps, SetToSeq(DOMAIN tps))))

\* The rate of a signature seen `seen` times per second, risen by at most
\* MaxRateIncrease.
Capped(rate, old) ==
  IF old # Zero /\ Less(MaxRateIncrease, Over(rate, old))
  THEN Times2(old, MaxRateIncrease) ELSE rate

NewRate(s, sig, share, seen) ==
  Lower(Capped(IF Less(share, seen) THEN Over(share, seen) ELSE One,
               IF sig \in DOMAIN s.rates THEN s.rates[sig] ELSE Zero),
        One)

\* Signatures not seen for a whole window, at rate 1, are forgotten.
Active(rate, tps) == {g \in DOMAIN tps : ~(rate[g] = One /\ tps[g] = Zero)}

Rated(s, rotated, rate, active, all) ==
  [s EXCEPT !.seen = [g \in active |-> rotated[g].buckets],
            !.all = all,
            !.rates = [g \in active |-> rate[g]],
            !.lowest = FoldSet(Lower, One, {rate[g] : g \in active})]

RatesAt(s, tps, share) == [g \in DOMAIN tps |-> NewRate(s, g, share, tps[g])]
TpsOf(rotated) == [g \in DOMAIN rotated |-> Frac(rotated[g].max, BucketDuration)]

UpdateRates(s, target, new) ==
  LET rotated == [g \in DOMAIN s.seen |-> ZeroAndGetMax(s.seen[g], s.last, new)]
      tps == TpsOf(rotated)
      rate == RatesAt(s, tps, ComputeTpsPerSig(target, tps))
  IN IF DOMAIN s.seen = {} THEN s
     ELSE Rated(s, rotated, rate, Active(rate, tps),
                ZeroAndGetMax(s.all, s.last, new).buckets)

\* n more of sig in bucket i.
AddTo(s, sig, i, n) ==
  [s EXCEPT !.seen = [g \in DOMAIN s.seen \cup {sig} |->
                        IF g # sig THEN s.seen[g]
                        ELSE [j \in BucketIds |->
                                (IF sig \in DOMAIN s.seen THEN s.seen[sig][j] ELSE 0)
                                + (IF j = i THEN n ELSE 0)]],
            !.all[i] = @ + n]

InBucket(s, target, bucket) ==
  [(IF bucket = s.last THEN s ELSE UpdateRates(s, target, bucket)) EXCEPT !.last = bucket]

CountWeightedSig(s, target, now, sig, n) ==
  AddTo(InBucket(s, target, now \div BucketDuration), sig,
        (now \div BucketDuration) % NumBuckets, n)

RateFor(target, seen) == IF Less(target, seen) THEN Over(target, seen) ELSE One
NotOver(lowest, rate) == IF lowest # Zero /\ Less(lowest, rate) THEN lowest ELSE rate
DefaultRate(s, target) ==
  IF target = Zero THEN Zero
  ELSE NotOver(s.lowest, RateFor(target, Frac(MaxCount(s.all), BucketDuration)))

GetSignatureSampleRate(s, c, sig) ==
  IF sig \in DOMAIN s.rates THEN Times2(s.rates[sig], c.extra)
  ELSE DefaultRate(s, c.target)

-----------------------------------------------------------------------------
(* One trace.                                                              *)

TableSize(s) == Cardinality(DOMAIN s.seen)

\* The allow-list after a call of shrink: taken from the rates when the size
\* reaches FoldTo, forgotten when it falls below.
ShrinkList(s) ==
  IF TableSize(s) < FoldTo THEN [s EXCEPT !.listed = FALSE, !.allow = {}]
  ELSE IF s.listed THEN s
  ELSE [s EXCEPT !.listed = TRUE, !.allow = DOMAIN s.rates]

Shrink(s, sig) ==
  IF s.listed /\ sig \notin s.allow THEN sig % FoldTo ELSE sig

\* A wire rate that is not a number in (0, 1] is not trusted; <<n, 0>> is not
\* finite.
ClientRate(trace) ==
  LET r == trace.rate
  IN IF r[2] = 0 \/ r[1] <= 0 \/ r[1] > r[2] THEN One ELSE r

\* The inverse of the client's rate, a whole number here: the code keeps its
\* fraction, as an f32.
WeightRoot(trace) == LET r == ClientRate(trace) IN r[2] \div r[1]

IsDisabled(c) == c.target[1] <= 0

Kept(trace, rate) == SampledAt(trace.id, Times2(ClientRate(trace), rate))
Verdict(s, trace, rate) == [s |-> s, sr |-> IF Kept(trace, rate) THEN rate ELSE Zero]
Counted(s, c, trace, sig) == Verdict(s, trace, GetSignatureSampleRate(s, c, sig))
SampleAs(s, c, now, trace, sig) ==
  Counted(CountWeightedSig(s, c.target, now, sig, WeightRoot(trace)), c, trace, sig)

\* The sampler after a trace and the rate it was given, Zero when dropped.
Sample(s, c, now, trace) ==
  IF IsDisabled(c) \/ trace.root \notin DOMAIN trace.spans THEN [s |-> s, sr |-> Zero]
  ELSE IF c.mode = "AlwaysKeep" THEN [s |-> s, sr |-> One]
  ELSE SampleAs(ShrinkList(s), c, now, trace,
                Shrink(ShrinkList(s), SignatureOf(trace.spans, trace.root)))

-----------------------------------------------------------------------------
(* The trace processor.                                                    *)

\* Mutant: the decision makers of spans are not looked at.
PromoteNothing(chunk) == chunk

\* A chunk without a decision maker takes that of the first span that has one.
Promote(chunk) ==
  LET made == {i \in DOMAIN chunk.spans : chunk.spans[i].dm # "none"}
  IN IF chunk.dm # "none" \/ made = {} THEN chunk
     ELSE [chunk EXCEPT !.dm = chunk.spans[Min(made)].dm]

Errored(chunk) == \E i \in DOMAIN chunk.spans : chunk.spans[i].error = 1

Eligible(c, chunk) ==
  /\ \/ chunk.priority = 0
     \/ /\ c.tracerDrop
        /\ chunk.priority < 0 /\ chunk.priority # -128
        /\ chunk.priority = -1 => chunk.dm # "manual"
  /\ Errored(chunk)
  /\ chunk.root # 0

Stamped(acc, chunk, r) == [s |-> r.s, out |-> Append(acc.out, [chunk EXCEPT !.sr = r.sr])]

\* One chunk: sampled and stamped if it is eligible, else passed on.
Rescued(acc, c, now, chunk) ==
  IF Eligible(c, chunk) THEN Stamped(acc, chunk, Sample(acc.s, c, now, chunk))
  ELSE [s |-> acc.s, out |-> Append(acc.out, chunk)]

\* The chunks of a payload in order, all at one reading of the clock.
ApplyErrorRescue(s, c, now, chunks) ==
  LET after[n \in 0 .. Len(chunks)] ==
        IF n = 0 THEN [s |-> s, out |-> <<>>] ELSE Rescued(after[n-1], c, now, chunks[n])
  IN  after[Len(chunks)]

\* Mutant: the clock is trusted.
ClampTimestampNot(now) == now

\* The sampler never goes back: a clock that does is held at the last reading.
ClampTimestamp(now) == IF now < floor THEN floor ELSE now

SamplerInit ==
  /\ settings \in Configs
  /\ sampler = NewSampler
  /\ floor = -1
  /\ out = <<>>
  /\ counted = <<>>
  /\ peaks = <<>>
  /\ steps = 0

\* What a payload adds to the history: the weight of each chunk that is scored.
Scored(chunk) ==
  /\ ~IsDisabled(settings) /\ settings.mode # "AlwaysKeep"
  /\ Eligible(settings, chunk) /\ chunk.root \in DOMAIN chunk.spans

WeightsOf(chunks) ==
  [i \in DOMAIN chunks |-> IF Scored(chunks[i]) THEN WeightRoot(chunks[i]) ELSE 0]
CountedIn(bucket, weight) ==
  [b \in DOMAIN counted \cup {bucket} |->
     (IF b \in DOMAIN counted THEN counted[b] ELSE 0) + (IF b = bucket THEN weight ELSE 0)]
PeaksAt(new) ==
  [g \in DOMAIN sampler.seen |-> ZeroAndGetMax(sampler.seen[g], sampler.last, new).max]

\* The payload `chunks`, promoted, looked at at time `now`, came out as r.
Processed(chunks, weight, now, r) ==
  /\ sampler' = r.s
  /\ out' = r.out
  /\ floor' = IF IsDisabled(settings) \/ ~\E i \in DOMAIN chunks : Eligible(settings, chunks[i])
              THEN floor ELSE now
  /\ counted' = IF weight = 0 THEN counted ELSE CountedIn(now \div BucketDuration, weight)
  /\ peaks' = IF r.s.last = sampler.last THEN peaks ELSE PeaksAt(r.s.last)

RescueIn(chunks, now) ==
  Processed(chunks, Total(WeightsOf(chunks)), now,
            ApplyErrorRescue(sampler, settings, now, chunks))

ProcessV07(chunks, clock) ==
  /\ steps < MaxRescues
  /\ RescueIn([i \in DOMAIN chunks |-> Promote(chunks[i])], ClampTimestamp(clock))
  /\ steps' = steps + 1
  /\ UNCHANGED settings

\* Payloads of another version are not looked at.
ProcessOther ==
  /\ steps < MaxRescues
  /\ steps' = steps + 1
  /\ out' = <<>>
  /\ UNCHANGED <<settings, sampler, floor, counted, peaks>>

SamplerNext ==
  \/ \E p \in RescuePayloads, clock \in ClockReadings : ProcessV07(p, clock)
  \/ ProcessOther

SamplerSpec == SamplerInit /\ [][SamplerNext]_samplerVars

-----------------------------------------------------------------------------
(* Properties.                                                             *)

LiveBuckets == sampler.last - NumBuckets + 1 .. sampler.last

\* The counters cover the last NumBuckets buckets exactly: what every error
\* trace weighed in each of them, and nothing older, whatever the clock did.
\* The total of a bucket is the sum of its signatures, also after signatures
\* were folded and cleaned up.
WindowExact ==
  \A b \in LiveBuckets \cap Nat :
    LET total == sampler.all[b % NumBuckets]
    IN /\ total = IF b \in DOMAIN counted THEN counted[b] ELSE 0
       /\ total = SumFunctionOnSet([g \in DOMAIN sampler.seen |-> sampler.seen[g][b % NumBuckets]],
                                   DOMAIN sampler.seen)

\* After a rotation the rates, applied to the busiest bucket of each signature,
\* keep at most the target number of traces per second; nothing at all when the
\* target is not positive.
WithinBudget ==
  LET kept == [g \in DOMAIN sampler.rates |->
                 Times2(sampler.rates[g], Frac(peaks[g], BucketDuration))]
      sum == FoldFunctionOnSet(Plus, Zero, kept, DOMAIN sampler.rates)
  IN sum = Zero \/ ~Less(settings.target, sum)

\* Folding bounds the signatures stored, whatever arrives.
CardinalityBounded == TableSize(sampler) <= 2 * FoldTo

\* The three together (score_sampler.rs): the window is exact under a clock that
\* jumps, the rates keep to the target after every rotation and the signatures
\* stored are bounded.
SamplerKeepsBudget == WindowExact /\ WithinBudget /\ CardinalityBounded

\* A trace its user dropped by hand is not rescued, wherever the tracer wrote
\* the decision maker down (trace_processor.rs, apply_error_rescue).
ManualDropStays ==
  \A i \in DOMAIN out :
    /\ out[i].priority = -1
    /\ LET c == out[i] IN
         \/ c.dm = "manual"
         \/ c.dm = "none" /\ \E j \in DOMAIN c.spans : c.spans[j].dm = "manual"
    => out[i].sr = Zero

=============================================================================
