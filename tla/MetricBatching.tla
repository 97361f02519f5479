--------------------------- MODULE MetricBatching ---------------------------
(***************************************************************************)
(* The loop of `consume_metrics` as a state machine: entries of arbitrary  *)
(* sizes arrive one after the other and are added to the payloads.  Each   *)
(* entry is represented by its size, so that a payload is the sequence of  *)
(* its entries' sizes.                                                     *)
(***************************************************************************)
EXTENDS MetricBatches, BatchContents

CONSTANTS
  MetricSizes,  \* the sizes entries may have
  MaxMetrics    \* bound on the number of entries

ASSUME MetricBatchingAssumption ==
  /\ MaxBatchEntries \in Nat \ {0} /\ MaxBatchBytes \in Nat
  /\ MetricSizes \subseteq Nat

VARIABLES
  seen,    \* the entries seen so far
  filled   \* the accumulator of the loop

metricVars == <<seen, filled>>

MetricInit == seen = <<>> /\ filled = NoBatches

\* One iteration of consume_metrics' loop.
AddMetric(n) ==
  /\ Len(seen) < MaxMetrics
  /\ seen' = Append(seen, n)
  /\ filled' = AddSeries(filled, n, n)

MetricNext == \E n \in MetricSizes : AddMetric(n)

MetricSpec == MetricInit /\ [][MetricNext]_metricVars

-----------------------------------------------------------------------------
(* Properties, of the payloads returned if the loop ended here.            *)

\* A payload stays under both limits unless a single entry alone exceeds
\* them: the intake never gets an oversized payload it could have been spared.
WithinLimits ==
  \A i \in DOMAIN FinishBatches(filled) :
    LET b == FinishBatches(filled)[i]
    IN  Len(b) \in 1..MaxBatchEntries /\ (Total(b) < MaxBatchBytes \/ Len(b) = 1)

\* The entries that could be serialized.
Serialized(s) ==
  LET kept[n \in 0..Len(s)] ==
        IF n = 0 THEN <<>> ELSE IF s[n] = 0 THEN kept[n-1] ELSE Append(kept[n-1], s[n])
  IN  kept[Len(s)]

\* Every entry that could be serialized is in exactly one payload, and the
\* order is kept.
NothingLost == Concat(FinishBatches(filled)) = Serialized(seen)

\* Both: a metrics payload exceeds a limit only when its single entry does, and
\* every metric that can be serialized is in one payload, in order
\* (aggregator/core.rs, consume_metrics).
MetricBatchesExact == WithinLimits /\ NothingLost

=============================================================================
