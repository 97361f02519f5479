--------------------------- MODULE MetricBatches ---------------------------
(***************************************************************************)
(* How `consume_metrics` and `consume_distributions` of                    *)
(* crates/dogstatsd/src/aggregator/core.rs cut the entries they take out   *)
(* of the context map into payloads: the accumulator of their loops, the   *)
(* body of each loop as a function of it, and the loop itself.             *)
(*                                                                         *)
(* An entry is anything; size[e] is its serialized size in bytes, 0 for a  *)
(* series point that failed to serialize.                                  *)
(***************************************************************************)
EXTENDS Naturals, Sequences

CONSTANTS
  MaxBatchEntries,  \* max_batch_entries_*: entries per payload
  MaxBatchBytes     \* max_batch_bytes_*: bytes per payload

\* batched_payloads, the payload being filled, and this_batch_size.
NoBatches == [done |-> <<>>, cur |-> <<>>, bytes |-> 0]

\* Mutant: the limit on entries is off by one.
MustCloseLate(acc, n) == Len(acc.cur) > MaxBatchEntries \/ acc.bytes + n >= MaxBatchBytes

\* The test that the next entry, of n bytes, does not fit.
MustClose(acc, n) == Len(acc.cur) >= MaxBatchEntries \/ acc.bytes + n >= MaxBatchBytes

\* The body of the loop: close the payload unless it is still empty, in which
\* case the single oversized entry is added anyway.
AddEntry(acc, e, n) ==
  IF MustClose(acc, n) /\ acc.bytes # 0
  THEN [done |-> Append(acc.done, acc.cur), cur |-> <<e>>, bytes |-> n]
  ELSE [done |-> acc.done, cur |-> Append(acc.cur, e), bytes |-> acc.bytes + n]

\* consume_metrics leaves out a point that could not be serialized;
\* consume_distributions has no such case.
AddSeries(acc, e, n) == IF n = 0 THEN acc ELSE AddEntry(acc, e, n)

\* After the loop the last payload is pushed unless it is empty.
FinishBatches(acc) == IF acc.cur = <<>> THEN acc.done ELSE Append(acc.done, acc.cur)

\* The loops over the extracted entries, in the order the table yields them.
ConsumeMetrics(order, size) ==
  LET acc[n \in 0..Len(order)] ==
        IF n = 0 THEN NoBatches ELSE AddSeries(acc[n-1], order[n], size[order[n]])
  IN  FinishBatches(acc[Len(order)])

ConsumeDistributions(order, size) ==
  LET acc[n \in 0..Len(order)] ==
        IF n = 0 THEN NoBatches ELSE AddEntry(acc[n-1], order[n], size[order[n]])
  IN  FinishBatches(acc[Len(order)])

=============================================================================
