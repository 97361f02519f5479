----------------------------- MODULE LogBatches -----------------------------
(***************************************************************************)
(* The log batch accumulator of                                            *)
(* crates/datadog-logs-agent/src/aggregator/core.rs as operators on a      *)
(* queue of entries; Size(e) is the serialized length of entry e.          *)
(***************************************************************************)
EXTENDS Naturals, Sequences, FiniteSets

CONSTANTS
  MaxEntries,  \* MAX_BATCH_ENTRIES
  MaxContent,  \* MAX_CONTENT_BYTES
  MaxLog,      \* MAX_LOG_BYTES: an entry of this size fits into a batch of its own
  Size(_)

\* What the properties assume of the limits: an entry of MaxLog bytes and the
\* brackets fit into a batch.
LimitsOK ==
  /\ MaxEntries \in Nat \ {0} /\ MaxContent \in Nat /\ MaxLog \in Nat
  /\ MaxLog + 2 <= MaxContent

\* Length of the entries themselves.
Bytes(s) ==
  LET sum[n \in 0..Len(s)] == IF n = 0 THEN 0 ELSE sum[n-1] + Size(s[n])
  IN  sum[Len(s)]

\* Length of the JSON array: brackets and commas added.
WireSize(s) == IF s = <<>> THEN 2 ELSE Bytes(s) + Len(s) + 1

TooLarge(e) == Size(e) > MaxLog

\* The queue q after the entries of s were inserted one by one; an entry that
\* is too large is left out.
InsertAll(q, s) ==
  LET queue[n \in 0..Len(s)] ==
        IF n = 0 THEN q
        ELSE IF TooLarge(s[n]) THEN queue[n-1] ELSE Append(queue[n-1], s[n])
  IN  queue[Len(s)]

\* is_full, for a queue of n entries whose recorded size is bytes.
IsFull(n, bytes) ==
  n >= MaxEntries \/ bytes + (IF n = 0 THEN 0 ELSE n + 1) >= MaxContent

\* Mutant: the comma before an entry is not counted.
FitsWithoutComma(s, n) == n <= MaxEntries /\ Bytes(SubSeq(s, 1, n)) + 2 <= MaxContent

\* The first n entries go into one batch.
Fits(s, n) == n <= MaxEntries /\ WireSize(SubSeq(s, 1, n)) <= MaxContent

\* get_batch pops entries as long as they fit: the length of the batch.
BatchLength(s) ==
  CHOOSE n \in 0..Len(s) : (\A k \in 1..n : Fits(s, k)) /\ (n = Len(s) \/ ~Fits(s, n + 1))

FirstBatch(s) == SubSeq(s, 1, BatchLength(s))

AfterFirstBatch(s) == SubSeq(s, BatchLength(s) + 1, Len(s))

\* get_all_batches, of which Len(s) rounds are enough.
GetAllBatches(s) ==
  LET rest[n \in 0..Len(s)] == IF n = 0 THEN s ELSE AfterFirstBatch(rest[n-1])
      count == Cardinality({n \in 0..Len(s) : rest[n] # <<>>})
  IN  [n \in 1..count |-> FirstBatch(rest[n-1])]

=============================================================================
