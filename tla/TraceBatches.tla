---------------------------- MODULE TraceBatches ----------------------------
(***************************************************************************)
(* The two size-driven algorithms of crates/datadog-trace-agent: splitting *)
(* an oversized tracer payload (src/trace_processor.rs) and cutting the    *)
(* queue of the trace aggregator into batches (src/aggregator.rs).         *)
(*                                                                         *)
(* A payload is the sequence of its trace chunks, a chunk stands for its   *)
(* encoded size; the rest of a payload takes Overhead bytes.               *)
(***************************************************************************)
EXTENDS BatchContents

CONSTANTS
  MaxContentSize,  \* MAX_CONTENT_SIZE_BYTES
  Envelope,        \* V07_ENVELOPE_OVERHEAD_BYTES
  Overhead         \* encoded size of a payload without chunks

EncodedLen(chunks) == Overhead + Total(chunks)

\* The saturating subtraction in process_traces.
SplitBudget == IF MaxContentSize >= Envelope THEN MaxContentSize - Envelope ELSE 0

\* Mutant: a payload of two chunks is taken for one that cannot be split.
MustSplitThree(chunks) == EncodedLen(chunks) > SplitBudget /\ Len(chunks) > 2

MustSplit(chunks) == EncodedLen(chunks) > SplitBudget /\ Len(chunks) > 1

\* split_tracer_payload: bisect by chunks until a piece fits or is one chunk.
SplitTracerPayload(chunks) ==
  LET split[r \in (DOMAIN chunks) \X (DOMAIN chunks)] ==
        LET lo == r[1]
            hi == r[2]
            mid == lo + (hi - lo + 1) \div 2
        IN  IF MustSplit(SubSeq(chunks, lo, hi))
            THEN split[<<lo, mid - 1>>] \o split[<<mid, hi>>]
            ELSE <<SubSeq(chunks, lo, hi)>>
  IN  IF chunks = <<>> THEN <<chunks>> ELSE split[<<1, Len(chunks)>>]

\* The size process_traces records for a piece.
PieceSize(piece) == EncodedLen(piece) + Envelope

\* get_batch on a queue of payload sizes: how many payloads it takes.  It
\* stops at a full batch; a payload larger than a batch goes alone.
GetBatchLength(sizes) ==
  LET Fits(k) == Total(SubSeq(sizes, 1, k)) <= MaxContentSize
      Full(k) == Total(SubSeq(sizes, 1, k)) >= MaxContentSize
      n == CHOOSE n \in 0..Len(sizes) :
             /\ \A k \in 1..n : Fits(k) /\ ~Full(k - 1)
             /\ n = Len(sizes) \/ ~Fits(n + 1) \/ Full(n)
  IN  IF n = 0 /\ sizes # <<>> THEN 1 ELSE n

=============================================================================
