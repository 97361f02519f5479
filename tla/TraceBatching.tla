--------------------------- MODULE TraceBatching ---------------------------
(***************************************************************************)
(* Payloads of arbitrary chunk sizes are built chunk by chunk, split,      *)
(* queued in the trace aggregator and taken out in batches, the way        *)
(* process_traces and flush use TraceBatches.                              *)
(***************************************************************************)
EXTENDS TraceBatches

CONSTANTS
  ChunkSizes,  \* sizes of a chunk
  MaxChunks,   \* bound on the chunks of a payload
  MaxPayloads  \* bound on the payloads

\* The envelope is a few bytes of a limit of megabytes.
ASSUME TraceBatchingAssumption ==
  /\ MaxContentSize \in Nat \ {0} /\ Envelope \in Nat /\ Overhead \in Nat
  /\ Envelope <= MaxContentSize
  /\ ChunkSizes \subseteq Nat

VARIABLES
  arriving,      \* the payload being received
  queued,        \* history: all pieces queued, in order
  taken,         \* number of pieces taken out
  traceBatches,  \* history: the batches
  received       \* history: the payloads received

traceVars == <<arriving, queued, taken, traceBatches, received>>

TraceInit ==
  /\ arriving = <<>> /\ queued = <<>> /\ taken = 0
  /\ traceBatches = <<>> /\ received = <<>>

\* One more chunk of the payload arrives.
Grow(n) ==
  /\ Len(arriving) < MaxChunks /\ Len(received) < MaxPayloads
  /\ arriving' = Append(arriving, n)
  /\ UNCHANGED <<queued, taken, traceBatches, received>>

\* split_oversized_payloads, then add of every piece.
AddPieces ==
  /\ arriving # <<>>
  /\ received' = Append(received, arriving)
  /\ queued' = queued \o SplitTracerPayload(arriving)
  /\ arriving' = <<>>
  /\ UNCHANGED <<taken, traceBatches>>

\* The sizes recorded with the pieces of a queue.
PieceSizes(pieces) == [i \in 1..Len(pieces) |-> PieceSize(pieces[i])]

\* What the aggregator holds.
Waiting == SubSeq(queued, taken + 1, Len(queued))

\* One round of the flush.
GetTraceBatch ==
  LET n == GetBatchLength(PieceSizes(Waiting)) IN
  /\ Waiting # <<>>
  /\ traceBatches' = Append(traceBatches, SubSeq(Waiting, 1, n))
  /\ taken' = taken + n
  /\ UNCHANGED <<arriving, queued, received>>

TraceNext == AddPieces \/ GetTraceBatch \/ \E n \in ChunkSizes : Grow(n)

TraceSpec == TraceInit /\ [][TraceNext]_traceVars

-----------------------------------------------------------------------------
(* Properties.                                                             *)

\* Splitting loses, duplicates and reorders no chunk.
SplitKeepsChunks == Concat(queued) = Concat(received)

\* A piece is over the limit only if it is a single chunk that cannot be
\* split; in particular the envelope is accounted for.
PiecesFit ==
  \A i \in DOMAIN queued : PieceSize(queued[i]) <= MaxContentSize \/ Len(queued[i]) = 1

\* The batches are what was taken out of the queue, piece by piece and in order.
BatchesTakePieces == Concat(traceBatches) = SubSeq(queued, 1, taken)

\* A batch is never empty, which would end a flush with payloads queued, and
\* is over the limit only if it is one payload.
TraceBatchesFit ==
  \A i \in DOMAIN traceBatches :
    /\ Len(traceBatches[i]) >= 1
    /\ Total(PieceSizes(traceBatches[i])) <= MaxContentSize \/ Len(traceBatches[i]) = 1

\* The four together: from the payloads received to the batches taken out no
\* chunk is lost, duplicated or reordered, and a piece or a batch is over the
\* limit only if it is a single chunk or a single payload (trace_processor.rs,
\* split_tracer_payload; aggregator.rs, get_batch).
TraceBatchesExact ==
  SplitKeepsChunks /\ PiecesFit /\ BatchesTakePieces /\ TraceBatchesFit

=============================================================================
