---------------------------- MODULE LogBatching ----------------------------
(***************************************************************************)
(* The log accumulator as a state machine: entries of arbitrary sizes are  *)
(* inserted and batches taken out, in any order.  An entry is its size.    *)
(***************************************************************************)
EXTENDS LogBatches, BatchContents

CONSTANTS
  Sizes,     \* sizes of the entries inserted
  MaxInput   \* bound on the number of entries inserted

\* An entry is its size.
ConstantsOK == LimitsOK /\ Sizes \subseteq Nat /\ \A n \in Sizes : Size(n) = n

ASSUME LogBatchingAssumption == ConstantsOK

VARIABLES
  messages,     \* the queue
  currentSize,  \* current_size_bytes
  \* history
  inserted,     \* entries accepted
  batches       \* batches taken out

vars == <<messages, currentSize, inserted, batches>>

Init == messages = <<>> /\ currentSize = 0 /\ inserted = <<>> /\ batches = <<>>

\* insert: one that is too large is dropped, which changes nothing.
Insert(n) ==
  /\ Len(inserted) < MaxInput
  /\ ~TooLarge(n)
  /\ messages' = Append(messages, n) /\ currentSize' = currentSize + n
  /\ inserted' = Append(inserted, n)
  /\ UNCHANGED batches

SaturatingSub(a, b) == IF a >= b THEN a - b ELSE 0

\* get_batch of a queue that is not empty.
GetBatch ==
  /\ messages # <<>>
  /\ batches' = Append(batches, FirstBatch(messages))
  /\ messages' = AfterFirstBatch(messages)
  /\ currentSize' = SaturatingSub(currentSize, Bytes(FirstBatch(messages)))
  /\ UNCHANGED inserted

Next == GetBatch \/ \E n \in Sizes : Insert(n)

Spec == Init /\ [][Next]_vars

-----------------------------------------------------------------------------
(* Properties.                                                             *)

\* The recorded size is that of the queue however inserts and batches
\* alternate: the saturating subtraction of get_batch never saturates.
SizeAccurate == currentSize = Bytes(messages)

\* What was accepted comes out once and in order.
BatchesInOrder == Concat(batches) \o messages = inserted

\* No batch is empty or exceeds a limit on the wire; an empty one would make
\* get_all_batches loop for ever.
BatchesFit ==
  \A i \in DOMAIN batches :
    Len(batches[i]) \in 1..MaxEntries /\ WireSize(batches[i]) <= MaxContent

\* A queue that is_full does not call full goes out in one batch.
NotFullIsOneBatch ==
  ~IsFull(Len(messages), currentSize) => BatchLength(messages) = Len(messages)

\* The four together: the recorded size is the size of the queue, entries come
\* out once and in order in batches that are neither empty nor over a limit on
\* the wire, and a queue that is_full does not call full goes out in one batch.
LogBatchesExact == SizeAccurate /\ BatchesInOrder /\ BatchesFit /\ NotFullIsOneBatch

=============================================================================
