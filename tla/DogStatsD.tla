----------------------------- MODULE DogStatsD -----------------------------
(***************************************************************************)
(* The DogStatsD server of crates/dogstatsd/src/dogstatsd.rs on its UDP    *)
(* transport: `spin` starts a reader task (`read_loop`) that moves         *)
(* datagrams from the socket into a bounded channel, and runs the          *)
(* processor (`process_loop`) that parses them and hands the metrics to    *)
(* the aggregator.  Buffers travel reader -> channel -> processor -> pool  *)
(* -> reader.  A cancellation token stops both tasks.                      *)
(*                                                                         *)
(* The two tasks run in parallel, so every await, every channel operation  *)
(* and every check of the token is a step of its own.                      *)
(***************************************************************************)
EXTENDS Naturals, Sequences, FiniteSets

CONSTANTS
  Packets,    \* the datagrams clients may send, each sent at most once
  Lines,      \* Lines[p]: the kinds of the lines of p; <<>> is an empty datagram
  NonUtf8,    \* the datagrams whose bytes are not UTF-8
  QueueSize   \* capacity of the channel (queue_size, never 0: `new` replaces 0)

LineKinds == {"metric", "ignored", "malformed"}

ASSUME DogStatsDAssumption ==
  /\ Lines \in [Packets -> Seq(LineKinds)]
  /\ NonUtf8 \subseteq Packets
  /\ QueueSize \in Nat \ {0}

VARIABLES
  \* environment
  unsent,     \* datagrams not sent yet
  socket,     \* datagrams waiting in the kernel buffer
  cancelled,  \* the cancellation token
  \* read_loop
  rpc,        \* where the reader is
  rpkt,       \* the packet it is about to try_send, as a sequence of at most one
  dropped,    \* number of packets it dropped because the channel was full
  \* the bounded channel and the buffer pool
  queue,
  pool,       \* number of free buffers in the pool
  allocated,  \* number of buffers ever allocated
  \* process_loop
  ppc,        \* where the processor is
  ppkt,       \* the packet it is processing, as a sequence of at most one
  mailbox,    \* the batches handed to the aggregator
  \* history
  got,        \* the non-empty datagrams read from the socket, in order
  accepted,   \* the ones the channel accepted, in order
  processed   \* the ones processed, in order

env    == <<unsent, socket, cancelled>>
reader == <<rpc, rpkt, dropped, got, accepted>>
proc   == <<ppc, ppkt, mailbox, processed>>
vars   == <<unsent, socket, cancelled, rpc, rpkt, dropped, queue, pool, allocated,
            ppc, ppkt, mailbox, got, accepted, processed>>


ReaderPC == {"top", "read", "first", "try", "more", "check", "done"}
ProcPC   == {"recv", "work", "drain", "drainwork", "closing", "done"}

\* The receiver is dropped, which closes the channel, when `spin` returns.
RxClosed == ppc = "done"

Init ==
  /\ unsent = Packets /\ socket = <<>> /\ cancelled = FALSE
  /\ rpc = "top" /\ rpkt = <<>> /\ dropped = 0
  /\ queue = <<>> /\ pool = 0 /\ allocated = 0
  /\ ppc = "recv" /\ ppkt = <<>> /\ mailbox = <<>>
  /\ got = <<>> /\ accepted = <<>> /\ processed = <<>>

-----------------------------------------------------------------------------
(* The environment: clients and the owner of the cancellation token.       *)

Send(p) ==
  /\ p \in unsent
  /\ unsent' = unsent \ {p}
  /\ socket' = Append(socket, p)
  /\ UNCHANGED <<cancelled, reader, queue, pool, allocated, proc>>

Cancel ==
  /\ ~cancelled
  /\ cancelled' = TRUE
  /\ UNCHANGED <<unsent, socket, reader, queue, pool, allocated, proc>>

-----------------------------------------------------------------------------
(* read_loop.                                                              *)

\* Mutant: the pool is never consulted.
TakeBufferAlways == allocated' = allocated + 1 /\ UNCHANGED pool

\* pool_rx.try_recv().unwrap_or_else(allocate)
TakeBuffer ==
  IF pool > 0 THEN pool' = pool - 1 /\ UNCHANGED allocated
              ELSE allocated' = allocated + 1 /\ UNCHANGED pool

\* pool_tx.send(buf): the pool's receiver belongs to the reader, so a buffer
\* returned after the reader is gone is freed.
PoolAfterReturn == IF rpc = "done" THEN pool ELSE pool + 1

\* while !cancel.is_cancelled(), then take a buffer for the awaited read.
ReaderTop ==
  /\ rpc = "top"
  /\ IF cancelled
     THEN rpc' = "done" /\ UNCHANGED <<pool, allocated>>
     ELSE rpc' = "read" /\ TakeBuffer
  /\ UNCHANGED <<env, rpkt, dropped, queue, proc, got, accepted>>

\* The select picks the cancellation branch: the buffer goes back.
ReadCancelled ==
  /\ rpc = "read" /\ cancelled
  /\ rpc' = "done" /\ pool' = pool + 1
  /\ UNCHANGED <<env, rpkt, dropped, queue, allocated, proc, got, accepted>>

\* read_into fails with ConnectionReset (the loop ends and the buffer with
\* it) or with another error (the buffer goes back and the loop goes on).
ReadError ==
  /\ rpc = "read"
  /\ \/ rpc' = "done" /\ UNCHANGED pool
     \/ rpc' = "top" /\ pool' = pool + 1
  /\ UNCHANGED <<env, rpkt, dropped, queue, allocated, proc, got, accepted>>

\* One datagram leaves the socket.  An empty one returns its buffer at once.
Receive(sendAt, emptyAt) ==
  LET p == Head(socket)
  IN  /\ socket # <<>>
      /\ socket' = Tail(socket)
      /\ IF Lines[p] = <<>>
         THEN /\ rpc' = emptyAt /\ pool' = pool + 1
              /\ UNCHANGED <<rpkt, got>>
         ELSE /\ rpc' = sendAt /\ rpkt' = <<p>> /\ got' = Append(got, p)
              /\ UNCHANGED pool
      /\ UNCHANGED <<unsent, cancelled, dropped, queue, allocated, proc, accepted>>

\* The awaited read_into returns a datagram.
ReadInto == rpc = "read" /\ Receive("first", "top")

\* try_send_packet, the three outcomes of tx.try_send.
SendAccepted(next) ==
  /\ ~RxClosed /\ Len(queue) < QueueSize
  /\ queue' = Append(queue, Head(rpkt))
  /\ accepted' = Append(accepted, Head(rpkt))
  /\ rpc' = next
  /\ UNCHANGED <<pool, dropped>>

\* Mutant: one place of the channel is never used.
SendFullEarly(next) ==
  /\ ~RxClosed /\ Len(queue) + 1 >= QueueSize
  /\ dropped' = dropped + 1
  /\ pool' = pool + 1 /\ rpc' = next
  /\ UNCHANGED <<queue, accepted>>

\* Full: the buffer goes back to the pool and the drop is counted.
SendFull(next) ==
  /\ ~RxClosed /\ Len(queue) >= QueueSize
  /\ dropped' = dropped + 1
  /\ pool' = pool + 1 /\ rpc' = next
  /\ UNCHANGED <<queue, accepted>>

\* Closed: the buffer goes back and the caller stops.
SendClosed(closedAt) ==
  /\ RxClosed
  /\ pool' = pool + 1 /\ rpc' = closedAt
  /\ UNCHANGED <<queue, dropped, accepted>>

TrySendPacket(next, closedAt) ==
  /\ SendAccepted(next) \/ SendFull(next) \/ SendClosed(closedAt)
  /\ rpkt' = <<>>
  /\ UNCHANGED <<env, allocated, proc, got>>

\* After the awaited read a closed channel ends read_loop.
SendFirst == rpc = "first" /\ TrySendPacket("more", "done")

\* The drain loop: take a buffer ...
DrainTake ==
  /\ rpc = "more"
  /\ rpc' = "try" /\ TakeBuffer
  /\ UNCHANGED <<env, rpkt, dropped, queue, proc, got, accepted>>

\* ... try_read_into: nothing there, or an error, leaves the drain loop.
DrainEmpty ==
  /\ rpc = "try" /\ rpkt = <<>>
  /\ rpc' = "check" /\ pool' = pool + 1
  /\ UNCHANGED <<env, rpkt, dropped, queue, allocated, proc, got, accepted>>

DrainRead == rpc = "try" /\ rpkt = <<>> /\ Receive("try", "more")

\* In the drain loop a closed channel leads to the is_closed check.
SendDrained == rpc = "try" /\ rpkt # <<>> /\ TrySendPacket("more", "check")

\* if tx.is_closed() { break }
CheckClosed ==
  /\ rpc = "check"
  /\ rpc' = IF RxClosed THEN "done" ELSE "top"
  /\ UNCHANGED <<env, rpkt, dropped, queue, pool, allocated, proc, got, accepted>>

Reader ==
  \/ ReaderTop \/ ReadCancelled \/ ReadInto \/ SendFirst
  \/ DrainTake \/ DrainEmpty \/ DrainRead \/ SendDrained \/ CheckClosed

-----------------------------------------------------------------------------
(* process_loop.                                                           *)

\* Mutant: the channel is read from the wrong end.
TakePacketLast(at) ==
  /\ queue # <<>>
  /\ ppkt' = <<queue[Len(queue)]>>
  /\ queue' = SubSeq(queue, 1, Len(queue) - 1)
  /\ ppc' = at
  /\ UNCHANGED <<env, reader, pool, allocated, mailbox, processed>>

\* One packet leaves the channel.
TakePacket(at) ==
  /\ queue # <<>>
  /\ ppkt' = <<Head(queue)>>
  /\ queue' = Tail(queue)
  /\ ppc' = at
  /\ UNCHANGED <<env, reader, pool, allocated, mailbox, processed>>

\* The select picks rx.recv() and it yields a packet.
Recv == ppc = "recv" /\ TakePacket("work")

\* Mutant: the end of the reader ends the processor at once.
RecvNoneEarly ==
  /\ ppc = "recv" /\ rpc = "done"
  /\ ppc' = "closing"
  /\ UNCHANGED <<env, reader, queue, pool, allocated, ppkt, mailbox, processed>>

\* rx.recv() yields None: no sender left and nothing queued.
RecvNone ==
  /\ ppc = "recv" /\ queue = <<>> /\ rpc = "done"
  /\ ppc' = "closing"
  /\ UNCHANGED <<env, reader, queue, pool, allocated, ppkt, mailbox, processed>>

\* The select picks the cancellation branch.
RecvCancelled ==
  /\ ppc = "recv" /\ cancelled
  /\ ppc' = "drain"
  /\ UNCHANGED <<env, reader, queue, pool, allocated, ppkt, mailbox, processed>>

\* while let Ok(packet) = rx.try_recv()
Drain == ppc = "drain" /\ TakePacket("drainwork")

DrainDone ==
  /\ ppc = "drain" /\ queue = <<>>
  /\ ppc' = "closing"
  /\ UNCHANGED <<env, reader, queue, pool, allocated, ppkt, mailbox, processed>>

\* process_packet and insert_metrics: the metrics that remain of a packet,
\* each named by the packet and its line, which is their order in the batch.
ValidMetrics(p) ==
  IF p \in NonUtf8 THEN {}
  ELSE {<<p, i>> : i \in {j \in DOMAIN Lines[p] : Lines[p][j] = "metric"}}

\* process_packet(..); pool.send(packet.buf).  A batch is only sent when a
\* valid metric is left.
ProcessPacket ==
  LET p == Head(ppkt) IN
  /\ ppc \in {"work", "drainwork"}
  /\ ppc' = IF ppc = "work" THEN "recv" ELSE "drain"
  /\ ppkt' = <<>>
  /\ processed' = Append(processed, p)
  /\ mailbox' = IF ValidMetrics(p) = {} THEN mailbox
                ELSE Append(mailbox, ValidMetrics(p))
  /\ pool' = PoolAfterReturn
  /\ UNCHANGED <<env, reader, queue, allocated>>

\* `spin` returns: the receiver is dropped with whatever is still queued.
DropReceiver ==
  /\ ppc = "closing"
  /\ ppc' = "done" /\ queue' = <<>>
  /\ UNCHANGED <<env, reader, pool, allocated, ppkt, mailbox, processed>>

Processor ==
  \/ Recv \/ RecvNone \/ RecvCancelled \/ Drain \/ DrainDone
  \/ ProcessPacket \/ DropReceiver

-----------------------------------------------------------------------------

Next == (\E p \in Packets : Send(p)) \/ Cancel \/ ReadError \/ Reader \/ Processor

\* Both tasks are scheduled by the runtime; clients, cancellation and socket
\* errors need never happen.
Spec == Init /\ [][Next]_vars /\ WF_vars(Reader) /\ WF_vars(Processor)

-----------------------------------------------------------------------------
(* Properties.                                                             *)

AtMostOne(s) == Len(s) <= 1

TypeOK ==
  /\ unsent \subseteq Packets /\ socket \in Seq(Packets)
  /\ cancelled \in BOOLEAN
  /\ rpc \in ReaderPC /\ rpkt \in Seq(Packets) /\ AtMostOne(rpkt)
  /\ queue \in Seq(Packets) /\ Len(queue) <= QueueSize
  /\ pool \in Nat /\ allocated \in Nat
  /\ ppc \in ProcPC /\ ppkt \in Seq(Packets) /\ AtMostOne(ppkt)
  /\ mailbox \in Seq(SUBSET (Packets \X Nat))
  /\ dropped \in Nat
  /\ got \in Seq(Packets) /\ accepted \in Seq(Packets)
  /\ processed \in Seq(Packets)

\* A buffer the reader holds, in its hand or inside the packet it sends.
ReaderHolds == IF rpc \in {"read", "first", "try"} THEN 1 ELSE 0

\* A buffer the processor holds.
ProcHolds == IF ppc \in {"work", "drainwork"} THEN 1 ELSE 0

\* No buffer is leaked while the reader runs and the channel is open: every
\* buffer read_loop ever allocated is in the pool, in a queued packet or in
\* the hands of one of the two tasks, whatever path (empty datagram, read
\* error, full or closed channel, processing) it took.
BuffersAccounted ==
  (rpc # "done" /\ ~RxClosed) =>
    allocated = pool + Len(queue) + ReaderHolds + ProcHolds

\* Memory is bounded by the channel: read_loop "allocates on first use" and
\* never has more buffers than the queue's capacity plus one per task.
BufferBound == allocated <= QueueSize + 2

IsPrefixOf(s, t) == Len(s) <= Len(t) /\ \A i \in 1..Len(s) : s[i] = t[i]

\* Packets are never lost, duplicated or reordered between the channel and
\* the parser: until `spin` returns, what the channel accepted is what was
\* processed, then what the processor holds, then the queue.  After that,
\* what was processed is still a prefix of it.
InOrderNoLoss ==
  /\ ~RxClosed => accepted = processed \o ppkt \o queue
  /\ IsPrefixOf(processed, accepted)

\* Every datagram read from the socket is accepted, counted as dropped or in
\* the reader's hands, until the channel is closed.
EveryReadCounted == ~RxClosed => Len(got) = Len(accepted) + dropped + Len(rpkt)

\* Without cancellation `spin` returns only when nothing it read is left
\* over: the end of the reader (ConnectionReset) loses no packet.
LossOnlyAfterCancel ==
  (RxClosed /\ ~cancelled) =>
    processed = accepted /\ Len(got) = Len(processed) + dropped

\* Every packet sent and not settled, the oldest first.
InFlight == ppkt \o queue \o rpkt \o socket

Promise == INSTANCE LossyQueue WITH
  Items <- Packets, Void <- {p \in Packets : Lines[p] = <<>>}, Capacity <- QueueSize,
  pending <- InFlight, delivered <- processed, overflows <- dropped, stopped <- RxClosed

\* To its clients the server is a queue that is lossy only when it is full or
\* cancelled: nothing the two tasks do with socket, channel, pool and token
\* reorders or repeats a packet, gives one up while fewer than queue_size others
\* are ahead of it, or loses one uncounted before it is cancelled.
ImplementsLossyQueue == Promise!Spec

\* The comment on process_loop: "On cancellation, drains any remaining
\* buffered packets before exiting so no already-read data is lost."
NoReadDataLost ==
  (rpc = "done" /\ RxClosed) => Len(got) = Len(processed) + dropped

\* A packet the channel accepted is processed, unless the server is
\* cancelled: neither an idle nor a stopped reader leaves it in the queue.
AcceptedIsProcessed ==
  \A p \in Packets :
    (\E i \in DOMAIN accepted : accepted[i] = p) ~>
      (cancelled \/ \E i \in DOMAIN processed : processed[i] = p)

=============================================================================
