-------------------------- MODULE DogStatsD_proofs --------------------------
(***************************************************************************)
(* Proofs about metric intake.                                             *)
(*                                                                         *)
(* About DogStatsD, for every set of packets and every queue size: the     *)
(* type invariant; that the buffers the reader allocates are accounted for *)
(* and bounded by the capacity of the channel; that packets are neither    *)
(* lost, duplicated nor reordered between reader and parser; that the      *)
(* whole implements LossyQueue; and that DogStatsDTraffic stands for it.   *)
(*                                                                         *)
(* About MetricsAggregator, for every set of samples, contexts, batches    *)
(* and callers and every limit: every sample is in exactly one place, and  *)
(* a flush sees every batch inserted before it.                            *)
(***************************************************************************)
EXTENDS DogStatsD, MetricsAggregator, ProofLibrary, SequenceTheorems, FiniteSetTheorems, TLAPS

\* Which task holds a packet where: needed for Head(rpkt) and Head(ppkt) to
\* be packets when try_send_packet and process_packet use them.
HandsOK ==
  /\ rpc = "first" => rpkt # <<>>
  /\ rpkt # <<>> => rpc \in {"first", "try"}
  /\ ppkt # <<>> <=> ppc \in {"work", "drainwork"}

\* What BufferBound needs once the receiver is dropped with buffers still in
\* the queue: at most the queue and the processor's hand are unaccounted for.
BufferDebt ==
  rpc # "done" => allocated <= pool + ReaderHolds + QueueSize + 1

TypeInv == TypeOK /\ HandsOK

BufferInv == BuffersAccounted /\ BufferDebt /\ BufferBound

\* Why the end of the reader loses nothing: without cancellation the
\* processor only leaves its loop once the reader is gone and the channel is
\* empty.
QuietClose ==
  ~cancelled =>
    /\ ppc \notin {"drain", "drainwork"}
    /\ ppc \in {"closing", "done"} => rpc = "done" /\ queue = <<>>

OrderInv == InOrderNoLoss /\ EveryReadCounted /\ QuietClose /\ LossOnlyAfterCancel

-----------------------------------------------------------------------------
(* Type correctness.                                                       *)

\* A datagram taken from the socket keeps the types, wherever it is taken.
LEMMA ReceiveType ==
  ASSUME TypeInv, rpkt = <<>>, NEW a \in {"first", "try"},
         NEW b \in {"top", "more"}, Receive(a, b)
  PROVE  TypeInv'
<1> USE DogStatsDAssumption DEF TypeInv, TypeOK, HandsOK, AtMostOne, ReaderPC,
        ProcPC, proc
<1>1. Head(socket) \in Packets /\ Tail(socket) \in Seq(Packets)
  BY DEF Receive
<1>2. CASE Lines[Head(socket)] = <<>>
  BY <1>1, <1>2 DEF Receive
<1>3. CASE Lines[Head(socket)] # <<>>
  <2>1. rpkt' = <<Head(socket)>> /\ got' = Append(got, Head(socket)) /\ rpc' = a
    BY <1>3 DEF Receive
  <2>2. rpkt' \in Seq(Packets) /\ Len(rpkt') = 1 /\ rpkt' # <<>>
    BY <2>1, <1>1
  <2>3. got' \in Seq(Packets)
    BY <2>1, <1>1
  <2>4. UNCHANGED <<unsent, cancelled, dropped, queue, allocated, pool, proc, accepted>>
        /\ socket' = Tail(socket)
    BY <1>3 DEF Receive
  <2>5. TypeOK'
    BY <1>1, <2>1, <2>2, <2>3, <2>4, SMTT(60)
  <2>6. HandsOK'
    BY <2>1, <2>2, <2>4
  <2> QED BY <2>5, <2>6
<1> QED BY <1>2, <1>3

\* try_send_packet keeps the types in each of its three outcomes.
LEMMA TrySendType ==
  ASSUME TypeInv, rpkt # <<>>, NEW a \in {"more"}, NEW b \in {"done", "check"},
         TrySendPacket(a, b)
  PROVE  TypeInv'
<1> USE DogStatsDAssumption DEF TypeInv, TypeOK, HandsOK, AtMostOne, ReaderPC,
        ProcPC, proc, env
<1>1. Head(rpkt) \in Packets
  OBVIOUS
<1>2. rpkt' = <<>> /\ UNCHANGED <<env, allocated, proc, got>>
  BY DEF TrySendPacket
<1>3. CASE SendAccepted(a)
  BY <1>1, <1>2, <1>3 DEF SendAccepted
<1>4. CASE SendFull(a)
  BY <1>2, <1>4 DEF SendFull
<1>5. CASE SendClosed(b)
  BY <1>2, <1>5 DEF SendClosed
<1> QED BY <1>3, <1>4, <1>5 DEF TrySendPacket

\* A packet taken from the channel keeps the types.
LEMMA TakePacketType ==
  ASSUME TypeInv, ppc \in {"recv", "drain"}, NEW a \in {"work", "drainwork"},
         TakePacket(a)
  PROVE  TypeInv'
<1> USE DogStatsDAssumption DEF TypeInv, TypeOK, HandsOK, AtMostOne, ReaderPC,
        ProcPC, reader, env
<1>1. /\ Head(queue) \in Packets /\ Tail(queue) \in Seq(Packets)
      /\ Len(Tail(queue)) = Len(queue) - 1
  BY DEF TakePacket
<1>2. ppkt' = <<Head(queue)>> /\ queue' = Tail(queue) /\ ppc' = a
  BY DEF TakePacket
<1>3. ppkt' \in Seq(Packets) /\ Len(ppkt') = 1 /\ ppkt' # <<>>
  BY <1>1, <1>2
<1> QED BY <1>1, <1>2, <1>3, SMTT(60) DEF TakePacket

LEMMA TypeInit == Init => TypeInv
<1> SUFFICES ASSUME Init PROVE TypeInv
  OBVIOUS
<1>1. cancelled \in BOOLEAN
  BY DEF Init
<1>2. mailbox \in Seq(SUBSET (Packets \X Nat))
  BY DEF Init
<1>3. TypeOK
  BY <1>1, <1>2, DogStatsDAssumption DEF Init, TypeOK, ReaderPC, ProcPC, AtMostOne
<1>4. HandsOK
  BY DEF Init, HandsOK
<1> QED BY <1>3, <1>4 DEF TypeInv

\* Every step preserves the type invariant.
LEMMA TypeStep == TypeInv /\ [Next]_vars => TypeInv'
<1> SUFFICES ASSUME TypeInv, [Next]_vars PROVE TypeInv'
  OBVIOUS
<1> USE DogStatsDAssumption
<1>1. ASSUME NEW p \in Packets, Send(p) PROVE TypeInv'
  BY <1>1 DEF Send, TypeInv, TypeOK, HandsOK, AtMostOne, reader, proc
<1>2. CASE Cancel
  BY <1>2 DEF Cancel, TypeInv, TypeOK, HandsOK, AtMostOne, reader, proc
<1>3. CASE ReadError \/ ReaderTop \/ ReadCancelled \/ DrainTake \/ DrainEmpty \/ CheckClosed
  <2> USE DEF TypeInv, TypeOK, HandsOK, AtMostOne, ReaderPC, env, proc
  <2>1. CASE ReadError
    BY <2>1 DEF ReadError
  <2>2. CASE ReaderTop
    BY <2>2 DEF ReaderTop, TakeBuffer
  <2>3. CASE ReadCancelled
    BY <2>3 DEF ReadCancelled
  <2>4. CASE DrainTake
    BY <2>4 DEF DrainTake, TakeBuffer
  <2>5. CASE DrainEmpty
    BY <2>5 DEF DrainEmpty
  <2>6. CASE CheckClosed
    BY <2>6 DEF CheckClosed
  <2> QED BY <1>3, <2>1, <2>2, <2>3, <2>4, <2>5, <2>6
<1>4. CASE ReadInto \/ DrainRead
  <2>1. rpkt = <<>>
    BY <1>4 DEF ReadInto, DrainRead, TypeInv, HandsOK
  <2> QED BY <1>4, <2>1, ReceiveType DEF ReadInto, DrainRead
<1>5. CASE SendFirst \/ SendDrained
  <2>1. rpkt # <<>>
    BY <1>5 DEF SendFirst, SendDrained, TypeInv, HandsOK
  <2> QED BY <1>5, <2>1, TrySendType DEF SendFirst, SendDrained
<1>6. CASE Recv \/ Drain
  BY <1>6, TakePacketType DEF Recv, Drain
<1>7. CASE RecvNone \/ RecvCancelled \/ DrainDone \/ DropReceiver
  <2> USE DEF TypeInv, TypeOK, HandsOK, AtMostOne, ProcPC, env, reader
  <2>1. CASE RecvNone
    BY <2>1 DEF RecvNone
  <2>2. CASE RecvCancelled
    BY <2>2 DEF RecvCancelled
  <2>3. CASE DrainDone
    BY <2>3 DEF DrainDone
  <2>4. CASE DropReceiver
    BY <2>4 DEF DropReceiver
  <2> QED BY <1>7, <2>1, <2>2, <2>3, <2>4
<1>8. CASE ProcessPacket
  <2>1. Head(ppkt) \in Packets
    BY <1>8 DEF ProcessPacket, TypeInv, TypeOK, HandsOK
  <2>2. ValidMetrics(Head(ppkt)) \in SUBSET (Packets \X Nat)
    BY <2>1 DEF ValidMetrics
  <2>3. mailbox' \in Seq(SUBSET (Packets \X Nat))
    BY <1>8, <2>2 DEF ProcessPacket, TypeInv, TypeOK
  <2> QED BY <1>8, <2>1, <2>3 DEF ProcessPacket, PoolAfterReturn,
          TypeInv, TypeOK, HandsOK, AtMostOne, ProcPC, env, reader
<1>9. CASE UNCHANGED vars
  BY <1>9 DEF vars, TypeInv, TypeOK, HandsOK, AtMostOne
<1> QED
  BY <1>1, <1>2, <1>3, <1>4, <1>5, <1>6, <1>7, <1>8, <1>9
  DEF Next, Reader, Processor

\* The type invariant of the server: in particular the channel never holds
\* more than queue_size packets.
THEOREM TypeCorrect == Spec => []TypeOK
<1>1. TypeInv => TypeOK
  BY DEF TypeInv
<1> QED BY <1>1, TypeInit, TypeStep, PTL DEF Spec

-----------------------------------------------------------------------------
(* Buffers.                                                                *)

LEMMA BufferInit == Init => BufferInv
BY DogStatsDAssumption
DEF Init, BufferInv, BuffersAccounted, BufferDebt, BufferBound, ReaderHolds, ProcHolds

\* The arithmetic facts of the type invariant.
LEMMA Numbers ==
  TypeInv => /\ pool \in Nat /\ allocated \in Nat /\ QueueSize \in Nat
             /\ Len(queue) \in Nat /\ Len(queue) <= QueueSize
BY DogStatsDAssumption DEF TypeInv, TypeOK

\* A datagram taken from the socket moves the reader's buffer into a packet
\* or, when it is empty, back to the pool.
LEMMA ReceiveBuffers ==
  ASSUME TypeInv, BufferInv, rpc \in {"read", "try"}, NEW a \in {"first", "try"},
         NEW b \in {"top", "more"}, Receive(a, b)
  PROVE  BufferInv'
<1> USE Numbers DEF BufferInv, BuffersAccounted,
        BufferDebt, BufferBound, ReaderHolds, ProcHolds, RxClosed, proc
<1>0. UNCHANGED <<allocated, queue, ppc>>
  BY DEF Receive
<1>1. CASE Lines[Head(socket)] = <<>>
  <2>1. rpc' = b /\ pool' = pool + 1
    BY <1>1 DEF Receive
  <2> QED BY <1>0, <2>1
<1>2. CASE Lines[Head(socket)] # <<>>
  <2>1. rpc' = a /\ pool' = pool
    BY <1>2 DEF Receive
  <2> QED BY <1>0, <2>1
<1> QED BY <1>1, <1>2

\* try_send_packet moves the buffer into the queue or back to the pool.
LEMMA TrySendBuffers ==
  ASSUME TypeInv, BufferInv, rpc \in {"first", "try"}, rpkt # <<>>, NEW a \in {"more"},
         NEW b \in {"done", "check"}, TrySendPacket(a, b)
  PROVE  BufferInv'
<1> USE Numbers DEF BufferInv, BuffersAccounted,
        BufferDebt, BufferBound, ReaderHolds, ProcHolds, RxClosed, proc
<1>1. Head(rpkt) \in Packets
  BY DEF TypeInv, TypeOK
<1>2. UNCHANGED <<allocated, ppc>>
  BY DEF TrySendPacket
<1>3. CASE SendAccepted(a)
  <2>1. Len(queue') = Len(queue) + 1
    BY <1>1, <1>3 DEF SendAccepted, TypeInv, TypeOK
  <2>2. /\ ppc # "done" /\ rpc' = a /\ pool' = pool
        /\ Len(queue') <= QueueSize
    BY <1>3, <2>1 DEF SendAccepted
  <2> QED BY <1>2, <2>1, <2>2, SMTT(60)
<1>4. CASE SendFull(a)
  BY <1>2, <1>4 DEF SendFull
<1>5. CASE SendClosed(b)
  BY <1>2, <1>5 DEF SendClosed
<1> QED BY <1>3, <1>4, <1>5 DEF TrySendPacket

\* Every step preserves the accounting of buffers.
LEMMA BufferStep == TypeInv /\ BufferInv /\ [Next]_vars => BufferInv'
<1> SUFFICES ASSUME TypeInv, BufferInv, [Next]_vars PROVE BufferInv'
  OBVIOUS
<1> USE Numbers
<1>1. CASE \E p \in Packets : Send(p)
  BY <1>1 DEF Send, reader, proc, BufferInv, BuffersAccounted, BufferDebt,
     BufferBound, ReaderHolds, ProcHolds, RxClosed
<1>2. CASE Cancel
  BY <1>2 DEF Cancel, reader, proc, BufferInv, BuffersAccounted, BufferDebt,
     BufferBound, ReaderHolds, ProcHolds, RxClosed
<1>3. CASE ReadError \/ ReaderTop \/ ReadCancelled \/ DrainTake \/ DrainEmpty \/ CheckClosed
  <2> USE DEF BufferInv, BuffersAccounted, BufferDebt,
          BufferBound, ReaderHolds, ProcHolds, RxClosed, env, proc
  <2>1. CASE ReadError
    <3>1. rpc = "read" /\ UNCHANGED <<allocated, queue, ppc>>
      BY <2>1 DEF ReadError
    <3>2. CASE rpc' = "done"
      BY <3>1, <3>2
    <3>3. CASE rpc' = "top" /\ pool' = pool + 1
      <4>1. ReaderHolds = 1 /\ ReaderHolds' = 0 /\ ProcHolds' = ProcHolds
        BY <3>1, <3>3
      <4>2. ProcHolds \in Nat /\ Len(queue') = Len(queue)
        BY <3>1
      <4> HIDE DEF ReaderHolds, ProcHolds
      <4>3. BuffersAccounted'
        BY <3>1, <3>3, <4>1, <4>2
      <4>4. BufferDebt' /\ BufferBound'
        BY <3>1, <3>3, <4>1
      <4> QED BY <4>3, <4>4
    <3> QED BY <2>1, <3>2, <3>3 DEF ReadError
  <2>2. CASE ReaderTop
    BY <2>2 DEF ReaderTop, TakeBuffer
  <2>3. CASE ReadCancelled
    BY <2>3 DEF ReadCancelled
  <2>4. CASE DrainTake
    BY <2>4 DEF DrainTake, TakeBuffer
  <2>5. CASE DrainEmpty
    BY <2>5, SMTT(60) DEF DrainEmpty
  <2>6. CASE CheckClosed
    BY <2>6 DEF CheckClosed
  <2> QED BY <1>3, <2>1, <2>2, <2>3, <2>4, <2>5, <2>6
<1>4. CASE ReadInto \/ DrainRead
  BY <1>4, ReceiveBuffers DEF ReadInto, DrainRead
<1>5. CASE SendFirst \/ SendDrained
  <2>1. rpkt # <<>>
    BY <1>5 DEF SendFirst, SendDrained, TypeInv, HandsOK
  <2> QED BY <1>5, <2>1, TrySendBuffers DEF SendFirst, SendDrained
<1>6. CASE Recv \/ Drain
  <2>1. queue \in Seq(Packets) /\ queue # <<>> /\ queue' = Tail(queue)
    BY <1>6 DEF Recv, Drain, TakePacket, TypeInv, TypeOK
  <2>2. Len(queue') = Len(queue) - 1
    BY <2>1
  <2>3. /\ ppc \in {"recv", "drain"} /\ ppc' \in {"work", "drainwork"}
        /\ UNCHANGED <<rpc, pool, allocated>>
    BY <1>6 DEF Recv, Drain, TakePacket, reader
  <2> QED BY <2>1, <2>2, <2>3 DEF BufferInv, BuffersAccounted,
          BufferDebt, BufferBound, ReaderHolds, ProcHolds, RxClosed
<1>7. CASE RecvNone \/ RecvCancelled \/ DrainDone \/ DropReceiver
  <2> USE DEF BufferInv, BuffersAccounted, BufferDebt,
          BufferBound, ReaderHolds, ProcHolds, RxClosed, env, reader
  <2>1. CASE RecvNone
    BY <2>1 DEF RecvNone
  <2>2. CASE RecvCancelled
    BY <2>2 DEF RecvCancelled
  <2>3. CASE DrainDone
    BY <2>3 DEF DrainDone
  <2>4. CASE DropReceiver
    BY <2>4 DEF DropReceiver
  <2> QED BY <1>7, <2>1, <2>2, <2>3, <2>4
<1>8. CASE ProcessPacket
  <2>1. /\ ppc \in {"work", "drainwork"} /\ ppc' \in {"recv", "drain"}
        /\ UNCHANGED <<rpc, queue, allocated>>
    BY <1>8 DEF ProcessPacket, reader
  <2>2. (rpc = "done" /\ pool' = pool) \/ (rpc # "done" /\ pool' = pool + 1)
    BY <1>8 DEF ProcessPacket, PoolAfterReturn
  <2> QED BY <2>1, <2>2, SMTT(60) DEF BufferInv, BuffersAccounted, BufferDebt, BufferBound,
          ReaderHolds, ProcHolds, RxClosed
<1>9. CASE UNCHANGED vars
  BY <1>9 DEF vars, BufferInv, BuffersAccounted, BufferDebt, BufferBound,
     ReaderHolds, ProcHolds, RxClosed
<1> QED
  BY <1>1, <1>2, <1>3, <1>4, <1>5, <1>6, <1>7, <1>8, <1>9
  DEF Next, Reader, Processor

\* Whatever the queue size, the reader never has more than queue_size + 2
\* buffers, and leaks none while the server runs.
THEOREM BuffersBounded == Spec => [](BuffersAccounted /\ BufferBound)
<1>1. Init => TypeInv /\ BufferInv
  BY TypeInit, BufferInit
<1>2. TypeInv /\ BufferInv /\ [Next]_vars => (TypeInv /\ BufferInv)'
  BY TypeStep, BufferStep
<1>3. BufferInv => BuffersAccounted /\ BufferBound
  BY DEF BufferInv
<1> QED BY <1>1, <1>2, <1>3, PTL DEF Spec

-----------------------------------------------------------------------------
(* Order and completeness.                                                 *)

LEMMA AppendConcat ==
  ASSUME NEW S, NEW s \in Seq(S), NEW t \in Seq(S), NEW x \in S
  PROVE  s \o Append(t, x) = Append(s \o t, x)
<1>1. Append(t, x) = t \o <<x>> /\ <<x>> \in Seq(S) /\ s \o t \in Seq(S)
  BY AppendIsConcat
<1>2. Append(s \o t, x) = (s \o t) \o <<x>>
  BY <1>1, AppendIsConcat
<1> QED BY <1>1, <1>2, ConcatAssociative

LEMMA HeadConcatTail ==
  ASSUME NEW S, NEW s \in Seq(S), s # <<>>
  PROVE  s = <<Head(s)>> \o Tail(s)
<1>1. Head(s) = s[1] /\ <<Head(s)>> \in Seq(S) /\ Len(s) \in Nat \ {0}
  OBVIOUS
<1>2. SubSeq(s, 1, Len(s)) = <<s[1]>> \o SubSeq(s, 2, Len(s))
  BY <1>1, SubSeqRecursiveFirst
<1> QED BY <1>1, <1>2, SubSeqFull, TailIsSubSeq

LEMMA ConcatPrefix ==
  ASSUME NEW S, NEW s \in Seq(S), NEW t \in Seq(S)
  PROVE  IsPrefixOf(s, s \o t)
BY ConcatProperties DEF IsPrefixOf

\* A sequence of at most one element is empty or a singleton.
LEMMA Singleton ==
  ASSUME NEW S, NEW s \in Seq(S), Len(s) <= 1, s # <<>>
  PROVE  s = <<Head(s)>> /\ Len(s) = 1
<1>1. Len(s) = 1 /\ Head(s) = s[1] /\ Head(s) \in S
  OBVIOUS
<1>2. <<Head(s)>> \in Seq(S) /\ Len(<<Head(s)>>) = 1 /\ <<Head(s)>>[1] = Head(s)
  BY <1>1
<1> QED BY <1>1, <1>2, SeqEqual

LEMMA OrderInit == Init => OrderInv
<1> SUFFICES ASSUME Init PROVE OrderInv
  OBVIOUS
<1>1. <<>> \o <<>> \o <<>> = <<>>
  OBVIOUS
<1> QED BY <1>1 DEF Init, OrderInv, InOrderNoLoss, EveryReadCounted, QuietClose,
        LossOnlyAfterCancel, IsPrefixOf, RxClosed

\* The channel accepts the packet in the reader's hands.
LEMMA SendAcceptedOrder ==
  ASSUME TypeInv, OrderInv, rpkt # <<>>, NEW a \in {"more"}, SendAccepted(a),
         rpkt' = <<>>, UNCHANGED <<cancelled, ppc, ppkt, processed, got>>
  PROVE  OrderInv'
<1> USE DEF TypeInv, TypeOK, AtMostOne, OrderInv
<1>1. Head(rpkt) \in Packets /\ Len(rpkt) = 1 /\ processed \o ppkt \in Seq(Packets)
  BY Singleton, ConcatProperties
<1>2. /\ ~RxClosed /\ ~RxClosed' /\ queue' = Append(queue, Head(rpkt))
      /\ accepted' = Append(accepted, Head(rpkt)) /\ dropped' = dropped
  BY DEF SendAccepted, RxClosed
<1>3. accepted' = (processed \o ppkt) \o queue'
  BY <1>1, <1>2, AppendConcat, SMTT(60) DEF InOrderNoLoss
<1>4. InOrderNoLoss'
  <2>1. IsPrefixOf(processed, accepted')
    BY <1>1, <1>2, AppendProperties DEF InOrderNoLoss, IsPrefixOf
  <2> QED BY <1>2, <1>3, <2>1 DEF InOrderNoLoss, IsPrefixOf
<1>5. EveryReadCounted'
  <2>1. Len(accepted') = Len(accepted) + 1 /\ Len(rpkt') = 0
    BY <1>1, <1>2, AppendProperties
  <2> QED BY <1>1, <1>2, <2>1 DEF EveryReadCounted
<1>6. QuietClose'
  BY <1>2 DEF QuietClose, RxClosed, SendAccepted, HandsOK
<1> QED BY <1>2, <1>4, <1>5, <1>6 DEF LossOnlyAfterCancel

\* try_send_packet in its three outcomes.
LEMMA TrySendOrder ==
  ASSUME TypeInv, OrderInv, rpkt # <<>>, NEW a \in {"more"}, NEW b \in {"done", "check"},
         TrySendPacket(a, b)
  PROVE  OrderInv'
<1>1. rpkt' = <<>> /\ UNCHANGED <<cancelled, ppc, ppkt, processed, got>>
  BY DEF TrySendPacket, env, proc
<1>2. CASE SendAccepted(a)
  BY <1>1, <1>2, SendAcceptedOrder
<1>3. CASE SendFull(a)
  <2>1. Len(rpkt) = 1 /\ Len(rpkt') = 0 /\ Len(got) \in Nat /\ Len(accepted) \in Nat
    BY <1>1, Singleton DEF TypeInv, TypeOK, AtMostOne
  <2>2. ~RxClosed /\ UNCHANGED <<queue, accepted>> /\ dropped' = dropped + 1 /\ dropped \in Nat
    BY <1>3 DEF SendFull, TypeInv, TypeOK
  <2>3. EveryReadCounted'
    BY <1>1, <2>1, <2>2 DEF EveryReadCounted, OrderInv, RxClosed
  <2>4. rpc # "done"
    BY DEF TypeInv, HandsOK
  <2> QED BY <1>1, <2>2, <2>3, <2>4 DEF OrderInv, InOrderNoLoss, QuietClose,
          LossOnlyAfterCancel, RxClosed, IsPrefixOf
<1>4. CASE SendClosed(b)
  <2>1. RxClosed /\ UNCHANGED <<queue, dropped, accepted>> /\ rpc # "done"
    BY <1>4 DEF SendClosed, TypeInv, HandsOK
  <2> QED BY <1>1, <2>1 DEF OrderInv, InOrderNoLoss, EveryReadCounted, QuietClose,
          LossOnlyAfterCancel, RxClosed, IsPrefixOf
<1> QED BY <1>2, <1>3, <1>4 DEF TrySendPacket

\* A datagram is read: it is in the reader's hands, nothing else moves.
LEMMA ReceiveOrder ==
  ASSUME TypeInv, OrderInv, rpkt = <<>>, rpc # "done", NEW a, NEW b, Receive(a, b)
  PROVE  OrderInv'
<1>1. UNCHANGED <<cancelled, queue, ppc, ppkt, processed, accepted, dropped>>
  BY DEF Receive, proc
<1>2. Len(got') - Len(rpkt') = Len(got) - Len(rpkt)
  <2>1. socket # <<>> /\ Head(socket) \in Packets /\ got \in Seq(Packets)
    BY DEF Receive, TypeInv, TypeOK
  <2>2. CASE Lines[Head(socket)] = <<>>
    BY <2>2 DEF Receive
  <2>3. CASE Lines[Head(socket)] # <<>>
    <3>1. got' = Append(got, Head(socket)) /\ rpkt' = <<Head(socket)>>
      BY <2>3 DEF Receive
    <3>2. Len(got') = Len(got) + 1 /\ Len(rpkt') = 1 /\ Len(rpkt) = 0
      BY <2>1, <3>1, AppendProperties
    <3> QED BY <2>1, <3>2
  <2> QED BY <2>2, <2>3
<1>3. EveryReadCounted'
  <2>1. /\ Len(got) \in Nat /\ Len(got') \in Nat /\ Len(rpkt) \in Nat
        /\ Len(rpkt') \in Nat /\ Len(accepted) \in Nat /\ dropped \in Nat
    <3>1. TypeOK
      BY DEF TypeInv
    <3>2. got' \in Seq(Packets) /\ rpkt' \in Seq(Packets)
      <4>1. Head(socket) \in Packets
        BY <3>1 DEF Receive, TypeOK
      <4>2. (rpkt' = rpkt /\ got' = got) \/ (rpkt' = <<Head(socket)>> /\ got' = Append(got, Head(socket)))
        BY DEF Receive
      <4>3. <<Head(socket)>> \in Seq(Packets) /\ Append(got, Head(socket)) \in Seq(Packets)
        BY <3>1, <4>1 DEF TypeOK
      <4> QED BY <3>1, <4>2, <4>3 DEF TypeOK
    <3> QED BY <3>1, <3>2 DEF TypeOK
  <2> QED BY <1>1, <1>2, <2>1 DEF EveryReadCounted, OrderInv, RxClosed
<1> QED BY <1>1, <1>3 DEF OrderInv, InOrderNoLoss, QuietClose, LossOnlyAfterCancel,
        RxClosed, IsPrefixOf

\* A packet moves from the channel to the processor.
LEMMA TakePacketOrder ==
  ASSUME TypeInv, OrderInv, ppkt = <<>>, ppc \in {"recv", "drain"},
         NEW a \in {"work", "drainwork"}, a = "work" \/ cancelled, TakePacket(a)
  PROVE  OrderInv'
<1>1. /\ queue # <<>> /\ queue' = Tail(queue) /\ ppkt' = <<Head(queue)>> /\ ppc' = a
      /\ UNCHANGED <<cancelled, processed, accepted, got, dropped, rpkt>>
  BY DEF TakePacket, env, reader
<1>2. queue \in Seq(Packets) /\ processed \in Seq(Packets) /\ Tail(queue) \in Seq(Packets)
      /\ <<Head(queue)>> \in Seq(Packets)
  BY <1>1 DEF TypeInv, TypeOK
<1>3. accepted = processed \o queue
  <2>1. accepted = (processed \o <<>>) \o queue
    BY DEF OrderInv, InOrderNoLoss, RxClosed
  <2> QED BY <1>2, <2>1, ConcatEmptySeq
<1>4. accepted = (processed \o <<Head(queue)>>) \o Tail(queue)
  BY <1>1, <1>2, <1>3, HeadConcatTail, ConcatAssociative, SMTT(60)
<1> QED BY <1>1, <1>4 DEF OrderInv, InOrderNoLoss, EveryReadCounted, QuietClose,
        LossOnlyAfterCancel, RxClosed, IsPrefixOf

\* The processor is done with a packet.
LEMMA ProcessPacketOrder ==
  ASSUME TypeInv, OrderInv, ProcessPacket
  PROVE  OrderInv'
<1>1. /\ ppkt' = <<>> /\ processed' = Append(processed, Head(ppkt))
      /\ ppc \in {"work", "drainwork"} /\ ppc' = IF ppc = "work" THEN "recv" ELSE "drain"
      /\ UNCHANGED <<cancelled, queue, accepted, got, dropped, rpkt>>
  BY DEF ProcessPacket, env, reader
<1>2. /\ queue \in Seq(Packets) /\ processed \in Seq(Packets) /\ Head(ppkt) \in Packets
      /\ ppkt = <<Head(ppkt)>>
  BY <1>1, Singleton DEF TypeInv, TypeOK, HandsOK, AtMostOne
<1>3. accepted = Append(processed, Head(ppkt)) \o queue
  <2>1. accepted = (processed \o <<Head(ppkt)>>) \o queue
    BY <1>1, <1>2 DEF OrderInv, InOrderNoLoss, RxClosed
  <2> QED BY <1>2, <2>1, AppendIsConcat
<1>4. Append(processed, Head(ppkt)) \in Seq(Packets)
  BY <1>2
<1>5. accepted' = (processed' \o ppkt') \o queue'
  BY <1>1, <1>3, <1>4, ConcatEmptySeq
<1>6. IsPrefixOf(processed', accepted')
  BY <1>1, <1>2, <1>3, <1>4, ConcatPrefix
<1> QED BY <1>1, <1>5, <1>6 DEF OrderInv, InOrderNoLoss, EveryReadCounted, QuietClose,
        LossOnlyAfterCancel, RxClosed

\* Every step preserves order and completeness.
LEMMA OrderStep == TypeInv /\ OrderInv /\ [Next]_vars => OrderInv'
<1> SUFFICES ASSUME TypeInv, OrderInv, [Next]_vars PROVE OrderInv'
  OBVIOUS
<1> DEFINE Same == UNCHANGED <<queue, ppkt, processed, got, accepted, dropped, rpkt>>
<1>0. ASSUME Same, UNCHANGED <<cancelled, ppc>>, rpc = "done" => rpc' = "done"
      PROVE  OrderInv'
  BY <1>0 DEF OrderInv, InOrderNoLoss, EveryReadCounted, QuietClose,
     LossOnlyAfterCancel, RxClosed, IsPrefixOf
<1>1. CASE \E p \in Packets : Send(p)
  BY <1>0, <1>1 DEF Send, reader, proc
<1>2. CASE Cancel
  BY <1>2 DEF Cancel, reader, proc, OrderInv, InOrderNoLoss, EveryReadCounted,
     QuietClose, LossOnlyAfterCancel, RxClosed, IsPrefixOf
<1>3. CASE ReadError \/ ReaderTop \/ ReadCancelled \/ DrainTake \/ DrainEmpty \/ CheckClosed
  <2>1. Same /\ UNCHANGED <<cancelled, ppc>> /\ rpc # "done"
    BY <1>3 DEF ReadError, ReaderTop, ReadCancelled, DrainTake, DrainEmpty, CheckClosed, env, proc
  <2> QED BY <1>0, <2>1
<1>4. CASE ReadInto \/ DrainRead
  <2>1. rpkt = <<>> /\ rpc # "done"
    BY <1>4 DEF ReadInto, DrainRead, TypeInv, HandsOK
  <2> QED BY <1>4, <2>1, ReceiveOrder DEF ReadInto, DrainRead
<1>5. CASE SendFirst \/ SendDrained
  <2>1. rpkt # <<>>
    BY <1>5 DEF SendFirst, SendDrained, TypeInv, HandsOK
  <2> QED BY <1>5, <2>1, TrySendOrder DEF SendFirst, SendDrained
<1>6. CASE Recv \/ Drain
  <2>1. ppkt = <<>>
    BY <1>6 DEF Recv, Drain, TypeInv, HandsOK
  <2>2. ppc = "drain" => cancelled
    BY DEF OrderInv, QuietClose
  <2> QED BY <1>6, <2>1, <2>2, TakePacketOrder DEF Recv, Drain
<1>7. CASE RecvNone \/ RecvCancelled \/ DrainDone
  <2>1. Same /\ UNCHANGED <<cancelled, rpc>> /\ ppc \in {"recv", "drain"} /\ ppc' # "done"
    BY <1>7 DEF RecvNone, RecvCancelled, DrainDone, env, reader
  <2>2. QuietClose'
    BY <1>7, <2>1 DEF RecvNone, RecvCancelled, DrainDone, OrderInv, QuietClose
  <2> QED BY <2>1, <2>2 DEF OrderInv, InOrderNoLoss, EveryReadCounted,
          LossOnlyAfterCancel, RxClosed, IsPrefixOf
<1>8. CASE ProcessPacket
  BY <1>8, ProcessPacketOrder
<1>9. CASE DropReceiver
  <2>1. /\ ppc = "closing" /\ ppc' = "done"
        /\ UNCHANGED <<cancelled, rpc, rpkt, ppkt, processed, accepted, got, dropped>>
    BY <1>9 DEF DropReceiver, env, reader
  <2>2. InOrderNoLoss' /\ EveryReadCounted'
    BY <2>1 DEF OrderInv, InOrderNoLoss, EveryReadCounted, RxClosed, IsPrefixOf
  <2>3. QuietClose'
    BY <1>9, <2>1 DEF DropReceiver, OrderInv, QuietClose
  <2>4. ASSUME ~cancelled
        PROVE  processed = accepted /\ Len(got) = Len(processed) + dropped
    <3>1. queue = <<>> /\ rpc = "done" /\ ppkt = <<>> /\ rpkt = <<>>
      BY <2>1, <2>4 DEF OrderInv, QuietClose, TypeInv, HandsOK
    <3>2. accepted = (processed \o <<>>) \o <<>> /\ Len(got) = Len(accepted) + dropped + 0
      BY <2>1, <3>1 DEF OrderInv, InOrderNoLoss, EveryReadCounted, RxClosed
    <3>3. processed \in Seq(Packets) /\ accepted \in Seq(Packets) /\ dropped \in Nat
      BY DEF TypeInv, TypeOK
    <3>4. accepted = processed
      BY <3>2, <3>3, ConcatEmptySeq
    <3> QED BY <3>2, <3>3, <3>4
  <2> QED BY <2>1, <2>2, <2>3, <2>4 DEF OrderInv, LossOnlyAfterCancel, RxClosed
<1>10. CASE UNCHANGED vars
  BY <1>0, <1>10 DEF vars
<1> QED
  BY <1>1, <1>2, <1>3, <1>4, <1>5, <1>6, <1>7, <1>8, <1>9, <1>10
  DEF Next, Reader, Processor

LEMMA OrderInvariant == Spec => []OrderInv
<1>1. Init => TypeInv /\ OrderInv
  BY TypeInit, OrderInit
<1>2. TypeInv /\ OrderInv /\ [Next]_vars => (TypeInv /\ OrderInv)'
  BY TypeStep, OrderStep
<1> QED BY <1>1, <1>2, PTL DEF Spec

\* For every traffic and queue size, packets reach the parser in the order
\* in which the reader queued them, none lost or duplicated, and every
\* datagram read is accepted or counted, as long as the server runs.
THEOREM PacketsInOrder == Spec => [](InOrderNoLoss /\ EveryReadCounted)
<1>1. OrderInv => InOrderNoLoss /\ EveryReadCounted
  BY DEF OrderInv
<1> QED BY <1>1, OrderInvariant, PTL

\* A server that was not cancelled returns from `spin` only after everything
\* it read was processed or counted as dropped.
THEOREM NoLossWithoutCancel == Spec => []LossOnlyAfterCancel
<1>1. OrderInv => LossOnlyAfterCancel
  BY DEF OrderInv
<1> QED BY <1>1, OrderInvariant, PTL

-----------------------------------------------------------------------------
(***************************************************************************)
(* DogStatsD implements LossyQueue, for every set of packets and every     *)
(* queue size.  The items pending in the abstract queue are the packet the *)
(* processor holds, the channel, the packet the reader holds and the       *)
(* socket, in this order; a packet that goes from one of these places to   *)
(* the next does not change the concatenation, and every other step takes  *)
(* a packet out of it in a way the abstract queue allows.                  *)
(***************************************************************************)


-----------------------------------------------------------------------------
(* Sequences.                                                              *)

\* The tail of a concatenation, as a subsequence.
LEMMA SuffixOfConcat ==
  ASSUME NEW S, NEW s \in Seq(S), NEW t \in Seq(S)
  PROVE  SubSeq(s \o t, Len(s) + 1, Len(s \o t)) = t
<1>1. Len(s \o t) = Len(s) + Len(t) /\ Len(s) \in Nat /\ Len(t) \in Nat
  BY ConcatProperties
<1>2. CASE t = <<>>
  BY <1>1, <1>2, SubSeqEmpty
<1>3. CASE t # <<>>
  <2>1. Len(t) > 0
    BY <1>3
  <2>2. SubSeq(s \o t, Len(s) + 1, Len(s) + Len(t))
          = SubSeq(t, Len(s) + 1 - Len(s), Len(s) + Len(t) - Len(s))
    BY <1>1, <2>1, SubSeqOfConcat2
  <2>3. SubSeq(t, Len(s) + 1 - Len(s), Len(s) + Len(t) - Len(s)) = SubSeq(t, 1, Len(t))
    BY <1>1
  <2> QED BY <1>1, <2>2, <2>3, SubSeqFull
<1> QED BY <1>2, <1>3

\* Its front.
LEMMA PrefixOfConcat ==
  ASSUME NEW S, NEW s \in Seq(S), NEW t \in Seq(S)
  PROVE  SubSeq(s \o t, 1, Len(s)) = s
<1>1. CASE s = <<>>
  BY <1>1, SubSeqEmpty
<1>2. CASE s # <<>>
  <2>1. 1 \in 1 .. Len(s) /\ Len(s) \in 1 .. Len(s)
    BY <1>2
  <2> QED BY <2>1, SubSeqOfConcat1, SubSeqFull
<1> QED BY <1>1, <1>2

\* The definition of Without, for any sequence and place.
LEMMA WithoutIs ==
  ASSUME NEW q, NEW k
  PROVE  Promise!Without(q, k) = SubSeq(q, 1, k - 1) \o SubSeq(q, k + 1, Len(q))
BY DEF Promise!Without

\* Taking out the element between s and t leaves s and t.
LEMMA WithoutMiddle ==
  ASSUME NEW S, NEW s \in Seq(S), NEW t \in Seq(S), NEW x \in S
  PROVE  LET all == s \o <<x>> \o t IN
         /\ Promise!Without(all, Len(s) + 1) = s \o t
         /\ all[Len(s) + 1] = x
         /\ Len(s) + 1 \in 1 .. Len(all)
<1> DEFINE all == s \o <<x>> \o t
<1>1. /\ <<x>> \in Seq(S) /\ Len(<<x>>) = 1 /\ Len(s) \in Nat /\ Len(t) \in Nat
      /\ s \o <<x>> \in Seq(S) /\ <<x>> \o t \in Seq(S)
  BY ConcatProperties
<1>2. Len(s \o <<x>>) = Len(s) + 1 /\ Len(all) = Len(s) + 1 + Len(t)
  BY <1>1, ConcatProperties
<1>3. all = s \o (<<x>> \o t)
  BY <1>1, ConcatAssociative
<1>4. SubSeq(all, 1, Len(s)) = s
  BY <1>1, <1>3, PrefixOfConcat
<1>5. SubSeq(all, Len(s) + 1 + 1, Len(all)) = t
  BY <1>1, <1>2, SuffixOfConcat
<1>6. Len(s) + 1 - 1 = Len(s)
  BY <1>1
<1>7. Promise!Without(all, Len(s) + 1) = s \o t
  <2> DEFINE k == Len(s) + 1
  <2>1. SubSeq(all, 1, k - 1) = s /\ SubSeq(all, k + 1, Len(all)) = t
    BY <1>1, <1>4, <1>5, <1>6
  <2> HIDE DEF all, k
  <2>2. Promise!Without(all, k) = s \o t
    BY <2>1, WithoutIs
  <2> QED BY <2>2 DEF k
<1>8. all[Len(s) + 1] = x
  <2>1. (s \o <<x>>)[Len(s) + 1] = x
    BY <1>1, <1>2, ConcatProperties
  <2> QED BY <1>1, <1>2, <2>1, ConcatProperties
<1> QED BY <1>1, <1>2, <1>7, <1>8

-----------------------------------------------------------------------------
(* The steps.                                                              *)

\* The types of the four places.
LEMMA PlacesType ==
  ASSUME TypeInv
  PROVE  /\ ppkt \in Seq(Packets) /\ queue \in Seq(Packets)
         /\ rpkt \in Seq(Packets) /\ socket \in Seq(Packets)
         /\ ppkt \o queue \in Seq(Packets)
         /\ ppkt \o queue \o rpkt \in Seq(Packets)
         /\ InFlight \in Seq(Packets)
BY ConcatProperties DEF TypeInv, TypeOK, InFlight

\* What a step the abstract queue does not see leaves alone.
Unseen ==
  /\ InFlight' = InFlight
  /\ UNCHANGED <<unsent, processed, dropped, cancelled>> /\ RxClosed' = RxClosed

\* A client sends.
LEMMA SendRefines ==
  ASSUME TypeInv, NEW p \in Packets, Send(p)
  PROVE  Promise!Next
<1>1. /\ p \in unsent /\ unsent' = unsent \ {p} /\ socket' = Append(socket, p)
      /\ UNCHANGED <<cancelled, ppkt, queue, rpkt, processed, dropped, ppc>>
  BY DEF Send, reader, proc
<1>2. InFlight' = Append(InFlight, p)
  BY <1>1, PlacesType, AppendConcat DEF InFlight
<1>3. Promise!Send(p)
  BY <1>1, <1>2 DEF Promise!Send, RxClosed
<1> QED BY <1>3 DEF Promise!Next

\* The reader takes a datagram from the socket: its place does not change
\* unless it is empty.
LEMMA ReceiveRefines ==
  ASSUME TypeInv, rpkt = <<>>, NEW a, NEW b, Receive(a, b)
  PROVE  Unseen \/ Promise!Next
<1> DEFINE front == ppkt \o queue
           h == Head(socket)
<1>1. /\ socket # <<>> /\ socket' = Tail(socket)
      /\ UNCHANGED <<unsent, cancelled, dropped, queue, ppkt, ppc, processed>>
  BY DEF Receive, proc
<1>2. /\ front \in Seq(Packets) /\ h \in Packets /\ Tail(socket) \in Seq(Packets)
      /\ socket = <<h>> \o Tail(socket) /\ <<h>> \in Seq(Packets)
  BY <1>1, PlacesType, HeadConcatTail
<1>3. InFlight = front \o <<h>> \o Tail(socket)
  <2>1. InFlight = front \o socket
    BY <1>2, ConcatEmptySeq DEF InFlight
  <2> QED BY <1>2, <2>1, ConcatAssociative, SMTT(60)
<1>4. CASE Lines[h] = <<>>
  <2>1. rpkt' = <<>>
    BY <1>4 DEF Receive
  <2>2. InFlight' = front \o Tail(socket)
    BY <1>1, <1>2, <2>1, ConcatEmptySeq DEF InFlight
  <2>3. /\ InFlight' = Promise!Without(InFlight, Len(front) + 1)
        /\ InFlight[Len(front) + 1] = h /\ Len(front) + 1 \in 1 .. Len(InFlight)
    <3>1. /\ Promise!Without(front \o <<h>> \o Tail(socket), Len(front) + 1)
               = front \o Tail(socket)
          /\ (front \o <<h>> \o Tail(socket))[Len(front) + 1] = h
          /\ Len(front) + 1 \in 1 .. Len(front \o <<h>> \o Tail(socket))
      BY <1>2, WithoutMiddle
    <3> QED BY <1>3, <2>2, <3>1
  <2>4. Promise!Skip(Len(front) + 1)
    BY <1>1, <1>2, <1>4, <2>3 DEF Promise!Skip, RxClosed
  <2> QED BY <2>3, <2>4 DEF Promise!Next
<1>5. CASE Lines[h] # <<>>
  <2>1. rpkt' = <<h>>
    BY <1>5 DEF Receive
  <2> QED BY <1>1, <1>3, <2>1 DEF InFlight, Unseen, RxClosed
<1> QED BY <1>4, <1>5

\* try_send_packet: the packet moves on, overflows the channel, or is lost in
\* a channel that only a cancelled server has closed.
LEMMA TrySendRefines ==
  ASSUME TypeInv, OrderInv, rpkt # <<>>, NEW a, NEW b, TrySendPacket(a, b)
  PROVE  Unseen \/ Promise!Next
<1> DEFINE front == ppkt \o queue
           h == Head(rpkt)
<1>1. rpkt' = <<>> /\ UNCHANGED <<unsent, socket, cancelled, ppc, ppkt, processed>>
  BY DEF TrySendPacket, env, proc
<1>2. /\ front \in Seq(Packets) /\ socket \in Seq(Packets) /\ ppkt \in Seq(Packets)
      /\ queue \in Seq(Packets) /\ h \in Packets /\ rpkt = <<h>>
  BY PlacesType, Singleton DEF TypeInv, TypeOK, AtMostOne
<1>3. InFlight = front \o <<h>> \o socket
  BY <1>2 DEF InFlight
<1>4. /\ Promise!Without(InFlight, Len(front) + 1) = front \o socket
      /\ Len(front) + 1 \in 1 .. Len(InFlight)
  BY <1>2, <1>3, WithoutMiddle, ZenonT(60)
<1>5. queue' = queue => InFlight' = front \o socket
  BY <1>1, <1>2, ConcatEmptySeq DEF InFlight
<1>6. CASE SendAccepted(a)
  <2>1. queue' = Append(queue, h) /\ UNCHANGED dropped
    BY <1>6 DEF SendAccepted
  <2>2. ppkt \o queue' = front \o <<h>> /\ ppkt \o queue' \in Seq(Packets)
    BY <1>2, <2>1, AppendConcat, AppendIsConcat
  <2>3. InFlight' = InFlight
    BY <1>1, <1>3, <2>2, ConcatEmptySeq DEF InFlight
  <2> QED BY <1>1, <2>1, <2>3 DEF Unseen, RxClosed
<1>7. CASE SendFull(a)
  <2>1. ~RxClosed /\ Len(queue) >= QueueSize /\ dropped' = dropped + 1 /\ queue' = queue
    BY <1>7 DEF SendFull
  <2>2. Len(front) + 1 > QueueSize
    <3>1. Len(front) = Len(ppkt) + Len(queue) /\ Len(ppkt) \in Nat /\ Len(queue) \in Nat
      BY <1>2, ConcatProperties
    <3> QED BY <2>1, <3>1, DogStatsDAssumption
  <2>3. Promise!Overflow(Len(front) + 1)
    BY <1>1, <1>4, <1>5, <2>1, <2>2 DEF Promise!Overflow, RxClosed
  <2> QED BY <1>4, <2>3 DEF Promise!Next
<1>8. CASE SendClosed(b)
  <2>1. RxClosed /\ UNCHANGED <<queue, dropped>>
    BY <1>8 DEF SendClosed
  <2>2. cancelled
    BY <2>1 DEF RxClosed, OrderInv, QuietClose, TypeInv, HandsOK
  <2>3. Promise!Forget(Len(front) + 1)
    BY <1>1, <1>4, <1>5, <2>1, <2>2 DEF Promise!Forget, RxClosed
  <2> QED BY <1>4, <2>3 DEF Promise!Next
<1> QED BY <1>6, <1>7, <1>8 DEF TrySendPacket

\* A packet moves from the channel to the processor.
LEMMA TakePacketRefines ==
  ASSUME TypeInv, ppkt = <<>>, ppc # "done", NEW a, a # "done", TakePacket(a)
  PROVE  Unseen
<1>1. /\ queue # <<>> /\ queue' = Tail(queue) /\ ppkt' = <<Head(queue)>> /\ ppc' = a
      /\ UNCHANGED <<unsent, cancelled, processed, dropped, rpkt, socket>>
  BY DEF TakePacket, env, reader
<1>2. ppkt' \o queue' = ppkt \o queue
  BY <1>1, PlacesType, HeadConcatTail, ConcatEmptySeq
<1> QED BY <1>1, <1>2 DEF Unseen, InFlight, RxClosed

\* The processor is done with a packet.
LEMMA ProcessPacketRefines ==
  ASSUME TypeInv, ProcessPacket
  PROVE  Promise!Next
<1> DEFINE h == Head(ppkt)
           rest == queue \o rpkt \o socket
<1>1. /\ ppkt' = <<>> /\ processed' = Append(processed, h)
      /\ ppc \in {"work", "drainwork"} /\ ppc' # "done"
      /\ UNCHANGED <<unsent, cancelled, queue, rpkt, socket, dropped>>
  BY DEF ProcessPacket, env, reader
<1>2. h \in Packets /\ ppkt = <<h>>
  BY <1>1, Singleton DEF TypeInv, TypeOK, HandsOK, AtMostOne
<1>3. /\ queue \in Seq(Packets) /\ rpkt \in Seq(Packets) /\ socket \in Seq(Packets)
      /\ queue \o rpkt \in Seq(Packets) /\ rest \in Seq(Packets) /\ <<h>> \in Seq(Packets)
  BY <1>2, PlacesType, ConcatProperties
<1>4. InFlight = <<h>> \o rest
  <2>1. <<h>> \o queue \o rpkt = <<h>> \o (queue \o rpkt)
    BY <1>3, ConcatAssociative
  <2>2. <<h>> \o (queue \o rpkt) \o socket = <<h>> \o rest
    BY <1>3, ConcatAssociative
  <2> QED BY <1>2, <2>1, <2>2 DEF InFlight
<1>5. InFlight' = rest
  BY <1>1, <1>3, ConcatEmptySeq DEF InFlight
<1>6. InFlight # <<>> /\ Head(InFlight) = h /\ Tail(InFlight) = rest
  <2>1. /\ InFlight \in Seq(Packets) /\ Len(<<h>>) = 1 /\ Len(rest) \in Nat
        /\ Len(InFlight) = 1 + Len(rest) /\ InFlight[1] = h
    BY <1>3, <1>4, ConcatProperties
  <2>2. InFlight # <<>> /\ Head(InFlight) = h
    BY <2>1
  <2>3. SubSeq(InFlight, 2, Len(InFlight)) = rest
    <3>1. SubSeq(<<h>> \o rest, Len(<<h>>) + 1, Len(<<h>> \o rest)) = rest
      BY <1>3, SuffixOfConcat
    <3>2. Len(<<h>>) + 1 = 2
      BY <2>1
    <3> QED BY <1>4, <3>1, <3>2, Zenon
  <2> QED BY <2>1, <2>2, <2>3, TailIsSubSeq
<1>7. Promise!Deliver
  BY <1>1, <1>5, <1>6 DEF Promise!Deliver, RxClosed
<1> QED BY <1>7 DEF Promise!Next

\* The receiver is dropped, with what was queued since the last look.
LEMMA DropReceiverRefines ==
  ASSUME TypeInv, OrderInv, DropReceiver
  PROVE  Promise!Next
<1> DEFINE rest == rpkt \o socket
<1>1. /\ ppc = "closing" /\ ppc' = "done" /\ queue' = <<>>
      /\ UNCHANGED <<unsent, cancelled, ppkt, rpkt, socket, processed, dropped>>
  BY DEF DropReceiver, env, reader
<1>2. ppkt = <<>>
  BY <1>1 DEF TypeInv, HandsOK
<1>3. /\ queue \in Seq(Packets) /\ rpkt \in Seq(Packets) /\ socket \in Seq(Packets)
      /\ rest \in Seq(Packets)
  BY PlacesType, ConcatProperties
<1>4. InFlight = queue \o rest
  BY <1>2, <1>3, ConcatEmptySeq, ConcatAssociative DEF InFlight
<1>5. InFlight' = rest
  BY <1>1, <1>2, <1>3, ConcatEmptySeq DEF InFlight
<1>6. SubSeq(InFlight, Len(queue) + 1, Len(InFlight)) = rest
  BY <1>3, <1>4, SuffixOfConcat
<1>7. Len(queue) > 0 => cancelled
  BY <1>1 DEF OrderInv, QuietClose
<1>8. Len(queue) \in 0 .. Len(InFlight)
  BY <1>3, <1>4, ConcatProperties
<1>9. Promise!Stop(Len(queue))
  BY <1>1, <1>5, <1>6, <1>7 DEF Promise!Stop, RxClosed
<1> QED BY <1>8, <1>9 DEF Promise!Next

-----------------------------------------------------------------------------
(* The refinement.                                                         *)

\* The server starts with an empty queue.
LEMMA InitRefines == Init => Promise!Init
<1>1. <<>> \o <<>> \o <<>> \o <<>> = <<>>
  OBVIOUS
<1> QED BY <1>1 DEF Init, Promise!Init, InFlight, RxClosed

\* Every step of the server is a step of the abstract queue or is not seen.
LEMMA StepRefines == TypeInv /\ OrderInv /\ [Next]_vars => [Promise!Next]_(Promise!vars)
<1> SUFFICES ASSUME TypeInv, OrderInv, [Next]_vars PROVE Unseen \/ Promise!Next
  BY DEF Unseen, Promise!vars
<1>0. ASSUME UNCHANGED <<unsent, processed, dropped, cancelled, ppkt, queue, rpkt, socket>>,
             ppc = "done" <=> ppc' = "done"
      PROVE  Unseen
  BY <1>0 DEF Unseen, InFlight, RxClosed
<1>1. CASE \E p \in Packets : Send(p)
  BY <1>1, SendRefines
<1>2. CASE Cancel
  <2>1. cancelled' = TRUE /\ UNCHANGED <<unsent, processed, dropped, ppkt, queue, rpkt, socket, ppc>>
    BY <1>2 DEF Cancel, reader, proc
  <2>2. Promise!Cancel
    BY <2>1 DEF Promise!Cancel, InFlight, RxClosed
  <2> QED BY <2>2 DEF Promise!Next
<1>3. CASE ReadError \/ ReaderTop \/ ReadCancelled \/ DrainTake \/ DrainEmpty \/ CheckClosed
  BY <1>0, <1>3 DEF ReadError, ReaderTop, ReadCancelled, DrainTake, DrainEmpty,
     CheckClosed, env, proc
<1>4. CASE ReadInto \/ DrainRead
  <2>1. rpkt = <<>>
    BY <1>4 DEF ReadInto, DrainRead, TypeInv, HandsOK
  <2> QED BY <1>4, <2>1, ReceiveRefines DEF ReadInto, DrainRead
<1>5. CASE SendFirst \/ SendDrained
  <2>1. rpkt # <<>>
    BY <1>5 DEF SendFirst, SendDrained, TypeInv, HandsOK
  <2> QED BY <1>5, <2>1, TrySendRefines DEF SendFirst, SendDrained
<1>6. CASE Recv \/ Drain
  <2>1. ppkt = <<>> /\ ppc # "done"
    BY <1>6 DEF Recv, Drain, TypeInv, HandsOK
  <2> QED BY <1>6, <2>1, TakePacketRefines DEF Recv, Drain
<1>7. CASE RecvNone \/ RecvCancelled \/ DrainDone
  BY <1>0, <1>7 DEF RecvNone, RecvCancelled, DrainDone, env, reader
<1>8. CASE ProcessPacket
  BY <1>8, ProcessPacketRefines
<1>9. CASE DropReceiver
  BY <1>9, DropReceiverRefines
<1>10. CASE UNCHANGED vars
  BY <1>0, <1>10 DEF vars
<1> QED
  BY <1>1, <1>2, <1>3, <1>4, <1>5, <1>6, <1>7, <1>8, <1>9, <1>10
  DEF Next, Reader, Processor

\* For every traffic and queue size the server is a queue that loses packets
\* only when it is full or was cancelled, and never reorders or repeats one.
THEOREM QueueImplemented == Spec => ImplementsLossyQueue
<1>1. Init => TypeInv /\ OrderInv
  BY TypeInit, OrderInit
<1>2. TypeInv /\ OrderInv /\ [Next]_vars => (TypeInv /\ OrderInv)'
  BY TypeStep, OrderStep
<1> QED BY <1>1, <1>2, InitRefines, StepRefines, PTL
        DEF Spec, ImplementsLossyQueue, Promise!Spec

-----------------------------------------------------------------------------
(* Traffic without an end: DogStatsDTraffic stands for this server.        *)

Traffic == INSTANCE DogStatsDTraffic WITH
  ChannelSize <- QueueSize, busy <- (socket # <<>>), told <- cancelled, readerAt <- rpc,
  inHand <- (rpkt # <<>>), queued <- Len(queue), processorAt <- ppc

\* What a step the traffic does not see leaves alone.
Quiet ==
  /\ (socket # <<>>)' = (socket # <<>>) /\ (rpkt # <<>>)' = (rpkt # <<>>)
  /\ Len(queue)' = Len(queue) /\ UNCHANGED <<cancelled, rpc, ppc>>

\* A datagram is taken from the socket.
LEMMA ReceiveIsTraffic ==
  ASSUME TypeInv, rpkt = <<>>, NEW a, NEW b, Receive(a, b)
  PROVE  Traffic!TakeDatagram(a, b)
<1>1. UNCHANGED <<cancelled, queue, ppc>> /\ socket # <<>>
  BY DEF Receive, proc
<1>2. CASE Lines[Head(socket)] = <<>>
  <2>1. rpc' = b /\ rpkt' = rpkt
    BY <1>2 DEF Receive
  <2> QED BY <1>1, <2>1 DEF Traffic!TakeDatagram
<1>3. CASE Lines[Head(socket)] # <<>>
  <2>1. rpc' = a /\ rpkt' = <<Head(socket)>>
    BY <1>3 DEF Receive
  <2> QED BY <1>1, <2>1 DEF Traffic!TakeDatagram
<1> QED BY <1>2, <1>3

\* try_send_packet in its three outcomes.
LEMMA TrySendIsTraffic ==
  ASSUME TypeInv, NEW b, TrySendPacket("more", b)
  PROVE  Traffic!Offer(b)
<1>1. rpkt' = <<>> /\ UNCHANGED <<socket, cancelled, ppc>>
  BY DEF TrySendPacket, env, proc
<1>2. CASE SendAccepted("more")
  <2>1. Len(queue') = Len(queue) + 1
    BY <1>2 DEF SendAccepted, TypeInv, TypeOK
  <2>2. ppc # "done" /\ Len(queue) < QueueSize /\ rpc' = "more"
    BY <1>2 DEF SendAccepted, RxClosed
  <2> QED BY <1>1, <2>1, <2>2 DEF Traffic!Offer, Traffic!ChannelGone
<1>3. CASE SendFull("more")
  <2>1. ppc # "done" /\ ~(Len(queue) < QueueSize) /\ rpc' = "more" /\ queue' = queue
    BY <1>3, Numbers DEF SendFull, RxClosed
  <2> QED BY <1>1, <2>1 DEF Traffic!Offer, Traffic!ChannelGone
<1>4. CASE SendClosed(b)
  BY <1>1, <1>4 DEF SendClosed, RxClosed, Traffic!Offer, Traffic!ChannelGone
<1> QED BY <1>2, <1>3, <1>4 DEF TrySendPacket

\* A packet is taken from the channel.
LEMMA TakePacketIsTraffic ==
  ASSUME TypeInv, NEW a, TakePacket(a)
  PROVE  Traffic!TakeQueued(a)
<1>1. queue \in Seq(Packets) /\ queue # <<>> /\ queue' = Tail(queue)
  BY DEF TakePacket, TypeInv, TypeOK
<1>2. Len(queue) > 0 /\ Len(queue') = Len(queue) - 1
  BY <1>1
<1> QED BY <1>2 DEF TakePacket, env, reader, Traffic!TakeQueued

\* Every step of the server is a step of the traffic or is not seen.
LEMMA StepIsTraffic == TypeInv /\ [Next]_vars => [Traffic!TrafficNext]_(Traffic!trafficVars)
<1> SUFFICES ASSUME TypeInv, [Next]_vars PROVE Quiet \/ Traffic!TrafficNext
  BY DEF Quiet, Traffic!trafficVars
<1> USE DEF Traffic!TrafficNext, Traffic!ReadLoop, Traffic!ProcessLoop,
            Traffic!ReaderMoves, Traffic!ProcessorMoves
<1>1. ASSUME NEW p \in Packets, Send(p) PROVE Traffic!Arrive
  <2>1. socket' = Append(socket, p) /\ UNCHANGED <<cancelled, rpc, rpkt, queue, ppc>>
    BY <1>1 DEF Send, reader, proc
  <2>2. Len(socket') = Len(socket) + 1 /\ Len(socket) \in Nat
    BY <1>1, <2>1 DEF TypeInv, TypeOK
  <2>3. socket' # <<>>
    BY <2>2
  <2> QED BY <2>1, <2>3 DEF Traffic!Arrive
<1>2. CASE Cancel
  BY <1>2 DEF Cancel, reader, proc, Traffic!Tell
<1>3. CASE ReaderTop
  BY <1>3 DEF ReaderTop, env, proc, Traffic!LoopTop
<1>4. CASE ReadCancelled
  BY <1>4 DEF ReadCancelled, env, proc, Traffic!ReadTold
<1>5. CASE ReadError
  BY <1>5 DEF ReadError, env, proc, Traffic!ReadFails
<1>6. CASE DrainTake
  BY <1>6 DEF DrainTake, env, proc, Traffic!DrainNext
<1>7. CASE DrainEmpty
  BY <1>7 DEF DrainEmpty, env, proc, Traffic!DrainEnds
<1>8. CASE CheckClosed
  BY <1>8 DEF CheckClosed, env, proc, RxClosed, Traffic!ChannelCheck, Traffic!ChannelGone
<1>9. CASE ReadInto
  <2>1. rpc = "read" /\ rpkt = <<>> /\ Receive("first", "top")
    BY <1>9 DEF ReadInto, TypeInv, HandsOK
  <2> QED BY <2>1, ReceiveIsTraffic DEF Traffic!AwaitedRead
<1>10. CASE DrainRead
  <2>1. Traffic!TakeDatagram("try", "more")
    BY <1>10, ReceiveIsTraffic DEF DrainRead
  <2> QED BY <1>10, <2>1 DEF DrainRead, Traffic!DrainRead1
<1>11. CASE SendFirst
  <2>1. Traffic!Offer("done")
    BY <1>11, TrySendIsTraffic DEF SendFirst
  <2> QED BY <1>11, <2>1 DEF SendFirst, Traffic!OfferFirst
<1>12. CASE SendDrained
  <2>1. Traffic!Offer("check")
    BY <1>12, TrySendIsTraffic DEF SendDrained
  <2> QED BY <1>12, <2>1 DEF SendDrained, Traffic!OfferDrained
<1>13. CASE Recv
  BY <1>13, TakePacketIsTraffic DEF Recv, Traffic!ReceiveOne
<1>14. CASE Drain
  BY <1>14, TakePacketIsTraffic DEF Drain, Traffic!DrainOne
<1>15. CASE RecvNone
  BY <1>15 DEF RecvNone, env, reader, Traffic!ReceiveEnd
<1>16. CASE RecvCancelled
  BY <1>16 DEF RecvCancelled, env, reader, Traffic!ReceiveTold
<1>17. CASE DrainDone
  BY <1>17 DEF DrainDone, env, reader, Traffic!DrainNothing
<1>18. CASE ProcessPacket
  BY <1>18 DEF ProcessPacket, env, reader, Traffic!Processed
<1>19. CASE DropReceiver
  BY <1>19 DEF DropReceiver, env, reader, Traffic!SpinReturns
<1>20. CASE UNCHANGED vars
  BY <1>20 DEF vars, Quiet
<1> QED
  BY <1>1, <1>2, <1>3, <1>4, <1>5, <1>6, <1>7, <1>8, <1>9, <1>10, <1>11, <1>12,
     <1>13, <1>14, <1>15, <1>16, <1>17, <1>18, <1>19, <1>20
  DEF Next, Reader, Processor

\* Whatever the server does with its datagrams, the traffic of
\* DogStatsDTraffic can do: what is said there of the token, the drains and the
\* channel is said of the two tasks of dogstatsd.rs modelled here.
THEOREM ServerIsTraffic ==
  Spec => Traffic!TrafficInit /\ [][Traffic!TrafficNext]_(Traffic!trafficVars)
<1>1. Init => Traffic!TrafficInit
  BY DEF Init, Traffic!TrafficInit
<1> QED BY <1>1, TypeInit, TypeStep, StepIsTraffic, PTL DEF Spec

-----------------------------------------------------------------------------
(* The metrics aggregator: the inductive invariant.                        *)

\* Nothing twice.
Once(s) == \A i, j \in DOMAIN s : s[i] = s[j] => i = j

AggregatorCommands ==
  [op : {"insert"}, metrics : {s \in Seq(Samples) : Once(s)}] \cup [op : {"flush"}, from : Flushers]
    \cup [op : {"get"}, from : Getters, context : Contexts] \cup [op : {"shutdown"}]

Entry == [kind : {"count", "gauge", "distribution"}, value : SUBSET Samples]

AggregatorTypeOK ==
  /\ commands \in Seq(AggregatorCommands) /\ running \in BOOLEAN /\ batch \in Seq(Samples)
  /\ map = [c \in DOMAIN map |-> map[c]] /\ \A c \in DOMAIN map : map[c] \in Entry
  /\ flush \in [Flushers -> {"idle", "waiting", "dropped", "done", "failed"}]
  /\ response = [f \in Flushers |-> response[f]]
  /\ promised \in [Flushers -> SUBSET Samples]

\* The entries are of the context they are kept under, and of the kind of one of
\* its samples; their number is limited.
EntriesOK ==
  /\ \A c \in DOMAIN map :
       /\ \A s \in map[c].value : Context[s] = c
       /\ \E s \in Samples : Context[s] = c /\ Kind[s] = map[c].kind
  /\ IsFiniteSet(DOMAIN map) /\ Cardinality(DOMAIN map) <= MaxContexts

\* No sample is twice in the mailbox or the batch, and a flusher has a
\* response only when its flush is done.
SamplesOnce ==
  /\ Once(batch)
  /\ \A i, k \in DOMAIN commands :
       commands[i].op = "insert" /\ commands[k].op = "insert" /\ i # k
         => Values(commands[i].metrics) \cap Values(commands[k].metrics) = {}
  /\ \A f \in Flushers : flush[f] # "done" => response[f] = NoResponse

\* What is inserted after a flush was requested stays behind it.
FlushOrdered ==
  /\ \A f \in Flushers : promised[f] \cap uninserted = {}
  /\ \A i \in DOMAIN commands : commands[i].op = "flush" =>
       /\ flush[commands[i].from] # "idle"
       /\ \A k \in DOMAIN commands : i < k /\ commands[k].op = "insert"
            => promised[commands[i].from] \cap Values(commands[k].metrics) = {}
  /\ FlushSeesEarlierInserts

AggregatorInv ==
  /\ AggregatorTypeOK /\ EntriesOK /\ SamplesOnce /\ Partition(Places, Samples)
  /\ OnlyMixedKindsShadow /\ FlushOrdered

-----------------------------------------------------------------------------
(* Payloads.                                                               *)

Accumulators(S) == [done : Seq(Seq(S)), cur : Seq(S), bytes : Nat]

\* The body of the loops keeps to the entries it is given.
LEMMA LoopBody ==
  ASSUME NEW S, NEW acc \in Accumulators(S), NEW e \in S, NEW n \in Nat
  PROVE  B!AddEntry(acc, e, n) \in Accumulators(S) /\ B!AddSeries(acc, e, n) \in Accumulators(S)
<1>1. acc.done \in Seq(Seq(S)) /\ acc.cur \in Seq(S) /\ acc.bytes \in Nat
  BY DEF Accumulators
<1>2. Append(acc.done, acc.cur) \in Seq(Seq(S)) /\ <<e>> \in Seq(S) /\ Append(acc.cur, e) \in Seq(S)
  BY <1>1
<1>3. B!AddEntry(acc, e, n) \in Accumulators(S)
  BY <1>1, <1>2 DEF B!AddEntry, Accumulators
<1> QED
  BY <1>3 DEF B!AddSeries

LEMMA LoopEnd ==
  ASSUME NEW S, NEW acc \in Accumulators(S)
  PROVE  B!FinishBatches(acc) \in Seq(Seq(S))
<1>1. acc.done \in Seq(Seq(S)) /\ acc.cur \in Seq(S)
  BY DEF Accumulators
<1> QED
  BY <1>1 DEF B!FinishBatches

\* The equations of the two loops.
SeriesLoop(order, size, g) ==
  g = [n \in 0..Len(order) |->
         IF n = 0 THEN B!NoBatches ELSE B!AddSeries(g[n-1], order[n], size[order[n]])]

SketchLoop(order, size, g) ==
  g = [n \in 0..Len(order) |->
         IF n = 0 THEN B!NoBatches ELSE B!AddEntry(g[n-1], order[n], size[order[n]])]

\* consume_metrics puts nothing into payloads but the points it was given.
LEMMA SeriesPayloads ==
  ASSUME NEW S, NEW order \in Seq(S), NEW size, \A e \in S : size[e] \in Nat
  PROVE  B!ConsumeMetrics(order, size) \in Seq(Seq(S))
<1> DEFINE N == Len(order)
           X == Accumulators(S)
           Step(n, x) == B!AddSeries(x, order[n], size[order[n]])
           F == [n \in 1..N |-> [x \in X |-> Step(n, x)]]
<1>0. N \in Nat /\ B!NoBatches \in X /\ \A n \in 1..N : order[n] \in S /\ size[order[n]] \in Nat
  BY DEF Accumulators, B!NoBatches
<1>1. \A n \in 1..N : \A x \in X : Step(n, x) \in X
  BY <1>0, LoopBody
<1> HIDE DEF N, X
<1>2. F \in [1..N -> [X -> X]] /\ \A n \in 1..N : \A x \in X : F[n][x] = Step(n, x)
  BY <1>1
<1> HIDE DEF F
<1>3. PICK g \in [0..N -> X] : g[0] = B!NoBatches /\ \A n \in 1..N : g[n] = F[n][g[n-1]]
  <2>1. Solvable(N, X, B!NoBatches, F)
    BY <1>0, <1>2, Recursion
  <2> QED
    BY <2>1 DEF Solvable
<1>4. ASSUME NEW n \in 0..N
      PROVE  g[n] = IF n = 0 THEN B!NoBatches ELSE B!AddSeries(g[n-1], order[n], size[order[n]])
  <2>1. CASE n = 0
    BY <1>3, <2>1
  <2>2. CASE n # 0
    <3>1. n \in 1..N /\ n - 1 \in 0..N
      BY <1>0, <2>2
    <3>2. g[n-1] \in X
      BY <1>3, <3>1
    <3>3. g[n] = Step(n, g[n-1])
      BY <1>2, <1>3, <3>1, <3>2
    <3> QED
      BY <2>2, <3>3
  <2> QED
    BY <2>1, <2>2
<1> DEFINE k == [n \in 0..N |-> IF n = 0 THEN B!NoBatches ELSE B!AddSeries(g[n-1], order[n], size[order[n]])]
<1>5. g = k
  BY <1>3, <1>4
<1>6. SeriesLoop(order, size, g)
  BY <1>5 DEF SeriesLoop, N
<1>7. PICK r : r = CHOOSE h : SeriesLoop(order, size, h)
  OBVIOUS
<1>8. SeriesLoop(order, size, r)
  BY <1>6, <1>7
<1>9. B!ConsumeMetrics(order, size) = B!FinishBatches(r[N])
  BY <1>7 DEF B!ConsumeMetrics, SeriesLoop, N
<1>10. \A n \in 0..N : r[n] = IF n = 0 THEN B!NoBatches ELSE Step(n, r[n-1])
  BY <1>8 DEF SeriesLoop, N
<1> DEFINE T == {n \in 0..N : r[n] \in X}
<1>11. 0 \in T
  BY <1>0, <1>10
<1>12. ASSUME NEW n \in 0..(N - 1), n \in T PROVE n + 1 \in T
  <2>1. n + 1 \in 0..N /\ n + 1 \in 1..N /\ n + 1 # 0 /\ (n + 1) - 1 = n
    BY <1>0
  <2>2. r[n + 1] = Step(n + 1, r[n])
    BY <1>10, <2>1
  <2> QED
    BY <1>1, <1>12, <2>1, <2>2
<1> HIDE DEF T
<1>13. N \in T
  <2>1. \A n \in 0..N : n \in T
    BY <1>0, <1>11, <1>12, CountUp
  <2> QED
    BY <1>0, <2>1
<1> QED
  BY <1>9, <1>13, LoopEnd DEF T, X

\* Nor does consume_distributions, with its sketches.
LEMMA SketchPayloads ==
  ASSUME NEW S, NEW order \in Seq(S), NEW size, \A e \in S : size[e] \in Nat
  PROVE  B!ConsumeDistributions(order, size) \in Seq(Seq(S))
<1> DEFINE N == Len(order)
           X == Accumulators(S)
           Step(n, x) == B!AddEntry(x, order[n], size[order[n]])
           F == [n \in 1..N |-> [x \in X |-> Step(n, x)]]
<1>0. N \in Nat /\ B!NoBatches \in X /\ \A n \in 1..N : order[n] \in S /\ size[order[n]] \in Nat
  BY DEF Accumulators, B!NoBatches
<1>1. \A n \in 1..N : \A x \in X : Step(n, x) \in X
  BY <1>0, LoopBody
<1> HIDE DEF N, X
<1>2. F \in [1..N -> [X -> X]] /\ \A n \in 1..N : \A x \in X : F[n][x] = Step(n, x)
  BY <1>1
<1> HIDE DEF F
<1>3. PICK g \in [0..N -> X] : g[0] = B!NoBatches /\ \A n \in 1..N : g[n] = F[n][g[n-1]]
  <2>1. Solvable(N, X, B!NoBatches, F)
    BY <1>0, <1>2, Recursion
  <2> QED
    BY <2>1 DEF Solvable
<1>4. ASSUME NEW n \in 0..N
      PROVE  g[n] = IF n = 0 THEN B!NoBatches ELSE B!AddEntry(g[n-1], order[n], size[order[n]])
  <2>1. CASE n = 0
    BY <1>3, <2>1
  <2>2. CASE n # 0
    <3>1. n \in 1..N /\ n - 1 \in 0..N
      BY <1>0, <2>2
    <3>2. g[n-1] \in X
      BY <1>3, <3>1
    <3>3. g[n] = Step(n, g[n-1])
      BY <1>2, <1>3, <3>1, <3>2
    <3> QED
      BY <2>2, <3>3
  <2> QED
    BY <2>1, <2>2
<1> DEFINE k == [n \in 0..N |-> IF n = 0 THEN B!NoBatches ELSE B!AddEntry(g[n-1], order[n], size[order[n]])]
<1>5. g = k
  BY <1>3, <1>4
<1>6. SketchLoop(order, size, g)
  BY <1>5 DEF SketchLoop, N
<1>7. PICK r : r = CHOOSE h : SketchLoop(order, size, h)
  OBVIOUS
<1>8. SketchLoop(order, size, r)
  BY <1>6, <1>7
<1>9. B!ConsumeDistributions(order, size) = B!FinishBatches(r[N])
  BY <1>7 DEF B!ConsumeDistributions, SketchLoop, N
<1>10. \A n \in 0..N : r[n] = IF n = 0 THEN B!NoBatches ELSE Step(n, r[n-1])
  BY <1>8 DEF SketchLoop, N
<1> DEFINE T == {n \in 0..N : r[n] \in X}
<1>11. 0 \in T
  BY <1>0, <1>10
<1>12. ASSUME NEW n \in 0..(N - 1), n \in T PROVE n + 1 \in T
  <2>1. n + 1 \in 0..N /\ n + 1 \in 1..N /\ n + 1 # 0 /\ (n + 1) - 1 = n
    BY <1>0
  <2>2. r[n + 1] = Step(n + 1, r[n])
    BY <1>10, <2>1
  <2> QED
    BY <1>1, <1>12, <2>1, <2>2
<1> HIDE DEF T
<1>13. N \in T
  <2>1. \A n \in 0..N : n \in T
    BY <1>0, <1>11, <1>12, CountUp
  <2> QED
    BY <1>0, <2>1
<1> QED
  BY <1>9, <1>13, LoopEnd DEF T, X

-----------------------------------------------------------------------------
(* The mailbox and the places of a sample.                                 *)

\* The samples a command brings.
Brought(c) == IF c.op = "insert" THEN Values(c.metrics) ELSE {}

\* u is the mailbox m with the command c at its end.
Longer(m, c, u) ==
  /\ u \in Seq(AggregatorCommands)
  /\ Queued(u) = Queued(m) \cup Brought(c)
  /\ \A i \in DOMAIN u : (i \in DOMAIN m /\ u[i] = m[i]) \/ (i = Len(m) + 1 /\ u[i] = c)
  /\ \A i \in DOMAIN m : i < Len(m) + 1

\* One more command in the mailbox.
LEMMA CommandAdded ==
  ASSUME NEW m \in Seq(AggregatorCommands), NEW c \in AggregatorCommands
  PROVE  Longer(m, c, Append(m, c))
<1>0. PICK u : u = Append(m, c)
  OBVIOUS
<1>1. /\ Len(m) \in Nat /\ DOMAIN m = 1..Len(m) /\ DOMAIN u = 1..(Len(m) + 1) /\ u \in Seq(AggregatorCommands)
      /\ u[Len(m) + 1] = c /\ \A i \in 1..Len(m) : u[i] = m[i]
  BY <1>0
<1>2. /\ \A i \in DOMAIN u : i \in DOMAIN m \/ i = Len(m) + 1
      /\ \A i \in DOMAIN m : i \in DOMAIN u /\ u[i] = m[i] /\ i < Len(m) + 1
      /\ Len(m) + 1 \in DOMAIN u
  BY <1>1
<1>3. ASSUME NEW e PROVE e \in Queued(u) <=> \E i \in DOMAIN u : u[i].op = "insert" /\ e \in Values(u[i].metrics)
  BY DEF Queued
<1>4. ASSUME NEW e PROVE e \in Queued(m) <=> \E i \in DOMAIN m : m[i].op = "insert" /\ e \in Values(m[i].metrics)
  BY DEF Queued
<1>5. ASSUME NEW e PROVE e \in Queued(u) <=> e \in Queued(m) \/ (c.op = "insert" /\ e \in Values(c.metrics))
  BY <1>1, <1>2, <1>3, <1>4
<1>6. Queued(u) = Queued(m) \cup Brought(c)
  BY <1>5 DEF Brought
<1>7. Longer(m, c, u)
  BY <1>1, <1>2, <1>6 DEF Longer
<1> QED
  BY <1>0, <1>7

\* The first command leaves the mailbox.
LEMMA CommandTaken ==
  ASSUME NEW m \in Seq(AggregatorCommands), m # <<>>, NEW u, u = Tail(m), NEW c, c = Head(m)
  PROVE  /\ c \in AggregatorCommands /\ c = m[1] /\ 1 \in DOMAIN m /\ u \in Seq(AggregatorCommands)
         /\ Queued(m) = Queued(u) \cup Brought(c)
         /\ \A i \in DOMAIN u : i + 1 \in DOMAIN m /\ 1 < i + 1 /\ u[i] = m[i + 1]
         /\ \A i, k \in DOMAIN u : (i < k <=> i + 1 < k + 1) /\ (i = k <=> i + 1 = k + 1)
<1>1. /\ Len(m) \in Nat /\ Len(m) # 0 /\ DOMAIN m = 1..Len(m) /\ c = m[1] /\ u \in Seq(AggregatorCommands)
      /\ DOMAIN u = 1..(Len(m) - 1) /\ \A i \in 1..(Len(m) - 1) : u[i] = m[i + 1]
  OBVIOUS
<1>2. /\ 1 \in DOMAIN m /\ c \in AggregatorCommands
      /\ \A i \in DOMAIN u : i + 1 \in DOMAIN m /\ 1 < i + 1 /\ u[i] = m[i + 1]
      /\ \A i, k \in DOMAIN u : (i < k <=> i + 1 < k + 1) /\ (i = k <=> i + 1 = k + 1)
  BY <1>1
<1>3. \A i \in DOMAIN m : i = 1 \/ \E k \in DOMAIN u : i = k + 1
  <2> TAKE i \in DOMAIN m
  <2>1. i = 1 \/ (i - 1 \in 1..(Len(m) - 1) /\ i = (i - 1) + 1)
    BY <1>1
  <2> QED
    BY <1>1, <2>1
<1>4. ASSUME NEW e PROVE e \in Queued(u) <=> \E i \in DOMAIN u : u[i].op = "insert" /\ e \in Values(u[i].metrics)
  BY DEF Queued
<1>5. ASSUME NEW e PROVE e \in Queued(m) <=> \E i \in DOMAIN m : m[i].op = "insert" /\ e \in Values(m[i].metrics)
  BY DEF Queued
<1>6. ASSUME NEW e PROVE e \in Queued(m) <=> e \in Queued(u) \/ (c.op = "insert" /\ e \in Values(c.metrics))
  <2>1. ASSUME e \in Queued(m) PROVE e \in Queued(u) \/ (c.op = "insert" /\ e \in Values(c.metrics))
    <3>1. PICK i \in DOMAIN m : m[i].op = "insert" /\ e \in Values(m[i].metrics)
      BY <1>5, <2>1
    <3>2. CASE i = 1
      BY <1>1, <3>1, <3>2
    <3>3. CASE \E k \in DOMAIN u : i = k + 1
      BY <1>2, <1>4, <3>1, <3>3
    <3> QED
      BY <1>3, <3>2, <3>3
  <2>2. ASSUME e \in Queued(u) PROVE e \in Queued(m)
    BY <1>2, <1>4, <1>5, <2>2
  <2>3. ASSUME c.op = "insert", e \in Values(c.metrics) PROVE e \in Queued(m)
    BY <1>1, <1>2, <1>5, <2>3
  <2> QED
    BY <2>1, <2>2, <2>3
<1> QED
  <2>1. Queued(m) = Queued(u) \cup Brought(c)
    BY <1>6 DEF Brought
  <2> QED
    BY <1>1, <1>2, <2>1

\* The first sample leaves the batch.
LEMMA SampleTaken ==
  ASSUME NEW s \in Seq(Samples), s # <<>>, Once(s), NEW h, h = Head(s), NEW t, t = Tail(s)
  PROVE  h \in Values(s) /\ h \in Samples /\ t \in Seq(Samples) /\ Once(t) /\ Values(t) = Values(s) \ {h}
<1>1. /\ Len(s) \in Nat /\ Len(s) # 0 /\ DOMAIN s = 1..Len(s) /\ h = s[1] /\ t \in Seq(Samples)
      /\ DOMAIN t = 1..(Len(s) - 1) /\ \A i \in 1..(Len(s) - 1) : t[i] = s[i + 1]
  OBVIOUS
<1>2. /\ 1 \in DOMAIN s /\ h \in Samples
      /\ \A i \in DOMAIN t : i + 1 \in DOMAIN s /\ 1 # i + 1 /\ t[i] = s[i + 1]
      /\ \A i, k \in DOMAIN t : i + 1 = k + 1 => i = k
  BY <1>1
<1>3. \A i \in DOMAIN s : i = 1 \/ \E k \in DOMAIN t : i = k + 1
  <2> TAKE i \in DOMAIN s
  <2>1. i = 1 \/ (i - 1 \in 1..(Len(s) - 1) /\ i = (i - 1) + 1)
    BY <1>1
  <2> QED
    BY <1>1, <2>1
<1>4. Once(t)
  BY <1>2 DEF Once
<1>5. \A i \in DOMAIN t : t[i] # h
  BY <1>1, <1>2 DEF Once
<1>6. ASSUME NEW x PROVE x \in Values(t) <=> x \in Values(s) /\ x # h
  <2>1. ASSUME x \in Values(t) PROVE x \in Values(s) /\ x # h
    BY <1>2, <1>5, <2>1 DEF Values
  <2>2. ASSUME x \in Values(s), x # h PROVE x \in Values(t)
    <3>1. PICK i \in DOMAIN s : x = s[i]
      BY <2>2 DEF Values
    <3>2. PICK k \in DOMAIN t : i = k + 1
      BY <1>1, <1>3, <2>2, <3>1
    <3> QED
      BY <1>2, <3>1, <3>2 DEF Values
  <2> QED
    BY <2>1, <2>2
<1> QED
  BY <1>1, <1>2, <1>4, <1>6 DEF Values

LEMMA PlacesNow ==
  /\ Places[1] = uninserted /\ Places[2] = Queued(commands) /\ Places[3] = Values(batch)
  /\ Places[4] = Held(map) /\ Places[5] = Delivered /\ Places[6] = overflowed
  /\ Places[7] = shadowed /\ Places[8] = lost
  BY DEF Places, InMailbox, InMap

LEMMA PlacesNext ==
  /\ Places'[1] = uninserted' /\ Places'[2] = Queued(commands') /\ Places'[3] = Values(batch')
  /\ Places'[4] = Held(map') /\ Places'[5] = Delivered' /\ Places'[6] = overflowed'
  /\ Places'[7] = shadowed' /\ Places'[8] = lost'
  BY DEF Places, InMailbox, InMap

\* Two places have nothing in common, and hold samples.
LEMMA PlacesApart ==
  ASSUME AggregatorInv
  PROVE  /\ uninserted \subseteq Samples /\ Queued(commands) \subseteq Samples /\ Values(batch) \subseteq Samples
         /\ Held(map) \subseteq Samples
         /\ uninserted \cap Queued(commands) = {} /\ uninserted \cap Values(batch) = {}
         /\ uninserted \cap Held(map) = {} /\ Queued(commands) \cap Values(batch) = {}
         /\ Values(batch) \cap Held(map) = {} /\ Queued(commands) \cap Held(map) = {}
<1>1. /\ \A p \in 1..8 : Places[p] \subseteq Samples
      /\ \A p, q \in 1..8 : p # q => Places[p] \cap Places[q] = {}
  BY DEF AggregatorInv, Partition
<1>2. /\ Places[1] \subseteq Samples /\ Places[2] \subseteq Samples /\ Places[3] \subseteq Samples /\ Places[4] \subseteq Samples
      /\ Places[1] \cap Places[2] = {} /\ Places[1] \cap Places[3] = {} /\ Places[1] \cap Places[4] = {}
      /\ Places[2] \cap Places[3] = {} /\ Places[3] \cap Places[4] = {} /\ Places[2] \cap Places[4] = {}
  BY <1>1
<1> QED
  BY <1>2, PlacesNow

\* What a flusher has received, flusher by flusher.
LEMMA DeliveredSame == ASSUME response' = response PROVE Delivered' = Delivered
  BY DEF Delivered

-----------------------------------------------------------------------------
(* The steps of the handles.                                               *)

\* An empty aggregator.
LEMMA InitAggregatorInv == ASSUME AggregatorInit PROVE AggregatorInv
<1> USE MetricsAggregatorAssumption
<1>1. /\ commands = <<>> /\ running = TRUE /\ batch = <<>> /\ map = <<>> /\ uninserted = Samples
      /\ overflowed = {} /\ shadowed = {} /\ lost = {} /\ promised = [f \in Flushers |-> {}]
      /\ flush = [f \in Flushers |-> "idle"] /\ response = [f \in Flushers |-> NoResponse]
  BY DEF AggregatorInit
<1>2. DOMAIN commands = {} /\ DOMAIN batch = {} /\ DOMAIN map = {}
  BY <1>1
<1>3. Queued(commands) = {} /\ Values(batch) = {} /\ Held(map) = {}
  BY <1>2 DEF Queued, Values, Held
<1>4. InResponse(NoResponse) = {}
  BY DEF InResponse, NoResponse, InPayloads
<1>5. Delivered = {}
  BY <1>1, <1>4 DEF Delivered
<1>6. AggregatorTypeOK
  BY <1>1, <1>2 DEF AggregatorTypeOK
<1>7. EntriesOK
  BY <1>2, FS_EmptySet DEF EntriesOK
<1>8. SamplesOnce /\ OnlyMixedKindsShadow
  BY <1>1, <1>2 DEF SamplesOnce, Once, OnlyMixedKindsShadow
<1>9. FlushOrdered
  BY <1>1, <1>2 DEF FlushOrdered, FlushSeesEarlierInserts
<1>10. Partition(Places, Samples)
  <2>1. Places[1] = Samples /\ \A k \in 1..8 : k # 1 => Places[k] = {}
    BY <1>1, <1>3, <1>5, PlacesNow, OneToEight
  <2>2. 1 \in 1..8
    OBVIOUS
  <2>3. \A p, q \in 1..8 : p # q => Places[p] \cap Places[q] = {}
    BY <2>1
  <2>4. \A e : e \in Samples <=> \E p \in 1..8 : e \in Places[p]
    BY <2>1, <2>2
  <2> QED
    BY <2>3, <2>4 DEF Partition
<1> QED
  BY <1>6, <1>7, <1>8, <1>9, <1>10 DEF AggregatorInv

\* A step that moves no sample.
LEMMA NothingMoves ==
  ASSUME AggregatorInv, UNCHANGED <<batch, map, response, uninserted, overflowed, shadowed, lost>>,
         Queued(commands') = Queued(commands)
  PROVE  EntriesOK' /\ Partition(Places', Samples) /\ OnlyMixedKindsShadow'
<1>1. EntriesOK' /\ OnlyMixedKindsShadow'
  BY DEF AggregatorInv, EntriesOK, OnlyMixedKindsShadow
<1>2. \A k \in 1..8 : Places'[k] = Places[k]
  BY PlacesNow, PlacesNext, DeliveredSame, OneToEight
<1> QED
  BY <1>1, <1>2, SamePartition DEF AggregatorInv

\* A flusher that is not waiting for anything any more.
LEMMA FlusherMoves ==
  ASSUME AggregatorInv, UNCHANGED <<commands, running, batch, map, response, uninserted, overflowed, shadowed, lost, promised>>,
         flush' \in [Flushers -> {"idle", "waiting", "dropped", "done", "failed"}],
         \A f \in Flushers : flush'[f] = flush[f] \/ (flush'[f] \in {"dropped", "failed"} /\ flush[f] # "done")
  PROVE  AggregatorInv'
<1>1. EntriesOK' /\ Partition(Places', Samples) /\ OnlyMixedKindsShadow'
  BY NothingMoves
<1>2. AggregatorTypeOK'
  BY DEF AggregatorInv, AggregatorTypeOK
<1>3. SamplesOnce'
  BY DEF AggregatorInv, SamplesOnce
<1>4. \A i \in DOMAIN commands : commands[i].op = "flush" => commands[i].from \in Flushers
  BY DEF AggregatorInv, AggregatorTypeOK, AggregatorCommands
<1>5. FlushOrdered'
  <2>1. \A f \in Flushers : flush'[f] = "done" => flush[f] = "done"
    OBVIOUS
  <2>2. \A f \in Flushers : flush[f] # "idle" => flush'[f] # "idle"
    OBVIOUS
  <2>3. FlushSeesEarlierInserts'
    BY <2>1 DEF AggregatorInv, FlushOrdered, FlushSeesEarlierInserts, InMailbox, InMap
  <2> QED
    BY <1>4, <2>2, <2>3 DEF AggregatorInv, FlushOrdered
<1> QED
  BY <1>1, <1>2, <1>3, <1>5 DEF AggregatorInv

\* A command other than an insertion is queued.
LEMMA OtherQueued ==
  ASSUME SamplesOnce, commands \in Seq(AggregatorCommands), NEW c \in AggregatorCommands, c.op # "insert",
         commands' = Append(commands, c)
  PROVE  /\ commands' \in Seq(AggregatorCommands) /\ Queued(commands') = Queued(commands)
         /\ \A i \in DOMAIN commands' : (i \in DOMAIN commands /\ commands'[i] = commands[i]) \/ (i = Len(commands) + 1 /\ commands'[i] = c)
         /\ \A i \in DOMAIN commands : i < Len(commands) + 1
         /\ \A i, k \in DOMAIN commands' :
              commands'[i].op = "insert" /\ commands'[k].op = "insert" /\ i # k
                => Values(commands'[i].metrics) \cap Values(commands'[k].metrics) = {}
<1>1. PICK m : m = commands
  OBVIOUS
<1>2. PICK u : u = commands'
  OBVIOUS
<1>3. m \in Seq(AggregatorCommands) /\ u = Append(m, c)
  BY <1>1, <1>2
<1>4. /\ u \in Seq(AggregatorCommands)
      /\ Queued(u) = Queued(m) \cup Brought(c)
      /\ \A i \in DOMAIN u : (i \in DOMAIN m /\ u[i] = m[i]) \/ (i = Len(m) + 1 /\ u[i] = c)
      /\ \A i \in DOMAIN m : i < Len(m) + 1
  <2>1. Longer(m, c, u)
    BY <1>3, CommandAdded
  <2> QED
    BY <2>1 DEF Longer
<1>5. Queued(m) \cup {} = Queued(m) /\ Brought(c) = {}
  BY DEF Brought
<1>6. Queued(u) = Queued(m)
  BY <1>4, <1>5
<1>7. \A i \in DOMAIN u : u[i].op = "insert" => i \in DOMAIN m /\ u[i] = m[i]
  BY <1>4
<1>8. \A i, k \in DOMAIN m : m[i].op = "insert" /\ m[k].op = "insert" /\ i # k => Values(m[i].metrics) \cap Values(m[k].metrics) = {}
  BY <1>1 DEF SamplesOnce
<1>9. \A i, k \in DOMAIN u : u[i].op = "insert" /\ u[k].op = "insert" /\ i # k => Values(u[i].metrics) \cap Values(u[k].metrics) = {}
  BY <1>7, <1>8
<1> QED
  BY ZenonT(60), <1>1, <1>2, <1>4, <1>6, <1>9

\* A command other than an insertion is queued, and a flusher that queued it
\* is promised what is no longer with the callers.
LEMMA CommandQueued ==
  ASSUME AggregatorInv, NEW c \in AggregatorCommands, c.op # "insert", commands' = Append(commands, c),
         UNCHANGED <<running, batch, map, response, uninserted, overflowed, shadowed, lost>>,
         \/ UNCHANGED <<flush, promised>> /\ c.op # "flush"
         \/ /\ c.op = "flush" /\ c.from \in Flushers /\ flush[c.from] = "idle"
            /\ flush' = [flush EXCEPT ![c.from] = "waiting"]
            /\ promised' = [promised EXCEPT ![c.from] = Samples \ uninserted]
  PROVE  AggregatorInv'
<1>1. commands \in Seq(AggregatorCommands)
  BY DEF AggregatorInv, AggregatorTypeOK
<1>2. /\ commands' \in Seq(AggregatorCommands) /\ Queued(commands') = Queued(commands)
      /\ \A i \in DOMAIN commands' : (i \in DOMAIN commands /\ commands'[i] = commands[i]) \/ (i = Len(commands) + 1 /\ commands'[i] = c)
      /\ \A i \in DOMAIN commands : i < Len(commands) + 1
  BY <1>1, OtherQueued DEF AggregatorInv
<1>3. EntriesOK' /\ Partition(Places', Samples) /\ OnlyMixedKindsShadow'
  BY <1>2, NothingMoves
<1>4. \A i \in DOMAIN commands : commands[i].op = "flush" => commands[i].from \in Flushers
  BY DEF AggregatorInv, AggregatorTypeOK, AggregatorCommands
<1>5. /\ flush' \in [Flushers -> {"idle", "waiting", "dropped", "done", "failed"}]
      /\ promised' \in [Flushers -> SUBSET Samples]
      /\ \A f \in Flushers : flush'[f] = flush[f] \/ (flush[f] = "idle" /\ flush'[f] = "waiting")
      /\ \A f \in Flushers : flush[f] # "idle" => promised'[f] = promised[f]
      /\ \A f \in Flushers : promised'[f] = promised[f] \/ promised'[f] = Samples \ uninserted
      /\ c.op = "flush" => flush'[c.from] # "idle"
  <2>1. /\ flush \in [Flushers -> {"idle", "waiting", "dropped", "done", "failed"}]
        /\ promised \in [Flushers -> SUBSET Samples]
    BY DEF AggregatorInv, AggregatorTypeOK
  <2>2. CASE UNCHANGED <<flush, promised>> /\ c.op # "flush"
    BY <2>1, <2>2
  <2>3. CASE ~(UNCHANGED <<flush, promised>> /\ c.op # "flush")
    <3>1. PICK g \in Flushers : g = c.from
      BY <2>3
    <3>2. /\ c.op = "flush" /\ flush[g] = "idle" /\ flush' = [flush EXCEPT ![g] = "waiting"]
          /\ promised' = [promised EXCEPT ![g] = Samples \ uninserted]
      BY <2>3, <3>1
    <3>3. (Samples \ uninserted) \in SUBSET Samples
      OBVIOUS
    <3>4. /\ flush' \in [Flushers -> {"idle", "waiting", "dropped", "done", "failed"}]
          /\ flush'[g] = "waiting" /\ \A f \in Flushers : f # g => flush'[f] = flush[f]
      BY <2>1, <3>2
    <3>5. promised' \in [Flushers -> SUBSET Samples]
      BY <2>1, <3>2, <3>3
    <3>6. promised'[g] = Samples \ uninserted /\ \A f \in Flushers : f # g => promised'[f] = promised[f]
      BY <2>1, <3>2
    <3> QED
      BY <3>1, <3>2, <3>4, <3>5, <3>6
  <2> QED
    BY <2>2, <2>3
<1>6. AggregatorTypeOK'
  BY <1>2, <1>5 DEF AggregatorInv, AggregatorTypeOK
<1>7. SamplesOnce'
  <2>1. Once(batch')
    BY DEF AggregatorInv, SamplesOnce
  <2>3. \A i, k \in DOMAIN commands' : commands'[i].op = "insert" /\ commands'[k].op = "insert" /\ i # k
          => Values(commands'[i].metrics) \cap Values(commands'[k].metrics) = {}
    BY <1>1, OtherQueued DEF AggregatorInv
  <2>4. \A f \in Flushers : flush'[f] # "done" => flush[f] # "done"
    BY <1>5
  <2>5. \A f \in Flushers : flush'[f] # "done" => response'[f] = NoResponse
    BY <2>4 DEF AggregatorInv, SamplesOnce
  <2> QED
    BY <2>1, <2>3, <2>5 DEF SamplesOnce
<1>8. FlushOrdered'
  <2>1. \A f \in Flushers : promised'[f] \cap uninserted' = {}
    BY <1>5 DEF AggregatorInv, FlushOrdered
  <2>2. ASSUME NEW i \in DOMAIN commands', commands'[i].op = "flush"
        PROVE  /\ flush'[commands'[i].from] # "idle"
               /\ \A k \in DOMAIN commands' : i < k /\ commands'[k].op = "insert"
                    => promised'[commands'[i].from] \cap Values(commands'[k].metrics) = {}
    <3>1. CASE i \in DOMAIN commands /\ commands'[i] = commands[i]
      <4>1. commands[i].from \in Flushers /\ flush[commands[i].from] # "idle"
        BY <1>4, <2>2, <3>1 DEF AggregatorInv, FlushOrdered
      <4>2. flush'[commands[i].from] # "idle" /\ promised'[commands[i].from] = promised[commands[i].from]
        BY <1>5, <4>1
      <4> QED
        BY <1>2, <2>2, <3>1, <4>2 DEF AggregatorInv, FlushOrdered
    <3>2. CASE i = Len(commands) + 1 /\ commands'[i] = c
      <4>1. \A k \in DOMAIN commands' : i < k => commands'[k].op # "insert"
        <5> SUFFICES ASSUME NEW k \in DOMAIN commands', i < k, k \in DOMAIN commands PROVE FALSE
          BY <1>2
        <5>1. k < i /\ k \in Nat /\ i \in Nat
          BY <1>1, <1>2, <3>2
        <5> QED
          BY <5>1
      <4> QED
        BY <1>5, <2>2, <3>2, <4>1
    <3> QED
      BY <1>2, <3>1, <3>2
  <2>3. FlushSeesEarlierInserts'
    <3>1. \A f \in Flushers : flush'[f] = "done" => flush[f] = "done" /\ promised'[f] = promised[f]
      BY <1>5
    <3> QED
      BY <1>2, <3>1 DEF AggregatorInv, FlushOrdered, FlushSeesEarlierInserts, InMailbox, InMap
  <2> QED
    BY <2>1, <2>2, <2>3 DEF FlushOrdered
<1> QED
  BY <1>3, <1>6, <1>7, <1>8 DEF AggregatorInv

\* What waits in the mailbox.
LEMMA InQueue ==
  ASSUME NEW m, NEW i \in DOMAIN m, m[i].op = "insert"
  PROVE  Values(m[i].metrics) \subseteq Queued(m)
  BY DEF Queued

\* An answered flush stays right as long as no sample it was promised comes back.
LEMMA StillSeen ==
  ASSUME AggregatorInv, promised' = promised,
         \A f \in Flushers : flush'[f] = "done" => flush[f] = "done",
         Queued(commands') \cup Values(batch') \cup Held(map')
           \subseteq Queued(commands) \cup Values(batch) \cup Held(map)
  PROVE  FlushSeesEarlierInserts'
<1>1. \A f \in Flushers : flush[f] = "done" => promised[f] \cap (Queued(commands) \cup Values(batch) \cup Held(map)) = {}
  BY DEF AggregatorInv, FlushOrdered, FlushSeesEarlierInserts, InMailbox, InMap
<1>2. \A f \in Flushers : flush'[f] = "done" => promised'[f] \cap (Queued(commands') \cup Values(batch') \cup Held(map')) = {}
  BY <1>1
<1> QED
  BY <1>2 DEF FlushSeesEarlierInserts, InMailbox, InMap

\* insert_batch: the samples go from the caller into the mailbox, or are lost
\* with an error.
LEMMA InsertBatchInv ==
  ASSUME AggregatorInv, NEW metrics \in Batches, InsertBatch(metrics)
  PROVE  AggregatorInv'
<1> DEFINE M == Values(metrics)
<1>1. metrics \in Seq(Samples) /\ Once(metrics) /\ M \subseteq uninserted /\ uninserted' = uninserted \ M
  BY MetricsAggregatorAssumption DEF InsertBatch, Once
<1>2. UNCHANGED <<running, batch, map, flush, response, overflowed, shadowed, promised>>
  BY DEF InsertBatch
<1>3. EntriesOK' /\ OnlyMixedKindsShadow'
  BY <1>2 DEF AggregatorInv, EntriesOK, OnlyMixedKindsShadow
<1>4. commands \in Seq(AggregatorCommands) /\ Delivered' = Delivered
  BY <1>2, DeliveredSame DEF AggregatorInv, AggregatorTypeOK
<1>5. \A f \in Flushers : promised'[f] \cap uninserted' = {} /\ promised[f] \cap M = {}
  BY <1>1, <1>2 DEF AggregatorInv, FlushOrdered
<1>6. \A i \in DOMAIN commands : commands[i].op = "flush" => commands[i].from \in Flushers
  BY DEF AggregatorInv, AggregatorTypeOK, AggregatorCommands
<1> HIDE DEF M
<1>7. CASE running
  <2> DEFINE c == [op |-> "insert", metrics |-> metrics]
  <2>1. commands' = Append(commands, c) /\ lost' = lost /\ c \in AggregatorCommands /\ c.op = "insert" /\ c.metrics = metrics
    BY <1>1, <1>7 DEF InsertBatch, AggregatorCommands
  <2> HIDE DEF c
  <2>0. Longer(commands, c, commands')
    BY <1>4, <2>1, CommandAdded
  <2>2. Queued(commands') = Queued(commands) \cup Brought(c)
    BY <2>0 DEF Longer
  <2>3. /\ commands' \in Seq(AggregatorCommands)
        /\ \A i \in DOMAIN commands' : (i \in DOMAIN commands /\ commands'[i] = commands[i]) \/ (i = Len(commands) + 1 /\ commands'[i] = c)
        /\ \A i \in DOMAIN commands : i < Len(commands) + 1
    BY <2>0 DEF Longer
  <2>4. Queued(commands') = Queued(commands) \cup M
    BY <2>1, <2>2 DEF M, Brought
  <2>5. Partition(Places', Samples)
    <3>1. Moved(Places, Places', 1, 2, M)
      BY <1>1, <1>2, <1>4, <2>1, <2>4, PlacesNow, PlacesNext, OneToEight DEF Moved
    <3>2. M \subseteq Places[1] /\ 1 \in 1..8 /\ 2 \in 1..8 /\ 1 # 2
      BY <1>1, PlacesNow
    <3> QED
      BY <3>1, <3>2, MoveKeepsPartition DEF AggregatorInv
  <2>6. AggregatorTypeOK'
    BY <1>2, <2>3 DEF AggregatorInv, AggregatorTypeOK
  <2>7. \A i \in DOMAIN commands : commands[i].op = "insert" => Values(commands[i].metrics) \cap M = {}
    BY <1>1, InQueue, PlacesApart
  <2>8. SamplesOnce'
    <3>1. Once(batch') /\ \A f \in Flushers : flush'[f] # "done" => response'[f] = NoResponse
      BY <1>2 DEF AggregatorInv, SamplesOnce
    <3>2. ASSUME NEW i \in DOMAIN commands', NEW k \in DOMAIN commands', commands'[i].op = "insert", commands'[k].op = "insert", i # k
          PROVE  Values(commands'[i].metrics) \cap Values(commands'[k].metrics) = {}
      <4>1. CASE i \in DOMAIN commands /\ commands'[i] = commands[i] /\ k \in DOMAIN commands /\ commands'[k] = commands[k]
        BY <3>2, <4>1 DEF AggregatorInv, SamplesOnce
      <4>2. CASE i \in DOMAIN commands /\ commands'[i] = commands[i] /\ k = Len(commands) + 1 /\ commands'[k] = c
        BY <2>1, <2>7, <3>2, <4>2 DEF M
      <4>3. CASE i = Len(commands) + 1 /\ commands'[i] = c /\ k \in DOMAIN commands /\ commands'[k] = commands[k]
        BY <2>1, <2>7, <3>2, <4>3 DEF M
      <4> QED
        BY <2>3, <3>2, <4>1, <4>2, <4>3
    <3> QED
      BY <3>1, <3>2 DEF SamplesOnce
  <2>9. FlushOrdered'
    <3>1. ASSUME NEW i \in DOMAIN commands', commands'[i].op = "flush"
          PROVE  /\ flush'[commands'[i].from] # "idle"
                 /\ \A k \in DOMAIN commands' : i < k /\ commands'[k].op = "insert"
                      => promised'[commands'[i].from] \cap Values(commands'[k].metrics) = {}
      <4>1. i \in DOMAIN commands /\ commands'[i] = commands[i] /\ commands[i].from \in Flushers
        BY <1>6, <2>1, <2>3, <3>1
      <4>2. flush'[commands'[i].from] # "idle"
        BY <1>2, <3>1, <4>1 DEF AggregatorInv, FlushOrdered
      <4>3. ASSUME NEW k \in DOMAIN commands', i < k, commands'[k].op = "insert"
            PROVE  promised'[commands'[i].from] \cap Values(commands'[k].metrics) = {}
        <5>1. CASE k \in DOMAIN commands /\ commands'[k] = commands[k]
          BY <1>2, <3>1, <4>1, <4>3, <5>1 DEF AggregatorInv, FlushOrdered
        <5>2. CASE commands'[k] = c
          BY <1>2, <1>5, <2>1, <4>1, <5>2 DEF M
        <5> QED
          BY <2>3, <5>1, <5>2
      <4> QED
        BY <4>2, <4>3
    <3>2. FlushSeesEarlierInserts'
      <4>1. \A f \in Flushers : flush[f] = "done" => promised[f] \cap (Queued(commands) \cup Values(batch) \cup Held(map)) = {}
        BY DEF AggregatorInv, FlushOrdered, FlushSeesEarlierInserts, InMailbox, InMap
      <4>2. \A f \in Flushers : flush'[f] = "done" => promised'[f] \cap (Queued(commands') \cup Values(batch') \cup Held(map')) = {}
        BY <1>2, <1>5, <2>4, <4>1
      <4> QED
        BY <4>2 DEF FlushSeesEarlierInserts, InMailbox, InMap
    <3> QED
      BY <1>5, <3>1, <3>2 DEF FlushOrdered
  <2> QED
    BY <1>3, <2>5, <2>6, <2>8, <2>9 DEF AggregatorInv
<1>8. CASE ~running
  <2>1. commands' = commands /\ lost' = lost \cup M
    BY <1>8 DEF InsertBatch, M
  <2>2. Partition(Places', Samples)
    <3>1. Moved(Places, Places', 1, 8, M)
      BY <1>1, <1>2, <1>4, <2>1, PlacesNow, PlacesNext, OneToEight DEF Moved
    <3>2. M \subseteq Places[1] /\ 1 \in 1..8 /\ 8 \in 1..8 /\ 1 # 8
      BY <1>1, PlacesNow
    <3> QED
      BY <3>1, <3>2, MoveKeepsPartition DEF AggregatorInv
  <2>3. AggregatorTypeOK' /\ SamplesOnce'
    BY <1>2, <2>1 DEF AggregatorInv, AggregatorTypeOK, SamplesOnce
  <2>4. FlushSeesEarlierInserts'
    BY <1>2, <2>1, StillSeen
  <2>5. FlushOrdered'
    BY <1>2, <1>5, <2>1, <2>4 DEF AggregatorInv, FlushOrdered
  <2> QED
    BY <1>3, <2>2, <2>3, <2>5 DEF AggregatorInv
<1> QED
  BY <1>7, <1>8

\* flush, get_entry_by_id and shutdown.
LEMMA RequestInv ==
  ASSUME AggregatorInv,
         \/ \E f \in Flushers : RequestFlush(f) \/ DropFlush(f)
         \/ \E g \in Getters, c \in Contexts : RequestEntry(g, c)
         \/ RequestShutdown
  PROVE  AggregatorInv'
<1>1. flush \in [Flushers -> {"idle", "waiting", "dropped", "done", "failed"}]
  BY DEF AggregatorInv, AggregatorTypeOK
<1>2. ASSUME NEW f \in Flushers, RequestFlush(f) PROVE AggregatorInv'
  <2>1. flush[f] = "idle" /\ UNCHANGED <<running, batch, map, response, uninserted, overflowed, shadowed, lost>>
    BY <1>2 DEF RequestFlush
  <2>2. CASE running
    <3> DEFINE c == [op |-> "flush", from |-> f]
    <3>1. c \in AggregatorCommands /\ c.op = "flush" /\ c.op # "insert" /\ c.from = f
      BY DEF AggregatorCommands
    <3>2. commands' = Append(commands, c) /\ flush' = [flush EXCEPT ![f] = "waiting"]
          /\ promised' = [promised EXCEPT ![f] = Samples \ uninserted]
      BY <1>2, <2>2 DEF RequestFlush
    <3> HIDE DEF c
    <3> QED
      BY <2>1, <3>1, <3>2, CommandQueued
  <2>3. CASE ~running
    <3>1. flush' = [flush EXCEPT ![f] = "failed"] /\ UNCHANGED <<commands, promised>>
      BY <1>2, <2>3 DEF RequestFlush
    <3>2. /\ flush' \in [Flushers -> {"idle", "waiting", "dropped", "done", "failed"}]
          /\ \A g \in Flushers : flush'[g] = flush[g] \/ (flush'[g] \in {"dropped", "failed"} /\ flush[g] # "done")
      BY <1>1, <2>1, <3>1
    <3> QED
      BY <2>1, <3>1, <3>2, FlusherMoves
  <2> QED
    BY <2>2, <2>3
<1>3. ASSUME NEW f \in Flushers, DropFlush(f) PROVE AggregatorInv'
  <2>1. flush[f] = "waiting" /\ flush' = [flush EXCEPT ![f] = "dropped"]
        /\ UNCHANGED <<commands, running, batch, map, response, uninserted, overflowed, shadowed, lost, promised>>
    BY <1>3 DEF DropFlush, history
  <2>2. /\ flush' \in [Flushers -> {"idle", "waiting", "dropped", "done", "failed"}]
        /\ \A g \in Flushers : flush'[g] = flush[g] \/ (flush'[g] \in {"dropped", "failed"} /\ flush[g] # "done")
    BY <1>1, <2>1
  <2> QED
    BY <2>1, <2>2, FlusherMoves
<1>4. ASSUME NEW g \in Getters, NEW x \in Contexts, RequestEntry(g, x) PROVE AggregatorInv'
  <2>1. UNCHANGED <<running, batch, map, flush, response, uninserted, overflowed, shadowed, lost, promised>>
    BY <1>4 DEF RequestEntry, history
  <2>2. CASE running
    <3> DEFINE c == [op |-> "get", from |-> g, context |-> x]
    <3>1. c \in AggregatorCommands /\ c.op # "insert" /\ c.op # "flush"
      BY DEF AggregatorCommands
    <3>2. commands' = Append(commands, c)
      BY <1>4, <2>2 DEF RequestEntry
    <3> HIDE DEF c
    <3> QED
      BY <2>1, <3>1, <3>2, CommandQueued
  <2>3. CASE ~running
    <3>1. UNCHANGED commands
      BY <1>4, <2>3 DEF RequestEntry
    <3> QED
      BY <1>1, <2>1, <3>1, FlusherMoves
  <2> QED
    BY <2>2, <2>3
<1>5. ASSUME RequestShutdown PROVE AggregatorInv'
  <2> DEFINE c == [op |-> "shutdown"]
  <2>1. c \in AggregatorCommands /\ c.op # "insert" /\ c.op # "flush"
    BY DEF AggregatorCommands
  <2>2. commands' = Append(commands, c)
        /\ UNCHANGED <<running, batch, map, flush, response, uninserted, overflowed, shadowed, lost, promised>>
    BY <1>5 DEF RequestShutdown, history
  <2> HIDE DEF c
  <2> QED
    BY <2>1, <2>2, CommandQueued
<1> QED
  BY <1>2, <1>3, <1>4, <1>5

-----------------------------------------------------------------------------
(* The steps of the service.                                               *)

\* The first command leaves the mailbox; the order of the others stays.
LEMMA CommandLeaves ==
  ASSUME AggregatorInv, commands # <<>>, commands' = Tail(commands), promised' = promised,
         uninserted' = uninserted, \A f \in Flushers : flush[f] # "idle" => flush'[f] # "idle"
  PROVE  /\ commands' \in Seq(AggregatorCommands)
         /\ \A i, k \in DOMAIN commands' :
              commands'[i].op = "insert" /\ commands'[k].op = "insert" /\ i # k
                => Values(commands'[i].metrics) \cap Values(commands'[k].metrics) = {}
         /\ \A f \in Flushers : promised'[f] \cap uninserted' = {}
         /\ \A i \in DOMAIN commands' : commands'[i].op = "flush" =>
              /\ flush'[commands'[i].from] # "idle"
              /\ \A k \in DOMAIN commands' : i < k /\ commands'[k].op = "insert"
                   => promised'[commands'[i].from] \cap Values(commands'[k].metrics) = {}
<1>1. commands \in Seq(AggregatorCommands)
  BY DEF AggregatorInv, AggregatorTypeOK
<1>2. PICK h : h = Head(commands)
  OBVIOUS
<1>3. /\ commands' \in Seq(AggregatorCommands)
      /\ \A i \in DOMAIN commands' : i + 1 \in DOMAIN commands /\ 1 < i + 1 /\ commands'[i] = commands[i + 1]
      /\ \A i, k \in DOMAIN commands' : (i < k <=> i + 1 < k + 1) /\ (i = k <=> i + 1 = k + 1)
  BY <1>1, <1>2, CommandTaken
<1>4. \A i \in DOMAIN commands : commands[i].op = "flush" => commands[i].from \in Flushers
  BY DEF AggregatorInv, AggregatorTypeOK, AggregatorCommands
<1>5. ASSUME NEW i \in DOMAIN commands', NEW k \in DOMAIN commands', commands'[i].op = "insert", commands'[k].op = "insert", i # k
      PROVE  Values(commands'[i].metrics) \cap Values(commands'[k].metrics) = {}
  <2>1. PICK a \in DOMAIN commands : a = i + 1
    BY <1>3
  <2>2. PICK b \in DOMAIN commands : b = k + 1
    BY <1>3
  <2>3. a # b /\ commands'[i] = commands[a] /\ commands'[k] = commands[b]
    BY <1>3, <1>5, <2>1, <2>2
  <2> QED
    BY <1>5, <2>3 DEF AggregatorInv, SamplesOnce
<1>6. ASSUME NEW i \in DOMAIN commands', commands'[i].op = "flush"
      PROVE  /\ flush'[commands'[i].from] # "idle"
             /\ \A k \in DOMAIN commands' : i < k /\ commands'[k].op = "insert"
                  => promised'[commands'[i].from] \cap Values(commands'[k].metrics) = {}
  <2>1. PICK a \in DOMAIN commands : a = i + 1
    BY <1>3
  <2>2. commands'[i] = commands[a]
    BY <1>3, <2>1
  <2>3. flush'[commands'[i].from] # "idle"
    BY <1>4, <1>6, <2>2 DEF AggregatorInv, FlushOrdered
  <2>4. ASSUME NEW k \in DOMAIN commands', i < k, commands'[k].op = "insert"
        PROVE  promised'[commands'[i].from] \cap Values(commands'[k].metrics) = {}
    <3>1. PICK b \in DOMAIN commands : b = k + 1
      BY <1>3
    <3>2. a < b /\ commands'[k] = commands[b]
      BY <1>3, <2>1, <2>4, <3>1
    <3> QED
      BY <1>6, <2>2, <2>4, <3>2 DEF AggregatorInv, FlushOrdered
  <2> QED
    BY <2>3, <2>4
<1>7. \A f \in Flushers : promised'[f] \cap uninserted' = {}
  BY DEF AggregatorInv, FlushOrdered
<1> QED
  BY <1>3, <1>5, <1>6, <1>7

\* A batch comes out of the mailbox.
LEMMA ReceiveBatchInv == ASSUME AggregatorInv, ReceiveBatch PROVE AggregatorInv'
<1>1. /\ batch = <<>> /\ commands # <<>> /\ commands' = Tail(commands)
      /\ UNCHANGED <<running, map, flush, response, uninserted, overflowed, shadowed, lost, promised>>
  BY DEF ReceiveBatch, Command, history
<1>2. commands \in Seq(AggregatorCommands)
  BY DEF AggregatorInv, AggregatorTypeOK
<1>3. PICK h : h = Head(commands)
  OBVIOUS
<1>4. h.op = "insert" /\ batch' = h.metrics
  BY <1>3 DEF ReceiveBatch, Command
<1>5. /\ h \in AggregatorCommands /\ h = commands[1] /\ 1 \in DOMAIN commands
      /\ \A i \in DOMAIN commands' : i + 1 \in DOMAIN commands /\ 1 < i + 1 /\ commands'[i] = commands[i + 1]
  BY <1>1, <1>2, <1>3, CommandTaken
<1>6. Queued(commands) = Queued(commands') \cup Brought(h)
  BY <1>1, <1>2, <1>3, CommandTaken
<1> DEFINE M == Values(batch')
<1>7. Queued(commands) = Queued(commands') \cup M
  BY <1>4, <1>6 DEF Brought
<1>8. batch' \in Seq(Samples) /\ Once(batch')
  BY <1>4, <1>5 DEF AggregatorCommands
<1> HIDE DEF M
<1>9. Queued(commands') \cap M = {}
  <2> SUFFICES ASSUME NEW e, e \in Queued(commands'), e \in M PROVE FALSE
    OBVIOUS
  <2>1. PICK i \in DOMAIN commands' : commands'[i].op = "insert" /\ e \in Values(commands'[i].metrics)
    BY DEF Queued
  <2>2. PICK a \in DOMAIN commands : a = i + 1
    BY <1>5
  <2>3. a # 1 /\ commands'[i] = commands[a]
    BY <1>5, <2>2
  <2>4. Values(commands[a].metrics) \cap Values(commands[1].metrics) = {}
    BY <1>4, <1>5, <2>1, <2>3 DEF AggregatorInv, SamplesOnce
  <2> QED
    BY <1>4, <1>5, <2>1, <2>3, <2>4 DEF M
<1>10. Values(batch) = {}
  BY <1>1 DEF Values
<1>11. Partition(Places', Samples)
  <2>1. Queued(commands') = Queued(commands) \ M /\ Delivered' = Delivered
    BY <1>1, <1>7, <1>9, DeliveredSame
  <2>2. Places'[3] = Places[3] \cup M
    BY <1>10, PlacesNow, PlacesNext DEF M
  <2>3. Moved(Places, Places', 2, 3, M)
    BY <1>1, <2>1, <2>2, PlacesNow, PlacesNext, OneToEight DEF Moved
  <2>4. M \subseteq Places[2] /\ 2 \in 1..8 /\ 3 \in 1..8 /\ 2 # 3
    BY <1>7, PlacesNow
  <2> QED
    BY <2>3, <2>4, MoveKeepsPartition DEF AggregatorInv
<1>12. EntriesOK' /\ OnlyMixedKindsShadow'
  BY <1>1 DEF AggregatorInv, EntriesOK, OnlyMixedKindsShadow
<1>13. FlushSeesEarlierInserts'
  <2>1. Queued(commands') \cup Values(batch') \cup Held(map') \subseteq Queued(commands) \cup Values(batch) \cup Held(map)
    BY <1>1, <1>7 DEF M
  <2> QED
    BY <1>1, <2>1, StillSeen
<1>14. AggregatorTypeOK'
  BY <1>1, <1>8, CommandLeaves DEF AggregatorInv, AggregatorTypeOK
<1>15. SamplesOnce'
  <2>1. \A f \in Flushers : flush'[f] # "done" => response'[f] = NoResponse
    BY <1>1 DEF AggregatorInv, SamplesOnce
  <2> QED
    BY <1>1, <1>8, <2>1, CommandLeaves DEF SamplesOnce
<1>16. FlushOrdered'
  BY <1>1, <1>13, CommandLeaves DEF FlushOrdered
<1> QED
  BY <1>11, <1>12, <1>14, <1>15, <1>16 DEF AggregatorInv

\* get_entry_by_id changes nothing but who waits.
LEMMA ServeGetInv == ASSUME AggregatorInv, ServeGet PROVE AggregatorInv'
<1>1. /\ commands # <<>> /\ commands' = Tail(commands)
      /\ UNCHANGED <<running, batch, map, flush, response, uninserted, overflowed, shadowed, lost, promised>>
  BY DEF ServeGet, Command, history
<1>2. commands \in Seq(AggregatorCommands)
  BY DEF AggregatorInv, AggregatorTypeOK
<1>3. PICK h : h = Head(commands)
  OBVIOUS
<1>4. Queued(commands) = Queued(commands') \cup Brought(h)
  BY <1>1, <1>2, <1>3, CommandTaken
<1>5. Brought(h) = {}
  BY <1>3 DEF ServeGet, Command, Brought
<1>6. Queued(commands') = Queued(commands)
  BY <1>4, <1>5
<1>7. EntriesOK' /\ Partition(Places', Samples) /\ OnlyMixedKindsShadow'
  BY <1>1, <1>6, NothingMoves
<1>8. FlushSeesEarlierInserts'
  BY <1>1, <1>6, StillSeen
<1>9. AggregatorTypeOK'
  BY <1>1, CommandLeaves DEF AggregatorInv, AggregatorTypeOK
<1>10. SamplesOnce'
  <2>1. Once(batch') /\ \A f \in Flushers : flush'[f] # "done" => response'[f] = NoResponse
    BY <1>1 DEF AggregatorInv, SamplesOnce
  <2> QED
    BY <1>1, <2>1, CommandLeaves DEF SamplesOnce
<1>11. FlushOrdered'
  BY <1>1, <1>8, CommandLeaves DEF FlushOrdered
<1> QED
  BY <1>7, <1>9, <1>10, <1>11 DEF AggregatorInv

\* The end of the service: what is still in the mailbox is lost.
LEMMA StopInv == ASSUME AggregatorInv, Stop PROVE AggregatorInv'
<1>1. /\ running' = FALSE /\ commands' = <<>> /\ lost' = lost \cup Queued(commands)
      /\ flush' = [f \in Flushers |-> IF flush[f] = "waiting" THEN "failed" ELSE flush[f]]
      /\ UNCHANGED <<batch, map, response, uninserted, overflowed, shadowed, promised>>
  BY DEF Stop
<1>2. /\ flush' \in [Flushers -> {"idle", "waiting", "dropped", "done", "failed"}]
      /\ \A f \in Flushers : flush'[f] = "done" <=> flush[f] = "done"
  BY <1>1 DEF AggregatorInv, AggregatorTypeOK
<1>3. DOMAIN commands' = {} /\ commands' \in Seq(AggregatorCommands)
  BY <1>1
<1>4. Queued(commands') = {} /\ Delivered' = Delivered
  BY <1>1, <1>3, DeliveredSame DEF Queued
<1>5. Partition(Places', Samples)
  <2> DEFINE M == Queued(commands)
  <2>1. Places'[2] = Places[2] \ M /\ Places'[8] = Places[8] \cup M
    BY <1>1, <1>4, PlacesNow, PlacesNext
  <2>2. \A k \in 1..8 : k # 2 /\ k # 8 => Places'[k] = Places[k]
    BY <1>1, <1>4, PlacesNow, PlacesNext, OneToEight
  <2>3. Moved(Places, Places', 2, 8, M)
    BY <2>1, <2>2 DEF Moved
  <2>4. M \subseteq Places[2] /\ 2 \in 1..8 /\ 8 \in 1..8 /\ 2 # 8
    BY PlacesNow
  <2> QED
    BY <2>3, <2>4, MoveKeepsPartition DEF AggregatorInv
<1>6. EntriesOK' /\ OnlyMixedKindsShadow'
  BY <1>1 DEF AggregatorInv, EntriesOK, OnlyMixedKindsShadow
<1>7. AggregatorTypeOK'
  BY <1>1, <1>2, <1>3 DEF AggregatorInv, AggregatorTypeOK
<1>8. SamplesOnce'
  BY <1>1, <1>2, <1>3 DEF AggregatorInv, SamplesOnce
<1>9. FlushSeesEarlierInserts'
  BY <1>1, <1>2, <1>4, StillSeen
<1>10. FlushOrdered'
  BY <1>1, <1>3, <1>9 DEF AggregatorInv, FlushOrdered
<1> QED
  BY <1>5, <1>6, <1>7, <1>8, <1>10 DEF AggregatorInv

\* MetricValue::aggregate forgets old samples only in a gauge, and the new one
\* only if it is of another kind.
LEMMA AggregateForgets ==
  ASSUME NEW e \in Entry, NEW s \in Samples
  PROVE  /\ Aggregate(e, s) \in Entry /\ Aggregate(e, s).kind = e.kind
         /\ Aggregate(e, s).value \subseteq e.value \cup {s}
         /\ \A t \in (e.value \cup {s}) \ Aggregate(e, s).value :
              e.kind = "gauge" \/ (t = s /\ Kind[s] # e.kind)
<1> DEFINE read == IF (e.kind = "distribution") <=> (Kind[s] = "distribution") THEN {s} ELSE {}
           value == IF e.kind = "gauge" THEN read ELSE e.value \cup read
<1>1. Kind[s] \in {"count", "gauge", "distribution"} /\ e.kind \in {"count", "gauge", "distribution"} /\ e.value \in SUBSET Samples
  BY MetricsAggregatorAssumption DEF Entry
<1>2. read \in SUBSET Samples /\ read \subseteq {s} /\ (s \notin read => Kind[s] # e.kind)
  BY <1>1
<1> HIDE DEF read
<1>3. value \in SUBSET Samples /\ value \subseteq e.value \cup {s}
  BY <1>1, <1>2
<1>4. \A t \in (e.value \cup {s}) \ value : e.kind = "gauge" \/ (t = s /\ Kind[s] # e.kind)
  BY <1>2
<1> HIDE DEF value
<1>5. Aggregate(e, s) = [e EXCEPT !.value = value]
  BY DEF Aggregate, value, read
<1>6. Aggregate(e, s) \in Entry /\ Aggregate(e, s).kind = e.kind /\ Aggregate(e, s).value = value
  BY <1>3, <1>5 DEF Entry
<1> QED
  BY <1>3, <1>4, <1>6

\* The rest of an insertion: the mailbox and the flushers are left alone.
LEMMA InsertRest ==
  ASSUME AggregatorInv, Insert, NEW s, s = Head(batch), Held(map') \subseteq Held(map) \cup {s}
  PROVE  SamplesOnce' /\ FlushOrdered'
<1>1. /\ batch # <<>> /\ batch' = Tail(batch)
      /\ UNCHANGED <<commands, flush, response, uninserted, promised>>
  BY DEF Insert
<1>2. batch \in Seq(Samples) /\ Once(batch)
  BY DEF AggregatorInv, AggregatorTypeOK, SamplesOnce
<1>3. s \in Values(batch) /\ Once(batch') /\ Values(batch') = Values(batch) \ {s}
  BY <1>1, <1>2, SampleTaken
<1>4. SamplesOnce'
  BY <1>1, <1>3 DEF AggregatorInv, SamplesOnce
<1>5. Queued(commands') \cup Values(batch') \cup Held(map') \subseteq Queued(commands) \cup Values(batch) \cup Held(map)
  BY <1>1, <1>3
<1>6. FlushSeesEarlierInserts'
  BY <1>1, <1>5, StillSeen
<1> QED
  BY <1>1, <1>4, <1>6 DEF AggregatorInv, FlushOrdered

\* Aggregator::insert into an entry: what the entry forgets is shadowed.
LEMMA InsertIntoEntry ==
  ASSUME AggregatorInv, Insert, Context[Head(batch)] \in DOMAIN map
  PROVE  AggregatorInv'
<1>1. PICK s : s = Head(batch)
  OBVIOUS
<1>2. batch # <<>> /\ batch' = Tail(batch) /\ batch \in Seq(Samples) /\ Once(batch)
  BY DEF AggregatorInv, AggregatorTypeOK, SamplesOnce, Insert
<1>3. s \in Values(batch) /\ s \in Samples /\ batch' \in Seq(Samples) /\ Values(batch') = Values(batch) \ {s}
  BY <1>1, <1>2, SampleTaken
<1>4. PICK c : c = Context[s]
  OBVIOUS
<1>5. PICK e : e = map[c]
  OBVIOUS
<1>6. PICK n : n = Aggregate(e, s)
  OBVIOUS
<1>7. /\ c \in DOMAIN map /\ map' = [map EXCEPT ![c] = n]
      /\ UNCHANGED <<commands, running, flush, response, uninserted, lost, promised, overflowed>>
  BY <1>1, <1>4, <1>5, <1>6 DEF Insert
<1>8. DOMAIN map' = DOMAIN map /\ map'[c] = n /\ \A x \in DOMAIN map : x # c => map'[x] = map[x]
  BY <1>7
<1>9. shadowed' = shadowed \cup ((e.value \cup {s}) \ n.value)
  BY <1>1, <1>4, <1>5, <1>7, <1>8 DEF Insert
<1> DEFINE D == (e.value \cup {s}) \ n.value
<1>10. e \in Entry /\ \A x \in DOMAIN map : map[x] \in Entry
  BY <1>5, <1>7 DEF AggregatorInv, AggregatorTypeOK
<1>11. /\ n \in Entry /\ n.kind = e.kind /\ n.value \subseteq e.value \cup {s}
       /\ \A t \in D : e.kind = "gauge" \/ (t = s /\ Kind[s] # e.kind)
  BY <1>3, <1>6, <1>10, AggregateForgets
<1>12. /\ \A x \in DOMAIN map : \A t \in map[x].value : Context[t] = x
       /\ \A x \in DOMAIN map : \E t \in Samples : Context[t] = x /\ Kind[t] = map[x].kind
  BY DEF AggregatorInv, EntriesOK
<1>13. \A t \in D : Context[t] = c /\ t \in e.value \cup {s} /\ t \notin n.value
  BY <1>4, <1>5, <1>7, <1>12
<1>14. \A t : t \in e.value \cup {s} /\ t \notin n.value => t \in D
  OBVIOUS
<1>15. shadowed' = shadowed \cup D
  BY <1>9
<1> HIDE DEF D
<1>16. ASSUME NEW t PROVE t \in Held(map) <=> \E x \in DOMAIN map : t \in map[x].value
  BY DEF Held
<1>17. ASSUME NEW t PROVE t \in Held(map') <=> \E x \in DOMAIN map' : t \in map'[x].value
  BY DEF Held
<1>18. ASSUME NEW t PROVE t \in Held(map') <=> (t \in Held(map) \/ t = s) /\ t \notin D
  <2>1. ASSUME t \in Held(map') PROVE (t \in Held(map) \/ t = s) /\ t \notin D
    <3>1. PICK x \in DOMAIN map : t \in map'[x].value
      BY <1>8, <1>17, <2>1
    <3>2. CASE x = c
      BY <1>5, <1>7, <1>8, <1>11, <1>13, <1>16, <3>1, <3>2
    <3>3. CASE x # c
      <4>1. t \in map[x].value
        BY <1>8, <3>1, <3>3
      <4>2. Context[t] = x
        BY <1>12, <4>1
      <4> QED
        BY <1>13, <1>16, <3>3, <4>1, <4>2
    <3> QED
      BY <3>2, <3>3
  <2>2. ASSUME t \notin D, t = s PROVE t \in Held(map')
    <3>1. t \in n.value
      BY <1>14, <2>2
    <3> QED
      BY <1>7, <1>8, <1>17, <3>1
  <2>3. ASSUME t \notin D, t \in Held(map) PROVE t \in Held(map')
    <3>1. PICK x \in DOMAIN map : t \in map[x].value
      BY <1>16, <2>3
    <3>2. CASE x = c
      <4>1. t \in n.value
        BY <1>5, <1>14, <2>3, <3>1, <3>2
      <4> QED
        BY <1>7, <1>8, <1>17, <4>1
    <3>3. CASE x # c
      BY <1>8, <1>17, <3>1, <3>3
    <3> QED
      BY <3>2, <3>3
  <2> QED
    BY <2>1, <2>2, <2>3
<1>19. Partition(Places', Samples)
  <2> DEFINE Q == [k \in 1..8 |-> IF k = 3 THEN Places[3] \ {s} ELSE IF k = 4 THEN Places[4] \cup {s} ELSE Places[k]]
  <2>1. Moved(Places, Q, 3, 4, {s}) /\ {s} \subseteq Places[3] /\ 3 \in 1..8 /\ 4 \in 1..8 /\ 3 # 4
    BY <1>3, PlacesNow DEF Moved
  <2>2. /\ Q[1] = uninserted /\ Q[2] = Queued(commands) /\ Q[3] = Values(batch) \ {s} /\ Q[4] = Held(map) \cup {s}
        /\ Q[5] = Delivered /\ Q[6] = overflowed /\ Q[7] = shadowed /\ Q[8] = lost
    BY PlacesNow
  <2> HIDE DEF Q
  <2>3. Partition(Q, Samples)
    BY <2>1, MoveKeepsPartition DEF AggregatorInv
  <2>4. Held(map') = (Held(map) \cup {s}) \ D /\ D \subseteq Q[4]
    <3>1. Held(map') = (Held(map) \cup {s}) \ D
      BY <1>18
    <3>2. \A t \in D : t \in Held(map) \/ t = s
      BY <1>5, <1>7, <1>13, <1>16
    <3> QED
      BY <2>2, <3>1, <3>2
  <2>5. Delivered' = Delivered
    BY <1>7, DeliveredSame
  <2>6. Places'[4] = Q[4] \ D /\ Places'[7] = Q[7] \cup D
    BY <1>15, <2>2, <2>4, PlacesNext
  <2>7. \A k \in 1..8 : k # 4 /\ k # 7 => Places'[k] = Q[k]
    BY <1>3, <1>7, <2>2, <2>5, PlacesNext, OneToEight
  <2>8. Moved(Q, Places', 4, 7, D) /\ 4 \in 1..8 /\ 7 \in 1..8 /\ 4 # 7
    BY <2>6, <2>7 DEF Moved
  <2> QED
    BY <2>3, <2>4, <2>8, MoveKeepsPartition
<1>20. AggregatorTypeOK'
  <2>1. map' = [x \in DOMAIN map' |-> map'[x]]
    BY <1>7
  <2>2. \A x \in DOMAIN map' : map'[x] \in Entry
    BY <1>8, <1>10, <1>11
  <2> QED
    BY <1>3, <1>7, <2>1, <2>2 DEF AggregatorInv, AggregatorTypeOK
<1>21. EntriesOK'
  <2>1. ASSUME NEW x \in DOMAIN map'
        PROVE  (\A t \in map'[x].value : Context[t] = x) /\ (\E t \in Samples : Context[t] = x /\ Kind[t] = map'[x].kind)
    <3>1. CASE x = c
      <4>1. \A t \in map'[x].value : Context[t] = x
        BY <1>4, <1>5, <1>7, <1>8, <1>11, <1>12, <3>1
      <4>2. \E t \in Samples : Context[t] = x /\ Kind[t] = map'[x].kind
        BY <1>5, <1>7, <1>8, <1>11, <1>12, <3>1
      <4> QED
        BY <4>1, <4>2
    <3>2. CASE x # c
      BY <1>8, <1>12, <2>1, <3>2
    <3> QED
      BY <3>1, <3>2
  <2> QED
    BY <1>8, <2>1 DEF AggregatorInv, EntriesOK
<1>22. OnlyMixedKindsShadow'
  <2>1. PICK u \in Samples : Context[u] = c /\ Kind[u] = e.kind
    BY <1>5, <1>7, <1>12
  <2>2. ASSUME NEW t \in D PROVE Kind[t] = "gauge" \/ \E v \in Samples : Context[v] = Context[t] /\ Kind[v] # Kind[t]
    BY <1>11, <1>13, <2>1, <2>2
  <2> QED
    BY <1>15, <2>2 DEF AggregatorInv, OnlyMixedKindsShadow
<1>23. Held(map') \subseteq Held(map) \cup {s}
  BY <1>18
<1> QED
  BY <1>1, <1>19, <1>20, <1>21, <1>22, <1>23, InsertRest DEF AggregatorInv

\* Aggregator::insert of a context that is not in the map: it gets an entry if
\* there is room for it.
LEMMA InsertNewContext ==
  ASSUME AggregatorInv, Insert, Context[Head(batch)] \notin DOMAIN map
  PROVE  AggregatorInv'
<1>1. PICK s : s = Head(batch)
  OBVIOUS
<1>2. batch # <<>> /\ batch' = Tail(batch) /\ batch \in Seq(Samples) /\ Once(batch)
  BY DEF AggregatorInv, AggregatorTypeOK, SamplesOnce, Insert
<1>3. s \in Values(batch) /\ s \in Samples /\ batch' \in Seq(Samples) /\ Values(batch') = Values(batch) \ {s}
  BY <1>1, <1>2, SampleTaken
<1>4. PICK c : c = Context[s]
  OBVIOUS
<1>5. c \notin DOMAIN map /\ shadowed' = shadowed
      /\ UNCHANGED <<commands, running, flush, response, uninserted, lost, promised>>
  BY <1>1, <1>4 DEF Insert
<1>6. Delivered' = Delivered /\ OnlyMixedKindsShadow'
  BY <1>5, DeliveredSame DEF AggregatorInv, OnlyMixedKindsShadow
<1>7. CASE HasRoom
  <2> DEFINE n == [kind |-> Kind[s], value |-> {s}]
  <2>1. /\ map' = [x \in DOMAIN map \cup {c} |-> IF x = c THEN n ELSE map[x]] /\ overflowed' = overflowed
    BY <1>1, <1>4, <1>5, <1>7 DEF Insert
  <2>2. n \in Entry /\ n.kind = Kind[s] /\ n.value = {s}
    BY <1>3, MetricsAggregatorAssumption DEF Entry
  <2> HIDE DEF n
  <2>3. DOMAIN map' = DOMAIN map \cup {c} /\ map'[c] = n /\ \A x \in DOMAIN map : map'[x] = map[x]
    BY <1>5, <2>1
  <2>4. AggregatorTypeOK'
    <3>1. map' = [x \in DOMAIN map' |-> map'[x]]
      BY <2>1
    <3>2. \A x \in DOMAIN map' : map'[x] \in Entry
      BY <2>2, <2>3 DEF AggregatorInv, AggregatorTypeOK
    <3> QED
      BY <1>3, <1>5, <3>1, <3>2 DEF AggregatorInv, AggregatorTypeOK
  <2>5. EntriesOK'
    <3>1. ASSUME NEW x \in DOMAIN map'
          PROVE  (\A t \in map'[x].value : Context[t] = x) /\ (\E t \in Samples : Context[t] = x /\ Kind[t] = map'[x].kind)
      <4>1. CASE x = c
        BY <1>3, <1>4, <2>2, <2>3, <4>1
      <4>2. CASE x \in DOMAIN map
        BY <2>3, <4>2 DEF AggregatorInv, EntriesOK
      <4> QED
        BY <2>3, <4>1, <4>2
    <3>2. IsFiniteSet(DOMAIN map)
      BY DEF AggregatorInv, EntriesOK
    <3>3. IsFiniteSet(DOMAIN map \cup {c}) /\ Cardinality(DOMAIN map \cup {c}) = Cardinality(DOMAIN map) + 1
      BY <1>5, <3>2, FS_AddElement
    <3>4. Cardinality(DOMAIN map) \in Nat /\ MaxContexts \in Nat /\ Cardinality(DOMAIN map) < MaxContexts
      BY <1>7, <3>2, FS_CardinalityType, MetricsAggregatorAssumption DEF HasRoom
    <3>5. IsFiniteSet(DOMAIN map') /\ Cardinality(DOMAIN map') <= MaxContexts
      BY <2>3, <3>3, <3>4
    <3> QED
      BY <3>1, <3>5 DEF EntriesOK
  <2>6. ASSUME NEW t PROVE t \in Held(map') <=> t \in Held(map) \/ t = s
    <3>1. t \in Held(map) <=> \E x \in DOMAIN map : t \in map[x].value
      BY DEF Held
    <3>2. t \in Held(map') <=> \E x \in DOMAIN map' : t \in map'[x].value
      BY DEF Held
    <3> QED
      BY <2>2, <2>3, <3>1, <3>2
  <2>7. Partition(Places', Samples)
    <3>1. Held(map') = Held(map) \cup {s}
      BY <2>6
    <3>2. Moved(Places, Places', 3, 4, {s})
      BY <1>3, <1>5, <1>6, <2>1, <3>1, PlacesNow, PlacesNext, OneToEight DEF Moved
    <3>3. {s} \subseteq Places[3] /\ 3 \in 1..8 /\ 4 \in 1..8 /\ 3 # 4
      BY <1>3, PlacesNow
    <3> QED
      BY <3>2, <3>3, MoveKeepsPartition DEF AggregatorInv
  <2>8. Held(map') \subseteq Held(map) \cup {s}
    BY <2>6
  <2> QED
    BY <1>1, <1>6, <2>4, <2>5, <2>7, <2>8, InsertRest DEF AggregatorInv
<1>8. CASE ~HasRoom
  <2>1. map' = map /\ overflowed' = overflowed \cup {s}
    BY <1>1, <1>4, <1>5, <1>8 DEF Insert
  <2>2. AggregatorTypeOK' /\ EntriesOK'
    BY <1>3, <1>5, <2>1 DEF AggregatorInv, AggregatorTypeOK, EntriesOK
  <2>3. Partition(Places', Samples)
    <3>1. Moved(Places, Places', 3, 6, {s})
      BY <1>3, <1>5, <1>6, <2>1, PlacesNow, PlacesNext, OneToEight DEF Moved
    <3>2. {s} \subseteq Places[3] /\ 3 \in 1..8 /\ 6 \in 1..8 /\ 3 # 6
      BY <1>3, PlacesNow
    <3> QED
      BY <3>1, <3>2, MoveKeepsPartition DEF AggregatorInv
  <2>4. Held(map') \subseteq Held(map) \cup {s}
    BY <2>1
  <2> QED
    BY <1>1, <1>6, <2>2, <2>3, <2>4, InsertRest DEF AggregatorInv
<1> QED
  BY <1>7, <1>8

\* Payloads hold what the entries they are made of hold.
LEMMA PayloadsHold ==
  ASSUME NEW V, NEW H, NEW p \in Seq(Seq(V)), \A e \in V : e.value \subseteq H
  PROVE  InPayloads(p) \subseteq H
<1>1. ASSUME NEW i \in DOMAIN p, NEW j \in DOMAIN p[i] PROVE p[i][j] \in V
  <2>1. p[i] \in Seq(V)
    OBVIOUS
  <2> QED
    BY <2>1
<1> QED
  BY <1>1 DEF InPayloads

\* The points or sketches made of live contexts.
LEMMA ListingHeld ==
  ASSUME AggregatorInv, NEW S \in SUBSET DOMAIN map, NEW l \in Listings(S)
  PROVE  /\ l \in Seq(Values(l))
         /\ \A e \in Values(l) : Sizes(l)[e] \in Nat /\ e.value \subseteq Held(map)
<1>1. PICK o \in Orders(S) :
        l = [i \in DOMAIN o |-> [context |-> o[i], kind |-> map[o[i]].kind, value |-> map[o[i]].value]]
  BY DEF Listings
<1>2. IsFiniteSet(S)
  BY FS_Subset DEF AggregatorInv, EntriesOK
<1>3. Cardinality(S) \in Nat
  BY <1>2, FS_CardinalityType
<1>4. o \in [1..Cardinality(S) -> S]
  BY DEF Orders
<1>5. DOMAIN l = 1..Cardinality(S)
  BY <1>1, <1>4
<1>6. ASSUME NEW e \in Values(l) PROVE \E c \in DOMAIN map : e.context = c /\ e.value = map[c].value
  <2>1. PICK i \in DOMAIN l : e = l[i]
    BY DEF Values
  <2>2. o[i] \in DOMAIN map /\ e = [context |-> o[i], kind |-> map[o[i]].kind, value |-> map[o[i]].value]
    BY <1>1, <1>4, <1>5, <2>1
  <2> QED
    BY <2>2
<1>7. \A c \in DOMAIN map : Size[c] \in Nat /\ map[c].value \subseteq Held(map)
  <2>1. ASSUME NEW c \in DOMAIN map PROVE Size[c] \in Nat
    <3>1. PICK s \in Samples : Context[s] = c
      BY DEF AggregatorInv, EntriesOK
    <3> QED
      BY <3>1, MetricsAggregatorAssumption
  <2>2. ASSUME NEW c \in DOMAIN map PROVE map[c].value \subseteq Held(map)
    BY DEF Held
  <2> QED
    BY <2>1, <2>2
<1>8. l \in [1..Cardinality(S) -> Values(l)]
  BY <1>1, <1>5 DEF Values
<1>9. l \in Seq(Values(l))
  BY <1>3, <1>8
<1>10. \A e \in Values(l) : Sizes(l)[e] = Size[e.context]
  BY DEF Sizes
<1> QED
  BY <1>6, <1>7, <1>9, <1>10

\* What a flush answers with: samples that were in the map, which the flusher
\* receives if it still waits.
Answered(f, received) ==
  /\ received \subseteq Held(map)
  /\ flush' = [flush EXCEPT ![f] = IF flush[f] = "waiting" THEN "done" ELSE flush[f]]
  /\ response' = [g \in Flushers |-> response'[g]]
  /\ \A g \in Flushers : g # f => response'[g] = response[g]
  /\ IF flush[f] = "waiting" THEN InResponse(response'[f]) = received
                             ELSE response'[f] = response[f] /\ received = {}
  /\ lost' = lost \cup (Held(map) \ received)

LEMMA FlushAnswers ==
  ASSUME AggregatorInv, ServeFlush, NEW f \in Flushers, f = Head(commands).from
  PROVE  \E received : Answered(f, received)
<1> DEFINE S1 == {c \in DOMAIN map : ~IsDistribution(c)}
           S2 == {c \in DOMAIN map : IsDistribution(c)}
<1>1. PICK points \in Listings(S1), sketches \in Listings(S2) :
        LET r == [series |-> B!ConsumeMetrics(points, Sizes(points)),
                  distributions |-> B!ConsumeDistributions(sketches, Sizes(sketches))]
            received == IF flush[f] = "waiting" THEN InResponse(r) ELSE {}
        IN /\ flush' = [flush EXCEPT ![f] = IF @ = "waiting" THEN "done" ELSE @]
           /\ response' = [response EXCEPT ![f] = IF flush[f] = "waiting" THEN r ELSE @]
           /\ lost' = lost \cup (Held(map) \ received)
  BY DEF ServeFlush
<1>2. S1 \in SUBSET DOMAIN map /\ S2 \in SUBSET DOMAIN map
  OBVIOUS
<1> HIDE DEF S1, S2
<1>3. PICK p : p = B!ConsumeMetrics(points, Sizes(points))
  OBVIOUS
<1>4. PICK d : d = B!ConsumeDistributions(sketches, Sizes(sketches))
  OBVIOUS
<1>5. InPayloads(p) \subseteq Held(map)
  <2>1. points \in Seq(Values(points)) /\ \A e \in Values(points) : Sizes(points)[e] \in Nat /\ e.value \subseteq Held(map)
    BY <1>2, ListingHeld
  <2>2. p \in Seq(Seq(Values(points)))
    BY <1>3, <2>1, SeriesPayloads
  <2> QED
    BY <2>1, <2>2, PayloadsHold
<1>6. InPayloads(d) \subseteq Held(map)
  <2>1. sketches \in Seq(Values(sketches)) /\ \A e \in Values(sketches) : Sizes(sketches)[e] \in Nat /\ e.value \subseteq Held(map)
    BY <1>2, ListingHeld
  <2>2. d \in Seq(Seq(Values(sketches)))
    BY <1>4, <2>1, SketchPayloads
  <2> QED
    BY <2>1, <2>2, PayloadsHold
<1>7. PICK r : r = [series |-> p, distributions |-> d]
  OBVIOUS
<1>8. InResponse(r) \subseteq Held(map)
  BY <1>5, <1>6, <1>7 DEF InResponse
<1>9. PICK received : received = IF flush[f] = "waiting" THEN InResponse(r) ELSE {}
  OBVIOUS
<1>10. /\ flush' = [flush EXCEPT ![f] = IF flush[f] = "waiting" THEN "done" ELSE flush[f]]
       /\ response' = [response EXCEPT ![f] = IF flush[f] = "waiting" THEN r ELSE response[f]]
       /\ lost' = lost \cup (Held(map) \ received)
  BY <1>1, <1>3, <1>4, <1>7, <1>9
<1>11. response = [g \in Flushers |-> response[g]]
  BY DEF AggregatorInv, AggregatorTypeOK
<1>12. DOMAIN response = Flushers
  BY <1>11
<1>13. /\ response' = [g \in Flushers |-> response'[g]]
       /\ \A g \in Flushers : g # f => response'[g] = response[g]
       /\ response'[f] = IF flush[f] = "waiting" THEN r ELSE response[f]
  BY <1>10, <1>12
<1>14. received \subseteq Held(map)
  BY <1>8, <1>9
<1>15. IF flush[f] = "waiting" THEN InResponse(response'[f]) = received
                               ELSE response'[f] = response[f] /\ received = {}
  BY <1>9, <1>13
<1>16. Answered(f, received)
  BY <1>10, <1>13, <1>14, <1>15 DEF Answered
<1> QED
  BY <1>16

\* A flush empties the map.
LEMMA ServeFlushInv == ASSUME AggregatorInv, ServeFlush PROVE AggregatorInv'
<1>1. /\ batch = <<>> /\ commands # <<>> /\ commands' = Tail(commands)
      /\ UNCHANGED <<running, batch, uninserted, overflowed, shadowed, promised>>
  BY DEF ServeFlush, Command
<1>2. commands \in Seq(AggregatorCommands)
      /\ flush \in [Flushers -> {"idle", "waiting", "dropped", "done", "failed"}]
  BY DEF AggregatorInv, AggregatorTypeOK
<1>3. PICK h : h = Head(commands)
  OBVIOUS
<1>4. /\ h \in AggregatorCommands /\ h = commands[1] /\ 1 \in DOMAIN commands
      /\ \A i \in DOMAIN commands' : i + 1 \in DOMAIN commands /\ 1 < i + 1 /\ commands'[i] = commands[i + 1]
  BY <1>1, <1>2, <1>3, CommandTaken
<1>5. Queued(commands) = Queued(commands') \cup Brought(h)
  BY <1>1, <1>2, <1>3, CommandTaken
<1>6. h.op = "flush" /\ Brought(h) = {}
  BY <1>3 DEF ServeFlush, Command, Brought
<1>7. Queued(commands') = Queued(commands)
  BY <1>5, <1>6
<1>8. PICK f \in Flushers : f = h.from
  BY <1>4, <1>6 DEF AggregatorCommands
<1>9. PICK received : Answered(f, received)
  BY <1>3, <1>8, FlushAnswers
<1>10. map' = [c \in {} |-> map[c]]
  BY DEF ServeFlush, LeftAfterFlush
<1>11. DOMAIN map' = {}
  BY <1>10
<1>12. Held(map') = {} /\ Values(batch') = {}
  BY <1>1, <1>11 DEF Held, Values
<1>13. /\ flush' \in [Flushers -> {"idle", "waiting", "dropped", "done", "failed"}]
       /\ \A g \in Flushers : g # f => flush'[g] = flush[g]
       /\ flush'[f] = IF flush[f] = "waiting" THEN "done" ELSE flush[f]
       /\ \A g \in Flushers : flush[g] # "idle" => flush'[g] # "idle"
  BY <1>2, <1>9 DEF Answered
<1>14. Delivered' = Delivered \cup received
  <2>1. ASSUME NEW t PROVE t \in Delivered <=> \E g \in Flushers : t \in InResponse(response[g])
    BY DEF Delivered
  <2>2. ASSUME NEW t PROVE t \in Delivered' <=> \E g \in Flushers : t \in InResponse(response'[g])
    BY DEF Delivered, InResponse, InPayloads
  <2>3. ASSUME NEW g \in Flushers PROVE InResponse(response'[g]) = InResponse(response[g]) \cup (IF g = f THEN received ELSE {})
    <3>1. CASE g # f
      BY <1>9, <3>1 DEF Answered
    <3>2. CASE g = f /\ flush[f] = "waiting"
      <4>1. response[f] = NoResponse
        BY <3>2 DEF AggregatorInv, SamplesOnce
      <4>2. InResponse(response[f]) = {}
        BY <4>1 DEF InResponse, NoResponse, InPayloads
      <4>3. InResponse(response'[f]) = received
        BY <1>9, <3>2 DEF Answered
      <4> QED
        BY <3>2, <4>2, <4>3
    <3>3. CASE g = f /\ flush[f] # "waiting"
      <4>1. response'[f] = response[f] /\ received = {}
        BY <1>9, <3>3 DEF Answered
      <4> QED
        BY <3>3, <4>1
    <3> QED
      BY <3>1, <3>2, <3>3
  <2> QED
    BY <2>1, <2>2, <2>3
<1>15. Partition(Places', Samples)
  <2> DEFINE Q == [k \in 1..8 |-> IF k = 4 THEN Places[4] \ received ELSE IF k = 5 THEN Places[5] \cup received ELSE Places[k]]
             D == Held(map) \ received
  <2>1. Moved(Places, Q, 4, 5, received) /\ received \subseteq Places[4] /\ 4 \in 1..8 /\ 5 \in 1..8 /\ 4 # 5
    BY <1>9, PlacesNow DEF Moved, Answered
  <2>2. /\ Q[1] = uninserted /\ Q[2] = Queued(commands) /\ Q[3] = Values(batch) /\ Q[4] = D
        /\ Q[5] = Delivered \cup received /\ Q[6] = overflowed /\ Q[7] = shadowed /\ Q[8] = lost
    BY PlacesNow
  <2> HIDE DEF Q
  <2>3. Partition(Q, Samples)
    BY <2>1, MoveKeepsPartition DEF AggregatorInv
  <2>4. Places'[4] = Q[4] \ D /\ Places'[8] = Q[8] \cup D
    BY <1>9, <1>12, <2>2, PlacesNext DEF Answered
  <2>5. \A k \in 1..8 : k # 4 /\ k # 8 => Places'[k] = Q[k]
    BY <1>1, <1>7, <1>14, <2>2, PlacesNext, OneToEight
  <2>6. Moved(Q, Places', 4, 8, D) /\ D \subseteq Q[4] /\ 4 \in 1..8 /\ 8 \in 1..8 /\ 4 # 8
    BY <2>2, <2>4, <2>5 DEF Moved
  <2> QED
    BY <2>3, <2>6, MoveKeepsPartition
<1>16. AggregatorTypeOK'
  <2>1. commands' \in Seq(AggregatorCommands)
    BY <1>1, <1>13, CommandLeaves
  <2>2. map' = [c \in DOMAIN map' |-> map'[c]] /\ \A c \in DOMAIN map' : map'[c] \in Entry
    BY <1>10, <1>11
  <2>3. response' = [g \in Flushers |-> response'[g]]
    BY <1>9 DEF Answered
  <2> QED
    BY <1>1, <1>13, <2>1, <2>2, <2>3 DEF AggregatorInv, AggregatorTypeOK
<1>17. EntriesOK' /\ OnlyMixedKindsShadow'
  <2>1. IsFiniteSet(DOMAIN map') /\ Cardinality(DOMAIN map') <= MaxContexts
    BY <1>11, FS_EmptySet, MetricsAggregatorAssumption
  <2> QED
    BY <1>1, <1>11, <2>1 DEF AggregatorInv, EntriesOK, OnlyMixedKindsShadow
<1>18. SamplesOnce'
  <2>1. ASSUME NEW g \in Flushers, flush'[g] # "done" PROVE response'[g] = NoResponse
    <3>1. CASE g # f
      BY <1>9, <1>13, <2>1, <3>1 DEF AggregatorInv, SamplesOnce, Answered
    <3>2. CASE g = f
      <4>1. flush[f] # "waiting" /\ flush[f] # "done"
        BY <1>13, <2>1, <3>2
      <4> QED
        BY <1>9, <3>2, <4>1 DEF AggregatorInv, SamplesOnce, Answered
    <3> QED
      BY <3>1, <3>2
  <2>2. Once(batch')
    BY <1>1 DEF AggregatorInv, SamplesOnce
  <2> QED
    BY <1>1, <1>13, <2>1, <2>2, CommandLeaves DEF SamplesOnce
<1>19. FlushSeesEarlierInserts'
  <2>1. promised[f] \cap Queued(commands') = {}
    <3> SUFFICES ASSUME NEW t, t \in promised[f], t \in Queued(commands') PROVE FALSE
      OBVIOUS
    <3>1. PICK i \in DOMAIN commands' : commands'[i].op = "insert" /\ t \in Values(commands'[i].metrics)
      BY DEF Queued
    <3>2. PICK k \in DOMAIN commands : k = i + 1
      BY <1>4
    <3>3. 1 < k /\ commands'[i] = commands[k]
      BY <1>4, <3>2
    <3>4. promised[f] \cap Values(commands[k].metrics) = {}
      BY <1>4, <1>6, <1>8, <3>1, <3>3 DEF AggregatorInv, FlushOrdered
    <3> QED
      BY <3>1, <3>3, <3>4
  <2>2. \A g \in Flushers : flush[g] = "done" => promised[g] \cap (Queued(commands) \cup Values(batch) \cup Held(map)) = {}
    BY DEF AggregatorInv, FlushOrdered, FlushSeesEarlierInserts, InMailbox, InMap
  <2>3. ASSUME NEW g \in Flushers, flush'[g] = "done" PROVE promised'[g] \cap (Queued(commands') \cup Values(batch') \cup Held(map')) = {}
    <3>1. CASE g = f
      BY <1>1, <1>12, <2>1, <3>1
    <3>2. CASE g # f
      <4>1. flush[g] = "done"
        BY <1>13, <2>3, <3>2
      <4> QED
        BY <1>1, <1>7, <1>12, <2>2, <4>1
    <3> QED
      BY <3>1, <3>2
  <2> QED
    BY <2>3 DEF FlushSeesEarlierInserts, InMailbox, InMap
<1>20. FlushOrdered'
  BY <1>1, <1>13, <1>19, CommandLeaves DEF FlushOrdered
<1> QED
  BY <1>15, <1>16, <1>17, <1>18, <1>20 DEF AggregatorInv

-----------------------------------------------------------------------------
(* The theorems about the aggregator.                                      *)

LEMMA NextAggregatorInv == ASSUME AggregatorInv, [AggregatorNext]_aggregatorVars PROVE AggregatorInv'
<1>1. CASE UNCHANGED aggregatorVars
  <2>1. UNCHANGED <<commands, running, batch, map, flush, response, uninserted, overflowed, shadowed, lost, promised>>
    BY <1>1 DEF aggregatorVars, history
  <2>2. flush' \in [Flushers -> {"idle", "waiting", "dropped", "done", "failed"}]
    BY <2>1 DEF AggregatorInv, AggregatorTypeOK
  <2> QED
    BY <2>1, <2>2, FlusherMoves
<1>2. CASE Handle
  BY <1>2, InsertBatchInv, RequestInv DEF Handle
<1>3. CASE Service
  BY <1>3, ReceiveBatchInv, InsertIntoEntry, InsertNewContext, ServeFlushInv, ServeGetInv, StopInv DEF Service
<1> QED
  BY <1>1, <1>2, <1>3 DEF AggregatorNext

\* The invariant of the aggregator: entries keep to their context, their number
\* stays within max_context, and every sample is in one place.
THEOREM AggregatorInvariance == AggregatorSpec => []AggregatorInv
  BY InitAggregatorInv, NextAggregatorInv, PTL DEF AggregatorSpec

\* No sample is counted twice, none disappears unnoticed and the map stays
\* within max_context, whatever callers do and however flushes overlap
\* (aggregator/core.rs, insert and consume_metrics).
THEOREM SamplesAccountedOnce == AggregatorSpec => []AccountedOnce
<1>1. ASSUME AggregatorInv PROVE AccountedOnce
  <2>1. \A s \in Samples : Cardinality({p \in 1..8 : s \in Places[p]}) = 1
    <3> TAKE s \in Samples
    <3>1. Cardinality({p \in 1..8 : s \in Places[p]}) = IF s \in Samples THEN 1 ELSE 0
      BY <1>1, OnePlaceEach DEF AggregatorInv
    <3> QED
      BY <3>1
  <2> QED
    BY <1>1, <2>1 DEF AggregatorInv, EntriesOK, AccountedOnce
<1> QED
  BY <1>1, AggregatorInvariance, PTL

\* A flush has seen every batch that was inserted before it was requested
\* (aggregator/service.rs, run).
THEOREM FlushIsOrdered == AggregatorSpec => []FlushSeesEarlierInserts
<1>1. ASSUME AggregatorInv PROVE FlushSeesEarlierInserts
  BY <1>1 DEF AggregatorInv, FlushOrdered
<1> QED
  BY <1>1, AggregatorInvariance, PTL

=============================================================================
