--------------------------- MODULE TracePipeline ---------------------------
(***************************************************************************)
(* The way of a trace payload through crates/datadog-trace-agent: the      *)
(* handler process_traces takes a permit, decodes and splits the payload   *)
(* and spawns a task that carries the permit and hands the pieces to a     *)
(* bounded channel (src/trace_processor.rs); a detached task moves pieces  *)
(* from the channel to the aggregator, under the mutex that the flusher    *)
(* holds while it sends batch after batch (src/trace_flusher.rs).  At      *)
(* shutdown the supervisor waits for the handlers and aborts the flusher   *)
(* (src/mini_agent.rs).                                                    *)
(***************************************************************************)
EXTENDS TraceBatches, FiniteSets

CONSTANTS
  Requests,      \* requests to the trace endpoint
  Payload,       \* Payload[r]: the chunk sizes of the payload of r
  Verdict,       \* Verdict[r]: "refused" by its headers, "bad" body, or "good"
  MaxPermits,    \* MAX_IN_FLIGHT_ENQUEUES
  ChannelSize,   \* TRACER_PAYLOAD_CHANNEL_BUFFER_SIZE
  CanShutdown    \* whether shutdown may be requested

ASSUME TracePipelineAssumption ==
  /\ IsFiniteSet(Requests)
  /\ Payload \in [Requests -> Seq(Nat)]
  /\ Verdict \in [Requests -> {"refused", "bad", "good"}]
  /\ MaxPermits \in Nat \ {0} /\ ChannelSize \in Nat \ {0}
  /\ MaxContentSize \in Nat \ {0} /\ Envelope \in Nat /\ Overhead \in Nat
  /\ CanShutdown \in BOOLEAN

VARIABLES
  phase,    \* phase[r]: where the handler of r is
  response, \* response[r]: what it answered
  free,     \* permits of the semaphore
  todo,     \* todo[r]: pieces the enqueue task of r has still to send
  tasks,    \* requests whose enqueue task runs
  channel,  \* the channel to the flusher
  open,     \* its receiver is alive
  hand,     \* the piece the adder task received and adds next
  queue,    \* the aggregator's queue
  flusher,  \* what the flusher does
  batch,    \* pieces of the batch being sent
  \* history
  left,     \* pieces that have left the agent, in order
  flushed   \* those the flusher sent, or failed to send

handlers == <<phase, response, free>>
enqueue == <<todo, tasks, channel>>
flush == <<hand, queue, flusher, batch>>
vars == <<handlers, enqueue, open, flush, left, flushed>>

\* A piece of a payload, identified by its request and its place in it.
Pieces(r) ==
  LET split == SplitTracerPayload(Payload[r])
  IN  [i \in 1..Len(split) |-> [of |-> r, no |-> i, size |-> PieceSize(split[i])]]

Init ==
  /\ phase = [r \in Requests |-> "new"] /\ response = [r \in Requests |-> "none"]
  /\ free = MaxPermits
  /\ todo = [r \in Requests |-> <<>>] /\ tasks = {}
  /\ channel = <<>> /\ open = TRUE
  /\ hand = <<>> /\ queue = <<>> /\ flusher = "starting" /\ batch = <<>>
  /\ left = <<>> /\ flushed = {}

-----------------------------------------------------------------------------
(* process_traces                                                          *)

Answer(r, a) == phase' = [phase EXCEPT ![r] = "done"] /\ response' = [response EXCEPT ![r] = a]

\* The headers are checked before a permit is waited for.
Arrive(r) ==
  /\ phase[r] = "new" /\ flusher # "aborted"
  /\ \/ Verdict[r] = "refused" /\ Answer(r, "error")
     \/ /\ Verdict[r] # "refused"
        /\ phase' = [phase EXCEPT ![r] = "waiting"] /\ UNCHANGED response
  /\ UNCHANGED <<free, enqueue, open, flush, left, flushed>>

AcquirePermit(r) ==
  /\ phase[r] = "waiting" /\ free > 0
  /\ free' = free - 1
  /\ phase' = [phase EXCEPT ![r] = "decoding"]
  /\ UNCHANGED <<response, enqueue, open, flush, left, flushed>>

\* No permit in time: the body is drained and the traces are dropped.
PermitTimeout(r) ==
  /\ phase[r] = "waiting" /\ free = 0
  /\ Answer(r, "dropped")
  /\ UNCHANGED <<free, enqueue, open, flush, left, flushed>>

\* Mutant: the permit is not given back when decoding fails.
DecodeLeaks(r) ==
  /\ phase[r] = "decoding"
  /\ \/ /\ Verdict[r] = "bad"
        /\ Answer(r, "error")
        /\ UNCHANGED <<free, todo, tasks>>
     \/ /\ Verdict[r] = "good"
        /\ Answer(r, "buffered")
        /\ todo' = [todo EXCEPT ![r] = Pieces(r)]
        /\ tasks' = tasks \cup {r}
        /\ UNCHANGED free
  /\ UNCHANGED <<channel, open, flush, left, flushed>>

\* A body that cannot be decoded, is too large or has a bad chunk is an error
\* and returns the permit.  Otherwise the payload is split, the permit and the
\* pieces go to a task of their own, and the client is told that the traces
\* are buffered.
Decode(r) ==
  /\ phase[r] = "decoding"
  /\ \/ /\ Verdict[r] = "bad"
        /\ Answer(r, "error")
        /\ free' = free + 1
        /\ UNCHANGED <<todo, tasks>>
     \/ /\ Verdict[r] = "good"
        /\ Answer(r, "buffered")
        /\ todo' = [todo EXCEPT ![r] = Pieces(r)]
        /\ tasks' = tasks \cup {r}
        /\ UNCHANGED free
  /\ UNCHANGED <<channel, open, flush, left, flushed>>

\* The client goes away while its handler waits: the server drops the handler.
Disconnect(r) ==
  /\ phase[r] \in {"waiting", "decoding"}
  /\ free' = IF phase[r] = "decoding" THEN free + 1 ELSE free
  /\ phase' = [phase EXCEPT ![r] = "gone"]
  /\ UNCHANGED <<response, enqueue, open, flush, left, flushed>>

\* The enqueue task: one send, which waits for room in the channel.
EnqueuePiece(r) ==
  /\ r \in tasks /\ todo[r] # <<>> /\ open
  /\ Len(channel) < ChannelSize
  /\ channel' = Append(channel, Head(todo[r]))
  /\ todo' = [todo EXCEPT ![r] = Tail(@)]
  /\ UNCHANGED <<handlers, tasks, open, flush, left, flushed>>

\* The task ends when all is sent, or with an error when the receiver is
\* gone; the permit is released with it.
EndEnqueue(r) ==
  /\ r \in tasks /\ (todo[r] = <<>> \/ ~open)
  /\ left' = left \o todo[r]
  /\ todo' = [todo EXCEPT ![r] = <<>>]
  /\ tasks' = tasks \ {r}
  /\ free' = free + 1
  /\ UNCHANGED <<phase, response, channel, open, flush, flushed>>

-----------------------------------------------------------------------------
(* ServerlessTraceFlusher: the adder task and the flush loop.              *)

StartFlusher ==
  /\ flusher = "starting"
  /\ flusher' = "sleeping"
  /\ UNCHANGED <<handlers, enqueue, open, hand, queue, batch, left, flushed>>

\* The adder exists once the flusher was started, and outlives it.
Receive ==
  /\ flusher # "starting" /\ open
  /\ channel # <<>> /\ hand = <<>>
  /\ hand' = <<Head(channel)>>
  /\ channel' = Tail(channel)
  /\ UNCHANGED <<handlers, todo, tasks, open, queue, flusher, batch, left, flushed>>

\* The flusher has the aggregator's mutex.
Locked == flusher \in {"flushing", "sending"}

\* Mutant: a payload is added at the wrong end.
AddInFront ==
  /\ hand # <<>> /\ ~Locked
  /\ queue' = hand \o queue
  /\ hand' = <<>>
  /\ UNCHANGED <<handlers, enqueue, open, flusher, batch, left, flushed>>

\* It waits for the mutex.
Add ==
  /\ hand # <<>> /\ ~Locked
  /\ queue' = queue \o hand
  /\ hand' = <<>>
  /\ UNCHANGED <<handlers, enqueue, open, flusher, batch, left, flushed>>

Size(s) == [i \in DOMAIN s |-> s[i].size]

\* get_batch, with the mutex held: what is left of the queue is taken by the
\* calls that follow.
TakeBatch ==
  LET n == GetBatchLength(Size(queue)) IN
  /\ batch' = SubSeq(queue, 1, n)
  /\ queue' = SubSeq(queue, n + 1, Len(queue))

\* The interval is over and the mutex is free: the flush begins.
BeginFlush ==
  /\ flusher = "sleeping"
  /\ flusher' = "flushing"
  /\ TakeBatch
  /\ UNCHANGED <<handlers, enqueue, open, hand, left, flushed>>

\* send of the batch: first an HTTP client; without one the batch is dropped.
CreateClient ==
  /\ flusher = "flushing" /\ batch # <<>>
  /\ flusher' = "sending"
  /\ UNCHANGED <<handlers, enqueue, open, hand, queue, batch, left, flushed>>

NoClient ==
  /\ flusher = "flushing" /\ batch # <<>>
  /\ left' = left \o batch
  /\ flushed' = flushed \cup {batch[i] : i \in DOMAIN batch}
  /\ batch' = <<>>
  /\ UNCHANGED <<handlers, enqueue, open, hand, queue, flusher>>

\* The payloads that were coalesced into one go out; an error is only logged.
SendGroup(n) ==
  /\ flusher = "sending"
  /\ left' = left \o SubSeq(batch, 1, n)
  /\ flushed' = flushed \cup {batch[i] : i \in 1..n}
  /\ batch' = SubSeq(batch, n + 1, Len(batch))
  /\ flusher' = IF n = Len(batch) THEN "flushing" ELSE "sending"
  /\ UNCHANGED <<handlers, enqueue, open, hand, queue>>

\* Mutant: the flush goes on with an empty batch, the mutex held.
NextBatchAlways ==
  /\ flusher = "flushing" /\ batch = <<>>
  /\ TakeBatch
  /\ UNCHANGED <<handlers, enqueue, open, hand, flusher, left, flushed>>

\* The next batch; the flush ends and releases the mutex with an empty one.
NextBatch ==
  /\ flusher = "flushing" /\ batch = <<>>
  /\ \/ queue # <<>> /\ TakeBatch /\ UNCHANGED flusher
     \/ queue = <<>> /\ flusher' = "sleeping" /\ UNCHANGED <<queue, batch>>
  /\ UNCHANGED <<handlers, enqueue, open, hand, left, flushed>>

\* The supervisor, its accept loops drained, aborts the flusher: a batch it
\* was sending is lost, and the channel with it if it had not started.
Abort ==
  /\ CanShutdown /\ flusher # "aborted"
  /\ \A r \in Requests : phase[r] \in {"new", "done", "gone"}
  /\ flusher' = "aborted"
  /\ left' = left \o batch \o (IF flusher = "starting" THEN channel ELSE <<>>)
  /\ batch' = <<>>
  /\ open' = (flusher # "starting")
  /\ channel' = IF flusher = "starting" THEN <<>> ELSE channel
  /\ UNCHANGED <<handlers, todo, tasks, hand, queue, flushed>>

-----------------------------------------------------------------------------

Handler(r) == AcquirePermit(r) \/ PermitTimeout(r) \/ Decode(r)
EnqueueTask(r) == EnqueuePiece(r) \/ EndEnqueue(r)
Flusher ==
  \/ StartFlusher \/ BeginFlush \/ CreateClient \/ NextBatch
  \/ \E n \in 1..Len(batch) : SendGroup(n)

Next ==
  \/ \E r \in Requests : Arrive(r) \/ Handler(r) \/ Disconnect(r) \/ EnqueueTask(r)
  \/ Receive \/ Add \/ Flusher \/ NoClient \/ Abort

\* Tasks are scheduled and a send ends, by its retries or its timeout.  The
\* mutex is given to waiters in order, so the adder, which may find it taken
\* again and again, gets it in the end.
Fairness ==
  /\ \A r \in Requests : WF_vars(Handler(r)) /\ WF_vars(EnqueueTask(r))
  /\ WF_vars(Receive) /\ SF_vars(Add) /\ WF_vars(Flusher)

Spec == Init /\ [][Next]_vars /\ Fairness

-----------------------------------------------------------------------------
(* Properties                                                              *)

TypeOK ==
  /\ phase \in [Requests -> {"new", "waiting", "decoding", "done", "gone"}]
  /\ response \in [Requests -> {"none", "error", "dropped", "buffered"}]
  /\ free \in 0..MaxPermits
  /\ tasks \subseteq Requests
  /\ open \in BOOLEAN
  /\ flusher \in {"starting", "sleeping", "flushing", "sending", "aborted"}

\* Requests in the pipeline: a handler that decodes, or its enqueue task.
Holders == {r \in Requests : phase[r] = "decoding"} \cup tasks

\* A permit is held from the decision to decode until the last piece is in
\* the channel, and comes back on every path: error, disconnect, closed
\* channel.  A leak would in the end drop all traces.
PermitsAccounted == free + Cardinality(Holders) = MaxPermits

\* The pieces of r in a sequence of pieces.
Of(r, s) ==
  LET of[n \in 0..Len(s)] ==
        IF n = 0 THEN <<>> ELSE IF s[n].of = r THEN Append(of[n-1], s[n]) ELSE of[n-1]
  IN  of[Len(s)]

\* Across enqueue task, channel, adder, aggregator and flusher, the pieces of
\* a payload answered with "buffered" are each in one place and in order;
\* of any other request there are none.
PiecesInOrder ==
  \A r \in Requests :
    Of(r, left \o batch \o queue \o hand \o channel) \o todo[r]
      = IF response[r] = "buffered" THEN Pieces(r) ELSE <<>>

Flushed(r) == \A i \in DOMAIN Pieces(r) : Pieces(r)[i] \in flushed

\* As long as the flusher is not aborted, a send is tried for every piece of a
\* payload answered with "buffered": a full channel, the mutex held during a
\* send and permits waited for never block each other for good.
FlushedUnlessAborted ==
  \A r \in Requests : response[r] = "buffered" ~> Flushed(r) \/ flusher = "aborted"

\* The answer "Successfully buffered traces to be flushed." is kept.
BufferedIsFlushed == \A r \in Requests : response[r] = "buffered" ~> Flushed(r)

=============================================================================
