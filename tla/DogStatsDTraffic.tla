-------------------------- MODULE DogStatsDTraffic --------------------------
(***************************************************************************)
(* The control of the DogStatsD server of DogStatsD.tla, without the       *)
(* datagrams and the buffers, under traffic that need never end: clients   *)
(* send as much as they like, and what counts is whether something waits   *)
(* in the socket, whether the reader has a packet in its hands and how     *)
(* many packets are queued.                                                *)
(*                                                                         *)
(* The awaited read watches the cancellation token and the top of          *)
(* read_loop looks at it, but neither the drain of the socket by the       *)
(* reader nor the drain of the channel by the processor does: a socket     *)
(* that never runs empty keeps both going.                                 *)
(***************************************************************************)
EXTENDS Naturals

CONSTANT ChannelSize   \* capacity of the channel (queue_size)

ASSUME TrafficAssumption == ChannelSize \in Nat \ {0}

VARIABLES
  busy,       \* a datagram waits in the socket
  told,       \* the cancellation token
  readerAt,   \* where read_loop is
  inHand,     \* it has a packet to send to the channel
  queued,     \* packets in the channel
  processorAt \* where process_loop is

trafficVars == <<busy, told, readerAt, inHand, queued, processorAt>>

\* The receiver is dropped when `spin` returns.
ChannelGone == processorAt = "done"

TrafficInit ==
  /\ busy = FALSE /\ told = FALSE /\ readerAt = "top" /\ inHand = FALSE
  /\ queued = 0 /\ processorAt = "recv"

-----------------------------------------------------------------------------
(* Clients, and the owner of the token.                                    *)

Arrive == busy' = TRUE /\ UNCHANGED <<told, readerAt, inHand, queued, processorAt>>

Tell == told' = TRUE /\ UNCHANGED <<busy, readerAt, inHand, queued, processorAt>>

-----------------------------------------------------------------------------
(* read_loop.                                                              *)

ReaderMoves(to) == readerAt' = to /\ UNCHANGED <<busy, told, inHand, queued, processorAt>>

\* while !cancel.is_cancelled()
LoopTop == readerAt = "top" /\ ReaderMoves(IF told THEN "done" ELSE "read")

\* Mutant: the awaited read does not watch the token.
ReadToldNever == readerAt = "read" /\ FALSE /\ UNCHANGED trafficVars

\* The select of the awaited read picks the cancellation.
ReadTold == readerAt = "read" /\ told /\ ReaderMoves("done")

\* The awaited read fails: a reset transport ends the loop, another error does
\* not.
ReadFails == readerAt = "read" /\ (ReaderMoves("done") \/ ReaderMoves("top"))

\* A datagram is taken, which may not be the last one: an empty one, or one
\* to be sent to the channel.
TakeDatagram(sendAt, emptyAt) ==
  /\ busy /\ busy' \in BOOLEAN
  /\ \/ readerAt' = emptyAt /\ UNCHANGED inHand
     \/ readerAt' = sendAt /\ inHand' = TRUE
  /\ UNCHANGED <<told, queued, processorAt>>

AwaitedRead == readerAt = "read" /\ TakeDatagram("first", "top")

\* The drain of the socket never looks at the token; it ends when nothing waits,
\* at an error, or on a closed channel.
DrainNext  == readerAt = "more" /\ ReaderMoves("try")
DrainRead1 == readerAt = "try" /\ ~inHand /\ TakeDatagram("try", "more")
DrainEnds  == readerAt = "try" /\ ~inHand /\ ReaderMoves("check")

\* try_send_packet: accepted, dropped on a full channel, refused by a closed one.
Offer(closedAt) ==
  /\ IF ChannelGone
     THEN readerAt' = closedAt /\ UNCHANGED queued
     ELSE /\ readerAt' = "more"
          /\ queued' = IF queued < ChannelSize THEN queued + 1 ELSE queued
  /\ inHand' = FALSE
  /\ UNCHANGED <<busy, told, processorAt>>

OfferFirst   == readerAt = "first" /\ Offer("done")
OfferDrained == readerAt = "try" /\ inHand /\ Offer("check")

ChannelCheck ==
  readerAt = "check" /\ ReaderMoves(IF ChannelGone THEN "done" ELSE "top")

ReadLoop ==
  \/ LoopTop \/ ReadTold \/ AwaitedRead \/ OfferFirst
  \/ DrainNext \/ DrainRead1 \/ DrainEnds \/ OfferDrained \/ ChannelCheck

-----------------------------------------------------------------------------
(* process_loop.                                                           *)

ProcessorMoves(to) == processorAt' = to /\ UNCHANGED <<busy, told, readerAt, inHand, queued>>

TakeQueued(at) ==
  /\ queued > 0 /\ queued' = queued - 1
  /\ processorAt' = at
  /\ UNCHANGED <<busy, told, readerAt, inHand>>

ReceiveOne   == processorAt = "recv" /\ TakeQueued("work")
ReceiveEnd   == processorAt = "recv" /\ queued = 0 /\ readerAt = "done" /\ ProcessorMoves("closing")
ReceiveTold  == processorAt = "recv" /\ told /\ ProcessorMoves("drain")
DrainOne     == processorAt = "drain" /\ TakeQueued("drainwork")
DrainNothing == processorAt = "drain" /\ queued = 0 /\ ProcessorMoves("closing")
Processed ==
  \/ processorAt = "work" /\ ProcessorMoves("recv")
  \/ processorAt = "drainwork" /\ ProcessorMoves("drain")

\* `spin` returns and the channel goes, with what is queued.
SpinReturns ==
  /\ processorAt = "closing"
  /\ processorAt' = "done" /\ queued' = 0
  /\ UNCHANGED <<busy, told, readerAt, inHand>>

ProcessLoop ==
  \/ ReceiveOne \/ ReceiveEnd \/ ReceiveTold \/ DrainOne \/ DrainNothing
  \/ Processed \/ SpinReturns

-----------------------------------------------------------------------------

TrafficNext == Arrive \/ Tell \/ ReadFails \/ ReadLoop \/ ProcessLoop

\* Both tasks are scheduled; neither clients nor the token need ever move.
TrafficSpec ==
  TrafficInit /\ [][TrafficNext]_trafficVars
    /\ WF_trafficVars(ReadLoop) /\ WF_trafficVars(ProcessLoop)

\* Cancelling the token stops both tasks once the traffic subsides: wherever
\* the reader and the processor are, and whatever is queued, in hand or still
\* in the socket.  Traffic that never subsides may keep both in their drains
\* for ever, the read_loop comment promises a prompt exit "even on a quiet
\* socket" and no more.
CancelStops ==
  <>[](~busy) => (told ~> (readerAt = "done" /\ processorAt = "done"))

=============================================================================
