-------------------------- MODULE ProxyForwarding --------------------------
(***************************************************************************)
(* Requests the trace agent passes on to Datadog unchanged: profiling and  *)
(* data streams (crates/datadog-trace-agent/src/mini_agent.rs,             *)
(* proxy_flusher.rs, http_utils.rs).                                       *)
(*                                                                         *)
(* A handler checks the length, reads the body and queues the request on a *)
(* bounded channel; it answers once the channel took it.  One task takes   *)
(* the requests off the channel and sends them one at a time, retrying     *)
(* network errors with a back-off.  The task is detached: it ends when     *)
(* every sender is gone and the channel is empty, or with the process.     *)
(***************************************************************************)
EXTENDS Naturals, Sequences, FiniteSets, SequencesExt, FiniteSetsExt

CONSTANTS
  Requests,    \* the requests of the clients
  Targets,     \* <<method, path>> pairs that may arrive
  Headers,     \* [says, length, text] the clients may send
  MaxLength,   \* max_request_content_length
  Capacity,    \* PROXY_PAYLOAD_CHANNEL_BUFFER_SIZE
  MaxRetries,  \* proxy_request_max_retries
  ProxyKeys    \* API keys per kind the agent may start with: "ok", "none", "unprintable"

VARIABLES
  key,       \* the API key of each kind's intake
  serving,   \* the accept loop still runs, and holds a sender
  handler,   \* per request: its handler's program counter, kind and tags
  answer,    \* per request: the status answered, 0 while there is none
  waiting,   \* handlers inside send().await on a full channel, in order
  queue,     \* the channel
  sender,    \* the flusher task: its request, attempts, what it waits for
  intake,    \* what reached Datadog, in order
  fate,      \* per request: how the flusher task let go of it
  sent       \* history: requests in the order the channel took them

proxyVars == <<key, serving, handler, answer, waiting, queue, sender, intake, fate, sent>>

Kinds == {"data_streams", "profiling"}
Idle == [pc |-> "recv", req |-> "none", attempts |-> 0]

\* What the properties assume of the constants: at least one attempt (the
\* configuration fixes it at 3), and a request that is none is no request.
ConstantsOK == MaxRetries \in Nat \ {0} /\ "none" \notin Requests

ASSUME ProxyForwardingAssumption == ConstantsOK

-----------------------------------------------------------------------------
(* What the code computes.                                                 *)

\* trace_endpoint_handler, for the endpoints that are not traces or stats.
Route(target) ==
  CASE target = <<"POST", "/v0.1/pipeline_stats">> -> "data_streams"
    [] target = <<"POST", "/profiling/v1/input">> -> "profiling"
    [] target[2] = "/info" -> "info"
    [] OTHER -> "not_found"

\* What the headers say of the length: nothing, a transfer encoding only, a
\* length that is no number, or a number.
VerifyRequestContentLength(header) ==
  CASE header.says = "nothing" -> 411
    [] header.says = "chunked" -> 0
    [] header.says = "garbled" -> 400
    [] header.says = "length" -> IF header.length > MaxLength THEN 413 ELSE 0

\* create_request: the request gets the key of its kind and the merged tags,
\* and cannot be built when that key is missing or is no header value, or when
\* the incoming tags are not text.
CreateRequestFails(r) ==
  \/ key[handler[r].kind] # "ok"
  \/ ~handler[r].text

-----------------------------------------------------------------------------

ProxyInit ==
  /\ key \in ProxyKeys
  /\ serving = TRUE
  /\ handler = [r \in Requests |-> [pc |-> "none", kind |-> "none", text |-> TRUE]]
  /\ answer = [r \in Requests |-> 0]
  /\ waiting = <<>>
  /\ queue = <<>>
  /\ sender = Idle
  /\ intake = <<>>
  /\ fate = [r \in Requests |-> "none"]
  /\ sent = <<>>

Answered(r, status) ==
  /\ handler' = [handler EXCEPT ![r].pc = "done"]
  /\ answer' = [answer EXCEPT ![r] = status]

\* trace_endpoint_handler and the head of proxy_handler.
Arrive(r, target, header) ==
  /\ serving
  /\ handler[r].pc = "none"
  /\ LET route == Route(target)
         refusal == VerifyRequestContentLength(header)
     IN IF route \in Kinds /\ refusal = 0
        THEN /\ handler' = [handler EXCEPT ![r] =
                              [pc |-> "reading", kind |-> route, text |-> header.text]]
             /\ UNCHANGED answer
        ELSE Answered(r, CASE route = "not_found" -> 404
                           [] route = "info" -> 200
                           [] OTHER -> refusal)
  /\ UNCHANGED <<key, serving, waiting, queue, sender, intake, fate, sent>>

BodyUnreadable(r) ==
  /\ handler[r].pc = "reading"
  /\ Answered(r, 400)
  /\ UNCHANGED <<key, serving, waiting, queue, sender, intake, fate, sent>>

\* The body is complete: proxy_tx.send() asks for a place in the channel.
BodyRead(r) ==
  /\ handler[r].pc = "reading"
  /\ handler' = [handler EXCEPT ![r].pc = "sending"]
  /\ waiting' = Append(waiting, r)
  /\ UNCHANGED <<key, serving, answer, queue, sender, intake, fate, sent>>

\* The channel gives its free places in the order they were asked for, and
\* the handler answers.
SendAccepted(r) ==
  /\ waiting # <<>>
  /\ Head(waiting) = r
  /\ Len(queue) < Capacity
  /\ waiting' = Tail(waiting)
  /\ queue' = Append(queue, r)
  /\ sent' = Append(sent, r)
  /\ Answered(r, 200)
  /\ UNCHANGED <<key, serving, sender, intake, fate>>

\* The client went away: its handler is dropped where it waits.
Disconnect(r) ==
  /\ \/ handler[r].pc = "reading" /\ UNCHANGED waiting
     \/ /\ handler[r].pc = "sending"
        /\ \E i \in DOMAIN waiting : waiting[i] = r /\ waiting' = RemoveAt(waiting, i)
  /\ handler' = [handler EXCEPT ![r].pc = "gone"]
  /\ UNCHANGED <<key, serving, answer, queue, sender, intake, fate, sent>>

\* The accept loop ends and drops its sender; connections go on.
StopServing ==
  /\ serving
  /\ serving' = FALSE
  /\ UNCHANGED <<key, handler, answer, waiting, queue, sender, intake, fate, sent>>

-----------------------------------------------------------------------------
(* start_proxy_flusher and send_request.                                   *)

\* Mutant: a request that cannot be built is tried for ever.
ReceiveSpins ==
  /\ sender.pc = "recv"
  /\ queue # <<>>
  /\ ~CreateRequestFails(Head(queue))
  /\ queue' = Tail(queue)
  /\ sender' = [pc |-> "sending", req |-> Head(queue), attempts |-> 1]
  /\ UNCHANGED <<key, serving, handler, answer, waiting, intake, fate, sent>>

\* recv() returned a request; the first turn of the loop builds it.
Receive ==
  /\ sender.pc = "recv"
  /\ queue # <<>>
  /\ queue' = Tail(queue)
  /\ LET r == Head(queue)
     IN IF CreateRequestFails(r)
        THEN /\ fate' = [fate EXCEPT ![r] = "unbuildable"]
             /\ UNCHANGED sender
        ELSE /\ sender' = [pc |-> "sending", req |-> r, attempts |-> 1]
             /\ UNCHANGED fate
  /\ UNCHANGED <<key, serving, handler, answer, waiting, intake, sent>>

Delivered == Append(intake, sender.req)

\* Any response ends the request, an error status too.
Response(status) ==
  /\ sender.pc = "sending"
  /\ intake' = Delivered
  /\ fate' = [fate EXCEPT ![sender.req] = status]
  /\ sender' = Idle
  /\ UNCHANGED <<key, serving, handler, answer, waiting, queue, sent>>

\* The send failed or timed out, before or after Datadog had the request.
NetworkError(arrived) ==
  /\ sender.pc = "sending"
  /\ intake' = IF arrived THEN Delivered ELSE intake
  /\ IF sender.attempts >= MaxRetries
     THEN /\ fate' = [fate EXCEPT ![sender.req] = "exhausted"]
          /\ sender' = Idle
     ELSE /\ sender' = [sender EXCEPT !.pc = "sleeping"]
          /\ UNCHANGED fate
  /\ UNCHANGED <<key, serving, handler, answer, waiting, queue, sent>>

\* Mutant: a request to be retried goes to the end of the channel.
RetryLater ==
  /\ sender.pc = "sleeping"
  /\ sender' = Idle
  /\ queue' = Append(queue, sender.req)
  /\ UNCHANGED <<key, serving, handler, answer, waiting, intake, fate, sent>>

\* The back-off is over; the request is built again and sent again.
Retry ==
  /\ sender.pc = "sleeping"
  /\ sender' = [sender EXCEPT !.pc = "sending", !.attempts = @ + 1]
  /\ UNCHANGED <<key, serving, handler, answer, waiting, queue, intake, fate, sent>>

\* Every sender is gone and the channel is empty: recv() returns None.
FlusherEnds ==
  /\ sender.pc = "recv"
  /\ ~serving
  /\ queue = <<>>
  /\ \A r \in Requests : handler[r].pc \notin {"reading", "sending"}
  /\ sender' = [sender EXCEPT !.pc = "ended"]
  /\ UNCHANGED <<key, serving, handler, answer, waiting, queue, intake, fate, sent>>

HandlerStep(r) ==
  \/ \E t \in Targets, h \in Headers : Arrive(r, t, h)
  \/ BodyUnreadable(r) \/ BodyRead(r) \/ SendAccepted(r) \/ Disconnect(r)

SenderStep ==
  \/ Receive
  \/ \E status \in {"accepted", "rejected"} : Response(status)
  \/ \E arrived \in BOOLEAN : NetworkError(arrived)
  \/ Retry
  \/ FlusherEnds

ProxyNext == StopServing \/ SenderStep \/ \E r \in Requests : HandlerStep(r)

\* Timeouts bound every send and every back-off, and the runtime polls what
\* can go on.  Nothing makes a client finish its body.
Fairness == WF_proxyVars(SenderStep) /\ \A r \in Requests : WF_proxyVars(SendAccepted(r))

ProxySpec == ProxyInit /\ [][ProxyNext]_proxyVars /\ Fairness

-----------------------------------------------------------------------------
(* Properties.                                                             *)

\* What Datadog gets is in the order the channel took the requests, copies of
\* the same request next to each other: the retries of one hold up all that
\* follow and none overtakes.  No request leaves more than MaxRetries copies.
ForwardedInOrder ==
  LET place(r) == CHOOSE k \in DOMAIN sent : sent[k] = r
  IN /\ \A i, j \in DOMAIN intake : i < j => place(intake[i]) <= place(intake[j])
     /\ \A r \in Requests : Cardinality({i \in DOMAIN intake : intake[i] = r}) <= MaxRetries

\* A request answered 200 is in the channel, in the sender's hands, or let go
\* of for one reason: and one that was never answered 200 was never sent.
AcceptedIsHeld ==
  \A r \in Requests :
    LET places == {p \in {"queue", "sender", "over"} :
                     CASE p = "queue" -> r \in ToSet(queue)
                       [] p = "sender" -> sender.req = r
                       [] p = "over" -> fate[r] # "none"}
    IN IF r \in ToSet(sent)
       THEN answer[r] = 200 /\ Cardinality(places) = 1
       ELSE places = {} /\ r \notin ToSet(intake)

\* The two together.
ProxyOrdered == ForwardedInOrder /\ AcceptedIsHeld

\* Whatever the network does, each request the channel took is let go of, and
\* a handler that waits for a place is answered unless its client leaves.
ProxySettles ==
  \A r \in Requests :
    /\ answer[r] = 200 /\ r \in ToSet(sent) ~> fate[r] # "none"
    /\ handler[r].pc = "sending" ~> handler[r].pc # "sending"
=============================================================================
