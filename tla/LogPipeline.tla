---------------------------- MODULE LogPipeline ----------------------------
(***************************************************************************)
(* The log agent, crates/datadog-logs-agent, as the main loop of           *)
(* crates/datadog-serverless-compat drives it: the HTTP intake server puts *)
(* the entries of a request into the mailbox of the aggregator service;    *)
(* every tick the main loop runs one flush, which first redrives the       *)
(* batches that failed in the tick before, then drains the aggregator and  *)
(* ships every batch to the primary and to the additional endpoints; what  *)
(* the primary did not take is kept for the next tick.                     *)
(*                                                                         *)
(* A batch is the sequence of its entries.  An answer to one HTTP request  *)
(* is "success"; "permanent", a 4xx that is not retryable; "transient",    *)
(* any other status; or "lost", when the endpoint took the request but the *)
(* answer never came.                                                      *)
(***************************************************************************)
EXTENDS Naturals, Sequences, FiniteSets

CONSTANTS
  Posts,        \* HTTP requests to the server
  Body,         \* Body[r]: the entries of request r
  Status,       \* Status[r]: the answer the checks before insertion give r, 0 if none
  Entries, EntrySize,
  MaxEntries, MaxContent, MaxLog,   \* limits of the aggregator
  MaxAttempts,  \* MAX_FLUSH_ATTEMPTS
  Extras        \* the additional endpoints

\* An entry is one occurrence of a log line, whatever its text: it comes in one
\* place of one request.  A request that is accepted before insertion is empty.
ASSUME LogPipelineAssumption ==
  /\ Body \in [Posts -> Seq(Entries)] /\ EntrySize \in [Entries -> Nat]
  /\ \A q, r \in Posts : \A i \in DOMAIN Body[q], j \in DOMAIN Body[r] :
       Body[q][i] = Body[r][j] => q = r /\ i = j
  /\ Status \in [Posts -> {0, 200, 400, 404, 405, 413}]
  /\ \A r \in Posts : Status[r] = 200 => Body[r] = <<>>
  /\ MaxEntries \in Nat \ {0} /\ MaxContent \in Nat /\ MaxLog \in Nat /\ MaxLog + 2 <= MaxContent
  /\ MaxAttempts \in Nat \ {0} /\ "primary" \notin Extras

SizeOf(e) == EntrySize[e]

B == INSTANCE LogBatches WITH Size <- SizeOf

VARIABLES
  reply,     \* reply[r]: the status sent, 0 before
  mailbox,   \* commands to the aggregator service
  running,   \* the service is alive
  messages,  \* its queue
  stage,     \* where the main loop's flush is
  jobs,      \* the deliveries under way: batch, endpoint, attempts made
  failed,    \* batches that failed in this flush
  pending,   \* pending_log_retries
  up,        \* the endpoints work
  \* history
  confirmed, \* batches the primary confirmed
  dropped,   \* entries given up on purpose: too large, or a permanent error
  lost,      \* entries lost with the service
  mirrored   \* <<batch, endpoint>>: deliveries to additional endpoints started

pipeline == <<reply, mailbox, running, messages>>
logFlusher == <<stage, jobs, failed, pending, confirmed, mirrored>>
logVars == <<pipeline, logFlusher, up, dropped, lost>>

Values(s) == {s[i] : i \in DOMAIN s}

LogInit ==
  /\ reply = [r \in Posts |-> 0]
  /\ mailbox = <<>> /\ running = TRUE /\ messages = <<>>
  /\ stage = "idle" /\ jobs = {} /\ failed = {} /\ pending = {}
  /\ up \in BOOLEAN
  /\ confirmed = {} /\ dropped = {} /\ lost = {} /\ mirrored = {}

-----------------------------------------------------------------------------
(* LogServer::handle_request and the aggregator service.                   *)

\* The checks of method, path, length, body and JSON decide, or an empty
\* array is accepted as it is.
AnswerAtOnce(r) ==
  /\ reply[r] = 0 /\ Status[r] # 0
  /\ reply' = [reply EXCEPT ![r] = Status[r]]
  /\ UNCHANGED <<mailbox, running, messages, logFlusher, up, dropped, lost>>

\* A good request is queued, or refused when the service is gone.
HandleRequest(r) ==
  /\ reply[r] = 0 /\ Status[r] = 0
  /\ \/ /\ running
        /\ mailbox' = Append(mailbox, [op |-> "insert", entries |-> Body[r]])
        /\ reply' = [reply EXCEPT ![r] = 200]
     \/ /\ ~running
        /\ reply' = [reply EXCEPT ![r] = 500]
        /\ UNCHANGED mailbox
  /\ UNCHANGED <<running, messages, logFlusher, up, dropped, lost>>

Shutdown ==
  /\ running /\ \A i \in DOMAIN mailbox : mailbox[i].op # "shutdown"
  /\ mailbox' = Append(mailbox, [op |-> "shutdown"])
  /\ UNCHANGED <<reply, running, messages, logFlusher, up, dropped, lost>>

Command(op) == running /\ mailbox # <<>> /\ Head(mailbox).op = op

\* InsertBatch: entries that are too large are dropped with a warning.
InsertBatch ==
  /\ Command("insert")
  /\ messages' = B!InsertAll(messages, Head(mailbox).entries)
  /\ dropped' = dropped \cup {e \in Values(Head(mailbox).entries) : B!TooLarge(e)}
  /\ mailbox' = Tail(mailbox)
  /\ UNCHANGED <<reply, running, logFlusher, up, lost>>

\* Deliveries to start, each with no attempt made yet.
NewJobs(bs, endpoints) == {[batch |-> b, to |-> e, attempts |-> 0] : b \in bs, e \in endpoints}

\* GetBatches: the flush that waits for them starts to ship them.
ServeBatches ==
  /\ Command("get")
  /\ jobs' = NewJobs(Values(B!GetAllBatches(messages)), {"primary"})
  /\ messages' = <<>>
  /\ stage' = "shipping"
  /\ mailbox' = Tail(mailbox)
  /\ UNCHANGED <<reply, running, failed, pending, confirmed, mirrored, up, dropped, lost>>

Queued(s) == UNION {Values(s[i].entries) : i \in {j \in DOMAIN s : s[j].op = "insert"}}

\* Mutant: the batches that failed in this flush are not handed back.
StopForgets ==
  /\ Command("shutdown")
  /\ running' = FALSE /\ mailbox' = <<>> /\ messages' = <<>>
  /\ lost' = lost \cup Values(messages) \cup Queued(mailbox)
  /\ IF stage = "draining"
     THEN stage' = "idle" /\ pending' = {} /\ failed' = {}
     ELSE UNCHANGED <<stage, pending, failed>>
  /\ UNCHANGED <<reply, jobs, confirmed, mirrored, up, dropped>>

\* The service stops with what it holds; a flush that waits for batches
\* returns what it has so far.
Stop ==
  /\ Command("shutdown")
  /\ running' = FALSE /\ mailbox' = <<>> /\ messages' = <<>>
  /\ lost' = lost \cup Values(messages) \cup Queued(mailbox)
  /\ IF stage = "draining"
     THEN stage' = "idle" /\ pending' = failed /\ failed' = {}
     ELSE UNCHANGED <<stage, pending, failed>>
  /\ UNCHANGED <<reply, jobs, confirmed, mirrored, up, dropped>>

-----------------------------------------------------------------------------
(* The main loop's tick and LogFlusher::flush.                             *)

\* A tick: mem::take of the pending builders, which are redriven first.
FlushTick ==
  /\ stage = "idle"
  /\ stage' = "redriving"
  /\ jobs' = NewJobs(pending, {"primary"})
  /\ pending' = {}
  /\ UNCHANGED <<pipeline, failed, confirmed, mirrored, up, dropped, lost>>

\* The redrive is over: ask for the new batches, if there is still anyone.
Drain ==
  /\ stage = "redriving" /\ jobs = {}
  /\ \/ /\ running
        /\ mailbox' = Append(mailbox, [op |-> "get"])
        /\ stage' = "draining"
        /\ UNCHANGED <<failed, pending>>
     \/ /\ ~running
        /\ stage' = "idle" /\ pending' = failed /\ failed' = {}
        /\ UNCHANGED mailbox
  /\ UNCHANGED <<reply, running, messages, jobs, confirmed, mirrored, up, dropped, lost>>

\* Mutant: the additional endpoints get redriven batches again.
AfterPrimaryAlways(j) == NewJobs({j.batch}, Extras)

\* Once the primary is done with a new batch the additional endpoints get it;
\* a redriven one goes to the primary only.
AfterPrimary(j) == IF stage = "shipping" THEN NewJobs({j.batch}, Extras) ELSE {}

\* The request is not tried again within this flush.
GivesUp(j, answer) == answer \in {"success", "permanent"} \/ j.attempts + 1 >= MaxAttempts

\* One iteration of send_with_retry of delivery j.
Attempt(j, answer) ==
  /\ j \in jobs
  /\ IF GivesUp(j, answer)
     THEN IF j.to = "primary"
          THEN /\ jobs' = (jobs \ {j}) \cup AfterPrimary(j)
               /\ mirrored' = mirrored \cup {<<k.batch, k.to>> : k \in AfterPrimary(j)}
               /\ failed' = IF answer \in {"transient", "lost"} THEN failed \cup {j.batch} ELSE failed
               /\ confirmed' = IF answer = "success" THEN confirmed \cup {j.batch} ELSE confirmed
               /\ dropped' = IF answer = "permanent" THEN dropped \cup Values(j.batch) ELSE dropped
          ELSE /\ jobs' = jobs \ {j}
               /\ UNCHANGED <<failed, confirmed, dropped, mirrored>>
     ELSE /\ jobs' = (jobs \ {j}) \cup {[j EXCEPT !.attempts = @ + 1]}
          /\ UNCHANGED <<failed, confirmed, dropped, mirrored>>
  /\ UNCHANGED <<pipeline, stage, pending, up, lost>>

\* Mutant: what failed is forgotten at the end of the flush.
EndFlushForgets ==
  /\ stage = "shipping" /\ jobs = {}
  /\ stage' = "idle" /\ pending' = {} /\ failed' = {}
  /\ UNCHANGED <<pipeline, jobs, confirmed, mirrored, up, dropped, lost>>

\* All deliveries are over; main keeps what is to be redriven.
EndFlush ==
  /\ stage = "shipping" /\ jobs = {}
  /\ stage' = "idle" /\ pending' = failed /\ failed' = {}
  /\ UNCHANGED <<pipeline, jobs, confirmed, mirrored, up, dropped, lost>>

-----------------------------------------------------------------------------
(* The endpoints.                                                          *)

\* Endpoints that work still refuse what they find permanently wrong.
AnswersNow == IF up THEN {"success", "permanent"} ELSE {"transient", "lost"}

Outage == up' = ~up /\ UNCHANGED <<pipeline, logFlusher, dropped, lost>>

Service == InsertBatch \/ ServeBatches \/ Stop
Flush == FlushTick \/ Drain \/ EndFlush \/ \E j \in jobs, answer \in AnswersNow : Attempt(j, answer)

LogNext ==
  \/ \E r \in Posts : AnswerAtOnce(r) \/ HandleRequest(r)
  \/ Shutdown \/ Service \/ Flush \/ Outage

\* The runtime schedules the service task and the main loop, whose timer goes
\* on ticking; a request ends by its flush_timeout at the latest.
LogSpec == LogInit /\ [][LogNext]_logVars /\ WF_logVars(Service) /\ WF_logVars(Flush)

-----------------------------------------------------------------------------
(* Properties.                                                             *)

Acknowledged == UNION {Values(Body[r]) : r \in {q \in Posts : reply[q] = 200}}
InBatches(bs) == UNION {Values(b) : b \in bs}
ToPrimary == {j.batch : j \in {k \in jobs : k.to = "primary"}}

\* Where an entry can be: with the service, with the flusher, confirmed, given up
\* or lost.
Places == <<Queued(mailbox), Values(messages), InBatches(ToPrimary), InBatches(failed),
            InBatches(pending), InBatches(confirmed), dropped, lost>>

\* Every entry acknowledged with 200 is in exactly one place until it is
\* confirmed or given up: a failed batch survives from flush to flush, and
\* none is kept twice.  Entries of refused requests are nowhere.
AcknowledgedAccounted ==
  \A e \in Entries :
    Cardinality({p \in 1..8 : e \in Places[p]})
      = IF e \in Acknowledged THEN 1 ELSE 0

\* An additional endpoint is offered a batch in one flush only, however often
\* the batch is redriven to the primary.
ExtrasTriedOnce ==
  [][\A j \in jobs' \ jobs :
       j.to \in Extras /\ j.attempts = 0 => <<j.batch, j.to>> \notin mirrored]_logVars

\* Once the endpoints work for good, every acknowledged entry is confirmed or
\* given up on purpose, unless the service was shut down with it.
EventuallySettled ==
  \A e \in Entries :
    (<>[]up) => (e \in Acknowledged ~> e \in InBatches(confirmed) \cup dropped \cup lost)

=============================================================================
