--------------------------- MODULE MetricsFlusher ---------------------------
(***************************************************************************)
(* Shipping metrics, crates/dogstatsd/src/flusher.rs and                   *)
(* datadog/shipping.rs.  Concurrent calls of `flush_metrics` on one        *)
(* Flusher share the lazily created API client (a OnceCell).  Each call    *)
(* spawns one task for its series and one for its distributions; a task    *)
(* ships its batches in order, each with a bounded number of attempts, and *)
(* the call joins both and reports what should be shipped again.           *)
(*                                                                         *)
(* A batch is its index.  The answer to one HTTP request is one of         *)
(*   accepted   202                                                        *)
(*   ok         another 2xx                                                *)
(*   client     4xx                                                        *)
(*   other      any other status, or none: no connection, or an answer     *)
(*              that never came although the intake took the request        *)
(***************************************************************************)
EXTENDS Naturals

CONSTANTS
  Calls,        \* the calls of flush_metrics
  Count,        \* Count[c][k]: number of batches of kind k call c was given
  MaxAttempts   \* attempts of the RetryStrategy

Kinds == {"series", "distributions"}
Tasks == Calls \X Kinds
Answers == {"accepted", "ok", "client", "other"}

ASSUME MetricsFlusherAssumption ==
  /\ Count \in [Calls -> [Kinds -> Nat]]
  /\ MaxAttempts \in Nat

VARIABLES
  cell,      \* dd_api: "empty", then "some" or "none" for ever
  orphaned,  \* the API key factory has no key, and waits for a loader that is gone
  call,      \* call[c]: where the call is
  result,    \* result[c]: the batches returned for retry; {} stands for None
  task,      \* task[t]: state of the spawned task
  batch,     \* batch[t]: the batch the task is shipping
  attempts,  \* attempts[t]: requests made for it so far
  failed,    \* failed[t]: batches the task will report for retry
  \* history
  outcome,   \* outcome[t][i]: how batch i ended
  requests   \* requests[t][i]: requests made for batch i

vars == <<cell, orphaned, call, result, task, batch, attempts, failed, outcome, requests>>

Size(t) == Count[t[1]][t[2]]

\* The batches of a call, as <<kind, index>>.
AllOf(c) == UNION {{k} \X (1..Count[c][k]) : k \in Kinds}

Init ==
  /\ cell = "empty" /\ orphaned = FALSE
  /\ call = [c \in Calls |-> "start"]
  /\ result = [c \in Calls |-> {}]
  /\ task = [t \in Tasks |-> "unborn"]
  /\ batch = [t \in Tasks |-> 1]
  /\ attempts = [t \in Tasks |-> 0]
  /\ failed = [t \in Tasks |-> {}]
  /\ outcome = [t \in Tasks |-> [i \in 1..Size(t) |-> "untried"]]
  /\ requests = [t \in Tasks |-> [i \in 1..Size(t) |-> 0]]

-----------------------------------------------------------------------------
(* flush_metrics up to the spawn.                                          *)

Return(c, batches) ==
  /\ call' = [call EXCEPT ![c] = "returned"]
  /\ result' = [result EXCEPT ![c] = batches]

\* Nothing to flush.
ReturnEarly(c) ==
  /\ call[c] = "start" /\ AllOf(c) = {}
  /\ Return(c, {})
  /\ UNCHANGED <<cell, orphaned, task, batch, attempts, failed, outcome, requests>>

\* get_or_init: one caller at a time runs the initializer, the others wait.
BeginInit(c) ==
  /\ call[c] = "start" /\ AllOf(c) # {}
  /\ cell = "empty" /\ \A d \in Calls : call[d] # "init"
  /\ call' = [call EXCEPT ![c] = "init"]
  /\ UNCHANGED <<cell, orphaned, result, task, batch, attempts, failed, outcome, requests>>

\* get_api_key answers; a missing key is remembered like a present one.  It does
\* not while the factory waits for a lost loader (api_key.rs).
ResolveKey(c, api) ==
  /\ call[c] = "init" /\ ~orphaned
  /\ cell' = api
  /\ call' = [call EXCEPT ![c] = "start"]
  /\ UNCHANGED <<orphaned, result, task, batch, attempts, failed, outcome, requests>>

\* Without a client everything is handed back.
NoClient(c) ==
  /\ call[c] = "start" /\ AllOf(c) # {} /\ cell = "none"
  /\ Return(c, AllOf(c))
  /\ UNCHANGED <<cell, orphaned, task, batch, attempts, failed, outcome, requests>>

SpawnTasks(c) ==
  /\ call[c] = "start" /\ AllOf(c) # {} /\ cell = "some"
  /\ call' = [call EXCEPT ![c] = "joining"]
  /\ task' = [t \in Tasks |-> IF t[1] = c THEN "running" ELSE task[t]]
  /\ UNCHANGED <<cell, orphaned, result, batch, attempts, failed, outcome, requests>>

-----------------------------------------------------------------------------
(* The two tasks: ship_series or ship_distributions batch after batch.     *)

\* should_try_next_batch.  send_with_retry gives Ok for 2xx only, so a 4xx
\* always comes as a Destination error.  A success other than 202 counts as
\* a temporary error.
ShouldTryNextBatch(resp) ==
  [continue |-> resp \in {"accepted", "payload"},
   retry |-> resp \in {"ok", "other"}]

Shipping(t) == task[t] = "running" /\ batch[t] <= Size(t)

\* The end of the loop body for the current batch.
Settle(t, resp) ==
  LET v == ShouldTryNextBatch(resp)
  IN  /\ failed' = [failed EXCEPT ![t] = IF v.retry THEN @ \cup {batch[t]} ELSE @]
      /\ outcome' = [outcome EXCEPT ![t][batch[t]] = resp]
      /\ attempts' = [attempts EXCEPT ![t] = 0]
      /\ \/ /\ v.continue
            /\ batch' = [batch EXCEPT ![t] = @ + 1]
            /\ UNCHANGED task
         \/ /\ ~v.continue
            /\ task' = [task EXCEPT ![t] = "done"]
            /\ UNCHANGED batch

\* The batch does not serialize.
PayloadError(t) ==
  /\ Shipping(t) /\ attempts[t] = 0
  /\ Settle(t, "payload")
  /\ UNCHANGED <<cell, orphaned, call, result, requests>>

\* Mutant: one attempt too many.
LastAttemptLate(t) == attempts[t] >= MaxAttempts

LastAttempt(t) == attempts[t] + 1 >= MaxAttempts

\* One iteration of send_with_retry.
Attempt(t, resp) ==
  /\ Shipping(t)
  /\ requests' = [requests EXCEPT ![t][batch[t]] = @ + 1]
  /\ \/ /\ resp \in {"accepted", "ok"} \/ LastAttempt(t)
        /\ Settle(t, resp)
     \/ /\ resp \notin {"accepted", "ok"} /\ ~LastAttempt(t)
        /\ attempts' = [attempts EXCEPT ![t] = @ + 1]
        /\ UNCHANGED <<task, batch, failed, outcome>>
  /\ UNCHANGED <<cell, orphaned, call, result>>

\* The loop runs out of batches.
Finish(t) ==
  /\ task[t] = "running" /\ batch[t] > Size(t)
  /\ task' = [task EXCEPT ![t] = "done"]
  /\ UNCHANGED <<cell, orphaned, call, result, batch, attempts, failed, outcome, requests>>

\* The task panics, or its runtime cancels it.
Panic(t) ==
  /\ task[t] = "running"
  /\ task' = [task EXCEPT ![t] = "panicked"]
  /\ UNCHANGED <<cell, orphaned, call, result, batch, attempts, failed, outcome, requests>>

-----------------------------------------------------------------------------
(* The end of flush_metrics.                                               *)

FailedOf(c) == UNION {{k} \X failed[<<c, k>>] : k \in Kinds}

\* Mutant: the distributions' failures are forgotten when the series made it.
JoinSeriesOnly(c) ==
  /\ call[c] = "joining" /\ \A k \in Kinds : task[<<c, k>>] = "done"
  /\ Return(c, IF failed[<<c, "series">>] = {} THEN {} ELSE FailedOf(c))
  /\ UNCHANGED <<cell, orphaned, task, batch, attempts, failed, outcome, requests>>

Join(c) ==
  /\ call[c] = "joining" /\ \A k \in Kinds : task[<<c, k>>] = "done"
  /\ Return(c, FailedOf(c))
  /\ UNCHANGED <<cell, orphaned, task, batch, attempts, failed, outcome, requests>>

\* Mutant: the panic of a task is noticed only when both have panicked.
JoinErrorBoth(c) ==
  /\ call[c] = "joining" /\ \A k \in Kinds : task[<<c, k>>] = "panicked"
  /\ Return(c, AllOf(c))
  /\ UNCHANGED <<cell, orphaned, task, batch, attempts, failed, outcome, requests>>

\* try_join! gives up as soon as one task has panicked: everything is handed
\* back, while the other task goes on shipping on its own.
JoinError(c) ==
  /\ call[c] = "joining" /\ \E k \in Kinds : task[<<c, k>>] = "panicked"
  /\ Return(c, AllOf(c))
  /\ UNCHANGED <<cell, orphaned, task, batch, attempts, failed, outcome, requests>>

\* The future of the call is dropped: an initializer it was running is given
\* up for others to start over, its spawned tasks go on.  With a resolver, the
\* initializer may have been loading the factory's first key: the factory's flag
\* stays set, and nobody is left to clear it.
Abandon(c) ==
  /\ call[c] \in {"start", "init", "joining"}
  /\ call' = [call EXCEPT ![c] = "abandoned"]
  /\ orphaned' \in IF call[c] = "init" THEN {orphaned, TRUE} ELSE {orphaned}
  /\ UNCHANGED <<cell, result, task, batch, attempts, failed, outcome, requests>>

-----------------------------------------------------------------------------

CallStep(c) ==
  \/ ReturnEarly(c) \/ BeginInit(c) \/ NoClient(c) \/ SpawnTasks(c)
  \/ \E api \in {"some", "none"} : ResolveKey(c, api)
  \/ Join(c) \/ JoinError(c)

TaskStep(t) == PayloadError(t) \/ Finish(t) \/ \E resp \in Answers : Attempt(t, resp)

Next ==
  \/ \E c \in Calls : CallStep(c) \/ Abandon(c)
  \/ \E t \in Tasks : TaskStep(t) \/ Panic(t)

\* Requests end, if only by the HTTP client's timeout, and so does the resolver:
\* no await of a call or a task is for ever, except the one on a lost loader.
Fairness ==
  /\ \A c \in Calls : WF_vars(CallStep(c))
  /\ \A t \in Tasks : WF_vars(TaskStep(t))

Spec == Init /\ [][Next]_vars /\ Fairness

-----------------------------------------------------------------------------
(* Properties.                                                             *)

\* No batch is requested more often than the retry strategy allows (once if
\* it allows none): a struggling intake is not hammered.
AttemptsBounded ==
  \A t \in Tasks : \A i \in 1..Size(t) :
    requests[t][i] <= (IF MaxAttempts = 0 THEN 1 ELSE MaxAttempts)

\* The destination turned the batch away, so the task went no further.
Stopped(e) == e \in {"ok", "client", "other"}

\* A task that ended has tried its batches in order and left one out only
\* because an earlier one was turned away by the destination: a bad payload,
\* or the trouble of the other kind, stops nothing.
StopsOnlyAtDestination ==
  \A t \in Tasks : task[t] = "done" =>
    \A i \in 1..Size(t) : outcome[t][i] = "untried" =>
      \E j \in 1..(i - 1) : Stopped(outcome[t][j])

Clean(c) == \A k \in Kinds : task[<<c, k>>] = "done"

\* A task ended before it came to this batch: the destination turned an earlier
\* one of its kind away.
LeftBehind(c, b) ==
  outcome[<<c, b[1]>>][b[2]] = "untried"
    /\ \E j \in 1..(b[2] - 1) : Stopped(outcome[<<c, b[1]>>][j])

\* After a clean join a call returns exactly the batches whose last answer was
\* a temporary failure, of both kinds.  Every other batch was confirmed, found
\* malformed, refused for good, or left untried behind the one that ended its
\* task: those left behind are not returned although nobody has seen them.
ReturnsTemporaryFailures ==
  \A c \in Calls : call[c] = "returned" /\ Clean(c) =>
    /\ result[c] = {b \in AllOf(c) : outcome[<<c, b[1]>>][b[2]] \in {"ok", "other"}}
    /\ \A b \in AllOf(c) \ result[c] :
         \/ outcome[<<c, b[1]>>][b[2]] \in {"accepted", "payload", "client"}
         \/ LeftBehind(c, b)

\* Without a client nothing is sent, and every call hands all it got back.
NoKeyNothingSent ==
  cell = "none" =>
    /\ \A t \in Tasks : task[t] = "unborn"
    /\ \A c \in Calls : call[c] = "returned" => result[c] = AllOf(c)

\* The three together: what a call of flush_metrics may send, and how often.
ShippingDisciplined == AttemptsBounded /\ StopsOnlyAtDestination /\ NoKeyNothingSent

\* None stands for success: every batch was shipped, or found to be bad.
NoneMeansSuccess ==
  \A c \in Calls : call[c] = "returned" /\ result[c] = {} =>
    \A b \in AllOf(c) : outcome[<<c, b[1]>>][b[2]] \in {"accepted", "payload", "client"}

\* A call that has no client yet, and asks a factory whose loader is lost.
Stranded(c) ==
  orphaned /\ cell = "empty" /\ call[c] \in {"start", "init"} /\ AllOf(c) # {}

\* Every call ends, whatever the intake answers and whoever panics or gives up,
\* with one exception: a call that was dropped while it loaded the first API key
\* strands those that come after it (get_dd_api waits in get_api_key).
CallEnds == \A c \in Calls : <>(call[c] \in {"returned", "abandoned"} \/ Stranded(c))

=============================================================================
