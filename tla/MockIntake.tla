----------------------------- MODULE MockIntake -----------------------------
(***************************************************************************)
(* The mock intake (crates/datadog-mock-intake/src/lib.rs): an HTTP server *)
(* the integration tests point the agents at.  An accept task spawns one   *)
(* task per connection and registers it; a request that was read whole is  *)
(* decoded and recorded by a blocking task, which runs on when the client  *)
(* goes away; Drop stops the accept task and aborts the connections.       *)
(*                                                                         *)
(* A request is a record: endpoint, method, size of the wire body,         *)
(* Content-Encoding, size after decompression, whether it decodes, and the *)
(* clients of a stats payload.                                             *)
(***************************************************************************)
EXTENDS Naturals, Sequences, FiniteSets, FiniteSetsExt, SequencesExt, Bags

CONSTANTS
  Conns,            \* connections clients may open
  Requests,         \* the requests they may send
  MaxRequests,      \* bound: requests with an id
  MaxBodySize,      \* MAX_BODY_SIZE
  MaxDecompressed,  \* MAX_DECOMPRESSED_SIZE
  FailStatsFirstN,  \* fail_stats_first_n
  DumpNames,        \* what a dump file name is made of: pid and nanos
  MaxSuffix         \* the suffixes dump_request tries, 1000 in the code

ASSUME MockIntakeAssumption ==
  /\ {"select", "stopped"} \cap Conns = {}
  /\ \A r \in Requests : r.decodes \in BOOLEAN
  /\ \A r \in Requests :
       /\ DOMAIN r.clients = 1..Len(r.clients) /\ Len(r.clients) \in Nat
       /\ \A c \in DOMAIN r.clients :
            /\ DOMAIN r.clients[c].groups = 1..Len(r.clients[c].groups)
            /\ Len(r.clients[c].groups) \in Nat
            /\ \A g \in DOMAIN r.clients[c].groups :
                 /\ r.clients[c].groups[g].hits \in Nat
                 /\ DOMAIN r.clients[c].groups[g].tags = 1..Len(r.clients[c].groups[g].tags)
                 /\ Len(r.clients[c].groups[g].tags) \in Nat

VARIABLES
  accept,     \* the accept task: "select", the connection it registers, "stopped"
  registry,   \* [shuttingDown, handles]
  drop,       \* how far Drop is: "live", "signalled", "done"
  conn,       \* per connection: its task, "aborted" when told to stop in the middle
              \* of a poll, and the request it handles
  requestCounter, statsAttempts,
  blocking,   \* the blocking tasks
  captured,   \* [requests, typed], both sequences tagged with ids
  dumps,      \* the files of the dump directory, name -> request id
  summary,    \* the groups of the last stats summary line
  answers     \* history: the answers clients received

intakeVars ==
  <<accept, registry, drop, conn, requestCounter, statsAttempts, blocking, captured, dumps,
    summary, answers>>

Endpoints == {"stats", "traces", "pipeline_stats"}
NoRequest == [id |-> 0, at |-> "idle"]

IntakeInit ==
  /\ accept = "select"
  /\ registry = [shuttingDown |-> FALSE, handles |-> {}]
  /\ drop = "live"
  /\ conn = [c \in Conns |-> [task |-> "none", req |-> NoRequest]]
  /\ requestCounter = 0
  /\ statsAttempts = 0
  /\ blocking = {}
  /\ captured = [requests |-> <<>>, typed |-> <<>>]
  /\ dumps \in {<<>>} \cup {[n \in {<<d, 0>>} |-> 0] : d \in DumpNames}
  /\ summary = [groups |-> <<>>, of |-> <<>>]
  /\ answers = {}

-----------------------------------------------------------------------------
(* Decoding a request.                                                     *)

\* An absent encoding is "identity"; the cap is on what comes out.
Decompress(r) ==
  IF r.encoding = "other" THEN "unsupported"
  ELSE IF r.encoding # "identity" /\ (r.corrupt \/ r.size > MaxDecompressed) THEN "failed"
  ELSE "ok"

FailureStatus(inject) == IF inject THEN 500 ELSE 400
DecompressFailureStatus(result) == IF result = "unsupported" THEN 415 ELSE 400

\* The injection counts the attempts that reach decoding, decodable or not.
HandleStats(r) ==
  LET result == Decompress(r)
      inject == statsAttempts + 1 <= FailStatsFirstN
  IN IF result = "unsupported" THEN [status |-> 415, decoded |-> FALSE, attempt |-> 0]
     ELSE IF result = "ok" /\ r.decodes
     THEN [status |-> IF inject THEN 500 ELSE 202, decoded |-> TRUE, attempt |-> 1]
     ELSE [status |-> FailureStatus(inject), decoded |-> FALSE, attempt |-> 1]

\* handle_traces and handle_pipeline_stats.
HandleOther(r) ==
  LET result == Decompress(r)
  IN IF result # "ok"
     THEN [status |-> DecompressFailureStatus(result), decoded |-> FALSE, attempt |-> 0]
     ELSE [status |-> IF r.decodes THEN 202 ELSE 400, decoded |-> r.decodes, attempt |-> 0]

Handle(r) == IF r.endpoint = "stats" THEN HandleStats(r) ELSE HandleOther(r)

\* Mutant: tag lists are compared as they come.
StatsGroupKeyUnsorted(client, grouped) ==
  [dims |-> <<client.dims, grouped.dims>>, tags |-> grouped.tags]

\* Tag lists are sorted: two lists with the same tags are the same dimension.
\* What is measured is not part of the key.
StatsGroupKey(client, grouped) ==
  [dims |-> <<client.dims, grouped.dims>>, tags |-> ToBag(grouped.tags)]

\* The groups of a stats payload by client and place, and the hits of each.
GroupsOf(clients) ==
  UNION {{<<c, g>> : g \in DOMAIN clients[c].groups} : c \in DOMAIN clients}
GroupAt(clients, x) == clients[x[1]].groups[x[2]]
HitsOf(clients) == [x \in GroupsOf(clients) |-> GroupAt(clients, x).hits]

\* Hits per key over all clients and time buckets of a stats payload.
StatsHitsByKey(clients) ==
  LET key == [x \in GroupsOf(clients) |->
                StatsGroupKey(clients[x[1]], GroupAt(clients, x))]
  IN [k \in Range(key) |->
        SumFunctionOnSet(HitsOf(clients), {x \in GroupsOf(clients) : key[x] = k})]

\* The first name that is free, up to MaxSuffix; an existing file is never
\* opened.
DumpRequest(name, id) ==
  LET free == {s \in 0 .. MaxSuffix : <<name, s>> \notin DOMAIN dumps}
  IN IF free = {} THEN dumps
     ELSE [f \in DOMAIN dumps \cup {<<name, Min(free)>>} |->
             IF f \in DOMAIN dumps THEN dumps[f] ELSE id]

\* Mutant: requests are recorded in the order they finish.
InsertLast(entries, entry) == Append(entries, entry)

\* By the id given at the head, whichever request finishes first.
InsertSorted(entries, entry) ==
  LET i == Cardinality({k \in DOMAIN entries : entries[k].id < entry.id}) + 1
  IN InsertAt(entries, i, entry)

-----------------------------------------------------------------------------
(* The accept task.                                                        *)

\* The task is spawned, and may serve, before it is registered.
Accept(c) ==
  /\ accept = "select"
  /\ conn[c].task = "none"
  /\ conn' = [conn EXCEPT ![c].task = "running"]
  /\ accept' = c
  /\ UNCHANGED <<registry, drop, requestCounter, statsAttempts, blocking, captured,
                 dumps, summary, answers>>

\* Mutant: a connection is registered without a look at the shutdown flag.
RegisterAlways ==
  /\ accept \in Conns
  /\ accept' = "select"
  /\ registry' = [registry EXCEPT !.handles =
                     {c \in @ : conn[c].task = "running"} \cup {accept}]
  /\ UNCHANGED <<drop, conn, requestCounter, statsAttempts, blocking, captured, dumps,
                 summary, answers>>

\* JoinHandle::abort: a task that is not being polled ends there and then, one
\* that is being polled by another worker goes on to the end of the poll.
Abort(c, polled) ==
  IF conn[c].task # "running" THEN conn[c]
  ELSE IF polled THEN [conn[c] EXCEPT !.task = "aborted"]
  ELSE [task |-> "ended", req |-> NoRequest]

\* Finished connections are pruned.  An abort of the accept task takes effect
\* when it is back at its select.
Register ==
  /\ accept \in Conns
  /\ accept' = "select"
  /\ IF registry.shuttingDown
     THEN /\ \E polled \in BOOLEAN : conn' = [conn EXCEPT ![accept] = Abort(accept, polled)]
          /\ UNCHANGED registry
     ELSE /\ registry' = [registry EXCEPT !.handles =
                            {c \in @ : conn[c].task = "running"} \cup {accept}]
          /\ UNCHANGED conn
  /\ UNCHANGED <<drop, requestCounter, statsAttempts, blocking, captured, dumps, summary, answers>>

StopAccepting ==
  /\ accept = "select"
  /\ drop # "live"
  /\ accept' = "stopped"
  /\ UNCHANGED <<registry, drop, conn, requestCounter, statsAttempts, blocking,
                 captured, dumps, summary, answers>>

-----------------------------------------------------------------------------
(* A connection.                                                           *)

Serves(c) == conn[c].task \in {"running", "aborted"}
Serving(c, at) == Serves(c) /\ conn[c].req.at = at

Answer(c, id, status) ==
  /\ answers' = answers \cup {[conn |-> c, id |-> id, status |-> status]}
  /\ conn' = [conn EXCEPT ![c].req = NoRequest]

\* The head of a request: refused without an id (404, 405), or given one.
Head_(c, r) ==
  /\ Serving(c, "idle")
  /\ requestCounter < MaxRequests
  /\ IF r.endpoint \notin Endpoints \/ r.method # "POST"
     THEN UNCHANGED <<conn, requestCounter, answers>>
     ELSE /\ requestCounter' = requestCounter + 1
          /\ conn' = [conn EXCEPT ![c].req =
                        [id |-> requestCounter', at |-> "body", r |-> r]]
          /\ UNCHANGED answers
  /\ UNCHANGED <<accept, registry, drop, statsAttempts, blocking, captured, dumps, summary>>

\* The body is read whole: the blocking task is spawned.
ReadBody(c) ==
  /\ Serving(c, "body")
  /\ LET q == conn[c].req
     IN IF q.r.wire > MaxBodySize
        THEN Answer(c, q.id, 413) /\ UNCHANGED blocking
        ELSE /\ blocking' = blocking \cup
                  {[id |-> q.id, r |-> q.r, done |-> FALSE, status |-> 0, accepted |-> FALSE]}
             /\ conn' = [conn EXCEPT ![c].req.at = "handling"]
             /\ UNCHANGED answers
  /\ UNCHANGED <<accept, registry, drop, requestCounter, statsAttempts, captured, dumps, summary>>

\* The body cannot be read.
BodyError(c) ==
  /\ Serving(c, "body")
  /\ Answer(c, conn[c].req.id, 400)
  /\ UNCHANGED <<accept, registry, drop, requestCounter, statsAttempts, blocking,
                 captured, dumps, summary>>

\* The blocking task is over: its status is the answer.
Respond(c) ==
  /\ Serving(c, "handling")
  /\ \A t \in blocking : t.id # conn[c].req.id
  /\ \E e \in ToSet(captured.requests) :
       e.id = conn[c].req.id /\ Answer(c, e.id, e.status)
  /\ UNCHANGED <<accept, registry, drop, requestCounter, statsAttempts, blocking,
                 captured, dumps, summary>>

\* The client goes away, or the poll of a task that was told to stop is over:
\* the handler is dropped, the blocking task runs on.
EndConnection(c) ==
  /\ Serves(c)
  /\ conn' = [conn EXCEPT ![c] = [task |-> "ended", req |-> NoRequest]]
  /\ UNCHANGED <<accept, registry, drop, requestCounter, statsAttempts, blocking,
                 captured, dumps, summary, answers>>

-----------------------------------------------------------------------------
(* A blocking task.                                                        *)

\* Decode, count the attempt, write the summary line and the dump.
DecodeTask(t, name) ==
  /\ t \in blocking /\ ~t.done
  /\ LET h == Handle(t.r)
     IN /\ statsAttempts' = statsAttempts + h.attempt
        /\ dumps' = IF h.decoded THEN DumpRequest(name, t.id) ELSE dumps
        /\ summary' = IF h.decoded /\ t.r.endpoint = "stats"
                      THEN [groups |-> StatsHitsByKey(t.r.clients), of |-> t.r.clients]
                      ELSE summary
        /\ blocking' = (blocking \ {t}) \cup
             {[t EXCEPT !.done = TRUE, !.status = h.status,
                        !.accepted = h.decoded /\ h.status = 202]}
  /\ UNCHANGED <<accept, registry, drop, conn, requestCounter, captured, answers>>

\* A handler that panics, before or after it counted the attempt, is answered
\* 500.
PanicTask(t) ==
  /\ t \in blocking /\ ~t.done
  /\ statsAttempts' \in {statsAttempts, statsAttempts + Handle(t.r).attempt}
  /\ blocking' = (blocking \ {t}) \cup {[t EXCEPT !.done = TRUE, !.status = 500]}
  /\ UNCHANGED <<accept, registry, drop, conn, requestCounter, captured, dumps, summary,
                 answers>>

\* The raw request and its payload under one lock.
Record(t) ==
  /\ t \in blocking /\ t.done
  /\ captured' =
       [requests |-> InsertSorted(captured.requests,
                       [id |-> t.id, endpoint |-> t.r.endpoint, status |-> t.status]),
        typed |-> IF t.accepted
                  THEN InsertSorted(captured.typed, [id |-> t.id, endpoint |-> t.r.endpoint])
                  ELSE captured.typed]
  /\ blocking' = blocking \ {t}
  /\ UNCHANGED <<accept, registry, drop, conn, requestCounter, statsAttempts, dumps, summary, answers>>

-----------------------------------------------------------------------------
(* What a test reads.                                                      *)

\* The entries of an endpoint, in order.
ForPath(entries, e) ==
  LET found[n \in 0..Len(entries)] ==
        IF n = 0 THEN <<>>
        ELSE IF entries[n].endpoint = e THEN Append(found[n-1], entries[n]) ELSE found[n-1]
  IN  found[Len(entries)]

\* requests_for_path: the raw requests of an endpoint, in order of arrival.
RequestsForPath(e) == ForPath(captured.requests, e)

\* stats_payloads, trace_payloads, pipeline_stats_payloads.
PayloadsOf(e) == ForPath(captured.typed, e)

-----------------------------------------------------------------------------
(* Drop, on the thread of the test.                                        *)

SignalShutdown ==
  /\ drop = "live"
  /\ drop' = "signalled"
  /\ UNCHANGED <<accept, registry, conn, requestCounter, statsAttempts, blocking,
                 captured, dumps, summary, answers>>

DrainRegistry ==
  /\ drop = "signalled"
  /\ drop' = "done"
  /\ \E polled \in SUBSET registry.handles :
       conn' = [c \in Conns |-> IF c \in registry.handles THEN Abort(c, c \in polled)
                               ELSE conn[c]]
  /\ registry' = [shuttingDown |-> TRUE, handles |-> {}]
  /\ UNCHANGED <<accept, requestCounter, statsAttempts, blocking, captured, dumps, summary, answers>>

-----------------------------------------------------------------------------
IntakeNext ==
  \/ \E c \in Conns : Accept(c) \/ ReadBody(c) \/ BodyError(c) \/ Respond(c) \/ EndConnection(c)
  \/ \E c \in Conns, r \in Requests : Head_(c, r)
  \/ \E t \in blocking : PanicTask(t) \/ Record(t)
  \/ \E t \in blocking, name \in DumpNames : DecodeTask(t, name)
  \/ Register \/ StopAccepting \/ SignalShutdown \/ DrainRegistry

IntakeSpec == IntakeInit /\ [][IntakeNext]_intakeVars

-----------------------------------------------------------------------------
(* Properties.                                                             *)

Ids(entries) == {entries[i].id : i \in DOMAIN entries}

Sorted(entries) ==
  \A i, j \in DOMAIN entries : i < j => entries[i].id < entries[j].id

\* A client that has its answer finds its request, the captures are in the
\* order in which the heads arrived however the requests finish, and each
\* endpoint exposes a payload exactly for its requests answered 202.
CapturesComplete ==
  /\ \A a \in answers : a.status \in {202, 415, 500} =>
       a.id \in Ids(captured.requests)
  /\ Sorted(captured.requests) /\ Sorted(captured.typed)
  /\ \A e \in Endpoints :
       Ids(PayloadsOf(e)) = {x.id : x \in {y \in ToSet(RequestsForPath(e)) : y.status = 202}}

\* A dump never takes the name of an earlier one: one file per dumped request,
\* next to the ones of an earlier process.
OneDumpEach == \A f, g \in DOMAIN dumps : f # g /\ dumps[f] # 0 => dumps[f] # dumps[g]

\* A client that has its answer finds its request among the captures, which are
\* in order of arrival, complete for every endpoint and dumped once each
\* (lib.rs, record and insert_sorted).
AnsweredIsCaptured == CapturesComplete /\ OneDumpEach

\* Once Drop has returned every connection has ended or was told to stop, and is
\* at most finishing the poll it is in, except one: the connection the accept
\* task has yet to register, which it then aborts (lib.rs, Drop and the accept
\* task).  No task is left that would be polled anew for a keep-alive client.
NoOrphans ==
  drop = "done" => \A c \in Conns : conn[c].task = "running" => accept = c

\* Two lists of tags that differ in their order only.
Reordered(a, b) ==
  \E p \in Bijection(DOMAIN a, DOMAIN b) : \A i \in DOMAIN a : a[i] = b[p[i]]

\* The groups of the payload that have the dimensions of group x.
Alike(x) ==
  {y \in GroupsOf(summary.of) :
     LET g == GroupAt(summary.of, x)
         h == GroupAt(summary.of, y)
     IN /\ summary.of[x[1]].dims = summary.of[y[1]].dims
        /\ g.dims = h.dims /\ Reordered(g.tags, h.tags)}

\* The summary of a stats payload accounts for every hit, once: it has one row for
\* the groups of the same dimensions, however their tags are ordered, with the
\* hits of all of them (lib.rs, stats_hits_by_key).
SummaryCountsHits ==
  LET kinds == {Alike(x) : x \in GroupsOf(summary.of)}
  IN /\ SumFunction(summary.groups) = SumFunction(HitsOf(summary.of))
     /\ \E row \in Bijection(kinds, DOMAIN summary.groups) :
          \A k \in kinds : summary.groups[row[k]] = SumFunctionOnSet(HitsOf(summary.of), k)

=============================================================================
