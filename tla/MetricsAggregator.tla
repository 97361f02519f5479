------------------------- MODULE MetricsAggregator -------------------------
(***************************************************************************)
(* The metrics aggregator of crates/dogstatsd/src/aggregator: one service  *)
(* task owns the context map (core.rs) and executes the commands its       *)
(* handles put into an unbounded mailbox (service.rs).  Any number of      *)
(* tasks insert batches of metrics, request flushes, look entries up and   *)
(* ask for the shutdown.                                                   *)
(*                                                                         *)
(* A metric is a sample s: Context[s] stands for its id (the hash of name, *)
(* tags and time bucket), Kind[s] for its type, which is not part of the   *)
(* id.  The value of an entry is symbolic: the samples that contributed to *)
(* it.  A count or a distribution collects samples, a gauge keeps the last *)
(* one, and {} is the 0 that a sample of another kind is read as.          *)
(***************************************************************************)
EXTENDS Naturals, Sequences, FiniteSets

CONSTANTS
  Samples, Context, Kind,
  Contexts,     \* the ids
  Size,         \* Size[c]: serialized size of the entry of context c
  MaxContexts,  \* max_context, the limit on live contexts
  MaxEntries, MaxBytes,  \* limits of a payload
  Flushers,     \* tasks that flush, one flush each
  Getters,      \* tasks that look an entry up, once each
  Batches,      \* the batches tasks insert: sequences of distinct samples
  MaxQueued     \* bound on the commands waiting in the mailbox

ASSUME MetricsAggregatorAssumption ==
  /\ Context \in [Samples -> Contexts] /\ Kind \in [Samples -> {"count", "gauge", "distribution"}]
  /\ Size \in [Contexts -> Nat]
  /\ MaxContexts \in Nat /\ MaxEntries \in Nat /\ MaxBytes \in Nat
  /\ Batches \subseteq Seq(Samples)
  /\ \A b \in Batches : \A i, j \in DOMAIN b : b[i] = b[j] => i = j

B == INSTANCE MetricBatches WITH MaxBatchEntries <- MaxEntries, MaxBatchBytes <- MaxBytes

VARIABLES
  commands,   \* the commands sent and not received yet
  running,    \* the service task is alive
  batch,      \* the rest of the batch being inserted
  map,        \* the context map: a function on the live contexts
  flush,      \* flush[f]: where flusher f is
  response,   \* response[f]: the payloads f received
  lookup,     \* lookup[g]: where getter g is
  \* history
  uninserted, \* samples not inserted yet
  overflowed, \* samples rejected for too many contexts
  shadowed,   \* samples that left no trace in the entry of their context
  lost,       \* samples given up otherwise: refused or discarded commands, a
              \* response nobody received, a point that does not serialize
  promised    \* promised[f]: samples whose insertion f's flush came after

history == <<uninserted, overflowed, shadowed, lost, promised>>
aggregatorVars == <<commands, running, batch, map, flush, response, lookup, history>>

NoResponse == [series |-> <<>>, distributions |-> <<>>]

AggregatorInit ==
  /\ commands = <<>> /\ running = TRUE /\ batch = <<>> /\ map = <<>>
  /\ flush = [f \in Flushers |-> "idle"]
  /\ response = [f \in Flushers |-> NoResponse]
  /\ lookup = [g \in Getters |-> "idle"]
  /\ uninserted = Samples /\ overflowed = {} /\ shadowed = {} /\ lost = {}
  /\ promised = [f \in Flushers |-> {}]

Values(f) == {f[x] : x \in DOMAIN f}

\* The arrangements of a finite set: the orders in which a table can yield it.
Orders(S) == {o \in [1..Cardinality(S) -> S] : Values(o) = S}

-----------------------------------------------------------------------------
(* AggregatorHandle.                                                       *)

\* insert_batch: fails once the service has dropped its receiver.
InsertBatch(metrics) ==
  /\ Values(metrics) \subseteq uninserted
  /\ uninserted' = uninserted \ Values(metrics)
  /\ \/ /\ running
        /\ commands' = Append(commands, [op |-> "insert", metrics |-> metrics])
        /\ UNCHANGED lost
     \/ /\ ~running
        /\ lost' = lost \cup Values(metrics)
        /\ UNCHANGED commands
  /\ UNCHANGED <<running, batch, map, flush, response, lookup, overflowed, shadowed,
                 promised>>

\* Mutant: a flush overtakes the commands queued before it.
RequestFlushFirst(f) ==
  /\ flush[f] = "idle" /\ running
  /\ commands' = <<[op |-> "flush", from |-> f]>> \o commands
  /\ flush' = [flush EXCEPT ![f] = "waiting"]
  /\ promised' = [promised EXCEPT ![f] = Samples \ uninserted]
  /\ UNCHANGED <<running, batch, map, response, lookup, uninserted, overflowed, shadowed, lost>>

\* flush: the command is queued, then the caller waits for the response.
RequestFlush(f) ==
  /\ flush[f] = "idle"
  /\ \/ /\ running
        /\ commands' = Append(commands, [op |-> "flush", from |-> f])
        /\ flush' = [flush EXCEPT ![f] = "waiting"]
        /\ promised' = [promised EXCEPT ![f] = Samples \ uninserted]
     \/ /\ ~running
        /\ flush' = [flush EXCEPT ![f] = "failed"]
        /\ UNCHANGED <<commands, promised>>
  /\ UNCHANGED <<running, batch, map, response, lookup, uninserted, overflowed, shadowed, lost>>

\* The future of a flush is dropped while it waits.
DropFlush(f) ==
  /\ flush[f] = "waiting"
  /\ flush' = [flush EXCEPT ![f] = "dropped"]
  /\ UNCHANGED <<commands, running, batch, map, response, lookup, history>>

\* get_entry_by_id.
RequestEntry(g, c) ==
  /\ lookup[g] = "idle"
  /\ \/ /\ running
        /\ commands' = Append(commands, [op |-> "get", from |-> g, context |-> c])
        /\ lookup' = [lookup EXCEPT ![g] = "waiting"]
     \/ /\ ~running
        /\ lookup' = [lookup EXCEPT ![g] = "failed"]
        /\ UNCHANGED commands
  /\ UNCHANGED <<running, batch, map, flush, response, history>>

\* shutdown; a second request changes nothing.
RequestShutdown ==
  /\ running
  /\ \A i \in DOMAIN commands : commands[i].op # "shutdown"
  /\ commands' = Append(commands, [op |-> "shutdown"])
  /\ UNCHANGED <<running, batch, map, flush, response, lookup, history>>

-----------------------------------------------------------------------------
(* AggregatorService::run: one command at a time.                          *)

Command(op) == running /\ batch = <<>> /\ commands # <<>> /\ Head(commands).op = op

ReceiveBatch ==
  /\ Command("insert")
  /\ batch' = Head(commands).metrics
  /\ commands' = Tail(commands)
  /\ UNCHANGED <<running, map, flush, response, lookup, history>>

\* MetricValue::aggregate: a sample of the wrong kind reads as 0 for a count
\* or a gauge, and is ignored by a distribution.
Aggregate(entry, s) ==
  LET same == (entry.kind = "distribution") <=> (Kind[s] = "distribution")
      read == IF same THEN {s} ELSE {}
  IN  [entry EXCEPT !.value = IF entry.kind = "gauge" THEN read ELSE @ \cup read]

HasRoom == Cardinality(DOMAIN map) < MaxContexts

\* Aggregator::insert of the next metric of the batch.
Insert ==
  LET s == Head(batch)
      c == Context[s]
  IN  /\ batch # <<>>
      /\ batch' = Tail(batch)
      /\ \/ /\ c \in DOMAIN map
            /\ map' = [map EXCEPT ![c] = Aggregate(@, s)]
            /\ shadowed' = shadowed \cup ((map[c].value \cup {s}) \ map'[c].value)
            /\ UNCHANGED overflowed
         \/ /\ c \notin DOMAIN map /\ HasRoom
            /\ map' = [x \in DOMAIN map \cup {c} |->
                         IF x = c THEN [kind |-> Kind[s], value |-> {s}] ELSE map[x]]
            /\ UNCHANGED <<overflowed, shadowed>>
         \/ /\ c \notin DOMAIN map /\ ~HasRoom
            /\ overflowed' = overflowed \cup {s}
            /\ UNCHANGED <<map, shadowed>>
      /\ UNCHANGED <<commands, running, flush, response, lookup, uninserted, lost, promised>>

IsDistribution(c) == map[c].kind = "distribution"

\* The samples in the payloads of a response.
InPayloads(payloads) ==
  UNION {UNION {payloads[i][j].value : j \in DOMAIN payloads[i]} : i \in DOMAIN payloads}

InResponse(r) == InPayloads(r.series) \cup InPayloads(r.distributions)

\* The sketches or points built from a set of live contexts, as the table may
\* yield them, and their sizes.
Listings(S) ==
  {[i \in DOMAIN o |-> [context |-> o[i], kind |-> map[o[i]].kind, value |-> map[o[i]].value]] :
     o \in Orders(S)}

Sizes(entries) == [e \in Values(entries) |-> Size[e.context]]

\* Mutant: the map is read but not emptied (to_series for consume_metrics).
KeptAfterFlush == {c \in DOMAIN map : ~IsDistribution(c)}

\* consume_metrics takes every series, consume_distributions the rest.
LeftAfterFlush == {}

\* The samples of the live contexts.
Held(m) == UNION {m[c].value : c \in DOMAIN m}

\* Flush: take everything out of the map and answer; if the caller is gone
\* the response is dropped with what it holds.
ServeFlush ==
  /\ Command("flush")
  /\ \E points \in Listings({c \in DOMAIN map : ~IsDistribution(c)}),
        sketches \in Listings({c \in DOMAIN map : IsDistribution(c)}) :
       LET f == Head(commands).from
           r == [series |-> B!ConsumeMetrics(points, Sizes(points)),
                 distributions |-> B!ConsumeDistributions(sketches, Sizes(sketches))]
           received == IF flush[f] = "waiting" THEN InResponse(r) ELSE {}
       IN /\ flush' = [flush EXCEPT ![f] = IF @ = "waiting" THEN "done" ELSE @]
          /\ response' = [response EXCEPT ![f] = IF flush[f] = "waiting" THEN r ELSE @]
          /\ lost' = lost \cup (Held(map) \ received)
  /\ map' = [c \in LeftAfterFlush |-> map[c]]
  /\ commands' = Tail(commands)
  /\ UNCHANGED <<running, batch, lookup, uninserted, overflowed, shadowed, promised>>

\* GetEntryById: a clone of the entry, if any; the map is left alone.
ServeGet ==
  /\ Command("get")
  /\ lookup' = [lookup EXCEPT ![Head(commands).from] =
                  IF Head(commands).context \in DOMAIN map THEN "found" ELSE "absent"]
  /\ commands' = Tail(commands)
  /\ UNCHANGED <<running, batch, map, flush, response, history>>

\* The samples of the insertions in a sequence of commands.
Queued(s) == UNION {Values(s[i].metrics) : i \in {j \in DOMAIN s : s[j].op = "insert"}}

\* Mutant: the callers queued behind the shutdown are never told.
StopSilently ==
  /\ Command("shutdown")
  /\ running' = FALSE /\ commands' = <<>>
  /\ lost' = lost \cup Queued(commands)
  /\ UNCHANGED <<batch, map, flush, response, lookup, uninserted, overflowed, shadowed, promised>>

\* Shutdown: the loop ends; the receiver is dropped with the commands behind
\* it, which fails the calls that wait for their answers.
Stop ==
  /\ Command("shutdown")
  /\ running' = FALSE /\ commands' = <<>>
  /\ lost' = lost \cup Queued(commands)
  /\ flush' = [f \in Flushers |-> IF flush[f] = "waiting" THEN "failed" ELSE flush[f]]
  /\ lookup' = [g \in Getters |-> IF lookup[g] = "waiting" THEN "failed" ELSE lookup[g]]
  /\ UNCHANGED <<batch, map, response, uninserted, overflowed, shadowed, promised>>

Service == ReceiveBatch \/ Insert \/ ServeFlush \/ ServeGet \/ Stop

-----------------------------------------------------------------------------

\* The mailbox is unbounded in the code; MaxQueued bounds it in the model.
Handle ==
  \/ /\ Len(commands) < MaxQueued
     /\ \/ \E metrics \in Batches : InsertBatch(metrics)
        \/ \E f \in Flushers : RequestFlush(f)
        \/ \E g \in Getters, c \in Contexts : RequestEntry(g, c)
        \/ RequestShutdown
  \/ \E f \in Flushers : DropFlush(f)

AggregatorNext == Handle \/ Service

\* The service task is scheduled by the runtime; its callers owe nothing.
AggregatorSpec == AggregatorInit /\ [][AggregatorNext]_aggregatorVars /\ WF_aggregatorVars(Service)

-----------------------------------------------------------------------------
(* Properties.                                                             *)

InMailbox == Queued(commands)

InMap == Held(map)

Delivered == UNION {InResponse(response[f]) : f \in Flushers}

Places ==
  <<uninserted, InMailbox, Values(batch), InMap, Delivered, overflowed, shadowed, lost>>

\* A count or distribution loses a sample only when its context is used with
\* samples of another kind; otherwise only gauges forget, by design.
OnlyMixedKindsShadow ==
  \A s \in shadowed :
    Kind[s] = "gauge" \/ \E t \in Samples : Context[t] = Context[s] /\ Kind[t] # Kind[s]

\* Every sample is in exactly one place: not yet inserted, queued, in the map,
\* in one payload of one flush, or accounted for as given up.  Nothing is
\* counted twice however flushes overlap, and nothing disappears unnoticed,
\* while the map stays within max_context (aggregator/core.rs, insert and
\* consume_metrics).  Only a context used with two kinds loses samples other
\* than gauges (MetricValue::aggregate).
AccountedOnce ==
  /\ Cardinality(DOMAIN map) <= MaxContexts
  /\ \A s \in Samples : Cardinality({p \in 1..8 : s \in Places[p]}) = 1
  /\ OnlyMixedKindsShadow

\* A flush sees every batch inserted before it was requested: once it is
\* answered, none of those samples is still waiting to be reported
\* (aggregator/service.rs, run).
FlushSeesEarlierInserts ==
  \A f \in Flushers :
    flush[f] = "done" => promised[f] \cap (InMailbox \cup Values(batch) \cup InMap) = {}

\* A flush request never waits for ever, even when the service shuts down
\* (aggregator/service.rs, run).
FlushAnswered == \A f \in Flushers : flush[f] = "waiting" ~> flush[f] # "waiting"

=============================================================================
