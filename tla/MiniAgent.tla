----------------------------- MODULE MiniAgent -----------------------------
(***************************************************************************)
(* The tasks of the mini agent, crates/datadog-trace-agent, and how they   *)
(* shut down (src/mini_agent.rs): the accept loops with their connections, *)
(* the stats flusher (src/stats_flusher.rs), the stats concentrator        *)
(* service (src/stats_concentrator_service.rs) and the supervisor serve,   *)
(* which drains the accept loops before it has the stats flusher flush     *)
(* for the last time, and gives up when a task dies.                       *)
(*                                                                         *)
(* A request carries either stats of the tracer, or traces whose stats the *)
(* agent computes; the request stands for its stats.  What becomes of the  *)
(* traces themselves is in TracePipeline.                                  *)
(***************************************************************************)
EXTENDS Naturals, Sequences, FiniteSets

CONSTANTS
  Requests,
  Kind,         \* Kind[r]: "stats" or "trace"
  Via,          \* Via[r]: the transport r comes by
  Transports,   \* accept loops: TCP and, on Windows, a named pipe
  ChannelSize   \* STATS_PAYLOAD_CHANNEL_BUFFER_SIZE

ASSUME MiniAgentAssumption ==
  /\ Kind \in [Requests -> {"stats", "trace"}] /\ Via \in [Requests -> Transports]
  /\ ChannelSize \in Nat \ {0}

VARIABLES
  agentStats,  \* agent_stats_computation_enabled
  shutdown,    \* the shutdown watch has changed
  supervisor,  \* where serve is: "select", "drain", "final_flush", "ok", "err"
  loop,        \* loop[t]: an accept loop
  conn,        \* conn[r]: the connection of r and its handler
  acked,       \* requests answered with success
  channel,     \* stats channel to the flusher
  signal,      \* the flusher's own shutdown signal
  flusher,     \* where the stats flusher is
  force,       \* this flush is the last one
  buffer,      \* stats received since the last flush
  out,         \* stats it is sending
  mailbox,     \* commands to the concentrator service
  service,     \* the concentrator service
  buckets,     \* stats in its concentrators
  traceFlusher,\* the trace flusher task
  \* history
  flushed,     \* sequence of the stats handed to the intake
  died         \* tasks that died by themselves

requests == <<conn, acked, channel>>
stats == <<flusher, force, buffer, out>>
concentrator == <<mailbox, service, buckets>>
vars == <<agentStats, shutdown, supervisor, loop, requests, signal, stats, concentrator,
          traceFlusher, flushed, died>>

Finished == {"exited", "died", "aborted"}

Values(s) == {s[i] : i \in DOMAIN s}
ToSet(s) == UNION Values(s)

\* The concentrator service exists only if the agent computes stats.
Init ==
  /\ agentStats \in BOOLEAN
  /\ shutdown = FALSE /\ supervisor = "select"
  /\ loop = [t \in Transports |-> "accepting"]
  /\ conn = [r \in Requests |-> "none"] /\ acked = {} /\ channel = <<>>
  /\ signal = FALSE /\ flusher = "idle" /\ force = FALSE /\ buffer = {} /\ out = {}
  /\ mailbox = <<>> /\ service = (IF agentStats THEN "running" ELSE "none") /\ buckets = {}
  /\ traceFlusher = "running"
  /\ flushed = <<>> /\ died = {}

RequestShutdown ==
  /\ ~shutdown
  /\ shutdown' = TRUE
  /\ UNCHANGED <<agentStats, supervisor, loop, requests, signal, stats, concentrator, traceFlusher, flushed, died>>

-----------------------------------------------------------------------------
(* The accept loops and the connections they have spawned.                 *)

SetConn(r, s) == conn' = [conn EXCEPT ![r] = s]

Live(c) == c \in {"open", "handling", "responding"}

\* The select of the loop is not biased: it may still accept after shutdown.
Accept(r) ==
  /\ conn[r] = "none" /\ loop[Via[r]] = "accepting"
  /\ SetConn(r, "open")
  /\ UNCHANGED <<agentStats, shutdown, supervisor, loop, acked, channel, signal, stats, concentrator, traceFlusher, flushed, died>>

\* The request is read.  Even a connection that was told to shut down serves
\* the request it has begun.
BeginRequest(r) ==
  /\ conn[r] = "open"
  /\ SetConn(r, "handling")
  /\ UNCHANGED <<agentStats, shutdown, supervisor, loop, acked, channel, signal, stats, concentrator, traceFlusher, flushed, died>>

\* process_stats.  If the agent computes the stats itself, those of the tracer
\* are redundant: the body is drained, the request answered with success, and
\* the stats are dropped.  Otherwise they go to the channel when there is room,
\* and the request fails if the flusher is gone.
ProcessStats(r) ==
  /\ conn[r] = "handling" /\ Kind[r] = "stats"
  /\ \/ /\ agentStats
        /\ SetConn(r, "responding") /\ UNCHANGED channel
     \/ /\ ~agentStats /\ flusher \in Finished
        /\ SetConn(r, "closed") /\ UNCHANGED channel
     \/ /\ ~agentStats /\ flusher \notin Finished
        /\ Len(channel) < ChannelSize
        /\ channel' = Append(channel, r)
        /\ SetConn(r, "responding")
  /\ UNCHANGED <<agentStats, shutdown, supervisor, loop, acked, signal, stats, concentrator, traceFlusher, flushed, died>>

\* That the service is gone is only logged.
SendToConcentrator(r) ==
  mailbox' = IF service = "running" THEN Append(mailbox, [op |-> "add", req |-> r]) ELSE mailbox

\* process_traces: there is a service only if the agent computes stats.
ProcessTraces(r) ==
  /\ conn[r] = "handling" /\ Kind[r] = "trace"
  /\ SendToConcentrator(r)
  /\ SetConn(r, "responding")
  /\ UNCHANGED <<agentStats, shutdown, supervisor, loop, acked, channel, signal, stats, service, buckets, traceFlusher, flushed, died>>

Respond(r) ==
  /\ conn[r] = "responding"
  /\ acked' = acked \cup {r}
  /\ SetConn(r, "closed")
  /\ UNCHANGED <<agentStats, shutdown, supervisor, loop, channel, signal, stats, concentrator, traceFlusher, flushed, died>>

\* The client goes away, and the handler is dropped.
Disconnect(r) ==
  /\ Live(conn[r])
  /\ SetConn(r, "closed")
  /\ UNCHANGED <<agentStats, shutdown, supervisor, loop, acked, channel, signal, stats, concentrator, traceFlusher, flushed, died>>

\* Mutant: connections are not told to shut down.
CloseNever(r) == FALSE /\ UNCHANGED vars

\* graceful_shutdown closes a connection on which no request has begun.
CloseIdle(r) ==
  /\ shutdown /\ conn[r] = "open"
  /\ SetConn(r, "closed")
  /\ UNCHANGED <<agentStats, shutdown, supervisor, loop, acked, channel, signal, stats, concentrator, traceFlusher, flushed, died>>

\* The loop sees the shutdown, accepts no more and, when its connections have
\* all ended, returns.
DrainLoop(t) ==
  /\ loop[t] = "accepting" /\ shutdown
  /\ loop' = [loop EXCEPT ![t] = "draining"]
  /\ UNCHANGED <<agentStats, shutdown, supervisor, requests, signal, stats, concentrator, traceFlusher, flushed, died>>

ExitLoop(t) ==
  /\ loop[t] = "draining"
  /\ \A r \in Requests : Via[r] = t => ~Live(conn[r])
  /\ loop' = [loop EXCEPT ![t] = "exited"]
  /\ UNCHANGED <<agentStats, shutdown, supervisor, requests, signal, stats, concentrator, traceFlusher, flushed, died>>

\* The connections of loops that end in another way are aborted with them.
Orphaned(ts) == [r \in Requests |-> IF Via[r] \in ts /\ Live(conn[r]) THEN "closed" ELSE conn[r]]

\* An error of accept, or the panic of a handler.
FailLoop(t) ==
  /\ loop[t] \in {"accepting", "draining"}
  /\ loop' = [loop EXCEPT ![t] = "died"]
  /\ conn' = Orphaned({t})
  /\ died' = died \cup {t}
  /\ UNCHANGED <<agentStats, shutdown, supervisor, acked, channel, signal, stats, concentrator, traceFlusher, flushed>>

-----------------------------------------------------------------------------
(* start_stats_flusher and flush_stats.                                    *)

Receive ==
  /\ flusher = "idle" /\ channel # <<>>
  /\ buffer' = buffer \cup {Head(channel)}
  /\ channel' = Tail(channel)
  /\ UNCHANGED <<agentStats, shutdown, supervisor, loop, conn, acked, signal, flusher, force, out, concentrator, traceFlusher, flushed, died>>

\* The interval is over.
Tick ==
  /\ flusher = "idle" /\ (buffer # {} \/ agentStats)
  /\ out' = buffer /\ buffer' = {}
  /\ flusher' = "sending_stats"
  /\ UNCHANGED <<agentStats, shutdown, supervisor, loop, requests, signal, force, concentrator, traceFlusher, flushed, died>>

\* The shutdown signal: what is in the channel belongs to the last flush.
FinalFlush ==
  /\ flusher = "idle" /\ signal
  /\ out' = buffer \cup Values(channel) /\ buffer' = {} /\ channel' = <<>>
  /\ force' = TRUE /\ flusher' = "sending_stats"
  /\ UNCHANGED <<agentStats, shutdown, supervisor, loop, conn, acked, signal, concentrator, traceFlusher, flushed, died>>

AfterFlush == IF force THEN "exited" ELSE "idle"

SendOut == flushed' = (IF out = {} THEN flushed ELSE Append(flushed, out)) /\ out' = {}

\* Client stats go out, if any; a failed send is only logged.  Then the
\* concentrator is asked for its own, and a dead one is an error that is logged.
SendStats ==
  /\ flusher = "sending_stats"
  /\ SendOut
  /\ \/ /\ service = "running"
        /\ mailbox' = Append(mailbox, [op |-> "flush", force |-> force])
        /\ flusher' = "waiting"
     \/ /\ service # "running"
        /\ flusher' = AfterFlush
        /\ UNCHANGED mailbox
  /\ UNCHANGED <<agentStats, shutdown, supervisor, loop, requests, signal, force, buffer, service, buckets, traceFlusher, died>>

\* The answer came, or cannot come any more because the service is gone.
SendAgentStats ==
  /\ \/ flusher = "sending_agent_stats"
     \/ flusher = "waiting" /\ service \in Finished
  /\ SendOut
  /\ flusher' = AfterFlush
  /\ UNCHANGED <<agentStats, shutdown, supervisor, loop, requests, signal, force, buffer, concentrator, traceFlusher, died>>

FlusherDies ==
  /\ flusher \notin Finished
  /\ flusher' = "died" /\ died' = died \cup {"stats_flusher"}
  /\ channel' = <<>> /\ buffer' = {} /\ out' = {}
  /\ UNCHANGED <<agentStats, shutdown, supervisor, loop, conn, acked, signal, force, concentrator, traceFlusher, flushed>>

-----------------------------------------------------------------------------
(* StatsConcentratorService::run                                           *)

Command(op) == service = "running" /\ mailbox # <<>> /\ Head(mailbox).op = op

AddChunk ==
  /\ Command("add")
  /\ buckets' = buckets \cup {Head(mailbox).req}
  /\ mailbox' = Tail(mailbox)
  /\ UNCHANGED <<agentStats, shutdown, supervisor, loop, requests, signal, stats, service, traceFlusher, flushed, died>>

\* handle_flush: the stats of the buckets that are complete, of all if forced.
\* They are lost when nobody waits for them any more.
HandleFlush(complete) ==
  /\ Command("flush")
  /\ Head(mailbox).force => complete = buckets
  /\ buckets' = buckets \ complete
  /\ mailbox' = Tail(mailbox)
  /\ IF flusher = "waiting"
     THEN out' = complete /\ flusher' = "sending_agent_stats"
     ELSE UNCHANGED <<out, flusher>>
  /\ UNCHANGED <<agentStats, shutdown, supervisor, loop, requests, signal, force, buffer, service, traceFlusher, flushed, died>>

ServiceDies ==
  /\ service = "running"
  /\ service' = "died" /\ died' = died \cup {"concentrator"}
  /\ mailbox' = <<>> /\ buckets' = {}
  /\ UNCHANGED <<agentStats, shutdown, supervisor, loop, requests, signal, stats, traceFlusher, flushed>>

TraceFlusherDies ==
  /\ traceFlusher = "running"
  /\ traceFlusher' = "died" /\ died' = died \cup {"trace_flusher"}
  /\ UNCHANGED <<agentStats, shutdown, supervisor, loop, requests, signal, stats, concentrator, flushed>>

-----------------------------------------------------------------------------
(* serve                                                                   *)

\* Aborts the tasks that are left and returns.
AbortAll(result) ==
  LET ended == [t \in Transports |-> IF loop[t] \in Finished THEN loop[t] ELSE "aborted"] IN
  /\ supervisor' = result
  /\ loop' = ended
  /\ conn' = Orphaned({t \in Transports : ended[t] = "aborted"})
  /\ traceFlusher' = IF traceFlusher = "running" THEN "aborted" ELSE traceFlusher
  /\ IF flusher \in Finished
     THEN UNCHANGED <<flusher, buffer, out, channel>>
     ELSE flusher' = "aborted" /\ buffer' = {} /\ out' = {} /\ channel' = <<>>
  /\ IF service = "running"
     THEN service' = "aborted" /\ mailbox' = <<>> /\ buckets' = {}
     ELSE UNCHANGED concentrator
  /\ UNCHANGED <<agentStats, shutdown, acked, signal, force, flushed, died>>

SeesShutdown ==
  /\ supervisor = "select" /\ shutdown
  /\ supervisor' = "drain"
  /\ UNCHANGED <<agentStats, shutdown, loop, requests, signal, stats, concentrator, traceFlusher, flushed, died>>

TaskEnded ==
  \/ \E t \in Transports : loop[t] \in Finished
  \/ flusher \in Finished \/ service \in Finished \/ traceFlusher \in Finished

\* Mutant: the select is not biased.
SeesDeathFirst == supervisor = "select" /\ TaskEnded /\ AbortAll("err")

\* The select is biased: the end of a task counts only without a shutdown.  It
\* polls its arms one after the other, which is one step here: a shutdown that
\* comes, and an accept loop that has ended by it, within one poll are left out.
SeesDeath == supervisor = "select" /\ ~shutdown /\ TaskEnded /\ AbortAll("err")

\* Mutant: the stats flusher is signalled while the loops are draining.
SignalFlusherEarly ==
  /\ supervisor = "drain"
  /\ signal' = TRUE /\ supervisor' = "final_flush"
  /\ UNCHANGED <<agentStats, shutdown, loop, requests, stats, concentrator, traceFlusher, flushed, died>>

\* All accept loops have ended, well or not: the flusher is signalled.
SignalFlusher ==
  /\ supervisor = "drain"
  /\ \A t \in Transports : loop[t] \in Finished
  /\ signal' = TRUE /\ supervisor' = "final_flush"
  /\ UNCHANGED <<agentStats, shutdown, loop, requests, stats, concentrator, traceFlusher, flushed, died>>

EndFinalFlush ==
  /\ supervisor = "final_flush" /\ flusher \in Finished
  /\ AbortAll(IF flusher = "exited" THEN "ok" ELSE "err")

-----------------------------------------------------------------------------

Handler(r) == ProcessStats(r) \/ ProcessTraces(r) \/ Respond(r)
AcceptLoop(t) == DrainLoop(t) \/ ExitLoop(t)
StatsFlusher == Receive \/ Tick \/ FinalFlush \/ SendStats \/ SendAgentStats
Service == AddChunk \/ \E complete \in SUBSET buckets : HandleFlush(complete)
Supervisor == SeesShutdown \/ SeesDeath \/ SignalFlusher \/ EndFinalFlush

Next ==
  \/ RequestShutdown
  \/ \E r \in Requests : Accept(r) \/ BeginRequest(r) \/ Handler(r) \/ Disconnect(r) \/ CloseIdle(r)
  \/ \E t \in Transports : AcceptLoop(t) \/ FailLoop(t)
  \/ StatsFlusher \/ FlusherDies \/ Service \/ ServiceDies \/ TraceFlusherDies
  \/ Supervisor

\* Tasks are scheduled, and a client that has begun a request sends the rest
\* of it.  The flusher's select picks among its ready arms at random, so the
\* shutdown signal, which stays, is picked in the end.
Fairness ==
  /\ \A r \in Requests : WF_vars(Handler(r)) /\ WF_vars(CloseIdle(r))
  /\ \A t \in Transports : WF_vars(AcceptLoop(t))
  /\ WF_vars(StatsFlusher) /\ SF_vars(FinalFlush) /\ WF_vars(Service) /\ WF_vars(Supervisor)

Spec == Init /\ [][Next]_vars /\ Fairness

-----------------------------------------------------------------------------
(* Properties                                                              *)

\* The stats the agent is to report: the computed ones if it computes them, else
\* the tracer's.
Counted(r) == Kind[r] = IF agentStats THEN "trace" ELSE "stats"

\* "serve() drains all in-flight HTTP handlers before triggering the final
\* flush, preventing AddChunk/ClientStatsPayload messages from being missed":
\* after a clean shutdown, the stats of every request that was answered with
\* success have been handed to the intake, unless they are the redundant ones
\* that process_stats answers for and drops.
NothingMissed ==
  supervisor = "ok" /\ died = {} => \A r \in acked : Counted(r) => r \in ToSet(flushed)

\* Requests are counted from one source: no stats of the tracer go out beside
\* those the agent has computed from its traces.
NothingRedundant == \A r \in ToSet(flushed) : Counted(r)

\* The stats of one request are in one place at a time and go out once.
FlushedOnce ==
  \A r \in Requests :
    Cardinality({i \in DOMAIN channel : channel[i] = r})
      + Cardinality({i \in DOMAIN mailbox : mailbox[i].op = "add" /\ mailbox[i].req = r})
      + Cardinality({i \in DOMAIN flushed : r \in flushed[i]})
      + Cardinality({s \in 1..3 : r \in <<buffer, out, buckets>>[s]}) <= 1

\* The stats that count go out exactly once: never twice, not from two sources,
\* and not at all only in a shutdown that was not clean.
FlushedExactlyOnce == NothingMissed /\ FlushedOnce /\ NothingRedundant

\* Accept loops that end because of the shutdown are not taken for dead: a
\* shutdown in which no task dies ends well.
ShutdownIsClean == supervisor = "err" => died # {}

\* A shutdown that is requested is carried out, whatever dies meanwhile: no
\* idle connection, full channel or waiting flush holds it up.
ShutdownEnds == shutdown ~> supervisor \in {"ok", "err"}

=============================================================================
