--------------------------- MODULE MiniAgent_proofs ---------------------------
(***************************************************************************)
(* Proofs about MiniAgent, for every set of requests, every set of         *)
(* transports and every size of the channel: a shutdown in which no task   *)
(* dies ends well, no stats go out twice or from two sources, and after a  *)
(* clean shutdown all stats that count and were acknowledged have been     *)
(* handed to the intake.                                                   *)
(***************************************************************************)
EXTENDS MiniAgent, FiniteSetTheorems, SequenceTheorems, TLAPS

AddOf(r) == [op |-> "add", req |-> r]
Commands == [op : {"add"}, req : Requests] \cup [op : {"flush"}, force : BOOLEAN]

LoopStates == {"accepting", "draining", "exited", "died", "aborted"}
ConnStates == {"none", "open", "handling", "responding", "closed"}
FlusherStates == {"idle", "sending_stats", "waiting", "sending_agent_stats",
                  "exited", "died", "aborted"}

TypeOK ==
  /\ agentStats \in BOOLEAN /\ shutdown \in BOOLEAN /\ signal \in BOOLEAN /\ force \in BOOLEAN
  /\ supervisor \in {"select", "drain", "final_flush", "ok", "err"}
  /\ loop \in [Transports -> LoopStates]
  /\ conn \in [Requests -> ConnStates]
  /\ acked \in SUBSET Requests
  /\ channel \in Seq(Requests)
  /\ flusher \in FlusherStates
  /\ buffer \in SUBSET Requests /\ out \in SUBSET Requests /\ buckets \in SUBSET Requests
  /\ mailbox \in Seq(Commands)
  /\ service \in {"running", "none", "died", "aborted"}
  /\ traceFlusher \in {"running", "died", "aborted"}
  /\ flushed \in Seq(SUBSET Requests)

-----------------------------------------------------------------------------
(* Control: who can have ended, and why.                                   *)

Over == supervisor \in {"ok", "err"}

\* Loops drain because of the shutdown only, and have no connection left when
\* they have ended.
LoopsOK ==
  \A t \in Transports :
    /\ loop[t] \in {"draining", "exited"} => shutdown
    /\ loop[t] = "died" => died # {}
    /\ loop[t] = "aborted" => Over
    /\ signal \/ Over => loop[t] \in Finished
    /\ loop[t] \in Finished => \A r \in Requests : Via[r] = t => ~Live(conn[r])

\* The flusher exits after the forced flush only, which is signalled once the
\* loops have ended; tasks are aborted by the supervisor alone.
TasksOK ==
  /\ flusher = "died" \/ service = "died" \/ traceFlusher = "died" => died # {}
  /\ flusher = "aborted" \/ service = "aborted" \/ traceFlusher = "aborted" => Over
  /\ flusher = "exited" => force
  /\ flusher = "idle" => ~force
  /\ force => signal
  /\ signal => supervisor \notin {"select", "drain"}
  /\ Over => flusher \in Finished /\ service # "running"
  /\ service = "none" <=> ~agentStats
  /\ supervisor = "ok" => flusher = "exited"

ControlInv == LoopsOK /\ TasksOK /\ ShutdownIsClean

-----------------------------------------------------------------------------
(* Where the stats of a request are.                                       *)

Has(s, x) == \E i \in DOMAIN s : s[i] = x

InChannel(r) == Has(channel, r)
InMailbox(r) == Has(mailbox, AddOf(r))
InFlushed(r) == \E i \in DOMAIN flushed : r \in flushed[i]

\* At most one of the six places.
OnePlace(r) ==
  /\ InChannel(r) => ~InMailbox(r) /\ r \notin buffer /\ r \notin out /\ r \notin buckets /\ ~InFlushed(r)
  /\ InMailbox(r) => r \notin buffer /\ r \notin out /\ r \notin buckets /\ ~InFlushed(r)
  /\ r \in buffer => r \notin out /\ r \notin buckets /\ ~InFlushed(r)
  /\ r \in out => r \notin buckets /\ ~InFlushed(r)
  /\ r \in buckets => ~InFlushed(r)

Somewhere(r) ==
  InChannel(r) \/ InMailbox(r) \/ r \in buffer \/ r \in out \/ r \in buckets \/ InFlushed(r)

\* Nothing is twice in one place.
NoTwice ==
  /\ \A i, j \in DOMAIN channel : channel[i] = channel[j] => i = j
  /\ \A i, j \in DOMAIN mailbox : mailbox[i].op = "add" /\ mailbox[i] = mailbox[j] => i = j
  /\ \A i, j \in DOMAIN flushed : flushed[i] \cap flushed[j] # {} => i = j

\* Stats are somewhere only if they count, and once their handler has passed
\* them on.
PlacesInv ==
  /\ NoTwice
  /\ \A r \in Requests :
       OnePlace(r) /\ (Somewhere(r) => Counted(r) /\ conn[r] \in {"responding", "closed"})

-----------------------------------------------------------------------------
(* Why nothing is missed.                                                  *)

\* The flusher has nothing in hand where it waits, and its last flush leaves
\* neither channel nor buffer.
FlusherEmpty ==
  /\ flusher \in {"idle", "waiting", "exited"} => out = {}
  /\ force => channel = <<>> /\ buffer = {}

\* A service that is not there holds nothing.  While the flusher waits there
\* is one flush command in the mailbox, as forced as the flusher's; after the
\* shutdown signal nothing comes behind it.
MailboxOK ==
  /\ service # "running" => mailbox = <<>> /\ buckets = {}
  /\ flusher \in {"idle", "sending_stats", "sending_agent_stats"} =>
       \A i \in DOMAIN mailbox : mailbox[i].op = "add"
  /\ flusher = "waiting" =>
       \A i \in DOMAIN mailbox : mailbox[i].op = "flush" =>
         /\ mailbox[i].force = force
         /\ \A j \in DOMAIN mailbox : mailbox[j].op = "flush" => j = i
         /\ force => i = Len(mailbox)
  /\ flusher = "waiting" /\ service = "running" => \E i \in DOMAIN mailbox : mailbox[i].op = "flush"
  /\ force /\ flusher \in {"sending_agent_stats", "exited"} => mailbox = <<>> /\ buckets = {}

\* While no task has died, stats that were passed on are still somewhere.
Retained ==
  died = {} =>
    \A r \in Requests : Counted(r) /\ (conn[r] = "responding" \/ r \in acked) => Somewhere(r)

KeepInv == FlusherEmpty /\ MailboxOK /\ Retained

IndInv == TypeOK /\ ControlInv /\ PlacesInv /\ KeepInv

-----------------------------------------------------------------------------
(* Type correctness.                                                       *)

\* A mailbox command is one the handlers or the flusher send.
LEMMA CommandTypes ==
  /\ \A r \in Requests : AddOf(r) \in Commands /\ AddOf(r).op = "add" /\ AddOf(r).req = r
  /\ \A f \in BOOLEAN : [op |-> "flush", force |-> f] \in Commands
  /\ \A c \in Commands : \/ c.op = "add" /\ c.req \in Requests /\ c = AddOf(c.req)
                         \/ c.op = "flush" /\ c.force \in BOOLEAN
  BY DEF Commands, AddOf

\* The variables have their types at the start.
LEMMA InitType == Init => TypeOK
<1> SUFFICES ASSUME Init PROVE TypeOK
  OBVIOUS
<1>1. service \in {"running", "none"} /\ agentStats \in BOOLEAN
  BY DEF Init
<1>2. loop \in [Transports -> LoopStates] /\ conn \in [Requests -> ConnStates]
  BY DEF Init, LoopStates, ConnStates
<1>3. channel \in Seq(Requests) /\ mailbox \in Seq(Commands) /\ flushed \in Seq(SUBSET Requests)
  BY DEF Init
<1> QED
  BY <1>1, <1>2, <1>3 DEF Init, TypeOK, FlusherStates

\* The steps of connections and accept loops keep the types.
LEMMA HandlerType ==
  ASSUME TypeOK, NEW r \in Requests,
         Accept(r) \/ BeginRequest(r) \/ Handler(r) \/ Disconnect(r) \/ CloseIdle(r)
  PROVE  TypeOK'
<1> USE DEF TypeOK
<1>0. \A s \in ConnStates : [conn EXCEPT ![r] = s] \in [Requests -> ConnStates]
  OBVIOUS
<1>1. CASE Accept(r) \/ BeginRequest(r) \/ Disconnect(r) \/ CloseIdle(r)
  BY <1>0, <1>1 DEF Accept, BeginRequest, Disconnect, CloseIdle, SetConn, ConnStates, stats, concentrator
<1>2. CASE ProcessStats(r)
  <2>1. channel' \in Seq(Requests)
    <3>1. channel' = channel \/ channel' = Append(channel, r)
      BY <1>2 DEF ProcessStats
    <3>2. Append(channel, r) \in Seq(Requests)
      OBVIOUS
    <3> QED
      BY <3>1, <3>2
  <2>2. conn' \in [Requests -> ConnStates]
    BY <1>0, <1>2 DEF ProcessStats, SetConn, ConnStates
  <2> QED
    BY <1>2, <2>1, <2>2 DEF ProcessStats, stats, concentrator
<1>3. CASE ProcessTraces(r)
  <2>1. mailbox' \in Seq(Commands)
    <3>1. mailbox' = mailbox \/ mailbox' = Append(mailbox, AddOf(r))
      BY <1>3 DEF ProcessTraces, SendToConcentrator, AddOf
    <3> QED
      BY <3>1, CommandTypes, SMTT(60)
  <2> QED
    BY <1>0, <1>3, <2>1 DEF ProcessTraces, SetConn, ConnStates, stats
<1>4. CASE Respond(r)
  BY <1>0, <1>4 DEF Respond, SetConn, ConnStates, stats, concentrator
<1> QED
  BY <1>1, <1>2, <1>3, <1>4 DEF Handler

\* Closing the connections of some loops keeps the type of conn.
LEMMA OrphanedType == ASSUME TypeOK, NEW ts PROVE Orphaned(ts) \in [Requests -> ConnStates]
  BY DEF TypeOK, Orphaned, ConnStates

\* The supervisor's abort of all tasks keeps the types.
LEMMA AbortAllType ==
  ASSUME TypeOK, NEW res \in {"ok", "err"}, AbortAll(res)
  PROVE  TypeOK'
<1> USE DEF TypeOK
<1>1. loop' \in [Transports -> LoopStates]
  BY DEF AbortAll, LoopStates
<1>2. conn' \in [Requests -> ConnStates]
  BY OrphanedType DEF AbortAll
<1>3. flusher' \in FlusherStates /\ buffer' \in SUBSET Requests /\ out' \in SUBSET Requests
      /\ channel' \in Seq(Requests)
  <2>1. CASE flusher \in Finished
    BY <2>1 DEF AbortAll
  <2>2. CASE flusher \notin Finished
    BY <2>2 DEF AbortAll, FlusherStates
  <2> QED
    BY <2>1, <2>2
<1>4. service' \in {"running", "none", "died", "aborted"} /\ mailbox' \in Seq(Commands)
      /\ buckets' \in SUBSET Requests
  <2>1. CASE service = "running"
    BY <2>1 DEF AbortAll
  <2>2. CASE service # "running"
    BY <2>2 DEF AbortAll, concentrator
  <2> QED
    BY <2>1, <2>2
<1>5. traceFlusher' \in {"running", "died", "aborted"} /\ supervisor' \in {"ok", "err"}
  BY DEF AbortAll
<1> QED
  BY <1>1, <1>2, <1>3, <1>4, <1>5 DEF AbortAll

\* Every step keeps the types.
LEMMA NextType == TypeOK /\ [Next]_vars => TypeOK'
<1> SUFFICES ASSUME TypeOK, [Next]_vars PROVE TypeOK'
  OBVIOUS
<1> USE DEF TypeOK
<1>1. CASE RequestShutdown
  BY <1>1 DEF RequestShutdown, requests, stats, concentrator
<1>2. ASSUME NEW r \in Requests,
             Accept(r) \/ BeginRequest(r) \/ Handler(r) \/ Disconnect(r) \/ CloseIdle(r)
      PROVE  TypeOK'
  BY <1>2, HandlerType
<1>3. ASSUME NEW t \in Transports, AcceptLoop(t) PROVE TypeOK'
  BY <1>3 DEF AcceptLoop, DrainLoop, ExitLoop, LoopStates, requests, stats, concentrator
<1>4. ASSUME NEW t \in Transports, FailLoop(t) PROVE TypeOK'
  BY <1>4, OrphanedType DEF FailLoop, LoopStates, stats, concentrator
<1>5. CASE Receive
  <2>1. Head(channel) \in Requests /\ Tail(channel) \in Seq(Requests)
    BY <1>5 DEF Receive
  <2> QED
    BY <1>5, <2>1 DEF Receive, concentrator
<1>6. CASE Tick
  BY <1>6 DEF Tick, FlusherStates, requests, concentrator
<1>7. CASE FinalFlush
  <2>1. Values(channel) \in SUBSET Requests
    BY DEF Values
  <2> QED
    BY <1>7, <2>1 DEF FinalFlush, FlusherStates, concentrator
<1>8. CASE SendStats
  <2>1. flushed' \in Seq(SUBSET Requests) /\ out' \in SUBSET Requests
    BY <1>8 DEF SendStats, SendOut
  <2>2. mailbox' \in Seq(Commands) /\ flusher' \in FlusherStates
    <3>1. mailbox' = mailbox \/ mailbox' = Append(mailbox, [op |-> "flush", force |-> force])
      BY <1>8 DEF SendStats
    <3>2. flusher' \in FlusherStates
      BY <1>8 DEF SendStats, FlusherStates, AfterFlush
    <3>3. Append(mailbox, [op |-> "flush", force |-> force]) \in Seq(Commands)
      <4>1. [op |-> "flush", force |-> force] \in Commands
        BY CommandTypes
      <4> QED
        BY <4>1
    <3> QED
      BY <3>1, <3>2, <3>3
  <2> QED
    BY <1>8, <2>1, <2>2 DEF SendStats, requests
<1>9. CASE SendAgentStats
  <2>1. flushed' \in Seq(SUBSET Requests) /\ out' \in SUBSET Requests
    BY <1>9 DEF SendAgentStats, SendOut
  <2> QED
    BY <1>9, <2>1 DEF SendAgentStats, FlusherStates, AfterFlush, requests, concentrator
<1>10. CASE FlusherDies
  BY <1>10 DEF FlusherDies, FlusherStates, concentrator
<1>11. CASE AddChunk
  <2>1. Head(mailbox) \in Commands /\ Tail(mailbox) \in Seq(Commands) /\ Head(mailbox).op = "add"
    BY <1>11 DEF AddChunk, Command
  <2>2. Head(mailbox).req \in Requests
    BY <2>1, CommandTypes
  <2> QED
    BY <1>11, <2>1, <2>2 DEF AddChunk, requests, stats
<1>12. ASSUME NEW complete \in SUBSET buckets, HandleFlush(complete) PROVE TypeOK'
  <2>1. Tail(mailbox) \in Seq(Commands)
    BY <1>12 DEF HandleFlush, Command
  <2> QED
    BY <1>12, <2>1 DEF HandleFlush, FlusherStates, requests
<1>13. CASE ServiceDies
  BY <1>13 DEF ServiceDies, requests, stats
<1>14. CASE TraceFlusherDies
  BY <1>14 DEF TraceFlusherDies, requests, stats, concentrator
<1>15. CASE SeesShutdown \/ SignalFlusher
  BY <1>15 DEF SeesShutdown, SignalFlusher, requests, stats, concentrator
<1>16. CASE SeesDeath \/ EndFinalFlush
  BY <1>16, AbortAllType DEF SeesDeath, EndFinalFlush
<1>17. CASE UNCHANGED vars
  BY <1>17 DEF vars, requests, stats, concentrator
<1> QED
  BY <1>1, <1>2, <1>3, <1>4, <1>5, <1>6, <1>7, <1>8, <1>9, <1>10, <1>11, <1>12, <1>13, <1>14,
     <1>15, <1>16, <1>17 DEF Next, StatsFlusher, Service, Supervisor

-----------------------------------------------------------------------------
(* Control.                                                                *)

\* Nobody has ended and nothing is signalled at the start.
LEMMA InitControl == Init => ControlInv
<1> SUFFICES ASSUME Init PROVE ControlInv
  OBVIOUS
<1>1. LoopsOK
  BY DEF Init, LoopsOK, Over, Finished
<1>2. service = "none" <=> ~agentStats
  BY DEF Init
<1>3. TasksOK
  BY <1>2 DEF Init, TasksOK, Over
<1> QED
  BY <1>1, <1>3 DEF Init, ControlInv, ShutdownIsClean

\* What happens on a connection is no matter of control, as long as only a
\* loop that accepts brings new ones to life.
LEMMA ControlFrame ==
  ASSUME ControlInv,
         UNCHANGED <<agentStats, shutdown, supervisor, loop, signal, flusher, force, service,
                     traceFlusher, died>>,
         \A r \in Requests : Live(conn'[r]) => Live(conn[r]) \/ loop[Via[r]] = "accepting"
  PROVE  ControlInv'
<1> USE DEF ControlInv
<1>1. LoopsOK'
  BY DEF LoopsOK, Over, Finished
<1>2. TasksOK'
  BY DEF TasksOK, Over
<1>3. ShutdownIsClean'
  BY DEF ShutdownIsClean
<1> QED
  BY <1>1, <1>2, <1>3

\* The steps of a connection keep control.
LEMMA HandlerControl ==
  ASSUME TypeOK, ControlInv, NEW r \in Requests,
         Accept(r) \/ BeginRequest(r) \/ Handler(r) \/ Disconnect(r) \/ CloseIdle(r)
  PROVE  ControlInv'
<1>1. UNCHANGED <<agentStats, shutdown, supervisor, loop, signal, flusher, force, service,
                  traceFlusher, died>>
  BY DEF Accept, BeginRequest, Handler, ProcessStats, ProcessTraces, Respond, Disconnect,
         CloseIdle, stats, concentrator
<1>2. ASSUME NEW q \in Requests, Live(conn'[q])
      PROVE  Live(conn[q]) \/ loop[Via[q]] = "accepting"
  BY <1>2 DEF Accept, BeginRequest, Handler, ProcessStats, ProcessTraces, Respond, Disconnect,
         CloseIdle, SetConn, TypeOK, Live
<1> QED
  BY <1>1, <1>2, ControlFrame

\* Aborting all tasks keeps control, given that the end it reports is right.
LEMMA AbortAllControl ==
  ASSUME TypeOK, ControlInv, NEW res \in {"ok", "err"}, AbortAll(res),
         res = "err" => died # {}, res = "ok" => flusher = "exited",
         supervisor \in {"select", "final_flush"}
  PROVE  ControlInv'
<1> USE DEF ControlInv
<1>1. Over' /\ supervisor' = res
  BY DEF AbortAll, Over
<1>2. ASSUME NEW t \in Transports
      PROVE  /\ loop'[t] = IF loop[t] \in Finished THEN loop[t] ELSE "aborted"
             /\ loop'[t] \in Finished
  BY DEF AbortAll, Finished
<1>3. ASSUME NEW r \in Requests PROVE ~Live(conn'[r])
  <2>1. Via[r] \in Transports
    BY MiniAgentAssumption
  <2>2. CASE loop[Via[r]] \in Finished
    <3>1. ~Live(conn[r])
      BY <2>1, <2>2 DEF LoopsOK
    <3> QED
      BY <3>1 DEF AbortAll, Orphaned, Live
  <2>3. CASE loop[Via[r]] \notin Finished
    <3>1. Via[r] \in {t \in Transports : loop'[t] = "aborted"}
      BY <2>1, <2>3, <1>2
    <3> QED
      BY <3>1 DEF AbortAll, Orphaned, Live
  <2> QED
    BY <2>2, <2>3
<1>4. LoopsOK'
  <2> SUFFICES ASSUME NEW t \in Transports
               PROVE  /\ loop'[t] \in {"draining", "exited"} => shutdown'
                      /\ loop'[t] = "died" => died' # {}
    BY <1>1, <1>2, <1>3 DEF LoopsOK
  <2>1. shutdown' = shutdown /\ died' = died
    BY DEF AbortAll
  <2> QED
    BY <2>1, <1>2 DEF LoopsOK
<1>5. flusher' \in Finished /\ service' # "running"
  BY DEF AbortAll, Finished, concentrator
<1>6. /\ flusher' = flusher \/ flusher' = "aborted"
      /\ service' = service \/ (service = "running" /\ service' = "aborted")
      /\ traceFlusher' = traceFlusher \/ traceFlusher' = "aborted"
      /\ UNCHANGED <<agentStats, shutdown, signal, force, died>>
  BY DEF AbortAll, concentrator
<1>7. supervisor' = "ok" => flusher' = "exited"
  BY <1>1 DEF AbortAll, Finished
<1>8. (service' = "none") <=> (~agentStats)'
  BY <1>6 DEF TasksOK
<1>9. TasksOK'
  BY <1>1, <1>5, <1>6, <1>7, <1>8 DEF TasksOK, Finished
<1> QED
  BY <1>1, <1>4, <1>6, <1>9 DEF ShutdownIsClean

\* A task that has ended while no shutdown was requested has died.
LEMMA EndedIsDead ==
  ASSUME TypeOK, ControlInv, supervisor = "select", ~shutdown, TaskEnded
  PROVE  died # {}
<1> USE DEF ControlInv
<1>1. ~Over /\ ~signal
  BY DEF Over, TasksOK
<1>2. CASE \E t \in Transports : loop[t] \in Finished
  BY <1>1, <1>2 DEF LoopsOK, Finished
<1>3. CASE flusher \in Finished \/ service \in Finished \/ traceFlusher \in Finished
  BY <1>1, <1>3 DEF TasksOK, Finished, TypeOK
<1> QED
  BY <1>2, <1>3 DEF TaskEnded

\* Every step keeps control.
LEMMA NextControl == TypeOK /\ ControlInv /\ [Next]_vars => ControlInv'
<1> SUFFICES ASSUME TypeOK, ControlInv, [Next]_vars PROVE ControlInv'
  OBVIOUS
<1> USE DEF ControlInv
<1>1. CASE RequestShutdown
  <2>1. LoopsOK'
    BY <1>1 DEF RequestShutdown, LoopsOK, Over, requests
  <2>2. TasksOK'
    BY <1>1 DEF RequestShutdown, TasksOK, Over, stats, concentrator
  <2> QED
    BY <1>1, <2>1, <2>2 DEF RequestShutdown, ShutdownIsClean
<1>2. ASSUME NEW r \in Requests,
             Accept(r) \/ BeginRequest(r) \/ Handler(r) \/ Disconnect(r) \/ CloseIdle(r)
      PROVE  ControlInv'
  BY <1>2, HandlerControl
<1>3. ASSUME NEW t \in Transports, AcceptLoop(t) PROVE ControlInv'
  <2>0. /\ loop[t] \in {"accepting", "draining"} /\ loop'[t] \in {"draining", "exited"} /\ shutdown
        /\ loop'[t] = "exited" => \A r \in Requests : Via[r] = t => ~Live(conn[r])
        /\ \A u \in Transports : u # t => loop'[u] = loop[u]
        /\ UNCHANGED <<agentStats, shutdown, supervisor, conn, signal, flusher, force, service,
                       traceFlusher, died>>
    BY <1>3 DEF AcceptLoop, DrainLoop, ExitLoop, LoopsOK, TypeOK, requests, stats, concentrator
  <2>1. LoopsOK'
    BY <2>0 DEF LoopsOK, Over, Finished
  <2>2. TasksOK'
    BY <2>0 DEF TasksOK, Over
  <2> QED
    BY <2>0, <2>1, <2>2 DEF ShutdownIsClean
<1>4. ASSUME NEW t \in Transports, FailLoop(t) PROVE ControlInv'
  <2>0. /\ loop' = [loop EXCEPT ![t] = "died"] /\ died' # {} /\ died \in SUBSET died'
        /\ \A r \in Requests : Live(conn'[r]) => Live(conn[r]) /\ Via[r] # t
        /\ UNCHANGED <<agentStats, shutdown, supervisor, signal, flusher, force, service,
                       traceFlusher>>
    BY <1>4 DEF FailLoop, Orphaned, Live, stats, concentrator
  <2>1. LoopsOK'
    <3> SUFFICES ASSUME NEW u \in Transports
                 PROVE  /\ loop'[u] \in {"draining", "exited"} => shutdown'
                        /\ loop'[u] = "aborted" => Over'
                        /\ signal' \/ Over' => loop'[u] \in Finished
                        /\ loop'[u] \in Finished => \A r \in Requests : Via[r] = u => ~Live(conn'[r])
      BY <2>0 DEF LoopsOK
    <3>1. Over' = Over
      BY <2>0 DEF Over
    <3>2. CASE u = t
      BY <2>0, <3>2 DEF TypeOK, Finished
    <3>3. CASE u # t
      BY <2>0, <3>1, <3>3 DEF LoopsOK, TypeOK
    <3> QED
      BY <3>2, <3>3
  <2>2. TasksOK'
    BY <2>0 DEF TasksOK, Over
  <2> QED
    BY <2>0, <2>1, <2>2 DEF ShutdownIsClean
<1>6. CASE StatsFlusher \/ Service
  <2> DEFINE Moves ==
        /\ UNCHANGED <<agentStats, shutdown, supervisor, loop, conn, signal, service,
                       traceFlusher, died>>
        /\ flusher' # flusher => flusher \notin Finished
        /\ flusher' # "died" \/ flusher' = flusher
        /\ flusher' # "aborted" \/ flusher' = flusher
        /\ flusher' = "exited" => force'
        /\ flusher' = "idle" => ~force'
        /\ force' => signal
  <2>0. Moves
    <3>1. CASE Receive \/ AddChunk
      BY <3>1 DEF Receive, AddChunk, TasksOK, requests, stats, concentrator
    <3>2. CASE Tick
      BY <3>2 DEF Tick, TasksOK, requests, concentrator, Finished
    <3>3. CASE FinalFlush
      BY <3>3 DEF FinalFlush, TasksOK, concentrator, Finished
    <3>4. CASE SendStats \/ SendAgentStats
      BY <3>4 DEF SendStats, SendAgentStats, AfterFlush, TasksOK, requests, concentrator, Finished
    <3>5. ASSUME NEW complete \in SUBSET buckets, HandleFlush(complete)
          PROVE  Moves
      BY <3>5 DEF HandleFlush, TasksOK, requests, Finished
    <3> QED
      BY <1>6, <3>1, <3>2, <3>3, <3>4, <3>5 DEF StatsFlusher, Service
  <2>1. LoopsOK'
    BY <2>0 DEF LoopsOK, Over
  <2>2. TasksOK'
    BY <2>0 DEF TasksOK, Over, Finished
  <2> QED
    BY <2>0, <2>1, <2>2 DEF ShutdownIsClean
<1>7. CASE FlusherDies \/ ServiceDies \/ TraceFlusherDies
  <2>0. /\ UNCHANGED <<agentStats, shutdown, supervisor, loop, conn, signal, force>>
        /\ died' # {}
        /\ flusher' = flusher \/ (flusher \notin Finished /\ flusher' = "died")
        /\ service' = service \/ (service = "running" /\ service' = "died")
        /\ traceFlusher' \in {traceFlusher, "died"}
    BY <1>7 DEF FlusherDies, ServiceDies, TraceFlusherDies, requests, stats, concentrator
  <2>1. LoopsOK'
    BY <2>0 DEF LoopsOK, Over
  <2>2. (service' = "none") <=> (~agentStats)'
    BY <2>0 DEF TasksOK
  <2>3. TasksOK'
    BY <2>0, <2>2 DEF TasksOK, Over, Finished
  <2> QED
    BY <2>0, <2>1, <2>3 DEF ShutdownIsClean
<1>8. CASE SeesShutdown \/ SignalFlusher
  <2>0. /\ UNCHANGED <<agentStats, shutdown, loop, conn, flusher, force, service, traceFlusher, died>>
        /\ \/ supervisor = "select" /\ supervisor' = "drain" /\ signal' = signal
           \/ /\ supervisor = "drain" /\ supervisor' = "final_flush" /\ signal' = TRUE
              /\ \A t \in Transports : loop[t] \in Finished
    BY <1>8 DEF SeesShutdown, SignalFlusher, requests, stats, concentrator
  <2>1. LoopsOK'
    BY <2>0 DEF LoopsOK, Over
  <2>2. TasksOK'
    BY <2>0 DEF TasksOK, Over
  <2> QED
    BY <2>0, <2>1, <2>2 DEF ShutdownIsClean
<1>9. CASE SeesDeath
  <2>1. supervisor = "select" /\ died # {} /\ AbortAll("err")
    BY <1>9, EndedIsDead DEF SeesDeath
  <2> QED
    BY <2>1, AbortAllControl
<1>10. CASE EndFinalFlush
  <2>1. CASE flusher = "exited"
    BY <1>10, <2>1, AbortAllControl DEF EndFinalFlush
  <2>2. CASE flusher # "exited"
    <3>1. died # {}
      BY <1>10, <2>2 DEF EndFinalFlush, TasksOK, Finished, Over
    <3> QED
      BY <1>10, <2>2, <3>1, AbortAllControl DEF EndFinalFlush
  <2> QED
    BY <2>1, <2>2
<1>11. CASE UNCHANGED vars
  BY <1>11, ControlFrame DEF vars, requests, stats, concentrator
<1> QED
  BY <1>1, <1>2, <1>3, <1>4, <1>6, <1>7, <1>8, <1>9, <1>10, <1>11 DEF Next, Supervisor

-----------------------------------------------------------------------------
(* Places.                                                                 *)

\* What a queue holds after one more is sent to it.
LEMMA HasAppend ==
  ASSUME NEW S, NEW s \in Seq(S), NEW x \in S
  PROVE  /\ \A y : Has(Append(s, x), y) <=> Has(s, y) \/ x = y
         /\ DOMAIN Append(s, x) = 1..(Len(s) + 1) /\ DOMAIN s = 1..Len(s) /\ Len(s) \in Nat
         /\ Append(s, x)[Len(s) + 1] = x
         /\ \A i \in DOMAIN s : Append(s, x)[i] = s[i]
<1>1. /\ DOMAIN Append(s, x) = 1..(Len(s) + 1) /\ DOMAIN s = 1..Len(s) /\ Len(s) \in Nat
      /\ Append(s, x)[Len(s) + 1] = x
      /\ \A i \in DOMAIN s : Append(s, x)[i] = s[i]
  OBVIOUS
<1>2. ASSUME NEW y, Has(s, y) \/ x = y PROVE Has(Append(s, x), y)
  BY <1>1, <1>2 DEF Has
<1>3. ASSUME NEW y, Has(Append(s, x), y) PROVE Has(s, y) \/ x = y
  <2>1. PICK i \in 1..(Len(s) + 1) : Append(s, x)[i] = y
    BY <1>1, <1>3 DEF Has
  <2>2. CASE i = Len(s) + 1
    BY <1>1, <2>1, <2>2
  <2>3. CASE i # Len(s) + 1
    BY <1>1, <2>1, <2>3 DEF Has
  <2> QED
    BY <2>2, <2>3
<1> QED
  BY <1>1, <1>2, <1>3

\* What a queue holds after one is received from it.
LEMMA HasTail ==
  ASSUME NEW S, NEW s \in Seq(S), s # <<>>
  PROVE  /\ \A y : Has(s, y) <=> Head(s) = y \/ Has(Tail(s), y)
         /\ DOMAIN Tail(s) = 1..(Len(s) - 1) /\ DOMAIN s = 1..Len(s) /\ Len(s) \in Nat /\ Len(s) >= 1
         /\ \A i \in DOMAIN Tail(s) : Tail(s)[i] = s[i + 1] /\ i + 1 \in DOMAIN s
         /\ Head(s) = s[1] /\ 1 \in DOMAIN s
<1>1. /\ DOMAIN Tail(s) = 1..(Len(s) - 1) /\ DOMAIN s = 1..Len(s) /\ Len(s) \in Nat /\ Len(s) >= 1
      /\ Head(s) = s[1] /\ 1 \in DOMAIN s
  OBVIOUS
<1>2. \A i \in DOMAIN Tail(s) : Tail(s)[i] = s[i + 1] /\ i + 1 \in DOMAIN s
  BY <1>1
<1>3. ASSUME NEW y, Has(s, y) PROVE Head(s) = y \/ Has(Tail(s), y)
  <2>1. PICK i \in 1..Len(s) : s[i] = y
    BY <1>1, <1>3 DEF Has
  <2>2. CASE i = 1
    BY <1>1, <2>1, <2>2
  <2>3. CASE i # 1
    <3>1. i - 1 \in DOMAIN Tail(s) /\ Tail(s)[i - 1] = s[i]
      BY <1>1, <1>2, <2>3
    <3> QED
      BY <2>1, <3>1 DEF Has
  <2> QED
    BY <2>2, <2>3
<1>4. ASSUME NEW y, Head(s) = y \/ Has(Tail(s), y) PROVE Has(s, y)
  BY <1>1, <1>2, <1>4 DEF Has
<1> QED
  BY <1>1, <1>2, <1>3, <1>4

\* Nothing is anywhere at the start.
LEMMA InitPlaces == Init => PlacesInv
<1> SUFFICES ASSUME Init PROVE PlacesInv
  OBVIOUS
<1>1. channel = <<>> /\ mailbox = <<>> /\ flushed = <<>> /\ buffer = {} /\ out = {} /\ buckets = {}
  BY DEF Init
<1>2. NoTwice
  BY <1>1 DEF NoTwice
<1>3. \A r \in Requests : ~Somewhere(r)
  BY <1>1 DEF Somewhere, InChannel, InMailbox, InFlushed, Has
<1> QED
  BY <1>2, <1>3 DEF PlacesInv, OnePlace, Somewhere

\* A step keeps the places if what is somewhere was somewhere before, or its
\* handler has just passed it on.
LEMMA PlacesKept ==
  ASSUME PlacesInv, NoTwice', agentStats' = agentStats,
         \A q \in Requests :
           /\ OnePlace(q)'
           /\ Somewhere(q)' => Somewhere(q) \/ (Counted(q) /\ conn'[q] = "responding")
           /\ conn[q] \in {"responding", "closed"} => conn'[q] \in {"responding", "closed"}
  PROVE  PlacesInv'
<1>1. \A q \in Requests : Counted(q)' <=> Counted(q)
  BY DEF Counted
<1> QED
  BY <1>1 DEF PlacesInv

\* Steps that leave the six places alone.
LEMMA PlacesFrame ==
  ASSUME PlacesInv, UNCHANGED <<agentStats, channel, mailbox, buffer, out, buckets, flushed>>,
         \A q \in Requests :
           conn[q] \in {"responding", "closed"} => conn'[q] \in {"responding", "closed"}
  PROVE  PlacesInv'
<1>1. NoTwice'
  BY DEF NoTwice, PlacesInv
<1>2. \A q \in Requests : (Somewhere(q)' <=> Somewhere(q)) /\ (OnePlace(q)' <=> OnePlace(q))
  BY DEF Somewhere, OnePlace, InChannel, InMailbox, InFlushed
<1> QED
  BY <1>1, <1>2, PlacesKept DEF PlacesInv

\* Places that are given up, by a death or an abort, leave the others alone.
LEMMA PlacesLost ==
  ASSUME PlacesInv, flushed' = flushed, agentStats' = agentStats,
         \/ UNCHANGED <<channel, buffer, out>>
         \/ channel' = <<>> /\ buffer' = {} /\ out' = {},
         \/ UNCHANGED <<mailbox, buckets>>
         \/ mailbox' = <<>> /\ buckets' = {},
         \A q \in Requests :
           conn[q] \in {"responding", "closed"} => conn'[q] \in {"responding", "closed"}
  PROVE  PlacesInv'
<1>1. NoTwice'
  BY DEF NoTwice, PlacesInv
<1>2. \A q \in Requests : /\ InChannel(q)' => InChannel(q)
                          /\ InMailbox(q)' => InMailbox(q)
                          /\ InFlushed(q)' <=> InFlushed(q)
                          /\ q \in buffer' => q \in buffer
                          /\ q \in out' => q \in out
                          /\ q \in buckets' => q \in buckets
  BY DEF InChannel, InMailbox, InFlushed, Has
<1>3. \A q \in Requests : OnePlace(q)' /\ (Somewhere(q)' => Somewhere(q))
  BY <1>2 DEF Somewhere, OnePlace, PlacesInv
<1> QED
  BY <1>1, <1>3, PlacesKept

\* process_stats puts stats in the channel that were nowhere before.
LEMMA ProcessStatsPlaces ==
  ASSUME TypeOK, PlacesInv, NEW r \in Requests, ProcessStats(r)
  PROVE  PlacesInv'
<1>0. /\ UNCHANGED <<agentStats, mailbox, buffer, out, buckets, flushed>>
      /\ \A q \in Requests : conn[q] \in {"responding", "closed"} => conn'[q] \in {"responding", "closed"}
  BY DEF ProcessStats, SetConn, TypeOK, stats, concentrator
<1>1. CASE channel' = channel
  BY <1>0, <1>1, PlacesFrame
<1>2. CASE channel' = Append(channel, r) /\ conn' = [conn EXCEPT ![r] = "responding"]
  <2>1. ~Somewhere(r)
    BY DEF ProcessStats, PlacesInv
  <2>2. channel \in Seq(Requests)
    BY DEF TypeOK
  <2>3. \A q \in Requests : /\ InChannel(q)' <=> InChannel(q) \/ q = r
                            /\ InMailbox(q)' <=> InMailbox(q)
                            /\ InFlushed(q)' <=> InFlushed(q)
    BY <1>0, <1>2, <2>2, HasAppend DEF InChannel, InMailbox, InFlushed
  <2>4. NoTwice'
    <3>1. \A i \in DOMAIN channel : channel[i] # r
      BY <2>1 DEF Somewhere, InChannel, Has
    <3>2. \A i, j \in DOMAIN channel' : channel'[i] = channel'[j] => i = j
      BY <1>2, <2>2, <3>1, HasAppend DEF PlacesInv, NoTwice
    <3> QED
      BY <1>0, <3>2 DEF PlacesInv, NoTwice
  <2>5. \A q \in Requests : OnePlace(q)' /\ (Somewhere(q)' => Somewhere(q) \/ q = r)
    BY <1>0, <2>1, <2>3 DEF OnePlace, Somewhere, PlacesInv
  <2>6. conn'[r] = "responding" /\ Counted(r)
    <3>1. ~agentStats /\ Kind[r] = "stats"
      BY <1>2 DEF ProcessStats, SetConn, TypeOK
    <3> QED
      BY <1>2, <3>1 DEF Counted, TypeOK
  <2> QED
    BY <1>0, <2>4, <2>5, <2>6, PlacesKept
<1> QED
  BY <1>1, <1>2 DEF ProcessStats, SetConn

\* process_traces puts stats in the mailbox that were nowhere before.
LEMMA ProcessTracesPlaces ==
  ASSUME TypeOK, TasksOK, PlacesInv, NEW r \in Requests, ProcessTraces(r)
  PROVE  PlacesInv'
<1>0. /\ UNCHANGED <<agentStats, channel, buffer, out, buckets, flushed>>
      /\ \A q \in Requests : conn[q] \in {"responding", "closed"} => conn'[q] \in {"responding", "closed"}
      /\ conn'[r] = "responding"
  BY DEF ProcessTraces, SetConn, TypeOK, stats
<1>1. CASE mailbox' = mailbox
  BY <1>0, <1>1, PlacesFrame
<1>2. CASE service = "running" /\ mailbox' = Append(mailbox, AddOf(r))
  <2>0. Counted(r)
    BY <1>2 DEF ProcessTraces, TasksOK, Counted
  <2>1. ~Somewhere(r)
    BY DEF ProcessTraces, PlacesInv
  <2>2. mailbox \in Seq(Commands) /\ AddOf(r) \in Commands
    BY CommandTypes DEF TypeOK
  <2>3. \A q \in Requests : /\ InMailbox(q)' <=> InMailbox(q) \/ q = r
                            /\ InChannel(q)' <=> InChannel(q)
                            /\ InFlushed(q)' <=> InFlushed(q)
    <3>1. \A q \in Requests : AddOf(q) = AddOf(r) => q = r
      BY CommandTypes
    <3> QED
      BY <1>0, <1>2, <2>2, <3>1, HasAppend DEF InChannel, InMailbox, InFlushed
  <2>4. NoTwice'
    <3>1. \A i \in DOMAIN mailbox : mailbox[i] # AddOf(r)
      BY <2>1 DEF Somewhere, InMailbox, Has
    <3>2. \A i, j \in DOMAIN mailbox' : mailbox'[i].op = "add" /\ mailbox'[i] = mailbox'[j] => i = j
      BY <1>2, <2>2, <3>1, HasAppend DEF PlacesInv, NoTwice
    <3> QED
      BY <1>0, <3>2 DEF PlacesInv, NoTwice
  <2>5. \A q \in Requests : OnePlace(q)' /\ (Somewhere(q)' => Somewhere(q) \/ q = r)
    BY <1>0, <2>1, <2>3 DEF OnePlace, Somewhere, PlacesInv
  <2> QED
    BY <1>0, <2>0, <2>4, <2>5, PlacesKept
<1> QED
  BY <1>1, <1>2 DEF ProcessTraces, SendToConcentrator, AddOf

\* The flusher takes the head of the channel into its buffer.
LEMMA ReceivePlaces ==
  ASSUME TypeOK, PlacesInv, Receive
  PROVE  PlacesInv'
<1>0. /\ UNCHANGED <<agentStats, conn, mailbox, out, buckets, flushed>> /\ channel # <<>>
      /\ channel' = Tail(channel) /\ buffer' = buffer \cup {Head(channel)}
  BY DEF Receive, concentrator
<1>1. channel \in Seq(Requests)
  BY DEF TypeOK
<1>2. \A i, j \in DOMAIN channel : channel[i] = channel[j] => i = j
  BY DEF PlacesInv, NoTwice
<1>3. ~Has(Tail(channel), Head(channel))
  BY <1>0, <1>1, <1>2, HasTail DEF Has
<1>4. NoTwice'
  <2>1. \A i, j \in DOMAIN channel' : channel'[i] = channel'[j] => i = j
    BY <1>0, <1>1, <1>2, HasTail
  <2> QED
    BY <1>0, <2>1 DEF PlacesInv, NoTwice
<1>5. \A q \in Requests : /\ InChannel(q) <=> InChannel(q)' \/ q = Head(channel)
                          /\ InChannel(q)' => q # Head(channel)
                          /\ InMailbox(q)' <=> InMailbox(q)
                          /\ InFlushed(q)' <=> InFlushed(q)
  BY <1>0, <1>1, <1>3, HasTail DEF InChannel, InMailbox, InFlushed
<1>6. \A q \in Requests : OnePlace(q)' /\ (Somewhere(q)' => Somewhere(q))
  BY <1>0, <1>5 DEF OnePlace, Somewhere, PlacesInv
<1> QED
  BY <1>0, <1>4, <1>6, PlacesKept

\* A flush begins: the buffer, and at the end the channel too, go out.
LEMMA FlushPlaces ==
  ASSUME TypeOK, PlacesInv, Tick \/ FinalFlush
  PROVE  PlacesInv'
<1>0. UNCHANGED <<agentStats, conn, mailbox, buckets, flushed>> /\ buffer' = {}
  BY DEF Tick, FinalFlush, requests, concentrator
<1>1. \A q \in Requests : /\ q \in out' => q \in buffer \/ InChannel(q)
                          /\ InChannel(q)' => InChannel(q) /\ q \notin out'
  <2>1. CASE Tick
    <3>1. out' = buffer /\ channel' = channel
      BY <2>1 DEF Tick, requests
    <3> QED
      BY <3>1 DEF InChannel, OnePlace, PlacesInv
  <2>2. CASE FinalFlush
    BY <2>2 DEF FinalFlush, InChannel, Has, Values
  <2> QED
    BY <2>1, <2>2
<1>2. NoTwice'
  <2>1. channel' = channel \/ channel' = <<>>
    BY DEF Tick, FinalFlush, requests
  <2> QED
    BY <1>0, <2>1 DEF PlacesInv, NoTwice
<1>3. \A q \in Requests : (InMailbox(q)' <=> InMailbox(q)) /\ (InFlushed(q)' <=> InFlushed(q))
  BY <1>0 DEF InMailbox, InFlushed
<1>4. \A q \in Requests : OnePlace(q)' /\ (Somewhere(q)' => Somewhere(q))
  BY <1>0, <1>1, <1>3 DEF OnePlace, Somewhere, PlacesInv
<1> QED
  BY <1>0, <1>2, <1>4, PlacesKept

\* What is handed to the intake leaves the flusher's hand; a flush command is
\* not a request.
LEMMA SendPlaces ==
  ASSUME TypeOK, PlacesInv, SendStats \/ SendAgentStats
  PROVE  PlacesInv'
<1>0. UNCHANGED <<agentStats, conn, channel, buffer, buckets>> /\ SendOut /\ out' = {}
  BY DEF SendStats, SendAgentStats, SendOut, requests, concentrator
<1>1. \/ mailbox' = mailbox
      \/ mailbox' = Append(mailbox, [op |-> "flush", force |-> force])
  BY DEF SendStats, SendAgentStats, concentrator
<1>2. mailbox \in Seq(Commands) /\ [op |-> "flush", force |-> force] \in Commands
      /\ flushed \in Seq(SUBSET Requests) /\ out \in SUBSET Requests
  BY CommandTypes DEF TypeOK
<1>3. \A q \in Requests : InMailbox(q)' <=> InMailbox(q)
  <2>1. \A q \in Requests : [op |-> "flush", force |-> force] # AddOf(q)
    BY DEF AddOf
  <2>2. CASE mailbox' = Append(mailbox, [op |-> "flush", force |-> force])
    BY <1>2, <2>1, <2>2, HasAppend DEF InMailbox
  <2> QED
    BY <1>1, <2>2 DEF InMailbox
<1>4. \A i, j \in DOMAIN mailbox' : mailbox'[i].op = "add" /\ mailbox'[i] = mailbox'[j] => i = j
  <2>1. CASE mailbox' = Append(mailbox, [op |-> "flush", force |-> force])
    BY <1>2, <2>1, HasAppend DEF PlacesInv, NoTwice
  <2> QED
    BY <1>1, <2>1 DEF PlacesInv, NoTwice
<1>5. /\ \A q \in Requests : InFlushed(q)' <=> InFlushed(q) \/ q \in out
      /\ \A i, j \in DOMAIN flushed' : flushed'[i] \cap flushed'[j] # {} => i = j
  <2>1. CASE flushed' = flushed /\ out = {}
    BY <2>1 DEF InFlushed, PlacesInv, NoTwice
  <2>2. CASE flushed' = Append(flushed, out)
    <3>1. /\ DOMAIN flushed' = 1..(Len(flushed) + 1) /\ DOMAIN flushed = 1..Len(flushed)
          /\ Len(flushed) \in Nat /\ flushed'[Len(flushed) + 1] = out
          /\ \A i \in DOMAIN flushed : flushed'[i] = flushed[i] /\ flushed[i] \in SUBSET Requests
      BY <1>2, <2>2, HasAppend
    <3>2. \A q \in Requests : InFlushed(q)' <=> InFlushed(q) \/ q \in out
      BY <3>1 DEF InFlushed
    <3>3. \A i \in DOMAIN flushed : flushed[i] \cap out = {}
      BY <1>2, <3>1 DEF PlacesInv, OnePlace, InFlushed
    <3>4. \A i, j \in DOMAIN flushed : flushed[i] \cap flushed[j] # {} => i = j
      BY DEF PlacesInv, NoTwice
    <3> QED
      BY <3>1, <3>2, <3>3, <3>4
  <2> QED
    BY <1>0, <2>1, <2>2 DEF SendOut
<1>6. NoTwice'
  BY <1>0, <1>4, <1>5 DEF NoTwice, PlacesInv
<1>7. \A q \in Requests : InChannel(q)' <=> InChannel(q)
  BY <1>0 DEF InChannel
<1>8. \A q \in Requests : OnePlace(q)' /\ (Somewhere(q)' => Somewhere(q))
  BY <1>0, <1>3, <1>5, <1>7 DEF OnePlace, Somewhere, PlacesInv
<1> QED
  BY <1>0, <1>6, <1>8, PlacesKept

\* The service takes its next command: an addition goes to the buckets, a
\* flush hands some of them to the flusher that waits for it.
LEMMA ServicePlaces ==
  ASSUME TypeOK, PlacesInv, Service
  PROVE  PlacesInv'
<1>0. UNCHANGED <<agentStats, conn, channel, buffer, flushed>> /\ mailbox # <<>> /\ mailbox' = Tail(mailbox)
  BY DEF Service, AddChunk, HandleFlush, Command, requests, stats
<1>1. mailbox \in Seq(Commands) /\ Head(mailbox) \in Commands
  BY <1>0 DEF TypeOK
<1>2. \A i, j \in DOMAIN mailbox : mailbox[i].op = "add" /\ mailbox[i] = mailbox[j] => i = j
  BY DEF PlacesInv, NoTwice
<1>3. NoTwice'
  <2>1. \A i, j \in DOMAIN mailbox' : mailbox'[i].op = "add" /\ mailbox'[i] = mailbox'[j] => i = j
    BY <1>0, <1>1, <1>2, HasTail
  <2> QED
    BY <1>0, <2>1 DEF PlacesInv, NoTwice
<1>4. \A q \in Requests : /\ InMailbox(q) <=> InMailbox(q)' \/ Head(mailbox) = AddOf(q)
                          /\ InMailbox(q)' => Head(mailbox) # AddOf(q)
                          /\ InChannel(q)' <=> InChannel(q)
                          /\ InFlushed(q)' <=> InFlushed(q)
  <2>1. ASSUME NEW q \in Requests, Head(mailbox) = AddOf(q) PROVE ~Has(Tail(mailbox), AddOf(q))
    <3>1. mailbox[1] = AddOf(q) /\ mailbox[1].op = "add"
      BY <1>0, <1>1, <2>1, HasTail, CommandTypes
    <3> QED
      BY <1>0, <1>1, <1>2, <2>1, <3>1, HasTail DEF Has
  <2> QED
    BY <1>0, <1>1, <2>1, HasTail DEF InMailbox, InChannel, InFlushed
<1>5. ASSUME AddChunk PROVE \A q \in Requests : OnePlace(q)' /\ (Somewhere(q)' => Somewhere(q))
  <2>1. out' = out /\ buckets' = buckets \cup {Head(mailbox).req} /\ Head(mailbox).op = "add"
    BY <1>5 DEF AddChunk, Command, stats
  <2>2. Head(mailbox) = AddOf(Head(mailbox).req)
    BY <1>1, <2>1, CommandTypes
  <2>3. \A q \in Requests : Head(mailbox) = AddOf(q) => q = Head(mailbox).req
    BY CommandTypes
  <2>4. \A q \in Requests : q \in buckets' <=> q \in buckets \/ Head(mailbox) = AddOf(q)
    BY <2>1, <2>2, <2>3
  <2> QED
    BY <1>0, <1>4, <2>1, <2>4 DEF OnePlace, Somewhere, PlacesInv
<1>6. ASSUME NEW complete \in SUBSET buckets, HandleFlush(complete)
      PROVE  \A q \in Requests : OnePlace(q)' /\ (Somewhere(q)' => Somewhere(q))
  <2>1. buckets' = buckets \ complete /\ (out' = out \/ out' = complete)
    BY <1>6 DEF HandleFlush
  <2> QED
    BY <1>0, <1>4, <2>1 DEF OnePlace, Somewhere, PlacesInv
<1> QED
  BY <1>0, <1>3, <1>5, <1>6, PlacesKept DEF Service

\* Every step keeps each request's stats in one place at most.
LEMMA NextPlaces == TypeOK /\ TasksOK /\ PlacesInv /\ [Next]_vars => PlacesInv'
<1> SUFFICES ASSUME TypeOK, TasksOK, PlacesInv, [Next]_vars PROVE PlacesInv'
  OBVIOUS
<1>1. CASE RequestShutdown \/ TraceFlusherDies \/ SeesShutdown \/ SignalFlusher \/ UNCHANGED vars
  BY <1>1, PlacesFrame DEF RequestShutdown, TraceFlusherDies, SeesShutdown, SignalFlusher, vars,
     requests, stats, concentrator
<1>2. ASSUME NEW r \in Requests,
             Accept(r) \/ BeginRequest(r) \/ Respond(r) \/ Disconnect(r) \/ CloseIdle(r)
      PROVE  PlacesInv'
  <2>1. UNCHANGED <<agentStats, channel, mailbox, buffer, out, buckets, flushed>>
    BY <1>2 DEF Accept, BeginRequest, Respond, Disconnect, CloseIdle, stats, concentrator
  <2>2. \A q \in Requests :
          conn[q] \in {"responding", "closed"} => conn'[q] \in {"responding", "closed"}
    BY <1>2 DEF Accept, BeginRequest, Respond, Disconnect, CloseIdle, SetConn, TypeOK, Live
  <2> QED
    BY <2>1, <2>2, PlacesFrame
<1>3. ASSUME NEW r \in Requests, ProcessStats(r) \/ ProcessTraces(r) PROVE PlacesInv'
  BY <1>3, ProcessStatsPlaces, ProcessTracesPlaces
<1>4. ASSUME NEW t \in Transports, AcceptLoop(t) PROVE PlacesInv'
  BY <1>4, PlacesFrame DEF AcceptLoop, DrainLoop, ExitLoop, requests, stats, concentrator
<1>5. ASSUME NEW t \in Transports, FailLoop(t) PROVE PlacesInv'
  <2>1. UNCHANGED <<agentStats, channel, mailbox, buffer, out, buckets, flushed>>
    BY <1>5 DEF FailLoop, stats, concentrator
  <2>2. \A q \in Requests :
          conn[q] \in {"responding", "closed"} => conn'[q] \in {"responding", "closed"}
    BY <1>5 DEF FailLoop, Orphaned
  <2> QED
    BY <2>1, <2>2, PlacesFrame
<1>6. CASE StatsFlusher
  BY <1>6, ReceivePlaces, FlushPlaces, SendPlaces DEF StatsFlusher
<1>7. CASE FlusherDies \/ ServiceDies
  <2>1. /\ UNCHANGED <<agentStats, flushed>> /\ conn' = conn
        /\ \/ UNCHANGED <<channel, buffer, out>>
           \/ channel' = <<>> /\ buffer' = {} /\ out' = {}
        /\ \/ UNCHANGED <<mailbox, buckets>>
           \/ mailbox' = <<>> /\ buckets' = {}
    BY <1>7 DEF FlusherDies, ServiceDies, requests, stats, concentrator
  <2> QED
    BY <2>1, PlacesLost
<1>8. CASE Service
  BY <1>8, ServicePlaces
<1>9. CASE SeesDeath \/ EndFinalFlush
  <2>0. PICK res : AbortAll(res)
    BY <1>9 DEF SeesDeath, EndFinalFlush
  <2>1. /\ UNCHANGED <<agentStats, flushed>>
        /\ \/ UNCHANGED <<channel, buffer, out>>
           \/ channel' = <<>> /\ buffer' = {} /\ out' = {}
        /\ \/ UNCHANGED <<mailbox, buckets>>
           \/ mailbox' = <<>> /\ buckets' = {}
    BY <2>0 DEF AbortAll, concentrator
  <2>2. \A q \in Requests :
          conn[q] \in {"responding", "closed"} => conn'[q] \in {"responding", "closed"}
    BY <2>0 DEF AbortAll, Orphaned
  <2> QED
    BY <2>1, <2>2, PlacesLost
<1> QED
  BY <1>1, <1>2, <1>3, <1>4, <1>5, <1>6, <1>7, <1>8, <1>9 DEF Next, Handler, Supervisor

-----------------------------------------------------------------------------
(* Nothing is missed.                                                      *)

HandsInv == FlusherEmpty /\ MailboxOK

\* Nobody holds anything at the start.
LEMMA InitKeep == Init => KeepInv
<1> SUFFICES ASSUME Init PROVE KeepInv
  OBVIOUS
<1>1. channel = <<>> /\ mailbox = <<>> /\ buffer = {} /\ out = {} /\ buckets = {} /\ ~force
      /\ flusher = "idle" /\ acked = {} /\ \A r \in Requests : conn[r] = "none"
  BY DEF Init
<1>2. FlusherEmpty
  BY <1>1 DEF FlusherEmpty
<1>3. MailboxOK
  BY <1>1 DEF MailboxOK
<1>4. Retained
  BY <1>1 DEF Retained
<1> QED
  BY <1>2, <1>3, <1>4 DEF KeepInv

\* Once the flusher is signalled, no handler runs.
LEMMA NoHandlerAfterSignal ==
  ASSUME ControlInv, NEW r \in Requests, Live(conn[r])
  PROVE  ~signal /\ ~force /\ ~Over
<1>1. Via[r] \in Transports
  BY MiniAgentAssumption
<1>2. ~signal /\ ~Over
  BY <1>1 DEF ControlInv, LoopsOK
<1> QED
  BY <1>2 DEF ControlInv, TasksOK

\* Steps that touch neither the flusher nor the service.
LEMMA HandsFrame ==
  ASSUME HandsInv, UNCHANGED <<channel, buffer, out, flusher, force, mailbox, service, buckets>>
  PROVE  HandsInv'
<1>1. FlusherEmpty'
  BY DEF HandsInv, FlusherEmpty
<1>2. MailboxOK'
  BY DEF HandsInv, MailboxOK
<1> QED
  BY <1>1, <1>2 DEF HandsInv

\* A handler sends behind a flush command only while the flush is not the
\* last.
LEMMA HandlerHands ==
  ASSUME TypeOK, ControlInv, HandsInv, NEW r \in Requests, ProcessStats(r) \/ ProcessTraces(r)
  PROVE  HandsInv'
<1>1. ~force
  BY NoHandlerAfterSignal DEF ProcessStats, ProcessTraces, Live
<1>2. UNCHANGED <<buffer, out, flusher, force, service, buckets>>
  BY DEF ProcessStats, ProcessTraces, stats, concentrator
<1>3. FlusherEmpty'
  BY <1>1, <1>2 DEF HandsInv, FlusherEmpty
<1>4. CASE mailbox' = mailbox
  BY <1>2, <1>3, <1>4 DEF HandsInv, MailboxOK
<1>5. CASE mailbox' = Append(mailbox, AddOf(r)) /\ service = "running"
  <2>1. mailbox \in Seq(Commands) /\ AddOf(r) \in Commands /\ AddOf(r).op = "add"
    BY CommandTypes DEF TypeOK
  <2>2. /\ DOMAIN mailbox' = 1..(Len(mailbox) + 1) /\ DOMAIN mailbox = 1..Len(mailbox)
        /\ Len(mailbox) \in Nat /\ mailbox'[Len(mailbox) + 1].op = "add"
        /\ \A i \in DOMAIN mailbox : mailbox'[i] = mailbox[i]
    BY <1>5, <2>1, HasAppend
  <2>3. MailboxOK'
    BY <1>1, <1>2, <1>5, <2>2 DEF HandsInv, MailboxOK
  <2> QED
    BY <1>3, <2>3 DEF HandsInv
<1> QED
  BY <1>4, <1>5 DEF ProcessStats, ProcessTraces, SendToConcentrator, AddOf, concentrator

\* The flusher's steps up to the flush command.
LEMMA FlusherHands ==
  ASSUME TypeOK, ControlInv, HandsInv, Receive \/ Tick \/ FinalFlush
  PROVE  HandsInv'
<1>0. flusher = "idle" /\ ~force /\ UNCHANGED <<mailbox, service, buckets>>
  BY DEF Receive, Tick, FinalFlush, ControlInv, TasksOK, concentrator
<1>1. (flusher' = "idle" /\ ~force' /\ out' = out) \/ flusher' = "sending_stats"
  BY <1>0 DEF Receive, Tick, FinalFlush
<1>2. FlusherEmpty'
  <2>1. force' => channel' = <<>> /\ buffer' = {}
    BY <1>0 DEF Receive, Tick, FinalFlush
  <2> QED
    BY <1>0, <1>1, <2>1 DEF HandsInv, FlusherEmpty
<1>3. MailboxOK'
  BY <1>0, <1>1 DEF HandsInv, MailboxOK
<1> QED
  BY <1>2, <1>3 DEF HandsInv

\* The flusher sends, and asks the service for its stats.
LEMMA SendHands ==
  ASSUME TypeOK, ControlInv, HandsInv, SendStats \/ SendAgentStats
  PROVE  HandsInv'
<1>0. UNCHANGED <<channel, buffer, force, service, buckets>> /\ out' = {}
  BY DEF SendStats, SendAgentStats, SendOut, requests, concentrator
<1>1. FlusherEmpty'
  BY <1>0 DEF HandsInv, FlusherEmpty
<1>2. CASE mailbox' = mailbox /\ flusher' = AfterFlush
  <2>1. (mailbox = <<>> /\ (force => buckets = {})) \/ flusher = "sending_agent_stats"
    BY <1>2 DEF SendStats, SendAgentStats, HandsInv, MailboxOK, Finished
  <2>2. flusher' = IF force THEN "exited" ELSE "idle"
    BY <1>2 DEF AfterFlush
  <2>3. MailboxOK'
    BY <1>0, <1>2, <2>1, <2>2 DEF HandsInv, MailboxOK
  <2> QED
    BY <1>1, <2>3 DEF HandsInv
<1>3. CASE /\ SendStats /\ service = "running" /\ flusher' = "waiting"
           /\ mailbox' = Append(mailbox, [op |-> "flush", force |-> force])
  <2>1. mailbox \in Seq(Commands) /\ [op |-> "flush", force |-> force] \in Commands
    BY CommandTypes DEF TypeOK
  <2>2. /\ DOMAIN mailbox' = 1..(Len(mailbox) + 1) /\ DOMAIN mailbox = 1..Len(mailbox)
        /\ Len(mailbox) \in Nat /\ Len(mailbox') = Len(mailbox) + 1
        /\ mailbox'[Len(mailbox) + 1] = [op |-> "flush", force |-> force]
        /\ \A i \in DOMAIN mailbox : mailbox'[i] = mailbox[i]
    BY <1>3, <2>1, HasAppend
  <2>3. \A i \in DOMAIN mailbox : mailbox'[i].op = "add"
    BY <1>3, <2>2 DEF SendStats, HandsInv, MailboxOK
  <2>4. \A i \in DOMAIN mailbox' : mailbox'[i].op = "flush" => i = Len(mailbox')
    BY <2>2, <2>3
  <2>5. Len(mailbox') \in DOMAIN mailbox' /\ mailbox'[Len(mailbox')].op = "flush"
        /\ mailbox'[Len(mailbox')].force = force
    BY <2>2
  <2>6. MailboxOK'
    BY <1>0, <1>3, <2>4, <2>5 DEF MailboxOK
  <2> QED
    BY <1>1, <2>6 DEF HandsInv
<1> QED
  BY <1>2, <1>3 DEF SendStats, SendAgentStats, concentrator

\* The service works its mailbox off in order, so that the last flush finds
\* all that was added before it and leaves nothing behind.
LEMMA ServiceHands ==
  ASSUME TypeOK, ControlInv, HandsInv, Service
  PROVE  HandsInv'
<1>0. /\ UNCHANGED <<channel, buffer, force, service>> /\ service = "running" /\ mailbox # <<>>
      /\ mailbox' = Tail(mailbox)
  BY DEF Service, AddChunk, HandleFlush, Command, requests, stats
<1>1. mailbox \in Seq(Commands)
  BY DEF TypeOK
<1>2. /\ DOMAIN mailbox' = 1..(Len(mailbox) - 1) /\ DOMAIN mailbox = 1..Len(mailbox)
      /\ Len(mailbox) \in Nat /\ Len(mailbox) >= 1 /\ Len(mailbox') = Len(mailbox) - 1
      /\ \A i \in DOMAIN mailbox' : mailbox'[i] = mailbox[i + 1] /\ i + 1 \in DOMAIN mailbox
      /\ Head(mailbox) = mailbox[1] /\ 1 \in DOMAIN mailbox
  BY <1>0, <1>1, HasTail
<1>3. ~(force /\ flusher \in {"sending_agent_stats", "exited"})
  BY <1>0 DEF HandsInv, MailboxOK
<1>4. CASE AddChunk
  <2>1. mailbox[1].op = "add" /\ UNCHANGED <<flusher, out>>
    BY <1>2, <1>4 DEF AddChunk, Command, stats
  <2>2. FlusherEmpty'
    BY <1>0, <2>1 DEF HandsInv, FlusherEmpty
  <2>3. ASSUME flusher = "waiting" PROVE \E i \in DOMAIN mailbox' : mailbox'[i].op = "flush"
    <3>1. PICK i \in DOMAIN mailbox : mailbox[i].op = "flush"
      BY <1>0, <2>3 DEF HandsInv, MailboxOK
    <3>2. i # 1
      BY <2>1, <3>1
    <3>3. i - 1 \in DOMAIN mailbox' /\ mailbox'[i - 1] = mailbox[i]
      BY <1>2, <3>2
    <3> QED
      BY <3>1, <3>3
  <2>4. ASSUME flusher = "waiting", NEW i \in DOMAIN mailbox', mailbox'[i].op = "flush"
        PROVE  /\ mailbox'[i].force = force
               /\ \A j \in DOMAIN mailbox' : mailbox'[j].op = "flush" => j = i
               /\ force => i = Len(mailbox')
    BY <1>2, <2>4 DEF HandsInv, MailboxOK
  <2>5. flusher \in {"idle", "sending_stats", "sending_agent_stats"} =>
          \A i \in DOMAIN mailbox' : mailbox'[i].op = "add"
    BY <1>2 DEF HandsInv, MailboxOK
  <2>6. MailboxOK'
    BY <1>0, <1>3, <2>1, <2>3, <2>4, <2>5 DEF MailboxOK
  <2> QED
    BY <2>2, <2>6 DEF HandsInv
<1>5. ASSUME NEW complete \in SUBSET buckets, HandleFlush(complete) PROVE HandsInv'
  <2>1. mailbox[1].op = "flush" /\ (mailbox[1].force => complete = buckets)
        /\ buckets' = buckets \ complete
    BY <1>2, <1>5 DEF HandleFlush, Command
  <2>2. CASE flusher = "waiting"
    <3>1. flusher' = "sending_agent_stats"
      BY <1>5, <2>2 DEF HandleFlush
    <3>2. /\ mailbox[1].force = force /\ (force => 1 = Len(mailbox))
          /\ \A j \in DOMAIN mailbox : mailbox[j].op = "flush" => j = 1
      BY <1>2, <2>1, <2>2 DEF HandsInv, MailboxOK
    <3>3. \A i \in DOMAIN mailbox' : mailbox'[i].op = "add"
      <4>1. \A i \in DOMAIN mailbox : mailbox[i].op \in {"add", "flush"}
        BY <1>1, CommandTypes
      <4> QED
        BY <1>2, <3>2, <4>1
    <3>4. force => mailbox' = <<>> /\ buckets' = {}
      BY <1>0, <1>1, <2>1, <3>2
    <3>5. MailboxOK'
      BY <1>0, <3>1, <3>3, <3>4 DEF MailboxOK
    <3>6. FlusherEmpty'
      BY <1>0, <3>1 DEF HandsInv, FlusherEmpty
    <3> QED
      BY <3>5, <3>6 DEF HandsInv
  <2>3. CASE flusher # "waiting"
    <3>1. UNCHANGED <<flusher, out>>
      BY <1>5, <2>3 DEF HandleFlush
    <3>2. flusher \in {"exited", "died", "aborted"}
      BY <1>2, <2>1, <2>3 DEF HandsInv, MailboxOK, TypeOK, FlusherStates
    <3>3. MailboxOK'
      BY <1>0, <1>3, <3>1, <3>2 DEF MailboxOK
    <3>4. FlusherEmpty'
      BY <1>0, <3>1 DEF HandsInv, FlusherEmpty
    <3> QED
      BY <3>3, <3>4 DEF HandsInv
  <2> QED
    BY <2>2, <2>3
<1> QED
  BY <1>4, <1>5 DEF Service

\* Deaths and aborts empty what they end.
LEMMA EndHands ==
  ASSUME TypeOK, ControlInv, HandsInv, FlusherDies \/ ServiceDies \/ (\E res : AbortAll(res))
  PROVE  HandsInv'
<1>1. /\ force' = force
      /\ (UNCHANGED <<channel, buffer, out>>) \/ (channel' = <<>> /\ buffer' = {} /\ out' = {})
      /\ flusher' = flusher \/ flusher' \in {"died", "aborted"}
      /\ \/ UNCHANGED <<mailbox, service, buckets>>
         \/ service' # "running" /\ mailbox' = <<>> /\ buckets' = {}
  BY DEF FlusherDies, ServiceDies, AbortAll, requests, stats, concentrator
<1>2. FlusherEmpty'
  BY <1>1 DEF HandsInv, FlusherEmpty
<1>3. MailboxOK'
  BY <1>1 DEF HandsInv, MailboxOK
<1> QED
  BY <1>2, <1>3 DEF HandsInv

\* Every step keeps the hands in order.
LEMMA NextHands == TypeOK /\ ControlInv /\ HandsInv /\ [Next]_vars => HandsInv'
<1> SUFFICES ASSUME TypeOK, ControlInv, HandsInv, [Next]_vars PROVE HandsInv'
  OBVIOUS
<1>1. CASE RequestShutdown \/ TraceFlusherDies \/ SeesShutdown \/ SignalFlusher \/ UNCHANGED vars
  BY <1>1, HandsFrame DEF RequestShutdown, TraceFlusherDies, SeesShutdown, SignalFlusher, vars,
     requests, stats, concentrator
<1>2. ASSUME NEW r \in Requests,
             Accept(r) \/ BeginRequest(r) \/ Respond(r) \/ Disconnect(r) \/ CloseIdle(r)
      PROVE  HandsInv'
  BY <1>2, HandsFrame DEF Accept, BeginRequest, Respond, Disconnect, CloseIdle, stats, concentrator
<1>3. ASSUME NEW r \in Requests, ProcessStats(r) \/ ProcessTraces(r) PROVE HandsInv'
  BY <1>3, HandlerHands
<1>4. ASSUME NEW t \in Transports, AcceptLoop(t) \/ FailLoop(t) PROVE HandsInv'
  BY <1>4, HandsFrame DEF AcceptLoop, DrainLoop, ExitLoop, FailLoop, requests, stats, concentrator
<1>5. CASE StatsFlusher
  BY <1>5, FlusherHands, SendHands DEF StatsFlusher
<1>6. CASE Service
  BY <1>6, ServiceHands
<1>7. CASE FlusherDies \/ ServiceDies \/ SeesDeath \/ EndFinalFlush
  <2>1. FlusherDies \/ ServiceDies \/ (\E res : AbortAll(res))
    BY <1>7 DEF SeesDeath, EndFinalFlush
  <2> QED
    BY <2>1, EndHands
<1> QED
  BY <1>1, <1>2, <1>3, <1>4, <1>5, <1>6, <1>7 DEF Next, Handler, Supervisor

\* Stats that stay somewhere stay retained, whatever else a step does, and a
\* request is answered with success only by its handler.
LEMMA RetainedKept ==
  ASSUME Retained, agentStats' = agentStats, died \in SUBSET died',
         died' = {} => \A q \in Requests :
           Counted(q) /\ (conn'[q] = "responding" \/ q \in acked') =>
             Somewhere(q)' \/ ((conn[q] = "responding" \/ q \in acked) /\ (Somewhere(q) => Somewhere(q)'))
  PROVE  Retained'
<1>1. \A q \in Requests : Counted(q)' <=> Counted(q)
  BY DEF Counted
<1> QED
  BY <1>1 DEF Retained

\* A handler responds only after its stats are in the channel or the mailbox.
LEMMA HandlerRetained ==
  ASSUME TypeOK, ControlInv, Retained, NEW r \in Requests,
         Accept(r) \/ BeginRequest(r) \/ Handler(r) \/ Disconnect(r) \/ CloseIdle(r)
  PROVE  Retained'
<1>0. UNCHANGED <<agentStats, buffer, out, buckets, flushed, died, service>>
  BY DEF Accept, BeginRequest, Handler, ProcessStats, ProcessTraces, Respond, Disconnect,
         CloseIdle, stats, concentrator
<1>1. CASE Accept(r) \/ BeginRequest(r) \/ Respond(r) \/ Disconnect(r) \/ CloseIdle(r)
  <2>1. UNCHANGED <<channel, mailbox>>
    BY <1>1 DEF Accept, BeginRequest, Respond, Disconnect, CloseIdle, concentrator
  <2>2. \A q \in Requests : conn'[q] = "responding" \/ q \in acked' => conn[q] = "responding" \/ q \in acked
    BY <1>1 DEF Accept, BeginRequest, Respond, Disconnect, CloseIdle, SetConn, TypeOK
  <2>3. \A q \in Requests : Somewhere(q)' <=> Somewhere(q)
    BY <1>0, <2>1 DEF Somewhere, InChannel, InMailbox, InFlushed
  <2> QED
    BY <1>0, <2>2, <2>3, RetainedKept
<1>2. CASE ProcessStats(r)
  <2>1. UNCHANGED <<mailbox, acked>> /\ channel \in Seq(Requests)
    BY <1>2 DEF ProcessStats, concentrator, TypeOK
  <2>2. CASE channel' = channel /\ conn' = [conn EXCEPT ![r] = "closed"]
    <3>1. \A q \in Requests : Somewhere(q)' <=> Somewhere(q)
      BY <1>0, <2>1, <2>2 DEF Somewhere, InChannel, InMailbox, InFlushed
    <3>2. \A q \in Requests : conn'[q] = "responding" => conn[q] = "responding"
      BY <2>2 DEF TypeOK
    <3> QED
      BY <1>0, <2>1, <3>1, <3>2, RetainedKept
  <2>4. CASE agentStats /\ channel' = channel /\ conn' = [conn EXCEPT ![r] = "responding"]
    <3>1. \A q \in Requests : Somewhere(q)' <=> Somewhere(q)
      BY <1>0, <2>1, <2>4 DEF Somewhere, InChannel, InMailbox, InFlushed
    <3>2. \A q \in Requests : conn'[q] = "responding" => conn[q] = "responding" \/ q = r
      BY <2>4 DEF TypeOK
    <3>3. ~Counted(r)
      BY <1>2, <2>4 DEF ProcessStats, Counted
    <3> QED
      BY <1>0, <2>1, <3>1, <3>2, <3>3, RetainedKept
  <2>3. CASE channel' = Append(channel, r) /\ conn' = [conn EXCEPT ![r] = "responding"]
    <3>1. \A q \in Requests : (Somewhere(q) => Somewhere(q)') /\ Somewhere(r)'
      BY <1>0, <2>1, <2>3, HasAppend DEF Somewhere, InChannel, InMailbox, InFlushed
    <3>2. \A q \in Requests : conn'[q] = "responding" => conn[q] = "responding" \/ q = r
      BY <2>3 DEF TypeOK
    <3> QED
      BY <1>0, <2>1, <3>1, <3>2, RetainedKept
  <2> QED
    BY <1>2, <2>2, <2>3, <2>4 DEF ProcessStats, SetConn
<1>3. CASE ProcessTraces(r)
  <2>1. /\ UNCHANGED <<channel, acked>> /\ Kind[r] = "trace"
        /\ mailbox \in Seq(Commands) /\ AddOf(r) \in Commands
        /\ \A q \in Requests : conn'[q] = "responding" => conn[q] = "responding" \/ q = r
    BY <1>3, CommandTypes DEF ProcessTraces, SetConn, TypeOK
  <2>2. CASE service = "running"
    <3>1. mailbox' = Append(mailbox, AddOf(r))
      BY <1>3, <2>2 DEF ProcessTraces, SendToConcentrator, AddOf
    <3>2. \A q \in Requests : (Somewhere(q) => Somewhere(q)') /\ Somewhere(r)'
      BY <1>0, <2>1, <3>1, HasAppend DEF Somewhere, InChannel, InMailbox, InFlushed
    <3> QED
      BY <1>0, <2>1, <3>2, RetainedKept
  <2>3. CASE service # "running"
    <3>1. \A q \in Requests : Somewhere(q)' <=> Somewhere(q)
      <4>1. mailbox' = mailbox
        BY <1>3, <2>3 DEF ProcessTraces, SendToConcentrator
      <4> QED
        BY <1>0, <2>1, <4>1 DEF Somewhere, InChannel, InMailbox, InFlushed
    <3>2. ~Over
      BY <1>3, NoHandlerAfterSignal DEF ProcessTraces, Live
    <3>3. died = {} => ~agentStats
      BY <2>3, <3>2 DEF ControlInv, TasksOK, TypeOK
    <3>4. died = {} => ~Counted(r)
      BY <2>1, <3>3 DEF Counted
    <3> QED
      BY <1>0, <2>1, <3>1, <3>4, RetainedKept
  <2> QED
    BY <2>2, <2>3
<1> QED
  BY <1>1, <1>2, <1>3 DEF Handler

\* Flusher and service only move stats on.
LEMMA MovesRetained ==
  ASSUME TypeOK, ControlInv, HandsInv, Retained, StatsFlusher \/ Service
  PROVE  Retained'
<1>0. UNCHANGED <<agentStats, conn, acked, died>>
  BY DEF StatsFlusher, Receive, Tick, FinalFlush, SendStats, SendAgentStats, Service, AddChunk,
         HandleFlush, requests
<1> SUFFICES ASSUME died = {}, NEW q \in Requests, Somewhere(q) PROVE Somewhere(q)'
  BY <1>0, RetainedKept
<1>1. CASE Receive
  <2>1. channel \in Seq(Requests) /\ channel # <<>>
    BY <1>1 DEF Receive, TypeOK
  <2>2. InChannel(q) => InChannel(q)' \/ q \in buffer'
    BY <1>1, <2>1, HasTail DEF Receive, InChannel
  <2> QED
    BY <1>1, <2>2 DEF Receive, Somewhere, InMailbox, InFlushed, concentrator
<1>2. CASE Tick
  BY <1>2 DEF Tick, Somewhere, InChannel, InMailbox, InFlushed, requests, concentrator, HandsInv,
     FlusherEmpty
<1>3. CASE FinalFlush
  <2>1. q \in out' <=> q \in buffer \/ InChannel(q)
    BY <1>3 DEF FinalFlush, Values, InChannel, Has
  <2> QED
    BY <1>3, <2>1 DEF FinalFlush, Somewhere, InMailbox, InFlushed, concentrator, HandsInv, FlusherEmpty
<1>4. CASE SendStats \/ SendAgentStats
  <2>1. UNCHANGED <<channel, buffer, buckets>> /\ SendOut
    BY <1>4 DEF SendStats, SendAgentStats, requests, concentrator
  <2>2. InMailbox(q) => InMailbox(q)'
    <3>1. mailbox' = mailbox \/ mailbox' = Append(mailbox, [op |-> "flush", force |-> force])
      BY <1>4 DEF SendStats, SendAgentStats, concentrator
    <3>2. mailbox \in Seq(Commands) /\ [op |-> "flush", force |-> force] \in Commands
      BY CommandTypes DEF TypeOK
    <3>3. Has(Append(mailbox, [op |-> "flush", force |-> force]), AddOf(q)) <=>
            Has(mailbox, AddOf(q)) \/ [op |-> "flush", force |-> force] = AddOf(q)
      BY <3>2, HasAppend
    <3> QED
      BY <3>1, <3>3 DEF InMailbox
  <2>3. InFlushed(q) \/ q \in out => InFlushed(q)'
    <3>1. CASE flushed' = flushed /\ out = {}
      BY <3>1 DEF InFlushed
    <3>2. CASE flushed' = Append(flushed, out)
      <4>1. /\ DOMAIN flushed' = 1..(Len(flushed) + 1) /\ DOMAIN flushed = 1..Len(flushed)
            /\ Len(flushed) \in Nat /\ flushed'[Len(flushed) + 1] = out
            /\ \A i \in DOMAIN flushed : flushed'[i] = flushed[i]
        BY <3>2, HasAppend DEF TypeOK
      <4> QED
        BY <4>1 DEF InFlushed
    <3> QED
      BY <2>1, <3>1, <3>2 DEF SendOut
  <2> QED
    BY <2>1, <2>2, <2>3 DEF Somewhere, InChannel
<1>5. CASE AddChunk
  <2>1. mailbox \in Seq(Commands) /\ mailbox # <<>> /\ Head(mailbox).op = "add"
        /\ mailbox' = Tail(mailbox) /\ buckets' = buckets \cup {Head(mailbox).req}
        /\ UNCHANGED <<channel, buffer, out, flushed>>
    BY <1>5 DEF AddChunk, Command, TypeOK, requests, stats
  <2>2. InMailbox(q) => InMailbox(q)' \/ q \in buckets'
    BY <2>1, HasTail, CommandTypes DEF InMailbox
  <2> QED
    BY <2>1, <2>2 DEF Somewhere, InChannel, InFlushed
<1>6. ASSUME NEW complete \in SUBSET buckets, HandleFlush(complete) PROVE Somewhere(q)'
  <2>1. mailbox \in Seq(Commands) /\ mailbox # <<>> /\ Head(mailbox).op = "flush"
        /\ mailbox' = Tail(mailbox) /\ UNCHANGED <<channel, buffer, flushed>>
        /\ service = "running" /\ buckets' = buckets \ complete
    BY <1>6 DEF HandleFlush, Command, TypeOK, requests
  <2>2. InMailbox(q) => InMailbox(q)'
    BY <2>1, HasTail, CommandTypes DEF InMailbox
  <2>3. flusher = "waiting"
    <3>1. 1 \in DOMAIN mailbox /\ mailbox[1].op = "flush"
      BY <2>1, HasTail
    <3>2. flusher \notin {"idle", "sending_stats", "sending_agent_stats"}
      BY <3>1 DEF HandsInv, MailboxOK
    <3>3. flusher \notin {"died", "aborted"}
      BY <2>1 DEF ControlInv, TasksOK
    <3>4. flusher # "exited"
      BY <2>1 DEF ControlInv, TasksOK, HandsInv, MailboxOK
    <3> QED
      BY <3>2, <3>3, <3>4 DEF TypeOK, FlusherStates
  <2>4. out' = complete /\ out = {}
    BY <1>6, <2>3 DEF HandleFlush, HandsInv, FlusherEmpty
  <2> QED
    BY <2>1, <2>2, <2>4 DEF Somewhere, InChannel, InFlushed
<1> QED
  BY <1>1, <1>2, <1>3, <1>4, <1>5, <1>6 DEF StatsFlusher, Service

\* Every step keeps what was passed on, as long as no task dies.
LEMMA NextRetained ==
  TypeOK /\ ControlInv /\ KeepInv /\ [Next]_vars => Retained'
<1> SUFFICES ASSUME TypeOK, ControlInv, KeepInv, [Next]_vars PROVE Retained'
  OBVIOUS
<1>0. HandsInv /\ Retained
  BY DEF KeepInv, HandsInv
<1>1. ASSUME UNCHANGED <<agentStats, channel, mailbox, buffer, out, buckets, flushed>>,
             died \in SUBSET died', acked' = acked,
             \A q \in Requests : conn'[q] = "responding" => conn[q] = "responding"
      PROVE  Retained'
  <2>1. \A q \in Requests : Somewhere(q)' <=> Somewhere(q)
    BY <1>1 DEF Somewhere, InChannel, InMailbox, InFlushed
  <2> QED
    BY <1>0, <1>1, <2>1, RetainedKept
<1>2. CASE RequestShutdown \/ TraceFlusherDies \/ SeesShutdown \/ SignalFlusher \/ UNCHANGED vars
  BY <1>1, <1>2 DEF RequestShutdown, TraceFlusherDies, SeesShutdown, SignalFlusher, vars,
     requests, stats, concentrator
<1>3. ASSUME NEW r \in Requests,
             Accept(r) \/ BeginRequest(r) \/ Handler(r) \/ Disconnect(r) \/ CloseIdle(r)
      PROVE  Retained'
  BY <1>0, <1>3, HandlerRetained
<1>4. ASSUME NEW t \in Transports, AcceptLoop(t) PROVE Retained'
  BY <1>1, <1>4 DEF AcceptLoop, DrainLoop, ExitLoop, requests, stats, concentrator
<1>5. CASE StatsFlusher \/ Service
  BY <1>0, <1>5, MovesRetained
<1>6. ASSUME died' # {} PROVE Retained'
  BY <1>6 DEF Retained
<1>7. ASSUME NEW t \in Transports, FailLoop(t) PROVE Retained'
  BY <1>6, <1>7 DEF FailLoop
<1>8. CASE FlusherDies \/ ServiceDies
  BY <1>6, <1>8 DEF FlusherDies, ServiceDies
<1>9. CASE SeesDeath
  <2>1. died # {} /\ died' = died
    BY <1>9, EndedIsDead DEF SeesDeath, AbortAll
  <2> QED
    BY <1>6, <2>1
<1>10. CASE EndFinalFlush
  <2>0. flusher \in Finished /\ supervisor = "final_flush"
        /\ AbortAll(IF flusher = "exited" THEN "ok" ELSE "err")
    BY <1>10 DEF EndFinalFlush
  <2>1. died' = died /\ UNCHANGED <<agentStats, acked, flushed, channel, buffer, out>>
    BY <2>0 DEF AbortAll
  <2>2. CASE flusher # "exited"
    <3>1. died # {}
      BY <2>0, <2>2 DEF ControlInv, TasksOK, Finished, Over
    <3> QED
      BY <1>6, <2>1, <3>1
  <2>3. CASE flusher = "exited"
    <3>1. mailbox = <<>> /\ buckets = {}
      BY <1>0, <2>3 DEF ControlInv, TasksOK, HandsInv, MailboxOK
    <3>2. UNCHANGED <<mailbox, buckets>>
      BY <2>0, <3>1 DEF AbortAll, concentrator
    <3>3. \A q \in Requests : conn'[q] = "responding" => conn[q] = "responding"
      BY <2>0 DEF AbortAll, Orphaned
    <3> QED
      BY <1>1, <2>1, <3>2, <3>3
  <2> QED
    BY <2>2, <2>3
<1> QED
  BY <1>2, <1>3, <1>4, <1>5, <1>7, <1>8, <1>9, <1>10 DEF Next, Supervisor

-----------------------------------------------------------------------------
(* The theorems.                                                           *)

\* The inductive invariant holds of every reachable state.
THEOREM Invariance == Spec => []IndInv
<1>1. Init => IndInv
  BY InitType, InitControl, InitPlaces, InitKeep DEF IndInv
<1>2. IndInv /\ [Next]_vars => IndInv'
  <2>1. IndInv /\ [Next]_vars => TypeOK' /\ ControlInv' /\ PlacesInv'
    BY NextType, NextControl, NextPlaces DEF IndInv, ControlInv
  <2>2. IndInv /\ [Next]_vars => KeepInv'
    BY NextHands, NextRetained DEF IndInv, KeepInv, HandsInv
  <2> QED
    BY <2>1, <2>2 DEF IndInv
<1> QED
  BY <1>1, <1>2, PTL DEF Spec

\* The variables of the agent keep their types.
THEOREM TypeCorrect == Spec => []TypeOK
<1>1. IndInv => TypeOK
  BY DEF IndInv
<1> QED
  BY <1>1, Invariance, PTL

\* A shutdown in which no task dies ends well: loops that end because they
\* were told to are not taken for dead.
THEOREM ShutdownEndsWell == Spec => []ShutdownIsClean
<1>1. IndInv => ShutdownIsClean
  BY DEF IndInv, ControlInv
<1> QED
  BY <1>1, Invariance, PTL

\* A set with at most one element has cardinality 0 or 1.
LEMMA AtMostOneCard ==
  ASSUME NEW S, \A x, y \in S : x = y
  PROVE  Cardinality(S) = IF S = {} THEN 0 ELSE 1
<1>1. CASE S = {}
  BY <1>1, FS_EmptySet
<1>2. CASE S # {}
  <2>1. PICK x \in S : TRUE
    BY <1>2
  <2>2. S = {x}
    BY <2>1
  <2> QED
    BY <1>2, <2>2, FS_Singleton
<1> QED
  BY <1>1, <1>2

\* The stats of a request in one place at a time are counted once at most.
LEMMA CountedOnce == TypeOK /\ PlacesInv => FlushedOnce
<1> SUFFICES ASSUME TypeOK, PlacesInv, NEW r \in Requests
             PROVE  Cardinality({i \in DOMAIN channel : channel[i] = r})
                      + Cardinality({i \in DOMAIN mailbox : mailbox[i].op = "add" /\ mailbox[i].req = r})
                      + Cardinality({i \in DOMAIN flushed : r \in flushed[i]})
                      + Cardinality({s \in 1..3 : r \in <<buffer, out, buckets>>[s]}) <= 1
  BY DEF FlushedOnce
<1> DEFINE C == {i \in DOMAIN channel : channel[i] = r}
           M == {i \in DOMAIN mailbox : mailbox[i].op = "add" /\ mailbox[i].req = r}
           F == {i \in DOMAIN flushed : r \in flushed[i]}
           H == {s \in 1..3 : r \in <<buffer, out, buckets>>[s]}
<1>0. OnePlace(r) /\ NoTwice
  BY DEF PlacesInv
<1>1. /\ Cardinality(C) = IF C = {} THEN 0 ELSE 1
      /\ C # {} => InChannel(r)
  <2>1. \A x, y \in C : x = y
    BY <1>0 DEF NoTwice
  <2> HIDE DEF C
  <2>2. Cardinality(C) = IF C = {} THEN 0 ELSE 1
    BY <2>1, AtMostOneCard
  <2> QED
    BY <2>2 DEF C, InChannel, Has
<1>2. /\ Cardinality(M) = IF M = {} THEN 0 ELSE 1
      /\ M # {} => InMailbox(r)
  <2>0. \A i \in M : mailbox[i] = AddOf(r)
    <3>1. \A i \in DOMAIN mailbox : mailbox[i] \in Commands
      BY DEF TypeOK
    <3> QED
      BY <3>1, CommandTypes
  <2>1. \A x, y \in M : x = y
    BY <1>0, <2>0 DEF NoTwice
  <2>3. M # {} => InMailbox(r)
    BY <2>0 DEF InMailbox, Has
  <2> HIDE DEF M
  <2>2. Cardinality(M) = IF M = {} THEN 0 ELSE 1
    BY <2>1, AtMostOneCard
  <2> QED
    BY <2>2, <2>3
<1>3. /\ Cardinality(F) = IF F = {} THEN 0 ELSE 1
      /\ F # {} => InFlushed(r)
  <2>1. \A x, y \in F : x = y
    BY <1>0 DEF NoTwice
  <2>3. F # {} => InFlushed(r)
    BY DEF InFlushed
  <2> HIDE DEF F
  <2>2. Cardinality(F) = IF F = {} THEN 0 ELSE 1
    BY <2>1, AtMostOneCard
  <2> QED
    BY <2>2, <2>3
<1>4. /\ Cardinality(H) = IF H = {} THEN 0 ELSE 1
      /\ H # {} => r \in buffer \/ r \in out \/ r \in buckets
  <2>0. \A s \in H : \/ s = 1 /\ r \in buffer
                     \/ s = 2 /\ r \in out
                     \/ s = 3 /\ r \in buckets
    OBVIOUS
  <2>1. \A x, y \in H : x = y
    BY <1>0, <2>0 DEF OnePlace
  <2>3. H # {} => r \in buffer \/ r \in out \/ r \in buckets
    BY <2>0
  <2> HIDE DEF H
  <2>2. Cardinality(H) = IF H = {} THEN 0 ELSE 1
    BY <2>1, AtMostOneCard
  <2> QED
    BY <2>2, <2>3
<1> HIDE DEF C, M, F, H
<1>5. Cardinality(C) + Cardinality(M) + Cardinality(F) + Cardinality(H) <= 1
  BY <1>0, <1>1, <1>2, <1>3, <1>4 DEF OnePlace
<1> QED
  BY <1>5 DEF C, M, F, H

\* No stats go out twice, none that do not count go out, and after a shutdown in
\* which no task died all that count and were acknowledged have gone out.
THEOREM StatsFlushedExactlyOnce == Spec => []FlushedExactlyOnce
<1>1. IndInv => FlushedOnce
  BY CountedOnce DEF IndInv
<1>2. IndInv => NothingMissed
  <2> SUFFICES ASSUME IndInv, supervisor = "ok", died = {}, NEW r \in acked, Counted(r)
               PROVE  r \in ToSet(flushed)
    BY DEF NothingMissed
  <2>0. TypeOK /\ ControlInv /\ PlacesInv /\ FlusherEmpty /\ MailboxOK /\ Retained
    BY DEF IndInv, KeepInv
  <2>1. flusher = "exited" /\ force
    BY <2>0 DEF ControlInv, TasksOK
  <2>2. channel = <<>> /\ buffer = {} /\ out = {} /\ mailbox = <<>> /\ buckets = {}
    BY <2>0, <2>1 DEF FlusherEmpty, MailboxOK
  <2>3. Somewhere(r)
    BY <2>0 DEF Retained, TypeOK
  <2>4. InFlushed(r)
    BY <2>2, <2>3 DEF Somewhere, InChannel, InMailbox, Has
  <2> QED
    BY <2>4 DEF InFlushed, ToSet, Values
<1>3. IndInv => NothingRedundant
  <2> SUFFICES ASSUME IndInv, NEW i \in DOMAIN flushed, NEW r \in flushed[i]
               PROVE  Counted(r)
    BY DEF NothingRedundant, ToSet, Values
  <2>1. r \in Requests /\ InFlushed(r)
    BY DEF IndInv, TypeOK, InFlushed
  <2> QED
    BY <2>1 DEF IndInv, PlacesInv, Somewhere
<1>4. IndInv => FlushedExactlyOnce
  BY <1>1, <1>2, <1>3 DEF FlushedExactlyOnce
<1> QED
  BY <1>4, Invariance, PTL

=============================================================================
