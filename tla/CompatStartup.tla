--------------------------- MODULE CompatStartup ---------------------------
(***************************************************************************)
(* How the compat agent comes up (crates/datadog-serverless-compat/src/    *)
(* main.rs) on the configuration and the checks of the trace agent         *)
(* (crates/datadog-trace-agent/src/config.rs, env_verifier.rs,             *)
(* peer_tags.rs, mini_agent.rs).                                           *)
(*                                                                         *)
(* main starts the trace mini agent as a task of its own and goes on; the  *)
(* task verifies the cloud environment first and may end the whole process *)
(* while main is still starting listeners.                                 *)
(***************************************************************************)
EXTENDS Integers, Sequences, SequencesExt

CONSTANT Environments  \* the environments the process may be started in

ASSUME CompatStartupAssumption ==
  \A e \in Environments :
    /\ e.port \in Int /\ e.files \subseteq Seq(STRING) \ {<<>>}
    /\ e.cloud \in {"none", "azure_function", "cloud_function", "spring", "lambda"}
    /\ {e.key, e.pipe, e.apmPipe, e.stats, e.dogstatsd} \subseteq BOOLEAN

VARIABLES
  env,      \* the environment, one of Environments
  pc,       \* where main is
  process,  \* "up", or why it is down
  config,   \* what Config::new made of the environment, or NoConfig
  up,       \* the tasks and listeners that were started
  udp,      \* the UDP port DogStatsD listens on, Off, or Refused when the bind failed
  mini      \* the mini agent task: where it is and the metadata it found

startupVars == <<env, pc, process, config, up, udp, mini>>

NoConfig == [loaded |-> FALSE]
Off == -1
Refused == -2
Ephemeral == 1     \* a port the kernel picks when asked for port 0
DefaultPort == 8125

-----------------------------------------------------------------------------
(* What the code computes.                                                 *)

ValidPort == env.port >= 0

\* decide_dogstatsd_port in main.rs.
DecideDogstatsdPort(hasPipe) ==
  IF ValidPort THEN env.port ELSE IF hasPipe THEN 0 ELSE DefaultPort

\* Mutant: a port that does not parse is reported as off.
ConfigDogstatsdPortStrict(hasPipe) ==
  IF ValidPort THEN env.port ELSE IF hasPipe \/ env.port = -2 THEN 0 ELSE DefaultPort

\* The copy of it in Config::new.
ConfigDogstatsdPort(hasPipe) ==
  IF ValidPort THEN env.port ELSE IF hasPipe THEN 0 ELSE DefaultPort

EnhancedMetrics == env.cloud = "azure_function" /\ env.enhanced

\* decide_metrics_components.
MetricsComponents ==
  LET instance == env.cloud = "azure_function"
  IN [aggregator |-> env.dogstatsd \/ instance \/ EnhancedMetrics,
      listener |-> env.dogstatsd, instance |-> instance, cpu |-> EnhancedMetrics]

\* parse_error_sampler_config: blank is unset, what is no finite number keeps
\* the default, the rest is the target.
ErrorTps == CASE env.errorTps \in {"unset", "blank", "not_finite"} -> "default"
              [] OTHER -> env.errorTps

\* error_rare_sample_tracer_drop_enabled.
RareSampleTracerDrop == "error_rare_sample_tracer_drop" \in env.features

\* additional_metric_tags and their limit are read only under the switch.
AdditionalTags == IF env.experimental THEN env.additionalTags ELSE {}

\* Tags::from_env_string and function_tags: words of exactly two parts.
FunctionTags == {t \in env.tags : t.parts = 2}

\* The URLs of the intakes are parsed with unwrap(): a site no URI can hold
\* panics unless both overrides replace it.
UrlsParse == env.site # "unparsable" \/ (env.apmUrl /\ env.profilingUrl)

\* Config::new.
ConfigFails == ~env.key \/ env.cloud = "none" \/ ~env.obfuscation
NewConfig ==
  [loaded |-> TRUE,
   statsdPort |-> ConfigDogstatsdPort(env.pipe),
   apmPipe |-> env.apmPipe,
   stats |-> env.stats,
   tags |-> FunctionTags,
   additionalTags |-> AdditionalTags,
   errorTps |-> ErrorTps,
   rareDrop |-> RareSampleTracerDrop]

\* What info_handler answers.
Info == [statsdPort |-> config.statsdPort, clientDropP0s |-> ~config.stats]

-----------------------------------------------------------------------------
(* main.                                                                   *)

StartupInit ==
  /\ env \in Environments
  /\ pc = "start"
  /\ process = "up"
  /\ config = NoConfig
  /\ up = {}
  /\ udp = Off
  /\ mini = [pc |-> "none", metadata |-> "none"]

Down(why) == process' = why /\ UNCHANGED <<pc, config, up, udp, mini>>
At(here) == process = "up" /\ pc = here /\ UNCHANGED env

\* read_cloud_env, then the log subscriber, whose filter is parsed with expect.
ReadEnvironment ==
  /\ At("start")
  /\ IF env.cloud = "none" THEN Down("unidentified")
     ELSE IF ~env.logLevel THEN Down("panicked")
          ELSE pc' = "logging" /\ UNCHANGED <<process, config, up, udp, mini>>

\* The metadata reporter is on its own from here.
SpawnMetadataReporter ==
  /\ At("logging")
  /\ up' = up \cup {"metadata"}
  /\ pc' = "config"
  /\ UNCHANGED <<process, config, udp, mini>>

LoadConfig ==
  /\ At("config")
  /\ IF ConfigFails THEN Down("refused")
     ELSE IF ~UrlsParse THEN Down("panicked")
          ELSE /\ config' = NewConfig
               /\ pc' = "agent"
               /\ UNCHANGED <<process, up, udp, mini>>

\* The concentrator service, if wanted, and the mini agent task.
SpawnMiniAgent ==
  /\ At("agent")
  /\ up' = up \cup (IF config.stats THEN {"concentrator"} ELSE {})
  /\ mini' = [mini EXCEPT !.pc = "verifying"]
  /\ pc' = "metrics"
  /\ UNCHANGED <<process, config, udp>>

\* start_aggregator: no flusher without a key, a client or an intake URL.
FlusherStarts == env.key /\ env.proxy # "bad" /\ env.site = "ok"
StartAggregator ==
  /\ At("metrics")
  /\ up' = up \cup (IF ~MetricsComponents.aggregator THEN {}
                    ELSE {"aggregator"} \cup (IF FlusherStarts THEN {"flusher"} ELSE {}))
  /\ pc' = "listener"
  /\ UNCHANGED <<process, config, udp, mini>>

\* start_dogstatsd_listener and DogStatsD::new: beside a pipe, port 0 leaves UDP
\* out and a failed bind is only logged; without a pipe a failed bind panics.
StartListener(binds) ==
  /\ At("listener")
  /\ LET port == DecideDogstatsdPort(env.pipe)
         bound == IF port = 0 THEN Ephemeral ELSE port
     IN CASE ~MetricsComponents.listener ->
               pc' = "collectors" /\ UNCHANGED <<process, config, up, udp, mini>>
          [] MetricsComponents.listener /\ env.pipe ->
               /\ up' = up \cup {"dogstatsd"}
               /\ udp' = IF port = 0 THEN Off ELSE IF binds THEN port ELSE Refused
               /\ pc' = "collectors"
               /\ UNCHANGED <<process, config, mini>>
          [] MetricsComponents.listener /\ ~env.pipe /\ binds ->
               /\ up' = up \cup {"dogstatsd"}
               /\ udp' = bound
               /\ pc' = "collectors"
               /\ UNCHANGED <<process, config, mini>>
          [] OTHER -> Down("panicked")

\* The collectors need a flusher; the instance one needs an instance id too.
StartCollectors ==
  /\ At("collectors")
  /\ up' = up \cup
       (IF "flusher" \notin up THEN {}
        ELSE (IF MetricsComponents.instance /\ env.instanceId THEN {"instance"} ELSE {})
             \cup (IF MetricsComponents.cpu THEN {"cpu"} ELSE {}))
  /\ pc' = "logs"
  /\ UNCHANGED <<process, config, udp, mini>>

\* start_log_agent: the aggregator service is spawned before the checks that may
\* still give up; the server binds in its own task and a failure is only logged.
StartLogAgent(binds) ==
  /\ At("logs")
  /\ up' = up \cup
       (IF ~env.logs \/ ~env.key THEN {}
        ELSE {"log_aggregator"} \cup
             (IF env.opw = "empty" THEN {}
              ELSE {"log_flusher"} \cup (IF binds THEN {"log_server"} ELSE {})))
  /\ pc' = "loop"
  /\ UNCHANGED <<process, config, udp, mini>>

-----------------------------------------------------------------------------
(* start_mini_agent, in its own task.                                      *)

MiniAt(here) == process = "up" /\ mini.pc = here /\ UNCHANGED <<env, pc, config, udp>>

\* get_function_root_files: the names in the root and in its directories; what
\* is in node_modules is not looked at.
FunctionRootFiles == {Last(path) : path \in {p \in env.files : Head(p) # "node_modules"}}

\* ensure_azure_function_environment.
AzureFunction == FunctionRootFiles \cap {"host.json", "function.json"} # {}

FlexWithoutResourceGroup == env.flex /\ ~env.resourceGroup

\* The reply of the metadata server, in time or not.  Only a server that is not
\* there, or says it is another, fails the check.
GcpReplies ==
  {"good", "odd_region", "unreadable", "timeout", "other_server", "unreachable"}
NotGcpFunction(reply) == reply \in {"other_server", "unreachable"}

\* get_region_from_gcp_region_string: four parts, or the region is unknown.
RegionKnown(reply) == reply = "good"

GcpMetadata(reply) ==
  IF reply \in {"unreadable", "timeout"} THEN "default"
  ELSE IF RegionKnown(reply) THEN "project_and_region" ELSE "project"

Verified(metadata) ==
  mini' = [pc |-> "binding", metadata |-> metadata] /\ UNCHANGED <<process, up>>
Exit == process' = "exited" /\ UNCHANGED <<mini, up>>

VerifyEnvironment(reply) ==
  /\ MiniAt("verifying")
  /\ CASE env.cloud = "azure_function" ->
            IF AzureFunction /\ ~FlexWithoutResourceGroup THEN Verified("default") ELSE Exit
       [] env.cloud = "cloud_function" ->
            IF NotGcpFunction(reply) THEN Exit ELSE Verified(GcpMetadata(reply))
       [] env.cloud = "spring" -> Verified("spring")
       [] env.cloud = "lambda" -> Verified("default")

\* The flushers are spawned, then the receiver binds: without a pipe a failure
\* ends the task, and only the task.
BindReceiver(binds) ==
  /\ MiniAt("binding")
  /\ up' = up \cup {"trace_flusher", "stats_flusher", "proxy_flusher"}
              \cup (IF binds THEN {"receiver"} ELSE {})
              \cup (IF config.apmPipe THEN {"receiver_pipe"} ELSE {})
  /\ mini' = [mini EXCEPT !.pc = IF binds \/ config.apmPipe THEN "serving" ELSE "failed"]
  /\ UNCHANGED process

Main ==
  \/ ReadEnvironment \/ SpawnMetadataReporter \/ LoadConfig \/ SpawnMiniAgent
  \/ StartAggregator
  \/ \E binds \in BOOLEAN : StartListener(binds) \/ StartLogAgent(binds)
  \/ StartCollectors

MiniAgentTask ==
  \/ \E reply \in GcpReplies : VerifyEnvironment(reply)
  \/ \E binds \in BOOLEAN : BindReceiver(binds)

StartupNext == Main \/ MiniAgentTask

StartupSpec == StartupInit /\ [][StartupNext]_startupVars

-----------------------------------------------------------------------------
(* Properties.                                                             *)

PastListener == pc \in {"collectors", "logs", "loop"}

\* What /info tells the tracers against what main set up, although the two sides
\* read the environment separately (config.rs, Config::new; main.rs).  Unsampled
\* traces are wanted exactly when a concentrator counts them.  Once main has been
\* at the listener, UDP listens on the port that /info names, and is off when it
\* names 0, with three exceptions and no other.  /info names a port although
\* nothing listens when DogStatsD is switched off, or when the bind failed beside a
\* pipe.  It names 0 although UDP listens when DD_DOGSTATSD_PORT is 0 without a
\* pipe: the kernel picks a port, for all that main.rs says "0 means UDP is off".
InfoTellsTheTruth ==
  mini.pc = "serving" =>
    /\ Info.clientDropP0s = ("concentrator" \notin up)
    /\ PastListener =>
         \/ ~env.dogstatsd /\ udp = Off
         \/ env.dogstatsd /\ Info.statsdPort # 0 /\ udp = Info.statsdPort
         \/ env.dogstatsd /\ Info.statsdPort # 0 /\ env.pipe /\ udp = Refused
         \/ env.dogstatsd /\ Info.statsdPort = 0 /\ udp = IF env.pipe THEN Off ELSE Ephemeral

\* Whatever listens or sends, the metadata reporter apart, belongs to a process
\* that found a key, a known cloud and a complete configuration: the later
\* tests for a missing key are never what keeps a listener down.  Traces are
\* taken only in an environment that passed its check, though main may have
\* opened every other listener before the check was over.
ListensOnlyWhenVerified ==
  /\ up \ {"metadata"} # {} => env.key /\ env.cloud # "none" /\ config.loaded
  /\ up \cap {"receiver", "receiver_pipe"} # {} /\ env.cloud = "azure_function" =>
       /\ \E path \in env.files :
            path[1] # "node_modules" /\ path[Len(path)] \in {"host.json", "function.json"}
       /\ env.flex => env.resourceGroup
  /\ mini.pc \in {"binding", "serving", "failed"} => mini.metadata # "none"

\* What /info announces is what startup set up, with the exceptions named there,
\* and nothing listens in a process that did not find its key, its cloud and its
\* configuration (main.rs, mini_agent.rs).
StartupConsistent == InfoTellsTheTruth /\ ListensOnlyWhenVerified

=============================================================================
