---------------------------- MODULE MCComponents ----------------------------
(***************************************************************************)
(* The components that work by themselves, each explored on its own small  *)
(* instance: `kind` says which one runs.  Each has its own variables, and  *)
(* they rest while another kind runs.                                      *)
(***************************************************************************)
EXTENDS
  MetricBatching, LogBatching, TraceBatching, CompatLoop, MetadataReporter, MockIntake,
  CompatStartup, ErrorSampler, MCAgentConfig, MetricParsing, MCMetricLines, TLC

VARIABLE kind

allVars ==
  <<kind, lineVars, metricVars, vars, traceVars, loopVars, reporterVars, intakeVars, startupVars,
    samplerVars, configVars>>

-----------------------------------------------------------------------------
(* The log accumulator: an entry is its size.                              *)

EntrySize(n) == n

-----------------------------------------------------------------------------
(* The error sampler: five signatures for a table that folds at two, with   *)
(* chunks the sampler has to leave alone beside chunks it scores.          *)

Hash == INSTANCE TraceSignature WITH Width <- 4, Offset <- 5, Prime <- 3, Hasher <- 7

Span(service, name, error, dm) ==
  [service |-> service, name |-> name, resource |-> 0, error |-> error,
   status |-> Hash!Absent, type |-> Hash!Absent, dm |-> dm]

Chunk(priority, spans, id, rate) ==
  [priority |-> priority, dm |-> "none", spans |-> spans, root |-> 1,
   id |-> id, rate |-> rate, sr |-> <<0, 1>>]

PlainError(n) == Chunk(0, <<Span(n, 0, 1, "none")>>, 1, <<1, 1>>)

ErrorPayloads ==
  {<<PlainError(n)>> : n \in 0 .. 3} \cup
  {<<PlainError(4),
     Chunk(-1, <<Span(2, 1, 1, "none"), Span(2, 2, 0, "manual")>>, 2, <<1, 2>>)>>,
   <<Chunk(-1, <<Span(1, 1, 1, "none")>>, 3, <<1, 2>>),
     Chunk(-128, <<Span(1, 1, 1, "none")>>, 3, <<0, 0>>),
     Chunk(1, <<Span(1, 1, 1, "none")>>, 2, <<1, 1>>),
     Chunk(0, <<Span(1, 1, 0, "none")>>, 2, <<1, 1>>)>>}

SignatureTable ==
  [s \in UNION {{p[i].spans : i \in DOMAIN p} : p \in ErrorPayloads} |->
     Hash!Signature(s, 1, 1)]
MCSignature(spans, root) == SignatureTable[spans]
MCSampled(id, rate) == Hash!SampleByRate(id, rate)

OneAndAFifth == <<6, 5>>

SamplerConfigs ==
  {[mode |-> "AlwaysKeep", target |-> <<1, 2>>, extra |-> <<1, 1>>, tracerDrop |-> TRUE],
   [mode |-> "RateLimited", target |-> <<1, 2>>, extra |-> <<1, 1>>, tracerDrop |-> TRUE],
   [mode |-> "RateLimited", target |-> <<0, 1>>, extra |-> <<1, 1>>, tracerDrop |-> TRUE],
   [mode |-> "RateLimited", target |-> <<-1, 2>>, extra |-> <<1, 1>>, tracerDrop |-> TRUE]}

-----------------------------------------------------------------------------
(* The mock intake: two connections, a stats payload whose groups differ in *)
(* the order of their tags, bodies over each of the limits.                *)

Request(endpoint, method, wire, encoding, size, decodes) ==
  [endpoint |-> endpoint, method |-> method, wire |-> wire, encoding |-> encoding,
   size |-> size, corrupt |-> FALSE, decodes |-> decodes, clients |-> <<>>]

Group(dims, tags, hits) == [dims |-> dims, tags |-> tags, hits |-> hits]

StatsClients ==
  <<[dims |-> 1, groups |-> <<Group(1, <<"a", "b">>, 1), Group(1, <<"b", "a">>, 2)>>],
    [dims |-> 2, groups |-> <<Group(1, <<"a", "b">>, 1), Group(2, <<>>, 3)>>]>>

IntakeRequests ==
  {[Request("stats", "POST", 1, "gzip", 2, TRUE) EXCEPT !.clients = StatsClients],
   Request("stats", "POST", 1, "other", 2, TRUE),
   Request("stats", "POST", 1, "gzip", 3, FALSE),
   Request("traces", "POST", 1, "identity", 1, TRUE),
   Request("traces", "POST", 2, "identity", 1, TRUE),
   Request("info", "GET", 1, "identity", 1, TRUE)}

-----------------------------------------------------------------------------
(* The loop with everything running and with nothing, and the reporter in   *)
(* environments that complete, that need the metadata server and that lack *)
(* something.                                                              *)

Parts(b) == [flusher |-> b, logs |-> b, instance |-> b, cpu |-> b]

LoopSetups == {Parts(TRUE), Parts(FALSE)}

Function ==
  [enabled |-> TRUE, type |-> "CloudFunction", key |-> TRUE, site |-> TRUE, proxy |-> TRUE,
   name |-> "n", region |-> "r", project |-> "unknown"]

ReporterPlatforms ==
  {Function, [Function EXCEPT !.region = "unknown", !.project = "p"],
   [Function EXCEPT !.type = "AzureFunction", !.project = "p"],
   [Function EXCEPT !.type = "AzureFunction"], [Function EXCEPT !.name = "unknown"],
   [Function EXCEPT !.proxy = FALSE], [Function EXCEPT !.key = FALSE],
   [Function EXCEPT !.site = FALSE], [Function EXCEPT !.enabled = FALSE]}

-----------------------------------------------------------------------------
(* Environments to start in: an Azure function with every port and pipe     *)
(* setting, the other clouds with and without a usable proxy, and what      *)
(* startup may refuse.                                                      *)

Azure ==
  [cloud |-> "azure_function", key |-> TRUE, logLevel |-> TRUE, obfuscation |-> TRUE,
   site |-> "ok", apmUrl |-> FALSE, profilingUrl |-> FALSE, port |-> -1, pipe |-> FALSE,
   apmPipe |-> FALSE, proxy |-> "none", dogstatsd |-> TRUE, enhanced |-> TRUE,
   instanceId |-> TRUE, logs |-> TRUE, opw |-> "off", stats |-> TRUE,
   experimental |-> FALSE, additionalTags |-> {"a"},
   tags |-> {[parts |-> 2], [parts |-> 3]}, errorTps |-> "5", features |-> {},
   files |-> {<<"f", "function.json">>, <<"f", "index.js">>}, flex |-> FALSE, resourceGroup |-> FALSE]

StartupEnvironments ==
  {[Azure EXCEPT !.port = p, !.pipe = b, !.apmPipe = b, !.stats = s] :
     p \in {-2, -1, 0, 8125, 9000}, b \in BOOLEAN, s \in BOOLEAN}
  \cup {[Azure EXCEPT !.cloud = c, !.proxy = p, !.logs = l] :
          c \in {"none", "cloud_function", "spring", "lambda"}, p \in {"none", "bad"},
          l \in BOOLEAN}
  \cup {[Azure EXCEPT !.key = FALSE], [Azure EXCEPT !.site = "odd"],
        [Azure EXCEPT !.site = "unparsable"],
        [Azure EXCEPT !.site = "unparsable", !.apmUrl = TRUE, !.profilingUrl = TRUE],
        [Azure EXCEPT !.logLevel = FALSE], [Azure EXCEPT !.obfuscation = FALSE],
        [Azure EXCEPT !.files = {<<"node_modules", "host.json">>}],
        [Azure EXCEPT !.files = {<<"host.json">>}], [Azure EXCEPT !.flex = TRUE],
        [Azure EXCEPT !.opw = "empty"], [Azure EXCEPT !.dogstatsd = FALSE],
        [Azure EXCEPT !.enhanced = FALSE, !.instanceId = FALSE],
        [Azure EXCEPT !.experimental = TRUE, !.errorTps = "blank",
                      !.features = {"error_rare_sample_tracer_drop"}]}

-----------------------------------------------------------------------------
(* One kind at a time.                                                     *)

\* The configuration while another component runs.
ConfigRests ==
  /\ input = <<>> /\ agentConfig = <<>> /\ failedSources = {} /\ building = "rests"

Kinds ==
  {"parsing", "metric batches", "log batches", "trace batches", "loop", "reporter", "mock",
   "startup", "sampler", "config"}

AllInit ==
  /\ kind \in Kinds
  /\ MetricInit /\ Init /\ TraceInit
  /\ LinesInit /\ (kind # "parsing" => namespace = <<>> /\ base = <<>> /\ lineTime = 9)
  /\ LoopInit /\ (kind # "loop" => setup = CHOOSE s \in LoopSetups : TRUE)
  /\ ReporterInit /\ (kind # "reporter" => platform = Function)
  /\ IntakeInit /\ (kind # "mock" => dumps = <<>>)
  /\ StartupInit /\ (kind # "startup" => env = Azure)
  /\ IF kind = "config" THEN ConfigInit ELSE ConfigRests
  /\ SamplerInit /\ (kind # "sampler" => settings = CHOOSE c \in SamplerConfigs : TRUE)

AllNext ==
  \/ /\ kind = "parsing" /\ LinesNext
     /\ UNCHANGED <<kind, metricVars, vars, traceVars, loopVars, reporterVars, intakeVars, startupVars,
                    samplerVars, configVars>>
  \/ /\ kind = "metric batches" /\ MetricNext
     /\ UNCHANGED <<kind, lineVars, vars, traceVars, loopVars, reporterVars, intakeVars, startupVars,
                    samplerVars, configVars>>
  \/ /\ kind = "log batches" /\ Next
     /\ UNCHANGED <<kind, lineVars, metricVars, traceVars, loopVars, reporterVars, intakeVars, startupVars,
                    samplerVars, configVars>>
  \/ /\ kind = "trace batches" /\ TraceNext
     /\ UNCHANGED <<kind, lineVars, metricVars, vars, loopVars, reporterVars, intakeVars, startupVars,
                    samplerVars, configVars>>
  \/ /\ kind = "loop" /\ LoopNext
     /\ UNCHANGED <<kind, lineVars, metricVars, vars, traceVars, reporterVars, intakeVars, startupVars,
                    samplerVars, configVars>>
  \/ /\ kind = "reporter" /\ ReporterNext
     /\ UNCHANGED <<kind, lineVars, metricVars, vars, traceVars, loopVars, intakeVars, startupVars,
                    samplerVars, configVars>>
  \/ /\ kind = "mock" /\ IntakeNext
     /\ UNCHANGED <<kind, lineVars, metricVars, vars, traceVars, loopVars, reporterVars, startupVars,
                    samplerVars, configVars>>
  \/ /\ kind = "startup" /\ StartupNext
     /\ UNCHANGED <<kind, lineVars, metricVars, vars, traceVars, loopVars, reporterVars, intakeVars,
                    samplerVars, configVars>>
  \/ /\ kind = "sampler" /\ SamplerNext
     /\ UNCHANGED <<kind, lineVars, metricVars, vars, traceVars, loopVars, reporterVars, intakeVars,
                    startupVars, configVars>>
  \/ /\ kind = "config" /\ ConfigNext
     /\ UNCHANGED <<kind, lineVars, metricVars, vars, traceVars, loopVars, reporterVars, intakeVars,
                    startupVars, samplerVars>>

AllSpec == AllInit /\ [][AllNext]_allVars

=============================================================================
