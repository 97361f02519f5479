---------------------------- MODULE AgentConfig ----------------------------
(***************************************************************************)
(* How the agent's configuration is put together                           *)
(* (crates/datadog-agent-config): the defaults, then datadog.yaml, then    *)
(* the environment, each source merged field by field, and at last the     *)
(* values that depend on other values (ConfigBuilder::build).              *)
(*                                                                         *)
(* What a source says of a field is a pair <<type, text>>: the type the    *)
(* parser of the source gave it ("str", "num", "bool", "list", "map") and  *)
(* one of a few texts; "blank" is an empty text, list or map, "bad" cannot *)
(* be read as what the field wants.  A parsed value is the text, None for  *)
(* an Option that is None, Empty for an empty string, list or map.         *)
(***************************************************************************)
EXTENDS Functions

CONSTANTS
  Groups,      \* sets of fields that the sources speak of at the same time
  Raws(_),     \* what a source may say of a field
  Legacy,      \* the fields that are also tried under the prefix DATADOG_
  Ambient(_)   \* what else there is with a group: is the file broken, what the
               \* two sources say of the extension, HTTPS_PROXY and NO_PROXY

VARIABLES
  input,          \* [yaml, datadog, dd, broken, extYaml, extEnv, httpsProxy, noProxy]
  agentConfig,    \* the configuration, field -> value
  failedSources,  \* the sources that failed to load
  building        \* the next step of build

configVars == <<input, agentConfig, failedSources, building>>

None == "none"
Empty == "empty"
Fail == "fail"

\* No text is one of the marks.
ASSUME AgentConfigAssumption ==
  \A F \in Groups : \A f \in F : \A raw \in Raws(f) : raw[2] \notin {None, Empty, Fail}

-----------------------------------------------------------------------------
(* The fields, by the type they have in Config.                            *)

Strings ==
  {"site", "api_key", "dd_org_uuid", "dd_url", "url", "additional_endpoints_secret_arn",
   "logs_config_logs_dd_url", "logs_config_additional_endpoints_secret_arn",
   "observability_pipelines_worker_logs_url", "apm_dd_url",
   "apm_additional_endpoints_secret_arn"}

Options ==
  {"proxy_https", "http_protocol", "tls_cert_file", "env", "service", "version",
   "logs_config_processing_rules", "apm_replace_tags", "apm_filter_tags_require",
   "apm_filter_tags_reject", "apm_filter_tags_regex_require",
   "apm_filter_tags_regex_reject", "statsd_metric_namespace", "dogstatsd_so_rcvbuf",
   "dogstatsd_buffer_size", "dogstatsd_queue_size"}

OtlpOptions ==
  {"otlp_config_receiver_protocols_http_endpoint",
   "otlp_config_receiver_protocols_grpc_endpoint",
   "otlp_config_receiver_protocols_grpc_transport",
   "otlp_config_receiver_protocols_grpc_max_recv_msg_size_mib",
   "otlp_config_metrics_tag_cardinality", "otlp_config_metrics_delta_ttl",
   "otlp_config_metrics_histograms_mode",
   "otlp_config_metrics_sums_cumulative_monotonic_mode",
   "otlp_config_metrics_sums_initial_cumulativ_monotonic_value",
   "otlp_config_metrics_summaries_mode",
   "otlp_config_traces_probabilistic_sampler_sampling_percentage"}

CompressionLevels ==
  {"logs_config_compression_level", "apm_config_compression_level",
   "metrics_config_compression_level"}

Values ==
  CompressionLevels \cup
  {"log_level", "flush_timeout", "compression_level", "skip_ssl_validation",
   "logs_enabled", "logs_config_use_compression",
   "observability_pipelines_worker_logs_enabled",
   "apm_config_obfuscation_http_remove_query_string",
   "apm_config_obfuscation_http_remove_paths_with_digits",
   "trace_propagation_extract_first", "trace_propagation_http_baggage_enabled",
   "trace_aws_service_representation_enabled"}

OtlpValues ==
  {"otlp_config_traces_enabled", "otlp_config_traces_span_name_as_resource_name",
   "otlp_config_ignore_missing_datadog_fields", "otlp_config_metrics_enabled",
   "otlp_config_metrics_resource_attributes_as_tags",
   "otlp_config_metrics_instrumentation_scope_metadata_as_tags",
   "otlp_config_metrics_histograms_send_count_sum_metrics",
   "otlp_config_metrics_histograms_send_aggregation_metrics", "otlp_config_logs_enabled"}

Collections ==
  {"proxy_no_proxy", "additional_endpoints", "tags", "logs_config_additional_endpoints",
   "service_mapping", "apm_features", "apm_additional_endpoints",
   "trace_propagation_style", "trace_propagation_style_extract",
   "otlp_config_traces_span_name_remappings"}

Fields == Strings \cup Options \cup OtlpOptions \cup Values \cup OtlpValues \cup Collections

Default ==
  [f \in Fields \cup {"ext"} |->
     CASE f \in Options \cup OtlpOptions -> None
       [] f \in Values \cup OtlpValues -> "default"
       [] f = "trace_propagation_style" -> "default"
       [] f \in Strings \cup Collections -> Empty
       [] f = "ext" -> "default"]

-----------------------------------------------------------------------------
(* The deserializers: what is made of a raw value.                         *)

Type(raw) == raw[1]
Text(raw) == raw[2]

OptionalString(raw) ==
  IF Type(raw) # "str" THEN None ELSE IF Text(raw) = "blank" THEN Empty ELSE Text(raw)

\* A number is printed anew: the version 1.10 becomes the text 1.1.
StringOrInt(raw) ==
  IF Type(raw) \notin {"str", "num"} \/ Text(raw) = "blank" THEN None
  ELSE IF raw = <<"num", "1.10">> THEN "1.1" ELSE Text(raw)

OptionalBool(raw) ==
  IF Type(raw) \in {"list", "map"} \/ Text(raw) \in {"blank", "bad"} THEN None ELSE Text(raw)

OptionLossless(raw) ==
  IF Type(raw) # "num" \/ Text(raw) = "bad" THEN None ELSE Text(raw)

\* Never None: what is no level is Warn, the default.
LogLevel(raw) ==
  IF Type(raw) # "str" \/ Text(raw) \in {"blank", "bad"} THEN "default" ELSE Text(raw)

\* Pairs that are not key:value are left out.  The visitor takes texts, numbers
\* and booleans: a list or a map fails the extraction.
KeyValuePairs(raw) ==
  IF Type(raw) \in {"list", "map"} THEN Fail
  ELSE IF Type(raw) # "str" \/ Text(raw) \in {"blank", "bad"} THEN Empty ELSE Text(raw)

\* Only a list, in YAML.
KeyValueArray(raw) ==
  IF Type(raw) # "list" \/ Text(raw) \in {"blank", "bad"} THEN Empty ELSE Text(raw)

\* String::deserialize with `?`: anything but a text fails the extraction.
CommaSeparated(raw) ==
  IF Type(raw) # "str" THEN Fail ELSE IF Text(raw) = "blank" THEN Empty ELSE Text(raw)

CommaThenSpace(raw) == CommaSeparated(raw)

CommaThenSpaceOrList(raw) ==
  IF Type(raw) \notin {"str", "list"} \/ Text(raw) = "blank"
     \/ (Type(raw) = "list" /\ Text(raw) = "bad")
  THEN Empty ELSE Text(raw)

\* Option<String> with `?`; only separators is None.
FilterTags(raw) ==
  IF Type(raw) # "str" THEN Fail
  ELSE IF Text(raw) \in {"blank", "bad"} THEN None ELSE Text(raw)

\* A map in YAML, a JSON text in the environment.
AdditionalEndpoints(raw) ==
  IF Type(raw) \notin {"str", "map"} \/ Text(raw) \in {"blank", "bad"} THEN Empty ELSE Text(raw)

\* A JSON text only.
LogsAdditionalEndpoints(raw) ==
  IF Type(raw) # "str" \/ Text(raw) \in {"blank", "bad"} THEN Empty ELSE Text(raw)

ProcessingRules(raw) ==
  IF Type(raw) \notin {"str", "list"} \/ Text(raw) \in {"blank", "bad"} THEN None ELSE Text(raw)

\* An empty list is a list of no rules.
ReplaceRules(raw) ==
  IF raw = <<"list", "blank">> THEN Empty
  ELSE IF Type(raw) \notin {"str", "list"} \/ Text(raw) \in {"blank", "bad"} THEN None
  ELSE Text(raw)

ServiceMapping(raw) ==
  IF Type(raw) # "str" \/ Text(raw) \in {"blank", "bad"} THEN Empty ELSE Text(raw)

PropagationStyle(raw) ==
  IF Type(raw) # "str" \/ Text(raw) \in {"blank", "bad"} THEN Empty ELSE Text(raw)

\* deserialize_with_default: what has not the type asked for is the default.
WithDefault(raw, type, default) ==
  IF Type(raw) # type \/ (type # "str" /\ Text(raw) = "bad") THEN default
  ELSE IF Text(raw) = "blank" THEN Empty ELSE Text(raw)

-----------------------------------------------------------------------------
(* The two sources: which deserializer each field has.                     *)

Numbers ==
  CompressionLevels \cup
  {"flush_timeout", "compression_level", "dogstatsd_so_rcvbuf", "dogstatsd_buffer_size",
   "dogstatsd_queue_size", "otlp_config_receiver_protocols_grpc_max_recv_msg_size_mib",
   "otlp_config_metrics_delta_ttl",
   "otlp_config_traces_probabilistic_sampler_sampling_percentage"}

Bools == (Values \cup OtlpValues) \ (Numbers \cup {"log_level"})

\* The general part, the proxy, the endpoints and the tags of EnvConfig.
EnvCore(f, raw) ==
  CASE f = "log_level" -> LogLevel(raw)
    [] f = "proxy_no_proxy" -> CommaSeparated(raw)
    [] f = "additional_endpoints" -> AdditionalEndpoints(raw)
    [] f \in {"env", "service", "version"} -> StringOrInt(raw)
    [] f = "tags" -> KeyValuePairs(raw)
    [] OTHER -> OptionalString(raw)

\* The logs and APM parts.
EnvLogsApm(f, raw) ==
  CASE f = "logs_config_processing_rules" -> ProcessingRules(raw)
    [] f = "logs_config_additional_endpoints" -> LogsAdditionalEndpoints(raw)
    [] f = "service_mapping" -> ServiceMapping(raw)
    [] f = "apm_replace_tags" -> ReplaceRules(raw)
    [] f = "apm_features" -> CommaThenSpace(raw)
    [] f = "apm_additional_endpoints" -> AdditionalEndpoints(raw)
    [] f \in {"apm_filter_tags_require", "apm_filter_tags_reject",
              "apm_filter_tags_regex_require", "apm_filter_tags_regex_reject"}
         -> FilterTags(raw)
    [] f \in {"trace_propagation_style", "trace_propagation_style_extract"}
         -> PropagationStyle(raw)
    [] OTHER -> OptionalString(raw)

\* The OTLP part.
EnvOtlp(f, raw) ==
  IF f = "otlp_config_traces_span_name_remappings" THEN KeyValuePairs(raw)
  ELSE OptionalString(raw)

Otlp == OtlpOptions \cup OtlpValues \cup {"otlp_config_traces_span_name_remappings"}
LogsApm ==
  {"logs_config_processing_rules", "logs_config_additional_endpoints",
   "logs_config_logs_dd_url", "logs_config_additional_endpoints_secret_arn",
   "observability_pipelines_worker_logs_url", "service_mapping", "apm_dd_url",
   "apm_replace_tags", "apm_features", "apm_additional_endpoints",
   "apm_additional_endpoints_secret_arn", "apm_filter_tags_require",
   "apm_filter_tags_reject", "apm_filter_tags_regex_require",
   "apm_filter_tags_regex_reject", "trace_propagation_style",
   "trace_propagation_style_extract"}

EnvParse(f, raw) ==
  CASE f \in Numbers -> OptionLossless(raw)
    [] f \in Bools -> OptionalBool(raw)
    [] f \in Otlp \ (Numbers \cup Bools) -> EnvOtlp(f, raw)
    [] f \in LogsApm -> EnvLogsApm(f, raw)
    [] OTHER -> EnvCore(f, raw)

\* What datadog.yaml can say at its top level.
YamlTop(f, raw) ==
  CASE f = "log_level" -> LogLevel(raw)
    [] f = "additional_endpoints" -> AdditionalEndpoints(raw)
    [] f \in {"env", "service", "version"} -> StringOrInt(raw)
    [] f = "tags" -> KeyValueArray(raw)
    [] f = "service_mapping" -> ServiceMapping(raw)
    [] f \in {"trace_propagation_style", "trace_propagation_style_extract"}
         -> PropagationStyle(raw)
    [] OTHER -> OptionalString(raw)

\* The sections proxy, logs_config and apm_config.
YamlSection(f, raw) ==
  CASE f = "proxy_no_proxy" -> WithDefault(raw, "list", None)
    [] f = "logs_config_additional_endpoints" -> WithDefault(raw, "list", Empty)
    [] f = "logs_config_processing_rules" -> ProcessingRules(raw)
    [] f = "apm_replace_tags" -> ReplaceRules(raw)
    [] f = "apm_features" -> CommaThenSpaceOrList(raw)
    [] f = "apm_additional_endpoints" -> AdditionalEndpoints(raw)
    [] OTHER -> WithDefault(raw, "str", None)

\* The section otlp_config.
YamlOtlp(f, raw) ==
  IF f = "otlp_config_traces_span_name_remappings" THEN WithDefault(raw, "map", Empty)
  ELSE WithDefault(raw, "str", None)

InSections ==
  {"proxy_https", "proxy_no_proxy", "logs_config_logs_dd_url",
   "logs_config_processing_rules", "logs_config_additional_endpoints", "apm_dd_url",
   "apm_replace_tags", "apm_features", "apm_additional_endpoints"}

\* Fields datadog.yaml has no key for.
NotInYaml ==
  {"url", "additional_endpoints_secret_arn", "logs_config_additional_endpoints_secret_arn",
   "apm_additional_endpoints_secret_arn", "observability_pipelines_worker_logs_enabled",
   "observability_pipelines_worker_logs_url", "apm_filter_tags_require",
   "apm_filter_tags_reject", "apm_filter_tags_regex_require",
   "apm_filter_tags_regex_reject", "statsd_metric_namespace"}

YamlParse(f, raw) ==
  CASE f \in Numbers -> OptionLossless(raw)
    [] f \in Bools -> OptionalBool(raw)
    [] f \in Otlp \ (Numbers \cup Bools) -> YamlOtlp(f, raw)
    [] f \in InSections -> YamlSection(f, raw)
    [] OTHER -> YamlTop(f, raw)

-----------------------------------------------------------------------------
(* Merging a parsed source into the configuration.                         *)

MergeString(old, new) == IF new = None THEN old ELSE new
MergeOption(old, new) == IF new = None THEN old ELSE new
MergeOptionToValue(old, new) == IF new = None THEN old ELSE new
MergeVec(old, new) == IF new = Empty THEN old ELSE new
MergeHashmap(old, new) == IF new = Empty THEN old ELSE new

\* A namespace that is no metric namespace unsets the field.
MergeNamespace(old, new) ==
  IF new = None THEN old ELSE IF new \in {Empty, "bad"} THEN None ELSE new

Vecs ==
  {"proxy_no_proxy", "logs_config_additional_endpoints", "apm_features",
   "trace_propagation_style", "trace_propagation_style_extract"}

\* Mutant: the global compression level is merged after the component's own.
MergeLevelGlobalLast(c, src, f) ==
  MergeOptionToValue(
    MergeOptionToValue(c[f], IF f \in DOMAIN src THEN src[f] ELSE None),
    IF "compression_level" \in DOMAIN src THEN src["compression_level"] ELSE None)

\* The global compression level goes first, the component's own after it.
MergeLevel(c, src, f) ==
  MergeOptionToValue(
    MergeOptionToValue(c[f], IF "compression_level" \in DOMAIN src
                             THEN src["compression_level"] ELSE None),
    IF f \in DOMAIN src THEN src[f] ELSE None)

MergeField(c, src, f) ==
  IF f \in CompressionLevels THEN MergeLevel(c, src, f)
  ELSE IF f \notin DOMAIN src THEN c[f]
  ELSE CASE f \in Strings -> MergeString(c[f], src[f])
         [] f = "statsd_metric_namespace" -> MergeNamespace(c[f], src[f])
         [] f \in Values \cup OtlpValues -> MergeOptionToValue(c[f], src[f])
         [] f \in Vecs -> MergeVec(c[f], src[f])
         [] f \in Collections \ Vecs -> MergeHashmap(c[f], src[f])
         [] OTHER -> MergeOption(c[f], src[f])

EnvMerge(c, src) == [f \in DOMAIN c |-> IF f = "ext" THEN c[f] ELSE MergeField(c, src, f)]

\* proxy.no_proxy is an Option in YAML: an empty list overrides.
YamlMerge(c, src) ==
  [f \in DOMAIN c |->
     CASE f = "ext" -> c[f]
       [] f = "proxy_no_proxy" /\ f \in DOMAIN src -> MergeOptionToValue(c[f], src[f])
       [] OTHER -> MergeField(c, src, f)]

\* The extension is extracted by itself after the core; a failure is a warning.
MergeExt(c, value) ==
  IF value \in {"absent", "bad"} THEN c ELSE [c EXCEPT !["ext"] = value]

-----------------------------------------------------------------------------
(* build.                                                                  *)

\* What one source may say of the fields F: nothing or one raw value of each.
Sayings(F) ==
  {s \in UNION {[G -> UNION {Raws(f) : f \in G}] : G \in SUBSET F} :
     \A f \in DOMAIN s : s[f] \in Raws(f)}

ConfigInit ==
  /\ \E F \in Groups :
       \E y, e \in Sayings(F), d \in Sayings(F \cap Legacy), a \in Ambient(F) :
         input = [yaml |-> y, datadog |-> d, dd |-> e, broken |-> a.broken,
                  extYaml |-> a.extYaml, extEnv |-> a.extEnv,
                  httpsProxy |-> a.httpsProxy, noProxy |-> a.noProxy]
  /\ agentConfig = Default
  /\ failedSources = {}
  /\ building = "yaml"

YamlParsed ==
  [f \in DOMAIN input.yaml \ NotInYaml |-> YamlParse(f, input.yaml[f])]

LoadYaml ==
  /\ building = "yaml"
  /\ building' = "env"
  /\ IF input.broken
     THEN failedSources' = failedSources \cup {"yaml"} /\ UNCHANGED agentConfig
     ELSE /\ agentConfig' = MergeExt(YamlMerge(agentConfig, YamlParsed), input.extYaml)
          /\ UNCHANGED failedSources
  /\ UNCHANGED input

\* DD_ over DATADOG_, key by key.  One field that fails, and the source is
\* left out, the extension with it.
EnvRaw ==
  [f \in DOMAIN input.dd \cup DOMAIN input.datadog |->
     IF f \in DOMAIN input.dd THEN input.dd[f] ELSE input.datadog[f]]
EnvParsed == [f \in DOMAIN EnvRaw |-> EnvParse(f, EnvRaw[f])]

LoadEnv ==
  /\ building = "env"
  /\ building' = "resolve"
  /\ IF Fail \in Range(EnvParsed)
     THEN failedSources' = failedSources \cup {"env"} /\ UNCHANGED agentConfig
     ELSE /\ agentConfig' = MergeExt(EnvMerge(agentConfig, EnvParsed), input.extEnv)
          /\ UNCHANGED failedSources
  /\ UNCHANGED input

\* No slash is left at the end; a text of slashes is left empty.
TrimUrl(v) ==
  CASE v = "a/" -> "a"
    [] v = "https://a/" -> "https://a"
    [] v = "/" -> Empty
    [] OTHER -> v
BuildFqdnLogs(site) == <<"https://http-intake.logs.", site>>
LogsIntakeUrl(v) == IF v \in {Empty, "https://a"} THEN <<v>> ELSE <<"https://", v>>
TraceIntakeUrl(site) == <<"https://trace.agent.", site>>
TraceIntakeUrlPrefixed(v) == <<v, "/api/v0.2/traces">>

\* String::contains: a list that names a subdomain of the site contains the site.
ContainsSite(text, site) ==
  text = site \/ (text = "us3.datadoghq.com" /\ site = "datadoghq.com")

ListedSite(site) ==
  \E t \in {input.noProxy, agentConfig["proxy_no_proxy"]} : ContainsSite(t, site)
Proxy == IF agentConfig["proxy_https"] = None /\ input.httpsProxy # None
         THEN input.httpsProxy ELSE agentConfig["proxy_https"]

\* Mutant: the lists are consulted before HTTPS_PROXY is.
ResolveProxyListFirst(site) ==
  IF ListedSite(site) /\ agentConfig["proxy_https"] # None THEN None ELSE Proxy

\* HTTPS_PROXY fills in a missing proxy, then NO_PROXY or the list unsets it.
ResolveProxy(site) == IF ListedSite(site) THEN None ELSE Proxy

\* The values that depend on others, in the order of the code: the site before
\* the proxy and the URLs, HTTPS_PROXY before NO_PROXY.
Resolve ==
  LET site == IF agentConfig["site"] = Empty THEN "datadoghq.com" ELSE agentConfig["site"]
      style == agentConfig["trace_propagation_style_extract"]
      logs == agentConfig["logs_config_logs_dd_url"]
      apm == agentConfig["apm_dd_url"]
  IN /\ building = "resolve"
     /\ building' = "done"
     /\ agentConfig' =
          [agentConfig EXCEPT
             !["site"] = site,
             !["proxy_https"] = ResolveProxy(site),
             !["trace_propagation_style_extract"] =
                IF style = Empty THEN agentConfig["trace_propagation_style"] ELSE style,
             !["dd_url"] = TrimUrl(@),
             !["url"] = TrimUrl(@),
             !["logs_config_logs_dd_url"] =
                IF logs = Empty THEN BuildFqdnLogs(site) ELSE LogsIntakeUrl(TrimUrl(logs)),
             !["apm_dd_url"] =
                IF apm = Empty THEN TraceIntakeUrl(site)
                ELSE TraceIntakeUrlPrefixed(TrimUrl(apm))]
     /\ UNCHANGED <<input, failedSources>>

ConfigNext == LoadYaml \/ LoadEnv \/ Resolve

ConfigSpec == ConfigInit /\ [][ConfigNext]_configVars

-----------------------------------------------------------------------------
(* Properties.                                                             *)

\* A value of the environment that its field's deserializer hands back as an
\* error, and with it the whole environment.
FailsAll(f, raw) ==
  \/ /\ f \in {"proxy_no_proxy", "apm_features", "apm_filter_tags_require",
               "apm_filter_tags_reject", "apm_filter_tags_regex_require",
               "apm_filter_tags_regex_reject"}
     /\ Type(raw) # "str"
  \/ /\ f \in {"tags", "otlp_config_traces_span_name_remappings"}
     /\ Type(raw) \in {"list", "map"}

\* What a source has to say on a field: nothing that the merge would not take.
\* An empty text says something of a text, an empty list or map says nothing.
Says(parsed, f) ==
  f \in DOMAIN parsed /\ parsed[f] # None /\ (f \in Collections => parsed[f] # Empty)

ExtSays(value) == value \notin {"absent", "bad"}

\* What the two sources contribute.
FromYaml == IF input.broken THEN <<>> ELSE YamlParsed
EnvBroken == \E f \in DOMAIN EnvRaw : FailsAll(f, EnvRaw[f])
FromEnv == IF EnvBroken THEN <<>> ELSE EnvParsed

\* Says that a value which cannot be used still counts: a log level that is none
\* is Warn (LogLevel), and takes the place of the level of datadog.yaml.  For the
\* namespace the environment is the only source, and what is no namespace is None.
Namespace ==
  LET f == "statsd_metric_namespace"
  IN IF Says(FromEnv, f) /\ FromEnv[f] \notin {Empty, "bad"} THEN FromEnv[f] ELSE None

\* The compression level of a component is its own, of the environment or else of
\* datadog.yaml; where neither source gives one it is the global level, of the
\* environment or else of datadog.yaml.  Nothing is said where the component has
\* its level from datadog.yaml and the environment has a global one.
LevelSound(f) ==
  LET global == "compression_level"
      first(g) == IF Says(FromEnv, g) THEN FromEnv[g]
                  ELSE IF Says(FromYaml, g) THEN FromYaml[g] ELSE Default[f]
      own == Says(FromEnv, f) \/ Says(FromYaml, f)
  IN Says(FromEnv, f) \/ ~(Says(FromYaml, f) /\ Says(FromEnv, global)) =>
       agentConfig[f] = IF own THEN first(f) ELSE first(global)

\* Before the derived values are filled in, every field has the environment's
\* value where that says something, else the one of datadog.yaml, else the
\* default.  A value that cannot be read says nothing, and so costs its field
\* alone, but for the log level and the namespace.  Nothing is said of an
\* environment with a value that fails as a whole (see OneFieldCostsNoOther).
Precedence ==
  building = "resolve" /\ ~EnvBroken =>
    /\ \A f \in Fields \ (CompressionLevels \cup {"statsd_metric_namespace"}) :
         agentConfig[f] = IF Says(FromEnv, f) THEN FromEnv[f]
                          ELSE IF Says(FromYaml, f) THEN FromYaml[f] ELSE Default[f]
    /\ \A f \in CompressionLevels : LevelSound(f)
    /\ agentConfig["statsd_metric_namespace"] = Namespace
    /\ failedSources = IF input.broken THEN {"yaml"} ELSE {}
    /\ agentConfig["ext"] =
         IF ExtSays(input.extEnv) THEN input.extEnv
         ELSE IF ~input.broken /\ ExtSays(input.extYaml) THEN input.extYaml ELSE Default["ext"]

\* "no single field should crash the whole config" (env.rs, a test): what the
\* environment says of a field is taken, whatever it says of the others.
OneFieldCostsNoOther ==
  building = "resolve" =>
    \A f \in DOMAIN EnvRaw \ {"statsd_metric_namespace"} :
      EnvParsed[f] \notin {Fail, None, Empty} => agentConfig[f] = EnvParsed[f]

\* Whichever source the proxy and the list come from, HTTPS_PROXY and NO_PROXY
\* included, the site is not reached through a proxy when a list names it; and a
\* proxy that some source gives is used when none does.  Nothing is said of an
\* environment that fails as a whole.
NoProxyHonoured ==
  LET listed == \E t \in {input.noProxy, agentConfig["proxy_no_proxy"]} :
                  ContainsSite(t, agentConfig["site"])
      given == \/ input.httpsProxy # None
               \/ Says(FromEnv, "proxy_https")
               \/ Says(FromYaml, "proxy_https")
  IN building = "done" /\ ~EnvBroken => (agentConfig["proxy_https"] = None <=> (listed \/ ~given))

\* Both: every field comes from the environment, else from datadog.yaml, else is
\* the default, with the exceptions Precedence names; a proxy is used when one is
\* given and no list of exceptions names the site (datadog-agent-config, lib.rs,
\* yaml.rs and env.rs).
ConfigurationSound == Precedence /\ NoProxyHonoured

=============================================================================
