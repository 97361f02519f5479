---------------------------- MODULE MCAgentConfig ----------------------------
(***************************************************************************)
(* Sources for the configuration: every field by itself, and the fields    *)
(* that depend on one another together.                                    *)
(***************************************************************************)
EXTENDS AgentConfig

Proxied == {"site", "proxy_https", "proxy_no_proxy"}

FieldGroups ==
  {{f} : f \in Fields} \cup
  {{"compression_level", "apm_config_compression_level"}, Proxied,
   {"api_key", "apm_features"}, {"site", "logs_config_logs_dd_url"}}

RawValues(f) ==
  CASE f \in {"dd_url", "url", "logs_config_logs_dd_url", "apm_dd_url"} ->
         {<<"str", "a/">>, <<"str", "https://a/">>, <<"str", "/">>, <<"str", "blank">>,
          <<"num", "a">>}
    [] f = "site" -> {<<"str", "datadoghq.com">>, <<"str", "a">>, <<"str", "blank">>}
    [] f = "proxy_https" -> {<<"str", "a">>, <<"num", "a">>}
    [] f = "proxy_no_proxy" ->
         {<<"str", "us3.datadoghq.com">>, <<"list", "a">>, <<"list", "blank">>}
    [] f \in {"env", "version"} ->
         {<<"num", "1.10">>, <<"str", "a">>, <<"str", "blank">>, <<"bool", "a">>}
    [] f \in Numbers -> {<<"num", "a">>, <<"num", "b">>, <<"num", "bad">>, <<"str", "a">>}
    [] f \in Bools -> {<<"bool", "a">>, <<"num", "b">>, <<"str", "bad">>, <<"list", "a">>}
    [] OTHER -> {<<"str", "a">>, <<"str", "bad">>, <<"str", "blank">>, <<"num", "a">>,
                 <<"list", "a">>, <<"map", "a">>, <<"list", "blank">>}

LegacyFields == {"env", "log_level"}

AmbientOf(group) ==
  [broken : IF group = {"api_key", "apm_features"} THEN BOOLEAN ELSE {FALSE},
   extYaml : IF group = {"service"} THEN {"absent", "a", "bad"} ELSE {"absent"},
   extEnv : IF group = {"service"} THEN {"absent", "b", "bad"} ELSE {"absent"},
   httpsProxy : IF group = Proxied THEN {None, "p"} ELSE {None},
   noProxy : IF group = Proxied THEN {None, "a", "us3.datadoghq.com"} ELSE {None}]

=============================================================================
