---------------------------- MODULE MCKeyAndProxy ----------------------------
(***************************************************************************)
(* Two protocols that share nothing, explored side by side: the API key    *)
(* factory of MCApiKeyFactory and the forwarding of proxied requests.      *)
(* `kind` says which one moves, the other stays where it began.            *)
(*                                                                         *)
(* The proxy has a key for profiling and none for data streams, and a      *)
(* channel with one place for three requests.                              *)
(***************************************************************************)
EXTENDS MCApiKeyFactory, ProxyForwarding

VARIABLE kind

allVars == <<kind, vars, proxyVars>>

Header(says, length, text) == [says |-> says, length |-> length, text |-> text]

MCTargets ==
  {<<"POST", "/profiling/v1/input">>, <<"POST", "/v0.1/pipeline_stats">>, <<"GET", "/info">>}
MCHeaders == {Header("length", 2, TRUE), Header("length", 3, TRUE), Header("chunked", 0, FALSE)}
MCProxyKeys == {[k \in Kinds |-> IF k = "profiling" THEN "ok" ELSE "none"]}

BothInit == kind \in {"key", "proxy"} /\ Init /\ ProxyInit

BothNext ==
  \/ kind = "key" /\ MCNext /\ UNCHANGED <<kind, proxyVars>>
  \/ kind = "proxy" /\ ProxyNext /\ UNCHANGED <<kind, vars>>

ProxyStep(A) == kind = "proxy" /\ A /\ UNCHANGED <<kind, vars>>

\* The fairness of the two specifications, for the one that moves.
BothSpec ==
  /\ BothInit /\ [][BothNext]_allVars
  /\ \A p \in Procs : WF_allVars(kind = "key" /\ Step(p) /\ UNCHANGED <<kind, proxyVars>>)
  /\ WF_allVars(ProxyStep(SenderStep))
  /\ \A r \in Requests : WF_allVars(ProxyStep(SendAccepted(r)))

=============================================================================
