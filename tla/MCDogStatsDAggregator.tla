------------------------ MODULE MCDogStatsDAggregator ------------------------
(***************************************************************************)
(* The two ends of metric intake side by side: the DogStatsD server of     *)
(* MCDogStatsD, and the aggregator service its insertions end in; and the  *)
(* control of the server once more, under traffic without an end.  `kind`  *)
(* says which one moves, the others stay where they began: what the server *)
(* hands over is any of the batches the aggregator takes.                  *)
(*                                                                         *)
(* The aggregator has three contexts for two places in the map: "a" is     *)
(* used with two kinds of sample, "b" is a plain count, "c" a gauge whose  *)
(* points cannot be serialized.                                            *)
(***************************************************************************)
EXTENDS MCDogStatsD, MetricsAggregator, DogStatsDTraffic

VARIABLE kind

allVars == <<kind, vars, aggregatorVars, trafficVars>>

MCSamples == 1..6
MCContext == <<"a", "a", "b", "b", "c", "c">>
MCKind == <<"count", "distribution", "count", "count", "gauge", "gauge">>
MCContexts == {"a", "b", "c"}
MCSize == [a |-> 3, b |-> 2, c |-> 0]
MCBatches == {<<3, 1>>, <<2, 5>>, <<6, 4>>}

IntakeInit ==
  /\ kind \in {"server", "aggregator", "traffic"}
  /\ Init /\ AggregatorInit /\ TrafficInit

ServerStep(A)     == kind = "server" /\ A /\ UNCHANGED <<kind, aggregatorVars, trafficVars>>
AggregatorStep(A) == kind = "aggregator" /\ A /\ UNCHANGED <<kind, vars, trafficVars>>
TrafficStep(A)    == kind = "traffic" /\ A /\ UNCHANGED <<kind, vars, aggregatorVars>>

IntakeNext ==
  ServerStep(Next) \/ AggregatorStep(AggregatorNext) \/ TrafficStep(TrafficNext)

\* The fairness of the three specifications, for the one that moves.
IntakeSpec ==
  /\ IntakeInit /\ [][IntakeNext]_allVars
  /\ WF_allVars(ServerStep(Reader)) /\ WF_allVars(ServerStep(Processor))
  /\ WF_allVars(AggregatorStep(Service))
  /\ WF_allVars(TrafficStep(ReadLoop)) /\ WF_allVars(TrafficStep(ProcessLoop))

=============================================================================
