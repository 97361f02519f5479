-------------------------- MODULE MCMetricsFlusher --------------------------
(* Two calls that race for the API client, one with two batches of a kind,  *)
(* beside a call with nothing to flush.                                     *)
EXTENDS MetricsFlusher

Batches(s, d) == [k \in Kinds |-> IF k = "series" THEN s ELSE d]

MCCount ==
  [c \in {"c1", "c2", "c3"} |->
     CASE c = "c1" -> Batches(0, 2) [] c = "c2" -> Batches(1, 0) [] c = "c3" -> Batches(0, 0)]

=============================================================================
