-------------------------- MODULE MCMetricParsing --------------------------
(* MetricParsing on the lines of MCMetricLines.                             *)
EXTENDS MetricParsing, MCMetricLines
=============================================================================
