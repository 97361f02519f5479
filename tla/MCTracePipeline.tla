-------------------------- MODULE MCTracePipeline --------------------------
(***************************************************************************)
(* TracePipeline with four requests: one refused, one that cannot be       *)
(* decoded, one small and one that is split.                               *)
(***************************************************************************)
EXTENDS TracePipeline, TLC

CONSTANTS refused, bad, small, large

MCPayload == (refused :> <<>> @@ bad :> <<>> @@ small :> <<1>> @@ large :> <<5, 5, 5>>)
MCVerdict == (refused :> "refused" @@ bad :> "bad" @@ small :> "good" @@ large :> "good")

=============================================================================
