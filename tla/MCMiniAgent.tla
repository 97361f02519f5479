---------------------------- MODULE MCMiniAgent ----------------------------
(***************************************************************************)
(* MiniAgent with two transports, two requests with stats and one with     *)
(* traces, on a channel of one place.                                      *)
(***************************************************************************)
EXTENDS MiniAgent, TLC

CONSTANTS s1, s2, t1, tcp, pipe

MCKind == (s1 :> "stats" @@ s2 :> "stats" @@ t1 :> "trace")
MCVia == (s1 :> tcp @@ s2 :> pipe @@ t1 :> tcp)

=============================================================================
