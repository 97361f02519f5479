--------------------------- MODULE BatchContents ---------------------------
(***************************************************************************)
(* What batches hold together: the sum of sizes and the concatenation of   *)
(* sequences, which the specifications of the batching algorithms speak    *)
(* about.                                                                  *)
(***************************************************************************)
EXTENDS Naturals, Sequences

\* The sum of a sequence of sizes.
Total(s) ==
  LET sum[n \in 0..Len(s)] == IF n = 0 THEN 0 ELSE sum[n-1] + s[n]
  IN  sum[Len(s)]

\* The sequences of bs, one after the other.
Concat(bs) ==
  LET cat[n \in 0..Len(bs)] == IF n = 0 THEN <<>> ELSE cat[n-1] \o bs[n]
  IN  cat[Len(bs)]

=============================================================================
