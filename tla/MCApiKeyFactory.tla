-------------------------- MODULE MCApiKeyFactory --------------------------
(* The clock is bounded here, so that the state space is finite.            *)
EXTENDS ApiKeyFactory

CONSTANT MaxTime

MCNext == (Tick /\ now < MaxTime) \/ \E p \in Procs : Call(p) \/ Step(p) \/ Drop(p)

MCSpec == Init /\ [][MCNext]_vars /\ \A p \in Procs : WF_vars(Step(p))

=============================================================================
