--------------------------- MODULE MCTraceAndLogs ---------------------------
(***************************************************************************)
(* The two pipelines that keep what they acknowledged over several stages, *)
(* explored side by side: the traces of MCTracePipeline, and the logs.     *)
(* They share nothing; `moves` says which one does, the other stays where  *)
(* it began.                                                               *)
(*                                                                         *)
(* There are four log entries in three requests: e4 is too large, e1 and   *)
(* e2 do not fit into one batch, e3 fits with either; r4 is refused.       *)
(***************************************************************************)
EXTENDS MCTracePipeline, LogPipeline

VARIABLE moves

allVars == <<moves, vars, logVars>>

MCBody == [r \in {"r1", "r2", "r3", "r4"} |->
             CASE r = "r1" -> <<"e1", "e4">> [] r = "r2" -> <<"e2">>
               [] r = "r3" -> <<"e3">> [] r = "r4" -> <<>>]
MCStatus == [r \in {"r1", "r2", "r3", "r4"} |-> IF r = "r4" THEN 400 ELSE 0]
MCSize == [e \in {"e1", "e2", "e3", "e4"} |->
             CASE e \in {"e1", "e2"} -> 4 [] e = "e3" -> 2 [] e = "e4" -> 7]

TraceStep(A) == moves = "traces" /\ A /\ UNCHANGED <<moves, logVars>>
LogStep(A) == moves = "logs" /\ A /\ UNCHANGED <<moves, vars>>

AllInit == Init /\ LogInit /\ moves \in {"traces", "logs"} /\ (moves = "traces" => up)

AllNext == TraceStep(Next) \/ LogStep(LogNext)

\* The fairness of the two specifications, for the one that moves.
AllSpec ==
  /\ AllInit /\ [][AllNext]_allVars
  /\ \A r \in Requests :
       WF_allVars(TraceStep(Handler(r))) /\ WF_allVars(TraceStep(EnqueueTask(r)))
  /\ WF_allVars(TraceStep(Receive)) /\ SF_allVars(TraceStep(Add)) /\ WF_allVars(TraceStep(Flusher))
  /\ WF_allVars(LogStep(Service)) /\ WF_allVars(LogStep(Flush))

=============================================================================
