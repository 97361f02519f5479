-------------------------- MODULE Components_proofs --------------------------
(***************************************************************************)
(* Proofs about components that work by themselves, each for every value   *)
(* of its constants: the metrics flusher, the main loop of the compat      *)
(* agent, its metadata reporter, its startup, the mock intake, the         *)
(* payloads of the metrics aggregator, the error sampler, the agent's      *)
(* configuration and the parsing of DogStatsD lines.                       *)
(***************************************************************************)
EXTENDS
  MetricsFlusher, CompatLoop, MetadataReporter, CompatStartup, MockIntake, MetricBatching,
  ErrorSampler, AgentConfig, MetricParsing, ProofLibrary, SequenceTheorems

-----------------------------------------------------------------------------
(* The metrics flusher: whatever the intake answers and however the calls, *)
(* their tasks, panics and dropped futures interleave, a call of           *)
(* flush_metrics ships with discipline and returns exactly what failed for *)
(* the moment.                                                             *)

CallStates == {"start", "init", "joining", "returned", "abandoned"}
TaskStates == {"unborn", "running", "done", "panicked"}
Outcomes == Answers \cup {"untried", "payload"}

TypeOK ==
  /\ cell \in {"empty", "some", "none"} /\ orphaned \in BOOLEAN
  /\ call \in [Calls -> CallStates]
  /\ result \in [Calls -> SUBSET (Kinds \X Nat)]
  /\ task \in [Tasks -> TaskStates]
  /\ batch \in [Tasks -> Nat \ {0}]
  /\ attempts \in [Tasks -> Nat]
  /\ failed \in [Tasks -> SUBSET Nat]
  /\ DOMAIN outcome = Tasks /\ DOMAIN requests = Tasks
  /\ outcome = [t \in Tasks |-> outcome[t]] /\ requests = [t \in Tasks |-> requests[t]]
  /\ \A t \in Tasks : /\ outcome[t] \in [1..Size(t) -> Outcomes]
                      /\ requests[t] \in [1..Size(t) -> Nat]

\* The requests a batch may cost.
Limit == IF MaxAttempts = 0 THEN 1 ELSE MaxAttempts

Retried == {"ok", "other"}

\* A task works through its batches in order: those before the current one
\* are settled without a complaint of the destination, those after it are
\* untouched, and the attempts so far are those of the current one.
TaskInOrder(t) ==
  /\ batch[t] <= Size(t) + 1
  /\ attempts[t] < Limit
  /\ \A i \in 1..Size(t) :
       /\ i < batch[t] => outcome[t][i] \in {"accepted", "payload"}
       /\ i > batch[t] => outcome[t][i] = "untried" /\ requests[t][i] = 0
       /\ i = batch[t] /\ outcome[t][i] = "untried" => requests[t][i] = attempts[t]
       /\ i = batch[t] /\ task[t] \in {"unborn", "running"} => outcome[t][i] = "untried"
       /\ i = batch[t] /\ task[t] = "done" => Stopped(outcome[t][i])
       /\ requests[t][i] <= Limit

\* What a task will report for retry is what it has seen fail for the moment.
FailedIsRetried(t) == failed[t] = {i \in 1..Size(t) : outcome[t][i] \in Retried}

\* The shared cell is initialised by one call at a time, and settled before
\* any task is born.
CellSettled ==
  /\ \A c \in Calls : call[c] = "init" => cell = "empty"
  /\ \A c, d \in Calls : call[c] = "init" /\ call[d] = "init" => c = d
  /\ \A t \in Tasks : task[t] # "unborn" => cell = "some"

\* What a call has returned, by how its tasks ended.
CallOutcome(c) ==
  /\ call[c] \in {"start", "init"} => \A k \in Kinds : task[<<c, k>>] = "unborn"
  /\ call[c] = "joining" => \A k \in Kinds : task[<<c, k>>] # "unborn"
  /\ call[c] = "returned" =>
       \/ result[c] = AllOf(c) /\ \A k \in Kinds : task[<<c, k>>] = "unborn"
       \/ result[c] = AllOf(c) /\ \E k \in Kinds : task[<<c, k>>] = "panicked"
       \/ result[c] = FailedOf(c) /\ Clean(c)

IndInv ==
  /\ TypeOK
  /\ \A t \in Tasks : TaskInOrder(t) /\ FailedIsRetried(t)
  /\ CellSettled
  /\ \A c \in Calls : CallOutcome(c)

-----------------------------------------------------------------------------

\* The number of batches a task is given, from Count.
LEMMA SizeType == \A t \in Tasks : Size(t) \in Nat /\ t = <<t[1], t[2]>> /\ t[1] \in Calls /\ t[2] \in Kinds
  BY MetricsFlusherAssumption DEF Tasks, Size

\* A call and a kind make a task (the two handles flush_metrics spawns).
LEMMA TaskOf == \A c \in Calls, k \in Kinds : <<c, k>> \in Tasks
  BY DEF Tasks

\* The limit on requests is a positive number, whatever the retry strategy.
LEMMA LimitType == Limit \in Nat \ {0} /\ (MaxAttempts # 0 => Limit = MaxAttempts)
  BY MetricsFlusherAssumption DEF Limit

\* The batches a call can return are batches of its two kinds.
LEMMA AllOfType == \A c \in Calls : AllOf(c) \in SUBSET (Kinds \X Nat)
  BY MetricsFlusherAssumption DEF AllOf, Kinds

\* Nothing has been shipped when the flusher is new.
LEMMA InitIndInv == Init => IndInv
<1> SUFFICES ASSUME Init PROVE IndInv
  OBVIOUS
<1> USE SizeType
<1>1. TypeOK
  <2>1. orphaned \in BOOLEAN
    BY DEF Init
  <2> QED
    BY <2>1 DEF Init, TypeOK, CallStates, TaskStates, Outcomes
<1>2. \A t \in Tasks : TaskInOrder(t)
  BY LimitType DEF Init, TaskInOrder
<1>3. \A t \in Tasks : FailedIsRetried(t)
  BY DEF Init, FailedIsRetried, Retried
<1>4. CellSettled
  BY DEF Init, CellSettled
<1>5. \A c \in Calls : CallOutcome(c)
  BY TaskOf DEF Init, CallOutcome
<1> QED
  BY <1>1, <1>2, <1>3, <1>4, <1>5 DEF IndInv

-----------------------------------------------------------------------------
(* The steps of the calls.                                                 *)

\* Steps that move no task but to start it leave every task in order.
LEMMA TasksKeptInOrder ==
  ASSUME NEW t \in Tasks, TaskInOrder(t), FailedIsRetried(t),
         batch'[t] = batch[t], attempts'[t] = attempts[t], failed'[t] = failed[t],
         outcome'[t] = outcome[t], requests'[t] = requests[t],
         task'[t] = task[t] \/ (task[t] = "unborn" /\ task'[t] = "running")
  PROVE  TaskInOrder(t)' /\ FailedIsRetried(t)'
<1>1. TaskInOrder(t)'
  BY DEF TaskInOrder, Size
<1>2. FailedIsRetried(t)'
  BY DEF FailedIsRetried, Size
<1> QED
  BY <1>1, <1>2

\* A call whose own state, tasks and failures stay keeps its outcome.
LEMMA CallOutcomeKept ==
  ASSUME NEW c \in Calls, CallOutcome(c), call'[c] = call[c], result'[c] = result[c],
         \A k \in Kinds : task'[<<c, k>>] = task[<<c, k>>] /\ failed'[<<c, k>>] = failed[<<c, k>>]
  PROVE  CallOutcome(c)'
<1>1. FailedOf(c)' = FailedOf(c)
  BY DEF FailedOf, Kinds
<1>2. AllOf(c)' = AllOf(c)
  BY DEF AllOf
<1>3. Clean(c)' = Clean(c)
  BY DEF Clean, Kinds
<1> QED
  BY <1>1, <1>2, <1>3 DEF CallOutcome, Kinds

\* Returning early, with no client, or after the join of two finished tasks
\* or of a panicked one: the call ends with the outcome its tasks had.
LEMMA ReturnIndInv ==
  ASSUME IndInv, NEW c \in Calls, NEW batches \in SUBSET (Kinds \X Nat), Return(c, batches),
         UNCHANGED <<cell, orphaned, task, batch, attempts, failed, outcome, requests>>,
         \/ batches = AllOf(c) /\ \A k \in Kinds : task[<<c, k>>] = "unborn"
         \/ batches = AllOf(c) /\ \E k \in Kinds : task[<<c, k>>] = "panicked"
         \/ batches = FailedOf(c) /\ Clean(c)
  PROVE  IndInv'
<1> USE DEF IndInv
<1>1. TypeOK'
  BY DEF TypeOK, Return, CallStates, Size
<1>2. \A t \in Tasks : TaskInOrder(t)' /\ FailedIsRetried(t)'
  BY TasksKeptInOrder
<1>0. /\ call'[c] = "returned" /\ result'[c] = batches
      /\ \A d \in Calls : d # c => call'[d] = call[d] /\ result'[d] = result[d]
  BY DEF Return, TypeOK
<1>3. CellSettled'
  BY <1>0 DEF CellSettled
<1>4. ASSUME NEW d \in Calls PROVE CallOutcome(d)'
  <2>1. CASE d = c
    <3>1. FailedOf(c)' = FailedOf(c) /\ AllOf(c)' = AllOf(c) /\ Clean(c)' = Clean(c)
      BY DEF FailedOf, AllOf, Clean
    <3> QED
      BY <2>1, <3>1, <1>0 DEF CallOutcome
  <2>2. CASE d # c
    BY <2>2, <1>0, CallOutcomeKept
  <2> QED
    BY <2>1, <2>2
<1> QED
  BY <1>1, <1>2, <1>3, <1>4

\* Steps of a call that neither return nor spawn.
LEMMA CallMovesIndInv ==
  ASSUME IndInv, NEW c \in Calls,
         \/ BeginInit(c) \/ (\E api \in {"some", "none"} : ResolveKey(c, api)) \/ Abandon(c)
  PROVE  IndInv'
<1> USE DEF IndInv
<1>0. /\ UNCHANGED <<result, task, batch, attempts, failed, outcome, requests>>
      /\ cell' \in {"empty", "some", "none"} /\ orphaned' \in BOOLEAN
      /\ \/ call' = [call EXCEPT ![c] = "init"] /\ call[c] = "start"
         \/ call' = [call EXCEPT ![c] = "start"] /\ call[c] = "init"
         \/ call' = [call EXCEPT ![c] = "abandoned"]
  BY DEF BeginInit, ResolveKey, Abandon, TypeOK
<1>1. TypeOK'
  BY <1>0 DEF TypeOK, CallStates, Size
<1>2. ASSUME NEW t \in Tasks PROVE TaskInOrder(t)' /\ FailedIsRetried(t)'
  <2>1. UNCHANGED <<batch, attempts, failed, outcome, requests>> /\ task'[t] = task[t]
    BY <1>0
  <2> QED
    BY <2>1, TasksKeptInOrder
<1>3. CellSettled'
  <2>1. CASE BeginInit(c)
    <3>1. \A d \in Calls : call'[d] = "init" => d = c
      BY <2>1 DEF BeginInit, TypeOK
    <3> QED
      BY <2>1, <3>1 DEF BeginInit, CellSettled
  <2>2. ASSUME NEW api \in {"some", "none"}, ResolveKey(c, api) PROVE CellSettled'
    <3>1. \A d \in Calls : call'[d] # "init"
      BY <2>2 DEF ResolveKey, TypeOK, CellSettled
    <3>2. cell = "empty" /\ task' = task
      BY <2>2 DEF ResolveKey, CellSettled
    <3> QED
      BY <3>1, <3>2 DEF CellSettled
  <2>3. CASE Abandon(c)
    BY <2>3 DEF Abandon, CellSettled, TypeOK
  <2> QED
    BY <2>1, <2>2, <2>3
<1>4. ASSUME NEW d \in Calls PROVE CallOutcome(d)'
  <2>1. CASE d = c
    BY <2>1, <1>0 DEF CallOutcome, TypeOK
  <2>2. CASE d # c
    BY <2>2, <1>0, CallOutcomeKept DEF TypeOK
  <2> QED
    BY <2>1, <2>2
<1> QED
  BY <1>1, <1>2, <1>3, <1>4

\* The two tasks of a call are spawned.
LEMMA SpawnTasksIndInv ==
  ASSUME IndInv, NEW c \in Calls, SpawnTasks(c)
  PROVE  IndInv'
<1> USE DEF IndInv
<1>0. \A t \in Tasks : task'[t] = IF t[1] = c THEN "running" ELSE task[t]
  BY DEF SpawnTasks
<1>a. \A t \in Tasks : t[1] = c => task[t] = "unborn"
  BY SizeType DEF SpawnTasks, CallOutcome
<1>1. TypeOK'
  BY DEF TypeOK, SpawnTasks, CallStates, TaskStates, Size
<1>2. ASSUME NEW t \in Tasks PROVE TaskInOrder(t)' /\ FailedIsRetried(t)'
  <2>1. UNCHANGED <<batch, attempts, failed, outcome, requests>>
    BY DEF SpawnTasks
  <2>2. task'[t] = task[t] \/ (task[t] = "unborn" /\ task'[t] = "running")
    <3>1. CASE t[1] = c
      BY <3>1, <1>0, <1>a
    <3>2. CASE t[1] # c
      BY <3>2, <1>0
    <3> QED
      BY <3>1, <3>2
  <2> QED
    BY <2>1, <2>2, TasksKeptInOrder
<1>3. CellSettled'
  BY <1>0 DEF CellSettled, SpawnTasks, TypeOK
<1>4. ASSUME NEW d \in Calls PROVE CallOutcome(d)'
  <2>1. CASE d = c
    BY <2>1, <1>0, TaskOf DEF CallOutcome, SpawnTasks, TypeOK
  <2>2. CASE d # c
    <3>1. \A k \in Kinds : task'[<<d, k>>] = task[<<d, k>>]
      BY <2>2, <1>0, TaskOf
    <3> QED
      BY <2>2, <3>1, CallOutcomeKept DEF SpawnTasks, TypeOK
  <2> QED
    BY <2>1, <2>2
<1> QED
  BY <1>1, <1>2, <1>3, <1>4

-----------------------------------------------------------------------------
(* The steps of the tasks.                                                 *)

\* A step of one running task is no business of the cell, of other calls, or
\* of a call that has given up on it.
LEMMA TaskStepKeepsCalls ==
  ASSUME IndInv, NEW t \in Tasks, task[t] = "running",
         UNCHANGED <<cell, orphaned, call, result>>,
         task'[t] \in {"running", "done", "panicked"},
         \A u \in Tasks : u # t => task'[u] = task[u] /\ failed'[u] = failed[u]
  PROVE  CellSettled' /\ \A c \in Calls : CallOutcome(c)'
<1> USE DEF IndInv
<1>1. CellSettled'
  BY DEF CellSettled
<1>2. ASSUME NEW c \in Calls PROVE CallOutcome(c)'
  <2>1. CASE c # t[1]
    <3>1. \A k \in Kinds : <<c, k>> # t
      BY <2>1
    <3> QED
      BY <3>1, TaskOf, CallOutcomeKept
  <2>2. CASE c = t[1]
    <3>0. t = <<c, t[2]>> /\ t[2] \in Kinds
      BY <2>2, SizeType
    <3>1. call[c] \notin {"start", "init"} /\ ~Clean(c)
      BY <3>0 DEF CallOutcome, Clean
    <3>2. AllOf(c)' = AllOf(c)
      BY DEF AllOf
    <3>3. \A k \in Kinds : task[<<c, k>>] # "unborn" => task'[<<c, k>>] # "unborn"
      BY TaskOf
    <3>4. \A k \in Kinds : task[<<c, k>>] = "panicked" => task'[<<c, k>>] = "panicked"
      BY TaskOf
    <3> QED
      BY <3>0, <3>1, <3>2, <3>3, <3>4 DEF CallOutcome
  <2> QED
    BY <2>1, <2>2
<1> QED
  BY <1>1, <1>2

\* The loop runs out of batches, or the task is gone.
LEMMA TaskEndsIndInv ==
  ASSUME IndInv, NEW t \in Tasks, Finish(t) \/ Panic(t)
  PROVE  IndInv'
<1> USE DEF IndInv
<1>0. /\ task[t] = "running" /\ task'[t] \in {"done", "panicked"}
      /\ \A u \in Tasks : u # t => task'[u] = task[u]
      /\ UNCHANGED <<cell, orphaned, call, result, batch, attempts, failed, outcome, requests>>
  BY DEF Finish, Panic, TypeOK
<1>1. TypeOK'
  BY DEF Finish, Panic, TypeOK, TaskStates, Size
<1>2. ASSUME NEW u \in Tasks PROVE TaskInOrder(u)' /\ FailedIsRetried(u)'
  <2>1. CASE u # t
    BY <2>1, <1>0, TasksKeptInOrder
  <2>2. CASE u = t
    <3>1. task'[t] = "done" => batch[t] > Size(t)
      BY DEF Finish, Panic, TypeOK
    <3>2. TaskInOrder(t)'
      BY <1>0, <3>1, SizeType DEF TaskInOrder, TypeOK, Size
    <3>3. FailedIsRetried(t)'
      BY <1>0 DEF FailedIsRetried, Size
    <3> QED
      BY <2>2, <3>2, <3>3
  <2> QED
    BY <2>1, <2>2
<1>3. CellSettled' /\ \A c \in Calls : CallOutcome(c)'
  BY <1>0, TaskStepKeepsCalls
<1> QED
  BY <1>1, <1>2, <1>3

\* The current batch is settled, with or without a last request for it: it
\* joins those before it, or the task stops at it.
LEMMA SettleIndInv ==
  ASSUME IndInv, NEW t \in Tasks, Shipping(t), NEW resp \in Answers \cup {"payload"},
         Settle(t, resp), UNCHANGED <<cell, orphaned, call, result>>,
         requests' = requests \/ requests' = [requests EXCEPT ![t][batch[t]] = @ + 1]
  PROVE  IndInv'
<1> USE DEF IndInv
<1> DEFINE b == batch[t]
<1>0. /\ task[t] = "running" /\ b \in 1..Size(t) /\ Size(t) \in Nat
      /\ outcome[t][b] = "untried" /\ requests[t][b] = attempts[t] /\ attempts[t] < Limit
  BY SizeType DEF Shipping, TypeOK, TaskInOrder
<1>a. /\ outcome' = [outcome EXCEPT ![t][b] = resp] /\ attempts' = [attempts EXCEPT ![t] = 0]
      /\ failed' = [failed EXCEPT ![t] = IF resp \in Retried THEN @ \cup {b} ELSE @]
      /\ \/ /\ resp \in {"accepted", "payload"}
            /\ batch' = [batch EXCEPT ![t] = @ + 1] /\ task' = task
         \/ /\ resp \notin {"accepted", "payload"}
            /\ batch' = batch /\ task' = [task EXCEPT ![t] = "done"]
  BY DEF Settle, ShouldTryNextBatch, Retried
<1>b. \/ requests'[t] = requests[t]
      \/ requests'[t] = [requests[t] EXCEPT ![b] = @ + 1]
  BY DEF TypeOK
<1>1. TypeOK'
  <2>1. outcome'[t] = [outcome[t] EXCEPT ![b] = resp] /\ outcome'[t] \in [1..Size(t) -> Outcomes]
    <3>1. outcome[t] \in [1..Size(t) -> Outcomes] /\ DOMAIN outcome = Tasks /\ resp \in Outcomes
      BY DEF TypeOK, Outcomes
    <3>2. outcome'[t] = [outcome[t] EXCEPT ![b] = resp]
      BY <1>a, <3>1
    <3> QED
      BY <1>0, <3>1, <3>2
  <2>2. requests'[t] \in [1..Size(t) -> Nat]
    <3>1. requests[t] \in [1..Size(t) -> Nat]
      BY DEF TypeOK
    <3> HIDE DEF IndInv
    <3> QED
      BY <1>0, <1>b, <3>1
  <2>3. \A u \in Tasks : u # t => outcome'[u] = outcome[u] /\ requests'[u] = requests[u]
    BY <1>a DEF TypeOK
  <2>4. /\ DOMAIN outcome' = Tasks /\ outcome' = [u \in Tasks |-> outcome'[u]]
        /\ DOMAIN requests' = Tasks /\ requests' = [u \in Tasks |-> requests'[u]]
    BY <1>a DEF TypeOK
  <2>5. /\ batch' \in [Tasks -> Nat \ {0}] /\ attempts' \in [Tasks -> Nat]
        /\ task' \in [Tasks -> TaskStates]
    <3>1. attempts' \in [Tasks -> Nat]
      BY <1>a DEF TypeOK
    <3>2. CASE batch' = [batch EXCEPT ![t] = @ + 1] /\ task' = task
      BY <3>1, <3>2 DEF TypeOK
    <3>3. CASE batch' = batch /\ task' = [task EXCEPT ![t] = "done"]
      BY <3>1, <3>3 DEF TypeOK, TaskStates
    <3> QED
      BY <1>a, <3>2, <3>3
  <2>6. failed' \in [Tasks -> SUBSET Nat]
    BY <1>a, <1>0 DEF TypeOK
  <2> QED
    BY <2>1, <2>2, <2>3, <2>4, <2>5, <2>6 DEF TypeOK, Size
<1>2. ASSUME NEW u \in Tasks PROVE TaskInOrder(u)' /\ FailedIsRetried(u)'
  <2>1. CASE u # t
    <3>1. /\ batch'[u] = batch[u] /\ attempts'[u] = attempts[u] /\ failed'[u] = failed[u]
          /\ outcome'[u] = outcome[u] /\ requests'[u] = requests[u] /\ task'[u] = task[u]
      BY <2>1, <1>a DEF TypeOK
    <3> QED
      BY <3>1, TasksKeptInOrder
  <2>2. CASE u = t
    <3>1. /\ \A i \in 1..Size(t) : outcome'[t][i] = IF i = b THEN resp ELSE outcome[t][i]
          /\ attempts'[t] = 0
          /\ failed'[t] = IF resp \in Retried THEN failed[t] \cup {b} ELSE failed[t]
      BY <1>a DEF TypeOK
    <3>2. \A i \in 1..Size(t) : /\ i # b => requests'[t][i] = requests[t][i]
                                /\ i = b => requests'[t][i] \in {requests[t][i], requests[t][i] + 1}
      <4>1. requests[t] \in [1..Size(t) -> Nat]
        BY DEF TypeOK
      <4>2. CASE requests'[t] = requests[t]
        BY <4>2
      <4>3. CASE requests'[t] = [requests[t] EXCEPT ![b] = @ + 1]
        BY <4>1, <4>3
      <4> QED
        BY <1>b, <4>2, <4>3
    <3>3. \/ resp \in {"accepted", "payload"} /\ batch'[t] = b + 1 /\ task'[t] = "running"
          \/ resp \in {"ok", "client", "other"} /\ batch'[t] = b /\ task'[t] = "done"
      BY <1>a, <1>0 DEF TypeOK, Answers
    <3>4. TaskInOrder(t)'
      <4>1. batch'[t] <= Size(t) + 1 /\ attempts'[t] < Limit
        BY <1>0, <3>1, <3>3, LimitType
      <4>2. ASSUME NEW i \in 1..Size(t) PROVE requests'[t][i] <= Limit
        BY <1>0, <3>2, LimitType DEF TaskInOrder, TypeOK
      <4>3. ASSUME NEW i \in 1..Size(t)
            PROVE  /\ i < batch'[t] => outcome'[t][i] \in {"accepted", "payload"}
                   /\ i > batch'[t] => outcome'[t][i] = "untried" /\ requests'[t][i] = 0
                   /\ i = batch'[t] /\ outcome'[t][i] = "untried" => requests'[t][i] = attempts'[t]
                   /\ i = batch'[t] /\ task'[t] \in {"unborn", "running"} => outcome'[t][i] = "untried"
                   /\ i = batch'[t] /\ task'[t] = "done" => Stopped(outcome'[t][i])
        BY <1>0, <3>1, <3>2, <3>3 DEF TaskInOrder, TypeOK, Stopped
      <4> QED
        BY <4>1, <4>2, <4>3 DEF TaskInOrder, Size, Stopped, Limit
    <3>5. FailedIsRetried(t)'
      BY <1>0, <3>1 DEF FailedIsRetried, Size, Retried
    <3> QED
      BY <2>2, <3>4, <3>5
  <2> QED
    BY <2>1, <2>2
<1>3. CellSettled' /\ \A c \in Calls : CallOutcome(c)'
  <2>1. task'[t] \in {"running", "done", "panicked"}
    BY <1>a, <1>0 DEF TypeOK
  <2>2. \A u \in Tasks : u # t => task'[u] = task[u] /\ failed'[u] = failed[u]
    BY <1>a DEF TypeOK
  <2> QED
    BY <1>0, <2>1, <2>2, TaskStepKeepsCalls
<1> QED
  BY <1>1, <1>2, <1>3

\* A request that failed with attempts left: only the counts of the current
\* batch move.
LEMMA RetryIndInv ==
  ASSUME IndInv, NEW t \in Tasks, Shipping(t), ~LastAttempt(t),
         requests' = [requests EXCEPT ![t][batch[t]] = @ + 1],
         attempts' = [attempts EXCEPT ![t] = @ + 1],
         UNCHANGED <<cell, orphaned, call, result, task, batch, failed, outcome>>
  PROVE  IndInv'
<1> USE DEF IndInv
<1> DEFINE b == batch[t]
<1>0. /\ task[t] = "running" /\ b \in 1..Size(t) /\ Size(t) \in Nat
      /\ outcome[t][b] = "untried" /\ requests[t][b] = attempts[t] /\ attempts[t] + 1 < Limit
  BY SizeType, LimitType, MetricsFlusherAssumption DEF Shipping, TypeOK, TaskInOrder, LastAttempt
<1>a. /\ requests'[t] = [requests[t] EXCEPT ![b] = @ + 1] /\ attempts'[t] = attempts[t] + 1
      /\ requests[t] \in [1..Size(t) -> Nat] /\ attempts[t] \in Nat
      /\ \A u \in Tasks : u # t => requests'[u] = requests[u] /\ attempts'[u] = attempts[u]
  BY DEF TypeOK
<1>1. TypeOK'
  <2>1. requests'[t] \in [1..Size(t) -> Nat]
    BY <1>0, <1>a
  <2>2. DOMAIN requests' = Tasks /\ requests' = [u \in Tasks |-> requests'[u]]
    BY DEF TypeOK
  <2>3. attempts' \in [Tasks -> Nat]
    BY DEF TypeOK
  <2> QED
    BY <1>a, <2>1, <2>2, <2>3 DEF TypeOK, Size
<1>2. ASSUME NEW u \in Tasks PROVE TaskInOrder(u)' /\ FailedIsRetried(u)'
  <2>1. CASE u # t
    BY <2>1, <1>a, TasksKeptInOrder
  <2>2. CASE u = t
    <3>1. TaskInOrder(t)'
      BY <1>0, <1>a, LimitType DEF TaskInOrder, Size
    <3>2. FailedIsRetried(t)'
      BY DEF FailedIsRetried, Size
    <3> QED
      BY <2>2, <3>1, <3>2
  <2> QED
    BY <2>1, <2>2
<1>3. CellSettled' /\ \A c \in Calls : CallOutcome(c)'
  BY <1>0, TaskStepKeepsCalls
<1> QED
  BY <1>1, <1>2, <1>3

-----------------------------------------------------------------------------
(* The theorems.                                                           *)

\* Every step of a call or of a task keeps the inductive invariant.
LEMMA NextIndInv == IndInv /\ [Next]_vars => IndInv'
<1> SUFFICES ASSUME IndInv, [Next]_vars PROVE IndInv'
  OBVIOUS
<1>0. TypeOK /\ \A c \in Calls : CallOutcome(c)
  BY DEF IndInv
<1>1. ASSUME NEW c \in Calls, ReturnEarly(c) PROVE IndInv'
  <2>1. {} = AllOf(c) /\ \A k \in Kinds : task[<<c, k>>] = "unborn"
    BY <1>0, <1>1 DEF ReturnEarly, CallOutcome
  <2> QED
    BY <1>1, <2>1, AllOfType, ReturnIndInv DEF ReturnEarly
<1>2. ASSUME NEW c \in Calls, NoClient(c) PROVE IndInv'
  <2>1. \A k \in Kinds : task[<<c, k>>] = "unborn"
    BY <1>0, <1>2 DEF NoClient, CallOutcome
  <2> QED
    BY <1>2, <2>1, AllOfType, ReturnIndInv DEF NoClient
<1>3. ASSUME NEW c \in Calls, Join(c) PROVE IndInv'
  <2>1. FailedOf(c) \in SUBSET (Kinds \X Nat) /\ Clean(c)
    <3>1. \A k \in Kinds : failed[<<c, k>>] \in SUBSET Nat
      BY <1>0, TaskOf DEF TypeOK
    <3> QED
      BY <3>1, <1>3 DEF FailedOf, Kinds, Clean, Join
  <2> QED
    BY <1>3, <2>1, ReturnIndInv DEF Join
<1>4. ASSUME NEW c \in Calls, JoinError(c) PROVE IndInv'
  BY <1>4, AllOfType, ReturnIndInv DEF JoinError
<1>5. ASSUME NEW c \in Calls,
             \/ BeginInit(c) \/ (\E api \in {"some", "none"} : ResolveKey(c, api)) \/ Abandon(c)
      PROVE  IndInv'
  BY <1>5, CallMovesIndInv
<1>6. ASSUME NEW c \in Calls, SpawnTasks(c) PROVE IndInv'
  BY <1>6, SpawnTasksIndInv
<1>7. ASSUME NEW t \in Tasks, PayloadError(t) PROVE IndInv'
  BY <1>7, SettleIndInv DEF PayloadError
<1>8. ASSUME NEW t \in Tasks, NEW resp \in Answers, Attempt(t, resp) PROVE IndInv'
  <2>1. CASE Settle(t, resp)
    BY <1>8, <2>1, SettleIndInv DEF Attempt
  <2>2. CASE /\ ~LastAttempt(t) /\ attempts' = [attempts EXCEPT ![t] = @ + 1]
             /\ UNCHANGED <<task, batch, failed, outcome>>
    BY <1>8, <2>2, RetryIndInv DEF Attempt
  <2> QED
    BY <1>8, <2>1, <2>2 DEF Attempt
<1>9. ASSUME NEW t \in Tasks, Finish(t) \/ Panic(t) PROVE IndInv'
  BY <1>9, TaskEndsIndInv
<1>10. CASE UNCHANGED vars
  <2>1. UNCHANGED <<batch, attempts, failed, outcome, requests, task, call, result, cell, orphaned>>
    BY <1>10 DEF vars
  <2>2. TypeOK'
    BY <1>0, <2>1 DEF TypeOK, Size
  <2>3. \A t \in Tasks : TaskInOrder(t)' /\ FailedIsRetried(t)'
    BY <2>1, TasksKeptInOrder DEF IndInv
  <2>4. \A c \in Calls : CallOutcome(c)'
    BY <1>0, <2>1, CallOutcomeKept
  <2>5. CellSettled'
    BY <2>1 DEF IndInv, CellSettled
  <2> QED
    BY <2>2, <2>3, <2>4, <2>5 DEF IndInv
<1> QED
  BY <1>1, <1>2, <1>3, <1>4, <1>5, <1>6, <1>7, <1>8, <1>9, <1>10
     DEF Next, CallStep, TaskStep

\* The inductive invariant holds of every reachable state.
THEOREM Invariance == Spec => []IndInv
<1>1. Init => IndInv
  BY InitIndInv
<1>2. IndInv /\ [Next]_vars => IndInv'
  BY NextIndInv
<1> QED
  BY <1>1, <1>2, PTL DEF Spec

\* The variables of the flusher keep their types.
THEOREM TypeCorrect == Spec => []TypeOK
<1>1. IndInv => TypeOK
  BY DEF IndInv
<1> QED
  BY <1>1, Invariance, PTL

\* A task that is done left batches out only behind one that was turned away.
LEMMA DoneStopsOnly == IndInv => StopsOnlyAtDestination
<1> SUFFICES ASSUME IndInv, NEW t \in Tasks, task[t] = "done",
                    NEW i \in 1..Size(t), outcome[t][i] = "untried"
             PROVE  \E j \in 1..(i - 1) : Stopped(outcome[t][j])
  BY DEF StopsOnlyAtDestination
<1>1. batch[t] < i
  <2>1. batch[t] \in Nat /\ i \in Nat
    BY SizeType DEF IndInv, TypeOK
  <2>2. ~(i < batch[t]) /\ i # batch[t]
    BY DEF IndInv, TaskInOrder, Stopped
  <2> QED
    BY <2>1, <2>2
<1>2. batch[t] \in 1..Size(t) /\ batch[t] \in 1..(i - 1)
  BY <1>1, SizeType DEF IndInv, TypeOK
<1>3. Stopped(outcome[t][batch[t]])
  BY <1>2 DEF IndInv, TaskInOrder
<1> QED
  BY <1>2, <1>3

\* No batch is requested more often than the retry strategy allows, a task
\* skips batches only after the destination turned one away, and without an
\* API key nothing is sent and everything is handed back.
THEOREM ShippingIsDisciplined == Spec => []ShippingDisciplined
<1>1. IndInv => ShippingDisciplined
  <2> SUFFICES ASSUME IndInv PROVE ShippingDisciplined
    OBVIOUS
  <2> USE DEF IndInv
  <2>1. AttemptsBounded
    BY DEF AttemptsBounded, TaskInOrder, Limit
  <2>2. StopsOnlyAtDestination
    BY DoneStopsOnly
  <2>3. NoKeyNothingSent
    <3> SUFFICES ASSUME cell = "none" PROVE NoKeyNothingSent
      BY DEF NoKeyNothingSent
    <3>1. \A t \in Tasks : task[t] = "unborn"
      BY DEF CellSettled
    <3>2. ASSUME NEW c \in Calls, call[c] = "returned" PROVE result[c] = AllOf(c)
      <4>1. task[<<c, "series">>] = "unborn" /\ "series" \in Kinds
        BY <3>1, TaskOf DEF Kinds
      <4>2. ~Clean(c)
        BY <4>1 DEF Clean
      <4> QED
        BY <3>2, <4>2 DEF CallOutcome
    <3> QED
      BY <3>1, <3>2 DEF NoKeyNothingSent
  <2> QED
    BY <2>1, <2>2, <2>3 DEF ShippingDisciplined
<1> QED
  BY <1>1, Invariance, PTL

\* After a clean join flush_metrics returns exactly the batches whose last
\* answer was a temporary failure, of both kinds; every other one is confirmed,
\* malformed, refused for good, or left behind the batch that ended its task.
THEOREM ReturnsExactlyTemporaryFailures == Spec => []ReturnsTemporaryFailures
<1>1. ASSUME IndInv, NEW c \in Calls, call[c] = "returned", Clean(c)
      PROVE  result[c] = {b \in AllOf(c) : outcome[<<c, b[1]>>][b[2]] \in {"ok", "other"}}
  <2>1. result[c] = FailedOf(c)
    <3>1. \A k \in Kinds : task[<<c, k>>] = "done"
      BY <1>1 DEF Clean
    <3>2. "series" \in Kinds
      BY DEF Kinds
    <3> QED
      BY <1>1, <3>1, <3>2 DEF IndInv, CallOutcome
  <2>2. \A k \in Kinds : failed[<<c, k>>] =
            {i \in 1..Count[c][k] : outcome[<<c, k>>][i] \in {"ok", "other"}}
    BY <1>1, TaskOf DEF IndInv, FailedIsRetried, Size, Retried
  <2> QED
    BY <2>1, <2>2 DEF FailedOf, AllOf, Kinds
<1>2. ASSUME IndInv, NEW c \in Calls, Clean(c), NEW b \in AllOf(c),
             outcome[<<c, b[1]>>][b[2]] \notin {"ok", "other"}
      PROVE  \/ outcome[<<c, b[1]>>][b[2]] \in {"accepted", "payload", "client"}
             \/ LeftBehind(c, b)
  <2>1. b[1] \in Kinds /\ b[2] \in 1..Count[c][b[1]]
    BY DEF AllOf
  <2>2. /\ <<c, b[1]>> \in Tasks /\ Size(<<c, b[1]>>) = Count[c][b[1]]
        /\ task[<<c, b[1]>>] = "done"
    BY <1>2, <2>1, TaskOf DEF Size, Clean
  <2>3. outcome[<<c, b[1]>>][b[2]] \in Outcomes
    BY <1>2, <2>1, <2>2 DEF IndInv, TypeOK
  <2>4. CASE outcome[<<c, b[1]>>][b[2]] = "untried"
    BY <1>2, <2>1, <2>2, <2>4, DoneStopsOnly DEF StopsOnlyAtDestination, LeftBehind
  <2> QED
    BY <1>2, <2>3, <2>4 DEF Outcomes, Answers
<1>3. IndInv => ReturnsTemporaryFailures
  <2> SUFFICES ASSUME IndInv, NEW c \in Calls, call[c] = "returned", Clean(c)
               PROVE  /\ result[c] = {b \in AllOf(c) : outcome[<<c, b[1]>>][b[2]] \in {"ok", "other"}}
                      /\ \A b \in AllOf(c) \ result[c] :
                           \/ outcome[<<c, b[1]>>][b[2]] \in {"accepted", "payload", "client"}
                           \/ LeftBehind(c, b)
    BY DEF ReturnsTemporaryFailures
  <2>1. result[c] = {b \in AllOf(c) : outcome[<<c, b[1]>>][b[2]] \in {"ok", "other"}}
    BY <1>1
  <2>2. ASSUME NEW b \in AllOf(c) \ result[c]
        PROVE  \/ outcome[<<c, b[1]>>][b[2]] \in {"accepted", "payload", "client"}
               \/ LeftBehind(c, b)
    BY <2>1, <2>2, <1>2
  <2> QED
    BY <2>1, <2>2
<1> QED
  BY <1>3, Invariance, PTL

-----------------------------------------------------------------------------
(* The main loop: the inductive invariant.                                 *)

Reading == [value : Int, life : Nat, at : Nat]
CpuSample == [from : Reading, to : Reading]

LoopTyped ==
  /\ setup \in [flusher : BOOLEAN, logs : BOOLEAN, instance : BOOLEAN, cpu : BOOLEAN]
  /\ now \in Nat /\ busy \in BOOLEAN
  /\ due \in [Tickers -> Nat] /\ fired \in [Tickers -> Nat]
  /\ usage \in [value : Nat, life : Nat]
  /\ last \in Reading
  /\ samples \in Seq(CpuSample)

\* A ticker is due one period after the tick it fired last, however late that
\* one was served, and never fires ahead of the clock.
TicksOnTime ==
  \A t \in Tickers : due[t] = (fired[t] + 1) * Period[t] /\ fired[t] * Period[t] <= now

\* Reading b was not taken before a, and shows no less in the same life of the
\* counter.
NotBefore(a, b) == a.at <= b.at /\ a.life <= b.life /\ (a.life = b.life => a.value <= b.value)

Present == [value |-> usage.value, life |-> usage.life, at |-> now]

\* The samples end at readings the collector has moved on from, and its last
\* reading is not ahead of the counter and the clock.
ReadingsInOrder ==
  /\ last = Unread => samples = <<>>
  /\ last # Unread => NotBefore(last, Present)
  /\ \A i \in DOMAIN samples : NotBefore(samples[i].to, last)
  /\ CpuSamplesTile

LoopInv == LoopTyped /\ TicksOnTime /\ ReadingsInOrder

-----------------------------------------------------------------------------

LEMMA PeriodsPositive == Period \in [Tickers -> Nat \ {0}]
  BY CompatLoopAssumption DEF Period, Tickers

LEMMA ProductGrows ==
  ASSUME NEW a \in Nat, NEW b \in Nat, NEW p \in Nat, a < b
  PROVE  (a + 1) * p <= b * p /\ a * p \in Nat /\ b * p \in Nat
<1>1. PICK d \in Nat : b = a + 1 + d
  <2>1. b - a - 1 \in Nat
    OBVIOUS
  <2> QED
    BY <2>1
<1>2. b * p = (a + 1) * p + d * p /\ d * p \in Nat
  BY <1>1
<1> QED
  BY <1>2

LEMMA NextMultiple ==
  ASSUME NEW n \in Nat, NEW p \in Nat
  PROVE  (n + 1) * p + p = (n + 1 + 1) * p
  OBVIOUS

\* The quotient is the only number whose multiples enclose the dividend.
LEMMA QuotientIs ==
  ASSUME NEW a \in Nat, NEW p \in Nat \ {0}, NEW n \in Nat, n * p <= a, a < (n + 1) * p
  PROVE  a \div p = n
<1>1. PICK q : q = a \div p
  OBVIOUS
<1>2. q \in Nat /\ q * p <= a /\ a < (q + 1) * p
  BY <1>1
<1>3. CASE q < n
  <2>1. (q + 1) * p <= n * p
    BY <1>2, <1>3, ProductGrows
  <2> QED
    BY <1>2, <2>1
<1>4. CASE n < q
  <2>1. (n + 1) * p <= q * p
    BY <1>2, <1>4, ProductGrows
  <2> QED
    BY <1>2, <2>1
<1> QED
  BY <1>1, <1>2, <1>3, <1>4

LEMMA InitLoop == LoopInit => LoopInv
<1> SUFFICES ASSUME LoopInit PROVE LoopInv
  OBVIOUS
<1>1. LoopTyped
  <2>1. Unread \in Reading
    BY DEF Unread, Reading
  <2>2. due \in [Tickers -> Nat] /\ fired \in [Tickers -> Nat]
    BY PeriodsPositive DEF LoopInit
  <2>3. setup \in [flusher : BOOLEAN, logs : BOOLEAN, instance : BOOLEAN, cpu : BOOLEAN]
    BY CompatLoopAssumption DEF LoopInit
  <2>4. now \in Nat /\ busy \in BOOLEAN /\ usage \in [value : Nat, life : Nat]
    BY DEF LoopInit
  <2>5. last \in Reading /\ samples \in Seq(CpuSample)
    BY <2>1 DEF LoopInit
  <2> QED
    BY <2>2, <2>3, <2>4, <2>5 DEF LoopTyped
<1>2. TicksOnTime
  BY PeriodsPositive DEF LoopInit, TicksOnTime
<1>3. ReadingsInOrder
  BY DEF LoopInit, ReadingsInOrder, CpuSamplesTile
<1> QED
  BY <1>1, <1>2, <1>3 DEF LoopInv

\* A tick, on time or late.
LEMMA FiresKeepsTicks ==
  ASSUME LoopTyped, TicksOnTime, NEW t \in Tickers, Fires(t), now' = now
  PROVE  /\ due' \in [Tickers -> Nat] /\ fired' \in [Tickers -> Nat]
         /\ TicksOnTime'
<1>1. /\ Period[t] \in Nat /\ due[t] \in Nat /\ fired[t] \in Nat /\ now \in Nat
  BY PeriodsPositive DEF LoopTyped
<1>2. due' = [due EXCEPT ![t] = due[t] + Period[t]] /\ fired' = [fired EXCEPT ![t] = fired[t] + 1] /\ now >= due[t]
  BY DEF Fires
<1>3. due' \in [Tickers -> Nat] /\ fired' \in [Tickers -> Nat]
  BY <1>1, <1>2 DEF LoopTyped
<1>4. due[t] = (fired[t] + 1) * Period[t]
  BY DEF TicksOnTime
<1>5. due[t] + Period[t] = (fired[t] + 1 + 1) * Period[t]
  BY <1>1, <1>4, NextMultiple
<1>6. ASSUME NEW u \in Tickers
      PROVE  due'[u] = (fired'[u] + 1) * Period[u] /\ fired'[u] * Period[u] <= now'
  <2>1. CASE u = t
    <3>1. due'[u] = due[t] + Period[t] /\ fired'[u] = fired[t] + 1
      BY <1>2, <2>1 DEF LoopTyped
    <3> QED
      BY <1>1, <1>2, <1>4, <1>5, <2>1, <3>1
  <2>2. CASE u # t
    <3>1. due'[u] = due[u] /\ fired'[u] = fired[u]
      BY <1>2, <2>2 DEF LoopTyped
    <3> QED
      BY <3>1 DEF TicksOnTime
  <2> QED
    BY <2>1, <2>2
<1> QED
  BY <1>3, <1>6 DEF TicksOnTime, Period

LEMMA NotBeforeTransitive ==
  ASSUME NEW a \in Reading, NEW b \in Reading, NEW c \in Reading, NotBefore(a, b), NotBefore(b, c)
  PROVE  NotBefore(a, c)
  BY DEF NotBefore, Reading

\* Readings and samples that stay, while time or the counter moves on.
LEMMA ReadingsStay ==
  ASSUME LoopTyped, LoopTyped', ReadingsInOrder, UNCHANGED <<last, samples>>, NotBefore(Present, Present')
  PROVE  ReadingsInOrder'
<1>1. Present \in Reading /\ Present' \in Reading /\ last \in Reading
  BY DEF LoopTyped, Present, Reading
<1>2. last # Unread => NotBefore(last, Present')
  BY <1>1, NotBeforeTransitive DEF ReadingsInOrder
<1>3. CpuSamplesTile'
  BY DEF ReadingsInOrder, CpuSamplesTile
<1> QED
  BY <1>2, <1>3 DEF ReadingsInOrder, Unread

LEMMA SamePresent ==
  ASSUME LoopTyped, UNCHANGED <<usage, now>>
  PROVE  NotBefore(Present, Present')
  BY DEF LoopTyped, Present, NotBefore

LEMMA OneMoreAtEnd ==
  ASSUME NEW S, NEW s \in Seq(S), NEW x \in S, NEW n, n = Len(s)
  PROVE  /\ DOMAIN s = 1..n /\ DOMAIN Append(s, x) = 1..(n + 1)
         /\ \A i \in 1..n : Append(s, x)[i] = s[i]
         /\ Append(s, x)[n + 1] = x
         /\ Append(s, x) \in Seq(S)
  OBVIOUS

\* A reading that is taken: the samples go up to it.
LEMMA ReadingTaken ==
  ASSUME LoopTyped, ReadingsInOrder, last' = Present, UNCHANGED <<usage, now>>,
         samples' = IF last # Unread /\ Computable(Present)
                    THEN Append(samples, [from |-> last, to |-> Present]) ELSE samples
  PROVE  last' \in Reading /\ samples' \in Seq(CpuSample) /\ ReadingsInOrder'
<1>1. Present \in Reading /\ last \in Reading /\ samples \in Seq(CpuSample) /\ NotBefore(Present, Present)
  BY DEF LoopTyped, Present, Reading, NotBefore
<1>2. PICK p \in Reading : p = Present /\ NotBefore(p, p)
  BY <1>1
<1>3. Present' = p /\ p # Unread
  BY <1>2 DEF Present, Unread, LoopTyped
<1>4. ASSUME NEW i \in DOMAIN samples PROVE NotBefore(samples[i].to, p)
  <2>1. samples[i].to \in Reading /\ NotBefore(samples[i].to, last)
    <3>1. samples[i] \in CpuSample
      BY <1>1
    <3> QED
      BY <3>1 DEF ReadingsInOrder, CpuSample
  <2>2. last # Unread
    BY DEF ReadingsInOrder
  <2> QED
    BY <1>1, <1>2, <2>1, <2>2, NotBeforeTransitive DEF ReadingsInOrder
<1>5. CASE ~(last # Unread /\ Computable(Present))
  <2>1. samples' = samples
    BY <1>5
  <2>2. CpuSamplesTile'
    BY <2>1 DEF ReadingsInOrder, CpuSamplesTile
  <2> QED
    BY <1>1, <1>2, <1>3, <1>4, <2>1, <2>2 DEF ReadingsInOrder
<1>6. CASE last # Unread /\ Computable(Present)
  <2>1. PICK x \in CpuSample : x.from = last /\ x.to = p /\ samples' = Append(samples, x)
    <3>1. [from |-> last, to |-> p] \in CpuSample
      BY <1>1 DEF CpuSample
    <3> QED
      BY <1>2, <1>6, <3>1
  <2>2. PICK n \in Nat : n = Len(samples)
    BY <1>1
  <2>3. /\ DOMAIN samples = 1..n /\ DOMAIN samples' = 1..(n + 1)
        /\ \A i \in 1..n : samples'[i] = samples[i]
        /\ samples'[n + 1] = x
        /\ samples' \in Seq(CpuSample)
    BY <1>1, <2>1, <2>2, OneMoreAtEnd
  <2>4. last.at < p.at
    BY <1>2, <1>6 DEF Computable
  <2>5. \A i \in DOMAIN samples' : NotBefore(samples'[i].to, p)
    BY <1>2, <1>4, <2>1, <2>2, <2>3
  <2>6. CpuSamplesTile'
    <3>1. \A i \in DOMAIN samples' : samples'[i].from.at < samples'[i].to.at
      BY <2>1, <2>2, <2>3, <2>4 DEF ReadingsInOrder, CpuSamplesTile
    <3>2. \A i \in DOMAIN samples : NotBefore(samples[i].to, last)
      BY DEF ReadingsInOrder
    <3>3. ASSUME NEW i \in DOMAIN samples', NEW j \in DOMAIN samples', i < j
          PROVE  /\ samples'[i].to.at <= samples'[j].from.at
                 /\ samples'[i].to.life = samples'[j].from.life =>
                      samples'[i].to.value <= samples'[j].from.value
      <4>1. i \in 1..n /\ (j \in 1..n \/ j = n + 1)
        BY <2>2, <2>3, <3>3
      <4>2. CASE j \in 1..n
        BY <2>3, <3>3, <4>1, <4>2 DEF ReadingsInOrder, CpuSamplesTile
      <4>3. CASE j = n + 1
        BY <2>1, <2>3, <3>2, <4>1, <4>3 DEF NotBefore
      <4> QED
        BY <4>1, <4>2, <4>3
    <3> QED
      BY <3>1, <3>3 DEF CpuSamplesTile
  <2> QED
    BY <1>1, <1>2, <1>3, <2>3, <2>5, <2>6 DEF ReadingsInOrder
<1> QED
  BY <1>5, <1>6

\* Every step of the loop keeps the invariant.
LEMMA LoopStep == LoopInv /\ [LoopNext]_loopVars => LoopInv'
<1> SUFFICES ASSUME LoopInv, [LoopNext]_loopVars PROVE LoopInv'
  OBVIOUS
<1>0. LoopTyped /\ TicksOnTime /\ ReadingsInOrder
  BY DEF LoopInv
<1>1. CASE Flush
  <2>1. Fires("flush") /\ busy' = setup.logs /\ UNCHANGED <<setup, now, usage, last, samples>>
    BY <1>1 DEF Flush
  <2>2. due' \in [Tickers -> Nat] /\ fired' \in [Tickers -> Nat] /\ TicksOnTime'
    BY <1>0, <2>1, FiresKeepsTicks DEF Tickers
  <2>3. LoopTyped'
    BY <1>0, <2>1, <2>2 DEF LoopTyped
  <2> QED
    BY <1>0, <2>1, <2>2, <2>3, SamePresent, ReadingsStay DEF LoopInv
<1>2. CASE LogFlushReturns
  <2>1. LoopTyped' /\ UNCHANGED <<now, usage, due, fired, last, samples>>
    BY <1>0, <1>2 DEF LogFlushReturns, LoopTyped
  <2>2. TicksOnTime'
    BY <1>0, <2>1 DEF TicksOnTime, Period
  <2> QED
    BY <1>0, <2>1, <2>2, SamePresent, ReadingsStay DEF LoopInv
<1>3. ASSUME NEW f \in flights, MetricsFlushEnds(f) PROVE LoopInv'
  <2>1. LoopTyped' /\ UNCHANGED <<now, usage, due, fired, last, samples>>
    BY <1>0, <1>3 DEF MetricsFlushEnds, LoopTyped
  <2>2. TicksOnTime'
    BY <1>0, <2>1 DEF TicksOnTime, Period
  <2> QED
    BY <1>0, <2>1, <2>2, SamePresent, ReadingsStay DEF LoopInv
<1>4. CASE CollectInstance
  <2>1. Fires("instance") /\ UNCHANGED <<setup, now, busy, usage, last, samples>>
    BY <1>4 DEF CollectInstance
  <2>2. due' \in [Tickers -> Nat] /\ fired' \in [Tickers -> Nat] /\ TicksOnTime'
    BY <1>0, <2>1, FiresKeepsTicks DEF Tickers
  <2>3. LoopTyped'
    BY <1>0, <2>1, <2>2 DEF LoopTyped
  <2> QED
    BY <1>0, <2>1, <2>2, <2>3, SamePresent, ReadingsStay DEF LoopInv
<1>5. ASSUME NEW readable \in BOOLEAN, CollectCpu(readable) PROVE LoopInv'
  <2>1. Fires("cpu") /\ UNCHANGED <<setup, now, busy, usage>>
    BY <1>5 DEF CollectCpu
  <2>2. due' \in [Tickers -> Nat] /\ fired' \in [Tickers -> Nat] /\ TicksOnTime'
    BY <1>0, <2>1, FiresKeepsTicks DEF Tickers
  <2>3. CASE ~readable
    <3>1. UNCHANGED <<last, samples>>
      BY <1>5, <2>3 DEF CollectCpu
    <3>2. LoopTyped'
      BY <1>0, <2>1, <2>2, <3>1 DEF LoopTyped
    <3> QED
      BY <1>0, <2>1, <2>2, <3>1, <3>2, SamePresent, ReadingsStay DEF LoopInv
  <2>4. CASE readable
    <3>1. /\ last' = Present
          /\ samples' = IF last # Unread /\ Computable(Present)
                        THEN Append(samples, [from |-> last, to |-> Present]) ELSE samples
      BY <1>5, <2>4 DEF CollectCpu, Present
    <3>2. last' \in Reading /\ samples' \in Seq(CpuSample) /\ ReadingsInOrder'
      BY <1>0, <2>1, <3>1, ReadingTaken
    <3>3. LoopTyped'
      BY <1>0, <2>1, <2>2, <3>2 DEF LoopTyped
    <3> QED
      BY <2>2, <3>2, <3>3 DEF LoopInv
  <2> QED
    BY <2>3, <2>4
<1>6. ASSUME NEW used \in 0..1, Advance(used) PROVE LoopInv'
  <2>1. now' = now + 1 /\ usage' = [usage EXCEPT !.value = usage.value + used] /\ UNCHANGED <<setup, due, busy, last, samples, fired>>
    BY <1>6 DEF Advance
  <2>2. LoopTyped'
    BY <1>0, <2>1 DEF LoopTyped
  <2>3. TicksOnTime'
    <3>1. \A t \in Tickers : fired[t] * Period[t] \in Nat
      BY <1>0, PeriodsPositive DEF LoopTyped
    <3>2. ASSUME NEW t \in Tickers PROVE due'[t] = (fired'[t] + 1) * Period[t] /\ fired'[t] * Period[t] <= now'
      <4>1. PICK m \in Nat : m = fired[t] * Period[t]
        BY <3>1
      <4>2. m <= now /\ now \in Nat /\ now' = now + 1
        BY <1>0, <2>1, <4>1 DEF TicksOnTime, LoopTyped
      <4> QED
        BY <1>0, <2>1, <4>1, <4>2 DEF TicksOnTime
    <3> QED
      BY <3>2 DEF TicksOnTime, Period
  <2>4. NotBefore(Present, Present')
    BY <1>0, <2>1 DEF LoopTyped, Present, NotBefore
  <2> QED
    BY <1>0, <2>1, <2>2, <2>3, <2>4, ReadingsStay DEF LoopInv
<1>7. CASE CounterRestarts
  <2>1. usage' = [value |-> 0, life |-> usage.life + 1] /\ UNCHANGED <<setup, now, due, busy, last, samples, fired>>
    BY <1>7 DEF CounterRestarts
  <2>2. LoopTyped'
    BY <1>0, <2>1 DEF LoopTyped
  <2>3. TicksOnTime'
    BY <1>0, <2>1 DEF TicksOnTime, Period
  <2>4. NotBefore(Present, Present')
    BY <1>0, <2>1 DEF LoopTyped, Present, NotBefore
  <2> QED
    BY <1>0, <2>1, <2>2, <2>3, <2>4, ReadingsStay DEF LoopInv
<1>8. CASE UNCHANGED loopVars
  <2>1. LoopTyped' /\ UNCHANGED <<now, usage, due, fired, last, samples>>
    BY <1>0, <1>8 DEF loopVars, LoopTyped
  <2>2. TicksOnTime'
    BY <1>0, <2>1 DEF TicksOnTime, Period
  <2> QED
    BY <1>0, <2>1, <2>2, SamePresent, ReadingsStay DEF LoopInv
<1> QED
  BY <1>1, <1>2, <1>3, <1>4, <1>5, <1>6, <1>7, <1>8 DEF LoopNext

\* The invariant says what the property does.
LEMMA LoopInvKeepsTime == LoopInv => LoopKeepsTime
<1> SUFFICES ASSUME LoopInv PROVE LoopKeepsTime
  OBVIOUS
<1>1. CpuSamplesTile
  BY DEF LoopInv, ReadingsInOrder
<1>2. ASSUME NEW t \in Tickers
      PROVE  fired[t] * Period[t] <= now /\ (due[t] > now => fired[t] = now \div Period[t])
  <2>1. fired[t] \in Nat /\ now \in Nat /\ Period[t] \in Nat \ {0}
    BY PeriodsPositive DEF LoopInv, LoopTyped
  <2>2. due[t] = (fired[t] + 1) * Period[t] /\ fired[t] * Period[t] <= now
    BY DEF LoopInv, TicksOnTime
  <2>3. ASSUME due[t] > now PROVE fired[t] = now \div Period[t]
    <3>1. PICK n \in Nat : n = fired[t]
      BY <2>1
    <3>2. PICK p \in Nat \ {0} : p = Period[t]
      BY <2>1
    <3>3. n * p <= now /\ now < (n + 1) * p
      BY <2>1, <2>2, <2>3, <3>1, <3>2
    <3> QED
      BY <2>1, <3>1, <3>2, <3>3, QuotientIs
  <2> QED
    BY <2>2, <2>3
<1> QED
  BY <1>1, <1>2 DEF LoopKeepsTime, TicksCaughtUp

\* The main loop of main.rs: for any periods, whatever holds the select up,
\* each ticker makes up for the ticks it missed, none fires ahead of time, and
\* the CPU samples tile the time they cover.
THEOREM LoopAlwaysKeepsTime == LoopSpec => []LoopKeepsTime
<1>1. LoopSpec => []LoopInv
  BY InitLoop, LoopStep, PTL DEF LoopSpec
<1> QED
  BY <1>1, LoopInvKeepsTime, PTL

-----------------------------------------------------------------------------
(* The metadata reporter: arithmetic.                                      *)

\* The retries wait: 1 << attempt is at least 1.
Shifts(a, g) == g = [n \in 0..a |-> IF n = 0 THEN 1 ELSE 2 * g[n-1]]

LEMMA BackoffPositive ==
  ASSUME NEW a \in Nat
  PROVE  RetryBackoff(a) \in Nat \ {0}
<1> DEFINE F == [n \in 1..a |-> [x \in Nat |-> 2 * x]]
<1>1. F \in [1..a -> [Nat -> Nat]] /\ \A n \in 1..a : \A x \in Nat : F[n][x] = 2 * x
  OBVIOUS
<1> HIDE DEF F
<1>2. PICK g \in [0..a -> Nat] : g[0] = 1 /\ \A n \in 1..a : g[n] = F[n][g[n-1]]
  <2>1. Solvable(a, Nat, 1, F)
    BY <1>1, Recursion
  <2> QED
    BY <2>1 DEF Solvable
<1>3. ASSUME NEW n \in 0..a PROVE g[n] = IF n = 0 THEN 1 ELSE 2 * g[n-1]
  <2>1. CASE n = 0
    BY <1>2, <2>1
  <2>2. CASE n # 0
    <3>1. n \in 1..a /\ n - 1 \in 0..a
      BY <2>2
    <3>2. g[n] = F[n][g[n-1]] /\ g[n-1] \in Nat
      BY <1>2, <3>1
    <3> QED
      BY <1>1, <2>2, <3>1, <3>2
  <2> QED
    BY <2>1, <2>2
<1> DEFINE k == [n \in 0..a |-> IF n = 0 THEN 1 ELSE 2 * g[n-1]]
<1>4. g = k
  BY <1>2, <1>3
<1>5. Shifts(a, g)
  BY <1>4 DEF Shifts
<1>6. PICK h : h = CHOOSE l : Shifts(a, l)
  OBVIOUS
<1>7. Shifts(a, h)
  BY <1>5, <1>6
<1>8. RetryBackoff(a) = h[a]
  BY <1>6 DEF RetryBackoff, Shifts
<1>9. \A n \in 0..a : h[n] = IF n = 0 THEN 1 ELSE 2 * h[n-1]
  BY <1>7 DEF Shifts
<1> DEFINE T == {n \in 0..a : h[n] \in Nat \ {0}}
<1>10. 0 \in T
  BY <1>9
<1>11. ASSUME NEW n \in 0..(a - 1), n \in T PROVE n + 1 \in T
  <2>1. n + 1 \in 0..a /\ n + 1 # 0 /\ (n + 1) - 1 = n
    OBVIOUS
  <2>2. h[n + 1] = 2 * h[n] /\ h[n] \in Nat \ {0}
    BY <1>9, <1>11, <2>1
  <2> QED
    BY <2>1, <2>2
<1> HIDE DEF T
<1>12. a \in T
  <2>1. \A n \in 0..a : n \in T
    BY <1>10, <1>11, CountUp
  <2> QED
    BY <2>1
<1> QED
  BY <1>8, <1>12 DEF T

LEMMA FirstBackoff == RetryBackoff(0) = 1
<1>1. 0..0 = {0}
  OBVIOUS
<1> DEFINE g == [n \in 0..0 |-> 1]
<1>2. Shifts(0, g)
  BY DEF Shifts
<1>3. PICK h : h = CHOOSE l : Shifts(0, l)
  OBVIOUS
<1>4. Shifts(0, h)
  BY <1>2, <1>3
<1>5. RetryBackoff(0) = h[0]
  BY <1>3 DEF RetryBackoff, Shifts
<1> QED
  BY <1>4, <1>5 DEF Shifts

\* a and b are a whole number of intervals apart.
Apart(a, b) == \E k \in Int : a - b = k * Interval

LEMMA MultipleOutside ==
  ASSUME NEW d \in Nat, NEW p \in Nat \ {0}
  PROVE  (1 + d) * p >= p /\ (-(1 + d)) * p < 0
<1>1. d * p \in Nat /\ (1 + d) * p = p + d * p /\ (-(1 + d)) * p = -(p + d * p)
  OBVIOUS
<1> QED
  BY <1>1

LEMMA MultipleOf ==
  ASSUME NEW m \in Int, NEW p \in Nat \ {0}
  PROVE  m % p = 0 <=> \E k \in Int : m = k * p
<1>1. ASSUME NEW k \in Int, m = k * p PROVE m % p = 0
  <2>1. PICK d \in Int : d = m \div p
    OBVIOUS
  <2>2. m = p * d + (m % p) /\ 0 <= m % p /\ m % p < p
    BY <2>1
  <2>3. PICK q \in Int : q = k - d
    OBVIOUS
  <2>4. m % p = q * p /\ q * p < p /\ 0 <= q * p
    <3>1. q * p = k * p - p * d
      BY <2>3
    <3> QED
      BY <1>1, <2>2, <3>1
  <2>5. q < 1 /\ q > -1
    <3>1. ASSUME q >= 1 PROVE FALSE
      <4>1. PICK e \in Nat : q = 1 + e
        <5>1. q - 1 \in Nat /\ q = 1 + (q - 1)
          BY <3>1
        <5> QED
          BY <5>1
      <4> QED
        BY <2>4, <4>1, MultipleOutside
    <3>2. ASSUME q <= -1 PROVE FALSE
      <4>1. PICK e \in Nat : q = -(1 + e)
        <5>1. -q - 1 \in Nat /\ q = -(1 + (-q - 1))
          BY <3>2
        <5> QED
          BY <5>1
      <4> QED
        BY <2>4, <4>1, MultipleOutside
    <3> QED
      BY <3>1, <3>2
  <2>6. q = 0
    BY <2>5
  <2> QED
    BY <2>4, <2>6
<1>2. ASSUME m % p = 0 PROVE m \div p \in Int /\ m = (m \div p) * p
  BY <1>2
<1> QED
  BY <1>1, <1>2

LEMMA AlignedIsApart ==
  ASSUME NEW a \in Int, NEW b \in Int
  PROVE  (a - b) % Interval = 0 <=> Apart(a, b)
<1>1. Interval \in Nat \ {0} /\ a - b \in Int
  BY MetadataReporterAssumption
<1> QED
  BY <1>1, MultipleOf DEF Apart

LEMMA ApartAdds ==
  ASSUME NEW a \in Int, NEW b \in Int, NEW c \in Int, Apart(a, b), Apart(b, c)
  PROVE  Apart(a, c)
<1>1. PICK k \in Int : a - b = k * Interval
  BY DEF Apart
<1>2. PICK l \in Int : b - c = l * Interval
  BY DEF Apart
<1>3. Interval \in Int
  BY MetadataReporterAssumption
<1>4. a - c = (k + l) * Interval /\ k + l \in Int
  BY <1>1, <1>2, <1>3
<1> QED
  BY <1>4 DEF Apart

\* Skipped ticks: the next one is ahead of the clock and on the same grid.
LEMMA NextTickAhead ==
  ASSUME NEW d \in Nat, NEW c \in Nat, c >= d
  PROVE  NextTick(d, c) \in Nat /\ NextTick(d, c) > c /\ Apart(NextTick(d, c), d)
<1>1. PICK p \in Nat \ {0} : p = Interval
  BY MetadataReporterAssumption
<1>2. PICK m : m = (c - d) % p
  OBVIOUS
<1>3. PICK q : q = (c - d) \div p
  OBVIOUS
<1>4. m \in Nat /\ m < p /\ q \in Int /\ c - d = q * p + m
  BY <1>2, <1>3
<1>5. NextTick(d, c) = c + p - m
  BY <1>1, <1>2 DEF NextTick
<1>6. (c + p - m) - d = (q + 1) * p
  BY <1>4
<1> QED
  BY <1>1, <1>4, <1>5, <1>6 DEF Apart

-----------------------------------------------------------------------------
(* The metadata reporter: the inductive invariant.                         *)

Body == [reason : {"startup", "periodic", "none"}, started : Int]
Sent == [body : Body, at : Nat, status : Nat]

Before == {"start", "fetching", "collected", "off"}

ReporterTyped ==
  /\ stage \in Before \cup {"sending", "sleeping", "waiting"}
  /\ clock \in Nat /\ tick \in Nat
  /\ sends \in Seq(Sent)
  /\ report \in [body : Body, attempt : Nat, wake : Nat]

\* A reporter that gets as far as collecting has its key, its site and, when it
\* goes on, its identity.
IdentityKnown ==
  /\ stage = "fetching" =>
       /\ platform.key /\ platform.site /\ platform.name # Unknown
       /\ identity = [name |-> platform.name, region |-> platform.region, project |-> platform.project]
  /\ stage \in {"collected", "sending", "sleeping", "waiting"} =>
       platform.key /\ platform.site /\ identity.name # Unknown /\ identity.project # Unknown

InReport == stage \in {"sending", "sleeping"}

\* The bodies sent and the one being sent.
Reported == Bodies \cup (IF InReport THEN {report.body} ELSE {})

PeriodicReports == {b \in Reported : b.reason = "periodic"}

\* The startup report is one, and the first.
StartupFirst ==
  /\ stage \in Before => sends = <<>>
  /\ \A b, c \in Reported : b.reason = "startup" /\ c.reason = "startup" => b = c
  /\ InReport /\ report.body.reason = "startup" => PeriodicReports = {}

\* Every periodic report began before the tick to come, and between any two lies
\* a tick.
ReportsSpaced ==
  /\ \A b \in PeriodicReports : b.started < tick
  /\ \A b, c \in PeriodicReports : b.started < c.started =>
       \E edge \in (b.started + 1)..c.started : Apart(tick, edge)

Tries(b) == {i \in DOMAIN sends : sends[i].body = b}
Transient(status) == status = 0 \/ ShouldRetryStatus(status)

\* The tries of b are in order: all but the last failed for a while, and each
\* came a second after the one before at the earliest.
TriesInOrder(b) ==
  /\ Cardinality(Tries(b)) <= MaxReportAttempts
  /\ \A i, j \in Tries(b) : i < j =>
       Transient(sends[i].status) /\ sends[j].at >= sends[i].at + 1

\* The report being sent has used as many attempts as it says, none of them
\* settled it, and the next one is not before its time.
TriesCounted ==
  /\ report.attempt < MaxReportAttempts
  /\ Cardinality(Tries(report.body)) = report.attempt
  /\ \A i \in Tries(report.body) : Transient(sends[i].status) /\ sends[i].at + 1 <= report.wake
  /\ stage = "sending" => report.wake <= clock

TriesKept == (InReport => TriesCounted) /\ \A b \in Bodies : TriesInOrder(b)

ReporterInv == ReporterTyped /\ IdentityKnown /\ StartupFirst /\ ReportsSpaced /\ TriesKept

LEMMA TriesFinite ==
  ASSUME ReporterTyped, NEW b
  PROVE  IsFiniteSet(Tries(b)) /\ Cardinality(Tries(b)) \in Nat
<1>1. DOMAIN sends = 1..Len(sends) /\ Len(sends) \in Nat
  BY DEF ReporterTyped
<1>2. IsFiniteSet(1..Len(sends))
  BY <1>1, FS_Interval
<1>3. IsFiniteSet(Tries(b))
  BY <1>1, <1>2, FS_Subset DEF Tries
<1> QED
  BY <1>3, FS_CardinalityType

LEMMA ReporterStarts == ReporterInit => ReporterInv
<1> SUFFICES ASSUME ReporterInit PROVE ReporterInv
  OBVIOUS
<1>1. ReporterTyped
  BY DEF ReporterInit, ReporterTyped, Before, NoReport, Body
<1>2. stage = "start" /\ Bodies = {} /\ sends = <<>>
  BY DEF ReporterInit, Bodies
<1>3. Reported = {} /\ PeriodicReports = {}
  BY <1>2 DEF Reported, PeriodicReports, InReport
<1>4. IdentityKnown
  BY <1>2 DEF IdentityKnown
<1> QED
  BY <1>1, <1>2, <1>3, <1>4 DEF ReporterInv, StartupFirst, ReportsSpaced, TriesKept, InReport

\* A step that sends nothing and begins no report.
LEMMA SameReports ==
  ASSUME ReporterInv, UNCHANGED <<sends, report, tick>>, clock' \in Nat, clock <= clock',
         ReporterTyped', IdentityKnown',
         \/ stage' = stage
         \/ stage \in Before /\ stage' \in Before
         \/ stage = "sleeping" /\ stage' = "sending" /\ report.wake <= clock'
  PROVE  ReporterInv'
<1>1. InReport' = InReport
  BY DEF InReport, Before
<1>2. UNCHANGED <<Bodies, Reported, PeriodicReports>>
  BY <1>1 DEF Bodies, Reported, PeriodicReports
<1>3. StartupFirst'
  BY <1>1, <1>2 DEF StartupFirst, ReporterInv, Before
<1>4. ReportsSpaced'
  BY <1>2 DEF ReportsSpaced, ReporterInv, Apart
<1>5. TriesKept'
  <2>1. ASSUME InReport PROVE TriesCounted'
    <3>1. TriesCounted /\ clock \in Nat /\ report.wake \in Nat
      BY <2>1 DEF ReporterInv, TriesKept, ReporterTyped
    <3>2. stage' = "sending" => report.wake <= clock'
      BY <2>1, <3>1 DEF TriesCounted, InReport, Before
    <3> QED
      BY <3>1, <3>2 DEF TriesCounted, Tries
  <2>2. \A b \in Bodies : TriesInOrder(b)'
    BY DEF ReporterInv, TriesKept, TriesInOrder, Tries
  <2> QED
    BY <1>1, <1>2, <2>1, <2>2 DEF TriesKept
<1> QED
  BY <1>3, <1>4, <1>5 DEF ReporterInv

LEMMA QuietReporterSteps ==
  ASSUME ReporterInv,
         \/ Start \/ Wake \/ TimePasses \/ UNCHANGED reporterVars
         \/ \E region, project : Fetched(region, project)
         \/ StartupReport /\ ~platform.proxy
  PROVE  ReporterInv'
<1>1. ReporterTyped /\ IdentityKnown
  BY DEF ReporterInv
<1>2. UNCHANGED <<sends, report, tick, platform>>
  BY DEF Start, Wake, TimePasses, reporterVars, Fetched, StartupReport
<1>3. clock' \in Nat /\ clock <= clock'
  <2>1. CASE TimePasses
    BY <1>1, <2>1 DEF ReporterTyped, TimePasses
  <2>2. CASE UNCHANGED clock
    BY <1>1, <2>2 DEF ReporterTyped
  <2> QED
    BY <2>1, <2>2 DEF Start, Wake, reporterVars, Fetched, StartupReport
<1>4. \/ stage' = stage
      \/ stage \in Before /\ stage' \in Before
      \/ stage = "sleeping" /\ stage' = "sending" /\ report.wake <= clock'
  <2>1. CASE Wake
    BY <1>1, <2>1 DEF Wake, ReporterTyped
  <2> QED
    BY <2>1 DEF Start, TimePasses, reporterVars, Fetched, StartupReport, Before
<1>5. ReporterTyped'
  BY <1>1, <1>2, <1>3, <1>4 DEF ReporterTyped
<1>6. IdentityKnown'
  <2>1. CASE Start
    BY <2>1 DEF Start, IdentityKnown, AzureIdentity, AzureKnown, GcpNamed
  <2>2. ASSUME NEW region, NEW project, Fetched(region, project) PROVE IdentityKnown'
    <3>1. /\ identity = [name |-> platform.name, region |-> platform.region, project |-> platform.project]
          /\ platform.key /\ platform.site /\ platform.name # Unknown
      BY <1>1, <2>2 DEF Fetched, IdentityKnown
    <3>2. identity'.name = platform.name
      BY <2>2, <3>1 DEF Fetched
    <3>3. stage' = "off" \/ (stage' = "collected" /\ identity'.project # Unknown)
      BY <2>2 DEF Fetched, Complete
    <3> QED
      BY <1>2, <3>1, <3>2, <3>3 DEF IdentityKnown
  <2>3. CASE Wake \/ TimePasses \/ UNCHANGED reporterVars \/ (StartupReport /\ ~platform.proxy)
    BY <1>1, <1>2, <2>3 DEF Wake, TimePasses, reporterVars, StartupReport, IdentityKnown
  <2> QED
    BY <2>1, <2>2, <2>3
<1> QED
  BY <1>2, <1>3, <1>4, <1>5, <1>6, SameReports

\* A report begins with a body nobody has seen.
LEMMA FreshReport ==
  ASSUME ReporterInv, NEW reason \in {"startup", "periodic"}, BeginReport(reason),
         UNCHANGED <<platform, identity, clock, sends>>, ~InReport, ReportsSpaced', StartupFirst',
         stage \in {"collected", "waiting"}, tick' \in Nat, Build(reason, clock) \notin Bodies
  PROVE  ReporterInv'
<1>1. /\ stage' = "sending" /\ InReport' /\ report'.body = Build(reason, clock)
      /\ report'.attempt = 0 /\ report'.wake = clock
  BY DEF BeginReport, InReport
<1>2. ReporterTyped'
  <2>1. Build(reason, clock) \in Body
    BY DEF Build, Body, ReporterInv, ReporterTyped
  <2> QED
    BY <2>1 DEF ReporterInv, ReporterTyped, BeginReport
<1>3. IdentityKnown'
  BY <1>1 DEF ReporterInv, IdentityKnown
<1>4. TriesKept'
  <2>1. Bodies' = Bodies
    BY DEF Bodies
  <2>2. Tries(report.body)' = {}
    BY <1>1 DEF Tries, Bodies
  <2>3. TriesCounted'
    <3>1. Cardinality({}) = 0
      BY FS_EmptySet
    <3> QED
      BY <1>1, <2>2, <3>1, MetadataReporterAssumption DEF TriesCounted, ReporterInv, ReporterTyped
  <2>4. \A b \in Bodies : TriesInOrder(b)'
    BY DEF ReporterInv, TriesKept, TriesInOrder, Tries
  <2> QED
    BY <2>1, <2>3, <2>4 DEF TriesKept
<1> QED
  BY <1>2, <1>3, <1>4 DEF ReporterInv

LEMMA StartupReportStep ==
  ASSUME ReporterInv, StartupReport, platform.proxy
  PROVE  ReporterInv'
<1>1. /\ stage = "collected" /\ BeginReport("startup")
      /\ UNCHANGED <<platform, identity, clock, tick, sends>>
  BY DEF StartupReport
<1>2. sends = <<>> /\ Bodies = {} /\ Bodies' = {}
  BY <1>1 DEF ReporterInv, StartupFirst, Before, Bodies
<1>3. Reported' = {Build("startup", clock)} /\ stage' = "sending"
  BY <1>1, <1>2 DEF Reported, InReport, BeginReport
<1>4. PeriodicReports' = {}
  BY <1>3 DEF PeriodicReports, Build
<1>5. StartupFirst' /\ ReportsSpaced'
  BY <1>3, <1>4 DEF StartupFirst, ReportsSpaced, Before
<1>6. ~InReport /\ tick' \in Nat
  BY <1>1 DEF InReport, ReporterInv, ReporterTyped
<1> QED
  BY <1>1, <1>2, <1>5, <1>6, FreshReport

LEMMA TickStep ==
  ASSUME ReporterInv, Tick
  PROVE  ReporterInv'
<1>1. /\ stage = "waiting" /\ BeginReport("periodic") /\ clock >= tick
      /\ tick' = NextTick(tick, clock) /\ UNCHANGED <<platform, identity, clock, sends>>
  BY DEF Tick
<1>2. clock \in Nat /\ tick \in Nat /\ ~InReport
  BY <1>1 DEF ReporterInv, ReporterTyped, InReport
<1>3. tick' \in Nat /\ tick' > clock /\ Apart(tick', tick)
  BY <1>1, <1>2, NextTickAhead
<1>4. PICK new : new = Build("periodic", clock)
  OBVIOUS
<1>5. new.reason = "periodic" /\ new.started = clock
  BY <1>4 DEF Build
<1>6. Reported = Bodies /\ Reported' = Bodies \cup {new} /\ stage' = "sending"
  BY <1>1, <1>2, <1>4 DEF Reported, Bodies, InReport, BeginReport
<1>7. \A b \in PeriodicReports : b.started < tick /\ b.started \in Int
  <2>1. \A i \in DOMAIN sends : sends[i].body.started \in Int
    <3>1. \A i \in DOMAIN sends : sends[i] \in Sent
      BY DEF ReporterInv, ReporterTyped
    <3>2. \A x \in Sent : x.body \in Body
      BY DEF Sent
    <3>3. \A x \in Body : x.started \in Int
      BY DEF Body
    <3> QED
      BY <3>1, <3>2, <3>3
  <2>2. \A b \in Bodies : b.started \in Int
    BY <2>1 DEF Bodies
  <2> QED
    BY <1>6, <2>2 DEF ReporterInv, ReportsSpaced, PeriodicReports
<1>8. new \notin Bodies
  <2>1. ASSUME new \in Bodies PROVE FALSE
    <3>1. new \in PeriodicReports
      BY <1>5, <1>6, <2>1 DEF PeriodicReports
    <3> QED
      BY <1>1, <1>2, <1>5, <1>7, <3>1
  <2> QED
    BY <2>1
<1>9. PeriodicReports' = PeriodicReports \cup {new}
  BY <1>5, <1>6 DEF PeriodicReports
<1>10. StartupFirst'
  <2>1. report'.body = new
    BY <1>1, <1>4 DEF BeginReport
  <2> QED
    BY <1>5, <1>6, <2>1 DEF ReporterInv, StartupFirst, Before
<1>11. ReportsSpaced'
  <2>1. \A b \in PeriodicReports' : b.started < tick'
    BY <1>1, <1>2, <1>3, <1>5, <1>7, <1>9
  <2>2. ASSUME NEW b \in PeriodicReports', NEW c \in PeriodicReports', b.started < c.started
        PROVE  \E edge \in (b.started + 1)..c.started : Apart(tick', edge)
    <3>1. b \in PeriodicReports
      BY <1>1, <1>2, <1>5, <1>7, <1>9, <2>2
    <3>2. CASE c = new
      <4>1. tick \in (b.started + 1)..c.started
        BY <1>1, <1>2, <1>5, <1>7, <3>1, <3>2
      <4> QED
        BY <1>3, <4>1
    <3>3. CASE c \in PeriodicReports
      <4>1. PICK edge \in (b.started + 1)..c.started : Apart(tick, edge)
        BY <2>2, <3>1, <3>3 DEF ReporterInv, ReportsSpaced
      <4>2. edge \in Int
        BY <1>7, <3>1, <3>3
      <4>3. Apart(tick', edge)
        BY <1>2, <1>3, <4>1, <4>2, ApartAdds
      <4> QED
        BY <4>3
    <3> QED
      BY <1>9, <3>2, <3>3
  <2> QED
    BY <2>1, <2>2 DEF ReportsSpaced, Apart
<1> QED
  BY <1>1, <1>2, <1>3, <1>4, <1>8, <1>10, <1>11, FreshReport

\* One more try of the report being sent.
LEMMA OneMoreTry ==
  ASSUME ReporterInv, stage = "sending", NEW status \in Nat, NEW body, body = report.body,
         sends' = Append(sends, [body |-> body, at |-> clock, status |-> status])
  PROVE  /\ sends' \in Seq(Sent) /\ Bodies' = Bodies \cup {body}
         /\ \A b \in Bodies \cup {body} : TriesInOrder(b)'
         /\ Cardinality(Tries(body)') = report.attempt + 1
<1> DEFINE new == [body |-> body, at |-> clock, status |-> status]
<1>1. new \in Sent /\ new.body = body /\ new.at = clock /\ new.status = status
  BY DEF ReporterInv, ReporterTyped, Sent
<1> HIDE DEF new
<1>2. PICK n \in Nat : n = Len(sends)
  BY DEF ReporterInv, ReporterTyped
<1>3. sends \in Seq(Sent) /\ sends' = Append(sends, new)
  BY DEF ReporterInv, ReporterTyped, new
<1>4. /\ sends' \in Seq(Sent) /\ DOMAIN sends = 1..n /\ DOMAIN sends' = 1..(n + 1) /\ sends'[n + 1] = new
      /\ \A i \in 1..n : sends'[i] = sends[i]
  BY <1>1, <1>2, <1>3
<1>5. \A i \in 1..(n + 1) : i \in 1..n \/ i = n + 1
  OBVIOUS
<1>6. \A i \in 1..n : i \in 1..(n + 1)
  OBVIOUS
<1>7. n + 1 \in 1..(n + 1) /\ n + 1 \notin 1..n
  OBVIOUS
<1>8. ASSUME NEW b PROVE Tries(b)' = IF b = body THEN Tries(b) \cup {n + 1} ELSE Tries(b)
  BY <1>1, <1>4, <1>5, <1>6, <1>7 DEF Tries
<1>9. Bodies' = Bodies \cup {body}
  <2>1. \A x : x \in Bodies' <=> \E i \in 1..(n + 1) : x = sends'[i].body
    BY <1>4 DEF Bodies
  <2>2. \A x : x \in Bodies <=> \E i \in 1..n : x = sends[i].body
    BY <1>4 DEF Bodies
  <2>3. ASSUME NEW x PROVE x \in Bodies' <=> x \in Bodies \/ x = body
    BY <1>1, <1>4, <1>5, <1>6, <1>7, <2>1, <2>2
  <2> QED
    BY <2>3
<1>10. \A b : Tries(b) \subseteq 1..n
  BY <1>4 DEF Tries
<1>11. ASSUME NEW b \in Bodies, b # body PROVE TriesInOrder(b)'
  <2>1. Tries(b)' = Tries(b) /\ TriesInOrder(b)
    BY <1>8, <1>11 DEF ReporterInv, TriesKept, Tries
  <2>2. \A i \in Tries(b) : sends'[i] = sends[i]
    BY <1>4, <1>10
  <2>3. ASSUME NEW i \in Tries(b), NEW j \in Tries(b), i < j
        PROVE  Transient(sends'[i].status) /\ sends'[j].at >= sends'[i].at + 1
    BY <2>1, <2>2, <2>3 DEF TriesInOrder
  <2>4. Cardinality(Tries(b)') <= MaxReportAttempts
    BY <2>1 DEF TriesInOrder
  <2> QED
    BY <2>1, <2>3, <2>4 DEF TriesInOrder, Transient, ShouldRetryStatus
<1>12. TriesCounted
  BY DEF ReporterInv, TriesKept, InReport
<1>14. Tries(body)' = Tries(body) \cup {n + 1} /\ n + 1 \notin Tries(body)
  BY <1>7, <1>8, <1>10
<1>15. Cardinality(Tries(body)') = report.attempt + 1
  <2>1. IsFiniteSet(Tries(body)) /\ Cardinality(Tries(body)) = report.attempt
    BY <1>12, TriesFinite DEF TriesCounted, ReporterInv
  <2>2. Cardinality(Tries(body) \cup {n + 1}) = Cardinality(Tries(body)) + 1
    BY <1>14, <2>1, FS_AddElement
  <2> QED
    BY <1>14, <2>1, <2>2
<1>16. report.attempt + 1 <= MaxReportAttempts
  BY <1>12, MetadataReporterAssumption DEF TriesCounted, ReporterInv, ReporterTyped
<1>17. ASSUME NEW i \in Tries(body)', NEW j \in Tries(body)', i < j
       PROVE  Transient(sends'[i].status) /\ sends'[j].at >= sends'[i].at + 1
  <2>1. i \in Tries(body) /\ i \in 1..n
    <3>1. i \in 1..(n + 1) /\ j \in 1..(n + 1)
      BY <1>6, <1>7, <1>10, <1>14
    <3>2. i # n + 1
      BY <1>17, <3>1
    <3> QED
      BY <1>10, <1>14, <3>2
  <2>2. /\ Transient(sends[i].status) /\ sends[i].at + 1 <= report.wake /\ sends'[i] = sends[i]
        /\ report.wake <= clock /\ sends[i].at \in Nat /\ clock \in Nat /\ report.wake \in Nat
    <3>1. Transient(sends[i].status) /\ sends[i].at + 1 <= report.wake /\ report.wake <= clock
      BY <1>12, <2>1 DEF TriesCounted
    <3>2. sends[i] \in Sent /\ clock \in Nat /\ report.wake \in Nat
      BY <1>4, <2>1 DEF ReporterInv, ReporterTyped
    <3>3. sends[i].at \in Nat
      BY <3>2 DEF Sent
    <3> QED
      BY <1>4, <2>1, <3>1, <3>2, <3>3
  <2>3. CASE j = n + 1
    <3>1. sends'[j].at = clock
      BY <1>1, <1>4, <2>3
    <3>2. clock >= sends[i].at + 1
      BY <2>2
    <3> QED
      BY <2>2, <3>1, <3>2
  <2>4. CASE j # n + 1
    <3>1. j \in Tries(body) /\ j \in 1..n
      BY <1>10, <1>14, <2>4
    <3>2. sends[j].at >= sends[i].at + 1
      <4>1. body \in Bodies
        BY <1>4, <2>1 DEF Tries, Bodies
      <4> QED
        BY <1>17, <2>1, <3>1, <4>1 DEF ReporterInv, TriesKept, TriesInOrder
    <3> QED
      BY <1>4, <2>2, <3>1, <3>2
  <2> QED
    BY <2>3, <2>4
<1>18. TriesInOrder(body)'
  BY <1>15, <1>16, <1>17 DEF TriesInOrder, Transient, ShouldRetryStatus
<1> QED
  BY <1>4, <1>9, <1>11, <1>15, <1>18

LEMMA SendAttemptStep ==
  ASSUME ReporterInv, NEW status \in {0, 202, 400, 429, 500}, SendAttempt(status)
  PROVE  ReporterInv'
<1>1. PICK body : body = report.body
  OBVIOUS
<1>2. /\ stage = "sending" /\ UNCHANGED <<platform, identity, clock>>
      /\ sends' = Append(sends, [body |-> body, at |-> clock, status |-> status])
  BY <1>1 DEF SendAttempt
<1>3. /\ sends' \in Seq(Sent) /\ Bodies' = Bodies \cup {body}
      /\ \A b \in Bodies' : TriesInOrder(b)'
      /\ Cardinality(Tries(body)') = report.attempt + 1
  BY <1>1, <1>2, OneMoreTry
<1>4. InReport /\ Reported = Bodies \cup {body}
  BY <1>1, <1>2 DEF InReport, Reported
<1>5. ReporterTyped /\ IdentityKnown /\ StartupFirst /\ ReportsSpaced /\ TriesKept
  BY DEF ReporterInv
<1>6. clock \in Nat /\ tick \in Nat /\ report \in [body : Body, attempt : Nat, wake : Nat]
  BY <1>5 DEF ReporterTyped
<1>7. CASE EndReport
  <2>1. stage' = "waiting" /\ report' = NoReport
    BY <1>7 DEF EndReport
  <2>2. tick' \in Nat /\ (body.reason # "startup" => tick' = tick)
    BY <1>1, <1>6, <1>7, MetadataReporterAssumption DEF EndReport
  <2>3. ReporterTyped'
    BY <1>2, <1>3, <1>6, <2>1, <2>2 DEF ReporterTyped, NoReport, Body
  <2>4. IdentityKnown'
    BY <1>2, <1>5, <2>1 DEF IdentityKnown
  <2>5. ~InReport' /\ Reported' = Reported /\ PeriodicReports' = PeriodicReports
    BY <1>3, <1>4, <2>1 DEF InReport, Reported, PeriodicReports
  <2>6. StartupFirst'
    BY <1>5, <2>1, <2>5 DEF StartupFirst, Before
  <2>7. ReportsSpaced'
    <3>1. CASE body.reason = "startup"
      <4>1. PeriodicReports = {}
        BY <1>1, <1>4, <1>5, <3>1 DEF StartupFirst
      <4> QED
        BY <2>5, <4>1 DEF ReportsSpaced
    <3>2. CASE body.reason # "startup"
      BY <1>5, <2>2, <2>5, <3>2 DEF ReportsSpaced, Apart
    <3> QED
      BY <3>1, <3>2
  <2>8. TriesKept'
    BY <1>3, <2>5 DEF TriesKept
  <2> QED
    BY <2>3, <2>4, <2>6, <2>7, <2>8 DEF ReporterInv
<1>8. CASE /\ Transient(status) /\ report.attempt + 1 < MaxReportAttempts
           /\ stage' = "sleeping" /\ UNCHANGED tick
           /\ report' = [report EXCEPT !.attempt = @ + 1,
                                       !.wake = clock + RetryBackoff(report.attempt)]
  <2>1. PICK pause \in Nat \ {0} : pause = RetryBackoff(report.attempt)
    BY <1>6, BackoffPositive
  <2>2. /\ report' \in [body : Body, attempt : Nat, wake : Nat] /\ report'.body = body
        /\ report'.attempt = report.attempt + 1 /\ report'.wake = clock + pause
    <3>1. PICK a \in Nat : a = report.attempt + 1
      BY <1>6
    <3>2. PICK w \in Nat : w = clock + pause
      BY <1>6
    <3>3. report' = [report EXCEPT !.attempt = a, !.wake = w]
      BY <1>8, <2>1, <3>1, <3>2
    <3>4. report' = [body |-> body, attempt |-> a, wake |-> w]
      BY <1>1, <1>6, <3>3
    <3>5. body \in Body
      BY <1>1, <1>6
    <3> QED
      BY <3>1, <3>2, <3>4, <3>5
  <2>3. ReporterTyped'
    BY <1>2, <1>3, <1>6, <1>8, <2>2 DEF ReporterTyped
  <2>4. IdentityKnown'
    BY <1>2, <1>5, <1>8 DEF IdentityKnown
  <2>5. InReport' /\ Reported' = Reported /\ PeriodicReports' = PeriodicReports
    BY <1>3, <1>4, <1>8, <2>2 DEF InReport, Reported, PeriodicReports
  <2>6. StartupFirst'
    BY <1>1, <1>4, <1>5, <1>8, <2>2, <2>5 DEF StartupFirst, Before
  <2>7. ReportsSpaced'
    BY <1>5, <1>8, <2>5 DEF ReportsSpaced, Apart
  <2>8. TriesCounted'
    <3>1. TriesCounted
      BY <1>4, <1>5 DEF TriesKept
    <3>2. PICK n \in Nat : n = Len(sends)
      BY <1>5 DEF ReporterTyped
    <3>3. /\ DOMAIN sends = 1..n /\ DOMAIN sends' = 1..(n + 1)
          /\ sends'[n + 1].at = clock /\ sends'[n + 1].status = status
          /\ \A i \in 1..n : sends'[i] = sends[i]
      BY <1>2, <1>5, <3>2 DEF ReporterTyped
    <3>4. ASSUME NEW i \in Tries(body)'
          PROVE  Transient(sends'[i].status) /\ sends'[i].at + 1 <= clock + pause
      <4>1. i \in 1..(n + 1) /\ sends'[i].body = body
        BY <3>3 DEF Tries
      <4>2. CASE i = n + 1
        BY <1>6, <1>8, <3>3, <4>2
      <4>3. CASE i # n + 1
        <5>1. i \in 1..n
          BY <4>1, <4>3
        <5>2. sends'[i] = sends[i] /\ i \in Tries(report.body)
          BY <1>1, <3>3, <4>1, <5>1 DEF Tries
        <5>3. /\ Transient(sends[i].status) /\ sends[i].at + 1 <= report.wake
              /\ report.wake <= clock
          BY <1>2, <3>1, <5>2 DEF TriesCounted
        <5>4. sends[i].at \in Nat /\ report.wake \in Nat
          <6>1. sends[i] \in Sent
            BY <1>5, <3>3, <5>1 DEF ReporterTyped
          <6> QED
            BY <1>6, <6>1 DEF Sent
        <5>5. sends[i].at + 1 <= clock + pause
          BY <1>6, <5>3, <5>4
        <5> QED
          BY <5>2, <5>3, <5>5
      <4> QED
        BY <4>2, <4>3
    <3>5. Tries(report.body)' = Tries(body)'
      BY <2>2 DEF Tries
    <3>6. Cardinality(Tries(report.body)') = report'.attempt /\ report'.attempt < MaxReportAttempts
      BY <1>3, <1>8, <2>2, <3>5
    <3>7. \A i \in Tries(report.body)' : Transient(sends'[i].status) /\ sends'[i].at + 1 <= report'.wake
      BY <2>2, <3>4, <3>5
    <3> QED
      BY <1>8, <3>6, <3>7 DEF TriesCounted, Transient, ShouldRetryStatus
  <2>9. TriesKept'
    BY <1>3, <2>8 DEF TriesKept
  <2> QED
    BY <2>3, <2>4, <2>6, <2>7, <2>9 DEF ReporterInv
<1> QED
  BY <1>7, <1>8 DEF SendAttempt, Transient

LEMMA ReporterStep == ReporterInv /\ [ReporterNext]_reporterVars => ReporterInv'
<1> SUFFICES ASSUME ReporterInv, [ReporterNext]_reporterVars PROVE ReporterInv'
  OBVIOUS
<1>1. CASE StartupReport
  <2>1. CASE platform.proxy
    BY <1>1, <2>1, StartupReportStep
  <2>2. CASE ~platform.proxy
    BY <1>1, <2>2, QuietReporterSteps
  <2> QED
    BY <2>1, <2>2
<1>2. CASE \/ Start \/ Wake \/ TimePasses \/ UNCHANGED reporterVars
           \/ \E region, project : Fetched(region, project)
  BY <1>2, QuietReporterSteps
<1>3. CASE Tick
  BY <1>3, TickStep
<1>4. ASSUME NEW status \in {0, 202, 400, 429, 500}, SendAttempt(status) PROVE ReporterInv'
  BY <1>4, SendAttemptStep
<1> QED
  BY <1>1, <1>2, <1>3, <1>4 DEF ReporterNext

\* The metadata reporter, for every interval and every number of attempts: a
\* freeze costs reports and never brings a burst of them, and a body is sent
\* again only after a transient failure, in its time and MAX_ATTEMPTS times at
\* most.
THEOREM ReportsAlwaysRare == ReporterSpec => []ReportsAreRare
<1>1. ReporterInv => ReportsAreRare
  <2> SUFFICES ASSUME ReporterInv PROVE ReportsAreRare
    OBVIOUS
  <2>1. Bodies \subseteq Reported
    BY DEF Reported
  <2>2. \A b \in Bodies : b.started \in Int
    <3>1. \A i \in DOMAIN sends : sends[i] \in Sent
      BY DEF ReporterInv, ReporterTyped
    <3>2. \A x \in Sent : x.body \in Body
      BY DEF Sent
    <3>3. \A x \in Body : x.started \in Int
      BY DEF Body
    <3> QED
      BY <3>1, <3>2, <3>3 DEF Bodies
  <2>3. OneReportPerInterval
    <3> SUFFICES ASSUME NEW b \in PeriodicBodies, NEW c \in PeriodicBodies, b.started < c.started
                 PROVE  \E edge \in (b.started + 1)..c.started : (tick - edge) % Interval = 0
      BY DEF OneReportPerInterval
    <3>1. b \in PeriodicReports /\ c \in PeriodicReports
      BY <2>1 DEF PeriodicReports, PeriodicBodies
    <3>2. PICK edge \in (b.started + 1)..c.started : Apart(tick, edge)
      BY <3>1 DEF ReporterInv, ReportsSpaced
    <3>3. tick \in Int /\ edge \in Int
      BY <2>2 DEF PeriodicBodies, ReporterInv, ReporterTyped
    <3> QED
      BY <3>2, <3>3, AlignedIsApart
  <2>4. sends # <<>> => /\ platform.key /\ platform.site
                        /\ identity.name # Unknown /\ identity.project # Unknown
    BY DEF ReporterInv, StartupFirst, IdentityKnown, ReporterTyped
  <2>5. Cardinality(StartupBodies) <= 1
    <3>1. \A b, c \in StartupBodies : b = c
      BY <2>1 DEF StartupBodies, ReporterInv, StartupFirst
    <3>2. CASE StartupBodies = {}
      BY <3>2, FS_EmptySet
    <3>3. CASE StartupBodies # {}
      <4>1. PICK b \in StartupBodies : TRUE
        BY <3>3
      <4>2. StartupBodies = {b}
        BY <3>1, <4>1
      <4>3. Cardinality({b}) = 1
        BY FS_Singleton
      <4> QED
        BY <4>2, <4>3
    <3> QED
      BY <3>2, <3>3
  <2>6. ASSUME NEW b \in Bodies
        PROVE  /\ Cardinality({i \in DOMAIN sends : sends[i].body = b}) <= MaxReportAttempts
               /\ \A i, j \in {i \in DOMAIN sends : sends[i].body = b} :
                    i < j => /\ sends[i].status = 0 \/ ShouldRetryStatus(sends[i].status)
                             /\ sends[j].at >= sends[i].at + RetryBackoff(0)
    BY FirstBackoff DEF ReporterInv, TriesKept, TriesInOrder, Tries, Transient
  <2>7. ResentOnlyWhenTransient
    BY <2>4, <2>5, <2>6 DEF ResentOnlyWhenTransient
  <2> QED
    BY <2>3, <2>7 DEF ReportsAreRare
<1> QED
  BY <1>1, ReporterStarts, ReporterStep, PTL DEF ReporterSpec

-----------------------------------------------------------------------------
(* Startup of the compat agent.                                            *)

Early == {"start", "logging", "config"}
Spawned == {"metrics", "listener", "collectors", "logs", "loop"}
Metadata == {"none", "default", "spring", "project_and_region", "project"}

\* What main knows: the configuration is the one of the environment from the
\* moment it is loaded, and nothing but the reporter runs before.
MainKnows ==
  /\ env \in Environments
  /\ pc \in Early \cup {"agent"} \cup Spawned
  /\ pc \in Early => config = NoConfig
  /\ pc \notin Early => config = NewConfig /\ ~ConfigFails
  /\ pc \in Early \cup {"agent"} => up \subseteq {"metadata"} /\ mini.pc = "none"
  /\ pc \in Spawned => ("concentrator" \in up) = env.stats

\* The port of the listener, once main has been there, follows from the
\* environment and, beside a pipe, from whether the bind succeeded.
PortKnown ==
  IF PastListener /\ env.dogstatsd
  THEN \/ DecideDogstatsdPort(env.pipe) = 0 /\ udp = IF env.pipe THEN Off ELSE Ephemeral
       \/ DecideDogstatsdPort(env.pipe) # 0 /\ udp = DecideDogstatsdPort(env.pipe)
       \/ DecideDogstatsdPort(env.pipe) # 0 /\ env.pipe /\ udp = Refused
  ELSE udp = Off

CheckPassed ==
  /\ mini.metadata # "none"
  /\ env.cloud = "azure_function" => AzureFunction /\ ~FlexWithoutResourceGroup

\* The task binds after the check, and traces are taken after that.
MiniKnows ==
  /\ mini \in [pc : {"none", "verifying", "binding", "serving", "failed"}, metadata : Metadata]
  /\ mini.pc \notin {"none", "verifying"} => CheckPassed
  /\ up \cap {"receiver", "receiver_pipe"} # {} => CheckPassed

StartupInv == MainKnows /\ PortKnown /\ MiniKnows

LEMMA StartupStarts == StartupInit => StartupInv
<1> SUFFICES ASSUME StartupInit PROVE StartupInv
  OBVIOUS
<1>1. MainKnows
  BY DEF StartupInit, MainKnows, Early, Spawned
<1>2. PortKnown
  BY DEF StartupInit, PortKnown, PastListener
<1>3. MiniKnows
  <2>1. mini = [pc |-> "none", metadata |-> "none"] /\ up = {}
    BY DEF StartupInit
  <2>2. mini \in [pc : {"none", "verifying", "binding", "serving", "failed"}, metadata : Metadata]
    BY <2>1 DEF Metadata
  <2> QED
    BY <2>1, <2>2 DEF MiniKnows
<1> QED
  BY <1>1, <1>2, <1>3 DEF StartupInv

\* What is computed from the environment does not change with the rest.
LEMMA EnvironmentFixed ==
  ASSUME UNCHANGED env
  PROVE  /\ UNCHANGED <<NewConfig, ConfigFails, AzureFunction, FlexWithoutResourceGroup>>
         /\ UNCHANGED DecideDogstatsdPort(env.pipe)
<1>1. UNCHANGED <<ConfigFails, AzureFunction, FlexWithoutResourceGroup>>
  BY DEF ConfigFails, AzureFunction, FunctionRootFiles, FlexWithoutResourceGroup
<1>2. UNCHANGED DecideDogstatsdPort(env.pipe)
  BY DEF DecideDogstatsdPort, ValidPort
<1>3. UNCHANGED NewConfig
  BY DEF NewConfig, ConfigDogstatsdPort, ValidPort, FunctionTags, AdditionalTags, ErrorTps,
         RareSampleTracerDrop
<1> QED
  BY <1>1, <1>2, <1>3

LEMMA MainSteps ==
  ASSUME StartupInv, Main
  PROVE  StartupInv'
<1>1. UNCHANGED env /\ env' \in Environments
  BY DEF Main, At, ReadEnvironment, SpawnMetadataReporter, LoadConfig, SpawnMiniAgent,
         StartAggregator, StartListener, StartLogAgent, StartCollectors, StartupInv, MainKnows
<1>2. /\ UNCHANGED <<NewConfig, ConfigFails, AzureFunction, FlexWithoutResourceGroup>>
      /\ UNCHANGED DecideDogstatsdPort(env.pipe)
  BY <1>1, EnvironmentFixed
<1> USE DEF At, Down
<1>3. MainKnows /\ PortKnown /\ MiniKnows
  BY DEF StartupInv
<1>4. CASE ReadEnvironment
  <2>1. MainKnows'
    BY <1>1, <1>2, <1>3, <1>4 DEF MainKnows, ReadEnvironment, Early, Spawned
  <2>2. PortKnown' /\ MiniKnows'
    BY <1>1, <1>2, <1>3, <1>4 DEF ReadEnvironment, PortKnown, PastListener, MiniKnows, CheckPassed
  <2> QED
    BY <2>1, <2>2 DEF StartupInv
<1>5. CASE SpawnMetadataReporter
  <2>1. MainKnows'
    BY <1>1, <1>2, <1>3, <1>5 DEF MainKnows, SpawnMetadataReporter, Early, Spawned
  <2>2. PortKnown' /\ MiniKnows'
    BY <1>1, <1>2, <1>3, <1>5 DEF SpawnMetadataReporter, PortKnown, PastListener, MiniKnows, CheckPassed
  <2> QED
    BY <2>1, <2>2 DEF StartupInv
<1>6. CASE LoadConfig
  <2>1. MainKnows'
    BY <1>1, <1>2, <1>3, <1>6 DEF MainKnows, LoadConfig, Early, Spawned
  <2>2. PortKnown' /\ MiniKnows'
    BY <1>1, <1>2, <1>3, <1>6 DEF LoadConfig, PortKnown, PastListener, MiniKnows, CheckPassed
  <2> QED
    BY <2>1, <2>2 DEF StartupInv
<1>7. CASE SpawnMiniAgent
  <2>1. config.stats = env.stats /\ env.stats \in BOOLEAN
    BY <1>3, <1>7, CompatStartupAssumption DEF MainKnows, SpawnMiniAgent, NewConfig, Early
  <2>2. mini' \in [pc : {"none", "verifying", "binding", "serving", "failed"}, metadata : Metadata]
        /\ mini'.pc = "verifying" /\ mini'.metadata = mini.metadata
    BY <1>3, <1>7 DEF MiniKnows, SpawnMiniAgent
  <2>3. "concentrator" \notin up
    BY <1>3, <1>7 DEF MainKnows, SpawnMiniAgent
  <2>4. ("concentrator" \in up') = env'.stats
    BY <1>1, <1>7, <2>1, <2>3 DEF SpawnMiniAgent
  <2>5. MainKnows'
    BY <1>1, <1>2, <1>3, <1>7, <2>4 DEF MainKnows, SpawnMiniAgent, Early, Spawned
  <2>6. PortKnown' /\ MiniKnows'
    BY <1>1, <1>2, <1>3, <1>7, <2>2 DEF SpawnMiniAgent, PortKnown, PastListener, MiniKnows, MainKnows
  <2> QED
    BY <2>5, <2>6 DEF StartupInv
<1>8. CASE StartAggregator
  <2>1. MainKnows'
    BY <1>1, <1>2, <1>3, <1>8 DEF MainKnows, StartAggregator, Early, Spawned
  <2>2. PortKnown' /\ MiniKnows'
    BY <1>1, <1>2, <1>3, <1>8 DEF StartAggregator, PortKnown, PastListener, MiniKnows, CheckPassed
  <2> QED
    BY <2>1, <2>2 DEF StartupInv
<1>9. CASE StartCollectors
  <2>1. MainKnows'
    BY <1>1, <1>2, <1>3, <1>9 DEF MainKnows, StartCollectors, Early, Spawned
  <2>2. PortKnown' /\ MiniKnows'
    BY <1>1, <1>2, <1>3, <1>9 DEF StartCollectors, PortKnown, PastListener, MiniKnows, CheckPassed
  <2> QED
    BY <2>1, <2>2 DEF StartupInv
<1>10. ASSUME NEW binds \in BOOLEAN, StartLogAgent(binds) PROVE StartupInv'
  <2>1. MainKnows'
    BY <1>1, <1>2, <1>3, <1>10 DEF MainKnows, StartLogAgent, Early, Spawned
  <2>2. PortKnown' /\ MiniKnows'
    BY <1>1, <1>2, <1>3, <1>10 DEF StartLogAgent, PortKnown, PastListener, MiniKnows, CheckPassed
  <2> QED
    BY <2>1, <2>2 DEF StartupInv
<1>11. ASSUME NEW binds \in BOOLEAN, StartListener(binds) PROVE StartupInv'
  <2>0. pc = "listener" /\ (pc' = "listener" \/ pc' = "collectors") /\ UNCHANGED <<config, mini>>
        /\ (up' = up \/ up' = up \cup {"dogstatsd"})
    BY <1>11 DEF StartListener
  <2>1. MainKnows'
    BY <1>1, <1>2, <1>3, <2>0 DEF MainKnows, Early, Spawned
  <2>2. MiniKnows'
    BY <1>1, <1>2, <1>3, <2>0 DEF MiniKnows, CheckPassed
  <2>3. udp = Off /\ ~PastListener
    BY <1>3, <2>0 DEF PortKnown, PastListener
  <2>4. PortKnown'
    <3>1. CASE ~MetricsComponents.listener
      <4>1. ~env.dogstatsd
        BY <3>1 DEF MetricsComponents
      <4> QED
        BY <1>1, <1>11, <2>3, <3>1, <4>1 DEF StartListener, PortKnown
    <3>2. CASE MetricsComponents.listener /\ env.pipe
      <4>1. pc' = "collectors" /\ env.dogstatsd
        BY <1>11, <3>2 DEF StartListener, MetricsComponents
      <4>2. udp' = IF DecideDogstatsdPort(env.pipe) = 0 THEN Off
                   ELSE IF binds THEN DecideDogstatsdPort(env.pipe) ELSE Refused
        BY <1>11, <3>2 DEF StartListener
      <4> QED
        BY <1>1, <1>2, <3>2, <4>1, <4>2 DEF PortKnown, PastListener
    <3>3. CASE MetricsComponents.listener /\ ~env.pipe /\ binds
      <4>1. pc' = "collectors" /\ env.dogstatsd
        BY <1>11, <3>3 DEF StartListener, MetricsComponents
      <4>2. udp' = IF DecideDogstatsdPort(env.pipe) = 0 THEN Ephemeral
                   ELSE DecideDogstatsdPort(env.pipe)
        BY <1>11, <3>3 DEF StartListener
      <4> QED
        BY <1>1, <1>2, <3>3, <4>1, <4>2 DEF PortKnown, PastListener
    <3>4. CASE MetricsComponents.listener /\ ~env.pipe /\ ~binds
      <4>1. pc' = pc /\ udp' = udp
        BY <1>11, <3>4 DEF StartListener
      <4> QED
        BY <2>3, <4>1 DEF PortKnown, PastListener
    <3> QED
      BY <3>1, <3>2, <3>3, <3>4
  <2> QED
    BY <2>1, <2>2, <2>4 DEF StartupInv
<1> QED
  BY <1>4, <1>5, <1>6, <1>7, <1>8, <1>9, <1>10, <1>11 DEF Main

\* The environment is verified, with metadata m.
Passes(m) ==
  /\ m # "none" /\ Verified(m)
  /\ env.cloud = "azure_function" => AzureFunction /\ ~FlexWithoutResourceGroup

LEMMA MiniAgentSteps ==
  ASSUME StartupInv, MiniAgentTask
  PROVE  StartupInv'
<1>1. UNCHANGED <<env, pc, config, udp>> /\ env \in Environments
  BY DEF MiniAgentTask, MiniAt, VerifyEnvironment, BindReceiver, StartupInv, MainKnows
<1>2. /\ UNCHANGED <<NewConfig, ConfigFails, AzureFunction, FlexWithoutResourceGroup>>
      /\ UNCHANGED DecideDogstatsdPort(env.pipe)
  BY <1>1, EnvironmentFixed
<1>3. MainKnows /\ PortKnown /\ MiniKnows
  BY DEF StartupInv
<1>4. PortKnown'
  BY <1>1, <1>2, <1>3 DEF PortKnown, PastListener
<1>5. ASSUME NEW reply \in GcpReplies, VerifyEnvironment(reply) PROVE StartupInv'
  <2>1. mini.pc = "verifying"
    BY <1>5 DEF VerifyEnvironment, MiniAt
  <2>2. env.cloud \in {"azure_function", "cloud_function", "spring", "lambda"}
    <3>1. env.cloud # "none"
      BY <1>3, <2>1 DEF MainKnows, ConfigFails
    <3> QED
      BY <1>1, <3>1, CompatStartupAssumption
  <2>3. \/ Exit
        \/ \E m \in Metadata : Passes(m)
    <3>1. GcpMetadata(reply) \in {"default", "project_and_region", "project"}
      BY DEF GcpMetadata
    <3>2. GcpMetadata(reply) \in Metadata /\ GcpMetadata(reply) # "none"
      BY <3>1 DEF Metadata
    <3>3. "default" \in Metadata /\ "spring" \in Metadata
      BY DEF Metadata
    <3>4. CASE env.cloud = "azure_function"
      BY <1>5, <3>3, <3>4 DEF VerifyEnvironment, Passes
    <3>5. CASE env.cloud = "cloud_function"
      BY <1>5, <3>2, <3>5 DEF VerifyEnvironment, Passes
    <3>6. CASE env.cloud = "spring"
      BY <1>5, <3>3, <3>6 DEF VerifyEnvironment, Passes
    <3>7. CASE env.cloud = "lambda"
      BY <1>5, <3>3, <3>7 DEF VerifyEnvironment, Passes
    <3> QED
      BY <2>2, <3>4, <3>5, <3>6, <3>7
  <2>4. CASE Exit
    <3>1. UNCHANGED <<mini, up>>
      BY <2>4 DEF Exit
    <3>2. MainKnows'
      BY <1>1, <1>2, <1>3, <3>1 DEF MainKnows
    <3>3. MiniKnows'
      BY <1>1, <1>2, <1>3, <3>1 DEF MiniKnows, CheckPassed
    <3> QED
      BY <1>4, <3>2, <3>3 DEF StartupInv
  <2>5. ASSUME NEW m \in Metadata, Passes(m)
        PROVE  StartupInv'
    <3>1. mini' = [pc |-> "binding", metadata |-> m] /\ up' = up
      BY <2>5 DEF Passes, Verified
    <3>2. CheckPassed'
      BY <1>1, <1>2, <2>5, <3>1 DEF CheckPassed, Passes
    <3>3. MiniKnows'
      BY <3>1, <3>2 DEF MiniKnows
    <3>4. MainKnows'
      BY <1>1, <1>2, <1>3, <2>1, <3>1 DEF MainKnows
    <3> QED
      BY <1>4, <3>3, <3>4 DEF StartupInv
  <2> QED
    BY <2>3, <2>4, <2>5
<1>6. ASSUME NEW binds \in BOOLEAN, BindReceiver(binds) PROVE StartupInv'
  <2>1. mini.pc = "binding"
    BY <1>6 DEF BindReceiver, MiniAt
  <2>2. CheckPassed
    BY <1>3, <2>1 DEF MiniKnows
  <2>3. /\ mini' \in [pc : {"none", "verifying", "binding", "serving", "failed"}, metadata : Metadata]
        /\ mini'.metadata = mini.metadata
    <3>1. \E p \in {"serving", "failed"} : mini' = [mini EXCEPT !.pc = p]
      BY <1>6 DEF BindReceiver
    <3> QED
      BY <1>3, <3>1 DEF MiniKnows
  <2>4. CheckPassed'
    BY <1>1, <1>2, <2>2, <2>3 DEF CheckPassed
  <2>5. MiniKnows'
    BY <2>3, <2>4 DEF MiniKnows
  <2>6. pc \in Spawned
    BY <1>3, <2>1 DEF MainKnows
  <2>7. ("concentrator" \in up') = ("concentrator" \in up)
    BY <1>6 DEF BindReceiver
  <2>8. MainKnows'
    BY <1>1, <1>2, <1>3, <2>6, <2>7 DEF MainKnows, Early, Spawned
  <2> QED
    BY <1>4, <2>5, <2>8 DEF StartupInv
<1> QED
  BY <1>5, <1>6 DEF MiniAgentTask

LEMMA StartupStep == StartupInv /\ [StartupNext]_startupVars => StartupInv'
<1> SUFFICES ASSUME StartupInv, [StartupNext]_startupVars PROVE StartupInv'
  OBVIOUS
<1>1. CASE UNCHANGED startupVars
  <2>1. UNCHANGED <<env, pc, config, up, udp, mini>>
    BY <1>1 DEF startupVars
  <2>2. /\ UNCHANGED <<NewConfig, ConfigFails, AzureFunction, FlexWithoutResourceGroup>>
        /\ UNCHANGED DecideDogstatsdPort(env.pipe)
    BY <2>1, EnvironmentFixed
  <2> QED
    BY <2>1, <2>2 DEF StartupInv, MainKnows, PortKnown, PastListener, MiniKnows, CheckPassed
<1> QED
  BY <1>1, MainSteps, MiniAgentSteps DEF StartupNext

\* An azure function that passed the check has one of its two files.
LEMMA AzureHasFile ==
  ASSUME env \in Environments, AzureFunction
  PROVE  \E path \in env.files :
           path[1] # "node_modules" /\ path[Len(path)] \in {"host.json", "function.json"}
<1>1. PICK path \in env.files :
        Head(path) # "node_modules" /\ Last(path) \in {"host.json", "function.json"}
  BY DEF AzureFunction, FunctionRootFiles
<1>2. path \in Seq(STRING) /\ path # <<>>
  BY CompatStartupAssumption
<1>3. Head(path) = path[1] /\ Last(path) = path[Len(path)]
  BY <1>2 DEF Last
<1> QED
  BY <1>1, <1>3

\* Startup of the compat agent, for every environment: /info announces the sampling
\* that main set up and the UDP port it listens on, with three exceptions and no
\* other: nothing listens with DogStatsD switched off or after a failed bind beside
\* a pipe, and port 0 without a pipe has the kernel pick a port; and whatever
\* listens does so on behalf of a process with a key, a cloud, a configuration and
\* a verified environment.
THEOREM StartupAlwaysConsistent == StartupSpec => []StartupConsistent
<1>1. StartupInv => StartupConsistent
  <2> SUFFICES ASSUME StartupInv PROVE StartupConsistent
    OBVIOUS
  <2>1. MainKnows /\ PortKnown /\ MiniKnows
    BY DEF StartupInv
  <2>2. ASSUME mini.pc = "serving"
        PROVE  /\ Info.clientDropP0s = ("concentrator" \notin up)
               /\ PastListener =>
                    \/ ~env.dogstatsd /\ udp = Off
                    \/ env.dogstatsd /\ Info.statsdPort # 0 /\ udp = Info.statsdPort
                    \/ env.dogstatsd /\ Info.statsdPort # 0 /\ env.pipe /\ udp = Refused
                    \/ env.dogstatsd /\ Info.statsdPort = 0 /\ udp = IF env.pipe THEN Off ELSE Ephemeral
    <3>1. pc \in Spawned /\ pc \notin Early
      BY <2>1, <2>2 DEF MainKnows
    <3>2. config = NewConfig /\ ("concentrator" \in up) = env.stats
      BY <2>1, <3>1 DEF MainKnows
    <3>3. Info.statsdPort = ConfigDogstatsdPort(env.pipe) /\ config.stats = env.stats
      BY <3>2 DEF Info, NewConfig
    <3>4. ConfigDogstatsdPort(env.pipe) = DecideDogstatsdPort(env.pipe)
      BY DEF ConfigDogstatsdPort, DecideDogstatsdPort
    <3>5. Info.clientDropP0s = ("concentrator" \notin up)
      BY <3>2, <3>3 DEF Info
    <3> QED
      BY <2>1, <3>3, <3>4, <3>5 DEF PortKnown
  <2>3. InfoTellsTheTruth
    BY <2>2 DEF InfoTellsTheTruth
  <2>4. up \ {"metadata"} # {} => env.key /\ env.cloud # "none" /\ config.loaded
    <3> SUFFICES ASSUME up \ {"metadata"} # {} PROVE env.key /\ env.cloud # "none" /\ config.loaded
      OBVIOUS
    <3>1. pc \notin Early
      BY <2>1 DEF MainKnows
    <3> QED
      BY <2>1, <3>1 DEF MainKnows, ConfigFails, NewConfig
  <2>5. up \cap {"receiver", "receiver_pipe"} # {} /\ env.cloud = "azure_function" =>
          /\ \E path \in env.files :
               path[1] # "node_modules" /\ path[Len(path)] \in {"host.json", "function.json"}
          /\ env.flex => env.resourceGroup
    BY <2>1, AzureHasFile DEF MainKnows, MiniKnows, CheckPassed, FlexWithoutResourceGroup
  <2>6. mini.pc \in {"binding", "serving", "failed"} => mini.metadata # "none"
    BY <2>1 DEF MiniKnows, CheckPassed
  <2> QED
    BY <2>3, <2>4, <2>5, <2>6 DEF StartupConsistent, ListensOnlyWhenVerified
<1> QED
  BY <1>1, StartupStarts, StartupStep, PTL DEF StartupSpec

-----------------------------------------------------------------------------
(* Sequences in the order of a key.                                        *)

InOrder(K, s) == \A i, j \in DOMAIN s : i < j => K[s[i]] < K[s[j]]

\* s with e put after the entries that have a lower key.
InsertByKey(K, s, e) ==
  InsertAt(s, Cardinality({k \in DOMAIN s : K[s[k]] < K[e]}) + 1, e)

\* t is s with e at place i.
Inserts(X, s, i, e, t) ==
  /\ t \in Seq(X) /\ Len(t) = Len(s) + 1 /\ t[i] = e
  /\ \A k \in 1..(i - 1) : t[k] = s[k]
  /\ \A k \in (i + 1)..(Len(s) + 1) : t[k] = s[k - 1]

LEMMA InsertAtInserts ==
  ASSUME NEW X, NEW s \in Seq(X), NEW e \in X, NEW i \in 1..(Len(s) + 1)
  PROVE  Inserts(X, s, i, e, InsertAt(s, i, e))
<1>1. PICK a : a = SubSeq(s, 1, i - 1)
  OBVIOUS
<1>2. PICK b : b = SubSeq(s, i, Len(s))
  OBVIOUS
<1>3. PICK t : t = a \o <<e>> \o b
  OBVIOUS
<1>4. Len(s) \in Nat /\ i \in Nat /\ i - 1 \in 0..Len(s)
  OBVIOUS
<1>5. a \in Seq(X) /\ Len(a) = i - 1 /\ \A k \in 1..(i - 1) : a[k] = s[k]
  BY <1>1, <1>4
<1>6. b \in Seq(X) /\ Len(b) = Len(s) + 1 - i /\ \A k \in 1..Len(b) : b[k] = s[i + k - 1]
  <2>1. CASE i = Len(s) + 1
    <3>1. b = <<>>
      BY <1>2, <1>4, <2>1
    <3> QED
      BY <1>4, <2>1, <3>1
  <2>2. CASE i # Len(s) + 1
    <3>1. i \in 1..Len(s)
      BY <1>4, <2>2
    <3> QED
      BY <1>2, <1>4, <3>1
  <2> QED
    BY <2>1, <2>2
<1>7. PICK c : c = a \o <<e>>
  OBVIOUS
<1>8. c \in Seq(X) /\ Len(c) = i /\ c[i] = e /\ \A k \in 1..(i - 1) : c[k] = s[k]
  BY <1>4, <1>5, <1>7
<1>9. /\ t \in Seq(X) /\ Len(t) = Len(s) + 1
      /\ \A k \in 1..i : t[k] = c[k]
      /\ \A k \in (i + 1)..(Len(s) + 1) : t[k] = b[k - i]
  BY <1>3, <1>4, <1>6, <1>7, <1>8
<1>10. \A k \in (i + 1)..(Len(s) + 1) : k - i \in 1..Len(b) /\ i + (k - i) - 1 = k - 1
  BY <1>4, <1>6
<1>11. \A k \in (i + 1)..(Len(s) + 1) : t[k] = s[k - 1]
  BY <1>6, <1>9, <1>10
<1>12. t[i] = e /\ \A k \in 1..(i - 1) : t[k] = s[k]
  <2>1. i \in 1..i /\ \A k \in 1..(i - 1) : k \in 1..i
    BY <1>4
  <2> QED
    BY <1>8, <1>9, <2>1
<1>13. Inserts(X, s, i, e, t)
  BY <1>9, <1>11, <1>12 DEF Inserts
<1>14. t = InsertAt(s, i, e)
  BY <1>1, <1>2, <1>3 DEF InsertAt
<1> QED
  BY <1>13, <1>14

\* m entries have a lower key than n, the first ones.
Placed(K, s, n, m) ==
  /\ Cardinality({k \in DOMAIN s : K[s[k]] < n}) = m
  /\ \A k \in 1..m : K[s[k]] < n
  /\ \A k \in (m + 1)..Len(s) : ~(K[s[k]] < n)

\* In such a sequence the entries before a key are a first part of it.
LEMMA PlaceFound ==
  ASSUME NEW X, NEW K \in [X -> Nat], NEW s \in Seq(X), InOrder(K, s), NEW n \in Nat
  PROVE  \E m \in 0..Len(s) : Placed(K, s, n, m)
<1>1. Len(s) \in Nat /\ DOMAIN s = 1..Len(s) /\ \A k \in 1..Len(s) : K[s[k]] \in Nat
  OBVIOUS
<1> DEFINE Above == {k \in 1..(Len(s) + 1) : k = Len(s) + 1 \/ ~(K[s[k]] < n)}
<1>2. Above \in SUBSET Nat /\ Len(s) + 1 \in Above
  BY <1>1
<1>3. PICK a \in Above : \A b \in Above : a <= b
  BY <1>2, LeastNumber
<1>4. a \in Nat /\ a \in 1..(Len(s) + 1) /\ a - 1 \in 0..Len(s) /\ (a - 1) + 1 = a
  BY <1>1
<1>5. \A k \in 1..(a - 1) : K[s[k]] < n
  <2> TAKE k \in 1..(a - 1)
  <2>1. k \in 1..(Len(s) + 1) /\ ~(a <= k)
    BY <1>1, <1>4
  <2> QED
    BY <1>3, <2>1
<1>6. \A k \in a..Len(s) : ~(K[s[k]] < n)
  <2> TAKE k \in a..Len(s)
  <2>1. k \in 1..Len(s) /\ a \in 1..Len(s) /\ a # Len(s) + 1
    BY <1>1, <1>4
  <2>2. ~(K[s[a]] < n)
    BY <2>1
  <2>3. CASE k = a
    BY <2>2, <2>3
  <2>4. CASE k # a
    <3>1. a < k
      BY <1>4, <2>1, <2>4
    <3>2. K[s[a]] < K[s[k]]
      BY <1>1, <2>1, <3>1 DEF InOrder
    <3> QED
      BY <1>1, <2>1, <2>2, <3>2
  <2> QED
    BY <2>3, <2>4
<1> HIDE DEF Above
<1>7. {k \in DOMAIN s : K[s[k]] < n} = 1..(a - 1)
  <2>1. \A k \in 1..(a - 1) : k \in 1..Len(s)
    BY <1>1, <1>4
  <2>2. \A k \in 1..Len(s) : k \notin 1..(a - 1) => k \in a..Len(s)
    BY <1>1, <1>4
  <2> QED
    BY <1>1, <1>5, <1>6, <2>1, <2>2
<1>8. Cardinality(1..(a - 1)) = a - 1
  BY <1>4, FS_Interval
<1> QED
  BY <1>4, <1>5, <1>6, <1>7, <1>8 DEF Placed

\* t is s with one more entry, in order.
Inserted(X, K, s, e, t) ==
  t \in Seq(X) /\ InOrder(K, t) /\ ToSet(t) = ToSet(s) \cup {e}

\* An entry that is put after those with a lower key has found its place.
LEMMA InsertByKeyKeepsOrder ==
  ASSUME NEW X, NEW K \in [X -> Nat], NEW s \in Seq(X), InOrder(K, s), NEW e \in X,
         \A k \in DOMAIN s : K[s[k]] # K[e]
  PROVE  Inserted(X, K, s, e, InsertByKey(K, s, e))
<1>1. K[e] \in Nat /\ Len(s) \in Nat /\ DOMAIN s = 1..Len(s) /\ \A k \in 1..Len(s) : K[s[k]] \in Nat
  OBVIOUS
<1>0. PICK m \in 0..Len(s) : Placed(K, s, K[e], m)
  BY <1>1, PlaceFound
<1>2. /\ Cardinality({k \in DOMAIN s : K[s[k]] < K[e]}) = m
      /\ \A k \in 1..m : K[s[k]] < K[e]
      /\ \A k \in (m + 1)..Len(s) : ~(K[s[k]] < K[e])
  BY <1>0 DEF Placed
<1>3. PICK t : t = InsertAt(s, m + 1, e)
  OBVIOUS
<1>4. InsertByKey(K, s, e) = t
  BY <1>2, <1>3 DEF InsertByKey
<1>5. m + 1 \in 1..(Len(s) + 1) /\ m \in Nat
  BY <1>1
<1>6. Inserts(X, s, m + 1, e, t)
  BY <1>3, <1>5, InsertAtInserts
<1>7. /\ t \in Seq(X) /\ DOMAIN t = 1..(Len(s) + 1) /\ t[m + 1] = e
      /\ \A k \in 1..m : t[k] = s[k]
      /\ \A k \in (m + 2)..(Len(s) + 1) : t[k] = s[k - 1]
  <2>1. (m + 1) - 1 = m /\ (m + 1) + 1 = m + 2
    BY <1>5
  <2>2. Len(t) = Len(s) + 1 /\ t \in Seq(X)
    BY <1>6 DEF Inserts
  <2>3. DOMAIN t = 1..(Len(s) + 1)
    BY <2>2
  <2> QED
    BY <1>6, <2>1, <2>2, <2>3 DEF Inserts
<1>8. \A k \in (m + 1)..Len(s) : K[e] < K[s[k]]
  <2> TAKE k \in (m + 1)..Len(s)
  <2>1. k \in 1..Len(s) /\ ~(K[s[k]] < K[e])
    BY <1>1, <1>2, <1>5
  <2>2. K[s[k]] # K[e]
    BY <1>1, <2>1
  <2> QED
    BY <1>1, <2>1, <2>2
<1>9. ASSUME NEW i \in 1..(Len(s) + 1), NEW j \in 1..(Len(s) + 1), i < j PROVE K[t[i]] < K[t[j]]
  <2>1. CASE j <= m
    <3>1. i \in 1..m /\ j \in 1..m /\ i \in 1..Len(s) /\ j \in 1..Len(s)
      BY <1>1, <1>5, <1>9, <2>1
    <3> QED
      BY <1>1, <1>7, <1>9, <3>1 DEF InOrder
  <2>2. CASE j = m + 1
    <3>1. i \in 1..m
      BY <1>1, <1>5, <1>9, <2>2
    <3> QED
      BY <1>2, <1>7, <2>2, <3>1
  <2>3. CASE m + 1 < j
    <3>1. j \in (m + 2)..(Len(s) + 1) /\ j - 1 \in (m + 1)..Len(s) /\ j - 1 \in 1..Len(s)
      BY <1>1, <1>5, <2>3
    <3>2. t[j] = s[j - 1]
      BY <1>7, <3>1
    <3>3. CASE i <= m
      <4>1. i \in 1..m /\ i \in 1..Len(s) /\ i < j - 1
        BY <1>1, <1>5, <2>3, <3>3
      <4>2. t[i] = s[i] /\ K[s[i]] < K[s[j - 1]]
        BY <1>1, <1>7, <3>1, <4>1 DEF InOrder
      <4> QED
        BY <3>2, <4>2
    <3>4. CASE i = m + 1
      BY <1>7, <1>8, <3>1, <3>2, <3>4
    <3>5. CASE m + 1 < i
      <4>1. i \in (m + 2)..(Len(s) + 1) /\ i - 1 \in 1..Len(s) /\ i - 1 < j - 1
        BY <1>1, <1>5, <1>9, <3>5
      <4>2. t[i] = s[i - 1] /\ K[s[i - 1]] < K[s[j - 1]]
        BY <1>1, <1>7, <3>1, <4>1 DEF InOrder
      <4> QED
        BY <3>2, <4>2
    <3> QED
      BY <1>5, <3>3, <3>4, <3>5
  <2> QED
    BY <1>5, <2>1, <2>2, <2>3
<1>10. InOrder(K, t)
  BY <1>7, <1>9 DEF InOrder
<1>11. ASSUME NEW x PROVE x \in ToSet(t) <=> x \in ToSet(s) \/ x = e
  <2>1. ASSUME NEW k \in 1..(Len(s) + 1) PROVE t[k] \in ToSet(s) \/ t[k] = e
    <3>1. CASE k \in 1..m
      <4>1. k \in DOMAIN s
        BY <1>1, <1>5, <3>1
      <4> QED
        BY <1>7, <3>1, <4>1 DEF ToSet
    <3>2. CASE k = m + 1
      BY <1>7, <3>2
    <3>3. CASE k \in (m + 2)..(Len(s) + 1)
      <4>1. k - 1 \in DOMAIN s
        BY <1>1, <1>5, <3>3
      <4> QED
        BY <1>7, <3>3, <4>1 DEF ToSet
    <3> QED
      BY <1>1, <1>5, <3>1, <3>2, <3>3
  <2>2. ASSUME NEW k \in 1..Len(s) PROVE s[k] \in ToSet(t)
    <3>1. CASE k \in 1..m
      <4>1. k \in DOMAIN t /\ t[k] = s[k]
        BY <1>1, <1>5, <1>7, <3>1
      <4> QED
        BY <4>1 DEF ToSet
    <3>2. CASE k \in (m + 1)..Len(s)
      <4>1. k + 1 \in (m + 2)..(Len(s) + 1) /\ k + 1 \in 1..(Len(s) + 1) /\ (k + 1) - 1 = k
        BY <1>1, <1>5, <3>2
      <4>2. k + 1 \in DOMAIN t /\ t[k + 1] = s[k]
        BY <1>7, <4>1
      <4> QED
        BY <4>2 DEF ToSet
    <3> QED
      BY <1>1, <1>5, <3>1, <3>2
  <2>3. e \in ToSet(t)
    BY <1>5, <1>7 DEF ToSet
  <2>4. x \in ToSet(t) => x \in ToSet(s) \/ x = e
    BY <1>7, <2>1 DEF ToSet
  <2>5. x \in ToSet(s) => x \in ToSet(t)
    <3>1. ASSUME x \in ToSet(s) PROVE \E k \in 1..Len(s) : x = s[k]
      BY <1>1, <3>1 DEF ToSet
    <3> QED
      BY <2>2, <3>1
  <2> QED
    BY <2>3, <2>4, <2>5
<1> QED
  BY <1>4, <1>7, <1>10, <1>11 DEF Inserted

\* Two of them with the same entries begin alike,
LEMMA BeginAlike ==
  ASSUME NEW X, NEW K \in [X -> Nat], \A x, y \in X : K[x] = K[y] => x = y,
         NEW s \in Seq(X), InOrder(K, s), NEW t \in Seq(X), InOrder(K, t), ToSet(s) = ToSet(t)
  PROVE  \A i \in 1..Len(s) : i <= Len(t) /\ s[i] = t[i]
<1> DEFINE T == {n \in 0..Len(s) : \A i \in 1..n : i <= Len(t) /\ s[i] = t[i]}
<1>1. /\ Len(s) \in Nat /\ DOMAIN s = 1..Len(s) /\ \A k \in 1..Len(s) : s[k] \in X /\ K[s[k]] \in Nat
      /\ Len(t) \in Nat /\ DOMAIN t = 1..Len(t) /\ \A k \in 1..Len(t) : t[k] \in X /\ K[t[k]] \in Nat
  OBVIOUS
<1>2. /\ \A i \in 1..Len(s) : \E k \in 1..Len(t) : s[i] = t[k]
      /\ \A k \in 1..Len(t) : \E i \in 1..Len(s) : s[i] = t[k]
  <2>1. {s[i] : i \in 1..Len(s)} = {t[k] : k \in 1..Len(t)}
    BY <1>1 DEF ToSet
  <2> QED
    BY <2>1
<1>3. 0 \in T
  BY <1>1
<1>4. ASSUME NEW n \in 0..(Len(s) - 1), n \in T PROVE n + 1 \in T
  <2>1. /\ n \in Nat /\ n + 1 \in 1..Len(s) /\ n + 1 \in 0..Len(s)
        /\ \A i \in 1..n : i \in 1..Len(s) /\ i \in 1..Len(t) /\ s[i] = t[i]
    BY <1>1, <1>4
  <2>2. PICK k \in 1..Len(t) : s[n + 1] = t[k]
    BY <1>2, <2>1
  <2>3. k >= n + 1
    <3> SUFFICES ASSUME k <= n PROVE FALSE
      BY <1>1, <2>1, <2>2
    <3>1. k \in 1..n /\ k < n + 1
      BY <1>1, <2>1, <2>2
    <3>2. K[s[k]] < K[s[n + 1]] /\ s[k] = t[k]
      BY <1>1, <2>1, <3>1 DEF InOrder
    <3> QED
      BY <1>1, <2>1, <2>2, <3>2
  <2>4. n + 1 \in 1..Len(t)
    BY <1>1, <2>1, <2>2, <2>3
  <2>5. PICK j \in 1..Len(s) : s[j] = t[n + 1]
    BY <1>2, <2>4
  <2>6. j >= n + 1
    <3> SUFFICES ASSUME j <= n PROVE FALSE
      BY <1>1, <2>1, <2>5
    <3>1. j \in 1..n /\ j < n + 1
      BY <1>1, <2>1, <2>5
    <3>2. K[t[j]] < K[t[n + 1]] /\ s[j] = t[j]
      BY <1>1, <2>1, <2>4, <3>1 DEF InOrder
    <3> QED
      BY <1>1, <2>4, <2>5, <3>2
  <2>7. k = n + 1 \/ K[t[n + 1]] < K[t[k]]
    <3> SUFFICES ASSUME k # n + 1 PROVE K[t[n + 1]] < K[t[k]]
      OBVIOUS
    <3>1. n + 1 < k /\ k \in DOMAIN t /\ n + 1 \in DOMAIN t
      BY <1>1, <2>1, <2>2, <2>3, <2>4
    <3> QED
      BY <3>1 DEF InOrder
  <2>8. j = n + 1 \/ K[s[n + 1]] < K[s[j]]
    <3> SUFFICES ASSUME j # n + 1 PROVE K[s[n + 1]] < K[s[j]]
      OBVIOUS
    <3>1. n + 1 < j /\ j \in DOMAIN s /\ n + 1 \in DOMAIN s
      BY <1>1, <2>1, <2>5, <2>6
    <3> QED
      BY <3>1 DEF InOrder
  <2>9. s[n + 1] = t[n + 1]
    <3>1. k = n + 1 \/ j = n + 1
      BY <1>1, <2>1, <2>2, <2>4, <2>5, <2>7, <2>8
    <3> QED
      BY <2>2, <2>5, <3>1
  <2>10. \A i \in 1..(n + 1) : i = n + 1 \/ i \in 1..n
    BY <2>1
  <2>11. ASSUME NEW i \in 1..(n + 1) PROVE i <= Len(t) /\ s[i] = t[i]
    <3>1. CASE i = n + 1
      BY <1>1, <2>4, <2>9, <3>1
    <3>2. CASE i \in 1..n
      BY <1>1, <2>1, <3>2
    <3> QED
      BY <2>10, <3>1, <3>2
  <2> QED
    BY <2>1, <2>11
<1> HIDE DEF T
<1>5. \A n \in 0..Len(s) : n \in T
  BY <1>1, <1>3, <1>4, CountUp
<1>6. Len(s) \in T
  BY <1>1, <1>5
<1> QED
  BY <1>6 DEF T

\* and so are the same.
LEMMA SameInOrder ==
  ASSUME NEW X, NEW K \in [X -> Nat], \A x, y \in X : K[x] = K[y] => x = y,
         NEW s \in Seq(X), InOrder(K, s), NEW t \in Seq(X), InOrder(K, t), ToSet(s) = ToSet(t)
  PROVE  s = t
<1>1. \A i \in 1..Len(s) : i <= Len(t) /\ s[i] = t[i]
  BY BeginAlike
<1>2. \A i \in 1..Len(t) : i <= Len(s) /\ t[i] = s[i]
  BY BeginAlike
<1>3. Len(s) \in Nat /\ Len(t) \in Nat
  OBVIOUS
<1>4. Len(s) = Len(t)
  <2>1. Len(s) = 0 \/ Len(s) \in 1..Len(s)
    BY <1>3
  <2>2. Len(t) = 0 \/ Len(t) \in 1..Len(t)
    BY <1>3
  <2>3. Len(s) <= Len(t)
    BY <1>1, <1>3, <2>1
  <2>4. Len(t) <= Len(s)
    BY <1>2, <1>3, <2>2
  <2> QED
    BY <1>3, <2>3, <2>4
<1> QED
  BY <1>1, <1>4, SeqEqual

-----------------------------------------------------------------------------
(* The mock intake: sequences of captures.                                 *)

\* t is s with one more entry, in order.
OneMore(X, s, e, t) ==
  t \in Seq(X) /\ Sorted(t) /\ ToSet(t) = ToSet(s) \cup {e}

\* A capture finds its place, whichever request finishes first.
LEMMA InsertSortedKeepsOrder ==
  ASSUME NEW X, \A x \in X : x.id \in Nat, NEW s \in Seq(X), Sorted(s),
         NEW e \in X, e.id \notin Ids(s)
  PROVE  OneMore(X, s, e, InsertSorted(s, e))
<1> DEFINE K == [x \in X |-> x.id]
<1>1. DOMAIN s = 1..Len(s) /\ \A k \in DOMAIN s : s[k] \in X
  OBVIOUS
<1>2. K \in [X -> Nat] /\ \A x \in X : K[x] = x.id
  OBVIOUS
<1> HIDE DEF K
<1>3. \A t \in Seq(X) : InOrder(K, t) <=> Sorted(t)
  <2> TAKE t \in Seq(X)
  <2>1. \A k \in DOMAIN t : K[t[k]] = t[k].id
    BY <1>2
  <2> QED
    BY <2>1 DEF InOrder, Sorted
<1>4. \A k \in DOMAIN s : K[s[k]] # K[e]
  BY <1>1, <1>2 DEF Ids
<1>5. {k \in DOMAIN s : s[k].id < e.id} = {k \in DOMAIN s : K[s[k]] < K[e]}
  BY <1>1, <1>2
<1>6. InsertSorted(s, e) = InsertByKey(K, s, e)
  BY <1>5 DEF InsertSorted, InsertByKey
<1>7. PICK t : t = InsertSorted(s, e)
  OBVIOUS
<1>8. Inserted(X, K, s, e, t)
  BY <1>2, <1>3, <1>4, <1>6, <1>7, InsertByKeyKeepsOrder
<1> QED
  BY <1>3, <1>7, <1>8 DEF Inserted, OneMore

-----------------------------------------------------------------------------
(* The entries of one endpoint.                                            *)

\* One step of the loop of ForPath.
OneFound(e, x, p) == IF p.endpoint = e THEN Append(x, p) ELSE x

ForPathLoop(s, e, g) ==
  g = [n \in 0..Len(s) |-> IF n = 0 THEN <<>> ELSE OneFound(e, g[n-1], s[n])]

\* g is how ForPath(s, e) is computed.
FindsFor(X, s, e, g) ==
  /\ g \in [0..Len(s) -> Seq(X)] /\ g[0] = <<>>
  /\ \A n \in 1..Len(s) : g[n] = OneFound(e, g[n-1], s[n])
  /\ ForPath(s, e) = g[Len(s)]

LEMMA ForPathComputed ==
  ASSUME NEW S, NEW e, NEW s \in Seq(S)
  PROVE  \E g : FindsFor(S, s, e, g)
<1> DEFINE N == Len(s)
           X == Seq(S)
           F == [n \in 1..N |-> [x \in X |-> OneFound(e, x, s[n])]]
<1>0. N \in Nat /\ <<>> \in X /\ \A n \in 1..N : s[n] \in S
  OBVIOUS
<1>1. \A n \in 1..N : \A x \in X : OneFound(e, x, s[n]) \in X
  BY <1>0 DEF OneFound
<1> HIDE DEF N, X
<1>2. F \in [1..N -> [X -> X]] /\ \A n \in 1..N : \A x \in X : F[n][x] = OneFound(e, x, s[n])
  BY <1>1
<1> HIDE DEF F
<1>3. PICK g \in [0..N -> X] : g[0] = <<>> /\ \A n \in 1..N : g[n] = F[n][g[n-1]]
  <2>1. Solvable(N, X, <<>>, F)
    BY <1>0, <1>2, Recursion
  <2> QED
    BY <2>1 DEF Solvable
<1>4. \A n \in 1..N : g[n] = OneFound(e, g[n-1], s[n])
  <2> TAKE n \in 1..N
  <2>1. n - 1 \in 0..N
    BY <1>0
  <2> QED
    BY <1>2, <1>3, <2>1
<1>5. ASSUME NEW n \in 0..N PROVE g[n] = IF n = 0 THEN <<>> ELSE OneFound(e, g[n-1], s[n])
  <2>1. CASE n = 0
    BY <1>3, <2>1
  <2>2. CASE n # 0
    <3>1. n \in 1..N
      BY <1>0, <2>2
    <3> QED
      BY <1>4, <2>2, <3>1
  <2> QED
    BY <2>1, <2>2
<1> DEFINE k == [n \in 0..N |-> IF n = 0 THEN <<>> ELSE OneFound(e, g[n-1], s[n])]
<1>6. g = k
  BY <1>3, <1>5
<1>7. ForPathLoop(s, e, g)
  BY <1>6 DEF ForPathLoop, N
<1>8. PICK h : h = CHOOSE l : ForPathLoop(s, e, l)
  OBVIOUS
<1>9. ForPathLoop(s, e, h)
  BY <1>7, <1>8
<1>10. ForPath(s, e) = h[N]
  BY <1>8 DEF ForPath, ForPathLoop, OneFound, N
<1>11. \A n \in 0..N : h[n] = IF n = 0 THEN <<>> ELSE OneFound(e, h[n-1], s[n])
  BY <1>9 DEF ForPathLoop, N
<1> DEFINE T == {n \in 0..N : h[n] = g[n]}
<1>12. 0 \in T
  BY <1>0, <1>3, <1>11
<1>13. ASSUME NEW n \in 0..(N - 1), n \in T PROVE n + 1 \in T
  <2>1. n + 1 \in 0..N /\ n + 1 \in 1..N /\ n + 1 # 0 /\ (n + 1) - 1 = n
    BY <1>0
  <2>2. h[n + 1] = OneFound(e, h[n], s[n + 1]) /\ g[n + 1] = OneFound(e, g[n], s[n + 1])
    BY <1>4, <1>11, <2>1
  <2> QED
    BY <1>13, <2>1, <2>2
<1> HIDE DEF T
<1>14. N \in T
  <2>1. \A n \in 0..N : n \in T
    BY <1>0, <1>12, <1>13, CountUp
  <2> QED
    BY <1>0, <2>1
<1>15. ForPath(s, e) = g[N]
  BY <1>10, <1>14 DEF T
<1>16. FindsFor(S, s, e, g)
  BY <1>3, <1>4, <1>15 DEF FindsFor, N, X
<1> QED
  BY <1>16

LEMMA ToSetAppend ==
  ASSUME NEW S, NEW s \in Seq(S), NEW p \in S
  PROVE  ToSet(Append(s, p)) = ToSet(s) \cup {p}
<1>1. PICK u : u = Append(s, p)
  OBVIOUS
<1>2. /\ Len(s) \in Nat /\ DOMAIN s = 1..Len(s) /\ DOMAIN u = 1..(Len(s) + 1)
      /\ u[Len(s) + 1] = p /\ \A k \in 1..Len(s) : u[k] = s[k]
  BY <1>1
<1>3. \A k \in 1..(Len(s) + 1) : k \in 1..Len(s) \/ k = Len(s) + 1
  BY <1>2
<1>4. \A k \in 1..Len(s) : k \in 1..(Len(s) + 1)
  BY <1>2
<1>5. Len(s) + 1 \in 1..(Len(s) + 1)
  BY <1>2
<1>6. ASSUME NEW x PROVE x \in ToSet(u) <=> x \in ToSet(s) \/ x = p
  BY <1>2, <1>3, <1>4, <1>5 DEF ToSet
<1> QED
  BY <1>1, <1>6

\* ForPath finds the entries of its endpoint, all of them and no other.
LEMMA ForPathFinds ==
  ASSUME NEW S, NEW e, NEW s \in Seq(S)
  PROVE  ToSet(ForPath(s, e)) = {x \in ToSet(s) : x.endpoint = e}
<1>1. PICK g : FindsFor(S, s, e, g)
  BY ForPathComputed
<1> DEFINE N == Len(s)
           Found(n) == {s[k] : k \in {j \in 1..n : s[j].endpoint = e}}
           T == {n \in 0..N : ToSet(g[n]) = Found(n)}
<1>2. N \in Nat /\ DOMAIN s = 1..N /\ \A n \in 1..N : s[n] \in S
  OBVIOUS
<1>3. 0 \in T
  <2>1. g[0] = <<>> /\ 0 \in 0..N /\ \A j \in 1..0 : FALSE
    BY <1>1, <1>2 DEF FindsFor
  <2>2. ToSet(<<>>) = {}
    BY DEF ToSet
  <2> QED
    BY <2>1, <2>2
<1>4. ASSUME NEW n \in 0..(N - 1), n \in T PROVE n + 1 \in T
  <2>1. n + 1 \in 0..N /\ n + 1 \in 1..N /\ (n + 1) - 1 = n /\ n \in 0..N
    BY <1>2
  <2>2. g[n + 1] = OneFound(e, g[n], s[n + 1]) /\ g[n] \in Seq(S)
    BY <1>1, <2>1 DEF FindsFor
  <2>3. \A j \in 1..(n + 1) : j \in 1..n \/ j = n + 1
    BY <1>2
  <2>4. \A j \in 1..n : j \in 1..(n + 1)
    BY <1>2
  <2>5. n + 1 \in 1..(n + 1)
    BY <1>2
  <2>6. Found(n + 1) = IF s[n + 1].endpoint = e THEN Found(n) \cup {s[n + 1]} ELSE Found(n)
    BY <2>3, <2>4, <2>5
  <2> HIDE DEF Found
  <2>7. s[n + 1] \in S
    BY <1>2, <2>1
  <2>8. ToSet(g[n]) = Found(n)
    BY <1>4
  <2>9. ToSet(g[n + 1]) = Found(n + 1)
    <3>1. CASE s[n + 1].endpoint = e
      <4>1. g[n + 1] = Append(g[n], s[n + 1])
        BY <2>2, <3>1 DEF OneFound
      <4>2. ToSet(Append(g[n], s[n + 1])) = ToSet(g[n]) \cup {s[n + 1]}
        BY <2>2, <2>7, ToSetAppend
      <4> QED
        BY <2>6, <2>8, <3>1, <4>1, <4>2
    <3>2. CASE s[n + 1].endpoint # e
      <4>1. g[n + 1] = g[n]
        BY <2>2, <3>2 DEF OneFound
      <4> QED
        BY <2>6, <2>8, <3>2, <4>1
    <3> QED
      BY <3>1, <3>2
  <2> QED
    BY <2>1, <2>9
<1> HIDE DEF T
<1>5. N \in T
  <2>1. \A n \in 0..N : n \in T
    BY <1>2, <1>3, <1>4, CountUp
  <2> QED
    BY <1>2, <2>1
<1>6. ToSet(ForPath(s, e)) = Found(N)
  BY <1>1, <1>5 DEF FindsFor, T
<1>7. Found(N) = {x \in ToSet(s) : x.endpoint = e}
  BY <1>2 DEF ToSet
<1> QED
  BY <1>6, <1>7

-----------------------------------------------------------------------------
(* The invariant of the mock intake.                                       *)

RequestEndpoints == {r.endpoint : r \in Requests}
Held == {NoRequest} \cup [id : Nat, at : {"body", "handling"}, r : Requests]
Work == [id : Nat, r : Requests, done : BOOLEAN, status : Nat, accepted : BOOLEAN]
RawEntry == [id : Nat, endpoint : RequestEndpoints, status : Nat]
TypedEntry == [id : Nat, endpoint : RequestEndpoints]

IntakeTyped ==
  /\ conn \in [Conns -> [task : {"none", "running", "aborted", "ended"}, req : Held]]
  /\ requestCounter \in Nat
  /\ blocking \subseteq Work

\* Who is running is registered, or about to be; Drop leaves nobody registered.
RegistryKept ==
  /\ accept \in Conns \cup {"select", "stopped"}
  /\ registry \in [shuttingDown : BOOLEAN, handles : SUBSET Conns]
  /\ drop \in {"live", "signalled", "done"}
  /\ registry.shuttingDown = (drop = "done")
  /\ drop = "done" => registry.handles = {}
  /\ \A c \in Conns : conn[c].task = "running" => c \in registry.handles \/ accept = c

\* An id that was given and of which there is no trace yet.
Untouched(x) ==
  /\ x \in 1..requestCounter
  /\ x \notin Ids(captured.requests)
  /\ \A f \in DOMAIN dumps : dumps[f] # x

\* A request whose body is awaited is known to its connection only.
HeadsFresh ==
  \A c \in Conns : conn[c].req.at = "body" =>
    /\ Untouched(conn[c].req.id)
    /\ \A t \in blocking : t.id # conn[c].req.id
    /\ \A d \in Conns : conn[d].req.at = "body" /\ conn[d].req.id = conn[c].req.id => d = c

\* One blocking task per id, which has dumped nothing before it is done, and
\* has then accepted what it answers with 202.
TasksKept ==
  \A t \in blocking :
    /\ t.id \in 1..requestCounter /\ t.id \notin Ids(captured.requests)
    /\ \A u \in blocking : u.id = t.id => u = t
    /\ t.done => t.accepted = (t.status = 202)
    /\ ~t.done => ~t.accepted /\ Untouched(t.id)

\* The payloads are those of the requests answered 202.
EntriesAgree ==
  /\ captured.requests \in Seq(RawEntry) /\ captured.typed \in Seq(TypedEntry)
  /\ Sorted(captured.requests) /\ Sorted(captured.typed)
  /\ Ids(captured.requests) \subseteq 1..requestCounter
  /\ {[id |-> x.id, endpoint |-> x.endpoint] :
        x \in {y \in ToSet(captured.requests) : y.status = 202}} = ToSet(captured.typed)

AnswersCaptured ==
  \A a \in answers : a.status \in {202, 415, 500} => a.id \in Ids(captured.requests)

DumpsKept == OneDumpEach /\ \A f \in DOMAIN dumps : dumps[f] \in 0..requestCounter

RequestsKept ==
  IntakeTyped /\ HeadsFresh /\ TasksKept /\ EntriesAgree /\ AnswersCaptured /\ DumpsKept

IntakeInv == RegistryKept /\ RequestsKept

LEMMA IntakeStarts == IntakeInit => IntakeInv
<1> SUFFICES ASSUME IntakeInit PROVE IntakeInv
  OBVIOUS
<1>1. IntakeTyped
  BY DEF IntakeInit, IntakeTyped, Held
<1>2. RegistryKept
  BY DEF IntakeInit, RegistryKept
<1>3. HeadsFresh /\ TasksKept /\ AnswersCaptured
  BY DEF IntakeInit, HeadsFresh, TasksKept, AnswersCaptured, NoRequest
<1>4. EntriesAgree
  <2>1. ToSet(<<>>) = {} /\ Ids(<<>>) = {} /\ Sorted(<<>>)
    BY DEF ToSet, Ids, Sorted
  <2>2. captured.requests = <<>> /\ captured.typed = <<>>
    BY DEF IntakeInit
  <2> QED
    BY <2>1, <2>2 DEF EntriesAgree
<1>5. DumpsKept
  <2>1. \A f \in DOMAIN dumps : dumps[f] = 0
    <3>1. CASE dumps = <<>>
      BY <3>1
    <3>2. ASSUME NEW d \in DumpNames, dumps = [n \in {<<d, 0>>} |-> 0]
          PROVE  \A f \in DOMAIN dumps : dumps[f] = 0
      BY <3>2
    <3> QED
      BY <3>1, <3>2 DEF IntakeInit
  <2> QED
    BY <2>1 DEF DumpsKept, OneDumpEach, IntakeInit
<1> QED
  BY <1>1, <1>2, <1>3, <1>4, <1>5 DEF IntakeInv, RequestsKept

-----------------------------------------------------------------------------
(* The registry.                                                           *)

\* A step that starts no task leaves the registry as it is.
LEMMA RegistryRests ==
  ASSUME RegistryKept, UNCHANGED <<accept, registry, drop>>,
         \A c \in Conns : conn'[c].task = "running" => conn[c].task = "running"
  PROVE  RegistryKept'
BY DEF RegistryKept

LEMMA RegistryStep ==
  ASSUME RegistryKept, IntakeTyped, [IntakeNext]_intakeVars
  PROVE  RegistryKept'
<1> USE DEF Held
<1>1. ASSUME NEW c \in Conns, Accept(c) PROVE RegistryKept'
  <2>1. \A d \in Conns : conn'[d].task = "running" => d = c \/ conn[d].task = "running"
    BY <1>1 DEF Accept, IntakeTyped
  <2> QED
    BY <1>1, <2>1, MockIntakeAssumption DEF Accept, RegistryKept
<1>2. CASE Register
  <2>1. CASE registry.shuttingDown
    <3>1. \A c \in Conns : conn'[c].task = "running" => c # accept /\ conn[c].task = "running"
      BY <1>2, <2>1 DEF Register, Abort, IntakeTyped
    <3> QED
      BY <1>2, <2>1, <3>1 DEF Register, RegistryKept
  <2>2. CASE ~registry.shuttingDown
    <3>1. registry'.handles = {c \in registry.handles : conn[c].task = "running"} \cup {accept}
      BY <1>2, <2>2 DEF Register, RegistryKept
    <3>2. registry' \in [shuttingDown : BOOLEAN, handles : SUBSET Conns]
          /\ registry'.shuttingDown = registry.shuttingDown
      BY <1>2, <2>2 DEF Register, RegistryKept
    <3> QED
      BY <1>2, <2>2, <3>1, <3>2 DEF Register, RegistryKept
  <2> QED
    BY <2>1, <2>2
<1>3. CASE StopAccepting
  BY <1>3, MockIntakeAssumption DEF StopAccepting, RegistryKept
<1>4. CASE SignalShutdown
  BY <1>4 DEF SignalShutdown, RegistryKept
<1>5. CASE DrainRegistry
  <2>1. \A c \in Conns : conn'[c].task = "running" => conn[c].task = "running" /\ c \notin registry.handles
    BY <1>5 DEF DrainRegistry, Abort, IntakeTyped
  <2> QED
    BY <1>5, <2>1 DEF DrainRegistry, RegistryKept
<1>6. ASSUME NEW c \in Conns, ReadBody(c) \/ BodyError(c) \/ Respond(c) \/ EndConnection(c)
      PROVE  RegistryKept'
  <2>1. UNCHANGED <<accept, registry, drop>>
    BY <1>6 DEF ReadBody, BodyError, Respond, EndConnection
  <2>2. \A d \in Conns : conn'[d].task = "running" => conn[d].task = "running"
    BY <1>6 DEF ReadBody, BodyError, Respond, EndConnection, Answer, IntakeTyped
  <2> QED
    BY <2>1, <2>2, RegistryRests
<1>7. ASSUME NEW c \in Conns, NEW r \in Requests, Head_(c, r) PROVE RegistryKept'
  <2>1. UNCHANGED <<accept, registry, drop>>
    BY <1>7 DEF Head_
  <2>2. \A d \in Conns : conn'[d].task = "running" => conn[d].task = "running"
    BY <1>7 DEF Head_, IntakeTyped
  <2> QED
    BY <2>1, <2>2, RegistryRests
<1>8. ASSUME UNCHANGED <<accept, registry, drop, conn>> PROVE RegistryKept'
  BY <1>8 DEF RegistryKept
<1>9. ASSUME NEW t \in blocking, PanicTask(t) \/ Record(t) PROVE UNCHANGED <<accept, registry, drop, conn>>
  BY <1>9 DEF PanicTask, Record
<1>10. ASSUME NEW t \in blocking, NEW name \in DumpNames, DecodeTask(t, name)
       PROVE  UNCHANGED <<accept, registry, drop, conn>>
  BY <1>10 DEF DecodeTask
<1>11. CASE UNCHANGED intakeVars
  BY <1>8, <1>11 DEF intakeVars
<1> QED
  BY <1>1, <1>2, <1>3, <1>4, <1>5, <1>6, <1>7, <1>8, <1>9, <1>10, <1>11 DEF IntakeNext

-----------------------------------------------------------------------------
(* The requests.                                                           *)

\* A step of the connections alone: a request is forgotten or kept, and who is
\* answered with a status of a blocking task has its request captured.
LEMMA ConnectionsStep ==
  ASSUME RequestsKept, UNCHANGED <<requestCounter, blocking, captured, dumps>>,
         conn' \in [Conns -> [task : {"none", "running", "aborted", "ended"}, req : Held]],
         \A c \in Conns : conn'[c].req = conn[c].req \/ conn'[c].req = NoRequest,
         \A a \in answers' : \/ a \in answers \/ a.status \notin {202, 415, 500}
                             \/ a.id \in Ids(captured.requests)
  PROVE  RequestsKept'
<1>1. IntakeTyped'
  BY DEF RequestsKept, IntakeTyped
<1>2. HeadsFresh'
  <2>1. NoRequest.at # "body"
    BY DEF NoRequest
  <2>2. \A c \in Conns : conn'[c].req.at = "body" => conn'[c].req = conn[c].req
    BY <2>1
  <2> QED
    BY <2>2 DEF RequestsKept, HeadsFresh, Untouched
<1>3. TasksKept' /\ EntriesAgree' /\ DumpsKept'
  BY DEF RequestsKept, TasksKept, EntriesAgree, DumpsKept, OneDumpEach, Untouched
<1>4. AnswersCaptured'
  BY DEF RequestsKept, AnswersCaptured
<1> QED
  BY <1>1, <1>2, <1>3, <1>4 DEF RequestsKept

\* A connection comes, goes or is answered.
LEMMA ConnectionSteps ==
  ASSUME RequestsKept, RegistryKept, NEW c \in Conns,
         Accept(c) \/ EndConnection(c) \/ BodyError(c) \/ Respond(c)
  PROVE  RequestsKept'
<1> DEFINE Conn == [task : {"none", "running", "aborted", "ended"}, req : Held]
<1>1. conn \in [Conns -> Conn] /\ NoRequest \in Held
  BY DEF RequestsKept, IntakeTyped, Held
<1>2. UNCHANGED <<requestCounter, blocking, captured, dumps>>
  BY DEF Accept, EndConnection, BodyError, Respond
<1>3. conn' \in [Conns -> Conn]
  BY <1>1 DEF Accept, EndConnection, BodyError, Respond, Answer
<1>4. \A d \in Conns : conn'[d].req = conn[d].req \/ conn'[d].req = NoRequest
  BY <1>1 DEF Accept, EndConnection, BodyError, Respond, Answer
<1>5. \A a \in answers' : \/ a \in answers \/ a.status \notin {202, 415, 500}
                          \/ a.id \in Ids(captured.requests)
  <2>1. CASE Accept(c) \/ EndConnection(c)
    BY <2>1 DEF Accept, EndConnection
  <2>2. CASE BodyError(c)
    BY <2>2 DEF BodyError, Answer
  <2>3. CASE Respond(c)
    <3>1. PICK e \in ToSet(captured.requests) : Answer(c, e.id, e.status)
      BY <2>3 DEF Respond
    <3>2. e.id \in Ids(captured.requests)
      BY DEF ToSet, Ids
    <3> QED
      BY <3>1, <3>2 DEF Answer
  <2> QED
    BY <2>1, <2>2, <2>3
<1> QED
  BY <1>2, <1>3, <1>4, <1>5, ConnectionsStep

LEMMA DropSteps ==
  ASSUME RequestsKept, RegistryKept, Register \/ StopAccepting \/ SignalShutdown \/ DrainRegistry
  PROVE  RequestsKept'
<1> DEFINE Conn == [task : {"none", "running", "aborted", "ended"}, req : Held]
<1>1. conn \in [Conns -> Conn] /\ NoRequest \in Held
  BY DEF RequestsKept, IntakeTyped, Held
<1>2. UNCHANGED <<requestCounter, blocking, captured, dumps, answers>>
  BY DEF Register, StopAccepting, SignalShutdown, DrainRegistry
<1>3. conn' \in [Conns -> Conn]
  BY <1>1 DEF Register, StopAccepting, SignalShutdown, DrainRegistry, Abort
<1>4. \A d \in Conns : conn'[d].req = conn[d].req \/ conn'[d].req = NoRequest
  BY <1>1 DEF Register, StopAccepting, SignalShutdown, DrainRegistry, Abort
<1> QED
  BY <1>2, <1>3, <1>4, ConnectionsStep

\* A head takes the next id.
LEMMA HeadStep ==
  ASSUME RequestsKept, NEW c \in Conns, NEW r \in Requests, Head_(c, r)
  PROVE  RequestsKept'
<1> DEFINE Conn == [task : {"none", "running", "aborted", "ended"}, req : Held]
<1>1. conn \in [Conns -> Conn] /\ requestCounter \in Nat
  BY DEF RequestsKept, IntakeTyped
<1>2. UNCHANGED <<blocking, captured, dumps, answers>>
  BY DEF Head_
<1>3. CASE UNCHANGED <<conn, requestCounter>>
  BY <1>1, <1>2, <1>3, ConnectionsStep
<1>4. CASE /\ requestCounter' = requestCounter + 1
           /\ conn' = [conn EXCEPT ![c].req = [id |-> requestCounter', at |-> "body", r |-> r]]
  <2>1. /\ conn' \in [Conns -> Conn] /\ conn'[c].req.id = requestCounter + 1
        /\ \A d \in Conns : d # c => conn'[d] = conn[d]
    BY <1>1, <1>4 DEF Held
  <2>2. \A x \in 1..requestCounter : x \in 1..requestCounter' /\ x # requestCounter + 1
    BY <1>1, <1>4
  <2>3. requestCounter + 1 \in 1..requestCounter' /\ requestCounter + 1 \notin 0..requestCounter
        /\ requestCounter' \in Nat /\ \A x \in 0..requestCounter : x \in 0..requestCounter'
    BY <1>1, <1>4
  <2>4. IntakeTyped'
    BY <1>2, <2>1, <2>3 DEF RequestsKept, IntakeTyped
  <2>5. HeadsFresh'
    <3>0. PICK n : n = requestCounter + 1
      OBVIOUS
    <3>1. Untouched(n)'
      <4>1. requestCounter + 1 \notin Ids(captured.requests)
        BY <2>2 DEF RequestsKept, EntriesAgree
      <4>2. \A f \in DOMAIN dumps : dumps[f] # requestCounter + 1
        BY <2>3 DEF RequestsKept, DumpsKept
      <4> QED
        BY <1>2, <2>3, <3>0, <4>1, <4>2 DEF Untouched
    <3>2. \A t \in blocking : t.id # requestCounter + 1
      BY <2>2 DEF RequestsKept, TasksKept
    <3>3. \A d \in Conns : conn[d].req.at = "body" => conn[d].req.id # requestCounter + 1
      BY <2>2 DEF RequestsKept, HeadsFresh, Untouched
    <3>4. ASSUME NEW d \in Conns, d # c, conn'[d].req.at = "body"
          PROVE  Untouched(conn[d].req.id)' /\ \A t \in blocking : t.id # conn'[d].req.id
      BY <1>2, <2>1, <2>2, <3>4 DEF RequestsKept, HeadsFresh, Untouched
    <3>5. ASSUME NEW d \in Conns, NEW f \in Conns, conn'[d].req.at = "body",
                 conn'[f].req.at = "body", conn'[f].req.id = conn'[d].req.id
          PROVE  f = d
      BY <2>1, <3>3, <3>5 DEF RequestsKept, HeadsFresh
    <3>6. Untouched(conn[c].req.id)' /\ \A t \in blocking : t.id # conn'[c].req.id
      BY <2>1, <3>0, <3>1, <3>2
    <3>7. ASSUME NEW d \in Conns, conn'[d].req.at = "body"
          PROVE  Untouched(conn[d].req.id)' /\ \A t \in blocking : t.id # conn'[d].req.id
      BY <3>4, <3>6, <3>7
    <3> QED
      BY <1>2, <3>5, <3>7 DEF HeadsFresh
  <2>6. TasksKept'
    BY <1>2, <2>2 DEF RequestsKept, TasksKept, Untouched
  <2>7. EntriesAgree' /\ AnswersCaptured' /\ DumpsKept'
    BY <1>2, <2>2, <2>3 DEF RequestsKept, EntriesAgree, AnswersCaptured, DumpsKept, OneDumpEach
  <2> QED
    BY <2>4, <2>5, <2>6, <2>7 DEF RequestsKept
<1> QED
  BY <1>3, <1>4 DEF Head_

\* The body is read: the request passes from its connection to a task.
LEMMA ReadBodyStep ==
  ASSUME RequestsKept, NEW c \in Conns, ReadBody(c)
  PROVE  RequestsKept'
<1> DEFINE Conn == [task : {"none", "running", "aborted", "ended"}, req : Held]
<1>1. conn \in [Conns -> Conn] /\ NoRequest \in Held
  BY DEF RequestsKept, IntakeTyped, Held
<1>2. conn[c].req.at = "body" /\ conn[c].req \in [id : Nat, at : {"body", "handling"}, r : Requests]
  BY <1>1 DEF ReadBody, Serving, Held, NoRequest
<1>3. UNCHANGED <<requestCounter, captured, dumps>>
  BY DEF ReadBody
<1>4. CASE Answer(c, conn[c].req.id, 413) /\ UNCHANGED blocking
  <2>1. conn' \in [Conns -> Conn] /\ \A d \in Conns : conn'[d].req = conn[d].req \/ conn'[d].req = NoRequest
    BY <1>1, <1>4 DEF Answer
  <2>2. \A a \in answers' : a \in answers \/ a.status \notin {202, 415, 500}
    BY <1>4 DEF Answer
  <2> QED
    BY <1>3, <1>4, <2>1, <2>2, ConnectionsStep
<1> DEFINE w == [id |-> conn[c].req.id, r |-> conn[c].req.r, done |-> FALSE, status |-> 0,
                 accepted |-> FALSE]
<1>5. CASE /\ blocking' = blocking \cup {w}
           /\ conn' = [conn EXCEPT ![c].req.at = "handling"]
           /\ UNCHANGED answers
  <2>1. PICK n : n = conn[c].req.id
    OBVIOUS
  <2>2. w \in Work /\ w.id = n /\ ~w.done /\ ~w.accepted
    BY <1>2, <2>1 DEF Work
  <2>3. PICK v : v = w
    OBVIOUS
  <2>4. v \in Work /\ v.id = n /\ ~v.done /\ ~v.accepted /\ blocking' = blocking \cup {v}
    BY <1>5, <2>2, <2>3
  <2> HIDE DEF w
  <2>5. /\ conn' \in [Conns -> Conn] /\ conn'[c].req.at = "handling"
        /\ \A d \in Conns : d # c => conn'[d] = conn[d]
    BY <1>1, <1>2, <1>5 DEF Held
  <2>6. /\ Untouched(n) /\ \A t \in blocking : t.id # n
        /\ \A d \in Conns : d # c /\ conn[d].req.at = "body" => conn[d].req.id # n
    BY <1>2, <2>1 DEF RequestsKept, HeadsFresh
  <2>7. IntakeTyped'
    BY <1>3, <2>4, <2>5 DEF RequestsKept, IntakeTyped
  <2>8. \A d \in Conns : conn'[d].req.at = "body" => conn[d].req.at = "body" /\ d # c /\ conn'[d] = conn[d]
    BY <2>5
  <2>9. HeadsFresh'
    BY <1>3, <2>4, <2>6, <2>8 DEF RequestsKept, HeadsFresh, Untouched
  <2>10. TasksKept'
    <3>1. \A x : Untouched(x) => Untouched(x)'
      BY <1>3 DEF Untouched
    <3>2. n \in 1..requestCounter /\ n \notin Ids(captured.requests)
      BY <2>6 DEF Untouched
    <3> QED
      BY <1>3, <2>4, <2>6, <3>1, <3>2 DEF RequestsKept, TasksKept
  <2>11. EntriesAgree' /\ AnswersCaptured' /\ DumpsKept'
    BY <1>3, <1>5 DEF RequestsKept, EntriesAgree, AnswersCaptured, DumpsKept, OneDumpEach
  <2> QED
    BY <2>7, <2>9, <2>10, <2>11 DEF RequestsKept
<1> QED
  BY <1>4, <1>5 DEF ReadBody

\* At most one new file, with the id x.
DumpedOnce(x) ==
  \/ UNCHANGED dumps
  \/ \E f : /\ f \notin DOMAIN dumps
            /\ dumps' = [g \in DOMAIN dumps \cup {f} |-> IF g \in DOMAIN dumps THEN dumps[g] ELSE x]

\* A task that is done keeps its id to itself.
LEMMA TaskDone ==
  ASSUME RequestsKept, NEW t \in blocking, ~t.done,
         NEW u \in Work, u.id = t.id, u.done, u.accepted = (u.status = 202),
         blocking' = (blocking \ {t}) \cup {u}, DumpedOnce(t.id),
         UNCHANGED <<conn, requestCounter, captured, answers>>
  PROVE  RequestsKept'
<1>1. /\ Untouched(t.id) /\ \A v \in blocking : v # t => v.id # t.id
      /\ requestCounter \in Nat
  BY DEF RequestsKept, TasksKept, IntakeTyped
<1>2. \A f \in DOMAIN dumps : f \in DOMAIN dumps' /\ dumps'[f] = dumps[f]
  BY DEF DumpedOnce
<1>3. \A f \in DOMAIN dumps' : f \in DOMAIN dumps \/ dumps'[f] = t.id
  BY DEF DumpedOnce
<1>4. \A f, g \in DOMAIN dumps' : f \notin DOMAIN dumps /\ g \notin DOMAIN dumps => f = g
  BY DEF DumpedOnce
<1>5. ASSUME NEW x, Untouched(x), x # t.id PROVE Untouched(x)'
  BY <1>2, <1>3, <1>5 DEF Untouched
<1>6. IntakeTyped'
  BY DEF RequestsKept, IntakeTyped
<1>7. HeadsFresh'
  <2>1. ASSUME NEW c \in Conns, conn[c].req.at = "body"
        PROVE  /\ Untouched(conn[c].req.id)
               /\ conn[c].req.id # t.id
               /\ \A v \in blocking' : v.id # conn[c].req.id
    BY <2>1 DEF RequestsKept, HeadsFresh
  <2>2. ASSUME NEW c \in Conns, conn[c].req.at = "body" PROVE Untouched(conn[c].req.id)'
    <3>1. PICK x : x = conn[c].req.id
      OBVIOUS
    <3>2. Untouched(x)'
      BY <1>5, <2>1, <2>2, <3>1
    <3> QED
      BY <3>1, <3>2
  <2> QED
    BY <2>1, <2>2 DEF RequestsKept, HeadsFresh
<1>8. TasksKept'
  <2>1. ASSUME NEW v \in blocking, v # t
        PROVE  /\ v.id \in 1..requestCounter /\ v.id \notin Ids(captured.requests) /\ v.id # t.id
               /\ v.done => v.accepted = (v.status = 202)
               /\ ~v.done => ~v.accepted /\ Untouched(v.id)'
    BY <1>1, <1>5, <2>1 DEF RequestsKept, TasksKept
  <2>2. u.id \in 1..requestCounter /\ u.id \notin Ids(captured.requests)
    BY <1>1 DEF Untouched
  <2>3. \A v, w \in blocking : v.id = w.id => v = w
    BY DEF RequestsKept, TasksKept
  <2>4. \A v, w \in blocking' : v.id = w.id => v = w
    BY <2>1, <2>3
  <2> QED
    BY <2>1, <2>2, <2>4 DEF TasksKept
<1>9. EntriesAgree' /\ AnswersCaptured'
  BY DEF RequestsKept, EntriesAgree, AnswersCaptured
<1>10. DumpsKept'
  <2>1. \A f \in DOMAIN dumps : dumps[f] # t.id /\ dumps[f] \in 0..requestCounter
    BY <1>1 DEF Untouched, RequestsKept, DumpsKept
  <2>2. t.id \in 0..requestCounter
    BY <1>1 DEF Untouched
  <2>3. OneDumpEach'
    BY <1>2, <1>3, <1>4, <2>1 DEF RequestsKept, DumpsKept, OneDumpEach
  <2>4. \A f \in DOMAIN dumps' : dumps'[f] \in 0..requestCounter'
    BY <1>2, <1>3, <2>1, <2>2
  <2> QED
    BY <2>3, <2>4 DEF DumpsKept
<1> QED
  BY <1>6, <1>7, <1>8, <1>9, <1>10 DEF RequestsKept

\* dump_request opens a file that is not there.
LEMMA DumpIsNew ==
  ASSUME NEW name, NEW x, dumps' = DumpRequest(name, x)
  PROVE  DumpedOnce(x)
<1> DEFINE unused == {s \in 0 .. MaxSuffix : <<name, s>> \notin DOMAIN dumps}
<1>1. CASE unused = {}
  BY <1>1 DEF DumpRequest, DumpedOnce
<1>2. CASE unused # {}
  <2>1. unused \in SUBSET Nat
    OBVIOUS
  <2>2. PICK m \in unused : \A n \in unused : m <= n
    BY <1>2, <2>1, LeastNumber
  <2>3. Min(unused) \in unused
    BY <2>2 DEF Min
  <2>4. <<name, Min(unused)>> \notin DOMAIN dumps
    BY <2>3
  <2> QED
    BY <1>2, <2>4 DEF DumpRequest, DumpedOnce
<1> QED
  BY <1>1, <1>2

\* A handler answers 202 only for what it decoded.
LEMMA HandleResult ==
  ASSUME NEW r \in Requests
  PROVE  /\ Handle(r).status \in Nat /\ Handle(r).decoded \in BOOLEAN
         /\ Handle(r).status = 202 => Handle(r).decoded
<1>1. r.decodes \in BOOLEAN
  BY MockIntakeAssumption
<1>2. /\ HandleStats(r).status \in Nat /\ HandleStats(r).decoded \in BOOLEAN
      /\ HandleStats(r).status = 202 => HandleStats(r).decoded
  <2>1. CASE Decompress(r) = "unsupported"
    BY <2>1 DEF HandleStats
  <2>2. CASE Decompress(r) = "ok" /\ r.decodes
    BY <2>2 DEF HandleStats
  <2>3. CASE Decompress(r) # "unsupported" /\ ~(Decompress(r) = "ok" /\ r.decodes)
    BY <2>3 DEF HandleStats, FailureStatus
  <2> QED
    BY <2>1, <2>2, <2>3
<1>3. /\ HandleOther(r).status \in Nat /\ HandleOther(r).decoded \in BOOLEAN
      /\ HandleOther(r).status = 202 => HandleOther(r).decoded
  <2>1. CASE Decompress(r) # "ok"
    BY <2>1 DEF HandleOther, DecompressFailureStatus
  <2>2. CASE Decompress(r) = "ok"
    BY <1>1, <2>2 DEF HandleOther
  <2> QED
    BY <2>1, <2>2
<1> QED
  BY <1>2, <1>3 DEF Handle

LEMMA PanicIsWork ==
  ASSUME NEW t \in Work
  PROVE  [t EXCEPT !.done = TRUE, !.status = 500] \in Work
<1>1. [t EXCEPT !.done = TRUE] \in Work
  BY DEF Work
<1>2. PICK v \in Work : v = [t EXCEPT !.done = TRUE]
  BY <1>1
<1>3. [v EXCEPT !.status = 500] \in Work
  BY DEF Work
<1>4. [t EXCEPT !.done = TRUE, !.status = 500] = [v EXCEPT !.status = 500]
  BY <1>2
<1> QED
  BY <1>3, <1>4

LEMMA TaskSteps ==
  ASSUME RequestsKept, NEW t \in blocking,
         PanicTask(t) \/ \E name \in DumpNames : DecodeTask(t, name)
  PROVE  RequestsKept'
<1>1. t \in Work /\ ~t.done /\ t.r \in Requests /\ UNCHANGED <<conn, requestCounter, captured, answers>>
  BY DEF RequestsKept, IntakeTyped, Work, PanicTask, DecodeTask
<1>2. CASE PanicTask(t)
  <2> DEFINE u == [t EXCEPT !.done = TRUE, !.status = 500]
  <2>1. t.accepted = FALSE
    BY <1>1 DEF RequestsKept, TasksKept, Work
  <2>2. u \in Work
    BY <1>1, PanicIsWork
  <2>3. u.id = t.id /\ u.status = 500
    BY <1>1 DEF Work
  <2>4. u.done = TRUE
    BY <1>1 DEF Work
  <2>5. u.accepted = FALSE
    BY <1>1, <2>1 DEF Work
  <2>6. blocking' = (blocking \ {t}) \cup {u} /\ DumpedOnce(t.id)
    BY <1>2 DEF PanicTask, DumpedOnce
  <2> HIDE DEF u
  <2>7. u.accepted = (u.status = 202)
    <3>1. (u.status = 202) = FALSE
      BY <2>3
    <3> QED
      BY <2>5, <3>1
  <2> QED
    BY <1>1, <2>2, <2>3, <2>4, <2>6, <2>7, TaskDone
<1>3. ASSUME NEW name \in DumpNames, DecodeTask(t, name) PROVE RequestsKept'
  <2>1. PICK h : h = Handle(t.r)
    OBVIOUS
  <2>2. h.status \in Nat /\ h.decoded \in BOOLEAN /\ (h.status = 202 => h.decoded)
    BY <1>1, <2>1, HandleResult
  <2> DEFINE u == [t EXCEPT !.done = TRUE, !.status = h.status,
                            !.accepted = h.decoded /\ h.status = 202]
  <2>3. u \in Work /\ u.id = t.id /\ u.done /\ u.accepted = (u.status = 202)
    BY <1>1, <2>2 DEF Work
  <2>4. blocking' = (blocking \ {t}) \cup {u} /\ (dumps' = DumpRequest(name, t.id) \/ UNCHANGED dumps)
    BY <1>3, <2>1 DEF DecodeTask
  <2> HIDE DEF u
  <2>5. DumpedOnce(t.id)
    <3>1. CASE dumps' = DumpRequest(name, t.id)
      BY <3>1, DumpIsNew
    <3>2. CASE UNCHANGED dumps
      BY <3>2 DEF DumpedOnce
    <3> QED
      BY <2>4, <3>1, <3>2
  <2> QED
    BY <1>1, <2>3, <2>4, <2>5, TaskDone
<1> QED
  BY <1>2, <1>3

LEMMA IdsOfSet == \A s : Ids(s) = {x.id : x \in ToSet(s)}
BY DEF Ids, ToSet

\* A task is over: its request, and the payload with it, take their places.
LEMMA RecordStep ==
  ASSUME RequestsKept, NEW t \in blocking, Record(t)
  PROVE  RequestsKept'
<1> DEFINE raw == [id |-> t.id, endpoint |-> t.r.endpoint, status |-> t.status]
           payload == [id |-> t.id, endpoint |-> t.r.endpoint]
<1>1. t \in Work /\ t.done /\ t.id \in Nat
  BY DEF Record, RequestsKept, IntakeTyped, Work
<1>2. /\ raw \in RawEntry /\ payload \in TypedEntry /\ raw.id = t.id /\ payload.id = t.id
      /\ raw.status = t.status /\ payload = [id |-> raw.id, endpoint |-> raw.endpoint]
  BY <1>1 DEF Work, RawEntry, TypedEntry, RequestEndpoints
<1>3. PICK R : R = InsertSorted(captured.requests, raw)
  OBVIOUS
<1>4. PICK P : P = InsertSorted(captured.typed, payload)
  OBVIOUS
<1>5. /\ captured'.requests = R
      /\ captured'.typed = IF t.accepted THEN P ELSE captured.typed
      /\ blocking' = blocking \ {t}
      /\ UNCHANGED <<conn, requestCounter, dumps, answers>>
  BY <1>3, <1>4 DEF Record
<1> HIDE DEF raw, payload
<1>6. /\ t.id \in 1..requestCounter /\ t.id \notin Ids(captured.requests)
      /\ t.accepted = (t.status = 202) /\ \A u \in blocking : u # t => u.id # t.id
  BY <1>1 DEF RequestsKept, TasksKept
<1>7. /\ captured.requests \in Seq(RawEntry) /\ captured.typed \in Seq(TypedEntry)
      /\ Sorted(captured.requests) /\ Sorted(captured.typed)
      /\ Ids(captured.requests) \subseteq 1..requestCounter
      /\ {[id |-> x.id, endpoint |-> x.endpoint] :
            x \in {y \in ToSet(captured.requests) : y.status = 202}} = ToSet(captured.typed)
  BY DEF RequestsKept, EntriesAgree
<1>8. OneMore(RawEntry, captured.requests, raw, R)
  <2>1. \A x \in RawEntry : x.id \in Nat
    BY DEF RawEntry
  <2> QED
    BY <1>2, <1>3, <1>6, <1>7, <2>1, InsertSortedKeepsOrder
<1>9. Ids(captured.typed) \subseteq Ids(captured.requests)
  BY <1>7, IdsOfSet
<1>10. OneMore(TypedEntry, captured.typed, payload, P)
  <2>1. \A x \in TypedEntry : x.id \in Nat
    BY DEF TypedEntry
  <2> QED
    BY <1>2, <1>4, <1>6, <1>7, <1>9, <2>1, InsertSortedKeepsOrder
<1>11. Ids(R) = Ids(captured.requests) \cup {t.id}
  BY <1>2, <1>8, IdsOfSet DEF OneMore
<1>12. EntriesAgree'
  <2>1. R \in Seq(RawEntry) /\ Sorted(R) /\ captured'.typed \in Seq(TypedEntry) /\ Sorted(captured'.typed)
    BY <1>5, <1>7, <1>8, <1>10 DEF OneMore
  <2>2. Ids(R) \subseteq 1..requestCounter
    BY <1>6, <1>7, <1>11
  <2>3. {[id |-> x.id, endpoint |-> x.endpoint] : x \in {y \in ToSet(R) : y.status = 202}}
          = ToSet(captured'.typed)
    <3>1. ToSet(R) = ToSet(captured.requests) \cup {raw} /\ ToSet(P) = ToSet(captured.typed) \cup {payload}
      BY <1>8, <1>10 DEF OneMore
    <3>2. CASE t.status = 202
      <4>1. {y \in ToSet(R) : y.status = 202}
              = {y \in ToSet(captured.requests) : y.status = 202} \cup {raw}
        BY <1>2, <3>1, <3>2
      <4>2. ToSet(captured'.typed) = ToSet(captured.typed) \cup {payload}
        BY <1>5, <1>6, <3>1, <3>2
      <4> QED
        BY <1>2, <1>7, <4>1, <4>2
    <3>3. CASE t.status # 202
      <4>1. {y \in ToSet(R) : y.status = 202} = {y \in ToSet(captured.requests) : y.status = 202}
        BY <1>2, <3>1, <3>3
      <4>2. captured'.typed = captured.typed
        BY <1>5, <1>6, <3>3
      <4> QED
        BY <1>7, <4>1, <4>2
    <3> QED
      BY <3>2, <3>3
  <2> QED
    BY <1>5, <2>1, <2>2, <2>3 DEF EntriesAgree
<1>13. IntakeTyped'
  BY <1>5 DEF RequestsKept, IntakeTyped
<1>14. ASSUME NEW x, Untouched(x), x # t.id PROVE Untouched(x)'
  BY <1>5, <1>11, <1>14 DEF Untouched
<1>15. HeadsFresh'
  <2>1. ASSUME NEW c \in Conns, conn[c].req.at = "body"
        PROVE  Untouched(conn[c].req.id) /\ conn[c].req.id # t.id
               /\ \A v \in blocking' : v.id # conn[c].req.id
    BY <1>5, <2>1 DEF RequestsKept, HeadsFresh
  <2>2. ASSUME NEW c \in Conns, conn[c].req.at = "body" PROVE Untouched(conn[c].req.id)'
    <3>1. PICK x : x = conn[c].req.id
      OBVIOUS
    <3>2. Untouched(x)'
      BY <1>14, <2>1, <2>2, <3>1
    <3> QED
      BY <1>5, <3>1, <3>2
  <2> QED
    BY <1>5, <2>1, <2>2 DEF RequestsKept, HeadsFresh
<1>16. TasksKept'
  BY <1>5, <1>6, <1>11, <1>14 DEF RequestsKept, TasksKept
<1>17. AnswersCaptured' /\ DumpsKept'
  BY <1>5, <1>11 DEF RequestsKept, AnswersCaptured, DumpsKept, OneDumpEach
<1> QED
  BY <1>12, <1>13, <1>15, <1>16, <1>17 DEF RequestsKept

LEMMA IntakeStep == IntakeInv /\ [IntakeNext]_intakeVars => IntakeInv'
<1> SUFFICES ASSUME IntakeInv, [IntakeNext]_intakeVars PROVE IntakeInv'
  OBVIOUS
<1>1. RegistryKept'
  BY RegistryStep DEF IntakeInv, RequestsKept
<1>2. RequestsKept'
  <2>1. RequestsKept /\ RegistryKept
    BY DEF IntakeInv
  <2>2. CASE UNCHANGED intakeVars
    <3>1. conn \in [Conns -> [task : {"none", "running", "aborted", "ended"}, req : Held]]
      BY <2>1 DEF RequestsKept, IntakeTyped
    <3>2. UNCHANGED <<requestCounter, blocking, captured, dumps, conn, answers>>
      BY <2>2 DEF intakeVars
    <3> QED
      BY <2>1, <3>1, <3>2, ConnectionsStep
  <2> QED
    BY <2>1, <2>2, ConnectionSteps, DropSteps, HeadStep, ReadBodyStep, TaskSteps, RecordStep
    DEF IntakeNext
<1> QED
  BY <1>1, <1>2 DEF IntakeInv

LEMMA IntakeAlways == IntakeSpec => []IntakeInv
BY IntakeStarts, IntakeStep, PTL DEF IntakeSpec

\* Drop of the mock intake: when it has returned nothing is served any more,
\* whatever connection was being accepted meanwhile.
THEOREM IntakeLeavesNoOrphans == IntakeSpec => []NoOrphans
<1>1. IntakeInv => NoOrphans
  BY DEF IntakeInv, RegistryKept, NoOrphans
<1> QED
  BY <1>1, IntakeAlways, PTL

\* What record and insert_sorted of the mock intake promise a test: an answered
\* request is captured, the captures are in order of arrival, an endpoint has a
\* payload for each of its requests answered 202, and each is dumped once.
THEOREM IntakeCapturesAnswered == IntakeSpec => []AnsweredIsCaptured
<1>1. IntakeInv => AnsweredIsCaptured
  <2> SUFFICES ASSUME IntakeInv PROVE AnsweredIsCaptured
    OBVIOUS
  <2>1. /\ captured.requests \in Seq(RawEntry) /\ captured.typed \in Seq(TypedEntry)
        /\ Sorted(captured.requests) /\ Sorted(captured.typed)
        /\ {[id |-> x.id, endpoint |-> x.endpoint] :
              x \in {y \in ToSet(captured.requests) : y.status = 202}} = ToSet(captured.typed)
    BY DEF IntakeInv, RequestsKept, EntriesAgree
  <2>2. ASSUME NEW e \in Endpoints
        PROVE  Ids(PayloadsOf(e)) = {x.id : x \in {y \in ToSet(RequestsForPath(e)) : y.status = 202}}
    <3>1. ToSet(PayloadsOf(e)) = {x \in ToSet(captured.typed) : x.endpoint = e}
      BY <2>1, ForPathFinds DEF PayloadsOf
    <3>2. ToSet(RequestsForPath(e)) = {x \in ToSet(captured.requests) : x.endpoint = e}
      BY <2>1, ForPathFinds DEF RequestsForPath
    <3>3. Ids(PayloadsOf(e)) = {x.id : x \in ToSet(PayloadsOf(e))}
      BY IdsOfSet
    <3>4. ASSUME NEW n PROVE n \in Ids(PayloadsOf(e))
                  <=> \E x \in ToSet(captured.requests) : x.status = 202 /\ x.endpoint = e /\ x.id = n
      <4>1. n \in Ids(PayloadsOf(e)) <=> \E y \in ToSet(captured.typed) : y.endpoint = e /\ y.id = n
        BY <3>1, <3>3
      <4>2. ASSUME NEW y \in ToSet(captured.typed)
            PROVE  \E x \in ToSet(captured.requests) :
                     x.status = 202 /\ x.endpoint = y.endpoint /\ x.id = y.id
        BY <2>1
      <4>3. ASSUME NEW x \in ToSet(captured.requests), x.status = 202
            PROVE  \E y \in ToSet(captured.typed) : y.endpoint = x.endpoint /\ y.id = x.id
        <5>1. [id |-> x.id, endpoint |-> x.endpoint] \in ToSet(captured.typed)
          BY <2>1, <4>3
        <5> QED
          BY <5>1
      <4> QED
        BY <4>1, <4>2, <4>3
    <3>5. ASSUME NEW n
          PROVE  n \in {x.id : x \in {y \in ToSet(RequestsForPath(e)) : y.status = 202}}
                  <=> \E x \in ToSet(captured.requests) : x.status = 202 /\ x.endpoint = e /\ x.id = n
      BY <3>2
    <3> QED
      BY <3>4, <3>5
  <2>3. AnswersCaptured /\ OneDumpEach
    BY DEF IntakeInv, RequestsKept, DumpsKept
  <2> QED
    BY <2>1, <2>2, <2>3 DEF AnsweredIsCaptured, CapturesComplete, AnswersCaptured
<1> QED
  BY <1>1, IntakeAlways, PTL

-----------------------------------------------------------------------------
(* The summary of a stats payload.                                         *)

Places(s, x) == {i \in DOMAIN s : s[i] = x}

\* A finite set and what a one-to-one function makes of it are equally large.
LEMMA PlacesFinite ==
  ASSUME NEW s, NEW n \in Nat, DOMAIN s = 1..n, NEW x
  PROVE  IsFiniteSet(Places(s, x)) /\ Cardinality(Places(s, x)) \in Nat
<1>1. IsFiniteSet(1..n)
  BY FS_Interval
<1>2. Places(s, x) \in SUBSET (1..n)
  BY DEF Places
<1> QED
  BY <1>1, <1>2, FS_Subset, FS_CardinalityType

LEMMA BagIs ==
  ASSUME NEW s
  PROVE  /\ DOMAIN ToBag(s) = Range(s)
         /\ \A x \in Range(s) : ToBag(s)[x] = Cardinality(Places(s, x))
  BY DEF ToBag, Places

\* Reordering leaves the bag of tags as it is.
LEMMA ReorderedSameBag ==
  ASSUME NEW a, NEW b, NEW m \in Nat, NEW n \in Nat, DOMAIN a = 1..m, DOMAIN b = 1..n,
         Reordered(a, b)
  PROVE  ToBag(a) = ToBag(b)
<1>1. PICK p \in Bijection(DOMAIN a, DOMAIN b) : \A i \in DOMAIN a : a[i] = b[p[i]]
  BY DEF Reordered
<1>2. /\ p \in [DOMAIN a -> DOMAIN b]
      /\ \A i, j \in DOMAIN a : p[i] = p[j] => i = j
      /\ \A j \in DOMAIN b : \E i \in DOMAIN a : p[i] = j
  BY DEF Bijection, Injection, Surjection, IsInjective
<1>3. Range(a) = Range(b)
  <2>1. ASSUME NEW x \in Range(a) PROVE x \in Range(b)
    BY <1>1, <1>2 DEF Range
  <2>2. ASSUME NEW x \in Range(b) PROVE x \in Range(a)
    <3>1. PICK j \in DOMAIN b : b[j] = x
      BY DEF Range
    <3>2. PICK i \in DOMAIN a : p[i] = j
      BY <1>2
    <3> QED
      BY <1>1, <3>1, <3>2 DEF Range
  <2> QED
    BY <2>1, <2>2
<1>4. ASSUME NEW x \in Range(a)
      PROVE  Cardinality(Places(a, x)) = Cardinality(Places(b, x))
  <2> DEFINE q == [i \in Places(a, x) |-> p[i]]
  <2>1. q \in [Places(a, x) -> Places(b, x)]
    BY <1>1, <1>2 DEF Places
  <2>2. \A i, j \in Places(a, x) : q[i] = q[j] => i = j
    BY <1>2 DEF Places
  <2>3. \A j \in Places(b, x) : \E i \in Places(a, x) : q[i] = j
    <3> SUFFICES ASSUME NEW j \in Places(b, x) PROVE \E i \in Places(a, x) : q[i] = j
      OBVIOUS
    <3>1. PICK i \in DOMAIN a : p[i] = j
      BY <1>2 DEF Places
    <3>2. i \in Places(a, x)
      BY <1>1, <3>1 DEF Places
    <3> QED
      BY <3>1, <3>2
  <2> HIDE DEF q
  <2>4. q \in Bijection(Places(a, x), Places(b, x))
    BY <2>1, <2>2, <2>3 DEF Bijection, Injection, Surjection, IsInjective
  <2>5. ExistsBijection(Places(a, x), Places(b, x))
    BY <2>4 DEF ExistsBijection
  <2> QED
    BY <2>5, PlacesFinite, FS_Bijection
<1>5. ToBag(a) = [x \in Range(a) |-> Cardinality(Places(a, x))]
      /\ ToBag(b) = [x \in Range(b) |-> Cardinality(Places(b, x))]
  BY DEF ToBag, Places
<1> QED
  BY <1>3, <1>4, <1>5

\* One bag of tags is reordered into another by matching the places of each tag.
LEMMA SameBagReordered ==
  ASSUME NEW a, NEW b, NEW m \in Nat, NEW n \in Nat, DOMAIN a = 1..m, DOMAIN b = 1..n,
         ToBag(a) = ToBag(b)
  PROVE  Reordered(a, b)
<1> DEFINE match(x) == CHOOSE q \in Bijection(Places(a, x), Places(b, x)) : TRUE
           p == [i \in DOMAIN a |-> match(a[i])[i]]
<1>1. Range(a) = Range(b)
  BY BagIs
<1>2. ASSUME NEW x \in Range(a)
      PROVE  match(x) \in Bijection(Places(a, x), Places(b, x))
  <2>1. Cardinality(Places(a, x)) = Cardinality(Places(b, x))
    BY <1>1, <1>2, BagIs
  <2>2. ExistsBijection(Places(a, x), Places(b, x))
    BY <2>1, PlacesFinite, FS_SameCardinalityBij
  <2> QED
    BY <2>2 DEF ExistsBijection
<1>3. ASSUME NEW x \in Range(a)
      PROVE  /\ match(x) \in [Places(a, x) -> Places(b, x)]
             /\ \A i, j \in Places(a, x) : match(x)[i] = match(x)[j] => i = j
             /\ \A j \in Places(b, x) : \E i \in Places(a, x) : match(x)[i] = j
  <2> HIDE DEF match
  <2> QED
    BY <1>2, <1>3 DEF Bijection, Injection, Surjection, IsInjective
<1>4. \A i \in DOMAIN a : p[i] = match(a[i])[i]
  OBVIOUS
<1>5. DOMAIN p = DOMAIN a /\ p = [i \in DOMAIN a |-> p[i]]
  OBVIOUS
<1> HIDE DEF match, p
<1>6. \A i \in DOMAIN a : a[i] \in Range(a) /\ i \in Places(a, a[i])
  BY DEF Range, Places
<1>7. \A i \in DOMAIN a : p[i] \in Places(b, a[i])
  BY <1>3, <1>4, <1>6
<1>8. \A i \in DOMAIN a : p[i] \in DOMAIN b /\ b[p[i]] = a[i]
  BY <1>7 DEF Places
<1>9. p \in [DOMAIN a -> DOMAIN b]
  BY <1>5, <1>8
<1>10. ASSUME NEW i \in DOMAIN a, NEW j \in DOMAIN a, p[i] = p[j]
       PROVE  i = j
  <2>1. a[i] = a[j]
    BY <1>8, <1>10
  <2>2. j \in Places(a, a[i]) /\ match(a[i])[i] = match(a[i])[j]
    BY <1>4, <1>6, <1>10, <2>1
  <2> QED
    BY <1>3, <1>6, <2>2
<1>11. ASSUME NEW j \in DOMAIN b
       PROVE  \E i \in DOMAIN a : p[i] = j
  <2>1. b[j] \in Range(a) /\ j \in Places(b, b[j])
    BY <1>1 DEF Range, Places
  <2>2. PICK i \in Places(a, b[j]) : match(b[j])[i] = j
    BY <1>3, <2>1
  <2>3. i \in DOMAIN a /\ a[i] = b[j]
    BY DEF Places
  <2> QED
    BY <1>4, <2>2, <2>3
<1>12. p \in Bijection(DOMAIN a, DOMAIN b)
  BY <1>9, <1>10, <1>11 DEF Bijection, Injection, Surjection, IsInjective
<1> QED
  BY <1>8, <1>12 DEF Reordered

-----------------------------------------------------------------------------

\* The clients of a stats payload, as requests have them.
PlainClients(cs) ==
  /\ DOMAIN cs = 1..Len(cs) /\ Len(cs) \in Nat
  /\ \A c \in DOMAIN cs :
       /\ DOMAIN cs[c].groups = 1..Len(cs[c].groups) /\ Len(cs[c].groups) \in Nat
       /\ \A g \in DOMAIN cs[c].groups :
            /\ cs[c].groups[g].hits \in Nat
            /\ DOMAIN cs[c].groups[g].tags = 1..Len(cs[c].groups[g].tags)
            /\ Len(cs[c].groups[g].tags) \in Nat

LEMMA GroupsFinite ==
  ASSUME NEW cs, PlainClients(cs)
  PROVE  IsFiniteSet(GroupsOf(cs))
<1> DEFINE at(c) == {<<c, g>> : g \in DOMAIN cs[c].groups}
           all == {at(c) : c \in DOMAIN cs}
<1>1. ASSUME NEW c \in DOMAIN cs PROVE IsFiniteSet(at(c))
  <2> DEFINE D == DOMAIN cs[c].groups
             f == [g \in D |-> <<c, g>>]
  <2>1. IsFiniteSet(D)
    <3>1. D = 1..Len(cs[c].groups) /\ Len(cs[c].groups) \in Nat
      BY <1>1 DEF PlainClients
    <3> QED
      BY <3>1, FS_Interval
  <2>2. f \in Surjection(D, at(c))
    BY DEF Surjection
  <2> HIDE DEF f, D
  <2> QED
    BY <2>1, <2>2, FS_Surjection
<1>2. IsFiniteSet(all)
  <2> DEFINE f == [c \in DOMAIN cs |-> at(c)]
  <2>1. IsFiniteSet(DOMAIN cs)
    BY FS_Interval DEF PlainClients
  <2>2. f \in Surjection(DOMAIN cs, all)
    <3> HIDE DEF at
    <3> QED
      BY DEF Surjection
  <2> HIDE DEF f, all
  <2> QED
    BY <2>1, <2>2, FS_Surjection
<1>3. \A T \in all : IsFiniteSet(T)
  <2> HIDE DEF at
  <2> QED
    BY <1>1
<1>4. GroupsOf(cs) = UNION all
  BY DEF GroupsOf
<1> HIDE DEF all
<1> QED
  BY <1>2, <1>3, <1>4, FS_UNION

LEMMA GroupIn ==
  ASSUME NEW cs, PlainClients(cs), NEW x \in GroupsOf(cs)
  PROVE  /\ x[1] \in DOMAIN cs /\ x[2] \in DOMAIN cs[x[1]].groups
         /\ GroupAt(cs, x).hits \in Nat
         /\ DOMAIN GroupAt(cs, x).tags = 1..Len(GroupAt(cs, x).tags)
         /\ Len(GroupAt(cs, x).tags) \in Nat
<1>1. PICK c \in DOMAIN cs : \E g \in DOMAIN cs[c].groups : x = <<c, g>>
  BY DEF GroupsOf
<1>2. x[1] \in DOMAIN cs /\ x[2] \in DOMAIN cs[x[1]].groups
  BY <1>1
<1> QED
  BY <1>2 DEF PlainClients, GroupAt

KeyAt(cs, x) == StatsGroupKey(cs[x[1]], GroupAt(cs, x))

\* Groups have one key when their dimensions agree.
AlikeIn(cs, x) ==
  {y \in GroupsOf(cs) : /\ cs[x[1]].dims = cs[y[1]].dims
                        /\ GroupAt(cs, x).dims = GroupAt(cs, y).dims
                        /\ Reordered(GroupAt(cs, x).tags, GroupAt(cs, y).tags)}

LEMMA AlikeByKey ==
  ASSUME NEW cs, PlainClients(cs), NEW x \in GroupsOf(cs)
  PROVE  AlikeIn(cs, x) = {y \in GroupsOf(cs) : KeyAt(cs, y) = KeyAt(cs, x)}
<1> SUFFICES ASSUME NEW y \in GroupsOf(cs)
             PROVE  (y \in AlikeIn(cs, x)) <=> (KeyAt(cs, y) = KeyAt(cs, x))
  BY DEF AlikeIn
<1> DEFINE a == GroupAt(cs, x).tags
           b == GroupAt(cs, y).tags
<1>1. Len(a) \in Nat /\ Len(b) \in Nat /\ DOMAIN a = 1..Len(a) /\ DOMAIN b = 1..Len(b)
  BY GroupIn
<1>2. Reordered(a, b) <=> ToBag(a) = ToBag(b)
  <2> HIDE DEF a, b
  <2> QED
    BY <1>1, ReorderedSameBag, SameBagReordered
<1>3. (KeyAt(cs, y) = KeyAt(cs, x)) <=>
        /\ cs[x[1]].dims = cs[y[1]].dims
        /\ GroupAt(cs, x).dims = GroupAt(cs, y).dims
        /\ ToBag(a) = ToBag(b)
  BY DEF KeyAt, StatsGroupKey
<1> QED
  BY <1>2, <1>3 DEF AlikeIn

\* The rows of the summary: one for each kind of groups, with the hits of all.
RowsCount(rows, cs) ==
  LET kinds == {AlikeIn(cs, x) : x \in GroupsOf(cs)}
  IN /\ SumFunction(rows) = SumFunction(HitsOf(cs))
     /\ \E row \in Bijection(kinds, DOMAIN rows) :
          \A k \in kinds : rows[row[k]] = SumFunctionOnSet(HitsOf(cs), k)

LEMMA HitsByKeyCount ==
  ASSUME NEW cs, PlainClients(cs)
  PROVE  RowsCount(StatsHitsByKey(cs), cs)
<1> DEFINE G == GroupsOf(cs)
           key == [x \in G |-> KeyAt(cs, x)]
           of(k) == {x \in G : key[x] = k}
           hits == HitsOf(cs)
           rows == StatsHitsByKey(cs)
           kinds == {AlikeIn(cs, x) : x \in G}
<1>1. IsFiniteSet(G)
  BY GroupsFinite
<1>2. \A x \in G : hits[x] \in Nat
  BY GroupIn DEF HitsOf
<1>3. DOMAIN hits = G
  BY DEF HitsOf
<1>4. /\ DOMAIN rows = Range(key)
      /\ rows = [k \in Range(key) |-> SumFunctionOnSet(hits, of(k))]
  BY DEF StatsHitsByKey, KeyAt
<1>5. \A x \in G : AlikeIn(cs, x) = of(key[x])
  BY AlikeByKey
<1>6. \A x \in G : key[x] \in Range(key)
  BY DEF Range
<1>7. \A k \in Range(key) : \E x \in G : key[x] = k
  BY DEF Range
<1> HIDE DEF hits, rows
<1>8. SumFunction(rows) = SumFunction(hits)
  <2>1. IsFiniteSet(Range(key))
    <3>1. key \in Surjection(G, Range(key))
      BY DEF Surjection, Range
    <3> HIDE DEF key
    <3> QED
      BY <1>1, <3>1, FS_Surjection
  <2> DEFINE K == Range(key)
  <2>2. \A x \in G : hits[x] \in Int
    BY <1>2
  <2>3. \A x \in G : key[x] \in K
    BY <1>6
  <2>4. IsFiniteSet(K)
    BY <2>1
  <2> HIDE DEF key, K, G
  <2>5. SumFunctionOnSet([k \in K |-> SumFunctionOnSet(hits, {x \in G : key[x] = k})], K)
          = SumFunctionOnSet(hits, G)
    BY <1>1, <2>2, <2>3, <2>4, SumByGroups
  <2>6. rows = [k \in K |-> SumFunctionOnSet(hits, {x \in G : key[x] = k})] /\ DOMAIN rows = K
    BY <1>4 DEF K
  <2>7. SumFunctionOnSet(rows, K) = SumFunctionOnSet(hits, G)
    BY <2>5, <2>6, Zenon
  <2> QED
    BY <1>3, <2>6, <2>7 DEF SumFunction
<1>9. \E row \in Bijection(kinds, DOMAIN rows) :
        \A k \in kinds : rows[row[k]] = SumFunctionOnSet(hits, k)
  <2> DEFINE row == [k \in kinds |-> key[CHOOSE x \in k : TRUE]]
  <2>1. ASSUME NEW x \in G
        PROVE  /\ AlikeIn(cs, x) \in kinds
               /\ row[AlikeIn(cs, x)] = key[x]
    <3>1. AlikeIn(cs, x) \in kinds
      OBVIOUS
    <3>2. x \in of(key[x])
      OBVIOUS
    <3>3. PICK z : z = CHOOSE y \in AlikeIn(cs, x) : TRUE
      OBVIOUS
    <3>4. z \in AlikeIn(cs, x)
      BY <1>5, <3>2, <3>3
    <3>5. key[z] = key[x]
      BY <1>5, <3>4
    <3>6. row[AlikeIn(cs, x)] = key[z]
      BY <3>1, <3>3
    <3> QED
      BY <3>1, <3>5, <3>6
  <2>2. row = [k \in kinds |-> row[k]]
    OBVIOUS
  <2>3. \A k \in kinds : \E x \in G : k = AlikeIn(cs, x)
    OBVIOUS
  <2> HIDE DEF row, kinds, key
  <2>4. \A k \in kinds : k = of(row[k]) /\ row[k] \in DOMAIN rows
    BY <1>4, <1>5, <1>6, <2>1, <2>3
  <2>5. row \in [kinds -> DOMAIN rows]
    BY <2>2, <2>4
  <2>6. \A k, l \in kinds : row[k] = row[l] => k = l
    BY <2>4, Zenon
  <2>7. \A t \in DOMAIN rows : \E k \in kinds : row[k] = t
    BY <1>4, <1>7, <2>1
  <2>8. row \in Bijection(kinds, DOMAIN rows)
    BY <2>2, <2>5, <2>6, <2>7 DEF Bijection, Injection, Surjection, IsInjective
  <2>9. ASSUME NEW k \in kinds
        PROVE  rows[row[k]] = SumFunctionOnSet(hits, k)
    <3>1. row[k] \in Range(key) /\ k = of(row[k])
      BY <1>4, <2>4
    <3>2. rows[row[k]] = SumFunctionOnSet(hits, of(row[k]))
      BY <1>4, <3>1
    <3> QED
      BY <3>1, <3>2, Zenon
  <2> QED
    BY <2>8, <2>9
<1> QED
  BY <1>8, <1>9 DEF RowsCount, hits, rows

-----------------------------------------------------------------------------

\* The summary is made of one payload.
SummaryInv ==
  /\ summary.of = <<>> \/ \E r \in Requests : summary.of = r.clients
  /\ summary.groups = StatsHitsByKey(summary.of)

LEMMA EmptyClients == PlainClients(<<>>) /\ StatsHitsByKey(<<>>) = <<>>
<1>1. GroupsOf(<<>>) = {}
  BY DEF GroupsOf
<1>2. StatsHitsByKey(<<>>) = <<>>
  BY <1>1 DEF StatsHitsByKey, Range
<1> QED
  BY <1>2 DEF PlainClients

LEMMA PlainRequests ==
  ASSUME NEW r \in Requests
  PROVE  PlainClients(r.clients)
  BY MockIntakeAssumption DEF PlainClients

LEMMA SummaryStep == IntakeInv /\ SummaryInv /\ [IntakeNext]_intakeVars => SummaryInv'
<1> SUFFICES ASSUME IntakeInv, SummaryInv, [IntakeNext]_intakeVars PROVE SummaryInv'
  OBVIOUS
<1>1. CASE summary' = summary
  BY <1>1 DEF SummaryInv
<1>2. CASE \E t \in blocking, name \in DumpNames : DecodeTask(t, name)
  <2>1. PICK t \in blocking, name \in DumpNames : DecodeTask(t, name)
    BY <1>2
  <2>2. t.r \in Requests
    BY DEF IntakeInv, RequestsKept, IntakeTyped, Work
  <2>3. \/ summary' = summary
        \/ summary' = [groups |-> StatsHitsByKey(t.r.clients), of |-> t.r.clients]
    BY <2>1 DEF DecodeTask
  <2>4. CASE summary' = [groups |-> StatsHitsByKey(t.r.clients), of |-> t.r.clients]
    BY <2>2, <2>4 DEF SummaryInv
  <2> QED
    BY <1>1, <2>3, <2>4
<1>3. ASSUME NEW c \in Conns,
             \/ Accept(c) \/ ReadBody(c) \/ BodyError(c) \/ Respond(c) \/ EndConnection(c)
             \/ \E r \in Requests : Head_(c, r)
      PROVE  summary' = summary
  BY <1>3 DEF Accept, ReadBody, BodyError, Respond, EndConnection, Head_
<1>4. ASSUME NEW t \in blocking, PanicTask(t) \/ Record(t)
      PROVE  summary' = summary
  BY <1>4 DEF PanicTask, Record
<1>5. ASSUME Register \/ StopAccepting \/ SignalShutdown \/ DrainRegistry
      PROVE  summary' = summary
  BY <1>5 DEF Register, StopAccepting, SignalShutdown, DrainRegistry
<1>6. ASSUME UNCHANGED intakeVars
      PROVE  summary' = summary
  BY <1>6 DEF intakeVars
<1> QED
  BY <1>1, <1>2, <1>3, <1>4, <1>5, <1>6 DEF IntakeNext

\* The stats summary of the mock intake (stats_hits_by_key): every hit of a
\* payload is in one row, and there is one row for the groups of the same
\* dimensions, in whatever order their tags come.
THEOREM IntakeCountsHits == IntakeSpec => []SummaryCountsHits
<1>1. IntakeInit => SummaryInv
  BY EmptyClients DEF IntakeInit, SummaryInv
<1>2. SummaryInv => SummaryCountsHits
  <2> SUFFICES ASSUME SummaryInv PROVE SummaryCountsHits
    OBVIOUS
  <2>1. PlainClients(summary.of)
    BY EmptyClients, PlainRequests DEF SummaryInv
  <2>2. RowsCount(summary.groups, summary.of)
    BY <2>1, HitsByKeyCount DEF SummaryInv
  <2>3. \A x \in GroupsOf(summary.of) : Alike(x) = AlikeIn(summary.of, x)
    BY DEF Alike, AlikeIn
  <2>4. {Alike(x) : x \in GroupsOf(summary.of)} = {AlikeIn(summary.of, x) : x \in GroupsOf(summary.of)}
    BY <2>3
  <2> QED
    BY <2>2, <2>4, Zenon DEF SummaryCountsHits, RowsCount
<1> QED
  BY <1>1, <1>2, IntakeAlways, SummaryStep, PTL DEF IntakeSpec

-----------------------------------------------------------------------------
(* consume_metrics.                                                        *)

\* The next entry of the sequence Serialized computes.
OneKept(x, e) == IF e = 0 THEN x ELSE Append(x, e)

KeptLoop(s, g) ==
  g = [n \in 0..Len(s) |-> IF n = 0 THEN <<>> ELSE OneKept(g[n-1], s[n])]

\* g is how Serialized(s) is computed.
Keeps(S, s, g) ==
  /\ g \in [0..Len(s) -> Seq(S)] /\ g[0] = <<>>
  /\ \A n \in 1..Len(s) : g[n] = OneKept(g[n-1], s[n])
  /\ Serialized(s) = g[Len(s)]

LEMMA SerializedComputed ==
  ASSUME NEW S, NEW s \in Seq(S)
  PROVE  \E g : Keeps(S, s, g)
<1> DEFINE N == Len(s)
           X == Seq(S)
           F == [n \in 1..N |-> [x \in X |-> OneKept(x, s[n])]]
<1>0. N \in Nat /\ <<>> \in X /\ \A n \in 1..N : s[n] \in S
  OBVIOUS
<1>1. \A n \in 1..N : \A x \in X : OneKept(x, s[n]) \in X
  BY <1>0 DEF OneKept
<1> HIDE DEF N, X
<1>2. F \in [1..N -> [X -> X]] /\ \A n \in 1..N : \A x \in X : F[n][x] = OneKept(x, s[n])
  BY <1>1
<1> HIDE DEF F
<1>3. PICK g \in [0..N -> X] : g[0] = <<>> /\ \A n \in 1..N : g[n] = F[n][g[n-1]]
  <2>1. Solvable(N, X, <<>>, F)
    BY <1>0, <1>2, Recursion
  <2> QED
    BY <2>1 DEF Solvable
<1>4. \A n \in 1..N : g[n] = OneKept(g[n-1], s[n])
  <2> TAKE n \in 1..N
  <2>1. n - 1 \in 0..N
    BY <1>0
  <2> QED
    BY <1>2, <1>3, <2>1
<1>5. ASSUME NEW n \in 0..N PROVE g[n] = IF n = 0 THEN <<>> ELSE OneKept(g[n-1], s[n])
  <2>1. CASE n = 0
    BY <1>3, <2>1
  <2>2. CASE n # 0
    <3>1. n \in 1..N
      BY <1>0, <2>2
    <3> QED
      BY <1>4, <2>2, <3>1
  <2> QED
    BY <2>1, <2>2
<1> DEFINE k == [n \in 0..N |-> IF n = 0 THEN <<>> ELSE OneKept(g[n-1], s[n])]
<1>6. g = k
  BY <1>3, <1>5
<1>7. KeptLoop(s, g)
  BY <1>6 DEF KeptLoop, N
<1>8. PICK h : h = CHOOSE l : KeptLoop(s, l)
  OBVIOUS
<1>9. KeptLoop(s, h)
  BY <1>7, <1>8
<1>10. Serialized(s) = h[N]
  BY <1>8 DEF Serialized, KeptLoop, OneKept, N
<1>11. \A n \in 0..N : h[n] = IF n = 0 THEN <<>> ELSE OneKept(h[n-1], s[n])
  BY <1>9 DEF KeptLoop, N
<1> DEFINE T == {n \in 0..N : h[n] = g[n]}
<1>12. 0 \in T
  BY <1>0, <1>3, <1>11
<1>13. ASSUME NEW n \in 0..(N - 1), n \in T PROVE n + 1 \in T
  <2>1. n + 1 \in 0..N /\ n + 1 \in 1..N /\ n + 1 # 0 /\ (n + 1) - 1 = n
    BY <1>0
  <2>2. h[n + 1] = OneKept(h[n], s[n + 1]) /\ g[n + 1] = OneKept(g[n], s[n + 1])
    BY <1>4, <1>11, <2>1
  <2> QED
    BY <1>13, <2>1, <2>2
<1> HIDE DEF T
<1>14. N \in T
  <2>1. \A n \in 0..N : n \in T
    BY <1>0, <1>12, <1>13, CountUp
  <2> QED
    BY <1>0, <2>1
<1>15. Serialized(s) = g[N]
  BY <1>10, <1>14 DEF T
<1>16. Keeps(S, s, g)
  BY <1>3, <1>4, <1>15 DEF Keeps, N, X
<1> QED
  BY <1>16

LEMMA SerializedEmpty == Serialized(<<>>) = <<>>
<1>1. <<>> \in Seq({})
  OBVIOUS
<1>2. PICK g : Keeps({}, <<>>, g)
  BY <1>1, SerializedComputed
<1> QED
  BY <1>2 DEF Keeps

\* A last entry is kept or left out.
LEMMA SerializedAppend ==
  ASSUME NEW S, NEW s \in Seq(S), NEW p \in S
  PROVE  Serialized(s) \in Seq(S) /\ Serialized(Append(s, p)) = OneKept(Serialized(s), p)
<1>1. PICK u : u = Append(s, p)
  OBVIOUS
<1>2. /\ u \in Seq(S) /\ Len(s) \in Nat /\ Len(u) = Len(s) + 1 /\ u[Len(s) + 1] = p
      /\ \A n \in 1..Len(s) : u[n] = s[n]
  BY <1>1
<1>3. PICK g : Keeps(S, s, g)
  BY SerializedComputed
<1>4. PICK h : Keeps(S, u, h)
  BY <1>2, SerializedComputed
<1> DEFINE T == {n \in 0..Len(s) : h[n] = g[n]}
<1>5. 0 \in T
  BY <1>2, <1>3, <1>4 DEF Keeps
<1>6. ASSUME NEW n \in 0..(Len(s) - 1), n \in T PROVE n + 1 \in T
  <2>1. n + 1 \in 0..Len(s) /\ n + 1 \in 1..Len(s) /\ n + 1 \in 1..Len(u) /\ (n + 1) - 1 = n
    BY <1>2
  <2>2. h[n + 1] = OneKept(h[n], u[n + 1]) /\ g[n + 1] = OneKept(g[n], s[n + 1])
    BY <1>3, <1>4, <2>1 DEF Keeps
  <2>3. u[n + 1] = s[n + 1]
    BY <1>2, <2>1
  <2> QED
    BY <1>6, <2>1, <2>2, <2>3
<1> HIDE DEF T
<1>7. Len(s) \in T
  <2>1. \A n \in 0..Len(s) : n \in T
    BY <1>2, <1>5, <1>6, CountUp
  <2> QED
    BY <1>2, <2>1
<1>8. h[Len(s)] = Serialized(s) /\ Serialized(s) \in Seq(S)
  <2>1. Len(s) \in 0..Len(s) /\ h[Len(s)] = g[Len(s)]
    BY <1>2, <1>7 DEF T
  <2> QED
    BY <1>3, <2>1 DEF Keeps
<1>9. Serialized(u) = h[Len(s) + 1] /\ h[Len(s) + 1] = OneKept(h[Len(s)], p)
  <2>1. Len(s) + 1 \in 1..Len(u) /\ (Len(s) + 1) - 1 = Len(s)
    BY <1>2
  <2> QED
    BY <1>2, <1>4, <2>1 DEF Keeps
<1> QED
  BY <1>1, <1>8, <1>9

-----------------------------------------------------------------------------
(* The invariant of the loop.                                              *)

\* Entries that could be serialized.
Points == MetricSizes \ {0}

\* A payload is within the limits unless it is a single entry.
PayloadFits(b) == Len(b) \in 1..MaxBatchEntries /\ (Total(b) < MaxBatchBytes \/ Len(b) = 1)

\* d, c and n are the accumulator.
Filled(d, c, n) ==
  /\ filled = [done |-> d, cur |-> c, bytes |-> n]
  /\ d \in Seq(Seq(Points)) /\ c \in Seq(Points) /\ n = Total(c)
  /\ \A i \in DOMAIN d : PayloadFits(d[i])
  /\ c = <<>> \/ PayloadFits(c)
  /\ Concat(d) \o c = Serialized(seen)

MetricInv ==
  /\ seen \in Seq(MetricSizes)
  /\ \E d, c, n : Filled(d, c, n)

\* Only the empty payload has no bytes.
LEMMA EmptyIsZero ==
  ASSUME NEW c \in Seq(Points)
  PROVE  Total(c) \in Nat /\ (Total(c) = 0 => c = <<>>)
<1>0. \A x \in Points : x \in Nat /\ x # 0
  BY MetricBatchingAssumption DEF Points
<1>1. Total(c) \in Nat
  BY <1>0, TotalParts
<1>2. ASSUME c # <<>> PROVE Total(c) # 0
  <2>1. Len(c) \in Nat /\ Len(c) >= 1 /\ \A i \in 1..Len(c) : c[i] \in Nat /\ c[i] # 0
    BY <1>0, <1>2
  <2>2. PICK g : Totals(c, g)
    BY <2>1, HasTotals
  <2>3. Total(c) = g[Len(c)]
    BY <2>1, <2>2, TotalBy
  <2>4. \A n \in 0..Len(c) : g[n] \in Nat
    BY <2>1, <2>2, TotalsGrow
  <2>5. Len(c) \in 1..Len(c) /\ Len(c) - 1 \in 0..Len(c)
    BY <2>1
  <2>6. g[Len(c)] = g[Len(c) - 1] + c[Len(c)] /\ g[Len(c) - 1] \in Nat /\ c[Len(c)] \in Nat /\ c[Len(c)] # 0
    BY <2>1, <2>2, <2>4, <2>5 DEF Totals
  <2> QED
    BY <2>3, <2>6
<1> QED
  BY <1>1, <1>2

\* The sum of one entry.
LEMMA TotalOfOne ==
  ASSUME NEW e \in Nat
  PROVE  Total(<<e>>) = e /\ Len(<<e>>) = 1
<1>1. <<>> \in Seq(Nat) /\ Append(<<>>, e) = <<e>> /\ Len(<<e>>) = 1
  OBVIOUS
<1>2. Total(Append(<<>>, e)) = Total(<<>>) + e /\ Total(<<>>) = 0
  BY <1>1, TotalParts
<1> QED
  BY <1>1, <1>2

\* A batch more that fits.
LEMMA OneMoreFits ==
  ASSUME NEW d \in Seq(Seq(Points)), NEW c \in Seq(Points), \A i \in DOMAIN d : PayloadFits(d[i]),
         PayloadFits(c)
  PROVE  /\ Append(d, c) \in Seq(Seq(Points))
         /\ \A i \in DOMAIN Append(d, c) : PayloadFits(Append(d, c)[i])
<1>1. Len(d) \in Nat /\ DOMAIN d = 1..Len(d)
  OBVIOUS
<1>2. PICK t : t = Append(d, c)
  OBVIOUS
<1>3. /\ t \in Seq(Seq(Points)) /\ DOMAIN t = 1..(Len(d) + 1) /\ t[Len(d) + 1] = c
      /\ \A i \in 1..Len(d) : t[i] = d[i]
  BY <1>1, <1>2
<1>4. ASSUME NEW i \in DOMAIN t PROVE PayloadFits(t[i])
  <2>1. CASE i = Len(d) + 1
    BY <1>3, <2>1
  <2>2. CASE i \in 1..Len(d)
    BY <1>1, <1>3, <2>2
  <2> QED
    BY <1>1, <1>3, <2>1, <2>2
<1> QED
  BY <1>2, <1>3, <1>4

\* Three runs of points joined, in either order.
LEMMA PointsJoined == \A y, z, w \in Seq(Points) : (y \o z) \o w = y \o (z \o w)
  BY JoinedThrice

\* One iteration of the loop on an entry that could be serialized.
LEMMA LoopAdds ==
  ASSUME NEW d, NEW c, NEW n, Filled(d, c, n), NEW e \in Points,
         seen \in Seq(MetricSizes), seen' = Append(seen, e), filled' = AddEntry(filled, e, e)
  PROVE  \E dd, cc, nn : Filled(dd, cc, nn)'
<1>0. e \in Nat /\ e # 0 /\ e \in MetricSizes
  BY MetricBatchingAssumption DEF Points
<1>1. /\ filled = [done |-> d, cur |-> c, bytes |-> n]
      /\ d \in Seq(Seq(Points)) /\ c \in Seq(Points) /\ n = Total(c)
      /\ \A i \in DOMAIN d : PayloadFits(d[i])
      /\ c = <<>> \/ PayloadFits(c)
      /\ Concat(d) \o c = Serialized(seen)
  BY DEF Filled
<1>2. n \in Nat /\ (n = 0 => c = <<>>) /\ Len(c) \in Nat
  BY <1>1, EmptyIsZero
<1>3. Serialized(seen') = Append(Serialized(seen), e)
  BY <1>0, SerializedAppend DEF OneKept
<1>4. PICK x \in Seq(Points) : x = Concat(d)
  BY <1>1, ConcatGrows
<1>5. <<e>> \in Seq(Points) /\ Append(c, e) \in Seq(Points)
  BY <1>1
<1>6. Append(x \o c, e) = (x \o c) \o <<e>> /\ Append(c, e) = c \o <<e>> /\ x \o c \in Seq(Points)
  <2>1. x \o c \in Seq(Points)
    BY <1>1
  <2> QED
    BY <1>1, <2>1, AppendIsConcat
<1>7. \A y, z, w \in Seq(Points) : (y \o z) \o w = y \o (z \o w)
  BY PointsJoined
<1>8. Serialized(seen') = (x \o c) \o <<e>>
  BY <1>1, <1>3, <1>4, <1>6
<1>9. CASE MustClose(filled, e) /\ n # 0
  <2>1. filled' = [done |-> Append(d, c), cur |-> <<e>>, bytes |-> e]
    BY <1>1, <1>9 DEF AddEntry
  <2>2. c # <<>>
    <3>1. <<>> \in Seq(Nat)
      OBVIOUS
    <3>2. Total(<<>>) = 0
      BY <3>1, TotalParts
    <3> QED
      BY <1>1, <1>9, <3>2
  <2>3. /\ Append(d, c) \in Seq(Seq(Points))
        /\ \A i \in DOMAIN Append(d, c) : PayloadFits(Append(d, c)[i])
    BY <1>1, <2>2, OneMoreFits
  <2>4. PayloadFits(<<e>>) /\ Total(<<e>>) = e
    BY <1>0, TotalOfOne, MetricBatchingAssumption DEF PayloadFits
  <2>5. Concat(Append(d, c)) = x \o c
    BY <1>1, <1>4, ConcatGrows
  <2>6. Filled(Append(d, c), <<e>>, e)'
    BY <1>5, <1>8, <2>1, <2>3, <2>4, <2>5 DEF Filled
  <2> QED
    BY <2>6
<1>10. CASE ~(MustClose(filled, e) /\ n # 0)
  <2>1. filled' = [done |-> d, cur |-> Append(c, e), bytes |-> n + e]
    BY <1>1, <1>10 DEF AddEntry
  <2>2. Total(Append(c, e)) = n + e /\ Len(Append(c, e)) = Len(c) + 1
    <3>1. \A y \in Points : y \in Nat
      BY MetricBatchingAssumption DEF Points
    <3> QED
      BY <1>1, <3>1, TotalParts
  <2>3. PayloadFits(Append(c, e))
    <3>1. CASE n = 0
      <4>1. Len(Append(c, e)) = 1
        BY <1>2, <2>2, <3>1
      <4> QED
        BY <4>1, MetricBatchingAssumption DEF PayloadFits
    <3>2. CASE n # 0
      <4>1. ~MustClose(filled, e)
        BY <1>10, <3>2
      <4>2. Len(c) < MaxBatchEntries /\ n + e < MaxBatchBytes
        BY <1>0, <1>1, <1>2, <4>1, MetricBatchingAssumption DEF MustClose
      <4> QED
        BY <1>2, <2>2, <4>2, MetricBatchingAssumption DEF PayloadFits
    <3> QED
      BY <3>1, <3>2
  <2>4. x \o Append(c, e) = (x \o c) \o <<e>>
    BY <1>1, <1>5, <1>6, <1>7
  <2>5. Filled(d, Append(c, e), n + e)'
    BY <1>1, <1>4, <1>5, <1>8, <2>1, <2>2, <2>3, <2>4 DEF Filled
  <2> QED
    BY <2>5
<1> QED
  BY <1>9, <1>10

\* The invariant holds of the loop.
LEMMA MetricInvariance == MetricSpec => []MetricInv
<1>1. MetricInit => MetricInv
  <2> SUFFICES ASSUME MetricInit PROVE MetricInv
    OBVIOUS
  <2>1. seen = <<>> /\ filled = [done |-> <<>>, cur |-> <<>>, bytes |-> 0]
    BY DEF MetricInit, NoBatches
  <2>2. <<>> \in Seq(Seq(Points)) /\ <<>> \in Seq(Points) /\ <<>> \in Seq(Nat) /\ <<>> \in Seq(MetricSizes) /\ <<>> \o <<>> = <<>>
    OBVIOUS
  <2>3. Total(<<>>) = 0
    BY <2>2, TotalParts
  <2>4. Concat(<<>>) = <<>>
    BY <2>2, ConcatGrows
  <2>5. Serialized(seen) = <<>>
    BY <2>1, SerializedEmpty
  <2>6. Filled(<<>>, <<>>, 0)
    BY <2>1, <2>2, <2>3, <2>4, <2>5 DEF Filled
  <2> QED
    BY <2>1, <2>2, <2>6 DEF MetricInv
<1>2. MetricInv /\ [MetricNext]_metricVars => MetricInv'
  <2> SUFFICES ASSUME MetricInv, [MetricNext]_metricVars PROVE MetricInv'
    OBVIOUS
  <2>1. PICK d, c, n : Filled(d, c, n)
    BY DEF MetricInv
  <2>2. ASSUME NEW e \in MetricSizes, AddMetric(e) PROVE MetricInv'
    <3>1. seen \in Seq(MetricSizes) /\ seen' = Append(seen, e) /\ filled' = AddSeries(filled, e, e)
      BY <2>2 DEF MetricInv, AddMetric
    <3>2. seen' \in Seq(MetricSizes)
      BY <3>1
    <3>3. CASE e = 0
      <4>1. filled' = filled
        BY <3>1, <3>3 DEF AddSeries
      <4>2. Serialized(seen') = Serialized(seen)
        BY <3>1, <3>3, SerializedAppend DEF OneKept
      <4>3. Filled(d, c, n)'
        BY <2>1, <4>1, <4>2 DEF Filled
      <4> QED
        BY <3>2, <4>3 DEF MetricInv
    <3>4. CASE e # 0
      <4>1. e \in Points /\ filled' = AddEntry(filled, e, e)
        BY <3>1, <3>4 DEF AddSeries, Points
      <4>2. \E dd, cc, nn : Filled(dd, cc, nn)'
        BY <2>1, <3>1, <4>1, LoopAdds
      <4> QED
        BY <3>2, <4>2 DEF MetricInv
    <3> QED
      BY <3>3, <3>4
  <2>3. CASE UNCHANGED metricVars
    BY <2>3 DEF metricVars, MetricInv, Filled
  <2> QED
    BY <2>2, <2>3 DEF MetricNext
<1> QED
  BY <1>1, <1>2, PTL DEF MetricSpec

\* Whatever the limits and the sizes are: the payloads consume_metrics returns
\* have every point that could be serialized, once and in order, and each is
\* within both limits unless it is one point that exceeds the limit by itself
\* (aggregator/core.rs, consume_metrics).
THEOREM MetricPayloadsExact == MetricSpec => []MetricBatchesExact
<1>1. MetricInv => MetricBatchesExact
  <2> SUFFICES ASSUME MetricInv PROVE MetricBatchesExact
    OBVIOUS
  <2>1. PICK d, c, n : Filled(d, c, n)
    BY DEF MetricInv
  <2>2. /\ filled.done = d /\ filled.cur = c
        /\ d \in Seq(Seq(Points)) /\ c \in Seq(Points)
        /\ \A i \in DOMAIN d : PayloadFits(d[i])
        /\ c = <<>> \/ PayloadFits(c)
        /\ Concat(d) \o c = Serialized(seen)
    BY <2>1 DEF Filled
  <2>3. PICK p : p = FinishBatches(filled)
    OBVIOUS
  <2>4. (\A i \in DOMAIN p : PayloadFits(p[i])) /\ Concat(p) = Serialized(seen)
    <3>1. CASE c = <<>>
      <4>1. p = d
        BY <2>2, <2>3, <3>1 DEF FinishBatches
      <4>2. PICK x \in Seq(Points) : x = Concat(d)
        BY <2>2, ConcatGrows
      <4>3. x \o <<>> = x
        OBVIOUS
      <4> QED
        BY <2>2, <3>1, <4>1, <4>2, <4>3
    <3>2. CASE c # <<>>
      <4>1. p = Append(d, c)
        BY <2>2, <2>3, <3>2 DEF FinishBatches
      <4>2. \A i \in DOMAIN Append(d, c) : PayloadFits(Append(d, c)[i])
        BY <2>2, <3>2, OneMoreFits
      <4>3. Concat(Append(d, c)) = Concat(d) \o c
        BY <2>2, ConcatGrows
      <4> QED
        BY <2>2, <4>1, <4>2, <4>3
    <3> QED
      BY <3>1, <3>2
  <2> QED
    BY <2>3, <2>4 DEF MetricBatchesExact, WithinLimits, NothingLost, PayloadFits
<1> QED
  BY <1>1, MetricInvariance, PTL

-----------------------------------------------------------------------------
(* The error sampler: a trace dropped by hand is not rescued, folding      *)
(* bounds the signatures it stores, the counters are exactly what the last *)
(* buckets weighed, and the rates keep to the target.                      *)

\* The fields of the sampler.
SamplerFields == {"seen", "all", "last", "rates", "lowest", "listed", "allow"}

\* No more signatures than FoldTo.
Few(D) == IsFiniteSet(D) /\ Cardinality(D) <= FoldTo

\* While the table folds, what it holds and what its list lets through are few
\* signatures, apart from the folded ones.
Folding(s) == \E D : Few(D) /\ DOMAIN s.seen \cup s.allow \subseteq D \cup 0 .. (FoldTo - 1)

\* The signatures of a table that does not fold are few.
Folded(s) ==
  /\ DOMAIN s = SamplerFields
  /\ s.listed \in BOOLEAN
  /\ DOMAIN s.rates \subseteq DOMAIN s.seen
  /\ ~s.listed => Few(DOMAIN s.seen)
  /\ s.listed => Folding(s)

\* A few signatures and the folded ones are twice FoldTo at most.
LEMMA FewAndFolded ==
  ASSUME NEW s, Folded(s)
  PROVE  IsFiniteSet(DOMAIN s.seen) /\ Cardinality(DOMAIN s.seen) <= 2 * FoldTo
<1>0. FoldTo \in Nat
  BY ErrorSamplerAssumption
<1>1. CASE ~s.listed
  <2>1. Few(DOMAIN s.seen)
    BY <1>1 DEF Folded
  <2>2. Cardinality(DOMAIN s.seen) \in Nat
    BY <2>1, FS_CardinalityType DEF Few
  <2> QED
    BY <1>0, <2>1, <2>2 DEF Few
<1>2. CASE s.listed
  <2>1. PICK D : Few(D) /\ DOMAIN s.seen \cup s.allow \subseteq D \cup 0 .. (FoldTo - 1)
    BY <1>2 DEF Folded, Folding
  <2>2. IsFiniteSet(0 .. (FoldTo - 1)) /\ Cardinality(0 .. (FoldTo - 1)) <= FoldTo
    <3>1. 0 \in Int /\ FoldTo - 1 \in Int
      BY <1>0
    <3>2. /\ IsFiniteSet(0 .. (FoldTo - 1))
          /\ Cardinality(0 .. (FoldTo - 1)) =
               IF 0 > FoldTo - 1 THEN 0 ELSE (FoldTo - 1) - 0 + 1
      BY <3>1, FS_Interval
    <3> QED
      BY <1>0, <3>2
  <2> DEFINE F == 0 .. (FoldTo - 1)
  <2>3. IsFiniteSet(D) /\ IsFiniteSet(F) /\ Cardinality(D) <= FoldTo /\ Cardinality(F) <= FoldTo
    BY <2>1, <2>2 DEF Few
  <2> HIDE DEF F
  <2>4. /\ IsFiniteSet(D \cup F)
        /\ Cardinality(D \cup F) = Cardinality(D) + Cardinality(F) - Cardinality(D \cap F)
    BY <2>3, FS_Union
  <2>5. IsFiniteSet(D \cap F)
    BY <2>3, FS_Intersection
  <2>6. Cardinality(D) \in Nat /\ Cardinality(F) \in Nat /\ Cardinality(D \cap F) \in Nat
    BY <2>3, <2>5, FS_CardinalityType
  <2>7. Cardinality(D \cup F) <= 2 * FoldTo /\ Cardinality(D \cup F) \in Int
    BY <1>0, <2>3, <2>4, <2>6
  <2>8. DOMAIN s.seen \in SUBSET (D \cup F)
    BY <2>1 DEF F
  <2>9. IsFiniteSet(DOMAIN s.seen) /\ Cardinality(DOMAIN s.seen) <= Cardinality(D \cup F)
    BY <2>4, <2>8, FS_Subset
  <2>10. Cardinality(DOMAIN s.seen) \in Nat
    BY <2>9, FS_CardinalityType
  <2> QED
    BY <1>0, <2>7, <2>9, <2>10
<1>3. s.listed \in BOOLEAN
  BY DEF Folded
<1> QED
  BY <1>1, <1>2, <1>3

\* Fewer signatures are few.
LEMMA FewerAreFew ==
  ASSUME NEW D, Few(D), NEW C \in SUBSET D
  PROVE  Few(C)
<1>1. IsFiniteSet(C) /\ Cardinality(C) <= Cardinality(D) /\ IsFiniteSet(D) /\ Cardinality(D) <= FoldTo
  BY FS_Subset DEF Few
<1>2. Cardinality(C) \in Nat /\ Cardinality(D) \in Nat /\ FoldTo \in Nat
  BY <1>1, FS_CardinalityType, ErrorSamplerAssumption
<1> QED
  BY <1>1, <1>2 DEF Few

\* A rotation only forgets signatures, and leaves the list alone.
Forgets(s, t) ==
  /\ DOMAIN t = SamplerFields
  /\ t.listed = s.listed /\ t.allow = s.allow
  /\ DOMAIN t.seen \subseteq DOMAIN s.seen
  /\ DOMAIN t.rates \subseteq DOMAIN t.seen

\* New rates are for the signatures that are still active.
LEMMA RatedForgets ==
  ASSUME NEW s, Folded(s), NEW rotated, NEW rate, NEW active \in SUBSET DOMAIN s.seen, NEW all
  PROVE  Forgets(s, Rated(s, rotated, rate, active, all))
<1> DEFINE a == [g \in active |-> rotated[g].buckets]
           b == [g \in active |-> rate[g]]
           l == FoldSet(Lower, One, {rate[g] : g \in active})
<1>1. DOMAIN a = active /\ DOMAIN b = active
  OBVIOUS
<1>2. Rated(s, rotated, rate, active, all) =
        [s EXCEPT !.seen = a, !.all = all, !.rates = b, !.lowest = l]
  BY DEF Rated
<1> HIDE DEF a, b, l
<1>3. DOMAIN s = SamplerFields
  BY DEF Folded
<1> QED
  BY <1>1, <1>2, <1>3 DEF Forgets, SamplerFields

\* So does the first trace of a new bucket.
LEMMA InBucketForgets ==
  ASSUME NEW s, Folded(s), NEW target, NEW bucket
  PROVE  Forgets(s, InBucket(s, target, bucket))
<1>1. Forgets(s, s)
  BY DEF Forgets, Folded
<1>2. Forgets(s, UpdateRates(s, target, bucket))
  <2> DEFINE rotated == [g \in DOMAIN s.seen |-> ZeroAndGetMax(s.seen[g], s.last, bucket)]
             tps == TpsOf(rotated)
             rate == RatesAt(s, tps, ComputeTpsPerSig(target, tps))
             act == Active(rate, tps)
             all == ZeroAndGetMax(s.all, s.last, bucket).buckets
  <2>1. UpdateRates(s, target, bucket) =
          IF DOMAIN s.seen = {} THEN s ELSE Rated(s, rotated, rate, act, all)
    BY DEF UpdateRates
  <2>2. act \in SUBSET DOMAIN tps
    BY DEF Active
  <2>3. DOMAIN tps = DOMAIN s.seen
    BY DEF TpsOf
  <2> HIDE DEF rotated, tps, rate, act, all
  <2>4. Forgets(s, Rated(s, rotated, rate, act, all))
    BY <2>2, <2>3, RatedForgets
  <2> QED
    BY <1>1, <2>1, <2>4
<1> DEFINE t == IF bucket = s.last THEN s ELSE UpdateRates(s, target, bucket)
<1>3. Forgets(s, t)
  BY <1>1, <1>2
<1>4. InBucket(s, target, bucket) = [t EXCEPT !.last = bucket]
  BY DEF InBucket
<1> HIDE DEF t
<1> QED
  BY <1>3, <1>4 DEF Forgets, SamplerFields

\* A count adds its signature at most.
LEMMA AddToAdds ==
  ASSUME NEW s, NEW t, Forgets(s, t), NEW sig, NEW i, NEW n
  PROVE  LET u == AddTo(t, sig, i, n)
         IN  /\ DOMAIN u = SamplerFields
             /\ u.listed = s.listed /\ u.allow = s.allow
             /\ DOMAIN u.seen \subseteq DOMAIN s.seen \cup {sig}
             /\ DOMAIN u.rates \subseteq DOMAIN u.seen
<1> DEFINE a == [g \in DOMAIN t.seen \cup {sig} |->
                   IF g # sig THEN t.seen[g]
                   ELSE [j \in BucketIds |->
                           (IF sig \in DOMAIN t.seen THEN t.seen[sig][j] ELSE 0)
                           + (IF j = i THEN n ELSE 0)]]
           b == [t.all EXCEPT ![i] = @ + n]
<1>1. DOMAIN a = DOMAIN t.seen \cup {sig}
  OBVIOUS
<1>2. AddTo(t, sig, i, n) = [t EXCEPT !.seen = a, !.all = b]
  BY DEF AddTo, Forgets, SamplerFields
<1> HIDE DEF a, b
<1>3. DOMAIN t = SamplerFields
  BY DEF Forgets
<1> DEFINE u == [t EXCEPT !.seen = a, !.all = b]
<1>4. DOMAIN u = SamplerFields /\ u.seen = a /\ u.listed = t.listed /\ u.allow = t.allow /\ u.rates = t.rates
  BY <1>3 DEF SamplerFields
<1> HIDE DEF u
<1>5. AddTo(t, sig, i, n) = u
  BY <1>2 DEF u
<1> QED
  BY <1>1, <1>4, <1>5 DEF Forgets

\* A table that does not fold has room for one signature more, and one that
\* folds gets a signature it lets through or a folded one.
LEMMA CountKeepsFew ==
  ASSUME NEW s, Folded(s), NEW target, NEW at, NEW sig, NEW n,
         ~s.listed => Cardinality(DOMAIN s.seen) < FoldTo,
         s.listed => sig \in s.allow \/ sig \in 0 .. (FoldTo - 1)
  PROVE  Folded(CountWeightedSig(s, target, at, sig, n))
<1> DEFINE t == InBucket(s, target, at \div BucketDuration)
           i == (at \div BucketDuration) % NumBuckets
           u == AddTo(t, sig, i, n)
<1>1. CountWeightedSig(s, target, at, sig, n) = u
  BY DEF CountWeightedSig
<1>2. Forgets(s, t)
  BY InBucketForgets
<1> HIDE DEF t, i
<1>3. /\ DOMAIN u = SamplerFields
      /\ u.listed = s.listed /\ u.allow = s.allow
      /\ DOMAIN u.seen \subseteq DOMAIN s.seen \cup {sig}
      /\ DOMAIN u.rates \subseteq DOMAIN u.seen
  BY <1>2, AddToAdds
<1> HIDE DEF u
<1>4. ASSUME ~s.listed PROVE Few(DOMAIN u.seen)
  <2>1. IsFiniteSet(DOMAIN s.seen) /\ Cardinality(DOMAIN s.seen) < FoldTo
    BY <1>4 DEF Folded, Few
  <2> DEFINE d == DOMAIN s.seen
  <2>2. IsFiniteSet(d \cup {sig}) /\ Cardinality(d \cup {sig}) = IF sig \in d THEN Cardinality(d) ELSE Cardinality(d) + 1
    BY <2>1, FS_AddElement
  <2>3. Cardinality(d) \in Nat /\ FoldTo \in Nat
    BY <2>1, FS_CardinalityType, ErrorSamplerAssumption
  <2> HIDE DEF d
  <2>4. Cardinality(d) < FoldTo
    BY <2>1 DEF d
  <2>5. Cardinality(d \cup {sig}) <= FoldTo
    BY <2>2, <2>3, <2>4
  <2>6. Few(d \cup {sig})
    BY <2>2, <2>5 DEF Few
  <2> QED
    BY <1>3, <2>6, FewerAreFew DEF d
<1>5. ASSUME s.listed PROVE Folding(u)
  <2>1. PICK D : Few(D) /\ DOMAIN s.seen \cup s.allow \subseteq D \cup 0 .. (FoldTo - 1)
    BY <1>5 DEF Folded, Folding
  <2>2. sig \in D \cup 0 .. (FoldTo - 1)
    BY <1>5, <2>1
  <2>3. DOMAIN u.seen \cup u.allow \subseteq D \cup 0 .. (FoldTo - 1)
    BY <1>3, <2>1, <2>2
  <2> QED
    BY <2>1, <2>3 DEF Folding
<1> QED
  BY <1>1, <1>3, <1>4, <1>5 DEF Folded

\* The list after a look at the size of the table.
LEMMA ShrinkListKeeps ==
  ASSUME NEW s, Folded(s)
  PROVE  /\ Folded(ShrinkList(s))
         /\ ~ShrinkList(s).listed => Cardinality(DOMAIN ShrinkList(s).seen) < FoldTo
<1>0. FoldTo \in Nat /\ Cardinality(DOMAIN s.seen) \in Nat
  BY FewAndFolded, FS_CardinalityType, ErrorSamplerAssumption
<1>1. DOMAIN s = SamplerFields /\ s.listed \in BOOLEAN /\ DOMAIN s.rates \subseteq DOMAIN s.seen
  BY DEF Folded
<1>2. CASE TableSize(s) < FoldTo
  <2> DEFINE t == [s EXCEPT !.listed = FALSE, !.allow = {}]
  <2>1. ShrinkList(s) = t
    BY <1>2 DEF ShrinkList
  <2>2. DOMAIN t = SamplerFields /\ t.seen = s.seen /\ t.rates = s.rates
    BY <1>1 DEF SamplerFields
  <2>3. t.listed = FALSE
    BY <1>1 DEF SamplerFields
  <2> HIDE DEF t
  <2>4. IsFiniteSet(DOMAIN s.seen) /\ Cardinality(DOMAIN s.seen) < FoldTo
    BY <1>2, FewAndFolded DEF TableSize
  <2>5. Few(DOMAIN t.seen)
    BY <1>0, <2>2, <2>4 DEF Few
  <2> QED
    BY <1>1, <2>1, <2>2, <2>3, <2>4, <2>5 DEF Folded
<1>3. CASE ~(TableSize(s) < FoldTo) /\ s.listed
  <2>1. ShrinkList(s) = s
    BY <1>3 DEF ShrinkList
  <2> QED
    BY <1>3, <2>1
<1>4. CASE ~(TableSize(s) < FoldTo) /\ ~s.listed
  <2> DEFINE t == [s EXCEPT !.listed = TRUE, !.allow = DOMAIN s.rates]
  <2>1. ShrinkList(s) = t
    BY <1>4 DEF ShrinkList
  <2>2. DOMAIN t = SamplerFields /\ t.seen = s.seen /\ t.rates = s.rates /\ t.allow = DOMAIN s.rates
    BY <1>1 DEF SamplerFields
  <2>3. t.listed = TRUE
    BY <1>1 DEF SamplerFields
  <2> HIDE DEF t
  <2>4. Few(DOMAIN s.seen)
    BY <1>4 DEF Folded
  <2>5. Folding(t)
    BY <1>1, <2>2, <2>4 DEF Folding
  <2> QED
    BY <1>1, <2>1, <2>2, <2>3, <2>5 DEF Folded
<1> QED
  BY <1>1, <1>2, <1>3, <1>4

\* The signature a trace is counted under.
LEMMA ShrinkFolds ==
  ASSUME NEW s, NEW sig \in Nat, s.listed
  PROVE  Shrink(s, sig) \in s.allow \/ Shrink(s, sig) \in 0 .. (FoldTo - 1)
<1>1. FoldTo \in Nat \ {0}
  BY ErrorSamplerAssumption
<1>2. sig % FoldTo \in 0 .. (FoldTo - 1)
  BY <1>1
<1> QED
  BY <1>2 DEF Shrink

\* A trace that is sampled.
LEMMA SampleKeeps ==
  ASSUME NEW s, Folded(s), NEW c, NEW at, NEW trace,
         SignatureOf(trace.spans, trace.root) \in Nat
  PROVE  Folded(Sample(s, c, at, trace).s)
<1> DEFINE l == ShrinkList(s)
           sig == Shrink(l, SignatureOf(trace.spans, trace.root))
           k == CountWeightedSig(l, c.target, at, sig, WeightRoot(trace))
<1>1. Folded(l) /\ (~l.listed => Cardinality(DOMAIN l.seen) < FoldTo)
  BY ShrinkListKeeps
<1>2. l.listed => sig \in l.allow \/ sig \in 0 .. (FoldTo - 1)
  BY ShrinkFolds
<1>3. SampleAs(l, c, at, trace, sig).s = k
  BY DEF SampleAs, Counted, Verdict
<1>4. \/ Sample(s, c, at, trace).s = s
      \/ Sample(s, c, at, trace).s = SampleAs(l, c, at, trace, sig).s
  BY DEF Sample
<1> HIDE DEF l, sig
<1>5. Folded(k)
  BY <1>1, <1>2, CountKeepsFew
<1> HIDE DEF k
<1> QED
  BY <1>3, <1>4, <1>5

\* A chunk its user dropped is not stamped.
Stays(c) ==
  /\ c.priority = -1
  /\ c.dm = "manual" \/ (c.dm = "none" /\ \E j \in DOMAIN c.spans : c.spans[j].dm = "manual")
  => c.sr = Zero

\* All chunks of a payload that came out.
AllStay(o) == \E S : o \in Seq(S) /\ \A x \in S : Stays(x)

\* The fields of a chunk.
ChunkFields == {"priority", "dm", "spans", "root", "id", "rate", "sr"}

\* A chunk after its promotion.
Promoted(c) ==
  /\ DOMAIN c = ChunkFields
  /\ c.sr = Zero
  /\ c.dm = "none" => \A j \in DOMAIN c.spans : c.spans[j].dm # "manual"
  /\ SignatureOf(c.spans, c.root) \in Nat

\* After the promotion a chunk without a decision maker has none on its spans.
LEMMA PromotePromotes ==
  ASSUME NEW c, DOMAIN c = ChunkFields, c.sr = Zero, DOMAIN c.spans = 1 .. Len(c.spans),
         SignatureOf(c.spans, c.root) \in Nat
  PROVE  Promoted(Promote(c))
<1> DEFINE made == {i \in DOMAIN c.spans : c.spans[i].dm # "none"}
           d == c.spans[Min(made)].dm
           q == [c EXCEPT !.dm = d]
<1>1. Promote(c) = IF c.dm # "none" \/ made = {} THEN c ELSE q
  BY DEF Promote
<1>2. CASE c.dm # "none" \/ made = {}
  <2>1. Promote(c) = c
    BY <1>1, <1>2
  <2>2. c.dm = "none" => \A j \in DOMAIN c.spans : c.spans[j].dm # "manual"
    BY <1>2
  <2> QED
    BY <2>1, <2>2 DEF Promoted
<1>3. CASE ~(c.dm # "none" \/ made = {})
  <2>1. made \in SUBSET Nat /\ made # {}
    BY <1>3
  <2>2. \E m \in made : \A n \in made : m <= n
    BY <2>1, LeastNumber
  <2>3. Min(made) \in made
    BY <2>2 DEF Min
  <2>4. d # "none"
    BY <2>3
  <2> HIDE DEF made, d
  <2>5. DOMAIN q = ChunkFields /\ q.sr = c.sr /\ q.dm = d /\ q.spans = c.spans /\ q.root = c.root
    BY DEF ChunkFields
  <2> HIDE DEF q
  <2>6. Promote(c) = q
    BY <1>1, <1>3
  <2> QED
    BY <2>4, <2>5, <2>6 DEF Promoted
<1> QED
  BY <1>2, <1>3

\* What a payload looks like part-way.
Acc(a) == Folded(a.s) /\ AllStay(a.out)

\* One more chunk that stays.
LEMMA AppendStays ==
  ASSUME NEW o, AllStay(o), NEW x, Stays(x)
  PROVE  AllStay(Append(o, x))
<1>1. PICK S : o \in Seq(S) /\ \A y \in S : Stays(y)
  BY DEF AllStay
<1> DEFINE T == S \cup {x}
<1>2. \A y \in T : Stays(y)
  BY <1>1
<1>3. S \subseteq T /\ x \in T
  OBVIOUS
<1> HIDE DEF T
<1>4. o \in Seq(T)
  BY <1>1, <1>3
<1>5. Append(o, x) \in Seq(T)
  BY <1>3, <1>4
<1> QED
  BY <1>2, <1>5 DEF AllStay

\* One chunk: eligible, so not dropped by its user, or passed on as it is.
LEMMA RescuedKeeps ==
  ASSUME NEW a, Acc(a), NEW c, NEW at, NEW chunk, Promoted(chunk)
  PROVE  Acc(Rescued(a, c, at, chunk))
<1>1. CASE Eligible(c, chunk)
  <2> DEFINE r == Sample(a.s, c, at, chunk)
             q == [chunk EXCEPT !.sr = r.sr]
             b == [s |-> r.s, out |-> Append(a.out, q)]
  <2>1. Rescued(a, c, at, chunk) = b
    BY <1>1 DEF Rescued, Stamped
  <2>2. Folded(r.s)
    BY SampleKeeps DEF Acc, Promoted
  <2> HIDE DEF r
  <2>3. DOMAIN chunk = ChunkFields
    BY DEF Promoted
  <2>4. q.priority = chunk.priority /\ q.dm = chunk.dm /\ q.spans = chunk.spans
    BY <2>3 DEF ChunkFields
  <2> HIDE DEF q
  <2>5. Stays(q)
    <3>1. chunk.priority = -1 => chunk.dm # "manual"
      BY <1>1 DEF Eligible
    <3>2. chunk.dm = "none" => \A j \in DOMAIN chunk.spans : chunk.spans[j].dm # "manual"
      BY DEF Promoted
    <3> QED
      BY <2>4, <3>1, <3>2 DEF Stays
  <2>6. AllStay(Append(a.out, q))
    BY <2>5, AppendStays DEF Acc
  <2>7. b.s = r.s /\ b.out = Append(a.out, q)
    OBVIOUS
  <2> QED
    BY <2>1, <2>2, <2>6, <2>7 DEF Acc
<1>2. CASE ~Eligible(c, chunk)
  <2> DEFINE b == [s |-> a.s, out |-> Append(a.out, chunk)]
  <2>1. Rescued(a, c, at, chunk) = b
    BY <1>2 DEF Rescued
  <2>2. Stays(chunk)
    BY DEF Promoted, Stays
  <2>3. AllStay(Append(a.out, chunk))
    BY <2>2, AppendStays DEF Acc
  <2>4. b.s = a.s /\ b.out = Append(a.out, chunk)
    OBVIOUS
  <2> QED
    BY <2>1, <2>3, <2>4 DEF Acc
<1> QED
  BY <1>1, <1>2

\* What ApplyErrorRescue computes after n chunks.
RescueSteps(s, c, at, chunks, n, g) ==
  /\ g[0] = [s |-> s, out |-> <<>>]
  /\ \A m \in 1 .. n : g[m] = Rescued(g[m-1], c, at, chunks[m])

\* The equation ApplyErrorRescue is defined by.
RescueLoop(s, c, at, chunks, h) ==
  h = [n \in 0 .. Len(chunks) |->
         IF n = 0 THEN [s |-> s, out |-> <<>>] ELSE Rescued(h[n-1], c, at, chunks[n])]

\* It has a solution: ApplyErrorRescue goes from chunk to chunk.
LEMMA RescueComputed ==
  ASSUME NEW s, NEW c, NEW at, NEW chunks, Len(chunks) \in Nat
  PROVE  \E h : /\ ApplyErrorRescue(s, c, at, chunks) = h[Len(chunks)]
                /\ RescueSteps(s, c, at, chunks, Len(chunks), h)
<1> DEFINE N == Len(chunks)
           T == {n \in 0 .. N : \E g : DOMAIN g = 0 .. n /\ RescueSteps(s, c, at, chunks, n, g)}
<1>0. N \in Nat
  OBVIOUS
<1>1. 0 \in T
  <2> DEFINE g == [n \in 0 .. 0 |-> [s |-> s, out |-> <<>>]]
  <2>1. DOMAIN g = 0 .. 0 /\ g[0] = [s |-> s, out |-> <<>>]
    OBVIOUS
  <2> HIDE DEF g
  <2>2. RescueSteps(s, c, at, chunks, 0, g)
    BY <2>1 DEF RescueSteps
  <2> QED
    BY <1>0, <2>1, <2>2
<1>2. ASSUME NEW n \in 0 .. (N - 1), n \in T PROVE n + 1 \in T
  <2>1. PICK g : DOMAIN g = 0 .. n /\ RescueSteps(s, c, at, chunks, n, g)
    BY <1>2
  <2>2. n \in Nat /\ n + 1 \in 0 .. N
    BY <1>0
  <2> DEFINE x == Rescued(g[n], c, at, chunks[n+1])
             f == [m \in 0 .. (n + 1) |-> IF m = n + 1 THEN x ELSE g[m]]
  <2>3. DOMAIN f = 0 .. (n + 1) /\ f[n+1] = x /\ \A m \in 0 .. n : f[m] = g[m]
    BY <2>2
  <2> HIDE DEF f
  <2>4. f[0] = [s |-> s, out |-> <<>>]
    BY <2>1, <2>2, <2>3 DEF RescueSteps
  <2>5. ASSUME NEW m \in 1 .. (n + 1) PROVE f[m] = Rescued(f[m-1], c, at, chunks[m])
    <3>1. CASE m = n + 1
      <4>1. m - 1 = n /\ n \in 0 .. n
        BY <2>2, <3>1
      <4> QED
        BY <2>3, <3>1, <4>1
    <3>2. CASE m # n + 1
      <4>1. m \in 1 .. n /\ m - 1 \in 0 .. n /\ m \in 0 .. n
        BY <2>2, <3>2
      <4>2. g[m] = Rescued(g[m-1], c, at, chunks[m])
        BY <2>1, <4>1 DEF RescueSteps
      <4> QED
        BY <2>3, <4>1, <4>2
    <3> QED
      BY <3>1, <3>2
  <2>6. RescueSteps(s, c, at, chunks, n + 1, f)
    BY <2>4, <2>5 DEF RescueSteps
  <2> QED
    BY <2>2, <2>3, <2>6
<1>3. N \in T
  <2> HIDE DEF T, N
  <2>1. \A n \in 0 .. N : n \in T
    BY <1>0, <1>1, <1>2, CountUp
  <2> QED
    BY <1>0, <2>1
<1>4. PICK g : DOMAIN g = 0 .. N /\ RescueSteps(s, c, at, chunks, N, g)
  BY <1>3
<1> HIDE DEF N
<1> DEFINE k == [n \in 0 .. N |-> IF n = 0 THEN [s |-> s, out |-> <<>>]
                                 ELSE Rescued(g[n-1], c, at, chunks[n])]
           G == [n \in 0 .. N |-> g[n]]
<1>5. ASSUME NEW n \in 0 .. N PROVE k[n] = G[n]
  <2>1. CASE n = 0
    BY <1>4, <2>1 DEF RescueSteps
  <2>2. CASE n # 0
    <3>1. n \in 1 .. N
      BY <1>0, <2>2
    <3> QED
      BY <1>4, <2>2, <3>1 DEF RescueSteps
  <2> QED
    BY <2>1, <2>2
<1>6. \A n \in 0 .. N : n # 0 => G[n-1] = g[n-1]
  <2> TAKE n \in 0 .. N
  <2>1. n # 0 => n - 1 \in 0 .. N
    BY <1>0
  <2> QED
    BY <2>1
<1>7. k = [n \in 0 .. N |-> IF n = 0 THEN [s |-> s, out |-> <<>>]
                            ELSE Rescued(G[n-1], c, at, chunks[n])]
  <2> HIDE DEF G
  <2> QED
    BY <1>6
<1>8. k = G
  <2>1. k = [n \in 0 .. N |-> k[n]] /\ G = [n \in 0 .. N |-> G[n]]
    OBVIOUS
  <2> HIDE DEF k, G
  <2> QED
    BY <1>5, <2>1
<1> HIDE DEF k, G
<1>9. RescueLoop(s, c, at, chunks, G)
  BY <1>7, <1>8 DEF RescueLoop, N
<1>10. PICK h : h = CHOOSE l : RescueLoop(s, c, at, chunks, l)
  OBVIOUS
<1>11. RescueLoop(s, c, at, chunks, h)
  BY <1>9, <1>10
<1>12. ApplyErrorRescue(s, c, at, chunks) = h[N]
  BY <1>10 DEF ApplyErrorRescue, RescueLoop, N
<1>13. ASSUME NEW n \in 0 .. N
       PROVE  h[n] = IF n = 0 THEN [s |-> s, out |-> <<>>] ELSE Rescued(h[n-1], c, at, chunks[n])
  BY <1>11 DEF RescueLoop, N
<1>14. h[0] = [s |-> s, out |-> <<>>]
  BY <1>0, <1>13
<1>15. ASSUME NEW m \in 1 .. N PROVE h[m] = Rescued(h[m-1], c, at, chunks[m])
  <2>1. m \in 0 .. N /\ m # 0
    BY <1>0
  <2> QED
    BY <1>13, <2>1
<1>16. RescueSteps(s, c, at, chunks, N, h)
  BY <1>14, <1>15 DEF RescueSteps
<1> QED
  BY <1>12, <1>16 DEF N

\* A whole payload.
LEMMA RescueKeeps ==
  ASSUME NEW s, Folded(s), NEW c, NEW at, NEW chunks, Len(chunks) \in Nat,
         \A i \in 1 .. Len(chunks) : Promoted(chunks[i])
  PROVE  Acc(ApplyErrorRescue(s, c, at, chunks))
<1> DEFINE N == Len(chunks)
<1>0. N \in Nat
  OBVIOUS
<1>1. PICK h : ApplyErrorRescue(s, c, at, chunks) = h[N] /\ RescueSteps(s, c, at, chunks, N, h)
  BY RescueComputed
<1>2. \A i \in 1 .. N : Promoted(chunks[i])
  OBVIOUS
<1> HIDE DEF N
<1> DEFINE T == {n \in 0 .. N : Acc(h[n])}
<1>3. 0 \in T
  <2> DEFINE b == [s |-> s, out |-> <<>>]
  <2>1. b.s = s /\ b.out = <<>>
    OBVIOUS
  <2>2. AllStay(<<>>)
    <3>1. <<>> \in Seq({}) /\ \A x \in {} : Stays(x)
      OBVIOUS
    <3> QED
      BY <3>1 DEF AllStay
  <2>3. h[0] = b
    BY <1>1 DEF RescueSteps
  <2> HIDE DEF b
  <2> QED
    BY <1>0, <2>1, <2>2, <2>3 DEF Acc
<1>4. ASSUME NEW n \in 0 .. (N - 1), n \in T PROVE n + 1 \in T
  <2>1. n + 1 \in 1 .. N /\ n + 1 \in 0 .. N /\ (n + 1) - 1 = n
    BY <1>0
  <2>2. h[n+1] = Rescued(h[n], c, at, chunks[n+1])
    BY <1>1, <2>1 DEF RescueSteps
  <2>3. Acc(h[n]) /\ Promoted(chunks[n+1])
    BY <1>2, <1>4, <2>1
  <2>4. Acc(Rescued(h[n], c, at, chunks[n+1]))
    BY <2>3, RescuedKeeps
  <2> QED
    BY <2>1, <2>2, <2>4
<1>5. \A n \in 0 .. N : n \in T
  <2> HIDE DEF T
  <2> QED
    BY <1>0, <1>3, <1>4, CountUp
<1>6. N \in T
  BY <1>0, <1>5
<1> QED
  BY <1>1, <1>6

\* The inductive invariant of the error sampler.
SamplerInv == Folded(sampler) /\ AllStay(out)

\* A new sampler is empty.
LEMMA SamplerInvInit == ASSUME SamplerInit PROVE SamplerInv
<1>1. sampler = NewSampler /\ out = <<>>
  BY DEF SamplerInit
<1>2. DOMAIN NewSampler = SamplerFields /\ DOMAIN NewSampler.seen = {} /\ DOMAIN NewSampler.rates = {}
  BY DEF NewSampler, SamplerFields
<1>3. NewSampler.listed = FALSE
  BY DEF NewSampler
<1>4. Few({})
  BY FS_EmptySet, ErrorSamplerAssumption DEF Few
<1>5. Folded(NewSampler)
  BY <1>2, <1>3, <1>4 DEF Folded
<1>6. <<>> \in Seq({}) /\ \A x \in {} : Stays(x)
  OBVIOUS
<1> QED
  BY <1>1, <1>5, <1>6 DEF SamplerInv, AllStay

\* Every payload keeps the invariant.
LEMMA SamplerInvStep ==
  ASSUME SamplerInv, [SamplerNext]_samplerVars
  PROVE  SamplerInv'
<1>1. ASSUME NEW p \in RescuePayloads, NEW reading \in ClockReadings, ProcessV07(p, reading)
      PROVE  SamplerInv'
  <2> DEFINE q == [i \in DOMAIN p |-> Promote(p[i])]
  <2>1. PICK r : r = ApplyErrorRescue(sampler, settings, ClampTimestamp(reading), q)
    OBVIOUS
  <2>2. sampler' = r.s /\ out' = r.out
    BY <1>1, <2>1 DEF ProcessV07, RescueIn, Processed
  <2>3. DOMAIN p = 1 .. Len(p) /\ Len(p) \in Nat
    BY ErrorSamplerAssumption
  <2>4. ASSUME NEW i \in 1 .. Len(p) PROVE Promoted(Promote(p[i]))
    <3>1. /\ DOMAIN p[i] = ChunkFields /\ p[i].sr = Zero
          /\ DOMAIN p[i].spans = 1 .. Len(p[i].spans)
          /\ SignatureOf(p[i].spans, p[i].root) \in Nat
      BY <2>3, ErrorSamplerAssumption DEF ChunkFields, Zero
    <3> QED
      BY <3>1, PromotePromotes
  <2>5. Len(q) = Len(p) /\ \A i \in 1 .. Len(p) : q[i] = Promote(p[i])
    BY <2>3
  <2> HIDE DEF q
  <2>6. Len(q) \in Nat /\ \A i \in 1 .. Len(q) : Promoted(q[i])
    BY <2>3, <2>4, <2>5
  <2>7. Acc(r)
    BY <2>1, <2>6, RescueKeeps DEF SamplerInv
  <2> QED
    BY <2>2, <2>7 DEF Acc, SamplerInv
<1>2. CASE ProcessOther
  <2>1. sampler' = sampler /\ out' = <<>>
    BY <1>2 DEF ProcessOther
  <2>2. <<>> \in Seq({}) /\ \A x \in {} : Stays(x)
    OBVIOUS
  <2> QED
    BY <2>1, <2>2 DEF SamplerInv, AllStay
<1>3. CASE UNCHANGED samplerVars
  BY <1>3 DEF samplerVars, SamplerInv
<1> QED
  BY <1>1, <1>2, <1>3 DEF SamplerNext

\* Whatever payloads and settings: a trace its user dropped by hand is never
\* rescued (trace_processor.rs, apply_error_rescue).
THEOREM ManualDropsStay == SamplerSpec => []ManualDropStays
<1>1. SamplerInit => SamplerInv
  BY SamplerInvInit
<1>2. SamplerInv /\ [SamplerNext]_samplerVars => SamplerInv'
  BY SamplerInvStep
<1>3. SamplerInv => ManualDropStays
  <2> SUFFICES ASSUME SamplerInv PROVE ManualDropStays
    OBVIOUS
  <2>1. PICK S : out \in Seq(S) /\ \A x \in S : Stays(x)
    BY DEF SamplerInv, AllStay
  <2>2. \A i \in DOMAIN out : Stays(out[i])
    BY <2>1
  <2> QED
    BY <2>2 DEF ManualDropStays, Stays
<1> QED
  BY <1>1, <1>2, <1>3, PTL DEF SamplerSpec

\* The sampler stores no more than twice FoldTo signatures.
LEMMA InvBounded == ASSUME SamplerInv PROVE CardinalityBounded
  BY FewAndFolded DEF SamplerInv, CardinalityBounded, TableSize

-----------------------------------------------------------------------------
(* The window of the error sampler: the counters hold exactly what the     *)
(* last buckets weighed.                                                   *)

\* Division with a remainder.
LEMMA DivRest ==
  ASSUME NEW n \in Int, NEW k \in Nat \ {0}
  PROVE  \E q \in Int, r \in 0 .. (k - 1) : n \div k = q /\ n % k = r /\ n = k * q + r
  OBVIOUS

LEMMA RestIs ==
  ASSUME NEW k \in Nat \ {0}, NEW q \in Int, NEW r \in 0 .. (k - 1)
  PROVE  (k * q + r) % k = r
  OBVIOUS

LEMMA OnlyZeroTimes ==
  ASSUME NEW k \in Nat \ {0}, NEW q \in Int, -k < k * q, k * q < k
  PROVE  q = 0
  OBVIOUS

LEMMA DivGrows ==
  ASSUME NEW a \in Nat, NEW b \in Nat, a <= b, NEW k \in Nat \ {0}
  PROVE  a \div k <= b \div k /\ a \div k \in Nat /\ b \div k \in Nat
  OBVIOUS

\* Buckets less than a window apart are not in the same place,
LEMMA RestsApart ==
  ASSUME NEW k \in Nat \ {0}, NEW a \in Int, NEW b \in Int, a < b, b - a < k
  PROVE  a % k # b % k
<1>1. PICK q \in Int, r \in 0 .. (k - 1) : a % k = r /\ a = k * q + r
  BY DivRest
<1>2. PICK p \in Int, t \in 0 .. (k - 1) : b % k = t /\ b = k * p + t
  BY DivRest
<1>3. SUFFICES ASSUME r = t PROVE FALSE
  BY <1>1, <1>2
<1>4. b - a = k * (p - q) /\ p - q \in Int
  BY <1>1, <1>2, <1>3
<1>5. p - q = 0
  BY <1>4, OnlyZeroTimes
<1> QED
  BY <1>4, <1>5

\* and a window has a bucket for every place.
LEMMA RestsHit ==
  ASSUME NEW k \in Nat \ {0}, NEW a \in Int, NEW j \in 0 .. (k - 1)
  PROVE  \E i \in (a + 1) .. (a + k) : i % k = j
<1>1. PICK q \in Int, r \in 0 .. (k - 1) : j - a - 1 = k * q + r
  <2>1. j - a - 1 \in Int
    OBVIOUS
  <2> QED
    BY <2>1, DivRest
<1>2. a + 1 + r = k * (0 - q) + j /\ 0 - q \in Int
  BY <1>1
<1>3. (k * (0 - q) + j) % k = j
  BY <1>2, RestIs
<1>4. a + 1 + r \in (a + 1) .. (a + k)
  BY <1>1
<1> QED
  BY <1>2, <1>3, <1>4

\* The largest of finitely many numbers.
LEMMA MaxIsLargest ==
  ASSUME NEW S \in SUBSET Int, IsFiniteSet(S), S # {}
  PROVE  Max(S) \in S /\ \A y \in S : y <= Max(S)
<1> DEFINE T == {s \in SUBSET S : s = {} \/ \E x \in s : \A y \in s : x >= y}
<1>1. {} \in T
  OBVIOUS
<1>2. ASSUME NEW s \in SUBSET S, s \in T, NEW z \in S \ s PROVE s \cup {z} \in T
  <2>1. CASE s = {}
    <3>1. z \in s \cup {z} /\ \A y \in s \cup {z} : z >= y
      BY <2>1
    <3> QED
      BY <3>1
  <2>2. CASE s # {}
    <3>1. PICK x \in s : \A y \in s : x >= y
      BY <1>2, <2>2
    <3>2. x \in Int /\ z \in Int
      OBVIOUS
    <3>3. CASE x >= z
      <4>1. x \in s \cup {z} /\ \A y \in s \cup {z} : x >= y
        BY <3>1, <3>3
      <4> QED
        BY <4>1
    <3>4. CASE ~(x >= z)
      <4>1. \A y \in s : z >= y
        BY <3>1, <3>2, <3>4
      <4>2. z \in s \cup {z} /\ \A y \in s \cup {z} : z >= y
        BY <3>2, <4>1
      <4> QED
        BY <4>2
    <3> QED
      BY <3>3, <3>4
  <2> QED
    BY <2>1, <2>2
<1>3. S \in T
  <2> HIDE DEF T
  <2> QED
    BY <1>1, <1>2, SetInduction
<1>4. \E x \in S : \A y \in S : x >= y
  BY <1>3
<1>5. Max(S) \in S /\ \A y \in S : Max(S) >= y
  BY <1>4 DEF Max
<1> QED
  BY <1>5

-----------------------------------------------------------------------------
(* A rotation.                                                             *)

\* The place j is taken by one of the buckets up to the new one.
Expired(previous, new, j) ==
  \E i \in (previous + 1) .. (previous + NumBuckets) : i <= new /\ i % NumBuckets = j

BucketCounts == [BucketIds -> Nat]

\* A bucket's place.
LEMMA PlaceOf ==
  ASSUME NEW i \in Int
  PROVE  i % NumBuckets \in BucketIds
<1>1. NumBuckets \in Nat \ {0}
  BY ErrorSamplerAssumption
<1> QED
  BY <1>1, DivRest DEF BucketIds

\* What a rotation leaves of the counters, and which of them its maximum covers.
LEMMA Rotates ==
  ASSUME NEW buckets \in BucketCounts, NEW previous \in Nat, NEW new \in Nat,
         NEW z, z = ZeroAndGetMax(buckets, previous, new)
  PROVE  /\ z.buckets \in BucketCounts
         /\ \A j \in BucketIds :
              z.buckets[j] = IF Expired(previous, new, j) THEN 0 ELSE buckets[j]
         /\ z.max \in Nat
         /\ \A j \in BucketIds : ~Expired(previous, new, j) => buckets[j] <= z.max
<1>0. NumBuckets \in Nat \ {0}
  BY ErrorSamplerAssumption
<1> DEFINE window == previous + 1 .. previous + NumBuckets
           D == {j \in window : j >= new}
           live == {buckets[i % NumBuckets] : i \in D}
           expired == {i % NumBuckets : i \in {j \in window : j <= new}}
           m == Max(live \cup {0})
           r == [i \in BucketIds |-> IF i \in expired THEN 0 ELSE buckets[i]]
<1>1. z.max = m /\ z.buckets = r
  BY DEF ZeroAndGetMax
<1>2. \A j \in BucketIds : j \in expired <=> Expired(previous, new, j)
  BY DEF Expired
<1>3. \A i \in D : i \in Int /\ i % NumBuckets \in BucketIds
  <2>1. \A i \in D : i \in Int
    BY <1>0
  <2> QED
    BY <2>1, PlaceOf
<1>4. live \in SUBSET Nat
  BY <1>3 DEF BucketCounts
<1>5. IsFiniteSet(live \cup {0})
  <2>1. previous + 1 \in Int /\ previous + NumBuckets \in Int
    BY <1>0
  <2>2. IsFiniteSet(window)
    BY <2>1, FS_Interval
  <2>3. D \in SUBSET window
    OBVIOUS
  <2> DEFINE f == [i \in D |-> buckets[i % NumBuckets]]
  <2>4. f \in Surjection(D, live)
    BY DEF Surjection
  <2> HIDE DEF window, D, live, f
  <2>5. IsFiniteSet(D)
    BY <2>2, <2>3, FS_Subset
  <2>6. IsFiniteSet(live)
    BY <2>4, <2>5, FS_Surjection
  <2> QED
    BY <2>6, FS_AddElement
<1>6. m \in Nat /\ \A y \in live : y <= m
  <2>1. live \cup {0} \in SUBSET Int /\ live \cup {0} # {}
    BY <1>4
  <2> HIDE DEF live
  <2>2. m \in live \cup {0} /\ \A y \in live \cup {0} : y <= m
    BY <1>5, <2>1, MaxIsLargest
  <2> HIDE DEF m
  <2> QED
    BY <1>4, <2>2
<1>7. ASSUME NEW j \in BucketIds, ~Expired(previous, new, j) PROVE buckets[j] \in live
  <2>1. j \in 0 .. (NumBuckets - 1) /\ previous \in Int
    BY DEF BucketIds
  <2>2. PICK i \in (previous + 1) .. (previous + NumBuckets) : i % NumBuckets = j
    BY <1>0, <2>1, RestsHit
  <2>3. ~(i <= new)
    BY <1>7, <2>2 DEF Expired
  <2>4. i \in D
    BY <1>0, <2>3
  <2>5. buckets[i % NumBuckets] \in live
    BY <2>4
  <2> QED
    BY <2>2, <2>5
<1>8. \A j \in BucketIds : r[j] = IF Expired(previous, new, j) THEN 0 ELSE buckets[j]
  BY <1>2
<1>9. r \in BucketCounts
  BY DEF BucketCounts
<1> HIDE DEF r, m, live
<1> QED
  BY <1>1, <1>6, <1>7, <1>8, <1>9

\* The new window starts with the part of the old one that it covers, and with
\* empty places.
LEMMA WindowMoves ==
  ASSUME NEW previous \in Nat, NEW new \in Nat, previous < new,
         NEW b \in (new - NumBuckets + 1) .. new
  PROVE  /\ b <= previous => ~Expired(previous, new, b % NumBuckets)
         /\ b > previous => Expired(previous, new, b % NumBuckets)
         /\ b <= previous => b \in (previous - NumBuckets + 1) .. previous
         /\ b \in Int
<1>0. NumBuckets \in Nat \ {0} /\ b \in Int
  BY ErrorSamplerAssumption
<1>1. ASSUME b <= previous, Expired(previous, new, b % NumBuckets) PROVE FALSE
  <2>1. PICK i \in (previous + 1) .. (previous + NumBuckets) :
                i <= new /\ i % NumBuckets = b % NumBuckets
    BY <1>1 DEF Expired
  <2>2. i \in Int /\ b < i /\ i - b < NumBuckets
    BY <1>0, <1>1, <2>1
  <2> QED
    BY <1>0, <2>1, <2>2, RestsApart
<1>2. ASSUME b > previous PROVE Expired(previous, new, b % NumBuckets)
  <2>1. CASE b <= previous + NumBuckets
    <3>1. b \in (previous + 1) .. (previous + NumBuckets) /\ b <= new
      BY <1>0, <1>2, <2>1
    <3> QED
      BY <3>1 DEF Expired
  <2>2. CASE b > previous + NumBuckets
    <3>1. b % NumBuckets \in 0 .. (NumBuckets - 1) /\ previous \in Int
      BY <1>0, PlaceOf DEF BucketIds
    <3>2. PICK i \in (previous + 1) .. (previous + NumBuckets) : i % NumBuckets = b % NumBuckets
      BY <1>0, <3>1, RestsHit
    <3>3. i <= new
      BY <1>0, <2>2
    <3> QED
      BY <3>2, <3>3 DEF Expired
  <2> QED
    BY <1>0, <2>1, <2>2
<1> QED
  BY <1>0, <1>1, <1>2

\* What the signatures have in place j together.
Column(of, j) == SumFunctionOnSet([g \in DOMAIN of |-> of[g][j]], DOMAIN of)

\* The counters of the signatures, and their sums.
Counts(s) ==
  /\ DOMAIN s = SamplerFields
  /\ s.last \in Nat
  /\ s.all \in BucketCounts
  /\ IsFiniteSet(DOMAIN s.seen)
  /\ \A g \in DOMAIN s.seen : s.seen[g] \in BucketCounts
  /\ \A j \in BucketIds : s.all[j] = Column(s.seen, j)

\* What bucket b weighed.
WeighedIn(history, b) == IF b \in DOMAIN history THEN history[b] ELSE 0

\* The counters of the window are what its buckets weighed.
Covers(s, history) ==
  /\ DOMAIN history \subseteq 0 .. s.last
  /\ \A b \in (s.last - NumBuckets + 1) .. s.last :
       s.all[b % NumBuckets] = WeighedIn(history, b)

\* A column without signatures is 0.
LEMMA NoColumn ==
  ASSUME NEW of, DOMAIN of = {}, NEW j
  PROVE  Column(of, j) = 0
  BY SumEmpty DEF Column

\* A division without a remainder.
LEMMA DivExact ==
  ASSUME NEW n \in Nat, NEW k \in Nat \ {0}, n % k = 0
  PROVE  n = k * (n \div k) /\ n \div k \in Nat
  OBVIOUS

LEMMA SameRatio ==
  ASSUME NEW n \in Nat, NEW d \in Nat \ {0}, NEW k \in Nat \ {0}, NEW a \in Nat, NEW b \in Nat,
         n = k * a, d = k * b
  PROVE  a * d = n * b /\ b # 0 /\ (n # 0 => a # 0)
  OBVIOUS

\* A fraction in lowest terms has the value of the fraction it was made of.
LEMMA FracIs ==
  ASSUME NEW n \in Nat, NEW d \in Nat \ {0}
  PROVE  \E a \in Nat, b \in Nat \ {0} :
           /\ Frac(n, d) = <<a, b>> /\ a * d = n * b
           /\ n # 0 => a # 0
           /\ n = 0 => a = 0 /\ b = 1
<1>1. CASE n = 0
  <2>1. Frac(n, d) = <<0 \div d, d \div d>>
    BY <1>1 DEF Frac, DividedBy
  <2>2. 0 \div d = 0 /\ d \div d = 1
    OBVIOUS
  <2>3. Frac(n, d) = <<0, 1>> /\ 0 * d = n * 1
    BY <1>1, <2>1, <2>2
  <2>4. 0 \in Nat /\ 1 \in Nat \ {0}
    OBVIOUS
  <2> QED
    BY <1>1, <2>3, <2>4
<1>2. CASE n # 0
  <2> DEFINE C == CommonDivisors(n, d)
             k == Max(C)
  <2>1. C \in SUBSET (1 .. n) /\ 1 \in C
    <3>1. n % 1 = 0 /\ d % 1 = 0
      OBVIOUS
    <3>2. \A j \in C : j \in 1 .. n
      BY DEF CommonDivisors
    <3>3. 1 \in 1 .. (IF n < d THEN n ELSE d)
      BY <1>2
    <3> QED
      BY <3>1, <3>2, <3>3 DEF CommonDivisors
  <2>2. IsFiniteSet(C) /\ C \in SUBSET Int /\ C # {}
    <3>1. IsFiniteSet(1 .. n)
      BY FS_Interval
    <3>2. IsFiniteSet(C)
      <4> HIDE DEF C
      <4> QED
        BY <2>1, <3>1, FS_Subset
    <3> QED
      BY <2>1, <3>2
  <2>3. k \in C
    <3> HIDE DEF C
    <3> QED
      BY <2>2, MaxIsLargest
  <2>4. Frac(n, d) = <<n \div k, d \div k>>
    BY <1>2 DEF Frac, DividedBy
  <2> HIDE DEF k
  <2>5. k \in 1 .. n /\ n % k = 0 /\ d % k = 0
    BY <2>1, <2>3 DEF CommonDivisors
  <2>6. k \in Nat \ {0}
    BY <2>5
  <2>7. n = k * (n \div k) /\ n \div k \in Nat
    BY <2>5, <2>6, DivExact
  <2>8. d = k * (d \div k) /\ d \div k \in Nat
    BY <2>5, <2>6, DivExact
  <2>9. PICK a, b : a = n \div k /\ b = d \div k
    OBVIOUS
  <2>10. a \in Nat /\ b \in Nat /\ n = k * a /\ d = k * b
    BY <2>7, <2>8, <2>9
  <2>11. a * d = n * b /\ b # 0 /\ (n # 0 => a # 0)
    BY <2>6, <2>10, SameRatio
  <2> QED
    BY <1>2, <2>4, <2>9, <2>10, <2>11
<1> QED
  BY <1>1, <1>2

\* A signature that is forgotten counted nothing in the places that are kept.
LEMMA FractionOfNone ==
  ASSUME NEW n \in Nat, NEW d \in Nat \ {0}, Frac(n, d) = Zero
  PROVE  n = 0
  BY FracIs DEF Zero

\* The counters of each signature after a rotation.
Rotated(s, new) == [g \in DOMAIN s.seen |-> ZeroAndGetMax(s.seen[g], s.last, new)]

\* The signatures that are forgotten counted nothing.
KeepsActive(s, new, active) ==
  /\ active \subseteq DOMAIN s.seen
  /\ \A g \in DOMAIN s.seen \ active : TpsOf(Rotated(s, new))[g] = Zero

KeptCounts(s, new, active) == [g \in active |-> Rotated(s, new)[g].buckets]

\* The sums after a rotation that forgets the signatures seen no more.
LEMMA RotatedSums ==
  ASSUME NEW s, Counts(s), NEW new \in Nat,
         NEW active, KeepsActive(s, new, active), NEW j \in BucketIds
  PROVE  ZeroAndGetMax(s.all, s.last, new).buckets[j] = Column(KeptCounts(s, new, active), j)
<1>0. s.last \in Nat /\ s.all \in BucketCounts /\ BucketDuration \in Nat \ {0}
  BY ErrorSamplerAssumption DEF Counts
<1> DEFINE D == DOMAIN s.seen
           rotated == Rotated(s, new)
<1>1. IsFiniteSet(D) /\ active \in SUBSET D
  BY DEF Counts, KeepsActive
<1>a. IsFiniteSet(active)
  BY <1>1, FS_Subset
<1>2. ASSUME NEW g \in D
      PROVE  /\ rotated[g].max \in Nat
             /\ rotated[g].buckets[j] = IF Expired(s.last, new, j) THEN 0 ELSE s.seen[g][j]
             /\ ~Expired(s.last, new, j) => s.seen[g][j] <= rotated[g].max
             /\ s.seen[g][j] \in Nat
  <2>1. s.seen[g] \in BucketCounts
    BY DEF Counts
  <2>2. PICK z : z = ZeroAndGetMax(s.seen[g], s.last, new)
    OBVIOUS
  <2>3. rotated[g] = z
    BY <2>2 DEF Rotated
  <2>4. s.seen[g][j] \in Nat
    BY <2>1 DEF BucketCounts
  <2> QED
    BY <1>0, <2>1, <2>2, <2>3, <2>4, Rotates
<1> DEFINE f == [g \in D |-> s.seen[g][j]]
           h == [g \in active |-> rotated[g].buckets[j]]
<1> HIDE DEF rotated
<1>3. Column(KeptCounts(s, new, active), j) = SumFunctionOnSet(h, active)
  <2> DEFINE c == [g \in active |-> rotated[g].buckets]
  <2>1. DOMAIN c = active /\ [g \in DOMAIN c |-> c[g][j]] = h
    OBVIOUS
  <2> HIDE DEF c, h
  <2>2. Column(c, j) = SumFunctionOnSet(h, active)
    BY <2>1 DEF Column
  <2> QED
    BY <2>2 DEF c, KeptCounts, rotated
<1>4. s.all[j] = SumFunctionOnSet(f, D)
  BY DEF Counts, Column
<1>5. PICK z : z = ZeroAndGetMax(s.all, s.last, new)
  OBVIOUS
<1>6. z.buckets[j] = IF Expired(s.last, new, j) THEN 0 ELSE s.all[j]
  BY <1>0, <1>5, Rotates
<1>7. CASE Expired(s.last, new, j)
  <2>1. \A g \in active : h[g] = 0
    BY <1>1, <1>2, <1>7
  <2> HIDE DEF h
  <2>2. SumFunctionOnSet(h, active) = SumFunctionOnSet(h, {})
    <3>1. \A g \in active : h[g] \in Int
      BY <2>1
    <3>2. {} \in SUBSET active /\ \A g \in active \ {} : h[g] = 0
      BY <2>1
    <3> QED
      BY <1>a, <3>1, <3>2, SumWithoutZeroes
  <2>3. SumFunctionOnSet(h, {}) = 0
    BY SumEmpty
  <2> QED
    BY <1>3, <1>5, <1>6, <1>7, <2>2, <2>3
<1>8. CASE ~Expired(s.last, new, j)
  <2>1. \A g \in D : f[g] = s.seen[g][j] /\ f[g] \in Int
    BY <1>2
  <2>2. ASSUME NEW g \in D \ active PROVE f[g] = 0
    <3>1. Frac(rotated[g].max, BucketDuration) = Zero
      BY <1>1 DEF TpsOf, KeepsActive, rotated, Rotated
    <3>2. rotated[g].max = 0
      BY <1>0, <1>2, <3>1, FractionOfNone
    <3> QED
      BY <1>2, <1>8, <2>1, <3>2
  <2>3. \A g \in active : h[g] = f[g]
    BY <1>1, <1>2, <1>8, <2>1
  <2> HIDE DEF h, f, D
  <2>4. active \in SUBSET D
    BY <1>1 DEF D
  <2>5. SumFunctionOnSet(f, D) = SumFunctionOnSet(f, active)
    BY <1>1, <2>1, <2>2, <2>4, SumWithoutZeroes
  <2>6. \A g \in active : f[g] \in Int /\ f[g] = h[g]
    BY <2>1, <2>3, <2>4
  <2>7. SumFunctionOnSet(f, active) = SumFunctionOnSet(h, active)
    BY <1>a, <2>6, SumSame
  <2> QED
    BY <1>3, <1>4, <1>5, <1>6, <1>8, <2>5, <2>7
<1> QED
  BY <1>7, <1>8

\* A rotation covers the new window.
LEMMA RotatedCovers ==
  ASSUME NEW s, Counts(s), NEW history, Covers(s, history), NEW new \in Nat, s.last < new,
         NEW b \in (new - NumBuckets + 1) .. new
  PROVE  ZeroAndGetMax(s.all, s.last, new).buckets[b % NumBuckets] = WeighedIn(history, b)
<1>0. s.last \in Nat /\ s.all \in BucketCounts
  BY DEF Counts
<1>1. PICK z : z = ZeroAndGetMax(s.all, s.last, new)
  OBVIOUS
<1>2. /\ b <= s.last => ~Expired(s.last, new, b % NumBuckets)
      /\ b > s.last => Expired(s.last, new, b % NumBuckets)
      /\ b <= s.last => b \in (s.last - NumBuckets + 1) .. s.last
      /\ b \in Int
  BY <1>0, WindowMoves
<1>3. b % NumBuckets \in BucketIds
  BY <1>2, PlaceOf
<1>4. z.buckets[b % NumBuckets] =
        IF Expired(s.last, new, b % NumBuckets) THEN 0 ELSE s.all[b % NumBuckets]
  BY <1>0, <1>1, <1>3, Rotates
<1>5. CASE b <= s.last
  BY <1>1, <1>2, <1>4, <1>5 DEF Covers
<1>6. CASE b > s.last
  <2>1. b \notin DOMAIN history
    <3>1. DOMAIN history \subseteq 0 .. s.last
      BY DEF Covers
    <3>2. b \notin 0 .. s.last
      BY <1>0, <1>2, <1>6
    <3> QED
      BY <3>1, <3>2
  <2> QED
    BY <1>1, <1>2, <1>4, <1>6, <2>1 DEF WeighedIn
<1> QED
  BY <1>0, <1>2, <1>5, <1>6

\* A later bucket, when nothing was counted yet.
LEMMA EmptyCovers ==
  ASSUME NEW s, Counts(s), NEW history, Covers(s, history), DOMAIN s.seen = {},
         NEW new \in Nat, s.last < new, NEW b \in (new - NumBuckets + 1) .. new
  PROVE  s.all[b % NumBuckets] = WeighedIn(history, b)
<1>0. s.last \in Nat
  BY DEF Counts
<1>1. /\ b <= s.last => b \in (s.last - NumBuckets + 1) .. s.last
      /\ b \in Int
  BY <1>0, WindowMoves
<1>2. b % NumBuckets \in BucketIds
  BY <1>1, PlaceOf
<1>3. CASE b <= s.last
  BY <1>1, <1>3 DEF Covers
<1>4. CASE b > s.last
  <2>1. b \notin DOMAIN history
    <3>1. DOMAIN history \subseteq 0 .. s.last
      BY DEF Covers
    <3>2. b \notin 0 .. s.last
      BY <1>0, <1>1, <1>4
    <3> QED
      BY <3>1, <3>2
  <2>2. s.all[b % NumBuckets] = 0
    BY <1>2, NoColumn DEF Counts
  <2> QED
    BY <2>1, <2>2 DEF WeighedIn
<1> QED
  BY <1>0, <1>1, <1>3, <1>4

\* What a rotation makes of the sampler.
RatedTo(s, new, rate, active, t) ==
  /\ DOMAIN t = SamplerFields
  /\ t.seen = KeptCounts(s, new, active)
  /\ t.all = ZeroAndGetMax(s.all, s.last, new).buckets
  /\ t.last = s.last
  /\ t.rates = [g \in active |-> rate[g]]

LEMMA RatedIs ==
  ASSUME NEW s, DOMAIN s = SamplerFields, NEW new, NEW rate, NEW active, NEW t,
         t = Rated(s, Rotated(s, new), rate, active, ZeroAndGetMax(s.all, s.last, new).buckets)
  PROVE  RatedTo(s, new, rate, active, t)
<1> DEFINE a == KeptCounts(s, new, active)
           b == [g \in active |-> rate[g]]
           c == ZeroAndGetMax(s.all, s.last, new).buckets
           l == FoldSet(Lower, One, {rate[g] : g \in active})
<1>1. t = [s EXCEPT !.seen = a, !.all = c, !.rates = b, !.lowest = l]
  BY DEF Rated, KeptCounts
<1> HIDE DEF a, b, c, l
<1>2. DOMAIN t = SamplerFields /\ t.seen = a /\ t.all = c /\ t.last = s.last /\ t.rates = b
  BY <1>1 DEF SamplerFields
<1> QED
  BY <1>2 DEF a, b, c, RatedTo

LEMMA RatedKeeps ==
  ASSUME NEW s, Counts(s), NEW history, Covers(s, history), NEW new \in Nat, s.last < new,
         NEW rate, NEW active, KeepsActive(s, new, active),
         NEW t, RatedTo(s, new, rate, active, t),
         NEW u, u = [t EXCEPT !.last = new]
  PROVE  Counts(u) /\ Covers(u, history) /\ u.last = new
<1>0. s.last \in Nat /\ s.all \in BucketCounts /\ DOMAIN s = SamplerFields
  BY DEF Counts
<1> DEFINE a == KeptCounts(s, new, active)
           c == ZeroAndGetMax(s.all, s.last, new).buckets
<1>2. DOMAIN t = SamplerFields /\ t.seen = a /\ t.all = c
  BY DEF RatedTo
<1>3. DOMAIN a = active /\ active \in SUBSET DOMAIN s.seen
  BY DEF KeptCounts, KeepsActive
<1>4. ASSUME NEW g \in active PROVE a[g] \in BucketCounts
  <2>1. s.seen[g] \in BucketCounts /\ g \in DOMAIN s.seen
    BY <1>3 DEF Counts
  <2>2. PICK z : z = ZeroAndGetMax(s.seen[g], s.last, new)
    OBVIOUS
  <2>3. a[g] = z.buckets
    BY <2>1, <2>2 DEF KeptCounts, Rotated
  <2>4. z.buckets \in BucketCounts
    BY <1>0, <2>1, <2>2, Rotates
  <2> QED
    BY <2>3, <2>4
<1>5. \A j \in BucketIds : c[j] = Column(a, j)
  BY RotatedSums
<1>7. IsFiniteSet(active)
  BY <1>3, FS_Subset DEF Counts
<1>8. c \in BucketCounts
  <2>1. PICK z : z = ZeroAndGetMax(s.all, s.last, new)
    OBVIOUS
  <2> QED
    BY <1>0, <2>1, Rotates
<1>11. \A b \in (new - NumBuckets + 1) .. new : c[b % NumBuckets] = WeighedIn(history, b)
  BY RotatedCovers
<1> HIDE DEF a, c
<1>6. DOMAIN u = SamplerFields /\ u.seen = a /\ u.all = c /\ u.last = new
  BY <1>2 DEF SamplerFields
<1>9. Counts(u)
  BY <1>3, <1>4, <1>5, <1>6, <1>7, <1>8 DEF Counts
<1>10. DOMAIN history \subseteq 0 .. new
  <2>1. DOMAIN history \subseteq 0 .. s.last
    BY DEF Covers
  <2>2. \A b \in 0 .. s.last : b \in 0 .. new
    BY <1>0
  <2> QED
    BY <2>1, <2>2
<1> QED
  BY <1>6, <1>9, <1>10, <1>11 DEF Covers

\* How the first trace of a later bucket rotates.
LEMMA UpdateRatesIs ==
  ASSUME NEW s, DOMAIN s = SamplerFields, DOMAIN s.seen # {}, NEW target, NEW new
  PROVE  LET tps == TpsOf(Rotated(s, new))
             rate == RatesAt(s, tps, ComputeTpsPerSig(target, tps))
             active == Active(rate, tps)
         IN  /\ RatedTo(s, new, rate, active, UpdateRates(s, target, new))
             /\ KeepsActive(s, new, active)
<1> DEFINE tps == TpsOf(Rotated(s, new))
           rate == RatesAt(s, tps, ComputeTpsPerSig(target, tps))
           active == Active(rate, tps)
<1>1. UpdateRates(s, target, new) =
        Rated(s, Rotated(s, new), rate, active, ZeroAndGetMax(s.all, s.last, new).buckets)
  BY DEF UpdateRates, Rotated
<1>2. DOMAIN tps = DOMAIN s.seen
  BY DEF TpsOf, Rotated
<1>3. KeepsActive(s, new, active)
  BY <1>2 DEF Active, KeepsActive
<1> HIDE DEF tps, rate, active
<1>4. PICK t : t = UpdateRates(s, target, new)
  OBVIOUS
<1>5. RatedTo(s, new, rate, active, t)
  BY <1>1, <1>4, RatedIs
<1>6. RatedTo(s, new, rate, active, UpdateRates(s, target, new)) /\ KeepsActive(s, new, active)
  BY <1>3, <1>4, <1>5
<1> QED
  BY <1>6 DEF tps, rate, active

\* The sampler in the bucket of the next trace, at its bucket or a later one.
LEMMA InBucketKeeps ==
  ASSUME NEW s, Counts(s), NEW history, Covers(s, history), NEW target,
         NEW new \in Nat, s.last <= new,
         NEW u, u = InBucket(s, target, new)
  PROVE  Counts(u) /\ Covers(u, history) /\ u.last = new
<1>0. s.last \in Nat /\ DOMAIN s = SamplerFields
  BY DEF Counts
<1>1. CASE new = s.last
  <2>1. u = [s EXCEPT !.last = new]
    BY <1>1 DEF InBucket
  <2>2. DOMAIN u = SamplerFields /\ u.last = s.last /\ u.seen = s.seen /\ u.all = s.all
    BY <1>0, <1>1, <2>1 DEF SamplerFields
  <2> QED
    BY <1>1, <2>2 DEF Counts, Covers
<1>2. CASE new # s.last /\ DOMAIN s.seen = {}
  <2>1. s.last < new
    BY <1>0, <1>2
  <2>2. u = [s EXCEPT !.last = new]
    BY <1>2 DEF InBucket, UpdateRates
  <2>3. DOMAIN u = SamplerFields /\ u.last = new /\ u.seen = s.seen /\ u.all = s.all
    BY <1>0, <2>2 DEF SamplerFields
  <2>4. Counts(u)
    BY <2>3 DEF Counts
  <2>5. DOMAIN history \subseteq 0 .. new
    <3>1. DOMAIN history \subseteq 0 .. s.last
      BY DEF Covers
    <3>2. \A b \in 0 .. s.last : b \in 0 .. new
      BY <1>0, <2>1
    <3> QED
      BY <3>1, <3>2
  <2>6. \A b \in (new - NumBuckets + 1) .. new : s.all[b % NumBuckets] = WeighedIn(history, b)
    BY <1>2, <2>1, EmptyCovers
  <2> QED
    BY <2>3, <2>4, <2>5, <2>6 DEF Covers
<1>3. CASE new # s.last /\ DOMAIN s.seen # {}
  <2>1. s.last < new
    BY <1>0, <1>3
  <2> DEFINE tps == TpsOf(Rotated(s, new))
             rate == RatesAt(s, tps, ComputeTpsPerSig(target, tps))
             active == Active(rate, tps)
  <2>2. /\ RatedTo(s, new, rate, active, UpdateRates(s, target, new))
        /\ KeepsActive(s, new, active)
    BY <1>0, <1>3, UpdateRatesIs
  <2> HIDE DEF tps, rate, active
  <2>3. PICK t : t = UpdateRates(s, target, new)
    OBVIOUS
  <2>4. u = [t EXCEPT !.last = new]
    BY <1>3, <2>3 DEF InBucket
  <2> QED
    BY <2>1, <2>2, <2>3, <2>4, RatedKeeps
<1> QED
  BY <1>1, <1>2, <1>3

\* The counters `more` are `of` with n more of sig in place i.
MoreOf(of, sig, i, n, more) ==
  /\ DOMAIN more = DOMAIN of \cup {sig}
  /\ \A g \in DOMAIN of : g # sig => more[g] = of[g]
  /\ more[sig] = [j \in BucketIds |-> (IF sig \in DOMAIN of THEN of[sig][j] ELSE 0)
                                      + (IF j = i THEN n ELSE 0)]

\* One count more in a column.
LEMMA ColumnAdds ==
  ASSUME NEW of, IsFiniteSet(DOMAIN of), \A g \in DOMAIN of : of[g] \in BucketCounts,
         NEW sig, NEW i \in BucketIds, NEW n \in Nat, NEW j \in BucketIds,
         NEW more, MoreOf(of, sig, i, n, more)
  PROVE  Column(more, j) = Column(of, j) + (IF j = i THEN n ELSE 0)
<1> DEFINE D == DOMAIN of
           f == [g \in D |-> of[g][j]]
           h == [g \in D \cup {sig} |-> more[g][j]]
           d == IF j = i THEN n ELSE 0
<1>0. d \in Nat /\ \A g \in D : f[g] \in Nat /\ f[g] = of[g][j]
  BY DEF BucketCounts
<1>1. \A g \in D : g # sig => h[g] = f[g]
  BY DEF MoreOf
<1>2. h[sig] = (IF sig \in D THEN f[sig] ELSE 0) + d
  BY DEF MoreOf
<1>3. Column(more, j) = SumFunctionOnSet(h, D \cup {sig}) /\ Column(of, j) = SumFunctionOnSet(f, D)
  BY DEF Column, MoreOf
<1>4. IsFiniteSet(D)
  OBVIOUS
<1> HIDE DEF f, h, D, d
<1>5. CASE sig \in D
  <2>1. D \cup {sig} = D
    BY <1>5
  <2>2. h[sig] = f[sig] + d /\ h[sig] \in Int
    BY <1>0, <1>2, <1>5
  <2>3. \A g \in D : f[g] \in Int /\ h[g] \in Int
    BY <1>0, <1>1, <2>2
  <2>4. /\ SumFunctionOnSet(f, D) \in Int
        /\ SumFunctionOnSet(h, D) = SumFunctionOnSet(f, D) + (h[sig] - f[sig])
    BY <1>1, <1>4, <1>5, <2>3, SumChanges
  <2>5. h[sig] - f[sig] = d
    BY <1>0, <1>5, <2>2
  <2> QED
    BY <1>3, <2>1, <2>4, <2>5 DEF d
<1>6. CASE sig \notin D
  <2>1. h[sig] = d /\ h[sig] \in Int
    BY <1>0, <1>2, <1>6
  <2>2. \A g \in D : f[g] \in Int /\ f[g] = h[g]
    BY <1>0, <1>1, <1>6
  <2>3. SumFunctionOnSet(f, D) = SumFunctionOnSet(h, D)
    BY <1>4, <2>2, SumSame
  <2>4. \A g \in D : h[g] \in Int
    BY <2>2
  <2>5. /\ SumFunctionOnSet(h, D) \in Int
        /\ SumFunctionOnSet(h, D \cup {sig}) = h[sig] + SumFunctionOnSet(h, D)
    BY <1>4, <1>6, <2>1, <2>4, SumAdds
  <2>6. d \in Int
    BY <1>0
  <2> QED
    BY <1>3, <2>1, <2>3, <2>5, <2>6 DEF d
<1> QED
  BY <1>5, <1>6

\* The history with n more in bucket b.
MoreIn(history, b, n) ==
  [c \in DOMAIN history \cup {b} |-> WeighedIn(history, c) + (IF c = b THEN n ELSE 0)]

\* What AddTo does.
LEMMA AddToIs ==
  ASSUME NEW t, Counts(t), NEW sig, NEW i \in BucketIds, NEW n, NEW u, u = AddTo(t, sig, i, n)
  PROVE  /\ DOMAIN u = SamplerFields
         /\ u.last = t.last /\ u.rates = t.rates
         /\ u.all = [t.all EXCEPT ![i] = t.all[i] + n]
         /\ MoreOf(t.seen, sig, i, n, u.seen)
<1> DEFINE x == [j \in BucketIds |-> (IF sig \in DOMAIN t.seen THEN t.seen[sig][j] ELSE 0)
                                     + (IF j = i THEN n ELSE 0)]
           a == [g \in DOMAIN t.seen \cup {sig} |-> IF g # sig THEN t.seen[g] ELSE x]
           b == [t.all EXCEPT ![i] = t.all[i] + n]
<1>1. DOMAIN t = SamplerFields /\ DOMAIN t.all = BucketIds
  BY DEF Counts, BucketCounts
<1>2. u = [t EXCEPT !.seen = a, !.all = b]
  BY <1>1 DEF AddTo, SamplerFields
<1> HIDE DEF x
<1>3. /\ DOMAIN a = DOMAIN t.seen \cup {sig}
      /\ \A g \in DOMAIN t.seen : g # sig => a[g] = t.seen[g]
      /\ a[sig] = x
  OBVIOUS
<1> HIDE DEF a, b
<1>4. DOMAIN u = SamplerFields /\ u.last = t.last /\ u.rates = t.rates /\ u.all = b /\ u.seen = a
  BY <1>1, <1>2 DEF SamplerFields
<1> QED
  BY <1>3, <1>4 DEF b, x, MoreOf

LEMMA AddToKeeps ==
  ASSUME NEW t, Counts(t), NEW history, Covers(t, history),
         NEW sig, NEW n \in Nat,
         NEW u, u = AddTo(t, sig, t.last % NumBuckets, n)
  PROVE  Counts(u) /\ Covers(u, MoreIn(history, t.last, n))
<1> DEFINE i == t.last % NumBuckets
<1>0. t.last \in Nat /\ t.last \in Int /\ t.all \in BucketCounts /\ NumBuckets \in Nat \ {0}
  BY ErrorSamplerAssumption DEF Counts
<1>1. i \in BucketIds
  BY <1>0, PlaceOf
<1>2. u = AddTo(t, sig, i, n)
  OBVIOUS
<1>3. \A b \in (t.last - NumBuckets + 1) .. t.last : b \in Int /\ b % NumBuckets \in BucketIds
  BY <1>0, PlaceOf
<1>4. ASSUME NEW b \in (t.last - NumBuckets + 1) .. t.last, b # t.last PROVE b % NumBuckets # i
  <2>1. b \in Int /\ b < t.last /\ t.last - b < NumBuckets
    BY <1>0, <1>4
  <2> QED
    BY <1>0, <2>1, RestsApart
<1> HIDE DEF i
<1>5. /\ DOMAIN u = SamplerFields
      /\ u.last = t.last
      /\ u.all = [t.all EXCEPT ![i] = t.all[i] + n]
      /\ MoreOf(t.seen, sig, i, n, u.seen)
  BY <1>1, <1>2, AddToIs
<1>6. /\ u.all \in BucketCounts
      /\ \A j \in BucketIds : u.all[j] = t.all[j] + (IF j = i THEN n ELSE 0)
  BY <1>0, <1>1, <1>5 DEF BucketCounts
<1>7. IsFiniteSet(DOMAIN t.seen) /\ \A g \in DOMAIN t.seen : t.seen[g] \in BucketCounts
  BY DEF Counts
<1>8. IsFiniteSet(DOMAIN u.seen)
  BY <1>5, <1>7, FS_AddElement DEF MoreOf
<1>9. u.seen[sig] \in BucketCounts
  <2>1. \A j \in BucketIds : (IF sig \in DOMAIN t.seen THEN t.seen[sig][j] ELSE 0)
                              + (IF j = i THEN n ELSE 0) \in Nat
    BY <1>7 DEF BucketCounts
  <2> QED
    BY <1>5, <2>1 DEF BucketCounts, MoreOf
<1>10. \A g \in DOMAIN u.seen : u.seen[g] \in BucketCounts
  BY <1>5, <1>7, <1>9 DEF MoreOf
<1>11. ASSUME NEW j \in BucketIds PROVE u.all[j] = Column(u.seen, j)
  <2>1. Column(u.seen, j) = Column(t.seen, j) + (IF j = i THEN n ELSE 0)
    BY <1>1, <1>5, <1>7, ColumnAdds
  <2>2. t.all[j] = Column(t.seen, j)
    BY DEF Counts
  <2> QED
    BY <1>6, <2>1, <2>2
<1>12. Counts(u)
  BY <1>0, <1>5, <1>6, <1>8, <1>10, <1>11 DEF Counts
<1> DEFINE m == MoreIn(history, t.last, n)
<1>13. DOMAIN m = DOMAIN history \cup {t.last}
  BY DEF MoreIn
<1>14. \A c \in DOMAIN m : m[c] = WeighedIn(history, c) + (IF c = t.last THEN n ELSE 0)
  BY DEF MoreIn
<1> HIDE DEF m
<1>15. DOMAIN m \subseteq 0 .. u.last
  <2>1. DOMAIN history \subseteq 0 .. t.last
    BY DEF Covers
  <2>2. t.last \in 0 .. t.last
    BY <1>0
  <2> QED
    BY <1>5, <1>13, <2>1, <2>2
<1>16. ASSUME NEW b \in (t.last - NumBuckets + 1) .. t.last
       PROVE  u.all[b % NumBuckets] = WeighedIn(m, b)
  <2>1. t.all[b % NumBuckets] = WeighedIn(history, b) /\ t.all[b % NumBuckets] \in Nat
    BY <1>0, <1>3 DEF Covers, BucketCounts
  <2>2. CASE b = t.last
    <3>1. WeighedIn(m, b) = WeighedIn(history, b) + n
      BY <1>13, <1>14, <2>2 DEF WeighedIn
    <3>2. u.all[b % NumBuckets] = t.all[b % NumBuckets] + n
      BY <1>1, <1>6, <2>2 DEF i
    <3> QED
      BY <2>1, <3>1, <3>2
  <2>3. CASE b # t.last
    <3>1. b % NumBuckets # i /\ b % NumBuckets \in BucketIds
      BY <1>3, <1>4, <2>3
    <3>2. u.all[b % NumBuckets] = t.all[b % NumBuckets]
      BY <1>6, <2>1, <3>1
    <3>3. b \in DOMAIN m <=> b \in DOMAIN history
      BY <1>13, <2>3
    <3>4. b \in DOMAIN m => m[b] = WeighedIn(history, b) + 0
      BY <1>14, <2>3
    <3> QED
      BY <2>1, <3>2, <3>3, <3>4 DEF WeighedIn
  <2> QED
    BY <2>2, <2>3
<1>17. Covers(u, m)
  BY <1>5, <1>15, <1>16 DEF Covers
<1> QED
  BY <1>12, <1>17 DEF m

-----------------------------------------------------------------------------
(* Fractions.                                                              *)

Pos == Nat \ {0}

LEMMA TimesPos ==
  ASSUME NEW a \in Pos, NEW b \in Pos
  PROVE  a * b \in Pos
  BY DEF Pos

LEMMA CancelSame ==
  ASSUME NEW a \in Int, NEW b \in Int, NEW c \in Pos, a * c = b * c
  PROVE  a = b
  BY DEF Pos

LEMMA CancelLess ==
  ASSUME NEW a \in Int, NEW b \in Int, NEW c \in Pos
  PROVE  /\ a * c <= b * c <=> a <= b
         /\ a * c < b * c <=> a < b
<1>1. a <= b => a * c <= b * c
  BY DEF Pos
<1>2. a < b => a * c < b * c
  BY DEF Pos
<1>3. a * c \in Int /\ b * c \in Int
  BY DEF Pos
<1>4. a <= b \/ b < a
  OBVIOUS
<1>5. b < a => b * c < a * c
  BY DEF Pos
<1>6. b <= a => b * c <= a * c
  BY DEF Pos
<1> QED
  BY <1>1, <1>2, <1>3, <1>5, <1>6

\* x is the fraction p / q in the sampler's form.
Ratio(x, p, q) ==
  \E a \in Nat, b \in Pos : x = <<a, b>> /\ a * q = p * b /\ (a = 0 => b = 1)

LEMMA FracRatio ==
  ASSUME NEW n \in Nat, NEW d \in Pos
  PROVE  Ratio(Frac(n, d), n, d)
<1>1. d \in Nat \ {0}
  BY DEF Pos
<1>2. PICK a \in Nat, b \in Nat \ {0} :
             /\ Frac(n, d) = <<a, b>> /\ a * d = n * b
             /\ n # 0 => a # 0
             /\ n = 0 => a = 0 /\ b = 1
  BY <1>1, FracIs
<1> QED
  BY <1>2 DEF Ratio, Pos

\* Another form of the same value.
LEMMA SameValue ==
  ASSUME NEW x, NEW p \in Nat, NEW q \in Pos, Ratio(x, p, q), NEW r \in Nat, NEW t \in Pos,
         p * t = r * q
  PROVE  Ratio(x, r, t)
<1>1. PICK a \in Nat, b \in Pos : x = <<a, b>> /\ a * q = p * b /\ (a = 0 => b = 1)
  BY DEF Ratio
<1>2. (a * t) * q = (a * q) * t
  BY DEF Pos
<1>3. (a * q) * t = (p * t) * b
  BY <1>1 DEF Pos
<1>4. (p * t) * b = (r * b) * q
  BY DEF Pos
<1>5. (a * t) * q = (r * b) * q /\ a * t \in Int /\ r * b \in Int
  BY <1>2, <1>3, <1>4 DEF Pos
<1>6. a * t = r * b
  BY <1>5, CancelSame
<1> QED
  BY <1>1, <1>6 DEF Ratio

LEMMA TimesRatio ==
  ASSUME NEW x, NEW p \in Nat, NEW q \in Pos, Ratio(x, p, q),
         NEW y, NEW r \in Nat, NEW t \in Pos, Ratio(y, r, t)
  PROVE  Ratio(Times2(x, y), p * r, q * t)
<1>1. PICK a \in Nat, b \in Pos : x = <<a, b>> /\ a * q = p * b
  BY DEF Ratio
<1>2. PICK c \in Nat, e \in Pos : y = <<c, e>> /\ c * t = r * e
  BY DEF Ratio
<1>3. Times2(x, y) = Frac(a * c, b * e)
  BY <1>1, <1>2 DEF Times2
<1>4. a * c \in Nat /\ b * e \in Pos /\ p * r \in Nat /\ q * t \in Pos
  BY TimesPos
<1>5. Ratio(Frac(a * c, b * e), a * c, b * e)
  BY <1>4, FracRatio
<1>6. (a * c) * (q * t) = (a * q) * (c * t)
  BY DEF Pos
<1>7. (p * r) * (b * e) = (p * b) * (r * e)
  BY DEF Pos
<1>8. (a * c) * (q * t) = (p * r) * (b * e)
  BY <1>1, <1>2, <1>6, <1>7
<1> QED
  BY <1>3, <1>4, <1>5, <1>8, SameValue

LEMMA OverRatio ==
  ASSUME NEW x, NEW p \in Nat, NEW q \in Pos, Ratio(x, p, q),
         NEW y, NEW r \in Pos, NEW t \in Pos, Ratio(y, r, t)
  PROVE  Ratio(Over(x, y), p * t, q * r)
<1>1. PICK a \in Nat, b \in Pos : x = <<a, b>> /\ a * q = p * b
  BY DEF Ratio
<1>2. PICK c \in Nat, e \in Pos : y = <<c, e>> /\ c * t = r * e
  BY DEF Ratio
<1>3. c \in Pos
  <2>1. r * e \in Pos
    BY TimesPos
  <2>2. c # 0
    BY <1>2, <2>1 DEF Pos
  <2> QED
    BY <2>2 DEF Pos
<1>4. Over(x, y) = Frac(a * e, b * c)
  BY <1>1, <1>2 DEF Over
<1>5. a * e \in Nat /\ b * c \in Pos /\ p * t \in Nat /\ q * r \in Pos
  BY <1>3, TimesPos DEF Pos
<1>6. Ratio(Frac(a * e, b * c), a * e, b * c)
  BY <1>5, FracRatio
<1>7. (a * e) * (q * r) = (a * q) * (r * e)
  BY DEF Pos
<1>8. (p * t) * (b * c) = (p * b) * (c * t)
  BY DEF Pos
<1>9. (a * e) * (q * r) = (p * t) * (b * c)
  BY <1>1, <1>2, <1>7, <1>8
<1> QED
  BY <1>4, <1>5, <1>6, <1>9, SameValue

\* Comparing fractions.
LEMMA LessRatio ==
  ASSUME NEW x, NEW p \in Nat, NEW q \in Pos, Ratio(x, p, q),
         NEW y, NEW r \in Nat, NEW t \in Pos, Ratio(y, r, t)
  PROVE  Less(x, y) <=> p * t < r * q
<1>1. PICK a \in Nat, b \in Pos : x = <<a, b>> /\ a * q = p * b
  BY DEF Ratio
<1>2. PICK c \in Nat, e \in Pos : y = <<c, e>> /\ c * t = r * e
  BY DEF Ratio
<1>3. Less(x, y) <=> a * e < c * b
  BY <1>1, <1>2 DEF Less
<1>4. q * t \in Pos /\ b * e \in Pos /\ a * e \in Int /\ c * b \in Int /\ p * t \in Int /\ r * q \in Int
  BY TimesPos DEF Pos
<1>5. a * e < c * b <=> (a * e) * (q * t) < (c * b) * (q * t)
  BY <1>4, CancelLess
<1>6. (a * e) * (q * t) = (a * q) * (e * t) /\ (c * b) * (q * t) = (c * t) * (b * q)
  BY DEF Pos
<1>7. (p * b) * (e * t) = (p * t) * (b * e) /\ (r * e) * (b * q) = (r * q) * (b * e)
  BY DEF Pos
<1>8. (p * t) * (b * e) < (r * q) * (b * e) <=> p * t < r * q
  BY <1>4, CancelLess
<1> QED
  BY <1>1, <1>2, <1>3, <1>5, <1>6, <1>7, <1>8

LEMMA MinusRatio ==
  ASSUME NEW x, NEW p \in Nat, NEW q \in Pos, Ratio(x, p, q),
         NEW y, NEW r \in Nat, Ratio(y, r, q), r <= p
  PROVE  Ratio(Minus(x, y), p - r, q)
<1>1. PICK a \in Nat, b \in Pos : x = <<a, b>> /\ a * q = p * b
  BY DEF Ratio
<1>2. PICK c \in Nat, e \in Pos : y = <<c, e>> /\ c * q = r * e
  BY DEF Ratio
<1>3. Minus(x, y) = Frac(a * e - c * b, b * e)
  BY <1>1, <1>2 DEF Minus
<1>4. b * e \in Pos /\ a * e \in Int /\ c * b \in Int /\ p - r \in Nat
  BY TimesPos DEF Pos
<1>5. (a * e) * q = p * (b * e) /\ (c * b) * q = r * (b * e)
  <2>1. (a * e) * q = (a * q) * e /\ (c * b) * q = (c * q) * b
    BY DEF Pos
  <2>2. (p * b) * e = p * (b * e) /\ (r * e) * b = r * (b * e)
    BY DEF Pos
  <2> QED
    BY <1>1, <1>2, <2>1, <2>2
<1>6. r * (b * e) <= p * (b * e)
  BY <1>4, CancelLess
<1>7. c * b <= a * e
  BY <1>4, <1>5, <1>6, CancelLess
<1>8. a * e - c * b \in Nat
  BY <1>4, <1>7
<1>9. Ratio(Frac(a * e - c * b, b * e), a * e - c * b, b * e)
  BY <1>4, <1>8, FracRatio
<1>10. (a * e - c * b) * q = (p - r) * (b * e)
  <2>1. (a * e - c * b) * q = (a * e) * q - (c * b) * q
    BY <1>4 DEF Pos
  <2>2. (p - r) * (b * e) = p * (b * e) - r * (b * e)
    BY <1>4 DEF Pos
  <2> QED
    BY <1>5, <2>1, <2>2
<1> QED
  BY <1>3, <1>4, <1>8, <1>9, <1>10, SameValue

\* A fraction in the sampler's form, which has 0 in one form only.
IsFrac(x) == \E a \in Nat, b \in Pos : x = <<a, b>> /\ (a = 0 => b = 1)

LEMMA RatioIsFrac ==
  ASSUME NEW x, NEW p, NEW q, Ratio(x, p, q)
  PROVE  IsFrac(x)
  BY DEF Ratio, IsFrac

LEMMA FracOfItself ==
  ASSUME NEW a \in Nat, NEW b \in Pos, a = 0 => b = 1
  PROVE  Ratio(<<a, b>>, a, b)
  BY DEF Ratio

LEMMA OneRatio == Ratio(One, 1, 1)
  BY DEF Ratio, One, Pos

\* The rate p / q times t / v is at most s / u.
Fits(p, q, t, v, s, u) == p * (t * u) <= (s * v) * q

\* The share of a signature over what it was seen.
LEMMA RawRateFits ==
  ASSUME NEW share, NEW s \in Nat, NEW u \in Pos, Ratio(share, s, u),
         NEW obs, NEW t \in Nat, NEW v \in Pos, Ratio(obs, t, v),
         NEW x, x = IF Less(share, obs) THEN Over(share, obs) ELSE One
  PROVE  \E p \in Nat, q \in Pos : Ratio(x, p, q) /\ Fits(p, q, t, v, s, u)
<1>1. Less(share, obs) <=> s * v < t * u
  BY LessRatio
<1>2. s * v \in Nat /\ t * u \in Nat
  BY DEF Pos
<1>3. CASE Less(share, obs)
  <2>1. t \in Pos
    <3>1. t # 0
      BY <1>1, <1>2, <1>3 DEF Pos
    <3> QED
      BY <3>1 DEF Pos
  <2>2. Ratio(x, s * v, u * t)
    BY <1>3, <2>1, OverRatio
  <2>3. u * t \in Pos
    BY <2>1, TimesPos
  <2>4. (s * v) * (t * u) = (s * v) * (u * t)
    BY DEF Pos
  <2>5. Fits(s * v, u * t, t, v, s, u)
    BY <1>2, <2>3, <2>4 DEF Fits, Pos
  <2> QED
    BY <1>2, <2>2, <2>3, <2>5
<1>4. CASE ~Less(share, obs)
  <2>1. Ratio(x, 1, 1)
    BY <1>4, OneRatio
  <2>2. 1 * (t * u) <= (s * v) * 1
    BY <1>1, <1>2, <1>4
  <2>3. 1 \in Nat /\ 1 \in Pos
    BY DEF Pos
  <2> QED
    BY <2>1, <2>2, <2>3 DEF Fits
<1> QED
  BY <1>3, <1>4

\* A cap does not raise a rate.
LEMMA CapLowers ==
  ASSUME NEW x, NEW p \in Nat, NEW q \in Pos, Ratio(x, p, q), NEW old, IsFrac(old)
  PROVE  \E a \in Nat, b \in Pos : Ratio(Capped(x, old), a, b) /\ a * q <= p * b
<1>1. CASE old # Zero /\ Less(MaxRateIncrease, Over(x, old))
  <2>1. PICK c \in Nat, d \in Pos : old = <<c, d>> /\ (c = 0 => d = 1)
    BY DEF IsFrac
  <2>2. c \in Pos
    BY <1>1, <2>1 DEF Pos, Zero
  <2>3. PICK m \in Pos, n \in Pos : MaxRateIncrease = <<m, n>>
    BY ErrorSamplerAssumption DEF Pos
  <2>4. Ratio(old, c, d) /\ Ratio(MaxRateIncrease, m, n)
    BY <2>1, <2>3, FracOfItself DEF Pos
  <2>5. Ratio(Over(x, old), p * d, q * c)
    BY <2>2, <2>4, OverRatio
  <2>6. p * d \in Nat /\ q * c \in Pos /\ c * m \in Nat /\ d * n \in Pos /\ m \in Nat /\ c \in Nat
    BY <2>2, TimesPos DEF Pos
  <2>7. m * (q * c) < (p * d) * n
    BY <1>1, <2>4, <2>5, <2>6, LessRatio
  <2>8. Ratio(Times2(old, MaxRateIncrease), c * m, d * n)
    BY <2>4, <2>6, TimesRatio
  <2>9. (c * m) * q <= p * (d * n)
    <3>1. (c * m) * q = m * (q * c) /\ p * (d * n) = (p * d) * n
      BY <2>2 DEF Pos
    <3>2. m * (q * c) \in Int /\ (p * d) * n \in Int
      BY <2>6 DEF Pos
    <3> QED
      BY <2>7, <3>1, <3>2
  <2> QED
    BY <1>1, <2>6, <2>8, <2>9 DEF Capped
<1>2. CASE ~(old # Zero /\ Less(MaxRateIncrease, Over(x, old)))
  <2>1. Capped(x, old) = x
    BY <1>2 DEF Capped
  <2>2. p * q <= p * q
    BY DEF Pos
  <2> QED
    BY <2>1, <2>2
<1> QED
  BY <1>1, <1>2

LEMMA LowerFits ==
  ASSUME NEW p \in Nat, NEW q \in Pos, NEW a \in Nat, NEW b \in Pos, a * q <= p * b,
         NEW A \in Nat, NEW B \in Nat, p * A <= B * q
  PROVE  a * A <= B * b
<1>1. (a * A) * q = (a * q) * A /\ (p * b) * A = (p * A) * b /\ (B * q) * b = (B * b) * q
  BY DEF Pos
<1>2. (a * q) * A <= (p * b) * A
  <2>1. a * q \in Int /\ p * b \in Int
    BY DEF Pos
  <2>2. \A i, j \in Int : i <= j => i * A <= j * A
    OBVIOUS
  <2> QED
    BY <2>1, <2>2
<1>3. (p * A) * b <= (B * q) * b
  <2>1. p * A \in Int /\ B * q \in Int
    BY DEF Pos
  <2> QED
    BY <2>1, CancelLess
<1>4. (a * A) * q <= (B * b) * q
  <2>1. (a * A) * q \in Int /\ (p * b) * A \in Int /\ (B * b) * q \in Int
    BY DEF Pos
  <2> QED
    BY <1>1, <1>2, <1>3, <2>1
<1>5. a * A \in Int /\ B * b \in Int
  BY DEF Pos
<1> QED
  BY <1>4, <1>5, CancelLess

\* The new rate of a signature: at most 1, and it keeps no more than the share.
LEMMA NewRateFits ==
  ASSUME NEW share, NEW s \in Nat, NEW u \in Pos, Ratio(share, s, u),
         NEW obs, NEW t \in Nat, NEW v \in Pos, Ratio(obs, t, v),
         NEW z, \A g \in DOMAIN z.rates : IsFrac(z.rates[g]), NEW sig
  PROVE  \E p \in Nat, q \in Pos :
           Ratio(NewRate(z, sig, share, obs), p, q) /\ p <= q /\ Fits(p, q, t, v, s, u)
<1>1. PICK x : x = IF Less(share, obs) THEN Over(share, obs) ELSE One
  OBVIOUS
<1>2. PICK old : old = IF sig \in DOMAIN z.rates THEN z.rates[sig] ELSE Zero
  OBVIOUS
<1>3. IsFrac(old)
  <2>1. IsFrac(Zero)
    BY DEF IsFrac, Zero, Pos
  <2> QED
    BY <1>2, <2>1
<1>4. PICK p \in Nat, q \in Pos : Ratio(x, p, q) /\ Fits(p, q, t, v, s, u)
  BY <1>1, RawRateFits
<1>5. PICK a \in Nat, b \in Pos : Ratio(Capped(x, old), a, b) /\ a * q <= p * b
  BY <1>3, <1>4, CapLowers
<1>6. NewRate(z, sig, share, obs) = IF Less(One, Capped(x, old)) THEN One ELSE Capped(x, old)
  BY <1>1, <1>2 DEF NewRate, Lower
<1>7. t * u \in Nat /\ s * v \in Nat /\ 1 \in Nat /\ 1 \in Pos
  BY DEF Pos
<1>8. a * (t * u) <= (s * v) * b
  BY <1>4, <1>5, <1>7, LowerFits DEF Fits
<1>9. Less(One, Capped(x, old)) <=> 1 * b < a * 1
  BY <1>5, <1>7, OneRatio, LessRatio
<1>10. CASE ~Less(One, Capped(x, old))
  <2>1. a <= b
    BY <1>9, <1>10 DEF Pos
  <2> QED
    BY <1>5, <1>6, <1>8, <1>10, <2>1 DEF Fits
<1>11. CASE Less(One, Capped(x, old))
  <2>1. 1 * a <= a * 1 /\ b <= a
    BY <1>9, <1>11 DEF Pos
  <2>2. (t * u) * b <= (s * v) * b
    <3>1. b * (t * u) <= a * (t * u)
      <4>1. \A i \in Nat : \A k, l \in Int : k <= l => k * i <= l * i
        OBVIOUS
      <4> QED
        BY <1>7, <2>1, <4>1 DEF Pos
    <3>2. b * (t * u) = (t * u) * b /\ b * (t * u) \in Int /\ a * (t * u) \in Int /\ (s * v) * b \in Int
      BY <1>7 DEF Pos
    <3> QED
      BY <1>8, <3>1, <3>2
  <2>3. t * u <= s * v
    BY <1>7, <2>2, CancelLess
  <2>4. 1 * (t * u) <= (s * v) * 1
    BY <1>7, <2>3
  <2>5. 1 <= 1
    OBVIOUS
  <2> QED
    BY <1>6, <1>7, <1>11, <2>4, <2>5, OneRatio DEF Fits
<1> QED
  BY <1>10, <1>11

\* The fraction x is at most p / q.
AtMost(x, p, q) == \E a \in Nat, b \in Pos : x = <<a, b>> /\ a * q <= p * b

LEMMA RatioAtMost ==
  ASSUME NEW x, NEW p \in Nat, NEW q \in Pos, Ratio(x, p, q), NEW e \in Nat, NEW f \in Pos,
         p * f <= e * q
  PROVE  AtMost(x, e, f)
<1>1. PICK a \in Nat, b \in Pos : x = <<a, b>> /\ a * q = p * b
  BY DEF Ratio
<1>2. a * q <= p * b /\ f \in Nat
  BY <1>1 DEF Pos
<1>3. a * f <= e * b
  BY <1>2, LowerFits
<1> QED
  BY <1>1, <1>3 DEF AtMost

\* What the rate keeps of a signature is at most its share and what was seen.
LEMMA KeptAtMost ==
  ASSUME NEW share, NEW s \in Nat, NEW u \in Pos, Ratio(share, s, u),
         NEW obs, NEW t \in Nat, NEW v \in Pos, Ratio(obs, t, v),
         NEW x, NEW p \in Nat, NEW q \in Pos, Ratio(x, p, q), p <= q, Fits(p, q, t, v, s, u)
  PROVE  AtMost(Times2(x, obs), s, u) /\ AtMost(Times2(x, obs), t, v)
<1>1. Ratio(Times2(x, obs), p * t, q * v)
  BY TimesRatio
<1>2. q * v \in Pos /\ p * t \in Nat
  BY TimesPos
<1>3. (p * t) * u <= s * (q * v)
  <2>1. (p * t) * u = p * (t * u) /\ s * (q * v) = (s * v) * q
    BY DEF Pos
  <2> QED
    BY <2>1 DEF Fits
<1>4. (p * t) * v <= t * (q * v)
  <2>1. (p * t) * v = p * (t * v) /\ t * (q * v) = q * (t * v) /\ t * v \in Nat
    BY DEF Pos
  <2>2. \A i \in Nat : \A k, l \in Int : k <= l => k * i <= l * i
    OBVIOUS
  <2> QED
    BY <2>1, <2>2 DEF Pos
<1> QED
  BY <1>1, <1>2, <1>3, <1>4, RatioAtMost

\* What ShareOf computes after n signatures.
FillSteps(target, sorted, n, g) ==
  /\ g[0] = AllForAll(target, Len(sorted))
  /\ \A m \in 1 .. n : g[m] = AfterQuiet(g[m-1], Len(sorted), m, sorted[m])

\* The equation ShareOf is defined by.
FillLoop(target, sorted, h) ==
  h = [n \in 0 .. Len(sorted) |->
         IF n = 0 THEN AllForAll(target, Len(sorted)) ELSE AfterQuiet(h[n-1], Len(sorted), n, sorted[n])]

\* It has a solution: ShareOf goes from signature to signature.
LEMMA ShareComputed ==
  ASSUME NEW target, NEW sorted, Len(sorted) \in Nat
  PROVE  \E h : /\ ShareOf(target, sorted) = h[Len(sorted)].share
                /\ FillSteps(target, sorted, Len(sorted), h)
<1> DEFINE N == Len(sorted)
           T == {n \in 0 .. N : \E g : DOMAIN g = 0 .. n /\ FillSteps(target, sorted, n, g)}
<1>0. N \in Nat
  OBVIOUS
<1>1. 0 \in T
  <2> DEFINE g == [n \in 0 .. 0 |-> AllForAll(target, Len(sorted))]
  <2>1. DOMAIN g = 0 .. 0 /\ g[0] = AllForAll(target, Len(sorted))
    OBVIOUS
  <2> HIDE DEF g
  <2>2. FillSteps(target, sorted, 0, g)
    BY <2>1 DEF FillSteps
  <2> QED
    BY <1>0, <2>1, <2>2
<1>2. ASSUME NEW n \in 0 .. (N - 1), n \in T PROVE n + 1 \in T
  <2>1. PICK g : DOMAIN g = 0 .. n /\ FillSteps(target, sorted, n, g)
    BY <1>2
  <2>2. n \in Nat /\ n + 1 \in 0 .. N
    BY <1>0
  <2> DEFINE x == AfterQuiet(g[n], Len(sorted), n+1, sorted[n+1])
             f == [m \in 0 .. (n + 1) |-> IF m = n + 1 THEN x ELSE g[m]]
  <2>3. DOMAIN f = 0 .. (n + 1) /\ f[n+1] = x /\ \A m \in 0 .. n : f[m] = g[m]
    BY <2>2
  <2> HIDE DEF f
  <2>4. f[0] = AllForAll(target, Len(sorted))
    BY <2>1, <2>2, <2>3 DEF FillSteps
  <2>5. ASSUME NEW m \in 1 .. (n + 1) PROVE f[m] = AfterQuiet(f[m-1], Len(sorted), m, sorted[m])
    <3>1. CASE m = n + 1
      <4>1. m - 1 = n /\ n \in 0 .. n
        BY <2>2, <3>1
      <4> QED
        BY <2>3, <3>1, <4>1
    <3>2. CASE m # n + 1
      <4>1. m \in 1 .. n /\ m - 1 \in 0 .. n /\ m \in 0 .. n
        BY <2>2, <3>2
      <4>2. g[m] = AfterQuiet(g[m-1], Len(sorted), m, sorted[m])
        BY <2>1, <4>1 DEF FillSteps
      <4> QED
        BY <2>3, <4>1, <4>2
    <3> QED
      BY <3>1, <3>2
  <2>6. FillSteps(target, sorted, n + 1, f)
    BY <2>4, <2>5 DEF FillSteps
  <2> QED
    BY <2>2, <2>3, <2>6
<1>3. N \in T
  <2> HIDE DEF T, N
  <2>1. \A n \in 0 .. N : n \in T
    BY <1>0, <1>1, <1>2, CountUp
  <2> QED
    BY <1>0, <2>1
<1>4. PICK g : DOMAIN g = 0 .. N /\ FillSteps(target, sorted, N, g)
  BY <1>3
<1> HIDE DEF N
<1> DEFINE k == [n \in 0 .. N |-> IF n = 0 THEN AllForAll(target, Len(sorted))
                                 ELSE AfterQuiet(g[n-1], Len(sorted), n, sorted[n])]
           G == [n \in 0 .. N |-> g[n]]
<1>5. ASSUME NEW n \in 0 .. N PROVE k[n] = G[n]
  <2>1. CASE n = 0
    BY <1>4, <2>1 DEF FillSteps
  <2>2. CASE n # 0
    <3>1. n \in 1 .. N
      BY <1>0, <2>2
    <3> QED
      BY <1>4, <2>2, <3>1 DEF FillSteps
  <2> QED
    BY <2>1, <2>2
<1>6. \A n \in 0 .. N : n # 0 => G[n-1] = g[n-1]
  <2> TAKE n \in 0 .. N
  <2>1. n # 0 => n - 1 \in 0 .. N
    BY <1>0
  <2> QED
    BY <2>1
<1>7. k = [n \in 0 .. N |-> IF n = 0 THEN AllForAll(target, Len(sorted))
                            ELSE AfterQuiet(G[n-1], Len(sorted), n, sorted[n])]
  <2> HIDE DEF G
  <2> QED
    BY <1>6
<1>8. k = G
  <2>1. k = [n \in 0 .. N |-> k[n]] /\ G = [n \in 0 .. N |-> G[n]]
    OBVIOUS
  <2> HIDE DEF k, G
  <2> QED
    BY <1>5, <2>1
<1> HIDE DEF k, G
<1>9. FillLoop(target, sorted, G)
  BY <1>7, <1>8 DEF FillLoop, N
<1>10. PICK h : h = CHOOSE l : FillLoop(target, sorted, l)
  OBVIOUS
<1>11. FillLoop(target, sorted, h)
  BY <1>9, <1>10
<1>12. ShareOf(target, sorted) = h[N].share
  BY <1>10 DEF ShareOf, FillLoop, N
<1>13. ASSUME NEW n \in 0 .. N
       PROVE  h[n] = IF n = 0 THEN AllForAll(target, Len(sorted)) ELSE AfterQuiet(h[n-1], Len(sorted), n, sorted[n])
  BY <1>11 DEF FillLoop, N
<1>14. h[0] = AllForAll(target, Len(sorted))
  BY <1>0, <1>13
<1>15. ASSUME NEW m \in 1 .. N PROVE h[m] = AfterQuiet(h[m-1], Len(sorted), m, sorted[m])
  <2>1. m \in 0 .. N /\ m # 0
    BY <1>0
  <2> QED
    BY <1>13, <2>1
<1>16. FillSteps(target, sorted, N, h)
  BY <1>14, <1>15 DEF FillSteps
<1> QED
  BY <1>12, <1>16 DEF N

\* What is left of the budget E0, in units of 1 / U, after k of n signatures took
\* their w each, and how it is shared by the others.
Shared(acc, E, U, m) == Ratio(acc.share, E, U * m)
Left(acc, E, U) == Ratio(acc.target, E, U)

\* How far ShareOf has come after i signatures: the share is the rest after the
\* first k, which are those looked at so far unless the loop was left.
FilledTo(acc, n, i, k, E, U) ==
  /\ k \in 0 .. (n - 1)
  /\ E \in Nat
  /\ Shared(acc, E, U, n - k)
  /\ acc.done \in BOOLEAN
  /\ ~acc.done => k = i /\ Left(acc, E, U)

FillFields == {"target", "share", "done"}

\* The loop starts with all for all.
LEMMA FillStarts ==
  ASSUME NEW target, NEW E \in Nat, NEW U \in Pos, Ratio(target, E, U), NEW n \in Pos
  PROVE  FilledTo(AllForAll(target, n), n, 0, 0, E, U)
<1> DEFINE x == Over(target, <<n, 1>>)
           acc == [target |-> target, share |-> x, done |-> FALSE]
<1>1. n \in Nat /\ 1 \in Pos
  BY DEF Pos
<1>2. Ratio(<<n, 1>>, n, 1)
  BY <1>1, FracOfItself
<1>3. Ratio(x, E * 1, U * n)
  BY <1>1, <1>2, OverRatio
<1>4. E * 1 = E /\ n - 0 = n /\ 0 \in 0 .. (n - 1)
  BY DEF Pos
<1> HIDE DEF x
<1>5. acc.target = target /\ acc.share = x /\ acc.done = FALSE
  OBVIOUS
<1>6. AllForAll(target, n) = acc
  BY DEF AllForAll, x
<1> HIDE DEF acc
<1> QED
  BY <1>3, <1>4, <1>5, <1>6 DEF FilledTo, Shared, Left

\* A quiet signature leaves what it does not need to the others.
LEMMA QuietLeaves ==
  ASSUME NEW acc, NEW n \in Nat, NEW i \in 1 .. (n - 1), NEW E \in Nat, NEW U \in Pos,
         Shared(acc, E, U, n - (i - 1)), Left(acc, E, U),
         NEW obs, NEW w \in Nat, Ratio(obs, w, U), Less(obs, acc.share)
  PROVE  /\ E - w \in Nat
         /\ Ratio(Minus(acc.target, obs), E - w, U)
         /\ Ratio(Over(Minus(acc.target, obs), <<n - i, 1>>), E - w, U * (n - i))
<1>1. PICK m : m = n - (i - 1)
  OBVIOUS
<1>2. m \in Pos /\ n - i \in Pos /\ n - i \in Nat /\ 1 \in Pos
  BY <1>1 DEF Pos
<1>3. U * m \in Pos
  BY <1>2, TimesPos
<1>4. Ratio(acc.share, E, U * m)
  BY <1>1 DEF Shared
<1>5. w * (U * m) < E * U
  BY <1>3, <1>4, LessRatio
<1>6. w <= E
  <2>1. w * (U * m) = (w * m) * U /\ w * m \in Int
    BY <1>2 DEF Pos
  <2>2. w * m < E
    BY <1>5, <2>1, CancelLess
  <2>3. w <= w * m
    BY <1>2 DEF Pos
  <2> QED
    BY <2>1, <2>2, <2>3
<1>7. E - w \in Nat
  BY <1>6
<1>8. Ratio(Minus(acc.target, obs), E - w, U)
  BY <1>6, MinusRatio DEF Left
<1>9. Ratio(<<n - i, 1>>, n - i, 1)
  BY <1>2, FracOfItself DEF Pos
<1>10. Ratio(Over(Minus(acc.target, obs), <<n - i, 1>>), (E - w) * 1, U * (n - i))
  BY <1>2, <1>7, <1>8, <1>9, OverRatio
<1>11. (E - w) * 1 = E - w
  BY <1>7
<1> QED
  BY <1>7, <1>8, <1>10, <1>11

\* One step of the loop.
LEMMA FillGoes ==
  ASSUME NEW acc, NEW n \in Nat, NEW i \in 1 .. n, NEW k, NEW E, NEW U \in Pos,
         DOMAIN acc = FillFields,
         FilledTo(acc, n, i - 1, k, E, U), NEW obs, NEW w \in Nat, Ratio(obs, w, U),
         NEW b, b = AfterQuiet(acc, n, i, obs)
  PROVE  /\ DOMAIN b = FillFields
         /\ \/ FilledTo(b, n, i, k, E, U)
            \/ k = i - 1 /\ FilledTo(b, n, i, i, E - w, U)
<1>1. CASE acc.done \/ i = n \/ ~Less(obs, acc.share)
  <2> DEFINE a == [acc EXCEPT !.done = TRUE]
  <2>1. AfterQuiet(acc, n, i, obs) = a
    BY <1>1 DEF AfterQuiet
  <2>2. DOMAIN a = FillFields /\ a.share = acc.share
    BY DEF FillFields
  <2>3. a.done = TRUE
    BY DEF FillFields
  <2> HIDE DEF a
  <2>4. FilledTo(a, n, i, k, E, U)
    BY <2>2, <2>3 DEF FilledTo, Shared
  <2> QED
    BY <2>1, <2>2, <2>4
<1>2. CASE ~(acc.done \/ i = n \/ ~Less(obs, acc.share))
  <2> DEFINE x == Minus(acc.target, obs)
             y == Over(Minus(acc.target, obs), <<n - i, 1>>)
             a == [done |-> FALSE, target |-> x, share |-> y]
  <2>1. AfterQuiet(acc, n, i, obs) = a
    BY <1>2 DEF AfterQuiet
  <2>2. k = i - 1 /\ E \in Nat /\ Shared(acc, E, U, n - (i - 1)) /\ Left(acc, E, U)
    BY <1>2 DEF FilledTo
  <2>3. i \in 1 .. (n - 1) /\ i \in 0 .. (n - 1)
    BY <1>2
  <2>4. E - w \in Nat /\ Ratio(x, E - w, U) /\ Ratio(y, E - w, U * (n - i))
    BY <1>2, <2>2, <2>3, QuietLeaves
  <2> HIDE DEF x, y
  <2>5. DOMAIN a = FillFields /\ a.target = x /\ a.share = y
    BY DEF FillFields
  <2>6. a.done = FALSE
    OBVIOUS
  <2> HIDE DEF a
  <2>7. FilledTo(a, n, i, i, E - w, U)
    BY <2>3, <2>4, <2>5, <2>6 DEF FilledTo, Shared, Left
  <2> QED
    BY <2>1, <2>2, <2>5, <2>7
<1> QED
  BY <1>1, <1>2

\* The share: what the first k signatures leave, in equal parts for the others.
LEMMA ShareIs ==
  ASSUME NEW target, NEW E \in Nat, NEW U \in Pos, Ratio(target, E, U),
         NEW sorted, Len(sorted) \in Pos,
         NEW w, \A i \in 1 .. Len(sorted) : w[i] \in Nat /\ Ratio(sorted[i], w[i], U),
         Len(w) = Len(sorted), NEW g, Totals(w, g)
  PROVE  \E k \in 0 .. (Len(sorted) - 1) :
           /\ E - g[k] \in Nat
           /\ Ratio(ShareOf(target, sorted), E - g[k], U * (Len(sorted) - k))
<1> DEFINE N == Len(sorted)
<1>0. N \in Nat /\ N \in Pos /\ N = Len(w)
  BY DEF Pos
<1>1. PICK h : ShareOf(target, sorted) = h[N].share /\ FillSteps(target, sorted, N, h)
  BY <1>0, ShareComputed
<1>2. /\ h[0] = AllForAll(target, N)
      /\ \A m \in 1 .. N : h[m] = AfterQuiet(h[m-1], N, m, sorted[m])
  BY <1>1 DEF FillSteps
<1>3. g[0] = 0 /\ \A m \in 1 .. N : g[m] = g[m-1] + w[m]
  BY DEF Totals
<1>4. \A i \in 1 .. N : w[i] \in Nat /\ Ratio(sorted[i], w[i], U)
  OBVIOUS
<1>5. \A i \in 0 .. N : g[i] \in Nat
  BY <1>0, <1>4, TotalsGrow
<1> HIDE DEF N
<1> DEFINE T == {i \in 0 .. N : DOMAIN h[i] = FillFields /\ \E k : FilledTo(h[i], N, i, k, E - g[k], U)}
<1>6. 0 \in T
  <2>1. FilledTo(h[0], N, 0, 0, E, U)
    BY <1>0, <1>2, FillStarts
  <2>2. DOMAIN h[0] = FillFields
    BY <1>2 DEF AllForAll, FillFields
  <2>3. E - g[0] = E
    BY <1>3
  <2> QED
    BY <1>0, <2>1, <2>2, <2>3
<1>7. ASSUME NEW i \in 0 .. (N - 1), i \in T PROVE i + 1 \in T
  <2>1. i + 1 \in 1 .. N /\ i + 1 \in 0 .. N /\ (i + 1) - 1 = i /\ i \in 0 .. N
    BY <1>0
  <2>2. PICK k : FilledTo(h[i], N, i, k, E - g[k], U)
    BY <1>7
  <2>3. DOMAIN h[i] = FillFields
    BY <1>7
  <2>4. h[i+1] = AfterQuiet(h[i], N, i + 1, sorted[i+1]) /\ g[i+1] = g[i] + w[i+1]
    BY <1>2, <1>3, <2>1
  <2>5. w[i+1] \in Nat /\ Ratio(sorted[i+1], w[i+1], U)
    BY <1>4, <2>1
  <2>6. FilledTo(h[i], N, (i + 1) - 1, k, E - g[k], U)
    BY <2>1, <2>2
  <2>7. /\ DOMAIN h[i+1] = FillFields
        /\ \/ FilledTo(h[i+1], N, i + 1, k, E - g[k], U)
           \/ k = i /\ FilledTo(h[i+1], N, i + 1, i + 1, (E - g[k]) - w[i+1], U)
    <3>1. PICK l : l = i + 1
      OBVIOUS
    <3>2. PICK acc, b, obs, x, F : acc = h[i] /\ b = h[l] /\ obs = sorted[l] /\ x = w[l] /\ F = E - g[k]
      OBVIOUS
    <3>3. /\ l \in 1 .. N /\ DOMAIN acc = FillFields /\ FilledTo(acc, N, l - 1, k, F, U)
          /\ x \in Nat /\ Ratio(obs, x, U) /\ b = AfterQuiet(acc, N, l, obs)
      BY <2>1, <2>3, <2>4, <2>5, <2>6, <3>1, <3>2
    <3>4. /\ DOMAIN b = FillFields
          /\ \/ FilledTo(b, N, l, k, F, U)
             \/ k = l - 1 /\ FilledTo(b, N, l, l, F - x, U)
      BY <1>0, <3>3, FillGoes
    <3> QED
      BY <2>1, <3>1, <3>2, <3>4
  <2>8. k = i => (E - g[k]) - w[i+1] = E - g[i+1]
    BY <1>5, <2>1, <2>4, <2>5
  <2> QED
    BY <2>1, <2>7, <2>8
<1>8. N \in T
  <2> HIDE DEF T
  <2>1. \A i \in 0 .. N : i \in T
    BY <1>0, <1>6, <1>7, CountUp
  <2> QED
    BY <1>0, <2>1
<1>9. PICK k : FilledTo(h[N], N, N, k, E - g[k], U)
  BY <1>8
<1> QED
  BY <1>1, <1>9 DEF FilledTo, Shared, N

-----------------------------------------------------------------------------
(* Sums of fractions.                                                      *)

PlusSum(f, S) == FoldFunctionOnSet(Plus, Zero, f, S)

\* What the recursion of PlusSum asks of its solution.
PlusStep(f, g, s) == IF s = {} THEN Zero ELSE Plus(f[Picked(s)], g[s \ {Picked(s)}])
PlusSolves(f, S, g) == g = [s \in SUBSET S |-> PlusStep(f, g, s)]

LEMMA PlusIsChosen ==
  ASSUME NEW f, NEW S
  PROVE  PlusSum(f, S) = (CHOOSE g : PlusSolves(f, S, g))[S]
  BY Zenon DEF PlusSum, FoldFunctionOnSet, MapThenFoldSet, Picked, PlusSolves, PlusStep

\* A sum as it unfolds.
PlusUnfolds(f, S) ==
  PlusSum(f, S) = IF S = {} THEN Zero ELSE Plus(f[Picked(S)], PlusSum(f, S \ {Picked(S)}))

\* Two solutions are one.
LEMMA PlusSolvedOnce ==
  ASSUME NEW f, NEW S, IsFiniteSet(S), NEW g, NEW h, PlusSolves(f, S, g), PlusSolves(f, S, h)
  PROVE  \A s \in SUBSET S : g[s] = h[s]
<1> DEFINE N == Cardinality(S)
           T == {n \in Nat : \A s \in SUBSET S : Cardinality(s) <= n => g[s] = h[s]}
<1>1. N \in Nat
  BY FS_CardinalityType
<1>2. \A s \in SUBSET S : IsFiniteSet(s) /\ Cardinality(s) <= N /\ Cardinality(s) \in Nat
  BY FS_Subset, FS_CardinalityType
<1>3. \A s \in SUBSET S : g[s] = PlusStep(f, g, s) /\ h[s] = PlusStep(f, h, s)
  BY Zenon DEF PlusSolves
<1>4. \A s \in SUBSET S : s # {} => s \ {Picked(s)} \in SUBSET S
  OBVIOUS
<1>5. 0 \in T
  <2>1. \A s \in SUBSET S : Cardinality(s) <= 0 => s = {}
    BY <1>2, FS_EmptySet
  <2> QED
    BY <1>3, <2>1 DEF PlusStep
<1>6. ASSUME NEW n \in 0..(N - 1), n \in T
      PROVE  n + 1 \in T
  <2>1. ASSUME NEW s \in SUBSET S, Cardinality(s) <= n + 1
        PROVE  g[s] = h[s]
    <3>1. CASE s = {}
      BY <1>3, <3>1 DEF PlusStep
    <3>2. CASE s # {}
      <4>1. Cardinality(s \ {Picked(s)}) <= n
        BY <1>2, <2>1, <3>2, PickedAway
      <4>2. g[s \ {Picked(s)}] = h[s \ {Picked(s)}]
        BY <1>4, <1>6, <3>2, <4>1
      <4> QED
        BY <1>3, <3>2, <4>2 DEF PlusStep
    <3> QED
      BY <3>1, <3>2
  <2> QED
    BY <1>6, <2>1
<1> HIDE DEF T
<1>7. N \in T
  BY <1>1, <1>5, <1>6, CountUp
<1> QED
  BY <1>2, <1>7 DEF T

\* If the smaller sums unfold then so does this one.
LEMMA PlusStepUp ==
  ASSUME NEW f, NEW S, IsFiniteSet(S),
         \A s \in SUBSET S : s # S => PlusUnfolds(f, s)
  PROVE  PlusUnfolds(f, S)
<1> DEFINE rest(s) == s \ {Picked(s)}
           h == [s \in SUBSET S |-> IF s = {} THEN Zero ELSE Plus(f[Picked(s)], PlusSum(f, rest(s)))]
           g == CHOOSE k : PlusSolves(f, S, k)
<1>1. \A s \in SUBSET S : s # {} => rest(s) \in SUBSET S /\ rest(s) # S
  BY PickedIn
<1>2. \A s \in SUBSET S : s # S => h[s] = PlusSum(f, s)
  BY DEF PlusUnfolds
<1>3. \A s \in SUBSET S : h[s] = PlusStep(f, h, s)
  BY <1>1, <1>2 DEF PlusStep
<1>4. PlusSolves(f, S, h)
  <2>1. h = [s \in SUBSET S |-> h[s]]
    OBVIOUS
  <2> HIDE DEF h
  <2> QED
    BY <1>3, <2>1 DEF PlusSolves
<1>5. PlusSolves(f, S, g)
  <2> HIDE DEF h
  <2> QED
    BY <1>4
<1> HIDE DEF g
<1>6. \A s \in SUBSET S : g[s] = h[s]
  <2> HIDE DEF h
  <2> QED
    BY <1>4, <1>5, PlusSolvedOnce
<1>7. PlusSum(f, S) = g[S]
  BY PlusIsChosen DEF g
<1>8. h[S] = IF S = {} THEN Zero ELSE Plus(f[Picked(S)], PlusSum(f, rest(S)))
  OBVIOUS
<1> QED
  BY <1>6, <1>7, <1>8 DEF PlusUnfolds

LEMMA PlusSumUnfolds ==
  ASSUME NEW f, NEW S, IsFiniteSet(S)
  PROVE  PlusUnfolds(f, S)
<1> DEFINE N == Cardinality(S)
           T == {n \in Nat : \A s \in SUBSET S : Cardinality(s) <= n => PlusUnfolds(f, s)}
<1>1. N \in Nat
  BY FS_CardinalityType
<1>2. \A s \in SUBSET S : IsFiniteSet(s) /\ Cardinality(s) <= N /\ Cardinality(s) \in Nat
  BY FS_Subset, FS_CardinalityType
<1>3. ASSUME NEW s \in SUBSET S, NEW t \in SUBSET s, t # s
      PROVE  Cardinality(t) < Cardinality(s) /\ t \in SUBSET S
  <2>1. Cardinality(t) <= Cardinality(s) /\ Cardinality(t) # Cardinality(s)
    BY <1>2, <1>3, FS_Subset
  <2> QED
    BY <1>2, <2>1
<1>4. 0 \in T
  <2>1. \A s \in SUBSET S : Cardinality(s) <= 0 => \A t \in SUBSET s : t = s
    BY <1>2, FS_EmptySet
  <2> QED
    BY <1>2, <2>1, PlusStepUp
<1>5. ASSUME NEW n \in 0..(N - 1), n \in T
      PROVE  n + 1 \in T
  <2>1. ASSUME NEW s \in SUBSET S, Cardinality(s) <= n + 1
        PROVE  PlusUnfolds(f, s)
    <3>1. ASSUME NEW t \in SUBSET s, t # s
          PROVE  PlusUnfolds(f, t)
      <4>1. Cardinality(t) <= n /\ t \in SUBSET S
        BY <1>2, <1>3, <2>1, <3>1
      <4> QED
        BY <1>5, <4>1
    <3> QED
      BY <1>2, <3>1, PlusStepUp
  <2> QED
    BY <1>5, <2>1
<1> HIDE DEF T
<1>6. N \in T
  BY <1>1, <1>4, <1>5, CountUp
<1> QED
  BY <1>2, <1>6 DEF T

\* Two fractions over m together.
LEMMA PlusAtMost ==
  ASSUME NEW x, NEW p \in Nat, NEW m \in Pos, AtMost(x, p, m),
         NEW y, NEW r \in Nat, AtMost(y, r, m)
  PROVE  AtMost(Plus(x, y), p + r, m)
<1>1. PICK a \in Nat, b \in Pos : x = <<a, b>> /\ a * m <= p * b
  BY DEF AtMost
<1>2. PICK c \in Nat, d \in Pos : y = <<c, d>> /\ c * m <= r * d
  BY DEF AtMost
<1>3. Plus(x, y) = Frac(a * d + c * b, b * d)
  BY <1>1, <1>2 DEF Plus
<1>4. b * d \in Pos /\ a * d + c * b \in Nat
  BY TimesPos DEF Pos
<1>5. Ratio(Frac(a * d + c * b, b * d), a * d + c * b, b * d)
  BY <1>4, FracRatio
<1>6. (a * d + c * b) * m <= (p + r) * (b * d)
  <2>1. (a * m) * d <= (p * b) * d
    BY <1>1, CancelLess DEF Pos
  <2>2. (c * m) * b <= (r * d) * b
    BY <1>2, CancelLess DEF Pos
  <2>3. (a * d + c * b) * m = (a * m) * d + (c * m) * b
    BY DEF Pos
  <2>4. (p + r) * (b * d) = (p * b) * d + (r * d) * b
    BY DEF Pos
  <2>5. (a * m) * d \in Int /\ (p * b) * d \in Int /\ (c * m) * b \in Int /\ (r * d) * b \in Int
    BY DEF Pos
  <2> QED
    BY <2>1, <2>2, <2>3, <2>4, <2>5
<1>7. p + r \in Nat
  OBVIOUS
<1> QED
  BY <1>3, <1>4, <1>5, <1>6, <1>7, RatioAtMost

LEMMA ZeroAtMost ==
  ASSUME NEW p \in Nat, NEW m \in Pos
  PROVE  AtMost(Zero, p, m)
<1>1. 0 * m <= p * 1 /\ 0 \in Nat /\ 1 \in Pos
  BY DEF Pos
<1> QED
  BY <1>1 DEF AtMost, Zero

\* Fractions over m together, by what each of them is at most.
LEMMA PlusSumAtMost ==
  ASSUME NEW f, NEW S, IsFiniteSet(S), NEW m \in Pos,
         NEW t, \A x \in S : t[x] \in Nat /\ AtMost(f[x], t[x], m)
  PROVE  AtMost(PlusSum(f, S), SumFunctionOnSet(t, S), m)
<1> DEFINE N == Cardinality(S)
           OK(s) == AtMost(PlusSum(f, s), SumFunctionOnSet(t, s), m)
           T == {n \in Nat : \A s \in SUBSET S : Cardinality(s) <= n => OK(s)}
<1>1. N \in Nat
  BY FS_CardinalityType
<1>2. \A s \in SUBSET S : IsFiniteSet(s) /\ Cardinality(s) <= N /\ Cardinality(s) \in Nat
  BY FS_Subset, FS_CardinalityType
<1>3. OK({})
  <2>1. PlusSum(f, {}) = Zero
    BY FS_EmptySet, PlusSumUnfolds DEF PlusUnfolds
  <2>2. SumFunctionOnSet(t, {}) = 0
    BY SumEmpty
  <2>3. AtMost(Zero, 0, m)
    BY ZeroAtMost
  <2> QED
    BY <2>1, <2>2, <2>3
<1>4. 0 \in T
  <2>1. \A s \in SUBSET S : Cardinality(s) <= 0 => s = {}
    BY <1>2, FS_EmptySet
  <2> HIDE DEF OK
  <2> QED
    BY <1>3, <2>1
<1>5. ASSUME NEW n \in 0..(N - 1), n \in T
      PROVE  n + 1 \in T
  <2>0. \A s \in SUBSET S : Cardinality(s) <= n => OK(s)
    BY <1>5
  <2>1. ASSUME NEW s \in SUBSET S, Cardinality(s) <= n + 1, s # {}
        PROVE  OK(s)
    <3>1. PICK p \in s : p = Picked(s)
      BY <2>1, PickedIn
    <3>2. PICK r : r = s \ {p}
      OBVIOUS
    <3>3. Cardinality(r) <= n /\ r \in SUBSET S /\ IsFiniteSet(r)
      <4>1. IsFiniteSet(s) /\ n \in Nat /\ Cardinality(s) \in Nat
        BY <1>1, <1>2
      <4>2. IsFiniteSet(r) /\ Cardinality(r) = Cardinality(s) - 1
        BY <3>1, <3>2, <4>1, FS_RemoveElement
      <4> QED
        BY <2>1, <3>2, <4>1, <4>2
    <3>4. AtMost(PlusSum(f, r), SumFunctionOnSet(t, r), m)
      BY <2>0, <3>3
    <3>5. IsFiniteSet(s)
      BY <1>2
    <3>6. PlusSum(f, s) = Plus(f[p], PlusSum(f, r))
      BY <2>1, <3>1, <3>2, <3>5, PlusSumUnfolds DEF PlusUnfolds
    <3>7. SumFunctionOnSet(t, s) = t[p] + SumFunctionOnSet(t, r)
      BY <2>1, <3>1, <3>2, <3>5, SumsUnfold DEF SumUnfolds
    <3>8. SumFunctionOnSet(t, r) \in Nat
      BY <3>3, SumNatural
    <3>9. t[p] \in Nat /\ AtMost(f[p], t[p], m)
      BY <3>1
    <3> QED
      BY <3>4, <3>6, <3>7, <3>8, <3>9, PlusAtMost
  <2>2. \A s \in SUBSET S : Cardinality(s) <= n + 1 => OK(s)
    <3> HIDE DEF OK
    <3> QED
      BY <1>3, <2>1
  <2>3. n + 1 \in Nat
    BY <1>1
  <2> QED
    BY <2>2, <2>3
<1> HIDE DEF T
<1>6. N \in T
  BY <1>1, <1>4, <1>5, CountUp
<1>7. OK(S)
  BY <1>2, <1>6 DEF T
<1> QED
  BY <1>7

-----------------------------------------------------------------------------
(* The signatures in the order of their traces per second: none is left    *)
(* out.                                                                    *)

\* s has every member of D, which is a part of S.
HasAll(S, D, s) == s \in Seq(S) /\ \A x \in D : \E i \in 1 .. Len(s) : s[i] = x

LEMMA SetToSeqHasAll ==
  ASSUME NEW S, IsFiniteSet(S), NEW s, s = SetToSeq(S)
  PROVE  HasAll(S, S, s) /\ Len(s) = Cardinality(S)
<1>1. PICK n \in Nat : n = Cardinality(S) /\ ExistsBijection(1 .. n, S)
  BY FS_CardinalityType
<1>2. \E f \in [1 .. n -> S] : IsInjective(f)
  BY <1>1 DEF ExistsBijection, Bijection, Injection, Surjection
<1>3. s = CHOOSE f \in [1 .. n -> S] : IsInjective(f)
  BY <1>1 DEF SetToSeq
<1>4. s \in [1 .. n -> S] /\ IsInjective(s)
  BY <1>2, <1>3
<1>5. s \in Seq(S) /\ Len(s) = n
  BY <1>4
<1>6. ASSUME NEW x \in S, \A i \in 1 .. n : s[i] # x PROVE FALSE
  <2>1. s \in [1 .. n -> S \ {x}]
    BY <1>4, <1>6
  <2>2. s \in Injection(1 .. n, S \ {x})
    BY <1>4, <2>1 DEF Injection
  <2>3. IsFiniteSet(S \ {x}) /\ Cardinality(S \ {x}) = n - 1
    BY <1>1, FS_RemoveElement
  <2>4. Cardinality(1 .. n) <= Cardinality(S \ {x})
    BY <2>2, <2>3, FS_Injection
  <2>5. Cardinality(1 .. n) = n
    BY FS_Interval
  <2> QED
    BY <2>3, <2>4, <2>5
<1> QED
  BY <1>1, <1>5, <1>6 DEF HasAll

\* A signature is inserted.
LEMMA InsertByTpsInserts ==
  ASSUME NEW S, NEW tps, NEW s \in Seq(S), NEW e \in S
  PROVE  \E i \in 1 .. (Len(s) + 1) : Inserts(S, s, i, e, InsertByTps(tps, s, e))
<1>1. Len(s) \in Nat /\ DOMAIN s = 1 .. Len(s)
  OBVIOUS
<1> DEFINE P == {k \in DOMAIN s : ~Less(tps[e], tps[s[k]])}
<1>2. P \in SUBSET (1 .. Len(s))
  BY <1>1
<1>3. InsertByTps(tps, s, e) = InsertAt(s, Cardinality(P) + 1, e)
  BY DEF InsertByTps
<1> HIDE DEF P
<1>4. IsFiniteSet(1 .. Len(s)) /\ Cardinality(1 .. Len(s)) = IF 1 > Len(s) THEN 0 ELSE Len(s) - 1 + 1
  BY <1>1, FS_Interval
<1>5. IsFiniteSet(P) /\ Cardinality(P) <= Cardinality(1 .. Len(s))
  BY <1>2, <1>4, FS_Subset
<1>6. Cardinality(P) \in Nat
  BY <1>5, FS_CardinalityType
<1>7. PICK i \in 1 .. (Len(s) + 1) : i = Cardinality(P) + 1
  BY <1>1, <1>4, <1>5, <1>6
<1>8. Inserts(S, s, i, e, InsertAt(s, i, e))
  BY <1>7, InsertAtInserts
<1> QED
  BY <1>3, <1>7, <1>8

\* Nothing is lost when a signature is inserted.
LEMMA InsertedHasAll ==
  ASSUME NEW S, NEW D, NEW s, HasAll(S, D, s), NEW e \in S, NEW tps, NEW t, t = InsertByTps(tps, s, e)
  PROVE  HasAll(S, D \cup {e}, t) /\ Len(t) = Len(s) + 1
<1>0. s \in Seq(S) /\ Len(s) \in Nat
  BY DEF HasAll
<1>1. PICK i \in 1 .. (Len(s) + 1) : Inserts(S, s, i, e, t)
  BY <1>0, InsertByTpsInserts
<1>2. /\ t \in Seq(S) /\ Len(t) = Len(s) + 1 /\ t[i] = e
      /\ \A k \in 1 .. (i - 1) : t[k] = s[k]
      /\ \A k \in (i + 1) .. (Len(s) + 1) : t[k] = s[k - 1]
  BY <1>1 DEF Inserts
<1>3. i \in 1 .. Len(t)
  BY <1>0, <1>2
<1>4. ASSUME NEW x \in D PROVE \E j \in 1 .. Len(t) : t[j] = x
  <2>1. PICK j \in 1 .. Len(s) : s[j] = x
    BY DEF HasAll
  <2>2. CASE j < i
    <3>1. j \in 1 .. (i - 1) /\ j \in 1 .. Len(t)
      BY <1>0, <1>2, <2>2
    <3> QED
      BY <1>2, <2>1, <3>1
  <2>3. CASE ~(j < i)
    <3>1. PICK l \in (i + 1) .. (Len(s) + 1) : l - 1 = j
      BY <1>0, <2>3
    <3>2. l \in 1 .. Len(t)
      BY <1>0, <1>2
    <3> QED
      BY <1>2, <2>1, <3>1, <3>2
  <2> QED
    BY <2>2, <2>3
<1> QED
  BY <1>2, <1>3, <1>4 DEF HasAll

\* One step of the loop of SortByTps.
OneMoreSorted(tps, names, x, n) == InsertByTps(tps, x, names[n])

TpsLoop(tps, names, g) ==
  g = [n \in 0 .. Len(names) |-> IF n = 0 THEN <<>> ELSE OneMoreSorted(tps, names, g[n-1], n)]

LEMMA SortByTpsComputed ==
  ASSUME NEW S, NEW names \in Seq(S), NEW tps
  PROVE  \E h : /\ SortByTps(tps, names) = h[Len(names)]
                /\ h[0] = <<>>
                /\ \A n \in 1 .. Len(names) : h[n] = InsertByTps(tps, h[n-1], names[n])
<1> DEFINE N == Len(names)
           X == Seq(S)
           F == [n \in 1 .. N |-> [x \in X |-> OneMoreSorted(tps, names, x, n)]]
<1>0. N \in Nat /\ <<>> \in X /\ \A n \in 1 .. N : names[n] \in S
  OBVIOUS
<1>1. \A n \in 1 .. N : \A x \in X : OneMoreSorted(tps, names, x, n) \in X
  BY <1>0, InsertByTpsInserts DEF OneMoreSorted, Inserts
<1> HIDE DEF N, X
<1>2. F \in [1 .. N -> [X -> X]] /\ \A n \in 1 .. N : \A x \in X : F[n][x] = OneMoreSorted(tps, names, x, n)
  BY <1>1
<1> HIDE DEF F
<1>3. PICK g \in [0 .. N -> X] : g[0] = <<>> /\ \A n \in 1 .. N : g[n] = F[n][g[n-1]]
  <2>1. Solvable(N, X, <<>>, F)
    BY <1>0, <1>2, Recursion
  <2> QED
    BY <2>1 DEF Solvable
<1>4. \A n \in 1 .. N : g[n] = OneMoreSorted(tps, names, g[n-1], n)
  <2> TAKE n \in 1 .. N
  <2>1. n - 1 \in 0 .. N
    BY <1>0
  <2> QED
    BY <1>2, <1>3, <2>1
<1>5. ASSUME NEW n \in 0 .. N PROVE g[n] = IF n = 0 THEN <<>> ELSE OneMoreSorted(tps, names, g[n-1], n)
  <2>1. CASE n = 0
    BY <1>3, <2>1
  <2>2. CASE n # 0
    <3>1. n \in 1 .. N
      BY <1>0, <2>2
    <3> QED
      BY <1>4, <2>2, <3>1
  <2> QED
    BY <2>1, <2>2
<1> DEFINE k == [n \in 0 .. N |-> IF n = 0 THEN <<>> ELSE OneMoreSorted(tps, names, g[n-1], n)]
<1>6. g = k
  BY <1>3, <1>5
<1>7. TpsLoop(tps, names, g)
  BY <1>6 DEF TpsLoop, N
<1>8. PICK h : h = CHOOSE l : TpsLoop(tps, names, l)
  OBVIOUS
<1>9. TpsLoop(tps, names, h)
  BY <1>7, <1>8
<1>10. SortByTps(tps, names) = h[N]
  BY <1>8 DEF SortByTps, TpsLoop, OneMoreSorted, N
<1>11. \A n \in 0 .. N : h[n] = IF n = 0 THEN <<>> ELSE OneMoreSorted(tps, names, h[n-1], n)
  BY <1>9 DEF TpsLoop, N
<1>12. h[0] = <<>>
  BY <1>0, <1>11
<1>13. ASSUME NEW n \in 1 .. N PROVE h[n] = InsertByTps(tps, h[n-1], names[n])
  <2>1. n \in 0 .. N /\ n # 0
    BY <1>0
  <2> QED
    BY <1>11, <2>1 DEF OneMoreSorted
<1> QED
  BY <1>10, <1>12, <1>13 DEF N

\* All signatures are in the order.
LEMMA SortedHasAll ==
  ASSUME NEW S, NEW names, HasAll(S, S, names), NEW tps, NEW s, s = SortByTps(tps, names)
  PROVE  HasAll(S, S, s) /\ Len(s) = Len(names)
<1> DEFINE N == Len(names)
           Part(n) == {names[i] : i \in 1 .. n}
<1>0. N \in Nat /\ names \in Seq(S)
  BY DEF HasAll
<1>a. \A n \in 1 .. N : names[n] \in S
  BY <1>0
<1>1. PICK h : /\ s = h[N] /\ h[0] = <<>>
               /\ \A n \in 1 .. N : h[n] = InsertByTps(tps, h[n-1], names[n])
  BY <1>0, SortByTpsComputed
<1>b. \A x \in S : x \in Part(N)
  BY DEF HasAll
<1> HIDE DEF N
<1> DEFINE T == {n \in 0 .. N : HasAll(S, Part(n), h[n]) /\ Len(h[n]) = n}
<1>2. 0 \in T
  <2>1. Part(0) = {}
    OBVIOUS
  <2>2. HasAll(S, {}, <<>>) /\ Len(<<>>) = 0
    BY DEF HasAll
  <2> HIDE DEF Part
  <2>3. HasAll(S, Part(0), h[0]) /\ Len(h[0]) = 0
    BY <1>1, <2>1, <2>2
  <2>4. 0 \in 0 .. N
    BY <1>0
  <2> QED
    BY <2>3, <2>4
<1>3. ASSUME NEW n \in 0 .. (N - 1), n \in T PROVE n + 1 \in T
  <2>1. n + 1 \in 1 .. N /\ n + 1 \in 0 .. N /\ (n + 1) - 1 = n /\ n \in Nat
    BY <1>0
  <2>2. PICK e \in S : e = names[n+1]
    BY <1>a, <2>1
  <2>3. h[n+1] = InsertByTps(tps, h[n], e)
    BY <1>1, <2>1, <2>2
  <2>4. HasAll(S, Part(n), h[n]) /\ Len(h[n]) = n
    BY <1>3
  <2>5. Part(n + 1) = Part(n) \cup {e}
    <3>1. \A i \in 1 .. (n + 1) : i \in 1 .. n \/ i = n + 1
      BY <2>1
    <3>2. \A i \in 1 .. n : i \in 1 .. (n + 1)
      BY <2>1
    <3>3. n + 1 \in 1 .. (n + 1)
      BY <2>1
    <3> QED
      BY <2>2, <3>1, <3>2, <3>3
  <2> HIDE DEF Part
  <2>6. HasAll(S, Part(n) \cup {e}, h[n+1]) /\ Len(h[n+1]) = n + 1
    BY <2>3, <2>4, InsertedHasAll
  <2> QED
    BY <2>1, <2>5, <2>6
<1>4. N \in T
  <2> HIDE DEF T
  <2>1. \A n \in 0 .. N : n \in T
    BY <1>0, <1>2, <1>3, CountUp
  <2> QED
    BY <1>0, <2>1
<1>5. HasAll(S, Part(N), s) /\ Len(s) = N
  BY <1>1, <1>4
<1> HIDE DEF Part
<1> QED
  BY <1>b, <1>5 DEF HasAll, N

-----------------------------------------------------------------------------
(* The budget: what the rates keep is at most the target.                  *)

\* What the first i signatures may keep, in units of 1 / (U * m): m times what
\* they were seen for the first k, the share for the others.
MayKeep(g, k, E, m, i) == IF i <= k THEN m * g[i] ELSE m * g[k] + (i - k) * E

\* One signature more.
MayKeepMore(w, g, k, E, m, i) ==
  /\ MayKeep(g, k, E, m, i) \in Nat
  /\ MayKeep(g, k, E, m, i + 1)
       = MayKeep(g, k, E, m, i) + (IF i + 1 <= k THEN w[i+1] * m ELSE E)

LEMMA MayKeepGrows ==
  ASSUME NEW n \in Nat, NEW k \in 0 .. n, NEW m \in Nat, NEW E \in Nat,
         NEW w, Len(w) = n, \A i \in 1 .. n : w[i] \in Nat, NEW g, Totals(w, g), NEW i \in 0 .. (n - 1)
  PROVE  MayKeepMore(w, g, k, E, m, i)
<1>0. \A j \in 0 .. n : g[j] \in Nat
  BY TotalsGrow
<1>1. i + 1 \in 1 .. n /\ (i + 1) - 1 = i /\ i \in 0 .. n /\ i \in Nat /\ k \in Nat
  OBVIOUS
<1>2. PICK a \in Nat, b \in Nat, c \in Nat : a = g[i] /\ b = w[i+1] /\ c = g[k]
  BY <1>0, <1>1
<1>3. g[i+1] = a + b
  BY <1>1, <1>2 DEF Totals
<1>4. CASE i + 1 <= k
  <2>1. i <= k
    BY <1>1, <1>4
  <2>2. MayKeep(g, k, E, m, i) = m * a /\ MayKeep(g, k, E, m, i + 1) = m * (a + b)
    BY <1>2, <1>3, <1>4, <2>1 DEF MayKeep
  <2>3. m * a \in Nat /\ m * (a + b) = m * a + b * m
    OBVIOUS
  <2> QED
    BY <1>2, <1>4, <2>2, <2>3 DEF MayKeepMore
<1>5. CASE i = k
  <2>1. ~(i + 1 <= k) /\ (i + 1) - k = 1
    BY <1>1, <1>5
  <2>2. MayKeep(g, k, E, m, i) = m * c /\ MayKeep(g, k, E, m, i + 1) = m * c + 1 * E
    BY <1>2, <1>5, <2>1 DEF MayKeep
  <2>3. m * c \in Nat /\ 1 * E = E
    OBVIOUS
  <2> QED
    BY <2>1, <2>2, <2>3 DEF MayKeepMore
<1>6. CASE i > k
  <2>1. ~(i + 1 <= k) /\ ~(i <= k) /\ (i + 1) - k = (i - k) + 1 /\ i - k \in Nat
    BY <1>1, <1>6
  <2>2. MayKeep(g, k, E, m, i) = m * c + (i - k) * E
    BY <1>2, <2>1 DEF MayKeep
  <2>3. MayKeep(g, k, E, m, i + 1) = m * c + ((i - k) + 1) * E
    BY <1>2, <2>1 DEF MayKeep
  <2>4. PICK d \in Nat : d = i - k
    BY <2>1
  <2>5. m * c + d * E \in Nat /\ m * c + (d + 1) * E = m * c + d * E + E
    OBVIOUS
  <2> QED
    BY <2>1, <2>2, <2>3, <2>4, <2>5 DEF MayKeepMore
<1> QED
  BY <1>1, <1>4, <1>5, <1>6

\* Signatures that each have a place of their own may together keep no more.
PlacedAt(S, s, place, n) == \A x \in S : place[x] \in 1 .. n /\ s[place[x]] = x
KeepsOf(S, t, place, w, k, m, E) ==
  \A x \in S : t[x] = IF place[x] <= k THEN w[place[x]] * m ELSE E
Weighs(w, n, g) == Len(w) = n /\ (\A i \in 1 .. n : w[i] \in Nat) /\ Totals(w, g)

LEMMA PlacesKeep ==
  ASSUME NEW n \in Nat, NEW k \in 0 .. (n - 1), NEW m \in Nat, NEW E \in Nat,
         NEW w, NEW g, Weighs(w, n, g), NEW S, IsFiniteSet(S), NEW s, NEW place,
         PlacedAt(S, s, place, n), NEW t, KeepsOf(S, t, place, w, k, m, E)
  PROVE  SumFunctionOnSet(t, S) <= m * g[k] + (n - k) * E
<1> USE DEF Weighs, PlacedAt, KeepsOf
<1> DEFINE B(i) == MayKeep(g, k, E, m, i)
           first(i) == {x \in S : place[x] <= i}
           sum(i) == SumFunctionOnSet(t, first(i))
           T == {i \in 0 .. n : sum(i) <= B(i)}
<1>a. k \in 0 .. n /\ k \in Nat
  OBVIOUS
<1>c. \A i \in 0 .. (n - 1) : MayKeepMore(w, g, k, E, m, i)
  BY <1>a, MayKeepGrows
<1>b. \A x \in S : t[x] \in Nat
  <2> TAKE x \in S
  <2>1. w[place[x]] \in Nat
    OBVIOUS
  <2>2. w[place[x]] * m \in Nat
    BY <2>1
  <2> QED
    BY <2>2
<1>1. \A i \in 0 .. n : IsFiniteSet(first(i))
  BY FS_Subset
<1>2. 0 \in T
  <2>1. first(0) = {}
    BY <1>a
  <2>2. sum(0) = 0
    <3>1. SumFunctionOnSet(t, {}) = 0
      BY SumEmpty
    <3> QED
      BY <2>1, <3>1
  <2>3. B(0) = 0
    BY <1>a DEF MayKeep, Totals
  <2> HIDE DEF sum, B
  <2> QED
    BY <2>2, <2>3
<1>3. ASSUME NEW i \in 0 .. (n - 1), i \in T PROVE i + 1 \in T
  <2>1. i + 1 \in 1 .. n /\ i + 1 \in 0 .. n /\ i \in 0 .. n /\ i \in Nat
    OBVIOUS
  <2>2. /\ B(i) \in Nat
        /\ B(i + 1) = B(i) + (IF i + 1 <= k THEN w[i+1] * m ELSE E)
    BY <1>c DEF MayKeepMore
  <2>3. PICK b \in Nat : b = IF i + 1 <= k THEN w[i+1] * m ELSE E
    <3>1. w[i+1] * m \in Nat
      BY <2>1
    <3> QED
      BY <3>1
  <2>4. sum(i) \in Nat
    <3>1. IsFiniteSet(first(i)) /\ \A x \in first(i) : t[x] \in Nat
      BY <1>1, <1>b, <2>1
    <3> HIDE DEF first
    <3> QED
      BY <3>1, SumNatural
  <2>5. \A x \in S : place[x] <= i + 1 <=> place[x] <= i \/ place[x] = i + 1
    BY <2>1
  <2>6. CASE \E x \in S : place[x] = i + 1
    <3>1. PICK x \in S : place[x] = i + 1
      BY <2>6
    <3>2. \A y \in S : place[y] = i + 1 => y = x
      BY <3>1
    <3>3. first(i + 1) = first(i) \cup {x} /\ x \notin first(i)
      BY <2>1, <2>5, <3>1, <3>2
    <3>4. t[x] = b
      BY <2>3, <3>1
    <3>5. SumFunctionOnSet(t, first(i) \cup {x}) = t[x] + SumFunctionOnSet(t, first(i))
      <4>1. IsFiniteSet(first(i)) /\ (\A y \in first(i) : t[y] \in Int) /\ t[x] \in Int
        BY <1>1, <1>b, <2>1
      <4>2. x \notin first(i)
        BY <3>3
      <4> HIDE DEF first
      <4> QED
        BY <4>1, <4>2, SumAdds
    <3>6. sum(i + 1) = b + sum(i)
      <4> HIDE DEF first
      <4> QED
        BY <3>3, <3>4, <3>5
    <3> HIDE DEF sum, B, first
    <3> QED
      BY <1>3, <2>1, <2>2, <2>3, <2>4, <3>6
  <2>7. CASE ~\E x \in S : place[x] = i + 1
    <3>1. first(i + 1) = first(i)
      BY <2>5, <2>7
    <3>2. sum(i + 1) = sum(i)
      <4> HIDE DEF first
      <4> QED
        BY <3>1
    <3> HIDE DEF sum, B, first
    <3> QED
      BY <1>3, <2>1, <2>2, <2>3, <2>4, <3>2
  <2> QED
    BY <2>6, <2>7
<1>4. n \in T
  <2> HIDE DEF T
  <2>1. \A i \in 0 .. n : i \in T
    BY <1>2, <1>3, CountUp
  <2> QED
    BY <2>1
<1>5. first(n) = S
  OBVIOUS
<1>6. B(n) = m * g[k] + (n - k) * E
  <2>1. ~(n <= k)
    OBVIOUS
  <2> QED
    BY <2>1 DEF MayKeep
<1>7. sum(n) <= B(n)
  BY <1>4
<1>8. sum(n) = SumFunctionOnSet(t, S)
  <2> HIDE DEF first
  <2> QED
    BY <1>5
<1> HIDE DEF sum, B
<1> QED
  BY <1>6, <1>7, <1>8

\* What is kept of one signature.
LEMMA SignatureKept ==
  ASSUME NEW share, NEW E \in Nat, NEW U \in Pos, NEW m \in Pos, Ratio(share, E, U * m),
         NEW obs, NEW w \in Nat, Ratio(obs, w, U),
         NEW z, \A g \in DOMAIN z.rates : IsFrac(z.rates[g]), NEW sig,
         NEW x, x = NewRate(z, sig, share, obs)
  PROVE  IsFrac(x) /\ AtMost(Times2(x, obs), E, U * m) /\ AtMost(Times2(x, obs), w * m, U * m)
<1>1. PICK v \in Pos : v = U * m
  BY TimesPos
<1>2. PICK p \in Nat, q \in Pos : Ratio(x, p, q) /\ p <= q /\ Fits(p, q, w, U, E, v)
  BY <1>1, NewRateFits
<1>3. AtMost(Times2(x, obs), E, v) /\ AtMost(Times2(x, obs), w, U)
  BY <1>1, <1>2, KeptAtMost
<1>4. PICK a \in Nat, b \in Pos : Times2(x, obs) = <<a, b>> /\ a * U <= w * b
  BY <1>3 DEF AtMost
<1>5. a * (U * m) <= (w * m) * b
  <2>1. (a * U) * m <= (w * b) * m
    BY <1>4, CancelLess DEF Pos
  <2>2. a * (U * m) = (a * U) * m /\ (w * m) * b = (w * b) * m
    BY DEF Pos
  <2> QED
    BY <2>1, <2>2
<1> QED
  BY <1>1, <1>2, <1>3, <1>4, <1>5, RatioIsFrac DEF AtMost

\* A sum of fractions that is at most the target.
LEMMA InTarget ==
  ASSUME NEW x, NEW T1 \in Pos, NEW T2 \in Pos, NEW d \in Pos, NEW m \in Pos,
         NEW e \in Nat, AtMost(x, e, (T2 * d) * m), e <= m * (T1 * d)
  PROVE  ~Less(<<T1, T2>>, x)
<1>1. PICK a \in Nat, b \in Pos : x = <<a, b>> /\ a * ((T2 * d) * m) <= e * b
  BY DEF AtMost
<1>2. e * b <= (m * (T1 * d)) * b
  BY CancelLess DEF Pos
<1>3. d * m \in Pos
  BY TimesPos
<1>4. a * ((T2 * d) * m) = (a * T2) * (d * m)
  BY DEF Pos
<1>5. (m * (T1 * d)) * b = (T1 * b) * (d * m)
  BY DEF Pos
<1>6. e * b \in Int /\ a * T2 \in Int /\ T1 * b \in Int /\ (a * T2) * (d * m) \in Int /\ (T1 * b) * (d * m) \in Int
  BY DEF Pos
<1>7. (a * T2) * (d * m) <= (T1 * b) * (d * m)
  BY <1>1, <1>2, <1>4, <1>5, <1>6
<1>8. a * T2 <= T1 * b
  BY <1>3, <1>6, <1>7, CancelLess
<1> QED
  BY <1>1, <1>6, <1>8 DEF Less

\* The traces per second tps, which are those of the busiest buckets `most`, are
\* shared: the first k in `sorted` are quiet, and weigh w.
Sharing(target, tps, most, sorted, w, g, k, n) ==
  /\ n \in Pos /\ k \in 0 .. (n - 1)
  /\ HasAll(DOMAIN tps, DOMAIN tps, sorted) /\ Len(sorted) = n
  /\ Len(w) = n /\ \A i \in 1 .. n : w[i] \in Nat /\ w[i] = most[sorted[i]] * target[2]
  /\ Totals(w, g)
  /\ target[1] * BucketDuration - g[k] \in Nat
  /\ Ratio(ComputeTpsPerSig(target, tps), target[1] * BucketDuration - g[k],
           (target[2] * BucketDuration) * (n - k))

\* The traces per second of a signature over the common denominator.
LEMMA TpsRatio ==
  ASSUME NEW m \in Nat, NEW T2 \in Pos, NEW d \in Pos
  PROVE  Ratio(Frac(m, d), m * T2, T2 * d)
<1>1. Ratio(Frac(m, d), m, d)
  BY FracRatio
<1>2. T2 * d \in Pos
  BY TimesPos
<1>3. m * (T2 * d) = (m * T2) * d /\ m * T2 \in Nat
  BY DEF Pos
<1> QED
  BY <1>1, <1>2, <1>3, SameValue

LEMMA TpsShared ==
  ASSUME NEW tps, IsFiniteSet(DOMAIN tps), DOMAIN tps # {},
         NEW most, \A g \in DOMAIN tps : most[g] \in Nat /\ tps[g] = Frac(most[g], BucketDuration),
         NEW T1 \in Pos, NEW T2 \in Pos
  PROVE  \E sorted, w, g, k, n : Sharing(<<T1, T2>>, tps, most, sorted, w, g, k, n)
<1>0. PICK d \in Pos : d = BucketDuration
  BY ErrorSamplerAssumption DEF Pos
<1>1. PICK D : D = DOMAIN tps
  OBVIOUS
<1>2. PICK names : names = SetToSeq(D)
  OBVIOUS
<1>3. HasAll(D, D, names) /\ Len(names) = Cardinality(D)
  BY <1>1, <1>2, SetToSeqHasAll
<1>4. PICK sorted : sorted = SortByTps(tps, names)
  OBVIOUS
<1>5. HasAll(D, D, sorted) /\ Len(sorted) = Cardinality(D)
  BY <1>3, <1>4, SortedHasAll
<1>6. PICK n \in Pos : n = Cardinality(D)
  <2>1. Cardinality(D) \in Nat /\ (Cardinality(D) = 0 <=> D = {})
    BY <1>1, FS_CardinalityType, FS_EmptySet
  <2> QED
    BY <1>1, <2>1 DEF Pos
<1>7. n \in Nat /\ sorted \in Seq(D) /\ Len(sorted) = n /\ \A i \in 1 .. n : sorted[i] \in D
  <2>1. sorted \in Seq(D) /\ Len(sorted) = n /\ n \in Nat
    BY <1>5, <1>6 DEF HasAll, Pos
  <2> QED
    BY <2>1
<1>8. PICK obs : obs = Listed(tps, sorted)
  OBVIOUS
<1>9. Len(obs) = n /\ \A i \in 1 .. n : obs[i] = tps[sorted[i]]
  <2>1. DOMAIN sorted = 1 .. n
    BY <1>7
  <2>2. obs = [i \in 1 .. n |-> tps[sorted[i]]]
    BY <1>8, <2>1 DEF Listed
  <2> QED
    BY <1>7, <2>2
<1>10. PICK w : w = [i \in 1 .. n |-> most[sorted[i]] * T2]
  OBVIOUS
<1>11. Len(w) = n
  BY <1>7, <1>10
<1>12. PICK U \in Pos, E \in Nat : U = T2 * d /\ E = T1 * d
  BY TimesPos DEF Pos
<1>13. ASSUME NEW i \in 1 .. n
       PROVE  /\ w[i] \in Nat /\ w[i] = most[sorted[i]] * T2
              /\ Ratio(obs[i], w[i], U)
  <2>1. PICK m \in Nat : m = most[sorted[i]] /\ tps[sorted[i]] = Frac(m, d)
    BY <1>0, <1>1, <1>7
  <2>2. w[i] = m * T2 /\ m * T2 \in Nat
    BY <1>10, <2>1 DEF Pos
  <2>3. Ratio(Frac(m, d), m * T2, T2 * d)
    BY TpsRatio
  <2> QED
    BY <1>9, <1>12, <2>1, <2>2, <2>3
<1>14. Ratio(<<T1, T2>>, E, U)
  <2>1. Ratio(<<T1, T2>>, T1, T2)
    BY FracOfItself DEF Pos
  <2>2. T1 * (T2 * d) = (T1 * d) * T2 /\ T1 \in Nat
    BY DEF Pos
  <2> QED
    BY <1>12, <2>1, <2>2, SameValue
<1>15. PICK g : Totals(w, g)
  BY <1>7, <1>11, HasTotals
<1>16. PICK k \in 0 .. (n - 1) :
         /\ E - g[k] \in Nat
         /\ Ratio(ShareOf(<<T1, T2>>, obs), E - g[k], U * (n - k))
  <2>1. Len(obs) \in Pos /\ Len(w) = Len(obs)
    BY <1>9, <1>11
  <2>2. \A i \in 1 .. Len(obs) : w[i] \in Nat /\ Ratio(obs[i], w[i], U)
    BY <1>9, <1>13
  <2> QED
    BY <1>9, <1>14, <1>15, <2>1, <2>2, ShareIs
<1>17. ComputeTpsPerSig(<<T1, T2>>, tps) = ShareOf(<<T1, T2>>, obs)
  BY <1>1, <1>2, <1>4, <1>8 DEF ComputeTpsPerSig
<1>18. <<T1, T2>>[1] = T1 /\ <<T1, T2>>[2] = T2
  OBVIOUS
<1>19. Sharing(<<T1, T2>>, tps, most, sorted, w, g, k, n)
  BY <1>0, <1>1, <1>5, <1>6, <1>7, <1>11, <1>12, <1>13, <1>15, <1>16, <1>17, <1>18 DEF Sharing
<1> QED
  BY <1>19

\* The rates are fractions.
RatesOk(s) == \A g \in DOMAIN s.rates : IsFrac(s.rates[g])

\* What the rates keep of the busiest buckets.
KeptBy(rates, most) == [g \in DOMAIN rates |-> Times2(rates[g], Frac(most[g], BucketDuration))]

WithinTarget(target, rates, most) == ~Less(target, PlusSum(KeptBy(rates, most), DOMAIN rates))

\* The rates that follow from the shares keep to the target, whichever
\* signatures they are for.
LEMMA SharesKeepTarget ==
  ASSUME NEW tps, IsFiniteSet(DOMAIN tps), DOMAIN tps # {},
         NEW most, \A g \in DOMAIN tps : most[g] \in Nat /\ tps[g] = Frac(most[g], BucketDuration),
         NEW T1 \in Pos, NEW T2 \in Pos, NEW z, RatesOk(z),
         NEW share, share = ComputeTpsPerSig(<<T1, T2>>, tps),
         NEW rates, DOMAIN rates \subseteq DOMAIN tps,
         \A x \in DOMAIN rates : rates[x] = NewRate(z, x, share, tps[x])
  PROVE  /\ \A x \in DOMAIN rates : IsFrac(rates[x])
         /\ WithinTarget(<<T1, T2>>, rates, most)
<1>0. PICK d \in Pos : d = BucketDuration
  BY ErrorSamplerAssumption DEF Pos
<1>1. PICK sorted, w, g, k, n : Sharing(<<T1, T2>>, tps, most, sorted, w, g, k, n)
  BY TpsShared
<1>2. PICK D : D = DOMAIN tps
  OBVIOUS
<1>3. PICK A : A = DOMAIN rates
  OBVIOUS
<1>4. IsFiniteSet(A) /\ A \subseteq D
  BY <1>2, <1>3, FS_Subset
<1>5. n \in Pos /\ n \in Nat /\ k \in 0 .. (n - 1)
  BY <1>1 DEF Sharing, Pos
<1>6. PICK m \in Pos : m = n - k
  BY <1>5 DEF Pos
<1>7. PICK U \in Pos : U = T2 * d
  BY TimesPos
<1>8. <<T1, T2>>[1] = T1 /\ <<T1, T2>>[2] = T2
  OBVIOUS
<1>9. PICK E \in Nat : E = T1 * d - g[k] /\ Ratio(share, E, U * m)
  BY <1>0, <1>1, <1>6, <1>7, <1>8 DEF Sharing
<1>10. Len(w) = n /\ Totals(w, g) /\ \A i \in 1 .. n : w[i] \in Nat /\ w[i] = most[sorted[i]] * T2
  BY <1>1, <1>8 DEF Sharing
<1>11. \A x \in D : \E i \in 1 .. n : sorted[i] = x
  BY <1>1, <1>2 DEF Sharing, HasAll
<1>12. PICK place : place = [x \in D |-> CHOOSE i \in 1 .. n : sorted[i] = x]
  OBVIOUS
<1>13. \A x \in A : place[x] \in 1 .. n /\ sorted[place[x]] = x
  BY <1>4, <1>11, <1>12
<1>14. PICK t : t = [x \in A |-> IF place[x] <= k THEN w[place[x]] * m ELSE E]
  OBVIOUS
<1>15. \A x \in A : t[x] = IF place[x] <= k THEN w[place[x]] * m ELSE E
  BY <1>14
<1>16. PICK kept : kept = KeptBy(rates, most)
  OBVIOUS
<1>17. PICK v \in Pos : v = U * m
  BY TimesPos
<1>18. ASSUME NEW x \in A
       PROVE  IsFrac(rates[x]) /\ t[x] \in Nat /\ AtMost(kept[x], t[x], v)
  <2>1. PICK c \in Nat : c = most[x] /\ tps[x] = Frac(c, d)
    BY <1>0, <1>2, <1>4
  <2>2. Ratio(tps[x], c * T2, U) /\ c * T2 \in Nat
    BY <1>7, <2>1, TpsRatio DEF Pos
  <2>3. rates[x] = NewRate(z, x, share, tps[x])
    BY <1>3
  <2>4. /\ IsFrac(rates[x])
        /\ AtMost(Times2(rates[x], tps[x]), E, U * m)
        /\ AtMost(Times2(rates[x], tps[x]), (c * T2) * m, U * m)
    <3>1. PICK a \in Nat : a = c * T2
      BY <2>2
    <3>2. \A y \in DOMAIN z.rates : IsFrac(z.rates[y])
      BY DEF RatesOk
    <3>3. PICK o, r : o = tps[x] /\ r = rates[x]
      OBVIOUS
    <3>4. IsFrac(r) /\ AtMost(Times2(r, o), E, U * m) /\ AtMost(Times2(r, o), a * m, U * m)
      <4>1. r = NewRate(z, x, share, o) /\ Ratio(o, a, U) /\ Ratio(share, E, U * m)
        BY <1>9, <2>2, <2>3, <3>1, <3>3
      <4> QED
        BY <3>2, <4>1, SignatureKept
    <3> QED
      BY <3>1, <3>3, <3>4
  <2>5. kept[x] = Times2(rates[x], tps[x])
    BY <1>0, <1>3, <1>16, <2>1 DEF KeptBy
  <2>6. PICK i \in 1 .. n : i = place[x] /\ sorted[i] = x
    BY <1>13
  <2>7. w[i] = c * T2
    BY <1>10, <2>1, <2>6
  <2>8. (c * T2) * m \in Nat
    BY <2>2 DEF Pos
  <2>9. t[x] = E \/ t[x] = (c * T2) * m
    BY <1>15, <2>6, <2>7
  <2>10. AtMost(kept[x], E, v) /\ AtMost(kept[x], (c * T2) * m, v)
    BY <1>17, <2>4, <2>5
  <2>11. CASE t[x] = E
    BY <2>4, <2>10, <2>11
  <2>12. CASE t[x] = (c * T2) * m
    BY <2>4, <2>8, <2>10, <2>12, Zenon
  <2> QED
    BY <2>9, <2>11, <2>12
<1>19. AtMost(PlusSum(kept, A), SumFunctionOnSet(t, A), v)
  BY <1>4, <1>18, PlusSumAtMost
<1>20. m \in Nat
  BY DEF Pos
<1>21. SumFunctionOnSet(t, A) <= m * g[k] + (n - k) * E
  <2>1. PlacedAt(A, sorted, place, n) /\ KeepsOf(A, t, place, w, k, m, E) /\ Weighs(w, n, g)
    BY <1>10, <1>13, <1>15 DEF PlacedAt, KeepsOf, Weighs
  <2> QED
    BY <1>4, <1>5, <1>20, <2>1, PlacesKeep
<1>22. SumFunctionOnSet(t, A) \in Nat
  BY <1>4, <1>18, SumNatural
<1>23. PICK G \in Nat : G = g[k]
  <2>1. \A j \in 0 .. n : g[j] \in Nat
    BY <1>5, <1>10, TotalsGrow
  <2>2. k \in 0 .. n
    BY <1>5
  <2> QED
    BY <2>1, <2>2
<1>24. m * G + m * E = m * (T1 * d)
  <2>1. E = T1 * d - G /\ T1 * d \in Int
    BY <1>9, <1>23 DEF Pos
  <2>2. G + E = T1 * d
    BY <2>1
  <2>3. m * G + m * E = m * (G + E)
    BY <1>20
  <2> QED
    BY <2>2, <2>3
<1>25. SumFunctionOnSet(t, A) <= m * (T1 * d)
  <2>1. SumFunctionOnSet(t, A) <= m * G + m * E
    BY <1>6, <1>21, <1>23
  <2> QED
    BY <1>24, <2>1
<1>26. PICK e \in Nat : e = SumFunctionOnSet(t, A)
  BY <1>22
<1>27. ~Less(<<T1, T2>>, PlusSum(kept, A))
  BY <1>7, <1>17, <1>19, <1>25, <1>26, InTarget
<1> QED
  BY <1>3, <1>16, <1>18, <1>27 DEF WithinTarget

\* What a rotation sees of each signature.
PeaksOf(s, new) == [g \in DOMAIN s.seen |-> ZeroAndGetMax(s.seen[g], s.last, new).max]

\* The rates after a rotation keep to the target.
LEMMA RotationKeepsTarget ==
  ASSUME NEW s, Counts(s), RatesOk(s), DOMAIN s.seen # {},
         NEW T1 \in Pos, NEW T2 \in Pos, NEW new \in Nat,
         NEW u, u = UpdateRates(s, <<T1, T2>>, new)
  PROVE  RatesOk(u) /\ WithinTarget(<<T1, T2>>, u.rates, PeaksOf(s, new))
<1>0. DOMAIN s = SamplerFields /\ s.last \in Nat /\ IsFiniteSet(DOMAIN s.seen)
  BY DEF Counts
<1> DEFINE tps == TpsOf(Rotated(s, new))
           share == ComputeTpsPerSig(<<T1, T2>>, tps)
           rate == RatesAt(s, tps, share)
           active == Active(rate, tps)
           most == PeaksOf(s, new)
<1>1. RatedTo(s, new, rate, active, u) /\ KeepsActive(s, new, active)
  BY <1>0, UpdateRatesIs
<1>2. DOMAIN tps = DOMAIN s.seen
  BY DEF TpsOf, Rotated
<1>3. ASSUME NEW g \in DOMAIN tps PROVE most[g] \in Nat /\ tps[g] = Frac(most[g], BucketDuration)
  <2>1. s.seen[g] \in BucketCounts
    BY <1>2 DEF Counts
  <2>2. PICK z : z = ZeroAndGetMax(s.seen[g], s.last, new)
    OBVIOUS
  <2>3. z.max \in Nat
    BY <1>0, <2>1, <2>2, Rotates
  <2>4. most[g] = z.max
    BY <1>2, <2>2 DEF PeaksOf
  <2>5. Rotated(s, new)[g] = z
    BY <1>2, <2>2 DEF Rotated
  <2>6. tps[g] = Frac(z.max, BucketDuration)
    <3>1. g \in DOMAIN Rotated(s, new)
      BY <1>2 DEF Rotated
    <3> QED
      BY <2>5, <3>1 DEF TpsOf
  <2> QED
    BY <2>3, <2>4, <2>6
<1>4. \A g \in DOMAIN tps : rate[g] = NewRate(s, g, share, tps[g])
  BY DEF RatesAt
<1>5. active \subseteq DOMAIN s.seen
  BY <1>1 DEF KeepsActive
<1> HIDE DEF tps, share, rate, active, most
<1>6. u.rates = [g \in active |-> rate[g]]
  BY <1>1 DEF RatedTo
<1>7. DOMAIN u.rates = active /\ \A g \in active : u.rates[g] = rate[g]
  BY <1>6
<1>8. \A g \in DOMAIN u.rates : u.rates[g] = NewRate(s, g, share, tps[g])
  BY <1>2, <1>4, <1>5, <1>7
<1>9. /\ \A g \in DOMAIN u.rates : IsFrac(u.rates[g])
      /\ WithinTarget(<<T1, T2>>, u.rates, most)
  <2>1. share = ComputeTpsPerSig(<<T1, T2>>, tps)
    BY DEF share
  <2>2. IsFiniteSet(DOMAIN tps) /\ DOMAIN tps # {} /\ DOMAIN u.rates \subseteq DOMAIN tps
    BY <1>0, <1>2, <1>5, <1>7
  <2>3. PICK r : r = u.rates
    OBVIOUS
  <2> QED
    BY <1>3, <1>8, <2>1, <2>2, <2>3, SharesKeepTarget
<1> QED
  BY <1>9 DEF RatesOk, most

-----------------------------------------------------------------------------
(* A payload: its traces are counted in one bucket, and the first of them  *)
(* may rotate.                                                             *)

\* Two samplers with the same counters and rates.
SameCounts(s, t) ==
  /\ DOMAIN s = SamplerFields /\ DOMAIN t = SamplerFields
  /\ t.seen = s.seen /\ t.all = s.all /\ t.last = s.last /\ t.rates = s.rates

\* A look at the size of the table changes the list only.
LEMMA ShrinkListCounts ==
  ASSUME NEW s, DOMAIN s = SamplerFields
  PROVE  SameCounts(s, ShrinkList(s))
<1>1. CASE TableSize(s) < FoldTo
  <2> DEFINE t == [s EXCEPT !.listed = FALSE, !.allow = {}]
  <2>1. ShrinkList(s) = t
    BY <1>1 DEF ShrinkList
  <2>2. SameCounts(s, t)
    BY DEF SameCounts, SamplerFields
  <2> QED
    BY <2>1, <2>2
<1>2. CASE ~(TableSize(s) < FoldTo) /\ s.listed
  BY <1>2 DEF ShrinkList, SameCounts
<1>3. CASE ~(TableSize(s) < FoldTo) /\ ~s.listed
  <2> DEFINE t == [s EXCEPT !.listed = TRUE, !.allow = DOMAIN s.rates]
  <2>1. ShrinkList(s) = t
    BY <1>3 DEF ShrinkList
  <2>2. SameCounts(s, t)
    BY DEF SameCounts, SamplerFields
  <2> QED
    BY <2>1, <2>2
<1> QED
  BY <1>1, <1>2, <1>3

LEMMA SameCountsKeep ==
  ASSUME NEW s, NEW t, SameCounts(s, t), Counts(s), RatesOk(s), NEW history, Covers(s, history),
         NEW new
  PROVE  Counts(t) /\ RatesOk(t) /\ Covers(t, history) /\ PeaksOf(t, new) = PeaksOf(s, new)
  BY DEF SameCounts, Counts, RatesOk, Covers, PeaksOf

\* The rates in the bucket of the next trace.
LEMMA InBucketRates ==
  ASSUME NEW s, Counts(s), RatesOk(s), NEW T1 \in Pos, NEW T2 \in Pos, NEW new \in Nat,
         NEW u, u = InBucket(s, <<T1, T2>>, new)
  PROVE  /\ RatesOk(u)
         /\ new = s.last \/ DOMAIN s.seen = {} => u.rates = s.rates
         /\ ~(new = s.last \/ DOMAIN s.seen = {})
              => WithinTarget(<<T1, T2>>, u.rates, PeaksOf(s, new))
<1>0. DOMAIN s = SamplerFields
  BY DEF Counts
<1>1. CASE new = s.last \/ DOMAIN s.seen = {}
  <2>1. u = [s EXCEPT !.last = new]
    BY <1>1 DEF InBucket, UpdateRates
  <2>2. u.rates = s.rates
    BY <1>0, <2>1 DEF SamplerFields
  <2> QED
    BY <1>1, <2>2 DEF RatesOk
<1>2. CASE ~(new = s.last \/ DOMAIN s.seen = {})
  <2>1. PICK t : t = UpdateRates(s, <<T1, T2>>, new)
    OBVIOUS
  <2>2. u = [t EXCEPT !.last = new]
    BY <1>2, <2>1 DEF InBucket
  <2>3. RatesOk(t) /\ WithinTarget(<<T1, T2>>, t.rates, PeaksOf(s, new))
    BY <1>2, <2>1, RotationKeepsTarget
  <2>4. DOMAIN t = SamplerFields
    BY <1>0, <1>2, <2>1, UpdateRatesIs DEF RatedTo
  <2>5. u.rates = t.rates
    BY <2>2, <2>4 DEF SamplerFields
  <2> QED
    BY <1>2, <2>3, <2>5 DEF RatesOk
<1> QED
  BY <1>1, <1>2

\* The history of weights.
HistoryOk(history) == \A b \in DOMAIN history : history[b] \in Nat

\* The history with W more in bucket b, if that is anything.
HistoryWith(history, b, W) == IF W = 0 THEN history ELSE MoreIn(history, b, W)

LEMMA HistoryGrows ==
  ASSUME NEW history, HistoryOk(history), NEW b, NEW W \in Nat, NEW n \in Pos
  PROVE  MoreIn(HistoryWith(history, b, W), b, n) = HistoryWith(history, b, W + n)
<1>0. W + n # 0 /\ n \in Nat
  BY DEF Pos
<1>1. CASE W = 0
  BY <1>0, <1>1 DEF HistoryWith
<1>2. CASE W # 0
  <2> DEFINE D == DOMAIN history \cup {b}
             h == MoreIn(history, b, W)
  <2>1. DOMAIN h = D /\ D \cup {b} = D
    BY DEF MoreIn
  <2>2. \A c \in D : WeighedIn(history, c) \in Nat
    BY DEF WeighedIn, HistoryOk
  <2>3. \A c \in D : h[c] = WeighedIn(history, c) + (IF c = b THEN W ELSE 0)
    BY DEF MoreIn
  <2> HIDE DEF h
  <2>4. \A c \in D : WeighedIn(h, c) = h[c]
    BY <2>1 DEF WeighedIn
  <2>5. ASSUME NEW c \in D
        PROVE  WeighedIn(h, c) + (IF c = b THEN n ELSE 0)
                 = WeighedIn(history, c) + (IF c = b THEN W + n ELSE 0)
    <3>1. PICK x \in Nat : x = WeighedIn(history, c)
      BY <2>2
    <3>2. WeighedIn(h, c) = x + (IF c = b THEN W ELSE 0)
      BY <2>3, <2>4, <3>1
    <3> QED
      BY <1>0, <3>1, <3>2
  <2>6. MoreIn(h, b, n) = [c \in D |-> WeighedIn(h, c) + (IF c = b THEN n ELSE 0)]
    BY <2>1 DEF MoreIn
  <2>7. MoreIn(history, b, W + n)
          = [c \in D |-> WeighedIn(history, c) + (IF c = b THEN W + n ELSE 0)]
    BY DEF MoreIn
  <2>8. MoreIn(h, b, n) = MoreIn(history, b, W + n)
    <3> HIDE DEF D
    <3> QED
      BY <2>5, <2>6, <2>7
  <2> QED
    BY <1>0, <1>2, <2>8 DEF HistoryWith, h
<1> QED
  BY <1>1, <1>2

\* The sampler u part-way through a payload that found it as s, with W counted in
\* bucket b so far.
Along(s, target, history, b, u, W) ==
  /\ Counts(u) /\ RatesOk(u)
  /\ Covers(u, HistoryWith(history, b, W))
  /\ W = 0 => u = s
  /\ W # 0 =>
       /\ u.last = b
       /\ b = s.last \/ DOMAIN s.seen = {} => u.rates = s.rates
       /\ ~(b = s.last \/ DOMAIN s.seen = {}) => WithinTarget(target, u.rates, PeaksOf(s, b))

\* A count leaves the bucket and the rates alone.
LEMMA AddToLeaves ==
  ASSUME NEW t, Counts(t), NEW sig, NEW i \in BucketIds, NEW n, NEW u, u = AddTo(t, sig, i, n)
  PROVE  u.last = t.last /\ u.rates = t.rates
<1> DEFINE a == [g \in DOMAIN t.seen \cup {sig} |->
                   IF g # sig THEN t.seen[g]
                   ELSE [j \in BucketIds |-> (IF sig \in DOMAIN t.seen THEN t.seen[sig][j] ELSE 0)
                                             + (IF j = i THEN n ELSE 0)]]
           b == [t.all EXCEPT ![i] = t.all[i] + n]
<1>1. DOMAIN t = SamplerFields /\ DOMAIN t.all = BucketIds
  BY DEF Counts, BucketCounts
<1>2. u = [t EXCEPT !.seen = a, !.all = b]
  BY <1>1 DEF AddTo, SamplerFields
<1> HIDE DEF a, b
<1> QED
  BY <1>1, <1>2 DEF SamplerFields

\* One trace is counted.
LEMMA ScoredGoesAlong ==
  ASSUME NEW s, NEW history, HistoryOk(history), NEW T1 \in Pos, NEW T2 \in Pos,
         NEW b \in Nat, s.last <= b,
         NEW u, NEW W \in Nat, Along(s, <<T1, T2>>, history, b, u, W), NEW sig, NEW n \in Pos,
         NEW x, x = AddTo(InBucket(ShrinkList(u), <<T1, T2>>, b), sig, b % NumBuckets, n)
  PROVE  Along(s, <<T1, T2>>, history, b, x, W + n)
<1>0. DOMAIN u = SamplerFields /\ n \in Nat /\ W + n # 0
  BY DEF Along, Counts, Pos
<1>1. PICK l : l = ShrinkList(u)
  OBVIOUS
<1>2. SameCounts(u, l)
  BY <1>0, <1>1, ShrinkListCounts
<1>3. PICK h : h = HistoryWith(history, b, W)
  OBVIOUS
<1>4. Counts(l) /\ RatesOk(l) /\ Covers(l, h) /\ PeaksOf(l, b) = PeaksOf(u, b)
  BY <1>2, <1>3, SameCountsKeep DEF Along
<1>5. l.last = u.last /\ l.rates = u.rates /\ l.seen = u.seen
  BY <1>2 DEF SameCounts
<1>6. l.last <= b
  BY <1>5 DEF Along
<1>7. PICK v : v = InBucket(l, <<T1, T2>>, b)
  OBVIOUS
<1>8. Counts(v) /\ Covers(v, h) /\ v.last = b
  BY <1>4, <1>6, <1>7, InBucketKeeps
<1>9. /\ RatesOk(v)
      /\ b = l.last \/ DOMAIN l.seen = {} => v.rates = l.rates
      /\ ~(b = l.last \/ DOMAIN l.seen = {}) => WithinTarget(<<T1, T2>>, v.rates, PeaksOf(l, b))
  BY <1>4, <1>7, InBucketRates
<1>10. x = AddTo(v, sig, v.last % NumBuckets, n)
  BY <1>1, <1>7, <1>8
<1>11. Counts(x) /\ Covers(x, MoreIn(h, b, n))
  BY <1>0, <1>8, <1>10, AddToKeeps
<1>12. x.last = b /\ x.rates = v.rates
  <2>1. PICK i \in BucketIds : i = v.last % NumBuckets
    BY <1>8, PlaceOf
  <2>2. x = AddTo(v, sig, i, n)
    BY <1>10, <2>1, Zenon
  <2>3. x.last = v.last /\ x.rates = v.rates
    BY <1>8, <2>1, <2>2, AddToLeaves
  <2> QED
    BY <1>8, <2>3
<1>13. MoreIn(h, b, n) = HistoryWith(history, b, W + n)
  BY <1>3, HistoryGrows
<1>14. RatesOk(x)
  BY <1>9, <1>12 DEF RatesOk
<1>15. /\ b = s.last \/ DOMAIN s.seen = {} => x.rates = s.rates
       /\ ~(b = s.last \/ DOMAIN s.seen = {}) => WithinTarget(<<T1, T2>>, x.rates, PeaksOf(s, b))
  <2>1. CASE W = 0
    <3>1. u = s
      BY <2>1 DEF Along
    <3> QED
      BY <1>4, <1>5, <1>9, <1>12, <3>1
  <2>2. CASE W # 0
    <3>1. u.last = b
      BY <2>2 DEF Along
    <3>2. x.rates = u.rates
      BY <1>5, <1>9, <1>12, <3>1
    <3> QED
      BY <2>2, <3>2 DEF Along
  <2> QED
    BY <2>1, <2>2
<1> QED
  BY <1>0, <1>11, <1>12, <1>13, <1>14, <1>15 DEF Along

\* A trace weighs something.
LEMMA WeighsSomething ==
  ASSUME NEW trace, trace.rate \in Int \X Int
  PROVE  WeightRoot(trace) \in Pos
<1>1. PICK a \in Int, b \in Int : trace.rate = <<a, b>>
  OBVIOUS
<1>2. CASE b = 0 \/ a <= 0 \/ a > b
  <2>1. ClientRate(trace) = <<1, 1>>
    BY <1>1, <1>2 DEF ClientRate, One
  <2>2. WeightRoot(trace) = 1 \div 1 /\ 1 \div 1 = 1
    BY <2>1 DEF WeightRoot
  <2> QED
    BY <2>2 DEF Pos
<1>3. CASE ~(b = 0 \/ a <= 0 \/ a > b)
  <2>1. ClientRate(trace) = <<a, b>>
    BY <1>1, <1>3 DEF ClientRate
  <2>2. WeightRoot(trace) = b \div a
    BY <2>1 DEF WeightRoot
  <2>3. a \in Nat \ {0} /\ b \in Nat /\ a <= b
    BY <1>3
  <2>4. a \div a <= b \div a /\ a \div a = 1 /\ b \div a \in Nat
    BY <2>3, DivGrows
  <2> QED
    BY <2>2, <2>4 DEF Pos
<1> QED
  BY <1>2, <1>3

LEMMA PromoteKeepsRate ==
  ASSUME NEW c, DOMAIN c = ChunkFields
  PROVE  Promote(c).rate = c.rate
<1> DEFINE made == {i \in DOMAIN c.spans : c.spans[i].dm # "none"}
           d == c.spans[Min(made)].dm
           q == [c EXCEPT !.dm = d]
<1>1. Promote(c) = c \/ Promote(c) = q
  BY DEF Promote
<1> HIDE DEF d
<1>2. q.rate = c.rate
  BY DEF ChunkFields
<1> HIDE DEF q
<1> QED
  BY <1>1, <1>2

\* One chunk of a payload.
LEMMA RescuedGoesAlong ==
  ASSUME NEW s, NEW history, HistoryOk(history), settings.target \in Int \X (Nat \ {0}),
         NEW at, NEW b \in Nat, b = at \div BucketDuration, s.last <= b,
         NEW a, NEW W \in Nat, Along(s, settings.target, history, b, a.s, W),
         NEW chunk, chunk.rate \in Int \X Int,
         NEW n, n = IF Scored(chunk) THEN WeightRoot(chunk) ELSE 0
  PROVE  n \in Nat /\ Along(s, settings.target, history, b, Rescued(a, settings, at, chunk).s, W + n)
<1>1. CASE ~Scored(chunk)
  <2>1. Rescued(a, settings, at, chunk).s = a.s
    <3>1. CASE Eligible(settings, chunk)
      <4>1. Rescued(a, settings, at, chunk).s = Sample(a.s, settings, at, chunk).s
        BY <3>1 DEF Rescued, Stamped
      <4>2. IsDisabled(settings) \/ settings.mode = "AlwaysKeep" \/ chunk.root \notin DOMAIN chunk.spans
        BY <1>1, <3>1 DEF Scored
      <4>3. Sample(a.s, settings, at, chunk).s = a.s
        BY <4>2 DEF Sample
      <4> QED
        BY <4>1, <4>3
    <3>2. CASE ~Eligible(settings, chunk)
      BY <3>2 DEF Rescued
    <3> QED
      BY <3>1, <3>2
  <2>2. n = 0 /\ W + 0 = W
    BY <1>1
  <2> QED
    BY <2>1, <2>2
<1>2. CASE Scored(chunk)
  <2>1. PICK T1 \in Int, T2 \in Nat \ {0} : settings.target = <<T1, T2>>
    OBVIOUS
  <2>2. T1 \in Pos /\ T2 \in Pos
    BY <1>2, <2>1 DEF Scored, IsDisabled, Pos
  <2>3. n \in Pos /\ n = WeightRoot(chunk)
    BY <1>2, WeighsSomething
  <2>4. PICK sig : sig = Shrink(ShrinkList(a.s), SignatureOf(chunk.spans, chunk.root))
    OBVIOUS
  <2>5. PICK x : x = AddTo(InBucket(ShrinkList(a.s), <<T1, T2>>, b), sig, b % NumBuckets, n)
    OBVIOUS
  <2>6. Along(s, <<T1, T2>>, history, b, x, W + n)
    BY <2>1, <2>2, <2>3, <2>5, ScoredGoesAlong
  <2>7. Rescued(a, settings, at, chunk).s = Sample(a.s, settings, at, chunk).s
    BY <1>2 DEF Rescued, Stamped, Scored
  <2>8. Sample(a.s, settings, at, chunk) = SampleAs(ShrinkList(a.s), settings, at, chunk, sig)
    BY <1>2, <2>4 DEF Sample, Scored
  <2>9. SampleAs(ShrinkList(a.s), settings, at, chunk, sig).s
          = CountWeightedSig(ShrinkList(a.s), settings.target, at, sig, n)
    BY <2>3 DEF SampleAs, Counted, Verdict
  <2>10. CountWeightedSig(ShrinkList(a.s), settings.target, at, sig, n) = x
    BY <2>1, <2>5 DEF CountWeightedSig
  <2>11. n \in Nat
    BY <2>3 DEF Pos
  <2> QED
    BY <2>1, <2>6, <2>7, <2>8, <2>9, <2>10, <2>11
<1> QED
  BY <1>1, <1>2

\* A whole payload.
LEMMA RescueGoesAlong ==
  ASSUME NEW s, Counts(s), RatesOk(s), NEW history, HistoryOk(history), Covers(s, history),
         settings.target \in Int \X (Nat \ {0}),
         NEW at, NEW b \in Nat, b = at \div BucketDuration, s.last <= b,
         NEW chunks, Len(chunks) \in Nat, DOMAIN chunks = 1 .. Len(chunks),
         \A i \in 1 .. Len(chunks) : chunks[i].rate \in Int \X Int,
         NEW W, W = Total(WeightsOf(chunks))
  PROVE  /\ W \in Nat
         /\ Along(s, settings.target, history, b, ApplyErrorRescue(s, settings, at, chunks).s, W)
         /\ W # 0 => \E i \in DOMAIN chunks : Scored(chunks[i])
<1> DEFINE N == Len(chunks)
<1>0. N \in Nat
  OBVIOUS
<1>1. PICK h : /\ ApplyErrorRescue(s, settings, at, chunks) = h[N]
               /\ RescueSteps(s, settings, at, chunks, N, h)
  BY RescueComputed
<1>2. PICK w : w = WeightsOf(chunks)
  OBVIOUS
<1>3. /\ Len(w) = N
      /\ \A i \in 1 .. N : w[i] = IF Scored(chunks[i]) THEN WeightRoot(chunks[i]) ELSE 0
  <2>1. w = [i \in 1 .. N |-> IF Scored(chunks[i]) THEN WeightRoot(chunks[i]) ELSE 0]
    BY <1>2 DEF WeightsOf
  <2> QED
    BY <1>0, <2>1
<1>4. \A i \in 1 .. N : chunks[i].rate \in Int \X Int
  OBVIOUS
<1>5. DOMAIN chunks = 1 .. N
  OBVIOUS
<1> HIDE DEF N
<1>6. PICK G : Totals(w, G)
  BY <1>0, <1>3, HasTotals
<1>7. W = G[N]
  BY <1>0, <1>2, <1>3, <1>6, TotalBy
<1> DEFINE OK(n) == /\ G[n] \in Nat
                    /\ Along(s, settings.target, history, b, h[n].s, G[n])
                    /\ G[n] # 0 => \E i \in 1 .. n : Scored(chunks[i])
           T == {n \in 0 .. N : OK(n)}
<1>8. 0 \in T
  <2>1. h[0] = [s |-> s, out |-> <<>>] /\ G[0] = 0
    BY <1>1, <1>6 DEF RescueSteps, Totals
  <2>2. h[0].s = s
    BY <2>1
  <2>3. Along(s, settings.target, history, b, s, 0)
    BY DEF Along, HistoryWith
  <2>4. OK(0)
    BY <2>1, <2>2, <2>3
  <2> HIDE DEF OK
  <2> QED
    BY <1>0, <2>4
<1>9. ASSUME NEW n \in 0 .. (N - 1), n \in T PROVE n + 1 \in T
  <2>1. n + 1 \in 1 .. N /\ n + 1 \in 0 .. N /\ (n + 1) - 1 = n /\ n \in Nat
    BY <1>0
  <2>2. PICK c, a, m : c = chunks[n+1] /\ a = h[n] /\ m = w[n+1]
    OBVIOUS
  <2>3. h[n+1] = Rescued(a, settings, at, c)
    BY <1>1, <2>1, <2>2 DEF RescueSteps
  <2>4. c.rate \in Int \X Int /\ m = IF Scored(c) THEN WeightRoot(c) ELSE 0
    BY <1>3, <1>4, <2>1, <2>2
  <2>5. PICK V \in Nat : V = G[n] /\ Along(s, settings.target, history, b, a.s, V)
    BY <1>9, <2>2
  <2>6. G[n+1] = V + m
    BY <1>3, <1>6, <2>1, <2>2, <2>5 DEF Totals
  <2>7. m \in Nat /\ Along(s, settings.target, history, b, Rescued(a, settings, at, c).s, V + m)
    BY <2>4, <2>5, RescuedGoesAlong
  <2>8. G[n+1] # 0 => \E i \in 1 .. (n + 1) : Scored(chunks[i])
    <3>1. CASE Scored(c)
      <4>1. n + 1 \in 1 .. (n + 1)
        BY <2>1
      <4> QED
        BY <2>2, <3>1, <4>1
    <3>2. CASE ~Scored(c)
      <4>1. m = 0 /\ V + 0 = V
        BY <2>4, <3>2
      <4>2. V # 0 => \E i \in 1 .. n : Scored(chunks[i])
        BY <1>9, <2>5
      <4>3. \A i \in 1 .. n : i \in 1 .. (n + 1)
        BY <2>1
      <4> QED
        BY <2>6, <4>1, <4>2, <4>3
    <3> QED
      BY <3>1, <3>2
  <2>9. OK(n + 1)
    <3>1. V + m \in Nat
      BY <2>7
    <3> QED
      BY <2>3, <2>6, <2>7, <2>8, <3>1
  <2> HIDE DEF OK
  <2> QED
    BY <2>1, <2>9
<1>10. N \in T
  <2> HIDE DEF T
  <2>1. \A n \in 0 .. N : n \in T
    BY <1>0, <1>8, <1>9, CountUp
  <2> QED
    BY <1>0, <2>1
<1>11. OK(N)
  BY <1>10
<1> QED
  BY <1>1, <1>5, <1>7, <1>11

-----------------------------------------------------------------------------
(* The invariant of the window and the budget.                             *)

\* The sampler is not ahead of the last timestamp.
ClockHeld ==
  \/ floor = -1 /\ sampler.last = 0
  \/ floor \in Nat /\ sampler.last <= floor \div BucketDuration

BudgetInv ==
  /\ settings \in Configs
  /\ DOMAIN sampler.rates \subseteq DOMAIN sampler.seen
  /\ Counts(sampler) /\ RatesOk(sampler)
  /\ HistoryOk(counted) /\ Covers(sampler, counted)
  /\ ClockHeld
  /\ WithinBudget

\* WithinBudget in the terms used here.
LEMMA WithinBudgetIs ==
  WithinBudget <=> \/ PlusSum(KeptBy(sampler.rates, peaks), DOMAIN sampler.rates) = Zero
                   \/ WithinTarget(settings.target, sampler.rates, peaks)
  BY Zenon DEF WithinBudget, PlusSum, KeptBy, WithinTarget

LEMMA NothingKept ==
  ASSUME NEW rates, DOMAIN rates = {}, NEW most
  PROVE  PlusSum(KeptBy(rates, most), DOMAIN rates) = Zero
  BY FS_EmptySet, PlusSumUnfolds DEF PlusUnfolds

\* A new sampler has counted nothing.
LEMMA BudgetInvInit == ASSUME SamplerInit PROVE BudgetInv
<1>1. /\ settings \in Configs /\ sampler = NewSampler /\ floor = -1
      /\ counted = <<>>
  BY DEF SamplerInit
<1>2. /\ DOMAIN NewSampler = SamplerFields /\ DOMAIN NewSampler.seen = {}
      /\ DOMAIN NewSampler.rates = {} /\ NewSampler.last = 0 /\ NewSampler.all = NoCounts
  BY DEF NewSampler, SamplerFields
<1>3. NoCounts \in BucketCounts /\ \A j \in BucketIds : NoCounts[j] = 0
  BY DEF NoCounts, BucketCounts
<1>4. Counts(sampler)
  <2>1. \A j \in BucketIds : Column(sampler.seen, j) = 0
    BY <1>1, <1>2, NoColumn
  <2>2. IsFiniteSet(DOMAIN sampler.seen)
    BY <1>1, <1>2, FS_EmptySet
  <2> QED
    BY <1>1, <1>2, <1>3, <2>1, <2>2 DEF Counts
<1>5. DOMAIN counted = {}
  BY <1>1
<1>6. NumBuckets \in Nat
  BY ErrorSamplerAssumption
<1>7. \A b \in (sampler.last - NumBuckets + 1) .. sampler.last :
        sampler.all[b % NumBuckets] = WeighedIn(counted, b)
  <2> TAKE b \in (sampler.last - NumBuckets + 1) .. sampler.last
  <2>1. b \in Int
    BY <1>1, <1>2, <1>6
  <2>2. b % NumBuckets \in BucketIds
    BY <2>1, PlaceOf
  <2> QED
    BY <1>1, <1>2, <1>3, <1>5, <2>2 DEF WeighedIn
<1>8. HistoryOk(counted) /\ Covers(sampler, counted)
  BY <1>5, <1>7 DEF HistoryOk, Covers
<1>9. RatesOk(sampler)
  BY <1>1, <1>2 DEF RatesOk
<1>10. ClockHeld
  BY <1>1, <1>2 DEF ClockHeld
<1>11. DOMAIN sampler.rates = {} /\ DOMAIN sampler.rates \subseteq DOMAIN sampler.seen
  BY <1>1, <1>2
<1>12. WithinBudget
  BY <1>11, NothingKept, WithinBudgetIs
<1> QED
  BY <1>1, <1>4, <1>8, <1>9, <1>10, <1>11, <1>12 DEF BudgetInv

\* The clock as the sampler reads it does not go back.
LEMMA ClampHolds ==
  ASSUME ClockHeld, sampler.last \in Nat, NEW reading \in Nat, NEW at, at = ClampTimestamp(reading),
         NEW b, b = at \div BucketDuration
  PROVE  /\ at \in Nat /\ b \in Nat /\ sampler.last <= b
<1>1. BucketDuration \in Nat \ {0}
  BY ErrorSamplerAssumption
<1>2. CASE floor = -1 /\ sampler.last = 0
  <2>1. at = reading
    BY <1>2 DEF ClampTimestamp
  <2>2. b \in Nat
    BY <1>1, <2>1, DivGrows
  <2> QED
    BY <1>2, <2>1, <2>2
<1>3. CASE floor \in Nat /\ sampler.last <= floor \div BucketDuration
  <2>1. at \in Nat /\ floor <= at
    BY <1>3 DEF ClampTimestamp
  <2>2. floor \div BucketDuration <= b /\ b \in Nat /\ floor \div BucketDuration \in Nat
    BY <1>1, <1>3, <2>1, DivGrows
  <2> QED
    BY <1>3, <2>1, <2>2
<1> QED
  BY <1>2, <1>3 DEF ClockHeld

\* What a payload does to the window, the rates and the history.
LEMMA PayloadKeepsBudget ==
  ASSUME BudgetInv, NEW chunks, Len(chunks) \in Nat, DOMAIN chunks = 1 .. Len(chunks),
         \A i \in 1 .. Len(chunks) : chunks[i].rate \in Int \X Int,
         NEW reading \in ClockReadings, NEW at, at = ClampTimestamp(reading),
         RescueIn(chunks, at), settings' = settings,
         (DOMAIN sampler.rates \subseteq DOMAIN sampler.seen)'
  PROVE  BudgetInv'
<1> DEFINE W == Total(WeightsOf(chunks))
           b == at \div BucketDuration
           r == ApplyErrorRescue(sampler, settings, at, chunks)
<1>0. /\ settings \in Configs /\ Counts(sampler) /\ RatesOk(sampler)
      /\ HistoryOk(counted) /\ Covers(sampler, counted) /\ ClockHeld /\ WithinBudget
      /\ DOMAIN sampler.rates \subseteq DOMAIN sampler.seen
  BY DEF BudgetInv
<1>1. reading \in Nat /\ settings.target \in Int \X (Nat \ {0}) /\ BucketDuration \in Nat \ {0}
  BY <1>0, ErrorSamplerAssumption
<1>2. sampler.last \in Nat
  BY <1>0 DEF Counts
<1>3. at \in Nat /\ b \in Nat /\ sampler.last <= b
  BY <1>0, <1>1, <1>2, ClampHolds
<1>4. /\ W \in Nat
      /\ Along(sampler, settings.target, counted, b, r.s, W)
      /\ W # 0 => \E i \in DOMAIN chunks : Scored(chunks[i])
  <2>1. PICK d \in Nat : d = at \div BucketDuration
    BY <1>3
  <2>2. PICK V : V = Total(WeightsOf(chunks))
    OBVIOUS
  <2>3. /\ V \in Nat
        /\ Along(sampler, settings.target, counted, d, ApplyErrorRescue(sampler, settings, at, chunks).s, V)
        /\ V # 0 => \E i \in DOMAIN chunks : Scored(chunks[i])
    BY <1>0, <1>1, <1>3, <2>1, <2>2, RescueGoesAlong
  <2> QED
    BY <2>1, <2>2, <2>3
<1>5. /\ sampler' = r.s
      /\ counted' = IF W = 0 THEN counted ELSE CountedIn(b, W)
      /\ peaks' = IF r.s.last = sampler.last THEN peaks ELSE PeaksAt(r.s.last)
      /\ floor' = IF IsDisabled(settings) \/ ~\E i \in DOMAIN chunks : Eligible(settings, chunks[i])
                  THEN floor ELSE at
  BY DEF RescueIn, Processed
<1> HIDE DEF W, b, r
<1>6. counted' = HistoryWith(counted, b, W)
  BY <1>5 DEF HistoryWith, CountedIn, MoreIn, WeighedIn
<1>7. (Counts(sampler) /\ RatesOk(sampler))'
  BY <1>4, <1>5 DEF Along
<1>8. Covers(sampler, counted)'
  BY <1>4, <1>5, <1>6 DEF Along
<1>9. HistoryOk(counted)'
  <2>1. CASE W = 0
    BY <1>0, <1>5, <2>1 DEF HistoryOk
  <2>2. CASE W # 0
    <3>1. counted' = MoreIn(counted, b, W)
      BY <1>6, <2>2 DEF HistoryWith
    <3>2. \A c \in DOMAIN counted \cup {b} : WeighedIn(counted, c) \in Nat
      BY <1>0 DEF WeighedIn, HistoryOk
    <3> QED
      BY <1>4, <3>1, <3>2 DEF MoreIn, HistoryOk
  <2> QED
    BY <2>1, <2>2
<1>10. ClockHeld'
  <2>1. CASE W = 0
    <3>1. sampler' = sampler
      BY <1>4, <1>5, <2>1 DEF Along
    <3>2. floor' = floor \/ floor' = at
      BY <1>5
    <3> QED
      BY <1>0, <1>3, <3>1, <3>2 DEF ClockHeld, b
  <2>2. CASE W # 0
    <3>1. sampler'.last = b
      BY <1>4, <1>5, <2>2 DEF Along
    <3>2. floor' = at
      BY <1>4, <1>5, <2>2 DEF Scored
    <3>3. b <= b
      BY <1>3
    <3> QED
      BY <1>3, <3>1, <3>2, <3>3 DEF ClockHeld, b
  <2> QED
    BY <2>1, <2>2
<1>11. WithinBudget'
  <2>1. CASE sampler'.rates = sampler.rates /\ peaks' = peaks
    <3>1. \/ PlusSum(KeptBy(sampler.rates, peaks), DOMAIN sampler.rates) = Zero
          \/ WithinTarget(settings.target, sampler.rates, peaks)
      BY <1>0, WithinBudgetIs
    <3> QED
      BY <2>1, <3>1 DEF WithinBudget, PlusSum, KeptBy, WithinTarget
  <2>2. CASE W = 0
    <3>1. sampler' = sampler
      BY <1>4, <1>5, <2>2 DEF Along
    <3>2. peaks' = peaks
      BY <1>5, <3>1
    <3> QED
      BY <2>1, <3>1, <3>2
  <2>3. CASE W # 0 /\ b = sampler.last
    <3>1. sampler'.last = b /\ sampler'.rates = sampler.rates
      BY <1>4, <1>5, <2>3 DEF Along
    <3>2. peaks' = peaks
      BY <1>5, <2>3, <3>1
    <3> QED
      BY <2>1, <3>1, <3>2
  <2>4. CASE W # 0 /\ DOMAIN sampler.seen = {}
    <3>1. sampler'.rates = sampler.rates
      BY <1>4, <1>5, <2>4 DEF Along
    <3>2. DOMAIN sampler'.rates = {}
      BY <1>0, <2>4, <3>1
    <3>3. PlusSum(KeptBy(sampler'.rates, peaks'), DOMAIN sampler'.rates) = Zero
      BY <3>2, NothingKept
    <3> QED
      BY <3>3 DEF WithinBudget, PlusSum, KeptBy
  <2>5. CASE W # 0 /\ ~(b = sampler.last \/ DOMAIN sampler.seen = {})
    <3>1. sampler'.last = b /\ WithinTarget(settings.target, sampler'.rates, PeaksOf(sampler, b))
      BY <1>4, <1>5, <2>5 DEF Along
    <3>2. peaks' = PeaksOf(sampler, b)
      BY <1>5, <2>5, <3>1 DEF PeaksAt, PeaksOf
    <3>3. WithinTarget(settings.target, sampler'.rates, peaks')
      BY <3>1, <3>2
    <3> QED
      BY <3>3 DEF WithinBudget, PlusSum, KeptBy, WithinTarget
  <2> QED
    BY <2>2, <2>3, <2>4, <2>5
<1>12. (settings \in Configs)'
  BY <1>0
<1> QED
  BY <1>7, <1>8, <1>9, <1>10, <1>11, <1>12 DEF BudgetInv

\* Every payload keeps the invariant.
LEMMA BudgetInvStep ==
  ASSUME BudgetInv, SamplerInv', [SamplerNext]_samplerVars
  PROVE  BudgetInv'
<1>0. (DOMAIN sampler.rates \subseteq DOMAIN sampler.seen)'
  BY DEF SamplerInv, Folded
<1>1. ASSUME NEW p \in RescuePayloads, NEW reading \in ClockReadings, ProcessV07(p, reading)
      PROVE  BudgetInv'
  <2>1. PICK q : q = [i \in DOMAIN p |-> Promote(p[i])]
    OBVIOUS
  <2>2. PICK at : at = ClampTimestamp(reading)
    OBVIOUS
  <2>3. RescueIn(q, at) /\ settings' = settings
    BY <1>1, <2>1, <2>2 DEF ProcessV07
  <2>4. DOMAIN p = 1 .. Len(p) /\ Len(p) \in Nat
    BY ErrorSamplerAssumption
  <2>5. DOMAIN q = 1 .. Len(q) /\ Len(q) = Len(p) /\ \A i \in 1 .. Len(p) : q[i] = Promote(p[i])
    BY <2>1, <2>4
  <2>6. ASSUME NEW i \in 1 .. Len(q) PROVE q[i].rate \in Int \X Int
    <3>1. DOMAIN p[i] = ChunkFields /\ p[i].rate \in Int \X Int
      BY <2>4, <2>5, ErrorSamplerAssumption DEF ChunkFields
    <3> QED
      BY <2>5, <3>1, PromoteKeepsRate
  <2> QED
    BY <1>0, <2>2, <2>3, <2>4, <2>5, <2>6, PayloadKeepsBudget
<1>2. CASE ProcessOther
  <2>1. UNCHANGED <<settings, sampler, floor, counted, peaks>>
    BY <1>2 DEF ProcessOther
  <2> QED
    BY <1>0, <2>1 DEF BudgetInv, ClockHeld, WithinBudget
<1>3. CASE UNCHANGED samplerVars
  <2>1. UNCHANGED <<settings, sampler, floor, counted, peaks>>
    BY <1>3 DEF samplerVars
  <2> QED
    BY <1>0, <2>1 DEF BudgetInv, ClockHeld, WithinBudget
<1> QED
  BY <1>1, <1>2, <1>3 DEF SamplerNext

\* The counters of the window.
LEMMA InvWindow == ASSUME BudgetInv PROVE WindowExact
<1>0. Counts(sampler) /\ Covers(sampler, counted)
  BY DEF BudgetInv
<1>1. ASSUME NEW b \in LiveBuckets \cap Nat
      PROVE  /\ sampler.all[b % NumBuckets] = IF b \in DOMAIN counted THEN counted[b] ELSE 0
             /\ sampler.all[b % NumBuckets] = Column(sampler.seen, b % NumBuckets)
  <2>1. b \in (sampler.last - NumBuckets + 1) .. sampler.last /\ b \in Int
    BY DEF LiveBuckets
  <2>2. b % NumBuckets \in BucketIds
    BY <2>1, PlaceOf
  <2> QED
    BY <1>0, <2>1, <2>2 DEF Counts, Covers, WeighedIn
<1> QED
  BY <1>1 DEF WindowExact, Column

\* Whatever the payloads, the settings and the jumps of the clock: the counters
\* hold exactly what the traces of the last NumBuckets buckets weighed, the rates
\* keep at most the target of what the last rotation saw, and the signatures
\* stored are bounded (score_sampler.rs, count_weighted_sig, update_rates,
\* compute_tps_per_sig and shrink).
THEOREM SamplerAlwaysKeepsBudget == SamplerSpec => []SamplerKeepsBudget
<1>1. SamplerInit => SamplerInv /\ BudgetInv
  BY SamplerInvInit, BudgetInvInit
<1>2. SamplerInv /\ [SamplerNext]_samplerVars => SamplerInv'
  BY SamplerInvStep
<1>3. BudgetInv /\ SamplerInv' /\ [SamplerNext]_samplerVars => BudgetInv'
  BY BudgetInvStep
<1>4. SamplerInv /\ BudgetInv => SamplerKeepsBudget
  <2>1. SamplerInv => CardinalityBounded
    BY InvBounded
  <2>2. BudgetInv => WindowExact /\ WithinBudget
    BY InvWindow DEF BudgetInv
  <2> QED
    BY <2>1, <2>2 DEF SamplerKeepsBudget
<1> QED
  BY <1>1, <1>2, <1>3, <1>4, PTL DEF SamplerSpec

-----------------------------------------------------------------------------
(* The agent's configuration: datadog.yaml and the environment are merged  *)
(* field by field over the defaults, and a value that cannot be read costs *)
(* its field alone unless it is one of those that fail the whole           *)
(* environment.                                                            *)

\* A raw value whose text is none of the marks.
Plain(raw) == raw[2] \notin {None, Empty, Fail}

\* Which values fail the general part of the environment (env.rs),
LEMMA EnvCoreFails ==
  ASSUME NEW f, NEW raw, Plain(raw)
  PROVE  EnvCore(f, raw) = Fail <=>
           \/ f = "proxy_no_proxy" /\ Type(raw) # "str"
           \/ f = "tags" /\ Type(raw) \in {"list", "map"}
  BY DEF EnvCore, LogLevel, CommaSeparated, AdditionalEndpoints, StringOrInt, KeyValuePairs,
         OptionalString, Plain, Type, Text, None, Empty, Fail

\* its parts on logs and traces,
LEMMA EnvLogsApmFails ==
  ASSUME NEW f, NEW raw, Plain(raw)
  PROVE  EnvLogsApm(f, raw) = Fail <=>
           /\ f \in {"apm_features", "apm_filter_tags_require", "apm_filter_tags_reject",
                     "apm_filter_tags_regex_require", "apm_filter_tags_regex_reject"}
           /\ Type(raw) # "str"
  BY DEF EnvLogsApm, ProcessingRules, LogsAdditionalEndpoints, ServiceMapping, ReplaceRules,
         CommaThenSpace, CommaSeparated, AdditionalEndpoints, FilterTags, PropagationStyle,
         OptionalString, Plain, Type, Text, None, Empty, Fail

\* and its part on OTLP.
LEMMA EnvOtlpFails ==
  ASSUME NEW f, NEW raw, Plain(raw)
  PROVE  EnvOtlp(f, raw) = Fail <=>
           f = "otlp_config_traces_span_name_remappings" /\ Type(raw) \in {"list", "map"}
  BY DEF EnvOtlp, KeyValuePairs, OptionalString, Plain, Type, Text, None, Empty, Fail

\* The values that fail the environment.
LEMMA EnvFails ==
  ASSUME NEW f, NEW raw, Plain(raw)
  PROVE  EnvParse(f, raw) = Fail <=> FailsAll(f, raw)
<1>1. OptionLossless(raw) # Fail /\ OptionalBool(raw) # Fail
  BY DEF OptionLossless, OptionalBool, Plain, Type, Text, None, Empty, Fail
<1> QED
  BY <1>1, EnvCoreFails, EnvLogsApmFails, EnvOtlpFails
     DEF EnvParse, FailsAll, Numbers, Bools, Otlp, LogsApm, OtlpOptions, OtlpValues,
         CompressionLevels, Values

\* A collection of the environment is never None,
LEMMA EnvCollections ==
  ASSUME NEW f \in Collections, NEW raw, Plain(raw)
  PROVE  EnvParse(f, raw) # None
<1>1. f \notin Numbers /\ f \notin Bools
  BY DEF Collections, Numbers, Bools, OtlpValues, CompressionLevels, Values
<1>2. CASE f \in Otlp
  <2>1. f = "otlp_config_traces_span_name_remappings"
    <3>1. f \notin OtlpOptions
      BY DEF Collections, OtlpOptions
    <3>2. f \notin OtlpValues
      BY DEF Collections, OtlpValues
    <3> QED
      BY <1>2, <3>1, <3>2 DEF Otlp
  <2>2. EnvOtlp(f, raw) # None
    BY <2>1 DEF EnvOtlp, KeyValuePairs, Plain, Type, Text, None, Empty, Fail
  <2>3. f \notin LogsApm
    BY <2>1 DEF LogsApm
  <2> QED
    BY <1>1, <1>2, <2>2, <2>3 DEF EnvParse
<1>3. CASE f \notin Otlp /\ f \in LogsApm
  <2>1. EnvLogsApm(f, raw) # None
    BY <1>3 DEF EnvLogsApm, LogsApm, Collections, LogsAdditionalEndpoints, ServiceMapping,
                CommaThenSpace, CommaSeparated, AdditionalEndpoints, PropagationStyle,
                Plain, Type, Text, None, Empty, Fail
  <2> QED
    BY <1>1, <1>3, <2>1 DEF EnvParse
<1>4. CASE f \notin Otlp /\ f \notin LogsApm
  <2>1. EnvCore(f, raw) # None
    BY <1>4 DEF EnvCore, LogsApm, Otlp, Collections, CommaSeparated, AdditionalEndpoints,
                KeyValuePairs, Plain, Type, Text, None, Empty, Fail
  <2> QED
    BY <1>1, <1>4, <2>1 DEF EnvParse
<1> QED
  BY <1>2, <1>3, <1>4

\* and of those of datadog.yaml only the proxy's list can be.
LEMMA YamlCollections ==
  ASSUME NEW f \in Collections, f # "proxy_no_proxy", NEW raw, Plain(raw)
  PROVE  YamlParse(f, raw) # None
<1>1. f \notin Numbers /\ f \notin Bools
  BY DEF Collections, Numbers, Bools, OtlpValues, CompressionLevels, Values
<1>2. CASE f \in Otlp
  <2>1. f = "otlp_config_traces_span_name_remappings"
    <3>1. f \notin OtlpOptions
      BY DEF Collections, OtlpOptions
    <3>2. f \notin OtlpValues
      BY DEF Collections, OtlpValues
    <3> QED
      BY <1>2, <3>1, <3>2 DEF Otlp
  <2>2. YamlOtlp(f, raw) # None
    BY <2>1 DEF YamlOtlp, WithDefault, Plain, Type, Text, None, Empty, Fail
  <2>3. f \notin InSections
    BY <2>1 DEF InSections
  <2> QED
    BY <1>1, <1>2, <2>2, <2>3 DEF YamlParse
<1>3. CASE f \notin Otlp /\ f \in InSections
  <2>1. YamlSection(f, raw) # None
    BY <1>3 DEF YamlSection, InSections, Collections, WithDefault, CommaThenSpaceOrList,
                AdditionalEndpoints, Plain, Type, Text, None, Empty, Fail
  <2> QED
    BY <1>1, <1>3, <2>1 DEF YamlParse
<1>4. CASE f \notin Otlp /\ f \notin InSections
  <2>1. YamlTop(f, raw) # None
    BY <1>4 DEF YamlTop, InSections, Otlp, Collections, AdditionalEndpoints, KeyValueArray,
                ServiceMapping, PropagationStyle, Plain, Type, Text, None, Empty, Fail
  <2> QED
    BY <1>1, <1>4, <2>1 DEF YamlParse
<1> QED
  BY <1>2, <1>3, <1>4

\* What a source says of a component's compression level.
Level(src, f) ==
  IF Says(src, f) THEN src[f]
  ELSE IF Says(src, "compression_level") THEN src["compression_level"] ELSE None

\* What becomes of the value v of a field when a source is merged into it.
Taken(v, src, f) ==
  IF f \in CompressionLevels THEN IF Level(src, f) # None THEN Level(src, f) ELSE v
  ELSE IF Says(src, f) THEN src[f] ELSE v

\* No collection is None.
Collected(src) == \A f \in DOMAIN src : f \in Collections => src[f] # None

\* The fields of the general rule: a bad metric namespace unsets its field.
Named == Fields \ {"statsd_metric_namespace"}

\* The merge macros all take what the source says, and only that.
LEMMA MergeTakes ==
  ASSUME NEW c, NEW src, NEW f \in Named, f \in Collections /\ f \in DOMAIN src => src[f] # None
  PROVE  MergeField(c, src, f) = Taken(c[f], src, f)
<1>0. f # "statsd_metric_namespace" /\ f \in Fields
  BY DEF Named
<1>1. CASE f \in CompressionLevels
  <2>1. f \notin Collections /\ "compression_level" \notin Collections
    BY <1>1 DEF CompressionLevels, Collections
  <2> QED
    BY <1>1, <2>1 DEF MergeField, MergeLevel, MergeOptionToValue, Taken, Level, Says
<1>2. CASE f \notin CompressionLevels /\ f \notin DOMAIN src
  BY <1>2 DEF MergeField, Taken, Says
<1>3. CASE f \notin CompressionLevels /\ f \in DOMAIN src
  <2> DEFINE v == src[f]
             o == c[f]
  <2>1. MergeField(c, src, f) =
          CASE f \in Strings -> MergeString(o, v)
            [] f = "statsd_metric_namespace" -> MergeNamespace(o, v)
            [] f \in Values \cup OtlpValues -> MergeOptionToValue(o, v)
            [] f \in Vecs -> MergeVec(o, v)
            [] f \in Collections \ Vecs -> MergeHashmap(o, v)
            [] OTHER -> MergeOption(o, v)
    BY <1>3 DEF MergeField
  <2>2. Vecs \subseteq Collections
    BY DEF Vecs, Collections
  <2>3. CASE f \in Collections
    <3>1. f \notin Strings /\ f \notin Values \cup OtlpValues
      BY <2>3 DEF Collections, Strings, Values, OtlpValues, CompressionLevels
    <3>2. MergeField(c, src, f) = IF v = Empty THEN o ELSE v
      BY <1>0, <2>1, <2>3, <3>1 DEF MergeVec, MergeHashmap
    <3> QED
      BY <1>3, <2>3, <3>2 DEF Taken, Says
  <2>4. CASE f \notin Collections
    <3>1. MergeField(c, src, f) = IF v = None THEN o ELSE v
      BY <1>0, <2>1, <2>2, <2>4 DEF MergeString, MergeOptionToValue, MergeOption
    <3> QED
      BY <1>3, <2>4, <3>1 DEF Taken, Says
  <2> QED
    BY <2>3, <2>4
<1> QED
  BY <1>1, <1>2, <1>3

\* All that the sources say is plain,
PlainInput ==
  /\ \A f \in DOMAIN input.yaml : Plain(input.yaml[f])
  /\ \A f \in DOMAIN input.dd : Plain(input.dd[f])
  /\ \A f \in DOMAIN input.datadog : Plain(input.datadog[f])

\* the environment as a whole, too.
LEMMA EnvPlain ==
  ASSUME PlainInput
  PROVE  \A f \in DOMAIN EnvRaw : Plain(EnvRaw[f])
  BY DEF PlainInput, EnvRaw

\* The environment fails as a whole over these values and no others.
LEMMA EnvFailsAll ==
  ASSUME PlainInput
  PROVE  Fail \in Range(EnvParsed) <=> \E f \in DOMAIN EnvRaw : FailsAll(f, EnvRaw[f])
<1>1. Range(EnvParsed) = {EnvParse(f, EnvRaw[f]) : f \in DOMAIN EnvRaw}
  BY DEF Range, EnvParsed
<1> QED
  BY <1>1, EnvPlain, EnvFails

\* The fields of Config, the extension's with them.
AllNamed == Fields \cup {"ext"}

\* What becomes of the extension.
Extended(old, value) == IF ExtSays(value) THEN value ELSE old

\* Merging the extension changes nothing else.
LEMMA ExtMerged ==
  ASSUME NEW c, DOMAIN c = AllNamed, NEW value
  PROVE  /\ DOMAIN MergeExt(c, value) = AllNamed
         /\ \A f \in Fields : MergeExt(c, value)[f] = c[f]
         /\ MergeExt(c, value)["ext"] = Extended(c["ext"], value)
<1>1. "ext" \notin Fields
  BY DEF Fields, Strings, Options, OtlpOptions, Values, OtlpValues, Collections, CompressionLevels
<1> QED
  BY <1>1 DEF MergeExt, Extended, ExtSays, AllNamed

\* Merging the environment takes what it says of each field,
LEMMA EnvMerged ==
  ASSUME NEW c, DOMAIN c = AllNamed, NEW src, Collected(src)
  PROVE  /\ DOMAIN EnvMerge(c, src) = AllNamed
         /\ \A f \in Named : EnvMerge(c, src)[f] = Taken(c[f], src, f)
         /\ EnvMerge(c, src)["ext"] = c["ext"]
<1>1. "ext" \notin Fields
  BY DEF Fields, Strings, Options, OtlpOptions, Values, OtlpValues, Collections, CompressionLevels
<1>2. \A f \in Named : f \in AllNamed /\ f # "ext"
  BY <1>1 DEF Named, AllNamed
<1>3. \A f \in Named : MergeField(c, src, f) = Taken(c[f], src, f)
  BY MergeTakes DEF Collected
<1> QED
  BY <1>2, <1>3 DEF EnvMerge, AllNamed

\* and merging datadog.yaml into the defaults does: that an empty list of the
\* proxy overrides would show only over a list, and the default is empty.
LEMMA YamlMerged ==
  ASSUME NEW src, \A f \in DOMAIN src : f \in Collections /\ f # "proxy_no_proxy" => src[f] # None
  PROVE  /\ DOMAIN YamlMerge(Default, src) = AllNamed
         /\ \A f \in Named : YamlMerge(Default, src)[f] = Taken(Default[f], src, f)
         /\ YamlMerge(Default, src)["ext"] = Default["ext"]
<1>0. PICK d : d = Default
  OBVIOUS
<1>1. "ext" \notin Fields /\ "proxy_no_proxy" \in Named
  BY DEF Named, Fields, Strings, Options, OtlpOptions, Values, OtlpValues, Collections, CompressionLevels
<1>2. DOMAIN d = AllNamed
  BY <1>0 DEF Default, AllNamed
<1>3. d["proxy_no_proxy"] = Empty
  BY <1>0, <1>1 DEF Default, Named, Fields, Strings, Options, OtlpOptions, Values, OtlpValues, Collections, CompressionLevels
<1>4. ASSUME NEW f \in Named PROVE YamlMerge(d, src)[f] = Taken(d[f], src, f)
  <2>1. f \in DOMAIN d /\ f # "ext"
    BY <1>1, <1>2 DEF Named, AllNamed
  <2>2. CASE f = "proxy_no_proxy" /\ f \in DOMAIN src
    <3>1. YamlMerge(d, src)[f] = MergeOptionToValue(d[f], src[f])
      BY <2>1, <2>2 DEF YamlMerge
    <3>2. f \in Collections /\ f \notin CompressionLevels
      BY <2>2 DEF Collections, CompressionLevels
    <3> QED
      BY <1>3, <2>2, <3>1, <3>2 DEF MergeOptionToValue, Taken, Says
  <2>3. CASE ~(f = "proxy_no_proxy" /\ f \in DOMAIN src)
    <3>1. YamlMerge(d, src)[f] = MergeField(d, src, f)
      BY <2>1, <2>3 DEF YamlMerge
    <3> QED
      BY <2>3, <3>1, MergeTakes
  <2> QED
    BY <2>2, <2>3
<1>5. DOMAIN YamlMerge(d, src) = AllNamed /\ YamlMerge(d, src)["ext"] = d["ext"]
  BY <1>2 DEF YamlMerge, AllNamed
<1> QED
  BY <1>0, <1>4, <1>5

\* The namespace is one of the options, and none at first,
LEMMA NamespaceNone ==
  /\ "statsd_metric_namespace" \in Fields
  /\ "statsd_metric_namespace" \notin
       CompressionLevels \cup Strings \cup Collections \cup Values \cup OtlpValues
  /\ DOMAIN Default = AllNamed
  /\ Default["statsd_metric_namespace"] = None
<1>1. "statsd_metric_namespace" \in Options
  BY DEF Options
<1>2. "statsd_metric_namespace" \notin
        CompressionLevels \cup Strings \cup Collections \cup Values \cup OtlpValues
  BY DEF CompressionLevels, Strings, Collections, Values, OtlpValues
<1>3. Default["statsd_metric_namespace"] = None
  BY <1>1, <1>2 DEF Default, Fields
<1>4. DOMAIN Default = AllNamed
  BY DEF Default, AllNamed
<1> QED
  BY <1>1, <1>2, <1>3, <1>4 DEF Fields

\* it is not in datadog.yaml, and it is unset when it is no namespace.
LEMMA YamlNamespace ==
  ASSUME NEW src, "statsd_metric_namespace" \notin DOMAIN src
  PROVE  YamlMerge(Default, src)["statsd_metric_namespace"] = None
<1>0. PICK d : d = Default
  OBVIOUS
<1>2. "statsd_metric_namespace" \in DOMAIN d /\ d["statsd_metric_namespace"] = None
  BY <1>0, NamespaceNone DEF AllNamed
<1>3. MergeField(d, src, "statsd_metric_namespace") = None
  BY <1>2, NamespaceNone DEF MergeField
<1> QED
  BY <1>0, <1>2, <1>3 DEF YamlMerge

LEMMA EnvNamespace ==
  ASSUME NEW c, DOMAIN c = AllNamed, c["statsd_metric_namespace"] = None, NEW src
  PROVE  EnvMerge(c, src)["statsd_metric_namespace"] =
           IF /\ Says(src, "statsd_metric_namespace")
              /\ src["statsd_metric_namespace"] \notin {Empty, "bad"}
           THEN src["statsd_metric_namespace"] ELSE None
<1>1. PICK ns : ns = "statsd_metric_namespace"
  OBVIOUS
<1>2. ns \in DOMAIN c /\ ns # "ext"
  <2>1. "ext" \notin Fields
    BY DEF Fields, Strings, Options, OtlpOptions, Values, OtlpValues, Collections, CompressionLevels
  <2> QED
    BY <1>1, <2>1, NamespaceNone DEF AllNamed
<1>3. EnvMerge(c, src)[ns] = MergeField(c, src, ns)
  BY <1>2 DEF EnvMerge
<1>4. MergeField(c, src, ns) = IF ns \notin DOMAIN src THEN c[ns] ELSE MergeNamespace(c[ns], src[ns])
  <2>1. ns \notin Vecs
    BY <1>1 DEF Vecs
  <2> QED
    BY <1>1, <2>1, NamespaceNone DEF MergeField
<1> QED
  BY <1>1, <1>3, <1>4, NamespaceNone DEF MergeNamespace, Says

\* What datadog.yaml makes of the defaults, and what the environment of that.
AfterYaml(f) == Taken(Default[f], FromYaml, f)
ExtAfterYaml == IF input.broken THEN Default["ext"] ELSE Extended(Default["ext"], input.extYaml)
AfterEnv(f) == Taken(AfterYaml(f), FromEnv, f)
ExtAfterEnv == IF EnvBroken THEN ExtAfterYaml ELSE Extended(ExtAfterYaml, input.extEnv)

\* Every field but the namespace has its value.
Merged(value(_), ext) ==
  /\ DOMAIN agentConfig = AllNamed
  /\ \A f \in Named : agentConfig[f] = value(f)
  /\ agentConfig["ext"] = ext

\* At every step of build the configuration is what the sources read so far make
\* of the defaults.
ConfigInv ==
  /\ building \in {"yaml", "env", "resolve", "done"}
  /\ PlainInput
  /\ building = "yaml" => agentConfig = Default /\ failedSources = {}
  /\ building = "env" =>
       /\ Merged(AfterYaml, ExtAfterYaml)
       /\ agentConfig["statsd_metric_namespace"] = None
       /\ failedSources = IF input.broken THEN {"yaml"} ELSE {}
  /\ building = "resolve" =>
       /\ Merged(AfterEnv, ExtAfterEnv)
       /\ agentConfig["statsd_metric_namespace"] = Namespace
       /\ failedSources = (IF input.broken THEN {"yaml"} ELSE {}) \cup
                          (IF EnvBroken THEN {"env"} ELSE {})
  /\ NoProxyHonoured

\* The sources start out plain,
LEMMA SayingsPlain ==
  ASSUME NEW F \in Groups, NEW s \in Sayings(F)
  PROVE  \A f \in DOMAIN s : Plain(s[f])
<1>1. DOMAIN s \subseteq F /\ \A f \in DOMAIN s : s[f] \in Raws(f)
  BY DEF Sayings
<1> QED
  BY <1>1, AgentConfigAssumption DEF Plain

\* under either prefix.
LEMMA LegacyPlain ==
  ASSUME NEW F \in Groups, NEW s \in Sayings(F \cap Legacy)
  PROVE  \A f \in DOMAIN s : Plain(s[f])
<1>1. DOMAIN s \subseteq F /\ \A f \in DOMAIN s : s[f] \in Raws(f)
  BY DEF Sayings
<1> QED
  BY <1>1, AgentConfigAssumption DEF Plain

\* The invariant holds at first,
LEMMA ConfigInitInv ==
  ConfigInit => ConfigInv
<1> SUFFICES ASSUME ConfigInit PROVE ConfigInv
  OBVIOUS
<1>1. PICK F \in Groups :
        \E y, e \in Sayings(F), d \in Sayings(F \cap Legacy), a \in Ambient(F) :
          input = [yaml |-> y, datadog |-> d, dd |-> e, broken |-> a.broken,
                   extYaml |-> a.extYaml, extEnv |-> a.extEnv,
                   httpsProxy |-> a.httpsProxy, noProxy |-> a.noProxy]
  BY DEF ConfigInit
<1>2. PICK y, e \in Sayings(F), d \in Sayings(F \cap Legacy), a \in Ambient(F) :
          input = [yaml |-> y, datadog |-> d, dd |-> e, broken |-> a.broken,
                   extYaml |-> a.extYaml, extEnv |-> a.extEnv,
                   httpsProxy |-> a.httpsProxy, noProxy |-> a.noProxy]
  BY <1>1
<1>3. input.yaml = y /\ input.dd = e /\ input.datadog = d
  BY <1>2
<1>4. PlainInput
  BY <1>3, SayingsPlain, LegacyPlain DEF PlainInput
<1> QED
  BY <1>4 DEF ConfigInit, ConfigInv, NoProxyHonoured

\* a source that is left out changes nothing,
LEMMA NothingTaken ==
  ASSUME NEW v, NEW f
  PROVE  Taken(v, <<>>, f) = v
  BY DEF Taken, Level, Says

\* datadog.yaml keeps the invariant,
LEMMA LoadYamlKeeps ==
  ASSUME ConfigInv, LoadYaml
  PROVE  ConfigInv'
<1> USE DEF LoadYaml
<1>1. input' = input /\ building' = "env" /\ building = "yaml" /\ agentConfig = Default /\ failedSources = {}
  BY DEF ConfigInv
<1>2. PlainInput /\ PlainInput'
  BY <1>1 DEF ConfigInv, PlainInput
<1>3. ExtAfterYaml' = ExtAfterYaml
  BY <1>1 DEF ExtAfterYaml
<1>4. \A f : AfterYaml(f)' = AfterYaml(f)
  BY <1>1 DEF AfterYaml, FromYaml, YamlParsed
<1>5. Merged(AfterYaml, ExtAfterYaml)'
  <2>1. CASE input.broken
    <3>1. agentConfig' = Default
      BY <1>1, <2>1
    <3>2. DOMAIN Default = AllNamed
      BY DEF Default, AllNamed
    <3>3. \A f : AfterYaml(f) = Default[f]
      BY <2>1, NothingTaken DEF AfterYaml, FromYaml
    <3> QED
      BY <1>3, <1>4, <2>1, <3>1, <3>2, <3>3 DEF Merged, ExtAfterYaml
  <2>2. CASE ~input.broken
    <3>1. PICK c : c = YamlMerge(Default, YamlParsed)
      OBVIOUS
    <3>2. \A f \in DOMAIN YamlParsed : f \in Collections /\ f # "proxy_no_proxy" => YamlParsed[f] # None
      BY <1>2, YamlCollections DEF YamlParsed, PlainInput
    <3>3. /\ DOMAIN c = AllNamed
          /\ \A f \in Named : c[f] = Taken(Default[f], YamlParsed, f)
          /\ c["ext"] = Default["ext"]
      BY <3>1, <3>2, YamlMerged
    <3>4. agentConfig' = MergeExt(c, input.extYaml)
      BY <1>1, <2>2, <3>1
    <3>5. Named \subseteq Fields
      BY DEF Named
    <3> QED
      BY <1>3, <1>4, <2>2, <3>3, <3>4, <3>5, ExtMerged DEF Merged, ExtAfterYaml, AfterYaml, FromYaml
  <2> QED
    BY <2>1, <2>2
<1>6. failedSources' = IF input'.broken THEN {"yaml"} ELSE {}
  BY <1>1
<1>7. agentConfig'["statsd_metric_namespace"] = None
  <2>1. "statsd_metric_namespace" \in Fields /\ "statsd_metric_namespace" \in NotInYaml
    BY DEF Fields, Options, NotInYaml
  <2>2. CASE input.broken
    <3>1. agentConfig' = Default
      BY <1>1, <2>2
    <3> QED
      BY <3>1, NamespaceNone
  <2>3. CASE ~input.broken
    <3>1. PICK c : c = YamlMerge(Default, YamlParsed)
      OBVIOUS
    <3>2. c["statsd_metric_namespace"] = None
      BY <2>1, <3>1, YamlNamespace DEF YamlParsed
    <3>3. DOMAIN c = AllNamed
      BY <3>1 DEF YamlMerge, Default, AllNamed
    <3>4. agentConfig' = MergeExt(c, input.extYaml)
      BY <1>1, <2>3, <3>1
    <3> QED
      BY <2>1, <3>2, <3>3, <3>4, ExtMerged
  <2> QED
    BY <2>2, <2>3
<1> QED
  BY <1>1, <1>2, <1>5, <1>6, <1>7 DEF ConfigInv, NoProxyHonoured

\* the environment does,
LEMMA LoadEnvKeeps ==
  ASSUME ConfigInv, LoadEnv
  PROVE  ConfigInv'
<1> USE DEF LoadEnv
<1>1. input' = input /\ building' = "resolve" /\ building = "env"
  OBVIOUS
<1>2. PlainInput /\ PlainInput'
  BY <1>1 DEF ConfigInv, PlainInput
<1>3. /\ ExtAfterEnv' = ExtAfterEnv
      /\ EnvBroken' <=> EnvBroken
  BY <1>1 DEF ExtAfterEnv, ExtAfterYaml, EnvBroken, EnvRaw
<1>4. \A f : AfterEnv(f)' = AfterEnv(f)
  BY <1>1 DEF AfterEnv, AfterYaml, FromYaml, YamlParsed, FromEnv, EnvBroken, EnvParsed, EnvRaw
<1>5. Merged(AfterYaml, ExtAfterYaml)
  BY <1>1 DEF ConfigInv
<1>6. Fail \in Range(EnvParsed) <=> EnvBroken
  BY <1>2, EnvFailsAll DEF EnvBroken
<1>7. Merged(AfterEnv, ExtAfterEnv)'
  <2>1. CASE EnvBroken
    <3>1. agentConfig' = agentConfig
      BY <1>6, <2>1
    <3>2. \A f : AfterEnv(f) = AfterYaml(f)
      BY <2>1, NothingTaken DEF AfterEnv, FromEnv, EnvBroken
    <3> QED
      BY <1>3, <1>4, <1>5, <2>1, <3>1, <3>2 DEF Merged, ExtAfterEnv
  <2>2. CASE ~EnvBroken
    <3>1. PICK c : c = EnvMerge(agentConfig, EnvParsed)
      OBVIOUS
    <3>2. Collected(EnvParsed)
      BY <1>2, EnvPlain, EnvCollections DEF EnvParsed, Collected
    <3>3. /\ DOMAIN c = AllNamed
          /\ \A f \in Named : c[f] = Taken(agentConfig[f], EnvParsed, f)
          /\ c["ext"] = agentConfig["ext"]
      BY <1>5, <3>1, <3>2, EnvMerged DEF Merged
    <3>4. agentConfig' = MergeExt(c, input.extEnv)
      BY <1>6, <2>2, <3>1
    <3>5. Named \subseteq Fields
      BY DEF Named
    <3>6. FromEnv = EnvParsed
      BY <2>2 DEF FromEnv, EnvBroken
    <3> QED
      BY <1>3, <1>4, <1>5, <2>2, <3>3, <3>4, <3>5, <3>6, ExtMerged DEF Merged, ExtAfterEnv, AfterEnv
  <2> QED
    BY <2>1, <2>2
<1>8. failedSources' = (IF input'.broken THEN {"yaml"} ELSE {}) \cup
                       (IF EnvBroken' THEN {"env"} ELSE {})
  BY <1>1, <1>3, <1>6 DEF ConfigInv
<1>9. agentConfig'["statsd_metric_namespace"] = Namespace'
  <2>1. Namespace' = Namespace
    BY <1>1 DEF Namespace, Says, FromEnv, EnvBroken, EnvParsed, EnvRaw
  <2>2. agentConfig["statsd_metric_namespace"] = None
    BY <1>1 DEF ConfigInv
  <2>3. CASE EnvBroken
    <3>1. agentConfig' = agentConfig
      BY <1>6, <2>3
    <3>2. Namespace = None
      BY <2>3 DEF Namespace, FromEnv, Says
    <3> QED
      BY <2>1, <2>2, <3>1, <3>2
  <2>4. CASE ~EnvBroken
    <3>1. PICK c : c = EnvMerge(agentConfig, EnvParsed)
      OBVIOUS
    <3>2. c["statsd_metric_namespace"] = Namespace
      BY <1>5, <2>2, <2>4, <3>1, EnvNamespace DEF Namespace, FromEnv, Merged
    <3>3. DOMAIN c = AllNamed
      BY <1>5, <3>1 DEF EnvMerge, Merged
    <3>4. agentConfig' = MergeExt(c, input.extEnv)
      BY <1>6, <2>4, <3>1
    <3>5. "statsd_metric_namespace" \in Fields
      BY DEF Fields, Options
    <3> QED
      BY <2>1, <3>2, <3>3, <3>4, <3>5, ExtMerged
  <2> QED
    BY <2>3, <2>4
<1> QED
  BY <1>1, <1>2, <1>7, <1>8, <1>9 DEF ConfigInv, NoProxyHonoured

\* A proxy is configured exactly when a source says so.
LEMMA ProxyGiven ==
  ASSUME Merged(AfterEnv, ExtAfterEnv)
  PROVE  agentConfig["proxy_https"] # None <=> Says(FromEnv, "proxy_https") \/ Says(FromYaml, "proxy_https")
<1>1. "proxy_https" \in Options /\ "proxy_https" \notin CompressionLevels
  BY DEF Options, CompressionLevels
<1>2. "proxy_https" \in Named
  BY <1>1 DEF Named, Fields
<1>3. Default["proxy_https"] = None
  <2>1. "proxy_https" \notin Strings \cup Collections \cup Values \cup OtlpValues
    BY DEF Strings, Collections, Values, OtlpValues, CompressionLevels
  <2> QED
    BY <1>1, <2>1 DEF Default, Fields
<1> QED
  BY <1>1, <1>2, <1>3 DEF Merged, AfterEnv, AfterYaml, Taken, Says

\* and the derived values do: HTTPS_PROXY fills in before a list unsets.
LEMMA ResolveKeeps ==
  ASSUME ConfigInv, Resolve
  PROVE  ConfigInv'
<1>1. input' = input /\ building' = "done" /\ building = "resolve"
  BY DEF Resolve
<1>2. PlainInput'
  BY <1>1 DEF ConfigInv, PlainInput
<1>3. Merged(AfterEnv, ExtAfterEnv)
  BY <1>1 DEF ConfigInv
<1>4. PICK site : /\ agentConfig'["site"] = site
                  /\ agentConfig'["proxy_https"] = ResolveProxy(site)
                  /\ agentConfig'["proxy_no_proxy"] = agentConfig["proxy_no_proxy"]
  <2>1. PICK site, logs, apm, style, dd, url :
          agentConfig' =
            [agentConfig EXCEPT
               !["site"] = site,
               !["proxy_https"] = ResolveProxy(site),
               !["trace_propagation_style_extract"] = style,
               !["dd_url"] = dd,
               !["url"] = url,
               !["logs_config_logs_dd_url"] = logs,
               !["apm_dd_url"] = apm]
    BY ZenonT(60) DEF Resolve
  <2>2. {"site", "proxy_https", "proxy_no_proxy"} \subseteq DOMAIN agentConfig
    BY <1>3 DEF Merged, AllNamed, Fields, Strings, Options, Collections
  <2>3. PICK proxy : proxy = ResolveProxy(site)
    OBVIOUS
  <2> QED
    BY <2>1, <2>2, <2>3
<1>5. agentConfig["proxy_https"] # None <=> Says(FromEnv, "proxy_https") \/ Says(FromYaml, "proxy_https")
  BY <1>3, ProxyGiven
<1>6. /\ Says(FromEnv, "proxy_https")' <=> Says(FromEnv, "proxy_https")
      /\ Says(FromYaml, "proxy_https")' <=> Says(FromYaml, "proxy_https")
  BY <1>1 DEF Says, FromYaml, YamlParsed, FromEnv, EnvBroken, EnvParsed, EnvRaw
<1>7. (\E t \in {input.noProxy, agentConfig["proxy_no_proxy"]} : ContainsSite(t, agentConfig["site"]))'
        <=> ListedSite(site)
  BY <1>1, <1>4 DEF ListedSite
<1>8. NoProxyHonoured'
  BY <1>1, <1>4, <1>5, <1>6, <1>7 DEF NoProxyHonoured, ResolveProxy, Proxy
<1> QED
  BY <1>1, <1>2, <1>8 DEF ConfigInv

\* The invariant says which source each field comes from.
LEMMA ConfigInvSound ==
  ConfigInv => ConfigurationSound
<1> SUFFICES ASSUME ConfigInv, building = "resolve", ~EnvBroken PROVE Precedence
  BY DEF ConfigurationSound, ConfigInv, Precedence
<1>1. Merged(AfterEnv, ExtAfterEnv)
  BY DEF ConfigInv
<1>2. \A f \in Named : f \in CompressionLevels =>
        agentConfig[f] = IF Level(FromEnv, f) # None THEN Level(FromEnv, f)
                         ELSE IF Level(FromYaml, f) # None THEN Level(FromYaml, f) ELSE Default[f]
  BY <1>1 DEF Merged, AfterEnv, AfterYaml, Taken
<1>3. \A f \in Named : f \notin CompressionLevels =>
        agentConfig[f] = IF Says(FromEnv, f) THEN FromEnv[f]
                         ELSE IF Says(FromYaml, f) THEN FromYaml[f] ELSE Default[f]
  BY <1>1 DEF Merged, AfterEnv, AfterYaml, Taken
<1>4. /\ agentConfig["ext"] =
            IF ExtSays(input.extEnv) THEN input.extEnv
            ELSE IF ~input.broken /\ ExtSays(input.extYaml) THEN input.extYaml ELSE Default["ext"]
      /\ failedSources = IF input.broken THEN {"yaml"} ELSE {}
      /\ agentConfig["statsd_metric_namespace"] = Namespace
  BY <1>1 DEF ConfigInv, Merged, ExtAfterEnv, ExtAfterYaml, Extended
<1>5. ASSUME NEW f \in CompressionLevels PROVE LevelSound(f)
  <2>1. f \in Named /\ f \notin Collections /\ "compression_level" \notin Collections
    BY DEF CompressionLevels, Named, Fields, Values, Collections
  <2> QED
    BY <1>2, <2>1 DEF LevelSound, Level, Says
<1>6. \A f \in Fields \ (CompressionLevels \cup {"statsd_metric_namespace"}) :
        f \in Named /\ f \notin CompressionLevels
  BY DEF Named
<1> QED
  BY <1>3, <1>4, <1>5, <1>6 DEF Precedence

\* Whatever the sources say of whichever fields: before the derived values are
\* filled in every field has the environment's value, else that of datadog.yaml,
\* else the default; an unreadable value costs its field alone, but an unreadable
\* log level counts as Warn and an unusable namespace unsets it.  At the end the
\* proxy is used exactly when one is given and no list names the site.  Left out
\* are an environment that fails as a whole, and a component's level in
\* datadog.yaml beside a global one in the environment (datadog-agent-config,
\* lib.rs, ConfigBuilder::build).
THEOREM ConfigurationAlwaysSound == ConfigSpec => []ConfigurationSound
<1>1. ConfigInv /\ [ConfigNext]_configVars => ConfigInv'
  <2> SUFFICES ASSUME ConfigInv, [ConfigNext]_configVars PROVE ConfigInv'
    OBVIOUS
  <2>1. CASE LoadYaml
    BY <2>1, LoadYamlKeeps
  <2>2. CASE LoadEnv
    BY <2>2, LoadEnvKeeps
  <2>3. CASE Resolve
    BY <2>3, ResolveKeeps
  <2>4. CASE UNCHANGED configVars
    BY <2>4 DEF configVars, ConfigInv, PlainInput, Merged, AfterEnv, AfterYaml, ExtAfterEnv,
                ExtAfterYaml, EnvBroken, EnvRaw, EnvParsed, FromEnv, FromYaml, YamlParsed,
                NoProxyHonoured, Namespace, Says
  <2> QED
    BY <2>1, <2>2, <2>3, <2>4 DEF ConfigNext
<1> QED
  BY <1>1, ConfigInitInv, ConfigInvSound, PTL DEF ConfigSpec

-----------------------------------------------------------------------------
(* DogStatsD lines: tags.                                                  *)

Tags == ToSet(TagOrder)
Ranks == [x \in Tags |-> Rank(x)]

\* A tag has one rank, its place in the order.
LEMMA RanksOrder ==
  Ranks \in [Tags -> Nat] /\ \A x, y \in Tags : Ranks[x] = Ranks[y] => x = y
<1>1. ASSUME NEW x \in Tags PROVE Rank(x) \in Nat /\ TagOrder[Rank(x)] = x
  <2>1. \E i \in DOMAIN TagOrder : TagOrder[i] = x
    BY DEF Tags, ToSet
  <2>2. Rank(x) \in DOMAIN TagOrder /\ TagOrder[Rank(x)] = x
    BY <2>1 DEF Rank
  <2> QED
    BY <2>2, MetricParsingAssumption
<1>2. \A x \in Tags : Ranks[x] = Rank(x)
  BY DEF Ranks
<1>3. Ranks \in [Tags -> Nat]
  BY <1>1 DEF Ranks
<1> QED
  BY <1>1, <1>2, <1>3

\* A tag is inserted by its rank.
LEMMA InsertTagByRank ==
  ASSUME NEW s \in Seq(Tags), NEW e \in Tags
  PROVE  InsertTag(s, e) = InsertByKey(Ranks, s, e) /\ InsertTag(s, e) \in Seq(Tags)
<1>1. Len(s) \in Nat /\ DOMAIN s = 1..Len(s) /\ \A k \in DOMAIN s : s[k] \in Tags
  OBVIOUS
<1> DEFINE P == {k \in DOMAIN s : Ranks[s[k]] < Ranks[e]}
<1>2. {k \in DOMAIN s : Rank(s[k]) < Rank(e)} = P
  BY <1>1 DEF Ranks
<1>3. InsertTag(s, e) = InsertByKey(Ranks, s, e)
  BY <1>2 DEF InsertTag, InsertByKey
<1>4. P \in SUBSET (1..Len(s))
  BY <1>1
<1>5. InsertTag(s, e) = InsertAt(s, Cardinality(P) + 1, e)
  BY <1>2 DEF InsertTag
<1> HIDE DEF P
<1>6. IsFiniteSet(1..Len(s)) /\ Cardinality(1..Len(s)) = IF 1 > Len(s) THEN 0 ELSE Len(s) - 1 + 1
  BY <1>1, FS_Interval
<1>7. IsFiniteSet(P) /\ Cardinality(P) <= Cardinality(1..Len(s))
  BY <1>4, <1>6, FS_Subset
<1>8. Cardinality(P) \in Nat
  BY <1>7, FS_CardinalityType
<1>9. Cardinality(P) + 1 \in 1..(Len(s) + 1)
  BY <1>1, <1>6, <1>7, <1>8
<1>10. Inserts(Tags, s, Cardinality(P) + 1, e, InsertAt(s, Cardinality(P) + 1, e))
  BY <1>9, InsertAtInserts
<1> QED
  BY <1>3, <1>5, <1>10 DEF Inserts

\* One step of the loop of SortTags.
OneSorted(s, x, n) == InsertTag(x, s[n])

SortLoop(s, g) ==
  g = [n \in 0..Len(s) |-> IF n = 0 THEN <<>> ELSE OneSorted(s, g[n-1], n)]

\* g is how SortTags(s) is computed.
Sorts(s, g) ==
  /\ g \in [0..Len(s) -> Seq(Tags)] /\ g[0] = <<>>
  /\ \A n \in 1..Len(s) : g[n] = OneSorted(s, g[n-1], n)
  /\ SortTags(s) = g[Len(s)]

LEMMA SortTagsComputed ==
  ASSUME NEW s \in Seq(Tags)
  PROVE  \E g : Sorts(s, g)
<1> DEFINE N == Len(s)
           X == Seq(Tags)
           F == [n \in 1..N |-> [x \in X |-> OneSorted(s, x, n)]]
<1>0. N \in Nat /\ <<>> \in X /\ \A n \in 1..N : s[n] \in Tags
  OBVIOUS
<1>1. \A n \in 1..N : \A x \in X : OneSorted(s, x, n) \in X
  BY <1>0, InsertTagByRank DEF OneSorted
<1> HIDE DEF N, X
<1>2. F \in [1..N -> [X -> X]] /\ \A n \in 1..N : \A x \in X : F[n][x] = OneSorted(s, x, n)
  BY <1>1
<1> HIDE DEF F
<1>3. PICK g \in [0..N -> X] : g[0] = <<>> /\ \A n \in 1..N : g[n] = F[n][g[n-1]]
  <2>1. Solvable(N, X, <<>>, F)
    BY <1>0, <1>2, Recursion
  <2> QED
    BY <2>1 DEF Solvable
<1>4. \A n \in 1..N : g[n] = OneSorted(s, g[n-1], n)
  <2> TAKE n \in 1..N
  <2>1. n - 1 \in 0..N
    BY <1>0
  <2> QED
    BY <1>2, <1>3, <2>1
<1>5. ASSUME NEW n \in 0..N PROVE g[n] = IF n = 0 THEN <<>> ELSE OneSorted(s, g[n-1], n)
  <2>1. CASE n = 0
    BY <1>3, <2>1
  <2>2. CASE n # 0
    <3>1. n \in 1..N
      BY <1>0, <2>2
    <3> QED
      BY <1>4, <2>2, <3>1
  <2> QED
    BY <2>1, <2>2
<1> DEFINE k == [n \in 0..N |-> IF n = 0 THEN <<>> ELSE OneSorted(s, g[n-1], n)]
<1>6. g = k
  BY <1>3, <1>5
<1>7. SortLoop(s, g)
  BY <1>6 DEF SortLoop, N
<1>8. PICK h : h = CHOOSE l : SortLoop(s, l)
  OBVIOUS
<1>9. SortLoop(s, h)
  BY <1>7, <1>8
<1>10. SortTags(s) = h[N]
  BY <1>8 DEF SortTags, SortLoop, OneSorted, N
<1>11. \A n \in 0..N : h[n] = IF n = 0 THEN <<>> ELSE OneSorted(s, h[n-1], n)
  BY <1>9 DEF SortLoop, N
<1> DEFINE T == {n \in 0..N : h[n] = g[n]}
<1>12. 0 \in T
  BY <1>0, <1>3, <1>11
<1>13. ASSUME NEW n \in 0..(N - 1), n \in T PROVE n + 1 \in T
  <2>1. n + 1 \in 0..N /\ n + 1 \in 1..N /\ n + 1 # 0 /\ (n + 1) - 1 = n
    BY <1>0
  <2>2. h[n + 1] = OneSorted(s, h[n], n + 1) /\ g[n + 1] = OneSorted(s, g[n], n + 1)
    BY <1>4, <1>11, <2>1
  <2> QED
    BY <1>13, <2>1, <2>2
<1> HIDE DEF T
<1>14. N \in T
  <2>1. \A n \in 0..N : n \in T
    BY <1>0, <1>12, <1>13, CountUp
  <2> QED
    BY <1>0, <2>1
<1>15. SortTags(s) = g[N]
  BY <1>10, <1>14 DEF T
<1>16. Sorts(s, g)
  BY <1>3, <1>4, <1>15 DEF Sorts, N, X
<1> QED
  BY <1>16

\* One step of the loop of Dedup.
OneDeduped(s, x, n) == IF n > 1 /\ s[n] = s[n-1] THEN x ELSE Append(x, s[n])

DedupLoop(s, g) ==
  g = [n \in 0..Len(s) |-> IF n = 0 THEN <<>> ELSE OneDeduped(s, g[n-1], n)]

\* g is how Dedup(s) is computed.
Dedups(s, g) ==
  /\ g \in [0..Len(s) -> Seq(Tags)] /\ g[0] = <<>>
  /\ \A n \in 1..Len(s) : g[n] = OneDeduped(s, g[n-1], n)
  /\ Dedup(s) = g[Len(s)]

LEMMA DedupComputed ==
  ASSUME NEW s \in Seq(Tags)
  PROVE  \E g : Dedups(s, g)
<1> DEFINE N == Len(s)
           X == Seq(Tags)
           F == [n \in 1..N |-> [x \in X |-> OneDeduped(s, x, n)]]
<1>0. N \in Nat /\ <<>> \in X /\ \A n \in 1..N : s[n] \in Tags
  OBVIOUS
<1>1. \A n \in 1..N : \A x \in X : OneDeduped(s, x, n) \in X
  BY <1>0 DEF OneDeduped
<1> HIDE DEF N, X
<1>2. F \in [1..N -> [X -> X]] /\ \A n \in 1..N : \A x \in X : F[n][x] = OneDeduped(s, x, n)
  BY <1>1
<1> HIDE DEF F
<1>3. PICK g \in [0..N -> X] : g[0] = <<>> /\ \A n \in 1..N : g[n] = F[n][g[n-1]]
  <2>1. Solvable(N, X, <<>>, F)
    BY <1>0, <1>2, Recursion
  <2> QED
    BY <2>1 DEF Solvable
<1>4. \A n \in 1..N : g[n] = OneDeduped(s, g[n-1], n)
  <2> TAKE n \in 1..N
  <2>1. n - 1 \in 0..N
    BY <1>0
  <2> QED
    BY <1>2, <1>3, <2>1
<1>5. ASSUME NEW n \in 0..N PROVE g[n] = IF n = 0 THEN <<>> ELSE OneDeduped(s, g[n-1], n)
  <2>1. CASE n = 0
    BY <1>3, <2>1
  <2>2. CASE n # 0
    <3>1. n \in 1..N
      BY <1>0, <2>2
    <3> QED
      BY <1>4, <2>2, <3>1
  <2> QED
    BY <2>1, <2>2
<1> DEFINE k == [n \in 0..N |-> IF n = 0 THEN <<>> ELSE OneDeduped(s, g[n-1], n)]
<1>6. g = k
  BY <1>3, <1>5
<1>7. DedupLoop(s, g)
  BY <1>6 DEF DedupLoop, N
<1>8. PICK h : h = CHOOSE l : DedupLoop(s, l)
  OBVIOUS
<1>9. DedupLoop(s, h)
  BY <1>7, <1>8
<1>10. Dedup(s) = h[N]
  BY <1>8 DEF Dedup, DedupLoop, OneDeduped, N
<1>11. \A n \in 0..N : h[n] = IF n = 0 THEN <<>> ELSE OneDeduped(s, h[n-1], n)
  BY <1>9 DEF DedupLoop, N
<1> DEFINE T == {n \in 0..N : h[n] = g[n]}
<1>12. 0 \in T
  BY <1>0, <1>3, <1>11
<1>13. ASSUME NEW n \in 0..(N - 1), n \in T PROVE n + 1 \in T
  <2>1. n + 1 \in 0..N /\ n + 1 \in 1..N /\ n + 1 # 0 /\ (n + 1) - 1 = n
    BY <1>0
  <2>2. h[n + 1] = OneDeduped(s, h[n], n + 1) /\ g[n + 1] = OneDeduped(s, g[n], n + 1)
    BY <1>4, <1>11, <2>1
  <2> QED
    BY <1>13, <2>1, <2>2
<1> HIDE DEF T
<1>14. N \in T
  <2>1. \A n \in 0..N : n \in T
    BY <1>0, <1>12, <1>13, CountUp
  <2> QED
    BY <1>0, <2>1
<1>15. Dedup(s) = g[N]
  BY <1>10, <1>14 DEF T
<1>16. Dedups(s, g)
  BY <1>3, <1>4, <1>15 DEF Dedups, N, X
<1> QED
  BY <1>16

\* Where no tag is repeated, sorting keeps the tags and orders them,
LEMMA SortTagsSorts ==
  ASSUME NEW s \in Seq(Tags), IsInjective(s)
  PROVE  /\ SortTags(s) \in Seq(Tags) /\ InOrder(Ranks, SortTags(s))
         /\ ToSet(SortTags(s)) = ToSet(s)
<1>0. Len(s) \in Nat /\ DOMAIN s = 1..Len(s) /\ \A n \in 1..Len(s) : s[n] \in Tags
  OBVIOUS
<1>1. PICK g : Sorts(s, g)
  BY SortTagsComputed
<1> DEFINE T == {n \in 0..Len(s) : InOrder(Ranks, g[n]) /\ ToSet(g[n]) = {s[i] : i \in 1..n}}
<1>2. 0 \in T
  <2>1. g[0] = <<>>
    BY <1>1 DEF Sorts
  <2> QED
    BY <1>0, <2>1 DEF InOrder, ToSet
<1>3. ASSUME NEW n \in 0..(Len(s) - 1), n \in T PROVE n + 1 \in T
  <2>1. n \in Nat /\ n + 1 \in 1..Len(s) /\ n \in 0..Len(s) /\ (n + 1) - 1 = n
        /\ n + 1 \in 0..Len(s) /\ \A i \in 1..n : i \in 1..Len(s) /\ i # n + 1
    BY <1>0
  <2>2. g[n] \in Seq(Tags) /\ g[n + 1] = InsertTag(g[n], s[n + 1])
    BY <1>1, <2>1 DEF Sorts, OneSorted
  <2>3. PICK x : x = g[n]
    OBVIOUS
  <2>4. PICK y : y = g[n + 1]
    OBVIOUS
  <2>5. PICK e \in Tags : e = s[n + 1]
    BY <1>0, <2>1
  <2>6. x \in Seq(Tags) /\ y = InsertByKey(Ranks, x, e)
    BY <2>2, <2>3, <2>4, <2>5, InsertTagByRank
  <2>7. InOrder(Ranks, x) /\ ToSet(x) = {s[i] : i \in 1..n}
    BY <1>3, <2>3
  <2>8. \A k \in DOMAIN x : Ranks[x[k]] # Ranks[e]
    <3> TAKE k \in DOMAIN x
    <3>1. x[k] \in {s[i] : i \in 1..n} /\ x[k] \in Tags
      BY <2>6, <2>7 DEF ToSet
    <3>2. PICK i \in 1..n : x[k] = s[i]
      BY <3>1
    <3>3. x[k] # e
      BY <1>0, <2>1, <2>5, <3>2 DEF IsInjective
    <3> QED
      BY <3>1, <3>3, RanksOrder
  <2>9. Inserted(Tags, Ranks, x, e, y)
    BY <2>6, <2>7, <2>8, RanksOrder, InsertByKeyKeepsOrder
  <2>10. InOrder(Ranks, y) /\ ToSet(y) = ToSet(x) \cup {e}
    BY <2>9 DEF Inserted
  <2>11. {s[i] : i \in 1..(n + 1)} = {s[i] : i \in 1..n} \cup {s[n + 1]}
    <3>1. 1..(n + 1) = 1..n \cup {n + 1}
      BY <2>1
    <3> QED
      BY <3>1
  <2> QED
    BY <2>1, <2>4, <2>5, <2>7, <2>10, <2>11
<1> HIDE DEF T
<1>4. \A n \in 0..Len(s) : n \in T
  BY <1>0, <1>2, <1>3, CountUp
<1>5. Len(s) \in T /\ Len(s) \in 0..Len(s)
  BY <1>0, <1>4
<1>6. ToSet(s) = {s[i] : i \in 1..Len(s)}
  BY <1>0 DEF ToSet
<1> QED
  BY <1>1, <1>5, <1>6 DEF T, Sorts

\* deduplication changes nothing,
LEMMA DedupKeeps ==
  ASSUME NEW s \in Seq(Tags), IsInjective(s)
  PROVE  Dedup(s) = s
<1>0. Len(s) \in Nat /\ DOMAIN s = 1..Len(s) /\ \A n \in 1..Len(s) : s[n] \in Tags
  OBVIOUS
<1>1. PICK g : Dedups(s, g)
  BY DedupComputed
<1> DEFINE T == {n \in 0..Len(s) : Len(g[n]) = n /\ \A i \in 1..n : g[n][i] = s[i]}
<1>2. 0 \in T
  <2>1. g[0] = <<>>
    BY <1>1 DEF Dedups
  <2> QED
    BY <1>0, <2>1
<1>3. ASSUME NEW n \in 0..(Len(s) - 1), n \in T PROVE n + 1 \in T
  <2>1. n \in Nat /\ n + 1 \in 1..Len(s) /\ n \in 0..Len(s) /\ (n + 1) - 1 = n /\ n + 1 \in 0..Len(s)
    BY <1>0
  <2>2. ~(n + 1 > 1 /\ s[n + 1] = s[n])
    <3> SUFFICES ASSUME n + 1 > 1 PROVE s[n + 1] # s[n]
      OBVIOUS
    <3>1. n \in 1..Len(s) /\ n # n + 1
      BY <1>0, <2>1
    <3> QED
      BY <1>0, <2>1, <3>1 DEF IsInjective
  <2>3. g[n] \in Seq(Tags) /\ g[n + 1] = Append(g[n], s[n + 1])
    BY <1>1, <2>1, <2>2 DEF Dedups, OneDeduped
  <2>4. PICK x \in Seq(Tags) : x = g[n]
    BY <2>3
  <2>5. PICK y : y = Append(x, s[n + 1])
    OBVIOUS
  <2>6. Len(x) = n /\ \A i \in 1..n : x[i] = s[i]
    BY <1>3, <2>4
  <2>7. Len(y) = n + 1 /\ y[n + 1] = s[n + 1] /\ \A i \in 1..n : y[i] = x[i]
    BY <2>1, <2>5, <2>6
  <2>8. \A i \in 1..(n + 1) : i = n + 1 \/ i \in 1..n
    BY <2>1
  <2> QED
    BY <2>1, <2>3, <2>4, <2>5, <2>6, <2>7, <2>8
<1> HIDE DEF T
<1>4. \A n \in 0..Len(s) : n \in T
  BY <1>0, <1>2, <1>3, CountUp
<1>5. Len(s) \in T /\ Len(s) \in 0..Len(s)
  BY <1>0, <1>4
<1>6. Dedup(s) \in Seq(Tags) /\ Len(Dedup(s)) = Len(s) /\ \A i \in 1..Len(s) : Dedup(s)[i] = s[i]
  BY <1>1, <1>5 DEF T, Dedups
<1> QED
  BY <1>6, SeqEqual

\* and two such lists are parsed into the same one exactly when they have the
\* same tags.
LEMMA SortedAlike ==
  ASSUME NEW s \in Seq(Tags), IsInjective(s), NEW t \in Seq(Tags), IsInjective(t)
  PROVE  SortTags(Dedup(s)) = SortTags(Dedup(t)) <=> ToSet(s) = ToSet(t)
<1>1. Dedup(s) = s /\ Dedup(t) = t
  BY DedupKeeps
<1>2. PICK u : u = SortTags(s)
  OBVIOUS
<1>3. PICK v : v = SortTags(t)
  OBVIOUS
<1>4. /\ u \in Seq(Tags) /\ InOrder(Ranks, u) /\ ToSet(u) = ToSet(s)
      /\ v \in Seq(Tags) /\ InOrder(Ranks, v) /\ ToSet(v) = ToSet(t)
  BY <1>2, <1>3, SortTagsSorts
<1>5. ToSet(s) = ToSet(t) => u = v
  BY <1>4, RanksOrder, SameInOrder
<1> QED
  BY <1>1, <1>2, <1>3, <1>4, <1>5

-----------------------------------------------------------------------------
(* DogStatsD lines: what becomes of a line.                                *)

\* The tags a line was sent with.
TagsSent(line) ==
  IF LastOf(line.fields, TagsPrefix) = 0 THEN <<>>
  ELSE line.fields[LastOf(line.fields, TagsPrefix)].tags

\* The last field of a prefix is a field of that prefix, if there is one.
LEMMA LastFound ==
  ASSUME NEW fields, Len(fields) \in Nat, DOMAIN fields = 1..Len(fields), NEW prefix
  PROVE  \/ /\ LastOf(fields, prefix) = 0
            /\ \A i \in DOMAIN fields : fields[i].prefix # prefix
         \/ /\ LastOf(fields, prefix) \in DOMAIN fields
            /\ fields[LastOf(fields, prefix)].prefix = prefix
<1> DEFINE found == {i \in DOMAIN fields : fields[i].prefix = prefix}
           N == Len(fields)
           Back == {N - i : i \in found}
<1>1. CASE found = {}
  BY <1>1 DEF LastOf
<1>2. CASE found # {}
  <2>1. found \subseteq 1..N
    OBVIOUS
  <2>2. LastOf(fields, prefix) = CHOOSE i \in found : \A j \in found : j <= i
    BY <1>2 DEF LastOf
  <2>3. Back \in SUBSET Nat /\ Back # {}
    BY <1>2, <2>1
  <2>4. PICK b \in Back : \A c \in Back : b <= c
    BY <2>3, LeastNumber
  <2>5. PICK i \in found : b = N - i
    OBVIOUS
  <2>6. \A j \in found : N - i <= N - j
    BY <2>4, <2>5
  <2>7. \A j \in found : j \in Nat
    BY <2>1
  <2> HIDE DEF found
  <2>8. \A j \in found : j <= i
    BY <2>5, <2>6, <2>7
  <2>9. LastOf(fields, prefix) \in found
    BY <2>2, <2>5, <2>8
  <2> QED
    BY <2>9 DEF found
<1> QED
  BY <1>1, <1>2

\* A bucket has begun when a metric is filed under it.
LEMMA BucketHasBegun ==
  ASSUME NEW t \in Int, NEW at \in Nat
  PROVE  TimestampToBucket(t, at) <= at
<1>1. ASSUME NEW n \in Nat PROVE (n \div 10) * 10 <= n /\ (n \div 10) * 10 \in Nat
  OBVIOUS
<1>2. ASSUME NEW n \in Int, n < 0 PROVE -((-n \div 10) * 10) <= 0 /\ -((-n \div 10) * 10) \in Int
  <2>1. -n \in Nat
    BY <1>2
  <2>2. ((-n) \div 10) * 10 \in Nat
    BY <1>1, <2>1
  <2> QED
    BY <2>2
<1>3. Bucket(at) <= at
  BY <1>1 DEF Bucket
<1>4. CASE t > at
  BY <1>3, <1>4 DEF TimestampToBucket
<1>5. CASE ~(t > at) /\ t < 0
  BY <1>2, <1>5 DEF TimestampToBucket, Bucket
<1>6. CASE ~(t > at) /\ ~(t < 0)
  <2>1. t \in Nat /\ t <= at
    BY <1>6
  <2>2. (t \div 10) * 10 <= t /\ (t \div 10) * 10 \in Nat
    BY <1>1, <2>1
  <2> QED
    BY <1>6, <2>1, <2>2 DEF TimestampToBucket, Bucket
<1> QED
  BY <1>4, <1>5, <1>6

\* No tags are sorted into none.
LEMMA NoTags == <<>> \in Seq(Tags) /\ IsInjective(<<>>) /\ SortTags(Dedup(<<>>)) = <<>>
<1>1. <<>> \in Seq(Tags) /\ IsInjective(<<>>)
  BY DEF IsInjective
<1>2. PICK u : u = SortTags(<<>>)
  OBVIOUS
<1>3. u \in Seq(Tags) /\ ToSet(u) = ToSet(<<>>)
  BY <1>1, <1>2, SortTagsSorts
<1>4. ToSet(<<>>) = {}
  BY DEF ToSet
<1>5. Len(u) \in Nat /\ DOMAIN u = 1..Len(u)
  BY <1>3
<1>6. \A i \in DOMAIN u : u[i] \in ToSet(u)
  BY DEF ToSet
<1>7. Len(u) = 0
  <2>1. Len(u) > 0 => 1 \in DOMAIN u
    BY <1>5
  <2> QED
    BY <1>3, <1>4, <1>5, <1>6, <2>1
<1>8. u = <<>>
  BY <1>3, <1>7
<1> QED
  BY <1>1, <1>2, <1>8, DedupKeeps

\* What the aggregator makes of a line it takes.
Filed(line, at, m) ==
  /\ m.timestamp <= at
  /\ m.id = <<m.name, m.timestamp, m.tags>>
  /\ m.tags = SortTags(Dedup(TagsSent(line)))

LEMMA ParsedIsFiled ==
  ASSUME NEW l \in Lines, NEW at \in Times, Parse(l, at).ok
  PROVE  /\ DOMAIN Parse(l, at) = {"ok", "name", "kind", "value", "tags", "timestamp", "id"}
         /\ Filed(l, at, Parse(l, at))
<1> DEFINE t == LastOf(l.fields, TimePrefix)
           s == LastOf(l.fields, TagsPrefix)
           n == IF t = 0 THEN at ELSE l.fields[t].n
           bucket == TimestampToBucket(n, at)
           tags == IF s = 0 THEN <<>> ELSE ParseTags(l.fields[s].tags).tags
<1>1. /\ Len(l.fields) \in Nat /\ DOMAIN l.fields = 1..Len(l.fields)
      /\ \A i \in DOMAIN l.fields : l.fields[i].n \in Int
  BY MetricParsingAssumption
<1>2. at \in Nat
  BY MetricParsingAssumption
<1>3. t = 0 \/ t \in DOMAIN l.fields
  BY <1>1, LastFound
<1>4. s = 0 \/ (s \in DOMAIN l.fields /\ l.fields[s].prefix = TagsPrefix)
  BY <1>1, LastFound
<1>5. bucket <= at
  <2>1. n \in Int
    BY <1>1, <1>2, <1>3
  <2> QED
    BY <1>2, <2>1, BucketHasBegun
<1> HIDE DEF t, s
<1>6. /\ \A i \in DOMAIN l.fields : ~BadField(l.fields[i])
      /\ Parse(l, at) = [ok |-> TRUE, name |-> l.name, kind |-> l.type,
                         value |-> Head(l.values), tags |-> tags, timestamp |-> bucket,
                         id |-> Id(l.name, tags, bucket)]
  <2>1. Rejected.ok = FALSE
    BY DEF Rejected
  <2> QED
    BY <2>1 DEF Parse, t, s
<1>7. tags = SortTags(Dedup(TagsSent(l)))
  <2>1. CASE s = 0
    BY <2>1, NoTags DEF TagsSent, s
  <2>2. CASE s # 0
    <3>1. ParseTags(l.fields[s].tags).ok
      BY <1>4, <1>6, <2>2 DEF BadField
    <3>2. ParseTags(l.fields[s].tags).tags = SortTags(Dedup(l.fields[s].tags))
      BY <3>1 DEF ParseTags
    <3> QED
      BY <2>2, <3>2 DEF TagsSent, s
  <2> QED
    BY <2>1, <2>2
<1> HIDE DEF n, tags, bucket
<1> QED
  BY <1>5, <1>6, <1>7 DEF Filed, Id

LEMMA TakenIsFiled ==
  ASSUME NEW l \in Lines, NEW at \in Times, InsertMetric(l, at).ok
  PROVE  Filed(l, at, InsertMetric(l, at))
<1>1. ~Skipped(l) /\ Parse(l, at).ok
  <2>1. Rejected.ok = FALSE
    BY DEF Rejected
  <2> QED
    BY <2>1 DEF InsertMetric
<1>2. PICK p : p = Parse(l, at)
  OBVIOUS
<1>3. DOMAIN p = {"ok", "name", "kind", "value", "tags", "timestamp", "id"} /\ Filed(l, at, p)
  BY <1>1, <1>2, ParsedIsFiled
<1>4. CASE namespace = <<>>
  BY <1>1, <1>2, <1>3, <1>4 DEF InsertMetric
<1>5. CASE namespace # <<>>
  <2>1. PICK name : name = namespace \o p.name
    OBVIOUS
  <2>2. InsertMetric(l, at) = [p EXCEPT !.name = name, !.id = Id(name, p.tags, p.timestamp)]
    BY <1>1, <1>2, <1>5, <2>1 DEF InsertMetric, PrependNamespace
  <2> QED
    BY <1>3, <2>2 DEF Filed, Id
<1> QED
  BY <1>4, <1>5

\* What was sent is a sequence of tags.
LEMMA SentIsTags ==
  ASSUME NEW l \in Lines
  PROVE  TagsSent(l) \in Seq(Tags)
<1>1. /\ Len(l.fields) \in Nat /\ DOMAIN l.fields = 1..Len(l.fields)
      /\ \A i \in DOMAIN l.fields : l.fields[i].tags \in Seq(Tags)
  BY MetricParsingAssumption DEF Tags
<1>2. PICK s : s = LastOf(l.fields, TagsPrefix)
  OBVIOUS
<1>3. s = 0 \/ s \in DOMAIN l.fields
  BY <1>1, <1>2, LastFound
<1> QED
  BY <1>1, <1>2, <1>3 DEF TagsSent

-----------------------------------------------------------------------------
(* DogStatsD lines: the order of optional fields.                          *)

Distinct(fields) == IsInjective([k \in DOMAIN fields |-> fields[k].prefix])

\* Where each prefix is there once, the last field of a prefix does not depend
\* on the order.
LEMMA LastAlike ==
  ASSUME NEW f, Len(f) \in Nat, DOMAIN f = 1..Len(f),
         NEW g, Len(g) \in Nat, DOMAIN g = 1..Len(g), Distinct(g),
         ToSet(f) = ToSet(g), NEW prefix, LastOf(f, prefix) # 0
  PROVE  LastOf(g, prefix) # 0 /\ f[LastOf(f, prefix)] = g[LastOf(g, prefix)]
<1>1. PICK i : i = LastOf(f, prefix)
  OBVIOUS
<1>2. PICK k : k = LastOf(g, prefix)
  OBVIOUS
<1>3. i \in DOMAIN f /\ f[i].prefix = prefix
  BY <1>1, LastFound
<1>4. f[i] \in ToSet(g)
  BY <1>3 DEF ToSet
<1>5. PICK j \in DOMAIN g : g[j] = f[i]
  BY <1>4 DEF ToSet
<1>6. k \in DOMAIN g /\ g[k].prefix = prefix
  BY <1>2, <1>3, <1>5, LastFound
<1>7. k = j
  BY <1>3, <1>5, <1>6 DEF Distinct, IsInjective
<1> QED
  BY <1>1, <1>2, <1>5, <1>6, <1>7

\* Two lines that differ in the order of such fields fare the same.
LEMMA AnyOrder ==
  ASSUME NEW a \in Lines, NEW b \in Lines, NEW at,
         [a EXCEPT !.fields = <<>>] = [b EXCEPT !.fields = <<>>],
         ToSet(a.fields) = ToSet(b.fields), Distinct(a.fields), Distinct(b.fields)
  PROVE  InsertMetric(a, at) = InsertMetric(b, at)
<1>1. /\ DOMAIN a = {"form", "name", "values", "type", "fields"}
      /\ DOMAIN b = {"form", "name", "values", "type", "fields"}
  BY MetricParsingAssumption
<1>2. a.form = b.form /\ a.name = b.name /\ a.values = b.values /\ a.type = b.type
  <2>1. PICK c : c = [a EXCEPT !.fields = <<>>]
    OBVIOUS
  <2>2. c.form = a.form /\ c.name = a.name /\ c.values = a.values /\ c.type = a.type
    BY <1>1, <2>1
  <2>3. c.form = b.form /\ c.name = b.name /\ c.values = b.values /\ c.type = b.type
    BY <1>1, <2>1
  <2> QED
    BY <2>2, <2>3
<1>3. PICK f : f = a.fields
  OBVIOUS
<1>4. PICK g : g = b.fields
  OBVIOUS
<1>5. /\ Len(f) \in Nat /\ DOMAIN f = 1..Len(f) /\ Distinct(f)
      /\ Len(g) \in Nat /\ DOMAIN g = 1..Len(g) /\ Distinct(g) /\ ToSet(f) = ToSet(g)
  BY <1>3, <1>4, MetricParsingAssumption
<1>6. \A p : /\ LastOf(f, p) = 0 <=> LastOf(g, p) = 0
             /\ LastOf(f, p) # 0 => f[LastOf(f, p)] = g[LastOf(g, p)]
  BY <1>5, LastAlike
<1>7. (\E i \in DOMAIN f : BadField(f[i])) <=> (\E i \in DOMAIN g : BadField(g[i]))
  <2>1. \A x : (\E i \in DOMAIN f : x = f[i]) <=> (\E i \in DOMAIN g : x = g[i])
    <3>1. {f[i] : i \in DOMAIN f} = {g[i] : i \in DOMAIN g}
      BY <1>5 DEF ToSet
    <3> QED
      BY <3>1
  <2> QED
    BY <2>1
<1>8. Parse(a, at) = Parse(b, at)
  <2>1. PICK T : T = TimePrefix
    OBVIOUS
  <2>2. PICK S : S = TagsPrefix
    OBVIOUS
  <2>3. /\ LastOf(f, T) = 0 <=> LastOf(g, T) = 0
        /\ LastOf(f, T) # 0 => f[LastOf(f, T)] = g[LastOf(g, T)]
    BY <1>6
  <2>4. /\ LastOf(f, S) = 0 <=> LastOf(g, S) = 0
        /\ LastOf(f, S) # 0 => f[LastOf(f, S)] = g[LastOf(g, S)]
    BY <1>6
  <2> QED
    BY <1>2, <1>3, <1>4, <1>7, <2>1, <2>2, <2>3, <2>4 DEF Parse
<1>9. Skipped(a) <=> Skipped(b)
  BY <1>2 DEF Skipped
<1> QED
  BY <1>8, <1>9 DEF InsertMetric

-----------------------------------------------------------------------------

HandledLines ==
  {[line |-> l, at |-> at, metric |-> InsertMetric(l, at)] : l \in Lines, at \in Times}

\* Every line that was handled came to what insert_metrics makes of it.
LinesInv == handled \in Seq(HandledLines)

LEMMA LinesInvStep ==
  ASSUME LinesInv, [LinesNext]_lineVars
  PROVE  LinesInv'
<1>1. namespace' = namespace
  BY DEF LinesNext, Receive, lineVars
<1>2. HandledLines' = HandledLines
  BY <1>1 DEF HandledLines, InsertMetric, PrependNamespace
<1>3. CASE LinesNext
  <2>1. PICK l \in Lines, at \in Times : Receive(l, at)
    BY <1>3 DEF LinesNext
  <2>2. PICK h : h = [line |-> l, at |-> at, metric |-> InsertMetric(l, at)]
    OBVIOUS
  <2>3. h \in HandledLines
    BY <2>2 DEF HandledLines
  <2>4. handled' = Append(handled, h)
    BY <2>1, <2>2 DEF Receive
  <2>5. PICK S : S = HandledLines
    OBVIOUS
  <2> QED
    BY <1>2, <2>3, <2>4, <2>5 DEF LinesInv
<1>4. CASE UNCHANGED lineVars
  BY <1>2, <1>4 DEF LinesInv, lineVars
<1> QED
  BY <1>3, <1>4

\* The lines handled, one by one.
LEMMA HandledOne ==
  ASSUME LinesInv, NEW i \in DOMAIN handled
  PROVE  /\ handled[i].line \in Lines /\ handled[i].at \in Times
         /\ handled[i].metric = InsertMetric(handled[i].line, handled[i].at)
<1>1. handled[i] \in HandledLines
  BY DEF LinesInv
<1> QED
  BY <1>1 DEF HandledLines

LEMMA SeriesFound ==
  LinesInv => SeriesIdentity
<1> SUFFICES ASSUME LinesInv, NEW i \in Accepted, NEW j \in Accepted
             PROVE  /\ handled[i].metric.timestamp <= handled[i].at
                    /\ IsInjective(SentTags(i)) /\ IsInjective(SentTags(j)) =>
                         /\ (handled[i].metric.id = handled[j].metric.id) = SameSeries(i, j)
                         /\ SameSeries(i, j) /\ handled[i].metric.kind = handled[j].metric.kind =>
                              Shipped(handled[i].metric) = Shipped(handled[j].metric)
  BY DEF SeriesIdentity
<1>1. PICK a : a = handled[i].metric
  OBVIOUS
<1>2. PICK b : b = handled[j].metric
  OBVIOUS
<1>3. PICK k, l : k = handled[i].line /\ l = handled[j].line
  OBVIOUS
<1>4. k \in Lines /\ l \in Lines /\ Filed(k, handled[i].at, a) /\ Filed(l, handled[j].at, b)
  BY <1>1, <1>2, <1>3, HandledOne, TakenIsFiled DEF Accepted
<1>5. SentTags(i) = TagsSent(k) /\ SentTags(j) = TagsSent(l)
  BY <1>3 DEF SentTags, TagsSent
<1>6. ASSUME IsInjective(TagsSent(k)), IsInjective(TagsSent(l))
      PROVE  a.tags = b.tags <=> ToSet(TagsSent(k)) = ToSet(TagsSent(l))
  <2>1. PICK s, t : s = TagsSent(k) /\ t = TagsSent(l)
    OBVIOUS
  <2>2. SortTags(Dedup(s)) = SortTags(Dedup(t)) <=> ToSet(s) = ToSet(t)
    BY <1>4, <1>6, <2>1, SentIsTags, SortedAlike
  <2> QED
    BY <1>4, <2>1, <2>2 DEF Filed
<1>7. ASSUME IsInjective(TagsSent(k)), IsInjective(TagsSent(l))
      PROVE  a.id = b.id <=> SameSeries(i, j)
  BY <1>1, <1>2, <1>4, <1>5, <1>6, <1>7 DEF Filed, SameSeries
<1>8. ASSUME IsInjective(TagsSent(k)), IsInjective(TagsSent(l)), SameSeries(i, j), a.kind = b.kind
      PROVE  Shipped(a) = Shipped(b)
  <2>1. a.name = b.name /\ a.timestamp = b.timestamp /\ a.tags = b.tags
    BY <1>1, <1>2, <1>5, <1>6, <1>8 DEF SameSeries
  <2> QED
    BY <1>8, <2>1 DEF Shipped
<1> QED
  BY <1>1, <1>2, <1>4, <1>5, <1>7, <1>8 DEF Filed, SameSeries

LEMMA FieldsInAnyOrder ==
  LinesInv => OptionalFieldsAnyOrder
<1> SUFFICES ASSUME LinesInv, NEW i \in DOMAIN handled, NEW j \in DOMAIN handled,
                    [handled[i].line EXCEPT !.fields = <<>>] = [handled[j].line EXCEPT !.fields = <<>>],
                    ToSet(handled[i].line.fields) = ToSet(handled[j].line.fields),
                    Distinct(handled[i].line.fields), Distinct(handled[j].line.fields),
                    handled[i].at = handled[j].at
             PROVE  handled[i].metric = handled[j].metric
  BY DEF OptionalFieldsAnyOrder, Distinct
<1>1. PICK a, b, at : a = handled[i].line /\ b = handled[j].line /\ at = handled[i].at
  OBVIOUS
<1>2. /\ a \in Lines /\ b \in Lines
      /\ handled[i].metric = InsertMetric(a, at) /\ handled[j].metric = InsertMetric(b, at)
  BY <1>1, HandledOne
<1>3. InsertMetric(a, at) = InsertMetric(b, at)
  BY <1>1, <1>2, AnyOrder
<1> QED
  BY <1>2, <1>3

\* Whatever lines arrive under whichever namespace, base tags and clock: between
\* lines that repeat no tag two ids agree exactly when name, bucket and set of tags
\* do, such lines are shipped alike, nothing is filed under a bucket that has not
\* begun, and the order of optional fields makes no difference (metric.rs, parse and
\* id; aggregator/core.rs, build_metric and build_sketch).
THEOREM LinesAlwaysMeet == LinesSpec => []LinesOfASeriesMeet
<1>1. LinesInit => LinesInv
  BY DEF LinesInit, LinesInv
<1>2. LinesInv /\ [LinesNext]_lineVars => LinesInv'
  BY LinesInvStep
<1>3. LinesInv => LinesOfASeriesMeet
  BY SeriesFound, FieldsInAnyOrder DEF LinesOfASeriesMeet
<1> QED
  BY <1>1, <1>2, <1>3, PTL DEF LinesSpec

=============================================================================
