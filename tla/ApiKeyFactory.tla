--------------------------- MODULE ApiKeyFactory ---------------------------
(***************************************************************************)
(* The API key shared by all flushes, crates/dogstatsd/src/api_key.rs      *)
(* (ApiKeyFactory::Dynamic).  `get_api_key` may run on several tasks; the  *)
(* one that swaps the flag `loading_api_key` calls the resolver, the       *)
(* others use the old key, or wait for the first one.                      *)
(***************************************************************************)
EXTENDS Naturals

CONSTANTS
  Procs,     \* tasks that call get_api_key, again and again
  Keys,      \* what the resolver may return; some member stands for None
  Reload,    \* whether reload_interval is set
  Interval,  \* reload_interval, in ticks
  CanDrop    \* whether a call may be dropped at an await

ASSUME ApiKeyFactoryAssumption ==
  Reload \in BOOLEAN /\ Interval \in Nat /\ CanDrop \in BOOLEAN

VARIABLES
  now,       \* the clock, from 1 on
  apiKey, lastLoad,  \* ApiKeyState; lastLoad = 0 stands for None
  loading,   \* loading_api_key
  pc,        \* pc[p]: where the call is
  found, foundAt,  \* found[p]: what the resolver returned to p, and when
  \* history
  loads      \* number of calls of the resolver

vars == <<now, apiKey, lastLoad, loading, pc, found, foundAt, loads>>

None == "None"   \* api_key before the first load

Init ==
  /\ now = 1 /\ apiKey = None /\ lastLoad = 0 /\ loading = FALSE
  /\ pc = [p \in Procs |-> "idle"]
  /\ found = [p \in Procs |-> None] /\ foundAt = [p \in Procs |-> 0]
  /\ loads = 0

Goto(p, l) == pc' = [pc EXCEPT ![p] = l]

\* should_load_api_key.
ShouldLoad == lastLoad = 0 \/ (Reload /\ now > lastLoad + Interval)

\* get_api_key, up to the first check.
Call(p) ==
  /\ pc[p] = "idle"
  /\ Goto(p, IF ShouldLoad THEN "lock" ELSE "read")
  /\ UNCHANGED <<now, apiKey, lastLoad, loading, found, foundAt, loads>>

\* Mutant: the flag is looked at in one step and set in another.
LockBlindly(p) ==
  /\ pc[p] = "lock"
  /\ loading' = TRUE /\ Goto(p, "check")
  /\ UNCHANGED <<now, apiKey, lastLoad, found, foundAt, loads>>

\* compare_exchange on the flag.
Lock(p) ==
  /\ pc[p] = "lock"
  /\ loading' = TRUE
  /\ Goto(p, IF loading THEN "wait" ELSE "check")
  /\ UNCHANGED <<now, apiKey, lastLoad, found, foundAt, loads>>

\* Mutant: no second check once the flag is held.
CheckOnce(p) ==
  /\ pc[p] = "check"
  /\ Goto(p, "resolve") /\ loads' = loads + 1
  /\ UNCHANGED <<now, apiKey, lastLoad, loading, found, foundAt>>

\* The second check; if a load is still needed the resolver is called.
Check(p) ==
  /\ pc[p] = "check"
  /\ \/ ShouldLoad /\ Goto(p, "resolve") /\ loads' = loads + 1
     \/ ~ShouldLoad /\ Goto(p, "release") /\ UNCHANGED loads
  /\ UNCHANGED <<now, apiKey, lastLoad, loading, found, foundAt>>

\* The resolver answers; the load time is taken before the lock is waited for.
Resolve(p, key) ==
  /\ pc[p] = "resolve"
  /\ found' = [found EXCEPT ![p] = key] /\ foundAt' = [foundAt EXCEPT ![p] = now]
  /\ Goto(p, "store")
  /\ UNCHANGED <<now, apiKey, lastLoad, loading, loads>>

Store(p) ==
  /\ pc[p] = "store"
  /\ apiKey' = found[p] /\ lastLoad' = foundAt[p]
  /\ Goto(p, "release")
  /\ UNCHANGED <<now, loading, found, foundAt, loads>>

Release(p) ==
  /\ pc[p] = "release"
  /\ loading' = FALSE /\ Goto(p, "read")
  /\ UNCHANGED <<now, apiKey, lastLoad, found, foundAt, loads>>

\* Mutant: the loser of the race does not wait for the first load.
WaitNot(p) ==
  /\ pc[p] = "wait"
  /\ Goto(p, "read")
  /\ UNCHANGED <<now, apiKey, lastLoad, loading, found, foundAt, loads>>

\* Mutant: the loser waits for a key instead of a load.
WaitForKey(p) ==
  /\ pc[p] = "wait" /\ apiKey # None
  /\ Goto(p, "read")
  /\ UNCHANGED <<now, apiKey, lastLoad, loading, found, foundAt, loads>>

\* The loser of the race yields until there has been a load.
Wait(p) ==
  /\ pc[p] = "wait" /\ lastLoad # 0
  /\ Goto(p, "read")
  /\ UNCHANGED <<now, apiKey, lastLoad, loading, found, foundAt, loads>>

\* The key is read and returned.
Read(p) ==
  /\ pc[p] = "read"
  /\ Goto(p, "idle")
  /\ UNCHANGED <<now, apiKey, lastLoad, loading, found, foundAt, loads>>

Step(p) ==
  \/ Lock(p) \/ Check(p) \/ Store(p) \/ Release(p) \/ Wait(p) \/ Read(p)
  \/ \E key \in Keys : Resolve(p, key)

\* The future is dropped: nothing gives the flag back.
Drop(p) ==
  /\ CanDrop /\ pc[p] # "idle"
  /\ Goto(p, "idle")
  /\ UNCHANGED <<now, apiKey, lastLoad, loading, found, foundAt, loads>>

Tick ==
  /\ now' = now + 1
  /\ UNCHANGED <<apiKey, lastLoad, loading, pc, found, foundAt, loads>>

Next == Tick \/ \E p \in Procs : Call(p) \/ Step(p) \/ Drop(p)

\* Tasks are scheduled fairly and the resolver answers.
Spec == Init /\ [][Next]_vars /\ \A p \in Procs : WF_vars(Step(p))

-----------------------------------------------------------------------------
(* Properties.                                                             *)

Labels == {"idle", "lock", "check", "resolve", "store", "release", "wait", "read"}

TypeOK ==
  /\ now \in Nat \ {0} /\ lastLoad \in 0..now
  /\ apiKey \in Keys \cup {None}
  /\ loading \in BOOLEAN
  /\ pc \in [Procs -> Labels]
  /\ found \in [Procs -> Keys \cup {None}] /\ foundAt \in [Procs -> 0..now]
  /\ loads \in Nat

\* The resolver, often a call to a secrets service, never runs twice at the
\* same time, however many flushes find the key missing or expired.
SingleFlight ==
  \A p, q \in Procs : pc[p] = "resolve" /\ pc[q] = "resolve" => p = q

\* The resolver is called at most once per reload interval, and only once if
\* there is none, whatever the interleaving of checks and loads.
RateLimited ==
  loads # 0 => IF Reload THEN (loads - 1) * (Interval + 1) <= now - 1 ELSE loads = 1

\* No call goes on to read the key before a first load has completed, so None
\* is returned only when the resolver said so.
NoReadBeforeLoad == \A p \in Procs : pc[p] = "read" => lastLoad # 0

\* The flag is set and no call is left to reset it.
Orphaned == loading /\ \A p \in Procs : pc[p] \notin {"check", "resolve", "store", "release"}

\* Every call returns, also one that waits for the load of another, unless a
\* call was dropped while it held the flag.
ReturnsUnlessOrphaned == \A p \in Procs : pc[p] # "idle" ~> pc[p] = "idle" \/ Orphaned

\* Every call returns, as the comment in get_api_key expects.
CallReturns == \A p \in Procs : pc[p] # "idle" ~> pc[p] = "idle"

=============================================================================
