----------------------------- MODULE CompatLoop -----------------------------
(***************************************************************************)
(* The loop the compat agent lives in                                      *)
(* (crates/datadog-serverless-compat/src/main.rs) and the collectors it    *)
(* drives (crates/datadog-metrics-collector/src/).                         *)
(*                                                                         *)
(* Three tickers share one select.  The log flush is awaited inside its    *)
(* branch and holds the others up; their ticks then come in a burst, the   *)
(* default of tokio's interval.  The metrics flush is spawned and may      *)
(* overlap the next one.  Time passes in Advance, no step is urgent.       *)
(***************************************************************************)
EXTENDS Integers, Sequences, FiniteSets

CONSTANTS
  FlushEvery,     \* DOGSTATSD_FLUSH_INTERVAL
  InstanceEvery,  \* INSTANCE_METRICS_COLLECTION_INTERVAL_SECS
  CpuEvery,       \* CPU_METRICS_COLLECTION_INTERVAL_SECS
  Setups,         \* which of flusher, logs, instance and cpu were started
  MaxTime,        \* bound: how far the clock runs
  MaxResets       \* bound: times the container's CPU counter starts again

ASSUME CompatLoopAssumption ==
  /\ FlushEvery \in Nat \ {0} /\ InstanceEvery \in Nat \ {0} /\ CpuEvery \in Nat \ {0}
  /\ Setups \subseteq [flusher : BOOLEAN, logs : BOOLEAN, instance : BOOLEAN, cpu : BOOLEAN]

VARIABLES
  setup,    \* what startup left: the parts that are there
  now,      \* the clock
  due,      \* per ticker: when it fires next
  busy,     \* the loop is inside the log flush
  usage,    \* the container's CPU counter: its value and how often it restarted
  last,     \* the collector's last reading, Unread before the first
  samples,  \* history: CPU samples submitted, with the readings they span
  flights,  \* metrics flushes under way, as the time each was spawned
  fired     \* history: per ticker, how often it fired

loopVars == <<setup, now, due, busy, usage, last, samples, flights, fired>>

Tickers == {"flush", "instance", "cpu"}
Period == [t \in Tickers |-> CASE t = "flush" -> FlushEvery
                               [] t = "instance" -> InstanceEvery
                               [] t = "cpu" -> CpuEvery]
Unread == [value |-> -1, life |-> 0, at |-> 0]

-----------------------------------------------------------------------------

\* The first tick of each interval was taken before the loop.
LoopInit ==
  /\ setup \in Setups
  /\ now = 0
  /\ due = Period
  /\ busy = FALSE
  /\ usage = [value |-> 0, life |-> 0]
  /\ last = Unread
  /\ samples = <<>>
  /\ flights = {}
  /\ fired = [t \in Tickers |-> 0]

\* Interval::poll_tick under MissedTickBehavior::Burst.
Fires(t) ==
  /\ ~busy
  /\ now >= due[t]
  /\ due' = [due EXCEPT ![t] = @ + Period[t]]
  /\ fired' = [fired EXCEPT ![t] = @ + 1]

\* The flush branch up to the await of log_flusher.flush.
Flush ==
  /\ Fires("flush")
  /\ flights' = IF setup.flusher THEN flights \cup {fired'["flush"]} ELSE flights
  /\ busy' = setup.logs
  /\ UNCHANGED <<setup, now, usage, last, samples>>

LogFlushReturns ==
  /\ busy
  /\ busy' = FALSE
  /\ UNCHANGED <<setup, now, due, usage, last, samples, flights, fired>>

\* A spawned metrics flush ends; what it returns for a retry is dropped.
MetricsFlushEnds(f) ==
  /\ f \in flights
  /\ flights' = flights \ {f}
  /\ UNCHANGED <<setup, now, due, busy, usage, last, samples, fired>>

\* InstanceMetricsCollector::collect_and_submit: a gauge of 1.
CollectInstance ==
  /\ setup.instance
  /\ Fires("instance")
  /\ UNCHANGED <<setup, now, busy, usage, last, samples, flights>>

\* Mutant: the time that passed is not looked at.
ComputableAnyTime(reading) == reading.value >= last.value

\* compute_usage_rate_nc: no rate when the counter fell or no time passed.
Computable(reading) == reading.value >= last.value /\ reading.at > last.at

\* CpuMetricsCollector::collect_and_submit.  A reader that finds nothing leaves
\* the last reading alone; any other reading replaces it, whether or not a
\* sample came of it.
CollectCpu(readable) ==
  /\ setup.cpu
  /\ Fires("cpu")
  /\ LET reading == [value |-> usage.value, life |-> usage.life, at |-> now]
     IN IF ~readable THEN UNCHANGED <<last, samples>>
        ELSE /\ last' = reading
             /\ samples' = IF last # Unread /\ Computable(reading)
                           THEN Append(samples, [from |-> last, to |-> reading])
                           ELSE samples
  /\ UNCHANGED <<setup, now, busy, usage, flights>>

\* A second of life: the container may use CPU, or its counter start again.
Advance(used) ==
  /\ now < MaxTime
  /\ now' = now + 1
  /\ usage' = [usage EXCEPT !.value = @ + used]
  /\ UNCHANGED <<setup, due, busy, last, samples, flights, fired>>

CounterRestarts ==
  /\ usage.life < MaxResets
  /\ usage' = [value |-> 0, life |-> usage.life + 1]
  /\ UNCHANGED <<setup, now, due, busy, last, samples, flights, fired>>

LoopNext ==
  \/ Flush \/ LogFlushReturns \/ CollectInstance \/ CounterRestarts
  \/ \E f \in flights : MetricsFlushEnds(f)
  \/ \E readable \in BOOLEAN : CollectCpu(readable)
  \/ \E used \in 0 .. 1 : Advance(used)

LoopSpec == LoopInit /\ [][LoopNext]_loopVars

-----------------------------------------------------------------------------
(* Properties.                                                             *)

\* The CPU samples cover stretches of time of positive length that do not
\* overlap and follow one another, whatever was skipped, failed or held up by a
\* log flush: no CPU time is reported twice.  Within one life of the counter the
\* reported time is at most what the container used.
CpuSamplesTile ==
  /\ \A i \in DOMAIN samples : samples[i].from.at < samples[i].to.at
  /\ \A i, j \in DOMAIN samples : i < j => samples[i].to.at <= samples[j].from.at
  /\ \A i, j \in DOMAIN samples :
       i < j /\ samples[i].to.life = samples[j].from.life =>
         samples[i].to.value <= samples[j].from.value

\* A log flush holds ticks up but loses none: once a ticker has nothing due, it
\* has fired as often as its period fits into the time that passed, and never
\* more often.
TicksCaughtUp ==
  \A t \in Tickers :
    /\ fired[t] * Period[t] <= now
    /\ due[t] > now => fired[t] = now \div Period[t]

\* The loop's held-up ticks are made up for, and the CPU samples taken on them
\* cover no time twice (main.rs, the select loop; azure_cpu.rs).
LoopKeepsTime == CpuSamplesTile /\ TicksCaughtUp

=============================================================================
