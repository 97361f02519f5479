-------------------------- MODULE MetadataReporter --------------------------
(***************************************************************************)
(* The environment metadata reporter of the compat agent                   *)
(* (crates/metadata/src/): one report at startup, one every METADATA_-     *)
(* INTERVAL afterwards, each tried MAX_ATTEMPTS times.                     *)
(*                                                                         *)
(* The process may be frozen between any two steps, as serverless          *)
(* instances are: time passes in TimePasses and no step is urgent.         *)
(***************************************************************************)
EXTENDS Integers, Sequences, FiniteSets

CONSTANTS
  Platforms,          \* the environments the process may be started in
  Interval,           \* METADATA_INTERVAL
  MaxReportAttempts,  \* MAX_ATTEMPTS
  MaxClock            \* bound: how far the clock runs

ASSUME MetadataReporterAssumption ==
  Interval \in Nat \ {0} /\ MaxReportAttempts \in Nat \ {0}

VARIABLES
  platform,  \* the environment, one of Platforms
  identity,  \* the cloud identity as far as it is known
  stage,     \* where the reporter is
  clock,     \* the clock
  tick,      \* when the ticker fires next
  report,    \* the report being sent: its body, its attempt and when to go on
  sends      \* history: every request, as [body, at, status]

reporterVars == <<platform, identity, stage, clock, tick, report, sends>>

Unknown == "unknown"
NoReport == [body |-> [reason |-> "none", started |-> -1], attempt |-> 0, wake |-> 0]

-----------------------------------------------------------------------------
(* What the code computes.                                                 *)

\* is_metadata_enabled and is_supported.
Wanted == platform.enabled /\ platform.type \in {"AzureFunction", "CloudFunction"}

\* azure::collect_from: the site name and the resource id, both known.
AzureIdentity == [name |-> platform.name, region |-> platform.region, project |-> platform.project]
AzureKnown == platform.name # Unknown /\ platform.project # Unknown

\* gcp::identity_from_env: the name is required, the rest may be fetched.
GcpNamed == platform.name # Unknown

\* build_platform_data: both were in the environment or were fetched.
Complete(id) == id.region # Unknown /\ id.project # Unknown

\* payload::build_with_env.  The body is built once per report: its retries
\* carry the time the report was begun.
Build(reason, at) == [reason |-> reason, started |-> at]

ShouldRetryStatus(status) == status = 429 \/ status \in 500 .. 599

\* 1 << attempt.
RetryBackoff(attempt) ==
  LET shifted[n \in 0..attempt] == IF n = 0 THEN 1 ELSE 2 * shifted[n-1]
  IN  shifted[attempt]

\* Mutant: missed ticks come in a burst, tokio's default.
NextTickBurst(due, at) == due + Interval

\* Interval::poll_tick under MissedTickBehavior::Skip: the next multiple of the
\* period that is still to come.
NextTick(due, at) == at + Interval - ((at - due) % Interval)

-----------------------------------------------------------------------------

ReporterInit ==
  /\ platform \in Platforms
  /\ identity = [name |-> Unknown, region |-> Unknown, project |-> Unknown]
  /\ stage = "start"
  /\ clock = 0
  /\ tick = 0
  /\ report = NoReport
  /\ sends = <<>>

\* run_metadata_reporter up to platform::collect.
Start ==
  /\ stage = "start"
  /\ IF ~Wanted \/ ~platform.key \/ ~platform.site
     THEN stage' = "off" /\ UNCHANGED identity
     ELSE IF platform.type = "AzureFunction"
          THEN /\ identity' = AzureIdentity
               /\ stage' = IF AzureKnown THEN "collected" ELSE "off"
          ELSE IF GcpNamed
               THEN /\ identity' = [name |-> platform.name, region |-> platform.region,
                                    project |-> platform.project]
                    /\ stage' = "fetching"
               ELSE stage' = "off" /\ UNCHANGED identity
  /\ UNCHANGED <<platform, clock, tick, report, sends>>

\* fetch_region and fetch_project run together, each only when its part is
\* missing; an error, a status, a missing flavour or an oversized, empty or
\* unreadable body leaves the part unknown.
Fetched(region, project) ==
  /\ stage = "fetching"
  /\ region \in IF platform.region = Unknown THEN {Unknown, "fetched"} ELSE {platform.region}
  /\ project \in IF platform.project = Unknown THEN {Unknown, "fetched"} ELSE {platform.project}
  /\ identity' = [identity EXCEPT !.region = region, !.project = project]
  /\ stage' = IF Complete(identity') THEN "collected" ELSE "off"
  /\ UNCHANGED <<platform, clock, tick, report, sends>>

BeginReport(reason) ==
  /\ stage' = "sending"
  /\ report' = [body |-> Build(reason, clock), attempt |-> 0, wake |-> clock]

\* The client is built, the startup report begins.
StartupReport ==
  /\ stage = "collected"
  /\ IF platform.proxy THEN BeginReport("startup") ELSE stage' = "off" /\ UNCHANGED report
  /\ UNCHANGED <<platform, identity, clock, tick, sends>>

\* After the startup report the ticker is created and its first tick taken.
EndReport ==
  /\ stage' = "waiting"
  /\ tick' = IF report.body.reason = "startup" THEN clock + Interval ELSE tick
  /\ report' = NoReport

\* One turn of send_report's loop: status 0 is a transport error.
SendAttempt(status) ==
  /\ stage = "sending"
  /\ sends' = Append(sends, [body |-> report.body, at |-> clock, status |-> status])
  /\ IF (status = 0 \/ ShouldRetryStatus(status)) /\ report.attempt + 1 < MaxReportAttempts
     THEN /\ stage' = "sleeping"
          /\ report' = [report EXCEPT !.attempt = @ + 1,
                                      !.wake = clock + RetryBackoff(report.attempt)]
          /\ UNCHANGED tick
     ELSE EndReport
  /\ UNCHANGED <<platform, identity, clock>>

Wake ==
  /\ stage = "sleeping"
  /\ clock >= report.wake
  /\ stage' = "sending"
  /\ UNCHANGED <<platform, identity, clock, tick, report, sends>>

\* ticker.tick().await returns, the periodic report begins.
Tick ==
  /\ stage = "waiting"
  /\ clock >= tick
  /\ tick' = NextTick(tick, clock)
  /\ BeginReport("periodic")
  /\ UNCHANGED <<platform, identity, clock, sends>>

TimePasses ==
  /\ clock < MaxClock
  /\ clock' = clock + 1
  /\ UNCHANGED <<platform, identity, stage, tick, report, sends>>

ReporterNext ==
  \/ Start
  \/ \E region, project \in {Unknown, "fetched", platform.region, platform.project} : Fetched(region, project)
  \/ StartupReport
  \/ \E status \in {0, 202, 400, 429, 500} : SendAttempt(status)
  \/ Wake \/ Tick \/ TimePasses

ReporterSpec == ReporterInit /\ [][ReporterNext]_reporterVars

-----------------------------------------------------------------------------
(* Properties.                                                             *)

Bodies == {sends[i].body : i \in DOMAIN sends}
PeriodicBodies == {b \in Bodies : b.reason = "periodic"}
StartupBodies == {b \in Bodies : b.reason = "startup"}

\* Counted from the end of the startup report, every interval sees at most one
\* periodic report begin, however long the process was frozen or a report took:
\* missed ticks are skipped, they do not come in a burst.
OneReportPerInterval ==
  \A b, c \in PeriodicBodies :
    b.started < c.started =>
      \E edge \in (b.started + 1) .. c.started : (tick - edge) % Interval = 0

\* Datadog sees a body again only after a transient failure, at most
\* MaxReportAttempts times, and every attempt belongs to an agent whose key, site
\* and whole cloud identity are known.
ResentOnlyWhenTransient ==
  /\ sends # <<>> => platform.key /\ platform.site /\ identity.name # Unknown /\ identity.project # Unknown
  /\ Cardinality(StartupBodies) <= 1
  /\ \A b \in Bodies :
       LET tries == {i \in DOMAIN sends : sends[i].body = b}
       IN /\ Cardinality(tries) <= MaxReportAttempts
          /\ \A i, j \in tries :
               i < j => /\ sends[i].status = 0 \/ ShouldRetryStatus(sends[i].status)
                        /\ sends[j].at >= sends[i].at + RetryBackoff(0)

\* The metadata reporter sends at most one periodic report per interval after
\* any freeze, and resends one only after a transient failure (reporter.rs,
\* run_metadata_reporter and send_report).
ReportsAreRare == OneReportPerInterval /\ ResentOnlyWhenTransient

=============================================================================
