--------------------------- MODULE MetricParsing ---------------------------
(***************************************************************************)
(* From a DogStatsD line to the metric that is shipped                     *)
(* (crates/dogstatsd/src/metric.rs, origin.rs, util.rs, dogstatsd.rs):     *)
(* mandatory and optional fields, tags, the ten-second bucket, the id the  *)
(* aggregator finds contexts by, the namespace and the origin.             *)
(*                                                                         *)
(* A line is [form, name, values, type, fields]; a name is the sequence of *)
(* its dot-separated parts, a tag is <<key, value>>, an optional field is  *)
(* [prefix, text, n, tags].  Ids are exact: hash collisions are left out.  *)
(***************************************************************************)
EXTENDS Integers, Sequences, FiniteSets, SequencesExt, Functions

CONSTANTS
  Lines,       \* the lines that may arrive
  Namespaces,  \* DD_STATSD_METRIC_NAMESPACE, as parts: <<>> is none
  Letters,     \* parts a namespace may start with: a letter first
  Words,       \* parts without any character a namespace may not have
  BaseTags,    \* the tags the aggregator was created with
  TagOrder,    \* every tag, in sort order
  MaxTags,     \* MAX_TAGS
  Times,       \* what the clock may show
  MaxLines     \* bound: lines received

VARIABLES
  namespace,  \* parse_metric_namespace's result, <<>> for none
  base,       \* the aggregator's base tags
  lineTime,   \* the clock
  handled     \* history: [line, at, metric] of every line handled

lineVars == <<namespace, base, lineTime, handled>>

\* The clock shows no time before 1970, and every tag a line may have is ordered.
ASSUME MetricParsingAssumption ==
  /\ Times \subseteq Nat
  /\ DOMAIN TagOrder = 1 .. Len(TagOrder) /\ IsInjective(TagOrder)
  /\ \A line \in Lines :
       /\ DOMAIN line = {"form", "name", "values", "type", "fields"}
       /\ Len(line.fields) \in Nat /\ DOMAIN line.fields = 1 .. Len(line.fields)
       /\ \A i \in DOMAIN line.fields :
            line.fields[i].n \in Int /\ line.fields[i].tags \in Seq(ToSet(TagOrder))

\* The prefixes of the optional fields.
TagsPrefix == "#"
TimePrefix == "T"
RatePrefix == "@"

Garbled == -1  \* a number that does not parse

-----------------------------------------------------------------------------
(* Tags.                                                                   *)

Rank(tag) == CHOOSE i \in DOMAIN TagOrder : TagOrder[i] = tag

\* sort_unstable: equal tags are the same tag, so that any way of sorting will do.
InsertTag(sorted, tag) ==
  InsertAt(sorted, Cardinality({k \in DOMAIN sorted : Rank(sorted[k]) < Rank(tag)}) + 1, tag)

SortTags(tags) ==
  LET upTo[i \in 0 .. Len(tags)] ==
        IF i = 0 THEN <<>> ELSE InsertTag(upTo[i - 1], tags[i])
  IN upTo[Len(tags)]

\* Vec::dedup removes a tag that equals the one before it.
Dedup(tags) ==
  LET upTo[i \in 0 .. Len(tags)] ==
        IF i = 0 THEN <<>>
        ELSE IF i > 1 /\ tags[i] = tags[i - 1] THEN upTo[i - 1]
             ELSE Append(upTo[i - 1], tags[i])
  IN upTo[Len(tags)]

\* Mutant: the tags are left in the order they came in.
ParseTagsUnsorted(tags) ==
  IF Len(Dedup(tags)) > MaxTags THEN [ok |-> FALSE, tags |-> <<>>]
  ELSE [ok |-> TRUE, tags |-> Dedup(tags)]

\* SortedTags::parse.
ParseTags(tags) ==
  IF Len(Dedup(tags)) > MaxTags THEN [ok |-> FALSE, tags |-> <<>>]
  ELSE [ok |-> TRUE, tags |-> SortTags(Dedup(tags))]

\* SortedTags::extend.
Extend(tags, other) == SortTags(Dedup(tags \o other))

FindAll(tags, key) == {tags[i][2] : i \in {j \in DOMAIN tags : tags[j][1] = key}}

\* Every dd.internal.resource tag whose value is itself a pair.
ToResources(tags) ==
  {v \in FindAll(tags, "dd.internal.resource") : v = "kind:name"}

-----------------------------------------------------------------------------
(* Time, identity, origin.                                                 *)

\* Integer division truncates towards zero.
Bucket(t) == IF t < 0 THEN -((-t \div 10) * 10) ELSE (t \div 10) * 10
TimestampToBucket(t, at) == IF t > at THEN Bucket(at) ELSE Bucket(t)

Id(name, tags, timestamp) == <<name, timestamp, tags>>

StartsWith(name, parts) ==
  Len(name) >= Len(parts) /\ SubSeq(name, 1, Len(parts)) = parts

\* The prefixes "datadog.", "jvm." and "runtime." end in a dot: more parts follow.
Under(name, part) == StartsWith(name, <<part>>) /\ Len(name) > 1

OriginService(name) ==
  IF Under(name, "jvm") \/ Under(name, "runtime") THEN "runtime"
  ELSE IF \E p \in {<<"aws", "lambda">>, <<"gcp", "run">>, <<"azure", "functions">>} :
            StartsWith(name, p)
       THEN "enhanced" ELSE "custom"

OriginCategory(tags) ==
  LET origins == FindAll(tags, "origin")
  IN CASE FindAll(tags, "function_arn") # {} -> "lambda"
       [] "appservice" \in origins -> "appservice"
       [] "cloudrun" \in origins -> "cloudrun"
       [] "containerapp" \in origins -> "containerapp"
       [] "azurefunction" \in origins -> "azurefunction"
       [] OTHER -> "none"

FindOrigin(name, tags) ==
  IF Under(name, "datadog") \/ OriginCategory(tags) = "none" THEN <<>>
  ELSE <<OriginService(name), OriginCategory(tags)>>

-----------------------------------------------------------------------------
(* Lines.                                                                  *)

Rejected == [ok |-> FALSE]

\* The last field of a prefix wins; any bad one rejects the line.
BadField(f) ==
  \/ f.prefix = TagsPrefix /\ ~ParseTags(f.tags).ok
  \/ f.prefix \in {TimePrefix, RatePrefix} /\ f.text # "number"

LastOf(fields, prefix) ==
  LET found == {i \in DOMAIN fields : fields[i].prefix = prefix}
  IN IF found = {} THEN 0 ELSE CHOOSE i \in found : \A j \in found : j <= i

Parse(line, at) ==
  IF \/ line.form # "metric"
     \/ line.name = <<>> \/ line.values = <<>>
     \/ line.type \notin {"c", "g", "d"}
     \/ Head(line.values) = Garbled
     \/ \E i \in DOMAIN line.fields : BadField(line.fields[i])
  THEN Rejected
  ELSE LET t == LastOf(line.fields, TimePrefix)
           s == LastOf(line.fields, TagsPrefix)
           bucket == TimestampToBucket(IF t = 0 THEN at ELSE line.fields[t].n, at)
           tags == IF s = 0 THEN <<>> ELSE ParseTags(line.fields[s].tags).tags
       IN [ok |-> TRUE, name |-> line.name, kind |-> line.type,
           value |-> Head(line.values), tags |-> tags, timestamp |-> bucket,
           id |-> Id(line.name, tags, bucket)]

\* parse_metric_namespace.
ParseMetricNamespace(ns) ==
  IF ns = <<>> \/ Head(ns) \notin Letters \/ ~(ToSet(ns) \subseteq Words) THEN <<>> ELSE ns

PrependNamespace(metric) ==
  LET name == namespace \o metric.name
  IN [metric EXCEPT !.name = name, !.id = Id(name, metric.tags, metric.timestamp)]

\* insert_metrics: events, service checks and Lambda's own invocation count are
\* passed over, the rest is parsed and put under the namespace.
Skipped(line) ==
  \/ line.form \in {"empty", "service_check", "event"}
  \/ StartsWith(line.name, <<"aws", "lambda", "enhanced", "invocations">>)

InsertMetric(line, at) ==
  IF Skipped(line) \/ ~Parse(line, at).ok THEN Rejected
  ELSE IF namespace = <<>> THEN Parse(line, at)
       ELSE PrependNamespace(Parse(line, at))

\* build_metric and build_sketch.  Only series carry resources.
Shipped(metric) ==
  LET tags == Extend(base, metric.tags)
  IN [name |-> metric.name, timestamp |-> metric.timestamp, tags |-> ToSet(tags),
      origin |-> FindOrigin(metric.name, tags),
      resources |-> IF metric.kind = "d" THEN {} ELSE ToResources(metric.tags)]

-----------------------------------------------------------------------------

LinesInit ==
  /\ \E ns \in Namespaces : namespace = ParseMetricNamespace(ns)
  /\ base \in BaseTags
  /\ lineTime \in Times
  /\ handled = <<>>

Receive(line, at) ==
  /\ Len(handled) < MaxLines
  /\ at >= lineTime
  /\ lineTime' = at
  /\ handled' = Append(handled, [line |-> line, at |-> at, metric |-> InsertMetric(line, at)])
  /\ UNCHANGED <<namespace, base>>

LinesNext == \E line \in Lines, at \in Times : Receive(line, at)

LinesSpec == LinesInit /\ [][LinesNext]_lineVars

-----------------------------------------------------------------------------
(* Properties.                                                             *)

Accepted == {i \in DOMAIN handled : handled[i].metric.ok}
SentTags(i) ==
  LET fields == handled[i].line.fields
      s == LastOf(fields, TagsPrefix)
  IN IF s = 0 THEN <<>> ELSE fields[s].tags

SameSeries(i, j) ==
  LET a == handled[i].metric
      b == handled[j].metric
  IN a.name = b.name /\ a.timestamp = b.timestamp /\ ToSet(SentTags(i)) = ToSet(SentTags(j))

\* The aggregator finds a context by the id.  Between lines that repeat no tag,
\* two ids agree exactly when name, bucket and set of tags do, in whatever order
\* the tags came and whether or not a timestamp was given; such lines are shipped
\* with the same tags, and with the same origin and resources for the same type.
\* Nothing is filed under a bucket that has not begun.
SeriesIdentity ==
  \A i, j \in Accepted :
    /\ handled[i].metric.timestamp <= handled[i].at
    /\ IsInjective(SentTags(i)) /\ IsInjective(SentTags(j)) =>
         /\ (handled[i].metric.id = handled[j].metric.id) = SameSeries(i, j)
         /\ SameSeries(i, j) /\ handled[i].metric.kind = handled[j].metric.kind =>
              Shipped(handled[i].metric) = Shipped(handled[j].metric)

\* Optional fields may come in any order: two lines that differ only in the order
\* of fields with different prefixes fare the same.
OptionalFieldsAnyOrder ==
  \A i, j \in DOMAIN handled :
    LET a == handled[i].line
        b == handled[j].line
        prefixes(l) == [k \in DOMAIN l.fields |-> l.fields[k].prefix]
    IN /\ [a EXCEPT !.fields = <<>>] = [b EXCEPT !.fields = <<>>]
       /\ ToSet(a.fields) = ToSet(b.fields)
       /\ IsInjective(prefixes(a)) /\ IsInjective(prefixes(b))
       /\ handled[i].at = handled[j].at
       => handled[i].metric = handled[j].metric

\* Both: two lines get the same aggregation id exactly when they are of one
\* series, however their tags and optional fields are ordered (metric.rs, parse
\* and id).
LinesOfASeriesMeet == SeriesIdentity /\ OptionalFieldsAnyOrder

\* What the comment on id() says: duplicate tags are removed, so that a set of
\* tags has one id.
SameTagSetSameId ==
  \A i, j \in Accepted :
    SameSeries(i, j) => handled[i].metric.id = handled[j].metric.id
=============================================================================
