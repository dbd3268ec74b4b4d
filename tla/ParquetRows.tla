---------------------------- MODULE ParquetRows ----------------------------
(***************************************************************************)
(* What the cold-storage exporter makes of one line of a source            *)
(* (kof-operator/internal/coldstorage: vmclient.go, vlogs_client.go,       *)
(* vtraces_client.go, parquet.go).  A decoded line is a function from      *)
(* field names to strings; a field of a span is named by its prefix        *)
(* ("resource_attr", "span_attr", or "top" for none) and the rest of its   *)
(* name.  A row has columns, named here after the fields promoted to them, *)
(* and attributes, a function that holds the fields without a column.      *)
(***************************************************************************)
EXTENDS Naturals, Sequences

CONSTANTS
  NumberOf,    \* strconv.ParseInt: the number each numeric string stands for
  TimeOf       \* time.Parse: the time in nanoseconds each RFC 3339 string stands for

\* Reading a missing key of a Go map gives the empty string.
Field(raw, k) == IF k \in DOMAIN raw THEN raw[k] ELSE ""

Only(raw, keys) == [k \in DOMAIN raw \cap keys |-> raw[k]]

NonEmpty(raw) == {k \in DOMAIN raw : raw[k] # ""}

Number(s) == IF s \in DOMAIN NumberOf THEN NumberOf[s] ELSE 0

Time(s) == IF s \in DOMAIN TimeOf THEN TimeOf[s] ELSE 0

\* json.Marshal of the attributes; the column is left null when there are none.
Marshal(attributes) == {<<k, attributes[k]>> : k \in DOMAIN attributes}

----------------------------------------------------------------------------
(* Metrics.  A line is one series: its labels, its values and the times of *)
(* the values, as two lists.                                               *)

MetricColumns == {"__name__", "tenant", "cluster", "cluster_namespace", "namespace",
                  "pod", "node", "job"}

\* A JSON value is [kind, text]; non-finite numbers arrive as strings.  Decoding null
\* into a float64 succeeds and leaves 0.  No result stands for an error.
parseVMValue(v) ==
  IF v.kind = "number" THEN {v.text}
  ELSE IF v.kind = "null" THEN {"0"}
  ELSE IF v.kind # "string" THEN {}
  ELSE CASE v.text = "NaN" -> {"NaN"}
         [] v.text \in {"Infinity", "+Infinity"} -> {"+Inf"}
         [] v.text = "-Infinity" -> {"-Inf"}
         [] OTHER -> {}

\* The series is refused when the two lists differ in length; a value that cannot be
\* parsed is skipped, the others are kept.
ValidSeries(line) == Len(line.values) = Len(line.timestamps)

ParseVMExportLine(line) ==
  {[columns |-> [c \in MetricColumns |-> Field(line.metric, c)],
    attributes |-> Only(line.metric, DOMAIN line.metric \ MetricColumns),
    timestamp |-> line.timestamps[i],
    value |-> CHOOSE v \in parseVMValue(line.values[i]) : TRUE] :
      i \in {j \in DOMAIN line.values : parseVMValue(line.values[j]) # {}}}

\* MetricsParquetWriter.Write
MetricParquetRow(row) == [row EXCEPT !.attributes = Marshal(@)]

----------------------------------------------------------------------------
(* Logs.                                                                   *)

LogColumns == {"_msg", "severity", "service.name", "trace_id", "span_id",
               "k8s.cluster.namespace", "k8s.namespace.name", "k8s.pod.name", "k8s.node.name"}

\* Fields that are not repeated among the attributes.
LogReserved == LogColumns \cup {"_time", "_stream", "_stream_id", "k8s.cluster.name", "tenant"}

\* Tenant and cluster are those of the window, not those of the line.
parseVLogsLine(raw, tenant, cluster) ==
  [timestamp |-> Time(Field(raw, "_time")),
   columns |-> [c \in LogColumns |-> Field(raw, c)],
   attributes |-> Only(raw, NonEmpty(raw) \ LogReserved),
   tenant |-> tenant, cluster |-> cluster]

\* LogsParquetWriter.Write
LogParquetRow(row) == [row EXCEPT !.attributes = Marshal(@)]

----------------------------------------------------------------------------
(* Traces.                                                                 *)

Top(names) == {"top"} \X names
Resource(names) == {"resource_attr"} \X names
Span(names) == {"span_attr"} \X names

ResourceColumns == Resource({"k8s.cluster.namespace", "k8s.namespace.name", "k8s.pod.name",
                             "k8s.node.name", "service.name"})

TopColumns == Top({"trace_id", "span_id", "parent_span_id", "name", "status_message"})

\* Top-level fields that do not become attributes.
TopReserved ==
  TopColumns \cup Top({"_time", "_msg", "_stream", "_stream_id", "kind", "duration", "flags",
                       "start_time_unix_nano", "end_time_unix_nano", "status_code",
                       "scope_name", "scope_version"})

spanKindName(s) ==
  CASE s = "1" -> "SPAN_KIND_INTERNAL"
    [] s = "2" -> "SPAN_KIND_SERVER"
    [] s = "3" -> "SPAN_KIND_CLIENT"
    [] s = "4" -> "SPAN_KIND_PRODUCER"
    [] s = "5" -> "SPAN_KIND_CONSUMER"
    [] OTHER -> "SPAN_KIND_UNSPECIFIED"

statusCodeName(s) ==
  CASE s = "1" -> "STATUS_CODE_OK"
    [] s = "2" -> "STATUS_CODE_ERROR"
    [] OTHER -> "STATUS_CODE_UNSET"

\* The W3C sampled flag is bit 8 of the stored flags.
TraceFlags(s) == (Number(s) \div 256) % 2

\* start_time_unix_nano, or _time when that is no number.
SpanTimestamp(raw) ==
  IF Field(raw, <<"top", "start_time_unix_nano">>) \in DOMAIN NumberOf
  THEN Number(Field(raw, <<"top", "start_time_unix_nano">>))
  ELSE Time(Field(raw, <<"top", "_time">>))

\* The fields stored under attribute n of a span.  When there are two, the one the
\* iteration over the map meets last is kept.
SpanAttributeFields(raw, n) ==
  NonEmpty(raw) \cap (Span({n}) \cup (Top({n}) \ TopReserved))

ScopeFields == [n \in {"otel.scope.name", "otel.scope.version"} |->
                  <<"top", IF n = "otel.scope.name" THEN "scope_name" ELSE "scope_version">>]

SpanAttributeNames(raw) ==
  {f[2] : f \in NonEmpty(raw) \cap {g \in DOMAIN raw : g[1] = "span_attr"}}
    \cup {f[2] : f \in (NonEmpty(raw) \cap {g \in DOMAIN raw : g[1] = "top"}) \ TopReserved}
    \cup {n \in DOMAIN ScopeFields : Field(raw, ScopeFields[n]) # ""}

\* The rows a span may become.
parseVTracesLine(raw, tenant, cluster) ==
  LET names == SpanAttributeNames(raw)
      from(n, last) ==
        IF n \in DOMAIN ScopeFields /\ Field(raw, ScopeFields[n]) # "" THEN ScopeFields[n]
        ELSE IF <<last, n>> \in SpanAttributeFields(raw, n) THEN <<last, n>>
        ELSE CHOOSE f \in SpanAttributeFields(raw, n) : TRUE
      resource == {f \in NonEmpty(raw) : f[1] = "resource_attr"}
                    \ (ResourceColumns \cup Resource({"k8s.cluster.name"}))
  IN  {[columns |-> [c \in TopColumns \cup ResourceColumns |-> Field(raw, c)],
        kind |-> spanKindName(Field(raw, <<"top", "kind">>)),
        status |-> statusCodeName(Field(raw, <<"top", "status_code">>)),
        timestamp |-> SpanTimestamp(raw),
        duration |-> Number(Field(raw, <<"top", "duration">>)),
        flags |-> TraceFlags(Field(raw, <<"top", "flags">>)),
        resource |-> [n \in {f[2] : f \in resource} |-> raw[<<"resource_attr", n>>]],
        attributes |-> [n \in names |-> raw[from(n, last[n])]],
        tenant |-> tenant, cluster |-> cluster] :
          last \in [names -> {"span_attr", "top"}]}

\* TracesParquetWriter.Write
TraceParquetRow(row) == [row EXCEPT !.attributes = Marshal(@), !.resource = Marshal(@)]
=============================================================================
