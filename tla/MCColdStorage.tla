--------------------------- MODULE MCColdStorage ---------------------------
(* Instances of ColdStorageExporter for TLC.                               *)
EXTENDS ColdStorageExporter, TLC

AllSources == <<"metrics", "logs", "traces">>
OnlyLogs == <<"logs">>
TenantNames == <<"default", "t1">>
ThreeTenants == <<"default", "t1", "t2">>
ClusterNames == <<"default", "c1", "c2">>
Nothing == {}

Numbers == ("7" :> 7) @@ ("256" :> 256) @@ ("257" :> 257)
Times == "noon" :> 12

Num(t) == [kind |-> "number", text |-> t]

\* A series with a readable, a non-finite and an unreadable value.
Series ==
  [source |-> "metrics", hour |-> 1, form |-> "good",
   line |-> [metric |-> ("__name__" :> "up") @@ ("tenant" :> "t1") @@ ("cluster" :> "c1")
                          @@ ("zone" :> "z"),
             values |-> <<Num("3"), [kind |-> "string", text |-> "-Infinity"],
                          [kind |-> "string", text |-> "oops"]>>,
             timestamps |-> <<1, 2, 3>>]]

\* The same series with a value too many, of another cluster.
BadSeries ==
  [Series EXCEPT !.line.timestamps = <<1>>, !.line.metric["cluster"] = "c2"]

LogLine(cluster, form, tenant, extra) ==
  [source |-> "logs", hour |-> 1, form |-> form,
   line |-> ("_time" :> "noon") @@ ("_msg" :> "hello") @@ ("tenant" :> tenant)
              @@ ("k8s.cluster.name" :> cluster) @@ ("user" :> extra) @@ ("_stream" :> "{}")]

\* A span whose attribute "x" has two sources.
SpanLine ==
  [source |-> "traces", hour |-> 1, form |-> "good",
   line |-> (<<"top", "trace_id">> :> "a") @@ (<<"top", "flags">> :> "257")
              @@ (<<"top", "_time">> :> "noon") @@ (<<"top", "tenant">> :> "t1")
              @@ (<<"top", "scope_name">> :> "lib") @@ (<<"top", "x">> :> "1")
              @@ (<<"span_attr", "x">> :> "2")
              @@ (<<"resource_attr", "k8s.cluster.name">> :> "c1")
              @@ (<<"resource_attr", "os">> :> "linux")]

Table ==
  [series |-> Series, badSeries |-> BadSeries,
   log1 |-> LogLine("c1", "good", "t1", "u1"), log2 |-> LogLine("c1", "good", "t1", "u2"),
   other |-> LogLine("c1", "good", "t2", "u1"),
   malformed |-> LogLine("c1", "malformed", "t1", "u3"), long |-> LogLine("c2", "long", "t1", "u4"),
   span |-> SpanLine]

MCRecords == {"series", "badSeries", "log1", "log2", "malformed", "long", "span"}
FewRecords == {"log1", "other"}

MCSource == [r \in DOMAIN Table |-> Table[r].source]
MCHour == [r \in DOMAIN Table |-> Table[r].hour]
MCForm == [r \in DOMAIN Table |-> Table[r].form]
MCLine == [r \in DOMAIN Table |-> Table[r].line]
=============================================================================
