------------------------ MODULE ColdStorageExporter ------------------------
(***************************************************************************)
(* The cold-storage exporter (kof-operator/internal/coldstorage), a        *)
(* program that a CronJob starts every hour.  For every complete hour of   *)
(* every (source, tenant, cluster) it copies what the source holds into a  *)
(* Parquet object and then writes an empty _SUCCESS object, whose presence *)
(* means that the window is exported.                                      *)
(*                                                                         *)
(* A window is streamed by two goroutines joined by an io.Pipe: the writer *)
(* scans the response of the source and writes Parquet into the pipe, the  *)
(* uploader reads the pipe into an S3 upload.  A write to the pipe blocks  *)
(* until it is read or an end of the pipe is closed.                       *)
(*                                                                         *)
(* concurrencyPolicy is Forbid, so there is one process; it may die        *)
(* between any two steps.  Every remote call may fail, and a PUT may take  *)
(* effect although the caller sees an error.                               *)
(***************************************************************************)
EXTENDS ParquetRows, FiniteSets, Functions

CONSTANTS
  Sources,        \* cfg.Sources, in order
  CfgTenants,     \* cfg.Tenants; discovered when empty
  CfgClusters,    \* cfg.Clusters; discovered when empty
  TenantOrder,    \* every tenant, in the order the sources list them
  ClusterOrder,   \* every cluster name, likewise
  Default,        \* defaultTenant, also the name of the fallback cluster
  Records,        \* what may be ingested
  Source, Hour, Form, Line,   \* of each record; Form is "good", "malformed" or "long"
  LineFormat,     \* VictoriaLogs and VictoriaTraces list values one per line
  CatchUpHours, TicksPerHour, ExportDelay, BatchSize,
  None,           \* no window in hand
  FirstHour, MaxHour, MaxFaults    \* bounds of the model

Members(s) == {s[i] : i \in DOMAIN s}

\* What LoadConfig accepts.
LoadConfig ==
  /\ Sources \in Seq({"metrics", "logs", "traces"}) /\ Sources # <<>>
  /\ CfgTenants \subseteq Members(TenantOrder)
  /\ CfgClusters \subseteq Members(ClusterOrder)

ASSUME ConfigAssumption == LoadConfig

ASSUME ClockAssumption ==
  /\ CatchUpHours \in Nat \ {0} /\ FirstHour \in Nat /\ MaxHour \in Nat /\ MaxFaults \in Nat
  /\ TicksPerHour \in Nat \ {0} /\ ExportDelay \in 0..TicksPerHour
  /\ CatchUpHours + 1 <= FirstHour /\ FirstHour <= MaxHour

Hours == 0..MaxHour

\* ExportWindow; S3KeyPrefix is one to one, so a window stands for its prefix.
Windows == [source : Members(Sources), tenant : Members(TenantOrder),
            cluster : Members(ClusterOrder), hour : Hours]

\* The sets of Parquet rows a record may become in window w.
RowSets(r, w) ==
  IF Source[r] = "metrics" THEN {{MetricParquetRow(x) : x \in ParseVMExportLine(Line[r])}}
  ELSE IF Source[r] = "logs"
  THEN {{LogParquetRow(parseVLogsLine(Line[r], w.tenant, w.cluster))}}
  ELSE {{TraceParquetRow(x)} : x \in parseVTracesLine(Line[r], w.tenant, w.cluster)}

\* A row in flight remembers the record it was made from.
Carry(r, rows) == {[of |-> r, row |-> x] : x \in rows}

\* The order in which the sources list tenants and clusters has those of every record.
TenantOf(r) ==
  IF Source[r] = "metrics" THEN Field(Line[r].metric, "tenant")
  ELSE IF Source[r] = "logs" THEN Field(Line[r], "tenant")
  ELSE Field(Line[r], <<"top", "tenant">>)

ClusterOf(r) ==
  IF Source[r] = "metrics" THEN Field(Line[r].metric, "cluster")
  ELSE IF Source[r] = "logs" THEN Field(Line[r], "k8s.cluster.name")
  ELSE Field(Line[r], <<"resource_attr", "k8s.cluster.name">>)

ASSUME RecordAssumption ==
  \A r \in Records :
    /\ Hour[r] \in Nat /\ Form[r] \in {"good", "malformed", "long"}
    /\ TenantOf(r) \in Members(TenantOrder) \cup {""}
    /\ ClusterOf(r) \in Members(ClusterOrder) \cup {""}
    /\ Source[r] = "traces" =>
         DOMAIN Line[r] \subseteq {"top", "span_attr", "resource_attr"} \X STRING

ASSUME NoneAssumption == None \notin Windows

VARIABLES
  hour, tick,     \* the wall clock
  stored,         \* the records the sources hold
  objects,        \* the Parquet objects: a function from their windows to sets of rows
  marked,         \* the windows with a _SUCCESS object
  pc,             \* "idle", "collect", "loop", "open", "stream" or "mark"
  next,           \* position in Sources reached by collectWindows
  range,          \* <<catchUpStart, previousHourEnd>> of this run
  todo,           \* windows still to process
  planned,        \* windows collectWindows returned
  cur,            \* the window in hand
  body,           \* records of the response not yet scanned
  batch,          \* rows of the batch not yet given to the Parquet writer
  held,           \* rows the Parquet writer has not yet written to the pipe
  sent,           \* rows the uploader has read
  writer,         \* "scan", "close", "ok" or "err"
  pipe,           \* the writer's end: "open", "eof" or "err"
  uploader,       \* "read", "ok" or "err"
  readerClosed,   \* the reader's end is closed
  failed,         \* exportErr # nil
  result,         \* of the last finished run: "none", "ok" or "error"
  faults          \* failures so far

run == <<pc, next, range, todo, planned, cur, failed, result>>
stream == <<body, batch, held, sent, writer, pipe, uploader, readerClosed>>
bucket == <<objects, marked>>
world == <<hour, tick, stored>>
vars == <<run, stream, bucket, world, faults>>

NoFault == UNCHANGED faults
Fault == faults < MaxFaults /\ faults' = faults + 1

Init ==
  /\ hour = FirstHour /\ tick = 0
  /\ stored \in SUBSET {r \in Records : Hour[r] < FirstHour}
  /\ objects = <<>> /\ marked = {}
  /\ pc = "idle" /\ next = 1 /\ range = <<0, 0>>
  /\ todo = {} /\ planned = {} /\ cur = None
  /\ body = {} /\ batch = {} /\ held = {} /\ sent = {}
  /\ writer = "ok" /\ pipe = "eof" /\ uploader = "ok" /\ readerClosed = TRUE
  /\ failed = FALSE /\ result = "none" /\ faults = 0

----------------------------------------------------------------------------
(* What the sources answer.                                                *)

InRange(s) == {r \in stored : Source[r] = s /\ range[1] <= Hour[r] /\ Hour[r] < range[2]}

\* A tenant filters unless it is the synthetic one.
OfTenant(t, v) == t # Default => v = t

\* /api/v1/label/<name>/values lists the values series have.
discoverLabelValues(rs, label) == {Field(Line[r].metric, label) : r \in rs} \ {""}

\* A list of values given one per line is decoded when it is no single JSON object: a
\* list of one is, and an object without "values" decodes as an empty list.
Decoded(vs) == IF LineFormat /\ Cardinality(vs) = 1 THEN {} ELSE vs \ {""}

DiscoverFieldValues(rs, field) == Decoded({Field(Line[r], field) : r \in rs})

discoverFieldValues(rs, field) == Decoded({Field(Line[r], field) : r \in rs})

\* discoverTenants; the synthetic tenant when no record has one.
DiscoverTenants(s) ==
  CASE s = "metrics" -> discoverLabelValues(InRange(s), "tenant")
    [] s = "logs" -> DiscoverFieldValues(InRange(s), "tenant")
    [] s = "traces" -> discoverFieldValues(InRange(s), <<"top", "tenant">>)

discoverTenants(s) ==
  IF CfgTenants # {} THEN CfgTenants
  ELSE IF DiscoverTenants(s) = {} THEN {Default} ELSE DiscoverTenants(s)

\* The cluster names of one tenant's records.
DiscoverClusters(t) ==
  discoverLabelValues(
    {r \in InRange("metrics") : OfTenant(t, Field(Line[r].metric, "tenant"))}, "cluster")

DiscoverLogClusters(t) ==
  DiscoverFieldValues(
    {r \in InRange("logs") : OfTenant(t, Field(Line[r], "tenant"))}, "k8s.cluster.name")

DiscoverTraceClusters(t) ==
  discoverFieldValues(
    {r \in InRange("traces") : OfTenant(t, Field(Line[r], <<"top", "tenant">>))},
    <<"resource_attr", "k8s.cluster.name">>)

\* discoverClusters; only traces fall back to a synthetic cluster.
discoverClusters(s, t) ==
  IF CfgClusters # {} THEN CfgClusters
  ELSE CASE s = "metrics" -> DiscoverClusters(t)
         [] s = "logs" -> DiscoverLogClusters(t)
         [] s = "traces" -> IF DiscoverTraceClusters(t) = {} THEN {Default}
                            ELSE DiscoverTraceClusters(t)

\* What a source returns for a window: always filtered on the cluster.
ExportMetrics(w) ==
  {r \in stored : /\ Source[r] = "metrics" /\ Hour[r] = w.hour
                  /\ Field(Line[r].metric, "cluster") = w.cluster
                  /\ OfTenant(w.tenant, Field(Line[r].metric, "tenant"))}

ExportLogs(w) ==
  {r \in stored : /\ Source[r] = "logs" /\ Hour[r] = w.hour
                  /\ Field(Line[r], "k8s.cluster.name") = w.cluster
                  /\ OfTenant(w.tenant, Field(Line[r], "tenant"))}

ExportTraces(w) ==
  {r \in stored : /\ Source[r] = "traces" /\ Hour[r] = w.hour
                  /\ Field(Line[r], <<"resource_attr", "k8s.cluster.name">>) = w.cluster
                  /\ OfTenant(w.tenant, Field(Line[r], <<"top", "tenant">>))}

----------------------------------------------------------------------------
(* One run.                                                                *)

\* The process exits; nothing of it is kept (planned is remembered for the properties).
EndRun(res) ==
  /\ pc' = "idle" /\ result' = res
  /\ todo' = {} /\ cur' = None /\ failed' = FALSE /\ next' = 1
  /\ UNCHANGED <<planned, range>>

\* previousHourEnd: one hour earlier while the delay after the hour has not passed.
UpTo == IF tick < ExportDelay THEN hour - 1 ELSE hour

\* Mistake: the catch-up range starts one hour late.
StartLate ==
  /\ pc = "idle" /\ pc' = "collect" /\ next' = 1
  /\ range' = <<UpTo - CatchUpHours + 1, UpTo>>
  /\ planned' = {} /\ todo' = {} /\ failed' = FALSE /\ result' = "none"
  /\ UNCHANGED <<cur, stream, bucket, world, faults>>

\* The CronJob starts the exporter, which reads the clock once.
Start ==
  /\ pc = "idle" /\ pc' = "collect" /\ next' = 1
  /\ range' = <<UpTo - CatchUpHours, UpTo>>
  /\ planned' = {} /\ todo' = {} /\ failed' = FALSE /\ result' = "none"
  /\ UNCHANGED <<cur, stream, bucket, world, faults>>

Position(s, x) == CHOOSE i \in DOMAIN s : s[i] = x

\* The tenants of a source that discovery gets to: all, or those before the one at
\* which the source became unreachable.
Reached(s) ==
  LET ts == discoverTenants(s)
      before(t) == {u \in ts : Position(TenantOrder, u) < Position(TenantOrder, t)}
  IN  {ts} \cup (IF CfgClusters = {} THEN {before(t) : t \in ts}
                 ELSE IF CfgTenants = {} THEN {{}} ELSE {})

\* Mistake: every answer to HeadObject counts as "not found".
ObjectExistsNever(w) == FALSE

\* The _SUCCESS object of the window is there.
ObjectExists(w) == w \in marked

\* Mistake: the first hour of the range is left out.
CollectedLate(s, ts) ==
  {w \in Windows : /\ w.source = s /\ w.tenant \in ts
                   /\ w.cluster \in discoverClusters(s, w.tenant)
                   /\ range[1] < w.hour /\ w.hour < range[2] /\ ~ObjectExists(w)}

\* The windows of a source's tenants that are not yet exported.
Collected(s, ts) ==
  {w \in Windows : /\ w.source = s /\ w.tenant \in ts
                   /\ w.cluster \in discoverClusters(s, w.tenant)
                   /\ range[1] <= w.hour /\ w.hour < range[2] /\ ~ObjectExists(w)}

\* collectWindows for the next source.  An unreachable source is left out of the run
\* from that tenant on; any other failure ends the run.
CollectSource ==
  /\ pc = "collect" /\ next <= Len(Sources)
  /\ \/ \E ts \in Reached(Sources[next]) :
          /\ IF ts = discoverTenants(Sources[next]) THEN NoFault ELSE Fault
          /\ planned' = planned \cup Collected(Sources[next], ts)
          /\ todo' = planned' /\ next' = next + 1
          /\ UNCHANGED <<pc, range, cur, failed, result>>
     \/ Fault /\ EndRun("error")
  /\ UNCHANGED <<stream, bucket, world>>

CollectEnds ==
  /\ pc = "collect" /\ next > Len(Sources) /\ pc' = "loop"
  /\ UNCHANGED <<next, range, todo, planned, cur, failed, result, stream, bucket, world, faults>>

\* The order of the windows: source, tenant, cluster, hour.
Before(v, w) ==
  LET s(x) == Position(Sources, x.source)
      t(x) == Position(TenantOrder, x.tenant)
      c(x) == Position(ClusterOrder, x.cluster)
  IN  \/ s(v) < s(w)
      \/ s(v) = s(w) /\ t(v) < t(w)
      \/ s(v) = s(w) /\ t(v) = t(w) /\ c(v) < c(w)
      \/ s(v) = s(w) /\ t(v) = t(w) /\ c(v) = c(w) /\ v.hour < w.hour

IsFirst(w) == w \in todo /\ \A v \in todo \ {w} : Before(w, v)

\* Mistake: the outcome of the last window is the outcome of the run.
EndWindowForgets(bad) ==
  /\ pc' = "loop" /\ cur' = None /\ failed' = bad
  /\ UNCHANGED <<next, range, todo, planned, result>>

\* The window in hand is over; an error is remembered and the loop goes on.
EndWindow(bad) ==
  /\ pc' = "loop" /\ cur' = None /\ failed' = (failed \/ bad)
  /\ UNCHANGED <<next, range, todo, planned, result>>

\* exportWindow: the idempotency check of the next window.
CheckMarker ==
  /\ pc = "loop"
  /\ \E w \in todo :
       /\ IsFirst(w) /\ todo' = todo \ {w}
       /\ \/ /\ NoFault /\ UNCHANGED failed
             /\ pc' = IF ObjectExists(w) THEN "loop" ELSE "open"
             /\ cur' = IF ObjectExists(w) THEN None ELSE w
          \/ /\ Fault /\ failed' = TRUE /\ UNCHANGED <<pc, cur>>
  /\ UNCHANGED <<next, range, planned, result, stream, bucket, world>>

\* The query of the window in hand; the two goroutines start on its response.  A source
\* that cannot be reached halts the run.
Open(Response) ==
  /\ pc = "open"
  /\ \/ /\ NoFault /\ pc' = "stream" /\ body' = Response
        /\ batch' = {} /\ held' = {} /\ sent' = {}
        /\ writer' = "scan" /\ pipe' = "open"
        /\ uploader' = "read" /\ readerClosed' = FALSE
        /\ UNCHANGED <<next, range, todo, planned, cur, failed, result>>
     \/ Fault /\ EndRun("error") /\ UNCHANGED stream
  /\ UNCHANGED <<bucket, world>>

(* The writer.                                                             *)

\* The scan or the Parquet writer failed: pw.CloseWithError.
WriterFails == writer' = "err" /\ pipe' = "err"

\* ScanVMExport: a line that cannot be parsed, or is longer than the buffer, aborts;
\* the rows of any other line go to the Parquet writer at once.
ScanVMExport(r) ==
  /\ writer = "scan" /\ r \in body /\ body' = body \ {r}
  /\ IF Form[r] = "good" /\ ValidSeries(Line[r])
     THEN /\ \E rows \in RowSets(r, cur) : held' = held \cup Carry(r, rows)
          /\ UNCHANGED <<writer, pipe>>
     ELSE WriterFails /\ UNCHANGED held
  /\ UNCHANGED <<run, bucket, world, faults, batch, sent, uploader, readerClosed>>

\* Mistake: a line that cannot be decoded is not consumed.
ScanLineAgain(r) ==
  /\ writer = "scan" /\ r \in body
  /\ CASE Form[r] = "good" ->
            /\ \E rows \in RowSets(r, cur) : batch' = batch \cup Carry(r, rows)
            /\ body' = body \ {r} /\ UNCHANGED <<held, writer, pipe>>
       [] Form[r] = "malformed" -> UNCHANGED <<body, held, batch, writer, pipe>>
       [] Form[r] = "long" -> WriterFails /\ UNCHANGED <<body, held, batch>>
  /\ UNCHANGED <<run, bucket, world, faults, sent, uploader, readerClosed>>

\* The loop of ScanVLogsExport and ScanVTracesExport: a malformed line is skipped, one
\* longer than the buffer aborts, and rows are handed on in batches.
ScanLine(r) ==
  /\ writer = "scan" /\ r \in body /\ body' = body \ {r}
  /\ CASE Form[r] = "good" ->
            \E rows \in RowSets(r, cur) :
              LET full == batch \cup Carry(r, rows)
              IN  /\ IF Cardinality(full) >= BatchSize
                     THEN held' = held \cup full /\ batch' = {}
                     ELSE batch' = full /\ UNCHANGED held
                  /\ UNCHANGED <<writer, pipe>>
       [] Form[r] = "malformed" -> UNCHANGED <<held, batch, writer, pipe>>
       [] Form[r] = "long" -> WriterFails /\ UNCHANGED <<held, batch>>
  /\ UNCHANGED <<run, bucket, world, faults, sent, uploader, readerClosed>>

ScanVLogsExport(r) == ScanLine(r)
ScanVTracesExport(r) == ScanLine(r)

\* The connection to the source breaks while the response is read.
ScanBreaks ==
  /\ writer = "scan" /\ Fault /\ WriterFails
  /\ UNCHANGED <<run, bucket, world, body, batch, held, sent, uploader, readerClosed>>

\* Mistake: the last, partial batch is not handed on.
ScanEndsUnflushed ==
  /\ writer = "scan" /\ body = {} /\ writer' = "close"
  /\ batch' = {}
  /\ UNCHANGED <<run, bucket, world, faults, body, held, sent, pipe, uploader, readerClosed>>

\* End of the response: the last batch is handed on.
ScanEnds ==
  /\ writer = "scan" /\ body = {} /\ writer' = "close"
  /\ held' = held \cup batch /\ batch' = {}
  /\ UNCHANGED <<run, bucket, world, faults, body, sent, pipe, uploader, readerClosed>>

\* The Parquet writer writes a row group into the pipe, during the scan or in Close; it
\* waits for the reader, and fails when the reader's end is closed.
WritePipe ==
  /\ writer \in {"scan", "close"} /\ held # {}
  /\ \/ /\ ~readerClosed /\ uploader = "read"
        /\ sent' = sent \cup held /\ held' = {} /\ UNCHANGED <<writer, pipe>>
     \/ readerClosed /\ WriterFails /\ UNCHANGED <<sent, held>>
  /\ UNCHANGED <<run, bucket, world, faults, body, batch, uploader, readerClosed>>

\* Close writes the footer and the writer's end is closed.
WriterCloses ==
  /\ writer = "close" /\ held = {}
  /\ \/ ~readerClosed /\ uploader = "read" /\ writer' = "ok" /\ pipe' = "eof"
     \/ readerClosed /\ WriterFails
  /\ UNCHANGED <<run, bucket, world, faults, body, batch, held, sent, uploader, readerClosed>>

(* The uploader.                                                           *)

\* The bucket with an object written, or overwritten.
WithObject(w, rows) ==
  [v \in DOMAIN objects \cup {w} |-> IF v = w THEN rows ELSE objects[v]]

\* UploadStream reads to the end of the pipe.  The object appears when the upload is
\* completed; the completion may fail, with or without effect.
UploadEnds ==
  /\ uploader = "read" /\ pipe = "eof" /\ readerClosed' = TRUE
  /\ \/ NoFault /\ uploader' = "ok" /\ objects' = WithObject(cur, sent)
     \/ Fault /\ uploader' = "err" /\ objects' \in {objects, WithObject(cur, sent)}
  /\ UNCHANGED <<run, world, marked, body, batch, held, sent, writer, pipe>>

\* UploadStream meets the writer's error and aborts the upload.
UploadAborts ==
  /\ uploader = "read" /\ pipe = "err"
  /\ uploader' = "err" /\ readerClosed' = TRUE
  /\ UNCHANGED <<run, bucket, world, faults, body, batch, held, sent, writer, pipe>>

\* The upload fails while the writer is still writing; pr.CloseWithError frees it.
UploadFails ==
  /\ uploader = "read" /\ pipe = "open" /\ Fault
  /\ uploader' = "err" /\ readerClosed' = TRUE
  /\ UNCHANGED <<run, bucket, world, body, batch, held, sent, writer, pipe>>

----------------------------------------------------------------------------
(* The main goroutine.                                                     *)

\* Both goroutines are over; an error of either fails the window.
Join ==
  /\ pc = "stream" /\ writer \in {"ok", "err"} /\ uploader \in {"ok", "err"}
  /\ IF writer = "ok" /\ uploader = "ok"
     THEN pc' = "mark" /\ UNCHANGED <<next, range, todo, planned, cur, failed, result>>
     ELSE EndWindow(TRUE)
  /\ UNCHANGED <<stream, bucket, world, faults>>

\* PutObject of the _SUCCESS marker, last of all.
PutSuccess ==
  /\ pc = "mark"
  /\ \/ NoFault /\ marked' = marked \cup {cur} /\ EndWindow(FALSE)
     \/ Fault /\ marked' \in {marked, marked \cup {cur}} /\ EndWindow(TRUE)
  /\ UNCHANGED <<objects, stream, world>>

Pipeline ==
  \/ ScanEnds \/ WritePipe \/ WriterCloses
  \/ UploadEnds \/ UploadAborts \/ Join \/ PutSuccess

exportMetricsWindow ==
  /\ cur # None /\ cur.source = "metrics"
  /\ \/ Open(ExportMetrics(cur))
     \/ \E r \in body : ScanVMExport(r)
     \/ Pipeline

exportLogsWindow ==
  /\ cur # None /\ cur.source = "logs"
  /\ \/ Open(ExportLogs(cur))
     \/ \E r \in body : ScanVLogsExport(r)
     \/ Pipeline

exportTracesWindow ==
  /\ cur # None /\ cur.source = "traces"
  /\ \/ Open(ExportTraces(cur))
     \/ \E r \in body : ScanVTracesExport(r)
     \/ Pipeline

\* Every window is done.
Finish ==
  /\ pc = "loop" /\ todo = {} /\ EndRun(IF failed THEN "error" ELSE "ok")
  /\ UNCHANGED <<stream, bucket, world, faults>>

\* SIGTERM, eviction or the job's activeDeadlineSeconds: both goroutines die with it.
Crash ==
  /\ pc # "idle" /\ Fault /\ EndRun("error")
  /\ writer' = "ok" /\ pipe' = "eof" /\ uploader' = "ok" /\ readerClosed' = TRUE
  /\ body' = {} /\ batch' = {} /\ held' = {} /\ sent' = {}
  /\ UNCHANGED <<bucket, world>>

Tick ==
  /\ tick + 1 < TicksPerHour \/ hour < MaxHour
  /\ IF tick + 1 < TicksPerHour THEN tick' = tick + 1 /\ UNCHANGED hour
     ELSE tick' = 0 /\ hour' = hour + 1
  /\ UNCHANGED <<run, stream, bucket, stored, faults>>

\* A record reaches its source: in its hour, or late by less than the delay.
Ingest ==
  /\ \E r \in Records \ stored :
       /\ Hour[r] = hour \/ (Hour[r] + 1 = hour /\ tick < ExportDelay)
       /\ stored' = stored \cup {r}
  /\ UNCHANGED <<run, stream, bucket, hour, tick, faults>>

Process ==
  \/ CollectSource \/ CollectEnds \/ CheckMarker \/ Finish
  \/ exportMetricsWindow \/ exportLogsWindow \/ exportTracesWindow

Next ==
  \/ Start \/ Process
  \/ ScanBreaks \/ UploadFails \/ Crash
  \/ Tick \/ Ingest

Spec == Init /\ [][Next]_vars

\* The CronJob starts a run again and again, and a run keeps going; nothing is assumed
\* of the clock, of ingestion or of failures.
FairSpec == Spec /\ WF_vars(Start) /\ WF_vars(Process)

----------------------------------------------------------------------------
(* Properties.                                                             *)

\* Record r belongs to window w.
Belongs(r, w) ==
  /\ Source[r] = w.source /\ Hour[r] = w.hour /\ ClusterOf(r) = w.cluster
  /\ w.tenant \in {TenantOf(r), Default}

\* The row made from record r still shows value v of the record's field k, unless k is a
\* field that no column is meant to show (the stream, the raw numbers of a span).
Keeps(row, r, k, v) ==
  IF Source[r] = "traces"
  THEN \/ k \in TopReserved \ (TopColumns \cup Range(ScopeFields)) \/ k[2] = "k8s.cluster.name"
       \/ \E n \in DOMAIN ScopeFields : ScopeFields[n] = k /\ <<n, v>> \in row.attributes
       \/ k \in TopColumns \cup ResourceColumns /\ row.columns[k] = v
       \/ k[1] = "resource_attr" /\ <<k[2], v>> \in row.resource
       \/ k[1] # "resource_attr" /\ <<k[2], v>> \in row.attributes
  ELSE \/ k \in DOMAIN row.columns /\ row.columns[k] = v
       \/ <<k, v>> \in row.attributes
       \/ Source[r] = "logs" /\ k = "k8s.cluster.name" /\ row.cluster = v
       \/ Source[r] = "logs" /\ k = "_time" /\ row.timestamp = Time(v)
       \/ Source[r] = "logs" /\ k = "tenant" /\ row.tenant \in {v, Default}
       \/ Source[r] = "logs" /\ k \in {"_stream", "_stream_id"}

Fields(r) == IF Source[r] = "metrics" THEN Line[r].metric ELSE Line[r]

\* A field of a span that competes with another for one attribute name; the scope's
\* fields win over any other.
Contested(r, k) ==
  /\ Source[r] = "traces" /\ k[1] # "resource_attr"
  /\ \/ Cardinality(SpanAttributeFields(Line[r], k[2])) > 1
     \/ k[2] \in DOMAIN ScopeFields /\ Field(Line[r], ScopeFields[k[2]]) # ""

\* Row e holds every field of its record that is not empty.
Whole(e) ==
  \A k \in NonEmpty(Fields(e.of)) :
    Contested(e.of, k) \/ Keeps(e.row, e.of, k, Fields(e.of)[k])

\* The samples of a metrics record: one row each.
Samples(r) ==
  IF Source[r] # "metrics" THEN {{}}
  ELSE {{Line[r].timestamps[i]} :
          i \in {j \in DOMAIN Line[r].values : parseVMValue(Line[r].values[j]) # {}}}

\* A window with a _SUCCESS marker has an object that holds every readable record of the
\* window, sample by sample and field by field, and no record of another window
\* (exporter.go: the marker is "uploaded last"; ScanVLogsExport's last flush).
MarkedIsComplete ==
  \A w \in marked :
    /\ w \in DOMAIN objects
    /\ \A e \in objects[w] : Belongs(e.of, w) /\ Whole(e)
    /\ \A r \in {q \in stored : Belongs(q, w) /\ Form[q] = "good"} :
         \A s \in Samples(r) :
           \E e \in objects[w] : e.of = r /\ (s # {} => e.row.timestamp \in s)

\* A run that reports success has marked every window it collected, whatever failed
\* on the way (exporter.go: exportErr outlives the window that set it).
SuccessMeansMarked == result = "ok" => planned \subseteq marked

\* A marked window stays marked and its object is not rewritten (exporter.go: the
\* idempotency checks of collectWindows and exportWindow).
MarkedIsFinal ==
  [][\A w \in marked : w \in marked' /\ objects'[w] = objects[w]]_vars

\* While nothing has failed, what discovery plans, with what is already marked, covers
\* every record of the run's hours that names a tenant and a cluster (exporter.go:
\* discoverTenants and discoverClusters; vlogs.go: "It handles both the JSON-array
\* response format (newer VictoriaLogs) and the NDJSON fallback").
DiscoveryCovers ==
  pc = "loop" /\ faults = 0 =>
    \A s \in Members(Sources) : \A r \in InRange(s) :
      TenantOf(r) # "" /\ ClusterOf(r) # "" => \E w \in planned \cup marked : Belongs(r, w)

\* A window that is being streamed is left again, even when the upload stops reading
\* (exporter.go: "the writer goroutine would block forever on pipe writes").
StreamEnds == []<>(pc # "stream")

\* A window that holds a record named by tenant and cluster is within the catch-up range,
\* and no line of it stops the scan.
Due(w) ==
  /\ UpTo - CatchUpHours <= w.hour /\ w.hour < UpTo
  /\ \E r \in stored : Belongs(r, w) /\ TenantOf(r) = w.tenant
  /\ \A r \in stored : Belongs(r, w) =>
       /\ Form[r] # "long"
       /\ Source[r] = "metrics" => Form[r] = "good" /\ ValidSeries(Line[r])

\* The windows some record can make due.
Named ==
  {[source |-> Source[r], tenant |-> TenantOf(r), cluster |-> ClusterOf(r), hour |-> Hour[r]] :
     r \in {q \in Records : TenantOf(q) # "" /\ ClusterOf(q) # ""}}

\* Once failures stop, there is again and again a time when every window that is due is
\* exported (exporter.go: a failed window is left unmarked, and "next CronJob invocation
\* will catch up").
DueIsExported == []<>(\A w \in Named : Due(w) => w \in marked)
=============================================================================
