--------------------- MODULE ColdStorageExporterProofs ---------------------
(***************************************************************************)
(* Proofs about the cold-storage exporter, for any sources, tenants,       *)
(* clusters and records, any catch-up range and batch size, and any number *)
(* of failures and crashes.                                                *)
(***************************************************************************)
EXTENDS ColdStorageExporter, FiniteSetTheorems, TLAPS

\* What a source holds for a window.
Response(w) == {r \in stored : Belongs(r, w)}

\* Every row of S was made from a readable record of the window.
Sound(S, w) ==
  \A e \in S : \E r \in Response(w) : \E rows \in RowSets(r, w) : e \in Carry(r, rows)

\* Every readable record of R has all its rows in S.
Full(S, R, w) ==
  \A r \in R : Form[r] = "good" => \E rows \in RowSets(r, w) : Carry(r, rows) \subseteq S

Exported(w) ==
  w \in DOMAIN objects /\ Sound(objects[w], w) /\ Full(objects[w], Response(w), w)

----------------------------------------------------------------------------
(* The inductive invariant.                                                *)

\* The clock, and the hours that are over: what a run looks at, or has marked, is settled.
Settled ==
  /\ hour \in FirstHour..MaxHour /\ tick \in 0..(TicksPerHour - 1)
  /\ stored \subseteq Records
  /\ range \in Nat \X Nat /\ range[2] <= UpTo
  /\ planned \subseteq Windows /\ marked \subseteq Windows
  /\ \A w \in planned : w.hour < range[2]
  /\ \A w \in marked : w.hour < UpTo

\* Where the run is.
Stages ==
  /\ pc \in {"idle", "collect", "loop", "open", "stream", "mark"}
  /\ next \in Nat \ {0} /\ todo \subseteq planned
  /\ cur \in Windows \cup {None}
  /\ cur = None <=> pc \in {"idle", "collect", "loop"}
  /\ cur # None => cur \in planned /\ cur \notin marked

\* A window without its marker is still to be done, in hand or remembered as failed.
Accounted ==
  /\ result = "ok" => pc = "idle" /\ planned \subseteq marked
  /\ pc = "collect" => todo = planned
  /\ pc \in {"loop", "open", "stream", "mark"} /\ ~failed =>
       planned \subseteq marked \cup todo \cup {cur}

\* The two goroutines and the pipe.
Pipe ==
  /\ writer \in {"scan", "close", "ok", "err"} /\ uploader \in {"read", "ok", "err"}
  /\ pipe = (IF writer = "ok" THEN "eof" ELSE IF writer = "err" THEN "err" ELSE "open")
  /\ pc # "stream" => writer \in {"ok", "err"} /\ uploader \in {"ok", "err"}
  /\ pc = "mark" => writer = "ok" /\ uploader = "ok"

\* What has been scanned is on its way, unless the writer gave up.
Flow ==
  pc \in {"stream", "mark"} =>
    /\ body \subseteq Response(cur)
    /\ Sound(batch \cup held \cup sent, cur)
    /\ writer # "err" => Full(batch \cup held \cup sent, Response(cur) \ body, cur)
    /\ writer \in {"close", "ok"} => body = {} /\ batch = {}
    /\ writer = "ok" => held = {}
    /\ uploader = "ok" =>
         writer = "ok" /\ cur \in DOMAIN objects /\ objects[cur] = sent

Marked == \A w \in marked : Exported(w)

IInv == Settled /\ Stages /\ Accounted /\ Pipe /\ Flow /\ Marked

\* The record names a tenant and a cluster.
NamesBoth(r) == TenantOf(r) # "" /\ ClusterOf(r) # ""

\* The sources discovery is done with are covered.
Covered ==
  /\ faults \in Nat
  /\ pc # "idle" /\ faults = 0 =>
       \A i \in DOMAIN Sources : i < next =>
         \A r \in InRange(Sources[i]) : NamesBoth(r) =>
           \E w \in planned \cup marked : Belongs(r, w)

Collecting == pc \in {"loop", "open", "stream", "mark"} => next > Len(Sources)

----------------------------------------------------------------------------
(* What the steps do.                                                      *)

\* The query of each source returns the records of the window (ExportMetrics, ExportLogs,
\* ExportTraces).
LEMMA ResponseFacts ==
  ASSUME NEW w
  PROVE /\ w.source = "metrics" => ExportMetrics(w) = Response(w)
        /\ w.source = "logs" => ExportLogs(w) = Response(w)
        /\ w.source = "traces" => ExportTraces(w) = Response(w)
<1>1. ASSUME w.source = "metrics" PROVE ExportMetrics(w) = Response(w)
  BY <1>1, Zenon DEF ExportMetrics, Response, Belongs, OfTenant, TenantOf, ClusterOf
<1>2. ASSUME w.source = "logs" PROVE ExportLogs(w) = Response(w)
  BY <1>2, Zenon DEF ExportLogs, Response, Belongs, OfTenant, TenantOf, ClusterOf
<1>3. ASSUME w.source = "traces" PROVE ExportTraces(w) = Response(w)
  BY <1>3, Zenon DEF ExportTraces, Response, Belongs, OfTenant, TenantOf, ClusterOf
<1> QED
  BY <1>1, <1>2, <1>3, Zenon

\* A line is scanned: the writer gives up, or the rows of the line join those on their
\* way, or an unreadable line is skipped.
Scanned(r) ==
  /\ UNCHANGED <<run, bucket, world, faults, sent, uploader, readerClosed>>
  /\ writer = "scan" /\ r \in body /\ body' = body \ {r}
  /\ \/ WriterFails /\ UNCHANGED <<held, batch>>
     \/ /\ Form[r] = "good" /\ UNCHANGED <<writer, pipe>>
        /\ \E rows \in RowSets(r, cur) : batch' \cup held' = batch \cup held \cup Carry(r, rows)
     \/ Form[r] # "good" /\ UNCHANGED <<held, batch, writer, pipe>>

\* Each source's scan is such a step (ScanVMExport, ScanVLogsExport, ScanVTracesExport).
LEMMA ScanFacts ==
  ASSUME NEW r \in Records
  PROVE /\ ScanVMExport(r) => Scanned(r)
        /\ ScanLine(r) => Scanned(r)
<1>1. ASSUME ScanVMExport(r) PROVE Scanned(r)
  <2>1. CASE Form[r] = "good" /\ ValidSeries(Line[r])
    <3>1. PICK rows \in RowSets(r, cur) : held' = held \cup Carry(r, rows)
      BY <1>1, <2>1, Zenon DEF ScanVMExport
    <3>2. batch' \cup held' = batch \cup held \cup Carry(r, rows)
      BY <1>1, <3>1, Zenon DEF ScanVMExport
    <3> QED
      BY <1>1, <2>1, <3>2, Zenon DEF ScanVMExport, Scanned
  <2>2. CASE ~(Form[r] = "good" /\ ValidSeries(Line[r]))
    BY <1>1, <2>2, Zenon DEF ScanVMExport, Scanned
  <2> QED
    BY <2>1, <2>2, Zenon
<1>2. ASSUME ScanLine(r) PROVE Scanned(r)
  <2>1. CASE Form[r] = "good"
    <3>1. PICK rows \in RowSets(r, cur) :
            LET full == batch \cup Carry(r, rows)
            IN  /\ IF Cardinality(full) >= BatchSize
                   THEN held' = held \cup full /\ batch' = {}
                   ELSE batch' = full /\ UNCHANGED held
                /\ UNCHANGED <<writer, pipe>>
      BY <1>2, <2>1, Zenon DEF ScanLine
    <3>2. batch' \cup held' = batch \cup held \cup Carry(r, rows)
      BY <3>1, Zenon
    <3> QED
      BY <1>2, <2>1, <3>1, <3>2, Zenon DEF ScanLine, Scanned
  <2>2. CASE Form[r] = "malformed"
    BY <1>2, <2>2, Zenon DEF ScanLine, Scanned
  <2>3. CASE Form[r] = "long"
    BY <1>2, <2>3, Zenon DEF ScanLine, Scanned
  <2> QED
    BY <2>1, <2>2, <2>3, RecordAssumption, Zenon
<1> QED
  BY <1>1, <1>2, Zenon

\* The steps of the exporter, with the sources' own ones put together.
Step ==
  \/ Start \/ CollectSource \/ CollectEnds \/ CheckMarker \/ Finish
  \/ cur # None /\ Open(Response(cur))
  \/ cur # None /\ \E r \in body : Scanned(r)
  \/ cur # None /\ Pipeline
  \/ ScanBreaks \/ UploadFails \/ Crash \/ Tick \/ Ingest

\* Every step is one of these (Export, exportMetricsWindow, exportLogsWindow,
\* exportTracesWindow).
LEMMA NextFacts == ASSUME body \subseteq Records, Next PROVE Step
<1>1. CASE exportMetricsWindow
  BY <1>1, ResponseFacts, ScanFacts, Zenon DEF exportMetricsWindow, Step
<1>2. CASE exportLogsWindow
  BY <1>2, ResponseFacts, ScanFacts, Zenon DEF exportLogsWindow, ScanVLogsExport, Step
<1>3. CASE exportTracesWindow
  BY <1>3, ResponseFacts, ScanFacts, Zenon DEF exportTracesWindow, ScanVTracesExport, Step
<1> QED
  BY <1>1, <1>2, <1>3, Zenon DEF Next, Process, Step

\* The hours that are over only grow in number.
LEMMA TickFacts ==
  ASSUME Settled, Tick
  PROVE /\ hour' \in FirstHour..MaxHour /\ tick' \in 0..(TicksPerHour - 1)
        /\ UpTo \in Nat /\ UpTo' \in Nat /\ UpTo <= UpTo'
<1>1. /\ FirstHour \in Nat /\ MaxHour \in Nat /\ TicksPerHour \in Nat \ {0} /\ FirstHour >= 1
      /\ ExportDelay \in Nat /\ ExportDelay <= TicksPerHour
  BY ClockAssumption
<1>2. hour \in Nat /\ FirstHour <= hour /\ hour <= MaxHour /\ tick \in Nat /\ tick <= TicksPerHour - 1
  BY <1>1 DEF Settled
<1>3. CASE tick + 1 < TicksPerHour
  BY <1>1, <1>2, <1>3 DEF Tick, UpTo
<1>4. CASE ~(tick + 1 < TicksPerHour)
  BY <1>1, <1>2, <1>4 DEF Tick, UpTo
<1> QED
  BY <1>3, <1>4, Zenon

\* A record that arrives is of an hour that is not over.
LEMMA IngestFacts ==
  ASSUME Settled, Ingest
  PROVE /\ stored' \subseteq Records /\ UpTo' = UpTo
        /\ \A w : w.hour \in Nat /\ w.hour < UpTo => Response(w)' = Response(w)
        /\ \A s : InRange(s)' = InRange(s)
<1>1. PICK r \in Records \ stored :
        /\ Hour[r] = hour \/ (Hour[r] + 1 = hour /\ tick < ExportDelay)
        /\ stored' = stored \cup {r}
  BY Zenon DEF Ingest
<1>2. UNCHANGED <<hour, tick, range>>
  BY Zenon DEF Ingest, run
<1>3. hour \in Nat /\ Hour[r] \in Nat /\ UpTo \in Nat /\ UpTo <= Hour[r]
  <2>1. FirstHour \in Nat /\ FirstHour >= 1 /\ MaxHour \in Nat
    BY ClockAssumption
  <2>2. hour \in Nat /\ hour >= 1
    BY <2>1 DEF Settled
  <2>3. Hour[r] \in Nat
    BY <1>1, RecordAssumption, Zenon
  <2> QED
    BY <1>1, <2>2, <2>3 DEF UpTo
<1>4. stored' \subseteq Records /\ UpTo' = UpTo
  BY <1>1, <1>2, Zenon DEF Settled, UpTo
<1>5. ASSUME NEW w, w.hour \in Nat, w.hour < UpTo PROVE Response(w)' = Response(w)
  <2>1. ~Belongs(r, w)
    BY <1>3, <1>5 DEF Belongs
  <2> QED
    BY <1>1, <2>1, Zenon DEF Response
<1>6. ASSUME NEW s PROVE InRange(s)' = InRange(s)
  <2>1. range[2] \in Nat /\ ~(Hour[r] < range[2])
    BY <1>3 DEF Settled
  <2> QED
    BY <1>1, <1>2, <2>1, Zenon DEF InRange
<1> QED
  BY <1>4, <1>5, <1>6, Zenon

\* The hours that are over are counted by a number that a run may subtract from.
LEMMA UpToFacts ==
  ASSUME Settled
  PROVE UpTo \in Nat /\ UpTo <= MaxHour /\ CatchUpHours \in Nat /\ CatchUpHours <= UpTo
<1>1. /\ FirstHour \in Nat /\ MaxHour \in Nat /\ CatchUpHours \in Nat
      /\ CatchUpHours + 1 <= FirstHour
  BY ClockAssumption, Zenon
<1>2. hour \in Nat /\ FirstHour <= hour /\ hour <= MaxHour
  BY <1>1 DEF Settled
<1> QED
  BY <1>1, <1>2 DEF UpTo

----------------------------------------------------------------------------
(* The clock and the control of the run.                                   *)

\* No window is looked at before its hour is over.
LEMMA NextSettled ==
  ASSUME Settled, Stages, Step
  PROVE Settled'
<1>1. CASE UNCHANGED <<hour, tick, stored, range, planned, marked>>
  BY <1>1, Zenon DEF Settled, UpTo
<1>2. CASE Start
  <2>1. UpTo \in Nat /\ UpTo - CatchUpHours \in Nat
    BY UpToFacts
  <2>2. range' \in Nat \X Nat /\ range'[2] = UpTo
    BY <1>2, <2>1, Zenon DEF Start
  <2>3. UpTo' = UpTo
    BY <1>2, Zenon DEF Start, UpTo, world
  <2> QED
    BY <1>2, <2>1, <2>2, <2>3 DEF Start, Settled, world, bucket
<1>3. CASE CollectSource
  <2>1. UNCHANGED <<hour, tick, stored, range, marked>>
    BY <1>3, Zenon DEF CollectSource, EndRun, world, bucket
  <2>2. planned' = planned \/ \E ts : planned' = planned \cup Collected(Sources[next], ts)
    BY <1>3, Zenon DEF CollectSource, EndRun
  <2>3. planned' \subseteq Windows /\ \A w \in planned' : w.hour < range[2]
    BY <2>2, Zenon DEF Settled, Collected
  <2> QED
    BY <2>1, <2>3, Zenon DEF Settled, UpTo
<1>4. CASE cur # None /\ PutSuccess
  <2>1. /\ UNCHANGED <<hour, tick, stored, range, planned>>
        /\ marked' \subseteq marked \cup {cur} /\ cur \in planned
    BY <1>4, Zenon DEF PutSuccess, EndWindow, world, Stages
  <2>2. cur \in Windows /\ cur.hour \in Nat /\ cur.hour < range[2] /\ range[2] \in Nat
    BY <2>1 DEF Settled, Windows, Hours
  <2>3. cur.hour < UpTo
    BY <2>2, UpToFacts DEF Settled
  <2> QED
    BY <2>1, <2>2, <2>3, Zenon DEF Settled, UpTo
<1>5. CASE Tick
  <2>1. UNCHANGED <<stored, range, planned, marked>>
    BY <1>5, Zenon DEF Tick, run, bucket
  <2>2. \A w \in marked : w.hour \in Nat
    BY DEF Settled, Windows, Hours
  <2>3. range[2] \in Nat
    BY Zenon DEF Settled
  <2> QED
    BY <1>5, <2>1, <2>2, <2>3, TickFacts DEF Settled
<1>6. CASE Ingest
  <2>1. UNCHANGED <<hour, tick, range, planned, marked>>
    BY <1>6, Zenon DEF Ingest, run, bucket
  <2> QED
    BY <1>6, <2>1, IngestFacts, Zenon DEF Settled
<1> QED
  BY <1>1, <1>2, <1>3, <1>4, <1>5, <1>6, Zenon
     DEF Step, Scanned, CollectEnds, CheckMarker, Finish, EndRun, EndWindow, Open, Pipeline,
         ScanEnds, WritePipe, WriterCloses, UploadEnds, UploadAborts, Join, ScanBreaks,
         UploadFails, Crash, run, bucket, world

\* The window in hand is planned and not marked; one that is left without its marker is
\* remembered.
LEMMA NextStages ==
  ASSUME Settled, Stages, Accounted, Step
  PROVE Stages' /\ Accounted'
<1>1. CASE UNCHANGED <<run, marked>>
  BY <1>1, Zenon DEF Stages, Accounted, run
<1>2. CASE Start
  BY <1>2 DEF Start, Stages, Accounted, bucket
<1>3. CASE CollectSource
  BY <1>3 DEF CollectSource, EndRun, Stages, Accounted, bucket
<1>4. CASE CollectEnds
  BY <1>4, Zenon DEF CollectEnds, Stages, Accounted, bucket
<1>5. CASE CheckMarker
  <2>1. PICK w \in todo :
          /\ todo' = todo \ {w}
          /\ \/ /\ UNCHANGED failed
                /\ pc' = IF ObjectExists(w) THEN "loop" ELSE "open"
                /\ cur' = IF ObjectExists(w) THEN None ELSE w
             \/ failed' = TRUE /\ UNCHANGED <<pc, cur>>
    BY <1>5, Zenon DEF CheckMarker
  <2>2. UNCHANGED <<next, range, planned, result, marked>> /\ pc = "loop" /\ cur = None
    BY <1>5, Zenon DEF CheckMarker, bucket, Stages
  <2>3. w \in planned /\ w \in Windows /\ w # None
    BY NoneAssumption, Zenon DEF Stages, Settled
  <2>4. Stages'
    BY <2>1, <2>2, <2>3 DEF Stages, ObjectExists
  <2>5. result = "ok" => FALSE
    BY <2>2, Zenon DEF Accounted
  <2>6. CASE failed' = TRUE
    BY <2>1, <2>2, <2>4, <2>5, <2>6, Zenon DEF Accounted, Stages
  <2>7. CASE /\ UNCHANGED failed
             /\ pc' = IF ObjectExists(w) THEN "loop" ELSE "open"
             /\ cur' = IF ObjectExists(w) THEN None ELSE w
    <3>1. ~failed => planned \subseteq marked \cup todo \cup {None}
      BY <2>2, Zenon DEF Accounted
    <3>2. ~failed' => planned \subseteq marked \cup todo' \cup {cur'}
      BY <2>1, <2>3, <2>7, <3>1, NoneAssumption, Zenon DEF ObjectExists, Settled
    <3>3. pc' \in {"loop", "open"}
      BY <2>7, Zenon
    <3> QED
      BY <2>2, <2>4, <2>5, <3>2, <3>3, Zenon DEF Accounted
  <2> QED
    BY <2>1, <2>6, <2>7, Zenon
<1>6. CASE Finish
  <2>1. /\ pc = "loop" /\ todo = {} /\ pc' = "idle" /\ todo' = {} /\ cur' = None /\ next' = 1
        /\ UNCHANGED <<planned, marked>> /\ (failed => result' = "error")
    BY <1>6, Zenon DEF Finish, EndRun, bucket
  <2>2. Stages'
    BY <2>1 DEF Stages
  <2>3. ~failed => planned \subseteq marked
    <3>1. cur = None /\ None \notin planned
      BY <2>1, NoneAssumption, Zenon DEF Stages, Settled
    <3> QED
      BY <2>1, <3>1, Zenon DEF Accounted
  <2> QED
    BY <2>1, <2>2, <2>3, Zenon DEF Accounted
<1>7. CASE cur # None /\ Open(Response(cur))
  BY <1>7 DEF Open, EndRun, Stages, Accounted, bucket
<1>8. CASE cur # None /\ Join
  <2>1. CASE pc' = "mark" /\ UNCHANGED <<next, todo, planned, cur, failed, result>>
    BY <1>8, <2>1, Zenon DEF Join, Stages, Accounted, bucket
  <2>2. CASE EndWindow(TRUE)
    <3>1. failed'
      BY <2>2, Zenon DEF EndWindow
    <3>2. pc' = "loop" /\ cur' = None /\ UNCHANGED <<next, todo, planned, result, marked>>
      BY <1>8, <2>2, Zenon DEF Join, EndWindow, bucket
    <3>3. pc = "stream"
      BY <1>8, Zenon DEF Join
    <3> QED
      BY <3>1, <3>2, <3>3, Zenon DEF Stages, Accounted
  <2> QED
    BY <1>8, <2>1, <2>2, Zenon DEF Join
<1>9. CASE cur # None /\ PutSuccess
  BY <1>9, Zenon DEF PutSuccess, EndWindow, Stages, Accounted
<1>10. CASE Crash
  BY <1>10 DEF Crash, EndRun, Stages, Accounted, bucket
<1> QED
  BY <1>1, <1>2, <1>3, <1>4, <1>5, <1>6, <1>7, <1>8, <1>9, <1>10, ZenonT(60)
     DEF Step, Scanned, Pipeline, ScanEnds, WritePipe, WriterCloses, UploadEnds, UploadAborts,
         ScanBreaks, UploadFails, Tick, Ingest, bucket

\* The pipe's end tells how the writer ended, and both goroutines are over when the run
\* goes on.
LEMMA NextPipe ==
  ASSUME Stages, Pipe, Step
  PROVE Pipe'
<1>1. CASE UNCHANGED <<pc, writer, pipe, uploader>>
  BY <1>1, Zenon DEF Pipe
<1>2. CASE pc # "stream" /\ pc' \notin {"stream", "mark"} /\ UNCHANGED <<writer, pipe, uploader>>
  BY <1>2, Zenon DEF Pipe
<1>3. CASE cur # None /\ Open(Response(cur))
  BY <1>3, Zenon DEF Open, EndRun, Pipe, stream
<1>4. CASE cur # None /\ \E r \in body : Scanned(r)
  BY <1>4, Zenon DEF Scanned, WriterFails, Pipe, run
<1>5. CASE cur # None /\ (ScanEnds \/ WritePipe \/ WriterCloses)
  BY <1>5, Zenon DEF ScanEnds, WritePipe, WriterCloses, WriterFails, Pipe, run
<1>6. CASE cur # None /\ (UploadEnds \/ UploadAborts)
  BY <1>6, Zenon DEF UploadEnds, UploadAborts, Pipe, run
<1>7. CASE ScanBreaks \/ UploadFails
  BY <1>7, Zenon DEF ScanBreaks, UploadFails, WriterFails, Pipe, run
<1>8. CASE cur # None /\ Join
  BY <1>8, Zenon DEF Join, EndWindow, Pipe, stream
<1>9. CASE Crash
  BY <1>9, Zenon DEF Crash, EndRun, Pipe
<1> QED
  BY <1>1, <1>2, <1>3, <1>4, <1>5, <1>6, <1>7, <1>8, <1>9, ZenonT(60)
     DEF Step, Pipeline, PutSuccess, EndWindow, Start, CollectSource, CollectEnds, CheckMarker,
         Finish, EndRun, Tick, Ingest, run, stream

----------------------------------------------------------------------------
(* From the response to the object.                                        *)

\* The rows made from a window's records stay its rows while no record of it arrives.
LEMMA Unmoved ==
  ASSUME NEW w, Response(w)' = Response(w)
  PROVE /\ \A S : Sound(S, w)' <=> Sound(S, w)
        /\ \A S, R : Full(S, R, w)' <=> Full(S, R, w)
BY Zenon DEF Sound, Full

\* What is to be shown of a step within a window.
LEMMA FlowKept ==
  ASSUME NEW w, NEW S, NEW B,
         stored' = stored, cur' = w, batch' \cup held' \cup sent' = S, body' = B,
         B \subseteq Response(w), Sound(S, w),
         writer' # "err" => Full(S, Response(w) \ B, w),
         writer' \in {"close", "ok"} => body' = {} /\ batch' = {},
         writer' = "ok" => held' = {},
         uploader' = "ok" =>
           writer' = "ok" /\ cur' \in DOMAIN objects' /\ objects'[cur'] = sent'
  PROVE Flow'
<1>1. Response(w)' = Response(w)
  BY Zenon DEF Response
<1>2. Sound(S, w)' /\ (writer' # "err" => Full(S, Response(w) \ B, w)')
  BY <1>1, Unmoved, Zenon
<1> QED
  BY <1>1, <1>2, Zenon DEF Flow

\* The writer's and the uploader's steps lose nothing.
LEMMA NextFlow ==
  ASSUME Settled, Stages, Pipe, Flow, Step
  PROVE Flow'
<1> DEFINE S == batch \cup held \cup sent
<1>0. pc \in {"stream", "mark"} =>
        /\ body \subseteq Response(cur) /\ Sound(S, cur)
        /\ writer # "err" => Full(S, Response(cur) \ body, cur)
        /\ writer \in {"close", "ok"} => body = {} /\ batch = {}
        /\ writer = "ok" => held = {}
        /\ uploader = "ok" => writer = "ok" /\ cur \in DOMAIN objects /\ objects[cur] = sent
  BY Zenon DEF Flow
<1>1. CASE pc' \notin {"stream", "mark"}
  BY <1>1, Zenon DEF Flow
<1>2. CASE /\ UNCHANGED <<cur, stored, body, batch, held, sent, writer, uploader, objects>>
           /\ pc \in {"stream", "mark"}
  BY <1>0, <1>2, FlowKept, Zenon
<1>3. CASE cur # None /\ Open(Response(cur)) /\ pc' = "stream"
  <2>1. /\ UNCHANGED <<cur, stored>> /\ body' = Response(cur) /\ batch' = {} /\ held' = {}
        /\ sent' = {} /\ writer' = "scan" /\ uploader' = "read"
    BY <1>3, Zenon DEF Open, EndRun, world
  <2>2. Sound({}, cur) /\ Full({}, Response(cur) \ Response(cur), cur)
    BY Zenon DEF Sound, Full
  <2>3. batch' \cup held' \cup sent' = {}
    BY <2>1, Zenon
  <2> QED
    BY <2>1, <2>2, <2>3, FlowKept, Zenon
<1>4. CASE cur # None /\ \E r \in body : Scanned(r)
  <2>1. PICK r \in body : Scanned(r)
    BY <1>4, Zenon
  <2>2. /\ writer = "scan" /\ pc = "stream" /\ body' = body \ {r} /\ UNCHANGED <<cur, stored>>
        /\ r \in Response(cur) /\ sent' = sent /\ uploader' = uploader /\ uploader # "ok"
    BY <1>0, <2>1, Zenon DEF Scanned, Pipe, run, world
  <2>3. CASE WriterFails /\ UNCHANGED <<held, batch>>
    BY <1>0, <2>2, <2>3, FlowKept, Zenon DEF WriterFails
  <2>4. CASE Form[r] # "good" /\ UNCHANGED <<held, batch, writer, pipe>>
    <3>1. Full(S, Response(cur) \ (body \ {r}), cur)
      BY <1>0, <2>2, <2>4, Zenon DEF Full
    <3> QED
      BY <1>0, <2>2, <2>4, <3>1, FlowKept, Zenon
  <2>5. CASE /\ Form[r] = "good" /\ UNCHANGED <<writer, pipe>>
             /\ \E rows \in RowSets(r, cur) : batch' \cup held' = batch \cup held \cup Carry(r, rows)
    <3>1. PICK rows \in RowSets(r, cur) : batch' \cup held' = batch \cup held \cup Carry(r, rows)
      BY <2>5, Zenon
    <3> DEFINE T == S \cup Carry(r, rows)
    <3>2. batch' \cup held' \cup sent' = T
      BY <2>2, <3>1, Zenon
    <3>3. Sound(T, cur)
      BY <1>0, <2>2, Zenon DEF Sound
    <3>4. Full(T, Response(cur) \ (body \ {r}), cur)
      BY <1>0, <2>2, Zenon DEF Full
    <3> HIDE DEF T, S
    <3> QED
      BY <1>0, <2>2, <2>5, <3>2, <3>3, <3>4, FlowKept, Zenon
  <2> QED
    BY <2>1, <2>3, <2>4, <2>5, Zenon DEF Scanned
<1>5. CASE cur # None /\ ScanEnds
  <2>1. /\ writer = "scan" /\ writer' = "close" /\ pc = "stream" /\ body = {} /\ body' = {}
        /\ batch' = {} /\ batch' \cup held' \cup sent' = S /\ UNCHANGED <<cur, stored, uploader>>
        /\ uploader # "ok"
    BY <1>0, <1>5, Zenon DEF ScanEnds, Pipe, run, world
  <2> HIDE DEF S
  <2> QED
    BY <1>0, <2>1, FlowKept, Zenon
<1>6. CASE cur # None /\ WritePipe
  <2>1. /\ writer \in {"scan", "close"} /\ pc = "stream" /\ batch' \cup held' \cup sent' = S
        /\ UNCHANGED <<cur, stored, uploader, body, batch>> /\ uploader # "ok"
        /\ writer' \in {writer, "err"}
    BY <1>0, <1>6, Zenon DEF WritePipe, WriterFails, Pipe, run, world
  <2> HIDE DEF S
  <2> QED
    BY <1>0, <2>1, FlowKept, Zenon
<1>7. CASE cur # None /\ WriterCloses
  <2>1. /\ writer = "close" /\ pc = "stream" /\ batch' \cup held' \cup sent' = S
        /\ UNCHANGED <<cur, stored, uploader, body, batch, held>> /\ uploader # "ok"
        /\ writer' \in {"ok", "err"} /\ held = {}
    BY <1>0, <1>7, Zenon DEF WriterCloses, WriterFails, Pipe, run, world
  <2> HIDE DEF S
  <2> QED
    BY <1>0, <2>1, FlowKept, Zenon
<1>8. CASE cur # None /\ UploadEnds
  <2>1. /\ uploader = "read" /\ pc = "stream" /\ writer = "ok"
        /\ UNCHANGED <<cur, stored, body, batch, held, sent, writer>>
        /\ uploader' = "ok" => objects' = WithObject(cur, sent)
    BY <1>8, Zenon DEF UploadEnds, Pipe, run, world
  <2>2. cur \in DOMAIN WithObject(cur, sent) /\ WithObject(cur, sent)[cur] = sent
    BY Zenon DEF WithObject
  <2> QED
    BY <1>0, <2>1, <2>2, FlowKept, Zenon
<1>9. CASE cur # None /\ UploadAborts
  <2>1. /\ pc = "stream" /\ uploader' = "err"
        /\ UNCHANGED <<cur, stored, body, batch, held, sent, writer>>
    BY <1>9, Zenon DEF UploadAborts, Pipe, run, world
  <2> QED
    BY <1>0, <2>1, FlowKept, Zenon
<1>10. CASE ScanBreaks
  <2>1. /\ pc = "stream" /\ writer = "scan" /\ writer' = "err" /\ uploader # "ok"
        /\ UNCHANGED <<cur, stored, body, batch, held, sent, uploader>>
    BY <1>0, <1>10, Zenon DEF ScanBreaks, WriterFails, Pipe, run, world
  <2> QED
    BY <1>0, <2>1, FlowKept, Zenon
<1>11. CASE UploadFails
  <2>1. /\ pc = "stream" /\ uploader' = "err"
        /\ UNCHANGED <<cur, stored, body, batch, held, sent, writer>>
    BY <1>11, Zenon DEF UploadFails, Pipe, run, world
  <2> QED
    BY <1>0, <2>1, FlowKept
<1>12. CASE Ingest
  <2>1. UNCHANGED <<pc, cur, body, batch, held, sent, writer, uploader, objects>>
    BY <1>12, Zenon DEF Ingest, run, stream, bucket
  <2>2. CASE pc \in {"stream", "mark"}
    <3>1. PICK w \in Windows : w = cur /\ w \in planned
      BY <2>2, Zenon DEF Stages
    <3>2. w.hour \in Nat /\ w.hour < UpTo
      BY <3>1, UpToFacts DEF Settled, Windows, Hours
    <3>3. Response(w)' = Response(w)
      BY <1>12, <3>2, IngestFacts, Zenon
    <3>4. /\ \A T : Sound(T, w)' <=> Sound(T, w)
          /\ \A T, R : Full(T, R, w)' <=> Full(T, R, w)
      BY <3>3, Unmoved, Zenon
    <3> QED
      BY <2>1, <2>2, <3>1, <3>3, <3>4, Zenon DEF Flow
  <2> QED
    BY <2>1, <2>2, Zenon DEF Flow
<1>13. CASE cur # None /\ Join
  <2>1. UNCHANGED <<cur, stored, body, batch, held, sent, writer, uploader, objects>> \/ pc' = "loop"
    BY <1>13, Zenon DEF Join, EndWindow, stream, bucket, world
  <2> QED
    BY <1>1, <1>2, <1>13, <2>1, Zenon DEF Join
<1>14. CASE Tick
  <2>1. UNCHANGED <<pc, cur, stored, body, batch, held, sent, writer, uploader, objects>>
    BY <1>14, Zenon DEF Tick, run, stream, bucket
  <2> QED
    BY <1>1, <1>2, <2>1, Zenon
<1> QED
  BY <1>1, <1>3, <1>4, <1>5, <1>6, <1>7, <1>8, <1>9, <1>10, <1>11, <1>12, <1>13, <1>14, ZenonT(60)
     DEF Step, Pipeline, Start, CollectSource, CollectEnds, CheckMarker, Finish, Open, EndRun,
         EndWindow, PutSuccess, Crash, Stages

\* An object is written only for the window in hand.
LEMMA ObjectsKept ==
  ASSUME Stages, Step
  PROVE \A w \in marked :
          /\ w \in marked'
          /\ w \in DOMAIN objects => w \in DOMAIN objects' /\ objects'[w] = objects[w]
<1>1. CASE UNCHANGED objects /\ marked \subseteq marked'
  BY <1>1, Zenon
<1>2. CASE cur # None /\ UploadEnds
  <2>1. marked' = marked /\ objects' \in {objects, WithObject(cur, sent)}
    BY <1>2, Zenon DEF UploadEnds
  <2>2. cur \notin marked
    BY <1>2, Zenon DEF Stages
  <2> QED
    BY <2>1, <2>2, Zenon DEF WithObject
<1> QED
  BY <1>1, <1>2, Zenon
     DEF Step, Scanned, Start, CollectSource, CollectEnds, CheckMarker, Finish, Open, Pipeline,
         ScanEnds, WritePipe, WriterCloses, UploadAborts, Join, PutSuccess, ScanBreaks,
         UploadFails, Crash, Tick, Ingest, bucket

\* A window is marked when its object is whole, and stays so.
LEMMA NextMarked ==
  ASSUME Settled, Stages, Pipe, Flow, Marked, Step
  PROVE Marked'
<1>1. ASSUME NEW w \in Windows, w.hour < UpTo PROVE Response(w)' = Response(w)
  <2>1. CASE Ingest
    BY <1>1, <2>1, IngestFacts DEF Windows, Hours
  <2>2. CASE stored' = stored
    BY <2>2, Zenon DEF Response
  <2> QED
    BY <2>1, <2>2, Zenon
       DEF Step, Scanned, Start, CollectSource, CollectEnds, CheckMarker, Finish, Open, Pipeline,
           ScanEnds, WritePipe, WriterCloses, UploadEnds, UploadAborts, Join, PutSuccess,
           ScanBreaks, UploadFails, Crash, Tick, world
<1>2. ASSUME NEW w \in Windows, w.hour < UpTo, Exported(w), w \in DOMAIN objects',
             objects'[w] = objects[w]
      PROVE Exported(w)'
  <2>1. PICK rows : rows = objects[w]
    OBVIOUS
  <2>2. w \in DOMAIN objects /\ Sound(rows, w) /\ Full(rows, Response(w), w)
    BY <1>2, <2>1, Zenon DEF Exported
  <2>3. Response(w)' = Response(w)
    BY <1>1, <1>2, Zenon
  <2>4. Sound(rows, w)' /\ Full(rows, Response(w), w)'
    BY <2>2, <2>3, Unmoved, Zenon
  <2> QED
    BY <1>2, <2>1, <2>4, Zenon DEF Exported
<1>3. ASSUME NEW w \in marked PROVE Exported(w)'
  <2>1. w \in Windows /\ w.hour < UpTo /\ Exported(w)
    BY Zenon DEF Settled, Marked
  <2>2. w \in DOMAIN objects /\ w \in DOMAIN objects' /\ objects'[w] = objects[w]
    BY <2>1, ObjectsKept, Zenon DEF Exported
  <2> QED
    BY <1>2, <2>1, <2>2, Zenon
<1>4. CASE marked' = marked
  BY <1>3, <1>4, Zenon DEF Marked
<1>5. CASE cur # None /\ PutSuccess
  <2>1. /\ pc = "mark" /\ marked' \subseteq marked \cup {cur} /\ objects' = objects
        /\ UNCHANGED stored
    BY <1>5, Zenon DEF PutSuccess, world
  <2>2. /\ writer = "ok" /\ uploader = "ok" /\ body = {} /\ batch = {} /\ held = {}
        /\ cur \in DOMAIN objects /\ objects[cur] = sent
        /\ Sound(batch \cup held \cup sent, cur)
        /\ Full(batch \cup held \cup sent, Response(cur) \ body, cur)
    BY <2>1, Zenon DEF Pipe, Flow
  <2>3. batch \cup held \cup sent = sent /\ Response(cur) \ body = Response(cur)
    BY <2>2, Zenon
  <2>4. PICK w \in Windows : w = cur /\ w \in planned
    BY <1>5, Zenon DEF Stages
  <2>5. Exported(w)
    BY <2>2, <2>3, <2>4, Zenon DEF Exported
  <2>6. w.hour < UpTo
    BY <2>4, UpToFacts DEF Settled, Windows, Hours
  <2>7. Exported(w)'
    BY <1>2, <2>1, <2>2, <2>4, <2>5, <2>6, Zenon
  <2> QED
    BY <1>3, <2>1, <2>4, <2>7, Zenon DEF Marked
<1> QED
  BY <1>4, <1>5, Zenon
     DEF Step, Scanned, Start, CollectSource, CollectEnds, CheckMarker, Finish, Open, Pipeline,
         ScanEnds, WritePipe, WriterCloses, UploadEnds, UploadAborts, Join, ScanBreaks,
         UploadFails, Crash, Tick, Ingest, bucket

----------------------------------------------------------------------------
(* The theorems.                                                           *)

\* The records being scanned are records: NextFacts applies.
LEMMA BodyFacts == ASSUME IInv, Next PROVE Step
<1>1. CASE pc = "stream"
  <2>1. body \subseteq Records
    BY <1>1, Zenon DEF IInv, Flow, Response, Settled
  <2> QED
    BY <2>1, NextFacts, Zenon
<1>2. CASE pc # "stream"
  <2>1. writer # "scan"
    BY <1>2, Zenon DEF IInv, Pipe
  <2>2. /\ \A r \in body : ~ScanVMExport(r) /\ ~ScanVLogsExport(r) /\ ~ScanVTracesExport(r)
    BY <2>1, Zenon DEF ScanVMExport, ScanVLogsExport, ScanVTracesExport, ScanLine
  <2> QED
    BY <2>2, ResponseFacts, Zenon
       DEF Next, Process, Step, exportMetricsWindow, exportLogsWindow, exportTracesWindow
<1> QED
  BY <1>1, <1>2, Zenon

\* The inductive invariant of the exporter: the clock, the run, the pipe and the bucket.
THEOREM Invariance == Spec => []IInv
<1>1. ASSUME Init PROVE IInv
  <2>1. Settled
    <3>1. /\ FirstHour \in Nat /\ MaxHour \in Nat /\ FirstHour >= 1 /\ FirstHour <= MaxHour
          /\ TicksPerHour \in Nat \ {0}
      BY ClockAssumption
    <3>2. hour \in FirstHour..MaxHour /\ tick \in 0..(TicksPerHour - 1) /\ UpTo \in Nat
      BY <1>1, <3>1 DEF Init, UpTo
    <3> QED
      BY <1>1, <3>2 DEF Init, Settled
  <2>2. Stages /\ Accounted /\ Pipe /\ Flow /\ Marked
    BY <1>1 DEF Init, Stages, Accounted, Pipe, Flow, Marked
  <2> QED
    BY <2>1, <2>2, Zenon DEF IInv
<1>2. ASSUME IInv, [Next]_vars PROVE IInv'
  <2>1. CASE Next
    BY <1>2, <2>1, BodyFacts, NextSettled, NextStages, NextPipe, NextFlow, NextMarked, Zenon DEF IInv
  <2>2. CASE UNCHANGED vars
    <3>1. Settled' /\ Stages' /\ Accounted' /\ Pipe'
      BY <1>2, <2>2, Zenon DEF IInv, Settled, UpTo, Stages, Accounted, Pipe, vars, run, stream, bucket,
                        world
    <3>2. \A w : Response(w)' = Response(w)
      BY <2>2, Zenon DEF Response, vars, world
    <3>3. Flow' /\ Marked'
      BY <1>2, <2>2, <3>2, ZenonT(60)
         DEF IInv, Flow, Marked, Exported, Sound, Full, vars, run, stream, bucket
    <3> QED
      BY <3>1, <3>3, Zenon DEF IInv
  <2> QED
    BY <1>2, <2>1, <2>2, Zenon
<1> QED
  BY <1>1, <1>2, PTL DEF Spec

\* SuccessMeansMarked: a run that reports success has marked every window it collected,
\* for any number of windows and failures (exporter.go: exportErr).
THEOREM SuccessMeansMarkedHolds == Spec => []SuccessMeansMarked
<1>1. IInv => SuccessMeansMarked
  BY Zenon DEF IInv, Accounted, SuccessMeansMarked
<1> QED
  BY <1>1, Invariance, PTL

\* MarkedIsFinal: a marked window stays marked and its object is not rewritten
\* (exporter.go: the idempotency checks of collectWindows and exportWindow).
THEOREM MarkedIsFinalHolds == Spec => MarkedIsFinal
<1>1. ASSUME IInv, [Next]_vars
      PROVE [\A w \in marked : w \in marked' /\ objects'[w] = objects[w]]_vars
  <2>1. CASE Next
    BY <1>1, <2>1, BodyFacts, ObjectsKept, Zenon DEF IInv, Marked, Exported
  <2> QED
    BY <1>1, <2>1, Zenon
<1> QED
  BY <1>1, Invariance, PTL DEF Spec, MarkedIsFinal

----------------------------------------------------------------------------
(* What a row shows of its record.                                         *)

\* A series' labels are all in its rows (ParseVMExportLine, MetricsParquetWriter.Write).
LEMMA MetricWhole ==
  ASSUME NEW r, Source[r] = "metrics", NEW x \in ParseVMExportLine(Line[r]), NEW e,
         e.of = r, e.row = MetricParquetRow(x)
  PROVE Whole(e)
<1>1. PICK i : x = [columns |-> [c \in MetricColumns |-> Field(Line[r].metric, c)],
                    attributes |-> Only(Line[r].metric, DOMAIN Line[r].metric \ MetricColumns),
                    timestamp |-> Line[r].timestamps[i],
                    value |-> CHOOSE v \in parseVMValue(Line[r].values[i]) : TRUE]
  BY Zenon DEF ParseVMExportLine
<1>2. /\ e.row.columns = [c \in MetricColumns |-> Field(Line[r].metric, c)]
      /\ e.row.attributes = Marshal(Only(Line[r].metric, DOMAIN Line[r].metric \ MetricColumns))
  BY <1>1, Zenon DEF MetricParquetRow
<1> SUFFICES ASSUME NEW k \in NonEmpty(Line[r].metric)
             PROVE Keeps(e.row, r, k, Line[r].metric[k])
  BY Zenon DEF Whole, Fields
<1>3. CASE k \in MetricColumns
  BY <1>2, <1>3, Zenon DEF Keeps, NonEmpty, Field
<1>4. CASE k \notin MetricColumns
  <2>1. <<k, Line[r].metric[k]>> \in e.row.attributes
    BY <1>2, <1>4, Zenon DEF NonEmpty, Only, Marshal
  <2> QED
    BY <2>1, Zenon DEF Keeps
<1> QED
  BY <1>3, <1>4, Zenon

\* A log line's fields are all in its row (parseVLogsLine, LogsParquetWriter.Write).
LEMMA LogWhole ==
  ASSUME NEW r, Source[r] = "logs", NEW w, Belongs(r, w), NEW e, e.of = r,
         e.row = LogParquetRow(parseVLogsLine(Line[r], w.tenant, w.cluster))
  PROVE Whole(e)
<1>1. /\ e.row.columns = [c \in LogColumns |-> Field(Line[r], c)]
      /\ e.row.attributes = Marshal(Only(Line[r], NonEmpty(Line[r]) \ LogReserved))
      /\ e.row.timestamp = Time(Field(Line[r], "_time"))
      /\ e.row.tenant = w.tenant /\ e.row.cluster = w.cluster
  BY Zenon DEF LogParquetRow, parseVLogsLine
<1> SUFFICES ASSUME NEW k \in NonEmpty(Line[r])
             PROVE Keeps(e.row, r, k, Line[r][k])
  BY Zenon DEF Whole, Fields
<1>2. k \in DOMAIN Line[r] /\ Field(Line[r], k) = Line[r][k]
  BY Zenon DEF NonEmpty, Field
<1>3. CASE k \in LogColumns
  BY <1>1, <1>2, <1>3, Zenon DEF Keeps
<1>4. CASE k \notin LogReserved
  <2>1. <<k, Line[r][k]>> \in e.row.attributes
    BY <1>1, <1>2, <1>4, Zenon DEF Only, Marshal
  <2> QED
    BY <2>1, Zenon DEF Keeps
<1>5. CASE k = "tenant"
  <2>1. TenantOf(r) = Line[r][k]
    BY <1>2, <1>5, Zenon DEF TenantOf
  <2>2. e.row.tenant \in {Line[r][k], Default}
    BY <1>1, <2>1, Zenon DEF Belongs
  <2> QED
    BY <1>5, <2>2, Zenon DEF Keeps
<1>6. CASE k = "k8s.cluster.name"
  <2>1. ClusterOf(r) = Line[r][k]
    BY <1>2, <1>6, Zenon DEF ClusterOf
  <2>2. e.row.cluster = Line[r][k]
    BY <1>1, <2>1, Zenon DEF Belongs
  <2> QED
    BY <1>6, <2>2, Zenon DEF Keeps
<1>7. CASE k = "_time"
  BY <1>1, <1>2, <1>7, Zenon DEF Keeps
<1>8. CASE k \in {"_stream", "_stream_id"}
  BY <1>8, Zenon DEF Keeps
<1> QED
  BY <1>3, <1>4, <1>5, <1>6, <1>7, <1>8, Zenon DEF LogReserved

\* A set of two elements.
LEMMA Doubleton ==
  ASSUME NEW a, NEW b
  PROVE IsFiniteSet({a, b}) /\ (a # b => Cardinality({a, b}) = 2)
<1>1. IsFiniteSet({a}) /\ Cardinality({a}) = 1
  BY FS_Singleton, Zenon
<1>2. {a, b} = {a} \cup {b}
  OBVIOUS
<1>3. /\ IsFiniteSet({a} \cup {b})
      /\ b \notin {a} => Cardinality({a} \cup {b}) = Cardinality({a}) + 1
  BY <1>1, FS_AddElement, Zenon
<1> QED
  BY <1>1, <1>2, <1>3

\* An attribute that only one field claims is the value of that field: SpanAttributeFields
\* is then the set of that field alone.
LEMMA Uncontested ==
  ASSUME NEW r, Source[r] = "traces", NEW n \in STRING, NEW p \in {"span_attr", "top"},
         <<p, n>> \in SpanAttributeFields(Line[r], n), ~Contested(r, <<p, n>>)
  PROVE SpanAttributeFields(Line[r], n) = {<<p, n>>}
<1> DEFINE S == SpanAttributeFields(Line[r], n)
<1>1. S \subseteq {<<"span_attr", n>>, <<"top", n>>}
  BY DEF SpanAttributeFields, Span, Top
<1>2. ~(Cardinality(S) > 1)
  BY Zenon DEF Contested
<1>3. IsFiniteSet(S)
  <2>1. IsFiniteSet({<<"span_attr", n>>, <<"top", n>>})
    BY Doubleton, Zenon
  <2> QED
    BY <1>1, <2>1, FS_Subset, Zenon
<1>4. ASSUME NEW f \in S PROVE f = <<p, n>>
  <2> SUFFICES ASSUME f # <<p, n>> PROVE FALSE
    OBVIOUS
  <2>1. {f, <<p, n>>} \subseteq S
    OBVIOUS
  <2>2. Cardinality({f, <<p, n>>}) = 2
    BY Doubleton, Zenon
  <2>3. 2 <= Cardinality(S)
    BY <1>3, <2>1, <2>2, FS_Subset, Zenon
  <2>4. Cardinality(S) \in Nat
    BY <1>3, FS_CardinalityType, Zenon
  <2> QED
    BY <1>2, <2>3, <2>4
<1> QED
  BY <1>4, Zenon

\* The field a span's attribute n is taken from, when the iteration over the line's fields
\* meets the one with prefix last at the end.
TakenFrom(raw, n, last) ==
  IF n \in DOMAIN ScopeFields /\ Field(raw, ScopeFields[n]) # "" THEN ScopeFields[n]
  ELSE IF <<last, n>> \in SpanAttributeFields(raw, n) THEN <<last, n>>
  ELSE CHOOSE f \in SpanAttributeFields(raw, n) : TRUE

\* The resource attributes that have no column.
OtherResource(raw) ==
  {f \in NonEmpty(raw) : f[1] = "resource_attr"}
    \ (ResourceColumns \cup Resource({"k8s.cluster.name"}))

\* The parts of a span's row that hold its fields.
SpanColumns(raw) == [f \in TopColumns \cup ResourceColumns |-> Field(raw, f)]
SpanResource(raw) ==
  Marshal([n \in {f[2] : f \in OtherResource(raw)} |-> raw[<<"resource_attr", n>>]])
SpanAttributes(raw, last) ==
  Marshal([n \in SpanAttributeNames(raw) |-> raw[TakenFrom(raw, n, last[n])]])

\* A span's row has these parts (parseVTracesLine, TracesParquetWriter.Write).
LEMMA TraceRow ==
  ASSUME NEW raw, NEW t, NEW c, NEW x \in parseVTracesLine(raw, t, c), NEW row,
         row = TraceParquetRow(x)
  PROVE /\ row.columns = SpanColumns(raw) /\ row.resource = SpanResource(raw)
        /\ \E last : row.attributes = SpanAttributes(raw, last)
<1> DEFINE row0(last) ==
      [columns |-> [f \in TopColumns \cup ResourceColumns |-> Field(raw, f)],
       kind |-> spanKindName(Field(raw, <<"top", "kind">>)),
       status |-> statusCodeName(Field(raw, <<"top", "status_code">>)),
       timestamp |-> SpanTimestamp(raw),
       duration |-> Number(Field(raw, <<"top", "duration">>)),
       flags |-> TraceFlags(Field(raw, <<"top", "flags">>)),
       resource |-> [n \in {f[2] : f \in OtherResource(raw)} |-> raw[<<"resource_attr", n>>]],
       attributes |-> [n \in SpanAttributeNames(raw) |-> raw[TakenFrom(raw, n, last[n])]],
       tenant |-> t, cluster |-> c]
<1>1. PICK last : x = row0(last)
  BY ZenonT(60) DEF parseVTracesLine, TakenFrom, OtherResource
<1>2. /\ row.columns = row0(last).columns
      /\ row.resource = Marshal(row0(last).resource)
      /\ row.attributes = Marshal(row0(last).attributes)
  BY <1>1, Zenon DEF TraceParquetRow
<1> QED
  BY <1>2, Zenon DEF SpanColumns, SpanResource, SpanAttributes

\* A span's fields are all in its row, but for those that lose their name to another.
LEMMA TraceWhole ==
  ASSUME NEW r \in Records, Source[r] = "traces", NEW t, NEW c,
         NEW x \in parseVTracesLine(Line[r], t, c), NEW e, e.of = r, e.row = TraceParquetRow(x)
  PROVE Whole(e)
<1> DEFINE raw == Line[r]
<1>0. /\ e.row.columns = SpanColumns(Line[r]) /\ e.row.resource = SpanResource(Line[r])
      /\ \E last : e.row.attributes = SpanAttributes(Line[r], last)
  <2>1. PICK row : row = TraceParquetRow(x)
    OBVIOUS
  <2>2. /\ row.columns = SpanColumns(Line[r]) /\ row.resource = SpanResource(Line[r])
        /\ \E last : row.attributes = SpanAttributes(Line[r], last)
    BY <2>1, TraceRow, SMTT(20), ZenonT(30)
  <2> QED
    BY <2>1, <2>2, Zenon
<1>1. e.row.columns = SpanColumns(raw) /\ e.row.resource = SpanResource(raw)
  BY <1>0, Zenon
<1>2. PICK last : e.row.attributes = SpanAttributes(raw, last)
  BY <1>0, Zenon
<1> SUFFICES ASSUME NEW k \in NonEmpty(raw), ~Contested(r, k)
             PROVE Keeps(e.row, r, k, raw[k])
  BY Zenon DEF Whole, Fields
<1>3. PICK p, n : /\ p \in {"top", "span_attr", "resource_attr"} /\ n \in STRING /\ k = <<p, n>>
                  /\ k[1] = p /\ k[2] = n
  <2>1. k \in {"top", "span_attr", "resource_attr"} \X STRING
    BY RecordAssumption, Zenon DEF NonEmpty
  <2> QED
    BY <2>1
<1>4. k \in DOMAIN raw /\ raw[k] # "" /\ Field(raw, k) = raw[k]
  BY Zenon DEF NonEmpty, Field
<1>5. CASE k \in TopColumns \cup ResourceColumns
  BY <1>1, <1>4, <1>5, Zenon DEF Keeps, SpanColumns
<1>6. CASE p = "resource_attr" /\ k \notin ResourceColumns
  <2>1. CASE n = "k8s.cluster.name"
    BY <1>3, <2>1, Zenon DEF Keeps
  <2>2. CASE n # "k8s.cluster.name"
    <3>1. k \in OtherResource(raw)
      BY <1>3, <1>6, <2>2, Zenon DEF OtherResource, Resource
    <3>2. n \in {f[2] : f \in OtherResource(raw)}
      BY <1>3, <3>1, Zenon
    <3>3. <<n, raw[<<"resource_attr", n>>]>> \in e.row.resource
      BY <1>1, <3>2, Zenon DEF SpanResource, Marshal
    <3> QED
      BY <1>3, <1>6, <3>3, Zenon DEF Keeps
  <2> QED
    BY <2>1, <2>2, Zenon
<1>7. ASSUME NEW m \in SpanAttributeNames(raw), TakenFrom(raw, m, last[m]) = k
      PROVE <<m, raw[k]>> \in e.row.attributes
  BY <1>2, <1>7, Zenon DEF SpanAttributes, Marshal
<1>8. CASE k \in SpanAttributeFields(raw, n)
  <2>1. p \in {"span_attr", "top"}
    BY <1>3, <1>8, Zenon DEF SpanAttributeFields, Span, Top
  <2>2. SpanAttributeFields(raw, n) = {k}
    BY <1>3, <1>8, <2>1, Uncontested, ZenonT(60)
  <2>3. ~(n \in DOMAIN ScopeFields /\ Field(raw, ScopeFields[n]) # "")
    BY <1>3, <2>1, Zenon DEF Contested
  <2>4. TakenFrom(raw, n, last[n]) = k
    <3>1. (CHOOSE f \in SpanAttributeFields(raw, n) : TRUE) \in SpanAttributeFields(raw, n)
      BY <1>8, Zenon
    <3> QED
      BY <2>2, <2>3, <3>1, Zenon DEF TakenFrom
  <2>5. n \in SpanAttributeNames(raw)
    BY <1>3, <1>4, <1>8, <2>1, Zenon DEF SpanAttributeNames, SpanAttributeFields, Span, Top
  <2>6. <<n, raw[k]>> \in e.row.attributes
    BY <1>7, <2>4, <2>5, Zenon
  <2> QED
    BY <1>3, <2>1, <2>6, Zenon DEF Keeps
<1>9. CASE k \in TopReserved \ TopColumns
  <2>1. CASE k \in Range(ScopeFields)
    <3>1. PICK m \in DOMAIN ScopeFields : ScopeFields[m] = k
      BY <2>1, Zenon DEF Range
    <3>2. m \in SpanAttributeNames(raw) /\ TakenFrom(raw, m, last[m]) = k
      BY <1>4, <3>1, Zenon DEF SpanAttributeNames, TakenFrom
    <3>3. <<m, raw[k]>> \in e.row.attributes
      BY <1>7, <3>2, Zenon
    <3> QED
      BY <3>1, <3>3, Zenon DEF Keeps
  <2>2. CASE k \notin Range(ScopeFields)
    BY <1>9, <2>2, Zenon DEF Keeps
  <2> QED
    BY <2>1, <2>2, Zenon
<1>10. CASE p \in {"span_attr", "top"} /\ k \notin TopReserved
  <2>1. k \in SpanAttributeFields(raw, n)
    BY <1>3, <1>10, Zenon DEF SpanAttributeFields, Span, Top
  <2> QED
    BY <1>8, <2>1, Zenon
<1>11. p = "resource_attr" => k \notin TopReserved
  BY <1>3, Zenon DEF TopReserved, TopColumns, Top
<1> QED
  BY <1>3, <1>5, <1>6, <1>9, <1>10, <1>11, Zenon

\* The rows a record becomes are whole and there is one for each of its samples, whatever
\* the source.
LEMMA RowFacts ==
  ASSUME NEW r \in Records, NEW w \in Windows, Belongs(r, w), NEW rows \in RowSets(r, w)
  PROVE /\ \A e \in Carry(r, rows) : e.of = r /\ Whole(e)
        /\ \A s \in Samples(r) :
             \E e \in Carry(r, rows) : e.of = r /\ (s # {} => e.row.timestamp \in s)
<1>1. Source[r] \in {"metrics", "logs", "traces"}
  <2>1. w.source \in Members(Sources) /\ Source[r] = w.source
    BY Zenon DEF Belongs, Windows
  <2>2. Members(Sources) \subseteq {"metrics", "logs", "traces"}
    BY ConfigAssumption DEF LoadConfig, Members
  <2> QED
    BY <2>1, <2>2, Zenon
<1>2. \A x \in rows : [of |-> r, row |-> x] \in Carry(r, rows)
  BY Zenon DEF Carry
<1>3. CASE Source[r] = "metrics"
  <2>1. rows = {MetricParquetRow(x) : x \in ParseVMExportLine(Line[r])}
    BY <1>3, Zenon DEF RowSets
  <2>2. ASSUME NEW e \in Carry(r, rows) PROVE e.of = r /\ Whole(e)
    <3>1. PICK x \in ParseVMExportLine(Line[r]) : e = [of |-> r, row |-> MetricParquetRow(x)]
      BY <2>1, Zenon DEF Carry
    <3>2. e.of = r /\ e.row = MetricParquetRow(x)
      BY <3>1, Zenon
    <3> QED
      BY <1>3, <3>2, MetricWhole, Zenon
  <2>3. ASSUME NEW s \in Samples(r)
        PROVE \E e \in Carry(r, rows) : e.of = r /\ (s # {} => e.row.timestamp \in s)
    <3>1. PICK i \in DOMAIN Line[r].values :
            parseVMValue(Line[r].values[i]) # {} /\ s = {Line[r].timestamps[i]}
      BY <1>3, Zenon DEF Samples
    <3> DEFINE x == [columns |-> [c \in MetricColumns |-> Field(Line[r].metric, c)],
                     attributes |-> Only(Line[r].metric, DOMAIN Line[r].metric \ MetricColumns),
                     timestamp |-> Line[r].timestamps[i],
                     value |-> CHOOSE v \in parseVMValue(Line[r].values[i]) : TRUE]
               e == [of |-> r, row |-> MetricParquetRow(x)]
    <3>2. x \in ParseVMExportLine(Line[r])
      BY <3>1, Zenon DEF ParseVMExportLine
    <3>3. MetricParquetRow(x).timestamp = Line[r].timestamps[i]
      BY Zenon DEF MetricParquetRow
    <3> HIDE DEF x
    <3>4. e \in Carry(r, rows)
      BY <1>2, <2>1, <3>2, Zenon
    <3>5. e.of = r /\ e.row.timestamp = Line[r].timestamps[i]
      BY <3>3, Zenon
    <3> QED
      BY <3>1, <3>4, <3>5, Zenon
  <2> QED
    BY <2>2, <2>3, Zenon
<1>4. CASE Source[r] = "logs"
  <2>1. rows = {LogParquetRow(parseVLogsLine(Line[r], w.tenant, w.cluster))}
    BY <1>4, Zenon DEF RowSets
  <2>2. ASSUME NEW e \in Carry(r, rows) PROVE e.of = r /\ Whole(e)
    <3>1. e.of = r /\ e.row = LogParquetRow(parseVLogsLine(Line[r], w.tenant, w.cluster))
      BY <2>1, SMTT(20), ZenonT(30) DEF Carry
    <3> QED
      BY <1>4, <3>1, LogWhole, Zenon
  <2>3. Samples(r) = {{}}
    BY <1>4, Zenon DEF Samples
  <2> QED
    BY <1>2, <2>1, <2>2, <2>3, Zenon
<1>5. CASE Source[r] = "traces"
  <2>1. PICK x \in parseVTracesLine(Line[r], w.tenant, w.cluster) : rows = {TraceParquetRow(x)}
    BY <1>5, Zenon DEF RowSets
  <2>2. ASSUME NEW e \in Carry(r, rows) PROVE e.of = r /\ Whole(e)
    <3>1. e.of = r /\ e.row = TraceParquetRow(x)
      BY <2>1 DEF Carry
    <3> QED
      BY <1>5, <2>1, <3>1, TraceWhole, ZenonT(60)
  <2>3. Samples(r) = {{}}
    BY <1>5, Zenon DEF Samples
  <2> QED
    BY <1>2, <2>1, <2>2, <2>3, Zenon
<1> QED
  BY <1>1, <1>3, <1>4, <1>5, Zenon

\* MarkedIsComplete: the object of a window with a _SUCCESS marker holds every readable
\* record of the window, sample by sample and field by field, and no other; whatever the
\* records, the batch size, the failures and the crashes (exporter.go: the marker is put
\* after both goroutines ended well).
THEOREM MarkedIsCompleteHolds == Spec => []MarkedIsComplete
<1>1. ASSUME IInv PROVE MarkedIsComplete
  <2> SUFFICES ASSUME NEW w \in marked
               PROVE /\ w \in DOMAIN objects
                     /\ \A e \in objects[w] : Belongs(e.of, w) /\ Whole(e)
                     /\ \A r \in {q \in stored : Belongs(q, w) /\ Form[q] = "good"} :
                          \A s \in Samples(r) :
                            \E e \in objects[w] : e.of = r /\ (s # {} => e.row.timestamp \in s)
    BY Zenon DEF MarkedIsComplete
  <2>1. w \in Windows /\ Exported(w) /\ stored \subseteq Records
    BY <1>1, Zenon DEF IInv, Settled, Marked
  <2>2. ASSUME NEW e \in objects[w] PROVE Belongs(e.of, w) /\ Whole(e)
    <3>1. PICK r \in Response(w) : \E rows \in RowSets(r, w) : e \in Carry(r, rows)
      BY <2>1, Zenon DEF Exported, Sound
    <3>2. PICK rows \in RowSets(r, w) : e \in Carry(r, rows)
      BY <3>1, Zenon
    <3>3. r \in Records /\ Belongs(r, w)
      BY <2>1, Zenon DEF Response
    <3>4. e.of = r /\ Whole(e)
      BY <2>1, <3>2, <3>3, RowFacts, Zenon
    <3> QED
      BY <3>3, <3>4, Zenon
  <2>3. ASSUME NEW r \in stored, Belongs(r, w), Form[r] = "good", NEW s \in Samples(r)
        PROVE \E e \in objects[w] : e.of = r /\ (s # {} => e.row.timestamp \in s)
    <3>1. PICK rows \in RowSets(r, w) : Carry(r, rows) \subseteq objects[w]
      BY <2>1, <2>3, Zenon DEF Exported, Full, Response
    <3>2. r \in Records
      BY <2>1, Zenon
    <3>3. \E e \in Carry(r, rows) : e.of = r /\ (s # {} => e.row.timestamp \in s)
      BY <2>1, <2>3, <3>2, RowFacts, Zenon
    <3> QED
      BY <3>1, <3>3, Zenon
  <2> QED
    BY <2>1, <2>2, <2>3, Zenon DEF Exported
<1> QED
  BY <1>1, Invariance, PTL

----------------------------------------------------------------------------
(* Discovery.                                                              *)

\* The configuration lists neither tenants nor clusters, and the sources answer with JSON
\* arrays: with one value per line a list of one is lost (DiscoverFieldValues).
Unlisted == ~LineFormat /\ CfgTenants = {} /\ CfgClusters = {}

\* Discovery finds the tenant of every record of the range that names one, and then its
\* cluster (discoverTenants, discoverClusters).
LEMMA Discovered ==
  ASSUME Unlisted, NEW s \in {"metrics", "logs", "traces"},
         NEW r \in InRange(s), TenantOf(r) # "", ClusterOf(r) # ""
  PROVE TenantOf(r) \in discoverTenants(s) /\ ClusterOf(r) \in discoverClusters(s, TenantOf(r))
<1>1. Source[r] = s
  BY Zenon DEF InRange
<1>2. CASE s = "metrics"
  <2>1. TenantOf(r) = Field(Line[r].metric, "tenant")
        /\ ClusterOf(r) = Field(Line[r].metric, "cluster")
    BY <1>1, <1>2, Zenon DEF TenantOf, ClusterOf
  <2>2. TenantOf(r) \in DiscoverTenants(s)
    BY <1>2, <2>1, Zenon DEF DiscoverTenants, discoverLabelValues
  <2>3. ClusterOf(r) \in DiscoverClusters(TenantOf(r))
    BY <1>2, <2>1, Zenon DEF DiscoverClusters, discoverLabelValues, OfTenant
  <2> QED
    BY <1>2, <2>2, <2>3, Zenon DEF discoverTenants, discoverClusters, Unlisted
<1>3. CASE s = "logs"
  <2>1. TenantOf(r) = Field(Line[r], "tenant") /\ ClusterOf(r) = Field(Line[r], "k8s.cluster.name")
    BY <1>1, <1>3, Zenon DEF TenantOf, ClusterOf
  <2>2. TenantOf(r) \in DiscoverTenants(s)
    BY <1>3, <2>1, Zenon DEF DiscoverTenants, DiscoverFieldValues, Decoded, Unlisted
  <2>3. ClusterOf(r) \in DiscoverLogClusters(TenantOf(r))
    BY <1>3, <2>1, Zenon DEF DiscoverLogClusters, DiscoverFieldValues, Decoded, Unlisted, OfTenant
  <2> QED
    BY <1>3, <2>2, <2>3, Zenon DEF discoverTenants, discoverClusters, Unlisted
<1>4. CASE s = "traces"
  <2>1. /\ TenantOf(r) = Field(Line[r], <<"top", "tenant">>)
        /\ ClusterOf(r) = Field(Line[r], <<"resource_attr", "k8s.cluster.name">>)
    BY <1>1, <1>4, Zenon DEF TenantOf, ClusterOf
  <2>2. TenantOf(r) \in DiscoverTenants(s)
    BY <1>4, <2>1, Zenon DEF DiscoverTenants, discoverFieldValues, Decoded, Unlisted
  <2>3. ClusterOf(r) \in DiscoverTraceClusters(TenantOf(r))
    BY <1>4, <2>1, Zenon DEF DiscoverTraceClusters, discoverFieldValues, Decoded, Unlisted, OfTenant
  <2> QED
    BY <1>4, <2>2, <2>3, Zenon DEF discoverTenants, discoverClusters, Unlisted
<1> QED
  BY <1>2, <1>3, <1>4, Zenon

\* The sources of the configuration are listed at 1..Len(Sources).
LEMMA SourcesFacts ==
  /\ DOMAIN Sources = 1..Len(Sources) /\ Len(Sources) \in Nat
  /\ Members(Sources) \subseteq {"metrics", "logs", "traces"}
  BY ConfigAssumption, SMTT(20), ZenonT(30) DEF LoadConfig, Members

\* What collectWindows adds for a source covers the source.
LEMMA CollectedCovers ==
  ASSUME Unlisted, Settled, NEW s \in Members(Sources),
         NEW r \in InRange(s), NamesBoth(r)
  PROVE \E w \in Collected(s, discoverTenants(s)) \cup marked : Belongs(r, w)
<1> DEFINE w == [source |-> s, tenant |-> TenantOf(r), cluster |-> ClusterOf(r), hour |-> Hour[r]]
<1>1. s \in {"metrics", "logs", "traces"}
  BY SourcesFacts, Zenon
<1>2. /\ r \in Records /\ Source[r] = s /\ Hour[r] \in Nat
      /\ range[1] <= Hour[r] /\ Hour[r] < range[2] /\ range \in Nat \X Nat /\ range[2] <= UpTo
      /\ TenantOf(r) \in Members(TenantOrder) /\ ClusterOf(r) \in Members(ClusterOrder)
  BY RecordAssumption, Zenon DEF InRange, Settled, NamesBoth
<1>3. Hour[r] \in Hours
  <2>1. range[2] \in Nat /\ UpTo \in Nat /\ MaxHour \in Nat /\ UpTo <= MaxHour
    BY <1>2, UpToFacts, ClockAssumption, Zenon
  <2> QED
    BY <1>2, <2>1, SMTT(20), ZenonT(30) DEF Hours
<1>4. w \in Windows
  BY <1>2, <1>3, Zenon DEF Windows
<1>5. Belongs(r, w)
  BY <1>2, Zenon DEF Belongs
<1>6. w \in Collected(s, discoverTenants(s)) \cup marked
  BY <1>1, <1>2, <1>4, Discovered, ZenonT(60) DEF Collected, ObjectExists, NamesBoth
<1> QED
  BY <1>5, <1>6, Zenon

\* Discovery stays covered: a source that is done is not discovered again in the run, and
\* the hours of the run gain no records.
LEMMA NextCovered ==
  ASSUME Unlisted, Settled, Stages, Collecting, Covered, Step
  PROVE Covered' /\ Collecting'
<1>1. CASE /\ UNCHANGED <<next, range, planned, faults>> /\ marked \subseteq marked'
           /\ \A s : InRange(s)' = InRange(s)
           /\ pc' # "idle" => pc # "idle"
           /\ pc' \in {"loop", "open", "stream", "mark"} => pc \in {"loop", "open", "stream", "mark"}
  BY <1>1, Zenon DEF Covered, Collecting
<1>2. CASE pc' = "idle" /\ faults' \in {faults, faults + 1}
  BY <1>2 DEF Covered, Collecting
<1>3. CASE Start
  BY <1>3, SourcesFacts DEF Start, Covered, Collecting
<1>4. CASE Fault /\ (pc' \in {"loop", "open", "stream", "mark"} => next' > Len(Sources))
  BY <1>4 DEF Fault, Covered, Collecting
<1>5. CASE CollectSource
  <2>1. PICK s : s = Sources[next] /\ s \in Members(Sources) /\ next \in DOMAIN Sources
    BY <1>5, SourcesFacts, SMTT(20), ZenonT(30) DEF CollectSource, Stages, Members
  <2>2. CASE faults' # faults
    BY <1>2, <1>4, <1>5, <2>2, Zenon DEF CollectSource, NoFault, EndRun
  <2>3. CASE faults' = faults
    <3>1. /\ planned' = planned \cup Collected(s, discoverTenants(s)) /\ next' = next + 1
          /\ UNCHANGED <<pc, range, marked, stored>> /\ pc = "collect"
      BY <1>5, <2>1, <2>3, SMTT(20), ZenonT(30) DEF CollectSource, Fault, Covered, bucket, world
    <3>2. ASSUME faults = 0, NEW i \in DOMAIN Sources, i < next + 1, NEW r \in InRange(Sources[i]),
                 NamesBoth(r)
          PROVE \E w \in planned' \cup marked : Belongs(r, w)
      <4>1. CASE i = next
        BY <2>1, <3>1, <3>2, <4>1, CollectedCovers, Zenon
      <4>2. CASE i # next
        <5>1. i < next
          BY <3>2, <4>2, SourcesFacts DEF Stages
        <5> QED
          BY <3>1, <3>2, <5>1, Zenon DEF Covered
      <4> QED
        BY <4>1, <4>2, Zenon
    <3>3. \A s2 : InRange(s2)' = InRange(s2)
      BY <3>1, Zenon DEF InRange
    <3> QED
      BY <2>3, <3>1, <3>2, <3>3, ZenonT(60) DEF Covered, Collecting
  <2> QED
    BY <2>2, <2>3, Zenon
<1>6. CASE CollectEnds
  <2>1. /\ UNCHANGED <<next, range, planned, faults, marked, stored>>
        /\ pc = "collect" /\ pc' = "loop" /\ next > Len(Sources)
    BY <1>6, Zenon DEF CollectEnds, bucket, world
  <2>2. \A s : InRange(s)' = InRange(s)
    BY <2>1, Zenon DEF InRange
  <2> QED
    BY <2>1, <2>2, Zenon DEF Covered, Collecting
<1>7. CASE Ingest
  BY <1>1, <1>7, IngestFacts, Zenon DEF Ingest, run, bucket
<1>8. CASE CheckMarker \/ (cur # None /\ PutSuccess)
  <2>1. /\ UNCHANGED <<next, range, planned, stored>> /\ marked \subseteq marked'
        /\ pc \in {"loop", "mark"} /\ (faults' = faults \/ Fault)
        /\ pc' \in {"loop", "open"}
    BY <1>8, Zenon DEF CheckMarker, PutSuccess, EndWindow, NoFault, bucket, world
  <2>2. \A s : InRange(s)' = InRange(s)
    BY <2>1, Zenon DEF InRange
  <2>3. next > Len(Sources)
    BY <2>1, Zenon DEF Collecting
  <2> QED
    BY <1>1, <1>4, <2>1, <2>2, <2>3, Zenon
<1>9. CASE cur # None /\ Open(Response(cur))
  <2>1. CASE pc' = "idle"
    BY <1>2, <1>9, <2>1, Zenon DEF Open, NoFault, Fault
  <2>2. CASE pc' # "idle"
    <3>1. /\ UNCHANGED <<next, range, planned, stored, marked, faults>>
          /\ pc = "open" /\ pc' = "stream"
      BY <1>9, <2>2, Zenon DEF Open, EndRun, NoFault, bucket, world
    <3>2. \A s : InRange(s)' = InRange(s)
      BY <3>1, Zenon DEF InRange
    <3> QED
      BY <1>1, <3>1, <3>2, Zenon
  <2> QED
    BY <2>1, <2>2, Zenon
<1>10. CASE Finish
  BY <1>2, <1>10, Zenon DEF Finish, EndRun
<1>11. CASE Crash
  BY <1>2, <1>11, Zenon DEF Crash, EndRun, Fault
<1>12. CASE /\ UNCHANGED <<next, range, planned, stored, marked>> /\ (faults' = faults \/ Fault)
            /\ \/ pc' = pc
               \/ pc = "stream" /\ pc' \in {"loop", "mark"}
  <2>1. \A s : InRange(s)' = InRange(s)
    BY <1>12, Zenon DEF InRange
  <2> QED
    BY <1>1, <1>4, <1>12, <2>1, Zenon DEF Collecting
<1>13. CASE Tick
  BY <1>12, <1>13, Zenon DEF Tick, run, bucket
<1>14. CASE ScanBreaks \/ UploadFails
  BY <1>12, <1>14, Zenon DEF ScanBreaks, UploadFails, run, bucket, world
<1>15. CASE \E r \in body : Scanned(r)
  BY <1>12, <1>15, Zenon DEF Scanned, run, bucket, world
<1>16. CASE ScanEnds \/ WritePipe \/ WriterCloses \/ UploadAborts
  BY <1>12, <1>16, Zenon DEF ScanEnds, WritePipe, WriterCloses, UploadAborts, run, bucket, world
<1>17. CASE UploadEnds
  BY <1>12, <1>17, Zenon DEF UploadEnds, NoFault, run, world
<1>18. CASE Join
  BY <1>12, <1>18, Zenon DEF Join, EndWindow, bucket, world
<1> QED
  BY <1>3, <1>5, <1>6, <1>7, <1>8, <1>9, <1>10, <1>11, <1>13, <1>14, <1>15, <1>16, <1>17, <1>18, ZenonT(60)
     DEF Step, Pipeline

\* DiscoveryCovers: while nothing has failed, what discovery plans, with what is marked,
\* covers every record of the run's hours that names a tenant and a cluster (discoverTenants,
\* discoverClusters).
THEOREM DiscoveryCoversHolds ==
  ASSUME Unlisted
  PROVE Spec => []DiscoveryCovers
<1>1. Init => Covered /\ Collecting
  BY DEF Init, Covered, Collecting
<1>2. ASSUME IInv, Covered, Collecting, [Next]_vars PROVE Covered' /\ Collecting'
  <2>1. CASE Next
    BY <1>2, <2>1, BodyFacts, NextCovered, Zenon DEF IInv
  <2>2. CASE UNCHANGED vars
    <3>1. UNCHANGED <<pc, next, range, planned, faults, marked, stored>>
      BY <2>2, Zenon DEF vars, run, bucket, world
    <3>2. \A s : InRange(s)' = InRange(s)
      BY <3>1, Zenon DEF InRange
    <3> QED
      BY <1>2, <3>1, <3>2, Zenon DEF Covered, Collecting
  <2> QED
    BY <1>2, <2>1, <2>2, Zenon
<1>3. ASSUME IInv, Covered, Collecting PROVE DiscoveryCovers
  <2> SUFFICES ASSUME pc = "loop", faults = 0, NEW s \in Members(Sources), NEW r \in InRange(s),
                      NamesBoth(r)
               PROVE \E w \in planned \cup marked : Belongs(r, w)
    BY Zenon DEF DiscoveryCovers, NamesBoth
  <2>1. PICK i \in DOMAIN Sources : s = Sources[i]
    BY Zenon DEF Members
  <2>2. i < next
    BY <1>3, SourcesFacts DEF Collecting, IInv, Stages
  <2> QED
    BY <1>3, <2>1, <2>2, Zenon DEF Covered
<1> QED
  BY <1>1, <1>2, <1>3, Invariance, PTL DEF Spec
=============================================================================
