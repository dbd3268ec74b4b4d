--------------------------- MODULE AuditExporter ---------------------------
(***************************************************************************)
(* The audit-log exporter (kof-operator/internal/audit), a program that a  *)
(* CronJob starts every hour.  It copies the audit events of every         *)
(* complete hour of every (stream, tenant) from VictoriaLogs into an S3    *)
(* bucket as three objects: the data, the signature of the manifest and,   *)
(* last, the manifest, whose presence means that the window is complete.   *)
(* Manifests are chained: each holds the digest of its predecessor's.      *)
(*                                                                         *)
(* The CronJob's concurrencyPolicy is Forbid, so there is one exporter     *)
(* process.  It may die between any two steps (eviction, the job's         *)
(* activeDeadlineSeconds, SIGTERM) and is started again by the pod's       *)
(* restartPolicy OnFailure or by the next schedule.  Every remote call may *)
(* fail, and a PUT may take effect although the caller sees an error.      *)
(***************************************************************************)
EXTENDS Integers, Sequences, Functions

CONSTANTS
  Streams,          \* cfg.Streams, in order
  PlatformStream,   \* StreamPlatformAuditLog
  PlatformTenant,   \* TenantPlatform
  Tenants,          \* cfg.Tenants; if AutoDiscover, the order VictoriaLogs lists
  AutoDiscover,     \* cfg.Tenants is empty
  ComplianceMode,   \* cfg.ComplianceMode
  ObjectLock,       \* the bucket has object lock enabled
  CatchUpHours,     \* cfg.CatchUpHours
  TicksPerHour,     \* resolution of the clock
  ExportDelay,      \* cfg.ExportDelay, in ticks
  Unreadable,       \* {<<tenant, hour>>}: holds an event compressEvents rejects
  None,             \* "no such object"
  FirstHour, MaxHour, MaxEvents, MaxFaults   \* bounds of the model

ASSUME ClockAssumption ==
  /\ CatchUpHours \in Nat /\ FirstHour \in Nat /\ MaxHour \in Nat
  /\ TicksPerHour \in Nat \ {0} /\ ExportDelay \in Nat
  /\ CatchUpHours + 1 <= FirstHour /\ FirstHour <= MaxHour

ASSUME BoundAssumption == MaxEvents \in Nat /\ MaxFaults \in Nat

ASSUME ModeAssumption ==
  AutoDiscover \in BOOLEAN /\ ComplianceMode \in BOOLEAN /\ ObjectLock \in BOOLEAN

Hours == 0..MaxHour

\* An ordered list is given as a sequence; its members:
Members(s) == {s[i] : i \in DOMAIN s}

AllTenants ==
  Members(Tenants) \cup
    {t \in {PlatformTenant} : PlatformStream \in Members(Streams)}

\* ExportWindow
Windows == [stream : Members(Streams), tenant : AllTenants, hour : Hours]

\* Manifest.  data stands for data_file.sha256, createdAt for created_at and,
\* because no two manifests of one window are created at the same time, for
\* the digest of the manifest's own bytes; prev is previous_manifest_sha256.
Manifests == [data : Nat, createdAt : Nat \ {0}, prev : Nat]

Digest(m) == m.createdAt

NoDigest == 0

ASSUME NoneAssumption ==
  /\ None \notin Nat /\ None \notin Manifests /\ None \notin Windows
  /\ None \notin [data : Nat, manifest : Manifests, signed : Manifests]

----------------------------------------------------------------------------
VARIABLES
  hour, tick,       \* the wall clock
  events,           \* VictoriaLogs: events stored per (tenant, hour)
  data, sig, manifest,  \* the three objects of every window in the bucket
  built,            \* manifests built for a window so far (source of createdAt)
  pc,               \* where the exporter is; "idle" when no run is active
  todo,             \* windows collected and not yet started in this run
  planned,          \* windows the last collection found due, exported or not
  cur,              \* the window being exported
  content,          \* dataStats of the upload of cur
  mf,               \* the manifest built for cur
  failed,           \* exportErr # nil
  result,           \* how the last run ended
  faults            \* failures injected so far

clock  == <<hour, tick>>
bucket == <<data, sig, manifest>>
local  == <<cur, content, mf>>
vars   == <<hour, tick, events, data, sig, manifest, built, pc, todo, planned,
            cur, content, mf, failed, result, faults>>

Steps == {"idle", "collect", "loop", "query", "precheck", "stream", "prev",
          "sign", "manifest"}

TypeOK ==
  /\ hour \in FirstHour..MaxHour /\ tick \in 0..(TicksPerHour - 1)
  /\ events \in [AllTenants \X Hours -> Nat]
  /\ data \in [Windows -> Nat \cup {None}]
  /\ sig \in [Windows -> Manifests \cup {None}]
  /\ manifest \in [Windows -> Manifests \cup {None}]
  /\ built \in [Windows -> Nat]
  /\ pc \in Steps
  /\ todo \subseteq Windows /\ planned \subseteq Windows
  /\ cur \in Windows \cup {None}
  /\ content \in Nat
  /\ mf \in Manifests \cup {None}
  /\ failed \in BOOLEAN
  /\ result \in {"none", "ok", "error"}
  /\ faults \in 0..MaxFaults

Init ==
  /\ hour = FirstHour /\ tick = 0
  /\ events = [th \in AllTenants \X Hours |-> 0]
  /\ data = [w \in Windows |-> None]
  /\ sig = [w \in Windows |-> None]
  /\ manifest = [w \in Windows |-> None]
  /\ built = [w \in Windows |-> 0]
  /\ pc = "idle" /\ todo = {} /\ planned = {}
  /\ cur = None /\ content = 0 /\ mf = None
  /\ failed = FALSE /\ result = "none" /\ faults = 0

----------------------------------------------------------------------------
(* Which windows are due.                                                  *)

\* Mistake: the delay is not waited for.
UpToWithoutDelay == hour

\* previousHourEnd: the end of the last hour that is over, or one hour less
\* while ExportDelay has not passed since.
UpTo == IF tick < ExportDelay THEN hour - 1 ELSE hour

\* catchUpStart = previousHourStart - (CatchUpHours - 1) hours
From == UpTo - CatchUpHours

\* DiscoverTenants: the tenants with an event in [From, UpTo).
DiscoverTenants ==
  {t \in Members(Tenants) \ {PlatformTenant} :
     \E h \in Hours : From <= h /\ h < UpTo /\ events[<<t, h>>] > 0}

TenantsForStream(s) ==
  IF s = PlatformStream THEN {PlatformTenant}
  ELSE IF AutoDiscover THEN DiscoverTenants ELSE Members(Tenants)

Due == {w \in Windows : /\ w.tenant \in TenantsForStream(w.stream)
                        /\ From <= w.hour /\ w.hour < UpTo}

\* The bucket holds this object of window w.
Stored(objects, w) == objects[w] # None

\* Mistake: a failing HEAD reads as "not found".
ObjectExistsNever(objects, w) == FALSE

\* ObjectExists on one of the three objects of a window.
ObjectExists(objects, w) == Stored(objects, w)

\* The order of the list collectWindows builds: streams as configured, within
\* a stream the tenants, within a tenant the hours.
Position(s, x) == CHOOSE i \in DOMAIN s : s[i] = x

Precedes(v, w) ==
  \/ Position(Streams, v.stream) < Position(Streams, w.stream)
  \/ /\ v.stream = w.stream /\ v.tenant # w.tenant
     /\ Position(Tenants, v.tenant) < Position(Tenants, w.tenant)
  \/ v.stream = w.stream /\ v.tenant = w.tenant /\ v.hour < w.hour

IsFirst(w) == w \in todo /\ \A v \in todo \ {w} : Precedes(w, v)

\* The window whose manifest w's manifest links to.
Before(w) == [w EXCEPT !.hour = @ - 1]

\* Mistake: the link is taken from the signature object.
PrevDigestOfSignature(w) ==
  IF Before(w) \in Windows /\ ObjectExists(sig, Before(w))
  THEN Digest(sig[Before(w)]) ELSE NoDigest

\* previousManifestSHA256
PrevDigest(w) ==
  IF Before(w) \in Windows /\ ObjectExists(manifest, Before(w))
  THEN Digest(manifest[Before(w)]) ELSE NoDigest

----------------------------------------------------------------------------
(* How a window and a run end.                                             *)

\* One more failure of a remote call, of the process or of the node.
Fault == faults < MaxFaults /\ faults' = faults + 1

NoFault == UNCHANGED faults

\* Run returns, or the process dies: local state is lost.
EndRun(res) ==
  /\ pc' = "idle" /\ result' = res /\ todo' = {}
  /\ cur' = None /\ content' = 0 /\ mf' = None /\ failed' = FALSE

\* exportWindow returns nil; the loop goes on.
DoneWindow ==
  /\ pc' = "loop" /\ cur' = None /\ content' = 0 /\ mf' = None
  /\ UNCHANGED <<todo, failed, result>>

\* Mistake: the error is logged and not recorded.
FailWindowUnrecorded ==
  /\ pc' = "loop" /\ cur' = None /\ content' = 0 /\ mf' = None
  /\ UNCHANGED <<todo, failed, result>>

\* exportWindow returns an error other than SourceUnavailableError: it is
\* recorded and the loop goes on.
FailWindow ==
  /\ pc' = "loop" /\ cur' = None /\ content' = 0 /\ mf' = None
  /\ failed' = TRUE
  /\ UNCHANGED <<todo, result>>

----------------------------------------------------------------------------
(* The run, step by step.                                                  *)

\* The CronJob, or the restart of a failed pod, starts Run.  PreflightBucket
\* stops it in compliance mode when object lock is missing or cannot be read;
\* otherwise a bucket without lock only draws a warning.
Start ==
  /\ pc = "idle"
  /\ planned' = {}
  /\ \/ /\ ComplianceMode => ObjectLock
        /\ pc' = "collect" /\ result' = "none"
        /\ NoFault
     \/ /\ ComplianceMode
        /\ IF ObjectLock THEN Fault ELSE NoFault
        /\ result' = "error"
        /\ UNCHANGED pc
  /\ UNCHANGED <<clock, events, bucket, built, todo, local, failed>>

\* collectWindows.  Any failing call aborts the run.  Nobody but this process
\* writes to the bucket, so its ObjectExists calls are one step.
Collect ==
  /\ pc = "collect"
  /\ \/ /\ planned' = Due
        /\ todo' = {w \in Due : ~ObjectExists(manifest, w)}
        /\ pc' = "loop"
        /\ NoFault
        /\ UNCHANGED <<local, failed, result>>
     \/ Fault /\ EndRun("error") /\ UNCHANGED planned
  /\ UNCHANGED <<clock, events, bucket, built>>

\* exportWindow, idempotency check.
CheckManifest(w) ==
  /\ pc = "loop" /\ IsFirst(w)
  /\ todo' = todo \ {w}
  /\ \/ /\ NoFault
        /\ IF ObjectExists(manifest, w)
           THEN UNCHANGED <<pc, cur>>
           ELSE pc' = "query" /\ cur' = w
        /\ UNCHANGED failed
     \/ /\ Fault
        /\ failed' = TRUE
        /\ UNCHANGED <<pc, cur>>
  /\ UNCHANGED <<clock, events, bucket, built, planned, content, mf, result>>

\* QueryEvents.  SourceUnavailableError halts the run.
QueryEvents ==
  /\ pc = "query"
  /\ \/ /\ NoFault
        /\ pc' = IF ComplianceMode THEN "precheck" ELSE "stream"
        /\ UNCHANGED <<todo, local, failed, result>>
     \/ Fault /\ EndRun("error")
  /\ UNCHANGED <<clock, events, bucket, built, planned>>

\* Mistake: an error of the check reads as "no data".
CompliancePreCheckIgnoringError ==
  /\ pc = "precheck"
  /\ \/ /\ NoFault
        /\ ObjectExists(data, cur)
        /\ FailWindow
     \/ /\ IF ObjectExists(data, cur) THEN Fault ELSE NoFault
        /\ pc' = "stream"
        /\ UNCHANGED <<todo, local, failed, result>>
  /\ UNCHANGED <<clock, events, bucket, built, planned>>

\* Mistake: a partial upload ends the run.
CompliancePreCheckEndsRun ==
  /\ pc = "precheck"
  /\ NoFault
  /\ IF ObjectExists(data, cur)
     THEN EndRun("error")
     ELSE pc' = "stream" /\ UNCHANGED <<todo, local, failed, result>>
  /\ UNCHANGED <<clock, events, bucket, built, planned>>

\* In compliance mode data without a manifest is left for the operator.
CompliancePreCheck ==
  /\ pc = "precheck"
  /\ \/ /\ NoFault
        /\ ~ObjectExists(data, cur)
        /\ pc' = "stream"
        /\ UNCHANGED <<todo, local, failed, result>>
     \/ /\ NoFault
        /\ ObjectExists(data, cur)
        /\ FailWindow
     \/ Fault /\ FailWindow
  /\ UNCHANGED <<clock, events, bucket, built, planned>>

\* streamDataToS3: what VictoriaLogs holds for the window now becomes the data
\* object.  A line compressEvents rejects aborts the upload.
StreamData ==
  /\ pc = "stream"
  /\ \/ /\ <<cur.tenant, cur.hour>> \notin Unreadable
        /\ NoFault
        /\ content' = events[<<cur.tenant, cur.hour>>]
        /\ data' = [data EXCEPT ![cur] = content']
        /\ pc' = "prev"
        /\ UNCHANGED <<todo, cur, mf, failed, result>>
     \/ /\ <<cur.tenant, cur.hour>> \in Unreadable
        /\ NoFault
        /\ FailWindow
        /\ UNCHANGED data
     \/ /\ Fault
        /\ FailWindow
        /\ \/ UNCHANGED data
           \/ /\ <<cur.tenant, cur.hour>> \notin Unreadable
              /\ data' = [data EXCEPT ![cur] = events[<<cur.tenant, cur.hour>>]]
  /\ UNCHANGED <<clock, events, sig, manifest, built, planned>>

\* Mistake: the manifest is built from the zero dataStats.
BuildManifestZeroStats ==
  /\ pc = "prev"
  /\ built' = [built EXCEPT ![cur] = @ + 1]
  /\ mf' = [data |-> 0, createdAt |-> built[cur] + 1, prev |-> PrevDigest(cur)]
  /\ pc' = "sign"
  /\ UNCHANGED <<clock, events, bucket, todo, planned, cur, content, failed,
                 result, faults>>

\* Mistake: created_at is left at its zero value.
BuildManifestUndated ==
  /\ pc = "prev"
  /\ built' = [built EXCEPT ![cur] = @ + 1]
  /\ mf' = [data |-> content, createdAt |-> 0, prev |-> PrevDigest(cur)]
  /\ pc' = "sign"
  /\ UNCHANGED <<clock, events, bucket, todo, planned, cur, content, failed,
                 result, faults>>

\* previousManifestSHA256, whose failure leaves the link empty, and the
\* construction of the manifest.
BuildManifest ==
  /\ pc = "prev"
  /\ \E prev \in {PrevDigest(cur), NoDigest} :
       /\ IF prev = PrevDigest(cur) THEN NoFault ELSE Fault
       /\ built' = [built EXCEPT ![cur] = @ + 1]
       /\ mf' = [data |-> content, createdAt |-> built[cur] + 1, prev |-> prev]
  /\ pc' = "sign"
  /\ UNCHANGED <<clock, events, bucket, todo, planned, cur, content, failed,
                 result>>

\* Mistake: the manifest is uploaded although the signature was not.
PutSignatureIgnoringError ==
  /\ pc = "sign"
  /\ \/ NoFault /\ sig' = [sig EXCEPT ![cur] = mf]
     \/ Fault /\ UNCHANGED sig
  /\ pc' = "manifest"
  /\ UNCHANGED <<clock, events, data, manifest, built, todo, planned, local,
                 failed, result>>

\* Sign and upload manifest.json.sig.  A signature is represented by the
\* manifest it signs.
PutSignature ==
  /\ pc = "sign"
  /\ \/ /\ NoFault
        /\ sig' = [sig EXCEPT ![cur] = mf]
        /\ pc' = "manifest"
        /\ UNCHANGED <<todo, local, failed, result>>
     \/ /\ Fault
        /\ FailWindow
        /\ sig' \in {sig, [sig EXCEPT ![cur] = mf]}
  /\ UNCHANGED <<clock, events, data, manifest, built, planned>>

\* Upload manifest.json, the completion signal.
PutManifest ==
  /\ pc = "manifest"
  /\ \/ /\ NoFault
        /\ manifest' = [manifest EXCEPT ![cur] = mf]
        /\ DoneWindow
     \/ /\ Fault
        /\ FailWindow
        /\ manifest' \in {manifest, [manifest EXCEPT ![cur] = mf]}
  /\ UNCHANGED <<clock, events, data, sig, built, planned>>

\* The loop is through: Run returns exportErr.
Finish ==
  /\ pc = "loop" /\ todo = {}
  /\ EndRun(IF failed THEN "error" ELSE "ok")
  /\ UNCHANGED <<clock, events, bucket, built, planned, faults>>

\* The process dies, or its context is cancelled.
Crash ==
  /\ pc # "idle"
  /\ Fault
  /\ EndRun("error")
  /\ UNCHANGED <<clock, events, bucket, built, planned>>

----------------------------------------------------------------------------
(* The environment.                                                        *)

Tick ==
  /\ IF tick + 1 < TicksPerHour
     THEN tick' = tick + 1 /\ UNCHANGED hour
     ELSE hour < MaxHour /\ hour' = hour + 1 /\ tick' = 0
  /\ UNCHANGED <<events, bucket, built, pc, todo, planned, local, failed,
                 result, faults>>

\* An event reaches VictoriaLogs, for this hour or, late, for an earlier one.
Log(t, h) ==
  /\ h <= hour /\ SumFunction(events) < MaxEvents
  /\ events' = [events EXCEPT ![<<t, h>>] = @ + 1]
  /\ UNCHANGED <<clock, bucket, built, pc, todo, planned, local, failed,
                 result, faults>>

ExporterStep ==
  \/ Start \/ Collect
  \/ \E w \in Windows : CheckManifest(w)
  \/ QueryEvents \/ CompliancePreCheck \/ StreamData \/ BuildManifest
  \/ PutSignature \/ PutManifest \/ Finish

Next ==
  \/ ExporterStep
  \/ Crash
  \/ Tick
  \/ \E t \in AllTenants, h \in Hours : Log(t, h)

Spec == Init /\ [][Next]_vars

\* The scheduler keeps starting the job and a running job keeps taking steps;
\* failures are as rare as MaxFaults says.
FairSpec == Spec /\ WF_vars(ExporterStep)

----------------------------------------------------------------------------
(* Properties.                                                             *)

\* A window with a manifest is complete: its data object is the one the
\* manifest describes and its signature is over exactly that manifest, however
\* often the export was interrupted and repeated with other data.
CompleteWindow ==
  \A w \in Windows : Stored(manifest, w) =>
    data[w] = manifest[w].data /\ sig[w] = manifest[w]

\* The link of manifest m, built for window w, is empty or verifies.
LinkVerifies(w, m) ==
  m.prev # NoDigest =>
    /\ Before(w) \in Windows
    /\ Stored(manifest, Before(w))
    /\ m.prev = Digest(manifest[Before(w)])

\* A link of the chain, where there is one, leads to the manifest that is in
\* the bucket for the preceding hour, and so verifies.
LinksVerify ==
  \A w \in Windows : Stored(manifest, w) => LinkVerifies(w, manifest[w])

\* What the export in progress may rely on at each step: its window has no
\* manifest yet, the data object is the one it uploaded, the manifest it built
\* describes that data and links correctly, and before the manifest is uploaded
\* the signature in the bucket is over it.
InFlight ==
  /\ pc \in {"query", "precheck", "stream", "prev", "sign", "manifest"} =>
       cur \in Windows /\ ~Stored(manifest, cur)
  /\ pc \in {"prev", "sign", "manifest"} => data[cur] = content
  /\ pc \in {"sign", "manifest"} =>
       mf \in Manifests /\ mf.data = content /\ LinkVerifies(cur, mf)
  /\ pc = "manifest" => sig[cur] = mf

\* The step leaves the objects of complete windows alone.
Stays ==
  \A w \in Windows : Stored(manifest, w) =>
    data'[w] = data[w] /\ sig'[w] = sig[w] /\ manifest'[w] = manifest[w]

\* Once a window is complete, no later run touches any of its objects.
CompletedStays == [][Stays]_vars

\* The step replaces an object by another one.
Overwrites ==
  \E w \in Windows :
    \/ Stored(data, w) /\ data'[w] # data[w]
    \/ Stored(sig, w) /\ sig'[w] # sig[w]
    \/ Stored(manifest, w) /\ manifest'[w] # manifest[w]

\* In compliance mode no object, of a complete or of an interrupted window, is
\* ever written twice.
WriteOnce == [][ComplianceMode => ~Overwrites]_vars

\* A run that reports success leaves no window of its catch-up range without a
\* manifest.
SuccessIsComplete ==
  result = "ok" => \A w \in planned : Stored(manifest, w)

\* While a run has recorded no error, every window of its catch-up range is
\* exported, being exported or still to do.
Progressing ==
  /\ result = "ok" => pc = "idle"
  /\ pc \in {"idle", "collect", "loop"} => cur = None
  /\ pc \notin {"idle", "collect"} /\ ~failed =>
       \A w \in planned : Stored(manifest, w) \/ w \in todo \/ w = cur

\* In compliance mode the window being exported has no object that the next
\* step would overwrite, and nowhere is there a signature without data.
Untouched ==
  /\ \A w \in Windows : Stored(sig, w) => Stored(data, w)
  /\ ComplianceMode /\ pc = "stream" => ~Stored(data, cur)
  /\ ComplianceMode /\ pc \in {"stream", "prev", "sign"} => ~Stored(sig, cur)

\* ExportDelay has passed since the end of the window.
Ripe(w) == (hour - (w.hour + 1)) * TicksPerHour + tick >= ExportDelay

\* No window is exported until ExportDelay after its end.
NotBeforeDelay == \A w \in Windows : Stored(data, w) => Ripe(w)

\* With an event that compressEvents rejects, or in compliance mode with data
\* an interrupted run left behind, a window waits for the operator.
NeedsOperator(w) ==
  \/ <<w.tenant, w.hour>> \in Unreadable
  \/ ComplianceMode /\ Stored(data, w)

\* Every due window is exported, unless it ages out of the catch-up range or
\* needs the operator; in particular such a window holds up no other.
DueIsExported ==
  \A w \in Windows :
    (w \in Due) ~> (Stored(manifest, w) \/ w \notin Due \/ NeedsOperator(w))

\* The empty link means "first export": no window of the same stream and tenant
\* and an earlier hour is in the archive.
EmptyLinkIsFirst ==
  \A w, v \in Windows :
    /\ Stored(manifest, w) /\ manifest[w].prev = NoDigest
    /\ v.stream = w.stream /\ v.tenant = w.tenant /\ v.hour < w.hour
    => ~Stored(manifest, v)

\* The abstract archive: a window's entry is its objects once the manifest is
\* there.
Archive ==
  [w \in Windows |-> IF Stored(manifest, w)
                     THEN [data |-> data[w], manifest |-> manifest[w],
                           signed |-> sig[w]]
                     ELSE None]

WA == INSTANCE WindowArchive WITH archive <- Archive

\* The exporter implements the abstract archive: seen through manifest.json,
\* windows appear whole, in one step, correctly linked, and stay.
ImplementsArchive == WA!Spec
=============================================================================
