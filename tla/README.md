# Verification of KOF

KOF (k0rdent Observability and FinOps) collects metrics, logs and traces of a fleet of
Kubernetes clusters. This directory holds TLA+ models of its stateful programs, the TLC
configurations that check them on small instances, and TLAPS proofs that the safety properties hold
of every instance. Paths below are relative to `src/`; `internal/` is `kof-operator/internal/`.

Contents: [the system](#the-system) · [AuditExporter](#auditexporter) ·
[ClusterPlacement](#clusterplacement) · [RegionalSinks](#regionalsinks-vmusermanager-promxyconfig) ·
[StorageConnections](#storageconnections) · [AlertRules](#alertrules) ·
[ColdStorageExporter](#coldstorageexporter-parquetrows) · [FileWatcher](#filewatcher) ·
[MetricsCollection](#metricscollection) · [findings](#where-the-code-and-its-documentation-disagree) ·
[what is proved](#what-is-proved) · [what is only model-checked](#what-is-only-model-checked) ·
[what is not modelled](#what-is-not-modelled) · [running](#running)

| module | is |
|---|---|
| `WindowArchive` | abstract specification: an archive of write-once, complete, linked windows |
| `AuditExporter` | the audit-log exporter, step by step, with failures and late events |
| `ClusterPlacement` | the two controllers that attach child clusters to regional clusters |
| `VMUserManager` | credentials of one user: secret, copy, VMUser, propagation |
| `PromxyConfig` | the PromxyServerGroup controller, the Secret it writes and the pods that load it |
| `RegionalSinks` | the regional ConfigMap controller, composed with the two above |
| `StorageConnections` | the VMStorageConnection controller |
| `AlertRules` | the merge of alert and record rules and the controller that writes the result |
| `ParquetRows` | pure functions: what a line of metrics, logs or traces becomes in a row |
| `ColdStorageExporter` | the cold-storage exporter, with its two goroutines per window |
| `FileWatcher` | the file watcher and its baseline over restarts |
| `MetricsCollection` | the goroutines of one request for the metrics of all clusters |
| `*Proofs` | theorems about eight of these, with machine-checked proofs |
| `MC*` | instances of these for TLC |

In every module a definition named after a source function models it. A definition under a
comment "Mistake:" is the same step with a plausible bug; it is used only to confirm that the
property checking it would notice.

## The system

A *management* cluster runs `kof-operator`. *Regional* clusters store telemetry, *child*
clusters produce it. The parts that keep state, and how they interact:

```
 users ── ClusterDeployments ──> ClusterDeployment controller ──> regional ConfigMap
                                    │        │                        │
                     child ConfigMap│        │VMUser + MCS            v
                                    v        v            regional ConfigMap controller
                              child cluster  regional       │         │           │
                                             cluster        v         v           v
                                                     child ConfigMaps  Promxy-   VMStorage-
                                                                     ServerGroup Connection
                                                                        │           │
                                                                 promxy config  VLCluster/VTCluster
 VictoriaLogs ──> audit-logs-exporter (hourly) ──> S3 bucket (signed, chained windows)
 VictoriaMetrics/Logs/Traces ──> cold-storage-exporter (hourly) ──> S3 bucket (Parquet)
 node files ──> file watcher ──> baseline Secret, drift metrics
```

### Audit-log exporter (`internal/audit`, `internal/s3`, `internal/vlogs`)

*State*: the bucket, with three objects per window (one hour of one stream and tenant):
data, signature, manifest. Nothing else survives a run.
*Operations*: `Run`, `PreflightBucket`, `collectWindows`, `exportWindow` with its uploads,
`previousManifestSHA256`, `streamDataToS3`.
*Hard*: the process may die between any two uploads; a PUT may succeed although an error is
reported; events arrive late, so that a retry reads other data than the interrupted attempt;
in compliance mode nothing may be overwritten, so a retry is impossible after a partial upload.
*Correct if*: a window with a manifest is consistent and never changes; links verify; compliance
mode never overwrites; success means completeness; every due window is exported in the end.

### Cluster placement (`internal/controller/clusterdeployment_*`, `configmap_cluster_*`, `regional_cluster_configmap_controller.go`, `internal/k8s/region.go`)

*State*: labels and annotations of the ClusterDeployments; one ConfigMap per regional cluster
and per child; the propagation and credentials of a child; the objects made from a regional
ConfigMap; two work queues and an informer cache.
*Operations*: the reconciliations of a ClusterDeployment (regional or child) and of a regional
ConfigMap, and the bootstrap of the regionless ConfigMap.
*Hard*: both controllers write child ConfigMaps, with different rules for which child belongs
where; reads come from a cache that lags; each reconciliation is several writes, any of which
may fail; users change labels and annotations meanwhile.
*Correct if*: a child is attached where its label or location says; its credentials go to the
cluster it writes to; changes of a regional cluster reach its children; everything converges.

### VMUser manager (`internal/controller/vmuser`)

*State*: secret, copy of the secret in the KOF namespace, VMUser, propagation
MultiClusterService (MCS). *Operations*: `Create`, `Delete`. *Hard*: four writes in order, with a generated
password that must not be replaced while it is in use; deletion stops at the first error.
*Correct if*: all copies agree once a reconciliation succeeds, a tenant's user is confined to the
tenant, nothing outlives its cluster.

### VMStorageConnection controller (`internal/controller/vmstorageconnection_controller.go`)

*State*: connections with finalizer and labels; the `storageNode` arguments of a VLCluster or
VTCluster, parallel lists rebuilt from all connections. *Hard*: positional arguments, concurrent
edits of connections, deletion through a finalizer, labels written only once.
*Correct if*: the arguments describe exactly the live connections, position by position.

### Promxy configuration (`promxyservergroup_controller.go`, `promxy_reload.go`)

*State*: one Secret per configuration, built from all PromxyServerGroups, and what each promxy
pod has loaded. *Hard*: one missing credential blocks all groups; the last group of a secret
disappears; some pods miss a reload. *Correct if*: in the end every pod runs the configuration
of the current groups.

### Alert and record rules (`alerts_configmap_controller.go`)

*State*: input ConfigMaps and PrometheusRules, output ConfigMaps for promxy and for each regional
cluster. *Hard*: precedence of the merge (defaults, cluster overrides), several outputs written
in turn. *Correct if*: outputs are the merge of the current inputs, and an override never leaks
to another cluster.

### Cold-storage exporter (`internal/coldstorage`)

*State*: Parquet objects and `_SUCCESS` markers per source, tenant, cluster and hour.
*Hard*: writer and uploader goroutines joined by a pipe; outages during discovery skip part of
the work; the marker comes last. *Correct if*: a marker implies a complete object, no goroutine
is left blocked, windows are retried until marked.

### File watcher (`internal/filewatcher`)

*State*: watched directories, debounce times, the baseline in a Secret, drift gauges.
*Hard*: events merged by debouncing, directories created at run time, changes while the watcher
is down, replicas sharing a Secret. *Correct if*: a change of a known file is reported, during a
run or after a restart.

### UI server (`internal/server`, `internal/metrics`, `internal/k8s`)

*State*: none between requests; within a request, collectors for all clusters write to one
channel. *Hard*: two passes over overlapping sets of clusters, wait groups extended by the
goroutines they count, a channel that nobody reads until the walk is over. *Correct if*: every
cluster is in the answer, no send on a closed channel, no collector left blocked.

The other parts (ACL proxy, other handlers of the UI server, web application, charts, scripts,
generated code) keep no state that a model would explore; `PROJECT.json` lists them with the reason.
It also lists the hazards at their source lines, with the properties that cover them.

## AuditExporter

State: the clock (`hour`, `tick`); `events`, what VictoriaLogs holds per tenant and hour;
`data`, `sig`, `manifest`, the objects of each window in the bucket; `built`, how many manifests
were made for a window; and the local state of the one exporter process (`pc`, `todo`, `planned`,
`cur`, `content`, `mf`, `failed`, `result`), which is lost when it ends. `faults` counts failures.

| action | code |
|---|---|
| `Start` | `Run` and `PreflightBucket`: refused in compliance mode without object lock |
| `Collect` | `collectWindows`, `tenantsForStream`, `DiscoverTenants`: due windows without a manifest, in the order stream, tenant, hour |
| `CheckManifest` | the second existence check at the top of `exportWindow` |
| `QueryEvents` | the query; a source outage ends the run |
| `CompliancePreCheck` | data without a manifest is refused in compliance mode |
| `StreamData` | `streamDataToS3`, `compressEvents` |
| `BuildManifest` | `previousManifestSHA256` (whose failure leaves the link empty) and the manifest |
| `PutSignature`, `PutManifest` | the last two uploads |
| `Finish` | `Run` returns the recorded error |
| `Crash`, `Tick`, `Log` | environment: death of the process, time, (late) events |

Abstractions. The content of a window is the number of its events, which only grows, so equal
numbers are equal contents. `createdAt` is the number of manifests built so far for a window; two
manifests of one window never have the same creation time, so it also stands for their digest.
A signature is represented by what it signs. An upload is one step because S3 makes an object
visible when its upload completes; an upload that fails may or may not have taken effect. The
existence checks of a collection are one step because no other process writes (the chart sets
`concurrencyPolicy: Forbid`).

Properties: `CompleteWindow`, `LinksVerify`, `CompletedStays`, `WriteOnce`, `SuccessIsComplete`,
`NotBeforeDelay`, `DueIsExported`, and `ImplementsArchive`: with the refinement mapping that shows
a window exactly when it has a manifest, the exporter implements `WindowArchive`.

| run | instance | checks |
|---|---|---|
| `audit_best_effort` | one stream, a discovered tenant, 2 catch-up hours, 2 ticks per hour, 2 events, 2 failures | all safety properties and the refinement |
| `audit_compliance` | one stream, compliance mode, object lock, an unreadable window, 2 failures | `WriteOnce`, `DueIsExported` |

Bounds. Two failures allow an upload that was stored but reported as failed, followed by a crash
of the retry; two events allow an event between the two attempts; two catch-up hours give a window
with a predecessor and let windows age out. The theorems below do not depend on the bounds.

Fairness is weak fairness of the exporter's steps: the CronJob starts a job every hour and the
pod restarts on failure (`restartPolicy: OnFailure`), and a running process takes its next step.
Failures are finite in number, as the bound says; the clock and the log need not be fair.

## ClusterPlacement

State: `life`, `named`, `label`, `spec` describe the ClusterDeployments (`spec[r]` is the version
of a regional cluster's annotations); `rcm[r]` is the version in its ConfigMap and `seen[r]` the one
in the operator's cache; `ccm[c]` is the data of a child's ConfigMap, `prop` the MultiClusterServices
propagating child ConfigMaps, `cred[c]` the cluster a child's VMUser is sent to, `sinks[r]` the
versions in the PromxyServerGroup and the three storage connections; `cdQueue`, `cmQueue` the work
queues, `cdWork`, `cmWork` the two workers (`MaxConcurrentReconciles` is not set, hence one each).

| action | code |
|---|---|
| `Reconcile` with `CleanupPropagation`, `AddClusterNameLabel`, `ReconcileRegional`, `ReconcileChild` | `ClusterDeploymentReconciler.Reconcile` and what it dispatches to |
| `CreateOrUpdateConfigMap`, `CreateConfigMapPropagation`, `CreateVMUserCredentials` | the three writes of a child's reconciliation, in order |
| `ReconcileConfigMap`, `UpdateChildConfigMap`, `CreateOrUpdateSink` | the regional ConfigMap controller: list the children, write to each, then the sinks in order |
| `ReconcileFails`, `ReconcileConfigMapFails` | an API call fails or is refused: the request is queued again |
| `CreateCluster`, `DeleteCluster`, `SetLabel`, `Annotate` | users (with owner-reference garbage collection) |
| `Watch`, `Resync`, `Restart` | informer cache, periodic resynchronisation, restart of the operator |

Matching is `DiscoverByLabel`, `DiscoverByLocation` and `GetRegionalConfigMap` on the child's side
and `GetChildClusters` on the regional side, with `LocationIsTheSame` for both.

Abstractions. Cloud, location, KCM region, name and namespace of a cluster are constants; a deleted
cluster is not created again. Reads of regional ConfigMaps come from the cache. A child's ConfigMap
is read as it is: if the cached copy were old, the write would be refused for its resource version,
which is `ReconcileFails`. A reconciliation that cannot succeed yet leaves its request in the
queue, as the rate-limited retry does. In regionless mode (`Management` not empty) there is no
propagation of credentials, so `cred` stays `None`. Child ConfigMaps without a namespace, written by
older versions, are left out, and so are the rule ConfigMaps and the admin VMUser that the regional
ConfigMap controller also writes (`RegionalSinks` has those). `lost` remembers the clusters whose
deletion was still in the work queue when the operator restarted: no event tells the new process of
them, and `PropagationTidied` excepts them.

| run | instance | checks |
|---|---|---|
| `placement` | one child (unlabelled, or labelled with the cluster of the other location), two regional clusters in two locations of one KCM region, all four sinks, 4 user operations, 1 failure or restart | `PlacedByRule`, `ChildProvisioned`, `PropagationTidied`, `RegionalSettles` |
| `placement_live` | the same, with relabelling and annotations that are changed back | `Converges` |
| `placement_regionless` | two children of unknown clouds, regionless, 2 failures | `EveryChildConfigured` |
| `placement_overlap` | both regional clusters in one location; a violation, see below | `ChildProvisioned` |

Bounds. `MaxEdits` user operations: creating the three clusters leaves one more (a deletion, an
annotation or a label) in the passing runs; with fewer clusters created there are more. One failure or
restart can fall between any two writes. One child suffices because the handlers treat children
independently of each other; two regional clusters are what a child can be torn between. The runs
that are expected to hold keep locations disjoint (`placement` also keeps labels fixed); the
violations below show what happens without.

Fairness. A work queue is first in, first out, and a failing request is retried after at most 15
seconds, so a request that can succeed again and again is served: strong fairness of `Reconcile(x)`
and `ReconcileConfigMap(r)`. A worker finishes what it began, watches deliver: weak fairness.
`Resync` is weakly fair because controller-runtime resynchronises its informers periodically (10
hours unless configured). `Converges` depends on it: the violations below show writes that
nothing else repairs.

## RegionalSinks, VMUserManager, PromxyConfig

What the operator builds from a regional ConfigMap. `VMUserManager` and `PromxyConfig` are
components without a next-state relation of their own: their operations take the caller's
arguments. `RegionalSinks` instantiates both (`U`, `P`), binds the copy of the credentials that the
one writes to the credentials that the other reads, and adds the controllers that call them, the
garbage collector and the kubelet.

| state | is |
|---|---|
| `cm[r]`, `uids`, `queue`, `work` | the ConfigMap with its uid; the work queue; the reconciliation in progress |
| `rules`, `rulesMcs`, `conn` | the ConfigMap of record rules, its propagation, the storage connections |
| `secret`, `copy`, `vmuser`, `mcs`, `job`, `minted` | the credentials of each user and the `Create` or `Delete` in progress |
| `group`, `config`, `mounted`, `loaded`, `running` | server groups, the Secret, the volume and the memory of each Promxy pod |
| `missed` | regionals that were gone before a restart, of which nobody is told |

| actions | code |
|---|---|
| `TakeRequest` … `CreateOrUpdateAuditLogsStorageConnection` | the steps of `RegionalClusterConfigMap.Reconcile`, in order |
| `CleanupVmRulesMcsPropagation` | `ResourceCleanup` |
| `CreateSecret`, `CopySecret`, `createOrUpdateVMUser`, `createOrUpdatePropagationMCS`, `Delete*` | the calls of `Manager.Create` and `Manager.Delete` |
| `Begin`, `Render`, `Write`, `Reload`, `End` | `PromxyServerGroupReconciler.Reconcile` and `ReloadPromxyConfig` |
| `StepFails`, `ManagerFails`, `PromxyFails`, `PodStops`, `Restart` | failed calls, pods that stop, a restart of the operator |
| `Collect`, `ReleaseConn`, `PodStep`, `Edit`, `EditChild` | garbage collection, kubelet, users |

Abstractions: a password is the number of its generation; a configuration is a function from groups
to endpoint and password; requests for different server groups do the same work, so they are one
flag. Children are here only as further users, with a tenant's configuration; their ConfigMaps are
`ClusterPlacement`'s.

Run `regional_sinks`: two names for regionals, one of which exists, one child, one pod, and two
events, each an edit, deletion, creation, failure, stopped pod or restart. `Provisioned`,
`PromxyConverged` and `NothingLeft` speak of the state at rest, when no request, call or garbage is
left; `Settles` says that this state is reached. `TenantConfined` holds of every VMUser at any time.
Two events suffice for a failure between a deletion and its cleanup, or a deletion and a creation
with the collector in any order between them.

What the properties except, because the code does not provide it:

- A ConfigMap that is created anew under its name while rules and connections of the old one exist
  adopts neither: `EnsureCreated` leaves the rules with their old owner, and a connection in deletion
  is updated and then goes. They are missing until the next reconciliation (`uids[r] = 1`).
- When the last server group goes, the Secret is in no list any more and keeps the deleted target
  (`Live # {}` in `PromxyConverged`).
- A deletion the operator was not told of leaves copy and MultiClusterServices (`missed`).
- An endpoint without a port and with an unknown scheme fails for ever, before the sinks (`Settles`).

Fairness: weak fairness of each controller, of the manager's calls, of the kubelet and of the
garbage collector. Every error is returned to controller-runtime, which retries.

## StorageConnections

`conn` are the connections with finalizer and label, `seen` the cached ones, `cluster` and `shown`
likewise the clusters, whose arguments are sequences; `rec` is the one reconciliation in progress.
`Reconcile`, `AddFinalizer`, `List`, `Apply`, `RemoveFinalizer` are the steps of the controller,
`buildStorageNodeConfig`, `setArg` and `secretKeyPath` its functions. The cache lists in any order.
An update of an object that has changed since it was read is refused.

Run `storage_connections`: two connections, a VTCluster and a VLCluster of one name, a node with
credentials and one without, four edits, failures or restarts. `SyncedAtRest` (all positional lists
agree with one order of the live connections), `NoDanglingNode` (at any time), `UnmanagedKept`,
`Settles` under weak fairness of worker and caches. Two connections are what a positional list can
confuse; four events create both and leave two to change them.

Two constants name what the run excludes. With `Movable = TRUE` a connection's `clusterRef` is edited
after its labels were written: it stays in the list of the old cluster. With `ClusterLag = TRUE` the
cached cluster may be older than the controller's own last write: a rebuilt list that equals the old
copy is not written. TLC finds `SyncedAtRest` violated in either case, and with
`ClusterLag` also `NoDanglingNode`. A cluster that is deleted and
created again is not watched and stays without nodes until a connection changes (`lives[k] = 1`).
The labels do not hold the namespace, so clusters of one name in two namespaces share all connections.

## AlertRules

The merge is a set of operators (`mergePrometheusAlerts`, `mergeAlertConfigMap`, `patchRule`,
`mergeRecordConfigMap`, `RecordValues`, `getAlertFiles`), the controller reads (`List`), merges
(`MergeNext`), then reads and writes the Promxy rules and writes the record rules of each regional.
`MergeNext` merges one of the inputs that may be next (`NextInputs`): PrometheusRules, then ConfigMaps,
of which the default ones come first (`getConfigMaps`), otherwise in any order.
`RulesLayered` compares the result with a definition that does not follow the code's loops: a cluster
has exactly the rules its ConfigMaps name, and every field, label and annotation of a rule is that of
the most specific of cluster, default and PrometheusRule that sets it, whatever the order of the lists
(`RightAlerts`, `IsLayered`, `RightRecords`). Where several inputs of one layer say different things of
one rule or group (`Agreed` fails), the code's result depends on the order of the list, and only which
alert rules there are is claimed. The property holds at rest, unless something changed of which no event tells
(`stale`: PrometheusRules and the Promxy rules are not watched). `ManualKept`: what a user takes over
stays, also between read and write. `Settles`: the controller, which is told of its own writes to the
record rules, comes to rest unless an input is malformed.

Run `alert_rules`: one PrometheusRule, a default and a cluster ConfigMap of each kind with two
contents each, any of them absent at first; two edits or failures. Contents patch each other, stand
alone, or have a group the others lack.

## ColdStorageExporter, ParquetRows

`ParquetRows` has no state: what a decoded line becomes (`ParseVMExportLine`, `parseVLogsLine`,
`parseVTracesLine` and the writers). `ColdStorageExporter` is the run: `Start`, `Collect` (discovery per
source and tenant, with outages that skip a source), the loop over windows, and for one window the
writer (`ScanLine`, `ScanEnds`, closing) and the uploader, joined by a pipe that blocks the writer until
it is read or closed; then the marker. Every call may fail, a PUT may be stored and reported as
failed, the process may die between any two steps, records arrive late.

Run `cold_storage`: the three sources, seven records (a series with a non-finite and an unreadable
value, one whose lists differ in length, two logs, a malformed line, a line too long, a span with
a contested attribute), batches of two, one failure or crash. `MarkedIsComplete` looks into the rows,
field by field; `SuccessMeansMarked`, `MarkedIsFinal`, `DiscoveryCovers`; `StreamEnds` (no goroutine
waits for ever) and `DueIsExported`. One failure falls between any two steps; batches of two leave a
partial batch at the end.

Fairness is weak fairness of the process, of the scheduler that starts it and of either goroutine.
`concurrencyPolicy: Forbid` makes the process one.

## FileWatcher

`Start` (registration), `Hash`, `Load`, `CompareAndSave`, `handleEvent` and their failures; the
file system changes at any moment, the kernel reports changes in registered directories in order,
`recent` holds the paths within the debounce time. `DriftFlagged`: once all events are handled, a file
that was hashed and compared at this start and differs from the baseline is flagged.
`BaselineKept`: a hash in the Secret is never replaced.

Run `file_watcher`: a file at the root and one in a directory, two contents, recursive, four changes,
failures or restarts. There is no liveness property: `handleEvent` is enabled whenever there is an
event, and the gauges say nothing about time.

## MetricsCollection

The walker (`CollectRemoteMetricsAsync`, `handleRegionClusters`, `handleOtherClusters`), one goroutine
per kubeconfig (`createAndSendKubeClient`), one collector per client (`CollectMetrics`), one goroutine
per pod (`CollectHealth`, `CollectResources`, `CollectInternal`), the two wait groups and the request
that drains the channel and answers. A send on an unbuffered channel is possible when the request
drains; `NoSendAfterClose` says that nobody is left to send when it is closed, `Answered` that
everyone gets to send. `EveryClusterReported`, `PodsToldTruly` and `CountedOnce` are about the answer.

Run `metrics_collection`: a region, a cluster in it and one outside, every way of placing the
kubeconfigs, two of the clusters of one name or not, one failed call. Pods are ready, not ready or of
unknown state, with or without limits and port. Fairness is weak fairness of every goroutine, which
the Go scheduler provides; calls return because their context has a deadline.

## Where the code and its documentation disagree

`placement_overlap` is a run that TLC must find violated: with two regional clusters in one location,
reconciling the second moves a child's ConfigMap to it, while the child's credentials stay with the
first. `PROJECT.json` has the quotations.

These configurations are kept as counterexamples of the same kind; each checks one property that TLC
finds violated:

| configuration | module | property | the code and the text |
|---|---|---|---|
| `MCAuditChain.cfg` | `MCAuditExporter` | `EmptyLinkIsFirst` | only the manifest exactly one hour earlier is looked up; when it is missing the link is empty, which the comment calls the first export (`internal/audit/manifest.go:319`) |
| `MCAuditDelay.cfg` | `MCAuditExporter` | `NotBeforeDelay` | the horizon is moved back by exactly one hour, too little for a longer delay (`internal/audit/exporter.go:90`) |
| `MCPlacementLabelled.cfg` | `MCClusterPlacement` | `ChildFollowsRegional` | a child labelled with a regional cluster of another location is attached to it, but is not among the children to which later changes are copied (`configmap_cluster_regional.go:323`) |
| `MCPlacementIsolation.cfg` | `MCClusterPlacement` | `RegionIsolation` | a regional cluster outside a KCM region takes over a child inside it, because `GetChildClusters` does not look at regions, nor at namespaces (`CROSS_NAMESPACE=false`) |
| `MCColdLines.cfg` | `MCColdStorage` | `DiscoveryCovers` | a reply of one line is decoded as an object without values, so the fallback to one value per line never sees it (`internal/vlogs/vlogs.go:97` "It handles both the JSON-array response format (newer VictoriaLogs) and the NDJSON fallback (older versions)") |
| `MCAlertGroup.cfg` | `MCAlertRules` | `Grouped` | a rule without labels gets no group label (`alerts_configmap_controller.go:436`), while the test says "`alertgroup: kubernetes-resources` label is added by the operator," (`alerts_configmap_controller_test.go:261`) |
| `MCFileDeletions.cfg` | `MCFileWatcher` | `DeletionsFlagged` | only files that exist are compared at start (`internal/filewatcher/watcher.go:230`), while the comment says "Only modifications and deletions of previously known paths are flagged" (line 205) |

Smaller observations made while modelling:

- Windows are exported by stream, tenant and hour, not "in chronological order"
  (`internal/audit/exporter.go:111`); within a stream and tenant, where links are made, they are.
- `UpdateChildConfigMap` does not look at the labels again after listing the children, so a label set
  in between and already obeyed is undone (`Relabel = TRUE`). The update of a regional ConfigMap is
  decided on the cached copy, so annotations changed and changed back while the cache lags leave the
  first change in place (`Revert = TRUE`). `placement_live` includes both races and shows that the
  resynchronisation repairs them. The placement effects last until the object is queued again, by a
  user's change, a restart or the resynchronisation.
- The chart of the file watcher passes `--baseline-name`; the program defines `--baseline-secret-name`.
- A child whose kubeconfig can be read both in its region and in the management cluster may be
  collected twice, and of two clusters of one name one may be skipped, depending on timing.
- A directory made again within the debounce time of its removal is not registered.
- `Save` writes the whole baseline that was loaded earlier, so of two file watchers that share a Secret
  and start together one may drop the paths the other has just added. One process is modelled.

## What is proved

Each theorem holds for every value of the constants that satisfies the named assumptions of its
module: any number of clusters, connections, records, files, failures and restarts. The instances of
the runs satisfy the same assumptions, which TLC evaluates, so a run and a theorem about one property
speak of the same formula. Every inductive invariant was checked by TLC before it was proved.

| module | theorem | says | conditions |
|---|---|---|---|
| `AuditExporterProofs` | `TypeCorrect` | `TypeOK` and `InFlight` always hold | |
| | `CompletedStaysHolds` | no step touches a complete window | |
| | `CompleteWindowHolds` | data, signature and manifest of a complete window agree | |
| | `LinksVerifyHolds` | non-empty links verify | |
| | `WriteOnceHolds` | compliance mode overwrites nothing | |
| | `SuccessIsCompleteHolds` | success means every planned window has a manifest | |
| | `NotBeforeDelayHolds` | nothing is exported early | `ExportDelay <= TicksPerHour` |
| | `Refinement` | the exporter implements `WindowArchive` | |
| `ColdStorageExporterProofs` | `MarkedIsCompleteHolds` | a marked window has every readable record, whole, and no other | |
| | `MarkedIsFinalHolds` | a marked window is never written again | |
| | `SuccessMeansMarkedHolds` | success means every planned window is marked | |
| | `DiscoveryCoversHolds` | without failures discovery misses no record that names tenant and cluster | `Unlisted` |
| `FileWatcherProofs` | `DriftFlaggedHolds` | drift is flagged once the events are handled | |
| | `BaselineKeptHolds` | the stored baseline only grows | |
| `StorageConnectionsProofs` | `UnmanagedKeptHolds` | what others wrote into a cluster stays | |
| | `NoDanglingNodeHolds` | no more nodes than connections that hold a finalizer | `~Movable`, `~ClusterLag` |
| | `SyncedAtRestHolds` | at rest the positional lists are those of the live connections | the same, and every node has an address |
| `ClusterPlacementProofs` | `PropagationTidiedHolds` | a propagation does not outlive its child | |
| | `PlacedByRuleHolds` | a child's data is that of a cluster its label or location names | `~Relabel` |
| | `ChildProvisionedHolds` | credentials are where the child writes | `Separate`, `~Relabel` |
| | `RegionalSettlesHolds` | at rest the sinks carry the current annotations | `~Revert` |
| `RegionalSinksProofs` | `TenantConfinedHolds` | a tenant's user is confined to the tenant | |
| | `NothingLeftHolds` | at rest nothing is left of a regional that is gone | |
| | `ProvisionedHolds` | at rest a regional has everything made from its ConfigMap | |
| | `PromxyConvergedHolds` | at rest every pod reads from the regionals there are | |
| `MetricsCollectionProofs` | `NoSendAfterCloseHolds` | nobody is left to send on a closed channel, no wait group below zero | |
| | `PodsToldTrulyHolds` | the answer has what each pod's calls got, and an error exactly where one failed | |
| | `CountedOnceHolds` | a cluster is counted at most once per place of its kubeconfig | |
| | `EveryClusterReportedHolds` | every cluster the walk can read is in the answer, with all its pods | |
| `AlertRulesProofs` | `ManualKeptHolds` | what a user has taken over stays | |
| | `RulesLayeredHolds` | at rest the outputs are what the layers say, field by field | |

The conditions are those under which TLC finds the property true; without them it finds it violated,
as the sections above say. `Separate` is the deployment of the passing `placement` run: no regionless
mode, no two regional clusters of different names in one location, children with names of their own;
`placement_overlap` is its opposite. `Unlisted` says that tenants and clusters are discovered, not
configured, and that the sources answer with a JSON array; `MCColdLines.cfg` is its opposite.

### Assumptions

Of constants: `None` is no value of the sets it is added to (`NoneAssumption`, `ClusterAssumption`),
bounds are naturals (`BoundAssumption`, `ClockAssumption`), there are finitely many connections
(`FiniteAssumption`; the API lists them), a pod has a name and a kubeconfig is kept in finitely many
places (`PlaceAssumption`), what the API lists has no duplicates (`ListAssumption`), a
regional is not a child and an object of rules has one kind (`KindAssumption`, in two modules), a rule
has five fields, of which labels and annotations are maps or absent, and record rules are a list
(`RuleAssumption`), a record has an hour, a form and names of known tenants and
clusters (`RecordAssumption`), and the configuration passed `LoadConfig` (`ConfigAssumption`).

### The arguments

None of the properties is inductive as it stands, because it speaks of the objects and not of the
process that is about to write them.

*AuditExporter.* A step that uploads a manifest keeps `CompleteWindow` only if the data in the bucket
is what the manifest describes. `InFlight` says what holds at each program point: the window has no
manifest, the data object is the one just uploaded, the manifest built describes it and its link
verifies, the signature is over it. With it `BucketStep` shows that a step writes at most one object,
of a window without a manifest; so complete windows never change, hence links made to them keep
verifying, and publishing a manifest is the abstract `Publish`. Two more invariants are needed:
`Progressing` (a planned window is exported, in flight, still to do, or an error is recorded) and
`Untouched` (in compliance mode the next upload goes to an empty place).

*ColdStorageExporter.* `Flow` follows the rows: those of the lines scanned so far are in the batch, in
the pipe or sent, and nothing else is; an uploader that ended well has stored what was sent, after a
writer that ended well. `Settled` says that the hours a run looks at receive no more records, which is
why a marked window stays complete when late records arrive. `Covered` follows discovery source by
source.

*FileWatcher.* `Covered`: a hashed file is as it was hashed and its directory is watched, or an event
about it is still to be handled, or its gauge is set. `Gauges` adds that a path is debounced only after
its gauge was set, so an event that debouncing swallows is not needed.

*StorageConnections.* `Marks` relates finalizers, labels and the cached copies; `Read`, what was read
of the cluster to what is there; `Counted`, the nodes to the finalizers, also of the lists about to be
written; `Tracked` says that a cluster is in step with the cached connections or some connection is
still to be handled on its account, and `Handled` the same for each connection.

*ClusterPlacement.* `Placed` extends the rule to what the two workers are about to write;
`Sent` says that a child without a request or a worker has everything; `Versions` and `SinksInv` follow
the version of the annotations through ConfigMap, cache and sinks.

*RegionalSinks.* Ten invariants in three layers. `Housekeeping`: types; every object is owned by a uid
its regional has had (`Owned`), which is what makes "no garbage left" mean "made for the ConfigMap there
is now"; the manager works for the reconciliation that waits for it (`Busy`); what has changed since a
reconciliation began is queued (`Current`); what is left of a regional that is gone is in the hands of a
request, a call or the garbage collector (`Clean`). `Building` adds what each step of a reconciliation
may rely on: `Credentials` (secret, copy and VMUser agree step by step through `Manager.Create`) and
`Made` (a step that is done has left its object). On top, `GroupAfterCredentials` (a group appears only
after the copy its rendering reads), `Rendered` (the Secret is that of the current groups, or a
rendering is pending) and `Loaded` (a pod has loaded what it mounts, mounts what the Secret says, or is
about to).

*MetricsCollection.* The wait groups equal the number of goroutines (`Counted`); to show that a start
adds exactly one, `Walk`, `Handed` and `Collectors` say that what is still to be visited has no
goroutine yet, which needs that lists have no duplicates. The three theorems about the answer build on
this in two layers. `Told`: the answer has exactly the metrics and errors of the pods' steps so far
(`MetricsTold`, `ErrorsTold`), which needs that a call that fails does so when it is made and not before
(`Calls`, `Fresh`); when the channel is closed every goroutine has ended, so the steps so far are all.
`Served`: a client is handed over only where a kubeconfig can be read (`HandedFrom`); while no lookup
fails, a name is marked as processed only for a cluster that has a collector and what is neither marked
nor collected is still to be visited (`Reached`); a metric of a cluster has no more values than the
cluster has collectors that sent it (`Brief`), which is a count of a finite set.

*AlertRules.* For `ManualKept`, a write needs that the object is still the one that was read as
generated. For `RulesLayered`, the merge is a sequence of steps, so what it computes needs no induction
over lists: `MergedSoFar` says that the accumulated rules are right for the inputs merged so far.
`InOrder` (no ConfigMap before the last PrometheusRule, no cluster's before the last default one) makes
it inductive: a step then adds to the most specific layer that has been reached, and `PatchCluster` and
`PatchDefault` show that patching a rule made of layers gives a rule made of one layer more.
`Following` carries the result to the outputs: while no event is pending the reconciliation works on
what is there, and while nothing unwatched has changed Promxy's rules are those it has written.

### What the proofs changed in the models

- `PropagationTidied` excused a propagation as soon as any cluster of the child's name was there. It now
  asks for a child of that name in a KCM region, which is there or whose deletion is waiting or lost.
- `PlacedByRule` compared the locations of an unlabelled child and its regional cluster for every cloud;
  `LocationIsTheSame` does not where a cloud has no locations.
- `MarkedIsComplete` did not say what happens to a span attribute of a name that the scope's fields
  also have: those win (`Contested`).
- `MetricsCollection` had one collector for a cluster that is a KCM region and is itself in another;
  the code hands over a client for each, so they are two.
- `RulesLayered` picked one input of each layer and was silent about several; it now holds for any number
  of inputs (`Agreed`). The list of inputs became the set of those left, from which any that may be next
  is taken.
- `EveryClusterReported` promised a cluster whose region's own kubeconfig cannot be read; `Found` now
  asks for it. `CountedOnce` did not count the management cluster among those that share a name.

## What is only model-checked

Liveness under fairness is beyond the prover: `DueIsExported` (both exporters), `Converges`,
`EveryChildConfigured`, `StreamEnds`, `Answered` and the three `Settles`.

Every safety property of a passing run has a theorem, some under the conditions the table names. Not
proved is what a contested layer of rules gives (`Agreed`): it depends on the order of a list.

## What is not modelled

The components with status `not_modelled` in `PROJECT.json`: the ACL proxy and the other handlers of
the UI server (each request is rewritten or answered by itself, and nothing is kept), the web
application, the charts, the entry points, the API types, the scripts. Of the modelled ones: the bytes
of objects (compression, JSON, Parquet, cryptography), endpoint URLs and their defaults, Istio variants
of the endpoints, events and logs, changes of a cluster's cloud or location, several replicas of the
file watcher, and two exporter processes at once, which the charts exclude.

## Running

```
tlc -config MCAuditExporter.cfg MCAuditExporter          # and MCAudit*.cfg
tlc -config MCPlacement.cfg MCClusterPlacement           # and MCPlacement*.cfg
tlc -config MCRegionalSinks.cfg MCRegionalSinks
tlc -config MCStorage.cfg MCStorageConnections
tlc -config MCAlertRules.cfg MCAlertRules                # and MCAlertGroup.cfg
tlc -config MCColdStorage.cfg MCColdStorage              # and MCColdLines.cfg
tlc -config MCFileWatcher.cfg MCFileWatcher              # and MCFileDeletions.cfg
tlc -config MCMetrics.cfg MCMetricsCollection
tlapm AuditExporterProofs.tla                            # and each other *Proofs.tla
```

The longest run, `regional_sinks`, takes about two and a quarter minutes on two cores.
