------------------------- MODULE MetricsCollection -------------------------
(***************************************************************************)
(* One request for the metrics of all clusters (server/handlers/           *)
(* metrics_handler.go with internal/metrics).  A walker goroutine looks up *)
(* kubeconfigs, first of the KCM regions and their children, then of all   *)
(* other clusters, and hands a client for each to the request; a collector *)
(* goroutine per client lists custom resources and starts a goroutine per  *)
(* pod; all of them send messages on one unbuffered channel, which the     *)
(* request drains only after the walk is over and which is closed when a   *)
(* wait group is down to zero.                                             *)
(*                                                                         *)
(* A metric's value is the cluster it was read from.  CPU and memory go    *)
(* together, and so do the reason and message of a pod that is not ready.  *)
(* The messages a pod's goroutine sends between two calls are received in  *)
(* one step: no other goroutine writes to the same place of the answer,    *)
(* except a second one for the same pod, which appends the same.           *)
(***************************************************************************)
EXTENDS Integers, Sequences, FiniteSets, Functions

CONSTANTS
  Clusters,      \* the ClusterDeployments, as the sequence the API lists
  RegionOf,      \* the cluster whose KCM region a cluster is in, None for the management cluster's
  Regions,       \* those labelled as a KCM region themselves, as the API lists them
  Resources,     \* the custom resources (collectors) of a cluster, as listed
  Replicas,      \* a custom resource's replicas: [expected, current], current None or Bad when
                 \* missing or not a number
  Pods,          \* the pods of a custom resource
  Ready,         \* a pod's Ready condition: None, TRUE or FALSE
  Limits,        \* a pod's container limits: None (no such container), TRUE (set) or FALSE
  Port,          \* whether a pod has a port for its own metrics
  Local,         \* the management cluster
  Placements,    \* ways of placing the clusters' kubeconfigs: in Local, in their region
  Namings,       \* ways of naming the clusters, which are unique per namespace only
  MaxFailures,   \* bound on failed calls
  None, Bad

ClusterSet == Range(Clusters)

\* A cluster is looked up as a region, as a child of its region, or as any other.
Tasks == ClusterSet \X {"child", "other"}
Jobs == (ClusterSet \X {"region"}) \cup Tasks \cup {<<Local, "local">>}
PodsOf(j, cr) == {<<j, cr, p>> : p \in Pods[cr]}
PodJobs == UNION {UNION {PodsOf(j, cr) : cr \in Range(Resources[j[1]])} : j \in Jobs}

\* What the API lists has no duplicates.
ASSUME ListAssumption ==
  /\ Clusters \in Seq(ClusterSet) /\ IsInjective(Clusters) /\ Local \notin ClusterSet
  /\ Regions \in Seq(ClusterSet) /\ IsInjective(Regions)
  /\ \A c \in ClusterSet \cup {Local} :
       Resources[c] \in Seq(Range(Resources[c])) /\ IsInjective(Resources[c])
  /\ \A c \in ClusterSet \cup {Local} : \A cr \in Range(Resources[c]) : IsFiniteSet(Pods[cr])

\* A pod has a name, and a kubeconfig is kept in finitely many places.
ASSUME PlaceAssumption ==
  /\ \A c \in ClusterSet \cup {Local} : \A cr \in Range(Resources[c]) : None \notin Pods[cr]
  /\ \A places \in Placements : \A c \in ClusterSet : IsFiniteSet(places[c])

VARIABLES
  secretAt,      \* per cluster, where its kubeconfig can be read: Local, its region
  name,          \* per cluster, its name
  main,          \* the request: "remote", "drain", "done"
  walker,        \* the walker: [pc, todo]
  processed,     \* names of the clusters whose client was handed over
  task,          \* per cluster and pass, the goroutine that reads its kubeconfig
  walkWg,        \* goroutines the channel of clients waits for
  job,           \* per client handed over, its collector: [pc, todo]
  pod,           \* per job, custom resource and pod, what its goroutine does next
  wg,            \* goroutines the channel of messages waits for
  closed,        \* the channel of messages is closed
  answer,        \* the answer: [metrics, status]
  failed         \* calls that failed

vars == <<secretAt, name, main, walker, processed, task, walkWg, job, pod, wg, closed,
          answer, failed>>
walk == <<walker, processed, task, walkWg>>
collect == <<job, pod, wg>>
world == <<secretAt, name>>

Idle == [pc |-> "none", todo |-> <<>>]

Init ==
  /\ secretAt \in Placements /\ name \in Namings
  /\ main = "remote"
  /\ walker = [pc |-> "fetch", todo |-> <<>>] /\ processed = {} /\ walkWg = 1
  /\ task = [j \in Tasks |-> "none"]
  /\ job = [j \in Jobs |-> IF j[1] = Local THEN [pc |-> "list", todo |-> <<>>] ELSE Idle]
  /\ pod = [q \in PodJobs |-> "none"]
  /\ wg = 1 /\ closed = FALSE
  /\ answer = [metrics |-> <<>>, status |-> <<>>]
  /\ failed = {}

\* A call returns, or fails by itself or because the request's deadline has passed.
Succeeds == UNCHANGED failed
FailsAt(call) == Cardinality(failed) < MaxFailures /\ failed' = failed \cup {call}

----------------------------------------------------------------------------
(* The walk over the clusters.                                             *)

\* GetKcmRegionChildClusters: the clusters in the region.
Children(r) == {c \in ClusterSet : RegionOf[c] = r}

\* fetchClusterData and GetKcmRegionClusters: without the lists there is no walk, without
\* the regions there is the second pass alone.
fetchClusterData ==
  /\ walker.pc = "fetch" /\ UNCHANGED <<processed, task>>
  /\ \/ /\ Succeeds /\ UNCHANGED walkWg
        /\ walker' = [pc |-> "region", todo |-> Regions]
     \/ /\ FailsAt(<<"lists">>) /\ walkWg' = walkWg - 1
        /\ walker' = [pc |-> "end", todo |-> <<>>]
     \/ /\ FailsAt(<<"regions">>) /\ UNCHANGED walkWg
        /\ walker' = [pc |-> "other", todo |-> Clusters]
  /\ UNCHANGED <<main, collect, closed, answer, world>>

\* The next region, or the second pass.
NextRegion ==
  walker' = IF Len(walker.todo) = 1 THEN [pc |-> "other", todo |-> Clusters]
            ELSE [pc |-> "region", todo |-> Tail(walker.todo)]

\* NewKubeClientFromSecret: through the management cluster or the client of a region.
ReadsClient(c, place) == place \in secretAt[c] /\ Succeeds
NoClient(c, pass, place) ==
  \/ place \notin secretAt[c] /\ UNCHANGED failed
  \/ FailsAt(<<"client", c, pass>>)

\* CollectRemoteMetricsAsync: the request takes a client and starts its collector.
CollectRemoteMetricsAsync(j) ==
  /\ main = "remote"
  /\ job' = [job EXCEPT ![j] = [pc |-> "list", todo |-> <<>>]] /\ wg' = wg + 1
  /\ UNCHANGED <<main, pod>>

\* handleRegionClusters: the region's own client, in the walker, then one goroutine per
\* child.  A region that cannot be read is left to the second pass, its children too.
handleRegionClusters ==
  /\ walker.pc = "region"
  /\ IF walker.todo = <<>>
     THEN /\ walker' = [pc |-> "other", todo |-> Clusters]
          /\ UNCHANGED <<processed, task, walkWg, main, collect, failed>>
     ELSE LET r == walker.todo[1]
          IN  \/ /\ ReadsClient(r, Local) /\ CollectRemoteMetricsAsync(<<r, "region">>)
                 /\ walker' = [walker EXCEPT !.pc = "store"] /\ UNCHANGED <<processed, task, walkWg>>
              \/ /\ NoClient(r, "region", Local) /\ NextRegion
                 /\ UNCHANGED <<processed, task, walkWg, main, collect>>
  /\ UNCHANGED <<closed, answer, world>>

\* Mistake: the children are marked together with their region.
StoreRegionAndChildren ==
  /\ walker.pc = "store"
  /\ LET r == walker.todo[1]
     IN  /\ processed' = processed \cup {name[c] : c \in {d \in ClusterSet : r \in {d, RegionOf[d]}}}
         /\ task' = [j \in DOMAIN task |->
              IF j[2] = "child" /\ j[1] \in Children(r) THEN "client" ELSE task[j]]
         /\ walkWg' = walkWg + Cardinality(Children(r))
  /\ NextRegion /\ UNCHANGED <<main, collect, closed, answer, failed, world>>

\* After its client the region's name is stored and the children's goroutines start.
StoreRegion ==
  /\ walker.pc = "store"
  /\ LET r == walker.todo[1]
     IN  /\ processed' = processed \cup {name[r]}
         /\ task' = [j \in DOMAIN task |->
              IF j[2] = "child" /\ j[1] \in Children(r) THEN "client" ELSE task[j]]
         /\ walkWg' = walkWg + Cardinality(Children(r))
  /\ NextRegion /\ UNCHANGED <<main, collect, closed, answer, failed, world>>

\* Mistake: clusters of the first pass are not skipped.
handleOtherClustersAll ==
  /\ walker.pc = "other" /\ UNCHANGED processed
  /\ IF walker.todo = <<>>
     THEN walker' = [walker EXCEPT !.pc = "end"] /\ walkWg' = walkWg - 1 /\ UNCHANGED task
     ELSE /\ walker' = [walker EXCEPT !.todo = Tail(@)]
          /\ task' = [task EXCEPT ![<<walker.todo[1], "other">>] = "client"]
          /\ walkWg' = walkWg + 1
  /\ UNCHANGED <<main, collect, closed, answer, failed, world>>

\* handleOtherClusters: a goroutine for every cluster whose name is not processed yet.
handleOtherClusters ==
  /\ walker.pc = "other" /\ UNCHANGED processed
  /\ IF walker.todo = <<>>
     THEN walker' = [walker EXCEPT !.pc = "end"] /\ walkWg' = walkWg - 1 /\ UNCHANGED task
     ELSE /\ walker' = [walker EXCEPT !.todo = Tail(@)]
          /\ IF name[walker.todo[1]] \in processed THEN UNCHANGED <<task, walkWg>>
             ELSE /\ task' = [task EXCEPT ![<<walker.todo[1], "other">>] = "client"]
                  /\ walkWg' = walkWg + 1
  /\ UNCHANGED <<main, collect, closed, answer, failed, world>>

\* A child's kubeconfig is read with the client of its region.
Place(j) == IF j[2] = "child" THEN RegionOf[j[1]] ELSE Local

\* Mistake: a kubeconfig that cannot be read returns without Done.
ClientFailsUndone(j) ==
  /\ task[j] = "client"
  /\ NoClient(j[1], j[2], Place(j))
  /\ task' = [task EXCEPT ![j] = "end"]
  /\ UNCHANGED <<walker, processed, walkWg, main, collect, closed, answer, world>>

\* createAndSendKubeClient, in a goroutine: the client is read, handed over, and only
\* then is the cluster's name stored.
ClientFails(j) ==
  /\ task[j] = "client"
  /\ NoClient(j[1], j[2], Place(j))
  /\ task' = [task EXCEPT ![j] = "end"] /\ walkWg' = walkWg - 1
  /\ UNCHANGED <<walker, processed, main, collect, closed, answer, world>>

createAndSendKubeClient(j) ==
  /\ task[j] = "client"
  /\ ReadsClient(j[1], Place(j))
  /\ CollectRemoteMetricsAsync(j)
  /\ task' = [task EXCEPT ![j] = "store"]
  /\ UNCHANGED <<walker, processed, walkWg, closed, answer, world>>

Store(j) ==
  /\ task[j] = "store" /\ processed' = processed \cup {name[j[1]]}
  /\ task' = [task EXCEPT ![j] = "end"] /\ walkWg' = walkWg - 1
  /\ UNCHANGED <<walker, main, collect, closed, answer, failed, world>>

collectRemoteClusterKubeClients ==
  \/ fetchClusterData \/ handleRegionClusters \/ StoreRegion \/ handleOtherClusters
  \/ \E j \in DOMAIN task : ClientFails(j) \/ createAndSendKubeClient(j) \/ Store(j)

\* The channel of clients is closed, and the request turns to the messages.
Drain ==
  /\ main = "remote" /\ walkWg = 0 /\ main' = "drain"
  /\ UNCHANGED <<walk, collect, closed, answer, failed, world>>

----------------------------------------------------------------------------
(* The collectors and the pods.                                            *)

Name(c) == IF c = Local THEN Local ELSE name[c]

\* AddMetric, AddStatus: values are appended, the last status stays.
Entry(at, m) == IF <<at, m>> \in DOMAIN answer.metrics THEN answer.metrics[<<at, m>>] ELSE <<>>
AddMetrics(at, ms, value) ==
  LET sent == {<<at, m>> : m \in ms}
  IN  [k \in sent \cup DOMAIN answer.metrics |->
         IF k \in sent THEN Append(Entry(at, k[2]), value) ELSE answer.metrics[k]]
AddStatus(at, message) ==
  [k \in {at} \cup DOMAIN answer.status |-> IF k = at THEN message ELSE answer.status[k]]

\* GetStatus: what is said of a custom resource, if anything.
GetStatus(cr) ==
  LET n == Replicas[cr]
  IN  CASE n.current \in {None, Bad} -> "error"
        [] n.current = 0 /\ n.expected = 0 -> "warning"
        [] OTHER -> IF n.current = n.expected THEN None ELSE "error"

\* CollectMetrics: the custom resources of the cluster, one after the other.
ListResources(j) ==
  /\ job[j].pc = "list"
  /\ \/ /\ Succeeds /\ Resources[j[1]] # <<>> /\ UNCHANGED wg
        /\ job' = [job EXCEPT ![j] = [pc |-> "pods", todo |-> Resources[j[1]]]]
     \/ /\ (Resources[j[1]] = <<>> /\ UNCHANGED failed) \/ FailsAt(<<"list", j>>)
        /\ job' = [job EXCEPT ![j].pc = "end"] /\ wg' = wg - 1
  /\ UNCHANGED <<walk, main, pod, closed, answer, world>>

\* The custom resource is dealt with: the next one, or the collector ends.
Advance(j, started) ==
  /\ job' = [job EXCEPT ![j] = [pc |-> IF Len(@.todo) = 1 THEN "end" ELSE "pods",
                               todo |-> Tail(@.todo)]]
  /\ wg' = wg + started - (IF Len(job[j].todo) = 1 THEN 1 ELSE 0)

\* Mistake: the pods' goroutines are not counted.
StartPodsUncounted(j) ==
  /\ pod' = [q \in DOMAIN pod |-> IF q[1] = j /\ q[2] = job[j].todo[1] THEN "health" ELSE pod[q]]
  /\ Advance(j, 0)

\* A goroutine per pod, counted before it starts.
StartPods(j) ==
  /\ pod' = [q \in DOMAIN pod |-> IF q[1] = j /\ q[2] = job[j].todo[1] THEN "health" ELSE pod[q]]
  /\ Advance(j, Cardinality(Pods[job[j].todo[1]]))

\* The pods of the next one, which are started after its status, if any, is sent; a
\* failure skips it.
GetPods(j) ==
  /\ job[j].pc = "pods"
  /\ LET cr == job[j].todo[1]
     IN  \/ /\ Succeeds /\ GetStatus(cr) = None /\ StartPods(j)
         \/ /\ Succeeds /\ GetStatus(cr) # None
            /\ job' = [job EXCEPT ![j].pc = "status"] /\ UNCHANGED <<pod, wg>>
         \/ FailsAt(<<"pods", j, cr>>) /\ Advance(j, 0) /\ UNCHANGED pod
  /\ UNCHANGED <<walk, main, closed, answer, world>>

\* The status is a message, taken when the request drains the channel.
SendStatus(j) ==
  /\ job[j].pc = "status" /\ main = "drain"
  /\ answer' = [answer EXCEPT !.status =
       AddStatus(<<Name(j[1]), job[j].todo[1], None>>, GetStatus(job[j].todo[1]))]
  /\ StartPods(j)
  /\ UNCHANGED <<walk, main, closed, failed, world>>

CollectMetrics(j) == ListResources(j) \/ GetPods(j) \/ SendStatus(j)

Address(q) == <<Name(q[1][1]), q[2], q[3]>>

\* sendMetric, error: the request receives the metrics, and an error if there is one.
Sends(q, ms, error) ==
  answer' = [metrics |-> AddMetrics(Address(q), ms, q[1][1]),
             status |-> IF error THEN AddStatus(Address(q), "error") ELSE answer.status]
Goto(q, next) == pod' = [pod EXCEPT ![q] = next]

\* CollectHealth, from the pod as it was listed.
CollectHealth(q) ==
  /\ pod[q] = "health" /\ Goto(q, "resources") /\ UNCHANGED <<failed, wg>>
  /\ Sends(q, {"healthy"} \cup (IF Ready[q[3]] = TRUE THEN {} ELSE {"reason"}), Ready[q[3]] = None)

\* CollectResources: the usage; then the container's limits, or what the node has left.
CollectResources(q) ==
  /\ pod[q] = "resources" /\ Goto(q, "internal") /\ UNCHANGED wg
  /\ \/ FailsAt(<<"usage", q>>) /\ Sends(q, {}, TRUE)
     \/ Limits[q[3]] = None /\ Succeeds /\ Sends(q, {"usage"}, TRUE)
     \/ Limits[q[3]] # None /\ Succeeds /\ Sends(q, {"usage", "limit"}, FALSE)
     \/ Limits[q[3]] = FALSE /\ FailsAt(<<"limits", q>>) /\ Sends(q, {"usage"}, TRUE)

\* Mistake: a pod that does not answer is only logged.
CollectInternalQuietly(q) ==
  /\ pod[q] = "internal" /\ Goto(q, "none") /\ wg' = wg - 1
  /\ \/ ~Port[q[3]] /\ UNCHANGED failed /\ Sends(q, {}, TRUE)
     \/ Port[q[3]] /\ Succeeds /\ Sends(q, {"internal"}, FALSE)
     \/ Port[q[3]] /\ FailsAt(<<"internal", q>>) /\ Sends(q, {}, FALSE)

\* CollectInternal: what the pod itself exposes (getPort, Proxy, ParsePrometheusMetrics).
\* The goroutine ends.
CollectInternal(q) ==
  /\ pod[q] = "internal" /\ Goto(q, "none") /\ wg' = wg - 1
  /\ \/ ~Port[q[3]] /\ UNCHANGED failed /\ Sends(q, {}, TRUE)
     \/ Port[q[3]] /\ Succeeds /\ Sends(q, {"internal"}, FALSE)
     \/ Port[q[3]] /\ FailsAt(<<"internal", q>>) /\ Sends(q, {}, TRUE)

\* CollectAll begins with a message, so it waits until the channel is drained.
CollectAll(q) ==
  /\ main = "drain"
  /\ CollectHealth(q) \/ CollectResources(q) \/ CollectInternal(q)
  /\ UNCHANGED <<walk, main, job, closed, world>>

----------------------------------------------------------------------------

\* GetMetrics: the channel is closed when nothing is counted any more, and the request
\* returns what it has.
Close ==
  /\ main = "drain" /\ wg = 0 /\ ~closed /\ closed' = TRUE
  /\ UNCHANGED <<walk, main, collect, answer, failed, world>>

Answer ==
  /\ main = "drain" /\ closed /\ main' = "done"
  /\ UNCHANGED <<walk, collect, closed, answer, failed, world>>

GetMetrics ==
  \/ collectRemoteClusterKubeClients \/ Drain \/ Close \/ Answer
  \/ \E j \in Jobs : CollectMetrics(j)
  \/ \E q \in PodJobs : CollectAll(q)

Spec == Init /\ [][GetMetrics]_vars

\* The goroutines run, and every call returns by the deadline.
FairSpec == Spec /\ WF_vars(GetMetrics)

----------------------------------------------------------------------------
(* Properties.                                                             *)

Walking == {j \in DOMAIN task : task[j] \in {"client", "store"}}
Collecting == {j \in Jobs : job[j].pc \notin {"none", "end"}}
Sending == {q \in PodJobs : pod[q] # "none"}

\* The channel of messages is closed, and the answer returned, only when nobody is left
\* to send on it or to start a sender: a send would panic or block for ever; nor does a
\* wait group fall below zero, which would panic too (wg.Add, wg.Done, wg.Wait, close).
NoSendAfterClose ==
  /\ walkWg >= 0 /\ wg >= 0
  /\ closed => Collecting = {} /\ Sending = {}
  /\ main # "remote" => Walking = {} /\ walker.pc = "end"

Unique(c) == \A d \in (ClusterSet \cup {Local}) \ {c} : Name(d) # name[c]

\* Where the walk can read a cluster's kubeconfig.
Found(c) ==
  \/ Local \in secretAt[c]
  \/ /\ RegionOf[c] \in Range(Regions) \cap secretAt[c]
     /\ Local \in secretAt[RegionOf[c]]

\* The answer has a value of the metric that was read from the pod's cluster.
Has(q, metric) ==
  /\ <<Address(q), metric>> \in DOMAIN answer.metrics
  /\ LET vs == answer.metrics[<<Address(q), metric>>]
     IN  \E i \in DOMAIN vs : vs[i] = q[1][1]

\* When no lookup failed, every cluster whose kubeconfig can be read where the code looks
\* is in the answer with all its pods, whether it is a region, in a region or neither,
\* and whatever other clusters cannot be read; of clusters of one name, one is
\* (handleRegionClusters, handleOtherClusters).
EveryClusterReported ==
  main = "done" /\ {f[1] : f \in failed} \subseteq {"usage", "limits", "internal"} =>
    \A c \in ClusterSet : Found(c) =>
      \E d \in ClusterSet :
        name[d] = name[c] /\ \A q \in PodJobs : q[1][1] = d => Has(q, "healthy")

\* The pod's goroutine has run.
Ran(q) ==
  /\ job[q[1]].pc = "end"
  /\ {<<"list", q[1]>>, <<"pods", q[1], q[2]>>} \cap failed = {}

\* What went wrong with the pod, in a call or in its specification.
Trouble(q) ==
  \/ {<<"usage", q>>, <<"limits", q>>, <<"internal", q>>} \cap failed # {}
  \/ Ready[q[3]] = None \/ ~Port[q[3]]
  \/ Limits[q[3]] = None /\ <<"usage", q>> \notin failed

\* For every pod that was started the answer has each group of metrics that could be
\* read, and an error exactly when one could not: what one call fails to get neither
\* hides what the others got nor is hidden by it (CollectAll, AddStatus).
PodsToldTruly ==
  main = "done" => \A q \in PodJobs : Ran(q) =>
    /\ Has(q, "healthy")
    /\ <<"usage", q>> \notin failed =>
         Has(q, "usage") /\ (Limits[q[3]] # None /\ <<"limits", q>> \notin failed => Has(q, "limit"))
    /\ Port[q[3]] /\ <<"internal", q>> \notin failed => Has(q, "internal")
    /\ Address(q) \in DOMAIN answer.status <=>
         \E r \in PodJobs : Ran(r) /\ Address(r) = Address(q) /\ Trouble(r)

\* A cluster whose name no other has is counted at most once for each place where its
\* kubeconfig can be read: once, unless it is both in its region and in the management
\* cluster (the clusters marked as processed).
CountedOnce ==
  \A q \in PodJobs : q[1][1] \in ClusterSet /\ Unique(q[1][1]) =>
    \A m \in {"healthy", "reason", "usage", "limit", "internal"} :
      <<Address(q), m>> \in DOMAIN answer.metrics =>
        Len(answer.metrics[<<Address(q), m>>]) <= Cardinality(secretAt[q[1][1]])

\* Every request is answered, whatever fails and whoever waits for whom (GetMetrics).
Answered == <>(main = "done")
=============================================================================
