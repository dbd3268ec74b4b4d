---------------------------- MODULE RegionalSinks ----------------------------
(***************************************************************************)
(* What the operator builds for a regional cluster from its ConfigMap      *)
(* (configmap_cluster_regional.go, regional_cluster_configmap_controller.  *)
(* go): the ConfigMap of its record rules, the credentials of its admin    *)
(* user, its group of Promxy servers and its storage connections.  The     *)
(* credentials are made by the VMUser manager and read by the Promxy       *)
(* controller, so this module composes the two with the controller of the  *)
(* ConfigMaps.  Children's ConfigMaps, which the same handler updates, are *)
(* the subject of ClusterPlacement.                                        *)
(*                                                                         *)
(* Objects the ConfigMap owns are deleted by the garbage collector some    *)
(* time after the ConfigMap; a storage connection has a finalizer and only *)
(* goes when its own controller lets it.                                   *)
(***************************************************************************)
EXTENDS Naturals, FiniteSets

CONSTANTS
  Regionals,       \* names of the regional ConfigMaps
  Children,        \* child clusters, each with a user of its own
  TenantConfig,    \* VMUserConfig of a child
  KcmRegions,      \* the regionals that are KCM regions
  Local,           \* the ConfigMaps of a management cluster without regionals
  Endpoints,       \* read endpoints a ConfigMap may be edited to hold
  Initial,         \* the ConfigMaps there are at first: an endpoint or None for each name
  LocalEndpoint,   \* regionlessEndpoints, the one used for a ConfigMap in Local
  Scheme, Port,    \* of each endpoint; Port is None when the URL has none
  VLCluster, VTCluster,   \* KOF_VL_CLUSTER_NAME, KOF_VT_CLUSTER_NAME; None when not set
  Regionless, Pods, None,
  MaxEvents        \* bound of the model: edits by users and failures, together

Users == Regionals \cup Children
Config == [u \in Users |-> IF u \in Children THEN TenantConfig ELSE None]

Sinks == {"traces", "logs", "audit"}

VARIABLES
  cm,          \* each regional's ConfigMap: [uid, data] or None
  uids,        \* ConfigMaps created so far under each name
  queue,       \* regionals with an event not yet handled
  work,        \* the reconciliation in progress: [r, cm, step] or None
  children,    \* children whose ClusterDeployment has not been handled
  rules,       \* owner of each regional's ConfigMap of record rules, or None
  rulesMcs,    \* the names under which rules are propagated
  conn,        \* [owner, data, deleting] of each storage connection, or None
  missed,      \* regionals whose deletion no running operator was told of
  secret, copy, vmuser, mcs, job, minted,                     \* VMUserManager
  group, config, running, mounted, loaded, asked, rec,       \* PromxyConfig
  events

own == <<cm, uids, queue, work, children, rules, rulesMcs, conn, missed>>
users == <<secret, copy, vmuser, mcs, job, minted>>
promxy == <<group, config, running, mounted, loaded, asked, rec>>
vars == <<own, users, promxy, events>>

U == INSTANCE VMUserManager WITH WithMCS <- Users
P == INSTANCE PromxyConfig WITH
       Groups <- Regionals, creds <- copy,
       SecretNames <- {"promxy-config"}, MountedName <- "promxy-config"

\* The owners of regional r's objects that exist: its ConfigMap, told from an earlier one
\* of the same name by its uid.
Alive(r) == IF r \in Regionals /\ cm[r] # None THEN {cm[r].uid} ELSE {0}

Init ==
  /\ cm = [r \in Regionals |-> IF Initial[r] = None THEN None ELSE [uid |-> 1, data |-> Initial[r]]]
  /\ uids = [r \in Regionals |-> 1]
  /\ queue = {r \in Regionals : cm[r] # None} /\ work = None /\ children = {}
  /\ rules = [r \in Regionals |-> None] /\ rulesMcs = {}
  /\ conn = [c \in Regionals \X Sinks |-> None]
  /\ U!VMUserInit /\ P!PromxyInit
  /\ missed = {} /\ events = 0

Event == events < MaxEvents /\ events' = events + 1

----------------------------------------------------------------------------
(* The steps of RegionalClusterConfigMap.Reconcile, in order.              *)

At(step) == work # None /\ work.step = step

Goto(step) == work' = [work EXCEPT !.step = step] /\ UNCHANGED queue

\* Mistake: an error is logged and the request dropped.
Drop == work' = None /\ UNCHANGED queue

\* An error ends the reconciliation; the request is retried.
Retry == work' = None /\ queue' = queue \cup {work.r}

\* The controller takes a request: the ConfigMap is there, or its objects are cleaned up.
TakeRequest ==
  /\ work = None
  /\ \E r \in queue :
       /\ queue' = queue \ {r} /\ U!NoJob(r)
       /\ IF cm[r] = None
          THEN /\ work' = [r |-> r, cm |-> None, step |-> "cleanup"]
               /\ U!Delete(r)
          ELSE /\ work' = [r |-> r, cm |-> cm[r], step |-> "rules"]
               /\ UNCHANGED job
  /\ UNCHANGED <<cm, uids, children, rules, rulesMcs, conn, missed>>
  /\ UNCHANGED <<secret, copy, vmuser, mcs, minted, promxy, events>>

\* EnsureCreated: a ConfigMap of rules that exists is left as it is, owner included.
CreateVmRulesConfigMap ==
  /\ At("rules")
  /\ rules' = [rules EXCEPT ![work.r] = IF @ = None THEN work.cm.uid ELSE @]
  /\ Goto("rulesMcs")
  /\ UNCHANGED <<cm, uids, children, rulesMcs, conn, missed, users, promxy, events>>

CreateOrUpdateMcsForVmRulesPropagation ==
  /\ At("rulesMcs")
  /\ rulesMcs' = IF work.r \in KcmRegions THEN rulesMcs \cup {work.r} ELSE rulesMcs
  /\ Goto("user")
  /\ UNCHANGED <<cm, uids, children, rules, conn, missed, users, promxy, events>>

CreateVMUser ==
  /\ At("user") /\ U!Create(work.r, work.cm.uid) /\ Goto("wait")
  /\ UNCHANGED <<cm, uids, children, rules, rulesMcs, conn, missed>>
  /\ UNCHANGED <<secret, copy, vmuser, mcs, minted, promxy, events>>

VMUserCreated ==
  /\ At("wait") /\ U!Take(work.r)
  /\ IF job[work.r].ok THEN Goto("group") ELSE Retry
  /\ UNCHANGED <<cm, uids, children, rules, rulesMcs, conn, missed>>
  /\ UNCHANGED <<secret, copy, vmuser, mcs, minted, promxy, events>>

\* The port of an endpoint; None when neither the URL nor its scheme gives one.
parsePort(e) ==
  IF Port[e] # None THEN Port[e]
  ELSE CASE Scheme[e] = "http" -> "80"
         [] Scheme[e] = "https" -> "443"
         [] OTHER -> None

GetReadEndpoint(r, data) == IF r \in Local THEN LocalEndpoint ELSE data

\* GetMetricsData
Target(r, data) == <<GetReadEndpoint(r, data), parsePort(GetReadEndpoint(r, data))>>

CreateOrUpdatePromxyServerGroup ==
  /\ At("group")
  /\ IF Target(work.r, work.cm.data)[2] = None
     THEN Retry /\ UNCHANGED promxy
     ELSE /\ P!PutGroup(work.r, [secretName |-> "promxy-config", cred |-> work.r,
                                 spec |-> Target(work.r, work.cm.data),
                                 owner |-> work.cm.uid])
          /\ Goto("traces")
  /\ UNCHANGED <<cm, uids, children, rules, rulesMcs, conn, missed, users, events>>

\* CreateOrUpdate of a storage connection: an object that is being deleted is updated
\* like any other, and stays in deletion.
PutConn(sink) ==
  conn' = [conn EXCEPT ![<<work.r, sink>>] =
             [owner |-> work.cm.uid, data |-> GetReadEndpoint(work.r, work.cm.data),
              deleting |-> @ # None /\ @.deleting]]

CreateOrUpdateTracesStorageConnection ==
  /\ At("traces") /\ Goto("logs")
  /\ IF VTCluster = None THEN UNCHANGED conn ELSE PutConn("traces")
  /\ UNCHANGED <<cm, uids, children, rules, rulesMcs, missed, users, promxy, events>>

CreateOrUpdateLogsStorageConnection ==
  /\ At("logs") /\ Goto("audit")
  /\ IF VLCluster = None THEN UNCHANGED conn ELSE PutConn("logs")
  /\ UNCHANGED <<cm, uids, children, rules, rulesMcs, missed, users, promxy, events>>

CreateOrUpdateAuditLogsStorageConnection ==
  /\ At("audit") /\ work' = None /\ UNCHANGED queue
  /\ IF VLCluster = None THEN UNCHANGED conn ELSE PutConn("audit")
  /\ UNCHANGED <<cm, uids, children, rules, rulesMcs, missed, users, promxy, events>>

\* Mistake: a MultiClusterService that is not there is an error.
CleanupStrict ==
  /\ At("cleanup") /\ U!Take(work.r)
  /\ IF job[work.r].ok /\ work.r \in rulesMcs
     THEN rulesMcs' = rulesMcs \ {work.r} /\ work' = None /\ UNCHANGED queue
     ELSE Retry /\ UNCHANGED rulesMcs
  /\ UNCHANGED <<cm, uids, children, rules, conn, missed>>
  /\ UNCHANGED <<secret, copy, vmuser, mcs, minted, promxy, events>>

\* ResourceCleanup: the credentials, then the propagation of the rules.
CleanupVmRulesMcsPropagation ==
  /\ At("cleanup") /\ U!Take(work.r)
  /\ IF job[work.r].ok
     THEN rulesMcs' = rulesMcs \ {work.r} /\ work' = None /\ UNCHANGED queue
     ELSE Retry /\ UNCHANGED rulesMcs
  /\ UNCHANGED <<cm, uids, children, rules, conn, missed>>
  /\ UNCHANGED <<secret, copy, vmuser, mcs, minted, promxy, events>>

\* A call of the handler's own fails.
StepFails ==
  /\ work # None /\ U!NoJob(work.r) /\ Event /\ Retry
  /\ UNCHANGED <<cm, uids, children, rules, rulesMcs, conn, missed, users, promxy>>

Regional ==
  \/ TakeRequest \/ CreateVmRulesConfigMap \/ CreateOrUpdateMcsForVmRulesPropagation
  \/ CreateVMUser \/ VMUserCreated \/ CreateOrUpdatePromxyServerGroup
  \/ CreateOrUpdateTracesStorageConnection \/ CreateOrUpdateLogsStorageConnection
  \/ CreateOrUpdateAuditLogsStorageConnection \/ CleanupVmRulesMcsPropagation

----------------------------------------------------------------------------
(* A child's credentials, made by the ClusterDeployment controller.        *)

CreateVMUserCredentials ==
  /\ \E c \in children : U!NoJob(c) /\ U!Create(c, 0) /\ children' = children \ {c}
  /\ UNCHANGED <<cm, uids, queue, work, rules, rulesMcs, conn, missed>>
  /\ UNCHANGED <<secret, copy, vmuser, mcs, minted, promxy, events>>

ChildReturns ==
  /\ \E c \in Children :
       U!Take(c) /\ children' = IF job[c].ok THEN children ELSE children \cup {c}
  /\ UNCHANGED <<cm, uids, queue, work, rules, rulesMcs, conn, missed>>
  /\ UNCHANGED <<secret, copy, vmuser, mcs, minted, promxy, events>>

(* The rest of the system.                                                 *)

ManagerCall == (\E u \in Users : U!Call(u)) /\ UNCHANGED <<own, promxy, events>>
ManagerFails == (\E u \in Users : U!CallFails(u)) /\ Event /\ UNCHANGED <<own, promxy>>

PromxyStep == P!Reconcile /\ UNCHANGED <<own, users, events>>

PromxyFails ==
  /\ P!Interrupt \/ \E bad \in SUBSET Pods : bad # {} /\ P!Reload(bad)
  /\ Event /\ UNCHANGED <<own, users>>

PodStep ==
  /\ \E p \in Pods : P!Refresh(p) \/ P!PodStarts(p)
  /\ UNCHANGED <<own, users, events>>

PodStops == (\E p \in Pods : P!PodStops(p)) /\ Event /\ UNCHANGED <<own, users>>

\* The garbage collector; a storage connection is only marked, and goes when the
\* controller of the storage connections has taken it out of its cluster.
Collect ==
  \/ (\E r \in Regionals : U!CollectCredentials(r, Alive(r))) /\ UNCHANGED <<own, promxy, events>>
  \/ (\E r \in Regionals : P!CollectGroup(r, Alive(r))) /\ UNCHANGED <<own, users, events>>
  \/ /\ \E r \in Regionals : /\ rules[r] # None /\ rules[r] \notin Alive(r)
                             /\ rules' = [rules EXCEPT ![r] = None]
     /\ UNCHANGED <<cm, uids, queue, work, children, rulesMcs, conn, missed, users, promxy, events>>
  \/ /\ \E c \in DOMAIN conn :
          /\ conn[c] # None /\ ~conn[c].deleting /\ conn[c].owner \notin Alive(c[1])
          /\ conn' = [conn EXCEPT ![c].deleting = TRUE]
     /\ UNCHANGED <<cm, uids, queue, work, children, rules, rulesMcs, missed, users, promxy, events>>

ReleaseConn ==
  /\ \E c \in DOMAIN conn : conn[c] # None /\ conn[c].deleting /\ conn' = [conn EXCEPT ![c] = None]
  /\ UNCHANGED <<cm, uids, queue, work, children, rules, rulesMcs, missed, users, promxy, events>>

\* A child appears or its ClusterDeployment changes.
EditChild ==
  /\ Event /\ \E c \in Children \ children : children' = children \cup {c}
  /\ UNCHANGED <<cm, uids, queue, work, rules, rulesMcs, conn, missed, users, promxy>>

\* A ConfigMap is created, edited or deleted.
Edit ==
  /\ Event
  /\ \E r \in Regionals :
       /\ queue' = queue \cup {r}
       /\ \/ /\ cm[r] = None /\ uids' = [uids EXCEPT ![r] = @ + 1]
             /\ \E d \in Endpoints : cm' = [cm EXCEPT ![r] = [uid |-> uids'[r], data |-> d]]
          \/ /\ cm[r] # None /\ UNCHANGED uids
             /\ \E d \in Endpoints \ {cm[r].data} : cm' = [cm EXCEPT ![r].data = d]
          \/ cm[r] # None /\ cm' = [cm EXCEPT ![r] = None] /\ UNCHANGED uids
  /\ UNCHANGED <<work, children, rules, rulesMcs, conn, missed, users, promxy>>

\* The operator restarts: every object that exists is handled again, and nothing tells
\* the new process of a ConfigMap that is gone.
Restart ==
  /\ Event /\ work' = None
  /\ queue' = {r \in Regionals : cm[r] # None}
  /\ missed' = missed \cup {r \in Regionals : cm[r] = None /\ (r \in queue \/ (work # None /\ work.r = r))}
  /\ children' = children \cup {c \in Children : secret[c] # None \/ job[c] # None}
  /\ job' = [u \in Users |-> None]
  /\ rec' = None /\ asked' = (\E r \in Regionals : group[r] # None)
  /\ UNCHANGED <<cm, uids, rules, rulesMcs, conn, secret, copy, vmuser, mcs, minted>>
  /\ UNCHANGED <<group, config, running, mounted, loaded>>

Next ==
  \/ Regional \/ CreateVMUserCredentials \/ ChildReturns \/ ManagerCall
  \/ PromxyStep \/ PodStep \/ Collect \/ ReleaseConn
  \/ StepFails \/ ManagerFails \/ PromxyFails \/ PodStops \/ EditChild \/ Edit \/ Restart

Spec == Init /\ [][Next]_vars

\* Every controller, the garbage collector and the kubelet keep working, each by itself;
\* nothing is assumed of users and failures.
FairSpec ==
  /\ Spec
  /\ WF_vars(Regional) /\ WF_vars(ManagerCall) /\ WF_vars(PromxyStep)
  /\ WF_vars(CreateVMUserCredentials \/ ChildReturns)
  /\ WF_vars(PodStep) /\ WF_vars(Collect \/ ReleaseConn)

----------------------------------------------------------------------------
(* The objects, and what the controllers hold in memory.                   *)

Data == Endpoints \cup ({Initial[r] : r \in Regionals} \ {None})
ConfigMaps == [uid : Nat, data : Data]
Connections == [owner : Nat, data : Data \cup {LocalEndpoint}, deleting : BOOLEAN]
Handling == {"rules", "rulesMcs", "user", "wait", "group", "traces", "logs", "audit"}
Requests ==
  [r : Regionals, cm : ConfigMaps, step : Handling]
    \cup [r : Regionals, cm : {None}, step : {"cleanup"}]

Secrets == [pw : Nat, owner : Nat]
VMUsers == [targets : {U!buildTargetRefs(Config[u]) : u \in Users}, owner : Nat]
Jobs == [op : {"create", "delete"}, step : {"secret", "copy", "vmuser", "mcs", "returned"},
         owner : Nat, pw : Nat, ok : BOOLEAN]

Specs == {Target(r, d) : r \in Regionals, d \in Data}
GroupObjects == [secretName : {"promxy-config"}, cred : Regionals, spec : Specs, owner : Nat]
Configurations == UNION {[S -> [spec : Specs, pw : Nat]] : S \in SUBSET Regionals}
Renderings ==
  [step : {"next", "write", "reload"}, groups : [Regionals -> GroupObjects \cup {None}],
   left : SUBSET {"promxy-config"}, name : {"promxy-config", None},
   data : Configurations \cup {None}]

ASSUME NoneAssumption ==
  /\ None \notin Nat /\ None \notin ConfigMaps /\ None \notin Connections /\ None \notin Requests
  /\ None \notin Secrets /\ None \notin VMUsers /\ None \notin Jobs
  /\ None \notin GroupObjects /\ None \notin Renderings

ASSUME KindAssumption == Regionals \cap Children = {} /\ Regionless \in BOOLEAN

----------------------------------------------------------------------------
(* Properties.                                                             *)

Garbage ==
  \/ \E r \in Regionals :
       \/ secret[r] # None /\ secret[r].owner \notin Alive(r)
       \/ vmuser[r] # None /\ vmuser[r].owner \notin Alive(r)
       \/ group[r] # None /\ group[r].owner \notin Alive(r)
       \/ rules[r] # None /\ rules[r] \notin Alive(r)
  \/ \E c \in DOMAIN conn : conn[c] # None /\ (conn[c].deleting \/ conn[c].owner \notin Alive(c[1]))

\* Nothing is left to do.
Quiet ==
  /\ queue = {} /\ work = None /\ children = {} /\ \A u \in Users : job[u] = None
  /\ ~asked /\ rec = None /\ running = Pods
  /\ \A p \in Pods : mounted[p] = config["promxy-config"]
  /\ ~Garbage

Live == {r \in Regionals : cm[r] # None}

\* At rest, a regional has its credentials, with the copy Promxy reads equal to the
\* original, and its group, made from the ConfigMap that is there now; and, unless the
\* ConfigMap was created anew under its name, its rules and connections too
\* (RegionalClusterConfigMap.Reconcile, Manager.Create).
Provisioned ==
  Quiet => \A r \in Live :
    /\ secret[r] # None /\ copy[r] = secret[r].pw /\ vmuser[r] # None
    /\ r \in mcs <=> ~Regionless
    /\ r \in KcmRegions => r \in rulesMcs
    /\ group[r] # None /\ group[r].spec = Target(r, cm[r].data)
    /\ uids[r] = 1 =>
         /\ rules[r] # None
         /\ \A c \in {d \in DOMAIN conn : d[1] = r} :
              (IF c[2] = "traces" THEN VTCluster ELSE VLCluster) # None =>
                conn[c] # None /\ conn[c].data = GetReadEndpoint(r, cm[r].data)

\* At rest, while there is a regional, every Promxy pod reads from exactly the regionals
\* there are, at their current endpoints and with their current passwords (the Promxy
\* controller is told of changed groups, never of changed credentials).
PromxyConverged ==
  Quiet /\ Live # {} => \A p \in Pods :
    loaded[p] = [r \in Live |-> [spec |-> Target(r, cm[r].data), pw |-> secret[r].pw]]

\* At rest, nothing is left of a regional that is gone, unless the operator was restarted
\* between the deletion and the cleanup (ResourceCleanup; the copy and the two
\* MultiClusterServices have no owner).
NothingLeft ==
  Quiet => \A r \in Regionals \ (Live \cup missed) :
    /\ secret[r] = None /\ copy[r] = None /\ vmuser[r] = None
    /\ r \notin mcs /\ r \notin rulesMcs /\ rules[r] = None /\ group[r] = None
    /\ \A c \in DOMAIN conn : c[1] = r => conn[c] = None

TenantConfined == U!TenantConfined

\* Once edits and failures stop the system comes to rest, although controllers wait for
\* each other's objects, unless a ConfigMap names an endpoint without a port
\* (regional_cluster_configmap_controller.go and promxyservergroup_controller.go: every
\* error is returned and retried).
Settles == []<>(Quiet \/ \E r \in Live : Target(r, cm[r].data)[2] = None)
=============================================================================
