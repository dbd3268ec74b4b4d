-------------------------- MODULE ClusterPlacement --------------------------
(***************************************************************************)
(* How kof-operator attaches child clusters to regional clusters           *)
(* (kof-operator/internal/controller).  Two controllers with one worker    *)
(* each share the objects of the management cluster:                       *)
(*                                                                         *)
(*  - the ClusterDeployment controller turns a regional ClusterDeployment  *)
(*    into a regional ConfigMap, and for a child ClusterDeployment selects *)
(*    a regional ConfigMap, copies its data into the child's ConfigMap and *)
(*    sends the child's credentials to the selected regional cluster;      *)
(*  - the regional ConfigMap controller copies a changed regional          *)
(*    ConfigMap into the ConfigMaps of "its" children, then into the       *)
(*    PromxyServerGroup and the storage connections.                       *)
(*                                                                         *)
(* The data of a regional ConfigMap is the identity of the regional        *)
(* cluster and the version of the annotations it was derived from.         *)
(***************************************************************************)
EXTENDS Naturals, FiniteSets, Sequences

CONSTANTS
    Children,        \* ClusterDeployments with the role label "child"
    Regionals,       \* ClusterDeployments with the role label "regional"
    Management,      \* the regionless ConfigMap of the management cluster: {} or a singleton
    Name,            \* .metadata.name of a cluster
    Namespace,       \* .metadata.namespace of a cluster
    Cloud,           \* infrastructure provider of a cluster, Unknown if none is recognised
    Location,        \* region, location or datacenter of a cluster
    KcmRegion,       \* KCM region a cluster belongs to, None if it has none
    Unknown,
    Matched,         \* clouds whose clusters are matched by location
    Anywhere,        \* clouds whose clusters always match (Docker)
    Labels,          \* values users give the two regional cluster labels: [name, namespace]
    CrossNamespace,  \* CROSS_NAMESPACE
    Relabel,         \* users may change the labels of a child after its creation
    Revert,          \* users may return to annotations a regional cluster had before
    Sinks,           \* sequence of the objects made from a regional ConfigMap, as configured
    None,
    MaxEdits,        \* bound: user operations on ClusterDeployments
    MaxFaults        \* bound: failed API calls and operator restarts

Sources == Regionals \cup Management
Clusters == Children \cup Sources

ASSUME ClusterAssumption ==
    /\ Children \cap Sources = {}
    /\ Regionals \cap Management = {}
    /\ Cardinality(Management) <= 1
    /\ \A f \in {Name, Namespace, Cloud, Location, KcmRegion} : DOMAIN f = Clusters
    /\ Matched \cap Anywhere = {}
    /\ Unknown \notin Matched \cup Anywhere
    /\ {CrossNamespace, Relabel, Revert} \subseteq BOOLEAN
    /\ Len(Sinks) \in Nat \ {0} /\ DOMAIN Sinks = 1 .. Len(Sinks)
    /\ None \notin Clusters /\ None \notin Labels /\ None \notin Nat
    /\ \A x \in Clusters : None # [name |-> Name[x], namespace |-> Namespace[x]]
    /\ MaxEdits \in Nat
    /\ MaxFaults \in Nat

VARIABLES
    life,      \* life[x]: "absent", "live" or "gone"; a deleted cluster does not return
    named,     \* clusters that carry the cluster name label
    label,     \* label[c]: the regional cluster labels of a child, None without them
    spec,      \* spec[r]: version of the annotations of a regional cluster
    rcm,       \* rcm[r]: version held by the regional ConfigMap, None if there is none
    seen,      \* seen[r]: the same ConfigMap in the operator's informer cache
    ccm,       \* ccm[c]: data of the child's ConfigMap, [of |-> regional, ver |-> version]
    prop,      \* names of the MultiClusterServices that propagate child ConfigMaps
    cred,      \* cred[c]: name of the regional cluster the child's VMUser is sent to
    sinks,     \* sinks[r][i]: version held by the i-th of the Sinks, None if there is none
    cdQueue,   \* requests waiting for the ClusterDeployment controller
    cmQueue,   \* requests waiting for the regional ConfigMap controller
    cdWork,    \* worker of the ClusterDeployment controller
    cmWork,    \* worker of the regional ConfigMap controller
    lost,      \* deleted clusters whose deletion no controller will be told of (history)
    edits,
    faults

objects == <<life, named, label, spec, rcm, seen, ccm, prop, cred, sinks>>
vars == <<life, named, label, spec, rcm, seen, ccm, prop, cred, sinks,
          cdQueue, cmQueue, cdWork, cmWork, lost, edits, faults>>

\* The data of regional cluster r's ConfigMap, all of it from version v of its annotations.
ConfigData(r, v) == [of |-> r, ver |-> v]
Idle == [at |-> "idle"]
NoSinks == [i \in DOMAIN Sinks |-> None]

Live == {x \in Clusters : life[x] = "live"}
HasConfigMap == {r \in Sources : seen[r] # None}

-----------------------------------------------------------------------------
(* Matching                                                                *)

\* Two clusters of one cloud are in the same location.
LocationIsTheSame(x, y) ==
    \/ Cloud[x] \in Anywhere
    \/ Cloud[x] \in Matched /\ Location[x] = Location[y]

\* A label names the regional cluster; its namespace is the child's own unless
\* cross-namespace placement is on, which makes the second label mandatory.
DiscoverByLabel(c) ==
    {r \in HasConfigMap :
        /\ Name[r] = label[c].name
        /\ Namespace[r] = IF CrossNamespace THEN label[c].namespace ELSE Namespace[c]
        /\ KcmRegion[c] # None => r \in Live /\ KcmRegion[r] = KcmRegion[c]}

\* Regional ConfigMaps a child is matched with by location.  The clusters of the
\* child's KCM region are compared with the regional cluster by name only.
LocationMatches(c) ==
    {r \in HasConfigMap :
        /\ CrossNamespace \/ Namespace[r] = Namespace[c]
        /\ KcmRegion[c] # None =>
              \E x \in Live : KcmRegion[x] = KcmRegion[c] /\ Name[x] = Name[r]
        /\ Cloud[c] # Unknown
        /\ Cloud[r] = Cloud[c]
        /\ LocationIsTheSame(c, r)}

IsPreviouslyUsed(c, r) ==
    /\ Name[r] = Name[ccm[c].of]
    /\ Namespace[r] = Namespace[ccm[c].of]

\* Mistake: regionless mode also requires a matching cloud and location.
DiscoverByLocationAlways(c) ==
    {r \in LocationMatches(c) : ccm[c] # None => IsPreviouslyUsed(c, r)}

\* The ConfigMaps discovery may return: the first of the list, whose order is not
\* specified, unless the child has a ConfigMap, which ties it to the cluster named there.
DiscoverByLocation(c) ==
    IF Management # {} THEN HasConfigMap \cap Management
    ELSE {r \in LocationMatches(c) : ccm[c] # None => IsPreviouslyUsed(c, r)}

GetRegionalConfigMap(c) ==
    IF label[c] # None THEN DiscoverByLabel(c) ELSE DiscoverByLocation(c)

\* Mistake: children are taken by cloud, wherever they are.
GetChildClustersOfCloud(r) == {c \in Children \cap Live : Cloud[c] = Cloud[r]}

\* The children a regional ConfigMap is copied to.
GetChildClusters(r) ==
    {c \in Children \cap Live :
        \/ r \in Management
        \/ /\ Cloud[r] = Unknown
           /\ label[c] = [name |-> Name[r], namespace |-> Namespace[r]]
        \/ /\ Cloud[r] # Unknown
           /\ Cloud[c] = Cloud[r]
           /\ LocationIsTheSame(r, c)
           /\ label[c] # None => label[c].name = Name[r]}

-----------------------------------------------------------------------------
Init ==
    /\ life = [x \in Clusters |-> "absent"]
    /\ named = {}
    /\ label = [c \in Children |-> None]
    /\ spec = [r \in Sources |-> 0]
    /\ rcm = [r \in Sources |-> IF r \in Management THEN 0 ELSE None]
    /\ seen = rcm
    /\ ccm = [c \in Children |-> None]
    /\ prop = {}
    /\ cred = [c \in Children |-> None]
    /\ sinks = [r \in Sources |-> NoSinks]
    /\ cdQueue = {}
    /\ cmQueue = Management
    /\ cdWork = Idle
    /\ cmWork = Idle
    /\ lost = {}
    /\ edits = 0
    /\ faults = 0

-----------------------------------------------------------------------------
(* The ClusterDeployment controller.  A reconciliation that ends with an   *)
(* error changes nothing and is repeated with a delay of 1 to 15 seconds:  *)
(* its request stays in the queue.                                         *)

\* Mistake: a ClusterDeployment that is not found needs nothing.
CleanupPropagationIgnored(x) ==
    /\ life[x] # "live"
    /\ cdQueue' = cdQueue \ {x}
    /\ UNCHANGED <<named, rcm, prop, cdWork>>

\* The ClusterDeployment is gone.
CleanupPropagation(x) ==
    /\ life[x] # "live"
    /\ prop' = prop \ {Name[x]}
    /\ cdQueue' = cdQueue \ {x}
    /\ UNCHANGED <<named, rcm, cdWork>>

\* The update of the ClusterDeployment queues it again.
AddClusterNameLabel(x) ==
    /\ life[x] = "live"
    /\ x \notin named
    /\ named' = named \cup {x}
    /\ UNCHANGED <<rcm, prop, cdQueue, cdWork>>

\* A regional cluster: create its ConfigMap, or update it when the cached data differ.
\* A write based on a cached ConfigMap that is out of date is refused.
ReconcileRegional(r) ==
    /\ r \in named \cap Regionals
    /\ Cloud[r] # Unknown
    /\ \/ seen[r] = spec[r] /\ rcm' = rcm
       \/ seen[r] # spec[r] /\ seen[r] = rcm[r] /\ rcm' = [rcm EXCEPT ![r] = spec[r]]
    /\ cdQueue' = cdQueue \ {r}
    /\ UNCHANGED <<named, prop, cdWork>>

\* A child cluster: select a regional ConfigMap and keep its data for the next steps.
ReconcileChild(c) ==
    /\ c \in named \cap Children
    /\ \E r \in GetRegionalConfigMap(c) :
           cdWork' = [at |-> "config", of |-> c, data |-> ConfigData(r, seen[r])]
    /\ cdQueue' = cdQueue \ {c}
    /\ UNCHANGED <<named, rcm, prop>>

Reconcile(x) ==
    /\ cdWork = Idle
    /\ x \in cdQueue
    /\ \/ CleanupPropagation(x)
       \/ AddClusterNameLabel(x)
       \/ ReconcileRegional(x)
       \/ ReconcileChild(x)
    /\ UNCHANGED <<life, label, spec, seen, ccm, cred, sinks, cmQueue, cmWork, lost, edits, faults>>

\* Mistake: a ConfigMap that needs no update ends the reconciliation.
CreateOrUpdateConfigMapEndsEarly ==
    /\ cdWork.at = "config"
    /\ ccm' = [ccm EXCEPT ![cdWork.of] = IF cdWork.of \in Live THEN cdWork.data ELSE @]
    /\ cdWork' = IF ccm[cdWork.of] = cdWork.data THEN Idle ELSE [cdWork EXCEPT !.at = "propagation"]
    /\ UNCHANGED <<life, named, label, spec, rcm, seen, prop, cred, sinks,
                   cdQueue, cmQueue, cmWork, lost, edits, faults>>

\* Mistake: an existing ConfigMap is never updated.
CreateConfigMapOnly ==
    /\ cdWork.at = "config"
    /\ ccm' = [ccm EXCEPT ![cdWork.of] = IF cdWork.of \in Live /\ @ = None THEN cdWork.data ELSE @]
    /\ cdWork' = [cdWork EXCEPT !.at = "propagation"]
    /\ UNCHANGED <<life, named, label, spec, rcm, seen, prop, cred, sinks,
                   cdQueue, cmQueue, cmWork, lost, edits, faults>>

\* Create or update the child's ConfigMap.  One created for a ClusterDeployment that was
\* deleted meanwhile has no owner, and the garbage collector removes it.
CreateOrUpdateConfigMap ==
    /\ cdWork.at = "config"
    /\ ccm' = [ccm EXCEPT ![cdWork.of] = IF cdWork.of \in Live THEN cdWork.data ELSE @]
    /\ cdWork' = [cdWork EXCEPT !.at = "propagation"]
    /\ UNCHANGED <<life, named, label, spec, rcm, seen, prop, cred, sinks,
                   cdQueue, cmQueue, cmWork, lost, edits, faults>>

\* Propagate the ConfigMap of a child in a KCM region to the cluster of that region.
CreateConfigMapPropagation ==
    /\ cdWork.at = "propagation"
    /\ prop' = IF KcmRegion[cdWork.of] = None THEN prop ELSE prop \cup {Name[cdWork.of]}
    /\ cdWork' = [cdWork EXCEPT !.at = "credentials"]
    /\ UNCHANGED <<life, named, label, spec, rcm, seen, ccm, cred, sinks,
                   cdQueue, cmQueue, cmWork, lost, edits, faults>>

\* Create the child's VMUser and the MultiClusterService that sends it to the regional cluster.
CreateVMUserCredentials ==
    /\ cdWork.at = "credentials"
    /\ cred' = [cred EXCEPT ![cdWork.of] = IF Management = {} THEN Name[cdWork.data.of] ELSE @]
    /\ cdWork' = Idle
    /\ UNCHANGED <<life, named, label, spec, rcm, seen, ccm, prop, sinks,
                   cdQueue, cmQueue, cmWork, lost, edits, faults>>

\* One of the calls above fails, or is refused because the object has changed.
ReconcileFails ==
    /\ cdWork # Idle
    /\ faults < MaxFaults
    /\ cdWork' = Idle
    /\ cdQueue' = cdQueue \cup {cdWork.of}
    /\ faults' = faults + 1
    /\ UNCHANGED <<objects, cmQueue, cmWork, lost, edits>>

-----------------------------------------------------------------------------
(* The regional ConfigMap controller.                                      *)

\* Read the ConfigMap and list the children, or clean up after a deleted ConfigMap
\* (VMUser and rule propagation, which are not part of this module).
ReconcileConfigMap(r) ==
    /\ cmWork = Idle
    /\ r \in cmQueue
    /\ cmQueue' = cmQueue \ {r}
    /\ cmWork' = IF seen[r] = None THEN Idle
                 ELSE [at |-> "children", of |-> r, ver |-> seen[r], todo |-> GetChildClusters(r), sink |-> 1]
    /\ UNCHANGED <<objects, cdQueue, cdWork, lost, edits, faults>>

\* Copy the data to one of the children, if that child has a ConfigMap.
UpdateChildConfigMap(c) ==
    /\ cmWork.at = "children"
    /\ c \in cmWork.todo
    /\ ccm' = [ccm EXCEPT ![c] =
                   IF @ = None THEN None ELSE ConfigData(cmWork.of, cmWork.ver)]
    /\ cmWork' = [cmWork EXCEPT !.todo = @ \ {c}]
    /\ UNCHANGED <<life, named, label, spec, rcm, seen, prop, cred, sinks,
                   cdQueue, cmQueue, cdWork, lost, edits, faults>>

\* Create or update the next of the PromxyServerGroup and the storage connections for traces,
\* logs and audit logs, which are owned by the ConfigMap.
CreateOrUpdateSink ==
    /\ cmWork.at = "children"
    /\ cmWork.todo = {}
    /\ sinks' = [sinks EXCEPT ![cmWork.of][cmWork.sink] =
                     IF rcm[cmWork.of] = None THEN None ELSE cmWork.ver]
    /\ cmWork' = IF cmWork.sink = Len(Sinks) THEN Idle ELSE [cmWork EXCEPT !.sink = @ + 1]
    /\ UNCHANGED <<life, named, label, spec, rcm, seen, ccm, prop, cred,
                   cdQueue, cmQueue, cdWork, lost, edits, faults>>

\* Mistake: the error is logged and not returned, so nothing is repeated.
ReconcileConfigMapGivesUp ==
    /\ cmWork # Idle
    /\ faults < MaxFaults
    /\ cmWork' = Idle
    /\ faults' = faults + 1
    /\ UNCHANGED <<objects, cdQueue, cmQueue, cdWork, lost, edits>>

\* One of the calls above fails, or is refused because the object has changed.
ReconcileConfigMapFails ==
    /\ cmWork # Idle
    /\ faults < MaxFaults
    /\ cmWork' = Idle
    /\ cmQueue' = cmQueue \cup {cmWork.of}
    /\ faults' = faults + 1
    /\ UNCHANGED <<objects, cdQueue, cdWork, lost, edits>>

-----------------------------------------------------------------------------
(* The surroundings: users, the informer cache, the operator's process.    *)

\* A user creates a ClusterDeployment; a child comes with or without the labels.
CreateCluster(x) ==
    /\ edits < MaxEdits
    /\ x \notin Management
    /\ life[x] = "absent"
    /\ life' = [life EXCEPT ![x] = "live"]
    /\ \/ label' = label
       \/ /\ x \in Children
          /\ \E l \in Labels : label' = [label EXCEPT ![x] = l]
    /\ cdQueue' = cdQueue \cup {x}
    /\ edits' = edits + 1
    /\ UNCHANGED <<named, spec, rcm, seen, ccm, prop, cred, sinks,
                   cmQueue, cdWork, cmWork, lost, faults>>

\* A user deletes a ClusterDeployment.  The ConfigMaps it owns, and what they own, go with it.
DeleteCluster(x) ==
    /\ edits < MaxEdits
    /\ life[x] = "live"
    /\ life' = [life EXCEPT ![x] = "gone"]
    /\ named' = named \ {x}
    /\ ccm' = [c \in Children |-> IF c = x THEN None ELSE ccm[c]]
    /\ rcm' = [r \in Sources |-> IF r = x THEN None ELSE rcm[r]]
    /\ sinks' = [r \in Sources |-> IF r = x THEN NoSinks ELSE sinks[r]]
    /\ cdQueue' = cdQueue \cup {x}
    /\ edits' = edits + 1
    /\ UNCHANGED <<label, spec, seen, prop, cred, cmQueue, cdWork, cmWork, lost, faults>>

SetLabel(c) ==
    /\ Relabel
    /\ edits < MaxEdits
    /\ life[c] = "live"
    /\ \E l \in Labels \cup {None} : l # label[c] /\ label' = [label EXCEPT ![c] = l]
    /\ cdQueue' = cdQueue \cup {c}
    /\ edits' = edits + 1
    /\ UNCHANGED <<life, named, spec, rcm, seen, ccm, prop, cred, sinks,
                   cmQueue, cdWork, cmWork, lost, faults>>

\* A user changes the annotations of a regional cluster, and with them its endpoints.
Annotate(r) ==
    /\ edits < MaxEdits
    /\ life[r] = "live"
    /\ \E v \in IF Revert THEN 0 .. spec[r] + 1 ELSE {spec[r] + 1} :
           v # spec[r] /\ spec' = [spec EXCEPT ![r] = v]
    /\ cdQueue' = cdQueue \cup {r}
    /\ edits' = edits + 1
    /\ UNCHANGED <<life, named, label, rcm, seen, ccm, prop, cred, sinks,
                   cmQueue, cdWork, cmWork, lost, faults>>

\* The watch brings a changed regional ConfigMap to the cache and to the controller.
Watch(r) ==
    /\ seen[r] # rcm[r]
    /\ seen' = [seen EXCEPT ![r] = rcm[r]]
    /\ cmQueue' = cmQueue \cup {r}
    /\ UNCHANGED <<life, named, label, spec, rcm, ccm, prop, cred, sinks,
                   cdQueue, cdWork, cmWork, lost, edits, faults>>

\* The periodic resynchronisation of the informers queues every object again.
Resync ==
    /\ cdQueue' = cdQueue \cup (Live \ Management)
    /\ cmQueue' = cmQueue \cup HasConfigMap
    /\ UNCHANGED <<objects, cdWork, cmWork, lost, edits, faults>>

\* The operator restarts: reconciliations in progress and the events of deleted
\* objects are lost, every existing object is listed and queued.
Restart ==
    /\ faults < MaxFaults
    /\ seen' = rcm
    /\ cdQueue' = Live
    /\ cmQueue' = {r \in Sources : rcm[r] # None}
    /\ cdWork' = Idle
    /\ cmWork' = Idle
    /\ lost' = lost \cup (cdQueue \ Live)
    /\ faults' = faults + 1
    /\ UNCHANGED <<life, named, label, spec, rcm, ccm, prop, cred, sinks, edits>>

-----------------------------------------------------------------------------
ControllerStep ==
    \/ \E x \in Clusters : Reconcile(x)
    \/ CreateOrUpdateConfigMap
    \/ CreateConfigMapPropagation
    \/ CreateVMUserCredentials
    \/ \E r \in Sources : ReconcileConfigMap(r)
    \/ \E c \in Children : UpdateChildConfigMap(c)
    \/ CreateOrUpdateSink

Failure == ReconcileFails \/ ReconcileConfigMapFails \/ Restart

UserStep ==
    \/ \E x \in Clusters : CreateCluster(x) \/ DeleteCluster(x)
    \/ \E c \in Children : SetLabel(c)
    \/ \E r \in Regionals : Annotate(r)

Next == ControllerStep \/ Failure \/ UserStep \/ (\E r \in Sources : Watch(r)) \/ Resync

Spec == Init /\ [][Next]_vars

\* The work queues are first in, first out, so no request is overtaken for ever; a worker
\* does not stop in the middle of a reconciliation; watches deliver and informers resync.
FairSpec ==
    /\ Spec
    /\ \A x \in Clusters : SF_vars(Reconcile(x))
    /\ \A r \in Sources : SF_vars(ReconcileConfigMap(r)) /\ WF_vars(Watch(r))
    /\ WF_vars(CreateOrUpdateConfigMap \/ CreateConfigMapPropagation \/ CreateVMUserCredentials)
    /\ WF_vars((\E c \in Children : UpdateChildConfigMap(c)) \/ CreateOrUpdateSink)
    /\ WF_vars(Resync)

-----------------------------------------------------------------------------
\* Nothing is waiting for, or being handled by, either controller.
Settled ==
    /\ cdQueue = {} /\ cdWork = Idle
    /\ cmQueue = {} /\ cmWork = Idle
    /\ seen = rcm

\* The regional cluster a child belongs to by its label or its location.
Home(c) ==
    {r \in Regionals \cap Live :
        IF label[c] # None
        THEN Name[r] = label[c].name /\ Namespace[r] = Namespace[c]
        ELSE Cloud[r] = Cloud[c] /\ Location[r] = Location[c] /\ Namespace[r] = Namespace[c]}

\* Whatever the two controllers write in whatever order, the ConfigMap of a child holds
\* the data of a regional cluster its label names or, without a label, of one of the same
\* cloud and, unless that cloud has none, location (or of the management cluster in
\* regionless mode).
PlacedByRule ==
    \A c \in Children : ccm[c] # None =>
        LET r == ccm[c].of
        IN  \/ r \in Management
            \/ label[c] # None /\ Name[r] = label[c].name
            \/ /\ label[c] = None /\ Cloud[r] = Cloud[c]
               /\ Cloud[c] \in Anywhere \/ Location[r] = Location[c]

\* Once a child's reconciliation is over, its credentials have been sent to the regional
\* cluster its ConfigMap makes it write to and, in a KCM region, the ConfigMap is
\* propagated, also when calls failed or the operator restarted between the writes.
ChildProvisioned ==
    \A c \in Children \cap Live :
        /\ ccm[c] # None
        /\ c \notin cdQueue
        /\ cdWork = Idle
        => /\ cred[c] = Name[ccm[c].of]
           /\ KcmRegion[c] # None => Name[c] \in prop

\* The propagation of a deleted child's ConfigMap goes with it, also when the child is
\* deleted while its reconciliation is about to create the propagation or is repeated
\* after an error: a propagation belongs to a child of a KCM region that is there, or whose
\* deletion is waiting for the controller.  Only a restart before that, which loses the
\* deletion, leaves it behind.
PropagationTidied ==
    \A n \in prop : \E c \in Children :
        /\ Name[c] = n /\ KcmRegion[c] # None
        /\ c \in Live \cup cdQueue \cup lost

\* When nothing is left to do, the ConfigMap of a regional cluster, its PromxyServerGroup
\* and its storage connections carry the endpoints of its current annotations.
RegionalSettles ==
    Settled => \A r \in Regionals \cap Live : 
        rcm[r] = spec[r] /\ \A i \in DOMAIN Sinks : sinks[r][i] = spec[r]

\* When nothing is left to do, the ConfigMap of a child agrees with the regional ConfigMap
\* it was copied from: a change of the regional cluster's endpoints reaches its children.
ChildFollowsRegional ==
    Settled => \A c \in Children :
        ccm[c] # None /\ rcm[ccm[c].of] # None => ccm[c].ver = rcm[ccm[c].of]

\* A cluster of a KCM region and a cluster outside it are never attached to each other.
RegionIsolation ==
    \A c \in Children : ccm[c] # None => KcmRegion[c] = KcmRegion[ccm[c].of]

Synced(c) ==
    \A r \in Home(c) : ccm[c] = ConfigData(r, spec[r]) /\ cred[c] = Name[r]

\* After the last change made by users every child that has a regional cluster ends up, for
\* good, with that cluster's current endpoints and with its credentials sent there.
Converges == <>[](\A c \in Children \cap Live : Synced(c))

\* In regionless mode every child is configured in the end, whatever its cloud.
EveryChildConfigured ==
    \A c \in Children : life[c] = "live" ~> (ccm[c] # None \/ life[c] = "gone")
=============================================================================
