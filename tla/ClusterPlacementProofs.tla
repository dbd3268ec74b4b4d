----------------------- MODULE ClusterPlacementProofs -----------------------
(***************************************************************************)
(* Proofs about the placement of child clusters, for any clusters, labels, *)
(* sinks, and any number of user operations, failures and restarts.        *)
(***************************************************************************)
EXTENDS ClusterPlacement, TLAPS

-----------------------------------------------------------------------------
(* The inductive invariants.                                               *)

Data == [of : Sources, ver : Nat]
Reconciliation == [at : {"config", "propagation", "credentials"}, of : Children, data : Data]
Copying == [at : {"children"}, of : Sources, ver : Nat, todo : SUBSET Children, sink : DOMAIN Sinks]

\* Types, and what is known of clusters that are not there.
TypeInv ==
    /\ life \in [Clusters -> {"absent", "live", "gone"}]
    /\ named \subseteq Live
    /\ label \in [Children -> Labels \cup {None}]
    /\ spec \in [Sources -> Nat]
    /\ rcm \in [Sources -> Nat \cup {None}]
    /\ seen \in [Sources -> Nat \cup {None}]
    /\ ccm \in [Children -> Data \cup {None}]
    /\ cred \in [Children -> {Name[x] : x \in Clusters} \cup {None}]
    /\ sinks \in [Sources -> [DOMAIN Sinks -> Nat \cup {None}]]
    /\ cdQueue \subseteq Clusters
    /\ cmQueue \subseteq Sources
    /\ cdWork \in Reconciliation \cup {Idle}
    /\ cmWork \in Copying \cup {Idle}
    /\ lost \subseteq Clusters

\* A cluster under reconciliation is there, or its deletion is waiting.
Deletions == cdWork # Idle => cdWork.of \in Live \cup cdQueue

\* The rule a child with a label, or none, is placed by.
Rule(l, c, r) ==
    \/ r \in Management
    \/ l # None /\ Name[r] = l.name
    \/ l = None /\ Cloud[r] = Cloud[c] /\ LocationIsTheSame(c, r)

\* Both controllers place by the rule, and the labels it looks at are final.
Placed ==
    /\ \A c \in Children : ccm[c] # None => life[c] # "absent" /\ Rule(label[c], c, ccm[c].of)
    /\ cdWork # Idle => life[cdWork.of] # "absent" /\ Rule(label[cdWork.of], cdWork.of, cdWork.data.of)
    /\ cmWork # Idle => \A c \in cmWork.todo : life[c] # "absent" /\ Rule(label[c], c, cmWork.of)

\* A deployment without regionless mode in which a child has a name of its own and no two
\* regional clusters of different names are in one location.
Separate ==
    /\ Management = {}
    /\ \A c \in Children, x \in Clusters : Name[c] = Name[x] => c = x
    /\ \A r, s \in Regionals : Cloud[r] = Cloud[s] /\ LocationIsTheSame(r, s) => Name[r] = Name[s]

\* Without the child's reconciliation there is nothing left to do for it.
Sent ==
    /\ \A c \in Children \cap Live :
         ccm[c] # None /\ c \notin cdQueue /\ (cdWork = Idle \/ cdWork.of # c) =>
           /\ cred[c] = Name[ccm[c].of]
           /\ KcmRegion[c] # None => Name[c] \in prop
    /\ cdWork # Idle /\ cdWork.at = "credentials" /\ KcmRegion[cdWork.of] # None =>
         Name[cdWork.of] \in prop

\* Versions only grow on the way from the annotations to the cache.
Versions ==
    \A r \in Regionals :
      /\ life[r] = "absent" => rcm[r] = None /\ seen[r] = None
      /\ life[r] = "live" =>
           /\ rcm[r] # None => rcm[r] <= spec[r]
           /\ seen[r] # None => rcm[r] # None /\ seen[r] <= rcm[r]
           /\ r \notin cdQueue => rcm[r] = spec[r]

\* The sinks hold what the controller has read of the regional ConfigMap, up to the one
\* it is about to write.
SinksInv ==
    \A r \in Regionals :
      life[r] = "live" /\ seen[r] # None /\ r \notin cmQueue =>
        IF cmWork # Idle /\ cmWork.of = r
        THEN cmWork.ver = seen[r] /\ \A i \in DOMAIN Sinks : i < cmWork.sink => sinks[r][i] = seen[r]
        ELSE \A i \in DOMAIN Sinks : sinks[r][i] = seen[r]

-----------------------------------------------------------------------------
(* Types.                                                                  *)

\* What is asked of a worker that is not idle.
LEMMA WorkFacts ==
    ASSUME TypeInv
    PROVE /\ Idle.at = "idle"
          /\ cdWork.at # "idle" => cdWork # Idle /\ cdWork \in Reconciliation
          /\ cdWork # Idle => cdWork \in Reconciliation /\ cdWork.at # "idle"
          /\ cmWork.at # "idle" => cmWork # Idle /\ cmWork \in Copying
          /\ cmWork # Idle => cmWork \in Copying /\ cmWork.at # "idle"
  BY DEF TypeInv, Idle, Reconciliation, Copying

\* The kinds of clusters.
LEMMA KindFacts ==
    /\ Children \subseteq Clusters /\ Sources \subseteq Clusters
    /\ Regionals \subseteq Sources /\ Management \subseteq Sources
    /\ Children \cap Sources = {} /\ Regionals \cap Management = {}
  BY ClusterAssumption, Zenon DEF Clusters, Sources

\* Discovery returns a regional cluster with a ConfigMap.
LEMMA DiscoveryFacts ==
    ASSUME NEW c, NEW r \in GetRegionalConfigMap(c)
    PROVE r \in Sources /\ seen[r] # None
  BY Zenon DEF GetRegionalConfigMap, DiscoverByLabel, DiscoverByLocation, LocationMatches, HasConfigMap

\* A reconciliation of the ClusterDeployment controller keeps the types.
LEMMA ReconcileType ==
    ASSUME TypeInv, NEW x \in Clusters, Reconcile(x)
    PROVE TypeInv'
<1> USE KindFacts
<1>1. UNCHANGED <<life, label, spec, seen, ccm, cred, sinks, cmQueue, cmWork, lost>>
  BY Zenon DEF Reconcile
<1>2. /\ named' \subseteq Live' /\ cdQueue' \subseteq Clusters
      /\ rcm' \in [Sources -> Nat \cup {None}]
      /\ cdWork' \in Reconciliation \cup {Idle}
  <2>1. CASE CleanupPropagation(x)
    BY <1>1, <2>1, Zenon DEF TypeInv, CleanupPropagation, Live
  <2>2. CASE AddClusterNameLabel(x)
    BY <1>1, <2>2, Zenon DEF TypeInv, AddClusterNameLabel, Live
  <2>3. CASE ReconcileRegional(x)
    BY <1>1, <2>3, Zenon DEF TypeInv, ReconcileRegional, Live
  <2>4. CASE ReconcileChild(x)
    <3>1. PICK r \in GetRegionalConfigMap(x) :
            cdWork' = [at |-> "config", of |-> x, data |-> ConfigData(r, seen[r])]
      BY <2>4, Zenon DEF ReconcileChild
    <3>2. r \in Sources /\ seen[r] \in Nat /\ x \in Children
      BY <2>4, DiscoveryFacts, Zenon DEF TypeInv, ReconcileChild
    <3>3. cdWork' \in Reconciliation
      BY <3>1, <3>2, Zenon DEF Reconciliation, Data, ConfigData
    <3> QED
      BY <1>1, <2>4, <3>3, Zenon DEF TypeInv, ReconcileChild, Live
  <2> QED
    BY <2>1, <2>2, <2>3, <2>4, Zenon DEF Reconcile
<1> QED
  BY <1>1, <1>2, Zenon DEF TypeInv

\* Every step keeps the types.
LEMMA TypeStep ==
    ASSUME TypeInv, [Next]_vars
    PROVE TypeInv'
<1> USE KindFacts
<1>1. CASE UNCHANGED vars
  BY <1>1, Zenon DEF vars, TypeInv, Live
<1>2. CASE CreateOrUpdateConfigMap
  <2>1. cdWork \in Reconciliation
    BY <1>2, WorkFacts, Zenon DEF CreateOrUpdateConfigMap
  <2>2. cdWork' \in Reconciliation
    BY <1>2, <2>1, Zenon DEF CreateOrUpdateConfigMap, Reconciliation
  <2>3. ccm' \in [Children -> Data \cup {None}]
    BY <1>2, <2>1, Zenon DEF CreateOrUpdateConfigMap, Reconciliation, TypeInv
  <2> QED
    BY <1>2, <2>2, <2>3, Zenon DEF CreateOrUpdateConfigMap, TypeInv, Live
<1>3. CASE CreateConfigMapPropagation
  <2>1. cdWork \in Reconciliation
    BY <1>3, WorkFacts, Zenon DEF CreateConfigMapPropagation
  <2>2. cdWork' \in Reconciliation
    BY <1>3, <2>1, Zenon DEF CreateConfigMapPropagation, Reconciliation
  <2> QED
    BY <1>3, <2>2, Zenon DEF CreateConfigMapPropagation, TypeInv, Live
<1>4. CASE CreateVMUserCredentials
  <2>1. cdWork \in Reconciliation
    BY <1>4, WorkFacts, Zenon DEF CreateVMUserCredentials
  <2>2. cdWork.data.of \in Clusters /\ cdWork.of \in Children
    BY <2>1, Zenon DEF Reconciliation, Data
  <2>3. cred' \in [Children -> {Name[x] : x \in Clusters} \cup {None}]
    BY <1>4, <2>2, Zenon DEF CreateVMUserCredentials, TypeInv
  <2> QED
    BY <1>4, <2>3, Zenon DEF CreateVMUserCredentials, TypeInv, Live
<1>5. CASE ReconcileFails
  <2>1. cdWork.of \in Clusters
    BY <1>5, WorkFacts, Zenon DEF ReconcileFails, Reconciliation
  <2> QED
    BY <1>5, <2>1, Zenon DEF ReconcileFails, objects, TypeInv, Live
<1>6. ASSUME NEW r \in Sources, ReconcileConfigMap(r) PROVE TypeInv'
  <2>1. GetChildClusters(r) \subseteq Children /\ 1 \in DOMAIN Sinks
    BY ClusterAssumption DEF GetChildClusters
  <2>2. cmWork' \in Copying \cup {Idle}
    BY <1>6, <2>1, Zenon DEF ReconcileConfigMap, Copying, TypeInv
  <2> QED
    BY <1>6, <2>2, Zenon DEF ReconcileConfigMap, objects, TypeInv, Live
<1>7. ASSUME NEW c \in Children, UpdateChildConfigMap(c) PROVE TypeInv'
  <2>1. cmWork \in Copying
    BY <1>7, WorkFacts, Zenon DEF UpdateChildConfigMap
  <2>2. cmWork' \in Copying /\ ConfigData(cmWork.of, cmWork.ver) \in Data
    BY <1>7, <2>1, Zenon DEF UpdateChildConfigMap, Copying, ConfigData, Data
  <2>3. ccm' \in [Children -> Data \cup {None}]
    BY <1>7, <2>2, Zenon DEF UpdateChildConfigMap, TypeInv
  <2> QED
    BY <1>7, <2>2, <2>3, Zenon DEF UpdateChildConfigMap, TypeInv, Live
<1>8. CASE CreateOrUpdateSink
  <2>1. cmWork \in Copying
    BY <1>8, WorkFacts, Zenon DEF CreateOrUpdateSink
  <2>2. cmWork.of \in Sources /\ cmWork.sink \in 1 .. Len(Sinks) /\ cmWork.ver \in Nat
    BY <2>1, ClusterAssumption, Zenon DEF Copying
  <2>3. cmWork.sink # Len(Sinks) => cmWork.sink + 1 \in DOMAIN Sinks
    BY <2>2, ClusterAssumption
  <2>4. cmWork' \in Copying \cup {Idle}
    BY <1>8, <2>1, <2>3, Zenon DEF CreateOrUpdateSink, Copying
  <2>5. sinks' \in [Sources -> [DOMAIN Sinks -> Nat \cup {None}]]
    BY <1>8, <2>2, ClusterAssumption, Zenon DEF CreateOrUpdateSink, TypeInv
  <2> QED
    BY <1>8, <2>4, <2>5, Zenon DEF CreateOrUpdateSink, TypeInv, Live
<1>9. CASE ReconcileConfigMapFails
  <2>1. cmWork.of \in Sources
    BY <1>9, WorkFacts, Zenon DEF ReconcileConfigMapFails, Copying
  <2> QED
    BY <1>9, <2>1, Zenon DEF ReconcileConfigMapFails, objects, TypeInv, Live
<1>10. ASSUME NEW x \in Clusters, CreateCluster(x) PROVE TypeInv'
  <2>1. label' \in [Children -> Labels \cup {None}]
    BY <1>10, ZenonT(60) DEF CreateCluster, TypeInv
  <2> QED
    BY <1>10, <2>1, Zenon DEF CreateCluster, TypeInv, Live
<1>11. ASSUME NEW x \in Clusters, DeleteCluster(x) PROVE TypeInv'
  <2>1. NoSinks \in [DOMAIN Sinks -> Nat \cup {None}]
    BY Zenon DEF NoSinks
  <2> QED
    BY <1>11, <2>1, Zenon DEF DeleteCluster, TypeInv, Live
<1>12. ASSUME NEW c \in Children, SetLabel(c) PROVE TypeInv'
  BY <1>12 DEF SetLabel, TypeInv, Live
<1>13. ASSUME NEW r \in Regionals, Annotate(r) PROVE TypeInv'
  <2>1. PICK v \in IF Revert THEN 0 .. spec[r] + 1 ELSE {spec[r] + 1} : spec' = [spec EXCEPT ![r] = v]
    BY <1>13, Zenon DEF Annotate
  <2>2. v \in Nat
    BY <2>1 DEF TypeInv
  <2> QED
    BY <1>13, <2>1, <2>2, ZenonT(60) DEF Annotate, TypeInv, Live
<1>14. ASSUME NEW r \in Sources, Watch(r) PROVE TypeInv'
  BY <1>14, Zenon DEF Watch, TypeInv, Live
<1>15. CASE Resync
  BY <1>15, Zenon DEF Resync, objects, TypeInv, Live, HasConfigMap
<1>16. CASE Restart
  BY <1>16, Zenon DEF Restart, TypeInv, Live
<1> QED
  BY <1>1, <1>2, <1>3, <1>4, <1>5, <1>6, <1>7, <1>8, <1>9, <1>10, <1>11, <1>12, <1>13, <1>14,
     <1>15, <1>16, ReconcileType, Zenon DEF Next, ControllerStep, Failure, UserStep

\* The types hold at first.
LEMMA TypeInit == ASSUME Init PROVE TypeInv
<1>1. 0 \in Nat /\ NoSinks \in [DOMAIN Sinks -> Nat \cup {None}]
  BY Zenon DEF NoSinks
<1> QED
  BY <1>1, KindFacts, Zenon DEF Init, TypeInv, Live

\* What every step does to the ClusterDeployment controller's worker.
LEMMA WorkStep ==
    ASSUME TypeInv, [Next]_vars
    PROVE \/ cdWork' = Idle
          \/ cdWork # Idle /\ cdWork'.of = cdWork.of /\ cdWork'.data = cdWork.data
             /\ cdQueue \subseteq cdQueue' /\ cdWork' # Idle
          \/ \E c \in Children \cap Live : c \in cdQueue /\ ReconcileChild(c) /\ Reconcile(c)
<1>1. CASE CreateOrUpdateConfigMap \/ CreateConfigMapPropagation
  <2>1. cdWork \in Reconciliation /\ cdWork # Idle /\ cdQueue' = cdQueue
    BY <1>1, WorkFacts, Zenon DEF CreateOrUpdateConfigMap, CreateConfigMapPropagation
  <2>2. cdWork'.at \in {"propagation", "credentials"} /\ cdWork'.of = cdWork.of /\ cdWork'.data = cdWork.data
    BY <1>1, <2>1, Zenon DEF CreateOrUpdateConfigMap, CreateConfigMapPropagation, Reconciliation
  <2> QED
    BY <2>1, <2>2, WorkFacts, Zenon DEF Idle
<1>2. CASE CreateVMUserCredentials \/ ReconcileFails \/ Restart
  BY <1>2, Zenon DEF CreateVMUserCredentials, ReconcileFails, Restart
<1>3. ASSUME NEW x \in Clusters, Reconcile(x)
      PROVE \/ cdWork' = Idle
            \/ \E c \in Children \cap Live : c \in cdQueue /\ ReconcileChild(c) /\ Reconcile(c)
  BY <1>3, Zenon DEF Reconcile, CleanupPropagation, AddClusterNameLabel, ReconcileRegional, ReconcileChild, TypeInv
<1>4. CASE \/ \E r \in Sources : ReconcileConfigMap(r)
           \/ \E c \in Children : UpdateChildConfigMap(c)
           \/ CreateOrUpdateSink \/ ReconcileConfigMapFails \/ UserStep
           \/ (\E r \in Sources : Watch(r)) \/ Resync \/ UNCHANGED vars
  <2>1. cdWork' = cdWork /\ cdQueue \subseteq cdQueue'
    BY <1>4, Zenon DEF ReconcileConfigMap, UpdateChildConfigMap, CreateOrUpdateSink, ReconcileConfigMapFails,
                UserStep, CreateCluster, DeleteCluster, SetLabel, Annotate, Watch, Resync, vars
  <2> QED
    BY <2>1, Zenon
<1> QED
  BY <1>1, <1>2, <1>3, <1>4, Zenon DEF Next, ControllerStep, Failure

-----------------------------------------------------------------------------
(* Propagations.                                                           *)

\* What every step does to the life of a cluster and to its request.
LEMMA QueueStep ==
    ASSUME TypeInv, [Next]_vars, NEW c \in Clusters, c \in Live \cup cdQueue \cup lost
    PROVE \/ c \in Live' \cup cdQueue' \cup lost'
          \/ CleanupPropagation(c)
<1>1. ASSUME NEW x \in Clusters, Reconcile(x)
      PROVE c \in Live' \cup cdQueue' \cup lost' \/ CleanupPropagation(c)
  <2>1. Live' = Live /\ lost' = lost
    BY <1>1, Zenon DEF Reconcile, Live
  <2>2. CASE CleanupPropagation(x)
    BY <1>1, <2>1, <2>2, Zenon DEF CleanupPropagation
  <2>3. CASE AddClusterNameLabel(x) \/ ReconcileRegional(x) \/ ReconcileChild(x)
    BY <1>1, <2>1, <2>3, Zenon DEF AddClusterNameLabel, ReconcileRegional, ReconcileChild, TypeInv
  <2> QED
    BY <1>1, <2>2, <2>3, Zenon DEF Reconcile
<1>2. CASE CreateOrUpdateConfigMap \/ CreateConfigMapPropagation \/ CreateVMUserCredentials
  BY <1>2, Zenon DEF CreateOrUpdateConfigMap, CreateConfigMapPropagation, CreateVMUserCredentials, Live
<1>3. CASE ReconcileFails \/ ReconcileConfigMapFails \/ Restart
  BY <1>3, Zenon DEF ReconcileFails, ReconcileConfigMapFails, Restart, objects, Live
<1>4. CASE \/ \E r \in Sources : ReconcileConfigMap(r)
           \/ \E d \in Children : UpdateChildConfigMap(d)
           \/ CreateOrUpdateSink \/ (\E r \in Sources : Watch(r)) \/ Resync \/ UNCHANGED vars
  BY <1>4, Zenon DEF ReconcileConfigMap, UpdateChildConfigMap, CreateOrUpdateSink, Watch, Resync, vars,
              objects, Live
<1>5. CASE UserStep
  <2>1. ASSUME NEW x \in Clusters, CreateCluster(x) \/ DeleteCluster(x) PROVE c \in Live' \cup cdQueue' \cup lost'
    BY <2>1, Zenon DEF CreateCluster, DeleteCluster, Live, TypeInv
  <2>2. CASE (\E d \in Children : SetLabel(d)) \/ (\E r \in Regionals : Annotate(r))
    BY <2>2, Zenon DEF SetLabel, Annotate, Live
  <2> QED
    BY <1>5, <2>1, <2>2, Zenon DEF UserStep
<1> QED
  BY <1>1, <1>2, <1>3, <1>4, <1>5, Zenon DEF Next, ControllerStep, Failure

\* A cluster that was there is there, or its deletion is waiting for the controller.
LEMMA LifeStep ==
    ASSUME TypeInv, [Next]_vars, NEW c \in Live
    PROVE c \in Live' \cup cdQueue'
<1>1. CASE life' = life
  BY <1>1, Zenon DEF Live
<1>2. ASSUME NEW x \in Clusters, CreateCluster(x) \/ DeleteCluster(x) PROVE c \in Live' \cup cdQueue'
  BY <1>2, Zenon DEF CreateCluster, DeleteCluster, Live, TypeInv
<1> QED
  BY <1>1, <1>2, Zenon DEF Next, ControllerStep, Failure, UserStep, Reconcile, CreateOrUpdateConfigMap,
     CreateConfigMapPropagation, CreateVMUserCredentials, ReconcileFails, ReconcileConfigMapFails,
     Restart, ReconcileConfigMap, UpdateChildConfigMap, CreateOrUpdateSink, SetLabel, Annotate,
     Watch, Resync, vars, objects

\* A cluster under reconciliation stays there, or its deletion waits.
LEMMA DeletionsStep ==
    ASSUME TypeInv, Deletions, [Next]_vars
    PROVE Deletions'
<1>1. CASE cdWork' = Idle
  BY <1>1, Zenon DEF Deletions
<1>2. CASE cdWork # Idle /\ cdWork'.of = cdWork.of /\ cdQueue \subseteq cdQueue'
  <2>1. PICK c : c = cdWork.of /\ c \in Children
    BY <1>2, WorkFacts, Zenon DEF Reconciliation
  <2>2. c \in Clusters /\ c \in Live \cup cdQueue
    BY <1>2, <2>1, KindFacts, Zenon DEF Deletions
  <2>3. c \in Live' \cup cdQueue'
    <3>1. CASE c \in cdQueue
      BY <1>2, <3>1, Zenon
    <3>2. CASE c \in Live
      BY <2>2, <3>2, LifeStep, Zenon
    <3> QED
      BY <2>2, <3>1, <3>2, Zenon
  <2> QED
    BY <1>2, <2>1, <2>3, Zenon DEF Deletions
<1>3. ASSUME NEW c \in Children \cap Live, ReconcileChild(c), Reconcile(c) PROVE Deletions'
  <2>1. cdWork'.of = c /\ Live' = Live
    BY <1>3 DEF ReconcileChild, Reconcile, Live
  <2> QED
    BY <1>3, <2>1, Zenon DEF Deletions
<1> QED
  BY <1>1, <1>2, <1>3, WorkStep, Zenon

\* Every step keeps each propagation with a child, or with a deletion.
LEMMA TidiedStep ==
    ASSUME TypeInv, Deletions, PropagationTidied, [Next]_vars
    PROVE PropagationTidied'
<1> SUFFICES ASSUME NEW n \in prop'
             PROVE \E c \in Children : /\ Name[c] = n /\ KcmRegion[c] # None
                                       /\ c \in Live' \cup cdQueue' \cup lost'
  BY Zenon DEF PropagationTidied
<1>1. CASE n \in prop
  <2>1. PICK c \in Children : Name[c] = n /\ KcmRegion[c] # None /\ c \in Live \cup cdQueue \cup lost
    BY <1>1, Zenon DEF PropagationTidied
  <2>2. ~ CleanupPropagation(c)
    BY <2>1, Zenon DEF CleanupPropagation
  <2> QED
    BY <2>1, <2>2, QueueStep, KindFacts, Zenon
<1>2. CASE n \notin prop
  <2>1. CreateConfigMapPropagation
    BY <1>2, Zenon DEF Next, ControllerStep, Failure, UserStep, Reconcile, CreateOrUpdateConfigMap,
       CleanupPropagation, AddClusterNameLabel, ReconcileRegional, ReconcileChild,
       CreateVMUserCredentials, ReconcileFails, ReconcileConfigMapFails,
       Restart, ReconcileConfigMap, UpdateChildConfigMap, CreateOrUpdateSink, SetLabel, Annotate,
       CreateCluster, DeleteCluster, Watch, Resync, vars, objects
  <2>2. PICK c : c = cdWork.of /\ c \in Children /\ cdWork # Idle
    BY <2>1, WorkFacts, Zenon DEF CreateConfigMapPropagation, Reconciliation
  <2>3. Name[c] = n /\ KcmRegion[c] # None
    BY <1>2, <2>1, <2>2, Zenon DEF CreateConfigMapPropagation
  <2>4. c \in Live' \cup cdQueue'
    BY <2>1, <2>2, Zenon DEF Deletions, CreateConfigMapPropagation, Live
  <2> QED
    BY <2>2, <2>3, <2>4, Zenon
<1> QED
  BY <1>1, <1>2, Zenon

-----------------------------------------------------------------------------
(* Placement.                                                              *)

\* The rule of a child does not change while users do not change its labels.
LEMMA RuleKept ==
    ASSUME ~Relabel, TypeInv, [Next]_vars, NEW c \in Children, life[c] # "absent"
    PROVE label'[c] = label[c] /\ life'[c] # "absent"
<1>1. ASSUME NEW x \in Clusters, CreateCluster(x) PROVE label'[c] = label[c] /\ life'[c] # "absent"
  BY <1>1 DEF CreateCluster, TypeInv
<1>2. ASSUME NEW x \in Clusters, DeleteCluster(x) PROVE label'[c] = label[c] /\ life'[c] # "absent"
  BY <1>2, KindFacts, Zenon DEF DeleteCluster, TypeInv
<1>3. CASE label' = label /\ life' = life
  BY <1>3, Zenon
<1> QED
  BY <1>1, <1>2, <1>3, Zenon DEF Next, ControllerStep, Failure, UserStep, Reconcile, CreateOrUpdateConfigMap,
     CreateConfigMapPropagation, CreateVMUserCredentials, ReconcileFails, ReconcileConfigMapFails,
     Restart, ReconcileConfigMap, UpdateChildConfigMap, CreateOrUpdateSink, SetLabel, Annotate,
     Watch, Resync, vars, objects

\* Discovery goes by the rule.
LEMMA DiscoveryRule ==
    ASSUME NEW c \in Children, NEW r \in GetRegionalConfigMap(c)
    PROVE Rule(label[c], c, r)
  BY Zenon DEF GetRegionalConfigMap, DiscoverByLabel, DiscoverByLocation, LocationMatches, Rule

\* So does the list of children of a regional cluster.
LEMMA ChildrenRule ==
    ASSUME NEW r \in Sources, NEW c \in GetChildClusters(r)
    PROVE Rule(label[c], c, r) /\ c \in Children /\ life[c] = "live"
<1>1. c \in Children /\ c \in Live
  BY Zenon DEF GetChildClusters
<1>2. CASE r \in Management
  BY <1>1, <1>2, Zenon DEF Rule, Live
<1>3. CASE label[c] = [name |-> Name[r], namespace |-> Namespace[r]]
  <2>1. label[c].name = Name[r]
    BY <1>3
  <2>2. label[c] # None
    BY <1>3, ClusterAssumption, KindFacts, Zenon
  <2> QED
    BY <1>1, <2>1, <2>2, Zenon DEF Rule, Live
<1>4. CASE Cloud[c] = Cloud[r] /\ LocationIsTheSame(r, c) /\ (label[c] # None => label[c].name = Name[r])
  <2>1. LocationIsTheSame(c, r)
    BY <1>4, Zenon DEF LocationIsTheSame
  <2> QED
    BY <1>1, <1>4, <2>1, Zenon DEF Rule, Live
<1> QED
  BY <1>2, <1>3, <1>4, Zenon DEF GetChildClusters

\* Every step of either controller keeps the placement by the rule.
LEMMA PlacedStep ==
    ASSUME ~Relabel, TypeInv, Placed, [Next]_vars
    PROVE Placed'
<1>1. \A c \in Children, r \in Sources :
        life[c] # "absent" /\ Rule(label[c], c, r) => life'[c] # "absent" /\ Rule(label'[c], c, r)
  BY RuleKept, Zenon DEF Rule
<1>2. ASSUME NEW c \in Children, ccm'[c] # None
      PROVE life'[c] # "absent" /\ Rule(label'[c], c, ccm'[c].of)
  <2>1. CASE ccm'[c] = ccm[c]
    <3>1. ccm[c].of \in Sources
      BY <1>2, <2>1, Zenon DEF TypeInv, Data
    <3>2. PICK r \in Sources : r = ccm[c].of /\ life[c] # "absent" /\ Rule(label[c], c, r)
      BY <1>2, <2>1, <3>1, Zenon DEF Placed
    <3> QED
      BY <1>1, <2>1, <3>2, Zenon DEF Rule
  <2>2. CASE CreateOrUpdateConfigMap /\ ccm'[c] # ccm[c]
    <3>1. cdWork # Idle /\ cdWork.of = c /\ ccm'[c] = cdWork.data /\ cdWork.data.of \in Sources
      BY <2>2, WorkFacts, Zenon DEF CreateOrUpdateConfigMap, Reconciliation, Data, TypeInv
    <3>2. PICK r \in Sources : r = cdWork.data.of /\ life[c] # "absent" /\ Rule(label[c], c, r)
      BY <3>1, Zenon DEF Placed
    <3> QED
      BY <1>1, <3>1, <3>2, Zenon DEF Rule
  <2>3. ASSUME NEW d \in Children, UpdateChildConfigMap(d), ccm'[c] # ccm[c]
        PROVE life'[c] # "absent" /\ Rule(label'[c], c, ccm'[c].of)
    <3>1. cmWork # Idle /\ d = c /\ c \in cmWork.todo /\ ccm'[c] = ConfigData(cmWork.of, cmWork.ver)
          /\ cmWork.of \in Sources
      BY <1>2, <2>3, WorkFacts, Zenon DEF UpdateChildConfigMap, Copying, TypeInv
    <3>2. PICK r \in Sources : r = cmWork.of /\ life[c] # "absent" /\ Rule(label[c], c, r)
      BY <3>1, Zenon DEF Placed
    <3> QED
      BY <1>1, <3>1, <3>2, SMTT(20) DEF Rule, ConfigData
  <2>4. ASSUME NEW x \in Clusters, DeleteCluster(x) PROVE ccm'[c] = ccm[c]
    BY <1>2, <2>4, Zenon DEF DeleteCluster
  <2> QED
    BY <2>1, <2>2, <2>3, <2>4, Zenon DEF Next, ControllerStep, Failure, UserStep, Reconcile,
       CreateConfigMapPropagation, CreateVMUserCredentials, ReconcileFails, ReconcileConfigMapFails,
       Restart, ReconcileConfigMap, CreateOrUpdateSink, SetLabel, Annotate,
       CreateCluster, Watch, Resync, vars, objects
<1>3. cdWork' # Idle => life'[cdWork'.of] # "absent" /\ Rule(label'[cdWork'.of], cdWork'.of, cdWork'.data.of)
  <2>1. CASE cdWork # Idle /\ cdWork'.of = cdWork.of /\ cdWork'.data = cdWork.data
    <3>1. PICK c \in Children : \E r \in Sources :
            c = cdWork.of /\ r = cdWork.data.of /\ life[c] # "absent" /\ Rule(label[c], c, r)
      BY <2>1, WorkFacts, Zenon DEF Placed, Reconciliation, Data
    <3>2. PICK r \in Sources : c = cdWork.of /\ r = cdWork.data.of /\ life[c] # "absent" /\ Rule(label[c], c, r)
      BY <3>1, Zenon
    <3> QED
      BY <1>1, <2>1, <3>2, ZenonT(60) DEF Rule
  <2>2. ASSUME NEW c \in Children \cap Live, ReconcileChild(c), Reconcile(c)
        PROVE life'[cdWork'.of] # "absent" /\ Rule(label'[cdWork'.of], cdWork'.of, cdWork'.data.of)
    <3>1. PICK r \in GetRegionalConfigMap(c) :
            cdWork' = [at |-> "config", of |-> c, data |-> ConfigData(r, seen[r])]
      BY <2>2, Zenon DEF ReconcileChild
    <3>2. r \in Sources /\ life[c] # "absent" /\ Rule(label[c], c, r)
      BY DiscoveryRule, DiscoveryFacts, Zenon DEF Live
    <3>3. cdWork'.of = c /\ cdWork'.data.of = r
      BY <3>1, Zenon DEF ConfigData
    <3> QED
      BY <1>1, <3>2, <3>3, Zenon DEF Rule
  <2> QED
    BY <2>1, <2>2, WorkStep, Zenon
<1>4. cmWork' # Idle => \A c \in cmWork'.todo : life'[c] # "absent" /\ Rule(label'[c], c, cmWork'.of)
  <2>1. CASE cmWork # Idle /\ cmWork'.of = cmWork.of /\ cmWork'.todo \subseteq cmWork.todo
    <3>1. PICK r \in Sources : r = cmWork.of
      BY <2>1, WorkFacts, Zenon DEF Copying
    <3>2. \A c \in cmWork'.todo : c \in Children /\ life[c] # "absent" /\ Rule(label[c], c, r)
      BY <2>1, <3>1, WorkFacts, Zenon DEF Placed, Copying
    <3> QED
      BY <1>1, <2>1, <3>1, <3>2, ZenonT(60) DEF Rule
  <2>2. CASE \E r \in Sources : ReconcileConfigMap(r)
    <3>1. PICK r \in Sources : ReconcileConfigMap(r)
      BY <2>2, Zenon
    <3>2. cmWork' # Idle => cmWork'.of = r /\ cmWork'.todo = GetChildClusters(r)
      BY <3>1, Zenon DEF ReconcileConfigMap
    <3>3. \A c \in GetChildClusters(r) : c \in Children /\ life[c] # "absent" /\ Rule(label[c], c, r)
      BY ChildrenRule, Zenon
    <3> QED
      BY <1>1, <3>2, <3>3 DEF Rule
  <2>3. CASE cmWork' = Idle
    BY <2>3, Zenon
  <2>4. (\E c \in Children : UpdateChildConfigMap(c)) \/ CreateOrUpdateSink =>
          \/ cmWork' = Idle
          \/ cmWork # Idle /\ cmWork'.of = cmWork.of /\ cmWork'.todo \subseteq cmWork.todo
    BY WorkFacts, ZenonT(60) DEF UpdateChildConfigMap, CreateOrUpdateSink, Copying
  <2>5. CASE cmWork' = cmWork
    BY <2>1, <2>3, <2>5, Zenon
  <2> QED
    BY <2>1, <2>2, <2>3, <2>4, <2>5, Zenon DEF Next, ControllerStep, Failure, UserStep, Reconcile,
       CreateOrUpdateConfigMap, CreateConfigMapPropagation, CreateVMUserCredentials,
       ReconcileFails, ReconcileConfigMapFails, Restart, SetLabel, Annotate,
       CreateCluster, DeleteCluster, Watch, Resync, vars, objects
<1> QED
  BY <1>2, <1>3, <1>4, Zenon DEF Placed

-----------------------------------------------------------------------------
(* Credentials and propagation of the children that are there.             *)

\* Where locations do not overlap, the rule gives a child one name.
LEMMA OneName ==
    ASSUME Separate, NEW l, NEW c, NEW r \in Sources, NEW s \in Sources, Rule(l, c, r), Rule(l, c, s)
    PROVE Name[r] = Name[s]
<1>1. r \in Regionals /\ s \in Regionals
  BY Zenon DEF Separate, Sources
<1>2. CASE l # None
  BY <1>2, Zenon DEF Rule, Separate
<1>3. CASE l = None
  <2>1. Cloud[r] = Cloud[c] /\ Cloud[s] = Cloud[c] /\ LocationIsTheSame(c, r) /\ LocationIsTheSame(c, s)
    BY <1>3, Zenon DEF Rule, Separate
  <2>2. LocationIsTheSame(r, s)
    BY <2>1, Zenon DEF LocationIsTheSame
  <2> QED
    BY <1>1, <2>1, <2>2, Zenon DEF Separate
<1> QED
  BY <1>2, <1>3, Zenon

\* A propagation is removed only between reconciliations, for a cluster that is not there.
LEMMA PropStep ==
    ASSUME TypeInv, [Next]_vars
    PROVE \/ prop \subseteq prop'
          \/ \E x \in Clusters : /\ life[x] # "live" /\ prop' = prop \ {Name[x]}
                                 /\ cdWork = Idle /\ cdWork' = Idle
<1>1. CASE \E x \in Clusters : Reconcile(x) /\ CleanupPropagation(x)
  BY <1>1, Zenon DEF Reconcile, CleanupPropagation
<1>2. CASE prop \subseteq prop'
  BY <1>2, Zenon
<1> QED
  BY <1>1, <1>2, Zenon DEF Next, ControllerStep, Failure, UserStep, Reconcile, CreateOrUpdateConfigMap,
     AddClusterNameLabel, ReconcileRegional, ReconcileChild, CreateConfigMapPropagation,
     CreateVMUserCredentials, ReconcileFails, ReconcileConfigMapFails,
     Restart, ReconcileConfigMap, UpdateChildConfigMap, CreateOrUpdateSink, SetLabel, Annotate,
     CreateCluster, DeleteCluster, Watch, Resync, vars, objects

\* A child that is at rest after a step was at rest before it, or its reconciliation has
\* just ended.
LEMMA RestStep ==
    ASSUME TypeInv, [Next]_vars, NEW c \in Children \cap Live', ccm'[c] # None, c \notin cdQueue',
           cdWork' = Idle \/ cdWork'.of # c
    PROVE /\ c \in Live /\ ccm[c] # None /\ c \notin cdQueue
          /\ \/ CreateVMUserCredentials /\ cdWork.of = c
             \/ cred'[c] = cred[c] /\ (cdWork = Idle \/ cdWork.of # c)
<1> DEFINE Goal == /\ c \in Live /\ ccm[c] # None /\ c \notin cdQueue
                   /\ \/ CreateVMUserCredentials /\ cdWork.of = c
                      \/ cred'[c] = cred[c] /\ (cdWork = Idle \/ cdWork.of # c)
<1>0. c \in Clusters /\ c \notin Regionals
  BY KindFacts, Zenon
<1>1. ASSUME NEW x \in Clusters, Reconcile(x) PROVE Goal
  <2>1. UNCHANGED <<life, ccm, cred>> /\ cdWork = Idle /\ Live' = Live
    BY <1>1, Zenon DEF Reconcile, Live
  <2>2. c \notin cdQueue
    <3>1. CASE CleanupPropagation(x)
      BY <2>1, <3>1, Zenon DEF CleanupPropagation, Live
    <3>2. CASE AddClusterNameLabel(x)
      BY <3>2, Zenon DEF AddClusterNameLabel
    <3>3. CASE ReconcileRegional(x)
      BY <1>0, <3>3, Zenon DEF ReconcileRegional
    <3>4. CASE ReconcileChild(x)
      <4>1. cdWork'.at = "config" /\ cdWork'.of = x
        BY <3>4 DEF ReconcileChild
      <4>2. cdWork' # Idle
        BY <4>1 DEF Idle
      <4> QED
        BY <3>4, <4>1, <4>2, Zenon DEF ReconcileChild
    <3> QED
      BY <1>1, <3>1, <3>2, <3>3, <3>4, Zenon DEF Reconcile
  <2> QED
    BY <2>1, <2>2, Zenon
<1>2. CASE CreateOrUpdateConfigMap \/ CreateConfigMapPropagation
  <2>1. cdWork'.of = cdWork.of /\ cdWork' # Idle
    <3>1. cdWork \in Reconciliation
      BY <1>2, WorkFacts, Zenon DEF CreateOrUpdateConfigMap, CreateConfigMapPropagation
    <3>2. cdWork'.at \in {"propagation", "credentials"} /\ cdWork'.of = cdWork.of
      BY <1>2, <3>1, Zenon DEF CreateOrUpdateConfigMap, CreateConfigMapPropagation, Reconciliation
    <3> QED
      BY <3>2 DEF Idle
  <2> QED
    BY <1>2, <2>1, Zenon DEF CreateOrUpdateConfigMap, CreateConfigMapPropagation, Live, TypeInv
<1>3. CASE CreateVMUserCredentials
  BY <1>3, Zenon DEF CreateVMUserCredentials, Live, TypeInv
<1>4. CASE ReconcileFails
  BY <1>4, Zenon DEF ReconcileFails, objects, Live
<1>5. CASE Restart
  BY <1>5, Zenon DEF Restart, Live
<1>6. ASSUME NEW d \in Children, UpdateChildConfigMap(d) PROVE Goal
  BY <1>6, Zenon DEF UpdateChildConfigMap, Live, TypeInv
<1>7. CASE \/ \E r \in Sources : ReconcileConfigMap(r)
           \/ CreateOrUpdateSink \/ ReconcileConfigMapFails
           \/ (\E r \in Sources : Watch(r)) \/ Resync \/ UNCHANGED vars
           \/ (\E d \in Children : SetLabel(d)) \/ (\E r \in Regionals : Annotate(r))
  BY <1>7, Zenon DEF ReconcileConfigMap, CreateOrUpdateSink, ReconcileConfigMapFails, Watch, Resync, vars,
              SetLabel, Annotate, objects, Live
<1>8. ASSUME NEW x \in Clusters, CreateCluster(x) PROVE Goal
  BY <1>0, <1>8, Zenon DEF CreateCluster, Live, TypeInv
<1>9. ASSUME NEW x \in Clusters, DeleteCluster(x) PROVE Goal
  BY <1>0, <1>9, Zenon DEF DeleteCluster, Live, TypeInv
<1> QED
  BY <1>1, <1>2, <1>3, <1>4, <1>5, <1>6, <1>7, <1>8, <1>9, Zenon
     DEF Next, ControllerStep, Failure, UserStep

\* A child that has a ConfigMap and waits for nothing stays provisioned.
LEMMA SentStep ==
    ASSUME Separate, ~Relabel, TypeInv, Placed, Sent, [Next]_vars
    PROVE Sent'
<1>1. ASSUME NEW c \in Children \cap Live', ccm'[c] # None, c \notin cdQueue',
             cdWork' = Idle \/ cdWork'.of # c
      PROVE cred'[c] = Name[ccm'[c].of] /\ (KcmRegion[c] # None => Name[c] \in prop')
  <2>1. /\ c \in Live /\ ccm[c] # None /\ c \notin cdQueue
        /\ \/ CreateVMUserCredentials /\ cdWork.of = c
           \/ cred'[c] = cred[c] /\ (cdWork = Idle \/ cdWork.of # c)
    BY <1>1, RestStep, Zenon
  <2>2. Name[ccm'[c].of] = Name[ccm[c].of]
    <3>1. Placed'
      BY PlacedStep, Zenon
    <3>2. ccm[c].of \in Sources /\ Rule(label[c], c, ccm[c].of) /\ life[c] # "absent"
      BY <2>1, Zenon DEF TypeInv, Data, Placed
    <3>3. ccm'[c].of \in Sources /\ Rule(label'[c], c, ccm'[c].of)
      BY <1>1, <3>1, TypeStep, Zenon DEF TypeInv, Data, Placed
    <3>4. label'[c] = label[c]
      BY <3>2, RuleKept, Zenon
    <3> QED
      BY <3>2, <3>3, <3>4, OneName, Zenon
  <2>3. CASE CreateVMUserCredentials /\ cdWork.of = c
    <3>1. cdWork # Idle /\ cdWork.at = "credentials" /\ cdWork.data.of \in Sources
      BY <2>3, WorkFacts, Zenon DEF CreateVMUserCredentials, Reconciliation, Data
    <3>2. cred'[c] = Name[cdWork.data.of] /\ prop' = prop
      BY <2>3, Zenon DEF CreateVMUserCredentials, Separate, TypeInv
    <3>3. Rule(label[c], c, cdWork.data.of) /\ Rule(label[c], c, ccm[c].of) /\ ccm[c].of \in Sources
      BY <2>1, <2>3, <3>1, Zenon DEF Placed, TypeInv, Data
    <3>4. Name[cdWork.data.of] = Name[ccm[c].of]
      BY <3>1, <3>3, OneName, Zenon
    <3> QED
      BY <2>2, <2>3, <3>1, <3>2, <3>4, Zenon DEF Sent
  <2>4. CASE cred'[c] = cred[c] /\ (cdWork = Idle \/ cdWork.of # c)
    <3>1. cred[c] = Name[ccm[c].of] /\ (KcmRegion[c] # None => Name[c] \in prop)
      BY <2>1, <2>4, Zenon DEF Sent
    <3>2. Name[c] \in prop => Name[c] \in prop'
      BY <2>1, PropStep, Zenon DEF Separate, Live
    <3> QED
      BY <2>2, <2>4, <3>1, <3>2, Zenon
  <2> QED
    BY <2>1, <2>3, <2>4, Zenon
<1>2. ASSUME cdWork' # Idle, cdWork'.at = "credentials", KcmRegion[cdWork'.of] # None
      PROVE Name[cdWork'.of] \in prop'
  <2>1. CASE CreateConfigMapPropagation
    <3>1. cdWork'.of = cdWork.of
      BY <2>1, WorkFacts, Zenon DEF CreateConfigMapPropagation, Reconciliation
    <3> QED
      BY <1>2, <2>1, <3>1 DEF CreateConfigMapPropagation
  <2>2. CASE CreateOrUpdateConfigMap
    <3>1. cdWork'.at = "propagation"
      BY <2>2, WorkFacts, Zenon DEF CreateOrUpdateConfigMap, Reconciliation
    <3> QED
      BY <1>2, <3>1, Zenon
  <2>3. CASE cdWork' = cdWork
    BY <1>2, <2>3, PropStep, Zenon DEF Sent
  <2>4. ASSUME NEW x \in Clusters, Reconcile(x) PROVE cdWork' = cdWork
    BY <1>2, <2>4, SMTT(20) DEF Reconcile, CleanupPropagation, AddClusterNameLabel, ReconcileRegional, ReconcileChild
  <2> QED
    BY <1>2, <2>1, <2>2, <2>3, <2>4, ZenonT(60) DEF Next, ControllerStep, Failure, UserStep,
       CreateVMUserCredentials, ReconcileFails, ReconcileConfigMapFails, Restart,
       ReconcileConfigMap, UpdateChildConfigMap, CreateOrUpdateSink, SetLabel, Annotate,
       CreateCluster, DeleteCluster, Watch, Resync, vars, objects
<1> QED
  BY <1>1, <1>2, Zenon DEF Sent

-----------------------------------------------------------------------------
(* The theorems about children.                                            *)

\* The propagation of a child's ConfigMap never outlives the child without a deletion
\* waiting for the controller, or lost by a restart: for every deployment, every order of
\* the controllers' steps and every failure (createConfigMapPropagation,
\* cleanupPropagation).
THEOREM PropagationTidiedHolds == Spec => []PropagationTidied
<1>1. Init => TypeInv /\ Deletions /\ PropagationTidied
  BY TypeInit, Zenon DEF Init, Deletions, PropagationTidied
<1>2. TypeInv /\ Deletions /\ PropagationTidied /\ [Next]_vars =>
        TypeInv' /\ Deletions' /\ PropagationTidied'
  BY TypeStep, DeletionsStep, TidiedStep, Zenon
<1> QED
  BY <1>1, <1>2, PTL DEF Spec

\* As long as users leave the labels of a child as they were when it was created, both
\* controllers place it by the rule.
LEMMA PlacedHolds == ASSUME ~Relabel PROVE Spec => [](TypeInv /\ Placed)
<1>1. Init => TypeInv /\ Placed
  BY TypeInit, Zenon DEF Init, Placed
<1>2. TypeInv /\ Placed /\ [Next]_vars => TypeInv' /\ Placed'
  BY TypeStep, PlacedStep, Zenon
<1> QED
  BY <1>1, <1>2, PTL DEF Spec

\* A child's ConfigMap holds the data of a regional cluster its label names or, without a
\* label, of one of its own cloud and location, whichever of the two controllers wrote it
\* last (ReconcileKofClusterRole, updateChildConfigMaps).
THEOREM PlacedByRuleHolds == ASSUME ~Relabel PROVE Spec => []PlacedByRule
<1>1. TypeInv /\ Placed => PlacedByRule
  BY Zenon DEF Placed, PlacedByRule, Rule, LocationIsTheSame
<1> QED
  BY <1>1, PlacedHolds, PTL

\* Where no two regional clusters are in one location, a child's credentials are at the
\* regional cluster it writes to, and its ConfigMap is propagated, whenever its
\* reconciliation is over: also after failures and restarts between the three writes
\* (createOrUpdateChildConfigMap, createConfigMapPropagation, createVMUser).
THEOREM ChildProvisionedHolds ==
    ASSUME Separate, ~Relabel
    PROVE Spec => []ChildProvisioned
<1>1. Init => Sent
  BY Zenon DEF Init, Sent
<1>2. TypeInv /\ Placed /\ Sent /\ [Next]_vars => Sent'
  BY SentStep, Zenon
<1>3. Sent => ChildProvisioned
  BY Zenon DEF Sent, ChildProvisioned
<1> QED
  BY <1>1, <1>2, <1>3, PlacedHolds, PTL DEF Spec

-----------------------------------------------------------------------------
(* Regional clusters.                                                      *)

\* Versions keep their order while users do not return to earlier annotations.
LEMMA VersionsStep ==
    ASSUME ~Revert, TypeInv, Versions, [Next]_vars
    PROVE Versions'
<1> SUFFICES ASSUME NEW r \in Regionals
             PROVE /\ life'[r] = "absent" => rcm'[r] = None /\ seen'[r] = None
                   /\ life'[r] = "live" =>
                        /\ rcm'[r] # None => rcm'[r] <= spec'[r]
                        /\ seen'[r] # None => rcm'[r] # None /\ seen'[r] <= rcm'[r]
                        /\ r \notin cdQueue' => rcm'[r] = spec'[r]
  BY Zenon DEF Versions
<1> DEFINE Goal == /\ life'[r] = "absent" => rcm'[r] = None /\ seen'[r] = None
                   /\ life'[r] = "live" =>
                        /\ rcm'[r] # None => rcm'[r] <= spec'[r]
                        /\ seen'[r] # None => rcm'[r] # None /\ seen'[r] <= rcm'[r]
                        /\ r \notin cdQueue' => rcm'[r] = spec'[r]
<1>0. /\ r \in Sources /\ r \in Clusters /\ r \notin Children
      /\ spec[r] \in Nat /\ rcm[r] \in Nat \cup {None} /\ seen[r] \in Nat \cup {None} /\ None \notin Nat
  BY KindFacts, ClusterAssumption, Zenon DEF TypeInv
<1>1. /\ life[r] = "absent" => rcm[r] = None /\ seen[r] = None
      /\ life[r] = "live" =>
           /\ rcm[r] # None => rcm[r] <= spec[r]
           /\ seen[r] # None => rcm[r] # None /\ seen[r] <= rcm[r]
           /\ r \notin cdQueue => rcm[r] = spec[r]
  BY Zenon DEF Versions
<1>2. ASSUME NEW x \in Clusters, Reconcile(x) PROVE Goal
  <2>1. life' = life /\ seen' = seen /\ spec' = spec
    BY <1>2, Zenon DEF Reconcile
  <2>2. CASE CleanupPropagation(x)
    BY <1>1, <2>1, <2>2, Zenon DEF CleanupPropagation
  <2>3. CASE AddClusterNameLabel(x)
    BY <1>1, <2>1, <2>3, Zenon DEF AddClusterNameLabel
  <2>4. CASE ReconcileChild(x)
    BY <1>0, <1>1, <2>1, <2>4, Zenon DEF ReconcileChild
  <2>5. CASE ReconcileRegional(x) /\ x # r
    <3>1. rcm'[r] = rcm[r] /\ (r \notin cdQueue' => r \notin cdQueue)
      BY <1>0, <2>5, Zenon DEF ReconcileRegional, TypeInv
    <3> QED
      BY <1>1, <2>1, <3>1, Zenon
  <2>6. CASE ReconcileRegional(x) /\ x = r
    <3>1. life[r] = "live"
      BY <2>6, Zenon DEF ReconcileRegional, TypeInv, Live
    <3>2. CASE seen[r] = spec[r] /\ rcm' = rcm
      <4>1. rcm[r] = spec[r]
        BY <1>0, <1>1, <3>1, <3>2, SMTT(20)
      <4> QED
        BY <1>0, <1>1, <2>1, <3>1, <3>2, <4>1, Zenon
    <3>3. CASE seen[r] = rcm[r] /\ rcm' = [rcm EXCEPT ![r] = spec[r]]
      <4>1. rcm'[r] = spec[r]
        BY <1>0, <3>3, Zenon DEF TypeInv
      <4> QED
        BY <1>0, <1>1, <2>1, <3>1, <3>3, <4>1
    <3> QED
      BY <2>6, <3>2, <3>3, Zenon DEF ReconcileRegional
  <2> QED
    BY <1>2, <2>2, <2>3, <2>4, <2>5, <2>6, Zenon DEF Reconcile
<1>3. CASE /\ UNCHANGED <<life, rcm, seen, spec>> /\ cdQueue \subseteq cdQueue'
  BY <1>1, <1>3, Zenon
<1>4. ASSUME NEW x \in Clusters, CreateCluster(x) PROVE Goal
  BY <1>0, <1>1, <1>4, Zenon DEF CreateCluster, TypeInv
<1>5. ASSUME NEW x \in Clusters, DeleteCluster(x) PROVE Goal
  <2>1. CASE x = r
    BY <1>0, <1>5, <2>1, Zenon DEF DeleteCluster, TypeInv
  <2>2. CASE x # r
    <3>1. UNCHANGED <<seen, spec>> /\ life'[r] = life[r] /\ rcm'[r] = rcm[r] /\ cdQueue \subseteq cdQueue'
      BY <1>0, <1>5, <2>2, Zenon DEF DeleteCluster, TypeInv
    <3> QED
      BY <1>1, <3>1, Zenon
  <2> QED
    BY <2>1, <2>2, Zenon
<1>6. ASSUME NEW s \in Regionals, Annotate(s) PROVE Goal
  <2>1. UNCHANGED <<life, rcm, seen>> /\ spec' = [spec EXCEPT ![s] = spec[s] + 1] /\ cdQueue' = cdQueue \cup {s}
    BY <1>6, Zenon DEF Annotate
  <2>2. CASE s = r
    <3>1. spec'[r] = spec[r] + 1
      BY <1>0, <2>1, <2>2, Zenon DEF TypeInv
    <3> QED
      BY <1>0, <1>1, <2>1, <2>2, <3>1, SMTT(20)
  <2>3. CASE s # r
    <3>1. spec'[r] = spec[r]
      BY <1>0, <2>1, <2>3, Zenon DEF TypeInv
    <3> QED
      BY <1>1, <2>1, <3>1, Zenon
  <2> QED
    BY <2>2, <2>3, Zenon
<1>7. ASSUME NEW s \in Sources, Watch(s) PROVE Goal
  <2>1. UNCHANGED <<life, rcm, spec, cdQueue>> /\ seen'[r] \in {seen[r], rcm[r]}
    BY <1>0, <1>7, Zenon DEF Watch, TypeInv
  <2> QED
    BY <1>0, <1>1, <2>1
<1>8. CASE Restart
  <2>1. UNCHANGED <<life, rcm, spec>> /\ seen' = rcm /\ cdQueue' = Live
    BY <1>8, Zenon DEF Restart
  <2> QED
    BY <1>0, <1>1, <2>1, SMTT(20) DEF Live
<1> QED
  BY <1>2, <1>3, <1>4, <1>5, <1>6, <1>7, <1>8, ZenonT(60) DEF Next, ControllerStep, Failure, UserStep,
     CreateOrUpdateConfigMap, CreateConfigMapPropagation, CreateVMUserCredentials,
     ReconcileFails, ReconcileConfigMapFails, ReconcileConfigMap, UpdateChildConfigMap,
     CreateOrUpdateSink, SetLabel, Resync, vars, objects

\* The sinks follow what the controller has read.
LEMMA SinksStep ==
    ASSUME ~Revert, TypeInv, Versions, SinksInv, [Next]_vars
    PROVE SinksInv'
<1> DEFINE Written(r, n) == \A i \in DOMAIN Sinks : i < n => sinks[r][i] = seen[r]
           All(r) == \A i \in DOMAIN Sinks : sinks[r][i] = seen[r]
<1> SUFFICES ASSUME NEW r \in Regionals, life'[r] = "live", seen'[r] # None, r \notin cmQueue'
             PROVE IF cmWork' # Idle /\ cmWork'.of = r
                   THEN cmWork'.ver = seen'[r] /\ \A i \in DOMAIN Sinks : i < cmWork'.sink => sinks'[r][i] = seen'[r]
                   ELSE \A i \in DOMAIN Sinks : sinks'[r][i] = seen'[r]
  BY Zenon DEF SinksInv
<1> DEFINE Goal == IF cmWork' # Idle /\ cmWork'.of = r
                   THEN cmWork'.ver = seen'[r] /\ \A i \in DOMAIN Sinks : i < cmWork'.sink => sinks'[r][i] = seen'[r]
                   ELSE \A i \in DOMAIN Sinks : sinks'[r][i] = seen'[r]
<1>0. r \in Sources /\ r \in Clusters /\ DOMAIN Sinks = 1 .. Len(Sinks) /\ Len(Sinks) \in Nat
  BY KindFacts, ClusterAssumption, Zenon
<1>1. ASSUME life[r] = "live", seen[r] # None, r \notin cmQueue
      PROVE IF cmWork # Idle /\ cmWork.of = r
            THEN cmWork.ver = seen[r] /\ Written(r, cmWork.sink)
            ELSE All(r)
  BY <1>1, Zenon DEF SinksInv
<1>2. ASSUME NEW s \in Sources, ReconcileConfigMap(s) PROVE Goal
  <2>1. UNCHANGED <<life, seen, sinks>> /\ cmQueue' = cmQueue \ {s} /\ cmWork = Idle
    BY <1>2, Zenon DEF ReconcileConfigMap, objects
  <2>2. CASE s = r
    <3>1. cmWork' = [at |-> "children", of |-> r, ver |-> seen[r], todo |-> GetChildClusters(r), sink |-> 1]
      BY <1>2, <2>1, <2>2, Zenon DEF ReconcileConfigMap
    <3>2. cmWork'.at = "children" /\ cmWork'.of = r /\ cmWork'.ver = seen[r] /\ cmWork'.sink = 1
      BY <3>1, Zenon
    <3>3. cmWork' # Idle
      BY <3>2 DEF Idle
    <3>4. \A i \in DOMAIN Sinks : ~ (i < 1)
      BY <1>0
    <3> QED
      BY <2>1, <3>2, <3>3, <3>4, Zenon
  <2>3. CASE s # r
    <3>1. All(r)
      BY <1>1, <2>1, <2>3, Zenon
    <3>2. cmWork' = Idle \/ cmWork'.of = s
      BY <1>2, Zenon DEF ReconcileConfigMap
    <3> QED
      BY <2>1, <2>3, <3>1, <3>2, Zenon
  <2> QED
    BY <2>2, <2>3, Zenon
<1>3. ASSUME NEW c \in Children, UpdateChildConfigMap(c) PROVE Goal
  <2>1. /\ UNCHANGED <<life, seen, sinks, cmQueue>> /\ cmWork # Idle /\ cmWork' # Idle
        /\ cmWork'.of = cmWork.of /\ cmWork'.ver = cmWork.ver /\ cmWork'.sink = cmWork.sink
    <3>1. cmWork # Idle /\ cmWork \in Copying
      BY <1>3, WorkFacts, Zenon DEF UpdateChildConfigMap
    <3>2. cmWork'.at = "children" /\ cmWork'.of = cmWork.of /\ cmWork'.ver = cmWork.ver /\ cmWork'.sink = cmWork.sink
      BY <1>3, <3>1, Zenon DEF UpdateChildConfigMap, Copying
    <3> QED
      BY <1>3, <3>1, <3>2, Zenon DEF UpdateChildConfigMap, Idle
  <2> QED
    BY <1>1, <2>1, Zenon
<1>4. CASE CreateOrUpdateSink
  <2>1. /\ UNCHANGED <<life, seen, rcm, cmQueue>> /\ cmWork # Idle /\ cmWork \in Copying
        /\ sinks' = [sinks EXCEPT ![cmWork.of][cmWork.sink] = IF rcm[cmWork.of] = None THEN None ELSE cmWork.ver]
        /\ cmWork' = IF cmWork.sink = Len(Sinks) THEN Idle ELSE [cmWork EXCEPT !.sink = @ + 1]
    BY <1>4, WorkFacts, Zenon DEF CreateOrUpdateSink
  <2>2. PICK n : n = cmWork.sink /\ n \in 1 .. Len(Sinks)
    BY <1>0, <2>1, Zenon DEF Copying
  <2>3. \/ n = Len(Sinks) /\ cmWork' = Idle
        \/ n # Len(Sinks) /\ cmWork' # Idle /\ cmWork'.of = cmWork.of /\ cmWork'.ver = cmWork.ver
           /\ cmWork'.sink = n + 1
    BY <2>1, <2>2, Zenon DEF Copying, Idle
  <2>4. CASE cmWork.of = r
    <3>1. rcm[r] # None /\ cmWork.ver = seen[r] /\ Written(r, n)
      BY <1>1, <2>1, <2>2, <2>4, Zenon DEF Versions
    <3>2. sinks[r] \in [DOMAIN Sinks -> Nat \cup {None}]
      BY <1>0, Zenon DEF TypeInv
    <3>3. sinks'[r] = [sinks[r] EXCEPT ![n] = seen[r]]
      BY <1>0, <2>1, <2>2, <2>4, <3>1, Zenon DEF TypeInv
    <3>4. \A i \in DOMAIN Sinks : i < n + 1 => sinks'[r][i] = seen[r]
      <4>1. ASSUME NEW i \in DOMAIN Sinks, i < n + 1 PROVE i = n \/ i < n
        BY <1>0, <2>2, <4>1
      <4> QED
        BY <1>0, <2>2, <3>1, <3>2, <3>3, <4>1, Zenon
    <3>5. n = Len(Sinks) => \A i \in DOMAIN Sinks : i < n + 1
      BY <1>0
    <3> QED
      BY <2>1, <2>3, <2>4, <3>1, <3>4, <3>5, Zenon
  <2>5. CASE cmWork.of # r
    <3>1. sinks'[r] = sinks[r]
      BY <1>0, <2>1, <2>5, Zenon DEF TypeInv
    <3>2. All(r)
      BY <1>1, <2>1, <2>5, Zenon
    <3> QED
      BY <2>1, <2>3, <2>5, <3>1, <3>2, Zenon
  <2> QED
    BY <2>4, <2>5, Zenon
<1>5. CASE ReconcileConfigMapFails
  <2>1. UNCHANGED <<life, seen, sinks>> /\ cmQueue' = cmQueue \cup {cmWork.of} /\ cmWork' = Idle /\ cmWork # Idle
    BY <1>5, Zenon DEF ReconcileConfigMapFails, objects
  <2> QED
    BY <1>1, <2>1, Zenon
<1>6. ASSUME NEW x \in Clusters, CreateCluster(x) PROVE Goal
  <2>1. UNCHANGED <<seen, sinks, cmQueue, cmWork>> /\ (x # r => life'[r] = life[r]) /\ (x = r => life[r] = "absent")
    BY <1>0, <1>6, Zenon DEF CreateCluster, TypeInv
  <2> QED
    BY <1>1, <2>1, Zenon DEF Versions
<1>7. ASSUME NEW x \in Clusters, DeleteCluster(x) PROVE Goal
  <2>1. UNCHANGED <<seen, cmQueue, cmWork>> /\ x # r /\ life'[r] = life[r] /\ sinks'[r] = sinks[r]
    BY <1>0, <1>7, Zenon DEF DeleteCluster, TypeInv
  <2> QED
    BY <1>1, <2>1, Zenon
<1>8. ASSUME NEW s \in Sources, Watch(s) PROVE Goal
  <2>1. UNCHANGED <<life, sinks, cmWork>> /\ cmQueue' = cmQueue \cup {s} /\ s # r /\ seen'[r] = seen[r]
    BY <1>0, <1>8, Zenon DEF Watch, TypeInv
  <2> QED
    BY <1>1, <2>1, Zenon
<1>9. CASE Restart
  BY <1>0, <1>9, Zenon DEF Restart
<1>10. CASE UNCHANGED <<life, seen, sinks, cmWork>> /\ cmQueue \subseteq cmQueue'
  BY <1>1, <1>10, Zenon
<1> QED
  BY <1>2, <1>3, <1>4, <1>5, <1>6, <1>7, <1>8, <1>9, <1>10, ZenonT(60) DEF Next, ControllerStep, Failure, UserStep,
     Reconcile, CreateOrUpdateConfigMap, CreateConfigMapPropagation, CreateVMUserCredentials,
     ReconcileFails, SetLabel, Annotate, Resync, vars, objects

\* When nothing is left to do, a regional cluster's ConfigMap and everything made from it
\* carry the endpoints of its current annotations, although the controllers read the
\* ConfigMap from a cache that lags and write only what differs from it
\* (createOrUpdateRegionalConfigMap, ConfigMapReconciler.Reconcile).
THEOREM RegionalSettlesHolds == ASSUME ~Revert PROVE Spec => []RegionalSettles
<1>1. Init => TypeInv /\ Versions /\ SinksInv
  <2> SUFFICES ASSUME Init PROVE Versions /\ SinksInv
    BY TypeInit, Zenon
  <2>1. \A r \in Regionals : r \in Sources /\ r \in Clusters /\ r \notin Management
    BY KindFacts, Zenon
  <2> QED
    BY <2>1, Zenon DEF Init, Versions, SinksInv
<1>2. TypeInv /\ Versions /\ SinksInv /\ [Next]_vars => TypeInv' /\ Versions' /\ SinksInv'
  BY TypeStep, VersionsStep, SinksStep, Zenon
<1>3. TypeInv /\ Versions /\ SinksInv => RegionalSettles
  <2> SUFFICES ASSUME TypeInv, Versions, SinksInv, Settled, NEW r \in Regionals \cap Live
               PROVE rcm[r] = spec[r] /\ \A i \in DOMAIN Sinks : sinks[r][i] = spec[r]
    BY Zenon DEF RegionalSettles
  <2>1. life[r] = "live" /\ spec[r] \in Nat /\ None \notin Nat
    BY KindFacts, ClusterAssumption, Zenon DEF Live, TypeInv
  <2>2. rcm[r] = spec[r] /\ seen[r] = spec[r]
    BY <2>1, Zenon DEF Versions, Settled
  <2>3. life[r] = "live" /\ seen[r] # None /\ r \notin cmQueue /\ cmWork = Idle
    BY <2>1, <2>2, Zenon DEF Settled
  <2>4. \A i \in DOMAIN Sinks : sinks[r][i] = seen[r]
    BY <2>3, Zenon DEF SinksInv
  <2> QED
    BY <2>2, <2>4, Zenon
<1> QED
  BY <1>1, <1>2, <1>3, PTL DEF Spec
=============================================================================
