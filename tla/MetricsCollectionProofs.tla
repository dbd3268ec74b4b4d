---------------------- MODULE MetricsCollectionProofs ----------------------
(***************************************************************************)
(* Proofs about the collection of metrics, for any clusters, regions,      *)
(* custom resources and pods, and any number of failed calls.              *)
(***************************************************************************)
EXTENDS MetricsCollection, FiniteSetTheorems, TLAPS

AnyResource == UNION {Range(Resources[c]) : c \in ClusterSet \cup {Local}}

----------------------------------------------------------------------------
(* The inductive invariant.                                                *)

\* The walk: regions and clusters still to visit have no goroutine yet.
Walk ==
  /\ main \in {"remote", "drain", "done"}
  /\ walker \in [pc : {"fetch", "region", "store", "other", "end"}, todo : Seq(ClusterSet)]
  /\ IsInjective(walker.todo)
  /\ walker.pc = "store" => walker.todo # <<>>
  /\ task \in [Tasks -> {"none", "client", "store", "end"}]
  /\ walker.pc \in {"fetch", "region", "store"} =>
       \A c \in ClusterSet : task[<<c, "other">>] = "none"
  /\ walker.pc = "other" =>
       \A c \in Range(walker.todo) : task[<<c, "other">>] = "none"
  /\ walker.pc = "fetch" => \A c \in ClusterSet : task[<<c, "child">>] = "none"
  /\ walker.pc \in {"region", "store"} =>
       \A r \in Range(walker.todo) : \A c \in Children(r) : task[<<c, "child">>] = "none"

\* A cluster gets a collector once, after its client was read.
Handed ==
  /\ \A j \in Tasks : task[j] \in {"none", "client"} => job[j].pc = "none"
  /\ walker.pc = "fetch" => \A c \in ClusterSet : job[<<c, "region">>].pc = "none"
  /\ walker.pc = "region" =>
       \A c \in Range(walker.todo) : job[<<c, "region">>].pc = "none"
  /\ walker.pc = "store" =>
       \A c \in Range(Tail(walker.todo)) : job[<<c, "region">>].pc = "none"

\* The collectors: the pods of what is still to do have no goroutine yet.
Collectors ==
  /\ job \in [Jobs -> [pc : {"none", "list", "pods", "status", "end"}, todo : Seq(AnyResource)]]
  /\ pod \in [PodJobs -> {"none", "health", "resources", "internal"}]
  /\ \A j \in Jobs :
       /\ Range(job[j].todo) \subseteq Range(Resources[j[1]]) /\ IsInjective(job[j].todo)
       /\ job[j].pc \in {"pods", "status"} => job[j].todo # <<>>
       /\ \A q \in PodJobs :
            q[1] = j /\ (job[j].pc \in {"none", "list"} \/ q[2] \in Range(job[j].todo)) =>
              pod[q] = "none"

\* The wait groups count the goroutines.
Counted ==
  /\ IsFiniteSet(Walking) /\ IsFiniteSet(Collecting) /\ IsFiniteSet(Sending)
  /\ walkWg = Cardinality(Walking) + (IF walker.pc = "end" THEN 0 ELSE 1)
  /\ wg = Cardinality(Collecting) + Cardinality(Sending)

\* The request goes on when they are at zero.
Closing ==
  /\ main # "remote" => walkWg = 0
  /\ closed => wg = 0 /\ main # "remote"

IInv == Walk /\ Handed /\ Collectors /\ Counted /\ Closing

----------------------------------------------------------------------------
(* Sequences and counting.                                                 *)

\* The elements of a list.
LEMMA RangeFacts == ASSUME NEW S, NEW s \in Seq(S) PROVE Range(s) \subseteq S
  BY DEF Range

\* Taking the first element of a list without duplicates.
LEMMA TailFacts ==
  ASSUME NEW S, NEW s \in Seq(S), s # <<>>, IsInjective(s)
  PROVE /\ s[1] \in Range(s) /\ s[1] \in S
        /\ Tail(s) \in Seq(S) /\ IsInjective(Tail(s))
        /\ Range(Tail(s)) = Range(s) \ {s[1]}
        /\ Len(s) = 1 <=> Tail(s) = <<>>
<1>1. Len(s) \in Nat \ {0} /\ DOMAIN s = 1..Len(s) /\ \A i \in 1..Len(s) : s[i] \in S
  OBVIOUS
<1>2. /\ Tail(s) \in Seq(S) /\ Len(Tail(s)) = Len(s) - 1 /\ DOMAIN Tail(s) = 1..(Len(s) - 1)
      /\ \A i \in 1..(Len(s) - 1) : Tail(s)[i] = s[i + 1]
  BY <1>1
<1>3. s[1] \in Range(s) /\ s[1] \in S
  BY <1>1 DEF Range
<1>4. IsInjective(Tail(s))
  BY <1>1, <1>2 DEF IsInjective
<1>5. Range(Tail(s)) \subseteq Range(s) \ {s[1]}
  <2> SUFFICES ASSUME NEW i \in 1..(Len(s) - 1) PROVE s[i + 1] \in Range(s) /\ s[i + 1] # s[1]
    BY <1>2 DEF Range
  <2>1. i + 1 \in 1..Len(s) /\ 1 \in 1..Len(s) /\ i + 1 # 1
    BY <1>1
  <2> QED
    BY <1>1, <2>1, Zenon DEF Range, IsInjective
<1>6. Range(s) \ {s[1]} \subseteq Range(Tail(s))
  <2> SUFFICES ASSUME NEW i \in 1..Len(s), s[i] # s[1] PROVE s[i] \in Range(Tail(s))
    BY <1>1, Zenon DEF Range
  <2>1. i - 1 \in 1..(Len(s) - 1) /\ (i - 1) + 1 = i
    BY <1>1
  <2>2. Tail(s)[i - 1] = s[i]
    BY <1>2, <2>1, Zenon
  <2> QED
    BY <1>2, <2>1, <2>2, Zenon DEF Range
<1>7. Len(s) = 1 <=> Tail(s) = <<>>
  <2>1. PICK t : t = Tail(s) /\ t \in Seq(S) /\ Len(t) = Len(s) - 1
    BY <1>2, Zenon
  <2>2. t = <<>> <=> Len(t) = 0
    <3>1. ASSUME Len(t) = 0 PROVE t = <<>>
      <4>1. t \in Seq(S) /\ Len(t) = 0
        BY <2>1, <3>1, Zenon
      <4> QED
        BY <4>1
    <3>2. Len(<<>>) = 0
      OBVIOUS
    <3> QED
      BY <3>1, <3>2, Zenon
  <2>3. Len(t) = 0 <=> Len(s) = 1
    BY <1>1, <2>1
  <2> QED
    BY <2>1, <2>2, <2>3, Zenon
<1> QED
  BY <1>2, <1>3, <1>4, <1>5, <1>6, <1>7, Zenon

\* One element more, or one less.
LEMMA CountFacts ==
  ASSUME NEW S, IsFiniteSet(S), NEW x
  PROVE /\ Cardinality(S) \in Nat
        /\ IsFiniteSet(S \cup {x}) /\ IsFiniteSet(S \ {x})
        /\ x \notin S => Cardinality(S \cup {x}) = Cardinality(S) + 1
        /\ x \in S => Cardinality(S \ {x}) = Cardinality(S) - 1 /\ Cardinality(S) >= 1
<1>1. Cardinality(S) \in Nat
  BY FS_CardinalityType, Zenon
<1>2. IsFiniteSet(S \cup {x}) /\ (x \notin S => Cardinality(S \cup {x}) = Cardinality(S) + 1)
  BY FS_AddElement, Zenon
<1>3. IsFiniteSet(S \ {x}) /\ (x \in S => Cardinality(S \ {x}) = Cardinality(S) - 1)
  BY FS_RemoveElement, Zenon
<1>4. Cardinality(S \ {x}) \in Nat
  BY <1>3, FS_CardinalityType, Zenon
<1> QED
  BY <1>1, <1>2, <1>3, <1>4

\* Two sets without common elements.
LEMMA UnionFacts ==
  ASSUME NEW S, IsFiniteSet(S), NEW T, IsFiniteSet(T), S \cap T = {}
  PROVE /\ IsFiniteSet(S \cup T)
        /\ Cardinality(S \cup T) = Cardinality(S) + Cardinality(T)
<1>1. /\ IsFiniteSet(S \cup T)
      /\ Cardinality(S \cup T) = Cardinality(S) + Cardinality(T) - Cardinality(S \cap T)
  BY FS_Union, Zenon
<1>2. Cardinality(S \cap T) = 0
  BY FS_EmptySet, Zenon
<1>3. Cardinality(S) \in Nat /\ Cardinality(T) \in Nat
  BY FS_CardinalityType, Zenon
<1> QED
  BY <1>1, <1>2, <1>3

\* The clusters are finitely many.
LEMMA ClustersFinite == IsFiniteSet(ClusterSet) /\ \A r : IsFiniteSet(Children(r))
<1>1. IsFiniteSet(1..Len(Clusters))
  BY ListAssumption, FS_Interval
<1>2. Clusters \in Surjection(1..Len(Clusters), ClusterSet)
  BY ListAssumption DEF Surjection, ClusterSet, Range
<1>3. IsFiniteSet(ClusterSet)
  BY <1>1, <1>2, FS_Surjection, Zenon
<1> QED
  BY <1>3, FS_Subset, Zenon DEF Children

----------------------------------------------------------------------------
(* The walk.                                                               *)

\* NextRegion drops the region at the head of the list, or turns to all clusters.
LEMMA NextRegionFacts ==
  ASSUME Walk, walker.pc \in {"region", "store"}, walker.todo # <<>>, NextRegion
  PROVE /\ walker' \in [pc : {"region", "other"}, todo : Seq(ClusterSet)]
        /\ IsInjective(walker'.todo)
        /\ walker'.pc = "region" => walker'.todo = Tail(walker.todo)
<1>1. /\ walker.todo \in Seq(ClusterSet) /\ IsInjective(walker.todo)
      /\ Clusters \in Seq(ClusterSet) /\ IsInjective(Clusters)
  BY ListAssumption, Zenon DEF Walk
<1>2. Tail(walker.todo) \in Seq(ClusterSet) /\ IsInjective(Tail(walker.todo))
  BY <1>1, TailFacts, Zenon
<1>3. CASE Len(walker.todo) = 1
  BY <1>1, <1>3, Zenon DEF NextRegion
<1>4. CASE Len(walker.todo) # 1
  BY <1>2, <1>4, Zenon DEF NextRegion
<1> QED
  BY <1>3, <1>4, Zenon

\* fetchClusterData: the lists are read, or not.
LEMMA FetchWalk ==
  ASSUME Walk, Handed, fetchClusterData PROVE Walk' /\ Handed'
<1>1. UNCHANGED <<main, task, job>> /\ walker.pc = "fetch"
  BY Zenon DEF fetchClusterData, collect
<1>2. /\ walker' \in [pc : {"region", "other", "end"}, todo : Seq(ClusterSet)]
      /\ IsInjective(walker'.todo)
  <2>1. \/ walker' = [pc |-> "region", todo |-> Regions]
        \/ walker' = [pc |-> "end", todo |-> <<>>]
        \/ walker' = [pc |-> "other", todo |-> Clusters]
    BY Zenon DEF fetchClusterData
  <2>2. <<>> \in Seq(ClusterSet) /\ IsInjective(<<>>)
    BY DEF IsInjective
  <2>3. /\ Regions \in Seq(ClusterSet) /\ IsInjective(Regions)
        /\ Clusters \in Seq(ClusterSet) /\ IsInjective(Clusters)
    BY ListAssumption, Zenon
  <2>4. CASE walker' = [pc |-> "end", todo |-> <<>>]
    BY <2>2, <2>4, Zenon
  <2>5. CASE walker' # [pc |-> "end", todo |-> <<>>]
    BY <2>1, <2>3, <2>5
  <2> QED
    BY <2>4, <2>5, Zenon
<1>3. \A c \in Range(walker'.todo) : c \in ClusterSet
  BY <1>2, RangeFacts, Zenon
<1>4. \A r : \A c \in Children(r) : c \in ClusterSet
  BY Zenon DEF Children
<1>5. Walk'
  BY <1>1, <1>2, <1>3, <1>4, Zenon DEF Walk
<1>6. Handed'
  BY <1>1, <1>2, <1>3, Zenon DEF Handed
<1> QED
  BY <1>5, <1>6, Zenon

\* handleRegionClusters: the client of the region at the head of the list is handed over
\* or cannot be read.
LEMMA RegionWalk ==
  ASSUME Walk, Handed, Collectors, handleRegionClusters PROVE Walk' /\ Handed'
<1>1. /\ UNCHANGED task /\ walker.pc = "region"
      /\ walker.todo \in Seq(ClusterSet) /\ IsInjective(walker.todo)
  BY Zenon DEF handleRegionClusters, Walk
<1>2. main' = main
  BY Zenon DEF handleRegionClusters, CollectRemoteMetricsAsync
<1>3. CASE walker.todo = <<>>
  <2>1. walker' = [pc |-> "other", todo |-> Clusters] /\ UNCHANGED job
    BY <1>3, Zenon DEF handleRegionClusters, collect
  <2>2. \A c \in Range(walker'.todo) : c \in ClusterSet
    BY <2>1, Zenon DEF ClusterSet
  <2> QED
    BY <1>1, <1>2, <2>1, <2>2, ListAssumption, Zenon DEF Walk, Handed
<1>4. CASE walker.todo # <<>> /\ NextRegion /\ UNCHANGED job
  <2>1. /\ walker' \in [pc : {"region", "other"}, todo : Seq(ClusterSet)]
        /\ IsInjective(walker'.todo)
        /\ walker'.pc = "region" => walker'.todo = Tail(walker.todo)
    BY <1>1, <1>4, NextRegionFacts, Zenon
  <2>2. Range(Tail(walker.todo)) \subseteq Range(walker.todo)
    BY <1>1, <1>4, TailFacts, Zenon
  <2>3. \A c \in Range(walker'.todo) : c \in ClusterSet
    BY <2>1 DEF Range
  <2> QED
    BY <1>1, <1>2, <1>4, <2>1, <2>2, <2>3, Zenon DEF Walk, Handed
<1>5. CASE /\ walker.todo # <<>> /\ CollectRemoteMetricsAsync(<<walker.todo[1], "region">>)
           /\ walker' = [walker EXCEPT !.pc = "store"]
  <2>1. PICK r \in ClusterSet : r = walker.todo[1] /\ Range(Tail(walker.todo)) = Range(walker.todo) \ {r}
    BY <1>1, <1>5, TailFacts, Zenon
  <2>2. walker' \in [pc : {"store"}, todo : Seq(ClusterSet)] /\ walker'.todo = walker.todo
    BY <1>1, <1>5, Zenon DEF Walk
  <2>3. \A j \in Jobs : j # <<r, "region">> => job'[j] = job[j]
    BY <1>5, <2>1, Zenon DEF CollectRemoteMetricsAsync, Collectors
  <2>4. \A j \in Tasks : j \in Jobs /\ j # <<r, "region">>
    BY DEF Tasks, Jobs
  <2>5. \A c \in ClusterSet : c # r => <<c, "region">> \in Jobs /\ <<c, "region">> # <<r, "region">>
    BY Zenon DEF Jobs
  <2>6. \A c \in Range(Tail(walker.todo)) : c \in ClusterSet /\ c # r /\ c \in Range(walker.todo)
    BY <1>1, <2>1, RangeFacts, Zenon
  <2>7. Walk'
    BY <1>1, <1>2, <1>5, <2>2, Zenon DEF Walk
  <2>8. Handed'
    BY <1>1, <2>2, <2>3, <2>4, <2>5, <2>6, Zenon DEF Handed
  <2> QED
    BY <2>7, <2>8, Zenon
<1> QED
  BY <1>3, <1>4, <1>5, Zenon DEF handleRegionClusters, collect

\* StoreRegion: the goroutines of the region's children start.
LEMMA StoreRegionWalk ==
  ASSUME Walk, Handed, StoreRegion PROVE Walk' /\ Handed'
<1>1. /\ UNCHANGED <<main, job>> /\ walker.pc = "store" /\ walker.todo # <<>>
      /\ walker.todo \in Seq(ClusterSet) /\ IsInjective(walker.todo) /\ NextRegion
  BY Zenon DEF StoreRegion, Walk, collect
<1>2. /\ walker' \in [pc : {"region", "other"}, todo : Seq(ClusterSet)]
      /\ IsInjective(walker'.todo)
      /\ walker'.pc = "region" => walker'.todo = Tail(walker.todo)
  BY <1>1, NextRegionFacts, Zenon
<1>3. PICK r \in ClusterSet : r = walker.todo[1] /\ r \in Range(walker.todo)
                              /\ Range(Tail(walker.todo)) = Range(walker.todo) \ {r}
  BY <1>1, TailFacts, Zenon
<1>4. task' = [j \in Tasks |-> IF j[2] = "child" /\ j[1] \in Children(r) THEN "client" ELSE task[j]]
  BY <1>3, Zenon DEF StoreRegion, Walk
<1>5. task' \in [Tasks -> {"none", "client", "store", "end"}]
  BY <1>4, Zenon DEF Walk
<1>6. \A c \in ClusterSet : /\ <<c, "child">> \in Tasks /\ <<c, "other">> \in Tasks
                            /\ task'[<<c, "other">>] = task[<<c, "other">>]
                            /\ c \notin Children(r) => task'[<<c, "child">>] = task[<<c, "child">>]
  BY <1>4, Zenon DEF Tasks
<1>7. \A c \in Range(walker'.todo) : c \in ClusterSet
  BY <1>2, RangeFacts, Zenon
<1>8. \A s : \A c \in Children(s) : c \in ClusterSet /\ (s # r => c \notin Children(r))
  BY Zenon DEF Children
<1>9. Walk'
  <2>1. \A c \in Range(walker'.todo) : task'[<<c, "other">>] = "none"
    BY <1>1, <1>6, <1>7, Zenon DEF Walk
  <2>2. walker'.pc = "region" =>
          \A s \in Range(walker'.todo) : \A c \in Children(s) : task'[<<c, "child">>] = "none"
    BY <1>1, <1>2, <1>3, <1>6, <1>8, ZenonT(60) DEF Walk
  <2>3. \A c \in ClusterSet : task'[<<c, "other">>] = "none"
    BY <1>1, <1>6, Zenon DEF Walk
  <2> QED
    BY <1>1, <1>2, <1>5, <2>1, <2>2, <2>3, Zenon DEF Walk
<1>10. Handed'
  <2>1. ASSUME NEW j \in Tasks, task'[j] \in {"none", "client"} PROVE job[j].pc = "none"
    <3>1. CASE j[2] = "child" /\ j[1] \in Children(r)
      <4>1. j = <<j[1], "child">>
        BY <3>1 DEF Tasks
      <4>2. task[j] = "none"
        BY <1>1, <1>3, <3>1, <4>1 DEF Walk
      <4> QED
        BY <4>2, Zenon DEF Handed
    <3>2. CASE ~(j[2] = "child" /\ j[1] \in Children(r))
      BY <1>4, <2>1, <3>2, Zenon DEF Handed
    <3> QED
      BY <3>1, <3>2, Zenon
  <2> QED
    BY <1>1, <1>2, <2>1, Zenon DEF Handed
<1> QED
  BY <1>9, <1>10, Zenon

\* handleOtherClusters: the cluster at the head of the list gets a goroutine or is skipped.
LEMMA OtherWalk ==
  ASSUME Walk, Handed, handleOtherClusters PROVE Walk' /\ Handed'
<1>1. /\ UNCHANGED <<main, job>> /\ walker.pc = "other"
      /\ walker.todo \in Seq(ClusterSet) /\ IsInjective(walker.todo)
  BY Zenon DEF handleOtherClusters, Walk, collect
<1>2. CASE walker.todo = <<>>
  <2>1. walker' = [walker EXCEPT !.pc = "end"] /\ task' = task
    BY <1>2, Zenon DEF handleOtherClusters
  <2>2. walker' \in [pc : {"end"}, todo : Seq(ClusterSet)] /\ walker'.todo = walker.todo
    BY <2>1, Zenon DEF Walk
  <2> QED
    BY <1>1, <2>1, <2>2, Zenon DEF Walk, Handed
<1>3. CASE walker.todo # <<>>
  <2>1. PICK c \in ClusterSet : c = walker.todo[1] /\ c \in Range(walker.todo)
                                /\ Range(Tail(walker.todo)) = Range(walker.todo) \ {c}
    BY <1>1, <1>3, TailFacts, Zenon
  <2>2. walker' = [walker EXCEPT !.todo = Tail(@)]
    BY <1>3, Zenon DEF handleOtherClusters
  <2>3. /\ walker' \in [pc : {"other"}, todo : Seq(ClusterSet)] /\ IsInjective(walker'.todo)
        /\ walker'.todo = Tail(walker.todo)
    BY <1>1, <1>3, <2>2, TailFacts, Zenon DEF Walk
  <2>4. task' = task \/ task' = [task EXCEPT ![<<c, "other">>] = "client"]
    BY <1>3, <2>1, Zenon DEF handleOtherClusters
  <2>5. <<c, "other">> \in Tasks /\ task[<<c, "other">>] = "none"
    BY <1>1, <2>1, Zenon DEF Tasks, Walk
  <2>6. /\ task' \in [Tasks -> {"none", "client", "store", "end"}]
        /\ \A j \in Tasks : j # <<c, "other">> => task'[j] = task[j]
    BY <2>4, <2>5, Zenon DEF Walk
  <2>7. \A d \in Range(Tail(walker.todo)) :
          <<d, "other">> \in Tasks /\ <<d, "other">> # <<c, "other">> /\ d \in Range(walker.todo)
    BY <1>1, <2>1, RangeFacts, Zenon DEF Tasks
  <2>8. Walk'
    BY <1>1, <2>3, <2>6, <2>7, Zenon DEF Walk
  <2>9. Handed'
    BY <1>1, <2>3, <2>5, <2>6, Zenon DEF Handed
  <2> QED
    BY <2>8, <2>9
<1> QED
  BY <1>2, <1>3, Zenon

\* A goroutine of the walk: its task only goes on, and its collector starts with its client.
LEMMA TaskWalk ==
  ASSUME Walk, Handed, Collectors, NEW j \in Tasks,
         ClientFails(j) \/ createAndSendKubeClient(j) \/ Store(j)
  PROVE Walk' /\ Handed'
<1>1. /\ UNCHANGED <<walker, main>> /\ task[j] \in {"client", "store"}
      /\ \E s \in {"store", "end"} : task' = [task EXCEPT ![j] = s]
  BY Zenon DEF ClientFails, createAndSendKubeClient, Store, CollectRemoteMetricsAsync
<1>2. /\ task' \in [Tasks -> {"none", "client", "store", "end"}]
      /\ task'[j] \in {"store", "end"}
      /\ \A i \in Tasks : i # j => task'[i] = task[i]
  BY <1>1, Zenon DEF Walk
<1>3. \A i \in Jobs : i # j => job'[i] = job[i]
  BY Zenon DEF ClientFails, createAndSendKubeClient, Store, CollectRemoteMetricsAsync, collect, Collectors
<1>4. \A i \in Tasks : task[i] = "none" => task'[i] = "none"
  BY <1>1, <1>2, Zenon
<1>5. \A c \in ClusterSet : /\ <<c, "child">> \in Tasks /\ <<c, "other">> \in Tasks
                            /\ <<c, "region">> \in Jobs /\ <<c, "region">> # j
  BY DEF Tasks, Jobs
<1>6. \A i \in Tasks : i \in Jobs
  BY Zenon DEF Jobs
<1>7. walker.todo \in Seq(ClusterSet) /\ \A c \in Range(walker.todo) : c \in ClusterSet
  BY RangeFacts, Zenon DEF Walk
<1>8. \A r : \A c \in Children(r) : c \in ClusterSet
  BY Zenon DEF Children
<1>9. Walk'
  BY <1>1, <1>2, <1>4, <1>5, <1>7, <1>8 DEF Walk
<1>10. walker.pc = "store" => \A c \in Range(Tail(walker.todo)) : c \in ClusterSet
  BY <1>7, TailFacts DEF Walk
<1>11. Handed'
  <2>1. ASSUME NEW i \in Tasks, task'[i] \in {"none", "client"} PROVE job'[i].pc = "none"
    <3>1. i # j
      BY <1>2, <2>1, Zenon
    <3> QED
      BY <1>2, <1>3, <1>6, <2>1, <3>1, Zenon DEF Handed
  <2>2. \A c \in ClusterSet : job'[<<c, "region">>] = job[<<c, "region">>]
    BY <1>3, <1>5, Zenon
  <2> QED
    BY <1>1, <1>7, <1>10, <2>1, <2>2, Zenon DEF Handed
<1> QED
  BY <1>9, <1>11, Zenon

\* Everybody else leaves the walk alone and gives no cluster a collector.
LEMMA RestWalk ==
  ASSUME Walk, Handed, walker' = walker, task' = task, main' \in {"remote", "drain", "done"},
         \A i \in Jobs : job[i].pc = "none" => job'[i].pc = "none"
  PROVE Walk' /\ Handed'
<1>1. \A c \in ClusterSet : <<c, "region">> \in Jobs
  BY Zenon DEF Jobs
<1>2. \A i \in Tasks : i \in Jobs
  BY Zenon DEF Jobs
<1>3. walker.todo \in Seq(ClusterSet) /\ \A c \in Range(walker.todo) : c \in ClusterSet
  BY RangeFacts, Zenon DEF Walk
<1>4. walker.pc = "store" => \A c \in Range(Tail(walker.todo)) : c \in ClusterSet
  BY <1>3, TailFacts DEF Walk
<1>5. Walk'
  BY Zenon DEF Walk
<1>6. Handed'
  BY <1>1, <1>2, <1>3, <1>4, Zenon DEF Handed
<1> QED
  BY <1>5, <1>6, Zenon

----------------------------------------------------------------------------
(* The collectors.                                                         *)

\* The pods of a custom resource: as many goroutines as pods.
LEMMA PodsFacts ==
  ASSUME NEW j \in Jobs, NEW cr \in Range(Resources[j[1]])
  PROVE /\ PodsOf(j, cr) \subseteq PodJobs
        /\ PodsOf(j, cr) = {q \in PodJobs : q[1] = j /\ q[2] = cr}
        /\ IsFiniteSet(PodsOf(j, cr)) /\ IsFiniteSet(Pods[cr])
        /\ Cardinality(PodsOf(j, cr)) = Cardinality(Pods[cr])
<1>1. j[1] \in ClusterSet \cup {Local}
  BY DEF Jobs, Tasks
<1>2. IsFiniteSet(Pods[cr])
  BY <1>1, ListAssumption, Zenon
<1>3. PodsOf(j, cr) \subseteq PodJobs
  BY DEF PodJobs
<1>4. PodsOf(j, cr) = {q \in PodJobs : q[1] = j /\ q[2] = cr}
  BY <1>3 DEF PodsOf, PodJobs
<1>5. IsFiniteSet(PodsOf(j, cr)) /\ Cardinality(PodsOf(j, cr)) = Cardinality(Pods[cr])
  <2> DEFINE f == [p \in Pods[cr] |-> <<j, cr, p>>]
  <2>1. f \in Bijection(Pods[cr], PodsOf(j, cr))
    BY Zenon DEF PodsOf, Bijection, Injection, Surjection, IsInjective
  <2> HIDE DEF f
  <2>2. IsFiniteSet(PodsOf(j, cr)) /\ Cardinality(PodsOf(j, cr)) = Cardinality(Pods[cr])
    BY <1>2, <2>1, FS_Bijection, Zenon DEF ExistsBijection
  <2> QED
    BY <2>2, Zenon
<1> QED
  BY <1>2, <1>3, <1>4, <1>5, Zenon

\* A new collector starts with nothing done (CollectRemoteMetricsAsync).
LEMMA StartCollectors ==
  ASSUME Collectors, NEW j \in Jobs, job[j].pc = "none", CollectRemoteMetricsAsync(j)
  PROVE Collectors' /\ Collecting' = Collecting \cup {j} /\ j \notin Collecting /\ Sending' = Sending
<1>1. /\ job' = [job EXCEPT ![j] = [pc |-> "list", todo |-> <<>>]] /\ pod' = pod
  BY Zenon DEF CollectRemoteMetricsAsync
<1>2. /\ \A i \in Jobs : i # j => job'[i] = job[i]
      /\ job'[j] = [pc |-> "list", todo |-> <<>>]
  BY <1>1, Zenon DEF Collectors
<1>3. job' \in [Jobs -> [pc : {"none", "list", "pods", "status", "end"}, todo : Seq(AnyResource)]]
  <2>1. <<>> \in Seq(AnyResource)
    OBVIOUS
  <2> QED
    BY <1>1, <2>1, Zenon DEF Collectors
<1>4. Range(<<>>) = {} /\ IsInjective(<<>>)
  BY DEF Range, IsInjective
<1>5. Collectors'
  <2>1. ASSUME NEW i \in Jobs
        PROVE /\ Range(job'[i].todo) \subseteq Range(Resources[i[1]]) /\ IsInjective(job'[i].todo)
              /\ job'[i].pc \in {"pods", "status"} => job'[i].todo # <<>>
              /\ \A q \in PodJobs :
                   q[1] = i /\ (job'[i].pc \in {"none", "list"} \/ q[2] \in Range(job'[i].todo)) =>
                     pod[q] = "none"
    <3>1. CASE i = j
      BY <1>2, <1>4, <3>1 DEF Collectors
    <3>2. CASE i # j
      BY <1>2, <3>2, Zenon DEF Collectors
    <3> QED
      BY <3>1, <3>2, Zenon
  <2> QED
    BY <1>1, <1>3, <2>1, Zenon DEF Collectors
<1> QED
  BY <1>1, <1>2, <1>5 DEF Collecting, Sending

\* The collector goes on to the next custom resource, or ends (CollectMetrics).
LEMMA AdvanceFacts ==
  ASSUME Collectors, NEW j \in Jobs, job[j].pc \in {"pods", "status"}, NEW n, Advance(j, n)
  PROVE /\ job[j].todo[1] \in Range(Resources[j[1]])
        /\ job[j].todo \in Seq(AnyResource) /\ job[j].todo # <<>>
        /\ \A i \in Jobs : i # j => job'[i] = job[i]
        /\ job'[j].todo = Tail(job[j].todo)
        /\ job'[j].pc = IF Tail(job[j].todo) = <<>> THEN "end" ELSE "pods"
        /\ job' \in [Jobs -> [pc : {"none", "list", "pods", "status", "end"},
                              todo : Seq(AnyResource)]]
        /\ Range(Tail(job[j].todo)) = Range(job[j].todo) \ {job[j].todo[1]}
        /\ IsInjective(Tail(job[j].todo))
        /\ j \in Collecting
        /\ Collecting' = IF Tail(job[j].todo) = <<>> THEN Collecting \ {j} ELSE Collecting
        /\ wg' = wg + n - (IF Tail(job[j].todo) = <<>> THEN 1 ELSE 0)
<1>1. /\ job[j].todo \in Seq(AnyResource) /\ job[j].todo # <<>> /\ IsInjective(job[j].todo)
      /\ Range(job[j].todo) \subseteq Range(Resources[j[1]])
  BY Zenon DEF Collectors
<1>2. /\ job[j].todo[1] \in Range(job[j].todo)
      /\ Tail(job[j].todo) \in Seq(AnyResource) /\ IsInjective(Tail(job[j].todo))
      /\ Range(Tail(job[j].todo)) = Range(job[j].todo) \ {job[j].todo[1]}
      /\ Len(job[j].todo) = 1 <=> Tail(job[j].todo) = <<>>
  BY <1>1, TailFacts, Zenon
<1>3. /\ job' = [job EXCEPT ![j] = [pc |-> IF Tail(job[j].todo) = <<>> THEN "end" ELSE "pods",
                                    todo |-> Tail(job[j].todo)]]
      /\ wg' = wg + n - (IF Tail(job[j].todo) = <<>> THEN 1 ELSE 0)
  BY <1>2, Zenon DEF Advance, Collectors
<1>4. /\ \A i \in Jobs : i # j => job'[i] = job[i]
      /\ job'[j] = [pc |-> IF Tail(job[j].todo) = <<>> THEN "end" ELSE "pods",
                    todo |-> Tail(job[j].todo)]
      /\ job' \in [Jobs -> [pc : {"none", "list", "pods", "status", "end"},
                            todo : Seq(AnyResource)]]
  BY <1>2, <1>3, Zenon DEF Collectors
<1>5. /\ j \in Collecting
      /\ Collecting' = IF Tail(job[j].todo) = <<>> THEN Collecting \ {j} ELSE Collecting
  BY <1>4 DEF Collecting
<1> QED
  BY <1>1, <1>2, <1>3, <1>4, <1>5, Zenon

\* A custom resource is skipped.
LEMMA SkipCollectors ==
  ASSUME Collectors, NEW j \in Jobs, job[j].pc \in {"pods", "status"}, Advance(j, 0), pod' = pod
  PROVE Collectors' /\ Sending' = Sending
<1>1. /\ \A i \in Jobs : i # j => job'[i] = job[i]
      /\ job'[j].todo = Tail(job[j].todo)
      /\ job'[j].pc = IF Tail(job[j].todo) = <<>> THEN "end" ELSE "pods"
      /\ job' \in [Jobs -> [pc : {"none", "list", "pods", "status", "end"},
                            todo : Seq(AnyResource)]]
      /\ Range(Tail(job[j].todo)) = Range(job[j].todo) \ {job[j].todo[1]}
      /\ IsInjective(Tail(job[j].todo))
  BY AdvanceFacts, Zenon
<1>2. ASSUME NEW i \in Jobs
      PROVE /\ Range(job'[i].todo) \subseteq Range(Resources[i[1]]) /\ IsInjective(job'[i].todo)
            /\ job'[i].pc \in {"pods", "status"} => job'[i].todo # <<>>
            /\ \A q \in PodJobs :
                 q[1] = i /\ (job'[i].pc \in {"none", "list"} \/ q[2] \in Range(job'[i].todo)) =>
                   pod[q] = "none"
  <2>1. CASE i = j
    BY <1>1, <2>1, Zenon DEF Collectors
  <2>2. CASE i # j
    BY <1>1, <2>2, ZenonT(60) DEF Collectors
  <2> QED
    BY <2>1, <2>2, Zenon
<1> QED
  BY <1>1, <1>2, Zenon DEF Collectors, Sending

\* The goroutines of a custom resource's pods start (StartPods).
LEMMA PodsStart ==
  ASSUME Collectors, NEW j \in Jobs, job[j].pc \in {"pods", "status"}, StartPods(j)
  PROVE /\ Collectors'
        /\ Sending' = Sending \cup PodsOf(j, job[j].todo[1])
        /\ Sending \cap PodsOf(j, job[j].todo[1]) = {}
<1>1. PICK cr : cr = job[j].todo[1]
  OBVIOUS
<1>2. PICK n : Advance(j, n)
  BY Zenon DEF StartPods
<1>3. /\ cr \in Range(Resources[j[1]])
      /\ \A i \in Jobs : i # j => job'[i] = job[i]
      /\ job'[j].todo = Tail(job[j].todo)
      /\ job'[j].pc = IF Tail(job[j].todo) = <<>> THEN "end" ELSE "pods"
      /\ job' \in [Jobs -> [pc : {"none", "list", "pods", "status", "end"},
                            todo : Seq(AnyResource)]]
      /\ Range(Tail(job[j].todo)) = Range(job[j].todo) \ {cr}
      /\ IsInjective(Tail(job[j].todo))
  BY <1>1, <1>2, AdvanceFacts, Zenon
<1>4. cr \in Range(job[j].todo)
  BY <1>1, TailFacts, Zenon DEF Collectors
<1>5. PodsOf(j, cr) = {q \in PodJobs : q[1] = j /\ q[2] = cr}
  BY <1>3, PodsFacts, Zenon
<1>6. pod' = [q \in PodJobs |-> IF q[1] = j /\ q[2] = cr THEN "health" ELSE pod[q]]
  BY <1>1, Zenon DEF StartPods, Collectors
<1>7. \A q \in PodsOf(j, cr) : pod[q] = "none"
  BY <1>4, <1>5, ZenonT(60) DEF Collectors
<1>8. ASSUME NEW i \in Jobs
      PROVE /\ Range(job'[i].todo) \subseteq Range(Resources[i[1]]) /\ IsInjective(job'[i].todo)
            /\ job'[i].pc \in {"pods", "status"} => job'[i].todo # <<>>
            /\ \A q \in PodJobs :
                 q[1] = i /\ (job'[i].pc \in {"none", "list"} \/ q[2] \in Range(job'[i].todo)) =>
                   pod'[q] = "none"
  <2>1. CASE i = j
    BY <1>3, <1>6, <2>1, Zenon DEF Collectors
  <2>2. CASE i # j
    BY <1>3, <1>6, <2>2, ZenonT(60) DEF Collectors
  <2> QED
    BY <2>1, <2>2, Zenon
<1>9. pod' \in [PodJobs -> {"none", "health", "resources", "internal"}]
  BY <1>6, Zenon DEF Collectors
<1>10. Collectors'
  BY <1>3, <1>8, <1>9, Zenon DEF Collectors
<1>11. Sending' = Sending \cup PodsOf(j, cr)
  BY <1>5, <1>6, Zenon DEF Sending
<1> QED
  BY <1>1, <1>7, <1>10, <1>11, Zenon DEF Sending

\* ListResources: the custom resources are listed, or there is nothing to do.
LEMMA ListCollectors ==
  ASSUME Collectors, NEW j \in Jobs, ListResources(j)
  PROVE /\ Collectors' /\ Sending' = Sending /\ j \in Collecting
        /\ \/ Collecting' = Collecting /\ wg' = wg
           \/ Collecting' = Collecting \ {j} /\ wg' = wg - 1
        /\ \A i \in Jobs : job[i].pc = "none" => job'[i].pc = "none"
<1>1. job[j].pc = "list" /\ pod' = pod /\ job[j].todo \in Seq(AnyResource)
  BY Zenon DEF ListResources, Collectors
<1>2. j[1] \in ClusterSet \cup {Local}
  BY DEF Jobs, Tasks
<1>3. Resources[j[1]] \in Seq(AnyResource) /\ IsInjective(Resources[j[1]])
  <2>1. Resources[j[1]] \in Seq(Range(Resources[j[1]])) /\ IsInjective(Resources[j[1]])
    BY <1>2, ListAssumption, Zenon
  <2>2. Range(Resources[j[1]]) \subseteq AnyResource
    BY <1>2, Zenon DEF AnyResource
  <2> QED
    BY <2>1, <2>2
<1>4. CASE /\ job' = [job EXCEPT ![j] = [pc |-> "pods", todo |-> Resources[j[1]]]]
           /\ Resources[j[1]] # <<>> /\ wg' = wg
  <2>1. /\ \A i \in Jobs : i # j => job'[i] = job[i]
        /\ job'[j] = [pc |-> "pods", todo |-> Resources[j[1]]]
        /\ job' \in [Jobs -> [pc : {"none", "list", "pods", "status", "end"},
                              todo : Seq(AnyResource)]]
    BY <1>3, <1>4, Zenon DEF Collectors
  <2>2. ASSUME NEW i \in Jobs
        PROVE /\ Range(job'[i].todo) \subseteq Range(Resources[i[1]]) /\ IsInjective(job'[i].todo)
              /\ job'[i].pc \in {"pods", "status"} => job'[i].todo # <<>>
              /\ \A q \in PodJobs :
                   q[1] = i /\ (job'[i].pc \in {"none", "list"} \/ q[2] \in Range(job'[i].todo)) =>
                     pod[q] = "none"
    <3>1. CASE i = j
      BY <1>1, <1>3, <1>4, <2>1, <3>1, Zenon DEF Collectors
    <3>2. CASE i # j
      BY <2>1, <3>2, Zenon DEF Collectors
    <3> QED
      BY <3>1, <3>2, Zenon
  <2> QED
    BY <1>1, <1>4, <2>1, <2>2, ZenonT(60) DEF Collectors, Collecting, Sending
<1>5. CASE job' = [job EXCEPT ![j].pc = "end"] /\ wg' = wg - 1
  <2>1. /\ \A i \in Jobs : i # j => job'[i] = job[i]
        /\ job'[j].pc = "end" /\ job'[j].todo = job[j].todo
        /\ job' \in [Jobs -> [pc : {"none", "list", "pods", "status", "end"},
                              todo : Seq(AnyResource)]]
    BY <1>1, <1>5, Zenon DEF Collectors
  <2>2. ASSUME NEW i \in Jobs
        PROVE /\ Range(job'[i].todo) \subseteq Range(Resources[i[1]]) /\ IsInjective(job'[i].todo)
              /\ job'[i].pc \in {"pods", "status"} => job'[i].todo # <<>>
              /\ \A q \in PodJobs :
                   q[1] = i /\ (job'[i].pc \in {"none", "list"} \/ q[2] \in Range(job'[i].todo)) =>
                     pod[q] = "none"
    <3>1. CASE i = j
      BY <1>1, <2>1, <3>1, Zenon DEF Collectors
    <3>2. CASE i # j
      BY <2>1, <3>2, Zenon DEF Collectors
    <3> QED
      BY <3>1, <3>2
  <2> QED
    BY <1>1, <1>5, <2>1, <2>2, ZenonT(60) DEF Collectors, Collecting, Sending
<1> QED
  BY <1>4, <1>5, Zenon DEF ListResources

\* Numbers: a collector that starts pods and may end.
LEMMA SumFacts ==
  ASSUME NEW a \in Nat, NEW b \in Nat, NEW n \in Nat, NEW w, w = a + b
  PROVE /\ w + n - 0 = a + (b + n)
        /\ a >= 1 => w + n - 1 = (a - 1) + (b + n)
  OBVIOUS

\* A step of a collector keeps the wait group equal to the goroutines it counts.
LEMMA CollectorStep ==
  ASSUME Collectors, Counted, NEW j \in Jobs, CollectMetrics(j)
  PROVE /\ Collectors' /\ IsFiniteSet(Collecting') /\ IsFiniteSet(Sending') /\ j \in Collecting
        /\ wg' = Cardinality(Collecting') + Cardinality(Sending')
        /\ \A i \in Jobs : job[i].pc = "none" => job'[i].pc = "none"
<1>1. /\ IsFiniteSet(Collecting) /\ IsFiniteSet(Sending)
      /\ Cardinality(Collecting) \in Nat /\ Cardinality(Sending) \in Nat
      /\ wg = Cardinality(Collecting) + Cardinality(Sending)
  BY FS_CardinalityType, Zenon DEF Counted
<1>2. /\ IsFiniteSet(Collecting \ {j})
      /\ j \in Collecting =>
           Cardinality(Collecting \ {j}) = Cardinality(Collecting) - 1 /\ Cardinality(Collecting) >= 1
  BY <1>1, CountFacts, Zenon
<1>3. CASE ListResources(j)
  <2>1. /\ Collectors' /\ Sending' = Sending /\ j \in Collecting
        /\ \/ Collecting' = Collecting /\ wg' = wg
           \/ Collecting' = Collecting \ {j} /\ wg' = wg - 1
        /\ \A i \in Jobs : job[i].pc = "none" => job'[i].pc = "none"
    BY <1>3, ListCollectors, Zenon
  <2>2. CASE Collecting' = Collecting /\ wg' = wg
    BY <1>1, <2>1, <2>2, Zenon
  <2>3. CASE Collecting' = Collecting \ {j} /\ wg' = wg - 1
    BY <1>1, <1>2, <2>1, <2>3
  <2> QED
    BY <2>1, <2>2, <2>3, Zenon
<1>4. CASE job[j].pc \in {"pods", "status"} /\ StartPods(j)
  <2>1. PICK cr : cr = job[j].todo[1]
    OBVIOUS
  <2>2. PICK n : n = Cardinality(Pods[cr]) /\ Advance(j, n)
    BY <1>4, <2>1, Zenon DEF StartPods
  <2>3. /\ cr \in Range(Resources[j[1]]) /\ j \in Collecting
        /\ \A i \in Jobs : i # j => job'[i] = job[i]
        /\ Collecting' = IF Tail(job[j].todo) = <<>> THEN Collecting \ {j} ELSE Collecting
        /\ wg' = wg + n - (IF Tail(job[j].todo) = <<>> THEN 1 ELSE 0)
    BY <1>4, <2>1, <2>2, AdvanceFacts, Zenon
  <2>4. /\ Collectors' /\ Sending' = Sending \cup PodsOf(j, cr)
        /\ Sending \cap PodsOf(j, cr) = {}
    BY <1>4, <2>1, PodsStart, Zenon
  <2>5. /\ IsFiniteSet(PodsOf(j, cr)) /\ Cardinality(PodsOf(j, cr)) = n /\ n \in Nat
    BY <2>2, <2>3, PodsFacts, FS_CardinalityType, Zenon
  <2>6. IsFiniteSet(Sending') /\ Cardinality(Sending') = Cardinality(Sending) + n
    BY <1>1, <2>4, <2>5, UnionFacts, Zenon
  <2>7. wg' = Cardinality(Collecting') + Cardinality(Sending')
    <3>1. CASE Tail(job[j].todo) = <<>>
      <4>1. Collecting' = Collecting \ {j} /\ wg' = wg + n - 1
        BY <2>3, <3>1, Zenon
      <4>2. /\ Cardinality(Collecting') = Cardinality(Collecting) - 1
            /\ Cardinality(Collecting) >= 1
        BY <1>2, <2>3, <4>1, Zenon
      <4>3. wg + n - 1 = (Cardinality(Collecting) - 1) + (Cardinality(Sending) + n)
        BY <1>1, <2>5, <4>2, SumFacts
      <4> QED
        BY <2>6, <4>1, <4>2, <4>3, Zenon
    <3>2. CASE Tail(job[j].todo) # <<>>
      <4>1. Collecting' = Collecting /\ wg' = wg + n - 0
        BY <2>3, <3>2, Zenon
      <4> QED
        BY <1>1, <2>5, <2>6, <4>1, SumFacts
    <3> QED
      BY <3>1, <3>2, Zenon
  <2> QED
    BY <1>1, <1>2, <1>4, <2>3, <2>4, <2>6, <2>7, ZenonT(60)
<1>5. CASE GetPods(j) /\ job' = [job EXCEPT ![j].pc = "status"] /\ UNCHANGED <<pod, wg>>
  <2>1. job[j].pc = "pods"
    BY <1>5, Zenon DEF GetPods
  <2>2. /\ \A i \in Jobs : i # j => job'[i] = job[i]
        /\ job'[j].pc = "status" /\ job'[j].todo = job[j].todo
        /\ job' \in [Jobs -> [pc : {"none", "list", "pods", "status", "end"},
                              todo : Seq(AnyResource)]]
    BY <1>5, ZenonT(60) DEF Collectors
  <2>3. Collectors'
    <3>1. ASSUME NEW i \in Jobs
          PROVE /\ Range(job'[i].todo) \subseteq Range(Resources[i[1]]) /\ IsInjective(job'[i].todo)
                /\ job'[i].pc \in {"pods", "status"} => job'[i].todo # <<>>
                /\ \A q \in PodJobs :
                     q[1] = i /\ (job'[i].pc \in {"none", "list"} \/ q[2] \in Range(job'[i].todo)) =>
                       pod[q] = "none"
      <4>1. CASE i = j
        BY <2>1, <2>2, <4>1, Zenon DEF Collectors
      <4>2. CASE i # j
        BY <2>2, <4>2, Zenon DEF Collectors
      <4> QED
        BY <4>1, <4>2, Zenon
    <3> QED
      BY <1>5, <2>2, <3>1, Zenon DEF Collectors
  <2>4. Collecting' = Collecting /\ Sending' = Sending /\ j \in Collecting
    BY <1>5, <2>1, <2>2, Zenon DEF Collecting, Sending
  <2> QED
    BY <1>1, <1>5, <2>1, <2>2, <2>3, <2>4, ZenonT(60)
<1>6. CASE job[j].pc = "pods" /\ Advance(j, 0) /\ UNCHANGED pod
  <2>1. /\ j \in Collecting /\ \A i \in Jobs : i # j => job'[i] = job[i]
        /\ Collecting' = IF Tail(job[j].todo) = <<>> THEN Collecting \ {j} ELSE Collecting
        /\ wg' = wg + 0 - (IF Tail(job[j].todo) = <<>> THEN 1 ELSE 0)
    BY <1>6, AdvanceFacts, Zenon
  <2>2. Collectors' /\ Sending' = Sending
    BY <1>6, SkipCollectors, Zenon
  <2>3. wg' = Cardinality(Collecting') + Cardinality(Sending')
    <3>1. CASE Tail(job[j].todo) = <<>>
      <4>1. Collecting' = Collecting \ {j} /\ wg' = wg + 0 - 1
        BY <2>1, <3>1, Zenon
      <4>2. /\ Cardinality(Collecting') = Cardinality(Collecting) - 1
            /\ Cardinality(Collecting) >= 1
        BY <1>2, <2>1, <4>1, Zenon
      <4>3. wg + 0 - 1 = (Cardinality(Collecting) - 1) + (Cardinality(Sending) + 0)
        BY <1>1, <4>2, SumFacts
      <4> QED
        BY <1>1, <2>2, <4>1, <4>2, <4>3
    <3>2. CASE Tail(job[j].todo) # <<>>
      <4>1. Collecting' = Collecting /\ wg' = wg + 0 - 0
        BY <2>1, <3>2, Zenon
      <4> QED
        BY <1>1, <2>2, <4>1
    <3> QED
      BY <3>1, <3>2
  <2> QED
    BY <1>1, <1>2, <1>6, <2>1, <2>2, <2>3, ZenonT(60)
<1> QED
  BY <1>3, <1>4, <1>5, <1>6, Zenon DEF CollectMetrics, GetPods, SendStatus

\* A step of a pod's goroutine, likewise (CollectAll).
LEMMA PodStep ==
  ASSUME Collectors, Counted, NEW q \in PodJobs, CollectAll(q)
  PROVE /\ Collectors' /\ IsFiniteSet(Sending') /\ q \in Sending
        /\ wg' = Cardinality(Collecting) + Cardinality(Sending')
<1>1. /\ IsFiniteSet(Collecting) /\ IsFiniteSet(Sending)
      /\ Cardinality(Collecting) \in Nat /\ Cardinality(Sending) \in Nat
      /\ wg = Cardinality(Collecting) + Cardinality(Sending)
  BY FS_CardinalityType DEF Counted
<1>2. /\ pod[q] \in {"health", "resources", "internal"} /\ job' = job
      /\ \/ pod' = [pod EXCEPT ![q] = "resources"] /\ wg' = wg
         \/ pod' = [pod EXCEPT ![q] = "internal"] /\ wg' = wg
         \/ pod' = [pod EXCEPT ![q] = "none"] /\ wg' = wg - 1
  BY Zenon DEF CollectAll, CollectHealth, CollectResources, CollectInternal, Goto
<1>3. /\ pod' \in [PodJobs -> {"none", "health", "resources", "internal"}]
      /\ \A p \in PodJobs : p # q => pod'[p] = pod[p]
      /\ \/ pod'[q] \in {"resources", "internal"} /\ wg' = wg
         \/ pod'[q] = "none" /\ wg' = wg - 1
  BY <1>2, Zenon DEF Collectors
<1>4. \A p \in PodJobs : pod[p] = "none" => pod'[p] = "none"
  BY <1>2, <1>3, Zenon
<1>5. Collectors'
  BY <1>2, <1>3, <1>4, Zenon DEF Collectors
<1>6. q \in Sending
  BY <1>2, Zenon DEF Sending
<1>7. CASE pod'[q] = "none" /\ wg' = wg - 1
  <2>1. Sending' = Sending \ {q}
    BY <1>3, <1>7, Zenon DEF Sending
  <2>2. /\ IsFiniteSet(Sending \ {q}) /\ Cardinality(Sending) >= 1
        /\ Cardinality(Sending \ {q}) = Cardinality(Sending) - 1
    BY <1>1, <1>6, CountFacts, Zenon
  <2> QED
    BY <1>1, <1>5, <1>6, <1>7, <2>1, <2>2
<1>8. CASE pod'[q] \in {"resources", "internal"} /\ wg' = wg
  <2>1. Sending' = Sending
    BY <1>3, <1>6, <1>8, ZenonT(60) DEF Sending
  <2> QED
    BY <1>1, <1>5, <1>6, <1>8, <2>1, ZenonT(60)
<1> QED
  BY <1>3, <1>7, <1>8, Zenon

----------------------------------------------------------------------------
(* The wait groups.                                                        *)

\* A wait group at zero counts nobody.
LEMMA ZeroFacts ==
  ASSUME Counted
  PROVE /\ walkWg \in Nat /\ wg \in Nat
        /\ walkWg = 0 => Walking = {} /\ walker.pc = "end"
        /\ wg = 0 => Collecting = {} /\ Sending = {}
<1>1. /\ Cardinality(Walking) \in Nat /\ Cardinality(Collecting) \in Nat
      /\ Cardinality(Sending) \in Nat
  BY FS_CardinalityType, Zenon DEF Counted
<1>2. \A S : IsFiniteSet(S) /\ Cardinality(S) = 0 => S = {}
  BY FS_EmptySet, Zenon
<1>3. ASSUME walkWg = 0 PROVE Cardinality(Walking) = 0 /\ walker.pc = "end"
  BY <1>1, <1>3 DEF Counted
<1>4. ASSUME wg = 0 PROVE Cardinality(Collecting) = 0 /\ Cardinality(Sending) = 0
  BY <1>1, <1>4 DEF Counted
<1>5. walkWg \in Nat /\ wg \in Nat
  BY <1>1 DEF Counted
<1> QED
  BY <1>2, <1>3, <1>4, <1>5, ZenonT(60) DEF Counted

\* While the walk goes on the request takes clients.
LEMMA WalkIsRemote ==
  ASSUME Counted, Closing, walker.pc # "end" \/ Walking # {}
  PROVE main = "remote"
  BY ZeroFacts, Zenon DEF Closing

\* The children of a region: as many goroutines as clusters.
LEMMA ChildrenFacts ==
  ASSUME NEW r
  PROVE /\ IsFiniteSet(Children(r) \X {"child"})
        /\ Cardinality(Children(r) \X {"child"}) = Cardinality(Children(r))
        /\ Cardinality(Children(r)) \in Nat
<1> DEFINE f == [c \in Children(r) |-> <<c, "child">>]
<1>1. f \in Bijection(Children(r), Children(r) \X {"child"})
  BY DEF Bijection, Injection, Surjection, IsInjective
<1> HIDE DEF f
<1>2. IsFiniteSet(Children(r))
  BY ClustersFinite, Zenon
<1> QED
  BY <1>1, <1>2, FS_Bijection, FS_CardinalityType, ZenonT(60) DEF ExistsBijection

\* A step of the walk keeps its wait group equal to the goroutines it counts.
LEMMA WalkCount ==
  ASSUME Walk, Counted, collectRemoteClusterKubeClients
  PROVE /\ IsFiniteSet(Walking')
        /\ walkWg' = Cardinality(Walking') + (IF walker'.pc = "end" THEN 0 ELSE 1)
<1>1. /\ IsFiniteSet(Walking) /\ Cardinality(Walking) \in Nat
      /\ walkWg = Cardinality(Walking) + (IF walker.pc = "end" THEN 0 ELSE 1)
  BY FS_CardinalityType, Zenon DEF Counted
<1>2. CASE fetchClusterData
  <2>1. /\ walker.pc = "fetch" /\ task' = task
        /\ \/ walker'.pc \in {"region", "other"} /\ walkWg' = walkWg
           \/ walker'.pc = "end" /\ walkWg' = walkWg - 1
    BY <1>2 DEF fetchClusterData
  <2>2. Walking' = Walking
    BY <2>1, Zenon DEF Walking
  <2> QED
    BY <1>1, <2>1, <2>2
<1>3. CASE handleRegionClusters
  <2>1. /\ walker.pc = "region" /\ task' = task /\ walkWg' = walkWg
        /\ walker'.pc # "end"
    BY <1>3 DEF handleRegionClusters, NextRegion, Walk
  <2>2. Walking' = Walking
    BY <2>1, Zenon DEF Walking
  <2> QED
    BY <1>1, <2>1, <2>2, Zenon
<1>4. CASE StoreRegion
  <2>1. PICK r : r = walker.todo[1]
    OBVIOUS
  <2>2. /\ walker.pc = "store" /\ walker'.pc # "end"
        /\ task' = [j \in Tasks |-> IF j[2] = "child" /\ j[1] \in Children(r) THEN "client" ELSE task[j]]
        /\ walkWg' = walkWg + Cardinality(Children(r))
    BY <1>4, <2>1, Zenon DEF StoreRegion, NextRegion, Walk
  <2>3. r \in Range(walker.todo)
    BY <2>1, <2>2, TailFacts, Zenon DEF Walk
  <2>4. \A j \in Tasks : j[2] = "child" /\ j[1] \in Children(r) <=> j \in Children(r) \X {"child"}
    BY Zenon DEF Tasks
  <2>5. \A j \in Children(r) \X {"child"} : j \in Tasks /\ task[j] = "none"
    BY <2>2, <2>3 DEF Walk, Tasks, Children
  <2>6. DOMAIN task = Tasks /\ DOMAIN task' = Tasks
    BY <2>2, Zenon DEF Walk
  <2>7. Walking' = Walking \cup (Children(r) \X {"child"})
    BY <2>2, <2>4, <2>5, <2>6, ZenonT(60) DEF Walking
  <2>8. Walking \cap (Children(r) \X {"child"}) = {}
    BY <2>5, Zenon DEF Walking
  <2>9. /\ IsFiniteSet(Walking')
        /\ Cardinality(Walking') = Cardinality(Walking) + Cardinality(Children(r))
    <3>1. PICK K : /\ K = Children(r) \X {"child"} /\ IsFiniteSet(K)
                   /\ Cardinality(K) = Cardinality(Children(r))
      BY ChildrenFacts, Zenon
    <3>2. Walking' = Walking \cup K /\ Walking \cap K = {}
      BY <2>7, <2>8, <3>1, Zenon
    <3>3. IsFiniteSet(Walking \cup K) /\ Cardinality(Walking \cup K) = Cardinality(Walking) + Cardinality(K)
      BY <1>1, <3>1, <3>2, UnionFacts, Zenon
    <3> QED
      BY <3>1, <3>2, <3>3, Zenon
  <2>10. Cardinality(Children(r)) \in Nat /\ walkWg = Cardinality(Walking) + 1
    BY <1>1, <2>2, ChildrenFacts, Zenon
  <2> QED
    BY <1>1, <2>2, <2>9, <2>10
<1>5. CASE handleOtherClusters
  <2>1. walker.pc = "other"
    BY <1>5, Zenon DEF handleOtherClusters
  <2>2. CASE walker.todo = <<>>
    <3>1. task' = task /\ walker'.pc = "end" /\ walkWg' = walkWg - 1
      BY <1>5, <2>2, Zenon DEF handleOtherClusters, Walk
    <3>2. Walking' = Walking
      BY <3>1, Zenon DEF Walking
    <3> QED
      BY <1>1, <2>1, <3>1, <3>2
  <2>3. CASE walker.todo # <<>>
    <3>1. PICK j : j = <<walker.todo[1], "other">>
      BY Zenon
    <3>2. walker.todo[1] \in Range(walker.todo) /\ walker.todo[1] \in ClusterSet
      BY <2>3, TailFacts, Zenon DEF Walk
    <3>3. j \in Tasks /\ task[j] = "none"
      BY <2>1, <3>1, <3>2, Zenon DEF Walk, Tasks
    <3>4. /\ walker'.pc = "other"
          /\ \/ task' = task /\ walkWg' = walkWg
             \/ task' = [task EXCEPT ![j] = "client"] /\ walkWg' = walkWg + 1
      BY <1>5, <2>3, <3>1, Zenon DEF handleOtherClusters, Walk
    <3>5. CASE task' = task /\ walkWg' = walkWg
      <4>1. Walking' = Walking
        BY <3>5, Zenon DEF Walking
      <4> QED
        BY <1>1, <2>1, <3>4, <3>5, <4>1, Zenon
    <3>6. CASE task' = [task EXCEPT ![j] = "client"] /\ walkWg' = walkWg + 1
      <4>1. Walking' = Walking \cup {j} /\ j \notin Walking
        BY <3>3, <3>6, Zenon DEF Walking, Walk
      <4>2. IsFiniteSet(Walking') /\ Cardinality(Walking') = Cardinality(Walking) + 1
        BY <1>1, <4>1, CountFacts, ZenonT(60)
      <4> QED
        BY <1>1, <2>1, <3>4, <3>6, <4>2, ZenonT(60)
    <3> QED
      BY <3>4, <3>5, <3>6, Zenon
  <2> QED
    BY <2>2, <2>3, Zenon
<1>6. ASSUME NEW j \in Tasks, ClientFails(j) \/ createAndSendKubeClient(j) \/ Store(j)
      PROVE /\ IsFiniteSet(Walking')
            /\ walkWg' = Cardinality(Walking') + (IF walker'.pc = "end" THEN 0 ELSE 1)
  <2>1. /\ task[j] \in {"client", "store"} /\ walker' = walker
        /\ \/ task' = [task EXCEPT ![j] = "store"] /\ walkWg' = walkWg
           \/ task' = [task EXCEPT ![j] = "end"] /\ walkWg' = walkWg - 1
    BY <1>6, Zenon DEF ClientFails, createAndSendKubeClient, Store
  <2>2. j \in Walking
    BY <2>1, Zenon DEF Walking, Walk
  <2>3. CASE task' = [task EXCEPT ![j] = "store"] /\ walkWg' = walkWg
    <3>1. Walking' = Walking
      BY <2>1, <2>2, <2>3, ZenonT(60) DEF Walking, Walk
    <3> QED
      BY <1>1, <2>1, <2>3, <3>1, Zenon
  <2>4. CASE task' = [task EXCEPT ![j] = "end"] /\ walkWg' = walkWg - 1
    <3>1. Walking' = Walking \ {j}
      BY <2>1, <2>2, <2>4, Zenon DEF Walking, Walk
    <3>2. IsFiniteSet(Walking') /\ Cardinality(Walking') = Cardinality(Walking) - 1
      BY <1>1, <2>2, <3>1, CountFacts, Zenon
    <3> QED
      BY <1>1, <2>1, <2>4, <3>2
  <2> QED
    BY <2>1, <2>3, <2>4, Zenon
<1> QED
  BY <1>2, <1>3, <1>4, <1>5, <1>6, ZenonT(60) DEF collectRemoteClusterKubeClients, Walk

----------------------------------------------------------------------------
(* The theorems.                                                           *)

\* A step of the walk either leaves the collectors alone or starts a new one.
LEMMA WalkHands ==
  ASSUME Walk, Handed, Counted, Closing, collectRemoteClusterKubeClients
  PROVE /\ main = "remote" /\ UNCHANGED <<main, closed, answer, secretAt, name>>
        /\ \/ UNCHANGED collect
           \/ \E j \in Jobs : job[j].pc = "none" /\ CollectRemoteMetricsAsync(j)
<1>1. CASE fetchClusterData \/ StoreRegion \/ handleOtherClusters
  <2>1. walker.pc # "end" /\ UNCHANGED <<main, closed, answer, secretAt, name, collect>>
    BY <1>1, Zenon DEF fetchClusterData, StoreRegion, handleOtherClusters, world
  <2> QED
    BY <2>1, WalkIsRemote, Zenon
<1>2. CASE handleRegionClusters
  <2>1. walker.pc = "region" /\ UNCHANGED <<main, closed, answer, secretAt, name>>
    BY <1>2, Zenon DEF handleRegionClusters, CollectRemoteMetricsAsync, world
  <2>2. CASE walker.todo # <<>> /\ CollectRemoteMetricsAsync(<<walker.todo[1], "region">>)
    <3>1. walker.todo[1] \in Range(walker.todo) /\ walker.todo[1] \in ClusterSet
      BY <2>2, TailFacts, Zenon DEF Walk
    <3>2. <<walker.todo[1], "region">> \in Jobs /\ job[<<walker.todo[1], "region">>].pc = "none"
      BY <2>1, <3>1, Zenon DEF Handed, Jobs
    <3> QED
      BY <2>1, <2>2, <3>2, WalkIsRemote, Zenon
  <2>3. CASE UNCHANGED collect
    BY <2>1, <2>3, WalkIsRemote, Zenon
  <2> QED
    BY <1>2, <2>2, <2>3, Zenon DEF handleRegionClusters
<1>3. ASSUME NEW j \in Tasks, ClientFails(j) \/ createAndSendKubeClient(j) \/ Store(j)
      PROVE /\ main = "remote" /\ UNCHANGED <<main, closed, answer, secretAt, name>>
            /\ \/ UNCHANGED collect
               \/ \E i \in Jobs : job[i].pc = "none" /\ CollectRemoteMetricsAsync(i)
  <2>1. j \in Walking /\ UNCHANGED <<main, closed, answer, secretAt, name>>
    BY <1>3, Zenon DEF ClientFails, createAndSendKubeClient, Store, CollectRemoteMetricsAsync, Walking,
                Walk, world
  <2>2. main = "remote"
    BY <2>1, WalkIsRemote, Zenon
  <2>3. createAndSendKubeClient(j) => j \in Jobs /\ job[j].pc = "none" /\ CollectRemoteMetricsAsync(j)
    BY Zenon DEF createAndSendKubeClient, Handed, Jobs
  <2>4. ClientFails(j) \/ Store(j) => UNCHANGED collect
    BY Zenon DEF ClientFails, Store
  <2> QED
    BY <1>3, <2>1, <2>2, <2>3, <2>4, ZenonT(60)
<1> QED
  BY <1>1, <1>2, <1>3, Zenon DEF collectRemoteClusterKubeClients, Walk

\* Every step of the request keeps the invariant: a goroutine is counted once, before
\* it starts and until it ends.
LEMMA NextInv == ASSUME IInv, GetMetrics PROVE IInv'
<1> USE DEF IInv
<1>1. CASE collectRemoteClusterKubeClients
  <2>1. /\ main = "remote" /\ UNCHANGED <<main, closed>>
        /\ \/ UNCHANGED collect
           \/ \E j \in Jobs : job[j].pc = "none" /\ CollectRemoteMetricsAsync(j)
    BY <1>1, WalkHands, Zenon
  <2>2. Walk' /\ Handed'
    BY <1>1, FetchWalk, RegionWalk, StoreRegionWalk, OtherWalk, TaskWalk, ZenonT(60)
       DEF collectRemoteClusterKubeClients, Walk
  <2>3. /\ IsFiniteSet(Walking')
        /\ walkWg' = Cardinality(Walking') + (IF walker'.pc = "end" THEN 0 ELSE 1)
    BY <1>1, WalkCount, Zenon
  <2>4. /\ Collectors' /\ IsFiniteSet(Collecting') /\ IsFiniteSet(Sending')
        /\ wg' = Cardinality(Collecting') + Cardinality(Sending')
    <3>1. CASE UNCHANGED collect
      <4>1. UNCHANGED <<job, pod, wg>>
        BY <3>1, Zenon DEF collect
      <4> QED
        BY <4>1, Zenon DEF Collectors, Counted, Collecting, Sending
    <3>2. ASSUME NEW j \in Jobs, job[j].pc = "none", CollectRemoteMetricsAsync(j)
          PROVE /\ Collectors' /\ IsFiniteSet(Collecting') /\ IsFiniteSet(Sending')
                /\ wg' = Cardinality(Collecting') + Cardinality(Sending')
      <4>1. Collectors' /\ Collecting' = Collecting \cup {j} /\ j \notin Collecting /\ Sending' = Sending
        BY <3>2, StartCollectors, Zenon
      <4>2. wg' = wg + 1
        BY <3>2, Zenon DEF CollectRemoteMetricsAsync
      <4>3. IsFiniteSet(Collecting') /\ Cardinality(Collecting') = Cardinality(Collecting) + 1
        BY <4>1, CountFacts, Zenon DEF Counted
      <4>4. Cardinality(Collecting) \in Nat /\ Cardinality(Sending) \in Nat
        BY FS_CardinalityType, Zenon DEF Counted
      <4> QED
        BY <4>1, <4>2, <4>3, <4>4 DEF Counted
    <3> QED
      BY <2>1, <3>1, <3>2, Zenon
  <2>5. Closing'
    BY <2>1, Zenon DEF Closing
  <2> QED
    BY <2>2, <2>3, <2>4, <2>5, Zenon DEF Counted
<1>2. ASSUME NEW j \in Jobs, CollectMetrics(j) PROVE IInv'
  <2>1. /\ Collectors' /\ IsFiniteSet(Collecting') /\ IsFiniteSet(Sending') /\ j \in Collecting
        /\ wg' = Cardinality(Collecting') + Cardinality(Sending')
        /\ \A i \in Jobs : job[i].pc = "none" => job'[i].pc = "none"
    BY <1>2, CollectorStep, Zenon
  <2>2. UNCHANGED <<walker, task, walkWg, main, closed>>
    BY <1>2, Zenon DEF CollectMetrics, ListResources, GetPods, SendStatus, walk
  <2>3. Walk' /\ Handed'
    BY <2>1, <2>2, RestWalk, Zenon DEF Walk
  <2>4. Walking' = Walking
    BY <2>2, Zenon DEF Walking
  <2>5. Closing'
    BY <2>1, <2>2, ZeroFacts, Zenon DEF Closing
  <2> QED
    BY <2>1, <2>2, <2>3, <2>4, <2>5, Zenon DEF Counted
<1>3. ASSUME NEW q \in PodJobs, CollectAll(q) PROVE IInv'
  <2>1. /\ Collectors' /\ IsFiniteSet(Sending') /\ q \in Sending
        /\ wg' = Cardinality(Collecting) + Cardinality(Sending')
    BY <1>3, PodStep, Zenon
  <2>2. UNCHANGED <<walker, task, walkWg, main, closed, job>>
    BY <1>3, Zenon DEF CollectAll, walk
  <2>3. Walk' /\ Handed'
    BY <2>2, RestWalk, Zenon DEF Walk
  <2>4. Walking' = Walking /\ Collecting' = Collecting
    BY <2>2, Zenon DEF Walking, Collecting
  <2>5. Closing'
    BY <2>1, <2>2, ZeroFacts, Zenon DEF Closing
  <2> QED
    BY <2>1, <2>2, <2>3, <2>4, <2>5, Zenon DEF Counted
<1>4. CASE Drain \/ Close \/ Answer
  <2>1. /\ UNCHANGED <<walker, task, walkWg, job, pod, wg>>
        /\ main' \in {"remote", "drain", "done"}
    BY <1>4, Zenon DEF Drain, Close, Answer, walk, collect, Walk
  <2>2. Walk' /\ Handed'
    BY <2>1, RestWalk, Zenon
  <2>3. Collectors' /\ Counted'
    BY <2>1, Zenon DEF Collectors, Counted, Walking, Collecting, Sending
  <2>4. Closing'
    BY <1>4, <2>1 DEF Drain, Close, Answer, Closing
  <2> QED
    BY <2>2, <2>3, <2>4, Zenon
<1> QED
  BY <1>1, <1>2, <1>3, <1>4, Zenon DEF GetMetrics

\* At first there is the walker, and the collector of the management cluster.
LEMMA InitInv == Init => IInv
<1> SUFFICES ASSUME Init PROVE IInv
  OBVIOUS
<1>1. <<>> \in Seq(ClusterSet) /\ IsInjective(<<>>) /\ Range(<<>>) = {} /\ <<>> \in Seq(AnyResource)
  BY DEF IsInjective, Range
<1>2. Walk
  BY <1>1, Zenon DEF Init, Walk, Tasks
<1>3. \A j \in Jobs : j[1] = Local <=> j = <<Local, "local">>
  BY ListAssumption DEF Jobs, Tasks
<1>4. \A j \in Tasks : j \in Jobs /\ j[1] # Local
  BY ListAssumption, Zenon DEF Jobs, Tasks
<1>5. \A c \in ClusterSet : <<c, "region">> \in Jobs /\ c # Local
  BY ListAssumption, Zenon DEF Jobs
<1>6. Handed
  BY <1>4, <1>5, Zenon DEF Init, Handed, Idle
<1>7. Collectors
  BY <1>1, Zenon DEF Init, Collectors, Idle
<1>8. Walking = {} /\ Sending = {}
  BY Zenon DEF Init, Walking, Sending
<1>9. Collecting = {<<Local, "local">>}
  <2>1. <<Local, "local">> \in Jobs
    BY Zenon DEF Jobs
  <2>2. \A j \in Jobs : job[j].pc = IF j = <<Local, "local">> THEN "list" ELSE "none"
    BY <1>3, Zenon DEF Init, Idle
  <2> QED
    BY <2>1, <2>2, Zenon DEF Collecting
<1>10. /\ IsFiniteSet({}) /\ Cardinality({}) = 0
       /\ IsFiniteSet({<<Local, "local">>}) /\ Cardinality({<<Local, "local">>}) = 1
  BY FS_EmptySet, FS_Singleton, Zenon
<1>11. Counted
  BY <1>8, <1>9, <1>10, SMTT(20) DEF Init, Counted
<1> QED
  BY <1>2, <1>6, <1>7, <1>11, Zenon DEF Init, IInv, Closing

\* The invariant holds in every state of every request: each goroutine is counted by its
\* wait group from before it starts until it ends (Add, Done).
THEOREM Invariance == Spec => []IInv
<1>1. ASSUME IInv, UNCHANGED vars PROVE IInv'
  <2>1. UNCHANGED <<main, walker, task, walkWg, job, pod, wg, closed>>
    BY <1>1, Zenon DEF vars
  <2> QED
    BY <1>1, <2>1, ZenonT(60) DEF IInv, Walk, Handed, Collectors, Counted, Closing, Walking, Collecting, Sending
<1> QED
  BY <1>1, InitInv, NextInv, PTL DEF Spec

\* Nobody sends on the closed channel of messages, no collector starts after the walk was
\* waited for, and no wait group falls below zero, whatever calls fail and in whatever
\* order the goroutines run (GetMetrics, CollectRemoteMetricsAsync, CollectMetrics).
THEOREM NoSendAfterCloseHolds == Spec => []NoSendAfterClose
<1>1. IInv => NoSendAfterClose
  BY ZeroFacts DEF IInv, Closing, NoSendAfterClose
<1> QED
  BY <1>1, Invariance, PTL

----------------------------------------------------------------------------
(* What a pod's goroutine has done.                                        *)

Metrics == {"healthy", "reason", "usage", "limit", "internal"}

\* The pod's goroutine was started.
Started(q) ==
  /\ job[q[1]].pc \in {"pods", "status", "end"} /\ q[2] \notin Range(job[q[1]].todo)
  /\ <<"list", q[1]>> \notin failed /\ <<"pods", q[1], q[2]>> \notin failed

\* What it does after it has sent a metric, or would have.
Stages(m) ==
  IF m \in {"healthy", "reason"} THEN {"resources", "internal", "none"}
  ELSE IF m \in {"usage", "limit"} THEN {"internal", "none"} ELSE {"none"}

Past(q, m) == Started(q) /\ pod[q] \in Stages(m)

PodCalls(q) == {<<"usage", q>>, <<"limits", q>>, <<"internal", q>>} \cap failed

\* A collector's calls fail when it makes them.
Calls ==
  \A j \in Jobs :
    /\ job[j].pc \in {"none", "list", "end"} => job[j].todo = <<>>
    /\ job[j].pc # "end" => <<"list", j>> \notin failed
    /\ \A cr \in Range(Resources[j[1]]) :
         job[j].pc \in {"none", "list"} \/ cr \in Range(job[j].todo) => <<"pods", j, cr>> \notin failed

\* And so do a pod's.
Fresh ==
  \A q \in PodJobs :
    /\ pod[q] # "none" => Started(q)
    /\ ~Past(q, "usage") => <<"usage", q>> \notin failed /\ <<"limits", q>> \notin failed
    /\ ~Past(q, "internal") => <<"internal", q>> \notin failed

\* A step that does nothing for a pod, or starts its goroutine.
KeepsPod(q) ==
  /\ PodCalls(q)' = PodCalls(q)
  /\ \/ (Started(q)' <=> Started(q)) /\ pod'[q] = pod[q]
     \/ ~Started(q) /\ Started(q)' /\ pod'[q] = "health"

\* The parts of a pod's goroutine.
LEMMA PodFacts ==
  ASSUME NEW q \in PodJobs
  PROVE /\ q = <<q[1], q[2], q[3]>> /\ q[1] \in Jobs /\ q[1][1] \in ClusterSet \cup {Local}
        /\ q[2] \in Range(Resources[q[1][1]]) /\ q[3] \in Pods[q[2]]
<1>1. PICK j \in Jobs : \E cr \in Range(Resources[j[1]]) : \E p \in Pods[cr] : q = <<j, cr, p>>
  BY DEF PodJobs, PodsOf
<1>4. PICK cr \in Range(Resources[j[1]]) : \E p \in Pods[cr] : q = <<j, cr, p>>
  BY <1>1, Zenon
<1>5. PICK p \in Pods[cr] : q = <<j, cr, p>>
  BY <1>4, Zenon
<1>2. j[1] \in ClusterSet \cup {Local}
  BY DEF Jobs, Tasks
<1>3. q[1] = j /\ q[2] = cr /\ q[3] = p
  BY <1>5
<1> QED
  BY <1>2, <1>3, <1>5, Zenon

\* The calls of the walk, of the collectors and of the pods are different calls.
LEMMA OtherCalls ==
  ASSUME NEW f, f[1] \in {"lists", "regions", "client", "list", "pods"}, failed' = failed \cup {f}
  PROVE \A q : PodCalls(q)' = PodCalls(q)
<1> SUFFICES ASSUME NEW q PROVE PodCalls(q)' = PodCalls(q)
  OBVIOUS
<1>1. f # <<"usage", q>> /\ f # <<"limits", q>> /\ f # <<"internal", q>>
  OBVIOUS
<1> QED
  BY <1>1, Zenon DEF PodCalls

\* The calls of the walk.
WalkCall(f) == f[1] \in {"lists", "regions", "client"}

\* They are not those of a collector.
LEMMA WalkCalls ==
  ASSUME NEW f, WalkCall(f), failed' = failed \cup {f}
  PROVE /\ \A q : PodCalls(q)' = PodCalls(q)
        /\ \A j, cr : f # <<"list", j>> /\ f # <<"pods", j, cr>>
<1>1. \A j, cr : f # <<"list", j>> /\ f # <<"pods", j, cr>>
  BY DEF WalkCall
<1> QED
  BY <1>1, OtherCalls DEF WalkCall

\* A step of the walk makes other calls than the collectors.
LEMMA WalkFails ==
  ASSUME collectRemoteClusterKubeClients
  PROVE failed' = failed \/ \E f : WalkCall(f) /\ failed' = failed \cup {f}
<1> DEFINE Fails == \E f : WalkCall(f) /\ failed' = failed \cup {f}
<1>1. /\ WalkCall(<<"lists">>) /\ WalkCall(<<"regions">>)
      /\ \A c, p : WalkCall(<<"client", c, p>>)
  BY DEF WalkCall
<1>2. \A f : WalkCall(f) /\ FailsAt(f) => Fails
  BY Zenon DEF FailsAt
<1>3. /\ FailsAt(<<"lists">>) \/ FailsAt(<<"regions">>) => Fails
      /\ \A c, p : FailsAt(<<"client", c, p>>) => Fails
  BY <1>1, <1>2, Zenon
<1> SUFFICES failed' = failed \/ Fails
  OBVIOUS
<1> HIDE DEF Fails
<1>4. CASE fetchClusterData
  BY <1>3, <1>4, Zenon DEF fetchClusterData, Succeeds
<1>5. CASE handleRegionClusters
  BY <1>3, <1>5, Zenon DEF handleRegionClusters, ReadsClient, NoClient, Succeeds
<1>6. CASE StoreRegion \/ handleOtherClusters
  BY <1>6, Zenon DEF StoreRegion, handleOtherClusters
<1>7. ASSUME NEW j, ClientFails(j) \/ createAndSendKubeClient(j) \/ Store(j) PROVE failed' = failed \/ Fails
  BY <1>3, <1>7, Zenon DEF ClientFails, createAndSendKubeClient, Store, ReadsClient, NoClient, Succeeds
<1> QED
  BY <1>4, <1>5, <1>6, <1>7, Zenon DEF collectRemoteClusterKubeClients

\* The walk does nothing for the pods.
LEMMA WalkKeeps ==
  ASSUME Walk, Handed, Collectors, Counted, Closing, Calls, collectRemoteClusterKubeClients
  PROVE Calls' /\ \A q \in PodJobs : KeepsPod(q)
<1>1. /\ pod' = pod
      /\ \A i \in Jobs : \/ job'[i] = job[i]
                         \/ job[i].pc = "none" /\ job'[i] = [pc |-> "list", todo |-> <<>>]
  <2>1. CASE UNCHANGED collect
    BY <2>1, Zenon DEF collect
  <2>2. ASSUME NEW j \in Jobs, job[j].pc = "none", CollectRemoteMetricsAsync(j)
        PROVE /\ pod' = pod
              /\ \A i \in Jobs : \/ job'[i] = job[i]
                                 \/ job[i].pc = "none" /\ job'[i] = [pc |-> "list", todo |-> <<>>]
    BY <2>2, Zenon DEF CollectRemoteMetricsAsync, Collectors
  <2> QED
    BY <2>1, <2>2, WalkHands, Zenon
<1>2. /\ \A q : PodCalls(q)' = PodCalls(q)
      /\ \A j, cr : /\ <<"list", j>> \in failed' <=> <<"list", j>> \in failed
                    /\ <<"pods", j, cr>> \in failed' <=> <<"pods", j, cr>> \in failed
  <2>1. CASE failed' = failed
    BY <2>1, Zenon DEF PodCalls
  <2>2. ASSUME NEW f, WalkCall(f), failed' = failed \cup {f}
        PROVE /\ \A q : PodCalls(q)' = PodCalls(q)
              /\ \A j, cr : /\ <<"list", j>> \in failed' <=> <<"list", j>> \in failed
                            /\ <<"pods", j, cr>> \in failed' <=> <<"pods", j, cr>> \in failed
    BY <2>2, WalkCalls, Zenon
  <2> QED
    BY <2>1, <2>2, WalkFails, Zenon
<1>3. ASSUME NEW i \in Jobs, job'[i] # job[i]
      PROVE job[i].pc = "none" /\ job'[i].pc = "list" /\ job'[i].todo = <<>>
  <2>1. job[i].pc = "none" /\ job'[i] = [pc |-> "list", todo |-> <<>>]
    BY <1>1, <1>3, Zenon
  <2> QED
    BY <2>1
<1>4. Calls'
  <2> SUFFICES ASSUME NEW j \in Jobs
               PROVE /\ job'[j].pc \in {"none", "list", "end"} => job'[j].todo = <<>>
                     /\ job'[j].pc # "end" => <<"list", j>> \notin failed'
                     /\ \A cr \in Range(Resources[j[1]]) :
                          job'[j].pc \in {"none", "list"} \/ cr \in Range(job'[j].todo) =>
                            <<"pods", j, cr>> \notin failed'
    BY Zenon DEF Calls
  <2>1. CASE job'[j] = job[j]
    BY <1>2, <2>1, Zenon DEF Calls
  <2>2. CASE job'[j] # job[j]
    <3>1. job[j].pc = "none" /\ job'[j].todo = <<>>
      BY <1>1, <1>3, <2>2, Zenon
    <3> QED
      BY <1>2, <3>1, Zenon DEF Calls
  <2> QED
    BY <2>1, <2>2, Zenon
<1>5. ASSUME NEW q \in PodJobs PROVE KeepsPod(q)
  <2>1. q[1] \in Jobs
    BY PodFacts, Zenon
  <2>2. CASE job'[q[1]] = job[q[1]]
    BY <1>1, <1>2, <2>2, Zenon DEF KeepsPod, Started
  <2>3. CASE job'[q[1]] # job[q[1]]
    <3>1. job[q[1]].pc = "none" /\ job'[q[1]].pc = "list"
      BY <1>1, <1>3, <2>1, <2>3, Zenon
    <3>2. ~Started(q) /\ ~Started(q)'
      BY <3>1, Zenon DEF Started
    <3> QED
      BY <1>1, <1>2, <3>2, Zenon DEF KeepsPod
  <2> QED
    BY <2>2, <2>3, Zenon
<1> QED
  BY <1>4, <1>5, Zenon

\* What a collector's own call changes.
LEMMA CollectorCalls ==
  ASSUME NEW f, NEW j, NEW cr, f = <<"list", j>> \/ f = <<"pods", j, cr>>, failed' = failed \cup {f}
  PROVE /\ \A q : PodCalls(q)' = PodCalls(q)
        /\ \A i, c : /\ i # j => /\ <<"list", i>> \in failed' <=> <<"list", i>> \in failed
                                 /\ <<"pods", i, c>> \in failed' <=> <<"pods", i, c>> \in failed
                     /\ f = <<"pods", j, cr>> =>
                          /\ <<"list", j>> \in failed' <=> <<"list", j>> \in failed
                          /\ c # cr => (<<"pods", j, c>> \in failed' <=> <<"pods", j, c>> \in failed)
                     /\ f = <<"list", j>> => (<<"pods", j, c>> \in failed' <=> <<"pods", j, c>> \in failed)
<1>1. f[1] \in {"list", "pods"}
  OBVIOUS
<1>2. \A q : PodCalls(q)' = PodCalls(q)
  BY <1>1, OtherCalls
<1>3. /\ \A i, c : i # j => f # <<"list", i>> /\ f # <<"pods", i, c>>
      /\ f = <<"pods", j, cr>> => f # <<"list", j>> /\ \A c : c # cr => f # <<"pods", j, c>>
      /\ f = <<"list", j>> => \A c : f # <<"pods", j, c>>
  OBVIOUS
<1> QED
  BY <1>2, <1>3, Zenon

\* A collector lists its custom resources: none of its pods is started yet.
LEMMA ListKeeps ==
  ASSUME Collectors, Calls, NEW j \in Jobs, ListResources(j)
  PROVE Calls' /\ \A q \in PodJobs : KeepsPod(q)
<1>1. job[j].pc = "list" /\ job[j].todo = <<>> /\ pod' = pod
  BY Zenon DEF ListResources, Calls
<1>2. /\ \A i \in Jobs : i # j => job'[i] = job[i]
      /\ \/ job'[j] = [pc |-> "pods", todo |-> Resources[j[1]]] /\ failed' = failed
         \/ /\ job'[j].pc = "end" /\ job'[j].todo = <<>>
            /\ (Resources[j[1]] = <<>> /\ failed' = failed) \/ failed' = failed \cup {<<"list", j>>}
  BY <1>1, Zenon DEF ListResources, Succeeds, FailsAt, Collectors
<1>3. /\ \A q : PodCalls(q)' = PodCalls(q)
      /\ \A i, c : /\ i # j => /\ <<"list", i>> \in failed' <=> <<"list", i>> \in failed
                               /\ <<"pods", i, c>> \in failed' <=> <<"pods", i, c>> \in failed
                   /\ <<"pods", j, c>> \in failed' <=> <<"pods", j, c>> \in failed
  <2>1. CASE failed' = failed
    BY <2>1, Zenon DEF PodCalls
  <2>2. CASE failed' = failed \cup {<<"list", j>>}
    BY <2>2, CollectorCalls, Zenon
  <2> QED
    BY <1>2, <2>1, <2>2, Zenon
<1>4. /\ job'[j].pc = "pods" => job'[j].todo = Resources[j[1]] /\ failed' = failed
      /\ job'[j].pc \in {"pods", "end"}
      /\ job'[j].pc = "end" => job'[j].todo = <<>> /\ (Resources[j[1]] = <<>> \/ <<"list", j>> \in failed')
  BY <1>2
<1>5. Calls'
  <2> SUFFICES ASSUME NEW i \in Jobs
               PROVE /\ job'[i].pc \in {"none", "list", "end"} => job'[i].todo = <<>>
                     /\ job'[i].pc # "end" => <<"list", i>> \notin failed'
                     /\ \A cr \in Range(Resources[i[1]]) :
                          job'[i].pc \in {"none", "list"} \/ cr \in Range(job'[i].todo) =>
                            <<"pods", i, cr>> \notin failed'
    BY Zenon DEF Calls
  <2>1. CASE i # j
    BY <1>2, <1>3, <2>1, Zenon DEF Calls
  <2>2. CASE i = j
    BY <1>1, <1>3, <1>4, <2>2, Zenon DEF Calls
  <2> QED
    BY <2>1, <2>2, Zenon
<1>6. ASSUME NEW q \in PodJobs PROVE KeepsPod(q)
  <2>1. q[1] \in Jobs /\ q[2] \in Range(Resources[q[1][1]])
    BY PodFacts, Zenon
  <2>2. CASE q[1] # j
    BY <1>1, <1>2, <1>3, <2>1, <2>2, Zenon DEF KeepsPod, Started
  <2>3. CASE q[1] = j
    <3>1. ~Started(q)
      BY <1>1, <2>3, Zenon DEF Started
    <3>2. Range(<<>>) = {}
      BY DEF Range
    <3>3. ~Started(q)'
      BY <1>4, <2>1, <2>3, <3>2, Zenon DEF Started
    <3> QED
      BY <1>1, <1>3, <3>1, <3>3, Zenon DEF KeepsPod
  <2> QED
    BY <2>2, <2>3, Zenon
<1> QED
  BY <1>5, <1>6, Zenon

\* A collector goes on to the next custom resource, having started the pods of this one
\* or having failed to list them.
LEMMA AdvanceKeeps ==
  ASSUME Collectors, Calls, NEW j \in Jobs, job[j].pc \in {"pods", "status"}, NEW n, Advance(j, n),
         NEW cr, cr = job[j].todo[1],
         \/ /\ failed' = failed
            /\ pod' = [q \in DOMAIN pod |-> IF q[1] = j /\ q[2] = cr THEN "health" ELSE pod[q]]
         \/ failed' = failed \cup {<<"pods", j, cr>>} /\ pod' = pod
  PROVE Calls' /\ \A q \in PodJobs : KeepsPod(q)
<1>1. /\ cr \in Range(Resources[j[1]]) /\ cr \in Range(job[j].todo)
      /\ \A i \in Jobs : i # j => job'[i] = job[i]
      /\ job'[j].todo = Tail(job[j].todo)
      /\ job'[j].pc = IF Tail(job[j].todo) = <<>> THEN "end" ELSE "pods"
      /\ Range(Tail(job[j].todo)) = Range(job[j].todo) \ {cr}
  <2>1. /\ job[j].todo \in Seq(AnyResource) /\ job[j].todo # <<>> /\ IsInjective(job[j].todo)
    BY Zenon DEF Collectors
  <2> QED
    BY <2>1, AdvanceFacts, TailFacts, Zenon
<1>2. /\ \A q : PodCalls(q)' = PodCalls(q)
      /\ \A i, c : /\ i # j => /\ <<"list", i>> \in failed' <=> <<"list", i>> \in failed
                               /\ <<"pods", i, c>> \in failed' <=> <<"pods", i, c>> \in failed
                   /\ <<"list", j>> \in failed' <=> <<"list", j>> \in failed
                   /\ c # cr => (<<"pods", j, c>> \in failed' <=> <<"pods", j, c>> \in failed)
  <2>1. CASE failed' = failed
    BY <2>1, Zenon DEF PodCalls
  <2>2. CASE failed' = failed \cup {<<"pods", j, cr>>}
    BY <2>2, CollectorCalls, Zenon
  <2> QED
    BY <2>1, <2>2, Zenon
<1>3. job'[j].pc \in {"pods", "end"} /\ (job'[j].pc = "end" => job'[j].todo = <<>>)
  BY <1>1, Zenon
<1>4. Calls'
  <2> SUFFICES ASSUME NEW i \in Jobs
               PROVE /\ job'[i].pc \in {"none", "list", "end"} => job'[i].todo = <<>>
                     /\ job'[i].pc # "end" => <<"list", i>> \notin failed'
                     /\ \A c \in Range(Resources[i[1]]) :
                          job'[i].pc \in {"none", "list"} \/ c \in Range(job'[i].todo) =>
                            <<"pods", i, c>> \notin failed'
    BY Zenon DEF Calls
  <2>1. CASE i # j
    <3>1. job'[i] = job[i]
      BY <1>1, <2>1, Zenon
    <3>2. /\ <<"list", i>> \in failed' <=> <<"list", i>> \in failed
          /\ \A c : <<"pods", i, c>> \in failed' <=> <<"pods", i, c>> \in failed
      BY <1>2, <2>1, Zenon
    <3> QED
      BY <3>1, <3>2, Zenon DEF Calls
  <2>2. CASE i = j
    BY <1>1, <1>2, <1>3, <2>2, Zenon DEF Calls
  <2> QED
    BY <2>1, <2>2, Zenon
<1>5. ASSUME NEW q \in PodJobs PROVE KeepsPod(q)
  <2>1. q[1] \in Jobs /\ q[2] \in Range(Resources[q[1][1]]) /\ DOMAIN pod = PodJobs
    BY PodFacts, Zenon DEF Collectors
  <2>2. CASE q[1] # j
    <3>1. pod'[q] = pod[q]
      BY <2>1, <2>2, Zenon
    <3> QED
      BY <1>1, <1>2, <2>1, <2>2, <3>1, Zenon DEF KeepsPod, Started
  <2>3. CASE q[1] = j /\ q[2] # cr
    <3>1. pod'[q] = pod[q]
      BY <2>1, <2>3, Zenon
    <3>2. Started(q)' <=> Started(q)
      BY <1>1, <1>2, <1>3, <2>3, Zenon DEF Started
    <3> QED
      BY <1>2, <3>1, <3>2, Zenon DEF KeepsPod
  <2>4. CASE q[1] = j /\ q[2] = cr
    <3>1. ~Started(q)
      BY <1>1, <2>4, Zenon DEF Started
    <3>2. CASE failed' = failed \cup {<<"pods", j, cr>>} /\ pod' = pod
      <4>1. ~Started(q)'
        BY <2>4, <3>2, Zenon DEF Started
      <4> QED
        BY <1>2, <3>1, <3>2, <4>1, Zenon DEF KeepsPod
    <3>3. CASE /\ failed' = failed
               /\ pod' = [p \in DOMAIN pod |-> IF p[1] = j /\ p[2] = cr THEN "health" ELSE pod[p]]
      <4>1. pod'[q] = "health"
        BY <2>1, <2>4, <3>3, Zenon
      <4>2. Started(q)'
        BY <1>1, <1>3, <2>4, <3>3, Zenon DEF Started, Calls
      <4> QED
        BY <1>2, <3>1, <4>1, <4>2, Zenon DEF KeepsPod
    <3> QED
      BY <3>2, <3>3, Zenon
  <2> QED
    BY <2>2, <2>3, <2>4, Zenon
<1> QED
  BY <1>4, <1>5, Zenon

\* A step of a collector starts goroutines or does nothing for the pods.
LEMMA CollectorKeeps ==
  ASSUME Collectors, Calls, NEW j \in Jobs, CollectMetrics(j)
  PROVE Calls' /\ \A q \in PodJobs : KeepsPod(q)
<1>1. PICK cr : cr = job[j].todo[1]
  OBVIOUS
<1>2. CASE ListResources(j)
  BY <1>2, ListKeeps, Zenon
<1>3. CASE job[j].pc \in {"pods", "status"} /\ failed' = failed /\ StartPods(j)
  BY <1>1, <1>3, AdvanceKeeps, Zenon DEF StartPods
<1>4. CASE /\ job[j].pc = "pods" /\ failed' = failed \cup {<<"pods", j, cr>>} /\ pod' = pod
           /\ Advance(j, 0)
  BY <1>1, <1>4, AdvanceKeeps, Zenon
<1>5. CASE /\ job[j].pc = "pods" /\ failed' = failed /\ pod' = pod
           /\ job' = [job EXCEPT ![j].pc = "status"]
  <2>1. /\ \A i \in Jobs : i # j => job'[i] = job[i]
        /\ job'[j].pc = "status" /\ job'[j].todo = job[j].todo
    BY <1>5, Zenon DEF Collectors
  <2>2. Calls'
    BY <1>5, <2>1, Zenon DEF Calls
  <2>3. ASSUME NEW q \in PodJobs PROVE KeepsPod(q)
    <3>1. q[1] \in Jobs
      BY PodFacts, Zenon
    <3>2. Started(q)' <=> Started(q)
      BY <1>5, <2>1, <3>1, Zenon DEF Started
    <3> QED
      BY <1>5, <3>2, Zenon DEF KeepsPod, PodCalls
  <2> QED
    BY <2>2, <2>3, Zenon
<1> QED
  BY <1>1, <1>2, <1>3, <1>4, <1>5, Zenon DEF CollectMetrics, GetPods, SendStatus, Succeeds, FailsAt

\* The freshness of the calls is kept by steps that do nothing for the pods.
LEMMA FreshKept ==
  ASSUME Fresh, \A q \in PodJobs : KeepsPod(q)
  PROVE Fresh' /\ \A q \in PodJobs : \A m \in Metrics : Past(q, m)' <=> Past(q, m)
<1>1. \A m : "health" \notin Stages(m)
  BY DEF Stages
<1>2. ASSUME NEW q \in PodJobs
      PROVE /\ \A m : Past(q, m)' <=> Past(q, m)
            /\ pod'[q] # "none" => Started(q)'
  BY <1>1, Zenon DEF KeepsPod, Past, Fresh
<1>3. ASSUME NEW q \in PodJobs
      PROVE \A k \in {"usage", "limits", "internal"} : <<k, q>> \in failed' <=> <<k, q>> \in failed
  <2>1. \A k \in {"usage", "limits", "internal"} : <<k, q>> \in failed <=> <<k, q>> \in PodCalls(q)
    BY Zenon DEF PodCalls
  <2>2. \A k \in {"usage", "limits", "internal"} : <<k, q>> \in failed' <=> <<k, q>> \in PodCalls(q)'
    BY Zenon DEF PodCalls
  <2> QED
    BY <2>1, <2>2, Zenon DEF KeepsPod
<1>4. Fresh'
  BY <1>2, <1>3, Zenon DEF Fresh
<1> QED
  BY <1>2, <1>4, Zenon

\* A step of a pod's goroutine makes the calls of that pod alone.
LEMMA PodFails ==
  ASSUME NEW q \in PodJobs, CollectAll(q)
  PROVE /\ \A p \in PodJobs : p # q => PodCalls(p)' = PodCalls(p)
        /\ \A j, cr : /\ <<"list", j>> \in failed' <=> <<"list", j>> \in failed
                      /\ <<"pods", j, cr>> \in failed' <=> <<"pods", j, cr>> \in failed
<1>1. failed' = failed \/ \E k \in {"usage", "limits", "internal"} : failed' = failed \cup {<<k, q>>}
  BY Zenon DEF CollectAll, CollectHealth, CollectResources, CollectInternal, Succeeds, FailsAt
<1>2. CASE failed' = failed
  BY <1>2, Zenon DEF PodCalls
<1>3. ASSUME NEW k \in {"usage", "limits", "internal"}, failed' = failed \cup {<<k, q>>}
      PROVE /\ \A p \in PodJobs : p # q => PodCalls(p)' = PodCalls(p)
            /\ \A j, cr : /\ <<"list", j>> \in failed' <=> <<"list", j>> \in failed
                          /\ <<"pods", j, cr>> \in failed' <=> <<"pods", j, cr>> \in failed
  <2>1. /\ \A p : p # q => \A l : <<l, p>> # <<k, q>>
        /\ \A j, cr : <<"list", j>> # <<k, q>> /\ <<"pods", j, cr>> # <<k, q>>
    OBVIOUS
  <2> QED
    BY <1>3, <2>1, Zenon DEF PodCalls
<1> QED
  BY <1>1, <1>2, <1>3, Zenon

\* It leaves the other pods alone.
LEMMA PodKeeps ==
  ASSUME Collectors, Calls, Fresh, NEW q \in PodJobs, CollectAll(q)
  PROVE /\ Calls' /\ Started(q) /\ Started(q)'
        /\ \A p \in PodJobs : p # q => KeepsPod(p) /\ \A m : Past(p, m)' <=> Past(p, m)
<1>1. /\ job' = job /\ pod[q] # "none" /\ \A p \in PodJobs : p # q => pod'[p] = pod[p]
  BY Zenon DEF CollectAll, CollectHealth, CollectResources, CollectInternal, Goto, Collectors
<1>2. \A p \in PodJobs : Started(p)' <=> Started(p)
  BY <1>1, PodFails, Zenon DEF Started
<1>3. Calls'
  BY <1>1, PodFails, Zenon DEF Calls
<1>4. Started(q)
  BY <1>1, Zenon DEF Fresh
<1> QED
  BY <1>1, <1>2, <1>3, <1>4, PodFails, Zenon DEF KeepsPod, Past

----------------------------------------------------------------------------
(* The answer.                                                             *)

Values == Seq(ClusterSet \cup {Local})

\* Every metric has a list of values.
AnswerType ==
  /\ answer = [metrics |-> answer.metrics, status |-> answer.status]
  /\ \A k \in DOMAIN answer.metrics : answer.metrics[k] \in Values

\* Adding metrics and a status (MetricsMap.Add, ClusterMap.AddStatus).
LEMMA AddFacts ==
  ASSUME AnswerType, NEW a, NEW ms, NEW v \in ClusterSet \cup {Local},
         answer'.metrics = AddMetrics(a, ms, v)
  PROVE /\ \A b, m : Entry(b, m) \in Values
        /\ \A b, m : Entry(b, m)' = IF b = a /\ m \in ms THEN Append(Entry(b, m), v) ELSE Entry(b, m)
        /\ \A k \in DOMAIN answer'.metrics : answer'.metrics[k] \in Values
<1> DEFINE sent == {<<a, m>> : m \in ms}
<1>1. \A b, m : Entry(b, m) \in Values
  <2>1. <<>> \in Values
    BY DEF Values
  <2> QED
    BY <2>1, Zenon DEF Entry, AnswerType
<1>2. \A b, m : Append(Entry(b, m), v) \in Values
  BY <1>1 DEF Values
<1>3. answer'.metrics = [k \in sent \cup DOMAIN answer.metrics |->
                           IF k \in sent THEN Append(Entry(a, k[2]), v) ELSE answer.metrics[k]]
  BY Zenon DEF AddMetrics
<1>4. \A b, m : <<b, m>> \in sent <=> b = a /\ m \in ms
  OBVIOUS
<1>5. \A b, m : <<b, m>>[2] = m
  OBVIOUS
<1> HIDE DEF sent
<1>6. ASSUME NEW b, NEW m
      PROVE Entry(b, m)' = IF b = a /\ m \in ms THEN Append(Entry(b, m), v) ELSE Entry(b, m)
  <2>1. CASE <<b, m>> \in sent
    <3>1. /\ <<b, m>> \in DOMAIN answer'.metrics
          /\ answer'.metrics[<<b, m>>] = Append(Entry(a, m), v)
      BY <1>3, <1>5, <2>1, Zenon
    <3> QED
      BY <1>4, <2>1, <3>1, Zenon DEF Entry
  <2>2. CASE <<b, m>> \notin sent
    <3>1. /\ <<b, m>> \in DOMAIN answer'.metrics <=> <<b, m>> \in DOMAIN answer.metrics
          /\ <<b, m>> \in DOMAIN answer.metrics => answer'.metrics[<<b, m>>] = answer.metrics[<<b, m>>]
      BY <1>3, <2>2, Zenon
    <3> QED
      BY <1>4, <2>2, <3>1, Zenon DEF Entry
  <2> QED
    BY <2>1, <2>2, Zenon
<1>7. ASSUME NEW k \in DOMAIN answer'.metrics PROVE answer'.metrics[k] \in Values
  <2>1. k \in sent \cup DOMAIN answer.metrics
    BY <1>3, Zenon
  <2>2. CASE k \in sent
    <3>1. answer'.metrics[k] = Append(Entry(a, k[2]), v)
      BY <1>3, <2>1, <2>2, Zenon
    <3> QED
      BY <1>2, <3>1, Zenon
  <2>3. CASE k \notin sent
    <3>1. answer'.metrics[k] = answer.metrics[k] /\ k \in DOMAIN answer.metrics
      BY <1>3, <2>1, <2>3, Zenon
    <3> QED
      BY <3>1, Zenon DEF AnswerType
  <2> QED
    BY <2>2, <2>3, Zenon
<1> QED
  BY <1>1, <1>6, <1>7, Zenon

\* A value is in the answer when it is one of the metric's.
LEMMA HasFacts ==
  ASSUME NEW q, NEW m
  PROVE Has(q, m) <=> \E i \in DOMAIN Entry(Address(q), m) : Entry(Address(q), m)[i] = q[1][1]
<1>1. DOMAIN <<>> = {}
  OBVIOUS
<1> QED
  BY <1>1, Zenon DEF Has, Entry

\* The same of the next state.
LEMMA HasNext ==
  ASSUME NEW q, NEW m, NEW a, a = Address(q)'
  PROVE Has(q, m)' <=> \E i \in DOMAIN Entry(a, m)' : Entry(a, m)'[i] = q[1][1]
<1>1. DOMAIN <<>> = {}
  OBVIOUS
<1> QED
  BY <1>1, Zenon DEF Has, Entry

\* A longer list has the values of the shorter one, and the new value.
LEMMA AppendFacts ==
  ASSUME NEW s \in Values, NEW v \in ClusterSet \cup {Local}
  PROVE /\ \A x : (\E i \in DOMAIN s : s[i] = x) => \E i \in DOMAIN Append(s, v) : Append(s, v)[i] = x
        /\ \E i \in DOMAIN Append(s, v) : Append(s, v)[i] = v
        /\ Len(Append(s, v)) = Len(s) + 1 /\ Len(s) \in Nat
<1>1. /\ Append(s, v) \in Values /\ Len(Append(s, v)) = Len(s) + 1 /\ Len(s) \in Nat
      /\ DOMAIN Append(s, v) = 1..(Len(s) + 1) /\ DOMAIN s = 1..Len(s)
      /\ \A i \in 1..Len(s) : Append(s, v)[i] = s[i]
      /\ Append(s, v)[Len(s) + 1] = v
  BY DEF Values
<1>2. /\ DOMAIN s \subseteq DOMAIN Append(s, v) /\ Len(s) + 1 \in DOMAIN Append(s, v)
  BY <1>1
<1> QED
  BY <1>1, <1>2, Zenon

\* What a pod's goroutine sends is added to what the answer has (sendMetric, error).
LEMMA SendsFacts ==
  ASSUME AnswerType, NEW q \in PodJobs, NEW ms, NEW error, Sends(q, ms, error), name' = name
  PROVE /\ AnswerType'
        /\ \A p : Address(p)' = Address(p)
        /\ \A m \in ms : Has(q, m)'
        /\ \A p, m : Has(p, m) => Has(p, m)'
        /\ \A a : a \in DOMAIN answer'.status <=> a \in DOMAIN answer.status \/ (error /\ a = Address(q))
        /\ \A b, m : /\ Len(Entry(b, m)) \in Nat
                     /\ b = Address(q) /\ m \in ms => Len(Entry(b, m))' = Len(Entry(b, m)) + 1
                     /\ b # Address(q) \/ m \notin ms => Len(Entry(b, m))' = Len(Entry(b, m))
<1>1. PICK a : a = Address(q)
  OBVIOUS
<1>2. PICK v \in ClusterSet \cup {Local} : v = q[1][1]
  BY PodFacts, Zenon
<1>3. \A p : Address(p)' = Address(p)
  BY Zenon DEF Address, Name
<1>4. /\ answer' = [metrics |-> AddMetrics(a, ms, v),
                    status |-> IF error THEN AddStatus(a, "error") ELSE answer.status]
  BY <1>1, <1>2, Zenon DEF Sends
<1>5. /\ answer'.metrics = AddMetrics(a, ms, v)
      /\ answer'.status = IF error THEN AddStatus(a, "error") ELSE answer.status
      /\ answer' = [metrics |-> answer'.metrics, status |-> answer'.status]
  BY <1>4, Zenon
<1>6. /\ \A b, m : Entry(b, m) \in Values
      /\ \A b, m : Entry(b, m)' = IF b = a /\ m \in ms THEN Append(Entry(b, m), v) ELSE Entry(b, m)
      /\ \A k \in DOMAIN answer'.metrics : answer'.metrics[k] \in Values
  <2>1. answer'.metrics = AddMetrics(a, ms, v)
    BY <1>5, Zenon
  <2> QED
    BY <2>1, AddFacts
<1>7. AnswerType'
  BY <1>5, <1>6, Zenon DEF AnswerType, Values
<1>8. \A b : b \in DOMAIN answer'.status <=> b \in DOMAIN answer.status \/ (error /\ b = a)
  BY <1>5, Zenon DEF AddStatus
<1>9. ASSUME NEW m \in ms PROVE Has(q, m)'
  <2>1. Entry(a, m)' = Append(Entry(a, m), v)
    BY <1>6, Zenon
  <2>2. \E i \in DOMAIN Entry(a, m)' : Entry(a, m)'[i] = v
    BY <1>6, <2>1, AppendFacts, Zenon
  <2>3. Has(q, m)' <=> \E i \in DOMAIN Entry(a, m)' : Entry(a, m)'[i] = v
    BY <1>1, <1>2, <1>3, HasNext, ZenonT(60)
  <2> QED
    BY <2>2, <2>3, Zenon
<1>10. ASSUME NEW p, NEW m, Has(p, m) PROVE Has(p, m)'
  <2>1. PICK b : b = Address(p)
    OBVIOUS
  <2>2. \E i \in DOMAIN Entry(b, m) : Entry(b, m)[i] = p[1][1]
    BY <1>10, <2>1, HasFacts, Zenon
  <2>3. \E i \in DOMAIN Entry(b, m)' : Entry(b, m)'[i] = p[1][1]
    <3>1. CASE b = a /\ m \in ms
      <4>1. Entry(b, m)' = Append(Entry(b, m), v)
        BY <1>6, <3>1, Zenon
      <4>2. \A x : (\E i \in DOMAIN Entry(b, m) : Entry(b, m)[i] = x) =>
              \E i \in DOMAIN Append(Entry(b, m), v) : Append(Entry(b, m), v)[i] = x
        <5>1. PICK e \in Values : e = Entry(b, m)
          BY <1>6, Zenon
        <5>2. \A x : (\E i \in DOMAIN e : e[i] = x) => \E i \in DOMAIN Append(e, v) : Append(e, v)[i] = x
          BY AppendFacts
        <5> QED
          BY <5>1, <5>2, Zenon
      <4> QED
        BY <2>2, <4>1, <4>2, Zenon
    <3>2. CASE ~(b = a /\ m \in ms)
      <4>1. Entry(b, m)' = Entry(b, m)
        BY <1>6, <3>2, Zenon
      <4> QED
        BY <2>2, <4>1, Zenon
    <3> QED
      BY <3>1, <3>2, Zenon
  <2>4. Has(p, m)' <=> \E i \in DOMAIN Entry(b, m)' : Entry(b, m)'[i] = p[1][1]
    BY <1>3, <2>1, HasNext, ZenonT(60)
  <2> QED
    BY <2>3, <2>4, Zenon
<1>11. ASSUME NEW b, NEW m
       PROVE /\ Len(Entry(b, m)) \in Nat
             /\ b = a /\ m \in ms => Len(Entry(b, m))' = Len(Entry(b, m)) + 1
             /\ b # a \/ m \notin ms => Len(Entry(b, m))' = Len(Entry(b, m))
  <2>1. Len(Entry(b, m)) \in Nat /\ Len(Append(Entry(b, m), v)) = Len(Entry(b, m)) + 1
    BY <1>6, AppendFacts, Zenon
  <2>2. CASE b = a /\ m \in ms
    BY <1>6, <2>1, <2>2, Zenon
  <2>3. CASE b # a \/ m \notin ms
    BY <1>6, <2>1, <2>3, Zenon
  <2> QED
    BY <2>1, <2>2, <2>3, Zenon
<1> QED
  BY <1>1, <1>3, <1>7, <1>8, <1>9, <1>10, <1>11, Zenon

\* The three steps of a pod's goroutine (CollectHealth, CollectResources, CollectInternal).
LEMMA PodSteps ==
  ASSUME Collectors, Calls, Fresh, NEW q \in PodJobs, CollectAll(q)
  PROVE LET Fails(k) == failed' = failed \cup {<<k, q>>}
        IN
        \/ /\ pod[q] = "health" /\ pod'[q] = "resources" /\ failed' = failed
           /\ Sends(q, {"healthy"} \cup (IF Ready[q[3]] = TRUE THEN {} ELSE {"reason"}), Ready[q[3]] = None)
        \/ /\ pod[q] = "resources" /\ pod'[q] = "internal"
           /\ \/ Fails("usage") /\ Sends(q, {}, TRUE)
              \/ Limits[q[3]] = None /\ failed' = failed /\ Sends(q, {"usage"}, TRUE)
              \/ Limits[q[3]] # None /\ failed' = failed /\ Sends(q, {"usage", "limit"}, FALSE)
              \/ Fails("limits") /\ Sends(q, {"usage"}, TRUE)
        \/ /\ pod[q] = "internal" /\ pod'[q] = "none"
           /\ \/ ~Port[q[3]] /\ failed' = failed /\ Sends(q, {}, TRUE)
              \/ Port[q[3]] /\ failed' = failed /\ Sends(q, {"internal"}, FALSE)
              \/ Port[q[3]] /\ Fails("internal") /\ Sends(q, {}, TRUE)
<1>1. q \in DOMAIN pod
  BY Zenon DEF Collectors
<1>2. CASE CollectHealth(q)
  BY <1>1, <1>2, Zenon DEF CollectHealth, Goto
<1>3. CASE CollectResources(q)
  BY <1>1, <1>3, Zenon DEF CollectResources, Goto, Succeeds, FailsAt
<1>4. CASE CollectInternal(q)
  BY <1>1, <1>4, Zenon DEF CollectInternal, Goto, Succeeds, FailsAt
<1> QED
  BY <1>2, <1>3, <1>4, Zenon DEF CollectAll

\* Which of the pod's metrics are behind it, before and after.
LEMMA StageFacts ==
  /\ \A q : /\ Past(q, "healthy") <=> Started(q) /\ pod[q] \in {"resources", "internal", "none"}
            /\ Past(q, "usage") <=> Started(q) /\ pod[q] \in {"internal", "none"}
            /\ Past(q, "internal") <=> Started(q) /\ pod[q] = "none"
            /\ Past(q, "reason") <=> Past(q, "healthy")
            /\ Past(q, "limit") <=> Past(q, "usage")
  /\ \A q : /\ Past(q, "healthy")' <=> Started(q)' /\ pod'[q] \in {"resources", "internal", "none"}
            /\ Past(q, "usage")' <=> Started(q)' /\ pod'[q] \in {"internal", "none"}
            /\ Past(q, "internal")' <=> Started(q)' /\ pod'[q] = "none"
            /\ Past(q, "reason")' <=> Past(q, "healthy")'
            /\ Past(q, "limit")' <=> Past(q, "usage")'
<1>1. /\ Stages("healthy") = {"resources", "internal", "none"} /\ Stages("reason") = Stages("healthy")
      /\ Stages("usage") = {"internal", "none"} /\ Stages("limit") = Stages("usage")
      /\ Stages("internal") = {"none"}
  BY DEF Stages
<1> QED
  BY <1>1, Zenon DEF Past

\* A pod's calls fail in its own steps only.
LEMMA CallsKept ==
  ASSUME NEW q, PodCalls(q)' = PodCalls(q)
  PROVE \A k \in {"usage", "limits", "internal"} : <<k, q>> \in failed' <=> <<k, q>> \in failed
<1>1. \A k \in {"usage", "limits", "internal"} : <<k, q>> \in failed <=> <<k, q>> \in PodCalls(q)
  BY Zenon DEF PodCalls
<1>2. \A k \in {"usage", "limits", "internal"} : <<k, q>> \in failed' <=> <<k, q>> \in PodCalls(q)'
  BY Zenon DEF PodCalls
<1> QED
  BY <1>1, <1>2, Zenon

\* Different calls of a pod.
LEMMA PodCallFacts ==
  ASSUME NEW q, NEW k \in {"usage", "limits", "internal"}, failed' = failed \cup {<<k, q>>}
  PROVE /\ <<k, q>> \in failed'
        /\ \A l : l # k => (<<l, q>> \in failed' <=> <<l, q>> \in failed)
<1>1. \A l : l # k => <<l, q>> # <<k, q>>
  OBVIOUS
<1> QED
  BY <1>1, Zenon

\* Something went wrong with the pod in what it has done so far.
Shown(r) ==
  \/ Past(r, "healthy") /\ Ready[r[3]] = None
  \/ Past(r, "usage") /\ (<<"usage", r>> \in failed \/ <<"limits", r>> \in failed \/ Limits[r[3]] = None)
  \/ Past(r, "internal") /\ (~Port[r[3]] \/ <<"internal", r>> \in failed)

\* The metrics a pod has sent are in the answer.
MetricsTold ==
  \A q \in PodJobs :
    /\ Past(q, "healthy") => Has(q, "healthy")
    /\ Past(q, "usage") /\ <<"usage", q>> \notin failed =>
         Has(q, "usage") /\ (Limits[q[3]] # None /\ <<"limits", q>> \notin failed => Has(q, "limit"))
    /\ Past(q, "internal") /\ Port[q[3]] /\ <<"internal", q>> \notin failed => Has(q, "internal")

\* An address has an error when a pod with this address had trouble.
ErrorsTold ==
  \A q \in PodJobs :
    Address(q) \in DOMAIN answer.status <=> \E r \in PodJobs : Address(r) = Address(q) /\ Shown(r)

\* A pod's step: what is new of its calls, of its metrics and of its troubles.
LEMMA PodNews ==
  ASSUME Collectors, Calls, Fresh, AnswerType, NEW q \in PodJobs, CollectAll(q)
  PROVE \E ms, error :
          /\ Sends(q, ms, error)
          /\ Shown(q)' <=> Shown(q) \/ error
          /\ \A m \in ms : Past(q, m)' /\ ~Past(q, m) /\ m \in Metrics
          /\ \A m : Past(q, m) => Past(q, m)'
          /\ ~Past(q, "usage")' => <<"usage", q>> \notin failed' /\ <<"limits", q>> \notin failed'
          /\ ~Past(q, "internal")' => <<"internal", q>> \notin failed'
          /\ Past(q, "healthy")' => Past(q, "healthy") \/ "healthy" \in ms
          /\ Past(q, "usage")' /\ <<"usage", q>> \notin failed' =>
               \/ "usage" \in ms /\ (Limits[q[3]] # None /\ <<"limits", q>> \notin failed' => "limit" \in ms)
               \/ Past(q, "usage") /\ (<<"usage", q>> \notin failed)
                  /\ (<<"limits", q>> \notin failed' => <<"limits", q>> \notin failed)
          /\ Past(q, "internal")' /\ Port[q[3]] /\ <<"internal", q>> \notin failed' => "internal" \in ms
<1> DEFINE News(ms, error) ==
          /\ Shown(q)' <=> Shown(q) \/ error
          /\ \A m \in ms : Past(q, m)' /\ ~Past(q, m) /\ m \in Metrics
          /\ \A m : Past(q, m) => Past(q, m)'
          /\ ~Past(q, "usage")' => <<"usage", q>> \notin failed' /\ <<"limits", q>> \notin failed'
          /\ ~Past(q, "internal")' => <<"internal", q>> \notin failed'
          /\ Past(q, "healthy")' => Past(q, "healthy") \/ "healthy" \in ms
          /\ Past(q, "usage")' /\ <<"usage", q>> \notin failed' =>
               \/ "usage" \in ms /\ (Limits[q[3]] # None /\ <<"limits", q>> \notin failed' => "limit" \in ms)
               \/ Past(q, "usage") /\ (<<"usage", q>> \notin failed)
                  /\ (<<"limits", q>> \notin failed' => <<"limits", q>> \notin failed)
          /\ Past(q, "internal")' /\ Port[q[3]] /\ <<"internal", q>> \notin failed' => "internal" \in ms
<1> SUFFICES \E ms, error : Sends(q, ms, error) /\ News(ms, error)
  BY Zenon
<1>1. Started(q) /\ Started(q)'
  BY PodKeeps, Zenon
<1>2. /\ ~Past(q, "usage") => <<"usage", q>> \notin failed /\ <<"limits", q>> \notin failed
      /\ ~Past(q, "internal") => <<"internal", q>> \notin failed
  BY Zenon DEF Fresh
<1>3. \A k \in {"usage", "limits", "internal"} :
        failed' = failed \cup {<<k, q>>} =>
          /\ <<k, q>> \in failed'
          /\ \A l : l # k => (<<l, q>> \in failed' <=> <<l, q>> \in failed)
  BY PodCallFacts, Zenon
<1>4. \A m : "health" \notin Stages(m) /\ ("resources" \in Stages(m) => "internal" \in Stages(m))
             /\ "none" \in Stages(m)
  BY DEF Stages
<1>5. CASE /\ pod[q] = "health" /\ pod'[q] = "resources" /\ failed' = failed
           /\ Sends(q, {"healthy"} \cup (IF Ready[q[3]] = TRUE THEN {} ELSE {"reason"}), Ready[q[3]] = None)
  <2>1. \A m : ~Past(q, m)
    BY <1>4, <1>5, Zenon DEF Past
  <2>2. Past(q, "healthy")' /\ Past(q, "reason")' /\ ~Past(q, "usage")' /\ ~Past(q, "internal")'
    BY <1>1, <1>5, StageFacts, Zenon
  <2>3. Shown(q)' <=> Shown(q) \/ Ready[q[3]] = None
    BY <2>1, <2>2, Zenon DEF Shown
  <2>4. News({"healthy"} \cup (IF Ready[q[3]] = TRUE THEN {} ELSE {"reason"}), Ready[q[3]] = None)
    BY <1>2, <1>5, <2>1, <2>2, <2>3, Zenon DEF Metrics
  <2> HIDE DEF News
  <2> QED
    BY <1>5, <2>4, Zenon
<1>6. CASE pod[q] = "resources" /\ pod'[q] = "internal"
  <2>1. /\ Past(q, "healthy") /\ ~Past(q, "usage") /\ ~Past(q, "limit") /\ ~Past(q, "internal")
        /\ Past(q, "healthy")' /\ Past(q, "usage")' /\ Past(q, "limit")' /\ ~Past(q, "internal")'
    BY <1>1, <1>6, StageFacts, Zenon
  <2>2. \A m : Past(q, m) => Past(q, m)'
    BY <1>1, <1>4, <1>6, Zenon DEF Past
  <2>3. CASE failed' = failed \cup {<<"usage", q>>} /\ Sends(q, {}, TRUE)
    <3>1. <<"usage", q>> \in failed' /\ <<"internal", q>> \notin failed'
      BY <1>2, <1>3, <2>1, <2>3, Zenon
    <3>2. News({}, TRUE)
      BY <2>1, <2>2, <3>1, Zenon DEF Shown
    <3> HIDE DEF News
    <3> QED
      BY <2>3, <3>2, Zenon
  <2>4. CASE Limits[q[3]] = None /\ failed' = failed /\ Sends(q, {"usage"}, TRUE)
    <3>1. News({"usage"}, TRUE)
      BY <1>2, <2>1, <2>2, <2>4, Zenon DEF Shown, Metrics
    <3> HIDE DEF News
    <3> QED
      BY <2>4, <3>1, Zenon
  <2>5. CASE Limits[q[3]] # None /\ failed' = failed /\ Sends(q, {"usage", "limit"}, FALSE)
    <3>1. Shown(q)' <=> Shown(q)
      BY <1>2, <2>1, <2>5, Zenon DEF Shown
    <3>2. News({"usage", "limit"}, FALSE)
      BY <1>2, <2>1, <2>2, <2>5, <3>1, Zenon DEF Metrics
    <3> HIDE DEF News
    <3> QED
      BY <2>5, <3>2, Zenon
  <2>6. CASE failed' = failed \cup {<<"limits", q>>} /\ Sends(q, {"usage"}, TRUE)
    <3>1. <<"limits", q>> \in failed' /\ <<"internal", q>> \notin failed'
      BY <1>2, <1>3, <2>1, <2>6, Zenon
    <3>2. News({"usage"}, TRUE)
      BY <2>1, <2>2, <3>1, Zenon DEF Shown, Metrics
    <3> HIDE DEF News
    <3> QED
      BY <2>6, <3>2, Zenon
  <2> HIDE DEF News
  <2> QED
    BY <1>6, <2>3, <2>4, <2>5, <2>6, PodSteps, Zenon
<1>7. CASE pod[q] = "internal" /\ pod'[q] = "none"
  <2>1. /\ Past(q, "healthy") /\ Past(q, "usage") /\ ~Past(q, "internal")
        /\ Past(q, "healthy")' /\ Past(q, "usage")' /\ Past(q, "internal")'
    BY <1>1, <1>7, StageFacts, Zenon
  <2>2. \A m : Past(q, m) => Past(q, m)'
    BY <1>1, <1>4, <1>7, Zenon DEF Past
  <2>3. CASE ~Port[q[3]] /\ failed' = failed /\ Sends(q, {}, TRUE)
    <3>1. News({}, TRUE)
      BY <2>1, <2>2, <2>3, Zenon DEF Shown
    <3> HIDE DEF News
    <3> QED
      BY <2>3, <3>1, Zenon
  <2>4. CASE Port[q[3]] /\ failed' = failed /\ Sends(q, {"internal"}, FALSE)
    <3>1. Shown(q)' <=> Shown(q)
      BY <1>2, <2>1, <2>4, Zenon DEF Shown
    <3>2. News({"internal"}, FALSE)
      BY <2>1, <2>2, <2>4, <3>1, Zenon DEF Metrics
    <3> HIDE DEF News
    <3> QED
      BY <2>4, <3>2, Zenon
  <2>5. CASE Port[q[3]] /\ failed' = failed \cup {<<"internal", q>>} /\ Sends(q, {}, TRUE)
    <3>1. /\ <<"internal", q>> \in failed'
          /\ <<"usage", q>> \in failed' <=> <<"usage", q>> \in failed
          /\ <<"limits", q>> \in failed' <=> <<"limits", q>> \in failed
      BY <1>3, <2>5, Zenon
    <3>2. News({}, TRUE)
      BY <2>1, <2>2, <3>1, Zenon DEF Shown
    <3> HIDE DEF News
    <3> QED
      BY <2>5, <3>2, Zenon
  <2> HIDE DEF News
  <2> QED
    BY <1>7, <2>3, <2>4, <2>5, PodSteps, Zenon
<1> HIDE DEF News
<1> QED
  BY <1>5, <1>6, <1>7, PodSteps, Zenon

\* A step that adds nothing about a pod to the answer.
Quiet ==
  /\ name' = name /\ AnswerType' /\ answer'.metrics = answer.metrics
  /\ \A q \in PodJobs : Address(q) \in DOMAIN answer'.status <=> Address(q) \in DOMAIN answer.status

\* The status of a custom resource is none of a pod (SendStatus).
LEMMA StatusQuiet ==
  ASSUME AnswerType, NEW j \in Jobs, SendStatus(j)
  PROVE Quiet
<1>1. PICK a, s : /\ a = <<Name(j[1]), job[j].todo[1], None>>
                  /\ answer' = [answer EXCEPT !.status = AddStatus(a, s)]
  BY Zenon DEF SendStatus
<1>2. name' = name
  BY Zenon DEF SendStatus, world
<1>3. /\ answer'.metrics = answer.metrics /\ answer'.status = AddStatus(a, s)
      /\ answer' = [metrics |-> answer'.metrics, status |-> answer'.status]
  BY <1>1 DEF AnswerType
<1>4. ASSUME NEW q \in PodJobs PROVE Address(q) # a
  <2>1. q[3] # None
    BY PodFacts, PlaceAssumption, Zenon
  <2> QED
    BY <1>1, <2>1 DEF Address
<1>5. DOMAIN answer'.status = {a} \cup DOMAIN answer.status
  BY <1>3, Zenon DEF AddStatus
<1>6. AnswerType'
  BY <1>3, Zenon DEF AnswerType
<1> QED
  BY <1>2, <1>3, <1>4, <1>5, <1>6, Zenon DEF Quiet

\* Only the collectors and the pods add to the answer.
LEMMA OthersQuiet ==
  ASSUME AnswerType, \/ collectRemoteClusterKubeClients \/ Drain \/ Close \/ Answer
                     \/ UNCHANGED vars \/ \E j \in Jobs : CollectMetrics(j)
  PROVE Quiet
<1>1. ASSUME UNCHANGED <<answer, world>> PROVE Quiet
  BY <1>1, Zenon DEF Quiet, AnswerType, world
<1>2. CASE collectRemoteClusterKubeClients
  BY <1>1, <1>2, Zenon DEF collectRemoteClusterKubeClients, fetchClusterData, handleRegionClusters,
     StoreRegion, handleOtherClusters, ClientFails, createAndSendKubeClient, Store
<1>3. CASE Drain \/ Close \/ Answer
  BY <1>1, <1>3, Zenon DEF Drain, Close, Answer
<1>4. CASE UNCHANGED vars
  BY <1>1, <1>4, Zenon DEF vars, world
<1>5. ASSUME NEW j \in Jobs, CollectMetrics(j) PROVE Quiet
  <2>1. CASE ListResources(j) \/ GetPods(j)
    BY <1>1, <2>1, Zenon DEF ListResources, GetPods
  <2> QED
    BY <1>5, <2>1, StatusQuiet, Zenon DEF CollectMetrics
<1> QED
  BY <1>2, <1>3, <1>4, <1>5, Zenon

\* Where no pod is at work the answer stays true.
LEMMA QuietTold ==
  ASSUME Fresh, MetricsTold, ErrorsTold, Quiet, \A q \in PodJobs : KeepsPod(q)
  PROVE /\ MetricsTold' /\ ErrorsTold'
        /\ \A q \in PodJobs : \A m \in Metrics : Past(q, m)' <=> Past(q, m)
<1>1. \A q \in PodJobs : \A m \in Metrics : Past(q, m)' <=> Past(q, m)
  BY FreshKept, Zenon
<1>2. \A q \in PodJobs : \A k \in {"usage", "limits", "internal"} : <<k, q>> \in failed' <=> <<k, q>> \in failed
  BY CallsKept, Zenon DEF KeepsPod
<1>3. \A q : Address(q)' = Address(q)
  BY Zenon DEF Quiet, Address, Name
<1>4. \A q, m : Has(q, m)' <=> Has(q, m)
  BY <1>3, Zenon DEF Quiet, Has
<1>5. {"healthy", "usage", "internal"} \subseteq Metrics
  BY DEF Metrics
<1>6. \A q \in PodJobs : Shown(q)' <=> Shown(q)
  BY <1>1, <1>2, <1>5, Zenon DEF Shown
<1>7. MetricsTold'
  BY <1>1, <1>2, <1>4, <1>5, Zenon DEF MetricsTold
<1>8. ErrorsTold'
  BY <1>3, <1>6, Zenon DEF ErrorsTold, Quiet
<1> QED
  BY <1>1, <1>7, <1>8, Zenon

\* A pod's step keeps the answer true (CollectHealth, CollectResources, CollectInternal).
LEMMA PodTold ==
  ASSUME Collectors, Calls, Fresh, AnswerType, MetricsTold, ErrorsTold,
         NEW q \in PodJobs, CollectAll(q)
  PROVE Fresh' /\ AnswerType' /\ MetricsTold' /\ ErrorsTold'
<1>1. PICK ms, error :
          /\ Sends(q, ms, error)
          /\ Shown(q)' <=> Shown(q) \/ error
          /\ \A m : Past(q, m) => Past(q, m)'
          /\ ~Past(q, "usage")' => <<"usage", q>> \notin failed' /\ <<"limits", q>> \notin failed'
          /\ ~Past(q, "internal")' => <<"internal", q>> \notin failed'
          /\ Past(q, "healthy")' => Past(q, "healthy") \/ "healthy" \in ms
          /\ Past(q, "usage")' /\ <<"usage", q>> \notin failed' =>
               \/ "usage" \in ms /\ (Limits[q[3]] # None /\ <<"limits", q>> \notin failed' => "limit" \in ms)
               \/ Past(q, "usage") /\ (<<"usage", q>> \notin failed)
                  /\ (<<"limits", q>> \notin failed' => <<"limits", q>> \notin failed)
          /\ Past(q, "internal")' /\ Port[q[3]] /\ <<"internal", q>> \notin failed' => "internal" \in ms
  BY PodNews, Zenon
<1>2. name' = name
  BY Zenon DEF CollectAll, world
<1>3. /\ AnswerType'
      /\ \A p : Address(p)' = Address(p)
      /\ \A m \in ms : Has(q, m)'
      /\ \A p, m : Has(p, m) => Has(p, m)'
      /\ \A a : a \in DOMAIN answer'.status <=> a \in DOMAIN answer.status \/ (error /\ a = Address(q))
  BY <1>1, <1>2, SendsFacts, Zenon
<1>4. /\ Started(q)'
      /\ \A p \in PodJobs : p # q => KeepsPod(p) /\ \A m : Past(p, m)' <=> Past(p, m)
  BY PodKeeps, Zenon
<1>5. ASSUME NEW p \in PodJobs, p # q
      PROVE /\ \A k \in {"usage", "limits", "internal"} : <<k, p>> \in failed' <=> <<k, p>> \in failed
            /\ Shown(p)' <=> Shown(p)
            /\ pod'[p] # "none" => Started(p)'
  <2>1. \A k \in {"usage", "limits", "internal"} : <<k, p>> \in failed' <=> <<k, p>> \in failed
    BY <1>4, <1>5, CallsKept, Zenon DEF KeepsPod
  <2>2. Shown(p)' <=> Shown(p)
    BY <1>4, <1>5, <2>1, Zenon DEF Shown
  <2>3. pod'[p] # "none" => Started(p)'
    BY <1>4, <1>5, Zenon DEF KeepsPod, Fresh
  <2> QED
    BY <2>1, <2>2, <2>3, Zenon
<1>6. Fresh'
  BY <1>1, <1>4, <1>5, Zenon DEF Fresh
<1>7. MetricsTold'
  <2> SUFFICES ASSUME NEW p \in PodJobs
               PROVE /\ Past(p, "healthy")' => Has(p, "healthy")'
                     /\ Past(p, "usage")' /\ <<"usage", p>> \notin failed' =>
                          /\ Has(p, "usage")'
                          /\ Limits[p[3]] # None /\ <<"limits", p>> \notin failed' => Has(p, "limit")'
                     /\ Past(p, "internal")' /\ Port[p[3]] /\ <<"internal", p>> \notin failed' => Has(p, "internal")'
    BY Zenon DEF MetricsTold
  <2>1. CASE p = q
    BY <1>1, <1>3, <2>1, Zenon DEF MetricsTold
  <2>2. CASE p # q
    BY <1>3, <1>4, <1>5, <2>2, Zenon DEF MetricsTold
  <2> QED
    BY <2>1, <2>2, Zenon
<1>8. ErrorsTold'
  BY <1>1, <1>3, <1>5, Zenon DEF ErrorsTold
<1> QED
  BY <1>3, <1>6, <1>7, <1>8, Zenon

\* What the answer says of the pods is what they have sent so far.
Told ==
  /\ Calls /\ Fresh /\ AnswerType /\ MetricsTold /\ ErrorsTold
  /\ main = "done" => closed

\* At first nothing is sent.
LEMMA InitTold == Init => Told
<1> SUFFICES ASSUME Init PROVE Told
  OBVIOUS
<1>1. \A q \in PodJobs : q[1] \in Jobs
  BY PodFacts, Zenon
<1>2. Calls
  <2>1. \A j \in Jobs : job[j].todo = <<>>
    BY Zenon DEF Init, Idle
  <2> QED
    BY <2>1, Zenon DEF Init, Calls
<1>3. \A q \in PodJobs : ~Started(q)
  BY <1>1, Zenon DEF Init, Idle, Started
<1>4. Fresh
  BY <1>3, Zenon DEF Init, Fresh
<1>5. /\ DOMAIN answer.metrics = {} /\ DOMAIN answer.status = {}
      /\ answer = [metrics |-> answer.metrics, status |-> answer.status]
  BY DEF Init
<1>6. AnswerType
  BY <1>5, Zenon DEF AnswerType
<1>7. MetricsTold /\ ErrorsTold
  BY <1>3, <1>5, Zenon DEF MetricsTold, ErrorsTold, Shown, Past
<1> QED
  BY <1>2, <1>4, <1>6, <1>7, Zenon DEF Init, Told

\* Every step keeps the answer true, whoever takes it.
LEMMA NextTold == ASSUME IInv, Told, GetMetrics \/ UNCHANGED vars PROVE Told'
<1> USE DEF IInv
<1>1. CASE \E q \in PodJobs : CollectAll(q)
  <2>1. PICK q \in PodJobs : CollectAll(q)
    BY <1>1, Zenon
  <2>2. Calls'
    BY <2>1, PodKeeps, Zenon DEF Told
  <2>3. Fresh' /\ AnswerType' /\ MetricsTold' /\ ErrorsTold'
    BY <2>1, PodTold, Zenon DEF Told
  <2>4. UNCHANGED <<main, closed>>
    BY <2>1, Zenon DEF CollectAll
  <2> QED
    BY <2>2, <2>3, <2>4, Zenon DEF Told
<1>2. CASE \/ collectRemoteClusterKubeClients \/ Drain \/ Close \/ Answer
           \/ UNCHANGED vars \/ \E j \in Jobs : CollectMetrics(j)
  <2>1. Quiet
    BY <1>2, OthersQuiet, Zenon DEF Told
  <2>2. Calls' /\ \A q \in PodJobs : KeepsPod(q)
    <3>1. CASE Drain \/ Close \/ Answer \/ UNCHANGED vars
      <4>1. UNCHANGED <<job, pod, failed>>
        BY <3>1, Zenon DEF Drain, Close, Answer, vars, collect
      <4> QED
        BY <4>1, Zenon DEF Told, Calls, KeepsPod, Started, PodCalls
    <3> QED
      BY <1>2, <3>1, WalkKeeps, CollectorKeeps, Zenon DEF Told
  <2>3. Fresh'
    BY <2>2, FreshKept, Zenon DEF Told
  <2>4. MetricsTold' /\ ErrorsTold'
    BY <2>1, <2>2, QuietTold, Zenon DEF Told
  <2>5. main' = "done" => closed'
    <3>1. CASE collectRemoteClusterKubeClients
      BY <3>1, WalkHands, Zenon
    <3>2. CASE \E j \in Jobs : CollectMetrics(j)
      <4>1. UNCHANGED <<main, closed>>
        BY <3>2, Zenon DEF CollectMetrics, ListResources, GetPods, SendStatus
      <4> QED
        BY <4>1, Zenon DEF Told
    <3>3. CASE Drain \/ Close \/ Answer \/ UNCHANGED vars
      BY <3>3, Zenon DEF Told, Drain, Close, Answer, vars
    <3> QED
      BY <1>2, <3>1, <3>2, <3>3, Zenon
  <2> QED
    BY <2>1, <2>2, <2>3, <2>4, <2>5, Zenon DEF Told, Quiet
<1> QED
  BY <1>1, <1>2, Zenon DEF GetMetrics

\* The answer is true of the pods in every state of every request.
THEOREM ToldAlways == Spec => [](IInv /\ Told)
<1>1. IInv /\ Told /\ [GetMetrics]_vars => Told'
  BY NextTold, Zenon
<1> QED
  BY <1>1, InitTold, Invariance, PTL DEF Spec

\* When the request is answered every pod that was started has run to its end.
LEMMA AllRan ==
  ASSUME IInv, Told, main = "done"
  PROVE \A q \in PodJobs :
          /\ \A m \in Metrics : Past(q, m) <=> Ran(q)
          /\ Shown(q) <=> Ran(q) /\ Trouble(q)
<1> SUFFICES ASSUME NEW q \in PodJobs
             PROVE (\A m \in Metrics : Past(q, m) <=> Ran(q)) /\ (Shown(q) <=> Ran(q) /\ Trouble(q))
  OBVIOUS
<1>1. Collecting = {} /\ Sending = {}
  BY ZeroFacts, Zenon DEF IInv, Told, Closing
<1>2. q[1] \in Jobs
  BY PodFacts, Zenon
<1>3. job[q[1]].pc \in {"none", "end"} /\ pod[q] = "none"
  BY <1>1, <1>2, Zenon DEF Collecting, Sending
<1>4. job[q[1]].pc = "end" => q[2] \notin Range(job[q[1]].todo)
  <2>1. Range(<<>>) = {}
    BY DEF Range
  <2> QED
    BY <1>2, <2>1, Zenon DEF Told, Calls
<1>5. Started(q) <=> Ran(q)
  BY <1>3, <1>4, Zenon DEF Started, Ran
<1>6. \A m : "none" \in Stages(m)
  BY DEF Stages
<1>7. \A m : Past(q, m) <=> Ran(q)
  BY <1>3, <1>5, <1>6, Zenon DEF Past
<1>8. Shown(q) <=> Ran(q) /\ Trouble(q)
  BY <1>7, Zenon DEF Shown, Trouble
<1> QED
  BY <1>7, <1>8, Zenon

\* The answer has, for every pod whose goroutine was started, each group of metrics that
\* could be read, and an error exactly when one could not, whatever else fails and
\* however the goroutines interleave (CollectAll, AddMetric, AddStatus).
THEOREM PodsToldTrulyHolds == Spec => []PodsToldTruly
<1>1. ASSUME IInv, Told PROVE PodsToldTruly
  <2> SUFFICES ASSUME main = "done", NEW q \in PodJobs, Ran(q)
               PROVE /\ Has(q, "healthy")
                     /\ <<"usage", q>> \notin failed =>
                          /\ Has(q, "usage")
                          /\ Limits[q[3]] # None /\ <<"limits", q>> \notin failed => Has(q, "limit")
                     /\ Port[q[3]] /\ <<"internal", q>> \notin failed => Has(q, "internal")
                     /\ Address(q) \in DOMAIN answer.status <=>
                          \E r \in PodJobs : Ran(r) /\ Address(r) = Address(q) /\ Trouble(r)
    BY Zenon DEF PodsToldTruly
  <2>1. Past(q, "healthy") /\ Past(q, "usage") /\ Past(q, "internal")
    BY <1>1, AllRan, Zenon DEF Metrics
  <2>2. MetricsTold /\ ErrorsTold
    BY <1>1, Zenon DEF Told
  <2>3. Address(q) \in DOMAIN answer.status <=>
          \E r \in PodJobs : Ran(r) /\ Address(r) = Address(q) /\ Trouble(r)
    BY <1>1, <2>2, AllRan, Zenon DEF ErrorsTold
  <2> QED
    BY <2>1, <2>2, <2>3, Zenon DEF MetricsTold
<1> QED
  BY <1>1, ToldAlways, PTL

----------------------------------------------------------------------------
(* Which clusters get a collector.                                         *)

\* Where the clients that were handed over were read, and that a region gets no second
\* client through the management cluster.
HandedFrom ==
  /\ secretAt \in Placements
  /\ \A c \in ClusterSet : task[<<c, "child">>] # "none" => RegionOf[c] \in ClusterSet
  /\ \A j \in Jobs : j[1] # Local /\ job[j].pc # "none" =>
       IF j[2] = "child" THEN RegionOf[j[1]] \in ClusterSet \cap secretAt[j[1]]
       ELSE Local \in secretAt[j[1]]
  /\ \A c \in ClusterSet : job[<<c, "region">>].pc # "none" =>
       /\ name[c] \in processed \/ (walker.pc = "store" /\ walker.todo[1] = c)
       /\ task[<<c, "other">>] = "none"

\* No lookup has failed.
Looked == {f[1] : f \in failed} \subseteq {"usage", "limits", "internal"}

\* The walk is done with a region.
Passed(r) ==
  \/ walker.pc \in {"other", "end"}
  \/ walker.pc \in {"region", "store"} /\ r \notin Range(walker.todo)

\* A cluster that is marked, or whose kubeconfig was read, has a collector; as long as
\* nothing fails, the children of a readable region are visited, and then every cluster
\* that is not marked.
Reached ==
  /\ \A n \in processed : \E j \in Jobs : j[1] # Local /\ name[j[1]] = n /\ job[j].pc # "none"
  /\ walker.pc = "store" => job[<<walker.todo[1], "region">>].pc # "none"
  /\ walker.pc = "end" => walker.todo = <<>>
  /\ \A j \in Tasks : task[j] = "store" => job[j].pc # "none"
  /\ Looked => \A j \in Tasks : task[j] = "end" /\ Place(j) \in secretAt[j[1]] => job[j].pc # "none"
  /\ Looked => \A c \in ClusterSet :
       RegionOf[c] \in Range(Regions) /\ Local \in secretAt[RegionOf[c]] /\ Passed(RegionOf[c]) =>
         task[<<c, "child">>] # "none"
  /\ Looked /\ walker.pc \in {"other", "end"} =>
       \A c \in ClusterSet : c \notin Range(walker.todo) =>
         name[c] \in processed \/ task[<<c, "other">>] # "none"

\* Failed calls stay failed.
LEMMA LookedBack == ASSUME failed \subseteq failed', Looked' PROVE Looked
BY Zenon DEF Looked

\* The calls of the walk are lookups.
LEMMA LookedFails ==
  /\ FailsAt(<<"lists">>) \/ FailsAt(<<"regions">>) => ~Looked'
  /\ \A c, p : FailsAt(<<"client", c, p>>) => ~Looked'
  /\ \A c, p, place : NoClient(c, p, place) /\ Looked' => place \notin secretAt[c] /\ failed' = failed
<1>1. ASSUME NEW f, WalkCall(f), FailsAt(f) PROVE ~Looked'
  <2>1. f[1] \in {g[1] : g \in failed'}
    BY <1>1, Zenon DEF FailsAt
  <2> QED
    BY <1>1, <2>1 DEF Looked, WalkCall
<1>2. /\ WalkCall(<<"lists">>) /\ WalkCall(<<"regions">>)
      /\ \A c, p : WalkCall(<<"client", c, p>>)
  BY DEF WalkCall
<1>3. /\ FailsAt(<<"lists">>) \/ FailsAt(<<"regions">>) => ~Looked'
      /\ \A c, p : FailsAt(<<"client", c, p>>) => ~Looked'
  BY <1>1, <1>2, Zenon
<1> QED
  BY <1>3, Zenon DEF NoClient

\* Everybody but the walk leaves its state alone, and stops no collector for good.
LEMMA RestReached ==
  ASSUME HandedFrom, Reached, Walk, UNCHANGED <<walker, processed, task, name, secretAt>>,
         \A i \in Jobs : job'[i].pc = "none" <=> job[i].pc = "none", failed \subseteq failed'
  PROVE HandedFrom' /\ Reached'
<1>1. \A c \in ClusterSet : <<c, "region">> \in Jobs
  BY Zenon DEF Jobs
<1>2. \A i \in Tasks : i \in Jobs
  BY Zenon DEF Jobs
<1>3. walker.pc = "store" => walker.todo[1] \in ClusterSet
  BY TailFacts DEF Walk
<1>4. HandedFrom'
  BY <1>1, Zenon DEF HandedFrom
<1>5. Looked' => Looked
  BY LookedBack, Zenon
<1>6. \A r : Passed(r)' <=> Passed(r)
  BY Zenon DEF Passed
<1>7. \A n \in processed' : \E j \in Jobs : j[1] # Local /\ name'[j[1]] = n /\ job'[j].pc # "none"
  BY Zenon DEF Reached
<1>8. /\ walker'.pc = "store" => job'[<<walker'.todo[1], "region">>].pc # "none"
      /\ walker'.pc = "end" => walker'.todo = <<>>
      /\ \A j \in Tasks : task'[j] = "store" => job'[j].pc # "none"
      /\ Looked' => \A j \in Tasks : task'[j] = "end" /\ Place(j) \in secretAt'[j[1]] => job'[j].pc # "none"
  BY <1>1, <1>2, <1>3, <1>5, Zenon DEF Reached
<1>9. /\ Looked' => \A c \in ClusterSet :
           RegionOf[c] \in Range(Regions) /\ Local \in secretAt'[RegionOf[c]] /\ Passed(RegionOf[c])' =>
             task'[<<c, "child">>] # "none"
      /\ Looked' /\ walker'.pc \in {"other", "end"} =>
           \A c \in ClusterSet : c \notin Range(walker'.todo) =>
             name'[c] \in processed' \/ task'[<<c, "other">>] # "none"
  BY <1>5, <1>6, Zenon DEF Reached
<1> QED
  BY <1>4, <1>7, <1>8, <1>9, Zenon DEF Reached

\* fetchClusterData: nothing is visited yet.
LEMMA FetchReached ==
  ASSUME HandedFrom, Reached, Walk, Handed, fetchClusterData
  PROVE HandedFrom' /\ Reached'
<1>1. /\ walker.pc = "fetch" /\ UNCHANGED <<processed, task, job, name, secretAt>>
      /\ failed \subseteq failed'
  <2>1. walker.pc = "fetch" /\ UNCHANGED <<processed, task, job, name, secretAt>>
    BY Zenon DEF fetchClusterData, collect, world
  <2>2. failed \subseteq failed'
    BY WalkFails, Zenon DEF collectRemoteClusterKubeClients
  <2> QED
    BY <2>1, <2>2, Zenon
<1>2. \/ walker' = [pc |-> "region", todo |-> Regions]
      \/ walker' = [pc |-> "end", todo |-> <<>>] /\ ~Looked'
      \/ walker' = [pc |-> "other", todo |-> Clusters] /\ ~Looked'
  BY LookedFails, Zenon DEF fetchClusterData
<1>3. /\ walker'.pc # "store" /\ (walker'.pc = "end" => walker'.todo = <<>>)
      /\ Looked' => walker'.pc = "region" /\ walker'.todo = Regions
  BY <1>2
<1>4. Looked' => Looked
  BY <1>1, LookedBack, Zenon
<1>5. Looked' => \A r \in Range(Regions) : ~Passed(r)'
  BY <1>3, Zenon DEF Passed
<1>6. HandedFrom'
  BY <1>1, Zenon DEF HandedFrom, Handed
<1>7. Reached'
  BY <1>1, <1>3, <1>4, <1>5, Zenon DEF Reached
<1> QED
  BY <1>6, <1>7, Zenon

\* The next region, or the second pass: the walk is done with the region at the head.
LEMMA PassedNext ==
  ASSUME Walk, walker.pc \in {"region", "store"}, walker.todo # <<>>, NextRegion
  PROVE /\ walker'.pc \in {"region", "other"} /\ walker.todo[1] \in ClusterSet
        /\ walker'.pc = "other" => walker'.todo = Clusters
        /\ \A r : Passed(r)' => Passed(r) \/ r = walker.todo[1]
<1>1. /\ walker.todo \in Seq(ClusterSet) /\ IsInjective(walker.todo)
  BY Zenon DEF Walk
<1>2. /\ walker.todo[1] \in ClusterSet
      /\ Range(Tail(walker.todo)) = Range(walker.todo) \ {walker.todo[1]}
      /\ Len(walker.todo) = 1 <=> Tail(walker.todo) = <<>>
  BY <1>1, TailFacts, Zenon
<1>3. CASE Len(walker.todo) = 1
  <2>1. walker' = [pc |-> "other", todo |-> Clusters]
    BY <1>3, Zenon DEF NextRegion
  <2>2. Range(<<>>) = {}
    BY DEF Range
  <2>3. \A r : r \in Range(walker.todo) => r = walker.todo[1]
    BY <1>2, <1>3, <2>2, Zenon
  <2>4. walker'.pc = "other" /\ walker'.todo = Clusters
    BY <2>1
  <2> QED
    BY <1>2, <2>3, <2>4, Zenon DEF Passed
<1>4. CASE Len(walker.todo) # 1
  <2>1. walker' = [pc |-> "region", todo |-> Tail(walker.todo)]
    BY <1>4, Zenon DEF NextRegion
  <2>2. walker'.pc = "region" /\ walker'.todo = Tail(walker.todo)
    BY <2>1
  <2> QED
    BY <1>2, <2>2, Zenon DEF Passed
<1> QED
  BY <1>3, <1>4, Zenon

\* Every cluster is in the list of the second pass, and none in an empty list.
LEMMA AllClusters == /\ \A c \in ClusterSet : c \in Range(Clusters)
                     /\ \A c : c \notin Range(<<>>)
BY DEF ClusterSet, Range

\* handleRegionClusters: a region that is readable gets its collector, another one is passed.
LEMMA RegionReached ==
  ASSUME HandedFrom, Reached, Walk, Handed, Collectors, handleRegionClusters
  PROVE HandedFrom' /\ Reached'
<1>1. /\ walker.pc = "region" /\ UNCHANGED <<processed, task, name, secretAt>>
  BY Zenon DEF handleRegionClusters, world
<1>2. failed \subseteq failed'
  BY WalkFails, Zenon DEF collectRemoteClusterKubeClients
<1>3. Looked' => Looked
  BY <1>2, LookedBack, Zenon
<1>4. \A c \in ClusterSet : <<c, "region">> \in Jobs /\ c # Local
  BY ListAssumption, Zenon DEF Jobs
<1>5. CASE walker.todo = <<>> \/ (NextRegion /\ walker.todo # <<>> /\ UNCHANGED collect
                                 /\ NoClient(walker.todo[1], "region", Local))
  <2>1. /\ job' = job /\ walker'.pc \in {"region", "other"}
        /\ walker'.pc = "other" => walker'.todo = Clusters
        /\ Looked' => \A r : Passed(r)' /\ Local \in secretAt[r] => Passed(r)
    <3>1. CASE walker.todo = <<>>
      <4>1. walker' = [pc |-> "other", todo |-> Clusters] /\ job' = job
        BY <3>1, Zenon DEF handleRegionClusters, collect
      <4>2. walker'.pc = "other" /\ walker'.todo = Clusters
        BY <4>1
      <4>3. \A r : Passed(r)
        BY <1>1, <3>1, AllClusters, Zenon DEF Passed
      <4> QED
        BY <4>1, <4>2, <4>3, Zenon
    <3>2. CASE NextRegion /\ walker.todo # <<>> /\ UNCHANGED collect
               /\ NoClient(walker.todo[1], "region", Local)
      <4>1. Looked' => Local \notin secretAt[walker.todo[1]]
        BY <3>2, LookedFails, Zenon
      <4>2. job' = job
        BY <3>2, Zenon DEF collect
      <4> QED
        BY <1>1, <3>2, <4>1, <4>2, PassedNext, Zenon
    <3> QED
      BY <1>5, <3>1, <3>2, Zenon
  <2>2. HandedFrom'
    BY <1>1, <2>1, Zenon DEF HandedFrom
  <2>3. Reached'
    BY <1>1, <1>3, <2>1, AllClusters, Zenon DEF Reached
  <2> QED
    BY <2>2, <2>3, Zenon
<1>6. CASE /\ walker.todo # <<>> /\ ReadsClient(walker.todo[1], Local)
           /\ CollectRemoteMetricsAsync(<<walker.todo[1], "region">>)
           /\ walker' = [walker EXCEPT !.pc = "store"]
  <2>1. PICK r \in ClusterSet : r = walker.todo[1]
    BY <1>6, TailFacts, Zenon DEF Walk
  <2>2. /\ Local \in secretAt[r] /\ job'[<<r, "region">>].pc # "none"
        /\ \A i \in Jobs : i # <<r, "region">> => job'[i] = job[i]
    <3>1. PICK j \in Jobs : j = <<r, "region">>
      BY <1>4, Zenon
    <3>2. job' = [job EXCEPT ![j] = [pc |-> "list", todo |-> <<>>]] /\ j \in DOMAIN job
      BY <1>6, <2>1, <3>1, Zenon DEF CollectRemoteMetricsAsync, Collectors
    <3>3. job'[j].pc # "none" /\ \A i \in Jobs : i # j => job'[i] = job[i]
      BY <3>2 DEF Collectors
    <3> QED
      BY <1>6, <2>1, <3>1, <3>3, Zenon DEF ReadsClient
  <2>3. walker'.pc = "store" /\ walker'.todo = walker.todo
    BY <1>6 DEF Walk
  <2>4. \A s : Passed(s)' <=> Passed(s)
    BY <1>1, <2>3, Zenon DEF Passed
  <2>5. \A i \in Jobs : job[i].pc # "none" => job'[i].pc # "none"
    BY <2>2, Zenon
  <2>6. \A j \in Tasks : j \in Jobs
    BY Zenon DEF Jobs
  <2>7. HandedFrom'
    <3>1. ASSUME NEW j \in Jobs, j[1] # Local, job'[j].pc # "none"
          PROVE IF j[2] = "child" THEN RegionOf[j[1]] \in ClusterSet \cap secretAt[j[1]]
                ELSE Local \in secretAt[j[1]]
      <4>1. CASE j = <<r, "region">>
        <5>1. j[1] = r /\ j[2] # "child"
          BY <4>1
        <5> QED
          BY <2>2, <5>1, Zenon
      <4>2. CASE j # <<r, "region">>
        BY <2>2, <3>1, <4>2, Zenon DEF HandedFrom
      <4> QED
        BY <4>1, <4>2, Zenon
    <3>2. ASSUME NEW c \in ClusterSet, job'[<<c, "region">>].pc # "none"
          PROVE /\ name[c] \in processed \/ (walker'.pc = "store" /\ walker'.todo[1] = c)
                /\ task[<<c, "other">>] = "none"
      <4>1. CASE c = r
        BY <1>1, <2>1, <2>3, <4>1, Zenon DEF Walk
      <4>2. CASE c # r
        <5>1. <<c, "region">> # <<r, "region">>
          BY <4>2
        <5> QED
          BY <1>1, <1>4, <2>2, <3>2, <5>1, Zenon DEF HandedFrom
      <4> QED
        BY <4>1, <4>2, Zenon
    <3> QED
      BY <1>1, <3>1, <3>2, Zenon DEF HandedFrom
  <2>8. /\ \A n \in processed' : \E j \in Jobs : j[1] # Local /\ name'[j[1]] = n /\ job'[j].pc # "none"
        /\ walker'.pc = "store" => job'[<<walker'.todo[1], "region">>].pc # "none"
        /\ walker'.pc = "end" => walker'.todo = <<>>
        /\ \A j \in Tasks : task'[j] = "store" => job'[j].pc # "none"
        /\ Looked' => \A j \in Tasks : task'[j] = "end" /\ Place(j) \in secretAt'[j[1]] => job'[j].pc # "none"
    BY <1>1, <1>3, <2>1, <2>2, <2>3, <2>5, <2>6, Zenon DEF Reached
  <2>9. Reached'
    BY <1>1, <1>3, <2>3, <2>4, <2>8, Zenon DEF Reached
  <2> QED
    BY <2>7, <2>9, Zenon
<1> QED
  BY <1>5, <1>6, Zenon DEF handleRegionClusters

\* StoreRegion: the region is marked after its collector was started, and all its
\* children are visited.
LEMMA StoreReached ==
  ASSUME HandedFrom, Reached, Walk, StoreRegion
  PROVE HandedFrom' /\ Reached'
<1>1. /\ walker.pc = "store" /\ walker.todo # <<>> /\ NextRegion
      /\ UNCHANGED <<job, failed, name, secretAt>>
  BY Zenon DEF StoreRegion, collect, world, Walk
<1>2. PICK r \in ClusterSet : r = walker.todo[1]
  BY <1>1, PassedNext, Zenon
<1>3. /\ walker'.pc \in {"region", "other"} /\ walker'.pc # "store"
      /\ walker'.pc = "other" => walker'.todo = Clusters
      /\ \A s : Passed(s)' => Passed(s) \/ s = r
  BY <1>1, <1>2, PassedNext, Zenon
<1>4. /\ processed' = processed \cup {name[r]}
      /\ \A j \in Tasks : task'[j] = IF j[2] = "child" /\ j[1] \in Children(r) THEN "client" ELSE task[j]
  BY <1>2, Zenon DEF StoreRegion, Walk
<1>5. \A c \in ClusterSet : /\ <<c, "child">> \in Tasks /\ <<c, "other">> \in Tasks
                            /\ task'[<<c, "other">>] = task[<<c, "other">>]
                            /\ task'[<<c, "child">>] = IF RegionOf[c] = r THEN "client" ELSE task[<<c, "child">>]
  <2>1. \A c \in ClusterSet : <<c, "child">> \in Tasks /\ <<c, "other">> \in Tasks
    BY Zenon DEF Tasks
  <2>2. \A c : <<c, "child">>[1] = c /\ <<c, "child">>[2] = "child" /\ <<c, "other">>[2] # "child"
    OBVIOUS
  <2>3. \A c \in ClusterSet : c \in Children(r) <=> RegionOf[c] = r
    BY Zenon DEF Children
  <2> QED
    BY <1>4, <2>1, <2>2, <2>3
<1>6. Looked' <=> Looked
  BY <1>1, Zenon DEF Looked
<1>7. HandedFrom'
  <2>1. \A c \in ClusterSet : task'[<<c, "child">>] # "none" => RegionOf[c] \in ClusterSet
    BY <1>5, Zenon DEF HandedFrom
  <2>2. \A c \in ClusterSet : job'[<<c, "region">>].pc # "none" =>
          name'[c] \in processed' /\ task'[<<c, "other">>] = "none"
    BY <1>1, <1>2, <1>4, <1>5, Zenon DEF HandedFrom
  <2> QED
    BY <1>1, <2>1, <2>2, Zenon DEF HandedFrom
<1>8. \A n \in processed' : \E j \in Jobs : j[1] # Local /\ name[j[1]] = n /\ job[j].pc # "none"
  <2>1. PICK j \in Jobs : j = <<r, "region">>
    BY Zenon DEF Jobs
  <2>2. j[1] = r /\ r # Local
    BY <2>1, ListAssumption
  <2>3. job[j].pc # "none"
    BY <1>1, <1>2, <2>1, Zenon DEF Reached
  <2> QED
    BY <1>4, <2>2, <2>3, Zenon DEF Reached
<1>9. /\ \A j \in Tasks : task'[j] = "store" => job[j].pc # "none"
      /\ Looked' => \A j \in Tasks : task'[j] = "end" /\ Place(j) \in secretAt[j[1]] => job[j].pc # "none"
  <2>1. \A j \in Tasks : task'[j] \in {"store", "end"} => task'[j] = task[j]
    BY <1>4, Zenon
  <2> QED
    BY <1>6, <2>1, Zenon DEF Reached
<1>10. Looked' => \A c \in ClusterSet :
         RegionOf[c] \in Range(Regions) /\ Local \in secretAt[RegionOf[c]] /\ Passed(RegionOf[c])' =>
           task'[<<c, "child">>] # "none"
  BY <1>3, <1>5, <1>6, Zenon DEF Reached
<1>11. Reached'
  BY <1>1, <1>3, <1>8, <1>9, <1>10, AllClusters, Zenon DEF Reached
<1> QED
  BY <1>7, <1>11, Zenon

\* handleOtherClusters: a cluster is skipped when it is marked, and visited otherwise.
LEMMA OtherReached ==
  ASSUME HandedFrom, Reached, Walk, handleOtherClusters
  PROVE HandedFrom' /\ Reached'
<1>1. /\ walker.pc = "other" /\ UNCHANGED <<processed, job, failed, name, secretAt>>
  BY Zenon DEF handleOtherClusters, collect, world
<1>2. Looked' <=> Looked
  BY <1>1, Zenon DEF Looked
<1>3. CASE walker.todo = <<>>
  <2>1. walker'.pc = "end" /\ walker'.todo = walker.todo /\ task' = task
    BY <1>3 DEF handleOtherClusters, Walk
  <2>2. \A r : Passed(r)
    BY <1>1, Zenon DEF Passed
  <2>3. HandedFrom'
    BY <1>1, <2>1, Zenon DEF HandedFrom
  <2>4. Reached'
    BY <1>1, <1>2, <1>3, <2>1, <2>2, Zenon DEF Reached
  <2> QED
    BY <2>3, <2>4, Zenon
<1>4. CASE walker.todo # <<>>
  <2>1. PICK d \in ClusterSet : d = walker.todo[1] /\ Range(Tail(walker.todo)) = Range(walker.todo) \ {d}
    <3>1. walker.todo \in Seq(ClusterSet) /\ IsInjective(walker.todo)
      BY Zenon DEF Walk
    <3>2. walker.todo[1] \in ClusterSet /\ Range(Tail(walker.todo)) = Range(walker.todo) \ {walker.todo[1]}
      BY <1>4, <3>1, TailFacts, Zenon
    <3> QED
      BY <3>2, Zenon
  <2>2. walker'.pc = "other" /\ walker'.todo = Tail(walker.todo)
    <3>1. walker' = [walker EXCEPT !.todo = Tail(@)]
      BY <1>4, Zenon DEF handleOtherClusters
    <3> QED
      BY <1>1, <3>1 DEF Walk
  <2>3. PICK i \in Tasks : i = <<d, "other">>
    BY Zenon DEF Tasks
  <2>4. /\ \A j \in Tasks : j # i => task'[j] = task[j]
        /\ name[d] \in processed => task'[i] = task[i]
        /\ name[d] \notin processed => task'[i] = "client"
    <3>1. \/ name[d] \in processed /\ task' = task
          \/ name[d] \notin processed /\ task' = [task EXCEPT ![i] = "client"]
      BY <1>4, <2>1, <2>3, Zenon DEF handleOtherClusters
    <3>2. i \in DOMAIN task /\ DOMAIN task = Tasks
      BY Zenon DEF Walk
    <3> QED
      BY <3>1, <3>2
  <2>5. \A c \in ClusterSet : /\ <<c, "child">> \in Tasks /\ <<c, "child">> # i
                              /\ <<c, "other">> \in Tasks /\ (c # d => <<c, "other">> # i)
    BY <2>3 DEF Tasks
  <2>6. \A r : Passed(r)
    BY <1>1, Zenon DEF Passed
  <2>7. HandedFrom'
    <3>1. \A c \in ClusterSet : task'[<<c, "child">>] = task[<<c, "child">>]
      BY <2>4, <2>5, Zenon
    <3>2. ASSUME NEW c \in ClusterSet, job[<<c, "region">>].pc # "none"
          PROVE name[c] \in processed /\ task'[<<c, "other">>] = "none"
      <4>1. name[c] \in processed /\ task[<<c, "other">>] = "none"
        BY <1>1, <3>2, Zenon DEF HandedFrom
      <4>2. CASE c = d
        BY <2>3, <2>4, <4>1, <4>2, Zenon
      <4>3. CASE c # d
        BY <2>4, <2>5, <4>1, <4>3, Zenon
      <4> QED
        BY <4>2, <4>3, Zenon
    <3> QED
      BY <1>1, <3>1, <3>2, Zenon DEF HandedFrom
  <2>8. \A j \in Tasks : task'[j] \in {"store", "end"} => task'[j] = task[j]
    BY <2>4, Zenon
  <2>9. \A c \in ClusterSet : task'[<<c, "child">>] = task[<<c, "child">>]
    BY <2>4, <2>5, Zenon
  <2>10. \A c \in ClusterSet : Looked' /\ c \notin Range(walker'.todo) =>
           name[c] \in processed \/ task'[<<c, "other">>] # "none"
    <3> SUFFICES ASSUME NEW c \in ClusterSet, Looked', c \notin Range(walker'.todo)
                 PROVE name[c] \in processed \/ task'[<<c, "other">>] # "none"
      OBVIOUS
    <3>1. CASE c = d
      BY <2>3, <2>4, <3>1, Zenon
    <3>2. CASE c # d
      BY <1>1, <1>2, <2>1, <2>2, <2>4, <2>5, <3>2, Zenon DEF Reached
    <3> QED
      BY <3>1, <3>2, Zenon
  <2>11. Reached'
    BY <1>1, <1>2, <2>2, <2>6, <2>8, <2>9, <2>10, Zenon DEF Reached
  <2> QED
    BY <2>7, <2>11, Zenon
<1> QED
  BY <1>3, <1>4, Zenon

\* A goroutine of the walk: the client is read where its pass says, and the cluster is
\* marked after its collector was started.
LEMMA TaskReached ==
  ASSUME HandedFrom, Reached, Walk, Handed, Collectors, NEW j \in Tasks,
         ClientFails(j) \/ createAndSendKubeClient(j) \/ Store(j)
  PROVE HandedFrom' /\ Reached'
<1>1. /\ UNCHANGED <<walker, name, secretAt>> /\ task[j] \in {"client", "store"}
      /\ \E s \in {"store", "end"} : task' = [task EXCEPT ![j] = s]
  BY Zenon DEF ClientFails, createAndSendKubeClient, Store, world
<1>2. /\ \A i \in Tasks : i # j => task'[i] = task[i]
      /\ task'[j] \in {"store", "end"} /\ \A i \in Tasks : task'[i] = "none" <=> task[i] = "none"
  BY <1>1, Zenon DEF Walk
<1>3. failed \subseteq failed'
  BY Zenon DEF ClientFails, createAndSendKubeClient, Store, NoClient, ReadsClient, Succeeds, FailsAt
<1>4. Looked' => Looked
  BY <1>3, LookedBack, Zenon
<1>5. /\ j \in Jobs /\ \A i \in Tasks : i \in Jobs
      /\ j = <<j[1], j[2]>> /\ j[1] \in ClusterSet /\ j[1] # Local
  BY ListAssumption DEF Jobs, Tasks
<1>6. \A c \in ClusterSet : /\ <<c, "child">> \in Tasks /\ <<c, "other">> \in Tasks
                            /\ <<c, "region">> \in Jobs /\ <<c, "region">> # j
  BY DEF Tasks, Jobs
<1>7. /\ \A i \in Jobs : i # j => job'[i] = job[i]
      /\ job[j].pc # "none" => job'[j].pc # "none"
      /\ job'[j].pc # "none" => job[j].pc # "none" \/ (task[j] = "client" /\ Place(j) \in secretAt[j[1]])
      /\ task'[j] = "store" => job'[j].pc # "none"
  <2>1. CASE createAndSendKubeClient(j)
    <3>1. /\ job' = [job EXCEPT ![j] = [pc |-> "list", todo |-> <<>>]] /\ task[j] = "client"
          /\ Place(j) \in secretAt[j[1]]
      BY <2>1, Zenon DEF createAndSendKubeClient, CollectRemoteMetricsAsync, ReadsClient
    <3>2. job'[j].pc = "list" /\ \A i \in Jobs : i # j => job'[i] = job[i]
      BY <1>5, <3>1 DEF Collectors
    <3> QED
      BY <3>1, <3>2, Zenon
  <2>2. CASE ClientFails(j) \/ Store(j)
    <3>1. job' = job /\ task' = [task EXCEPT ![j] = "end"]
      BY <2>2, Zenon DEF ClientFails, Store, collect
    <3>2. task'[j] = "end"
      BY <3>1, Zenon DEF Walk
    <3> QED
      BY <3>1, <3>2, Zenon
  <2> QED
    BY <2>1, <2>2, Zenon
<1>8. \A i \in Jobs : job[i].pc # "none" => job'[i].pc # "none"
  BY <1>7, Zenon
<1>9. /\ processed \subseteq processed'
      /\ \A n \in processed' : n \in processed \/ (n = name[j[1]] /\ task[j] = "store")
  BY Zenon DEF ClientFails, createAndSendKubeClient, Store
<1>10. HandedFrom'
  <2>1. \A c \in ClusterSet : task'[<<c, "child">>] # "none" => RegionOf[c] \in ClusterSet
    BY <1>2, <1>6, Zenon DEF HandedFrom
  <2>2. ASSUME NEW i \in Jobs, i[1] # Local, job'[i].pc # "none"
        PROVE IF i[2] = "child" THEN RegionOf[i[1]] \in ClusterSet \cap secretAt[i[1]]
              ELSE Local \in secretAt[i[1]]
    <3>1. CASE job[i].pc # "none"
      BY <2>2, <3>1, Zenon DEF HandedFrom
    <3>2. CASE job[i].pc = "none"
      <4>1. i = j /\ task[j] = "client" /\ Place(j) \in secretAt[j[1]]
        <5>1. i = j
          BY <1>7, <2>2, <3>2, Zenon
        <5> QED
          BY <1>7, <2>2, <3>2, <5>1, Zenon
      <4>2. j[2] = "child" => RegionOf[j[1]] \in ClusterSet
        BY <1>5, <4>1, Zenon DEF HandedFrom
      <4> QED
        BY <4>1, <4>2, Zenon DEF Place
    <3> QED
      BY <3>1, <3>2, Zenon
  <2>3. \A c \in ClusterSet : job'[<<c, "region">>].pc # "none" =>
          /\ name[c] \in processed' \/ (walker.pc = "store" /\ walker.todo[1] = c)
          /\ task'[<<c, "other">>] = "none"
    <3>1. \A c \in ClusterSet : /\ job'[<<c, "region">>] = job[<<c, "region">>]
                                /\ task[<<c, "other">>] = "none" => task'[<<c, "other">>] = "none"
      BY <1>2, <1>6, <1>7, Zenon
    <3> QED
      BY <1>9, <3>1, Zenon DEF HandedFrom
  <2> QED
    BY <1>1, <2>1, <2>2, <2>3, Zenon DEF HandedFrom
<1>11. \A n \in processed' : \E i \in Jobs : i[1] # Local /\ name[i[1]] = n /\ job'[i].pc # "none"
  <2>1. task[j] = "store" => job'[j].pc # "none"
    BY <1>5, <1>8, Zenon DEF Reached
  <2>2. \A n \in processed : \E i \in Jobs : i[1] # Local /\ name[i[1]] = n /\ job'[i].pc # "none"
    BY <1>8, Zenon DEF Reached
  <2> QED
    BY <1>5, <1>9, <2>1, <2>2, Zenon
<1>12. walker.pc = "store" => job'[<<walker.todo[1], "region">>].pc # "none"
  <2>1. walker.pc = "store" => walker.todo[1] \in ClusterSet
    BY TailFacts DEF Walk
  <2> QED
    BY <1>6, <1>8, <2>1, Zenon DEF Reached
<1>13. \A i \in Tasks : task'[i] = "store" => job'[i].pc # "none"
  BY <1>2, <1>5, <1>7, <1>8, Zenon DEF Reached
<1>14. Looked' => \A i \in Tasks : task'[i] = "end" /\ Place(i) \in secretAt[i[1]] => job'[i].pc # "none"
  <2>1. Looked' /\ task'[j] = "end" /\ Place(j) \in secretAt[j[1]] => job'[j].pc # "none"
    <3>1. CASE ClientFails(j)
      BY <3>1, LookedFails, Zenon DEF ClientFails
    <3>2. CASE createAndSendKubeClient(j)
      <4>1. task'[j] = "store"
        BY <3>2, Zenon DEF createAndSendKubeClient, Walk
      <4> QED
        BY <4>1, Zenon
    <3>3. CASE Store(j)
      BY <1>5, <1>8, <3>3, Zenon DEF Store, Reached
    <3> QED
      BY <3>1, <3>2, <3>3, Zenon
  <2> QED
    BY <1>2, <1>4, <1>5, <1>8, <2>1, Zenon DEF Reached
<1>15. \A r : Passed(r)' <=> Passed(r)
  BY <1>1, Zenon DEF Passed
<1>16. /\ Looked' => \A c \in ClusterSet :
            RegionOf[c] \in Range(Regions) /\ Local \in secretAt[RegionOf[c]] /\ Passed(RegionOf[c])' =>
              task'[<<c, "child">>] # "none"
       /\ Looked' /\ walker.pc \in {"other", "end"} =>
            \A c \in ClusterSet : c \notin Range(walker.todo) =>
              name[c] \in processed' \/ task'[<<c, "other">>] # "none"
  BY <1>2, <1>4, <1>6, <1>9, <1>15, Zenon DEF Reached
<1>17. walker' = walker /\ name' = name /\ secretAt' = secretAt
  BY <1>1, Zenon
<1>18. /\ \A n \in processed' : \E i \in Jobs : i[1] # Local /\ name'[i[1]] = n /\ job'[i].pc # "none"
       /\ walker'.pc = "store" => job'[<<walker'.todo[1], "region">>].pc # "none"
       /\ walker'.pc = "end" => walker'.todo = <<>>
       /\ Looked' => \A i \in Tasks : task'[i] = "end" /\ Place(i) \in secretAt'[i[1]] => job'[i].pc # "none"
  BY <1>11, <1>12, <1>14, <1>17, Zenon DEF Reached
<1>19. /\ Looked' => \A c \in ClusterSet :
            RegionOf[c] \in Range(Regions) /\ Local \in secretAt'[RegionOf[c]] /\ Passed(RegionOf[c])' =>
              task'[<<c, "child">>] # "none"
       /\ Looked' /\ walker'.pc \in {"other", "end"} =>
            \A c \in ClusterSet : c \notin Range(walker'.todo) =>
              name'[c] \in processed' \/ task'[<<c, "other">>] # "none"
  BY <1>16, <1>17, Zenon
<1> QED
  BY <1>10, <1>13, <1>18, <1>19, Zenon DEF Reached

----------------------------------------------------------------------------
(* How often a cluster is counted, and that none is left out.              *)

\* The collectors a cluster may have.
Siblings(c) == {j \in Jobs : j[1] = c}

\* Those of them that have sent a metric of a pod.
SentBy(q, m) == {j \in Siblings(q[1][1]) : Past(<<j, q[2], q[3]>>, m)}

\* A cluster whose name no other has: every value of a metric is from a collector of its own.
Brief ==
  \A q \in PodJobs : q[1][1] \in ClusterSet /\ Unique(q[1][1]) =>
    \A m \in Metrics : Len(Entry(Address(q), m)) <= Cardinality(SentBy(q, m))

\* There are three of them, and each has the cluster's pods.
LEMMA SiblingFacts ==
  /\ \A c \in ClusterSet : IsFiniteSet(Siblings(c))
  /\ \A c \in ClusterSet : \A j \in Siblings(c) : j \in {<<c, "region">>, <<c, "child">>, <<c, "other">>}
  /\ \A q \in PodJobs : \A j \in Siblings(q[1][1]) :
       <<j, q[2], q[3]>> \in PodJobs /\ Address(<<j, q[2], q[3]>>) = Address(q)
<1>1. ASSUME NEW c \in ClusterSet, NEW j \in Siblings(c)
      PROVE j \in {<<c, "region">>, <<c, "child">>, <<c, "other">>}
  BY ListAssumption DEF Siblings, Jobs, Tasks
<1>2. ASSUME NEW c \in ClusterSet PROVE IsFiniteSet(Siblings(c))
  <2>1. IsFiniteSet({<<c, "region">>} \cup {<<c, "child">>} \cup {<<c, "other">>})
    BY FS_Singleton, FS_Union, Zenon
  <2>2. Siblings(c) \in SUBSET ({<<c, "region">>} \cup {<<c, "child">>} \cup {<<c, "other">>})
    BY <1>1, Zenon
  <2> QED
    BY <2>1, <2>2, FS_Subset, Zenon
<1>3. ASSUME NEW q \in PodJobs, NEW j \in Siblings(q[1][1])
      PROVE <<j, q[2], q[3]>> \in PodJobs /\ Address(<<j, q[2], q[3]>>) = Address(q)
  <2>1. j \in Jobs /\ j[1] = q[1][1] /\ q[2] \in Range(Resources[j[1]]) /\ q[3] \in Pods[q[2]]
    BY PodFacts, Zenon DEF Siblings
  <2>2. PICK cr \in Range(Resources[j[1]]) : cr = q[2]
    BY <2>1, Zenon
  <2>3. <<j, q[2], q[3]>> \in PodsOf(j, cr)
    BY <2>1, <2>2, Zenon DEF PodsOf
  <2>4. <<j, q[2], q[3]>> \in PodJobs
    BY <2>1, <2>3, PodsFacts, Zenon
  <2>5. Address(<<j, q[2], q[3]>>) = Address(q)
    BY <2>1 DEF Address
  <2> QED
    BY <2>4, <2>5, Zenon
<1> QED
  BY <1>1, <1>2, <1>3, Zenon

\* Steps that are not a pod's add nothing.
LEMMA QuietBrief ==
  ASSUME Brief, Quiet, \A q \in PodJobs : \A m \in Metrics : Past(q, m)' <=> Past(q, m)
  PROVE Brief'
<1>1. \A q \in PodJobs : \A m \in Metrics : SentBy(q, m)' = SentBy(q, m)
  BY SiblingFacts, Zenon DEF SentBy
<1>2. \A q : Address(q)' = Address(q)
  BY Zenon DEF Quiet, Address, Name
<1>3. \A q, m : Entry(Address(q), m)' = Entry(Address(q), m)
  BY <1>2, Zenon DEF Quiet, Entry
<1>4. \A c : Unique(c)' <=> Unique(c)
  BY Zenon DEF Quiet, Unique, Name
<1> QED
  BY <1>1, <1>3, <1>4, Zenon DEF Brief

\* With a name of its own a cluster's pods share their address with no other cluster's.
LEMMA SameAddress ==
  ASSUME NEW q \in PodJobs, NEW p \in PodJobs, q[1][1] \in ClusterSet, Unique(q[1][1]), Address(q) = Address(p)
  PROVE p[1] \in Siblings(q[1][1]) /\ p = <<p[1], q[2], q[3]>>
<1>1. Name(q[1][1]) = Name(p[1][1]) /\ q[2] = p[2] /\ q[3] = p[3]
  BY DEF Address
<1>2. /\ p[1] \in Jobs /\ p[1][1] \in ClusterSet \cup {Local} /\ p = <<p[1], p[2], p[3]>>
  BY PodFacts, Zenon
<1>3. Name(q[1][1]) = name[q[1][1]]
  BY ListAssumption, Zenon DEF Name
<1>4. p[1][1] = q[1][1]
  BY <1>1, <1>2, <1>3, Zenon DEF Unique
<1> QED
  BY <1>1, <1>2, <1>4, Zenon DEF Siblings

\* A pod's step adds a value for a collector that had not sent the metric.
LEMMA PodBrief ==
  ASSUME Collectors, Calls, Fresh, AnswerType, Brief, NEW p \in PodJobs, CollectAll(p)
  PROVE Brief'
<1>1. PICK ms, error :
          /\ Sends(p, ms, error)
          /\ \A m \in ms : Past(p, m)' /\ ~Past(p, m) /\ m \in Metrics
          /\ \A m : Past(p, m) => Past(p, m)'
  BY PodNews, Zenon
<1>2. name' = name
  BY Zenon DEF CollectAll, world
<1>3. /\ \A q : Address(q)' = Address(q)
      /\ \A b, m : /\ Len(Entry(b, m)) \in Nat
                   /\ b = Address(p) /\ m \in ms => Len(Entry(b, m))' = Len(Entry(b, m)) + 1
                   /\ b # Address(p) \/ m \notin ms => Len(Entry(b, m))' = Len(Entry(b, m))
  <2>1. Sends(p, ms, error)
    BY <1>1, Zenon
  <2>2. \A q : Address(q)' = Address(q)
    BY <1>2, Zenon DEF Address, Name
  <2>3. \A b, m : /\ Len(Entry(b, m)) \in Nat
                  /\ b = Address(p) /\ m \in ms => Len(Entry(b, m))' = Len(Entry(b, m)) + 1
                  /\ b # Address(p) \/ m \notin ms => Len(Entry(b, m))' = Len(Entry(b, m))
    BY <1>2, <2>1, SendsFacts, ZenonT(60)
  <2> QED
    BY <2>2, <2>3, Zenon
<1>4. \A q \in PodJobs : \A m : Past(q, m) => Past(q, m)'
  BY <1>1, PodKeeps, Zenon
<1> SUFFICES ASSUME NEW q \in PodJobs, q[1][1] \in ClusterSet, Unique(q[1][1])', NEW m \in Metrics
             PROVE Len(Entry(Address(q), m))' <= Cardinality(SentBy(q, m)')
  BY Zenon DEF Brief
<1>5. Unique(q[1][1])
  BY <1>2, Zenon DEF Unique, Name
<1>6. PICK a : a = Address(q) /\ a = Address(q)'
  BY <1>3, Zenon
<1>7. PICK old, new : old = SentBy(q, m) /\ new = SentBy(q, m)'
  OBVIOUS
<1>8. old \subseteq new
  BY <1>4, <1>7, SiblingFacts, Zenon DEF SentBy
<1>9. IsFiniteSet(new) /\ IsFiniteSet(old)
  <2>1. new \in SUBSET Siblings(q[1][1]) /\ old \in SUBSET Siblings(q[1][1])
    BY <1>7, Zenon DEF SentBy
  <2> QED
    BY <2>1, SiblingFacts, FS_Subset, Zenon
<1>10. Len(Entry(a, m)) <= Cardinality(old)
  BY <1>5, <1>6, <1>7, Zenon DEF Brief
<1>11. Len(Entry(Address(q), m))' = Len(Entry(a, m))'
  BY <1>6, Zenon DEF Entry
<1>12. CASE a = Address(p) /\ m \in ms
  <2>1. p[1] \in Siblings(q[1][1]) /\ p = <<p[1], q[2], q[3]>>
    BY <1>5, <1>6, <1>12, SameAddress, Zenon
  <2>2. p[1] \in new /\ p[1] \notin old
    BY <1>1, <1>7, <1>12, <2>1, Zenon DEF SentBy
  <2>3. Cardinality(old \cup {p[1]}) = Cardinality(old) + 1 /\ Cardinality(old) \in Nat
    BY <1>9, <2>2, CountFacts, Zenon
  <2>4. old \cup {p[1]} \in SUBSET new
    BY <1>8, <2>2, Zenon
  <2>5. Cardinality(old \cup {p[1]}) <= Cardinality(new) /\ Cardinality(new) \in Nat
    BY <1>9, <2>4, FS_Subset, FS_CardinalityType, Zenon
  <2>6. Len(Entry(a, m))' = Len(Entry(a, m)) + 1 /\ Len(Entry(a, m)) \in Nat
    BY <1>3, <1>12, Zenon
  <2>7. Len(Entry(a, m))' <= Cardinality(new)
    BY <1>10, <2>3, <2>5, <2>6
  <2> QED
    BY <1>7, <1>11, <2>7, Zenon
<1>13. CASE ~(a = Address(p) /\ m \in ms)
  <2>1. Len(Entry(a, m))' = Len(Entry(a, m)) /\ Len(Entry(a, m)) \in Nat
    BY <1>3, <1>13, Zenon
  <2>2. Cardinality(old) <= Cardinality(new) /\ Cardinality(new) \in Nat /\ Cardinality(old) \in Nat
    BY <1>8, <1>9, FS_Subset, FS_CardinalityType, Zenon
  <2>3. Len(Entry(a, m))' <= Cardinality(new)
    BY <1>10, <2>1, <2>2
  <2> QED
    BY <1>7, <1>11, <2>3, Zenon
<1> QED
  BY <1>12, <1>13, Zenon

\* Who gets a collector, and how often what it sends is counted.
Served == HandedFrom /\ Reached /\ Brief

\* At first nobody but the management cluster has a collector.
LEMMA InitServed == Init => Served
<1> SUFFICES ASSUME Init PROVE Served
  OBVIOUS
<1>1. \A j \in Jobs : j[1] # Local => job[j].pc = "none"
  BY Zenon DEF Init, Idle
<1>2. /\ \A c \in ClusterSet : /\ <<c, "region">> \in Jobs /\ <<c, "region">>[1] # Local
                               /\ <<c, "child">> \in Tasks
      /\ \A j \in Tasks : task[j] = "none"
  BY ListAssumption DEF Init, Jobs, Tasks
<1>3. HandedFrom
  BY <1>1, <1>2, Zenon DEF Init, HandedFrom
<1>4. walker.pc = "fetch" /\ processed = {}
  BY Zenon DEF Init
<1>5. \A r : ~Passed(r)
  BY <1>4, Zenon DEF Passed
<1>6. Reached
  BY <1>2, <1>4, <1>5, Zenon DEF Reached
<1>7. DOMAIN answer.metrics = {}
  BY DEF Init
<1>8. Brief
  <2> SUFFICES ASSUME NEW q \in PodJobs, q[1][1] \in ClusterSet, NEW m \in Metrics
               PROVE Len(Entry(Address(q), m)) <= Cardinality(SentBy(q, m))
    BY Zenon DEF Brief
  <2>1. Entry(Address(q), m) = <<>>
    BY <1>7, Zenon DEF Entry
  <2>2. IsFiniteSet(SentBy(q, m))
    <3>1. SentBy(q, m) \in SUBSET Siblings(q[1][1])
      BY Zenon DEF SentBy
    <3> QED
      BY <3>1, SiblingFacts, FS_Subset, Zenon
  <2>3. Cardinality(SentBy(q, m)) \in Nat
    BY <2>2, FS_CardinalityType, Zenon
  <2> QED
    BY <2>1, <2>3
<1> QED
  BY <1>3, <1>6, <1>8, Zenon DEF Served

\* A collector that was started stays, and its calls add to what failed.
LEMMA CollectorStays ==
  ASSUME Collectors, NEW j \in Jobs, CollectMetrics(j)
  PROVE /\ \A i \in Jobs : job'[i].pc = "none" <=> job[i].pc = "none"
        /\ failed \subseteq failed' /\ UNCHANGED <<walker, processed, task, name, secretAt>>
<1>1. job[j].pc # "none" /\ UNCHANGED <<walker, processed, task, name, secretAt>>
  BY Zenon DEF CollectMetrics, ListResources, GetPods, SendStatus, walk, world
<1>2. failed \subseteq failed'
  <2>1. CASE ListResources(j)
    BY <2>1, Zenon DEF ListResources, Succeeds, FailsAt
  <2>2. CASE GetPods(j)
    BY <2>2, Zenon DEF GetPods, Succeeds, FailsAt
  <2>3. CASE SendStatus(j)
    BY <2>3, Zenon DEF SendStatus
  <2> QED
    BY <2>1, <2>2, <2>3, Zenon DEF CollectMetrics
<1>3. job'[j].pc # "none" /\ \A i \in Jobs : i # j => job'[i] = job[i]
  <2>1. ASSUME NEW n, Advance(j, n) PROVE job'[j].pc # "none" /\ \A i \in Jobs : i # j => job'[i] = job[i]
    <3>1. PICK s \in {"end", "pods"} : job' = [job EXCEPT ![j] = [pc |-> s, todo |-> Tail(@.todo)]]
      BY <2>1, Zenon DEF Advance
    <3> QED
      BY <3>1 DEF Collectors
  <2>2. ASSUME NEW s \in {"end", "status"}, job' = [job EXCEPT ![j].pc = s]
        PROVE job'[j].pc # "none" /\ \A i \in Jobs : i # j => job'[i] = job[i]
    BY <2>2 DEF Collectors
  <2>3. ASSUME job' = [job EXCEPT ![j] = [pc |-> "pods", todo |-> Resources[j[1]]]]
        PROVE job'[j].pc # "none" /\ \A i \in Jobs : i # j => job'[i] = job[i]
    BY <2>3 DEF Collectors
  <2>4. CASE ListResources(j)
    BY <2>2, <2>3, <2>4, Zenon DEF ListResources
  <2>5. CASE GetPods(j) \/ SendStatus(j)
    BY <2>1, <2>2, <2>5, Zenon DEF GetPods, SendStatus, StartPods
  <2> QED
    BY <2>4, <2>5, Zenon DEF CollectMetrics
<1> QED
  BY <1>1, <1>2, <1>3, Zenon

\* Every step keeps who is served, and how often.
LEMMA NextServed == ASSUME IInv, Told, Served, GetMetrics \/ UNCHANGED vars PROVE Served'
<1> USE DEF IInv
<1>1. CASE \E q \in PodJobs : CollectAll(q)
  <2>1. PICK q \in PodJobs : CollectAll(q)
    BY <1>1, Zenon
  <2>2. Brief'
    BY <2>1, PodBrief, Zenon DEF Told, Served
  <2>3. UNCHANGED <<walker, processed, task, name, secretAt, job>>
    BY <2>1, Zenon DEF CollectAll, walk, world
  <2>4. failed \subseteq failed'
    BY <2>1, Zenon DEF CollectAll, CollectHealth, CollectResources, CollectInternal, Succeeds, FailsAt
  <2> QED
    BY <2>2, <2>3, <2>4, RestReached, Zenon DEF Served
<1>2. CASE \/ collectRemoteClusterKubeClients \/ Drain \/ Close \/ Answer
           \/ UNCHANGED vars \/ \E j \in Jobs : CollectMetrics(j)
  <2>1. Quiet
    BY <1>2, OthersQuiet, Zenon DEF Told
  <2>2. CASE Drain \/ Close \/ Answer \/ UNCHANGED vars
    <3>1. UNCHANGED <<job, pod, failed, walker, processed, task, name, secretAt>>
      BY <2>2, Zenon DEF Drain, Close, Answer, vars, collect, walk, world
    <3>2. HandedFrom' /\ Reached'
      BY <3>1, RestReached, Zenon DEF Served
    <3>3. \A q, m : Past(q, m)' <=> Past(q, m)
      BY <3>1, Zenon DEF Past, Started
    <3> QED
      BY <2>1, <3>2, <3>3, QuietBrief, Zenon DEF Served
  <2>3. CASE collectRemoteClusterKubeClients
    <3>1. \A q \in PodJobs : KeepsPod(q)
      BY <2>3, WalkKeeps, Zenon DEF Told
    <3>2. \A q \in PodJobs : \A m \in Metrics : Past(q, m)' <=> Past(q, m)
      BY <3>1, FreshKept, Zenon DEF Told
    <3>3. HandedFrom' /\ Reached'
      <4>1. DOMAIN task = Tasks
        BY Zenon DEF Walk
      <4> QED
        BY <2>3, <4>1, FetchReached, RegionReached, StoreReached, OtherReached, TaskReached, Zenon
           DEF Served, collectRemoteClusterKubeClients
    <3> QED
      BY <2>1, <3>2, <3>3, QuietBrief, Zenon DEF Served
  <2>4. CASE \E j \in Jobs : CollectMetrics(j)
    <3>1. PICK j \in Jobs : CollectMetrics(j)
      BY <2>4, Zenon
    <3>2. \A q \in PodJobs : KeepsPod(q)
      BY <3>1, CollectorKeeps, Zenon DEF Told
    <3>3. \A q \in PodJobs : \A m \in Metrics : Past(q, m)' <=> Past(q, m)
      BY <3>2, FreshKept, Zenon DEF Told
    <3>4. HandedFrom' /\ Reached'
      BY <3>1, CollectorStays, RestReached, Zenon DEF Served
    <3> QED
      BY <2>1, <3>3, <3>4, QuietBrief, Zenon DEF Served
  <2> QED
    BY <1>2, <2>2, <2>3, <2>4, Zenon
<1> QED
  BY <1>1, <1>2, Zenon DEF GetMetrics

\* The walk serves clusters this way in every state of every request.
THEOREM ServedAlways == Spec => [](IInv /\ Told /\ Served)
<1>1. IInv /\ Told /\ Served /\ [GetMetrics]_vars => Served'
  BY NextServed, Zenon
<1> QED
  BY <1>1, InitServed, ToldAlways, PTL DEF Spec

\* A cluster has no more collectors than places where its kubeconfig can be read.
LEMMA PlacesSuffice ==
  ASSUME IInv, Served, NEW q \in PodJobs, q[1][1] \in ClusterSet, NEW m
  PROVE Cardinality(SentBy(q, m)) <= Cardinality(secretAt[q[1][1]])
<1>1. PICK c \in ClusterSet : c = q[1][1]
  OBVIOUS
<1>2. PICK S : S = SentBy(q, m)
  OBVIOUS
<1>3. PICK T : T = secretAt[c]
  OBVIOUS
<1>4. IsFiniteSet(T)
  BY <1>3, PlaceAssumption, Zenon DEF Served, HandedFrom
<1>5. \A j \in S : j \in Siblings(c) /\ job[j].pc # "none"
  <2>1. \A j \in S : j \in Siblings(c) /\ Started(<<j, q[2], q[3]>>)
    BY <1>1, <1>2, Zenon DEF SentBy, Past
  <2>2. \A j : <<j, q[2], q[3]>>[1] = j
    OBVIOUS
  <2>3. \A j : Started(<<j, q[2], q[3]>>) => job[j].pc \in {"pods", "status", "end"}
    BY <2>2 DEF Started
  <2> QED
    BY <2>1, <2>3, Zenon
<1>6. c # Local /\ \A j \in S : j \in Jobs /\ j[1] = c
  BY <1>5, ListAssumption, Zenon DEF Siblings
<1>7. \A j \in S : IF j[2] = "child" THEN RegionOf[c] \in ClusterSet \cap T ELSE Local \in T
  BY <1>3, <1>5, <1>6, Zenon DEF Served, HandedFrom
<1>8. ASSUME NEW i \in S, NEW j \in S, i # j PROVE i[2] = "child" <=> j[2] # "child"
  <2>1. i \in {<<c, "region">>, <<c, "child">>, <<c, "other">>} /\ j \in {<<c, "region">>, <<c, "child">>, <<c, "other">>}
    BY <1>5, SiblingFacts, Zenon
  <2>2. job[<<c, "region">>].pc # "none" => job[<<c, "other">>].pc = "none"
    <3>1. <<c, "other">> \in Tasks
      BY Zenon DEF Tasks
    <3> QED
      BY <3>1, Zenon DEF Served, HandedFrom, IInv, Handed
  <2>3. ~({i, j} = {<<c, "region">>, <<c, "other">>})
    BY <1>5, <2>2, Zenon
  <2> QED
    BY <1>8, <2>1, <2>3
<1>9. PICK f : f = [j \in S |-> IF j[2] = "child" THEN RegionOf[c] ELSE Local]
  BY Zenon
<1>10. f \in [S -> T]
  BY <1>7, <1>9, Zenon
<1>11. \A j \in S : f[j] = (IF j[2] = "child" THEN RegionOf[c] ELSE Local) /\ (j[2] = "child" => RegionOf[c] # Local)
  BY <1>7, <1>9, ListAssumption, Zenon
<1>12. \A i, j \in S : f[i] = f[j] => i = j
  BY <1>8, <1>11, Zenon
<1>13. f \in Injection(S, T)
  BY <1>10, <1>12, Zenon DEF Injection, IsInjective
<1> QED
  BY <1>1, <1>2, <1>3, <1>4, <1>13, FS_Injection, Zenon

\* A cluster whose name no other has is counted at most once for each place where its
\* kubeconfig can be read, however the passes of the walk and the goroutines interleave
\* (handleRegionClusters, handleOtherClusters, AddMetric).
THEOREM CountedOnceHolds == Spec => []CountedOnce
<1>1. ASSUME IInv, Told, Served PROVE CountedOnce
  <2> SUFFICES ASSUME NEW q \in PodJobs, q[1][1] \in ClusterSet, Unique(q[1][1]),
                      NEW m \in {"healthy", "reason", "usage", "limit", "internal"},
                      <<Address(q), m>> \in DOMAIN answer.metrics
               PROVE Len(answer.metrics[<<Address(q), m>>]) <= Cardinality(secretAt[q[1][1]])
    BY Zenon DEF CountedOnce
  <2>1. Entry(Address(q), m) = answer.metrics[<<Address(q), m>>]
    BY Zenon DEF Entry
  <2>2. Len(Entry(Address(q), m)) <= Cardinality(SentBy(q, m))
    BY <1>1, Zenon DEF Served, Brief, Metrics
  <2>3. Cardinality(SentBy(q, m)) <= Cardinality(secretAt[q[1][1]])
    BY <1>1, PlacesSuffice, Zenon
  <2>4. answer.metrics[<<Address(q), m>>] \in Values
    BY <1>1, Zenon DEF Told, AnswerType
  <2>5. Len(answer.metrics[<<Address(q), m>>]) \in Nat
    BY <2>4 DEF Values
  <2>6. Cardinality(SentBy(q, m)) \in Nat /\ Cardinality(secretAt[q[1][1]]) \in Nat
    <3>1. SentBy(q, m) \in SUBSET Siblings(q[1][1])
      BY Zenon DEF SentBy
    <3>2. IsFiniteSet(SentBy(q, m))
      BY <3>1, SiblingFacts, FS_Subset, Zenon
    <3>3. IsFiniteSet(secretAt[q[1][1]])
      BY <1>1, PlaceAssumption, Zenon DEF Served, HandedFrom
    <3> QED
      BY <3>2, <3>3, FS_CardinalityType, Zenon
  <2> QED
    BY <2>1, <2>2, <2>3, <2>5, <2>6
<1> QED
  BY <1>1, ServedAlways, PTL

\* When no lookup failed, the answer has every cluster whose kubeconfig can be read where
\* the walk looks, with all its pods; of clusters of one name, one of them
\* (handleRegionClusters, handleOtherClusters, createAndSendKubeClient).
THEOREM EveryClusterReportedHolds == Spec => []EveryClusterReported
<1>1. ASSUME IInv, Told, Served PROVE EveryClusterReported
  <2> SUFFICES ASSUME main = "done", Looked, NEW c \in ClusterSet, Found(c)
               PROVE \E d \in ClusterSet : name[d] = name[c] /\ \A q \in PodJobs : q[1][1] = d => Has(q, "healthy")
    BY Zenon DEF EveryClusterReported, Looked
  <2>1. Collecting = {} /\ Walking = {} /\ walker.pc = "end"
    BY <1>1, ZeroFacts, Zenon DEF IInv, Told, Closing
  <2>2. walker.todo = <<>> /\ \A r : Passed(r)
    BY <1>1, <2>1, Zenon DEF Served, Reached, Passed
  <2>3. \A j \in Tasks : task[j] # "none" => task[j] = "end"
    BY <1>1, <2>1, Zenon DEF IInv, Walk, Walking
  <2>4. \A p \in {"child", "other"} : <<c, p>> \in Tasks /\ <<c, p>> \in Jobs /\ <<c, p>>[1] = c /\ <<c, p>>[2] = p
    BY DEF Tasks, Jobs
  <2>5. \A p \in {"child", "other"} :
          task[<<c, p>>] # "none" /\ Place(<<c, p>>) \in secretAt[c] => job[<<c, p>>].pc # "none"
    BY <1>1, <2>3, <2>4, Zenon DEF Served, Reached
  <2>6. \E j \in Jobs : j[1] # Local /\ name[j[1]] = name[c] /\ job[j].pc # "none"
    <3>1. c # Local
      BY ListAssumption, Zenon
    <3>2. ASSUME NEW p \in {"child", "other"}, job[<<c, p>>].pc # "none"
          PROVE \E j \in Jobs : j[1] # Local /\ name[j[1]] = name[c] /\ job[j].pc # "none"
      BY <2>4, <3>1, <3>2, Zenon
    <3>3. CASE Local \in secretAt[c]
      <4>1. Place(<<c, "other">>) = Local
        BY <2>4 DEF Place
      <4>2. name[c] \in processed \/ task[<<c, "other">>] # "none"
        BY <1>1, <2>1, <2>2, AllClusters, Zenon DEF Served, Reached
      <4>3. CASE name[c] \in processed
        BY <1>1, <4>3, Zenon DEF Served, Reached
      <4>4. CASE task[<<c, "other">>] # "none"
        BY <2>5, <3>2, <3>3, <4>1, <4>4, Zenon
      <4> QED
        BY <4>2, <4>3, <4>4, Zenon
    <3>4. CASE /\ RegionOf[c] \in Range(Regions) \cap secretAt[c]
               /\ Local \in secretAt[RegionOf[c]]
      <4>1. Place(<<c, "child">>) = RegionOf[c]
        BY <2>4 DEF Place
      <4>2. task[<<c, "child">>] # "none"
        BY <1>1, <2>2, <3>4, Zenon DEF Served, Reached
      <4> QED
        BY <2>5, <3>2, <3>4, <4>1, <4>2, Zenon
    <3> QED
      BY <3>3, <3>4, Zenon DEF Found
  <2>7. PICK j \in Jobs : j[1] # Local /\ name[j[1]] = name[c] /\ job[j].pc # "none"
    BY <2>6, Zenon
  <2>8. j[1] \in ClusterSet
    BY <2>7 DEF Jobs, Tasks
  <2>9. job[j].pc = "end"
    BY <2>1, <2>7, Zenon DEF Collecting
  <2>10. \A cr : <<"list", j>> \notin failed /\ <<"pods", j, cr>> \notin failed
    BY DEF Looked
  <2>11. ASSUME NEW q \in PodJobs, q[1][1] = j[1] PROVE Has(q, "healthy")
    <3>1. j \in Siblings(q[1][1])
      BY <2>11, Zenon DEF Siblings
    <3>2. PICK p \in PodJobs : p = <<j, q[2], q[3]>> /\ Address(p) = Address(q)
      BY <3>1, SiblingFacts, Zenon
    <3>3. p[1] = j /\ p[2] = q[2]
      BY <3>2
    <3>4. Ran(p)
      BY <2>9, <2>10, <3>3, Zenon DEF Ran
    <3>5. Past(p, "healthy")
      BY <1>1, <3>4, AllRan, Zenon DEF Metrics
    <3>6. Has(p, "healthy")
      BY <1>1, <3>5, Zenon DEF Told, MetricsTold
    <3> QED
      BY <2>11, <3>2, <3>3, <3>6, Zenon DEF Has
  <2> QED
    BY <2>7, <2>8, <2>11, Zenon
<1> QED
  BY <1>1, ServedAlways, PTL
=============================================================================
