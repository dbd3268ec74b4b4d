------------------------- MODULE StorageConnections -------------------------
(***************************************************************************)
(* The VMStorageConnection controller (kof-operator/internal/controller/   *)
(* vmstorageconnection_controller.go): each connection names a storage     *)
(* node and the VTCluster or VLCluster that is to query it; the            *)
(* controller keeps the list of nodes in the arguments of the cluster, and *)
(* a finalizer on the connection until its node is out of that list.       *)
(*                                                                         *)
(* There is one worker.  Objects are read from a cache that lags behind    *)
(* the API server, a change of a connection is an event when the cache     *)
(* shows it, and clusters are not watched.  An update is refused when the  *)
(* object is no longer what was read.                                      *)
(***************************************************************************)
EXTENDS Naturals, Sequences, FiniteSets, Functions

CONSTANTS
  Conns,        \* names of VMStorageConnection objects
  Clusters,     \* clusters: <<kind, name>>
  Specs,        \* values of spec.targetStorageNode
  Address, SecretName, UsernameKey, PasswordKey, TLS, Insecure,  \* fields of each spec
  None,         \* also the empty string of a field
  Movable,      \* spec.clusterRef is edited even after the connection was first handled
  ClusterLag,   \* the cached cluster may be older than the cached connections
  MaxEvents     \* bound of the model: edits and failures

VARIABLES
  conn,       \* each connection: [spec, ref, finalizer, label, deleting] or None
  seen,       \* the cached connections
  cluster,    \* each cluster: [args, secrets, other] or None
  shown,      \* the cached clusters
  queue,      \* connections with an event not yet handled
  rec,        \* the reconciliation in progress, or None
  lives,      \* how often each cluster has been created
  events

vars == <<conn, seen, cluster, shown, queue, rec, lives, events>>

----------------------------------------------------------------------------
(* What a cluster's arguments are made of.                                 *)

storageNodeOwnedArgs ==
  {"storageNode", "usernameFile", "passwordFile", "tls", "tlsInsecureSkipVerify"}

\* An unset argument is the empty sequence; other stands for the arguments of others.
Blank == [args |-> [a \in storageNodeOwnedArgs |-> <<>>], secrets |-> {}, other |-> 1]

\* The labels by which connections are listed: the reference without its namespace.
Label(ref) == ref

secretKeyPath(secret, key) == IF key = None THEN None ELSE <<secret, key>>

\* Mistake: empty values are left out of the list.
setArgCompact(values) == SelectSeq(values, LAMBDA v : v # None)

\* The values, placeholders included, or nothing when all of them are placeholders.
setArg(values) == IF \A i \in DOMAIN values : values[i] = None THEN <<>> ELSE values

\* One value of an owned argument for a node.
Value(a, spec) ==
  CASE a = "storageNode" -> Address[spec]
    [] a = "usernameFile" -> secretKeyPath(SecretName[spec], UsernameKey[spec])
    [] a = "passwordFile" -> secretKeyPath(SecretName[spec], PasswordKey[spec])
    [] a = "tls" -> TLS[spec]
    [] a = "tlsInsecureSkipVerify" -> Insecure[spec]

\* The cache lists objects in no particular order.
Orders(S) == Injection(1..Cardinality(S), S)

Listed(ref) ==
  {c \in Conns : seen[c] # None /\ seen[c].label = Label(ref) /\ ~seen[c].deleting}

\* The cluster with its arguments rebuilt from the connections listed as order.
buildStorageNodeConfig(old, order) ==
  [args |-> [a \in storageNodeOwnedArgs |->
               setArg([i \in DOMAIN order |-> Value(a, seen[order[i]].spec)])],
   secrets |-> {SecretName[seen[order[i]].spec] : i \in DOMAIN order} \ {None},
   other |-> old.other]

----------------------------------------------------------------------------
(* The objects.                                                            *)

Connections ==
  [spec : Specs, ref : Clusters, finalizer : BOOLEAN, label : Clusters \cup {None},
   deleting : BOOLEAN]

ClusterObjects ==
  [args : [storageNodeOwnedArgs -> Seq({Value(a, s) : a \in storageNodeOwnedArgs, s \in Specs})],
   secrets : SUBSET {SecretName[s] : s \in Specs}, other : {1, 2}]

\* A reconciliation in progress: what was read, what is to be written, the next step.
Requests ==
  [c : Conns, conn : Connections, ref : Clusters, cluster : ClusterObjects \cup {None},
   new : ClusterObjects \cup {None}, step : {"finalizer", "list", "apply", "release"}]

ASSUME NoneAssumption ==
  /\ None \notin Clusters /\ None \notin Connections
  /\ None \notin ClusterObjects /\ None \notin Requests

ASSUME FiniteAssumption == IsFiniteSet(Conns)

ASSUME BoundAssumption == MaxEvents \in Nat

----------------------------------------------------------------------------

Init ==
  /\ conn = [c \in Conns |-> None] /\ seen = conn
  /\ cluster \in [Clusters -> {None, Blank}] /\ shown = cluster
  /\ lives = [k \in Clusters |-> IF cluster[k] = None THEN 0 ELSE 1]
  /\ queue = {} /\ rec = None /\ events = 0

Event == events < MaxEvents /\ events' = events + 1

\* An error ends the reconciliation; the request is retried.
Retry == rec' = None /\ queue' = queue \cup {rec.c}
Done == rec' = None /\ UNCHANGED queue
Goto(step) == rec' = [rec EXCEPT !.step = step] /\ UNCHANGED queue

\* Mistake: the finalizer is dropped before the cluster is synced.
FirstRelease(o, k) ==
  IF o.deleting THEN (IF o.finalizer THEN "release" ELSE "done")
  ELSE IF k = None THEN "missing" ELSE IF ~o.finalizer THEN "finalizer" ELSE "list"

\* Mistake: a missing cluster is an error in deletion too.
FirstStrict(o, k) ==
  IF k = None THEN "missing"
  ELSE IF o.deleting /\ ~o.finalizer THEN "done"
  ELSE IF ~o.finalizer THEN "finalizer" ELSE "list"

\* Where reconcileCluster and handleClusterDeletion begin, for the objects as read.
First(o, k) ==
  IF o.deleting THEN (IF ~o.finalizer THEN "done" ELSE IF k = None THEN "release" ELSE "list")
  ELSE IF k = None THEN "missing"
  ELSE IF ~o.finalizer THEN "finalizer" ELSE "list"

\* Reconcile, fetchVTCluster, fetchVLCluster: the request is taken and the objects read.
\* A connection that is gone needs nothing; a missing cluster is an error.
Reconcile ==
  /\ rec = None /\ UNCHANGED <<conn, seen, cluster, shown, lives, events>>
  /\ ClusterLag \/ shown = cluster
  /\ \E c \in queue :
       LET o == seen[c]
           k == shown[o.ref]
       IN  IF o = None \/ First(o, k) = "done"
           THEN queue' = queue \ {c} /\ UNCHANGED rec
           ELSE IF First(o, k) = "missing"
           THEN UNCHANGED <<queue, rec>>
           ELSE /\ queue' = queue \ {c}
                /\ rec' = [c |-> c, conn |-> o, ref |-> o.ref, cluster |-> k, new |-> None,
                           step |-> First(o, k)]

\* reconcileCluster: the finalizer, and with it the labels, are added once.
AddFinalizer ==
  /\ rec # None /\ rec.step = "finalizer"
  /\ IF conn[rec.c] = rec.conn
     THEN LET o == [rec.conn EXCEPT !.finalizer = TRUE, !.label = Label(rec.ref)]
          IN  /\ conn' = [conn EXCEPT ![rec.c] = o]
              /\ rec' = [rec EXCEPT !.conn = o, !.step = "list"] /\ UNCHANGED queue
     ELSE Retry /\ UNCHANGED conn
  /\ UNCHANGED <<seen, cluster, shown, lives, events>>

\* syncCluster: the arguments are rebuilt from the cached connections.
List ==
  /\ rec # None /\ rec.step = "list"
  /\ \E order \in Orders(Listed(rec.ref)) :
       rec' = [rec EXCEPT !.new = buildStorageNodeConfig(rec.cluster, order), !.step = "apply"]
  /\ UNCHANGED <<conn, seen, cluster, shown, queue, lives, events>>

\* After the cluster, the finalizer of a connection in deletion.
Synced == IF rec.conn.deleting THEN Goto("release") ELSE Done

\* Nothing is written when nothing changes; no secrets are never equal to no secrets
\* (an empty slice and nil).
Unchanged == rec.new = rec.cluster /\ rec.new.secrets # {}

\* Mistake: the update does not carry the version that was read.
ApplyForced ==
  /\ rec # None /\ rec.step = "apply"
  /\ IF cluster[rec.ref] # None
     THEN cluster' = [cluster EXCEPT ![rec.ref] = rec.new] /\ Synced
     ELSE Retry /\ UNCHANGED cluster
  /\ UNCHANGED <<conn, seen, shown, lives, events>>

\* syncCluster, applyStorageConfig: the update of the cluster.
Apply ==
  /\ rec # None /\ rec.step = "apply"
  /\ IF Unchanged THEN Synced /\ UNCHANGED cluster
     ELSE IF cluster[rec.ref] = rec.cluster
     THEN cluster' = [cluster EXCEPT ![rec.ref] = rec.new] /\ Synced
     ELSE Retry /\ UNCHANGED cluster
  /\ UNCHANGED <<conn, seen, shown, lives, events>>

\* handleClusterDeletion: without its finalizer the connection is gone.
RemoveFinalizer ==
  /\ rec # None /\ rec.step = "release"
  /\ IF conn[rec.c] = rec.conn
     THEN conn' = [conn EXCEPT ![rec.c] = None] /\ Done
     ELSE Retry /\ UNCHANGED conn
  /\ UNCHANGED <<seen, cluster, shown, lives, events>>

Worker == Reconcile \/ AddFinalizer \/ List \/ Apply \/ RemoveFinalizer

----------------------------------------------------------------------------
(* The API server, the caches, and the others who write to it.             *)

\* The cache catches up with a connection, which is an event, or with a cluster.
SeeConn ==
  /\ \E c \in Conns : /\ seen[c] # conn[c] /\ seen' = [seen EXCEPT ![c] = conn[c]]
                      /\ queue' = queue \cup {c}
  /\ UNCHANGED <<conn, cluster, shown, rec, lives, events>>

SeeCluster ==
  /\ \E k \in Clusters : shown[k] # cluster[k] /\ shown' = [shown EXCEPT ![k] = cluster[k]]
  /\ UNCHANGED <<conn, seen, cluster, queue, rec, lives, events>>

\* A connection is created, edited or deleted; a delete takes effect when there is no
\* finalizer (the owner's controller, a user, the garbage collector).
EditConn ==
  /\ Event /\ UNCHANGED <<seen, cluster, shown, queue, rec, lives>>
  /\ \E c \in Conns :
       \/ /\ conn[c] = None
          /\ \E s \in Specs, k \in Clusters :
               conn' = [conn EXCEPT ![c] = [spec |-> s, ref |-> k, finalizer |-> FALSE,
                                            label |-> None, deleting |-> FALSE]]
       \/ /\ conn[c] # None
          /\ \E s \in Specs \ {conn[c].spec} : conn' = [conn EXCEPT ![c].spec = s]
       \/ /\ conn[c] # None /\ ~conn[c].deleting
          /\ conn' = IF conn[c].finalizer THEN [conn EXCEPT ![c].deleting = TRUE]
                     ELSE [conn EXCEPT ![c] = None]
       \/ /\ conn[c] # None /\ (Movable \/ ~conn[c].finalizer)
          /\ \E k \in Clusters \ {conn[c].ref} : conn' = [conn EXCEPT ![c].ref = k]

\* A cluster is created or deleted, or another of its arguments is edited.
EditCluster ==
  /\ Event /\ UNCHANGED <<conn, seen, shown, queue, rec>>
  /\ \E k \in Clusters :
       \/ /\ cluster[k] = None /\ cluster' = [cluster EXCEPT ![k] = Blank]
          /\ lives' = [lives EXCEPT ![k] = @ + 1]
       \/ cluster[k] # None /\ cluster' = [cluster EXCEPT ![k] = None] /\ UNCHANGED lives
       \/ cluster[k] # None /\ cluster' = [cluster EXCEPT ![k].other = 3 - @] /\ UNCHANGED lives

\* A call fails, or the operator is restarted with a new cache and handles everything.
Fails == rec # None /\ Event /\ Retry /\ UNCHANGED <<conn, seen, cluster, shown, lives>>

Restart ==
  /\ rec # None /\ Event /\ rec' = None
  /\ seen' = conn /\ shown' = cluster /\ queue' = {c \in Conns : conn[c] # None}
  /\ UNCHANGED <<conn, cluster, lives>>

Next == Worker \/ SeeConn \/ SeeCluster \/ EditConn \/ EditCluster \/ Fails \/ Restart

Spec == Init /\ [][Next]_vars

\* The worker and the caches keep working.
FairSpec == Spec /\ WF_vars(Worker) /\ WF_vars(SeeConn) /\ WF_vars(SeeCluster)

----------------------------------------------------------------------------
(* Properties.                                                             *)

Active(k) == {c \in Conns : conn[c] # None /\ conn[c].ref = k /\ ~conn[c].deleting}

\* Nothing is left to do but to wait for clusters that do not exist.
Quiet ==
  /\ rec = None /\ seen = conn /\ shown = cluster
  /\ \A c \in queue : conn[c] # None /\ ~conn[c].deleting /\ cluster[conn[c].ref] = None

\* At rest every cluster queries exactly the nodes of the connections that refer to it,
\* each with its own credentials and TLS settings at its own position, and mounts exactly
\* their secrets; no connection is left in deletion.  A cluster that was deleted and
\* created again is not meant: no event tells the controller of it (syncCluster,
\* buildStorageNodeConfig).
SyncedAtRest ==
  Quiet =>
    /\ \A c \in Conns : conn[c] # None => ~conn[c].deleting
    /\ \A k \in Clusters : cluster[k] # None /\ lives[k] = 1 =>
         \E order \in Orders(Active(k)) :
           /\ Len(cluster[k].args["storageNode"]) = Len(order)
           /\ \A a \in storageNodeOwnedArgs, i \in DOMAIN order :
                LET vs == cluster[k].args[a]
                IN  Value(a, conn[order[i]].spec) = IF vs = <<>> THEN None ELSE vs[i]
           /\ cluster[k].secrets = {SecretName[conn[c].spec] : c \in Active(k)} \ {None}

\* A cluster never queries more nodes than there are connections holding a finalizer for
\* it: the node of a connection that is gone is out of the list, whatever failed on the
\* way (handleClusterDeletion).
NoDanglingNode ==
  \A k \in Clusters : cluster[k] # None =>
    Len(cluster[k].args["storageNode"]) <=
      Cardinality({c \in Conns : conn[c] # None /\ conn[c].finalizer /\ conn[c].label = Label(k)})

\* The controller never takes back what others wrote into the cluster meanwhile
\* (syncCluster, "preserving unmanaged ExtraArgs").
UnmanagedKept ==
  [][events' = events => \A k \in Clusters : cluster[k] # None =>
       cluster'[k] # None /\ cluster'[k].other = cluster[k].other]_vars

\* Once edits and failures stop, everything is handled; a connection in deletion goes
\* even when its cluster does not exist (handleClusterDeletion).
Settles == []<>Quiet
=============================================================================
