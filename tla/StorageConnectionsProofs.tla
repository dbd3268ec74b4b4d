---------------------- MODULE StorageConnectionsProofs ----------------------
(***************************************************************************)
(* Proofs about the VMStorageConnection controller, for any connections,   *)
(* clusters and nodes, and any number of edits, failures and restarts.     *)
(***************************************************************************)
EXTENDS StorageConnections, FiniteSetTheorems, TLAPS

\* The type invariant.
TypeOK ==
  /\ conn \in [Conns -> Connections \cup {None}]
  /\ seen \in [Conns -> Connections \cup {None}]
  /\ cluster \in [Clusters -> ClusterObjects \cup {None}]
  /\ shown \in [Clusters -> ClusterObjects \cup {None}]
  /\ queue \subseteq Conns
  /\ rec \in Requests \cup {None}
  /\ lives \in [Clusters -> Nat]
  /\ events \in Nat

----------------------------------------------------------------------------
(* The inductive invariant.                                                *)

\* The finalizer and the label come together, and only a finalizer delays a delete.
Marked(o) ==
  /\ o.finalizer => o.label = o.ref
  /\ ~o.finalizer => o.label = None /\ ~o.deleting

Holds(c, k) == conn[c] # None /\ conn[c].finalizer /\ conn[c].label = k

Holders(k) == {c \in Conns : Holds(c, k)}

AllMarked ==
  /\ \A c \in Conns : (conn[c] # None => Marked(conn[c])) /\ (seen[c] # None => Marked(seen[c]))
  /\ rec # None => Marked(rec.conn) /\ rec.conn.ref = rec.ref

\* A labelled connection in the cache still has its finalizer; one in deletion that the
\* cache shows may be gone, and its successor is not yet labelled.
CacheBehind ==
  \A c \in Conns : seen[c] # None /\ seen[c].finalizer =>
    /\ ~seen[c].deleting => Holds(c, seen[c].label)
    /\ seen[c].deleting /\ conn[c] # None /\ conn[c].finalizer =>
         conn[c].deleting /\ conn[c].label = seen[c].label

\* What the reconciliation in progress may rely on.
InHand ==
  rec # None =>
    /\ rec.step = "finalizer" =>
         /\ ~rec.conn.finalizer
         /\ (conn[rec.c] = None \/ ~conn[rec.c].finalizer) =>
              (seen[rec.c] = None \/ ~seen[rec.c].deleting)
    /\ rec.step # "finalizer" => rec.conn.finalizer
    /\ rec.step = "release" => rec.conn.deleting
    /\ rec.conn.finalizer /\ ~rec.conn.deleting => Holds(rec.c, rec.ref)
    /\ rec.conn.deleting /\ conn[rec.c] # None /\ conn[rec.c].finalizer =>
         /\ seen[rec.c] # None /\ seen[rec.c].deleting
         /\ conn[rec.c].deleting /\ conn[rec.c].label = rec.ref

\* The cluster that was read, and the one to be written.
Base ==
  rec # None =>
    /\ rec.step # "release" => rec.cluster # None
    /\ rec.step = "apply" => rec.new # None /\ rec.new.other = rec.cluster.other

Same(a, b) == a.args = b.args /\ a.secrets = b.secrets

\* Nobody else writes the owned arguments: until the controller does, the cluster has
\* those that were read, or it was created anew.
Read ==
  /\ \A k \in Clusters : cluster[k] # None => lives[k] >= 1
  /\ \A c \in Conns : \A k \in Clusters : Holds(c, k) => lives[k] >= 1
  /\ \A c \in Conns : seen[c] # None /\ seen[c].finalizer => lives[seen[c].label] >= 1
  /\ rec # None => lives[rec.ref] >= 1
  /\ rec # None /\ rec.step # "release" /\ cluster[rec.ref] # None =>
       \/ Same(cluster[rec.ref], rec.cluster)
       \/ lives[rec.ref] >= 2 /\ Same(cluster[rec.ref], Blank)

Nodes(k) == Len(k.args["storageNode"])

\* The connection whose finalizer the reconciliation is about to remove.
Going == IF rec.conn.deleting THEN {rec.c} ELSE {}

\* The nodes of a cluster are those of connections with a finalizer; before a finalizer
\* is removed, of the others.
Counted ==
  /\ \A k \in Clusters : cluster[k] # None => Nodes(cluster[k]) <= Cardinality(Holders(k))
  /\ rec # None /\ rec.step = "apply" =>
       Nodes(rec.new) <= Cardinality(Holders(rec.ref) \ Going)
  /\ rec # None /\ rec.step = "release" /\ cluster[rec.ref] # None =>
       Nodes(cluster[rec.ref]) <= Cardinality(Holders(rec.ref) \ {rec.c})

\* The cluster is what the cached connections make it.
InStep(k, cl) == \E order \in Orders(Listed(k)) : buildStorageNodeConfig(cl, order) = cl

\* The controller has still to bring cluster k into step because of connection c.
Pending(c, k) ==
  /\ Holds(c, k)
  /\ \/ c \in queue \/ seen[c] = None \/ ~seen[c].finalizer
     \/ rec # None /\ rec.c = c /\ rec.step \in {"list", "apply"}

Tracked ==
  /\ \A k \in Clusters : cluster[k] # None /\ lives[k] = 1 =>
       InStep(k, cluster[k]) \/ \E c \in Conns : Pending(c, k)
  /\ rec # None /\ rec.step = "apply" =>
       InStep(rec.ref, rec.new) \/ \E c \in queue : Holds(c, rec.ref) /\ c \notin Going
  /\ rec # None /\ rec.step = "release" /\ cluster[rec.ref] # None /\ lives[rec.ref] = 1 =>
       InStep(rec.ref, cluster[rec.ref]) \/ \E c \in Conns \ {rec.c} : Pending(c, rec.ref)

\* A connection without a finalizer, or in deletion, that the cache shows is to be handled.
Handled ==
  \A c \in Conns : seen[c] # None =>
    /\ ~seen[c].finalizer =>
         \/ c \in queue
         \/ rec # None /\ rec.c = c /\ rec.step = "finalizer"
         \/ conn[c] # None /\ conn[c].finalizer
    /\ seen[c].deleting =>
         \/ c \in queue
         \/ rec # None /\ rec.c = c /\ rec.conn.deleting
         \/ conn[c] = None
         \/ ~conn[c].finalizer

----------------------------------------------------------------------------
(* What the helpers return.                                                *)

\* An order lists every connection of a finite set once.
LEMMA OrderFacts ==
  ASSUME NEW S \in SUBSET Conns, NEW order \in Orders(S)
  PROVE /\ IsFiniteSet(S) /\ Cardinality(S) \in Nat
        /\ order \in [1..Cardinality(S) -> S]
        /\ DOMAIN order = 1..Cardinality(S)
        /\ \A c \in S : \E i \in DOMAIN order : order[i] = c
        /\ order \in Seq(S) /\ Len(order) = Cardinality(S)
<1> DEFINE n == Cardinality(S)
<1>1. IsFiniteSet(S) /\ n \in Nat
  BY FiniteAssumption, FS_Subset, FS_CardinalityType, Zenon
<1>2. order \in Injection(1..n, S)
  BY Zenon DEF Orders
<1>3. IsFiniteSet(1..n) /\ Cardinality(1..n) = n
  BY <1>1, FS_Interval
<1>4. order \in Surjection(1..n, S)
  BY <1>1, <1>2, <1>3, FS_Injection, Zenon
<1> HIDE DEF n
<1>5. order \in [1..n -> S] /\ \A c \in S : \E i \in 1..n : order[i] = c
  BY <1>4, Zenon DEF Surjection
<1>6. order \in Seq(S) /\ Len(order) = n
  BY <1>1, <1>5
<1> QED
  BY <1>1, <1>5, <1>6, Zenon DEF n

\* The cluster that buildStorageNodeConfig returns: its type, the arguments of others, and
\* no more nodes than connections.
LEMMA BuildFacts ==
  ASSUME TypeOK, NEW k \in Clusters, NEW order \in Orders(Listed(k)), NEW cl \in ClusterObjects
  PROVE /\ buildStorageNodeConfig(cl, order) \in ClusterObjects
        /\ buildStorageNodeConfig(cl, order).other = cl.other
        /\ Nodes(buildStorageNodeConfig(cl, order)) \in Nat
        /\ Nodes(buildStorageNodeConfig(cl, order)) <= Cardinality(Listed(k))
<1> DEFINE n == Cardinality(Listed(k))
           Vals == {Value(a, s) : a \in storageNodeOwnedArgs, s \in Specs}
           vs(a) == [i \in DOMAIN order |-> Value(a, seen[order[i]].spec)]
           new == buildStorageNodeConfig(cl, order)
<1>1. Listed(k) \in SUBSET Conns
  BY Zenon DEF Listed
<1>2. n \in Nat /\ order \in [1..n -> Listed(k)]
  BY <1>1, OrderFacts, Zenon
<1>3. \A i \in 1..n : seen[order[i]].spec \in Specs
  BY <1>2, Zenon DEF Listed, TypeOK, Connections
<1> HIDE DEF n
<1>4. ASSUME NEW a \in storageNodeOwnedArgs
      PROVE /\ setArg(vs(a)) \in Seq(Vals)
            /\ Len(setArg(vs(a))) \in Nat
            /\ Len(setArg(vs(a))) <= n
  <2>1. vs(a) = [i \in 1..n |-> Value(a, seen[order[i]].spec)]
    BY <1>2, Zenon
  <2>2. \A i \in 1..n : Value(a, seen[order[i]].spec) \in Vals
    BY <1>3
  <2> DEFINE W == Vals
             g == vs(a)
             e(i) == Value(a, seen[order[i]].spec)
  <2> HIDE DEF W
  <2>3. g \in Seq(W) /\ Len(g) = n
    <3>1. g = [i \in 1..n |-> e(i)] /\ \A i \in 1..n : e(i) \in W
      BY <2>1, <2>2 DEF W
    <3> HIDE DEF g, e
    <3> QED
      BY <1>2, <3>1
  <2> HIDE DEF g
  <2>4. setArg(g) \in {<<>>, g}
    BY Zenon DEF setArg
  <2>5. setArg(g) \in Seq(W) /\ Len(setArg(g)) \in Nat /\ Len(setArg(g)) <= n
    <3>1. n \in Nat /\ 0 <= n
      BY <1>2
    <3>2. CASE setArg(g) = <<>>
      BY <3>1, <3>2
    <3>3. CASE setArg(g) = g
      BY <2>3, <3>1, <3>3
    <3> QED
      BY <2>4, <3>2, <3>3, Zenon
  <2> QED
    BY <2>5 DEF g, W
<1>5. new.args = [a \in storageNodeOwnedArgs |-> setArg(vs(a))]
  BY Zenon DEF buildStorageNodeConfig
<1>6. new.args \in [storageNodeOwnedArgs -> Seq(Vals)]
  <2> HIDE DEF vs, Vals, new
  <2> QED
    BY <1>4, <1>5, Zenon
<1>7. new.secrets \in SUBSET {SecretName[s] : s \in Specs}
  BY <1>2, <1>3, Zenon DEF buildStorageNodeConfig
<1>8. new.other = cl.other /\ new.other \in {1, 2}
  BY DEF buildStorageNodeConfig, ClusterObjects
<1>9. new = [args |-> new.args, secrets |-> new.secrets, other |-> new.other]
  BY Zenon DEF buildStorageNodeConfig
<1>10. new \in ClusterObjects
  <2> HIDE DEF new
  <2> QED
    BY <1>6, <1>7, <1>8, <1>9 DEF ClusterObjects
<1>11. new.args["storageNode"] = setArg(vs("storageNode")) /\ "storageNode" \in storageNodeOwnedArgs
  <2> HIDE DEF vs, new, Vals
  <2> QED
    BY <1>5, Zenon DEF storageNodeOwnedArgs
<1>12. Nodes(new) \in Nat /\ Nodes(new) <= n
  <2> DEFINE len(a) == Len(setArg(vs(a)))
  <2> HIDE DEF vs, new, Vals
  <2>0. \A a \in storageNodeOwnedArgs : len(a) \in Nat /\ len(a) <= n
    <3> TAKE a \in storageNodeOwnedArgs
    <3> QED
      BY <1>4, Zenon
  <2>1. Nodes(new) = Len(setArg(vs("storageNode")))
    BY <1>11, Zenon DEF Nodes
  <2>2. len("storageNode") \in Nat /\ len("storageNode") <= n
    <3> HIDE DEF len
    <3> QED
      BY <2>0, <1>11, Zenon
  <2> QED
    BY <2>1, <2>2, Zenon
<1> QED
  BY <1>8, <1>10, <1>12, Zenon DEF n

\* A cluster as it is created has no node.
LEMMA BlankFacts == Blank \in ClusterObjects /\ Blank # None /\ Nodes(Blank) = 0
<1> DEFINE V == {Value(a, s) : a \in storageNodeOwnedArgs, s \in Specs}
<1>1. \A a \in storageNodeOwnedArgs : <<>> \in Seq(V)
  OBVIOUS
<1> HIDE DEF V
<1>2. [a \in storageNodeOwnedArgs |-> <<>>] \in [storageNodeOwnedArgs -> Seq(V)]
  BY <1>1, Zenon
<1>3. Blank \in ClusterObjects
  BY <1>2 DEF Blank, ClusterObjects, V
<1>4. Nodes(Blank) = 0
  BY Zenon DEF Nodes, Blank, storageNodeOwnedArgs
<1> QED
  BY <1>3, <1>4, NoneAssumption, Zenon

----------------------------------------------------------------------------
(* Types, and what a reconciliation read.                                  *)

\* A request that is taken has read a connection; where it begins depends on what it read.
LEMMA ReconcileFacts ==
  ASSUME TypeOK, Reconcile
  PROVE \/ /\ UNCHANGED <<conn, seen, cluster, shown, rec, lives, events>>
           /\ \E c \in queue : /\ queue' \in {queue, queue \ {c}}
                               /\ \/ queue' = queue
                                  \/ seen[c] = None
                                  \/ seen[c].deleting /\ ~seen[c].finalizer
        \/ \E c \in queue :
             /\ rec = None /\ seen[c] \in Connections /\ (ClusterLag \/ shown = cluster)
             /\ queue' = queue \ {c}
             /\ rec' = [c |-> c, conn |-> seen[c], ref |-> seen[c].ref,
                        cluster |-> shown[seen[c].ref], new |-> None,
                        step |-> First(seen[c], shown[seen[c].ref])]
             /\ rec' \in Requests /\ rec' # None
             /\ First(seen[c], shown[seen[c].ref]) \in {"finalizer", "list", "release"}
             /\ UNCHANGED <<conn, seen, cluster, shown, lives, events>>
<1>1. PICK c \in queue :
        IF seen[c] = None \/ First(seen[c], shown[seen[c].ref]) = "done"
        THEN queue' = queue \ {c} /\ UNCHANGED rec
        ELSE IF First(seen[c], shown[seen[c].ref]) = "missing"
        THEN UNCHANGED <<queue, rec>>
        ELSE /\ queue' = queue \ {c}
             /\ rec' = [c |-> c, conn |-> seen[c], ref |-> seen[c].ref,
                        cluster |-> shown[seen[c].ref], new |-> None,
                        step |-> First(seen[c], shown[seen[c].ref])]
  BY Zenon DEF Reconcile
<1>2. UNCHANGED <<conn, seen, cluster, shown, lives, events>> /\ rec = None
      /\ (ClusterLag \/ shown = cluster)
  BY Zenon DEF Reconcile
<1>3. CASE seen[c] = None \/ First(seen[c], shown[seen[c].ref]) \in {"done", "missing"}
  BY <1>1, <1>2, <1>3, Zenon DEF First
<1>4. CASE ~(seen[c] = None \/ First(seen[c], shown[seen[c].ref]) \in {"done", "missing"})
  <2> DEFINE o == seen[c]
             k == shown[o.ref]
  <2>1. c \in Conns /\ o \in Connections /\ o.ref \in Clusters
    BY <1>4, Zenon DEF TypeOK, Connections
  <2>2. k \in ClusterObjects \cup {None}
    BY <2>1, Zenon DEF TypeOK
  <2>3. First(o, k) \in {"finalizer", "list", "release"}
    BY <1>4, Zenon DEF First
  <2>4. rec' = [c |-> c, conn |-> o, ref |-> o.ref, cluster |-> k, new |-> None,
                step |-> First(o, k)] /\ queue' = queue \ {c}
    BY <1>1, <1>4, Zenon
  <2> HIDE DEF o, k
  <2>5. rec' \in Requests
    BY <2>1, <2>2, <2>3, <2>4, Zenon DEF Requests
  <2> QED
    BY <1>2, <2>1, <2>3, <2>4, <2>5, NoneAssumption, Zenon DEF o, k
<1> QED
  BY <1>3, <1>4, Zenon

\* What the worker's other steps do to the connections and to its request.
LEMMA RequestFacts ==
  ASSUME TypeOK, rec # None
  PROVE /\ rec \in Requests /\ rec.c \in Conns /\ rec.conn \in Connections /\ rec.ref \in Clusters
        /\ rec.cluster \in ClusterObjects \cup {None} /\ rec.new \in ClusterObjects \cup {None}
        /\ rec.step \in {"finalizer", "list", "apply", "release"}
BY Zenon DEF TypeOK, Requests

\* Every step keeps the types; List has a cluster to start from (First).
LEMMA NextTypeOK == ASSUME TypeOK, Base, [Next]_vars PROVE TypeOK' /\ Base'
<1>1. CASE Reconcile
  <2>1. ASSUME NEW c \in queue, rec' # None,
               rec' = [c |-> c, conn |-> seen[c], ref |-> seen[c].ref,
                       cluster |-> shown[seen[c].ref], new |-> None,
                       step |-> First(seen[c], shown[seen[c].ref])],
               First(seen[c], shown[seen[c].ref]) \in {"finalizer", "list", "release"}
        PROVE Base'
    BY <2>1, Zenon DEF Base, First
  <2> QED
    BY <1>1, <2>1, ReconcileFacts, Zenon DEF TypeOK, Base
<1>2. CASE AddFinalizer
  <2> DEFINE o == [rec.conn EXCEPT !.finalizer = TRUE, !.label = Label(rec.ref)]
  <2>1. rec # None /\ rec \in Requests /\ rec.c \in Conns /\ rec.step = "finalizer"
    BY <1>2, RequestFacts, Zenon DEF AddFinalizer
  <2>2. o \in Connections
    BY <2>1, RequestFacts, Zenon DEF Connections, Label
  <2> HIDE DEF o
  <2>3. [rec EXCEPT !.conn = o, !.step = "list"] \in Requests
    BY <2>1, <2>2, Zenon DEF Requests
  <2>4. CASE conn' = [conn EXCEPT ![rec.c] = o]
             /\ rec' = [rec EXCEPT !.conn = o, !.step = "list"] /\ UNCHANGED queue
    BY <1>2, <2>1, <2>2, <2>3, <2>4, Zenon DEF AddFinalizer, TypeOK, Base, Requests
  <2>5. CASE Retry /\ UNCHANGED conn
    BY <1>2, <2>1, <2>5, Zenon DEF AddFinalizer, Retry, TypeOK, Base
  <2> QED
    BY <1>2, <2>4, <2>5, Zenon DEF AddFinalizer, o
<1>3. CASE List
  <2>1. rec # None /\ rec \in Requests /\ rec.cluster \in ClusterObjects /\ rec.ref \in Clusters
    BY <1>3, RequestFacts, Zenon DEF List, Base
  <2>2. PICK order \in Orders(Listed(rec.ref)) :
          rec' = [rec EXCEPT !.new = buildStorageNodeConfig(rec.cluster, order), !.step = "apply"]
    BY <1>3, Zenon DEF List
  <2> DEFINE new == buildStorageNodeConfig(rec.cluster, order)
  <2>3. new \in ClusterObjects /\ new.other = rec.cluster.other
    BY <2>1, BuildFacts, Zenon
  <2> HIDE DEF new
  <2>4. rec' \in Requests /\ rec'.new = new /\ rec'.cluster = rec.cluster
    BY <2>1, <2>2, <2>3, Zenon DEF Requests, new
  <2> QED
    BY <1>3, <2>1, <2>3, <2>4, NoneAssumption, Zenon DEF List, TypeOK, Base
<1>a. ASSUME rec # None, Retry PROVE queue' \subseteq Conns /\ rec' = None
  BY <1>a, RequestFacts, Zenon DEF Retry, TypeOK
<1>4. CASE Apply
  <2>1. rec # None /\ rec \in Requests /\ rec.ref \in Clusters /\ rec.new \in ClusterObjects
    BY <1>4, RequestFacts, Zenon DEF Apply, Base
  <2>2. [rec EXCEPT !.step = "release"] \in Requests
    BY <2>1, Zenon DEF Requests
  <2>3. \/ rec' = None /\ queue' \subseteq Conns
        \/ rec' = [rec EXCEPT !.step = "release"] /\ queue' = queue
    BY <1>4, <1>a, <2>1, Zenon DEF Apply, Synced, Goto, Done, TypeOK
  <2>4. rec' # None => rec'.step = "release"
    BY <2>1, <2>3, Zenon DEF Requests
  <2>5. cluster' \in {cluster, [cluster EXCEPT ![rec.ref] = rec.new]}
    BY <1>4, Zenon DEF Apply
  <2> QED
    BY <1>4, <2>1, <2>2, <2>3, <2>4, <2>5, Zenon DEF Apply, TypeOK, Base
<1>5. CASE RemoveFinalizer
  BY <1>5, <1>a, Zenon DEF RemoveFinalizer, Done, TypeOK, Base
<1>6. CASE SeeConn \/ SeeCluster
  BY <1>6, Zenon DEF SeeConn, SeeCluster, TypeOK, Base
<1>7. CASE EditConn
  <2>1. conn' \in [Conns -> Connections \cup {None}]
    <3>1. PICK c \in Conns :
            \/ \E s \in Specs, k \in Clusters :
                 conn' = [conn EXCEPT ![c] = [spec |-> s, ref |-> k, finalizer |-> FALSE,
                                              label |-> None, deleting |-> FALSE]]
            \/ conn[c] # None /\ \E s \in Specs : conn' = [conn EXCEPT ![c].spec = s]
            \/ conn[c] # None /\ conn' = [conn EXCEPT ![c].deleting = TRUE]
            \/ conn' = [conn EXCEPT ![c] = None]
            \/ conn[c] # None /\ \E k \in Clusters : conn' = [conn EXCEPT ![c].ref = k]
      BY <1>7, Zenon DEF EditConn
    <3>2. \A s \in Specs, k \in Clusters :
            [spec |-> s, ref |-> k, finalizer |-> FALSE, label |-> None, deleting |-> FALSE]
              \in Connections
      BY Zenon DEF Connections
    <3>3. \A o \in Connections :
            /\ \A s \in Specs : [o EXCEPT !.spec = s] \in Connections
            /\ [o EXCEPT !.deleting = TRUE] \in Connections
            /\ \A k \in Clusters : [o EXCEPT !.ref = k] \in Connections
      BY Zenon DEF Connections
    <3>4. conn[c] # None => conn[c] \in Connections
      BY Zenon DEF TypeOK
    <3>5. \E o \in Connections \cup {None} : conn' = [conn EXCEPT ![c] = o]
      BY <3>1, <3>2, <3>3, <3>4, Zenon
    <3> QED
      BY <3>5, Zenon DEF TypeOK
  <2> QED
    BY <1>7, <2>1 DEF EditConn, Event, TypeOK, Base
<1>8. CASE EditCluster
  <2>1. /\ cluster' \in [Clusters -> ClusterObjects \cup {None}]
        /\ lives' \in [Clusters -> Nat]
    <3>1. PICK k \in Clusters :
            \/ cluster' = [cluster EXCEPT ![k] = Blank] /\ lives' = [lives EXCEPT ![k] = @ + 1]
            \/ cluster' = [cluster EXCEPT ![k] = None] /\ UNCHANGED lives
            \/ /\ cluster[k] # None /\ cluster' = [cluster EXCEPT ![k].other = 3 - @]
               /\ UNCHANGED lives
      BY <1>8, Zenon DEF EditCluster
    <3>2. \A o \in ClusterObjects : [o EXCEPT !.other = 3 - @] \in ClusterObjects
      BY DEF ClusterObjects
    <3>3. cluster[k] # None => cluster[k] \in ClusterObjects
      BY Zenon DEF TypeOK
    <3>4. \E o \in ClusterObjects \cup {None} : cluster' = [cluster EXCEPT ![k] = o]
      BY <3>1, <3>2, <3>3, BlankFacts, Zenon
    <3>5. lives' \in [Clusters -> Nat]
      BY <3>1 DEF TypeOK
    <3> QED
      BY <3>4, <3>5, Zenon DEF TypeOK
  <2> QED
    BY <1>8, <2>1 DEF EditCluster, Event, TypeOK, Base
<1>9. CASE Fails \/ Restart
  BY <1>9, <1>a DEF Fails, Restart, Event, TypeOK, Base
<1>10. CASE UNCHANGED vars
  BY <1>10, Zenon DEF vars, TypeOK, Base
<1> QED
  BY <1>1, <1>2, <1>3, <1>4, <1>5, <1>6, <1>7, <1>8, <1>9, <1>10, Zenon DEF Next, Worker

\* The types, and that a cluster is written only on the ground of one that was read.
LEMMA TypeCorrect == Spec => [](TypeOK /\ Base)
<1>1. Init => TypeOK /\ Base
  BY BlankFacts DEF Init, TypeOK, Base
<1>2. TypeOK /\ Base /\ [Next]_vars => (TypeOK /\ Base)'
  BY NextTypeOK, Zenon
<1> QED
  BY <1>1, <1>2, PTL DEF Spec

\* The update of syncCluster is refused when the cluster is not what was read, and what it
\* writes keeps the arguments of others: it never takes back what they wrote meanwhile.
THEOREM UnmanagedKeptHolds == Spec => UnmanagedKept
<1>1. TypeOK /\ Base /\ [Next]_vars =>
        [events' = events => \A k \in Clusters : cluster[k] # None =>
           cluster'[k] # None /\ cluster'[k].other = cluster[k].other]_vars
  <2> SUFFICES ASSUME TypeOK, Base, [Next]_vars, events' = events,
                      NEW k \in Clusters, cluster[k] # None
               PROVE cluster'[k] # None /\ cluster'[k].other = cluster[k].other
    OBVIOUS
  <2>1. CASE Apply /\ cluster' # cluster
    <3>1. /\ cluster[rec.ref] = rec.cluster /\ cluster' = [cluster EXCEPT ![rec.ref] = rec.new]
          /\ rec.new # None /\ rec.new.other = rec.cluster.other
      BY <2>1, Zenon DEF Apply, Base
    <3> QED
      BY <3>1, Zenon DEF TypeOK
  <2>2. CASE cluster' = cluster
    BY <2>2, Zenon
  <2>3. ~Apply => cluster' = cluster
    <3>1. ~EditCluster
      BY DEF EditCluster, Event, TypeOK
    <3> QED
      BY <3>1, Zenon DEF Next, Worker, Reconcile, AddFinalizer, List, RemoveFinalizer, SeeConn,
                  SeeCluster, EditConn, Fails, Restart, vars
  <2> QED
    BY <2>1, <2>2, <2>3, Zenon
<1> QED
  BY <1>1, TypeCorrect, PTL DEF Spec, UnmanagedKept

----------------------------------------------------------------------------
(* Labels, finalizers and the lagging cache.                               *)

\* What an edit does to a connection that keeps its clusterRef once it has a finalizer.
LEMMA EditConnFacts ==
  ASSUME TypeOK, AllMarked, ~Movable, EditConn
  PROVE /\ UNCHANGED <<seen, cluster, shown, queue, rec, lives>>
        /\ \E c \in Conns :
             /\ \A d \in Conns \ {c} : conn'[d] = conn[d]
             /\ \/ /\ conn[c] = None /\ conn'[c] # None
                   /\ ~conn'[c].finalizer /\ Marked(conn'[c])
                \/ /\ conn[c] # None /\ conn'[c] # None /\ Marked(conn'[c])
                   /\ conn'[c].finalizer = conn[c].finalizer /\ conn'[c].label = conn[c].label
                   /\ conn[c].deleting => conn'[c].deleting
                \/ conn[c] # None /\ ~conn[c].finalizer /\ conn'[c] = None
<1>1. UNCHANGED <<seen, cluster, shown, queue, rec, lives>>
  BY Zenon DEF EditConn
<1>2. PICK c \in Conns :
       \/ /\ conn[c] = None
          /\ \E s \in Specs, k \in Clusters :
               conn' = [conn EXCEPT ![c] = [spec |-> s, ref |-> k, finalizer |-> FALSE,
                                            label |-> None, deleting |-> FALSE]]
       \/ /\ conn[c] # None
          /\ \E s \in Specs \ {conn[c].spec} : conn' = [conn EXCEPT ![c].spec = s]
       \/ /\ conn[c] # None /\ ~conn[c].deleting
          /\ conn' = IF conn[c].finalizer THEN [conn EXCEPT ![c].deleting = TRUE]
                     ELSE [conn EXCEPT ![c] = None]
       \/ /\ conn[c] # None /\ ~conn[c].finalizer
          /\ \E k \in Clusters \ {conn[c].ref} : conn' = [conn EXCEPT ![c].ref = k]
  BY Zenon DEF EditConn
<1>3. ASSUME conn[c] # None PROVE conn[c] \in Connections /\ Marked(conn[c])
  BY <1>3, Zenon DEF TypeOK, AllMarked
<1>4. \A d \in Conns \ {c} : conn'[d] = conn[d]
  BY <1>2, Zenon DEF TypeOK
<1>5. ASSUME conn[c] = None,
             NEW s \in Specs, NEW k \in Clusters,
             conn' = [conn EXCEPT ![c] = [spec |-> s, ref |-> k, finalizer |-> FALSE,
                                          label |-> None, deleting |-> FALSE]]
      PROVE conn'[c] # None /\ ~conn'[c].finalizer /\ Marked(conn'[c])
  <2> DEFINE o == [spec |-> s, ref |-> k, finalizer |-> FALSE, label |-> None,
                   deleting |-> FALSE]
  <2>1. conn'[c] = o
    BY <1>5, Zenon DEF TypeOK
  <2>2. o \in Connections /\ ~o.finalizer /\ Marked(o)
    BY Zenon DEF Connections, Marked
  <2> HIDE DEF o
  <2> QED
    BY <2>1, <2>2, NoneAssumption, Zenon
<1>6. ASSUME conn[c] # None, NEW o \in Connections, conn' = [conn EXCEPT ![c] = o],
             o.finalizer = conn[c].finalizer, o.label = conn[c].label, Marked(o),
             conn[c].deleting => o.deleting
      PROVE /\ conn'[c] # None /\ Marked(conn'[c])
            /\ conn'[c].finalizer = conn[c].finalizer /\ conn'[c].label = conn[c].label
            /\ conn[c].deleting => conn'[c].deleting
  BY <1>6, NoneAssumption, Zenon DEF TypeOK
<1>7. ASSUME conn[c] # None, NEW s \in Specs, conn' = [conn EXCEPT ![c].spec = s]
      PROVE \E o \in Connections :
              /\ conn' = [conn EXCEPT ![c] = o]
              /\ o.finalizer = conn[c].finalizer /\ o.label = conn[c].label /\ Marked(o)
              /\ conn[c].deleting => o.deleting
  <2> DEFINE o == [conn[c] EXCEPT !.spec = s]
  <2>1. /\ o \in Connections /\ conn' = [conn EXCEPT ![c] = o]
        /\ o.finalizer = conn[c].finalizer /\ o.label = conn[c].label
        /\ conn[c].deleting => o.deleting
    BY <1>3, <1>7, Zenon DEF Connections
  <2>2. Marked(o)
    BY <1>3, <1>7, Zenon DEF Connections, Marked
  <2> QED
    BY <2>1, <2>2, Zenon
<1>8. ASSUME conn[c] # None, conn[c].finalizer, conn' = [conn EXCEPT ![c].deleting = TRUE]
      PROVE \E o \in Connections :
              /\ conn' = [conn EXCEPT ![c] = o]
              /\ o.finalizer = conn[c].finalizer /\ o.label = conn[c].label /\ Marked(o)
              /\ conn[c].deleting => o.deleting
  <2> DEFINE o == [conn[c] EXCEPT !.deleting = TRUE]
  <2>1. /\ o \in Connections /\ conn' = [conn EXCEPT ![c] = o]
        /\ o.finalizer = conn[c].finalizer /\ o.label = conn[c].label
        /\ conn[c].deleting => o.deleting
    BY <1>3, <1>8, Zenon DEF Connections
  <2>2. Marked(o)
    BY <1>3, <1>8, Zenon DEF Connections, Marked
  <2> QED
    BY <2>1, <2>2, Zenon
<1>9. ASSUME conn[c] # None, ~conn[c].finalizer, NEW k \in Clusters,
             conn' = [conn EXCEPT ![c].ref = k]
      PROVE \E o \in Connections :
              /\ conn' = [conn EXCEPT ![c] = o]
              /\ o.finalizer = conn[c].finalizer /\ o.label = conn[c].label /\ Marked(o)
              /\ conn[c].deleting => o.deleting
  <2> DEFINE o == [conn[c] EXCEPT !.ref = k]
  <2>1. /\ o \in Connections /\ conn' = [conn EXCEPT ![c] = o]
        /\ o.finalizer = conn[c].finalizer /\ o.label = conn[c].label
        /\ conn[c].deleting => o.deleting
    BY <1>3, <1>9, Zenon DEF Connections
  <2>2. Marked(o)
    BY <1>3, <1>9, Zenon DEF Connections, Marked
  <2> QED
    BY <2>1, <2>2, Zenon
<1>10. ASSUME conn' = [conn EXCEPT ![c] = None] PROVE conn'[c] = None
  BY <1>10, Zenon DEF TypeOK
<1> QED
  BY <1>1, <1>2, <1>4, <1>5, <1>6, <1>7, <1>8, <1>9, <1>10, Zenon

\* What AddFinalizer does when the connection is still what was read.
LEMMA AddFinalizerFacts ==
  ASSUME TypeOK, AllMarked, AddFinalizer
  PROVE /\ UNCHANGED <<seen, cluster, shown, lives, events>>
        /\ rec # None /\ rec.step = "finalizer" /\ rec.c \in Conns /\ rec.ref \in Clusters
        /\ \/ /\ conn[rec.c] = rec.conn /\ rec.conn \in Connections
              /\ \A d \in Conns \ {rec.c} : conn'[d] = conn[d]
              /\ conn'[rec.c] # None /\ conn'[rec.c] = rec'.conn /\ rec' # None
              /\ rec'.conn.finalizer /\ rec'.conn.label = rec.ref /\ rec'.conn.ref = rec.ref
              /\ rec'.conn.deleting = rec.conn.deleting
              /\ rec'.c = rec.c /\ rec'.ref = rec.ref /\ rec'.cluster = rec.cluster
              /\ rec'.step = "list" /\ queue' = queue
           \/ conn' = conn /\ rec' = None /\ queue' = queue \cup {rec.c}
<1> DEFINE o == [rec.conn EXCEPT !.finalizer = TRUE, !.label = Label(rec.ref)]
<1>1. /\ rec # None /\ rec \in Requests /\ rec.c \in Conns /\ rec.step = "finalizer"
      /\ rec.conn \in Connections /\ rec.ref \in Clusters /\ rec.conn.ref = rec.ref
      /\ UNCHANGED <<seen, cluster, shown, lives, events>>
  BY RequestFacts, Zenon DEF AddFinalizer, AllMarked
<1>2. /\ o \in Connections /\ o.finalizer /\ o.label = rec.ref /\ o.ref = rec.ref
      /\ o.deleting = rec.conn.deleting
  BY <1>1, Zenon DEF Connections, Label
<1>3. CASE conn[rec.c] = rec.conn
  <2>1. /\ conn' = [conn EXCEPT ![rec.c] = o] /\ queue' = queue
        /\ rec' = [rec EXCEPT !.conn = o, !.step = "list"]
    BY <1>3, Zenon DEF AddFinalizer
  <2> HIDE DEF o
  <2>2. /\ rec'.conn = o /\ rec'.c = rec.c /\ rec'.ref = rec.ref /\ rec'.cluster = rec.cluster
        /\ rec'.step = "list" /\ rec' \in Requests
    BY <1>1, <1>2, <2>1, Zenon DEF Requests
  <2> QED
    BY <1>1, <1>2, <1>3, <2>1, <2>2, NoneAssumption, Zenon DEF TypeOK
<1>4. CASE conn[rec.c] # rec.conn
  BY <1>1, <1>4, Zenon DEF AddFinalizer, Retry
<1> QED
  BY <1>1, <1>3, <1>4, Zenon

Marks == AllMarked /\ CacheBehind /\ InHand

\* Only AddFinalizer labels a connection and only RemoveFinalizer lets one go, so what the
\* cache says of a label stays true while a reconciliation is in progress.
LEMMA NextMarks ==
  ASSUME ~Movable, TypeOK, Base, Marks, [Next]_vars
  PROVE Marks'
<1> USE DEF Marks
<1>a. ASSUME rec' = None, UNCHANGED <<conn, seen>> PROVE Marks'
  BY <1>a, Zenon DEF AllMarked, CacheBehind, InHand, Holds
<1>1. CASE Reconcile
  <2>1. CASE UNCHANGED <<conn, seen, rec>>
    BY <2>1, Zenon DEF AllMarked, CacheBehind, InHand, Holds
  <2>2. CASE rec' # None /\ rec = None
    <3>1. PICK c \in queue :
            /\ seen[c] \in Connections /\ UNCHANGED <<conn, seen>>
            /\ rec' = [c |-> c, conn |-> seen[c], ref |-> seen[c].ref,
                       cluster |-> shown[seen[c].ref], new |-> None,
                       step |-> First(seen[c], shown[seen[c].ref])]
            /\ First(seen[c], shown[seen[c].ref]) \in {"finalizer", "list", "release"}
      BY <1>1, <2>2, ReconcileFacts, Zenon
    <3>2. c \in Conns /\ seen[c] # None /\ Marked(seen[c])
      BY <3>1, NoneAssumption, Zenon DEF TypeOK, AllMarked
    <3>3. AllMarked'
      BY <3>1, <3>2, Zenon DEF AllMarked
    <3>4. CacheBehind'
      BY <3>1, Zenon DEF CacheBehind, Holds
    <3>5. /\ rec'.c = c /\ rec'.conn = seen[c] /\ rec'.ref = seen[c].ref
          /\ rec'.step = First(seen[c], shown[seen[c].ref])
      BY <3>1, Zenon
    <3>6. /\ rec'.step = "finalizer" => ~seen[c].finalizer /\ ~seen[c].deleting
          /\ rec'.step # "finalizer" => seen[c].finalizer
          /\ rec'.step = "release" => seen[c].deleting
      BY <3>1, <3>5, Zenon DEF First
    <3>7. InHand'
      BY <3>1, <3>2, <3>5, <3>6, Zenon DEF InHand, CacheBehind, Marked, Holds
    <3> QED
      BY <3>3, <3>4, <3>7, Zenon
  <2> QED
    BY <1>1, <2>1, <2>2, ReconcileFacts, Zenon
<1>2. CASE AddFinalizer
  <2>1. CASE conn' = conn /\ rec' = None
    BY <1>2, <2>1, <1>a, Zenon DEF AddFinalizer
  <2>2. CASE rec' # None
    <3>1. /\ seen' = seen /\ rec # None /\ rec.step = "finalizer" /\ rec.c \in Conns
          /\ conn[rec.c] = rec.conn
          /\ \A d \in Conns \ {rec.c} : conn'[d] = conn[d]
          /\ conn'[rec.c] # None /\ conn'[rec.c] = rec'.conn
          /\ rec'.conn.finalizer /\ rec'.conn.label = rec.ref /\ rec'.conn.ref = rec.ref
          /\ rec'.conn.deleting = rec.conn.deleting
          /\ rec'.c = rec.c /\ rec'.ref = rec.ref /\ rec'.step = "list"
      BY <1>2, <2>2, AddFinalizerFacts, Zenon
    <3>2. /\ ~rec.conn.finalizer /\ ~rec.conn.deleting
          /\ seen[rec.c] = None \/ ~seen[rec.c].deleting
      BY <3>1, Zenon DEF InHand, AllMarked, Marked
    <3>3. AllMarked'
      BY <3>1 DEF AllMarked, Marked
    <3>4. CacheBehind'
      BY <3>1, <3>2 DEF CacheBehind, Holds
    <3>5. InHand'
      BY <2>2, <3>1, <3>2, Zenon DEF InHand, Holds
    <3> QED
      BY <3>3, <3>4, <3>5, Zenon
  <2> QED
    BY <1>2, <2>1, <2>2, AddFinalizerFacts, Zenon
<1>3. CASE List
  <2>1. /\ rec # None /\ rec \in Requests /\ rec.step = "list" /\ UNCHANGED <<conn, seen>>
        /\ \E new : rec' = [rec EXCEPT !.new = new, !.step = "apply"]
    BY <1>3, RequestFacts, Zenon DEF List
  <2>2. rec'.c = rec.c /\ rec'.conn = rec.conn /\ rec'.ref = rec.ref /\ rec'.step = "apply"
    BY <2>1, Zenon DEF Requests
  <2> QED
    BY <2>1, <2>2, Zenon DEF AllMarked, CacheBehind, InHand, Holds
<1>4. CASE Apply
  <2>1. CASE rec' = None
    BY <1>4, <2>1, <1>a, Zenon DEF Apply
  <2>2. CASE rec.conn.deleting /\ rec' = [rec EXCEPT !.step = "release"]
    <3>1. rec # None /\ rec \in Requests /\ rec.step = "apply" /\ UNCHANGED <<conn, seen>>
      BY <1>4, RequestFacts, Zenon DEF Apply
    <3>2. rec'.c = rec.c /\ rec'.conn = rec.conn /\ rec'.ref = rec.ref /\ rec'.step = "release"
      BY <2>2, <3>1, Zenon DEF Requests
    <3> QED
      BY <2>2, <3>1, <3>2, Zenon DEF AllMarked, CacheBehind, InHand, Holds
  <2> QED
    BY <1>4, <2>1, <2>2, Zenon DEF Apply, Synced, Goto, Done, Retry
<1>5. CASE RemoveFinalizer
  <2>1. CASE UNCHANGED conn
    BY <1>5, <2>1, <1>a, Zenon DEF RemoveFinalizer, Done, Retry
  <2>2. CASE conn[rec.c] = rec.conn /\ conn' = [conn EXCEPT ![rec.c] = None] /\ rec' = None
    <3>1. /\ rec # None /\ rec.c \in Conns /\ rec.conn \in Connections /\ seen' = seen
          /\ rec.conn.deleting /\ rec.conn.finalizer
      BY <1>5, RequestFacts, Zenon DEF RemoveFinalizer, InHand
    <3>2. seen[rec.c] # None /\ seen[rec.c].deleting
      BY <2>2, <3>1, NoneAssumption, Zenon DEF InHand
    <3>3. conn'[rec.c] = None /\ \A d \in Conns \ {rec.c} : conn'[d] = conn[d]
      BY <2>2, <3>1, Zenon DEF TypeOK
    <3> QED
      BY <2>2, <3>1, <3>2, <3>3 DEF AllMarked, CacheBehind, InHand, Holds
  <2> QED
    BY <1>5, <2>1, <2>2, Zenon DEF RemoveFinalizer, Done
<1>6. CASE SeeConn
  <2>1. PICK c \in Conns : seen' = [seen EXCEPT ![c] = conn[c]]
    BY <1>6, Zenon DEF SeeConn
  <2>2. seen'[c] = conn[c] /\ \A d \in Conns \ {c} : seen'[d] = seen[d]
    BY <2>1, Zenon DEF TypeOK
  <2>3. UNCHANGED <<conn, rec>>
    BY <1>6, Zenon DEF SeeConn
  <2>4. AllMarked' /\ CacheBehind'
    BY <2>2, <2>3, Zenon DEF AllMarked, CacheBehind, Holds
  <2>5. InHand'
    <3>1. rec # None => rec.c \in Conns
      BY RequestFacts, Zenon
    <3> QED
      BY <2>2, <2>3, <3>1 DEF InHand, Holds, AllMarked, Marked
  <2> QED
    BY <2>4, <2>5, Zenon
<1>7. CASE EditConn
  <2>1. UNCHANGED <<seen, rec>>
    BY <1>7, EditConnFacts, Zenon
  <2>2. PICK c \in Conns :
             /\ \A d \in Conns \ {c} : conn'[d] = conn[d]
             /\ \/ /\ conn[c] = None /\ conn'[c] # None
                   /\ ~conn'[c].finalizer /\ Marked(conn'[c])
                \/ /\ conn[c] # None /\ conn'[c] # None /\ Marked(conn'[c])
                   /\ conn'[c].finalizer = conn[c].finalizer /\ conn'[c].label = conn[c].label
                   /\ conn[c].deleting => conn'[c].deleting
                \/ conn[c] # None /\ ~conn[c].finalizer /\ conn'[c] = None
    BY <1>7, EditConnFacts, Zenon
  <2>3. rec # None => rec.c \in Conns
    BY RequestFacts
  <2>4. AllMarked'
    BY <2>1, <2>2, Zenon DEF AllMarked
  <2>5. CacheBehind'
    BY <2>1, <2>2, ZenonT(60) DEF CacheBehind, Holds
  <2>6. InHand'
    BY <2>1, <2>2, <2>3, Zenon DEF InHand, Holds
  <2> QED
    BY <2>4, <2>5, <2>6, Zenon
<1>8. CASE Fails
  BY <1>8, <1>a, Zenon DEF Fails, Retry
<1>9. CASE Restart
  BY <1>9, Zenon DEF Restart, AllMarked, CacheBehind, InHand, Holds
<1>10. CASE SeeCluster \/ EditCluster \/ UNCHANGED vars
  BY <1>10, ZenonT(60) DEF SeeCluster, EditCluster, vars, AllMarked, CacheBehind, InHand, Holds
<1> QED
  BY <1>1, <1>2, <1>3, <1>4, <1>5, <1>6, <1>7, <1>8, <1>9, <1>10, Zenon DEF Next, Worker

\* A label stays until its connection is let go.
LEMMA HoldsStays ==
  ASSUME ~Movable, TypeOK, Marks, [Next]_vars, NEW c \in Conns, NEW k \in Clusters,
         Holds(c, k), ~(RemoveFinalizer /\ c = rec.c)
  PROVE Holds(c, k)'
<1>1. CASE RemoveFinalizer
  <2>1. c # rec.c
    BY <1>1, Zenon
  <2> QED
    BY <1>1, <2>1, Zenon DEF RemoveFinalizer, Holds, TypeOK
<1>2. CASE AddFinalizer
  <2>1. CASE conn' = conn
    BY <2>1, Zenon DEF Holds
  <2>2. CASE conn[rec.c] = rec.conn /\ \A d \in Conns \ {rec.c} : conn'[d] = conn[d]
    <3>1. c # rec.c
      BY <1>2, <2>2, Zenon DEF AddFinalizer, Marks, InHand, Holds
    <3> QED
      BY <2>2, <3>1, Zenon DEF Holds
  <2> QED
    BY <1>2, <2>1, <2>2, AddFinalizerFacts, Zenon DEF Marks
<1>3. CASE EditConn
  BY <1>3, EditConnFacts, Zenon DEF Marks, Holds
<1>4. CASE conn' = conn
  BY <1>4 DEF Holds
<1> QED
  BY <1>1, <1>2, <1>3, <1>4, Zenon
     DEF Next, Worker, Reconcile, List, Apply, SeeConn, SeeCluster, EditCluster, Fails,
         Restart, vars

----------------------------------------------------------------------------
(* The nodes of a cluster, counted.                                        *)

\* Sets of connections are finite and counted (len of the listed connections).
LEMMA CardFacts ==
  ASSUME NEW T \in SUBSET Conns, NEW S \in SUBSET T
  PROVE /\ Cardinality(S) \in Nat /\ Cardinality(T) \in Nat
        /\ Cardinality(S) <= Cardinality(T)
BY FiniteAssumption, FS_Subset, FS_CardinalityType, Zenon

\* The number of storage nodes of a cluster is a number (buildStorageNodeConfig).
LEMMA NodesType == \A cl \in ClusterObjects : Nodes(cl) \in Nat
BY DEF Nodes, ClusterObjects, storageNodeOwnedArgs

\* What an edit does to a cluster: the owned arguments are only lost with the cluster.
LEMMA EditClusterFacts ==
  ASSUME TypeOK, EditCluster
  PROVE /\ UNCHANGED <<conn, seen, shown, queue, rec>>
        /\ \E k \in Clusters :
             /\ \A j \in Clusters \ {k} : cluster'[j] = cluster[j] /\ lives'[j] = lives[j]
             /\ \/ cluster[k] = None /\ cluster'[k] = Blank /\ lives'[k] = lives[k] + 1
                \/ cluster'[k] = None /\ lives'[k] = lives[k]
                \/ /\ cluster[k] # None /\ cluster'[k] \in ClusterObjects
                   /\ Same(cluster'[k], cluster[k]) /\ lives'[k] = lives[k]
<1>1. UNCHANGED <<conn, seen, shown, queue, rec>>
  BY Zenon DEF EditCluster
<1>2. PICK k \in Clusters :
            \/ /\ cluster[k] = None /\ cluster' = [cluster EXCEPT ![k] = Blank]
               /\ lives' = [lives EXCEPT ![k] = @ + 1]
            \/ cluster' = [cluster EXCEPT ![k] = None] /\ UNCHANGED lives
            \/ /\ cluster[k] # None /\ cluster' = [cluster EXCEPT ![k].other = 3 - @]
               /\ UNCHANGED lives
  BY Zenon DEF EditCluster
<1>3. \A j \in Clusters \ {k} : cluster'[j] = cluster[j] /\ lives'[j] = lives[j]
  BY <1>2, Zenon DEF TypeOK
<1>4. CASE cluster[k] # None /\ cluster' = [cluster EXCEPT ![k].other = 3 - @] /\ UNCHANGED lives
  <2>1. cluster[k] \in ClusterObjects
    BY <1>4, Zenon DEF TypeOK
  <2>2. /\ [cluster[k] EXCEPT !.other = 3 - @] \in ClusterObjects
        /\ Same([cluster[k] EXCEPT !.other = 3 - @], cluster[k])
    BY <2>1 DEF ClusterObjects, Same
  <2>3. cluster'[k] = [cluster[k] EXCEPT !.other = 3 - @]
    BY <1>4, <2>1, Zenon DEF TypeOK
  <2> QED
    BY <1>1, <1>3, <1>4, <2>2, <2>3, Zenon
<1>5. CASE cluster' = [cluster EXCEPT ![k] = None] /\ UNCHANGED lives
  BY <1>1, <1>3, <1>5, Zenon DEF TypeOK
<1>6. CASE /\ cluster[k] = None /\ cluster' = [cluster EXCEPT ![k] = Blank]
           /\ lives' = [lives EXCEPT ![k] = @ + 1]
  BY <1>1, <1>3, <1>6, Zenon DEF TypeOK
<1> QED
  BY <1>2, <1>4, <1>5, <1>6, Zenon

\* What Apply does: the cluster is written, is as it is to be, or the request is retried.
LEMMA ApplyFacts ==
  ASSUME TypeOK, Base, Apply
  PROVE /\ UNCHANGED <<conn, seen, shown, lives, events>>
        /\ rec \in Requests /\ rec # None /\ rec.step = "apply"
        /\ rec.c \in Conns /\ rec.ref \in Clusters /\ rec.conn \in Connections
        /\ rec.new \in ClusterObjects /\ rec.cluster \in ClusterObjects
        /\ \A j \in Clusters \ {rec.ref} : cluster'[j] = cluster[j]
        /\ \/ /\ cluster' = cluster /\ rec' = None /\ queue' = queue \cup {rec.c}
           \/ /\ \/ cluster'[rec.ref] = rec.new
                 \/ cluster' = cluster /\ rec.new = rec.cluster
              /\ queue' = queue
              /\ \/ ~rec.conn.deleting /\ rec' = None
                 \/ /\ rec.conn.deleting /\ rec' # None /\ rec'.step = "release"
                    /\ rec'.c = rec.c /\ rec'.ref = rec.ref /\ rec'.conn = rec.conn
<1>1. /\ UNCHANGED <<conn, seen, shown, lives, events>>
      /\ rec \in Requests /\ rec # None /\ rec.step = "apply"
      /\ rec.c \in Conns /\ rec.ref \in Clusters /\ rec.conn \in Connections
      /\ rec.new \in ClusterObjects /\ rec.cluster \in ClusterObjects
  BY RequestFacts, Zenon DEF Apply, Base
<1>2. \/ cluster' = cluster /\ rec' = None /\ queue' = queue \cup {rec.c}
      \/ /\ \/ cluster' = [cluster EXCEPT ![rec.ref] = rec.new]
            \/ cluster' = cluster /\ rec.new = rec.cluster
         /\ Synced
  BY Zenon DEF Apply, Unchanged, Retry
<1>3. Synced => /\ queue' = queue
                /\ \/ ~rec.conn.deleting /\ rec' = None
                   \/ rec.conn.deleting /\ rec' = [rec EXCEPT !.step = "release"]
  BY Zenon DEF Synced, Goto, Done
<1>4. LET r == [rec EXCEPT !.step = "release"]
      IN  r # None /\ r.step = "release" /\ r.c = rec.c /\ r.ref = rec.ref /\ r.conn = rec.conn
  <2>1. [rec EXCEPT !.step = "release"] \in Requests
    BY <1>1, Zenon DEF Requests
  <2> QED
    BY <1>1, <2>1, NoneAssumption, Zenon DEF Requests
<1>5. cluster' = [cluster EXCEPT ![rec.ref] = rec.new] =>
        /\ cluster'[rec.ref] = rec.new
        /\ \A j \in Clusters \ {rec.ref} : cluster'[j] = cluster[j]
  BY <1>1, Zenon DEF TypeOK
<1> QED
  BY <1>1, <1>2, <1>3, <1>4, <1>5, Zenon

\* A request that is taken, with a cached cluster that is not older than the connections.
LEMMA TakenFacts ==
  ASSUME ~ClusterLag, TypeOK, Marks, Reconcile
  PROVE /\ UNCHANGED <<conn, seen, cluster, shown, lives, events>>
        /\ \/ /\ rec' = rec
              /\ \E c \in queue : queue' = queue \/ (queue' = queue \ {c} /\ seen[c] = None)
           \/ \E c \in queue :
                /\ rec = None /\ rec' # None /\ c \in Conns /\ queue' = queue \ {c}
                /\ seen[c] # None /\ Marked(seen[c]) /\ seen[c].ref \in Clusters
                /\ rec'.c = c /\ rec'.conn = seen[c] /\ rec'.ref = seen[c].ref
                /\ rec'.cluster = cluster[seen[c].ref]
                /\ rec'.step \in {"finalizer", "list", "release"}
                /\ rec'.step = "finalizer" <=> ~seen[c].finalizer
                /\ rec'.step = "release" <=> rec'.cluster = None
<1>0. UNCHANGED <<conn, seen, cluster, shown, lives, events>>
  BY Zenon DEF Reconcile
<1>1. CASE \E c \in queue : /\ UNCHANGED rec
                            /\ queue' \in {queue, queue \ {c}}
                            /\ \/ queue' = queue
                               \/ seen[c] = None
                               \/ seen[c].deleting /\ ~seen[c].finalizer
  <2>1. PICK c \in queue : /\ UNCHANGED rec
                           /\ queue' \in {queue, queue \ {c}}
                           /\ \/ queue' = queue
                              \/ seen[c] = None
                              \/ seen[c].deleting /\ ~seen[c].finalizer
    BY <1>1, Zenon
  <2>2. queue' = queue \/ (queue' = queue \ {c} /\ seen[c] = None)
    <3>1. c \in Conns
      BY <2>1, Zenon DEF TypeOK
    <3>2. seen[c] # None => Marked(seen[c])
      BY <3>1, Zenon DEF Marks, AllMarked
    <3>3. seen[c] # None => ~(seen[c].deleting /\ ~seen[c].finalizer)
      BY <3>2, Zenon DEF Marked
    <3> QED
      BY <2>1, <3>3, Zenon
  <2> QED
    BY <1>0, <2>1, <2>2, Zenon
<1>2. ASSUME NEW c \in queue, rec = None, seen[c] \in Connections, shown = cluster,
             queue' = queue \ {c},
             rec' = [c |-> c, conn |-> seen[c], ref |-> seen[c].ref,
                     cluster |-> shown[seen[c].ref], new |-> None,
                     step |-> First(seen[c], shown[seen[c].ref])],
             rec' # None, First(seen[c], shown[seen[c].ref]) \in {"finalizer", "list", "release"}
      PROVE /\ rec = None /\ rec' # None /\ c \in Conns /\ queue' = queue \ {c}
            /\ seen[c] # None /\ Marked(seen[c]) /\ seen[c].ref \in Clusters
            /\ rec'.c = c /\ rec'.conn = seen[c] /\ rec'.ref = seen[c].ref
            /\ rec'.cluster = cluster[seen[c].ref]
            /\ rec'.step \in {"finalizer", "list", "release"}
            /\ rec'.step = "finalizer" <=> ~seen[c].finalizer
            /\ rec'.step = "release" <=> rec'.cluster = None
  <2>1. c \in Conns /\ seen[c] # None /\ Marked(seen[c]) /\ seen[c].ref \in Clusters
    BY <1>2, NoneAssumption, Zenon DEF TypeOK, Marks, AllMarked, Connections
  <2>2. /\ rec'.c = c /\ rec'.conn = seen[c] /\ rec'.ref = seen[c].ref
        /\ rec'.cluster = cluster[seen[c].ref]
        /\ rec'.step = First(seen[c], rec'.cluster)
    BY <1>2, Zenon
  <2>3. /\ rec'.step = "finalizer" <=> ~seen[c].finalizer
        /\ rec'.step = "release" <=> rec'.cluster = None
    BY <1>2, <2>1, <2>2, Zenon DEF First, Marked
  <2> QED
    BY <1>2, <2>1, <2>2, <2>3, Zenon
<1> QED
  BY <1>0, <1>1, <1>2, ReconcileFacts, Zenon

\* What RemoveFinalizer does.
LEMMA ReleaseFacts ==
  ASSUME TypeOK, Marks, RemoveFinalizer
  PROVE /\ UNCHANGED <<seen, cluster, shown, lives, events>>
        /\ rec # None /\ rec.step = "release" /\ rec.c \in Conns /\ rec.ref \in Clusters
        /\ rec' = None
        /\ \A d \in Conns \ {rec.c} : conn'[d] = conn[d]
        /\ \/ conn' = conn /\ queue' = queue \cup {rec.c}
           \/ /\ Holds(rec.c, rec.ref) /\ conn[rec.c].deleting /\ conn'[rec.c] = None
              /\ seen[rec.c] # None /\ seen[rec.c].deleting /\ queue' = queue
<1>1. /\ UNCHANGED <<seen, cluster, shown, lives, events>>
      /\ rec # None /\ rec.step = "release" /\ rec.c \in Conns /\ rec.ref \in Clusters
      /\ rec.conn \in Connections /\ rec.conn.deleting /\ rec.conn.finalizer
  BY RequestFacts, Zenon DEF RemoveFinalizer, Marks, InHand
<1>2. CASE conn[rec.c] = rec.conn
  <2>1. conn' = [conn EXCEPT ![rec.c] = None] /\ rec' = None /\ queue' = queue
    BY <1>2, Zenon DEF RemoveFinalizer, Done
  <2>2. Holds(rec.c, rec.ref) /\ conn[rec.c].deleting /\ seen[rec.c] # None /\ seen[rec.c].deleting
    BY <1>1, <1>2, NoneAssumption, Zenon DEF Marks, InHand, Holds
  <2> QED
    BY <1>1, <2>1, <2>2, Zenon DEF TypeOK
<1>3. CASE conn[rec.c] # rec.conn
  BY <1>1, <1>3, Zenon DEF RemoveFinalizer, Retry
<1> QED
  BY <1>1, <1>2, <1>3, Zenon

\* A reconciliation compares and replaces what is there, or what replaced it.
LEMMA NextRead ==
  ASSUME ~Movable, ~ClusterLag, TypeOK, Base, Marks, Read, [Next]_vars
  PROVE Read'
<1>r. rec # None => rec.c \in Conns /\ rec.ref \in Clusters
  BY RequestFacts, Zenon
<1>l. \A c \in Conns : conn[c] # None /\ conn[c].finalizer =>
        conn[c].label \in Clusters /\ Holds(c, conn[c].label)
  BY Zenon DEF TypeOK, Marks, AllMarked, Marked, Holds, Connections
<1>1. CASE Reconcile
  <2>0. UNCHANGED <<conn, seen, cluster, lives>>
    BY <1>1, Zenon DEF Reconcile
  <2>1. CASE rec' = rec
    BY <2>0, <2>1, Zenon DEF Read, Holds
  <2>2. CASE rec' # rec
    <3>1. PICK c \in Conns :
            /\ seen[c] # None /\ Marked(seen[c]) /\ seen[c].ref \in Clusters
            /\ rec' # None /\ rec'.ref = seen[c].ref /\ rec'.cluster = cluster[seen[c].ref]
            /\ rec'.step = "finalizer" <=> ~seen[c].finalizer
            /\ rec'.step = "release" <=> rec'.cluster = None
      BY <1>1, <2>2, TakenFacts, Zenon
    <3>2. lives[rec'.ref] >= 1
      BY <3>1, Zenon DEF Read, Marked
    <3>3. rec'.step # "release" => Same(cluster[rec'.ref], rec'.cluster)
      BY <3>1, Zenon DEF Same
    <3> QED
      BY <2>0, <3>2, <3>3, Zenon DEF Read, Holds
  <2> QED
    BY <2>1, <2>2, Zenon
<1>2. CASE AddFinalizer
  <2>1. CASE conn' = conn /\ rec' = None
    BY <1>2, <2>1, AddFinalizerFacts, Zenon DEF Marks, Read, Holds
  <2>2. CASE rec' # None
    <3>1. /\ UNCHANGED <<seen, cluster, lives>> /\ rec # None /\ rec.step = "finalizer"
          /\ \A d \in Conns \ {rec.c} : conn'[d] = conn[d]
          /\ conn'[rec.c] = rec'.conn /\ rec'.conn.label = rec.ref
          /\ rec'.ref = rec.ref /\ rec'.cluster = rec.cluster /\ rec'.step = "list"
      BY <1>2, <2>2, AddFinalizerFacts, Zenon DEF Marks
    <3> QED
      BY <1>r, <3>1 DEF Read, Holds
  <2> QED
    BY <1>2, <2>1, <2>2, AddFinalizerFacts, Zenon DEF Marks
<1>3. CASE List
  <2>1. /\ rec # None /\ rec \in Requests /\ rec.step = "list"
        /\ UNCHANGED <<conn, seen, cluster, lives>>
        /\ \E new : rec' = [rec EXCEPT !.new = new, !.step = "apply"]
    BY <1>3, RequestFacts, Zenon DEF List
  <2>2. rec'.ref = rec.ref /\ rec'.cluster = rec.cluster /\ rec'.step = "apply"
    BY <2>1, Zenon DEF Requests
  <2> QED
    BY <2>1, <2>2, Zenon DEF Read, Holds
<1>4. CASE Apply
  <2>1. /\ UNCHANGED <<conn, seen, lives>> /\ rec # None /\ rec.ref \in Clusters
        /\ \A j \in Clusters \ {rec.ref} : cluster'[j] = cluster[j]
        /\ rec' # None => rec'.step = "release" /\ rec'.ref = rec.ref
    BY <1>4, ApplyFacts, Zenon
  <2> QED
    BY <2>1, Zenon DEF Read, Holds
<1>5. CASE RemoveFinalizer
  BY <1>5, ReleaseFacts DEF Read, Holds
<1>6. CASE SeeConn
  <2>1. PICK c \in Conns : seen' = [seen EXCEPT ![c] = conn[c]]
    BY <1>6, Zenon DEF SeeConn
  <2>2. seen'[c] = conn[c] /\ \A d \in Conns \ {c} : seen'[d] = seen[d]
    BY <2>1, Zenon DEF TypeOK
  <2>3. UNCHANGED <<conn, cluster, lives, rec>>
    BY <1>6, Zenon DEF SeeConn
  <2> QED
    BY <1>l, <2>2, <2>3, Zenon DEF Read, Holds
<1>7. CASE EditConn
  <2>1. \A c \in Conns : \A k \in Clusters : Holds(c, k)' => Holds(c, k)
    BY <1>7, EditConnFacts, Zenon DEF Marks, Holds
  <2> QED
    BY <1>7, <2>1, Zenon DEF EditConn, Read
<1>8. CASE EditCluster
  <2>1. UNCHANGED <<conn, seen, rec>>
    BY <1>8, EditClusterFacts, Zenon
  <2>2. PICK k \in Clusters :
          /\ \A j \in Clusters \ {k} : cluster'[j] = cluster[j] /\ lives'[j] = lives[j]
          /\ \/ cluster[k] = None /\ cluster'[k] = Blank /\ lives'[k] = lives[k] + 1
             \/ cluster'[k] = None /\ lives'[k] = lives[k]
             \/ /\ cluster[k] # None
                /\ Same(cluster'[k], cluster[k]) /\ lives'[k] = lives[k]
    BY <1>8, EditClusterFacts, Zenon
  <2>3. \A j \in Clusters : lives[j] \in Nat /\ lives'[j] >= lives[j]
    BY <2>2 DEF TypeOK
  <2>4. /\ \A j \in Clusters : cluster'[j] # None => lives'[j] >= 1
        /\ \A c \in Conns : \A j \in Clusters : Holds(c, j)' => lives'[j] >= 1
    BY <2>1, <2>2, <2>3, SMTT(20), ZenonT(30) DEF Read, Holds
  <2>5. \A c \in Conns : seen[c] # None /\ seen[c].finalizer => lives'[seen[c].label] >= 1
    <3> SUFFICES ASSUME NEW c \in Conns, seen[c] # None, seen[c].finalizer
                 PROVE lives'[seen[c].label] >= 1
      OBVIOUS
    <3>1. seen[c].label \in Clusters /\ lives[seen[c].label] >= 1
      BY Zenon DEF TypeOK, Marks, AllMarked, Marked, Connections, Read
    <3>2. lives'[seen[c].label] \in Nat
      BY <2>2, <3>1, SMTT(20), ZenonT(30) DEF TypeOK
    <3> QED
      BY <2>3, <3>1, <3>2
  <2>6. rec # None => lives'[rec.ref] >= 1
    BY <1>r, <2>2, <2>3 DEF Read, TypeOK
  <2>7. rec # None /\ rec.step # "release" /\ cluster'[rec.ref] # None =>
          \/ Same(cluster'[rec.ref], rec.cluster)
          \/ lives'[rec.ref] >= 2 /\ Same(cluster'[rec.ref], Blank)
    BY <1>r, <2>2, <2>3 DEF Read, Same
  <2> QED
    BY <2>1, <2>4, <2>5, <2>6, <2>7, Zenon DEF Read
<1>9. CASE Fails
  BY <1>9, Zenon DEF Fails, Retry, Read, Holds
<1>10. CASE Restart
  BY <1>10, <1>l, Zenon DEF Restart, Read, Holds
<1>11. CASE SeeCluster \/ UNCHANGED vars
  BY <1>11, Zenon DEF SeeCluster, vars, Read, Holds
<1> QED
  BY <1>1, <1>2, <1>3, <1>4, <1>5, <1>6, <1>7, <1>8, <1>9, <1>10, <1>11, ZenonT(60) DEF Next, Worker

\* syncCluster lists no connection that does not hold the cluster, and none in deletion.
LEMMA ListedHold ==
  ASSUME TypeOK, Marks, NEW k \in Clusters
  PROVE /\ Listed(k) \subseteq Holders(k) /\ Holders(k) \subseteq Conns
        /\ rec # None /\ rec.conn.deleting => rec.c \notin Listed(k)
<1>1. ASSUME NEW c \in Listed(k)
      PROVE /\ c \in Conns /\ seen[c] # None /\ seen[c].finalizer /\ ~seen[c].deleting
            /\ seen[c].label = k /\ Holds(c, k)
  <2>1. c \in Conns /\ seen[c] # None /\ seen[c].label = k /\ ~seen[c].deleting
    BY Zenon DEF Listed, Label
  <2>2. seen[c].finalizer
    BY <2>1, NoneAssumption, Zenon DEF Marks, AllMarked, Marked
  <2> QED
    BY <2>1, <2>2, Zenon DEF Marks, CacheBehind
<1>2. ASSUME rec # None, rec.conn.deleting, rec.c \in Listed(k) PROVE FALSE
  BY <1>1, <1>2, Zenon DEF Marks, InHand, Holds
<1> QED
  BY <1>1, <1>2, Zenon DEF Holders

\* The nodes of a cluster are counted by finalizers.
LEMMA NextCounted ==
  ASSUME ~Movable, ~ClusterLag, TypeOK, Base, Marks, Read, Counted, [Next]_vars, TypeOK'
  PROVE Counted'
<1>r. /\ rec # None => rec.c \in Conns /\ rec.ref \in Clusters
      /\ rec' # None => rec'.c \in Conns /\ rec'.ref \in Clusters
      /\ \A k \in Clusters : Holders(k) \subseteq Conns /\ Holders(k)' \subseteq Conns
      /\ rec # None => Going \in {{}, {rec.c}}
  BY RequestFacts, Zenon DEF Holders, TypeOK, Requests, Going
<1>n. /\ \A k \in Clusters : cluster[k] # None => cluster[k] \in ClusterObjects
      /\ \A k \in Clusters : cluster'[k] # None => cluster'[k] \in ClusterObjects
  BY Zenon DEF TypeOK
<1>m. \A S, T : S \subseteq T /\ T \subseteq Conns =>
        /\ Cardinality(S) \in Nat /\ Cardinality(T) \in Nat
        /\ Cardinality(S) <= Cardinality(T)
  BY CardFacts, Zenon
<1>g. ASSUME ~RemoveFinalizer, NEW k \in Clusters PROVE Holders(k) \subseteq Holders(k)'
  BY <1>g, HoldsStays, Zenon DEF Holders
<1>a. ASSUME ~RemoveFinalizer, UNCHANGED cluster
      PROVE \A k \in Clusters : cluster'[k] # None =>
              Nodes(cluster'[k]) <= Cardinality(Holders(k)')
  <2> SUFFICES ASSUME NEW k \in Clusters, cluster[k] # None
               PROVE Nodes(cluster[k]) <= Cardinality(Holders(k)')
    BY <1>a, Zenon
  <2>1. Nodes(cluster[k]) \in Nat /\ Nodes(cluster[k]) <= Cardinality(Holders(k))
    BY <1>n, NodesType, Zenon DEF Counted
  <2>2. /\ Cardinality(Holders(k)) \in Nat /\ Cardinality(Holders(k)') \in Nat
        /\ Cardinality(Holders(k)) <= Cardinality(Holders(k)')
    BY <1>a, <1>g, <1>m, <1>r, Zenon
  <2> QED
    BY <2>1, <2>2
<1>b. ASSUME rec' = None, ~RemoveFinalizer, UNCHANGED cluster PROVE Counted'
  BY <1>a, <1>b, Zenon DEF Counted
<1>c. ASSUME ~RemoveFinalizer, UNCHANGED rec, rec # None, rec.step = "apply"
      PROVE Nodes(rec.new) <= Cardinality(Holders(rec.ref)' \ Going)
  <2>1. rec.new \in ClusterObjects
    BY <1>c, RequestFacts, Zenon DEF Base
  <2>2. Nodes(rec.new) \in Nat /\ Nodes(rec.new) <= Cardinality(Holders(rec.ref) \ Going)
    BY <1>c, <2>1, NodesType, Zenon DEF Counted
  <2>3. Holders(rec.ref) \ Going \subseteq Holders(rec.ref)' \ Going
        /\ Holders(rec.ref)' \ Going \subseteq Conns
    BY <1>c, <1>g, <1>r, Zenon
  <2>4. /\ Cardinality(Holders(rec.ref) \ Going) \in Nat
        /\ Cardinality(Holders(rec.ref)' \ Going) \in Nat
        /\ Cardinality(Holders(rec.ref) \ Going) <= Cardinality(Holders(rec.ref)' \ Going)
    BY <1>m, <2>3, Zenon
  <2> QED
    BY <2>2, <2>4
<1>d. ASSUME ~RemoveFinalizer, UNCHANGED <<rec, cluster>>, rec # None, rec.step = "release",
             cluster[rec.ref] # None
      PROVE Nodes(cluster[rec.ref]) <= Cardinality(Holders(rec.ref)' \ {rec.c})
  <2>1. /\ Nodes(cluster[rec.ref]) \in Nat
        /\ Nodes(cluster[rec.ref]) <= Cardinality(Holders(rec.ref) \ {rec.c})
    BY <1>d, <1>n, <1>r, NodesType, Zenon DEF Counted
  <2>2. Holders(rec.ref) \ {rec.c} \subseteq Holders(rec.ref)' \ {rec.c}
        /\ Holders(rec.ref)' \ {rec.c} \subseteq Conns
    BY <1>d, <1>g, <1>r, Zenon
  <2>3. /\ Cardinality(Holders(rec.ref) \ {rec.c}) \in Nat
        /\ Cardinality(Holders(rec.ref)' \ {rec.c}) \in Nat
        /\ Cardinality(Holders(rec.ref) \ {rec.c}) <= Cardinality(Holders(rec.ref)' \ {rec.c})
    BY <1>m, <2>2, Zenon
  <2> QED
    BY <2>1, <2>3
<1>e. ASSUME ~RemoveFinalizer, UNCHANGED <<rec, cluster>> PROVE Counted'
  <2>1. Going' = Going
    BY <1>e, Zenon DEF Going
  <2> QED
    BY <1>a, <1>c, <1>d, <1>e, <2>1, Zenon DEF Counted
<1>1. CASE Reconcile
  <2>0. ~RemoveFinalizer /\ cluster' = cluster
    BY <1>1, Zenon DEF Reconcile, RemoveFinalizer
  <2>1. CASE rec' = rec
    BY <1>e, <2>0, <2>1, Zenon
  <2>2. CASE rec' # rec
    <3>1. /\ rec' # None /\ rec'.step \in {"finalizer", "list", "release"}
          /\ rec'.step = "release" <=> rec'.cluster = None
          /\ rec'.cluster = cluster[rec'.ref]
      BY <1>1, <2>2, TakenFacts, Zenon
    <3> QED
      BY <1>a, <2>0, <3>1, Zenon DEF Counted
  <2> QED
    BY <2>1, <2>2, Zenon
<1>2. CASE AddFinalizer
  <2>1. ~RemoveFinalizer /\ cluster' = cluster /\ rec' # None => rec'.step = "list"
    BY <1>2, AddFinalizerFacts, Zenon DEF Marks, RemoveFinalizer
  <2>2. ~RemoveFinalizer /\ cluster' = cluster
    BY <1>2, Zenon DEF AddFinalizer, RemoveFinalizer
  <2> QED
    BY <1>a, <2>1, <2>2, Zenon DEF Counted
<1>3. CASE List
  <2>0. /\ ~RemoveFinalizer /\ UNCHANGED <<cluster, conn>> /\ rec # None /\ rec.step = "list"
        /\ rec \in Requests /\ rec.ref \in Clusters /\ rec.cluster \in ClusterObjects
    BY <1>3, RequestFacts, Zenon DEF List, RemoveFinalizer, Base
  <2>1. PICK order \in Orders(Listed(rec.ref)) :
          rec' = [rec EXCEPT !.new = buildStorageNodeConfig(rec.cluster, order), !.step = "apply"]
    BY <1>3, Zenon DEF List
  <2> DEFINE new == buildStorageNodeConfig(rec.cluster, order)
  <2>2. Nodes(new) \in Nat /\ Nodes(new) <= Cardinality(Listed(rec.ref)) /\ new \in ClusterObjects
    BY <2>0, BuildFacts, Zenon
  <2> HIDE DEF new
  <2>3. /\ rec'.new = new /\ rec'.ref = rec.ref /\ rec'.conn = rec.conn /\ rec'.c = rec.c
        /\ rec'.step = "apply"
    BY <2>0, <2>1, <2>2, Zenon DEF Requests, new
  <2>4. Listed(rec.ref) \subseteq Holders(rec.ref) \ Going /\ Holders(rec.ref) \ Going \subseteq Conns
    BY <2>0, ListedHold, Zenon DEF Going
  <2>5. /\ Cardinality(Listed(rec.ref)) \in Nat
        /\ Cardinality(Holders(rec.ref) \ Going) \in Nat
        /\ Cardinality(Listed(rec.ref)) <= Cardinality(Holders(rec.ref) \ Going)
    BY <1>m, <2>4, Zenon
  <2>6. Nodes(new) <= Cardinality(Holders(rec.ref) \ Going)
    BY <2>2, <2>5
  <2>7. Holders(rec.ref)' = Holders(rec.ref) /\ Going' = Going
    BY <2>0, <2>3, Zenon DEF Holders, Holds, Going
  <2> QED
    BY <1>a, <2>0, <2>3, <2>6, <2>7, Zenon DEF Counted
<1>4. CASE Apply
  <2>0. /\ UNCHANGED conn /\ rec # None /\ rec.step = "apply" /\ rec.ref \in Clusters
        /\ rec.new \in ClusterObjects /\ rec.cluster \in ClusterObjects
        /\ \A j \in Clusters \ {rec.ref} : cluster'[j] = cluster[j]
        /\ ~RemoveFinalizer
    BY <1>4, ApplyFacts, Zenon DEF Apply, RemoveFinalizer
  <2>1. CASE rec' = None /\ cluster' = cluster
    BY <1>b, <2>0, <2>1, Zenon
  <2>2. CASE /\ \/ cluster'[rec.ref] = rec.new
                \/ cluster' = cluster /\ rec.new = rec.cluster
             /\ \/ ~rec.conn.deleting /\ rec' = None
                \/ /\ rec.conn.deleting /\ rec' # None /\ rec'.step = "release"
                   /\ rec'.c = rec.c /\ rec'.ref = rec.ref /\ rec'.conn = rec.conn
    <3>1. cluster'[rec.ref] # None =>
            Nodes(cluster'[rec.ref]) <= Cardinality(Holders(rec.ref) \ Going)
      <4>1. Cardinality(Holders(rec.ref) \ Going) \in Nat
        BY <1>m, <1>r, <2>0, Zenon
      <4>2. Nodes(rec.new) \in Nat /\ Nodes(rec.new) <= Cardinality(Holders(rec.ref) \ Going)
        BY <2>0, NodesType, Zenon DEF Counted
      <4>3. CASE cluster'[rec.ref] = rec.new
        BY <4>2, <4>3, Zenon
      <4>4. CASE cluster' = cluster /\ rec.new = rec.cluster /\ cluster[rec.ref] # None
        <5>1. Same(cluster[rec.ref], rec.new) \/ Same(cluster[rec.ref], Blank)
          BY <2>0, <4>4, Zenon DEF Read
        <5>2. Nodes(cluster[rec.ref]) \in {Nodes(rec.new), 0}
          BY <5>1, BlankFacts, Zenon DEF Same, Nodes
        <5> QED
          BY <4>1, <4>2, <4>4, <5>2
      <4> QED
        BY <2>2, <4>3, <4>4, Zenon
    <3>2. /\ Cardinality(Holders(rec.ref) \ Going) \in Nat /\ Cardinality(Holders(rec.ref)) \in Nat
          /\ Cardinality(Holders(rec.ref) \ Going) <= Cardinality(Holders(rec.ref))
      BY <1>m, <1>r, <2>0, Zenon
    <3>3. \A k \in Clusters : Holders(k)' = Holders(k)
      BY <2>0, Zenon DEF Holders, Holds
    <3>4. cluster'[rec.ref] # None => Nodes(cluster'[rec.ref]) \in Nat
      BY <1>n, <2>0, NodesType, Zenon
    <3>5. \A k \in Clusters : cluster'[k] # None =>
            Nodes(cluster'[k]) <= Cardinality(Holders(k))
      BY <2>0, <3>1, <3>2, <3>4 DEF Counted
    <3>6. rec' # None => /\ rec'.step = "release" /\ rec'.ref = rec.ref /\ rec'.c = rec.c
                         /\ Going = {rec.c}
      BY <2>2, Zenon DEF Going
    <3> QED
      BY <2>0, <3>1, <3>3, <3>5, <3>6, Zenon DEF Counted
  <2> QED
    BY <1>4, <2>1, <2>2, ApplyFacts, Zenon
<1>5. CASE RemoveFinalizer
  <2>0. /\ cluster' = cluster /\ rec # None /\ rec.step = "release" /\ rec' = None
        /\ rec.c \in Conns /\ rec.ref \in Clusters
        /\ \A d \in Conns \ {rec.c} : conn'[d] = conn[d]
    BY <1>5, ReleaseFacts, Zenon
  <2>1. CASE conn' = conn
    <3>1. \A k \in Clusters : Holders(k)' = Holders(k)
      BY <2>1, Zenon DEF Holders, Holds
    <3> QED
      BY <2>0, <3>1, Zenon DEF Counted
  <2>2. CASE Holds(rec.c, rec.ref) /\ conn'[rec.c] = None
    <3>1. PICK r \in Clusters : r = rec.ref
      BY <2>0, Zenon
    <3>2. Holders(r)' = Holders(r) \ {rec.c}
      BY <2>0, <2>2, <3>1, Zenon DEF Holders, Holds
    <3>3. \A k \in Clusters \ {r} : Holders(k)' = Holders(k)
      BY <2>0, <2>2, <3>1, Zenon DEF Holders, Holds
    <3>4. \A k \in Clusters : cluster[k] # None => Nodes(cluster[k]) <= Cardinality(Holders(k)')
      BY <2>0, <3>1, <3>2, <3>3, Zenon DEF Counted
    <3> QED
      BY <2>0, <3>4, Zenon DEF Counted
  <2> QED
    BY <1>5, <2>1, <2>2, ReleaseFacts, Zenon
<1>6. CASE SeeConn \/ SeeCluster \/ EditConn
  <2>1. ~RemoveFinalizer /\ UNCHANGED <<rec, cluster>>
    BY <1>6, NoneAssumption, Zenon DEF SeeConn, SeeCluster, EditConn, RemoveFinalizer, Done, Retry
  <2> QED
    BY <1>e, <2>1, Zenon
<1>7. CASE EditCluster
  <2>1. UNCHANGED <<conn, rec>>
    BY <1>7, EditClusterFacts, Zenon
  <2>2. PICK k \in Clusters :
          /\ \A j \in Clusters \ {k} : cluster'[j] = cluster[j]
          /\ \/ cluster'[k] = Blank \/ cluster'[k] = None
             \/ cluster[k] # None /\ Same(cluster'[k], cluster[k])
    BY <1>7, EditClusterFacts, Zenon
  <2>3. \A j \in Clusters : cluster'[j] # None =>
          \/ Nodes(cluster'[j]) = 0
          \/ cluster[j] # None /\ Nodes(cluster'[j]) = Nodes(cluster[j])
    BY <2>2, BlankFacts, Zenon DEF Same, Nodes
  <2>4. \A j \in Clusters : Holders(j)' = Holders(j)
    BY <2>1, Zenon DEF Holders, Holds
  <2>5. \A j \in Clusters : /\ Cardinality(Holders(j)) \in Nat
                            /\ Cardinality(Holders(j) \ {rec.c}) \in Nat
    BY <1>m, <1>r, Zenon
  <2>6. Going' = Going
    BY <2>1, Zenon DEF Going
  <2>7. \A j \in Clusters : cluster'[j] # None => Nodes(cluster'[j]) <= Cardinality(Holders(j))
    <3> SUFFICES ASSUME NEW j \in Clusters, cluster'[j] # None
                 PROVE Nodes(cluster'[j]) <= Cardinality(Holders(j))
      OBVIOUS
    <3>1. CASE Nodes(cluster'[j]) = 0
      <4>1. \A n, m : n \in Nat /\ m = 0 => m <= n
        OBVIOUS
      <4> QED
        BY <2>5, <3>1, <4>1, Zenon
    <3>2. CASE cluster[j] # None /\ Nodes(cluster'[j]) = Nodes(cluster[j])
      BY <3>2, Zenon DEF Counted
    <3> QED
      BY <2>3, <3>1, <3>2, Zenon
  <2>8. rec # None /\ rec.step = "release" /\ cluster'[rec.ref] # None =>
          Nodes(cluster'[rec.ref]) <= Cardinality(Holders(rec.ref) \ {rec.c})
    BY <1>r, <2>3, <2>5, SMTT(20), ZenonT(30) DEF Counted
  <2> QED
    BY <1>r, <2>1, <2>4, <2>6, <2>7, <2>8, Zenon DEF Counted
<1>8. CASE Fails \/ Restart
  <2>1. rec' = None /\ UNCHANGED <<cluster, conn>>
    BY <1>8, Zenon DEF Fails, Restart, Retry
  <2>2. \A k \in Clusters : Holders(k)' = Holders(k)
    BY <2>1, Zenon DEF Holders, Holds
  <2> QED
    BY <2>1, <2>2, Zenon DEF Counted
<1>9. CASE UNCHANGED vars
  <2>1. \A k \in Clusters : Holders(k)' = Holders(k)
    BY <1>9, Zenon DEF Holders, Holds, vars
  <2> QED
    BY <1>9, <1>r, <2>1, Zenon DEF vars, Counted, Going
<1> QED
  BY <1>1, <1>2, <1>3, <1>4, <1>5, <1>6, <1>7, <1>8, <1>9, ZenonT(60) DEF Next, Worker

----------------------------------------------------------------------------
(* Everything the cache shows is handled.                                  *)

\* What List does: the request keeps what was read, and what is to be written is built.
LEMMA ListFacts ==
  ASSUME TypeOK, Base, List
  PROVE /\ UNCHANGED <<conn, seen, cluster, shown, queue, lives, events>>
        /\ rec # None /\ rec.step = "list" /\ rec.c \in Conns /\ rec.ref \in Clusters
        /\ rec' # None /\ rec'.step = "apply" /\ rec'.c = rec.c /\ rec'.conn = rec.conn
        /\ rec'.ref = rec.ref
        /\ \E order \in Orders(Listed(rec.ref)) :
             rec'.new = buildStorageNodeConfig(rec.cluster, order)
<1>1. /\ UNCHANGED <<conn, seen, cluster, shown, queue, lives, events>>
      /\ rec # None /\ rec.step = "list" /\ rec \in Requests /\ rec.c \in Conns
      /\ rec.ref \in Clusters /\ rec.cluster \in ClusterObjects
  BY RequestFacts, Zenon DEF List, Base
<1>2. PICK order \in Orders(Listed(rec.ref)) :
        rec' = [rec EXCEPT !.new = buildStorageNodeConfig(rec.cluster, order), !.step = "apply"]
  BY Zenon DEF List
<1> DEFINE new == buildStorageNodeConfig(rec.cluster, order)
<1>3. new \in ClusterObjects
  BY <1>1, BuildFacts, Zenon
<1> HIDE DEF new
<1>4. rec' = [rec EXCEPT !.new = new, !.step = "apply"]
  BY <1>2, Zenon DEF new
<1>5. /\ rec' \in Requests /\ rec'.step = "apply" /\ rec'.c = rec.c /\ rec'.conn = rec.conn
      /\ rec'.ref = rec.ref /\ rec'.new = new
  BY <1>1, <1>3, <1>4, Zenon DEF Requests
<1> QED
  BY <1>1, <1>5, NoneAssumption, Zenon DEF new

\* No step loses a connection that is to get its finalizer, or to be let go.
LEMMA NextHandled ==
  ASSUME ~Movable, ~ClusterLag, TypeOK, Base, Marks, Handled, [Next]_vars
  PROVE Handled'
<1>1. CASE Reconcile
  <2>0. UNCHANGED <<conn, seen>>
    BY <1>1, TakenFacts, Zenon
  <2>1. CASE /\ rec' = rec
             /\ \E c \in queue : queue' = queue \/ (queue' = queue \ {c} /\ seen[c] = None)
    BY <2>0, <2>1, Zenon DEF Handled
  <2>2. CASE \E c \in queue :
               /\ rec = None /\ rec' # None /\ queue' = queue \ {c} /\ rec'.c = c
               /\ rec'.conn = seen[c]
               /\ rec'.step = "finalizer" <=> ~seen[c].finalizer
    BY <2>0, <2>2, Zenon DEF Handled
  <2> QED
    BY <1>1, <2>1, <2>2, TakenFacts, Zenon
<1>2. CASE AddFinalizer
  <2>0. seen' = seen /\ rec # None /\ rec.step = "finalizer" /\ rec.c \in Conns /\ ~rec.conn.finalizer
    BY <1>2, AddFinalizerFacts, Zenon DEF Marks, InHand
  <2>1. CASE rec' = None /\ conn' = conn /\ queue' = queue \cup {rec.c}
    BY <2>0, <2>1, Zenon DEF Handled
  <2>2. CASE /\ conn[rec.c] = rec.conn /\ \A d \in Conns \ {rec.c} : conn'[d] = conn[d]
             /\ conn'[rec.c] # None /\ conn'[rec.c].finalizer /\ queue' = queue
    <3>1. seen[rec.c] = None \/ ~seen[rec.c].deleting
      BY <2>0, <2>2, Zenon DEF Marks, InHand
    <3> QED
      BY <2>0, <2>2, <3>1, Zenon DEF Handled
  <2>3. \/ rec' = None /\ conn' = conn /\ queue' = queue \cup {rec.c}
        \/ /\ conn[rec.c] = rec.conn /\ \A d \in Conns \ {rec.c} : conn'[d] = conn[d]
           /\ conn'[rec.c] # None /\ conn'[rec.c].finalizer /\ queue' = queue
    BY <1>2, AddFinalizerFacts, Zenon DEF Marks
  <2> QED
    BY <2>1, <2>2, <2>3, Zenon
<1>3. CASE List
  <2>1. /\ UNCHANGED <<conn, seen, queue>> /\ rec # None /\ rec.step = "list"
        /\ rec' # None /\ rec'.c = rec.c /\ rec'.conn = rec.conn
    BY <1>3, ListFacts, Zenon
  <2> QED
    BY <2>1, Zenon DEF Handled
<1>4. CASE Apply
  BY <1>4, ApplyFacts, Zenon DEF Handled
<1>5. CASE RemoveFinalizer
  <2>1. CASE conn' = conn /\ queue' = queue \cup {rec.c}
    BY <1>5, <2>1, ReleaseFacts, Zenon DEF Handled
  <2>2. CASE /\ Holds(rec.c, rec.ref) /\ conn'[rec.c] = None
             /\ seen[rec.c] # None /\ seen[rec.c].deleting /\ queue' = queue
    <3>1. seen[rec.c].finalizer
      BY <1>5, <2>2, ReleaseFacts, Zenon DEF Marks, AllMarked, Marked
    <3> QED
      BY <1>5, <2>2, <3>1, ReleaseFacts, Zenon DEF Handled
  <2> QED
    BY <1>5, <2>1, <2>2, ReleaseFacts, Zenon
<1>6. CASE SeeConn
  BY <1>6, Zenon DEF SeeConn, TypeOK, Handled
<1>7. CASE EditConn
  BY <1>7, EditConnFacts, Zenon DEF Marks, Handled
<1>8. CASE SeeCluster \/ EditCluster \/ UNCHANGED vars
  BY <1>8, Zenon DEF SeeCluster, EditCluster, vars, Handled
<1>9. CASE Fails
  BY <1>9, Zenon DEF Fails, Retry, Handled
<1>10. CASE Restart
  BY <1>10, Zenon DEF Restart, Handled
<1> QED
  BY <1>1, <1>2, <1>3, <1>4, <1>5, <1>6, <1>7, <1>8, <1>9, <1>10, ZenonT(60) DEF Next, Worker

----------------------------------------------------------------------------
(* The cluster is what the cached connections make it, or will be.         *)

\* Only the listed connections matter to what syncCluster builds.
LEMMA InStepStays ==
  ASSUME NEW k \in Clusters, NEW cl, InStep(k, cl), Listed(k)' = Listed(k),
         \A c \in Listed(k) : seen'[c] = seen[c]
  PROVE InStep(k, cl)'
<1>1. PICK order \in Orders(Listed(k)) : buildStorageNodeConfig(cl, order) = cl
  BY Zenon DEF InStep
<1>2. Listed(k) \in SUBSET Conns
  BY Zenon DEF Listed
<1>3. \A i \in DOMAIN order : order[i] \in Listed(k)
  BY <1>2, OrderFacts
<1>4. \A i \in DOMAIN order : seen'[order[i]] = seen[order[i]]
  BY <1>3, Zenon
<1>5. buildStorageNodeConfig(cl, order)' = buildStorageNodeConfig(cl, order)
  <2>1. \A a \in storageNodeOwnedArgs :
          [i \in DOMAIN order |-> Value(a, seen'[order[i]].spec)] =
          [i \in DOMAIN order |-> Value(a, seen[order[i]].spec)]
    BY <1>4, Zenon
  <2>2. {SecretName[seen'[order[i]].spec] : i \in DOMAIN order} =
        {SecretName[seen[order[i]].spec] : i \in DOMAIN order}
    BY <1>4
  <2> QED
    BY <2>1, <2>2, Zenon DEF buildStorageNodeConfig
<1>6. Orders(Listed(k))' = Orders(Listed(k))
  OBVIOUS
<1> QED
  BY <1>1, <1>5, <1>6, Zenon DEF InStep

\* The arguments of others do not matter to whether a cluster is in step.
LEMMA InStepSame ==
  ASSUME NEW k \in Clusters, NEW cl \in ClusterObjects, NEW dl \in ClusterObjects,
         Same(cl, dl), InStep(k, cl)
  PROVE InStep(k, dl)
<1>1. PICK order \in Orders(Listed(k)) : buildStorageNodeConfig(cl, order) = cl
  BY Zenon DEF InStep
<1>2. /\ buildStorageNodeConfig(dl, order).args = buildStorageNodeConfig(cl, order).args
      /\ buildStorageNodeConfig(dl, order).secrets = buildStorageNodeConfig(cl, order).secrets
      /\ buildStorageNodeConfig(dl, order).other = dl.other
  BY Zenon DEF buildStorageNodeConfig
<1>3. dl = [args |-> dl.args, secrets |-> dl.secrets, other |-> dl.other]
  BY SMTT(20), ZenonT(30) DEF ClusterObjects
<1>4. buildStorageNodeConfig(dl, order) =
        [args |-> buildStorageNodeConfig(dl, order).args,
         secrets |-> buildStorageNodeConfig(dl, order).secrets,
         other |-> buildStorageNodeConfig(dl, order).other]
  BY Zenon DEF buildStorageNodeConfig
<1>5. buildStorageNodeConfig(dl, order) = dl
  BY <1>1, <1>2, <1>3, <1>4, Zenon DEF Same
<1> QED
  BY <1>1, <1>5, Zenon DEF InStep

\* What syncCluster has just built is in step.
LEMMA InStepBuilt ==
  ASSUME NEW k \in Clusters, NEW cl, NEW order \in Orders(Listed(k))
  PROVE InStep(k, buildStorageNodeConfig(cl, order))
<1>1. buildStorageNodeConfig(buildStorageNodeConfig(cl, order), order) =
      buildStorageNodeConfig(cl, order)
  BY Zenon DEF buildStorageNodeConfig
<1> QED
  BY <1>1, Zenon DEF InStep

\* A new cluster to which no connection refers is in step.
LEMMA InStepBlank ==
  ASSUME NEW k \in Clusters, Listed(k) = {}
  PROVE InStep(k, Blank)
<1>1. Cardinality({}) = 0
  BY FS_EmptySet, Zenon
<1>2. <<>> \in Orders({})
  BY <1>1 DEF Orders, Injection, IsInjective
<1>3. buildStorageNodeConfig(Blank, <<>>) = Blank
  <2>1. \A a \in storageNodeOwnedArgs : [i \in DOMAIN <<>> |-> Value(a, seen[(<<>>)[i]].spec)] = <<>>
    OBVIOUS
  <2>2. setArg(<<>>) = <<>>
    BY Zenon DEF setArg
  <2>3. {SecretName[seen[(<<>>)[i]].spec] : i \in DOMAIN <<>>} = {}
    OBVIOUS
  <2> QED
    BY <2>1, <2>2, <2>3, Zenon DEF buildStorageNodeConfig, Blank
<1> QED
  BY <1>2, <1>3, Zenon DEF InStep

\* The same, when nothing in the cache changes.
LEMMA InStepKept ==
  ASSUME seen' = seen, NEW k \in Clusters, NEW cl, InStep(k, cl)
  PROVE InStep(k, cl)'
<1>1. Listed(k)' = Listed(k)
  BY Zenon DEF Listed
<1> QED
  BY <1>1, InStepStays, Zenon

\* A cluster that keeps the owned arguments stays in step, or a connection stays pending.
LEMMA TrackedKept ==
  ASSUME TypeOK, TypeOK', Tracked, seen' = seen, NEW k \in Clusters,
         cluster[k] # None, cluster'[k] # None, lives[k] = 1, Same(cluster[k], cluster'[k]),
         \A c \in Conns : Pending(c, k) => Pending(c, k)'
  PROVE InStep(k, cluster[k])' \/ \E c \in Conns : Pending(c, k)'
<1>1. CASE \E c \in Conns : Pending(c, k)
  BY <1>1, Zenon
<1>2. CASE InStep(k, cluster[k])
  <2>1. PICK cl : cl = cluster'[k]
    OBVIOUS
  <2>2. cluster[k] \in ClusterObjects /\ cl \in ClusterObjects
    BY <2>1, Zenon DEF TypeOK
  <2>3. InStep(k, cl)
    BY <1>2, <2>1, <2>2, InStepSame, Zenon
  <2>4. InStep(k, cl)'
    BY <2>3, InStepKept, Zenon
  <2> QED
    BY <2>1, <2>4, Zenon
<1> QED
  BY <1>1, <1>2, Zenon DEF Tracked

\* The three parts of Tracked, apart.
TrackedCluster(k) ==
  cluster[k] # None /\ lives[k] = 1 =>
    InStep(k, cluster[k]) \/ \E c \in Conns : Pending(c, k)

TrackedApply ==
  rec # None /\ rec.step = "apply" =>
    InStep(rec.ref, rec.new) \/ \E c \in queue : Holds(c, rec.ref) /\ c \notin Going

TrackedRelease ==
  rec # None /\ rec.step = "release" /\ cluster[rec.ref] # None /\ lives[rec.ref] = 1 =>
    InStep(rec.ref, cluster[rec.ref]) \/ \E c \in Conns \ {rec.c} : Pending(c, rec.ref)

\* The connection a reconciliation is about holds no other cluster.
LEMMA HeldByRequest ==
  ASSUME TypeOK, Marks, rec # None, rec.step # "finalizer", NEW k \in Clusters, Holds(rec.c, k)
  PROVE k = rec.ref
BY Zenon DEF Marks, InHand, Holds

\* Steps of the worker: taking a request.
LEMMA ReconcileTracked ==
  ASSUME ~ClusterLag, TypeOK, TypeOK', Marks, Tracked, Reconcile
  PROVE Tracked'
<1>0. UNCHANGED <<conn, seen, cluster, shown, lives, events>>
  BY TakenFacts, Zenon
<1>1. ASSUME NEW k \in Clusters, NEW c \in Conns, cluster[k] # None, Pending(c, k)
      PROVE Pending(c, k)'
  <2>1. Holds(c, k) /\ Holds(c, k)'
    BY <1>0, <1>1, Zenon DEF Pending, Holds
  <2>2. CASE c \in queue => c \in queue' \/ seen[c] = None
    <3>1. rec # None => rec' = rec
      BY TakenFacts, Zenon
    <3> QED
      BY <1>0, <1>1, <2>1, <2>2, <3>1, Zenon DEF Pending
  <2>3. CASE /\ rec' # None /\ seen[c] # None /\ Marked(seen[c])
             /\ rec'.c = c /\ rec'.ref = seen[c].ref /\ rec'.cluster = cluster[seen[c].ref]
             /\ rec'.step \in {"finalizer", "list", "release"}
             /\ rec'.step = "finalizer" <=> ~seen[c].finalizer
             /\ rec'.step = "release" <=> rec'.cluster = None
    <3>1. CASE ~seen[c].finalizer
      BY <1>0, <2>1, <3>1, Zenon DEF Pending
    <3>2. CASE seen[c].finalizer
      <4>1. seen[c].label = k
        BY <2>1, <2>3, <3>2, Zenon DEF Marks, CacheBehind, Holds
      <4>2. rec'.step = "list"
        BY <1>1, <2>3, <3>2, <4>1, Zenon DEF Marked
      <4> QED
        BY <2>1, <2>3, <4>2, Zenon DEF Pending
    <3> QED
      BY <3>1, <3>2, Zenon
  <2> QED
    BY <2>2, <2>3, TakenFacts, Zenon
<1>2. ASSUME NEW k \in Clusters PROVE TrackedCluster(k)'
  <2>1. ASSUME cluster[k] # None, lives[k] = 1
        PROVE InStep(k, cluster[k])' \/ \E c \in Conns : Pending(c, k)'
    BY <1>0, <1>1, <2>1, TrackedKept, Zenon DEF Same
  <2> QED
    BY <1>0, <2>1, Zenon DEF TrackedCluster
<1>3. CASE rec' = rec
  <2>1. rec = None
    BY Zenon DEF Reconcile
  <2> QED
    BY <1>2, <1>3, <2>1, Zenon DEF Tracked, TrackedCluster
<1>4. CASE rec' # rec
  <2>1. /\ rec' # None /\ rec'.step \in {"finalizer", "list", "release"}
        /\ rec'.step = "release" => cluster'[rec'.ref] = None
    BY <1>0, <1>4, TakenFacts, Zenon
  <2> QED
    BY <1>2, <2>1, Zenon DEF Tracked, TrackedCluster
<1> QED
  BY <1>3, <1>4, Zenon

\* Steps of the worker: the finalizer is added.
LEMMA AddFinalizerTracked ==
  ASSUME ~Movable, TypeOK, TypeOK', Marks, Tracked, AddFinalizer
  PROVE Tracked'
<1>a. /\ UNCHANGED <<seen, cluster, shown, lives, events>>
      /\ rec # None /\ rec.step = "finalizer"
  BY Zenon DEF AddFinalizer
<1>b. queue \subseteq queue' /\ (rec' # None => rec'.step = "list")
  BY AddFinalizerFacts, Zenon DEF Marks
<1>1. ASSUME NEW k \in Clusters, NEW c \in Conns, Pending(c, k)
      PROVE Pending(c, k)'
  <2>1. Holds(c, k)'
    BY <1>1, HoldsStays, Zenon DEF Next, Worker, Pending, RemoveFinalizer, AddFinalizer
  <2> QED
    BY <1>1, <1>a, <1>b, <2>1, Zenon DEF Pending
<1>2. ASSUME NEW k \in Clusters PROVE TrackedCluster(k)'
  <2>1. ASSUME cluster[k] # None, lives[k] = 1
        PROVE InStep(k, cluster[k])' \/ \E c \in Conns : Pending(c, k)'
    BY <1>a, <1>1, <2>1, TrackedKept, Zenon DEF Same
  <2> QED
    BY <1>a, <2>1, Zenon DEF TrackedCluster
<1> QED
  BY <1>b, <1>2, Zenon DEF Tracked, TrackedCluster

\* Steps of the worker: the arguments are built.
LEMMA ListTracked ==
  ASSUME TypeOK, TypeOK', Base, Marks, Tracked, List
  PROVE Tracked'
<1>0. /\ UNCHANGED <<conn, seen, cluster, shown, queue, lives, events>>
      /\ rec # None /\ rec.step = "list" /\ rec.c \in Conns /\ rec.ref \in Clusters
      /\ rec' # None /\ rec'.step = "apply" /\ rec'.c = rec.c /\ rec'.conn = rec.conn
      /\ rec'.ref = rec.ref
  BY ListFacts, Zenon
<1>1. ASSUME NEW k \in Clusters, NEW c \in Conns, Pending(c, k)
      PROVE Pending(c, k)'
  BY <1>0, <1>1, Zenon DEF Pending, Holds
<1>2. ASSUME NEW k \in Clusters PROVE TrackedCluster(k)'
  <2>1. ASSUME cluster[k] # None, lives[k] = 1
        PROVE InStep(k, cluster[k])' \/ \E c \in Conns : Pending(c, k)'
    BY <1>0, <1>1, <2>1, TrackedKept, Zenon DEF Same
  <2> QED
    BY <1>0, <2>1, Zenon DEF TrackedCluster
<1>3. InStep(rec.ref, rec.new)'
  <2>1. PICK order \in Orders(Listed(rec.ref)) : rec'.new = buildStorageNodeConfig(rec.cluster, order)
    BY ListFacts, Zenon
  <2>2. PICK k, new : k \in Clusters /\ k = rec.ref /\ new = rec'.new
    BY <1>0, Zenon
  <2>3. InStep(k, new)
    BY <2>1, <2>2, InStepBuilt, Zenon
  <2>4. InStep(k, new)'
    BY <1>0, <2>2, <2>3, InStepKept, Zenon
  <2> QED
    BY <1>0, <2>2, <2>4, Zenon
<1> QED
  BY <1>0, <1>2, <1>3, Zenon DEF Tracked, TrackedCluster

\* Steps of the worker: the cluster is written, or found to be as it is to be.
LEMMA ApplyTracked ==
  ASSUME TypeOK, TypeOK', Base, Marks, Read, Tracked, Apply
  PROVE Tracked'
<1>0. /\ UNCHANGED <<conn, seen, shown, lives, events>>
      /\ rec # None /\ rec.step = "apply" /\ rec.c \in Conns /\ rec.ref \in Clusters
      /\ rec.new \in ClusterObjects /\ rec.cluster \in ClusterObjects
      /\ \A j \in Clusters \ {rec.ref} : cluster'[j] = cluster[j]
      /\ queue \subseteq Conns
  BY ApplyFacts, Zenon DEF TypeOK
<1>1. CASE cluster' = cluster /\ rec' = None /\ queue' = queue \cup {rec.c}
  <2>1. ASSUME NEW k \in Clusters, NEW c \in Conns, Pending(c, k)
        PROVE Pending(c, k)'
    BY <1>0, <1>1, <2>1, Zenon DEF Pending, Holds
  <2>2. ASSUME NEW k \in Clusters, cluster[k] # None, lives[k] = 1
        PROVE InStep(k, cluster[k])' \/ \E c \in Conns : Pending(c, k)'
    BY <1>0, <1>1, <2>1, <2>2, TrackedKept, Zenon DEF Same
  <2> QED
    BY <1>0, <1>1, <2>2, Zenon DEF Tracked
<1>2. CASE /\ \/ cluster'[rec.ref] = rec.new
              \/ cluster' = cluster /\ rec.new = rec.cluster
           /\ queue' = queue
           /\ \/ ~rec.conn.deleting /\ rec' = None
              \/ /\ rec.conn.deleting /\ rec' # None /\ rec'.step = "release"
                 /\ rec'.c = rec.c /\ rec'.ref = rec.ref /\ rec'.conn = rec.conn
  <2>1. ASSUME NEW k \in Clusters, k # rec.ref, cluster'[k] # None, lives[k] = 1
        PROVE InStep(k, cluster[k])' \/ \E c \in Conns : Pending(c, k)'
    <3>1. cluster'[k] = cluster[k]
      BY <1>0, <2>1, Zenon
    <3>2. ASSUME NEW c \in Conns, Pending(c, k) PROVE Pending(c, k)'
      <4>1. c # rec.c
        BY <1>0, <2>1, <3>2, HeldByRequest, Zenon DEF Pending
      <4> QED
        BY <1>0, <1>2, <3>2, <4>1, Zenon DEF Pending, Holds
    <3> QED
      BY <1>0, <2>1, <3>1, <3>2, TrackedKept, Zenon DEF Same
  <2>2. PICK r \in Clusters, new \in ClusterObjects : r = rec.ref /\ new = rec.new
    BY <1>0, Zenon
  <2>3. ASSUME cluster'[r] # None, lives[r] = 1
        PROVE InStep(r, cluster[r])' \/ \E c \in Conns \ Going : Pending(c, r)'
    <3>1. CASE \E c \in queue : Holds(c, rec.ref) /\ c \notin Going
      BY <1>0, <1>2, <2>2, <3>1, Zenon DEF Pending, Holds
    <3>2. CASE InStep(rec.ref, rec.new)
      <4>1. PICK cl : cl = cluster'[r]
        OBVIOUS
      <4>2. cl \in ClusterObjects
        BY <2>3, <4>1, Zenon DEF TypeOK
      <4>3. Same(new, cl)
        <5>1. CASE cluster'[r] = rec.new
          BY <2>2, <4>1, <5>1, ZenonT(60) DEF Same
        <5>2. CASE cluster' = cluster /\ rec.new = rec.cluster
          BY <1>0, <2>2, <2>3, <4>1, <5>2, SMTT(20), ZenonT(30) DEF Same, Read
        <5> QED
          BY <1>2, <2>2, <5>1, <5>2, Zenon
      <4>4. InStep(r, new)
        BY <2>2, <3>2, Zenon
      <4>5. InStep(r, cl)
        BY <4>2, <4>3, <4>4, InStepSame, Zenon
      <4>6. InStep(r, cl)'
        BY <1>0, <4>5, InStepKept, Zenon
      <4> QED
        BY <4>1, <4>6, Zenon
    <3> QED
      BY <1>0, <3>1, <3>2, Zenon DEF Tracked
  <2>4. ASSUME NEW k \in Clusters PROVE TrackedCluster(k)'
    <3>1. CASE k = r
      BY <1>0, <2>3, <3>1, Zenon DEF TrackedCluster
    <3>2. CASE k # r
      BY <1>0, <2>1, <2>2, <3>2, Zenon DEF TrackedCluster
    <3> QED
      BY <3>1, <3>2, Zenon
  <2>5. TrackedRelease'
    <3>1. CASE rec' = None
      BY <3>1, Zenon DEF TrackedRelease
    <3>2. CASE rec.conn.deleting /\ rec'.c = rec.c /\ rec'.ref = r
      <4>1. Going = {rec.c}
        BY <3>2, Zenon DEF Going
      <4> QED
        BY <1>0, <2>3, <3>2, <4>1, Zenon DEF TrackedRelease
    <3> QED
      BY <1>2, <2>2, <3>1, <3>2, Zenon
  <2>6. TrackedApply'
    BY <1>2, Zenon DEF TrackedApply
  <2> QED
    BY <2>4, <2>5, <2>6, Zenon DEF Tracked, TrackedCluster, TrackedRelease, TrackedApply
<1> QED
  BY <1>1, <1>2, ApplyFacts, Zenon

\* Steps of the worker: the connection is let go.
LEMMA ReleaseTracked ==
  ASSUME TypeOK, TypeOK', Marks, Tracked, RemoveFinalizer
  PROVE Tracked'
<1>0. /\ UNCHANGED <<seen, cluster, shown, lives, events>>
      /\ rec # None /\ rec.step = "release" /\ rec.c \in Conns /\ rec.ref \in Clusters
      /\ rec' = None
      /\ \A d \in Conns \ {rec.c} : conn'[d] = conn[d]
      /\ queue \subseteq queue'
  BY ReleaseFacts, Zenon
<1>1. ASSUME NEW k \in Clusters, NEW c \in Conns, Pending(c, k), c # rec.c \/ conn' = conn
      PROVE Pending(c, k)'
  BY <1>0, <1>1, Zenon DEF Pending, Holds
<1>2. ASSUME NEW k \in Clusters, cluster[k] # None, lives[k] = 1
      PROVE InStep(k, cluster[k])' \/ \E c \in Conns : Pending(c, k)'
  <2>1. CASE conn' = conn \/ k # rec.ref
    <3>1. ASSUME NEW c \in Conns, Pending(c, k) PROVE Pending(c, k)'
      <4>1. c # rec.c \/ conn' = conn
        BY <1>0, <2>1, <3>1, HeldByRequest, Zenon DEF Pending
      <4> QED
        BY <1>1, <3>1, <4>1, Zenon
    <3> QED
      BY <1>0, <1>2, <3>1, TrackedKept, Zenon DEF Same
  <2>2. CASE k = rec.ref
    <3>1. CASE \E c \in Conns \ {rec.c} : Pending(c, rec.ref)
      BY <1>1, <2>2, <3>1, Zenon
    <3>2. CASE InStep(rec.ref, cluster[rec.ref])
      <4>1. PICK cl : cl = cluster[k]
        OBVIOUS
      <4>2. InStep(k, cl)
        BY <2>2, <3>2, <4>1, Zenon
      <4>3. InStep(k, cl)'
        BY <1>0, <4>2, InStepKept, Zenon
      <4> QED
        BY <1>0, <4>1, <4>3, Zenon
    <3> QED
      BY <1>0, <1>2, <2>2, <3>1, <3>2, Zenon DEF Tracked
  <2> QED
    BY <2>1, <2>2, Zenon
<1> QED
  BY <1>0, <1>2, Zenon DEF Tracked

\* The cache shows a connection: it matters to a cluster it holds, and then is queued.
LEMMA SeeConnTracked ==
  ASSUME TypeOK, TypeOK', Marks, Tracked, SeeConn
  PROVE Tracked'
<1>1. PICK c \in Conns : seen' = [seen EXCEPT ![c] = conn[c]] /\ queue' = queue \cup {c}
  BY Zenon DEF SeeConn
<1>2. UNCHANGED <<conn, cluster, shown, rec, lives, events>>
  BY Zenon DEF SeeConn
<1>3. seen'[c] = conn[c] /\ \A d \in Conns \ {c} : seen'[d] = seen[d]
  BY <1>1, Zenon DEF TypeOK
<1>4. ASSUME NEW k \in Clusters, c \in Listed(k) \/ c \in Listed(k)'
      PROVE Holds(c, k) /\ ~(rec # None /\ rec.conn.deleting /\ rec.c = c)
  <2>1. CASE c \in Listed(k)
    BY <2>1, ListedHold, Zenon DEF Holders
  <2>2. CASE c \in Listed(k)'
    <3>1. conn[c] # None /\ conn[c].label = k /\ ~conn[c].deleting
      BY <1>3, <2>2, Zenon DEF Listed, Label
    <3>2. conn[c].finalizer
      BY <3>1, NoneAssumption, Zenon DEF Marks, AllMarked, Marked
    <3> QED
      BY <3>1, <3>2, Zenon DEF Holds, Marks, InHand
  <2> QED
    BY <1>4, <2>1, <2>2, Zenon
<1>5. ASSUME NEW k \in Clusters, c \notin Listed(k), c \notin Listed(k)', NEW cl, InStep(k, cl)
      PROVE InStep(k, cl)'
  <2>1. Listed(k)' = Listed(k)
    BY <1>3, <1>5, Zenon DEF Listed
  <2>2. \A d \in Listed(k) : seen'[d] = seen[d]
    BY <1>3, <1>5, Zenon DEF Listed
  <2> QED
    BY <1>5, <2>1, <2>2, InStepStays, Zenon
<1>6. ASSUME NEW k \in Clusters, NEW d \in Conns, Pending(d, k)
      PROVE Pending(d, k)'
  BY <1>1, <1>2, <1>3, <1>6, Zenon DEF Pending, Holds
<1>7. ASSUME NEW k \in Clusters PROVE TrackedCluster(k)'
  <2>1. CASE Holds(c, k)
    BY <1>1, <1>2, <2>1, Zenon DEF Pending, Holds, TrackedCluster
  <2>2. CASE ~Holds(c, k)
    <3>1. PICK cl : cl = cluster[k]
      OBVIOUS
    <3>2. ASSUME InStep(k, cl) PROVE InStep(k, cluster[k])'
      <4>1. InStep(k, cl)'
        BY <1>4, <1>5, <2>2, <3>2, Zenon
      <4> QED
        BY <1>2, <3>1, <4>1, Zenon
    <3> QED
      BY <1>2, <1>6, <3>1, <3>2, Zenon DEF Tracked, TrackedCluster
  <2> QED
    BY <2>1, <2>2, Zenon
<1>8. ASSUME rec # None PROVE TrackedApply' /\ TrackedRelease'
  <2>0. rec.ref \in Clusters /\ rec.c \in Conns
    BY <1>8, RequestFacts, Zenon
  <2>1. PICK r, new, cl : r \in Clusters /\ r = rec.ref /\ new = rec.new /\ cl = cluster[rec.ref]
    BY <2>0, Zenon
  <2>2. CASE c \notin Listed(r) /\ c \notin Listed(r)'
    <3>1. \A el : InStep(r, el) => InStep(r, el)'
      BY <1>5, <2>1, <2>2, Zenon
    <3>2. InStep(rec.ref, rec.new) => InStep(rec.ref, rec.new)'
      <4>1. InStep(r, new) => InStep(r, new)'
        BY <3>1, Zenon
      <4> QED
        BY <1>2, <2>1, <4>1, Zenon
    <3>3. InStep(rec.ref, cluster[rec.ref]) => InStep(rec.ref, cluster[rec.ref])'
      <4>1. InStep(r, cl) => InStep(r, cl)'
        BY <3>1
      <4> QED
        BY <1>2, <2>1, <4>1, Zenon
    <3>4. TrackedApply'
      <4>1. ASSUME NEW d \in queue, Holds(d, rec.ref), d \notin Going
            PROVE d \in queue' /\ Holds(d, rec.ref)' /\ d \notin Going'
        BY <1>1, <1>2, <4>1, Zenon DEF Holds, Going
      <4> QED
        BY <1>2, <3>2, <4>1, Zenon DEF Tracked, TrackedApply
    <3>5. TrackedRelease'
      <4>1. ASSUME NEW d \in Conns, Pending(d, rec.ref) PROVE Pending(d, rec.ref)'
        <5>1. Pending(d, r)'
          BY <1>6, <2>1, <4>1, Zenon
        <5> QED
          BY <1>2, <2>1, <5>1, Zenon
      <4> QED
        BY <1>2, <3>3, <4>1, Zenon DEF Tracked, TrackedRelease
    <3> QED
      BY <3>4, <3>5, Zenon
  <2>3. CASE c \in Listed(r) \/ c \in Listed(r)'
    <3>1. Holds(c, r) /\ ~(rec.conn.deleting /\ rec.c = c)
      BY <1>4, <1>8, <2>1, <2>3, Zenon
    <3>2. Holds(c, rec.ref)' /\ c \in queue' /\ c \notin Going'
      BY <1>1, <1>2, <2>1, <3>1, Zenon DEF Holds, Going
    <3>3. TrackedApply'
      BY <3>2, Zenon DEF TrackedApply
    <3>4. TrackedRelease'
      <4>1. rec.step = "release" => rec.conn.deleting
        BY <1>8, Zenon DEF Marks, InHand
      <4>2. rec.step = "release" => c # rec.c
        BY <3>1, <4>1, Zenon
      <4> QED
        BY <1>2, <3>2, <4>2, Zenon DEF TrackedRelease, Pending
    <3> QED
      BY <3>3, <3>4
  <2> QED
    BY <2>2, <2>3, Zenon
<1> QED
  BY <1>2, <1>7, <1>8, Zenon DEF Tracked, TrackedCluster, TrackedApply, TrackedRelease

\* A connection is edited: what it holds, it goes on holding.
LEMMA EditConnTracked ==
  ASSUME ~Movable, TypeOK, TypeOK', Marks, Tracked, EditConn
  PROVE Tracked'
<1>0. UNCHANGED <<seen, cluster, shown, queue, rec, lives>>
  BY Zenon DEF EditConn
<1>1. ASSUME NEW k \in Clusters, NEW c \in Conns, Holds(c, k)
      PROVE Holds(c, k)'
  BY <1>1, EditConnFacts, Zenon DEF Marks, Holds
<1>2. ASSUME NEW k \in Clusters, NEW c \in Conns, Pending(c, k)
      PROVE Pending(c, k)'
  BY <1>0, <1>1, <1>2, Zenon DEF Pending
<1>3. ASSUME NEW k \in Clusters, cluster[k] # None, lives[k] = 1
      PROVE InStep(k, cluster[k])' \/ \E c \in Conns : Pending(c, k)'
  BY <1>0, <1>2, <1>3, TrackedKept, Zenon DEF Same
<1>4. ASSUME rec # None PROVE TrackedApply' /\ TrackedRelease'
  <2>0. rec.ref \in Clusters /\ rec.c \in Conns /\ queue \subseteq Conns
    BY <1>4, RequestFacts, Zenon DEF TypeOK
  <2>1. PICK r, new, cl : r \in Clusters /\ r = rec.ref /\ new = rec.new /\ cl = cluster[rec.ref]
    BY <2>0, Zenon
  <2>2. InStep(rec.ref, rec.new) => InStep(rec.ref, rec.new)'
    <3>1. InStep(r, new) => InStep(r, new)'
      BY <1>0, <2>1, InStepKept, Zenon
    <3> QED
      BY <1>0, <2>1, <3>1, Zenon
  <2>3. InStep(rec.ref, cluster[rec.ref]) => InStep(rec.ref, cluster[rec.ref])'
    <3>1. InStep(r, cl) => InStep(r, cl)'
      BY <1>0, <2>1, InStepKept, Zenon
    <3> QED
      BY <1>0, <2>1, <3>1, Zenon
  <2>4. ASSUME NEW d \in Conns
        PROVE /\ Holds(d, rec.ref) => Holds(d, rec.ref)'
              /\ Pending(d, rec.ref) => Pending(d, rec.ref)'
    <3>1. /\ Holds(d, r) => Holds(d, r)'
          /\ Pending(d, r) => Pending(d, r)'
      BY <1>1, <1>2, <2>1, Zenon
    <3> QED
      BY <1>0, <2>1, <3>1, Zenon
  <2>5. Going' = Going
    BY <1>0, Zenon DEF Going
  <2>6. TrackedApply'
    BY <1>0, <2>0, <2>2, <2>4, <2>5, Zenon DEF Tracked, TrackedApply
  <2>7. TrackedRelease'
    BY <1>0, <2>3, <2>4, Zenon DEF Tracked, TrackedRelease
  <2> QED
    BY <2>6, <2>7, Zenon
<1> QED
  BY <1>0, <1>3, <1>4, Zenon DEF Tracked, TrackedApply, TrackedRelease

\* A cluster is edited: one created for the first time has no connections yet.
LEMMA EditClusterTracked ==
  ASSUME TypeOK, TypeOK', Marks, Read, Tracked, EditCluster
  PROVE Tracked'
<1>0. UNCHANGED <<conn, seen, shown, queue, rec>>
  BY Zenon DEF EditCluster
<1>1. PICK e \in Clusters :
        /\ \A j \in Clusters \ {e} : cluster'[j] = cluster[j] /\ lives'[j] = lives[j]
        /\ \/ cluster[e] = None /\ cluster'[e] = Blank /\ lives'[e] = lives[e] + 1
           \/ cluster'[e] = None /\ lives'[e] = lives[e]
           \/ /\ cluster[e] # None /\ cluster'[e] \in ClusterObjects
              /\ Same(cluster'[e], cluster[e]) /\ lives'[e] = lives[e]
  BY EditClusterFacts, Zenon
<1>2. ASSUME NEW k \in Clusters, NEW c \in Conns, Pending(c, k)
      PROVE Pending(c, k)'
  BY <1>0, <1>2, Zenon DEF Pending, Holds
<1>3. ASSUME NEW k \in Clusters, cluster'[k] # None, lives'[k] = 1, lives[k] # 0
      PROVE cluster[k] # None /\ lives[k] = 1 /\ Same(cluster[k], cluster'[k])
  BY <1>1, <1>3, SMTT(20), ZenonT(30) DEF TypeOK, Same
<1>4. ASSUME NEW k \in Clusters PROVE TrackedCluster(k)'
  <2>1. CASE lives[k] # 0
    <3>1. ASSUME cluster'[k] # None, lives'[k] = 1
          PROVE InStep(k, cluster[k])' \/ \E c \in Conns : Pending(c, k)'
      BY <1>0, <1>2, <1>3, <2>1, <3>1, TrackedKept, ZenonT(60)
    <3> QED
      BY <3>1, Zenon DEF TrackedCluster
  <2>2. CASE lives[k] = 0
    <3>1. Listed(k) = {}
      <4>1. ASSUME NEW c \in Listed(k) PROVE FALSE
        <5>1. c \in Conns /\ Holds(c, k)
          BY <4>1, ListedHold, Zenon DEF Holders
        <5> QED
          BY <2>2, <5>1, SMTT(20), ZenonT(30) DEF Read
      <4> QED
        BY <4>1, Zenon
    <3>2. InStep(k, Blank)
      BY <3>1, InStepBlank, Zenon
    <3>3. InStep(k, Blank)'
      BY <1>0, <3>2, InStepKept, Zenon
    <3>4. ASSUME cluster'[k] # None, lives'[k] = 1 PROVE cluster'[k] = Blank
      BY <1>1, <2>2, <3>4
    <3> QED
      BY <3>3, <3>4, Zenon DEF TrackedCluster
  <2> QED
    BY <2>1, <2>2, Zenon
<1>5. ASSUME rec # None PROVE TrackedApply' /\ TrackedRelease'
  <2>0. rec.ref \in Clusters /\ rec.c \in Conns /\ queue \subseteq Conns /\ lives[rec.ref] # 0
    BY <1>5, RequestFacts, SMTT(20), ZenonT(30) DEF TypeOK, Read
  <2>1. PICK r, new : r \in Clusters /\ r = rec.ref /\ new = rec.new
    BY <2>0, Zenon
  <2>2. InStep(rec.ref, rec.new) => InStep(rec.ref, rec.new)'
    <3>1. InStep(r, new) => InStep(r, new)'
      BY <1>0, <2>1, InStepKept, Zenon
    <3> QED
      BY <1>0, <2>1, <3>1, Zenon
  <2>3. TrackedApply'
    BY <1>0, <2>2, Zenon DEF Tracked, TrackedApply, Holds, Going
  <2>4. ASSUME cluster'[r] # None, lives'[r] = 1, rec.step = "release"
        PROVE InStep(r, cluster[r])' \/ \E c \in Conns \ {rec.c} : Pending(c, r)'
    <3>1. cluster[r] # None /\ lives[r] = 1 /\ Same(cluster[r], cluster'[r])
      BY <1>3, <2>0, <2>1, <2>4, Zenon
    <3>2. CASE InStep(r, cluster[r])
      <4>1. PICK cl : cl = cluster'[r]
        OBVIOUS
      <4>2. cluster[r] \in ClusterObjects /\ cl \in ClusterObjects
        BY <2>1, <2>4, <3>1, <4>1, Zenon DEF TypeOK
      <4>3. InStep(r, cl)
        BY <2>1, <3>1, <3>2, <4>1, <4>2, InStepSame, ZenonT(60)
      <4>4. InStep(r, cl)'
        BY <1>0, <2>1, <4>3, InStepKept, Zenon
      <4> QED
        BY <4>1, <4>4, Zenon
    <3>3. CASE \E c \in Conns \ {rec.c} : Pending(c, r)
      BY <1>2, <2>1, <3>3, Zenon
    <3> QED
      BY <1>5, <2>1, <2>4, <3>1, <3>2, <3>3, ZenonT(60) DEF Tracked
  <2>5. TrackedRelease'
    BY <1>0, <2>1, <2>4, Zenon DEF TrackedRelease
  <2> QED
    BY <2>3, <2>5, Zenon
<1> QED
  BY <1>0, <1>4, <1>5, Zenon DEF Tracked, TrackedCluster, TrackedApply, TrackedRelease

\* Nothing but the cache of a cluster changes, or a reconciliation fails and is retried.
LEMMA RestTracked ==
  ASSUME TypeOK, TypeOK', Marks, Tracked, SeeCluster \/ Fails \/ UNCHANGED vars
  PROVE Tracked'
<1>0. UNCHANGED <<conn, seen, cluster, lives>>
  BY Zenon DEF SeeCluster, Fails, vars
<1>1. \/ UNCHANGED <<queue, rec>>
      \/ rec # None /\ rec' = None /\ queue' = queue \cup {rec.c}
  BY Zenon DEF SeeCluster, Fails, Retry, vars
<1>2. ASSUME NEW k \in Clusters, NEW c \in Conns, Pending(c, k)
      PROVE Pending(c, k)'
  BY <1>0, <1>1, <1>2, Zenon DEF Pending, Holds
<1>3. ASSUME NEW k \in Clusters, cluster[k] # None, lives[k] = 1
      PROVE InStep(k, cluster[k])' \/ \E c \in Conns : Pending(c, k)'
  BY <1>0, <1>2, <1>3, TrackedKept, Zenon DEF Same
<1>4. ASSUME rec # None, UNCHANGED <<queue, rec>> PROVE TrackedApply' /\ TrackedRelease'
  <2>0. rec.ref \in Clusters
    BY <1>4, RequestFacts, Zenon
  <2>1. PICK r, new, cl : r \in Clusters /\ r = rec.ref /\ new = rec.new /\ cl = cluster[rec.ref]
    BY <2>0, Zenon
  <2>2. InStep(rec.ref, rec.new) => InStep(rec.ref, rec.new)'
    <3>1. InStep(r, new) => InStep(r, new)'
      BY <1>0, <2>1, InStepKept, Zenon
    <3> QED
      BY <1>4, <2>1, <3>1, Zenon
  <2>3. InStep(rec.ref, cluster[rec.ref]) => InStep(rec.ref, cluster[rec.ref])'
    <3>1. InStep(r, cl) => InStep(r, cl)'
      BY <1>0, <2>1, InStepKept, Zenon
    <3> QED
      BY <1>0, <1>4, <2>1, <3>1, Zenon
  <2>4. TrackedApply'
    BY <1>0, <1>4, <2>2, Zenon DEF Tracked, TrackedApply, Holds, Going
  <2>5. TrackedRelease'
    BY <1>0, <1>4, <2>3, Zenon DEF Tracked, TrackedRelease, Holds, Pending
  <2> QED
    BY <2>4, <2>5, Zenon
<1> QED
  BY <1>0, <1>1, <1>3, <1>4, Zenon DEF Tracked, TrackedApply, TrackedRelease

\* The operator is restarted: every connection is handled again.
LEMMA RestartTracked ==
  ASSUME TypeOK, TypeOK', Marks, Tracked, Restart
  PROVE Tracked'
<1>0. /\ UNCHANGED <<conn, cluster, lives>> /\ seen' = conn /\ rec' = None
      /\ queue' = {c \in Conns : conn[c] # None}
  BY Zenon DEF Restart
<1>1. ASSUME NEW k \in Clusters PROVE TrackedCluster(k)'
  <2>1. CASE \E c \in Conns : Holds(c, k)
    BY <1>0, <2>1, Zenon DEF TrackedCluster, Pending, Holds
  <2>2. CASE ~\E c \in Conns : Holds(c, k)
    <3>1. Listed(k) = {}
      BY <2>2, ListedHold, Zenon DEF Holders
    <3>2. Listed(k)' = {}
      <4>1. ASSUME NEW c \in Conns, conn[c] # None, conn[c].label = k PROVE FALSE
        <5>1. conn[c].finalizer
          BY <4>1, NoneAssumption, Zenon DEF Marks, AllMarked, Marked
        <5> QED
          BY <2>2, <4>1, <5>1, Zenon DEF Holds
      <4> QED
        BY <1>0, <4>1, Zenon DEF Listed, Label
    <3>3. PICK cl : cl = cluster[k]
      OBVIOUS
    <3>4. InStep(k, cl) => InStep(k, cl)'
      BY <3>1, <3>2, InStepStays, Zenon
    <3>5. InStep(k, cluster[k]) => InStep(k, cluster[k])'
      BY <1>0, <3>3, <3>4, Zenon
    <3> QED
      BY <1>0, <2>2, <3>5, Zenon DEF Tracked, TrackedCluster, Pending
  <2> QED
    BY <2>1, <2>2, Zenon
<1> QED
  BY <1>0, <1>1, Zenon DEF Tracked, TrackedCluster

----------------------------------------------------------------------------
(* The theorems.                                                           *)

IInv == TypeOK /\ Base /\ Marks /\ Read /\ Counted /\ Tracked /\ Handled

\* The invariant holds while clusterRef is not edited once the connection was handled and
\* the cached clusters are not older than the cached connections.
THEOREM Invariance == ASSUME ~Movable, ~ClusterLag PROVE Spec => []IInv
<1>1. ASSUME Init PROVE IInv
  <2>1. TypeOK /\ Base
    <3>1. /\ conn \in [Conns -> Connections \cup {None}] /\ seen = conn
          /\ cluster \in [Clusters -> ClusterObjects \cup {None}] /\ shown = cluster
          /\ queue = {} /\ rec = None /\ events = 0
      BY <1>1, BlankFacts, Zenon DEF Init
    <3>2. lives \in [Clusters -> Nat]
      BY <1>1, Zenon DEF Init
    <3> QED
      BY <3>1, <3>2, Zenon DEF TypeOK, Base
  <2>2. /\ \A c \in Conns : conn[c] = None /\ seen[c] = None
        /\ rec = None /\ queue = {}
        /\ \A k \in Clusters : /\ cluster[k] \in {None, Blank}
                               /\ cluster[k] # None => lives[k] = 1
    BY <1>1, Zenon DEF Init
  <2>3. Marks /\ Read /\ Handled
    <3>1. Marks
      BY <2>2, Zenon DEF Marks, AllMarked, CacheBehind, InHand, Holds
    <3>2. Read
      BY <2>2, SMTT(20), ZenonT(30) DEF Read, Holds
    <3>3. Handled
      BY <2>2, Zenon DEF Handled
    <3> QED
      BY <3>1, <3>2, <3>3, Zenon
  <2>4. Counted
    <3>1. ASSUME NEW k \in Clusters, cluster[k] # None
          PROVE Nodes(cluster[k]) <= Cardinality(Holders(k))
      <4>1. Holders(k) \in SUBSET Conns
        BY Zenon DEF Holders
      <4>2. Cardinality(Holders(k)) \in Nat
        BY <4>1, CardFacts, Zenon
      <4> QED
        BY <2>2, <3>1, <4>2, BlankFacts
    <3> QED
      BY <2>2, <3>1, Zenon DEF Counted
  <2>5. Tracked
    <3>1. ASSUME NEW k \in Clusters, cluster[k] # None PROVE InStep(k, cluster[k])
      <4>1. Listed(k) = {}
        BY <2>2, Zenon DEF Listed
      <4> QED
        BY <2>2, <3>1, <4>1, InStepBlank, Zenon
    <3> QED
      BY <2>2, <3>1, Zenon DEF Tracked
  <2> QED
    BY <2>1, <2>3, <2>4, <2>5, Zenon DEF IInv
<1>2. ASSUME IInv, [Next]_vars PROVE IInv'
  <2> USE DEF IInv
  <2>1. TypeOK' /\ Base'
    BY <1>2, NextTypeOK, Zenon
  <2>2. Marks'
    BY <1>2, NextMarks, Zenon
  <2>3. Read'
    BY <1>2, NextRead, Zenon
  <2>4. Counted'
    BY <1>2, <2>1, NextCounted, Zenon
  <2>5. Handled'
    BY <1>2, NextHandled, Zenon
  <2>6. Tracked'
    BY <1>2, <2>1, ReconcileTracked, AddFinalizerTracked, ListTracked, ApplyTracked,
       ReleaseTracked, SeeConnTracked, EditConnTracked, EditClusterTracked, RestTracked,
       RestartTracked, ZenonT(60) DEF Next, Worker
  <2> QED
    BY <2>1, <2>2, <2>3, <2>4, <2>5, <2>6, ZenonT(60)
<1> QED
  BY <1>1, <1>2, PTL DEF Spec

\* NoDanglingNode: a cluster queries no more nodes than there are connections holding a
\* finalizer for it, for any number of them and any failures (handleClusterDeletion).
THEOREM NoDanglingNodeHolds ==
  ASSUME ~Movable, ~ClusterLag PROVE Spec => []NoDanglingNode
<1>1. IInv => NoDanglingNode
  <2>1. \A k \in Clusters :
          Holders(k) = {c \in Conns : conn[c] # None /\ conn[c].finalizer /\ conn[c].label = Label(k)}
    BY Zenon DEF Holders, Holds, Label
  <2> QED
    BY <2>1, Zenon DEF IInv, Counted, Nodes, NoDanglingNode
<1> QED
  BY <1>1, Invariance, PTL

\* A cluster in step has one value of each argument per listed connection, in one order,
\* and mounts their secrets (setArg, buildStorageNodeConfig).
LEMMA InStepFacts ==
  ASSUME TypeOK, NEW k \in Clusters, NEW cl \in ClusterObjects, InStep(k, cl),
         \A s \in Specs : Address[s] # None
  PROVE \E order \in Orders(Listed(k)) :
          /\ Len(cl.args["storageNode"]) = Len(order)
          /\ \A a \in storageNodeOwnedArgs, i \in DOMAIN order :
               LET vs == cl.args[a]
               IN  Value(a, seen[order[i]].spec) = IF vs = <<>> THEN None ELSE vs[i]
          /\ cl.secrets = {SecretName[seen[c].spec] : c \in Listed(k)} \ {None}
<1>1. PICK order \in Orders(Listed(k)) : buildStorageNodeConfig(cl, order) = cl
  BY Zenon DEF InStep
<1> DEFINE n == Cardinality(Listed(k))
           val(a) == [i \in DOMAIN order |-> Value(a, seen[order[i]].spec)]
<1>2. Listed(k) \in SUBSET Conns
  BY Zenon DEF Listed
<1>3. /\ n \in Nat /\ order \in [1..n -> Listed(k)] /\ DOMAIN order = 1..n /\ Len(order) = n
      /\ \A c \in Listed(k) : \E i \in DOMAIN order : order[i] = c
  BY <1>2, OrderFacts, ZenonT(60)
<1>4. \A i \in 1..n : order[i] \in Conns /\ seen[order[i]] # None /\ seen[order[i]].spec \in Specs
  BY <1>3, SMTT(20), ZenonT(30) DEF Listed, TypeOK, Connections
<1> HIDE DEF n
<1>5. \A a \in storageNodeOwnedArgs : cl.args[a] = setArg(val(a))
  BY <1>1 DEF buildStorageNodeConfig
<1>6. cl.secrets = {SecretName[seen[order[i]].spec] : i \in DOMAIN order} \ {None}
  BY <1>1 DEF buildStorageNodeConfig
<1>7. cl.secrets = {SecretName[seen[c].spec] : c \in Listed(k)} \ {None}
  BY <1>3, <1>6
<1>8. \A a \in storageNodeOwnedArgs : \A i \in 1..n : val(a)[i] = Value(a, seen[order[i]].spec)
  BY <1>3, Zenon
<1>9. \A a \in storageNodeOwnedArgs : DOMAIN val(a) = 1..n
  BY <1>3, ZenonT(60)
<1>10. \A i \in 1..n : val("storageNode")[i] # None
  BY <1>4, <1>8 DEF Value, storageNodeOwnedArgs
<1> HIDE DEF val
<1>11. Len(cl.args["storageNode"]) = n
  <2>0. "storageNode" \in storageNodeOwnedArgs
    BY Zenon DEF storageNodeOwnedArgs
  <2>1. cl.args["storageNode"] = setArg(val("storageNode"))
    BY <1>5, <2>0, Zenon
  <2>2. DOMAIN val("storageNode") = 1..n
    BY <1>9, <2>0, Zenon
  <2>3. CASE n = 0
    BY <2>1, <2>2, <2>3 DEF setArg
  <2>4. CASE n # 0
    <3>1. 1 \in 1..n
      BY <1>3, <2>4
    <3>2. cl.args["storageNode"] = val("storageNode")
      BY <1>10, <2>1, <2>2, <3>1, ZenonT(60) DEF setArg
    <3>3. cl.args["storageNode"] \in Seq({Value(a, s) : a \in storageNodeOwnedArgs, s \in Specs})
      BY <2>0 DEF ClusterObjects
    <3>4. 1..Len(cl.args["storageNode"]) = 1..n /\ Len(cl.args["storageNode"]) \in Nat
      BY <2>2, <3>2, <3>3, SMTT(20), ZenonT(30)
    <3> QED
      BY <1>3, <2>4, <3>4
  <2> QED
    BY <2>3, <2>4, Zenon
<1>12. ASSUME NEW a \in storageNodeOwnedArgs, NEW i \in 1..n
       PROVE Value(a, seen[order[i]].spec) = IF cl.args[a] = <<>> THEN None ELSE cl.args[a][i]
  <2>1. val(a)[i] = Value(a, seen[order[i]].spec) /\ i \in DOMAIN val(a)
    BY <1>8, <1>9, Zenon
  <2>2. CASE \A j \in DOMAIN val(a) : val(a)[j] = None
    BY <1>5, <2>1, <2>2, Zenon DEF setArg
  <2>3. CASE ~\A j \in DOMAIN val(a) : val(a)[j] = None
    <3>1. cl.args[a] = val(a)
      BY <1>5, <2>3, Zenon DEF setArg
    <3>2. val(a) # <<>>
      BY <2>1
    <3> QED
      BY <2>1, <3>1, <3>2, Zenon
  <2> QED
    BY <2>2, <2>3, Zenon
<1>13. Len(cl.args["storageNode"]) = Len(order)
  BY <1>3, <1>11, Zenon
<1>14. \A a \in storageNodeOwnedArgs, i \in DOMAIN order :
         Value(a, seen[order[i]].spec) = IF cl.args[a] = <<>> THEN None ELSE cl.args[a][i]
  BY <1>3, <1>12, Zenon
<1> QED
  BY <1>1, <1>7, <1>13, <1>14, Zenon

\* SyncedAtRest: at rest every cluster queries exactly the nodes of the connections that
\* refer to it, each with its own credentials at its own position, and no connection is
\* left in deletion; whatever was edited, failed or restarted before (syncCluster,
\* buildStorageNodeConfig).  Every node has an address: setArg leaves out an argument all
\* of whose values are empty, and the addresses are what the nodes are counted by.
THEOREM SyncedAtRestHolds ==
  ASSUME ~Movable, ~ClusterLag, \A s \in Specs : Address[s] # None
  PROVE Spec => []SyncedAtRest
<1>1. IInv => SyncedAtRest
  <2> SUFFICES ASSUME IInv, Quiet
               PROVE /\ \A c \in Conns : conn[c] # None => ~conn[c].deleting
                     /\ \A k \in Clusters : cluster[k] # None /\ lives[k] = 1 =>
                          \E order \in Orders(Active(k)) :
                            /\ Len(cluster[k].args["storageNode"]) = Len(order)
                            /\ \A a \in storageNodeOwnedArgs, i \in DOMAIN order :
                                 LET vs == cluster[k].args[a]
                                 IN  Value(a, conn[order[i]].spec) = IF vs = <<>> THEN None ELSE vs[i]
                            /\ cluster[k].secrets = {SecretName[conn[c].spec] : c \in Active(k)} \ {None}
    BY Zenon DEF SyncedAtRest
  <2>0. /\ rec = None /\ seen = conn
        /\ \A c \in queue : conn[c] # None /\ ~conn[c].deleting /\ cluster[conn[c].ref] = None
        /\ \A c \in Conns : conn[c] # None => Marked(conn[c])
    BY Zenon DEF Quiet, IInv, Marks, AllMarked
  <2>1. ASSUME NEW c \in Conns, conn[c] # None PROVE ~conn[c].deleting
    BY <2>0, <2>1, Zenon DEF IInv, Handled, Marked
  <2>2. ASSUME NEW k \in Clusters, cluster[k] # None, lives[k] = 1
        PROVE \E order \in Orders(Active(k)) :
                /\ Len(cluster[k].args["storageNode"]) = Len(order)
                /\ \A a \in storageNodeOwnedArgs, i \in DOMAIN order :
                     LET vs == cluster[k].args[a]
                     IN  Value(a, conn[order[i]].spec) = IF vs = <<>> THEN None ELSE vs[i]
                /\ cluster[k].secrets = {SecretName[conn[c].spec] : c \in Active(k)} \ {None}
    <3>1. \A c \in Conns : ~Pending(c, k)
      <4>1. ASSUME NEW c \in Conns, Pending(c, k) PROVE FALSE
        <5>1. conn[c] # None /\ conn[c].finalizer /\ conn[c].label = k /\ conn[c].ref = k
          BY <2>0, <4>1, Zenon DEF Pending, Holds, Marked
        <5>2. c \in queue
          BY <2>0, <4>1, <5>1, Zenon DEF Pending
        <5> QED
          BY <2>0, <2>2, <5>1, <5>2, Zenon
      <4> QED
        BY <4>1, Zenon
    <3>2. InStep(k, cluster[k])
      BY <2>2, <3>1, Zenon DEF IInv, Tracked
    <3>3. Active(k) = Listed(k)
      <4>1. ASSUME NEW c \in Conns, conn[c] # None, conn[c].ref = k PROVE conn[c].finalizer
        <5>1. c \notin queue
          BY <2>0, <2>2, <4>1, Zenon
        <5> QED
          BY <2>0, <4>1, <5>1, Zenon DEF IInv, Handled
      <4>2. ASSUME NEW c \in Conns, conn[c] # None PROVE conn[c].ref = k <=> conn[c].label = k
        BY <2>0, <4>1, <4>2, NoneAssumption, Zenon DEF Marked
      <4> QED
        BY <2>0, <4>2, Zenon DEF Active, Listed, Label
    <3>4. cluster[k] \in ClusterObjects /\ TypeOK
      BY <2>2, Zenon DEF IInv, TypeOK
    <3>5. PICK order \in Orders(Listed(k)) :
            /\ Len(cluster[k].args["storageNode"]) = Len(order)
            /\ \A a \in storageNodeOwnedArgs, i \in DOMAIN order :
                 Value(a, seen[order[i]].spec) =
                   IF cluster[k].args[a] = <<>> THEN None ELSE cluster[k].args[a][i]
            /\ cluster[k].secrets = {SecretName[seen[c].spec] : c \in Listed(k)} \ {None}
      BY <3>2, <3>4, InStepFacts, Zenon
    <3>6. order \in Orders(Active(k))
      BY <3>3, Zenon
    <3>7. \A a \in storageNodeOwnedArgs, i \in DOMAIN order :
            LET vs == cluster[k].args[a]
            IN  Value(a, conn[order[i]].spec) = IF vs = <<>> THEN None ELSE vs[i]
      BY <2>0, <3>5, Zenon
    <3>8. cluster[k].secrets = {SecretName[conn[c].spec] : c \in Active(k)} \ {None}
      <4>1. seen = conn
        BY <2>0, Zenon
      <4>2. cluster[k].secrets = {SecretName[seen[c].spec] : c \in Listed(k)} \ {None}
        BY <3>5, Zenon
      <4> QED
        BY <3>3, <4>1, <4>2, Zenon
    <3> QED
      BY <3>5, <3>6, <3>7, <3>8, Zenon
  <2> QED
    BY <2>1, <2>2, Zenon
<1> QED
  BY <1>1, Invariance, PTL
=============================================================================
