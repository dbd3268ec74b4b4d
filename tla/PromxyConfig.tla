---------------------------- MODULE PromxyConfig ----------------------------
(***************************************************************************)
(* The PromxyServerGroup controller (promxyservergroup_controller.go,      *)
(* promxy_reload.go, secret.go): every event on any group rebuilds every   *)
(* Promxy configuration from all groups and their credentials, writes it   *)
(* to the Secret the groups name, and asks the running Promxy pods to      *)
(* reload.  A pod reads the Secret through a volume that the kubelet       *)
(* refreshes in its own time, and a sidecar reloads Promxy whenever the    *)
(* volume changes (charts/kof-mothership/templates/promxy).                *)
(***************************************************************************)
EXTENDS Naturals, FiniteSets

CONSTANTS
  Groups,        \* names of PromxyServerGroup objects
  SecretNames,   \* values of the label that names the Secret
  MountedName,   \* the one Promxy's pods mount
  Pods,          \* the Promxy pods
  None

VARIABLES
  group,      \* [secretName, cred, spec, owner] of each group, or None
  creds,      \* the password in each credentials Secret of the release namespace, or None
  config,     \* the configuration in each Secret of SecretNames, or None
  running,    \* the pods that are running
  mounted,    \* the configuration on the volume of each pod
  loaded,     \* the configuration each pod uses
  asked,      \* an event on some group has not been handled
  rec         \* the reconciliation in progress, or None

PromxyInit ==
  /\ group = [g \in Groups |-> None]
  /\ config = [n \in SecretNames |-> None]
  /\ running = Pods
  /\ mounted = [p \in Pods |-> None] /\ loaded = [p \in Pods |-> None]
  /\ asked = FALSE /\ rec = None

\* The groups that name Secret n; a group without the label names none.
NamedBy(gs, n) == {g \in Groups : gs[g] # None /\ gs[g].secretName = n}

\* Reconcile starts: the groups are listed once.  Requests for different groups do the
\* same, so they are one.
Begin ==
  /\ rec = None /\ asked /\ asked' = FALSE
  /\ rec' = [step |-> "next", groups |-> group,
             left |-> {n \in SecretNames : NamedBy(group, n) # {}},
             name |-> None, data |-> None]
  /\ UNCHANGED <<group, config, running, mounted, loaded>>

\* Mistake: an error is logged and forgotten.
FailQuietly ==
  /\ rec' = None /\ UNCHANGED asked

\* An error ends the reconciliation, which is retried.
Fail ==
  /\ rec' = None /\ asked' = TRUE

\* One server group of the configuration: where to read, and the password.
PromxyConfigServerGroup(gs, g) == [spec |-> gs[g].spec, pw |-> creds[gs[g].cred]]

\* The configuration rendered from all groups that name the Secret.
RenderMetricsSecretTemplate(gs, n) ==
  [g \in NamedBy(gs, n) |-> PromxyConfigServerGroup(gs, g)]

\* The next Secret, in no particular order: a group whose credentials are missing ends
\* the reconciliation.
Render ==
  /\ rec # None /\ rec.step = "next"
  /\ \E n \in rec.left :
       IF \E g \in NamedBy(rec.groups, n) : creds[rec.groups[g].cred] = None
       THEN Fail
       ELSE /\ rec' = [rec EXCEPT !.step = "write", !.left = @ \ {n}, !.name = n,
                                  !.data = RenderMetricsSecretTemplate(rec.groups, n)]
            /\ UNCHANGED asked
  /\ UNCHANGED <<group, config, running, mounted, loaded>>

\* Create or Update of the Secret.
Write ==
  /\ rec # None /\ rec.step = "write"
  /\ config' = [config EXCEPT ![rec.name] = rec.data]
  /\ rec' = [rec EXCEPT !.step = "reload"]
  /\ UNCHANGED <<group, running, mounted, loaded, asked>>

\* ReloadPromxyConfig: every running pod is asked, whether or not another one failed; it
\* loads what its volume shows.  The reload fails when a pod fails or none is running.
Reload(bad) ==
  /\ rec # None /\ rec.step = "reload"
  /\ bad \subseteq running
  /\ loaded' = [p \in Pods |-> IF p \in running \ bad THEN mounted[p] ELSE loaded[p]]
  /\ IF bad # {} \/ running = {}
     THEN Fail
     ELSE rec' = [rec EXCEPT !.step = "next"] /\ UNCHANGED asked
  /\ UNCHANGED <<group, config, running, mounted>>

\* All Secrets are written.
End ==
  /\ rec # None /\ rec.step = "next" /\ rec.left = {} /\ rec' = None
  /\ UNCHANGED <<group, config, running, mounted, loaded, asked>>

\* A read or a write fails, or the operator is restarted; a new operator handles every
\* group again.
Interrupt ==
  /\ rec # None /\ Fail
  /\ UNCHANGED <<group, config, running, mounted, loaded>>

\* The kubelet refreshes the volume of a pod, whose sidecar makes Promxy reload.
Refresh(p) ==
  /\ mounted[p] # config[MountedName]
  /\ mounted' = [mounted EXCEPT ![p] = config[MountedName]]
  /\ loaded' = IF p \in running THEN [loaded EXCEPT ![p] = config[MountedName]] ELSE loaded
  /\ UNCHANGED <<group, config, running, asked, rec>>

\* A pod stops, and starts again with what its volume shows.
PodStops(p) ==
  /\ p \in running /\ running' = running \ {p}
  /\ UNCHANGED <<group, config, mounted, loaded, asked, rec>>

PodStarts(p) ==
  /\ p \notin running /\ running' = running \cup {p}
  /\ loaded' = [loaded EXCEPT ![p] = mounted[p]]
  /\ UNCHANGED <<group, config, mounted, asked, rec>>

\* CreateOrUpdate of a group by its owner's controller: an event if anything changes.
PutGroup(g, new) ==
  /\ group' = [group EXCEPT ![g] = new]
  /\ asked' = (asked \/ group[g] # new)
  /\ UNCHANGED <<config, running, mounted, loaded, rec>>

\* Garbage collection of a group whose owner is gone; also an event.
CollectGroup(g, alive) ==
  /\ group[g] # None /\ group[g].owner \notin alive
  /\ PutGroup(g, None)

Reconcile == Begin \/ Render \/ Write \/ Reload({}) \/ End
=============================================================================
