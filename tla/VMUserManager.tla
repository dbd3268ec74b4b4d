--------------------------- MODULE VMUserManager ---------------------------
(***************************************************************************)
(* The VMUser manager (kof-operator/internal/controller/vmuser): the       *)
(* credentials of one user are a Secret in the cluster's namespace, a copy *)
(* of it in the kof namespace, a VMUser, and the MultiClusterService that  *)
(* propagates the first and the third to the regional cluster.  The Secret *)
(* and the VMUser are owned by the object the caller names; the copy and   *)
(* the MultiClusterService have no owner.                                  *)
(*                                                                         *)
(* Create and Delete are sequences of API calls made for a caller; each    *)
(* call may fail, which fails the whole operation, and the caller may die  *)
(* between two calls.                                                      *)
(***************************************************************************)
EXTENDS Naturals

CONSTANTS
  Users,        \* CreateOptions.Name
  Config,       \* CreateOptions.VMUserConfig of each user: [label, filters] or None
  WithMCS,      \* the users whose CreateOptions.MCSConfig is set
  Regionless,   \* env.RegionlessEnabled()
  None

VARIABLES
  secret,    \* [pw, owner] or None
  copy,      \* the password in the copy, or None
  vmuser,    \* [targets, owner] or None
  mcs,       \* the users whose MultiClusterService exists
  job,       \* the operation in progress for each user, or None
  minted     \* passwords generated so far

----------------------------------------------------------------------------
(* What a user may read and write.  A path of the VMUser is a pair of a    *)
(* backend and a direction; its query arguments are a set of key-value     *)
(* pairs, tagged with how the backend spells the key.                      *)

Backends == {"vlAudit", "vl", "vm", "vt"}

Paths == Backends \X {"select", "insert"}

\* The spelling of a key: VictoriaTraces keeps it under resource_attr.
KeyOf(backend, k) == IF backend = "vt" THEN <<"resource_attr", k>> ELSE <<"field", k>>

\* Insert paths stamp the label on what is written.
applyExtraLabel(backend, cfg) == {<<KeyOf(backend, cfg.label[1]), cfg.label[2]>>}

\* Select paths filter what is read.
applyExtraFilters(backend, cfg) ==
  {<<KeyOf(backend, k), cfg.filters[k]>> : k \in DOMAIN cfg.filters}

buildQueryArgs(cfg, path) ==
  IF cfg = None THEN {}
  ELSE IF path[2] = "insert" THEN applyExtraLabel(path[1], cfg)
  ELSE applyExtraFilters(path[1], cfg)

\* Mistake: the audit paths were added without arguments.
buildTargetRefsUnfiltered(cfg) ==
  [p \in Paths |-> IF p[1] = "vlAudit" THEN {} ELSE buildQueryArgs(cfg, p)]

buildTargetRefs(cfg) == [p \in Paths |-> buildQueryArgs(cfg, p)]

----------------------------------------------------------------------------
(* Operations.  job[u] is [op, step, owner, pw, ok]; ok is the outcome     *)
(* once step is "returned".                                                *)

NoJob(u) == job[u] = None

Returned(u) == job[u] # None /\ job[u].step = "returned"

VMUserInit ==
  /\ secret = [u \in Users |-> None] /\ copy = [u \in Users |-> None]
  /\ vmuser = [u \in Users |-> None] /\ mcs = {}
  /\ job = [u \in Users |-> None] /\ minted = 0

\* The caller enters Create or Delete.
Create(u, owner) ==
  job' = [job EXCEPT ![u] = [op |-> "create", step |-> "secret", owner |-> owner,
                             pw |-> 0, ok |-> FALSE]]

Delete(u) ==
  job' = [job EXCEPT ![u] = [op |-> "delete", step |-> "mcs", owner |-> 0, pw |-> 0,
                             ok |-> FALSE]]

\* The operation returns to its caller, which takes the outcome with Take.
Return(u, ok) == job' = [job EXCEPT ![u].step = "returned", ![u].ok = ok]

Take(u) == Returned(u) /\ job' = [job EXCEPT ![u] = None]

At(u, op, step) == job[u] # None /\ job[u].op = op /\ job[u].step = step

Advance(u, step) == job' = [job EXCEPT ![u].step = step]

\* Any call may fail; Create and Delete stop at the first error.
CallFails(u) ==
  /\ job[u] # None /\ ~Returned(u) /\ Return(u, FALSE)
  /\ UNCHANGED <<secret, copy, vmuser, mcs, minted>>

\* createSecret, the Secret: a password is generated only when there is none; the owner
\* is set in any case.
CreateSecret(u) ==
  /\ At(u, "create", "secret")
  /\ LET fresh == secret[u] = None
         pw == IF fresh THEN minted + 1 ELSE secret[u].pw
     IN  /\ minted' = IF fresh THEN minted + 1 ELSE minted
         /\ secret' = [secret EXCEPT ![u] = [pw |-> pw, owner |-> job[u].owner]]
         /\ job' = [job EXCEPT ![u].step = "copy", ![u].pw = pw]
  /\ UNCHANGED <<copy, vmuser, mcs>>

\* createSecret, the copy: made from the Secret as the call before returned it.
CopySecret(u) ==
  /\ At(u, "create", "copy")
  /\ copy' = [copy EXCEPT ![u] = job[u].pw]
  /\ Advance(u, "vmuser")
  /\ UNCHANGED <<secret, vmuser, mcs, minted>>

createOrUpdateVMUser(u) ==
  /\ At(u, "create", "vmuser")
  /\ vmuser' = [vmuser EXCEPT ![u] = [targets |-> buildTargetRefs(Config[u]),
                                      owner |-> job[u].owner]]
  /\ IF u \in WithMCS /\ ~Regionless THEN Advance(u, "mcs") ELSE Return(u, TRUE)
  /\ UNCHANGED <<secret, copy, mcs, minted>>

createOrUpdatePropagationMCS(u) ==
  /\ At(u, "create", "mcs") /\ mcs' = mcs \cup {u} /\ Return(u, TRUE)
  /\ UNCHANGED <<secret, copy, vmuser, minted>>

\* deleteResource: an object that is not there counts as deleted.
DeleteMCS(u) ==
  /\ At(u, "delete", "mcs") /\ mcs' = mcs \ {u} /\ Advance(u, "vmuser")
  /\ UNCHANGED <<secret, copy, vmuser, minted>>

DeleteVMUser(u) ==
  /\ At(u, "delete", "vmuser") /\ vmuser' = [vmuser EXCEPT ![u] = None]
  /\ Advance(u, "secret") /\ UNCHANGED <<secret, copy, mcs, minted>>

DeleteSecret(u) ==
  /\ At(u, "delete", "secret") /\ secret' = [secret EXCEPT ![u] = None]
  /\ Advance(u, "copy") /\ UNCHANGED <<copy, vmuser, mcs, minted>>

\* Mistake: the copy in the kof namespace is forgotten.
DeleteCopyNot(u) ==
  /\ At(u, "delete", "copy") /\ Return(u, TRUE)
  /\ UNCHANGED <<secret, copy, vmuser, mcs, minted>>

DeleteCopy(u) ==
  /\ At(u, "delete", "copy") /\ copy' = [copy EXCEPT ![u] = None]
  /\ Return(u, TRUE) /\ UNCHANGED <<secret, vmuser, mcs, minted>>

Call(u) ==
  \/ CreateSecret(u) \/ CopySecret(u) \/ createOrUpdateVMUser(u)
  \/ createOrUpdatePropagationMCS(u)
  \/ DeleteMCS(u) \/ DeleteVMUser(u) \/ DeleteSecret(u) \/ DeleteCopy(u)

\* Garbage collection: an owned object whose owner is gone is deleted.
CollectCredentials(u, alive) ==
  \/ /\ secret[u] # None /\ secret[u].owner \notin alive
     /\ secret' = [secret EXCEPT ![u] = None]
     /\ UNCHANGED <<copy, vmuser, mcs, job, minted>>
  \/ /\ vmuser[u] # None /\ vmuser[u].owner \notin alive
     /\ vmuser' = [vmuser EXCEPT ![u] = None]
     /\ UNCHANGED <<secret, copy, mcs, job, minted>>

----------------------------------------------------------------------------

\* A VMUser with a tenant's configuration stamps the tenant on everything it writes and
\* filters everything it reads, whatever the backend (applyExtraLabel and
\* applyExtraFilters, over all paths of buildTargetRefs).
TenantConfined ==
  \A u \in Users : vmuser[u] # None /\ Config[u] # None =>
    \A p \in Paths :
      LET args == vmuser[u].targets[p]
      IN  IF p[2] = "insert"
          THEN \E a \in args : a[1][2] = Config[u].label[1] /\ a[2] = Config[u].label[2]
          ELSE \A k \in DOMAIN Config[u].filters :
                 \E a \in args : a[1][2] = k /\ a[2] = Config[u].filters[k]
=============================================================================
