------------------------- MODULE RegionalSinksProofs -------------------------
(***************************************************************************)
(* Proofs about what is built for a regional cluster, for any regional and *)
(* child clusters, endpoints and pods, and any number of edits, failures   *)
(* and restarts.                                                           *)
(***************************************************************************)
EXTENDS RegionalSinks, TLAPS

File == "promxy-config"

----------------------------------------------------------------------------
(* The inductive invariant.                                                *)

OwnType ==
  /\ cm \in [Regionals -> ConfigMaps \cup {None}]
  /\ uids \in [Regionals -> Nat]
  /\ queue \subseteq Regionals
  /\ work \in Requests \cup {None}
  /\ children \subseteq Children
  /\ rules \in [Regionals -> Nat \cup {None}]
  /\ rulesMcs \subseteq Regionals
  /\ conn \in [Regionals \X Sinks -> Connections \cup {None}]
  /\ missed \subseteq Regionals

UserType ==
  /\ secret \in [Users -> Secrets \cup {None}]
  /\ copy \in [Users -> Nat \cup {None}]
  /\ vmuser \in [Users -> VMUsers \cup {None}]
  /\ mcs \subseteq Users
  /\ job \in [Users -> Jobs \cup {None}]
  /\ minted \in Nat

PromxyType ==
  /\ group \in [Regionals -> GroupObjects \cup {None}]
  /\ DOMAIN config = {File} /\ config = [n \in {File} |-> config[n]]
  /\ running \subseteq Pods
  /\ mounted = [p \in Pods |-> mounted[p]] /\ loaded = [p \in Pods |-> loaded[p]]
  /\ asked \in BOOLEAN
  /\ rec \in Renderings \cup {None}

TypeInv == OwnType /\ UserType /\ PromxyType

\* A VMUser is what its configuration makes it.
Confined == \A u \in Users : vmuser[u] # None => vmuser[u].targets = U!buildTargetRefs(Config[u])

\* The reconciliation in progress is about regional r.
On(r) == work # None /\ work.r = r

\* Objects belong to a ConfigMap there is or was, and never to a later one.
Uids == \A r \in Regionals : uids[r] >= 1 /\ (cm[r] # None => cm[r].uid = uids[r])
OwnedWork == \A r \in Regionals : On(r) /\ work.cm # None => work.cm.uid \in 1..uids[r]
OwnedUsers ==
  \A r \in Regionals :
    /\ secret[r] # None => secret[r].owner \in 1..uids[r]
    /\ vmuser[r] # None => vmuser[r].owner \in 1..uids[r]
OwnedGroups ==
  \A r \in Regionals : group[r] # None => group[r].cred = r /\ group[r].owner \in 1..uids[r]
OwnedRules == \A r \in Regionals : rules[r] # None => rules[r] \in 1..uids[r]
OwnedConns ==
  \A r \in Regionals, s \in Sinks : conn[<<r, s>>] # None => conn[<<r, s>>].owner \in 1..uids[r]
Owned == Uids /\ OwnedWork /\ OwnedUsers /\ OwnedGroups /\ OwnedRules /\ OwnedConns

\* A regional's credentials are worked on for its reconciliation alone.
Busy ==
  /\ \A r \in Regionals : job[r] # None =>
       /\ On(r)
       /\ \/ work.step = "wait" /\ job[r].op = "create" /\ job[r].owner = work.cm.uid
          \/ work.step = "cleanup" /\ job[r].op = "delete"
  /\ work # None /\ work.step \in {"wait", "cleanup"} => job[work.r] # None

\* What has changed since the reconciliation began is in the queue.
Current ==
  work # None /\ work.r \notin queue => cm[work.r] = work.cm

\* The cleanup of a regional that is gone.
Gone(r) == cm[r] = None /\ r \notin missed /\ r \notin queue
Clean ==
  \A r \in Regionals : Gone(r) =>
    IF On(r)
    THEN /\ job[r].step \in {"vmuser", "secret", "copy"} => r \notin mcs
         /\ job[r].step = "returned" /\ job[r].ok => r \notin mcs /\ copy[r] = None
    ELSE copy[r] = None /\ r \notin mcs /\ r \notin rulesMcs

After(step) ==
  CASE step = "rules" -> {"rulesMcs", "user", "wait", "group", "traces", "logs", "audit"}
    [] step = "rulesMcs" -> {"user", "wait", "group", "traces", "logs", "audit"}
    [] step = "wait" -> {"group", "traces", "logs", "audit"}
    [] step = "group" -> {"traces", "logs", "audit"}
    [] step = "traces" -> {"logs", "audit"}
    [] step = "logs" -> {"audit"}
    [] step = "audit" -> {}

\* The step was done for the ConfigMap as it is now.
Done(r, step) ==
  /\ cm[r] # None /\ r \notin queue
  /\ On(r) => work.step \in After(step)

SecretMade(r) == secret[r] # None /\ secret[r].owner = cm[r].uid
CopyMade(r) == SecretMade(r) /\ copy[r] = secret[r].pw
UserMade(r) == CopyMade(r) /\ vmuser[r] # None /\ vmuser[r].owner = cm[r].uid
AllMade(r) == UserMade(r) /\ (~Regionless => r \in mcs)

\* The credentials, which are made in steps of their own, for the ConfigMap there is now:
\* while they are made, while the rest is made, and after that.
Making(r) ==
  job[r] # None /\ job[r].op = "create" /\ job[r].owner = cm[r].uid =>
    /\ job[r].step = "copy" => SecretMade(r) /\ job[r].pw = secret[r].pw
    /\ job[r].step = "vmuser" => CopyMade(r)
    /\ job[r].step = "mcs" => UserMade(r)
    /\ job[r].step = "returned" /\ job[r].ok => AllMade(r)
Finishing(r) ==
  On(r) /\ work.cm # None /\ work.cm.uid = cm[r].uid /\ work.step \in After("wait") => AllMade(r)
Finished(r) == r \notin queue /\ ~On(r) => AllMade(r)
Credentials == \A r \in Regionals : cm[r] # None => Making(r) /\ Finishing(r) /\ Finished(r)

Endpoint(r) == GetReadEndpoint(r, cm[r].data)
Configured(s) == (IF s = "traces" THEN VTCluster ELSE VLCluster) # None

\* Everything else that is made for a regional.
MadeMcs ==
  Regionless =>
    /\ mcs = {}
    /\ \A u \in Users : job[u] # None /\ job[u].op = "create" => job[u].step # "mcs"
MadeRules ==
  \A r \in Regionals :
    /\ Done(r, "rules") /\ uids[r] = 1 => rules[r] # None
    /\ Done(r, "rulesMcs") /\ r \in KcmRegions => r \in rulesMcs
MadeGroup ==
  \A r \in Regionals : Done(r, "group") =>
    group[r] # None /\ group[r].owner = cm[r].uid /\ group[r].spec = Target(r, cm[r].data)
MadeConns ==
  \A r \in Regionals, s \in Sinks : uids[r] = 1 =>
    /\ cm[r] # None /\ conn[<<r, s>>] # None => ~conn[<<r, s>>].deleting
    /\ Done(r, s) /\ Configured(s) => conn[<<r, s>>] # None /\ conn[<<r, s>>].data = Endpoint(r)
Made == MadeMcs /\ MadeRules /\ MadeGroup /\ MadeConns

\* The group of the ConfigMap there is now: its credentials have been made before it.
Now(r) == cm[r] # None /\ group[r] # None /\ group[r].owner = cm[r].uid
GroupAfterCredentials ==
  \A r \in Regionals : Now(r) =>
    /\ CopyMade(r)
    /\ On(r) => work.cm # None /\ work.cm.uid = cm[r].uid

GroupNames == {r \in Regionals : group[r] # None}

\* A configuration made from the groups as they are.
Good(data) ==
  /\ DOMAIN data = GroupNames /\ data = [r \in GroupNames |-> data[r]]
  /\ \A r \in GroupNames :
       /\ data[r] = [spec |-> group[r].spec, pw |-> data[r].pw]
       /\ Now(r) => data[r].pw = copy[r]

GoodConfig == \A data \in {config[File]} : Good(data)
GoodRendering == \A data \in {rec.data} : Good(data)

\* What Promxy is configured with, unless an event is waiting.
Rendered ==
  ~asked =>
    /\ rec = None /\ GroupNames # {} => GoodConfig
    /\ rec # None =>
         /\ rec.groups = group
         /\ rec.step = "next" => rec.left = {File} \/ GroupNames = {} \/ GoodConfig
         /\ rec.step = "write" => rec.name = File /\ rec.left = {} /\ GoodRendering
         /\ rec.step = "reload" => rec.left = {} /\ GoodConfig

\* A running pod uses what its volume shows.
Loaded == \A p \in running : loaded[p] = mounted[p]

----------------------------------------------------------------------------
(* Types.                                                                  *)

\* The functions of the instances are on the right sets.
LEMMA Sets == /\ Regionals \subseteq Users /\ Children \subseteq Users
              /\ \A u \in Users : Config[u] = IF u \in Children THEN TenantConfig ELSE None
  BY Zenon DEF Users, Config

\* A target is made from the data of a ConfigMap.
LEMMA SpecType == \A r \in Regionals, d \in Data : Target(r, d) \in Specs /\ GetReadEndpoint(r, d) \in Data \cup {LocalEndpoint}
  BY DEF Specs, GetReadEndpoint

\* The initial state has the types.
LEMMA InitType == Init => TypeInv
<1> SUFFICES ASSUME Init PROVE TypeInv
  OBVIOUS
<1>1. OwnType
  <2>1. cm \in [Regionals -> ConfigMaps \cup {None}]
    BY Zenon DEF Init, ConfigMaps, Data
  <2>2. queue \subseteq Regionals
    BY Zenon DEF Init
  <2> QED
    BY <2>1, <2>2, Zenon DEF Init, OwnType
<1>2. UserType
  BY Zenon DEF Init, U!VMUserInit, UserType
<1>3. PromxyType
  BY Zenon DEF Init, P!PromxyInit, PromxyType, File
<1> QED
  BY <1>1, <1>2, <1>3, Zenon DEF TypeInv

\* The request in progress.
LEMMA WorkFacts ==
  ASSUME OwnType, work # None
  PROVE  /\ work \in Requests /\ work.r \in Regionals
         /\ work.step \in Handling \cup {"cleanup"}
         /\ work.step = "cleanup" => work.cm = None
         /\ work.step # "cleanup" => work.cm \in ConfigMaps /\ work.cm # None
         /\ work.step # "cleanup" => work.cm.uid \in Nat /\ work.cm.data \in Data
  BY NoneAssumption, Zenon DEF OwnType, Requests, ConfigMaps, Handling

\* Its next step.
LEMMA GotoFacts ==
  ASSUME OwnType, NEW s \in Handling, At(s), NEW t \in Handling, Goto(t)
  PROVE  /\ work # None /\ work.step = s /\ queue' = queue
         /\ work.r \in Regionals /\ work.cm \in ConfigMaps /\ work.cm # None
         /\ work' \in Requests /\ work' # None
         /\ work'.r = work.r /\ work'.cm = work.cm /\ work'.step = t
<1>1. work # None /\ work.step = s /\ s # "cleanup"
  BY Zenon DEF At, Handling
<1>2. work' = [work EXCEPT !.step = t] /\ queue' = queue
  BY Zenon DEF Goto
<1>3. work \in [r : Regionals, cm : ConfigMaps, step : Handling]
  BY <1>1, Zenon DEF OwnType, Requests
<1>4. work' \in [r : Regionals, cm : ConfigMaps, step : Handling]
  BY <1>2, <1>3, Zenon
<1> QED
  BY <1>1, <1>2, <1>3, <1>4, NoneAssumption, Zenon DEF Requests

\* What a regional's reconciliation leaves of the ConfigMaps and of its own progress.
LEMMA OwnStep == TypeInv /\ Next => OwnType'
<1> SUFFICES ASSUME TypeInv, Next PROVE OwnType'
  OBVIOUS
<1> USE DEF TypeInv
<1>1. ASSUME UNCHANGED own PROVE OwnType'
  BY <1>1, Zenon DEF OwnType, own
<1>2. CASE TakeRequest
  <2>1. PICK r \in queue :
          /\ queue' = queue \ {r}
          /\ work' = IF cm[r] = None THEN [r |-> r, cm |-> None, step |-> "cleanup"]
                     ELSE [r |-> r, cm |-> cm[r], step |-> "rules"]
    BY <1>2, Zenon DEF TakeRequest
  <2>2. work' \in Requests
    BY <2>1, Zenon DEF OwnType, Requests, Handling
  <2> QED
    BY <1>2, <2>1, <2>2, Zenon DEF OwnType, TakeRequest
<1>3. CASE CreateVmRulesConfigMap
  <2>1. At("rules") /\ Goto("rulesMcs")
    BY <1>3, Zenon DEF CreateVmRulesConfigMap
  <2>2. work # None /\ work.step = "rules" /\ queue' = queue /\ work' \in Requests
    BY <2>1, GotoFacts, Zenon DEF Handling
  <2>3. work.r \in Regionals /\ work.cm.uid \in Nat
    BY <2>2, WorkFacts, Zenon
  <2> QED
    BY <1>3, <2>2, <2>3, Zenon DEF CreateVmRulesConfigMap, OwnType
<1>4. CASE CreateOrUpdateMcsForVmRulesPropagation
  <2>1. At("rulesMcs") /\ Goto("user")
    BY <1>4, Zenon DEF CreateOrUpdateMcsForVmRulesPropagation
  <2>2. work # None /\ work.step = "rulesMcs" /\ queue' = queue /\ work' \in Requests
    BY <2>1, GotoFacts, Zenon DEF Handling
  <2>3. work.r \in Regionals
    BY <2>2, WorkFacts, Zenon
  <2> QED
    BY <1>4, <2>2, <2>3, Zenon DEF CreateOrUpdateMcsForVmRulesPropagation, OwnType
<1>5. CASE CreateVMUser
  <2>1. At("user") /\ Goto("wait")
    BY <1>5, Zenon DEF CreateVMUser
  <2>2. queue' = queue /\ work' \in Requests
    BY <2>1, GotoFacts, Zenon DEF Handling
  <2> QED
    BY <1>5, <2>2, Zenon DEF CreateVMUser, OwnType
<1>6. CASE VMUserCreated
  <2>1. At("wait") /\ (Goto("group") \/ Retry)
    BY <1>6, Zenon DEF VMUserCreated
  <2>2. CASE Goto("group")
    <3>1. queue' = queue /\ work' \in Requests
      BY <2>1, <2>2, GotoFacts, Zenon DEF Handling
    <3> QED
      BY <1>6, <3>1, Zenon DEF VMUserCreated, OwnType
  <2>3. CASE Retry
    <3>1. work' = None /\ queue' = queue \cup {work.r} /\ work.r \in Regionals
      BY <2>1, <2>3, WorkFacts, Zenon DEF At, Retry
    <3> QED
      BY <1>6, <3>1, Zenon DEF VMUserCreated, OwnType
  <2> QED
    BY <2>1, <2>2, <2>3, Zenon
<1>7. CASE CreateOrUpdatePromxyServerGroup
  <2>1. At("group") /\ (Goto("traces") \/ Retry)
    BY <1>7, Zenon DEF CreateOrUpdatePromxyServerGroup
  <2>2. CASE Goto("traces")
    <3>1. queue' = queue /\ work' \in Requests
      BY <2>1, <2>2, GotoFacts, Zenon DEF Handling
    <3> QED
      BY <1>7, <3>1, Zenon DEF CreateOrUpdatePromxyServerGroup, OwnType
  <2>3. CASE Retry
    <3>1. work' = None /\ queue' = queue \cup {work.r} /\ work.r \in Regionals
      BY <2>1, <2>3, WorkFacts, Zenon DEF At, Retry
    <3> QED
      BY <1>7, <3>1, Zenon DEF CreateOrUpdatePromxyServerGroup, OwnType
  <2> QED
    BY <2>1, <2>2, <2>3, Zenon
<1>8. ASSUME NEW s \in Sinks, work # None, work.step # "cleanup", PutConn(s)
      PROVE  conn' \in [Regionals \X Sinks -> Connections \cup {None}]
  <2>1. work.r \in Regionals /\ work.cm.uid \in Nat /\ work.cm.data \in Data
    BY <1>8, WorkFacts, Zenon
  <2>2. GetReadEndpoint(work.r, work.cm.data) \in Data \cup {LocalEndpoint}
    BY <2>1, SpecType, Zenon
  <2>3. <<work.r, s>> \in Regionals \X Sinks
    BY <2>1, <1>8, Zenon
  <2> DEFINE new == [owner |-> work.cm.uid, data |-> GetReadEndpoint(work.r, work.cm.data),
                     deleting |-> conn[<<work.r, s>>] # None /\ conn[<<work.r, s>>].deleting]
  <2>4. new \in Connections
    <3>1. (conn[<<work.r, s>>] # None /\ conn[<<work.r, s>>].deleting) \in BOOLEAN
      <4>1. CASE conn[<<work.r, s>>] = None
        BY <4>1, Zenon
      <4>2. CASE conn[<<work.r, s>>] # None
        BY <4>2, <2>3, Zenon DEF OwnType, Connections
      <4> QED
        BY <4>1, <4>2, Zenon
    <3> QED
      BY <2>1, <2>2, <3>1, Zenon DEF Connections
  <2>5. conn' = [conn EXCEPT ![<<work.r, s>>] = new]
    BY <1>8, Zenon DEF PutConn
  <2> HIDE DEF new
  <2> QED
    BY <2>3, <2>4, <2>5, Zenon DEF OwnType
<1>9. CASE CreateOrUpdateTracesStorageConnection
  <2>1. At("traces") /\ Goto("logs")
    BY <1>9, Zenon DEF CreateOrUpdateTracesStorageConnection
  <2>2. work # None /\ work.step = "traces" /\ queue' = queue /\ work' \in Requests
    BY <2>1, GotoFacts, Zenon DEF Handling
  <2>3. conn' \in [Regionals \X Sinks -> Connections \cup {None}]
    <3>1. UNCHANGED conn \/ PutConn("traces")
      BY <1>9, Zenon DEF CreateOrUpdateTracesStorageConnection
    <3> QED
      BY <3>1, <2>2, <1>8, Zenon DEF OwnType, Sinks
  <2> QED
    BY <1>9, <2>2, <2>3, Zenon DEF CreateOrUpdateTracesStorageConnection, OwnType
<1>10. CASE CreateOrUpdateLogsStorageConnection
  <2>1. At("logs") /\ Goto("audit")
    BY <1>10, Zenon DEF CreateOrUpdateLogsStorageConnection
  <2>2. work # None /\ work.step = "logs" /\ queue' = queue /\ work' \in Requests
    BY <2>1, GotoFacts, Zenon DEF Handling
  <2>3. conn' \in [Regionals \X Sinks -> Connections \cup {None}]
    <3>1. UNCHANGED conn \/ PutConn("logs")
      BY <1>10, Zenon DEF CreateOrUpdateLogsStorageConnection
    <3> QED
      BY <3>1, <2>2, <1>8, Zenon DEF OwnType, Sinks
  <2> QED
    BY <1>10, <2>2, <2>3, Zenon DEF CreateOrUpdateLogsStorageConnection, OwnType
<1>11. CASE CreateOrUpdateAuditLogsStorageConnection
  <2>1. work # None /\ work.step = "audit" /\ queue' = queue /\ work' = None
    BY <1>11, Zenon DEF CreateOrUpdateAuditLogsStorageConnection, At
  <2>3. conn' \in [Regionals \X Sinks -> Connections \cup {None}]
    <3>1. UNCHANGED conn \/ PutConn("audit")
      BY <1>11, Zenon DEF CreateOrUpdateAuditLogsStorageConnection
    <3> QED
      BY <3>1, <2>1, <1>8, Zenon DEF OwnType, Sinks
  <2> QED
    BY <1>11, <2>1, <2>3, Zenon DEF CreateOrUpdateAuditLogsStorageConnection, OwnType
<1>12. CASE CleanupVmRulesMcsPropagation
  <2>1. work # None /\ work' = None /\ (queue' = queue \/ queue' = queue \cup {work.r})
    BY <1>12, Zenon DEF CleanupVmRulesMcsPropagation, At, Retry
  <2>2. work.r \in Regionals
    BY <2>1, WorkFacts, Zenon
  <2> QED
    BY <1>12, <2>1, <2>2, Zenon DEF CleanupVmRulesMcsPropagation, OwnType
<1>13. CASE StepFails
  <2>1. work # None /\ work' = None /\ queue' = queue \cup {work.r}
    BY <1>13, Zenon DEF StepFails, Retry
  <2>2. work.r \in Regionals
    BY <2>1, WorkFacts, Zenon
  <2> QED
    BY <1>13, <2>1, <2>2, Zenon DEF StepFails, OwnType
<1>14. CASE CreateVMUserCredentials \/ ChildReturns \/ EditChild
  <2>1. children' \subseteq Children
    BY <1>14 DEF CreateVMUserCredentials, ChildReturns, EditChild, OwnType
  <2>2. UNCHANGED <<cm, uids, queue, work, rules, rulesMcs, conn, missed>>
    BY <1>14, Zenon DEF CreateVMUserCredentials, ChildReturns, EditChild
  <2> QED
    BY <2>1, <2>2, Zenon DEF OwnType
<1>15. CASE Collect
  <2>1. CASE UNCHANGED own
    BY <2>1, <1>1, Zenon
  <2>2. CASE /\ \E r \in Regionals : rules' = [rules EXCEPT ![r] = None]
             /\ UNCHANGED <<cm, uids, queue, work, children, rulesMcs, conn, missed>>
    BY <2>2, Zenon DEF OwnType
  <2>3. CASE /\ \E c \in DOMAIN conn : conn[c] # None /\ conn' = [conn EXCEPT ![c].deleting = TRUE]
             /\ UNCHANGED <<cm, uids, queue, work, children, rules, rulesMcs, missed>>
    <3>1. PICK c \in Regionals \X Sinks : conn[c] # None /\ conn' = [conn EXCEPT ![c].deleting = TRUE]
      BY <2>3, Zenon DEF OwnType
    <3>2. [conn[c] EXCEPT !.deleting = TRUE] \in Connections
      BY <3>1, Zenon DEF OwnType, Connections
    <3>3. conn' \in [Regionals \X Sinks -> Connections \cup {None}]
      BY <3>1, <3>2, Zenon DEF OwnType
    <3> QED
      BY <2>3, <3>3, Zenon DEF OwnType
  <2> QED
    BY <1>15, <2>1, <2>2, <2>3, Zenon DEF Collect
<1>16. CASE ReleaseConn
  BY <1>16, Zenon DEF ReleaseConn, OwnType
<1>17. CASE Edit
  <2>1. PICK r \in Regionals :
          /\ queue' = queue \cup {r}
          /\ \/ /\ uids' = [uids EXCEPT ![r] = @ + 1]
                /\ \E d \in Endpoints : cm' = [cm EXCEPT ![r] = [uid |-> uids'[r], data |-> d]]
             \/ /\ cm[r] # None /\ UNCHANGED uids
                /\ \E d \in Endpoints : cm' = [cm EXCEPT ![r].data = d]
             \/ cm' = [cm EXCEPT ![r] = None] /\ UNCHANGED uids
    BY <1>17, Zenon DEF Edit
  <2>2. uids' \in [Regionals -> Nat] /\ uids'[r] \in Nat
    BY <2>1 DEF OwnType
  <2>3. cm' \in [Regionals -> ConfigMaps \cup {None}]
    <3>1. CASE \E d \in Endpoints : cm' = [cm EXCEPT ![r] = [uid |-> uids'[r], data |-> d]]
      BY <3>1, <2>2 DEF OwnType, ConfigMaps, Data
    <3>2. CASE cm[r] # None /\ \E d \in Endpoints : cm' = [cm EXCEPT ![r].data = d]
      <4>1. PICK d \in Endpoints : cm' = [cm EXCEPT ![r].data = d]
        BY <3>2, Zenon
      <4>2. [cm[r] EXCEPT !.data = d] \in ConfigMaps
        BY <3>2 DEF OwnType, ConfigMaps, Data
      <4> QED
        BY <4>1, <4>2, Zenon DEF OwnType
    <3>3. CASE cm' = [cm EXCEPT ![r] = None]
      BY <3>3, Zenon DEF OwnType
    <3> QED
      BY <2>1, <3>1, <3>2, <3>3, Zenon
  <2>4. UNCHANGED <<work, children, rules, rulesMcs, conn, missed>> /\ queue' \subseteq Regionals
    BY <1>17, <2>1, Zenon DEF Edit, OwnType
  <2> QED
    BY <2>2, <2>3, <2>4, Zenon DEF OwnType
<1>18. CASE Restart
  <2>1. work' = None /\ queue' \subseteq Regionals /\ missed' \subseteq Regionals /\ children' \subseteq Children
    BY <1>18, Zenon DEF Restart, OwnType
  <2> QED
    BY <1>18, <2>1, Zenon DEF Restart, OwnType
<1>19. CASE ManagerCall \/ ManagerFails \/ PromxyStep \/ PromxyFails \/ PodStep \/ PodStops
  BY <1>19, <1>1, Zenon DEF ManagerCall, ManagerFails, PromxyStep, PromxyFails, PodStep, PodStops
<1> QED
  BY <1>2, <1>3, <1>4, <1>5, <1>6, <1>7, <1>9, <1>10, <1>11, <1>12, <1>13, <1>14, <1>15, <1>16,
     <1>17, <1>18, <1>19, Zenon DEF Next, Regional

\* The operation in progress for a user.
LEMMA JobFacts ==
  ASSUME UserType, NEW u \in Users, job[u] # None
  PROVE  /\ job[u] \in Jobs
         /\ job[u].owner \in Nat /\ job[u].pw \in Nat /\ job[u].ok \in BOOLEAN
         /\ job[u].op \in {"create", "delete"}
         /\ job[u].step \in {"secret", "copy", "vmuser", "mcs", "returned"}
  BY Zenon DEF UserType, Jobs

\* An operation enters, goes on, returns, or its outcome is taken.
LEMMA JobStep ==
  ASSUME UserType, NEW u \in Users
  PROVE  /\ \A o \in Nat : U!Create(u, o) => job' \in [Users -> Jobs \cup {None}]
         /\ U!Delete(u) => job' \in [Users -> Jobs \cup {None}]
         /\ U!Take(u) => job' \in [Users -> Jobs \cup {None}]
         /\ job[u] # None => \A ok \in BOOLEAN : U!Return(u, ok) => job' \in [Users -> Jobs \cup {None}]
         /\ job[u] # None => \A s \in {"copy", "secret", "vmuser", "mcs"} :
              U!Advance(u, s) => job' \in [Users -> Jobs \cup {None}]
<1>1. \A o \in Nat : U!Create(u, o) => job' \in [Users -> Jobs \cup {None}]
  <2> SUFFICES ASSUME NEW o \in Nat, U!Create(u, o) PROVE job' \in [Users -> Jobs \cup {None}]
    OBVIOUS
  <2>1. [op |-> "create", step |-> "secret", owner |-> o, pw |-> 0, ok |-> FALSE] \in Jobs
    BY Zenon DEF Jobs
  <2> QED
    BY <2>1, Zenon DEF UserType, U!Create
<1>2. U!Delete(u) => job' \in [Users -> Jobs \cup {None}]
  <2>1. [op |-> "delete", step |-> "mcs", owner |-> 0, pw |-> 0, ok |-> FALSE] \in Jobs
    BY Zenon DEF Jobs
  <2> QED
    BY <2>1, Zenon DEF UserType, U!Delete
<1>3. U!Take(u) => job' \in [Users -> Jobs \cup {None}]
  BY Zenon DEF UserType, U!Take
<1>4. ASSUME job[u] # None, NEW ok \in BOOLEAN, U!Return(u, ok) PROVE job' \in [Users -> Jobs \cup {None}]
  <2>1. [job[u] EXCEPT !.step = "returned", !.ok = ok] \in Jobs
    BY <1>4, Zenon DEF UserType, Jobs
  <2>2. job' = [job EXCEPT ![u] = [job[u] EXCEPT !.step = "returned", !.ok = ok]]
    BY <1>4, Zenon DEF U!Return, UserType
  <2> QED
    BY <2>1, <2>2, Zenon DEF UserType
<1>5. ASSUME job[u] # None, NEW s \in {"copy", "secret", "vmuser", "mcs"}, U!Advance(u, s)
      PROVE  job' \in [Users -> Jobs \cup {None}]
  <2>1. [job[u] EXCEPT !.step = s] \in Jobs
    BY <1>5, Zenon DEF UserType, Jobs
  <2>2. job' = [job EXCEPT ![u] = [job[u] EXCEPT !.step = s]]
    BY <1>5, Zenon DEF U!Advance
  <2> QED
    BY <2>1, <2>2, Zenon DEF UserType
<1> QED
  BY <1>1, <1>2, <1>3, <1>4, <1>5, Zenon

\* The credentials stay credentials.
LEMMA UserStep == TypeInv /\ Next => UserType'
<1> SUFFICES ASSUME TypeInv, Next PROVE UserType'
  OBVIOUS
<1> USE DEF TypeInv
<1>1. ASSUME UNCHANGED users PROVE UserType'
  BY <1>1, Zenon DEF UserType, users
<1>2. ASSUME job' \in [Users -> Jobs \cup {None}], UNCHANGED <<secret, copy, vmuser, mcs, minted>>
      PROVE  UserType'
  BY <1>2, Zenon DEF UserType
<1>3. CASE TakeRequest
  <2>1. PICK r \in queue : U!Delete(r) \/ UNCHANGED job
    BY <1>3, Zenon DEF TakeRequest
  <2>2. r \in Users
    BY <2>1, Sets, Zenon DEF OwnType
  <2>3. job' \in [Users -> Jobs \cup {None}]
    BY <2>1, <2>2, JobStep, Zenon DEF UserType
  <2> QED
    BY <1>3, <2>3, <1>2, Zenon DEF TakeRequest
<1>4. CASE CreateVMUser
  <2>1. work # None /\ work.step # "cleanup" /\ U!Create(work.r, work.cm.uid)
    BY <1>4, Zenon DEF CreateVMUser, At
  <2>2. work.r \in Users /\ work.cm.uid \in Nat
    BY <2>1, WorkFacts, Sets, Zenon
  <2>3. job' \in [Users -> Jobs \cup {None}]
    BY <2>1, <2>2, JobStep, Zenon
  <2> QED
    BY <1>4, <2>3, <1>2, Zenon DEF CreateVMUser
<1>5. CASE VMUserCreated \/ CleanupVmRulesMcsPropagation
  <2>1. work # None /\ U!Take(work.r) /\ UNCHANGED <<secret, copy, vmuser, mcs, minted>>
    BY <1>5, Zenon DEF VMUserCreated, CleanupVmRulesMcsPropagation, At
  <2>2. work.r \in Users
    BY <2>1, WorkFacts, Sets, Zenon
  <2>3. job' \in [Users -> Jobs \cup {None}]
    BY <2>1, <2>2, JobStep, Zenon
  <2> QED
    BY <2>1, <2>3, <1>2, Zenon
<1>6. CASE CreateVMUserCredentials
  <2>1. PICK c \in children : U!Create(c, 0)
    BY <1>6, Zenon DEF CreateVMUserCredentials
  <2>2. c \in Users
    BY <2>1, Sets, Zenon DEF OwnType
  <2>3. job' \in [Users -> Jobs \cup {None}]
    BY <2>1, <2>2, JobStep, Zenon
  <2> QED
    BY <1>6, <2>3, <1>2, Zenon DEF CreateVMUserCredentials
<1>7. CASE ChildReturns
  <2>1. PICK c \in Children : U!Take(c)
    BY <1>7, Zenon DEF ChildReturns
  <2>2. job' \in [Users -> Jobs \cup {None}]
    BY <2>1, JobStep, Sets, Zenon
  <2> QED
    BY <1>7, <2>2, <1>2, Zenon DEF ChildReturns
<1>8. CASE ManagerFails
  <2>1. PICK u \in Users : U!CallFails(u)
    BY <1>8, Zenon DEF ManagerFails
  <2>2. job[u] # None /\ U!Return(u, FALSE)
    BY <2>1, Zenon DEF U!CallFails
  <2>3. job' \in [Users -> Jobs \cup {None}]
    BY <2>2, JobStep, Zenon
  <2> QED
    BY <2>1, <2>3, <1>2, Zenon DEF U!CallFails
<1>9. CASE ManagerCall
  <2>1. PICK u \in Users : U!Call(u)
    BY <1>9, Zenon DEF ManagerCall
  <2>2. CASE U!CreateSecret(u)
    <3>1. PICK pw \in Nat :
            /\ minted' \in Nat
            /\ secret' = [secret EXCEPT ![u] = [pw |-> pw, owner |-> job[u].owner]]
            /\ job' = [job EXCEPT ![u].step = "copy", ![u].pw = pw]
      <4>1. (IF secret[u] = None THEN minted + 1 ELSE secret[u].pw) \in Nat
        BY DEF UserType, Secrets
      <4> QED
        BY <4>1, <2>2, Zenon DEF U!CreateSecret, UserType
    <3>2. job[u] # None
      BY <2>2, Zenon DEF U!CreateSecret, U!At
    <3>3. [job[u] EXCEPT !.step = "copy", !.pw = pw] \in Jobs /\ job[u].owner \in Nat
      BY <3>2, JobFacts, Zenon DEF Jobs
    <3>4. job' = [job EXCEPT ![u] = [job[u] EXCEPT !.step = "copy", !.pw = pw]]
      BY <3>1, Zenon DEF UserType
    <3>5. job' \in [Users -> Jobs \cup {None}]
      BY <3>3, <3>4, Zenon DEF UserType
    <3>6. secret' \in [Users -> Secrets \cup {None}]
      BY <3>1, <3>3, Zenon DEF UserType, Secrets
    <3> QED
      BY <2>2, <3>1, <3>5, <3>6, Zenon DEF UserType, U!CreateSecret
  <2>3. CASE U!CopySecret(u)
    <3>1. job[u] # None /\ U!Advance(u, "vmuser")
      BY <2>3, Zenon DEF U!CopySecret, U!At
    <3>2. job' \in [Users -> Jobs \cup {None}] /\ job[u].pw \in Nat
      BY <3>1, JobStep, JobFacts, Zenon
    <3> QED
      BY <2>3, <3>2, Zenon DEF U!CopySecret, UserType
  <2>4. CASE U!createOrUpdateVMUser(u)
    <3>1. job[u] # None /\ (U!Advance(u, "mcs") \/ U!Return(u, TRUE))
      BY <2>4, Zenon DEF U!createOrUpdateVMUser, U!At
    <3>2. job' \in [Users -> Jobs \cup {None}] /\ job[u].owner \in Nat
      BY <3>1, JobStep, JobFacts, Zenon
    <3>3. [targets |-> U!buildTargetRefs(Config[u]), owner |-> job[u].owner] \in VMUsers
      BY <3>2, Zenon DEF VMUsers
    <3>4. vmuser' = [vmuser EXCEPT ![u] = [targets |-> U!buildTargetRefs(Config[u]), owner |-> job[u].owner]]
      BY <2>4, Zenon DEF U!createOrUpdateVMUser
    <3>5. vmuser' \in [Users -> VMUsers \cup {None}]
      BY <3>3, <3>4, Zenon DEF UserType
    <3> QED
      BY <2>4, <3>2, <3>5, Zenon DEF U!createOrUpdateVMUser, UserType
  <2>5. CASE U!createOrUpdatePropagationMCS(u)
    <3>1. job[u] # None /\ U!Return(u, TRUE)
      BY <2>5, Zenon DEF U!createOrUpdatePropagationMCS, U!At
    <3>2. job' \in [Users -> Jobs \cup {None}]
      BY <3>1, JobStep, Zenon
    <3> QED
      BY <2>5, <3>2, Zenon DEF U!createOrUpdatePropagationMCS, UserType
  <2>6. CASE U!DeleteMCS(u) \/ U!DeleteVMUser(u) \/ U!DeleteSecret(u) \/ U!DeleteCopy(u)
    <3>1. job[u] # None
      BY <2>6, Zenon DEF U!DeleteMCS, U!DeleteVMUser, U!DeleteSecret, U!DeleteCopy, U!At
    <3>2. U!Advance(u, "vmuser") \/ U!Advance(u, "secret") \/ U!Advance(u, "copy") \/ U!Return(u, TRUE)
      BY <2>6, Zenon DEF U!DeleteMCS, U!DeleteVMUser, U!DeleteSecret, U!DeleteCopy
    <3>3. job' \in [Users -> Jobs \cup {None}]
      BY <3>1, <3>2, JobStep, Zenon
    <3> QED
      BY <2>6, <3>3, Zenon DEF UserType, U!DeleteMCS, U!DeleteVMUser, U!DeleteSecret, U!DeleteCopy
  <2> QED
    BY <2>1, <2>2, <2>3, <2>4, <2>5, <2>6, Zenon DEF U!Call
<1>10. CASE Collect
  <2>1. CASE UNCHANGED users
    BY <2>1, <1>1, Zenon
  <2>2. CASE \E r \in Regionals : U!CollectCredentials(r, Alive(r))
    <3>1. PICK r \in Regionals : U!CollectCredentials(r, Alive(r))
      BY <2>2, Zenon
    <3> QED
      BY <3>1, Sets, Zenon DEF U!CollectCredentials, UserType
  <2> QED
    BY <1>10, <2>1, <2>2, Zenon DEF Collect
<1>11. CASE Restart
  <2>1. job' \in [Users -> Jobs \cup {None}]
    BY <1>11, Zenon DEF Restart
  <2> QED
    BY <1>11, <2>1, <1>2, Zenon DEF Restart
<1>12. CASE CreateVmRulesConfigMap \/ CreateOrUpdateMcsForVmRulesPropagation
            \/ CreateOrUpdatePromxyServerGroup \/ CreateOrUpdateTracesStorageConnection
            \/ CreateOrUpdateLogsStorageConnection \/ CreateOrUpdateAuditLogsStorageConnection
            \/ StepFails \/ EditChild \/ Edit \/ ReleaseConn
  BY <1>12, <1>1, Zenon DEF CreateVmRulesConfigMap, CreateOrUpdateMcsForVmRulesPropagation,
     CreateOrUpdatePromxyServerGroup, CreateOrUpdateTracesStorageConnection,
     CreateOrUpdateLogsStorageConnection, CreateOrUpdateAuditLogsStorageConnection,
     StepFails, EditChild, Edit, ReleaseConn
<1>13. CASE PromxyStep \/ PromxyFails \/ PodStep \/ PodStops
  BY <1>13, <1>1, Zenon DEF PromxyStep, PromxyFails, PodStep, PodStops
<1> QED
  BY <1>3, <1>4, <1>5, <1>6, <1>7, <1>8, <1>9, <1>10, <1>11, <1>12, <1>13, Zenon DEF Next, Regional

\* The rendering in progress.
LEMMA RecFacts ==
  ASSUME PromxyType, rec # None
  PROVE  /\ rec \in Renderings
         /\ rec.step \in {"next", "write", "reload"}
         /\ rec.groups \in [Regionals -> GroupObjects \cup {None}]
         /\ rec.left \subseteq {File}
  BY Zenon DEF PromxyType, Renderings, File

\* Every group names the Secret the pods mount.
LEMMA Named ==
  \A gs \in [Regionals -> GroupObjects \cup {None}] :
    P!NamedBy(gs, File) = {g \in Regionals : gs[g] # None}
  BY Zenon DEF P!NamedBy, GroupObjects, File

\* A configuration has a spec and a password for every group.
LEMMA RenderType ==
  ASSUME PromxyType, UserType, NEW gs \in [Regionals -> GroupObjects \cup {None}],
         \A g \in P!NamedBy(gs, File) : copy[gs[g].cred] # None
  PROVE  P!RenderMetricsSecretTemplate(gs, File) \in Configurations
<1> DEFINE S == {g \in Regionals : gs[g] # None}
<1>1. P!NamedBy(gs, File) = S /\ S \in SUBSET Regionals
  BY Named, Zenon
<1>2. \A g \in S : P!PromxyConfigServerGroup(gs, g) \in [spec : Specs, pw : Nat]
  <2> TAKE g \in S
  <2>1. gs[g] \in GroupObjects /\ copy[gs[g].cred] # None
    BY <1>1, Zenon
  <2>2. gs[g].cred \in Users /\ gs[g].spec \in Specs
    BY <2>1, Sets, Zenon DEF GroupObjects
  <2>3. copy[gs[g].cred] \in Nat
    BY <2>1, <2>2, Zenon DEF UserType
  <2> QED
    BY <2>2, <2>3, Zenon DEF P!PromxyConfigServerGroup
<1>3. P!RenderMetricsSecretTemplate(gs, File) \in [S -> [spec : Specs, pw : Nat]]
  BY <1>1, <1>2, Zenon DEF P!RenderMetricsSecretTemplate
<1> QED
  BY <1>1, <1>3, Zenon DEF Configurations

\* The groups, and what Promxy is configured with, keep their form.
LEMMA PromxyTypeStep == TypeInv /\ Next => PromxyType'
<1> SUFFICES ASSUME TypeInv, Next PROVE PromxyType'
  OBVIOUS
<1> USE DEF TypeInv
<1>1. ASSUME UNCHANGED promxy PROVE PromxyType'
  BY <1>1, Zenon DEF PromxyType, promxy
<1>2. ASSUME P!Fail \/ P!FailQuietly, UNCHANGED <<group, config, running, mounted>>,
             loaded' = [p \in Pods |-> loaded'[p]]
      PROVE  PromxyType'
  BY <1>2, Zenon DEF P!Fail, P!FailQuietly, PromxyType
<1>3. CASE CreateOrUpdatePromxyServerGroup
  <2>1. CASE UNCHANGED promxy
    BY <2>1, <1>1, Zenon
  <2>2. CASE P!PutGroup(work.r, [secretName |-> "promxy-config", cred |-> work.r,
                                 spec |-> Target(work.r, work.cm.data), owner |-> work.cm.uid])
    <3>1. work.r \in Regionals /\ work.cm.uid \in Nat /\ work.cm.data \in Data
      BY <1>3, WorkFacts, Zenon DEF CreateOrUpdatePromxyServerGroup, At
    <3>2. [secretName |-> "promxy-config", cred |-> work.r,
           spec |-> Target(work.r, work.cm.data), owner |-> work.cm.uid] \in GroupObjects
      BY <3>1, SpecType, Zenon DEF GroupObjects
    <3>3. group' \in [Regionals -> GroupObjects \cup {None}]
      BY <3>1, <3>2, <2>2, Zenon DEF PromxyType, P!PutGroup
    <3>4. asked' \in BOOLEAN
      BY <2>2, Zenon DEF P!PutGroup
    <3> QED
      BY <2>2, <3>3, <3>4, Zenon DEF PromxyType, P!PutGroup
  <2> QED
    BY <1>3, <2>1, <2>2, Zenon DEF CreateOrUpdatePromxyServerGroup
<1>4. CASE Collect
  <2>1. CASE UNCHANGED promxy
    BY <2>1, <1>1
  <2>2. CASE \E r \in Regionals : P!CollectGroup(r, Alive(r))
    <3>1. PICK r \in Regionals : P!PutGroup(r, None)
      BY <2>2, Zenon DEF P!CollectGroup
    <3> QED
      BY <3>1, Zenon DEF PromxyType, P!PutGroup
  <2> QED
    BY <1>4, <2>1, <2>2, Zenon DEF Collect
<1>5. CASE PromxyStep
  <2>1. CASE P!Begin
    <3>1. rec' = [step |-> "next", groups |-> group,
                  left |-> {n \in {File} : P!NamedBy(group, n) # {}}, name |-> None, data |-> None]
      BY <2>1, Zenon DEF P!Begin, File
    <3>2. rec' \in Renderings
      BY <3>1, Zenon DEF PromxyType, Renderings, File
    <3> QED
      BY <2>1, <3>2, Zenon DEF P!Begin, PromxyType
  <2>2. CASE P!Render
    <3>1. PICK n \in rec.left :
            IF \E g \in P!NamedBy(rec.groups, n) : copy[rec.groups[g].cred] = None
            THEN P!Fail
            ELSE /\ rec' = [rec EXCEPT !.step = "write", !.left = @ \ {n}, !.name = n,
                                       !.data = P!RenderMetricsSecretTemplate(rec.groups, n)]
                 /\ UNCHANGED asked
      BY <2>2, Zenon DEF P!Render
    <3>2. rec # None /\ n = File
      BY <2>2, RecFacts, Zenon DEF P!Render
    <3>3. CASE P!Fail
      BY <2>2, <3>3, <1>2, Zenon DEF P!Render, PromxyType
    <3>4. CASE ~\E g \in P!NamedBy(rec.groups, n) : copy[rec.groups[g].cred] = None
      <4>1. P!RenderMetricsSecretTemplate(rec.groups, n) \in Configurations
        BY <3>2, <3>4, RecFacts, RenderType, Zenon
      <4>2. PICK d \in Configurations :
              rec' = [rec EXCEPT !.step = "write", !.left = @ \ {n}, !.name = n, !.data = d] /\ UNCHANGED asked
        BY <3>1, <3>4, <4>1, Zenon
      <4>3. rec' \in Renderings
        BY <4>2, <3>2, RecFacts, Zenon DEF Renderings, File
      <4> QED
        BY <2>2, <4>2, <4>3, Zenon DEF P!Render, PromxyType
    <3> QED
      BY <3>1, <3>3, <3>4, Zenon
  <2>3. CASE P!Write
    <3>1. rec' \in Renderings
      BY <2>3, RecFacts, Zenon DEF P!Write, Renderings
    <3>2. config' = [n \in {File} |-> config'[n]]
      BY <2>3, Zenon DEF P!Write, PromxyType
    <3> QED
      BY <2>3, <3>1, <3>2, Zenon DEF P!Write, PromxyType
  <2>4. CASE P!Reload({})
    <3>1. loaded' = [p \in Pods |-> loaded'[p]]
      BY <2>4, Zenon DEF P!Reload
    <3>2. CASE P!Fail
      BY <2>4, <3>1, <3>2, <1>2, Zenon DEF P!Reload
    <3>3. CASE rec' = [rec EXCEPT !.step = "next"] /\ UNCHANGED asked
      <4>1. rec' \in Renderings
        BY <2>4, <3>3, RecFacts, Zenon DEF P!Reload, Renderings
      <4> QED
        BY <2>4, <3>1, <3>3, <4>1, Zenon DEF P!Reload, PromxyType
    <3> QED
      BY <2>4, <3>2, <3>3, Zenon DEF P!Reload
  <2>5. CASE P!End
    BY <2>5, Zenon DEF P!End, PromxyType
  <2> QED
    BY <1>5, <2>1, <2>2, <2>3, <2>4, <2>5, Zenon DEF PromxyStep, P!Reconcile
<1>6. CASE PromxyFails
  <2>1. CASE P!Interrupt
    BY <2>1, <1>2, Zenon DEF P!Interrupt, PromxyType
  <2>2. CASE \E bad \in SUBSET Pods : bad # {} /\ P!Reload(bad)
    BY <2>2, <1>2, Zenon DEF P!Reload, PromxyType
  <2> QED
    BY <1>6, <2>1, <2>2, Zenon DEF PromxyFails
<1>7. CASE PodStep \/ PodStops
  <2>1. PICK p \in Pods : P!Refresh(p) \/ P!PodStarts(p) \/ P!PodStops(p)
    BY <1>7, Zenon DEF PodStep, PodStops
  <2>2. mounted' = [q \in Pods |-> mounted'[q]] /\ loaded' = [q \in Pods |-> loaded'[q]]
    BY <2>1, Zenon DEF P!Refresh, P!PodStarts, P!PodStops, PromxyType
  <2>3. running' \subseteq Pods /\ UNCHANGED <<group, config, asked, rec>>
    BY <2>1, Zenon DEF P!Refresh, P!PodStarts, P!PodStops, PromxyType
  <2> QED
    BY <2>2, <2>3, Zenon DEF PromxyType
<1>8. CASE Restart
  BY <1>8, Zenon DEF Restart, PromxyType
<1>9. CASE TakeRequest \/ CreateVmRulesConfigMap \/ CreateOrUpdateMcsForVmRulesPropagation
           \/ CreateVMUser \/ VMUserCreated \/ CreateOrUpdateTracesStorageConnection
           \/ CreateOrUpdateLogsStorageConnection \/ CreateOrUpdateAuditLogsStorageConnection
           \/ CleanupVmRulesMcsPropagation \/ StepFails \/ EditChild \/ Edit \/ ReleaseConn
  BY <1>9, <1>1, Zenon DEF TakeRequest, CreateVmRulesConfigMap, CreateOrUpdateMcsForVmRulesPropagation,
     CreateVMUser, VMUserCreated, CreateOrUpdateTracesStorageConnection,
     CreateOrUpdateLogsStorageConnection, CreateOrUpdateAuditLogsStorageConnection,
     CleanupVmRulesMcsPropagation, StepFails, EditChild, Edit, ReleaseConn
<1>10. CASE CreateVMUserCredentials \/ ChildReturns \/ ManagerCall \/ ManagerFails
  BY <1>10, <1>1, Zenon DEF CreateVMUserCredentials, ChildReturns, ManagerCall, ManagerFails
<1> QED
  BY <1>3, <1>4, <1>5, <1>6, <1>7, <1>8, <1>9, <1>10, Zenon DEF Next, Regional

\* Every step keeps the types.
LEMMA TypeStep == TypeInv /\ [Next]_vars => TypeInv'
<1>1. ASSUME TypeInv, UNCHANGED vars PROVE TypeInv'
  BY <1>1, Zenon DEF vars, own, users, promxy, TypeInv, OwnType, UserType, PromxyType
<1> QED
  BY <1>1, OwnStep, UserStep, PromxyTypeStep, Zenon DEF TypeInv

----------------------------------------------------------------------------
(* Tenants.                                                                *)

\* Only one action writes a VMUser, and it writes all of it.
LEMMA ConfinedStep == TypeInv /\ Confined /\ [Next]_vars => Confined'
<1> SUFFICES ASSUME TypeInv, Confined, [Next]_vars PROVE Confined'
  OBVIOUS
<1>1. CASE UNCHANGED vmuser
  BY <1>1, Zenon DEF Confined
<1>2. CASE ManagerCall
  <2>1. PICK u \in Users : U!Call(u)
    BY <1>2, Zenon DEF ManagerCall
  <2>2. CASE U!createOrUpdateVMUser(u)
    <3>1. vmuser' = [vmuser EXCEPT ![u] = [targets |-> U!buildTargetRefs(Config[u]), owner |-> job[u].owner]]
      BY <2>2, Zenon DEF U!createOrUpdateVMUser
    <3> QED
      BY <3>1, Zenon DEF TypeInv, UserType, Confined
  <2>3. CASE U!DeleteVMUser(u)
    BY <2>3, Zenon DEF U!DeleteVMUser, TypeInv, UserType, Confined
  <2>4. CASE UNCHANGED vmuser
    BY <2>4, <1>1, Zenon
  <2> QED
    BY <2>1, <2>2, <2>3, <2>4, Zenon
    DEF U!Call, U!CreateSecret, U!CopySecret, U!createOrUpdatePropagationMCS, U!DeleteMCS,
        U!DeleteSecret, U!DeleteCopy
<1>3. CASE \E r \in Regionals : U!CollectCredentials(r, Alive(r))
  BY <1>3, <1>1, Zenon DEF U!CollectCredentials, TypeInv, UserType, Confined
<1>4. ASSUME ~ManagerCall, ~\E r \in Regionals : U!CollectCredentials(r, Alive(r))
      PROVE  UNCHANGED vmuser
  <2>1. CASE UNCHANGED vars
    BY <2>1, Zenon DEF vars, users
  <2>2. CASE Regional
    BY <2>2, Zenon DEF Regional, TakeRequest, CreateVmRulesConfigMap, CreateOrUpdateMcsForVmRulesPropagation,
       CreateVMUser, VMUserCreated, CreateOrUpdatePromxyServerGroup,
       CreateOrUpdateTracesStorageConnection, CreateOrUpdateLogsStorageConnection,
       CreateOrUpdateAuditLogsStorageConnection, CleanupVmRulesMcsPropagation, users
  <2>3. CASE CreateVMUserCredentials \/ ChildReturns \/ ManagerFails
    BY <2>3, Zenon DEF CreateVMUserCredentials, ChildReturns, ManagerFails, U!CallFails
  <2>4. CASE PromxyStep \/ PromxyFails \/ PodStep \/ PodStops \/ ReleaseConn \/ StepFails \/ EditChild
             \/ Edit \/ Restart
    BY <2>4, Zenon DEF PromxyStep, PromxyFails, PodStep, PodStops, ReleaseConn, StepFails, EditChild, Edit,
       Restart, users
  <2>5. CASE Collect
    BY <2>5, <1>4, Zenon DEF Collect, users
  <2> QED
    BY <1>4, <2>1, <2>2, <2>3, <2>4, <2>5, Zenon DEF Next
<1> QED
  BY <1>1, <1>2, <1>3, <1>4, Zenon

\* A VMUser as configured confines its tenant, whatever the path.
LEMMA ConfinedTargets ==
  ASSUME NEW cfg, cfg # None, NEW p \in U!Paths
  PROVE  LET args == U!buildTargetRefs(cfg)[p]
         IN  IF p[2] = "insert"
             THEN \E a \in args : a[1][2] = cfg.label[1] /\ a[2] = cfg.label[2]
             ELSE \A k \in DOMAIN cfg.filters : \E a \in args : a[1][2] = k /\ a[2] = cfg.filters[k]
<1>1. U!buildTargetRefs(cfg)[p] = IF p[2] = "insert" THEN U!applyExtraLabel(p[1], cfg)
                                  ELSE U!applyExtraFilters(p[1], cfg)
  BY Zenon DEF U!buildTargetRefs, U!buildQueryArgs
<1>2. \A b, k : U!KeyOf(b, k)[2] = k
  BY Zenon DEF U!KeyOf
<1>3. CASE p[2] = "insert"
  <2>1. <<U!KeyOf(p[1], cfg.label[1]), cfg.label[2]>> \in U!buildTargetRefs(cfg)[p]
    BY <1>1, <1>3, Zenon DEF U!applyExtraLabel
  <2> QED
    BY <1>2, <1>3, <2>1
<1>4. CASE p[2] # "insert"
  <2>1. ASSUME NEW k \in DOMAIN cfg.filters
        PROVE  <<U!KeyOf(p[1], k), cfg.filters[k]>> \in U!buildTargetRefs(cfg)[p]
    BY <1>1, <1>4, Zenon DEF U!applyExtraFilters
  <2> QED
    BY <1>2, <1>4, <2>1, ZenonT(60)
<1> QED
  BY <1>3, <1>4, Zenon

\* A tenant's user stamps the tenant on everything it writes and filters everything it
\* reads, on every backend, at all times (buildTargetRefs, createOrUpdateVMUser).
THEOREM TenantConfinedHolds == Spec => []TenantConfined
<1>1. Init => TypeInv /\ Confined
  BY InitType, Zenon DEF Init, U!VMUserInit, Confined
<1>2. TypeInv /\ Confined /\ [Next]_vars => TypeInv' /\ Confined'
  BY TypeStep, ConfinedStep, Zenon
<1>3. Confined => TenantConfined
  BY ConfinedTargets, SMTT(20) DEF Confined, TenantConfined, U!TenantConfined
<1> QED
  BY <1>1, <1>2, <1>3, PTL DEF Spec

----------------------------------------------------------------------------
(* Which steps change what.                                                *)

\* The reconciliation in progress goes on, ends or begins.
LEMMA WorkStep ==
  ASSUME TypeInv, [Next]_vars
  PROVE  \/ UNCHANGED work
         \/ /\ work # None /\ work' = None /\ UNCHANGED <<cm, uids>>
            /\ \/ work.r \in queue' \/ Restart \/ CleanupVmRulesMcsPropagation
               \/ CreateOrUpdateAuditLogsStorageConnection
         \/ TakeRequest
         \/ /\ work # None /\ work' # None /\ work'.r = work.r /\ work'.cm = work.cm
            /\ work.cm # None /\ work'.step \in Handling /\ UNCHANGED <<cm, uids, queue>>
<1> USE DEF TypeInv
<1>1. CASE CreateVmRulesConfigMap
  BY <1>1, GotoFacts, Zenon DEF CreateVmRulesConfigMap, Handling
<1>2. CASE CreateOrUpdateMcsForVmRulesPropagation
  BY <1>2, GotoFacts, Zenon DEF CreateOrUpdateMcsForVmRulesPropagation, Handling
<1>3. CASE CreateVMUser
  BY <1>3, GotoFacts, Zenon DEF CreateVMUser, Handling
<1>4. CASE VMUserCreated
  <2>1. At("wait") /\ (Goto("group") \/ Retry) /\ UNCHANGED <<cm, uids>>
    BY <1>4, Zenon DEF VMUserCreated
  <2> QED
    BY <2>1, GotoFacts, Zenon DEF Handling, Retry, At
<1>5. CASE CreateOrUpdatePromxyServerGroup
  <2>1. At("group") /\ (Goto("traces") \/ Retry) /\ UNCHANGED <<cm, uids>>
    BY <1>5, Zenon DEF CreateOrUpdatePromxyServerGroup
  <2> QED
    BY <2>1, GotoFacts, Zenon DEF Handling, Retry, At
<1>6. CASE CreateOrUpdateTracesStorageConnection
  BY <1>6, GotoFacts, Zenon DEF CreateOrUpdateTracesStorageConnection, Handling
<1>7. CASE CreateOrUpdateLogsStorageConnection
  BY <1>7, GotoFacts, Zenon DEF CreateOrUpdateLogsStorageConnection, Handling
<1>8. CASE CreateOrUpdateAuditLogsStorageConnection \/ CleanupVmRulesMcsPropagation \/ StepFails
  BY <1>8, Zenon DEF CreateOrUpdateAuditLogsStorageConnection, CleanupVmRulesMcsPropagation, StepFails, At, Retry
<1>9. CASE Restart
  BY <1>9, Zenon DEF Restart
<1>10. CASE UNCHANGED vars \/ ManagerCall \/ ManagerFails \/ PromxyStep \/ PromxyFails \/ PodStep \/ PodStops
  BY <1>10, Zenon DEF vars, own, ManagerCall, ManagerFails, PromxyStep, PromxyFails, PodStep, PodStops
<1>11. CASE CreateVMUserCredentials \/ ChildReturns \/ Collect \/ ReleaseConn \/ EditChild \/ Edit
  BY <1>11, Zenon DEF own, CreateVMUserCredentials, ChildReturns, Collect, ReleaseConn, EditChild, Edit
<1> QED
  BY <1>1, <1>2, <1>3, <1>4, <1>5, <1>6, <1>7, <1>8, <1>9, <1>10, <1>11, Zenon DEF Next, Regional

\* An edit creates a ConfigMap under a new uid, changes its data, or deletes it.
EditTo(r) ==
  /\ queue' = queue \cup {r}
  /\ \A q \in Regionals \ {r} : cm'[q] = cm[q] /\ uids'[q] = uids[q]
  /\ \/ cm[r] = None /\ uids'[r] = uids[r] + 1 /\ cm'[r] # None /\ cm'[r].uid = uids'[r]
     \/ cm[r] # None /\ uids'[r] = uids[r] /\ cm'[r] # None /\ cm'[r].uid = cm[r].uid
     \/ cm[r] # None /\ uids'[r] = uids[r] /\ cm'[r] = None
  /\ UNCHANGED <<work, children, rules, rulesMcs, conn, missed, users, promxy>>

\* The ConfigMaps change only by an edit, which is an event for their controller.
LEMMA CmStep ==
  ASSUME TypeInv, [Next]_vars
  PROVE  UNCHANGED <<cm, uids>> \/ \E r \in Regionals : EditTo(r)
<1> USE DEF TypeInv
<1>1. CASE Edit
  <2>1. PICK r \in Regionals :
       /\ queue' = queue \cup {r}
       /\ \/ /\ cm[r] = None /\ uids' = [uids EXCEPT ![r] = @ + 1]
             /\ \E d \in Endpoints : cm' = [cm EXCEPT ![r] = [uid |-> uids'[r], data |-> d]]
          \/ /\ cm[r] # None /\ UNCHANGED uids
             /\ \E d \in Endpoints : cm' = [cm EXCEPT ![r].data = d]
          \/ cm[r] # None /\ cm' = [cm EXCEPT ![r] = None] /\ UNCHANGED uids
    BY <1>1, Zenon DEF Edit
  <2>2. UNCHANGED <<work, children, rules, rulesMcs, conn, missed, users, promxy>>
    BY <1>1, Zenon DEF Edit
  <2>3. CASE cm[r] = None /\ uids' = [uids EXCEPT ![r] = @ + 1]
    <3>1. PICK d \in Endpoints : cm' = [cm EXCEPT ![r] = [uid |-> uids'[r], data |-> d]]
      BY <2>1, <2>3, Zenon
    <3>2. cm'[r] = [uid |-> uids'[r], data |-> d] /\ uids'[r] = uids[r] + 1
      BY <2>3, <3>1, Zenon DEF OwnType
    <3>3. [uid |-> uids'[r], data |-> d] \in ConfigMaps
      BY <2>3, <3>2, SMTT(20) DEF OwnType, ConfigMaps, Data
    <3>4. \A q \in Regionals \ {r} : cm'[q] = cm[q] /\ uids'[q] = uids[q]
      BY <2>3, <3>1, Zenon DEF OwnType
    <3> QED
      BY <2>1, <2>2, <2>3, <3>2, <3>3, <3>4, NoneAssumption DEF EditTo
  <2>4. CASE /\ cm[r] # None /\ UNCHANGED uids
             /\ \E d \in Endpoints : cm' = [cm EXCEPT ![r].data = d]
    <3>1. PICK d \in Endpoints : cm' = [cm EXCEPT ![r].data = d]
      BY <2>4, Zenon
    <3>2. cm[r] \in ConfigMaps /\ cm'[r] = [cm[r] EXCEPT !.data = d]
      BY <2>4, <3>1, Zenon DEF OwnType
    <3>3. cm'[r] \in ConfigMaps /\ cm'[r].uid = cm[r].uid
      BY <3>2, Zenon DEF ConfigMaps, Data
    <3>4. \A q \in Regionals \ {r} : cm'[q] = cm[q] /\ uids'[q] = uids[q]
      BY <2>4, <3>1, Zenon DEF OwnType
    <3> QED
      BY <2>1, <2>2, <2>4, <3>3, <3>4, NoneAssumption, Zenon DEF EditTo
  <2>5. CASE cm[r] # None /\ cm' = [cm EXCEPT ![r] = None] /\ UNCHANGED uids
    BY <2>1, <2>2, <2>5, Zenon DEF EditTo, OwnType
  <2> QED
    BY <2>1, <2>3, <2>4, <2>5, Zenon
<1>2. CASE UNCHANGED vars \/ ManagerCall \/ ManagerFails \/ PromxyStep \/ PromxyFails \/ PodStep \/ PodStops
  BY <1>2, Zenon DEF vars, own, ManagerCall, ManagerFails, PromxyStep, PromxyFails, PodStep, PodStops
<1>3. CASE CreateVMUserCredentials \/ ChildReturns \/ Collect \/ ReleaseConn \/ EditChild \/ StepFails \/ Restart
  BY <1>3, Zenon DEF own, CreateVMUserCredentials, ChildReturns, Collect, ReleaseConn, EditChild, StepFails, Restart
<1>4. CASE Regional
  BY <1>4, Zenon DEF Regional, TakeRequest, CreateVmRulesConfigMap, CreateOrUpdateMcsForVmRulesPropagation,
     CreateVMUser, VMUserCreated, CreateOrUpdatePromxyServerGroup,
     CreateOrUpdateTracesStorageConnection, CreateOrUpdateLogsStorageConnection,
     CreateOrUpdateAuditLogsStorageConnection, CleanupVmRulesMcsPropagation
<1> QED
  BY <1>1, <1>2, <1>3, <1>4, Zenon DEF Next

\* The Secret, the VMUser and the copy are written by the manager and the collector alone.
LEMMA UsersStep ==
  ASSUME [Next]_vars
  PROVE  \/ UNCHANGED <<secret, copy, vmuser, mcs>>
         \/ ManagerCall
         \/ (\E r \in Regionals : U!CollectCredentials(r, Alive(r))) /\ UNCHANGED <<own, promxy>>
<1>1. CASE UNCHANGED vars
  BY <1>1, Zenon DEF vars, users
<1>2. CASE Regional
  BY <1>2, Zenon DEF Regional, TakeRequest, CreateVmRulesConfigMap, CreateOrUpdateMcsForVmRulesPropagation,
     CreateVMUser, VMUserCreated, CreateOrUpdatePromxyServerGroup,
     CreateOrUpdateTracesStorageConnection, CreateOrUpdateLogsStorageConnection,
     CreateOrUpdateAuditLogsStorageConnection, CleanupVmRulesMcsPropagation, users
<1>3. CASE CreateVMUserCredentials \/ ChildReturns \/ ManagerFails
  BY <1>3, Zenon DEF CreateVMUserCredentials, ChildReturns, ManagerFails, U!CallFails
<1>4. CASE PromxyStep \/ PromxyFails \/ PodStep \/ PodStops \/ ReleaseConn \/ StepFails \/ EditChild
           \/ Edit \/ Restart
  BY <1>4, Zenon DEF PromxyStep, PromxyFails, PodStep, PodStops, ReleaseConn, StepFails, EditChild, Edit,
     Restart, users
<1>5. CASE Collect
  BY <1>5, Zenon DEF Collect, users
<1> QED
  BY <1>1, <1>2, <1>3, <1>4, <1>5, Zenon DEF Next

\* The groups are written by their own step and by the collector.
LEMMA GroupStep ==
  ASSUME [Next]_vars
  PROVE  \/ UNCHANGED group
         \/ /\ At("group") /\ Target(work.r, work.cm.data)[2] # None
            /\ P!PutGroup(work.r, [secretName |-> "promxy-config", cred |-> work.r,
                                   spec |-> Target(work.r, work.cm.data), owner |-> work.cm.uid])
            /\ Goto("traces") /\ UNCHANGED <<cm, uids, users>>
         \/ \E r \in Regionals :
              /\ group[r] # None /\ group[r].owner \notin Alive(r)
              /\ P!PutGroup(r, None) /\ UNCHANGED <<own, users>>
<1>1. CASE UNCHANGED vars
  BY <1>1, Zenon DEF vars, promxy
<1>2. CASE CreateOrUpdatePromxyServerGroup
  BY <1>2, Zenon DEF CreateOrUpdatePromxyServerGroup, promxy
<1>3. CASE TakeRequest \/ CreateVmRulesConfigMap \/ CreateOrUpdateMcsForVmRulesPropagation
           \/ CreateVMUser \/ VMUserCreated \/ CreateOrUpdateTracesStorageConnection
           \/ CreateOrUpdateLogsStorageConnection \/ CreateOrUpdateAuditLogsStorageConnection
           \/ CleanupVmRulesMcsPropagation \/ StepFails \/ EditChild \/ Edit \/ ReleaseConn \/ Restart
  BY <1>3, Zenon DEF TakeRequest, CreateVmRulesConfigMap, CreateOrUpdateMcsForVmRulesPropagation,
     CreateVMUser, VMUserCreated, CreateOrUpdateTracesStorageConnection,
     CreateOrUpdateLogsStorageConnection, CreateOrUpdateAuditLogsStorageConnection,
     CleanupVmRulesMcsPropagation, StepFails, EditChild, Edit, ReleaseConn, Restart, promxy
<1>4. CASE CreateVMUserCredentials \/ ChildReturns \/ ManagerCall \/ ManagerFails
  BY <1>4, Zenon DEF CreateVMUserCredentials, ChildReturns, ManagerCall, ManagerFails, promxy
<1>5. CASE PromxyStep \/ PromxyFails
  BY <1>5, Zenon DEF PromxyStep, PromxyFails, P!Reconcile, P!Begin, P!Render, P!Write, P!Reload, P!End, P!Interrupt
<1>6. CASE PodStep \/ PodStops
  BY <1>6, Zenon DEF PodStep, PodStops, P!Refresh, P!PodStarts, P!PodStops
<1>7. CASE Collect
  BY <1>7, Zenon DEF Collect, P!CollectGroup, promxy
<1> QED
  BY <1>1, <1>2, <1>3, <1>4, <1>5, <1>6, <1>7, Zenon DEF Next, Regional

\* The rules, likewise.
LEMMA RulesStep ==
  ASSUME [Next]_vars
  PROVE  \/ UNCHANGED rules
         \/ CreateVmRulesConfigMap
         \/ \E r \in Regionals :
              /\ rules[r] # None /\ rules[r] \notin Alive(r) /\ rules' = [rules EXCEPT ![r] = None]
              /\ UNCHANGED <<cm, uids, queue, work>>
<1>1. CASE UNCHANGED vars
  BY <1>1, Zenon DEF vars, own
<1>2. CASE Collect
  BY <1>2, Zenon DEF Collect, own
<1>3. CASE TakeRequest \/ CreateOrUpdateMcsForVmRulesPropagation \/ CreateOrUpdatePromxyServerGroup
           \/ CreateVMUser \/ VMUserCreated \/ CreateOrUpdateTracesStorageConnection
           \/ CreateOrUpdateLogsStorageConnection \/ CreateOrUpdateAuditLogsStorageConnection
           \/ CleanupVmRulesMcsPropagation \/ StepFails \/ EditChild \/ Edit \/ ReleaseConn \/ Restart
  BY <1>3, Zenon DEF TakeRequest, CreateOrUpdateMcsForVmRulesPropagation, CreateOrUpdatePromxyServerGroup,
     CreateVMUser, VMUserCreated, CreateOrUpdateTracesStorageConnection,
     CreateOrUpdateLogsStorageConnection, CreateOrUpdateAuditLogsStorageConnection,
     CleanupVmRulesMcsPropagation, StepFails, EditChild, Edit, ReleaseConn, Restart
<1>4. CASE CreateVMUserCredentials \/ ChildReturns \/ ManagerCall \/ ManagerFails \/ PromxyStep
           \/ PromxyFails \/ PodStep \/ PodStops
  BY <1>4, Zenon DEF CreateVMUserCredentials, ChildReturns, ManagerCall, ManagerFails, PromxyStep,
     PromxyFails, PodStep, PodStops, own
<1> QED
  BY <1>1, <1>2, <1>3, <1>4, Zenon DEF Next, Regional

\* A step writes the connection of sink s for the ConfigMap it was given.
Writes(s) ==
  /\ At(s) /\ PutConn(s) /\ (IF s = "traces" THEN VTCluster ELSE VLCluster) # None
  /\ UNCHANGED <<cm, uids, queue>>

\* And so are the connections.
LEMMA ConnStep ==
  ASSUME [Next]_vars
  PROVE  \/ UNCHANGED conn
         \/ \E s \in Sinks : Writes(s)
         \/ \E c \in DOMAIN conn :
              /\ conn[c] # None /\ ~conn[c].deleting /\ conn[c].owner \notin Alive(c[1])
              /\ conn' = [conn EXCEPT ![c].deleting = TRUE] /\ UNCHANGED <<cm, uids, queue, work>>
         \/ \E c \in DOMAIN conn :
              /\ conn[c] # None /\ conn[c].deleting /\ conn' = [conn EXCEPT ![c] = None]
              /\ UNCHANGED <<cm, uids, queue, work>>
<1>1. CASE UNCHANGED vars
  BY <1>1, Zenon DEF vars, own
<1>2. CASE Collect
  BY <1>2, Zenon DEF Collect, own
<1>3. CASE ReleaseConn
  BY <1>3, Zenon DEF ReleaseConn
<1>4. CASE CreateOrUpdateTracesStorageConnection
  BY <1>4, Zenon DEF CreateOrUpdateTracesStorageConnection, Writes, Sinks, Goto
<1>5. CASE CreateOrUpdateLogsStorageConnection
  BY <1>5, Zenon DEF CreateOrUpdateLogsStorageConnection, Writes, Sinks, Goto
<1>6. CASE CreateOrUpdateAuditLogsStorageConnection
  BY <1>6, Zenon DEF CreateOrUpdateAuditLogsStorageConnection, Writes, Sinks
<1>7. CASE TakeRequest \/ CreateVmRulesConfigMap \/ CreateOrUpdateMcsForVmRulesPropagation
           \/ CreateOrUpdatePromxyServerGroup \/ CreateVMUser \/ VMUserCreated
           \/ CleanupVmRulesMcsPropagation \/ StepFails \/ EditChild \/ Edit \/ Restart
  BY <1>7, Zenon DEF TakeRequest, CreateVmRulesConfigMap, CreateOrUpdateMcsForVmRulesPropagation,
     CreateOrUpdatePromxyServerGroup, CreateVMUser, VMUserCreated,
     CleanupVmRulesMcsPropagation, StepFails, EditChild, Edit, Restart
<1>8. CASE CreateVMUserCredentials \/ ChildReturns \/ ManagerCall \/ ManagerFails \/ PromxyStep
           \/ PromxyFails \/ PodStep \/ PodStops
  BY <1>8, Zenon DEF CreateVMUserCredentials, ChildReturns, ManagerCall, ManagerFails, PromxyStep,
     PromxyFails, PodStep, PodStops, own
<1> QED
  BY <1>1, <1>2, <1>3, <1>4, <1>5, <1>6, <1>7, <1>8, Zenon DEF Next, Regional

----------------------------------------------------------------------------
(* Owners.                                                                 *)

\* A new ConfigMap has a new uid.
LEMMA UidsStep == TypeInv /\ Uids /\ [Next]_vars => Uids'
<1> SUFFICES ASSUME TypeInv, Uids, [Next]_vars PROVE Uids'
  OBVIOUS
<1>1. CASE UNCHANGED <<cm, uids>>
  BY <1>1, Zenon DEF Uids
<1>2. CASE \E r \in Regionals : EditTo(r)
  <2>1. PICK r \in Regionals : EditTo(r)
    BY <1>2, Zenon
  <2>2. ASSUME NEW q \in Regionals
        PROVE  uids'[q] >= 1 /\ (cm'[q] # None => cm'[q].uid = uids'[q])
    <3>1. uids[q] \in Nat /\ uids[q] >= 1 /\ (cm[q] # None => cm[q].uid = uids[q])
      BY Zenon DEF Uids, TypeInv, OwnType
    <3>2. CASE q # r
      BY <2>1, <3>1, <3>2, Zenon DEF EditTo
    <3>3. CASE q = r
      BY <2>1, <3>1, <3>3, SMTT(20) DEF EditTo
    <3> QED
      BY <3>2, <3>3, Zenon
  <2> QED
    BY <2>2, Zenon DEF Uids
<1> QED
  BY <1>1, <1>2, CmStep, Zenon

\* The uids of a name only grow.
LEMMA UidsGrow ==
  ASSUME TypeInv, [Next]_vars, NEW r \in Regionals, NEW k \in 1..uids[r]
  PROVE  k \in 1..uids'[r]
<1>1. uids[r] \in Nat
  BY Zenon DEF TypeInv, OwnType
<1>2. uids'[r] = uids[r] \/ uids'[r] = uids[r] + 1
  BY CmStep, Zenon DEF EditTo
<1> QED
  BY <1>1, <1>2

\* The reconciliation works for a ConfigMap there has been.
LEMMA OwnedWorkStep == TypeInv /\ Uids /\ OwnedWork /\ [Next]_vars => OwnedWork'
<1> SUFFICES ASSUME TypeInv, Uids, OwnedWork, [Next]_vars, NEW r \in Regionals, On(r)', work'.cm # None
             PROVE  work'.cm.uid \in 1..uids'[r]
  BY Zenon DEF OwnedWork
<1>1. CASE TakeRequest
  <2>1. PICK q \in queue :
          /\ work' = IF cm[q] = None THEN [r |-> q, cm |-> None, step |-> "cleanup"]
                     ELSE [r |-> q, cm |-> cm[q], step |-> "rules"]
          /\ uids' = uids
    BY <1>1, Zenon DEF TakeRequest
  <2>2. q = r /\ cm[r] # None /\ work'.cm = cm[r]
    BY <2>1, Zenon DEF On
  <2>3. cm[r].uid = uids[r] /\ uids[r] \in Nat /\ uids[r] >= 1
    BY <2>2, Zenon DEF Uids, TypeInv, OwnType
  <2> QED
    BY <2>1, <2>2, <2>3, SMTT(20)
<1>2. CASE On(r) /\ work'.cm = work.cm
  BY <1>2, UidsGrow, Zenon DEF OwnedWork
<1> QED
  BY <1>1, <1>2, WorkStep, Zenon DEF On

\* What the manager does for a regional, it does for the request in progress.
LEMMA JobOwner ==
  ASSUME TypeInv, OwnedWork, Busy, NEW r \in Regionals, job[r] # None, job[r].op = "create"
  PROVE  /\ On(r) /\ work.step = "wait" /\ work.cm # None
         /\ job[r].owner = work.cm.uid /\ job[r].owner \in 1..uids[r]
<1>1. On(r) /\ work.step = "wait" /\ job[r].owner = work.cm.uid
  BY Zenon DEF Busy
<1>2. work.cm # None
  BY <1>1, WorkFacts, Zenon DEF On, TypeInv
<1> QED
  BY <1>1, <1>2, Zenon DEF OwnedWork

\* Secrets and VMUsers are owned by a ConfigMap there has been.
LEMMA OwnedUsersStep ==
  TypeInv /\ OwnedWork /\ Busy /\ OwnedUsers /\ [Next]_vars => OwnedUsers'
<1> SUFFICES ASSUME TypeInv, OwnedWork, Busy, OwnedUsers, [Next]_vars, NEW r \in Regionals
             PROVE  /\ secret'[r] # None => secret'[r].owner \in 1..uids'[r]
                    /\ vmuser'[r] # None => vmuser'[r].owner \in 1..uids'[r]
  BY Zenon DEF OwnedUsers
<1> r \in Users
  BY Sets, Zenon
<1>1. ASSUME secret'[r] \in {None, secret[r]}, vmuser'[r] \in {None, vmuser[r]}
      PROVE  /\ secret'[r] # None => secret'[r].owner \in 1..uids'[r]
             /\ vmuser'[r] # None => vmuser'[r].owner \in 1..uids'[r]
  BY <1>1, UidsGrow, Zenon DEF OwnedUsers
<1>2. CASE UNCHANGED <<secret, vmuser>>
  BY <1>1, <1>2, Zenon
<1>3. CASE ManagerCall
  <2>1. PICK u \in Users : U!Call(u)
    BY <1>3, Zenon DEF ManagerCall
  <2>2. CASE U!CreateSecret(u)
    <3>1. PICK pw : secret' = [secret EXCEPT ![u] = [pw |-> pw, owner |-> job[u].owner]]
      BY <2>2, Zenon DEF U!CreateSecret
    <3>2. job[u] # None /\ job[u].op = "create" /\ vmuser' = vmuser
      BY <2>2, Zenon DEF U!CreateSecret, U!At
    <3>3. CASE u = r
      <4>1. secret'[r].owner = job[r].owner
        BY <3>1, <3>3, Zenon DEF TypeInv, UserType
      <4>2. job[r].owner \in 1..uids'[r]
        BY <3>2, <3>3, JobOwner, UidsGrow, Zenon
      <4>3. vmuser[r] # None => vmuser[r].owner \in 1..uids'[r]
        BY UidsGrow, Zenon DEF OwnedUsers
      <4> QED
        BY <3>2, <4>1, <4>2, <4>3, Zenon
    <3>4. CASE u # r
      BY <3>1, <3>2, <3>4, <1>1, Zenon DEF TypeInv, UserType
    <3> QED
      BY <3>3, <3>4, Zenon
  <2>3. CASE U!createOrUpdateVMUser(u)
    <3>1. PICK t : vmuser' = [vmuser EXCEPT ![u] = [targets |-> t, owner |-> job[u].owner]]
      BY <2>3, Zenon DEF U!createOrUpdateVMUser
    <3>2. job[u] # None /\ job[u].op = "create" /\ secret' = secret
      BY <2>3, Zenon DEF U!createOrUpdateVMUser, U!At
    <3>3. CASE u = r
      <4>1. vmuser'[r].owner = job[r].owner
        BY <3>1, <3>3, Zenon DEF TypeInv, UserType
      <4>2. job[r].owner \in 1..uids'[r]
        BY <3>2, <3>3, JobOwner, UidsGrow
      <4>3. secret[r] # None => secret[r].owner \in 1..uids'[r]
        BY UidsGrow, Zenon DEF OwnedUsers
      <4> QED
        BY <3>2, <4>1, <4>2, <4>3, Zenon
    <3>4. CASE u # r
      BY <3>1, <3>2, <3>4, <1>1, Zenon DEF TypeInv, UserType
    <3> QED
      BY <3>3, <3>4
  <2>4. CASE U!DeleteVMUser(u) \/ U!DeleteSecret(u)
    BY <2>4, <1>1, Zenon DEF U!DeleteVMUser, U!DeleteSecret, TypeInv, UserType
  <2>5. CASE UNCHANGED <<secret, vmuser>>
    BY <2>5, <1>2, Zenon
  <2> QED
    BY <2>1, <2>2, <2>3, <2>4, <2>5, Zenon
    DEF U!Call, U!CopySecret, U!createOrUpdatePropagationMCS, U!DeleteMCS, U!DeleteCopy
<1>4. CASE \E q \in Regionals : U!CollectCredentials(q, Alive(q))
  <2>1. PICK q \in Regionals : U!CollectCredentials(q, Alive(q))
    BY <1>4, Zenon
  <2>2. \/ secret' = [secret EXCEPT ![q] = None] /\ UNCHANGED vmuser
        \/ vmuser' = [vmuser EXCEPT ![q] = None] /\ UNCHANGED secret
    BY <2>1, Zenon DEF U!CollectCredentials
  <2> QED
    BY <2>2, <1>1, Zenon DEF TypeInv, UserType
<1> QED
  BY <1>2, <1>3, <1>4, UsersStep, Zenon

\* PromxyServerGroups use the credentials of their regional and are owned by its ConfigMap.
LEMMA OwnedGroupsStep == TypeInv /\ OwnedWork /\ OwnedGroups /\ [Next]_vars => OwnedGroups'
<1> SUFFICES ASSUME TypeInv, OwnedWork, OwnedGroups, [Next]_vars, NEW r \in Regionals, group'[r] # None
             PROVE  group'[r].cred = r /\ group'[r].owner \in 1..uids'[r]
  BY Zenon DEF OwnedGroups
<1>1. CASE group'[r] = group[r]
  BY <1>1, UidsGrow, Zenon DEF OwnedGroups
<1>2. CASE At("group") /\ \E s : group' = [group EXCEPT ![work.r] =
                  [secretName |-> "promxy-config", cred |-> work.r, spec |-> s, owner |-> work.cm.uid]]
  <2>1. work # None /\ work.r \in Regionals /\ work.cm # None
    BY <1>2, WorkFacts, Zenon DEF At, TypeInv
  <2>2. CASE r = work.r
    <3>1. group'[r].owner = work.cm.uid /\ group'[r].cred = r
      BY <1>2, <2>1, <2>2 DEF TypeInv, PromxyType
    <3> QED
      BY <3>1, <2>1, <2>2, UidsGrow, Zenon DEF OwnedWork, On
  <2>3. CASE r # work.r
    BY <1>2, <2>1, <2>3, <1>1, Zenon DEF TypeInv, PromxyType
  <2> QED
    BY <2>2, <2>3, Zenon
<1>3. CASE \E q \in Regionals : group' = [group EXCEPT ![q] = None]
  BY <1>3, <1>1, Zenon DEF TypeInv, PromxyType
<1> QED
  BY <1>1, <1>2, <1>3, GroupStep, Zenon DEF P!PutGroup

\* ConfigMaps of record rules are owned by a ConfigMap there has been.
LEMMA OwnedRulesStep == TypeInv /\ OwnedWork /\ OwnedRules /\ [Next]_vars => OwnedRules'
<1> SUFFICES ASSUME TypeInv, OwnedWork, OwnedRules, [Next]_vars, NEW r \in Regionals, rules'[r] # None
             PROVE  rules'[r] \in 1..uids'[r]
  BY Zenon DEF OwnedRules
<1>1. CASE rules'[r] = rules[r]
  BY <1>1, UidsGrow, Zenon DEF OwnedRules
<1>2. CASE CreateVmRulesConfigMap
  <2>1. work # None /\ work.r \in Regionals /\ work.cm # None
    BY <1>2, WorkFacts, Zenon DEF CreateVmRulesConfigMap, At, TypeInv
  <2>2. rules'[r] # rules[r] => r = work.r /\ rules'[r] = work.cm.uid
    BY <1>2, <2>1, Zenon DEF CreateVmRulesConfigMap, TypeInv, OwnType
  <2> QED
    BY <2>1, <2>2, <1>1, UidsGrow, Zenon DEF OwnedWork, On
<1>3. CASE \E q \in Regionals : rules' = [rules EXCEPT ![q] = None]
  BY <1>3, <1>1, Zenon DEF TypeInv, OwnType
<1> QED
  BY <1>1, <1>2, <1>3, RulesStep, Zenon

\* VMStorageConnections are owned by a ConfigMap there has been.
LEMMA OwnedConnsStep == TypeInv /\ OwnedWork /\ OwnedConns /\ [Next]_vars => OwnedConns'
<1> SUFFICES ASSUME TypeInv, OwnedWork, OwnedConns, [Next]_vars, NEW r \in Regionals, NEW s \in Sinks,
                    conn'[<<r, s>>] # None
             PROVE  conn'[<<r, s>>].owner \in 1..uids'[r]
  BY Zenon DEF OwnedConns
<1> <<r, s>> \in Regionals \X Sinks /\ DOMAIN conn = Regionals \X Sinks
  BY Zenon DEF TypeInv, OwnType
<1>1. CASE conn'[<<r, s>>] = conn[<<r, s>>]
  BY <1>1, UidsGrow, Zenon DEF OwnedConns
<1>2. CASE \E t \in Sinks : Writes(t)
  <2>1. PICK t \in Sinks : Writes(t)
    BY <1>2, Zenon
  <2>2. work # None /\ work.r \in Regionals /\ work.cm # None
    BY <2>1, WorkFacts, Zenon DEF Writes, At, TypeInv, Sinks
  <2>3. CASE r = work.r /\ s = t
    <3>1. conn'[<<r, s>>].owner = work.cm.uid
      BY <2>1, <2>2, <2>3, Zenon DEF Writes, PutConn, TypeInv, OwnType
    <3> QED
      BY <3>1, <2>2, <2>3, UidsGrow, Zenon DEF OwnedWork, On
  <2>4. CASE ~(r = work.r /\ s = t)
    <3>1. conn'[<<r, s>>] = conn[<<r, s>>]
      BY <2>1, <2>2, <2>4, Zenon DEF Writes, PutConn, TypeInv, OwnType
    <3> QED
      BY <3>1, <1>1, Zenon
  <2> QED
    BY <2>3, <2>4, Zenon
<1>3. CASE \E c \in DOMAIN conn : conn[c] # None /\ conn' = [conn EXCEPT ![c].deleting = TRUE]
  <2>1. PICK c \in Regionals \X Sinks : conn[c] # None /\ conn' = [conn EXCEPT ![c].deleting = TRUE]
    BY <1>3, Zenon
  <2>2. CASE c = <<r, s>>
    <3>1. conn[<<r, s>>] \in Connections
      BY <2>1, <2>2, Zenon DEF TypeInv, OwnType
    <3>2. conn'[<<r, s>>] = [conn[<<r, s>>] EXCEPT !.deleting = TRUE]
      BY <2>1, <2>2, Zenon DEF TypeInv, OwnType
    <3>3. conn'[<<r, s>>].owner = conn[<<r, s>>].owner
      BY <3>1, <3>2, Zenon DEF Connections
    <3> QED
      BY <2>1, <2>2, <3>3, UidsGrow, Zenon DEF OwnedConns
  <2>3. CASE c # <<r, s>>
    BY <2>1, <2>3, <1>1, Zenon DEF TypeInv, OwnType
  <2> QED
    BY <2>2, <2>3, Zenon
<1>4. CASE \E c \in DOMAIN conn : conn' = [conn EXCEPT ![c] = None]
  BY <1>4, <1>1, Zenon DEF TypeInv, OwnType
<1> QED
  BY <1>1, <1>2, <1>3, <1>4, ConnStep, Zenon

\* Owners are ConfigMaps there are or were.
LEMMA OwnedStep == TypeInv /\ Busy /\ Owned /\ [Next]_vars => Owned'
  BY UidsStep, OwnedWorkStep, OwnedUsersStep, OwnedGroupsStep, OwnedRulesStep, OwnedConnsStep, Zenon DEF Owned

----------------------------------------------------------------------------
(* The request in progress and the credentials it waits for.               *)

\* The manager goes on with an operation, and leaves the others alone.
LEMMA ManagerJob ==
  ASSUME TypeInv, NEW u \in Users, U!Call(u) \/ U!CallFails(u)
  PROVE  /\ job[u] # None /\ job'[u] # None
         /\ job'[u].op = job[u].op /\ job'[u].owner = job[u].owner
         /\ \A v \in Users \ {u} : job'[v] = job[v]
<1> USE DEF TypeInv
<1>1. job[u] # None
  BY Zenon DEF U!Call, U!CallFails, U!CreateSecret, U!CopySecret, U!createOrUpdateVMUser,
     U!createOrUpdatePropagationMCS, U!DeleteMCS, U!DeleteVMUser, U!DeleteSecret, U!DeleteCopy, U!At
<1>2. job[u] \in Jobs
  BY <1>1, JobFacts, Zenon
<1>3. PICK j \in Jobs : job' = [job EXCEPT ![u] = j] /\ j.op = job[u].op /\ j.owner = job[u].owner
  <2>1. CASE U!CreateSecret(u)
    <3>1. PICK pw \in Nat : job' = [job EXCEPT ![u].step = "copy", ![u].pw = pw]
      <4>1. (IF secret[u] = None THEN minted + 1 ELSE secret[u].pw) \in Nat
        BY DEF UserType, Secrets
      <4> QED
        BY <4>1, <2>1, Zenon DEF U!CreateSecret
    <3>2. job' = [job EXCEPT ![u] = [job[u] EXCEPT !.step = "copy", !.pw = pw]]
      BY <3>1, Zenon DEF UserType
    <3> DEFINE new == [job[u] EXCEPT !.step = "copy", !.pw = pw]
    <3>3. new \in Jobs /\ new.op = job[u].op /\ new.owner = job[u].owner
      BY <1>2, Zenon DEF Jobs
    <3>4. job' = [job EXCEPT ![u] = new]
      BY <3>2, Zenon
    <3> HIDE DEF new
    <3> QED
      BY <3>3, <3>4, Zenon
  <2>2. CASE \E s \in {"copy", "secret", "vmuser", "mcs"} : U!Advance(u, s)
    BY <1>2, <2>2, ZenonT(60) DEF U!Advance, Jobs
  <2>3. CASE \E ok \in BOOLEAN : U!Return(u, ok)
    <3>1. PICK ok \in BOOLEAN : job' = [job EXCEPT ![u] = [job[u] EXCEPT !.step = "returned", !.ok = ok]]
      BY <2>3, Zenon DEF U!Return, UserType
    <3> DEFINE new == [job[u] EXCEPT !.step = "returned", !.ok = ok]
    <3>2. new \in Jobs /\ new.op = job[u].op /\ new.owner = job[u].owner
      BY <1>2, Zenon DEF Jobs
    <3>3. job' = [job EXCEPT ![u] = new]
      BY <3>1, Zenon
    <3> HIDE DEF new
    <3> QED
      BY <3>2, <3>3, Zenon
  <2> QED
    BY <2>1, <2>2, <2>3, Zenon DEF U!Call, U!CallFails, U!CopySecret, U!createOrUpdateVMUser,
     U!createOrUpdatePropagationMCS, U!DeleteMCS, U!DeleteVMUser, U!DeleteSecret, U!DeleteCopy
<1> QED
  BY <1>1, <1>3, NoneAssumption, Zenon DEF UserType

\* A call of the VMUser manager runs only while its reconciliation waits for it.
LEMMA BusyStep == TypeInv /\ Busy /\ [Next]_vars => Busy'
<1> SUFFICES ASSUME TypeInv, Busy, [Next]_vars PROVE Busy'
  OBVIOUS
<1> USE DEF TypeInv
<1>1. ASSUME UNCHANGED <<work, job>> PROVE Busy'
  BY <1>1, Zenon DEF Busy, On
<1>2. ASSUME \A r \in Regionals : job'[r] = None,
             work' # None => work'.step \notin {"wait", "cleanup"}
      PROVE  Busy'
  BY <1>2, Zenon DEF Busy
<1>3. ASSUME work = None \/ work.step \notin {"wait", "cleanup"}
      PROVE  \A r \in Regionals : job[r] = None
  BY <1>3, Zenon DEF Busy, On
<1>4. ASSUME work # None, U!NoJob(work.r) PROVE \A r \in Regionals : job[r] = None
  BY <1>4, Zenon DEF Busy, On, U!NoJob
<1>5. ASSUME work # None, U!Take(work.r) PROVE \A r \in Regionals : job'[r] = None
  <2>1. work.r \in Users
    BY <1>5, WorkFacts, Sets, Zenon
  <2>2. \A r \in Regionals : job[r] # None => r = work.r
    BY Zenon DEF Busy, On
  <2> QED
    BY <1>5, <2>1, <2>2, Sets, Zenon DEF U!Take, UserType
<1>6. CASE TakeRequest
  <2>1. PICK r \in queue :
          IF cm[r] = None
          THEN work' = [r |-> r, cm |-> None, step |-> "cleanup"] /\ U!Delete(r)
          ELSE work' = [r |-> r, cm |-> cm[r], step |-> "rules"] /\ UNCHANGED job
    BY <1>6, Zenon DEF TakeRequest
  <2>2. r \in Regionals /\ r \in Users /\ \A q \in Regionals : job[q] = None
    BY <1>3, <1>6, Sets, Zenon DEF TakeRequest, OwnType
  <2>3. CASE cm[r] = None
    <3>1. work' = [r |-> r, cm |-> None, step |-> "cleanup"] /\ work' # None
      BY <2>1, <2>2, <2>3, NoneAssumption, SMTT(20) DEF Requests
    <3> DEFINE new == [op |-> "delete", step |-> "mcs", owner |-> 0, pw |-> 0, ok |-> FALSE]
    <3>2. job' = [job EXCEPT ![r] = new] /\ new # None /\ new.op = "delete"
      <4>1. new \in Jobs
        BY Zenon DEF Jobs
      <4>2. job' = [job EXCEPT ![r] = new]
        BY <2>1, <2>3, Zenon DEF U!Delete
      <4> QED
        BY <4>1, <4>2, NoneAssumption, Zenon
    <3> HIDE DEF new
    <3>3. job'[r] = new /\ \A q \in Regionals \ {r} : job'[q] = None
      BY <2>2, <3>2, Sets, Zenon DEF UserType
    <3> QED
      BY <3>1, <3>2, <3>3, Zenon DEF Busy, On
  <2>4. CASE cm[r] # None
    BY <2>1, <2>2, <2>4, <1>2, SMTT(20)
  <2> QED
    BY <2>3, <2>4, Zenon
<1>7. CASE CreateVmRulesConfigMap \/ CreateOrUpdateMcsForVmRulesPropagation \/ CreateOrUpdatePromxyServerGroup
           \/ CreateOrUpdateTracesStorageConnection \/ CreateOrUpdateLogsStorageConnection
           \/ CreateOrUpdateAuditLogsStorageConnection
  <2>1. /\ job' = job /\ work # None
        /\ work.step \in {"rules", "rulesMcs", "group", "traces", "logs", "audit"}
        /\ (\E t \in {"rulesMcs", "user", "traces", "logs", "audit"} : Goto(t)) \/ work' = None
    BY <1>7, Zenon DEF CreateVmRulesConfigMap, CreateOrUpdateMcsForVmRulesPropagation,
       CreateOrUpdatePromxyServerGroup, CreateOrUpdateTracesStorageConnection, At, Retry,
       CreateOrUpdateLogsStorageConnection, CreateOrUpdateAuditLogsStorageConnection, users
  <2>2. work' # None => work'.step \notin {"wait", "cleanup"}
    <3>1. ASSUME NEW t \in {"rulesMcs", "user", "traces", "logs", "audit"}, Goto(t)
          PROVE  work'.step = t
      BY <2>1, <3>1, WorkFacts, Zenon DEF Goto, Requests
    <3> QED
      BY <2>1, <3>1, Zenon
  <2> QED
    BY <2>1, <2>2, <1>2, <1>3, Zenon
<1>8. CASE CreateVMUser
  <2>1. At("user") /\ Goto("wait") /\ U!Create(work.r, work.cm.uid)
    BY <1>8, Zenon DEF CreateVMUser
  <2>2. /\ work # None /\ work.step = "user" /\ work.r \in Regionals /\ work' # None
        /\ work'.r = work.r /\ work'.cm = work.cm /\ work'.step = "wait"
    BY <2>1, GotoFacts, Zenon DEF Handling
  <2>3. work.cm.uid \in Nat
    BY <2>2, WorkFacts, Zenon
  <2> DEFINE new == [op |-> "create", step |-> "secret", owner |-> work.cm.uid, pw |-> 0, ok |-> FALSE]
  <2>4. job' = [job EXCEPT ![work.r] = new] /\ new # None /\ new.op = "create" /\ new.owner = work.cm.uid
    <3>1. new \in Jobs
      BY <2>3, Zenon DEF Jobs
    <3>2. job' = [job EXCEPT ![work.r] = new]
      BY <2>1, Zenon DEF U!Create
    <3> QED
      BY <3>1, <3>2, NoneAssumption, Zenon
  <2> HIDE DEF new
  <2>5. job'[work.r] = new /\ \A q \in Regionals \ {work.r} : job'[q] = None
    BY <2>2, <2>4, <1>3, Sets, Zenon DEF UserType
  <2> QED
    BY <2>2, <2>4, <2>5, Zenon DEF Busy, On
<1>9. CASE VMUserCreated
  <2>1. At("wait") /\ U!Take(work.r) /\ (Goto("group") \/ work' = None)
    BY <1>9, Zenon DEF VMUserCreated, Retry
  <2>2. work' # None => work'.step = "group"
    BY <2>1, GotoFacts, Zenon DEF Handling
  <2> QED
    BY <2>1, <2>2, <1>2, <1>5, Zenon DEF At
<1>10. CASE CleanupVmRulesMcsPropagation
  BY <1>10, <1>2, <1>5, Zenon DEF CleanupVmRulesMcsPropagation, At, Retry
<1>11. CASE StepFails
  BY <1>11, <1>2, <1>4, Zenon DEF StepFails, Retry, users
<1>12. CASE CreateVMUserCredentials \/ ChildReturns
  <2>1. PICK c \in Children : (\E j : job' = [job EXCEPT ![c] = j]) /\ UNCHANGED work
    BY <1>12, Zenon DEF CreateVMUserCredentials, ChildReturns, U!Create, U!Take, OwnType
  <2>2. \A r \in Regionals : job'[r] = job[r]
    BY <2>1, Sets, KindAssumption, Zenon DEF UserType
  <2>3. work # None => work.r \in Regionals
    BY WorkFacts, Zenon
  <2> QED
    BY <2>1, <2>2, <2>3, Zenon DEF Busy, On
<1>13. CASE ManagerCall \/ ManagerFails
  <2>1. PICK u \in Users : (U!Call(u) \/ U!CallFails(u)) /\ work' = work
    BY <1>13, Zenon DEF ManagerCall, ManagerFails, own
  <2>2. /\ job[u] # None /\ job'[u] # None
        /\ job'[u].op = job[u].op /\ job'[u].owner = job[u].owner
        /\ \A v \in Users \ {u} : job'[v] = job[v]
    BY <2>1, ManagerJob, Zenon
  <2>3. work # None => work.r \in Users
    BY WorkFacts, Sets, Zenon
  <2> QED
    BY <2>1, <2>2, <2>3, Sets DEF Busy, On
<1>14. CASE Restart
  BY <1>14, <1>2, Sets, Zenon DEF Restart
<1>15. CASE PromxyStep \/ PromxyFails \/ PodStep \/ PodStops \/ Edit \/ EditChild \/ ReleaseConn \/ UNCHANGED vars
  BY <1>15, <1>1, Zenon DEF PromxyStep, PromxyFails, PodStep, PodStops, Edit, EditChild, ReleaseConn, vars, own, users
<1>16. CASE Collect
  BY <1>16, <1>1, Zenon DEF Collect, U!CollectCredentials, own, users
<1> QED
  BY <1>6, <1>7, <1>8, <1>9, <1>10, <1>11, <1>12, <1>13, <1>14, <1>15, <1>16, Zenon DEF Next, Regional

\* A request leaves the queue when it is taken, and the queue is built anew at a restart.
LEMMA QueueStep ==
  ASSUME [Next]_vars
  PROVE  \/ queue \subseteq queue' /\ missed' = missed
         \/ TakeRequest
         \/ Restart
<1>1. CASE Regional
  BY <1>1, Zenon DEF Regional, CreateVmRulesConfigMap, CreateOrUpdateMcsForVmRulesPropagation,
     CreateVMUser, VMUserCreated, CreateOrUpdatePromxyServerGroup,
     CreateOrUpdateTracesStorageConnection, CreateOrUpdateLogsStorageConnection,
     CreateOrUpdateAuditLogsStorageConnection, CleanupVmRulesMcsPropagation, Goto, Retry
<1>2. CASE UNCHANGED vars \/ ManagerCall \/ ManagerFails \/ PromxyStep \/ PromxyFails \/ PodStep \/ PodStops
  BY <1>2, Zenon DEF vars, own, ManagerCall, ManagerFails, PromxyStep, PromxyFails, PodStep, PodStops
<1>3. CASE CreateVMUserCredentials \/ ChildReturns \/ Collect \/ ReleaseConn \/ EditChild
  BY <1>3, Zenon DEF own, CreateVMUserCredentials, ChildReturns, Collect, ReleaseConn, EditChild
<1>4. CASE StepFails \/ Edit
  BY <1>4, Zenon DEF StepFails, Edit, Retry
<1> QED
  BY <1>1, <1>2, <1>3, <1>4, Zenon DEF Next

\* The request that is taken has the ConfigMap as it is; every other one stays.
LEMMA TakeFacts ==
  ASSUME TypeInv, TakeRequest
  PROVE  \E q \in Regionals :
           /\ q \in queue /\ queue' = queue \ {q} /\ work = None /\ work' # None
           /\ work'.r = q /\ work'.cm = cm[q] /\ UNCHANGED <<cm, uids, missed>>
           /\ work'.step = IF cm[q] = None THEN "cleanup" ELSE "rules"
<1>1. PICK q \in queue :
        /\ queue' = queue \ {q}
        /\ work' = IF cm[q] = None THEN [r |-> q, cm |-> None, step |-> "cleanup"]
                   ELSE [r |-> q, cm |-> cm[q], step |-> "rules"]
  BY Zenon DEF TakeRequest
<1>2. q \in Regionals /\ work = None /\ UNCHANGED <<cm, uids, missed>>
  BY Zenon DEF TakeRequest, TypeInv, OwnType
<1>3. work' \in Requests
  BY <1>1, <1>2, Zenon DEF TypeInv, OwnType, Requests, Handling
<1>4. work' # None
  BY <1>3, NoneAssumption, Zenon
<1>5. work'.r = q /\ work'.cm = cm[q] /\ work'.step = IF cm[q] = None THEN "cleanup" ELSE "rules"
  BY <1>1, Zenon
<1> QED
  BY <1>1, <1>2, <1>4, <1>5, Zenon

\* A ConfigMap that differs from the one in hand is queued.
LEMMA CurrentStep == TypeInv /\ Current /\ [Next]_vars => Current'
<1> SUFFICES ASSUME TypeInv, Current, [Next]_vars, work' # None, work'.r \notin queue'
             PROVE  cm'[work'.r] = work'.cm
  BY Zenon DEF Current
<1>1. CASE TakeRequest
  BY <1>1, TakeFacts, Zenon
<1>2. CASE Restart
  BY <1>2, Zenon DEF Restart
<1>3. CASE ~TakeRequest /\ ~Restart
  <2>1. work # None /\ work'.r = work.r /\ work'.cm = work.cm
    BY <1>3, WorkStep, Zenon
  <2>2. work.r \notin queue /\ work.r \in Regionals
    BY <1>3, <2>1, QueueStep, WorkFacts, Zenon DEF TypeInv
  <2>3. cm'[work.r] = cm[work.r]
    BY <2>1, <2>2, CmStep, Zenon DEF EditTo
  <2> QED
    BY <2>1, <2>2, <2>3, Zenon DEF Current
<1> QED
  BY <1>1, <1>2, <1>3, Zenon

\* The steps that touch the operations in progress.
LEMMA JobFrame ==
  ASSUME [Next]_vars
  PROVE  \/ UNCHANGED job \/ ManagerCall \/ ManagerFails \/ Restart \/ TakeRequest \/ CreateVMUser
         \/ VMUserCreated \/ CleanupVmRulesMcsPropagation \/ CreateVMUserCredentials \/ ChildReturns
<1>1. CASE CreateVmRulesConfigMap \/ CreateOrUpdateMcsForVmRulesPropagation \/ CreateOrUpdatePromxyServerGroup
           \/ CreateOrUpdateTracesStorageConnection \/ CreateOrUpdateLogsStorageConnection
           \/ CreateOrUpdateAuditLogsStorageConnection \/ StepFails
  BY <1>1, Zenon DEF CreateVmRulesConfigMap, CreateOrUpdateMcsForVmRulesPropagation,
     CreateOrUpdatePromxyServerGroup, CreateOrUpdateTracesStorageConnection,
     CreateOrUpdateLogsStorageConnection, CreateOrUpdateAuditLogsStorageConnection, StepFails, users
<1>2. CASE PromxyStep \/ PromxyFails \/ PodStep \/ PodStops \/ Edit \/ EditChild \/ ReleaseConn \/ UNCHANGED vars
  BY <1>2, Zenon DEF PromxyStep, PromxyFails, PodStep, PodStops, Edit, EditChild, ReleaseConn, vars, users
<1>3. CASE Collect
  BY <1>3, Zenon DEF Collect, U!CollectCredentials, users
<1> QED
  BY <1>1, <1>2, <1>3, Zenon DEF Next, Regional

\* Nothing touches the credentials of a regional nobody works on.
LEMMA Idle ==
  ASSUME TypeInv, Busy, [Next]_vars, NEW r \in Regionals, ~On(r)
  PROVE  /\ job[r] = None
         /\ copy'[r] = copy[r] /\ (r \in mcs' <=> r \in mcs)
         /\ secret'[r] \in {secret[r], None} /\ vmuser'[r] \in {vmuser[r], None}
<1> r \in Users
  BY Sets, Zenon
<1>1. job[r] = None
  BY Zenon DEF Busy
<1>2. CASE UNCHANGED <<secret, copy, vmuser, mcs>>
  BY <1>1, <1>2, Zenon
<1>3. CASE ManagerCall
  <2>1. PICK u \in Users : U!Call(u)
    BY <1>3, Zenon DEF ManagerCall
  <2>2. u # r
    BY <2>1, <1>1, ManagerJob, Zenon
  <2>3. CASE U!CreateSecret(u) \/ U!CopySecret(u)
    BY <1>1, <2>2, <2>3, Zenon DEF U!CreateSecret, U!CopySecret, TypeInv, UserType
  <2>4. CASE U!createOrUpdateVMUser(u)
    <3>1. PICK x : vmuser' = [vmuser EXCEPT ![u] = x]
      BY <2>4, Zenon DEF U!createOrUpdateVMUser
    <3> QED
      BY <1>1, <2>2, <2>4, <3>1, Zenon DEF U!createOrUpdateVMUser, TypeInv, UserType
  <2>5. CASE U!createOrUpdatePropagationMCS(u) \/ U!DeleteMCS(u)
    BY <1>1, <2>2, <2>5, Zenon DEF U!createOrUpdatePropagationMCS, U!DeleteMCS
  <2>6. CASE U!DeleteVMUser(u) \/ U!DeleteSecret(u) \/ U!DeleteCopy(u)
    BY <1>1, <2>2, <2>6, Zenon DEF U!DeleteVMUser, U!DeleteSecret, U!DeleteCopy, TypeInv, UserType
  <2> QED
    BY <2>1, <2>3, <2>4, <2>5, <2>6, Zenon DEF U!Call
<1>4. CASE \E q \in Regionals : U!CollectCredentials(q, Alive(q))
  BY <1>1, <1>4, Sets, Zenon DEF U!CollectCredentials, TypeInv, UserType
<1> QED
  BY <1>2, <1>3, <1>4, UsersStep, Zenon

----------------------------------------------------------------------------
(* The cleanup.                                                            *)

\* The rules' propagation changes for the request in progress alone.
LEMMA RulesMcsStep ==
  ASSUME TypeInv, [Next]_vars, NEW r \in Regionals, ~(r \in rulesMcs' <=> r \in rulesMcs)
  PROVE  \/ On(r) /\ At("rulesMcs") /\ r \in rulesMcs' /\ CreateOrUpdateMcsForVmRulesPropagation
         \/ On(r) /\ At("cleanup") /\ r \notin rulesMcs' /\ work' = None
<1>1. CASE CreateOrUpdateMcsForVmRulesPropagation
  BY <1>1, Zenon DEF CreateOrUpdateMcsForVmRulesPropagation, On, At
<1>2. CASE CleanupVmRulesMcsPropagation
  BY <1>2, Zenon DEF CleanupVmRulesMcsPropagation, On, At
<1>3. CASE TakeRequest \/ CreateVmRulesConfigMap \/ CreateOrUpdatePromxyServerGroup
           \/ CreateVMUser \/ VMUserCreated \/ CreateOrUpdateTracesStorageConnection
           \/ CreateOrUpdateLogsStorageConnection \/ CreateOrUpdateAuditLogsStorageConnection
           \/ StepFails \/ EditChild \/ Edit \/ ReleaseConn \/ Restart
  BY <1>3, Zenon DEF TakeRequest, CreateVmRulesConfigMap, CreateOrUpdatePromxyServerGroup,
     CreateVMUser, VMUserCreated, CreateOrUpdateTracesStorageConnection,
     CreateOrUpdateLogsStorageConnection, CreateOrUpdateAuditLogsStorageConnection,
     StepFails, EditChild, Edit, ReleaseConn, Restart
<1>4. CASE CreateVMUserCredentials \/ ChildReturns \/ ManagerCall \/ ManagerFails \/ PromxyStep
           \/ PromxyFails \/ PodStep \/ PodStops \/ Collect \/ UNCHANGED vars
  BY <1>4, Zenon DEF CreateVMUserCredentials, ChildReturns, ManagerCall, ManagerFails, PromxyStep,
     PromxyFails, PodStep, PodStops, Collect, own, vars
<1> QED
  BY <1>1, <1>2, <1>3, <1>4, Zenon DEF Next, Regional

\* A call of the manager that deletes.
LEMMA DeleteCalls ==
  ASSUME TypeInv, NEW u \in Users, U!Call(u), job[u].op = "delete",
         job[u].step \in {"vmuser", "secret", "copy"} => u \notin mcs
  PROVE  /\ job'[u].step \in {"vmuser", "secret", "copy"} => u \notin mcs'
         /\ job'[u].step = "returned" /\ job'[u].ok => u \notin mcs' /\ copy'[u] = None
<1> USE DEF TypeInv
<1>1. job[u] \in Jobs
  BY ManagerJob, JobFacts, Zenon
<1>2. CASE U!DeleteMCS(u)
  BY <1>1, <1>2, Zenon DEF U!DeleteMCS, U!Advance, UserType, Jobs
<1>3. CASE U!DeleteVMUser(u)
  BY <1>1, <1>3, Zenon DEF U!DeleteVMUser, U!Advance, U!At, UserType, Jobs
<1>4. CASE U!DeleteSecret(u)
  BY <1>1, <1>4, Zenon DEF U!DeleteSecret, U!Advance, U!At, UserType, Jobs
<1>5. CASE U!DeleteCopy(u)
  BY <1>1, <1>5, Zenon DEF U!DeleteCopy, U!Return, U!At, UserType, Jobs
<1> QED
  BY <1>2, <1>3, <1>4, <1>5, Zenon
  DEF U!Call, U!At, U!CreateSecret, U!CopySecret, U!createOrUpdateVMUser, U!createOrUpdatePropagationMCS

\* What is cleaned up for a regional that is gone stays cleaned up, and a cleanup that
\* is interrupted is repeated or counted as missed.
LEMMA CleanStep == TypeInv /\ Busy /\ Current /\ Clean /\ [Next]_vars => Clean'
<1> SUFFICES ASSUME TypeInv, Busy, Current, Clean, [Next]_vars, NEW r \in Regionals, Gone(r)'
             PROVE  IF On(r)'
                    THEN /\ job'[r].step \in {"vmuser", "secret", "copy"} => r \notin mcs'
                         /\ job'[r].step = "returned" /\ job'[r].ok => r \notin mcs' /\ copy'[r] = None
                    ELSE copy'[r] = None /\ r \notin mcs' /\ r \notin rulesMcs'
  BY Zenon DEF Clean
<1> r \in Users
  BY Sets, Zenon
<1>1. CASE ~Gone(r)
  <2>1. ~Restart
    BY <1>1, Zenon DEF Restart, Gone
  <2>2. TakeRequest
    <3>1. CASE queue \subseteq queue' /\ missed' = missed
      <4>1. cm[r] # None
        BY <1>1, <3>1, Zenon DEF Gone
      <4> QED
        BY <4>1, CmStep, Zenon DEF EditTo, Gone
    <3> QED
      BY <3>1, <2>1, QueueStep, Zenon
  <2>3. /\ r \in queue /\ work' # None /\ work'.r = r /\ cm[r] = None
    BY <1>1, <2>2, TakeFacts, Zenon DEF Gone
  <2>4. PICK q \in queue : queue' = queue \ {q} /\ (cm[q] = None => U!Delete(q))
    BY <2>2, Zenon DEF TakeRequest
  <2>5. q = r /\ U!Delete(r)
    BY <2>3, <2>4, Zenon DEF Gone
  <2>6. job'[r].step = "mcs"
    BY <2>5, Zenon DEF U!Delete, TypeInv, UserType
  <2> QED
    BY <2>3, <2>6, Zenon DEF On
<1>2. CASE Gone(r) /\ ~On(r)
  <2>1. copy[r] = None /\ r \notin mcs /\ r \notin rulesMcs
    BY <1>2, Zenon DEF Clean
  <2>2. copy'[r] = None /\ r \notin mcs'
    BY <1>2, <2>1, Idle, Zenon
  <2>3. r \notin rulesMcs'
    BY <1>2, <2>1, RulesMcsStep, Zenon
  <2>4. ~On(r)'
    <3>1. CASE TakeRequest
      BY <1>2, <3>1, TakeFacts, Zenon DEF On, Gone
    <3> QED
      BY <1>2, <3>1, WorkStep, Zenon DEF On
  <2> QED
    BY <2>2, <2>3, <2>4, Zenon
<1>3. CASE Gone(r) /\ On(r)
  <2>1. work.cm = None /\ work.step = "cleanup" /\ work # None /\ work.r = r
    BY <1>3, WorkFacts, Zenon DEF Current, On, Gone, TypeInv
  <2>2. job[r] # None /\ job[r].op = "delete"
    BY <1>3, <2>1, Zenon DEF Busy
  <2>3. /\ job[r].step \in {"vmuser", "secret", "copy"} => r \notin mcs
        /\ job[r].step = "returned" /\ job[r].ok => r \notin mcs /\ copy[r] = None
    BY <1>3, Zenon DEF Clean
  <2>4. ~Restart /\ ~StepFails /\ ~TakeRequest /\ ~CreateVMUser /\ ~VMUserCreated
    BY <2>1, <2>2, <1>3, Zenon DEF Restart, StepFails, TakeRequest, CreateVMUser, VMUserCreated, At, Gone, U!NoJob
  <2>5. CASE CleanupVmRulesMcsPropagation
    <3>1. U!Returned(r) /\ work' = None
      BY <2>1, <2>5, Zenon DEF CleanupVmRulesMcsPropagation, U!Take, Retry
    <3>2. UNCHANGED <<copy, mcs>>
      BY <2>5, Zenon DEF CleanupVmRulesMcsPropagation
    <3>3. job[r].ok /\ r \notin rulesMcs'
      BY <2>1, <2>5, Zenon DEF CleanupVmRulesMcsPropagation, Retry, Gone
    <3> QED
      BY <2>3, <3>1, <3>2, <3>3, Zenon DEF U!Returned, On
  <2>6. CASE ManagerCall \/ ManagerFails
    <3>1. PICK u \in Users : U!Call(u) \/ U!CallFails(u)
      BY <2>6, Zenon DEF ManagerCall, ManagerFails
    <3>2. On(r)'
      BY <1>3, <2>6, Zenon DEF ManagerCall, ManagerFails, own, On
    <3>3. CASE U!Call(u) /\ u = r
      BY <2>2, <2>3, <3>2, <3>3, DeleteCalls, Zenon
    <3>4. CASE U!CallFails(u) /\ u = r
      <4>1. job[r] \in Jobs
        BY <2>2, JobFacts, Zenon DEF TypeInv
      <4>2. job'[r].step = "returned" /\ job'[r].ok = FALSE
        BY <3>4, <4>1, Zenon DEF U!CallFails, U!Return, TypeInv, UserType, Jobs
      <4> QED
        BY <3>2, <4>2, Zenon
    <3>5. CASE u # r
      <4>1. job'[r] = job[r]
        BY <3>1, <3>5, ManagerJob, Zenon
      <4>2. copy'[r] = copy[r] /\ (r \in mcs' <=> r \in mcs)
        <5>1. CASE U!CallFails(u)
          BY <5>1, Zenon DEF U!CallFails
        <5>2. CASE U!CreateSecret(u) \/ U!createOrUpdateVMUser(u) \/ U!DeleteVMUser(u) \/ U!DeleteSecret(u)
          BY <5>2, Zenon DEF U!CreateSecret, U!createOrUpdateVMUser, U!DeleteVMUser, U!DeleteSecret
        <5>3. CASE U!CopySecret(u) \/ U!DeleteCopy(u)
          BY <5>3, <3>5, Zenon DEF U!CopySecret, U!DeleteCopy, TypeInv, UserType
        <5>4. CASE U!createOrUpdatePropagationMCS(u) \/ U!DeleteMCS(u)
          BY <5>4, <3>5, Zenon DEF U!createOrUpdatePropagationMCS, U!DeleteMCS
        <5> QED
          BY <3>1, <5>1, <5>2, <5>3, <5>4, Zenon DEF U!Call
      <4> QED
        BY <2>3, <3>2, <4>1, <4>2, Zenon
    <3> QED
      BY <3>1, <3>3, <3>4, <3>5, Zenon
  <2>7. CASE ~CleanupVmRulesMcsPropagation /\ ~ManagerCall /\ ~ManagerFails
    <3>1. On(r)'
      <4>1. CASE work # None /\ work' = None
        <5>1. ~CreateOrUpdateAuditLogsStorageConnection
          BY <2>1, Zenon DEF CreateOrUpdateAuditLogsStorageConnection, At
        <5> QED
          BY <4>1, <5>1, <2>1, <2>4, <2>7, WorkStep, Zenon DEF Gone
      <4> QED
        BY <4>1, <1>3, <2>1, <2>4, WorkStep, Zenon DEF On
    <3>2. job'[r] = job[r]
      <4>1. CASE CreateVMUserCredentials \/ ChildReturns
        <5>1. PICK c \in Children : \E j : job' = [job EXCEPT ![c] = j]
          BY <4>1, Zenon DEF CreateVMUserCredentials, ChildReturns, U!Create, U!Take, TypeInv, OwnType
        <5> QED
          BY <5>1, Sets, KindAssumption, Zenon DEF TypeInv, UserType
      <4> QED
        BY <4>1, <2>4, <2>7, JobFrame, Zenon
    <3>3. copy' = copy /\ mcs' = mcs
      BY <2>7, UsersStep, Zenon DEF U!CollectCredentials
    <3> QED
      BY <2>3, <3>1, <3>2, <3>3, Zenon
  <2> QED
    BY <2>5, <2>6, <2>7, Zenon
<1> QED
  BY <1>1, <1>2, <1>3, Zenon

Housekeeping == TypeInv /\ Owned /\ Busy /\ Current /\ Clean

\* Initially there is nothing to keep.
LEMMA HousekeepingInit == Init => Housekeeping
<1> SUFFICES ASSUME Init PROVE Housekeeping
  OBVIOUS
<1> USE DEF Init, U!VMUserInit, P!PromxyInit
<1>1. TypeInv
  BY InitType, Zenon
<1>2. Uids
  BY <1>1, SMTT(20) DEF Uids, TypeInv, OwnType
<1>3. OwnedWork /\ OwnedUsers /\ OwnedGroups /\ OwnedRules /\ OwnedConns
  BY Sets, Zenon DEF OwnedWork, On, OwnedUsers, OwnedGroups, OwnedRules, OwnedConns
<1>4. Busy /\ Current
  BY Sets, Zenon DEF Busy, Current
<1>5. Clean
  BY Sets, Zenon DEF Clean, Gone, On
<1> QED
  BY <1>1, <1>2, <1>3, <1>4, <1>5, Zenon DEF Housekeeping, Owned

\* Every step keeps types, owners, the work in hand and the cleanup.
LEMMA HousekeepingStep == Housekeeping /\ [Next]_vars => Housekeeping'
  BY TypeStep, OwnedStep, BusyStep, CurrentStep, CleanStep, Zenon DEF Housekeeping, Owned

\* The objects of a ConfigMap that is gone are garbage.
LEMMA Orphans ==
  ASSUME TypeInv, Owned, ~Garbage, NEW r \in Regionals, cm[r] = None
  PROVE  /\ secret[r] = None /\ vmuser[r] = None /\ rules[r] = None /\ group[r] = None
         /\ \A s \in Sinks : conn[<<r, s>>] = None
<1>1. Alive(r) = {0}
  BY Zenon DEF Alive
<1>2. \A k \in 1..uids[r] : k \notin Alive(r)
  BY <1>1
<1>3. secret[r] = None
  BY <1>2, Zenon DEF Garbage, Owned, OwnedUsers
<1>4. vmuser[r] = None
  BY <1>2, Zenon DEF Garbage, Owned, OwnedUsers
<1>5. rules[r] = None
  BY <1>2, Zenon DEF Garbage, Owned, OwnedRules
<1>6. group[r] = None
  BY <1>2, Zenon DEF Garbage, Owned, OwnedGroups
<1>7. ASSUME NEW s \in Sinks PROVE conn[<<r, s>>] = None
  <2>1. <<r, s>> \in DOMAIN conn /\ <<r, s>>[1] = r
    BY Zenon DEF TypeInv, OwnType
  <2> QED
    BY <1>2, <2>1, Zenon DEF Garbage, Owned, OwnedConns
<1> QED
  BY <1>3, <1>4, <1>5, <1>6, <1>7, Zenon

\* At rest nothing is left of a regional that is gone, unless the operator was restarted
\* between its deletion and its cleanup (ResourceCleanup, Manager.Delete).
THEOREM NothingLeftHolds == Spec => []NothingLeft
<1>1. Housekeeping => NothingLeft
  <2> SUFFICES ASSUME Housekeeping, Quiet, NEW r \in Regionals \ (Live \cup missed)
               PROVE  /\ secret[r] = None /\ copy[r] = None /\ vmuser[r] = None
                      /\ r \notin mcs /\ r \notin rulesMcs /\ rules[r] = None /\ group[r] = None
                      /\ \A c \in DOMAIN conn : c[1] = r => conn[c] = None
    BY Zenon DEF NothingLeft
  <2>1. cm[r] = None /\ Gone(r) /\ ~On(r)
    BY Zenon DEF Live, Quiet, Gone, On
  <2>2. copy[r] = None /\ r \notin mcs /\ r \notin rulesMcs
    BY <2>1, Zenon DEF Housekeeping, Clean
  <2>3. /\ secret[r] = None /\ vmuser[r] = None /\ rules[r] = None /\ group[r] = None
        /\ \A s \in Sinks : conn[<<r, s>>] = None
    BY <2>1, Orphans, Zenon DEF Housekeeping, Quiet
  <2>4. \A c \in DOMAIN conn : c[1] = r => conn[c] = None
    BY <2>3, SMTT(20) DEF Housekeeping, TypeInv, OwnType
  <2> QED
    BY <2>2, <2>3, <2>4, Zenon
<1> QED
  BY <1>1, HousekeepingInit, HousekeepingStep, PTL DEF Spec

----------------------------------------------------------------------------
(* The credentials.                                                        *)

\* The step is not the manager's for r.
Others(r) ==
  \/ UNCHANGED <<secret, copy, vmuser, mcs>>
  \/ \E u \in Users \ {r} : U!Call(u)
  \/ \E q \in Regionals : U!CollectCredentials(q, Alive(q))

\* Every step is a call of the VMUser manager for r, or one of the others.
LEMMA CallOrOthers ==
  ASSUME [Next]_vars, NEW r \in Regionals
  PROVE  Others(r) \/ (ManagerCall /\ U!Call(r))
  BY UsersStep, Zenon DEF Others, ManagerCall

\* What was made for the ConfigMap there is now is neither collected nor touched by the
\* manager's work for others.
LEMMA Kept ==
  ASSUME TypeInv, NEW r \in Regionals, cm[r] # None, Others(r)
  PROVE  /\ copy'[r] = copy[r] /\ (r \in mcs' <=> r \in mcs)
         /\ secret[r] # None /\ secret[r].owner = cm[r].uid => secret'[r] = secret[r]
         /\ vmuser[r] # None /\ vmuser[r].owner = cm[r].uid => vmuser'[r] = vmuser[r]
<1> r \in Users
  BY Sets, Zenon
<1>1. CASE UNCHANGED <<secret, copy, vmuser, mcs>>
  BY <1>1, Zenon
<1>2. CASE \E u \in Users \ {r} : U!Call(u)
  <2>1. PICK u \in Users \ {r} : U!Call(u)
    BY <1>2, Zenon
  <2>2. CASE U!CreateSecret(u) \/ U!CopySecret(u)
    BY <2>1, <2>2, Zenon DEF U!CreateSecret, U!CopySecret, TypeInv, UserType
  <2>3. CASE U!createOrUpdateVMUser(u)
    <3>1. PICK x : vmuser' = [vmuser EXCEPT ![u] = x]
      BY <2>3, Zenon DEF U!createOrUpdateVMUser
    <3> QED
      BY <2>1, <2>3, <3>1, Zenon DEF U!createOrUpdateVMUser, TypeInv, UserType
  <2>4. CASE U!createOrUpdatePropagationMCS(u) \/ U!DeleteMCS(u)
    BY <2>1, <2>4, Zenon DEF U!createOrUpdatePropagationMCS, U!DeleteMCS
  <2>5. CASE U!DeleteVMUser(u) \/ U!DeleteSecret(u) \/ U!DeleteCopy(u)
    BY <2>1, <2>5, Zenon DEF U!DeleteVMUser, U!DeleteSecret, U!DeleteCopy, TypeInv, UserType
  <2> QED
    BY <2>1, <2>2, <2>3, <2>4, <2>5, Zenon DEF U!Call
<1>3. CASE \E q \in Regionals : U!CollectCredentials(q, Alive(q))
  <2>1. PICK q \in Regionals : U!CollectCredentials(q, Alive(q))
    BY <1>3, Zenon
  <2>2. Alive(r) = {cm[r].uid}
    BY Zenon DEF Alive
  <2> QED
    BY <2>1, <2>2, Sets, Zenon DEF U!CollectCredentials, TypeInv, UserType
<1> QED
  BY <1>1, <1>2, <1>3, Zenon DEF Others

\* So what was made stays made.
LEMMA MadeKept ==
  ASSUME TypeInv, NEW r \in Regionals, cm[r] # None, cm'[r].uid = cm[r].uid, Others(r)
  PROVE  /\ SecretMade(r) => SecretMade(r)' /\ secret'[r] = secret[r]
         /\ CopyMade(r) => CopyMade(r)'
         /\ UserMade(r) => UserMade(r)'
         /\ AllMade(r) => AllMade(r)'
<1>1. /\ copy'[r] = copy[r] /\ (r \in mcs' <=> r \in mcs)
      /\ secret[r] # None /\ secret[r].owner = cm[r].uid => secret'[r] = secret[r]
      /\ vmuser[r] # None /\ vmuser[r].owner = cm[r].uid => vmuser'[r] = vmuser[r]
  BY Kept, Zenon
<1>2. SecretMade(r) => SecretMade(r)' /\ secret'[r] = secret[r]
  BY <1>1, Zenon DEF SecretMade
<1>3. CopyMade(r) => CopyMade(r)'
  BY <1>1, <1>2, Zenon DEF CopyMade, SecretMade
<1>4. UserMade(r) => UserMade(r)'
  BY <1>1, <1>3, Zenon DEF UserMade
<1> QED
  BY <1>1, <1>2, <1>3, <1>4, Zenon DEF AllMade

\* A call of the manager for a regional, when it creates.
LEMMA CreateCalls ==
  ASSUME TypeInv, NEW r \in Regionals, U!Call(r), job[r].op = "create", cm' = cm,
         Making(r), job[r].owner = cm[r].uid
  PROVE  Making(r)'
<1> USE DEF TypeInv
<1> r \in Users
  BY Sets, Zenon
<1>1. job[r] \in Jobs /\ job[r] # None /\ job[r].owner \in Nat /\ job[r].pw \in Nat
  BY ManagerJob, JobFacts, Zenon
<1>2. CASE U!CreateSecret(r)
  <2>1. PICK pw \in Nat :
          /\ secret' = [secret EXCEPT ![r] = [pw |-> pw, owner |-> job[r].owner]]
          /\ job' = [job EXCEPT ![r].step = "copy", ![r].pw = pw]
    <3>1. (IF secret[r] = None THEN minted + 1 ELSE secret[r].pw) \in Nat
      BY SMTT(20) DEF UserType, Secrets
    <3> QED
      BY <1>2, <3>1, Zenon DEF U!CreateSecret
  <2>2. job'[r].step = "copy" /\ job'[r].pw = pw
    BY <1>1, <2>1, Zenon DEF UserType, Jobs
  <2>3. secret'[r] = [pw |-> pw, owner |-> job[r].owner] /\ [pw |-> pw, owner |-> job[r].owner] \in Secrets
    BY <1>1, <2>1, Zenon DEF UserType, Secrets
  <2>4. secret'[r] # None /\ secret'[r].owner = cm'[r].uid /\ secret'[r].pw = pw
    BY <2>3, NoneAssumption, SMTT(20)
  <2> QED
    BY <2>2, <2>4, Zenon DEF Making, SecretMade
<1>3. CASE U!CopySecret(r)
  <2>1. SecretMade(r) /\ job[r].pw = secret[r].pw
    BY <1>1, <1>3, Zenon DEF U!CopySecret, U!At, Making
  <2>2. copy'[r] = job[r].pw /\ secret' = secret /\ job'[r].step = "vmuser"
    BY <1>1, <1>3, Zenon DEF U!CopySecret, U!Advance, UserType, Jobs
  <2> QED
    BY <2>1, <2>2, Zenon DEF Making, CopyMade, SecretMade
<1>4. CASE U!createOrUpdateVMUser(r)
  <2>1. CopyMade(r)
    BY <1>1, <1>4, Zenon DEF U!createOrUpdateVMUser, U!At, Making
  <2>2. PICK t \in {U!buildTargetRefs(Config[u]) : u \in Users} :
          vmuser' = [vmuser EXCEPT ![r] = [targets |-> t, owner |-> job[r].owner]]
    BY <1>4, Zenon DEF U!createOrUpdateVMUser
  <2>3. vmuser'[r] = [targets |-> t, owner |-> job[r].owner] /\ vmuser'[r] \in VMUsers
    BY <1>1, <2>2, Zenon DEF UserType, VMUsers
  <2>4. vmuser'[r] # None /\ vmuser'[r].owner = cm'[r].uid
    BY <2>3, NoneAssumption, SMTT(20)
  <2>5. UserMade(r)'
    BY <1>4, <2>1, <2>4, Zenon DEF U!createOrUpdateVMUser, UserMade, CopyMade, SecretMade
  <2>6. job'[r].step = "mcs" \/ (job'[r].step = "returned" /\ Regionless)
    BY <1>1, <1>4 DEF U!createOrUpdateVMUser, U!Advance, U!Return, UserType, Jobs
  <2> QED
    BY <2>5, <2>6, Zenon DEF Making, AllMade
<1>5. CASE U!createOrUpdatePropagationMCS(r)
  <2>1. UserMade(r)
    BY <1>1, <1>5, Zenon DEF U!createOrUpdatePropagationMCS, U!At, Making
  <2>2. r \in mcs' /\ UserMade(r)'
    BY <1>5, <2>1, Zenon DEF U!createOrUpdatePropagationMCS, UserMade, CopyMade, SecretMade
  <2>3. job'[r].step = "returned"
    BY <1>1, <1>5, Zenon DEF U!createOrUpdatePropagationMCS, U!Return, UserType, Jobs
  <2> QED
    BY <2>2, <2>3, Zenon DEF Making, AllMade
<1> QED
  BY <1>2, <1>3, <1>4, <1>5, Zenon DEF U!Call, U!At, U!DeleteMCS, U!DeleteVMUser, U!DeleteSecret, U!DeleteCopy

\* The order of the steps.
LEMMA Onward ==
  ASSUME TypeInv, [Next]_vars, work # None, work' # None
  PROVE  \/ work' = work
         \/ work.step = "rules" /\ work'.step = "rulesMcs" /\ CreateVmRulesConfigMap
         \/ work.step = "rulesMcs" /\ work'.step = "user" /\ CreateOrUpdateMcsForVmRulesPropagation
         \/ work.step = "user" /\ work'.step = "wait" /\ CreateVMUser
         \/ work.step = "wait" /\ work'.step = "group" /\ VMUserCreated /\ job[work.r].ok
         \/ work.step = "group" /\ work'.step = "traces" /\ CreateOrUpdatePromxyServerGroup
         \/ work.step = "traces" /\ work'.step = "logs" /\ CreateOrUpdateTracesStorageConnection
         \/ work.step = "logs" /\ work'.step = "audit" /\ CreateOrUpdateLogsStorageConnection
<1> USE DEF TypeInv
<1>1. CASE CreateVmRulesConfigMap
  BY <1>1, GotoFacts, Zenon DEF CreateVmRulesConfigMap, Handling
<1>2. CASE CreateOrUpdateMcsForVmRulesPropagation
  BY <1>2, GotoFacts, Zenon DEF CreateOrUpdateMcsForVmRulesPropagation, Handling
<1>3. CASE CreateVMUser
  BY <1>3, GotoFacts, Zenon DEF CreateVMUser, Handling
<1>4. CASE VMUserCreated
  <2>1. At("wait") /\ Goto("group") /\ job[work.r].ok
    BY <1>4, Zenon DEF VMUserCreated, Retry
  <2> QED
    BY <1>4, <2>1, GotoFacts, Zenon DEF Handling
<1>5. CASE CreateOrUpdatePromxyServerGroup
  <2>1. At("group") /\ Goto("traces")
    BY <1>5, Zenon DEF CreateOrUpdatePromxyServerGroup, Retry
  <2> QED
    BY <1>5, <2>1, GotoFacts, Zenon DEF Handling
<1>6. CASE CreateOrUpdateTracesStorageConnection
  BY <1>6, GotoFacts, Zenon DEF CreateOrUpdateTracesStorageConnection, Handling
<1>7. CASE CreateOrUpdateLogsStorageConnection
  BY <1>7, GotoFacts, Zenon DEF CreateOrUpdateLogsStorageConnection, Handling
<1>8. CASE CreateOrUpdateAuditLogsStorageConnection \/ CleanupVmRulesMcsPropagation \/ StepFails
           \/ TakeRequest \/ Restart
  BY <1>8, Zenon DEF CreateOrUpdateAuditLogsStorageConnection, CleanupVmRulesMcsPropagation, StepFails,
     TakeRequest, Restart, At, Retry
<1>10. CASE UNCHANGED vars \/ ManagerCall \/ ManagerFails \/ PromxyStep \/ PromxyFails \/ PodStep \/ PodStops
  BY <1>10, Zenon DEF vars, own, ManagerCall, ManagerFails, PromxyStep, PromxyFails, PodStep, PodStops
<1>11. CASE CreateVMUserCredentials \/ ChildReturns \/ Collect \/ ReleaseConn \/ EditChild \/ Edit
  BY <1>11, Zenon DEF own, CreateVMUserCredentials, ChildReturns, Collect, ReleaseConn, EditChild, Edit
<1> QED
  BY <1>1, <1>2, <1>3, <1>4, <1>5, <1>6, <1>7, <1>8, <1>10, <1>11, ZenonT(60) DEF Next, Regional

\* How a regional comes to rest: it was at rest, or its last step was taken with the
\* ConfigMap as it is.
LEMMA Resting ==
  ASSUME Housekeeping, [Next]_vars, NEW r \in Regionals, cm[r] # None, cm'[r] # None,
         r \notin queue', ~On(r)'
  PROVE  /\ r \notin queue /\ cm'[r] = cm[r]
         /\ \/ ~On(r)
            \/ On(r) /\ work.step = "audit" /\ work.cm = cm[r] /\ CreateOrUpdateAuditLogsStorageConnection
<1> USE DEF Housekeeping
<1>1. ~Restart
  BY Zenon DEF Restart
<1>2. r \notin queue
  <2>1. CASE TakeRequest
    BY <2>1, TakeFacts, Zenon DEF On
  <2> QED
    BY <1>1, <2>1, QueueStep, Zenon
<1>3. cm'[r] = cm[r]
  BY CmStep, Zenon DEF EditTo
<1>4. ASSUME On(r)
      PROVE  work.step = "audit" /\ work.cm = cm[r] /\ CreateOrUpdateAuditLogsStorageConnection
  <2>1. work # None /\ work.r = r /\ cm[r] = work.cm /\ ~TakeRequest
    BY <1>2, <1>4, Zenon DEF Current, On, TakeRequest
  <2>2. work.step # "cleanup"
    BY <2>1, WorkFacts, Zenon DEF TypeInv
  <2>3. ~CleanupVmRulesMcsPropagation
    BY <2>2, Zenon DEF CleanupVmRulesMcsPropagation, At
  <2>4. CreateOrUpdateAuditLogsStorageConnection
    BY <1>1, <2>1, <2>3, <1>4, WorkStep, Zenon DEF On
  <2> QED
    BY <2>1, <2>4, Zenon DEF CreateOrUpdateAuditLogsStorageConnection, At
<1> QED
  BY <1>2, <1>3, <1>4, Zenon

\* What the reconciliation does once the credentials are there.
LEMMA AfterWait == After("wait") = {"group", "traces", "logs", "audit"}
  BY Zenon DEF After

\* The credentials are made for the ConfigMap there is, before anything that uses them.
LEMMA CredentialsStep == Housekeeping /\ Credentials /\ [Next]_vars => Credentials'
<1> SUFFICES ASSUME Housekeeping, Credentials, [Next]_vars, NEW r \in Regionals, cm'[r] # None
             PROVE  Making(r)' /\ Finishing(r)' /\ Finished(r)'
  BY Zenon DEF Credentials
<1> USE DEF Housekeeping
<1> r \in Users
  BY Sets, Zenon
<1>1. CASE EditTo(r)
  <2>1. job' = job /\ secret' = secret /\ copy' = copy /\ vmuser' = vmuser /\ mcs' = mcs
    BY <1>1, Zenon DEF EditTo, users
  <2>2. work' = work /\ r \in queue'
    BY <1>1, Zenon DEF EditTo
  <2>3. CASE cm[r] # None /\ cm'[r].uid = cm[r].uid
    BY <2>1, <2>2, <2>3, Zenon DEF Credentials, Making, Finishing, Finished, On, AllMade, UserMade, CopyMade, SecretMade
  <2>4. CASE cm[r] = None /\ cm'[r].uid = uids[r] + 1
    <3>1. uids[r] \in Nat /\ cm'[r].uid \notin 1..uids[r]
      BY <2>4, SMTT(20) DEF TypeInv, OwnType
    <3>2. job[r] # None /\ job[r].op = "create" => job[r].owner # cm'[r].uid
      BY <3>1, JobOwner, Zenon DEF Owned
    <3>3. On(r) /\ work.cm # None => work.cm.uid # cm'[r].uid
      BY <3>1, Zenon DEF Owned, OwnedWork
    <3> QED
      BY <2>1, <2>2, <3>2, <3>3, Zenon DEF Making, Finishing, Finished, On
  <2> QED
    BY <1>1, <2>3, <2>4, Zenon DEF EditTo
<1>2. CASE cm'[r] = cm[r]
  <2>1. Making(r) /\ Finishing(r) /\ Finished(r) /\ cm[r] # None
    BY <1>2, Zenon DEF Credentials
  <2>2. Others(r) => /\ SecretMade(r) => SecretMade(r)' /\ secret'[r] = secret[r]
                     /\ CopyMade(r) => CopyMade(r)'
                     /\ UserMade(r) => UserMade(r)'
                     /\ AllMade(r) => AllMade(r)'
    BY <1>2, <2>1, MadeKept, Zenon
  <2>3. CASE ManagerCall /\ U!Call(r)
    <3>1. job[r] # None /\ job'[r].op = job[r].op /\ job'[r].owner = job[r].owner
      BY <2>3, ManagerJob, Zenon
    <3>2. On(r) /\ work.step \in {"wait", "cleanup"} /\ work' = work /\ cm' = cm
      BY <2>3, <3>1, Zenon DEF Busy, ManagerCall, own
    <3>3. Finishing(r)' /\ Finished(r)'
      BY <3>2, AfterWait, Zenon DEF Finishing, Finished, On
    <3>4. CASE job[r].op = "create" /\ job[r].owner = cm[r].uid
      BY <2>1, <2>3, <3>2, <3>3, <3>4, CreateCalls, Zenon
    <3>5. CASE ~(job[r].op = "create" /\ job[r].owner = cm[r].uid)
      BY <3>1, <3>2, <3>3, <3>5, Zenon DEF Making
    <3> QED
      BY <3>4, <3>5, Zenon
  <2>4. ASSUME Others(r) PROVE Making(r)'
    <3>1. CASE job'[r] = job[r]
      BY <1>2, <2>1, <2>2, <2>4, <3>1, Zenon DEF Making
    <3>2. CASE job'[r] = None
      BY <3>2, Zenon DEF Making
    <3>3. CASE ManagerCall \/ ManagerFails
      <4>1. PICK u \in Users : (ManagerCall /\ U!Call(u)) \/ U!CallFails(u)
        BY <3>3, Zenon DEF ManagerCall, ManagerFails
      <4>2. CASE u # r
        BY <4>1, <4>2, <3>1, ManagerJob, Zenon
      <4>3. CASE U!CallFails(r)
        <5>1. job[r] # None /\ job[r] \in Jobs
          BY <4>3, JobFacts, ManagerJob, Zenon DEF TypeInv
        <5>2. job'[r].step = "returned" /\ job'[r].ok = FALSE
          BY <4>3, <5>1, Zenon DEF U!CallFails, U!Return, TypeInv, UserType, Jobs
        <5> QED
          BY <5>2, Zenon DEF Making
      <4>4. CASE U!Call(r) /\ ManagerCall
        <5>1. job[r] # None /\ job'[r].op = job[r].op /\ job'[r].owner = job[r].owner /\ cm' = cm
          BY <4>4, ManagerJob, Zenon DEF ManagerCall, own
        <5>2. CASE job[r].op = "create" /\ job[r].owner = cm[r].uid
          BY <2>1, <4>4, <5>1, <5>2, CreateCalls, Zenon
        <5>3. CASE ~(job[r].op = "create" /\ job[r].owner = cm[r].uid)
          BY <5>1, <5>3, Zenon DEF Making
        <5> QED
          BY <5>2, <5>3, Zenon
      <4> QED
        BY <4>1, <4>2, <4>3, <4>4, Zenon
    <3>4. CASE TakeRequest
      <4>1. PICK q \in queue : U!Delete(q) \/ UNCHANGED job
        BY <3>4, Zenon DEF TakeRequest
      <4>2. CASE U!Delete(q) /\ q = r
        <5>1. job'[r].op = "delete"
          BY <4>2, Zenon DEF U!Delete, TypeInv, UserType
        <5> QED
          BY <5>1, Zenon DEF Making
      <4>3. CASE U!Delete(q) /\ q # r
        BY <4>3, <3>1, Zenon DEF U!Delete, TypeInv, UserType
      <4> QED
        BY <4>1, <4>2, <4>3, <3>1, Zenon
    <3>5. CASE CreateVMUser
      <4>1. work # None /\ work.r \in Users /\ U!Create(work.r, work.cm.uid)
        BY <3>5, WorkFacts, Sets, Zenon DEF CreateVMUser, At, TypeInv
      <4>2. work.r = r => job'[r].step = "secret"
        BY <4>1, Zenon DEF U!Create, TypeInv, UserType
      <4>3. work.r # r => job'[r] = job[r]
        BY <4>1, Zenon DEF U!Create, TypeInv, UserType
      <4> QED
        BY <4>2, <4>3, <3>1, Zenon DEF Making
    <3>6. CASE VMUserCreated \/ CleanupVmRulesMcsPropagation
      <4>1. U!Take(work.r)
        BY <3>6, Zenon DEF VMUserCreated, CleanupVmRulesMcsPropagation
      <4>2. job'[r] \in {job[r], None}
        BY <4>1, Zenon DEF U!Take, TypeInv, UserType
      <4> QED
        BY <4>2, <3>1, <3>2, Zenon
    <3>7. CASE CreateVMUserCredentials \/ ChildReturns
      <4>1. PICK c \in Children : \E j : job' = [job EXCEPT ![c] = j]
        BY <3>7, Zenon DEF CreateVMUserCredentials, ChildReturns, U!Create, U!Take, TypeInv, OwnType
      <4>2. job'[r] = job[r]
        BY <4>1, Sets, KindAssumption, Zenon DEF TypeInv, UserType
      <4> QED
        BY <4>2, <3>1, Zenon
    <3>8. CASE Restart
      BY <3>8, <3>2, Zenon DEF Restart
    <3> QED
      BY <3>1, <3>3, <3>4, <3>5, <3>6, <3>7, <3>8, JobFrame, Zenon
  <2>5. ASSUME Others(r) PROVE Finishing(r)'
    <3> SUFFICES ASSUME On(r)', work'.cm # None, work'.cm.uid = cm'[r].uid, work'.step \in After("wait")
                 PROVE  AllMade(r)'
      BY Zenon DEF Finishing
    <3>1. ~TakeRequest
      BY TakeFacts, AfterWait, Zenon
    <3>2. work # None /\ work' # None /\ work.r = r /\ work.cm = work'.cm
      BY <3>1, WorkStep, Zenon DEF On
    <3>3. CASE work.step \in After("wait")
      BY <1>2, <2>1, <2>2, <2>5, <3>2, <3>3, Zenon DEF Finishing, On
    <3>4. CASE work.step \notin After("wait")
      <4>1. work.step = "wait" /\ VMUserCreated /\ job[r].ok
        BY <3>2, <3>4, Onward, AfterWait, Zenon
      <4>2. U!Returned(r)
        BY <3>2, <4>1, Zenon DEF VMUserCreated, U!Take
      <4>3. job[r] # None /\ job[r].op = "create" /\ job[r].owner = cm[r].uid /\ job[r].step = "returned"
        BY <1>2, <3>2, <4>1, <4>2, Zenon DEF Busy, U!Returned
      <4> QED
        BY <2>1, <2>2, <2>5, <4>1, <4>3, Zenon DEF Making
    <3> QED
      BY <3>3, <3>4, Zenon
  <2>6. ASSUME Others(r) PROVE Finished(r)'
    <3> SUFFICES ASSUME r \notin queue', ~On(r)' PROVE AllMade(r)'
      BY Zenon DEF Finished
    <3>1. /\ r \notin queue
          /\ ~On(r) \/ (On(r) /\ work.step = "audit" /\ work.cm = cm[r])
      BY <2>1, Resting, Zenon
    <3>2. AllMade(r)
      BY <2>1, <3>1, AfterWait, Zenon DEF Finished, Finishing
    <3> QED
      BY <2>2, <2>6, <3>2, Zenon
  <2> QED
    BY <2>3, <2>4, <2>5, <2>6, CallOrOthers, Zenon
<1> QED
  BY <1>1, <1>2, CmStep, Zenon DEF EditTo

----------------------------------------------------------------------------
(* Everything else.                                                        *)

Creating == {"rules", "rulesMcs", "group", "traces", "logs", "audit"}

\* The order of the steps, as a set of later ones for each.
LEMMA AfterFacts ==
  /\ After("rules") = {"rulesMcs", "user", "wait", "group", "traces", "logs", "audit"}
  /\ After("rulesMcs") = {"user", "wait", "group", "traces", "logs", "audit"}
  /\ After("group") = {"traces", "logs", "audit"}
  /\ After("traces") = {"logs", "audit"}
  /\ After("logs") = {"audit"}
  /\ After("audit") = {}
  BY Zenon DEF After

\* A step is done because it was done, or because it is this step.
LEMMA DoneStep ==
  ASSUME Housekeeping, [Next]_vars, NEW r \in Regionals, NEW step \in Creating, Done(r, step)'
  PROVE  /\ cm[r] # None /\ cm'[r] = cm[r] /\ uids'[r] = uids[r] /\ r \notin queue
         /\ On(r) => work.cm = cm[r]
         /\ \/ Done(r, step)
            \/ /\ On(r) /\ work.step = step
               /\ \/ step = "rules" /\ CreateVmRulesConfigMap
                  \/ step = "rulesMcs" /\ CreateOrUpdateMcsForVmRulesPropagation
                  \/ step = "group" /\ CreateOrUpdatePromxyServerGroup /\ work' # None
                  \/ step = "traces" /\ CreateOrUpdateTracesStorageConnection
                  \/ step = "logs" /\ CreateOrUpdateLogsStorageConnection
                  \/ step = "audit" /\ CreateOrUpdateAuditLogsStorageConnection
<1> USE DEF Housekeeping
<1>1. cm[r] # None /\ cm'[r] = cm[r] /\ uids'[r] = uids[r]
  BY CmStep, Zenon DEF EditTo, Done
<1>2. CASE ~On(r)'
  <2>1. /\ r \notin queue
        /\ \/ ~On(r)
           \/ On(r) /\ work.step = "audit" /\ work.cm = cm[r] /\ CreateOrUpdateAuditLogsStorageConnection
    BY <1>1, <1>2, Resting, Zenon DEF Done
  <2>2. step = "audit" \/ "audit" \in After(step)
    BY AfterFacts, Zenon DEF Creating
  <2> QED
    BY <1>1, <2>1, <2>2, Zenon DEF Done
<1>3. CASE On(r)'
  <2>1. work'.step \in After(step) /\ r \notin queue'
    BY <1>3, Zenon DEF Done
  <2>2. ~TakeRequest /\ ~Restart
    BY <1>3, <2>1, TakeFacts, AfterFacts, Zenon DEF Creating, Restart, On
  <2>3. r \notin queue
    BY <2>1, <2>2, QueueStep, Zenon
  <2>4. work # None /\ work' # None /\ work.r = r
    BY <1>3, <2>2, WorkStep, Zenon DEF On
  <2>5. work.cm = cm[r]
    BY <2>3, <2>4, Zenon DEF Current
  <2>6. CASE work.step \in After(step)
    BY <1>1, <2>3, <2>4, <2>5, <2>6, Zenon DEF Done, On
  <2>7. CASE work.step \notin After(step)
    <3>1. work'.step # work.step
      BY <2>1, <2>7, Zenon
    <3> QED
      BY <1>1, <2>1, <2>3, <2>4, <2>5, <2>7, <3>1, Onward, AfterFacts, ZenonT(60) DEF On, Creating
  <2> QED
    BY <2>6, <2>7, Zenon
<1> QED
  BY <1>2, <1>3, Zenon

\* Without a regional cluster nothing is propagated.
LEMMA MadeMcsStep == TypeInv /\ MadeMcs /\ [Next]_vars => MadeMcs'
<1> SUFFICES ASSUME TypeInv, MadeMcs, [Next]_vars, Regionless
             PROVE  mcs' = {} /\ \A u \in Users : job'[u] # None /\ job'[u].op = "create" => job'[u].step # "mcs"
  BY Zenon DEF MadeMcs
<1>1. mcs = {} /\ \A u \in Users : job[u] # None /\ job[u].op = "create" => job[u].step # "mcs"
  BY Zenon DEF MadeMcs
<1>2. mcs' = {}
  <2>1. CASE ManagerCall
    <3>1. PICK u \in Users : U!Call(u)
      BY <2>1, Zenon DEF ManagerCall
    <3> QED
      BY <1>1, <3>1, Zenon DEF U!Call, U!At, U!CreateSecret, U!CopySecret, U!createOrUpdateVMUser,
         U!createOrUpdatePropagationMCS, U!DeleteMCS, U!DeleteVMUser, U!DeleteSecret, U!DeleteCopy
  <2> QED
    BY <1>1, <2>1, UsersStep, Zenon DEF U!CollectCredentials
<1>3. ASSUME NEW u \in Users, job'[u] # None, job'[u].op = "create" PROVE job'[u].step # "mcs"
  <2>1. CASE job'[u] = job[u]
    BY <1>1, <1>3, <2>1, Zenon
  <2>2. CASE ManagerCall \/ ManagerFails
    <3>1. PICK v \in Users : U!Call(v) \/ U!CallFails(v)
      BY <2>2, Zenon DEF ManagerCall, ManagerFails
    <3>2. CASE v # u
      BY <3>1, <3>2, <2>1, ManagerJob, Zenon
    <3>3. CASE v = u
      <4>1. job[u] \in Jobs /\ job[u].op = "create"
        BY <1>3, <3>1, <3>3, ManagerJob, JobFacts, Zenon DEF TypeInv
      <4>2. CASE U!CreateSecret(u)
        <5>1. PICK pw : job' = [job EXCEPT ![u].step = "copy", ![u].pw = pw]
          BY <4>2, Zenon DEF U!CreateSecret
        <5> QED
          BY <4>1, <5>1, Zenon DEF TypeInv, UserType, Jobs
      <4>3. CASE U!CopySecret(u)
        BY <4>1, <4>3, Zenon DEF U!CopySecret, U!Advance, TypeInv, UserType, Jobs
      <4>4. CASE \E ok \in BOOLEAN : U!Return(u, ok)
        BY <4>1, <4>4 DEF U!Return, TypeInv, UserType, Jobs
      <4> QED
        BY <3>1, <3>3, <4>1, <4>2, <4>3, <4>4, ZenonT(60)
        DEF U!Call, U!CallFails, U!At, U!createOrUpdateVMUser, U!createOrUpdatePropagationMCS,
            U!DeleteMCS, U!DeleteVMUser, U!DeleteSecret, U!DeleteCopy
    <3> QED
      BY <3>2, <3>3, Zenon
  <2>3. CASE TakeRequest
    <3>1. PICK q \in queue : U!Delete(q) \/ UNCHANGED job
      BY <2>3, Zenon DEF TakeRequest
    <3>2. U!Delete(q) => job'[u] = job[u] \/ job'[u].op = "delete"
      BY SMTT(20) DEF U!Delete, TypeInv, UserType
    <3> QED
      BY <1>3, <2>1, <3>1, <3>2, Zenon
  <2>4. CASE CreateVMUser \/ CreateVMUserCredentials
    <3>1. PICK v, o : U!Create(v, o)
      BY <2>4, Zenon DEF CreateVMUser, CreateVMUserCredentials
    <3>2. job'[u] = job[u] \/ job'[u].step = "secret"
      BY <3>1, Zenon DEF U!Create, TypeInv, UserType
    <3> QED
      BY <2>1, <3>2, Zenon
  <2>5. CASE VMUserCreated \/ CleanupVmRulesMcsPropagation \/ ChildReturns
    <3>1. PICK v : U!Take(v)
      BY <2>5, Zenon DEF VMUserCreated, CleanupVmRulesMcsPropagation, ChildReturns
    <3>2. job'[u] = job[u] \/ job'[u] = None
      BY <3>1, Zenon DEF U!Take, TypeInv, UserType
    <3> QED
      BY <1>3, <2>1, <3>2, Zenon
  <2>6. CASE Restart
    BY <1>3, <2>6, Zenon DEF Restart
  <2> QED
    BY <2>1, <2>2, <2>3, <2>4, <2>5, <2>6, JobFrame, Zenon
<1> QED
  BY <1>2, <1>3, Zenon

\* The rules and their propagation.
LEMMA MadeRulesStep == Housekeeping /\ MadeRules /\ [Next]_vars => MadeRules'
<1> SUFFICES ASSUME Housekeeping, MadeRules, [Next]_vars, NEW r \in Regionals
             PROVE  /\ Done(r, "rules")' /\ uids'[r] = 1 => rules'[r] # None
                    /\ Done(r, "rulesMcs")' /\ r \in KcmRegions => r \in rulesMcs'
  BY Zenon DEF MadeRules
<1> USE DEF Housekeeping
<1>1. ASSUME Done(r, "rules")', uids'[r] = 1 PROVE rules'[r] # None
  <2>1. /\ cm[r] # None /\ uids[r] = 1 /\ (On(r) => work.cm = cm[r])
        /\ Done(r, "rules") \/ (On(r) /\ CreateVmRulesConfigMap)
    BY <1>1, DoneStep, Zenon DEF Creating
  <2>2. cm[r].uid = 1 /\ Alive(r) = {1}
    BY <2>1, Zenon DEF Owned, Uids, Alive
  <2>3. rules[r] # None => rules[r] \in Alive(r)
    BY <2>1, <2>2 DEF Owned, OwnedRules
  <2>4. CASE CreateVmRulesConfigMap
    <3>1. rules' = [rules EXCEPT ![work.r] = IF @ = None THEN work.cm.uid ELSE @] /\ work # None
      BY <2>4, Zenon DEF CreateVmRulesConfigMap, At
    <3>2. CASE On(r)
      <4>1. rules'[r] = IF rules[r] = None THEN 1 ELSE rules[r]
        BY <3>1, <3>2, <2>1, <2>2, Zenon DEF On, TypeInv, OwnType
      <4> QED
        BY <4>1, NoneAssumption
    <3>3. CASE ~On(r)
      <4>1. rules[r] # None
        BY <2>1, <3>3, Zenon DEF MadeRules
      <4>2. rules'[r] = rules[r]
        BY <3>1, <3>3, Zenon DEF On, TypeInv, OwnType
      <4> QED
        BY <4>1, <4>2, Zenon
    <3> QED
      BY <3>2, <3>3, Zenon
  <2>5. CASE ~CreateVmRulesConfigMap
    <3>1. rules[r] # None
      BY <2>1, <2>5, Zenon DEF MadeRules
    <3>2. rules'[r] = rules[r]
      BY <2>3, <2>5, <3>1, RulesStep, Zenon DEF TypeInv, OwnType
    <3> QED
      BY <3>1, <3>2
  <2> QED
    BY <2>4, <2>5, Zenon
<1>2. ASSUME Done(r, "rulesMcs")', r \in KcmRegions PROVE r \in rulesMcs'
  <2>1. /\ cm[r] # None /\ r \notin queue /\ (On(r) => work.cm = cm[r])
        /\ Done(r, "rulesMcs") \/ (On(r) /\ CreateOrUpdateMcsForVmRulesPropagation)
    BY <1>2, DoneStep, Zenon DEF Creating
  <2>2. CASE On(r) /\ CreateOrUpdateMcsForVmRulesPropagation
    BY <1>2, <2>2, Zenon DEF CreateOrUpdateMcsForVmRulesPropagation, On
  <2>3. CASE Done(r, "rulesMcs")
    <3>1. r \in rulesMcs
      BY <1>2, <2>3, Zenon DEF MadeRules
    <3>2. ~(On(r) /\ At("cleanup"))
      BY <2>1, WorkFacts, Zenon DEF At, TypeInv
    <3> QED
      BY <3>1, <3>2, RulesMcsStep, Zenon
  <2> QED
    BY <2>1, <2>2, <2>3, Zenon
<1> QED
  BY <1>1, <1>2, Zenon

\* The group.
LEMMA MadeGroupStep == Housekeeping /\ MadeGroup /\ [Next]_vars => MadeGroup'
<1> SUFFICES ASSUME Housekeeping, MadeGroup, [Next]_vars, NEW r \in Regionals, Done(r, "group")'
             PROVE  /\ group'[r] # None /\ group'[r].owner = cm'[r].uid
                    /\ group'[r].spec = Target(r, cm'[r].data)
  BY Zenon DEF MadeGroup, Target, GetReadEndpoint, parsePort
<1> USE DEF Housekeeping
<1>1. /\ cm[r] # None /\ cm'[r] = cm[r] /\ (On(r) => work.cm = cm[r])
      /\ \/ Done(r, "group")
         \/ On(r) /\ work.step = "group" /\ CreateOrUpdatePromxyServerGroup /\ work' # None
  BY DoneStep, Zenon DEF Creating
<1>2. CASE Done(r, "group")
  <2>1. group[r] # None /\ group[r].owner = cm[r].uid /\ group[r].spec = Target(r, cm[r].data)
    BY <1>2, Zenon DEF MadeGroup
  <2>2. Alive(r) = {cm[r].uid}
    BY <1>1, Zenon DEF Alive
  <2>3. ~(On(r) /\ At("group"))
    BY <1>2, AfterFacts, Zenon DEF Done, At
  <2>4. group'[r] = group[r]
    <3>1. CASE At("group") /\ \E g : group' = [group EXCEPT ![work.r] = g]
      BY <2>3, <3>1, Zenon DEF At, On, TypeInv, PromxyType
    <3>2. CASE \E q \in Regionals : group[q].owner \notin Alive(q) /\ group' = [group EXCEPT ![q] = None]
      BY <2>1, <2>2, <3>2, Zenon DEF TypeInv, PromxyType
    <3> QED
      BY <3>1, <3>2, GroupStep, Zenon DEF P!PutGroup
  <2> QED
    BY <1>1, <2>1, <2>4, Zenon
<1>3. CASE On(r) /\ work.step = "group" /\ CreateOrUpdatePromxyServerGroup /\ work' # None
  <2>1. work # None /\ work.r = r /\ work.cm = cm[r] /\ work.cm.uid \in Nat /\ work.cm.data \in Data
    BY <1>1, <1>3, WorkFacts, Zenon DEF On, TypeInv
  <2> DEFINE new == [secretName |-> "promxy-config", cred |-> r,
                     spec |-> Target(r, cm[r].data), owner |-> cm[r].uid]
  <2>2. group' = [group EXCEPT ![r] = new]
    BY <1>3, <2>1, Zenon DEF CreateOrUpdatePromxyServerGroup, P!PutGroup, Retry
  <2>3. new \in GroupObjects
    BY <2>1, SpecType, Zenon DEF GroupObjects
  <2>4. new # None /\ new.owner = cm[r].uid /\ new.spec = Target(r, cm[r].data)
    BY <2>3, NoneAssumption, Zenon
  <2> HIDE DEF new
  <2>5. group'[r] = new
    BY <2>2, Zenon DEF TypeInv, PromxyType
  <2> QED
    BY <1>1, <2>4, <2>5, Zenon
<1> QED
  BY <1>1, <1>2, <1>3, Zenon

\* A connection that a step of this ConfigMap wrote.
LEMMA WritesFacts ==
  ASSUME Housekeeping, NEW t \in Sinks, Writes(t)
  PROVE  /\ work # None /\ work.r \in Regionals /\ work.step = t /\ work.cm # None
         /\ \A r \in Regionals, s \in Sinks : ~(r = work.r /\ s = t) => conn'[<<r, s>>] = conn[<<r, s>>]
         /\ conn'[<<work.r, t>>] # None
         /\ conn'[<<work.r, t>>].data = GetReadEndpoint(work.r, work.cm.data)
         /\ conn'[<<work.r, t>>].deleting = (conn[<<work.r, t>>] # None /\ conn[<<work.r, t>>].deleting)
<1>1. work # None /\ work.step = t /\ t # "cleanup"
  BY Zenon DEF Writes, At, Sinks
<1>2. work.r \in Regionals /\ work.cm # None /\ work.cm.uid \in Nat /\ work.cm.data \in Data
  BY <1>1, WorkFacts, Zenon DEF Housekeeping, TypeInv
<1>3. PICK w \in Regionals : w = work.r
  BY <1>2, Zenon
<1> DEFINE new == [owner |-> work.cm.uid, data |-> GetReadEndpoint(w, work.cm.data),
                   deleting |-> conn[<<w, t>>] # None /\ conn[<<w, t>>].deleting]
<1>4. conn' = [conn EXCEPT ![<<w, t>>] = new]
  BY <1>3, Zenon DEF Writes, PutConn
<1>5. new \in Connections
  <2>1. (conn[<<w, t>>] # None /\ conn[<<w, t>>].deleting) \in BOOLEAN
    <3>1. CASE conn[<<w, t>>] = None
      BY <3>1, Zenon
    <3>2. CASE conn[<<w, t>>] # None
      BY <3>2, Zenon DEF Housekeeping, TypeInv, OwnType, Connections
    <3> QED
      BY <3>1, <3>2, Zenon
  <2>2. GetReadEndpoint(w, work.cm.data) \in Data \cup {LocalEndpoint}
    BY <1>2, <1>3, SpecType, Zenon
  <2> QED
    BY <1>2, <2>1, <2>2, Zenon DEF Connections
<1>6. new # None
  BY <1>5, NoneAssumption, Zenon
<1>7. /\ new.data = GetReadEndpoint(w, work.cm.data)
      /\ new.deleting = (conn[<<w, t>>] # None /\ conn[<<w, t>>].deleting)
  OBVIOUS
<1> HIDE DEF new
<1>8. conn'[<<w, t>>] = new
  BY <1>4, Zenon DEF Housekeeping, TypeInv, OwnType
<1>9. \A r \in Regionals, s \in Sinks : ~(r = w /\ s = t) => conn'[<<r, s>>] = conn[<<r, s>>]
  BY <1>4, Zenon DEF Housekeeping, TypeInv, OwnType
<1> QED
  BY <1>1, <1>2, <1>3, <1>6, <1>7, <1>8, <1>9, Zenon

\* The connections, unless the ConfigMap was created anew.
LEMMA MadeConnsStep == Housekeeping /\ MadeConns /\ [Next]_vars => MadeConns'
<1> SUFFICES ASSUME Housekeeping, MadeConns, [Next]_vars, NEW r \in Regionals, NEW s \in Sinks,
                    uids'[r] = 1
             PROVE  /\ cm'[r] # None /\ conn'[<<r, s>>] # None => ~conn'[<<r, s>>].deleting
                    /\ Done(r, s)' /\ Configured(s) =>
                         conn'[<<r, s>>] # None /\ conn'[<<r, s>>].data = GetReadEndpoint(r, cm'[r].data)
  BY Zenon DEF MadeConns, Endpoint, GetReadEndpoint, Configured
<1> USE DEF Housekeeping
<1> <<r, s>> \in Regionals \X Sinks /\ DOMAIN conn = Regionals \X Sinks
  BY Zenon DEF TypeInv, OwnType
<1>1. ASSUME cm'[r] # None
      PROVE  cm[r] # None /\ uids[r] = 1 /\ cm[r].uid = 1 /\ Alive(r) = {1}
  <2>1. uids[r] \in Nat /\ uids[r] >= 1
    BY Zenon DEF Owned, Uids, TypeInv, OwnType
  <2>2. cm[r] # None /\ uids[r] = 1
    BY <1>1, <2>1, CmStep, SMTT(20) DEF EditTo
  <2> QED
    BY <2>2, Zenon DEF Owned, Uids, Alive
<1>2. ASSUME cm'[r] # None, NEW c \in DOMAIN conn, conn[c] # None, conn[c].owner \notin Alive(c[1])
      PROVE  c # <<r, s>>
  BY <1>1, <1>2, SMTT(20) DEF Owned, OwnedConns
<1>3. ASSUME cm'[r] # None, NEW c \in DOMAIN conn, conn[c] # None, conn[c].deleting
      PROVE  c # <<r, s>>
  BY <1>1, <1>3, Zenon DEF MadeConns
<1>4. ASSUME cm'[r] # None
      PROVE  \/ conn'[<<r, s>>] = conn[<<r, s>>]
             \/ Writes(s) /\ work # None /\ work.r = r
  <2>1. CASE \E t \in Sinks : Writes(t)
    BY <2>1, WritesFacts, ZenonT(60)
  <2>2. CASE \E c \in DOMAIN conn :
              /\ conn[c] # None /\ conn[c].owner \notin Alive(c[1])
              /\ conn' = [conn EXCEPT ![c].deleting = TRUE]
    <3>1. PICK c \in DOMAIN conn : c # <<r, s>> /\ conn' = [conn EXCEPT ![c].deleting = TRUE]
      BY <1>2, <1>4, <2>2, Zenon
    <3> QED
      BY <3>1, Zenon DEF TypeInv, OwnType
  <2>3. CASE \E c \in DOMAIN conn : conn[c] # None /\ conn[c].deleting /\ conn' = [conn EXCEPT ![c] = None]
    <3>1. PICK c \in DOMAIN conn : c # <<r, s>> /\ conn' = [conn EXCEPT ![c] = None]
      BY <1>3, <1>4, <2>3, Zenon
    <3> QED
      BY <3>1, Zenon DEF TypeInv, OwnType
  <2> QED
    BY <2>1, <2>2, <2>3, ConnStep, ZenonT(60)
<1>5. ASSUME cm'[r] # None, conn'[<<r, s>>] # None PROVE ~conn'[<<r, s>>].deleting
  <2>1. conn[<<r, s>>] # None => ~conn[<<r, s>>].deleting
    BY <1>1, <1>5, Zenon DEF MadeConns
  <2>2. CASE conn'[<<r, s>>] = conn[<<r, s>>]
    BY <1>5, <2>1, <2>2, Zenon
  <2>3. CASE Writes(s) /\ work # None /\ work.r = r
    BY <2>1, <2>3, WritesFacts, Zenon
  <2> QED
    BY <1>4, <1>5, <2>2, <2>3, Zenon
<1>6. ASSUME Done(r, s)', Configured(s)
      PROVE  conn'[<<r, s>>] # None /\ conn'[<<r, s>>].data = GetReadEndpoint(r, cm'[r].data)
  <2>1. /\ cm'[r] # None /\ cm'[r] = cm[r] /\ (On(r) => work.cm = cm[r])
        /\ \/ Done(r, s)
           \/ /\ On(r) /\ work.step = s
              /\ \/ s = "traces" /\ CreateOrUpdateTracesStorageConnection
                 \/ s = "logs" /\ CreateOrUpdateLogsStorageConnection
                 \/ s = "audit" /\ CreateOrUpdateAuditLogsStorageConnection
    BY <1>6, DoneStep, Zenon DEF Creating, Sinks
  <2>2. CASE Writes(s) /\ work # None /\ work.r = r
    BY <2>1, <2>2, WritesFacts, ZenonT(60) DEF On
  <2>3. CASE Done(r, s) /\ conn'[<<r, s>>] = conn[<<r, s>>]
    BY <1>1, <1>6, <2>1, <2>3, Zenon DEF MadeConns, Endpoint
  <2>4. CASE ~Done(r, s)
    <3>1. Writes(s)
      BY <1>6, <2>1, <2>4, Zenon DEF Writes, Configured, Goto, CreateOrUpdateTracesStorageConnection,
         CreateOrUpdateLogsStorageConnection, CreateOrUpdateAuditLogsStorageConnection
    <3> QED
      BY <2>1, <2>2, <2>4, <3>1, Zenon DEF On
  <2> QED
    BY <2>1, <2>2, <2>3, <2>4, <1>4, Zenon
<1> QED
  BY <1>5, <1>6, Zenon

Building == Housekeeping /\ Credentials /\ Made

\* Initially nothing is made and every ConfigMap is queued.
LEMMA BuildingInit == Init => Building
<1> SUFFICES ASSUME Init PROVE Building
  OBVIOUS
<1> USE DEF Init, U!VMUserInit, P!PromxyInit
<1>1. \A r \in Regionals : cm[r] # None => r \in queue
  OBVIOUS
<1>2. \A u \in Users : job[u] = None
  OBVIOUS
<1>3. Credentials
  BY <1>1, <1>2, Sets, Zenon DEF Credentials, Making, Finishing, Finished, On
<1>4. MadeMcs
  BY <1>2, Zenon DEF MadeMcs
<1>5. MadeRules /\ MadeGroup
  BY <1>1, Zenon DEF MadeRules, MadeGroup, Done
<1>6. MadeConns
  BY <1>1, Zenon DEF MadeConns, Done
<1> QED
  BY <1>3, <1>4, <1>5, <1>6, HousekeepingInit, ZenonT(60) DEF Building, Made

\* Every step keeps what is made for the ConfigMap there is.
LEMMA BuildingStep == Building /\ [Next]_vars => Building'
<1> SUFFICES ASSUME Building, [Next]_vars PROVE Building'
  OBVIOUS
<1>1. Housekeeping /\ Credentials /\ Made /\ TypeInv
  BY Zenon DEF Building, Housekeeping
<1>2. Housekeeping' /\ Credentials'
  BY <1>1, HousekeepingStep, CredentialsStep, Zenon
<1>3. Made'
  BY <1>1, MadeMcsStep, MadeRulesStep, MadeGroupStep, MadeConnsStep, ZenonT(60) DEF Made
<1> QED
  BY <1>2, <1>3, Zenon DEF Building

\* At rest every regional has all that is made from its ConfigMap as it is now: the
\* credentials with the copy Promxy reads, the propagation, the group, and, unless the
\* ConfigMap was created anew under its name, the rules and the connections
\* (RegionalClusterConfigMap.Reconcile, Manager.Create).
THEOREM ProvisionedHolds == Spec => []Provisioned
<1>1. Building => Provisioned
  <2> SUFFICES ASSUME Building, Quiet, NEW r \in Live
               PROVE  /\ secret[r] # None /\ copy[r] = secret[r].pw /\ vmuser[r] # None
                      /\ r \in mcs <=> ~Regionless
                      /\ r \in KcmRegions => r \in rulesMcs
                      /\ group[r] # None /\ group[r].spec = Target(r, cm[r].data)
                      /\ uids[r] = 1 =>
                           /\ rules[r] # None
                           /\ \A c \in {d \in DOMAIN conn : d[1] = r} :
                                (IF c[2] = "traces" THEN VTCluster ELSE VLCluster) # None =>
                                  conn[c] # None /\ conn[c].data = GetReadEndpoint(r, cm[r].data)
    BY Zenon DEF Provisioned
  <2> USE DEF Building
  <2>1. r \in Regionals /\ cm[r] # None /\ r \notin queue /\ ~On(r)
    BY Zenon DEF Live, Quiet, On
  <2>2. AllMade(r)
    BY <2>1, Zenon DEF Credentials, Finished
  <2>3. secret[r] # None /\ copy[r] = secret[r].pw /\ vmuser[r] # None
    BY <2>2, Zenon DEF AllMade, UserMade, CopyMade, SecretMade
  <2>4. r \in mcs <=> ~Regionless
    BY <2>2, KindAssumption, Zenon DEF AllMade, Made, MadeMcs
  <2>5. \A step \in Creating : Done(r, step)
    BY <2>1, Zenon DEF Done
  <2>6. r \in KcmRegions => r \in rulesMcs
    BY <2>1, <2>5, Zenon DEF Made, MadeRules, Creating
  <2>7. group[r] # None /\ group[r].spec = Target(r, cm[r].data)
    BY <2>1, <2>5, Zenon DEF Made, MadeGroup, Creating
  <2>8. uids[r] = 1 => rules[r] # None
    BY <2>1, <2>5, Zenon DEF Made, MadeRules, Creating
  <2>9. ASSUME uids[r] = 1, NEW c \in {d \in DOMAIN conn : d[1] = r},
               (IF c[2] = "traces" THEN VTCluster ELSE VLCluster) # None
        PROVE  conn[c] # None /\ conn[c].data = GetReadEndpoint(r, cm[r].data)
    <3>1. DOMAIN conn = Regionals \X Sinks
      BY Zenon DEF Housekeeping, TypeInv, OwnType
    <3>2. c = <<r, c[2]>> /\ c[2] \in Sinks
      BY <3>1, SMTT(20)
    <3>3. Configured(c[2]) /\ Done(r, c[2])
      BY <2>5, <2>9, <3>2, Zenon DEF Configured, Creating, Sinks
    <3> QED
      BY <2>1, <2>9, <3>2, <3>3, Zenon DEF Made, MadeConns, Endpoint
  <2> QED
    BY <2>3, <2>4, <2>6, <2>7, <2>8, <2>9, Zenon
<1> QED
  BY <1>1, BuildingInit, BuildingStep, PTL DEF Spec

----------------------------------------------------------------------------
(* Promxy.                                                                 *)

\* The password Promxy reads for the group of the ConfigMap there is now does not change.
LEMMA NowKept ==
  ASSUME Building, GroupAfterCredentials, [Next]_vars, NEW r \in Regionals, Now(r)', group'[r] = group[r]
  PROVE  Now(r) /\ cm'[r].uid = cm[r].uid /\ copy'[r] = copy[r] /\ CopyMade(r)'
<1> USE DEF Building, Housekeeping
<1>1. Now(r) /\ cm'[r].uid = cm[r].uid
  <2>1. group[r] # None /\ group[r].owner \in 1..uids[r] /\ group[r].owner = cm'[r].uid /\ cm'[r] # None
    BY Zenon DEF Now, Owned, OwnedGroups
  <2>2. uids[r] \in Nat
    BY Zenon DEF TypeInv, OwnType
  <2>3. CASE EditTo(r)
    BY <2>1, <2>2, <2>3, SMTT(20) DEF EditTo, Now
  <2>4. CASE cm'[r] = cm[r]
    BY <2>1, <2>4, Zenon DEF Now
  <2> QED
    BY <2>3, <2>4, CmStep, Zenon DEF EditTo
<1>2. cm[r] # None /\ CopyMade(r) /\ (On(r) => work.cm # None /\ work.cm.uid = cm[r].uid)
  BY <1>1, Zenon DEF GroupAfterCredentials, Now
<1>3. CASE Others(r)
  BY <1>1, <1>2, <1>3, Kept, MadeKept, Zenon
<1>4. CASE ManagerCall /\ U!Call(r)
  <2>1. r \in Users /\ job[r] # None /\ job[r] \in Jobs
    BY <1>4, Sets, ManagerJob, JobFacts, Zenon DEF TypeInv
  <2>2. On(r) /\ work.step # "cleanup"
    BY <1>2, <2>1, WorkFacts, Zenon DEF Busy, On, TypeInv
  <2>3. job[r].op = "create" /\ job[r].owner = cm[r].uid
    BY <1>2, <2>1, <2>2, Zenon DEF Busy
  <2>4. Making(r) /\ cm' = cm
    BY <1>2, <1>4, Zenon DEF Credentials, ManagerCall, own
  <2>5. secret[r] # None /\ secret[r].owner = cm[r].uid /\ copy[r] = secret[r].pw
    BY <1>2, Zenon DEF CopyMade, SecretMade
  <2>6. CASE U!CreateSecret(r)
    <3>1. secret' = [secret EXCEPT ![r] = [pw |-> secret[r].pw, owner |-> job[r].owner]] /\ copy' = copy
      BY <2>5, <2>6, Zenon DEF U!CreateSecret
    <3>2. secret'[r] = [pw |-> secret[r].pw, owner |-> job[r].owner]
      BY <2>1, <3>1, Zenon DEF TypeInv, UserType
    <3>3. secret[r] \in Secrets
      BY <2>1, <2>5, Zenon DEF TypeInv, UserType
    <3>4. secret'[r] \in Secrets
      BY <2>1, <3>2, <3>3, SMTT(20) DEF Secrets, Jobs
    <3>5. secret'[r] # None /\ secret'[r].owner = cm'[r].uid /\ secret'[r].pw = secret[r].pw
      BY <2>3, <2>4, <3>2, <3>4, NoneAssumption, SMTT(20)
    <3> QED
      BY <1>1, <2>5, <3>1, <3>5, Zenon DEF CopyMade, SecretMade
  <2>7. CASE U!CopySecret(r)
    <3>1. job[r].pw = secret[r].pw
      BY <2>1, <2>3, <2>4, <2>7, Zenon DEF Making, U!CopySecret, U!At
    <3>2. copy'[r] = job[r].pw /\ secret' = secret
      BY <2>1, <2>7, Zenon DEF U!CopySecret, TypeInv, UserType
    <3> QED
      BY <1>1, <2>4, <2>5, <3>1, <3>2, Zenon DEF CopyMade, SecretMade
  <2>8. CASE UNCHANGED <<secret, copy>>
    BY <1>1, <2>4, <2>5, <2>8, Zenon DEF CopyMade, SecretMade
  <2> QED
    BY <1>4, <2>3, <2>6, <2>7, <2>8, ZenonT(60)
    DEF U!Call, U!At, U!createOrUpdateVMUser, U!createOrUpdatePropagationMCS, U!DeleteMCS,
        U!DeleteVMUser, U!DeleteSecret, U!DeleteCopy
<1> QED
  BY <1>3, <1>4, CallOrOthers, Zenon

\* A group is only written for a ConfigMap whose credentials have been made.
LEMMA GroupAfterCredentialsStep ==
  Building /\ GroupAfterCredentials /\ [Next]_vars => GroupAfterCredentials'
<1> SUFFICES ASSUME Building, GroupAfterCredentials, [Next]_vars, NEW r \in Regionals, Now(r)'
             PROVE  CopyMade(r)' /\ (On(r)' => work'.cm # None /\ work'.cm.uid = cm'[r].uid)
  BY Zenon DEF GroupAfterCredentials
<1> USE DEF Building, Housekeeping
<1>1. CASE group'[r] = group[r]
  <2>1. Now(r) /\ cm'[r].uid = cm[r].uid /\ CopyMade(r)'
    BY <1>1, NowKept, Zenon
  <2>2. ASSUME On(r)' PROVE work'.cm # None /\ work'.cm.uid = cm'[r].uid
    <3>1. CASE TakeRequest
      BY <2>2, <3>1, TakeFacts, Zenon DEF On, Now
    <3>2. CASE On(r) /\ work'.cm = work.cm
      BY <2>1, <3>2, Zenon DEF GroupAfterCredentials
    <3> QED
      BY <2>2, <3>1, <3>2, WorkStep, Zenon DEF On
  <2> QED
    BY <2>1, <2>2, Zenon
<1>2. CASE group'[r] # group[r]
  <2>1. ASSUME NEW q \in Regionals, P!PutGroup(q, None) PROVE FALSE
    BY <1>2, <2>1, Zenon DEF P!PutGroup, Now, TypeInv, PromxyType
  <2>2. /\ At("group") /\ Goto("traces") /\ UNCHANGED <<cm, uids, users>>
        /\ P!PutGroup(work.r, [secretName |-> "promxy-config", cred |-> work.r,
                               spec |-> Target(work.r, work.cm.data), owner |-> work.cm.uid])
    BY <1>2, <2>1, GroupStep, Zenon
  <2>3. /\ work # None /\ work.step = "group" /\ work.r \in Regionals /\ work.cm # None
        /\ work' # None /\ work'.r = work.r /\ work'.cm = work.cm
    BY <2>2, GotoFacts, Zenon DEF Handling, TypeInv
  <2>4. work.r = r
    BY <1>2, <2>2, <2>3, Zenon DEF P!PutGroup, TypeInv, PromxyType
  <2>5. group'[r].owner = work.cm.uid
    BY <2>2, <2>3, <2>4, Zenon DEF P!PutGroup, TypeInv, PromxyType
  <2>6. work.cm.uid = cm[r].uid /\ cm[r] # None
    BY <2>2, <2>5, Zenon DEF Now
  <2>7. AllMade(r)
    BY <2>3, <2>4, <2>6, AfterWait, Zenon DEF Credentials, Finishing, On
  <2>8. CopyMade(r)'
    BY <2>2, <2>7, Zenon DEF AllMade, UserMade, CopyMade, SecretMade, users
  <2> QED
    BY <2>2, <2>3, <2>6, <2>8, Zenon
<1> QED
  BY <1>1, <1>2, Zenon

\* A good configuration stays good while the groups stay.
LEMMA GoodKept ==
  ASSUME Building, GroupAfterCredentials, [Next]_vars, group' = group, NEW data, Good(data)
  PROVE  Good(data)'
<1>1. GroupNames' = GroupNames
  BY Zenon DEF GroupNames
<1>2. ASSUME NEW r \in GroupNames, Now(r)' PROVE data[r].pw = copy'[r]
  <2>1. r \in Regionals
    BY Zenon DEF GroupNames
  <2>2. Now(r) /\ copy'[r] = copy[r]
    BY <1>2, <2>1, NowKept, Zenon
  <2> QED
    BY <2>2, Zenon DEF Good
<1> QED
  BY <1>1, <1>2, Zenon DEF Good

\* A changed group is an event.
LEMMA AskedStep ==
  ASSUME TypeInv, [Next]_vars, asked' = FALSE PROVE group' = group
<1>1. ASSUME NEW g \in Regionals, NEW new, P!PutGroup(g, new) PROVE group' = group
  BY <1>1, Zenon DEF P!PutGroup, TypeInv, PromxyType
<1>2. At("group") => work.r \in Regionals
  BY WorkFacts, Zenon DEF At, TypeInv
<1> QED
  BY <1>1, <1>2, GroupStep, Zenon

\* What is rendered from the groups is good.
LEMMA RenderGood ==
  ASSUME TypeInv, OwnedGroups PROVE Good(P!RenderMetricsSecretTemplate(group, File))
<1> DEFINE data == P!RenderMetricsSecretTemplate(group, File)
<1>1. P!NamedBy(group, File) = GroupNames
  BY Named, Zenon DEF TypeInv, PromxyType, GroupNames
<1>2. data = [r \in GroupNames |-> [spec |-> group[r].spec, pw |-> copy[group[r].cred]]]
  BY <1>1, Zenon DEF P!RenderMetricsSecretTemplate, P!PromxyConfigServerGroup
<1>3. \A r \in GroupNames : group[r].cred = r
  BY Zenon DEF OwnedGroups, GroupNames
<1> HIDE DEF data
<1>4. DOMAIN data = GroupNames /\ data = [r \in GroupNames |-> data[r]]
  BY <1>2, Zenon
<1>5. ASSUME NEW r \in GroupNames
      PROVE  data[r] = [spec |-> group[r].spec, pw |-> data[r].pw] /\ data[r].pw = copy[r]
  BY <1>2, <1>3, <1>5, Zenon
<1>6. Good(data)
  BY <1>4, <1>5, Zenon DEF Good
<1> QED
  BY <1>6, Zenon DEF data

\* Unless an event is waiting, Promxy's configuration was made from the groups and
\* passwords there are now, or is about to be.
LEMMA RenderedStep ==
  Building /\ GroupAfterCredentials /\ Rendered /\ [Next]_vars => Rendered'
<1> SUFFICES ASSUME Building, GroupAfterCredentials, Rendered, [Next]_vars, ~asked'
             PROVE  /\ rec' = None /\ GroupNames' # {} => GoodConfig'
                    /\ rec' # None =>
                         /\ rec'.groups = group'
                         /\ rec'.step = "next" => rec'.left = {File} \/ GroupNames' = {} \/ GoodConfig'
                         /\ rec'.step = "write" => rec'.name = File /\ rec'.left = {} /\ GoodRendering'
                         /\ rec'.step = "reload" => rec'.left = {} /\ GoodConfig'
  BY Zenon DEF Rendered
<1> USE DEF Building, Housekeeping
<1>1. asked' = FALSE /\ asked \in BOOLEAN
  BY TypeStep, Zenon DEF TypeInv, PromxyType
<1>2. group' = group /\ GroupNames' = GroupNames
  BY <1>1, AskedStep, Zenon DEF GroupNames
<1>3. ASSUME GoodConfig, config' = config PROVE GoodConfig'
  BY <1>2, <1>3, GoodKept, Zenon DEF GoodConfig
<1>4. ASSUME GoodRendering, rec'.data = rec.data PROVE GoodRendering'
  BY <1>2, <1>4, GoodKept, Zenon DEF GoodRendering
<1>5. CASE UNCHANGED <<config, rec, asked>>
  <2>1. ~asked
    BY <1>5, Zenon
  <2> QED
    BY <1>2, <1>3, <1>4, <1>5, <2>1, Zenon DEF Rendered
<1>6. CASE PromxyStep
  <2>1. CASE P!Begin
    <3>1. /\ rec'.groups = group /\ rec'.step = "next"
          /\ rec'.left = {n \in {File} : P!NamedBy(group, n) # {}}
      BY <2>1, Zenon DEF P!Begin, File
    <3>2. P!NamedBy(group, File) = GroupNames
      BY Named, Zenon DEF TypeInv, PromxyType, GroupNames
    <3>3. rec' # None
      <4>1. rec' \in Renderings
        BY <2>1, Zenon DEF P!Begin, TypeInv, PromxyType, Renderings
      <4> QED
        BY <4>1, NoneAssumption, Zenon
    <3> QED
      BY <1>2, <3>1, <3>2, <3>3, Zenon
  <2>2. CASE P!Render
    <3>1. ~P!Fail
      BY Zenon DEF P!Fail
    <3>2. PICK n \in rec.left :
            /\ ~\E g \in P!NamedBy(rec.groups, n) : copy[rec.groups[g].cred] = None
            /\ rec' = [rec EXCEPT !.step = "write", !.left = @ \ {n}, !.name = n,
                                  !.data = P!RenderMetricsSecretTemplate(rec.groups, n)]
            /\ UNCHANGED asked
      BY <2>2, <3>1, Zenon DEF P!Render
    <3>3. rec # None /\ rec \in Renderings /\ n = File /\ rec.left = {File}
      BY <2>2, <3>2, RecFacts, Zenon DEF P!Render, TypeInv
    <3>4. rec.groups = group
      BY <3>2, <3>3, Zenon DEF Rendered
    <3>5. PICK d : d = P!RenderMetricsSecretTemplate(group, File)
      OBVIOUS
    <3>6. rec' = [rec EXCEPT !.step = "write", !.left = {}, !.name = File, !.data = d]
      BY <3>2, <3>3, <3>4, <3>5, Zenon
    <3>7. Good(d) /\ d \in Configurations
      BY <3>2, <3>3, <3>4, <3>5, RenderGood, RenderType, ZenonT(60) DEF Owned, TypeInv, PromxyType
    <3>8. rec'.step = "write" /\ rec'.left = {} /\ rec'.name = File /\ rec'.data = d /\ rec'.groups = group
      BY <3>3, <3>4, <3>6, Zenon DEF Renderings
    <3>9. Good(d)'
      BY <1>2, <3>7, GoodKept, Zenon
    <3>10. rec' # None
      <4>1. rec' \in Renderings
        BY <3>3, <3>6, <3>7, Zenon DEF Renderings, File
      <4> QED
        BY <4>1, NoneAssumption, Zenon
    <3> QED
      BY <1>2, <3>8, <3>9, <3>10, Zenon DEF GoodRendering
  <2>3. CASE P!Write
    <3>1. ~asked /\ rec # None /\ rec.step = "write" /\ rec \in Renderings
      BY <2>3, RecFacts, Zenon DEF P!Write, TypeInv
    <3>2. rec.groups = group /\ rec.name = File /\ rec.left = {} /\ GoodRendering
      BY <3>1, Zenon DEF Rendered
    <3>3. rec' = [rec EXCEPT !.step = "reload"] /\ config' = [config EXCEPT ![rec.name] = rec.data]
      BY <2>3, Zenon DEF P!Write
    <3>4. rec'.step = "reload" /\ rec'.groups = rec.groups /\ rec'.left = rec.left /\ rec' \in Renderings
      BY <3>1, <3>3, Zenon DEF Renderings
    <3>5. config'[File] = rec.data
      BY <3>2, <3>3, Zenon DEF TypeInv, PromxyType
    <3>6. PICK d : d = rec.data
      OBVIOUS
    <3>7. Good(d)'
      BY <1>2, <3>2, <3>6, GoodKept, Zenon DEF GoodRendering
    <3> QED
      BY <1>2, <3>2, <3>4, <3>5, <3>6, <3>7, NoneAssumption, ZenonT(60) DEF GoodConfig
  <2>4. CASE P!Reload({})
    <3>1. ~P!Fail
      BY DEF P!Fail
    <3>2. rec' = [rec EXCEPT !.step = "next"] /\ UNCHANGED <<asked, config>>
      BY <2>4, <3>1, Zenon DEF P!Reload
    <3>3. ~asked /\ rec # None /\ rec.step = "reload" /\ rec \in Renderings
      BY <2>4, <3>2, RecFacts, Zenon DEF P!Reload, TypeInv
    <3>4. rec.groups = group /\ rec.left = {} /\ GoodConfig
      BY <3>3, Zenon DEF Rendered
    <3>5. rec'.step = "next" /\ rec'.groups = rec.groups /\ rec' \in Renderings
      BY <3>2, <3>3, Zenon DEF Renderings
    <3> QED
      BY <1>2, <1>3, <3>2, <3>4, <3>5, NoneAssumption, Zenon
  <2>5. CASE P!End
    <3>1. ~asked /\ rec # None /\ rec.step = "next" /\ rec.left = {} /\ rec' = None /\ config' = config
      BY <2>5, Zenon DEF P!End
    <3>2. GroupNames = {} \/ GoodConfig
      BY <3>1, Zenon DEF Rendered
    <3> QED
      BY <1>2, <1>3, <3>1, <3>2, Zenon
  <2> QED
    BY <1>6, <2>1, <2>2, <2>3, <2>4, <2>5, ZenonT(60) DEF PromxyStep, P!Reconcile
<1>7. CASE PromxyFails
  <2>1. ~P!Fail
    BY DEF P!Fail
  <2> QED
    BY <1>7, <2>1, Zenon DEF PromxyFails, P!Interrupt, P!Reload
<1>8. CASE Restart
  <2>1. rec' = None /\ asked' = (\E r \in Regionals : group[r] # None)
    BY <1>8, Zenon DEF Restart
  <2>2. GroupNames = {}
    BY <1>1, <2>1, Zenon DEF GroupNames
  <2> QED
    BY <1>2, <2>1, <2>2, Zenon
<1>9. CASE CreateOrUpdatePromxyServerGroup
  <2>1. UNCHANGED <<config, rec>> /\ (asked => asked')
    BY <1>9, Zenon DEF CreateOrUpdatePromxyServerGroup, P!PutGroup, promxy
  <2>2. asked' = asked
    BY <1>1, <2>1, Zenon
  <2> QED
    BY <1>5, <2>1, <2>2, Zenon
<1>10. CASE Collect
  <2>1. UNCHANGED <<config, rec>> /\ (asked => asked')
    <3>1. CASE UNCHANGED promxy
      BY <3>1, Zenon DEF promxy
    <3>2. CASE \E r \in Regionals : P!CollectGroup(r, Alive(r))
      BY <3>2, Zenon DEF P!CollectGroup, P!PutGroup
    <3> QED
      BY <1>10, <3>1, <3>2, Zenon DEF Collect
  <2>2. asked' = asked
    BY <1>1, <2>1, ZenonT(60)
  <2> QED
    BY <1>5, <2>1, <2>2
<1>11. CASE PodStep \/ PodStops
  BY <1>5, <1>11, Zenon DEF PodStep, PodStops, P!Refresh, P!PodStarts, P!PodStops
<1>12. CASE TakeRequest \/ CreateVmRulesConfigMap \/ CreateOrUpdateMcsForVmRulesPropagation
            \/ CreateVMUser \/ VMUserCreated \/ CreateOrUpdateTracesStorageConnection
            \/ CreateOrUpdateLogsStorageConnection \/ CreateOrUpdateAuditLogsStorageConnection
            \/ CleanupVmRulesMcsPropagation \/ StepFails \/ EditChild \/ Edit \/ ReleaseConn
  BY <1>5, <1>12, Zenon DEF TakeRequest, CreateVmRulesConfigMap, CreateOrUpdateMcsForVmRulesPropagation,
     CreateVMUser, VMUserCreated, CreateOrUpdateTracesStorageConnection,
     CreateOrUpdateLogsStorageConnection, CreateOrUpdateAuditLogsStorageConnection,
     CleanupVmRulesMcsPropagation, StepFails, EditChild, Edit, ReleaseConn, promxy
<1>13. CASE CreateVMUserCredentials \/ ChildReturns \/ ManagerCall \/ ManagerFails \/ UNCHANGED vars
  BY <1>5, <1>13, Zenon DEF CreateVMUserCredentials, ChildReturns, ManagerCall, ManagerFails, vars, promxy
<1> QED
  BY <1>6, <1>7, <1>8, <1>9, <1>10, <1>11, <1>12, <1>13, ZenonT(60) DEF Next, Regional

\* A pod loads whatever its volume shows.
LEMMA LoadedStep == TypeInv /\ Loaded /\ [Next]_vars => Loaded'
<1> SUFFICES ASSUME TypeInv, Loaded, [Next]_vars PROVE Loaded'
  OBVIOUS
<1>1. CASE UNCHANGED <<running, mounted, loaded>>
  BY <1>1, Zenon DEF Loaded
<1>2. ASSUME NEW bad, P!Reload(bad) PROVE Loaded'
  BY <1>2, Zenon DEF P!Reload, Loaded, TypeInv, PromxyType
<1>3. CASE PodStep \/ PodStops
  <2>1. PICK p \in Pods : P!Refresh(p) \/ P!PodStarts(p) \/ P!PodStops(p)
    BY <1>3, Zenon DEF PodStep, PodStops
  <2>2. CASE P!Refresh(p)
    BY <2>2, Zenon DEF P!Refresh, Loaded, TypeInv, PromxyType
  <2>3. CASE P!PodStarts(p)
    BY <2>3, Zenon DEF P!PodStarts, Loaded, TypeInv, PromxyType
  <2>4. CASE P!PodStops(p)
    BY <2>4, Zenon DEF P!PodStops, Loaded
  <2> QED
    BY <2>1, <2>2, <2>3, <2>4, Zenon
<1>4. CASE PromxyStep \/ PromxyFails
  <2>1. CASE UNCHANGED <<running, mounted, loaded>>
    BY <2>1, <1>1, Zenon
  <2> QED
    BY <1>2, <1>4, <2>1, Zenon DEF PromxyStep, PromxyFails, P!Reconcile, P!Begin, P!Render, P!Write, P!End, P!Interrupt
<1>5. CASE CreateOrUpdatePromxyServerGroup \/ Collect \/ Restart
  BY <1>1, <1>5, Zenon DEF CreateOrUpdatePromxyServerGroup, Collect, P!CollectGroup, P!PutGroup, Restart, promxy
<1>6. CASE TakeRequest \/ CreateVmRulesConfigMap \/ CreateOrUpdateMcsForVmRulesPropagation
           \/ CreateVMUser \/ VMUserCreated \/ CreateOrUpdateTracesStorageConnection
           \/ CreateOrUpdateLogsStorageConnection \/ CreateOrUpdateAuditLogsStorageConnection
           \/ CleanupVmRulesMcsPropagation \/ StepFails \/ EditChild \/ Edit \/ ReleaseConn
  BY <1>1, <1>6, Zenon DEF TakeRequest, CreateVmRulesConfigMap, CreateOrUpdateMcsForVmRulesPropagation,
     CreateVMUser, VMUserCreated, CreateOrUpdateTracesStorageConnection,
     CreateOrUpdateLogsStorageConnection, CreateOrUpdateAuditLogsStorageConnection,
     CleanupVmRulesMcsPropagation, StepFails, EditChild, Edit, ReleaseConn, promxy
<1>7. CASE CreateVMUserCredentials \/ ChildReturns \/ ManagerCall \/ ManagerFails \/ UNCHANGED vars
  BY <1>1, <1>7, Zenon DEF CreateVMUserCredentials, ChildReturns, ManagerCall, ManagerFails, vars, promxy
<1> QED
  BY <1>3, <1>4, <1>5, <1>6, <1>7, Zenon DEF Next, Regional

\* All of it.
IInv == Building /\ GroupAfterCredentials /\ Rendered /\ Loaded

\* At rest, while there is a regional, every Promxy pod reads from exactly the regionals
\* there are, at their endpoints and with their passwords, although the Promxy controller
\* is never told of changed credentials (PromxyServerGroupReconciler.Reconcile).
THEOREM PromxyConvergedHolds == Spec => []PromxyConverged
<1>1. Init => IInv
  <2> SUFFICES ASSUME Init PROVE IInv
    OBVIOUS
  <2>1. Building
    BY BuildingInit, Zenon
  <2>2. GroupNames = {} /\ GroupAfterCredentials
    BY Zenon DEF Init, P!PromxyInit, GroupNames, GroupAfterCredentials, Now
  <2>3. Rendered /\ Loaded
    BY <2>2, Zenon DEF Init, P!PromxyInit, Rendered, Loaded
  <2> QED
    BY <2>1, <2>2, <2>3, Zenon DEF IInv
<1>2. IInv /\ [Next]_vars => IInv'
  BY BuildingStep, GroupAfterCredentialsStep, RenderedStep, LoadedStep, Zenon DEF IInv, Building, Housekeeping
<1>3. IInv => PromxyConverged
  <2> SUFFICES ASSUME IInv, Quiet, Live # {}, NEW p \in Pods
               PROVE  loaded[p] = [r \in Live |-> [spec |-> Target(r, cm[r].data), pw |-> secret[r].pw]]
    BY Zenon DEF PromxyConverged
  <2> USE DEF IInv, Building, Housekeeping
  <2>1. ASSUME NEW r \in Live
        PROVE  /\ r \in Regionals /\ Now(r) /\ group[r].spec = Target(r, cm[r].data)
               /\ copy[r] = secret[r].pw
    <3>1. r \in Regionals /\ cm[r] # None /\ r \notin queue /\ ~On(r)
      BY Zenon DEF Live, Quiet, On
    <3>2. Done(r, "group") /\ AllMade(r)
      BY <3>1, Zenon DEF Done, Credentials, Finished
    <3> QED
      BY <3>1, <3>2, Zenon DEF Made, MadeGroup, Now, AllMade, UserMade, CopyMade
  <2>2. GroupNames = Live
    <3>1. \A r \in Regionals : cm[r] = None => group[r] = None
      BY Orphans, Zenon DEF Quiet
    <3> QED
      BY <2>1, <3>1, Zenon DEF GroupNames, Live, Now
  <2>3. PICK d : d = config[File]
    OBVIOUS
  <2>4. Good(d)
    BY <2>2, <2>3, Zenon DEF Quiet, Rendered, GoodConfig
  <2>5. d = [r \in Live |-> d[r]]
    BY <2>2, <2>4, Zenon DEF Good
  <2>6. ASSUME NEW r \in Live PROVE d[r] = [spec |-> Target(r, cm[r].data), pw |-> secret[r].pw]
    BY <2>1, <2>2, <2>4, Zenon DEF Good
  <2>7. loaded[p] = d
    BY <2>3, SMTT(20) DEF Quiet, Loaded, File
  <2> QED
    BY <2>5, <2>6, <2>7, Zenon
<1> QED
  BY <1>1, <1>2, <1>3, PTL DEF Spec
=============================================================================
