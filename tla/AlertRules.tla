----------------------------- MODULE AlertRules -----------------------------
(***************************************************************************)
(* The alert and record rules (kof-operator/internal/controller/           *)
(* alerts_configmap_controller.go).  The rules of PrometheusRules, of the  *)
(* default ConfigMaps and of the clusters' ConfigMaps are merged, in this  *)
(* order, into the ConfigMap of alert rules Promxy mounts and into one     *)
(* ConfigMap of record rules for each regional cluster.                    *)
(*                                                                         *)
(* Every event on an input ConfigMap or on a ConfigMap of record rules     *)
(* rebuilds all outputs; PrometheusRules and the ConfigMap of alert rules  *)
(* are not watched.                                                        *)
(***************************************************************************)
EXTENDS Naturals, Sequences, Functions

CONSTANTS
  PromRules,            \* names of PrometheusRule objects
  PromContents,         \* their contents: group -> [alerts, records]
  AlertMaps, RecordMaps,         \* names of the input ConfigMaps
  ClusterOf,                     \* the cluster an input or a regional is labelled with
  AlertContents, RecordContents, \* their contents: group -> (name -> rule), group -> rules
  Malformed,            \* content that is not a list of rules
  LabelNames, LabelValues,       \* of labels and annotations
  VmRules,              \* names of the ConfigMaps of record rules
  Manual,               \* data a user wrote into an output by hand
  None, MaxEvents

DefaultClusterName == ""

----------------------------------------------------------------------------
(* Rules are [expr, for, keep, labels, annotations], each of which may be  *)
(* None.                                                                   *)

LabelMaps == UNION {[S -> LabelValues] : S \in SUBSET LabelNames}

IsRule(r) ==
  /\ r = [expr |-> r.expr, for |-> r.for, keep |-> r.keep, labels |-> r.labels,
          annotations |-> r.annotations]
  /\ {r.labels, r.annotations} \subseteq LabelMaps \cup {None}

\* An object has one kind, and None is no content.
ASSUME KindAssumption ==
  /\ PromRules \cap AlertMaps = {} /\ PromRules \cap RecordMaps = {} /\ AlertMaps \cap RecordMaps = {}
  /\ None \notin LabelMaps

ASSUME RuleAssumption ==
  /\ \A c \in AlertContents : \A g \in DOMAIN c :
       /\ g \in LabelValues
       /\ \A n \in DOMAIN c[g] : IsRule(c[g][n])
  /\ \A c \in PromContents : \A g \in DOMAIN c :
       /\ g \in LabelValues
       /\ \A n \in DOMAIN c[g].alerts : IsRule(c[g].alerts[n])
       /\ c[g].records \in Seq(Range(c[g].records))
  /\ "alertgroup" \in LabelNames

VARIABLES
  prom,      \* the content of each PrometheusRule, or None
  alertIn, recordIn,   \* the content of each input ConfigMap, or None
  promxy,    \* the ConfigMap of alert rules: [data, generated]
  vm,        \* each ConfigMap of record rules: [data, generated] or None
  asked,     \* an event has not been handled
  rec,       \* the reconciliation in progress, or Idle
  stale,     \* a change no event tells of has happened since the inputs were last read
  events

inputs == <<prom, alertIn, recordIn>>
vars == <<inputs, promxy, vm, asked, rec, stale, events>>

----------------------------------------------------------------------------
(* Merging.  Accumulated rules are cluster -> group -> rules.              *)

Merge(old, new) == [k \in DOMAIN old \cup DOMAIN new |-> IF k \in DOMAIN new THEN new[k] ELSE old[k]]

Overlay(old, new) == IF new = None THEN old ELSE IF old = None THEN new ELSE Merge(old, new)

Instead(old, new) == IF new = None THEN old ELSE new

patchRule(old, new) ==
  [expr |-> Instead(old.expr, new.expr), for |-> Instead(old.for, new.for),
   keep |-> Instead(old.keep, new.keep), labels |-> Overlay(old.labels, new.labels),
   annotations |-> Overlay(old.annotations, new.annotations)]

At(f, k) == IF k \in DOMAIN f THEN f[k] ELSE <<>>

Put(f, k, v) == [x \in DOMAIN f \cup {k} |-> IF x = k THEN v ELSE f[x]]

\* The default rules after one more PrometheusRule; promxy does not know keep_firing_for.
mergePrometheusAlerts(acc, content) ==
  Merge(acc, [g \in {h \in DOMAIN content : At(acc, h) # <<>> \/ content[h].alerts # <<>>} |->
    Merge(At(acc, g), [n \in DOMAIN content[g].alerts |->
                         [content[g].alerts[n] EXCEPT !.keep = None]])])

mergePrometheusRecords(acc, content) ==
  Merge(acc, [g \in {h \in DOMAIN content : At(acc, h) # <<>> \/ content[h].records # <<>>} |->
    At(acc, g) \o content[g].records])

\* One group of a cluster's alert rules: a rule the cluster has is patched, one that only
\* the default cluster has is copied and patched, another is added as it is.
mergeGroup(acc, cluster, g, new) ==
  LET old == At(acc[cluster], g)
      default == At(acc[DefaultClusterName], g)
  IN  [n \in DOMAIN old \cup DOMAIN new |->
         IF n \notin DOMAIN new THEN old[n]
         ELSE IF n \in DOMAIN old THEN patchRule(old[n], new[n])
         ELSE IF n \in DOMAIN default THEN patchRule(default[n], new[n])
         ELSE new[n]]

\* One step of mergeAlertConfigMaps.
mergeAlertConfigMap(acc, cluster, content) ==
  LET all == Put(acc, cluster, At(acc, cluster))
  IN  Put(acc, cluster, [g \in DOMAIN all[cluster] \cup DOMAIN content |->
            IF g \in DOMAIN content THEN mergeGroup(all, cluster, g, content[g])
            ELSE all[cluster][g]])

\* One step of mergeRecordConfigMaps: a group is replaced as a whole.
mergeRecordConfigMap(acc, cluster, content) ==
  Put(acc, cluster, Merge(At(acc, cluster), content))

\* Mistake: the ConfigMaps are merged in the order they are listed.
getConfigMapsAsListed(maps) == maps

\* getConfigMaps: of the ConfigMaps left to merge, those that may be next.  The default
\* ones come first, and the cache lists objects in no particular order.
getConfigMaps(maps) ==
  LET defaults == {m \in maps : ClusterOf[m] = DefaultClusterName}
  IN  IF defaults = {} THEN maps ELSE defaults

\* The files of alert rules: the group's name becomes a label of every rule that has
\* labels (a rule without labels is given them in a copy that is dropped).
getAlertFiles(acc) ==
  [f \in UNION {{<<k, g>> : g \in DOMAIN acc[k]} : k \in DOMAIN acc} |->
     [n \in DOMAIN acc[f[1]][f[2]] |->
        LET rule == acc[f[1]][f[2]][n]
        IN  IF rule.labels = None THEN rule
            ELSE [rule EXCEPT !.labels = Put(@, "alertgroup", f[2])]]]

\* The record rules of one regional: a cluster's group is used instead of the default one.
RecordValues(acc, cluster) == Merge(acc[DefaultClusterName], At(acc, cluster))

----------------------------------------------------------------------------

Idle == [step |-> "idle"]

Present(f) == {x \in DOMAIN f : f[x] # None}

WellFormed ==
  /\ \A m \in AlertMaps : alertIn[m] # Malformed
  /\ \A m \in RecordMaps : recordIn[m] # Malformed

Init ==
  /\ prom \in [PromRules -> PromContents]
  /\ alertIn \in [AlertMaps -> AlertContents \cup {None}]
  /\ recordIn \in [RecordMaps -> RecordContents \cup {None}]
  /\ promxy = [data |-> <<>>, generated |-> TRUE]
  /\ vm = [v \in VmRules |-> [data |-> <<>>, generated |-> TRUE]]
  /\ asked = TRUE /\ rec = Idle /\ stale = FALSE /\ events = 0

Event == events < MaxEvents /\ events' = events + 1

\* updateResultingConfigMaps: the inputs and outputs are listed.  Nothing is written when
\* an input is malformed.
List ==
  /\ rec.step = "idle" /\ asked /\ WellFormed
  /\ asked' = FALSE /\ stale' = FALSE
  /\ rec' = [step |-> "merge", todo |-> Present(prom) \cup Present(alertIn) \cup Present(recordIn),
             prom |-> prom, alertIn |-> alertIn, recordIn |-> recordIn,
             alerts |-> [k \in {DefaultClusterName} |-> <<>>],
             records |-> [k \in {DefaultClusterName} |-> <<>>],
             read |-> promxy, vm |-> vm, left |-> Present(vm)]
  /\ UNCHANGED <<inputs, promxy, vm, events>>

\* PrometheusRules are merged first, then the ConfigMaps of alert rules, then the others.
NextInputs(todo) ==
  IF todo \cap PromRules # {} THEN todo \cap PromRules
  ELSE IF todo \cap AlertMaps # {} THEN getConfigMaps(todo \cap AlertMaps)
  ELSE getConfigMaps(todo)

\* One round of the loops of mergePrometheusRules, mergeAlertConfigMaps and
\* mergeRecordConfigMaps.
MergeNext ==
  /\ rec.step = "merge"
  /\ \E x \in NextInputs(rec.todo) :
       rec' = [rec EXCEPT
         !.todo = @ \ {x},
         !.alerts =
           IF x \in PromRules THEN Put(@, DefaultClusterName,
              mergePrometheusAlerts(@[DefaultClusterName], rec.prom[x]))
           ELSE IF x \in AlertMaps THEN mergeAlertConfigMap(@, ClusterOf[x], rec.alertIn[x])
           ELSE @,
         !.records =
           IF x \in PromRules THEN Put(@, DefaultClusterName,
              mergePrometheusRecords(@[DefaultClusterName], rec.prom[x]))
           ELSE IF x \in RecordMaps THEN mergeRecordConfigMap(@, ClusterOf[x], rec.recordIn[x])
           ELSE @]
  /\ UNCHANGED <<inputs, promxy, vm, asked, stale, events>>

\* An error ends the reconciliation, which is retried.
Retry == rec' = Idle /\ asked' = TRUE

\* Mistake: data a user took over is overwritten.
MayWriteAlways(o, data) == o.data # data

\* updateConfigMap: data that is already there, or that a user has taken over, is left.
MayWrite(o, data) == o.data # data /\ o.generated

\* updateConfigMap of the alert rules: the ConfigMap is read, then written.
GetPromxyRules ==
  /\ rec.step = "merge" /\ rec.todo = {}
  /\ rec' = [rec EXCEPT !.read = promxy, !.step = "put"]
  /\ UNCHANGED <<inputs, promxy, vm, asked, stale, events>>

PutPromxyRules ==
  /\ rec.step = "put"
  /\ LET files == getAlertFiles(rec.alerts) IN
     IF ~MayWrite(rec.read, files)
     THEN rec' = [rec EXCEPT !.step = "vmrules"] /\ UNCHANGED <<promxy, asked>>
     ELSE IF promxy = rec.read
     THEN /\ promxy' = [promxy EXCEPT !.data = files]
          /\ rec' = [rec EXCEPT !.step = "vmrules"] /\ UNCHANGED asked
     ELSE Retry /\ UNCHANGED promxy
  /\ UNCHANGED <<inputs, vm, stale, events>>

\* Mistake: a conflict is retried with the object as it was read.
updateRecordVMRulesConfigMapAgain ==
  /\ rec.step = "vmrules"
  /\ \E v \in rec.left :
       LET data == RecordValues(rec.records, ClusterOf[v])
           next == [rec EXCEPT !.left = @ \ {v}]
       IN  IF ~MayWrite(rec.vm[v], data) THEN rec' = next /\ UNCHANGED <<vm, asked>>
           ELSE IF vm[v] = rec.vm[v]
           THEN vm' = [vm EXCEPT ![v].data = data] /\ rec' = next /\ asked' = TRUE
           ELSE UNCHANGED <<rec, asked, vm>>
  /\ UNCHANGED <<inputs, promxy, stale, events>>

\* updateRecordVMRulesConfigMap: the object listed at the start is compared and written;
\* the write is itself an event.
updateRecordVMRulesConfigMap ==
  /\ rec.step = "vmrules"
  /\ \E v \in rec.left :
       LET data == RecordValues(rec.records, ClusterOf[v])
           next == [rec EXCEPT !.left = @ \ {v}]
       IN  IF ~MayWrite(rec.vm[v], data) THEN rec' = next /\ UNCHANGED <<vm, asked>>
           ELSE IF vm[v] = rec.vm[v]
           THEN vm' = [vm EXCEPT ![v].data = data] /\ rec' = next /\ asked' = TRUE
           ELSE Retry /\ UNCHANGED vm
  /\ UNCHANGED <<inputs, promxy, stale, events>>

Return ==
  /\ rec.step = "vmrules" /\ rec.left = {} /\ rec' = Idle
  /\ UNCHANGED <<inputs, promxy, vm, asked, stale, events>>

Reconcile ==
  List \/ MergeNext \/ GetPromxyRules \/ PutPromxyRules \/ updateRecordVMRulesConfigMap \/ Return

\* A call fails, or the operator is restarted; a new process handles everything.
Fails == rec.step # "idle" /\ Event /\ Retry /\ UNCHANGED <<inputs, promxy, vm, stale>>

\* An input is created, edited or deleted.
EditInput ==
  /\ Event /\ asked' = TRUE /\ UNCHANGED <<prom, promxy, vm, rec, stale>>
  /\ \/ /\ \E m \in AlertMaps, c \in AlertContents \cup {None, Malformed} :
             c # alertIn[m] /\ alertIn' = [alertIn EXCEPT ![m] = c]
        /\ UNCHANGED recordIn
     \/ /\ \E m \in RecordMaps, c \in RecordContents \cup {None, Malformed} :
             c # recordIn[m] /\ recordIn' = [recordIn EXCEPT ![m] = c]
        /\ UNCHANGED alertIn

EditPrometheusRule ==
  /\ Event /\ stale' = TRUE /\ UNCHANGED <<alertIn, recordIn, promxy, vm, asked, rec>>
  /\ \E p \in PromRules, c \in PromContents \cup {None} :
       c # prom[p] /\ prom' = [prom EXCEPT ![p] = c]

\* A ConfigMap of record rules is created for a regional, deleted with it, taken over by a
\* user or given back.
EditVmRules ==
  /\ Event /\ asked' = TRUE /\ UNCHANGED <<inputs, promxy, rec, stale>>
  /\ \E v \in VmRules, o \in {None} \cup {[data |-> <<>>, generated |-> TRUE],
                                         [data |-> Manual, generated |-> FALSE]} :
       /\ vm[v] # o
       /\ vm' = [vm EXCEPT ![v] = IF o # None /\ @ # None /\ o.generated
                                  THEN [@ EXCEPT !.generated = TRUE] ELSE o]

\* The same for the alert rules, of which no event tells.
EditPromxyRules ==
  /\ Event /\ UNCHANGED <<inputs, vm, asked, rec>> /\ stale' = TRUE
  /\ promxy' = IF promxy.generated THEN [data |-> Manual, generated |-> FALSE]
               ELSE [promxy EXCEPT !.generated = TRUE]

Next ==
  \/ Reconcile \/ Fails
  \/ EditInput \/ EditPrometheusRule \/ EditVmRules \/ EditPromxyRules

Spec == Init /\ [][Next]_vars

FairSpec == Spec /\ WF_vars(Reconcile)

----------------------------------------------------------------------------
(* Properties.                                                             *)

Quiet == rec.step = "idle" /\ ~asked

\* What f has at i, if anything.
Placed(f, i) == {f[x] : x \in {i} \cap DOMAIN f}

\* The rules of one name that files of alert rules have for a cluster and a group.
AlertAt(files, k, g, n) == UNION {Placed(rules, n) : rules \in Placed(files, <<k, g>>)}

\* What the inputs of one layer say, given the contents of those that are there: the
\* ConfigMaps labelled with the cluster, or the PrometheusRules.
AlertsFrom(k, in, there, g, n) ==
  {in[m][g][n] : m \in {x \in there : ClusterOf[x] = k /\ g \in DOMAIN in[x] /\ n \in DOMAIN in[x][g]}}

AlertsFromProm(in, there, g, n) ==
  {[in[p][g].alerts[n] EXCEPT !.keep = None] : p \in {x \in there :
     g \in DOMAIN in[x] /\ n \in DOMAIN in[x][g].alerts}}

RecordsFrom(k, in, there, g) ==
  {in[m][g] : m \in {x \in there : ClusterOf[x] = k /\ g \in DOMAIN in[x]}}

RecordingProm(in, there, g) == {p \in there : g \in DOMAIN in[p] /\ in[p][g].records # <<>>}

\* The most specific layer that says anything.
Foremost(cluster, default, base) ==
  IF cluster # {} THEN cluster ELSE IF default # {} THEN default ELSE base

\* What a rule says of a field, of its labels or annotations, or of one of them.
Says(r, field) == {r[field]} \ {None}
SaysOf(r, field, l) == {m[l] : m \in {x \in Says(r, field) : l \in DOMAIN x}}
Said(rules, field) == UNION {Says(r, field) : r \in rules}
SaidOf(rules, field, l) == UNION {SaysOf(r, field, l) : r \in rules}

PlainFields == {"expr", "for", "keep"}
MapFields == {"labels", "annotations"}

\* A rule has each field, label and annotation from the first layer that sets it.
IsLayered(rule, cluster, default, base) ==
  /\ \A field \in PlainFields :
       Says(rule, field) = Foremost(Said(cluster, field), Said(default, field), Said(base, field))
  /\ \A field \in MapFields :
       /\ Says(rule, field) # {} <=> Said(cluster \cup default \cup base, field) # {}
       /\ \A l \in LabelNames \ {"alertgroup"} :
            SaysOf(rule, field, l) =
              Foremost(SaidOf(cluster, field, l), SaidOf(default, field, l), SaidOf(base, field, l))

\* The inputs of a layer agree.
Agreed(layer) == \A x, y \in layer : x = y

\* A cluster has exactly the rules its ConfigMaps name, the default cluster those of the
\* default ConfigMaps and of the PrometheusRules; where the inputs of each layer agree, a
\* rule is made of the layers.
RightAlerts(rules, k, cluster, default, base) ==
  /\ rules # {} <=> IF k = DefaultClusterName THEN default \cup base # {} ELSE cluster # {}
  /\ Agreed(cluster) /\ Agreed(default) /\ Agreed(base) =>
       \A r \in rules : IsLayered(r, cluster, default, base)

AlertClusters == {ClusterOf[m] : m \in AlertMaps} \cup {DefaultClusterName}
AlertGroups == UNION {DOMAIN c : c \in AlertContents \cup PromContents}
AlertNames ==
  UNION {UNION {DOMAIN c[h] : h \in DOMAIN c} : c \in AlertContents}
  \cup UNION {UNION {DOMAIN c[h].alerts : h \in DOMAIN c} : c \in PromContents}

\* When nothing is pending and nothing unwatched has changed, the files hold exactly the
\* rules the inputs name, and every field of a rule is the most specific one: that of the
\* cluster's ConfigMap, of the default one, of the PrometheusRule, whatever the order the
\* objects were listed in (mergePrometheusRules, mergeAlertConfigMaps, patchRule).
AlertsLayered ==
  Quiet /\ ~stale /\ promxy.generated =>
    \A k \in AlertClusters, g \in AlertGroups, n \in AlertNames :
      RightAlerts(AlertAt(promxy.data, k, g, n), k,
                  AlertsFrom(k, alertIn, Present(alertIn), g, n),
                  AlertsFrom(DefaultClusterName, alertIn, Present(alertIn), g, n),
                  AlertsFromProm(prom, Present(prom), g, n))

\* Where the inputs of each layer agree, a group of record rules is that of the most
\* specific layer that has it.
RightRecords(data, g, cluster, default, in, recording) ==
  Agreed(cluster) /\ Agreed(default) /\ Agreed(recording) =>
    Placed(data, g) = Foremost(cluster, default, {in[p][g].records : p \in recording})

RecordGroups == UNION {DOMAIN c : c \in RecordContents \cup PromContents}

\* The same for the record rules of each regional, of which a group comes whole from the
\* most specific input that has it (mergeRecordConfigMaps, updateRecordVMRulesConfigMap).
RecordsLayered ==
  Quiet /\ ~stale => \A v \in VmRules : vm[v] # None /\ vm[v].generated =>
    \A g \in RecordGroups :
      RightRecords(vm[v].data, g,
                   RecordsFrom(ClusterOf[v], recordIn, Present(recordIn), g),
                   RecordsFrom(DefaultClusterName, recordIn, Present(recordIn), g),
                   prom, RecordingProm(prom, Present(prom), g))

\* Both outputs are what the layers say (updateResultingConfigMaps).
RulesLayered == AlertsLayered /\ RecordsLayered

\* Data a user has taken over stays as the user wrote it, also when the takeover happens
\* between the read and the write (updateConfigMap).
ManualKept ==
  [][events' = events =>
       /\ ~promxy.generated => promxy' = promxy
       /\ \A v \in VmRules : vm[v] # None /\ ~vm[v].generated => vm'[v] = vm[v]]_vars

\* Every rule Promxy is given has its group's name as a label (getAlertFiles).
Grouped ==
  promxy.data = Manual \/ \A f \in DOMAIN promxy.data : \A n \in DOMAIN promxy.data[f] :
    LET ls == promxy.data[f][n].labels
    IN  ls # None /\ "alertgroup" \in DOMAIN ls

\* Although it is told of its own writes, the controller comes to rest once edits and
\* failures stop, unless an input is malformed (updateConfigMap leaves what is equal).
Settles == []<>(Quiet \/ ~WellFormed)
=============================================================================
