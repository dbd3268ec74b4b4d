-------------------------- MODULE AlertRulesProofs --------------------------
(***************************************************************************)
(* What a user has taken over is never overwritten, and at rest the        *)
(* outputs are what the layers of the inputs say, for any number of rules, *)
(* ConfigMaps, clusters and events.                                        *)
(***************************************************************************)
EXTENDS AlertRules, TLAPS

\* Events are counted, and there is one entry for each ConfigMap of record rules.
Counted == events \in Nat /\ vm = [v \in VmRules |-> vm[v]]

\* Only what was read as generated, and has not changed since, is written.
LEMMA Writes ==
  ASSUME Counted, Reconcile
  PROVE  /\ promxy' # promxy => promxy.generated
         /\ \A v \in VmRules : vm'[v] # vm[v] => vm[v].generated
         /\ vm' = [v \in VmRules |-> vm'[v]] /\ events' = events
<1>1. CASE List \/ MergeNext \/ GetPromxyRules \/ Return
  BY <1>1 DEF Counted, List, MergeNext, GetPromxyRules, Return
<1>2. CASE PutPromxyRules
  BY <1>2 DEF Counted, PutPromxyRules, MayWrite
<1>3. CASE updateRecordVMRulesConfigMap
  <2>1. CASE vm' = vm
    BY <1>3, <2>1 DEF Counted, updateRecordVMRulesConfigMap
  <2>2. CASE vm' # vm
    <3>1. PICK v \in rec.left : \E d \in {RecordValues(rec.records, ClusterOf[v])} :
            vm[v] = rec.vm[v] /\ MayWrite(rec.vm[v], d) /\ vm' = [vm EXCEPT ![v].data = d]
      BY <1>3, <2>2 DEF updateRecordVMRulesConfigMap
    <3>2. vm[v].generated
      BY <3>1 DEF MayWrite
    <3>3. \A w \in VmRules : w # v => vm'[w] = vm[w]
      BY <3>1 DEF Counted
    <3> QED
      BY <1>3, <3>1, <3>2, <3>3 DEF Counted, updateRecordVMRulesConfigMap
  <2> QED
    BY <2>1, <2>2
<1> QED
  BY <1>1, <1>2, <1>3 DEF Reconcile

\* Every step keeps the count; only users, failures and restarts add to it.
LEMMA CountedStep == Counted /\ [Next]_vars => Counted'
<1> SUFFICES ASSUME Counted, [Next]_vars PROVE Counted'
  OBVIOUS
<1>1. CASE Reconcile
  BY <1>1, Writes DEF Counted
<1>2. CASE Fails \/ EditInput \/ EditPrometheusRule \/ EditPromxyRules \/ EditVmRules
  BY <1>2 DEF Counted, Fails, EditInput, EditPrometheusRule, EditPromxyRules, EditVmRules, Event
<1>3. CASE UNCHANGED vars
  BY <1>3 DEF Counted, vars
<1> QED
  BY <1>1, <1>2, <1>3 DEF Next

\* A ConfigMap of rules whose label says a user has taken it over keeps the data the user
\* wrote, also when the label is changed between the read and the write of updateConfigMap.
THEOREM ManualKeptHolds == Spec => ManualKept
<1> DEFINE Kept == events' = events =>
       /\ ~promxy.generated => promxy' = promxy
       /\ \A v \in VmRules : vm[v] # None /\ ~vm[v].generated => vm'[v] = vm[v]
<1>1. Init => Counted
  BY DEF Init, Counted
<1>2. Counted /\ [Next]_vars => [Kept]_vars
  <2> SUFFICES ASSUME Counted, [Next]_vars PROVE [Kept]_vars
    OBVIOUS
  <2>1. CASE Reconcile
    BY <2>1, Writes
  <2>2. CASE Fails \/ EditInput \/ EditPrometheusRule \/ EditPromxyRules \/ EditVmRules
    <3>1. events' = events + 1
      BY <2>2 DEF Fails, EditInput, EditPrometheusRule, EditPromxyRules, EditVmRules, Event
    <3> QED
      BY <3>1 DEF Counted
  <2>3. CASE UNCHANGED vars
    BY <2>3
  <2> QED
    BY <2>1, <2>2, <2>3 DEF Next
<1> QED
  BY <1>1, <1>2, CountedStep, PTL DEF Spec, ManualKept

----------------------------------------------------------------------------
(* What patching a rule makes of its layers.                               *)

\* The empty function is the empty sequence.
LEMMA EmptyFun == DOMAIN <<>> = {}
OBVIOUS

\* Of one rule, and of none.
LEMMA SaidFacts ==
  ASSUME NEW r, NEW field, NEW l
  PROVE  /\ Said({r}, field) = Says(r, field) /\ SaidOf({r}, field, l) = SaysOf(r, field, l)
         /\ Said({}, field) = {} /\ SaidOf({}, field, l) = {}
BY DEF Said, SaidOf

\* A rule that no layer but one names is made of this layer.
LEMMA OneLayer ==
  ASSUME NEW r
  PROVE  IsLayered(r, {r}, {}, {}) /\ IsLayered(r, {}, {r}, {}) /\ IsLayered(r, {}, {}, {r})
<1>1. {r} \cup {} \cup {} = {r} /\ {} \cup {r} \cup {} = {r} /\ {} \cup {} \cup {r} = {r}
  OBVIOUS
<1> QED
  BY <1>1, SaidFacts, Zenon DEF IsLayered, Foremost

\* A layer that holds what the default cluster has serves as the default one.
LEMMA DefaultTwice ==
  ASSUME NEW r, NEW default, NEW base
  PROVE  IsLayered(r, {}, default, base) <=> IsLayered(r, default, default, base)
<1>1. {} \cup default \cup base = default \cup default \cup base
  OBVIOUS
<1>2. \A field, l : Said({}, field) = {} /\ SaidOf({}, field, l) = {}
  BY SaidFacts, Zenon
<1>3. \A x, y : Foremost({}, x, y) = Foremost(x, x, y)
  BY Zenon DEF Foremost
<1>4. \A field : Foremost(Said({}, field), Said(default, field), Said(base, field))
                   = Foremost(Said(default, field), Said(default, field), Said(base, field))
  BY <1>2, <1>3, Zenon
<1>5. \A field, l : Foremost(SaidOf({}, field, l), SaidOf(default, field, l), SaidOf(base, field, l))
                      = Foremost(SaidOf(default, field, l), SaidOf(default, field, l), SaidOf(base, field, l))
  BY <1>2, <1>3, Zenon
<1> QED
  BY <1>1, <1>4, <1>5, Zenon DEF IsLayered

\* Labels and annotations, and their overlay, are maps or None.
LEMMA OverlayFacts ==
  ASSUME NEW x \in LabelMaps \cup {None}, NEW y \in LabelMaps \cup {None}
  PROVE  /\ Overlay(x, y) \in LabelMaps \cup {None}
         /\ Overlay(x, y) = None <=> x = None /\ y = None
         /\ x # None /\ y # None =>
              /\ DOMAIN Overlay(x, y) = DOMAIN x \cup DOMAIN y
              /\ \A l \in DOMAIN y : Overlay(x, y)[l] = y[l]
              /\ \A l \in DOMAIN x \ DOMAIN y : Overlay(x, y)[l] = x[l]
<1>1. CASE x = None \/ y = None
  BY <1>1, Zenon DEF Overlay
<1>2. CASE x # None /\ y # None
  <2>1. PICK S \in SUBSET LabelNames : x \in [S -> LabelValues]
    BY <1>2 DEF LabelMaps
  <2>2. PICK T \in SUBSET LabelNames : y \in [T -> LabelValues]
    BY <1>2 DEF LabelMaps
  <2>3. Merge(x, y) \in [S \cup T -> LabelValues]
    BY <2>1, <2>2 DEF Merge
  <2>4. Merge(x, y) \in LabelMaps
    BY <2>3 DEF LabelMaps
  <2> QED
    BY <1>2, <2>4, KindAssumption DEF Overlay, Merge
<1> QED
  BY <1>1, <1>2

\* A rule's fields.
LEMMA RuleFields ==
  ASSUME NEW r, IsRule(r)
  PROVE  r.labels \in LabelMaps \cup {None} /\ r.annotations \in LabelMaps \cup {None}
BY DEF IsRule

\* A patched rule says what the patch says and otherwise what it said.
LEMMA PatchSays ==
  ASSUME NEW old, NEW new, IsRule(old), IsRule(new)
  PROVE  /\ IsRule(patchRule(old, new))
         /\ \A field \in PlainFields : Says(patchRule(old, new), field) =
              IF Says(new, field) # {} THEN Says(new, field) ELSE Says(old, field)
         /\ \A field \in MapFields :
              /\ Says(patchRule(old, new), field) # {} <=> Says(new, field) # {} \/ Says(old, field) # {}
              /\ \A l : SaysOf(patchRule(old, new), field, l) =
                   IF SaysOf(new, field, l) # {} THEN SaysOf(new, field, l) ELSE SaysOf(old, field, l)
<1> DEFINE r == patchRule(old, new)
<1>1. /\ r = [expr |-> r.expr, for |-> r.for, keep |-> r.keep, labels |-> r.labels,
              annotations |-> r.annotations]
      /\ r["expr"] = Instead(old["expr"], new["expr"]) /\ r["for"] = Instead(old["for"], new["for"])
      /\ r["keep"] = Instead(old["keep"], new["keep"])
      /\ r["labels"] = Overlay(old["labels"], new["labels"])
      /\ r["annotations"] = Overlay(old["annotations"], new["annotations"])
  BY DEF patchRule
<1>2. \A field \in MapFields :
        old[field] \in LabelMaps \cup {None} /\ new[field] \in LabelMaps \cup {None}
        /\ r[field] = Overlay(old[field], new[field])
  BY <1>1, RuleFields DEF MapFields
<1> HIDE DEF r
<1>7. ASSUME NEW field \in MapFields
      PROVE  /\ r[field] \in LabelMaps \cup {None}
             /\ r[field] = None <=> old[field] = None /\ new[field] = None
             /\ old[field] # None /\ new[field] # None =>
                  /\ DOMAIN r[field] = DOMAIN old[field] \cup DOMAIN new[field]
                  /\ \A l \in DOMAIN new[field] : r[field][l] = new[field][l]
                  /\ \A l \in DOMAIN old[field] \ DOMAIN new[field] : r[field][l] = old[field][l]
  <2> DEFINE x == old[field]
             y == new[field]
  <2>1. x \in LabelMaps \cup {None} /\ y \in LabelMaps \cup {None} /\ r[field] = Overlay(x, y)
    BY <1>2
  <2> HIDE DEF x, y
  <2>2. /\ Overlay(x, y) \in LabelMaps \cup {None}
        /\ Overlay(x, y) = None <=> x = None /\ y = None
        /\ x # None /\ y # None =>
             /\ DOMAIN Overlay(x, y) = DOMAIN x \cup DOMAIN y
             /\ \A l \in DOMAIN y : Overlay(x, y)[l] = y[l]
             /\ \A l \in DOMAIN x \ DOMAIN y : Overlay(x, y)[l] = x[l]
    BY <2>1, OverlayFacts, Zenon
  <2> QED
    BY <2>1, <2>2, Zenon DEF x, y
<1>3. IsRule(r)
  <2>1. r.labels \in LabelMaps \cup {None} /\ r.annotations \in LabelMaps \cup {None}
    BY <1>7 DEF MapFields
  <2> QED
    BY <1>1, <2>1 DEF IsRule
<1>4. \A field \in PlainFields : r[field] = Instead(old[field], new[field])
  BY <1>1 DEF PlainFields
<1>5. \A field \in PlainFields : Says(r, field) =
              IF Says(new, field) # {} THEN Says(new, field) ELSE Says(old, field)
  BY <1>4, Zenon DEF Says, Instead
<1>6. ASSUME NEW field \in MapFields
      PROVE  /\ Says(r, field) # {} <=> Says(new, field) # {} \/ Says(old, field) # {}
             /\ \A l : SaysOf(r, field, l) =
                  IF SaysOf(new, field, l) # {} THEN SaysOf(new, field, l) ELSE SaysOf(old, field, l)
  <2>1. Says(r, field) # {} <=> Says(new, field) # {} \/ Says(old, field) # {}
    BY <1>7, Zenon DEF Says
  <2>2. \A q, l : SaysOf(q, field, l) = IF q[field] # None /\ l \in DOMAIN q[field] THEN {q[field][l]} ELSE {}
    BY DEF SaysOf, Says
  <2>3. ASSUME NEW l PROVE SaysOf(r, field, l) =
                  IF SaysOf(new, field, l) # {} THEN SaysOf(new, field, l) ELSE SaysOf(old, field, l)
    <3>1. CASE new[field] = None
      <4>1. r[field] = old[field]
        BY <1>2, <3>1, Zenon DEF Overlay
      <4> QED
        BY <2>2, <3>1, <4>1, Zenon
    <3>2. CASE new[field] # None /\ old[field] = None
      <4>1. r[field] = new[field]
        BY <1>2, <3>2, Zenon DEF Overlay
      <4> QED
        BY <2>2, <3>2, <4>1, Zenon
    <3>3. CASE new[field] # None /\ old[field] # None
      <4>1. /\ r[field] # None /\ DOMAIN r[field] = DOMAIN old[field] \cup DOMAIN new[field]
            /\ l \in DOMAIN new[field] => r[field][l] = new[field][l]
            /\ l \in DOMAIN old[field] /\ l \notin DOMAIN new[field] => r[field][l] = old[field][l]
        BY <1>7, <3>3, Zenon
      <4> QED
        BY <2>2, <3>3, <4>1
    <3> QED
      BY <3>1, <3>2, <3>3, Zenon
  <2> QED
    BY <2>1, <2>3, Zenon
<1> QED
  BY <1>3, <1>5, <1>6, Zenon DEF r

\* Layers are said together.
LEMMA SaidUnion ==
  ASSUME NEW a, NEW b, NEW c, NEW field
  PROVE  Said(a \cup b \cup c, field) # {} <=>
           Said(a, field) # {} \/ Said(b, field) # {} \/ Said(c, field) # {}
BY DEF Said

\* A rule patched with what the cluster says.
LEMMA PatchCluster ==
  ASSUME NEW old, NEW new, IsRule(old), IsRule(new), NEW cluster, NEW default, NEW base,
         cluster = {} \/ cluster = {new}, IsLayered(old, cluster, default, base)
  PROVE  IsLayered(patchRule(old, new), {new}, default, base)
<1> DEFINE r == patchRule(old, new)
<1>6. /\ \A field \in PlainFields : Says(r, field) =
           IF Says(new, field) # {} THEN Says(new, field) ELSE Says(old, field)
      /\ \A field \in MapFields :
           /\ Says(r, field) # {} <=> Says(new, field) # {} \/ Says(old, field) # {}
           /\ \A l : SaysOf(r, field, l) =
                IF SaysOf(new, field, l) # {} THEN SaysOf(new, field, l) ELSE SaysOf(old, field, l)
  BY PatchSays
<1> HIDE DEF r
<1>1. \A field :
        /\ Said({new}, field) = Says(new, field)
        /\ Said(cluster, field) = {} \/ Said(cluster, field) = Says(new, field)
        /\ \A l : /\ SaidOf({new}, field, l) = SaysOf(new, field, l)
                  /\ SaidOf(cluster, field, l) = {} \/ SaidOf(cluster, field, l) = SaysOf(new, field, l)
  <2>1. CASE cluster = {}
    BY <2>1, SaidFacts, Zenon
  <2>2. CASE cluster = {new}
    BY <2>2, SaidFacts, Zenon
  <2> QED
    BY <2>1, <2>2
<1>3. ASSUME NEW field \in PlainFields
      PROVE  Says(r, field) = Foremost(Said({new}, field), Said(default, field), Said(base, field))
  <2>1. Says(old, field) = Foremost(Said(cluster, field), Said(default, field), Said(base, field))
    BY Zenon DEF IsLayered
  <2>2. Says(r, field) = IF Says(new, field) # {} THEN Says(new, field) ELSE Says(old, field)
    BY <1>6, Zenon
  <2>3. Says(r, field) = Foremost(Says(new, field), Said(default, field), Said(base, field))
    <3>1. Said(cluster, field) = {} \/ Said(cluster, field) = Says(new, field)
      BY <1>1, Zenon
    <3> QED
      BY <2>1, <2>2, <3>1 DEF Foremost
  <2> QED
    BY <1>1, <2>3, Zenon
<1>4. ASSUME NEW field \in MapFields
      PROVE  Says(r, field) # {} <=> Said({new} \cup default \cup base, field) # {}
  <2>1. Says(old, field) # {} <=> Said(cluster, field) # {} \/ Said(default, field) # {} \/ Said(base, field) # {}
    BY SaidUnion, Zenon DEF IsLayered
  <2>2. Says(r, field) # {} <=> Says(new, field) # {} \/ Says(old, field) # {}
    BY <1>6, Zenon
  <2>3. Said({new} \cup default \cup base, field) # {} <=>
          Says(new, field) # {} \/ Said(default, field) # {} \/ Said(base, field) # {}
    <3>1. Said({new}, field) = Says(new, field)
      BY <1>1, Zenon
    <3>2. Said({new} \cup default \cup base, field) # {} <=>
            Said({new}, field) # {} \/ Said(default, field) # {} \/ Said(base, field) # {}
      BY SaidUnion, Zenon
    <3> QED
      BY <3>1, <3>2, Zenon
  <2>4. Said(cluster, field) # {} => Says(new, field) # {}
    BY <1>1, Zenon
  <2> QED
    BY <2>1, <2>2, <2>3, <2>4, Zenon
<1>5. ASSUME NEW field \in MapFields, NEW l \in LabelNames \ {"alertgroup"}
      PROVE  SaysOf(r, field, l) =
               Foremost(SaidOf({new}, field, l), SaidOf(default, field, l), SaidOf(base, field, l))
  <2>1. SaysOf(old, field, l) =
          Foremost(SaidOf(cluster, field, l), SaidOf(default, field, l), SaidOf(base, field, l))
    BY Zenon DEF IsLayered
  <2>2. SaysOf(r, field, l) = IF SaysOf(new, field, l) # {} THEN SaysOf(new, field, l) ELSE SaysOf(old, field, l)
    BY <1>6, Zenon
  <2>3. SaysOf(r, field, l) = Foremost(SaysOf(new, field, l), SaidOf(default, field, l), SaidOf(base, field, l))
    <3>1. SaidOf(cluster, field, l) = {} \/ SaidOf(cluster, field, l) = SaysOf(new, field, l)
      BY <1>1, Zenon
    <3> QED
      BY <2>1, <2>2, <3>1 DEF Foremost
  <2> QED
    BY <1>1, <2>3, Zenon
<1> QED
  BY <1>3, <1>4, <1>5, Zenon DEF IsLayered, r

\* A rule patched with what the default cluster says.
LEMMA PatchDefault ==
  ASSUME NEW old, NEW new, IsRule(old), IsRule(new), NEW default, NEW base,
         default = {} \/ default = {new}, IsLayered(old, {}, default, base)
  PROVE  IsLayered(patchRule(old, new), {}, {new}, base)
<1>1. IsLayered(old, default, default, base)
  BY DefaultTwice, Zenon
<1>2. IsLayered(patchRule(old, new), {new}, default, base)
  BY <1>1, PatchCluster, Zenon
<1>3. default = {} => IsLayered(patchRule(old, new), {new}, {}, base)
  BY <1>2, Zenon
<1>4. ASSUME NEW r, IsLayered(r, {new}, {}, base) PROVE IsLayered(r, {new}, {new}, base)
  <2>1. \A n, b : Foremost(n, {}, b) = Foremost(n, n, b)
    BY Zenon DEF Foremost
  <2>2. \A field, l : Said({}, field) = {} /\ SaidOf({}, field, l) = {}
    BY SaidFacts, Zenon
  <2>3. {new} \cup {} \cup base = {new} \cup {new} \cup base
    OBVIOUS
  <2>4. \A field : Foremost(Said({new}, field), Said({}, field), Said(base, field))
                   = Foremost(Said({new}, field), Said({new}, field), Said(base, field))
    BY <2>1, <2>2, Zenon
  <2>5. \A field, l : Foremost(SaidOf({new}, field, l), SaidOf({}, field, l), SaidOf(base, field, l))
                   = Foremost(SaidOf({new}, field, l), SaidOf({new}, field, l), SaidOf(base, field, l))
    BY <2>1, <2>2, Zenon
  <2> QED
    BY <1>4, <2>3, <2>4, <2>5, Zenon DEF IsLayered
<1>5. IsLayered(patchRule(old, new), {new}, {new}, base)
  BY <1>2, <1>3, <1>4, Zenon
<1> QED
  BY <1>5, DefaultTwice, Zenon

----------------------------------------------------------------------------
(* The accumulated rules and the files made of them.                       *)

\* The accumulated rules of one name.
RuleIn(acc, k, g, n) == UNION {Placed(rules, n) : rules \in Placed(At(acc, k), g)}

HasRule(acc, k, g, n) == k \in DOMAIN acc /\ g \in DOMAIN acc[k] /\ n \in DOMAIN acc[k][g]

\* A rule as the files have it.
InFile(rule, g) ==
  IF rule.labels = None THEN rule ELSE [rule EXCEPT !.labels = Put(@, "alertgroup", g)]

\* There is at most one.
LEMMA PlacedFacts ==
  ASSUME NEW f, NEW i
  PROVE  Placed(f, i) = IF i \in DOMAIN f THEN {f[i]} ELSE {}
BY DEF Placed

LEMMA RuleInFacts ==
  ASSUME NEW acc, NEW k, NEW g, NEW n
  PROVE  RuleIn(acc, k, g, n) = IF HasRule(acc, k, g, n) THEN {acc[k][g][n]} ELSE {}
<1>1. CASE k \notin DOMAIN acc
  <2>1. At(acc, k) = <<>>
    BY <1>1 DEF At
  <2>2. Placed(<<>>, g) = {}
    BY EmptyFun DEF Placed
  <2> QED
    BY <1>1, <2>1, <2>2 DEF RuleIn, HasRule
<1>2. CASE k \in DOMAIN acc
  <2>1. At(acc, k) = acc[k]
    BY <1>2 DEF At
  <2>2. CASE g \notin DOMAIN acc[k]
    <3>1. Placed(acc[k], g) = {}
      BY <2>2, PlacedFacts
    <3> QED
      BY <2>1, <2>2, <3>1 DEF RuleIn, HasRule
  <2>3. CASE g \in DOMAIN acc[k]
    <3>1. Placed(acc[k], g) = {acc[k][g]}
      BY <2>3, PlacedFacts
    <3>2. RuleIn(acc, k, g, n) = Placed(acc[k][g], n)
      BY <2>1, <3>1 DEF RuleIn
    <3> QED
      BY <1>2, <2>3, <3>2, PlacedFacts, Zenon DEF HasRule
  <2> QED
    BY <2>2, <2>3, Zenon
<1> QED
  BY <1>1, <1>2, Zenon

\* The files have the accumulated rules.
LEMMA FilesFacts ==
  ASSUME NEW acc, NEW k, NEW g, NEW n
  PROVE  AlertAt(getAlertFiles(acc), k, g, n) = {InFile(r, g) : r \in RuleIn(acc, k, g, n)}
<1> DEFINE files == getAlertFiles(acc)
           f == <<k, g>>
<1>1. f \in DOMAIN files <=> k \in DOMAIN acc /\ g \in DOMAIN acc[k]
  BY DEF getAlertFiles
<1>2. ASSUME k \in DOMAIN acc, g \in DOMAIN acc[k]
      PROVE  files[f] = [m \in DOMAIN acc[k][g] |-> InFile(acc[k][g][m], g)]
  BY <1>1, <1>2 DEF getAlertFiles, InFile
<1> HIDE DEF files, f
<1>3. CASE HasRule(acc, k, g, n)
  <2>1. RuleIn(acc, k, g, n) = {acc[k][g][n]}
    BY <1>3, RuleInFacts, Zenon
  <2>2. f \in DOMAIN files /\ n \in DOMAIN files[f] /\ files[f][n] = InFile(acc[k][g][n], g)
    BY <1>1, <1>2, <1>3 DEF HasRule
  <2>3. Placed(files, f) = {files[f]} /\ Placed(files[f], n) = {InFile(acc[k][g][n], g)}
    BY <2>2, PlacedFacts, Zenon
  <2>4. AlertAt(files, k, g, n) = {InFile(acc[k][g][n], g)}
    BY <2>3 DEF AlertAt, f
  <2> QED
    BY <2>1, <2>4 DEF files
<1>4. CASE ~HasRule(acc, k, g, n)
  <2>1. RuleIn(acc, k, g, n) = {}
    BY <1>4, RuleInFacts, Zenon
  <2>2. \A rules \in Placed(files, f) : Placed(rules, n) = {}
    BY <1>1, <1>2, <1>4, PlacedFacts DEF HasRule
  <2>3. AlertAt(files, k, g, n) = {}
    BY <2>2 DEF AlertAt, f
  <2> QED
    BY <2>1, <2>3 DEF files
<1> QED
  BY <1>3, <1>4, Zenon

\* The label that is added says nothing of the layers.
LEMMA InFileLayered ==
  ASSUME NEW r, NEW g \in LabelValues, IsRule(r), NEW cluster, NEW default, NEW base,
         IsLayered(r, cluster, default, base)
  PROVE  IsLayered(InFile(r, g), cluster, default, base)
<1> DEFINE q == InFile(r, g)
<1>1. CASE r.labels = None
  BY <1>1, Zenon DEF InFile
<1>2. CASE r.labels # None
  <2>1. /\ \A field \in PlainFields : q[field] = r[field]
        /\ q["annotations"] = r["annotations"]
        /\ q["labels"] = Put(r["labels"], "alertgroup", g)
    BY <1>2 DEF InFile, PlainFields, IsRule
  <2> HIDE DEF q
  <2>2. PICK S \in SUBSET LabelNames : r["labels"] \in [S -> LabelValues]
    BY <1>2 DEF IsRule, LabelMaps
  <2>3. q["labels"] \in [S \cup {"alertgroup"} -> LabelValues]
    BY <2>1, <2>2 DEF Put
  <2>4. q["labels"] \in LabelMaps
    BY <2>3, RuleAssumption DEF LabelMaps
  <2>5. q["labels"] # None /\ r["labels"] # None
    BY <1>2, <2>4, KindAssumption
  <2>6. \A field \in PlainFields : Says(q, field) = Says(r, field)
    BY <2>1, Zenon DEF Says
  <2>7. /\ Says(q, "annotations") = Says(r, "annotations")
        /\ \A l : SaysOf(q, "annotations", l) = SaysOf(r, "annotations", l)
    BY <2>1, Zenon DEF Says, SaysOf
  <2>8. Says(q, "labels") = {q["labels"]} /\ Says(r, "labels") = {r["labels"]}
    BY <2>5 DEF Says
  <2>9. ASSUME NEW l \in LabelNames \ {"alertgroup"}
        PROVE  SaysOf(q, "labels", l) = SaysOf(r, "labels", l)
    <3>1. \A p : Says(p, "labels") = {p["labels"]} =>
            SaysOf(p, "labels", l) = IF l \in DOMAIN p["labels"] THEN {p["labels"][l]} ELSE {}
      BY DEF SaysOf
    <3>2. /\ l \in DOMAIN q["labels"] <=> l \in DOMAIN r["labels"]
          /\ l \in DOMAIN r["labels"] => q["labels"][l] = r["labels"][l]
      BY <2>1, <2>2 DEF Put
    <3> QED
      BY <2>8, <3>1, <3>2
  <2>10. \A field \in MapFields : /\ Says(q, field) # {} <=> Says(r, field) # {}
                                  /\ \A l \in LabelNames \ {"alertgroup"} : SaysOf(q, field, l) = SaysOf(r, field, l)
    BY <2>7, <2>8, <2>9 DEF MapFields
  <2>11. IsLayered(q, cluster, default, base)
    BY <2>6, <2>10, Zenon DEF IsLayered
  <2> QED
    BY <2>11 DEF q
<1> QED
  BY <1>1, <1>2, Zenon

\* One more ConfigMap of alert rules.
LEMMA AlertMapPoint ==
  ASSUME NEW acc, NEW cluster, NEW content, NEW k, NEW g, NEW n, DefaultClusterName \in DOMAIN acc,
         NEW acc2, acc2 = mergeAlertConfigMap(acc, cluster, content)
  PROVE  /\ DefaultClusterName \in DOMAIN acc2
         /\ k # cluster \/ ~(g \in DOMAIN content /\ n \in DOMAIN content[g]) =>
              RuleIn(acc2, k, g, n) = RuleIn(acc, k, g, n)
         /\ k = cluster /\ g \in DOMAIN content /\ n \in DOMAIN content[g] =>
              RuleIn(acc2, k, g, n) =
                IF HasRule(acc, k, g, n) THEN {patchRule(acc[k][g][n], content[g][n])}
                ELSE IF HasRule(acc, DefaultClusterName, g, n)
                     THEN {patchRule(acc[DefaultClusterName][g][n], content[g][n])}
                ELSE {content[g][n]}
<1> DEFINE all == Put(acc, cluster, At(acc, cluster))
           groups == [h \in DOMAIN all[cluster] \cup DOMAIN content |->
                        IF h \in DOMAIN content THEN mergeGroup(all, cluster, h, content[h])
                        ELSE all[cluster][h]]
<1>1. acc2 = Put(acc, cluster, groups)
  BY Zenon DEF mergeAlertConfigMap
<1>2. /\ all[cluster] = At(acc, cluster)
      /\ all[DefaultClusterName] = acc[DefaultClusterName]
  BY DEF Put, At
<1> HIDE DEF all
<1>3. /\ DOMAIN groups = DOMAIN At(acc, cluster) \cup DOMAIN content
      /\ g \in DOMAIN At(acc, cluster) /\ g \notin DOMAIN content => groups[g] = At(acc, cluster)[g]
      /\ g \in DOMAIN content => groups[g] = mergeGroup(all, cluster, g, content[g])
  BY <1>2
<1> HIDE DEF groups
<1>4. /\ DOMAIN acc2 = DOMAIN acc \cup {cluster} /\ acc2[cluster] = groups
      /\ \A c \in DOMAIN acc : c # cluster => acc2[c] = acc[c]
  BY <1>1 DEF Put
<1>5. CASE k # cluster
  <2>1. HasRule(acc2, k, g, n) <=> HasRule(acc, k, g, n)
    BY <1>4, <1>5 DEF HasRule
  <2>2. HasRule(acc, k, g, n) => acc2[k] = acc[k]
    BY <1>4, <1>5 DEF HasRule
  <2> QED
    BY <1>4, <1>5, <2>1, <2>2, RuleInFacts
<1>6. CASE k = cluster
  <2>1. HasRule(acc2, k, g, n) <=> g \in DOMAIN groups /\ n \in DOMAIN groups[g]
    BY <1>4, <1>6, Zenon DEF HasRule
  <2>2. HasRule(acc, k, g, n) <=> g \in DOMAIN At(acc, k) /\ n \in DOMAIN At(acc, k)[g]
    BY EmptyFun DEF HasRule, At
  <2>3. HasRule(acc, k, g, n) => At(acc, k)[g][n] = acc[k][g][n]
    BY DEF HasRule, At
  <2>4. CASE g \notin DOMAIN content
    <3>1. HasRule(acc2, k, g, n) <=> HasRule(acc, k, g, n)
      BY <1>3, <1>6, <2>1, <2>2, <2>4, Zenon
    <3>2. HasRule(acc, k, g, n) => acc2[k][g][n] = acc[k][g][n]
      BY <1>3, <1>4, <1>6, <2>2, <2>3, <2>4, Zenon
    <3> QED
      BY <1>4, <2>4, <3>1, <3>2, RuleInFacts
  <2>5. CASE g \in DOMAIN content
    <3> DEFINE old == At(At(acc, k), g)
               default == At(acc[DefaultClusterName], g)
               new == content[g]
    <3>1. groups[g] = [m \in DOMAIN old \cup DOMAIN new |->
             IF m \notin DOMAIN new THEN old[m]
             ELSE IF m \in DOMAIN old THEN patchRule(old[m], new[m])
             ELSE IF m \in DOMAIN default THEN patchRule(default[m], new[m])
             ELSE new[m]]
      BY <1>2, <1>3, <1>6, <2>5, Zenon DEF mergeGroup
    <3>2. /\ n \in DOMAIN old <=> HasRule(acc, k, g, n)
          /\ HasRule(acc, k, g, n) => old[n] = acc[k][g][n]
      BY <2>2, <2>3, EmptyFun DEF At
    <3>3. /\ n \in DOMAIN default <=> HasRule(acc, DefaultClusterName, g, n)
          /\ HasRule(acc, DefaultClusterName, g, n) => default[n] = acc[DefaultClusterName][g][n]
      BY EmptyFun DEF At, HasRule
    <3> HIDE DEF old, default
    <3>4. acc2[k][g] = groups[g] /\ (HasRule(acc2, k, g, n) <=> n \in DOMAIN old \cup DOMAIN new)
      BY <1>3, <1>4, <1>6, <2>1, <2>5, <3>1
    <3>5. CASE n \notin DOMAIN new
      BY <1>4, <2>5, <3>1, <3>2, <3>4, <3>5, RuleInFacts
    <3>6. CASE n \in DOMAIN new
      <4>1. HasRule(acc2, k, g, n) /\ RuleIn(acc2, k, g, n) = {groups[g][n]}
        BY <3>4, <3>6, RuleInFacts
      <4> QED
        BY <1>4, <1>6, <2>5, <3>1, <3>2, <3>3, <3>6, <4>1
    <3> QED
      BY <3>5, <3>6, Zenon
  <2> QED
    BY <2>4, <2>5, Zenon
<1> QED
  BY <1>5, <1>6, Zenon

\* What an overlay has at a place.
LEMMA MergePlaced ==
  ASSUME NEW old, NEW new, NEW i
  PROVE  Placed(Merge(old, new), i) = IF i \in DOMAIN new THEN {new[i]} ELSE Placed(old, i)
BY DEF Merge, Placed

\* One more PrometheusRule's alert rules.
LEMMA PromPoint ==
  ASSUME NEW acc, NEW content, NEW k, NEW g, NEW n, DefaultClusterName \in DOMAIN acc,
         NEW acc2, acc2 = Put(acc, DefaultClusterName, mergePrometheusAlerts(acc[DefaultClusterName], content))
  PROVE  /\ DefaultClusterName \in DOMAIN acc2
         /\ k # DefaultClusterName \/ ~(g \in DOMAIN content /\ n \in DOMAIN content[g].alerts) =>
              RuleIn(acc2, k, g, n) = RuleIn(acc, k, g, n)
         /\ k = DefaultClusterName /\ g \in DOMAIN content /\ n \in DOMAIN content[g].alerts =>
              RuleIn(acc2, k, g, n) = {[content[g].alerts[n] EXCEPT !.keep = None]}
<1> DEFINE d == acc[DefaultClusterName]
           groups == mergePrometheusAlerts(d, content)
           H == {h \in DOMAIN content : At(d, h) # <<>> \/ content[h].alerts # <<>>}
           news == [h \in H |-> Merge(At(d, h), [m \in DOMAIN content[h].alerts |->
                                                  [content[h].alerts[m] EXCEPT !.keep = None]])]
<1>1. /\ DOMAIN acc2 = DOMAIN acc /\ acc2[DefaultClusterName] = groups
      /\ \A c \in DOMAIN acc : c # DefaultClusterName => acc2[c] = acc[c]
  BY DEF Put
<1>2. groups = Merge(d, news)
  BY Zenon DEF mergePrometheusAlerts
<1>3. DOMAIN news = H /\ (g \in H => news[g] = Merge(At(d, g), [m \in DOMAIN content[g].alerts |->
                                                  [content[g].alerts[m] EXCEPT !.keep = None]]))
  OBVIOUS
<1> HIDE DEF groups, news
<1>4. CASE k # DefaultClusterName
  <2>1. HasRule(acc2, k, g, n) <=> HasRule(acc, k, g, n)
    BY <1>1, <1>4 DEF HasRule
  <2>2. HasRule(acc, k, g, n) => acc2[k] = acc[k]
    BY <1>1, <1>4 DEF HasRule
  <2> QED
    BY <1>1, <1>4, <2>1, <2>2, RuleInFacts
<1>5. CASE k = DefaultClusterName
  <2>1. At(acc2, k) = groups /\ At(acc, k) = d
    BY <1>1, <1>5, Zenon DEF At
  <2>2. Placed(groups, g) = IF g \in H THEN {news[g]} ELSE Placed(d, g)
    BY <1>2, <1>3, MergePlaced, Zenon
  <2>3. CASE g \notin H
    <3>1. ~(g \in DOMAIN content /\ n \in DOMAIN content[g].alerts)
      BY <2>3, EmptyFun
    <3> QED
      BY <1>1, <1>5, <2>1, <2>2, <2>3, <3>1, Zenon DEF RuleIn
  <2>4. CASE g \in H
    <3> DEFINE mine == [m \in DOMAIN content[g].alerts |-> [content[g].alerts[m] EXCEPT !.keep = None]]
    <3>1. RuleIn(acc2, k, g, n) = Placed(news[g], n)
      BY <2>1, <2>2, <2>4 DEF RuleIn
    <3>2. /\ DOMAIN mine = DOMAIN content[g].alerts
          /\ n \in DOMAIN mine => mine[n] = [content[g].alerts[n] EXCEPT !.keep = None]
          /\ news[g] = Merge(At(d, g), mine)
      BY <1>3, <2>4
    <3> HIDE DEF mine
    <3>3. RuleIn(acc2, k, g, n) = IF n \in DOMAIN mine THEN {mine[n]} ELSE Placed(At(d, g), n)
      BY <3>1, <3>2, MergePlaced
    <3>4. Placed(At(d, g), n) = RuleIn(acc, k, g, n)
      <4>1. CASE g \in DOMAIN d
        <5>1. Placed(d, g) = {d[g]} /\ At(d, g) = d[g]
          BY <4>1, PlacedFacts, Zenon DEF At
        <5> QED
          BY <2>1, <5>1 DEF RuleIn
      <4>2. CASE g \notin DOMAIN d
        <5>1. Placed(d, g) = {} /\ At(d, g) = <<>>
          BY <4>2, PlacedFacts, Zenon DEF At
        <5>2. Placed(<<>>, n) = {}
          BY EmptyFun DEF Placed
        <5> QED
          BY <2>1, <5>1, <5>2 DEF RuleIn
      <4> QED
        BY <4>1, <4>2, Zenon
    <3> QED
      BY <1>1, <1>5, <2>4, <3>2, <3>3, <3>4, Zenon
  <2> QED
    BY <2>3, <2>4, Zenon
<1> QED
  BY <1>4, <1>5, Zenon

----------------------------------------------------------------------------
(* The merge of the alert rules keeps them right.                          *)

\* Of the rules merged so far.
AreRules(rules) == \A r \in rules : IsRule(r)

\* What is merged into rules, given those of the default cluster.
Patched(rules, defaults, new, rules2) ==
  \/ \E o : rules = {o} /\ rules2 = {patchRule(o, new)}
  \/ rules = {} /\ \E o : defaults = {o} /\ rules2 = {patchRule(o, new)}
  \/ rules = {} /\ defaults = {} /\ rules2 = {new}

\* A patched rule is a rule.
LEMMA PatchedIsRule ==
  ASSUME NEW old, NEW new, IsRule(old), IsRule(new)
  PROVE  IsRule(patchRule(old, new))
BY PatchSays, Zenon

\* A layer with one more input that agrees.
LEMMA AgreedMore ==
  ASSUME NEW a, NEW new, Agreed(a \cup {new})
  PROVE  (a = {} \/ a = {new}) /\ a \cup {new} = {new} /\ Agreed(a)
BY DEF Agreed

\* A cluster's ConfigMap patches its rules, or copies of the default ones.
LEMMA ClusterRight ==
  ASSUME NEW k, k # DefaultClusterName, NEW a, NEW b, NEW c, NEW new, IsRule(new),
         NEW rules, NEW defaults, NEW rules2, AreRules(rules), AreRules(defaults),
         RightAlerts(rules, k, a, b, c), RightAlerts(defaults, DefaultClusterName, b, b, c),
         Patched(rules, defaults, new, rules2)
  PROVE  RightAlerts(rules2, k, a \cup {new}, b, c) /\ AreRules(rules2)
<1>1. rules2 # {} /\ a \cup {new} # {}
  BY DEF Patched
<1>2. AreRules(rules2)
  BY PatchedIsRule DEF AreRules, Patched
<1>3. ASSUME Agreed(a \cup {new}), Agreed(b), Agreed(c), NEW r \in rules2
      PROVE  IsLayered(r, {new}, b, c)
  <2>1. (a = {} \/ a = {new}) /\ Agreed(a)
    BY <1>3, AgreedMore, Zenon
  <2>2. /\ \A o \in rules : IsRule(o) /\ IsLayered(o, a, b, c)
        /\ rules = {} => a = {}
        /\ \A o \in defaults : IsRule(o) /\ IsLayered(o, {}, b, c)
        /\ defaults = {} => b = {} /\ c = {}
    BY <1>3, <2>1, DefaultTwice DEF RightAlerts, AreRules
  <2>3. CASE rules # {}
    <3>1. PICK o : o \in rules /\ r = patchRule(o, new)
      BY <1>3, <2>3 DEF Patched
    <3> QED
      BY <2>1, <2>2, <3>1, PatchCluster, Zenon
  <2>4. CASE rules = {} /\ defaults # {}
    <3>1. PICK o : o \in defaults /\ r = patchRule(o, new)
      BY <1>3, <2>4 DEF Patched
    <3> QED
      BY <2>2, <3>1, PatchCluster, Zenon
  <2>5. CASE rules = {} /\ defaults = {}
    <3>1. r = new
      BY <1>3, <2>5 DEF Patched
    <3> QED
      BY <2>2, <2>5, <3>1, OneLayer, Zenon
  <2> QED
    BY <2>3, <2>4, <2>5, Zenon
<1>4. Agreed(a \cup {new}) => a \cup {new} = {new}
  BY AgreedMore, Zenon
<1> QED
  BY <1>1, <1>2, <1>3, <1>4, Zenon DEF RightAlerts

\* A default ConfigMap patches the default rules.
LEMMA DefaultRight ==
  ASSUME NEW b, NEW c, NEW new, IsRule(new), NEW rules, NEW rules2, AreRules(rules),
         RightAlerts(rules, DefaultClusterName, b, b, c), Patched(rules, rules, new, rules2)
  PROVE  RightAlerts(rules2, DefaultClusterName, b \cup {new}, b \cup {new}, c) /\ AreRules(rules2)
<1>1. rules2 # {} /\ b \cup {new} \cup c # {}
  BY DEF Patched
<1>2. AreRules(rules2)
  BY PatchedIsRule DEF AreRules, Patched
<1>3. ASSUME Agreed(b \cup {new}), Agreed(c), NEW r \in rules2
      PROVE  IsLayered(r, {}, {new}, c)
  <2>1. (b = {} \/ b = {new}) /\ Agreed(b)
    BY <1>3, AgreedMore, Zenon
  <2>2. /\ \A o \in rules : IsRule(o) /\ IsLayered(o, {}, b, c)
        /\ rules = {} => b = {} /\ c = {}
    BY <1>3, <2>1, DefaultTwice DEF RightAlerts, AreRules
  <2>3. CASE rules # {}
    <3>1. PICK o : o \in rules /\ r = patchRule(o, new)
      BY <1>3, <2>3 DEF Patched
    <3> QED
      BY <2>1, <2>2, <3>1, PatchDefault, Zenon
  <2>4. CASE rules = {}
    <3>1. r = new
      BY <1>3, <2>4 DEF Patched
    <3> QED
      BY <2>2, <2>4, <3>1, OneLayer, Zenon
  <2> QED
    BY <2>3, <2>4, Zenon
<1>4. Agreed(b \cup {new}) => b \cup {new} = {new}
  BY AgreedMore, Zenon
<1>5. ASSUME Agreed(b \cup {new}), Agreed(c), NEW r \in rules2
      PROVE  IsLayered(r, b \cup {new}, b \cup {new}, c)
  BY <1>3, <1>4, <1>5, DefaultTwice, Zenon
<1> QED
  BY <1>1, <1>2, <1>5, Zenon DEF RightAlerts

\* A PrometheusRule replaces what another said.
LEMMA PromRight ==
  ASSUME NEW c, NEW new
  PROVE  RightAlerts({new}, DefaultClusterName, {}, {}, c \cup {new})
<1>1. {} \cup (c \cup {new}) # {}
  OBVIOUS
<1>2. ASSUME Agreed(c \cup {new}) PROVE IsLayered(new, {}, {}, c \cup {new})
  <2>1. c \cup {new} = {new}
    BY <1>2, AgreedMore, Zenon
  <2> QED
    BY <2>1, OneLayer, Zenon
<1> QED
  BY <1>1, <1>2, Zenon DEF RightAlerts

\* The accumulated rules are those of the PrometheusRules P and of the ConfigMaps M.
AlertsMerged(acc, pr, P, in, M) ==
  /\ DefaultClusterName \in DOMAIN acc
  /\ \A k \in AlertClusters, g \in AlertGroups, n \in AlertNames :
       /\ AreRules(RuleIn(acc, k, g, n))
       /\ RightAlerts(RuleIn(acc, k, g, n), k, AlertsFrom(k, in, M, g, n),
                      AlertsFrom(DefaultClusterName, in, M, g, n), AlertsFromProm(pr, P, g, n))

\* At first there are none.
LEMMA NoAlerts ==
  ASSUME NEW pr, NEW in
  PROVE  AlertsMerged([k \in {DefaultClusterName} |-> <<>>], pr, {}, in, {})
<1> DEFINE acc == [k \in {DefaultClusterName} |-> <<>>]
<1>1. DOMAIN acc = {DefaultClusterName} /\ acc[DefaultClusterName] = <<>>
  OBVIOUS
<1> HIDE DEF acc
<1>2. \A k, g, n : RuleIn(acc, k, g, n) = {}
  BY <1>1, RuleInFacts, EmptyFun DEF HasRule
<1>3. \A k, g, n : AlertsFrom(k, in, {}, g, n) = {} /\ AlertsFromProm(pr, {}, g, n) = {}
  BY DEF AlertsFrom, AlertsFromProm
<1>4. \A k : AreRules({}) /\ RightAlerts({}, k, {}, {}, {})
  BY DEF AreRules, RightAlerts
<1>5. AlertsMerged(acc, pr, {}, in, {})
  BY <1>1, <1>2, <1>3, <1>4 DEF AlertsMerged
<1> QED
  BY <1>5, Zenon DEF acc

\* One more ConfigMap, the default ones before the others.
LEMMA AlertMapMerged ==
  ASSUME NEW acc, NEW pr, NEW P, NEW in, NEW M, NEW x, AlertsMerged(acc, pr, P, in, M),
         in[x] \in AlertContents,
         ClusterOf[x] = DefaultClusterName => \A m \in M : ClusterOf[m] = DefaultClusterName
  PROVE  AlertsMerged(mergeAlertConfigMap(acc, ClusterOf[x], in[x]), pr, P, in, M \cup {x})
<1> DEFINE acc2 == mergeAlertConfigMap(acc, ClusterOf[x], in[x])
<1>1. DefaultClusterName \in DOMAIN acc2
  BY AlertMapPoint, Zenon DEF AlertsMerged
<1>3. DefaultClusterName \in DOMAIN acc
  BY Zenon DEF AlertsMerged
<1>2. ASSUME NEW k \in AlertClusters, NEW g \in AlertGroups, NEW n \in AlertNames
      PROVE  /\ AreRules(RuleIn(acc2, k, g, n))
             /\ RightAlerts(RuleIn(acc2, k, g, n), k, AlertsFrom(k, in, M \cup {x}, g, n),
                  AlertsFrom(DefaultClusterName, in, M \cup {x}, g, n), AlertsFromProm(pr, P, g, n))
  <2> DEFINE named == g \in DOMAIN in[x] /\ n \in DOMAIN in[x][g]
             new == in[x][g][n]
             a == AlertsFrom(k, in, M, g, n)
             b == AlertsFrom(DefaultClusterName, in, M, g, n)
             c == AlertsFromProm(pr, P, g, n)
             a2 == AlertsFrom(k, in, M \cup {x}, g, n)
             b2 == AlertsFrom(DefaultClusterName, in, M \cup {x}, g, n)
             rules == RuleIn(acc, k, g, n)
             defaults == RuleIn(acc, DefaultClusterName, g, n)
             rules2 == RuleIn(acc2, k, g, n)
  <2>1. /\ AreRules(rules) /\ RightAlerts(rules, k, a, b, c)
        /\ AreRules(defaults) /\ RightAlerts(defaults, DefaultClusterName, b, b, c)
    BY <1>2, Zenon DEF AlertsMerged, AlertClusters
  <2>2. named => IsRule(new)
    BY RuleAssumption, Zenon
  <2>3. /\ ClusterOf[x] = k /\ named => a2 = a \cup {new}
        /\ ~(ClusterOf[x] = k /\ named) => a2 = a
        /\ ClusterOf[x] = DefaultClusterName /\ named => b2 = b \cup {new}
        /\ ~(ClusterOf[x] = DefaultClusterName /\ named) => b2 = b
    <3>1. ASSUME NEW m
          PROVE  /\ ClusterOf[x] = m /\ named =>
                      AlertsFrom(m, in, M \cup {x}, g, n) = AlertsFrom(m, in, M, g, n) \cup {new}
                 /\ ~(ClusterOf[x] = m /\ named) => AlertsFrom(m, in, M \cup {x}, g, n) = AlertsFrom(m, in, M, g, n)
      BY DEF AlertsFrom
    <3> QED
      BY <3>1
  <2>4. ~(k = ClusterOf[x] /\ named) => rules2 = rules
    BY <1>3, AlertMapPoint
  <2>5. ASSUME k = ClusterOf[x], named
        PROVE  Patched(rules, defaults, new, rules2)
    <3>1. /\ rules = IF HasRule(acc, k, g, n) THEN {acc[k][g][n]} ELSE {}
          /\ defaults = IF HasRule(acc, DefaultClusterName, g, n) THEN {acc[DefaultClusterName][g][n]} ELSE {}
      BY RuleInFacts, Zenon
    <3>2. rules2 = IF HasRule(acc, k, g, n) THEN {patchRule(acc[k][g][n], new)}
                   ELSE IF HasRule(acc, DefaultClusterName, g, n)
                        THEN {patchRule(acc[DefaultClusterName][g][n], new)}
                   ELSE {new}
      <4>1. PICK content : content = in[x]
        OBVIOUS
      <4>2. acc2 = mergeAlertConfigMap(acc, k, content)
        BY <2>5, <4>1
      <4>3. g \in DOMAIN content /\ n \in DOMAIN content[g] /\ new = content[g][n]
        BY <2>5, <4>1
      <4> HIDE DEF acc2, new
      <4> QED
        BY <1>3, <4>2, <4>3, AlertMapPoint
    <3> QED
      BY <3>1, <3>2, Zenon DEF Patched
  <2>6. ClusterOf[x] = DefaultClusterName /\ k # DefaultClusterName => a = {}
    BY DEF AlertsFrom
  <2> HIDE DEF named, new, a, b, c, a2, b2, rules, defaults, rules2
  <2>7. CASE ~named \/ (k # ClusterOf[x] /\ ClusterOf[x] # DefaultClusterName)
    BY <2>1, <2>3, <2>4, <2>7, Zenon DEF a2, b2, c, rules2
  <2>8. CASE named /\ k = ClusterOf[x] /\ k # DefaultClusterName
    <3>1. RightAlerts(rules2, k, a \cup {new}, b, c) /\ AreRules(rules2)
      BY <2>1, <2>2, <2>5, <2>8, ClusterRight, Zenon
    <3> QED
      BY <2>3, <2>8, <3>1, Zenon DEF a2, b2, c, rules2
  <2>9. CASE named /\ k = ClusterOf[x] /\ k = DefaultClusterName
    <3>1. a = b /\ rules = defaults
      BY <2>9, Zenon DEF a, b, rules, defaults
    <3>2. RightAlerts(rules2, DefaultClusterName, b \cup {new}, b \cup {new}, c) /\ AreRules(rules2)
      BY <2>1, <2>2, <2>5, <2>9, <3>1, DefaultRight, Zenon
    <3> QED
      BY <2>3, <2>9, <3>1, <3>2, Zenon DEF a2, b2, c, rules2
  <2>10. CASE named /\ k # ClusterOf[x] /\ ClusterOf[x] = DefaultClusterName
    <3>1. rules2 = rules /\ a2 = {} /\ a = {}
      BY <2>3, <2>4, <2>6, <2>10, Zenon
    <3>2. rules = {}
      BY <2>1, <2>10, <3>1, Zenon DEF RightAlerts
    <3>3. RightAlerts({}, k, {}, b2, c) /\ AreRules({})
      BY <2>10 DEF RightAlerts, AreRules
    <3> QED
      BY <3>1, <3>2, <3>3, Zenon DEF a2, b2, c, rules2
  <2> QED
    BY <2>7, <2>8, <2>9, <2>10, Zenon
<1> QED
  BY <1>1, <1>2, Zenon DEF AlertsMerged

\* One more PrometheusRule, before the ConfigMaps.
LEMMA PromAlertsMerged ==
  ASSUME NEW acc, NEW pr, NEW P, NEW in, NEW x, AlertsMerged(acc, pr, P, in, {}), pr[x] \in PromContents
  PROVE  AlertsMerged(Put(acc, DefaultClusterName, mergePrometheusAlerts(acc[DefaultClusterName], pr[x])),
                      pr, P \cup {x}, in, {})
<1> DEFINE acc2 == Put(acc, DefaultClusterName, mergePrometheusAlerts(acc[DefaultClusterName], pr[x]))
<1>1. DefaultClusterName \in DOMAIN acc2
  BY PromPoint, Zenon DEF AlertsMerged
<1>3. DefaultClusterName \in DOMAIN acc
  BY Zenon DEF AlertsMerged
<1>2. ASSUME NEW k \in AlertClusters, NEW g \in AlertGroups, NEW n \in AlertNames
      PROVE  /\ AreRules(RuleIn(acc2, k, g, n))
             /\ RightAlerts(RuleIn(acc2, k, g, n), k, AlertsFrom(k, in, {}, g, n),
                  AlertsFrom(DefaultClusterName, in, {}, g, n), AlertsFromProm(pr, P \cup {x}, g, n))
  <2> DEFINE named == g \in DOMAIN pr[x] /\ n \in DOMAIN pr[x][g].alerts
             new == [pr[x][g].alerts[n] EXCEPT !.keep = None]
             c == AlertsFromProm(pr, P, g, n)
             c2 == AlertsFromProm(pr, P \cup {x}, g, n)
             rules == RuleIn(acc, k, g, n)
             rules2 == RuleIn(acc2, k, g, n)
  <2>1. \A m : AlertsFrom(m, in, {}, g, n) = {}
    BY DEF AlertsFrom
  <2>2. AreRules(rules) /\ RightAlerts(rules, k, {}, {}, c)
    BY <1>2, <2>1, Zenon DEF AlertsMerged
  <2>3. ASSUME named PROVE IsRule(new)
    <3>1. IsRule(pr[x][g].alerts[n])
      BY <2>3, RuleAssumption, Zenon
    <3> QED
      BY <3>1 DEF IsRule
  <2>4. (named => c2 = c \cup {new}) /\ (~named => c2 = c)
    BY DEF AlertsFromProm
  <2>5. ~(k = DefaultClusterName /\ named) => rules2 = rules
    BY <1>3, PromPoint
  <2>6. k = DefaultClusterName /\ named => rules2 = {new}
    BY <1>3, PromPoint
  <2> HIDE DEF named, new, c, c2, rules, rules2
  <2>7. AreRules(rules2) /\ RightAlerts(rules2, k, {}, {}, c2)
    <3>1. CASE ~named
      BY <2>2, <2>4, <2>5, <3>1, Zenon
    <3>2. CASE named /\ k = DefaultClusterName
      BY <2>3, <2>4, <2>6, <3>2, PromRight DEF AreRules
    <3>3. CASE named /\ k # DefaultClusterName
      <4>1. rules2 = {}
        BY <2>2, <2>5, <3>3, Zenon DEF RightAlerts
      <4> QED
        BY <3>3, <4>1 DEF RightAlerts, AreRules
    <3> QED
      BY <3>1, <3>2, <3>3, Zenon
  <2> QED
    BY <2>1, <2>7, Zenon DEF c2, rules2
<1> QED
  BY <1>1, <1>2, Zenon DEF AlertsMerged

\* What is merged is right in the files.
LEMMA FilesRight ==
  ASSUME NEW acc, NEW pr, NEW P, NEW in, NEW M, AlertsMerged(acc, pr, P, in, M),
         NEW k \in AlertClusters, NEW g \in AlertGroups, NEW n \in AlertNames
  PROVE  RightAlerts(AlertAt(getAlertFiles(acc), k, g, n), k, AlertsFrom(k, in, M, g, n),
                     AlertsFrom(DefaultClusterName, in, M, g, n), AlertsFromProm(pr, P, g, n))
<1> DEFINE a == AlertsFrom(k, in, M, g, n)
           b == AlertsFrom(DefaultClusterName, in, M, g, n)
           c == AlertsFromProm(pr, P, g, n)
           rules == RuleIn(acc, k, g, n)
           rules2 == AlertAt(getAlertFiles(acc), k, g, n)
<1>1. AreRules(rules) /\ RightAlerts(rules, k, a, b, c)
  BY Zenon DEF AlertsMerged
<1>2. rules2 = {InFile(r, g) : r \in rules}
  BY FilesFacts
<1>3. g \in LabelValues
  BY RuleAssumption DEF AlertGroups
<1> HIDE DEF a, b, c, rules, rules2
<1>4. rules2 # {} <=> rules # {}
  BY <1>2
<1>5. ASSUME Agreed(a), Agreed(b), Agreed(c), NEW q \in rules2 PROVE IsLayered(q, a, b, c)
  <2>1. PICK r \in rules : q = InFile(r, g)
    BY <1>2, <1>5
  <2>2. IsRule(r) /\ IsLayered(r, a, b, c)
    BY <1>1, <1>5, Zenon DEF RightAlerts, AreRules
  <2> QED
    BY <1>3, <2>1, <2>2, InFileLayered, Zenon
<1>6. RightAlerts(rules2, k, a, b, c)
  BY <1>1, <1>4, <1>5, Zenon DEF RightAlerts
<1> QED
  BY <1>6, Zenon DEF a, b, c, rules2

----------------------------------------------------------------------------
(* The merge of the record rules.                                          *)

RecordClusters == {ClusterOf[x] : x \in RecordMaps \cup VmRules}

\* The records of the PrometheusRules that have a group.
PromRecords(pr, recording, g) == {pr[p][g].records : p \in recording}

\* The accumulated groups are those of the PrometheusRules P and of the ConfigMaps M.
RecordsMerged(acc, pr, P, in, M) ==
  /\ DefaultClusterName \in DOMAIN acc
  /\ \A g \in RecordGroups :
       /\ Agreed(RecordsFrom(DefaultClusterName, in, M, g)) /\ Agreed(RecordingProm(pr, P, g)) =>
            Placed(acc[DefaultClusterName], g) =
              Foremost({}, RecordsFrom(DefaultClusterName, in, M, g),
                       PromRecords(pr, RecordingProm(pr, P, g), g))
       /\ \A k \in RecordClusters \ {DefaultClusterName} :
            Agreed(RecordsFrom(k, in, M, g)) => Placed(At(acc, k), g) = RecordsFrom(k, in, M, g)

\* At first there are none.
LEMMA NoRecords ==
  ASSUME NEW pr, NEW in
  PROVE  RecordsMerged([k \in {DefaultClusterName} |-> <<>>], pr, {}, in, {})
<1> DEFINE acc == [k \in {DefaultClusterName} |-> <<>>]
<1>1. DOMAIN acc = {DefaultClusterName} /\ acc[DefaultClusterName] = <<>>
  OBVIOUS
<1> HIDE DEF acc
<1>2. \A k : At(acc, k) = <<>>
  BY <1>1 DEF At
<1>3. \A g : Placed(<<>>, g) = {}
  BY EmptyFun DEF Placed
<1>4. \A k, g : RecordsFrom(k, in, {}, g) = {}
  BY DEF RecordsFrom
<1>5. \A g : PromRecords(pr, RecordingProm(pr, {}, g), g) = {}
  BY DEF PromRecords, RecordingProm
<1>6. RecordsMerged(acc, pr, {}, in, {})
  BY <1>1, <1>2, <1>3, <1>4, <1>5 DEF RecordsMerged, Foremost
<1> QED
  BY <1>6, Zenon DEF acc

\* One more ConfigMap of record rules.
LEMMA RecordMapMerged ==
  ASSUME NEW acc, NEW pr, NEW P, NEW in, NEW M, NEW x, RecordsMerged(acc, pr, P, in, M)
  PROVE  RecordsMerged(mergeRecordConfigMap(acc, ClusterOf[x], in[x]), pr, P, in, M \cup {x})
<1>1. PICK content, cluster : content = in[x] /\ cluster = ClusterOf[x]
  OBVIOUS
<1> DEFINE acc2 == mergeRecordConfigMap(acc, cluster, content)
<1>2. /\ DefaultClusterName \in DOMAIN acc /\ DefaultClusterName \in DOMAIN acc2
      /\ At(acc2, cluster) = Merge(At(acc, cluster), content)
      /\ \A k : k # cluster => At(acc2, k) = At(acc, k)
  BY DEF RecordsMerged, mergeRecordConfigMap, Put, At
<1> HIDE DEF acc2
<1>3. acc[DefaultClusterName] = At(acc, DefaultClusterName) /\ acc2[DefaultClusterName] = At(acc2, DefaultClusterName)
  BY <1>2, Zenon DEF At
<1>4. ASSUME NEW k, NEW g, k = cluster, g \in DOMAIN content, Agreed(RecordsFrom(k, in, M \cup {x}, g))
      PROVE  Placed(At(acc2, k), g) = RecordsFrom(k, in, M \cup {x}, g) /\ RecordsFrom(k, in, M \cup {x}, g) # {}
  <2>1. RecordsFrom(k, in, M \cup {x}, g) = RecordsFrom(k, in, M, g) \cup {content[g]}
    BY <1>1, <1>4 DEF RecordsFrom
  <2>2. RecordsFrom(k, in, M \cup {x}, g) = {content[g]}
    BY <1>4, <2>1, AgreedMore
  <2>3. Placed(At(acc2, k), g) = {content[g]}
    BY <1>2, <1>4, MergePlaced
  <2> QED
    BY <2>2, <2>3
<1>5. ASSUME NEW k, NEW g, ~(k = cluster /\ g \in DOMAIN content)
      PROVE  Placed(At(acc2, k), g) = Placed(At(acc, k), g)
             /\ RecordsFrom(k, in, M \cup {x}, g) = RecordsFrom(k, in, M, g)
  <2>1. RecordsFrom(k, in, M \cup {x}, g) = RecordsFrom(k, in, M, g)
    BY <1>1, <1>5 DEF RecordsFrom
  <2>2. CASE k # cluster
    BY <1>2, <2>1, <2>2, Zenon
  <2>3. CASE k = cluster /\ g \notin DOMAIN content
    BY <1>2, <2>1, <2>3, MergePlaced
  <2> QED
    BY <1>5, <2>2, <2>3, Zenon
<1>6. ASSUME NEW g \in RecordGroups, Agreed(RecordingProm(pr, P, g)),
             Agreed(RecordsFrom(DefaultClusterName, in, M \cup {x}, g))
      PROVE  Placed(acc2[DefaultClusterName], g) =
               Foremost({}, RecordsFrom(DefaultClusterName, in, M \cup {x}, g),
                        PromRecords(pr, RecordingProm(pr, P, g), g))
  <2>1. CASE DefaultClusterName = cluster /\ g \in DOMAIN content
    BY <1>3, <1>4, <1>6, <2>1, Zenon DEF Foremost
  <2>2. CASE ~(DefaultClusterName = cluster /\ g \in DOMAIN content)
    <3>1. /\ Placed(acc2[DefaultClusterName], g) = Placed(acc[DefaultClusterName], g)
          /\ RecordsFrom(DefaultClusterName, in, M \cup {x}, g) = RecordsFrom(DefaultClusterName, in, M, g)
      BY <1>3, <1>5, <2>2, Zenon
    <3>2. Agreed(RecordsFrom(DefaultClusterName, in, M, g))
      BY <1>6, <3>1, Zenon
    <3>3. Placed(acc[DefaultClusterName], g) =
            Foremost({}, RecordsFrom(DefaultClusterName, in, M, g), PromRecords(pr, RecordingProm(pr, P, g), g))
      BY <1>6, <3>2, Zenon DEF RecordsMerged
    <3> QED
      BY <3>1, <3>3, Zenon
  <2> QED
    BY <2>1, <2>2, Zenon
<1>7. ASSUME NEW g \in RecordGroups, NEW k \in RecordClusters \ {DefaultClusterName},
             Agreed(RecordsFrom(k, in, M \cup {x}, g))
      PROVE  Placed(At(acc2, k), g) = RecordsFrom(k, in, M \cup {x}, g)
  <2>1. CASE k = cluster /\ g \in DOMAIN content
    BY <1>4, <1>7, <2>1, Zenon
  <2>2. CASE ~(k = cluster /\ g \in DOMAIN content)
    BY <1>5, <1>7, <2>2, Zenon DEF RecordsMerged
  <2> QED
    BY <2>1, <2>2, Zenon
<1>8. RecordsMerged(acc2, pr, P, in, M \cup {x})
  BY <1>2, <1>6, <1>7, Zenon DEF RecordsMerged
<1> QED
  BY <1>1, <1>8, Zenon DEF acc2

\* One more PrometheusRule's record rules, before the ConfigMaps: a group is continued.
LEMMA PromRecordsMerged ==
  ASSUME NEW acc, NEW pr, NEW P, NEW in, NEW x, RecordsMerged(acc, pr, P, in, {}), x \notin P,
         \A p \in P \cup {x} : pr[p] \in PromContents
  PROVE  RecordsMerged(Put(acc, DefaultClusterName, mergePrometheusRecords(acc[DefaultClusterName], pr[x])),
                       pr, P \cup {x}, in, {})
<1>1. PICK content, d : content = pr[x] /\ d = acc[DefaultClusterName]
  OBVIOUS
<1> DEFINE groups == mergePrometheusRecords(d, content)
           acc2 == Put(acc, DefaultClusterName, groups)
           H == {h \in DOMAIN content : At(d, h) # <<>> \/ content[h].records # <<>>}
<1>2. /\ DefaultClusterName \in DOMAIN acc2 /\ acc2[DefaultClusterName] = groups
      /\ \A k : k # DefaultClusterName => At(acc2, k) = At(acc, k)
  BY DEF Put, At
<1> HIDE DEF acc2
<1>3. ASSUME NEW g
      PROVE  Placed(groups, g) = IF g \in H THEN {At(d, g) \o content[g].records} ELSE Placed(d, g)
  <2> DEFINE news == [h \in H |-> At(d, h) \o content[h].records]
  <2>1. groups = Merge(d, news)
    BY Zenon DEF mergePrometheusRecords
  <2>2. DOMAIN news = H /\ (g \in H => news[g] = At(d, g) \o content[g].records)
    OBVIOUS
  <2> HIDE DEF news, groups
  <2> QED
    BY <2>1, <2>2, MergePlaced
<1> HIDE DEF groups
<1>4. \A k, g : RecordsFrom(k, in, {}, g) = {}
  BY DEF RecordsFrom
<1>5. \A g : (g \in DOMAIN d => Placed(d, g) = {d[g]} /\ At(d, g) = d[g])
             /\ (g \notin DOMAIN d => Placed(d, g) = {} /\ At(d, g) = <<>>)
  BY PlacedFacts DEF At
<1>6. ASSUME NEW g \in RecordGroups, Agreed(RecordingProm(pr, P \cup {x}, g))
      PROVE  Placed(groups, g) = PromRecords(pr, RecordingProm(pr, P \cup {x}, g), g)
  <2> DEFINE R == RecordingProm(pr, P, g)
             R2 == RecordingProm(pr, P \cup {x}, g)
  <2>1. /\ g \in DOMAIN content /\ content[g].records # <<>> => R2 = R \cup {x}
        /\ ~(g \in DOMAIN content /\ content[g].records # <<>>) => R2 = R
        /\ R \subseteq P
    BY <1>1 DEF RecordingProm
  <2>2. Agreed(R)
    BY <1>6, <2>1 DEF Agreed
  <2>3. Placed(d, g) = PromRecords(pr, R, g)
    <3>1. Placed(d, g) = Foremost({}, {}, PromRecords(pr, R, g))
      BY <1>1, <1>4, <2>2 DEF RecordsMerged, Agreed
    <3> QED
      BY <3>1, Zenon DEF Foremost
  <2>4. CASE g \in DOMAIN content /\ content[g].records # <<>>
    <3>1. R = {} /\ R2 = {x}
      BY <1>6, <2>1, <2>4 DEF Agreed
    <3>2. Placed(d, g) = {}
      BY <2>3, <3>1 DEF PromRecords
    <3>3. At(d, g) = <<>>
      BY <1>5, <3>2
    <3>4. content[g].records \in Seq(Range(content[g].records))
      BY <1>1, <2>4, RuleAssumption
    <3>5. At(d, g) \o content[g].records = content[g].records
      BY <3>3, <3>4
    <3>6. PromRecords(pr, R2, g) = {content[g].records}
      BY <1>1, <3>1 DEF PromRecords
    <3> QED
      BY <1>3, <2>4, <3>5, <3>6
  <2>5. CASE ~(g \in DOMAIN content /\ content[g].records # <<>>)
    <3>1. CASE g \notin H
      BY <1>3, <2>1, <2>3, <2>5, <3>1
    <3>2. CASE g \in H
      <4>1. g \in DOMAIN content /\ content[g].records = <<>> /\ At(d, g) # <<>>
        BY <2>5, <3>2
      <4>2. g \in DOMAIN d /\ Placed(d, g) = {At(d, g)}
        BY <1>5, <4>1
      <4>3. PICK p \in R : At(d, g) = pr[p][g].records
        BY <2>3, <4>2 DEF PromRecords
      <4>4. pr[p] \in PromContents /\ g \in DOMAIN pr[p]
        BY <2>1, <4>3 DEF RecordingProm
      <4>5. pr[p][g].records \in Seq(Range(pr[p][g].records))
        BY <4>4, RuleAssumption
      <4>6. At(d, g) \o content[g].records = At(d, g)
        BY <4>1, <4>3, <4>5
      <4> QED
        BY <1>3, <2>1, <2>3, <2>5, <3>2, <4>2, <4>6
    <3> QED
      BY <3>1, <3>2, Zenon
  <2> QED
    BY <2>4, <2>5, Zenon
<1>7. ASSUME NEW g \in RecordGroups, NEW k \in RecordClusters \ {DefaultClusterName}
      PROVE  Placed(At(acc2, k), g) = RecordsFrom(k, in, {}, g)
  <2>1. Agreed(RecordsFrom(k, in, {}, g))
    BY <1>4, Zenon DEF Agreed
  <2>2. Placed(At(acc, k), g) = RecordsFrom(k, in, {}, g)
    BY <1>7, <2>1, Zenon DEF RecordsMerged
  <2> QED
    BY <1>2, <1>7, <2>2, Zenon
<1>8. RecordsMerged(acc2, pr, P \cup {x}, in, {})
  BY <1>2, <1>4, <1>6, <1>7 DEF RecordsMerged, Foremost
<1> QED
  BY <1>1, <1>8, Zenon DEF acc2, groups

\* What is merged is right in a regional's ConfigMap.
LEMMA ValuesRight ==
  ASSUME NEW acc, NEW pr, NEW P, NEW in, NEW M, RecordsMerged(acc, pr, P, in, M),
         NEW k \in RecordClusters, NEW g \in RecordGroups
  PROVE  RightRecords(RecordValues(acc, k), g, RecordsFrom(k, in, M, g),
                      RecordsFrom(DefaultClusterName, in, M, g), pr, RecordingProm(pr, P, g))
<1> SUFFICES ASSUME Agreed(RecordsFrom(k, in, M, g)), Agreed(RecordsFrom(DefaultClusterName, in, M, g)),
                    Agreed(RecordingProm(pr, P, g))
             PROVE  Placed(RecordValues(acc, k), g) =
                      Foremost(RecordsFrom(k, in, M, g), RecordsFrom(DefaultClusterName, in, M, g),
                               {pr[p][g].records : p \in RecordingProm(pr, P, g)})
  BY DEF RightRecords
<1> DEFINE a == RecordsFrom(k, in, M, g)
           b == RecordsFrom(DefaultClusterName, in, M, g)
           c == PromRecords(pr, RecordingProm(pr, P, g), g)
<1>1. Placed(acc[DefaultClusterName], g) = Foremost({}, b, c)
  BY Zenon DEF RecordsMerged
<1>2. Placed(RecordValues(acc, k), g) =
        IF g \in DOMAIN At(acc, k) THEN {At(acc, k)[g]} ELSE Placed(acc[DefaultClusterName], g)
  BY MergePlaced DEF RecordValues
<1>3. Placed(RecordValues(acc, k), g) =
        IF Placed(At(acc, k), g) # {} THEN Placed(At(acc, k), g) ELSE Placed(acc[DefaultClusterName], g)
  BY <1>2, PlacedFacts
<1> HIDE DEF a, b, c
<1>4. CASE k # DefaultClusterName
  <2>1. Placed(At(acc, k), g) = a
    BY <1>4 DEF RecordsMerged, a
  <2> QED
    BY <1>1, <1>3, <2>1 DEF Foremost, a, b, c, PromRecords
<1>5. CASE k = DefaultClusterName
  <2>1. At(acc, k) = acc[DefaultClusterName] /\ a = b
    BY <1>5 DEF RecordsMerged, At, a, b
  <2> QED
    BY <1>1, <1>3, <2>1 DEF Foremost, a, b, c, PromRecords
<1> QED
  BY <1>4, <1>5, Zenon

----------------------------------------------------------------------------
(* A reconciliation: what it has read, what it has merged, what is left.   *)

Inputs ==
  /\ prom \in [PromRules -> PromContents \cup {None}]
  /\ alertIn \in [AlertMaps -> AlertContents \cup {None, Malformed}]
  /\ recordIn \in [RecordMaps -> RecordContents \cup {None, Malformed}]
  /\ asked \in BOOLEAN /\ stale \in BOOLEAN

\* The inputs a reconciliation has read are well-formed.
ReadOf(r) ==
  /\ r = [step |-> r.step, todo |-> r.todo, prom |-> r.prom, alertIn |-> r.alertIn,
          recordIn |-> r.recordIn, alerts |-> r.alerts, records |-> r.records,
          read |-> r.read, vm |-> r.vm, left |-> r.left]
  /\ r.prom \in [PromRules -> PromContents \cup {None}]
  /\ r.alertIn \in [AlertMaps -> AlertContents \cup {None}]
  /\ r.recordIn \in [RecordMaps -> RecordContents \cup {None}]

\* PrometheusRules are merged before ConfigMaps, default ConfigMaps before the others.
InOrder(r) ==
  /\ r.todo \subseteq Present(r.prom) \cup Present(r.alertIn) \cup Present(r.recordIn)
  /\ r.todo \cap PromRules # {} => Present(r.alertIn) \subseteq r.todo /\ Present(r.recordIn) \subseteq r.todo
  /\ \A m \in r.todo \cap AlertMaps : ClusterOf[m] = DefaultClusterName =>
       \A d \in Present(r.alertIn) \ r.todo : ClusterOf[d] = DefaultClusterName

\* What is not left to merge is merged.
MergedSoFar(r) ==
  /\ AlertsMerged(r.alerts, r.prom, Present(r.prom) \ r.todo, r.alertIn, Present(r.alertIn) \ r.todo)
  /\ RecordsMerged(r.records, r.prom, Present(r.prom) \ r.todo, r.recordIn, Present(r.recordIn) \ r.todo)

Merging(r) ==
  /\ ReadOf(r) /\ InOrder(r) /\ MergedSoFar(r)
  /\ r.step \in {"merge", "put", "vmrules"} /\ (r.step # "merge" => r.todo = {})

\* What may be merged next is left, and is in order.
LEMMA NextFacts ==
  ASSUME NEW todo, NEW x \in NextInputs(todo)
  PROVE  /\ x \in todo
         /\ x \notin PromRules => todo \cap PromRules = {}
         /\ x \in AlertMaps /\ ClusterOf[x] # DefaultClusterName =>
              \A m \in todo \cap AlertMaps : ClusterOf[m] # DefaultClusterName
<1>1. ASSUME NEW maps PROVE
        /\ getConfigMaps(maps) \subseteq maps
        /\ \A m \in getConfigMaps(maps) : ClusterOf[m] # DefaultClusterName =>
             \A d \in maps : ClusterOf[d] # DefaultClusterName
  BY DEF getConfigMaps
<1>2. CASE todo \cap PromRules # {}
  BY <1>2, KindAssumption DEF NextInputs
<1>3. CASE todo \cap PromRules = {} /\ todo \cap AlertMaps # {}
  <2>1. x \in getConfigMaps(todo \cap AlertMaps)
    BY <1>3, Zenon DEF NextInputs
  <2> QED
    BY <1>1, <1>3, <2>1
<1>4. CASE todo \cap PromRules = {} /\ todo \cap AlertMaps = {}
  <2>1. x \in getConfigMaps(todo)
    BY <1>4, Zenon DEF NextInputs
  <2> QED
    BY <1>1, <1>4, <2>1
<1> QED
  BY <1>2, <1>3, <1>4, Zenon

\* One round of the merges.
LEMMA MergeNextKeeps ==
  ASSUME Merging(rec), MergeNext
  PROVE  Merging(rec') /\ rec'.step = "merge" /\ rec'.prom = rec.prom /\ rec'.alertIn = rec.alertIn
         /\ rec'.recordIn = rec.recordIn /\ rec'.vm = rec.vm /\ rec'.left = rec.left
<1>1. PICK x \in NextInputs(rec.todo) :
       rec' = [rec EXCEPT
         !.todo = @ \ {x},
         !.alerts =
           IF x \in PromRules THEN Put(@, DefaultClusterName,
              mergePrometheusAlerts(@[DefaultClusterName], rec.prom[x]))
           ELSE IF x \in AlertMaps THEN mergeAlertConfigMap(@, ClusterOf[x], rec.alertIn[x])
           ELSE @,
         !.records =
           IF x \in PromRules THEN Put(@, DefaultClusterName,
              mergePrometheusRecords(@[DefaultClusterName], rec.prom[x]))
           ELSE IF x \in RecordMaps THEN mergeRecordConfigMap(@, ClusterOf[x], rec.recordIn[x])
           ELSE @]
  BY Zenon DEF MergeNext
<1>2. PICK r, q : r = rec /\ q = rec'
  OBVIOUS
<1> DEFINE alerts2 ==
           IF x \in PromRules THEN Put(r.alerts, DefaultClusterName,
              mergePrometheusAlerts(r.alerts[DefaultClusterName], r.prom[x]))
           ELSE IF x \in AlertMaps THEN mergeAlertConfigMap(r.alerts, ClusterOf[x], r.alertIn[x])
           ELSE r.alerts
           records2 ==
           IF x \in PromRules THEN Put(r.records, DefaultClusterName,
              mergePrometheusRecords(r.records[DefaultClusterName], r.prom[x]))
           ELSE IF x \in RecordMaps THEN mergeRecordConfigMap(r.records, ClusterOf[x], r.recordIn[x])
           ELSE r.records
<1>3. q = [r EXCEPT !.todo = r.todo \ {x}, !.alerts = alerts2, !.records = records2]
  BY <1>1, <1>2
<1>4. Merging(r) /\ r.step = "merge"
  BY <1>2 DEF MergeNext
<1> HIDE DEF alerts2, records2
<1>5. /\ q = [step |-> q.step, todo |-> q.todo, prom |-> q.prom, alertIn |-> q.alertIn,
              recordIn |-> q.recordIn, alerts |-> q.alerts, records |-> q.records,
              read |-> q.read, vm |-> q.vm, left |-> q.left]
      /\ q.todo = r.todo \ {x} /\ q.alerts = alerts2 /\ q.records = records2
      /\ q.step = r.step /\ q.prom = r.prom /\ q.alertIn = r.alertIn /\ q.recordIn = r.recordIn
      /\ q.vm = r.vm /\ q.left = r.left
  BY <1>3, <1>4 DEF Merging, ReadOf
<1>6. ReadOf(q)
  BY <1>4, <1>5 DEF Merging, ReadOf
<1>7. /\ x \in r.todo
      /\ x \notin PromRules => r.todo \cap PromRules = {}
      /\ x \in AlertMaps /\ ClusterOf[x] # DefaultClusterName =>
           \A m \in r.todo \cap AlertMaps : ClusterOf[m] # DefaultClusterName
  BY <1>1, <1>2, NextFacts, Zenon
<1>8. /\ Present(r.prom) \subseteq PromRules /\ Present(r.alertIn) \subseteq AlertMaps
      /\ Present(r.recordIn) \subseteq RecordMaps
      /\ \A p \in Present(r.prom) : r.prom[p] \in PromContents
      /\ \A m \in Present(r.alertIn) : r.alertIn[m] \in AlertContents
  BY <1>4 DEF Merging, ReadOf, Present
<1>9. InOrder(q)
  <2> DEFINE T == r.todo
             S == r.todo \ {x}
  <2>1. InOrder(r)
    BY <1>4 DEF Merging
  <2>2. S \subseteq Present(r.prom) \cup Present(r.alertIn) \cup Present(r.recordIn)
    BY <2>1 DEF InOrder
  <2>3. ASSUME S \cap PromRules # {} PROVE Present(r.alertIn) \subseteq S /\ Present(r.recordIn) \subseteq S
    BY <1>7, <1>8, <2>1, <2>3, KindAssumption DEF InOrder
  <2>4. ASSUME NEW m \in S \cap AlertMaps, ClusterOf[m] = DefaultClusterName, NEW d \in Present(r.alertIn) \ S
        PROVE  ClusterOf[d] = DefaultClusterName
    BY <1>7, <1>8, <2>1, <2>4 DEF InOrder
  <2> QED
    BY <1>5, <2>2, <2>3, <2>4 DEF InOrder
<1>10. MergedSoFar(q)
  <2> DEFINE P == Present(r.prom) \ r.todo
             M == Present(r.alertIn) \ r.todo
             N == Present(r.recordIn) \ r.todo
  <2>1. /\ AlertsMerged(r.alerts, r.prom, P, r.alertIn, M)
        /\ RecordsMerged(r.records, r.prom, P, r.recordIn, N)
    BY <1>4, Zenon DEF Merging, MergedSoFar
  <2>2. x \in Present(r.prom) \cup Present(r.alertIn) \cup Present(r.recordIn)
    BY <1>4, <1>7 DEF Merging, InOrder
  <2>3. CASE x \in PromRules
    <3>1. /\ Present(r.prom) \ q.todo = P \cup {x} /\ x \notin P
          /\ M = {} /\ Present(r.alertIn) \ q.todo = {}
          /\ N = {} /\ Present(r.recordIn) \ q.todo = {}
      BY <1>4, <1>5, <1>7, <1>8, <2>2, <2>3, KindAssumption DEF Merging, InOrder
    <3>2. \A p \in P \cup {x} : r.prom[p] \in PromContents
      BY <1>8, <2>2, <2>3, KindAssumption
    <3> HIDE DEF P, M, N
    <3>3. AlertsMerged(alerts2, r.prom, P \cup {x}, r.alertIn, {})
      BY <2>1, <2>3, <3>1, <3>2, PromAlertsMerged DEF alerts2
    <3>4. RecordsMerged(records2, r.prom, P \cup {x}, r.recordIn, {})
      BY <2>1, <2>3, <3>1, <3>2, PromRecordsMerged DEF records2
    <3> QED
      BY <1>5, <3>1, <3>3, <3>4, Zenon DEF MergedSoFar
  <2>4. CASE x \in AlertMaps
    <3>1. /\ Present(r.prom) \ q.todo = P /\ Present(r.recordIn) \ q.todo = N
          /\ Present(r.alertIn) \ q.todo = M \cup {x}
          /\ r.alertIn[x] \in AlertContents /\ x \notin PromRules /\ x \notin RecordMaps
      BY <1>5, <1>7, <1>8, <2>2, <2>4, KindAssumption
    <3>2. ClusterOf[x] = DefaultClusterName => \A m \in M : ClusterOf[m] = DefaultClusterName
      BY <1>4, <1>7, <2>4 DEF Merging, InOrder
    <3> HIDE DEF P, M, N
    <3>3. AlertsMerged(alerts2, r.prom, P, r.alertIn, M \cup {x})
      BY <2>1, <2>4, <3>1, <3>2, AlertMapMerged DEF alerts2
    <3>4. RecordsMerged(records2, r.prom, P, r.recordIn, N)
      BY <2>1, <3>1, Zenon DEF records2
    <3> QED
      BY <1>5, <3>1, <3>3, <3>4, Zenon DEF MergedSoFar
  <2>5. CASE x \in RecordMaps
    <3>1. /\ Present(r.prom) \ q.todo = P /\ Present(r.recordIn) \ q.todo = N \cup {x}
          /\ Present(r.alertIn) \ q.todo = M
          /\ x \notin PromRules /\ x \notin AlertMaps
      BY <1>5, <1>7, <1>8, <2>2, <2>5, KindAssumption
    <3> HIDE DEF P, M, N
    <3>2. AlertsMerged(alerts2, r.prom, P, r.alertIn, M)
      BY <2>1, <3>1, Zenon DEF alerts2
    <3>3. RecordsMerged(records2, r.prom, P, r.recordIn, N \cup {x})
      BY <2>1, <2>5, <3>1, RecordMapMerged DEF records2
    <3> QED
      BY <1>5, <3>1, <3>2, <3>3, Zenon DEF MergedSoFar
  <2> QED
    BY <1>8, <2>2, <2>3, <2>4, <2>5
<1>11. Merging(q)
  BY <1>4, <1>5, <1>6, <1>9, <1>10 DEF Merging
<1> QED
  BY <1>2, <1>4, <1>5, <1>11

----------------------------------------------------------------------------
(* The outputs are right when a reconciliation ends undisturbed.           *)

\* While no event is pending, the reconciliation works on what is there; while nothing
\* unwatched has changed, what it has written for Promxy is there.
Following ==
  /\ ~asked => rec.alertIn = alertIn /\ rec.recordIn = recordIn /\ rec.vm = vm
  /\ rec.step # "vmrules" => rec.left = Present(rec.vm)
  /\ ~stale => rec.prom = prom
  /\ ~stale /\ rec.step = "put" => rec.read = promxy
  /\ ~stale /\ rec.step = "vmrules" /\ promxy.generated => promxy.data = getAlertFiles(rec.alerts)
  /\ ~asked /\ rec.step = "vmrules" =>
       \A v \in VmRules \ rec.left : vm[v] # None /\ vm[v].generated =>
         vm[v].data = RecordValues(rec.records, ClusterOf[v])

Active == rec.step # "idle" => Merging(rec) /\ Following

Outputs == promxy = [data |-> promxy.data, generated |-> promxy.generated]

IInv == Counted /\ Inputs /\ Outputs /\ Active /\ RulesLayered

\* What is not at rest, or has a change pending, claims nothing of the outputs.
LEMMA NotQuiet == rec.step # "idle" \/ asked \/ stale => RulesLayered
BY Zenon DEF RulesLayered, AlertsLayered, RecordsLayered, Quiet

LEMMA NotQuietNext == (rec.step # "idle" \/ asked \/ stale)' => RulesLayered'
BY Zenon DEF RulesLayered, AlertsLayered, RecordsLayered, Quiet

\* The inputs and outputs are read.
LEMMA ListKeeps == ASSUME IInv, List PROVE Active' /\ rec'.step # "idle"
<1>1. /\ rec' = [step |-> "merge", todo |-> Present(prom) \cup Present(alertIn) \cup Present(recordIn),
             prom |-> prom, alertIn |-> alertIn, recordIn |-> recordIn,
             alerts |-> [k \in {DefaultClusterName} |-> <<>>],
             records |-> [k \in {DefaultClusterName} |-> <<>>],
             read |-> promxy, vm |-> vm, left |-> Present(vm)]
      /\ UNCHANGED <<prom, alertIn, recordIn, promxy, vm>>
  BY Zenon DEF List, inputs
<1>2. PICK r : r = rec'
  OBVIOUS
<1>3. /\ r = [step |-> r.step, todo |-> r.todo, prom |-> r.prom, alertIn |-> r.alertIn,
              recordIn |-> r.recordIn, alerts |-> r.alerts, records |-> r.records,
              read |-> r.read, vm |-> r.vm, left |-> r.left]
      /\ r.step = "merge" /\ r.todo = Present(prom) \cup Present(alertIn) \cup Present(recordIn)
      /\ r.prom = prom /\ r.alertIn = alertIn /\ r.recordIn = recordIn /\ r.vm = vm /\ r.left = Present(vm)
      /\ r.alerts = [k \in {DefaultClusterName} |-> <<>>] /\ r.records = [k \in {DefaultClusterName} |-> <<>>]
  BY <1>1, <1>2
<1>4. ReadOf(r)
  <2>1. /\ prom \in [PromRules -> PromContents \cup {None}]
        /\ alertIn \in [AlertMaps -> AlertContents \cup {None}]
        /\ recordIn \in [RecordMaps -> RecordContents \cup {None}]
    BY DEF IInv, Inputs, List, WellFormed
  <2> QED
    BY <1>3, <2>1, Zenon DEF ReadOf
<1>5. /\ Present(r.prom) \ r.todo = {} /\ Present(r.alertIn) \ r.todo = {} /\ Present(r.recordIn) \ r.todo = {}
      /\ r.todo = Present(r.prom) \cup Present(r.alertIn) \cup Present(r.recordIn)
  BY <1>3
<1>6. InOrder(r)
  BY <1>5 DEF InOrder
<1>7. MergedSoFar(r)
  <2>1. AlertsMerged(r.alerts, r.prom, {}, r.alertIn, {})
    BY <1>3, NoAlerts
  <2>2. RecordsMerged(r.records, r.prom, {}, r.recordIn, {})
    BY <1>3, NoRecords
  <2> QED
    BY <1>5, <2>1, <2>2, Zenon DEF MergedSoFar
<1>8. Merging(r)
  BY <1>3, <1>4, <1>6, <1>7 DEF Merging
<1>9. Following'
  BY <1>1, <1>2, <1>3 DEF Following
<1> QED
  BY <1>2, <1>3, <1>8, <1>9 DEF Active

\* A step that merges nothing.
StepTo(r, s, o) == [r EXCEPT !.read = o, !.step = s]

LEMMA StepFields ==
  ASSUME NEW r, ReadOf(r), NEW s, NEW o, NEW q, q = StepTo(r, s, o)
  PROVE  /\ q.step = s /\ ReadOf(q) /\ q.todo = r.todo /\ q.prom = r.prom /\ q.alertIn = r.alertIn
         /\ q.recordIn = r.recordIn /\ q.alerts = r.alerts /\ q.records = r.records
         /\ q.vm = r.vm /\ q.left = r.left /\ q.read = o
<1>1. /\ q = [step |-> q.step, todo |-> q.todo, prom |-> q.prom, alertIn |-> q.alertIn,
              recordIn |-> q.recordIn, alerts |-> q.alerts, records |-> q.records,
              read |-> q.read, vm |-> q.vm, left |-> q.left]
      /\ q.step = s /\ q.todo = r.todo /\ q.prom = r.prom /\ q.alertIn = r.alertIn
      /\ q.recordIn = r.recordIn /\ q.alerts = r.alerts /\ q.records = r.records
      /\ q.vm = r.vm /\ q.left = r.left /\ q.read = o
  BY DEF ReadOf, StepTo
<1> QED
  BY <1>1 DEF ReadOf

LEMMA StepMerging ==
  ASSUME NEW r, Merging(r), r.todo = {}, NEW q, ReadOf(q), q.step \in {"merge", "put", "vmrules"},
         q.todo = r.todo, q.prom = r.prom, q.alertIn = r.alertIn,
         q.recordIn = r.recordIn, q.alerts = r.alerts, q.records = r.records
  PROVE  Merging(q)
BY Zenon DEF Merging, InOrder, MergedSoFar

\* The ConfigMap of alert rules is read.
LEMMA GetKeeps == ASSUME IInv, GetPromxyRules PROVE Active' /\ rec'.step # "idle"
<1>1. PICK r, q : r = rec /\ q = rec'
  OBVIOUS
<1>2. /\ Merging(r) /\ r.todo = {} /\ q = StepTo(r, "put", promxy)
      /\ UNCHANGED <<prom, alertIn, recordIn, promxy, vm, asked, stale>>
  BY <1>1 DEF GetPromxyRules, IInv, Active, inputs, StepTo
<1>6. ReadOf(r)
  BY <1>2 DEF Merging
<1>3. /\ q.step = "put" /\ ReadOf(q) /\ q.todo = r.todo /\ q.prom = r.prom /\ q.alertIn = r.alertIn
      /\ q.recordIn = r.recordIn /\ q.alerts = r.alerts /\ q.records = r.records
      /\ q.vm = r.vm /\ q.left = r.left /\ q.read = promxy
  BY <1>2, <1>6, StepFields, SMT
<1>4. Merging(q)
  BY <1>2, <1>3, StepMerging
<1>5. Following'
  <2>1. /\ ~asked => r.alertIn = alertIn /\ r.recordIn = recordIn /\ r.vm = vm
        /\ ~stale => r.prom = prom
        /\ r.left = Present(r.vm)
    BY <1>1 DEF IInv, Active, Following, GetPromxyRules
  <2> QED
    BY <1>1, <1>2, <1>3, <2>1 DEF Following
<1> QED
  BY <1>1, <1>3, <1>4, <1>5 DEF Active

\* One more input is merged.
LEMMA MergeKeeps == ASSUME IInv, MergeNext PROVE Active' /\ rec'.step # "idle"
<1>1. Merging(rec) /\ Following
  BY DEF IInv, Active, MergeNext
<1>2. Merging(rec') /\ rec'.step = "merge" /\ rec'.prom = rec.prom /\ rec'.alertIn = rec.alertIn
         /\ rec'.recordIn = rec.recordIn /\ rec'.vm = rec.vm /\ rec'.left = rec.left
  BY <1>1, MergeNextKeeps, Zenon
<1>3. rec.step = "merge" /\ UNCHANGED <<prom, alertIn, recordIn, promxy, vm, asked, stale>>
  BY Zenon DEF MergeNext, inputs
<1>4. Following'
  BY <1>1, <1>2, <1>3 DEF Following
<1> QED
  BY <1>2, <1>4 DEF Active

\* The ConfigMap of alert rules is written, or left as it is, or the write conflicts.
LEMMA PutKeeps ==
  ASSUME IInv, PutPromxyRules
  PROVE  Active' /\ Outputs' /\ (rec'.step # "idle" \/ asked')
<1>1. PICK r, q : r = rec /\ q = rec'
  OBVIOUS
<1> DEFINE files == getAlertFiles(rec.alerts)
<1>2. Merging(r) /\ ReadOf(r) /\ r.todo = {} /\ r.step = "put" /\ Following
  BY <1>1 DEF PutPromxyRules, IInv, Active, Merging
<1>3. UNCHANGED <<prom, alertIn, recordIn, vm, stale>>
  BY Zenon DEF PutPromxyRules, inputs
<1>4. CASE Retry /\ UNCHANGED promxy
  BY <1>4 DEF Retry, Idle, Active, IInv, Outputs
<1>5. ASSUME q = [r EXCEPT !.step = "vmrules"], asked' = asked, promxy' = [data |-> promxy'.data, generated |-> promxy'.generated],
             ~stale /\ promxy'.generated => promxy'.data = files
      PROVE  Active' /\ Outputs' /\ (rec'.step # "idle" \/ asked')
  <2>1. q = StepTo(r, "vmrules", r.read)
    BY <1>2, <1>5 DEF StepTo, ReadOf
  <2>2. /\ q.step = "vmrules" /\ ReadOf(q) /\ q.todo = r.todo /\ q.prom = r.prom /\ q.alertIn = r.alertIn
        /\ q.recordIn = r.recordIn /\ q.alerts = r.alerts /\ q.records = r.records
        /\ q.vm = r.vm /\ q.left = r.left
    BY <1>2, <2>1, StepFields, SMT
  <2>3. Merging(q)
    BY <1>2, <2>2, StepMerging
  <2>4. /\ ~asked' => q.alertIn = alertIn' /\ q.recordIn = recordIn' /\ q.vm = vm'
        /\ ~stale' => q.prom = prom'
    BY <1>1, <1>2, <1>3, <1>5, <2>2 DEF Following
  <2>5. ~stale' /\ promxy'.generated => promxy'.data = getAlertFiles(q.alerts)
    BY <1>1, <1>3, <1>5, <2>2
  <2>6. ~asked' => \A v \in VmRules \ q.left : vm'[v] = None
    <3>1. DOMAIN vm = VmRules
      BY DEF IInv, Counted
    <3> QED
      BY <1>1, <1>2, <1>3, <1>5, <2>2, <3>1 DEF Following, Present
  <2>7. Following'
    BY <1>1, <2>2, <2>4, <2>5, <2>6 DEF Following
  <2> QED
    BY <1>1, <1>5, <2>2, <2>3, <2>7 DEF Active, Outputs
<1>6. CASE ~MayWrite(rec.read, files) /\ rec' = [rec EXCEPT !.step = "vmrules"] /\ UNCHANGED <<promxy, asked>>
  <2>1. ~stale => rec.read = promxy
    BY <1>1, <1>2 DEF Following
  <2>2. ~stale /\ promxy'.generated => promxy'.data = files
    BY <1>6, <2>1 DEF MayWrite
  <2> QED
    BY <1>1, <1>5, <1>6, <2>2 DEF IInv, Outputs
<1>7. CASE promxy' = [promxy EXCEPT !.data = files] /\ rec' = [rec EXCEPT !.step = "vmrules"] /\ UNCHANGED asked
  <2>1. promxy' = [data |-> promxy'.data, generated |-> promxy'.generated] /\ promxy'.data = files
    BY <1>7 DEF IInv, Outputs
  <2> QED
    BY <1>1, <1>5, <1>7, <2>1
<1> QED
  BY <1>4, <1>6, <1>7, Zenon DEF PutPromxyRules

\* A ConfigMap of record rules is handled.
LEMMA LeftFields ==
  ASSUME NEW r, Merging(r), NEW S, NEW q, q = [r EXCEPT !.left = S]
  PROVE  /\ Merging(q) /\ q.left = S /\ q.step = r.step /\ q.prom = r.prom /\ q.alertIn = r.alertIn
         /\ q.recordIn = r.recordIn /\ q.alerts = r.alerts /\ q.records = r.records
         /\ q.vm = r.vm /\ q.read = r.read
<1>1. /\ q = [step |-> q.step, todo |-> q.todo, prom |-> q.prom, alertIn |-> q.alertIn,
              recordIn |-> q.recordIn, alerts |-> q.alerts, records |-> q.records,
              read |-> q.read, vm |-> q.vm, left |-> q.left]
      /\ q.left = S /\ q.step = r.step /\ q.todo = r.todo /\ q.prom = r.prom /\ q.alertIn = r.alertIn
      /\ q.recordIn = r.recordIn /\ q.alerts = r.alerts /\ q.records = r.records
      /\ q.vm = r.vm /\ q.read = r.read
  BY DEF Merging, ReadOf
<1>2. ReadOf(q)
  BY <1>1 DEF Merging, ReadOf
<1>3. Merging(q)
  BY <1>1, <1>2, Zenon DEF Merging, InOrder, MergedSoFar
<1> QED
  BY <1>1, <1>3, Zenon

LEMMA VmKeeps ==
  ASSUME IInv, updateRecordVMRulesConfigMap
  PROVE  Active' /\ (rec'.step # "idle" \/ asked')
<1>1. Merging(rec) /\ rec.step = "vmrules" /\ Following
  BY DEF updateRecordVMRulesConfigMap, IInv, Active
<1>2. UNCHANGED <<prom, alertIn, recordIn, promxy, stale>>
  BY Zenon DEF updateRecordVMRulesConfigMap, inputs
<1>3. PICK v \in rec.left : \E data \in {RecordValues(rec.records, ClusterOf[v])} :
        \/ ~MayWrite(rec.vm[v], data) /\ rec' = [rec EXCEPT !.left = @ \ {v}] /\ UNCHANGED <<vm, asked>>
        \/ rec' = [rec EXCEPT !.left = @ \ {v}] /\ asked' = TRUE
        \/ Retry
  BY DEF updateRecordVMRulesConfigMap
<1>4. CASE Retry
  BY <1>4 DEF Retry, Idle, Active
<1>5. PICK r, q, S : r = rec /\ q = rec' /\ S = rec.left \ {v}
  OBVIOUS
<1>6. ASSUME q = [r EXCEPT !.left = S]
      PROVE  /\ Merging(q) /\ q.left = S /\ q.step = "vmrules" /\ q.prom = r.prom /\ q.alertIn = r.alertIn
             /\ q.recordIn = r.recordIn /\ q.alerts = r.alerts /\ q.records = r.records
             /\ q.vm = r.vm /\ q.read = r.read
  BY <1>1, <1>5, <1>6, LeftFields
<1>7. CASE rec' = [rec EXCEPT !.left = @ \ {v}] /\ asked' = TRUE
  <2>1. q = [r EXCEPT !.left = S]
    BY <1>5, <1>7
  <2>2. Following'
    BY <1>1, <1>2, <1>5, <1>6, <1>7, <2>1 DEF Following
  <2> QED
    BY <1>5, <1>6, <1>7, <2>1, <2>2 DEF Active
<1>8. CASE ~MayWrite(rec.vm[v], RecordValues(rec.records, ClusterOf[v]))
           /\ rec' = [rec EXCEPT !.left = @ \ {v}] /\ UNCHANGED <<vm, asked>>
  <2>1. q = [r EXCEPT !.left = S]
    BY <1>5, <1>8
  <2>2. /\ ~asked' => q.alertIn = alertIn' /\ q.recordIn = recordIn' /\ q.vm = vm'
        /\ ~stale' => q.prom = prom'
        /\ ~stale' /\ promxy'.generated => promxy'.data = getAlertFiles(q.alerts)
    BY <1>1, <1>2, <1>5, <1>6, <1>8, <2>1 DEF Following
  <2>3. ASSUME ~asked', NEW w \in VmRules \ q.left, vm'[w] # None, vm'[w].generated
        PROVE  vm'[w].data = RecordValues(q.records, ClusterOf[w])
    <3>1. rec.vm = vm /\ vm' = vm /\ ~asked
      BY <1>1, <1>8, <2>3 DEF Following
    <3>2. CASE w = v
      BY <1>5, <1>6, <1>8, <2>1, <2>3, <3>1, <3>2 DEF MayWrite
    <3>3. CASE w # v
      BY <1>1, <1>5, <1>6, <2>1, <2>3, <3>1, <3>3 DEF Following
    <3> QED
      BY <3>2, <3>3, Zenon
  <2>4. Following'
    BY <1>5, <1>6, <2>1, <2>2, <2>3 DEF Following
  <2> QED
    BY <1>5, <1>6, <2>1, <2>4 DEF Active
<1> QED
  BY <1>3, <1>4, <1>7, <1>8

\* At the end the outputs are right.
LEMMA ReturnKeeps ==
  ASSUME IInv, Return
  PROVE  Active' /\ RulesLayered'
<1>1. Merging(rec) /\ rec.step = "vmrules" /\ Following /\ rec.left = {} /\ rec.todo = {}
  BY DEF Return, IInv, Active, Merging
<1>2. rec' = Idle /\ UNCHANGED <<prom, alertIn, recordIn, promxy, vm, asked, stale>>
  BY Zenon DEF Return, inputs
<1>3. PICK r : r = rec
  OBVIOUS
<1>4. /\ AlertsMerged(r.alerts, r.prom, Present(r.prom), r.alertIn, Present(r.alertIn))
      /\ RecordsMerged(r.records, r.prom, Present(r.prom), r.recordIn, Present(r.recordIn))
  <2>1. \A U : U \ {} = U
    OBVIOUS
  <2> QED
    BY <1>1, <1>3, <2>1, Zenon DEF Merging, MergedSoFar
<1>5. Active'
  BY <1>2 DEF Active, Idle
<1>6. CASE asked \/ stale
  BY <1>2, <1>5, <1>6, NotQuietNext, Zenon
<1>7. CASE ~asked /\ ~stale
  <2>1. /\ r.alertIn = alertIn /\ r.recordIn = recordIn /\ r.prom = prom
        /\ promxy.generated => promxy.data = getAlertFiles(r.alerts)
        /\ \A v \in VmRules : vm[v] # None /\ vm[v].generated =>
             vm[v].data = RecordValues(r.records, ClusterOf[v])
    BY <1>1, <1>3, <1>7 DEF Following
  <2>2. /\ AlertsMerged(r.alerts, prom, Present(prom), alertIn, Present(alertIn))
        /\ RecordsMerged(r.records, prom, Present(prom), recordIn, Present(recordIn))
    BY <1>4, <2>1, Zenon
  <2>3. ASSUME promxy.generated, NEW k \in AlertClusters, NEW g \in AlertGroups, NEW n \in AlertNames
        PROVE  RightAlerts(AlertAt(promxy.data, k, g, n), k,
                  AlertsFrom(k, alertIn, Present(alertIn), g, n),
                  AlertsFrom(DefaultClusterName, alertIn, Present(alertIn), g, n),
                  AlertsFromProm(prom, Present(prom), g, n))
    <3>1. RightAlerts(AlertAt(getAlertFiles(r.alerts), k, g, n), k,
                  AlertsFrom(k, alertIn, Present(alertIn), g, n),
                  AlertsFrom(DefaultClusterName, alertIn, Present(alertIn), g, n),
                  AlertsFromProm(prom, Present(prom), g, n))
      BY <2>2, <2>3, FilesRight, Zenon
    <3> QED
      BY <2>1, <2>3, <3>1, Zenon
  <2>4. AlertsLayered'
    BY <1>2, <2>3, Zenon DEF AlertsLayered, Present
  <2>5. ASSUME NEW v \in VmRules, vm[v] # None, vm[v].generated, NEW g \in RecordGroups
        PROVE  RightRecords(vm[v].data, g,
                   RecordsFrom(ClusterOf[v], recordIn, Present(recordIn), g),
                   RecordsFrom(DefaultClusterName, recordIn, Present(recordIn), g),
                   prom, RecordingProm(prom, Present(prom), g))
    <3>1. ClusterOf[v] \in RecordClusters
      BY DEF RecordClusters
    <3>2. vm[v].data = RecordValues(r.records, ClusterOf[v])
      BY <2>1, <2>5, Zenon
    <3>3. PICK k \in RecordClusters : k = ClusterOf[v]
      BY <3>1
    <3> QED
      BY <2>2, <2>5, <3>2, <3>3, ValuesRight, Zenon
  <2>6. RecordsLayered'
    BY <1>2, <2>5, Zenon DEF RecordsLayered, Present
  <2> QED
    BY <1>5, <2>4, <2>6, Zenon DEF RulesLayered
<1> QED
  BY <1>6, <1>7, Zenon

\* A reconciliation changes no input.
LEMMA ReconcileInputs == ASSUME IInv, Reconcile PROVE Inputs' /\ Outputs'
<1>1. CASE PutPromxyRules
  <2>1. Outputs'
    BY <1>1, PutKeeps, Zenon
  <2> QED
    BY <1>1, <2>1 DEF PutPromxyRules, Retry, IInv, Inputs, inputs
<1>2. CASE List \/ MergeNext \/ GetPromxyRules \/ updateRecordVMRulesConfigMap \/ Return
  <2>1. /\ UNCHANGED <<prom, alertIn, recordIn, promxy>>
        /\ asked' \in {asked, TRUE, FALSE} /\ stale' \in {stale, FALSE}
    BY <1>2 DEF List, MergeNext, GetPromxyRules, updateRecordVMRulesConfigMap, Return, Retry, inputs
  <2> QED
    BY <2>1 DEF IInv, Inputs, Outputs
<1> QED
  BY <1>1, <1>2, Zenon DEF Reconcile

\* Users, failures and restarts.
LEMMA EditKeeps ==
  ASSUME IInv, Fails \/ EditInput \/ EditPrometheusRule \/ EditVmRules \/ EditPromxyRules
  PROVE  Inputs' /\ Outputs' /\ Active' /\ (asked \/ stale)'
<1>1. CASE Fails
  BY <1>1 DEF Fails, Retry, Idle, Active, IInv, Inputs, Outputs, inputs
<1>2. CASE EditInput
  <2>1. Inputs' /\ Outputs'
    <3>1. CASE UNCHANGED recordIn /\ \E m \in AlertMaps, c \in AlertContents \cup {None, Malformed} :
                 alertIn' = [alertIn EXCEPT ![m] = c]
      BY <1>2, <3>1 DEF EditInput, IInv, Inputs, Outputs
    <3>2. CASE UNCHANGED alertIn /\ \E m \in RecordMaps, c \in RecordContents \cup {None, Malformed} :
                 recordIn' = [recordIn EXCEPT ![m] = c]
      BY <1>2, <3>2 DEF EditInput, IInv, Inputs, Outputs
    <3> QED
      BY <1>2, <3>1, <3>2, Zenon DEF EditInput
  <2>2. asked' = TRUE /\ UNCHANGED <<prom, promxy, vm, rec, stale>>
    BY <1>2, Zenon DEF EditInput
  <2>3. Active'
    BY <2>2 DEF IInv, Active, Following
  <2> QED
    BY <2>1, <2>2, <2>3
<1>3. CASE EditPrometheusRule
  <2>1. stale' = TRUE /\ UNCHANGED <<alertIn, recordIn, promxy, vm, asked, rec>>
    BY <1>3, Zenon DEF EditPrometheusRule
  <2>2. Inputs' /\ Outputs'
    BY <1>3, <2>1 DEF EditPrometheusRule, IInv, Inputs, Outputs
  <2>3. Active'
    BY <2>1 DEF IInv, Active, Following
  <2> QED
    BY <2>1, <2>2, <2>3
<1>4. CASE EditVmRules
  <2>1. asked' = TRUE /\ UNCHANGED <<prom, alertIn, recordIn, promxy, rec, stale>>
    BY <1>4, Zenon DEF EditVmRules, inputs
  <2>2. Inputs' /\ Outputs'
    BY <2>1 DEF IInv, Inputs, Outputs
  <2>3. Active'
    BY <2>1 DEF IInv, Active, Following
  <2> QED
    BY <2>1, <2>2, <2>3
<1>5. CASE EditPromxyRules
  <2>1. stale' = TRUE /\ UNCHANGED <<prom, alertIn, recordIn, vm, asked, rec>>
    BY <1>5, Zenon DEF EditPromxyRules, inputs
  <2>2. Inputs' /\ Outputs'
    BY <1>5, <2>1 DEF EditPromxyRules, IInv, Inputs, Outputs
  <2>3. Active'
    BY <2>1 DEF IInv, Active, Following
  <2> QED
    BY <2>1, <2>2, <2>3
<1> QED
  BY <1>1, <1>2, <1>3, <1>4, <1>5, Zenon

\* Every step keeps the invariant.
LEMMA NextInv == IInv /\ [Next]_vars => IInv'
<1> SUFFICES ASSUME IInv, [Next]_vars PROVE IInv'
  OBVIOUS
<1>1. Counted'
  BY CountedStep, Zenon DEF IInv
<1>2. CASE List
  BY <1>1, <1>2, ListKeeps, ReconcileInputs, NotQuietNext, Zenon DEF IInv, Reconcile
<1>3. CASE MergeNext
  BY <1>1, <1>3, MergeKeeps, ReconcileInputs, NotQuietNext, Zenon DEF IInv, Reconcile
<1>4. CASE GetPromxyRules
  BY <1>1, <1>4, GetKeeps, ReconcileInputs, NotQuietNext, Zenon DEF IInv, Reconcile
<1>5. CASE PutPromxyRules
  BY <1>1, <1>5, PutKeeps, ReconcileInputs, NotQuietNext, Zenon DEF IInv, Reconcile
<1>6. CASE updateRecordVMRulesConfigMap
  BY <1>1, <1>6, VmKeeps, ReconcileInputs, NotQuietNext, Zenon DEF IInv, Reconcile
<1>7. CASE Return
  BY <1>1, <1>7, ReturnKeeps, ReconcileInputs, Zenon DEF IInv, Reconcile
<1>8. CASE Fails \/ EditInput \/ EditPrometheusRule \/ EditVmRules \/ EditPromxyRules
  BY <1>1, <1>8, EditKeeps, NotQuietNext, Zenon DEF IInv
<1>9. CASE UNCHANGED vars
  <2>1. UNCHANGED <<prom, alertIn, recordIn, promxy, vm, asked, rec, stale>>
    BY <1>9, Zenon DEF vars, inputs
  <2>2. Inputs' /\ Outputs' /\ Active'
    BY <2>1 DEF IInv, Inputs, Outputs, Active, Following
  <2>3. RulesLayered'
    BY <2>1, Zenon DEF IInv, RulesLayered, AlertsLayered, RecordsLayered, Quiet, Present
  <2> QED
    BY <1>1, <2>2, <2>3, Zenon DEF IInv
<1> QED
  BY <1>2, <1>3, <1>4, <1>5, <1>6, <1>7, <1>8, <1>9, Zenon DEF Next, Reconcile

\* Once nothing is pending, and unless something changed of which no event tells, the
\* files of alert rules and every regional's record rules are what the layers say, field by
\* field and group by group, for any rules, clusters, listing orders, edits and failures
\* (mergePrometheusRules, mergeAlertConfigMaps, mergeRecordConfigMaps, getAlertFiles).
THEOREM RulesLayeredHolds == Spec => []RulesLayered
<1>1. Init => IInv
  <2> SUFFICES ASSUME Init PROVE IInv
    OBVIOUS
  <2>1. Counted /\ Inputs /\ Outputs
    BY DEF Init, Counted, Inputs, Outputs
  <2>2. Active
    BY DEF Init, Active, Idle
  <2>3. RulesLayered
    BY NotQuiet DEF Init
  <2> QED
    BY <2>1, <2>2, <2>3, Zenon DEF IInv
<1>2. IInv => RulesLayered
  BY DEF IInv
<1> QED
  BY <1>1, <1>2, NextInv, PTL DEF Spec

=============================================================================
