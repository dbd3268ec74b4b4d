------------------------ MODULE AuditExporterProofs ------------------------
(***************************************************************************)
(* Proofs about AuditExporter for every choice of its constants: any       *)
(* number of streams, tenants and hours, any amount of late data and any   *)
(* number of failures.                                                     *)
(***************************************************************************)
EXTENDS AuditExporter, TLAPS

IInv == TypeOK /\ InFlight

\* The strengthened invariant holds initially.
LEMMA InitIInv == Init => IInv
<1> SUFFICES ASSUME Init PROVE IInv
  OBVIOUS
<1>1. TypeOK
  <2>1. hour \in FirstHour..MaxHour /\ tick \in 0..(TicksPerHour - 1)
    BY ClockAssumption DEF Init
  <2>2. faults \in 0..MaxFaults
    BY BoundAssumption DEF Init
  <2>3. events \in [AllTenants \X Hours -> Nat]
    BY DEF Init
  <2>4. data \in [Windows -> Nat \cup {None}] /\ built \in [Windows -> Nat]
    BY DEF Init
  <2>5. /\ sig \in [Windows -> Manifests \cup {None}]
        /\ manifest \in [Windows -> Manifests \cup {None}]
    BY DEF Init
  <2>6. /\ pc \in Steps /\ todo \subseteq Windows /\ planned \subseteq Windows
        /\ cur \in Windows \cup {None} /\ content \in Nat
        /\ mf \in Manifests \cup {None} /\ failed \in BOOLEAN
        /\ result \in {"none", "ok", "error"}
    BY DEF Init, Steps
  <2> QED
    BY <2>1, <2>2, <2>3, <2>4, <2>5, <2>6 DEF TypeOK
<1>2. InFlight
  BY DEF Init, InFlight
<1> QED
  BY <1>1, <1>2 DEF IInv

(***************************************************************************)
(* Types.                                                                  *)
(***************************************************************************)

\* previousManifestSHA256 returns a digest or the empty link.
LEMMA PrevDigestType ==
  ASSUME TypeOK, NEW w \in Windows PROVE PrevDigest(w) \in Nat
BY DEF TypeOK, PrevDigest, ObjectExists, Stored, Manifests, Digest, NoDigest

\* The helpers that end a run or a window.
LEMMA EndTypes ==
  ASSUME TypeOK
  PROVE /\ \A res \in {"ok", "error"} : EndRun(res) =>
             /\ pc' \in Steps /\ todo' \subseteq Windows
             /\ cur' \in Windows \cup {None} /\ content' \in Nat
             /\ mf' \in Manifests \cup {None} /\ failed' \in BOOLEAN
             /\ result' \in {"none", "ok", "error"}
        /\ FailWindow \/ DoneWindow =>
             /\ pc' \in Steps /\ todo' \subseteq Windows
             /\ cur' \in Windows \cup {None} /\ content' \in Nat
             /\ mf' \in Manifests \cup {None} /\ failed' \in BOOLEAN
             /\ result' \in {"none", "ok", "error"}
        /\ Fault \/ NoFault => faults' \in 0..MaxFaults
<1>1. ASSUME NEW res \in {"ok", "error"}, EndRun(res)
      PROVE /\ pc' \in Steps /\ todo' \subseteq Windows
            /\ cur' \in Windows \cup {None} /\ content' \in Nat
            /\ mf' \in Manifests \cup {None} /\ failed' \in BOOLEAN
            /\ result' \in {"none", "ok", "error"}
  BY <1>1 DEF EndRun, Steps
<1>2. ASSUME FailWindow \/ DoneWindow
      PROVE /\ pc' \in Steps /\ todo' \subseteq Windows
            /\ cur' \in Windows \cup {None} /\ content' \in Nat
            /\ mf' \in Manifests \cup {None} /\ failed' \in BOOLEAN
            /\ result' \in {"none", "ok", "error"}
  <2>1. failed' \in BOOLEAN
    BY <1>2, Zenon DEF TypeOK, FailWindow, DoneWindow
  <2> QED
    BY <1>2, <2>1 DEF TypeOK, FailWindow, DoneWindow, Steps
<1>3. ASSUME Fault \/ NoFault PROVE faults' \in 0..MaxFaults
  BY <1>3, BoundAssumption DEF TypeOK, Fault, NoFault
<1> QED
  BY <1>1, <1>2, <1>3

\* Every step of the exporter and its environment keeps the types.
LEMMA NextType == TypeOK /\ InFlight /\ [Next]_vars => TypeOK'
<1> SUFFICES ASSUME TypeOK, InFlight, [Next]_vars PROVE TypeOK'
  OBVIOUS
<1>1. CASE Start
  BY <1>1, EndTypes DEF Start, TypeOK, Steps, clock, bucket, local
<1>2. CASE Collect
  BY <1>2, EndTypes DEF Collect, TypeOK, Steps, Due, clock, bucket, local
<1>3. ASSUME NEW w \in Windows, CheckManifest(w) PROVE TypeOK'
  BY <1>3, EndTypes DEF CheckManifest, TypeOK, Steps, clock, bucket
<1>4. CASE QueryEvents
  BY <1>4, EndTypes DEF QueryEvents, TypeOK, Steps, clock, bucket, local
<1>5. CASE CompliancePreCheck
  BY <1>5, EndTypes DEF CompliancePreCheck, TypeOK, Steps, clock, bucket, local
<1>6. CASE StreamData
  <2>1. cur \in Windows
    BY <1>6 DEF StreamData, InFlight
  <2>2. events[<<cur.tenant, cur.hour>>] \in Nat
    BY <2>1 DEF TypeOK, Windows
  <2>3. data' \in [Windows -> Nat \cup {None}]
    BY <1>6, <2>1, <2>2 DEF StreamData, TypeOK
  <2> QED
    BY <1>6, <2>2, <2>3, EndTypes DEF StreamData, TypeOK, Steps, clock
<1>7. CASE BuildManifest
  <2>1. cur \in Windows
    BY <1>7 DEF BuildManifest, InFlight
  <2>2. PrevDigest(cur) \in Nat /\ NoDigest \in Nat
    BY <2>1, PrevDigestType DEF NoDigest
  <2>3. built' \in [Windows -> Nat] /\ mf' \in Manifests
    BY <1>7, <2>1, <2>2 DEF BuildManifest, TypeOK, Manifests
  <2>4. faults' \in 0..MaxFaults
    BY <1>7, EndTypes DEF BuildManifest
  <2> QED
    BY <1>7, <2>3, <2>4 DEF BuildManifest, TypeOK, Steps, clock, bucket
<1>8. CASE PutSignature
  <2>1. mf \in Manifests
    BY <1>8 DEF PutSignature, InFlight
  <2>2. sig' \in [Windows -> Manifests \cup {None}]
    BY <1>8, <2>1 DEF PutSignature, TypeOK
  <2> QED
    BY <1>8, <2>2, EndTypes DEF PutSignature, TypeOK, Steps, clock, local
<1>9. CASE PutManifest
  <2>1. mf \in Manifests
    BY <1>9 DEF PutManifest, InFlight
  <2>2. manifest' \in [Windows -> Manifests \cup {None}]
    BY <1>9, <2>1 DEF PutManifest, TypeOK
  <2> QED
    BY <1>9, <2>2, EndTypes DEF PutManifest, TypeOK, Steps, clock
<1>10. CASE Finish
  BY <1>10, EndTypes DEF Finish, TypeOK, clock, bucket
<1>11. CASE Crash
  BY <1>11, EndTypes DEF Crash, TypeOK, clock, bucket
<1>12. CASE Tick
  BY <1>12, ClockAssumption DEF Tick, TypeOK, bucket, local
<1>13. ASSUME NEW t \in AllTenants, NEW h \in Hours, Log(t, h) PROVE TypeOK'
  <2>1. events' \in [AllTenants \X Hours -> Nat]
    BY <1>13 DEF Log, TypeOK
  <2> QED
    BY <1>13, <2>1 DEF Log, TypeOK, clock, bucket, local
<1>14. CASE UNCHANGED vars
  BY <1>14 DEF vars, TypeOK
<1> QED
  BY <1>1, <1>2, <1>3, <1>4, <1>5, <1>6, <1>7, <1>8, <1>9, <1>10, <1>11, <1>12,
     <1>13, <1>14 DEF Next, ExporterStep

(***************************************************************************)
(* The export in progress.                                                 *)
(***************************************************************************)

\* Every step keeps what the rest of exportWindow relies on.
LEMMA NextInFlight == TypeOK /\ InFlight /\ [Next]_vars => InFlight'
<1> SUFFICES ASSUME TypeOK, InFlight, [Next]_vars PROVE InFlight'
  OBVIOUS
<1>0. pc' \in {"idle", "collect", "loop"} => InFlight'
  BY DEF InFlight
<1>a. \A res : EndRun(res) => InFlight'
  BY <1>0 DEF EndRun
<1>b. FailWindow \/ DoneWindow => InFlight'
  BY <1>0 DEF FailWindow, DoneWindow
<1>1. CASE Start
  BY <1>1, <1>0 DEF Start
<1>2. CASE Collect
  BY <1>2, <1>0, <1>a DEF Collect
<1>3. ASSUME NEW w \in Windows, CheckManifest(w) PROVE InFlight'
  <2>1. CASE pc' = "loop"
    BY <2>1, <1>0
  <2>2. CASE pc' # "loop"
    BY <1>3, <2>2 DEF CheckManifest, ObjectExists, InFlight, bucket, Stored
  <2> QED
    BY <2>1, <2>2
<1>4. CASE QueryEvents
  <2>1. CASE EndRun("error")
    BY <2>1, <1>a
  <2>2. CASE UNCHANGED <<bucket, local>> /\ pc' \in {"precheck", "stream"}
    BY <1>4, <2>2 DEF QueryEvents, InFlight, bucket, local, Stored
  <2> QED
    BY <1>4, <2>1, <2>2 DEF QueryEvents
<1>5. CASE CompliancePreCheck
  <2>1. CASE FailWindow
    BY <2>1, <1>b
  <2>2. CASE UNCHANGED <<bucket, local>> /\ pc' = "stream"
    BY <1>5, <2>2 DEF CompliancePreCheck, InFlight, bucket, local, Stored
  <2> QED
    BY <1>5, <2>1, <2>2 DEF CompliancePreCheck
<1>6. CASE StreamData
  <2>1. CASE FailWindow
    BY <2>1, <1>b
  <2>2. CASE /\ pc' = "prev"
             /\ data' = [data EXCEPT ![cur] = content']
             /\ UNCHANGED <<cur, manifest>>
    BY <1>6, <2>2 DEF StreamData, InFlight, Stored, TypeOK
  <2> QED
    BY <1>6, <2>1, <2>2 DEF StreamData
<1>7. CASE BuildManifest
  <2>1. cur \in Windows /\ ~Stored(manifest, cur) /\ data[cur] = content
    BY <1>7 DEF BuildManifest, InFlight
  <2>2. PICK prev \in {PrevDigest(cur), NoDigest} :
          mf' = [data |-> content, createdAt |-> built[cur] + 1, prev |-> prev]
    BY <1>7 DEF BuildManifest
  <2>3. prev # NoDigest =>
          /\ Before(cur) \in Windows /\ Stored(manifest, Before(cur))
          /\ prev = Digest(manifest[Before(cur)])
    BY <2>2 DEF PrevDigest, ObjectExists
  <2>4. mf' \in Manifests
    BY <2>1, <2>2, PrevDigestType DEF Manifests, TypeOK, NoDigest
  <2>5. LinkVerifies(cur, mf') /\ mf'.data = content
    BY <2>2, <2>3 DEF LinkVerifies
  <2>6. pc' = "sign" /\ UNCHANGED <<cur, content, data, manifest>>
    BY <1>7 DEF BuildManifest, bucket
  <2> QED
    BY <2>1, <2>4, <2>5, <2>6 DEF InFlight, LinkVerifies, Stored
<1>8. CASE PutSignature
  <2>1. CASE FailWindow
    BY <2>1, <1>b
  <2>2. CASE /\ pc' = "manifest" /\ sig' = [sig EXCEPT ![cur] = mf]
             /\ UNCHANGED <<local, data, manifest>>
    BY <1>8, <2>2
       DEF PutSignature, InFlight, local, Stored, LinkVerifies, TypeOK
  <2> QED
    BY <1>8, <2>1, <2>2 DEF PutSignature
<1>9. CASE PutManifest
  BY <1>9, <1>b DEF PutManifest
<1>10. CASE Finish
  BY <1>10, <1>a DEF Finish
<1>11. CASE Crash
  BY <1>11, <1>a DEF Crash
<1>12. CASE UNCHANGED <<bucket, pc, local>>
  BY <1>12 DEF bucket, local, InFlight, Stored, LinkVerifies
<1>13. CASE Tick
  BY <1>12, <1>13 DEF Tick
<1>14. ASSUME NEW t \in AllTenants, NEW h \in Hours, Log(t, h) PROVE InFlight'
  BY <1>12, <1>14 DEF Log
<1>15. CASE UNCHANGED vars
  BY <1>12, <1>15 DEF vars, bucket, local
<1> QED
  BY <1>1, <1>2, <1>3, <1>4, <1>5, <1>6, <1>7, <1>8, <1>9, <1>10, <1>11,
     <1>13, <1>14, <1>15 DEF Next, ExporterStep

\* Type correctness of every reachable state, and at every step of an export
\* the facts the remaining steps rely on (exportWindow).
THEOREM TypeCorrect == Spec => [](TypeOK /\ InFlight)
<1>1. IInv /\ [Next]_vars => IInv'
  BY NextType, NextInFlight DEF IInv
<1> QED
  BY InitIInv, <1>1, PTL DEF Spec, IInv

(***************************************************************************)
(* The bucket.  A step writes at most one object, of the window in flight, *)
(* which has no manifest.                                                  *)
(***************************************************************************)

\* The data object of the window in flight is written.
WritesData ==
  /\ pc = "stream" /\ cur \in Windows /\ ~Stored(manifest, cur)
  /\ data' = [data EXCEPT ![cur] = events[<<cur.tenant, cur.hour>>]]
  /\ UNCHANGED <<sig, manifest>>

\* The signature of the window in flight is written.
WritesSignature ==
  /\ pc = "sign" /\ cur \in Windows /\ ~Stored(manifest, cur)
  /\ Stored(data, cur)
  /\ sig' = [sig EXCEPT ![cur] = mf]
  /\ UNCHANGED <<data, manifest>>

\* The manifest is written, over data and signature that match it.
WritesManifest ==
  /\ pc = "manifest" /\ cur \in Windows /\ ~Stored(manifest, cur)
  /\ mf \in Manifests /\ data[cur] = mf.data /\ sig[cur] = mf
  /\ LinkVerifies(cur, mf)
  /\ manifest' = [manifest EXCEPT ![cur] = mf]
  /\ UNCHANGED <<data, sig>>

\* The only steps that change the bucket are the three uploads of exportWindow.
LEMMA BucketStep ==
  ASSUME TypeOK, InFlight, [Next]_vars
  PROVE UNCHANGED bucket \/ WritesData \/ WritesSignature \/ WritesManifest
<1>1. CASE StreamData
  BY <1>1 DEF StreamData, InFlight, WritesData, bucket
<1>2. CASE PutSignature
  <2>1. Stored(data, cur)
    BY <1>2, NoneAssumption DEF PutSignature, InFlight, TypeOK, Stored
  <2> QED
    BY <1>2, <2>1 DEF PutSignature, InFlight, WritesSignature, bucket
<1>3. CASE PutManifest
  BY <1>3 DEF PutManifest, InFlight, WritesManifest, bucket
<1>4. CASE \/ Start \/ Collect \/ QueryEvents \/ CompliancePreCheck
           \/ BuildManifest \/ Finish \/ Crash \/ Tick
  BY <1>4 DEF Start, Collect, QueryEvents, CompliancePreCheck, BuildManifest,
              Finish, Crash, Tick
<1>5. ASSUME NEW w \in Windows, CheckManifest(w) PROVE UNCHANGED bucket
  BY <1>5 DEF CheckManifest
<1>6. ASSUME NEW t \in AllTenants, NEW h \in Hours, Log(t, h)
      PROVE UNCHANGED bucket
  BY <1>6 DEF Log
<1>7. CASE UNCHANGED vars
  BY <1>7 DEF vars, bucket
<1> QED
  BY <1>1, <1>2, <1>3, <1>4, <1>5, <1>6, <1>7 DEF Next, ExporterStep

\* None of the three uploads is to a complete window.
LEMMA StepStays ==
  ASSUME TypeOK, InFlight, [Next]_vars PROVE Stays
<1>1. CASE UNCHANGED bucket
  BY <1>1 DEF Stays, bucket
<1>2. CASE WritesData \/ WritesSignature \/ WritesManifest
  BY <1>2 DEF WritesData, WritesSignature, WritesManifest, Stays, Stored,
              TypeOK
<1> QED
  BY <1>1, <1>2, BucketStep

\* No step of any run changes an object of a window that has a manifest: the
\* checks of collectWindows and exportWindow make the export idempotent.
THEOREM CompletedStaysHolds == Spec => CompletedStays
<1>1. TypeOK /\ InFlight /\ [Next]_vars => [Stays]_vars
  BY StepStays
<1> QED
  BY <1>1, TypeCorrect, PTL DEF Spec, CompletedStays

\* Data, signature and manifest of a complete window belong together, whatever
\* was interrupted before: exportWindow uploads the manifest last.
THEOREM CompleteWindowHolds == Spec => []CompleteWindow
<1>1. Init => CompleteWindow
  BY DEF Init, CompleteWindow, Stored
<1>2. TypeOK /\ InFlight /\ CompleteWindow /\ [Next]_vars => CompleteWindow'
  <2> SUFFICES ASSUME TypeOK, InFlight, CompleteWindow, [Next]_vars,
                      NEW w \in Windows, manifest'[w] # None
               PROVE data'[w] = manifest'[w].data /\ sig'[w] = manifest'[w]
    BY DEF CompleteWindow, Stored
  <2>1. CASE Stored(manifest, w)
    BY <2>1, StepStays DEF Stays, CompleteWindow
  <2>2. CASE ~Stored(manifest, w)
    BY <2>2, BucketStep
       DEF WritesData, WritesSignature, WritesManifest, Stored, bucket,
           TypeOK
  <2> QED
    BY <2>1, <2>2
<1> QED
  BY <1>1, <1>2, TypeCorrect, PTL DEF Spec

\* Every link that is not empty verifies against the manifest in the bucket
\* (previousManifestSHA256): the predecessor can no longer change.
THEOREM LinksVerifyHolds == Spec => []LinksVerify
<1>1. Init => LinksVerify
  BY DEF Init, LinksVerify, Stored
<1>2. TypeOK /\ InFlight /\ LinksVerify /\ [Next]_vars => LinksVerify'
  <2> SUFFICES ASSUME TypeOK, InFlight, LinksVerify, [Next]_vars,
                      NEW w \in Windows, manifest'[w] # None,
                      manifest'[w].prev # NoDigest
               PROVE /\ Before(w) \in Windows
                     /\ manifest'[Before(w)] # None
                     /\ manifest'[w].prev = Digest(manifest'[Before(w)])
    BY DEF LinksVerify, LinkVerifies, Stored
  <2>1. LinkVerifies(w, manifest'[w])
    <3>1. CASE Stored(manifest, w)
      BY <3>1, StepStays DEF Stays, LinksVerify
    <3>2. CASE ~Stored(manifest, w)
      BY <3>2, BucketStep
         DEF WritesData, WritesSignature, WritesManifest, Stored, bucket,
             TypeOK
    <3> QED
      BY <3>1, <3>2
  <2>2. Before(w) \in Windows /\ Stored(manifest, Before(w))
    BY <2>1 DEF LinkVerifies
  <2>3. manifest'[Before(w)] = manifest[Before(w)]
    BY <2>2, StepStays DEF Stays
  <2> QED
    BY <2>1, <2>2, <2>3 DEF LinkVerifies, Stored
<1> QED
  BY <1>1, <1>2, TypeCorrect, PTL DEF Spec

(***************************************************************************)
(* Compliance mode.                                                        *)
(***************************************************************************)

\* No window in flight has an object the compliance pre-check did not rule out.
LEMMA NextUntouched ==
  ASSUME TypeOK, InFlight, Untouched, [Next]_vars PROVE Untouched'
<1>1. \A w \in Windows : sig'[w] # None => data'[w] # None
  <2> SUFFICES ASSUME NEW w \in Windows, sig'[w] # None PROVE data'[w] # None
    OBVIOUS
  <2>1. CASE UNCHANGED bucket
    BY <2>1 DEF bucket, Untouched, Stored
  <2>2. CASE WritesData
    <3>1. events[<<cur.tenant, cur.hour>>] \in Nat
      BY <2>2 DEF WritesData, TypeOK, Windows
    <3> QED
      BY <2>2, <3>1, NoneAssumption DEF WritesData, Untouched, Stored, TypeOK
  <2>3. CASE WritesSignature
    BY <2>3 DEF WritesSignature, Untouched, Stored, TypeOK
  <2>4. CASE WritesManifest
    BY <2>4 DEF WritesManifest, Untouched, Stored
  <2> QED
    BY <2>1, <2>2, <2>3, <2>4, BucketStep
<1>2. ASSUME ComplianceMode, pc' \in {"stream", "prev", "sign"}
      PROVE sig'[cur'] = None /\ (pc' = "stream" => data'[cur'] = None)
  <2>1. CASE CompliancePreCheck
    BY <1>2, <2>1 DEF CompliancePreCheck, ObjectExists, FailWindow, InFlight,
                      Untouched, Stored, bucket, local
  <2>2. CASE StreamData \/ BuildManifest
    BY <1>2, <2>2 DEF StreamData, BuildManifest, FailWindow, Untouched,
                      Stored, bucket
  <2>3. CASE QueryEvents \/ Start \/ Collect \/ PutSignature \/ PutManifest
             \/ Finish \/ Crash
    BY <1>2, <2>3 DEF QueryEvents, Start, Collect, PutSignature, PutManifest,
                      Finish, Crash, EndRun, FailWindow, DoneWindow
  <2>4. ASSUME NEW w \in Windows, CheckManifest(w) PROVE FALSE
    BY <1>2, <2>4 DEF CheckManifest
  <2>5. CASE UNCHANGED <<bucket, pc, local>>
    BY <1>2, <2>5 DEF bucket, local, Untouched, Stored
  <2>6. ASSUME Tick \/ (\E t \in AllTenants, h \in Hours : Log(t, h))
               \/ UNCHANGED vars
        PROVE UNCHANGED <<bucket, pc, local>>
    BY <2>6 DEF Tick, Log, vars, bucket, local
  <2> QED
    BY <2>1, <2>2, <2>3, <2>4, <2>5, <2>6 DEF Next, ExporterStep
<1> QED
  BY <1>1, <1>2 DEF Untouched, Stored

\* In compliance mode nothing is ever overwritten, neither the objects of a
\* complete window nor what an interrupted export left (exportWindow refuses a
\* window that has data and no manifest).
THEOREM WriteOnceHolds == Spec => WriteOnce
<1>1. Init => Untouched
  BY DEF Init, Untouched, Stored
<1>2. TypeOK /\ InFlight /\ Untouched /\ [Next]_vars => Untouched'
  BY NextUntouched
<1>3. TypeOK /\ InFlight /\ Untouched /\ [Next]_vars =>
        [ComplianceMode => ~Overwrites]_vars
  <2> SUFFICES ASSUME TypeOK, InFlight, Untouched, [Next]_vars, ComplianceMode
               PROVE ~Overwrites
    OBVIOUS
  <2>1. CASE UNCHANGED bucket
    BY <2>1 DEF bucket, Overwrites
  <2>2. CASE WritesData \/ WritesSignature \/ WritesManifest
    BY <2>2 DEF WritesData, WritesSignature, WritesManifest, Untouched,
                Overwrites, Stored, TypeOK
  <2> QED
    BY <2>1, <2>2, BucketStep
<1> QED
  BY <1>1, <1>2, <1>3, TypeCorrect, PTL DEF Spec, WriteOnce

(***************************************************************************)
(* What a successful run means.                                            *)
(***************************************************************************)

\* A window that is complete stays complete.
LEMMA ExistsStays ==
  ASSUME TypeOK, InFlight, [Next]_vars, NEW w \in Windows,
         Stored(manifest, w)
  PROVE manifest'[w] # None
BY StepStays DEF Stays, Stored

\* A window of the run is exported, in flight, still to do, or its failure recorded.
LEMMA NextProgressing ==
  ASSUME TypeOK, InFlight, Progressing, [Next]_vars PROVE Progressing'
<1>a. \A res : EndRun(res) => Progressing'
  BY DEF EndRun, Progressing
<1>b. ASSUME FailWindow, result # "ok" PROVE Progressing'
  BY <1>b DEF FailWindow, Progressing
<1>c. \A w \in planned : Stored(manifest, w) => manifest'[w] # None
  BY ExistsStays DEF TypeOK
<1>1. CASE Start
  BY <1>1 DEF Start, Progressing, local
<1>2. CASE Collect
  BY <1>2, <1>a DEF Collect, ObjectExists, Progressing, Stored, bucket, local
<1>3. ASSUME NEW w \in Windows, CheckManifest(w) PROVE Progressing'
  <2>1. CASE failed'
    BY <1>3, <2>1 DEF CheckManifest, Progressing
  <2>2. CASE ~failed'
    <3>1. ~failed /\ UNCHANGED <<planned, manifest, result>> /\ todo' = todo \ {w}
      BY <1>3, <2>2 DEF CheckManifest, bucket
    <3>2. \/ Stored(manifest, w) /\ UNCHANGED <<pc, cur>>
          \/ pc' = "query" /\ cur' = w
      BY <1>3, <2>2 DEF CheckManifest, ObjectExists
    <3>3. pc = "loop" /\ cur = None
      BY <1>3 DEF CheckManifest, Progressing
    <3>4. ASSUME NEW v \in planned
          PROVE Stored(manifest, v) \/ v \in todo
      BY <3>1, <3>3, NoneAssumption DEF Progressing, TypeOK
    <3> QED
      BY <3>1, <3>2, <3>3, <3>4 DEF Progressing, Stored
  <2> QED
    BY <2>1, <2>2
<1>4. CASE QueryEvents
  BY <1>4, <1>a DEF QueryEvents, Progressing, Stored, bucket, local
<1>5. CASE CompliancePreCheck
  BY <1>5, <1>b DEF CompliancePreCheck, Progressing, Stored, bucket, local
<1>6. CASE StreamData
  BY <1>6, <1>b DEF StreamData, Progressing, Stored
<1>7. CASE BuildManifest
  BY <1>7 DEF BuildManifest, Progressing, Stored, bucket
<1>8. CASE PutSignature
  BY <1>8, <1>b DEF PutSignature, Progressing, Stored, local
<1>9. CASE PutManifest
  <2>1. CASE FailWindow
    BY <1>9, <2>1, <1>b DEF PutManifest, Progressing
  <2>2. CASE manifest' = [manifest EXCEPT ![cur] = mf] /\ DoneWindow
    <3>1. cur \in Windows /\ mf # None
      BY <1>9, NoneAssumption DEF PutManifest, InFlight
    <3>2. manifest'[cur] # None
      BY <2>2, <3>1 DEF TypeOK
    <3>3. UNCHANGED <<todo, planned, failed, result>> /\ pc' = "loop" /\ cur' = None
      BY <1>9, <2>2 DEF PutManifest, DoneWindow
    <3>4. ~failed => \A w \in planned :
                       Stored(manifest, w) \/ w \in todo \/ w = cur
      BY <1>9 DEF PutManifest, Progressing
    <3> QED
      BY <1>9, <1>c, <3>2, <3>3, <3>4 DEF PutManifest, Progressing, Stored
  <2> QED
    BY <1>9, <2>1, <2>2 DEF PutManifest
<1>10. CASE Finish
  BY <1>10, <1>a DEF Finish
<1>11. CASE Crash
  BY <1>11, <1>a DEF Crash
<1>12. CASE UNCHANGED <<manifest, pc, todo, planned, cur, failed, result>>
  BY <1>12 DEF Progressing, Stored
<1>13. ASSUME Tick \/ (\E t \in AllTenants, h \in Hours : Log(t, h))
              \/ UNCHANGED vars
       PROVE UNCHANGED <<manifest, pc, todo, planned, cur, failed, result>>
  BY <1>13 DEF Tick, Log, vars, bucket, local
<1> QED
  BY <1>1, <1>2, <1>3, <1>4, <1>5, <1>6, <1>7, <1>8, <1>9, <1>10, <1>11, <1>12,
     <1>13 DEF Next, ExporterStep

\* Run returns nil only if every window of its catch-up range has a manifest:
\* an error of any one of them is remembered in exportErr.
THEOREM SuccessIsCompleteHolds == Spec => []SuccessIsComplete
<1>1. Init => Progressing /\ SuccessIsComplete
  BY DEF Init, Progressing, SuccessIsComplete
<1>2. TypeOK /\ InFlight /\ Progressing /\ [Next]_vars => Progressing'
  BY NextProgressing
<1>3. TypeOK /\ InFlight /\ Progressing /\ SuccessIsComplete /\ [Next]_vars =>
        SuccessIsComplete'
  <2> SUFFICES ASSUME TypeOK, InFlight, Progressing, SuccessIsComplete,
                      [Next]_vars, result' = "ok", NEW w \in planned'
               PROVE manifest'[w] # None
    BY DEF SuccessIsComplete, Stored
  <2>1. CASE Finish
    <3>1. ~failed /\ pc = "loop" /\ todo = {} /\ UNCHANGED <<planned, manifest>>
      BY <2>1 DEF Finish, EndRun, bucket
    <3>2. w \in Windows /\ cur = None
      BY <3>1 DEF Progressing, TypeOK
    <3> QED
      BY <3>1, <3>2, NoneAssumption DEF Progressing, Stored
  <2>2. CASE result = "ok" /\ planned' = planned
    BY <2>2, ExistsStays DEF SuccessIsComplete, TypeOK
  <2>3. CASE ~Finish
    <3>1. \/ result' = "error"
          \/ result' = "none"
          \/ UNCHANGED <<result, planned>>
          \/ pc = "collect" /\ UNCHANGED result
      <4>1. CASE Start \/ Collect \/ Crash
        BY <4>1 DEF Start, Collect, Crash, EndRun
      <4>2. CASE \/ QueryEvents \/ CompliancePreCheck \/ StreamData
                 \/ BuildManifest \/ PutSignature \/ PutManifest
        BY <4>2 DEF QueryEvents, CompliancePreCheck, StreamData, BuildManifest,
                    PutSignature, PutManifest, EndRun, FailWindow, DoneWindow
      <4>3. CASE (\E v \in Windows : CheckManifest(v)) \/ Tick \/ UNCHANGED vars
                 \/ (\E t \in AllTenants, h \in Hours : Log(t, h))
        BY <4>3 DEF CheckManifest, Tick, Log, vars
      <4> QED
        BY <2>3, <4>1, <4>2, <4>3 DEF Next, ExporterStep
    <3> QED
      BY <3>1, <2>2 DEF Progressing
  <2> QED
    BY <2>1, <2>3
<1> QED
  BY <1>1, <1>2, <1>3, TypeCorrect, PTL DEF Spec

(***************************************************************************)
(* The export delay.                                                       *)
(***************************************************************************)

\* Every window a run works on is ripe.
RipeWork ==
  /\ \A w \in todo : Ripe(w)
  /\ cur # None => Ripe(cur)

\* The clock and the hour of a window are numbers.
LEMMA ClockTypes ==
  ASSUME TypeOK, NEW w \in Windows
  PROVE hour \in Nat /\ tick \in Nat /\ w.hour \in Nat
<1>1. hour \in FirstHour..MaxHour /\ tick \in 0..(TicksPerHour - 1)
  BY DEF TypeOK
<1>2. w.hour \in 0..MaxHour
  BY DEF Windows, Hours
<1> QED
  BY <1>1, <1>2, ClockAssumption

\* A window that is ripe stays so.
LEMMA RipeStays ==
  ASSUME TypeOK, [Next]_vars, NEW w \in Windows, Ripe(w) PROVE Ripe(w)'
<1> DEFINE k == hour - (w.hour + 1)
<1>1. k \in Int /\ tick \in Int /\ hour \in Int /\ w.hour \in Int
  BY ClockTypes
<1>2. (k + 1) * TicksPerHour = k * TicksPerHour + TicksPerHour
  BY <1>1, ClockAssumption
<1>3. \/ UNCHANGED <<hour, tick>>
      \/ hour' = hour /\ tick' = tick + 1
      \/ hour' = hour + 1 /\ tick' = 0
  BY DEF Next, ExporterStep, Start, Collect, CheckManifest, QueryEvents,
         CompliancePreCheck, StreamData, BuildManifest, PutSignature,
         PutManifest, Finish, Crash, Tick, Log, vars, clock
<1>4. k * TicksPerHour + tick >= ExportDelay
  BY DEF Ripe
<1>5. CASE UNCHANGED <<hour, tick>>
  BY <1>5 DEF Ripe
<1>6. CASE hour' = hour /\ tick' = tick + 1
  <2>1. k * TicksPerHour \in Int
    BY <1>1, ClockAssumption
  <2>2. k * TicksPerHour + (tick + 1) >= ExportDelay
    BY <1>1, <1>4, <2>1, ClockAssumption
  <2> QED
    BY <1>6, <2>2 DEF Ripe
<1>7. CASE hour' = hour + 1 /\ tick' = 0
  <2>1. hour' - (w.hour + 1) = k + 1
    BY <1>1, <1>7
  <2>2. k * TicksPerHour \in Int
    BY <1>1, ClockAssumption
  <2>3. (k + 1) * TicksPerHour + 0 >= ExportDelay
    <3> DEFINE p == k * TicksPerHour
    <3>1. p \in Int /\ p + tick >= ExportDelay /\ (k + 1) * TicksPerHour = p + TicksPerHour
      BY <1>2, <1>4, <2>2
    <3>2. tick \in Int /\ tick <= TicksPerHour
      BY ClockAssumption DEF TypeOK
    <3>3. p + TicksPerHour + 0 >= ExportDelay
      <4> HIDE DEF p
      <4> QED
        BY <3>1, <3>2, ClockAssumption
    <3> QED
      BY <3>1, <3>3
  <2> QED
    BY <1>7, <2>1, <2>3 DEF Ripe
<1> QED
  BY <1>3, <1>5, <1>6, <1>7

\* collectWindows offers only ripe windows, provided the delay is at most one
\* hour.
LEMMA DueIsRipe ==
  ASSUME TypeOK, ExportDelay <= TicksPerHour, NEW w \in Due PROVE Ripe(w)
<1> DEFINE k == hour - (w.hour + 1)
<1>0. w \in Windows /\ w.hour < UpTo
  BY DEF Due
<1>1. k \in Int /\ tick \in Nat /\ hour \in Int /\ w.hour \in Int /\ w.hour < UpTo
  BY <1>0, ClockTypes
<1>2. CASE tick >= ExportDelay
  <2>1. k \in Nat
    BY <1>1, <1>2, ClockAssumption DEF UpTo
  <2>2. k * TicksPerHour \in Nat
    BY <2>1, ClockAssumption
  <2> QED
    BY <1>1, <1>2, <2>2, ClockAssumption DEF Ripe
<1>3. CASE tick < ExportDelay
  <2>1. k - 1 \in Nat
    BY <1>1, <1>3 DEF UpTo
  <2>2. (k - 1) * TicksPerHour \in Nat
    BY <2>1, ClockAssumption
  <2>3. k * TicksPerHour = (k - 1) * TicksPerHour + TicksPerHour
    BY <1>1, ClockAssumption
  <2>4. k * TicksPerHour + tick >= ExportDelay
    BY <1>1, <2>2, <2>3, ClockAssumption
  <2> QED
    BY <2>4 DEF Ripe
<1> QED
  BY <1>1, <1>2, <1>3, ClockAssumption

\* With a delay of at most one hour no window is exported before its delay is
\* over (Run backs up by one hour, whatever ExportDelay is).
THEOREM NotBeforeDelayHolds ==
  ASSUME ExportDelay <= TicksPerHour PROVE Spec => []NotBeforeDelay
<1>1. Init => RipeWork /\ NotBeforeDelay
  BY DEF Init, RipeWork, NotBeforeDelay, Stored
<1>2. TypeOK /\ InFlight /\ RipeWork /\ NotBeforeDelay /\ [Next]_vars =>
        RipeWork' /\ NotBeforeDelay'
  <2> SUFFICES ASSUME TypeOK, InFlight, RipeWork, NotBeforeDelay, [Next]_vars
               PROVE RipeWork' /\ NotBeforeDelay'
    OBVIOUS
  <2>1. /\ todo' \subseteq todo \cup Due
        /\ cur' \in {None, cur} \cup todo
    <3>1. CASE Start \/ Collect \/ Finish \/ Crash
      BY <3>1 DEF Start, Collect, Finish, Crash, EndRun, local
    <3>2. CASE \/ QueryEvents \/ CompliancePreCheck \/ StreamData
               \/ BuildManifest \/ PutSignature \/ PutManifest
      BY <3>2 DEF QueryEvents, CompliancePreCheck, StreamData, BuildManifest,
                  PutSignature, PutManifest, EndRun, FailWindow, DoneWindow, local
    <3>3. CASE (\E v \in Windows : CheckManifest(v)) \/ Tick \/ UNCHANGED vars
               \/ (\E t \in AllTenants, h \in Hours : Log(t, h))
      BY <3>3 DEF CheckManifest, IsFirst, Tick, Log, vars, local
    <3> QED
      BY <3>1, <3>2, <3>3 DEF Next, ExporterStep
  <2>2. \A w \in todo \cup Due : w \in Windows /\ Ripe(w)
    BY DueIsRipe DEF RipeWork, TypeOK, Due
  <2>3. cur # None => cur \in Windows /\ Ripe(cur)
    BY DEF RipeWork, TypeOK
  <2>4. RipeWork'
    <3>1. \A w \in todo' : Ripe(w)'
      BY <2>1, <2>2, RipeStays
    <3>2. cur' # None => Ripe(cur)'
      <4> SUFFICES ASSUME cur' # None PROVE Ripe(cur)'
        OBVIOUS
      <4>1. cur' \in Windows /\ Ripe(cur')
        BY <2>1, <2>2, <2>3
      <4>2. PICK c \in Windows : c = cur' /\ Ripe(c)
        BY <4>1
      <4>3. Ripe(c)'
        BY <4>2, RipeStays
      <4> QED
        BY <4>2, <4>3 DEF Ripe
    <3> QED
      BY <3>1, <3>2 DEF RipeWork
  <2>5. NotBeforeDelay'
    <3> SUFFICES ASSUME NEW w \in Windows, data'[w] # None PROVE Ripe(w)'
      BY DEF NotBeforeDelay, Stored
    <3>1. Ripe(w)
      <4>1. CASE data[w] # None
        BY <4>1 DEF NotBeforeDelay, Stored
      <4>2. CASE data[w] = None
        <5>1. WritesData /\ w = cur
          BY <4>2, BucketStep DEF WritesData, WritesSignature, WritesManifest,
                                  bucket, TypeOK
        <5> QED
          BY <5>1, NoneAssumption DEF WritesData, RipeWork
      <4> QED
        BY <4>1, <4>2
    <3> QED
      BY <3>1, RipeStays
  <2> QED
    BY <2>4, <2>5
<1> QED
  BY <1>1, <1>2, TypeCorrect, PTL DEF Spec

(***************************************************************************)
(* The exporter implements the abstract archive.                           *)
(***************************************************************************)

\* Only the upload of a manifest changes the archive, and it publishes the
\* whole window.
LEMMA StepImplements ==
  ASSUME TypeOK, InFlight, CompleteWindow, [Next]_vars PROVE [WA!Next]_Archive
<1>1. CASE UNCHANGED bucket
  BY <1>1 DEF bucket, Archive, Stored
<1>2. CASE WritesData \/ WritesSignature
  <2>1. \A w \in Windows : Stored(manifest, w) =>
          data'[w] = data[w] /\ sig'[w] = sig[w]
    BY StepStays DEF Stays
  <2>2. manifest' = manifest
    BY <1>2 DEF WritesData, WritesSignature
  <2> QED
    BY <2>1, <2>2 DEF Archive, Stored
<1>3. CASE WritesManifest
  <2> DEFINE e == [data |-> data[cur], manifest |-> mf, signed |-> sig[cur]]
  <2>1. cur \in Windows /\ mf \in Manifests /\ mf # None
    BY <1>3, NoneAssumption DEF WritesManifest
  <2>2. Archive[cur] = None /\ Archive'[cur] = e
    BY <1>3, <2>1 DEF WritesManifest, Archive, Stored, TypeOK
  <2>3. Archive' = [Archive EXCEPT ![cur] = Archive'[cur]]
    BY <1>3, <2>1, <2>2 DEF WritesManifest, Archive, Stored, TypeOK
  <2>4. e \in WA!Entries /\ e.manifest.data = e.data /\ e.signed = e.manifest
    BY <1>3, <2>1 DEF WritesManifest, WA!Entries, WA!Manifests, WA!NoDigest,
                      Manifests, NoDigest
  <2>5. \/ e.manifest.prev = WA!NoDigest
        \/ /\ WA!Published(WA!Before(cur))
           /\ e.manifest.prev = WA!Digest(Archive[WA!Before(cur)].manifest)
    <3>1. CASE mf.prev = NoDigest
      BY <3>1 DEF WA!NoDigest, NoDigest
    <3>2. CASE mf.prev # NoDigest
      <4> DEFINE b == Before(cur)
      <4>1. /\ b \in Windows /\ manifest[b] # None /\ mf.prev = Digest(manifest[b])
            /\ WA!Before(cur) = b
        BY <1>3, <3>2 DEF WritesManifest, LinkVerifies, Stored, Before,
                          WA!Before
      <4>2. manifest[b] \in Manifests /\ data[b] \in Nat /\ sig[b] \in Manifests
        BY <4>1 DEF TypeOK, CompleteWindow, Stored, Manifests
      <4>3. Archive[b] = [data |-> data[b], manifest |-> manifest[b],
                          signed |-> sig[b]]
        BY <4>1 DEF Archive, Stored
      <4>4. Archive[b] # None
        <5>1. Archive[b] \in [data : Nat, manifest : Manifests, signed : Manifests]
          BY <4>2, <4>3
        <5> QED
          BY <5>1, NoneAssumption
      <4>5. WA!Published(WA!Before(cur))
        BY <4>1, <4>4 DEF WA!Published
      <4>6. e.manifest.prev = WA!Digest(Archive[WA!Before(cur)].manifest)
        BY <4>1, <4>3 DEF WA!Digest, Digest
      <4> QED
        BY <4>5, <4>6
    <3> QED
      BY <3>1, <3>2
  <2>6. WA!Publish(cur)
    BY <2>2, <2>3, <2>4, <2>5 DEF WA!Publish
  <2> QED
    BY <2>1, <2>6 DEF WA!Next
<1> QED
  BY <1>1, <1>2, <1>3, BucketStep

\* Seen through manifest.json, the bucket behaves as the abstract archive:
\* exportWindow publishes whole, signed, correctly linked windows once.
THEOREM Refinement == Spec => ImplementsArchive
<1>1. Init => WA!Init
  BY DEF Init, WA!Init, Archive, Stored
<1>2. TypeOK /\ InFlight /\ CompleteWindow /\ [Next]_vars => [WA!Next]_Archive
  BY StepImplements
<1> QED
  BY <1>1, <1>2, TypeCorrect, CompleteWindowHolds, PTL
     DEF Spec, ImplementsArchive, WA!Spec
=============================================================================
