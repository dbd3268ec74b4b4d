-------------------------- MODULE FileWatcherProofs --------------------------
(***************************************************************************)
(* Proofs about the file watcher, for any files, directories and contents  *)
(* and any number of changes, failures and restarts.                       *)
(***************************************************************************)
EXTENDS FileWatcher, TLAPS

\* The hashes of some of the files.
Baselines == UNION {[S -> Contents] : S \in SUBSET Files}

Operations == {"create", "write", "remove", "chmod"}

\* The type invariant.
TypeOK ==
  /\ content \in [Files -> Contents \cup {None}]
  /\ dirs \subseteq Dirs
  /\ store \in Baselines \cup {None}
  /\ proc \in {"down", "added", "hashed", "loaded", "watching"}
  /\ watched \subseteq Dirs \cup {Root}
  /\ roots \subseteq Dirs \cup {Root}
  /\ events \in Seq((Files \cup Dirs) \X Operations)
  /\ current \in Baselines
  /\ stored \in Baselines \cup {None}

\* The directories below which the watcher must notice every change.
ToWatch(d) == d \in roots /\ (Recursive \/ d = Root)

\* An event about the content of a path is still to be handled.
Announced(p) == \E i \in 1..Len(events) : events[i][1] = p /\ events[i][2] # "chmod"

\* Before the watcher handles events no gauge is set; once a path is debounced its gauge is.
Gauges ==
  /\ proc # "watching" => drift = {} /\ recent = {}
  /\ \A p \in recent : Flagged(p)

\* What the watcher holds in memory at each stage of a start.
Stages ==
  /\ proc = "down" => watched = {} /\ events = <<>>
  /\ proc \in {"down", "added"} => current = <<>>
  /\ proc \in {"down", "added", "hashed"} => stored = None
  /\ proc = "added" => \A d \in roots : (d = Root \/ d \in dirs) /\ (ToWatch(d) => d \in watched)
  /\ proc = "loaded" => stored = IF store = None THEN <<>> ELSE store

\* A hashed file is still what was hashed and its directory watched, or an event says
\* otherwise, or its gauge is set.
Covered ==
  \A p \in DOMAIN current : ToWatch(Dir[p]) =>
    \/ Dir[p] \in watched /\ content[p] = current[p]
    \/ Announced(p)
    \/ Flagged(p)

\* A file that had drifted when the baseline was compared has its gauge.
Compared ==
  proc = "watching" /\ stored # None =>
    \A p \in DOMAIN current \cap DOMAIN stored : current[p] # stored[p] => Flagged(p)

IInv == TypeOK /\ Gauges /\ Stages /\ Covered /\ Compared

----------------------------------------------------------------------------

\* No hash is None: only files that exist are hashed (hashTree).
LEMMA BaselineFacts ==
  /\ <<>> \in Baselines
  /\ None \notin Baselines
  /\ \A b \in Baselines : DOMAIN b \subseteq Files
  /\ \A b \in Baselines : \A p \in DOMAIN b : b[p] \in Contents /\ b[p] # None
<1>1. <<>> \in [{} -> Contents]
  OBVIOUS
<1> QED
  BY <1>1, NoneAssumption DEF Baselines

\* The comparison keeps what the baseline says (initBaseline).
LEMMA AbsorbedFacts ==
  ASSUME stored \in Baselines, current \in Baselines
  PROVE /\ Absorbed \in Baselines
        /\ DOMAIN Absorbed = DOMAIN stored \cup DOMAIN current
        /\ \A p \in DOMAIN stored : Absorbed[p] = stored[p]
        /\ \A p \in DOMAIN current \ DOMAIN stored : Absorbed[p] = current[p]
<1>1. PICK S \in SUBSET Files : stored \in [S -> Contents]
  BY DEF Baselines
<1>2. PICK T \in SUBSET Files : current \in [T -> Contents]
  BY DEF Baselines
<1>3. Absorbed \in [S \cup T -> Contents]
  BY <1>1, <1>2 DEF Absorbed
<1>4. S \cup T \in SUBSET Files
  OBVIOUS
<1> QED
  BY <1>1, <1>2, <1>3, <1>4 DEF Absorbed, Baselines

\* A reported event comes last, after those that wait.
LEMMA ReportFacts ==
  ASSUME TypeOK, NEW path \in Files \cup Dirs, NEW op \in Operations, Report(path, op)
  PROVE /\ events' \in Seq((Files \cup Dirs) \X Operations)
        /\ \A p : Announced(p) => Announced(p)'
        /\ Dir[path] \in watched /\ op # "chmod" => Announced(path)'
<1> DEFINE E == (Files \cup Dirs) \X Operations
<1>1. events \in Seq(E) /\ <<path, op>> \in E
  BY DEF TypeOK
<1> HIDE DEF E
<1>2. CASE Dir[path] \notin watched
  BY <1>1, <1>2 DEF Report, Announced, E
<1>3. CASE Dir[path] \in watched
  <2>1. events' = Append(events, <<path, op>>)
    BY <1>3 DEF Report
  <2>2. /\ events' \in Seq(E) /\ Len(events') = Len(events) + 1 /\ Len(events) \in Nat
        /\ \A i \in 1..Len(events) : events'[i] = events[i]
        /\ events'[Len(events) + 1] = <<path, op>>
    BY <1>1, <2>1
  <2>3. \A p : Announced(p) => Announced(p)'
    BY <2>2 DEF Announced
  <2>4. op # "chmod" => Announced(path)'
    BY <2>2 DEF Announced
  <2> QED
    BY <2>2, <2>3, <2>4 DEF E
<1> QED
  BY <1>2, <1>3

----------------------------------------------------------------------------
(* Each step preserves the invariant.                                      *)

\* Run registers the paths (addPath).
LEMMA StartInv == ASSUME IInv, Start PROVE IInv'
<1>1. TypeOK'
  BY DEF IInv, TypeOK, Start, addPath, disk
<1>2. Gauges'
  BY DEF IInv, Gauges, Flagged, Start
<1>3. Stages'
  BY DEF IInv, TypeOK, Stages, ToWatch, Start, addPath, disk
<1>4. Covered'
  BY DEF IInv, Stages, Covered, Start
<1>5. Compared'
  BY DEF Compared, Start
<1> QED
  BY <1>1, <1>2, <1>3, <1>4, <1>5 DEF IInv

\* initBaseline hashes the files (hashTree).
LEMMA HashInv == ASSUME IInv, Hash PROVE IInv'
<1>1. current' \in [Present -> Contents] /\ Present \in SUBSET Files
  BY DEF IInv, TypeOK, Hash, hashTree, Present
<1>2. TypeOK'
  BY <1>1 DEF IInv, TypeOK, Hash, disk, Baselines
<1>3. Gauges'
  BY DEF IInv, Gauges, Flagged, Hash
<1>4. Stages'
  BY DEF IInv, Stages, Hash
<1>5. Covered'
  <2> SUFFICES ASSUME NEW p \in Present, ToWatch(Dir[p])
               PROVE Dir[p] \in watched /\ content'[p] = current'[p]
    BY <1>1 DEF Covered, ToWatch, Hash
  <2> QED
    BY DEF IInv, Stages, ToWatch, Hash, hashTree, disk
<1>6. Compared'
  BY DEF Compared, Hash
<1> QED
  BY <1>2, <1>3, <1>4, <1>5, <1>6 DEF IInv

\* initBaseline loads the stored baseline, or goes on without one.
LEMMA LoadInv == ASSUME IInv, Load \/ LoadFails PROVE IInv'
<1>0. /\ proc = "hashed" /\ proc' \in {"loaded", "watching"}
      /\ UNCHANGED <<content, dirs, store, watched, roots, events, recent, current, drift>>
      /\ \/ proc' = "watching" /\ UNCHANGED stored
         \/ proc' = "loaded" /\ stored' = IF store = None THEN <<>> ELSE store
  BY DEF Load, LoadFails, disk, memory
<1>1. TypeOK'
  BY <1>0, BaselineFacts DEF IInv, TypeOK
<1>2. Gauges'
  BY <1>0 DEF IInv, Gauges, Flagged
<1>3. Stages'
  BY <1>0 DEF IInv, Stages
<1>4. Covered'
  BY <1>0 DEF IInv, Covered, ToWatch, Announced, Flagged
<1>5. Compared'
  BY <1>0 DEF IInv, Stages, Compared
<1> QED
  BY <1>1, <1>2, <1>3, <1>4, <1>5 DEF IInv

\* initBaseline flags what differs and saves the merged baseline, or fails to.
LEMMA CompareInv == ASSUME IInv, CompareAndSave \/ SaveFails PROVE IInv'
<1>0. /\ proc = "loaded" /\ proc' = "watching" /\ Compare /\ stored' = Absorbed
      /\ UNCHANGED <<content, dirs, watched, roots, events, recent, current>>
      /\ store' \in {store, Absorbed}
  BY DEF CompareAndSave, SaveFails, disk
<1>a. stored \in Baselines /\ current \in Baselines
  BY <1>0, BaselineFacts DEF IInv, TypeOK, Stages
<1>1. TypeOK'
  BY <1>0, <1>a, AbsorbedFacts DEF IInv, TypeOK
<1>2. Gauges'
  BY <1>0 DEF IInv, Gauges
<1>3. Stages'
  BY <1>0 DEF Stages
<1>4. Covered'
  <2> SUFFICES ASSUME NEW p \in DOMAIN current, ToWatch(Dir[p])
               PROVE \/ Dir[p] \in watched' /\ content'[p] = current'[p]
                     \/ Announced(p)' \/ Flagged(p)'
    BY <1>0 DEF Covered, ToWatch
  <2>1. ~Flagged(p)
    BY <1>0 DEF IInv, Gauges, Flagged
  <2> QED
    BY <1>0, <2>1 DEF IInv, Covered, Announced
<1>5. Compared'
  <2> SUFFICES ASSUME NEW p \in DOMAIN current, p \in DOMAIN Absorbed,
                      current[p] # Absorbed[p]
               PROVE <<p, "modified">> \in drift'
    BY <1>0 DEF Compared, Flagged
  <2>1. p \in DOMAIN stored /\ stored[p] # current[p]
    BY <1>a, AbsorbedFacts
  <2> QED
    BY <1>0, <2>1 DEF Compare
<1> QED
  BY <1>1, <1>2, <1>3, <1>4, <1>5 DEF IInv

\* handleEvent flags a change, or drops the event of a path that was flagged just before.
LEMMA HandleInv == ASSUME IInv, handleEvent PROVE IInv'
<1> DEFINE E == (Files \cup Dirs) \X Operations
<1>0. /\ proc = "watching" /\ proc' = "watching" /\ events # <<>> /\ events' = Tail(events)
      /\ UNCHANGED <<content, dirs, store, roots, current, stored>>
  BY DEF handleEvent, disk
<1>a. events \in Seq(E)
  BY DEF IInv, TypeOK
<1> HIDE DEF E
<1>b. /\ events' \in Seq(E) /\ Len(events) \in Nat \ {0} /\ Len(events') = Len(events) - 1
      /\ Head(events) = events[1] /\ Head(events) \in E
      /\ \A i \in 1..Len(events') : events'[i] = events[i + 1]
  BY <1>a, <1>0
<1>c. PICK path \in Files \cup Dirs, op \in Operations : events[1] = <<path, op>>
  BY <1>b DEF E
<1>d. \/ op = "chmod" /\ UNCHANGED <<drift, watched, recent>>
      \/ path \in recent /\ UNCHANGED <<drift, watched, recent>>
      \/ Emit(path, op) /\ recent' = recent \cup {path}
  BY <1>b, <1>c DEF handleEvent
<1>e. drift \subseteq drift' /\ watched \subseteq watched'
  BY <1>d DEF Emit
<1>f. \A p : Flagged(p) => Flagged(p)'
  BY <1>e DEF Flagged
<1>g. Emit(path, op) => Flagged(path)'
  BY DEF Emit, Flagged
<1>1. TypeOK'
  <2>1. watched' \subseteq Dirs \cup {Root}
    BY <1>0, <1>d DEF IInv, TypeOK, Emit
  <2> QED
    BY <1>0, <1>b, <2>1 DEF IInv, TypeOK, E
<1>2. Gauges'
  BY <1>0, <1>d, <1>f, <1>g DEF IInv, Gauges
<1>3. Stages'
  BY <1>0 DEF Stages
<1>4. Covered'
  <2> SUFFICES ASSUME NEW p \in DOMAIN current, ToWatch(Dir[p])
               PROVE \/ Dir[p] \in watched' /\ content'[p] = current'[p]
                     \/ Announced(p)' \/ Flagged(p)'
    BY <1>0 DEF Covered, ToWatch
  <2>1. CASE Dir[p] \in watched /\ content[p] = current[p]
    BY <1>0, <1>e, <2>1
  <2>2. CASE Announced(p)
    <3>1. PICK i \in 1..Len(events) : events[i][1] = p /\ events[i][2] # "chmod"
      BY <2>2 DEF Announced
    <3>2. CASE i = 1
      <4>1. path = p /\ op # "chmod"
        BY <1>c, <3>1, <3>2
      <4> QED
        BY <1>d, <1>f, <1>g, <4>1 DEF IInv, Gauges
    <3>3. CASE i # 1
      <4>1. i - 1 \in 1..Len(events') /\ events'[i - 1] = events[i]
        BY <1>b, <3>3
      <4> QED
        BY <3>1, <4>1 DEF Announced
    <3> QED
      BY <3>2, <3>3
  <2>3. CASE Flagged(p)
    BY <1>f, <2>3
  <2> QED
    BY <2>1, <2>2, <2>3 DEF IInv, Covered
<1>5. Compared'
  BY <1>0, <1>f DEF IInv, Compared
<1> QED
  BY <1>1, <1>2, <1>3, <1>4, <1>5 DEF IInv

\* DebounceDuration goes by: the next event of the path is no longer dropped.
LEMMA ElapseInv == ASSUME IInv, Elapse PROVE IInv'
BY DEF IInv, TypeOK, Gauges, Stages, Covered, Compared, ToWatch, Announced, Flagged,
       Elapse, disk

\* The watcher ends: only the store is left.
LEMMA StopInv == ASSUME IInv, Stop PROVE IInv'
<1>1. TypeOK'
  BY BaselineFacts DEF IInv, TypeOK, Stop, disk
<1> QED
  BY <1>1 DEF IInv, Gauges, Stages, Covered, Compared, Stop

\* A file changes: its event is queued, or the next start will find it.
LEMMA ChangeFileInv == ASSUME IInv, ChangeFile PROVE IInv'
<1>0. UNCHANGED <<dirs, store, proc, watched, roots, recent, current, stored, drift>>
  BY DEF ChangeFile
<1>1. PICK p \in Files, op \in Operations :
        /\ Report(p, op)
        /\ content' \in [Files -> Contents \cup {None}]
        /\ \A q \in Files \ {p} : content'[q] = content[q]
        /\ op = "chmod" => content' = content
  BY DEF ChangeFile, Operations, IInv, TypeOK
<1>2. /\ events' \in Seq((Files \cup Dirs) \X Operations)
      /\ \A q : Announced(q) => Announced(q)'
      /\ Dir[p] \in watched /\ op # "chmod" => Announced(p)'
  BY <1>1, ReportFacts DEF IInv
<1>3. TypeOK'
  BY <1>0, <1>1, <1>2 DEF IInv, TypeOK
<1>4. Gauges' /\ Compared'
  BY <1>0 DEF IInv, Gauges, Compared, Flagged
<1>5. Stages'
  <2>1. proc = "down" => events' = <<>>
    BY <1>1 DEF IInv, Stages, Report
  <2> QED
    BY <1>0, <2>1 DEF IInv, Stages, ToWatch
<1>6. Covered'
  <2> SUFFICES ASSUME NEW q \in DOMAIN current, ToWatch(Dir[q])
               PROVE \/ Dir[q] \in watched /\ content'[q] = current[q]
                     \/ Announced(q)' \/ Flagged(q)
    BY <1>0 DEF Covered, ToWatch, Flagged
  <2>1. q \in Files
    BY BaselineFacts DEF IInv, TypeOK
  <2> QED
    BY <1>1, <1>2, <2>1 DEF IInv, Covered
<1> QED
  BY <1>3, <1>4, <1>5, <1>6 DEF IInv

\* An empty directory is removed, or one is made.
LEMMA ChangeDirInv == ASSUME IInv, ChangeDir PROVE IInv'
<1>0. UNCHANGED <<content, store, proc, recent, current, stored, drift>>
  BY DEF ChangeDir
<1>1. PICK d \in Dirs, op \in Operations :
        /\ Report(d, op)
        /\ roots' = IF proc = "added" THEN roots \ {d} ELSE roots
        /\ \/ /\ \A p \in Files : Dir[p] = d => content[p] = None
              /\ dirs' = dirs \ {d} /\ watched' = watched \ {d}
           \/ dirs' = dirs \cup {d} /\ UNCHANGED watched
  BY DEF ChangeDir, Operations
<1>2. /\ events' \in Seq((Files \cup Dirs) \X Operations)
      /\ \A q : Announced(q) => Announced(q)'
  BY <1>1, ReportFacts DEF IInv
<1>3. TypeOK'
  BY <1>0, <1>1, <1>2 DEF IInv, TypeOK
<1>4. Gauges' /\ Compared'
  BY <1>0 DEF IInv, Gauges, Compared, Flagged
<1>5. Stages'
  <2>1. proc = "down" => events' = <<>> /\ watched' = {}
    BY <1>1 DEF IInv, Stages, Report
  <2> QED
    BY <1>0, <1>1, <2>1 DEF IInv, Stages, ToWatch
<1>6. Covered'
  <2> SUFFICES ASSUME NEW q \in DOMAIN current, ToWatch(Dir[q])'
               PROVE \/ Dir[q] \in watched' /\ content[q] = current[q]
                     \/ Announced(q)' \/ Flagged(q)
    BY <1>0 DEF Covered, Flagged
  <2>1. q \in Files /\ current[q] # None
    BY BaselineFacts DEF IInv, TypeOK
  <2>2. ToWatch(Dir[q])
    BY <1>1 DEF ToWatch
  <2> QED
    BY <1>1, <1>2, <2>1, <2>2 DEF IInv, Covered
<1> QED
  BY <1>3, <1>4, <1>5, <1>6 DEF IInv

\* The invariant holds of every behaviour.
THEOREM Invariance == Spec => []IInv
<1>1. Init => IInv
  BY BaselineFacts DEF Init, IInv, TypeOK, Gauges, Stages, Covered, Compared
<1>2. IInv /\ [Next]_vars => IInv'
  <2> SUFFICES ASSUME IInv, [Next]_vars PROVE IInv'
    OBVIOUS
  <2>1. CASE UNCHANGED vars
    BY <2>1 DEF IInv, TypeOK, Gauges, Stages, Covered, Compared, ToWatch, Announced,
                Flagged, vars, disk, memory
  <2> QED
    BY <2>1, StartInv, HashInv, LoadInv, CompareInv, HandleInv, ElapseInv, StopInv,
       ChangeFileInv, ChangeDirInv DEF Next, Watcher
<1> QED
  BY <1>1, <1>2, PTL DEF Spec

\* No drift goes unnoticed: whatever happens before the start, between the registration
\* of the paths, the hashing and the comparison, and in a burst of events that debouncing
\* thins out, a file that differs from the baseline has a gauge once the events are
\* handled (Run, initBaseline, handleEvent).
THEOREM DriftFlaggedHolds == Spec => []DriftFlagged
<1>1. IInv => DriftFlagged
  <2> SUFFICES ASSUME IInv, Quiet, NEW p \in Files, Drifted(p) PROVE Flagged(p)
    BY DEF DriftFlagged
  <2>1. /\ stored # None /\ p \in DOMAIN stored \cap DOMAIN current
        /\ ToWatch(Dir[p]) /\ content[p] # stored[p]
    BY DEF Drifted, Checked, ToWatch
  <2>2. ~Announced(p)
    BY DEF Quiet, Announced
  <2>3. content[p] = current[p] \/ Flagged(p)
    BY <2>1, <2>2 DEF IInv, Covered
  <2>4. current[p] # stored[p] => Flagged(p)
    BY <2>1 DEF IInv, Compared, Quiet
  <2> QED
    BY <2>1, <2>3, <2>4
<1> QED
  BY <1>1, Invariance, PTL

\* Only the save of initBaseline writes the Secret, and what it writes contains the
\* hashes it loaded: over any number of restarts a baseline only grows.
THEOREM BaselineKeptHolds == Spec => BaselineKept
<1>1. IInv /\ [Next]_vars =>
        [store # None => /\ store' # None
                         /\ \A p \in DOMAIN store :
                              p \in DOMAIN store' /\ store'[p] = store[p]]_vars
  <2> SUFFICES ASSUME IInv, [Next]_vars, store # None
               PROVE /\ store' # None
                     /\ \A p \in DOMAIN store : p \in DOMAIN store' /\ store'[p] = store[p]
    OBVIOUS
  <2>1. CASE CompareAndSave
    <3>1. store' = Absorbed /\ stored = store
      BY <2>1 DEF CompareAndSave, IInv, Stages
    <3> QED
      BY <3>1, AbsorbedFacts, BaselineFacts DEF IInv, TypeOK
  <2>2. CASE ~CompareAndSave
    <3>1. store' = store
      BY <2>2 DEF Next, Watcher, Start, Hash, Load, LoadFails, SaveFails, handleEvent,
                  Elapse, Stop, ChangeFile, ChangeDir, vars
    <3> QED
      BY <3>1
  <2> QED
    BY <2>1, <2>2
<1> QED
  BY <1>1, Invariance, PTL DEF Spec, BaselineKept
=============================================================================
