----------------------------- MODULE FileWatcher -----------------------------
(***************************************************************************)
(* The file watcher (kof-operator/internal/filewatcher): at start it       *)
(* registers the watched paths with the kernel, hashes the files and       *)
(* compares them with the baseline kept in a Secret; then it turns file    *)
(* events into gauges that say which paths have drifted.                   *)
(*                                                                         *)
(* The file system changes at any moment, also while the watcher is down   *)
(* or starting.  There is one watched root, a directory that always        *)
(* exists.  A hash is the content itself.                                  *)
(***************************************************************************)
EXTENDS Naturals, Sequences

CONSTANTS
  Files,        \* the regular files that may exist
  Dirs,         \* the directories under the root that may exist
  Dir,          \* the directory of each file and directory; Root for those at the top
  Root,
  Contents,
  Recursive,    \* Config.Recursive
  WithStore,    \* Config.BaselineEnabled
  None,
  MaxEvents     \* bound of the model: changes of the file system, failures and restarts

ASSUME PathAssumption == Root \notin Dirs

ASSUME NoneAssumption == None \notin Contents /\ \A S \in SUBSET Files : None \notin [S -> Contents]

ASSUME BoundAssumption == MaxEvents \in Nat

VARIABLES
  content,   \* each file's content, or None when there is no such file
  dirs,      \* the directories that exist
  store,     \* the hashes in the baseline Secret, or None when it does not exist
  proc,      \* "down", "added", "hashed", "loaded", "watching"
  watched,   \* the directories the kernel reports on
  roots,     \* the directories that have been there from the start until the files were hashed
  events,    \* the events not yet handled, in order: <<path, operation>>
  recent,    \* the paths whose last emission is younger than DebounceDuration
  current,   \* the hashes computed at this start
  stored,    \* the baseline as loaded at this start, or None
  drift,     \* the gauges: <<path, event>> of those that are 1
  count

disk == <<content, dirs>>
memory == <<watched, roots, events, recent, current, stored, drift>>
vars == <<disk, store, proc, memory, count>>

Present == {p \in Files : content[p] # None}
DirExists(d) == d = Root \/ d \in dirs

----------------------------------------------------------------------------

Init ==
  /\ content \in [Files -> Contents \cup {None}]
  /\ dirs = Dirs
  /\ store = None /\ proc = "down" /\ count = 0
  /\ watched = {} /\ roots = {} /\ events = <<>> /\ recent = {} /\ current = <<>> /\ stored = None
  /\ drift = {}

Event == count < MaxEvents /\ count' = count + 1

\* addPath: the root, and in recursive mode every directory below it, is registered.
addPath == watched' = IF Recursive THEN dirs \cup {Root} ELSE {Root}

\* hashTree: every file below the root, in any mode.
hashTree == current' = [p \in Present |-> content[p]]

\* Run: the paths are registered.
Start ==
  /\ proc = "down" /\ proc' = "added" /\ addPath /\ roots' = dirs \cup {Root}
  /\ UNCHANGED <<disk, store, events, recent, current, stored, drift, count>>

\* initBaseline, first part: the files are hashed.
Hash ==
  /\ proc = "added" /\ proc' = "hashed" /\ hashTree
  /\ UNCHANGED <<disk, store, watched, roots, events, recent, stored, drift, count>>

\* initBaseline, second part: without a store nothing has drifted; otherwise the baseline
\* is loaded, and a Secret that does not exist is an empty one.
Load ==
  /\ proc = "hashed"
  /\ IF ~WithStore
     THEN proc' = "watching" /\ UNCHANGED stored
     ELSE proc' = "loaded" /\ stored' = IF store = None THEN <<>> ELSE store
  /\ UNCHANGED <<disk, store, watched, roots, events, recent, current, drift, count>>

\* An error of the store is logged, and the watcher goes on without a baseline.
LoadFails ==
  /\ proc = "hashed" /\ WithStore /\ Event /\ proc' = "watching"
  /\ UNCHANGED <<disk, store, memory>>

\* What the comparison says of the gauges: files that differ are modified, files the
\* baseline does not have are absorbed, and only the files that are there are looked at.
Compare ==
  drift' = {<<p, "modified">> : p \in {q \in DOMAIN current \cap DOMAIN stored :
                                         stored[q] # current[q]}}

\* Mistake: the baseline is replaced by what is there.
AbsorbedAll == current

\* The baseline with the new files added to it.
Absorbed ==
  [p \in DOMAIN stored \cup DOMAIN current |->
     IF p \in DOMAIN stored THEN stored[p] ELSE current[p]]

\* initBaseline, third part: the comparison, and Save.
CompareAndSave ==
  /\ proc = "loaded" /\ proc' = "watching" /\ Compare /\ store' = Absorbed
  /\ stored' = Absorbed
  /\ UNCHANGED <<disk, watched, roots, events, recent, current, count>>

SaveFails ==
  /\ proc = "loaded" /\ Event /\ proc' = "watching" /\ Compare /\ stored' = Absorbed
  /\ UNCHANGED <<disk, store, watched, roots, events, recent, current>>

\* handleEvent without its first lines: the gauge, and a directory that is new.
Emit(path, op) ==
  /\ drift' = drift \cup {<<path, IF op = "remove" THEN "deleted" ELSE "modified">>}
  /\ watched' = IF Recursive /\ op = "create" /\ path \in dirs THEN watched \cup {path} ELSE watched

\* Mistake: the debounce comes first, so that a change of mode hides a change of content.
handleEventEarly ==
  /\ proc = "watching" /\ events # <<>>
  /\ LET path == Head(events)[1]
         op == Head(events)[2]
     IN  IF path \in recent THEN UNCHANGED <<drift, watched, recent>>
         ELSE /\ IF op = "chmod" THEN UNCHANGED <<drift, watched>> ELSE Emit(path, op)
              /\ recent' = recent \cup {path}
  /\ events' = Tail(events)
  /\ UNCHANGED <<disk, store, proc, roots, current, stored, count>>

\* debounce: an event soon after an emission for the same path is dropped.
handleEvent ==
  /\ proc = "watching" /\ events # <<>>
  /\ LET path == Head(events)[1]
         op == Head(events)[2]
     IN  IF op = "chmod" \/ path \in recent THEN UNCHANGED <<drift, watched, recent>>
         ELSE Emit(path, op) /\ recent' = recent \cup {path}
  /\ events' = Tail(events)
  /\ UNCHANGED <<disk, store, proc, roots, current, stored, count>>

\* DebounceDuration goes by.
Elapse ==
  /\ \E p \in recent : recent' = recent \ {p}
  /\ UNCHANGED <<disk, store, proc, watched, roots, events, current, stored, drift, count>>

\* The watcher ends, or is killed, and starts anew.
Stop ==
  /\ proc # "down" /\ Event /\ proc' = "down"
  /\ watched' = {} /\ roots' = {} /\ events' = <<>> /\ recent' = {} /\ current' = <<>> /\ stored' = None
  /\ drift' = {}
  /\ UNCHANGED <<disk, store>>

Watcher ==
  Start \/ Hash \/ Load \/ CompareAndSave \/ handleEvent

----------------------------------------------------------------------------
(* The file system; the kernel reports a change in a watched directory.    *)

Report(path, op) ==
  events' = IF Dir[path] \in watched THEN Append(events, <<path, op>>) ELSE events

\* A file is written, created or replaced, removed, or its mode changed.
ChangeFile ==
  /\ Event /\ UNCHANGED <<dirs, store, proc, watched, roots, recent, current, stored, drift>>
  /\ \E p \in Files :
       \/ /\ DirExists(Dir[p])
          /\ \E c \in Contents \ {content[p]} : content' = [content EXCEPT ![p] = c]
          /\ Report(p, IF content[p] = None THEN "create" ELSE "write")
       \/ content[p] # None /\ content' = [content EXCEPT ![p] = None] /\ Report(p, "remove")
       \/ content[p] # None /\ UNCHANGED content /\ Report(p, "chmod") /\ Dir[p] \in watched

\* An empty directory is removed, with its registration, or one is made.
ChangeDir ==
  /\ Event /\ UNCHANGED <<content, store, proc, recent, current, stored, drift>>
  /\ \E d \in Dirs :
       /\ roots' = IF proc = "added" THEN roots \ {d} ELSE roots
       /\ \/ /\ d \in dirs /\ (\A p \in Files : Dir[p] = d => content[p] = None)
             /\ \A e \in dirs : Dir[e] # d
             /\ dirs' = dirs \ {d} /\ watched' = watched \ {d} /\ Report(d, "remove")
          \/ /\ d \notin dirs /\ DirExists(Dir[d]) /\ dirs' = dirs \cup {d}
             /\ Report(d, "create") /\ UNCHANGED watched

Next == Watcher \/ LoadFails \/ SaveFails \/ Elapse \/ Stop \/ ChangeFile \/ ChangeDir

Spec == Init /\ [][Next]_vars

----------------------------------------------------------------------------
(* Properties.                                                             *)

Quiet == proc = "watching" /\ events = <<>>

\* The files that were hashed at this start and compared, in a directory that was there,
\* and to be watched, all the time from the registration to the hashing.
Checked ==
  IF stored = None THEN {}
  ELSE {p \in DOMAIN stored \cap DOMAIN current :
          Dir[p] \in roots /\ (Recursive \/ Dir[p] = Root)}

Drifted(p) == p \in Checked /\ content[p] # stored[p]
Flagged(p) == \E e \in {"modified", "deleted"} : <<p, e>> \in drift

\* Once all events are handled, a file that was there at the start, in a
\* directory that was too, and is not what the
\* baseline says has a gauge that is 1: changes before the start, between
\* registration, hashing and comparison, and in a burst of events are all noticed (Run,
\* initBaseline, handleEvent).
DriftFlagged == Quiet => \A p \in Files : Drifted(p) => Flagged(p)

\* The baseline never forgets a file and never takes over the hash of a changed one, over
\* restarts and failed saves (initBaseline).
BaselineKept ==
  [][store # None => /\ store' # None
                     /\ \A p \in DOMAIN store : p \in DOMAIN store' /\ store'[p] = store[p]]_vars

\* A file the baseline has that was gone when the watcher started is flagged once all
\* events are handled (initBaseline).
DeletionsFlagged ==
  Quiet /\ stored # None => \A p \in DOMAIN stored \ DOMAIN current : Flagged(p)
=============================================================================
