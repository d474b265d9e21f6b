--------------------------- MODULE ProjectSession ---------------------------
(***************************************************************************)
(* app::EditorController as the owner of a project session                 *)
(* (src/src/app/editor_controller.cpp): it puts the edit model             *)
(* (EditHistory) and the project store (ProjectStore) together.  Every     *)
(* accepted edit is appended to the working database's journal as a        *)
(* snapshot; saving copies that database to a .veproj checkpoint; what a   *)
(* session leaves behind in the recovery directory is offered later.       *)
(*                                                                         *)
(* All of this runs on the GUI thread, so a handler is one action; timers  *)
(* and pointer events interleave between handlers.  A journal is           *)
(* abstracted to its latest snapshot and to whether its head is past the   *)
(* saved revision, a checkpoint to the latest snapshot in it.  What a      *)
(* handler does on a failed database or file operation is modelled for the *)
(* failures in Failures.  While an export runs, New, Open and Autosave     *)
(* return early: those are stuttering steps.                               *)
(***************************************************************************)
EXTENDS Integers, Sequences, FiniteSets

CONSTANTS
    Projects,        \* project states
    DefaultProject,  \* makeDefaultProject()
    Keys,            \* coalescing keys of single edits
    Gestures,        \* coalescing keys of viewer-transform gestures
    NoKey,           \* the empty coalescing key
    Paths,           \* .veproj paths
    None,            \* no path, no file, no gesture, no working database
    Blank,           \* a journal without any snapshot
    Circumstances,   \* what a session may meet: see Circumstance
    MaxHistory,      \* bound on the undo entries
    MaxLeft,         \* bound on the databases left behind
    MaxPoints        \* bound on the restore points

\* Appending to the journal, the heartbeat after it, the file of a checkpoint,
\* the restore-point manifest, and marking a database as cleanly closed.
FailureKinds == {"append", "heartbeat", "checkpoint", "manifest", "close"}
\* Found media are relinked; cached metadata is moved into the project.
UpkeepKinds == {"relink", "metadata"}
\* What may fail in a session, which edits are made while a project is
\* installed, and the viewer gestures the user makes.
Circumstance ==
    [failures : SUBSET FailureKinds, upkeep : SUBSET UpkeepKinds, drags : SUBSET Gestures]

ASSUME ProjectsAssumption == DefaultProject \in Projects /\ {None, Blank} \cap Projects = {}
ASSUME KeysAssumption == Keys \cap Gestures = {} /\ NoKey \notin Keys \cup Gestures
ASSUME PathsAssumption == None \notin Paths \cup Gestures
ASSUME CircumstancesAssumption == Circumstances \subseteq Circumstance
\* Two edits may be made while a project is installed.
ASSUME MaxHistoryAssumption == MaxHistory \in Nat /\ MaxHistory >= 2

VARIABLES
    shown,    \* the head project of editor_
    history,  \* its undo entries
    cursor,   \* and how many of them are applied
    gesture,  \* viewer_transform_: the key of the gesture in progress, or None
    dirty,    \* dirty_
    bound,    \* checkpoint_path_
    work,     \* store_: the working database, None while nothing runs
    left,     \* the databases a recovery scan recommends; equal ones are one here
    file,     \* per path, the snapshot of the checkpoint there
    points,   \* the snapshots of the restore points in the manifest
    warned,   \* history: a failed write was reported, and none succeeded since
    meets     \* the circumstances of this behaviour, which do not change

editing == <<shown, history, cursor>>
disks == <<left, file, points>>
vars == <<shown, history, cursor, gesture, dirty, bound, work, left, file, points,
          warned, meets>>

H == INSTANCE EditHistory WITH
        state <- shown, revision <- 0, revisions <- <<>>, expected <- <<>>, view <- <<>>,
        InitialProject <- DefaultProject, Keys <- Keys \cup Gestures, Clients <- {},
        NoView <- None, MaxRevision <- 0

Snapshots == Projects \cup {Blank}

\* A working database: the latest snapshot of its journal, whether its head is
\* past the saved revision, and its clean_close flag.
WorkingDatabase == [latest : Snapshots, unsaved : BOOLEAN, clean : BOOLEAN]

ASSUME NoneAssumption == None \notin WorkingDatabase

Working(p, unsaved) == [latest |-> p, unsaved |-> unsaved, clean |-> FALSE]

\* Mutant of Recommended: a clean close is taken for a saved project.
RecommendedUnclean(dbs) == {w \in dbs : ~w.clean}

\* Those in a set that the recovery scan recommends.
Recommended(dbs) == {w \in dbs : ~w.clean \/ w.unsaved}

Init ==
    /\ shown = DefaultProject /\ history = <<>> /\ cursor = 0
    /\ gesture = None /\ dirty = FALSE /\ bound = None /\ work = None
    /\ left = {}
    /\ file = [d \in Paths |-> None]
    /\ points = {}
    /\ warned = FALSE
    /\ meets \in Circumstances

Failures == meets.failures
Running == work # None

-----------------------------------------------------------------------------
(* The project is edited. *)

\* persistSnapshot() of p: append_command() and then update_heartbeat(), each
\* in a transaction of its own; ok says whether it returns.
Persist(p, ok) ==
    \/ ok /\ work' = [work EXCEPT !.latest = p, !.unsaved = TRUE]
    \/ ~ok /\ "append" \in Failures /\ work' = work
    \/ ~ok /\ "heartbeat" \in Failures /\ work' = [work EXCEPT !.latest = p, !.unsaved = TRUE]

\* Mutant of Commit: an edit that fails to persist stays.
CommitAnyway(next, h, ok) ==
    /\ Running /\ warned' = ~ok
    /\ Len(h) <= MaxHistory
    /\ Persist(next, ok)
    /\ history' = h /\ shown' = next /\ cursor' = Len(h)
    /\ dirty' = (dirty \/ ok)
    /\ UNCHANGED <<gesture, bound, disks>>

\* Mutant of Commit: the project is rolled back, the history is not.
CommitHalfBack(next, h, ok) ==
    /\ Running /\ warned' = ~ok
    /\ Len(h) <= MaxHistory
    /\ Persist(next, ok)
    /\ history' = h /\ cursor' = Len(h)
    /\ shown' = IF ok THEN next ELSE h[Len(h)].before
    /\ dirty' = (dirty \/ ok)
    /\ UNCHANGED <<gesture, bound, disks>>

\* The editor has recorded an edit to next as the history h; if it cannot be
\* persisted, the editor undoes the latest entry of h, and the user is told.
Commit(next, h, ok) ==
    /\ Running /\ warned' = ~ok
    /\ Len(h) <= MaxHistory
    /\ Persist(next, ok)
    /\ history' = h
    /\ IF ok THEN shown' = next /\ cursor' = Len(h) /\ dirty' = TRUE
             ELSE /\ shown' = h[Len(h)].before
                  /\ cursor' = Len(h) - 1
                  /\ dirty' = dirty
    /\ UNCHANGED <<gesture, bound, disks>>

\* EditorController::apply()
Apply(key, next, ok) == Commit(next, H!Record(H!Applied, key, next), ok)

\* The entry of a batch: its key is unique, so it is as good as none.
BatchEntry(before, after) ==
    [name |-> "batch", key |-> NoKey, before |-> before, after |-> after]

\* EditorController::applyBatch()
ApplyBatch(next, ok) == Commit(next, Append(H!Applied, BatchEntry(shown, next)), ok)

\* undo() and redo(): what fails to persist is reported but not taken back, and
\* the project is not marked dirty.
Undo(ok) ==
    /\ Running /\ cursor > 0 /\ warned' = ~ok
    /\ shown' = history[cursor].before
    /\ cursor' = cursor - 1
    /\ Persist(shown', ok)
    /\ dirty' = (dirty \/ ok)
    /\ UNCHANGED <<history, gesture, bound, disks>>

Redo(ok) ==
    /\ Running /\ cursor < Len(history) /\ warned' = ~ok
    /\ shown' = history[cursor + 1].after
    /\ cursor' = cursor + 1
    /\ Persist(shown', ok)
    /\ dirty' = (dirty \/ ok)
    /\ UNCHANGED <<history, gesture, bound, disks>>

\* beginViewerTransform(): every gesture has a key of its own.
BeginGesture(g) ==
    /\ Running /\ g \in meets.drags
    /\ \A i \in 1 .. Len(history) : history[i].key # g
    /\ gesture' = g
    /\ UNCHANGED <<editing, dirty, bound, work, disks, warned>>

\* updateViewerTransform(): edits that are not persisted.
UpdateGesture(next) ==
    /\ Running /\ gesture # None
    /\ history' = H!Record(H!Applied, gesture, next)
    /\ Len(history') <= MaxHistory
    /\ shown' = next
    /\ cursor' = Len(history')
    /\ dirty' = TRUE
    /\ UNCHANGED <<gesture, bound, work, disks, warned>>

\* Mutant of EndGesture: what the gesture has left is not persisted.
EndGestureOnly(ok) ==
    /\ Running /\ gesture # None /\ ok
    /\ gesture' = None
    /\ UNCHANGED <<editing, dirty, bound, work, disks, warned>>

\* endViewerTransform(): persists what the gesture has left.
EndGesture(ok) ==
    /\ Running /\ gesture # None /\ warned' = ~ok
    /\ gesture' = None
    /\ Persist(shown, ok)
    /\ UNCHANGED <<editing, dirty, bound, disks>>

-----------------------------------------------------------------------------
(* The project is saved. *)

\* saveTo(): the path is bound before checkpoint_to() is tried; a checkpoint
\* that fails may have replaced the file, but has not recorded it.
Save(d, ok) ==
    /\ Running
    /\ bound' = d
    /\ \/ /\ ok
          /\ file' = [file EXCEPT ![d] = work.latest]
          /\ work' = [work EXCEPT !.unsaved = FALSE]
          /\ dirty' = FALSE
       \/ /\ ~ok /\ "checkpoint" \in Failures
          /\ \E content \in {file[d], work.latest} : file' = [file EXCEPT ![d] = content]
          /\ UNCHANGED <<work, dirty>>
    /\ UNCHANGED <<editing, gesture, left, points, warned>>

\* autosaveCheckpoint(), when the autosave timer fires.
Autosave(ok) == dirty /\ bound # None /\ Save(bound, ok)

\* createNamedRestorePoint(): a dirty project is first persisted; then come the
\* checkpoint, which counts as a save of the working database, and the manifest.
\* A restore point that the editor makes by itself fails silently.
CreateRestorePoint ==
    /\ Running
    /\ LET p == IF dirty THEN shown ELSE work.latest
       IN \/ /\ work' = [work EXCEPT !.latest = p, !.unsaved = FALSE]
             /\ points' \in {points \cup {p}}
                            \cup (IF "manifest" \in Failures THEN {points} ELSE {})
             /\ warned' = (warned /\ ~dirty)
          \/ /\ dirty /\ Persist(p, FALSE)
             /\ UNCHANGED <<points, warned>>
          \/ /\ "checkpoint" \in Failures
             /\ work' = [work EXCEPT !.latest = p, !.unsaved = dirty \/ @]
             /\ warned' = (warned /\ ~dirty)
             /\ UNCHANGED points
    /\ Cardinality(points') <= MaxPoints
    /\ UNCHANGED <<editing, gesture, dirty, bound, left, file>>

-----------------------------------------------------------------------------
(* The session turns to another project. *)

\* What the current database is left as; mark_clean_close() may fail.
Released == {[work EXCEPT !.clean = TRUE]}
            \cup (IF "close" \in Failures THEN {work} ELSE {})

\* The current database joins those left behind, of which rest remain.
LeaveBehind(rest) ==
    /\ IF Running THEN \E w \in Released : left' = rest \cup Recommended({w})
                  ELSE left' = rest
    /\ Cardinality(left') <= MaxLeft

\* newProject(), also at startup: the database is installed and only then gets
\* its first snapshot, is declared saved, and the project clean.  A dirty
\* project has been saved or given up (confirmDiscardChanges()).
NewProject(ok) ==
    /\ warned' = ~ok
    /\ LeaveBehind(left)
    /\ shown' = DefaultProject /\ history' = <<>> /\ cursor' = 0
    /\ bound' = None
    /\ \/ ok /\ work' = Working(DefaultProject, FALSE) /\ dirty' = FALSE
       \/ /\ ~ok /\ dirty' = dirty
          /\ \/ "append" \in Failures /\ work' = Working(Blank, FALSE)
             \/ "heartbeat" \in Failures /\ work' = Working(DefaultProject, TRUE)
    /\ UNCHANGED <<gesture, file, points>>

Start(ok) == ~Running /\ NewProject(ok)
New(ok) == Running /\ NewProject(ok)

\* The project after reconstructMediaState() and migrateCacheMetadataToProject().
Relinked(p) == IF "relink" \in meets.upkeep THEN Projects ELSE {p}
Completed(p) == IF "metadata" \in meets.upkeep THEN Projects ELSE {p}

\* The undo entry of an edit made while installing, if it changes anything.
Step(name, before, after) ==
    IF before = after THEN <<>>
    ELSE <<[name |-> name, key |-> NoKey, before |-> before, after |-> after]>>

\* Mutant of Installed: relinked media do not mark the project as changed.
InstalledUnmarked(p, media, full, unsaved, asDirty) ==
    /\ cursor' = Len(history')
    /\ shown' = full
    /\ work' = Working(full, unsaved \/ cursor' > 0)
    /\ dirty' = asDirty /\ warned' = FALSE

\* The upkeep edits from p to media and full are persisted like others.
Installed(p, media, full, unsaved, asDirty) ==
    /\ cursor' = Len(history')
    /\ shown' = full
    /\ work' = Working(full, unsaved \/ cursor' > 0)
    /\ dirty' = (asDirty \/ media # p) /\ warned' = FALSE

\* The last of them cannot be persisted, is rolled back and reported.
UpkeepRefused(p, media, full, unsaved, asDirty) ==
    /\ p # media \/ media # full
    /\ cursor' = Len(history') - 1
    /\ shown' = IF media # full THEN media ELSE p
    /\ \/ "append" \in Failures /\ work' = Working(shown', unsaved \/ cursor' > 0)
       \/ "heartbeat" \in Failures /\ work' = Working(full, TRUE)
    /\ dirty' = (asDirty \/ shown' # p) /\ warned' = TRUE

\* installProject() of p from an opened database; the caller overrides dirty.
Install(p, unsaved, path, asDirty) ==
    \E media \in Relinked(p) : \E full \in Completed(media) :
        /\ history' = Step("command", p, media) \o Step("batch", media, full)
        /\ \/ Installed(p, media, full, unsaved, asDirty)
           \/ UpkeepRefused(p, media, full, unsaved, asDirty)
        /\ bound' = path
        /\ UNCHANGED <<gesture, file, points>>

\* loadCheckpoint(): the checkpoint is copied to a new working database, which
\* stays behind if there is no snapshot in it.
LoadCheckpoint(p, path, asDirty) ==
    IF p = Blank
    THEN /\ left' = left \cup {Working(Blank, FALSE)}
         /\ Cardinality(left') <= MaxLeft
         /\ UNCHANGED <<editing, gesture, dirty, bound, work, file, points, warned>>
    ELSE LeaveBehind(left) /\ Install(p, FALSE, path, asDirty)

\* openProjectFile(), after confirmDiscardChanges().
Open(d) == Running /\ file[d] # None /\ LoadCheckpoint(file[d], d, FALSE)

\* restoreNamedRestorePoint(), after the user could keep the current project in
\* a restore point: the path stays bound.
LoadRestorePoint(p) == Running /\ LoadCheckpoint(p, bound, TRUE)

\* loadWorkingRecovery(), at startup or from the list of restore points:
\* opening marks the database as open, even if there is no snapshot in it.
Recover(w) ==
    /\ Running
    /\ IF w.latest = Blank
       THEN /\ left' = (left \ {w}) \cup {[w EXCEPT !.clean = FALSE]}
            /\ UNCHANGED <<editing, gesture, dirty, bound, work, file, points, warned>>
       ELSE /\ LeaveBehind(left \ {w})
            /\ Install(w.latest, w.unsaved, None, TRUE)

Gone ==
    /\ shown' = DefaultProject /\ history' = <<>> /\ cursor' = 0
    /\ gesture' = None /\ dirty' = FALSE /\ bound' = None /\ work' = None
    /\ warned' = FALSE
    /\ UNCHANGED <<file, points>>

\* The window is closed: a dirty project has been saved or given up, and the
\* destructor marks the database as closed cleanly.
Exit == Running /\ LeaveBehind(left) /\ Gone

\* The process dies.
Crash ==
    /\ Running
    /\ left' = left \cup {work}
    /\ Cardinality(left') <= MaxLeft
    /\ Gone

Edit(ok) ==
    \/ \E key \in Keys \cup {NoKey}, next \in Projects : Apply(key, next, ok)
    \/ \E next \in Projects : ApplyBatch(next, ok)
    \/ Undo(ok)
    \/ Redo(ok)

\* The steps after which another project is in the editor, or none.
Leave ==
    \/ \E ok \in BOOLEAN : New(ok)
    \/ \E d \in Paths : Open(d)
    \/ \E p \in points : LoadRestorePoint(p)
    \/ \E w \in left : Recover(w)
    \/ Exit

Turn ==
    \/ \E ok \in BOOLEAN : Edit(ok) \/ EndGesture(ok) \/ Autosave(ok) \/ Start(ok)
    \/ \E g \in Gestures : BeginGesture(g)
    \/ \E next \in Projects : UpdateGesture(next)
    \/ \E d \in Paths, ok \in BOOLEAN : Save(d, ok)
    \/ CreateRestorePoint
    \/ Leave
    \/ Crash

\* One handler runs; the circumstances stay.
Next == Turn /\ UNCHANGED meets

Spec == Init /\ [][Next]_vars

-----------------------------------------------------------------------------
(* Invariants. *)

TypeOK ==
    /\ shown \in Projects
    /\ history \in Seq(H!Entry) /\ Len(history) <= MaxHistory
    /\ cursor \in 0 .. Len(history)
    /\ gesture \in Gestures \cup {None}
    /\ dirty \in BOOLEAN
    /\ bound \in Paths \cup {None}
    /\ work \in WorkingDatabase \cup {None}
    /\ left \subseteq WorkingDatabase
    /\ file \in [Paths -> Snapshots \cup {None}]
    /\ points \subseteq Snapshots
    /\ warned \in BOOLEAN
    /\ meets \in Circumstances

\* Between gestures the journal ends with what the editor shows.
Journaled == Running /\ gesture = None => work.latest = shown

\* Every accepted edit is in the journal (docs/user-guide.md): recovery would
\* show exactly what the editor shows, through gestures, saves, restore points,
\* upkeep and refused edits, unless the user was told of a failed write and
\* nothing was written since.  (An undo or redo that fails to persist stays.)
CommittedShown == ~warned => Journaled

\* Between gestures, a project that is not marked as changed is in the file it
\* is bound to, or is a new one: neither the question asked on leaving a changed
\* project nor the next autosave is missed.
CleanMeansSaved ==
    Running /\ ~dirty /\ gesture = None =>
        IF bound = None THEN shown = DefaultProject /\ cursor = 0
                        ELSE file[bound] = shown

\* A working database that holds more than the last save belongs to a project
\* marked as changed.
UnsavedIsDirty == Running /\ work.unsaved => dirty

\* The undo history fits the project shown, after rollbacks and installs too.
HistoryFits == H!HistoryChain /\ H!StateAtCursor

-----------------------------------------------------------------------------
(* Action properties. *)

\* After the step, p can still be had from a file, a restore point, a recovery
\* candidate, or the editor.
Kept(p) ==
    \/ p = DefaultProject
    \/ \E w \in left : w.latest = p
    \/ \E d \in Paths : file[d] = p
    \/ p \in points
    \/ Running /\ shown = p

\* No project is lost without a question or a report: what a crash, or leaving a
\* project not marked as changed, takes away from the editor can be had again,
\* whatever fails.  (When the manifest fails, a checkpoint that nobody lists
\* counts as a save: then a save in a drag, or moved metadata, can be lost.)
LosesNothing ==
    ~warned /\ ("manifest" \in Failures => meets.drags = {} /\ "metadata" \notin meets.upkeep) =>
    \A p \in Projects :
        shown = p /\ gesture = None /\ ((~dirty /\ Leave) \/ Crash) => Kept(p)'
NoSilentLoss == [][LosesNothing]_vars

\* The project shown is p again, and of the undo entries the first n are applied.
BackTo(p, n) ==
    shown' = p /\ cursor' = n /\ \A i \in 1 .. n : history'[i] = history[i]

\* An edit that cannot be persisted is taken back (docs/architecture/overview.md:118),
\* and with it only its own undo entry.  If it had joined the latest entry, as the
\* edits of one parameter in the inspector do, that is more than the edit: the
\* project shown is the one before the whole entry (editor_controller.cpp:9952).
RollbackRestores ==
    [][/\ \A key \in Keys \cup {NoKey}, next \in Projects : Apply(key, next, FALSE) =>
             IF H!CanCoalesce(H!Applied, key)
             THEN BackTo(history[cursor].before, cursor - 1) ELSE BackTo(shown, cursor)
       /\ \A next \in Projects : ApplyBatch(next, FALSE) => BackTo(shown, cursor)]_vars

\* What fails half-way: an undo, a redo, the end of a drag or a new project that
\* is not persisted, an edit that is appended and then refused, or refused after
\* it joined an entry, an upkeep edit refused, and saving an unchanged project
\* under a path that stays bound to it.
Failed ==
    \/ Undo(FALSE) \/ Redo(FALSE) \/ EndGesture(FALSE) \/ Start(FALSE)
    \/ Edit(FALSE) /\ work' # work
    \/ \E key \in Keys, next \in Projects : Apply(key, next, FALSE) /\ H!CanCoalesce(H!Applied, key)
    \/ Leave /\ warned'
    \/ ~dirty /\ \E d \in Paths \ {bound} : Save(d, FALSE)

\* Editor, journal, file and the mark for changes stay in order in every other
\* step, the failing ones included: saves, restore points, relinking while
\* opening, recovery, closing.  (Saving in the middle of a drag and metadata
\* moved while opening do not keep that order, see CleanMeansSaved.)
InOrder == Journaled /\ CleanMeansSaved /\ UnsavedIsDirty
StaysInOrder ==
    [][meets.drags = {} /\ "metadata" \notin meets.upkeep =>
          (InOrder => InOrder' \/ Failed)]_vars

=============================================================================
