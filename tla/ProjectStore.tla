---------------------------- MODULE ProjectStore ----------------------------
(***************************************************************************)
(* store::ProjectStore (src/src/project_store/src/project_store.cpp): one  *)
(* working database with its command journal, the files written from it    *)
(* (checkpoints and the backup made before a migration), and the processes *)
(* that have it open.                                                      *)
(*                                                                         *)
(* The database is SQLite in WAL mode with synchronous=FULL: a transaction *)
(* is one step, is durable once committed, and is rolled back by a crash.  *)
(* Checkpoints and backups are written step by step: a snapshot into a     *)
(* temporary sibling, fsync, rename over the destination, fsync of the     *)
(* directory.  What is not synced may be gone, or torn, after power loss.  *)
(*                                                                         *)
(* Left out: heartbeats (they only order the catalog), the project UUID,   *)
(* integrity checks of damaged databases, and the heading of a record.     *)
(***************************************************************************)
EXTENDS Integers, Sequences

CONSTANTS
    Processes,     \* application processes that may open the database
    Destinations,  \* paths checkpoints are written to
    Backup,        \* the path <working database>.pre-migration-v1.bak
    Payloads,      \* payloads of journal entries
    None,          \* no such file
    Torn,          \* a file whose data did not survive power loss
    MaxRevision    \* kMaximumSqliteRevision (2^63 - 1 in the code)

ASSUME BackupAssumption == Backup \notin Destinations
ASSUME MaxRevisionAssumption == MaxRevision \in Nat

Files == Destinations \cup {Backup}

CurrentVersion == 2  \* kCurrentProjectSchemaVersion

\* The rows of a database file: user_version, project_metadata, command_journal.
Database == [version : 0 .. CurrentVersion, head : 0 .. MaxRevision,
             saved : 0 .. MaxRevision, clean : BOOLEAN, journal : Seq(Payloads)]

\* An empty SQLite file, before kSchemaV1.
EmptyDatabase == [version |-> 0, head |-> 0, saved |-> 0, clean |-> TRUE,
                  journal |-> <<>>]

\* A temporary file being written: its content, and whether it is synced.
Temporary == [content : Database, synced : BOOLEAN]

ASSUME NoneAssumption == None \notin Database \cup Temporary
ASSUME TornAssumption == Torn \notin Database \cup {None}

VARIABLES
    db,       \* the committed content of the working database
    origin,   \* history: its content before this build first opened it
    fresh,    \* TRUE until the process that named the working file opens it
    pc,       \* per process, the next step of the call it is in
    version,  \* per process, the schema version run_migrations() has reached
    seen,     \* per process, the head revision its caller last read
    offered,  \* per process, TRUE after its scan recommended the database
    target,   \* per process, the destination of the file it is writing
    temp,     \* per process, its temporary sibling: None or content and sync
    file,     \* per path, what a reader finds: content and whether it is synced
    disk,     \* per path, the contents it may have after a power loss
    declared  \* history: the last revision saved otherwise than by checkpoint_to()

locals == <<pc, version, seen, offered, target>>
files == <<temp, file, disk>>
vars == <<db, origin, fresh, pc, version, seen, offered, target,
          temp, file, disk, declared>>

Opening == {"migrate", "mark"}
Writing == {"copy", "sync", "rename", "syncdir"}  \* with target[p] = Backup: opening
Steps == {"closed", "open", "checkpoint", "record"} \cup Opening \cup Writing

\* inspect_recovery_candidate() and initialize() judge alike.
Recommended(d) == ~d.clean \/ d.head # d.saved

IsPrefixOf(s, t) == Len(s) <= Len(t) /\ \A i \in 1 .. Len(s) : s[i] = t[i]

\* A database of schema v1 with the journal j.
Older(j, saved, clean) ==
    [version |-> 1, head |-> Len(j), saved |-> saved, clean |-> clean, journal |-> j]

Journals == {<<>>} \cup {<<x>> : x \in Payloads}

\* The working files a process may have just named: an empty one, or a copy of
\* a v1 checkpoint.
NewFiles == {EmptyDatabase} \cup {Older(j, Len(j), TRUE) : j \in Journals}

\* Those that a process of an older release may have left behind.
OldFiles == {Older(j, 0, c) : j \in Journals, c \in BOOLEAN}

Init ==
    /\ fresh \in BOOLEAN
    /\ origin \in IF fresh THEN NewFiles ELSE OldFiles
    /\ origin.head <= MaxRevision
    /\ db = origin
    /\ pc = [p \in Processes |-> "closed"]
    /\ version = [p \in Processes |-> 0]
    /\ seen = [p \in Processes |-> 0]
    /\ offered = [p \in Processes |-> FALSE]
    /\ target = [p \in Processes |-> Backup]
    /\ temp = [p \in Processes |-> None]
    /\ file = [f \in Files |-> [content |-> None, synced |-> TRUE]]
    /\ disk = [f \in Files |-> {None}]
    /\ declared = origin.saved

-----------------------------------------------------------------------------
(* Opening the working database. *)

\* scan_recovery_directory() and inspect_recovery_candidate(): read-only, at
\* the start of a process.  Only established databases are valid candidates.
Scan(p) ==
    /\ pc[p] = "closed"
    /\ db.version > 0
    /\ offered' = [offered EXCEPT ![p] = Recommended(db)]
    /\ UNCHANGED <<db, origin, fresh, pc, version, seen, target, files, declared>>

\* Mutant of Open: established databases are migrated without a backup.
OpenWithoutBackup(p) ==
    /\ pc[p] = "closed"
    /\ IF fresh THEN fresh' = FALSE ELSE offered[p] /\ UNCHANGED fresh
    /\ version' = [version EXCEPT ![p] = db.version]
    /\ pc' = [pc EXCEPT ![p] = IF db.version = CurrentVersion THEN "mark" ELSE "migrate"]
    /\ target' = [target EXCEPT ![p] = Backup]
    /\ offered' = [offered EXCEPT ![p] = FALSE]
    /\ UNCHANGED <<db, origin, seen, files, declared>>

\* ProjectStore(): the version is read, and decides what initialize() does.
\* The file is opened by the process that just named it, or as a candidate.
Open(p) ==
    /\ pc[p] = "closed"
    /\ IF fresh THEN fresh' = FALSE ELSE offered[p] /\ UNCHANGED fresh
    /\ version' = [version EXCEPT ![p] = db.version]
    /\ pc' = [pc EXCEPT ![p] =
                 IF db.version = CurrentVersion THEN "mark"
                 ELSE IF db.version > 0 THEN "copy" ELSE "migrate"]
    /\ target' = [target EXCEPT ![p] = Backup]
    /\ offered' = [offered EXCEPT ![p] = FALSE]
    /\ UNCHANGED <<db, origin, seen, files, declared>>

\* One adjacent forward migration, with the version and its record, in one
\* exclusive transaction.  Its SQL fails on a database already migrated.
Migrate(p) ==
    /\ pc[p] = "migrate"
    /\ db.version = version[p]
    /\ db' = [db EXCEPT !.version = @ + 1]
    /\ version' = [version EXCEPT ![p] = @ + 1]
    /\ pc' = [pc EXCEPT ![p] = IF version'[p] < CurrentVersion THEN "migrate" ELSE "mark"]
    /\ UNCHANGED <<origin, fresh, seen, offered, target, files, declared>>

\* initialize() notes in recovery_status_ what Recommended(db) says, then
\* update_open_state() marks the database as open.
MarkOpen(p) ==
    /\ pc[p] = "mark"
    /\ db.version = CurrentVersion
    /\ db' = [db EXCEPT !.clean = FALSE]
    /\ seen' = [seen EXCEPT ![p] = db.head]
    /\ pc' = [pc EXCEPT ![p] = "open"]
    /\ UNCHANGED <<origin, fresh, version, offered, target, files, declared>>

-----------------------------------------------------------------------------
(* The calls on an open store. *)

\* metadata(): the caller reads the head revision it will pass as expected.
ReadHead(p) ==
    /\ pc[p] = "open"
    /\ seen' = [seen EXCEPT ![p] = db.head]
    /\ UNCHANGED <<db, origin, fresh, pc, version, offered, target, files, declared>>

\* Mutant of AppendCommand: the caller's revision replaces the later ones.
AppendCommandRewinds(p, x) ==
    /\ pc[p] = "open"
    /\ seen[p] < MaxRevision
    /\ db' = [db EXCEPT !.journal = Append(SubSeq(@, 1, seen[p]), x),
                        !.head = seen[p] + 1, !.clean = FALSE]
    /\ seen' = [seen EXCEPT ![p] = @ + 1]
    /\ UNCHANGED <<origin, fresh, pc, version, offered, target, files, declared>>

\* append_payload(): RevisionConflict unless the head is the expected one, and
\* an overflow error at the last revision.
AppendCommand(p, x) ==
    /\ pc[p] = "open"
    /\ seen[p] = db.head
    /\ db.head < MaxRevision
    /\ db' = [db EXCEPT !.journal = Append(@, x), !.head = @ + 1, !.clean = FALSE]
    /\ seen' = [seen EXCEPT ![p] = db.head + 1]
    /\ UNCHANGED <<origin, fresh, pc, version, offered, target, files, declared>>

\* mark_saved(): the caller declares the head saved (a new, empty project).
MarkSaved(p) ==
    /\ pc[p] = "open"
    /\ seen[p] = db.head
    /\ db' = [db EXCEPT !.saved = db.head]
    /\ declared' = db.head
    /\ UNCHANGED <<origin, fresh, locals, files>>

MarkCleanClose(p) ==
    /\ pc[p] = "open"
    /\ seen[p] = db.head
    /\ db' = [db EXCEPT !.clean = TRUE]
    /\ UNCHANGED <<origin, fresh, locals, files, declared>>

\* checkpoint_to() is called: the path checks have passed.
Checkpoint(p, d) ==
    /\ pc[p] = "open"
    /\ target' = [target EXCEPT ![p] = d]
    /\ pc' = [pc EXCEPT ![p] = "copy"]
    /\ UNCHANGED <<db, origin, fresh, version, seen, offered, files, declared>>

-----------------------------------------------------------------------------
(* Writing a backup or a checkpoint: the steps both share. *)

\* copy_database() in a read transaction.  A checkpoint must be of the expected
\* revision.
Copy(p) ==
    /\ pc[p] = "copy"
    /\ target[p] # Backup => seen[p] = db.head
    /\ temp' = [temp EXCEPT ![p] = [content |-> db, synced |-> FALSE]]
    /\ pc' = [pc EXCEPT ![p] = IF target[p] = Backup THEN "sync" ELSE "checkpoint"]
    /\ UNCHANGED <<db, origin, fresh, version, seen, offered, target,
                   file, disk, declared>>

\* mark_checkpoint_metadata() on the copy.
MarkCheckpoint(p) ==
    /\ pc[p] = "checkpoint"
    /\ temp[p].content.head = seen[p]
    /\ temp' = [temp EXCEPT ![p].content.saved = seen[p], ![p].content.clean = TRUE]
    /\ pc' = [pc EXCEPT ![p] = "sync"]
    /\ UNCHANGED <<db, origin, fresh, version, seen, offered, target,
                   file, disk, declared>>

\* Mutant of SyncFile: no fsync of the file.
SyncFileSkipped(p) ==
    /\ pc[p] = "sync"
    /\ pc' = [pc EXCEPT ![p] = "rename"]
    /\ UNCHANGED <<db, origin, fresh, version, seen, offered, target, files, declared>>

\* sync_file()
SyncFile(p) ==
    /\ pc[p] = "sync"
    /\ temp' = [temp EXCEPT ![p].synced = TRUE]
    /\ pc' = [pc EXCEPT ![p] = "rename"]
    /\ UNCHANGED <<db, origin, fresh, version, seen, offered, target,
                   file, disk, declared>>

\* What the data of a file amounts to once its name is durable.
Durable(f) == IF f.synced THEN f.content ELSE Torn

\* Mutant of Rename: no fsync of the directory before a checkpoint is recorded.
RenameAndRecord(p) ==
    /\ pc[p] = "rename"
    /\ file' = [file EXCEPT ![target[p]] = temp[p]]
    /\ disk' = [disk EXCEPT ![target[p]] = @ \cup {Durable(temp[p])}]
    /\ temp' = [temp EXCEPT ![p] = None]
    /\ pc' = [pc EXCEPT ![p] = IF target[p] = Backup THEN "syncdir" ELSE "record"]
    /\ UNCHANGED <<db, origin, fresh, version, seen, offered, target, declared>>

\* atomic_replace(): the rename, visible at once but not yet durable ...
Rename(p) ==
    /\ pc[p] = "rename"
    /\ file' = [file EXCEPT ![target[p]] = temp[p]]
    /\ disk' = [disk EXCEPT ![target[p]] = @ \cup {Durable(temp[p])}]
    /\ temp' = [temp EXCEPT ![p] = None]
    /\ pc' = [pc EXCEPT ![p] = "syncdir"]
    /\ UNCHANGED <<db, origin, fresh, version, seen, offered, target, declared>>

\* ... and sync_directory().
SyncDirectory(p) ==
    /\ pc[p] = "syncdir"
    /\ disk' = [disk EXCEPT ![target[p]] = {Durable(file[target[p]])}]
    /\ pc' = [pc EXCEPT ![p] = IF target[p] = Backup THEN "migrate" ELSE "record"]
    /\ UNCHANGED <<db, origin, fresh, version, seen, offered, target,
                   temp, file, declared>>

\* Mutant of Record: the saved revision is set, even back.
RecordAlways(p) ==
    /\ pc[p] = "record"
    /\ db.head >= seen[p]
    /\ db' = [db EXCEPT !.saved = seen[p]]
    /\ pc' = [pc EXCEPT ![p] = "open"]
    /\ UNCHANGED <<origin, fresh, version, seen, offered, target, files, declared>>

\* The last transaction of checkpoint_to(), on the working database.
Record(p) ==
    /\ pc[p] = "record"
    /\ db.head >= seen[p]
    /\ db' = [db EXCEPT !.saved = IF @ < seen[p] THEN seen[p] ELSE @]
    /\ pc' = [pc EXCEPT ![p] = "open"]
    /\ UNCHANGED <<origin, fresh, version, seen, offered, target, files, declared>>

-----------------------------------------------------------------------------
(* Failures. *)

\* An exception in the middle of a call: its temporary file is removed; the
\* store of a failed constructor is gone, that of a failed checkpoint is not.
Fail(p) ==
    /\ pc[p] \notin {"closed", "open"}
    /\ pc' = [pc EXCEPT ![p] =
                 IF pc[p] \in {"checkpoint", "record"}
                    \/ (pc[p] \in Writing /\ target[p] # Backup)
                 THEN "open" ELSE "closed"]
    /\ temp' = [temp EXCEPT ![p] = None]
    /\ UNCHANGED <<db, origin, fresh, version, seen, offered, target,
                   file, disk, declared>>

\* The process ends: it closes the store, or it is killed in whatever it does.
End(p) ==
    /\ pc[p] # "closed"
    /\ pc' = [pc EXCEPT ![p] = "closed"]
    /\ temp' = [temp EXCEPT ![p] = None]
    /\ UNCHANGED <<db, origin, fresh, version, seen, offered, target,
                   file, disk, declared>>

\* Power loss ends every process.  A rename that was not yet made durable is
\* kept or undone, and data that was not synced is torn.
PowerLoss ==
    /\ \E left \in [Files -> UNION {disk[f] : f \in Files}] :
          /\ \A f \in Files : left[f] \in disk[f]
          /\ file' = [f \in Files |-> [content |-> left[f], synced |-> TRUE]]
          /\ disk' = [f \in Files |-> {left[f]}]
    /\ pc' = [p \in Processes |-> "closed"]
    /\ temp' = [p \in Processes |-> None]
    /\ offered' = [p \in Processes |-> FALSE]
    /\ UNCHANGED <<db, origin, fresh, version, seen, target, declared>>

Step(p) ==
    \/ Scan(p) \/ Open(p) \/ Migrate(p) \/ MarkOpen(p)
    \/ ReadHead(p) \/ MarkSaved(p) \/ MarkCleanClose(p)
    \/ \E x \in Payloads : AppendCommand(p, x)
    \/ \E d \in Destinations : Checkpoint(p, d)
    \/ Copy(p) \/ MarkCheckpoint(p) \/ SyncFile(p) \/ Rename(p)
    \/ SyncDirectory(p) \/ Record(p)
    \/ Fail(p) \/ End(p)

Next == (\E p \in Processes : Step(p)) \/ PowerLoss

Spec == Init /\ [][Next]_vars

-----------------------------------------------------------------------------
(* Invariants. *)

TypeOK ==
    /\ db \in Database
    /\ origin \in Database
    /\ fresh \in BOOLEAN
    /\ pc \in [Processes -> Steps]
    /\ version \in [Processes -> 0 .. CurrentVersion]
    /\ seen \in [Processes -> 0 .. MaxRevision]
    /\ offered \in [Processes -> BOOLEAN]
    /\ target \in [Processes -> Files]
    /\ temp \in [Processes -> Temporary \cup {None}]
    /\ file \in [Files -> [content : Database \cup {None, Torn}, synced : BOOLEAN]]
    /\ disk \in [Files -> SUBSET (Database \cup {None, Torn})]
    /\ declared \in 0 .. MaxRevision

\* The journal has one entry per revision up to the head, and the saved
\* revision is one of them (what validate_journal_head() and read_metadata()
\* require of a database).
JournalMatchesHead ==
    /\ db.head = Len(db.journal)
    /\ db.saved <= db.head

\* A complete checkpoint: saved, clean, and with its whole journal.
Complete(d) == d.saved = d.head /\ d.clean /\ d.head = Len(d.journal)

\* Whoever opens a checkpoint, at any moment and after any crash, finds the
\* previous complete one or the new complete one, never a part of one or a
\* copy that still looks unsaved.
CheckpointsComplete ==
    \A d \in Destinations : \A c \in disk[d] \cup {file[d].content} :
        c # None => c # Torn /\ Complete(c)

\* A checkpoint is a state the journal went through: it holds the first edits
\* of the journal, in order, and none that the journal does not have.
CheckpointsFollowJournal ==
    \A d \in Destinations : \A c \in disk[d] \ {None, Torn} :
        IsPrefixOf(c.journal, db.journal)

\* No two processes have opened the database, at the same time or in turn.
Alone == \A p, q \in Processes : version[p] # 0 /\ version[q] # 0 => p = q

\* Every edit the database calls saved is in a checkpoint that survives power
\* loss, unless it was saved already or a caller declared it saved.  (A second
\* process may replace the file by an older checkpoint of its own.)
SavedIsDurable ==
    Alone /\ db.saved > declared =>
        \E d \in Destinations : \A c \in disk[d] :
            /\ c \notin {None, Torn}
            /\ IsPrefixOf(SubSeq(db.journal, 1, db.saved), c.journal)

\* A database from an older release is migrated only when a copy of what it
\* held before is safe on disk (run_migrations(): "Every migration of an
\* established project is preserved before any schema write").
BackupPrecedesMigration ==
    Alone /\ origin.version = 1 /\ db.version = CurrentVersion => disk[Backup] = {origin}

-----------------------------------------------------------------------------
(* Action properties. *)

\* Journal entries are never dropped, replaced or reordered.
JournalGrows == [][IsPrefixOf(db.journal, db'.journal)]_vars

\* The saved revision never goes back, whatever checkpoint finishes last.
SavedGrows == [][db'.saved >= db.saved]_vars

=============================================================================
