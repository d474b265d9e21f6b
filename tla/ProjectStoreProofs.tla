------------------------- MODULE ProjectStoreProofs -------------------------
(***************************************************************************)
(* What ProjectStore guarantees for any number of processes, checkpoint    *)
(* paths, payloads and revisions.                                          *)
(***************************************************************************)
EXTENDS ProjectStore, SequenceTheorems, TLAPS

-----------------------------------------------------------------------------
(* Prefixes of a journal. *)

\* A journal is a prefix of itself, and of what it grows to.
LEMMA PrefixReflexive ==
    ASSUME NEW S, NEW s \in Seq(S)
    PROVE  IsPrefixOf(s, s)
  BY LenProperties DEF IsPrefixOf

\* Appending to a journal keeps it as a prefix.
LEMMA PrefixAppend ==
    ASSUME NEW S, NEW s \in Seq(S), NEW t \in Seq(S), NEW x \in S, IsPrefixOf(s, t)
    PROVE  IsPrefixOf(s, Append(t, x))
<1>1. Len(s) \in Nat /\ Len(t) \in Nat
  BY LenProperties
<1>2. Len(Append(t, x)) = Len(t) + 1 /\ \A i \in 1 .. Len(t) : Append(t, x)[i] = t[i]
  BY AppendProperties
<1> QED
  BY <1>1, <1>2 DEF IsPrefixOf

-----------------------------------------------------------------------------
(* Types. *)

\* Whoever migrates the database, or writes the backup that comes before, has
\* not reached the current version; a backup is never marked as a checkpoint.
Upgrading ==
    \A p \in Processes :
        /\ pc[p] = "migrate" \/ (pc[p] \in Writing /\ target[p] = Backup)
           => version[p] < CurrentVersion
        /\ pc[p] = "checkpoint" => target[p] # Backup

\* The working files a project starts from are databases.
LEMMA OriginFacts ==
    ASSUME Init
    PROVE  /\ origin \in Database
           /\ origin.head = Len(origin.journal)
           /\ origin.saved <= origin.head
<1>1. ASSUME NEW j \in Journals
      PROVE  j \in Seq(Payloads) /\ Len(j) \in Nat
  <2>1. <<>> \in Seq(Payloads) /\ \A x \in Payloads : <<x>> \in Seq(Payloads)
    OBVIOUS
  <2>2. j \in Seq(Payloads)
    BY <2>1 DEF Journals
  <2> QED
    BY <2>2, LenProperties
<1>2. CASE fresh /\ origin = EmptyDatabase
  BY <1>2, MaxRevisionAssumption DEF EmptyDatabase, Database, CurrentVersion
<1>3. CASE \E j \in Journals, c \in BOOLEAN : \E s \in {0, Len(j)} : origin = Older(j, s, c)
  <2>1. PICK j \in Journals, c \in BOOLEAN : \E s \in {0, Len(j)} : origin = Older(j, s, c)
    BY <1>3
  <2>2. Len(j) <= MaxRevision
    BY <2>1 DEF Init, Older
  <2> QED
    BY <1>1, <2>1, <2>2, MaxRevisionAssumption DEF Older, Database, CurrentVersion
<1>4. (fresh /\ origin \in NewFiles) \/ (~fresh /\ origin \in OldFiles)
  BY DEF Init
<1>5. CASE fresh /\ origin # EmptyDatabase
  <2>1. PICK j \in Journals : origin = Older(j, Len(j), TRUE)
    BY <1>4, <1>5 DEF NewFiles
  <2> QED
    BY <2>1, <1>3
<1>6. CASE ~fresh
  <2>1. PICK j \in Journals, c \in BOOLEAN : origin = Older(j, 0, c)
    BY <1>4, <1>6 DEF OldFiles
  <2> QED
    BY <2>1, <1>3
<1> QED
  BY <1>2, <1>5, <1>6

\* What an update of the database's rows leaves a database.
LEMMA DatabaseFacts ==
    ASSUME TypeOK
    PROVE  /\ db.version \in 0 .. CurrentVersion
           /\ db.head \in 0 .. MaxRevision /\ db.saved \in 0 .. MaxRevision
           /\ db.journal \in Seq(Payloads)
           /\ Recommended(db) \in BOOLEAN
           /\ \A v \in 0 .. CurrentVersion : [db EXCEPT !.version = v] \in Database
           /\ \A s \in 0 .. MaxRevision : [db EXCEPT !.saved = s] \in Database
           /\ \A c \in BOOLEAN : [db EXCEPT !.clean = c] \in Database
  BY DEF TypeOK, Database, Recommended

\* The temporary file of a process, once there is one.
LEMMA TemporaryFacts ==
    ASSUME TypeOK, NEW p \in Processes, temp[p] # None
    PROVE  /\ temp[p] \in Temporary
           /\ temp[p] = [content |-> temp[p].content, synced |-> temp[p].synced]
           /\ temp[p].content \in Database
           /\ temp[p].synced \in BOOLEAN
  BY DEF TypeOK, Temporary

\* A process that is to mark, sync or rename its temporary file has one.
Prepared ==
    \A p \in Processes : pc[p] \in {"checkpoint", "sync", "rename"} => temp[p] # None

Typed == TypeOK /\ Upgrading /\ Prepared

\* The initial states are typed.
LEMMA InitTypes == Init => Typed
<1> SUFFICES ASSUME Init PROVE Typed
  OBVIOUS
<1>1. origin \in Database
  BY OriginFacts
<1>2. origin.saved \in 0 .. MaxRevision
  BY <1>1 DEF Database
<1>3. TypeOK
  BY <1>1, <1>2, MaxRevisionAssumption
     DEF Init, TypeOK, Steps, Files, CurrentVersion
<1>4. Upgrading /\ Prepared
  BY DEF Init, Upgrading, Prepared, Writing
<1> QED
  BY <1>3, <1>4 DEF Typed

\* Every step keeps the types.
LEMMA NextTypes == Typed /\ [Next]_vars => Typed'
<1> SUFFICES ASSUME Typed, [Next]_vars
             PROVE  Typed'
  OBVIOUS
<1>0. TypeOK /\ Upgrading /\ Prepared
  BY DEF Typed
<1> USE DEF locals, files, Typed
<1>1. ASSUME NEW p \in Processes, Scan(p)
      PROVE  Typed'
  BY <1>0, <1>1, DatabaseFacts DEF Scan, TypeOK, Upgrading, Prepared, Steps, Opening,
     Writing
<1>2. ASSUME NEW p \in Processes, Open(p)
      PROVE  Typed'
  <2>1. db.version \in 0 .. CurrentVersion
    BY <1>0, DatabaseFacts
  <2>2. TypeOK'
    BY <1>0, <1>2, <2>1 DEF Open, Files, TypeOK, Steps, Opening, Writing
  <2>3. Upgrading'
    <3> SUFFICES ASSUME NEW q \in Processes
                 PROVE  (/\ pc[q] = "migrate" \/ (pc[q] \in Writing /\ target[q] = Backup)
                            => version[q] < CurrentVersion
                         /\ pc[q] = "checkpoint" => target[q] # Backup)'
      BY DEF Upgrading
    <3>1. CASE q = p
      BY <1>0, <1>2, <2>1, <3>1 DEF Open, CurrentVersion, TypeOK, Writing
    <3>2. CASE q # p
      BY <1>0, <1>2, <3>2 DEF Open, TypeOK, Upgrading
    <3> QED
      BY <3>1, <3>2
  <2>4. Prepared'
    BY <1>0, <1>2 DEF Open, TypeOK, Prepared
  <2> QED
    BY <2>2, <2>3, <2>4
<1>3. ASSUME NEW p \in Processes, Migrate(p)
      PROVE  Typed'
  <2>1. version[p] + 1 \in 0 .. CurrentVersion
    BY <1>0, <1>3 DEF Migrate, TypeOK, Upgrading, CurrentVersion
  <2>2. db' \in Database
    BY <1>0, <1>3, <2>1, DatabaseFacts DEF Migrate
  <2> QED
    BY <1>0, <1>3, <2>1, <2>2 DEF Migrate, TypeOK, Upgrading, Prepared, Steps, Opening,
       Writing
<1>4. ASSUME NEW p \in Processes, MarkOpen(p)
      PROVE  Typed'
  BY <1>0, <1>4, DatabaseFacts DEF MarkOpen, TypeOK, Upgrading, Prepared, Steps, Opening,
     Writing
<1>5. ASSUME NEW p \in Processes, ReadHead(p)
      PROVE  Typed'
  BY <1>0, <1>5, DatabaseFacts DEF ReadHead, TypeOK, Upgrading, Prepared, Steps, Opening,
     Writing
<1>6. ASSUME NEW p \in Processes, NEW x \in Payloads, AppendCommand(p, x)
      PROVE  Typed'
  <2>1. Append(db.journal, x) \in Seq(Payloads)
    BY <1>0, DatabaseFacts, AppendProperties
  <2>2. db.head + 1 \in 0 .. MaxRevision
    BY <1>0, <1>6, DatabaseFacts, MaxRevisionAssumption DEF AppendCommand
  <2>3. db' = [db EXCEPT !.journal = Append(db.journal, x), !.head = db.head + 1, !.clean = FALSE]
    BY <1>6 DEF AppendCommand
  <2>4. db' \in Database
    BY <1>0, <2>1, <2>2, <2>3 DEF TypeOK, Database
  <2> QED
    BY <1>0, <1>6, <2>2, <2>4, DatabaseFacts DEF AppendCommand, TypeOK, Upgrading,
       Prepared, Steps, Opening, Writing
<1>7. ASSUME NEW p \in Processes, MarkSaved(p)
      PROVE  Typed'
  BY <1>0, <1>7, DatabaseFacts DEF MarkSaved, TypeOK, Upgrading, Prepared, Steps, Opening,
     Writing
<1>8. ASSUME NEW p \in Processes, MarkCleanClose(p)
      PROVE  Typed'
  BY <1>0, <1>8, DatabaseFacts DEF MarkCleanClose, TypeOK, Upgrading, Prepared, Steps,
     Opening, Writing
<1>9. ASSUME NEW p \in Processes, NEW d \in Destinations, Checkpoint(p, d)
      PROVE  Typed'
  <2>1. d \in Files /\ d # Backup
    BY BackupAssumption DEF Files
  <2> QED
    BY <1>0, <1>9, <2>1 DEF Checkpoint, TypeOK, Upgrading, Prepared, Steps, Opening, Writing
<1>10. ASSUME NEW p \in Processes, Copy(p)
      PROVE  Typed'
  <2>1. [content |-> db, synced |-> FALSE] \in Temporary
    BY <1>0 DEF TypeOK, Temporary
  <2> QED
    BY <1>0, <1>10, <2>1, NoneAssumption DEF Copy, TypeOK, Upgrading, Prepared, Steps,
       Opening, Writing
<1>11. ASSUME NEW p \in Processes, MarkCheckpoint(p)
      PROVE  Typed'
  <2>1. temp[p] # None
    BY <1>0, <1>11 DEF MarkCheckpoint, Prepared
  <2>2. temp' = [temp EXCEPT ![p] =
            [temp[p] EXCEPT !.content = [@ EXCEPT !.saved = seen[p], !.clean = TRUE]]]
    BY <1>0, <1>11, <2>1, TemporaryFacts DEF MarkCheckpoint, TypeOK
  <2>3. [temp[p].content EXCEPT !.saved = seen[p], !.clean = TRUE] \in Database
    BY <1>0, <2>1, TemporaryFacts DEF TypeOK, Database
  <2>4. temp'[p] \in Temporary /\ \A q \in Processes \ {p} : temp'[q] = temp[q]
    BY <1>0, <2>1, <2>2, <2>3, TemporaryFacts DEF TypeOK, Temporary
  <2>5. temp' \in [Processes -> Temporary \cup {None}]
    BY <1>0, <2>2, <2>4 DEF TypeOK
  <2>6. TypeOK'
    BY <1>0, <1>11, <2>5 DEF MarkCheckpoint, TypeOK, Steps, Writing
  <2>7. Upgrading'
    BY <1>0, <1>11 DEF MarkCheckpoint, TypeOK, Upgrading, Writing
  <2>8. Prepared'
    BY <1>0, <1>11, <2>4, NoneAssumption DEF MarkCheckpoint, TypeOK, Prepared
  <2> QED
    BY <2>6, <2>7, <2>8
<1>12. ASSUME NEW p \in Processes, SyncFile(p)
      PROVE  Typed'
  <2>1. temp[p] # None
    BY <1>0, <1>12 DEF SyncFile, Prepared
  <2>2. temp'[p] \in Temporary /\ \A q \in Processes \ {p} : temp'[q] = temp[q]
    BY <1>0, <1>12, <2>1, TemporaryFacts DEF SyncFile, TypeOK, Temporary
  <2>3. temp' \in [Processes -> Temporary \cup {None}]
    BY <1>0, <1>12, <2>2 DEF SyncFile, TypeOK
  <2> QED
    BY <1>0, <1>12, <2>2, <2>3, NoneAssumption DEF SyncFile, TypeOK, Upgrading, Prepared,
       Steps, Opening, Writing
<1>13. ASSUME NEW p \in Processes, Rename(p)
      PROVE  Typed'
  <2>1. temp[p] # None
    BY <1>0, <1>13 DEF Rename, Prepared
  <2>2. /\ temp[p] \in [content : Database \cup {None, Torn}, synced : BOOLEAN]
        /\ Durable(temp[p]) \in Database \cup {None, Torn}
    BY <1>0, <2>1, TemporaryFacts DEF Durable, Temporary
  <2>3. file' \in [Files -> [content : Database \cup {None, Torn}, synced : BOOLEAN]]
    BY <1>0, <1>13, <2>2 DEF Rename, TypeOK
  <2>4. disk' \in [Files -> SUBSET (Database \cup {None, Torn})]
    BY <1>0, <1>13, <2>2 DEF Rename, TypeOK
  <2> QED
    BY <1>0, <1>13, <2>3, <2>4 DEF Rename, TypeOK, Upgrading, Prepared, Steps, Opening,
       Writing
<1>14. ASSUME NEW p \in Processes, SyncDirectory(p)
      PROVE  Typed'
  <2>1. Durable(file[target[p]]) \in Database \cup {None, Torn}
    BY <1>0 DEF Durable, TypeOK
  <2>2. disk' \in [Files -> SUBSET (Database \cup {None, Torn})]
    BY <1>0, <1>14, <2>1 DEF SyncDirectory, TypeOK
  <2> QED
    BY <1>0, <1>14, <2>2 DEF SyncDirectory, TypeOK, Upgrading, Prepared, Steps, Opening,
       Writing
<1>15. ASSUME NEW p \in Processes, Record(p)
      PROVE  Typed'
  BY <1>0, <1>15, DatabaseFacts DEF Record, TypeOK, Upgrading, Prepared, Steps, Opening,
     Writing
<1>16. ASSUME NEW p \in Processes, Fail(p)
      PROVE  Typed'
  BY <1>0, <1>16, DatabaseFacts DEF Fail, TypeOK, Upgrading, Prepared, Steps, Opening,
     Writing
<1>17. ASSUME NEW p \in Processes, End(p)
      PROVE  Typed'
  BY <1>0, <1>17, DatabaseFacts DEF End, TypeOK, Upgrading, Prepared, Steps, Opening,
     Writing
<1>18. CASE PowerLoss
  BY <1>0, <1>18 DEF PowerLoss, TypeOK, Upgrading, Prepared, Steps, Opening, Writing
<1>19. CASE UNCHANGED vars
  BY <1>0, <1>19 DEF vars, TypeOK, Upgrading, Prepared, Steps, Opening, Writing
<1> QED
  BY <1>1, <1>2, <1>3, <1>4, <1>5, <1>6, <1>7, <1>8, <1>9, <1>10, <1>11, <1>12, <1>13,
     <1>14, <1>15, <1>16, <1>17, <1>18, <1>19 DEF Next, Step

-----------------------------------------------------------------------------
(* The inductive invariant. *)

\* What is copied is a state of the journal, with the head that goes with it.
Traced ==
    \A p \in Processes : temp[p] # None =>
        /\ IsPrefixOf(temp[p].content.journal, db.journal)
        /\ temp[p].content.head = Len(temp[p].content.journal)

\* A checkpoint is marked before it is synced.
Marked ==
    \A p \in Processes : pc[p] \in {"sync", "rename"} /\ target[p] # Backup =>
        temp[p].content.saved = temp[p].content.head /\ temp[p].content.clean

\* A file is synced before it gets its name.
Synced ==
    /\ \A p \in Processes : pc[p] = "rename" => temp[p].synced
    /\ \A f \in Files : file[f].synced

\* No file, or a complete checkpoint of a state of the journal.
Sound(c) == c # None =>
    c \in Database /\ Complete(c) /\ IsPrefixOf(c.journal, db.journal)

Checkpointed == \A d \in Destinations : \A c \in disk[d] \cup {file[d].content} : Sound(c)

IInv == Typed /\ JournalMatchesHead /\ Traced /\ Marked /\ Synced /\ Checkpointed

\* What a step does to the journal and the saved revision.
JournalStep ==
    /\ db'.journal = db.journal \/ \E x \in Payloads : db'.journal = Append(db.journal, x)
    /\ db'.saved >= db.saved

\* Every step keeps the journal and its head together.
LEMMA NextJournal ==
    ASSUME Typed, JournalMatchesHead, [Next]_vars
    PROVE  JournalMatchesHead' /\ JournalStep
<1> USE DEF locals, files
<1>0. /\ db.head \in Nat /\ db.saved \in Nat /\ db.journal \in Seq(Payloads)
      /\ db \in Database /\ seen \in [Processes -> Nat]
      /\ db.head = Len(db.journal) /\ db.saved <= db.head
  BY MaxRevisionAssumption DEF Typed, TypeOK, Database, JournalMatchesHead
<1>1. ASSUME NEW p \in Processes, Scan(p)
      PROVE  JournalMatchesHead' /\ JournalStep
  BY <1>0, <1>1 DEF Scan, JournalMatchesHead, JournalStep
<1>2. ASSUME NEW p \in Processes, Open(p)
      PROVE  JournalMatchesHead' /\ JournalStep
  BY <1>0, <1>2 DEF Open, JournalMatchesHead, JournalStep
<1>3. ASSUME NEW p \in Processes, Migrate(p)
      PROVE  JournalMatchesHead' /\ JournalStep
  BY <1>0, <1>3 DEF Migrate, JournalMatchesHead, JournalStep, Database
<1>4. ASSUME NEW p \in Processes, MarkOpen(p)
      PROVE  JournalMatchesHead' /\ JournalStep
  BY <1>0, <1>4 DEF MarkOpen, JournalMatchesHead, JournalStep, Database
<1>5. ASSUME NEW p \in Processes, ReadHead(p)
      PROVE  JournalMatchesHead' /\ JournalStep
  BY <1>0, <1>5 DEF ReadHead, JournalMatchesHead, JournalStep
<1>6. ASSUME NEW p \in Processes, NEW x \in Payloads, AppendCommand(p, x)
      PROVE  JournalMatchesHead' /\ JournalStep
  <2>1. Len(Append(db.journal, x)) = Len(db.journal) + 1
    BY <1>0, AppendProperties
  <2>2. /\ db'.journal = Append(db.journal, x) /\ db'.head = db.head + 1
        /\ db'.saved = db.saved
    BY <1>0, <1>6 DEF AppendCommand, Database
  <2> QED
    BY <1>0, <2>1, <2>2 DEF JournalMatchesHead, JournalStep
<1>7. ASSUME NEW p \in Processes, MarkSaved(p)
      PROVE  JournalMatchesHead' /\ JournalStep
  BY <1>0, <1>7 DEF MarkSaved, JournalMatchesHead, JournalStep, Database
<1>8. ASSUME NEW p \in Processes, MarkCleanClose(p)
      PROVE  JournalMatchesHead' /\ JournalStep
  BY <1>0, <1>8 DEF MarkCleanClose, JournalMatchesHead, JournalStep, Database
<1>9. ASSUME NEW p \in Processes, NEW d \in Destinations, Checkpoint(p, d)
      PROVE  JournalMatchesHead' /\ JournalStep
  BY <1>0, <1>9 DEF Checkpoint, JournalMatchesHead, JournalStep
<1>10. ASSUME NEW p \in Processes, Copy(p)
      PROVE  JournalMatchesHead' /\ JournalStep
  BY <1>0, <1>10 DEF Copy, JournalMatchesHead, JournalStep
<1>11. ASSUME NEW p \in Processes, MarkCheckpoint(p)
      PROVE  JournalMatchesHead' /\ JournalStep
  BY <1>0, <1>11 DEF MarkCheckpoint, JournalMatchesHead, JournalStep
<1>12. ASSUME NEW p \in Processes, SyncFile(p)
      PROVE  JournalMatchesHead' /\ JournalStep
  BY <1>0, <1>12 DEF SyncFile, JournalMatchesHead, JournalStep
<1>13. ASSUME NEW p \in Processes, Rename(p)
      PROVE  JournalMatchesHead' /\ JournalStep
  BY <1>0, <1>13 DEF Rename, JournalMatchesHead, JournalStep
<1>14. ASSUME NEW p \in Processes, SyncDirectory(p)
      PROVE  JournalMatchesHead' /\ JournalStep
  BY <1>0, <1>14 DEF SyncDirectory, JournalMatchesHead, JournalStep
<1>15. ASSUME NEW p \in Processes, Record(p)
      PROVE  JournalMatchesHead' /\ JournalStep
  BY <1>0, <1>15 DEF Record, JournalMatchesHead, JournalStep, Database
<1>16. ASSUME NEW p \in Processes, Fail(p)
      PROVE  JournalMatchesHead' /\ JournalStep
  BY <1>0, <1>16 DEF Fail, JournalMatchesHead, JournalStep
<1>17. ASSUME NEW p \in Processes, End(p)
      PROVE  JournalMatchesHead' /\ JournalStep
  BY <1>0, <1>17 DEF End, JournalMatchesHead, JournalStep
<1>18. CASE PowerLoss
  BY <1>0, <1>18 DEF PowerLoss, JournalMatchesHead, JournalStep
<1>19. CASE UNCHANGED vars
  BY <1>0, <1>19 DEF vars, JournalMatchesHead, JournalStep
<1> QED
  BY <1>1, <1>2, <1>3, <1>4, <1>5, <1>6, <1>7, <1>8, <1>9, <1>10, <1>11, <1>12, <1>13,
     <1>14, <1>15, <1>16, <1>17, <1>18, <1>19 DEF Next, Step

\* What was a prefix of the journal stays one.
LEMMA PrefixStays ==
    ASSUME Typed, JournalMatchesHead, [Next]_vars,
           NEW s \in Seq(Payloads), IsPrefixOf(s, db.journal)
    PROVE  IsPrefixOf(s, db'.journal)
<1>1. db.journal \in Seq(Payloads)
  BY DEF Typed, TypeOK, Database
<1>2. CASE db'.journal = db.journal
  BY <1>2
<1>3. ASSUME NEW x \in Payloads, db'.journal = Append(db.journal, x)
      PROVE  IsPrefixOf(s, db'.journal)
  BY <1>1, <1>3, PrefixAppend
<1> QED
  BY <1>2, <1>3, NextJournal DEF JournalStep

\* Where the content of a temporary file comes from.
LEMMA TemporaryStep ==
    ASSUME Typed, [Next]_vars, NEW q \in Processes, temp'[q] # None
    PROVE  \/ /\ temp[q] # None
              /\ temp'[q].content.journal = temp[q].content.journal
              /\ temp'[q].content.head = temp[q].content.head
           \/ temp'[q].content = db /\ db' = db
<1> DEFINE Goal == \/ /\ temp[q] # None
                      /\ temp'[q].content.journal = temp[q].content.journal
                      /\ temp'[q].content.head = temp[q].content.head
                   \/ temp'[q].content = db /\ db' = db
<1> USE DEF locals, files
<1>0. temp \in [Processes -> Temporary \cup {None}]
  BY DEF Typed, TypeOK
<1>1. ASSUME NEW p \in Processes, Scan(p)
      PROVE  Goal
  BY <1>0, <1>1 DEF Scan
<1>2. ASSUME NEW p \in Processes, Open(p)
      PROVE  Goal
  BY <1>0, <1>2 DEF Open
<1>3. ASSUME NEW p \in Processes, Migrate(p)
      PROVE  Goal
  BY <1>0, <1>3 DEF Migrate
<1>4. ASSUME NEW p \in Processes, MarkOpen(p)
      PROVE  Goal
  BY <1>0, <1>4 DEF MarkOpen
<1>5. ASSUME NEW p \in Processes, ReadHead(p)
      PROVE  Goal
  BY <1>0, <1>5 DEF ReadHead
<1>6. ASSUME NEW p \in Processes, NEW x \in Payloads, AppendCommand(p, x)
      PROVE  Goal
  BY <1>0, <1>6 DEF AppendCommand
<1>7. ASSUME NEW p \in Processes, MarkSaved(p)
      PROVE  Goal
  BY <1>0, <1>7 DEF MarkSaved
<1>8. ASSUME NEW p \in Processes, MarkCleanClose(p)
      PROVE  Goal
  BY <1>0, <1>8 DEF MarkCleanClose
<1>9. ASSUME NEW p \in Processes, NEW d \in Destinations, Checkpoint(p, d)
      PROVE  Goal
  BY <1>0, <1>9 DEF Checkpoint
<1>10. ASSUME NEW p \in Processes, Copy(p)
      PROVE  Goal
  BY <1>0, <1>10 DEF Copy
<1>11. ASSUME NEW p \in Processes, MarkCheckpoint(p)
      PROVE  Goal
  <2>1. temp[p] # None
    BY <1>11 DEF MarkCheckpoint, Typed, Prepared
  <2> QED
    BY <1>0, <1>11, <2>1, TemporaryFacts DEF MarkCheckpoint, Typed, Temporary, Database
<1>12. ASSUME NEW p \in Processes, SyncFile(p)
      PROVE  Goal
  <2>1. temp[p] # None
    BY <1>12 DEF SyncFile, Typed, Prepared
  <2> QED
    BY <1>0, <1>12, <2>1, TemporaryFacts DEF SyncFile, Typed, Temporary, Database
<1>13. ASSUME NEW p \in Processes, Rename(p)
      PROVE  Goal
  BY <1>0, <1>13 DEF Rename
<1>14. ASSUME NEW p \in Processes, SyncDirectory(p)
      PROVE  Goal
  BY <1>0, <1>14 DEF SyncDirectory
<1>15. ASSUME NEW p \in Processes, Record(p)
      PROVE  Goal
  BY <1>0, <1>15 DEF Record
<1>16. ASSUME NEW p \in Processes, Fail(p)
      PROVE  Goal
  BY <1>0, <1>16 DEF Fail
<1>17. ASSUME NEW p \in Processes, End(p)
      PROVE  Goal
  BY <1>0, <1>17 DEF End
<1>18. CASE PowerLoss
  BY <1>0, <1>18 DEF PowerLoss
<1>19. CASE UNCHANGED vars
  BY <1>0, <1>19 DEF vars
<1> QED
  BY <1>1, <1>2, <1>3, <1>4, <1>5, <1>6, <1>7, <1>8, <1>9, <1>10, <1>11, <1>12, <1>13,
     <1>14, <1>15, <1>16, <1>17, <1>18, <1>19 DEF Next, Step

\* Every step keeps the contents of files traced to the journal.
LEMMA NextTraced ==
    ASSUME Typed, JournalMatchesHead, Traced, [Next]_vars
    PROVE  Traced'
<1> SUFFICES ASSUME NEW q \in Processes, temp'[q] # None
             PROVE  /\ IsPrefixOf(temp'[q].content.journal, db'.journal)
                    /\ temp'[q].content.head = Len(temp'[q].content.journal)
  BY DEF Traced
<1>0. TypeOK /\ db.journal \in Seq(Payloads)
  BY DEF Typed, TypeOK, Database
<1>1. CASE temp'[q].content = db /\ db' = db
  BY <1>0, <1>1, PrefixReflexive DEF JournalMatchesHead
<1>2. CASE /\ temp[q] # None
           /\ temp'[q].content.journal = temp[q].content.journal
           /\ temp'[q].content.head = temp[q].content.head
  <2>1. temp[q].content.journal \in Seq(Payloads)
    BY <1>0, <1>2, TemporaryFacts DEF Database
  <2> QED
    BY <1>2, <2>1, PrefixStays DEF Traced
<1> QED
  BY <1>1, <1>2, TemporaryStep

\* Every step keeps checkpoints marked and files synced.
LEMMA NextMarked ==
    ASSUME Typed, Marked, Synced, [Next]_vars
    PROVE  Marked' /\ Synced'
<1> USE DEF locals, files
<1>0. TypeOK /\ Prepared
  BY DEF Typed
<1>1. ASSUME NEW p \in Processes, Scan(p)
      PROVE  Marked' /\ Synced'
  BY <1>0, <1>1 DEF Scan, TypeOK, Opening, Writing, Marked, Synced
<1>2. ASSUME NEW p \in Processes, Open(p)
      PROVE  Marked' /\ Synced'
  BY <1>0, <1>2 DEF Open, TypeOK, Opening, Writing, Marked, Synced
<1>3. ASSUME NEW p \in Processes, Migrate(p)
      PROVE  Marked' /\ Synced'
  BY <1>0, <1>3 DEF Migrate, TypeOK, Opening, Writing, Marked, Synced
<1>4. ASSUME NEW p \in Processes, MarkOpen(p)
      PROVE  Marked' /\ Synced'
  BY <1>0, <1>4 DEF MarkOpen, TypeOK, Opening, Writing, Marked, Synced
<1>5. ASSUME NEW p \in Processes, ReadHead(p)
      PROVE  Marked' /\ Synced'
  BY <1>0, <1>5 DEF ReadHead, TypeOK, Opening, Writing, Marked, Synced
<1>6. ASSUME NEW p \in Processes, NEW x \in Payloads, AppendCommand(p, x)
      PROVE  Marked' /\ Synced'
  BY <1>0, <1>6 DEF AppendCommand, TypeOK, Opening, Writing, Marked, Synced
<1>7. ASSUME NEW p \in Processes, MarkSaved(p)
      PROVE  Marked' /\ Synced'
  BY <1>0, <1>7 DEF MarkSaved, TypeOK, Opening, Writing, Marked, Synced
<1>8. ASSUME NEW p \in Processes, MarkCleanClose(p)
      PROVE  Marked' /\ Synced'
  BY <1>0, <1>8 DEF MarkCleanClose, TypeOK, Opening, Writing, Marked, Synced
<1>9. ASSUME NEW p \in Processes, NEW d \in Destinations, Checkpoint(p, d)
      PROVE  Marked' /\ Synced'
  BY <1>0, <1>9 DEF Checkpoint, TypeOK, Opening, Writing, Marked, Synced
<1>10. ASSUME NEW p \in Processes, Copy(p)
      PROVE  Marked' /\ Synced'
  <2>1. /\ \A q \in Processes \ {p} : temp'[q] = temp[q] /\ pc'[q] = pc[q]
        /\ pc'[p] = (IF target[p] = Backup THEN "sync" ELSE "checkpoint")
        /\ UNCHANGED <<target, file>>
    BY <1>0, <1>10 DEF Copy, TypeOK
  <2> QED
    BY <2>1 DEF Marked, Synced
<1>11. ASSUME NEW p \in Processes, MarkCheckpoint(p)
      PROVE  Marked' /\ Synced'
  <2>1. temp[p] # None
    BY <1>0, <1>11 DEF MarkCheckpoint, Prepared
  <2>2. /\ temp'[p].content.saved = seen[p] /\ temp'[p].content.clean
        /\ temp'[p].content.head = seen[p]
    BY <1>0, <1>11, <2>1, TemporaryFacts DEF MarkCheckpoint, TypeOK, Temporary, Database
  <2>3. /\ \A q \in Processes \ {p} : temp'[q] = temp[q] /\ pc'[q] = pc[q]
        /\ pc'[p] = "sync"
        /\ UNCHANGED <<target, file>>
    BY <1>0, <1>11 DEF MarkCheckpoint, TypeOK
  <2> QED
    BY <2>2, <2>3 DEF Marked, Synced
<1>12. ASSUME NEW p \in Processes, SyncFile(p)
      PROVE  Marked' /\ Synced'
  <2>1. temp[p] # None
    BY <1>0, <1>12 DEF SyncFile, Prepared
  <2>2. /\ temp'[p].content = temp[p].content /\ temp'[p].synced
        /\ pc[p] = "sync" /\ pc'[p] = "rename"
    BY <1>0, <1>12, <2>1, TemporaryFacts DEF SyncFile, TypeOK, Temporary
  <2>3. /\ \A q \in Processes \ {p} : temp'[q] = temp[q] /\ pc'[q] = pc[q]
        /\ UNCHANGED <<target, file>>
    BY <1>0, <1>12 DEF SyncFile, TypeOK
  <2> QED
    BY <2>2, <2>3 DEF Marked, Synced
<1>13. ASSUME NEW p \in Processes, Rename(p)
      PROVE  Marked' /\ Synced'
  BY <1>0, <1>13 DEF Rename, TypeOK, Opening, Writing, Marked, Synced
<1>14. ASSUME NEW p \in Processes, SyncDirectory(p)
      PROVE  Marked' /\ Synced'
  BY <1>0, <1>14 DEF SyncDirectory, TypeOK, Opening, Writing, Marked, Synced
<1>15. ASSUME NEW p \in Processes, Record(p)
      PROVE  Marked' /\ Synced'
  BY <1>0, <1>15 DEF Record, TypeOK, Opening, Writing, Marked, Synced
<1>16. ASSUME NEW p \in Processes, Fail(p)
      PROVE  Marked' /\ Synced'
  BY <1>0, <1>16 DEF Fail, TypeOK, Opening, Writing, Marked, Synced
<1>17. ASSUME NEW p \in Processes, End(p)
      PROVE  Marked' /\ Synced'
  BY <1>0, <1>17 DEF End, TypeOK, Opening, Writing, Marked, Synced
<1>18. CASE PowerLoss
  BY <1>0, <1>18 DEF PowerLoss, TypeOK, Opening, Writing, Marked, Synced
<1>19. CASE UNCHANGED vars
  BY <1>0, <1>19 DEF vars, Marked, Synced
<1> QED
  BY <1>1, <1>2, <1>3, <1>4, <1>5, <1>6, <1>7, <1>8, <1>9, <1>10, <1>11, <1>12, <1>13,
     <1>14, <1>15, <1>16, <1>17, <1>18, <1>19 DEF Next, Step

\* What is sound stays sound.
LEMMA SoundStays ==
    ASSUME Typed, JournalMatchesHead, [Next]_vars, NEW c, Sound(c)
    PROVE  Sound(c)'
<1> SUFFICES ASSUME c # None PROVE Sound(c)'
  BY DEF Sound
<1>1. /\ c \in Database /\ c.journal \in Seq(Payloads)
      /\ Complete(c) /\ IsPrefixOf(c.journal, db.journal)
  BY DEF Sound, Database
<1>2. IsPrefixOf(c.journal, db'.journal)
  BY <1>1, PrefixStays
<1> QED
  BY <1>1, <1>2 DEF Sound

\* A process renames only sound checkpoints.
LEMMA RenamedIsSound ==
    ASSUME IInv, NEW p \in Processes, pc[p] = "rename", target[p] # Backup
    PROVE  Sound(temp[p].content) /\ Durable(temp[p]) = temp[p].content
<1>1. temp[p] # None /\ temp[p].content \in Database
  BY TemporaryFacts DEF IInv, Typed, Prepared
<1>2. /\ IsPrefixOf(temp[p].content.journal, db.journal)
      /\ temp[p].content.head = Len(temp[p].content.journal)
      /\ temp[p].content.saved = temp[p].content.head /\ temp[p].content.clean
  BY <1>1 DEF IInv, Traced, Marked
<1>3. temp[p].synced
  BY DEF IInv, Synced
<1> QED
  BY <1>1, <1>2, <1>3 DEF Sound, Complete, Durable

\* Every step keeps the destinations complete and behind the journal.
LEMMA NextCheckpointed ==
    ASSUME IInv, [Next]_vars
    PROVE  Checkpointed'
<1> SUFFICES ASSUME NEW d \in Destinations, NEW c \in disk'[d] \cup {file'[d].content}
             PROVE  Sound(c)'
  BY DEF Checkpointed
<1>0. /\ TypeOK /\ d \in Files /\ d # Backup
      /\ \A x \in disk[d] \cup {file[d].content} : Sound(x)
      /\ file[d].synced
  BY BackupAssumption DEF IInv, Typed, Checkpointed, Files, Synced
<1> SUFFICES Sound(c)
  BY SoundStays DEF IInv
<1> USE DEF locals, files
<1>1. ASSUME NEW p \in Processes, Scan(p)
      PROVE  Sound(c)
  BY <1>0, <1>1 DEF Scan
<1>2. ASSUME NEW p \in Processes, Open(p)
      PROVE  Sound(c)
  BY <1>0, <1>2 DEF Open
<1>3. ASSUME NEW p \in Processes, Migrate(p)
      PROVE  Sound(c)
  BY <1>0, <1>3 DEF Migrate
<1>4. ASSUME NEW p \in Processes, MarkOpen(p)
      PROVE  Sound(c)
  BY <1>0, <1>4 DEF MarkOpen
<1>5. ASSUME NEW p \in Processes, ReadHead(p)
      PROVE  Sound(c)
  BY <1>0, <1>5 DEF ReadHead
<1>6. ASSUME NEW p \in Processes, NEW x \in Payloads, AppendCommand(p, x)
      PROVE  Sound(c)
  BY <1>0, <1>6 DEF AppendCommand
<1>7. ASSUME NEW p \in Processes, MarkSaved(p)
      PROVE  Sound(c)
  BY <1>0, <1>7 DEF MarkSaved
<1>8. ASSUME NEW p \in Processes, MarkCleanClose(p)
      PROVE  Sound(c)
  BY <1>0, <1>8 DEF MarkCleanClose
<1>9. ASSUME NEW p \in Processes, NEW e \in Destinations, Checkpoint(p, e)
      PROVE  Sound(c)
  BY <1>0, <1>9 DEF Checkpoint
<1>10. ASSUME NEW p \in Processes, Copy(p)
      PROVE  Sound(c)
  BY <1>0, <1>10 DEF Copy
<1>11. ASSUME NEW p \in Processes, MarkCheckpoint(p)
      PROVE  Sound(c)
  BY <1>0, <1>11 DEF MarkCheckpoint
<1>12. ASSUME NEW p \in Processes, SyncFile(p)
      PROVE  Sound(c)
  BY <1>0, <1>12 DEF SyncFile
<1>13. ASSUME NEW p \in Processes, Rename(p)
      PROVE  Sound(c)
  <2>1. CASE target[p] = d
    <3>1. Sound(temp[p].content) /\ Durable(temp[p]) = temp[p].content
      BY <1>0, <1>13, <2>1, RenamedIsSound DEF Rename
    <3>2. file'[d] = temp[p] /\ disk'[d] = disk[d] \cup {Durable(temp[p])}
      BY <1>0, <1>13, <2>1 DEF Rename, TypeOK
    <3> QED
      BY <1>0, <3>1, <3>2
  <2>2. CASE target[p] # d
    BY <1>0, <1>13, <2>2 DEF Rename, TypeOK
  <2> QED
    BY <2>1, <2>2
<1>14. ASSUME NEW p \in Processes, SyncDirectory(p)
      PROVE  Sound(c)
  <2>1. CASE target[p] = d
    BY <1>0, <1>14, <2>1 DEF SyncDirectory, TypeOK, Durable
  <2>2. CASE target[p] # d
    BY <1>0, <1>14, <2>2 DEF SyncDirectory, TypeOK
  <2> QED
    BY <2>1, <2>2
<1>15. ASSUME NEW p \in Processes, Record(p)
      PROVE  Sound(c)
  BY <1>0, <1>15 DEF Record
<1>16. ASSUME NEW p \in Processes, Fail(p)
      PROVE  Sound(c)
  BY <1>0, <1>16 DEF Fail
<1>17. ASSUME NEW p \in Processes, End(p)
      PROVE  Sound(c)
  BY <1>0, <1>17 DEF End
<1>18. CASE PowerLoss
  BY <1>0, <1>18 DEF PowerLoss, TypeOK
<1>19. CASE UNCHANGED vars
  BY <1>0, <1>19 DEF vars
<1> QED
  BY <1>1, <1>2, <1>3, <1>4, <1>5, <1>6, <1>7, <1>8, <1>9, <1>10, <1>11, <1>12, <1>13,
     <1>14, <1>15, <1>16, <1>17, <1>18, <1>19 DEF Next, Step

-----------------------------------------------------------------------------
(* The theorems. *)

\* The initial states satisfy the invariant.
LEMMA InitIInv == Init => IInv
<1> SUFFICES ASSUME Init PROVE IInv
  OBVIOUS
<1>1. Typed
  BY InitTypes
<1>2. JournalMatchesHead
  BY OriginFacts DEF Init, JournalMatchesHead
<1>3. Traced /\ Marked
  BY DEF Init, Traced, Marked
<1>4. Synced /\ Checkpointed
  BY DEF Init, Synced, Checkpointed, Sound, Files
<1> QED
  BY <1>1, <1>2, <1>3, <1>4 DEF IInv

\* Every step preserves the invariant.
LEMMA NextIInv == IInv /\ [Next]_vars => IInv'
<1> SUFFICES ASSUME IInv, [Next]_vars PROVE IInv'
  OBVIOUS
<1>1. Typed' /\ JournalMatchesHead'
  BY NextTypes, NextJournal DEF IInv
<1>2. Traced' /\ Marked' /\ Synced'
  BY NextTraced, NextMarked DEF IInv
<1>3. Checkpointed'
  BY NextCheckpointed
<1> QED
  BY <1>1, <1>2, <1>3 DEF IInv

\* The inductive invariant holds in every reachable state, however many
\* processes use the database and wherever they crash.
THEOREM StoreInvariance == Spec => []IInv
  BY InitIInv, NextIInv, PTL DEF Spec

\* The variables always have their types.
THEOREM StoreTypes == Spec => []TypeOK
<1>1. IInv => TypeOK
  BY DEF IInv, Typed
<1> QED
  BY <1>1, StoreInvariance, PTL

\* The journal always has one entry per revision up to the head, and the saved
\* revision is one of them.
THEOREM JournalTheorem == Spec => []JournalMatchesHead
<1>1. IInv => JournalMatchesHead
  BY DEF IInv
<1> QED
  BY <1>1, StoreInvariance, PTL

\* Whoever opens a checkpoint, at any moment and after any power loss, finds a
\* complete one (checkpoint_to and atomic_replace).
THEOREM CheckpointTheorem == Spec => []CheckpointsComplete
<1>1. IInv => CheckpointsComplete
  BY TornAssumption DEF IInv, Checkpointed, Sound, CheckpointsComplete
<1> QED
  BY <1>1, StoreInvariance, PTL

\* Whatever a destination may hold after a power loss is a state that the
\* journal went through, with its first entries and no others.
THEOREM TracedTheorem == Spec => []CheckpointsFollowJournal
<1>1. IInv => CheckpointsFollowJournal
  BY DEF IInv, Checkpointed, Sound, CheckpointsFollowJournal
<1> QED
  BY <1>1, StoreInvariance, PTL

\* Journal entries are never dropped, replaced or reordered.
THEOREM JournalGrowth == Spec => JournalGrows
<1>1. ASSUME IInv, [Next]_vars PROVE IsPrefixOf(db.journal, db'.journal)
  <2>1. db.journal \in Seq(Payloads)
    BY <1>1 DEF IInv, Typed, TypeOK, Database
  <2>2. IsPrefixOf(db.journal, db.journal)
    BY <2>1, PrefixReflexive
  <2> QED
    BY <1>1, <2>1, <2>2, PrefixStays DEF IInv
<1> QED
  BY <1>1, StoreInvariance, PTL DEF Spec, JournalGrows

\* The saved revision never goes back, whatever checkpoint finishes last.
THEOREM SavedGrowth == Spec => SavedGrows
<1>1. ASSUME IInv, [Next]_vars PROVE db'.saved >= db.saved
  BY <1>1, NextJournal DEF IInv, JournalStep
<1> QED
  BY <1>1, StoreInvariance, PTL DEF Spec, SavedGrows

-----------------------------------------------------------------------------
(* What holds as long as one process uses the database. *)

\* The versions that processes have read, and what the database is until one of
\* them has opened it.
Opened ==
    /\ fresh => \A p \in Processes : pc[p] = "closed" /\ version[p] = 0
    /\ \A p \in Processes :
          /\ version[p] <= db.version
          /\ pc[p] # "closed" /\ version[p] = 0 => pc[p] = "migrate" /\ db.version = 0
          /\ pc[p] = "record" => target[p] # Backup
          /\ \/ pc[p] \in {"open", "checkpoint", "record"}
             \/ pc[p] \in Writing /\ target[p] # Backup
             => db.version = CurrentVersion
    /\ db.version = 0 =>
          \A p \in Processes :
             /\ ~offered[p]
             /\ \A q \in Processes : pc[p] # "closed" /\ pc[q] # "closed" => p = q
    /\ origin.version <= db.version
    /\ origin.version = 1 /\ db.version = 1 => db = origin

\* From the copy on, a backup is what the database was, and the migration waits
\* for it to be durable.
BackedUp ==
    /\ \A p \in Processes :
          /\ target[p] = Backup /\ pc[p] \in Writing => db.version = 1
          /\ target[p] = Backup /\ pc[p] \in {"sync", "rename"} => temp[p].content = origin
          /\ target[p] = Backup /\ pc[p] = "syncdir" =>
                file[Backup].content = origin
          /\ pc[p] = "migrate" => disk[Backup] = {origin}
    /\ db.version = CurrentVersion => disk[Backup] = {origin}

\* From the copy on, a checkpoint has the head of the database, which is recorded
\* as saved when no power loss takes the checkpoint away any more.
HasHead(c, head) == c # None /\ c.head >= head
Checkpointing ==
    /\ \A p \in Processes :
          /\ pc[p] \in {"checkpoint", "sync", "rename", "syncdir", "record"}
             /\ target[p] # Backup => seen[p] = db.head
          /\ pc[p] \in {"checkpoint", "sync", "rename"} /\ target[p] # Backup =>
                HasHead(temp[p].content, seen[p])
          /\ pc[p] = "syncdir" /\ target[p] # Backup =>
                HasHead(file[target[p]].content, seen[p])
          /\ pc[p] = "record" => \A c \in disk[target[p]] : HasHead(c, seen[p])
    /\ db.saved > declared =>
          \E d \in Destinations : \A c \in disk[d] : HasHead(c, db.saved)

AloneInv ==
    /\ Opened
    /\ Alone /\ origin.version = 1 => BackedUp
    /\ Alone => Checkpointing

\* Every step keeps the versions in order.
LEMMA NextOpened ==
    ASSUME Typed, Opened, [Next]_vars
    PROVE  Opened'
<1> USE DEF locals, files
<1>0. TypeOK /\ db.version \in 0 .. CurrentVersion /\ origin.version \in 0 .. CurrentVersion
  BY DEF Typed, TypeOK, Database
<1>1. ASSUME NEW p \in Processes, Scan(p)
      PROVE  Opened'
  BY <1>0, <1>1 DEF Scan, Opened, TypeOK, Opening, Writing, CurrentVersion, Database
<1>2. ASSUME NEW p \in Processes, Open(p)
      PROVE  Opened'
  BY <1>0, <1>2 DEF Open, Opened, TypeOK, Opening, Writing, CurrentVersion, Database
<1>3. ASSUME NEW p \in Processes, Migrate(p)
      PROVE  Opened'
  <2>1. pc[p] = "migrate" /\ db.version = version[p] /\ version[p] \in {0, 1}
    BY <1>0, <1>3 DEF Migrate, Typed, TypeOK, Upgrading, CurrentVersion
  <2>2. /\ version'[p] = version[p] + 1 /\ \A q \in Processes \ {p} : version'[q] = version[q]
        /\ pc'[p] \in {"migrate", "mark"} /\ \A q \in Processes \ {p} : pc'[q] = pc[q]
        /\ UNCHANGED <<origin, fresh, offered, target>>
    BY <1>0, <1>3 DEF Migrate, TypeOK
  <2>3. \A q \in Processes : version[q] \in Nat
    BY <1>0 DEF TypeOK
  <2>4. db'.version = db.version + 1
    BY <1>0, <1>3 DEF Migrate, TypeOK, Database
  <2>5. ~fresh /\ origin.version <= db.version
    BY <2>1 DEF Opened
  <2>6. ASSUME NEW q \in Processes
        PROVE  /\ version'[q] <= db'.version
               /\ pc'[q] # "closed" => version'[q] # 0
               /\ pc'[q] = "record" => target'[q] # Backup
               /\ ~(\/ pc'[q] \in {"open", "checkpoint", "record"}
                    \/ pc'[q] \in Writing /\ target'[q] # Backup)
    <3>1. CASE q = p
      BY <2>1, <2>2, <2>3, <2>4, <3>1 DEF Writing, Opened
    <3>2. CASE q # p
      <4>1. version'[q] = version[q] /\ pc'[q] = pc[q] /\ target'[q] = target[q]
        BY <2>2, <3>2
      <4>2. pc[q] # "closed" => version[q] # 0
        BY <2>1, <3>2 DEF Opened
      <4> QED
        BY <1>0, <2>1, <2>3, <2>4, <4>1, <4>2 DEF Opened, CurrentVersion
    <3> QED
      BY <3>1, <3>2
  <2>7. ~fresh' /\ db'.version # 0 /\ origin'.version <= db'.version
    BY <1>0, <2>2, <2>4, <2>5
  <2>8. origin'.version = 1 => db'.version # 1
    BY <1>0, <2>2, <2>4, <2>5
  <2> QED
    BY <2>6, <2>7, <2>8 DEF Opened
<1>4. ASSUME NEW p \in Processes, MarkOpen(p)
      PROVE  Opened'
  BY <1>0, <1>4 DEF MarkOpen, Opened, TypeOK, Opening, Writing, CurrentVersion, Database
<1>5. ASSUME NEW p \in Processes, ReadHead(p)
      PROVE  Opened'
  BY <1>0, <1>5 DEF ReadHead, Opened, TypeOK, Opening, Writing, CurrentVersion, Database
<1>6. ASSUME NEW p \in Processes, NEW x \in Payloads, AppendCommand(p, x)
      PROVE  Opened'
  BY <1>0, <1>6 DEF AppendCommand, Opened, TypeOK, Opening, Writing, CurrentVersion,
     Database
<1>7. ASSUME NEW p \in Processes, MarkSaved(p)
      PROVE  Opened'
  BY <1>0, <1>7 DEF MarkSaved, Opened, TypeOK, Opening, Writing, CurrentVersion, Database
<1>8. ASSUME NEW p \in Processes, MarkCleanClose(p)
      PROVE  Opened'
  BY <1>0, <1>8 DEF MarkCleanClose, Opened, TypeOK, Opening, Writing, CurrentVersion,
     Database
<1>9. ASSUME NEW p \in Processes, NEW d \in Destinations, Checkpoint(p, d)
      PROVE  Opened'
  BY <1>0, <1>9 DEF Checkpoint, Opened, TypeOK, Opening, Writing, CurrentVersion, Database
<1>10. ASSUME NEW p \in Processes, Copy(p)
      PROVE  Opened'
  BY <1>0, <1>10 DEF Copy, Opened, TypeOK, Opening, Writing, CurrentVersion, Database
<1>11. ASSUME NEW p \in Processes, MarkCheckpoint(p)
      PROVE  Opened'
  BY <1>0, <1>11 DEF MarkCheckpoint, Opened, TypeOK, Opening, Writing, CurrentVersion,
     Database
<1>12. ASSUME NEW p \in Processes, SyncFile(p)
      PROVE  Opened'
  BY <1>0, <1>12 DEF SyncFile, Opened, TypeOK, Opening, Writing, CurrentVersion, Database
<1>13. ASSUME NEW p \in Processes, Rename(p)
      PROVE  Opened'
  BY <1>0, <1>13 DEF Rename, Opened, TypeOK, Opening, Writing, CurrentVersion, Database
<1>14. ASSUME NEW p \in Processes, SyncDirectory(p)
      PROVE  Opened'
  BY <1>0, <1>14 DEF SyncDirectory, Opened, TypeOK, Opening, Writing, CurrentVersion,
     Database
<1>15. ASSUME NEW p \in Processes, Record(p)
      PROVE  Opened'
  BY <1>0, <1>15 DEF Record, Opened, TypeOK, Opening, Writing, CurrentVersion, Database
<1>16. ASSUME NEW p \in Processes, Fail(p)
      PROVE  Opened'
  BY <1>0, <1>16 DEF Fail, Opened, TypeOK, Opening, Writing, CurrentVersion, Database
<1>17. ASSUME NEW p \in Processes, End(p)
      PROVE  Opened'
  BY <1>0, <1>17 DEF End, Opened, TypeOK, Opening, Writing, CurrentVersion, Database
<1>18. CASE PowerLoss
  BY <1>0, <1>18 DEF PowerLoss, Opened, TypeOK, Opening, Writing, CurrentVersion, Database
<1>19. CASE UNCHANGED vars
  BY <1>0, <1>19 DEF vars, Opened, TypeOK, Opening, Writing, CurrentVersion, Database
<1> QED
  BY <1>1, <1>2, <1>3, <1>4, <1>5, <1>6, <1>7, <1>8, <1>9, <1>10, <1>11, <1>12, <1>13,
     <1>14, <1>15, <1>16, <1>17, <1>18, <1>19 DEF Next, Step

\* A process that has opened the database has opened it.
LEMMA StaysAlone ==
    ASSUME Typed, Opened, [Next]_vars, Alone'
    PROVE  Alone
<1> SUFFICES ASSUME NEW q \in Processes, version[q] # 0
             PROVE  version'[q] # 0
  BY DEF Alone
<1>0. /\ version \in [Processes -> 0 .. CurrentVersion] /\ db.version \in 0 .. CurrentVersion
      /\ version[q] <= db.version
  BY DEF Typed, TypeOK, Database, Opened
<1>1. ASSUME NEW p \in Processes, Open(p) PROVE version'[q] # 0
  BY <1>0, <1>1 DEF Open, CurrentVersion
<1>2. ASSUME NEW p \in Processes, Migrate(p) PROVE version'[q] # 0
  BY <1>0, <1>2 DEF Migrate, CurrentVersion
<1>3. CASE version' = version
  BY <1>3
<1>4. ASSUME NEW p \in Processes, Step(p), ~Open(p), ~Migrate(p) PROVE version' = version
  BY <1>4 DEF Step, Scan, MarkOpen, ReadHead, MarkSaved, MarkCleanClose, AppendCommand,
              Checkpoint, Copy, MarkCheckpoint, SyncFile, Rename, SyncDirectory, Record,
              Fail, End, locals
<1>5. PowerLoss \/ UNCHANGED vars => version' = version
  BY DEF PowerLoss, vars, locals
<1> QED
  BY <1>1, <1>2, <1>3, <1>4, <1>5 DEF Next

\* While one process is in a call on the database, the others are closed.
LEMMA OthersClosed ==
    ASSUME Typed, Opened, Alone, NEW p \in Processes, pc[p] # "closed",
           pc[p] # "migrate" \/ db.version # 0, NEW q \in Processes, q # p
    PROVE  pc[q] = "closed"
<1>1. version[p] # 0 /\ version[p] <= db.version /\ version[p] \in Nat /\ db.version \in Nat
  BY DEF Opened, Typed, TypeOK, Database, CurrentVersion
<1>2. version[q] = 0 /\ db.version # 0
  BY <1>1 DEF Alone
<1> QED
  BY <1>2 DEF Opened

\* What has the head of the database holds all that is saved.
LEMMA HeadGrows ==
    ASSUME JournalMatchesHead, Typed, NEW c \in Database, HasHead(c, db.head)
    PROVE  HasHead(c, db.saved)
  BY MaxRevisionAssumption DEF JournalMatchesHead, HasHead, Typed, TypeOK, Database

\* One process keeps the backup of what it migrates.
LEMMA NextBackedUp ==
    ASSUME IInv, Opened, Alone, origin.version = 1, BackedUp, [Next]_vars, Alone'
    PROVE  BackedUp'
<1> USE DEF locals, files
<1>0. /\ TypeOK /\ BackedUp /\ Opened /\ db.version \in {1, 2} /\ Backup \in Files
      /\ \A f \in Files : file[f].synced
  BY DEF IInv, Typed, TypeOK, Database, Opened, CurrentVersion, Files, Synced
<1>1. ASSUME NEW p \in Processes, Scan(p)
      PROVE  BackedUp'
  BY <1>0, <1>1, OthersClosed DEF Scan, BackedUp, TypeOK, Opened, Opening, Writing,
     CurrentVersion
<1>2. ASSUME NEW p \in Processes, Open(p)
      PROVE  BackedUp'
  BY <1>0, <1>2, OthersClosed DEF Open, BackedUp, TypeOK, Opened, Opening, Writing,
     CurrentVersion
<1>3. ASSUME NEW p \in Processes, Migrate(p)
      PROVE  BackedUp'
  <2>1. \A q \in Processes \ {p} : pc[q] = "closed"
    BY <1>0, <1>3, OthersClosed DEF Migrate, IInv
  <2>2. /\ db'.version = db.version + 1 /\ disk[Backup] = {origin} /\ pc[p] = "migrate"
        /\ pc'[p] \in {"migrate", "mark"} /\ \A q \in Processes \ {p} : pc'[q] = pc[q]
        /\ UNCHANGED <<origin, target, disk>>
    BY <1>0, <1>3 DEF Migrate, TypeOK, Database, BackedUp
  <2> QED
    BY <2>1, <2>2 DEF BackedUp, Writing
<1>4. ASSUME NEW p \in Processes, MarkOpen(p)
      PROVE  BackedUp'
  BY <1>0, <1>4, OthersClosed DEF MarkOpen, BackedUp, TypeOK, Opened, Opening, Writing,
     CurrentVersion
<1>5. ASSUME NEW p \in Processes, ReadHead(p)
      PROVE  BackedUp'
  BY <1>0, <1>5, OthersClosed DEF ReadHead, BackedUp, TypeOK, Opened, Opening, Writing,
     CurrentVersion
<1>6. ASSUME NEW p \in Processes, NEW x \in Payloads, AppendCommand(p, x)
      PROVE  BackedUp'
  BY <1>0, <1>6, OthersClosed DEF AppendCommand, BackedUp, TypeOK, Opened, Opening,
     Writing, CurrentVersion
<1>7. ASSUME NEW p \in Processes, MarkSaved(p)
      PROVE  BackedUp'
  BY <1>0, <1>7, OthersClosed DEF MarkSaved, BackedUp, TypeOK, Opened, Opening, Writing,
     CurrentVersion
<1>8. ASSUME NEW p \in Processes, MarkCleanClose(p)
      PROVE  BackedUp'
  BY <1>0, <1>8, OthersClosed DEF MarkCleanClose, BackedUp, TypeOK, Opened, Opening,
     Writing, CurrentVersion
<1>9. ASSUME NEW p \in Processes, NEW d \in Destinations, Checkpoint(p, d)
      PROVE  BackedUp'
  BY <1>0, <1>9, OthersClosed, BackupAssumption DEF Checkpoint, BackedUp, TypeOK, Opened,
     Writing, IInv
<1>10. ASSUME NEW p \in Processes, Copy(p)
      PROVE  BackedUp'
  BY <1>0, <1>10, OthersClosed DEF Copy, BackedUp, TypeOK, Opened, Opening, Writing,
     CurrentVersion
<1>11. ASSUME NEW p \in Processes, MarkCheckpoint(p)
      PROVE  BackedUp'
  <2>1. pc[p] = "checkpoint" /\ target[p] # Backup
    BY <1>0, <1>11 DEF MarkCheckpoint, IInv, Typed, Upgrading
  <2>2. /\ \A q \in Processes \ {p} : temp'[q] = temp[q] /\ pc'[q] = pc[q]
        /\ pc'[p] = "sync"
        /\ UNCHANGED <<db, origin, target, file, disk>>
    BY <1>0, <1>11 DEF MarkCheckpoint, TypeOK
  <2> QED
    BY <1>0, <2>1, <2>2 DEF BackedUp
<1>12. ASSUME NEW p \in Processes, SyncFile(p)
      PROVE  BackedUp'
  BY <1>0, <1>12, OthersClosed DEF SyncFile, BackedUp, TypeOK, Opened, Opening, Writing,
     CurrentVersion
<1>13. ASSUME NEW p \in Processes, Rename(p)
      PROVE  BackedUp'
  <2>1. \A q \in Processes \ {p} : pc[q] = "closed"
    BY <1>0, <1>13, OthersClosed DEF Rename, IInv
  <2>2. /\ \A q \in Processes \ {p} : pc'[q] = pc[q]
        /\ pc[p] = "rename" /\ pc'[p] = "syncdir"
        /\ UNCHANGED <<db, origin, target>>
    BY <1>0, <1>13 DEF Rename, TypeOK
  <2>3. CASE target[p] = Backup
    <3>1. temp[p].content = origin /\ db.version = 1 /\ file'[Backup].content = origin
      BY <1>0, <1>13, <2>3 DEF Rename, BackedUp, TypeOK, Writing
    <3> QED
      BY <1>0, <2>1, <2>2, <2>3, <3>1 DEF BackedUp, CurrentVersion
  <2>4. CASE target[p] # Backup
    <3>1. disk'[Backup] = disk[Backup] /\ file'[Backup] = file[Backup]
      BY <1>0, <1>13, <2>4 DEF Rename, TypeOK
    <3> QED
      BY <1>0, <2>1, <2>2, <2>4, <3>1 DEF BackedUp
  <2> QED
    BY <2>3, <2>4
<1>14. ASSUME NEW p \in Processes, SyncDirectory(p)
      PROVE  BackedUp'
  <2>1. \A q \in Processes \ {p} : pc[q] = "closed"
    BY <1>0, <1>14, OthersClosed DEF SyncDirectory, IInv
  <2>2. /\ \A q \in Processes \ {p} : pc'[q] = pc[q]
        /\ pc[p] = "syncdir"
        /\ pc'[p] = (IF target[p] = Backup THEN "migrate" ELSE "record")
        /\ UNCHANGED <<db, origin, target, file>>
    BY <1>0, <1>14 DEF SyncDirectory, TypeOK
  <2>3. CASE target[p] = Backup
    <3>1. file[Backup].content = origin /\ db.version = 1
      BY <1>0, <2>2, <2>3 DEF BackedUp, Writing
    <3>2. disk'[Backup] = {origin}
      BY <1>0, <1>14, <2>3, <3>1 DEF SyncDirectory, TypeOK, Durable
    <3> QED
      BY <1>0, <2>1, <2>2, <2>3, <3>1, <3>2 DEF BackedUp, CurrentVersion, Writing
  <2>4. CASE target[p] # Backup
    <3>1. disk'[Backup] = disk[Backup]
      BY <1>0, <1>14, <2>4 DEF SyncDirectory, TypeOK
    <3> QED
      BY <1>0, <2>1, <2>2, <2>4, <3>1 DEF BackedUp
  <2> QED
    BY <2>3, <2>4
<1>15. ASSUME NEW p \in Processes, Record(p)
      PROVE  BackedUp'
  BY <1>0, <1>15, OthersClosed DEF Record, BackedUp, TypeOK, Opened, Opening, Writing,
     CurrentVersion
<1>16. ASSUME NEW p \in Processes, Fail(p)
      PROVE  BackedUp'
  BY <1>0, <1>16, OthersClosed DEF Fail, BackedUp, TypeOK, Opened, Opening, Writing,
     CurrentVersion
<1>17. ASSUME NEW p \in Processes, End(p)
      PROVE  BackedUp'
  BY <1>0, <1>17, OthersClosed DEF End, BackedUp, TypeOK, Opened, Opening, Writing,
     CurrentVersion
<1>18. CASE PowerLoss
  BY <1>0, <1>18, OthersClosed DEF PowerLoss, BackedUp, TypeOK, Opened, Opening, Writing,
     CurrentVersion
<1>19. CASE UNCHANGED vars
  BY <1>0, <1>19, OthersClosed DEF vars, BackedUp, TypeOK, Opened, Opening, Writing,
     CurrentVersion
<1> QED
  BY <1>1, <1>2, <1>3, <1>4, <1>5, <1>6, <1>7, <1>8, <1>9, <1>10, <1>11, <1>12, <1>13,
     <1>14, <1>15, <1>16, <1>17, <1>18, <1>19 DEF Next, Step

\* One process saves only what its checkpoint holds.
LEMMA NextCheckpointing ==
    ASSUME IInv, Opened, Alone, Checkpointing, [Next]_vars, Alone'
    PROVE  Checkpointing'
<1> USE DEF locals, files
<1>0. /\ TypeOK /\ Checkpointing /\ Opened
      /\ db.head \in Nat /\ db.saved \in Nat /\ db.saved <= db.head /\ declared \in Nat
  BY MaxRevisionAssumption DEF IInv, Typed, TypeOK, Database, JournalMatchesHead
<1>1. ASSUME NEW p \in Processes, Scan(p)
      PROVE  Checkpointing'
  BY <1>0, <1>1, OthersClosed DEF Scan, Checkpointing, TypeOK, Opened, Opening, Writing,
     CurrentVersion
<1>2. ASSUME NEW p \in Processes, Open(p)
      PROVE  Checkpointing'
  BY <1>0, <1>2, OthersClosed DEF Open, Checkpointing, TypeOK, Opened, Opening, Writing,
     CurrentVersion
<1>3. ASSUME NEW p \in Processes, Migrate(p)
      PROVE  Checkpointing'
  BY <1>0, <1>3, OthersClosed DEF Migrate, Checkpointing, TypeOK, Opened, Opening, Writing,
     CurrentVersion
<1>4. ASSUME NEW p \in Processes, MarkOpen(p)
      PROVE  Checkpointing'
  BY <1>0, <1>4, OthersClosed DEF MarkOpen, Checkpointing, TypeOK, Opened, Opening,
     Writing, CurrentVersion
<1>5. ASSUME NEW p \in Processes, ReadHead(p)
      PROVE  Checkpointing'
  BY <1>0, <1>5, OthersClosed DEF ReadHead, Checkpointing, TypeOK, Opened, Opening,
     Writing, CurrentVersion
<1>6. ASSUME NEW p \in Processes, NEW x \in Payloads, AppendCommand(p, x)
      PROVE  Checkpointing'
  <2>1. \A q \in Processes \ {p} : pc[q] = "closed"
    BY <1>0, <1>6, OthersClosed DEF AppendCommand, IInv
  <2>2. /\ pc[p] = "open" /\ pc' = pc /\ db'.saved = db.saved
        /\ UNCHANGED <<declared, disk>>
    BY <1>0, <1>6 DEF AppendCommand, IInv, Typed, TypeOK, Database
  <2> QED
    BY <1>0, <2>1, <2>2 DEF Checkpointing
<1>7. ASSUME NEW p \in Processes, MarkSaved(p)
      PROVE  Checkpointing'
  BY <1>0, <1>7, OthersClosed DEF MarkSaved, Checkpointing, TypeOK, Opened, Opening,
     Writing, CurrentVersion
<1>8. ASSUME NEW p \in Processes, MarkCleanClose(p)
      PROVE  Checkpointing'
  BY <1>0, <1>8, OthersClosed DEF MarkCleanClose, Checkpointing, TypeOK, Opened, Opening,
     Writing, CurrentVersion
<1>9. ASSUME NEW p \in Processes, NEW d \in Destinations, Checkpoint(p, d)
      PROVE  Checkpointing'
  BY <1>0, <1>9, OthersClosed DEF Checkpoint, Checkpointing, TypeOK, Opened, Opening,
     Writing, CurrentVersion
<1>10. ASSUME NEW p \in Processes, Copy(p)
      PROVE  Checkpointing'
  <2>1. \A q \in Processes \ {p} : pc[q] = "closed"
    BY <1>0, <1>10, OthersClosed DEF Copy, IInv
  <2>2. /\ \A q \in Processes \ {p} : pc'[q] = pc[q]
        /\ pc'[p] \in {"sync", "checkpoint"} /\ temp'[p].content = db
        /\ target[p] # Backup => seen[p] = db.head
        /\ UNCHANGED <<db, declared, seen, target, file, disk>>
    BY <1>0, <1>10 DEF Copy, TypeOK
  <2>3. target[p] # Backup => HasHead(temp'[p].content, seen[p])
    BY <1>0, <2>2, NoneAssumption DEF HasHead, TypeOK
  <2> QED
    BY <1>0, <2>1, <2>2, <2>3 DEF Checkpointing
<1>11. ASSUME NEW p \in Processes, MarkCheckpoint(p)
      PROVE  Checkpointing'
  <2>1. \A q \in Processes \ {p} : pc[q] = "closed"
    BY <1>0, <1>11, OthersClosed DEF MarkCheckpoint, IInv
  <2>2. /\ \A q \in Processes \ {p} : pc'[q] = pc[q]
        /\ pc[p] = "checkpoint" /\ pc'[p] = "sync" /\ temp[p] # None
        /\ UNCHANGED <<db, declared, seen, target, file, disk>>
    BY <1>0, <1>11 DEF MarkCheckpoint, TypeOK, IInv, Typed, Prepared
  <2>3. temp'[p].content \in Database /\ temp'[p].content.head = temp[p].content.head
    <3>1. temp'[p] = [temp[p] EXCEPT !.content = [temp[p].content EXCEPT !.saved = seen[p], !.clean = TRUE]]
      BY <1>0, <1>11, <2>2, TemporaryFacts DEF MarkCheckpoint, TypeOK
    <3>2. temp'[p].content = [temp[p].content EXCEPT !.saved = seen[p], !.clean = TRUE]
      BY <1>0, <2>2, <3>1, TemporaryFacts
    <3>3. temp[p].content \in Database /\ seen[p] \in 0 .. MaxRevision
      BY <1>0, <2>2, TemporaryFacts DEF TypeOK
    <3>4. temp'[p].content \in Database
      BY <3>2, <3>3 DEF Database
    <3>5. temp'[p].content.head = temp[p].content.head
      BY <3>2, <3>3 DEF Database
    <3> QED
      BY <3>4, <3>5
  <2>4. target[p] # Backup => HasHead(temp'[p].content, seen[p])
    BY <1>0, <2>2, <2>3, NoneAssumption DEF HasHead, Checkpointing
  <2> QED
    BY <1>0, <2>1, <2>2, <2>4 DEF Checkpointing
<1>12. ASSUME NEW p \in Processes, SyncFile(p)
      PROVE  Checkpointing'
  BY <1>0, <1>12, OthersClosed DEF SyncFile, Checkpointing, TypeOK, Opened, Opening,
     Writing, CurrentVersion
<1>13. ASSUME NEW p \in Processes, Rename(p)
      PROVE  Checkpointing'
  <2>1. \A q \in Processes \ {p} : pc[q] = "closed"
    BY <1>0, <1>13, OthersClosed DEF Rename, IInv
  <2>2. /\ \A q \in Processes \ {p} : pc'[q] = pc[q]
        /\ pc[p] = "rename" /\ pc'[p] = "syncdir"
        /\ file' = [file EXCEPT ![target[p]] = temp[p]]
        /\ UNCHANGED <<db, declared, seen, target>>
    BY <1>0, <1>13 DEF Rename, TypeOK
  <2>3. \A f \in Files : disk'[f] \subseteq disk[f] \cup (IF f = target[p] THEN {Durable(temp[p])} ELSE {})
    BY <1>0, <1>13 DEF Rename, TypeOK
  <2>4. temp[p].content \in Database
    BY <1>0, <2>2, TemporaryFacts DEF IInv, Typed, Prepared
  <2>5. target[p] # Backup =>
          HasHead(temp[p].content, seen[p]) /\ seen[p] = db.head
          /\ Durable(temp[p]) = temp[p].content
    BY <1>0, <2>2, RenamedIsSound DEF Checkpointing
  <2>6. target[p] # Backup => HasHead(file'[target'[p]].content, seen'[p])
    BY <1>0, <2>2, <2>5 DEF TypeOK
  <2>7. ASSUME db.saved > declared
        PROVE  \E d \in Destinations : \A c \in disk'[d] : HasHead(c, db.saved)
    <3>1. PICK d \in Destinations : \A c \in disk[d] : HasHead(c, db.saved)
      BY <1>0, <2>7 DEF Checkpointing
    <3>2. d \in Files /\ d # Backup
      BY BackupAssumption DEF Files
    <3>3. target[p] = d => HasHead(Durable(temp[p]), db.saved)
      BY <2>4, <2>5, <3>2, HeadGrows DEF IInv
    <3>4. \A c \in disk'[d] : HasHead(c, db.saved)
      BY <2>3, <3>1, <3>2, <3>3
    <3> QED
      BY <3>4
  <2> QED
    BY <1>0, <2>1, <2>2, <2>5, <2>6, <2>7 DEF Checkpointing
<1>14. ASSUME NEW p \in Processes, SyncDirectory(p)
      PROVE  Checkpointing'
  <2>1. \A q \in Processes \ {p} : pc[q] = "closed"
    BY <1>0, <1>14, OthersClosed DEF SyncDirectory, IInv
  <2>2. /\ \A q \in Processes \ {p} : pc'[q] = pc[q]
        /\ pc[p] = "syncdir"
        /\ pc'[p] = (IF target[p] = Backup THEN "migrate" ELSE "record")
        /\ disk' = [disk EXCEPT ![target[p]] = {file[target[p]].content}]
        /\ UNCHANGED <<db, declared, seen, target, file>>
    BY <1>0, <1>14 DEF SyncDirectory, TypeOK, Durable, IInv, Synced
  <2>3. target[p] # Backup => HasHead(file[target[p]].content, seen[p]) /\ seen[p] = db.head
    BY <1>0, <2>2 DEF Checkpointing
  <2>4. target[p] # Backup => \A c \in disk'[target'[p]] : HasHead(c, seen'[p])
    BY <1>0, <2>2, <2>3 DEF TypeOK
  <2>5. ASSUME db.saved > declared
        PROVE  \E d \in Destinations : \A c \in disk'[d] : HasHead(c, db.saved)
    <3>1. PICK d \in Destinations : \A c \in disk[d] : HasHead(c, db.saved)
      BY <1>0, <2>5 DEF Checkpointing
    <3>2. d \in Files /\ d # Backup
      BY BackupAssumption DEF Files
    <3>3. target[p] = d => HasHead(file[d].content, db.saved)
      <4> SUFFICES ASSUME target[p] = d PROVE HasHead(file[d].content, db.saved)
        OBVIOUS
      <4>1. HasHead(file[d].content, db.head)
        BY <2>3, <3>2
      <4>2. file[d].content \in Database
        BY <4>1 DEF IInv, Checkpointed, Sound, HasHead
      <4> QED
        BY <4>1, <4>2, HeadGrows DEF IInv
    <3>4. \A c \in disk'[d] : HasHead(c, db.saved)
      BY <1>0, <2>2, <3>1, <3>2, <3>3 DEF TypeOK
    <3> QED
      BY <3>4
  <2> QED
    BY <1>0, <2>1, <2>2, <2>3, <2>4, <2>5 DEF Checkpointing
<1>15. ASSUME NEW p \in Processes, Record(p)
      PROVE  Checkpointing'
  <2>1. \A q \in Processes \ {p} : pc[q] = "closed"
    BY <1>0, <1>15, OthersClosed DEF Record, IInv
  <2>2. /\ \A q \in Processes \ {p} : pc'[q] = pc[q]
        /\ pc[p] = "record" /\ pc'[p] = "open" /\ target[p] \in Destinations
        /\ db'.saved = (IF db.saved < seen[p] THEN seen[p] ELSE db.saved)
        /\ UNCHANGED <<declared, disk>>
    BY <1>0, <1>15 DEF Record, TypeOK, Opened, Files, Database
  <2>3. \A c \in disk[target[p]] : HasHead(c, seen[p])
    BY <1>0, <2>2 DEF Checkpointing
  <2>4. db'.saved > declared => \E d \in Destinations : \A c \in disk[d] : HasHead(c, db'.saved)
    BY <1>0, <2>2, <2>3 DEF Checkpointing
  <2> QED
    BY <2>1, <2>2, <2>4 DEF Checkpointing
<1>16. ASSUME NEW p \in Processes, Fail(p)
      PROVE  Checkpointing'
  BY <1>0, <1>16, OthersClosed DEF Fail, Checkpointing, TypeOK, Opened, Opening, Writing,
     CurrentVersion
<1>17. ASSUME NEW p \in Processes, End(p)
      PROVE  Checkpointing'
  BY <1>0, <1>17, OthersClosed DEF End, Checkpointing, TypeOK, Opened, Opening, Writing,
     CurrentVersion
<1>18. CASE PowerLoss
  <2>1. /\ \A q \in Processes : pc'[q] = "closed"
        /\ \A f \in Files : \A c \in disk'[f] : c \in disk[f]
        /\ UNCHANGED <<db, declared>>
    BY <1>18 DEF PowerLoss
  <2>2. ASSUME db.saved > declared
        PROVE  \E d \in Destinations : \A c \in disk'[d] : HasHead(c, db.saved)
    BY <1>0, <2>1, <2>2 DEF Checkpointing, Files
  <2> QED
    BY <2>1, <2>2 DEF Checkpointing
<1>19. CASE UNCHANGED vars
  BY <1>0, <1>19, OthersClosed DEF vars, Checkpointing, TypeOK, Opened, Opening, Writing,
     CurrentVersion
<1> QED
  BY <1>1, <1>2, <1>3, <1>4, <1>5, <1>6, <1>7, <1>8, <1>9, <1>10, <1>11, <1>12, <1>13,
     <1>14, <1>15, <1>16, <1>17, <1>18, <1>19 DEF Next, Step

\* The invariants of one process hold at first ...
LEMMA InitAlone == Init => AloneInv
<1> SUFFICES ASSUME Init PROVE AloneInv
  OBVIOUS
<1>1. origin \in Database /\ origin.version \in 0 .. CurrentVersion
  BY OriginFacts DEF Database
<1>2. origin.version \in {0, 1}
  BY DEF Init, NewFiles, OldFiles, EmptyDatabase, Older
<1>3. Opened
  BY <1>1, <1>2 DEF Init, Opened, Writing, CurrentVersion
<1>4. BackedUp /\ Checkpointing
  <2>1. \A p \in Processes : pc[p] = "closed"
    BY DEF Init
  <2>2. db.version # CurrentVersion /\ ~(db.saved > declared)
    BY <1>1, <1>2, MaxRevisionAssumption DEF Init, CurrentVersion, Database
  <2> QED
    BY <2>1, <2>2 DEF BackedUp, Checkpointing, Writing
<1> QED
  BY <1>3, <1>4 DEF AloneInv

\* ... and after every step, since who was alone after it was so before it.
LEMMA NextAlone == IInv /\ AloneInv /\ [Next]_vars => AloneInv'
<1> SUFFICES ASSUME IInv, AloneInv, [Next]_vars PROVE AloneInv'
  OBVIOUS
<1>1. Typed /\ Opened
  BY DEF IInv, AloneInv
<1>2. origin' = origin
  <2>1. ASSUME NEW p \in Processes, Step(p) PROVE origin' = origin
    BY <2>1 DEF Step, Scan, Open, Migrate, MarkOpen, ReadHead, MarkSaved, MarkCleanClose,
                AppendCommand, Checkpoint, Copy, MarkCheckpoint, SyncFile, Rename,
                SyncDirectory, Record, Fail, End, locals, files
  <2> QED
    BY <2>1 DEF Next, PowerLoss, vars
<1>3. Opened'
  BY <1>1, NextOpened
<1>4. Alone' => Alone
  BY <1>1, StaysAlone
<1>5. Alone' /\ origin'.version = 1 => BackedUp'
  BY <1>1, <1>2, <1>4, NextBackedUp DEF AloneInv
<1>6. Alone' => Checkpointing'
  BY <1>1, <1>4, NextCheckpointing DEF AloneInv
<1> QED
  BY <1>3, <1>5, <1>6 DEF AloneInv

\* Both invariants hold in every state that the processes can reach.
THEOREM AloneInvariance == Spec => [](IInv /\ AloneInv)
<1>1. Init => IInv /\ AloneInv
  BY InitIInv, InitAlone
<1>2. (IInv /\ AloneInv) /\ [Next]_vars => (IInv /\ AloneInv)'
  BY NextIInv, NextAlone
<1> QED
  BY <1>1, <1>2, PTL DEF Spec

\* What the database calls saved is in a checkpoint that no power loss takes
\* away (checkpoint_to records the revision after the directory is synced).
THEOREM DurabilityTheorem == Spec => []SavedIsDurable
<1>1. ASSUME IInv, AloneInv, Alone, db.saved > declared
      PROVE  \E d \in Destinations : \A c \in disk[d] :
                /\ c \notin {None, Torn}
                /\ IsPrefixOf(SubSeq(db.journal, 1, db.saved), c.journal)
  <2>1. PICK d \in Destinations : \A c \in disk[d] : HasHead(c, db.saved)
    BY <1>1 DEF AloneInv, Checkpointing
  <2>2. /\ db.journal \in Seq(Payloads) /\ db.saved \in Nat /\ db.head \in Nat
        /\ db.head = Len(db.journal) /\ db.saved <= db.head
    BY <1>1, MaxRevisionAssumption DEF IInv, Typed, TypeOK, Database, JournalMatchesHead
  <2>3. /\ Len(SubSeq(db.journal, 1, db.saved)) = db.saved
        /\ \A i \in 1 .. db.saved : SubSeq(db.journal, 1, db.saved)[i] = db.journal[i]
    <3>1. \A i \in 1 .. db.saved : db.journal[i] \in Payloads
      BY <2>2, ElementOfSeq
    <3> QED
      BY <2>2, <3>1, SubSeqProperties
  <2>4. ASSUME NEW c \in disk[d]
        PROVE  /\ c \notin {None, Torn}
               /\ IsPrefixOf(SubSeq(db.journal, 1, db.saved), c.journal)
    <3>1. c # None /\ c.head >= db.saved
      BY <2>1 DEF HasHead
    <3>2. c \in Database /\ c.head = Len(c.journal) /\ IsPrefixOf(c.journal, db.journal)
      BY <1>1, <3>1 DEF IInv, Checkpointed, Sound, Complete
    <3>3. c # Torn
      BY <3>2, TornAssumption
    <3>4. c.head \in Nat
      BY <3>2, MaxRevisionAssumption DEF Database
    <3> QED
      BY <2>2, <2>3, <3>1, <3>2, <3>3, <3>4 DEF IsPrefixOf
  <2> QED
    BY <2>4
<1>2. IInv /\ AloneInv => SavedIsDurable
  BY <1>1 DEF SavedIsDurable
<1> QED
  BY <1>2, AloneInvariance, PTL

\* A database of an older release is not migrated before a copy of what it held
\* is durable (run_migrations).
THEOREM BackupTheorem == Spec => []BackupPrecedesMigration
<1>1. IInv /\ AloneInv => BackupPrecedesMigration
  BY DEF AloneInv, BackedUp, BackupPrecedesMigration
<1> QED
  BY <1>1, AloneInvariance, PTL

=============================================================================
