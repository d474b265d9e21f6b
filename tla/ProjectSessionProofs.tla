------------------------ MODULE ProjectSessionProofs ------------------------
(***************************************************************************)
(* What ProjectSession guarantees for any projects, keys, paths, failures  *)
(* and bounds: the journal and the undo history fit what is shown, and no  *)
(* project is lost without a question.                                     *)
(***************************************************************************)
EXTENDS ProjectSession, SequenceTheorems, TLAPS

-----------------------------------------------------------------------------
(* The inductive invariant. *)

\* What is shown while nothing is marked as changed, and no failed write was
\* reported, is in a file, in a restore point, or the default project.  If the
\* manifest is always written, it is that or in a journal past its last save
\* (drags and moved metadata need not mark the project).
Stored(p) == p = DefaultProject \/ p \in points \/ \E d \in Paths : file[d] = p
CleanIsKept ==
    Running /\ gesture = None /\ ~dirty /\ ~warned =>
        /\ meets.drags = {} /\ "metadata" \notin meets.upkeep => Stored(shown)
        /\ "manifest" \notin Failures => work.unsaved \/ Stored(shown)

IInv ==
    /\ TypeOK
    /\ gesture \in meets.drags \cup {None}
    /\ HistoryFits
    /\ CommittedShown
    /\ CleanIsKept

-----------------------------------------------------------------------------
(* Histories. *)

\* A history whose entries join up and whose latest one leads to next.
Recorded(h, next) ==
    /\ h \in Seq(H!Entry) /\ Len(h) \in Nat /\ Len(h) >= 1
    /\ \A i \in 1 .. Len(h) - 1 : h[i].after = h[i + 1].before
    /\ h[Len(h)].before \in Projects /\ h[Len(h)].after = next

\* The history within its bounds.
LEMMA HistoryLength ==
    ASSUME TypeOK
    PROVE  /\ history \in Seq(H!Entry)
           /\ Len(history) \in Nat /\ cursor \in Nat /\ cursor <= Len(history)
           /\ \A i \in 1 .. Len(history) :
                 /\ history[i] \in H!Entry
                 /\ history[i].before \in Projects /\ history[i].after \in Projects
<1>1. history \in Seq(H!Entry) /\ Len(history) \in Nat /\ cursor \in 0 .. Len(history)
  BY LenProperties DEF TypeOK
<1>2. \A i \in 1 .. Len(history) : history[i] \in H!Entry
  BY <1>1, ElementOfSeq
<1> QED
  BY <1>1, <1>2 DEF H!Entry

\* Erasing the redo tail keeps the applied entries and nothing else.
LEMMA AppliedFacts ==
    ASSUME TypeOK
    PROVE  /\ H!Applied \in Seq(H!Entry) /\ Len(H!Applied) = cursor
           /\ \A i \in 1 .. cursor : H!Applied[i] = history[i]
  BY HistoryLength, SubSeqProperties DEF H!Applied

\* A new entry on top of the applied ones.
LEMMA PushFacts ==
    ASSUME TypeOK, HistoryFits, NEW e \in H!Entry, e.before = shown
    PROVE  /\ Recorded(Append(H!Applied, e), e.after)
           /\ Append(H!Applied, e)[Len(Append(H!Applied, e))].before = shown
           /\ Len(Append(H!Applied, e)) = cursor + 1
           /\ \A i \in 1 .. cursor : Append(H!Applied, e)[i] = history[i]
<1>1. /\ Append(H!Applied, e) \in Seq(H!Entry)
      /\ Len(Append(H!Applied, e)) = cursor + 1
      /\ \A i \in 1 .. cursor : Append(H!Applied, e)[i] = history[i]
      /\ Append(H!Applied, e)[cursor + 1] = e
  BY AppliedFacts, AppendProperties
<1>2. shown \in Projects
  BY DEF TypeOK
<1> QED
  BY <1>1, <1>2, HistoryLength DEF Recorded, HistoryFits, H!HistoryChain, H!StateAtCursor

\* A single command: a new entry, or one more command in the latest.
LEMMA RecordFacts ==
    ASSUME TypeOK, HistoryFits, NEW key \in Keys \cup Gestures \cup {NoKey},
           NEW next \in Projects, NEW h, h = H!Record(H!Applied, key, next)
    PROVE  /\ Recorded(h, next)
           /\ H!CanCoalesce(H!Applied, key) =>
                 /\ Len(h) = cursor /\ h[Len(h)].before = history[cursor].before
                 /\ \A i \in 1 .. cursor - 1 : h[i] = history[i]
           /\ ~H!CanCoalesce(H!Applied, key) =>
                 /\ Len(h) = cursor + 1 /\ h[Len(h)].before = shown
                 /\ \A i \in 1 .. cursor : h[i] = history[i]
<1>1. CASE H!CanCoalesce(H!Applied, key)
  <2>1. key # NoKey /\ cursor \in Nat /\ cursor > 0 /\ Len(H!Applied) = cursor
    BY <1>1, AppliedFacts, HistoryLength DEF H!CanCoalesce
  <2>2. H!Applied[cursor] = history[cursor] /\ history[cursor] \in H!Entry
    BY <2>1, AppliedFacts, HistoryLength
  <2>3. /\ [history[cursor] EXCEPT !.after = next] \in H!Entry
        /\ [history[cursor] EXCEPT !.after = next].before = history[cursor].before
        /\ [history[cursor] EXCEPT !.after = next].after = next
    BY <2>2 DEF H!Entry
  <2> DEFINE e == [history[cursor] EXCEPT !.after = next]
  <2>4. h = [H!Applied EXCEPT ![cursor] = e]
    BY <1>1, <2>1, <2>2 DEF H!Record
  <2> HIDE DEF e
  <2>5. /\ h \in Seq(H!Entry) /\ Len(h) = cursor
        /\ \A i \in 1 .. cursor : h[i] = IF i = cursor THEN e ELSE H!Applied[i]
    BY <2>1, <2>3, <2>4, AppliedFacts, ExceptSeq DEF e
  <2>6. e.before = history[cursor].before /\ e.after = next /\ e.before \in Projects
    BY <2>1, <2>3, HistoryLength DEF e
  <2>7. \A i \in 1 .. cursor - 1 : h[i] = history[i]
    BY <2>1, <2>5, AppliedFacts
  <2>8. \A i \in 1 .. cursor - 1 : history[i].after = history[i + 1].before
    BY <2>1, HistoryLength DEF HistoryFits, H!HistoryChain
  <2> QED
    BY <1>1, <2>1, <2>5, <2>6, <2>7, <2>8 DEF Recorded
<1>2. CASE ~H!CanCoalesce(H!Applied, key)
  <2> DEFINE e == [name |-> "command", key |-> key, before |-> shown, after |-> next]
  <2>1. e \in H!Entry /\ e.before = shown /\ e.after = next
    BY DEF TypeOK, H!Entry
  <2>2. h = Append(H!Applied, e)
    BY <1>2 DEF H!Record
  <2> HIDE DEF e
  <2> QED
    BY <1>2, <2>1, <2>2, PushFacts
<1> QED
  BY <1>1, <1>2

\* What an edit leaves of the history, whether it was kept or taken back.
LEMMA RecordedFits ==
    ASSUME NEW h, NEW next \in Projects, Recorded(h, next), history' = h,
           \/ shown' = next /\ cursor' = Len(h)
           \/ shown' = h[Len(h)].before /\ cursor' = Len(h) - 1
    PROVE  /\ HistoryFits' /\ shown' \in Projects
           /\ history' \in Seq(H!Entry) /\ cursor' \in 0 .. Len(history')
  BY DEF Recorded, HistoryFits, H!HistoryChain, H!StateAtCursor

-----------------------------------------------------------------------------
(* Journals. *)

\* What persistSnapshot leaves of the working database.
LEMMA PersistFacts ==
    ASSUME TypeOK, Running, NEW p \in Projects, NEW ok \in BOOLEAN, Persist(p, ok)
    PROVE  /\ work' \in WorkingDatabase /\ work' # None
           /\ ok => work'.latest = p /\ work'.unsaved
<1>1. work \in WorkingDatabase
  BY DEF TypeOK, Running
<1>2. p \in Snapshots
  BY DEF Snapshots
<1>3. CASE work' = [work EXCEPT !.latest = p, !.unsaved = TRUE]
  <2>1. work' \in WorkingDatabase /\ work'.latest = p /\ work'.unsaved
    BY <1>1, <1>2, <1>3 DEF WorkingDatabase
  <2> QED
    BY <2>1, NoneAssumption DEF Persist
<1>4. CASE ~ok /\ "append" \in Failures /\ work' = work
  BY <1>1, <1>4 DEF Running
<1> QED
  BY <1>3, <1>4 DEF Persist

\* The other variables that most handlers leave alone, or only set by type.
LEMMA TypeStep ==
    ASSUME TypeOK,
           shown' \in Projects, history' \in Seq(H!Entry), Len(history') <= MaxHistory,
           cursor' \in 0 .. Len(history'), gesture' \in Gestures \cup {None},
           dirty' \in BOOLEAN, bound' \in Paths \cup {None},
           work' \in WorkingDatabase \cup {None}, left' \subseteq WorkingDatabase,
           file' \in [Paths -> Snapshots \cup {None}], points' \subseteq Snapshots,
           warned' \in BOOLEAN, UNCHANGED meets
    PROVE  TypeOK'
  BY DEF TypeOK

-----------------------------------------------------------------------------
(* Editing. *)

\* An edit is kept with its journal entry, or taken back.
LEMMA CommitStep ==
    ASSUME IInv, UNCHANGED meets, NEW h, NEW next \in Projects, NEW ok \in BOOLEAN,
           Recorded(h, next), Commit(next, h, ok)
    PROVE  IInv'
<1>1. /\ Running /\ Len(h) <= MaxHistory /\ Persist(next, ok) /\ history' = h
      /\ warned' = ~ok
      /\ UNCHANGED <<gesture, bound, disks>>
      /\ ok => shown' = next /\ cursor' = Len(h) /\ dirty'
      /\ ~ok => shown' = h[Len(h)].before /\ cursor' = Len(h) - 1 /\ dirty' = dirty
  BY DEF Commit
<1>2. TypeOK /\ dirty \in BOOLEAN
  BY DEF IInv, TypeOK
<1>3. /\ HistoryFits' /\ shown' \in Projects
      /\ history' \in Seq(H!Entry) /\ cursor' \in 0 .. Len(history')
  BY <1>1, RecordedFits
<1>4. /\ work' \in WorkingDatabase /\ work' # None
      /\ ok => work'.latest = next /\ work'.unsaved
  BY <1>1, <1>2, PersistFacts
<1>5. dirty' \in BOOLEAN /\ warned' \in BOOLEAN
  BY <1>1, <1>2 DEF Commit
<1>6. TypeOK'
  BY <1>1, <1>2, <1>3, <1>4, <1>5, TypeStep DEF TypeOK, disks
<1>7. CommittedShown'
  BY <1>1, <1>4 DEF CommittedShown, Journaled
<1>8. CleanIsKept'
  BY <1>1, <1>4 DEF CleanIsKept
<1> QED
  BY <1>1, <1>3, <1>6, <1>7, <1>8 DEF IInv

\* EditorController::apply and applyBatch.
LEMMA EditStep ==
    ASSUME IInv, UNCHANGED meets, NEW ok \in BOOLEAN, NEW next \in Projects,
           \/ \E key \in Keys \cup {NoKey} : Apply(key, next, ok)
           \/ ApplyBatch(next, ok)
    PROVE  IInv'
<1>1. TypeOK /\ HistoryFits
  BY DEF IInv
<1>2. ASSUME NEW key \in Keys \cup {NoKey}, Apply(key, next, ok)
      PROVE  IInv'
  BY <1>1, <1>2, RecordFacts, CommitStep DEF Apply
<1>3. ASSUME ApplyBatch(next, ok)
      PROVE  IInv'
  <2>1. BatchEntry(shown, next) \in H!Entry /\ BatchEntry(shown, next).before = shown
        /\ BatchEntry(shown, next).after = next
    BY <1>1 DEF BatchEntry, H!Entry, TypeOK
  <2> QED
    BY <1>1, <1>3, <2>1, PushFacts, CommitStep DEF ApplyBatch
<1> QED
  BY <1>2, <1>3

\* undo and redo walk through the history.
LEMMA NavigateStep ==
    ASSUME IInv, UNCHANGED meets, NEW ok \in BOOLEAN, Undo(ok) \/ Redo(ok)
    PROVE  IInv'
<1>1. TypeOK /\ HistoryFits /\ dirty \in BOOLEAN /\ Running
      /\ UNCHANGED <<history, gesture, bound, disks>> /\ dirty' = (dirty \/ ok)
      /\ warned' = ~ok
  BY DEF IInv, TypeOK, Undo, Redo
<1>2. /\ shown' \in Projects /\ cursor' \in 0 .. Len(history') /\ HistoryFits'
      /\ Persist(shown', ok)
  <2>1. CASE Undo(ok)
    <3>1. /\ cursor > 0 /\ shown' = history[cursor].before /\ cursor' = cursor - 1
          /\ Persist(shown', ok)
      BY <2>1 DEF Undo
    <3> QED
      BY <1>1, <3>1, HistoryLength DEF HistoryFits, H!HistoryChain, H!StateAtCursor
  <2>2. CASE Redo(ok)
    <3>1. /\ cursor < Len(history) /\ shown' = history[cursor + 1].after
          /\ cursor' = cursor + 1 /\ Persist(shown', ok)
      BY <2>2 DEF Redo
    <3> QED
      BY <1>1, <3>1, HistoryLength DEF HistoryFits, H!HistoryChain, H!StateAtCursor
  <2> QED
    BY <2>1, <2>2
<1>3. /\ work' \in WorkingDatabase /\ work' # None
      /\ ok => work'.latest = shown' /\ work'.unsaved
  BY <1>1, <1>2, PersistFacts
<1>4. TypeOK'
  BY <1>1, <1>2, <1>3, TypeStep DEF TypeOK, disks
<1>5. CommittedShown' /\ CleanIsKept'
  BY <1>1, <1>3 DEF CommittedShown, Journaled, CleanIsKept
<1> QED
  BY <1>1, <1>2, <1>4, <1>5 DEF IInv

\* A gesture begins, goes on, and is persisted when it ends.
LEMMA GestureStep ==
    ASSUME IInv, UNCHANGED meets,
           \/ \E g \in Gestures : BeginGesture(g)
           \/ \E next \in Projects : UpdateGesture(next)
           \/ \E ok \in BOOLEAN : EndGesture(ok)
    PROVE  IInv'
<1>1. TypeOK /\ HistoryFits /\ gesture \in meets.drags \cup {None}
  BY DEF IInv
<1>2. ASSUME NEW g \in Gestures, BeginGesture(g)
      PROVE  IInv'
  <2>1. /\ gesture' = g /\ g \in meets.drags /\ g # None
        /\ UNCHANGED <<editing, dirty, bound, work, disks, warned>>
    BY <1>2, PathsAssumption DEF BeginGesture
  <2>2. TypeOK'
    BY <1>1, <2>1 DEF TypeOK, editing, disks
  <2> QED
    BY <1>1, <2>1, <2>2
       DEF IInv, HistoryFits, H!HistoryChain, H!StateAtCursor, editing, disks,
           CommittedShown, Journaled, CleanIsKept, Failures, Running
<1>3. ASSUME NEW next \in Projects, UpdateGesture(next)
      PROVE  IInv'
  <2>1. /\ gesture # None /\ gesture' = gesture /\ gesture \in Gestures
        /\ history' = H!Record(H!Applied, gesture, next) /\ Len(history') <= MaxHistory
        /\ shown' = next /\ cursor' = Len(history') /\ dirty' = TRUE
        /\ UNCHANGED <<bound, work, disks, warned>>
    BY <1>1, <1>3 DEF UpdateGesture, TypeOK
  <2>2. Recorded(history', next)
    BY <1>1, <2>1, RecordFacts
  <2>3. /\ HistoryFits' /\ shown' \in Projects
        /\ history' \in Seq(H!Entry) /\ cursor' \in 0 .. Len(history')
    BY <2>1, <2>2, RecordedFits
  <2>4. TypeOK'
    BY <1>1, <2>1, <2>3, TypeStep DEF TypeOK, disks
  <2> QED
    BY <1>1, <2>1, <2>3, <2>4 DEF IInv, CommittedShown, Journaled, CleanIsKept
<1>4. ASSUME NEW ok \in BOOLEAN, EndGesture(ok)
      PROVE  IInv'
  <2>1. /\ Running /\ gesture' = None /\ Persist(shown, ok) /\ shown \in Projects
        /\ UNCHANGED <<editing, dirty, bound, disks>> /\ warned' = ~ok
    BY <1>1, <1>4 DEF EndGesture, TypeOK
  <2>2. /\ work' \in WorkingDatabase /\ work' # None
        /\ ok => work'.latest = shown /\ work'.unsaved
    BY <1>1, <2>1, PersistFacts
  <2>3. TypeOK'
    BY <1>1, <2>1, <2>2 DEF TypeOK, editing, disks
  <2>4. HistoryFits'
    BY <1>1, <2>1 DEF HistoryFits, H!HistoryChain, H!StateAtCursor, editing
  <2>5. meets.drags # {}
    BY <1>1, <1>4 DEF EndGesture
  <2> QED
    BY <1>1, <2>1, <2>2, <2>3, <2>4, <2>5
       DEF IInv, CommittedShown, Journaled, CleanIsKept, editing
<1> QED
  BY <1>2, <1>3, <1>4

-----------------------------------------------------------------------------
(* Saving. *)

\* The working database of a running session.
LEMMA WorkFacts ==
    ASSUME TypeOK, Running
    PROVE  /\ work \in WorkingDatabase /\ work.latest \in Snapshots
           /\ work.unsaved \in BOOLEAN /\ work.clean \in BOOLEAN
  BY DEF TypeOK, Running, WorkingDatabase

\* A journal that is written to stays the database of a running session.
LEMMA WrittenFacts ==
    ASSUME TypeOK, Running, NEW p \in Snapshots, NEW unsaved \in BOOLEAN
    PROVE  /\ [work EXCEPT !.latest = p, !.unsaved = unsaved] \in WorkingDatabase
           /\ [work EXCEPT !.latest = p, !.unsaved = unsaved] # None
           /\ [work EXCEPT !.latest = p, !.unsaved = unsaved].latest = p
           /\ [work EXCEPT !.latest = p, !.unsaved = unsaved].unsaved = unsaved
  BY WorkFacts, NoneAssumption DEF WorkingDatabase

\* saveTo.
LEMMA SaveStep ==
    ASSUME IInv, UNCHANGED meets, NEW d \in Paths, NEW ok \in BOOLEAN, Save(d, ok)
    PROVE  IInv'
<1>1. /\ TypeOK /\ Running /\ bound' = d
      /\ UNCHANGED <<editing, gesture, left, points, warned>>
  BY DEF IInv, Save
<1>2. HistoryFits'
  BY <1>1 DEF IInv, HistoryFits, H!HistoryChain, H!StateAtCursor, editing
<1>3. CASE /\ file' = [file EXCEPT ![d] = work.latest]
           /\ work' = [work EXCEPT !.unsaved = FALSE]
           /\ dirty' = FALSE
  <2>1. /\ work' \in WorkingDatabase /\ work' # None
        /\ work'.latest = work.latest /\ ~work'.unsaved /\ work.latest \in Snapshots
    <3>1. work \in WorkingDatabase /\ work.latest \in Snapshots
      BY <1>1, WorkFacts
    <3>2. [work EXCEPT !.unsaved = FALSE] \in WorkingDatabase
          /\ [work EXCEPT !.unsaved = FALSE].latest = work.latest
          /\ ~[work EXCEPT !.unsaved = FALSE].unsaved
      BY <3>1 DEF WorkingDatabase
    <3> QED
      BY <1>3, <3>1, <3>2, NoneAssumption
  <2>2. file' \in [Paths -> Snapshots \cup {None}] /\ file'[d] = work.latest
    BY <1>1, <1>3, <2>1 DEF TypeOK
  <2>3. TypeOK'
    BY <1>1, <1>3, <2>1, <2>2 DEF TypeOK, editing
  <2>4. CommittedShown'
    BY <1>1, <2>1 DEF IInv, CommittedShown, Journaled, Running, editing
  <2>5. CleanIsKept'
    <3> SUFFICES ASSUME ~warned, gesture = None
                 PROVE  Stored(shown)'
      BY <1>1 DEF CleanIsKept
    <3>1. work.latest = shown
      BY <1>1 DEF IInv, CommittedShown, Journaled
    <3> QED
      BY <1>1, <2>2, <3>1 DEF Stored, editing
  <2> QED
    BY <1>1, <1>2, <2>3, <2>4, <2>5 DEF IInv
<1>4. CASE /\ \E content \in {file[d], work.latest} : file' = [file EXCEPT ![d] = content]
           /\ UNCHANGED <<work, dirty>>
  <2>1. PICK content \in {file[d], work.latest} : file' = [file EXCEPT ![d] = content]
    BY <1>4
  <2>2. work.latest \in Snapshots
    BY <1>1, WorkFacts
  <2>3. /\ file' \in [Paths -> Snapshots \cup {None}]
        /\ file'[d] \in {file[d], work.latest}
        /\ \A e \in Paths \ {d} : file'[e] = file[e]
    BY <1>1, <2>1, <2>2 DEF TypeOK
  <2>4. TypeOK'
    BY <1>1, <1>4, <2>3 DEF TypeOK, editing
  <2>5. CommittedShown'
    BY <1>1, <1>4 DEF IInv, CommittedShown, Journaled, Running, editing
  <2>6. CleanIsKept'
    <3> SUFFICES ASSUME ~warned, gesture = None, Stored(shown)
                 PROVE  Stored(shown)'
      BY <1>1, <1>4 DEF IInv, CleanIsKept, Failures, editing
    <3>1. work.latest = shown
      BY <1>1 DEF IInv, CommittedShown, Journaled
    <3> QED
      BY <1>1, <2>3, <3>1 DEF Stored, editing
  <2> QED
    BY <1>1, <1>2, <2>4, <2>5, <2>6 DEF IInv
<1> QED
  BY <1>3, <1>4 DEF Save

\* createNamedRestorePoint.
LEMMA RestorePointStep ==
    ASSUME IInv, UNCHANGED meets, CreateRestorePoint
    PROVE  IInv'
<1> DEFINE p == IF dirty THEN shown ELSE work.latest
<1>1. /\ TypeOK /\ Running /\ UNCHANGED <<editing, gesture, dirty, bound, left, file>>
  BY DEF IInv, CreateRestorePoint
<1>2. HistoryFits' /\ UNCHANGED Failures
  BY <1>1 DEF IInv, HistoryFits, H!HistoryChain, H!StateAtCursor, editing, Failures
<1>3. p \in Snapshots /\ dirty \in BOOLEAN /\ work.unsaved \in BOOLEAN
      /\ (dirty => shown \in Projects /\ p = shown) /\ (~dirty => p = work.latest)
  BY <1>1, WorkFacts DEF TypeOK, Snapshots
<1>4. (~warned \/ dirty) /\ gesture = None => p = shown
  BY <1>1, <1>3 DEF IInv, CommittedShown, Journaled
<1>5. \/ /\ work' = [work EXCEPT !.latest = p, !.unsaved = FALSE]
         /\ points' \in {points \cup {p}}
                        \cup (IF "manifest" \in Failures THEN {points} ELSE {})
         /\ warned' = (warned /\ ~dirty)
      \/ /\ dirty /\ Persist(p, FALSE)
         /\ UNCHANGED <<points, warned>>
      \/ /\ "checkpoint" \in Failures
         /\ work' = [work EXCEPT !.latest = p, !.unsaved = dirty \/ @]
         /\ warned' = (warned /\ ~dirty)
         /\ UNCHANGED points
  BY DEF CreateRestorePoint
<1> HIDE DEF p
<1>6. CASE /\ work' = [work EXCEPT !.latest = p, !.unsaved = FALSE]
           /\ points' \in {points \cup {p}}
                          \cup (IF "manifest" \in Failures THEN {points} ELSE {})
           /\ warned' = (warned /\ ~dirty)
  <2>1. work' \in WorkingDatabase /\ work' # None /\ work'.latest = p
    BY <1>1, <1>3, <1>6, WrittenFacts
  <2>2. points' = points \cup {p} \/ ("manifest" \in Failures /\ points' = points)
    BY <1>6
  <2>3. TypeOK'
    BY <1>1, <1>3, <1>6, <2>1, <2>2 DEF TypeOK, editing
  <2>4. CommittedShown'
    BY <1>1, <1>2, <1>4, <1>6, <2>1 DEF CommittedShown, Journaled, editing
  <2>5. CleanIsKept'
    BY <1>1, <1>2, <1>4, <1>6, <2>1, <2>2 DEF IInv, CleanIsKept, Stored, editing
  <2> QED
    BY <1>1, <1>2, <2>3, <2>4, <2>5 DEF IInv
<1>7. CASE dirty /\ Persist(p, FALSE) /\ UNCHANGED <<points, warned>>
  <2>1. work' \in WorkingDatabase
    BY <1>1, <1>3, <1>7, PersistFacts
  <2>2. TypeOK'
    BY <1>1, <1>7, <2>1 DEF TypeOK, editing
  <2>3. CommittedShown'
    <3>1. work' = work \/ work' = [work EXCEPT !.latest = p, !.unsaved = TRUE]
      BY <1>7 DEF Persist
    <3>2. CASE work' = work
      BY <1>1, <1>7, <3>2 DEF IInv, CommittedShown, Journaled, Running, editing
    <3>3. CASE work' = [work EXCEPT !.latest = p, !.unsaved = TRUE]
      <4>1. work'.latest = p
        BY <1>1, <1>3, <3>3, WrittenFacts
      <4> QED
        BY <1>1, <1>4, <1>7, <4>1 DEF CommittedShown, Journaled, editing
    <3> QED
      BY <3>1, <3>2, <3>3
  <2> QED
    BY <1>1, <1>2, <1>7, <2>2, <2>3 DEF IInv, CleanIsKept
<1>8. CASE /\ "checkpoint" \in Failures
           /\ work' = [work EXCEPT !.latest = p, !.unsaved = dirty \/ @]
           /\ warned' = (warned /\ ~dirty)
           /\ UNCHANGED points
  <2> DEFINE unsaved == dirty \/ work.unsaved
  <2>1. unsaved \in BOOLEAN /\ work' = [work EXCEPT !.latest = p, !.unsaved = unsaved]
    BY <1>3, <1>8
  <2>2. (~dirty => unsaved = work.unsaved)
    BY <1>3
  <2> HIDE DEF unsaved
  <2>3. work' \in WorkingDatabase /\ work' # None /\ work'.latest = p
        /\ work'.unsaved = unsaved
    BY <1>1, <1>3, <2>1, WrittenFacts
  <2>4. TypeOK'
    BY <1>1, <1>8, <2>3 DEF TypeOK, editing
  <2>5. CommittedShown'
    BY <1>1, <1>2, <1>4, <1>8, <2>3 DEF CommittedShown, Journaled, editing
  <2>6. CleanIsKept'
    BY <1>1, <1>2, <1>8, <2>2, <2>3 DEF IInv, CleanIsKept, Stored, editing
  <2> QED
    BY <1>1, <1>2, <2>4, <2>5, <2>6 DEF IInv
<1> QED
  BY <1>5, <1>6, <1>7, <1>8

-----------------------------------------------------------------------------
(* Turning to another project. *)

\* What remains after leaving a database are working databases, and one that
\* holds more than its last save is among them.
LEMMA LeftFacts ==
    ASSUME TypeOK, NEW rest \in SUBSET WorkingDatabase, LeaveBehind(rest)
    PROVE  /\ left' \subseteq WorkingDatabase
           /\ Running /\ work.unsaved => \E w \in left' : w.latest = work.latest
<1>1. CASE Running
  <2>1. PICK w \in Released : left' = rest \cup Recommended({w})
    BY <1>1 DEF LeaveBehind
  <2>2. /\ [work EXCEPT !.clean = TRUE] \in WorkingDatabase
        /\ [work EXCEPT !.clean = TRUE].latest = work.latest
        /\ [work EXCEPT !.clean = TRUE].unsaved = work.unsaved
    BY <1>1, WorkFacts DEF WorkingDatabase
  <2>3. w \in WorkingDatabase /\ w.latest = work.latest /\ w.unsaved = work.unsaved
    BY <1>1, <2>1, <2>2, WorkFacts DEF Released
  <2> QED
    BY <2>1, <2>3 DEF Recommended
<1>2. CASE ~Running
  BY <1>2 DEF LeaveBehind
<1> QED
  BY <1>1, <1>2

\* A history that starts anew.
LEMMA EmptyFits ==
    ASSUME history' = <<>>, cursor' = 0
    PROVE  HistoryFits' /\ history' \in Seq(H!Entry) /\ Len(history') = 0
           /\ cursor' \in 0 .. Len(history')
  BY EmptySeq DEF HistoryFits, H!HistoryChain, H!StateAtCursor

\* newProject.
LEMMA NewProjectStep ==
    ASSUME IInv, UNCHANGED meets, NEW ok \in BOOLEAN, NewProject(ok)
    PROVE  IInv'
<1>1. /\ TypeOK /\ LeaveBehind(left) /\ left \in SUBSET WorkingDatabase
      /\ shown' = DefaultProject /\ history' = <<>> /\ cursor' = 0 /\ bound' = None
      /\ UNCHANGED <<gesture, file, points>> /\ warned' = ~ok
  BY DEF IInv, NewProject, TypeOK
<1>2. DefaultProject \in Projects /\ MaxHistory \in Nat
  BY ProjectsAssumption, MaxHistoryAssumption
<1>3. \/ ok /\ work' = Working(DefaultProject, FALSE) /\ dirty' = FALSE
      \/ /\ ~ok /\ dirty' = dirty
         /\ work' \in {Working(Blank, FALSE), Working(DefaultProject, TRUE)}
  BY DEF NewProject
<1>4. \A q \in Snapshots, u \in BOOLEAN :
         /\ Working(q, u) \in WorkingDatabase
         /\ Working(q, u).latest = q /\ Working(q, u).unsaved = u
  BY DEF Working, WorkingDatabase
<1>5. Blank \in Snapshots /\ DefaultProject \in Snapshots
  BY <1>2 DEF Snapshots
<1>6. work' \in WorkingDatabase /\ dirty' \in BOOLEAN
      /\ (ok => work'.latest = DefaultProject)
  BY <1>1, <1>3, <1>4, <1>5 DEF TypeOK
<1>7. HistoryFits' /\ history' \in Seq(H!Entry) /\ Len(history') = 0
      /\ cursor' \in 0 .. Len(history')
  BY <1>1, EmptyFits
<1>8. left' \subseteq WorkingDatabase
  BY <1>1, LeftFacts
<1>9. TypeOK'
  BY <1>1, <1>2, <1>6, <1>7, <1>8, TypeStep DEF TypeOK
<1>10. CommittedShown'
  BY <1>1, <1>6 DEF CommittedShown, Journaled
<1>11. CleanIsKept'
  BY <1>1 DEF CleanIsKept, Stored
<1> QED
  BY <1>1, <1>7, <1>9, <1>10, <1>11 DEF IInv

\* The entry, if any, of an edit made while installing.
LEMMA StepFacts ==
    ASSUME NEW p \in Projects, NEW q \in Projects, NEW name \in {"command", "batch"}
    PROVE  /\ Step(name, p, q) \in Seq(H!Entry)
           /\ p = q => Step(name, p, q) = <<>>
           /\ p # q => /\ Len(Step(name, p, q)) = 1
                       /\ Step(name, p, q)[1].before = p /\ Step(name, p, q)[1].after = q
<1>1. CASE p = q
  BY <1>1, EmptySeq DEF Step
<1>2. CASE p # q
  <2> DEFINE e == [name |-> name, key |-> NoKey, before |-> p, after |-> q]
  <2>1. e \in H!Entry /\ e.before = p /\ e.after = q
    BY DEF H!Entry
  <2>2. Step(name, p, q) = <<e>>
    BY <1>2 DEF Step
  <2> HIDE DEF e
  <2> QED
    BY <1>2, <2>1, <2>2
<1> QED
  BY <1>1, <1>2

\* The undo entries of the upkeep edits lead from the installed project to full.
UpkeepEntries(p, media, full) == Step("command", p, media) \o Step("batch", media, full)
LEMMA UpkeepFacts ==
    ASSUME NEW p \in Projects, NEW media \in Projects, NEW full \in Projects,
           NEW h, h = UpkeepEntries(p, media, full)
    PROVE  /\ h \in Seq(H!Entry) /\ Len(h) \in 0 .. 2
           /\ p = media /\ media = full => h = <<>> /\ Len(h) = 0
           /\ p # media \/ media # full =>
                 /\ Recorded(h, full)
                 /\ h[Len(h)].before = IF media # full THEN media ELSE p
<1> DEFINE first == Step("command", p, media)
           second == Step("batch", media, full)
<1>1. first \in Seq(H!Entry) /\ second \in Seq(H!Entry)
      /\ (p = media => first = <<>>) /\ (media = full => second = <<>>)
      /\ (p # media => Len(first) = 1 /\ first[1].before = p /\ first[1].after = media)
      /\ (media # full => Len(second) = 1 /\ second[1].before = media
                                          /\ second[1].after = full)
  BY StepFacts
<1>2. h = first \o second
  BY DEF UpkeepEntries
<1> HIDE DEF first, second
<1>3. h \in Seq(H!Entry) /\ Len(h) = Len(first) + Len(second)
      /\ \A i \in 1 .. Len(first) + Len(second) :
            h[i] = IF i <= Len(first) THEN first[i] ELSE second[i - Len(first)]
  <2>1. first \o second \in Seq(H!Entry) /\ Len(first \o second) = Len(first) + Len(second)
        /\ \A i \in 1 .. Len(first) + Len(second) :
              (first \o second)[i] = IF i <= Len(first) THEN first[i]
                                                       ELSE second[i - Len(first)]
    BY <1>1, ConcatProperties
  <2> QED
    BY <1>2, <2>1
<1>8. h \in Seq(H!Entry)
  BY <1>3
<1>4. CASE p = media /\ media = full
  <2>1. h = <<>> /\ Len(h) = 0
    BY <1>1, <1>2, <1>4
  <2> QED
    BY <1>3, <1>4, <2>1
<1>5. CASE p = media /\ media # full
  <2>1. Len(first) = 0 /\ Len(second) = 1
    BY <1>1, <1>5
  <2>2. Len(h) = 1 /\ h[1] = second[1]
    BY <1>3, <2>1
  <2>3. h[1].before = media /\ h[1].after = full
    BY <1>1, <1>5, <2>2
  <2>4. Recorded(h, full)
    BY <1>8, <2>2, <2>3 DEF Recorded
  <2>5. Len(h) \in 0 .. 2
    BY <2>2
  <2>6. h[Len(h)].before = IF media # full THEN media ELSE p
    BY <1>5, <2>2, <2>3
  <2> QED
    BY <1>8, <1>5, <2>4, <2>5, <2>6
<1>6. CASE p # media /\ media = full
  <2>1. Len(first) = 1 /\ Len(second) = 0
    BY <1>1, <1>6
  <2>2. Len(h) = 1 /\ h[1] = first[1]
    BY <1>3, <2>1
  <2>3. h[1].before = p /\ h[1].after = full
    BY <1>1, <1>6, <2>2
  <2>4. Recorded(h, full)
    BY <1>8, <2>2, <2>3 DEF Recorded
  <2>5. Len(h) \in 0 .. 2
    BY <2>2
  <2>6. h[Len(h)].before = IF media # full THEN media ELSE p
    BY <1>6, <2>2, <2>3
  <2> QED
    BY <1>8, <1>6, <2>4, <2>5, <2>6
<1>7. CASE p # media /\ media # full
  <2>1. Len(first) = 1 /\ Len(second) = 1
    BY <1>1, <1>7
  <2>2. Len(h) = 2 /\ h[1] = first[1] /\ h[2] = second[1]
    BY <1>3, <2>1
  <2>3. h[1].after = media /\ h[2].before = media /\ h[2].after = full
    BY <1>1, <1>7, <2>2
  <2>4. \A i \in 1 .. Len(h) - 1 : h[i].after = h[i + 1].before
    <3>1. \A i \in 1 .. Len(h) - 1 : i = 1
      BY <2>2
    <3> QED
      BY <2>2, <2>3, <3>1
  <2>5. Recorded(h, full)
    BY <1>8, <2>2, <2>3, <2>4 DEF Recorded
  <2> QED
    BY <1>8, <1>7, <2>2, <2>3, <2>5
<1> QED
  BY <1>4, <1>5, <1>6, <1>7

\* What installProject leaves, with the choices it makes.
LEMMA InstallFacts ==
    ASSUME TypeOK, NEW p \in Projects, NEW unsaved \in BOOLEAN, NEW path \in Paths \cup {None},
           NEW asDirty \in BOOLEAN, Install(p, unsaved, path, asDirty)
    PROVE  /\ HistoryFits' /\ history' \in Seq(H!Entry) /\ Len(history') \in 0 .. 2
           /\ cursor' \in 0 .. Len(history')
           /\ shown' \in Projects /\ work' \in WorkingDatabase
           /\ bound' = path /\ dirty' \in BOOLEAN /\ warned' \in BOOLEAN
           /\ UNCHANGED <<gesture, file, points>>
           /\ ~warned' =>
              \E media \in Projects :
                 /\ "metadata" \notin meets.upkeep => shown' = media
                 /\ p = media /\ shown' = media => cursor' = 0
                 /\ work'.latest = shown'
                 /\ work'.unsaved = (unsaved \/ cursor' > 0)
                 /\ p # shown' => work'.unsaved
                 /\ dirty' = (asDirty \/ media # p)
<1>0. PICK media \in Relinked(p) : \E full \in Completed(media) :
        /\ history' = Step("command", p, media) \o Step("batch", media, full)
        /\ \/ Installed(p, media, full, unsaved, asDirty)
           \/ UpkeepRefused(p, media, full, unsaved, asDirty)
        /\ bound' = path
        /\ UNCHANGED <<gesture, file, points>>
  BY DEF Install
<1>1. PICK full \in Completed(media) :
        /\ history' = Step("command", p, media) \o Step("batch", media, full)
        /\ \/ Installed(p, media, full, unsaved, asDirty)
           \/ UpkeepRefused(p, media, full, unsaved, asDirty)
        /\ bound' = path
        /\ UNCHANGED <<gesture, file, points>>
  BY <1>0
<1>2. media \in Projects /\ full \in Projects
      /\ ("metadata" \notin meets.upkeep => full = media)
  BY <1>1 DEF Relinked, Completed
<1>3. /\ history' \in Seq(H!Entry) /\ Len(history') \in 0 .. 2
      /\ p = media /\ media = full => history' = <<>> /\ Len(history') = 0
      /\ p # media \/ media # full =>
            /\ Recorded(history', full)
            /\ history'[Len(history')].before = IF media # full THEN media ELSE p
  <2> DEFINE h == UpkeepEntries(p, media, full)
  <2>1. history' = h
    BY <1>1 DEF UpkeepEntries
  <2>2. /\ h \in Seq(H!Entry) /\ Len(h) \in 0 .. 2
        /\ p = media /\ media = full => h = <<>> /\ Len(h) = 0
        /\ p # media \/ media # full =>
              Recorded(h, full) /\ h[Len(h)].before = IF media # full THEN media ELSE p
    BY <1>2, UpkeepFacts
  <2> HIDE DEF h
  <2> QED
    BY <2>1, <2>2
<1>4. \A q \in Projects, u \in BOOLEAN :
         /\ Working(q, u) \in WorkingDatabase
         /\ Working(q, u).latest = q /\ Working(q, u).unsaved = u
  BY DEF Working, WorkingDatabase, Snapshots
<1>5. CASE Installed(p, media, full, unsaved, asDirty)
  <2>1. /\ cursor' = Len(history') /\ shown' = full
        /\ work' = Working(full, unsaved \/ cursor' > 0)
        /\ dirty' = (asDirty \/ media # p) /\ ~warned' /\ warned' = FALSE
    BY <1>5 DEF Installed
  <2>2. HistoryFits' /\ cursor' \in 0 .. Len(history') /\ shown' \in Projects
    <3>1. CASE p = media /\ media = full
      BY <1>2, <1>3, <2>1, <3>1, EmptyFits
    <3>2. CASE p # media \/ media # full
      BY <1>2, <1>3, <2>1, <3>2, RecordedFits
    <3> QED
      BY <3>1, <3>2
  <2>3. p # full => cursor' > 0
    BY <1>3, <2>1 DEF Recorded
  <2> DEFINE u == unsaved \/ cursor' > 0
  <2>4. u \in BOOLEAN
    OBVIOUS
  <2>5. work' \in WorkingDatabase /\ work'.latest = full /\ work'.unsaved = u
    BY <1>2, <1>4, <2>1, <2>4
  <2>6. p = media /\ media = full => cursor' = 0
    BY <1>3, <2>1
  <2> QED
    BY <1>1, <1>2, <1>3, <2>1, <2>2, <2>3, <2>5, <2>6
<1>6. CASE UpkeepRefused(p, media, full, unsaved, asDirty)
  <2>1. /\ p # media \/ media # full
        /\ cursor' = Len(history') - 1
        /\ shown' = IF media # full THEN media ELSE p
        /\ \/ work' = Working(shown', unsaved \/ cursor' > 0)
           \/ work' = Working(full, TRUE)
        /\ dirty' = (asDirty \/ shown' # p) /\ warned' = TRUE
    BY <1>6 DEF UpkeepRefused
  <2>2. HistoryFits' /\ cursor' \in 0 .. Len(history') /\ shown' \in Projects
    BY <1>2, <1>3, <2>1, RecordedFits
  <2> DEFINE u == unsaved \/ cursor' > 0
  <2>3. u \in BOOLEAN
    OBVIOUS
  <2>4. work' \in WorkingDatabase
    BY <1>2, <1>4, <2>1, <2>2, <2>3
  <2> QED
    BY <1>1, <1>3, <2>1, <2>2, <2>4
<1> QED
  BY <1>1, <1>5, <1>6

\* Installing a project that is kept somewhere, or marked as changed.
LEMMA InstallStep ==
    ASSUME IInv, UNCHANGED meets, NEW p \in Projects, NEW unsaved \in BOOLEAN,
           NEW path \in Paths \cup {None}, NEW asDirty \in BOOLEAN,
           NEW rest \in SUBSET WorkingDatabase,
           LeaveBehind(rest), Install(p, unsaved, path, asDirty), asDirty \/ Stored(p)
    PROVE  IInv'
<1>1. TypeOK
  BY DEF IInv
<1>2. /\ HistoryFits' /\ history' \in Seq(H!Entry) /\ Len(history') \in 0 .. 2
      /\ cursor' \in 0 .. Len(history')
      /\ shown' \in Projects /\ work' \in WorkingDatabase
      /\ bound' = path /\ dirty' \in BOOLEAN /\ warned' \in BOOLEAN
      /\ UNCHANGED <<gesture, file, points>>
  BY <1>1, InstallFacts
<1>3. left' \subseteq WorkingDatabase
  BY <1>1, LeftFacts
<1>4. Len(history') <= MaxHistory
  <2>1. \A n \in 0 .. 2 : n <= MaxHistory
    BY MaxHistoryAssumption
  <2> QED
    BY <1>2, <2>1
<1>5. TypeOK'
  BY <1>1, <1>2, <1>3, <1>4, TypeStep DEF TypeOK
<1>6. ~warned' =>
      \E media \in Projects :
         /\ "metadata" \notin meets.upkeep => shown' = media
         /\ work'.latest = shown'
         /\ p # shown' => work'.unsaved
         /\ dirty' = (asDirty \/ media # p)
  BY <1>1, InstallFacts
<1>7. CommittedShown'
  BY <1>6 DEF CommittedShown, Journaled
<1>8. CleanIsKept'
  <2> SUFFICES ASSUME ~warned', ~dirty'
               PROVE  /\ "metadata" \notin meets.upkeep => Stored(shown)'
                      /\ work'.unsaved \/ Stored(shown)'
    BY DEF CleanIsKept
  <2>1. PICK media \in Projects :
           /\ "metadata" \notin meets.upkeep => shown' = media
           /\ p # shown' => work'.unsaved
           /\ dirty' = (asDirty \/ media # p)
    BY <1>6
  <2>2. media = p /\ Stored(p)
    BY <2>1
  <2>3. p = shown' => Stored(shown)'
    BY <1>2, <2>2 DEF Stored
  <2> QED
    BY <2>1, <2>2, <2>3
<1> QED
  BY <1>1, <1>2, <1>5, <1>7, <1>8 DEF IInv

\* Only the databases left behind change.
LEMMA LeftStep ==
    ASSUME IInv, UNCHANGED meets, left' \subseteq WorkingDatabase,
           UNCHANGED <<editing, gesture, dirty, bound, work, file, points, warned>>
    PROVE  IInv'
<1>1. TypeOK'
  BY DEF IInv, TypeOK, editing
<1> QED
  BY <1>1 DEF IInv, HistoryFits, H!HistoryChain, H!StateAtCursor, CommittedShown,
              Journaled, CleanIsKept, Stored, Failures, Running, editing

\* loadCheckpoint.
LEMMA LoadStep ==
    ASSUME IInv, UNCHANGED meets, NEW p \in Snapshots, NEW path \in Paths \cup {None},
           NEW asDirty \in BOOLEAN, LoadCheckpoint(p, path, asDirty), asDirty \/ Stored(p)
    PROVE  IInv'
<1>1. left \in SUBSET WorkingDatabase
  BY DEF IInv, TypeOK
<1>2. CASE p = Blank
  <2>1. Working(Blank, FALSE) \in WorkingDatabase
    BY DEF Working, WorkingDatabase, Snapshots
  <2> QED
    BY <1>1, <1>2, <2>1, LeftStep DEF LoadCheckpoint
<1>3. CASE p # Blank
  BY <1>1, <1>3, InstallStep DEF LoadCheckpoint, Snapshots
<1> QED
  BY <1>2, <1>3

\* loadWorkingRecovery.
LEMMA RecoverStep ==
    ASSUME IInv, UNCHANGED meets, NEW w \in left, Recover(w)
    PROVE  IInv'
<1>1. left \in SUBSET WorkingDatabase /\ left \ {w} \in SUBSET WorkingDatabase
      /\ w \in WorkingDatabase
  BY DEF IInv, TypeOK
<1>2. w.latest \in Snapshots /\ w.unsaved \in BOOLEAN
      /\ [w EXCEPT !.clean = FALSE] \in WorkingDatabase
  BY <1>1 DEF WorkingDatabase
<1>3. CASE w.latest = Blank
  BY <1>1, <1>2, <1>3, LeftStep DEF Recover
<1>4. CASE w.latest # Blank
  BY <1>1, <1>2, <1>4, InstallStep DEF Recover, Snapshots
<1> QED
  BY <1>3, <1>4

\* Nothing runs any more.
LEMMA GoneStep ==
    ASSUME IInv, UNCHANGED meets, Gone, left' \subseteq WorkingDatabase
    PROVE  IInv'
<1>1. /\ shown' = DefaultProject /\ history' = <<>> /\ cursor' = 0 /\ gesture' = None
      /\ dirty' = FALSE /\ bound' = None /\ work' = None /\ UNCHANGED <<file, points>>
      /\ warned' = FALSE
  BY DEF Gone
<1>2. HistoryFits' /\ history' \in Seq(H!Entry) /\ Len(history') = 0
      /\ cursor' \in 0 .. Len(history')
  BY <1>1, EmptyFits
<1>3. Len(history') <= MaxHistory /\ DefaultProject \in Projects
  BY <1>2, MaxHistoryAssumption, ProjectsAssumption
<1>4. TypeOK'
  BY <1>1, <1>2, <1>3, TypeStep DEF IInv, TypeOK
<1> QED
  BY <1>1, <1>2, <1>4 DEF IInv, CommittedShown, Journaled, CleanIsKept, Running

-----------------------------------------------------------------------------
(* Every step. *)

LEMMA InitIInv == Init => IInv
<1> SUFFICES ASSUME Init
             PROVE  IInv
  OBVIOUS
<1>1. DefaultProject \in Projects /\ MaxHistory \in Nat /\ <<>> \in Seq(H!Entry)
  BY ProjectsAssumption, MaxHistoryAssumption, EmptySeq
<1>2. /\ shown \in Projects /\ gesture \in Gestures \cup {None} /\ dirty \in BOOLEAN
      /\ bound \in Paths \cup {None} /\ work \in WorkingDatabase \cup {None}
      /\ left \subseteq WorkingDatabase /\ points \subseteq Snapshots
      /\ warned \in BOOLEAN /\ meets \in Circumstances
  BY <1>1 DEF Init
<1>3. file \in [Paths -> Snapshots \cup {None}]
  BY DEF Init
<1>4. history \in Seq(H!Entry) /\ Len(history) = 0 /\ cursor = 0
  BY <1>1 DEF Init
<1>5. TypeOK
  BY <1>1, <1>2, <1>3, <1>4 DEF TypeOK
<1> QED
  BY <1>4, <1>5 DEF Init, IInv, HistoryFits, H!HistoryChain, H!StateAtCursor,
                    CommittedShown, Journaled, CleanIsKept, Running

LEMMA NextIInv == IInv /\ [Next]_vars => IInv'
<1> SUFFICES ASSUME IInv, [Next]_vars
             PROVE  IInv'
  OBVIOUS
<1>1. CASE UNCHANGED vars
  <2>1. UNCHANGED meets /\ UNCHANGED left
        /\ UNCHANGED <<editing, gesture, dirty, bound, work, file, points, warned>>
    BY <1>1 DEF vars, editing
  <2> QED
    BY <2>1, LeftStep DEF IInv, TypeOK
<1>2. CASE Turn /\ UNCHANGED meets
  <2>1. ASSUME NEW ok \in BOOLEAN, Edit(ok)
        PROVE  IInv'
    BY <1>2, <2>1, EditStep, NavigateStep DEF Edit
  <2>2. ASSUME NEW ok \in BOOLEAN, EndGesture(ok)
        PROVE  IInv'
    BY <1>2, <2>2, GestureStep
  <2>3. ASSUME NEW ok \in BOOLEAN, Autosave(ok)
        PROVE  IInv'
    <3>1. bound \in Paths /\ Save(bound, ok)
      BY <2>3 DEF Autosave, IInv, TypeOK
    <3> QED
      BY <1>2, <3>1, SaveStep
  <2>4. ASSUME NEW ok \in BOOLEAN, Start(ok) \/ New(ok)
        PROVE  IInv'
    BY <1>2, <2>4, NewProjectStep DEF Start, New
  <2>5. ASSUME \/ \E g \in Gestures : BeginGesture(g)
               \/ \E next \in Projects : UpdateGesture(next)
        PROVE  IInv'
    BY <1>2, <2>5, GestureStep
  <2>6. ASSUME NEW d \in Paths, NEW ok \in BOOLEAN, Save(d, ok)
        PROVE  IInv'
    BY <1>2, <2>6, SaveStep
  <2>7. ASSUME CreateRestorePoint
        PROVE  IInv'
    BY <1>2, <2>7, RestorePointStep
  <2>8. ASSUME NEW d \in Paths, Open(d)
        PROVE  IInv'
    <3>1. file[d] \in Snapshots /\ Stored(file[d]) /\ LoadCheckpoint(file[d], d, FALSE)
      BY <2>8 DEF Open, Stored, IInv, TypeOK
    <3> QED
      BY <1>2, <3>1, LoadStep
  <2>9. ASSUME NEW p \in points, LoadRestorePoint(p)
        PROVE  IInv'
    <3>1. p \in Snapshots /\ bound \in Paths \cup {None} /\ LoadCheckpoint(p, bound, TRUE)
      BY <2>9 DEF LoadRestorePoint, IInv, TypeOK
    <3> QED
      BY <1>2, <3>1, LoadStep
  <2>10. ASSUME NEW w \in left, Recover(w)
         PROVE  IInv'
    BY <1>2, <2>10, RecoverStep
  <2>11. CASE Exit
    <3>1. left' \subseteq WorkingDatabase
      BY <2>11, LeftFacts DEF Exit, IInv, TypeOK
    <3> QED
      BY <1>2, <2>11, <3>1, GoneStep DEF Exit
  <2>12. CASE Crash
    <3>1. left' \subseteq WorkingDatabase
      BY <2>12, WorkFacts DEF Crash, IInv, TypeOK
    <3> QED
      BY <1>2, <2>12, <3>1, GoneStep DEF Crash
  <2> QED
    BY <1>2, <2>1, <2>2, <2>3, <2>4, <2>5, <2>6, <2>7, <2>8, <2>9, <2>10, <2>11, <2>12
       DEF Turn, Leave
<1> QED
  BY <1>1, <1>2 DEF Next

\* Every behaviour keeps the inductive invariant.
THEOREM SessionInvariance == Spec => []IInv
  BY InitIInv, NextIInv, PTL DEF Spec

\* Every variable keeps its type.
THEOREM SessionTypes == Spec => []TypeOK
<1>1. IInv => TypeOK
  BY DEF IInv
<1> QED
  BY <1>1, SessionInvariance, PTL

\* The undo history of EditorController fits the project shown, through
\* rollbacks, gestures and upkeep edits: its entries join up, and the one at the
\* cursor ends in that project.
THEOREM HistoryTheorem == Spec => []HistoryFits
<1>1. IInv => HistoryFits
  BY DEF IInv
<1> QED
  BY <1>1, SessionInvariance, PTL

\* Between gestures the journal that persistSnapshot writes ends with the project
\* shown, unless a failed write was reported and none succeeded since.
THEOREM JournalShowsTheorem == Spec => []CommittedShown
<1>1. IInv => CommittedShown
  BY DEF IInv
<1> QED
  BY <1>1, SessionInvariance, PTL

-----------------------------------------------------------------------------
(* Rolling back. *)

\* What applyEdit and applyBatch leave of a project whose edit is refused.
LEMMA RefusedStep ==
    ASSUME TypeOK, HistoryFits, NEW next \in Projects
    PROVE  /\ \A key \in Keys \cup {NoKey} : Apply(key, next, FALSE) =>
                 IF H!CanCoalesce(H!Applied, key)
                 THEN BackTo(history[cursor].before, cursor - 1)
                 ELSE BackTo(shown, cursor)
           /\ ApplyBatch(next, FALSE) => BackTo(shown, cursor)
<1>1. cursor \in Nat
  BY HistoryLength
<1>2. ASSUME NEW h, Commit(next, h, FALSE)
      PROVE  history' = h /\ shown' = h[Len(h)].before /\ cursor' = Len(h) - 1
  BY <1>2 DEF Commit
<1>3. ASSUME NEW key \in Keys \cup {NoKey}, Apply(key, next, FALSE)
      PROVE  IF H!CanCoalesce(H!Applied, key)
             THEN BackTo(history[cursor].before, cursor - 1)
             ELSE BackTo(shown, cursor)
  <2> DEFINE h == H!Record(H!Applied, key, next)
  <2>1. history' = h /\ shown' = h[Len(h)].before /\ cursor' = Len(h) - 1
    BY <1>2, <1>3 DEF Apply
  <2>2. /\ H!CanCoalesce(H!Applied, key) =>
              /\ Len(h) = cursor /\ h[Len(h)].before = history[cursor].before
              /\ \A i \in 1 .. cursor - 1 : h[i] = history[i]
        /\ ~H!CanCoalesce(H!Applied, key) =>
              /\ Len(h) = cursor + 1 /\ h[Len(h)].before = shown
              /\ \A i \in 1 .. cursor : h[i] = history[i]
    BY RecordFacts
  <2> HIDE DEF h
  <2> QED
    BY <1>1, <2>1, <2>2 DEF BackTo
<1>4. ASSUME ApplyBatch(next, FALSE)
      PROVE  BackTo(shown, cursor)
  <2> DEFINE h == Append(H!Applied, BatchEntry(shown, next))
  <2>1. BatchEntry(shown, next) \in H!Entry /\ BatchEntry(shown, next).before = shown
    BY DEF BatchEntry, H!Entry, TypeOK
  <2>2. history' = h /\ shown' = h[Len(h)].before /\ cursor' = Len(h) - 1
    BY <1>2, <1>4 DEF ApplyBatch
  <2>3. /\ Len(h) = cursor + 1 /\ h[Len(h)].before = shown
        /\ \A i \in 1 .. cursor : h[i] = history[i]
    BY <2>1, PushFacts
  <2> HIDE DEF h
  <2> QED
    BY <1>1, <2>2, <2>3 DEF BackTo
<1> QED
  BY <1>3, <1>4

\* An edit that persistSnapshot refuses takes back its own undo entry and no
\* other: the project before that entry is shown again, and the entries below it
\* are the ones there were.  If the edit had not joined an entry, that is the
\* project shown before it.
THEOREM RollbackTheorem == Spec => RollbackRestores
<1>1. IInv /\ [Next]_vars =>
         [/\ \A key \in Keys \cup {NoKey}, next \in Projects : Apply(key, next, FALSE) =>
                IF H!CanCoalesce(H!Applied, key)
                THEN BackTo(history[cursor].before, cursor - 1) ELSE BackTo(shown, cursor)
          /\ \A next \in Projects : ApplyBatch(next, FALSE) => BackTo(shown, cursor)]_vars
  BY RefusedStep DEF IInv
<1> QED
  BY <1>1, SessionInvariance, PTL DEF Spec, RollbackRestores

-----------------------------------------------------------------------------
(* Leaving a project. *)

\* Leaving takes the working database to those left behind, or stays.
LEMMA LeaveFacts ==
    ASSUME TypeOK, Leave
    PROVE  /\ Running /\ UNCHANGED <<file, points>>
           /\ \/ \E rest \in SUBSET WorkingDatabase : LeaveBehind(rest)
              \/ UNCHANGED <<shown, work>>
<1>1. left \in SUBSET WorkingDatabase /\ \A w : left \ {w} \in SUBSET WorkingDatabase
  BY DEF TypeOK
<1>2. ASSUME NEW p, NEW path, NEW asDirty, LoadCheckpoint(p, path, asDirty)
      PROVE  /\ UNCHANGED <<file, points>>
             /\ LeaveBehind(left) \/ UNCHANGED <<shown, work>>
  BY <1>2 DEF LoadCheckpoint, Install, editing
<1>3. ASSUME NEW ok \in BOOLEAN, New(ok)
      PROVE  Running /\ UNCHANGED <<file, points>> /\ LeaveBehind(left)
  BY <1>3 DEF New, NewProject
<1>4. ASSUME NEW w \in left, Recover(w)
      PROVE  /\ Running /\ UNCHANGED <<file, points>>
             /\ LeaveBehind(left \ {w}) \/ UNCHANGED <<shown, work>>
  BY <1>4 DEF Recover, Install, editing
<1>5. ASSUME Exit
      PROVE  Running /\ UNCHANGED <<file, points>> /\ LeaveBehind(left)
  BY <1>5 DEF Exit, Gone
<1>6. ASSUME NEW d \in Paths, Open(d)
      PROVE  /\ Running /\ UNCHANGED <<file, points>>
             /\ LeaveBehind(left) \/ UNCHANGED <<shown, work>>
  BY <1>2, <1>6 DEF Open
<1>7. ASSUME NEW p \in points, LoadRestorePoint(p)
      PROVE  /\ Running /\ UNCHANGED <<file, points>>
             /\ LeaveBehind(left) \/ UNCHANGED <<shown, work>>
  BY <1>2, <1>7 DEF LoadRestorePoint
<1> QED
  BY <1>1, <1>3, <1>4, <1>5, <1>6, <1>7 DEF Leave

\* What the editor showed can be had again after a crash, and after leaving a
\* project that is not marked as changed.
LEMMA LossStep == IInv /\ [Next]_vars => [LosesNothing]_vars
<1> SUFFICES ASSUME IInv, ~warned,
                    "manifest" \in Failures =>
                        meets.drags = {} /\ "metadata" \notin meets.upkeep,
                    NEW p \in Projects,
                    shown = p, gesture = None, (~dirty /\ Leave) \/ Crash
             PROVE  Kept(p)'
  BY DEF LosesNothing
<1>1. TypeOK /\ Running
  BY LeaveFacts DEF IInv, Crash
<1>2. work.latest = p
  BY <1>1 DEF IInv, CommittedShown, Journaled
<1>3. CASE Crash
  BY <1>2, <1>3 DEF Crash, Kept
<1>4. CASE Leave /\ ~dirty
  <2>1. UNCHANGED <<file, points>>
    BY <1>1, <1>4, LeaveFacts
  <2>2. work.unsaved \/ Stored(p)
    BY <1>1, <1>4 DEF IInv, CleanIsKept
  <2>3. CASE UNCHANGED <<shown, work>>
    BY <1>1, <2>3 DEF Kept, Running
  <2>4. ASSUME NEW rest \in SUBSET WorkingDatabase, LeaveBehind(rest)
        PROVE  Kept(p)'
    <3>1. CASE work.unsaved
      BY <1>1, <1>2, <2>4, <3>1, LeftFacts DEF Kept
    <3>2. CASE Stored(p)
      BY <2>1, <3>2 DEF Stored, Kept
    <3> QED
      BY <2>2, <3>1, <3>2
  <2> QED
    BY <1>1, <1>4, <2>3, <2>4, LeaveFacts
<1> QED
  BY <1>3, <1>4

\* No project is lost without a question or a report: the journal, the recovery
\* directory, the file or a restore point still holds what a crash, or the
\* unquestioned end of a session, takes from the editor, whatever fails.
THEOREM LossTheorem == Spec => NoSilentLoss
  BY LossStep, SessionInvariance, PTL DEF Spec, NoSilentLoss

-----------------------------------------------------------------------------
(* Order. *)

\* An edit, an undo or a redo that succeeds.
LEMMA OrderedEdit ==
    ASSUME IInv, Edit(TRUE)
    PROVE  InOrder'
<1>1. PICK p \in Projects : Running /\ Persist(p, TRUE) /\ shown' = p /\ dirty' = TRUE
  <2>1. TypeOK
    BY DEF IInv
  <2>2. CASE Undo(TRUE)
    <3>1. history[cursor].before \in Projects
      BY <2>1, <2>2, HistoryLength DEF Undo
    <3> QED
      BY <2>2, <3>1 DEF Undo
  <2>3. CASE Redo(TRUE)
    <3>1. history[cursor + 1].after \in Projects
      BY <2>1, <2>3, HistoryLength DEF Redo
    <3> QED
      BY <2>3, <3>1 DEF Redo
  <2>4. ASSUME NEW next \in Projects, NEW h, Commit(next, h, TRUE)
        PROVE  Running /\ Persist(next, TRUE) /\ shown' = next /\ dirty' = TRUE
    BY <2>4 DEF Commit
  <2> QED
    BY <2>2, <2>3, <2>4 DEF Edit, Apply, ApplyBatch
<1>2. work'.latest = p
  BY <1>1, PersistFacts DEF IInv
<1> QED
  BY <1>1, <1>2 DEF InOrder, Journaled, CleanMeansSaved, UnsavedIsDirty

\* An edit with an undo entry of its own that is refused, and nothing appended.
LEMMA OrderedRefusal ==
    ASSUME IInv, InOrder, Edit(FALSE), ~Failed
    PROVE  InOrder'
<1>1. TypeOK /\ HistoryFits /\ cursor \in Nat
  BY HistoryLength DEF IInv
<1>2. work' = work /\ ~Undo(FALSE) /\ ~Redo(FALSE)
  BY DEF Failed
<1>3. ASSUME NEW h, NEW next \in Projects, Commit(next, h, FALSE)
      PROVE  UNCHANGED <<gesture, dirty, bound, file>>
  BY <1>3 DEF Commit, disks
<1>4. UNCHANGED <<gesture, dirty, bound, file>> /\ shown' = shown /\ cursor' = cursor
  <2>1. ASSUME NEW key \in Keys \cup {NoKey}, NEW next \in Projects, Apply(key, next, FALSE)
        PROVE  BackTo(shown, cursor) /\ UNCHANGED <<gesture, dirty, bound, file>>
    <3>1. ~H!CanCoalesce(H!Applied, key)
      BY <2>1 DEF Failed, H!CanCoalesce
    <3> QED
      BY <1>1, <1>3, <2>1, <3>1, RefusedStep DEF Apply
  <2>2. ASSUME NEW next \in Projects, ApplyBatch(next, FALSE)
        PROVE  BackTo(shown, cursor) /\ UNCHANGED <<gesture, dirty, bound, file>>
    BY <1>1, <1>3, <2>2, RefusedStep DEF ApplyBatch
  <2> QED
    BY <1>2, <2>1, <2>2 DEF Edit, BackTo
<1> QED
  BY <1>2, <1>4 DEF InOrder, Journaled, CleanMeansSaved, UnsavedIsDirty, Running

\* A save, but for one that fails while the project is clean and moves to another
\* path.
LEMMA OrderedSave ==
    ASSUME IInv, InOrder, gesture = None, NEW d \in Paths, NEW ok \in BOOLEAN, Save(d, ok),
           ok \/ dirty \/ d = bound
    PROVE  InOrder'
<1>1. /\ TypeOK /\ Running /\ bound' = d /\ d # None /\ UNCHANGED <<editing, gesture>>
      /\ work.latest = shown /\ (work.unsaved => dirty) /\ d \in DOMAIN file
  BY PathsAssumption
     DEF IInv, InOrder, Journaled, UnsavedIsDirty, Save, TypeOK
<1>2. CASE /\ file' = [file EXCEPT ![d] = work.latest]
           /\ work' = [work EXCEPT !.unsaved = FALSE]
           /\ dirty' = FALSE
  <2>1. work \in WorkingDatabase
    BY <1>1, WorkFacts
  <2>2. work'.latest = shown /\ ~work'.unsaved
    BY <1>1, <1>2, <2>1 DEF WorkingDatabase
  <2>3. file'[d] = shown
    BY <1>1, <1>2
  <2> QED
    BY <1>1, <2>2, <2>3 DEF InOrder, Journaled, CleanMeansSaved, UnsavedIsDirty, editing
<1>3. CASE /\ ~ok
           /\ \E content \in {file[d], work.latest} : file' = [file EXCEPT ![d] = content]
           /\ UNCHANGED <<work, dirty>>
  <2>1. file'[d] \in {file[d], shown}
    BY <1>1, <1>3
  <2>2. ~dirty => file[d] = shown
    BY <1>1, <1>3 DEF InOrder, CleanMeansSaved
  <2> QED
    BY <1>1, <1>3, <2>1, <2>2
       DEF InOrder, Journaled, CleanMeansSaved, UnsavedIsDirty, Running, editing
<1> QED
  BY <1>2, <1>3 DEF Save

\* createNamedRestorePoint, whichever of its steps fails.
LEMMA OrderedRestorePoint ==
    ASSUME IInv, InOrder, gesture = None, CreateRestorePoint
    PROVE  InOrder'
<1>1. /\ TypeOK /\ Running /\ UNCHANGED <<editing, gesture, dirty, bound, file>>
      /\ work.latest = shown /\ (work.unsaved => dirty) /\ shown \in Snapshots
      /\ dirty \in BOOLEAN /\ work.unsaved \in BOOLEAN /\ work \in WorkingDatabase
  BY WorkFacts DEF IInv, InOrder, Journaled, UnsavedIsDirty, CreateRestorePoint,
                   TypeOK, Snapshots
<1>2. work'.latest = shown /\ work'.unsaved \in BOOLEAN /\ (work'.unsaved => dirty)
  <2> DEFINE p == IF dirty THEN shown ELSE work.latest
             kept == dirty \/ work.unsaved
  <2>1. p = shown
    BY <1>1
  <2>2. kept \in BOOLEAN /\ (kept => dirty)
    BY <1>1
  <2>3. \/ work' = [work EXCEPT !.latest = p, !.unsaved = FALSE]
        \/ dirty /\ work' = work
        \/ dirty /\ work' = [work EXCEPT !.latest = p, !.unsaved = TRUE]
        \/ work' = [work EXCEPT !.latest = p, !.unsaved = kept]
    BY DEF CreateRestorePoint, Persist
  <2> HIDE DEF p, kept
  <2>4. \A u \in BOOLEAN : /\ [work EXCEPT !.latest = p, !.unsaved = u].latest = p
                          /\ [work EXCEPT !.latest = p, !.unsaved = u].unsaved = u
    BY <1>1, <2>1, WrittenFacts
  <2>5. FALSE \in BOOLEAN /\ TRUE \in BOOLEAN
    OBVIOUS
  <2>6. ASSUME NEW u \in BOOLEAN, u => dirty,
               work' = [work EXCEPT !.latest = p, !.unsaved = u]
        PROVE  work'.latest = shown /\ work'.unsaved \in BOOLEAN /\ (work'.unsaved => dirty)
    BY <2>1, <2>4, <2>6
  <2> QED
    BY <1>1, <2>2, <2>3, <2>5, <2>6
<1>3. CleanMeansSaved'
  BY <1>1 DEF InOrder, CleanMeansSaved, editing
<1> QED
  BY <1>1, <1>2, <1>3 DEF InOrder, Journaled, UnsavedIsDirty, editing

\* Nothing but the databases left behind changes.
LEMMA OrderedStay ==
    ASSUME InOrder, UNCHANGED <<editing, gesture, dirty, bound, work, file>>
    PROVE  InOrder'
  BY DEF InOrder, Journaled, CleanMeansSaved, UnsavedIsDirty, Running, editing

\* Installing without metadata to move: relinked media mark the project.
LEMMA OrderedInstall ==
    ASSUME TypeOK, "metadata" \notin meets.upkeep, NEW p \in Projects,
           NEW unsaved \in BOOLEAN, NEW path \in Paths \cup {None}, NEW asDirty \in BOOLEAN,
           Install(p, unsaved, path, asDirty),
           asDirty \/ (~unsaved /\ path # None /\ file[path] = p), ~warned'
    PROVE  InOrder'
<1>1. PICK media \in Projects :
         /\ shown' = media
         /\ p = media => cursor' = 0
         /\ work'.latest = shown' /\ work'.unsaved = (unsaved \/ cursor' > 0)
         /\ bound' = path /\ dirty' = (asDirty \/ media # p)
         /\ UNCHANGED <<gesture, file, points>>
  BY InstallFacts
<1>2. CASE asDirty \/ media # p
  BY <1>1, <1>2 DEF InOrder, Journaled, CleanMeansSaved, UnsavedIsDirty
<1>3. CASE ~asDirty /\ media = p
  <2>1. ~work'.unsaved
    BY <1>1, <1>3
  <2> QED
    BY <1>1, <1>3, <2>1 DEF InOrder, Journaled, CleanMeansSaved, UnsavedIsDirty
<1> QED
  BY <1>2, <1>3

\* Leaving and starting: another project, or none.
LEMMA OrderedLeave ==
    ASSUME IInv, InOrder, "metadata" \notin meets.upkeep,
           Leave \/ Crash \/ \E ok \in BOOLEAN : Start(ok),
           Leave => ~warned', ~Start(FALSE)
    PROVE  InOrder'
<1>1. TypeOK
  BY DEF IInv
<1>2. ASSUME NEW p \in Snapshots, NEW path \in Paths \cup {None}, NEW asDirty \in BOOLEAN,
             LoadCheckpoint(p, path, asDirty), asDirty \/ (path # None /\ file[path] = p),
             ~warned'
      PROVE  InOrder'
  <2>1. CASE p = Blank
    BY <1>2, <2>1, OrderedStay DEF LoadCheckpoint
  <2>2. CASE p # Blank
    <3>1. p \in Projects /\ Install(p, FALSE, path, asDirty)
      BY <1>2, <2>2 DEF LoadCheckpoint, Snapshots
    <3> QED
      BY <1>1, <1>2, <3>1, OrderedInstall
  <2> QED
    BY <2>1, <2>2
<1>3. ASSUME NewProject(TRUE)
      PROVE  InOrder'
  <2>1. /\ shown' = DefaultProject /\ cursor' = 0 /\ bound' = None
        /\ work' = Working(DefaultProject, FALSE) /\ dirty' = FALSE
    BY <1>3 DEF NewProject
  <2>2. work'.latest = shown' /\ ~work'.unsaved
    BY <2>1 DEF Working
  <2> QED
    BY <2>1, <2>2 DEF InOrder, Journaled, CleanMeansSaved, UnsavedIsDirty
<1>4. ASSUME NEW d \in Paths, Open(d), ~warned'
      PROVE  InOrder'
  <2>1. d # None /\ file[d] \in Snapshots /\ LoadCheckpoint(file[d], d, FALSE)
    BY <1>1, <1>4, PathsAssumption DEF Open, TypeOK
  <2> QED
    BY <1>2, <1>4, <2>1
<1>5. ASSUME NEW p \in points, LoadRestorePoint(p), ~warned'
      PROVE  InOrder'
  <2>1. p \in Snapshots /\ bound \in Paths \cup {None} /\ LoadCheckpoint(p, bound, TRUE)
    BY <1>1, <1>5 DEF LoadRestorePoint, TypeOK
  <2> QED
    BY <1>2, <1>5, <2>1
<1>6. ASSUME NEW w \in left, Recover(w), ~warned'
      PROVE  InOrder'
  <2>1. w.latest \in Snapshots /\ w.unsaved \in BOOLEAN
    BY <1>1 DEF TypeOK, WorkingDatabase
  <2>2. CASE w.latest = Blank
    BY <1>6, <2>2, OrderedStay DEF Recover
  <2>3. CASE w.latest # Blank
    <3>1. w.latest \in Projects /\ Install(w.latest, w.unsaved, None, TRUE)
      BY <1>6, <2>1, <2>3 DEF Recover, Snapshots
    <3> QED
      BY <1>1, <1>6, <2>1, <3>1, OrderedInstall
  <2> QED
    BY <2>2, <2>3
<1>7. ASSUME Exit \/ Crash
      PROVE  InOrder'
  BY <1>7 DEF Exit, Crash, Gone, InOrder, Journaled, CleanMeansSaved, UnsavedIsDirty,
     Running
<1>8. ASSUME NEW ok \in BOOLEAN, NewProject(ok), ok \/ ~warned'
      PROVE  InOrder'
  BY <1>3, <1>8 DEF NewProject
<1> QED
  BY <1>4, <1>5, <1>6, <1>7, <1>8 DEF Leave, Start, New

\* Editor, journal, file and dirty_ stay in order in every step that does not
\* fail half-way, in a session without gestures and without metadata to move.
THEOREM OrderTheorem == Spec => StaysInOrder
<1>1. ASSUME IInv, [Next]_vars, meets.drags = {}, "metadata" \notin meets.upkeep,
             InOrder, ~Failed
      PROVE  InOrder'
  <2>1. gesture = None
    BY <1>1 DEF IInv
  <2>2. CASE UNCHANGED vars
    BY <1>1, <2>2, OrderedStay DEF vars, editing
  <2>3. CASE Next
    <3>1. ASSUME NEW ok \in BOOLEAN, Edit(ok) \/ EndGesture(ok)
          PROVE  InOrder'
      BY <1>1, <2>1, <3>1, OrderedEdit, OrderedRefusal DEF EndGesture
    <3>2. ASSUME NEW ok \in BOOLEAN, Autosave(ok)
          PROVE  InOrder'
      <4>1. bound \in Paths /\ Save(bound, ok)
        BY <1>1, <3>2 DEF Autosave, IInv, TypeOK
      <4> QED
        BY <1>1, <2>1, <4>1, OrderedSave
    <3>3. ASSUME \/ \E g \in Gestures : BeginGesture(g)
                 \/ \E next \in Projects : UpdateGesture(next)
          PROVE  InOrder'
      BY <1>1, <2>1, <3>3 DEF BeginGesture, UpdateGesture
    <3>4. ASSUME NEW d \in Paths, NEW ok \in BOOLEAN, Save(d, ok)
          PROVE  InOrder'
      <4>1. ok \/ dirty \/ d = bound
        BY <1>1, <3>4 DEF Failed
      <4> QED
        BY <1>1, <2>1, <3>4, <4>1, OrderedSave
    <3>5. CASE CreateRestorePoint
      BY <1>1, <2>1, <3>5, OrderedRestorePoint
    <3>6. CASE Leave \/ Crash \/ \E ok \in BOOLEAN : Start(ok)
      <4>1. (Leave => ~warned') /\ ~Start(FALSE)
        BY <1>1 DEF Failed
      <4> QED
        BY <1>1, <3>6, <4>1, OrderedLeave
    <3> QED
      BY <2>3, <3>1, <3>2, <3>3, <3>4, <3>5, <3>6 DEF Next, Turn
  <2> QED
    BY <1>1, <2>2, <2>3
<1>2. IInv /\ [Next]_vars =>
         [meets.drags = {} /\ "metadata" \notin meets.upkeep =>
             (InOrder => InOrder' \/ Failed)]_vars
  BY <1>1
<1> QED
  BY <1>2, SessionInvariance, PTL DEF Spec, StaysInOrder

=============================================================================
