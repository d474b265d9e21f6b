----------------------------- MODULE EditHistory -----------------------------
(***************************************************************************)
(* edit::TimelineEditor: the revisioned project with its undo history      *)
(* (src/src/edit_model/src/timeline_editor.cpp), shared by several clients *)
(* (the desktop controller, agent sessions) that first read the head       *)
(* revision, then a snapshot of it, then submit an edit against it.  Each  *)
(* of the editor's methods holds its mutex for the whole call, so a call   *)
(* is one action and calls interleave freely.                              *)
(*                                                                         *)
(* What a command does to the project is abstracted to the project it      *)
(* produces; a command or batch that is rejected, stale, or beyond the     *)
(* revision limit changes nothing, so it is no step.                       *)
(***************************************************************************)
EXTENDS Integers, Sequences

CONSTANTS
    Projects,        \* project states that pass validateProject
    InitialProject,  \* what the editor is constructed with
    Keys,            \* coalescing keys in use
    NoKey,           \* the empty coalescing key
    Clients,         \* callers of the editor
    NoView,          \* a client that has not read its snapshot yet
    MaxRevision      \* the largest revision number (2^64 - 1 in the code)

ASSUME InitialProjectAssumption == InitialProject \in Projects
ASSUME NoKeyAssumption == NoKey \notin Keys
ASSUME NoViewAssumption == NoView \notin Projects
ASSUME MaxRevisionAssumption == MaxRevision \in Nat

VARIABLES
    state,      \* state_: the head project
    revision,   \* revision_: its number
    revisions,  \* revisions_: every project published, by number
    history,    \* history_: the undo entries, undone ones included
    cursor,     \* history_cursor_: how many of them are applied
    expected,   \* per client, the revision it read
    view        \* per client, the project it read at that revision

editor == <<state, revision, revisions, history, cursor>>
clients == <<expected, view>>
vars == <<state, revision, revisions, history, cursor, expected, view>>

\* TimelineEditor::HistoryEntry.  The name is the display name: that of the
\* first command of the entry, or that of the batch.
Entry == [name : {"command", "batch"}, key : Keys \cup {NoKey},
          before : Projects, after : Projects]

Init ==
    /\ state = InitialProject
    /\ revision = 0
    /\ revisions = [r \in {0} |-> InitialProject]
    /\ history = <<>>
    /\ cursor = 0
    /\ expected = [c \in Clients |-> 0]
    /\ view = [c \in Clients |-> NoView]

-----------------------------------------------------------------------------
(* The clients' reads. *)

\* TimelineEditor::revision(): a client pins the head revision.
ReadRevision(c) ==
    /\ expected' = [expected EXCEPT ![c] = revision]
    /\ view' = [view EXCEPT ![c] = NoView]
    /\ UNCHANGED editor

\* TimelineEditor::snapshot(): the project retained at the pinned revision,
\* which other clients may have superseded since.
Snapshot(c) ==
    /\ view[c] = NoView
    /\ expected[c] \in DOMAIN revisions
    /\ view' = [view EXCEPT ![c] = revisions[expected[c]]]
    /\ UNCHANGED <<editor, expected>>

-----------------------------------------------------------------------------
(* The edits. *)

\* Mutant of Current: no staleRevision().
CurrentOrStale(c) == view[c] # NoView

\* staleRevision() otherwise: an edit needs the head revision.
Current(c) == view[c] # NoView /\ expected[c] = revision

\* Mutant of CommitState: publishes under the head revision's number, too.
CommitStateOver(next) ==
    /\ revision < MaxRevision
    /\ revision' = revision + 1
    /\ state' = next
    /\ revisions' = [r \in 0 .. revision + 1 |->
                        IF r >= revision THEN next ELSE revisions[r]]

\* commitState(): publishes next as a new revision, unless the counter is full.
CommitState(next) ==
    /\ revision < MaxRevision
    /\ revision' = revision + 1
    /\ state' = next
    /\ revisions' = [r \in 0 .. revision + 1 |->
                        IF r = revision + 1 THEN next ELSE revisions[r]]

\* Mutant of Applied: the redo tail is not erased.
AppliedAndUndone == history

\* The entries that are left when the redo tail is erased.
Applied == SubSeq(history, 1, cursor)

\* An entry can take in a command of its own nonempty key.
CanCoalesce(h, key) == key # NoKey /\ Len(h) > 0 /\ h[Len(h)].key = key

\* The history h after a single command that yields next.
Record(h, key, next) ==
    IF CanCoalesce(h, key)
    THEN [h EXCEPT ![Len(h)] = [@ EXCEPT !.after = next]]
    ELSE Append(h, [name |-> "command", key |-> key,
                    before |-> state, after |-> next])

\* apply(): one command, possibly joining the latest entry.
Apply(c, key, next) ==
    /\ Current(c)
    /\ CommitState(next)
    /\ history' = Record(Applied, key, next)
    /\ cursor' = Len(history')
    /\ UNCHANGED clients

\* applyBatch(): several commands, always an entry of their own.
ApplyBatch(c, key, next) ==
    /\ Current(c)
    /\ CommitState(next)
    /\ history' = Append(Applied, [name |-> "batch", key |-> key,
                                   before |-> state, after |-> next])
    /\ cursor' = cursor + 1
    /\ UNCHANGED clients

\* Mutant of Undo: what is undone is dropped.
UndoForGood(c) ==
    /\ Current(c)
    /\ cursor > 0
    /\ CommitState(history[cursor].before)
    /\ cursor' = cursor - 1
    /\ history' = SubSeq(history, 1, cursor')
    /\ UNCHANGED clients

\* undo() and redo(): what they lead to is published as a new revision.
Undo(c) ==
    /\ Current(c)
    /\ cursor > 0
    /\ CommitState(history[cursor].before)
    /\ cursor' = cursor - 1
    /\ UNCHANGED <<history, clients>>

Redo(c) ==
    /\ Current(c)
    /\ cursor < Len(history)
    /\ CommitState(history[cursor + 1].after)
    /\ cursor' = cursor + 1
    /\ UNCHANGED <<history, clients>>

Edit(c) ==
    \/ \E key \in Keys \cup {NoKey}, next \in Projects :
          Apply(c, key, next) \/ ApplyBatch(c, key, next)
    \/ Undo(c)
    \/ Redo(c)

Next == \E c \in Clients : ReadRevision(c) \/ Snapshot(c) \/ Edit(c)

Spec == Init /\ [][Next]_vars

-----------------------------------------------------------------------------
(* Invariants. *)

\* The variables hold what their C++ types and the class's use of them allow.
TypeOK ==
    /\ state \in Projects
    /\ revision \in 0 .. MaxRevision
    /\ revisions \in [0 .. revision -> Projects]
    /\ history \in Seq(Entry)
    /\ cursor \in 0 .. Len(history)
    /\ expected \in [Clients -> 0 .. revision]
    /\ view \in [Clients -> Projects \cup {NoView}]

\* Undo entries join up: where one ends the next begins, so that undoing and
\* redoing walks through projects that were shown, whatever was coalesced,
\* undone and overwritten in between.
HistoryChain ==
    \A i \in 1 .. Len(history) - 1 : history[i].after = history[i + 1].before

\* The head project is where the cursor stands in the history: redoing would
\* start from it and undoing would lead away from it.
StateAtCursor ==
    /\ cursor > 0 => history[cursor].after = state
    /\ cursor < Len(history) => history[cursor + 1].before = state

\* Undoing everything leads back to the project that was opened, not to some
\* state in between.
OldestUndoIsInitial ==
    IF Len(history) = 0 THEN state = InitialProject
                        ELSE history[1].before = InitialProject

\* The project shown is the one published under the head revision.
HeadPublished == revisions[revision] = state

\* A client's view is the project published under the revision it pinned,
\* even when the head has moved on between its two calls.
ViewIsPinned == \A c \in Clients : view[c] # NoView => view[c] = revisions[expected[c]]

\* Adjacent commands of one nonempty key are one undo step; only a batch may
\* follow an entry of its own key (docs/reference/timeline-semantics.md).
AdjacentKeysCollapse ==
    \A i \in 1 .. Len(history) - 1 :
        /\ history[i].key = history[i + 1].key
        /\ history[i].key # NoKey
        => history[i + 1].name = "batch"

-----------------------------------------------------------------------------
(* Action properties. *)

\* A published revision is immutable and stays retained: readers that hold its
\* number (previews, exports, agents) see the same project for ever.
Immutable == \A r \in DOMAIN revisions :
                r \in DOMAIN revisions' /\ revisions'[r] = revisions[r]
RevisionsImmutable == [][Immutable]_vars

\* No lost update: an edit that is accepted was computed from the project it
\* is applied to, however the clients' reads and edits interleave.
EditsWhatItSaw == \A c \in Clients : Edit(c) => view[c] = state
NoLostUpdate == [][EditsWhatItSaw]_vars

-----------------------------------------------------------------------------
(* The abstract undo stack this history implements. *)

Past == [i \in 1 .. cursor |-> history[i].before]
Future == [i \in 1 .. Len(history) - cursor |-> history[cursor + i].after]

Stack == INSTANCE UndoStack WITH past <- Past, present <- state, future <- Future

\* Undo and redo move through exactly the projects that were shown, a new edit
\* makes what was undone unreachable, and a coalesced edit only replaces the
\* present.
ImplementsUndoStack == Stack!Spec

=============================================================================
