--------------------------- MODULE EditModelProofs ---------------------------
(***************************************************************************)
(* What the edit model guarantees for all values of the constants: first   *)
(* the history of revisions (EditHistory), for any number of projects,     *)
(* keys, clients and revisions; then the timeline (Timeline, UserEdits),   *)
(* for any number of tracks, media, clips, groups and edits.               *)
(***************************************************************************)
EXTENDS EditHistory, UserEdits, SequenceTheorems, FiniteSetTheorems, WellFoundedInduction,
        NaturalsInduction, TLAPS

-----------------------------------------------------------------------------
(* The history after an edit, without sequence operators. *)

\* A new entry on top of the applied ones.
Pushed(key) ==
    /\ history' \in Seq(Entry)
    /\ Len(history') = cursor + 1
    /\ cursor' = cursor + 1
    /\ \A i \in 1 .. cursor : history'[i] = history[i]
    /\ history'[cursor + 1].before = state
    /\ history'[cursor + 1].after = state'
    /\ history'[cursor + 1].key = key
    /\ history'[cursor + 1].name = "command" /\ key # NoKey /\ cursor > 0
       => history[cursor].key # key

\* The topmost applied entry takes in the edit.
Fused ==
    /\ cursor > 0
    /\ history' \in Seq(Entry)
    /\ Len(history') = cursor
    /\ cursor' = cursor
    /\ \A i \in 1 .. cursor - 1 : history'[i] = history[i]
    /\ history'[cursor].before = history[cursor].before
    /\ history'[cursor].after = state'
    /\ history'[cursor].key = history[cursor].key
    /\ history'[cursor].name = history[cursor].name

\* Erasing the redo tail keeps the applied entries and nothing else.
LEMMA AppliedFacts ==
    ASSUME TypeOK
    PROVE  /\ Applied \in Seq(Entry)
           /\ Len(Applied) = cursor
           /\ \A i \in 1 .. cursor : Applied[i] = history[i]
<1>1. /\ history \in Seq(Entry)
      /\ cursor \in 0 .. Len(history)
      /\ Len(history) \in Nat
  BY LenProperties DEF TypeOK
<1>2. \A i \in 1 .. cursor : history[i] \in Entry
  BY <1>1, ElementOfSeq
<1> QED
  BY <1>1, <1>2, SubSeqProperties DEF Applied

\* Appending an entry to the applied ones.
LEMMA PushFacts ==
    ASSUME TypeOK, NEW e \in Entry
    PROVE  /\ Append(Applied, e) \in Seq(Entry)
           /\ Len(Append(Applied, e)) = cursor + 1
           /\ \A i \in 1 .. cursor : Append(Applied, e)[i] = history[i]
           /\ Append(Applied, e)[cursor + 1] = e
  BY AppliedFacts, AppendProperties

\* A batch pushes an entry.
LEMMA BatchPushes ==
    ASSUME TypeOK, NEW c \in Clients, NEW key \in Keys \cup {NoKey},
           NEW next \in Projects, ApplyBatch(c, key, next)
    PROVE  Pushed(key)
<1> DEFINE e == [name |-> "batch", key |-> key, before |-> state, after |-> next]
<1>1. e \in Entry
  BY DEF TypeOK, Entry
<1>2. state' = next /\ history' = Append(Applied, e) /\ cursor' = cursor + 1
  BY DEF ApplyBatch, CommitState
<1>0. e.name = "batch" /\ e.key = key /\ e.before = state /\ e.after = next
  OBVIOUS
<1> HIDE DEF e
<1>3. /\ history' \in Seq(Entry)
      /\ Len(history') = cursor + 1
      /\ \A i \in 1 .. cursor : history'[i] = history[i]
      /\ history'[cursor + 1] = e
  BY <1>1, <1>2, PushFacts
<1> QED
  BY <1>0, <1>2, <1>3 DEF Pushed

\* A single command pushes an entry or joins the topmost one.
LEMMA ApplyPushesOrFuses ==
    ASSUME TypeOK, NEW c \in Clients, NEW key \in Keys \cup {NoKey},
           NEW next \in Projects, Apply(c, key, next)
    PROVE  Pushed(key) \/ Fused
<1>1. /\ state' = next
      /\ history' = Record(Applied, key, next)
      /\ cursor' = Len(history')
  BY DEF Apply, CommitState
<1>2. /\ Applied \in Seq(Entry)
      /\ Len(Applied) = cursor
      /\ cursor \in Nat
      /\ \A i \in 1 .. cursor : Applied[i] = history[i]
  <2>1. cursor \in Nat
    BY LenProperties DEF TypeOK
  <2> QED
    BY <2>1, AppliedFacts
<1>3. CASE CanCoalesce(Applied, key)
  <2> DEFINE top == Applied[cursor]
             e == [top EXCEPT !.after = next]
  <2>1. cursor > 0 /\ top = history[cursor]
    BY <1>2, <1>3 DEF CanCoalesce
  <2>2. top \in Entry
    BY <1>2, <2>1, ElementOfSeq
  <2>3. /\ e \in Entry
        /\ e.before = top.before
        /\ e.after = next
        /\ e.key = top.key
        /\ e.name = top.name
    BY <2>2 DEF Entry
  <2>4. history' = [Applied EXCEPT ![cursor] = e]
    BY <1>1, <1>2, <1>3 DEF Record
  <2> HIDE DEF e, top
  <2>5. /\ history' \in Seq(Entry)
        /\ Len(history') = cursor
        /\ \A j \in 1 .. cursor : history'[j] = IF j = cursor THEN e ELSE Applied[j]
    BY <1>2, <2>1, <2>3, <2>4, ExceptSeq
  <2> QED
    BY <1>1, <1>2, <2>1, <2>3, <2>5 DEF Fused
<1>4. CASE ~CanCoalesce(Applied, key)
  <2> DEFINE e == [name |-> "command", key |-> key, before |-> state, after |-> next]
  <2>1. e \in Entry
    BY DEF TypeOK, Entry
  <2>2. history' = Append(Applied, e)
    BY <1>1, <1>4 DEF Record
  <2> HIDE DEF e
  <2>3. /\ history' \in Seq(Entry)
        /\ Len(history') = cursor + 1
        /\ \A i \in 1 .. cursor : history'[i] = history[i]
        /\ history'[cursor + 1] = e
    BY <2>1, <2>2, PushFacts
  <2>4. key # NoKey /\ cursor > 0 => history[cursor].key # key
    BY <1>2, <1>4 DEF CanCoalesce
  <2> QED
    BY <1>1, <1>2, <2>3, <2>4 DEF Pushed, e
<1> QED
  BY <1>3, <1>4

-----------------------------------------------------------------------------
(* The inductive invariant. *)

IInv ==
    /\ TypeOK
    /\ HistoryChain
    /\ StateAtCursor
    /\ OldestUndoIsInitial
    /\ HeadPublished
    /\ ViewIsPinned
    /\ AdjacentKeysCollapse

\* The parts of the invariant that are about the undo entries.
HistoryInv ==
    /\ history \in Seq(Entry)
    /\ cursor \in 0 .. Len(history)
    /\ HistoryChain
    /\ StateAtCursor
    /\ OldestUndoIsInitial
    /\ AdjacentKeysCollapse

\* The history and its cursor are within bounds, and its elements are entries.
LEMMA HistoryLength ==
    ASSUME TypeOK
    PROVE  /\ Len(history) \in Nat
           /\ cursor \in Nat
           /\ cursor <= Len(history)
           /\ \A i \in 1 .. Len(history) : history[i] \in Entry
<1>1. Len(history) \in Nat
  BY LenProperties DEF TypeOK
<1>2. \A i \in 1 .. Len(history) : history[i] \in Entry
  BY ElementOfSeq DEF TypeOK
<1> QED
  BY <1>1, <1>2 DEF TypeOK

\* Pushing an entry on the applied ones keeps the chain.
LEMMA PushedKeeps ==
    ASSUME TypeOK, HistoryInv, NEW key \in Keys \cup {NoKey}, Pushed(key)
    PROVE  HistoryInv'
<1>1. /\ Len(history) \in Nat
      /\ cursor \in Nat
      /\ cursor <= Len(history)
      /\ \A i \in 1 .. Len(history) : history[i] \in Entry
  BY HistoryLength
<1>2. (history \in Seq(Entry) /\ cursor \in 0 .. Len(history))'
  BY <1>1 DEF Pushed
<1>3. HistoryChain'
  BY <1>1 DEF Pushed, HistoryInv, HistoryChain, StateAtCursor
<1>4. StateAtCursor'
  BY <1>1 DEF Pushed, StateAtCursor
<1>5. OldestUndoIsInitial'
  BY <1>1 DEF Pushed, HistoryInv, StateAtCursor, OldestUndoIsInitial
<1>6. AdjacentKeysCollapse'
  <2> SUFFICES ASSUME NEW i \in 1 .. cursor,
                      history'[i].key = history'[i + 1].key,
                      history'[i].key # NoKey
               PROVE  history'[i + 1].name = "batch"
    BY <1>1 DEF Pushed, AdjacentKeysCollapse
  <2>1. CASE i = cursor
    <3>1. history'[cursor + 1] \in Entry
      BY <1>1, ElementOfSeq DEF Pushed
    <3> QED
      BY <1>1, <2>1, <3>1 DEF Pushed, Entry
  <2>2. CASE i # cursor
    BY <1>1, <2>2 DEF Pushed, HistoryInv, AdjacentKeysCollapse
  <2> QED
    BY <2>1, <2>2
<1> QED
  BY <1>2, <1>3, <1>4, <1>5, <1>6 DEF HistoryInv

\* Joining a command to the topmost applied entry keeps the chain.
LEMMA FusedKeeps ==
    ASSUME TypeOK, HistoryInv, Fused
    PROVE  HistoryInv'
<1>1. /\ Len(history) \in Nat
      /\ cursor \in Nat
      /\ cursor <= Len(history)
  BY HistoryLength
<1>2. (history \in Seq(Entry) /\ cursor \in 0 .. Len(history))'
  BY <1>1 DEF Fused
<1>3. HistoryChain'
  BY <1>1 DEF Fused, HistoryInv, HistoryChain
<1>4. StateAtCursor'
  BY <1>1 DEF Fused, StateAtCursor
<1>5. OldestUndoIsInitial'
  BY <1>1 DEF Fused, HistoryInv, OldestUndoIsInitial
<1>6. AdjacentKeysCollapse'
  BY <1>1 DEF Fused, HistoryInv, AdjacentKeysCollapse
<1> QED
  BY <1>2, <1>3, <1>4, <1>5, <1>6 DEF HistoryInv

\* The parts of the invariant that are about published revisions and clients
\* survive any commit of a valid project.
LEMMA CommitKeeps ==
    ASSUME TypeOK, HeadPublished, ViewIsPinned,
           NEW next \in Projects, CommitState(next), UNCHANGED clients
    PROVE  /\ state' \in Projects
           /\ revision' \in 0 .. MaxRevision
           /\ (revisions \in [0 .. revision -> Projects])'
           /\ (expected \in [Clients -> 0 .. revision])'
           /\ (view \in [Clients -> Projects \cup {NoView}])'
           /\ HeadPublished'
           /\ ViewIsPinned'
<1> USE DEF TypeOK, CommitState, clients
<1>1. revision' \in 0 .. MaxRevision /\ state' \in Projects
  BY MaxRevisionAssumption
<1>2. (revisions \in [0 .. revision -> Projects])'
  BY MaxRevisionAssumption
<1>3. (expected \in [Clients -> 0 .. revision])'
  <2>1. 0 .. revision \subseteq 0 .. revision'
    BY MaxRevisionAssumption
  <2> QED
    BY <2>1
<1>4. HeadPublished'
  BY MaxRevisionAssumption DEF HeadPublished
<1>5. ViewIsPinned'
  BY MaxRevisionAssumption DEF ViewIsPinned
<1> QED
  BY <1>1, <1>2, <1>3, <1>4, <1>5

\* An undo keeps the invariant.
LEMMA UndoKeeps ==
    ASSUME TypeOK, HistoryInv, NEW c \in Clients, Undo(c)
    PROVE  history[cursor].before \in Projects /\ HistoryInv'
<1>1. /\ Len(history) \in Nat
      /\ cursor \in Nat
      /\ cursor <= Len(history)
      /\ \A i \in 1 .. Len(history) : history[i] \in Entry
  BY HistoryLength
<1>2. /\ cursor > 0
      /\ history' = history
      /\ cursor' = cursor - 1
      /\ state' = history[cursor].before
  BY DEF Undo, CommitState
<1>3. history[cursor].before \in Projects
  BY <1>1, <1>2 DEF Entry
<1>4. StateAtCursor'
  BY <1>1, <1>2 DEF HistoryInv, HistoryChain, StateAtCursor
<1>5. OldestUndoIsInitial'
  BY <1>1, <1>2 DEF HistoryInv, OldestUndoIsInitial
<1>6. (HistoryChain /\ AdjacentKeysCollapse)'
  BY <1>2 DEF HistoryInv, HistoryChain, AdjacentKeysCollapse
<1> QED
  BY <1>1, <1>2, <1>3, <1>4, <1>5, <1>6 DEF HistoryInv

\* A redo keeps the invariant.
LEMMA RedoKeeps ==
    ASSUME TypeOK, HistoryInv, NEW c \in Clients, Redo(c)
    PROVE  history[cursor + 1].after \in Projects /\ HistoryInv'
<1>1. /\ Len(history) \in Nat
      /\ cursor \in Nat
      /\ cursor <= Len(history)
      /\ \A i \in 1 .. Len(history) : history[i] \in Entry
  BY HistoryLength
<1>2. /\ cursor < Len(history)
      /\ history' = history
      /\ cursor' = cursor + 1
      /\ state' = history[cursor + 1].after
  BY DEF Redo, CommitState
<1>3. history[cursor + 1].after \in Projects
  BY <1>1, <1>2 DEF Entry
<1>4. StateAtCursor'
  BY <1>1, <1>2 DEF HistoryInv, HistoryChain, StateAtCursor
<1>5. OldestUndoIsInitial'
  BY <1>1, <1>2 DEF HistoryInv, OldestUndoIsInitial
<1>6. (HistoryChain /\ AdjacentKeysCollapse)'
  BY <1>2 DEF HistoryInv, HistoryChain, AdjacentKeysCollapse
<1> QED
  BY <1>1, <1>2, <1>3, <1>4, <1>5, <1>6 DEF HistoryInv

\* The initial state satisfies the invariant.
LEMMA InitIInv == Init => IInv
<1> SUFFICES ASSUME Init PROVE IInv
  OBVIOUS
<1> USE DEF Init
<1>1. history \in Seq(Entry) /\ Len(history) = 0
  BY EmptySeq
<1>2. TypeOK
  <2>1. revisions \in [0 .. revision -> Projects]
    BY InitialProjectAssumption
  <2> QED
    BY <1>1, <2>1, InitialProjectAssumption, MaxRevisionAssumption DEF TypeOK
<1>3. HistoryChain /\ AdjacentKeysCollapse
  BY <1>1 DEF HistoryChain, AdjacentKeysCollapse
<1>4. StateAtCursor /\ OldestUndoIsInitial
  BY <1>1 DEF StateAtCursor, OldestUndoIsInitial
<1>5. HeadPublished /\ ViewIsPinned
  BY NoViewAssumption DEF HeadPublished, ViewIsPinned
<1> QED
  BY <1>2, <1>3, <1>4, <1>5 DEF IInv

\* Every action preserves the invariant.
LEMMA NextIInv == IInv /\ [Next]_vars => IInv'
<1> SUFFICES ASSUME IInv, [Next]_vars PROVE IInv'
  OBVIOUS
<1>0. TypeOK /\ HistoryInv /\ HeadPublished /\ ViewIsPinned
  BY DEF IInv, HistoryInv, TypeOK
<1>1. ASSUME NEW c \in Clients, ReadRevision(c) PROVE IInv'
  BY <1>0, <1>1
  DEF IInv, TypeOK, ReadRevision, editor, HistoryChain, StateAtCursor,
      OldestUndoIsInitial, HeadPublished, ViewIsPinned, AdjacentKeysCollapse
<1>2. ASSUME NEW c \in Clients, Snapshot(c) PROVE IInv'
  <2>1. TypeOK'
    BY <1>0, <1>2 DEF TypeOK, Snapshot, editor
  <2>2. ViewIsPinned'
    BY <1>0, <1>2 DEF TypeOK, Snapshot, editor, ViewIsPinned
  <2> QED
    BY <1>0, <1>2, <2>1, <2>2
    DEF IInv, Snapshot, editor, HistoryChain, StateAtCursor,
        OldestUndoIsInitial, HeadPublished, AdjacentKeysCollapse
<1>3. ASSUME NEW c \in Clients, NEW key \in Keys \cup {NoKey},
             NEW next \in Projects, Apply(c, key, next)
      PROVE  IInv'
  <2>1. HistoryInv'
    BY <1>0, <1>3, ApplyPushesOrFuses, PushedKeeps, FusedKeeps
  <2>2. CommitState(next) /\ UNCHANGED clients
    BY <1>3 DEF Apply
  <2> QED
    BY <1>0, <2>1, <2>2, CommitKeeps DEF IInv, HistoryInv, TypeOK
<1>4. ASSUME NEW c \in Clients, NEW key \in Keys \cup {NoKey},
             NEW next \in Projects, ApplyBatch(c, key, next)
      PROVE  IInv'
  <2>1. HistoryInv'
    BY <1>0, <1>4, BatchPushes, PushedKeeps
  <2>2. CommitState(next) /\ UNCHANGED clients
    BY <1>4 DEF ApplyBatch
  <2> QED
    BY <1>0, <2>1, <2>2, CommitKeeps DEF IInv, HistoryInv, TypeOK
<1>5. ASSUME NEW c \in Clients, Undo(c) PROVE IInv'
  <2>1. history[cursor].before \in Projects /\ HistoryInv'
    BY <1>0, <1>5, UndoKeeps
  <2>2. CommitState(history[cursor].before) /\ UNCHANGED clients
    BY <1>5 DEF Undo, clients
  <2> QED
    BY <1>0, <2>1, <2>2, CommitKeeps DEF IInv, HistoryInv, TypeOK
<1>6. ASSUME NEW c \in Clients, Redo(c) PROVE IInv'
  <2>1. history[cursor + 1].after \in Projects /\ HistoryInv'
    BY <1>0, <1>6, RedoKeeps
  <2>2. CommitState(history[cursor + 1].after) /\ UNCHANGED clients
    BY <1>6 DEF Redo, clients
  <2> QED
    BY <1>0, <2>1, <2>2, CommitKeeps DEF IInv, HistoryInv, TypeOK
<1>7. CASE UNCHANGED vars
  BY <1>0, <1>7
  DEF IInv, vars, TypeOK, HistoryChain, StateAtCursor,
      OldestUndoIsInitial, HeadPublished, ViewIsPinned, AdjacentKeysCollapse
<1> QED
  BY <1>1, <1>2, <1>3, <1>4, <1>5, <1>6, <1>7 DEF Next, Edit

-----------------------------------------------------------------------------
(* The theorems. *)

\* In every reachable state the editor's fields have their types, the undo
\* entries join up around the head project, and readers see what they pinned.
THEOREM Invariance == Spec => []IInv
  BY InitIInv, NextIInv, PTL DEF Spec

\* The undo history is a chain from the opened project through the head one.
THEOREM UndoHistory ==
    Spec => [](HistoryChain /\ StateAtCursor /\ OldestUndoIsInitial)
<1>1. IInv => HistoryChain /\ StateAtCursor /\ OldestUndoIsInitial
  BY DEF IInv
<1> QED
  BY <1>1, Invariance, PTL

\* No step changes or drops a published revision.
THEOREM Immutability == Spec => RevisionsImmutable
<1>1. IInv /\ [Next]_vars => [Immutable]_vars
  <2> SUFFICES ASSUME TypeOK, Next PROVE Immutable
    BY DEF IInv
  <2>1. CASE UNCHANGED revisions
    BY <2>1 DEF TypeOK, Immutable
  <2>2. ASSUME NEW next, CommitState(next) PROVE Immutable
    BY <2>2, MaxRevisionAssumption DEF TypeOK, CommitState, Immutable
  <2>3. UNCHANGED revisions \/ \E next : CommitState(next)
    BY DEF Next, Edit, ReadRevision, Snapshot, Apply, ApplyBatch, Undo, Redo, editor
  <2> QED
    BY <2>1, <2>2, <2>3
<1> QED
  BY <1>1, Invariance, PTL DEF Spec, RevisionsImmutable

\* Every accepted edit was computed from the project it is applied to.
THEOREM NoUpdateLost == Spec => NoLostUpdate
<1>1. IInv /\ [Next]_vars => [EditsWhatItSaw]_vars
  <2> SUFFICES ASSUME IInv, NEW c \in Clients, Edit(c) PROVE view[c] = state
    BY DEF EditsWhatItSaw
  <2>1. Current(c)
    BY DEF Edit, Apply, ApplyBatch, Undo, Redo
  <2> QED
    BY <2>1 DEF IInv, Current, ViewIsPinned, HeadPublished
<1> QED
  BY <1>1, Invariance, PTL DEF Spec, NoLostUpdate

-----------------------------------------------------------------------------
(* The history implements the undo stack. *)

\* A function on an initial segment of the naturals is a sequence.
LEMMA FunctionIsSeq ==
    ASSUME NEW S, NEW n \in Nat, NEW f \in [1 .. n -> S]
    PROVE  f \in Seq(S) /\ Len(f) = n
<1>1. f \in Seq(S)
  BY SeqDef
<1> QED
  BY <1>1, LenProperties

\* past and future are the undo stack read off a history h with n applied
\* entries.
StackOf(h, n, past, future) ==
    /\ past \in Seq(Projects) /\ Len(past) = n
    /\ \A i \in 1 .. n : past[i] = h[i].before
    /\ future \in Seq(Projects) /\ Len(future) = Len(h) - n
    /\ \A i \in 1 .. Len(h) - n : future[i] = h[n + i].after

\* The stack that a history and a cursor stand for.
LEMMA StackFacts ==
    ASSUME NEW h \in Seq(Entry), NEW n \in 0 .. Len(h)
    PROVE  StackOf(h, n, [i \in 1 .. n |-> h[i].before],
                         [i \in 1 .. Len(h) - n |-> h[n + i].after])
<1> DEFINE past == [i \in 1 .. n |-> h[i].before]
           future == [i \in 1 .. Len(h) - n |-> h[n + i].after]
<1>1. Len(h) \in Nat /\ n \in Nat /\ Len(h) - n \in Nat
  BY LenProperties
<1>2. \A i \in 1 .. Len(h) : h[i] \in Entry
  BY ElementOfSeq
<1>3. past \in [1 .. n -> Projects]
  BY <1>1, <1>2 DEF Entry
<1>4. future \in [1 .. Len(h) - n -> Projects]
  BY <1>1, <1>2 DEF Entry
<1>5. past \in Seq(Projects) /\ Len(past) = n
  BY <1>1, <1>3, FunctionIsSeq
<1>6. future \in Seq(Projects) /\ Len(future) = Len(h) - n
  BY <1>1, <1>4, FunctionIsSeq
<1> QED
  BY <1>5, <1>6 DEF StackOf

\* The refinement mapping is that stack before a step ...
LEMMA StackBefore == IInv => StackOf(history, cursor, Past, Future)
<1>1. IInv => history \in Seq(Entry) /\ cursor \in 0 .. Len(history)
  BY DEF IInv, TypeOK
<1> QED
  BY <1>1, StackFacts DEF Past, Future

\* ... and after it.
LEMMA StackAfter == IInv' => StackOf(history', cursor', Past', Future')
<1>1. IInv' => history' \in Seq(Entry) /\ cursor' \in 0 .. Len(history')
  BY DEF IInv, TypeOK
<1> QED
  BY <1>1, StackFacts DEF Past, Future

\* With the redo tail erased the future is empty.
LEMMA EmptyFuture ==
    ASSUME IInv', Len(history') = cursor' PROVE Future' = <<>>
<1>1. Future' \in Seq(Projects) /\ Len(Future') = Len(history') - cursor'
  BY StackAfter DEF StackOf
<1>2. Len(Future') = 0
  <2>1. history' \in Seq(Entry)
    BY DEF IInv, TypeOK
  <2>2. Len(history') \in Nat
    BY <2>1, LenProperties
  <2> QED
    BY <1>1, <2>2
<1> QED
  BY <1>1, <1>2, EmptySeq

\* Pushing an entry is an edit of the stack.
LEMMA PushedIsEdit ==
    ASSUME IInv, IInv', NEW key, Pushed(key) PROVE Stack!Edit
<1>1. Future' = <<>>
  BY EmptyFuture DEF Pushed
<1>2. state' \in Projects /\ state \in Projects /\ cursor \in Nat
  BY HistoryLength DEF IInv, TypeOK
<1>3. Past' = Append(Past, state)
  <2>1. /\ Past \in Seq(Projects) /\ Len(Past) = cursor
        /\ \A i \in 1 .. cursor : Past[i] = history[i].before
    BY StackBefore DEF StackOf
  <2>2. /\ Past' \in Seq(Projects) /\ Len(Past') = cursor + 1
        /\ \A i \in 1 .. cursor + 1 : Past'[i] = history'[i].before
    BY StackAfter DEF StackOf, Pushed
  <2>3. /\ Append(Past, state) \in Seq(Projects)
        /\ Len(Append(Past, state)) = cursor + 1
        /\ \A i \in 1 .. cursor : Append(Past, state)[i] = Past[i]
        /\ Append(Past, state)[cursor + 1] = state
    BY <1>2, <2>1, AppendProperties
  <2>4. \A i \in 1 .. cursor + 1 : Past'[i] = Append(Past, state)[i]
    BY <1>2, <2>1, <2>2, <2>3 DEF Pushed
  <2> QED
    BY <2>2, <2>3, <2>4, SeqEqual
<1> QED
  BY <1>1, <1>2, <1>3 DEF Stack!Edit

\* Joining an entry amends the present of the stack.
LEMMA FusedIsAmend ==
    ASSUME IInv, IInv', Fused PROVE Stack!Amend
<1>1. Future' = <<>>
  BY EmptyFuture DEF Fused
<1>2. state' \in Projects /\ cursor \in Nat
  BY HistoryLength DEF IInv, TypeOK
<1>3. /\ Past \in Seq(Projects) /\ Len(Past) = cursor
      /\ \A i \in 1 .. cursor : Past[i] = history[i].before
  BY StackBefore DEF StackOf
<1>4. /\ Past' \in Seq(Projects) /\ Len(Past') = cursor
      /\ \A i \in 1 .. cursor : Past'[i] = history'[i].before
  BY StackAfter DEF StackOf, Fused
<1>5. \A i \in 1 .. cursor : Past'[i] = Past[i]
  BY <1>2, <1>3, <1>4 DEF Fused
<1>6. Past' = Past
  BY <1>3, <1>4, <1>5, SeqEqual
<1>7. Past # <<>>
  BY <1>2, <1>3, EmptySeq DEF Fused
<1> QED
  BY <1>1, <1>2, <1>6, <1>7 DEF Stack!Amend

\* Putting an element in front shifts the rest by one.
LEMMA InFront ==
    ASSUME NEW S, NEW s \in Seq(S), NEW t \in Seq(S), NEW x \in S,
           Len(t) = Len(s) + 1, t[1] = x,
           \A i \in 1 .. Len(s) : t[i + 1] = s[i]
    PROVE  /\ t = <<x>> \o s
           /\ s = SubSeq(t, 2, Len(t))
<1>0. Len(s) \in Nat
  BY LenProperties
<1>1. t = <<x>> \o s
  <2>1. <<x>> \in Seq(S) /\ Len(<<x>>) = 1 /\ <<x>>[1] = x
    OBVIOUS
  <2>2. /\ <<x>> \o s \in Seq(S)
        /\ Len(<<x>> \o s) = 1 + Len(s)
        /\ \A i \in 1 .. 1 + Len(s) : (<<x>> \o s)[i] =
              IF i <= 1 THEN <<x>>[i] ELSE s[i - 1]
    BY <2>1, ConcatProperties
  <2>3. Len(t) = Len(<<x>> \o s)
    BY <1>0, <2>2
  <2>4. ASSUME NEW i \in 1 .. Len(t) PROVE t[i] = (<<x>> \o s)[i]
    <3>1. CASE i = 1
      BY <1>0, <2>1, <2>2, <3>1
    <3>2. CASE i # 1
      <4>1. i - 1 \in 1 .. Len(s) /\ (i - 1) + 1 = i
        BY <1>0, <3>2
      <4>2. t[i] = s[i - 1]
        BY <4>1
      <4> QED
        BY <1>0, <2>2, <3>2, <4>1, <4>2
    <3> QED
      BY <3>1, <3>2
  <2> QED
    BY <2>2, <2>3, <2>4, SeqEqual
<1>2. s = SubSeq(t, 2, Len(t))
  <2>1. Len(t) \in Nat /\ \A i \in 2 .. Len(t) : t[i] \in S
    BY <1>0, ElementOfSeq
  <2>2. /\ SubSeq(t, 2, Len(t)) \in Seq(S)
        /\ Len(SubSeq(t, 2, Len(t))) = IF 2 <= Len(t) THEN Len(t) - 2 + 1 ELSE 0
        /\ \A i \in 1 .. Len(t) - 2 + 1 : SubSeq(t, 2, Len(t))[i] = t[2 + i - 1]
    BY <2>1, SubSeqProperties
  <2>3. Len(SubSeq(t, 2, Len(t))) = Len(s)
    BY <1>0, <2>1, <2>2
  <2>4. \A i \in 1 .. Len(s) : s[i] = SubSeq(t, 2, Len(t))[i]
    BY <1>0, <2>1, <2>2
  <2> QED
    BY <2>2, <2>3, <2>4, SeqEqual
<1> QED
  BY <1>1, <1>2

\* An undo of the editor is an undo of the stack.
LEMMA UndoIsUndo ==
    ASSUME IInv, IInv', NEW c \in Clients, Undo(c) PROVE Stack!Undo
<1>1. /\ cursor \in Nat /\ cursor > 0 /\ cursor <= Len(history) /\ Len(history) \in Nat
      /\ history' = history /\ cursor' = cursor - 1
      /\ state' = history[cursor].before
      /\ state \in Projects
  BY HistoryLength DEF IInv, TypeOK, Undo, CommitState
<1>2. /\ Past \in Seq(Projects) /\ Len(Past) = cursor
      /\ \A i \in 1 .. cursor : Past[i] = history[i].before
      /\ Future \in Seq(Projects) /\ Len(Future) = Len(history) - cursor
      /\ \A i \in 1 .. Len(history) - cursor : Future[i] = history[cursor + i].after
  BY StackBefore DEF StackOf
<1>3. /\ Past' \in Seq(Projects) /\ Len(Past') = cursor - 1
      /\ \A i \in 1 .. cursor - 1 : Past'[i] = history[i].before
      /\ Future' \in Seq(Projects) /\ Len(Future') = Len(history) - (cursor - 1)
      /\ \A i \in 1 .. Len(history) - (cursor - 1) : Future'[i] = history[cursor - 1 + i].after
  BY <1>1, StackAfter DEF StackOf
<1>4. Past' = SubSeq(Past, 1, Len(Past) - 1)
  <2>1. \A i \in 1 .. cursor - 1 : Past[i] \in Projects
    BY <1>1, <1>2, ElementOfSeq
  <2>2. /\ SubSeq(Past, 1, cursor - 1) \in Seq(Projects)
        /\ Len(SubSeq(Past, 1, cursor - 1)) = cursor - 1
        /\ \A i \in 1 .. cursor - 1 : SubSeq(Past, 1, cursor - 1)[i] = Past[i]
    BY <1>1, <2>1, SubSeqProperties
  <2>3. ASSUME NEW i \in 1 .. cursor - 1 PROVE Past'[i] = SubSeq(Past, 1, cursor - 1)[i]
    <3>1. Past'[i] = history[i].before /\ SubSeq(Past, 1, cursor - 1)[i] = Past[i]
      BY <1>3, <2>2
    <3>2. i \in 1 .. cursor
      BY <1>1
    <3> QED
      BY <1>2, <3>1, <3>2
  <2> QED
    BY <1>1, <1>2, <1>3, <2>2, <2>3, SeqEqual
<1>5. Future' = <<state>> \o Future
  <2>1. history[cursor].after = state
    BY <1>1 DEF IInv, StateAtCursor
  <2>2. Len(Future') = Len(Future) + 1
    BY <1>1, <1>2, <1>3
  <2>3. Future'[1] = state
    BY <1>1, <1>3, <2>1
  <2>4. ASSUME NEW i \in 1 .. Len(Future) PROVE Future'[i + 1] = Future[i]
    <3>1. i + 1 \in 1 .. Len(history) - (cursor - 1) /\ cursor - 1 + (i + 1) = cursor + i
      BY <1>1, <1>2
    <3> QED
      BY <1>2, <1>3, <3>1
  <2>5. state \in Projects /\ Future \in Seq(Projects) /\ Future' \in Seq(Projects)
    BY <1>1, <1>2, <1>3
  <2>6. \A i \in 1 .. Len(Future) : Future'[i + 1] = Future[i]
    BY <2>4
  <2> QED
    <3> DEFINE future == Future
               next == Future'
    <3>1. /\ future \in Seq(Projects) /\ next \in Seq(Projects) /\ state \in Projects
          /\ Len(next) = Len(future) + 1 /\ next[1] = state
          /\ \A i \in 1 .. Len(future) : next[i + 1] = future[i]
      BY <2>2, <2>3, <2>5, <2>6
    <3> HIDE DEF future, next
    <3>2. next = <<state>> \o future
      BY <3>1, InFront
    <3> QED
      BY <3>2 DEF future, next
<1>6. Past # <<>> /\ Past[Len(Past)] = history[cursor].before
  BY <1>1, <1>2, EmptySeq
<1> QED
  BY <1>1, <1>4, <1>5, <1>6 DEF Stack!Undo

\* A redo of the editor is a redo of the stack.
LEMMA RedoIsRedo ==
    ASSUME IInv, IInv', NEW c \in Clients, Redo(c) PROVE Stack!Redo
<1>1. /\ cursor \in Nat /\ cursor < Len(history) /\ Len(history) \in Nat
      /\ history' = history /\ cursor' = cursor + 1
      /\ state' = history[cursor + 1].after
      /\ state \in Projects
  BY HistoryLength DEF IInv, TypeOK, Redo, CommitState
<1>2. /\ Past \in Seq(Projects) /\ Len(Past) = cursor
      /\ \A i \in 1 .. cursor : Past[i] = history[i].before
      /\ Future \in Seq(Projects) /\ Len(Future) = Len(history) - cursor
      /\ \A i \in 1 .. Len(history) - cursor : Future[i] = history[cursor + i].after
  BY StackBefore DEF StackOf
<1>3. /\ Past' \in Seq(Projects) /\ Len(Past') = cursor + 1
      /\ \A i \in 1 .. cursor + 1 : Past'[i] = history[i].before
      /\ Future' \in Seq(Projects) /\ Len(Future') = Len(history) - (cursor + 1)
      /\ \A i \in 1 .. Len(history) - (cursor + 1) : Future'[i] = history[cursor + 1 + i].after
  BY <1>1, StackAfter DEF StackOf
<1>4. Past' = Append(Past, state)
  <2>1. /\ Append(Past, state) \in Seq(Projects)
        /\ Len(Append(Past, state)) = cursor + 1
        /\ \A i \in 1 .. cursor : Append(Past, state)[i] = Past[i]
        /\ Append(Past, state)[cursor + 1] = state
    BY <1>1, <1>2, AppendProperties
  <2>2. history[cursor + 1].before = state
    BY <1>1 DEF IInv, StateAtCursor
  <2>3. ASSUME NEW i \in 1 .. cursor + 1 PROVE Past'[i] = Append(Past, state)[i]
    <3>1. CASE i = cursor + 1
      BY <1>1, <1>3, <2>1, <2>2, <3>1
    <3>2. CASE i # cursor + 1
      <4>1. i \in 1 .. cursor
        BY <1>1, <3>2
      <4> QED
        BY <1>2, <1>3, <2>1, <4>1
    <3> QED
      BY <3>1, <3>2
  <2> QED
    BY <1>3, <2>1, <2>3, SeqEqual
<1>5. Future' = SubSeq(Future, 2, Len(Future))
  <2>1. Len(Future) = Len(Future') + 1
    BY <1>1, <1>2, <1>3
  <2>2. Future[1] \in Projects
    BY <1>1, <1>2, ElementOfSeq
  <2>3. ASSUME NEW i \in 1 .. Len(Future') PROVE Future[i + 1] = Future'[i]
    <3>1. i + 1 \in 1 .. Len(history) - cursor /\ cursor + (i + 1) = cursor + 1 + i
      BY <1>1, <1>3
    <3> QED
      BY <1>2, <1>3, <3>1
  <2>4. Future \in Seq(Projects) /\ Future' \in Seq(Projects)
    BY <1>2, <1>3
  <2>5. \A i \in 1 .. Len(Future') : Future[i + 1] = Future'[i]
    BY <2>3
  <2> QED
    BY <2>1, <2>2, <2>4, <2>5, InFront
<1>6. Future # <<>> /\ Future[1] = history[cursor + 1].after
  BY <1>1, <1>2, EmptySeq
<1> QED
  BY <1>1, <1>4, <1>5, <1>6 DEF Stack!Redo

\* The editor implements the undo stack: edits, coalesced edits, undo and redo
\* are the stack's, reads and refused calls are invisible.
THEOREM Refinement == Spec => ImplementsUndoStack
<1>1. Init => Stack!Init
  <2> SUFFICES ASSUME Init PROVE Stack!Init
    OBVIOUS
  <2>1. StackOf(history, cursor, Past, Future)
    BY InitIInv, StackBefore
  <2>2. Len(history) = 0 /\ cursor = 0
    BY EmptySeq DEF Init
  <2>3. Past = <<>> /\ Future = <<>>
    BY <2>1, <2>2, EmptySeq DEF StackOf
  <2> QED
    BY <2>3 DEF Stack!Init, Init
<1>2. IInv /\ IInv' /\ [Next]_vars => [Stack!Next]_Stack!uvars
  <2> SUFFICES ASSUME IInv, IInv', [Next]_vars
               PROVE  Stack!Next \/ UNCHANGED Stack!uvars
    OBVIOUS
  <2>0. TypeOK
    BY DEF IInv
  <2>1. CASE UNCHANGED editor
    BY <2>1 DEF editor, Stack!uvars, Past, Future
  <2>2. ASSUME NEW c \in Clients, Edit(c) PROVE Stack!Next
    <3>1. ASSUME NEW key \in Keys \cup {NoKey}, NEW next \in Projects,
                 Apply(c, key, next)
          PROVE  Stack!Next
      BY <2>0, <3>1, ApplyPushesOrFuses, PushedIsEdit, FusedIsAmend DEF Stack!Next
    <3>2. ASSUME NEW key \in Keys \cup {NoKey}, NEW next \in Projects,
                 ApplyBatch(c, key, next)
          PROVE  Stack!Next
      BY <2>0, <3>2, BatchPushes, PushedIsEdit DEF Stack!Next
    <3>3. CASE Undo(c)
      BY <3>3, UndoIsUndo DEF Stack!Next
    <3>4. CASE Redo(c)
      BY <3>4, RedoIsRedo DEF Stack!Next
    <3> QED
      BY <2>2, <3>1, <3>2, <3>3, <3>4 DEF Edit
  <2> QED
    BY <2>1, <2>2 DEF Next, ReadRevision, Snapshot, vars, editor
<1> QED
  BY <1>1, <1>2, Invariance, PTL DEF Spec, ImplementsUndoStack, Stack!Spec
-----------------------------------------------------------------------------
(* Numbers, orders and sequences. *)

LEMMA LeastNumber ==
  ASSUME NEW T \in SUBSET Nat, T # {}
  PROVE  \E m \in T : \A k \in T : m <= k
<1>1. \E m \in T : \A k \in T : <<k, m>> \notin OpToRel(<, Nat)
  BY NatLessThanWellFounded, WFMin
<1>2. OpToRel(<, Nat) = {pair \in Nat \X Nat : pair[1] < pair[2]}
  BY DEF OpToRel
<1>3. \E m \in T : \A k \in T : ~(k < m)
  BY <1>1, <1>2
<1> QED
  BY <1>3

\* Induction over the natural numbers, for a set of them.
LEMMA InductiveSet ==
  ASSUME NEW S, 0 \in S, \A n \in Nat : n \in S => n + 1 \in S
  PROVE  Nat \subseteq S
<1> SUFFICES ASSUME Nat \ S # {}
             PROVE  FALSE
  OBVIOUS
<1>1. PICK m \in Nat \ S : \A k \in Nat \ S : m <= k
  BY LeastNumber
<1>2. m # 0 /\ m - 1 \in Nat /\ m = (m - 1) + 1
  BY <1>1
<1> QED
  BY <1>1, <1>2

\* A strict total order of S, as the set of what is before each element.
Orders(S, before) ==
  /\ before \in [S -> SUBSET S]
  /\ \A x \in S : x \notin before[x]
  /\ \A x, y \in S : x \in before[y] => before[x] \subseteq before[y]
  /\ \A x, y \in S : x = y \/ x \in before[y] \/ y \in before[x]

\* Sorting a set lists each of its elements, and nothing else.
LEMMA SortedFacts ==
  ASSUME NEW S, IsFiniteSet(S), NEW before, Orders(S, before)
  PROVE  /\ Cardinality(S) \in Nat
         /\ Sorted(S, before) \in Seq(S)
         /\ Len(Sorted(S, before)) = Cardinality(S)
         /\ \A x \in S : \E n \in 1..Cardinality(S) : Sorted(S, before)[n] = x
<1> DEFINE N == Cardinality(S)
           rank == [x \in S |-> Cardinality(before[x])]
<1>1. N \in Nat
  BY FS_CardinalityType
<1>2. ASSUME NEW x \in S
      PROVE  IsFiniteSet(before[x]) /\ rank[x] \in Nat /\ rank[x] < N
  <2>1. IsFiniteSet(S \ {x}) /\ Cardinality(S \ {x}) = N - 1
    BY FS_RemoveElement
  <2>2. before[x] \in SUBSET (S \ {x})
    BY DEF Orders
  <2>3. IsFiniteSet(before[x]) /\ Cardinality(before[x]) <= N - 1
    BY <2>1, <2>2, FS_Subset
  <2>4. Cardinality(before[x]) \in Nat
    BY <2>3, FS_CardinalityType
  <2> QED
    BY <1>1, <2>3, <2>4
<1>3. ASSUME NEW x \in S, NEW y \in S, x \in before[y]
      PROVE  rank[x] < rank[y]
  <2>1. before[x] \in SUBSET before[y] /\ before[x] # before[y]
    BY <1>3 DEF Orders
  <2>2. Cardinality(before[x]) <= Cardinality(before[y])
         /\ Cardinality(before[x]) # Cardinality(before[y])
    BY <1>2, <2>1, FS_Subset
  <2> QED
    BY <1>2, <2>2
<1>4. rank \in Injection(S, 0..(N - 1))
  <2>1. rank \in [S -> 0..(N - 1)]
    BY <1>1, <1>2
  <2>2. \A x, y \in S : rank[x] = rank[y] => x = y
    BY <1>2, <1>3 DEF Orders
  <2> HIDE DEF rank
  <2> QED
    BY <2>1, <2>2 DEF Injection, IsInjective
<1>5. rank \in Surjection(S, 0..(N - 1))
  <2>1. IsFiniteSet(0..(N - 1)) /\ Cardinality(0..(N - 1)) = N
    BY <1>1, FS_Interval
  <2> QED
    BY <1>4, <2>1, FS_Injection
<1>6. ASSUME NEW n \in 1..N
      PROVE  Sorted(S, before)[n] \in S /\ rank[Sorted(S, before)[n]] = n - 1
  <2>1. n - 1 \in 0..(N - 1)
    BY <1>1
  <2>2. \E x \in S : rank[x] = n - 1
    BY <1>5, <2>1 DEF Surjection
  <2>3. Sorted(S, before)[n] = CHOOSE x \in S : Cardinality(before[x]) = n - 1
    BY DEF Sorted
  <2> QED
    BY <2>2, <2>3
<1>7. Sorted(S, before) \in [1..N -> S]
  BY <1>6 DEF Sorted
<1>8. Sorted(S, before) \in Seq(S) /\ Len(Sorted(S, before)) = N
  BY <1>1, <1>7
<1>9. ASSUME NEW x \in S
      PROVE  \E n \in 1..N : Sorted(S, before)[n] = x
  <2>1. rank[x] + 1 \in 1..N /\ (rank[x] + 1) - 1 = rank[x]
    BY <1>1, <1>2
  <2>2. rank[Sorted(S, before)[rank[x] + 1]] = rank[x] /\ Sorted(S, before)[rank[x] + 1] \in S
    BY <1>6, <2>1
  <2>3. \A y \in S : rank[y] = rank[x] => y = x
    BY <1>4 DEF Injection, IsInjective
  <2> QED
    BY <2>1, <2>2, <2>3
<1> QED
  BY <1>1, <1>8, <1>9

\* The numbers of a set in order.
LEMMA AscendingFacts ==
  ASSUME NEW S, IsFiniteSet(S), S \subseteq Int
  PROVE  /\ Cardinality(S) \in Nat
         /\ Ascending(S) \in Seq(S)
         /\ Len(Ascending(S)) = Cardinality(S)
         /\ \A x \in S : \E n \in 1..Cardinality(S) : Ascending(S)[n] = x
<1> DEFINE before == [k \in S |-> {j \in S : j < k}]
<1>1. \A x \in S : before[x] = {j \in S : j < x}
  OBVIOUS
<1>2. before \in [S -> SUBSET S]
  OBVIOUS
<1>3. Ascending(S) = Sorted(S, before)
  BY DEF Ascending
<1> HIDE DEF before
<1>4. ASSUME NEW x \in S, NEW y \in S, x \in before[y]
      PROVE  before[x] \subseteq before[y]
  <2>1. x \in Int /\ y \in Int /\ x < y
    BY <1>1, <1>4
  <2>2. ASSUME NEW j \in before[x]
        PROVE  j \in before[y]
    <3>1. j \in S /\ j \in Int /\ j < x
      BY <1>1
    <3>2. j < y
      BY <2>1, <3>1
    <3> QED
      BY <1>1, <3>1, <3>2
  <2> QED
    BY <2>2
<1>5. Orders(S, before)
  <2>1. \A x \in S : x \in Int
    OBVIOUS
  <2>2. \A x \in S : x \notin before[x]
    BY <1>1, <2>1
  <2>3. \A x, y \in S : x = y \/ x < y \/ y < x
    BY <2>1
  <2>4. \A x, y \in S : x = y \/ x \in before[y] \/ y \in before[x]
    BY <1>1, <2>3
  <2> QED
    BY <1>2, <1>4, <2>2, <2>4 DEF Orders
<1> QED
  BY <1>3, <1>5, SortedFacts

-----------------------------------------------------------------------------
(* One clip. *)

\* A clip of a candidate, which is not validated yet.
Candidate ==
  [track : Tracks, asset : Assets \cup {NoAsset}, start : Int, dur : Int, src : Int, len : Int,
   rate : Nat \X (Nat \ {0}), reversed : BOOLEAN, link : Links \cup {0}]

\* divideRounded is off by half a unit at most.
LEMMA RoundedQuotientFacts ==
  ASSUME NEW n \in Int, NEW d \in Nat \ {0}
  PROVE  /\ RoundedQuotient(n, d) \in Int
         /\ 2 * (RoundedQuotient(n, d) * d - n) <= d
         /\ 2 * (n - RoundedQuotient(n, d) * d) <= d
<1> DEFINE q == n \div d
           r == n % d
<1>1. q \in Int /\ r \in 0..(d - 1) /\ n = (d * q) + r
  OBVIOUS
<1>2. RoundedQuotient(n, d) = IF 2 * r > d \/ (2 * r = d /\ q % 2 = 1) THEN q + 1 ELSE q
  BY DEF RoundedQuotient
<1> HIDE DEF q, r
<1>3. d * q \in Int /\ q * d = d * q /\ (q + 1) * d = (d * q) + d
  BY <1>1
<1>4. CASE RoundedQuotient(n, d) = q
  <2>1. 2 * r <= d
    BY <1>1, <1>2, <1>4
  <2> QED
    BY <1>1, <1>3, <1>4, <2>1
<1>5. CASE RoundedQuotient(n, d) = q + 1 /\ 2 * r >= d
  BY <1>1, <1>3, <1>5
<1> QED
  BY <1>1, <1>2, <1>4, <1>5

LEMMA SourceDeltaFacts ==
  ASSUME NEW c \in Candidate, NEW delta \in Int
  PROVE  SourceDelta(c, delta) \in Int
<1>1. c.rate[1] \in Nat /\ c.rate[2] \in Nat \ {0}
  BY DEF Candidate
<1>2. delta * c.rate[1] \in Int
  BY <1>1
<1> QED
  BY <1>1, <1>2, RoundedQuotientFacts DEF SourceDelta

\* Cutting, trimming and shifting make clips on the same track.
LEMMA PieceFacts ==
  ASSUME NEW c \in Candidate, NEW s \in Int, NEW e \in Int
  PROVE  /\ LeftHalf(c, s) \in Candidate /\ LeftHalf(c, s).track = c.track
         /\ RightHalf(c, s) \in Candidate /\ RightHalf(c, s).track = c.track
         /\ Retrimmed(c, s, e) \in Candidate /\ Retrimmed(c, s, e).track = c.track
         /\ Shifted(c, s) \in Candidate /\ Shifted(c, s).track = c.track
         /\ End(c) \in Int /\ SourceEnd(c) \in Int
<1>1. /\ c.start \in Int /\ c.dur \in Int /\ c.src \in Int /\ c.len \in Int
      /\ c.reversed \in BOOLEAN
  BY DEF Candidate
<1>2. End(c) \in Int /\ SourceEnd(c) \in Int
  BY <1>1 DEF End, SourceEnd
<1>3. LeftHalf(c, s) \in Candidate /\ LeftHalf(c, s).track = c.track
  <2> DEFINE used == SourceDelta(c, s - c.start)
             src == IF c.reversed THEN SourceEnd(c) - used ELSE c.src
  <2>1. used \in Int /\ s - c.start \in Int
    BY <1>1, SourceDeltaFacts
  <2>2. src \in Int
    BY <1>1, <1>2, <2>1
  <2>3. LeftHalf(c, s) = [c EXCEPT !.dur = s - c.start, !.len = used, !.src = src]
    BY DEF LeftHalf
  <2> HIDE DEF used, src
  <2> QED
    BY <2>1, <2>2, <2>3 DEF Candidate
<1>4. RightHalf(c, s) \in Candidate /\ RightHalf(c, s).track = c.track
  <2> DEFINE used == SourceDelta(c, s - c.start)
             dur == End(c) - s
             len == c.len - used
             src == IF c.reversed THEN c.src ELSE c.src + used
  <2>1. used \in Int
    BY <1>1, SourceDeltaFacts
  <2>2. src \in Int /\ dur \in Int /\ len \in Int
    BY <1>1, <1>2, <2>1
  <2>3. RightHalf(c, s) = [c EXCEPT !.start = s, !.dur = dur, !.len = len, !.src = src]
    BY DEF RightHalf
  <2> HIDE DEF used, src, dur, len
  <2> QED
    BY <2>1, <2>2, <2>3 DEF Candidate
<1>5. Retrimmed(c, s, e) \in Candidate /\ Retrimmed(c, s, e).track = c.track
  <2> DEFINE head == SourceDelta(c, s - c.start)
             tail == SourceDelta(c, e - End(c))
             src == IF c.reversed THEN c.src - tail ELSE c.src + head
             end == IF c.reversed THEN SourceEnd(c) - head ELSE SourceEnd(c) + tail
             dur == e - s
             len == end - src
  <2>1. head \in Int /\ tail \in Int
    BY <1>1, <1>2, SourceDeltaFacts
  <2>2. src \in Int /\ end \in Int /\ dur \in Int
    BY <1>1, <1>2, <2>1
  <2>3. len \in Int
    BY <2>2
  <2>4. Retrimmed(c, s, e) = [c EXCEPT !.start = s, !.dur = dur, !.src = src, !.len = len]
    BY DEF Retrimmed
  <2> HIDE DEF head, tail, src, end, dur, len
  <2> QED
    BY <2>2, <2>3, <2>4 DEF Candidate
<1>6. Shifted(c, s) \in Candidate /\ Shifted(c, s).track = c.track
  BY <1>1 DEF Shifted, Candidate
<1> QED
  BY <1>2, <1>3, <1>4, <1>5, <1>6
-----------------------------------------------------------------------------
(* Timelines. *)

\* The timeline of a candidate: its clips lie on tracks of the sequence.
IsTimeline(cs) ==
  /\ DOMAIN cs \subseteq ClipIds
  /\ \A k \in DOMAIN cs : cs[k] \in Candidate /\ cs[k].track \in Range(order)

\* A clip on a track that may be edited.
Open == {c \in Candidate : c.track \in Range(order) \ locked}

\* ds comes from cs by edits on tracks that are not locked.
Follows(cs, ds) ==
  /\ DOMAIN ds \subseteq ClipIds
  /\ \A k \in DOMAIN ds : \/ k \in DOMAIN cs /\ ds[k] = cs[k]
                          \/ ds[k] \in Open /\ (k \in DOMAIN cs => cs[k].track \notin locked)
  /\ \A k \in DOMAIN cs \ DOMAIN ds : cs[k].track \notin locked

LEMMA FollowsFacts ==
  ASSUME NEW cs, IsTimeline(cs)
  PROVE  /\ Follows(cs, cs)
         /\ \A ds : Follows(cs, ds) => IsTimeline(ds)
         /\ \A ds, es : Follows(cs, ds) /\ Follows(ds, es) => Follows(cs, es)
         /\ \A k \in DOMAIN cs : cs[k].track \notin locked => cs[k] \in Open
<1>1. Follows(cs, cs)
  BY DEF IsTimeline, Follows
<1>2. ASSUME NEW ds, Follows(cs, ds)
      PROVE  IsTimeline(ds)
  BY <1>2 DEF IsTimeline, Follows, Open
<1>3. ASSUME NEW ds, NEW es, Follows(cs, ds), Follows(ds, es)
      PROVE  Follows(cs, es)
  <2>1. ASSUME NEW k \in DOMAIN es
        PROVE  \/ k \in DOMAIN cs /\ es[k] = cs[k]
               \/ es[k] \in Open /\ (k \in DOMAIN cs => cs[k].track \notin locked)
    BY <1>3 DEF Follows
  <2>2. ASSUME NEW k \in DOMAIN cs \ DOMAIN es
        PROVE  cs[k].track \notin locked
    BY <1>3 DEF Follows
  <2> QED
    BY <1>3, <2>1, <2>2 DEF Follows
<1> QED
  BY <1>1, <1>2, <1>3 DEF IsTimeline, Open

LEMMA IdFacts ==
  /\ IsFiniteSet(ClipIds) /\ ClipIds \subseteq Nat
  /\ \A S \in SUBSET ClipIds : IsFiniteSet(S) /\ S \subseteq Int
<1>1. IsFiniteSet(ClipIds)
  <2>1. 1 \in Int /\ MaxClips \in Int
    BY ClipEditsAssumption DEF ClipEditsAssumption
  <2> QED
    BY <2>1, FS_Interval DEF ClipIds
<1>2. ASSUME NEW S \in SUBSET ClipIds
      PROVE  IsFiniteSet(S)
  BY <1>1, FS_Subset
<1> QED
  BY <1>1, <1>2 DEF ClipIds

\* A new id is that of no clip, a new linked group that of none.
LEMMA FreshFacts ==
  /\ \A used : FreshIds(used) # {} => Fresh(used) \in ClipIds \ used
  /\ \A cs : HasFreshLink(cs) => FreshLink(cs) \in Links
<1>1. ASSUME NEW used, FreshIds(used) # {}
      PROVE  Fresh(used) \in ClipIds \ used
  <2>1. FreshIds(used) \in SUBSET Nat
    BY DEF FreshIds, ClipIds
  <2>2. \E m \in FreshIds(used) : \A k \in FreshIds(used) : m <= k
    BY <1>1, <2>1, LeastNumber
  <2>3. Fresh(used) \in FreshIds(used)
    BY <2>2 DEF Fresh
  <2> QED
    BY <2>3 DEF FreshIds
<1>2. ASSUME NEW cs, HasFreshLink(cs)
      PROVE  FreshLink(cs) \in Links
  <2> DEFINE free == Links \ {cs[k].link : k \in DOMAIN cs}
  <2>1. free \in SUBSET Nat /\ free # {}
    BY <1>2 DEF Links, HasFreshLink
  <2> HIDE DEF free
  <2>2. \E m \in free : \A k \in free : m <= k
    BY <2>1, LeastNumber
  <2>3. (CHOOSE g \in free : \A h \in free : g <= h) \in free
    BY <2>2
  <2> QED
    BY <2>3 DEF free, FreshLink
<1> QED
  BY <1>1, <1>2

\* Cutting, trimming and shifting leave a clip on its track.
LEMMA OpenPieces ==
  ASSUME NEW c \in Open, NEW s \in Int, NEW e \in Int
  PROVE  /\ LeftHalf(c, s) \in Open /\ RightHalf(c, s) \in Open
         /\ Retrimmed(c, s, e) \in Open /\ Shifted(c, s) \in Open
         /\ End(c) \in Int /\ SourceEnd(c) \in Int
         /\ c.start \in Int /\ c.dur \in Int
<1>1. c \in Candidate /\ c.track \in Range(order) \ locked
  BY DEF Open
<1>2. c.start \in Int /\ c.dur \in Int
  BY <1>1 DEF Candidate
<1> QED
  BY <1>1, <1>2, PieceFacts DEF Open

LEMMA WithFollows ==
  ASSUME NEW cs, NEW ds, Follows(cs, ds), NEW id \in ClipIds, NEW c \in Open,
         id \in DOMAIN cs => cs[id].track \notin locked
  PROVE  Follows(cs, With(ds, id, c))
<1> DEFINE es == With(ds, id, c)
<1>1. DOMAIN es = DOMAIN ds \cup {id} /\ \A k \in DOMAIN es : es[k] = IF k = id THEN c ELSE ds[k]
  BY DEF With
<1> HIDE DEF es
<1>2. Follows(cs, es)
  BY <1>1 DEF Follows
<1> QED
  BY <1>2 DEF es

LEMMA WithoutFollows ==
  ASSUME NEW cs, IsTimeline(cs), NEW ids, \A k \in ids \cap DOMAIN cs : cs[k].track \notin locked
  PROVE  Follows(cs, Without(cs, ids))
<1> DEFINE ds == Without(cs, ids)
<1>1. DOMAIN ds = DOMAIN cs \ ids /\ \A k \in DOMAIN ds : ds[k] = cs[k]
  BY DEF Without
<1> HIDE DEF ds
<1>2. Follows(cs, ds)
  BY <1>1 DEF Follows, IsTimeline
<1> QED
  BY <1>2 DEF ds

LEMMA SelectedFacts ==
  ASSUME NEW cs, NEW id \in DOMAIN cs, NEW linked
  PROVE  Selected(cs, id, linked) \subseteq DOMAIN cs /\ id \in Selected(cs, id, linked)
BY DEF Selected

\* The plan of a linked command lists the clips it selects, each of them.
LEMMA PlanFacts ==
  ASSUME NEW cs, IsTimeline(cs), NEW ids \in SUBSET DOMAIN cs, order \in Seq(Tracks)
  PROVE  /\ PlanOrder(cs, ids, order) \in Seq(ids)
         /\ \A k \in ids : \E n \in DOMAIN PlanOrder(cs, ids, order) :
              PlanOrder(cs, ids, order)[n] = k
<1> DEFINE at(k) == CHOOSE n \in DOMAIN order : order[n] = cs[k].track
           before == [k \in ids |->
                        {j \in ids : at(j) < at(k) \/ (at(j) = at(k) /\ Precedes(cs, j, k))}]
<1>1. PlanOrder(cs, ids, order) = Sorted(ids, before)
  BY DEF PlanOrder
<1>2. ASSUME NEW k \in ids
      PROVE  /\ at(k) \in Int /\ cs[k].start \in Int /\ k \in Int
             /\ before[k] = {j \in ids : at(j) < at(k) \/ (at(j) = at(k) /\ Precedes(cs, j, k))}
  <2>1. cs[k] \in Candidate /\ cs[k].track \in Range(order) /\ k \in Nat
    BY IdFacts DEF IsTimeline
  <2>2. \E n \in DOMAIN order : order[n] = cs[k].track
    BY <2>1 DEF Range
  <2>3. at(k) \in DOMAIN order
    BY <2>2
  <2>4. DOMAIN order \subseteq Int
    OBVIOUS
  <2> QED
    BY <2>1, <2>3, <2>4 DEF Candidate
<1>3. before \in [ids -> SUBSET ids]
  OBVIOUS
<1> HIDE DEF at, before
<1>4. \A k \in ids : k \notin before[k]
  BY <1>2 DEF Precedes
<1>5. ASSUME NEW j \in ids, NEW k \in ids
      PROVE  j = k \/ j \in before[k] \/ k \in before[j]
  BY <1>2 DEF Precedes
<1>6. ASSUME NEW j \in ids, NEW k \in ids, j \in before[k], NEW i \in before[j]
      PROVE  i \in before[k]
  BY <1>2, <1>3, <1>6 DEF Precedes
<1>7. Orders(ids, before)
  BY <1>3, <1>4, <1>5, <1>6 DEF Orders
<1>8. IsFiniteSet(ids)
  BY IdFacts DEF IsTimeline
<1>9. /\ Sorted(ids, before) \in Seq(ids)
      /\ Len(Sorted(ids, before)) = Cardinality(ids)
      /\ \A k \in ids : \E n \in 1..Cardinality(ids) : Sorted(ids, before)[n] = k
  BY <1>7, <1>8, SortedFacts
<1> QED
  BY <1>1, <1>9
-----------------------------------------------------------------------------
(* What the commands compute. *)

LEMMA OverwriteFollows ==
  ASSUME NEW cs, IsTimeline(cs), NEW used, DOMAIN cs \subseteq used, NEW c \in Open,
         NEW ds \in OverwriteOutcomes(cs, used, c)
  PROVE  Follows(cs, ds)
<1> DEFINE hit == {k \in OnTrack(cs, c.track) : Overlaps(cs[k], c)}
           left == {k \in hit : cs[k].start < c.start}
           right == {k \in hit : End(cs[k]) > End(c)}
           uncut(k) == IF k \in left THEN RightHalf(cs[k], c.start) ELSE cs[k]
           both == left \cap right
           kept == [k \in DOMAIN cs \ (hit \ (left \cup right)) |->
                      IF k \in left THEN LeftHalf(cs[k], c.start)
                      ELSE IF k \in right THEN RightHalf(cs[k], End(c)) ELSE cs[k]]
<1>1. \/ ds = kept
      \/ /\ FreshIds(used) # {}
         /\ \E k \in both : ds = With(kept, Fresh(used), RightHalf(uncut(k), End(c)))
  BY DEF OverwriteOutcomes
<1>2. c.start \in Int /\ End(c) \in Int
  BY OpenPieces
<1>3. ASSUME NEW k \in hit
      PROVE  k \in DOMAIN cs /\ cs[k] \in Open /\ cs[k].track \notin locked
  BY FollowsFacts DEF OnTrack, Open
<1>4. ASSUME NEW k \in hit
      PROVE  /\ LeftHalf(cs[k], c.start) \in Open /\ RightHalf(cs[k], End(c)) \in Open
             /\ uncut(k) \in Open
  BY <1>2, <1>3, OpenPieces
<1>5. left \subseteq hit /\ right \subseteq hit /\ both \subseteq hit
  OBVIOUS
<1>6. /\ DOMAIN kept = DOMAIN cs \ (hit \ (left \cup right))
      /\ \A k \in DOMAIN kept : kept[k] = IF k \in left THEN LeftHalf(cs[k], c.start)
                                          ELSE IF k \in right THEN RightHalf(cs[k], End(c))
                                          ELSE cs[k]
  OBVIOUS
<1> HIDE DEF hit, left, right, both, uncut, kept
<1>7. Follows(cs, kept)
  BY <1>3, <1>4, <1>5, <1>6 DEF Follows, IsTimeline
<1>8. ASSUME NEW k \in both, FreshIds(used) # {},
             ds = With(kept, Fresh(used), RightHalf(uncut(k), End(c)))
      PROVE  Follows(cs, ds)
  <2>1. RightHalf(uncut(k), End(c)) \in Open
    BY <1>2, <1>4, <1>5, OpenPieces
  <2>2. Fresh(used) \in ClipIds /\ Fresh(used) \notin DOMAIN cs
    BY <1>8, FreshFacts
  <2> QED
    BY <1>7, <1>8, <2>1, <2>2, WithFollows
<1> QED
  BY <1>1, <1>7, <1>8

LEMMA InsertFollows ==
  ASSUME NEW cs, IsTimeline(cs), NEW used, DOMAIN cs \subseteq used, NEW id \in ClipIds,
         NEW c \in Open, NEW mode, NEW ds \in InsertOutcomes(cs, used, id, c, mode)
  PROVE  Follows(cs, ds)
<1> DEFINE on == OnTrack(cs, c.track)
           shifted == [k \in DOMAIN cs |-> IF k \in on /\ cs[k].start >= c.start
                                           THEN Shifted(cs[k], c.dur) ELSE cs[k]]
<1>1. /\ id \notin DOMAIN cs
      /\ \E room : /\ ds = With(room, id, c)
                   /\ \/ room \in OverwriteOutcomes(cs, used \cup {id}, c)
                      \/ room = shifted
                      \/ room = cs
  BY DEF InsertOutcomes
<1>2. PICK room : /\ ds = With(room, id, c)
                  /\ \/ room \in OverwriteOutcomes(cs, used \cup {id}, c)
                     \/ room = shifted
                     \/ room = cs
  BY <1>1
<1>3. Follows(cs, shifted)
  <2>1. c.dur \in Int
    BY OpenPieces
  <2>2. ASSUME NEW k \in on
        PROVE  k \in DOMAIN cs /\ cs[k].track \notin locked /\ Shifted(cs[k], c.dur) \in Open
    <3>1. k \in DOMAIN cs /\ cs[k].track \notin locked
      BY DEF OnTrack, Open
    <3>2. cs[k] \in Open
      BY <3>1, FollowsFacts
    <3> QED
      BY <2>1, <3>1, <3>2, OpenPieces
  <2>3. /\ DOMAIN shifted = DOMAIN cs
        /\ \A k \in DOMAIN cs : shifted[k] = IF k \in on /\ cs[k].start >= c.start
                                             THEN Shifted(cs[k], c.dur) ELSE cs[k]
    OBVIOUS
  <2> HIDE DEF on, shifted
  <2> QED
    BY <2>2, <2>3 DEF Follows, IsTimeline
<1>4. Follows(cs, room)
  <2>1. DOMAIN cs \subseteq used \cup {id}
    OBVIOUS
  <2> QED
    BY <1>2, <1>3, <2>1, OverwriteFollows, FollowsFacts
<1> QED
  BY <1>1, <1>2, <1>4, WithFollows

LEMMA MoveFollows ==
  ASSUME NEW cs, IsTimeline(cs), order \in Seq(Tracks), NEW used, NEW id \in DOMAIN cs,
         NEW to \in Range(order) \ locked, NEW start \in Int, NEW mode, NEW linked,
         \A k \in Selected(cs, id, linked) : cs[k].track \notin locked,
         NEW ds \in MoveOutcomes(cs, used, order, id, to, start, mode, linked)
  PROVE  Follows(cs, ds)
<1> DEFINE ids == Selected(cs, id, linked)
           moved == [k \in ids |-> [Shifted(cs[k], start - cs[id].start) EXCEPT
                                      !.track = IF k = id THEN to ELSE @]]
           plan == PlanOrder(cs, ids, order)
           Step(n, T) == UNION {InsertOutcomes(t, used \cup DOMAIN t, plan[n], moved[plan[n]], mode) :
                                  t \in T}
           Right(f, N) == f = [n \in 0..N |-> IF n = 0 THEN {Without(cs, ids)} ELSE Step(n, f[n - 1])]
           placed == CHOOSE f : Right(f, Len(plan))
<1>1. ds \in placed[Len(plan)]
  BY DEF MoveOutcomes
<1>2. ids \subseteq DOMAIN cs /\ id \in ids
  BY SelectedFacts
<1>3. plan \in Seq(ids)
  BY <1>2, PlanFacts
<1>4. ASSUME NEW k \in ids
      PROVE  moved[k] \in Open
  <2> DEFINE there == IF k = id THEN to ELSE cs[k].track
             delta == start - cs[id].start
  <2>1. cs[k] \in Open /\ cs[id] \in Open
    BY <1>2, FollowsFacts
  <2>2. delta \in Int
    BY <2>1, OpenPieces
  <2>3. Shifted(cs[k], delta) \in Candidate /\ Shifted(cs[k], delta).track = cs[k].track
    BY <2>1, <2>2, PieceFacts DEF Open
  <2>4. moved[k] = [Shifted(cs[k], delta) EXCEPT !.track = there]
    BY <2>3
  <2>5. there \in Range(order) \ locked /\ there \in Tracks
    <3>1. Range(order) \subseteq Tracks
      BY DEF Range
    <3> QED
      BY <2>1, <3>1 DEF Open
  <2> HIDE DEF there, delta, moved
  <2> QED
    BY <2>3, <2>4, <2>5 DEF Open, Candidate
<1>5. Right(placed, Len(plan))
  <2> DEFINE S == {m \in Nat : \E f : Right(f, m)}
  <2>1. 0 \in S
    <3>1. Right([n \in 0..0 |-> {Without(cs, ids)}], 0)
      OBVIOUS
    <3> QED
      BY <3>1
  <2> HIDE DEF Step
  <2>2. ASSUME NEW m \in Nat, m \in S
        PROVE  m + 1 \in S
    <3>1. PICK f : Right(f, m)
      BY <2>2
    <3> DEFINE g == [n \in 0..(m + 1) |-> IF n <= m THEN f[n] ELSE Step(n, f[n - 1])]
    <3>2. ASSUME NEW n \in 0..(m + 1)
          PROVE  g[n] = IF n = 0 THEN {Without(cs, ids)} ELSE Step(n, g[n - 1])
      <4>1. CASE n <= m
        <5>1. g[n] = f[n] /\ (n # 0 => g[n - 1] = f[n - 1])
          BY <4>1
        <5>2. n \in 0..m
          BY <4>1
        <5>3. f[n] = IF n = 0 THEN {Without(cs, ids)} ELSE Step(n, f[n - 1])
          BY <3>1, <5>2
        <5> QED
          BY <5>1, <5>3
      <4>2. CASE n = m + 1
        <5>1. n # 0 /\ g[n - 1] = f[n - 1] /\ g[n] = Step(n, f[n - 1])
          BY <4>2
        <5> QED
          BY <5>1
      <4> QED
        BY <4>1, <4>2
    <3>3. g = [n \in 0..(m + 1) |-> g[n]]
      OBVIOUS
    <3> HIDE DEF g
    <3>4. Right(g, m + 1)
      BY <3>2, <3>3
    <3> QED
      BY <3>4
  <2> HIDE DEF S
  <2>3. Len(plan) \in S
    BY <1>3, <2>1, <2>2, InductiveSet
  <2> QED
    BY <2>3 DEF S
<1> HIDE DEF placed
<1>6. /\ placed[0] = {Without(cs, ids)}
      /\ \A n \in 1..Len(plan) : placed[n] = Step(n, placed[n - 1])
  <2>1. Len(plan) \in Nat
    BY <1>3
  <2> HIDE DEF Step, plan
  <2>2. ASSUME NEW n \in 0..Len(plan)
        PROVE  placed[n] = IF n = 0 THEN {Without(cs, ids)} ELSE Step(n, placed[n - 1])
    BY <1>5
  <2> QED
    BY <2>1, <2>2
<1>7. Follows(cs, Without(cs, ids))
  BY <1>2, WithoutFollows
<1> DEFINE F == {n \in 0..Len(plan) : \A t \in placed[n] : Follows(cs, t)}
<1>8. 0 \in F
  BY <1>3, <1>6, <1>7
<1>9. ASSUME NEW n \in Nat, n \in F, n + 1 <= Len(plan)
      PROVE  n + 1 \in F
  <2>1. n + 1 \in 1..Len(plan) /\ (n + 1) - 1 = n
    BY <1>3, <1>9
  <2>2. ASSUME NEW t \in placed[n + 1]
        PROVE  Follows(cs, t)
    <3>1. t \in Step(n + 1, placed[n])
      BY <1>6, <2>1, <2>2
    <3>2. PICK s \in placed[n] :
            t \in InsertOutcomes(s, used \cup DOMAIN s, plan[n + 1], moved[plan[n + 1]], mode)
      BY <3>1
    <3>3. Follows(cs, s) /\ IsTimeline(s)
      BY <1>9, <3>2, FollowsFacts
    <3>4. plan[n + 1] \in ids /\ plan[n + 1] \in ClipIds
      BY <1>2, <1>3, <2>1 DEF IsTimeline
    <3>5. moved[plan[n + 1]] \in Open
      BY <1>4, <3>4
    <3>6. Follows(s, t)
      BY <3>2, <3>3, <3>4, <3>5, InsertFollows
    <3> QED
      BY <3>3, <3>6, FollowsFacts
  <2> QED
    BY <2>1, <2>2
<1> HIDE DEF F
<1>10. Len(plan) \in F
  <2> DEFINE S == {n \in Nat : n <= Len(plan) => n \in F}
  <2>1. 0 \in S
    BY <1>8
  <2>2. ASSUME NEW n \in Nat, n \in S
        PROVE  n + 1 \in S
    <3>1. n + 1 <= Len(plan) => n <= Len(plan)
      BY <1>3
    <3> QED
      BY <1>9, <2>2, <3>1
  <2> HIDE DEF S
  <2>3. Len(plan) \in S
    BY <1>3, <2>1, <2>2, InductiveSet
  <2>4. Len(plan) <= Len(plan)
    BY <1>3
  <2> QED
    BY <2>3, <2>4 DEF S
<1> QED
  BY <1>1, <1>10 DEF F
LEMMA UncoverFollows ==
  ASSUME NEW cs, IsTimeline(cs), NEW ids, NEW p \in ids, p \in DOMAIN cs,
         cs[p].track \notin locked, NEW ds \in UncoverOutcomes(cs, ids, p)
  PROVE  /\ Follows(cs, ds)
         /\ \A k \in ids \cap DOMAIN cs : k \in DOMAIN ds /\ ds[k] = cs[k]
<1> DEFINE hit == {k \in OnTrack(cs, cs[p].track) \ ids : Overlaps(cs[k], cs[p])}
           left == {k \in hit : cs[k].start < cs[p].start}
           right == {k \in hit : End(cs[k]) > End(cs[p])}
           rest == [k \in left \cup right |->
                      IF k \in left THEN Retrimmed(cs[k], cs[k].start, cs[p].start)
                      ELSE Retrimmed(cs[k], End(cs[p]), End(cs[k]))]
<1>1. ds = [k \in DOMAIN cs \ (hit \ DOMAIN rest) |->
              IF k \in DOMAIN rest THEN rest[k] ELSE cs[k]]
  BY DEF UncoverOutcomes
<1>2. cs[p] \in Open
  BY FollowsFacts
<1>3. ASSUME NEW k \in hit
      PROVE  k \in DOMAIN cs /\ k \notin ids /\ cs[k] \in Open /\ cs[k].track \notin locked
  BY FollowsFacts DEF OnTrack, Open
<1>4. ASSUME NEW k \in hit
      PROVE  /\ Retrimmed(cs[k], cs[k].start, cs[p].start) \in Open
             /\ Retrimmed(cs[k], End(cs[p]), End(cs[k])) \in Open
  <2>1. cs[k].start \in Int /\ End(cs[k]) \in Int /\ cs[p].start \in Int /\ End(cs[p]) \in Int
    BY <1>2, <1>3, OpenPieces
  <2> QED
    BY <1>3, <2>1, OpenPieces
<1>5. DOMAIN rest \subseteq hit /\ \A k \in DOMAIN rest : rest[k] \in Open
  BY <1>4
<1> HIDE DEF hit, rest
<1>6. Follows(cs, ds)
  BY <1>1, <1>3, <1>5 DEF Follows, IsTimeline
<1> QED
  BY <1>1, <1>3, <1>5, <1>6

\* A trim leaves what it trims on its track.
LEMMA TrimmedOpen ==
  ASSUME NEW c \in Open, NEW start \in Int, NEW dur \in Int, NEW src \in Int, NEW len \in Int
  PROVE  /\ [c EXCEPT !.start = start, !.dur = dur, !.src = src, !.len = len] \in Open
         /\ [c EXCEPT !.start = start] \in Open
BY DEF Open, Candidate

LEMMA TrimFollows ==
  ASSUME NEW cs, IsTimeline(cs), order \in Seq(Tracks), NEW id \in DOMAIN cs,
         NEW start \in Int, NEW dur \in Int, NEW src \in Int, NEW len \in Int,
         NEW mode, NEW linked,
         \A k \in Selected(cs, id, linked) : cs[k].track \notin locked,
         NEW ds \in TrimOutcomes(cs, order, id, start, dur, src, len, mode, linked),
         mode \in Modes
  PROVE  Follows(cs, ds)
<1> DEFINE ids == Selected(cs, id, linked)
           head == start - cs[id].start
           tail == start + dur - End(cs[id])
           asked == [k \in ids |->
                       IF k = id
                       THEN [cs[k] EXCEPT !.start = start, !.dur = dur, !.src = src, !.len = len]
                       ELSE Retrimmed(cs[k], cs[k].start + head, End(cs[k]) + tail)]
           trimmed == [k \in ids |->
                         IF mode = "ripple" /\ head # 0
                         THEN [asked[k] EXCEPT !.start = cs[k].start] ELSE asked[k]]
           plan == PlanOrder(cs, ids, order)
           applied == [k \in DOMAIN cs |-> IF k \in ids THEN trimmed[k] ELSE cs[k]]
           firstOn(tk) == plan[CHOOSE n \in DOMAIN plan :
                                 /\ cs[plan[n]].track = tk
                                 /\ \A m \in 1..(n - 1) : cs[plan[m]].track # tk]
           oldEnd(tk) == End(trimmed[firstOn(tk)]) - (tail - head)
           touched == {cs[k].track : k \in ids}
           rippled == [k \in DOMAIN cs |->
                         IF /\ k \notin ids
                            /\ cs[k].track \in touched
                            /\ cs[k].start >= oldEnd(cs[k].track)
                         THEN Shifted(cs[k], tail - head) ELSE applied[k]]
           Step(n, T) == UNION {UncoverOutcomes(t, ids, plan[n]) : t \in T}
           Right(f, N) == f = [n \in 0..N |-> IF n = 0 THEN {applied} ELSE Step(n, f[n - 1])]
           uncovered == CHOOSE f : Right(f, Len(plan))
<1>1. ds = applied \/ ds = rippled \/ ds \in uncovered[Len(plan)]
  BY DEF TrimOutcomes, Modes
<1>2. ids \subseteq DOMAIN cs /\ id \in ids
  BY SelectedFacts
<1>3. plan \in Seq(ids) /\ Len(plan) \in Nat
  BY <1>2, PlanFacts
<1>4. ASSUME NEW k \in ids
      PROVE  cs[k] \in Open /\ cs[k].start \in Int /\ End(cs[k]) \in Int
  <2>1. cs[k] \in Open
    BY <1>2, FollowsFacts
  <2> QED
    BY <2>1, OpenPieces
<1>5. head \in Int /\ tail \in Int /\ tail - head \in Int
  BY <1>2, <1>4
<1>6. ASSUME NEW k \in ids
      PROVE  trimmed[k] \in Open
  <2> HIDE DEF head, tail
  <2>1. cs[k].start + head \in Int /\ End(cs[k]) + tail \in Int
    BY <1>4, <1>5
  <2>2. Retrimmed(cs[k], cs[k].start + head, End(cs[k]) + tail) \in Open
    BY <1>4, <2>1, OpenPieces
  <2>3. [cs[k] EXCEPT !.start = start, !.dur = dur, !.src = src, !.len = len] \in Open
    BY <1>4, TrimmedOpen
  <2>4. asked[k] \in Open
    BY <2>2, <2>3
  <2> HIDE DEF asked
  <2>5. [asked[k] EXCEPT !.start = cs[k].start] \in Open
    BY <1>4, <2>4, TrimmedOpen
  <2> QED
    BY <2>4, <2>5
<1>7. DOMAIN applied = DOMAIN cs /\ \A k \in DOMAIN cs : applied[k] = IF k \in ids THEN trimmed[k] ELSE cs[k]
  OBVIOUS
<1>8. ASSUME NEW k \in DOMAIN cs, cs[k].track \in touched
      PROVE  cs[k].track \notin locked /\ Shifted(cs[k], tail - head) \in Open
  <2>1. cs[k].track \notin locked
    BY <1>8
  <2>2. cs[k] \in Open
    BY <2>1, FollowsFacts
  <2> QED
    BY <1>5, <2>1, <2>2, OpenPieces
<1>9. /\ DOMAIN rippled = DOMAIN cs
      /\ \A k \in DOMAIN cs : \/ cs[k].track \in touched /\ rippled[k] = Shifted(cs[k], tail - head)
                              \/ rippled[k] = applied[k]
  OBVIOUS
<1> HIDE DEF head, tail, trimmed, asked, applied, rippled, touched, oldEnd
<1>10. Follows(cs, applied)
  BY <1>2, <1>6, <1>7 DEF Follows, IsTimeline
<1>11. Follows(cs, rippled)
  BY <1>2, <1>6, <1>7, <1>8, <1>9 DEF Follows, IsTimeline
<1>12. Right(uncovered, Len(plan))
  <2> DEFINE S == {m \in Nat : \E f : Right(f, m)}
  <2>1. 0 \in S
    <3>1. Right([n \in 0..0 |-> {applied}], 0)
      OBVIOUS
    <3> QED
      BY <3>1
  <2> HIDE DEF Step
  <2>2. ASSUME NEW m \in Nat, m \in S
        PROVE  m + 1 \in S
    <3>1. PICK f : Right(f, m)
      BY <2>2
    <3> DEFINE g == [n \in 0..(m + 1) |-> IF n <= m THEN f[n] ELSE Step(n, f[n - 1])]
    <3>2. ASSUME NEW n \in 0..(m + 1)
          PROVE  g[n] = IF n = 0 THEN {applied} ELSE Step(n, g[n - 1])
      <4>1. CASE n <= m
        <5>1. g[n] = f[n] /\ (n # 0 => g[n - 1] = f[n - 1])
          BY <4>1
        <5>2. n \in 0..m
          BY <4>1
        <5>3. f[n] = IF n = 0 THEN {applied} ELSE Step(n, f[n - 1])
          BY <3>1, <5>2
        <5> QED
          BY <5>1, <5>3
      <4>2. CASE n = m + 1
        <5>1. n # 0 /\ g[n - 1] = f[n - 1] /\ g[n] = Step(n, f[n - 1])
          BY <4>2
        <5> QED
          BY <5>1
      <4> QED
        BY <4>1, <4>2
    <3>3. g = [n \in 0..(m + 1) |-> g[n]]
      OBVIOUS
    <3> HIDE DEF g
    <3>4. Right(g, m + 1)
      BY <3>2, <3>3
    <3> QED
      BY <3>4
  <2> HIDE DEF S
  <2>3. Len(plan) \in S
    BY <1>3, <2>1, <2>2, InductiveSet
  <2> QED
    BY <2>3 DEF S
<1> HIDE DEF uncovered
<1>13. /\ uncovered[0] = {applied}
       /\ \A n \in 1..Len(plan) : uncovered[n] = Step(n, uncovered[n - 1])
  <2> HIDE DEF Step, plan
  <2>1. ASSUME NEW n \in 0..Len(plan)
        PROVE  uncovered[n] = IF n = 0 THEN {applied} ELSE Step(n, uncovered[n - 1])
    BY <1>12
  <2> QED
    BY <1>3, <2>1
<1> DEFINE Good(t) == Follows(cs, t) /\ \A k \in ids : k \in DOMAIN t /\ t[k] = trimmed[k]
           S == {n \in Nat : n <= Len(plan) => \A t \in uncovered[n] : Good(t)}
<1>14. 0 \in S
  BY <1>2, <1>7, <1>10, <1>13
<1>15. ASSUME NEW n \in Nat, n \in S
       PROVE  n + 1 \in S
  <2> SUFFICES ASSUME n + 1 <= Len(plan), NEW t \in uncovered[n + 1]
               PROVE  Good(t)
    OBVIOUS
  <2>1. n + 1 \in 1..Len(plan) /\ (n + 1) - 1 = n /\ n <= Len(plan)
    BY <1>3
  <2>2. PICK s \in uncovered[n] : t \in UncoverOutcomes(s, ids, plan[n + 1])
    BY <1>13, <2>1
  <2>3. Good(s)
    BY <1>15, <2>1, <2>2
  <2>4. IsTimeline(s)
    BY <2>3, FollowsFacts
  <2>5. plan[n + 1] \in ids
    BY <1>3, <2>1
  <2> DEFINE p == plan[n + 1]
  <2> HIDE DEF p
  <2>6. p \in ids /\ p \in DOMAIN s /\ s[p].track \notin locked
    BY <1>6, <2>3, <2>5 DEF Open, p
  <2>7. Follows(s, t) /\ \A k \in ids \cap DOMAIN s : k \in DOMAIN t /\ t[k] = s[k]
    BY <2>2, <2>4, <2>6, UncoverFollows DEF p
  <2> QED
    BY <2>3, <2>7, FollowsFacts
<1> HIDE DEF S
<1>16. Len(plan) \in S
  BY <1>3, <1>14, <1>15, InductiveSet
<1>17. \A t \in uncovered[Len(plan)] : Follows(cs, t)
  BY <1>3, <1>16 DEF S
<1> QED
  BY <1>1, <1>10, <1>11, <1>17
LEMMA SplitFollows ==
  ASSUME NEW cs, IsTimeline(cs), order \in Seq(Tracks), NEW id \in DOMAIN cs,
         NEW t \in Int, NEW linked,
         \A k \in Selected(cs, id, linked) : cs[k].track \notin locked,
         NEW ds \in SplitOutcomes(cs, order, id, t, linked)
  PROVE  Follows(cs, ds)
<1> DEFINE ids == Selected(cs, id, linked)
           plan == PlanOrder(cs, ids, order)
           new == Ascending(FreshIds(DOMAIN cs))
           rightId == [k \in ids |-> new[CHOOSE n \in DOMAIN plan : plan[n] = k]]
           group == IF cs[id].link = 0 THEN 0 ELSE FreshLink(cs)
           halves ==
             [k \in DOMAIN cs \cup {rightId[j] : j \in ids} |->
                IF k \in ids THEN LeftHalf(cs[k], t)
                ELSE IF k \in DOMAIN cs THEN cs[k]
                ELSE LET j == CHOOSE i \in ids : rightId[i] = k IN
                     [RightHalf(cs[j], t) EXCEPT !.link = group]]
<1>1. ds = halves /\ Len(new) >= Len(plan) /\ (cs[id].link # 0 => HasFreshLink(cs))
  BY DEF SplitOutcomes
<1>2. ids \subseteq DOMAIN cs
  BY SelectedFacts
<1>3. plan \in Seq(ids) /\ \A k \in ids : \E n \in DOMAIN plan : plan[n] = k
  BY <1>2, PlanFacts
<1>4. new \in Seq(FreshIds(DOMAIN cs))
  <2>1. IsFiniteSet(FreshIds(DOMAIN cs)) /\ FreshIds(DOMAIN cs) \subseteq Int
    BY IdFacts DEF FreshIds
  <2> QED
    BY <2>1, AscendingFacts
<1>5. ASSUME NEW k \in ids
      PROVE  rightId[k] \in ClipIds \ DOMAIN cs
  <2> DEFINE n == CHOOSE m \in DOMAIN plan : plan[m] = k
  <2>1. n \in DOMAIN plan /\ rightId[k] = new[n]
    BY <1>3
  <2> HIDE DEF n, rightId
  <2>2. n \in DOMAIN new
    BY <1>1, <1>3, <1>4, <2>1
  <2> QED
    BY <1>4, <2>1, <2>2 DEF FreshIds
<1>6. group \in Links \cup {0}
  BY <1>1, FreshFacts
<1>7. ASSUME NEW k \in ids
      PROVE  /\ cs[k].track \notin locked /\ LeftHalf(cs[k], t) \in Open
             /\ [RightHalf(cs[k], t) EXCEPT !.link = group] \in Open
  <2>1. cs[k].track \notin locked /\ cs[k] \in Open
    BY <1>2, FollowsFacts
  <2>2. LeftHalf(cs[k], t) \in Open /\ RightHalf(cs[k], t) \in Open
    BY <2>1, OpenPieces
  <2> DEFINE c == RightHalf(cs[k], t)
  <2> HIDE DEF c, group
  <2>3. c \in Open => [c EXCEPT !.link = group] \in Open
    BY <1>6 DEF Open, Candidate
  <2> QED
    BY <2>1, <2>2, <2>3 DEF c
<1>8. ASSUME NEW k \in DOMAIN halves
      PROVE  \/ k \in ids /\ halves[k] = LeftHalf(cs[k], t)
             \/ k \in DOMAIN cs \ ids /\ halves[k] = cs[k]
             \/ /\ k \in ClipIds \ DOMAIN cs
                /\ \E j \in ids : halves[k] = [RightHalf(cs[j], t) EXCEPT !.link = group]
  <2>1. CASE k \in DOMAIN cs
    BY <2>1
  <2>2. CASE k \notin DOMAIN cs
    <3> DEFINE j == CHOOSE i \in ids : rightId[i] = k
    <3>1. \E i \in ids : rightId[i] = k
      BY <2>2
    <3>2. j \in ids /\ rightId[j] = k
      BY <3>1
    <3>3. halves[k] = [RightHalf(cs[j], t) EXCEPT !.link = group]
      BY <1>2, <2>2
    <3> QED
      BY <1>5, <3>2, <3>3
  <2> QED
    BY <2>1, <2>2
<1>9. DOMAIN halves = DOMAIN cs \cup {rightId[j] : j \in ids}
  OBVIOUS
<1> HIDE DEF halves, rightId, group
<1>10. Follows(cs, halves)
  <2>1. DOMAIN halves \subseteq ClipIds /\ DOMAIN cs \subseteq DOMAIN halves
    BY <1>5, <1>9 DEF IsTimeline
  <2> QED
    BY <1>2, <1>7, <1>8, <2>1 DEF Follows
<1> QED
  BY <1>1, <1>10

LEMMA RemoveFollows ==
  ASSUME NEW cs, IsTimeline(cs), NEW id \in DOMAIN cs, NEW ripple, NEW linked,
         \A k \in Selected(cs, id, linked) : cs[k].track \notin locked,
         NEW ds \in RemoveOutcomes(cs, id, ripple, linked)
  PROVE  Follows(cs, ds)
<1> DEFINE ids == Selected(cs, id, linked)
           touched == {cs[k].track : k \in ids}
           moves(k) == ripple /\ cs[k].track \in touched /\ cs[k].start >= End(cs[id])
<1>1. ds = [k \in DOMAIN cs \ ids |-> IF moves(k) THEN Shifted(cs[k], -cs[id].dur) ELSE cs[k]]
  BY DEF RemoveOutcomes, Removed
<1>2. ids \subseteq DOMAIN cs
  BY SelectedFacts
<1>3. -cs[id].dur \in Int
  BY DEF IsTimeline, Candidate
<1>4. ASSUME NEW k \in DOMAIN cs, moves(k)
      PROVE  cs[k].track \notin locked /\ Shifted(cs[k], -cs[id].dur) \in Open
  <2>1. cs[k].track \notin locked /\ cs[k] \in Open
    BY <1>4, FollowsFacts
  <2> QED
    BY <1>3, <2>1, OpenPieces
<1>5. \A k \in ids : cs[k].track \notin locked
  OBVIOUS
<1> HIDE DEF ids, moves
<1> QED
  BY <1>1, <1>2, <1>4, <1>5 DEF Follows, IsTimeline

LEMMA LinkFollows ==
  ASSUME NEW cs, IsTimeline(cs), NEW id \in DOMAIN cs, NEW link \in Links \cup {0},
         cs[id].track \notin locked
  PROVE  Follows(cs, [cs EXCEPT ![id].link = link])
<1>1. [cs[id] EXCEPT !.link = link] \in Open
  <2>1. cs[id] \in Open
    BY FollowsFacts
  <2> QED
    BY <2>1 DEF Open, Candidate
<1> QED
  BY <1>1 DEF Follows, IsTimeline

LEMMA RollFollows ==
  ASSUME NEW cs, IsTimeline(cs), NEW l \in DOMAIN cs, NEW r \in DOMAIN cs, NEW cut \in Int,
         cs[l].track \notin locked, NEW ds \in RollOutcomes(cs, l, r, cut)
  PROVE  Follows(cs, ds)
<1> DEFINE left == Retrimmed(cs[l], cs[l].start, cut)
           right == Retrimmed(cs[r], cut, End(cs[r]))
<1>1. ds = With(With(cs, l, left), r, right) /\ cs[r].track = cs[l].track
  BY DEF RollOutcomes, Neighbours
<1>2. cs[l] \in Open /\ cs[r] \in Open
  BY <1>1, FollowsFacts
<1>3. cs[l].start \in Int /\ End(cs[r]) \in Int
  BY <1>2, OpenPieces
<1>4. left \in Open /\ right \in Open
  BY <1>2, <1>3, OpenPieces
<1>5. l \in ClipIds /\ r \in ClipIds
  BY DEF IsTimeline
<1> HIDE DEF left, right
<1>6. Follows(cs, With(cs, l, left))
  BY <1>4, <1>5, FollowsFacts, WithFollows
<1> QED
  BY <1>1, <1>4, <1>5, <1>6, WithFollows

LEMMA SlipFollows ==
  ASSUME NEW cs, IsTimeline(cs), NEW id \in DOMAIN cs, NEW src \in Int, NEW linked,
         \A k \in Selected(cs, id, linked) : cs[k].track \notin locked,
         NEW ds \in SlipOutcomes(cs, id, src, linked)
  PROVE  Follows(cs, ds)
<1> DEFINE ids == Selected(cs, id, linked)
           slipped == [k \in ids |-> [cs[k] EXCEPT !.src = @ + src - cs[id].src]]
<1>1. ds = [k \in DOMAIN cs |-> IF k \in ids THEN slipped[k] ELSE cs[k]]
  BY DEF SlipOutcomes
<1>2. ids \subseteq DOMAIN cs
  BY SelectedFacts
<1>3. ASSUME NEW k \in ids
      PROVE  cs[k].track \notin locked /\ slipped[k] \in Open
  <2>1. cs[k].track \notin locked /\ cs[k] \in Open
    BY <1>2, FollowsFacts
  <2> DEFINE from == cs[k].src + src - cs[id].src
  <2>2. from \in Int
    BY <1>2 DEF IsTimeline, Candidate
  <2>3. slipped[k] = [cs[k] EXCEPT !.src = from]
    OBVIOUS
  <2> HIDE DEF from, slipped
  <2> QED
    BY <2>1, <2>2, <2>3 DEF Open, Candidate
<1> HIDE DEF ids, slipped
<1> QED
  BY <1>1, <1>2, <1>3 DEF Follows, IsTimeline

LEMMA SlideFollows ==
  ASSUME NEW cs, IsTimeline(cs), NEW id \in DOMAIN cs, NEW start \in Int,
         cs[id].track \notin locked, NEW ds \in SlideOutcomes(cs, id, start)
  PROVE  Follows(cs, ds)
<1> DEFINE on == OnTrack(cs, cs[id].track)
           end == start + cs[id].dur
           moved == [cs[id] EXCEPT !.start = start]
           before(p) == Retrimmed(cs[p], cs[p].start, start)
           after(n) == Retrimmed(cs[n], end, End(cs[n]))
<1>1. PICK p \in on, n \in on : ds = With(With(With(cs, p, before(p)), id, moved), n, after(n))
  BY DEF SlideOutcomes
<1>2. ASSUME NEW k \in on
      PROVE  k \in DOMAIN cs /\ k \in ClipIds /\ cs[k].track \notin locked /\ cs[k] \in Open
  BY FollowsFacts DEF OnTrack, IsTimeline
<1>3. id \in on
  BY DEF OnTrack
<1>4. moved \in Open
  BY <1>2, <1>3, TrimmedOpen
<1>5. before(p) \in Open
  <2>1. cs[p].start \in Int
    BY <1>2, OpenPieces
  <2> QED
    BY <1>2, <2>1, OpenPieces
<1>6. after(n) \in Open
  <2>1. end \in Int
    BY <1>2, <1>3, OpenPieces
  <2>2. End(cs[n]) \in Int
    BY <1>2, OpenPieces
  <2> HIDE DEF end
  <2> QED
    BY <1>2, <2>1, <2>2, OpenPieces
<1> HIDE DEF before, after, moved
<1>7. Follows(cs, With(cs, p, before(p)))
  BY <1>2, <1>5, FollowsFacts, WithFollows
<1>8. Follows(cs, With(With(cs, p, before(p)), id, moved))
  BY <1>2, <1>3, <1>4, <1>7, WithFollows
<1>9. Follows(cs, With(With(With(cs, p, before(p)), id, moved), n, after(n)))
  BY <1>2, <1>6, <1>8, WithFollows
<1> QED
  BY <1>1, <1>9

LEMMA CloseGapFollows ==
  ASSUME NEW cs, IsTimeline(cs), NEW tk \in Range(order) \ locked, NEW gap \in Nat \X Nat,
         NEW ds \in CloseGapOutcomes(cs, tk, gap)
  PROVE  Follows(cs, ds)
<1>1. ds = [k \in DOMAIN cs |->
              IF cs[k].track = tk /\ cs[k].start >= gap[2]
              THEN Shifted(cs[k], gap[1] - gap[2]) ELSE cs[k]]
  BY DEF CloseGapOutcomes
<1>2. gap[1] - gap[2] \in Int
  OBVIOUS
<1>3. ASSUME NEW k \in DOMAIN cs, cs[k].track = tk
      PROVE  cs[k].track \notin locked /\ Shifted(cs[k], gap[1] - gap[2]) \in Open
  <2>1. cs[k].track \notin locked /\ cs[k] \in Open
    BY <1>3, FollowsFacts
  <2> QED
    BY <1>2, <2>1, OpenPieces
<1> QED
  BY <1>1, <1>3 DEF Follows, IsTimeline
-----------------------------------------------------------------------------
(* The commands, alone and in batches. *)

LEMMA InsertCommandFollows ==
  ASSUME NEW cs, IsTimeline(cs), NEW used, DOMAIN cs \subseteq used, NEW id \in ClipIds,
         NEW c \in Candidate, c.track \in Range(order), NEW mode,
         NEW ds \in InsertClipCommand(cs, used, id, c, mode)
  PROVE  Follows(cs, ds)
<1>1. c.track \notin locked /\ ds \in InsertOutcomes(cs, used, id, c, mode)
  BY DEF InsertClipCommand
<1>2. c \in Open
  BY <1>1 DEF Open
<1> QED
  BY <1>1, <1>2, InsertFollows

LEMMA MoveCommandFollows ==
  ASSUME NEW cs, IsTimeline(cs), order \in Seq(Tracks), NEW used, NEW id,
         NEW to \in Range(order), NEW start \in Int, NEW mode, NEW linked,
         NEW ds \in MoveClipCommand(cs, used, id, to, start, mode, linked)
  PROVE  Follows(cs, ds)
<1>1. /\ id \in DOMAIN cs /\ to \notin locked
      /\ \A k \in Selected(cs, id, linked) : cs[k].track \notin locked
      /\ ds \in MoveOutcomes(cs, used \cup DOMAIN cs, order, id, to, start, mode, linked)
  BY DEF MoveClipCommand, Unlocked
<1> QED
  BY <1>1, MoveFollows

LEMMA TrimCommandFollows ==
  ASSUME NEW cs, IsTimeline(cs), order \in Seq(Tracks), NEW id, NEW start \in Int,
         NEW dur \in Int, NEW src \in Int, NEW len \in Int, NEW mode \in Modes, NEW linked,
         NEW ds \in TrimClipCommand(cs, id, start, dur, src, len, mode, linked)
  PROVE  Follows(cs, ds)
<1>1. /\ id \in DOMAIN cs /\ \A k \in Selected(cs, id, linked) : cs[k].track \notin locked
      /\ ds \in TrimOutcomes(cs, order, id, start, dur, src, len, mode, linked)
  BY DEF TrimClipCommand, Unlocked
<1> QED
  BY <1>1, TrimFollows

LEMMA SplitCommandFollows ==
  ASSUME NEW cs, IsTimeline(cs), order \in Seq(Tracks), NEW id, NEW t \in Int, NEW linked,
         NEW ds \in SplitClipCommand(cs, id, t, linked)
  PROVE  Follows(cs, ds)
<1>1. /\ id \in DOMAIN cs /\ \A k \in Selected(cs, id, linked) : cs[k].track \notin locked
      /\ ds \in SplitOutcomes(cs, order, id, t, linked)
  BY DEF SplitClipCommand, Unlocked
<1> QED
  BY <1>1, SplitFollows

LEMMA RemoveCommandFollows ==
  ASSUME NEW cs, IsTimeline(cs), NEW id, NEW ripple, NEW linked,
         NEW ds \in RemoveClipCommand(cs, id, ripple, linked)
  PROVE  Follows(cs, ds)
<1>1. /\ id \in DOMAIN cs /\ \A k \in Selected(cs, id, linked) : cs[k].track \notin locked
      /\ ds \in RemoveOutcomes(cs, id, ripple, linked)
  BY DEF RemoveClipCommand, Unlocked
<1> QED
  BY <1>1, RemoveFollows

LEMMA LinkCommandFollows ==
  ASSUME NEW cs, IsTimeline(cs), NEW id, NEW link \in Links \cup {0},
         NEW ds \in SetClipLinkedGroupCommand(cs, id, link)
  PROVE  Follows(cs, ds)
<1>1. id \in DOMAIN cs /\ cs[id].track \notin locked /\ ds = [cs EXCEPT ![id].link = link]
  BY DEF SetClipLinkedGroupCommand, Unlocked
<1> QED
  BY <1>1, LinkFollows

\* A command of a batch.
IsCommand(c) ==
  \/ c.op = "Insert" /\ c.id \in ClipIds /\ c.clip \in Candidate /\ c.clip.track \in Range(order)
  \/ c.op = "Move" /\ c.to \in Range(order) /\ c.start \in Int
  \/ c.op = "Trim" /\ {c.start, c.dur, c.src, c.len} \subseteq Int /\ c.mode \in Modes
  \/ c.op = "Split" /\ c.at \in Int
  \/ c.op = "Remove"
  \/ c.op = "SetLinkedGroup" /\ c.link \in Links \cup {0}

LEMMA OperationFollows ==
  ASSUME NEW cs, IsTimeline(cs), order \in Seq(Tracks), NEW c, IsCommand(c),
         NEW ds \in ApplyOperation(cs, c)
  PROVE  Follows(cs, ds)
<1>1. CASE c.op = "Insert"
  <2>1. ds \in InsertClipCommand(cs, c.reserved \cup DOMAIN cs, c.id, c.clip, c.mode)
    BY <1>1 DEF ApplyOperation
  <2>2. c.id \in ClipIds /\ c.clip \in Candidate /\ c.clip.track \in Range(order)
    BY <1>1 DEF IsCommand
  <2>3. DOMAIN cs \subseteq c.reserved \cup DOMAIN cs
    OBVIOUS
  <2> QED
    BY <2>1, <2>2, <2>3, InsertCommandFollows
<1>2. CASE c.op = "Move"
  <2>1. ds \in MoveClipCommand(cs, c.reserved, c.id, c.to, c.start, c.mode, c.linked)
    BY <1>2 DEF ApplyOperation
  <2>2. c.to \in Range(order) /\ c.start \in Int
    BY <1>2 DEF IsCommand
  <2> QED
    BY <2>1, <2>2, MoveCommandFollows
<1>3. CASE c.op = "Trim"
  <2>1. ds \in TrimClipCommand(cs, c.id, c.start, c.dur, c.src, c.len, c.mode, c.linked)
    BY <1>3 DEF ApplyOperation
  <2>2. c.start \in Int /\ c.dur \in Int /\ c.src \in Int /\ c.len \in Int /\ c.mode \in Modes
    BY <1>3 DEF IsCommand
  <2> QED
    BY <2>1, <2>2, TrimCommandFollows
<1>4. CASE c.op = "Split"
  <2>1. ds \in SplitClipCommand(cs, c.id, c.at, c.linked) /\ c.at \in Int
    BY <1>4 DEF ApplyOperation, IsCommand
  <2> QED
    BY <2>1, SplitCommandFollows
<1>5. CASE c.op = "Remove"
  <2>1. ds \in RemoveClipCommand(cs, c.id, c.ripple, c.linked)
    BY <1>5 DEF ApplyOperation
  <2> QED
    BY <2>1, RemoveCommandFollows
<1>6. CASE c.op = "SetLinkedGroup"
  <2>1. ds \in SetClipLinkedGroupCommand(cs, c.id, c.link) /\ c.link \in Links \cup {0}
    BY <1>6 DEF ApplyOperation, IsCommand
  <2> QED
    BY <2>1, LinkCommandFollows
<1> QED
  BY <1>1, <1>2, <1>3, <1>4, <1>5, <1>6 DEF IsCommand

LEMMA BatchFollows ==
  ASSUME IsTimeline(clips), order \in Seq(Tracks), NEW commands,
         Len(commands) \in Nat, \A n \in 1..Len(commands) : IsCommand(commands[n]),
         NEW ds \in Batch(commands)
  PROVE  Follows(clips, ds)
<1> DEFINE Step(n, T) == UNION {ApplyOperation(cs, commands[n]) : cs \in T}
           Right(f, N) == f = [n \in 0..N |-> IF n = 0 THEN {clips} ELSE Step(n, f[n - 1])]
           applied == CHOOSE f : Right(f, Len(commands))
<1>1. ds \in applied[Len(commands)]
  BY DEF Batch
<1>2. Right(applied, Len(commands))
  <2> DEFINE S == {m \in Nat : \E f : Right(f, m)}
  <2>1. 0 \in S
    <3>1. Right([n \in 0..0 |-> {clips}], 0)
      OBVIOUS
    <3> QED
      BY <3>1
  <2> HIDE DEF Step
  <2>2. ASSUME NEW m \in Nat, m \in S
        PROVE  m + 1 \in S
    <3>1. PICK f : Right(f, m)
      BY <2>2
    <3> DEFINE g == [n \in 0..(m + 1) |-> IF n <= m THEN f[n] ELSE Step(n, f[n - 1])]
    <3>2. ASSUME NEW n \in 0..(m + 1)
          PROVE  g[n] = IF n = 0 THEN {clips} ELSE Step(n, g[n - 1])
      <4>1. CASE n <= m
        <5>1. g[n] = f[n] /\ (n # 0 => g[n - 1] = f[n - 1])
          BY <4>1
        <5>2. n \in 0..m
          BY <4>1
        <5>3. f[n] = IF n = 0 THEN {clips} ELSE Step(n, f[n - 1])
          BY <3>1, <5>2
        <5> QED
          BY <5>1, <5>3
      <4>2. CASE n = m + 1
        <5>1. n # 0 /\ g[n - 1] = f[n - 1] /\ g[n] = Step(n, f[n - 1])
          BY <4>2
        <5> QED
          BY <5>1
      <4> QED
        BY <4>1, <4>2
    <3>3. g = [n \in 0..(m + 1) |-> g[n]]
      OBVIOUS
    <3> HIDE DEF g
    <3>4. Right(g, m + 1)
      BY <3>2, <3>3
    <3> QED
      BY <3>4
  <2> HIDE DEF S
  <2>3. Len(commands) \in S
    BY <2>1, <2>2, InductiveSet
  <2> QED
    BY <2>3 DEF S
<1> HIDE DEF applied
<1>3. /\ applied[0] = {clips}
      /\ \A n \in 1..Len(commands) : applied[n] = Step(n, applied[n - 1])
  <2> HIDE DEF Step
  <2>1. ASSUME NEW n \in 0..Len(commands)
        PROVE  applied[n] = IF n = 0 THEN {clips} ELSE Step(n, applied[n - 1])
    BY <1>2
  <2> QED
    BY <2>1
<1> DEFINE S == {n \in Nat : n <= Len(commands) => \A t \in applied[n] : Follows(clips, t)}
<1>4. 0 \in S
  BY <1>3, FollowsFacts
<1>5. ASSUME NEW n \in Nat, n \in S
      PROVE  n + 1 \in S
  <2> SUFFICES ASSUME n + 1 <= Len(commands), NEW t \in applied[n + 1]
               PROVE  Follows(clips, t)
    OBVIOUS
  <2>1. n + 1 \in 1..Len(commands) /\ (n + 1) - 1 = n /\ n <= Len(commands)
    OBVIOUS
  <2>2. PICK cs \in applied[n] : t \in ApplyOperation(cs, commands[n + 1])
    BY <1>3, <2>1
  <2>3. Follows(clips, cs) /\ IsTimeline(cs)
    BY <1>5, <2>1, <2>2, FollowsFacts
  <2>4. Follows(cs, t)
    BY <2>1, <2>2, <2>3, OperationFollows
  <2> QED
    BY <2>3, <2>4, FollowsFacts
<1> HIDE DEF S
<1>6. Len(commands) \in S
  BY <1>4, <1>5, InductiveSet
<1> QED
  BY <1>1, <1>6 DEF S
-----------------------------------------------------------------------------
(* The invariant: the types, and the validity that every commit checks. *)

TimelineInv == TimelineTypeOK /\ Valid(clips, transitions, groups)

LEMMA TypeFacts ==
  TimelineTypeOK <=>
    /\ DOMAIN clips \subseteq ClipIds
    /\ \A k \in DOMAIN clips : clips[k] \in Clip /\ clips[k].track \in Range(order)
    /\ order \in Seq(Tracks) /\ IsInjective(order)
    /\ locked \subseteq Range(order)
    /\ DOMAIN transitions \subseteq TransitionIds
    /\ \A t \in DOMAIN transitions : transitions[t] \in Transition
    /\ groups \subseteq SUBSET ClipIds
    /\ edits \in 0..MaxEdits
BY DEF TimelineTypeOK, IsLayout

\* A candidate clip that passes the validation has its types.
LEMMA ClipFacts ==
  /\ Clip \subseteq Candidate
  /\ \A c \in Candidate : ValidClip(c) => c \in Clip
BY DEF Clip, Candidate, ValidClip, WellFormed

LEMMA TimelineFacts ==
  ASSUME TimelineInv
  PROVE  /\ IsTimeline(clips) /\ order \in Seq(Tracks) /\ locked \subseteq Range(order)
         /\ \A k \in DOMAIN clips :
              /\ k \in ClipIds /\ clips[k] \in Candidate /\ clips[k].track \in Range(order)
              /\ clips[k].start \in Nat /\ clips[k].dur \in Nat \ {0} /\ End(clips[k]) \in Nat
<1>1. TimelineTypeOK
  BY DEF TimelineInv
<1>2. \A k \in DOMAIN clips : clips[k] \in Candidate
  BY <1>1, TypeFacts, ClipFacts
<1>3. ASSUME NEW k \in DOMAIN clips
      PROVE  clips[k].start \in Nat /\ clips[k].dur \in Nat \ {0} /\ End(clips[k]) \in Nat
  <2>1. clips[k].start \in Nat /\ clips[k].dur \in Nat \ {0}
    BY <1>1, TypeFacts DEF Clip
  <2> QED
    BY <2>1 DEF End
<1> QED
  BY <1>1, <1>2, <1>3, TypeFacts DEF IsTimeline

\* A step that only changes clips, on tracks that are not locked.
ClipsStep ==
  /\ edits' = edits + 1
  /\ Follows(clips, clips')
  /\ Valid(clips', transitions, groups)
  /\ UNCHANGED <<order, locked, transitions, groups>>

LEMMA ClipsFollow ==
  ASSUME NEW outcomes, \A ds \in outcomes : Follows(clips, ds), Clips(outcomes), edits' = edits + 1
  PROVE  ClipsStep
BY DEF Clips, ClipsStep

LEMMA InsertClipStep == TimelineInv /\ InsertClip => ClipsStep
<1> SUFFICES ASSUME TimelineInv, NEW tk \in Range(order), NEW new \in NewClips,
                    NEW start \in Times, NEW mode \in Modes,
                    FreshIds(DOMAIN clips) # {}, edits' = edits + 1,
                    Clips(InsertClipCommand(clips, DOMAIN clips, Fresh(DOMAIN clips),
                                            [new EXCEPT !.track = tk, !.start = start], mode))
             PROVE  ClipsStep
  BY DEF InsertClip, Command, Accept
<1> DEFINE c == [new EXCEPT !.track = tk, !.start = start]
<1>1. IsTimeline(clips) /\ tk \in Tracks
  BY TimelineFacts DEF Range
<1>2. c \in Candidate /\ c.track = tk
  <2>1. new \in Candidate
    BY TimelineAssumption, ClipFacts DEF TimelineAssumption
  <2>2. start \in Int
    BY TimelineAssumption DEF Times, TimelineAssumption
  <2> QED
    BY <1>1, <2>1, <2>2 DEF Candidate
<1>3. Fresh(DOMAIN clips) \in ClipIds
  BY FreshFacts
<1> HIDE DEF c
<1>4. \A ds \in InsertClipCommand(clips, DOMAIN clips, Fresh(DOMAIN clips), c, mode) :
        Follows(clips, ds)
  BY <1>1, <1>2, <1>3, InsertCommandFollows
<1> QED
  BY <1>4, ClipsFollow DEF c

LEMMA MoveClipStep == TimelineInv /\ MoveClip => ClipsStep
<1> SUFFICES ASSUME TimelineInv, NEW id \in DOMAIN clips, NEW to \in Range(order),
                    NEW start \in Times, NEW mode \in Modes, NEW linked \in BOOLEAN,
                    edits' = edits + 1,
                    Clips(MoveClipCommand(clips, {}, id, to, start, mode, linked))
             PROVE  ClipsStep
  BY DEF MoveClip, Command, Accept
<1>1. start \in Int
  BY TimelineAssumption DEF Times, TimelineAssumption
<1>2. \A ds \in MoveClipCommand(clips, {}, id, to, start, mode, linked) : Follows(clips, ds)
  BY <1>1, TimelineFacts, MoveCommandFollows
<1> QED
  BY <1>2, ClipsFollow

\* The source range that a trim carries.
LEMMA AskedFacts ==
  ASSUME NEW c \in Candidate, NEW s \in Int, NEW e \in Int
  PROVE  Retrimmed(c, s, e).src \in Int /\ Retrimmed(c, s, e).len \in Int
<1>1. Retrimmed(c, s, e) \in Candidate
  BY PieceFacts
<1> QED
  BY <1>1 DEF Candidate

LEMMA TrimClipStep == TimelineInv /\ TrimClip => ClipsStep
<1> SUFFICES ASSUME TimelineInv, NEW id \in DOMAIN clips, NEW start \in Times,
                    NEW dur \in Lengths, NEW mode \in Modes, NEW linked \in BOOLEAN,
                    edits' = edits + 1,
                    Clips(TrimClipCommand(clips, id, start, dur,
                                          Retrimmed(clips[id], start, start + dur).src,
                                          Retrimmed(clips[id], start, start + dur).len,
                                          mode, linked))
             PROVE  ClipsStep
  BY DEF TrimClip, Command, Accept
<1>1. start \in Int /\ dur \in Int /\ start + dur \in Int
  BY TimelineAssumption DEF Times, Lengths, TimelineAssumption
<1> DEFINE src == Retrimmed(clips[id], start, start + dur).src
           len == Retrimmed(clips[id], start, start + dur).len
<1>2. src \in Int /\ len \in Int
  BY <1>1, TimelineFacts, AskedFacts
<1> HIDE DEF src, len
<1>3. \A ds \in TrimClipCommand(clips, id, start, dur, src, len, mode, linked) : Follows(clips, ds)
  BY <1>1, <1>2, TimelineFacts, TrimCommandFollows
<1> QED
  BY <1>3, ClipsFollow DEF src, len

LEMMA SplitClipStep == TimelineInv /\ SplitClip => ClipsStep
<1> SUFFICES ASSUME TimelineInv, NEW id \in DOMAIN clips, NEW t \in Times,
                    NEW linked \in BOOLEAN, edits' = edits + 1,
                    Clips(SplitClipCommand(clips, id, t, linked))
             PROVE  ClipsStep
  BY DEF SplitClip, Command, Accept
<1>1. t \in Int
  BY TimelineAssumption DEF Times, TimelineAssumption
<1>2. \A ds \in SplitClipCommand(clips, id, t, linked) : Follows(clips, ds)
  BY <1>1, TimelineFacts, SplitCommandFollows
<1> QED
  BY <1>2, ClipsFollow

LEMMA RemoveClipStep == TimelineInv /\ RemoveClip => ClipsStep
<1> SUFFICES ASSUME TimelineInv, NEW id \in DOMAIN clips, NEW ripple \in BOOLEAN,
                    NEW linked \in BOOLEAN, edits' = edits + 1,
                    Clips(RemoveClipCommand(clips, id, ripple, linked))
             PROVE  ClipsStep
  BY DEF RemoveClip, Command, Accept
<1>1. \A ds \in RemoveClipCommand(clips, id, ripple, linked) : Follows(clips, ds)
  BY TimelineFacts, RemoveCommandFollows
<1> QED
  BY <1>1, ClipsFollow

LEMMA RollEditStep == TimelineInv /\ RollEdit => ClipsStep
<1> SUFFICES ASSUME TimelineInv, NEW l \in DOMAIN clips, NEW r \in DOMAIN clips,
                    NEW cut \in Times, Unlocked(clips, {l}), edits' = edits + 1,
                    Clips(RollOutcomes(clips, l, r, cut))
             PROVE  ClipsStep
  BY DEF RollEdit, Command, Accept
<1>1. cut \in Int /\ clips[l].track \notin locked
  BY TimelineAssumption DEF Times, TimelineAssumption, Unlocked
<1>2. \A ds \in RollOutcomes(clips, l, r, cut) : Follows(clips, ds)
  BY <1>1, TimelineFacts, RollFollows
<1> QED
  BY <1>2, ClipsFollow

LEMMA SlipClipStep == TimelineInv /\ SlipClip => ClipsStep
<1> SUFFICES ASSUME TimelineInv, NEW id \in DOMAIN clips, NEW src \in Times,
                    NEW linked \in BOOLEAN, Unlocked(clips, Selected(clips, id, linked)),
                    edits' = edits + 1, Clips(SlipOutcomes(clips, id, src, linked))
             PROVE  ClipsStep
  BY DEF SlipClip, Command, Accept
<1>1. src \in Int
  BY TimelineAssumption DEF Times, TimelineAssumption
<1>2. \A k \in Selected(clips, id, linked) : clips[k].track \notin locked
  BY DEF Unlocked
<1>3. \A ds \in SlipOutcomes(clips, id, src, linked) : Follows(clips, ds)
  BY <1>1, <1>2, TimelineFacts, SlipFollows
<1> QED
  BY <1>3, ClipsFollow

LEMMA SlideClipStep == TimelineInv /\ SlideClip => ClipsStep
<1> SUFFICES ASSUME TimelineInv, NEW id \in DOMAIN clips, NEW start \in Times,
                    Unlocked(clips, {id}), edits' = edits + 1,
                    Clips(SlideOutcomes(clips, id, start))
             PROVE  ClipsStep
  BY DEF SlideClip, Command, Accept
<1>1. start \in Int /\ clips[id].track \notin locked
  BY TimelineAssumption DEF Times, TimelineAssumption, Unlocked
<1>2. \A ds \in SlideOutcomes(clips, id, start) : Follows(clips, ds)
  BY <1>1, TimelineFacts, SlideFollows
<1> QED
  BY <1>2, ClipsFollow

LEMMA CloseGapStep == TimelineInv /\ CloseGap => ClipsStep
<1> SUFFICES ASSUME TimelineInv, NEW tk \in Range(order) \ locked, NEW from \in Times,
                    NEW to \in Times, edits' = edits + 1,
                    Clips(CloseGapOutcomes(clips, tk, <<from, to>>))
             PROVE  ClipsStep
  BY DEF CloseGap, Command, Accept
<1>1. <<from, to>> \in Nat \X Nat
  BY TimelineAssumption DEF Times, TimelineAssumption
<1>2. \A ds \in CloseGapOutcomes(clips, tk, <<from, to>>) : Follows(clips, ds)
  BY <1>1, TimelineFacts, CloseGapFollows
<1> QED
  BY <1>2, ClipsFollow

\* A clip gets other values, but stays on its track.
LEMMA ChangedFollows ==
  ASSUME TimelineInv, NEW id \in DOMAIN clips, clips[id].track \notin locked, NEW ds,
         DOMAIN ds = DOMAIN clips, ds[id] \in Candidate, ds[id].track = clips[id].track,
         \A k \in DOMAIN clips \ {id} : ds[k] = clips[k]
  PROVE  Follows(clips, ds)
BY TimelineFacts DEF Follows, Open

LEMMA SetClipSpeedStep == TimelineInv /\ SetClipSpeed => ClipsStep
<1> SUFFICES ASSUME TimelineInv, NEW id \in DOMAIN clips, NEW rate \in Rates,
                    NEW reversed \in BOOLEAN, Unlocked(clips, {id}), edits' = edits + 1,
                    Clips({[clips EXCEPT ![id].rate = rate, ![id].reversed = reversed]})
             PROVE  ClipsStep
  BY DEF SetClipSpeed, Command, Accept
<1> DEFINE ds == [clips EXCEPT ![id].rate = rate, ![id].reversed = reversed]
<1>1. clips[id].track \notin locked /\ clips[id] \in Candidate
  BY TimelineFacts DEF Unlocked
<1>2. rate \in Nat \X (Nat \ {0})
  BY TimelineAssumption DEF TimelineAssumption
<1>3. /\ DOMAIN ds = DOMAIN clips
      /\ ds[id] = [clips[id] EXCEPT !.rate = rate, !.reversed = reversed]
      /\ \A k \in DOMAIN clips \ {id} : ds[k] = clips[k]
  OBVIOUS
<1> HIDE DEF ds
<1>4. ds[id] \in Candidate /\ ds[id].track = clips[id].track
  BY <1>1, <1>2, <1>3 DEF Candidate
<1>5. Follows(clips, ds)
  BY <1>1, <1>3, <1>4, ChangedFollows
<1> QED
  BY <1>5, ClipsFollow DEF ds

LEMMA ReplaceClipMediaStep == TimelineInv /\ ReplaceClipMedia => ClipsStep
<1> SUFFICES ASSUME TimelineInv, NEW id \in DOMAIN clips, NEW a \in Assets, NEW src \in Times,
                    NEW len \in Lengths, Unlocked(clips, {id}), edits' = edits + 1,
                    Clips({[clips EXCEPT ![id].asset = a, ![id].src = src, ![id].len = len]})
             PROVE  ClipsStep
  BY DEF ReplaceClipMedia, Command, Accept
<1> DEFINE ds == [clips EXCEPT ![id].asset = a, ![id].src = src, ![id].len = len]
<1>1. clips[id].track \notin locked /\ clips[id] \in Candidate
  BY TimelineFacts DEF Unlocked
<1>2. src \in Int /\ len \in Int
  BY TimelineAssumption DEF TimelineAssumption, Times, Lengths
<1>3. /\ DOMAIN ds = DOMAIN clips
      /\ ds[id] = [clips[id] EXCEPT !.asset = a, !.src = src, !.len = len]
      /\ \A k \in DOMAIN clips \ {id} : ds[k] = clips[k]
  OBVIOUS
<1> HIDE DEF ds
<1>4. ds[id] \in Candidate /\ ds[id].track = clips[id].track
  BY <1>1, <1>2, <1>3 DEF Candidate
<1>5. Follows(clips, ds)
  BY <1>1, <1>3, <1>4, ChangedFollows
<1> QED
  BY <1>5, ClipsFollow DEF ds

LEMMA SetClipLinkedGroupStep == TimelineInv /\ SetClipLinkedGroup => ClipsStep
<1> SUFFICES ASSUME TimelineInv, NEW id \in DOMAIN clips, NEW link \in Links \cup {0},
                    edits' = edits + 1, Clips(SetClipLinkedGroupCommand(clips, id, link))
             PROVE  ClipsStep
  BY DEF SetClipLinkedGroup, Command, Accept
<1>1. \A ds \in SetClipLinkedGroupCommand(clips, id, link) : Follows(clips, ds)
  BY TimelineFacts, LinkCommandFollows
<1> QED
  BY <1>1, ClipsFollow
-----------------------------------------------------------------------------
(* Transitions, groups and tracks. *)

LEMMA InsertedTrack ==
  ASSUME NEW q \in Seq(Tracks), IsInjective(q), NEW n \in 1..(Len(q) + 1),
         NEW tk \in Tracks \ Range(q)
  PROVE  /\ InsertAt(q, n, tk) \in Seq(Tracks) /\ IsInjective(InsertAt(q, n, tk))
         /\ Range(InsertAt(q, n, tk)) = Range(q) \cup {tk}
<1> DEFINE r == InsertAt(q, n, tk)
<1>1. /\ r \in Seq(Tracks) /\ Len(r) = Len(q) + 1
      /\ \A i \in 1..(Len(q) + 1) :
           r[i] = IF i < n THEN q[i] ELSE IF i = n THEN tk ELSE q[i - 1]
  <2> DEFINE a == SubSeq(q, 1, n - 1)
             b == SubSeq(q, n, Len(q))
  <2>1. /\ a \in Seq(Tracks) /\ Len(a) = n - 1 /\ \A i \in 1..(n - 1) : a[i] = q[i]
        /\ b \in Seq(Tracks) /\ Len(b) = Len(q) + 1 - n
        /\ \A i \in 1..(Len(q) + 1 - n) : b[i] = q[n + i - 1]
    BY SubSeqProperties
  <2>2. r = a \o <<tk>> \o b
    BY DEF InsertAt
  <2> HIDE DEF a, b, r
  <2> DEFINE c == Append(a, tk)
  <2>3. /\ c \in Seq(Tracks) /\ Len(c) = n
        /\ \A i \in 1..n : c[i] = IF i < n THEN q[i] ELSE tk
    BY <2>1, AppendProperties
  <2>4. r = c \o b
    <3>1. a \o <<tk>> = c
      BY <2>1
    <3> QED
      BY <2>2, <3>1
  <2> HIDE DEF c
  <2>5. /\ r \in Seq(Tracks) /\ Len(r) = Len(c) + Len(b)
        /\ \A i \in 1..(Len(c) + Len(b)) : r[i] = IF i <= Len(c) THEN c[i] ELSE b[i - Len(c)]
    BY <2>1, <2>3, <2>4, ConcatProperties
  <2>6. ASSUME NEW i \in 1..(Len(q) + 1)
        PROVE  r[i] = IF i < n THEN q[i] ELSE IF i = n THEN tk ELSE q[i - 1]
    <3>1. Len(c) = n /\ Len(c) + Len(b) = Len(q) + 1
      BY <2>1, <2>3
    <3>2. CASE i <= n
      BY <2>3, <2>5, <3>1, <3>2
    <3>3. CASE i > n
      <4>1. i - n \in 1..(Len(q) + 1 - n) /\ n + (i - n) - 1 = i - 1
        BY <3>3
      <4>2. b[i - n] = q[i - 1]
        BY <2>1, <4>1
      <4>3. r[i] = b[i - n]
        BY <2>5, <3>1, <3>3
      <4> QED
        BY <3>3, <4>2, <4>3
    <3> QED
      BY <3>2, <3>3
  <2> QED
    BY <2>1, <2>3, <2>5, <2>6
<1> HIDE DEF r
<1>2. Range(r) = Range(q) \cup {tk}
  <2>1. \A i \in 1..Len(q) : q[i] = IF i < n THEN r[i] ELSE r[i + 1]
    BY <1>1
  <2>2. ASSUME NEW x \in Range(q)
        PROVE  x \in Range(r)
    <3>1. PICK i \in 1..Len(q) : q[i] = x
      BY DEF Range
    <3>2. CASE i < n
      <4>1. i \in DOMAIN r /\ r[i] = x
        BY <1>1, <2>1, <3>1, <3>2
      <4> QED
        BY <4>1 DEF Range
    <3>3. CASE ~(i < n)
      <4>1. i + 1 \in DOMAIN r /\ r[i + 1] = x
        BY <1>1, <2>1, <3>1, <3>3
      <4> QED
        BY <4>1 DEF Range
    <3> QED
      BY <3>2, <3>3
  <2>3. tk \in Range(r)
    <3>1. n \in DOMAIN r /\ r[n] = tk
      BY <1>1
    <3> QED
      BY <3>1 DEF Range
  <2>4. ASSUME NEW x \in Range(r)
        PROVE  x \in Range(q) \cup {tk}
    <3>1. PICK i \in 1..(Len(q) + 1) : r[i] = x
      BY <1>1 DEF Range
    <3>2. CASE i < n
      <4>1. i \in DOMAIN q /\ q[i] = x
        BY <1>1, <3>1, <3>2
      <4> QED
        BY <4>1 DEF Range
    <3>3. CASE i > n
      <4>1. i - 1 \in DOMAIN q /\ q[i - 1] = x
        BY <1>1, <3>1, <3>3
      <4> QED
        BY <4>1 DEF Range
    <3>4. CASE i = n
      BY <1>1, <3>1, <3>4
    <3> QED
      BY <3>2, <3>3, <3>4
  <2> QED
    BY <2>2, <2>3, <2>4
<1>3. IsInjective(r)
  <2> SUFFICES ASSUME NEW i \in 1..(Len(q) + 1), NEW j \in 1..(Len(q) + 1), i < j
               PROVE  r[i] # r[j]
    BY <1>1 DEF IsInjective
  <2>1. \A k, l \in 1..Len(q) : q[k] = q[l] => k = l
    BY DEF IsInjective
  <2>2. \A k \in 1..Len(q) : q[k] # tk
    BY DEF Range
  <2>3. CASE j < n
    BY <1>1, <2>1, <2>3
  <2>4. CASE j = n
    BY <1>1, <2>2, <2>4
  <2>5. CASE j > n
    <3>1. j - 1 \in 1..Len(q) /\ r[j] = q[j - 1]
      BY <1>1, <2>5
    <3>2. CASE i < n
      <4>1. i \in 1..Len(q) /\ r[i] = q[i] /\ i # j - 1
        BY <1>1, <2>5, <3>2
      <4> QED
        BY <2>1, <3>1, <4>1
    <3>3. CASE i = n
      BY <1>1, <2>2, <3>1, <3>3
    <3>4. CASE i > n
      BY <1>1, <2>1, <3>1, <3>4
    <3> QED
      BY <3>2, <3>3, <3>4
  <2> QED
    BY <2>3, <2>4, <2>5
<1> QED
  BY <1>1, <1>2, <1>3 DEF r

LEMMA RemovedTrack ==
  ASSUME NEW q \in Seq(Tracks), IsInjective(q), NEW n \in 1..Len(q)
  PROVE  /\ RemoveAt(q, n) \in Seq(Tracks) /\ IsInjective(RemoveAt(q, n))
         /\ Len(RemoveAt(q, n)) = Len(q) - 1
         /\ Range(RemoveAt(q, n)) = Range(q) \ {q[n]}
<1> DEFINE r == RemoveAt(q, n)
<1>1. /\ r \in Seq(Tracks) /\ Len(r) = Len(q) - 1
      /\ \A i \in 1..(Len(q) - 1) : r[i] = IF i < n THEN q[i] ELSE q[i + 1]
  <2> DEFINE a == SubSeq(q, 1, n - 1)
             b == SubSeq(q, n + 1, Len(q))
  <2>1. /\ a \in Seq(Tracks) /\ Len(a) = n - 1 /\ \A i \in 1..(n - 1) : a[i] = q[i]
        /\ b \in Seq(Tracks) /\ Len(b) = Len(q) - n
        /\ \A i \in 1..(Len(q) - n) : b[i] = q[n + i]
    BY SubSeqProperties
  <2>2. r = a \o b
    BY DEF RemoveAt
  <2> HIDE DEF a, b, r
  <2>3. /\ r \in Seq(Tracks) /\ Len(r) = Len(a) + Len(b)
        /\ \A i \in 1..(Len(a) + Len(b)) : r[i] = IF i <= Len(a) THEN a[i] ELSE b[i - Len(a)]
    BY <2>1, <2>2, ConcatProperties
  <2>4. ASSUME NEW i \in 1..(Len(q) - 1)
        PROVE  r[i] = IF i < n THEN q[i] ELSE q[i + 1]
    <3>1. Len(a) = n - 1 /\ Len(a) + Len(b) = Len(q) - 1
      BY <2>1
    <3>2. CASE i < n
      <4>1. i \in 1..(n - 1) /\ i \in 1..(Len(a) + Len(b)) /\ i <= Len(a)
        BY <3>1, <3>2
      <4>2. a[i] = q[i]
        BY <2>1, <4>1
      <4>3. r[i] = a[i]
        BY <2>3, <4>1
      <4> QED
        BY <3>2, <4>2, <4>3
    <3>3. CASE i >= n
      <4>1. i - (n - 1) \in 1..(Len(q) - n) /\ n + (i - (n - 1)) = i + 1
        BY <3>3
      <4>2. b[i - (n - 1)] = q[i + 1]
        BY <2>1, <4>1
      <4>3. r[i] = b[i - (n - 1)]
        BY <2>3, <3>1, <3>3
      <4> QED
        BY <3>3, <4>2, <4>3
    <3> QED
      BY <3>2, <3>3
  <2> QED
    BY <2>1, <2>3, <2>4
<1> HIDE DEF r
<1>2. \A k, l \in 1..Len(q) : q[k] = q[l] => k = l
  BY DEF IsInjective
<1>3. Range(r) = Range(q) \ {q[n]}
  <2>1. ASSUME NEW x \in Range(q), x # q[n]
        PROVE  x \in Range(r)
    <3>1. PICK i \in 1..Len(q) : q[i] = x
      BY DEF Range
    <3>2. i # n
      BY <2>1, <3>1
    <3>3. CASE i < n
      <4>1. i \in DOMAIN r /\ r[i] = x
        BY <1>1, <3>1, <3>3
      <4> QED
        BY <4>1 DEF Range
    <3>4. CASE i > n
      <4>1. i - 1 \in DOMAIN r /\ r[i - 1] = x
        BY <1>1, <3>1, <3>4
      <4> QED
        BY <4>1 DEF Range
    <3> QED
      BY <3>2, <3>3, <3>4
  <2>2. ASSUME NEW x \in Range(r)
        PROVE  x \in Range(q) /\ x # q[n]
    <3>1. PICK i \in 1..(Len(q) - 1) : r[i] = x
      BY <1>1 DEF Range
    <3>2. PICK k \in 1..Len(q) : q[k] = x /\ k # n
      BY <1>1, <3>1
    <3> QED
      BY <1>2, <3>2 DEF Range
  <2> QED
    BY <2>1, <2>2
<1>4. IsInjective(r)
  <2> SUFFICES ASSUME NEW i \in 1..(Len(q) - 1), NEW j \in 1..(Len(q) - 1), r[i] = r[j]
               PROVE  i = j
    BY <1>1 DEF IsInjective
  <2> DEFINE was(m) == IF m < n THEN m ELSE m + 1
  <2>1. /\ was(i) \in 1..Len(q) /\ r[i] = q[was(i)]
        /\ was(j) \in 1..Len(q) /\ r[j] = q[was(j)]
    BY <1>1
  <2>2. was(i) = was(j) => i = j
    OBVIOUS
  <2> HIDE DEF was
  <2> QED
    BY <1>2, <2>1, <2>2
<1> QED
  BY <1>1, <1>3, <1>4 DEF r

LEMMA AskedTransition ==
  ASSUME TimelineInv, NEW out \in DOMAIN clips, NEW x \in Asked(out)
  PROVE  x \in Transition
<1>1. PICK in \in DOMAIN clips \ {out}, d \in {e \in 1..2 : e <= End(clips[out])}, on \in BOOLEAN :
        x = [out |-> out, in |-> in, start |-> End(clips[out]) - d, dur |-> 2 * d, on |-> on]
  BY DEF Asked
<1>2. out \in ClipIds /\ in \in ClipIds /\ End(clips[out]) \in Nat
  BY TimelineFacts
<1>3. End(clips[out]) - d \in Nat /\ 2 * d \in Nat \ {0}
  BY <1>2
<1> QED
  BY <1>1, <1>2, <1>3 DEF Transition

LEMMA SetTransitionStep ==
  ASSUME TimelineInv, edits < MaxEdits, NEW op, NEW t \in TransitionIds, NEW x \in Transition,
         SetTransition(op, t, x)
  PROVE  TimelineInv' /\ UNCHANGED clips
<1>1. /\ transitions' = [u \in DOMAIN transitions \cup {t} |-> IF u = t THEN x ELSE transitions[u]]
      /\ Valid(clips, transitions', groups) /\ edits' = edits + 1
      /\ UNCHANGED <<clips, order, locked, groups>>
  BY DEF SetTransition, Command, Accept
<1>2. TimelineTypeOK
  BY DEF TimelineInv
<1>3. /\ DOMAIN transitions' \subseteq TransitionIds
      /\ \A u \in DOMAIN transitions' : transitions'[u] \in Transition
  BY <1>1, <1>2, TypeFacts
<1>4. edits' \in 0..MaxEdits
  BY <1>1, <1>2, TypeFacts, TimelineAssumption DEF TimelineAssumption
<1>5. TimelineTypeOK'
  BY <1>1, <1>2, <1>3, <1>4, TypeFacts DEF TimelineTypeOK, IsLayout
<1> QED
  BY <1>1, <1>5 DEF TimelineInv

LEMMA EditsNext ==
  ASSUME TimelineTypeOK, edits < MaxEdits, edits' = edits + 1
  PROVE  edits' \in 0..MaxEdits
BY TypeFacts, TimelineAssumption DEF TimelineAssumption

LEMMA RemoveTransitionStep ==
  ASSUME TimelineInv, edits < MaxEdits, RemoveTransition
  PROVE  TimelineInv' /\ UNCHANGED clips
<1>1. PICK t \in DOMAIN transitions :
        /\ transitions' = [u \in DOMAIN transitions \ {t} |-> transitions[u]]
        /\ edits' = edits + 1
        /\ UNCHANGED <<clips, order, locked, groups>>
  BY DEF RemoveTransition, Command, Accept
<1>2. TimelineTypeOK /\ Valid(clips, transitions, groups)
  BY DEF TimelineInv
<1>3. /\ DOMAIN transitions' = DOMAIN transitions \ {t}
      /\ \A u \in DOMAIN transitions' : transitions'[u] = transitions[u]
  BY <1>1
<1>4. ASSUME NEW u \in DOMAIN transitions'
      PROVE  ValidTransition(clips, transitions', u)
  <2>1. ValidTransition(clips, transitions, u) /\ transitions'[u] = transitions[u]
    BY <1>2, <1>3 DEF Valid
  <2> QED
    BY <1>3, <2>1 DEF ValidTransition
<1>5. Valid(clips, transitions', groups)
  BY <1>2, <1>4 DEF Valid
<1>6. TimelineTypeOK'
  BY <1>1, <1>2, <1>3, EditsNext, TypeFacts DEF TimelineTypeOK, IsLayout
<1> QED
  BY <1>1, <1>5, <1>6 DEF TimelineInv

LEMMA CreateGroupStep ==
  ASSUME TimelineInv, edits < MaxEdits, CreateMulticamGroup
  PROVE  TimelineInv' /\ UNCHANGED clips
<1>1. PICK j \in DOMAIN clips, k \in DOMAIN clips :
        /\ groups' = groups \cup {{j, k}} /\ Valid(clips, transitions, groups')
        /\ edits' = edits + 1 /\ UNCHANGED <<clips, order, locked, transitions>>
  BY DEF CreateMulticamGroup, Command, Accept
<1>2. TimelineTypeOK /\ j \in ClipIds /\ k \in ClipIds
  BY TimelineFacts DEF TimelineInv
<1>3. TimelineTypeOK'
  BY <1>1, <1>2, EditsNext, TypeFacts DEF TimelineTypeOK, IsLayout
<1> QED
  BY <1>1, <1>3 DEF TimelineInv

LEMMA RemoveGroupStep ==
  ASSUME TimelineInv, edits < MaxEdits, RemoveMulticamGroup
  PROVE  TimelineInv' /\ UNCHANGED clips
<1>1. PICK g \in groups :
        /\ groups' = groups \ {g} /\ edits' = edits + 1
        /\ UNCHANGED <<clips, order, locked, transitions>>
  BY DEF RemoveMulticamGroup, Command, Accept
<1>2. TimelineTypeOK /\ Valid(clips, transitions, groups)
  BY DEF TimelineInv
<1>3. Valid(clips, transitions, groups')
  BY <1>1, <1>2 DEF Valid, ValidGroup
<1>4. TimelineTypeOK'
  BY <1>1, <1>2, EditsNext, TypeFacts DEF TimelineTypeOK, IsLayout
<1> QED
  BY <1>1, <1>3, <1>4 DEF TimelineInv

LEMMA SetTrackLockedStep ==
  ASSUME TimelineInv, edits < MaxEdits, SetTrackLocked
  PROVE  TimelineInv' /\ UNCHANGED clips
<1>1. PICK tk \in Range(order), lock \in BOOLEAN :
        /\ locked' = IF lock THEN locked \cup {tk} ELSE locked \ {tk}
        /\ edits' = edits + 1 /\ UNCHANGED <<clips, order, transitions, groups>>
  BY DEF SetTrackLocked, Command, Accept
<1>2. TimelineTypeOK /\ Valid(clips, transitions, groups)
  BY DEF TimelineInv
<1>3. locked' \subseteq Range(order')
  BY <1>1, <1>2, TypeFacts
<1>4. TimelineTypeOK'
  BY <1>1, <1>2, <1>3, EditsNext, TypeFacts DEF TimelineTypeOK, IsLayout
<1> QED
  BY <1>1, <1>2, <1>4 DEF TimelineInv

\* The tracks are another list of at least the tracks that are used or locked.
LEMMA TracksStep ==
  ASSUME TimelineInv, edits < MaxEdits, edits' = edits + 1,
         UNCHANGED <<clips, locked, transitions, groups>>,
         order' \in Seq(Tracks), IsInjective(order'), Range(order) \subseteq Range(order')
  PROVE  TimelineInv' /\ UNCHANGED clips
<1>1. TimelineTypeOK /\ Valid(clips, transitions, groups)
  BY DEF TimelineInv
<1>2. TimelineTypeOK'
  BY <1>1, EditsNext, TypeFacts DEF TimelineTypeOK, IsLayout
<1> QED
  BY <1>1, <1>2 DEF TimelineInv

LEMMA AddTrackStep ==
  ASSUME TimelineInv, edits < MaxEdits, AddTrack
  PROVE  TimelineInv' /\ UNCHANGED clips
<1>1. PICK tk \in Tracks \ Range(order), n \in 1..(Len(order) + 1) :
        /\ order' = InsertAt(order, n, tk) /\ edits' = edits + 1
        /\ UNCHANGED <<clips, locked, transitions, groups>>
  BY DEF AddTrack, Command, Accept
<1>2. order \in Seq(Tracks) /\ IsInjective(order)
  BY TypeFacts DEF TimelineInv
<1>3. /\ order' \in Seq(Tracks) /\ IsInjective(order')
      /\ Range(order') = Range(order) \cup {tk}
  BY <1>1, <1>2, InsertedTrack
<1>4. Range(order) \subseteq Range(order')
  BY <1>3
<1> QED
  BY <1>1, <1>3, <1>4, TracksStep

LEMMA ReorderTrackStep ==
  ASSUME TimelineInv, edits < MaxEdits, ReorderTrack
  PROVE  TimelineInv' /\ UNCHANGED clips
<1>1. PICK from \in DOMAIN order, to \in DOMAIN order :
        /\ order' = InsertAt(RemoveAt(order, from), to, order[from]) /\ edits' = edits + 1
        /\ UNCHANGED <<clips, locked, transitions, groups>>
  BY DEF ReorderTrack, Command, Accept
<1>2. order \in Seq(Tracks) /\ IsInjective(order)
  BY TypeFacts DEF TimelineInv
<1> DEFINE rest == RemoveAt(order, from)
           tk == order[from]
<1>3. from \in 1..Len(order) /\ to \in 1..Len(order) /\ tk \in Tracks
  BY <1>2
<1>4. /\ rest \in Seq(Tracks) /\ IsInjective(rest) /\ Len(rest) = Len(order) - 1
      /\ Range(rest) = Range(order) \ {tk}
  BY <1>2, <1>3, RemovedTrack
<1> HIDE DEF rest
<1>5. to \in 1..(Len(rest) + 1) /\ tk \in Tracks \ Range(rest)
  BY <1>2, <1>3, <1>4
<1> DEFINE next == InsertAt(rest, to, tk)
<1>6. /\ next \in Seq(Tracks) /\ IsInjective(next) /\ Range(next) = Range(rest) \cup {tk}
  BY <1>4, <1>5, InsertedTrack
<1>7. order' = next
  BY <1>1 DEF rest
<1> HIDE DEF next, tk
<1>8. order' \in Seq(Tracks) /\ IsInjective(order') /\ Range(order) \subseteq Range(order')
  BY <1>4, <1>6, <1>7
<1> QED
  BY <1>1, <1>8, TracksStep

\* The clips of a track go with it; it is not locked.
LEMMA RemoveTrackStep ==
  ASSUME TimelineInv, edits < MaxEdits, RemoveTrack
  PROVE  TimelineInv' /\ Follows(clips, clips') /\ UNCHANGED locked
<1>1. PICK n \in DOMAIN order :
        /\ order[n] \notin locked
        /\ order' = RemoveAt(order, n) /\ clips' = Without(clips, OnTrack(clips, order[n]))
        /\ Valid(clips', transitions, groups)
        /\ edits' = edits + 1 /\ UNCHANGED <<locked, transitions, groups>>
  BY DEF RemoveTrack, Command, Accept
<1>2. TimelineTypeOK /\ order \in Seq(Tracks) /\ IsInjective(order)
  BY TypeFacts DEF TimelineInv
<1>3. /\ order' \in Seq(Tracks) /\ IsInjective(order')
      /\ Range(order') = Range(order) \ {order[n]}
  <2>1. n \in 1..Len(order)
    BY <1>2
  <2> QED
    BY <1>1, <1>2, <2>1, RemovedTrack
<1>4. Follows(clips, clips')
  BY <1>1, TimelineFacts, WithoutFollows DEF OnTrack
<1>5. /\ DOMAIN clips' \subseteq DOMAIN clips
      /\ \A k \in DOMAIN clips' : clips'[k] = clips[k] /\ clips[k].track # order[n]
  BY <1>1 DEF Without, OnTrack
<1>6. TimelineTypeOK'
  <2>1. DOMAIN clips' \subseteq ClipIds
    BY <1>2, <1>5, TypeFacts
  <2>2. \A k \in DOMAIN clips' : clips'[k] \in Clip /\ clips'[k].track \in Range(order')
    BY <1>2, <1>3, <1>5, TypeFacts
  <2>3. locked' \subseteq Range(order')
    BY <1>1, <1>2, <1>3, TypeFacts
  <2> QED
    BY <1>1, <1>2, <1>3, <2>1, <2>2, <2>3, EditsNext, TypeFacts DEF TimelineTypeOK, IsLayout
<1> QED
  BY <1>1, <1>4, <1>6 DEF TimelineInv
-----------------------------------------------------------------------------
(* The handlers of the editor: every batch is made of commands. *)

LEMMA CommitStep ==
  ASSUME TimelineInv, NEW N \in Nat, NEW commands, DOMAIN commands = 1..N,
         \A n \in 1..N : IsCommand(commands[n]), Len(commands) = N,
         Clips(Batch(commands)), edits' = edits + 1
  PROVE  ClipsStep
<1>1. \A ds \in Batch(commands) : Follows(clips, ds)
  BY TimelineFacts, BatchFollows
<1> QED
  BY <1>1, ClipsFollow

LEMMA SelectionFacts ==
  ASSUME TimelineInv, NEW ids \in SUBSET DOMAIN clips, NEW linked
  PROVE  /\ Expanded(ids, linked) \in SUBSET DOMAIN clips
         /\ Heads(ids, linked) \in Seq(ids)
         /\ Len(Heads(ids, linked)) \in Nat
         /\ DOMAIN Heads(ids, linked) = 1..Len(Heads(ids, linked))
         /\ Ascending(ids) \in Seq(ids)
         /\ Copied(ids) \in Seq(ids)
<1>1. Expanded(ids, linked) \subseteq DOMAIN clips
  BY SelectedFacts DEF Expanded
<1>2. ASSUME NEW S \in SUBSET ids
      PROVE  Ascending(S) \in Seq(S)
  <2>1. S \in SUBSET ClipIds
    BY TimelineFacts DEF IsTimeline
  <2> QED
    BY <2>1, IdFacts, AscendingFacts
<1>3. Heads(ids, linked) \in Seq(ids)
  <2> DEFINE S == {k \in ids : \A j \in ids : j < k => k \notin Selected(clips, j, linked)}
  <2>1. S \in SUBSET ids
    OBVIOUS
  <2>2. Heads(ids, linked) = Ascending(S)
    BY DEF Heads
  <2> HIDE DEF S
  <2>3. Ascending(S) \in Seq(S)
    BY <1>2, <2>1
  <2> QED
    BY <2>1, <2>2, <2>3
<1>4. Copied(ids) \in Seq(ids)
  <2> DEFINE before == [k \in ids |-> {j \in ids : Precedes(clips, j, k)}]
  <2>1. \A k \in ids : before[k] = {j \in ids : Precedes(clips, j, k)}
    OBVIOUS
  <2>2. before \in [ids -> SUBSET ids]
    OBVIOUS
  <2>3. Copied(ids) = Sorted(ids, before)
    BY DEF Copied
  <2> HIDE DEF before
  <2>4. ASSUME NEW k \in ids
        PROVE  k \in Int /\ clips[k].start \in Int
    <3>1. k \in DOMAIN clips
      OBVIOUS
    <3>2. k \in ClipIds /\ clips[k].start \in Nat
      BY <3>1, TimelineFacts
    <3> QED
      BY <3>2, IdFacts
  <2>5. \A k \in ids : k \notin before[k]
    BY <2>1, <2>4 DEF Precedes
  <2>6. \A j, k \in ids : j = k \/ j \in before[k] \/ k \in before[j]
    BY <2>1, <2>4 DEF Precedes
  <2>7. ASSUME NEW j \in ids, NEW k \in ids, j \in before[k], NEW i \in before[j]
        PROVE  i \in before[k]
    BY <2>1, <2>2, <2>4, <2>7 DEF Precedes
  <2>8. Orders(ids, before)
    BY <2>2, <2>5, <2>6, <2>7 DEF Orders
  <2>9. IsFiniteSet(ids)
    BY TimelineFacts, IdFacts DEF IsTimeline
  <2> QED
    BY <2>3, <2>8, <2>9, SortedFacts
<1>5. Ascending(ids) \in Seq(ids)
  BY <1>2
<1> QED
  BY <1>1, <1>3, <1>4, <1>5

LEMMA SelectionsFacts == \A ids \in Selections : ids \in SUBSET DOMAIN clips
BY DEF Selections, kSubset

LEMMA SplitAllStep ==
  ASSUME TimelineInv, NEW ids \in SUBSET DOMAIN clips, NEW t \in Times, NEW linked,
         SplitAll(ids, t, linked)
  PROVE  ClipsStep
<1> DEFINE ks == Heads(ids, linked)
           commands == [n \in DOMAIN ks |->
                          [op |-> "Split", id |-> ks[n], at |-> t, linked |-> linked]]
<1>1. edits' = edits + 1 /\ Clips(Batch(commands))
  BY DEF SplitAll, CommitBatch, Accept
<1>2. Len(ks) \in Nat /\ DOMAIN ks = 1..Len(ks)
  BY SelectionFacts
<1>3. t \in Int
  BY TimelineAssumption DEF Times, TimelineAssumption
<1> HIDE DEF ks
<1>4. DOMAIN commands = 1..Len(ks) /\ Len(commands) = Len(ks)
  BY <1>2
<1>5. \A n \in 1..Len(ks) : IsCommand(commands[n])
  BY <1>2, <1>3 DEF IsCommand
<1> HIDE DEF commands
<1> QED
  BY <1>1, <1>2, <1>4, <1>5, CommitStep

LEMMA SplitSelectedClipStep == TimelineInv /\ SplitSelectedClip => ClipsStep
BY SelectionsFacts, SplitAllStep DEF SplitSelectedClip

LEMMA InsideFacts == \A t, tracks : Inside(t, tracks) \in SUBSET DOMAIN clips
BY DEF Inside, Covering

LEMMA AddEditsAtStep == TimelineInv /\ AddEditsAt => ClipsStep
BY InsideFacts, SplitAllStep DEF AddEditsAt

LEMMA DeleteSelectedClipStep == TimelineInv /\ DeleteSelectedClip => ClipsStep
<1> SUFFICES ASSUME TimelineInv, NEW ids \in Selections, NEW ripple \in BOOLEAN,
                    NEW linked \in BOOLEAN, edits' = edits + 1,
                    Clips(Batch([n \in DOMAIN Heads(ids, linked) |->
                       [op |-> "Remove", id |-> Heads(ids, linked)[n], ripple |-> ripple,
                        linked |-> linked]]))
             PROVE  ClipsStep
  BY DEF DeleteSelectedClip, CommitBatch, Accept
<1> DEFINE ks == Heads(ids, linked)
           commands == [n \in DOMAIN ks |->
                          [op |-> "Remove", id |-> ks[n], ripple |-> ripple, linked |-> linked]]
<1>1. Len(ks) \in Nat /\ DOMAIN ks = 1..Len(ks)
  BY SelectionsFacts, SelectionFacts
<1>2. Clips(Batch(commands))
  OBVIOUS
<1> HIDE DEF ks
<1>3. DOMAIN commands = 1..Len(ks) /\ Len(commands) = Len(ks)
  BY <1>1
<1>4. \A n \in 1..Len(ks) : IsCommand(commands[n])
  BY <1>1 DEF IsCommand
<1> HIDE DEF commands
<1> QED
  BY <1>1, <1>2, <1>3, <1>4, CommitStep

LEMMA UnlinkSelectedClipsStep == TimelineInv /\ UnlinkSelectedClips => ClipsStep
<1> SUFFICES ASSUME TimelineInv, NEW ids \in Selections, edits' = edits + 1,
                    Clips(Batch([n \in DOMAIN Ascending(ids) |->
                       [op |-> "SetLinkedGroup", id |-> Ascending(ids)[n], link |-> 0]]))
             PROVE  ClipsStep
  BY DEF UnlinkSelectedClips, CommitBatch, Accept
<1> DEFINE ks == Ascending(ids)
           commands == [n \in DOMAIN ks |-> [op |-> "SetLinkedGroup", id |-> ks[n], link |-> 0]]
<1>1. Len(ks) \in Nat /\ DOMAIN ks = 1..Len(ks)
  <2>1. ks \in Seq(ids)
    BY SelectionsFacts, SelectionFacts
  <2> QED
    BY <2>1
<1>2. Clips(Batch(commands))
  OBVIOUS
<1> HIDE DEF ks
<1>3. DOMAIN commands = 1..Len(ks) /\ Len(commands) = Len(ks)
  BY <1>1
<1>4. \A n \in 1..Len(ks) : IsCommand(commands[n])
  BY <1>1 DEF IsCommand
<1> HIDE DEF commands
<1> QED
  BY <1>1, <1>2, <1>3, <1>4, CommitStep

LEMMA ResyncStep == TimelineInv /\ ResyncLinkedAvSelection => ClipsStep
<1> SUFFICES ASSUME TimelineInv, ResyncLinkedAvSelection
             PROVE  ClipsStep
  OBVIOUS
<1> DEFINE astray(active) == {k \in Selected(clips, active, TRUE) :
                                clips[k].start # clips[active].start}
           plan(active) == PlanOrder(clips, astray(active), order)
<1>1. PICK active \in DOMAIN clips :
        /\ edits' = edits + 1
        /\ Clips(Batch([n \in DOMAIN plan(active) |->
             MoveTo(plan(active)[n], clips[plan(active)[n]].track, clips[active].start,
                    "reject", FALSE)]))
  BY DEF ResyncLinkedAvSelection, CommitBatch, Accept
<1> DEFINE start == clips[active].start
           ids == astray(active)
           ks == plan(active)
           commands == [n \in DOMAIN ks |-> MoveTo(ks[n], clips[ks[n]].track, start, "reject", FALSE)]
<1>2. ids \in SUBSET DOMAIN clips
  BY SelectedFacts
<1>3. ks \in Seq(ids)
  BY <1>2, TimelineFacts, PlanFacts
<1>4. Len(ks) \in Nat /\ DOMAIN ks = 1..Len(ks)
  BY <1>3
<1>5. edits' = edits + 1 /\ Clips(Batch(commands))
  BY <1>1
<1>6. start \in Int
  BY TimelineFacts
<1> HIDE DEF astray, plan, ids, ks
<1>7. DOMAIN commands = 1..Len(ks) /\ Len(commands) = Len(ks)
  BY <1>4
<1>8. ASSUME NEW n \in 1..Len(ks)
      PROVE  IsCommand(commands[n])
  <2>1. ks[n] \in DOMAIN clips
    BY <1>2, <1>3
  <2>2. clips[ks[n]].track \in Range(order)
    BY <2>1, TimelineFacts
  <2>3. commands[n] = MoveTo(ks[n], clips[ks[n]].track, start, "reject", FALSE)
    BY <1>4
  <2> HIDE DEF start, commands
  <2> QED
    BY <1>6, <2>2, <2>3 DEF IsCommand, MoveTo
<1> HIDE DEF commands
<1> QED
  BY <1>4, <1>5, <1>7, <1>8, CommitStep
\* A batch with one command for each of the clips ks.
LEMMA EachStep ==
  ASSUME TimelineInv, NEW S, NEW ks \in Seq(S), NEW commands, DOMAIN commands = DOMAIN ks,
         commands = [n \in DOMAIN ks |-> commands[n]],
         \A n \in DOMAIN ks : ks[n] \in S => IsCommand(commands[n]),
         edits' = edits + 1, Clips(Batch(commands))
  PROVE  ClipsStep
<1>1. Len(ks) \in Nat /\ DOMAIN ks = 1..Len(ks) /\ \A n \in DOMAIN ks : ks[n] \in S
  OBVIOUS
<1>2. Len(commands) = Len(ks)
  BY <1>1
<1> QED
  BY <1>1, <1>2, CommitStep

LEMMA MoveSelectionStep == TimelineInv /\ MoveSelection => ClipsStep
<1> SUFFICES ASSUME TimelineInv, MoveSelection
             PROVE  ClipsStep
  OBVIOUS
<1> DEFINE Batch1(ids, delta, mode, linked, active, there) ==
             [n \in DOMAIN Heads(ids, linked) |->
                MoveTo(Heads(ids, linked)[n],
                       IF Heads(ids, linked)[n] = active THEN there
                       ELSE clips[Heads(ids, linked)[n]].track,
                       clips[Heads(ids, linked)[n]].start + delta, mode, linked)]
<1>1. PICK ids \in Selections, delta \in Times \cup {-t : t \in Times}, mode \in Modes,
           linked \in BOOLEAN :
        \E active \in ids, there \in Range(order) :
          DragSelection(ids, delta, mode, linked,
                        LAMBDA k : IF k = active THEN there ELSE clips[k].track)
  BY DEF MoveSelection
<1>2. PICK active \in ids, there \in Range(order) :
        edits' = edits + 1 /\ Clips(Batch(Batch1(ids, delta, mode, linked, active, there)))
  BY <1>1 DEF DragSelection, CommitBatch, Accept
<1> DEFINE ks == Heads(ids, linked)
           commands == Batch1(ids, delta, mode, linked, active, there)
<1>3. ks \in Seq(ids)
  BY SelectionsFacts, SelectionFacts
<1>4. delta \in Int
  BY TimelineAssumption DEF Times, TimelineAssumption
<1>5. ASSUME NEW n \in DOMAIN ks, ks[n] \in ids
      PROVE  IsCommand(commands[n])
  <2>1. clips[ks[n]].track \in Range(order) /\ clips[ks[n]].start + delta \in Int
    <3>1. ks[n] \in DOMAIN clips
      BY <1>5, SelectionsFacts
    <3>2. clips[ks[n]].track \in Range(order) /\ clips[ks[n]].start \in Nat
      BY <3>1, TimelineFacts
    <3> QED
      BY <1>4, <3>2
  <2> DEFINE to == IF ks[n] = active THEN there ELSE clips[ks[n]].track
             start == clips[ks[n]].start + delta
  <2>2. to \in Range(order) /\ start \in Int
    BY <2>1
  <2>3. commands[n] = MoveTo(ks[n], to, start, mode, linked)
    OBVIOUS
  <2> HIDE DEF to, start, commands
  <2> QED
    BY <2>2, <2>3 DEF IsCommand, MoveTo
<1>6. DOMAIN commands = DOMAIN ks /\ commands = [n \in DOMAIN ks |-> commands[n]]
  OBVIOUS
<1>7. Clips(Batch(commands))
  BY <1>2
<1> HIDE DEF commands, ks, Batch1
<1> QED
  BY <1>2, <1>3, <1>5, <1>6, <1>7, EachStep

LEMMA NudgeSelectionStep == TimelineInv /\ NudgeTimelineSelection => ClipsStep
<1> SUFFICES ASSUME TimelineInv, NudgeTimelineSelection
             PROVE  ClipsStep
  OBVIOUS
<1> DEFINE Batch1(ids, frames, mode, linked) ==
             [n \in DOMAIN Heads(ids, linked) |->
                MoveTo(Heads(ids, linked)[n], clips[Heads(ids, linked)[n]].track,
                       clips[Heads(ids, linked)[n]].start + frames, mode, linked)]
<1>1. PICK ids \in Selections, frames \in {-1, 1}, mode \in {"reject", "ripple"},
           linked \in BOOLEAN :
        DragSelection(ids, frames, mode, linked, LAMBDA k : clips[k].track)
  BY DEF NudgeTimelineSelection
<1>2. edits' = edits + 1 /\ Clips(Batch(Batch1(ids, frames, mode, linked)))
  BY <1>1 DEF DragSelection, CommitBatch, Accept
<1> DEFINE ks == Heads(ids, linked)
           commands == Batch1(ids, frames, mode, linked)
<1>3. ks \in Seq(ids)
  BY SelectionsFacts, SelectionFacts
<1>4. ASSUME NEW n \in DOMAIN ks, ks[n] \in ids
      PROVE  IsCommand(commands[n])
  <2> DEFINE to == clips[ks[n]].track
             start == clips[ks[n]].start + frames
  <2>1. to \in Range(order) /\ start \in Int
    <3>1. ks[n] \in DOMAIN clips
      BY <1>4, SelectionsFacts
    <3>2. clips[ks[n]].track \in Range(order) /\ clips[ks[n]].start \in Nat
      BY <3>1, TimelineFacts
    <3> QED
      BY <3>2
  <2>2. commands[n] = MoveTo(ks[n], to, start, mode, linked)
    OBVIOUS
  <2> HIDE DEF to, start, commands
  <2> QED
    BY <2>1, <2>2 DEF IsCommand, MoveTo
<1>5. DOMAIN commands = DOMAIN ks /\ commands = [n \in DOMAIN ks |-> commands[n]]
  OBVIOUS
<1>6. Clips(Batch(commands))
  BY <1>2
<1> HIDE DEF commands, ks, Batch1
<1> QED
  BY <1>2, <1>3, <1>4, <1>5, <1>6, EachStep

\* The command of a batch of trims for clip k.
TrimTo(k, from, to, mode, linked) ==
  [op |-> "Trim", id |-> k, start |-> from, dur |-> to - from,
   src |-> Retrimmed(clips[k], from, to).src, len |-> Retrimmed(clips[k], from, to).len,
   mode |-> mode, linked |-> linked]

LEMMA TrimToFacts ==
  ASSUME TimelineInv, NEW k \in DOMAIN clips, NEW from \in Int, NEW to \in Int,
         NEW mode \in Modes, NEW linked
  PROVE  IsCommand(TrimTo(k, from, to, mode, linked))
<1>1. /\ Retrimmed(clips[k], from, to).src \in Int
      /\ Retrimmed(clips[k], from, to).len \in Int
  BY TimelineFacts, AskedFacts
<1> QED
  BY <1>1 DEF IsCommand, TrimTo
LEMMA TrimSelectionStep == TimelineInv /\ TrimSelection => ClipsStep
<1> SUFFICES ASSUME TimelineInv, TrimSelection
             PROVE  ClipsStep
  OBVIOUS
<1>1. PICK ids \in Selections, delta \in {-1, 1}, head \in BOOLEAN, mode \in Modes,
           linked \in BOOLEAN :
        TrimAll(ids, mode, linked,
                LAMBDA k : clips[k].start + (IF head THEN delta ELSE 0),
                LAMBDA k : End(clips[k]) + (IF head THEN 0 ELSE delta))
  BY DEF TrimSelection
<1> DEFINE from(k) == clips[k].start + (IF head THEN delta ELSE 0)
           to(k) == End(clips[k]) + (IF head THEN 0 ELSE delta)
           ks == Heads(ids, linked)
           commands == [n \in DOMAIN ks |-> TrimTo(ks[n], from(ks[n]), to(ks[n]), mode, linked)]
<1>2. edits' = edits + 1 /\ Clips(Batch(commands))
  BY <1>1 DEF TrimAll, CommitBatch, Accept, TrimTo
<1>3. ks \in Seq(ids)
  BY SelectionsFacts, SelectionFacts
<1>4. ASSUME NEW n \in DOMAIN ks, ks[n] \in ids
      PROVE  IsCommand(commands[n])
  <2>1. ks[n] \in DOMAIN clips
    BY <1>4, SelectionsFacts
  <2>2. clips[ks[n]].start \in Nat /\ End(clips[ks[n]]) \in Nat
    BY <2>1, TimelineFacts
  <2>3. from(ks[n]) \in Int /\ to(ks[n]) \in Int
    BY <2>2
  <2>4. commands[n] = TrimTo(ks[n], from(ks[n]), to(ks[n]), mode, linked)
    OBVIOUS
  <2> HIDE DEF from, to, commands
  <2> QED
    BY <2>1, <2>3, <2>4, TrimToFacts
<1>5. DOMAIN commands = DOMAIN ks /\ commands = [n \in DOMAIN ks |-> commands[n]]
  OBVIOUS
<1> HIDE DEF commands, ks
<1> QED
  BY <1>2, <1>3, <1>4, <1>5, EachStep

LEMMA TrimHeadStep == TimelineInv /\ TrimHeadToPlayhead => ClipsStep
<1> SUFFICES ASSUME TimelineInv, TrimHeadToPlayhead
             PROVE  ClipsStep
  OBVIOUS
<1>1. PICK t \in Times, tracks \in SUBSET Range(order), mode \in {"overwrite", "ripple"},
           linked \in BOOLEAN :
        TrimAll(Inside(t, tracks), mode, linked, LAMBDA k : t, LAMBDA k : End(clips[k]))
  BY DEF TrimHeadToPlayhead
<1> DEFINE ids == Inside(t, tracks)
           from(k) == t
           to(k) == End(clips[k])
           ks == Heads(ids, linked)
           commands == [n \in DOMAIN ks |-> TrimTo(ks[n], from(ks[n]), to(ks[n]), mode, linked)]
<1>2. edits' = edits + 1 /\ Clips(Batch(commands))
  BY <1>1 DEF TrimAll, CommitBatch, Accept, TrimTo
<1>3. ids \in SUBSET DOMAIN clips /\ t \in Int
  BY InsideFacts, TimelineAssumption DEF Times, TimelineAssumption
<1>4. mode \in Modes
  BY DEF Modes
<1> HIDE DEF ids
<1>5. ks \in Seq(ids)
  BY <1>3, SelectionFacts
<1>6. ASSUME NEW n \in DOMAIN ks, ks[n] \in ids
      PROVE  IsCommand(commands[n])
  <2>1. ks[n] \in DOMAIN clips
    BY <1>3, <1>6
  <2>2. clips[ks[n]].start \in Nat /\ End(clips[ks[n]]) \in Nat
    BY <2>1, TimelineFacts
  <2>3. from(ks[n]) \in Int /\ to(ks[n]) \in Int
    BY <1>3, <2>2
  <2>4. commands[n] = TrimTo(ks[n], from(ks[n]), to(ks[n]), mode, linked)
    OBVIOUS
  <2> HIDE DEF from, to, commands
  <2> QED
    BY <1>4, <2>1, <2>3, <2>4, TrimToFacts
<1>7. DOMAIN commands = DOMAIN ks /\ commands = [n \in DOMAIN ks |-> commands[n]]
  OBVIOUS
<1> HIDE DEF commands, ks
<1> QED
  BY <1>2, <1>5, <1>6, <1>7, EachStep

LEMMA TrimTailStep == TimelineInv /\ TrimTailToPlayhead => ClipsStep
<1> SUFFICES ASSUME TimelineInv, TrimTailToPlayhead
             PROVE  ClipsStep
  OBVIOUS
<1>1. PICK t \in Times, tracks \in SUBSET Range(order), mode \in {"overwrite", "ripple"},
           linked \in BOOLEAN :
        TrimAll(Inside(t, tracks), mode, linked, LAMBDA k : clips[k].start, LAMBDA k : t)
  BY DEF TrimTailToPlayhead
<1> DEFINE ids == Inside(t, tracks)
           from(k) == clips[k].start
           to(k) == t
           ks == Heads(ids, linked)
           commands == [n \in DOMAIN ks |-> TrimTo(ks[n], from(ks[n]), to(ks[n]), mode, linked)]
<1>2. edits' = edits + 1 /\ Clips(Batch(commands))
  BY <1>1 DEF TrimAll, CommitBatch, Accept, TrimTo
<1>3. ids \in SUBSET DOMAIN clips /\ t \in Int
  BY InsideFacts, TimelineAssumption DEF Times, TimelineAssumption
<1>4. mode \in Modes
  BY DEF Modes
<1> HIDE DEF ids
<1>5. ks \in Seq(ids)
  BY <1>3, SelectionFacts
<1>6. ASSUME NEW n \in DOMAIN ks, ks[n] \in ids
      PROVE  IsCommand(commands[n])
  <2>1. ks[n] \in DOMAIN clips
    BY <1>3, <1>6
  <2>2. clips[ks[n]].start \in Nat /\ End(clips[ks[n]]) \in Nat
    BY <2>1, TimelineFacts
  <2>3. from(ks[n]) \in Int /\ to(ks[n]) \in Int
    BY <1>3, <2>2
  <2>4. commands[n] = TrimTo(ks[n], from(ks[n]), to(ks[n]), mode, linked)
    OBVIOUS
  <2> HIDE DEF from, to, commands
  <2> QED
    BY <1>4, <2>1, <2>3, <2>4, TrimToFacts
<1>7. DOMAIN commands = DOMAIN ks /\ commands = [n \in DOMAIN ks |-> commands[n]]
  OBVIOUS
<1> HIDE DEF commands, ks
<1> QED
  BY <1>2, <1>5, <1>6, <1>7, EachStep
LEMMA FirstFreshFacts ==
  ASSUME NEW n \in Nat, Cardinality(FreshIds(DOMAIN clips)) >= n
  PROVE  FirstFresh(n) \in Seq(ClipIds) /\ Len(FirstFresh(n)) = n
<1> DEFINE free == FreshIds(DOMAIN clips)
           new == Ascending(free)
<1>1. free \in SUBSET ClipIds
  BY DEF FreshIds
<1>2. free \subseteq Int /\ IsFiniteSet(free)
  BY <1>1, IdFacts
<1> HIDE DEF free
<1>3. new \in Seq(free) /\ Len(new) = Cardinality(free) /\ Cardinality(free) \in Nat
  BY <1>2, AscendingFacts
<1>4. new \in Seq(ClipIds)
  BY <1>1, <1>3
<1>5. n <= Len(new)
  BY <1>3 DEF free
<1> HIDE DEF new
<1>6. SubSeq(new, 1, n) \in Seq(ClipIds) /\ Len(SubSeq(new, 1, n)) = n
  <2>1. \A i \in 1..n : i \in 1..Len(new)
    BY <1>4, <1>5
  <2>2. SubSeq(new, 1, n) \in Seq(ClipIds) /\ Len(SubSeq(new, 1, n)) = IF 1 <= n THEN n - 1 + 1 ELSE 0
    BY <1>4, <2>1, SubSeqProperties
  <2> QED
    BY <2>2
<1> QED
  BY <1>6 DEF FirstFresh, new, free

LEMMA InsertAllStep ==
  ASSUME TimelineInv, NEW ks \in Seq(ClipIds), NEW new, NEW mode,
         \A n \in DOMAIN ks : new[n] \in Candidate /\ new[n].track \in Range(order),
         InsertAll(ks, new, mode)
  PROVE  ClipsStep
<1> DEFINE commands == [n \in DOMAIN ks |->
                          [op |-> "Insert", reserved |-> DOMAIN clips \cup Range(ks), id |-> ks[n],
                           clip |-> new[n], mode |-> mode]]
<1>1. edits' = edits + 1 /\ Clips(Batch(commands))
  BY DEF InsertAll, CommitBatch, Accept
<1>2. ASSUME NEW n \in DOMAIN ks, ks[n] \in ClipIds
      PROVE  IsCommand(commands[n])
  BY <1>2 DEF IsCommand
<1>3. DOMAIN commands = DOMAIN ks /\ commands = [n \in DOMAIN ks |-> commands[n]]
  OBVIOUS
<1> HIDE DEF commands
<1> QED
  BY <1>1, <1>2, <1>3, EachStep

LEMMA InsertSourceStep == TimelineInv /\ InsertLoadedSource => ClipsStep
<1> SUFFICES ASSUME TimelineInv, InsertLoadedSource
             PROVE  ClipsStep
  OBVIOUS
<1> DEFINE Placed(source, t) ==
             [source EXCEPT !.start = t, !.dur = source.len, !.rate = <<1, 1>>,
                            !.link = FreshLink(clips)]
<1>1. PICK source \in NewClips, t \in Times, mode \in {"ripple", "overwrite"},
           v \in VideoTracks \cap Range(order), a \in Range(order) \ VideoTracks :
        /\ Cardinality(FreshIds(DOMAIN clips)) >= 2
        /\ HasFreshLink(clips)
        /\ InsertAll(FirstFresh(2), <<[Placed(source, t) EXCEPT !.track = v],
                                      [Placed(source, t) EXCEPT !.track = a]>>, mode)
  BY DEF InsertLoadedSource
<1> DEFINE c == Placed(source, t)
           ks == FirstFresh(2)
           new == <<[c EXCEPT !.track = v], [c EXCEPT !.track = a]>>
<1>2. ks \in Seq(ClipIds) /\ Len(ks) = 2
  BY <1>1, FirstFreshFacts
<1>3. c \in Candidate
  <2>1. source \in Clip /\ t \in Int /\ FreshLink(clips) \in Links
    BY <1>1, FreshFacts, TimelineAssumption DEF Times, TimelineAssumption
  <2> DEFINE len == source.len
             rate == <<1, 1>>
             link == FreshLink(clips)
  <2>2. source \in Candidate /\ len \in Int /\ rate \in Nat \X (Nat \ {0})
    <3>1. source \in Candidate
      BY <2>1, ClipFacts
    <3> QED
      BY <3>1 DEF Candidate
  <2>3. c = [source EXCEPT !.start = t, !.dur = len, !.rate = rate, !.link = link]
    OBVIOUS
  <2> HIDE DEF len, rate, link, c
  <2> QED
    BY <2>1, <2>2, <2>3 DEF Candidate, link
<1>4. v \in Tracks /\ a \in Tracks
  <2>1. Range(order) \subseteq Tracks
    BY TimelineFacts DEF Range
  <2> QED
    BY <2>1
<1> HIDE DEF c, ks
<1>5. \A n \in 1..2 : new[n] \in Candidate /\ new[n].track \in Range(order)
  BY <1>3, <1>4 DEF Candidate
<1>6. \A n \in DOMAIN ks : new[n] \in Candidate /\ new[n].track \in Range(order)
  BY <1>2, <1>5
<1>7. InsertAll(ks, new, mode)
  BY <1>1 DEF c, ks
<1> HIDE DEF new
<1> QED
  BY <1>2, <1>6, <1>7, InsertAllStep

LEMMA PasteStep == TimelineInv /\ PasteClipboardEntries => ClipsStep
<1> SUFFICES ASSUME TimelineInv, PasteClipboardEntries
             PROVE  ClipsStep
  OBVIOUS
<1> DEFINE New(from, t, targeted) ==
             [n \in DOMAIN from |->
                [clips[from[n]] EXCEPT
                   !.start = t + @ - clips[from[1]].start,
                   !.track = CHOOSE tk \in Destination(from[n], targeted) : TRUE,
                   !.link = IF @ = 0 THEN 0 ELSE FreshLink(clips)]]
           Links1(from) == {clips[k].link : k \in Range(from)} \ {0}
<1>1. PICK ids \in Selections, t \in Times, targeted \in SUBSET Range(order), mode \in Modes,
           linked \in BOOLEAN :
        LET from == Copied(Expanded(ids, linked)) IN
        /\ Cardinality(FreshIds(DOMAIN clips)) >= Len(from)
        /\ Links1(from) # {} => HasFreshLink(clips)
        /\ \A k \in Range(from) : Destination(k, targeted) # {}
        /\ InsertAll(FirstFresh(Len(from)), New(from, t, targeted), mode)
  BY DEF PasteClipboardEntries
<1> DEFINE S == Expanded(ids, linked)
           from == Copied(S)
           ks == FirstFresh(Len(from))
           new == New(from, t, targeted)
<1>2. S \in SUBSET DOMAIN clips
  BY SelectionsFacts, SelectionFacts
<1>3. from \in Seq(S)
  <2> HIDE DEF S
  <2> QED
    BY <1>2, SelectionFacts
<1>4. /\ Cardinality(FreshIds(DOMAIN clips)) >= Len(from)
      /\ Links1(from) # {} => HasFreshLink(clips)
      /\ \A k \in Range(from) : Destination(k, targeted) # {}
      /\ InsertAll(ks, new, mode)
  BY <1>1
<1> HIDE DEF S, from
<1>5. Len(from) \in Nat /\ DOMAIN from = 1..Len(from) /\ \A n \in DOMAIN from : from[n] \in S
  BY <1>3
<1>6. ks \in Seq(ClipIds) /\ DOMAIN ks = DOMAIN from
  <2>1. ks \in Seq(ClipIds) /\ Len(ks) = Len(from)
    BY <1>4, <1>5, FirstFreshFacts
  <2> QED
    BY <1>5, <2>1
<1>7. t \in Int
  BY TimelineAssumption DEF Times, TimelineAssumption
<1>8. ASSUME NEW n \in DOMAIN from
      PROVE  new[n] \in Candidate /\ new[n].track \in Range(order)
  <2> DEFINE c == clips[from[n]]
             start == t + c.start - clips[from[1]].start
             track == CHOOSE tk \in Destination(from[n], targeted) : TRUE
             link == IF c.link = 0 THEN 0 ELSE FreshLink(clips)
  <2>1. from[n] \in DOMAIN clips /\ from[1] \in DOMAIN clips /\ from[n] \in Range(from)
    <3>1. 1 \in DOMAIN from
      BY <1>5
    <3> QED
      BY <1>2, <1>5, <3>1 DEF Range
  <2>2. c \in Candidate /\ start \in Int
    <3>1. c \in Candidate /\ c.start \in Nat /\ clips[from[1]].start \in Nat
      BY <2>1, TimelineFacts
    <3> QED
      BY <1>7, <3>1
  <2>3. track \in Range(order) /\ track \in Tracks
    <3>1. Destination(from[n], targeted) # {}
      BY <1>4, <2>1
    <3>2. Destination(from[n], targeted) \subseteq Range(order)
      BY DEF Destination, Range
    <3>3. Range(order) \subseteq Tracks
      BY TimelineFacts DEF Range
    <3> QED
      BY <3>1, <3>2, <3>3
  <2>4. link \in Links \cup {0}
    <3>1. c.link # 0 => Links1(from) # {}
      BY <2>1
    <3> QED
      BY <1>4, <3>1, FreshFacts
  <2>5. new[n] = [c EXCEPT !.start = start, !.track = track, !.link = link]
    OBVIOUS
  <2> HIDE DEF c, start, track, link, new
  <2> QED
    BY <2>2, <2>3, <2>4, <2>5 DEF Candidate
<1>9. InsertAll(ks, new, mode)
  BY <1>4
<1> HIDE DEF ks, new
<1> QED
  BY <1>6, <1>8, <1>9, InsertAllStep

LEMMA FreezeStep == TimelineInv /\ FreezeFrameFromTimeline => ClipsStep
<1> SUFFICES ASSUME TimelineInv, FreezeFrameFromTimeline
             PROVE  ClipsStep
  OBVIOUS
<1> DEFINE Cut(k, t) == [op |-> "Split", id |-> k, at |-> t, linked |-> FALSE]
           Target(k, t) == IF clips[k].start < t THEN Fresh(DOMAIN clips) ELSE k
           Hold(k, t) ==
             [op |-> "Trim", id |-> Target(k, t), start |-> t, dur |-> End(clips[k]) - t,
              src |-> SourceTimeAt(clips[k], t), len |-> 1, mode |-> "reject", linked |-> FALSE]
           Batch1(k, t) ==
             IF clips[k].start < t THEN <<Cut(k, t), Hold(k, t)>> ELSE <<Hold(k, t)>>
<1>1. PICK k \in DOMAIN clips, t \in Times :
        CommitBatch("Freeze", {Target(k, t)}, "reject", NoShift, Batch1(k, t))
  BY DEF FreezeFrameFromTimeline
<1> DEFINE commands == Batch1(k, t)
           N == IF clips[k].start < t THEN 2 ELSE 1
<1>2. t \in Int
  BY TimelineAssumption DEF Times, TimelineAssumption
<1>3. IsCommand(Cut(k, t))
  BY <1>2 DEF IsCommand
<1>4. IsCommand(Hold(k, t))
  <2>1. clips[k] \in Candidate /\ clips[k].start \in Int /\ End(clips[k]) \in Nat
    BY TimelineFacts
  <2>2. SourceTimeAt(clips[k], t) \in Int
    <3>1. SourceDelta(clips[k], t - clips[k].start) \in Int
      BY <1>2, <2>1, SourceDeltaFacts
    <3>2. clips[k].src \in Int /\ SourceEnd(clips[k]) \in Int
      BY <1>2, <2>1, PieceFacts DEF Candidate
    <3> QED
      BY <3>1, <3>2 DEF SourceTimeAt
  <2>3. End(clips[k]) - t \in Int /\ "reject" \in Modes
    BY <1>2, <2>1 DEF Modes
  <2> QED
    BY <1>2, <2>2, <2>3 DEF IsCommand
<1>5. DOMAIN commands = 1..N /\ Len(commands) = N /\ N \in Nat
  <2> HIDE DEF Cut, Hold
  <2>1. CASE clips[k].start < t
    <3>1. commands = <<Cut(k, t), Hold(k, t)>> /\ N = 2
      BY <2>1
    <3> HIDE DEF commands, N
    <3> QED
      BY <3>1
  <2>2. CASE ~(clips[k].start < t)
    <3>1. commands = <<Hold(k, t)>> /\ N = 1
      BY <2>2
    <3> HIDE DEF commands, N
    <3> QED
      BY <3>1
  <2> QED
    BY <2>1, <2>2
<1>6. \A n \in 1..N : IsCommand(commands[n])
  <2> HIDE DEF Cut, Hold
  <2> QED
    BY <1>3, <1>4
<1> HIDE DEF commands, N
<1>7. Clips(Batch(commands)) /\ edits' = edits + 1
  BY <1>1 DEF CommitBatch, Accept, commands
<1> QED
  BY <1>5, <1>6, <1>7, CommitStep-----------------------------------------------------------------------------
(* All steps. *)

LEMMA ClipsStepInv ==
  ASSUME TimelineInv, edits < MaxEdits, ClipsStep
  PROVE  TimelineInv'
<1>1. /\ edits' = edits + 1 /\ Follows(clips, clips') /\ Valid(clips', transitions, groups)
      /\ UNCHANGED <<order, locked, transitions, groups>>
  BY DEF ClipsStep
<1>2. TimelineTypeOK
  BY DEF TimelineInv
<1>3. IsTimeline(clips')
  BY <1>1, TimelineFacts, FollowsFacts
<1>4. \A k \in DOMAIN clips' : clips'[k] \in Clip /\ clips'[k].track \in Range(order)
  BY <1>1, <1>3, ClipFacts DEF IsTimeline, Valid
<1>5. TimelineTypeOK'
  BY <1>1, <1>2, <1>3, <1>4, EditsNext, TypeFacts DEF TimelineTypeOK, IsLayout, IsTimeline
<1> QED
  BY <1>1, <1>5 DEF TimelineInv

LEMMA TimelineInitInv == TimelineInit => TimelineInv
<1> SUFFICES ASSUME TimelineInit
             PROVE  TimelineInv
  OBVIOUS
<1>1. PICK l \in Layouts :
        /\ Valid(l.clips, l.transitions, l.groups)
        /\ clips = l.clips /\ order = l.order /\ locked = l.locked
        /\ transitions = l.transitions /\ groups = l.groups
  BY DEF TimelineInit
<1>2. edits = 0 /\ MaxEdits \in Nat /\ IsLayout(l)
  BY TimelineAssumption DEF TimelineInit, TimelineAssumption
<1>3. TimelineTypeOK
  BY <1>1, <1>2, TypeFacts DEF IsLayout
<1> QED
  BY <1>1, <1>3 DEF TimelineInv

\* The actions of the timeline.
LEMMA TimelineNextStep ==
  ASSUME TimelineInv, TimelineNext
  PROVE  TimelineInv' /\ (ClipsStep \/ UNCHANGED clips \/ RemoveTrack)
<1>1. edits < MaxEdits
  BY DEF TimelineNext
<1>2. CASE \/ InsertClip \/ MoveClip \/ TrimClip \/ SplitClip \/ RemoveClip \/ RollEdit
           \/ SlipClip \/ SlideClip \/ CloseGap \/ SetClipSpeed \/ ReplaceClipMedia
           \/ SetClipLinkedGroup
  <2>1. ClipsStep
    BY <1>2, InsertClipStep, MoveClipStep, TrimClipStep, SplitClipStep, RemoveClipStep,
       RollEditStep, SlipClipStep, SlideClipStep, CloseGapStep, SetClipSpeedStep,
       ReplaceClipMediaStep, SetClipLinkedGroupStep
  <2> QED
    BY <1>1, <2>1, ClipsStepInv
<1>3. CASE AddTransition
  <2>1. PICK t \in TransitionIds \ DOMAIN transitions, out \in DOMAIN clips :
          \E x \in Asked(out) : SetTransition("AddTransition", t, x)
    BY <1>3 DEF AddTransition
  <2> QED
    BY <1>1, <2>1, AskedTransition, SetTransitionStep
<1>4. CASE UpdateTransition
  <2>1. PICK t \in DOMAIN transitions, out \in DOMAIN clips :
          \E x \in Asked(out) : SetTransition("UpdateTransition", t, x)
    BY <1>4 DEF UpdateTransition
  <2>2. t \in TransitionIds
    BY TypeFacts DEF TimelineInv
  <2> QED
    BY <1>1, <2>1, <2>2, AskedTransition, SetTransitionStep
<1>5. CASE \/ RemoveTransition \/ CreateMulticamGroup \/ RemoveMulticamGroup
           \/ SetTrackLocked \/ AddTrack \/ ReorderTrack
  BY <1>1, <1>5, RemoveTransitionStep, CreateGroupStep, RemoveGroupStep, SetTrackLockedStep,
     AddTrackStep, ReorderTrackStep
<1>6. CASE RemoveTrack
  BY <1>1, <1>6, RemoveTrackStep
<1> QED
  BY <1>2, <1>3, <1>4, <1>5, <1>6 DEF TimelineNext

\* The handlers of the user's edits.
LEMMA UserEditStep ==
  ASSUME TimelineInv, UserEdit
  PROVE  TimelineInv' /\ ClipsStep
<1>1. edits < MaxEdits
  <2>1. edits \in 0..MaxEdits /\ edits <= MaxBatches
    BY TypeFacts DEF UserEdit, TimelineInv
  <2> QED
    BY <2>1, UserEditsAssumption, TimelineAssumption DEF UserEditsAssumption, TimelineAssumption
<1>2. ClipsStep
  BY SplitSelectedClipStep, AddEditsAtStep, DeleteSelectedClipStep, UnlinkSelectedClipsStep,
     ResyncStep, MoveSelectionStep, NudgeSelectionStep, TrimSelectionStep, TrimHeadStep,
     TrimTailStep, InsertSourceStep, PasteStep, FreezeStep
     DEF UserEdit
<1> QED
  BY <1>1, <1>2, ClipsStepInv

\* A step keeps the invariant, and edits only on tracks that are not locked.
LEMMA UserStep ==
  ASSUME TimelineInv, [UserNext]_timeline
  PROVE  TimelineInv' /\ Follows(clips, clips')
<1>1. Follows(clips, clips)
  BY TimelineFacts, FollowsFacts
<1>2. CASE TimelineNext
  <2>1. TimelineInv' /\ (ClipsStep \/ UNCHANGED clips \/ RemoveTrack) /\ edits < MaxEdits
    BY <1>2, TimelineNextStep DEF TimelineNext
  <2> QED
    BY <1>1, <2>1, RemoveTrackStep DEF ClipsStep
<1>3. CASE UserEdit
  BY <1>3, UserEditStep DEF ClipsStep
<1>4. CASE UNCHANGED timeline
  BY <1>1, <1>4 DEF timeline, TimelineInv, TimelineTypeOK
<1> QED
  BY <1>2, <1>3, <1>4 DEF UserNext

(* The timeline is well typed and valid after every edit, single command   *)
(* or batch.                                                               *)
THEOREM TimelineInvariance == UserSpec => []TimelineInv
<1>1. TimelineInit => TimelineInv
  BY TimelineInitInv
<1>2. TimelineInv /\ [UserNext]_timeline => TimelineInv'
  BY UserStep
<1> QED
  BY <1>1, <1>2, PTL DEF UserSpec

(* Clips lie on tracks of the sequence and within their types, and only    *)
(* tracks of the sequence are locked.                                      *)
THEOREM TimelineTypes == UserSpec => []TimelineTypeOK
<1>1. TimelineInv => TimelineTypeOK
  BY DEF TimelineInv
<1> QED
  BY <1>1, TimelineInvariance, PTL

LEMMA LockedKept ==
  ASSUME Follows(clips, clips'), NEW tk \in locked
  PROVE  /\ OnTrack(clips', tk) = OnTrack(clips, tk)
         /\ \A k \in OnTrack(clips, tk) : clips'[k] = clips[k]
<1>1. ASSUME NEW k \in OnTrack(clips, tk)
      PROVE  k \in OnTrack(clips', tk) /\ clips'[k] = clips[k]
  BY <1>1 DEF OnTrack, Follows
<1>2. ASSUME NEW k \in OnTrack(clips', tk)
      PROVE  k \in OnTrack(clips, tk)
  BY <1>2 DEF OnTrack, Follows, Open
<1> QED
  BY <1>1, <1>2

(* No command and no batch of commands, whatever it moves, cuts, covers or *)
(* ripples, changes, adds or removes a clip on a locked track: the lock is *)
(* checked for the selected clips and for the track that a command goes    *)
(* to, and all that a command reaches lies on these tracks.                *)
THEOREM LockedTheorem == UserSpec => LockedUntouched
<1>1. TimelineInv /\ [UserNext]_timeline
      => [\A tk \in locked :
            /\ OnTrack(clips', tk) = OnTrack(clips, tk)
            /\ \A k \in OnTrack(clips, tk) : clips'[k] = clips[k]]_timeline
  BY UserStep, LockedKept
<1> QED
  BY <1>1, TimelineInvariance, PTL DEF UserSpec, LockedUntouched
-----------------------------------------------------------------------------
(* What validation by neighbours implies. *)

\* No two clips of a track overlap.
NoOverlaps ==
  \A j, k \in DOMAIN clips :
    j # k /\ clips[j].track = clips[k].track => ~Overlaps(clips[j], clips[k])

\* The clip after clip j on its track.
LEMMA NextClip ==
  ASSUME TimelineInv, NEW j \in DOMAIN clips, NEW k \in DOMAIN clips,
         clips[j].track = clips[k].track, Precedes(clips, j, k)
  PROVE  \E i \in DOMAIN clips : Neighbours(clips, j, i) /\ clips[i].start <= clips[k].start
<1> DEFINE later == {i \in OnTrack(clips, clips[j].track) : Precedes(clips, j, i)}
           starts == {clips[i].start : i \in later}
<1>1. /\ k \in later
      /\ \A i \in later : i \in DOMAIN clips /\ clips[i].track = clips[j].track
                          /\ Precedes(clips, j, i)
      /\ \A i \in DOMAIN clips : clips[i].track = clips[j].track /\ Precedes(clips, j, i)
                                 => i \in later
  BY DEF OnTrack
<1>2. \A i \in DOMAIN clips : i \in Nat /\ clips[i].start \in Nat
  BY TimelineFacts, IdFacts
<1> HIDE DEF later
<1>3. PICK first \in starts : \A s \in starts : first <= s
  <2>1. starts \in SUBSET Nat /\ starts # {}
    BY <1>1, <1>2
  <2> QED
    BY <2>1, LeastNumber
<1> DEFINE ids == {i \in later : clips[i].start = first}
<1>4. PICK i \in ids : \A h \in ids : i <= h
  <2>1. ids \in SUBSET Nat /\ ids # {}
    BY <1>1, <1>2, <1>3
  <2> QED
    BY <2>1, LeastNumber
<1>5. i \in later /\ clips[i].start = first
  BY <1>4
<1>6. clips[i].start <= clips[k].start
  BY <1>1, <1>3, <1>5
<1>7. ASSUME NEW h \in OnTrack(clips, clips[j].track), Precedes(clips, j, h)
      PROVE  ~Precedes(clips, h, i)
  <2>1. h \in later /\ h \in DOMAIN clips
    BY <1>1, <1>7 DEF OnTrack
  <2>2. first <= clips[h].start
    BY <1>3, <2>1
  <2>3. clips[h].start = first => i <= h
    BY <1>4, <2>1
  <2>4. clips[h].start \in Nat /\ h \in Nat /\ i \in Nat /\ clips[i].start \in Nat
    BY <1>1, <1>2, <1>5, <2>1
  <2> QED
    BY <1>5, <2>2, <2>3, <2>4 DEF Precedes
<1>8. Neighbours(clips, j, i)
  BY <1>1, <1>5, <1>7 DEF Neighbours
<1> QED
  BY <1>1, <1>5, <1>6, <1>8

(* validateProject compares each clip with the next one of its track only, *)
(* and that is enough: no two clips of a track ever overlap.               *)
THEOREM OverlapTheorem == UserSpec => []NoOverlaps
<1>1. ASSUME TimelineInv, NEW j \in DOMAIN clips, NEW k \in DOMAIN clips,
             clips[j].track = clips[k].track, Precedes(clips, j, k)
      PROVE  End(clips[j]) <= clips[k].start
  <2>1. PICK i \in DOMAIN clips : Neighbours(clips, j, i) /\ clips[i].start <= clips[k].start
    BY <1>1, NextClip
  <2>2. ~Overlaps(clips[j], clips[i]) /\ Precedes(clips, j, i)
    BY <1>1, <2>1 DEF TimelineInv, Valid, Neighbours
  <2>3. /\ clips[j].start \in Nat /\ clips[j].dur \in Nat \ {0}
        /\ clips[i].start \in Nat /\ clips[i].dur \in Nat \ {0} /\ clips[k].start \in Nat
    BY <1>1, TimelineFacts
  <2> QED
    BY <2>1, <2>2, <2>3 DEF Overlaps, Precedes, End
<1>2. TimelineInv => NoOverlaps
  <2> SUFFICES ASSUME TimelineInv, NEW j \in DOMAIN clips, NEW k \in DOMAIN clips, j # k,
                      clips[j].track = clips[k].track
               PROVE  ~Overlaps(clips[j], clips[k])
    BY DEF NoOverlaps
  <2>1. /\ clips[j].start \in Nat /\ clips[j].dur \in Nat \ {0} /\ j \in Nat
        /\ clips[k].start \in Nat /\ clips[k].dur \in Nat \ {0} /\ k \in Nat
    BY TimelineFacts, IdFacts
  <2>2. Precedes(clips, j, k) \/ Precedes(clips, k, j)
    BY <2>1 DEF Precedes
  <2>3. End(clips[j]) <= clips[k].start \/ End(clips[k]) <= clips[j].start
    BY <1>1, <2>2
  <2> QED
    BY <2>1, <2>3 DEF Overlaps, End
<1> QED
  BY <1>2, TimelineInvariance, PTL-----------------------------------------------------------------------------
(* What the cuts and trims of one clip show. *)

LEMMA ClipNumbers ==
  ASSUME NEW c \in Candidate
  PROVE  /\ c.start \in Int /\ c.dur \in Int /\ c.src \in Int /\ c.len \in Int
         /\ c.rate[1] \in Nat /\ c.rate[2] \in Nat \ {0} /\ c.reversed \in BOOLEAN
BY DEF Candidate

\* SourceDelta is exact up to half a source unit.
LEMMA DeltaRounds ==
  ASSUME NEW c \in Candidate, NEW delta \in Int
  PROVE  /\ SourceDelta(c, delta) \in Int
         /\ SourceDelta(c, delta) * c.rate[2] \in Int /\ delta * c.rate[1] \in Int
         /\ 2 * (SourceDelta(c, delta) * c.rate[2] - delta * c.rate[1]) <= c.rate[2]
         /\ 2 * (delta * c.rate[1] - SourceDelta(c, delta) * c.rate[2]) <= c.rate[2]
<1>1. c.rate[1] \in Int /\ c.rate[2] \in Nat \ {0}
  BY ClipNumbers
<1> DEFINE n == delta * c.rate[1]
           d == c.rate[2]
           q == RoundedQuotient(n, d)
<1>2. n \in Int /\ d \in Nat \ {0}
  BY <1>1
<1>3. SourceDelta(c, delta) = q
  BY DEF SourceDelta
<1> HIDE DEF n, d
<1>4. q \in Int /\ 2 * (q * d - n) <= d /\ 2 * (n - q * d) <= d
  BY <1>2, RoundedQuotientFacts
<1>5. q * d \in Int
  BY <1>2, <1>4
<1> HIDE DEF q
<1> QED
  BY <1>2, <1>3, <1>4, <1>5 DEF n, d

\* d is off from c by at most half a source unit.
Close(c, d) ==
  /\ Anchor(c) \in Int /\ Anchor(d) \in Int
  /\ 2 * (Anchor(d) - Anchor(c)) <= c.rate[2]
  /\ 2 * (Anchor(c) - Anchor(d)) <= c.rate[2]

LEMMA CloseShows ==
  ASSUME NEW c \in Candidate, NEW d, SameMedia(c, d), Close(c, d)
  PROVE  ShowsAs(c, d, 1)
BY ClipNumbers DEF ShowsAs, Close

\* A distance in source and one on the timeline, taken off both ends of a product.
LEMMA Distribute ==
  ASSUME NEW a \in Int, NEW b \in Int, NEW n \in Int
  PROVE  (a + b) * n = a * n + b * n /\ (a - b) * n = a * n - b * n
         /\ a * n \in Int /\ b * n \in Int
OBVIOUS

\* A clip with other bounds, and its fields.
Rebound(c, start, dur, len, src) ==
  [c EXCEPT !.start = start, !.dur = dur, !.len = len, !.src = src]

LEMMA ReboundFacts ==
  ASSUME NEW c \in Candidate, NEW start \in Int, NEW dur \in Int, NEW len \in Int, NEW src \in Int
  PROVE  LET d == Rebound(c, start, dur, len, src) IN
         /\ d.start = start /\ d.dur = dur /\ d.len = len /\ d.src = src
         /\ SameMedia(c, d)
         /\ start >= 0 /\ dur > 0 /\ len > 0 /\ src >= 0 => d \in Clip
<1> DEFINE d == Rebound(c, start, dur, len, src)
<1>1. /\ d.start = start /\ d.dur = dur /\ d.len = len /\ d.src = src /\ d.rate = c.rate
      /\ d.reversed = c.reversed /\ d.asset = c.asset /\ d \in Candidate
  BY DEF Candidate, Rebound
<1>2. ASSUME start >= 0, dur > 0, len > 0, src >= 0
      PROVE  d \in Clip
  <2>1. start \in Nat /\ dur \in Nat \ {0} /\ len \in Nat \ {0} /\ src \in Nat
    BY <1>2
  <2> QED
    BY <2>1 DEF Rebound, Candidate, Clip
<1> QED
  BY <1>1, <1>2 DEF SameMedia

(* splitClipObject, at any speed and in either direction: the halves abut  *)
(* at the cut and in the source, together they are the clip, the first one *)
(* shows exactly what the clip did, and the second one the same up to half *)
(* a source unit.                                                          *)
THEOREM SplitShowsTheClip ==
  ASSUME NEW c \in Clip, NEW t \in Int, CanSplit(c, t)
  PROVE  LET l == LeftHalf(c, t)
             r == RightHalf(c, t)
         IN  /\ l \in Clip /\ r \in Clip
             /\ l.start = c.start /\ End(l) = t /\ r.start = t /\ End(r) = End(c)
             /\ l.len + r.len = c.len
             /\ IF c.reversed
                THEN r.src = c.src /\ SourceEnd(r) = l.src /\ SourceEnd(l) = SourceEnd(c)
                ELSE l.src = c.src /\ SourceEnd(l) = r.src /\ SourceEnd(r) = SourceEnd(c)
             /\ ShowsAs(c, l, 0) /\ ShowsAs(c, r, 1)
<1> DEFINE used == SourceDelta(c, t - c.start)
           l == LeftHalf(c, t)
           r == RightHalf(c, t)
<1>1. /\ c \in Candidate /\ c.start \in Nat /\ c.dur \in Nat \ {0} /\ c.src \in Nat
      /\ c.len \in Nat \ {0} /\ c.rate[1] \in Nat /\ c.rate[2] \in Nat \ {0}
      /\ c.reversed \in BOOLEAN
  BY ClipFacts DEF Clip
<1>2. t - c.start \in Int
  BY <1>1
<1>3. /\ used \in Int /\ used * c.rate[2] \in Int /\ (t - c.start) * c.rate[1] \in Int
      /\ 2 * (used * c.rate[2] - (t - c.start) * c.rate[1]) <= c.rate[2]
      /\ 2 * ((t - c.start) * c.rate[1] - used * c.rate[2]) <= c.rate[2]
  BY <1>1, <1>2, DeltaRounds
<1>4. c.start < t /\ t < c.start + c.dur /\ 0 < used /\ used < c.len
  BY DEF CanSplit, End
<1> DEFINE leftSrc == IF c.reversed THEN SourceEnd(c) - used ELSE c.src
           rightSrc == IF c.reversed THEN c.src ELSE c.src + used
<1>5. /\ l = Rebound(c, c.start, t - c.start, used, leftSrc)
      /\ r = Rebound(c, t, End(c) - t, c.len - used, rightSrc)
  <2>1. r = [c EXCEPT !.start = t, !.dur = End(c) - t, !.len = c.len - used, !.src = rightSrc]
    BY DEF RightHalf
  <2>2. l = [c EXCEPT !.dur = t - c.start, !.len = used, !.src = leftSrc]
    BY DEF LeftHalf
  <2> HIDE DEF used, l, r, leftSrc, rightSrc
  <2>3. c = [c EXCEPT !.start = c.start]
    BY DEF Clip
  <2> QED
    BY <2>1, <2>2, <2>3 DEF Rebound
<1> HIDE DEF used, l, r
<1>6. /\ l.start = c.start /\ l.dur = t - c.start /\ l.len = used
      /\ l.src = IF c.reversed THEN c.src + c.len - used ELSE c.src
      /\ SameMedia(c, l) /\ l \in Clip
      /\ r.start = t /\ r.dur = c.start + c.dur - t /\ r.len = c.len - used
      /\ r.src = IF c.reversed THEN c.src ELSE c.src + used
      /\ SameMedia(c, r) /\ r \in Clip
  <2>1. /\ leftSrc \in Nat /\ rightSrc \in Nat /\ leftSrc \in Int /\ rightSrc \in Int
        /\ t - c.start \in Int /\ t - c.start > 0 /\ End(c) - t \in Int /\ End(c) - t > 0
        /\ c.len - used \in Int /\ c.len - used > 0 /\ used > 0 /\ t >= 0
    BY <1>1, <1>3, <1>4 DEF SourceEnd, End
  <2>2. leftSrc = IF c.reversed THEN c.src + c.len - used ELSE c.src
    BY <1>1, <1>3 DEF SourceEnd
  <2>3. End(c) - t = c.start + c.dur - t
    BY <1>1 DEF End
  <2>4. rightSrc = IF c.reversed THEN c.src ELSE c.src + used
    OBVIOUS
  <2> HIDE DEF leftSrc, rightSrc
  <2>5. /\ l.start = c.start /\ l.dur = t - c.start /\ l.len = used /\ l.src = leftSrc
        /\ SameMedia(c, l) /\ l \in Clip
    BY <1>1, <1>3, <1>5, <2>1, ReboundFacts
  <2>6. /\ r.start = t /\ r.dur = End(c) - t /\ r.len = c.len - used /\ r.src = rightSrc
        /\ SameMedia(c, r) /\ r \in Clip
    BY <1>1, <1>3, <1>5, <2>1, ReboundFacts
  <2> QED
    BY <2>2, <2>3, <2>4, <2>5, <2>6
<1>7. ShowsAs(c, l, 0)
  <2>1. Anchor(l) = Anchor(c) /\ Anchor(c) \in Int
    BY <1>1, <1>3, <1>6 DEF Anchor, SourceEnd, SameMedia
  <2> QED
    BY <1>1, <1>6, <2>1 DEF ShowsAs, SameMedia
<1>8. Close(c, r)
  <2> DEFINE n == c.rate[1]
             d == c.rate[2]
             end == c.src + c.len
  <2>1. (t - c.start) * n = t * n - c.start * n /\ t * n \in Int /\ c.start * n \in Int
    <3>1. n \in Int /\ c.start \in Int
      BY <1>1
    <3> HIDE DEF n
    <3> QED
      BY <3>1, Distribute
  <2>2. (c.src + used) * d = c.src * d + used * d /\ c.src * d \in Int
    BY <1>1, <1>3, Distribute
  <2>3. (end - used) * d = end * d - used * d /\ end * d \in Int /\ end \in Int
    BY <1>1, <1>3, Distribute
  <2>4. CASE c.reversed
    <3>1. Anchor(c) = end * d + c.start * n
      BY <2>4 DEF Anchor, SourceEnd
    <3>2. c.src + (c.len - used) = end - used
      BY <1>1, <1>3
    <3>3. Anchor(r) = (end - used) * d + t * n
      BY <1>6, <2>4, <3>2 DEF Anchor, SourceEnd, SameMedia
    <3> HIDE DEF n, d, end
    <3> QED
      BY <1>1, <1>3, <2>1, <2>3, <3>1, <3>3 DEF Close, n, d
  <2>5. CASE ~c.reversed
    <3>1. Anchor(c) = c.src * d - c.start * n
      BY <2>5 DEF Anchor
    <3>2. Anchor(r) = (c.src + used) * d - t * n
      BY <1>6, <2>5 DEF Anchor, SameMedia
    <3> QED
      BY <1>1, <1>3, <2>1, <2>2, <3>1, <3>2 DEF Close
  <2> QED
    BY <2>4, <2>5
<1>9. ShowsAs(c, r, 1)
  BY <1>1, <1>6, <1>8, CloseShows DEF SameMedia
<1> QED
  BY <1>1, <1>3, <1>6, <1>7, <1>9 DEF End, SourceEnd, l, r
(* trimPreservingMapping, at any speed and in either direction and for any *)
(* new bounds: the trimmed clip shows what the clip showed, up to half a   *)
(* source unit.                                                            *)
THEOREM TrimShowsTheClip ==
  ASSUME NEW c \in Candidate, NEW start \in Int, NEW end \in Int
  PROVE  ShowsAs(c, Retrimmed(c, start, end), 1)
<1> DEFINE head == SourceDelta(c, start - c.start)
           tail == SourceDelta(c, end - End(c))
           from == IF c.reversed THEN c.src - tail ELSE c.src + head
           to == IF c.reversed THEN SourceEnd(c) - head ELSE SourceEnd(c) + tail
           d == Retrimmed(c, start, end)
<1>1. /\ c.start \in Int /\ c.dur \in Int /\ c.src \in Int /\ c.len \in Int
      /\ c.rate[1] \in Nat /\ c.rate[2] \in Nat \ {0} /\ c.reversed \in BOOLEAN
  BY ClipNumbers
<1>2. start - c.start \in Int /\ end - End(c) \in Int /\ SourceEnd(c) = c.src + c.len
  BY <1>1 DEF End, SourceEnd
<1>3. /\ head \in Int /\ tail \in Int /\ head * c.rate[2] \in Int
      /\ (start - c.start) * c.rate[1] \in Int
      /\ 2 * (head * c.rate[2] - (start - c.start) * c.rate[1]) <= c.rate[2]
      /\ 2 * ((start - c.start) * c.rate[1] - head * c.rate[2]) <= c.rate[2]
  BY <1>2, DeltaRounds
<1>4. d = Rebound(c, start, end - start, to - from, from)
  BY DEF Retrimmed, Rebound
<1>5. from \in Int /\ to \in Int /\ to - from \in Int /\ end - start \in Int
  BY <1>1, <1>2, <1>3
<1> HIDE DEF head, tail, d
<1>6. /\ d.start = start /\ d.src = from /\ d.src + d.len = to
      /\ SameMedia(c, d)
  <2> HIDE DEF from, to
  <2>1. d.start = start /\ d.src = from /\ d.len = to - from /\ SameMedia(c, d)
    BY <1>4, <1>5, ReboundFacts
  <2> QED
    BY <1>5, <2>1
<1>7. Close(c, d)
  <2> DEFINE n == c.rate[1]
             m == c.rate[2]
             sourceEnd == c.src + c.len
  <2>1. n \in Int /\ m \in Int /\ sourceEnd \in Int
    BY <1>1
  <2>2. d.rate = c.rate /\ d.reversed = c.reversed
    BY <1>6 DEF SameMedia
  <2>3. (start - c.start) * n = start * n - c.start * n /\ start * n \in Int /\ c.start * n \in Int
    <3> HIDE DEF n
    <3> QED
      BY <1>1, <2>1, Distribute
  <2>4. /\ (c.src + head) * m = c.src * m + head * m /\ c.src * m \in Int
        /\ (sourceEnd - head) * m = sourceEnd * m - head * m /\ sourceEnd * m \in Int
    <3> HIDE DEF m, sourceEnd
    <3> QED
      BY <1>1, <1>3, <2>1, Distribute
  <2>5. CASE c.reversed
    <3>1. Anchor(c) = sourceEnd * m + c.start * n
      BY <2>5 DEF Anchor, SourceEnd
    <3>2. Anchor(d) = (sourceEnd - head) * m + start * n
      BY <1>2, <1>6, <2>2, <2>5 DEF Anchor, SourceEnd
    <3> HIDE DEF n, m, sourceEnd
    <3> QED
      BY <1>1, <1>3, <2>3, <2>4, <3>1, <3>2 DEF Close, n, m
  <2>6. CASE ~c.reversed
    <3>1. Anchor(c) = c.src * m - c.start * n
      BY <2>6 DEF Anchor
    <3>2. Anchor(d) = (c.src + head) * m - start * n
      BY <1>6, <2>2, <2>6 DEF Anchor
    <3> HIDE DEF n, m, sourceEnd
    <3> QED
      BY <1>1, <1>3, <2>3, <2>4, <3>1, <3>2 DEF Close, n, m
  <2> QED
    BY <2>5, <2>6
<1> QED
  BY <1>6, <1>7, CloseShows DEF d
=============================================================================
