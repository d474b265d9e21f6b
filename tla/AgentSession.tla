---------------------------- MODULE AgentSession ----------------------------
(***************************************************************************)
(* AgentHost (agent_host/src/agent_host.cpp): the project session that an  *)
(* agent drives by requests.  Requests are handled one at a time; a        *)
(* handler changes the editor, appends a snapshot to the working database, *)
(* writes the checkpoint and answers, and any step but the first may fail  *)
(* or be the last that the process takes.                                  *)
(*                                                                         *)
(* A project is the set of the changes that made it, an editor what        *)
(* EditHistory calls one, without coalescing (applyBatch never does), and  *)
(* the working database its latest snapshot: an opened project has a       *)
(* working copy of its own, which no later session reads.  checkpoint_to   *)
(* is that of ProjectStore, a failure of which may come after the file is  *)
(* replaced.  Left out are the session's playhead and selection, previews  *)
(* and scopes, and what the commands of an edit are (ClipEdits).           *)
(***************************************************************************)
EXTENDS Integers, Sequences

CONSTANTS
  Destinations,   \* the paths of project files
  MaxRequests,    \* bound: requests
  None

Existing == 1..2                            \* a change for each project there was before
Changes == 1..(2 + 2 * MaxRequests)
Projects == SUBSET Changes

ASSUME MaxRequestsAssumption == MaxRequests \in Nat

Methods == {"apply", "insert", "import", "undo", "redo", "save"}
Answers == {"none", "ok", "conflict", "refused", "persist_failed",
            "import_failed", "save_failed", "open_failed"}

VARIABLES
  editor,      \* editor_: None or [past, now, future, revision]
  store,       \* store_: None, or the set with its latest snapshot, if any
  checkpoint,  \* checkpoint_path_: None or a destination
  pc,          \* the next step of the request
  request,     \* the request: its method, path, and for insert_media whether
               \* media is imported first and the expected revision
  answer,      \* the last answer
  file,        \* the project that is in the file at each destination, or None
  served, made \* the number of requests and of changes

(* What the agent was told, which the host does not keep. *)
VARIABLES
  known,       \* the revision in the last answer that had one
  before,      \* the editor as the handler of the edit found it
  promised,    \* per destination, the project last said to be in the file
  tried,       \* per destination, the projects that were put into the file since
  behind       \* an undo, redo, import or save was refused since

session == <<editor, store, checkpoint>>
told == <<known, before, promised, tried, behind>>
vars == <<session, pc, request, answer, file, served, made, told>>

Editor == [past : Seq(Projects), now : Projects, future : Seq(Projects), revision : Nat]

ASSUME NoneAssumption ==
  /\ None \notin Editor /\ None \notin Destinations /\ None \notin Nat
  /\ None # {} /\ \A project \in Projects : None # project /\ None # {project}

Opened(project) == [past |-> <<>>, now |-> project, future |-> <<>>, revision |-> 0]

Edited(e, project) ==
  [past |-> Append(e.past, e.now), now |-> project, future |-> <<>>, revision |-> e.revision + 1]

Undone(e) ==
  [past |-> SubSeq(e.past, 1, Len(e.past) - 1), now |-> e.past[Len(e.past)],
   future |-> <<e.now>> \o e.future, revision |-> e.revision + 1]

Redone(e) ==
  [past |-> Append(e.past, e.now), now |-> Head(e.future), future |-> Tail(e.future),
   revision |-> e.revision + 1]

NoRequest == [method |-> "none", path |-> None, first |-> FALSE, expected |-> None]

Init ==
  /\ editor = None /\ store = None /\ checkpoint = None
  /\ pc = "idle" /\ request = NoRequest /\ answer = "none"
  /\ file \in [Destinations -> {None} \cup {{c} : c \in Existing}]
  /\ served = 0 /\ made = 2
  /\ known = 0 /\ before = None /\ behind = FALSE
  /\ promised = file
  /\ tried = [d \in Destinations |-> {}]

Serve ==
  /\ pc = "idle"
  /\ served < MaxRequests
  /\ served' = served + 1

(* The answer of a handler that fails, or that changes nothing. *)
Refuse(a) == pc' = "idle" /\ answer' = a

(* compactSessionPayload tells the revision.  With a checkpoint, the agent *)
(* may take it that the project is in the file.  insert_media goes on when *)
(* its import was answered.                                                *)
Succeed ==
  /\ pc' = IF request'.first THEN "insert" ELSE "idle"
  /\ answer' = "ok"
  /\ known' = editor'.revision
  /\ IF store' # None /\ checkpoint' # None
       THEN /\ promised' = [promised EXCEPT ![checkpoint'] = editor'.now]
            /\ tried' = [tried EXCEPT ![checkpoint'] = {}]
       ELSE UNCHANGED <<promised, tried>>

(***************************************************************************)
(* Sessions                                                                *)
(***************************************************************************)
(* installProject. *)
Install(project, snapshots, path) ==
  /\ editor' = Opened(project)
  /\ store' = snapshots
  /\ checkpoint' = path
  /\ request' = NoRequest /\ before' = None /\ behind' = FALSE
  /\ Succeed
  /\ UNCHANGED file

OpenProject(d) ==
  /\ Serve
  /\ file[d] # None
  /\ \/ Install(file[d], {file[d]}, d)
     \/ Refuse("open_failed") /\ UNCHANGED <<session, request, file, told>>
  /\ UNCHANGED made

NewProject ==
  /\ Serve
  /\ made' = made + 1
  /\ Install({made'}, None, None)

(* The process ends, by itself or not.  The next one starts with nothing. *)
End ==
  /\ editor # None
  /\ editor' = None /\ store' = None /\ checkpoint' = None
  /\ pc' = "idle" /\ request' = NoRequest /\ answer' = "none"
  /\ before' = None /\ behind' = FALSE
  /\ UNCHANGED <<file, served, made, known, promised, tried>>

(***************************************************************************)
(* Edits                                                                   *)
(***************************************************************************)
(* An edit is accepted by the editor; persistAndCheckpoint follows if there *)
(* is a store.                                                             *)
Accept(e) ==
  /\ editor' = e
  /\ UNCHANGED <<store, checkpoint, file>>
  /\ IF store = None THEN Succeed
     ELSE pc' = "append" /\ UNCHANGED <<answer, known, promised, tried>>

(* A batch is refused for what is in it, or as based on another revision,  *)
(* or it changes the project.                                              *)
Change(conflict) ==
  \/ /\ conflict
     /\ Refuse("conflict")
     /\ known' = editor.revision
     /\ UNCHANGED <<session, file, made, promised, tried>>
  \/ /\ Refuse("refused")
     /\ UNCHANGED <<session, file, made, known, promised, tried>>
  \/ /\ ~conflict
     /\ made' = made + 1
     /\ Accept(Edited(editor, editor.now \cup {made'}))

(* An expected revision is the one the agent knows, or left away. *)
Conflicts(expected) == expected # None /\ expected # editor.revision

Receive(method, first, expected) ==
  /\ Serve
  /\ editor # None
  /\ request' = [method |-> method, path |-> None, first |-> first, expected |-> expected]
  /\ before' = editor
  /\ UNCHANGED behind

ApplyCommands(expected) ==
  Receive("apply", FALSE, expected) /\ Change(Conflicts(expected))

ImportMedia(expected) ==
  Receive("import", FALSE, expected) /\ Change(Conflicts(expected))

(* insert_media of an asset of the project, or of a file that is imported  *)
(* first, by a request of its own without an expected revision.            *)
InsertAsset(expected) ==
  Receive("insert", FALSE, expected) /\ Change(Conflicts(expected))

InsertFile(expected) == Receive("import", TRUE, expected) /\ Change(FALSE)

InsertImported ==
  /\ pc = "insert"
  /\ request' = [request EXCEPT !.method = "insert", !.first = FALSE]
  /\ before' = editor
  /\ Change(Conflicts(request.expected))
  /\ UNCHANGED <<served, behind>>

(* undo and redo, with the persistence of an edit. *)
Navigate(method, expected, possible, e) ==
  /\ Receive(method, FALSE, expected)
  /\ UNCHANGED made
  /\ \/ /\ Conflicts(expected)
        /\ Refuse("conflict")
        /\ known' = editor.revision
        /\ UNCHANGED <<session, file, promised, tried>>
     \/ /\ ~Conflicts(expected) /\ ~possible
        /\ Refuse("refused")
        /\ UNCHANGED <<session, file, known, promised, tried>>
     \/ /\ ~Conflicts(expected) /\ possible
        /\ Accept(e)

(* Mutant of Undo: the step back is not persisted. *)
UndoOnly(expected) ==
  /\ Receive("undo", FALSE, expected)
  /\ ~Conflicts(expected) /\ editor.past # <<>>
  /\ editor' = Undone(editor)
  /\ pc' = "idle" /\ answer' = "ok" /\ known' = editor'.revision
  /\ UNCHANGED <<store, checkpoint, file, made, promised, tried>>

Undo(expected) == Navigate("undo", expected, editor.past # <<>>, Undone(editor))

Redo(expected) == Navigate("redo", expected, editor.future # <<>>, Redone(editor))

(* save_project, at a path or where the project is.  The first save of a   *)
(* new project creates its working database.                               *)
SaveProject(d) ==
  /\ Serve
  /\ editor # None
  /\ request' = [NoRequest EXCEPT !.method = "save", !.path = d]
  /\ before' = editor
  /\ \/ pc' = "append" /\ store' = (IF store = None THEN {} ELSE store) /\ UNCHANGED answer
     \/ store = None /\ Refuse("save_failed") /\ UNCHANGED store
  /\ UNCHANGED <<editor, checkpoint, file, made, known, promised, tried, behind>>

(***************************************************************************)
(* Persistence                                                             *)
(***************************************************************************)
(* persistSnapshot; a save names the checkpoint next. *)
AppendSnapshot ==
  /\ pc = "append"
  /\ store' = {editor.now}
  /\ checkpoint' = IF request.method = "save" THEN request.path ELSE checkpoint
  /\ behind' = (behind \/ checkpoint' # checkpoint)
  /\ UNCHANGED <<editor, request, file, served, made, before>>
  /\ IF checkpoint' # None
       THEN pc' = "checkpoint" /\ UNCHANGED <<answer, known, promised, tried>>
       ELSE Succeed

(* Mutant of WriteCheckpoint: the snapshot stays in the working database. *)
SkipCheckpoint ==
  /\ pc = "checkpoint"
  /\ pc' = "answer"
  /\ UNCHANGED <<session, request, answer, file, served, made, told>>

(* checkpoint_to replaces the file. *)
WriteCheckpoint ==
  /\ pc = "checkpoint"
  /\ \E project \in store :
       /\ file' = [file EXCEPT ![checkpoint] = project]
       /\ tried' = [tried EXCEPT ![checkpoint] = @ \cup {project}]
  /\ pc' = "answer"
  /\ UNCHANGED <<session, request, answer, served, made, known, before, promised, behind>>

(* ... and ends, and with it the handler. *)
Answer ==
  /\ pc = "answer"
  /\ behind' = FALSE
  /\ UNCHANGED <<session, request, file, served, made, before>>
  /\ Succeed

(* Mutant of Fail: the edit is kept. *)
FailAndKeep ==
  /\ pc \in {"append", "checkpoint", "answer"}
  /\ store' \in IF pc = "append" THEN {store, {editor.now}} ELSE {store}
  /\ Refuse("persist_failed")
  /\ behind' = (behind \/ request.method \in {"undo", "redo", "import"})
  /\ UNCHANGED <<editor, checkpoint, request, file, served, made, known, before, promised, tried>>

(* A step throws, before or after its effect.  The handlers of             *)
(* apply_commands and insert_media take their edit back.                   *)
Fail ==
  /\ pc \in {"append", "checkpoint", "answer"}
  /\ store' \in IF pc = "append" THEN {store, {editor.now}} ELSE {store}
  /\ editor' = IF request.method \in {"apply", "insert"} THEN Undone(editor) ELSE editor
  /\ Refuse(CASE request.method = "import" -> "import_failed"
              [] request.method = "save" -> "save_failed"
              [] OTHER -> "persist_failed")
  /\ behind' = (behind \/ request.method \in {"undo", "redo", "import"})
  /\ UNCHANGED <<checkpoint, request, file, served, made, known, before, promised, tried>>

Persist == AppendSnapshot \/ WriteCheckpoint \/ Answer \/ Fail

Next ==
  \/ \E d \in Destinations : OpenProject(d) \/ SaveProject(d)
  \/ NewProject
  \/ \E expected \in {None, known} :
       \/ ApplyCommands(expected) \/ ImportMedia(expected)
       \/ InsertAsset(expected) \/ InsertFile(expected)
       \/ Undo(expected) \/ Redo(expected)
  \/ InsertImported
  \/ Persist
  \/ End

Spec == Init /\ [][Next]_vars

(***************************************************************************)
(* Properties                                                              *)
(***************************************************************************)
TypeOK ==
  /\ editor \in Editor \cup {None}
  /\ store \in {None, {}} \cup {{project} : project \in Projects}
  /\ checkpoint \in Destinations \cup {None}
  /\ pc \in {"idle", "insert", "append", "checkpoint", "answer"}
  /\ request.method \in Methods \cup {"none"} /\ answer \in Answers
  /\ file \in [Destinations -> Projects \cup {None}]
  /\ served \in 0..MaxRequests /\ known \in Nat
  /\ before \in Editor \cup {None} /\ behind \in BOOLEAN
  /\ promised \in [Destinations -> Projects \cup {None}]
  /\ tried \in [Destinations -> SUBSET Projects]

(* What the host has said to be in a file is there, through refused        *)
(* requests, other sessions and the death of the process at any step,      *)
(* until a later request puts something there: also one that is then       *)
(* refused, or never answered (persistAndCheckpoint, methodSaveProject).   *)
AcknowledgedIsOnDisk ==
  \A d \in Destinations : file[d] \in {promised[d]} \cup tried[d]

(* The project that the agent edits is the one in its file, between any    *)
(* two requests: an edit is in both or in neither.  A refused undo, redo,  *)
(* import or save leaves them apart until the next edit is persisted, and  *)
(* so may one that was refused after the file was replaced.                *)
SessionIsOnDisk ==
  pc = "idle" /\ checkpoint # None /\ ~behind /\ tried[checkpoint] = {} =>
    file[checkpoint] = editor.now

(* An edit that is refused, by the editor or because it cannot be          *)
(* persisted, is taken back, and nothing but it: neither an earlier edit   *)
(* nor a step that could be undone (the rollback of methodApplyCommands    *)
(* and methodInsertMedia).  Of an insertion that imported its media the    *)
(* import remains.                                                         *)
RefusedEditUndone ==
  /\ pc = "idle"
  /\ \/ answer \in {"conflict", "refused"}
     \/ answer = "persist_failed" /\ request.method \in {"apply", "insert"}
  => editor.now = before.now /\ editor.past = before.past
=============================================================================
