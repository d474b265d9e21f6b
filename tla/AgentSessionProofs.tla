------------------------- MODULE AgentSessionProofs -------------------------
(***************************************************************************)
(* What AgentSession guarantees for any number of destinations and         *)
(* requests: what the agent was told is in a file is there, whatever is    *)
(* refused or dies, and an edit that is refused is taken back.             *)
(***************************************************************************)
EXTENDS AgentSession, SequenceTheorems, TLAPS

-----------------------------------------------------------------------------
(* The inductive invariant, in named parts. *)

Persisting == {"append", "checkpoint", "answer"}

Request == [method : Methods \cup {"none"}, path : Destinations \cup {None},
            first : BOOLEAN, expected : Nat \cup {None}]

\* A request makes one change, or two when it imports the media it inserts.
Bounded ==
  /\ request \in Request
  /\ made \in Nat /\ 2 <= made /\ made <= 2 + 2 * served
  /\ pc = "insert" \/ (pc \in Persisting /\ request.first) => made <= 1 + 2 * served
  /\ pc = "insert" => request.first

\* What there is while a request is under way: a session, the snapshot that was
\* appended, and in the end the file.
Held ==
  /\ checkpoint # None => editor # None /\ store # None
  /\ pc \in Persisting \cup {"insert"} => editor # None
  /\ pc \in Persisting => store # None /\ request.method \in Methods
  /\ pc \in Persisting /\ request.method = "save" => request.path \in Destinations
  /\ pc \in {"checkpoint", "answer"} => checkpoint # None /\ store = {editor.now}
  /\ pc = "answer" => file[checkpoint] = editor.now

\* An edit that may still be taken back is one step ahead of what it found.
OneAhead ==
  pc \in Persisting /\ request.method \in {"apply", "insert"} =>
    before # None /\ editor.past = Append(before.past, before.now)

\* Unless a refused request left them apart, the file holds the project that the
\* agent edits, or the one that it edited before the request.
OnDisk ==
  checkpoint # None /\ ~behind /\ tried[checkpoint] = {} =>
    /\ pc \in {"idle", "insert"} => file[checkpoint] = editor.now
    /\ pc \in Persisting /\ request.method \in {"apply", "insert"} =>
         file[checkpoint] = before.now
    /\ pc \in Persisting /\ request.method = "save" => file[checkpoint] = editor.now

IInv ==
  /\ TypeOK /\ Bounded /\ Held /\ OneAhead /\ OnDisk
  /\ AcknowledgedIsOnDisk /\ RefusedEditUndone

-----------------------------------------------------------------------------
(* Editors. *)

\* Opening, editing, undoing and redoing make editors.
LEMMA EditorFacts ==
  ASSUME NEW e \in Editor, NEW project \in Projects
  PROVE  /\ e.now \in Projects /\ e.revision \in Nat
         /\ Opened(project) \in Editor /\ Opened(project).now = project
         /\ Opened(project).revision = 0
         /\ Edited(e, project) \in Editor
         /\ Edited(e, project).past = Append(e.past, e.now)
         /\ e.past # <<>> => Undone(e) \in Editor
         /\ e.future # <<>> => Redone(e) \in Editor
<1> HIDE DEF Projects
<1>1. /\ e.past \in Seq(Projects) /\ e.future \in Seq(Projects)
      /\ e.now \in Projects /\ e.revision \in Nat /\ <<>> \in Seq(Projects)
  BY DEF Editor
<1>2. Opened(project) \in Editor
  BY <1>1 DEF Opened, Editor
<1>3. Edited(e, project) \in Editor
  BY <1>1, AppendProperties DEF Edited, Editor
<1>4. ASSUME e.past # <<>>
      PROVE  Undone(e) \in Editor
  <2>1. Len(e.past) \in Nat \ {0} /\ \A i \in 1 .. Len(e.past) : e.past[i] \in Projects
    BY <1>1, <1>4, EmptySeq, ElementOfSeq
  <2>2. e.past[Len(e.past)] \in Projects
    BY <2>1
  <2>3. SubSeq(e.past, 1, Len(e.past) - 1) \in Seq(Projects)
    BY <2>1, SubSeqProperties
  <2>4. <<e.now>> \o e.future \in Seq(Projects)
    <3>1. <<e.now>> \in Seq(Projects)
      BY <1>1
    <3> QED
      BY <1>1, <3>1, ConcatProperties
  <2> QED
    BY <1>1, <2>2, <2>3, <2>4 DEF Undone, Editor
<1>5. ASSUME e.future # <<>>
      PROVE  Redone(e) \in Editor
  <2>1. Head(e.future) \in Projects /\ Tail(e.future) \in Seq(Projects)
    BY <1>1, <1>5, HeadTailProperties
  <2>2. Append(e.past, e.now) \in Seq(Projects)
    BY <1>1, AppendProperties
  <2> QED
    BY <1>1, <2>1, <2>2 DEF Redone, Editor
<1>6. /\ Opened(project).now = project /\ Opened(project).revision = 0
      /\ Edited(e, project).past = Append(e.past, e.now)
  BY DEF Opened, Edited
<1> QED
  BY <1>1, <1>2, <1>3, <1>4, <1>5, <1>6

\* Undo takes back exactly one edit.
LEMMA UndoneEdit ==
  ASSUME NEW b \in Editor, NEW e \in Editor, e.past = Append(b.past, b.now)
  PROVE  Undone(e) \in Editor /\ Undone(e).now = b.now /\ Undone(e).past = b.past
<1>1. b.past \in Seq(Projects) /\ b.now \in Projects /\ Len(b.past) \in Nat
  BY LenProperties DEF Editor
<1>2. /\ e.past \in Seq(Projects) /\ Len(e.past) = Len(b.past) + 1
      /\ e.past[Len(b.past) + 1] = b.now
      /\ \A i \in 1 .. Len(b.past) : e.past[i] = b.past[i]
  BY <1>1, AppendProperties
<1>3. e.past # <<>>
  BY <1>1, <1>2, EmptySeq
<1>4. SubSeq(e.past, 1, Len(e.past) - 1) = b.past
  <2>1. \A i \in 1 .. Len(b.past) : e.past[i] \in Projects
    BY <1>1, <1>2, ElementOfSeq
  <2>2. /\ SubSeq(e.past, 1, Len(b.past)) \in Seq(Projects)
        /\ Len(SubSeq(e.past, 1, Len(b.past))) = Len(b.past)
        /\ \A i \in 1 .. Len(b.past) : SubSeq(e.past, 1, Len(b.past))[i] = e.past[i]
    BY <1>1, <2>1, SubSeqProperties
  <2> QED
    BY <1>1, <1>2, <2>2, SeqEqual
<1> QED
  BY <1>1, <1>2, <1>3, <1>4, EditorFacts DEF Undone

-----------------------------------------------------------------------------
(* The requests preserve the invariant. *)

USE NoneAssumption, MaxRequestsAssumption DEF vars, session, told

\* What an answer tells.
LEMMA SucceedFacts ==
  ASSUME Succeed
  PROVE  /\ pc' = (IF request'.first THEN "insert" ELSE "idle")
         /\ answer' = "ok" /\ known' = editor'.revision
         /\ store' # None /\ checkpoint' # None =>
              /\ promised' = [promised EXCEPT ![checkpoint'] = editor'.now]
              /\ tried' = [tried EXCEPT ![checkpoint'] = {}]
         /\ store' = None \/ checkpoint' = None => UNCHANGED <<promised, tried>>
  BY DEF Succeed

\* It is true when the project is in the file.
LEMMA SucceedKeeps ==
  ASSUME TypeOK, AcknowledgedIsOnDisk, Succeed, UNCHANGED file,
         editor' \in Editor, checkpoint' \in Destinations \cup {None},
         store' # None /\ checkpoint' # None => file[checkpoint'] = editor'.now
  PROVE  /\ pc' \in {"idle", "insert"} /\ (pc' = "insert" => request'.first)
         /\ answer' = "ok" /\ answer' \in Answers /\ known' \in Nat
         /\ promised' \in [Destinations -> Projects \cup {None}]
         /\ tried' \in [Destinations -> SUBSET Projects]
         /\ AcknowledgedIsOnDisk'
<1>1. editor'.now \in Projects /\ editor'.revision \in Nat
  BY DEF Editor
<1>2. /\ pc' \in {"idle", "insert"} /\ (pc' = "insert" => request'.first)
      /\ answer' = "ok" /\ answer' \in Answers /\ known' \in Nat
  BY <1>1, SucceedFacts DEF Answers
<1> HIDE DEF Projects
<1>3. CASE store' # None /\ checkpoint' # None
  <2>1. checkpoint' \in Destinations /\ file[checkpoint'] = editor'.now
    BY <1>3
  <2>2. /\ promised' = [promised EXCEPT ![checkpoint'] = editor'.now]
        /\ tried' = [tried EXCEPT ![checkpoint'] = {}]
    BY <1>3, SucceedFacts
  <2>3. promised' \in [Destinations -> Projects \cup {None}]
    BY <1>1, <2>1, <2>2 DEF TypeOK
  <2>4. tried' \in [Destinations -> SUBSET Projects]
    BY <2>1, <2>2 DEF TypeOK
  <2>5. ASSUME NEW d \in Destinations
        PROVE  file'[d] \in {promised'[d]} \cup tried'[d]
    <3>1. file[d] \in {promised[d]} \cup tried[d]
      BY DEF AcknowledgedIsOnDisk
    <3>2. promised'[d] = (IF d = checkpoint' THEN editor'.now ELSE promised[d])
          /\ tried'[d] = (IF d = checkpoint' THEN {} ELSE tried[d])
      BY <2>2 DEF TypeOK
    <3> QED
      BY <2>1, <3>1, <3>2
  <2> QED
    BY <1>2, <2>3, <2>4, <2>5 DEF AcknowledgedIsOnDisk
<1>4. CASE store' = None \/ checkpoint' = None
  BY <1>2, <1>4, SucceedFacts DEF TypeOK, AcknowledgedIsOnDisk
<1> QED
  BY <1>3, <1>4

\* installProject: what is opened is what the file holds.
LEMMA InstallStep ==
  ASSUME IInv, NEW project \in Projects, NEW snapshots, NEW path,
         Install(project, snapshots, path),
         \/ snapshots = {project} /\ path \in Destinations /\ file[path] = project
         \/ snapshots = None /\ path = None,
         served' \in 0 .. MaxRequests, made' \in Nat, 2 <= made', made' <= 2 + 2 * served'
  PROVE  IInv'
<1> USE DEF IInv
<1>1. /\ editor' = Opened(project) /\ store' = snapshots /\ checkpoint' = path
      /\ request' = NoRequest /\ before' = None /\ behind' = FALSE
      /\ Succeed /\ UNCHANGED file
  BY DEF Install
<1>2. editor' \in Editor /\ editor' # None /\ editor'.now = project
  <2>1. Opened(project) \in Editor /\ Opened(project).now = project
    <3>1. [past |-> <<>>, now |-> project, future |-> <<>>, revision |-> 0] \in Editor
      BY DEF Editor
    <3> QED
      BY <3>1 DEF Opened
  <2> QED
    BY <1>1, <2>1
<1>3. /\ checkpoint' \in Destinations \cup {None}
      /\ store' # None /\ checkpoint' # None => file[checkpoint'] = editor'.now
  BY <1>1, <1>2
<1>4. /\ pc' \in {"idle", "insert"} /\ (pc' = "insert" => request'.first)
      /\ answer' = "ok" /\ answer' \in Answers /\ known' \in Nat
      /\ promised' \in [Destinations -> Projects \cup {None}]
      /\ tried' \in [Destinations -> SUBSET Projects]
      /\ AcknowledgedIsOnDisk'
  BY <1>1, <1>2, <1>3, SucceedKeeps
<1>5. request' \in Request /\ ~request'.first /\ request'.method = "none"
  BY <1>1 DEF NoRequest, Request
<1> HIDE DEF Projects
<1>6. store' \in {None, {}} \cup {{p} : p \in Projects}
  BY <1>1
<1>7. TypeOK'
  BY <1>1, <1>2, <1>3, <1>4, <1>5, <1>6 DEF TypeOK
<1>8. Bounded'
  BY <1>4, <1>5 DEF Bounded, Persisting
<1>9. Held' /\ OneAhead' /\ OnDisk'
  BY <1>1, <1>2, <1>3, <1>4, <1>5 DEF Held, OneAhead, OnDisk, Persisting
<1>10. RefusedEditUndone'
  BY <1>4 DEF RefusedEditUndone
<1> QED
  BY <1>4, <1>7, <1>8, <1>9, <1>10

\* open_project, or a failure of it.
LEMMA OpenStep ==
  ASSUME IInv, NEW d \in Destinations, OpenProject(d)
  PROVE  IInv'
<1> USE DEF IInv
<1>1. /\ pc = "idle" /\ served' = served + 1 /\ served' \in 0 .. MaxRequests /\ made' = made
      /\ file[d] # None /\ file[d] \in Projects
  BY DEF OpenProject, Serve, TypeOK
<1>2. made' \in Nat /\ 2 <= made' /\ made' <= 2 + 2 * served'
  BY <1>1 DEF Bounded, TypeOK
<1>3. CASE Install(file[d], {file[d]}, d)
  BY <1>1, <1>2, <1>3, InstallStep
<1>4. CASE Refuse("open_failed") /\ UNCHANGED <<session, request, file, told>>
  <2>1. pc' = "idle" /\ answer' = "open_failed"
    BY <1>4 DEF Refuse
  <2>2. TypeOK' /\ Bounded'
    BY <1>1, <1>2, <1>4, <2>1 DEF TypeOK, Bounded, Answers, Persisting
  <2> QED
    BY <1>1, <1>4, <2>1, <2>2
       DEF Held, OneAhead, OnDisk, AcknowledgedIsOnDisk, RefusedEditUndone, Persisting
<1> QED
  BY <1>3, <1>4 DEF OpenProject

\* new_project.
LEMMA NewStep ==
  ASSUME IInv, NewProject
  PROVE  IInv'
<1>1. /\ served' = served + 1 /\ served' \in 0 .. MaxRequests /\ made' = made + 1
      /\ Install({made'}, None, None)
  BY DEF NewProject, Serve, IInv, TypeOK
<1>2. /\ made' \in Nat /\ 2 <= made' /\ made' <= 2 + 2 * served'
      /\ made' \in 1 .. (2 + 2 * MaxRequests)
  BY <1>1 DEF IInv, Bounded, TypeOK
<1>3. {made'} \in Projects
  BY <1>2 DEF Projects, Changes
<1> QED
  BY <1>1, <1>2, <1>3, InstallStep

\* The end of the process, in the middle of a request or not.
LEMMA EndStep ==
  ASSUME IInv, End
  PROVE  IInv'
<1> USE DEF IInv, End
<1>1. TypeOK'
  BY DEF TypeOK, NoRequest, Answers
<1>2. Bounded'
  BY DEF Bounded, Request, NoRequest, Persisting
<1>3. /\ Held' /\ OneAhead' /\ OnDisk' /\ AcknowledgedIsOnDisk' /\ RefusedEditUndone'
  BY DEF Held, OneAhead, OnDisk, AcknowledgedIsOnDisk, RefusedEditUndone, Persisting
<1> QED
  BY <1>1, <1>2, <1>3

\* The state in which a handler takes a request up.
Received ==
  /\ editor # None /\ pc \in {"idle", "insert"}
  /\ before' = editor /\ behind' = behind
  /\ request' \in Request /\ request'.method \in Methods \ {"save"}
  /\ served' \in 0 .. MaxRequests /\ served <= served'

\* A request that is refused changes nothing.
LEMMA RefuseStep ==
  ASSUME IInv, Received, NEW a \in {"conflict", "refused"}, Refuse(a),
         UNCHANGED <<session, file, made, promised, tried>>,
         known' \in {known, editor.revision}
  PROVE  IInv'
<1> USE DEF IInv
<1>1. pc' = "idle" /\ answer' = a
  BY DEF Refuse
<1>2. editor \in Editor /\ editor.revision \in Nat
  BY DEF Received, TypeOK, Editor
<1>3. TypeOK'
  BY <1>1, <1>2 DEF TypeOK, Received, Answers, Methods
<1>4. Bounded'
  BY <1>1 DEF Bounded, Received, Persisting, TypeOK
<1>5. /\ Held' /\ OneAhead' /\ OnDisk' /\ AcknowledgedIsOnDisk'
      /\ RefusedEditUndone'
  BY <1>1 DEF Held, OneAhead, OnDisk, AcknowledgedIsOnDisk, RefusedEditUndone, Persisting, Received
<1> QED
  BY <1>3, <1>4, <1>5

\* An edit, an undo or a redo that the editor accepts is answered, or persisted
\* next.
LEMMA AcceptStep ==
  ASSUME IInv, Received, NEW e \in Editor, Accept(e),
         request'.method \in {"apply", "insert"} => e.past = Append(editor.past, editor.now),
         made' \in Nat, 2 <= made',
         made' <= 2 + 2 * served', request'.first => made' <= 1 + 2 * served'
  PROVE  IInv'
<1> USE DEF IInv
<1>1. /\ editor' = e /\ e # None /\ UNCHANGED <<store, checkpoint, file>>
  BY DEF Accept
<1>2. CASE store = None
  <2>1. checkpoint = None /\ Succeed
    BY <1>2 DEF Accept, Held
  <2>2. /\ pc' \in {"idle", "insert"} /\ (pc' = "insert" => request'.first)
        /\ answer' = "ok" /\ answer' \in Answers /\ known' \in Nat
        /\ promised' \in [Destinations -> Projects \cup {None}]
        /\ tried' \in [Destinations -> SUBSET Projects]
        /\ AcknowledgedIsOnDisk'
    BY <1>1, <1>2, <2>1, SucceedKeeps DEF TypeOK
  <2> HIDE DEF Projects
  <2>3. TypeOK'
    BY <1>1, <2>2 DEF TypeOK, Received
  <2>4. Bounded'
    BY <2>2 DEF Bounded, Received, Persisting
  <2>5. Held' /\ OneAhead' /\ OnDisk' /\ RefusedEditUndone'
    BY <1>1, <1>2, <2>1, <2>2 DEF Held, OneAhead, OnDisk, RefusedEditUndone, Persisting
  <2> QED
    BY <2>2, <2>3, <2>4, <2>5
<1>3. CASE store # None
  <2>1. pc' = "append" /\ UNCHANGED <<answer, known, promised, tried>>
    BY <1>3 DEF Accept
  <2>2. TypeOK'
    BY <1>1, <2>1 DEF TypeOK, Received
  <2>3. Bounded'
    BY <2>1 DEF Bounded, Received, Persisting
  <2>4. Held' /\ AcknowledgedIsOnDisk' /\ RefusedEditUndone'
    BY <1>1, <1>3, <2>1 DEF Held, AcknowledgedIsOnDisk, RefusedEditUndone, Persisting, Received
  <2>5. OneAhead' /\ OnDisk'
    BY <1>1, <2>1 DEF OneAhead, OnDisk, Persisting, Received
  <2> QED
    BY <2>2, <2>3, <2>4, <2>5
<1> QED
  BY <1>2, <1>3

\* A batch: refused, or one edit more.
LEMMA ChangeStep ==
  ASSUME IInv, Received, NEW conflict, Change(conflict),
         made + 1 <= 2 + 2 * served', request'.first => made + 1 <= 1 + 2 * served'
  PROVE  IInv'
<1>1. CASE Refuse("conflict") /\ known' = editor.revision
           /\ UNCHANGED <<session, file, made, promised, tried>>
  BY <1>1, RefuseStep
<1>2. CASE Refuse("refused") /\ UNCHANGED <<session, file, made, known, promised, tried>>
  BY <1>2, RefuseStep
<1>3. CASE made' = made + 1 /\ Accept(Edited(editor, editor.now \cup {made'}))
  <2>1. editor \in Editor /\ editor.now \in Projects
    BY DEF IInv, TypeOK, Received, Editor
  <2>2. made' \in Nat /\ 2 <= made' /\ made' \in 1 .. (2 + 2 * MaxRequests)
    BY <1>3 DEF IInv, Bounded, Received
  <2>3. editor.now \cup {made'} \in Projects
    BY <2>1, <2>2 DEF Projects, Changes
  <2>4. /\ Edited(editor, editor.now \cup {made'}) \in Editor
        /\ Edited(editor, editor.now \cup {made'}).past = Append(editor.past, editor.now)
    BY <2>1, <2>3, EditorFacts
  <2> QED
    BY <1>3, <2>2, <2>4, AcceptStep
<1> QED
  BY <1>1, <1>2, <1>3 DEF Change

\* A request that the agent sends.
LEMMA ReceiveFacts ==
  ASSUME IInv, NEW method \in Methods \ {"save"}, NEW first \in BOOLEAN,
         NEW expected \in {None, known}, Receive(method, first, expected)
  PROVE  /\ Received /\ request'.method = method /\ request'.first = first
         /\ served' = served + 1 /\ pc = "idle"
         /\ made \in Nat /\ 2 <= made /\ made <= 2 + 2 * served
<1>1. request' = [method |-> method, path |-> None, first |-> first, expected |-> expected]
  BY DEF Receive
<1>2. expected \in Nat \cup {None}
  BY DEF IInv, TypeOK
<1>3. request' \in Request /\ request'.method = method /\ request'.first = first
  BY <1>1, <1>2 DEF Request
<1>4. pc = "idle" /\ served' = served + 1 /\ served' \in 0 .. MaxRequests /\ served <= served'
  BY DEF Receive, Serve, IInv, TypeOK
<1> QED
  BY <1>3, <1>4 DEF Receive, Received, IInv, Bounded

\* apply_commands, import_media and insert_media.
LEMMA EditStep ==
  ASSUME IInv, NEW expected \in {None, known},
         \/ ApplyCommands(expected) \/ ImportMedia(expected)
         \/ InsertAsset(expected) \/ InsertFile(expected)
  PROVE  IInv'
<1>1. ASSUME NEW method \in Methods \ {"save"}, NEW first \in BOOLEAN, NEW conflict,
             Receive(method, first, expected), Change(conflict)
      PROVE  IInv'
  <2>1. /\ Received /\ request'.method = method /\ request'.first = first
        /\ served' = served + 1 /\ made \in Nat /\ made <= 2 + 2 * served
    BY <1>1, ReceiveFacts
  <2>2. served \in Nat
    BY DEF IInv, TypeOK
  <2> QED
    BY <1>1, <2>1, <2>2, ChangeStep
<1> QED
  BY <1>1 DEF ApplyCommands, ImportMedia, InsertAsset, InsertFile, Methods

\* insert_media goes on with what was imported.
LEMMA InsertImportedStep ==
  ASSUME IInv, InsertImported
  PROVE  IInv'
<1>1. request' = [request EXCEPT !.method = "insert", !.first = FALSE]
  BY DEF InsertImported
<1>2. request' \in Request /\ request'.method = "insert" /\ request'.first = FALSE
  BY <1>1 DEF IInv, Bounded, Request, Methods
<1>3. Received
  BY <1>2 DEF InsertImported, Received, IInv, Held, TypeOK, Methods
<1>4. made + 1 <= 2 + 2 * served'
  BY DEF InsertImported, IInv, Bounded, TypeOK
<1> QED
  BY <1>2, <1>3, <1>4, ChangeStep DEF InsertImported

\* undo and redo.
LEMMA NavigateStep ==
  ASSUME IInv, NEW expected \in {None, known}, Undo(expected) \/ Redo(expected)
  PROVE  IInv'
<1>1. ASSUME NEW method \in {"undo", "redo"}, NEW possible, NEW e,
             Navigate(method, expected, possible, e), possible => e \in Editor
      PROVE  IInv'
  <2>1. method \in Methods \ {"save"} /\ FALSE \in BOOLEAN
    BY DEF Methods
  <2>2. Receive(method, FALSE, expected) /\ made' = made
    BY <1>1 DEF Navigate
  <2>3. /\ Received /\ request'.method = method /\ request'.first = FALSE
        /\ served' = served + 1 /\ made \in Nat /\ 2 <= made /\ made <= 2 + 2 * served
    BY <2>1, <2>2, ReceiveFacts
  <2>4. /\ Received /\ request'.method = method /\ request'.first = FALSE
        /\ made' = made /\ made' \in Nat /\ 2 <= made' /\ made' <= 2 + 2 * served'
    BY <2>2, <2>3 DEF IInv, TypeOK
  <2>5. CASE Refuse("conflict") /\ known' = editor.revision
             /\ UNCHANGED <<session, file, promised, tried>>
    BY <2>4, <2>5, RefuseStep
  <2>6. CASE Refuse("refused") /\ UNCHANGED <<session, file, known, promised, tried>>
    BY <2>4, <2>6, RefuseStep
  <2>7. CASE possible /\ Accept(e)
    BY <1>1, <2>4, <2>7, AcceptStep
  <2> QED
    BY <1>1, <2>5, <2>6, <2>7 DEF Navigate
<1>2. editor # None
  BY DEF Undo, Redo, Navigate, Receive
<1>3. editor \in Editor /\ {} \in Projects
  BY <1>2 DEF IInv, TypeOK, Projects
<1>4. CASE Undo(expected)
  BY <1>1, <1>3, <1>4, EditorFacts DEF Undo
<1>5. CASE Redo(expected)
  BY <1>1, <1>3, <1>5, EditorFacts DEF Redo
<1> QED
  BY <1>4, <1>5

\* save_project starts, or cannot create a working database.
LEMMA SaveStep ==
  ASSUME IInv, NEW d \in Destinations, SaveProject(d)
  PROVE  IInv'
<1> USE DEF IInv
<1>1. /\ pc = "idle" /\ editor # None /\ served' = served + 1 /\ served' \in 0 .. MaxRequests
      /\ before' = editor /\ made' = made
      /\ UNCHANGED <<editor, checkpoint, file, known, promised, tried, behind>>
  BY DEF SaveProject, Serve, TypeOK
<1>2. /\ request' \in Request /\ request'.method = "save" /\ request'.path = d
      /\ request'.first = FALSE
  BY DEF SaveProject, NoRequest, Request, Methods
<1>3. CASE pc' = "append" /\ store' = (IF store = None THEN {} ELSE store) /\ UNCHANGED answer
  <2>1. pc' = "append" /\ store' # None /\ store' \in {None, {}} \cup {{p} : p \in Projects}
        /\ answer' = answer
    BY <1>3 DEF TypeOK, Projects
  <2> HIDE DEF Projects
  <2>2. TypeOK'
    BY <1>1, <1>2, <2>1 DEF TypeOK, Methods
  <2>3. Bounded'
    BY <1>1, <1>2, <2>1 DEF Bounded, Persisting, TypeOK
  <2> QED
    BY <1>1, <1>2, <2>1, <2>2, <2>3
       DEF Held, OneAhead, OnDisk, AcknowledgedIsOnDisk, RefusedEditUndone, Persisting, Methods
<1>4. CASE store = None /\ Refuse("save_failed") /\ UNCHANGED store
  <2>1. pc' = "idle" /\ answer' = "save_failed" /\ store' = store
    BY <1>4 DEF Refuse
  <2>2. TypeOK'
    BY <1>1, <1>2, <2>1 DEF TypeOK, Methods, Answers
  <2>3. Bounded'
    BY <1>1, <1>2, <2>1 DEF Bounded, Persisting, TypeOK
  <2> QED
    BY <1>1, <1>2, <2>1, <2>2, <2>3
       DEF Held, OneAhead, OnDisk, AcknowledgedIsOnDisk, RefusedEditUndone, Persisting
<1> QED
  BY <1>3, <1>4 DEF SaveProject

\* persistSnapshot; a save moves the project to its new file.
LEMMA AppendStep ==
  ASSUME IInv, AppendSnapshot
  PROVE  IInv'
<1> USE DEF IInv
<1>1. /\ pc = "append" /\ editor # None /\ request.method \in Methods
      /\ store' = {editor.now}
      /\ checkpoint' = IF request.method = "save" THEN request.path ELSE checkpoint
      /\ behind' = (behind \/ checkpoint' # checkpoint)
      /\ UNCHANGED <<editor, request, file, served, made, before>>
  BY DEF AppendSnapshot, Held, Persisting
<1>2. editor \in Editor /\ editor.now \in Projects
  BY <1>1 DEF TypeOK, Editor
<1>3. /\ checkpoint' \in Destinations \cup {None}
      /\ request.method = "save" => checkpoint' \in Destinations
  BY <1>1 DEF TypeOK, Held, Persisting
<1>4. store' \in {None, {}} \cup {{p} : p \in Projects} /\ behind' \in BOOLEAN
  BY <1>1, <1>2 DEF TypeOK
<1> HIDE DEF Projects
<1>5. store' # None
  BY <1>1, <1>2 DEF Projects
<1>6. CASE checkpoint' # None
  <2>1. pc' = "checkpoint" /\ UNCHANGED <<answer, known, promised, tried>>
    BY <1>6 DEF AppendSnapshot
  <2>2. TypeOK'
    BY <1>1, <1>3, <1>4, <2>1 DEF TypeOK
  <2>3. Bounded' /\ Held'
    BY <1>1, <1>3, <1>5, <1>6, <2>1 DEF Bounded, Held, Persisting
  <2>4. OneAhead' /\ OnDisk'
    BY <1>1, <2>1 DEF OneAhead, OnDisk, Persisting
  <2> QED
    BY <1>1, <2>1, <2>2, <2>3, <2>4 DEF AcknowledgedIsOnDisk, RefusedEditUndone
<1>7. CASE checkpoint' = None
  <2>1. Succeed
    BY <1>7 DEF AppendSnapshot
  <2>2. /\ pc' \in {"idle", "insert"} /\ (pc' = "insert" => request'.first)
        /\ answer' = "ok" /\ answer' \in Answers /\ known' \in Nat
        /\ promised' \in [Destinations -> Projects \cup {None}]
        /\ tried' \in [Destinations -> SUBSET Projects]
        /\ AcknowledgedIsOnDisk'
    BY <1>1, <1>2, <1>3, <1>7, <2>1, SucceedKeeps
  <2>3. TypeOK'
    BY <1>1, <1>3, <1>4, <2>2 DEF TypeOK
  <2>4. Bounded'
    BY <1>1, <2>2 DEF Bounded, Persisting
  <2> QED
    BY <1>1, <1>7, <2>2, <2>3, <2>4
       DEF Held, OneAhead, OnDisk, RefusedEditUndone, Persisting
<1> QED
  BY <1>6, <1>7

\* checkpoint_to puts the snapshot into the file.
LEMMA WriteStep ==
  ASSUME IInv, WriteCheckpoint
  PROVE  IInv'
<1> USE DEF IInv
<1>1. /\ pc = "checkpoint" /\ pc' = "answer" /\ editor # None
      /\ checkpoint \in Destinations /\ store = {editor.now}
      /\ UNCHANGED <<session, request, answer, served, made, known, before, promised, behind>>
  BY DEF WriteCheckpoint, Held, Persisting, TypeOK
<1>2. editor.now \in Projects
  BY <1>1 DEF TypeOK, Editor
<1> HIDE DEF Projects
<1>3. /\ file' = [file EXCEPT ![checkpoint] = editor.now]
      /\ tried' = [tried EXCEPT ![checkpoint] = @ \cup {editor.now}]
  BY <1>1 DEF WriteCheckpoint
<1>4. file' \in [Destinations -> Projects \cup {None}]
  BY <1>1, <1>2, <1>3 DEF TypeOK
<1>5. tried' \in [Destinations -> SUBSET Projects]
  BY <1>1, <1>2, <1>3 DEF TypeOK
<1>6. TypeOK'
  BY <1>1, <1>4, <1>5 DEF TypeOK
<1>7. file'[checkpoint] = editor.now /\ editor.now \in tried'[checkpoint]
  BY <1>1, <1>3 DEF TypeOK
<1>8. ASSUME NEW d \in Destinations
      PROVE  file'[d] \in {promised'[d]} \cup tried'[d]
  <2>1. CASE d = checkpoint
    BY <1>7, <2>1
  <2>2. CASE d # checkpoint
    <3>1. file'[d] = file[d] /\ tried'[d] = tried[d]
      BY <1>3, <2>2 DEF TypeOK
    <3> QED
      BY <1>1, <3>1 DEF AcknowledgedIsOnDisk
  <2> QED
    BY <2>1, <2>2
<1>9. Bounded' /\ Held' /\ OneAhead' /\ OnDisk'
  BY <1>1, <1>7 DEF Bounded, Held, OneAhead, OnDisk, Persisting
<1>10. RefusedEditUndone'
  BY <1>1 DEF RefusedEditUndone
<1> QED
  BY <1>6, <1>8, <1>9, <1>10 DEF AcknowledgedIsOnDisk

\* The answer to a request whose project is in the file.
LEMMA AnswerStep ==
  ASSUME IInv, Answer
  PROVE  IInv'
<1> USE DEF IInv
<1>1. /\ pc = "answer" /\ behind' = FALSE /\ Succeed /\ editor # None
      /\ UNCHANGED <<session, request, file, served, made, before>>
      /\ checkpoint # None /\ file[checkpoint] = editor.now
  BY DEF Answer, Held, Persisting
<1>2. editor' \in Editor /\ checkpoint' \in Destinations \cup {None}
  BY <1>1 DEF TypeOK
<1>3. /\ pc' \in {"idle", "insert"} /\ (pc' = "insert" => request'.first)
      /\ answer' = "ok" /\ answer' \in Answers /\ known' \in Nat
      /\ promised' \in [Destinations -> Projects \cup {None}]
      /\ tried' \in [Destinations -> SUBSET Projects]
      /\ AcknowledgedIsOnDisk'
  BY <1>1, <1>2, SucceedKeeps
<1> HIDE DEF Projects
<1>4. TypeOK'
  BY <1>1, <1>3 DEF TypeOK
<1>5. Bounded'
  BY <1>1, <1>3 DEF Bounded, Persisting
<1> QED
  BY <1>1, <1>3, <1>4, <1>5 DEF Held, OneAhead, OnDisk, RefusedEditUndone, Persisting

\* A step of persistence throws; the edit of a batch or an insertion is undone.
LEMMA FailStep ==
  ASSUME IInv, Fail
  PROVE  IInv'
<1> USE DEF IInv
<1>1. /\ pc \in Persisting /\ editor # None /\ store # None /\ request.method \in Methods
      /\ store' \in {store, {editor.now}}
      /\ editor' = IF request.method \in {"apply", "insert"} THEN Undone(editor) ELSE editor
      /\ pc' = "idle"
      /\ behind' = (behind \/ request.method \in {"undo", "redo", "import"})
      /\ UNCHANGED <<checkpoint, request, file, served, made, known, before, promised, tried>>
  BY DEF Fail, Held, Persisting, Refuse
<1>2. /\ answer' \in {"import_failed", "save_failed", "persist_failed"}
      /\ answer' = "persist_failed" /\ request.method \in Methods =>
           request.method \notin {"import", "save"}
  BY DEF Fail, Refuse
<1>3. editor \in Editor /\ editor.now \in Projects
  BY <1>1 DEF TypeOK, Editor
<1>4. store' # None /\ store' \in {None, {}} \cup {{p} : p \in Projects}
  <2>1. {editor.now} # None
    BY <1>3 DEF Projects
  <2> QED
    BY <1>1, <1>3, <2>1 DEF TypeOK
<1>5. /\ editor' \in Editor /\ editor' # None
      /\ request.method \in {"apply", "insert"} =>
           editor'.now = before.now /\ editor'.past = before.past
  <2>1. CASE request.method \in {"apply", "insert"}
    <3>1. before \in Editor /\ editor.past = Append(before.past, before.now)
      BY <1>1, <2>1 DEF OneAhead, TypeOK
    <3>2. /\ Undone(editor) \in Editor /\ Undone(editor).now = before.now
          /\ Undone(editor).past = before.past
      BY <1>3, <3>1, UndoneEdit
    <3> QED
      BY <1>1, <2>1, <3>2
  <2>2. CASE request.method \notin {"apply", "insert"}
    BY <1>1, <1>3, <2>2
  <2> QED
    BY <2>1, <2>2
<1> HIDE DEF Projects
<1>6. answer' \in Answers /\ behind' \in BOOLEAN
  BY <1>1, <1>2 DEF Answers, TypeOK
<1>7. TypeOK'
  BY <1>1, <1>4, <1>5, <1>6 DEF TypeOK
<1>8. Bounded' /\ Held'
  BY <1>1, <1>4, <1>5 DEF Bounded, Held, Persisting
<1>9. OneAhead' /\ AcknowledgedIsOnDisk'
  BY <1>1 DEF OneAhead, AcknowledgedIsOnDisk, Persisting
<1>10. OnDisk'
  BY <1>1, <1>5 DEF OnDisk, Persisting, Methods
<1>11. RefusedEditUndone'
  BY <1>1, <1>2, <1>5 DEF RefusedEditUndone
<1> QED
  BY <1>7, <1>8, <1>9, <1>10, <1>11

-----------------------------------------------------------------------------
(* The invariant, and what follows from it. *)

LEMMA InitIInv == Init => IInv
<1> SUFFICES ASSUME Init PROVE IInv
  OBVIOUS
<1> USE DEF Init
<1>1. \A c \in Existing : {c} \in Projects
  BY DEF Existing, Projects, Changes
<1> HIDE DEF Projects
<1>2. file \in [Destinations -> Projects \cup {None}]
  BY <1>1
<1>3. tried \in [Destinations -> SUBSET Projects]
  OBVIOUS
<1>4. request.method \in Methods \cup {"none"} /\ answer \in Answers /\ behind \in BOOLEAN
  BY DEF NoRequest, Answers
<1>5. served \in 0 .. MaxRequests /\ known \in Nat
  OBVIOUS
<1>6. TypeOK
  BY <1>2, <1>3, <1>4, <1>5 DEF TypeOK
<1>7. Bounded
  BY DEF Bounded, Request, NoRequest, Persisting
<1> QED
  BY <1>6, <1>7
     DEF IInv, Held, OneAhead, OnDisk, AcknowledgedIsOnDisk, RefusedEditUndone, Persisting

LEMMA NextIInv == IInv /\ [Next]_vars => IInv'
<1> SUFFICES ASSUME IInv, [Next]_vars PROVE IInv'
  OBVIOUS
<1>1. CASE \E d \in Destinations : OpenProject(d) \/ SaveProject(d)
  BY <1>1, OpenStep, SaveStep
<1>2. CASE NewProject
  BY <1>2, NewStep
<1>3. ASSUME NEW expected \in {None, known},
             \/ ApplyCommands(expected) \/ ImportMedia(expected)
             \/ InsertAsset(expected) \/ InsertFile(expected)
      PROVE  IInv'
  BY <1>3, EditStep
<1>4. ASSUME NEW expected \in {None, known}, Undo(expected) \/ Redo(expected)
      PROVE  IInv'
  BY <1>4, NavigateStep
<1>5. CASE InsertImported
  BY <1>5, InsertImportedStep
<1>6. CASE Persist
  BY <1>6, AppendStep, WriteStep, AnswerStep, FailStep DEF Persist
<1>7. CASE End
  BY <1>7, EndStep
<1>8. CASE UNCHANGED vars
  BY <1>8
     DEF IInv, TypeOK, Bounded, Held, OneAhead, OnDisk, AcknowledgedIsOnDisk,
         RefusedEditUndone, Persisting
<1> QED
  BY <1>1, <1>2, <1>3, <1>4, <1>5, <1>6, <1>7, <1>8 DEF Next

\* The invariant holds in every state the host can reach.
THEOREM SessionInvariance == Spec => []IInv
  BY InitIInv, NextIInv, PTL DEF Spec

\* Every variable keeps its type: the editor's history stays one of projects
\* made of the changes there were (ProjectEditor as AgentHost holds it).
THEOREM SessionTypes == Spec => []TypeOK
<1>1. IInv => TypeOK
  BY DEF IInv
<1> QED
  BY <1>1, SessionInvariance, PTL

\* A file holds the project that the agent was last told is in it, or one that
\* a request put there since, also a refused or an unanswered one
\* (persistAndCheckpoint and methodSaveProject).
THEOREM AcknowledgementTheorem == Spec => []AcknowledgedIsOnDisk
<1>1. IInv => AcknowledgedIsOnDisk
  BY DEF IInv
<1> QED
  BY <1>1, SessionInvariance, PTL

\* Between two requests the file holds the project that the agent edits, unless
\* a refused request left them apart (persistAndCheckpoint of every handler).
THEOREM SessionOnDiskTheorem == Spec => []SessionIsOnDisk
<1>1. IInv => SessionIsOnDisk
  BY DEF IInv, OnDisk, SessionIsOnDisk
<1> QED
  BY <1>1, SessionInvariance, PTL

\* A refused edit is taken back, and nothing but it (the rollback of
\* methodApplyCommands and methodInsertMedia).
THEOREM RollbackTheorem == Spec => []RefusedEditUndone
<1>1. IInv => RefusedEditUndone
  BY DEF IInv
<1> QED
  BY <1>1, SessionInvariance, PTL

=============================================================================
