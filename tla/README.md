# Video Editor: TLA+ models, checks and proofs

This directory models the core logic of the video editor in TLA+, checks it with TLC on small
instances and proves the most important facts with TLAPS for every instance. Paths below are relative
to the repository root unless they start with `src/src/`, which is how PROJECT.json names them
(`src/` being the repository, `src/src/` its sources).

* `PROJECT.json` lists components, runs, mutants, the map from definitions to source lines, findings,
  hazards and theorems.
* `X.tla` is the model of a component, `MCX.tla` names the model values of its runs, `X*.cfg` are the
  runs, and `XProofs.tla` holds its theorems.
* `tlc -config X.cfg MCX.tla` checks a run, `tlapm XProofs.tla` the proofs.

## 1. Inventory

The application is one desktop process (Qt) with a SQLite file per project, helper worker processes,
and a few threads. Everything a user edits is one immutable `Project` value.

| Component | State it keeps | Operations | Hard behaviour | Module |
| --- | --- | --- | --- | --- |
| `edit_model`: `TimelineEditor`'s history | head project, revision number, every published revision, undo entries and a cursor | `apply`, `applyBatch`, `undo`, `redo`, `snapshot`, `projectAt`, `revision` | concurrent callers with stale revisions; coalescing after undo; the redo tail | `EditHistory`, `UndoStack` |
| `edit_model`: commands on a sequence | clips with their place, source range, speed, direction and linked group; tracks and locks; transitions; multicam groups | insert, move, trim, split, remove, roll, slip, slide, close gap, ... | companions, ripples and overwrites reach other clips and tracks; source ranges are recomputed with speeds and in reverse | `ClipEdits`, `Timeline` |
| user edits (`app/EditorController`) | the selection, linked selection, the playhead, targeted tracks | split, razor, delete, move, nudge, trim, insert, paste, freeze, resync, unlink | a batch of commands computed from one state meets what its earlier commands did | `UserEdits` |
| `edit_model`: what a project refers to | bins, assets, sequences, nested sequences, subclips, versions, review notes | add, remove, move, nest, relink, resolve | cycles; dangling references; flags of notes that must follow | `ProjectGraph` |
| `project_store` | a SQLite database: schema version, command journal, head and saved revision, clean-close flag, heartbeat | open with migration, `append_command`, `mark_saved`, `mark_clean_close`, `checkpoint_to`, `scan_recovery_directory` | crash and power loss at every step; two processes on one file; failing steps; a checkpoint that finishes late | `ProjectStore` |
| project session (`EditorController`, `restore_points`) | editor, store, working path, bound checkpoint path, dirty flag, viewer gesture, restore points | edit, undo, redo, gestures, save, autosave, restore points, new, open, recover, close | model edit and journal append are two steps; timers fall into gestures; what a crash leaves | `ProjectSession` |
| worker session (`app/worker_host_session`, `workers/*`) | process state, read buffer, cancel flag, kill timer; in the worker: job and cancellation registry | start, cancel, frames, finish | messages against process exit; a cancel before the start frame or after the end; a late kill timer | `WorkerSession` |
| export queue (`EditorController`) | job records, export in flight, snapshots and sidecar files | enqueue, launch, cancel, remove, retry, finish, reload | one encode at a time; posted calls of a session that is over; message boxes with event loops; restart | `ExportQueue` |
| background jobs (`EditorController`) | preview queue, proxy queue, sessions, staging files, admission | enqueue, pump, finish, cancel, adopt, reopen, relink | posted calls read members that are another job's by then; two files of one proxy; held-back queues | `MediaJobs` |
| media cache (`media_cache/cache_store`) | index of rows, blobs, access order, budget | put, get, remove, evict, clear, budget | file, row and eviction are separate writes; rows that cannot be deleted; protected keys | `CacheStore` |
| audio transport (`audio_engine`) | newest intent, active command, waiters, state, worker and its token, ring, epoch, device | start, pause, resume, seek, stop, shutdown, device callback | lost wakeups; superseded commands; ring reset against the device callback | `AudioTransport` |
| proxy and export services | temporary outputs, sidecars, backups | render, commit, cancel | two-file commit; cancellation against rename | |
| previews (`EditorController`, renderers of `render_engine`, epochs of `playback`, `ProgramViewer`) | epoch, serial and the render in flight; preview cache and its identity; GPU renderer and what became of it; the same for the source monitor | request, launch, finish, initialize the GPU, load a source | results of an older epoch; requests that cancel and requests that wait; a GPU that comes or fails in the middle; decodes taken for none | `ProgramPreview`, `SourceMonitor`, `Previews` |
| agent host (`agent_host`) | editor, store, checkpoint path; the revision an agent was told | open, new, save, apply, import, insert, undo, redo | each request is an edit, an append and a checkpoint, of which any may fail or be the last; what was answered must be in the file | `AgentSession` |
| agent protocol | schema, catalog of commands | parse, build | data, not control | |
| captions, transcription, interchange, codec, UI | mostly pure functions and views | parse, format, encode, render | data, not control | |

How they interact: the UI and agents call the controller; the controller calls the editor (in memory),
then `persistSnapshot()` appends the new project to the store's journal, then it refreshes views.
Previews, exports and agents read published revisions by number. Saving copies the working database to
a `.veproj` file. At the next start the recovery scan looks for working databases that were left
behind. Worker processes are driven by frames over pipes and put their results into the cache; audio
and decoding run on their own threads and report back by version, generation or epoch numbers.

What makes each of them correct:

* editor: no lost update, immutable revisions, undo and redo walk through states that were shown;
* sequences: what an edit does not mean to change shows the same media at the same time; linked clips
  stay together; ripples move whole parts of tracks; locked tracks keep their clips;
* project: nothing contains itself, no reference dangles, review notes are flagged exactly while what
  they are on is broken;
* store: the journal only grows, a checkpoint is all or nothing, "saved" survives power loss, no
  migration without a backup;
* session: editor and journal agree, nothing is lost without a question, a failed write is rolled back;
* worker session and export queue: a job ends for a reason of its own, a cancelled job ends, the queue
  goes on after every end and survives restarts;
* background jobs and cache: a result is that of its asset and project, what is used least recently
  goes first and the cache keeps to its budget, the queue of previews is emptied;
* transport: every waiter is answered, no superseded command takes effect, the ring is never reset
  under a user;
* previews: the viewers come to show what was wanted last, playback shows frames, and nothing older than
  the last seek or edit gets into a viewer;
* agent host: an answered edit is in the file, a refused one is nowhere.

`PROJECT.json` lists the hazards one by one, each at its line, with the properties that would catch it
or a note why none does.

## 2. Plan

Modules in the order in which they were or are to be written.

| Module | Composes | Abstract specification | State |
| --- | --- | --- | --- |
| `EditHistory` | | `UndoStack` | checked and proved |
| `ProjectStore` | | | checked; all its properties proved |
| `ProjectSession` | `EditHistory` (instance), `ProjectStore` (abstracted) | | checked; all its properties proved |
| `ExportQueue` | `WorkerSession`, the controller's queue, `Subsequences` | | checked; its safety proved. Its liveness stays with TLC |
| `AudioTransport` | intents, control thread, worker, ring, callbacks | | checked; its safety proved. Its liveness stays with TLC |
| `MediaJobs` | `CacheStore` (instance), controller's queues, worker sessions, `Subsequences` | | checked; `NoStrangers` and `ContentIsOwn` proved. Its liveness and the sums of sizes stay with TLC |
| `Timeline`, `UserEdits` | `ClipEdits`, controller's handlers, `Subsequences` | | checked; validity, locks and overlaps proved. Not written: markers, captions, effects of a split, cuts by transcript |
| `ProjectGraph` | | | checked; all its properties proved |
| `AgentSession` | the editor and the store of a host, abstracted | | checked; all its properties proved |
| `PairedCommit` | proxy and map (`replace_pair`), export | atomic pair | not written |
| `Previews` | `ProgramPreview`, `SourceMonitor` (instance) | | checked; `NothingOlder` proved. Its liveness stays with TLC |

## 3. The modules

### EditHistory and UndoStack

`EditHistory` models `edit::TimelineEditor` (`src/src/edit_model/src/timeline_editor.cpp`). Its
variables are the class's members (`state_`, `revision_`, `revisions_`, `history_`,
`history_cursor_`) and, per client, the revision and the project it read last. Each method holds the
editor's mutex throughout, so it is one action: `Apply`, `ApplyBatch`, `Undo`, `Redo`, `Snapshot`,
`ReadRevision`. Clients read the revision and the snapshot in two calls, so another client's edit may
fall in between. What a command does to a project is abstracted to the project it yields; a command
that is invalid changes nothing.

`UndoStack` is the promise: a past, a present and a future, with an edit that pushes, an amendment that
replaces the present, undo and redo. `EditHistory` maps the entries before the cursor to the past and
those after it to the future.

### ClipEdits, Timeline and UserEdits

`ClipEdits` holds clips as records (track, start, duration, source range, rate, direction, linked
group) and, for every command on clips, an operator from a timeline to the set of timelines it may
yield: the empty set when the command is refused. Functions of the source that are easily wrong are
operators of their own: `divideRounded`, `splitClipObject`, `trimPreservingMapping`,
`prepareTrackForInsert`, `linkedClipIds`. Times are integers and an asset's duration is a few of them;
rounding to even, which half speeds need, is kept. Where the code picks ids at random, the model takes
the smallest free one, and where it goes through a set without an order that matters, the result is a
set of outcomes.

`Timeline` makes an action of each command (`TimelineInit`, `TimelineNext` and `TimelineTypeOK` have names
of their own, since the proofs extend it together with `EditHistory`): the candidate is what the operator
yields, `Accept` counts the edit, the candidate as a whole is validated (`Valid`, from `validateProject`:
clips within their media, no overlaps between neighbours, transitions over one cut with media on either
side, multicam groups), and only then committed. The locks and multicam checks of a command are in
`InsertClipCommand`, `MoveClipCommand` and so on. `last` is the latest edit with the shift it meant to give
to each of its clips: a history variable for the properties.

`UserEdits` adds what the controller does to a selection: each handler computes commands from the timeline
as it is and `applyBatch` runs them on one candidate (`Batch`), all or none. A batch is data, as in the
code: a sequence of records, one for each command, which `ApplyOperation` dispatches to the operators of
`ClipEdits`. Its specification is `UserSpec`. A selection is a set of clips, gone through in the order of
ids (`Ascending`; `Sorted` and `Part` of `Subsequences` are SetToSortSeq and SelectSeq with the order and
the places as data, which the provers can reason about); companions that a command takes along are consumed
(`Heads`). The playhead, the targeted tracks and whether linked selection is on are inputs. Copy and paste
is one step, with the clips as they are when they are pasted.

### ProjectGraph

The commands on bins, assets, sequences, nested sequences, subclips, versions and review notes, each
with `refreshReviewNoteReconciliation` and the validation of the whole candidate. The two searches of
the code for nesting (does a path lead back, how deep does it go) keep their own bookkeeping: both
give up at a depth, and both share one set of visited sequences between branches. Each is a function
from the levels that are left to what a visit makes of a sequence and of what was found and seen before
(`PathSearch`, `DepthSearch`); `Through` is the loop over the nested sequences. That a sequence does
not contain itself is stated without searching: what it nests, at whatever depth, lies in a set of
other sequences.

### ProjectStore

Models `store::ProjectStore` (`src/src/project_store/src/project_store.cpp`) for several processes on
one working database. A SQLite transaction is one action (WAL, `synchronous=FULL`); everything outside
a transaction is a step of its own: reading the version, the backup before a migration, every
migration, marking the database as open, and a checkpoint's snapshot, mark, fsync, rename, directory
fsync and record. `pc` is where in a call a process is; backup and checkpoint share their steps and
differ by `target`. `file` is what a reader finds under a path, `disk` the contents it may have after
power loss: a rename adds one, the directory's fsync leaves only it, and data that was not synced
becomes `Torn`. `Fail` is an exception in the middle of a call, `End` the end or death of a process,
`PowerLoss` the end of all of them. `origin` and `declared` are history variables for the properties.
A working file is opened either by the process that has just named it or because a scan recommended it
(`fresh`, `offered`).

### ProjectSession

Models the controller as the owner of a project (`src/src/app/editor_controller.cpp`). All of it runs
on the GUI thread, so a handler is one action, failures inside it included; autosave timers and pointer
events come between handlers. The undo history is that of `EditHistory` (instance `H`, whose `Record`
and `Applied` it uses); a journal is abstracted to its latest snapshot and whether the head is past the
saved revision, which is what the recovery scan judges. A behaviour meets one of `Circumstances`: which
calls may fail, which edits are made while a project is installed, which gestures the user makes.
Edits carry a coalescing key or none, as those of one parameter in the inspector do
(`editor_controller.cpp:7761`). To persist is two transactions, `append_command` and
`update_heartbeat`, and either may fail (`Persist`). `warned` is a history variable: the user was told
of a write that failed, and none has succeeded since. A restore point that the editor makes by itself
fails without a word.

| Action | Code |
| --- | --- |
| `Apply`, `ApplyBatch`, `Undo`, `Redo` | the controller's methods of these names with `persistSnapshot` and the rollback |
| `BeginGesture`, `UpdateGesture`, `EndGesture` | `beginViewerTransform`, `updateViewerTransform` (not persisted), `endViewerTransform` |
| `Save`, `Autosave`, `CreateRestorePoint` | `saveTo`, `autosaveCheckpoint`, `createNamedRestorePoint` |
| `Start`, `New`, `Open`, `LoadRestorePoint`, `Recover` | `main`, `newProject`, `openProjectFile`, `restoreNamedRestorePoint`, `loadWorkingRecovery` |
| `Exit`, `Crash` | the destructor; death of the process |

A gesture is not reset when another project is installed; the model keeps it, as the code does.

### WorkerSession and ExportQueue

`WorkerSession` models `app::WorkerHostSession` and the worker process (`workers/worker_main.cpp`,
`job_dispatch.cpp`, the cancellation registry): its operators are the session's calls (`Start`,
`Cancel`, `Delete`), what it notices (`OnStarted`, `OnReadyRead`, `OnFinished`, `OnErrorOccurred`,
`OnTimer`), and the steps of the worker's two threads. Pipes are sequences of frames; only the frames
that change control are kept. `ExportQueue` extends it with the owner, the controller's export queue.

The event loop matters here. Terminal events and the end of a process are posted, not handled at once;
once the loop begins to deliver posted calls it delivers all of them (`busy`) before it looks at
processes, timers or the user. A failed export opens a message box, which runs a loop of its own:
deferred deletes wait, posted calls do not, and the next job is launched when the box is closed.
`finishVideoExport` is `Finish`, called by `Deliver` for whatever session the call came from, as in the
code. Destroying a session (`Delete`) waits for its worker and then kills it; the wait is in the
interleaving of the worker's steps with the loop. A queue without some of its records is `Part` of it
(`Subsequences`), which is SelectSeq with a set of places for a test: TLAPS can reason about a set and
not about an operator.

### CacheStore and MediaJobs

`CacheStore` is the cache as a value: rows in the order of their last access, one blob per key, a
budget; its operations are operators (`Put`, `PutFile`, `Fetched`, `RemoveEntries`, `Clear`,
`EvictToBudget`). It is used from one thread, so only a death shows what lies between two statements:
`HalfPuts` are the caches it leaves after the file of a key is replaced, after the INSERT, which commits
by itself, and during the eviction that follows. A DELETE may fail, for the keys in `Fragile`; the loop
goes on to the next row and the eviction ends without an error, which the history `skipped` records.
`Opened` is the start of the application (`editor_controller.cpp:1521`): it opens the store, sets the
budget of the application's settings (`setting`) and evicts to it. A budget that is changed while jobs
run is only put into the settings.

`MediaJobs` is the controller over it: the serial queue of previews, the proxies with their two results
(the proxy and the map of its times), the worker sessions with the calls they have posted to
themselves, the staging files, relinking, reopening, admission and the cache browser. A handler runs to
its end, so it is an operator on a record of the whole state (`Now`, `Becomes`); what a worker or the
file system decides is a set of outcomes. Sessions are coarser than in `WorkerSession`: a worker ends
with an answer or without one, and a cancelled one with another answer on top.

### AudioTransport

The asynchronous transport over the synchronous controller over the ring, with the threads that meet in
them: producers of intents, the control thread, the pre-render worker, callbacks. Every call of the
controller is several steps (`Begin`, `Drain`, `Join`, `Settle`, `Reset`, `Spawn`, `Check`,
`AwaitPrefill`, `Go`, `StartDevice`, `Publish`), and a producer that supersedes an intent stores its
version (`Enqueue`), marks the result as pending under `result_mutex` (`MarkPending`), raises a flag
and stops the worker's token, in steps of their own (`canceller`); `diagnostics()` may come between any
two. A callback looks at the gate, enters, looks again and
reads. Positions are the versions of the intents that asked for them.

### AgentSession

The host is a process of its own that handles one request at a time (`handleRequest`), so interleaving
comes from failures and deaths. A request is received (`Receive`, `SaveProject`), the editor accepts or
refuses it (`Change`, `Navigate`), and then `persistAndCheckpoint` takes its steps: `AppendSnapshot`,
`WriteCheckpoint`, `Answer`; `Fail` is an exception at any of them, before or after its effect, with the
rollback that the handler has or has not; `End` is the end of the process. `insert_media` of a file is
two requests in one, the import and the insertion (`InsertFile`, `InsertImported`). A project is the set
of changes that made it. The working database is its latest snapshot only, because a later session makes
a copy of the file and never reads what an earlier one left. An agent sends the revision it was last
told, or none. History variables: `promised` and `tried` (what was last said to be in a file, and what
was put there since), `before` (the editor as the handler found it), `known` and `behind`.

### ProgramPreview, SourceMonitor and Previews

`ProgramPreview` is the preview of the program viewer. `requestPreview` and `launchPreviewRequest` run on
the GUI thread and are atomic; a render runs on a pool thread and its `finished()` is an event of its
own. `preview_epoch_` and `preview_request_serial_` only grow and are only compared with the values a
render was launched with, so each render carries two flags instead: `current` (no newer epoch) and
`latest` (no newer request). A request that replaces clears both (`Superseded`), a tick of playback
only the second (`Outrun`), and the end of a render that is not both launches another
(`PreviewFinished`).

| Action | Code |
| --- | --- |
| `Edit`, `EditLive`, `UndoUnsaved`, `InstallProject`, `ProxyReady` | `apply`, `updateViewerTransform`, `undo` and `redo` that cannot persist, `installProject`, the end of a proxy job, each with `refreshViews` or what it does of it |
| `Seek`, `SetActiveSequence`, `SetPreviewQuality`, `Play`, `Tick` | the methods, `advancePlayback` |
| `StartTimer`, `SurfaceReady`, `SurfaceUnavailable`, `SurfaceResized`, `GpuReady`, `GpuUnavailable` | the constructor's timer and connections, `startGpuInitialization...`, `attachGpuRenderer` |
| `FindCached`, `Present`, `RenderImage`, `RenderError` | the lambda of the pool thread |
| `PreviewFinished` | the lambda connected to `finished()` |

A frame is the record of what it depends on: which project, which revision, which place. Sequence,
playhead and quality are one `place`, since the code treats a change of any of them alike. A render is
one step, because of its steps others see only the last (an entry of the cache, or the surface); a newer
epoch may come before or after it. The cache's eviction is found out when an entry is not found. What
the viewer shows is `frame_`, or the surface while `native_presented_` holds. The GPU may fail to
present, to download or to render, each with or without the CPU's success; which error codes latch the
CPU is a choice.

`SourceMonitor` is the same for the source viewer, which has no GPU, no second kind of request, and a
flag `source_preview_in_flight_` that loading another source resets although a decode is in flight.
There may be several decodes, therefore; all but that of the current epoch only count (`stale`), as
they launch another when they end. `Previews` composes both: they meet in `installProject`.

History variables: `ticked` (a tick has asked since the last request that cancels), `behind` (the editor
was changed and no preview asked for), `blind` (another project was installed and the registry's
generation did not move).

## 4. The runs

| Run | Instance | Shows |
| --- | --- | --- |
| `history` | 3 projects, 1 key, 2 clients, revisions to 4 | `HistoryChain`, `RevisionsImmutable`, `NoLostUpdate`, refinement of `UndoStack` |
| `timeline` | 5 timelines of 3 to 5 clips on 2 or 3 tracks, any 2 commands, or a user edit of 2 selected clips and a command | `MediaFollowsEdit`, `LinkedStayTogether`, `RippleMovesTogether`, `LockedUntouched` |
| `project_graph` | a chain of sequences at the depth limit, a diamond, a library; any 3 commands, nesting limit 3 | `NothingContainsItself` (and no dangling references), `NotesFlagged` |
| `store` | 2 processes with 1 destination, or 1 at a time with 2; revisions to 2 | `CheckpointsComplete`, `SavedIsDurable`, `BackupPrecedesMigration`, `CheckpointsFollowJournal`, `SavedGrows`, with crashes and power loss everywhere |
| `session` | 2 projects, 1 path, 1 coalescing key; three kinds of sessions: drags, upkeep and failing checkpoints (`Busy`); failing appends, checkpoints and manifests (`Faulty`); failing heartbeats and marks of a clean close (`Beatless`) | `CommittedShown`, `HistoryFits`, `NoSilentLoss`, `RollbackRestores`, `StaysInOrder` |
| `agent` | any 5 requests to a host, 2 destinations, every step may fail or be the last | `AcknowledgedIsOnDisk`, `SessionIsOnDisk`, `RefusedEditUndone` |
| `exports` | 2 jobs, 2 destinations, workers that fail in every way, 1 crash, reload or retry | `OneEncode`, `QueueSurvives`, `CancelEnds`, `EveryTurn` |
| `exports_stale` | 2 jobs, no failures | a late call of one session ends the next export (finding) |
| `media_jobs` | 2 media, 1 of them with a proxy, 6 sessions, budgets 1 and 3, 1 row that may resist its DELETE, 1 relink, 3 requests or crashes | `ContentIsOwn`, `NoStrangers`, `LeastRecentlyUsed`, `EveryPreviewTurn` |
| `transport` | 2 intents and a shutdown, 2 callbacks, a ring of 1 block | `RingIsExclusive`, `CancellationHitsItsTarget`, `PositionSurvives`, `SucceededIsReal`, `NobodyWaitsForEver` |
| `previews` | 5 starts (`Sessions`): a cold start with 1 request, 2 requests without and with a GPU, 4 in the source monitor, 1 in each; ticks, the GPU and renders at any time | `LatestIsShown`, `TransportPresents`, `NothingOlder` |
| `transport_fed` | 2 intents, 1 callback, a ring of 2 blocks, 1 of them the prefill | a transport that plays without a worker (finding) |

Why the bounds are enough. A history of four revisions has an entry, a coalesced entry, an undone entry and
its replacement at once; the third project lets before, between and after differ. Two clients are what a
lost update needs. The timelines are chosen so that every case of a command has a clip to meet: a pair of
unequal length with neighbours on both tracks, contiguous clips at three speeds with one in reverse, a
transition beside a bare cut, a second angle in a multicam group, a locked companion, a title over a long
clip, a gap, and clips whose order of ids is not that of time; a clip that is covered in part, in the middle
or wholly occurs in each. `Horizon` bounds the times entered to 4, `MaxLinks` the groups to 3, which a split
of a pair one by one needs, and `MaxBatches` lets a batch come first. A second command starts from what the
first left, such as cut pieces that share media. Three commands on a graph close a cycle of three or a
diamond. In the store, two revisions after the initial one give an older and a newer checkpoint and a head
past both, and two destinations a checkpoint that is overwritten while another is kept. A lost append, a
mark that goes back and a late checkpoint need two processes and one destination, so the constraint
`WithinBounds` leaves out states in which two processes have the database open and the second destination is
in use. `SavedIsDurable` and `BackupPrecedesMigration` are claimed while one process at a time has it open
(`Alone`). In the session, two undo entries allow undo, redo and a replaced tail, one database left behind
is what a recovery needs, and the properties relate the editor to one file, one restore point or one left
database at a time. One key and no key are an edit that may join an entry and one that may not. Which calls
may fail is split into three kinds of sessions, so that one that meets a failing append does not meet a
failing heartbeat; each kind meets its failures in every order. `VIEW Nameless` leaves out the names of the
undo entries, which nothing reads. `MaxHistory`, `MaxLeft` and `MaxPoints` bound the counters in guards. Two
exports are the one that ends and the one it must not disturb; `MaxSpare` bounds crashes, reloads and
retries together. Six sessions are more than the media can have in use with three requests; a budget of
three bytes holds a pair of a proxy and its map, or a proxy and a preview, and not all, so that a put evicts
one or the other, and a budget of one refuses proxies. Only one row may resist (`FragilePreview`, the
preview of the asset without a proxy), so that each eviction that passes it over has another row to take;
the proofs allow any. Two intents are a superseded one and its successor, the shutdown is a third; two
callbacks are a device's and one that overlaps it. The block beyond the prefill in `transport_fed` is the
one the worker may fail on after the prefill. Five requests to a host are opening or saving a project, two
edits, an undo, and a save elsewhere. Two requests to the program viewer are one in flight and one that
supersedes it, to which ticks and a surface add requests that are not bounded (`left` counts the user's
only); a revision, a place or a project each differ between them. In the source monitor, four actions
(`budget`) load, seek, and load over a decode in flight, which makes three decodes. Every property of a
passing run has a mutant, a plausible bug of the mapped code, that the run finds.

`history` and `store` use symmetry: clients, the projects other than the first, and processes are
interchangeable in the modules, and both runs check safety only.

Deadlock is checked except where the system really stops: `ExportQueue` when its jobs are used up,
`MediaJobs` when nothing runs and the requests are used up, `Previews` when the user and the GPU have
done what they may and the viewers show it, `Timeline` and `ProjectGraph` after the last
edit, `AudioTransport` after its shutdown, `AgentSession` when its requests are used up and its process
has ended.

Most modules state their types. `MediaFollowsEdit`, `NothingContainsItself` and `NoStrangers` contain
those of their modules, since there they say that nothing dangles; they and the others, but for that of
the previews' source monitor, are proved, and the runs leave them out and their time to the other
properties.

`OneEncode` speaks of the times when the loop turns to something new and no message box is open. With
two jobs it holds while a box is open too. With three it does not: the late calls of the finding
`exports_stale` may end two exports whose workers are healthy while the box about a third is open, and
both sessions wait for their deferred deletes until it is closed. The proof's inductive invariant was
what showed this.

The `Busy` sessions of `session` leave failing manifests out, because with drags `NoSilentLoss` falls
to the disagreement about the dirty mark below: a project that has changed but is not marked as changed is
checkpointed into a restore point, which counts as a save, and the point is not listed; leaving the
project then loses the change. The `Faulty` sessions have failing manifests and no drags.

`CommittedShown` and `NoSilentLoss` are claimed while the user has not been told of a failed write
(`warned`), and `StaysInOrder` excepts the steps that fail half-way by name (`Failed`). An edit that is
refused is not among them unless its append had succeeded or it had joined an entry.

`LeastRecentlyUsed` has the cache within its budget after every step, starts and deaths included, unless
the last eviction passed over a row; and, of steps that evict to make room or to a new budget and pass
over none, that what goes was used less recently than what stays.

Fairness. `ExportQueue` assumes weak fairness of `GuiStep`, that is, that the event loop goes on: it
delivers posted calls, notices what processes do, fires timers, and message boxes are closed at some time.
Nothing is assumed of workers: `CancelEnds` holds for one that hangs, thanks to the kill timer. `EveryTurn`
assumes in its premise that workers go on and that their work ends, since nothing in the code limits how
long an export takes. `MediaJobs` assumes that its loop goes on, the end of every worker included (a preview
is a bounded piece of work, and one that is cancelled is killed); its fairness writes out when a step of the
loop is possible (`Busy`). `AudioTransport` assumes weak fairness of each thread that has something to do:
the producer that holds the mutex, the control thread, the worker, an admitted callback. New intents and new
callbacks are never assumed, and the provider is taken to return, which its contract demands. `Previews`
assumes that renders and decodes end and that their `finished()` is delivered: they are on a thread pool,
each is bounded work, and the event loop goes on. Nothing is assumed of the user, of ticks or of the GPU;
`LatestIsShown` takes in its premise that playback is over some time. The other modules assume no fairness
and claim no liveness: their operations are started by a user, a timer or a client and end by themselves.

### Where the code and its documentation disagree

The violation runs, `exports_stale` and `transport_fed`, show one disagreement each; PROJECT.json quotes
both sides. Modelling met others, which have no run of their own.

Sequences:

* A selection dragged in overwrite mode onto itself loses media: `commitTimelineBatchEdit` computes all
  moves first (`editor_controller.cpp:6210`), so the first clip may cut the head off the second, whose
  rest is then moved to the start that was meant for the whole. `KeepsMedia` excepts this case by name
  (`MovedOver`). With linked companions, an overwriting move may delete a companion.
* A ripple nudge of several clips whose ids are not in the order of time changes their offsets: the
  second move's ripple shifts the clip that has already moved. `docs/user-guide.md:189` says "Relative
  offsets inside a multi-selection are preserved". Clips that touch cannot be nudged or dragged to the
  right together, because the first move overlaps the next clip.
* With linked selection off, splitting both clips of a pair gives each right half a group of its own
  (`applySplitClip`).
* At half speed an edit may shift media by a rounding of one source unit; `ShowsAs` allows that for
  such rates only.
* A ripple insert is refused when a clip starts within the range; a split is refused inside a multicam
  group, but an overwrite or a trim cuts such clips; `UpdateTransitionCommand` looks at the locks of the
  clips of the new transition and not at those of the old one (`timeline_editor.cpp:2851`).
* The depth of nested sequences is searched with one set of visited sequences for all branches
  (`timeline_editor.cpp:271`), so a diamond may be deeper than 8, which `docs/beta-feature-status.md:74`
  rules out ("rejects cycles and depth > 8"). No cycle gets through (`NestsAcyclic`).
* A cut by transcript makes the ids of pieces from those of the clip and an index
  (`caption_service/src/proposal.cpp:15`), so cutting a piece again may make an id that is in use, and
  the cut is refused.
* Cutting a clip that has an effect copies the effect with its id into both halves, and the validation
  refuses equal ids: such a clip cannot be split, against `docs/user-guide.md:178`.

Sessions, exports, cache:

* `updateViewerTransform` edits without persisting. A save or autosave in the middle of a drag copies
  the journal without those edits and clears `dirty_`, and `endViewerTransform` (`editor_controller.cpp:8027`)
  persists them without marking the project as changed: the file lacks the edit, and neither autosave nor
  the question on closing follows. `docs/beta-feature-status.md:59` has autosave save "when the project
  is dirty". `CleanMeansSaved` is what does not hold; `StaysInOrder` claims it where no drags are made.
* Two processes that open a database of an old version at once: one may back up what the other is
  migrating (`project_store.cpp:408`); `BackupPrecedesMigration` is claimed for one process.
* Metadata moved into a project while it is installed does not mark it as changed
  (`editor_controller.cpp:2701`).
* The rollback of an edit that cannot be persisted undoes a whole undo entry (`:9952`). The edits of one
  parameter in the inspector join one entry (`:7761`), so a refused one takes back those before it that
  were persisted, against `docs/architecture/overview.md:118`: "If persistence fails, it rolls back the
  model edit." The journal then holds more than the editor shows, until the next write.
  `RollbackRestores` says what is taken back in either case: the edit's own undo entry, exactly, and
  none below it.
* An undo or redo that cannot be persisted stays (`:6355`). A save before the next edit writes the
  journal's project, not the one that is shown, and clears the mark for changes.
* A failed export can be retried, but its snapshot was deleted when it ended (`:4004`).
* An export replaces its destination (`export_service.cpp:1628`) before the worker says so. A worker that
  is killed or dies in between, by the timeout of a cancellation say, has replaced it, and the controller
  says "Export cancelled; the destination was left unchanged" (`:4035`). `docs/user-guide.md:447` ("Failure
  or cancellation removes the temporary file and leaves an existing destination unchanged"),
  `src/workers/README.md:92` ("Worker death still leaves destinations unchanged") and
  `docs/architecture/overview.md` say the same. In `ExportQueue` that is a death in the phase `committed`.
* A preview's `finished` handler and its late calls end whatever preview runs by then (`:12563`,
  `:12772`). After a failed start, or a wait in `finishProxyJob` or a reopening, that is the next one,
  whose result is lost until the project is opened again. `EveryPreviewTurn` says that the queue goes
  on all the same.
* A proxy is put into the cache and then its map (`:3943`). One refused as too large, or a death in
  between, leaves an old proxy beside a new map, which the next opening takes for a complete pair;
  `ContentIsOwn` excepts these two cases. Relinking during a proxy job attaches the old source's proxy;
  eviction leaves registered proxies without a file until the project is opened again; reopening cancels
  proxy jobs and does not schedule them again while their records are there.
* A put is the file, the INSERT and the eviction (`cache_store.cpp:850`, `:890`, `:906`), each durable
  by itself; a death between the last two leaves the index over its budget until the application starts
  again, and a row that cannot be deleted (`:726`) leaves it over for longer, without an error.
* Clearing the cache clears the mark that it is full without starting the queue; a failed insert removes
  a blob that an older row names.

Transport:

* `diagnostics()` reads the version of the newest request and the result under `result_mutex`, but the
  version is stored before that mutex is taken (`async_realtime_playback.cpp:160`, `:163`): in between,
  the Succeeded of the earlier intent stands beside the newer version, although
  `src/audio_engine/README.md:60` speaks of "status plus the typed error for the newest intent".
  `latest_result_version` tells them apart, and `SucceededIsReal` claims the pairing for it.
* `transport_fed` shows a Start whose worker fails. There is another way to a transport that plays
  without a worker: an intent that supersedes a Start after its last look at the flag, or a Resume while
  the controller plays, stops the token of the worker that plays; if what is executed next is a Resume, it
  finds the controller playing and is answered with success.
* The callback announces itself and looks at the gate, the control thread closes the gate and looks for
  callbacks (`realtime_playback.cpp:561`, `:562`, `:205`, `:208`), with release and acquire only. That
  does not order a thread's store before its own load of the other's variable, as sequential consistency
  does. The model has interleavings of whole steps, so `RingIsExclusive` is checked and proved under
  sequential consistency only.

Previews:

* Loading a source over one whose decode is in flight takes that decode for none (`:4073`). When it ends
  it launches another, in a new epoch, and so makes the outcome of the other decode stale, which does
  the same when it ends: once the two alternate, neither is shown, although the user does nothing, and
  the viewer keeps the frame it has. `SourceIsShown` excepts the time while there are several
  (`stale > 0`); without that, TLC finds it after a load, a seek and a load.
* A tick of source playback cancels the decode in flight (`:4388`), so that a decode that is slower than
  a tick never shows a frame while the source plays; the program viewer's ticks wait
  (`TransportPresents`), as `docs/user-guide.md:343` says of "the viewer".
* The comparison of a trim asks the provider with epoch 0 (`:9354`), which refuses every epoch but the
  current one (`ffmpeg_frame_provider.cpp:845`), and that is 1 or more once a preview was asked for:
  the two frames of `docs/user-guide.md:161` do not come.
* An undo or redo that cannot be persisted refreshes nothing (`:6355`): the viewer keeps the frame before
  it (`behind`).
* A sequence that loses its last clip clears `frame_`, but with native presentation the surface goes on
  to show the last frame; a superseded render may still present on the surface, which NothingOlder leaves
  out and the next render mends.
* The cache is cleared when the registry's generation moves, and cleared of the last known revision when
  the revision does. Installing another state of the project whose media cannot be registered may move
  neither, revisions starting again at 0, and the CPU path may then show a frame of the former state
  (`blind`).
* The surface of the viewer may come while the offscreen GPU is initialized, which is then waited for
  and dropped (`:11861`). If the GPU cannot present, there is no second attempt offscreen, contrary to
  the comment at `:11864`, which wants the offscreen device kept: the CPU is latched.
* `setActiveSequence` asks twice, so that its first render is always thrown away; a loop that is shorter
  than a render seeks, which cancels, and may never present; showing or hiding the safe guides asks for
  no preview.

Agent host:

* Edits and insertions that cannot be persisted are taken back, undos, redos and imports are not
  (`agent_host.cpp:824`, `:846`, `:890`), although `docs/architecture/0022-agent-edit-protocol.md` lists
  undo and redo with the "same persist rules". `behind` names the time until the next edit is persisted.
  A refused edit also stays on the redo list: the rollback is an undo.
* A save that fails has already moved the checkpoint path (`:700`), so that later edits are written to
  the new path, or keep failing there.
* `insert_media` of a file imports it first and then compares the expected revision with the one after
  the import, so with an expected revision it always ends in a conflict, and the import stays.
* Commands of an agent are batches, which never coalesce, so a `coalescing_key` has no effect.

## 5. The proofs

Each proof has the same layout: the inductive invariant (`IInv`, or a name of its own in a module with
several) in named parts, lemmas on the operators of the model, one lemma per group of actions, the
lemmas that it holds at first and is kept by each step, and the theorems. TLC also finds each invariant
true on the instance of its run (for AgentSession on a smaller one, `MaxRequests = 4`).

`EditModelProofs` proves about the history, for any projects, keys, clients and `MaxRevision`:

* `Invariance`: the inductive invariant, the conjunction of the types, the chain, the cursor,
  the oldest entry, published heads and views. The chain is inductive only together with
  `StateAtCursor` (an edit records the head as "before", so the entry below it must end there) and
  `OldestUndoIsInitial`. The sequence operators are dealt with once: every edit either pushes an
  entry on the applied ones or joins the topmost one (`Pushed`, `Fused`), and the rest of the proof
  only uses that.
* `UndoHistory`, `Immutability`, `NoUpdateLost`: consequences of it.
* `Refinement`: every step is a step of `UndoStack` or changes nothing there.

It proves about the timeline, for any tracks, media, ids, times, selections and number of edits:

* `TimelineInvariance`, `TimelineTypes`: the sequence is of its types and valid (`TimelineInv`). Both are
  needed together: what a command yields from clips that are valid is a candidate with a place, a source
  range and a rate that are numbers, on tracks of the sequence and under ids that exist or are fresh, and
  the validation of the candidate does the rest (clips start at 0 or later, durations are positive,
  ranges lie in the media).
* `LockedTheorem`: for every command, with its companions, what it overwrites and what it ripples, the
  timeline it yields `Follows` the one it was given: ids stay among those there are, and clips that are
  added, removed or changed lie on unlocked tracks before and after. `Follows` is a preorder, so a batch
  does what its commands do, by induction over the recursive function that runs it. No batch changes a
  lock.
* `OverlapTheorem`: the code compares neighbours on a track only. The proof takes two clips that
  overlap, finds the neighbour of the first between them, which overlaps the first as well, and
  so contradicts the validation.
* `SplitShowsTheClip`, `TrimShowsTheClip`: for any clip, speed, direction and cut, the halves of
  `splitClipObject` abut in time and in the source and make up the clip; the first shows what the clip
  showed, and the second, like a clip that `trimPreservingMapping` has trimmed, the same up to half a
  source unit, because `divideRounded` is off by at most one half.

`ProjectStoreProofs` proves for any processes, destinations, payloads and `MaxRevision`:

* `StoreInvariance`, `StoreTypes`: the inductive invariant and the types. They need `Upgrading` (who
  migrates has not reached the current version) and `Prepared` (who writes a file has one).
* `JournalTheorem`, `JournalGrowth`, `SavedGrowth`.
* `CheckpointTheorem`, `TracedTheorem`: complete checkpoints that are prefixes of the journal. This
  follows the content of a checkpoint through its steps: `Traced` (a copy is a state of the journal),
  `Marked` (it is marked before it is synced), `Synced` (it is synced before it is renamed),
  `Checkpointed` (so every content a destination may have is complete); a journal that only grows keeps
  prefixes prefixes.
* `DurabilityTheorem`, `BackupTheorem`: what is called saved, and what an old database held, survives
  power loss while one process at a time has the database open. They rest on a second invariant,
  `AloneInv` (`AloneInvariance`): `Opened` (what version a process may find where, and that a database
  that was never completed is nobody else's), `Checkpointing` (the head in a copy stays the head that
  its process saw, since nobody else appends) and `BackedUp` (the backup is a copy of the database as it
  was, step by step until it is durable, and only then a version is raised). The last two are claimed for
  one process only, as is what rests on them (section 4).

`ProjectSessionProofs` proves for any projects, keys, paths, circumstances and bounds:

* `SessionInvariance`, `SessionTypes`, `HistoryTheorem`, `JournalShowsTheorem`. To `HistoryFits` and
  `CommittedShown` the invariant adds that a gesture in progress is one that the session makes, and
  `CleanIsKept`: what is shown while nothing is marked as changed is in a journal past its last save, in
  a file or in a restore point. Without this, leaving a clean project could lose it.
* `RollbackTheorem`: a refused edit takes back its own undo entry and none below it, for any keys: the
  project before that entry is shown, and if the edit had not joined one, that is the project before it.
* `LossTheorem` and `OrderTheorem`: the action properties, one handler at a time. An installation is
  split into leaving the old project and coming to the new one (`LeaveFacts`).

`AgentSessionProofs` proves for any destinations and number of requests that what was acknowledged is in
the file, that the file holds what is edited between two requests, and that a refused edit is undone.
The invariant says what there is in each step of a request (`Held`), that an edit that may be taken back
is one step ahead of the editor as the handler found it (`OneAhead`, from which undo restores it), which
of the two projects the file holds meanwhile (`OnDisk`), and that changes are counted within their bound.

`WorkerJobsProofs` is about both kinds of jobs in worker processes. Of `ExportQueue` it proves for any
jobs, destinations and `MaxSpare`:

* `QueueInvariance`, `QueueTypes`, `EncodeTheorem`: a process belongs to the session in flight or to
  one whose delete is posted (`Owned`), and no delete is posted when the loop turns to something new
  without a box (`Deleted`); so one worker encodes.
* `QueueTheorem`: the sidecar matches the queue (`Saved`) and has no running job (`Resting`); a job that
  never ended has its snapshot wherever its record is, in the queue or in the sidecar (`Snapshotted`),
  since after a crash the queue is made from the sidecar.
* What `Places` and `Part` yield is proved by induction over sets of numbers (`LeastNumber`,
  `InductiveSet`), which needs no theorem with an operator for a parameter: the set of lengths for which
  a fact holds contains 0 and with each number the next. `RemoveAtFacts` and `SamePlaces` are the
  consequences for queues.

Of `MediaJobs` it proves `NoStrangers`, for any media in any order, budgets, number of projects opened,
relinks and crashes (`JobsInvariance`, `StrangersTheorem`):

* The invariant speaks of the controller as a record (`Model`). `Previewing` and `Proxying`: the running
  preview and every proxy job have a live session of their kind. `Called`: every call that is posted has
  a live session, and one whose deletion is posted is nobody's (`Unused`). The deletion is what makes
  this an invariant: only the session that no member points to may go, though calls of it are still
  handled before. `Launched`: a preview of the current generation is of the project that is open; one of
  an earlier generation may be of any. `Distinct`: the cache has one row for each key.
* A handler is a composition of operators, so the proof is one lemma for each of them: it keeps the
  invariant, the project and the generation, and shows only what is of the project if so far that was so
  (`Keeps`). The lemmas compose (`KeepsFacts`) along the code of the handler. Only
  `WaitForInFlightCacheJob` changes the generation, after which no preview is of the current one
  (`Outdated`), and the project may become any other (`AnotherProject`).
* The loops over the media (`DiscoverAll`, `LoadAll`) are functions, shown to exist and to keep what
  each turn keeps by the induction over sets of numbers.
* Both theorems assume that `Hosts` is not finite: a session can always be allocated, as `new` can. The
  invariant says that finitely many are live. The instance has six, more than it can have in use.

`MediaContentProofs` goes on to `ContentIsOwn`, under the same assumption (`ContentInvariance`,
`ContentTheorem`). The handler of a preview's success puts the file at `cache_temp_result_` into the
cache under the key of the asset it was launched for, and nothing in it compares the two: by then
another job may run and the path be that job's. That no asset gets another's preview hangs on the order
in which calls are posted, and the invariant (`Orderly`) says which order that is:

* `Ready`: a success that is pending is that of the running preview, with nothing before it but
  deletions and ends of proxies (`Aside`), which start no preview; or it is the next call, and then the
  preview that runs by now has written nothing, so that the handler finds no file. A proxy's success is
  the next call, with both its files in place and only calls of its own session behind it.
* `Leaving`: the session of a preview that is not the running one is about to be deleted. Processes end
  when the calls have been delivered, so only the running one can still succeed.
* `OwnFiles`: files are at the paths and under the keys of their own assets; a proxy that was written
  lies beside the map of the same link until one of the two is taken.
* Steps that post no call and write no file (`Quiet`) keep all three, whatever they start; with `Keeps` they
  make up most of every handler (`Calm`). Steps that store nothing and take nothing (`Spares`) keep what
  each asset owns. What is left are the answers of workers (`AnswerOrderly`), the two handlers that store
  (`EventOrderly`, `FinishProxyOrderly`), a handler that runs while it waits for the preview in flight
  (`WaitedGoes`), the call that is taken (`TailOrderly`, `Following`), the deletion of a session that may
  still write (`DeleteOrderly`) and the death of the application inside a put or between two (`HalfOwn`).
* Deleting a session drops its calls from the middle of the queue. That the others keep their order is a
  fact on `Part` (`PartOrder`, from `PlacesRise`).

`PlaybackProofs` is about sound and picture. Of `AudioTransport` it proves for any callbacks, versions
and any capacity of the ring:

* `TransportInvariance`, `TransportTypes`: the conjunction of ten parts. `Queued`: the two commands there
  can be, in order. `Cancelling`: whom a flag, or a cancellation between its two steps, is meant for.
  `Controlled`: which call serves the command, and what its result may be at which step.
  `Gated`, `Worked`: who may be in the ring when. `Reached`, `Sounding`: the state of the controller and
  of the device at each step. `Placed`: who carries the position that was asked for last.
* `RingTheorem` from `Gated` and `Worked`; `CancellationTheorem` from `Cancelling`; `PositionTheorem`
  from `Placed`; `SucceededTheorem`. `Placed` is the part that took the case analysis: a command without
  a position passes on that of the one it replaces, unless the epoch already is, or will be, there.

Of `Previews` it proves `NothingOlder` for any sessions, places and number of requests
(`PreviewInvariance`, `NothingOlderTheorem`): what is cached under a key, or is to be, is a frame of
that key (`CacheKeyed`, `WorkerKeyed`), and a render of the current epoch was launched for the registry
and revision as they are (`WorkerCurrent`, `RequestedCurrent`), so that whichever of them is shown is
not older than the last seek or edit. The exceptions `behind` and `blind` of section 4 are in the parts
as they are in the property.

`ProjectGraphProofs` proves for any projects, any `MaxNesting` and any number of entities and commands:

* `ProjectInvariance`: entities are well-formed, the project is valid and the notes are flagged. Each
  command commits a candidate that is validated as a whole, so the work is in what validation means.
* `NestingTheorem`: a valid project contains no cycle, of sequences or of bins. The search for a path
  gives up beyond the limit and enters no sequence twice, so taken alone it misses cycles. The proof
  compares it, level by level, with the search for the depth (`Agree`): where the second stays within the
  limit, the first has not given up, both have entered the same sequences, and these are closed under
  nesting (`Covered`), so that a search in vain means that the target is not there. For bins, a way up
  that does not end meets a bin twice (pigeonhole), and validation would have met it too.
* `NotesTheorem`: review notes.

Assumptions: the ASSUMEs of the modules, which say that special values differ from others and that bounds
are numbers (`MaxHistory` at least 2, `Capacity` at least 1), and that sessions do not run out in those
about `MediaJobs`. TLC evaluates those of the modules in every run.

Only model-checked:

* `MediaFollowsEdit` beyond the two theorems on one cut: where a clip is cut, trimmed and moved by
  several commands of a batch, the roundings add up, and the slack of one source unit that TLC finds
  enough for the batches of the instance is not one for all. `LinkedStayTogether` and
  `RippleMovesTogether` compare an edit with the sums and the groups it was given, which a batch
  computes by induction over data.
* `LeastRecentlyUsed`: the sum of the sizes of rows is a fold, and how it changes when rows are removed
  is induction over data.
* Liveness (`CancelEnds`, `EveryTurn`, `EveryPreviewTurn`, `LatestIsShown`, `TransportPresents`,
  `NobodyWaitsForEver`) and ENABLED, which are outside the prover's reach, and the violation runs.

## 6. What is not modelled

Most of the code by lines is data: rendering, audio mixing, codecs, widgets, and the conversions of
projects and commands to Protobuf and JSON. They are numeric, pure or input and output, and the models
take their results as given. Within the modelled parts:

* Clips: names, effects, keyframes, envelopes, fades, transforms, titles' text, media views; markers and
  captions; commands that only set a value. Splitting a clip with effects is refused by the editor and
  not modelled. Times have one scale, in which a frame is one unit.
* User edits: nesting a selection, a clipboard that is older than the paste, still overlays on a new
  track, the sequence format taken from the first clip, snapping. The widgets' gestures are where
  the numbers come from.
* Store: heartbeats order the catalog of the scan; no property is about the order. Integrity checks of
  damaged databases, `project_uuid` checks and path checks refuse a call before it changes anything.
* Session: message boxes run a nested event loop; the model takes the answer with the call. Of
  the edits made while a project is installed only the last may be refused, and several relinks are one;
  equal databases left behind are counted once; a gesture's clip is not looked up, so a gesture may go
  on in any project that is installed. `newProject()` when its store cannot be opened, and the
  manifest of restore points that is truncated and rewritten in place (`restore_points.cpp:108`).
* Exports: failures to write a snapshot, a request or the sidecar; moving to another project, which
  starts another queue; a worker that outlives a crashed application (it is taken to die with it).
* Media jobs: the in-process fallback without a worker host, LUT files, transcription, the message box
  about a failed proxy, and pointer events that overtake posted calls.
* Cache: opening and repairing the index, files that stay when their row goes, clocks that go back,
  `contains`, `inspect`.
* Transport: memory orders weaker than sequential consistency, samples, levels, clocks, the end of a stream
  inside a block, loss of the device.
* Previews: the program output window, scopes and meters, backend labels, safe guides, the comparison of
  a trim, the decoder's sessions and the numbers in a frame.
* Proxy and export services: `replace_pair` with its backups, and the commit of an export, which a
  worker may make and die before it says so (`export_service.cpp:1628`).
* Agent host: the playhead, sequence and selection of the session, the registry of media for previews,
  the preview and scope requests, and what the commands in a batch do (that is `ClipEdits`).
* The components that PROJECT.json lists as `not_modelled`, each with its reason.
