---------------------------- MODULE ExportQueue ----------------------------
(***************************************************************************)
(* The export queue of app::EditorController                               *)
(* (src/src/app/editor_controller.cpp): one export at a time runs in a     *)
(* worker session, the others wait; every job has a snapshot of the        *)
(* project in a file, and a sidecar file beside the project keeps the jobs *)
(* that do not run.                                                        *)
(*                                                                         *)
(* The variables that launchExportJob() sets and finishVideoExport()       *)
(* clears together (export_in_flight_, export_session_,                    *)
(* export_checkpoint_path_, export_destination_,                           *)
(* export_cancel_requested_) are one, flight; running_export_job_id_ is    *)
(* cleared by others, too.  Snapshots and requests are written without     *)
(* failure, and the project has a path.                                    *)
(***************************************************************************)
EXTENDS WorkerSession, Subsequences, SequencesExt

CONSTANTS
    Destinations,  \* paths that exports are written to
    None,          \* no export in flight, no running job
    MaxSpare       \* bound on the crashes, reloads and retries

ASSUME NoneAssumption == None \notin Jobs \cup [session : Jobs, destination : Destinations,
                                                cancelled : BOOLEAN]
ASSUME MaxSpareAssumption == MaxSpare \in Nat

VARIABLES
    queue,      \* export_jobs_
    flight,     \* the export in flight, or None
    running,    \* running_export_job_id_, or None
    snapshots,  \* the jobs whose snapshot file exists
    sidecar,    \* the jobs in the sidecar
    box,        \* a message box with a failure is open
    outcome,    \* what the user was told last of each job, or "none"
    open,       \* the application runs and has the project open
    spare       \* how many crashes, reloads and retries are left

records == <<queue, running, snapshots, sidecar>>
owner == <<records, flight, box, outcome, open, spare>>
vars == <<sessionVars, owner>>

Record == [job : Jobs, destination : Destinations, state : {"queued", "running", "failed"}]
Outcomes == {"succeeded", "cancelled", "failed"}

\* The places of the records in a state, and queues, or the calls posted, without
\* some records.
InState(q, s) == {i \in 1 .. Len(q) : q[i].state = s}
NotRunning(q) == Part(q, {i \in 1 .. Len(q) : q[i].state # "running"})
Without(q, j) == Part(q, {i \in 1 .. Len(q) : q[i].job # j})
WithState(q, i, s) == [q EXCEPT ![i].state = s]

Init ==
    /\ SessionInit
    /\ queue = <<>> /\ flight = None /\ running = None
    /\ snapshots = {} /\ sidecar = <<>> /\ box = FALSE
    /\ outcome = [j \in Jobs |-> "none"] /\ open = TRUE
    /\ spare = MaxSpare

-----------------------------------------------------------------------------
(* Launching. *)

\* launchExportJob() of the record i of q: its state, the session, the sidecar.
Launch(q, i) ==
    /\ queue' = WithState(q, i, "running")
    /\ running' = q[i].job
    /\ flight' = [session |-> q[i].job, destination |-> q[i].destination, cancelled |-> FALSE]
    /\ sidecar' = NotRunning(queue')
    /\ Start(q[i].job)

\* A bug: the queue is pumped although an export is in flight.
PumpAnyway(q, current, run, saved) ==
    IF InState(q, "queued") # {}
    THEN \E i \in InState(q, "queued") : Launch(q, i)
    ELSE /\ queue' = q /\ flight' = current /\ running' = run /\ sidecar' = saved
         /\ UNCHANGED <<gui, worker, os, stdin, stdout>>

\* pumpExportQueue() on the records q: the first queued job is launched, if
\* nothing is in flight; otherwise the job run runs and the sidecar is saved.
Pump(q, current, run, saved) ==
    IF current = None /\ InState(q, "queued") # {}
    THEN \E i \in InState(q, "queued") :
            /\ \A k \in InState(q, "queued") : i <= k
            /\ Launch(q, i)
    ELSE /\ queue' = q /\ flight' = current /\ running' = run /\ sidecar' = saved
         /\ UNCHANGED <<gui, worker, os, stdin, stdout>>

-----------------------------------------------------------------------------
(* The user.  While a message box is open, the window takes no input. *)

UserTurn == open /\ ~busy /\ ~box

Writes(d) == \E i \in 1 .. Len(queue) : queue[i].destination = d /\ queue[i].state # "failed"

\* startVideoExport(), enqueueOrStartExport(): a new job.
Enqueue(j, d) ==
    /\ UserTurn
    /\ proc[j] = "none" /\ \A i \in 1 .. Len(queue) : queue[i].job # j
    /\ flight # None => flight.destination # d
    /\ ~Writes(d)
    /\ snapshots' = snapshots \cup {j}
    /\ LET q == Append(queue, [job |-> j, destination |-> d, state |-> "queued"])
       IN IF flight = None THEN Launch(q, Len(q))
          ELSE /\ queue' = q /\ sidecar' = NotRunning(q)
               /\ UNCHANGED <<gui, worker, os, stdin, stdout, flight, running>>
    /\ UNCHANGED <<loop, box, outcome, open, spare>>

\* cancelVideoExport()
CancelExport ==
    /\ UserTurn /\ flight # None
    /\ flight' = [flight EXCEPT !.cancelled = TRUE]
    /\ Cancel(flight.session)
    /\ UNCHANGED <<loop, records, box, outcome, open, spare>>

\* A bug: the sidecar is not written.
RemoveQueuedInMemory(j) ==
    /\ UserTurn
    /\ \E i \in InState(queue, "queued") : queue[i].job = j
    /\ queue' = Without(queue, j)
    /\ snapshots' = snapshots \ {j}
    /\ UNCHANGED <<sessionVars, flight, running, sidecar, box, outcome, open, spare>>

\* cancelQueuedExport()
RemoveQueued(j) ==
    /\ UserTurn
    /\ \E i \in InState(queue, "queued") : queue[i].job = j
    /\ queue' = Without(queue, j) /\ sidecar' = NotRunning(queue')
    /\ snapshots' = snapshots \ {j}
    /\ UNCHANGED <<sessionVars, flight, running, box, outcome, open, spare>>

Spend == spare > 0 /\ spare' = spare - 1

\* handleProjectHealthRepair() of a failed export.
Retry(i) ==
    /\ UserTurn /\ Spend
    /\ queue[i].state = "failed"
    /\ Pump(WithState(queue, i, "queued"), flight, running, sidecar)
    /\ UNCHANGED <<loop, snapshots, box, outcome, open>>

-----------------------------------------------------------------------------
(* The end of an export. *)

\* The deletes that are posted wait while a box runs an event loop of its own.
Deliverable(calls, boxed) == {i \in 1 .. Len(calls) : boxed => calls[i].call # "delete"}

\* finishVideoExport(): the delete of the session is posted behind rest, the
\* snapshot goes, the record goes or is marked as failed, the sidecar is
\* written; then comes the message box, or the next job.
Finish(result, rest) ==
    LET kept == IF result = "failed"
                THEN [i \in 1 .. Len(queue) |->
                        IF queue[i].job = running THEN [queue[i] EXCEPT !.state = "failed"]
                                                  ELSE queue[i]]
                ELSE Without(queue, running)
    IN /\ posted' = Append(rest, [job |-> flight.session, call |-> "delete"])
       /\ snapshots' = snapshots \ {flight.session}
       /\ outcome' = [outcome EXCEPT ![flight.session] = result]
       /\ IF result = "failed"
          THEN /\ box' = TRUE
               /\ busy' = (Deliverable(rest, TRUE) # {})
               /\ queue' = kept /\ sidecar' = NotRunning(kept)
               /\ flight' = None /\ running' = None
               /\ UNCHANGED <<gui, worker, os, stdin, stdout>>
          ELSE /\ Pump(kept, None, None, NotRunning(kept))
               /\ busy' = TRUE
               /\ UNCHANGED box
       /\ UNCHANGED <<spare, open>>

\* What the handlers set by launchExportJob() make of a call.
ResultOf(call) ==
    CASE call = "succeeded" -> "succeeded"
      [] call = "cancelled" -> "cancelled"
      [] call = "start failed" -> "failed"
      [] OTHER -> IF flight.cancelled THEN "cancelled" ELSE "failed"

\* The event loop delivers the posted call at i.
Deliver(i) ==
    /\ i \in Deliverable(posted, box) /\ \A k \in Deliverable(posted, box) : i <= k
    /\ LET j == posted[i].job
           call == posted[i].call
           rest == RemoveAt(posted, i)
       IN CASE call = "delete" ->
                 /\ Delete(j)
                 /\ posted' = Without(posted, j)
                 /\ busy' = (posted' # <<>>)
                 /\ UNCHANGED owner
            [] call # "delete" /\ flight # None -> Finish(ResultOf(call), rest)
            [] OTHER ->
                 /\ posted' = rest
                 /\ busy' = (Deliverable(rest, box) # {})
                 /\ UNCHANGED <<gui, worker, os, stdin, stdout, owner>>

\* The user closes the message box; finishVideoExport() goes on.
CloseBox ==
    /\ box /\ ~busy
    /\ box' = FALSE
    /\ Pump(queue, flight, running, sidecar)
    /\ busy' = (posted # <<>>)
    /\ UNCHANGED <<posted, snapshots, outcome, spare, open>>

-----------------------------------------------------------------------------
(* Other projects and other days. *)

\* loadExportQueueSidecar(): a job without its snapshot has failed.
Loaded == [i \in 1 .. Len(sidecar) |->
             IF sidecar[i].job \in snapshots THEN sidecar[i]
                                             ELSE [sidecar[i] EXCEPT !.state = "failed"]]

\* A restore point of the project is installed, which an export in flight does
\* not prevent: the records are those of the sidecar.
Reload ==
    /\ UserTurn /\ Spend
    /\ Pump(Loaded, flight, None, sidecar)
    /\ UNCHANGED <<loop, snapshots, box, outcome, open>>

\* The application dies, and its workers with it.
Crash ==
    /\ "restart" \in Failures /\ open /\ Spend
    /\ open' = FALSE
    /\ posted' = <<>> /\ busy' = FALSE /\ box' = FALSE
    /\ proc' = [j \in Jobs |-> IF proc[j] = "none" THEN "none" ELSE "deleted"]
    /\ Afresh(Jobs, "none")
    /\ queue' = <<>> /\ flight' = None /\ running' = None
    /\ UNCHANGED <<snapshots, sidecar, outcome>>

\* The project is opened again.
Reopen ==
    /\ ~open
    /\ open' = TRUE
    /\ Pump(Loaded, None, None, sidecar)
    /\ UNCHANGED <<loop, snapshots, box, outcome, spare>>

-----------------------------------------------------------------------------

\* What the GUI thread does by itself.
GuiStep ==
    \/ \E i \in 1 .. Len(posted) : Deliver(i)
    \/ \E j \in Jobs : SessionStep(j) /\ UNCHANGED owner
    \/ CloseBox

\* What a worker does by itself, reading its snapshot, and the end of its work.
WorkerGoesOn(j) == (WorkerStep(j) \/ Load(j, j \in snapshots)) /\ UNCHANGED owner
WorkEnds(j) == (Commit(j) \/ Report(j, "failed")) /\ UNCHANGED owner

Next ==
    \/ GuiStep
    \/ \E j \in Jobs :
          \/ WorkerGoesOn(j) \/ WorkEnds(j)
          \/ Die(j) /\ UNCHANGED owner
          \/ \E d \in Destinations : Enqueue(j, d)
          \/ RemoveQueued(j)
    \/ \E i \in 1 .. Len(queue) : Retry(i)
    \/ CancelExport \/ Reload \/ Crash \/ Reopen

\* The event loop goes on, and message boxes are closed.
Spec == Init /\ [][Next]_vars /\ WF_vars(GuiStep)

-----------------------------------------------------------------------------
(* Invariants. *)

TypeOK ==
    /\ SessionTypeOK
    /\ queue \in Seq(Record)
    /\ flight \in [session : Jobs, destination : Destinations, cancelled : BOOLEAN] \cup {None}
    /\ running \in Jobs \cup {None}
    /\ snapshots \subseteq Jobs
    /\ sidecar \in Seq(Record)
    /\ box \in BOOLEAN /\ open \in BOOLEAN
    /\ outcome \in [Jobs -> Outcomes \cup {"none"}]
    /\ spare \in 0 .. MaxSpare

\* One encode at a time (docs/beta-feature-status.md): whenever the event loop
\* turns to something new, at most one worker still has work to do.  Not while a
\* box is open: the sessions to be deleted are deleted when it has been closed,
\* and with three jobs the late calls of EndsForAReason may have ended two
\* exports by then whose workers were healthy.
Encoding(j) == os[j] = "up" /\ phase[j] \notin {"reported", "ended"}
OneEncode == ~busy /\ ~box => \A j, k \in Jobs : Encoding(j) /\ Encoding(k) => j = k

\* What a restart finds (docs/beta-feature-status.md: "durable per-job
\* snapshots"): every job that does not run is in the sidecar, in the order of
\* the queue, and a job that waits or runs for the first time has its snapshot,
\* whatever has been added, removed, ended or reloaded since.
QueueSurvives ==
    /\ open => LET q == NotRunning(queue)
               IN /\ Len(q) = Len(sidecar)
                  /\ \A i \in 1 .. Len(q) : q[i].job = sidecar[i].job
    /\ \A i \in 1 .. Len(queue) :
          queue[i].state # "failed" /\ outcome[queue[i].job] = "none" => queue[i].job \in snapshots

-----------------------------------------------------------------------------
(* Action properties and liveness. *)

\* An export ends because its worker has said so, has died, could not be
\* started, or because the user has cancelled it (src/app/doc/EditorController.md:
\* "worker death or a missing terminal SUCCEEDED is a failure").
EndsForAReason ==
    [][\A j \in Jobs :
          outcome'[j] # outcome[j] =>
              \/ flight.cancelled
              \/ os[j] # "up"
              \/ phase[j] \in {"reported", "ended"}]_vars

\* A cancelled export ends, whatever its worker does.
CancelEnds ==
    \A j \in Jobs :
        (flight # None /\ flight.session = j /\ flight.cancelled)
            ~> (flight = None \/ flight.session # j \/ ~flight.cancelled)

\* If workers go on and their work ends, every queued job gets its turn.
EveryTurn ==
    (\A j \in Jobs : WF_vars(WorkerGoesOn(j)) /\ WF_vars(WorkEnds(j))) =>
        \A j \in Jobs :
            (\E i \in InState(queue, "queued") : queue[i].job = j)
                ~> ~(\E i \in InState(queue, "queued") : queue[i].job = j)

=============================================================================
