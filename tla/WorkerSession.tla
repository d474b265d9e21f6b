--------------------------- MODULE WorkerSession ---------------------------
(***************************************************************************)
(* Background jobs in worker processes: app::WorkerHostSession on the GUI  *)
(* thread (src/src/app/worker_host_session.cpp) and the worker it drives   *)
(* (src/src/workers/worker_main.cpp, job_dispatch.cpp, with the            *)
(* cancellation registry of job_service).  A session runs one job; a job   *)
(* that is run again gets a new session.  The owner of the sessions is a   *)
(* module of its own (ExportQueue).                                        *)
(*                                                                         *)
(* The GUI thread handles one thing at a time.  Terminal events and the    *)
(* end of a process are not handled where they are noticed but posted.     *)
(* Once the event loop begins to deliver posted calls, it delivers all,    *)
(* those posted meanwhile included, before it looks at processes, timers   *)
(* and users again.  The worker's two threads interleave with all of it.   *)
(*                                                                         *)
(* ACCEPTED and RUNNING events only move progress bars and are left out,   *)
(* like malformed frames.  A frame is the message in it.                   *)
(***************************************************************************)
EXTENDS Integers, Sequences, FiniteSets

CONSTANTS
    Jobs,     \* job ids
    Failures  \* what may go wrong: see FailureKinds

\* A worker that cannot be executed, a worker that dies, a job that fails, and
\* (see the owner) the application dying.
FailureKinds == {"launch", "crash", "job", "restart"}

ASSUME FailuresAssumption == Failures \subseteq FailureKinds

VARIABLES
    proc,     \* process_: "none", "starting", "running", "over" when it is null
              \* again, "deleted" with the session
    os,       \* the worker process: "none", "up", "dead", or "failed" to execute
    stdin,    \* frames written to the worker and not yet read
    closed,   \* the jobs whose write channel is closed
    pending,  \* the jobs with cancel_pending_
    timers,   \* the jobs whose kill timer runs
    phase,    \* dispatch_job() in the worker: see Phases
    tokens,   \* the jobs whose cancellation token is set
    stdout,   \* terminal events written by the worker and not yet read
    posted,   \* calls posted to sessions
    busy      \* the event loop is delivering posted calls

gui == <<proc, closed, pending, timers>>
worker == <<phase, tokens>>
loop == <<posted, busy>>
sessionVars == <<gui, worker, loop, os, stdin, stdout>>

\* Not started, its thread started, registered, its input loaded, its result
\* committed, its terminal event written, unregistered.
Phases == {"none", "spawned", "registered", "loaded", "committed", "reported", "ended"}

Events == {"succeeded", "failed", "cancelled", "rejected"}
Calls == Events \cup {"start failed", "finished", "delete"}

SessionInit ==
    /\ proc = [j \in Jobs |-> "none"] /\ os = [j \in Jobs |-> "none"]
    /\ stdin = [j \in Jobs |-> <<>>] /\ stdout = [j \in Jobs |-> <<>>]
    /\ phase = [j \in Jobs |-> "none"]
    /\ closed = {} /\ pending = {} /\ timers = {} /\ tokens = {}
    /\ posted = <<>> /\ busy = FALSE

Running(j) == proc[j] \in {"starting", "running"}

\* Calls to the handlers of j, in the order of the events es.
Posts(j, es) == [i \in 1 .. Len(es) |-> [job |-> j, call |-> es[i]]]

\* A process in the state s after kill().
Killed(s) == IF s = "up" THEN "dead" ELSE s

-----------------------------------------------------------------------------
(* What the owner calls.  The operators say how the session's own variables *)
(* change; the owner posts calls and says when the loop is busy.            *)

\* No pipes, no worker, no timers for the jobs gone, whose processes are in state.
Afresh(gone, state) ==
    /\ os' = [j \in Jobs |-> IF j \in gone THEN state ELSE os[j]]
    /\ stdin' = [j \in Jobs |-> IF j \in gone THEN <<>> ELSE stdin[j]]
    /\ stdout' = [j \in Jobs |-> IF j \in gone THEN <<>> ELSE stdout[j]]
    /\ phase' = [j \in Jobs |-> IF j \in gone THEN "none" ELSE phase[j]]
    /\ closed' = closed \ gone /\ pending' = pending \ gone
    /\ timers' = timers \ gone /\ tokens' = tokens \ gone

\* A new session and start(): whether the process can be executed shows later.
Start(j) ==
    /\ proc' = [proc EXCEPT ![j] = "starting"]
    /\ \E s \in {"up"} \cup (IF "launch" \in Failures THEN {"failed"} ELSE {}) : Afresh({j}, s)

\* A bug: nothing kills a worker that does not answer.
CancelWithoutTimer(j) ==
    /\ IF Running(j) /\ j \notin pending /\ j \notin closed
       THEN stdin' = [stdin EXCEPT ![j] = Append(@, "cancel")] /\ pending' = pending \cup {j}
       ELSE UNCHANGED <<stdin, pending>>
    /\ UNCHANGED <<proc, closed, timers, worker, os, stdout>>

\* cancel(): a CancelJob frame and a timer, or the kill if the channel is closed.
Cancel(j) ==
    /\ IF Running(j) /\ j \notin pending /\ j \notin closed
       THEN /\ stdin' = [stdin EXCEPT ![j] = Append(@, "cancel")]
            /\ pending' = pending \cup {j} /\ timers' = timers \cup {j}
       ELSE UNCHANGED <<stdin, pending, timers>>
    /\ os' = IF Running(j) /\ j \notin pending /\ j \in closed
             THEN [os EXCEPT ![j] = Killed(@)] ELSE os
    /\ UNCHANGED <<proc, closed, worker, stdout>>

\* The destructor: cancel(), a wait, and the kill in QProcess's destructor.
\* Posted calls go with the object.
Delete(j) ==
    /\ proc' = [proc EXCEPT ![j] = "deleted"]
    /\ Afresh({j}, "none")

-----------------------------------------------------------------------------
(* What a session notices, when the event loop has nothing to deliver. *)

\* onStarted(): the start frame goes out, behind a cancellation if there is one.
OnStarted(j) ==
    /\ ~busy /\ proc[j] = "starting" /\ os[j] # "failed"
    /\ proc' = [proc EXCEPT ![j] = "running"]
    /\ stdin' = [stdin EXCEPT ![j] = Append(@, "start")]
    /\ UNCHANGED <<closed, pending, timers, worker, loop, os, stdout>>

\* What onReadyRead() does with the events es: any of them is terminal.
ReadEvents(j, es, channelOpen) ==
    /\ stdout' = [stdout EXCEPT ![j] = <<>>]
    /\ pending' = IF es = <<>> THEN pending ELSE pending \ {j}
    /\ closed' = IF es # <<>> /\ channelOpen THEN closed \cup {j} ELSE closed

OnReadyRead(j) ==
    /\ ~busy /\ proc[j] = "running" /\ stdout[j] # <<>>
    /\ ReadEvents(j, stdout[j], TRUE)
    /\ posted' = posted \o Posts(j, stdout[j])
    /\ UNCHANGED <<proc, timers, worker, busy, os, stdin>>

\* onFinished(): what the process has left is read first.
OnFinished(j) ==
    /\ ~busy /\ proc[j] = "running" /\ os[j] = "dead"
    /\ ReadEvents(j, stdout[j], FALSE)
    /\ posted' = posted \o Posts(j, Append(stdout[j], "finished"))
    /\ proc' = [proc EXCEPT ![j] = "over"]
    /\ UNCHANGED <<timers, worker, busy, os, stdin>>

\* A bug: a process that cannot be executed is taken for one that is slow to start.
OnErrorOccurredIgnored(j) ==
    /\ ~busy /\ proc[j] = "starting" /\ os[j] = "failed"
    /\ UNCHANGED sessionVars

\* onErrorOccurred() for a process that could not be executed.
OnErrorOccurred(j) ==
    /\ ~busy /\ proc[j] = "starting" /\ os[j] = "failed"
    /\ posted' = posted \o Posts(j, <<"start failed", "finished">>)
    /\ proc' = [proc EXCEPT ![j] = "over"]
    /\ UNCHANGED <<closed, pending, timers, worker, busy, os, stdin, stdout>>

\* The timer of cancel(): it kills whatever still awaits the cancellation.
OnTimer(j) ==
    /\ ~busy /\ j \in timers
    /\ timers' = timers \ {j}
    /\ os' = IF Running(j) /\ j \in pending THEN [os EXCEPT ![j] = Killed(@)] ELSE os
    /\ UNCHANGED <<proc, closed, pending, worker, loop, stdin, stdout>>

SessionStep(j) ==
    OnStarted(j) \/ OnReadyRead(j) \/ OnFinished(j) \/ OnErrorOccurred(j) \/ OnTimer(j)

-----------------------------------------------------------------------------
(* The worker: a thread that reads frames and one that does the job. *)

\* The registry knows a job from begin() to finish().
Registered(j) == phase[j] \in {"registered", "loaded", "committed", "reported"}

ReadStart(j) ==
    /\ os[j] = "up" /\ stdin[j] # <<>> /\ Head(stdin[j]) = "start"
    /\ stdin' = [stdin EXCEPT ![j] = Tail(@)]
    /\ phase' = [phase EXCEPT ![j] = "spawned"]
    /\ UNCHANGED <<gui, tokens, loop, os, stdout>>

\* handle_cancel_job(): a job that is not registered is none it knows.
ReadCancel(j) ==
    /\ os[j] = "up" /\ stdin[j] # <<>> /\ Head(stdin[j]) = "cancel"
    /\ stdin' = [stdin EXCEPT ![j] = Tail(@)]
    /\ IF Registered(j)
       THEN tokens' = tokens \cup {j} /\ UNCHANGED stdout
       ELSE stdout' = [stdout EXCEPT ![j] = Append(@, "rejected")] /\ UNCHANGED tokens
    /\ UNCHANGED <<gui, phase, loop, os>>

\* The main loop ends with its input and joins the job's thread.
Exit(j) ==
    /\ os[j] = "up" /\ stdin[j] = <<>> /\ j \in closed /\ phase[j] \in {"none", "ended"}
    /\ os' = [os EXCEPT ![j] = "dead"]
    /\ UNCHANGED <<gui, worker, loop, stdin, stdout>>

\* begin(), and later finish() after the terminal event.
Register(j) ==
    /\ os[j] = "up" /\ phase[j] = "spawned"
    /\ phase' = [phase EXCEPT ![j] = "registered"]
    /\ UNCHANGED <<gui, tokens, loop, os, stdin, stdout>>

Unregister(j) ==
    /\ os[j] = "up" /\ phase[j] = "reported"
    /\ phase' = [phase EXCEPT ![j] = "ended"]
    /\ UNCHANGED <<gui, tokens, loop, os, stdin, stdout>>

\* The job reads its input, and fails if it cannot.
Load(j, readable) ==
    /\ os[j] = "up" /\ phase[j] = "registered"
    /\ IF readable
       THEN phase' = [phase EXCEPT ![j] = "loaded"] /\ UNCHANGED stdout
       ELSE /\ phase' = [phase EXCEPT ![j] = "reported"]
            /\ stdout' = [stdout EXCEPT ![j] = Append(@, "failed")]
    /\ UNCHANGED <<gui, tokens, loop, os, stdin>>

\* The output replaces the destination.  The token was looked at before.
Commit(j) ==
    /\ os[j] = "up" /\ phase[j] = "loaded"
    /\ phase' = [phase EXCEPT ![j] = "committed"]
    /\ UNCHANGED <<gui, tokens, loop, os, stdin, stdout>>

\* The terminal event of the job.
Report(j, e) ==
    /\ os[j] = "up"
    /\ \/ e = "succeeded" /\ phase[j] = "committed"
       \/ e = "failed" /\ phase[j] = "loaded" /\ "job" \in Failures
       \/ e = "cancelled" /\ phase[j] = "loaded" /\ j \in tokens
    /\ phase' = [phase EXCEPT ![j] = "reported"]
    /\ stdout' = [stdout EXCEPT ![j] = Append(@, e)]
    /\ UNCHANGED <<gui, tokens, loop, os, stdin>>

\* A worker dies: a crash, or a kill from outside.
Die(j) ==
    /\ "crash" \in Failures /\ os[j] = "up"
    /\ os' = [os EXCEPT ![j] = "dead"]
    /\ UNCHANGED <<gui, worker, loop, stdin, stdout>>

\* The steps a worker takes by itself.
WorkerStep(j) ==
    \/ ReadStart(j) \/ ReadCancel(j) \/ Exit(j)
    \/ Register(j) \/ Unregister(j)
    \/ Report(j, "succeeded") \/ Report(j, "cancelled")

-----------------------------------------------------------------------------

SessionTypeOK ==
    /\ proc \in [Jobs -> {"none", "starting", "running", "over", "deleted"}]
    /\ os \in [Jobs -> {"none", "up", "dead", "failed"}]
    /\ stdin \in [Jobs -> Seq({"start", "cancel"})]
    /\ phase \in [Jobs -> Phases]
    /\ stdout \in [Jobs -> Seq(Events)]
    /\ closed \subseteq Jobs /\ pending \subseteq Jobs /\ timers \subseteq Jobs
    /\ tokens \subseteq Jobs
    /\ posted \in Seq([job : Jobs, call : Calls])
    /\ busy \in BOOLEAN

=============================================================================
