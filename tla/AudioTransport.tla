--------------------------- MODULE AudioTransport ---------------------------
(***************************************************************************)
(* The realtime audio transport: AsyncRealtimeAudioPlayback                *)
(* (src/src/audio_engine/src/async_realtime_playback.cpp) over             *)
(* RealtimeAudioPlayback (realtime_playback.cpp) and its SpscAudioRing.    *)
(*                                                                         *)
(* Four kinds of threads meet here.  Producers (the desktop) enqueue       *)
(* intents under queue_mutex; the control thread takes the newest and runs *)
(* the synchronous controller, a call of which is several steps with waits *)
(* between them; the pre-render worker asks the provider for blocks and    *)
(* writes them to the ring; callbacks of the device, or of a host without  *)
(* one, read the ring.  A producer that supersedes a running intent raises *)
(* a flag and then stops the worker's token, still holding queue_mutex.    *)
(*                                                                         *)
(* A position is the version of the command that asked for it, and 0 the   *)
(* start; playing does not change it.  The ring is the number of blocks    *)
(* in it.  The provider and the device may fail at each call.              *)
(***************************************************************************)
EXTENDS Naturals, FiniteSets

CONSTANTS
    Callbacks,   \* threads that call render_callback()
    Capacity,    \* blocks in the ring (ring_capacity_frames)
    Prefill,     \* blocks before playback starts (prefill_frames)
    MaxVersion,  \* bound on the requests
    None         \* no command

ASSUME CapacityAssumption == Capacity \in Nat \ {0}
ASSUME PrefillAssumption == Prefill \in 0 .. Capacity
ASSUME MaxVersionAssumption == MaxVersion \in Nat
ASSUME CallbacksAssumption == IsFiniteSet(Callbacks)

VARIABLES
    next,       \* next_version
    pending,    \* the only element of commands, or None
    active,     \* active_command, or None
    canceller,  \* what the producer that holds queue_mutex has to do yet
    requested,  \* requested_state
    effective,  \* effective_state
    latest,     \* latest_requested_version
    completed,  \* latest_completed_version
    published,  \* latest_published_version
    reported,   \* latest_result_version
    status,     \* latest_status
    shutting,   \* shutting_down
    pc,         \* where the control thread is
    op,         \* the call of the controller it is in
    resumes,    \* resume() follows the call
    result,     \* what the call has come to, or "none"
    state,      \* the state of the controller
    gate,       \* callbacks_allowed
    callback,   \* where each callback is
    ring,       \* blocks in the ring
    worker,     \* where the worker is; "none" when it is not joinable
    token,      \* worker_cancellation
    exhausted,  \* provider_exhausted
    failed,     \* worker_failed
    flag,       \* external_cancellation_requested
    device,     \* the output device; "absent" in a host without one
    origin,     \* playback_origin_sample, the position of the epoch
    wanted      \* history: the position asked for last and not given up

intents == <<next, pending, requested, latest, reported, status, wanted>>
answers == <<effective, completed, published>>
command == <<active, answers>>
call == <<op, resumes, result>>
producing == <<worker, exhausted, failed>>
transport == <<state, gate, device, origin>>
vars == <<intents, command, canceller, shutting, pc, call, transport,
          callback, ring, producing, token, flag>>

Kinds == {"start", "pause", "resume", "seek", "stop"}
States == {"stopped", "starting", "playing", "paused", "failed"}
Versions == 0 .. MaxVersion
Command == [kind : Kinds, version : Versions, sample : Versions,
            target : States, reposition : BOOLEAN]
Steps == {"idle", "execute", "begin", "drain", "join", "settle", "reset", "spawn", "check",
          "prefill", "go", "device", "publish", "ended"}

ASSUME NoneAssumption == None \notin Command \cup Versions

TypeOK ==
    /\ next \in 1 .. MaxVersion + 1
    /\ pending \in Command \cup {None} /\ active \in Command \cup {None}
    /\ canceller \in {"none", "result", "flag", "token"}
    /\ requested \in States /\ effective \in States
    /\ latest \in Versions /\ reported \in Versions /\ completed \in Versions /\ published \in Versions
    /\ status \in {"pending", "succeeded", "failed"}
    /\ shutting \in BOOLEAN
    /\ pc \in Steps /\ op \in {"start", "pause", "resume", "seek", "prepare", "stop"}
    /\ resumes \in BOOLEAN /\ result \in {"none", "ok", "cancelled", "failed"}
    /\ state \in States /\ gate \in BOOLEAN
    /\ callback \in [Callbacks -> {"out", "checked", "entered", "reading"}]
    /\ ring \in 0 .. Capacity
    /\ worker \in {"none", "loop", "rendering", "writing", "done"}
    /\ token \in {"none", "live", "stopped"}
    /\ exhausted \in BOOLEAN /\ failed \in BOOLEAN /\ flag \in BOOLEAN
    /\ device \in {"absent", "closed", "open", "running"}
    /\ origin \in Versions /\ wanted \in Versions \cup {None}

Init ==
    /\ next = 1 /\ pending = None /\ active = None /\ canceller = "none"
    /\ requested = "stopped" /\ effective = "stopped"
    /\ latest = 0 /\ reported = 0 /\ completed = 0 /\ published = 0
    /\ status = "succeeded" /\ shutting = FALSE
    /\ pc = "idle" /\ op = "stop" /\ resumes = FALSE /\ result = "none"
    /\ state = "stopped" /\ gate = FALSE
    /\ callback = [c \in Callbacks |-> "out"]
    /\ ring = 0 /\ worker = "none" /\ token = "none"
    /\ exhausted = FALSE /\ failed = FALSE /\ flag = FALSE
    /\ device \in {"absent", "closed"} /\ origin = 0 /\ wanted = None

-----------------------------------------------------------------------------
(* The producers. *)

\* is_cancellable_control(), on the active command.
Cancellable(c) == c # None /\ c.kind \in {"start", "seek", "resume"}

\* requested_state_for().
RequestedStateFor(kind, current) ==
    CASE kind \in {"start", "resume"} -> "playing"
      [] kind = "pause" -> "paused"
      [] kind = "seek" -> current
      [] kind = "stop" -> "stopped"

\* A bug: only the active intent hands on its position.
PositionFromActive(kind) ==
    IF kind \in {"start", "seek"} THEN <<next, TRUE>>
    ELSE IF kind # "stop" /\ Cancellable(active) /\ active.reposition
    THEN <<active.sample, TRUE>>
    ELSE <<origin, FALSE>>

\* The position that a new intent carries, and whether it is explicit: its
\* own, or that of the intent it supersedes.
PositionOf(kind) ==
    IF kind \in {"start", "seek"} THEN <<next, TRUE>>
    ELSE IF kind = "stop" THEN <<0, FALSE>>
    ELSE IF pending # None /\ pending.reposition THEN <<pending.sample, TRUE>>
    ELSE IF Cancellable(active) /\ active.reposition THEN <<active.sample, TRUE>>
    ELSE <<origin, FALSE>>

\* enqueue(): the newest intent supersedes the pending one.  queue_mutex is held
\* until the result is marked and the active command cancelled, but diagnostics()
\* does not take it: it can look in between.
Enqueue(kind) ==
    /\ next <= MaxVersion /\ ~shutting /\ canceller = "none"
    /\ next' = next + 1
    /\ LET target == RequestedStateFor(kind, requested)
           position == PositionOf(kind)
       IN /\ pending' = [kind |-> kind, version |-> next, sample |-> position[1],
                         target |-> target, reposition |-> position[2]]
          /\ requested' = target
    /\ latest' = next
    /\ wanted' = CASE kind \in {"start", "seek"} -> next
                   [] kind = "stop" -> None
                   [] OTHER -> wanted
    /\ canceller' = "result"
    /\ UNCHANGED <<reported, status, command, shutting, pc, call, transport, callback, ring,
                   producing, token, flag>>

\* enqueue(), under result_mutex: the result is that of the new intent, and
\* pending; the producer goes on to cancel an active command that can be.
MarkPending ==
    /\ canceller = "result"
    /\ reported' = latest /\ status' = "pending"
    /\ canceller' = IF Cancellable(active) THEN "flag" ELSE "none"
    /\ UNCHANGED <<next, pending, requested, latest, wanted, command, shutting, pc, call,
                   transport, callback, ring, producing, token, flag>>

\* reject(): a negative sample, or an intent during the shutdown; only the
\* version is used up.
Reject ==
    /\ next <= MaxVersion /\ canceller = "none"
    /\ next' = next + 1
    /\ UNCHANGED <<pending, requested, latest, reported, status, wanted, command, canceller,
                   shutting, pc, call, transport, callback, ring, producing, token, flag>>

\* request_control_cancellation(): the flag, and then the token.
RaiseFlag ==
    /\ canceller = "flag"
    /\ canceller' = "token" /\ flag' = TRUE
    /\ UNCHANGED <<intents, command, shutting, pc, call, transport, callback, ring, producing, token>>

StopToken ==
    /\ canceller = "token"
    /\ canceller' = "none"
    /\ token' = IF token = "live" THEN "stopped" ELSE token
    /\ UNCHANGED <<intents, command, shutting, pc, call, transport, callback, ring, producing, flag>>

\* ~Impl(), up to the join of the control thread.
Shutdown ==
    /\ ~shutting /\ canceller = "none"
    /\ shutting' = TRUE /\ pending' = None /\ canceller' = "flag"
    /\ UNCHANGED <<next, requested, latest, reported, status, wanted, command, pc, call,
                   transport, callback, ring, producing, token, flag>>

-----------------------------------------------------------------------------
(* The control thread: taking, starting and publishing a command. *)

\* control_loop(): the flag is cleared and the command becomes the active one
\* under one hold of queue_mutex.
Dequeue ==
    /\ pc = "idle" /\ canceller = "none" /\ pending # None /\ ~shutting
    /\ flag' = FALSE
    /\ active' = pending /\ pending' = None /\ pc' = "execute"
    /\ UNCHANGED <<next, requested, latest, reported, status, wanted, answers, canceller, shutting,
                   call, transport, callback, ring, producing, token>>

\* control_loop(), after the loop: the controller is stopped.
Leave ==
    /\ pc = "idle" /\ canceller = "none" /\ shutting
    /\ flag' = FALSE
    /\ op' = "stop" /\ resumes' = FALSE /\ pc' = "begin"
    /\ UNCHANGED <<intents, command, canceller, shutting, result, transport, callback, ring,
                   producing, token>>

\* execute(): the call of the controller that reconciles state s with the
\* command c, and whether resume() follows it; or the result at once.
Plan(c, s) ==
    CASE c.kind = "start" ->
           IF s = "playing" THEN <<"seek", FALSE>>
           ELSE IF s = "stopped" THEN <<"start", FALSE>> ELSE <<"prepare", TRUE>>
      [] c.kind = "pause" ->
           IF c.reposition THEN <<"prepare", FALSE>>
           ELSE IF s = "paused" THEN <<"ok">>
           ELSE IF s = "playing" THEN <<"pause", FALSE>> ELSE <<"prepare", FALSE>>
      [] c.kind = "resume" ->
           IF s = "playing" /\ ~c.reposition THEN <<"ok">>
           ELSE IF c.reposition \/ s \in {"stopped", "failed"} THEN <<"prepare", TRUE>>
           ELSE <<"resume", FALSE>>
      [] c.kind = "seek" ->
           IF c.target = "paused" THEN <<"prepare", FALSE>>
           ELSE IF c.target # "playing" THEN <<"failed">>
           ELSE IF s = "playing" THEN <<"seek", FALSE>> ELSE <<"prepare", TRUE>>
      [] c.kind = "stop" -> <<"stop", FALSE>>

\* A bug: the flag is cleared when the command starts to execute.
ExecuteCleared ==
    /\ pc = "execute"
    /\ LET plan == Plan(active, state)
       IN IF plan[1] \in {"ok", "failed"}
          THEN /\ result' = plan[1] /\ pc' = "publish" /\ UNCHANGED <<op, resumes>>
          ELSE /\ op' = plan[1] /\ resumes' = plan[2] /\ pc' = "begin" /\ UNCHANGED result
    /\ flag' = FALSE
    /\ UNCHANGED <<intents, command, canceller, shutting, transport, callback, ring, producing,
                   token>>

Execute ==
    /\ pc = "execute"
    /\ LET plan == Plan(active, state)
       IN IF plan[1] \in {"ok", "failed"}
          THEN /\ result' = plan[1] /\ pc' = "publish" /\ UNCHANGED <<op, resumes>>
          ELSE /\ op' = plan[1] /\ resumes' = plan[2] /\ pc' = "begin" /\ UNCHANGED result
    /\ UNCHANGED <<intents, command, canceller, shutting, transport, callback, ring, producing,
                   token, flag>>

\* The position asked for last is one that a command c, now failed, went for.
GivenUp(c) == wanted # None /\ wanted <= c.version

\* A bug: a superseded command publishes its state, too.
PublishAlways ==
    /\ pc = "publish" /\ canceller = "none"
    /\ active' = None /\ completed' = active.version
    /\ effective' = IF result = "ok" THEN active.target ELSE state
    /\ published' = active.version
    /\ status' = IF result = "ok" THEN "succeeded" ELSE "failed"
    /\ wanted' = IF result = "failed" /\ GivenUp(active) THEN None ELSE wanted
    /\ result' = "none" /\ pc' = "idle"
    /\ UNCHANGED <<next, pending, requested, latest, reported, canceller, shutting, op, resumes,
                   transport, callback, ring, producing, token, flag>>

\* publish_completion(): the state and the status only of the newest intent.
Publish ==
    /\ pc = "publish" /\ canceller = "none"
    /\ active' = None /\ completed' = active.version
    /\ IF latest = active.version /\ reported = active.version
       THEN /\ effective' = IF result = "ok" THEN active.target ELSE state
            /\ published' = active.version
            /\ status' = IF result = "ok" THEN "succeeded" ELSE "failed"
       ELSE UNCHANGED <<effective, published, status>>
    /\ wanted' = IF result = "failed" /\ GivenUp(active) THEN None ELSE wanted
    /\ result' = "none" /\ pc' = "idle"
    /\ UNCHANGED <<next, pending, requested, latest, reported, canceller, shutting, op, resumes,
                   transport, callback, ring, producing, token, flag>>

-----------------------------------------------------------------------------
(* The control thread: the calls of the controller. *)

Stopped(d) == IF d = "running" THEN "open" ELSE d
Closed(d) == IF d = "absent" THEN d ELSE "closed"

\* The first step of a call: it fails in a state it does not expect, and
\* otherwise stops the callbacks, or goes on to start the worker.  seek() finds
\* the controller playing, or failed since execute() looked; prepare_paused()
\* closes a failed device.
Begin ==
    /\ pc = "begin"
    /\ CASE op = "start" ->
              \/ pc' = "reset" /\ device' = (IF device = "absent" THEN device ELSE "open")
                 /\ UNCHANGED <<result, state, gate>>
              \/ device # "absent" /\ result' = "failed" /\ pc' = "publish"
                 /\ UNCHANGED <<device, state, gate>>
         [] op = "resume" ->
              pc' = "spawn" /\ UNCHANGED <<result, state, gate, device>>
         [] op \in {"pause", "seek"} /\ state # "playing" ->
              result' = "failed" /\ pc' = "publish" /\ UNCHANGED <<state, gate, device>>
         [] OTHER ->
              /\ state' = (IF op = "stop" THEN "stopped" ELSE "paused")
              /\ gate' = FALSE
              /\ device' = (IF state = "failed" THEN Closed(device) ELSE Stopped(device))
              /\ pc' = "drain" /\ UNCHANGED result
    /\ UNCHANGED <<intents, command, canceller, shutting, op, resumes, origin, callback, ring,
                   producing, token, flag>>

\* active_callbacks.
Inside == {c \in Callbacks : callback[c] \in {"entered", "reading"}}

\* disable_callbacks_and_wait(), and the request to stop in stop_worker().
Drain ==
    /\ pc = "drain" /\ Inside = {} /\ pc' = "join"
    /\ token' = IF token = "live" THEN "stopped" ELSE token
    /\ UNCHANGED <<intents, command, canceller, shutting, call, transport, callback, ring,
                   producing, flag>>

\* The join of stop_worker().
Join ==
    /\ pc = "join" /\ worker \in {"none", "done"}
    /\ worker' = "none" /\ token' = "none" /\ pc' = "settle"
    /\ UNCHANGED <<intents, command, canceller, shutting, call, transport, callback, ring,
                   exhausted, failed, flag>>

\* What a call does once no callback and no worker runs: after a failure it
\* leaves the controller paused or failed; pause() ends; stop() closes the
\* device; prepare_paused() opens one that is closed.
Settle ==
    /\ pc = "settle"
    /\ CASE result = "cancelled" ->
              state' = "paused" /\ pc' = "publish" /\ UNCHANGED <<device, result>>
         [] result = "failed" ->
              /\ state' = (IF op = "resume" THEN state ELSE "failed")
              /\ device' = (IF op = "start" THEN Closed(device) ELSE device)
              /\ pc' = "publish" /\ UNCHANGED result
         [] result = "none" /\ op = "pause" ->
              /\ state' = (IF failed THEN "failed" ELSE state)
              /\ result' = (IF failed THEN "failed" ELSE "ok")
              /\ pc' = "publish" /\ UNCHANGED device
         [] result = "none" /\ op = "stop" ->
              device' = Closed(device) /\ pc' = "reset" /\ UNCHANGED <<state, result>>
         [] result = "none" /\ op = "prepare" /\ device = "closed" ->
              \/ device' = "open" /\ pc' = "reset" /\ UNCHANGED <<state, result>>
              \/ state' = "failed" /\ result' = "failed" /\ pc' = "publish" /\ UNCHANGED device
         [] OTHER -> pc' = "reset" /\ UNCHANGED <<state, device, result>>
    /\ UNCHANGED <<intents, command, canceller, shutting, op, resumes, gate, origin, callback,
                   ring, producing, token, flag>>

\* reset_epoch(), and the state that the call stores next; in stop() the same
\* stores at position 0.  The last stop(), of the destructor, ends the thread.
Reset ==
    /\ pc = "reset"
    /\ ring' = 0 /\ exhausted' = FALSE /\ failed' = FALSE
    /\ origin' = IF op = "stop" THEN 0 ELSE active.sample
    /\ state' = CASE op \in {"start", "seek"} -> "starting" [] OTHER -> state
    /\ IF op = "prepare" /\ resumes
       THEN op' = "resume" /\ pc' = "begin" /\ UNCHANGED result
       ELSE /\ op' = op
            /\ result' = IF op \in {"start", "seek"} \/ active = None THEN result ELSE "ok"
            /\ pc' = IF active = None THEN "ended"
                     ELSE IF op \in {"start", "seek"} THEN "spawn" ELSE "publish"
    /\ effective' = IF active = None THEN "stopped" ELSE effective
    /\ UNCHANGED <<intents, active, completed, published, canceller, shutting, resumes, gate,
                   device, callback, worker, token, flag>>

\* start_worker(): the token is published before the flag is looked at, so a
\* cancellation in between stops the token or is seen.
Spawn ==
    /\ pc = "spawn"
    /\ IF exhausted THEN pc' = "prefill" /\ UNCHANGED token
       ELSE pc' = "check" /\ token' = "live"
    /\ UNCHANGED <<intents, command, canceller, shutting, call, transport, callback, ring,
                   producing, flag>>

Check ==
    /\ pc = "check"
    /\ token' = IF flag THEN "stopped" ELSE token
    /\ worker' = "loop" /\ pc' = "prefill"
    /\ UNCHANGED <<intents, command, canceller, shutting, call, transport, callback, ring,
                   exhausted, failed, flag>>

\* wait_for_prefill(): a cancellation first; then enough blocks, or the end of
\* the stream, or a failure of the worker, or prefill_timeout.
PrefillOutcomes(r) ==
    \/ r = "cancelled" /\ flag
    \/ r = "go" /\ ~flag /\ (ring >= Prefill \/ exhausted)
    \/ r = "failed" /\ ~flag /\ (failed \/ (ring < Prefill /\ ~exhausted))

\* After a failure the worker is stopped, and joined by Join.
AwaitPrefill ==
    /\ pc = "prefill"
    /\ \E r \in {"cancelled", "go", "failed"} :
          /\ PrefillOutcomes(r)
          /\ IF r = "go" THEN pc' = "go" /\ UNCHANGED <<result, token>>
             ELSE /\ result' = r /\ pc' = "join"
                  /\ token' = IF token = "live" THEN "stopped" ELSE token
    /\ UNCHANGED <<intents, command, canceller, shutting, op, resumes, transport, callback, ring,
                   producing, flag>>

\* The state becomes Playing and the callbacks are let in.
Go ==
    /\ pc = "go"
    /\ state' = "playing" /\ gate' = TRUE /\ pc' = "device"
    /\ UNCHANGED <<intents, command, canceller, shutting, call, device, origin, callback, ring,
                   producing, token, flag>>

\* start_device(), and what a failure of it undoes.
StartDevice ==
    /\ pc = "device"
    /\ \/ /\ device' = (IF device = "absent" THEN device ELSE "running")
          /\ result' = "ok" /\ pc' = "publish" /\ UNCHANGED <<state, gate>>
       \/ /\ device # "absent"
          /\ state' = "failed" /\ gate' = FALSE
          /\ result' = "failed" /\ pc' = "drain" /\ UNCHANGED device
    /\ UNCHANGED <<intents, command, canceller, shutting, op, resumes, origin, callback, ring,
                   producing, token, flag>>

-----------------------------------------------------------------------------
(* The worker and the callbacks. *)

\* worker_main(), the head of the loop: out, or a request to the provider.
WorkerLoops ==
    /\ worker = "loop"
    /\ IF token = "stopped" \/ exhausted THEN worker' = "done"
       ELSE ring < Capacity /\ worker' = "rendering"
    /\ UNCHANGED <<intents, command, canceller, shutting, pc, call, transport, callback, ring,
                   exhausted, failed, token, flag>>

\* fail_worker().
FailWorker ==
    /\ failed' = TRUE /\ worker' = "done"
    /\ state' = IF state \in {"playing", "starting"} THEN "failed" ELSE state

\* The provider answers or throws.  An answer after the token was stopped is
\* dropped; an exception always fails the worker.
ProviderReturns ==
    /\ worker = "rendering"
    /\ \/ FailWorker /\ UNCHANGED exhausted
       \/ token = "stopped" /\ worker' = "done" /\ UNCHANGED <<exhausted, failed, state>>
       \/ token # "stopped" /\ worker' = "done" /\ exhausted' = TRUE /\ UNCHANGED <<failed, state>>
       \/ token # "stopped" /\ worker' = "writing" /\ UNCHANGED <<exhausted, failed, state>>
    /\ UNCHANGED <<intents, command, canceller, shutting, pc, call, gate, device, origin, callback,
                   ring, token, flag>>

\* SpscAudioRing::write() of the block.
WorkerWrites ==
    /\ worker = "writing"
    /\ ring' = ring + 1 /\ worker' = "loop"
    /\ UNCHANGED <<intents, command, canceller, shutting, pc, call, transport, callback,
                   exhausted, failed, token, flag>>

Admitted == gate /\ state = "playing"

\* render_callback(), up to the first look at the gate.
CallbackChecks(c) ==
    /\ callback[c] = "out" /\ Admitted /\ device \in {"absent", "running"}
    /\ callback' = [callback EXCEPT ![c] = "checked"]
    /\ UNCHANGED <<intents, command, canceller, shutting, pc, call, transport, ring, producing,
                   token, flag>>

\* active_callbacks is incremented.
CallbackEnters(c) ==
    /\ callback[c] = "checked"
    /\ callback' = [callback EXCEPT ![c] = "entered"]
    /\ UNCHANGED <<intents, command, canceller, shutting, pc, call, transport, ring, producing,
                   token, flag>>

\* A bug: the gate is not looked at again.
ReadsUnchecked(c) == \A d \in Callbacks : callback[d] # "reading"

\* The second look, and consumer_active: one callback reads at a time.
Reads(c) == Admitted /\ \A d \in Callbacks : callback[d] # "reading"

\* A bug: a callback that is refused still counts as inside.
CallbackStaysIn(c) ==
    /\ callback[c] = "entered"
    /\ callback' = [callback EXCEPT ![c] = IF Reads(c) THEN "reading" ELSE "entered"]
    /\ UNCHANGED <<intents, command, canceller, shutting, pc, call, transport, ring, producing,
                   token, flag>>

CallbackRechecks(c) ==
    /\ callback[c] = "entered"
    /\ callback' = [callback EXCEPT ![c] = IF Reads(c) THEN "reading" ELSE "out"]
    /\ UNCHANGED <<intents, command, canceller, shutting, pc, call, transport, ring, producing,
                   token, flag>>

\* SpscAudioRing::read(); without a block the output stays silent.
CallbackReads(c) ==
    /\ callback[c] = "reading"
    /\ ring' = IF ring > 0 THEN ring - 1 ELSE 0
    /\ callback' = [callback EXCEPT ![c] = "out"]
    /\ UNCHANGED <<intents, command, canceller, shutting, pc, call, transport, producing, token,
                   flag>>

-----------------------------------------------------------------------------
Producer == (\E kind \in Kinds : Enqueue(kind)) \/ Reject \/ Shutdown
Cancel == MarkPending \/ RaiseFlag \/ StopToken
Control == \/ Dequeue \/ Leave \/ Execute \/ Publish \/ Begin \/ Drain \/ Join \/ Settle
           \/ Reset \/ Spawn \/ Check \/ AwaitPrefill \/ Go \/ StartDevice
Worker == WorkerLoops \/ ProviderReturns \/ WorkerWrites
Finish(c) == CallbackEnters(c) \/ CallbackRechecks(c) \/ CallbackReads(c)

Next == \/ Producer \/ Cancel \/ Control \/ Worker
        \/ \E c \in Callbacks : CallbackChecks(c) \/ Finish(c)

\* The threads run: a producer that holds the mutex lets go of it, the provider
\* answers (its contract), an admitted callback ends.  Nobody has to ask.
Fairness ==
    /\ WF_vars(Cancel) /\ WF_vars(Control) /\ WF_vars(Worker)
    /\ \A c \in Callbacks : WF_vars(Finish(c))

Spec == Init /\ [][Next]_vars /\ Fairness

-----------------------------------------------------------------------------
(* Safety. *)

\* The ring is reset only when nothing uses it, and has one reader: while
\* reset_epoch() or stop() zeroes its two cursors, no callback is between the
\* gate and the end of its read and no worker exists (realtime_playback.cpp:253).
RingIsExclusive ==
    /\ pc = "reset" => worker = "none" /\ \A c \in Callbacks : callback[c] # "reading"
    /\ \A c, d \in Callbacks : callback[c] = "reading" /\ callback[d] = "reading" => c = d

\* A cancellation hits the command it is meant for: the flag never interrupts
\* the newest intent, and a superseded Start, Seek or Resume never runs on
\* without it (async_realtime_playback.cpp:170, :285).
CancellationHitsItsTarget ==
    /\ active # None /\ result = "cancelled" => shutting \/ active.version < latest
    /\ Cancellable(active) /\ active.version < latest => flag \/ canceller \in {"result", "flag"}

\* A position asked for survives: when the newest intent has succeeded and no
\* Stop or failure came after the last Start or Seek, the epoch begins where
\* that one asked, whatever coalesced with it (async_realtime_playback.cpp:130).
PositionSurvives ==
    status = "succeeded" /\ reported = latest /\ ~shutting /\ wanted # None => origin = wanted

\* What diagnostics() pairs up under result_mutex belongs together: a Succeeded
\* is that of the version reported with it and published, the controller is in
\* the state that version reached, or its worker failed later, and the device
\* runs exactly in Playing.  A newer request can stand beside it, but only while
\* its producer is between storing it and marking it (async_realtime_playback.cpp:316).
SucceededIsReal ==
    status = "succeeded" /\ ~shutting =>
        /\ published = reported
        /\ state = effective \/ (failed /\ effective = "playing" /\ state = "failed")
        /\ device = "running" => effective = "playing"
        /\ effective = "playing" => device \in {"running", "absent"}
        /\ canceller # "result" => latest = reported /\ requested = effective

-----------------------------------------------------------------------------
(* Liveness. *)

\* Every intent accepted is answered, by its own completion or by that of the
\* one that superseded it, or the transport shuts down; and then the
\* destructor's join ends, with the control thread out of whatever it was doing
\* and the device stopped: nobody waits for ever
\* (async_realtime_playback.cpp:446, :72).
IntentsAnswered == \A v \in 1 .. MaxVersion : (latest >= v) ~> (completed >= v \/ shutting)
ShutdownEnds == shutting ~> (pc = "ended" /\ state = "stopped")
NobodyWaitsForEver == IntentsAnswered /\ ShutdownEnds

-----------------------------------------------------------------------------
(* What the documentation says and the code does not keep. *)

\* A worker keeps the ring pre-rendered: when the newest intent has succeeded
\* and the controller plays, a worker lives, unless the stream has ended
\* (docs/architecture/0010-realtime-audio-master-clock.md:21).
PlayingIsFed ==
    status = "succeeded" /\ ~shutting /\ state = "playing" =>
        exhausted \/ (worker \in {"loop", "rendering", "writing"} /\ token = "live")
=============================================================================
