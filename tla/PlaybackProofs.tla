--------------------------- MODULE PlaybackProofs ---------------------------
(***************************************************************************)
(* What playback guarantees for all values of the constants: first the     *)
(* sound (AudioTransport), for any number of callbacks and requests, any   *)
(* ring and any prefill: while the ring is reset nobody uses it, a         *)
(* cancellation hits the command it is meant for, a position asked for is  *)
(* not lost, and what is called succeeded has happened.  Then the picture  *)
(* (Previews), for any number of requests, assets and ways to start: no    *)
(* image that was asked for before the last seek or edit gets into the     *)
(* program viewer after it.                                                *)
(***************************************************************************)
EXTENDS AudioTransport, Previews, TLAPS

-----------------------------------------------------------------------------
(* The transport: the inductive invariant, in named parts. *)

\* What enqueue() makes of an intent: Start and Seek are explicit about their
\* position, Stop never is, and the target is the kind's.
WellFormed(c) ==
    /\ c.target \in {"playing", "paused", "stopped"}
    /\ c.kind \in {"start", "seek"} => c.reposition
    /\ c.kind = "stop" => ~c.reposition
    /\ c.kind \in {"start", "resume"} => c.target = "playing"
    /\ c.kind = "pause" => c.target = "paused"
    /\ c.kind = "stop" => c.target = "stopped"

\* The two commands there can be, in the order they were requested; an answer
\* to the newest leaves none.  While a producer has still to mark the result of
\* its intent, the result is that of an older one.
Queued ==
    /\ IF canceller = "result" THEN reported < latest /\ pending # None /\ ~shutting
       ELSE reported = latest
    /\ latest < next /\ requested \in {"playing", "paused", "stopped"}
    /\ pending # None =>
          WellFormed(pending) /\ pending.version = latest /\ pending.target = requested
    /\ active # None => WellFormed(active) /\ active.version <= latest
    /\ active # None /\ active.version = latest =>
          active.target = requested /\ pending = None
    /\ active # None /\ pending = None /\ ~shutting => active.version = latest
    /\ status # "pending" => active = None /\ (pending = None \/ canceller = "result")
    /\ status = "pending" /\ ~shutting => active # None \/ pending # None
    /\ wanted # None => wanted <= latest

\* A cancellation under way, the flag, and the command they are meant for.
Cancelling ==
    /\ canceller = "flag" => shutting \/ (Cancellable(active) /\ active.version < latest)
    /\ flag => shutting \/ active = None \/ active.version < latest
    /\ Cancellable(active) /\ active.version < latest => flag \/ canceller \in {"result", "flag"}
    /\ active # None /\ result = "cancelled" =>
          Cancellable(active) /\ (shutting \/ active.version < latest)

\* The call that reconciles the controller with the command c.
Serves(c) ==
    /\ op = "start" => c.kind = "start"
    /\ op = "seek" => c.kind \in {"start", "seek"} /\ c.target = "playing"
    /\ op = "resume" => c.kind \in {"start", "seek", "resume"} /\ c.target = "playing"
    /\ op = "prepare" /\ resumes => c.kind \in {"start", "seek", "resume"} /\ c.target = "playing"
    /\ op = "prepare" /\ ~resumes => c.kind \in {"pause", "seek"} /\ c.target = "paused"
    /\ op = "pause" => c.kind = "pause" /\ ~c.reposition
    /\ op = "stop" => c.kind = "stop"

Draining == {"drain", "join", "settle"}
Starting == {"spawn", "check", "prefill", "go", "device"}
Resting == {"idle", "execute", "begin", "publish"}

\* Where the control thread is, the command it serves, and what has come of it.
Controlled ==
    /\ pc = "idle" => active = None
    /\ pc \in {"execute", "publish"} \cup Starting => active # None
    /\ active = None => pc = "idle" \/ (shutting /\ (pc = "ended" \/ op = "stop"))
    /\ pc \in {"idle", "execute", "begin", "reset"} \cup Starting => result = "none"
    /\ pc \in Draining => result # "ok"
    /\ pc \in Draining /\ op \in {"start", "resume"} => result # "none"
    /\ pc \in Draining /\ op \in {"pause", "prepare", "stop"} => result = "none"
    /\ pc = "publish" => result # "none"
    /\ pc = "reset" => op \in {"start", "seek", "prepare", "stop"}
    /\ pc \in Starting => op \in {"start", "seek", "resume"}
    /\ pc \in {"begin", "reset"} \cup Draining \cup Starting /\ active # None => Serves(active)

\* While the gate is closed, and the callbacks inside are waited for, none reads.
Gated ==
    /\ pc \in {"reset", "spawn", "check", "prefill", "go"} \cup Draining => ~gate
    /\ pc = "begin" /\ op \in {"start", "resume"} => ~gate
    /\ gate => state \in {"playing", "failed"}
    /\ ~gate /\ pc # "drain" => \A c \in Callbacks : callback[c] # "reading"
    /\ \A c, d \in Callbacks : callback[c] = "reading" /\ callback[d] = "reading" => c = d

\* There is a worker only from its start to its join, and it has room for the
\* block it renders.
Worked ==
    /\ pc \in {"settle", "reset", "spawn", "check", "ended"} => worker = "none"
    /\ pc = "begin" /\ op \in {"start", "resume"} => worker = "none"
    /\ pc \in Resting /\ state \in {"stopped", "paused"} => worker = "none"
    /\ worker \in {"rendering", "writing"} => ring < Capacity

\* The state of the controller, step by step of a call.
Reached ==
    /\ pc \in Resting => state # "starting"
    /\ pc = "begin" /\ op = "start" => state = "stopped"
    /\ op = "resume" /\ pc \in {"begin", "spawn", "check", "prefill", "go"} => state = "paused"
    /\ op \in {"start", "seek"} /\ pc \in {"spawn", "check", "prefill", "go"}
          => state \in {"starting", "failed"}
    /\ pc \in Draining /\ result = "none" => state = (IF op = "stop" THEN "stopped" ELSE "paused")
    /\ pc \in Draining /\ op = "resume" => state \in {"paused", "failed"}
    /\ pc = "reset" => state = (IF op \in {"start", "stop"} THEN "stopped" ELSE "paused")
    /\ state = "playing" => pc \in Resting \cup {"device"}

\* The controller is where a command that has succeeded wanted it, or its worker
\* has failed since.
Arrived(target) ==
    \/ state = target
    \/ failed /\ target = "playing" /\ state = "failed"

\* The device runs in Playing, or where Playing has failed.
Sounding ==
    /\ device = "running" => pc \in Resting /\ state \in {"playing", "failed"}
    /\ state = "playing" /\ pc \in Resting => device \in {"absent", "running"}
    /\ pc = "device" => Arrived("playing")
    /\ pc = "publish" /\ result = "ok" =>
          /\ Arrived(active.target)
          /\ active.target = "playing" => device \in {"absent", "running"}

\* The intent that was accepted last and is not answered yet.
Newest == IF pending # None THEN pending ELSE active

\* The position asked for last is the one that the newest intent carries; or the
\* epoch is there, or will be when the command in front of it succeeds.  A
\* stale position does no harm to a command that finds the controller paused.
Carried ==
    IF Newest.reposition THEN Newest.sample = wanted
    ELSE IF active = None
    THEN origin = wanted /\ (pending.sample = wanted \/ state = "paused")
    ELSE /\ wanted <= active.version /\ active.kind # "stop"
         /\ IF active.reposition THEN active.kind = "pause" /\ active.sample = wanted
            ELSE /\ origin = wanted
                 /\ pending # None => pending.sample = wanted
                 /\ \/ active.sample = wanted
                    \/ pc = "execute" /\ state = "paused"
                    \/ pc = "publish"
                    \/ pc # "execute" /\ op # "prepare"

Placed ==
    /\ active # None /\ active.reposition
       /\ \/ pc \in Starting
          \/ pc = "begin" /\ op = "resume"
          \/ pc = "publish" /\ result = "ok"
       => origin = active.sample
    /\ wanted # None /\ ~shutting =>
          IF status = "pending" \/ canceller = "result"
          THEN Newest.kind # "stop" /\ Carried
          ELSE status = "succeeded" /\ origin = wanted

IInv == /\ TypeOK /\ Queued /\ Cancelling /\ Controlled /\ Gated /\ Worked
        /\ Reached /\ Sounding /\ Placed /\ SucceededIsReal

-----------------------------------------------------------------------------
(* The steps of the producers, the control thread, the worker and the      *)
(* callbacks preserve it.                                                  *)

USE NoneAssumption, CapacityAssumption, MaxVersionAssumption
    DEF vars, intents, answers, command, call, producing, transport, Versions

\* PositionOf by cases: what an intent carries.
LEMMA PositionFacts ==
    ASSUME IInv, next \in Versions, NEW kind \in Kinds
    PROVE  LET sample == PositionOf(kind)[1]
               explicit == PositionOf(kind)[2]
           IN /\ sample \in Versions /\ explicit \in BOOLEAN
              /\ kind \in {"start", "seek"} => sample = next /\ explicit
              /\ kind = "stop" => ~explicit
              /\ kind \in {"pause", "resume"} =>
                    \/ pending # None /\ pending.reposition
                       /\ sample = pending.sample /\ explicit
                    \/ Cancellable(active) /\ active.reposition
                       /\ ~(pending # None /\ pending.reposition)
                       /\ sample = active.sample /\ explicit
                    \/ ~(Cancellable(active) /\ active.reposition)
                       /\ ~(pending # None /\ pending.reposition)
                       /\ sample = origin /\ ~explicit
<1>1. /\ origin \in Versions
      /\ pending # None => pending.sample \in Versions
      /\ active # None => active.sample \in Versions
  BY DEF IInv, TypeOK, Command
<1>2. CASE kind \in {"start", "seek"}
  BY <1>2 DEF PositionOf
<1>3. CASE kind = "stop"
  BY <1>3 DEF PositionOf
<1>4. CASE kind \in {"pause", "resume"}
  BY <1>1, <1>4 DEF PositionOf, Cancellable
<1> QED
  BY <1>2, <1>3, <1>4 DEF Kinds

\* The command that enqueue() makes, and the position asked for then.
LEMMA EnqueueFacts ==
    ASSUME IInv, NEW kind \in Kinds, Enqueue(kind)
    PROVE  /\ next \in Versions /\ ~shutting /\ canceller = "none"
           /\ next' = next + 1 /\ latest' = next /\ canceller' = "result"
           /\ UNCHANGED <<reported, status, command, shutting, pc, call, transport, callback,
                          ring, producing, token, flag>>
           /\ pending' \in Command /\ pending' # None /\ WellFormed(pending')
           /\ pending'.kind = kind /\ pending'.version = next
           /\ pending'.target = requested'
           /\ pending'.sample = PositionOf(kind)[1]
           /\ pending'.reposition = PositionOf(kind)[2]
           /\ requested' \in {"playing", "paused", "stopped"}
           /\ wanted' \in Versions \cup {None}
           /\ wanted' # None => wanted' <= latest' /\ kind # "stop"
           /\ kind \in {"start", "seek"} => wanted' = next
           /\ kind \in {"pause", "resume"} => wanted' = wanted
<1> DEFINE target == RequestedStateFor(kind, requested)
<1> USE DEF IInv
<1>1. /\ next \in Versions /\ ~shutting /\ canceller = "none"
      /\ next' = next + 1 /\ latest' = next /\ canceller' = "result"
      /\ UNCHANGED <<reported, status, command, shutting, pc, call, transport, callback,
                     ring, producing, token, flag>>
  BY DEF Enqueue, TypeOK
<1>2. /\ target \in {"playing", "paused", "stopped"} /\ target \in States
      /\ kind \in {"start", "resume"} => target = "playing"
      /\ kind = "pause" => target = "paused"
      /\ kind = "stop" => target = "stopped"
  BY DEF RequestedStateFor, Kinds, Queued, States
<1>3. /\ requested' = target
      /\ pending' = [kind |-> kind, version |-> next, sample |-> PositionOf(kind)[1],
                     target |-> target, reposition |-> PositionOf(kind)[2]]
  BY DEF Enqueue
<1>4. pending'.kind = kind /\ pending'.version = next /\ pending'.target = requested'
      /\ pending'.sample = PositionOf(kind)[1] /\ pending'.reposition = PositionOf(kind)[2]
  BY <1>3
<1>5. pending' \in Command
  <2>1. PositionOf(kind)[1] \in Versions /\ PositionOf(kind)[2] \in BOOLEAN
    BY <1>1, PositionFacts
  <2> HIDE DEF Versions
  <2> QED
    BY <1>1, <1>2, <1>3, <2>1 DEF Command
<1>6. WellFormed(pending')
  <2>1. /\ kind \in {"start", "seek"} => PositionOf(kind)[2]
        /\ kind = "stop" => ~PositionOf(kind)[2]
    BY <1>1, PositionFacts
  <2> QED
    BY <1>2, <1>3, <1>4, <2>1 DEF WellFormed
<1>7. /\ wanted' \in Versions \cup {None}
      /\ wanted' # None => wanted' <= latest' /\ kind # "stop"
      /\ kind \in {"start", "seek"} => wanted' = next
      /\ kind \in {"pause", "resume"} => wanted' = wanted
  <2>1. /\ latest \in Nat /\ next \in Nat /\ latest < next
        /\ wanted \in Versions \cup {None} /\ (wanted # None => wanted <= latest)
    BY DEF TypeOK, Queued
  <2>2. CASE kind \in {"start", "seek"}
    BY <1>1, <2>1, <2>2 DEF Enqueue
  <2>3. CASE kind = "stop"
    BY <2>3 DEF Enqueue
  <2>4. CASE kind \in {"pause", "resume"}
    BY <1>1, <2>1, <2>4 DEF Enqueue
  <2> QED
    BY <2>2, <2>3, <2>4 DEF Kinds
<1> HIDE DEF target
<1> QED
  BY <1>1, <1>2, <1>3, <1>4, <1>5, <1>6, <1>7

\* The position asked for is handed on from the newest intent to the one that
\* supersedes it, or stays with the command that is under way.
LEMMA EnqueueCarries ==
    ASSUME IInv, NEW kind \in Kinds, Enqueue(kind), wanted' # None
    PROVE  Newest'.kind # "stop" /\ Carried'
<1> DEFINE sample == PositionOf(kind)[1]
           explicit == PositionOf(kind)[2]
<1>1. /\ Newest' = pending' /\ pending' # None /\ kind # "stop"
      /\ pending'.kind = kind /\ pending'.sample = sample /\ pending'.reposition = explicit
      /\ ~shutting /\ UNCHANGED <<active, origin, pc, op, state>>
  BY EnqueueFacts DEF Newest
<1>2. /\ explicit \in BOOLEAN
      /\ kind \in {"start", "seek"} => sample = next /\ explicit /\ wanted' = next
      /\ kind \in {"pause", "resume"} =>
            /\ wanted' = wanted
            /\ \/ pending # None /\ pending.reposition
                  /\ sample = pending.sample /\ explicit
               \/ Cancellable(active) /\ active.reposition
                  /\ ~(pending # None /\ pending.reposition)
                  /\ sample = active.sample /\ explicit
               \/ ~(Cancellable(active) /\ active.reposition)
                  /\ ~(pending # None /\ pending.reposition)
                  /\ sample = origin /\ ~explicit
  BY PositionFacts, EnqueueFacts
<1> HIDE DEF sample, explicit
<1>3. CASE kind \in {"start", "seek"}
  BY <1>1, <1>2, <1>3 DEF Carried
<1>4. CASE kind \in {"pause", "resume"}
  <2>1. wanted' = wanted /\ wanted # None
    BY <1>2, <1>4
  <2>2. \/ status = "pending" /\ Newest.kind # "stop" /\ Carried
        \/ active = None /\ pending = None /\ origin = wanted
    BY <1>1, <2>1, EnqueueFacts DEF IInv, Placed, Queued
  <2>3. CASE explicit
    <3>1. CASE pending # None /\ pending.reposition
      BY <1>1, <1>2, <1>4, <2>1, <2>2, <2>3, <3>1 DEF Carried, Newest
    <3>2. CASE Cancellable(active) /\ active.reposition /\ sample = active.sample
               /\ ~(pending # None /\ pending.reposition)
      <4>1. sample = wanted
        BY <2>2, <3>2 DEF Carried, Newest, Cancellable
      <4> QED
        BY <1>1, <1>4, <2>1, <2>3, <4>1 DEF Carried
    <3> QED
      BY <1>2, <1>4, <2>3, <3>1, <3>2
  <2>4. CASE ~explicit
    <3>1. /\ ~(Cancellable(active) /\ active.reposition)
          /\ ~(pending # None /\ pending.reposition)
          /\ pending'.sample = origin /\ ~Newest'.reposition
      BY <1>1, <1>2, <1>4, <2>4
    <3>2. CASE active = None
      <4>1. origin = wanted
        BY <1>1, <2>1, <2>2, <3>1, <3>2 DEF Carried, Newest, IInv, Queued
      <4> QED
        BY <1>1, <1>4, <2>1, <3>1, <3>2, <4>1 DEF Carried
    <3>3. CASE active # None
      <4>1. active.kind # "stop" /\ wanted <= active.version
        BY <1>1, <2>1, <2>2, <3>1, <3>3 DEF Carried, Newest, IInv, Queued
      <4>2. CASE active.reposition
        <5>1. active \in Command
          BY <3>3 DEF IInv, TypeOK
        <5>2. active.kind = "pause" /\ active.sample = wanted
          BY <2>2, <3>1, <3>3, <4>1, <4>2, <5>1 DEF Carried, Newest, Cancellable, Command, Kinds
        <5> QED
          BY <1>1, <1>4, <2>1, <3>1, <3>3, <4>1, <4>2, <5>2 DEF Carried
      <4>3. CASE ~active.reposition
        <5>1. /\ origin = wanted
              /\ \/ active.sample = wanted
                 \/ pc = "execute" /\ state = "paused"
                 \/ pc = "publish"
                 \/ pc # "execute" /\ op # "prepare"
          BY <2>1, <2>2, <3>1, <3>3, <4>1, <4>3 DEF Carried, Newest
        <5> QED
          BY <1>1, <1>4, <2>1, <3>1, <3>3, <4>1, <4>3, <5>1 DEF Carried
      <4> QED
        BY <4>2, <4>3
    <3> QED
      BY <3>2, <3>3
  <2> QED
    BY <1>2, <2>3, <2>4
<1> QED
  BY <1>1, <1>3, <1>4 DEF Kinds

\* enqueue().
LEMMA EnqueueStep ==
    ASSUME IInv, NEW kind \in Kinds, Enqueue(kind)
    PROVE  IInv'
<1> USE EnqueueFacts DEF IInv
<1>1. active # None => active \in Command /\ active.version < next /\ active.version \in Nat
  BY DEF TypeOK, Queued, Command
<1>2. TypeOK'
  <2>1. (requested \in States)' /\ (next \in 1 .. MaxVersion + 1)' /\ (latest \in Versions)'
    BY DEF States
  <2> QED
    BY <2>1 DEF TypeOK
<1>3. Queued'
  BY <1>1 DEF Queued, WellFormed
<1>4. Cancelling'
  BY <1>1 DEF Cancelling, Cancellable, Queued
<1>5. Placed'
  BY EnqueueCarries DEF Placed
<1>6. /\ SucceededIsReal' /\ Controlled' /\ Gated' /\ Worked' /\ Reached'
      /\ Sounding'
  BY DEF SucceededIsReal, Controlled, Serves, Draining, Starting, Gated, Worked, Resting,
         Reached, Sounding, Arrived
<1> QED
  BY <1>2, <1>3, <1>4, <1>5, <1>6

\* The rest of enqueue(): the result of the new intent is pending.
LEMMA MarkPendingStep ==
    ASSUME IInv, MarkPending
    PROVE  IInv'
<1> USE DEF IInv, MarkPending
<1>1. TypeOK'
  BY DEF TypeOK
<1>2. Queued'
  BY DEF Queued, WellFormed
<1>3. Cancelling'
  BY DEF Cancelling, Cancellable, Queued, TypeOK, Command
<1>4. Placed'
  BY DEF Placed, Carried, Newest, Starting
<1>5. /\ SucceededIsReal' /\ Controlled' /\ Gated' /\ Worked' /\ Reached'
      /\ Sounding'
  BY DEF SucceededIsReal, Controlled, Serves, Draining, Starting, Gated, Worked, Resting,
         Reached, Sounding, Arrived
<1> QED
  BY <1>1, <1>2, <1>3, <1>4, <1>5

\* reject() uses up a version.
LEMMA RejectStep ==
    ASSUME IInv, Reject
    PROVE  IInv'
<1> USE DEF IInv, Reject
<1>1. TypeOK'
  BY DEF TypeOK
<1>2. Queued'
  BY DEF Queued, WellFormed, TypeOK
<1>3. /\ Cancelling' /\ Controlled' /\ Gated' /\ Worked' /\ Reached'
      /\ Sounding' /\ Placed' /\ SucceededIsReal'
  BY DEF Cancelling, Cancellable, Controlled, Serves, Draining, Starting,
       Gated, Worked, Resting, Reached, Sounding, Arrived, Placed, Carried,
       Newest, SucceededIsReal
<1> QED
  BY <1>1, <1>2, <1>3

\* ~Impl() drops the pending intent.
LEMMA ShutdownStep ==
    ASSUME IInv, Shutdown
    PROVE  IInv'
<1> USE DEF IInv, Shutdown
<1>1. TypeOK'
  BY DEF TypeOK
<1>2. Queued'
  BY DEF Queued, WellFormed, TypeOK
<1>3. Cancelling'
  BY DEF Cancelling, Cancellable, TypeOK
<1>4. Controlled'
  BY DEF Controlled, Serves, Draining, Starting, TypeOK
<1>5. Placed'
  BY DEF Placed, Carried, Newest, Starting, TypeOK
<1>6. SucceededIsReal'
  BY DEF SucceededIsReal, TypeOK
<1>7. Gated' /\ Worked' /\ Reached' /\ Sounding'
  BY DEF Gated, Draining, Worked, Resting, Reached, Sounding, Arrived
<1> QED
  BY <1>1, <1>2, <1>3, <1>4, <1>5, <1>6, <1>7

\* request_control_cancellation(), the flag ...
LEMMA RaiseFlagStep ==
    ASSUME IInv, RaiseFlag
    PROVE  IInv'
<1> USE DEF IInv, RaiseFlag
<1>1. TypeOK'
  BY DEF TypeOK
<1>2. Cancelling'
  BY DEF Cancelling, Cancellable, TypeOK
<1>3. /\ Queued' /\ Controlled' /\ Gated' /\ Worked' /\ Reached' /\ Sounding'
      /\ Placed' /\ SucceededIsReal'
  BY DEF Queued, WellFormed, Controlled, Serves, Draining, Starting, Gated,
       Worked, Resting, Reached, Sounding, Arrived, Placed, Carried, Newest,
       SucceededIsReal
<1> QED
  BY <1>1, <1>2, <1>3

\* ... and the token.
LEMMA StopTokenStep ==
    ASSUME IInv, StopToken
    PROVE  IInv'
<1> USE DEF IInv, StopToken
<1>1. TypeOK'
  BY DEF TypeOK
<1>2. Cancelling'
  BY DEF Cancelling, Cancellable, TypeOK
<1>3. Queued'
  BY DEF Queued, WellFormed
<1>4. Placed' /\ SucceededIsReal'
  BY DEF Placed, Carried, Newest, Starting, SucceededIsReal
<1>5. Controlled' /\ Gated' /\ Worked' /\ Reached' /\ Sounding'
  BY DEF Controlled, Serves, Draining, Starting, Gated, Worked, Resting, Reached, Sounding,
     Arrived
<1> QED
  BY <1>1, <1>2, <1>3, <1>4, <1>5

\* The pending intent becomes the active command, with the flag cleared.
LEMMA DequeueStep ==
    ASSUME IInv, Dequeue
    PROVE  IInv'
<1> USE DEF IInv, Dequeue
<1>1. TypeOK'
  <2>1. (flag \in BOOLEAN /\ pc \in Steps)'
    BY DEF Steps
  <2> QED
    BY <2>1 DEF TypeOK
<1>2. Queued'
  BY DEF Queued, WellFormed, TypeOK
<1>3. Cancelling'
  BY DEF Cancelling, Cancellable, Queued, Controlled, Starting, Serves, TypeOK
<1>4. Controlled'
  BY DEF Controlled, Serves, Draining, Starting, TypeOK
<1>5. Gated'
  BY DEF Gated, Draining, TypeOK
<1>6. Worked'
  BY DEF Worked, Resting, TypeOK
<1>7. Reached'
  BY DEF Reached, Draining, Resting, TypeOK
<1>8. Sounding'
  BY DEF Sounding, Arrived, Resting, TypeOK
<1>9. Placed'
  BY DEF Placed, Carried, Newest, Starting, Controlled, Serves, Reached,
       Draining, Resting, Queued, WellFormed, Cancelling, Cancellable,
       Sounding, Arrived, TypeOK
<1>10. SucceededIsReal'
  BY DEF SucceededIsReal
<1> QED
  BY <1>1, <1>2, <1>3, <1>4, <1>5, <1>6, <1>7, <1>8, <1>9, <1>10

\* The destructor's stop() begins.
LEMMA LeaveStep ==
    ASSUME IInv, Leave
    PROVE  IInv'
<1> USE DEF IInv, Leave
<1>1. TypeOK'
  <2>1. (pc \in Steps /\ resumes \in BOOLEAN /\ flag \in BOOLEAN)'
    BY DEF Steps
  <2> QED
    BY <2>1 DEF TypeOK
<1>2. Cancelling'
  BY DEF Cancelling, Cancellable, Queued, Controlled, Starting, Serves, TypeOK
<1>3. Controlled'
  BY DEF Controlled, Serves, Draining, Starting, TypeOK
<1>4. Gated'
  BY DEF Gated, Draining, TypeOK
<1>5. Worked'
  BY DEF Worked, Resting, TypeOK
<1>6. Reached'
  BY DEF Reached, Draining, Resting, TypeOK
<1>7. Sounding'
  BY DEF Sounding, Arrived, Resting, TypeOK
<1>8. Placed'
  BY DEF Placed, Carried, Newest, Starting, TypeOK
<1>9. Queued' /\ SucceededIsReal'
  BY DEF Queued, WellFormed, SucceededIsReal
<1> QED
  BY <1>1, <1>2, <1>3, <1>4, <1>5, <1>6, <1>7, <1>8, <1>9

\* Plan by the call it comes to.
LEMMA PlanFacts ==
    ASSUME NEW c \in Command, WellFormed(c), NEW s \in States \ {"starting"}
    PROVE  LET o == Plan(c, s)[1]
               r == Plan(c, s)[2]
           IN /\ o \in {"ok", "failed", "start", "pause", "resume", "seek", "prepare", "stop"}
              /\ o \notin {"ok", "failed"} => r \in BOOLEAN
              /\ o = "ok" => ~c.reposition /\ s = c.target
              /\ o = "start" => c.kind = "start" /\ s = "stopped"
              /\ o = "seek" => c.kind \in {"start", "seek"} /\ c.target = "playing"
              /\ o = "resume" => c.kind = "resume" /\ ~c.reposition /\ s = "paused"
              /\ o = "prepare" /\ r =>
                    c.kind \in {"start", "seek", "resume"} /\ c.target = "playing"
              /\ o = "prepare" /\ ~r => c.kind \in {"pause", "seek"} /\ c.target = "paused"
              /\ o = "prepare" /\ ~c.reposition => s # "paused"
              /\ o = "pause" => c.kind = "pause" /\ ~c.reposition
              /\ o = "stop" => c.kind = "stop"
<1>1. c.kind \in Kinds
  BY DEF Command
<1>2. CASE c.kind = "start"
  BY <1>2 DEF Plan, WellFormed, States
<1>3. CASE c.kind = "pause"
  BY <1>3 DEF Plan, WellFormed, States
<1>4. CASE c.kind = "resume"
  BY <1>4 DEF Plan, WellFormed, States
<1>5. CASE c.kind = "seek"
  BY <1>5 DEF Plan, WellFormed, States
<1>6. CASE c.kind = "stop"
  BY <1>6 DEF Plan, WellFormed, States
<1> QED
  BY <1>1, <1>2, <1>3, <1>4, <1>5, <1>6 DEF Kinds

\* execute() answers at once, or begins a call that serves the active command.
LEMMA ExecuteFacts ==
    ASSUME IInv, Execute
    PROVE  /\ pc = "execute" /\ active \in Command /\ WellFormed(active) /\ active # None
           /\ UNCHANGED <<intents, command, canceller, shutting, transport, callback, ring,
                          producing, token, flag>>
           /\ \/ /\ pc' = "publish" /\ UNCHANGED <<op, resumes>>
                 /\ \/ result' = "failed"
                    \/ result' = "ok" /\ ~active.reposition /\ state = active.target
              \/ /\ pc' = "begin" /\ result' = "none" /\ Serves(active)'
                 /\ op' \in {"start", "pause", "resume", "seek", "prepare", "stop"}
                 /\ resumes' \in BOOLEAN
                 /\ op' = "start" => state = "stopped"
                 /\ op' = "resume" => state = "paused" /\ ~active.reposition
                 /\ op' = "prepare" /\ ~active.reposition => state # "paused"
<1> DEFINE o == Plan(active, state)[1]
           r == Plan(active, state)[2]
<1>1. /\ active \in Command /\ WellFormed(active) /\ state \in States \ {"starting"}
      /\ pc = "execute" /\ active # None /\ result = "none"
  BY DEF Execute, IInv, TypeOK, Queued, Controlled, Reached, Resting
<1>2. UNCHANGED <<intents, command, canceller, shutting, transport, callback, ring,
                  producing, token, flag>>
  BY DEF Execute
<1>3. CASE o \in {"ok", "failed"}
  <2>1. result' = o /\ pc' = "publish" /\ UNCHANGED <<op, resumes>>
    BY <1>3 DEF Execute
  <2>2. o = "ok" => ~active.reposition /\ state = active.target
    BY <1>1, PlanFacts
  <2> QED
    BY <1>1, <1>2, <1>3, <2>1, <2>2
<1>4. CASE o \notin {"ok", "failed"}
  <2>1. op' = o /\ resumes' = r /\ pc' = "begin" /\ result' = "none" /\ active' = active
    BY <1>1, <1>4 DEF Execute
  <2>2. op' \in {"start", "pause", "resume", "seek", "prepare", "stop"} /\ resumes' \in BOOLEAN
    BY <1>1, <1>4, <2>1, PlanFacts
  <2>3. op' = "start" => state = "stopped"
    BY <1>1, <2>1, PlanFacts
  <2>4. op' = "resume" => state = "paused" /\ ~active.reposition
    BY <1>1, <2>1, PlanFacts
  <2>5. op' = "prepare" /\ ~active.reposition => state # "paused"
    BY <1>1, <2>1, PlanFacts
  <2>6. Serves(active)'
    BY <1>1, <2>1, PlanFacts DEF Serves, WellFormed
  <2> QED
    BY <1>1, <1>2, <2>1, <2>2, <2>3, <2>4, <2>5, <2>6
<1> QED
  BY <1>3, <1>4

\* execute().
LEMMA ExecuteStep ==
    ASSUME IInv, Execute
    PROVE  IInv'
<1> USE ExecuteFacts DEF IInv
<1>1. TypeOK'
  <2>1. (pc \in Steps)'
    BY DEF Steps
  <2> QED
    BY <2>1 DEF TypeOK
<1>2. Cancelling'
  BY DEF TypeOK, Cancelling, Cancellable
<1>3. Controlled'
  BY DEF TypeOK, Controlled, Draining, Starting, Serves
<1>4. Gated'
  BY DEF TypeOK, Gated, Draining
<1>5. Worked'
  BY DEF TypeOK, Worked, Resting
<1>6. Reached'
  BY DEF TypeOK, Reached, Draining, Resting
<1>7. Sounding'
  BY DEF TypeOK, Sounding, Arrived, Resting
<1>8. Placed'
  BY DEF TypeOK, Placed, Carried, Newest, Starting, Controlled
<1>9. Queued' /\ SucceededIsReal'
  BY DEF Queued, WellFormed, SucceededIsReal
<1> QED
  BY <1>1, <1>2, <1>3, <1>4, <1>5, <1>6, <1>7, <1>8, <1>9

\* publish_completion() calls the newest intent succeeded only when it has.
LEMMA PublishIsReal ==
    ASSUME IInv, Publish
    PROVE  SucceededIsReal'
<1> USE DEF IInv
<1>1. SUFFICES ASSUME status' = "succeeded", ~shutting'
               PROVE  SucceededIsReal'
  BY DEF SucceededIsReal
<1>2. /\ active # None /\ pc = "publish" /\ result # "none"
      /\ UNCHANGED <<shutting, latest, reported, requested, canceller, state, device, failed>>
  BY DEF Publish, Controlled
<1>3. latest = active.version /\ reported = latest
  BY <1>1, <1>2 DEF Publish, Queued
<1>4. /\ result = "ok" /\ effective' = active.target /\ published' = active.version
      /\ requested = active.target
  BY <1>1, <1>2, <1>3 DEF Publish, Queued
<1>5. /\ Arrived(active.target)
      /\ active.target = "playing" => device \in {"absent", "running"}
  BY <1>2, <1>4 DEF Sounding
<1>6. device = "running" => state \in {"playing", "failed"}
  BY DEF Sounding
<1> QED
  BY <1>2, <1>3, <1>4, <1>5, <1>6 DEF SucceededIsReal, Arrived, Queued, WellFormed

\* When a command ends the epoch is at the position asked for last, or the
\* intent that superseded it still carries that position.
LEMMA PublishCarries ==
    ASSUME IInv, Publish, wanted' # None, ~shutting
    PROVE  \/ status' = "pending" /\ Newest'.kind # "stop" /\ Carried'
           \/ status' = "succeeded" /\ canceller' = "none" /\ origin' = wanted'
<1> USE DEF IInv
<1>1. /\ active # None /\ active \in Command /\ pc = "publish" /\ result # "none"
      /\ canceller = "none" /\ reported = latest
      /\ active' = None /\ UNCHANGED <<pending, latest, canceller, origin, state>>
  BY DEF Publish, Controlled, Queued, TypeOK
<1>2. wanted' = wanted /\ wanted # None /\ (result = "failed" => ~(wanted <= active.version))
  BY DEF Publish, GivenUp
<1>3. CASE latest = active.version
  <2>1. result = "ok"
    <3>1. result # "failed"
      BY <1>2, <1>3 DEF Queued
    <3>2. result # "cancelled"
      BY <1>1, <1>3 DEF Cancelling, TypeOK, Command
    <3> QED
      BY <1>1, <3>1, <3>2 DEF TypeOK
  <2>2. pending = None
    BY <1>1, <1>3 DEF Queued
  <2>3. origin = wanted
    BY <1>1, <1>2, <1>3, <2>1, <2>2 DEF Queued, Placed, Carried, Newest, TypeOK
  <2> QED
    BY <1>1, <1>2, <1>3, <2>1, <2>3 DEF Publish
<1>4. CASE latest # active.version
  <2>1. pending # None /\ status = "pending" /\ status' = status
    BY <1>1, <1>4 DEF Queued, Publish
  <2>2. Newest.kind # "stop" /\ Carried /\ Newest' = Newest /\ Newest = pending
    BY <1>1, <1>2, <2>1 DEF Placed, Newest
  <2>3. CASE Newest.reposition
    BY <1>2, <2>1, <2>2, <2>3 DEF Carried
  <2>4. CASE ~Newest.reposition
    <3>1. wanted <= active.version /\ result # "failed"
      BY <1>1, <1>2, <2>2, <2>4 DEF Carried
    <3>2. CASE active.reposition
      <4>1. result = "ok"
        BY <1>1, <2>2, <2>4, <3>1, <3>2 DEF Controlled, TypeOK, Carried, Cancelling, Cancellable
      <4> QED
        BY <1>1, <1>2, <2>1, <2>2, <2>4, <3>1, <3>2, <4>1
           DEF Carried, Placed, Sounding, Arrived, Queued, WellFormed
    <3>3. CASE ~active.reposition
      BY <1>1, <1>2, <2>1, <2>2, <2>4, <3>1, <3>3 DEF Carried
    <3> QED
      BY <3>2, <3>3
  <2> QED
    BY <2>3, <2>4
<1> QED
  BY <1>3, <1>4

\* publish_completion().
LEMMA PublishStep ==
    ASSUME IInv, Publish
    PROVE  IInv'
<1> USE DEF IInv, Publish
<1>1. TypeOK'
  BY DEF TypeOK, Steps, States, Controlled, Command
<1>2. Queued'
  BY DEF TypeOK, Queued, WellFormed, Controlled, Cancelling
<1>3. Cancelling'
  BY DEF Cancelling, Cancellable
<1>4. Controlled'
  BY DEF TypeOK, Controlled, Draining, Starting
<1>5. Gated' /\ Worked' /\ Reached' /\ Sounding'
  BY DEF Gated, Worked, Reached, Sounding, Arrived, Draining, Resting, Controlled
<1>6. Placed'
  BY PublishCarries DEF Placed
<1>7. SucceededIsReal'
  BY PublishIsReal
<1> QED
  BY <1>1, <1>2, <1>3, <1>4, <1>5, <1>6, <1>7

\* The first step of a call.
LEMMA BeginStep ==
    ASSUME IInv, Begin
    PROVE  IInv'
<1> USE DEF IInv, Begin
<1>1. TypeOK'
  <2>1. (pc \in Steps /\ gate \in BOOLEAN /\ state \in States)'
    BY DEF TypeOK, Steps, States
  <2> QED
    BY <2>1 DEF TypeOK, Stopped, Closed
<1>2. Cancelling'
  BY DEF Cancelling, Cancellable, Stopped, Closed, TypeOK
<1>3. Controlled'
  BY DEF Controlled, Serves, Draining, Starting, Stopped, Closed, TypeOK
<1>4. Gated'
  BY DEF Gated, Draining, Stopped, Closed, TypeOK
<1>5. Worked'
  BY DEF Worked, Resting, Stopped, Closed, TypeOK
<1>6. Reached'
  BY DEF Reached, Draining, Resting, Stopped, Closed, TypeOK
<1>7. Sounding'
  BY DEF Sounding, Arrived, Resting, Reached, Controlled, Serves, Draining,
       Starting, Queued, WellFormed, Stopped, Closed, TypeOK
<1>8. Placed'
  BY DEF Placed, Carried, Newest, Starting, Controlled, Serves, Reached,
       Draining, Resting, Queued, WellFormed, Cancelling, Cancellable,
       Sounding, Arrived, Stopped, Closed, TypeOK
<1>9. SucceededIsReal'
  BY DEF SucceededIsReal, Queued, Controlled, Reached, Sounding, Arrived,
       Draining, Resting, Starting, Stopped, Closed, TypeOK
<1>10. Queued'
  BY DEF Queued, WellFormed
<1> QED
  BY <1>1, <1>2, <1>3, <1>4, <1>5, <1>6, <1>7, <1>8, <1>9, <1>10

\* disable_callbacks_and_wait() leaves no callback reading.
LEMMA DrainStep ==
    ASSUME IInv, Drain
    PROVE  IInv'
<1> USE DEF IInv, Drain
<1>1. TypeOK'
  BY DEF TypeOK, Steps, Inside
<1>2. Controlled'
  BY DEF Controlled, Serves, Draining, Starting, Inside, TypeOK
<1>3. Gated'
  BY DEF Gated, Draining, Inside, TypeOK
<1>4. Worked'
  BY DEF Worked, Resting, Inside, TypeOK
<1>5. Reached'
  BY DEF Reached, Draining, Resting, Inside, TypeOK
<1>6. Sounding'
  BY DEF Sounding, Arrived, Resting, Inside, TypeOK
<1>7. Placed'
  BY DEF Placed, Carried, Newest, Starting, Inside, TypeOK
<1>8. Queued' /\ Cancelling' /\ SucceededIsReal'
  BY DEF Queued, WellFormed, Cancelling, Cancellable, SucceededIsReal
<1> QED
  BY <1>1, <1>2, <1>3, <1>4, <1>5, <1>6, <1>7, <1>8

\* The join leaves no worker.
LEMMA JoinStep ==
    ASSUME IInv, Join
    PROVE  IInv'
<1> USE DEF IInv, Join
<1>1. TypeOK'
  BY DEF TypeOK, Steps
<1>2. Controlled'
  BY DEF Controlled, Serves, Draining, Starting, TypeOK
<1>3. Gated'
  BY DEF Gated, Draining, TypeOK
<1>4. Worked'
  BY DEF Worked, Resting, TypeOK
<1>5. Reached'
  BY DEF Reached, Draining, Resting, TypeOK
<1>6. Sounding'
  BY DEF Sounding, Arrived, Resting, TypeOK
<1>7. Placed'
  BY DEF Placed, Carried, Newest, Starting, TypeOK
<1>8. Queued' /\ Cancelling' /\ SucceededIsReal'
  BY DEF Queued, WellFormed, Cancelling, Cancellable, SucceededIsReal
<1> QED
  BY <1>1, <1>2, <1>3, <1>4, <1>5, <1>6, <1>7, <1>8

\* What a call does once nobody else runs.
LEMMA SettleStep ==
    ASSUME IInv, Settle
    PROVE  IInv'
<1> USE DEF IInv, Settle
<1>1. TypeOK'
  <2>1. (pc \in Steps /\ state \in States)'
    BY DEF TypeOK, Steps, States
  <2> QED
    BY <2>1 DEF TypeOK, Closed
<1>2. Cancelling'
  BY DEF TypeOK, Cancelling, Cancellable
<1>3. Controlled'
  <2>1. /\ pc' \in {"reset", "publish"} /\ UNCHANGED <<op, resumes, active, shutting>>
        /\ pc' = "publish" => result' # "none"
        /\ pc' = "reset" => result' = "none" /\ op \in {"start", "seek", "prepare", "stop"}
    BY DEF TypeOK, Controlled, Draining
  <2>2. active = None => pc' # "publish"
    BY DEF Controlled, Draining
  <2> QED
    BY <2>1, <2>2 DEF Controlled, Serves, Draining, Starting
<1>4. Gated'
  BY DEF TypeOK, Gated, Draining
<1>5. Worked'
  BY DEF TypeOK, Worked, Resting
<1>6. Reached'
  BY DEF TypeOK, Reached, Draining, Resting, Controlled, Starting
<1>7. Sounding'
  BY DEF TypeOK, Sounding, Arrived, Resting, Reached, Controlled, Serves, Draining,
       Queued, WellFormed, Closed
<1>8. Placed'
  BY DEF TypeOK, Placed, Carried, Newest, Starting, Controlled, Serves, Reached,
       Draining, Queued, WellFormed
<1>9. SucceededIsReal'
  BY DEF TypeOK, SucceededIsReal, Queued, Controlled, Reached, Draining
<1>10. Queued'
  BY DEF Queued, WellFormed
<1> QED
  BY <1>1, <1>2, <1>3, <1>4, <1>5, <1>6, <1>7, <1>8, <1>9, <1>10

\* reset_epoch(): with no reader and no worker.
LEMMA ResetStep ==
    ASSUME IInv, Reset
    PROVE  IInv'
<1> USE DEF IInv, Reset
<1>1. TypeOK'
  <2>1. (pc \in Steps /\ failed \in BOOLEAN /\ exhausted \in BOOLEAN)'
    BY DEF Steps
  <2>2. (state \in States /\ effective \in States)'
    BY DEF TypeOK, States
  <2>3. (origin \in Versions)'
    BY DEF TypeOK, Controlled, Command
  <2> QED
    BY <2>1, <2>2, <2>3 DEF TypeOK
<1>2. Cancelling'
  BY DEF Cancelling, Cancellable, TypeOK
<1>3. Controlled'
  BY DEF Controlled, Serves, Draining, Starting, TypeOK
<1>4. Gated'
  BY DEF Gated, Draining, TypeOK
<1>5. Worked'
  BY DEF Worked, Resting, TypeOK
<1>6. Reached'
  BY DEF Reached, Draining, Resting, TypeOK
<1>7. Sounding'
  BY DEF Sounding, Arrived, Resting, Reached, Controlled, Serves, Draining,
       Starting, Queued, WellFormed, TypeOK
<1>8. Placed'
  BY DEF Placed, Carried, Newest, Starting, Controlled, Serves, Reached,
       Draining, Resting, Queued, WellFormed, Cancelling, Cancellable,
       Sounding, Arrived, TypeOK
<1>9. SucceededIsReal'
  BY DEF SucceededIsReal, Queued, Controlled, Reached, Sounding, Arrived,
       Draining, Resting, Starting, TypeOK
<1>10. Queued'
  BY DEF Queued, WellFormed
<1> QED
  BY <1>1, <1>2, <1>3, <1>4, <1>5, <1>6, <1>7, <1>8, <1>9, <1>10

\* start_worker(), the token ...
LEMMA SpawnStep ==
    ASSUME IInv, Spawn
    PROVE  IInv'
<1> USE DEF IInv, Spawn
<1>1. TypeOK'
  BY DEF TypeOK, Steps
<1>2. Controlled'
  BY DEF Controlled, Serves, Draining, Starting, TypeOK
<1>3. Gated'
  BY DEF Gated, Draining, TypeOK
<1>4. Worked'
  BY DEF Worked, Resting, TypeOK
<1>5. Reached'
  BY DEF Reached, Draining, Resting, TypeOK
<1>6. Sounding'
  BY DEF Sounding, Arrived, Resting, TypeOK
<1>7. Placed'
  BY DEF Placed, Carried, Newest, Starting, TypeOK
<1>8. Queued' /\ Cancelling' /\ SucceededIsReal'
  BY DEF Queued, WellFormed, Cancelling, Cancellable, SucceededIsReal
<1> QED
  BY <1>1, <1>2, <1>3, <1>4, <1>5, <1>6, <1>7, <1>8

\* ... the look at the flag, and the thread.
LEMMA CheckStep ==
    ASSUME IInv, Check
    PROVE  IInv'
<1> USE DEF IInv, Check
<1>1. TypeOK'
  BY DEF TypeOK, Steps
<1>2. Controlled'
  BY DEF Controlled, Serves, Draining, Starting, TypeOK
<1>3. Gated'
  BY DEF Gated, Draining, TypeOK
<1>4. Worked'
  BY DEF Worked, Resting, TypeOK
<1>5. Reached'
  BY DEF Reached, Draining, Resting, TypeOK
<1>6. Sounding'
  BY DEF Sounding, Arrived, Resting, TypeOK
<1>7. Placed'
  BY DEF Placed, Carried, Newest, Starting, TypeOK
<1>8. Queued' /\ Cancelling' /\ SucceededIsReal'
  BY DEF Queued, WellFormed, Cancelling, Cancellable, SucceededIsReal
<1> QED
  BY <1>1, <1>2, <1>3, <1>4, <1>5, <1>6, <1>7, <1>8

\* wait_for_prefill().
LEMMA AwaitPrefillStep ==
    ASSUME IInv, AwaitPrefill
    PROVE  IInv'
<1> USE DEF IInv, AwaitPrefill
<1>1. TypeOK'
  BY DEF TypeOK, Steps, PrefillOutcomes
<1>2. Cancelling'
  BY DEF Cancelling, Cancellable, Queued, Controlled, Starting, Serves,
       PrefillOutcomes, TypeOK
<1>3. Controlled'
  BY DEF Controlled, Serves, Draining, Starting, PrefillOutcomes, TypeOK
<1>4. Gated'
  BY DEF Gated, Draining, PrefillOutcomes, TypeOK
<1>5. Worked'
  BY DEF Worked, Resting, PrefillOutcomes, TypeOK
<1>6. Reached'
  BY DEF Reached, Draining, Resting, PrefillOutcomes, TypeOK
<1>7. Sounding'
  BY DEF Sounding, Arrived, Resting, PrefillOutcomes, TypeOK
<1>8. Placed'
  BY DEF Placed, Carried, Newest, Starting, PrefillOutcomes, TypeOK
<1>9. Queued' /\ SucceededIsReal'
  BY DEF Queued, WellFormed, SucceededIsReal
<1> QED
  BY <1>1, <1>2, <1>3, <1>4, <1>5, <1>6, <1>7, <1>8, <1>9

\* The gate opens.
LEMMA GoStep ==
    ASSUME IInv, Go
    PROVE  IInv'
<1> USE DEF IInv, Go
<1>1. TypeOK'
  BY DEF TypeOK, Steps, States
<1>2. Controlled'
  BY DEF Controlled, Serves, Draining, Starting, TypeOK
<1>3. Gated'
  BY DEF Gated, Draining, TypeOK
<1>4. Worked'
  BY DEF Worked, Resting, TypeOK
<1>5. Reached'
  BY DEF Reached, Draining, Resting, TypeOK
<1>6. Sounding'
  BY DEF Sounding, Arrived, Resting, TypeOK
<1>7. Placed'
  BY DEF Placed, Carried, Newest, Starting, Controlled, Serves, Reached,
       Draining, Resting, Queued, WellFormed, Cancelling, Cancellable,
       Sounding, Arrived, TypeOK
<1>8. SucceededIsReal'
  BY DEF SucceededIsReal, Queued, Controlled, Reached, Sounding, Arrived,
       Draining, Resting, Starting, TypeOK
<1>9. Queued' /\ Cancelling'
  BY DEF Queued, WellFormed, Cancelling, Cancellable
<1> QED
  BY <1>1, <1>2, <1>3, <1>4, <1>5, <1>6, <1>7, <1>8, <1>9

\* start_device() succeeds, or closes the gate again.
LEMMA StartDeviceStep ==
    ASSUME IInv, StartDevice
    PROVE  IInv'
<1> USE DEF IInv, StartDevice
<1>1. TypeOK'
  <2>1. (pc \in Steps /\ gate \in BOOLEAN /\ state \in States)'
    BY DEF TypeOK, Steps, States
  <2> QED
    BY <2>1 DEF TypeOK
<1>2. Cancelling'
  BY DEF Cancelling, Cancellable, TypeOK
<1>3. Controlled'
  BY DEF Controlled, Serves, Draining, Starting, TypeOK
<1>4. Gated'
  BY DEF Gated, Draining, TypeOK
<1>5. Worked'
  BY DEF Worked, Resting, Reached, Controlled, Draining, Starting, Sounding,
       Arrived, TypeOK
<1>6. Reached'
  BY DEF Reached, Draining, Resting, Controlled, Starting, Sounding, Arrived,
       TypeOK
<1>7. Sounding'
  BY DEF Sounding, Arrived, Resting, Reached, Controlled, Serves, Draining,
       Starting, Queued, WellFormed, TypeOK
<1>8. Placed'
  BY DEF Placed, Carried, Newest, Starting, Controlled, Serves, Reached,
       Draining, Resting, Queued, WellFormed, Cancelling, Cancellable,
       Sounding, Arrived, TypeOK
<1>9. SucceededIsReal'
  BY DEF SucceededIsReal, Queued, Controlled, Reached, Sounding, Arrived,
       Draining, Resting, Starting, TypeOK
<1>10. Queued'
  BY DEF Queued, WellFormed
<1> QED
  BY <1>1, <1>2, <1>3, <1>4, <1>5, <1>6, <1>7, <1>8, <1>9, <1>10

\* The head of the worker's loop.
LEMMA WorkerLoopsStep ==
    ASSUME IInv, WorkerLoops
    PROVE  IInv'
<1> USE DEF IInv, WorkerLoops
<1>1. TypeOK'
  BY DEF TypeOK
<1>2. Worked'
  BY DEF Worked, Resting, TypeOK
<1>3. /\ Queued' /\ Cancelling' /\ Controlled' /\ Gated' /\ Reached'
      /\ Sounding' /\ Placed' /\ SucceededIsReal'
  BY DEF Queued, WellFormed, Cancelling, Cancellable, Controlled, Serves,
       Draining, Starting, Gated, Reached, Resting, Sounding, Arrived, Placed,
       Carried, Newest, SucceededIsReal
<1> QED
  BY <1>1, <1>2, <1>3

\* The provider answers, or the worker fails.
LEMMA ProviderReturnsStep ==
    ASSUME IInv, ProviderReturns
    PROVE  IInv'
<1> USE DEF IInv, ProviderReturns
<1>1. TypeOK'
  <2>1. (failed \in BOOLEAN /\ exhausted \in BOOLEAN /\ state \in States)'
    BY DEF TypeOK, FailWorker, States
  <2> QED
    BY <2>1 DEF TypeOK, FailWorker
<1>2. Gated'
  BY DEF Gated, Draining, FailWorker, TypeOK
<1>3. Worked'
  BY DEF Worked, Resting, FailWorker, TypeOK
<1>4. Reached'
  BY DEF Reached, Draining, Resting, FailWorker, TypeOK
<1>5. Sounding'
  BY DEF Sounding, Arrived, Resting, Reached, Controlled, Serves, Draining,
       Starting, Queued, WellFormed, FailWorker, TypeOK
<1>6. Placed'
  BY DEF Placed, Carried, Newest, Starting, FailWorker, TypeOK
<1>7. SucceededIsReal'
  BY DEF SucceededIsReal, Queued, Controlled, Reached, Sounding, Arrived,
       Draining, Resting, Starting, FailWorker, TypeOK
<1>8. Queued' /\ Cancelling' /\ Controlled'
  BY DEF Queued, WellFormed, Cancelling, Cancellable, Controlled, Serves,
       Draining, Starting
<1> QED
  BY <1>1, <1>2, <1>3, <1>4, <1>5, <1>6, <1>7, <1>8

\* A block is written into the room there was.
LEMMA WorkerWritesStep ==
    ASSUME IInv, WorkerWrites
    PROVE  IInv'
<1> USE DEF IInv, WorkerWrites
<1>1. TypeOK'
  BY DEF TypeOK, Worked, Controlled, Queued
<1>2. Worked'
  BY DEF Worked, Resting, TypeOK
<1>3. /\ Queued' /\ Cancelling' /\ Controlled' /\ Gated' /\ Reached'
      /\ Sounding' /\ Placed' /\ SucceededIsReal'
  BY DEF Queued, WellFormed, Cancelling, Cancellable, Controlled, Serves,
       Draining, Starting, Gated, Reached, Resting, Sounding, Arrived, Placed,
       Carried, Newest, SucceededIsReal
<1> QED
  BY <1>1, <1>2, <1>3

\* A callback looks at the gate ...
LEMMA CallbackChecksStep ==
    ASSUME IInv, NEW c \in Callbacks, CallbackChecks(c)
    PROVE  IInv'
<1> USE DEF IInv, CallbackChecks
<1>1. TypeOK'
  BY DEF TypeOK, Admitted
<1>2. Gated'
  BY DEF Gated, Draining, Admitted, TypeOK
<1>3. /\ Queued' /\ Cancelling' /\ Controlled' /\ Worked' /\ Reached'
      /\ Sounding' /\ Placed' /\ SucceededIsReal'
  BY DEF Queued, WellFormed, Cancelling, Cancellable, Controlled, Serves,
       Draining, Starting, Worked, Resting, Reached, Sounding, Arrived,
       Placed, Carried, Newest, SucceededIsReal
<1> QED
  BY <1>1, <1>2, <1>3

\* ... counts itself in ...
LEMMA CallbackEntersStep ==
    ASSUME IInv, NEW c \in Callbacks, CallbackEnters(c)
    PROVE  IInv'
<1> USE DEF IInv, CallbackEnters
<1>1. TypeOK'
  BY DEF TypeOK
<1>2. Gated'
  BY DEF Gated, Draining, TypeOK
<1>3. /\ Queued' /\ Cancelling' /\ Controlled' /\ Worked' /\ Reached'
      /\ Sounding' /\ Placed' /\ SucceededIsReal'
  BY DEF Queued, WellFormed, Cancelling, Cancellable, Controlled, Serves,
       Draining, Starting, Worked, Resting, Reached, Sounding, Arrived,
       Placed, Carried, Newest, SucceededIsReal
<1> QED
  BY <1>1, <1>2, <1>3

\* ... looks again ...
LEMMA CallbackRechecksStep ==
    ASSUME IInv, NEW c \in Callbacks, CallbackRechecks(c)
    PROVE  IInv'
<1> USE DEF IInv, CallbackRechecks
<1>1. TypeOK'
  BY DEF TypeOK, Reads, Admitted
<1>2. Gated'
  BY DEF Gated, Draining, Reads, Admitted, TypeOK
<1>3. /\ Queued' /\ Cancelling' /\ Controlled' /\ Worked' /\ Reached'
      /\ Sounding' /\ Placed' /\ SucceededIsReal'
  BY DEF Queued, WellFormed, Cancelling, Cancellable, Controlled, Serves,
       Draining, Starting, Worked, Resting, Reached, Sounding, Arrived,
       Placed, Carried, Newest, SucceededIsReal
<1> QED
  BY <1>1, <1>2, <1>3

\* ... and reads.
LEMMA CallbackReadsStep ==
    ASSUME IInv, NEW c \in Callbacks, CallbackReads(c)
    PROVE  IInv'
<1> USE DEF IInv, CallbackReads
<1>1. TypeOK'
  BY DEF TypeOK
<1>2. Gated'
  BY DEF Gated, Draining, TypeOK
<1>3. Worked'
  BY DEF Worked, Resting, TypeOK
<1>4. /\ Queued' /\ Cancelling' /\ Controlled' /\ Reached' /\ Sounding'
      /\ Placed' /\ SucceededIsReal'
  BY DEF Queued, WellFormed, Cancelling, Cancellable, Controlled, Serves,
       Draining, Starting, Reached, Resting, Sounding, Arrived, Placed,
       Carried, Newest, SucceededIsReal
<1> QED
  BY <1>1, <1>2, <1>3, <1>4

-----------------------------------------------------------------------------
(* The invariant, and what it implies. *)

\* The transport starts stopped, with no command, no worker and a closed gate.
LEMMA InitIInv == Init => IInv
<1> SUFFICES ASSUME Init
             PROVE  IInv
  OBVIOUS
<1> USE DEF Init
<1>1. TypeOK
  <2>1. requested \in States /\ effective \in States /\ state \in States /\ pc \in Steps
    BY DEF States, Steps
  <2>2. next \in 1 .. MaxVersion + 1 /\ ring \in 0 .. Capacity /\ 0 \in Versions
    OBVIOUS
  <2> QED
    BY <2>1, <2>2 DEF TypeOK
<1>2. Queued /\ Cancelling /\ Controlled
  BY DEF Queued, Cancelling, Cancellable, Controlled, Draining, Starting
<1>3. Gated /\ Worked /\ Reached
  BY DEF Gated, Worked, Reached, Draining, Resting
<1>4. Sounding /\ Placed /\ SucceededIsReal
  BY DEF Sounding, Arrived, Resting, Placed, Starting, SucceededIsReal
<1> QED
  BY <1>1, <1>2, <1>3, <1>4 DEF IInv

\* Every step of the transport preserves the invariant.
LEMMA NextIInv == IInv /\ [Next]_vars => IInv'
<1> SUFFICES ASSUME IInv, [Next]_vars
             PROVE  IInv'
  OBVIOUS
<1>1. ASSUME Producer
      PROVE  IInv'
  BY <1>1, EnqueueStep, RejectStep, ShutdownStep DEF Producer
<1>2. ASSUME Cancel
      PROVE  IInv'
  BY <1>2, MarkPendingStep, RaiseFlagStep, StopTokenStep DEF Cancel
<1>3. ASSUME Control
      PROVE  IInv'
  BY <1>3, DequeueStep, LeaveStep, ExecuteStep, PublishStep, BeginStep, DrainStep, JoinStep,
     SettleStep, ResetStep, SpawnStep, CheckStep, AwaitPrefillStep, GoStep, StartDeviceStep
     DEF Control
<1>4. ASSUME Worker
      PROVE  IInv'
  BY <1>4, WorkerLoopsStep, ProviderReturnsStep, WorkerWritesStep DEF Worker
<1>5. ASSUME NEW c \in Callbacks, CallbackChecks(c) \/ Finish(c)
      PROVE  IInv'
  BY <1>5, CallbackChecksStep, CallbackEntersStep, CallbackRechecksStep, CallbackReadsStep
     DEF Finish
<1>6. CASE UNCHANGED vars
  BY <1>6 DEF IInv, TypeOK, Queued, WellFormed, Cancelling, Cancellable, Controlled, Serves,
     Gated, Worked, Reached, Sounding, Arrived, Placed, Carried, Newest, SucceededIsReal
<1> QED
  BY <1>1, <1>2, <1>3, <1>4, <1>5, <1>6 DEF Next

\* The inductive invariant holds of every behaviour, with or without fairness.
THEOREM TransportInvariance == Spec => []IInv
  BY InitIInv, NextIInv, PTL DEF Spec

\* Every variable of the transport keeps its type; in particular the worker never
\* writes into a full ring.
THEOREM TransportTypes == Spec => []TypeOK
<1>1. IInv => TypeOK
  BY DEF IInv
<1> QED
  BY <1>1, TransportInvariance, PTL

\* While reset_epoch() zeroes the cursors of the ring no callback reads and no
\* worker exists, however many callbacks the device and the host run, and two
\* callbacks never read at once (realtime_playback.cpp:253).
THEOREM RingTheorem == Spec => []RingIsExclusive
<1>1. IInv => RingIsExclusive
  BY DEF IInv, RingIsExclusive, Gated, Worked, Draining
<1> QED
  BY <1>1, TransportInvariance, PTL

\* A cancellation never interrupts the newest intent, and a superseded Start,
\* Seek or Resume never runs on without it, at whatever step of the control
\* thread the producers come (async_realtime_playback.cpp:170, :285).
THEOREM CancellationTheorem == Spec => []CancellationHitsItsTarget
<1>1. IInv => CancellationHitsItsTarget
  BY DEF IInv, CancellationHitsItsTarget, Cancelling
<1> QED
  BY <1>1, TransportInvariance, PTL

\* However many intents coalesce in the queue or supersede each other while they
\* run, the position of the last Start or Seek is where the epoch begins
\* (async_realtime_playback.cpp:130).
THEOREM PositionTheorem == Spec => []PositionSurvives
<1>1. IInv => PositionSurvives
  BY DEF IInv, PositionSurvives, Placed, Queued, TypeOK
<1> QED
  BY <1>1, TransportInvariance, PTL

\* A result reported as Succeeded is that of the version reported with it: the
\* controller is in the state that version reached, or its worker has failed
\* since, and the device agrees; a newer request stands beside it only while its
\* producer has not marked the result yet, at whatever moment diagnostics() looks
\* (async_realtime_playback.cpp:316).
THEOREM SucceededTheorem == Spec => []SucceededIsReal
<1>1. IInv => SucceededIsReal
  BY DEF IInv
<1> QED
  BY <1>1, TransportInvariance, PTL

-----------------------------------------------------------------------------
(* The program preview: the inductive invariant, in named parts. *)

Frame == [life : Nat, revision : Nat, place : Places]
CacheKey == [revision : Nat, place : Places, generation : Nat]
Rendering == [frame : Frame, key : CacheKey, gpu : BOOLEAN, presents : BOOLEAN,
              outcome : {"none", "native", "image", "error", "stale"}, failed : BOOLEAN,
              current : BOOLEAN, latest : BOOLEAN]

\* What images depend on, the render in flight, the cache and the viewer.
ImagesOK ==
  /\ now \in Frame /\ generation \in Nat /\ position \in Places
  /\ clips \in BOOLEAN /\ ticked \in BOOLEAN /\ behind \in BOOLEAN /\ blind \in BOOLEAN
  /\ inFlight \in Rendering \cup {Nothing}
  /\ cache \subseteq [key : CacheKey, frame : Frame]
  /\ viewer \in [frame : Frame \cup {Nothing}, native : BOOLEAN, failed : BOOLEAN]

\* What is cached by a key, or is to be, is a frame of that revision and place.  It
\* is of the open project if no other has been opened since the registry changed.
Keyed(key, frame, registered, shown, unknown) ==
  /\ key.revision = frame.revision /\ key.place = frame.place
  /\ key.generation <= registered
  /\ key.generation = registered /\ ~unknown => frame.life = shown.life

CacheKeyed == \A entry \in cache : Keyed(entry.key, entry.frame, generation, now, blind)

WorkerKeyed == inFlight # Nothing => Keyed(inFlight.key, inFlight.frame, generation, now, blind)

\* A render of the current epoch is for the registry as it is, and for what is to
\* be shown but for the place, which ticks move on, and an edit that asked for
\* nothing.
WorkerCurrent ==
  inFlight # Nothing /\ inFlight.current =>
    /\ inFlight.key.generation = generation
    /\ ~behind => inFlight.frame.revision = now.revision
    /\ ~behind /\ ~ticked => inFlight.frame.place = now.place

\* What the next render will be launched for.
RequestedCurrent == clips /\ ~behind => position = now.place

PreviewInv == ImagesOK /\ CacheKeyed /\ WorkerKeyed /\ WorkerCurrent /\ RequestedCurrent

-----------------------------------------------------------------------------
(* Renders and keys. *)

\* A render that is launched, and one that is superseded or outrun.
LEMMA RenderFacts ==
  ASSUME NEW frame \in Frame, generation' \in Nat, NEW transforming \in BOOLEAN
  PROVE  /\ Render(frame, transforming) \in Rendering
         /\ Render(frame, transforming).frame = frame
         /\ Render(frame, transforming).key.revision = frame.revision
         /\ Render(frame, transforming).key.place = frame.place
         /\ Render(frame, transforming).key.generation = generation'
  BY DEF Render, Rendering, Key, CacheKey, Frame

LEMMA SupersededFacts ==
  ASSUME NEW w \in Rendering, w # Nothing
  PROVE  /\ Superseded(w) \in Rendering /\ ~Superseded(w).current
         /\ Superseded(w).key = w.key /\ Superseded(w).frame = w.frame
         /\ Outrun(w) \in Rendering /\ Outrun(w).current = w.current
         /\ Outrun(w).key = w.key /\ Outrun(w).frame = w.frame
  BY DEF Superseded, Outrun, Rendering

\* Another project is known by its registry, or it is unknown which it is.
Onward ==
  /\ now' \in Frame /\ generation' \in Nat /\ generation <= generation'
  /\ blind' \in BOOLEAN /\ (blind => blind')
  /\ generation' = generation /\ ~blind' => now'.life = now.life

\* Keys stay good keys.
LEMMA KeyedNext ==
  ASSUME ImagesOK, Onward, NEW key \in CacheKey, NEW frame,
         Keyed(key, frame, generation, now, blind)
  PROVE  Keyed(key, frame, generation', now', blind')
<1>1. key.generation \in Nat /\ generation \in Nat /\ generation' \in Nat
  BY DEF ImagesOK, Onward, CacheKey
<1> QED
  BY <1>1 DEF Keyed, Onward

LEMMA CacheNext ==
  ASSUME PreviewInv, Onward, cache' \subseteq cache
  PROVE  CacheKeyed' /\ cache' \subseteq [key : CacheKey, frame : Frame]
<1>1. cache' \subseteq [key : CacheKey, frame : Frame]
  BY DEF PreviewInv, ImagesOK
<1>2. ASSUME NEW entry \in cache'
      PROVE  Keyed(entry.key, entry.frame, generation', now', blind')
  <2>1. entry.key \in CacheKey /\ Keyed(entry.key, entry.frame, generation, now, blind)
    BY <1>1, <1>2 DEF PreviewInv, CacheKeyed
  <2> QED
    BY <2>1, KeyedNext DEF PreviewInv
<1> QED
  BY <1>1, <1>2 DEF CacheKeyed

\* The viewer without a frame.
LEMMA ClearedFacts ==
  ASSUME NEW v \in [frame : Frame \cup {Nothing}, native : BOOLEAN, failed : BOOLEAN]
  PROVE  /\ Cleared(v) \in [frame : Frame \cup {Nothing}, native : BOOLEAN, failed : BOOLEAN]
         /\ Cleared(v).native = v.native
         /\ Cleared(v).native \/ Cleared(v).frame = Nothing
  BY DEF Cleared

\* A new epoch for the render in flight, if there is one.
LEMMA SupersededKeeps ==
  ASSUME PreviewInv, Onward, inFlight' = Superseded(inFlight)
  PROVE  WorkerKeyed' /\ WorkerCurrent' /\ inFlight' \in Rendering \cup {Nothing}
<1>1. CASE inFlight = Nothing
  BY <1>1 DEF Superseded, WorkerKeyed, WorkerCurrent
<1>2. CASE inFlight # Nothing
  <2>1. inFlight \in Rendering /\ inFlight.key \in CacheKey
    BY <1>2 DEF PreviewInv, ImagesOK, Rendering
  <2>2. /\ inFlight' \in Rendering /\ ~inFlight'.current
        /\ inFlight'.key = inFlight.key /\ inFlight'.frame = inFlight.frame
    BY <1>2, <2>1, SupersededFacts
  <2>3. Keyed(inFlight.key, inFlight.frame, generation', now', blind')
    BY <1>2, <2>1, KeyedNext DEF PreviewInv, WorkerKeyed
  <2> QED
    BY <2>2, <2>3 DEF WorkerKeyed, WorkerCurrent
<1> QED
  BY <1>1, <1>2

\* A preview is asked for.  A tick, which coalesces, moves nothing but the place.
LEMMA RequestKeeps ==
  ASSUME PreviewInv, Onward, NEW policy \in {"replace", "coalesce"}, NEW twice \in BOOLEAN,
         Request(policy, twice), clips' \in BOOLEAN, cache' \subseteq cache,
         policy = "coalesce" => generation' = generation /\ now'.revision = now.revision
  PROVE  PreviewInv'
<1>1. ImagesOK
  BY DEF PreviewInv
<1>2. behind' = (behind /\ policy = "coalesce") /\ ticked' = (policy = "coalesce")
  BY DEF Request
<1>3. behind' \in BOOLEAN /\ ticked' \in BOOLEAN
  BY <1>2
<1>4. now'.place \in Places /\ now'.revision \in Nat
  BY DEF Onward, Frame
<1>5. position' \in Places /\ RequestedCurrent'
  BY <1>1, <1>4 DEF Request, RequestedCurrent, ImagesOK
<1>6. viewer' \in [frame : Frame \cup {Nothing}, native : BOOLEAN, failed : BOOLEAN]
  BY <1>1, ClearedFacts DEF Request, ImagesOK
<1>7. /\ inFlight' \in Rendering \cup {Nothing} /\ WorkerKeyed' /\ WorkerCurrent'
  <2>1. CASE inFlight' = Superseded(inFlight)
    BY <2>1, SupersededKeeps
  <2>2. CASE clips' /\ inFlight # Nothing /\ policy = "coalesce" /\ inFlight' = Outrun(inFlight)
    <3>1. inFlight \in Rendering /\ inFlight.key \in CacheKey
      BY <1>1, <2>2 DEF ImagesOK, Rendering
    <3>2. /\ inFlight' \in Rendering /\ inFlight'.current = inFlight.current
          /\ inFlight'.key = inFlight.key /\ inFlight'.frame = inFlight.frame
      BY <2>2, <3>1, SupersededFacts
    <3>3. WorkerKeyed'
      <4>1. Keyed(inFlight.key, inFlight.frame, generation', now', blind')
        BY <1>1, <2>2, <3>1, KeyedNext DEF PreviewInv, WorkerKeyed
      <4> QED
        BY <3>2, <4>1 DEF WorkerKeyed
    <3>4. WorkerCurrent'
      <4>1. generation' = generation /\ now'.revision = now.revision /\ ticked'
            /\ behind' = behind
        BY <1>1, <1>2, <2>2 DEF ImagesOK
      <4> QED
        BY <2>2, <3>2, <4>1 DEF PreviewInv, WorkerCurrent
    <3> QED
      BY <3>2, <3>3, <3>4
  <2>3. CASE clips' /\ inFlight = Nothing
    <3>1. PICK transforming \in BOOLEAN :
             inFlight' = IF twice THEN Superseded(Render(now', transforming))
                       ELSE Render(now', transforming)
      BY <2>3 DEF Request
    <3> DEFINE render == Render(now', transforming)
    <3>2. /\ render \in Rendering /\ render.frame = now'
          /\ render.key.revision = now'.revision /\ render.key.place = now'.place
          /\ render.key.generation = generation'
      BY RenderFacts DEF Onward
    <3>3. inFlight' = render \/ inFlight' = Superseded(render)
      BY <3>1
    <3> HIDE DEF render
    <3>4. CASE inFlight' = Nothing
      BY <3>4 DEF WorkerKeyed, WorkerCurrent
    <3>5. CASE inFlight' # Nothing
      <4>1. /\ inFlight' \in Rendering
            /\ inFlight'.key = render.key /\ inFlight'.frame = render.frame
        <5>1. CASE render = Nothing
          BY <3>3, <3>5, <5>1 DEF Superseded
        <5>2. CASE render # Nothing
          BY <3>2, <3>3, <5>2, SupersededFacts
        <5> QED
          BY <5>1, <5>2
      <4>2. Keyed(render.key, render.frame, generation', now', blind')
        BY <3>2 DEF Keyed, Onward
      <4> QED
        BY <3>2, <4>1, <4>2 DEF WorkerKeyed, WorkerCurrent
    <3> QED
      BY <3>4, <3>5
  <2> QED
    BY <2>1, <2>2, <2>3 DEF Request
<1>8. CacheKeyed' /\ cache' \subseteq [key : CacheKey, frame : Frame]
  BY CacheNext
<1>9. ImagesOK'
  BY <1>3, <1>5, <1>6, <1>7, <1>8 DEF ImagesOK, Onward
<1> QED
  BY <1>5, <1>7, <1>8, <1>9 DEF PreviewInv

-----------------------------------------------------------------------------
(* The invariant holds at first, and every action keeps it. *)

LEMMA InitPreviews == PreviewsInit => PreviewInv
<1> SUFFICES ASSUME NEW start \in Starts, ProgramInit(start.gpu, start.program)
             PROVE  PreviewInv
  BY DEF PreviewsInit
<1>1. now = [life |-> 1, revision |-> 0, place |-> 1] /\ clips \in BOOLEAN
  BY DEF ProgramInit
<1>2. now \in Frame /\ now.place = 1
  BY <1>1 DEF Frame, Places
<1>3. viewer \in [frame : Frame \cup {Nothing}, native : BOOLEAN, failed : BOOLEAN]
  <2>1. viewer = [frame |-> Wanted, native |-> clips /\ start.gpu = "native", failed |-> FALSE]
    BY DEF ProgramInit
  <2>2. Wanted \in Frame \cup {Nothing} /\ (clips /\ start.gpu = "native") \in BOOLEAN
    BY <1>1, <1>2 DEF Wanted
  <2> QED
    BY <2>1, <2>2
<1>4. /\ generation = 0 /\ position = 1 /\ inFlight = Nothing /\ cache = {}
      /\ ticked = FALSE /\ behind = FALSE /\ blind = FALSE
  BY DEF ProgramInit
<1>5. ImagesOK
  <2>1. generation \in Nat /\ position \in Places
    BY <1>4 DEF Places
  <2>2. ticked \in BOOLEAN /\ behind \in BOOLEAN /\ blind \in BOOLEAN
    BY <1>4
  <2> QED
    BY <1>1, <1>2, <1>3, <1>4, <2>1, <2>2 DEF ImagesOK
<1> QED
  BY <1>2, <1>4, <1>5 DEF PreviewInv, CacheKeyed, WorkerKeyed, WorkerCurrent, RequestedCurrent

\* Another revision of the open project.
LEMMA RevisionNext ==
  ASSUME ImagesOK, now' = [now EXCEPT !.revision = @ + 1],
         generation' \in {generation, generation + 1}, blind' = blind
  PROVE  Onward
  BY DEF ImagesOK, Frame, Onward

\* Another place in it.
LEMMA PlaceNext ==
  ASSUME ImagesOK, NEW place \in Places, now' = [now EXCEPT !.place = place],
         UNCHANGED <<generation, blind>>
  PROVE  Onward /\ now'.revision = now.revision
  BY DEF ImagesOK, Frame, Onward

\* syncPreviewCacheIdentity() only drops frames.
LEMMA SyncFacts == SyncCacheIdentity => cache' \subseteq cache
  BY DEF SyncCacheIdentity

LEMMA EditKeeps ==
  ASSUME PreviewInv, Edit \/ EditLive \/ UndoUnsaved
  PROVE  PreviewInv'
<1>1. ImagesOK
  BY DEF PreviewInv
<1>2. Onward
  <2>1. /\ now' = [now EXCEPT !.revision = @ + 1] /\ blind' = blind
        /\ generation' \in {generation, generation + 1}
    BY DEF Edit, EditLive, UndoUnsaved
  <2> QED
    BY <1>1, <2>1, RevisionNext
<1>3. clips' \in BOOLEAN
  BY <1>1 DEF Edit, EditLive, UndoUnsaved, ImagesOK
<1>4. CASE Edit \/ EditLive
  <2>1. cache' \subseteq cache /\ Request("replace", FALSE)
    BY <1>4, SyncFacts DEF Edit, EditLive, RefreshViews, RequestPreview, caching
  <2> QED
    BY <1>2, <1>3, <2>1, RequestKeeps
<1>5. CASE UndoUnsaved
  <2>1. /\ UNCHANGED <<generation, position, inFlight, cache, viewer, ticked, blind>>
        /\ behind' = TRUE
    BY <1>5 DEF UndoUnsaved, caching
  <2>2. CacheKeyed'
    BY <1>2, <2>1, CacheNext
  <2>3. WorkerKeyed'
    <3>1. inFlight # Nothing => inFlight.key \in CacheKey
      BY <1>1 DEF ImagesOK, Rendering
    <3>2. inFlight # Nothing => Keyed(inFlight.key, inFlight.frame, generation', now', blind')
      BY <1>1, <1>2, <3>1, KeyedNext DEF PreviewInv, WorkerKeyed
    <3> QED
      BY <2>1, <3>2 DEF WorkerKeyed
  <2>4. WorkerCurrent' /\ RequestedCurrent'
    BY <2>1 DEF PreviewInv, WorkerCurrent, RequestedCurrent
  <2>5. ImagesOK'
    BY <1>1, <1>2, <1>3, <2>1 DEF ImagesOK, Onward
  <2> QED
    BY <2>2, <2>3, <2>4, <2>5 DEF PreviewInv
<1> QED
  BY <1>4, <1>5

LEMMA InstallKeeps ==
  ASSUME PreviewInv, InstallProject
  PROVE  PreviewInv'
<1>1. ImagesOK
  BY DEF PreviewInv
<1>2. /\ now' = [life |-> now.life + 1, revision |-> 0, place |-> 1] /\ clips' \in BOOLEAN
      /\ generation' \in {generation, generation + 1}
      /\ SyncCacheIdentity /\ Request("replace", FALSE)
      /\ blind' = (blind \/ generation' = generation)
  BY DEF InstallProject, RefreshViews, RequestPreview
<1>3. blind' \in BOOLEAN /\ (blind => blind') /\ ~(generation' = generation /\ ~blind')
  BY <1>1, <1>2
<1>4. now' \in Frame /\ generation' \in Nat /\ generation <= generation'
  BY <1>1, <1>2 DEF ImagesOK, Frame, Places
<1>5. Onward
  BY <1>3, <1>4 DEF Onward
<1> QED
  BY <1>2, <1>5, SyncFacts, RequestKeeps

LEMMA ShowKeeps ==
  ASSUME PreviewInv, NEW place \in Places,
         \/ Seek(place) \/ SetActiveSequence(place) \/ SetPreviewQuality(place)
  PROVE  PreviewInv'
<1>1. ImagesOK
  BY DEF PreviewInv
<1>2. now' = [now EXCEPT !.place = place] /\ UNCHANGED <<generation, blind>>
  BY DEF Seek, SetActiveSequence, SetPreviewQuality
<1>3. Onward
  BY <1>1, <1>2, PlaceNext
<1>4. clips' \in BOOLEAN /\ cache' \subseteq cache
  BY <1>1, SyncFacts DEF Seek, SetActiveSequence, SetPreviewQuality, ImagesOK, caching
<1>5. Request("replace", FALSE) \/ Request("replace", TRUE)
  BY DEF Seek, SetActiveSequence, SetPreviewQuality, RequestPreview
<1> QED
  BY <1>3, <1>4, <1>5, RequestKeeps

LEMMA TickKeeps ==
  ASSUME PreviewInv, Tick
  PROVE  PreviewInv'
<1>1. PICK place \in Places : now' = [now EXCEPT !.place = place]
  BY DEF Tick
<1>2. /\ UNCHANGED <<clips, generation, cache, blind>> /\ Request("coalesce", FALSE)
  BY DEF Tick, caching, RequestPreview
<1>3. Onward /\ now'.revision = now.revision
  BY <1>1, <1>2, PlaceNext DEF PreviewInv
<1>4. clips' \in BOOLEAN /\ cache' \subseteq cache
  BY <1>2 DEF PreviewInv, ImagesOK
<1> QED
  BY <1>2, <1>3, <1>4, RequestKeeps

\* The frame that is wanted is asked for again: another registry, size or renderer.
LEMMA AgainKeeps ==
  ASSUME PreviewInv,
         \/ ProxyReady \/ SurfaceResized
         \/ (GpuReady /\ ~latched)
  PROVE  PreviewInv'
<1>1. /\ UNCHANGED <<now, clips, blind>> /\ generation' \in {generation, generation + 1}
      /\ Request("replace", FALSE)
  BY DEF ProxyReady, SurfaceResized, GpuReady, editing, RefreshViews, RequestPreview
<1>2. cache' \subseteq cache
  BY SyncFacts DEF ProxyReady, SurfaceResized, GpuReady, caching, RefreshViews
<1>3. Onward /\ clips' \in BOOLEAN
  BY <1>1 DEF PreviewInv, ImagesOK, Onward
<1> QED
  BY <1>1, <1>2, <1>3, RequestKeeps

LEMMA SurfaceReadyKeeps ==
  ASSUME PreviewInv, SurfaceReady
  PROVE  PreviewInv'
<1>1. /\ UNCHANGED <<now, clips, generation, position, cache, viewer, ticked, behind, blind>>
      /\ inFlight' = inFlight \/ inFlight' = Superseded(inFlight)
  BY DEF SurfaceReady, editing, caching, ghosts
<1>2. Onward
  BY <1>1 DEF PreviewInv, ImagesOK, Onward
<1>3. inFlight' \in Rendering \cup {Nothing} /\ WorkerKeyed' /\ WorkerCurrent'
  <2>1. CASE inFlight' = inFlight
    BY <1>1, <2>1 DEF PreviewInv, ImagesOK, WorkerKeyed, WorkerCurrent
  <2> QED
    BY <1>1, <1>2, <2>1, SupersededKeeps
<1>4. CacheKeyed' /\ RequestedCurrent'
  BY <1>1 DEF PreviewInv, CacheKeyed, RequestedCurrent
<1>5. ImagesOK'
  BY <1>1, <1>3 DEF PreviewInv, ImagesOK
<1> QED
  BY <1>3, <1>4, <1>5 DEF PreviewInv

\* The end of a render's work.
LEMMA EndsFacts ==
  ASSUME inFlight \in Rendering, NEW outcome \in {"native", "image", "error"},
         NEW faulty \in BOOLEAN, Ends(outcome, faulty)
  PROVE  /\ inFlight' \in Rendering /\ inFlight'.current = inFlight.current
         /\ inFlight'.key = inFlight.key /\ inFlight'.frame = inFlight.frame
  BY DEF Ends, Rendering

LEMMA RenderStepKeeps ==
  ASSUME PreviewInv, RenderStep
  PROVE  PreviewInv'
<1>1. ImagesOK /\ inFlight # Nothing /\ inFlight \in Rendering
  BY DEF PreviewInv, ImagesOK, RenderStep, FindCached, Present, RenderImage, RenderError, Running
<1>2. UNCHANGED <<now, clips, generation, position, ticked, behind, blind>>
  BY DEF RenderStep, FindCached, Present, RenderImage, RenderError, Only, editing, ghosts
<1>3. inFlight.key \in CacheKey /\ inFlight.frame \in Frame /\ inFlight.gpu \in BOOLEAN
      /\ Keyed(inFlight.key, inFlight.frame, generation, now, blind)
  BY <1>1 DEF PreviewInv, WorkerKeyed, Rendering
<1>4. viewer' \in [frame : Frame \cup {Nothing}, native : BOOLEAN, failed : BOOLEAN]
  BY <1>1, <1>3 DEF RenderStep, FindCached, Present, RenderImage, RenderError, ImagesOK
<1>5. cache' \subseteq cache \cup {[key |-> inFlight.key, frame |-> inFlight.frame]}
  BY DEF RenderStep, FindCached, Present, RenderImage, RenderError
<1>6. cache' \subseteq [key : CacheKey, frame : Frame] /\ CacheKeyed'
  <2>1. [key |-> inFlight.key, frame |-> inFlight.frame] \in [key : CacheKey, frame : Frame]
    BY <1>3
  <2>2. cache' \subseteq [key : CacheKey, frame : Frame]
    BY <1>1, <1>5, <2>1 DEF ImagesOK
  <2>3. ASSUME NEW entry \in cache'
        PROVE  Keyed(entry.key, entry.frame, generation, now, blind)
    BY <1>3, <1>5 DEF PreviewInv, CacheKeyed
  <2> QED
    BY <1>2, <2>2, <2>3 DEF CacheKeyed
<1>7. /\ inFlight' \in Rendering /\ inFlight'.current = inFlight.current /\ inFlight'.key = inFlight.key
      /\ Keyed(inFlight.key, inFlight'.frame, generation, now, blind)
      /\ inFlight'.frame.revision = inFlight.frame.revision
      /\ inFlight'.frame.place = inFlight.frame.place
  <2>1. CASE FindCached
    <3>1. PICK entry \in cache :
             /\ entry.key = inFlight.key
             /\ inFlight' = [inFlight EXCEPT !.outcome = IF inFlight.current THEN "image" ELSE "stale",
                                         !.frame = entry.frame]
      BY <2>1 DEF FindCached, Entries
    <3>2. entry.frame \in Frame /\ Keyed(entry.key, entry.frame, generation, now, blind)
      BY <1>1 DEF PreviewInv, ImagesOK, CacheKeyed
    <3>3. /\ inFlight' \in Rendering /\ inFlight'.current = inFlight.current
          /\ inFlight'.key = inFlight.key /\ inFlight'.frame = entry.frame
      BY <1>1, <3>1, <3>2 DEF Rendering
    <3> QED
      BY <1>3, <3>1, <3>2, <3>3 DEF Keyed
  <2>2. CASE Present \/ RenderImage \/ RenderError
    <3>1. PICK outcome \in {"native", "image", "error"} :
             \E faulty \in BOOLEAN : Ends(outcome, faulty)
      BY <1>3, <2>2 DEF Present, RenderImage, RenderError
    <3> QED
      BY <1>1, <1>3, <3>1, EndsFacts
  <2> QED
    BY <2>1, <2>2 DEF RenderStep
<1>8. WorkerKeyed' /\ WorkerCurrent'
  BY <1>1, <1>2, <1>7 DEF PreviewInv, WorkerKeyed, WorkerCurrent
<1>9. RequestedCurrent'
  BY <1>2 DEF PreviewInv, RequestedCurrent
<1>10. ImagesOK'
  BY <1>1, <1>2, <1>4, <1>6, <1>7 DEF ImagesOK
<1> QED
  BY <1>6, <1>8, <1>9, <1>10 DEF PreviewInv

\* What the viewer shows after the outcome of a render.
LEMMA ShownFacts ==
  ASSUME ImagesOK, inFlight # Nothing
  PROVE  /\ Shown \in [frame : Frame \cup {Nothing}, native : BOOLEAN, failed : BOOLEAN]
         /\ \/ Shown = viewer
            \/ inFlight.current /\ Shown.frame = Nothing
            \/ inFlight.current /\ Shown.frame = inFlight.frame
<1>1. inFlight \in Rendering
  BY DEF ImagesOK
<1>2. inFlight.frame \in Frame /\ inFlight.current \in BOOLEAN
  BY <1>1 DEF Rendering
<1> QED
  BY <1>2 DEF Shown, ImagesOK

LEMMA FinishedKeeps ==
  ASSUME PreviewInv, PreviewFinished
  PROVE  PreviewInv'
<1>1. PICK again \in BOOLEAN : FinishRender(again)
  <2>1. (~inFlight.current \/ ~inFlight.latest) \in BOOLEAN
    OBVIOUS
  <2> QED
    BY <2>1 DEF PreviewFinished
<1>2. /\ ImagesOK /\ inFlight # Nothing
      /\ UNCHANGED <<now, clips, generation, position, cache, ticked, behind, blind>>
  BY <1>1 DEF PreviewInv, FinishRender, editing, caching, ghosts
<1>3. viewer' \in [frame : Frame \cup {Nothing}, native : BOOLEAN, failed : BOOLEAN]
  BY <1>1, <1>2, ShownFacts, ClearedFacts DEF FinishRender
<1>4. inFlight' \in Rendering \cup {Nothing} /\ WorkerKeyed' /\ WorkerCurrent'
  <2>1. CASE inFlight' = Nothing
    BY <2>1 DEF WorkerKeyed, WorkerCurrent
  <2>2. CASE inFlight' # Nothing
    <3> DEFINE frame == [now EXCEPT !.place = position]
    <3>1. /\ clips /\ \E transforming \in BOOLEAN : inFlight' = Render(frame, transforming)
      BY <1>1, <2>2 DEF FinishRender
    <3>2. /\ frame \in Frame /\ frame.life = now.life /\ frame.revision = now.revision
          /\ frame.place = position
      BY <1>2 DEF ImagesOK, Frame
    <3> HIDE DEF frame
    <3>3. /\ inFlight' \in Rendering /\ inFlight'.frame = frame
          /\ inFlight'.key.revision = frame.revision /\ inFlight'.key.place = frame.place
          /\ inFlight'.key.generation = generation'
      BY <1>2, <3>1, <3>2, RenderFacts DEF ImagesOK
    <3>4. Keyed(inFlight'.key, inFlight'.frame, generation', now', blind')
      BY <1>2, <3>2, <3>3 DEF Keyed, ImagesOK
    <3>5. ~behind => position = now.place
      BY <3>1 DEF PreviewInv, RequestedCurrent
    <3> QED
      BY <1>2, <3>2, <3>3, <3>4, <3>5 DEF WorkerKeyed, WorkerCurrent
  <2> QED
    BY <2>1, <2>2
<1>5. CacheKeyed' /\ RequestedCurrent'
  BY <1>2 DEF PreviewInv, CacheKeyed, RequestedCurrent
<1>6. ImagesOK'
  BY <1>2, <1>3, <1>4 DEF ImagesOK
<1> QED
  BY <1>4, <1>5, <1>6 DEF PreviewInv

Images ==
  <<now, clips, generation, position, inFlight, cache, viewer, ticked, behind, blind>>

\* Nothing that images depend on changes.
LEMMA SameImages ==
  ASSUME PreviewInv, UNCHANGED Images
  PROVE  PreviewInv'
  BY DEF PreviewInv, Images, ImagesOK, CacheKeyed, WorkerKeyed, WorkerCurrent, RequestedCurrent

\* The actions that leave images alone.
LEMMA OtherFacts ==
  ASSUME \/ Play \/ StartTimer \/ SurfaceUnavailable \/ GpuUnavailable
         \/ (GpuReady /\ latched)
         \/ UNCHANGED program
  PROVE  UNCHANGED Images
  BY DEF Play, StartTimer, SurfaceUnavailable, GpuUnavailable, GpuReady, program, editing,
     caching, ghosts, Images

LEMMA NextPreviews == PreviewInv /\ [PreviewsNext]_<<program, sources>> => PreviewInv'
<1> SUFFICES ASSUME PreviewInv, [PreviewsNext]_<<program, sources>>
             PROVE  PreviewInv'
  OBVIOUS
<1>1. CASE Install
  BY <1>1, InstallKeeps DEF Install
<1>2. CASE ProgramNext
  <2>1. CASE User
    BY <2>1, EditKeeps, AgainKeeps, ShowKeeps, OtherFacts, SameImages DEF User
  <2>2. CASE Gpu
    BY <2>2, AgainKeeps, SurfaceReadyKeeps, OtherFacts, SameImages DEF Gpu
  <2> QED
    BY <1>2, <2>1, <2>2, TickKeeps, RenderStepKeeps, FinishedKeeps DEF ProgramNext
<1>3. CASE UNCHANGED program
  BY <1>3, OtherFacts, SameImages
<1> QED
  BY <1>1, <1>2, <1>3 DEF PreviewsNext

-----------------------------------------------------------------------------
(* Theorems. *)

\* The inductive invariant holds in every state, whatever the user, the transport,
\* the GPU and the renders do.
THEOREM PreviewInvariance == PreviewsSpec => []PreviewInv
<1> QED
  BY InitPreviews, NextPreviews, PTL DEF PreviewsSpec

\* What requests, edits and the steps of a render do to the viewer: it is cleared,
\* or its surface is presented on.
LEMMA OnlyFinishedShows ==
  ASSUME ImagesOK, [PreviewsNext]_<<program, sources>>, ~PreviewFinished,
         viewer' # viewer
  PROVE  viewer'.frame = Nothing \/ viewer'.native
<1>1. ASSUME NEW policy, NEW twice, Request(policy, twice)
      PROVE  viewer'.frame = Nothing \/ viewer'.native
  <2>1. viewer' = Cleared(viewer)
    BY <1>1 DEF Request
  <2> QED
    BY <2>1, ClearedFacts DEF ImagesOK
<1>2. CASE Present
  BY <1>2 DEF Present, ImagesOK
<1>3. CASE Install
  BY <1>1, <1>3 DEF Install, InstallProject, RefreshViews, RequestPreview
<1>4. CASE User
  <2>1. CASE Edit \/ EditLive \/ UndoUnsaved \/ ProxyReady \/ Play
    BY <1>1, <2>1 DEF Edit, EditLive, UndoUnsaved, ProxyReady, Play, RefreshViews, RequestPreview
  <2>2. ASSUME NEW place \in Places,
               Seek(place) \/ SetActiveSequence(place) \/ SetPreviewQuality(place)
        PROVE  viewer'.frame = Nothing \/ viewer'.native
    BY <1>1, <2>2 DEF Seek, SetActiveSequence, SetPreviewQuality, RequestPreview
  <2> QED
    BY <1>4, <2>1, <2>2 DEF User
<1>5. CASE Tick
  BY <1>1, <1>5 DEF Tick, RequestPreview
<1>6. CASE Gpu
  BY <1>1, <1>6 DEF Gpu, StartTimer, SurfaceReady, SurfaceUnavailable, SurfaceResized,
     GpuReady, GpuUnavailable, RequestPreview
<1>7. CASE FindCached \/ RenderImage \/ RenderError
  BY <1>7 DEF FindCached, RenderImage, RenderError
<1>8. CASE UNCHANGED program
  BY <1>8 DEF program
<1> QED
  BY <1>2, <1>3, <1>4, <1>5, <1>6, <1>7, <1>8 DEF PreviewsNext, ProgramNext, RenderStep

\* No image that was asked for before the last seek or edit gets into the viewer
\* after it, however many renders, caches, registries and renderers later.
THEOREM NothingOlderTheorem == PreviewsSpec => NothingOlder
<1> DEFINE Good ==
      viewer'.frame # viewer.frame /\ viewer'.frame # Nothing /\ ~viewer'.native =>
        \/ viewer'.frame = now
        \/ ticked /\ \E place \in Places : viewer'.frame = [now EXCEPT !.place = place]
        \/ behind \/ blind
<1>1. ASSUME PreviewInv, [PreviewsNext]_<<program, sources>>
      PROVE  Good
  <2> SUFFICES ASSUME viewer'.frame # viewer.frame, viewer'.frame # Nothing, ~viewer'.native,
                      ~behind, ~blind
               PROVE  \/ viewer'.frame = now
                      \/ ticked /\ \E place \in Places : viewer'.frame = [now EXCEPT !.place = place]
    OBVIOUS
  <2>1. ImagesOK
    BY <1>1 DEF PreviewInv
  <2>2. PreviewFinished
    BY <1>1, <2>1, OnlyFinishedShows
  <2>3. inFlight # Nothing /\ (viewer' = Shown \/ viewer' = Cleared(Shown))
    BY <2>2 DEF PreviewFinished, FinishRender
  <2>4. viewer' = Shown
    BY <2>1, <2>3, ShownFacts, ClearedFacts DEF Cleared
  <2>5. inFlight.current /\ viewer'.frame = inFlight.frame
    BY <2>1, <2>3, <2>4, ShownFacts
  <2>6. inFlight.frame \in Frame /\ now \in Frame
    BY <2>1, <2>3 DEF ImagesOK, Rendering
  <2>7. inFlight.frame.life = now.life /\ inFlight.frame.revision = now.revision
    BY <1>1, <2>3, <2>5 DEF PreviewInv, WorkerKeyed, WorkerCurrent, Keyed
  <2>8. inFlight.frame = [now EXCEPT !.place = inFlight.frame.place] /\ inFlight.frame.place \in Places
    BY <2>6, <2>7 DEF Frame
  <2>9. ~ticked => inFlight.frame = now
    BY <1>1, <2>3, <2>5, <2>6, <2>7 DEF PreviewInv, WorkerCurrent, Frame
  <2> QED
    BY <2>5, <2>8, <2>9
<1>2. PreviewInv /\ [PreviewsNext]_<<program, sources>> => [Good]_program
  BY <1>1
<1> QED
  BY <1>2, PreviewInvariance, PTL DEF PreviewsSpec, NothingOlder
=============================================================================
