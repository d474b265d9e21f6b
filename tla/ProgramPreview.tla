--------------------------- MODULE ProgramPreview ---------------------------
(***************************************************************************)
(* The preview of the program viewer (app/editor_controller.cpp, with the  *)
(* renderers of render_engine, the epochs of playback's frame provider and *)
(* the ProgramViewer of desktop_ui).  The UI thread asks for the frame at  *)
(* the playhead; at most one render is in flight, on a thread of the pool; *)
(* what is asked meanwhile cancels it (Replace), or waits for it           *)
(* (Coalesce, the ticks of the transport).  Renders go to the GPU once     *)
(* there is one, which may present on the surface of the viewer, and fall  *)
(* back to the CPU; a frame that was downloaded is cached.                 *)
(*                                                                         *)
(* A frame is what it depends on.  preview_epoch_ and                      *)
(* preview_request_serial_ only grow and are only compared with the values *)
(* that a render was launched with: each render has a flag for either.     *)
(* Left out are the program output window, scopes, labels, safe guides and *)
(* the comparison of a trim.                                               *)
(***************************************************************************)
EXTENDS Integers

CONSTANT Nothing

Places == 1..2   \* a position in a sequence, at a quality

VARIABLES
  now,        \* the frame at the playhead: the project, the revision, and the
              \* playhead_, active sequence and quality
  clips,      \* the active sequence has clips on video tracks
  generation, \* playback_registry_->generation()
  playing,    \* the playback timer runs
  position,   \* requested_preview_position_
  inFlight,   \* the render in flight, until its finished() is handled, or Nothing
  cache,      \* preview_cache_: frames by their keys
  identity,   \* preview_cache_revision_ and _generation_
  viewer,     \* what it shows: frame_, or the surface if native_presented_,
              \* and whether that is for an error
  gpu,        \* gpu_renderer_: "none", "offscreen" or "native"
  init,       \* the GPU that is being initialized: "none", "offscreen" or "native"
  tried,      \* gpu_init_started_, gpu_offscreen_attempted_, and whether the
              \* viewer has reported what became of its surface
  latched,    \* gpu_fallback_latched_
  left        \* bound: what the user may do yet, ticks apart

(* What the code does not keep. *)
VARIABLES
  ticked,     \* a tick has asked since the last request that cancels
  behind,     \* the editor was changed and no preview asked for, until the
              \* next request that cancels
  blind       \* another version of the project was opened, generation unmoved

editing == <<now, clips, generation, playing>>
gpuState == <<gpu, init, tried, latched>>
caching == <<cache, identity>>
ghosts == <<ticked, behind, blind>>
program == <<editing, position, inFlight, caching, viewer, gpuState, left, ghosts>>

(* The frame to show; a sequence without clips has none. *)
Wanted == IF clips THEN now ELSE Nothing

(* A project without clips, or one of which the first frame is shown; the  *)
(* program starts (a "cold" GPU), or has initialized the GPU.              *)
ProgramInit(start, requests) ==
  /\ now = [life |-> 1, revision |-> 0, place |-> 1]
  /\ clips \in BOOLEAN /\ generation = 0 /\ playing \in {FALSE, requests > 0}
  /\ position = 1 /\ inFlight = Nothing
  /\ cache = {} /\ identity = [revision |-> 0, generation |-> 0]
  /\ gpu = (IF start = "cold" THEN "none" ELSE start)
  /\ latched = (start = "none")
  /\ tried = [any |-> start # "cold", offscreen |-> start # "cold", reported |-> start # "cold"]
  /\ init = "none"
  /\ viewer = [frame |-> Wanted, native |-> clips /\ start = "native", failed |-> FALSE]
  /\ left = requests
  /\ ticked = FALSE /\ behind = FALSE /\ blind = FALSE

(***************************************************************************)
(* Requests                                                                *)
(***************************************************************************)
Key(frame, registered) ==
  [revision |-> frame.revision, place |-> frame.place, generation |-> registered]

(* Mutant: the render is not told of the new epoch. *)
SupersededStays(w) == IF w = Nothing THEN Nothing ELSE [w EXCEPT !.latest = FALSE]

(* A new epoch: the outcome of the render in flight is not looked at. *)
Superseded(w) ==
  IF w = Nothing THEN Nothing
  ELSE [w EXCEPT !.current = FALSE, !.latest = FALSE, !.failed = FALSE,
                 !.outcome = IF @ = "none" THEN @ ELSE "stale"]

(* Mutant: a tick cancels, as a seek does. *)
OutrunCancels(w) == Superseded(w)

(* A new serial only: its frame is shown, and another render follows. *)
Outrun(w) == IF w = Nothing THEN Nothing ELSE [w EXCEPT !.latest = FALSE]

(* clearFrame, which leaves the surface as it is. *)
Cleared(v) == IF v.native THEN v ELSE [v EXCEPT !.frame = Nothing, !.failed = FALSE]

(* What launchPreviewRequest launches.  No surface is used while a clip is *)
(* transformed on the viewer.                                              *)
Render(frame, transforming) ==
  [frame |-> frame, key |-> Key(frame, generation'),
   gpu |-> gpu' # "none", presents |-> gpu' = "native" /\ ~transforming,
   outcome |-> "none", failed |-> FALSE,
   current |-> TRUE, latest |-> TRUE]

(* requestPreview, once or twice in a row: the second request supersedes   *)
(* what the first launches.                                                *)
Request(policy, twice) ==
  /\ behind' = (behind /\ policy = "coalesce")
  /\ ticked' = (policy = "coalesce")
  /\ IF clips'
       THEN /\ position' = now'.place
            /\ UNCHANGED viewer
            /\ IF inFlight # Nothing
                 THEN inFlight' = IF policy = "replace" THEN Superseded(inFlight) ELSE Outrun(inFlight)
                 ELSE \E transforming \in BOOLEAN :
                        LET render == Render(now', transforming)
                        IN inFlight' = IF twice THEN Superseded(render) ELSE render
       ELSE /\ inFlight' = Superseded(inFlight)
            /\ viewer' = Cleared(viewer)
            /\ UNCHANGED position

RequestPreview(policy) == Request(policy, FALSE)

(* syncPreviewCacheIdentity *)
SyncCacheIdentity ==
  /\ identity' = [revision |-> now'.revision, generation |-> generation']
  /\ cache' = IF generation' # identity.generation THEN {}
              ELSE IF now'.revision # identity.revision
                     THEN {entry \in cache : entry.key.revision # identity.revision}
              ELSE cache

(* Mutant: no preview is asked for. *)
RefreshViewsOnly ==
  SyncCacheIdentity /\ UNCHANGED <<position, inFlight, viewer, ticked, behind>>

(* What of refreshViews matters here. *)
RefreshViews == SyncCacheIdentity /\ RequestPreview("replace")

(***************************************************************************)
(* The user                                                                *)
(***************************************************************************)
(* Bound: what the user does. *)
Do == left > 0 /\ left' = left - 1

(* An edit, undo or redo.  Only the cut of a multicam leaves the transport *)
(* running; some edits rebuild the registry (rebuildPlaybackRegistry).     *)
Edit ==
  /\ Do
  /\ now' = [now EXCEPT !.revision = @ + 1]
  /\ clips' \in BOOLEAN
  /\ generation' \in {generation, generation + 1}
  /\ playing' \in {FALSE, playing}
  /\ UNCHANGED <<gpuState, blind>>
  /\ RefreshViews

(* The steps of a drag on the viewer do not refresh the views. *)
EditLive ==
  /\ Do
  /\ now' = [now EXCEPT !.revision = @ + 1]
  /\ clips /\ playing' = FALSE
  /\ UNCHANGED <<clips, generation, caching, gpuState, blind>>
  /\ RequestPreview("replace")

(* undo or redo, of which persistSnapshot fails: nothing is refreshed. *)
UndoUnsaved ==
  /\ Do
  /\ now' = [now EXCEPT !.revision = @ + 1]
  /\ clips' \in BOOLEAN
  /\ playing' = FALSE
  /\ behind' = TRUE
  /\ UNCHANGED <<generation, position, inFlight, caching, viewer, gpuState, ticked, blind>>

(* installProject *)
InstallProject ==
  /\ Do
  /\ now' = [life |-> now.life + 1, revision |-> 0, place |-> 1]
  /\ clips' \in BOOLEAN
  /\ generation' \in {generation, generation + 1}
  /\ playing' = FALSE
  /\ UNCHANGED <<gpuState>>
  /\ RefreshViews
  /\ blind' = (blind \/ generation' = generation)

(* seek, also that of a loop *)
Seek(place) ==
  /\ Do
  /\ now' = [now EXCEPT !.place = place]
  /\ UNCHANGED <<clips, generation, playing, caching, gpuState, blind>>
  /\ RequestPreview("replace")

(* Something is registered and the views are refreshed: a proxy is ready. *)
ProxyReady ==
  /\ Do
  /\ generation' = generation + 1
  /\ UNCHANGED <<now, clips, playing, gpuState, blind>>
  /\ RefreshViews

(* setActiveSequence refreshes the views and asks once more. *)
SetActiveSequence(place) ==
  /\ Do
  /\ place # now.place
  /\ now' = [now EXCEPT !.place = place]
  /\ clips' \in BOOLEAN
  /\ UNCHANGED <<generation, playing, gpuState, blind>>
  /\ SyncCacheIdentity
  /\ Request("replace", TRUE)

SetPreviewQuality(place) ==
  /\ Do
  /\ place # now.place
  /\ now' = [now EXCEPT !.place = place]
  /\ cache' = {}
  /\ UNCHANGED <<clips, generation, playing, identity, gpuState, blind>>
  /\ RequestPreview("replace")

Play ==
  /\ Do
  /\ playing' = TRUE
  /\ UNCHANGED <<now, clips, generation, position, inFlight, caching, viewer, gpuState, ghosts>>

(* advancePlayback, which may be the last: at the end, or before a pause. *)
Tick ==
  /\ playing
  /\ \E place \in Places : now' = [now EXCEPT !.place = place]
  /\ UNCHANGED <<clips, generation, caching, gpuState, left, blind>>
  /\ RequestPreview("coalesce")
  /\ playing' \in BOOLEAN

(***************************************************************************)
(* The GPU                                                                 *)
(***************************************************************************)
(* startGpuInitialization *)
StartOffscreen ==
  IF latched \/ init # "none" \/ gpu # "none"
    THEN UNCHANGED <<init, tried>>
    ELSE init' = "offscreen" /\ tried' = [tried EXCEPT !.any = TRUE, !.offscreen = TRUE]

(* The timer of the constructor. *)
StartTimer ==
  /\ ~tried.any
  /\ StartOffscreen
  /\ UNCHANGED <<editing, position, inFlight, caching, viewer, gpu, latched, left, ghosts>>

(* nativePresentationReady: startGpuInitializationWithPresentation.  What  *)
(* is being initialized is waited for, and dropped.                        *)
SurfaceReady ==
  /\ ~tried.reported
  /\ IF latched THEN tried' = [tried EXCEPT !.reported = TRUE] /\ UNCHANGED <<inFlight, init>>
     ELSE /\ tried' = [tried EXCEPT !.reported = TRUE, !.any = TRUE]
          /\ init' = "native"
          /\ inFlight' = Superseded(inFlight)
  /\ UNCHANGED <<editing, position, caching, viewer, gpu, latched, left, ghosts>>

(* nativePresentationUnavailable *)
SurfaceUnavailable ==
  /\ ~tried.reported
  /\ IF tried.any
       THEN tried' = [tried EXCEPT !.reported = TRUE] /\ UNCHANGED init
       ELSE /\ tried' = [any |-> TRUE, offscreen |-> TRUE, reported |-> TRUE]
            /\ init' = "offscreen"
  /\ UNCHANGED <<editing, position, inFlight, caching, viewer, gpu, latched, left, ghosts>>

(* nativePresentationResized *)
SurfaceResized ==
  /\ Do
  /\ gpu # "none"
  /\ UNCHANGED <<editing, caching, gpuState, blind>>
  /\ RequestPreview("replace")

(* onGpuInitFinished and attachGpuRenderer: a GPU that can be used, which  *)
(* may not be able to present ...                                          *)
GpuReady ==
  /\ init # "none"
  /\ init' = "none"
  /\ UNCHANGED <<editing, identity, tried, latched, left, blind>>
  /\ IF latched THEN UNCHANGED <<position, inFlight, cache, viewer, gpu, ticked, behind>>
     ELSE /\ gpu' \in {"offscreen", init}
          /\ cache' = {}
          /\ RequestPreview("replace")

(* ... and one that cannot. *)
GpuUnavailable ==
  /\ init # "none"
  /\ IF latched \/ gpu # "none" THEN init' = "none" /\ UNCHANGED <<tried, latched>>
     ELSE IF ~tried.offscreen
            THEN init' = "offscreen" /\ tried' = [tried EXCEPT !.offscreen = TRUE]
                 /\ UNCHANGED latched
            ELSE init' = "none" /\ latched' = TRUE /\ UNCHANGED tried
  /\ UNCHANGED <<editing, position, inFlight, caching, viewer, gpu, left, ghosts>>

(***************************************************************************)
(* The render, on a thread of the pool.  Of its steps others see the last: *)
(* the frame is cached, or is on the surface.  A newer epoch may end it at *)
(* any check before, or come after the last check.                         *)
(***************************************************************************)
Running == inFlight # Nothing /\ inFlight.outcome = "none"

Entries(key) == {entry \in cache : entry.key = key}

Only == UNCHANGED <<editing, position, identity, gpuState, left, ghosts>>

Ends(outcome, failed) ==
  inFlight' = IF inFlight.current THEN [inFlight EXCEPT !.outcome = outcome, !.failed = failed]
            ELSE [inFlight EXCEPT !.outcome = "stale"]

(* RenderCache::get: only without a GPU is the cache asked. *)
FindCached ==
  /\ Running
  /\ ~inFlight.gpu
  /\ \E entry \in Entries(inFlight.key) :
       inFlight' = [inFlight EXCEPT !.outcome = IF inFlight.current THEN "image" ELSE "stale",
                                !.frame = entry.frame]
  /\ Only /\ UNCHANGED <<cache, viewer>>

(* GpuTimelineRenderer::request_frame and GpuRenderer::present *)
Present ==
  /\ Running
  /\ inFlight.presents
  /\ Ends("native", FALSE)
  /\ viewer' = IF viewer.native THEN [viewer EXCEPT !.frame = inFlight.frame] ELSE viewer
  /\ Only /\ UNCHANGED cache

(* A frame of the GPU that is downloaded (GpuRenderer::download), not to   *)
(* be presented or because it could not, or one of the CPU                 *)
(* (cpu_fallback), because the GPU failed or cannot render it.             *)
RenderImage ==
  /\ Running
  /\ \E failed \in {FALSE, inFlight.gpu} : Ends("image", failed)
  /\ cache' = (cache \ Entries(inFlight.key)) \cup {[key |-> inFlight.key, frame |-> inFlight.frame]}
  /\ Only /\ UNCHANGED viewer

(* The CPU has none either, or the request was found to be stale.  An      *)
(* entry that was not found had been evicted.                              *)
RenderError ==
  /\ Running
  /\ \E failed \in {FALSE, inFlight.gpu} : Ends("error", failed)
  /\ cache' = IF inFlight.gpu THEN cache ELSE cache \ Entries(inFlight.key)
  /\ Only /\ UNCHANGED viewer

RenderStep == FindCached \/ Present \/ RenderImage \/ RenderError

(* What the outcome of a render does to the viewer. *)
Shown ==
  IF ~inFlight.current THEN viewer
  ELSE [frame |-> IF inFlight.outcome = "error" THEN Nothing ELSE inFlight.frame,
        native |-> inFlight.outcome = "native", failed |-> inFlight.outcome = "error"]

(* finished(): an outcome of the current epoch is shown; if anything was   *)
(* asked for since the launch, the next render is launched.                *)
FinishRender(again) ==
  /\ inFlight # Nothing /\ inFlight.outcome # "none"
  /\ UNCHANGED <<editing, position, caching, init, tried, left, ghosts>>
  /\ latched' = (latched \/ (inFlight.current /\ inFlight.failed))
  /\ gpu' = IF latched' THEN "none" ELSE gpu
  /\ IF ~again
       THEN inFlight' = Nothing /\ viewer' = Shown
     ELSE IF clips
       THEN /\ \E transforming \in BOOLEAN :
                 inFlight' = Render([now EXCEPT !.place = position], transforming)
            /\ viewer' = Shown
     ELSE inFlight' = Nothing /\ viewer' = Cleared(Shown)

PreviewFinished == FinishRender(~inFlight.current \/ ~inFlight.latest)

User ==
  \/ Edit \/ EditLive \/ UndoUnsaved \/ ProxyReady \/ Play
  \/ \E place \in Places : Seek(place) \/ SetActiveSequence(place) \/ SetPreviewQuality(place)

Gpu == StartTimer \/ SurfaceReady \/ SurfaceUnavailable \/ SurfaceResized \/ GpuReady \/ GpuUnavailable

(* All but installProject. *)
ProgramNext == User \/ Tick \/ Gpu \/ RenderStep \/ PreviewFinished

(* A render ends, and its finished() is handled.  Nothing else must occur. *)
PreviewFairness == WF_program(RenderStep) /\ WF_program(PreviewFinished)

(***************************************************************************)
(* Properties                                                              *)
(***************************************************************************)
(* When the user has stopped, the viewer comes to show the frame at the    *)
(* playhead, whatever was asked for and lost on the way, or says why it    *)
(* cannot.                                                                 *)
ProgramIsShown ==
  <>[]~playing => <>[](\/ viewer.frame = Wanted \/ viewer.failed
                       \/ behind \/ blind \/ (viewer.native /\ ~clips))

(* As long as the transport plays, frames reach the viewer: ticks let the  *)
(* render in flight end.                                                   *)
TransportPresents ==
  []<><<Tick /\ clips>>_program => []<><<PreviewFinished /\ inFlight.current>>_program

(* No image that was asked for before the last seek or edit gets into the  *)
(* viewer after it; what the ticks have asked for since then may.          *)
NothingOlder ==
  [][viewer'.frame # viewer.frame /\ viewer'.frame # Nothing /\ ~viewer'.native =>
       \/ viewer'.frame = now
       \/ ticked /\ \E place \in Places : viewer'.frame = [now EXCEPT !.place = place]
       \/ behind \/ blind]_program
=============================================================================
