--------------------------- MODULE SourceMonitor ----------------------------
(***************************************************************************)
(* The preview of the source monitor (app/editor_controller.cpp): the      *)
(* frame of the loaded asset at its own playhead, decoded on a thread of   *)
(* the pool.  Whatever is asked for supersedes the decodes in flight, and  *)
(* the end of a superseded decode launches another.  loadSourceAsset and   *)
(* installProject take the decode in flight for none, so there may be      *)
(* several.                                                                *)
(*                                                                         *)
(* Only the decode of the current source_preview_epoch_ is more than a     *)
(* number.  (Its serial never changes without the epoch.)  A hit in the    *)
(* preview cache is a decode like others: an entry is for an asset, time   *)
(* and state of the registry, and only registered assets are decoded.      *)
(***************************************************************************)
EXTENDS Integers

CONSTANTS Assets, Nothing

Places == 1..2   \* of the playhead of an asset

VARIABLES
  asset,    \* source_asset_id_, or Nothing
  at,       \* source_playhead_
  rolling,  \* the timer of source playback runs
  flying,   \* source_preview_in_flight_
  decode,   \* the decode of the current epoch, until it is handled, or Nothing
  stale,    \* the number of other decodes that are not handled yet
  monitor,  \* the source viewer: its frame, and whether that is for an error
  budget    \* bound: what the user may do yet

vars == <<asset, at, rolling, flying, decode, stale, monitor, budget>>

Wanted == IF asset = Nothing THEN Nothing ELSE [asset |-> asset, at |-> at]

Init(actions) ==
  /\ asset = Nothing /\ at = 1 /\ rolling = FALSE
  /\ flying = FALSE /\ decode = Nothing /\ stale = 0
  /\ monitor = [frame |-> Nothing, failed |-> FALSE]
  /\ budget = actions

Do == budget > 0 /\ budget' = budget - 1

(* The decodes that are superseded by a new epoch. *)
AllDecodes == stale + (IF decode = Nothing THEN 0 ELSE 1)

(* launchSourcePreviewRequest, with an asset. *)
Launch(others) ==
  /\ decode' = [frame |-> Wanted', outcome |-> "none"]
  /\ stale' = others
  /\ flying' = TRUE

(* requestSourcePreview *)
Request ==
  IF flying THEN decode' = Nothing /\ stale' = AllDecodes /\ UNCHANGED flying
  ELSE Launch(AllDecodes)

LoadSourceAsset(loaded) ==
  /\ Do
  /\ asset' = loaded /\ at' = 1 /\ rolling' = FALSE
  /\ Launch(AllDecodes)
  /\ UNCHANGED monitor

SeekSource(place) ==
  /\ Do
  /\ asset # Nothing
  /\ at' = place
  /\ UNCHANGED <<asset, rolling, monitor>>
  /\ Request

PlaySource ==
  /\ Do
  /\ asset # Nothing
  /\ rolling' = TRUE
  /\ UNCHANGED <<asset, at, flying, decode, stale, monitor>>

(* advanceSourcePlayback, which stops at the end. *)
SourceTick ==
  /\ rolling
  /\ at' \in Places
  /\ rolling' \in BOOLEAN
  /\ UNCHANGED <<asset, monitor, budget>>
  /\ Request

(* What installProject does to the source monitor: nothing is cancelled,   *)
(* though the epoch changes.                                               *)
Unload ==
  /\ asset' = Nothing /\ at' = 1 /\ rolling' = FALSE
  /\ flying' = FALSE /\ decode' = Nothing /\ stale' = AllDecodes
  /\ monitor' = [frame |-> Nothing, failed |-> FALSE]
  /\ UNCHANGED budget

(* The work of the thread. *)
DecodeStep ==
  /\ decode # Nothing /\ decode.outcome = "none"
  /\ \E outcome \in {"image", "error"} : decode' = [decode EXCEPT !.outcome = outcome]
  /\ UNCHANGED <<asset, at, rolling, flying, stale, monitor, budget>>

(* finished() of the decode of this epoch ... *)
DecodeFinished ==
  /\ decode # Nothing /\ decode.outcome # "none"
  /\ flying' = FALSE /\ decode' = Nothing
  /\ monitor' = IF decode.outcome = "image" THEN [frame |-> decode.frame, failed |-> FALSE]
                ELSE [frame |-> Nothing, failed |-> TRUE]
  /\ UNCHANGED <<asset, at, rolling, stale, budget>>

(* ... and of one before, for which the frame is asked for again. *)
StaleFinished ==
  /\ stale > 0
  /\ UNCHANGED <<asset, at, rolling, budget>>
  /\ IF asset = Nothing
       THEN /\ flying' = FALSE /\ stale' = stale - 1
            /\ monitor' = [frame |-> Nothing, failed |-> FALSE]
            /\ UNCHANGED decode
       ELSE Launch(AllDecodes - 1) /\ UNCHANGED monitor

Next ==
  \/ \E loaded \in Assets : LoadSourceAsset(loaded)
  \/ \E place \in Places : SeekSource(place)
  \/ PlaySource \/ SourceTick
  \/ DecodeStep \/ DecodeFinished \/ StaleFinished

(* Decodes end, and their finished() is handled. *)
Fairness == WF_vars(DecodeStep) /\ WF_vars(DecodeFinished) /\ WF_vars(StaleFinished)

(* When the user has stopped, the source monitor comes to show the frame   *)
(* that is asked for, or none if there is an error.  Two decodes may       *)
(* supersede each other for ever: an asset was loaded over another's.      *)
SourceIsShown ==
  <>[]~rolling => <>[](monitor.frame = Wanted \/ monitor.failed \/ stale > 0)
=============================================================================
