----------------------------- MODULE UserEdits -----------------------------
(***************************************************************************)
(* What the user does to a selection on the timeline                       *)
(* (app/editor_controller.cpp): each handler computes a batch of commands  *)
(* from the timeline as it is, and TimelineEditor::applyBatch runs them    *)
(* one after the other on one candidate, all of them or none.  A command   *)
(* of a batch may thus meet what an earlier one has moved, cut or removed. *)
(*                                                                         *)
(* Handlers that send a single command (roll, slip, slide, split at the    *)
(* pointer, close gap, replace media) are actions of Timeline.  A frame is *)
(* one unit of time here.                                                  *)
(***************************************************************************)
EXTENDS Timeline

CONSTANTS
  MaxSelected,   \* bound: selected clips
  MaxBatches     \* bound: accepted edits before the last batch

UserEditsAssumption == MaxSelected \in Nat /\ MaxBatches \in Nat /\ MaxBatches < MaxEdits

ASSUME UserEditsAssumption

(* selected_clip_ids_, which setClipSelection fills. *)
Selections == UNION {kSubset(n, DOMAIN clips) : n \in 1..MaxSelected}

(* expandLinkedSelection; linked is linked_selection_enabled_. *)
Expanded(ids, linked) == UNION {Selected(clips, k, linked) : k \in ids}

(* The clips of a selection that get a command, by id: one of each group,  *)
(* the others are consumed.                                                *)
Heads(ids, linked) ==
  Ascending({k \in ids : \A j \in ids : j < k => k \notin Selected(clips, j, linked)})

(* applyOperation for the commands of batches; reserved are the ids of the *)
(* clips that a batch starts from or makes.                                *)
ApplyOperation(cs, c) ==
  CASE c.op = "Insert" -> InsertClipCommand(cs, c.reserved \cup DOMAIN cs, c.id, c.clip, c.mode)
    [] c.op = "Move" -> MoveClipCommand(cs, c.reserved, c.id, c.to, c.start, c.mode, c.linked)
    [] c.op = "Trim" -> TrimClipCommand(cs, c.id, c.start, c.dur, c.src, c.len, c.mode, c.linked)
    [] c.op = "Split" -> SplitClipCommand(cs, c.id, c.at, c.linked)
    [] c.op = "Remove" -> RemoveClipCommand(cs, c.id, c.ripple, c.linked)
    [] c.op = "SetLinkedGroup" -> SetClipLinkedGroupCommand(cs, c.id, c.link)

(* TimelineEditor::applyBatch. *)
Batch(commands) ==
  LET applied[n \in 0..Len(commands)] ==
        IF n = 0 THEN {clips}
        ELSE UNION {ApplyOperation(cs, commands[n]) : cs \in applied[n - 1]}
  IN  applied[Len(commands)]

(* The batch that moves the media of the clips by shift(k). *)
CommitBatch(op, ids, mode, shift(_), commands) ==
  /\ commands # <<>>
  /\ Accept(op, ids, mode, [k \in ids |-> shift(k)], Len(commands))
  /\ Clips(Batch(commands))

NoShift(k) == 0

(***************************************************************************)
(* Splitting, removing, linking.                                           *)
(***************************************************************************)
SplitAll(ids, t, linked) ==
  LET ks == Heads(ids, linked) IN
  CommitBatch("Split", Expanded(ids, linked), "reject", NoShift,
              [n \in DOMAIN ks |-> [op |-> "Split", id |-> ks[n], at |-> t, linked |-> linked]])

SplitSelectedClip ==
  \E ids \in Selections, t \in Times, linked \in BOOLEAN : SplitAll(ids, t, linked)

(* clipsCoveringPlayhead on the unlocked tracks among tracks. *)
Covering(t, tracks) ==
  {k \in DOMAIN clips : /\ clips[k].start <= t /\ t < End(clips[k])
                        /\ clips[k].track \in tracks \ locked}

(* The razor on all tracks: clips that start at t stay whole, unless they  *)
(* are companions of one that does not.                                    *)
Inside(t, tracks) == {k \in Covering(t, tracks) : clips[k].start < t}

AddEditsAt ==
  \E t \in Times, linked \in BOOLEAN : SplitAll(Inside(t, Tracks), t, linked)

DeleteSelectedClip ==
  \E ids \in Selections, ripple \in BOOLEAN, linked \in BOOLEAN :
    LET ks == Heads(ids, linked) IN
    CommitBatch("Remove", Expanded(ids, linked), IF ripple THEN "ripple" ELSE "reject", NoShift,
                [n \in DOMAIN ks |->
                   [op |-> "Remove", id |-> ks[n], ripple |-> ripple, linked |-> linked]])

UnlinkSelectedClips ==
  \E ids \in Selections :
    LET ks == Ascending(ids) IN
    CommitBatch("Unlink", ids, "reject", NoShift,
                [n \in DOMAIN ks |-> [op |-> "SetLinkedGroup", id |-> ks[n], link |-> 0]])

MoveTo(k, to, start, mode, linked) ==
  [op |-> "Move", reserved |-> DOMAIN clips, id |-> k, to |-> to, start |-> start, mode |-> mode,
   linked |-> linked]

(* Companions that do not start with the active clip are moved there. *)
ResyncLinkedAvSelection ==
  \E active \in DOMAIN clips :
    LET start == clips[active].start
        astray == {k \in Selected(clips, active, TRUE) : clips[k].start # start}
        ks == PlanOrder(clips, astray, order)
    IN  CommitBatch("Move", astray, "reject", LAMBDA k : start - clips[k].start,
                    [n \in DOMAIN ks |-> MoveTo(ks[n], clips[ks[n]].track, start, "reject", FALSE)])

(***************************************************************************)
(* Moving and trimming.                                                    *)
(***************************************************************************)
(* commitTimelineBatchEdit in mode Move: new starts from the old ones; the *)
(* active clip goes to the track under the pointer.                        *)
DragSelection(ids, delta, mode, linked, to(_)) ==
  /\ \A k \in ids : clips[k].start + delta >= 0
  /\ LET ks == Heads(ids, linked) IN
     CommitBatch("Move", Expanded(ids, linked), mode, LAMBDA k : delta,
                 [n \in DOMAIN ks |->
                    MoveTo(ks[n], to(ks[n]), clips[ks[n]].start + delta, mode, linked)])

MoveSelection ==
  \E ids \in Selections, delta \in Times \cup {-t : t \in Times}, mode \in Modes,
     linked \in BOOLEAN :
    \E active \in ids, there \in Range(order) :
      DragSelection(ids, delta, mode, linked,
                    LAMBDA k : IF k = active THEN there ELSE clips[k].track)

(* nudgeTimelineSelection: by frames, on the clips' own tracks, and with   *)
(* the intents of the keyboard.                                            *)
NudgeTimelineSelection ==
  \E ids \in Selections, frames \in {-1, 1}, mode \in {"reject", "ripple"}, linked \in BOOLEAN :
    DragSelection(ids, frames, mode, linked, LAMBDA k : clips[k].track)

(* Trims of one clip of each group to the bounds from(k) and to(k), with   *)
(* the source range computed from the timeline before the batch.           *)
TrimAll(ids, mode, linked, from(_), to(_)) ==
  LET asked(k) == Retrimmed(clips[k], from(k), to(k))
      ks == Heads(ids, linked)
      headOf(k) == CHOOSE j \in ids : /\ k \in Selected(clips, j, linked)
                                      /\ \A i \in ids : k \in Selected(clips, i, linked) => j <= i
  IN  /\ \A n \in DOMAIN ks : WellFormed(asked(ks[n]))
      /\ CommitBatch("Trim", Expanded(ids, linked), mode,
                     LAMBDA k : Taken(clips[headOf(k)], from(headOf(k)), mode),
                     [n \in DOMAIN ks |->
                        [op |-> "Trim", id |-> ks[n], start |-> from(ks[n]),
                         dur |-> to(ks[n]) - from(ks[n]), src |-> asked(ks[n]).src,
                         len |-> asked(ks[n]).len, mode |-> mode, linked |-> linked]])

(* commitTimelineBatchEdit in modes TrimIn and TrimOut. *)
TrimSelection ==
  \E ids \in Selections, delta \in {-1, 1}, head \in BOOLEAN, mode \in Modes, linked \in BOOLEAN :
    TrimAll(ids, mode, linked,
            LAMBDA k : clips[k].start + (IF head THEN delta ELSE 0),
            LAMBDA k : End(clips[k]) + (IF head THEN 0 ELSE delta))

(* On the tracks that are targeted. *)
TrimHeadToPlayhead ==
  \E t \in Times, tracks \in SUBSET Range(order), mode \in {"overwrite", "ripple"},
     linked \in BOOLEAN :
    TrimAll(Inside(t, tracks), mode, linked, LAMBDA k : t, LAMBDA k : End(clips[k]))

TrimTailToPlayhead ==
  \E t \in Times, tracks \in SUBSET Range(order), mode \in {"overwrite", "ripple"},
     linked \in BOOLEAN :
    TrimAll(Inside(t, tracks), mode, linked, LAMBDA k : clips[k].start, LAMBDA k : t)

(***************************************************************************)
(* New clips.                                                              *)
(***************************************************************************)
(* The batch that inserts the clips new under the ids ks. *)
InsertAll(ks, new, mode) ==
  CommitBatch("Insert", Range(ks), mode, NoShift,
              [n \in DOMAIN ks |->
                 [op |-> "Insert", reserved |-> DOMAIN clips \cup Range(ks), id |-> ks[n],
                  clip |-> new[n], mode |-> mode]])

FirstFresh(n) == SubSeq(Ascending(FreshIds(DOMAIN clips)), 1, n)

(* Picture and sound of the loaded source at the playhead, linked, each on *)
(* the first of its targeted tracks, which may be any.                     *)
InsertLoadedSource ==
  \E source \in NewClips, t \in Times, mode \in {"ripple", "overwrite"},
     v \in VideoTracks \cap Range(order), a \in Range(order) \ VideoTracks :
    LET ks == FirstFresh(2)
        c == [source EXCEPT !.start = t, !.dur = source.len, !.rate = <<1, 1>>,
                            !.link = FreshLink(clips)]
    IN  /\ Cardinality(FreshIds(DOMAIN clips)) >= 2
        /\ HasFreshLink(clips)
        /\ {v, a} \cap locked = {}
        /\ InsertAll(ks, <<[c EXCEPT !.track = v], [c EXCEPT !.track = a]>>, mode)

(* snapshotSelectionForClipboard: the order in which clips are pasted. *)
Copied(ids) == Sorted(ids, [k \in ids |-> {j \in ids : Precedes(clips, j, k)}])

(* targetedTrackForKind for a clip: of the targeted and unlocked tracks of *)
(* its kind, the one with the number that its own track has among all.     *)
Destination(k, targeted) ==
  LET all == {n \in DOMAIN order : (order[n] \in VideoTracks) = (clips[k].track \in VideoTracks)}
      open == {n \in all : order[n] \in targeted \ locked}
      number(n, among) == Cardinality({m \in among : m < n})
  IN  {order[n] : n \in {i \in open : \E own \in all :
                           order[own] = clips[k].track /\ number(i, open) = number(own, all)}}

(* Copy or duplicate, and paste at the playhead; a group that is copied    *)
(* whole or in part is a group of its own.                                 *)
PasteClipboardEntries ==
  \E ids \in Selections, t \in Times, targeted \in SUBSET Range(order), mode \in Modes,
     linked \in BOOLEAN :
    LET from == Copied(Expanded(ids, linked))
        ks == FirstFresh(Len(from))
        links == {clips[k].link : k \in Range(from)} \ {0}
        new == [n \in DOMAIN from |->
                  [clips[from[n]] EXCEPT
                     !.start = t + @ - clips[from[1]].start,
                     !.track = CHOOSE tk \in Destination(from[n], targeted) : TRUE,
                     !.link = IF @ = 0 THEN 0 ELSE FreshLink(clips)]]
    IN  /\ Cardinality(FreshIds(DOMAIN clips)) >= Len(from)
        /\ Cardinality(links) <= 1 /\ (links # {} => HasFreshLink(clips))
        /\ \A k \in Range(from) : Destination(k, targeted) # {}
        /\ InsertAll(ks, new, mode)

(* sourceTimeAtTimelineTime, within the source range of the clip. *)
SourceTimeAt(c, t) ==
  LET at == SourceDelta(c, t - c.start)
      s == IF c.reversed THEN SourceEnd(c) - at ELSE c.src + at
  IN  IF s < c.src THEN c.src ELSE IF s < SourceEnd(c) THEN s ELSE SourceEnd(c) - 1

(* The rest of a video clip shows one frame of its source. *)
FreezeFrameFromTimeline ==
  \E k \in DOMAIN clips, t \in Times :
    LET c == clips[k]
        target == IF c.start < t THEN Fresh(DOMAIN clips) ELSE k
        frame == SourceTimeAt(c, t)
        cut == [op |-> "Split", id |-> k, at |-> t, linked |-> FALSE]
        hold == [op |-> "Trim", id |-> target, start |-> t, dur |-> End(c) - t, src |-> frame,
                 len |-> 1, mode |-> "reject", linked |-> FALSE]
    IN  /\ IsVideo(c)
        /\ c.start <= t /\ t < End(c)
        /\ frame < AssetDuration[c.asset]
        /\ FreshIds(DOMAIN clips) # {}
        /\ CommitBatch("Freeze", {target}, "reject", NoShift,
                       IF c.start < t THEN <<cut, hold>> ELSE <<hold>>)

UserEdit ==
  /\ edits <= MaxBatches
  /\ \/ SplitSelectedClip \/ AddEditsAt \/ DeleteSelectedClip \/ UnlinkSelectedClips
     \/ ResyncLinkedAvSelection \/ MoveSelection \/ NudgeTimelineSelection \/ TrimSelection
     \/ TrimHeadToPlayhead \/ TrimTailToPlayhead \/ InsertLoadedSource \/ PasteClipboardEntries
     \/ FreezeFrameFromTimeline

UserNext == TimelineNext \/ UserEdit

UserSpec == TimelineInit /\ [][UserNext]_timeline
=============================================================================
