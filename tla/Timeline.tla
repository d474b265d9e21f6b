------------------------------ MODULE Timeline ------------------------------
(***************************************************************************)
(* The timeline of one sequence under the editor's commands                *)
(* (edit_model/src/timeline_editor.cpp, applyOperation and                 *)
(* validateProject).                                                       *)
(*                                                                         *)
(* An action is a command that TimelineEditor::apply accepts: the handler  *)
(* changes a copy of the project, the whole copy is validated, and only a  *)
(* valid one is committed.  A command that is refused changes nothing, so  *)
(* it is not a step.  EditHistory models what commits do to the history;   *)
(* here are the clips, tracks, transitions and multicam groups.            *)
(***************************************************************************)
EXTENDS ClipEdits

CONSTANTS
  Layouts,        \* the timelines the editor may be opened with
  NewClips,       \* the clips that may be inserted, before they are placed
  Rates,          \* the playback rates offered
  Horizon,        \* bound: times a user enters
  TransitionIds,  \* bound: transitions
  MaxEdits        \* bound: accepted commands

Times == 0..Horizon
Lengths == 1..Horizon

VARIABLES
  clips,        \* the live clips
  order,        \* the tracks from first to last
  locked,       \* the tracks that are locked
  transitions,  \* [TransitionIds -> transition], partial
  groups,       \* multicam groups: sets of clips
  last,         \* the latest command
  edits         \* how many commands were accepted

timeline == <<clips, order, locked, transitions, groups, last, edits>>

Transition ==
  [out : ClipIds, in : ClipIds, start : Nat, dur : Nat \ {0}, on : BOOLEAN]

Modes == {"reject", "overwrite", "ripple"}

IsLayout(l) ==
  /\ DOMAIN l.clips \subseteq ClipIds
  /\ \A k \in DOMAIN l.clips : l.clips[k] \in Clip /\ l.clips[k].track \in Range(l.order)
  /\ l.order \in Seq(Tracks) /\ IsInjective(l.order)
  /\ l.locked \subseteq Range(l.order)
  /\ DOMAIN l.transitions \subseteq TransitionIds
  /\ \A t \in DOMAIN l.transitions : l.transitions[t] \in Transition
  /\ l.groups \subseteq SUBSET ClipIds

TimelineAssumption ==
  /\ \A l \in Layouts : IsLayout(l)
  /\ NewClips \subseteq Clip
  /\ Rates \subseteq Nat \X (Nat \ {0})
  /\ Horizon \in Nat
  /\ MaxEdits \in Nat

ASSUME TimelineAssumption

(***************************************************************************)
(* validateProject                                                         *)
(***************************************************************************)
(* hasSourceHandleBefore and hasSourceHandleAfter: what the asset has      *)
(* outside of the clip, on the side that plays first or last.              *)
Lead(c) == IF c.reversed THEN AssetDuration[c.asset] - SourceEnd(c) ELSE c.src

Trail(c) == IF c.reversed THEN c.src ELSE AssetDuration[c.asset] - SourceEnd(c)

HandleBefore(c, d) == c.asset # NoAsset => Lead(c) >= SourceDelta(c, d)

HandleAfter(c, d) == c.asset # NoAsset => Trail(c) >= SourceDelta(c, d)

(* validateTransition: it straddles the one cut of two neighbours, which   *)
(* have the media for it, and enabled ones of a track do not overlap.      *)
ValidTransition(cs, trs, t) ==
  LET x == trs[t] IN
  /\ {x.out, x.in} \subseteq DOMAIN cs
  /\ x.out # x.in
  /\ LET out == cs[x.out]
         in == cs[x.in]
         cut == End(out)
     IN  /\ out.track \in VideoTracks
         /\ Neighbours(cs, x.out, x.in)
         /\ in.start = cut
         /\ x.start < cut /\ cut < x.start + x.dur
         /\ out.start <= x.start /\ x.start + x.dur <= End(in)
         /\ HandleBefore(in, cut - x.start)
         /\ HandleAfter(out, x.start + x.dur - cut)
         /\ x.on => \A u \in DOMAIN trs \ {t} :
              LET y == trs[u] IN
              /\ y.on
              /\ {y.out, y.in} \subseteq DOMAIN cs
              /\ cs[y.out].track = out.track
              => ~(x.start < y.start + y.dur /\ y.start < x.start + x.dur)

IsVideo(c) == c.track \in VideoTracks /\ c.asset # NoAsset

(* validateMulticamGroup. *)
ValidGroup(cs, gs, g) ==
  /\ Cardinality(g) \in 2..4
  /\ g \subseteq DOMAIN cs
  /\ \A k \in g : IsVideo(cs[k])
  /\ \A h \in gs \ {g} : g \cap h = {}

(* validateProject: overlaps are looked for between neighbours only. *)
Valid(cs, trs, gs) ==
  /\ \A k \in DOMAIN cs : ValidClip(cs[k])
  /\ \A j, k \in DOMAIN cs : Neighbours(cs, j, k) => ~Overlaps(cs[j], cs[k])
  /\ \A t \in DOMAIN trs : ValidTransition(cs, trs, t)
  /\ \A g \in gs : ValidGroup(cs, gs, g)

(***************************************************************************)
(* Commands                                                                *)
(***************************************************************************)
TimelineInit ==
  /\ \E l \in Layouts :
       /\ Valid(l.clips, l.transitions, l.groups)
       /\ clips = l.clips
       /\ order = l.order
       /\ locked = l.locked
       /\ transitions = l.transitions
       /\ groups = l.groups
  /\ last = [op |-> "Open", ids |-> {}, mode |-> "reject", shift |-> <<>>, count |-> 0]
  /\ edits = 0

(* An edit of count commands on the clips ids, whose media it moves.       *)
Accept(op, ids, mode, shift, count) ==
  /\ edits' = edits + 1
  /\ last' = [op |-> op, ids |-> ids, mode |-> mode, shift |-> shift, count |-> count]

Command(op, ids, mode, shift) == Accept(op, ids, mode, [k \in ids |-> shift], 1)

(* The end of apply for a command that only changes clips. *)
Clips(outcomes) ==
  /\ \E cs \in outcomes : Valid(cs, transitions, groups) /\ clips' = cs
  /\ UNCHANGED <<order, locked, transitions, groups>>

UnlockedOne(cs, ids) == \E k \in ids : cs[k].track \notin locked

Unlocked(cs, ids) == \A k \in ids : cs[k].track \notin locked

(* clipParticipatesInMulticam for none of the clips. *)
NotInMulticam(cs, ids) ==
  \A k \in ids : Selected(cs, k, TRUE) \cap UNION groups = {}

(* What a command does to the timeline cs of a candidate; used are the ids *)
(* that new clips must not get.                                            *)
InsertClipCommand(cs, used, id, c, mode) ==
  IF c.track \notin locked THEN InsertOutcomes(cs, used, id, c, mode) ELSE {}

(* The tracks the move starts from and the ones it goes to are unlocked. *)
MoveClipCommand(cs, used, id, to, start, mode, linked) ==
  IF id \in DOMAIN cs /\ Unlocked(cs, Selected(cs, id, linked)) /\ to \notin locked
  THEN MoveOutcomes(cs, used \cup DOMAIN cs, order, id, to, start, mode, linked)
  ELSE {}

TrimClipCommand(cs, id, start, dur, src, len, mode, linked) ==
  IF id \in DOMAIN cs /\ Unlocked(cs, Selected(cs, id, linked))
  THEN TrimOutcomes(cs, order, id, start, dur, src, len, mode, linked)
  ELSE {}

SplitClipCommand(cs, id, t, linked) ==
  LET ids == Selected(cs, id, linked) IN
  IF id \in DOMAIN cs /\ NotInMulticam(cs, ids) /\ Unlocked(cs, ids)
  THEN SplitOutcomes(cs, order, id, t, linked)
  ELSE {}

RemoveClipCommand(cs, id, ripple, linked) ==
  LET ids == Selected(cs, id, linked) IN
  IF id \in DOMAIN cs /\ NotInMulticam(cs, ids) /\ Unlocked(cs, ids)
  THEN RemoveOutcomes(cs, id, ripple, linked)
  ELSE {}

SetClipLinkedGroupCommand(cs, id, link) ==
  IF id \in DOMAIN cs /\ Unlocked(cs, {id}) THEN {[cs EXCEPT ![id].link = link]} ELSE {}

InsertClip ==
  \E tk \in Range(order), new \in NewClips, start \in Times, mode \in Modes :
    LET id == Fresh(DOMAIN clips) IN
    /\ FreshIds(DOMAIN clips) # {}
    /\ Command("Insert", {id}, mode, 0)
    /\ Clips(InsertClipCommand(clips, DOMAIN clips, id,
                               [new EXCEPT !.track = tk, !.start = start], mode))

MoveClip ==
  \E id \in DOMAIN clips, to \in Range(order), start \in Times, mode \in Modes,
     linked \in BOOLEAN :
    /\ Command("Move", Selected(clips, id, linked), mode, start - clips[id].start)
    /\ Clips(MoveClipCommand(clips, {}, id, to, start, mode, linked))

(* A trim carries the source range that sourceRangeForTimelineRange maps   *)
(* the new bounds to.  A ripple trim of the head takes the media along.    *)
Taken(c, start, mode) == IF mode = "ripple" THEN c.start - start ELSE 0

TrimClip ==
  \E id \in DOMAIN clips, start \in Times, dur \in Lengths, mode \in Modes,
     linked \in BOOLEAN :
    LET asked == Retrimmed(clips[id], start, start + dur) IN
    /\ Command("Trim", Selected(clips, id, linked), mode, Taken(clips[id], start, mode))
    /\ Clips(TrimClipCommand(clips, id, start, dur, asked.src, asked.len, mode, linked))

SplitClip ==
  \E id \in DOMAIN clips, t \in Times, linked \in BOOLEAN :
    /\ Command("Split", Selected(clips, id, linked), "reject", 0)
    /\ Clips(SplitClipCommand(clips, id, t, linked))

RemoveClip ==
  \E id \in DOMAIN clips, ripple \in BOOLEAN, linked \in BOOLEAN :
    /\ Command("Remove", Selected(clips, id, linked), IF ripple THEN "ripple" ELSE "reject", 0)
    /\ Clips(RemoveClipCommand(clips, id, ripple, linked))

RollEdit ==
  \E l, r \in DOMAIN clips, cut \in Times :
    /\ Unlocked(clips, {l})
    /\ Command("Roll", {l, r}, "reject", 0)
    /\ Clips(RollOutcomes(clips, l, r, cut))

SlipClip ==
  \E id \in DOMAIN clips, src \in Times, linked \in BOOLEAN :
    LET ids == Selected(clips, id, linked) IN
    /\ Unlocked(clips, ids)
    /\ Command("Slip", ids, "reject", 0)
    /\ Clips(SlipOutcomes(clips, id, src, linked))

SlideClip ==
  \E id \in DOMAIN clips, start \in Times :
    /\ Unlocked(clips, {id})
    /\ Command("Slide", {id}, "reject", start - clips[id].start)
    /\ Clips(SlideOutcomes(clips, id, start))

CloseGap ==
  \E tk \in Range(order), from \in Times, to \in Times :
    /\ tk \notin locked
    /\ Command("CloseGap", {}, "ripple", 0)
    /\ Clips(CloseGapOutcomes(clips, tk, <<from, to>>))

(* SetClipSpeedCommand: the ranges stay as they are. *)
SetClipSpeed ==
  \E id \in DOMAIN clips, rate \in Rates, reversed \in BOOLEAN :
    /\ Unlocked(clips, {id})
    /\ clips[id].asset # NoAsset
    /\ Command("SetSpeed", {id}, "reject", 0)
    /\ Clips({[clips EXCEPT ![id].rate = rate, ![id].reversed = reversed]})

(* ReplaceClipMediaCommand: any marked range, however long the clip is. *)
ReplaceClipMedia ==
  \E id \in DOMAIN clips, a \in Assets, src \in Times, len \in Lengths :
    /\ Unlocked(clips, {id})
    /\ clips[id].asset # NoAsset
    /\ Command("ReplaceMedia", {id}, "reject", 0)
    /\ Clips({[clips EXCEPT ![id].asset = a, ![id].src = src, ![id].len = len]})

SetClipLinkedGroup ==
  \E id \in DOMAIN clips, link \in Links \cup {0} :
    /\ Command("SetLinkedGroup", {id}, "reject", 0)
    /\ Clips(SetClipLinkedGroupCommand(clips, id, link))

(* AddTransitionCommand and UpdateTransitionCommand look at the lock of    *)
(* the tracks of the transition in the command.                            *)
SetTransition(op, t, x) ==
  /\ {x.out, x.in} \subseteq DOMAIN clips
  /\ Unlocked(clips, {x.out, x.in})
  /\ Command(op, {x.out, x.in}, "reject", 0)
  /\ transitions' =
       [u \in DOMAIN transitions \cup {t} |-> IF u = t THEN x ELSE transitions[u]]
  /\ Valid(clips, transitions', groups)
  /\ UNCHANGED <<clips, order, locked, groups>>

(* The transitions a user can ask for at the cut after a clip. *)
Asked(out) ==
  {[out |-> out, in |-> in, start |-> End(clips[out]) - d, dur |-> 2 * d, on |-> on] :
     in \in DOMAIN clips \ {out}, d \in {e \in 1..2 : e <= End(clips[out])}, on \in BOOLEAN}

AddTransition ==
  \E t \in TransitionIds \ DOMAIN transitions, out \in DOMAIN clips :
    \E x \in Asked(out) : SetTransition("AddTransition", t, x)

UpdateTransition ==
  \E t \in DOMAIN transitions, out \in DOMAIN clips :
    \E x \in Asked(out) : SetTransition("UpdateTransition", t, x)

RemoveTransition ==
  \E t \in DOMAIN transitions :
    /\ Unlocked(clips, {transitions[t].out, transitions[t].in})
    /\ Command("RemoveTransition", {}, "reject", 0)
    /\ transitions' = [u \in DOMAIN transitions \ {t} |-> transitions[u]]
    /\ UNCHANGED <<clips, order, locked, groups>>

CreateMulticamGroup ==
  \E j, k \in DOMAIN clips :
    /\ {j, k} \cap UNION groups = {}
    /\ Command("CreateMulticamGroup", {j, k}, "reject", 0)
    /\ groups' = groups \cup {{j, k}}
    /\ Valid(clips, transitions, groups')
    /\ UNCHANGED <<clips, order, locked, transitions>>

RemoveMulticamGroup ==
  \E g \in groups :
    /\ Command("RemoveMulticamGroup", g, "reject", 0)
    /\ groups' = groups \ {g}
    /\ UNCHANGED <<clips, order, locked, transitions>>

SetTrackLocked ==
  \E tk \in Range(order), lock \in BOOLEAN :
    /\ Command("SetTrackLocked", {}, "reject", 0)
    /\ locked' = IF lock THEN locked \cup {tk} ELSE locked \ {tk}
    /\ UNCHANGED <<clips, order, transitions, groups>>

AddTrack ==
  \E tk \in Tracks \ Range(order), n \in 1..(Len(order) + 1) :
    /\ Command("AddTrack", {}, "reject", 0)
    /\ order' = InsertAt(order, n, tk)
    /\ UNCHANGED <<clips, locked, transitions, groups>>

(* A track goes with its clips. *)
RemoveTrack ==
  \E n \in DOMAIN order :
    LET on == OnTrack(clips, order[n]) IN
    /\ order[n] \notin locked
    /\ Command("RemoveTrack", on, "reject", 0)
    /\ order' = RemoveAt(order, n)
    /\ clips' = Without(clips, on)
    /\ Valid(clips', transitions, groups)
    /\ UNCHANGED <<locked, transitions, groups>>

ReorderTrack ==
  \E from, to \in DOMAIN order :
    /\ order[from] \notin locked
    /\ Command("ReorderTrack", {}, "reject", 0)
    /\ order' = InsertAt(RemoveAt(order, from), to, order[from])
    /\ UNCHANGED <<clips, locked, transitions, groups>>

TimelineNext ==
  /\ edits < MaxEdits
  /\ \/ InsertClip \/ MoveClip \/ TrimClip \/ SplitClip \/ RemoveClip
     \/ RollEdit \/ SlipClip \/ SlideClip \/ CloseGap
     \/ SetClipSpeed \/ ReplaceClipMedia \/ SetClipLinkedGroup
     \/ AddTransition \/ UpdateTransition \/ RemoveTransition
     \/ CreateMulticamGroup \/ RemoveMulticamGroup
     \/ SetTrackLocked \/ AddTrack \/ RemoveTrack \/ ReorderTrack

(***************************************************************************)
(* Properties                                                              *)
(***************************************************************************)
(* Type invariant: clips lie on tracks of the sequence and within their    *)
(* media, and only tracks of the sequence are locked.                      *)
TimelineTypeOK ==
  /\ IsLayout([clips |-> clips, order |-> order, locked |-> locked, transitions |-> transitions,
               groups |-> groups])
  /\ edits \in 0..MaxEdits

(* Where media plays: for a forward clip the source time shown at time 0   *)
(* of the timeline, for a reversed one the sum of source and timeline      *)
(* time, in source units times the denominator of the rate.                *)
Anchor(c) ==
  IF c.reversed THEN SourceEnd(c) * c.rate[2] + c.start * c.rate[1]
  ELSE c.src * c.rate[2] - c.start * c.rate[1]

SameMedia(c, d) ==
  c.asset = d.asset /\ c.rate = d.rate /\ c.reversed = d.reversed

(* d shows media where c does, up to slack source units where whole        *)
(* seconds of timeline are not whole seconds of media.                     *)
ShowsAs(c, d, slack) ==
  LET most == IF c.rate[2] = 1 THEN 0 ELSE slack * c.rate[2] IN
  SameMedia(c, d) /\ Anchor(d) - Anchor(c) \in -most..most

(* d is c, moved as a whole. *)
MovedWhole(c, d) ==
  SameMedia(c, d) /\ d.dur = c.dur /\ d.src = c.src /\ d.len = c.len

(* The edits that are meant to show other media in a clip. *)
Remaps == {"Slip", "SetSpeed", "ReplaceMedia", "Freeze"}

(* By how much an edit lengthened a clip it was given. *)
Longer(k) ==
  IF k \in DOMAIN clips' THEN clips'[k].dur - clips[k].dur ELSE -clips[k].dur

(* The clips it was given that lie before clip k, and the time that the    *)
(* track of k gained there.                                                *)
Before(k) ==
  {j \in last'.ids : clips[j].track = clips[k].track /\ End(clips[j]) <= clips[k].start}

Gained(ks) == MapThenSumSet(Longer, ks)

(* By how much the latest edit may move the media of clip k.  Several      *)
(* ripple trims also move each other's clips, each by what it gained.      *)
ShiftsOf(k) ==
  IF k \notin last'.ids THEN {0}
  ELSE IF last'.op = "Trim" /\ last'.mode = "ripple" /\ last'.count > 1
  THEN {last'.shift[k] + Gained(earlier) : earlier \in SUBSET Before(k)}
  ELSE {last'.shift[k]}

(* One command, or several that do not reach each other's clips. *)
Single == last'.count = 1 \/ last'.mode = "reject"

(* The moves of a selection that overwrites: one move may cut a clip that  *)
(* another then takes to the place that was meant for the whole of it.     *)
MovedOver == last'.op = "Move" /\ last'.mode = "overwrite" /\ last'.count > 1

KeepsMedia(slack) ==
  \A k \in DOMAIN clips' :
    LET d == clips'[k] IN
    \/ k \in last'.ids /\ (last'.op \in Remaps \/ MovedOver)
    \/ IF k \in DOMAIN clips
       THEN \/ \E shift \in ShiftsOf(k) : ShowsAs(Shifted(clips[k], shift), d, slack)
            \/ (k \in last'.ids => ~Single) /\ MovedWhole(clips[k], d)
       ELSE \/ last'.op = "Insert" /\ k \in last'.ids
            \/ \E j \in DOMAIN clips : \E shift \in ShiftsOf(j) \cup {0} :
                 ShowsAs(Shifted(clips[j], shift), d, slack)

(* Whatever is cut, trimmed, rolled, slid, rippled or overwritten, at any  *)
(* speed and in either direction, a clip that stays shows the same media   *)
(* at the same place of the timeline, up to one source unit of rounding,   *)
(* or moves as a whole; and a piece that is split off goes on where it was *)
(* cut off (splitClipObject, trimPreservingMapping).  The exception is a   *)
(* selection that is dragged in overwrite mode over itself.  All clips     *)
(* stay on tracks and within their media.                                  *)
MediaFollowsEdit == []TimelineTypeOK /\ [][KeepsMedia(1)]_timeline

StartDelta(k) == clips'[k].start - clips[k].start
EndDelta(k) == End(clips'[k]) - End(clips[k])

(* A linked command changes all clips of the group alike: after a move, a  *)
(* trim or a slip they keep their offsets, in time and in their media, and *)
(* the right halves of a linked split form one group that is not the left  *)
(* halves' (linkedClipIds and its callers).  An edit of several commands   *)
(* that do not reach each other's clips does so with the whole selection;  *)
(* each group that it splits stays one, unless its clips are split one by  *)
(* one.                                                                    *)
LinkedStayTogether ==
  [][/\ /\ Single
        /\ \/ last'.op \in {"Trim", "Slip"}
           \/ last'.op = "Move" /\ last'.mode # "overwrite"
        => \A j, k \in last'.ids :
             /\ {j, k} \subseteq DOMAIN clips'
             /\ StartDelta(j) = IF last'.op = "Move" THEN last'.shift[j] ELSE StartDelta(k)
             /\ EndDelta(j) - StartDelta(j) = EndDelta(k) - StartDelta(k)
             /\ last'.op = "Slip" => clips'[j].src - clips[j].src = clips'[k].src - clips[k].src
     /\ last'.op = "Split" =>
          LET halves == DOMAIN clips' \ DOMAIN clips
              oneByOne == last'.count = Cardinality(last'.ids)
              leftOf(k) == CHOOSE j \in last'.ids :
                             clips'[j].track = clips'[k].track /\ End(clips'[j]) = clips'[k].start
          IN
          /\ Cardinality(halves) = Cardinality(last'.ids)
          /\ \A j \in halves, k \in DOMAIN clips' :
               clips'[j].link # 0 =>
                 (clips'[j].link = clips'[k].link)
                   = (\/ j = k
                      \/ /\ k \in halves /\ ~oneByOne
                         /\ clips[leftOf(j)].link = clips[leftOf(k)].link)]_timeline

(* Clips of different groups, which commands reach one by one. *)
Strangers(ks) ==
  \A j, k \in ks : j # k => clips[j].link = 0 \/ clips[j].link # clips[k].link

(* A ripple moves clips as a whole; one command moves them by one distance *)
(* from one point of the track on.  After a trim, that is what comes after *)
(* on the tracks of the clips concerned, by the time that they gained.     *)
(* After several trims or removals, a track moves by exactly the time that *)
(* it gained or lost before a clip.                                        *)
RippleMovesTogether ==
  [][last'.op \in {"Insert", "Move", "Remove", "Trim", "CloseGap"} /\ last'.mode = "ripple"
     => LET rest == DOMAIN clips \ last'.ids
            after(j, k) == clips[k].track = clips[j].track /\ clips[k].start >= clips[j].start
        IN  /\ \A k \in rest : k \in DOMAIN clips' /\ MovedWhole(clips[k], clips'[k])
            /\ last'.count = 1 =>
                 \A j, k \in rest :
                   StartDelta(j) # 0 /\ after(j, k) => StartDelta(k) = StartDelta(j)
            /\ last'.op = "Trim" /\ last'.count = 1 =>
                 \A k \in rest :
                   IF Before(k) = {} THEN StartDelta(k) = 0
                   ELSE \A j \in Before(k) : StartDelta(k) = Longer(j)
            /\ \A k \in rest :
                 last'.op = "Remove" \/ (last'.op = "Trim" /\ last'.count > 1 /\ Strangers(Before(k)))
                 => StartDelta(k) = Gained(Before(k))]_timeline

(* No command, by whatever way it reaches other tracks - companions, what  *)
(* is overwritten, what ripples -, changes, adds or removes a clip on a    *)
(* locked track.                                                           *)
LockedUntouched ==
  [][\A tk \in locked :
       /\ OnTrack(clips', tk) = OnTrack(clips, tk)
       /\ \A k \in OnTrack(clips, tk) : clips'[k] = clips[k]]_timeline
=============================================================================
