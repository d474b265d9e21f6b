----------------------------- MODULE ClipEdits -----------------------------
(***************************************************************************)
(* What the clip commands of the edit model compute                        *)
(* (edit_model/src/timeline_editor.cpp): splitting, trimming, inserting,   *)
(* moving and removing clips on the tracks of one sequence.                *)
(*                                                                         *)
(* A timeline is a function from the ids of the live clips to their        *)
(* records.  An operator named ...Outcomes returns the set of timelines a  *)
(* command leads to: the empty set when the code returns an error, and     *)
(* one timeline otherwise.                                                 *)
(*                                                                         *)
(* Times are whole seconds.  The difference of two Times is reduced to its *)
(* lowest timescale, so between whole seconds it has timescale 1, and      *)
(* there scaled() rounds to a whole second: the coarsest case of the       *)
(* code's arithmetic, and a frequent one.                                  *)
(***************************************************************************)
EXTENDS Subsequences, SequencesExt

CONSTANTS
  Tracks,         \* the tracks of the sequence
  VideoTracks,    \* the tracks that take video and titles; the others take audio
  Assets,         \* the media of the project; each has video and audio
  AssetDuration,  \* the duration of an asset
  NoAsset,        \* the asset of a title
  MaxClips,       \* bound: clip ids
  MaxLinks        \* bound: linked groups

ClipEditsAssumption ==
  /\ VideoTracks \subseteq Tracks
  /\ AssetDuration \in [Assets -> Nat]
  /\ NoAsset \notin Assets
  /\ MaxClips \in Nat
  /\ MaxLinks \in Nat

ASSUME ClipEditsAssumption

ClipIds == 1..MaxClips
Links == 1..MaxLinks       \* 0 is the absence of a linked group

(* A Clip: where it plays (track, start, dur), what it plays (asset, src,  *)
(* len), how (rate, reversed), and the group it is linked in.              *)
Clip ==
  [track : Tracks, asset : Assets \cup {NoAsset}, start : Nat, dur : Nat \ {0},
   src : Nat, len : Nat \ {0}, rate : Nat \X (Nat \ {0}), reversed : BOOLEAN,
   link : Links \cup {0}]

End(c) == c.start + c.dur

SourceEnd(c) == c.src + c.len

(* TimeRange::overlaps, for ranges that are not empty. *)
Overlaps(c, d) == c.start < End(d) /\ d.start < End(c)

(* divideRounded with NearestTiesEven, for a positive d. *)
RoundedQuotient(n, d) ==
  LET q == n \div d
      twice == 2 * (n % d)
  IN  IF twice > d \/ (twice = d /\ q % 2 = 1) THEN q + 1 ELSE q

(* The source time that a stretch of timeline consumes. *)
SourceDelta(c, delta) == RoundedQuotient(delta * c.rate[1], c.rate[2])

(* The ranges TimeRange and validateClip accept. *)
WellFormed(c) == c.start >= 0 /\ c.dur > 0 /\ c.src >= 0 /\ c.len > 0

(* validateClip: the ranges, the kind of track, and the asset's media. *)
ValidClip(c) ==
  /\ WellFormed(c)
  /\ c.asset = NoAsset => c.track \in VideoTracks
  /\ c.asset # NoAsset => SourceEnd(c) <= AssetDuration[c.asset]

(***************************************************************************)
(* One clip.                                                               *)
(***************************************************************************)
(* splitClipObject, on either side of a split time. *)
CanSplit(c, t) ==
  /\ c.start < t /\ t < End(c)
  /\ LET used == SourceDelta(c, t - c.start) IN 0 < used /\ used < c.len

LeftHalf(c, t) ==
  LET used == SourceDelta(c, t - c.start) IN
  [c EXCEPT !.dur = t - c.start, !.len = used,
            !.src = IF c.reversed THEN SourceEnd(c) - used ELSE c.src]

RightHalf(c, t) ==
  LET used == SourceDelta(c, t - c.start) IN
  [c EXCEPT !.start = t, !.dur = End(c) - t, !.len = c.len - used,
            !.src = IF c.reversed THEN c.src ELSE c.src + used]

(* trimPreservingMapping: new bounds on the timeline, and the source that  *)
(* they show.  The result is refused when it is not WellFormed.            *)
RetrimmedForwards(c, start, end) ==
  LET head == SourceDelta(c, start - c.start)
      tail == SourceDelta(c, end - End(c))
  IN  [c EXCEPT !.start = start, !.dur = end - start, !.src = c.src + head,
                !.len = c.len + tail - head]

Retrimmed(c, start, end) ==
  LET head == SourceDelta(c, start - c.start)
      tail == SourceDelta(c, end - End(c))
      from == IF c.reversed THEN c.src - tail ELSE c.src + head
      to == IF c.reversed THEN SourceEnd(c) - head ELSE SourceEnd(c) + tail
  IN  [c EXCEPT !.start = start, !.dur = end - start, !.src = from, !.len = to - from]

Shifted(c, delta) == [c EXCEPT !.start = @ + delta]

(***************************************************************************)
(* The clips of a timeline.                                                *)
(***************************************************************************)
OnTrack(cs, tk) == {k \in DOMAIN cs : cs[k].track = tk}

(* sortClips: by start, then by id. *)
Precedes(cs, j, k) ==
  cs[j].start < cs[k].start \/ (cs[j].start = cs[k].start /\ j < k)

(* The clips of one track that follow each other in its sorted list. *)
Neighbours(cs, j, k) ==
  /\ cs[j].track = cs[k].track
  /\ Precedes(cs, j, k)
  /\ \A i \in OnTrack(cs, cs[j].track) : ~(Precedes(cs, j, i) /\ Precedes(cs, i, k))

Without(cs, ids) == [k \in DOMAIN cs \ ids |-> cs[k]]

With(cs, k, c) == [i \in DOMAIN cs \cup {k} |-> IF i = k THEN c ELSE cs[i]]

(* linkedClipIds: a clip alone, or all of its linked group. *)
Selected(cs, id, linked) ==
  IF linked /\ cs[id].link # 0
  THEN {k \in DOMAIN cs : cs[k].link = cs[id].link}
  ELSE {id}

(* The order in which the code goes through the selected clips: by track,  *)
(* and by position on it.                                                  *)
PlanOrder(cs, ids, order) ==
  LET at(k) == CHOOSE n \in DOMAIN order : order[n] = cs[k].track IN
  Sorted(ids, [k \in ids |->
    {j \in ids : at(j) < at(k) \/ (at(j) = at(k) /\ Precedes(cs, j, k))}])

FreshIds(used) == ClipIds \ used

Fresh(used) == CHOOSE k \in FreshIds(used) : \A i \in FreshIds(used) : k <= i

FreshLinkOrOld(cs) == CHOOSE g \in Links : \A h \in Links : g <= h

FreshLink(cs) ==
  LET free == Links \ {cs[k].link : k \in DOMAIN cs} IN
  CHOOSE g \in free : \A h \in free : g <= h

HasFreshLink(cs) == Links \ {cs[k].link : k \in DOMAIN cs} # {}

(***************************************************************************)
(* Inserting.                                                              *)
(***************************************************************************)
(* prepareTrackForInsert in Overwrite mode: what the range covers goes,    *)
(* and a clip that it covers in part keeps the rest.  The right piece of a *)
(* clip covered in its middle gets an id of its own; the link stays.       *)
OverwriteOutcomes(cs, used, c) ==
  LET hit == {k \in OnTrack(cs, c.track) : Overlaps(cs[k], c)}
      left == {k \in hit : cs[k].start < c.start}
      right == {k \in hit : End(cs[k]) > End(c)}
      uncut(k) == IF k \in left THEN RightHalf(cs[k], c.start) ELSE cs[k]
      both == left \cap right
      kept == [k \in DOMAIN cs \ (hit \ (left \cup right)) |->
                 IF k \in left THEN LeftHalf(cs[k], c.start)
                 ELSE IF k \in right THEN RightHalf(cs[k], End(c)) ELSE cs[k]]
  IN  IF \/ \E k \in left : ~CanSplit(cs[k], c.start)
         \/ \E k \in right : ~CanSplit(uncut(k), End(c))
      THEN {}
      ELSE IF both = {} THEN {kept}
      ELSE IF FreshIds(used) = {} THEN {}
      ELSE {With(kept, Fresh(used), RightHalf(uncut(k), End(c))) : k \in both}

(* insertClip. *)
InsertOutcomes(cs, used, id, c, mode) ==
  LET on == OnTrack(cs, c.track)
      hit == {k \in on : Overlaps(cs[k], c)}
      room ==
        CASE mode = "overwrite" /\ hit # {} -> OverwriteOutcomes(cs, used \cup {id}, c)
          [] mode = "ripple" /\ hit = {} ->
               {[k \in DOMAIN cs |->
                   IF k \in on /\ cs[k].start >= c.start
                   THEN Shifted(cs[k], c.dur) ELSE cs[k]]}
          [] mode # "ripple" /\ hit = {} -> {cs}
          [] OTHER -> {}
  IN  IF ValidClip(c) /\ id \notin DOMAIN cs
      THEN {With(track, id, c) : track \in room}
      ELSE {}

(* applyMoveClip: all of the selected clips leave their tracks, and are    *)
(* inserted one after the other where the move takes them.                 *)
MoveOutcomes(cs, used, order, id, to, start, mode, linked) ==
  LET ids == Selected(cs, id, linked)
      moved == [k \in ids |->
                  [Shifted(cs[k], start - cs[id].start) EXCEPT
                     !.track = IF k = id THEN to ELSE @]]
      plan == PlanOrder(cs, ids, order)
      placed[n \in 0..Len(plan)] ==
        IF n = 0 THEN {Without(cs, ids)}
        ELSE UNION {InsertOutcomes(t, used \cup DOMAIN t, plan[n], moved[plan[n]], mode) :
                      t \in placed[n - 1]}
  IN  IF /\ (to \in VideoTracks) = (cs[id].track \in VideoTracks)
         /\ \A k \in ids : ValidClip(moved[k])
         /\ mode = "ripple" =>
              \A j, k \in ids : moved[j].track = moved[k].track => j = k
      THEN placed[Len(plan)]
      ELSE {}

(***************************************************************************)
(* Trimming.                                                               *)
(***************************************************************************)
(* The overwrite pass of applyTrimClip for one trimmed clip: the clips it  *)
(* now covers go or are trimmed, and none is ever cut in two.              *)
UncoverOutcomes(cs, ids, p) ==
  LET hit == {k \in OnTrack(cs, cs[p].track) \ ids : Overlaps(cs[k], cs[p])}
      left == {k \in hit : cs[k].start < cs[p].start}
      right == {k \in hit : End(cs[k]) > End(cs[p])}
      rest == [k \in left \cup right |->
                 IF k \in left THEN Retrimmed(cs[k], cs[k].start, cs[p].start)
                 ELSE Retrimmed(cs[k], End(cs[p]), End(cs[k]))]
  IN  IF left \cap right = {} /\ \A k \in DOMAIN rest : WellFormed(rest[k])
      THEN {[k \in DOMAIN cs \ (hit \ DOMAIN rest) |->
               IF k \in DOMAIN rest THEN rest[k] ELSE cs[k]]}
      ELSE {}

(* applyTrimClip.  A companion gets the same change at its head and at its *)
(* tail.  A ripple trim changes one edge; trimming the head keeps the left *)
(* edge where it is, and what follows moves by the change of duration,     *)
(* once on each track.                                                     *)
TrimOutcomes(cs, order, id, start, dur, src, len, mode, linked) ==
  LET ids == Selected(cs, id, linked)
      head == start - cs[id].start
      tail == start + dur - End(cs[id])
      asked == [k \in ids |->
                  IF k = id
                  THEN [cs[k] EXCEPT !.start = start, !.dur = dur, !.src = src, !.len = len]
                  ELSE Retrimmed(cs[k], cs[k].start + head, End(cs[k]) + tail)]
      trimmed == [k \in ids |->
                    IF mode = "ripple" /\ head # 0
                    THEN [asked[k] EXCEPT !.start = cs[k].start] ELSE asked[k]]
      plan == PlanOrder(cs, ids, order)
      applied == [k \in DOMAIN cs |-> IF k \in ids THEN trimmed[k] ELSE cs[k]]
      firstOn(tk) == plan[CHOOSE n \in DOMAIN plan :
                            /\ cs[plan[n]].track = tk
                            /\ \A m \in 1..(n - 1) : cs[plan[m]].track # tk]
      oldEnd(tk) == End(trimmed[firstOn(tk)]) - (tail - head)
      touched == {cs[k].track : k \in ids}
      uncovered[n \in 0..Len(plan)] ==
        IF n = 0 THEN {applied}
        ELSE UNION {UncoverOutcomes(t, ids, plan[n]) : t \in uncovered[n - 1]}
  IN  IF \/ mode = "ripple" /\ head # 0 /\ tail # 0
         \/ \E k \in ids : ~WellFormed(asked[k]) \/ ~ValidClip(trimmed[k])
      THEN {}
      ELSE CASE mode = "reject" ->
                  IF \E k \in ids : \E j \in OnTrack(cs, cs[k].track) \ ids :
                       Overlaps(cs[j], trimmed[k])
                  THEN {} ELSE {applied}
             [] mode = "ripple" ->
                  {[k \in DOMAIN cs |->
                      IF /\ k \notin ids
                         /\ cs[k].track \in touched
                         /\ cs[k].start >= oldEnd(cs[k].track)
                      THEN Shifted(cs[k], tail - head) ELSE applied[k]]}
             [] mode = "overwrite" -> uncovered[Len(plan)]

(***************************************************************************)
(* Splitting and removing.                                                 *)
(***************************************************************************)
(* applySplitClip: the right halves get ids of their own and, when the     *)
(* clip was linked, a group of their own.                                  *)
SplitOutcomes(cs, order, id, t, linked) ==
  LET ids == Selected(cs, id, linked)
      plan == PlanOrder(cs, ids, order)
      new == Ascending(FreshIds(DOMAIN cs))
      rightId == [k \in ids |-> new[CHOOSE n \in DOMAIN plan : plan[n] = k]]
      group == IF cs[id].link = 0 THEN 0 ELSE FreshLink(cs)
      halves ==
        [k \in DOMAIN cs \cup {rightId[j] : j \in ids} |->
           IF k \in ids THEN LeftHalf(cs[k], t)
           ELSE IF k \in DOMAIN cs THEN cs[k]
           ELSE LET j == CHOOSE i \in ids : rightId[i] = k IN
                [RightHalf(cs[j], t) EXCEPT !.link = group]]
  IN  IF /\ \A k \in ids : /\ CanSplit(cs[k], t)
                           /\ ValidClip(LeftHalf(cs[k], t))
                           /\ ValidClip(RightHalf(cs[k], t))
         /\ Len(new) >= Len(plan)
         /\ cs[id].link # 0 => HasFreshLink(cs)
      THEN {halves}
      ELSE {}

(* RemoveClipCommand: with ripple, the tracks it touches close up by the   *)
(* duration of the clip, and companions must have the same range.          *)
Removed(cs, ids, c, ripple) ==
  LET touched == {cs[k].track : k \in ids} IN
  [k \in DOMAIN cs \ ids |->
     IF ripple /\ cs[k].track \in touched /\ cs[k].start >= End(c)
     THEN Shifted(cs[k], -c.dur) ELSE cs[k]]

RemoveOutcomesUneven(cs, id, ripple, linked) ==
  {Removed(cs, Selected(cs, id, linked), cs[id], ripple)}

RemoveOutcomes(cs, id, ripple, linked) ==
  LET ids == Selected(cs, id, linked)
      even == \A k \in ids : cs[k].start = cs[id].start /\ cs[k].dur = cs[id].dur
  IN  IF ripple /\ linked /\ ~even THEN {} ELSE {Removed(cs, ids, cs[id], ripple)}

(* RollEditCommand: the cut between two clips that touch moves. *)
RollOutcomes(cs, l, r, cut) ==
  LET left == Retrimmed(cs[l], cs[l].start, cut)
      right == Retrimmed(cs[r], cut, End(cs[r]))
  IN  IF /\ Neighbours(cs, l, r)
         /\ End(cs[l]) = cs[r].start
         /\ cs[l].start < cut /\ cut < End(cs[r])
         /\ ValidClip(left) /\ ValidClip(right)
      THEN {With(With(cs, l, left), r, right)}
      ELSE {}

(* SlipClipCommand: the source window moves, the clip does not. *)
SlipOutcomes(cs, id, src, linked) ==
  LET ids == Selected(cs, id, linked)
      slipped == [k \in ids |-> [cs[k] EXCEPT !.src = @ + src - cs[id].src]]
  IN  IF \A k \in ids : ValidClip(slipped[k])
      THEN {[k \in DOMAIN cs |-> IF k \in ids THEN slipped[k] ELSE cs[k]]}
      ELSE {}

(* SlideClipCommand: a clip moves between two that touch it, which give    *)
(* way on one side and follow on the other.                                *)
SlideOutcomes(cs, id, start) ==
  LET on == OnTrack(cs, cs[id].track)
      end == start + cs[id].dur
      before(p) == Retrimmed(cs[p], cs[p].start, start)
      after(n) == Retrimmed(cs[n], end, End(cs[n]))
  IN  UNION {IF /\ Neighbours(cs, p, id) /\ Neighbours(cs, id, n)
                /\ End(cs[p]) = cs[id].start /\ End(cs[id]) = cs[n].start
                /\ cs[p].start < start /\ end < End(cs[n])
                /\ ValidClip(before(p)) /\ ValidClip(after(n))
             THEN {With(With(With(cs, p, before(p)), id, [cs[id] EXCEPT !.start = start]),
                        n, after(n))}
             ELSE {} : p \in on, n \in on}

(* TimelineSnapshot::gaps and the search of CloseGapCommand: the free      *)
(* ranges of a track that a clip follows.                                  *)
Gaps(cs, tk) ==
  {<<End(cs[jk[1]]), cs[jk[2]].start>> :
     jk \in {jk \in OnTrack(cs, tk) \X OnTrack(cs, tk) :
               Neighbours(cs, jk[1], jk[2]) /\ End(cs[jk[1]]) < cs[jk[2]].start}}
  \cup {<<0, cs[k].start>> :
          k \in {i \in OnTrack(cs, tk) :
                   cs[i].start > 0 /\ \A j \in OnTrack(cs, tk) : ~Precedes(cs, j, i)}}

(* CloseGapCommand. *)
CloseGapOutcomes(cs, tk, gap) ==
  IF gap \in Gaps(cs, tk)
  THEN {[k \in DOMAIN cs |->
           IF cs[k].track = tk /\ cs[k].start >= gap[2]
           THEN Shifted(cs[k], gap[1] - gap[2]) ELSE cs[k]]}
  ELSE {}
=============================================================================
