----------------------------- MODULE MCTimeline -----------------------------
(* Model values and small instances for Timeline. *)
EXTENDS UserEdits

CONSTANTS v1, v2, a1, media, other, t1

MCAssetDuration == [m \in {media, other} |-> IF m = media THEN 8 ELSE 4]

(* A forward clip at normal speed, and what sets the others apart. *)
At(track, start, dur, src) ==
  [track |-> track, asset |-> media, start |-> start, dur |-> dur, src |-> src,
   len |-> dur, rate |-> <<1, 1>>, reversed |-> FALSE, link |-> 0]

Reversed(c) == [c EXCEPT !.reversed = TRUE]
Linked(c) == [c EXCEPT !.link = 1]
Fast(c) == [c EXCEPT !.rate = <<2, 1>>, !.len = 2 * c.dur]
Slow(c) == [c EXCEPT !.rate = <<1, 2>>, !.len = c.dur \div 2]

Layout(cs, tracks) ==
  [clips |-> cs, order |-> tracks, locked |-> {}, transitions |-> <<>>, groups |-> {}]

(* A picture with its sound, which starts with it and is longer, and a     *)
(* clip after each.                                                        *)
Pair == Layout(<<Linked(At(v1, 1, 2, 1)), At(v1, 3, 2, 4), Linked(Reversed(At(a1, 1, 3, 1))),
                 At(a1, 4, 1, 0)>>,
               <<v1, a1>>)

(* Contiguous clips at three speeds, the middle one backwards. *)
Speeds == Layout(<<Fast(At(v1, 0, 2, 2)), Reversed(Slow(At(v1, 2, 2, 3))), At(v1, 4, 1, 2)>>,
                 <<v1, v2>>)

(* A cut with a transition and a cut without, a second angle of a clip, a  *)
(* locked track with a companion, which is longer.                         *)
Dissolve ==
  [Layout(<<At(v1, 0, 2, 0), Linked(At(v1, 2, 2, 3)), At(v2, 0, 2, 2), Linked(At(a1, 2, 3, 3)),
            At(v2, 2, 1, 1)>>,
          <<v1, v2, a1>>)
   EXCEPT !.transitions = t1 :> [out |-> 1, in |-> 2, start |-> 1, dur |-> 2, on |-> TRUE],
          !.groups = {{1, 3}}, !.locked = {a1}]

(* A title over a long clip, a gap, and a clip. *)
Title == Layout(<<[At(v1, 1, 2, 0) EXCEPT !.asset = NoAsset], At(v2, 0, 3, 1), At(v2, 4, 1, 2)>>,
                <<v1, v2>>)

(* Clips that were added from right to left, and two that touch. *)
Row == Layout(<<At(v1, 3, 1, 3), At(v1, 0, 1, 0), At(v2, 0, 2, 0), At(v2, 2, 3, 4)>>, <<v1, v2>>)

MCLayouts == {Pair, Speeds, Dissolve, Title, Row}

MCNewClips == {At(v1, 0, 1, 0), Slow(At(v1, 0, 2, 1))}

MCRates == {<<1, 1>>, <<1, 2>>}
=============================================================================
