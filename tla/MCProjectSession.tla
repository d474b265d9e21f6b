-------------------------- MODULE MCProjectSession --------------------------
(* ProjectSession with small constants. *)
EXTENDS ProjectSession

CONSTANTS p0, p1, k1, g1, d1

TwoProjects == {p0, p1}
OneKey == {k1}
OneGesture == {g1}
OnePath == {d1}

\* Drags and edits while installing, with checkpoints that fail.
Busy == [failures |-> {"checkpoint"}, upkeep |-> {"relink", "metadata"}, drags |-> {g1}]
\* The journal, a checkpoint and the manifest may fail.
Faulty == [failures |-> {"append", "checkpoint", "manifest"}, upkeep |-> {"relink"}, drags |-> {}]
\* So may the heartbeat after an append, and the mark of a clean close.
Beatless == [failures |-> {"heartbeat", "close"}, upkeep |-> {"relink"}, drags |-> {}]

MCCircumstances == {Busy, Faulty, Beatless}

\* The names of the undo entries are only displayed.
Nameless ==
    <<[i \in DOMAIN history |-> <<history[i].key, history[i].before, history[i].after>>],
      shown, cursor, gesture, dirty, bound, work, left, file, points, warned, meets>>
=============================================================================
