---------------------------- MODULE MCEditHistory ----------------------------
(* EditHistory with small constants. *)
EXTENDS EditHistory, TLC

CONSTANTS p0, p1, p2, c1, c2, k1

MCProjects == {p0, p1, p2}
MCClients == {c1, c2}
MCKeys == {k1}

\* Clients are alike, and so are the projects other than the initial one.
MCSymmetry == Permutations(MCClients) \cup Permutations({p1, p2})
=============================================================================
