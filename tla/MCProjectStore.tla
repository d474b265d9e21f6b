--------------------------- MODULE MCProjectStore ---------------------------
(* ProjectStore with small constants. *)
EXTENDS ProjectStore, TLC

CONSTANTS s1, s2, d1, d2, x1

TwoProcesses == {s1, s2}
ProcessSymmetry == Permutations(TwoProcesses)
TwoDestinations == {d1, d2}
OnePayload == {x1}

\* One process with two destinations, or two with one.
SecondUnused ==
    /\ file[d2].content = None
    /\ \A p \in Processes : target[p] # d2

WithinBounds == Alone \/ SecondUnused
=============================================================================
