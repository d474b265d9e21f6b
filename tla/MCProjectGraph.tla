--------------------------- MODULE MCProjectGraph ---------------------------
(* Small instances for ProjectGraph. *)
EXTENDS ProjectGraph

Empty ==
  [assets |-> <<>>, bins |-> <<>>, sequences |-> <<>>, groups |-> {}, subclips |-> <<>>,
   versions |-> <<>>, notes |-> <<>>]

(* Five sequences, with the ones that are nested in each. *)
Nesting(f) ==
  [Empty EXCEPT !.sequences = [s \in 1..5 |-> [nests |-> f[s], media |-> {}]]]

(* As deep as it may get. *)
Chain == Nesting(<<<<2>>, <<3>>, <<4>>, <<>>, <<>>>>)

(* Two ways to one sequence, almost. *)
Diamond == Nesting(<<<<>>, <<4, 3>>, <<>>, <<5>>, <<>>>>)

(* A library with folders, a smart bin, a subclip, a version and a note. *)
Library ==
  [Empty EXCEPT
     !.assets = <<[dur |-> 2, bin |-> 2], [dur |-> 1, bin |-> None]>>,
     !.bins = <<[parent |-> None, smart |-> FALSE], [parent |-> 1, smart |-> FALSE],
                [parent |-> None, smart |-> TRUE], [parent |-> 2, smart |-> FALSE]>>,
     !.sequences = <<[nests |-> <<>>, media |-> {[asset |-> 1, end |-> 1]}],
                     [nests |-> <<1>>, media |-> {}]>>,
     !.groups = {1},
     !.subclips = <<[asset |-> 1, end |-> 2]>>,
     !.versions = <<2>>,
     !.notes = <<[version |-> 1, asset |-> 1, end |-> 2, resolved |-> TRUE, flagged |-> FALSE]>>]

MCProjects == {Chain, Diamond, Library}
=============================================================================
