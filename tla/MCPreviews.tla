----------------------------- MODULE MCPreviews -----------------------------
(* Previews with small constants. *)
EXTENDS Previews

CONSTANTS a1, a2

TwoAssets == {a1, a2}

\* The program starts and the GPU comes up amid a request; more requests with
\* and without a GPU; the source monitor; and both.
Sessions ==
  {[gpu |-> "cold", program |-> 1, source |-> 0],
   [gpu |-> "none", program |-> 2, source |-> 0],
   [gpu |-> "native", program |-> 2, source |-> 0],
   [gpu |-> "none", program |-> 0, source |-> 4],
   [gpu |-> "none", program |-> 1, source |-> 1]}
=============================================================================
