-------------------------- MODULE MCAudioTransport --------------------------
(* A device callback and an overlapping one, a ring of one block. *)
EXTENDS AudioTransport

CONSTANTS c1, c2, none

MCCallbacks == {c1}
MCTwoCallbacks == {c1, c2}
=============================================================================
