--------------------------- MODULE MCExportQueue ---------------------------
(* ExportQueue with small constants. *)
EXTENDS ExportQueue

CONSTANTS j1, j2, j3, d1, d2

TwoJobs == {j1, j2}
ThreeJobs == {j1, j2, j3}
OneDestination == {d1}
TwoDestinations == {d1, d2}
=============================================================================
