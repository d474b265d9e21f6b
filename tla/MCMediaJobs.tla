---------------------------- MODULE MCMediaJobs ----------------------------
(***************************************************************************)
(* Two media, the first of which gets a proxy.  A preview has one byte, a  *)
(* proxy two and its map one; one budget holds either pair of them.        *)
(***************************************************************************)
EXTENDS MediaJobs

CONSTANTS a1, a2

TwoAssets == {a1, a2}
InOrder == <<a1, a2>>
FirstProxied == {a1}
SmallAndLarge == {1, 3}
FragilePreview == {<<a2, "preview">>}
SixHosts == 1 .. 6
=============================================================================
