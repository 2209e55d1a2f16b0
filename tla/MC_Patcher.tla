----------------------------- MODULE MC_Patcher -----------------------------
EXTENDS Patcher

(* Two guest PCs; a block has no patchable jump, a direct jump, or a      *)
(* conditional branch with a taken and a not-taken side.                  *)
MCTargets == {1, 2, 3}
MCSuccs == {<<>>, <<2>>, <<3, 2>>, <<3, 3>>}
=============================================================================
