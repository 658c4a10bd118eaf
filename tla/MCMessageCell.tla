--------------------------- MODULE MCMessageCell ---------------------------
(* Values of the constants of MessageCell for TLC. *)
EXTENDS MessageCell, TLC

CONSTANTS r1, r2, k1, k2

Alike == Permutations(Rows) \cup Permutations(Cells)
=============================================================================
