--------------------------- MODULE MCGroupProvider ---------------------------
(* GroupProvider on a small instance: see the runs group_* in the README. *)
EXTENDS GroupProvider

CONSTANTS g1, g2, n1, n2
=============================================================================
