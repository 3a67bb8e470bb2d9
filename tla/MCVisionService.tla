--------------------------- MODULE MCVisionService ---------------------------
(* Model values of VisionService for TLC. *)
EXTENDS VisionService, TLC

CONSTANTS c1, c2, c3

Symmetry == Permutations(Conns)

=============================================================================
