--------------------------- MODULE MCOverlayStore ---------------------------
(* OverlayStore for TLC: paths are interchangeable. *)
EXTENDS OverlayStore, TLC

PathSymmetry == Permutations(Path)
=============================================================================
