------------------------------ MODULE MCViewer ------------------------------
(* Instances of Viewer for TLC.                                             *)
EXTENDS Viewer, TLC

CONSTANTS v1, v2, v3

ViewerSymmetry == Permutations(Viewers)
=============================================================================
