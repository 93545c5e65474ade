------------------------------ MODULE MCReaper ------------------------------
(* Instances of Reaper for TLC: the constants are numbers and strings, so    *)
(* the configurations give them directly.                                   *)
EXTENDS Reaper
=============================================================================
