------------------------------ MODULE MCWeston ------------------------------
(* Instances of Weston for TLC.                                             *)
EXTENDS Weston

CONSTANTS desk1, desk2
=============================================================================
