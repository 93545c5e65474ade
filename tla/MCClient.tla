------------------------------ MODULE MCClient ------------------------------
(* Instances of Client for TLC: two desktop sizes of the same width, and as *)
(* many pixel buffers as the callers and the framebuffer can hold at once.  *)
EXTENDS Client

CONSTANTS main, viewer, b1, b2, b3

TwoSizes == {<<1, 1>>, <<1, 2>>}
OneSize  == {<<1, 1>>}
=============================================================================
