------------------------------- MODULE MCIPC -------------------------------
(* Instances of IPC for TLC: messages of three bytes, so that a partly read  *)
(* message followed by a descriptor can be too short or just long enough.    *)
EXTENDS IPC

CONSTANTS x, y

AtMost == [e \in Ends |-> IF e = "server" THEN 2 ELSE 3]
=============================================================================
