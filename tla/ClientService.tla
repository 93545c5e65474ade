--------------------------- MODULE ClientService ---------------------------
(***************************************************************************)
(* What BounceDeskClient promises the threads that call it (client.h): a   *)
(* call is served once, between its start and its return; frames go to the *)
(* callers of get_frame in the order of their calls, each with a buffer    *)
(* that no caller has; an input call returns when its event is written;    *)
(* and the client is open from connect's success until its destruction,    *)
(* which waits for calls to return.                                        *)
(***************************************************************************)
EXTENDS Naturals, Sequences

CONSTANTS Users, FrameUsers, InputUsers, Buffers, NoBuf

VARIABLES
  phase,   \* "connecting", "open" or "closed"
  doing,   \* what a user waits for, and "written" once its event is
  queue,   \* the users whose frames are due
  shown,   \* the frame a user has
  number,  \* how many input calls a user has made
  record   \* the events that have been written

vars == <<phase, doing, queue, shown, number, record>>

Init ==
  /\ phase = "connecting" /\ doing = [u \in Users |-> "nothing"]
  /\ queue = <<>> /\ shown = [u \in Users |-> NoBuf]
  /\ number = [u \in Users |-> 0] /\ record = <<>>

\* connect succeeds or fails; the owner destroys the client.
Connects == phase = "connecting" /\ phase' \in {"open", "closed"}
Closes   == phase = "open" /\ phase' = "closed" /\ \A u \in Users : doing[u] = "nothing"

ChangesPhase ==
  /\ Connects \/ Closes
  /\ UNCHANGED <<doing, queue, shown, number, record>>

Begins(u, what) ==
  /\ phase = "open" /\ doing[u] = "nothing"
  /\ doing' = [doing EXCEPT ![u] = what]

Returns(u, what) ==
  /\ doing[u] = what
  /\ doing' = [doing EXCEPT ![u] = "nothing"]

\* get_frame: the caller has dropped the frame it had.
CallsForFrame(u) ==
  /\ Begins(u, "frame")
  /\ queue' = Append(queue, u) /\ shown' = [shown EXCEPT ![u] = NoBuf]
  /\ UNCHANGED <<phase, number, record>>

\* The user that has waited longest gets a frame.
FrameIsDue ==
  /\ phase = "open" /\ queue # <<>> /\ doing[Head(queue)] = "frame"
  /\ queue' = Tail(queue)
  /\ \E b \in Buffers \ {shown[u] : u \in Users} : shown' = [shown EXCEPT ![Head(queue)] = b]
  /\ UNCHANGED <<phase, doing, number, record>>

ReturnsFrame(u) ==
  /\ shown[u] # NoBuf /\ Returns(u, "frame")
  /\ UNCHANGED <<phase, queue, shown, number, record>>

\* The input calls.
CallsWithInput(u) ==
  /\ Begins(u, "input")
  /\ number' = [number EXCEPT ![u] = @ + 1]
  /\ UNCHANGED <<phase, queue, shown, record>>

IsWritten(u) ==
  /\ phase = "open" /\ doing[u] = "input"
  /\ doing' = [doing EXCEPT ![u] = "written"]
  /\ record' = Append(record, [user |-> u, no |-> number[u]])
  /\ UNCHANGED <<phase, queue, shown, number>>

ReturnsFromInput(u) ==
  /\ Returns(u, "written")
  /\ UNCHANGED <<phase, queue, shown, number, record>>

Next ==
  \/ ChangesPhase \/ FrameIsDue
  \/ \E u \in FrameUsers : CallsForFrame(u)
  \/ \E u \in InputUsers : CallsWithInput(u) \/ IsWritten(u)
  \/ \E u \in Users : ReturnsFrame(u) \/ ReturnsFromInput(u)

Spec == Init /\ [][Next]_vars
=============================================================================
