------------------------------ MODULE Channel ------------------------------
(***************************************************************************)
(* What IPC promises its two ends, "simple bi-directional 1-to-1 fixed     *)
(* size message passing" (src/reaper/ipc.h): an end that asks for the kind *)
(* of item that was sent gets each of them, whole, once and in order, also *)
(* after the peer has hung up.  An end that asks for the other kind may    *)
(* spoil what it reads until the stream is in step again.                  *)
(***************************************************************************)
EXTENDS Sequences

CONSTANTS Ends, Payloads

VARIABLES
  queue,  \* the items on their way to an end
  torn,   \* the oldest of them was read in part
  up,     \* the end has not hung up
  got     \* what the end's last call returned

vars == <<queue, torn, up, got>>

Kinds == {"message", "fd"}
Items == [kind : Kinds, val : Payloads]

Init ==
  /\ queue = [e \in Ends |-> <<>>] /\ torn = [e \in Ends |-> FALSE]
  /\ up = [e \in Ends |-> TRUE] /\ got = [e \in Ends |-> [kind |-> "none"]]

Returns(e, r) == got' = [got EXCEPT ![e] = r]

\* An item joins the peer's queue.
Send(e, peer) ==
  /\ up[e] /\ up[peer] /\ peer # e
  /\ \E i \in Items : queue' = [queue EXCEPT ![peer] = Append(@, i)]
  /\ Returns(e, [kind |-> "sent"])
  /\ UNCHANGED <<torn, up>>

\* The oldest item, of the kind that was asked for.
Receive(e, kind) ==
  /\ up[e] /\ queue[e] # <<>> /\ ~torn[e] /\ Head(queue[e]).kind = kind
  /\ Returns(e, Head(queue[e]))
  /\ queue' = [queue EXCEPT ![e] = Tail(@)]
  /\ UNCHANGED <<torn, up>>

\* A call that asks for the other kind, or that follows one.
Misread(e, kind) ==
  /\ up[e] /\ queue[e] # <<>> /\ (torn[e] \/ Head(queue[e]).kind # kind)
  /\ Returns(e, [kind |-> "error"]) \/ Returns(e, [kind |-> "garbled"])
  /\ \/ UNCHANGED queue
     \/ queue' = [queue EXCEPT ![e] = Tail(@)]
     \/ Tail(queue[e]) # <<>> /\ queue' = [queue EXCEPT ![e] = Tail(Tail(@))]
  /\ \/ torn' = [torn EXCEPT ![e] = FALSE]
     \/ torn' = [torn EXCEPT ![e] = TRUE] /\ queue'[e] # <<>>
  /\ UNCHANGED up

\* Nothing to read while the peer is there.
FindsNothing(e, peer) ==
  /\ up[e] /\ up[peer] /\ peer # e /\ queue[e] = <<>>
  /\ Returns(e, [kind |-> "unavailable"])
  /\ UNCHANGED <<queue, torn, up>>

\* The peer's hang-up is reported to a receive that has read everything the
\* peer had sent ...
FindsHangUp(e, peer) ==
  /\ up[e] /\ ~up[peer] /\ queue[e] = <<>>
  /\ Returns(e, [kind |-> "aborted"])
  /\ UNCHANGED <<queue, torn, up>>

\* ... and to a send.
CannotSend(e, peer) ==
  /\ up[e] /\ ~up[peer]
  /\ Returns(e, [kind |-> "unsent"])
  /\ UNCHANGED <<queue, torn, up>>

HangUp(e) ==
  /\ up[e]
  /\ up' = [up EXCEPT ![e] = FALSE]
  /\ queue' = [queue EXCEPT ![e] = <<>>] /\ torn' = [torn EXCEPT ![e] = FALSE]
  /\ UNCHANGED got

Next ==
  \E e, peer \in Ends :
    \/ Send(e, peer) \/ FindsNothing(e, peer) \/ FindsHangUp(e, peer)
    \/ CannotSend(e, peer) \/ HangUp(e)
    \/ \E kind \in Kinds : Receive(e, kind) \/ Misread(e, kind)

Spec == Init /\ [][Next]_vars
=============================================================================
