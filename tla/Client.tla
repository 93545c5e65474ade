------------------------------- MODULE Client -------------------------------
(***************************************************************************)
(* BounceDeskClient (src/desktop/client.cpp): the threads that call the    *)
(* public API, the loop thread that runs the glib main context, the        *)
(* thread that connects and later destroys the client, and the VNC server. *)
(* glib and libgvnc are external and are modelled as the code uses them:   *)
(*  - the default main context is a lock.  g_main_context_invoke runs the  *)
(*    callback on the calling thread when the lock is free, and otherwise  *)
(*    queues a source and wakes the loop;                                  *)
(*  - the server owes one message (an update, or a new desktop size) for   *)
(*    each framebuffer update request.                                     *)
(* Inputs are numbered per caller instead of carrying a key or a position. *)
(***************************************************************************)
EXTENDS Naturals, Sequences, FiniteSets

CONSTANTS
  Users,        \* threads that call the API of one client
  FrameUsers,   \* those that call get_frame
  InputUsers,   \* those that call key_press, move_mouse, mouse_press, ...
  Buffers,      \* pixel buffers malloc can return
  NoBuf,        \* a null pixel buffer
  Sizes,        \* desktop sizes <<width, height>>
  Faults,       \* what may go wrong outside the client (see FaultKinds)
  OthersOpen,   \* how many other clients the process may have open
  AllowUnsafe,  \* connect's allow_unsafe
  MaxCalls,     \* bound: API calls per user
  MaxResizes    \* bound: desktop size changes

\* "slow": a timer may fire although an answer is on its way; "drop": the
\* server may refuse or close the connection; "coalesce": the server may
\* answer several outstanding requests with one update.
FaultKinds == {"slow", "drop", "coalesce"}

ASSUME ConstantsAssumption ==
  /\ IsFiniteSet(Users) /\ FrameUsers \subseteq Users /\ InputUsers \subseteq Users
  /\ NoBuf \notin Buffers
  /\ Faults \subseteq FaultKinds
  /\ OthersOpen \subseteq Nat /\ AllowUnsafe \in BOOLEAN
  /\ MaxCalls \in Nat /\ MaxResizes \in Nat

VARIABLES
  \* the thread that holds the unique_ptr, and the flags it shares
  owner, numOpen, others, initialized, exit, exited,
  \* the loop thread and the glib default context
  loop, ctx, wakeup, frameSources, inputSources,
  \* the connection and the two directions of its stream
  cptr, conn, asked, down, sent, desk, told, resizes,
  \* the framebuffer and every live pixel buffer
  fb, fbSize, heap,
  \* the API callers
  pc, call, issued, calls, pending, frame,
  \* the process: exit(1) of FATAL and CHECK is "fatal"
  proc

ownerVars == <<owner, numOpen, others>>
flagVars  == <<initialized, exit, exited>>
ctxVars   == <<loop, ctx, wakeup, frameSources, inputSources>>
netVars   == <<cptr, conn, asked, down, sent, desk, told, resizes>>
fbVars    == <<fb, fbSize, heap>>
userVars  == <<pc, call, issued, calls, pending, frame>>
vars == <<ownerVars, flagVars, ctxVars, netVars, fbVars, userVars, proc>>

Message == [kind : {"update", "resize"}, size : Sizes]
Event   == [user : InputUsers, no : Nat]

TypeOK ==
  /\ owner \in {"new", "starting", "open", "failed", "rejected", "exiting",
                "shutting", "waking", "waiting", "destroyed"}
  /\ numOpen \in Nat /\ others \in OthersOpen
  /\ initialized \in BOOLEAN /\ exit \in BOOLEAN /\ exited \in BOOLEAN
  /\ loop \in {"none", "setup", "test", "poll", "ran", "leaving", "unreffed",
               "released", "done"}
  /\ ctx \in {"free", "loop", "user"} /\ wakeup \in BOOLEAN
  /\ frameSources \in Nat /\ inputSources \in Seq(InputUsers)
  /\ cptr \in BOOLEAN
  /\ conn \in {"none", "opening", "ready", "dropped", "closed", "freed"}
  /\ asked \in Nat /\ down \in Seq(Message) /\ sent \in Seq(Event)
  /\ desk \in Sizes /\ told \in Sizes /\ resizes \in 0..MaxResizes
  /\ fb \in Buffers \cup {NoBuf} /\ fbSize \in Sizes /\ heap \subseteq Buffers
  /\ pc \in [Users -> {"idle", "invoke", "direct", "waiting", "answered"}]
  /\ call \in [Users -> {"frame", "input"}]
  /\ issued \in [Users -> Nat] /\ calls \in [Users -> 0..MaxCalls]
  /\ pending \in Seq(FrameUsers)
  /\ frame \in [Users -> Buffers \cup {NoBuf}]
  /\ proc \in {"running", "fatal", "crashed"}

Init ==
  /\ owner = "new" /\ others \in OthersOpen /\ numOpen = others
  /\ initialized = FALSE /\ exit = FALSE /\ exited = FALSE
  /\ loop = "none" /\ ctx = "free" /\ wakeup = FALSE
  /\ frameSources = 0 /\ inputSources = <<>>
  /\ cptr = FALSE /\ conn = "none" /\ asked = 0 /\ down = <<>> /\ sent = <<>>
  /\ desk \in Sizes /\ told = desk /\ resizes = 0
  /\ fb = NoBuf /\ fbSize = desk /\ heap = {}
  /\ pc = [u \in Users |-> "idle"] /\ call = [u \in Users |-> "frame"]
  /\ issued = [u \in Users |-> 0] /\ calls = [u \in Users |-> 0]
  /\ pending = <<>> /\ frame = [u \in Users |-> NoBuf]
  /\ proc = "running"

-----------------------------------------------------------------------------
(* Timers.  connect waits 5 s and get_frame 3 s; an honest environment      *)
(* answers sooner, so without "slow" a timer fires only when nothing that   *)
(* could still produce the awaited answer is under way.                     *)

Settled ==
  /\ conn # "opening" /\ loop # "setup"
  /\ asked = 0 /\ down = <<>> /\ frameSources = 0 /\ inputSources = <<>>
  /\ \A u \in Users : pc[u] \notin {"invoke", "direct"}

TimerFires == "slow" \in Faults \/ Settled

-----------------------------------------------------------------------------
(* connect and the destructor, on the thread that owns the client.          *)

\* connect_impl up to the start of the loop thread.
StartConnect ==
  /\ owner = "new" /\ (numOpen = 0 \/ AllowUnsafe)
  /\ numOpen' = numOpen + 1
  /\ owner' = "starting" /\ loop' = "setup"
  /\ UNCHANGED <<others, flagVars, ctx, wakeup, frameSources, inputSources,
                 netVars, fbVars, userVars, proc>>

\* Mutant of ConnectRejected: the early return forgets that the destructor
\* takes the count back, and takes it back itself.
RejectedTakesCountBack ==
  /\ owner = "new" /\ numOpen > 0 /\ ~AllowUnsafe
  /\ owner' = "rejected"
  /\ UNCHANGED <<numOpen, others, flagVars, ctxVars, netVars, fbVars, userVars, proc>>

\* connect_impl's early return: no thread is started.
ConnectRejected ==
  /\ owner = "new" /\ numOpen > 0 /\ ~AllowUnsafe
  /\ numOpen' = numOpen + 1
  /\ owner' = "rejected"
  /\ UNCHANGED <<others, flagVars, ctxVars, netVars, fbVars, userVars, proc>>

ConnectReturns ==
  /\ owner = "starting" /\ initialized
  /\ owner' = "open"
  /\ UNCHANGED <<numOpen, others, flagVars, ctxVars, netVars, fbVars, userVars, proc>>

\* Five seconds without on_initialized.  connect sets exited_ itself.
ConnectTimesOut ==
  /\ owner = "starting" /\ ~initialized /\ TimerFires
  /\ exited' = TRUE
  /\ owner' = "failed"
  /\ UNCHANGED <<numOpen, others, initialized, exit, ctxVars, netVars, fbVars, userVars, proc>>

\* The destructor starts: on a failed connect inside connect, otherwise when
\* the last shared_ptr goes, so that no call is in progress.
BeginDestroy ==
  /\ owner \in {"open", "failed", "rejected"}
  /\ \A u \in Users : pc[u] = "idle"
  /\ exit' = TRUE
  /\ owner' = "exiting"
  /\ UNCHANGED <<numOpen, others, initialized, exited, ctxVars, netVars, fbVars, userVars, proc>>

\* if (c_)
DestroyReadsConn ==
  /\ owner = "exiting"
  /\ owner' = IF cptr THEN "shutting" ELSE "waking"
  /\ UNCHANGED <<numOpen, others, flagVars, ctxVars, netVars, fbVars, userVars, proc>>

\* vnc_connection_shutdown(c_): ends the stream.  The loop thread may have
\* unreferenced c_ since it was read: then the call may do anything.
DestroyShutdown ==
  /\ owner = "shutting"
  /\ IF conn = "freed"
       THEN proc' \in {"running", "crashed"} /\ UNCHANGED <<conn, asked, down>>
       ELSE conn' = "closed" /\ asked' = 0 /\ down' = <<>> /\ UNCHANGED proc
  /\ owner' = "waking"
  /\ UNCHANGED <<numOpen, others, flagVars, ctxVars, cptr, sent, desk, told, resizes,
                 fbVars, userVars>>

\* Mutant of DestroyWakes: no g_main_context_wakeup.
DestroyDoesNotWake ==
  /\ owner = "waking"
  /\ numOpen' = numOpen - 1
  /\ owner' = "waiting"
  /\ UNCHANGED <<others, flagVars, ctxVars, netVars, fbVars, userVars, proc>>

\* g_main_context_wakeup and num_open -= 1.
DestroyWakes ==
  /\ owner = "waking"
  /\ wakeup' = TRUE
  /\ numOpen' = numOpen - 1
  /\ owner' = "waiting"
  /\ UNCHANGED <<others, flagVars, loop, ctx, frameSources, inputSources,
                 netVars, fbVars, userVars, proc>>

\* Mutant of Joined: the destructor waits for exited_ only.
NotJoined == TRUE

\* join(), or nothing to join when no thread was started.
Joined == loop \in {"none", "done"}

\* The loop on exited_ ends, then the join.
DestroyReturns ==
  /\ owner = "waiting" /\ exited /\ Joined
  /\ owner' = "destroyed"
  /\ UNCHANGED <<numOpen, others, flagVars, ctxVars, netVars, fbVars, userVars, proc>>

-----------------------------------------------------------------------------
(* Callbacks of the connection: each runs on a thread that holds the        *)
(* context.                                                                 *)

\* What malloc returns for a new framebuffer: a free buffer, no matter which.
Malloc(live) == {b \in Buffers \ live : b = CHOOSE c \in Buffers \ live : TRUE}

\* Mutant of SameSize: two sizes are equal when their widths are.
SameSizeByWidth(size) == fb # NoBuf /\ fbSize[1] = size[1]

\* resize()'s early return.
SameSize(size) == fb # NoBuf /\ fbSize = size

\* n update requests written: the server owes n more messages, unless it has
\* hung up.
Ask(n) == asked' = IF conn \in {"opening", "ready"} THEN asked + n ELSE asked

\* Mutant of AskAfterResize: the pixels of the new framebuffer are not asked for.
NoAskAfterResize == 0

\* Update requests resize() sends once it has installed a new framebuffer.
AskAfterResize == 1

\* resize(): free the old framebuffer's buffer, install a new one of the new
\* size and ask for its pixels; extra counts the caller's own requests.
Resize(size, extra) ==
  IF SameSize(size)
    THEN Ask(extra) /\ UNCHANGED <<fb, fbSize, heap>>
    ELSE \E b \in Malloc(heap \ {fb}) :
           /\ fb' = b /\ fbSize' = size
           /\ heap' = (heap \ {fb}) \cup {b}
           /\ Ask(AskAfterResize + extra)

\* Mutant of MoveFrame: the buffer is handed over but the framebuffer keeps it.
MoveFrameKeepsBuffer ==
  /\ frame' = [frame EXCEPT ![Head(pending)] = fb]
  /\ pending' = Tail(pending)
  /\ UNCHANGED <<fb, heap>>

\* Mutant of MoveFrame: the newest promise is served.
MoveFrameToNewest ==
  \E b \in Malloc(heap) :
    /\ frame' = [frame EXCEPT ![pending[Len(pending)]] = fb]
    /\ pending' = SubSeq(pending, 1, Len(pending) - 1)
    /\ fb' = b /\ heap' = heap \cup {b}

\* move_frame() and set_value(): the oldest promise takes the framebuffer's
\* buffer and the framebuffer gets a new one.
MoveFrame ==
  \E b \in Malloc(heap) :
    /\ frame' = [frame EXCEPT ![Head(pending)] = fb]
    /\ pending' = Tail(pending)
    /\ fb' = b /\ heap' = heap \cup {b}

\* fb_update(), after libgvnc has painted the update into the framebuffer.
FbUpdate ==
  IF pending = <<>> THEN UNCHANGED <<frame, pending, fb, heap>> ELSE MoveFrame

\* Writing to the connection succeeds until libgvnc has seen it close.
Writable == conn \in {"ready", "dropped"}

\* request_frame(): vnc_connection_framebuffer_update_request, whose result
\* is ignored.
RequestFrame == Ask(1)

\* do_key_event() and do_pointer_event(): write the event and fulfil the
\* caller's promise; CHECK ends the process when the write fails.
DoInput(u) ==
  IF Writable
    THEN /\ sent' = Append(sent, [user |-> u, no |-> issued[u]])
         /\ pc' = [pc EXCEPT ![u] = "answered"]
         /\ UNCHANGED proc
    ELSE proc' = "fatal" /\ UNCHANGED <<sent, pc>>

-----------------------------------------------------------------------------
(* vnc_loop on the loop thread.                                             *)

\* vnc_connection_new up to vnc_connection_open_host.
LoopStarts ==
  /\ loop = "setup"
  /\ loop' = "test" /\ cptr' = TRUE /\ conn' = "opening"
  /\ UNCHANGED <<ownerVars, flagVars, ctx, wakeup, frameSources, inputSources, asked,
                 down, sent, desk, told, resizes, fbVars, userVars, proc>>

\* g_main_context_pending: surely true with a queued source or a message to
\* read; true or false while the connection is being opened.
Pending == frameSources > 0 \/ inputSources # <<>> \/ down # <<>> \/ conn = "dropped"

\* The loop test lets the thread into g_main_context_iteration, which takes
\* the context.
LoopIterates ==
  /\ loop = "test" /\ ctx = "free"
  /\ ~exit \/ Pending \/ conn = "opening"
  /\ loop' = "poll" /\ ctx' = "loop"
  /\ UNCHANGED <<ownerVars, flagVars, wakeup, frameSources, inputSources, netVars,
                 fbVars, userVars, proc>>

\* A wakeup ends a blocked iteration in which nothing is dispatched.
LoopWakes ==
  /\ loop = "poll" /\ wakeup
  /\ wakeup' = FALSE
  /\ loop' = "test" /\ ctx' = "free"
  /\ UNCHANGED <<ownerVars, flagVars, frameSources, inputSources, netVars, fbVars,
                 userVars, proc>>

\* The iteration returns after it has dispatched something.
LoopIterationEnds ==
  /\ loop = "ran"
  /\ loop' = "test" /\ ctx' = "free"
  /\ UNCHANGED <<ownerVars, flagVars, wakeup, frameSources, inputSources, netVars, fbVars,
                 userVars, proc>>

\* An iteration dispatches a source: the first one also consumes the wakeup.
Dispatch ==
  /\ loop \in {"poll", "ran"}
  /\ loop' = "ran" /\ UNCHANGED ctx
  /\ wakeup' = (wakeup /\ loop = "ran")

\* The handshake is over: on_initialized.  told is the size of ServerInit.
HandleInitialized ==
  /\ Dispatch /\ conn = "opening"
  /\ conn' = "ready" /\ told' = desk
  /\ Resize(desk, 1)
  /\ initialized' = TRUE
  /\ UNCHANGED <<ownerVars, exit, exited, frameSources, inputSources, cptr, down, sent,
                 desk, resizes, userVars, proc>>

\* Connection refused, or lost: libgvnc reports on_error, which only logs.
HandleClosed ==
  /\ Dispatch
  /\ \/ conn = "opening" /\ "drop" \in Faults
     \/ conn = "dropped" /\ down = <<>>
  /\ conn' = "closed"
  /\ UNCHANGED <<ownerVars, flagVars, frameSources, inputSources, cptr, asked, down, sent,
                 desk, told, resizes, fbVars, userVars, proc>>

\* An update arrives: on_framebuffer_update.
HandleUpdate ==
  /\ Dispatch /\ Writable /\ down # <<>> /\ Head(down).kind = "update"
  /\ down' = Tail(down)
  /\ FbUpdate
  /\ UNCHANGED <<ownerVars, flagVars, frameSources, inputSources, cptr, conn, asked, sent,
                 desk, told, resizes, fbSize, pc, call, issued, calls, proc>>

\* A desktop size arrives: on_resize.
HandleResize ==
  /\ Dispatch /\ Writable /\ down # <<>> /\ Head(down).kind = "resize"
  /\ down' = Tail(down)
  /\ Resize(Head(down).size, 0)
  /\ UNCHANGED <<ownerVars, flagVars, frameSources, inputSources, cptr, conn, sent, desk,
                 told, resizes, userVars, proc>>

\* A queued request_frame runs.
RunFrameSource ==
  /\ Dispatch /\ frameSources > 0
  /\ frameSources' = frameSources - 1
  /\ RequestFrame
  /\ UNCHANGED <<ownerVars, flagVars, inputSources, cptr, conn, down, sent, desk, told,
                 resizes, fbVars, userVars, proc>>

\* A queued do_key_event or do_pointer_event runs.
RunInputSource ==
  /\ Dispatch /\ inputSources # <<>>
  /\ inputSources' = Tail(inputSources)
  /\ DoInput(Head(inputSources))
  /\ UNCHANGED <<ownerVars, flagVars, frameSources, cptr, conn, asked, down, desk, told,
                 resizes, fbVars, call, issued, calls, pending, frame>>

\* The loop test fails.
LoopLeaves ==
  /\ loop = "test" /\ exit /\ ~Pending
  /\ loop' = "leaving"
  /\ UNCHANGED <<ownerVars, flagVars, ctx, wakeup, frameSources, inputSources, netVars,
                 fbVars, userVars, proc>>

\* g_object_unref(c_).
LoopUnrefs ==
  /\ loop = "leaving"
  /\ conn' = "freed" /\ asked' = 0 /\ down' = <<>>
  /\ loop' = "unreffed"
  /\ UNCHANGED <<ownerVars, flagVars, ctx, wakeup, frameSources, inputSources, cptr,
                 sent, desk, told, resizes, fbVars, userVars, proc>>

\* c_ = nullptr, and the framebuffer with its buffer goes.
LoopReleases ==
  /\ loop = "unreffed"
  /\ cptr' = FALSE
  /\ heap' = heap \ {fb} /\ fb' = NoBuf
  /\ loop' = "released"
  /\ UNCHANGED <<ownerVars, flagVars, ctx, wakeup, frameSources, inputSources, conn,
                 asked, down, sent, desk, told, resizes, fbSize, userVars, proc>>

\* exited_ = true; the thread ends.
LoopExits ==
  /\ loop = "released"
  /\ exited' = TRUE
  /\ loop' = "done"
  /\ UNCHANGED <<ownerVars, initialized, exit, ctx, wakeup, frameSources, inputSources,
                 netVars, fbVars, userVars, proc>>

-----------------------------------------------------------------------------
(* The public API, on the threads in Users.                                 *)

\* The caller drops the frame its last get_frame returned.
DropFrame(u) == heap' = heap \ {frame[u]}

\* get_frame up to g_main_context_invoke: the promise joins the queue.
GetFrame(u) ==
  /\ owner = "open" /\ pc[u] = "idle" /\ calls[u] < MaxCalls
  /\ calls' = [calls EXCEPT ![u] = @ + 1]
  /\ call' = [call EXCEPT ![u] = "frame"] /\ pc' = [pc EXCEPT ![u] = "invoke"]
  /\ pending' = Append(pending, u)
  /\ DropFrame(u) /\ frame' = [frame EXCEPT ![u] = NoBuf]
  /\ UNCHANGED <<ownerVars, flagVars, ctxVars, netVars, fb, fbSize, issued, proc>>

\* key_press, key_release, move_mouse, mouse_press or mouse_release up to
\* g_main_context_invoke.
SendInput(u) ==
  /\ owner = "open" /\ pc[u] = "idle" /\ calls[u] < MaxCalls
  /\ calls' = [calls EXCEPT ![u] = @ + 1]
  /\ call' = [call EXCEPT ![u] = "input"] /\ pc' = [pc EXCEPT ![u] = "invoke"]
  /\ issued' = [issued EXCEPT ![u] = @ + 1]
  /\ UNCHANGED <<ownerVars, flagVars, ctxVars, netVars, fbVars, pending, frame, proc>>

\* g_main_context_invoke finds the context free and takes it.
InvokeTakesContext(u) ==
  /\ pc[u] = "invoke" /\ ctx = "free"
  /\ ctx' = "user" /\ pc' = [pc EXCEPT ![u] = "direct"]
  /\ UNCHANGED <<ownerVars, flagVars, loop, wakeup, frameSources, inputSources, netVars,
                 fbVars, call, issued, calls, pending, frame, proc>>

\* ... and runs the callback itself.
InvokeRuns(u) ==
  /\ pc[u] = "direct"
  /\ ctx' = "free"
  /\ IF call[u] = "frame"
       THEN RequestFrame /\ pc' = [pc EXCEPT ![u] = "waiting"] /\ UNCHANGED <<sent, proc>>
       ELSE DoInput(u) /\ UNCHANGED asked
  /\ UNCHANGED <<ownerVars, flagVars, loop, wakeup, frameSources, inputSources, cptr,
                 conn, down, desk, told, resizes, fbVars, call, issued, calls, pending,
                 frame>>

\* Mutant of AfterQueueing: the caller does not wait for its promise.
NoWait(u) == IF call[u] = "frame" THEN "waiting" ELSE "answered"

\* What the caller does once its source is queued: wait for its promise.
AfterQueueing(u) == "waiting"

\* Otherwise it queues a source and wakes the loop.
InvokeQueues(u) ==
  /\ pc[u] = "invoke" /\ ctx # "free"
  /\ IF call[u] = "frame"
       THEN frameSources' = frameSources + 1 /\ UNCHANGED inputSources
       ELSE inputSources' = Append(inputSources, u) /\ UNCHANGED frameSources
  /\ wakeup' = TRUE
  /\ pc' = [pc EXCEPT ![u] = AfterQueueing(u)]
  /\ UNCHANGED <<ownerVars, flagVars, loop, ctx, netVars, fbVars, call, issued, calls,
                 pending, frame, proc>>

\* The promise is fulfilled: the call returns.
Return(u) ==
  /\ \/ call[u] = "frame" /\ pc[u] = "waiting" /\ frame[u] # NoBuf
     \/ call[u] = "input" /\ pc[u] = "answered"
  /\ pc' = [pc EXCEPT ![u] = "idle"]
  /\ UNCHANGED <<ownerVars, flagVars, ctxVars, netVars, fbVars, call, issued, calls,
                 pending, frame, proc>>

\* wait_for(3s) times out: FATAL.
GetFrameTimesOut(u) ==
  /\ call[u] = "frame" /\ pc[u] = "waiting" /\ frame[u] = NoBuf
  /\ TimerFires
  /\ proc' = "fatal"
  /\ UNCHANGED <<ownerVars, flagVars, ctxVars, netVars, fbVars, userVars>>

-----------------------------------------------------------------------------
(* The VNC server.                                                          *)

\* How many requests one update may answer.
Answerable == IF "coalesce" \in Faults THEN 1..asked ELSE {1}

ServerUpdates ==
  /\ conn = "ready" /\ asked > 0 /\ told = desk
  /\ \E k \in Answerable : asked' = asked - k
  /\ down' = Append(down, [kind |-> "update", size |-> desk])
  /\ UNCHANGED <<ownerVars, flagVars, ctxVars, cptr, conn, sent, desk, told, resizes,
                 fbVars, userVars, proc>>

\* A request finds the desktop resized: the answer is the new size.
ServerTellsSize ==
  /\ conn = "ready" /\ asked > 0 /\ told # desk
  /\ asked' = asked - 1
  /\ down' = Append(down, [kind |-> "resize", size |-> desk])
  /\ told' = desk
  /\ UNCHANGED <<ownerVars, flagVars, ctxVars, cptr, conn, sent, desk, resizes, fbVars,
                 userVars, proc>>

DesktopResizes ==
  /\ resizes < MaxResizes
  /\ desk' \in Sizes \ {desk}
  /\ resizes' = resizes + 1
  /\ UNCHANGED <<ownerVars, flagVars, ctxVars, cptr, conn, asked, down, sent, told, fbVars,
                 userVars, proc>>

ServerHangsUp ==
  /\ "drop" \in Faults /\ conn = "ready"
  /\ conn' = "dropped" /\ asked' = 0
  /\ UNCHANGED <<ownerVars, flagVars, ctxVars, cptr, down, sent, desk, told, resizes,
                 fbVars, userVars, proc>>

-----------------------------------------------------------------------------
OwnerNext ==
  \/ StartConnect \/ ConnectRejected \/ ConnectReturns \/ ConnectTimesOut
  \/ BeginDestroy \/ DestroyReadsConn \/ DestroyShutdown \/ DestroyWakes
  \/ DestroyReturns

LoopNext ==
  \/ LoopStarts \/ LoopIterates \/ LoopWakes \/ LoopIterationEnds
  \/ HandleInitialized \/ HandleClosed \/ HandleUpdate \/ HandleResize
  \/ RunFrameSource \/ RunInputSource
  \/ LoopLeaves \/ LoopUnrefs \/ LoopReleases \/ LoopExits

CallProceeds(u) ==
  InvokeTakesContext(u) \/ InvokeRuns(u) \/ InvokeQueues(u) \/ Return(u)

UserNext ==
  \/ \E u \in FrameUsers : GetFrame(u)
  \/ \E u \in InputUsers : SendInput(u)
  \/ \E u \in Users : CallProceeds(u) \/ GetFrameTimesOut(u)

ServerAnswers == ServerUpdates \/ ServerTellsSize

ServerNext == ServerAnswers \/ DesktopResizes \/ ServerHangsUp

\* The process has ended, or the client is gone.
Stopped ==
  /\ proc # "running" \/ owner = "destroyed"
  /\ UNCHANGED vars

Next ==
  \/ proc = "running" /\ (OwnerNext \/ LoopNext \/ UserNext \/ ServerNext)
  \/ Stopped

Spec == Init /\ [][Next]_vars

\* Every thread that can run does, a call in progress goes on, and the server
\* answers.  Nobody has to make a call, and timers need not fire; the owner
\* does come back to destroy the client.
Fairness ==
  /\ WF_vars(proc = "running" /\ OwnerNext)
  /\ WF_vars(proc = "running" /\ LoopNext)
  /\ \A u \in Users : WF_vars(proc = "running" /\ CallProceeds(u))
  /\ WF_vars(proc = "running" /\ ServerAnswers)

FairSpec == Spec /\ Fairness

-----------------------------------------------------------------------------
(* Properties.                                                              *)

InGetFrame(u) == call[u] = "frame" /\ pc[u] # "idle"
InInput(u)    == call[u] = "input" /\ pc[u] # "idle"

\* No API call makes the client give up with exit(1): as long as the server
\* answers every request, each promise in pending_requests_ has an answer on
\* its way, whatever the interleaving of callers, of the loop and of resizes
\* (get_frame's 3 s FATAL, client.cpp:182-184, and the CHECKs of the input
\* callbacks).
NeverGivesUp == proc # "fatal"

\* Each pixel buffer has one owner, the framebuffer libgvnc paints into or the
\* frame of one caller, and every live buffer has one: a frame is not painted
\* over after it was handed out, and nothing leaks (resize, move_frame and the
\* end of vnc_loop).
BuffersOwned ==
  /\ heap = ({fb} \cup {frame[u] : u \in Users}) \ {NoBuf}
  /\ \A u \in Users : frame[u] # NoBuf =>
       frame[u] # fb /\ \A v \in Users \ {u} : frame[v] # frame[u]

\* An update is only ever painted into a framebuffer of the size the server
\* drew it for, however resizes interleave with updates in flight (on_resize
\* and resize's early return).
UpdatesFit ==
  Writable => \A i \in DOMAIN down :
    down[i].kind = "update" =>
      down[i].size = IF i = 1 THEN fbSize ELSE down[i - 1].size

\* Input events reach the server once each and in the order their caller made
\* them, whichever thread ran each callback, and a call that has returned has
\* been written (send_pointer_event and key_press wait on a promise).
InputInOrder ==
  /\ \A i, j \in DOMAIN sent :
       i < j /\ sent[i].user = sent[j].user => sent[i].no < sent[j].no
  /\ \A u \in InputUsers : ~InInput(u) =>
       \A n \in 1..issued[u] : \E i \in DOMAIN sent : sent[i] = [user |-> u, no |-> n]

\* What a call is waiting for, for the specification of what the client promises.
Doing(u) ==
  CASE pc[u] = "idle"                               -> "nothing"
    [] pc[u] # "idle" /\ call[u] = "frame"          -> "frame"
    [] pc[u] = "answered" /\ call[u] = "input"      -> "written"
    [] pc[u] \notin {"idle", "answered"} /\ call[u] = "input" -> "input"

Service == INSTANCE ClientService WITH
  phase  <- IF owner \in {"new", "starting"} THEN "connecting"
            ELSE IF owner = "open" THEN "open" ELSE "closed",
  doing  <- [u \in Users |-> Doing(u)],
  queue  <- pending,
  shown  <- frame,
  number <- issued,
  record <- sent

\* Every history of the threads is one of the service: frames are handed out in
\* the order in which get_frame was called, to callers that wait for them and with
\* buffers nobody has, an input call returns when its event has been written, and
\* no call is served twice, by the loop and by its own thread (client.cpp:174-221, 268-327).
ServiceKept == Service!Spec

\* The loop thread, which uses the client through a raw pointer, never outlives
\* it, and the destructor leaves neither the framebuffer nor a connection
\* behind (the join at client.cpp:136-138, also after a failed connect).
LoopInsideObject ==
  owner = "destroyed" =>
    loop \in {"none", "done"} /\ fb = NoBuf /\ ~cptr /\ ctx = "free"

\* While the destructor waits for the loop thread, that thread is not blocked for
\* good: if it polls, the wakeup is still there, or something else that ends the
\* iteration (client.cpp:123-138 against the loop test at 246).
WakeupNotLost ==
  owner = "waiting" /\ loop = "poll" => wakeup \/ Pending \/ conn = "opening"

\* The count that guards against a second client is back where it was once
\* the client is going, also after a rejected or failed connect.
OpenCountRestored ==
  numOpen = IF owner \in {"new", "waiting", "destroyed"} THEN others ELSE others + 1

\* get_frame returns once it has been called: no promise is starved or lost.
FrameArrives == \A u \in FrameUsers : InGetFrame(u) ~> ~InGetFrame(u)

\* The destructor of a client that got its thread terminates: the wakeup it
\* sends after exit_ is set cannot be lost, whatever the loop is doing.
DestroyCompletes ==
  owner = "exiting" ~> owner = "destroyed" \/ proc # "running"

\* A connect that is refused reports its error to the caller.
RejectedConnectReturns == owner = "rejected" ~> owner = "destroyed"
=============================================================================
