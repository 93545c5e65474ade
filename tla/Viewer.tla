------------------------------- MODULE Viewer -------------------------------
(***************************************************************************)
(* SDLViewer (src/desktop/sdl_viewer.cpp): a process opens viewers on one  *)
(* shared client; each accepted viewer has a thread that shows frames      *)
(* until its window is closed or close() is called.  SDL is external: one  *)
(* queue of events for the process, and SDL_Init and SDL_Quit that callers *)
(* have to keep apart (sdl_viewer.cpp:13-15).  get_frame is the client's,  *)
(* seen from outside: it returns, or it ends the process.                  *)
(***************************************************************************)
EXTENDS Naturals, FiniteSets

CONSTANTS
  Viewers,     \* the calls of SDLViewer::open the process makes
  Nobody,      \* sdl_init_mu is free
  AllowUnsafe, \* open's allow_unsafe
  Failures     \* TRUE: SDL calls and get_frame may end the process

ASSUME ConstantsAssumption ==
  /\ IsFiniteSet(Viewers) /\ Nobody \notin Viewers
  /\ AllowUnsafe \in BOOLEAN /\ Failures \in BOOLEAN

VARIABLES
  numOpen,   \* num_open
  mutex,     \* who holds sdl_init_mu
  quit,      \* an SDL_QUIT waits in SDL's event queue
  app,       \* where the caller of each open() stands
  thread,    \* where each viewer's app_loop stands
  exitLoop, wasClosed,
  refs,      \* the viewers whose client_ still holds the client
  proc       \* "exited" after exit(1)

vars == <<numOpen, mutex, quit, app, thread, exitLoop, wasClosed, refs, proc>>

TypeOK ==
  /\ numOpen \in Nat
  /\ mutex \in Viewers \cup {Nobody}
  /\ quit \in BOOLEAN
  /\ app \in [Viewers -> {"new", "counted", "open", "refused", "closing", "closed",
                          "destroyed"}]
  /\ thread \in [Viewers -> {"none", "started", "initing", "test", "events", "frame",
                             "show", "destroying", "quitting", "uncount", "flag", "done"}]
  /\ exitLoop \in [Viewers -> BOOLEAN] /\ wasClosed \in [Viewers -> BOOLEAN]
  /\ refs \subseteq Viewers
  /\ proc \in {"running", "exited"}

Init ==
  /\ numOpen = 0 /\ mutex = Nobody /\ quit = FALSE
  /\ app = [v \in Viewers |-> "new"] /\ thread = [v \in Viewers |-> "none"]
  /\ exitLoop = [v \in Viewers |-> FALSE] /\ wasClosed = [v \in Viewers |-> FALSE]
  /\ refs = {} /\ proc = "running"

AppGoes(v, to)    == app' = [app EXCEPT ![v] = to]
ThreadGoes(v, to) == thread' = [thread EXCEPT ![v] = to]

-----------------------------------------------------------------------------
(* The callers of open(), close() and the destructor.                       *)

\* Mutant of Accepts: off by one.
AcceptsTwo(lastOpen) == lastOpen < 2 \/ AllowUnsafe

\* open's test of the count it found.
Accepts(lastOpen) == lastOpen = 0 \/ AllowUnsafe

\* num_open.fetch_add(1), accepted.
OpenCounts(v) ==
  /\ app[v] = "new" /\ Accepts(numOpen)
  /\ numOpen' = numOpen + 1
  /\ AppGoes(v, "counted")
  /\ UNCHANGED <<mutex, quit, thread, exitLoop, wasClosed, refs, proc>>

\* num_open.fetch_add(1), refused: the early return leaves the count as it is.
OpenRefused(v) ==
  /\ app[v] = "new" /\ ~Accepts(numOpen)
  /\ numOpen' = numOpen + 1
  /\ AppGoes(v, "refused")
  /\ UNCHANGED <<mutex, quit, thread, exitLoop, wasClosed, refs, proc>>

\* The viewer object takes a reference to the client and starts its thread.
OpenStarts(v) ==
  /\ app[v] = "counted"
  /\ refs' = refs \cup {v}
  /\ ThreadGoes(v, "started") /\ AppGoes(v, "open")
  /\ UNCHANGED <<numOpen, mutex, quit, exitLoop, wasClosed, proc>>

\* close(), called by the application or by the destructor.
CloseAsks(v) ==
  /\ app[v] = "open"
  /\ exitLoop' = [exitLoop EXCEPT ![v] = TRUE]
  /\ AppGoes(v, "closing")
  /\ UNCHANGED <<numOpen, mutex, quit, thread, wasClosed, refs, proc>>

\* Mutant of Joined: close() does not wait for the thread.
NotJoined(v) == TRUE

\* app_loop_.join()
Joined(v) == thread[v] = "done"

CloseReturns(v) ==
  /\ app[v] = "closing" /\ Joined(v)
  /\ AppGoes(v, "closed")
  /\ UNCHANGED <<numOpen, mutex, quit, thread, exitLoop, wasClosed, refs, proc>>

\* The rest of the destructor: client_ lets go of the client.
Destroy(v) ==
  /\ app[v] = "closed"
  /\ refs' = refs \ {v}
  /\ AppGoes(v, "destroyed")
  /\ UNCHANGED <<numOpen, mutex, quit, thread, exitLoop, wasClosed, proc>>

-----------------------------------------------------------------------------
(* app_loop on a viewer's thread.                                           *)

\* lock_guard l(sdl_init_mu)
InitLocks(v) ==
  /\ thread[v] = "started" /\ mutex = Nobody
  /\ mutex' = v
  /\ ThreadGoes(v, "initing")
  /\ UNCHANGED <<numOpen, quit, app, exitLoop, wasClosed, refs, proc>>

\* SDL_Init returns; the window, its renderer and its texture are created.
InitReturns(v) ==
  /\ thread[v] = "initing"
  /\ mutex' = Nobody
  /\ ThreadGoes(v, "test")
  /\ UNCHANGED <<numOpen, quit, app, exitLoop, wasClosed, refs, proc>>

\* while (!exit_loop_)
LoopTests(v) ==
  /\ thread[v] = "test"
  /\ ThreadGoes(v, IF exitLoop[v] THEN "destroying" ELSE "events")
  /\ UNCHANGED <<numOpen, mutex, quit, app, exitLoop, wasClosed, refs, proc>>

\* Mutant of PollsEvents: exit_loop_ is assigned the test of the event's type.
PollAssigns(v) ==
  /\ thread[v] = "events"
  /\ exitLoop' = [exitLoop EXCEPT ![v] = quit]
  /\ quit' = FALSE
  /\ ThreadGoes(v, "frame")
  /\ UNCHANGED <<numOpen, mutex, app, wasClosed, refs, proc>>

\* Mutant of PollsEvents: the queue is drained without a look at the events.
PollDrops(v) ==
  /\ thread[v] = "events"
  /\ quit' = FALSE
  /\ ThreadGoes(v, "frame")
  /\ UNCHANGED <<numOpen, mutex, app, exitLoop, wasClosed, refs, proc>>

\* SDL_PollEvent drains the process's queue.
PollsEvents(v) ==
  /\ thread[v] = "events"
  /\ exitLoop' = [exitLoop EXCEPT ![v] = @ \/ quit]
  /\ quit' = FALSE
  /\ ThreadGoes(v, "frame")
  /\ UNCHANGED <<numOpen, mutex, app, wasClosed, refs, proc>>

\* client_->get_frame() returns.
GetsFrame(v) ==
  /\ thread[v] = "frame"
  /\ ThreadGoes(v, "show")
  /\ UNCHANGED <<numOpen, mutex, quit, app, exitLoop, wasClosed, refs, proc>>

\* The texture follows the frame's size and shows it.
ShowsFrame(v) ==
  /\ thread[v] = "show"
  /\ ThreadGoes(v, "test")
  /\ UNCHANGED <<numOpen, mutex, quit, app, exitLoop, wasClosed, refs, proc>>

\* A failed SDL call (on_error) or a get_frame without an answer: exit(1).
Fails(v) ==
  /\ Failures /\ thread[v] \in {"initing", "test", "frame", "show"}
  /\ proc' = "exited"
  /\ UNCHANGED <<numOpen, mutex, quit, app, thread, exitLoop, wasClosed, refs>>

\* The window goes; then SDL_Quit.
DestroysWindow(v) ==
  /\ thread[v] = "destroying"
  /\ ThreadGoes(v, "quitting")
  /\ UNCHANGED <<numOpen, mutex, quit, app, exitLoop, wasClosed, refs, proc>>

\* Mutant of QuitReturns: was_closed_ is set before the count is given back.
QuitFlags(v) ==
  /\ thread[v] = "quitting"
  /\ quit' = FALSE
  /\ wasClosed' = [wasClosed EXCEPT ![v] = TRUE]
  /\ ThreadGoes(v, "uncount")
  /\ UNCHANGED <<numOpen, mutex, app, exitLoop, refs, proc>>

QuitReturns(v) ==
  /\ thread[v] = "quitting"
  /\ quit' = FALSE
  /\ ThreadGoes(v, "uncount")
  /\ UNCHANGED <<numOpen, mutex, app, exitLoop, wasClosed, refs, proc>>

\* num_open -= 1
GivesCountBack(v) ==
  /\ thread[v] = "uncount"
  /\ numOpen' = numOpen - 1
  /\ ThreadGoes(v, "flag")
  /\ UNCHANGED <<mutex, quit, app, exitLoop, wasClosed, refs, proc>>

\* was_closed_ = true; the thread ends.
SaysClosed(v) ==
  /\ thread[v] = "flag"
  /\ wasClosed' = [wasClosed EXCEPT ![v] = TRUE]
  /\ ThreadGoes(v, "done")
  /\ UNCHANGED <<numOpen, mutex, quit, app, exitLoop, refs, proc>>

\* A viewer's window is on the screen.
Shows(v) == thread[v] \in {"test", "events", "frame", "show"}

\* The user closes the window of a viewer that shows one.
UserCloses ==
  /\ \E v \in Viewers : Shows(v)
  /\ ~quit /\ quit' = TRUE
  /\ UNCHANGED <<numOpen, mutex, app, thread, exitLoop, wasClosed, refs, proc>>

-----------------------------------------------------------------------------
CloseProceeds(v) == OpenStarts(v) \/ CloseReturns(v) \/ Destroy(v)

AppNext(v) == OpenCounts(v) \/ OpenRefused(v) \/ CloseAsks(v) \/ CloseProceeds(v)

ThreadProceeds(v) ==
  \/ InitLocks(v) \/ InitReturns(v) \/ LoopTests(v) \/ PollsEvents(v) \/ GetsFrame(v)
  \/ ShowsFrame(v) \/ DestroysWindow(v) \/ QuitReturns(v) \/ GivesCountBack(v)
  \/ SaysClosed(v)

Step ==
  \/ \E v \in Viewers : AppNext(v) \/ ThreadProceeds(v) \/ Fails(v)
  \/ UserCloses

\* The process has ended, or every open() was refused or its viewer destroyed.
Stopped ==
  /\ proc = "exited" \/ \A v \in Viewers : app[v] \in {"refused", "destroyed"}
  /\ UNCHANGED vars

Next == (proc = "running" /\ Step) \/ Stopped

Spec == Init /\ [][Next]_vars

\* Threads run, get_frame and the SDL calls return, and a started open, close
\* or destructor goes on.  Several threads may want sdl_init_mu: SF.
Fairness == \A v \in Viewers :
  /\ WF_vars(proc = "running" /\ CloseProceeds(v))
  /\ WF_vars(proc = "running" /\ ThreadProceeds(v))
  /\ SF_vars(proc = "running" /\ InitLocks(v))

FairSpec == Spec /\ Fairness

-----------------------------------------------------------------------------
(* Properties.                                                              *)

\* SDL_Init and SDL_Quit of two viewers never overlap: "it apparently requires
\* caller synchronization to do so" (sdl_viewer.cpp:13-14).
InitAndQuitApart ==
  \A v, w \in Viewers :
    ~(v # w /\ thread[v] = "initing" /\ thread[w] \in {"initing", "quitting"})

\* A viewer's thread only ever asks a client that is still alive for a frame:
\* close() joins it before client_ lets go.
ThreadHoldsClient ==
  \A v \in Viewers : thread[v] \notin {"none", "done"} => v \in refs

\* A viewer that says it was closed no longer keeps others from opening: the
\* count stands for viewers that have not said so, and refused opens.
ClosedGivesPlace ==
  numOpen <= Cardinality({v \in Viewers : app[v] = "refused"})
           + Cardinality({v \in Viewers : app[v] \notin {"new", "refused"} /\ ~wasClosed[v]})

\* An open is refused only because of another viewer that is open: "Opening
\* multiple SDLViewers is unsupported" (sdl_viewer.cpp:24-26).
RefusedForAReason == [][
  \A v \in Viewers : app[v] = "new" /\ app'[v] = "refused" =>
    \E w \in Viewers : app[w] \notin {"new", "refused"} /\ ~wasClosed[w] ]_vars

\* close() returns, and says so through was_closed(): the thread cannot miss
\* exit_loop_ whatever it is doing.  Closing the window ends the viewer although
\* nobody calls close().
CloseCompletes == \A v \in Viewers :
  /\ app[v] = "closing" ~> (app[v] = "destroyed" /\ wasClosed[v]) \/ proc = "exited"
  /\ quit /\ Shows(v) ~> wasClosed[v] \/ proc = "exited"
=============================================================================
