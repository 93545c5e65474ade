# BounceDesktop in TLA+

BounceDesktop runs a program inside a headless Weston compositor, lets an application see
its desktop and send it input over VNC, and can show that desktop in an SDL window.  This
directory models the parts of it that run concurrently, checks the models with TLC on
small instances, and proves their safety properties with TLAPS for every instance.

All paths are relative to the repository (`src/desktop/client.cpp` is the file of that
name in its `src` directory).

- [What the system is made of](#what-the-system-is-made-of)
- [The modules](#the-modules)
- [What the runs check](#what-the-runs-check)
- [What is proved](#what-is-proved)
- [Disagreements with the documentation](#disagreements-with-the-documentation)
- [What is not modelled, and known limits](#what-is-not-modelled-and-known-limits)
- [Plan](#plan)

## What the system is made of

A `WestonBackend` starts Weston with `launch_process` on one port after another until one
is free, has Weston run the helper `export_display`, reads the display variables that the
helper writes to files, and launches the application's command with them.  A
`BounceDeskClient` connects to Weston's VNC port; its loop thread runs libgvnc on the
glib default main context.  Any thread of the application may call `get_frame` and the
input functions.  An `SDLViewer` shares the client and calls `get_frame` from a thread of
its own.  The reaper, which the desktop does not use yet, is a process that starts a
command, is the subreaper of everything the command starts, and closes all of it when it
is told to, when it gets a signal, or when the launcher goes away.

| Component | State | Operations | What makes it hard |
|---|---|---|---|
| **BounceDeskClient** `desktop/client.cpp` | `num_open`; `initialized_`, `exit_`, `exited_`; `c_`; the framebuffer and its pixel buffer; `pending_requests_` | `connect`, destructor, `vnc_loop` and its callbacks (`on_initialized`, `on_framebuffer_update`, `on_resize`), `get_frame`, `key_*`, `mouse_*` | callbacks run on the loop thread *or* on the caller's, promises are answered by whichever update comes next, resizes race with updates in flight, shutdown races with start-up and with dispatch |
| **SDLViewer** `desktop/sdl_viewer.cpp` | `num_open`, `sdl_init_mu`, `exit_loop_`, `was_closed_`, the thread | `open`, `close`, destructor, `app_loop` | SDL is one per process: its event queue and its init/quit count are shared by all viewers |
| **Reaper protocol** `reaper/reaper.cpp`, `reaper/impl.cpp` | the launcher's place in launch/clean-up, the reaper's place in its poll loop, `parent_died_`, the socket, the passed pidfd | `create`, `launch`, `clean_up`, destructor; `run`, `on_exit`, `exit_handler` | two processes, either of which may die at any step; a hang-up and a pidfd that tell of the same death at different times; timeouts and late answers |
| **Reaper clean-up** `reaper/cleanup.cpp` | the children of the reaper | `close_all_descendants`, `wait_all` | the tree forks, exits and is orphaned while it is being closed |
| **IPC channel** `reaper/ipc.tpp` | the sockets, `connected_`, `blocking_`, the socket's file | `create`, `connect`, `send`, `receive`, `send_fd`, `receive_fd`, move, `cleanup_from_client`, destructor | the server accepts at its first call; descriptors and messages share one byte stream; hang-ups; blocking and non-blocking use; moved-from objects are destroyed |
| **Process** `process/process.cpp` | the pid and the streams of a child | `launch_process`, `terminate_process`, destructor, move | several threads launch at once; spawns fail; ECHILD, timeouts and pid reuse |
| **Streams and descriptors** `process/process_helpers.cpp`, `stream.cpp`, `fd.cpp` | the launcher's descriptors and who owns them | validation, pipes, spawn file actions, `Fd` | the order of `dup2` and `close` over whatever numbers are free; descriptors leak into other children |
| **EnvVars** `process/env_vars.cpp` | a map of variables, and the array made from it | `set_var`, `prepend_var`, `environ`, `vars` | an environment can name a variable twice |
| **Weston launch, WestonBackend, display variables** `weston/*.cpp`, `desktop/weston_backend.cpp` | the port, the Weston and command processes, two files per port | port search, launch and start-up detection, export and import of `DISPLAY` and `WAYLAND_DISPLAY`, destructor | several backends search for ports at once; a helper keeps its Weston's port; files are read while they are written; start-up can fail after every step |
| **Mouse buttons** `desktop/mouse_button.h` | `button_mask_` | press, release | width of the mask |
| **Python bindings, tests, build, vendored code** | none of their own | | |

What each part must guarantee:

- *Client*: every call returns and none ends the process; a frame belongs to its caller
  alone; updates fit the framebuffer they are painted into; input keeps its order; the
  loop thread ends inside the destructor and the destructor ends; the count of open
  clients is exact.
- *Viewer*: the thread uses a live client only; SDL's init and quit do not overlap;
  `close()` and closing the window both end the viewer; whoever was closed does not keep
  others from opening.
- *Reaper*: "finished" and a true `clean_up()` mean that nothing is left; however the
  launcher ends, nothing outlives it; no zombie is forgotten; a request is answered.
- *IPC*: what was sent arrives whole, once and in order; a hang-up is reported after it and
  not before; no call ends the process or waits without need.
- *Process*: a child gets the streams and the environment that were asked for; every
  descriptor is closed once, by its owner; a reader sees the end of file; a child that
  outlives its `Process` has a SIGKILL on its way, and no signal goes elsewhere.
- *Weston backend*: `start_server` returns, unless Weston's compositor backend goes on
  failing; a successful one has a port to itself and
  display variables of one server; a failed one leaves nothing; the command never loses
  its display server to the destructor.

## The modules

| Module | Contents |
|---|---|
| `ClientService` | what a client promises the threads that call it: an abstract specification |
| `Client` | one client: its owner thread, its loop thread, the API callers, and the VNC server; implements `ClientService` |
| `Viewer` | the viewers of a process on one client |
| `ReaperService` | what `reaper.h` promises a launcher: an abstract specification |
| `Reaper` | a launcher, a reaper, their socket, and the tree of the command's processes; implements `ReaperService` |
| `Weston` | the calls of `start_server`, their Westons, helpers, commands and files |
| `Channel` | what an IPC channel promises its two ends: an abstract specification |
| `IPC` | the two ends of a channel, their objects and the kernel's sockets; implements `Channel` |
| `EnvVars` | an environment as a map, and what `getenv` finds: operators only |
| `Process` | the launches of a process, their descriptors, their children and `~Process`; extends `EnvVars` |
| `MCClient`, `MCViewer`, `MCReaper`, `MCWeston`, `MCIPC`, `MCProcess` | instances for TLC |
| `ClientProofs`, `ClientCallProofs`, `ViewerProofs`, `ReaperProofs`, `WestonProofs`, `IPCProofs`, `ProcessProofs`, `EnvVarsProofs` | inductive invariants and proofs |

The models share no variables.  The client meets Weston only through the VNC server it
has as an external actor, and the viewer meets the client only through `get_frame`.
`Reaper` uses a socket of whole messages that is what `Channel` promises two ends that never
ask for the wrong kind of item: the launcher sends its one descriptor before any message,
and the reaper receives it before any, which is the theorem `DescriptorComesFirst`.
`Reaper` and `Weston` see `launch_process` as one step that may fail and `~Process` as its
two signals with a wait between them; `Process` is where those steps are taken apart.  In
all three a SIGKILL is sent in one step and takes effect in a later one, since nobody waits
for it.

Operators that begin a comment with "Mutant of" are deliberately wrong variants of the
definition that follows them.  No action uses them: they document which mistake a
property would expose, and each property has been seen to fail with one of them in place.

### Client

State and code:

- `owner` is where the thread that holds the `unique_ptr` stands, in `connect_impl`, in
  use, or in the destructor.  `DestroyReadsConn`, `DestroyShutdown`, `DestroyWakes` and
  `DestroyReturns` are the destructor's statements, because each of them races with the
  loop thread.
- `loop` is where `vnc_loop` stands.  `LoopIterates` enters
  `g_main_context_iteration`; `HandleInitialized`, `HandleClosed`, `HandleUpdate`,
  `HandleResize`, `RunFrameSource` and `RunInputSource` are what an iteration may
  dispatch (several, or none after a wakeup).
- `ctx` is the ownership of glib's default main context.  `g_main_context_invoke` runs
  the callback at once on the caller's thread when the context is free
  (`InvokeTakesContext`, `InvokeRuns`) and queues a source otherwise (`InvokeQueues`).
- `asked` counts the framebuffer update requests the server has not answered, `down` is
  the stream of its answers, `sent` the input events it has been written.
- `heap` is the set of live pixel buffers, `fb` the framebuffer's, `frame[u]` the one
  caller `u` was given.  Buffers are identities: that is all the ownership properties
  tell apart.  Sizes matter only by being equal or not.
- `pending` is `pending_requests_`: `move_frame` answers the oldest promise with the
  framebuffer's buffer and installs a new one.
- Inputs are numbered per caller (`issued`).  `key_press`, `move_mouse`,
  `mouse_press` and the others differ only in the event they carry and share one action.

`ClientService` knows neither threads nor messages: a call begins, is served once, and
returns; the oldest of the frames that are due is handed out with a buffer nobody has; an
input call's event is recorded before it returns; nothing begins or is served unless the
client is open, and it closes when no call is left.  The refinement takes `pending` for
`queue`, `frame` for `shown`, `sent` for `record`, and what a caller waits for (`Doing`)
from its `pc` and `call`.

External, modelled as the code uses it: glib's context (a lock with a wakeup and a list
of sources), libgvnc (reads messages in order, reports them on the thread that iterates),
and the server, which owes one message for each request and answers with the desktop size
first when it has changed.  `Faults` adds what the code defends against: `"slow"` lets
every timer fire although an answer is on its way, `"drop"` lets the server refuse or
close the connection, `"coalesce"` lets one update answer several requests.

### Viewer

`app[v]` is where the caller of `open` number `v` stands, `thread[v]` where its
`app_loop` stands.  `numOpen` and `mutex` are the globals of `sdl_viewer.cpp`; `quit` is
the `SDL_QUIT` in SDL's one event queue; `refs` are the viewers whose `client_` holds the
client.  `get_frame` is seen from outside: it returns or ends the process.  `SDL_Init`
and `SDL_Quit` have duration (`"initing"`, `"quitting"`), so that they can overlap.

### Reaper

`lpc` and `rpc` are the program counters of the launcher and of `ReaperImpl`.  The socket
is `toReaper` and `toLauncher` (whole messages), `file`, `open` (the launcher's end),
`linked` and `fdSent`.  The command's processes are numbers in the order they were
born, each `"alive"`, `"zombie"` or `"gone"`, with a parent, which is 0 for the reaper
(and for init once the reaper is gone).  `ProcForks`, `ProcDies` and `ProcReaps` are what
the tree does by itself at any moment; a process may ignore SIGTERM for ever, which is
why SIGTERM has no effect in the model, but not SIGKILL.  `ready` is what `poll()` has
returned: the handlers work on that snapshot while the world goes on.

The kernel is modelled as the code relies on it: orphans go to the subreaper, SIGCHLDs
merge into one, `Children` lists zombies too (as `/proc` does), and a peer sees a hang-up
of a dead reaper for certain only when no descendant still holds the inherited socket.
A launcher's death has two steps: its files close (`LauncherCrashes`), then its pidfd
becomes readable (`LauncherDies`).  `signalled` is the set of signals on their way to the
reaper: a `"TERM"` is taken between two of its steps (`TakesSignal`), a `"KILL"` ends it at
any time (`KillArrives`), possibly after the destructor that sent it (`KillReaper`).

A refusal does not end the reaper: after `INVALID_COMMAND` it is `"leaving"`, which it
stays for the second that `~Process` of `run()`'s local takes (`reaper/impl.cpp:97`), with
its signal handlers in place.  The launcher's SIGTERM may then still lead to
`close_all_descendants` and `FINISHED_CLEANING_UP`.  `launched` is a history variable: that
`launch()` has returned OK, whatever the launcher has done since.

`ReaperService` has no socket, no program counters and no parents of processes.  A reaper
(`guard`) takes the command on, refuses it, gives up because its launcher has gone,
finishes when nothing is left, or is killed; one that refuses may yet be told to clean up
(`TurnsBack`).  What it has said and the launcher has not read is `words`.  `launch()`
succeeds on the reaper's word and fails on its refusal, after its end, or, before anything
was asked of the reaper, because there is no pidfd; `clean_up()` says true at most once for
an end, and after it; the destructor is over when the reaper is, or when it has sent it a
SIGKILL (`doomed`).  The launcher may exit at any time.  In the refinement `words` are the
messages on their way (`Words`), and `st` is `st`; the rounds of `close_all_descendants`
are waits for zombies, or stutter.

### Weston

`pc[b]` is where call `b` of `start_server` stands, and after its success the destructor of
the backend it returned; the calls belong to one process or to several, which makes no
difference to the code.  `port[b]` counts from `port_offset`.  `weston[b]`, `command[b]` and
`helper[b]` are the three processes, with `"asked"` after `~Process` has sent SIGTERM and
`"killed"` after SIGKILL, which the code does not wait for.  `EndsWeston` and `WestonEnded`
are the beginning and the end of `~Process` on each of the ways there: the next port, an
error, the destructor.  `xFile` and `wFile` are the two files of a port; all that a file's
text tells apart is whose server it names, or that it is empty.  The helper's steps follow
`write_vars` down to the two streams, which are written when they are destroyed, in
reverse order; the reader's follow `read_vars`, so that each may come between any two of
the other's.

Weston is external: it binds the port or reports that it cannot (`Binds`), runs its launch
command (`RunsHelper`), and may report another error, crash, exit or hang at any time.  Its
compositor backend may fail for a reason that is not the port (`BackendBreaks`), which the
code cannot tell from a taken port; `broken` remembers those failures.  Weston passes the port's socket on to the helper, as `weston/launch_weston.h` says, so a port
stays taken until both are gone (`HoldsPort`).  `HasChild` holds from the binding on, also
without the helper, since Weston may start a client of its own; it is a lower bound of
what the code may take for the sign that Weston is up.  The count of more than twenty
rounds with a child is one step.

### IPC and Channel

Each end is one thread of its own process: `"server"` has create()d, `"client"` connects.
`obj[e]` is the end's current object, `shells[e]` what its moved-from objects still refer to
(nothing, as long as the move constructor takes everything), `connected[e]` and
`blocking[e]` the fields of that name, `waits[e]` the flag that `blocking_` caches.  A call
has up to three steps: `Begin`, up to its system call; `Accept`, when a server's first call
has to make the connection; and the system call with the return.  `way[e]` is the stream to
an end, a sequence of items, and `cut[e]` how many bytes of the first item have been read: a
descriptor travels with one byte, so a `receive_fd` that meets a message eats a byte of it
and a `receive` that meets a descriptor gets too little.  `Read` says what `recv` returns
in each of these cases, also that it stops at a descriptor and loses it.  `send` and
`send_fd` are one action, as they differ in the kind of item only.

`Channel` has a queue for each end and no bytes: an end that asks for the kind of item that
was sent gets the oldest whole (`Receive`), one that asks for the other kind may spoil
what it reads until the stream is in step again (`Misread`), and a hang-up is reported
to a receive when the queue is empty.  The refinement takes `way` for `queue`, `cut[e] # 0`
for `torn`, and "has not closed its socket or its listener" for `up`.

### Process and EnvVars

`pc[p]` is where launch `p` stands in `launch_process`, and after it its `Process` in
`~Process`.  `fds` is the launcher's descriptor table, shared by all launches: each number
refers to a file or an end of a pipe of a launch (`Things`).  `held[p]` is what the
`StreamOut`s hold, in `prelaunch` and then in the `Process`, and `ends[p]` is
`close_after_spawn`.  The two switches of `process_streams_prelaunch` are the two steps
`Prepare(p, "out")` and `Prepare(p, "err")`, since `pipe()` takes numbers that other threads
take too; `ChildTable` is what the list of file actions makes of the table.  `table[p]` and
`environment[p]` are the child's.  An id is free once its process was waited for
(`FreePids`), and may go to a later child or, by `StrangerStarts`, to somebody else's
process; `hit` remembers a signal that went astray, `stolen` that the process has waited
for a child elsewhere, as `wait_all` and the reaper's start do.  `TimesOut` may fire at any
moment of the wait: how long a child takes is not limited.  It sends the SIGKILL and goes
on; the child is `doomed` and ends in a later step (`Exits`).

`EnvVars` turns a list of assignments, in which the first of a name counts, into a map and
back; a value is a sequence because `prepend_var` concatenates.

External: the kernel's descriptors, pipes, process ids and signals, and the child, which
may exit at any time or ignore SIGTERM.

## What the runs check

Runs that pass:

| Run | Properties | What it shows |
|---|---|---|
| `client_frames` | `NeverGivesUp`, `BuffersOwned`, `UpdatesFit`, `InputInOrder`, `FrameArrives`, `DestroyCompletes` | Two callers of `get_frame`, two calls each, one of them also with input, and a resize.  Although promises are answered by whatever update comes next, none is left without one; buffers have one owner; updates fit; the two events of a caller arrive in its order, whichever thread ran each callback; `get_frame` returns; the destructor's single wakeup is never lost. |
| `client_faults` | `LoopInsideObject`, `OpenCountRestored`, `WakeupNotLost`, `ServiceKept` | Everything may go wrong, including a second client that makes `connect` refuse.  Two threads call `get_frame` and send input; direct and queued callbacks serve no call twice.  `ServiceKept` is the refinement of `ClientService`. |
| `viewer_one` | `InitAndQuitApart`, `ThreadHoldsClient`, `ClosedGivesPlace`, `CloseCompletes` | Three opens without `allow_unsafe`, and SDL calls that may fail. |
| `reaper` | `NoVainWait`, `FinishedMeansGone`, `CleanUpTruthful`, `LaunchedMeansReaped`, `NoZombieForgotten`, `ServiceKept`, `CleanUpDone`, `LaunchAnswered` | A tree of three processes, two calls of `clean_up()`, and every fault: early timeouts, a crashing launcher, signals, a SIGKILLed reaper.  A clean-up that is asked for, or that the launcher's death calls for, ends with nothing left although the processes ignore SIGTERM; `launch()` gets an answer unless the reaper is SIGKILLed; neither side waits for what never comes, but for one case (see [limits](#what-is-not-modelled-and-known-limits)).  After a launch that succeeded nothing is left when the reaper ends by itself, also after the launcher has stopped it, exited or crashed.  `ServiceKept` is the refinement of `ReaperService`. |
| `weston` | `SearchBounded`, `PortIsOurs`, `DisplayComesWhole`, `NothingLeft`, `CommandInsideServer`, `StartReturns` | Two backends search while the first port is held by another program and everything external may fail at any step.  `SearchBounded` and `StartReturns` hold because only finitely many Westons fail for a reason that is not the port. |
| `ipc` | `NeverFatal`, `WholeOrGone`, `ChannelKept`, `CallReturns` | Any mixture of messages and descriptors, blocking and non-blocking calls, a move, destructors and crashes on either side.  `ChannelKept` is the refinement. |
| `process` | `StreamsAsAsked`, `EndOfFileComes`, `FdsOwned`, `EnvironmentAsAsked`, `SignalsOwnChild`, `DestroyedIsKilled`, `DestroyCompletes` | Two concurrent launches over all pairs of streams, failing spawns, ids that are reused, and others who wait for the children. |

Deadlock is not checked where the system may stop: a client, a backend or a `Process` that
was destroyed does nothing more, the destructor of a rejected client never ends (see
below), and the two ends of a channel may wait for each other's messages.

`client_rejected`, `viewer_refused`, `reaper_file`, `weston_helper` and `ipc_unconnected`
are runs whose property fails; see [Disagreements](#disagreements-with-the-documentation).

### Bounds

- `MaxCalls`, `MaxResizes` (`Client`): calls per thread and resizes of the desktop.  Two
  calls let a second meet the leftovers of a first (an update that was meant for another
  promise), lets one caller's two input events overtake each other if anything does, and
  one resize lets updates of both sizes be in flight.  With faults, one call of each thread.
  One thread sends input in `client_frames`: events of different callers have no order.
- `Buffers` has three members: two callers and the framebuffer hold at most three.  With
  fewer, `move_frame` could not allocate; with more, nothing changes, as a buffer is only
  an identity.
- `Sizes` are `<<1, 1>>` and `<<1, 2>>`: equal in width, so that a comparison of one
  dimension only would be seen.
- `OthersOpen`: 0 or 1 other client of the process, the two cases `connect` tells apart.
- `Viewers`: three opens are an open viewer, one refused because of it, and one that
  comes after either.
- `MaxProcs = 3`: a command, a child and a grandchild, so that an orphan can be a zombie
  already, can fork between snapshot and kill, and can appear in the next round only.
- `MaxCleanUps = 2`: a second call can meet the late answer to the first.
- `Backends` has two members and `Foreign` is `{0}`: each search meets a foreign port, and
  one meets a port of the other, of its helper, or its files.  `MaxBreaks = 1`: one failure
  of a compositor backend that is not due to the port, which moves a search on by one.  The
  code has no such bound; without it the search has no end (see
  [Disagreements](#disagreements-with-the-documentation)).  `Ports` is not a bound of the
  state space but the claim of `SearchBounded`.
- `Size = 3`, `MaxCalls` 2 for the server and 3 for the client, `MaxMoves = 1` (`IPC`):
  messages of three bytes, so that one or two of them can be missing and what is left can be
  just too short or, with a descriptor behind it, just long enough; three calls are a wrong
  one, one that meets what it left, and one after that.  Two payloads tell a message from
  the next.
- `Procs` has two members, `MaxFds = 11`, `Inherited = {1, 2, 4}` (`Process`): two launches
  take at most eight descriptors, beginning with 0, with a gap before 4, so that a number is
  freed by one and taken by the other.  One launch goes through all pairs of streams and
  the environments of `weston_backend.cpp`, `reaper.cpp` and others; the other takes most
  descriptors or leaves a file behind.  `Pids` has two members, so that ids are
  reused, and `Environ` names one variable twice.

None of the proofs depends on any of these numbers.

### Fairness

- *Client*: weak fairness for the owner, the loop thread, each caller inside a call, and
  the server's answers: threads are scheduled, and a server answers.  No fairness for
  making a call, for resizes, for hang-ups or for timers.  The context is a lock; weak
  fairness of a caller is enough since a caller that finds it taken queues and goes on.
- *Viewer*: weak fairness for the threads and for an `open`, `close` or destructor in
  progress.  Strong fairness only for taking `sdl_init_mu`, as several threads may keep
  taking it; a mutex does not starve a waiter for ever.  Nobody has to close a viewer.
- *Reaper*: weak fairness for the reaper's steps, for launcher calls in progress, and for
  the delivery of a SIGKILL to a process of the command or to the reaper.  No fairness for the command's processes: they may fork
  (up to `MaxProcs`), hang and ignore SIGTERM.  That bound is what makes the clean-up
  terminate: a command that forks faster than the reaper kills would outrun the code too.
- *Weston*: weak fairness for each `start_server` and destructor, whose waits all have a
  limit, and for each helper.  None for Weston and the command, which may hang or stay.
- *IPC*: weak fairness for an accept that can return and for a system call that can.
  Nobody has to connect, to call, or to hang up.
- *Process*: weak fairness for the threads in `launch_process` and `~Process`, and for the
  limit of the wait, which passes by itself, and for the delivery of a SIGKILL.  A child
  need not exit or heed SIGTERM.

## What is proved

All theorems hold for every value of the constants that satisfies the module's
assumptions: any number of callers, buffers, sizes, viewers, processes, launches and calls,
and any set of faults unless stated.  Those assumptions say no more than that the
parameters have their kinds (`Users`, `Viewers`, `Backends` and `Foreign` are finite,
`Nobody` and `NoBuf` are none of the others, an environment is a list of assignments of
strings over `Chars`), that a message has more than one byte (`IPC`), and that the
launcher's stdout and stderr are open and that an environment is made by `set_var` and
`prepend_var` from a copy of the launcher's or from nothing (`Process`).

| Module | Theorem | Statement |
|---|---|---|
| `ClientProofs` | `TypeCorrect` | `Spec => []TypeOK` |
| | `CountBalanced` | `Spec => []OpenCountRestored` |
| | `LoopJoined` | `Spec => []LoopInsideObject` |
| | `BuffersHaveOwners` | `Spec => []BuffersOwned` |
| | `UpdatesHaveRoom` | `Spec => []UpdatesFit` |
| | `LoopIsWoken` | `Spec => []WakeupNotLost` |
| `ClientCallProofs` | `CallsAnswered` | `Faults = {}` implies `Spec => []NeverGivesUp` |
| | `LoneCallerAnswered` | with at most one caller of `get_frame` and `Faults \subseteq {"coalesce"}`, `Spec => []NeverGivesUp` |
| | `EventsInOrder` | `Spec => []InputInOrder` |
| | `ImplementsService` | `Spec => ServiceKept`, the refinement of `ClientService` |
| `ViewerProofs` | `TypeCorrect` | `Spec => []TypeOK` |
| | `ThreadKeepsClient` | `Spec => []ThreadHoldsClient` |
| | `CountGivenBack` | `Spec => []ClosedGivesPlace` |
| | `SdlCallsApart` | `~AllowUnsafe` implies `Spec => []InitAndQuitApart` |
| `ReaperProofs` | `TypeCorrect` | `Spec => []TypeOK` |
| | `ClosesAllDescendants` | `Spec => []FinishedMeansGone` |
| | `CleanUpTellsTheTruth` | `Spec => []CleanUpTruthful` |
| | `LaunchedIsReaped` | `Spec => []LaunchedMeansReaped` |
| | `ZombiesRemembered` | `Spec => []NoZombieForgotten` |
| | `WaitsAreMet` | `Spec => []NoVainWait` |
| | `DescriptorComesFirst` | before a message is sent to the reaper the pidfd is, and the reaper has received it |
| | `ReaperServes` | `Spec => ServiceKept`, the refinement of `ReaperService` |
| `IPCProofs` | `TypeCorrect` | `Spec => []TypeOK` |
| | `CallsNeverFatal` | `Spec => []NeverFatal` |
| | `WholeUntilDestroyed` | `Spec => []WholeOrGone` |
| | `ImplementsChannel` | `Spec => ChannelKept`, the refinement |
| `ProcessProofs` | `TypeCorrect` | `Spec => []TypeOK` |
| | `DescriptorsOwned` | `Spec => []FdsOwned` |
| | `StreamsConnected` | `Spec => []StreamsAsAsked` |
| | `ReadersSeeTheEnd` | `Spec => []EndOfFileComes` |
| | `SignalsStayHome` | `Spec => []SignalsOwnChild` |
| | `ChildrenEnd` | `Spec => []DestroyedIsKilled` |
| | `EnvironmentFollows` | `Spec => []EnvironmentAsAsked` |
| `EnvVarsProofs` | `ConstructorKeepsValues` | what `getenv` finds in a list is what the map made from it holds |
| | `VarsKeepsValues` | what `getenv` finds in the list made from a map is what the map holds |
| | `EditsAsAsked` | after any calls of `set_var` and `prepend_var` each value is as its last call says (`Leaves`) |
| `WestonProofs` | `TypeCorrect` | `Spec => []TypeOK` |
| | `SearchEnds` | `Spec => []SearchBounded` |
| | `PortBelongs` | `Spec => []PortIsOurs` |
| | `DisplaysPaired` | `Spec => []DisplayComesWhole` |
| | `NothingLeftBehind` | `Spec => []NothingLeft` |
| | `CommandHasServer` | `Spec => []CommandInsideServer` |

The invariants and their strengthenings were checked by TLC before they were proved.  Why
the strengthenings are needed:

- **Client, life.** `LifeInv`: who may hold the context, where the loop can be for each
  place of the owner, that callers are inside a call only while the client is open, and
  that a queued input source belongs to a caller who waits for it (`SourcesWait`).  From
  it the loop has ended when the destructor returns.
- **Client, buffers.** `OwnershipInv` adds to `BuffersOwned` that each promise in
  `pending` is that of a caller who waits and has no frame, that no caller has two
  (`PromisesWait`), and that there is a framebuffer whenever updates can arrive
  (`FramebufferInstalled`).  Without them a second answer to one promise would lose a
  buffer.
- **Client, sizes.** `SizesInv` follows the sizes through the stream: each update in `down`
  has the size the framebuffer will have when it is read, each size message a different
  one, and the last message the size the server remembers (`told`).  `UpdatesFit` alone
  does not say what the server may send next.
- **Client, promises.** `CallersPending` (a caller who waits has a promise in `pending`)
  and `AnswersUnderWay`: there are never more promises than unanswered requests, messages
  in flight, queued request sources and callers about to ask, taken together.  A message
  that is a size answers no promise but makes `resize` ask again; that it always does,
  and never takes its early return, is where `SizesInv` is needed.  `ConnectedWhileOpen`
  says that without faults the connection outlives the calls.
- **Client, input.** `SentInv`: `sent` holds each event a caller has issued, but for the
  one of a call in progress (`Written`), with growing numbers.
- **Client, one caller.** A server that answers several requests with one update breaks
  `AnswersUnderWay`, and with two callers of `get_frame` one of them can be left without an
  answer.  `AnswerComing` is what remains: while a promise is due there is a message, a
  request or a source under way, or a caller about to ask.  Since one promise is all there
  is, that is enough for a caller that is alone.
- **Client, wakeup.** `ExitInv`: from its first step on the destructor has set `exit_`.
  `WakeupNotLost` itself is inductive with it: the loop tests `exit_` before it sleeps, and
  the wakeup comes after `exit_` is set.
- **Client, service.** Each step is one of `ClientService` or a stutter.  What a step of the
  service asks for is in the invariants above: that a promise at the head of `pending`
  belongs to a caller who waits and has no frame, and that a buffer that is handed out is
  nobody's, in `OwnershipInv`; that calls are in progress only while the client is open,
  and have ended when it closes, in `LifeInv`.
- **Viewer.** `num_open` equals the number of refused opens plus accepted viewers whose
  thread has not given its count back (`CountInv`), and without `allow_unsafe` there is
  at most one of the latter.  That is what keeps `SDL_Quit`, which takes no lock, away
  from another `SDL_Init`.
- **Reaper, tree.** `TreeInv`: the parent of a process that is not reaped is the reaper or
  an older live process.  `NoChildrenNobody` follows by taking the oldest process left
  (well-foundedness of `<` on the naturals): *a reaper without children has no
  descendants*, on which `close_all_descendants` rests.
- **Reaper, messages.** `MessageInv`: at most one verdict on the launch waits in the
  socket, and it is read before `clean_up()` can run; behind it there is only
  `FINISHED_CLEANING_UP` of a reaper that has exited.  So any message `clean_up()` reads,
  which the code does not look at in its polling loop, is that one.
- **Reaper, zombies.** `ZombieInv`: up to the clean-up each zombie of the reaper is
  covered by a pending SIGCHLD, orphans that were zombies when they arrived included.
- **Reaper, waits.** `WaitInv` adds to `NoVainWait` who has sent, connected or closed what
  at each pair of places: the pidfd is sent while the launcher is in `accept` and is read
  before the command is launched, and nothing is asked of a reaper before it has announced
  the launch.
- **Reaper, service.** `EndInv` and `WordInv`: a reaper that has ended stays as it is, its
  launcher goes on from `stopping` only then or with a SIGKILL on its way, and no message is
  in the socket twice.  With `MessageInv`, taking a message off the socket is hearing it for
  the only time (`WordsRead`), and `FINISHED_CLEANING_UP` is the word of a reaper that has
  ended, so that a `launch()` that reads it fails for that reason.  `GoneInv` is what lets
  the reaper finish.
- **Weston, search.** `LifeInv` says which processes there can be at each place, and that
  who goes on to the next port was refused this one.  `SearchInv` says that each port
  below `port[b]` is foreign or that of another backend that has bound it.  As a backend
  that has bound a port keeps its number for good (`BoundStays`), the pigeonhole principle
  bounds the search (`SearchStops`); `SearchBounded` alone says nothing of why a port was
  skipped.  `BreakInv` accounts for the ports that a Weston of its own lost for another
  reason: there is one failure in `broken` for each.
- **Weston, ports.** `HoldInv`: no two hold the same port, and none a foreign one.
- **Weston, files.** `FilesInv`: `x_display` names a server only when its helper has
  written both files, and while that server's port is held nobody else writes to them, so
  that `wayland_display` names it too; `ReadInv` carries this over to what `start_server`
  has read so far.

- **IPC.** `FlagsAgree`: `O_NONBLOCK` is what `blocking_` says, and in the middle of a call
  what the call asked for (`CallsSound`), which is why a blocking receive never sees EAGAIN.
  `CutsSound`: an end is in the middle of an item only when that item is a message and its
  first in the stream.  `ShellsEmpty`, `ClientSound` and `ServerSound` follow the
  sockets, the listener and the file through moves, hang-ups and crashes.  From these each
  step is a step of `Channel` or a stutter: `Accept` and `Begin` are stutters, `Receives` is
  `Receive` or `Misread` depending on `cut` and on the kind at the head.
- **Process.** `DescSound`, in four parts: what `held` (`HeldSound`) and `ends` (`EndsSound`) refer to is
  a thing of that very launch and stream; a launch that has passed a switch has what the
  switch makes (`Complete`); and a descriptor that is open was inherited or is referred to
  (`OpenSound`).  Things differ between launches, so no two own the same number.
  `TableSound` says where in a child's table a pipe's end can be, and `PidSound` that a
  child not waited for keeps its id to itself.
- **Environment.** The constructor and a series of calls are recursive functions over the
  positions of a list.  That the functions exist, and what holds of each of their values, is
  proved without an induction theorem: were the claim false at some position there would be
  a least one (`LeastNumber`), and the step to it is a contradiction.  `Leaves` is what
  `EnvironmentAsAsked` says of a value, for each prefix of the calls.  `EnvSound` says
  that a child keeps the environment of its request as long as its `Process` is there.

Only model-checked: liveness, which is out of the prover's reach (`FrameArrives`,
`DestroyCompletes` of `Client` and of `Process`, `CloseCompletes`, `CleanUpDone`,
`LaunchAnswered`, `StartReturns`, `CallReturns`), and the properties that fail.  Every
invariant, action property and refinement that a run checks is proved.  Proved but not
checked by a run: the type invariants, `DescriptorComesFirst`, and the three theorems about
the operators of `EnvVars`.

## Disagreements with the documentation

1. `client_rejected` — a `connect` that is refused because another client is open
   never returns its error.  `connect_impl` returns before it starts the loop thread; the
   destructor then waits for `exited_`, which only the loop thread and the timeout path
   set (`desktop/client.cpp:98-101`, `:131`).
2. `viewer_refused` — a refused `SDLViewer::open` keeps its count: once one open was
   refused, every later one is, also with no viewer open (`desktop/sdl_viewer.cpp:22`).
3. `reaper_file` — when the launcher exits without `clean_up`, its socket closes before
   its pidfd becomes readable.  A reaper that polls in between takes the hang-up for the
   reason: it does not remove the socket's file, contrary to `reaper/impl.h:72-75`, and its
   last message fails a CHECK.  The descendants are closed all the same.
4. `weston_helper` — a Weston that ends between its fork of `export_display` and the
   helper's `prctl` leaves the helper, which `weston/export_display_main.cpp:1` says "runs
   until its parent exits", asleep for ever with the port's socket.
5. `ipc_unconnected` — `receive(false)` on a server that nobody has connected to waits in
  `accept`, where `reaper/ipc.h:29` has "UnavailableError if block is false and there's
  no data to receive".  The reaper's own use is not affected: its launcher calls
  `send_fd` first.

Two more were met while reading and have no run:

- `reaper/reaper.h:31-32` has `launch()` return an error if the command "exits quickly
  after launching".  `reaper/impl.cpp:94` does so only when its status is not 0: a command
  that has exited with 0 within the 20 ms is a success (`Settles`).
- `weston/launch_weston.h:22-23` has UNAVAILABLE for a taken port and UNKNOWN for "any
  non-port related error".  `weston/launch_weston.cpp:51`, `:61` return UNAVAILABLE for any
  failure of the compositor backend, and `desktop/weston_backend.cpp:19-26` then tries the
  next port: a Weston whose backend fails on every port makes `start_server` search without
  an end.  `SearchBounded` and `StartReturns` are stated for finitely many such failures.

## What is not modelled, and known limits

- Contents of frames: which pixels an update paints, and when they were drawn.
- Mouse position and button mask: written without a lock by the API threads.
- Several clients of one process iterate the same default context; `Client` has one, and
  the others only as a number.
- Fulfilling a promise is one step; `std::promise`'s internals are not split.
- `DestroyShutdown` has both outcomes of using `c_` after the loop thread has released
  it (nothing, or `proc = "crashed"`); no property forbids the second.
- A signal reaches the reaper between two of its steps, not inside one.
- Process ids are not reused in `Reaper`.  `close_all_descendants` reads the ids it kills
  just before, and nothing reaps in between; but `~Process` of `run()`'s local
  (`reaper/impl.cpp:97`) sends a SIGTERM and, a second later, a SIGKILL to an id that
  `:93` has reaped, which may belong to somebody else by then.  `Process` has that stray
  signal, for any caller whose child was waited for elsewhere.
- In `Reaper` the channel carries whole messages, `terminate_process` is two steps and
  `launch_process` is one that may fail: `IPC` and `Process` have the detail.
- With `allow_unsafe`, which the repository's readme lists as unsupported, `SDL_Quit` of
  one viewer can run during `SDL_Init` of another; the run and the theorem are about
  viewers without it.
- A reaper that is killed before it connects, by a SIGKILL or by a SIGTERM or SIGINT that
  finds no handler yet, leaves `launch()` in `accept` for ever (`reaper/reaper.cpp:48`,
  `reaper/ipc.tpp:221`).  It is the one wait in vain: `NoVainWait` names it as an exception,
  and `LaunchAnswered` is about reapers that are not killed.
- A `start_server` may read the files of an earlier server on its port, or files that are
  still empty: `DisplayComesWhole` says only that the two values are not mixed.
- The pipe of Weston's output, which nobody drains once `launch_weston` has returned.
- The move constructor of `SDLViewer`, and move assignment onto a `Process` that still runs:
  it forgets the child without ending it.  A second `Reaper::launch` would do so.
- `Process` takes the launcher's stdout and stderr to be open.  With one of them closed a
  pipe's descriptor can be 1 or 2 itself, and the child's stream ends up closed.
- Pipes and files are not close-on-exec.  A child that is spawned while another launch is
  between `pipe()` and `close_after_spawn` gets the other's writing end, which
  `EndOfFileComes` excludes with `alone`.  It is about writing ends only, which are what
  an end of file depends on; reading ends and files of earlier launches reach every later
  child.
- `pipe()` may fail, which ends the process by its CHECK; memory that a failed spawn does not
  free; `Fd::dup`, which nothing calls.
- After its SIGKILL `~Process` does not wait: the child may run on until the signal
  arrives, which `DestroyedIsKilled` says of it, and stays a zombie until somebody waits.  When others wait for the process's children, the loop of `terminate_process` runs
  for the whole second and signals an id that may have been given to another process;
  `SignalsOwnChild` is for processes in which nobody else waits.
- `EnvVars::to_string`, which prints the letter v for each value, and the array's memory,
  which an implicit copy of an `EnvVars` after `vars()` would free twice.
- The signal mask that a command of the reaper inherits (SIGCHLD is blocked,
  `reaper/impl.cpp:47`).
- Mouse buttons: `set_button_mask` sets bit `1 << button`.  `desktop/client.h:42-45` has 1 for
  the left button, 2 for the middle, 3 for the right; the VNC protocol has bit 0 for the
  left one, so that button 1 arrives as the middle one at a server that follows it.
  `client_test.cpp` compares the mask with one made by the same function.
- Python bindings, test programs, vendored code and build scripts keep no run-time
  state of this system.

## Plan

Done: `Client`, `Viewer`, `Reaper`, `Weston`, `IPC` and `Process` with `EnvVars`, their runs,
the proofs of all their safety properties, and the refinements of `Channel`,
`ClientService` and `ReaperService`.

What could come next:

1. The two abstract specifications still missing: what `start_server` promises (a port and
   a display of its own, or nothing left) implemented by `Weston`, and what `open` and
   `close` promise implemented by `Viewer`.
2. What `launch_process` and `~Process` promise as a specification, implemented by `Process`,
   so that the one-step launches of `Reaper` and `Weston` are instances of it.
3. `SharedContext`: the loops of two clients on one glib context; `Pointer`: position and
   button mask, written by several threads.
4. `Process` with a launcher whose 1 or 2 is closed, and with close-on-exec descriptors, to
   see what either would take.
