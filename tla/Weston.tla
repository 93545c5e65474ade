------------------------------- MODULE Weston -------------------------------
(***************************************************************************)
(* WestonBackend::start_server (src/desktop/weston_backend.cpp) with what  *)
(* it calls: launch_weston, read_vars and terminate_process, against       *)
(* Weston and against the helper export_display that Weston starts.        *)
(* Several backends, of one process or of many, look for a port from the   *)
(* same port_offset on; ports are counted from it.  Weston is external: it *)
(* binds the port or says that it cannot, runs the helper, passes the      *)
(* port's socket on to it (launch_weston.h:17-19), and may report errors,  *)
(* crash or hang.  Which server's DISPLAY a file holds is all its contents.*)
(***************************************************************************)
EXTENDS Naturals, FiniteSets

CONSTANTS
  Backends,  \* the calls of start_server
  Foreign,   \* ports that programs other than these hold
  MaxBreaks  \* bound: the Westons that fail for reasons of their own

ASSUME ConstantsAssumption ==
  /\ IsFiniteSet(Backends) /\ {"absent", "empty", "none"} \cap Backends = {}
  /\ Foreign \subseteq Nat /\ IsFiniteSet(Foreign)
  /\ MaxBreaks \in Nat

\* The ports that searches within the bounds come to.
Ports == LET n == Cardinality(Backends) + Cardinality(Foreign) + MaxBreaks
         IN  {p \in 0..n : p < n}

VARIABLES
  pc,      \* where start_server, and later the destructor, stands
  port,
  got,     \* dpy_vars, by the servers the two name
  weston, command, \* the processes; "asked" after SIGTERM, "killed" after SIGKILL
  server,  \* Weston's place in its start
  broken,  \* history: <<b, port>> of the Westons that failed for reasons of their own
  helper,  \* where export_display stands
  guard,   \* its parent-death signal will come, or has
  xFile, wFile   \* x_display and wayland_display of each port

launchVars == <<pc, port, got>>
westonVars == <<weston, command, server, broken>>
helperVars == <<helper, guard>>
fileVars   == <<xFile, wFile>>
vars == <<launchVars, westonVars, helperVars, fileVars>>

Living == {"runs", "asked", "killed"}  \* the states of a process that runs

NoVars == [x |-> "none", w |-> "none"]
Texts == {"absent", "empty"} \cup Backends
Found == {"none", "empty"} \cup Backends

TypeOK ==
  /\ pc \in [Backends -> {"spawn", "poll", "readX", "readW", "command", "up", "endCommand",
                          "retrying", "failing", "closing", "failed", "closed"}]
  /\ port \in [Backends -> Nat]
  /\ got \in [Backends -> [x : Found, w : Found]]
  /\ weston \in [Backends -> {"none", "ended"} \cup Living]
  /\ command \in [Backends -> {"none", "ended"} \cup Living]
  /\ server \in [Backends -> {"starting", "refused", "broken", "bound"}]
  /\ broken \subseteq Backends \X Nat
  /\ helper \in [Backends -> {"none", "forked", "started", "openedX", "openedW", "flushedW",
                              "exported", "gone"}]
  /\ guard \in [Backends -> BOOLEAN]
  /\ xFile \in [Ports -> Texts] /\ wFile \in [Ports -> Texts]

\* Nobody cleans the files up: each backend may find those of earlier ones.
Init ==
  /\ pc = [b \in Backends |-> "spawn"]
  /\ port = [b \in Backends |-> 0]
  /\ got = [b \in Backends |-> NoVars]
  /\ weston = [b \in Backends |-> "none"] /\ command = [b \in Backends |-> "none"]
  /\ server = [b \in Backends |-> "starting"] /\ broken = {}
  /\ helper = [b \in Backends |-> "none"] /\ guard = [b \in Backends |-> FALSE]
  /\ xFile = [p \in Ports |-> "absent"] /\ wFile = [p \in Ports |-> "absent"]

Goes(b, to)    == pc' = [pc EXCEPT ![b] = to]
WestonRuns(b)  == weston[b] \in Living
HelperLives(b) == helper[b] \notin {"none", "gone"}

\* Weston or the helper, which inherits it, has the socket of b's port.
HoldsPort(b)   == server[b] = "bound" /\ (WestonRuns(b) \/ HelperLives(b))
Taken(p)       == p \in Foreign \/ \E b \in Backends : HoldsPort(b) /\ port[b] = p

-----------------------------------------------------------------------------
(* terminate_process, which ~Process calls, on a process in state s: SIGTERM *)
(* at its beginning, and at its end, when waitpid has returned the process  *)
(* or a second has passed, SIGKILL and no further wait.                     *)

AfterTerm(s) == IF s \in Living THEN "asked" ELSE s
AfterWait(s) == IF s \in Living THEN "killed" ELSE s

\* ~Process of Weston begins: on the way to the next port, to an error, or at the
\* end of the destructor.
EndsWeston(b, to) ==
  /\ weston' = [weston EXCEPT ![b] = AfterTerm(@)] /\ Goes(b, to)
  /\ UNCHANGED <<port, got, command, server, broken, helperVars, fileVars>>

-----------------------------------------------------------------------------
(* start_server.                                                            *)

\* launch_weston: the process is spawned and its output made non-blocking.
SpawnWeston(b) ==
  /\ pc[b] = "spawn"
  /\ weston' = [weston EXCEPT ![b] = "runs"]
  /\ server' = [server EXCEPT ![b] = "starting"]
  /\ Goes(b, "poll")
  /\ UNCHANGED <<port, got, command, broken, helperVars, fileVars>>

\* launch_process of Weston fails: its status is no UNAVAILABLE.
SpawnFails(b) ==
  /\ pc[b] = "spawn"
  /\ Goes(b, "failed")
  /\ UNCHANGED <<port, got, westonVars, helperVars, fileVars>>

\* search_for_error looks for the compositor's failure first, and calls it
\* UNAVAILABLE whatever its reason.  A round reads 1023 bytes at most, so it may
\* also see a message later.
SeesUnavailable(b) ==
  /\ pc[b] = "poll" /\ server[b] \in {"refused", "broken"}
  /\ EndsWeston(b, "retrying")

\* Mutant of LaunchFails: every failure reads as UNAVAILABLE.
FailureIsUnavailable(b) ==
  /\ pc[b] = "poll"
  /\ EndsWeston(b, "retrying")

\* UNKNOWN: Weston has printed one of the other messages, or five seconds have
\* passed.
LaunchFails(b) ==
  /\ pc[b] = "poll"
  /\ EndsWeston(b, "failing")

\* Mutant of HasChild: a living Weston is enough.
IsAlive(b) == WestonRuns(b)

\* /proc/<pid>/task/<pid>/children is not empty: the helper, or a client that
\* Weston runs for itself.
HasChild(b) == WestonRuns(b) /\ server[b] = "bound"

\* The last of more than twenty rounds that have seen a child, and no error.
LaunchReturns(b) ==
  /\ pc[b] = "poll" /\ HasChild(b)
  /\ Goes(b, "readX")
  /\ UNCHANGED <<port, got, westonVars, helperVars, fileVars>>

\* Mutant of FilesMissing: the error is returned with Weston detached.
MissingLeavesWeston(b) ==
  /\ pc[b] = "readX"
  /\ xFile[port[b]] = "absent" \/ wFile[port[b]] = "absent"
  /\ Goes(b, "failed")
  /\ UNCHANGED <<port, got, westonVars, helperVars, fileVars>>

\* read_vars returns false, start_server an error.
FilesMissing(b) ==
  /\ pc[b] = "readX"
  /\ xFile[port[b]] = "absent" \/ wFile[port[b]] = "absent"
  /\ EndsWeston(b, "failing")

\* Both files are there: read_vars opens them and reads the first, ...
ReadsX(b) ==
  /\ pc[b] = "readX"
  /\ xFile[port[b]] # "absent" /\ wFile[port[b]] # "absent"
  /\ got' = [got EXCEPT ![b].x = xFile[port[b]]]
  /\ Goes(b, "readW")
  /\ UNCHANGED <<port, westonVars, helperVars, fileVars>>

\* ... then the second.
ReadsW(b) ==
  /\ pc[b] = "readW"
  /\ got' = [got EXCEPT ![b].w = wFile[port[b]]]
  /\ Goes(b, "command")
  /\ UNCHANGED <<port, westonVars, helperVars, fileVars>>

\* DISPLAY and WAYLAND_DISPLAY are set, the command is launched and the backend
\* returned.
LaunchesCommand(b) ==
  /\ pc[b] = "command"
  /\ command' = [command EXCEPT ![b] = "runs"]
  /\ Goes(b, "up") /\ got' = [got EXCEPT ![b] = NoVars]
  /\ UNCHANGED <<port, weston, server, broken, helperVars, fileVars>>

CommandFails(b) ==
  /\ pc[b] = "command"
  /\ weston' = [weston EXCEPT ![b] = AfterTerm(@)]
  /\ Goes(b, "failing") /\ got' = [got EXCEPT ![b] = NoVars]
  /\ UNCHANGED <<port, command, server, broken, helperVars, fileVars>>

\* Mutant of NextPort: the search stays where it is.
SamePort(p) == p

\* port++
NextPort(p) == p + 1

\* ~Process of Weston returns.
WestonEnded(b) ==
  /\ weston' = [weston EXCEPT ![b] = AfterWait(@)]
  /\ \/ pc[b] = "retrying" /\ Goes(b, "spawn") /\ port' = [port EXCEPT ![b] = NextPort(@)]
     \/ pc[b] = "failing" /\ Goes(b, "failed") /\ UNCHANGED port
     \/ pc[b] = "closing" /\ Goes(b, "closed") /\ UNCHANGED port
  /\ UNCHANGED <<got, command, server, broken, helperVars, fileVars>>

\* Mutant of Close: Weston goes first.
CloseWestonFirst(b) ==
  /\ pc[b] = "up"
  /\ weston' = [weston EXCEPT ![b] = AfterTerm(@)] /\ Goes(b, "endCommand")
  /\ UNCHANGED <<port, got, command, server, broken, helperVars, fileVars>>

\* The backend is destroyed, its members in the reverse of their order: the
\* command before Weston.
Close(b) ==
  /\ pc[b] = "up"
  /\ command' = [command EXCEPT ![b] = AfterTerm(@)] /\ Goes(b, "endCommand")
  /\ UNCHANGED <<port, got, weston, server, broken, helperVars, fileVars>>

CommandEnded(b) ==
  /\ pc[b] = "endCommand"
  /\ command' = [command EXCEPT ![b] = AfterWait(@)]
  /\ weston' = [weston EXCEPT ![b] = AfterTerm(@)]
  /\ Goes(b, "closing")
  /\ UNCHANGED <<port, got, server, broken, helperVars, fileVars>>

StartProceeds(b) ==
  \/ SpawnWeston(b) \/ SpawnFails(b) \/ SeesUnavailable(b) \/ LaunchFails(b)
  \/ LaunchReturns(b) \/ FilesMissing(b)
  \/ ReadsX(b) \/ ReadsW(b) \/ LaunchesCommand(b) \/ CommandFails(b)
  \/ WestonEnded(b) \/ CommandEnded(b)

-----------------------------------------------------------------------------
(* Weston and the command.                                                  *)

Binds(b) ==
  /\ weston[b] \in {"runs", "asked"} /\ server[b] = "starting"
  /\ server' = [server EXCEPT ![b] = IF Taken(port[b]) THEN "refused" ELSE "bound"]
  /\ UNCHANGED <<launchVars, weston, command, broken, helperVars, fileVars>>

\* Weston fails to create its compositor backend and the port is not why: the
\* renderer, the screen, the memory.
BackendBreaks(b) ==
  /\ weston[b] \in {"runs", "asked"} /\ server[b] = "starting"
  /\ Cardinality(broken) < MaxBreaks
  /\ server' = [server EXCEPT ![b] = "broken"]
  /\ broken' = broken \cup {<<b, port[b]>>}
  /\ UNCHANGED <<launchVars, weston, command, helperVars, fileVars>>

RunsHelper(b) ==
  /\ weston[b] \in {"runs", "asked"} /\ server[b] = "bound" /\ helper[b] = "none"
  /\ helper' = [helper EXCEPT ![b] = "forked"]
  /\ UNCHANGED <<launchVars, westonVars, guard, fileVars>>

\* By itself, by a crash or because of a signal.
WestonExits(b) ==
  /\ WestonRuns(b)
  /\ weston' = [weston EXCEPT ![b] = "ended"]
  /\ UNCHANGED <<launchVars, command, server, broken, helperVars, fileVars>>

CommandExits(b) ==
  /\ command[b] \in Living
  /\ command' = [command EXCEPT ![b] = "ended"]
  /\ UNCHANGED <<launchVars, weston, server, broken, helperVars, fileVars>>

-----------------------------------------------------------------------------
(* export_display.                                                          *)

HelperGoes(b, from, to) ==
  /\ helper[b] = from /\ helper' = [helper EXCEPT ![b] = to]
  /\ UNCHANGED <<launchVars, westonVars>>

\* prctl(PR_SET_PDEATHSIG): a parent that is gone already sends nothing.
Guards(b) ==
  /\ HelperGoes(b, "forked", "started")
  /\ guard' = [guard EXCEPT ![b] = WestonRuns(b)]
  /\ UNCHANGED fileVars

\* write_vars: both files are opened, and with that emptied.
OpensX(b) ==
  /\ HelperGoes(b, "started", "openedX")
  /\ xFile' = [xFile EXCEPT ![port[b]] = "empty"]
  /\ UNCHANGED <<guard, wFile>>

\* Mutant of OpensW: the first stream is closed before.
ClosesXFirst(b) ==
  /\ HelperGoes(b, "openedX", "openedW")
  /\ xFile' = [xFile EXCEPT ![port[b]] = b]
  /\ wFile' = [wFile EXCEPT ![port[b]] = "empty"]
  /\ UNCHANGED guard

OpensW(b) ==
  /\ HelperGoes(b, "openedX", "openedW")
  /\ wFile' = [wFile EXCEPT ![port[b]] = "empty"]
  /\ UNCHANGED <<guard, xFile>>

\* The streams are destroyed, and with that written, in the reverse order.
FlushesW(b) ==
  /\ HelperGoes(b, "openedW", "flushedW")
  /\ wFile' = [wFile EXCEPT ![port[b]] = b]
  /\ UNCHANGED <<guard, xFile>>

FlushesX(b) ==
  /\ HelperGoes(b, "flushedW", "exported")
  /\ xFile' = [xFile EXCEPT ![port[b]] = b]
  /\ UNCHANGED <<guard, wFile>>

\* The parent-death signal.
HelperDies(b) ==
  /\ HelperLives(b) /\ guard[b] /\ ~WestonRuns(b)
  /\ helper' = [helper EXCEPT ![b] = "gone"]
  /\ UNCHANGED <<launchVars, westonVars, guard, fileVars>>

HelperProceeds(b) ==
  Guards(b) \/ OpensX(b) \/ OpensW(b) \/ FlushesW(b) \/ FlushesX(b) \/ HelperDies(b)

-----------------------------------------------------------------------------
BackendNext(b) ==
  \/ StartProceeds(b) \/ Close(b)
  \/ Binds(b) \/ BackendBreaks(b) \/ RunsHelper(b)
  \/ WestonExits(b) \/ CommandExits(b)
  \/ HelperProceeds(b)

Next == \E b \in Backends : BackendNext(b)

Spec == Init /\ [][Next]_vars

\* Launchers, whose waits all have a limit, and helpers are scheduled.  Weston
\* may hang and the command may stay.
Fairness ==
  \A b \in Backends : WF_vars(StartProceeds(b)) /\ WF_vars(HelperProceeds(b))

FairSpec == Spec /\ Fairness

-----------------------------------------------------------------------------
(* Properties.                                                              *)

Launched(b) == pc[b] \in {"readX", "readW", "command", "up", "endCommand"}

BrokenOf(b) == {r \in broken : r[1] = b}

\* The search has no upper end of its own.  It passes at most one port for each
\* foreign one, for each other backend, of which none ever binds two, and for each
\* Weston of its own that failed for another reason, which reads the same: without
\* an end to those failures it has none (weston_backend.cpp:19, launch_weston.cpp:61).
SearchBounded ==
  \A b \in Backends :
    port[b] < Cardinality(Backends) + Cardinality(Foreign) + Cardinality(BrokenOf(b))

\* From the end of launch_weston on, nobody but this backend's Weston answers
\* at port(): it has bound the port, and no other server has, nor a helper
\* left by one (launch_weston.cpp:114-119).
PortIsOurs ==
  \A b \in Backends : Launched(b) =>
    /\ server[b] = "bound"
    /\ WestonRuns(b) => port[b] \notin Foreign
                          /\ \A c \in Backends : HoldsPort(c) /\ port[c] = port[b] => c = b

\* Whoever reads the DISPLAY of a server that still has its port, reads its
\* WAYLAND_DISPLAY with it: write_vars completes wayland_display first and
\* read_vars reads it last (display_vars.cpp:37-41, :60-61).
DisplayComesWhole ==
  \A b \in Backends :
    pc[b] = "command" /\ HoldsPort(b) /\ got[b].x = b => got[b].w = b

\* A start_server that failed, and a destructor that ended, leave neither a
\* Weston nor a command but those that SIGKILL is about to end.
NothingLeft ==
  \A b \in Backends : pc[b] \in {"failed", "closed"} =>
    {weston[b], command[b]} \cap Living \subseteq {"killed"}

\* Weston is asked to end only when the command has ended, was killed, or had
\* never been launched (weston_backend.h:25-26).
CommandInsideServer ==
  \A b \in Backends :
    command[b] \in {"runs", "asked"} => weston[b] \in {"runs", "ended"}

\* start_server returns, though Weston hangs, crashes or is refused its port, once
\* its compositor backend no longer fails for other reasons.
StartReturns ==
  \A b \in Backends : pc[b] = "spawn" ~> pc[b] \in {"up", "failed"}

\* export_display_main.cpp:1: it "runs until its parent exits".
HelperEndsWithWeston ==
  \A b \in Backends : ~WestonRuns(b) /\ HelperLives(b) ~> ~HelperLives(b)
=============================================================================
