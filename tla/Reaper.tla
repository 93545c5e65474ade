------------------------------- MODULE Reaper -------------------------------
(***************************************************************************)
(* The reaper (src/reaper): a launcher process holds a reaper::Reaper; the *)
(* reaper process runs ReaperImpl, the subreaper of everything the command *)
(* starts; a Unix socket joins the two.  The kernel is external: fork,     *)
(* reparenting, SIGCHLD, and a closed socket seen by its peer only when    *)
(* every process that inherited the other end has let go of it.            *)
(*                                                                         *)
(* Process ids grow and are not reused: a signal to a reaped id, which may *)
(* hit a stranger in reality, does nothing here.  Id 0 stands for the      *)
(* reaper, and for init once the reaper is gone.                           *)
(***************************************************************************)
EXTENDS Naturals, Sequences, FiniteSets

CONSTANTS
  MaxProcs,     \* bound: processes the command's tree ever has
  MaxCleanUps,  \* bound: calls of clean_up()
  Faults        \* what may go wrong (see FaultKinds)

\* "slow": a timer may fire although the awaited thing is about to happen;
\* "crash": the launcher may be killed; "signal": somebody may send the reaper
\* a SIGINT or a SIGTERM; "kill": somebody may SIGKILL the reaper.
FaultKinds == {"slow", "crash", "signal", "kill"}

ASSUME ConstantsAssumption ==
  MaxProcs \in Nat /\ MaxCleanUps \in Nat /\ Faults \subseteq FaultKinds

VARIABLES
  lpc,      \* where the launcher stands
  result,   \* what the last clean_up() returned
  launched, \* history: launch() has returned OK
  cleanUps, \* calls of clean_up() so far
  rpc,      \* where the reaper stands
  parentDied, ready, kids,
  signalled,       \* the signals on their way to the reaper: "TERM" (or SIGINT), "KILL"
  file,            \* the socket's file exists
  open,            \* the launcher's end of the socket is open
  linked,          \* the reaper has connected
  fdSent,          \* the launcher's pidfd is in the socket
  toReaper, toLauncher,
  st, par, born,   \* the command's processes: state, parent, how many so far
  killed,          \* those with a SIGKILL on its way
  sigchld          \* a SIGCHLD waits in the signalfd

launcherVars == <<lpc, result, launched, cleanUps>>
reaperVars   == <<rpc, parentDied, ready, kids, signalled>>
ipcVars      == <<file, open, linked, fdSent, toReaper, toLauncher>>
treeVars     == <<st, par, born, killed, sigchld>>
vars == <<launcherVars, reaperVars, ipcVars, treeVars>>

Procs == 1..MaxProcs

ReaperMessageCode == {"FINISHED_LAUNCH", "INVALID_COMMAND", "FINISHED_CLEANING_UP"}

TypeOK ==
  /\ lpc \in {"new", "created", "spawned", "accept", "await", "up", "asking",
              "polling", "failing", "failed", "stopping", "closing", "gone", "dying", "dead"}
  /\ result \in {"none", "true", "false"} /\ launched \in BOOLEAN /\ cleanUps \in 0..MaxCleanUps
  /\ rpc \in {"off", "boot", "connected", "launch", "settle", "leaving", "announce",
              "poll", "handle", "wait", "closing", "reap", "kill", "reapAgain", "finish",
              "exited", "unsent", "aborted", "returned", "killed"}
  /\ parentDied \in BOOLEAN /\ ready \subseteq {"parent", "ipc", "sigchld"}
  /\ kids \subseteq Procs /\ signalled \subseteq {"TERM", "KILL"}
  /\ file \in BOOLEAN /\ open \in BOOLEAN /\ linked \in BOOLEAN /\ fdSent \in BOOLEAN
  /\ toReaper \in Seq({"CLEAN_UP"}) /\ toLauncher \in Seq(ReaperMessageCode)
  /\ st \in [Procs -> {"unborn", "alive", "zombie", "gone"}]
  /\ par \in [Procs -> 0..MaxProcs]
  /\ born \in 0..MaxProcs /\ killed \subseteq Procs /\ sigchld \in BOOLEAN

Init ==
  /\ lpc = "new" /\ result = "none" /\ launched = FALSE /\ cleanUps = 0
  /\ rpc = "off" /\ parentDied = FALSE /\ ready = {} /\ kids = {}
  /\ signalled = {}
  /\ file = FALSE /\ open = FALSE /\ linked = FALSE /\ fdSent = FALSE
  /\ toReaper = <<>> /\ toLauncher = <<>>
  /\ st = [p \in Procs |-> "unborn"] /\ par = [p \in Procs |-> 0]
  /\ born = 0 /\ killed = {} /\ sigchld = FALSE

-----------------------------------------------------------------------------
(* What one side knows of the other.                                        *)

ReaperGone == rpc \in {"exited", "unsent", "aborted", "returned", "killed"}

\* The reaper's children, as /proc lists them: zombies are among them.
Children == {p \in Procs : par[p] = 0 /\ st[p] \in {"alive", "zombie"}}

Zombies == {p \in Children : st[p] = "zombie"}

NobodyAlive == \A p \in Procs : st[p] # "alive"

\* Descendants inherit the reaper's socket (it is not close-on-exec) and may
\* or may not close it: with one of them alive the launcher may see either.
MayHangUp  == ReaperGone
MustHangUp == ReaperGone /\ NobodyAlive

\* The launcher has hung up and everything it sent has been read.
LauncherHungUp == ~open /\ toReaper = <<>>

\* A timer of the launcher: the 10 s of clean_up and the 1 s of
\* terminate_process outlast an orderly clean-up unless "slow" is a fault.
TimerFires == "slow" \in Faults

-----------------------------------------------------------------------------
(* The command's processes.                                                 *)

\* The children of a dead process go to the subreaper, or to init.
Adopt(p) == [c \in Procs |-> IF par[c] = p THEN 0 ELSE par[c]]

\* init reaps its zombies at once.
Reaped(s, q) == [p \in Procs |-> IF q[p] = 0 /\ s[p] = "zombie" THEN "gone" ELSE s[p]]

ProcForks ==
  \E p \in Procs :
    /\ st[p] = "alive" /\ p \notin killed /\ born < MaxProcs
    /\ born' = born + 1
    /\ st' = [st EXCEPT ![born + 1] = "alive"]
    /\ par' = [par EXCEPT ![born + 1] = p]
    /\ UNCHANGED <<launcherVars, reaperVars, ipcVars, killed, sigchld>>

\* A process exits or dies of a signal.  The reaper gets a SIGCHLD for its own
\* child, and for a zombie it inherits.
ProcDies(p) ==
  LET s == [st EXCEPT ![p] = "zombie"]
      q == Adopt(p)
  IN /\ st[p] = "alive"
     /\ par' = q
     /\ st' = IF ReaperGone THEN Reaped(s, q) ELSE s
     /\ sigchld' = (sigchld \/ par[p] = 0 \/ \E c \in Procs : par[c] = p /\ st[c] = "zombie")
     /\ UNCHANGED <<launcherVars, reaperVars, ipcVars, born, killed>>

\* A process other than the reaper waits for its own child.
ProcReaps ==
  \E p \in Procs :
    /\ st[p] = "zombie" /\ par[p] # 0
    /\ st' = [st EXCEPT ![p] = "gone"]
    /\ UNCHANGED <<launcherVars, reaperVars, ipcVars, par, born, killed, sigchld>>

-----------------------------------------------------------------------------
(* The launcher: Reaper::create, launch, clean_up and the destructor.       *)

LauncherGoes(to) == lpc' = to

\* create(): the socket is bound to its file and listens.
Create ==
  /\ lpc = "new"
  /\ file' = TRUE /\ open' = TRUE
  /\ LauncherGoes("created")
  /\ UNCHANGED <<result, launched, cleanUps, reaperVars, linked, fdSent, toReaper, toLauncher, treeVars>>

\* launch() spawns the reaper; an error of posix_spawn is returned.
SpawnReaper ==
  /\ lpc = "created"
  /\ \/ rpc' = "boot" /\ LauncherGoes("spawned")
     \/ UNCHANGED rpc /\ LauncherGoes("failed")
  /\ UNCHANGED <<result, launched, cleanUps, parentDied, ready, kids, signalled, ipcVars, treeVars>>

\* It opens its own pidfd, or fails to; then the local Process is destroyed.
OpenPidfd ==
  /\ lpc = "spawned"
  /\ LauncherGoes("accept") \/ LauncherGoes("failing")
  /\ UNCHANGED <<result, launched, cleanUps, reaperVars, ipcVars, treeVars>>

\* send_fd(): accept the reaper's connection, waiting for it without a limit,
\* then write the pidfd.
SendParentFd ==
  /\ lpc = "accept" /\ linked
  /\ IF ReaperGone THEN LauncherGoes("failing") /\ UNCHANGED fdSent
                   ELSE LauncherGoes("await") /\ fdSent' = TRUE
  /\ UNCHANGED <<result, launched, cleanUps, reaperVars, file, open, linked, toReaper, toLauncher, treeVars>>

\* Mutant of LaunchSucceeded: any answer counts.
AnyAnswer(code) == TRUE

LaunchSucceeded(code) == code = "FINISHED_LAUNCH"

\* launch()'s receive() returns the reaper's verdict.
LaunchReturns ==
  /\ lpc = "await" /\ toLauncher # <<>>
  /\ toLauncher' = Tail(toLauncher)
  /\ launched' = LaunchSucceeded(Head(toLauncher))
  /\ LauncherGoes(IF launched' THEN "up" ELSE "failing")
  /\ UNCHANGED <<result, cleanUps, reaperVars, file, open, linked, fdSent, toReaper, treeVars>>

\* ... or an error when the reaper has hung up.
LaunchHangsUp ==
  /\ lpc = "await" /\ toLauncher = <<>> /\ MayHangUp
  /\ LauncherGoes("failing")
  /\ UNCHANGED <<result, launched, cleanUps, reaperVars, ipcVars, treeVars>>

\* clean_up(): a first receive() that does not block.
CleanUpStarts ==
  /\ lpc = "up" /\ cleanUps < MaxCleanUps
  /\ cleanUps' = cleanUps + 1
  /\ \/ /\ toLauncher # <<>> /\ Head(toLauncher) = "FINISHED_CLEANING_UP"
        /\ toLauncher' = Tail(toLauncher)
        /\ result' = "true" /\ UNCHANGED lpc
     \/ /\ toLauncher = <<>> /\ MayHangUp
        /\ result' = "false" /\ UNCHANGED <<lpc, toLauncher>>
     \/ /\ toLauncher = <<>> /\ ~MustHangUp
        /\ LauncherGoes("asking") /\ UNCHANGED <<result, toLauncher>>
  /\ UNCHANGED <<launched, reaperVars, file, open, linked, fdSent, toReaper, treeVars>>

\* send(CLEAN_UP)
CleanUpAsks ==
  /\ lpc = "asking"
  /\ \/ MayHangUp /\ result' = "false" /\ LauncherGoes("up") /\ UNCHANGED toReaper
     \/ /\ ~MustHangUp
        /\ toReaper' = Append(toReaper, "CLEAN_UP")
        /\ LauncherGoes("polling") /\ UNCHANGED result
  /\ UNCHANGED <<launched, cleanUps, reaperVars, file, open, linked, fdSent, toLauncher, treeVars>>

\* Mutant of OnTimeout: the answer clean_up() starts from is kept.
TimeoutIsSuccess == "true"

\* clean_up()'s result when its ten seconds are over.
OnTimeout == "false"

\* The polling loop ends with a message, a hang-up, or after ten seconds.
CleanUpReturns ==
  /\ lpc = "polling"
  /\ \/ toLauncher # <<>> /\ toLauncher' = Tail(toLauncher) /\ result' = "true"
     \/ toLauncher = <<>> /\ MayHangUp /\ result' = "false" /\ UNCHANGED toLauncher
     \/ toLauncher = <<>> /\ TimerFires /\ result' = OnTimeout /\ UNCHANGED toLauncher
  /\ LauncherGoes("up")
  /\ UNCHANGED <<launched, cleanUps, reaperVars, file, open, linked, fdSent, toReaper, treeVars>>

\* ~Process, of launch()'s local after a failure or of reaper_ in ~Reaper:
\* terminate_process sends SIGTERM ...
StopReaper ==
  /\ lpc \in {"failing", "up"}
  /\ signalled' = signalled \cup {"TERM"}
  /\ LauncherGoes("stopping")
  /\ UNCHANGED <<result, launched, cleanUps, rpc, parentDied, ready, kids, ipcVars, treeVars>>

\* Mutant of ReaperStopped: the destructor does not wait.
StopsAtOnce ==
  /\ lpc = "stopping"
  /\ LauncherGoes("closing")
  /\ UNCHANGED <<result, launched, cleanUps, reaperVars, ipcVars, treeVars>>

\* ... and waits for the reaper to exit.
ReaperStopped ==
  /\ lpc = "stopping" /\ ReaperGone
  /\ LauncherGoes("closing")
  /\ UNCHANGED <<result, launched, cleanUps, reaperVars, ipcVars, treeVars>>

\* ~IPC of the server: the socket closes and its file goes.
CloseIpc ==
  /\ lpc \in {"failed", "closing"}
  /\ open' = FALSE /\ file' = FALSE
  /\ LauncherGoes("gone")
  /\ UNCHANGED <<result, launched, cleanUps, reaperVars, linked, fdSent, toReaper, toLauncher, treeVars>>

\* The launcher is killed: the kernel closes its files first ...
LauncherCrashes ==
  /\ "crash" \in Faults /\ lpc \notin {"new", "gone", "dying", "dead"}
  /\ open' = FALSE
  /\ LauncherGoes("dying")
  /\ UNCHANGED <<result, launched, cleanUps, reaperVars, file, linked, fdSent, toReaper, toLauncher, treeVars>>

\* ... and then makes its pidfd readable.
LauncherDies ==
  /\ lpc \in {"gone", "dying"}
  /\ LauncherGoes("dead")
  /\ UNCHANGED <<result, launched, cleanUps, reaperVars, ipcVars, treeVars>>

-----------------------------------------------------------------------------
(* The reaper: ReaperImpl::run and on_exit.                                 *)

\* The reaper's process ends: its children go to init.
ReaperEnds(how) == rpc' = how /\ st' = Reaped(st, par)

\* ReaperImpl::create: IPC::connect; a listener that is gone is fatal.
Connect ==
  /\ rpc = "boot"
  /\ IF open THEN rpc' = "connected" /\ linked' = TRUE /\ UNCHANGED st
             ELSE ReaperEnds("aborted") /\ UNCHANGED linked
  /\ UNCHANGED <<launcherVars, parentDied, ready, kids, signalled, file, open, fdSent,
                 toReaper, toLauncher, par, born, killed, sigchld>>

\* run() up to the pidfd: set_child_subreaper, the signal handlers, the signalfd and
\* receive_fd(): the launcher's pidfd, or a hang-up and value_or_die.
ReceiveParentFd ==
  /\ rpc = "connected" /\ (fdSent \/ ~open)
  /\ IF fdSent THEN rpc' = "launch" /\ UNCHANGED st ELSE ReaperEnds("aborted")
  /\ UNCHANGED <<launcherVars, parentDied, ready, kids, signalled, ipcVars, par, born,
                 killed, sigchld>>

\* send() to the launcher: when its end is closed nothing arrives.
Tell(code) ==
  toLauncher' = IF open THEN Append(toLauncher, code) ELSE toLauncher

\* launch_process({"sh", "-c", command_}): the first process of the tree.
LaunchCommand ==
  /\ rpc = "launch" /\ born = 0 /\ MaxProcs > 0
  /\ born' = 1 /\ st' = [st EXCEPT ![1] = "alive"]
  /\ rpc' = "settle"
  /\ UNCHANGED <<launcherVars, parentDied, ready, kids, signalled, ipcVars, par, killed,
                 sigchld>>

\* It cannot be spawned: INVALID_COMMAND, and run() is about to return.
LaunchFails ==
  /\ rpc = "launch"
  /\ Tell("INVALID_COMMAND") /\ rpc' = "leaving"
  /\ UNCHANGED <<launcherVars, parentDied, ready, kids, signalled, file, open, linked, fdSent,
                 toReaper, treeVars>>

\* Mutant of Settles: a command that is over already is not announced.
SettlesQuietly ==
  /\ rpc = "settle"
  /\ st' = [st EXCEPT ![1] = IF @ = "zombie" THEN "gone" ELSE @]
  /\ rpc' = IF st[1] = "zombie" THEN "poll" ELSE "announce"
  /\ UNCHANGED <<launcherVars, parentDied, ready, kids, signalled, ipcVars, par, born,
                 killed, sigchld>>

\* 20 ms later: the command still runs, or it has exited with status 0.
Settles ==
  /\ rpc = "settle"
  /\ st' = [st EXCEPT ![1] = IF @ = "zombie" THEN "gone" ELSE @]
  /\ rpc' = "announce"
  /\ UNCHANGED <<launcherVars, parentDied, ready, kids, signalled, ipcVars, par, born,
                 killed, sigchld>>

\* It has exited with an error: INVALID_COMMAND, and run() is about to return.
SettlesBadly ==
  /\ rpc = "settle" /\ st[1] = "zombie"
  /\ Tell("INVALID_COMMAND") /\ rpc' = "leaving"
  /\ st' = [st EXCEPT ![1] = "gone"]
  /\ UNCHANGED <<launcherVars, parentDied, ready, kids, signalled, file, open, linked, fdSent,
                 toReaper, par, born, killed, sigchld>>

\* run() returns, whatever the command may have left running: ~Process of its local p,
\* whose id was reaped already, spends a second of waitpid errors between a SIGTERM
\* and a SIGKILL to that id (see the head of the module), and main() returns.  Until
\* then the signal handlers are in place (see TakesSignal).
Returns ==
  /\ rpc = "leaving"
  /\ ReaperEnds("returned")
  /\ UNCHANGED <<launcherVars, parentDied, ready, kids, signalled, ipcVars, par, born,
                 killed, sigchld>>

\* CHECK_OK(send(FINISHED_LAUNCH)).
Announce ==
  /\ rpc = "announce"
  /\ Tell("FINISHED_LAUNCH")
  /\ IF open THEN rpc' = "poll" /\ UNCHANGED st ELSE ReaperEnds("aborted")
  /\ UNCHANGED <<launcherVars, parentDied, ready, kids, signalled, file, open, linked, fdSent,
                 toReaper, par, born, killed, sigchld>>

\* poll(): which descriptors are ready is fixed when it returns.
PollReady ==
  {x \in {"parent", "ipc", "sigchld"} :
     \/ x = "parent"  /\ lpc = "dead"
     \/ x = "ipc"     /\ (toReaper # <<>> \/ LauncherHungUp)
     \/ x = "sigchld" /\ sigchld}

PollReturns ==
  /\ rpc = "poll" /\ PollReady # {}
  /\ ready' = PollReady /\ rpc' = "handle"
  /\ UNCHANGED <<launcherVars, parentDied, kids, signalled, ipcVars, treeVars>>

\* The pidfd is readable: on_exit, which does not return.
HandleParent ==
  /\ rpc = "handle" /\ "parent" \in ready
  /\ parentDied' = TRUE
  /\ rpc' = "closing"
  /\ UNCHANGED <<launcherVars, ready, kids, signalled, ipcVars, treeVars>>

\* Mutant of HandleIpc: only CLEAN_UP leads to on_exit, a hang-up is an error.
HandleCleanUpOnly ==
  /\ rpc = "handle" /\ "parent" \notin ready /\ "ipc" \in ready
  /\ IF toReaper = <<>> THEN ReaperEnds("aborted") /\ UNCHANGED toReaper
       ELSE toReaper' = Tail(toReaper) /\ rpc' = "closing" /\ UNCHANGED st
  /\ UNCHANGED <<launcherVars, parentDied, ready, kids, signalled, file, open, linked, fdSent,
                 toLauncher, par, born, killed, sigchld>>

\* Mutant of HandleIpc: the message is read and the loop goes on.
HandleNothing ==
  /\ rpc = "handle" /\ "parent" \notin ready /\ "ipc" \in ready
  /\ toReaper' = IF toReaper = <<>> THEN <<>> ELSE Tail(toReaper)
  /\ rpc' = "poll"
  /\ UNCHANGED <<launcherVars, parentDied, ready, kids, signalled, file, open, linked, fdSent,
                 toLauncher, treeVars>>

\* CLEAN_UP or a hang-up: on_exit.
HandleIpc ==
  /\ rpc = "handle" /\ "parent" \notin ready /\ "ipc" \in ready
  /\ toReaper' = IF toReaper = <<>> THEN <<>> ELSE Tail(toReaper)
  /\ rpc' = "closing"
  /\ UNCHANGED <<launcherVars, parentDied, ready, kids, signalled, file, open, linked, fdSent,
                 toLauncher, treeVars>>

\* read() empties the signalfd ...
HandleSigchld ==
  /\ rpc = "handle" /\ ready = {"sigchld"}
  /\ sigchld' = FALSE
  /\ rpc' = "wait"
  /\ UNCHANGED <<launcherVars, parentDied, ready, kids, signalled, ipcVars, st, par, born,
                 killed>>

\* Mutant of WaitAll: one waitpid instead of the loop.
WaitOne ==
  IF Zombies = {} THEN UNCHANGED st
  ELSE \E z \in Zombies : st' = [st EXCEPT ![z] = "gone"]

\* wait_all()
WaitAll == st' = Reaped(st, par)

\* ... and wait_all() reaps.
ReapsZombies ==
  /\ rpc = "wait"
  /\ WaitAll
  /\ rpc' = "poll"
  /\ UNCHANGED <<launcherVars, parentDied, ready, kids, signalled, ipcVars, par, born,
                 killed, sigchld>>

\* SIGTERM or SIGINT: exit_handler calls on_exit, which blocks signals first.
\* Before run() has set the handlers, just after the connection, the signal kills.
TakesSignal ==
  /\ "TERM" \in signalled
  /\ \/ rpc \in {"boot", "connected"} /\ ReaperEnds("killed")
     \/ /\ rpc \in {"connected", "launch", "settle", "leaving", "announce", "poll", "handle",
                    "wait"}
        /\ rpc' = "closing" /\ UNCHANGED st
  /\ signalled' = signalled \ {"TERM"}
  /\ UNCHANGED <<launcherVars, parentDied, ready, kids, ipcVars, par, born, killed, sigchld>>

\* close_all_descendants: one round starts with a snapshot of the children,
\* which get a SIGTERM; without children it is over.
CloseRound ==
  /\ rpc = "closing"
  /\ kids' = Children
  /\ rpc' = IF Children = {} THEN "finish" ELSE "reap"
  /\ UNCHANGED <<launcherVars, parentDied, ready, signalled, ipcVars, treeVars>>

\* 100 ms later, wait_all().
CloseReaps ==
  /\ rpc = "reap"
  /\ WaitAll
  /\ rpc' = "kill"
  /\ UNCHANGED <<launcherVars, parentDied, ready, kids, signalled, ipcVars, par, born,
                 killed, sigchld>>

\* The children of the snapshot that are still there get a SIGKILL.
Stubborn == Children \cap kids

CloseKills ==
  /\ rpc = "kill"
  /\ killed' = killed \cup Stubborn
  /\ rpc' = "reapAgain"
  /\ UNCHANGED <<launcherVars, parentDied, ready, kids, signalled, ipcVars, st, par, born,
                 sigchld>>

\* Mutant of CloseReapsAgain: one round is taken to be enough.
CloseOnce ==
  /\ rpc = "reapAgain"
  /\ WaitAll
  /\ rpc' = "finish"
  /\ UNCHANGED <<launcherVars, parentDied, ready, kids, signalled, ipcVars, par, born,
                 killed, sigchld>>

\* wait_all(), and the next round.
CloseReapsAgain ==
  /\ rpc = "reapAgain"
  /\ WaitAll
  /\ rpc' = "closing"
  /\ UNCHANGED <<launcherVars, parentDied, ready, kids, signalled, ipcVars, par, born,
                 killed, sigchld>>

\* The rest of on_exit: remove the file of a launcher that died, or tell the
\* launcher; CHECK_OK ends the process with 1 when the launcher has hung up.
Finishes ==
  /\ rpc = "finish"
  /\ IF parentDied
       THEN file' = FALSE /\ ReaperEnds("exited") /\ UNCHANGED toLauncher
       ELSE /\ Tell("FINISHED_CLEANING_UP") /\ UNCHANGED file
            /\ ReaperEnds(IF open THEN "exited" ELSE "unsent")
  /\ UNCHANGED <<launcherVars, parentDied, ready, kids, signalled, open, linked, fdSent, toReaper,
                 par, born, killed, sigchld>>

\* Somebody sends the reaper a SIGTERM or a SIGINT.
OutsideSignal ==
  /\ "signal" \in Faults /\ rpc # "off" /\ ~ReaperGone
  /\ signalled' = signalled \cup {"TERM"}
  /\ UNCHANGED <<launcherVars, rpc, parentDied, ready, kids, ipcVars, treeVars>>

\* terminate_process gives up after a second: SIGKILL, and no wait for the end.
KillReaper ==
  /\ lpc = "stopping" /\ ~ReaperGone /\ rpc # "off" /\ TimerFires
  /\ signalled' = signalled \cup {"KILL"} /\ LauncherGoes("closing")
  /\ UNCHANGED <<result, launched, cleanUps, rpc, parentDied, ready, kids, ipcVars, treeVars>>

\* A SIGKILL, the launcher's or somebody's, ends the reaper.
KillArrives ==
  /\ rpc # "off" /\ ~ReaperGone /\ ("KILL" \in signalled \/ "kill" \in Faults)
  /\ ReaperEnds("killed")
  /\ UNCHANGED <<launcherVars, parentDied, ready, kids, signalled, ipcVars, par, born, killed,
                 sigchld>>

-----------------------------------------------------------------------------
TreeNext == ProcForks \/ (\E p \in Procs : ProcDies(p)) \/ ProcReaps

LauncherNext ==
  \/ Create \/ SpawnReaper \/ OpenPidfd \/ SendParentFd \/ LaunchReturns \/ LaunchHangsUp
  \/ CleanUpStarts \/ CleanUpAsks \/ CleanUpReturns
  \/ StopReaper \/ ReaperStopped \/ CloseIpc \/ LauncherCrashes \/ LauncherDies
  \/ KillReaper

CloseNext == CloseRound \/ CloseReaps \/ CloseKills \/ CloseReapsAgain \/ Finishes

ReaperNext ==
  \/ Connect \/ ReceiveParentFd \/ LaunchCommand \/ LaunchFails \/ Settles
  \/ SettlesBadly \/ Returns \/ Announce
  \/ PollReturns \/ HandleParent \/ HandleIpc \/ HandleSigchld \/ ReapsZombies
  \/ TakesSignal \/ CloseNext

\* The launcher has exited and so has its reaper, if there was one.
Stopped ==
  /\ lpc = "dead" /\ (ReaperGone \/ rpc = "off")
  /\ UNCHANGED vars

Next == TreeNext \/ LauncherNext \/ ReaperNext \/ OutsideSignal \/ KillArrives \/ Stopped

Spec == Init /\ [][Next]_vars

\* The reaper runs, a call of the launcher in progress goes on, and a SIGKILL
\* is delivered.  A process need not exit, reap its children or heed SIGTERM.
Fairness ==
  /\ WF_vars(ReaperNext)
  /\ WF_vars(OpenPidfd \/ SendParentFd \/ LaunchReturns \/ LaunchHangsUp \/ CleanUpAsks
             \/ CleanUpReturns \/ ReaperStopped \/ CloseIpc \/ LauncherDies)
  /\ WF_vars("KILL" \in signalled /\ KillArrives)
  /\ \A p \in Procs : WF_vars(p \in killed /\ ProcDies(p))

FairSpec == Spec /\ Fairness

-----------------------------------------------------------------------------
(* Properties.                                                              *)

Gone == \A p \in Procs : st[p] \in {"unborn", "gone"}

\* When the reaper says FINISHED_CLEANING_UP, and when it exits at the end of
\* on_exit, no process the command started is left, whatever forks, orphans and
\* exits raced with close_all_descendants (cleanup.cpp:59-80).
FinishedMeansGone ==
  /\ rpc \in {"finish", "exited", "unsent"} => Gone
  /\ \A i \in DOMAIN toLauncher : toLauncher[i] = "FINISHED_CLEANING_UP" => Gone

\* clean_up() only returns true when nothing is left (reaper.h:37-44).
CleanUpTruthful == result = "true" => Gone

\* Once launch() has returned OK, whichever way the reaper ends and whatever has become
\* of the launcher meanwhile (a request, a signal, the destructor, an exit or a crash of
\* the launcher) the reaper leaves nothing behind: "processes will still have been
\* reaped as long as the reaper hasn't crashed or been sigkilled" (reaper.h:41-43).
LaunchedMeansReaped ==
  launched /\ ReaperGone /\ rpc # "killed" => Gone

\* A reaper that waits in poll() has no zombie it does not know of: SIGCHLDs
\* that were merged into one are made up for by wait_all().
NoZombieForgotten == rpc = "poll" /\ Zombies # {} => sigchld

\* What the launcher or the reaper waits for without a limit is there, or the other
\* still has to do it, whatever ends, times out or is told to stop first: the
\* connection (reaper.cpp:48), the pidfd that the reaper starts with (impl.cpp:78), its
\* verdict (reaper.cpp:53), a request and a SIGTERM that have not been heeded
\* (reaper.cpp:88, process.cpp:12), and the end of the launcher.  There is one wait in
\* vain, which the first conjunct names: when the reaper is killed before it has
\* connected (a SIGKILL, or a SIGTERM or SIGINT before it has handlers), nothing ends
\* the accept of the launcher.
NoVainWait ==
  /\ lpc = "accept" /\ ~linked => rpc \in {"boot", "killed"}
  /\ rpc = "connected" =>
       \/ fdSent \/ ~open \/ signalled # {}
       \/ lpc \in {"spawned", "failing"} \/ (lpc = "accept" /\ linked)
  /\ lpc = "await" /\ rpc \in {"leaving", "poll", "handle", "wait"} => toLauncher # <<>>
  /\ lpc = "polling" /\ rpc \in {"poll", "handle", "wait"} => toReaper # <<>>
  /\ lpc = "stopping" /\ ~ReaperGone /\ "TERM" \notin signalled =>
       rpc \in {"closing", "reap", "kill", "reapAgain", "finish"}
  /\ lpc \in {"gone", "dying", "dead"} /\ rpc = "poll" => PollReady # {}

\* The reaper removes the socket's file when it exits because its launcher did,
\* "without calling clean_up" (impl.h:72-75).
FileRemovedAfterParentExit ==
  lpc = "dead" /\ cleanUps = 0 /\ ready \cap {"parent", "ipc"} # {}
  /\ rpc \in {"exited", "unsent"} => ~file

\* The service as seen from outside: the launcher's calls, the life of the reaper,
\* and the messages that are on their way to the launcher.
Phase ==
  CASE lpc \in {"new", "created"} -> "before"
    [] lpc = "spawned" -> "opening"
    [] lpc \in {"accept", "await"} -> "launching"
    [] lpc \in {"up", "asking", "polling"} -> "up"
    [] lpc = "gone" -> "destroyed"
    [] lpc \in {"dying", "dead"} -> "exited"
    [] OTHER -> "ending"

Guard ==
  CASE rpc = "off" -> "none"
    [] rpc \in {"boot", "connected", "launch", "settle", "announce"} -> "starting"
    [] rpc = "leaving" -> "refusing"
    [] rpc \in {"exited", "unsent"} -> "done"
    [] rpc \in {"aborted", "returned"} -> "failed"
    [] rpc = "killed" -> "killed"
    [] OTHER -> "watching"

Words == {toLauncher[i] : i \in DOMAIN toLauncher}

Doomed == "KILL" \in signalled

Service == INSTANCE ReaperService WITH
  phase <- Phase, said <- result, doomed <- Doomed, guard <- Guard, words <- Words

\* Launcher and reaper together are the service that reaper.h:19-55 describes: each step
\* of theirs is one of it, or none.  clean_up() reports the end once and after it, also
\* when the answer to an earlier call comes late; a reaper that has taken the command
\* on, or is told to end while it refuses the command, ends when nothing is left, or is
\* killed; launch() fails only when it is told INVALID_COMMAND, or the reaper has ended,
\* or there is no pidfd to give it; and the destructor leaves no reaper but one that it
\* has sent a SIGKILL to.
ServiceKept == Service!Spec

\* A reaper that was asked to clean up does so, unless it is killed itself; and the
\* command does not outlive a launcher that was killed once the reaper has said
\* that it runs, whether the reaper sees the hang-up or the exit of the launcher
\* first (reaper_test.cpp, ParentExitTest).
CleanUpDone ==
  /\ toReaper # <<>> ~> Gone \/ rpc = "killed"
  /\ lpc \in {"dying", "dead"} /\ rpc = "poll" ~> Gone \/ rpc = "killed"

\* Neither wait of launch() has a limit (reaper.cpp:48, :53), but it returns: a
\* reaper that is left to itself connects and answers whatever the command does.
LaunchAnswered ==
  lpc \in {"spawned", "accept", "await"} ~>
    lpc \notin {"spawned", "accept", "await"} \/ rpc = "killed"
=============================================================================
