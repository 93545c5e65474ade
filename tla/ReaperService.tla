--------------------------- MODULE ReaperService ---------------------------
(***************************************************************************)
(* What reaper::Reaper promises who launches a command with it (reaper.h): *)
(* a reaper that has taken the command on leaves nothing of it behind,     *)
(* whatever its launcher does, unless it is killed; a launch() that waits  *)
(* for the reaper only fails when that refuses the command or has ended;   *)
(* clean_up() reports the end at most once, and only after it; and the     *)
(* destructor leaves no reaper but one that it has sent a SIGKILL to.      *)
(***************************************************************************)
CONSTANT Procs   \* the processes a command may ever have

VARIABLES
  phase,    \* of the launcher: "before", "opening", "launching", "up", "ending",
            \* "destroyed", "exited"
  said,     \* what the last clean_up() returned
  doomed,   \* the reaper has been sent a SIGKILL by its launcher
  guard,    \* of the reaper: "none", "starting", "refusing", "watching", "done",
            \* "failed", "killed"
  words,    \* what the reaper has said and the launcher has not read
  st        \* of a process: "unborn", "alive", "zombie", "gone"

launcherVars == <<phase, said, doomed>>
vars == <<launcherVars, guard, words, st>>

Init ==
  /\ phase = "before" /\ said = "none" /\ doomed = FALSE /\ guard = "none" /\ words = {}
  /\ st = [p \in Procs |-> "unborn"]

Present == guard \in {"starting", "refusing", "watching"}

\* launch(), which is over at once when the reaper cannot be spawned, ...
Launches ==
  /\ phase = "before"
  /\ \/ phase' = "opening" /\ guard' = "starting"
     \/ phase' = "ending" /\ UNCHANGED guard
  /\ UNCHANGED <<said, doomed, words, st>>

\* ... or cannot be told who its launcher is.
Waits ==
  /\ phase = "opening" /\ phase' \in {"launching", "ending"}
  /\ UNCHANGED <<said, doomed, guard, words, st>>

Reads(word) == word \in words /\ words' = words \ {word}

LaunchSucceeds ==
  /\ phase = "launching" /\ Reads("FINISHED_LAUNCH")
  /\ phase' = "up" /\ UNCHANGED <<said, doomed, guard, st>>

LaunchFails ==
  /\ phase = "launching"
  /\ \/ Reads("INVALID_COMMAND")
     \/ ~Present /\ (Reads("FINISHED_CLEANING_UP") \/ UNCHANGED words)
  /\ phase' = "ending" /\ UNCHANGED <<said, doomed, guard, st>>

\* clean_up() returns.
CleanUpSays ==
  /\ phase = "up"
  /\ \/ said' = "true" /\ Reads("FINISHED_CLEANING_UP")
     \/ said' = "false" /\ UNCHANGED words
  /\ UNCHANGED <<phase, doomed, guard, st>>

\* The destructor, which waits for the reaper, and kills it when that takes long.
Stops == phase = "up" /\ phase' = "ending" /\ UNCHANGED <<said, doomed, guard, words, st>>

Kills ==
  /\ phase = "ending" /\ Present
  /\ doomed' = TRUE /\ UNCHANGED <<phase, said, guard, words, st>>

Destroyed ==
  /\ phase = "ending" /\ (~Present \/ doomed)
  /\ phase' = "destroyed" /\ UNCHANGED <<said, doomed, guard, words, st>>

\* The launcher exits or is killed, at any time.
Exits == phase' = "exited" /\ UNCHANGED <<said, doomed, guard, words, st>>

-----------------------------------------------------------------------------
\* Some zombies are waited for.
Waited(s) ==
  \E Z \in SUBSET Procs :
    st' = [p \in Procs |-> IF p \in Z /\ s[p] = "zombie" THEN "gone" ELSE s[p]]

\* The command is started once, and from then on its processes start others.
Starts(q) ==
  /\ guard = "starting" /\ \A p \in Procs : st[p] = "unborn"
  /\ st' = [st EXCEPT ![q] = "alive"]

Forks(p, q) ==
  /\ st[p] = "alive" /\ st[q] = "unborn"
  /\ st' = [st EXCEPT ![q] = "alive"]

Dies(p) == st[p] = "alive" /\ Waited([st EXCEPT ![p] = "zombie"])

CommandGoesOn ==
  /\ \/ \E q \in Procs : Starts(q)
     \/ \E p, q \in Procs : Forks(p, q)
     \/ \E p \in Procs : Dies(p)
     \/ Waited(st)
  /\ UNCHANGED <<launcherVars, guard, words>>

\* The launcher need not be there to hear it.
Says(word) == words' \in {words, words \cup {word}}

\* The reaper takes the command on, and says so unless it is told to end first.
Watches ==
  /\ guard = "starting" /\ guard' = "watching"
  /\ Says("FINISHED_LAUNCH")
  /\ UNCHANGED <<launcherVars, st>>

\* It refuses a command that cannot be run or is over with an error ...
Refuses ==
  /\ guard = "starting" /\ guard' = "refusing"
  /\ Says("INVALID_COMMAND") /\ Waited(st)
  /\ UNCHANGED launcherVars

\* ... and is told to end before it has gone.
TurnsBack ==
  /\ guard = "refusing" /\ guard' = "watching"
  /\ UNCHANGED <<launcherVars, words, st>>

\* It goes without cleaning up: the command is refused, or the launcher has gone.
Fails ==
  /\ guard \in {"starting", "refusing"} /\ guard' = "failed" /\ Waited(st)
  /\ UNCHANGED <<launcherVars, words>>

\* It ends when nothing is left, and says so to a launcher that is there.
Finishes ==
  /\ guard = "watching" /\ guard' = "done"
  /\ \A p \in Procs : st[p] \in {"unborn", "gone"}
  /\ Says("FINISHED_CLEANING_UP")
  /\ UNCHANGED <<launcherVars, st>>

Killed ==
  /\ Present /\ guard' = "killed" /\ Waited(st)
  /\ UNCHANGED <<launcherVars, words>>

Next ==
  \/ Launches \/ Waits \/ LaunchSucceeds \/ LaunchFails \/ CleanUpSays
  \/ Stops \/ Kills \/ Destroyed \/ Exits
  \/ CommandGoesOn \/ Watches \/ Refuses \/ TurnsBack \/ Fails \/ Finishes \/ Killed

Spec == Init /\ [][Next]_vars
=============================================================================
