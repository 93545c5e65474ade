------------------------------ MODULE Process ------------------------------
(***************************************************************************)
(* launch_process and Process (src/process/): the launcher's descriptors   *)
(* while several threads launch, the child's descriptors and environment,  *)
(* and the child's end by ~Process, next to others who may wait for the    *)
(* launcher's children.  Process ids are reused once they are free.        *)
(***************************************************************************)
EXTENDS Integers, EnvVars

CONSTANTS
  Procs,      \* one launch, its Process and its child each
  Pids, MaxFds,
  Inherited,  \* the descriptors that the launcher starts with
  Environ,    \* the launcher's environment, a list of assignments
  Names,      \* names of variables
  Chars,      \* what values are made of
  Requests,   \* bound: what each launch may ask for
  Faults      \* "spawn": posix_spawnp may fail; "waits": the process may wait
              \* for its children elsewhere (cleanup.cpp:52, impl.cpp:93)

Fds == 0..(MaxFds - 1)
Streams == {"out", "err"}
None == -1

\* stdout and stderr are open in the launcher.
ASSUME StandardAssumption ==
  MaxFds \in Nat /\ Inherited \subseteq Fds /\ {1, 2} \subseteq Inherited
ASSUME PidsAssumption == Pids \subseteq Nat
ASSUME ProcsAssumption == {"launcher", "nobody"} \cap Procs = {}

\* StreamKind
Kinds == {"none", "pipe", "stdout_pipe", "file"}

\* The two streams; the environment, which is the launcher's ("null") or that of
\* an EnvVars that began as a copy of it or empty and went through some calls.
ASSUME RequestsAssumption == \A p \in Procs : \A r \in Requests[p] :
  /\ r.out \in Kinds /\ r.err \in Kinds /\ r.env \in {"null", "copy", "empty"}
  /\ r.calls \in Seq([do : {"set", "prepend"}, name : Names, val : Seq(Chars)])
  /\ r.env = "null" => r.calls = <<>>
ASSUME EnvironAssumption == Environ \in Seq([name : Names, val : Seq(Chars)])

VARIABLES
  pc, request,
  fds,        \* the launcher's table: what each descriptor refers to
  held,       \* the StreamOuts of prelaunch, then of the Process
  ends,       \* close_after_spawn: the pipes' write ends
  child, pid, table, environment,
  alone,      \* nothing else was spawned during the launch
  strangers,  \* ids that have gone to somebody else's processes
  doomed,     \* the launches whose child a SIGKILL is on its way to
  hit,        \* a signal went to a process that is not the Process's child
  stolen      \* somebody else has waited for a child

launchVars == <<request, held, ends>>
childVars  == <<child, pid, table, environment, alone>>
worldVars  == <<strangers, doomed, hit, stolen>>
vars == <<pc, launchVars, fds, childVars, worldVars>>

\* What a descriptor refers to: a file or an end of a pipe of a launch.
Things == [of : Procs \cup {"launcher", "nobody"}, as : Streams \cup {"other"},
           end : {"file", "read", "write"}]
Thing(p, s, e) == [of |-> p, as |-> s, end |-> e]
Closed == Thing("nobody", "other", "file")
Own(f) == Thing("launcher", CASE f = 1 -> "out" [] f = 2 -> "err" [] OTHER -> "other", "file")
Number(s) == IF s = "out" THEN 1 ELSE 2

Launching == {"out", "err", "spawn", "failed", "after"}
Ending == {"ending", "closing", "gone"}

TypeOK ==
  /\ pc \in [Procs -> {"none", "refused", "held"} \cup Launching \cup Ending]
  /\ \A p \in Procs : pc[p] \notin {"none", "refused", "gone"} => request[p] \in Requests[p]
  /\ DOMAIN request = Procs
  /\ fds \in [Fds -> Things] /\ table \in [Procs -> [Fds -> Things]]
  /\ held \in [Procs -> [Streams -> Fds \cup {None}]]
  /\ ends \in [Procs -> [Streams -> Fds \cup {None}]]
  /\ child \in [Procs -> {"none", "runs", "zombie", "reaped"}]
  /\ pid \in [Procs -> Pids \cup {None}]
  /\ \A p \in Procs : pc[p] \in {"after", "held", "ending", "closing"} => pid[p] \in Pids
  /\ DOMAIN environment = Procs
  /\ alone \in [Procs -> BOOLEAN]
  /\ strangers \subseteq Pids /\ doomed \subseteq Procs /\ hit \in BOOLEAN /\ stolen \in BOOLEAN

NoTable == [f \in Fds |-> Closed]
NoStreams == [s \in Streams |-> None]
NoRequest == [out |-> "none", err |-> "none", env |-> "null", calls |-> <<>>]

Init ==
  /\ pc = [p \in Procs |-> "none"] /\ request = [p \in Procs |-> NoRequest]
  /\ fds = [f \in Fds |-> IF f \in Inherited THEN Own(f) ELSE Closed]
  /\ held = [p \in Procs |-> NoStreams] /\ ends = [p \in Procs |-> NoStreams]
  /\ child = [p \in Procs |-> "none"] /\ pid = [p \in Procs |-> None]
  /\ table = [p \in Procs |-> NoTable]
  /\ environment = [p \in Procs |-> <<>>]
  /\ alone = [p \in Procs |-> TRUE]
  /\ strangers = {} /\ doomed = {} /\ hit = FALSE /\ stolen = FALSE

-----------------------------------------------------------------------------
(* Descriptor tables.                                                       *)

\* The kernel hands out the lowest descriptor that is closed.
Lowest(t, f) == t[f] = Closed /\ \A g \in Fds : g < f => t[g] # Closed

With(t, f, thing) == IF f = None THEN t ELSE [t EXCEPT ![f] = thing]
Without(t, F) == [f \in Fds |-> IF f \in F THEN Closed ELSE t[f]]

\* The adddup2 of a stream: its descriptor in the launcher.
Source(p, s) ==
  CASE request[p][s] = "pipe"        -> ends[p][s]
    [] request[p][s] = "stdout_pipe" -> ends[p]["out"]
    [] request[p][s] = "file"        -> held[p][s]
    [] OTHER                         -> None

Dup(t, f, g) == IF f = None THEN t ELSE [t EXCEPT ![g] = t[f]]

\* Mutant of SubprocClose: the child keeps the reading ends.
ClosesWriteEnds(p) == {ends[p][s] : s \in {r \in Streams : request[p][r] = "pipe"}}

\* subproc_close: both ends of every pipe.
SubprocClose(p) ==
  UNION {{held[p][s], ends[p][s]} : s \in {r \in Streams : request[p][r] = "pipe"}}

\* Mutant of ChildTable: the closes come first.
ClosesFirst(p) ==
  Dup(Dup(Without(fds, SubprocClose(p)), Source(p, "out"), 1), Source(p, "err"), 2)

\* posix_spawn runs the file actions on a copy of the launcher's table.
ChildTable(p) ==
  Without(Dup(Dup(fds, Source(p, "out"), 1), Source(p, "err"), 2), SubprocClose(p))

-----------------------------------------------------------------------------
(* launch_process.                                                          *)

\* validate_process_out_conf
Valid(r) == r.out # "stdout_pipe" /\ (r.err = "stdout_pipe" => r.out = "pipe")

\* StreamOutConf::File: the caller opens the files that it asks for.
OpensFiles(p, r) ==
  \E f, g \in Fds \cup {None} :
    /\ IF r.out = "file" THEN f # None /\ Lowest(fds, f) ELSE f = None
    /\ IF r.err = "file"
         THEN g # None /\ Lowest(With(fds, f, Thing(p, "out", "file")), g)
         ELSE g = None
    /\ fds' = With(With(fds, f, Thing(p, "out", "file")), g, Thing(p, "err", "file"))
    /\ held' = [held EXCEPT ![p] = [s \in Streams |-> IF s = "out" THEN f ELSE g]]

\* A request that is not valid is refused, and its files are closed.
Launch(p, r) ==
  /\ pc[p] = "none"
  /\ \/ /\ ~Valid(r)
        /\ pc' = [pc EXCEPT ![p] = "refused"] /\ UNCHANGED <<request, fds, held>>
     \/ /\ Valid(r) /\ OpensFiles(p, r)
        /\ request' = [request EXCEPT ![p] = r] /\ pc' = [pc EXCEPT ![p] = "out"]
  /\ UNCHANGED <<ends, childVars, worldVars>>

\* process_streams_prelaunch: the switch for stdout, then the one for stderr.
Prepare(p, s) ==
  /\ pc[p] = s
  /\ \/ /\ request[p][s] = "pipe"
        /\ \E r, w \in Fds :
             LET t == [fds EXCEPT ![r] = Thing(p, s, "read")]
             IN /\ Lowest(fds, r) /\ Lowest(t, w)
                /\ fds' = [t EXCEPT ![w] = Thing(p, s, "write")]
                /\ held' = [held EXCEPT ![p][s] = r] /\ ends' = [ends EXCEPT ![p][s] = w]
     \/ request[p][s] # "pipe" /\ UNCHANGED <<fds, held, ends>>
  /\ pc' = [pc EXCEPT ![p] = IF s = "out" THEN "err" ELSE "spawn"]
  /\ UNCHANGED <<request, childVars, worldVars>>

\* An id is free again once its process has been waited for.
FreePids == Pids \ (strangers \cup {pid[p] : p \in {q \in Procs : child[q] \in {"runs", "zombie"}}})

EnvironmentOf(r) ==
  CASE r.env = "null"  -> Environ
    [] r.env = "copy"  -> Vars(Edited(FromEnv(Environ), r.calls))
    [] r.env = "empty" -> Vars(Edited(FromEnv(<<>>), r.calls))

\* posix_spawnp, with the list of the caller's EnvVars or with environ.
Spawn(p) ==
  /\ pc[p] = "spawn"
  /\ \E n \in FreePids : pid' = [pid EXCEPT ![p] = n]
  /\ child' = [child EXCEPT ![p] = "runs"] /\ table' = [table EXCEPT ![p] = ChildTable(p)]
  /\ environment' = [environment EXCEPT ![p] = EnvironmentOf(request[p])]
  /\ alone' = [q \in Procs |-> alone[q] /\ (q # p => pc[q] \notin Launching)]
  /\ pc' = [pc EXCEPT ![p] = "after"]
  /\ UNCHANGED <<launchVars, fds, worldVars>>

\* posix_spawnp fails ...
SpawnFails(p) ==
  /\ "spawn" \in Faults /\ pc[p] = "spawn"
  /\ pc' = [pc EXCEPT ![p] = "failed"]
  /\ UNCHANGED <<launchVars, fds, childVars, worldVars>>

\* Mutant of Drops: only close_after_spawn is closed.
DropsEnds(p) == {ends[p][s] : s \in Streams}

\* ... and prelaunch is destroyed with all it holds.
Drops(p) == UNION {{held[p][s], ends[p][s]} : s \in Streams}

ReturnsError(p) ==
  /\ pc[p] = "failed"
  /\ fds' = Without(fds, Drops(p))
  /\ held' = [held EXCEPT ![p] = NoStreams] /\ ends' = [ends EXCEPT ![p] = NoStreams]
  /\ request' = [request EXCEPT ![p] = NoRequest] /\ pc' = [pc EXCEPT ![p] = "refused"]
  /\ UNCHANGED <<childVars, worldVars>>

\* Mutant of LeftBehind: operator= does not take the descriptor from the other.
KeepsFds(p) == {held[p][s] : s \in Streams}

\* Descriptors of prelaunch's StreamOuts after the moves into the Process and
\* the moves of that.
LeftBehind(p) == {}

\* close_after_spawn.clear(), and the return.
ReturnsProcess(p) ==
  /\ pc[p] = "after"
  /\ fds' = Without(fds, {ends[p][s] : s \in Streams} \cup LeftBehind(p))
  /\ ends' = [ends EXCEPT ![p] = NoStreams]
  /\ pc' = [pc EXCEPT ![p] = "held"]
  /\ UNCHANGED <<request, held, childVars, worldVars>>

-----------------------------------------------------------------------------
(* ~Process.                                                                *)

\* The child with the id that a Process has, and others that have come to it.
Targets(p) == {q \in Procs : child[q] = "runs" /\ pid[q] = pid[p]}

Kill(p) ==
  /\ hit' = (hit \/ pid[p] \in strangers \/ Targets(p) \ {p} # {})
  /\ UNCHANGED <<strangers, stolen>>

\* terminate_process up to its loop; a child may ignore SIGTERM.
Terminate(p) ==
  /\ pc[p] = "held"
  /\ Kill(p)
  /\ pc' = [pc EXCEPT ![p] = "ending"]
  /\ UNCHANGED <<launchVars, fds, childVars, doomed>>

\* Mutant of WaitPid: the loop goes on after it has reaped the child.
WaitsOn(p) ==
  /\ pc[p] = "ending"
  /\ \E q \in Procs :
       /\ child[q] = "zombie" /\ pid[q] = pid[p]
       /\ child' = [child EXCEPT ![q] = "reaped"]
  /\ UNCHANGED <<pc, launchVars, fds, pid, table, environment, alone, worldVars>>

\* waitpid returns the id.  While it returns 0, or fails because nothing has the
\* id any more, the loop goes on.
WaitPid(p) ==
  /\ pc[p] = "ending"
  /\ \E q \in Procs :
       /\ child[q] = "zombie" /\ pid[q] = pid[p]
       /\ child' = [child EXCEPT ![q] = "reaped"]
  /\ pc' = [pc EXCEPT ![p] = "closing"]
  /\ UNCHANGED <<launchVars, fds, pid, table, environment, alone, worldVars>>

\* Mutant of TimesOut: no SIGKILL.
GivesUp(p) ==
  /\ pc[p] = "ending" /\ pc' = [pc EXCEPT ![p] = "closing"]
  /\ UNCHANGED <<launchVars, fds, childVars, worldVars>>

\* Mutant of TimesOut: the time is looked at only when waitpid has returned 0.
TimesOutOnZero(p) ==
  /\ pc[p] = "ending" /\ Targets(p) # {}
  /\ Kill(p)
  /\ doomed' = doomed \cup Targets(p)
  /\ pc' = [pc EXCEPT ![p] = "closing"]
  /\ UNCHANGED <<launchVars, fds, childVars>>

\* A second is over: SIGKILL, and no wait for the child's end.
TimesOut(p) ==
  /\ pc[p] = "ending"
  /\ Kill(p)
  /\ doomed' = doomed \cup Targets(p)
  /\ pc' = [pc EXCEPT ![p] = "closing"]
  /\ UNCHANGED <<launchVars, fds, childVars>>

\* ~Fd of the members stdout and stderr.
CloseStreams(p) ==
  /\ pc[p] = "closing"
  /\ fds' = Without(fds, {held[p][s] : s \in Streams})
  /\ held' = [held EXCEPT ![p] = NoStreams]
  /\ request' = [request EXCEPT ![p] = NoRequest] /\ pc' = [pc EXCEPT ![p] = "gone"]
  /\ UNCHANGED <<ends, childVars, worldVars>>

-----------------------------------------------------------------------------
(* The children and the rest of the system.                                 *)

\* By itself or because of a signal.  The kernel drops what it held.
Exits(p) ==
  /\ child[p] = "runs"
  /\ child' = [child EXCEPT ![p] = "zombie"]
  /\ table' = [table EXCEPT ![p] = NoTable]
  /\ environment' = [environment EXCEPT ![p] = <<>>]
  /\ doomed' = doomed \ {p}
  /\ UNCHANGED <<pc, launchVars, fds, pid, alone, strangers, hit, stolen>>

\* The launching process waits for its children elsewhere.
OthersWait(p) ==
  /\ "waits" \in Faults /\ child[p] = "zombie"
  /\ child' = [child EXCEPT ![p] = "reaped"] /\ stolen' = TRUE
  /\ UNCHANGED <<pc, launchVars, fds, pid, table, environment, alone, strangers, doomed, hit>>

\* The id of a child that was reaped goes to a process of somebody else.
StrangerStarts(p) ==
  /\ child[p] = "reaped" /\ pid[p] \in FreePids
  /\ strangers' = strangers \cup {pid[p]}
  /\ UNCHANGED <<pc, launchVars, fds, childVars, doomed, hit, stolen>>

-----------------------------------------------------------------------------
Next ==
  \E p \in Procs :
    \/ (\E r \in Requests[p] : Launch(p, r)) \/ (\E s \in Streams : Prepare(p, s))
    \/ Spawn(p) \/ SpawnFails(p) \/ ReturnsError(p) \/ ReturnsProcess(p)
    \/ Terminate(p) \/ WaitPid(p) \/ TimesOut(p) \/ CloseStreams(p)
    \/ Exits(p) \/ OthersWait(p) \/ StrangerStarts(p)

Spec == Init /\ [][Next]_vars

\* Threads go on, and time passes.  No child has to exit but for SIGKILL.
FairSpec == Spec /\ \A p \in Procs :
  /\ WF_vars(\E s \in Streams : Prepare(p, s)) /\ WF_vars(Spawn(p) \/ SpawnFails(p))
  /\ WF_vars(ReturnsError(p) \/ ReturnsProcess(p))
  /\ WF_vars(WaitPid(p) \/ TimesOut(p)) /\ WF_vars(CloseStreams(p))
  /\ WF_vars(p \in doomed /\ Exits(p))

-----------------------------------------------------------------------------
(* Properties.                                                              *)

\* What a stream of a request is to be connected to.
Asked(p, s) ==
  CASE request[p][s] = "none"        -> Own(Number(s))
    [] request[p][s] = "pipe"        -> Thing(p, s, "write")
    [] request[p][s] = "stdout_pipe" -> Thing(p, "out", "write")
    [] request[p][s] = "file"        -> Thing(p, s, "file")

\* Whatever descriptors are free and whoever launches at the same time, a child's
\* stdout and stderr are what was asked for, and the Process reads from the other
\* ends of its own pipes (process_helpers.cpp:20-95).
StreamsAsAsked == \A p \in Procs :
  /\ child[p] = "runs" /\ pc[p] # "gone" => \A s \in Streams : table[p][Number(s)] = Asked(p, s)
  /\ pc[p] = "held" => \A s \in Streams :
       request[p][s] = "pipe" => held[p][s] # None /\ fds[held[p][s]] = Thing(p, s, "read")

\* End of file reaches the reader: the launcher has let go of a pipe's writing end
\* when launch_process returns, the child has it as its stdout and stderr only and
\* does not hold its own reading end, and no other child has the writing end unless
\* one was spawned during the launch.
EndOfFileComes == \A p \in Procs :
  /\ pc[p] \notin Launching => \A f \in Fds : fds[f] \notin {Thing(p, s, "write") : s \in Streams}
  /\ \A f \in Fds : table[p][f].of = p =>
       table[p][f].end = "file" \/ (table[p][f].end = "write" /\ f \in {1, 2})
  /\ pc[p] \notin Launching /\ alone[p] => \A q \in Procs \ {p}, f \in Fds :
       table[q][f] \notin {Thing(p, s, "write") : s \in Streams}

\* Every descriptor has one owner: what is open is what the launcher began with or
\* belongs to a launch or a Process that refers to it, also when launches fail, and
\* no owner's descriptor is closed by another (fd.cpp).
FdsOwned ==
  /\ \A f \in Fds : fds[f] = IF f \in Inherited THEN Own(f) ELSE
       IF \E p \in Procs, s \in Streams : f \in {held[p][s], ends[p][s]}
         THEN fds[f] ELSE Closed
  /\ \A p \in Procs, s \in Streams :
       /\ held[p][s] # None => fds[held[p][s]] \in {Thing(p, s, "file"), Thing(p, s, "read")}
       /\ ends[p][s] # None => fds[ends[p][s]] = Thing(p, s, "write")

\* What getenv finds in the child: for a name that no call was about, what it
\* found in the launcher; otherwise what the calls say (env_vars.cpp:25-42).
EnvironmentAsAsked == \A p \in Procs : child[p] = "runs" /\ pc[p] # "gone" =>
  LET r == request[p]
      base == IF r.env = "empty" THEN <<>> ELSE Environ
  IN \A n \in Names :
       LET about == {i \in DOMAIN r.calls : r.calls[i].name = n}
           last  == CHOOSE i \in about : \A j \in about : j <= i
           was   == Getenv(base, n)
           now   == Getenv(environment[p], n)
       IN /\ about = {} => now = was
          /\ about # {} => \E v \in now :
               /\ IsPrefix(r.calls[last].val, v)
               /\ r.calls[last].do = "set" => v = r.calls[last].val
               /\ (\A i \in about : r.calls[i].do = "prepend") =>
                    \A w \in was : /\ IsSuffix(w, v)
                                   /\ Len(v) >= Len(w) + Len(r.calls[last].val)

\* "callers need to hold on to it as long as they want the process to continue
\* running" (process.h:31-32): unless somebody else has waited for a child, only
\* the destructor of its own Process signals it, and no signal goes to an id that
\* is not the child's any more (process.cpp:10-23).
SignalsOwnChild == hit => stolen

\* Whoever waits for it, a child that still runs when ~Process has done its work
\* has a SIGKILL on its way, which nobody waits for (process.cpp:21-22).
DestroyedIsKilled == \A p \in Procs :
  pc[p] \in {"closing", "gone"} /\ child[p] = "runs" => p \in doomed

\* ~Process comes to an end, and with it or soon after it the child: also when the id
\* is not the child's any more, when the child ignores SIGTERM and when somebody else
\* has waited for it.
DestroyCompletes == \A p \in Procs :
  pc[p] = "ending" ~> pc[p] = "gone" /\ child[p] # "runs"
=============================================================================
